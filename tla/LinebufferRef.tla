--------------------------- MODULE LinebufferRef ----------------------------
(***************************************************************************)
(* What a line buffer of the HLS library computes, after linebuffer_ref in *)
(* apps/hls_examples/hls_support/Linebuffer.h: the stencils of the output  *)
(* extents at all places of the image, along dimension 0 first, then 1, 2  *)
(* and 3.                                                                  *)
(*                                                                         *)
(* All extents are multiples of the extents of the input stencil, which is *)
(* always moved as a whole, so the unit here is one input stencil: a shape *)
(* has the extents of the image (w, h, d and the number of frames, for     *)
(* dimensions 0 to 3) and of the output (ow, oh, od) in input stencils.    *)
(***************************************************************************)
EXTENDS Naturals

CONSTANT Shapes

ASSUME ShapesAssumption ==
    Shapes \subseteq [w : Nat \ {0}, h : Nat \ {0}, d : Nat \ {0}, frames : Nat \ {0},
                      ow : Nat \ {0}, oh : Nat \ {0}, od : Nat \ {0}]

VARIABLES
    shape,
    next,               \* where the next output stencil starts
    out                 \* the output stencil written last

(***************************************************************************)
(* A place in the image, and the one after it in a traversal of extents w, *)
(* h and d.                                                                *)
(***************************************************************************)
PlaceAt(t, z, y, x) == [t |-> t, z |-> z, y |-> y, x |-> x]
Origin == PlaceAt(0, 0, 0, 0)

Advance(p, w, h, d) ==
    IF p.x + 1 < w THEN PlaceAt(p.t, p.z, p.y, p.x + 1)
    ELSE IF p.y + 1 < h THEN PlaceAt(p.t, p.z, p.y + 1, 0)
    ELSE IF p.z + 1 < d THEN PlaceAt(p.t, p.z + 1, 0, 0)
    ELSE PlaceAt(p.t + 1, 0, 0, 0)

\* The stencil of extents e0, e1, e2 that starts at p: the image holds at every
\* place the name of that place.
View(p, e0, e1, e2) ==
    [i \in 0..e0-1 |-> [j \in 0..e1-1 |-> [k \in 0..e2-1 |->
        PlaceAt(p.t, p.z + k, p.y + j, p.x + i)]]]

Nothing == <<>>

RefInit ==
    /\ shape \in Shapes
    /\ next = Origin
    /\ out = Nothing

Write ==
    /\ next.t < shape.frames
    /\ out' = View(next, shape.ow, shape.oh, shape.od)
    /\ next' = Advance(next, shape.w - shape.ow + 1, shape.h - shape.oh + 1,
                       shape.d - shape.od + 1)
    /\ UNCHANGED shape

RefSpec == RefInit /\ [][Write]_<<shape, next, out>>
=============================================================================
