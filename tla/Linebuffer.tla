---------------------------- MODULE Linebuffer ------------------------------
(***************************************************************************)
(* The line buffers of apps/hls_examples/hls_support/Linebuffer.h: a       *)
(* network of dataflow processes, connected by streams that hold one       *)
(* element.                                                                *)
(*                                                                         *)
(*    in_stream -> LB3D_buf -> slice_3D -> LB2D_buf -> slice_2D            *)
(*              -> Linebuffer1D -> out_stream                              *)
(*                                                                         *)
(* Which of the processes exist, and what Linebuffer1D and Linebuffer2D    *)
(* do, depends on the extents: the overloads and specializations of the    *)
(* templates.  Every process is a pipelined loop: one iteration reads one  *)
(* stencil, stores it, and writes at most one; it stalls while it cannot.  *)
(***************************************************************************)
EXTENDS LinebufferRef

VARIABLES
    src,                \* the place in the image that is sent next
    streams,
    lb3,                \* LB3D_buf: the loop indices at, write_idx_2 and buffer
    lb2,                \* the process of Linebuffer2D, likewise
    lb1                 \* the process of Linebuffer1D

vars == <<shape, next, out, src, streams, lb3, lb2, lb1>>

Streams == {"in_stream", "slice_3D", "slice_2D", "out_stream"}

(***************************************************************************)
(* The overloads and specializations.  Operators named Bad... are not part *)
(* of the model: each is the operator after it with a plausible mistake,   *)
(* used to test that the properties notice the mistake.                    *)
(***************************************************************************)
HasLB3D == shape.od > 1

\* "lines" stands for the cases 1, 3, 4 and 5, which call linebuffer_1D on
\* every line or, where dimension 0 is trivial as well, pass on what they read.
Linebuffer2D ==
    CASE shape.oh = 1 -> "lines"
      [] shape.oh > 1 /\ shape.w = 1 -> "shift"
      [] shape.oh > 1 /\ shape.w > 1 /\ shape.ow = shape.w /\ shape.oh = shape.h -> "sipo"
      [] OTHER -> "buf"

Linebuffer1D ==
    CASE shape.ow = 1 -> "bypass"
      [] shape.ow > 1 /\ shape.ow = shape.w -> "sipo"
      [] OTHER -> "shift"

\* The static_asserts, and the specializations that would be ambiguous.
Instantiable(s) ==
    /\ s.ow <= s.w
    /\ s.oh > 1 => s.oh < s.h \/ (s.oh = s.h /\ s.ow = s.w /\ s.w > 1)
    /\ s.od > 1 => s.od < s.d /\ (s.w > 1 \/ s.h > 1)
    /\ s.oh <= s.h /\ s.od <= s.d

\* How often linebuffer_2D is called per frame, linebuffer_1D per call of that,
\* and how many stencils a line gives.
BadNUM_OF_OUTPUT_2 == shape.d - shape.od
NUM_OF_OUTPUT_2 == shape.d - shape.od + 1
NUM_OF_OUTPUT_1 == shape.h - shape.oh + 1

From2 == IF HasLB3D THEN "slice_3D" ELSE "in_stream"
From1 == IF Linebuffer2D = "lines" THEN From2 ELSE "slice_2D"

-----------------------------------------------------------------------------
\* An index in a ring of n lines, kept in range by one subtraction.
Wrapped(i, n) == IF i >= n THEN i - n ELSE i

\* n stencils on top of each other along dimension 2, 1 or 0.
Stack2(part, n) == [i \in 0..0 |-> [j \in 0..0 |-> [k \in 0..n-1 |-> part[k][0][0][0]]]]
Stack1(part, n) == [i \in 0..0 |-> [j \in 0..n-1 |-> part[j][0][0]]]
Stack0(part, n) == [i \in 0..n-1 |-> part[i][0]]

\* The lines of a ring whose oldest is at index at, followed by the input.
BadRing(buffer, at, n, input) == [k \in 0..n |-> IF k < n THEN buffer[k] ELSE input]
Ring(buffer, at, n, input) ==
    [k \in 0..n |-> IF k < n THEN buffer[Wrapped(k + at, n)] ELSE input]

\* One iteration: a stencil is read from one stream and, if emits, another
\* written to the next.
Iterate(from, to, emits, stencil) ==
    /\ streams[from] # <<>>
    /\ emits => streams[to] = <<>>
    /\ streams' = [streams EXCEPT ![from] = <<>>, ![to] = IF emits THEN <<stencil>> ELSE @]

Input(from) == streams[from][1]

\* The arrays are local, and not initialized: what they hold is no part of the
\* image.
Garbage(e1, e2) ==
    [i \in 0..0 |-> [j \in 0..e1-1 |-> [k \in 0..e2-1 |-> [Origin EXCEPT !.t = shape.frames]]]]

Fresh3 ==
    [l \in 0..shape.od-2 |-> [y \in 0..shape.h-1 |-> [x \in 0..shape.w-1 |-> Garbage(1, 1)]]]
Fresh2 == [l \in 0..shape.oh-1 |-> [x \in 0..shape.w-1 |-> Garbage(1, shape.od)]]
Fresh1 == [i \in 0..shape.ow-1 |-> Garbage(shape.oh, shape.od)]

Init ==
    /\ RefInit
    /\ Instantiable(shape)
    /\ src = Origin
    /\ streams = [c \in Streams |-> <<>>]
    /\ lb3 = [at |-> Origin, write_idx |-> 0, buffer |-> Fresh3]
    /\ lb2 = [at |-> Origin, write_idx |-> 0, buffer |-> Fresh2]
    /\ lb1 = [at |-> Origin, buffer |-> Fresh1]

-----------------------------------------------------------------------------
(***************************************************************************)
(* The line buffer on an AXI stream copies what it reads to in_stream.     *)
(***************************************************************************)
Source ==
    /\ src.t < shape.frames
    /\ streams["in_stream"] = <<>>
    /\ streams' = [streams EXCEPT !["in_stream"] = <<View(src, 1, 1, 1)>>]
    /\ src' = Advance(src, shape.w, shape.h, shape.d)
    /\ UNCHANGED <<shape, next, out, lb3, lb2, lb1>>

\* The consumer of the line buffer takes a stencil.
Sink ==
    /\ streams["out_stream"] # <<>>
    /\ out' = Input("out_stream")
    /\ streams' = [streams EXCEPT !["out_stream"] = <<>>]
    /\ next' = Advance(next, shape.w - shape.ow + 1, NUM_OF_OUTPUT_1, shape.d - shape.od + 1)
    /\ UNCHANGED <<shape, src, lb3, lb2, lb1>>

-----------------------------------------------------------------------------
\* LB3D_buf: a ring of od - 1 planes.
Buf3D ==
    LET n == shape.od - 1
        p == lb3.at
        w == Wrapped(lb3.write_idx, n)
        plane == [l \in 0..n-1 |-> lb3.buffer[l][p.y][p.x]]
        input == Input("in_stream")
        at == Advance(p, shape.w, shape.h, shape.d)
    IN  /\ HasLB3D /\ p.t < shape.frames
        /\ Iterate("in_stream", "slice_3D", p.z >= n, Stack2(Ring(plane, w, n, input), n + 1))
        /\ lb3' = IF at.t # p.t THEN [at |-> at, write_idx |-> 0, buffer |-> Fresh3]
                  ELSE [at |-> at, write_idx |-> IF at.z # p.z THEN w + 1 ELSE w,
                        buffer |-> [lb3.buffer EXCEPT ![w][p.y][p.x] = input]]
        /\ UNCHANGED <<shape, next, out, src, lb2, lb1>>

\* The next iteration of the process of Linebuffer2D.  A new call has new
\* variables.
Loop2D(write_idx, buffer) ==
    LET at == Advance(lb2.at, shape.w, shape.h, NUM_OF_OUTPUT_2)
    IN  lb2' = IF at.t # lb2.at.t \/ at.z # lb2.at.z
               THEN [at |-> at, write_idx |-> 0, buffer |-> Fresh2]
               ELSE [at |-> at, buffer |-> buffer,
                     write_idx |-> IF at.y # lb2.at.y THEN write_idx + 1 ELSE write_idx]

\* LB2D_buf: a ring of oh - 1 lines.
Buf2D ==
    LET n == shape.oh - 1
        p == lb2.at
        w == Wrapped(lb2.write_idx, n)
        column == [l \in 0..n-1 |-> lb2.buffer[l][p.x]]
        input == Input(From2)
    IN  /\ Linebuffer2D = "buf" /\ p.t < shape.frames
        /\ Iterate(From2, "slice_2D", p.y >= n, Stack1(Ring(column, w, n, input), n + 1))
        /\ Loop2D(w, [lb2.buffer EXCEPT ![w][p.x] = input])
        /\ UNCHANGED <<shape, next, out, src, lb3, lb1>>

\* A shift register gets one more stencil.
Shifted(buffer, n, input) == [i \in 0..n-1 |-> IF i < n - 1 THEN buffer[i + 1] ELSE input]

\* Case 2: the lines are single stencils, the buffer is a shift register.
Shift2D ==
    LET p == lb2.at
        input == Input(From2)
        column == Shifted([l \in 0..shape.oh-1 |-> lb2.buffer[l][0]], shape.oh, input)
    IN  /\ Linebuffer2D = "shift" /\ p.t < shape.frames
        /\ Iterate(From2, "out_stream", p.y >= shape.oh - 1, Stack1(column, shape.oh))
        /\ Loop2D(0, [l \in 0..shape.oh-1 |-> [x \in 0..0 |-> column[l]]])
        /\ UNCHANGED <<shape, next, out, src, lb3, lb1>>

\* The serial-in-parallel-out buffer: the output is the whole image.
Sipo2D ==
    LET p == lb2.at
        buffer == [lb2.buffer EXCEPT ![p.y][p.x] = Input(From2)]
        column(x) == Stack1([l \in 0..shape.oh-1 |-> buffer[l][x]], shape.oh)
    IN  /\ Linebuffer2D = "sipo" /\ p.t < shape.frames
        /\ Iterate(From2, "out_stream", p.y = shape.h - 1 /\ p.x = shape.w - 1,
                   Stack0([x \in 0..shape.w-1 |-> column(x)], shape.w))
        /\ Loop2D(0, buffer)
        /\ UNCHANGED <<shape, next, out, src, lb3, lb1>>

-----------------------------------------------------------------------------
\* Linebuffer1D, once for every line of stencils that comes in.
Loop1D(buffer) ==
    LET at == Advance(lb1.at, shape.w, NUM_OF_OUTPUT_1, NUM_OF_OUTPUT_2)
    IN  lb1' = [at |-> at, buffer |-> IF at.x = 0 THEN Fresh1 ELSE buffer]

On1D(kind) ==
    /\ Linebuffer2D \in {"lines", "buf"} /\ Linebuffer1D = kind
    /\ lb1.at.t < shape.frames

Bypass1D ==
    /\ On1D("bypass")
    /\ Iterate(From1, "out_stream", TRUE, Input(From1))
    /\ Loop1D(lb1.buffer)
    /\ UNCHANGED <<shape, next, out, src, lb3, lb2>>

\* LB1D_shiftreg.
BadFilled(x) == x > shape.ow - 1
Filled(x) == x >= shape.ow - 1

Shift1D ==
    LET buffer == Shifted(lb1.buffer, shape.ow, Input(From1))
    IN  /\ On1D("shift")
        /\ Iterate(From1, "out_stream", Filled(lb1.at.x), Stack0(buffer, shape.ow))
        /\ Loop1D(buffer)
        /\ UNCHANGED <<shape, next, out, src, lb3, lb2>>

\* LB1D_sipo.
Sipo1D ==
    LET buffer == [lb1.buffer EXCEPT ![lb1.at.x] = Input(From1)]
    IN  /\ On1D("sipo")
        /\ Iterate(From1, "out_stream", lb1.at.x = shape.w - 1, Stack0(buffer, shape.w))
        /\ Loop1D(buffer)
        /\ UNCHANGED <<shape, next, out, src, lb3, lb2>>

Next ==
    \/ Source \/ Buf3D \/ Buf2D \/ Shift2D \/ Sipo2D
    \/ Bypass1D \/ Shift1D \/ Sipo1D \/ Sink

Spec == Init /\ [][Next]_vars

\* The hardware never stops while it can move, and neither does its environment.
FairSpec == Spec /\ WF_vars(Next)

-----------------------------------------------------------------------------
\* The network writes what linebuffer_ref writes, in the same order: ring
\* buffers, shift registers and loop bounds fit together for every shape.
ImplementsRef == RefSpec

Empty == \A c \in Streams : streams[c] = <<>>

Before(p, q) ==
    \/ p.t < q.t
    \/ p.t = q.t /\ p.z < q.z
    \/ p.t = q.t /\ p.z = q.z /\ p.y < q.y
    \/ p.t = q.t /\ p.z = q.z /\ p.y = q.y /\ p.x < q.x

\* "The line buffer generates one output per input at the steady state": when
\* nothing is on its way, every stencil whose inputs have all been sent has been
\* written.
KeepsUp ==
    Empty /\ next.t < shape.frames =>
        ~Before(PlaceAt(next.t, next.z + shape.od - 1, next.y + shape.oh - 1,
                        next.x + shape.ow - 1), src)

\* The network never blocks, although its streams hold one element: in the end
\* all is read, all is written and no stream has anything left for the next
\* image.
AllDelivered == <>[](next.t = shape.frames /\ src.t = shape.frames /\ Empty)
=============================================================================
