-------------------------- MODULE LinebufferProofs --------------------------
(***************************************************************************)
(* For every shape that can be instantiated, the network of line buffers   *)
(* writes what linebuffer_ref writes, and keeps up with its input.         *)
(***************************************************************************)
EXTENDS Linebuffer, TLAPS

-----------------------------------------------------------------------------
Place == [t : Nat, z : Nat, y : Nat, x : Nat]
Within(p, w, h, d) == p \in Place /\ p.x < w /\ p.y < h /\ p.z < d

\* A column of the image: one place wide.
Column(t, z, y, x, e1, e2) == View(PlaceAt(t, z, y, x), 1, e1, e2)

\* Where a process that works on place p writes next: the first place of the
\* window along one dimension whose last place is p, or the first window if p
\* does not complete one.
Out1(p, n) == IF p.x < n - 1 THEN PlaceAt(p.t, p.z, p.y, 0)
              ELSE PlaceAt(p.t, p.z, p.y, p.x - (n - 1))
Out2(p, n) == IF p.y < n - 1 THEN PlaceAt(p.t, p.z, 0, 0)
              ELSE PlaceAt(p.t, p.z, p.y - (n - 1), p.x)
Out3(p, n) == IF p.z < n - 1 THEN PlaceAt(p.t, 0, 0, 0)
              ELSE PlaceAt(p.t, p.z - (n - 1), p.y, p.x)

-----------------------------------------------------------------------------
\* A stream s between a writer that writes next at o and a reader that reads
\* next at c: it is empty and they are at the same place, or it holds what the
\* reader expects and the writer is one place ahead.
Link(s, o, c, e0, e1, e2, w, h, d) ==
    \/ s = <<>> /\ o = c
    \/ s = <<View(c, e0, e1, e2)>> /\ o = Advance(c, w, h, d)

Has2D == Linebuffer2D # "lines"
Has1D == Linebuffer2D \in {"lines", "buf"}

Reader2 == IF Has2D THEN lb2.at ELSE lb1.at
Reader3 == IF HasLB3D THEN lb3.at ELSE Reader2
LastOut == IF Has1D THEN Out1(lb1.at, shape.ow) ELSE Out1(Out2(lb2.at, shape.oh), shape.ow)

Places ==
    /\ Within(src, shape.w, shape.h, shape.d)
    /\ Within(next, shape.w - shape.ow + 1, NUM_OF_OUTPUT_1, NUM_OF_OUTPUT_2)
    /\ Within(lb3.at, shape.w, shape.h, shape.d)
    /\ Within(lb2.at, shape.w, shape.h, NUM_OF_OUTPUT_2)
    /\ Within(lb1.at, shape.w, NUM_OF_OUTPUT_1, NUM_OF_OUTPUT_2)

LinkIn == Link(streams["in_stream"], src, Reader3, 1, 1, 1, shape.w, shape.h, shape.d)
Link3 == HasLB3D => Link(streams["slice_3D"], Out3(lb3.at, shape.od), Reader2, 1, 1, shape.od,
                         shape.w, shape.h, NUM_OF_OUTPUT_2)
Link2 == Linebuffer2D = "buf" =>
            Link(streams["slice_2D"], Out2(lb2.at, shape.oh), lb1.at, 1, shape.oh, shape.od,
                 shape.w, NUM_OF_OUTPUT_1, NUM_OF_OUTPUT_2)
LinkOut ==
    /\ Link(streams["out_stream"], LastOut, next, shape.ow, shape.oh, shape.od,
            shape.w - shape.ow + 1, NUM_OF_OUTPUT_1, NUM_OF_OUTPUT_2)
    /\ streams["out_stream"] # <<>> => next.t < shape.frames

\* A ring of n lines, with w the line written next, as it is when a process at
\* line i has (done) or has not yet written this column: line k of the window
\* that ends at i is found k lines after w.
InRing(done, n, i, k) == (IF done THEN k >= 1 /\ k <= n ELSE k >= 0 /\ k < n) /\ i - n + k >= 0

Ring3 ==
    HasLB3D =>
    LET n == shape.od - 1
        p == lb3.at
        w == Wrapped(lb3.write_idx, n)
    IN  /\ lb3.write_idx \in 0..n
        /\ DOMAIN lb3.buffer = 0..n-1
        /\ \A l \in 0..n-1 : /\ DOMAIN lb3.buffer[l] = 0..shape.h-1
                             /\ \A y \in 0..shape.h-1 : DOMAIN lb3.buffer[l][y] = 0..shape.w-1
        /\ \A y \in 0..shape.h-1, x \in 0..shape.w-1, k \in 0..n :
              InRing(y < p.y \/ (y = p.y /\ x < p.x), n, p.z, k) =>
                 lb3.buffer[Wrapped(k + w, n)][y][x] = Column(p.t, p.z - n + k, y, x, 1, 1)

Ring2 ==
    Linebuffer2D = "buf" =>
    LET n == shape.oh - 1
        p == lb2.at
        w == Wrapped(lb2.write_idx, n)
    IN  /\ lb2.write_idx \in 0..n
        /\ \A x \in 0..shape.w-1, k \in 0..n :
              InRing(x < p.x, n, p.y, k) =>
                 lb2.buffer[Wrapped(k + w, n)][x] = Column(p.t, p.z, p.y - n + k, x, 1, shape.od)

Domain2 ==
    /\ DOMAIN lb2.buffer = 0..shape.oh-1
    /\ \A l \in 0..shape.oh-1 : DOMAIN lb2.buffer[l] = 0..shape.w-1

\* The shift register of Linebuffer2D holds the last stencils that were read.
Register2 ==
    Linebuffer2D = "shift" =>
        \A l \in 0..shape.oh-1 :
            lb2.at.y - shape.oh + l >= 0 =>
                lb2.buffer[l][0] = Column(lb2.at.t, lb2.at.z, lb2.at.y - shape.oh + l, 0, 1, shape.od)

Filled2 ==
    Linebuffer2D = "sipo" =>
        \A l \in 0..shape.oh-1, x \in 0..shape.w-1 :
            l < lb2.at.y \/ (l = lb2.at.y /\ x < lb2.at.x) =>
                lb2.buffer[l][x] = Column(lb2.at.t, lb2.at.z, l, x, 1, shape.od)

Register1 ==
    Has1D /\ Linebuffer1D = "shift" =>
        \A i \in 0..shape.ow-1 :
            lb1.at.x - shape.ow + i >= 0 =>
                lb1.buffer[i] = Column(lb1.at.t, lb1.at.z, lb1.at.y, lb1.at.x - shape.ow + i,
                                       shape.oh, shape.od)

Filled1 ==
    Has1D /\ Linebuffer1D = "sipo" =>
        /\ DOMAIN lb1.buffer = 0..shape.ow-1
        /\ \A i \in 0..shape.ow-1 :
              i < lb1.at.x => lb1.buffer[i] = Column(lb1.at.t, lb1.at.z, lb1.at.y, i,
                                                     shape.oh, shape.od)

Fits == shape \in Shapes /\ Instantiable(shape)

IInv ==
    /\ Fits
    /\ DOMAIN streams = Streams
    /\ Places
    /\ LinkIn /\ Link3 /\ Link2 /\ LinkOut
    /\ Ring3 /\ Ring2 /\ Domain2 /\ Register2 /\ Filled2 /\ Register1 /\ Filled1

-----------------------------------------------------------------------------
LEMMA Extents ==
    ASSUME Fits
    PROVE  /\ shape.w \in Nat \ {0} /\ shape.h \in Nat \ {0} /\ shape.d \in Nat \ {0}
           /\ shape.ow \in Nat \ {0} /\ shape.oh \in Nat \ {0} /\ shape.od \in Nat \ {0}
           /\ shape.frames \in Nat \ {0}
           /\ shape.ow <= shape.w /\ shape.oh <= shape.h /\ shape.od <= shape.d
           /\ NUM_OF_OUTPUT_1 = shape.h - shape.oh + 1 /\ NUM_OF_OUTPUT_1 \in Nat \ {0}
           /\ NUM_OF_OUTPUT_2 = shape.d - shape.od + 1 /\ NUM_OF_OUTPUT_2 \in Nat \ {0}
<1>1. /\ shape.w \in Nat \ {0} /\ shape.h \in Nat \ {0} /\ shape.d \in Nat \ {0}
      /\ shape.ow \in Nat \ {0} /\ shape.oh \in Nat \ {0} /\ shape.od \in Nat \ {0}
      /\ shape.frames \in Nat \ {0}
    BY ShapesAssumption DEF Fits
<1>2. shape.ow <= shape.w /\ shape.oh <= shape.h /\ shape.od <= shape.d
    BY DEF Fits, Instantiable
<1> QED
    BY <1>1, <1>2 DEF NUM_OF_OUTPUT_1, NUM_OF_OUTPUT_2

\* What the overloads mean for the extents.
LEMMA Kinds ==
    ASSUME Fits
    PROVE  /\ HasLB3D <=> shape.od > 1
           /\ ~HasLB3D => shape.od = 1
           /\ Linebuffer2D \in {"lines", "shift", "sipo", "buf"}
           /\ Linebuffer2D = "lines" => shape.oh = 1
           /\ Linebuffer2D = "shift" => shape.oh > 1 /\ shape.w = 1 /\ shape.ow = 1
           /\ Linebuffer2D = "sipo" => shape.oh > 1 /\ shape.ow = shape.w /\ shape.oh = shape.h
           /\ Linebuffer2D = "buf" => shape.oh > 1
           /\ Linebuffer1D \in {"bypass", "sipo", "shift"}
           /\ Linebuffer1D = "bypass" => shape.ow = 1
           /\ Linebuffer1D = "sipo" => shape.ow > 1 /\ shape.ow = shape.w
           /\ Linebuffer1D = "shift" => shape.ow > 1
<1> USE Extents
<1>1. (HasLB3D <=> shape.od > 1) /\ (~HasLB3D => shape.od = 1)
    BY DEF HasLB3D
<1>2. CASE shape.oh = 1
    BY <1>1, <1>2 DEF Linebuffer2D, Linebuffer1D
<1>3. CASE shape.oh > 1
    BY <1>1, <1>3 DEF Linebuffer2D, Linebuffer1D
<1> QED
    BY <1>2, <1>3

-----------------------------------------------------------------------------
(* Places.                                                                   *)

\* Two places with the same coordinates are the same.
LEMMA PlaceEqual ==
    ASSUME NEW p \in Place
    PROVE  /\ p.t \in Nat /\ p.z \in Nat /\ p.y \in Nat /\ p.x \in Nat
           /\ p = PlaceAt(p.t, p.z, p.y, p.x)
BY DEF Place, PlaceAt

LEMMA AdvanceWithin ==
    ASSUME NEW w \in Nat \ {0}, NEW h \in Nat \ {0}, NEW d \in Nat \ {0},
           NEW p, Within(p, w, h, d)
    PROVE  Within(Advance(p, w, h, d), w, h, d)
<1>1. p \in Place /\ p.x < w /\ p.y < h /\ p.z < d
    BY DEF Within
<1>2. p.t \in Nat /\ p.z \in Nat /\ p.y \in Nat /\ p.x \in Nat
    BY <1>1, PlaceEqual
<1>3. ASSUME NEW t \in Nat, NEW z \in Nat, NEW y \in Nat, NEW x \in Nat, z < d, y < h, x < w
      PROVE  Within(PlaceAt(t, z, y, x), w, h, d)
    BY <1>3 DEF Within, Place, PlaceAt
<1>4. /\ p.x + 1 < w => Within(PlaceAt(p.t, p.z, p.y, p.x + 1), w, h, d)
      /\ p.y + 1 < h => Within(PlaceAt(p.t, p.z, p.y + 1, 0), w, h, d)
      /\ p.z + 1 < d => Within(PlaceAt(p.t, p.z + 1, 0, 0), w, h, d)
      /\ Within(PlaceAt(p.t + 1, 0, 0, 0), w, h, d)
    BY SMTT(40), <1>1, <1>2, <1>3
<1> QED
    BY <1>4 DEF Advance

\* The window that is written next moves along whenever one was completed.
LEMMA OutAdvance1 ==
    ASSUME NEW w \in Nat \ {0}, NEW h \in Nat \ {0}, NEW d \in Nat \ {0}, NEW n \in 1..w,
           NEW p, Within(p, w, h, d)
    PROVE  /\ Within(Out1(p, n), w - n + 1, h, d) /\ Out1(p, n).t = p.t
           /\ p.x >= n - 1 =>
                 Out1(Advance(p, w, h, d), n) = Advance(Out1(p, n), w - n + 1, h, d)
           /\ p.x < n - 1 => Out1(Advance(p, w, h, d), n) = Out1(p, n)
<1>1. /\ p \in Place /\ p.x < w /\ p.y < h /\ p.z < d
      /\ p.t \in Nat /\ p.z \in Nat /\ p.y \in Nat /\ p.x \in Nat
    BY PlaceEqual DEF Within
<1>2. Within(Out1(p, n), w - n + 1, h, d) /\ Out1(p, n).t = p.t
    BY <1>1 DEF Out1, Within, Place, PlaceAt
<1>3. ASSUME p.x >= n - 1
      PROVE  Out1(Advance(p, w, h, d), n) = Advance(Out1(p, n), w - n + 1, h, d)
    BY <1>1, <1>3 DEF Out1, Advance, PlaceAt
<1>4. ASSUME p.x < n - 1
      PROVE  Out1(Advance(p, w, h, d), n) = Out1(p, n)
    BY <1>1, <1>4 DEF Out1, Advance, PlaceAt
<1> QED
    BY <1>2, <1>3, <1>4

LEMMA OutAdvance2 ==
    ASSUME NEW w \in Nat \ {0}, NEW h \in Nat \ {0}, NEW d \in Nat \ {0}, NEW n \in 1..h,
           NEW p, Within(p, w, h, d)
    PROVE  /\ Within(Out2(p, n), w, h - n + 1, d) /\ Out2(p, n).t = p.t
           /\ p.y >= n - 1 =>
                 Out2(Advance(p, w, h, d), n) = Advance(Out2(p, n), w, h - n + 1, d) /\ Out2(p, n).x = p.x
           /\ p.y < n - 1 => Out2(Advance(p, w, h, d), n) = Out2(p, n)
<1>1. /\ p \in Place /\ p.x < w /\ p.y < h /\ p.z < d
      /\ p.t \in Nat /\ p.z \in Nat /\ p.y \in Nat /\ p.x \in Nat
    BY PlaceEqual DEF Within
<1>2. Within(Out2(p, n), w, h - n + 1, d) /\ Out2(p, n).t = p.t
    BY <1>1 DEF Out2, Within, Place, PlaceAt
<1>3. ASSUME p.y >= n - 1
      PROVE  Out2(Advance(p, w, h, d), n) = Advance(Out2(p, n), w, h - n + 1, d) /\ Out2(p, n).x = p.x
    BY <1>1, <1>3 DEF Out2, Advance, PlaceAt
<1>4. ASSUME p.y < n - 1
      PROVE  Out2(Advance(p, w, h, d), n) = Out2(p, n)
    BY <1>1, <1>4 DEF Out2, Advance, PlaceAt
<1> QED
    BY <1>2, <1>3, <1>4

LEMMA OutAdvance3 ==
    ASSUME NEW w \in Nat \ {0}, NEW h \in Nat \ {0}, NEW d \in Nat \ {0}, NEW n \in 1..d,
           NEW p, Within(p, w, h, d)
    PROVE  /\ Within(Out3(p, n), w, h, d - n + 1) /\ Out3(p, n).t = p.t
           /\ p.z >= n - 1 =>
                 Out3(Advance(p, w, h, d), n) = Advance(Out3(p, n), w, h, d - n + 1)
           /\ p.z < n - 1 => Out3(Advance(p, w, h, d), n) = Out3(p, n)
<1>1. /\ p \in Place /\ p.x < w /\ p.y < h /\ p.z < d
      /\ p.t \in Nat /\ p.z \in Nat /\ p.y \in Nat /\ p.x \in Nat
    BY PlaceEqual DEF Within
<1>2. Within(Out3(p, n), w, h, d - n + 1) /\ Out3(p, n).t = p.t
    BY <1>1 DEF Out3, Within, Place, PlaceAt
<1>3. ASSUME p.z >= n - 1
      PROVE  Out3(Advance(p, w, h, d), n) = Advance(Out3(p, n), w, h, d - n + 1)
    BY <1>1, <1>3 DEF Out3, Advance, PlaceAt
<1>4. ASSUME p.z < n - 1
      PROVE  Out3(Advance(p, w, h, d), n) = Out3(p, n)
    BY <1>1, <1>4 DEF Out3, Advance, PlaceAt
<1> QED
    BY <1>2, <1>3, <1>4

\* The same for a process that completes windows along both dimensions.
LEMMA OutAdvance12 ==
    ASSUME NEW w \in Nat \ {0}, NEW h \in Nat \ {0}, NEW d \in Nat \ {0},
           NEW n \in 1..w, NEW m \in 1..h, NEW p, Within(p, w, h, d)
    PROVE  LET emits == p.y >= m - 1 /\ p.x >= n - 1
               q == Out1(Out2(Advance(p, w, h, d), m), n)
           IN  /\ Out1(Out2(p, m), n).t = p.t
               /\ emits => q = Advance(Out1(Out2(p, m), n), w - n + 1, h - m + 1, d)
               /\ ~emits => q = Out1(Out2(p, m), n)
<1>1. p.x \in Nat /\ p.y \in Nat /\ h - m + 1 \in Nat \ {0}
    BY DEF Within, Place
<1>2. Within(Out2(p, m), w, h - m + 1, d) /\ Out2(p, m).t = p.t
    BY OutAdvance2
<1>3. CASE p.y < m - 1
    <2>1. Out2(Advance(p, w, h, d), m) = Out2(p, m)
        BY <1>3, OutAdvance2
    <2>2. Out1(Out2(p, m), n).t = Out2(p, m).t
        BY <1>1, <1>2, OutAdvance1
    <2> QED
        BY <1>1, <1>2, <1>3, <2>1, <2>2
<1>4. CASE p.y >= m - 1
    <2>1. /\ Out2(Advance(p, w, h, d), m) = Advance(Out2(p, m), w, h - m + 1, d)
          /\ Out2(p, m).x = p.x
        BY <1>4, OutAdvance2
    <2> QED
        BY <1>1, <1>2, <1>4, <2>1, OutAdvance1
<1> QED
    BY <1>1, <1>3, <1>4

-----------------------------------------------------------------------------
(* Streams.                                                                  *)

LEMMA LinkRead ==
    ASSUME NEW s, NEW o, NEW c, NEW e0, NEW e1, NEW e2, NEW w, NEW h, NEW d,
           Link(s, o, c, e0, e1, e2, w, h, d), s # <<>>
    PROVE  /\ s[1] = View(c, e0, e1, e2)
           /\ Link(<<>>, o, Advance(c, w, h, d), e0, e1, e2, w, h, d)
BY DEF Link

LEMMA LinkWrite ==
    ASSUME NEW o, NEW c, NEW e0, NEW e1, NEW e2, NEW w, NEW h, NEW d,
           Link(<<>>, o, c, e0, e1, e2, w, h, d)
    PROVE  c = o /\ Link(<<View(o, e0, e1, e2)>>, Advance(o, w, h, d), c, e0, e1, e2, w, h, d)
<1>1. \A v : <<v>> # <<>>
    OBVIOUS
<1> QED
    BY <1>1 DEF Link

\* An iteration that writes the next stencil, or none.
LEMMA LinkIterate ==
    ASSUME NEW s, NEW o, NEW c, NEW e0, NEW e1, NEW e2, NEW w, NEW h, NEW d,
           Link(s, o, c, e0, e1, e2, w, h, d), NEW s2, NEW o2,
           \/ s = <<>> /\ s2 = <<View(o, e0, e1, e2)>> /\ o2 = Advance(o, w, h, d)
           \/ s2 = s /\ o2 = o
    PROVE  Link(s2, o2, c, e0, e1, e2, w, h, d) /\ (s2 # s => c = o)
<1>1. CASE s = <<>> /\ s2 = <<View(o, e0, e1, e2)>> /\ o2 = Advance(o, w, h, d)
    BY <1>1, LinkWrite
<1>2. CASE s2 = s /\ o2 = o
    BY <1>2
<1> QED
    BY <1>1, <1>2

LEMMA IterateStreams ==
    ASSUME DOMAIN streams = Streams, NEW from \in Streams, NEW to \in Streams, from # to,
           NEW emits \in BOOLEAN, NEW stencil, Iterate(from, to, emits, stencil)
    PROVE  /\ DOMAIN streams' = Streams
           /\ streams[from] # <<>> /\ streams'[from] = <<>>
           /\ emits => streams[to] = <<>> /\ streams'[to] = <<stencil>>
           /\ ~emits => streams'[to] = streams[to]
           /\ \A c \in Streams \ {from, to} : streams'[c] = streams[c]
BY DEF Iterate

LEMMA SameShape ==
    ASSUME shape' = shape
    PROVE  /\ HasLB3D' <=> HasLB3D
           /\ Linebuffer2D' = Linebuffer2D /\ Linebuffer1D' = Linebuffer1D
           /\ (Has2D' <=> Has2D) /\ (Has1D' <=> Has1D)
           /\ NUM_OF_OUTPUT_1' = NUM_OF_OUTPUT_1 /\ NUM_OF_OUTPUT_2' = NUM_OF_OUTPUT_2
           /\ Fits' <=> Fits
BY DEF HasLB3D, Linebuffer2D, Linebuffer1D, Has2D, Has1D, NUM_OF_OUTPUT_1, NUM_OF_OUTPUT_2,
       Fits, Instantiable

\* What the processes read.
LEMMA Input1 ==
    ASSUME IInv, Has1D, streams[From1] # <<>>
    PROVE  Input(From1) = View(lb1.at, 1, shape.oh, shape.od)
<1> USE Kinds DEF IInv
<1>1. CASE Linebuffer2D = "buf"
    BY <1>1, LinkRead DEF From1, Input, Link2
<1>2. CASE Linebuffer2D = "lines" /\ HasLB3D
    BY <1>2, LinkRead DEF From1, From2, Input, Link3, Reader2, Has2D
<1>3. CASE Linebuffer2D = "lines" /\ ~HasLB3D
    BY <1>3, LinkRead DEF From1, From2, Input, LinkIn, Reader3, Reader2, Has2D
<1> QED
    BY <1>1, <1>2, <1>3 DEF Has1D

LEMMA Input2 ==
    ASSUME IInv, Has2D, streams[From2] # <<>>
    PROVE  Input(From2) = View(lb2.at, 1, 1, shape.od)
<1> USE Kinds DEF IInv
<1>1. CASE HasLB3D
    BY <1>1, LinkRead DEF From2, Input, Link3, Reader2
<1>2. CASE ~HasLB3D
    BY <1>2, LinkRead DEF From2, Input, LinkIn, Reader3, Reader2
<1> QED
    BY <1>1, <1>2

LEMMA Input3 ==
    ASSUME IInv, HasLB3D, streams["in_stream"] # <<>>
    PROVE  Input("in_stream") = View(lb3.at, 1, 1, 1)
BY LinkRead DEF IInv, Input, LinkIn, Reader3

-----------------------------------------------------------------------------
(* One iteration of each process, as the streams and the places see it.      *)

Linked == DOMAIN streams = Streams /\ Places /\ LinkIn /\ Link3 /\ Link2 /\ LinkOut

LEMMA Links1 ==
    ASSUME IInv, UNCHANGED <<shape, next, src, lb3, lb2>>, Has1D,
           NEW emits \in BOOLEAN, NEW stencil, Iterate(From1, "out_stream", emits, stencil),
           lb1'.at = Advance(lb1.at, shape.w, NUM_OF_OUTPUT_1, NUM_OF_OUTPUT_2),
           lb1.at.t < shape.frames,
           emits <=> lb1.at.x >= shape.ow - 1,
           emits => stencil = View(Out1(lb1.at, shape.ow), shape.ow, shape.oh, shape.od)
    PROVE  Linked'
<1> DEFINE w == shape.w
           ow == shape.ow
           h == NUM_OF_OUTPUT_1
           d == NUM_OF_OUTPUT_2
           p == lb1.at
           q == Advance(p, w, h, d)
<1> USE SameShape
<1>1. /\ w \in Nat \ {0} /\ h \in Nat \ {0} /\ d \in Nat \ {0} /\ ow \in 1..w
      /\ w - ow + 1 \in Nat \ {0}
    BY Extents DEF IInv
<1>2. Within(p, w, h, d)
    BY DEF IInv, Places
<1>3. From1 \in Streams /\ "out_stream" \in Streams /\ From1 # "out_stream"
    BY DEF From1, From2, Streams
<1>4. /\ DOMAIN streams' = Streams
      /\ streams[From1] # <<>> /\ streams'[From1] = <<>>
      /\ emits => streams["out_stream"] = <<>> /\ streams'["out_stream"] = <<stencil>>
      /\ ~emits => streams'["out_stream"] = streams["out_stream"]
      /\ \A c \in Streams \ {From1, "out_stream"} : streams'[c] = streams[c]
    BY <1>3, IterateStreams DEF IInv
<1>5. Places'
    BY <1>1, <1>2, AdvanceWithin DEF IInv, Places
<1>6. LinkOut'
    <2>1. /\ Out1(p, ow).t = p.t
          /\ p.x >= ow - 1 => Out1(q, ow) = Advance(Out1(p, ow), w - ow + 1, h, d)
          /\ p.x < ow - 1 => Out1(q, ow) = Out1(p, ow)
        <3> HIDE SameShape DEF w, h, d, ow, p
        <3>1. Out1(p, ow).t = p.t
            BY <1>1, <1>2, OutAdvance1
        <3>2. p.x >= ow - 1 => Out1(q, ow) = Advance(Out1(p, ow), w - ow + 1, h, d)
            BY <1>1, <1>2, OutAdvance1
        <3>3. p.x < ow - 1 => Out1(q, ow) = Out1(p, ow)
            BY <1>1, <1>2, OutAdvance1
        <3> QED
            BY <3>1, <3>2, <3>3
    <2>2. LastOut = Out1(p, ow) /\ LastOut' = Out1(q, ow)
        BY DEF LastOut
    <2>3. p.x \in Nat
        BY <1>2 DEF Within, Place
    <2>4. Link(streams["out_stream"], Out1(p, ow), next, ow, shape.oh, shape.od, w - ow + 1, h, d)
        BY <2>2 DEF IInv, LinkOut
    <2>5. \/ /\ streams["out_stream"] = <<>>
             /\ streams'["out_stream"] = <<View(Out1(p, ow), ow, shape.oh, shape.od)>>
             /\ Out1(q, ow) = Advance(Out1(p, ow), w - ow + 1, h, d)
          \/ streams'["out_stream"] = streams["out_stream"] /\ Out1(q, ow) = Out1(p, ow)
        BY <1>1, <1>4, <2>1, <2>3
    <2>6. /\ Link(streams'["out_stream"], Out1(q, ow), next, ow, shape.oh, shape.od,
                  w - ow + 1, h, d)
          /\ streams'["out_stream"] # streams["out_stream"] => next = Out1(p, ow)
        <3> DEFINE s == streams["out_stream"]
                   s2 == streams'["out_stream"]
                   o == Out1(p, ow)
                   o2 == Out1(q, ow)
                   W == w - ow + 1
                   oh == shape.oh
                   od == shape.od
        <3>1. Link(s, o, next, ow, oh, od, W, h, d)
            BY <2>4
        <3>2. \/ s = <<>> /\ s2 = <<View(o, ow, oh, od)>> /\ o2 = Advance(o, W, h, d)
              \/ s2 = s /\ o2 = o
            BY <2>5
        <3> HIDE DEF p, q, w, ow, h, d, s, s2, o, o2, W, oh, od
        <3>3. Link(s2, o2, next, ow, oh, od, W, h, d) /\ (s2 # s => next = o)
            BY <3>1, <3>2, LinkIterate
        <3> QED
            BY <3>3 DEF s, s2, o, o2, W, oh, od
    <2> QED
        BY <1>4, <2>1, <2>2, <2>6 DEF IInv, LinkOut
<1>7. CASE Linebuffer2D = "buf"
    <2>1. From1 = "slice_2D"
        BY <1>7 DEF From1
    <2>2. LinkIn' /\ Link3'
        BY <1>4, <1>7, <2>1 DEF IInv, LinkIn, Link3, Reader3, Reader2, Has2D, Streams
    <2>3. Link2'
        BY <1>4, <1>7, <2>1, LinkRead DEF IInv, Link2
    <2> QED
        BY <1>4, <1>5, <1>6, <2>2, <2>3 DEF Linked
<1>8. CASE Linebuffer2D = "lines" /\ HasLB3D
    <2>1. From1 = "slice_3D" /\ h = shape.h /\ shape.oh = 1
        BY <1>8, Extents, Kinds DEF From1, From2, IInv
    <2>2. LinkIn' /\ Link2'
        BY <1>4, <1>8, <2>1 DEF IInv, LinkIn, Link2, Reader3, Streams
    <2>3. Link3'
        BY <1>4, <1>8, <2>1, LinkRead DEF IInv, Link3, Reader2, Has2D
    <2> QED
        BY <1>4, <1>5, <1>6, <2>2, <2>3 DEF Linked
<1>9. CASE Linebuffer2D = "lines" /\ ~HasLB3D
    <2>1. From1 = "in_stream" /\ h = shape.h /\ d = shape.d
        BY <1>9, Extents, Kinds DEF From1, From2, IInv
    <2>2. Link3' /\ Link2'
        BY <1>9 DEF Link3, Link2
    <2>3. LinkIn'
        BY <1>4, <1>9, <2>1, LinkRead DEF IInv, LinkIn, Reader3, Reader2, Has2D
    <2> QED
        BY <1>4, <1>5, <1>6, <2>2, <2>3 DEF Linked
<1> QED
    BY <1>7, <1>8, <1>9 DEF Has1D

\* Linebuffer2D reads the next stencil.
LEMMA Read2 ==
    ASSUME IInv, UNCHANGED <<shape, src, lb3>>, Has2D,
           streams[From2] # <<>>, streams'[From2] = <<>>,
           \A c \in {"in_stream", "slice_3D"} \ {From2} : streams'[c] = streams[c],
           lb2'.at = Advance(lb2.at, shape.w, shape.h, NUM_OF_OUTPUT_2)
    PROVE  LinkIn' /\ Link3'
<1> USE SameShape
<1>1. CASE HasLB3D
    <2>1. From2 = "slice_3D"
        BY <1>1 DEF From2
    <2>2. LinkIn'
        BY <1>1, <2>1 DEF IInv, LinkIn, Reader3
    <2>3. Link3'
        BY <1>1, <2>1, LinkRead DEF IInv, Link3, Reader2
    <2> QED
        BY <2>2, <2>3
<1>2. CASE ~HasLB3D
    <2>1. From2 = "in_stream" /\ NUM_OF_OUTPUT_2 = shape.d
        BY <1>2, Extents, Kinds DEF From2, IInv
    <2>2. Link3'
        BY <1>2 DEF Link3
    <2>3. LinkIn'
        BY <1>2, <2>1, LinkRead DEF IInv, LinkIn, Reader3, Reader2
    <2> QED
        BY <2>2, <2>3
<1> QED
    BY <1>1, <1>2

LEMMA Links2direct ==
    ASSUME IInv, UNCHANGED <<shape, next, src, lb3, lb1>>, Has2D, ~Has1D,
           NEW emits \in BOOLEAN, NEW stencil, Iterate(From2, "out_stream", emits, stencil),
           lb2'.at = Advance(lb2.at, shape.w, shape.h, NUM_OF_OUTPUT_2),
           lb2.at.t < shape.frames,
           emits <=> lb2.at.y >= shape.oh - 1 /\ lb2.at.x >= shape.ow - 1,
           emits => stencil = View(Out1(Out2(lb2.at, shape.oh), shape.ow),
                                   shape.ow, shape.oh, shape.od)
    PROVE  Linked'
<1> DEFINE w == shape.w
           ow == shape.ow
           h == shape.h
           oh == shape.oh
           d == NUM_OF_OUTPUT_2
           p == lb2.at
           q == Advance(p, w, h, d)
           o == Out1(Out2(p, oh), ow)
           o2 == Out1(Out2(q, oh), ow)
<1> USE SameShape
<1>1. /\ w \in Nat \ {0} /\ h \in Nat \ {0} /\ d \in Nat \ {0} /\ ow \in 1..w /\ oh \in 1..h
      /\ NUM_OF_OUTPUT_1 = h - oh + 1
    BY Extents DEF IInv
<1>2. Within(p, w, h, d)
    BY DEF IInv, Places
<1>3. From2 \in Streams /\ "out_stream" \in Streams /\ From2 # "out_stream"
    BY DEF From2, Streams
<1>4. /\ DOMAIN streams' = Streams
      /\ streams[From2] # <<>> /\ streams'[From2] = <<>>
      /\ emits => streams["out_stream"] = <<>> /\ streams'["out_stream"] = <<stencil>>
      /\ ~emits => streams'["out_stream"] = streams["out_stream"]
      /\ \A c \in Streams \ {From2, "out_stream"} : streams'[c] = streams[c]
    BY <1>3, IterateStreams DEF IInv
<1>5. Places'
    BY <1>1, <1>2, AdvanceWithin DEF IInv, Places
<1>6. LinkOut'
    <2>1. /\ o.t = p.t
          /\ p.y >= oh - 1 /\ p.x >= ow - 1 => o2 = Advance(o, w - ow + 1, h - oh + 1, d)
          /\ ~(p.y >= oh - 1 /\ p.x >= ow - 1) => o2 = o
        BY <1>1, <1>2, OutAdvance12
    <2>2. LastOut = o /\ LastOut' = o2
        BY DEF LastOut
    <2>4. Link(streams["out_stream"], o, next, ow, oh, shape.od, w - ow + 1, NUM_OF_OUTPUT_1, d)
        BY <2>2 DEF IInv, LinkOut
    <2>5. \/ /\ streams["out_stream"] = <<>>
             /\ streams'["out_stream"] = <<View(o, ow, oh, shape.od)>>
             /\ o2 = Advance(o, w - ow + 1, NUM_OF_OUTPUT_1, d)
          \/ streams'["out_stream"] = streams["out_stream"] /\ o2 = o
        <3> HIDE DEF o2
        <3> QED BY <1>1, <1>4, <2>1
    <2>6. /\ Link(streams'["out_stream"], o2, next, ow, oh, shape.od,
                  w - ow + 1, NUM_OF_OUTPUT_1, d)
          /\ streams'["out_stream"] # streams["out_stream"] => next = o
        <3> DEFINE s == streams["out_stream"]
                   s2 == streams'["out_stream"]
                   W == w - ow + 1
                   H == NUM_OF_OUTPUT_1
                   od == shape.od
        <3>1. Link(s, o, next, ow, oh, od, W, H, d)
            BY <2>4
        <3>2. \/ s = <<>> /\ s2 = <<View(o, ow, oh, od)>> /\ o2 = Advance(o, W, H, d)
              \/ s2 = s /\ o2 = o
            BY <2>5
        <3> HIDE DEF p, q, w, ow, h, d, s, s2, o, o2, W, H, oh, od
        <3>3. Link(s2, o2, next, ow, oh, od, W, H, d) /\ (s2 # s => next = o)
            BY <3>1, <3>2, LinkIterate
        <3> QED
            BY <3>3 DEF s, s2, W, H, od
    <2> QED
        BY <1>4, <2>1, <2>2, <2>6 DEF IInv, LinkOut
<1>7. LinkIn' /\ Link3'
    BY <1>3, <1>4, Read2 DEF Streams
<1>8. Link2'
    BY DEF Link2, Has1D
<1> QED
    BY <1>4, <1>5, <1>6, <1>7, <1>8 DEF Linked

LEMMA Links2buf ==
    ASSUME IInv, UNCHANGED <<shape, next, src, lb3, lb1>>, Linebuffer2D = "buf",
           NEW emits \in BOOLEAN, NEW stencil, Iterate(From2, "slice_2D", emits, stencil),
           lb2'.at = Advance(lb2.at, shape.w, shape.h, NUM_OF_OUTPUT_2),
           emits <=> lb2.at.y >= shape.oh - 1,
           emits => stencil = View(Out2(lb2.at, shape.oh), 1, shape.oh, shape.od)
    PROVE  Linked'
<1> DEFINE w == shape.w
           h == shape.h
           oh == shape.oh
           d == NUM_OF_OUTPUT_2
           p == lb2.at
           q == Advance(p, w, h, d)
           o == Out2(p, oh)
           o2 == Out2(q, oh)
<1> USE SameShape
<1>1. /\ w \in Nat \ {0} /\ h \in Nat \ {0} /\ d \in Nat \ {0} /\ oh \in 1..h
      /\ NUM_OF_OUTPUT_1 = h - oh + 1
    BY Extents DEF IInv
<1>2. Within(p, w, h, d)
    BY DEF IInv, Places
<1>3. From2 \in Streams /\ "slice_2D" \in Streams /\ From2 # "slice_2D" /\ Has2D /\ Has1D
    BY DEF From2, Streams, Has2D, Has1D
<1>4. /\ DOMAIN streams' = Streams
      /\ streams[From2] # <<>> /\ streams'[From2] = <<>>
      /\ emits => streams["slice_2D"] = <<>> /\ streams'["slice_2D"] = <<stencil>>
      /\ ~emits => streams'["slice_2D"] = streams["slice_2D"]
      /\ \A c \in Streams \ {From2, "slice_2D"} : streams'[c] = streams[c]
    BY <1>3, IterateStreams DEF IInv
<1>5. Places'
    BY <1>1, <1>2, AdvanceWithin DEF IInv, Places
<1>6. Link2'
    <2>1. /\ p.y >= oh - 1 => o2 = Advance(o, w, h - oh + 1, d)
          /\ p.y < oh - 1 => o2 = o
        <3> HIDE DEF w, h, d, oh, p
        <3> QED BY <1>1, <1>2, OutAdvance2
    <2>2. p.y \in Nat
        BY <1>2 DEF Within, Place
    <2>3. Link(streams["slice_2D"], o, lb1.at, 1, oh, shape.od, w, NUM_OF_OUTPUT_1, d)
        BY DEF IInv, Link2
    <2>4. \/ /\ streams["slice_2D"] = <<>>
             /\ streams'["slice_2D"] = <<View(o, 1, oh, shape.od)>>
             /\ o2 = Advance(o, w, NUM_OF_OUTPUT_1, d)
          \/ streams'["slice_2D"] = streams["slice_2D"] /\ o2 = o
        <3> HIDE DEF o2
        <3> QED BY <1>1, <1>4, <2>1, <2>2
    <2>5. Link(streams'["slice_2D"], o2, lb1.at, 1, oh, shape.od, w, NUM_OF_OUTPUT_1, d)
        <3> DEFINE s == streams["slice_2D"]
                   s2 == streams'["slice_2D"]
                   c == lb1.at
                   H == NUM_OF_OUTPUT_1
                   od == shape.od
        <3>1. Link(s, o, c, 1, oh, od, w, H, d)
            BY <2>3
        <3>2. \/ s = <<>> /\ s2 = <<View(o, 1, oh, od)>> /\ o2 = Advance(o, w, H, d)
              \/ s2 = s /\ o2 = o
            BY <2>4
        <3> HIDE DEF p, q, w, h, d, s, s2, o, o2, c, H, oh, od
        <3>3. Link(s2, o2, c, 1, oh, od, w, H, d)
            BY <3>1, <3>2, LinkIterate
        <3> QED
            BY <3>3 DEF s, s2, c, H, od
    <2> QED
        BY <2>5 DEF Link2
<1>7. LinkIn' /\ Link3'
    BY <1>3, <1>4, Read2 DEF Streams
<1>8. LinkOut'
    BY <1>3, <1>4 DEF IInv, LinkOut, LastOut, Streams, From2
<1> QED
    BY <1>4, <1>5, <1>6, <1>7, <1>8 DEF Linked

LEMMA Links3 ==
    ASSUME IInv, UNCHANGED <<shape, next, src, lb2, lb1>>, HasLB3D,
           NEW emits \in BOOLEAN, NEW stencil, Iterate("in_stream", "slice_3D", emits, stencil),
           lb3'.at = Advance(lb3.at, shape.w, shape.h, shape.d),
           emits <=> lb3.at.z >= shape.od - 1,
           emits => stencil = View(Out3(lb3.at, shape.od), 1, 1, shape.od)
    PROVE  Linked'
<1> DEFINE w == shape.w
           h == shape.h
           d == shape.d
           od == shape.od
           p == lb3.at
           q == Advance(p, w, h, d)
           o == Out3(p, od)
           o2 == Out3(q, od)
<1> USE SameShape
<1>1. /\ w \in Nat \ {0} /\ h \in Nat \ {0} /\ d \in Nat \ {0} /\ od \in 1..d
      /\ NUM_OF_OUTPUT_2 = d - od + 1
    BY Extents DEF IInv
<1>2. Within(p, w, h, d)
    BY DEF IInv, Places
<1>3. "in_stream" \in Streams /\ "slice_3D" \in Streams
    BY DEF Streams
<1>4. /\ DOMAIN streams' = Streams
      /\ streams["in_stream"] # <<>> /\ streams'["in_stream"] = <<>>
      /\ emits => streams["slice_3D"] = <<>> /\ streams'["slice_3D"] = <<stencil>>
      /\ ~emits => streams'["slice_3D"] = streams["slice_3D"]
      /\ \A c \in Streams \ {"in_stream", "slice_3D"} : streams'[c] = streams[c]
    BY <1>3, IterateStreams DEF IInv
<1>5. Places'
    BY <1>1, <1>2, AdvanceWithin DEF IInv, Places
<1>6. Link3'
    <2>1. /\ p.z >= od - 1 => o2 = Advance(o, w, h, d - od + 1)
          /\ p.z < od - 1 => o2 = o
        <3> HIDE SameShape DEF w, h, d, od, p
        <3>1. p.z >= od - 1 => Out3(q, od) = Advance(Out3(p, od), w, h, d - od + 1)
            BY SMTT(40), <1>1, <1>2, OutAdvance3
        <3>2. p.z < od - 1 => Out3(q, od) = Out3(p, od)
            BY <1>1, <1>2, OutAdvance3
        <3> QED
            BY <3>1, <3>2
    <2>2. p.z \in Nat
        BY <1>2 DEF Within, Place
    <2>3. Link(streams["slice_3D"], o, Reader2, 1, 1, od, w, h, NUM_OF_OUTPUT_2)
        BY DEF IInv, Link3
    <2>4. \/ /\ streams["slice_3D"] = <<>>
             /\ streams'["slice_3D"] = <<View(o, 1, 1, od)>>
             /\ o2 = Advance(o, w, h, NUM_OF_OUTPUT_2)
          \/ streams'["slice_3D"] = streams["slice_3D"] /\ o2 = o
        <3> HIDE DEF o2
        <3> QED BY <1>1, <1>4, <2>1, <2>2
    <2>5. Link(streams'["slice_3D"], o2, Reader2, 1, 1, od, w, h, NUM_OF_OUTPUT_2)
        <3> DEFINE s == streams["slice_3D"]
                   s2 == streams'["slice_3D"]
                   c == Reader2
                   D == NUM_OF_OUTPUT_2
        <3>1. Link(s, o, c, 1, 1, od, w, h, D)
            BY <2>3
        <3>2. \/ s = <<>> /\ s2 = <<View(o, 1, 1, od)>> /\ o2 = Advance(o, w, h, D)
              \/ s2 = s /\ o2 = o
            BY <2>4
        <3> HIDE DEF p, q, w, h, d, s, s2, o, o2, c, D, od
        <3>3. Link(s2, o2, c, 1, 1, od, w, h, D)
            BY <3>1, <3>2, LinkIterate
        <3> QED
            BY <3>3 DEF s, s2, c, D
    <2>6. Reader2' = Reader2
        BY DEF Reader2
    <2> QED
        BY <2>5, <2>6 DEF Link3
<1>7. LinkIn'
    BY <1>4, LinkRead DEF IInv, LinkIn, Reader3
<1>8. Link2' /\ LinkOut'
    BY <1>4 DEF IInv, Link2, LinkOut, LastOut, Streams
<1> QED
    BY <1>4, <1>5, <1>6, <1>7, <1>8 DEF Linked

LEMMA LinksSource ==
    ASSUME IInv, Source
    PROVE  Linked'
<1> USE SameShape DEF Source
<1>1. Fits /\ DOMAIN streams = Streams /\ Places /\ LinkIn /\ Link3 /\ Link2 /\ LinkOut
    BY DEF IInv
<1>2. DOMAIN streams' = Streams
    BY <1>1
<1>3. Places'
    BY <1>1, Extents, AdvanceWithin DEF Places
<1>4. streams'["in_stream"] = <<View(src, 1, 1, 1)>>
    BY <1>1 DEF Streams
<1>5. LinkIn'
    <2>1. Link(<<>>, src, Reader3, 1, 1, 1, shape.w, shape.h, shape.d)
        BY <1>1 DEF LinkIn
    <2>2. Reader3' = Reader3
        BY DEF Reader3, Reader2
    <2>3. Link(<<View(src, 1, 1, 1)>>, Advance(src, shape.w, shape.h, shape.d), Reader3,
               1, 1, 1, shape.w, shape.h, shape.d)
        BY <2>1, LinkWrite
    <2> QED
        BY <1>4, <2>2, <2>3 DEF LinkIn
<1>6. Link3' /\ Link2' /\ LinkOut'
    BY <1>1 DEF Link3, Link2, LinkOut, Streams, Reader2, LastOut
<1> QED
    BY <1>2, <1>3, <1>5, <1>6 DEF Linked

LEMMA LinksSink ==
    ASSUME IInv, Sink
    PROVE  Linked' /\ Write
<1> USE SameShape DEF Sink
<1>1. Fits /\ DOMAIN streams = Streams /\ Places /\ LinkIn /\ Link3 /\ Link2 /\ LinkOut
    BY DEF IInv
<1>2. DOMAIN streams' = Streams /\ streams'["out_stream"] = <<>>
    BY <1>1 DEF Streams
<1>3. next' = Advance(next, shape.w - shape.ow + 1, NUM_OF_OUTPUT_1, NUM_OF_OUTPUT_2)
    BY DEF NUM_OF_OUTPUT_2
<1>4. Places'
    <2>1. shape.w - shape.ow + 1 \in Nat \ {0}
        BY SMTT(40), <1>1, Extents
    <2>2. Within(next', shape.w - shape.ow + 1, NUM_OF_OUTPUT_1, NUM_OF_OUTPUT_2)
        BY <1>1, <1>3, <2>1, Extents, AdvanceWithin DEF Places
    <2> QED
        BY <1>1, <2>2 DEF Places
<1>5. LinkIn' /\ Link3' /\ Link2'
    BY <1>1 DEF LinkIn, Link3, Link2, Streams, Reader3, Reader2
<1>6. LastOut' = LastOut
    BY DEF LastOut
<1>7. /\ streams["out_stream"][1] = View(next, shape.ow, shape.oh, shape.od)
      /\ Link(<<>>, LastOut, next', shape.ow, shape.oh, shape.od,
              shape.w - shape.ow + 1, NUM_OF_OUTPUT_1, NUM_OF_OUTPUT_2)
    <2> DEFINE s == streams["out_stream"]
               o == LastOut
               W == shape.w - shape.ow + 1
               H == NUM_OF_OUTPUT_1
               D == NUM_OF_OUTPUT_2
               ow == shape.ow
               oh == shape.oh
               od == shape.od
    <2>1. Link(s, o, next, ow, oh, od, W, H, D) /\ s # <<>> /\ next' = Advance(next, W, H, D)
        BY <1>1, <1>3 DEF LinkOut
    <2> HIDE DEF s, o, W, H, D, ow, oh, od
    <2>2. s[1] = View(next, ow, oh, od) /\ Link(<<>>, o, next', ow, oh, od, W, H, D)
        BY <2>1, LinkRead
    <2> QED
        BY <2>2 DEF s, o, W, H, D, ow, oh, od
<1>8. LinkOut'
    BY <1>2, <1>6, <1>7 DEF LinkOut
<1>9. Write
    BY <1>1, <1>3, <1>7 DEF Write, LinkOut, Input, NUM_OF_OUTPUT_1, NUM_OF_OUTPUT_2
<1> QED
    BY <1>2, <1>4, <1>5, <1>8, <1>9 DEF Linked

-----------------------------------------------------------------------------
(* What the buffers hold.                                                    *)

\* The four ways to the next place.
LEMMA AdvanceCases ==
    ASSUME NEW w \in Nat \ {0}, NEW h \in Nat \ {0}, NEW d \in Nat \ {0},
           NEW p, Within(p, w, h, d), NEW q, q = Advance(p, w, h, d)
    PROVE  /\ p \in Place /\ q \in Place
           /\ p.t \in Nat /\ p.z \in Nat /\ p.y \in Nat /\ p.x \in Nat
           /\ p.x < w /\ p.y < h /\ p.z < d
           /\ \/ p.x + 1 < w /\ q.x = p.x + 1 /\ q.y = p.y /\ q.z = p.z /\ q.t = p.t
              \/ p.x = w - 1 /\ q.x = 0 /\ q.y = p.y + 1 /\ q.z = p.z /\ q.t = p.t
              \/ p.x = w - 1 /\ p.y = h - 1 /\ q.x = 0 /\ q.y = 0 /\ q.z = p.z + 1 /\ q.t = p.t
              \/ p.x = w - 1 /\ q.x = 0 /\ q.y = 0 /\ q.z = 0 /\ q.t = p.t + 1
<1>1. /\ p \in Place /\ p.t \in Nat /\ p.z \in Nat /\ p.y \in Nat /\ p.x \in Nat
      /\ p.x < w /\ p.y < h /\ p.z < d
    BY PlaceEqual DEF Within
<1>2. q \in Place
    BY AdvanceWithin DEF Within
<1> QED
    BY <1>1, <1>2 DEF Advance, PlaceAt

\* Columns on top of each other are the stencil that starts with the first.
LEMMA Stack0View ==
    ASSUME NEW p \in Place, NEW n \in Nat \ {0}, NEW e1 \in Nat \ {0}, NEW e2 \in Nat \ {0},
           NEW part, \A i \in 0..n-1 : part[i] = Column(p.t, p.z, p.y, p.x + i, e1, e2)
    PROVE  Stack0(part, n) = View(p, n, e1, e2)
<1>1. p.t \in Nat /\ p.z \in Nat /\ p.y \in Nat /\ p.x \in Nat
    BY PlaceEqual
<1>2. ASSUME NEW i \in 0..n-1
      PROVE  part[i][0] = [j \in 0..e1-1 |-> [k \in 0..e2-1 |->
                               PlaceAt(p.t, p.z + k, p.y + j, p.x + i)]]
    <2>1. p.x + i \in Nat /\ (p.x + i) + 0 = p.x + i
        BY <1>1
    <2> DEFINE c == PlaceAt(p.t, p.z, p.y, p.x + i)
    <2>2. c.t = p.t /\ c.z = p.z /\ c.y = p.y /\ c.x = p.x + i
        BY DEF PlaceAt
    <2>3. part[i] = View(c, 1, e1, e2)
        BY DEF Column
    <2> HIDE DEF c
    <2> QED
        BY <1>1, <2>1, <2>2, <2>3 DEF View
<1> QED
    BY <1>2 DEF Stack0, View

LEMMA Stack1View ==
    ASSUME NEW p \in Place, NEW n \in Nat \ {0}, NEW e2 \in Nat \ {0},
           NEW part, \A j \in 0..n-1 : part[j] = Column(p.t, p.z, p.y + j, p.x, 1, e2)
    PROVE  Stack1(part, n) = View(p, 1, n, e2)
<1>1. p.t \in Nat /\ p.z \in Nat /\ p.y \in Nat /\ p.x \in Nat
    BY PlaceEqual
<1>2. ASSUME NEW j \in 0..n-1
      PROVE  part[j][0][0] = [k \in 0..e2-1 |-> PlaceAt(p.t, p.z + k, p.y + j, p.x + 0)]
    <2>1. p.y + j \in Nat /\ (p.y + j) + 0 = p.y + j
        BY <1>1
    <2> DEFINE c == PlaceAt(p.t, p.z, p.y + j, p.x)
    <2>2. c.t = p.t /\ c.z = p.z /\ c.y = p.y + j /\ c.x = p.x
        BY DEF PlaceAt
    <2>3. part[j] = View(c, 1, 1, e2)
        BY DEF Column
    <2> HIDE DEF c
    <2> QED
        BY <1>1, <2>1, <2>2, <2>3 DEF View
<1> QED
    BY <1>2 DEF Stack1, View

LEMMA Stack2View ==
    ASSUME NEW p \in Place, NEW n \in Nat \ {0},
           NEW part, \A k \in 0..n-1 : part[k] = Column(p.t, p.z + k, p.y, p.x, 1, 1)
    PROVE  Stack2(part, n) = View(p, 1, 1, n)
<1>1. p.t \in Nat /\ p.z \in Nat /\ p.y \in Nat /\ p.x \in Nat
    BY PlaceEqual
<1>2. ASSUME NEW k \in 0..n-1
      PROVE  part[k][0][0][0] = PlaceAt(p.t, p.z + k, p.y + 0, p.x + 0)
    <2>1. p.z + k \in Nat /\ (p.z + k) + 0 = p.z + k
        BY <1>1
    <2> DEFINE c == PlaceAt(p.t, p.z + k, p.y, p.x)
    <2>2. c.t = p.t /\ c.z = p.z + k /\ c.y = p.y /\ c.x = p.x
        BY DEF PlaceAt
    <2>3. part[k] = View(c, 1, 1, 1)
        BY DEF Column
    <2> HIDE DEF c
    <2> QED
        BY <1>1, <2>1, <2>2, <2>3 DEF View
<1> QED
    BY <1>2 DEF Stack2, View

\* The stencil at p is the column at p.
LEMMA ViewColumn ==
    ASSUME NEW p \in Place, NEW e1, NEW e2
    PROVE  View(p, 1, e1, e2) = Column(p.t, p.z, p.y, p.x, e1, e2)
BY PlaceEqual DEF Column

\* Steps that leave a process alone keep what it holds.
LEMMA Kept3 ==
    ASSUME Ring3, UNCHANGED <<shape, lb3>>
    PROVE  Ring3'
BY SameShape DEF Ring3

Buffer2 == Ring2 /\ Domain2 /\ Register2 /\ Filled2
Buffer1 == Register1 /\ Filled1

LEMMA Kept2 ==
    ASSUME Buffer2, UNCHANGED <<shape, lb2>>
    PROVE  Buffer2'
BY SameShape DEF Buffer2, Ring2, Domain2, Register2, Filled2

LEMMA Kept1 ==
    ASSUME Buffer1, UNCHANGED <<shape, lb1>>
    PROVE  Buffer1'
BY SameShape DEF Buffer1, Register1, Filled1

LEMMA IInvParts ==
    IInv <=> Fits /\ Linked /\ Ring3 /\ Buffer2 /\ Buffer1
BY DEF IInv, Linked, Buffer2, Buffer1

-----------------------------------------------------------------------------
(* The steps of Linebuffer1D.                                                *)

\* What a shift register of n stencils holds after one more was read.
LEMMA ShiftedHolds ==
    ASSUME NEW t, NEW z, NEW y, NEW x \in Nat, NEW n \in Nat \ {0}, NEW e1, NEW e2, NEW buffer,
           \A i \in 0..n-1 : x - n + i >= 0 => buffer[i] = Column(t, z, y, x - n + i, e1, e2)
    PROVE  \A i \in 0..n-1 : x - (n - 1) + i >= 0 =>
               Shifted(buffer, n, Column(t, z, y, x, e1, e2))[i]
                   = Column(t, z, y, x - (n - 1) + i, e1, e2)
<1> SUFFICES ASSUME NEW i \in 0..n-1, x - (n - 1) + i >= 0
             PROVE  Shifted(buffer, n, Column(t, z, y, x, e1, e2))[i]
                        = Column(t, z, y, x - (n - 1) + i, e1, e2)
    OBVIOUS
<1>1. CASE i < n - 1
    <2>1. i + 1 \in 0..n-1 /\ x - n + (i + 1) = x - (n - 1) + i
        BY <1>1
    <2> QED
        BY <1>1, <2>1 DEF Shifted
<1>2. CASE i = n - 1
    <2>1. x - (n - 1) + i = x
        BY <1>2
    <2> QED
        BY <1>2, <2>1 DEF Shifted
<1> QED
    BY <1>1, <1>2

LEMMA StepBypass1D ==
    ASSUME IInv, Bypass1D
    PROVE  IInv'
<1> USE SameShape
<1>1. Fits /\ Linked /\ Ring3 /\ Buffer2 /\ Buffer1 /\ Has1D /\ Linebuffer1D = "bypass"
    BY IInvParts DEF Bypass1D, On1D, Has1D
<1>2. shape.ow = 1
    BY <1>1, Kinds
<1>3. lb1.at \in Place /\ lb1.at.x \in Nat
    BY <1>1 DEF Linked, Places, Within, Place
<1>4. Out1(lb1.at, shape.ow) = lb1.at
    BY <1>2, <1>3, PlaceEqual DEF Out1
<1>5. Input(From1) = View(lb1.at, 1, shape.oh, shape.od)
    BY <1>1, Input1 DEF Bypass1D, Iterate
<1>6. lb1'.at = Advance(lb1.at, shape.w, NUM_OF_OUTPUT_1, NUM_OF_OUTPUT_2)
    BY DEF Bypass1D, Loop1D
<1>7. TRUE <=> lb1.at.x >= shape.ow - 1
    BY <1>2, <1>3
<1>8. Linked'
    <2> DEFINE stencil == Input(From1)
    <2>1. stencil = View(Out1(lb1.at, shape.ow), shape.ow, shape.oh, shape.od)
        BY <1>2, <1>4, <1>5
    <2>2. /\ Iterate(From1, "out_stream", TRUE, stencil)
          /\ lb1.at.t < shape.frames /\ UNCHANGED <<shape, next, src, lb3, lb2>>
        BY DEF Bypass1D, On1D
    <2> HIDE DEF stencil
    <2> QED
        BY <1>1, <1>6, <1>7, <2>1, <2>2, Links1
<1>9. Ring3' /\ Buffer2'
    BY <1>1, Kept3, Kept2 DEF Bypass1D
<1>10. Buffer1' /\ Fits'
    BY <1>1 DEF Buffer1, Register1, Filled1, Bypass1D
<1> QED
    BY <1>8, <1>9, <1>10 DEF IInv, Linked, Buffer2, Buffer1

LEMMA StepShift1D ==
    ASSUME IInv, Shift1D
    PROVE  IInv'
<1> DEFINE n == shape.ow
           p == lb1.at
           q == Advance(p, shape.w, NUM_OF_OUTPUT_1, NUM_OF_OUTPUT_2)
           buffer == Shifted(lb1.buffer, n, Input(From1))
           emits == p.x >= n - 1
<1> USE SameShape
<1>1. Fits /\ Linked /\ Ring3 /\ Buffer2 /\ Buffer1 /\ Has1D /\ Linebuffer1D = "shift"
    BY IInvParts DEF Shift1D, On1D, Has1D
<1>2. n \in Nat \ {0} /\ shape.oh \in Nat \ {0} /\ shape.od \in Nat \ {0} /\ n <= shape.w
    BY <1>1, Extents
<1>3. /\ p \in Place /\ q \in Place /\ p.t \in Nat /\ p.z \in Nat /\ p.y \in Nat /\ p.x \in Nat
      /\ q.x = 0 \/ (q.x = p.x + 1 /\ q.y = p.y /\ q.z = p.z /\ q.t = p.t)
    <2> DEFINE w == shape.w
               h == NUM_OF_OUTPUT_1
               d == NUM_OF_OUTPUT_2
    <2>1. w \in Nat \ {0} /\ h \in Nat \ {0} /\ d \in Nat \ {0} /\ Within(p, w, h, d)
        BY <1>1, Extents DEF Linked, Places
    <2>2. q = Advance(p, w, h, d)
        OBVIOUS
    <2> HIDE DEF w, h, d, p, q
    <2>3. /\ p \in Place /\ q \in Place /\ p.t \in Nat /\ p.z \in Nat /\ p.y \in Nat /\ p.x \in Nat
          /\ p.x < w
          /\ q.x = 0 \/ (q.x = p.x + 1 /\ q.y = p.y /\ q.z = p.z /\ q.t = p.t)
        BY <2>1, <2>2, AdvanceCases
    <2> QED
        BY <1>2, <2>3 DEF w
<1>4. Input(From1) = Column(p.t, p.z, p.y, p.x, shape.oh, shape.od)
    BY <1>1, <1>3, Input1, ViewColumn DEF Shift1D, Iterate
<1>5. \A i \in 0..n-1 : p.x - (n - 1) + i >= 0 =>
          buffer[i] = Column(p.t, p.z, p.y, p.x - (n - 1) + i, shape.oh, shape.od)
    <2> DEFINE t == p.t
               z == p.z
               y == p.y
               x == p.x
               e1 == shape.oh
               e2 == shape.od
               input == Input(From1)
    <2>1. /\ x \in Nat /\ n \in Nat \ {0} /\ input = Column(t, z, y, x, e1, e2)
          /\ \A i \in 0..n-1 : x - n + i >= 0 => lb1.buffer[i] = Column(t, z, y, x - n + i, e1, e2)
        BY <1>1, <1>2, <1>3, <1>4 DEF Buffer1, Register1
    <2> HIDE DEF n, p, t, z, y, x, e1, e2, input
    <2>2. \A i \in 0..n-1 : x - (n - 1) + i >= 0 =>
              Shifted(lb1.buffer, n, input)[i] = Column(t, z, y, x - (n - 1) + i, e1, e2)
        BY <2>1, ShiftedHolds
    <2> QED
        BY <2>2 DEF t, z, y, x, e1, e2, input
<1>6. lb1' = [at |-> q, buffer |-> IF q.x = 0 THEN Fresh1 ELSE buffer]
    BY DEF Shift1D, Loop1D
<1> HIDE DEF buffer, q
<1>7. Linked'
    <2> DEFINE stencil == Stack0(buffer, n)
    <2>1. ASSUME emits
          PROVE  stencil = View(Out1(p, n), n, shape.oh, shape.od)
        <3> DEFINE o == Out1(p, n)
                   e1 == shape.oh
                   e2 == shape.od
        <3>1. /\ o \in Place /\ o.t = p.t /\ o.z = p.z /\ o.y = p.y /\ o.x = p.x - (n - 1)
            BY <1>2, <1>3, <2>1 DEF Out1, PlaceAt, Place
        <3>2. \A i \in 0..n-1 : buffer[i] = Column(o.t, o.z, o.y, o.x + i, e1, e2)
            BY <1>2, <1>3, <1>5, <2>1, <3>1
        <3>3. n \in Nat \ {0} /\ e1 \in Nat \ {0} /\ e2 \in Nat \ {0}
            BY <1>2
        <3> HIDE DEF o, n, e1, e2
        <3>4. Stack0(buffer, n) = View(o, n, e1, e2)
            BY <3>1, <3>2, <3>3, Stack0View
        <3> QED
            BY <3>4 DEF o, e1, e2
    <2>2. /\ Iterate(From1, "out_stream", emits, stencil)
          /\ p.t < shape.frames /\ UNCHANGED <<shape, next, src, lb3, lb2>>
        BY DEF Shift1D, On1D, Filled, buffer
    <2>3. lb1'.at = Advance(lb1.at, shape.w, NUM_OF_OUTPUT_1, NUM_OF_OUTPUT_2)
        BY <1>6 DEF q
    <2>4. emits \in BOOLEAN /\ (emits <=> lb1.at.x >= shape.ow - 1)
        BY <1>2, <1>3
    <2> HIDE DEF stencil, emits
    <2> QED
        BY <1>1, <2>1, <2>2, <2>3, <2>4, Links1
<1>8. Ring3' /\ Buffer2' /\ Fits'
    BY <1>1, Kept3, Kept2 DEF Shift1D
<1>9. Buffer1'
    <2>1. shape' = shape
        BY DEF Shift1D
    <2>2. Filled1'
        BY <1>1, <2>1 DEF Filled1
    <2>3. ASSUME NEW i \in 0..n-1, q.x - n + i >= 0
          PROVE  lb1'.buffer[i] = Column(q.t, q.z, q.y, q.x - n + i, shape.oh, shape.od)
        <3>1. q.x # 0
            BY <1>2, <2>3
        <3>2. q.x - n + i = p.x - (n - 1) + i
            BY <1>2, <1>3, <3>1
        <3> QED
            BY <1>3, <1>5, <1>6, <2>3, <3>1, <3>2
    <2>4. Register1'
        BY <1>6, <2>1, <2>3 DEF Register1
    <2> QED
        BY <2>2, <2>4 DEF Buffer1
<1> QED
    BY <1>7, <1>8, <1>9 DEF IInv, Linked, Buffer2, Buffer1

LEMMA StepSipo1D ==
    ASSUME IInv, Sipo1D
    PROVE  IInv'
<1> DEFINE n == shape.ow
           p == lb1.at
           q == Advance(p, shape.w, NUM_OF_OUTPUT_1, NUM_OF_OUTPUT_2)
           buffer == [lb1.buffer EXCEPT ![p.x] = Input(From1)]
           emits == p.x = shape.w - 1
<1> USE SameShape
<1>1. Fits /\ Linked /\ Ring3 /\ Buffer2 /\ Buffer1 /\ Has1D /\ Linebuffer1D = "sipo"
    BY IInvParts DEF Sipo1D, On1D, Has1D
<1>2. n \in Nat \ {0} /\ shape.oh \in Nat \ {0} /\ shape.od \in Nat \ {0} /\ n = shape.w
    BY <1>1, Extents, Kinds
<1>3. /\ p \in Place /\ q \in Place /\ p.t \in Nat /\ p.z \in Nat /\ p.y \in Nat /\ p.x \in Nat
      /\ p.x < n
      /\ q.x = 0 \/ (q.x = p.x + 1 /\ q.y = p.y /\ q.z = p.z /\ q.t = p.t)
    <2> DEFINE w == shape.w
               h == NUM_OF_OUTPUT_1
               d == NUM_OF_OUTPUT_2
    <2>1. w \in Nat \ {0} /\ h \in Nat \ {0} /\ d \in Nat \ {0} /\ Within(p, w, h, d)
        BY <1>1, Extents DEF Linked, Places
    <2>2. q = Advance(p, w, h, d)
        OBVIOUS
    <2> HIDE DEF w, h, d, p, q
    <2>3. /\ p \in Place /\ q \in Place /\ p.t \in Nat /\ p.z \in Nat /\ p.y \in Nat /\ p.x \in Nat
          /\ p.x < w
          /\ q.x = 0 \/ (q.x = p.x + 1 /\ q.y = p.y /\ q.z = p.z /\ q.t = p.t)
        BY <2>1, <2>2, AdvanceCases
    <2> QED
        BY <1>2, <2>3 DEF w
<1>4. Input(From1) = Column(p.t, p.z, p.y, p.x, shape.oh, shape.od)
    BY <1>1, <1>3, Input1, ViewColumn DEF Sipo1D, Iterate
<1>5. /\ DOMAIN buffer = 0..n-1
      /\ \A i \in 0..n-1 : i <= p.x =>
            buffer[i] = Column(p.t, p.z, p.y, i, shape.oh, shape.od)
    BY <1>1, <1>2, <1>3, <1>4 DEF Buffer1, Filled1
<1>6. lb1' = [at |-> q, buffer |-> IF q.x = 0 THEN Fresh1 ELSE buffer]
    BY DEF Sipo1D, Loop1D
<1> HIDE DEF buffer, q
<1>7. Linked'
    <2> DEFINE stencil == Stack0(buffer, n)
    <2>1. ASSUME emits
          PROVE  stencil = View(Out1(p, n), n, shape.oh, shape.od)
        <3> DEFINE o == Out1(p, n)
                   e1 == shape.oh
                   e2 == shape.od
        <3>1. /\ o \in Place /\ o.t = p.t /\ o.z = p.z /\ o.y = p.y /\ o.x = 0
            BY <1>2, <1>3, <2>1 DEF Out1, PlaceAt, Place
        <3>2. \A i \in 0..n-1 : buffer[i] = Column(o.t, o.z, o.y, o.x + i, e1, e2)
            BY <1>2, <1>3, <1>5, <2>1, <3>1
        <3>3. n \in Nat \ {0} /\ e1 \in Nat \ {0} /\ e2 \in Nat \ {0}
            BY <1>2
        <3> HIDE DEF o, n, e1, e2
        <3>4. Stack0(buffer, n) = View(o, n, e1, e2)
            BY <3>1, <3>2, <3>3, Stack0View
        <3> QED
            BY <3>4 DEF o, e1, e2
    <2>2. /\ Iterate(From1, "out_stream", emits, stencil)
          /\ p.t < shape.frames /\ UNCHANGED <<shape, next, src, lb3, lb2>>
        BY <1>2 DEF Sipo1D, On1D, buffer
    <2>3. lb1'.at = Advance(lb1.at, shape.w, NUM_OF_OUTPUT_1, NUM_OF_OUTPUT_2)
        BY <1>6 DEF q
    <2>4. emits \in BOOLEAN /\ (emits <=> lb1.at.x >= shape.ow - 1)
        BY <1>2, <1>3
    <2> HIDE DEF stencil, emits
    <2> QED
        BY <1>1, <2>1, <2>2, <2>3, <2>4, Links1
<1>8. Ring3' /\ Buffer2' /\ Fits'
    BY <1>1, Kept3, Kept2 DEF Sipo1D
<1>9. Buffer1'
    <2>1. shape' = shape
        BY DEF Sipo1D
    <2>2. Register1'
        BY <1>1, <2>1 DEF Register1
    <2>3. DOMAIN lb1'.buffer = 0..n-1
        BY <1>5, <1>6 DEF Fresh1
    <2>4. ASSUME NEW i \in 0..n-1, i < q.x
          PROVE  lb1'.buffer[i] = Column(q.t, q.z, q.y, i, shape.oh, shape.od)
        BY <1>2, <1>3, <1>5, <1>6, <2>4
    <2>5. Filled1'
        BY <1>6, <2>1, <2>3, <2>4 DEF Filled1
    <2> QED
        BY <2>2, <2>5 DEF Buffer1
<1> QED
    BY <1>7, <1>8, <1>9 DEF IInv, Linked, Buffer2, Buffer1

-----------------------------------------------------------------------------
(* The steps of Linebuffer2D.                                                *)

\* The loops go on in the same line, in the next line, or in a new call.
LEMMA Loop2DCases ==
    ASSUME Fits, Places, NEW i, NEW b, Loop2D(i, b)
    PROVE  LET p == lb2.at
               q == lb2'.at
           IN  /\ q = Advance(p, shape.w, shape.h, NUM_OF_OUTPUT_2)
               /\ p \in Place /\ q \in Place
               /\ p.t \in Nat /\ p.z \in Nat /\ p.y \in Nat /\ p.x \in Nat
               /\ p.x < shape.w /\ p.y < shape.h
               /\ \/ q.x = 0 /\ q.y = 0 /\ lb2'.write_idx = 0 /\ lb2'.buffer = Fresh2
                  \/ /\ q.t = p.t /\ q.z = p.z /\ lb2'.buffer = b
                     /\ \/ q.x = p.x + 1 /\ q.y = p.y /\ lb2'.write_idx = i
                        \/ /\ q.x = 0 /\ q.y = p.y + 1 /\ p.x = shape.w - 1
                           /\ lb2'.write_idx = i + 1
<1> DEFINE w == shape.w
           h == shape.h
           d == NUM_OF_OUTPUT_2
           p == lb2.at
           q == Advance(p, w, h, d)
<1>1. w \in Nat \ {0} /\ h \in Nat \ {0} /\ d \in Nat \ {0} /\ Within(p, w, h, d)
    BY Extents DEF Places
<1>2. /\ lb2'.at = q
      /\ IF q.t # p.t \/ q.z # p.z THEN lb2'.write_idx = 0 /\ lb2'.buffer = Fresh2
         ELSE lb2'.write_idx = (IF q.y # p.y THEN i + 1 ELSE i) /\ lb2'.buffer = b
    BY DEF Loop2D
<1>3. q = Advance(p, w, h, d)
    OBVIOUS
<1> HIDE DEF w, h, d, p, q
<1>4. /\ p \in Place /\ q \in Place
      /\ p.t \in Nat /\ p.z \in Nat /\ p.y \in Nat /\ p.x \in Nat
      /\ p.x < w /\ p.y < h /\ p.z < d
      /\ \/ p.x + 1 < w /\ q.x = p.x + 1 /\ q.y = p.y /\ q.z = p.z /\ q.t = p.t
         \/ p.x = w - 1 /\ q.x = 0 /\ q.y = p.y + 1 /\ q.z = p.z /\ q.t = p.t
         \/ p.x = w - 1 /\ p.y = h - 1 /\ q.x = 0 /\ q.y = 0 /\ q.z = p.z + 1 /\ q.t = p.t
         \/ p.x = w - 1 /\ q.x = 0 /\ q.y = 0 /\ q.z = 0 /\ q.t = p.t + 1
    BY <1>1, <1>3, AdvanceCases
<1>5. \/ q.x = 0 /\ q.y = 0 /\ lb2'.write_idx = 0 /\ lb2'.buffer = Fresh2
      \/ /\ q.t = p.t /\ q.z = p.z /\ lb2'.buffer = b
         /\ \/ q.x = p.x + 1 /\ q.y = p.y /\ lb2'.write_idx = i
            \/ /\ q.x = 0 /\ q.y = p.y + 1 /\ p.x = w - 1
               /\ lb2'.write_idx = i + 1
    BY <1>2, <1>4
<1> QED
    BY <1>2, <1>3, <1>4, <1>5 DEF p, w, h, d

LEMMA Fresh2Domain ==
    ASSUME Fits
    PROVE  /\ DOMAIN Fresh2 = 0..shape.oh-1
           /\ \A l \in 0..shape.oh-1 : DOMAIN Fresh2[l] = 0..shape.w-1
BY DEF Fresh2

LEMMA StepShift2D ==
    ASSUME IInv, Shift2D
    PROVE  IInv'
<1> DEFINE n == shape.oh
           p == lb2.at
           q == lb2'.at
           input == Input(From2)
           lines == [l \in 0..n-1 |-> lb2.buffer[l][0]]
           column == Shifted(lines, n, input)
           buffer == [l \in 0..n-1 |-> [x \in 0..0 |-> column[l]]]
           emits == p.y >= n - 1
<1> USE SameShape
<1>1. Fits /\ Linked /\ Ring3 /\ Buffer2 /\ Buffer1 /\ Linebuffer2D = "shift" /\ Has2D /\ ~Has1D
    BY IInvParts DEF Shift2D, Has2D, Has1D
<1>2. /\ n \in Nat \ {0} /\ shape.od \in Nat \ {0} /\ shape.w = 1 /\ shape.ow = 1
      /\ shape.h \in Nat /\ n <= shape.h
    BY <1>1, Extents, Kinds
<1>3. /\ q = Advance(p, shape.w, shape.h, NUM_OF_OUTPUT_2)
      /\ p \in Place /\ q \in Place /\ p.t \in Nat /\ p.z \in Nat /\ p.y \in Nat /\ p.x = 0
      /\ \/ q.x = 0 /\ q.y = 0 /\ lb2'.buffer = Fresh2
         \/ q.x = 0 /\ q.y = p.y + 1 /\ q.z = p.z /\ q.t = p.t /\ lb2'.buffer = buffer
    <2>1. Loop2D(0, buffer)
        BY DEF Shift2D
    <2> HIDE DEF buffer
    <2>2. /\ q = Advance(p, shape.w, shape.h, NUM_OF_OUTPUT_2)
          /\ p \in Place /\ q \in Place
          /\ p.t \in Nat /\ p.z \in Nat /\ p.y \in Nat /\ p.x \in Nat
          /\ p.x < shape.w /\ p.y < shape.h
          /\ \/ q.x = 0 /\ q.y = 0 /\ lb2'.buffer = Fresh2
             \/ /\ q.t = p.t /\ q.z = p.z /\ lb2'.buffer = buffer
                /\ \/ q.x = p.x + 1 /\ q.y = p.y
                   \/ q.x = 0 /\ q.y = p.y + 1
        BY <1>1, <2>1, Loop2DCases DEF Linked
    <2>3. Within(q, shape.w, shape.h, NUM_OF_OUTPUT_2)
        BY <1>1, <2>2, Extents, AdvanceWithin DEF Linked, Places
    <2>4. q.x \in Nat /\ q.x < 1
        BY <1>2, <2>3 DEF Within, Place
    <2> HIDE DEF p, q
    <2> QED
        BY <1>2, <2>2, <2>4
<1>4. input = View(p, 1, 1, shape.od)
    BY <1>1, Input2 DEF Shift2D, Iterate
<1>5. \A l \in 0..n-1 : p.y - (n - 1) + l >= 0 =>
          column[l] = Column(p.t, p.z, p.y - (n - 1) + l, p.x, 1, shape.od)
    <2> SUFFICES ASSUME NEW l \in 0..n-1, p.y - (n - 1) + l >= 0
                 PROVE  column[l] = Column(p.t, p.z, p.y - (n - 1) + l, p.x, 1, shape.od)
        OBVIOUS
    <2>1. \A j \in 0..n-1 : p.y - n + j >= 0 =>
             lines[j] = Column(p.t, p.z, p.y - n + j, p.x, 1, shape.od)
        BY <1>1, <1>3 DEF Buffer2, Register2
    <2>2. input = Column(p.t, p.z, p.y, p.x, 1, shape.od)
        BY <1>3, <1>4, ViewColumn
    <2> HIDE DEF p, lines, input, n
    <2>3. CASE l < n - 1
        <3>1. l + 1 \in 0..n-1 /\ p.y - n + (l + 1) = p.y - (n - 1) + l
            BY <1>2, <1>3, <2>3
        <3> QED
            BY <2>1, <2>3, <3>1 DEF Shifted
    <2>4. CASE l = n - 1
        <3>1. p.y - (n - 1) + l = p.y
            BY <1>2, <1>3, <2>4
        <3> QED
            BY <1>2, <2>2, <2>4, <3>1 DEF Shifted
    <2> QED
        BY <1>2, <2>3, <2>4
<1> HIDE DEF column
<1>6. Linked'
    <2> DEFINE stencil == Stack1(column, n)
    <2>1. ASSUME emits
          PROVE  stencil = View(Out1(Out2(p, n), shape.ow), shape.ow, n, shape.od)
        <3> DEFINE o == Out1(Out2(p, n), shape.ow)
                   e2 == shape.od
        <3>1. /\ o \in Place /\ o.t = p.t /\ o.z = p.z /\ o.y = p.y - (n - 1) /\ o.x = p.x
            BY <1>2, <1>3, <2>1 DEF Out1, Out2, PlaceAt, Place
        <3>2. \A j \in 0..n-1 : column[j] = Column(o.t, o.z, o.y + j, o.x, 1, e2)
            BY <1>2, <1>3, <1>5, <2>1, <3>1
        <3>3. n \in Nat \ {0} /\ e2 \in Nat \ {0}
            BY <1>2
        <3> HIDE DEF o, n, e2
        <3>4. Stack1(column, n) = View(o, 1, n, e2)
            BY <3>1, <3>2, <3>3, Stack1View
        <3> QED
            BY <1>2, <3>4 DEF o, e2
    <2>2. /\ Iterate(From2, "out_stream", emits, stencil)
          /\ p.t < shape.frames /\ UNCHANGED <<shape, next, src, lb3, lb1>>
        BY DEF Shift2D, column
    <2>3. emits \in BOOLEAN /\ (emits <=> p.y >= shape.oh - 1 /\ p.x >= shape.ow - 1)
        BY <1>2, <1>3
    <2> HIDE DEF stencil, emits
    <2> QED
        BY <1>1, <1>3, <2>1, <2>2, <2>3, Links2direct
<1>7. Ring3' /\ Buffer1' /\ Fits'
    BY <1>1, Kept3, Kept1 DEF Shift2D
<1>8. Buffer2'
    <2>1. shape' = shape
        BY DEF Shift2D
    <2>2. Ring2' /\ Filled2'
        BY <1>1, <2>1 DEF Ring2, Filled2
    <2>a. /\ DOMAIN buffer = 0..n-1
          /\ \A l \in 0..n-1 : DOMAIN buffer[l] = 0..0 /\ buffer[l][0] = column[l]
        OBVIOUS
    <2> HIDE DEF buffer, p, q
    <2>b. 0..shape.w-1 = 0..0
        BY <1>2
    <2>3. Domain2'
        <3>1. CASE lb2'.buffer = buffer
            BY <1>2, <2>a, <2>b, <2>1, <3>1 DEF Domain2
        <3>2. CASE lb2'.buffer = Fresh2
            BY <1>1, <2>1, <3>2, Fresh2Domain DEF Domain2
        <3> QED
            BY <1>3, <3>1, <3>2
    <2>4. ASSUME NEW l \in 0..n-1, q.y - n + l >= 0
          PROVE  lb2'.buffer[l][0] = Column(q.t, q.z, q.y - n + l, 0, 1, shape.od)
        <3>1. q.y # 0
            BY <1>2, <2>4
        <3>2. q.y - n + l = p.y - (n - 1) + l
            BY <1>2, <1>3, <3>1
        <3>3. lb2'.buffer[l][0] = column[l]
            BY <1>3, <2>a, <3>1
        <3> QED
            BY <1>3, <1>5, <2>4, <3>1, <3>2, <3>3
    <2>5. Register2'
        BY <2>1, <2>4 DEF Register2, q
    <2> QED
        BY <2>2, <2>3, <2>5 DEF Buffer2
<1> QED
    BY <1>6, <1>7, <1>8 DEF IInv, Linked, Buffer2, Buffer1

LEMMA StepSipo2D ==
    ASSUME IInv, Sipo2D
    PROVE  IInv'
<1> DEFINE n == shape.oh
           m == shape.w
           p == lb2.at
           q == lb2'.at
           input == Input(From2)
           buffer == [lb2.buffer EXCEPT ![p.y][p.x] = input]
           column(x) == Stack1([l \in 0..n-1 |-> buffer[l][x]], n)
           columns == [x \in 0..m-1 |-> column(x)]
           emits == p.y = shape.h - 1 /\ p.x = m - 1
<1> USE SameShape
<1>1. Fits /\ Linked /\ Ring3 /\ Buffer2 /\ Buffer1 /\ Linebuffer2D = "sipo" /\ Has2D /\ ~Has1D
    BY IInvParts DEF Sipo2D, Has2D, Has1D
<1>2. /\ n \in Nat \ {0} /\ m \in Nat \ {0} /\ shape.od \in Nat \ {0}
      /\ shape.ow = m /\ shape.h = n
    BY <1>1, Extents, Kinds
<1>3. /\ q = Advance(p, shape.w, shape.h, NUM_OF_OUTPUT_2)
      /\ p \in Place /\ q \in Place /\ p.t \in Nat /\ p.z \in Nat /\ p.y \in Nat /\ p.x \in Nat
      /\ p.x < m /\ p.y < n
      /\ \/ q.x = 0 /\ q.y = 0 /\ lb2'.buffer = Fresh2
         \/ /\ q.t = p.t /\ q.z = p.z /\ lb2'.buffer = buffer
            /\ \/ q.x = p.x + 1 /\ q.y = p.y
               \/ q.x = 0 /\ q.y = p.y + 1 /\ p.x = m - 1
    <2>1. Loop2D(0, buffer)
        BY DEF Sipo2D
    <2> HIDE DEF buffer
    <2> QED
        BY <1>1, <1>2, <2>1, Loop2DCases DEF Linked
<1>4. input = Column(p.t, p.z, p.y, p.x, 1, shape.od)
    BY <1>1, <1>3, Input2, ViewColumn DEF Sipo2D, Iterate
<1> HIDE DEF input
<1>5. /\ DOMAIN buffer = 0..n-1
      /\ \A l \in 0..n-1 : DOMAIN buffer[l] = 0..m-1
      /\ \A l \in 0..n-1, x \in 0..m-1 :
            l < p.y \/ (l = p.y /\ x <= p.x) =>
                buffer[l][x] = Column(p.t, p.z, l, x, 1, shape.od)
    <2>1. /\ DOMAIN lb2.buffer = 0..n-1
          /\ \A l \in 0..n-1 : DOMAIN lb2.buffer[l] = 0..m-1
          /\ \A l \in 0..n-1, x \in 0..m-1 :
                l < p.y \/ (l = p.y /\ x < p.x) =>
                    lb2.buffer[l][x] = Column(p.t, p.z, l, x, 1, shape.od)
        BY <1>1 DEF Buffer2, Domain2, Filled2
    <2>2. p.y \in 0..n-1 /\ p.x \in 0..m-1
        BY <1>2, <1>3
    <2>3. /\ DOMAIN buffer = 0..n-1
          /\ buffer[p.y] = [lb2.buffer[p.y] EXCEPT ![p.x] = input]
          /\ \A l \in 0..n-1 : l # p.y => buffer[l] = lb2.buffer[l]
        BY <2>1, <2>2
    <2> HIDE DEF buffer, p, n, m
    <2>4. /\ DOMAIN buffer[p.y] = 0..m-1
          /\ buffer[p.y][p.x] = input
          /\ \A x \in 0..m-1 : x # p.x => buffer[p.y][x] = lb2.buffer[p.y][x]
        BY <2>1, <2>2, <2>3
    <2>5. \A l \in 0..n-1 : DOMAIN buffer[l] = 0..m-1
        BY <2>1, <2>3, <2>4
    <2>6. ASSUME NEW l \in 0..n-1, NEW x \in 0..m-1, l < p.y \/ (l = p.y /\ x <= p.x)
          PROVE  buffer[l][x] = Column(p.t, p.z, l, x, 1, shape.od)
        <3>1. CASE l < p.y
            BY <1>3, <2>1, <2>3, <3>1
        <3>2. CASE l = p.y /\ x < p.x
            BY <1>3, <2>1, <2>4, <3>2
        <3>3. CASE l = p.y /\ x = p.x
            BY <1>4, <2>4, <3>3
        <3> QED
            BY <1>3, <2>6, <3>1, <3>2, <3>3
    <2> QED
        BY <2>3, <2>5, <2>6
<1> HIDE DEF buffer
<1>6. Linked'
    <2> DEFINE stencil == Stack0(columns, m)
    <2>1. ASSUME emits
          PROVE  stencil = View(Out1(Out2(p, n), shape.ow), shape.ow, n, shape.od)
        <3> DEFINE o == Out1(Out2(p, n), shape.ow)
                   e2 == shape.od
        <3>1. /\ o \in Place /\ o.t = p.t /\ o.z = p.z /\ o.y = 0 /\ o.x = 0
            BY <1>2, <1>3, <2>1 DEF Out1, Out2, PlaceAt, Place
        <3>2. n \in Nat \ {0} /\ m \in Nat \ {0} /\ e2 \in Nat \ {0}
            BY <1>2
        <3>3. ASSUME NEW x \in 0..m-1
              PROVE  column(x) = Column(o.t, o.z, o.y, o.x + x, n, e2)
            <4> DEFINE part == [l \in 0..n-1 |-> buffer[l][x]]
                       c == PlaceAt(o.t, o.z, o.y, o.x + x)
            <4>1. /\ c \in Place /\ c.t = p.t /\ c.z = p.z /\ c.y = 0 /\ c.x = x
                BY <1>3, <3>1 DEF PlaceAt, Place
            <4>2. ASSUME NEW j \in 0..n-1
                  PROVE  part[j] = Column(c.t, c.z, c.y + j, c.x, 1, e2)
                <5>1. j < p.y \/ (j = p.y /\ x <= p.x)
                    BY <1>2, <1>3, <2>1
                <5>2. buffer[j][x] = Column(p.t, p.z, j, x, 1, e2)
                    BY <1>5, <5>1
                <5>3. c.y + j = j
                    BY <4>1
                <5> HIDE DEF c
                <5> QED
                    BY <4>1, <5>2, <5>3
            <4> HIDE DEF part, c, n, e2
            <4>3. Stack1(part, n) = View(c, 1, n, e2)
                BY <3>2, <4>1, <4>2, Stack1View
            <4> QED
                BY <4>3 DEF Column, part, c
        <3>4. \A x \in 0..m-1 : columns[x] = Column(o.t, o.z, o.y, o.x + x, n, e2)
            BY <3>3
        <3> HIDE DEF o, n, m, e2, columns
        <3>5. Stack0(columns, m) = View(o, m, n, e2)
            BY <3>1, <3>2, <3>4, Stack0View
        <3> QED
            BY <1>2, <3>5 DEF o, e2
    <2>2. /\ Iterate(From2, "out_stream", emits, stencil)
          /\ p.t < shape.frames /\ UNCHANGED <<shape, next, src, lb3, lb1>>
        BY DEF Sipo2D, buffer, input
    <2>3. emits \in BOOLEAN /\ (emits <=> p.y >= shape.oh - 1 /\ p.x >= shape.ow - 1)
        BY <1>2, <1>3
    <2> HIDE DEF stencil, emits
    <2> QED
        BY <1>1, <1>3, <2>1, <2>2, <2>3, Links2direct
<1>7. Ring3' /\ Buffer1' /\ Fits'
    BY <1>1, Kept3, Kept1 DEF Sipo2D
<1>8. Buffer2'
    <2>1. shape' = shape
        BY DEF Sipo2D
    <2>2. Ring2' /\ Register2'
        BY <1>1, <2>1 DEF Ring2, Register2
    <2>3. Domain2'
        <3>1. CASE lb2'.buffer = buffer
            BY <1>5, <2>1, <3>1 DEF Domain2
        <3>2. CASE lb2'.buffer = Fresh2
            BY <1>1, <2>1, <3>2, Fresh2Domain DEF Domain2
        <3> QED
            BY <1>3, <3>1, <3>2
    <2>4. ASSUME NEW l \in 0..n-1, NEW x \in 0..m-1, l < q.y \/ (l = q.y /\ x < q.x)
          PROVE  lb2'.buffer[l][x] = Column(q.t, q.z, l, x, 1, shape.od)
        <3> HIDE DEF p, q
        <3>1. ~(q.x = 0 /\ q.y = 0)
            BY <2>4
        <3>2. /\ q.t = p.t /\ q.z = p.z /\ lb2'.buffer = buffer
              /\ \/ q.x = p.x + 1 /\ q.y = p.y
                 \/ q.x = 0 /\ q.y = p.y + 1 /\ p.x = m - 1
            BY <1>3, <3>1
        <3>3. l < p.y \/ (l = p.y /\ x <= p.x)
            BY <1>2, <1>3, <2>4, <3>2
        <3> QED
            BY <1>5, <3>2, <3>3
    <2>5. Filled2'
        BY <2>1, <2>4 DEF Filled2
    <2> QED
        BY <2>2, <2>3, <2>5 DEF Buffer2
<1> QED
    BY <1>6, <1>7, <1>8 DEF IInv, Linked, Buffer2, Buffer1

LEMMA StepBuf2D ==
    ASSUME IInv, Buf2D
    PROVE  IInv'
<1> DEFINE n == shape.oh - 1
           m == shape.w
           p == lb2.at
           q == lb2'.at
           w == Wrapped(lb2.write_idx, n)
           column == [l \in 0..n-1 |-> lb2.buffer[l][p.x]]
           input == Input(From2)
           buffer == [lb2.buffer EXCEPT ![w][p.x] = input]
           ring == Ring(column, w, n, input)
           emits == p.y >= n
<1> USE SameShape
<1>1. Fits /\ Linked /\ Ring3 /\ Buffer2 /\ Buffer1 /\ Linebuffer2D = "buf" /\ Has2D
    BY IInvParts DEF Buf2D, Has2D
<1>2. /\ n \in Nat \ {0} /\ n + 1 = shape.oh /\ shape.oh - 1 = n
      /\ m \in Nat \ {0} /\ shape.od \in Nat \ {0}
    BY <1>1, Extents, Kinds
<1>3. /\ q = Advance(p, shape.w, shape.h, NUM_OF_OUTPUT_2)
      /\ p \in Place /\ q \in Place /\ p.t \in Nat /\ p.z \in Nat /\ p.y \in Nat /\ p.x \in Nat
      /\ p.x < m
      /\ \/ q.x = 0 /\ q.y = 0 /\ lb2'.write_idx = 0 /\ lb2'.buffer = Fresh2
         \/ /\ q.t = p.t /\ q.z = p.z /\ lb2'.buffer = buffer
            /\ \/ q.x = p.x + 1 /\ q.y = p.y /\ lb2'.write_idx = w
               \/ q.x = 0 /\ q.y = p.y + 1 /\ p.x = m - 1 /\ lb2'.write_idx = w + 1
    <2>1. Loop2D(w, buffer)
        BY DEF Buf2D
    <2> HIDE DEF buffer, w
    <2> QED
        BY <1>1, <1>2, <2>1, Loop2DCases DEF Linked
<1>4. input = Column(p.t, p.z, p.y, p.x, 1, shape.od)
    BY <1>1, <1>3, Input2, ViewColumn DEF Buf2D, Iterate
<1>5. lb2.write_idx \in 0..n
    BY <1>1 DEF Buffer2, Ring2
<1>6. \A x \in 0..m-1, k \in 0..n : InRing(x < p.x, n, p.y, k) =>
         lb2.buffer[Wrapped(k + w, n)][x] = Column(p.t, p.z, p.y - n + k, x, 1, shape.od)
    BY <1>1 DEF Buffer2, Ring2
<1>7. w = Wrapped(lb2.write_idx, n)
    OBVIOUS
<1> HIDE DEF input, w, n
<1>8. /\ w \in 0..n-1 /\ Wrapped(w, n) = w /\ Wrapped(n + w, n) = w /\ w + 1 \in 0..n
      /\ \A k \in 0..n : /\ Wrapped(k + w, n) \in 0..n-1
                         /\ k > 0 /\ k < n => Wrapped(k + w, n) # w
                         /\ k < n => Wrapped(k + Wrapped(w + 1, n), n) = Wrapped((k + 1) + w, n)
    <2> HIDE SameShape
    <2> DEFINE i == lb2.write_idx
    <2>1. n \in Nat \ {0} /\ i \in 0..n /\ w = Wrapped(i, n)
        BY <1>2, <1>5, <1>7
    <2> HIDE DEF i
    <2> QED
        BY <2>1 DEF Wrapped
<1>9. /\ DOMAIN buffer = 0..n /\ \A l \in 0..n : DOMAIN buffer[l] = 0..m-1
      /\ buffer[w][p.x] = input
      /\ \A l \in 0..n, x \in 0..m-1 : l # w \/ x # p.x => buffer[l][x] = lb2.buffer[l][x]
    <2>1. /\ DOMAIN lb2.buffer = 0..n /\ \A l \in 0..n : DOMAIN lb2.buffer[l] = 0..m-1
        BY <1>1, <1>2 DEF Buffer2, Domain2
    <2>2. w \in 0..n /\ p.x \in 0..m-1
        BY <1>2, <1>3, <1>8
    <2>3. /\ DOMAIN buffer = 0..n
          /\ buffer[w] = [lb2.buffer[w] EXCEPT ![p.x] = input]
          /\ \A l \in 0..n : l # w => buffer[l] = lb2.buffer[l]
        BY <2>1, <2>2
    <2> HIDE DEF buffer, p, m
    <2>4. /\ DOMAIN buffer[w] = 0..m-1
          /\ buffer[w][p.x] = input
          /\ \A x \in 0..m-1 : x # p.x => buffer[w][x] = lb2.buffer[w][x]
        BY <2>1, <2>2, <2>3
    <2> QED
        BY <2>1, <2>3, <2>4
<1> HIDE DEF buffer
\* The ring after the iteration: every column up to p.x has its line.
<1>10. ASSUME NEW x \in 0..m-1, NEW k \in 0..n, InRing(x <= p.x, n, p.y, k)
       PROVE  buffer[Wrapped(k + w, n)][x] = Column(p.t, p.z, p.y - n + k, x, 1, shape.od)
    <2>a. Wrapped(k + w, n) \in 0..n-1
        BY <1>8
    <2>1. Wrapped(k + w, n) \in 0..n
        BY <1>2, <2>a
    <2>2. CASE x # p.x
        <3>1. x <= p.x <=> x < p.x
            BY <1>3, <2>2
        <3>2. lb2.buffer[Wrapped(k + w, n)][x] = Column(p.t, p.z, p.y - n + k, x, 1, shape.od)
            BY <1>6, <1>10, <3>1 DEF InRing
        <3> QED
            BY <1>9, <2>1, <2>2, <3>2
    <2>3. CASE x = p.x
        <3>1. k >= 1 /\ k <= n /\ p.y - n + k >= 0
            BY <1>3, <1>10, <2>3 DEF InRing
        <3>2. CASE k = n
            <4>1. p.y - n + k = p.y
                BY <1>2, <1>3, <3>2
            <4> QED
                BY <1>4, <1>8, <1>9, <2>3, <3>2, <4>1
        <3>3. CASE k < n
            <4>1. Wrapped(k + w, n) # w
                BY <1>8, <3>1, <3>3
            <4>2. InRing(x < p.x, n, p.y, k)
                BY <1>2, <1>3, <2>3, <3>1, <3>3 DEF InRing
            <4>3. lb2.buffer[Wrapped(k + w, n)][x] = Column(p.t, p.z, p.y - n + k, x, 1, shape.od)
                BY <1>6, <4>2
            <4> QED
                BY <1>9, <2>1, <4>1, <4>3
        <3> QED
            BY <1>2, <3>1, <3>2, <3>3
    <2> QED
        BY <2>2, <2>3
<1>11. Linked'
    <2> DEFINE stencil == Stack1(ring, n + 1)
    <2>1. ASSUME emits
          PROVE  stencil = View(Out2(p, shape.oh), 1, shape.oh, shape.od)
        <3> DEFINE o == Out2(p, shape.oh)
                   e2 == shape.od
                   N == n + 1
        <3>1. /\ o \in Place /\ o.t = p.t /\ o.z = p.z /\ o.y = p.y - n /\ o.x = p.x
            BY <1>2, <1>3, <2>1 DEF Out2, PlaceAt, Place
        <3>2. N \in Nat \ {0} /\ e2 \in Nat \ {0} /\ N - 1 = n
            BY <1>2
        <3>3. ASSUME NEW j \in 0..n
              PROVE  ring[j] = Column(o.t, o.z, o.y + j, o.x, 1, e2)
            <4>1. o.y + j = p.y - n + j
                BY <3>1
            <4>2. CASE j < n
                <5>1. InRing(p.x < p.x, n, p.y, j)
                    BY <1>2, <1>3, <2>1, <4>2 DEF InRing
                <5>2. p.x \in 0..m-1
                    BY <1>2, <1>3
                <5>3. lb2.buffer[Wrapped(j + w, n)][p.x] = Column(p.t, p.z, p.y - n + j, p.x, 1, e2)
                    BY <1>6, <5>1, <5>2
                <5>4. ring[j] = lb2.buffer[Wrapped(j + w, n)][p.x]
                    BY <1>8, <4>2 DEF Ring
                <5> HIDE DEF o, ring
                <5> QED
                    BY <3>1, <4>1, <5>3, <5>4
            <4>3. CASE j = n
                <5>1. ring[j] = input
                    BY <1>2, <4>3 DEF Ring
                <5>2. p.y - n + j = p.y
                    BY <1>2, <1>3, <4>3
                <5> HIDE DEF o, ring
                <5> QED
                    BY <1>4, <3>1, <4>1, <5>1, <5>2
            <4> QED
                BY <1>2, <4>2, <4>3
        <3> HIDE DEF o, e2, ring, N
        <3>4. Stack1(ring, N) = View(o, 1, N, e2)
            BY <3>1, <3>2, <3>3, Stack1View
        <3>5. N = shape.oh
            BY <1>2 DEF N
        <3> QED
            BY <3>4, <3>5 DEF o, e2, N
    <2>2. Iterate(From2, "slice_2D", emits, stencil) /\ UNCHANGED <<shape, next, src, lb3, lb1>>
        BY DEF Buf2D, input, w, n
    <2>3. emits \in BOOLEAN /\ (emits <=> p.y >= shape.oh - 1)
        BY <1>2, <1>3
    <2> HIDE DEF stencil, emits
    <2> QED
        BY <1>1, <1>3, <2>1, <2>2, <2>3, Links2buf
<1>12. Ring3' /\ Buffer1' /\ Fits'
    BY <1>1, Kept3, Kept1 DEF Buf2D
<1>13. Buffer2'
    <2>1. shape' = shape
        BY DEF Buf2D
    <2>2. Register2' /\ Filled2'
        BY <1>1, <2>1 DEF Register2, Filled2
    <2>3. Domain2'
        <3>1. CASE lb2'.buffer = buffer
            BY <1>2, <1>9, <2>1, <3>1 DEF Domain2
        <3>2. CASE lb2'.buffer = Fresh2
            BY <1>1, <2>1, <3>2, Fresh2Domain DEF Domain2
        <3> QED
            BY <1>3, <3>1, <3>2
    <2>4. lb2'.write_idx \in 0..n
        BY <1>2, <1>3, <1>8
    <2>5. ASSUME NEW x \in 0..m-1, NEW k \in 0..n, InRing(x < q.x, n, q.y, k)
          PROVE  lb2'.buffer[Wrapped(k + Wrapped(lb2'.write_idx, n), n)][x]
                     = Column(q.t, q.z, q.y - n + k, x, 1, shape.od)
        <3> HIDE DEF p, q, m
        <3>1. CASE q.x = 0 /\ q.y = 0
            BY <1>2, <2>5, <3>1 DEF InRing
        <3>2. CASE /\ q.t = p.t /\ q.z = p.z /\ lb2'.buffer = buffer
                   /\ q.x = p.x + 1 /\ q.y = p.y /\ lb2'.write_idx = w
            <4>1. x < q.x <=> x <= p.x
                BY <1>3, <3>2
            <4>2. InRing(x <= p.x, n, p.y, k)
                BY <2>5, <3>2, <4>1
            <4> QED
                BY <1>8, <1>10, <3>2, <4>2
        <3>3. CASE /\ q.t = p.t /\ q.z = p.z /\ lb2'.buffer = buffer
                   /\ q.x = 0 /\ q.y = p.y + 1 /\ p.x = m - 1 /\ lb2'.write_idx = w + 1
            <4>1. k < n /\ q.y - n + k >= 0
                BY <2>5, <3>3 DEF InRing
            <4>2. /\ k + 1 \in 0..n /\ p.y - n + (k + 1) = q.y - n + k
                  /\ InRing(x <= p.x, n, p.y, k + 1)
                BY <1>2, <1>3, <3>3, <4>1 DEF InRing
            <4>3. buffer[Wrapped((k + 1) + w, n)][x]
                      = Column(p.t, p.z, p.y - n + (k + 1), x, 1, shape.od)
                BY <1>10, <4>2
            <4>4. Wrapped(k + Wrapped(w + 1, n), n) = Wrapped((k + 1) + w, n)
                BY <1>8, <4>1
            <4> QED
                BY <3>3, <4>2, <4>3, <4>4
        <3> QED
            BY <1>3, <3>1, <3>2, <3>3
    <2>6. Ring2'
        BY <2>1, <2>4, <2>5 DEF Ring2, n
    <2> QED
        BY <2>2, <2>3, <2>6 DEF Buffer2
<1> QED
    BY <1>11, <1>12, <1>13 DEF IInv, Linked, Buffer2, Buffer1

-----------------------------------------------------------------------------
(* The steps of LB3D_buf and of the two ends.                                *)

LEMMA StepBuf3D ==
    ASSUME IInv, Buf3D
    PROVE  IInv'
<1> DEFINE n == shape.od - 1
           m == shape.w
           h == shape.h
           p == lb3.at
           q == Advance(p, shape.w, shape.h, shape.d)
           w == Wrapped(lb3.write_idx, n)
           plane == [l \in 0..n-1 |-> lb3.buffer[l][p.y][p.x]]
           input == Input("in_stream")
           buffer == [lb3.buffer EXCEPT ![w][p.y][p.x] = input]
           ring == Ring(plane, w, n, input)
           emits == p.z >= n
           Done(y, x) == y < p.y \/ (y = p.y /\ x <= p.x)
<1> USE SameShape
<1>1. Fits /\ Linked /\ Ring3 /\ Buffer2 /\ Buffer1 /\ HasLB3D
    BY IInvParts DEF Buf3D
<1>2. /\ n \in Nat \ {0} /\ n + 1 = shape.od /\ shape.od - 1 = n
      /\ m \in Nat \ {0} /\ h \in Nat \ {0}
    BY <1>1, Extents, Kinds
<1>3. /\ p \in Place /\ q \in Place /\ p.t \in Nat /\ p.z \in Nat /\ p.y \in Nat /\ p.x \in Nat
      /\ p.x < m /\ p.y < h
      /\ \/ q.x = p.x + 1 /\ q.y = p.y /\ q.z = p.z /\ q.t = p.t
         \/ p.x = m - 1 /\ q.x = 0 /\ q.y = p.y + 1 /\ q.z = p.z /\ q.t = p.t
         \/ p.x = m - 1 /\ p.y = h - 1 /\ q.x = 0 /\ q.y = 0 /\ q.z = p.z + 1 /\ q.t = p.t
         \/ q.x = 0 /\ q.y = 0 /\ q.z = 0 /\ q.t = p.t + 1
    <2> DEFINE d == shape.d
    <2>1. m \in Nat \ {0} /\ h \in Nat \ {0} /\ d \in Nat \ {0} /\ Within(p, m, h, d)
        BY <1>1, Extents DEF Linked, Places
    <2>2. q = Advance(p, m, h, d)
        OBVIOUS
    <2> HIDE DEF m, h, d, p, q
    <2> QED
        BY <2>1, <2>2, AdvanceCases
<1>4. input = Column(p.t, p.z, p.y, p.x, 1, 1)
    BY <1>1, <1>3, Input3, ViewColumn DEF Buf3D, Iterate
<1>5. lb3.write_idx \in 0..n
    BY <1>1 DEF Ring3
<1>6. \A y \in 0..h-1, x \in 0..m-1, k \in 0..n :
         InRing(y < p.y \/ (y = p.y /\ x < p.x), n, p.z, k) =>
             lb3.buffer[Wrapped(k + w, n)][y][x] = Column(p.t, p.z - n + k, y, x, 1, 1)
    BY <1>1 DEF Ring3
<1>7. /\ DOMAIN lb3.buffer = 0..n-1
      /\ \A l \in 0..n-1 : /\ DOMAIN lb3.buffer[l] = 0..h-1
                           /\ \A y \in 0..h-1 : DOMAIN lb3.buffer[l][y] = 0..m-1
    BY <1>1 DEF Ring3
<1>8. /\ lb3'.at = q
      /\ IF q.t # p.t THEN lb3'.write_idx = 0 /\ lb3'.buffer = Fresh3
         ELSE lb3'.write_idx = (IF q.z # p.z THEN w + 1 ELSE w) /\ lb3'.buffer = buffer
    BY DEF Buf3D
<1>9. /\ w \in 0..n-1 /\ Wrapped(w, n) = w /\ Wrapped(n + w, n) = w /\ w + 1 \in 0..n
      /\ \A k \in 0..n : /\ Wrapped(k + w, n) \in 0..n-1
                         /\ k > 0 /\ k < n => Wrapped(k + w, n) # w
                         /\ k < n => Wrapped(k + Wrapped(w + 1, n), n) = Wrapped((k + 1) + w, n)
    <2> DEFINE i == lb3.write_idx
    <2>1. n \in Nat \ {0} /\ i \in 0..n /\ w = Wrapped(i, n)
        BY <1>2, <1>5
    <2> HIDE DEF n, i, w
    <2> QED
        BY <2>1 DEF Wrapped
<1> HIDE DEF input, w, n
<1>10. /\ DOMAIN buffer = 0..n-1
       /\ \A l \in 0..n-1 : /\ DOMAIN buffer[l] = 0..h-1
                            /\ \A y \in 0..h-1 : DOMAIN buffer[l][y] = 0..m-1
       /\ buffer[w][p.y][p.x] = input
       /\ \A l \in 0..n-1, y \in 0..h-1, x \in 0..m-1 :
             l # w \/ y # p.y \/ x # p.x => buffer[l][y][x] = lb3.buffer[l][y][x]
    <2>1. p.y \in 0..h-1 /\ p.x \in 0..m-1
        BY <1>2, <1>3
    <2>2. /\ DOMAIN buffer = 0..n-1
          /\ buffer[w] = [lb3.buffer[w] EXCEPT ![p.y][p.x] = input]
          /\ \A l \in 0..n-1 : l # w => buffer[l] = lb3.buffer[l]
        BY <1>7, <1>9
    <2> HIDE DEF buffer, p, m, h
    <2>3. /\ DOMAIN buffer[w] = 0..h-1
          /\ buffer[w][p.y] = [lb3.buffer[w][p.y] EXCEPT ![p.x] = input]
          /\ \A y \in 0..h-1 : y # p.y => buffer[w][y] = lb3.buffer[w][y]
        BY <1>7, <1>9, <2>1, <2>2
    <2>4. /\ DOMAIN buffer[w][p.y] = 0..m-1
          /\ buffer[w][p.y][p.x] = input
          /\ \A x \in 0..m-1 : x # p.x => buffer[w][p.y][x] = lb3.buffer[w][p.y][x]
        <3> DEFINE row == lb3.buffer[w][p.y]
                   new == buffer[w][p.y]
        <3>1. DOMAIN row = 0..m-1 /\ new = [row EXCEPT ![p.x] = input]
            BY <1>7, <1>9, <2>1, <2>3
        <3> HIDE DEF row, new
        <3>2. DOMAIN new = 0..m-1 /\ new[p.x] = input /\ \A x \in 0..m-1 : x # p.x => new[x] = row[x]
            BY <2>1, <3>1
        <3> QED
            BY <3>2 DEF row, new
    <2>5. ASSUME NEW l \in 0..n-1
          PROVE  /\ DOMAIN buffer[l] = 0..h-1
                 /\ \A y \in 0..h-1 : DOMAIN buffer[l][y] = 0..m-1
        <3>1. CASE l # w
            BY <1>7, <2>2, <3>1
        <3>2. CASE l = w
            <4>1. ASSUME NEW y \in 0..h-1
                  PROVE  DOMAIN buffer[w][y] = 0..m-1
                BY <1>7, <1>9, <2>3, <2>4
            <4> QED
                BY <2>3, <3>2, <4>1
        <3> QED
            BY <3>1, <3>2
    <2>6. ASSUME NEW l \in 0..n-1, NEW y \in 0..h-1, NEW x \in 0..m-1,
                 l # w \/ y # p.y \/ x # p.x
          PROVE  buffer[l][y][x] = lb3.buffer[l][y][x]
        BY <2>2, <2>3, <2>4, <2>6
    <2> QED
        BY <2>2, <2>4, <2>5, <2>6
<1> HIDE DEF buffer
\* The ring after the iteration.
<1>11. ASSUME NEW y \in 0..h-1, NEW x \in 0..m-1, NEW k \in 0..n, InRing(Done(y, x), n, p.z, k)
       PROVE  buffer[Wrapped(k + w, n)][y][x] = Column(p.t, p.z - n + k, y, x, 1, 1)
    <2>1. Wrapped(k + w, n) \in 0..n-1
        BY <1>9
    <2>2. CASE y # p.y \/ x # p.x
        <3>1. Done(y, x) <=> y < p.y \/ (y = p.y /\ x < p.x)
            BY <1>3, <2>2
        <3>2. lb3.buffer[Wrapped(k + w, n)][y][x] = Column(p.t, p.z - n + k, y, x, 1, 1)
            BY <1>6, <1>11, <3>1 DEF InRing
        <3> QED
            BY <1>10, <2>1, <2>2, <3>2
    <2>3. CASE y = p.y /\ x = p.x
        <3>1. k >= 1 /\ k <= n /\ p.z - n + k >= 0
            BY <1>3, <1>11, <2>3 DEF InRing
        <3>2. CASE k = n
            <4>1. p.z - n + k = p.z
                BY <1>2, <1>3, <3>2
            <4> QED
                BY <1>4, <1>9, <1>10, <2>3, <3>2, <4>1
        <3>3. CASE k < n
            <4>1. Wrapped(k + w, n) # w
                BY <1>9, <3>1, <3>3
            <4>2. InRing(y < p.y \/ (y = p.y /\ x < p.x), n, p.z, k)
                BY <1>2, <1>3, <2>3, <3>1, <3>3 DEF InRing
            <4>3. lb3.buffer[Wrapped(k + w, n)][y][x] = Column(p.t, p.z - n + k, y, x, 1, 1)
                BY <1>6, <4>2
            <4> QED
                BY <1>10, <2>1, <4>1, <4>3
        <3> QED
            BY <1>2, <3>1, <3>2, <3>3
    <2> QED
        BY <2>2, <2>3
<1>12. Linked'
    <2> DEFINE stencil == Stack2(ring, n + 1)
    <2>1. ASSUME emits
          PROVE  stencil = View(Out3(p, shape.od), 1, 1, shape.od)
        <3> DEFINE o == Out3(p, shape.od)
                   N == n + 1
        <3>1. /\ o \in Place /\ o.t = p.t /\ o.z = p.z - n /\ o.y = p.y /\ o.x = p.x
            BY <1>2, <1>3, <2>1 DEF Out3, PlaceAt, Place
        <3>2. N \in Nat \ {0} /\ N - 1 = n
            BY <1>2
        <3>3. ASSUME NEW j \in 0..n
              PROVE  ring[j] = Column(o.t, o.z + j, o.y, o.x, 1, 1)
            <4>1. o.z + j = p.z - n + j
                BY <3>1
            <4>2. CASE j < n
                <5>1. InRing(p.y < p.y \/ (p.y = p.y /\ p.x < p.x), n, p.z, j)
                    BY <1>2, <1>3, <2>1, <4>2 DEF InRing
                <5>2. p.y \in 0..h-1 /\ p.x \in 0..m-1
                    BY <1>2, <1>3
                <5>3. lb3.buffer[Wrapped(j + w, n)][p.y][p.x] = Column(p.t, p.z - n + j, p.y, p.x, 1, 1)
                    BY <1>6, <5>1, <5>2
                <5>4. ring[j] = lb3.buffer[Wrapped(j + w, n)][p.y][p.x]
                    BY <1>9, <4>2 DEF Ring
                <5> HIDE DEF o, ring
                <5> QED
                    BY <3>1, <4>1, <5>3, <5>4
            <4>3. CASE j = n
                <5>1. ring[j] = input
                    BY <1>2, <4>3 DEF Ring
                <5>2. p.z - n + j = p.z
                    BY <1>2, <1>3, <4>3
                <5> HIDE DEF o, ring
                <5> QED
                    BY <1>4, <3>1, <4>1, <5>1, <5>2
            <4>4. j < n \/ j = n
                BY <1>2
            <4> HIDE DEF o, ring
            <4> QED
                BY <4>2, <4>3, <4>4
        <3> HIDE DEF o, ring, N
        <3>4. Stack2(ring, N) = View(o, 1, 1, N)
            BY <3>1, <3>2, <3>3, Stack2View
        <3>5. N = shape.od
            BY <1>2 DEF N
        <3> QED
            BY <3>4, <3>5 DEF o, N
    <2>2. Iterate("in_stream", "slice_3D", emits, stencil) /\ UNCHANGED <<shape, next, src, lb2, lb1>>
        BY DEF Buf3D, input, w, n
    <2>3. emits \in BOOLEAN /\ (emits <=> p.z >= shape.od - 1)
        BY <1>2, <1>3
    <2> HIDE DEF stencil, emits
    <2> QED
        BY <1>1, <1>8, <2>1, <2>2, <2>3, Links3
<1>13. Buffer2' /\ Buffer1' /\ Fits'
    BY <1>1, Kept2, Kept1 DEF Buf3D
<1>14. Ring3'
    <2>1. shape' = shape
        BY DEF Buf3D
    <2>2. lb3'.write_idx \in 0..n
        BY <1>2, <1>8, <1>9
    <2>3. DOMAIN lb3'.buffer = 0..n-1
        BY <1>2, <1>8, <1>10 DEF Fresh3
    <2>4. ASSUME NEW l \in 0..n-1
          PROVE  /\ DOMAIN lb3'.buffer[l] = 0..h-1
                 /\ \A y \in 0..h-1 : DOMAIN lb3'.buffer[l][y] = 0..m-1
        <3>1. CASE lb3'.buffer = Fresh3
            <4>1. l \in 0..shape.od-2
                BY <1>2
            <4> QED
                BY <3>1, <4>1 DEF Fresh3
        <3>2. CASE lb3'.buffer = buffer
            BY <1>10, <3>2
        <3> QED
            BY <1>8, <3>1, <3>2
    <2>5. ASSUME NEW y \in 0..h-1, NEW x \in 0..m-1, NEW k \in 0..n,
                 InRing(y < q.y \/ (y = q.y /\ x < q.x), n, q.z, k)
          PROVE  lb3'.buffer[Wrapped(k + Wrapped(lb3'.write_idx, n), n)][y][x]
                     = Column(q.t, q.z - n + k, y, x, 1, 1)
        <3> HIDE DEF p, q, m, h
        <3>1. CASE q.x = 0 /\ q.y = 0 /\ q.z = 0
            BY <1>2, <2>5, <3>1 DEF InRing
        <3>2. CASE /\ q.t = p.t /\ q.z = p.z
                   /\ \/ q.x = p.x + 1 /\ q.y = p.y
                      \/ p.x = m - 1 /\ q.x = 0 /\ q.y = p.y + 1
            <4>1. y < q.y \/ (y = q.y /\ x < q.x) <=> Done(y, x)
                BY <1>2, <1>3, <3>2
            <4>2. InRing(Done(y, x), n, p.z, k)
                BY <2>5, <3>2, <4>1
            <4>3. lb3'.buffer = buffer /\ lb3'.write_idx = w
                BY <1>8, <3>2
            <4> QED
                BY <1>9, <1>11, <3>2, <4>2, <4>3
        <3>3. CASE /\ p.x = m - 1 /\ p.y = h - 1 /\ q.x = 0 /\ q.y = 0
                   /\ q.z = p.z + 1 /\ q.t = p.t
            <4>1. k < n /\ q.z - n + k >= 0
                BY <2>5, <3>3 DEF InRing
            <4>2. Done(y, x)
                BY <1>2, <1>3, <3>3
            <4>3. /\ k + 1 \in 0..n /\ p.z - n + (k + 1) = q.z - n + k
                  /\ InRing(Done(y, x), n, p.z, k + 1)
                BY <1>2, <1>3, <3>3, <4>1, <4>2 DEF InRing
            <4>4. buffer[Wrapped((k + 1) + w, n)][y][x] = Column(p.t, p.z - n + (k + 1), y, x, 1, 1)
                BY <1>11, <4>3
            <4>5. Wrapped(k + Wrapped(w + 1, n), n) = Wrapped((k + 1) + w, n)
                BY <1>9, <4>1
            <4>6. lb3'.buffer = buffer /\ lb3'.write_idx = w + 1
                BY <1>3, <1>8, <3>3
            <4> QED
                BY <3>3, <4>3, <4>4, <4>5, <4>6
        <3> QED
            BY <1>3, <3>1, <3>2, <3>3
    <2>6. Ring3'
        BY <1>8, <2>1, <2>2, <2>3, <2>4, <2>5 DEF Ring3, n
    <2> QED
        BY <2>6
<1> QED
    BY <1>12, <1>13, <1>14 DEF IInv, Linked, Buffer2, Buffer1

LEMMA StepEnds ==
    ASSUME IInv, Source \/ Sink
    PROVE  IInv'
<1>1. Linked'
    BY LinksSource, LinksSink
<1>2. UNCHANGED <<shape, lb3, lb2, lb1>>
    BY DEF Source, Sink
<1>3. Fits /\ Ring3 /\ Buffer2 /\ Buffer1
    BY IInvParts
<1>4. Fits' /\ Ring3' /\ Buffer2' /\ Buffer1'
    BY <1>2, <1>3, SameShape, Kept3, Kept2, Kept1
<1> QED
    BY <1>1, <1>4 DEF IInv, Linked, Buffer2, Buffer1

LEMMA StutterIInv ==
    ASSUME IInv, UNCHANGED vars
    PROVE  IInv'
<1> USE SameShape DEF vars
<1>1. Fits /\ Linked /\ Ring3 /\ Buffer2 /\ Buffer1
    BY IInvParts
<1>2. Linked'
    BY <1>1 DEF Linked, Places, LinkIn, Link3, Link2, LinkOut, Reader3, Reader2, LastOut
<1>3. Fits' /\ Ring3' /\ Buffer2' /\ Buffer1'
    BY <1>1, Kept3, Kept2, Kept1
<1> QED
    BY <1>2, <1>3 DEF IInv, Linked, Buffer2, Buffer1

LEMMA InitIInv ==
    ASSUME Init
    PROVE  IInv
<1>1. Fits
    BY DEF Init, RefInit, Fits
<1>a. /\ src = Origin /\ streams = [c \in Streams |-> <<>>]
      /\ lb3.at = Origin /\ lb3.write_idx = 0 /\ lb3.buffer = Fresh3
      /\ lb2.at = Origin /\ lb2.write_idx = 0 /\ lb2.buffer = Fresh2
      /\ lb1.at = Origin /\ lb1.buffer = Fresh1
    BY DEF Init
<1>2. Origin \in Place /\ Origin.t = 0 /\ Origin.z = 0 /\ Origin.y = 0 /\ Origin.x = 0
    BY DEF Origin, PlaceAt, Place
<1>3. next = Origin
    BY DEF Init, RefInit
<1>4. Places
    <2>1. \A w, h, d \in Nat \ {0} : Within(Origin, w, h, d)
        BY <1>2 DEF Within
    <2>2. shape.w - shape.ow + 1 \in Nat \ {0}
        BY <1>1, Extents
    <2> QED
        BY <1>1, <1>a, <1>3, <2>1, <2>2, Extents DEF Places
<1>5. \A n \in Nat \ {0} : Out1(Origin, n) = Origin /\ Out2(Origin, n) = Origin /\ Out3(Origin, n) = Origin
    BY <1>2 DEF Out1, Out2, Out3, Origin
<1>6. DOMAIN streams = Streams /\ \A c \in Streams : streams[c] = <<>>
    BY <1>a
<1>7. Reader2 = Origin /\ Reader3 = Origin /\ LastOut = Origin
    BY <1>1, <1>a, <1>5, Extents DEF Reader2, Reader3, LastOut
<1>8. LinkIn /\ Link3 /\ Link2 /\ LinkOut
    BY <1>1, <1>a, <1>3, <1>5, <1>6, <1>7, Extents DEF LinkIn, Link3, Link2, LinkOut, Link, Streams
<1>9. Ring3
    <2> SUFFICES ASSUME HasLB3D PROVE Ring3
        BY DEF Ring3
    <2>1. shape.od - 1 \in Nat \ {0} /\ shape.od - 2 = (shape.od - 1) - 1
        BY <1>1, Extents, Kinds
    <2>2. /\ DOMAIN Fresh3 = 0..(shape.od - 1)-1
          /\ \A l \in 0..(shape.od - 1)-1 :
                /\ DOMAIN Fresh3[l] = 0..shape.h-1
                /\ \A y \in 0..shape.h-1 : DOMAIN Fresh3[l][y] = 0..shape.w-1
        BY <2>1 DEF Fresh3
    <2>3. ASSUME NEW y \in 0..shape.h-1, NEW x \in 0..shape.w-1, NEW k \in 0..shape.od-1
          PROVE  ~InRing(y < Origin.y \/ (y = Origin.y /\ x < Origin.x), shape.od - 1, Origin.z, k)
        BY <1>2, <2>1 DEF InRing
    <2> QED
        BY <1>a, <2>1, <2>2, <2>3 DEF Ring3
<1>10. Buffer2
    <2>1. Domain2
        BY <1>1, <1>a, Fresh2Domain DEF Domain2
    <2>2. Ring2
        <3> SUFFICES ASSUME Linebuffer2D = "buf" PROVE Ring2
            BY DEF Ring2
        <3>1. shape.oh - 1 \in Nat \ {0}
            BY <1>1, Extents, Kinds
        <3>2. ASSUME NEW x \in 0..shape.w-1, NEW k \in 0..shape.oh-1
              PROVE  ~InRing(x < Origin.x, shape.oh - 1, Origin.y, k)
            BY <1>2, <3>1 DEF InRing
        <3> QED
            BY <1>a, <3>1, <3>2 DEF Ring2
    <2>3. Register2 /\ Filled2
        BY SMTT(40), <1>1, <1>a, <1>2, Extents DEF Register2, Filled2
    <2> QED
        BY <2>1, <2>2, <2>3 DEF Buffer2
<1>11. Buffer1
    BY <1>1, <1>a, <1>2, Extents DEF Buffer1, Register1, Filled1, Fresh1
<1> QED
    BY <1>1, <1>4, <1>6, <1>8, <1>9, <1>10, <1>11 DEF IInv, Buffer2, Buffer1

-----------------------------------------------------------------------------
(* The theorems.                                                             *)

LEMMA StepIInv ==
    ASSUME IInv, [Next]_vars
    PROVE  IInv'
<1>1. CASE Source \/ Sink
    BY <1>1, StepEnds
<1>2. CASE Buf3D
    BY <1>2, StepBuf3D
<1>3. CASE Buf2D
    BY <1>3, StepBuf2D
<1>4. CASE Shift2D
    BY <1>4, StepShift2D
<1>5. CASE Sipo2D
    BY <1>5, StepSipo2D
<1>6. CASE Bypass1D
    BY <1>6, StepBypass1D
<1>7. CASE Shift1D
    BY <1>7, StepShift1D
<1>8. CASE Sipo1D
    BY <1>8, StepSipo1D
<1>9. CASE UNCHANGED vars
    BY <1>9, StutterIInv
<1> QED
    BY <1>1, <1>2, <1>3, <1>4, <1>5, <1>6, <1>7, <1>8, <1>9 DEF Next

\* The places, the streams and the buffers of the processes fit together at all
\* times: every stream holds what its reader expects, every ring, register and
\* array the stencils its process still needs.
THEOREM NetworkInvariant == Spec => []IInv
<1>1. Init => IInv
    BY InitIInv
<1>2. IInv /\ [Next]_vars => IInv'
    BY StepIInv
<1> QED
    BY <1>1, <1>2, PTL DEF Spec

\* A step of the network that delivers a stencil is linebuffer_ref's next write;
\* all others leave what was delivered alone.
LEMMA StepRef ==
    ASSUME IInv, [Next]_vars
    PROVE  [Write]_<<shape, next, out>>
<1>1. CASE Sink
    BY <1>1, LinksSink
<1>2. CASE ~Sink
    BY <1>2 DEF Next, vars, Source, Buf3D, Buf2D, Shift2D, Sipo2D, Bypass1D, Shift1D, Sipo1D
<1> QED
    BY <1>1, <1>2

\* The network of LB3D_buf, Linebuffer2D and Linebuffer1D writes, for every
\* instantiable shape and in the same order, the stencils that the loops of
\* linebuffer_ref write.
THEOREM NetworkImplementsRef == Spec => ImplementsRef
<1>1. Init => RefInit
    BY DEF Init
<1>2. IInv /\ [Next]_vars => [Write]_<<shape, next, out>>
    BY StepRef
<1> QED
    BY <1>1, <1>2, NetworkInvariant, PTL DEF Spec, ImplementsRef, RefSpec

\* The first window that src does not complete along any dimension.
LEMMA WindowNotBefore ==
    ASSUME NEW p \in Place, NEW e0 \in Nat \ {0}, NEW e1 \in Nat \ {0}, NEW e2 \in Nat \ {0},
           NEW c, c = Out1(Out2(Out3(p, e2), e1), e0)
    PROVE  ~Before(PlaceAt(c.t, c.z + e2 - 1, c.y + e1 - 1, c.x + e0 - 1), p)
<1>1. p.t \in Nat /\ p.z \in Nat /\ p.y \in Nat /\ p.x \in Nat
    BY PlaceEqual
<1>2. CASE p.z < e2 - 1
    <2>1. c = PlaceAt(p.t, 0, 0, 0)
        BY <1>1, <1>2 DEF Out1, Out2, Out3, PlaceAt
    <2> QED
        BY <1>1, <1>2, <2>1 DEF Before, PlaceAt
<1>3. CASE p.z >= e2 - 1 /\ p.y < e1 - 1
    <2>1. c = PlaceAt(p.t, p.z - (e2 - 1), 0, 0)
        BY <1>1, <1>3 DEF Out1, Out2, Out3, PlaceAt
    <2> QED
        BY <1>1, <1>3, <2>1 DEF Before, PlaceAt
<1>4. CASE p.z >= e2 - 1 /\ p.y >= e1 - 1 /\ p.x < e0 - 1
    <2>1. c = PlaceAt(p.t, p.z - (e2 - 1), p.y - (e1 - 1), 0)
        BY <1>1, <1>4 DEF Out1, Out2, Out3, PlaceAt
    <2> QED
        BY <1>1, <1>4, <2>1 DEF Before, PlaceAt
<1>5. CASE p.z >= e2 - 1 /\ p.y >= e1 - 1 /\ p.x >= e0 - 1
    <2>1. c = PlaceAt(p.t, p.z - (e2 - 1), p.y - (e1 - 1), p.x - (e0 - 1))
        BY <1>1, <1>5 DEF Out1, Out2, Out3, PlaceAt
    <2> QED
        BY <1>1, <1>5, <2>1 DEF Before, PlaceAt
<1> QED
    BY <1>1, <1>2, <1>3, <1>4, <1>5

\* When all streams are empty, all processes are at the window src completes.
LEMMA EmptyChain ==
    ASSUME IInv, Empty
    PROVE  next = Out1(Out2(Out3(src, shape.od), shape.oh), shape.ow)
<1>1. /\ Fits /\ Places /\ LinkIn /\ Link3 /\ Link2 /\ LinkOut
      /\ \A c \in Streams : streams[c] = <<>>
    BY DEF IInv, Empty
<1>2. \A v : <<v>> # <<>>
    OBVIOUS
<1>3. ASSUME NEW p \in Place
      PROVE  Out2(p, 1) = p /\ Out3(p, 1) = p
    BY PlaceEqual DEF Out2, Out3
<1>4. src = Reader3 /\ next = LastOut
    BY <1>1, <1>2 DEF LinkIn, LinkOut, Link, Streams
<1>5. src \in Place /\ lb3.at \in Place /\ lb2.at \in Place /\ lb1.at \in Place
    BY <1>1 DEF Places, Within
<1>6. Out3(src, shape.od) = Reader2
    <2>1. CASE HasLB3D
        BY <1>1, <1>2, <1>4, <2>1 DEF Link3, Link, Streams, Reader3
    <2>2. CASE ~HasLB3D
        BY <1>1, <1>3, <1>4, <1>5, <2>2, Kinds DEF Reader3
    <2> QED
        BY <2>1, <2>2
<1>7. CASE Linebuffer2D = "lines"
    BY <1>1, <1>3, <1>4, <1>5, <1>6, <1>7, Kinds DEF Reader2, Has2D, LastOut, Has1D
<1>8. CASE Linebuffer2D = "buf"
    <2>1. Out2(lb2.at, shape.oh) = lb1.at
        BY <1>1, <1>2, <1>8 DEF Link2, Link, Streams
    <2> QED
        BY <1>4, <1>6, <1>8, <2>1 DEF Reader2, Has2D, LastOut, Has1D
<1>9. CASE Linebuffer2D \in {"shift", "sipo"}
    BY <1>4, <1>6, <1>9 DEF Reader2, Has2D, LastOut, Has1D
<1> QED
    BY <1>1, <1>7, <1>8, <1>9, Kinds

\* One output per input at the steady state: whenever no stream holds anything,
\* every stencil whose inputs were all sent has been delivered, for every shape.
THEOREM NetworkKeepsUp == Spec => []KeepsUp
<1>1. IInv => KeepsUp
    <2> SUFFICES ASSUME IInv, Empty PROVE KeepsUp
        BY DEF KeepsUp
    <2> DEFINE e0 == shape.ow
               e1 == shape.oh
               e2 == shape.od
    <2>1. src \in Place
        BY DEF IInv, Places, Within
    <2>2. e0 \in Nat \ {0} /\ e1 \in Nat \ {0} /\ e2 \in Nat \ {0}
        BY Extents DEF IInv
    <2>3. next = Out1(Out2(Out3(src, e2), e1), e0)
        BY EmptyChain
    <2> HIDE DEF e0, e1, e2
    <2>4. ~Before(PlaceAt(next.t, next.z + e2 - 1, next.y + e1 - 1, next.x + e0 - 1), src)
        BY <2>1, <2>2, <2>3, WindowNotBefore
    <2> QED
        BY <2>4 DEF KeepsUp, e0, e1, e2
<1> QED
    BY <1>1, NetworkInvariant, PTL

=============================================================================
