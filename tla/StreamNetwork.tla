--------------------------- MODULE StreamNetwork ---------------------------
(***************************************************************************)
(* The hardware pipelines of the fork.  ExtractHWKernelDAG.cpp derives,    *)
(* for the functions scheduled into an accelerator, which window of every  *)
(* function each of its consumers reads per iteration; StreamOpt.cpp and   *)
(* CodeGen_HLS_Base.cpp turn the result into processes connected by        *)
(* blocking FIFOs: a DMA process per input, a compute loop per kernel, a   *)
(* line buffer where windows overlap, a dispatcher where a stream has      *)
(* several consumers.                                                      *)
(*                                                                         *)
(* The model runs the analysis on a design and then runs the network the   *)
(* analysis asks for.  It has one sliding dimension (the code treats the   *)
(* dimensions independently and line buffers of two and three dimensions   *)
(* are in module Linebuffer) and pure functions (one stage each).  A pixel *)
(* of a function is its coordinate and a stencil is a sequence of pixels.  *)
(*                                                                         *)
(* A design has                                                            *)
(*   order    the functions, inputs first and the output last;             *)
(*   names    the same functions in the order of their names, which is     *)
(*            the order std::map visits them in;                           *)
(*   inputs   the functions given to Func::accelerate;                     *)
(*   inlined  the functions computed inside a buffered one;                *)
(*   uses     for <<p, c>>, which pixels of p the pixel x of c reads:      *)
(*            (num * x + lo) / den to (num * x + hi) / den;                *)
(*   depth    the depths set with Func::fifo_depth, 0 where none is set;   *)
(*   step     the pixels of the output produced per iteration;             *)
(*   iters    the iterations of the scan loop of the output.               *)
(*                                                                         *)
(* Operators named Bad... are not part of the model: each is a wrong       *)
(* variant of the operator that follows it, used to show that a property   *)
(* depends on that operator.                                               *)
(***************************************************************************)
EXTENDS Integers, Sequences, FiniteSets, SequencesExt

CONSTANT Designs

VARIABLES
    design,  \* the design being run
    dag,     \* the kernels the analysis finds in it (HWKernelDAG::kernels)
    chan,    \* the contents of the streams
    it,      \* iterations of the loop of each kernel (or DMA) completed
    got,     \* the stencils a kernel has read in its current iteration
    lb,      \* the line buffers: stencils read, shift register, window due
    disp,    \* the dispatchers: position, stencil held, writes outstanding
    image    \* the pixels stream_to_subimage has stored

vars == <<design, dag, chan, it, got, lb, disp, image>>

----------------------------------------------------------------------------
(* The analysis: ExtractHWKernelDAG.cpp                                    *)

Least(S) == CHOOSE x \in S : \A y \in S : x <= y
Greatest(S) == CHOOSE x \in S : \A y \in S : x >= y
Hull(I) == [min |-> Least({i.min : i \in I}), max |-> Greatest({i.max : i \in I})]
Extent(i) == i.max - i.min + 1

Output(d) == Last(d.order)
Position(d, f) == CHOOSE i \in DOMAIN d.order : d.order[i] = f

\* The pixels of a function that interval b of one of its users reads.
Required(u, b) == [min |-> (u.num * b.min + u.lo) \div u.den,
                   max |-> (u.num * b.max + u.hi) \div u.den]

\* The stencil bounds pushed for a kernel: what it produces per iteration.
\* A buffered kernel produces the new pixels only, an inlined one its whole
\* window.
BadPerIteration(k) ==
    [min |-> k.min, max |-> k.min + k.step - 1]
PerIteration(k) ==
    [min |-> k.min, max |-> k.min + (IF k.is_inlined THEN k.size ELSE k.step) - 1]

\* What a consumer kernel k with use u requires per iteration and over all
\* of them.
Box(u, k) == [stencil |-> Required(u, PerIteration(k)),
              store   |-> Required(u, k.store),
              step    |-> (u.num * k.step) \div u.den]

\* The window of the merged boxes of one buffered consumer.
extract_stencil_specs(boxes) ==
    LET window == Hull({b.stencil : b \in boxes})
    IN  [min   |-> window.min,
         size  |-> Extent(window),
         step  |-> (CHOOSE b \in boxes : TRUE).step,
         store |-> Hull({b.store : b \in boxes})]

\* The window of a consumer made as large as the largest one: moved left as
\* far as it still covers the original and not past the leftmost window,
\* and enlarged to the right by the rest.
Enlarged(s, size, min) ==
    LET more == size - s.size
        left == Least({s.min - min, more})
    IN  [s EXCEPT !.min = @ - left, !.size = size,
                  !.store = [min |-> @.min - left, max |-> @.max + (more - left)]]

merge_consumer_stencils(specs) ==
    LET all  == {specs[c] : c \in DOMAIN specs}
        size == Greatest({s.size : s \in all})
        min  == Least({s.min : s \in all})
        to   == [c \in DOMAIN specs |-> Enlarged(specs[c], size, min)]
    IN  [min   |-> min,
         size  |-> size,
         step  |-> (CHOOSE s \in all : TRUE).step,
         store |-> Hull({to[c].store : c \in DOMAIN to}),
         to    |-> to]

OutputKernel(d) ==
    [min |-> 0, size |-> d.step, step |-> d.step,
     store |-> [min |-> 0, max |-> d.step * d.iters - 1],
     to |-> << >>, is_inlined |-> FALSE]

\* BuildDAGForFunction: from the output back to the inputs.  The boxes of
\* consumers inlined into the same buffered kernel are merged.
BuildDAG(d) ==
    LET kernel[i \in DOMAIN d.order] ==
            IF i = Len(d.order) THEN OutputKernel(d)
            ELSE LET users == {j \in DOMAIN d.order :
                                  <<d.order[i], d.order[j]>> \in DOMAIN d.uses}
                     sink(j) == IF kernel[j].is_inlined
                                THEN CHOOSE c \in DOMAIN kernel[j].to : TRUE
                                ELSE d.order[j]
                     boxes(c) == {Box(d.uses[<<d.order[i], d.order[j]>>], kernel[j]) :
                                     j \in {u \in users : sink(u) = c}}
                     specs == [c \in {sink(j) : j \in users} |->
                                  extract_stencil_specs(boxes(c))]
                     merged == merge_consumer_stencils(specs)
                 IN  [min |-> merged.min, size |-> merged.size,
                      step |-> merged.step, store |-> merged.store,
                      to |-> merged.to, is_inlined |-> d.order[i] \in d.inlined]
    IN  [f \in ToSet(d.order) |-> kernel[Position(d, f)]]

----------------------------------------------------------------------------
(* The network: StreamOpt.cpp and CodeGen_HLS_Base.cpp                     *)

Buffered(d) == ToSet(d.order) \ d.inlined

need_linebuffer(k) == k.size # k.step

\* The loop of a kernel runs once per step of its store bounds.
Iterations(k) == Extent(k.store) \div k.step

\* The consumers of a stream, in the order the dispatcher writes to them.
Consumers(d, g, f) == SelectSeq(d.names, LAMBDA c : c \in DOMAIN g[f].to)

\* calculate_input_streams collects the inputs of a kernel by name, and each
\* read is wrapped around the earlier ones: the last name is read first.
InputStreams(d, g, c) ==
    Reverse(SelectSeq(d.names, LAMBDA p : p \in Buffered(d) /\ c \in DOMAIN g[p].to))

\* The depth given to dispatch_stream.  An input that is not line buffered
\* and has one consumer gets a FIFO even when none is scheduled.
FifoDepth(d, g, f, c) ==
    IF f \in d.inputs /\ ~need_linebuffer(g[f]) /\ Cardinality(DOMAIN g[f].to) = 1
    THEN Greatest({1, d.depth[<<f, c>>]})
    ELSE d.depth[<<f, c>>]

\* A single consumer without a FIFO reads the stream itself.
Bypassed(d, g, f) ==
    \E c \in DOMAIN g[f].to : DOMAIN g[f].to = {c} /\ FifoDepth(d, g, f, c) = 0

\* The streams: the update stream, the stencil stream and one stream per
\* consumer.  A stream is named by its function and its role or consumer.
Update(f)  == <<f, "update">>
Stencil(f) == <<f, "stencil">>
To(f, c)   == <<f, c>>

Written(g, f) == IF need_linebuffer(g[f]) THEN Update(f) ELSE Stencil(f)
ReadFrom(d, g, f, c) == IF Bypassed(d, g, f) THEN Stencil(f) ELSE To(f, c)

Streams(d, g) ==
    {Update(f) : f \in Buffered(d)} \cup {Stencil(f) : f \in Buffered(d)}
        \cup {To(f, c) : <<f, c>> \in {<<p, q>> \in Buffered(d) \X Buffered(d) :
                                           q \in DOMAIN g[p].to}}

Depth(d, g, s) ==
    IF s[2] \in {"update", "stencil"} THEN 1
    ELSE Greatest({1, FifoDepth(d, g, s[1], s[2])})

\* Where the dispatcher forwards the stencil at position p.
Wants(k, c, p) ==
    LET offset == k.to[c].store.min - k.store.min
    IN  p >= offset /\ p <= offset + Extent(k.to[c].store) - k.size

\* The last position of the dispatcher's loop.
BadLastPosition(k) == Extent(k.store) - k.size - k.step
LastPosition(k) == Extent(k.store) - k.size

----------------------------------------------------------------------------
(* Which designs are compiled                                              *)

\* The conditions of the assertions: windows slide by a constant, the
\* consumers of a kernel slide alike, an inlined function is computed inside
\* one kernel, the loops and the line buffers (Linebuffer.h) come out even.
\* Where in that kernel the function is computed is not part of a design: it
\* is nested in the scan loops.  Directly at the level of the accelerator
\* transform_kernel gives up (internal_error), so that no network is generated.
Accepted(d) ==
    LET g == BuildDAG(d)
    IN  /\ \A e \in DOMAIN d.uses : (d.uses[e].num * g[e[2]].step) % d.uses[e].den = 0
        /\ \A e \in DOMAIN d.uses :
              (d.uses[e].num * g[e[2]].step) \div d.uses[e].den = g[e[1]].step
        /\ \A f \in d.inlined : Cardinality(DOMAIN g[f].to) = 1
        /\ \A f \in Buffered(d) : /\ Extent(g[f].store) % g[f].step = 0
                                  /\ g[f].size % g[f].step = 0
                                  /\ g[f].size >= g[f].step

\* What nothing in the code checks: the windows of every consumer are
\* windows the line buffer produces.
Aligned(d) ==
    LET g == BuildDAG(d)
    IN  \A f \in Buffered(d) : \A c \in DOMAIN g[f].to :
            (g[f].to[c].store.min - g[f].store.min) % g[f].step = 0

----------------------------------------------------------------------------
(* The processes                                                           *)

Pixels(from, n) == [j \in 1..n |-> from + j - 1]

HasRoom(s) == Len(chan[s]) < Depth(design, dag, s)

Write(s, stencil) ==
    /\ HasRoom(s)
    /\ chan' = [chan EXCEPT ![s] = Append(@, stencil)]

\* The new pixels a kernel or a DMA process emits in its current iteration.
Produced(f) == Pixels(dag[f].store.min + it[f] * dag[f].step, dag[f].step)

Unread(f) == SubSeq(InputStreams(design, dag, f), Len(got[f]) + 1,
                    Len(InputStreams(design, dag, f)))

\* subimage_to_stream: the DMA of an input.
subimage_to_stream(f) ==
    /\ f \in design.inputs
    /\ it[f] < Iterations(dag[f])
    /\ Write(Written(dag, f), Produced(f))
    /\ it' = [it EXCEPT ![f] = @ + 1]
    /\ UNCHANGED <<design, dag, got, lb, disp, image>>

\* read_stream in the loop of kernel f.
read_stream(f) ==
    /\ f \in Buffered(design) \ design.inputs
    /\ it[f] < Iterations(dag[f])
    /\ Unread(f) # << >>
    /\ LET s == ReadFrom(design, dag, Head(Unread(f)), f)
       IN  /\ chan[s] # << >>
           /\ got' = [got EXCEPT ![f] = Append(@, Head(chan[s]))]
           /\ chan' = [chan EXCEPT ![s] = Tail(@)]
    /\ UNCHANGED <<design, dag, it, lb, disp, image>>

\* write_stream, the end of an iteration of kernel f.
write_stream(f) ==
    /\ f \in Buffered(design) \ design.inputs
    /\ it[f] < Iterations(dag[f])
    /\ Unread(f) = << >>
    /\ Write(Written(dag, f), Produced(f))
    /\ it' = [it EXCEPT ![f] = @ + 1]
    /\ got' = [got EXCEPT ![f] = << >>]
    /\ UNCHANGED <<design, dag, lb, disp, image>>

\* Linebuffer1D: shift in a stencil; a window is due from the moment the
\* register is full.
Due(k, n) == n * k.step >= k.size - k.step

linebuffer_read(f) ==
    /\ f \in Buffered(design)
    /\ need_linebuffer(dag[f])
    /\ lb[f].read < Iterations(dag[f])
    /\ ~lb[f].due
    /\ chan[Update(f)] # << >>
    /\ LET reg == lb[f].reg \o Head(chan[Update(f)])
           excess == Greatest({0, Len(reg) - dag[f].size})
       IN  lb' = [lb EXCEPT ![f] = [read |-> @.read + 1,
                                    reg  |-> SubSeq(reg, excess + 1, Len(reg)),
                                    due  |-> Due(dag[f], @.read)]]
    /\ chan' = [chan EXCEPT ![Update(f)] = Tail(@)]
    /\ UNCHANGED <<design, dag, it, got, disp, image>>

linebuffer_write(f) ==
    /\ f \in Buffered(design)
    /\ lb[f].due
    /\ Write(Stencil(f), lb[f].reg)
    /\ lb' = [lb EXCEPT ![f].due = FALSE]
    /\ UNCHANGED <<design, dag, it, got, disp, image>>

\* dispatch_stream: read the stencil at the current position, then write it
\* to the consumers whose region it is in, in the order of their names.
dispatch_read(f) ==
    /\ f \in Buffered(design) \ {Output(design)}
    /\ ~Bypassed(design, dag, f)
    /\ disp[f].todo = << >>
    /\ disp[f].pos <= LastPosition(dag[f])
    /\ chan[Stencil(f)] # << >>
    /\ LET todo == SelectSeq(Consumers(design, dag, f),
                             LAMBDA c : Wants(dag[f], c, disp[f].pos))
       IN  disp' = [disp EXCEPT ![f] =
                       [pos  |-> @.pos + dag[f].step,
                        tmp  |-> IF todo = << >> THEN << >> ELSE Head(chan[Stencil(f)]),
                        todo |-> todo]]
    /\ chan' = [chan EXCEPT ![Stencil(f)] = Tail(@)]
    /\ UNCHANGED <<design, dag, it, got, lb, image>>

dispatch_write(f) ==
    /\ f \in Buffered(design)
    /\ disp[f].todo # << >>
    /\ Write(To(f, Head(disp[f].todo)), disp[f].tmp)
    /\ disp' = [disp EXCEPT ![f].todo = Tail(@),
                            ![f].tmp = IF Len(disp[f].todo) = 1 THEN << >> ELSE @]
    /\ UNCHANGED <<design, dag, it, got, lb, image>>

\* stream_to_subimage: the DMA of the output.
stream_to_subimage ==
    LET s == Stencil(Output(design))
    IN  /\ chan[s] # << >>
        /\ image' = image \o Head(chan[s])
        /\ chan' = [chan EXCEPT ![s] = Tail(@)]
        /\ UNCHANGED <<design, dag, it, got, lb, disp>>

Init ==
    /\ design \in {d \in Designs : Accepted(d) /\ Aligned(d)}
    /\ dag = BuildDAG(design)
    /\ chan = [s \in Streams(design, dag) |-> << >>]
    /\ it = [f \in Buffered(design) |-> 0]
    /\ got = [f \in Buffered(design) |-> << >>]
    /\ lb = [f \in Buffered(design) |-> [read |-> 0, reg |-> << >>, due |-> FALSE]]
    /\ disp = [f \in Buffered(design) |-> [pos |-> 0, tmp |-> << >>, todo |-> << >>]]
    /\ image = << >>

Next ==
    \/ \E f \in Buffered(design) :
          \/ subimage_to_stream(f)
          \/ read_stream(f)
          \/ write_stream(f)
          \/ linebuffer_read(f)
          \/ linebuffer_write(f)
          \/ dispatch_read(f)
          \/ dispatch_write(f)
    \/ stream_to_subimage

Spec == Init /\ [][Next]_vars

\* Every process is hardware that runs whenever its streams let it.
FairSpec == Spec /\ WF_vars(Next)
----------------------------------------------------------------------------
(* Properties                                                              *)

\* A reference that knows nothing of windows: the pixels of function p read
\* when kernel c computes the pixels X of itself, directly or through the
\* functions inlined into it.
PixelsRead(d, p, c, X) ==
    LET read[i \in 1..Position(d, c)] ==
            IF d.order[i] = c THEN X
            ELSE UNION {UNION {LET r == Required(d.uses[<<d.order[i], d.order[j]>>],
                                                 [min |-> x, max |-> x])
                               IN  r.min..r.max : x \in read[j]} :
                           j \in {u \in i + 1..Position(d, c) :
                                    /\ <<d.order[i], d.order[u]>> \in DOMAIN d.uses
                                    /\ d.order[u] \in d.inlined \cup {c}}}
    IN  read[Position(d, p)]

(***************************************************************************)
(* Every stencil a kernel reads holds the pixels its expression uses, at   *)
(* the index ReplaceReferencesWithStencil computes for them (the argument  *)
(* minus min_pos of the consumer stencil): the windows derived by          *)
(* extract_stencil_specs and merge_consumer_stencils, the regions and      *)
(* offsets of create_dispatch_call, the line buffers and the order of the  *)
(* streams agree, also where windows of different sizes are merged,        *)
(* functions are inlined or the image is resampled.                        *)
(***************************************************************************)
ReadsRightPixels ==
    \A f \in Buffered(design) : \A j \in DOMAIN got[f] :
        LET p == InputStreams(design, dag, f)[j]
            min_pos == dag[p].to[f].min + it[f] * dag[p].step
        IN  \A x \in PixelsRead(design, p, f, ToSet(Produced(f))) :
                /\ x - min_pos + 1 \in DOMAIN got[f][j]
                /\ got[f][j][x - min_pos + 1] = x

(***************************************************************************)
(* The accelerator finishes: every kernel runs all its iterations, the     *)
(* whole output arrives in order, and nothing is left in a stream for the  *)
(* next launch, when the FIFOs scheduled with Func::fifo_depth are deep    *)
(* enough for the paths that meet again.  Every process waits on others    *)
(* here: a window too many or too few for one consumer stops them all.     *)
(***************************************************************************)
Completes ==
    <>[](/\ \A f \in Buffered(design) : it[f] = Iterations(dag[f])
         /\ \A s \in DOMAIN chan : chan[s] = << >>
         /\ \A f \in Buffered(design) : ~lb[f].due /\ disp[f].todo = << >>
         /\ image = Pixels(0, design.step * design.iters))
============================================================================
