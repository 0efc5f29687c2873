------------------------ MODULE ProfilerMemoryProofs ------------------------
(***************************************************************************)
(* For any number of threads, Funcs and allocations, and whatever fails,   *)
(* the lock-free peaks of the profiler are exact: none exceeds what was    *)
(* reached and none is lost in the race of sync_compare_max_and_swap.  And *)
(* its counters balance: a pipeline has what its Funcs have, up to the     *)
(* calls that are under way, and a free never takes what was not added.    *)
(***************************************************************************)
EXTENDS ProfilerMemory, FiniteSetTheorems, TLAPS

-----------------------------------------------------------------------------
AnyCall == [pc : CallPC, func : Counters, bytes : Int, at : Peaks,
            val : Int, old_val : Int]

\* The counters are integers here: that none is negative is another property.
Shapes ==
    /\ memory_current \in [Counters -> Int]
    /\ live \in [Threads -> [Funcs -> Int]]
    /\ peak \in [Peaks -> Int]
    /\ high \in [Peaks -> Int]
    /\ call \in [Threads -> AnyCall]

InLoop(c) == c.pc \in {"read", "swap"}

\* What a thread is about to record was reached, and it swaps only to raise
\* the value that it has read.
CallsInv ==
    \A t \in Threads :
        /\ InLoop(call[t]) => call[t].val <= high[call[t].at]
        /\ call[t].pc = "swap" => call[t].old_val < call[t].val

IInv == Shapes /\ CallsInv /\ PeakExact

-----------------------------------------------------------------------------
LEMMA NoCallType == NoCall \in AnyCall /\ NoCall.pc = "idle"
BY DEF NoCall, AnyCall, CallPC, Counters, Peaks

\* sync_compare_max_and_swap is left only for the next counter or the caller.
LEMMA DoneType ==
    ASSUME NEW c \in AnyCall
    PROVE  Done(c) \in AnyCall /\ ~InLoop(Done(c))
<1>1. CASE c.at = <<"memory_peak", Pipeline>>
    <2>1. <<"memory_peak", c.func>> \in Peaks
        BY DEF AnyCall, Peaks
    <2>2. Done(c) = [c EXCEPT !.pc = "add", !.at = <<"memory_peak", c.func>>,
                              !.val = 0, !.old_val = 0]
        BY <1>1 DEF Done
    <2>3. Done(c) \in AnyCall
        <3>1. /\ c.func \in Counters /\ c.bytes \in Int
              /\ c = [pc |-> c.pc, func |-> c.func, bytes |-> c.bytes,
                      at |-> c.at, val |-> c.val, old_val |-> c.old_val]
            BY DEF AnyCall
        <3>2. Done(c) = [pc |-> "add", func |-> c.func, bytes |-> c.bytes,
                         at |-> <<"memory_peak", c.func>>, val |-> 0, old_val |-> 0]
            BY <2>2, <3>1
        <3> QED
            BY <2>1, <3>1, <3>2 DEF AnyCall, CallPC
    <2>4. Done(c).pc = "add"
        BY <2>2 DEF AnyCall
    <2> QED
        BY <2>3, <2>4 DEF InLoop
<1>2. CASE c.at # <<"memory_peak", Pipeline>>
    BY <1>2, NoCallType DEF Done, InLoop
<1> QED
    BY <1>1, <1>2

\* The loop goes on with a larger value than the one found, or is left.
LEMMA LoopType ==
    ASSUME NEW c \in AnyCall, NEW old \in Int
    PROVE  /\ Loop(c, old) \in AnyCall
           /\ c.val > old => /\ Loop(c, old).pc = "swap"
                             /\ Loop(c, old).old_val = old
                             /\ Loop(c, old).val = c.val
                             /\ Loop(c, old).at = c.at
           /\ c.val <= old => ~InLoop(Loop(c, old))
<1>0. c.val \in Int
    BY DEF AnyCall
<1>1. CASE c.val > old
    <2>1. Loop(c, old) = [c EXCEPT !.pc = "swap", !.old_val = old]
        BY <1>1 DEF Loop
    <2>2. Loop(c, old) \in AnyCall
        BY <2>1 DEF AnyCall, CallPC
    <2>3. /\ Loop(c, old).pc = "swap" /\ Loop(c, old).old_val = old
          /\ Loop(c, old).val = c.val /\ Loop(c, old).at = c.at
        BY <2>1 DEF AnyCall
    <2> QED
        BY <1>0, <1>1, <2>2, <2>3
<1>2. CASE ~(c.val > old)
    BY <1>0, <1>2, DoneType DEF Loop
<1> QED
    BY <1>1, <1>2

\* Taking part in the race for a peak with a value that was just reached.
LEMMA Joins ==
    ASSUME IInv, NEW t \in Threads, NEW w \in Peaks, NEW v \in Int, NEW c \in AnyCall,
           ~InLoop(call[t]),
           c.pc = "read", c.at = w, c.val = v,
           call' = [call EXCEPT ![t] = c], peak' = peak, IsHigh(w, v)
    PROVE  /\ call' \in [Threads -> AnyCall] /\ high' \in [Peaks -> Int]
           /\ CallsInv' /\ PeakExact'
<1> USE DEF IInv, Shapes
<1>1. /\ high' \in [Peaks -> Int]
      /\ v <= high'[w]
      /\ \A x \in Peaks : high[x] <= high'[x]
      /\ \A x \in Peaks : high'[x] = high[x] \/ (x = w /\ high'[x] = v)
    BY DEF IsHigh, Larger
<1>2. call' \in [Threads -> AnyCall] /\ call'[t] = c
    OBVIOUS
<1>3. \A u \in Threads : u # t => call'[u] = call[u]
    OBVIOUS
<1>4. CallsInv'
    <2> SUFFICES ASSUME NEW u \in Threads
                 PROVE  /\ InLoop(call'[u]) => call'[u].val <= high'[call'[u].at]
                        /\ call'[u].pc = "swap" => call'[u].old_val < call'[u].val
        BY DEF CallsInv, InLoop
    <2>1. CASE u = t
        BY <2>1, <1>1, <1>2 DEF InLoop, AnyCall
    <2>2. CASE u # t
        <3>1. call[u] \in AnyCall /\ call'[u] = call[u]
            BY <2>2, <1>3
        <3>2. high[call[u].at] <= high'[call[u].at]
            BY <3>1, <1>1 DEF AnyCall
        <3>3. high[call[u].at] \in Int /\ high'[call[u].at] \in Int /\ call[u].val \in Int
            BY <3>1, <1>1 DEF AnyCall
        <3> QED
            BY <3>1, <3>2, <3>3 DEF CallsInv
    <2> QED
        BY <2>1, <2>2
<1>5. PeakExact'
    <2> SUFFICES ASSUME NEW x \in Peaks
                 PROVE  /\ peak[x] <= high'[x]
                        /\ \/ peak[x] = high'[x]
                           \/ \E u \in Threads : InLoop(call'[u]) /\ call'[u].at = x
                                                 /\ call'[u].val = high'[x]
        BY DEF PeakExact, InLoop
    <2>1. peak[x] <= high'[x]
        BY <1>1 DEF PeakExact
    <2>2. CASE x = w /\ high'[x] = v
        BY <2>1, <2>2, <1>2 DEF InLoop
    <2>3. CASE high'[x] = high[x]
        <3>1. CASE peak[x] = high[x]
            BY <2>1, <2>3, <3>1
        <3>2. CASE peak[x] # high[x]
            <4>1. PICK u \in Threads : InLoop(call[u]) /\ call[u].at = x /\ call[u].val = high[x]
                BY <3>2 DEF PeakExact, InLoop
            <4>2. call'[u] = call[u]
                BY <4>1, <1>3
            <4> QED
                BY <2>1, <2>3, <4>1, <4>2
        <3> QED
            BY <3>1, <3>2
    <2> QED
        BY <1>1, <2>2, <2>3
<1> QED
    BY <1>1, <1>2, <1>4, <1>5

\* A step of a thread that does not touch a peak, and leaves the race only
\* with a value that is not above the peak.
LEMMA Moves ==
    ASSUME IInv, NEW t \in Threads, NEW c \in AnyCall,
           call' = [call EXCEPT ![t] = c], peak' = peak, high' = high,
           InLoop(c) => /\ InLoop(call[t]) /\ c.at = call[t].at /\ c.val = call[t].val
                        /\ c.pc = "swap" => c.old_val < c.val,
           InLoop(call[t]) /\ ~InLoop(c) => call[t].val <= peak[call[t].at]
    PROVE  call' \in [Threads -> AnyCall] /\ CallsInv' /\ PeakExact'
<1> USE DEF IInv, Shapes
<1>1. call' \in [Threads -> AnyCall] /\ call'[t] = c
    OBVIOUS
<1>2. \A u \in Threads : u # t => call'[u] = call[u]
    OBVIOUS
<1>3. CallsInv'
    <2> SUFFICES ASSUME NEW u \in Threads
                 PROVE  /\ InLoop(call'[u]) => call'[u].val <= high[call'[u].at]
                        /\ call'[u].pc = "swap" => call'[u].old_val < call'[u].val
        BY DEF CallsInv, InLoop
    <2>1. CASE u = t
        BY <2>1, <1>1 DEF InLoop, CallsInv
    <2>2. CASE u # t
        BY <2>2, <1>2 DEF CallsInv
    <2> QED
        BY <2>1, <2>2
<1>4. PeakExact'
    <2> SUFFICES ASSUME NEW x \in Peaks, peak[x] # high[x]
                 PROVE  \E u \in Threads : InLoop(call'[u]) /\ call'[u].at = x
                                           /\ call'[u].val = high[x]
        BY DEF PeakExact, InLoop
    <2>1. PICK u \in Threads : InLoop(call[u]) /\ call[u].at = x /\ call[u].val = high[x]
        BY DEF PeakExact, InLoop
    <2>2. CASE u # t
        BY <2>1, <2>2, <1>2
    <2>3. CASE u = t
        <3>1. InLoop(c)
            <4> SUFFICES ASSUME ~InLoop(c) PROVE FALSE
                OBVIOUS
            <4>1. peak[x] \in Int /\ high[x] \in Int /\ peak[x] <= high[x]
                BY DEF PeakExact
            <4>2. high[x] <= peak[x]
                BY <2>1, <2>3
            <4>3. \A i, j \in Int : i <= j /\ j <= i => i = j
                OBVIOUS
            <4>4. peak[x] = high[x]
                BY <4>1, <4>2, <4>3, Zenon
            <4> QED
                BY <4>4
        <3> QED
            BY <2>1, <2>3, <3>1, <1>1
    <2> QED
        BY <2>2, <2>3
<1> QED
    BY <1>1, <1>3, <1>4

\* A successful swap raises the peak to a value that was reached.
LEMMA Raises ==
    ASSUME IInv, NEW t \in Threads, NEW c \in AnyCall,
           call[t].pc = "swap", peak[call[t].at] = call[t].old_val, ~InLoop(c),
           call' = [call EXCEPT ![t] = c], high' = high,
           peak' = [peak EXCEPT ![call[t].at] = call[t].val]
    PROVE  /\ call' \in [Threads -> AnyCall] /\ peak' \in [Peaks -> Int]
           /\ CallsInv' /\ PeakExact'
<1> USE DEF IInv, Shapes
<1> DEFINE w == call[t].at
           v == call[t].val
<1>1. /\ call' \in [Threads -> AnyCall] /\ call'[t] = c
      /\ \A u \in Threads : u # t => call'[u] = call[u]
    OBVIOUS
<1>2. w \in Peaks /\ v \in Int /\ peak[w] \in Int /\ high[w] \in Int
    BY DEF AnyCall
<1>3. peak[w] < v /\ v <= high[w]
    BY DEF CallsInv, InLoop
<1>4. /\ peak' \in [Peaks -> Int] /\ peak'[w] = v
      /\ \A x \in Peaks : x # w => peak'[x] = peak[x]
    BY <1>2
<1>5. CallsInv'
    <2> SUFFICES ASSUME NEW u \in Threads
                 PROVE  /\ InLoop(call'[u]) => call'[u].val <= high[call'[u].at]
                        /\ call'[u].pc = "swap" => call'[u].old_val < call'[u].val
        BY DEF CallsInv, InLoop
    <2>1. CASE u = t
        BY <2>1, <1>1 DEF InLoop
    <2>2. CASE u # t
        BY <2>2, <1>1 DEF CallsInv
    <2> QED
        BY <2>1, <2>2
<1>6. PeakExact'
    <2> SUFFICES ASSUME NEW x \in Peaks
                 PROVE  /\ peak'[x] <= high[x]
                        /\ \/ peak'[x] = high[x]
                           \/ \E u \in Threads : InLoop(call'[u]) /\ call'[u].at = x
                                                 /\ call'[u].val = high[x]
        BY DEF PeakExact, InLoop
    <2>1. peak'[x] <= high[x]
        BY <1>3, <1>4 DEF PeakExact
    <2>2. CASE peak'[x] = high[x]
        BY <2>1, <2>2
    <2>3. CASE peak'[x] # high[x]
        <3>1. peak[x] # high[x]
            BY <2>3, <1>2, <1>3, <1>4
        <3>2. PICK u \in Threads : InLoop(call[u]) /\ call[u].at = x /\ call[u].val = high[x]
            BY <3>1 DEF PeakExact, InLoop
        <3>3. u # t
            BY <2>3, <3>2, <1>4
        <3> QED
            BY <2>1, <3>2, <3>3, <1>1
    <2> QED
        BY <2>2, <2>3
<1> QED
    BY <1>1, <1>4, <1>5, <1>6

-----------------------------------------------------------------------------
\* Nothing but the bookkeeping around the calls.
LEMMA StutterIInv ==
    ASSUME IInv, UNCHANGED <<call, peak, high>>
    PROVE  CallsInv' /\ PeakExact'
BY DEF IInv, CallsInv, InLoop, PeakExact

LEMMA AllocateIInv ==
    ASSUME IInv, NEW t \in Threads, NEW f \in Funcs, NEW n \in Sizes,
           halide_profiler_memory_allocate(t, f, n)
    PROVE  IInv'
<1> DEFINE c == [NoCall EXCEPT !.pc = "add", !.func = f, !.bytes = n]
<1>1. c \in AnyCall /\ ~InLoop(c)
    <2>1. n \in Int /\ f \in Counters
        BY MemoryAssumption DEF Counters
    <2>2. c \in AnyCall /\ c.pc = "add"
        BY <2>1, NoCallType DEF AnyCall, CallPC
    <2> QED
        BY <2>2 DEF InLoop
<1>2. call[t].pc = "idle" /\ call' = [call EXCEPT ![t] = c] /\ peak' = peak /\ high' = high
    BY DEF halide_profiler_memory_allocate, At
<1>3. call' \in [Threads -> AnyCall] /\ CallsInv' /\ PeakExact'
    BY <1>1, <1>2, Moves DEF InLoop
<1> QED
    BY <1>2, <1>3 DEF halide_profiler_memory_allocate, IInv, Shapes, counts

LEMMA AddIInv ==
    ASSUME IInv, NEW t \in Threads, Add(t)
    PROVE  IInv'
<1> USE DEF IInv, Shapes
<1> DEFINE w == call[t].at
           k == call[t].at[2]
           v == memory_current[k] + call[t].bytes
           c == [call[t] EXCEPT !.pc = "read", !.val = v]
<1>1. call[t] \in AnyCall /\ w \in Peaks
    BY DEF AnyCall
<1>2. k \in Counters
    BY <1>1 DEF Peaks, Counters
<1>3. v \in Int /\ call[t].bytes \in Int
    BY <1>1, <1>2 DEF AnyCall
<1>4. c \in AnyCall /\ c.pc = "read" /\ c.at = w /\ c.val = v
    BY <1>1, <1>3 DEF AnyCall, CallPC
<1>5. memory_current' = [memory_current EXCEPT ![k] = @ + call[t].bytes]
    BY DEF Add
<1>6. memory_current' \in [Counters -> Int] /\ memory_current'[k] = v
    BY <1>2, <1>3, <1>5
<1>7. /\ call' = [call EXCEPT ![t] = c] /\ peak' = peak /\ live' = live
      /\ call[t].pc = "add" /\ IsHigh(w, v)
    <2>1. IsHigh(w, memory_current'[k])
        BY DEF Add
    <2> QED
        BY <1>1, <1>6, <2>1 DEF Add, At, AddAndFetch
<1>8. /\ call' \in [Threads -> AnyCall] /\ high' \in [Peaks -> Int]
      /\ CallsInv' /\ PeakExact'
    <2> HIDE DEF c, v, w, IInv, Shapes
    <2>1. ~InLoop(call[t])
        BY <1>7 DEF InLoop
    <2> QED
        BY <1>1, <1>3, <1>4, <1>7, <2>1, Joins
<1> QED
    BY <1>6, <1>7, <1>8

LEMMA StackPeakIInv ==
    ASSUME IInv, NEW t \in Threads, NEW f \in Funcs,
           halide_profiler_stack_peak_update(t, f)
    PROVE  IInv'
<1> DEFINE w == <<"stack_peak", f>>
           c == [NoCall EXCEPT !.pc = "read", !.func = f, !.at = w, !.val = StackBytes[f]]
<1>1. w \in Peaks /\ StackBytes[f] \in Int
    BY MemoryAssumption DEF Peaks
<1>2. c \in AnyCall /\ c.pc = "read" /\ c.at = w /\ c.val = StackBytes[f]
    BY <1>1, NoCallType DEF NoCall, AnyCall, CallPC, Counters
<1>3. /\ call[t].pc = "idle" /\ call' = [call EXCEPT ![t] = c] /\ peak' = peak
      /\ IsHigh(w, StackBytes[f])
      /\ memory_current' = memory_current /\ live' = live
    BY DEF halide_profiler_stack_peak_update, At, counts
<1>4. /\ call' \in [Threads -> AnyCall] /\ high' \in [Peaks -> Int]
      /\ CallsInv' /\ PeakExact'
    <2> HIDE DEF c, w
    <2>1. ~InLoop(call[t])
        BY <1>3 DEF InLoop
    <2> QED
        BY <1>1, <1>2, <1>3, <2>1, Joins
<1> QED
    BY <1>3, <1>4 DEF IInv, Shapes

\* Reading the peak, and a swap that fails, both end in the loop's condition.
LEMMA LoopIInv ==
    ASSUME IInv, NEW t \in Threads, InLoop(call[t]),
           call' = [call EXCEPT ![t] = Loop(@, peak[@.at])],
           peak' = peak, high' = high
    PROVE  call' \in [Threads -> AnyCall] /\ CallsInv' /\ PeakExact'
<1> DEFINE c == Loop(call[t], peak[call[t].at])
<1>1. call[t] \in AnyCall /\ peak[call[t].at] \in Int /\ call[t].val \in Int
    BY DEF IInv, Shapes, AnyCall
<1>2. /\ c \in AnyCall
      /\ call[t].val > peak[call[t].at] =>
            /\ c.pc = "swap" /\ c.old_val = peak[call[t].at]
            /\ c.val = call[t].val /\ c.at = call[t].at
      /\ call[t].val <= peak[call[t].at] => ~InLoop(c)
    BY <1>1, LoopType
<1>3. call' = [call EXCEPT ![t] = c]
    BY DEF IInv, Shapes
<1> HIDE DEF c
<1>4. InLoop(c) => /\ InLoop(call[t]) /\ c.at = call[t].at /\ c.val = call[t].val
                   /\ c.pc = "swap" => c.old_val < c.val
    BY <1>1, <1>2
<1>5. InLoop(call[t]) /\ ~InLoop(c) => call[t].val <= peak[call[t].at]
    BY <1>1, <1>2 DEF InLoop
<1> QED
    BY <1>2, <1>3, <1>4, <1>5, Moves

\* The bytes a thread owns at the end of memory_allocate.
LEMMA AllocatedType ==
    ASSUME Shapes, NEW t \in Threads, Allocated(t)
    PROVE  live' \in [Threads -> [Funcs -> Int]]
BY DEF Shapes, Allocated, AnyCall

LEMMA ReadPeakIInv ==
    ASSUME IInv, NEW t \in Threads, ReadPeak(t)
    PROVE  IInv'
<1>1. /\ InLoop(call[t]) /\ call' = [call EXCEPT ![t] = Loop(@, peak[@.at])]
      /\ peak' = peak /\ high' = high /\ memory_current' = memory_current
    BY DEF ReadPeak, At, InLoop, counts
<1>2. call' \in [Threads -> AnyCall] /\ CallsInv' /\ PeakExact'
    BY <1>1, LoopIInv
<1>3. live' \in [Threads -> [Funcs -> Int]]
    BY AllocatedType DEF ReadPeak, IInv
<1> QED
    BY <1>1, <1>2, <1>3 DEF IInv, Shapes

LEMMA SwapIInv ==
    ASSUME IInv, NEW t \in Threads, Swap(t)
    PROVE  IInv'
<1>1. call[t].pc = "swap" /\ high' = high /\ memory_current' = memory_current
    BY DEF Swap, At, counts
<1>2. live' \in [Threads -> [Funcs -> Int]]
    BY AllocatedType DEF Swap, IInv
<1>3. CASE Swaps(call[t])
    <2>1. /\ call' = [call EXCEPT ![t] = Done(call[t])]
          /\ peak' = [peak EXCEPT ![call[t].at] = call[t].val]
          /\ peak[call[t].at] = call[t].old_val
        BY <1>3 DEF Swap, Swaps, IInv, Shapes
    <2>2. Done(call[t]) \in AnyCall /\ ~InLoop(Done(call[t]))
        BY DoneType DEF IInv, Shapes
    <2>3. /\ call' \in [Threads -> AnyCall] /\ peak' \in [Peaks -> Int]
          /\ CallsInv' /\ PeakExact'
        BY <1>1, <2>1, <2>2, Raises
    <2> QED
        BY <1>1, <1>2, <2>3 DEF IInv, Shapes
<1>4. CASE ~Swaps(call[t])
    <2>1. peak' = peak /\ call' = [call EXCEPT ![t] = Loop(@, peak[@.at])]
        BY <1>4 DEF Swap, AfterSwap
    <2>2. call' \in [Threads -> AnyCall] /\ CallsInv' /\ PeakExact'
        BY <1>1, <2>1, LoopIInv DEF InLoop
    <2> QED
        BY <1>1, <1>2, <2>1, <2>2 DEF IInv, Shapes
<1> QED
    BY <1>3, <1>4

LEMMA FreeIInv ==
    ASSUME IInv, NEW t \in Threads, NEW f \in Funcs, halide_profiler_memory_free(t, f)
    PROVE  IInv'
<1> DEFINE c == [NoCall EXCEPT !.pc = "sub", !.func = f, !.bytes = live[t][f]]
<1>1. live[t][f] \in Int
    BY DEF IInv, Shapes
<1>2. c \in AnyCall /\ ~InLoop(c)
    BY <1>1, NoCallType DEF NoCall, AnyCall, CallPC, Counters, Peaks, InLoop
<1>3. /\ call[t].pc = "idle" /\ call' = [call EXCEPT ![t] = c] /\ peak' = peak /\ high' = high
      /\ memory_current' = [memory_current EXCEPT ![Pipeline] = @ - live[t][f]]
      /\ live' = [live EXCEPT ![t][f] = 0]
    BY DEF halide_profiler_memory_free, At
<1>4. call' \in [Threads -> AnyCall] /\ CallsInv' /\ PeakExact'
    BY <1>2, <1>3, Moves DEF InLoop
<1>5. memory_current' \in [Counters -> Int] /\ live' \in [Threads -> [Funcs -> Int]]
    BY <1>1, <1>3 DEF IInv, Shapes, Counters
<1> QED
    BY <1>3, <1>4, <1>5 DEF IInv, Shapes

LEMMA FreeFuncIInv ==
    ASSUME IInv, NEW t \in Threads, FreeFunc(t)
    PROVE  IInv'
<1>1. /\ call[t].pc = "sub" /\ call' = [call EXCEPT ![t] = NoCall] /\ peak' = peak
      /\ high' = high /\ live' = live
      /\ memory_current' = [memory_current EXCEPT ![call[t].func] = @ - call[t].bytes]
    BY DEF FreeFunc, At, Subtracted
<1>2. call' \in [Threads -> AnyCall] /\ CallsInv' /\ PeakExact'
    BY <1>1, NoCallType, Moves DEF InLoop
<1>3. memory_current' \in [Counters -> Int]
    BY <1>1 DEF IInv, Shapes, AnyCall
<1> QED
    BY <1>1, <1>2, <1>3 DEF IInv, Shapes

LEMMA FailIInv ==
    ASSUME IInv, NEW t \in Threads, Fail(t)
    PROVE  IInv'
<1>1. /\ UNCHANGED <<call, peak, high, memory_current>>
      /\ live' = [live EXCEPT ![t] = [f \in Funcs |-> 0]]
    BY DEF Fail, counts
<1> QED
    BY <1>1, StutterIInv DEF IInv, Shapes

LEMMA InitIInv == Init => IInv
<1> SUFFICES ASSUME Init PROVE IInv
    OBVIOUS
<1>1. Shapes
    BY NoCallType DEF Init, Shapes
<1>2. CallsInv
    BY NoCallType DEF Init, CallsInv, InLoop
<1>3. PeakExact
    BY DEF Init, PeakExact
<1> QED
    BY <1>1, <1>2, <1>3 DEF IInv

LEMMA StepIInv == IInv /\ [Next]_vars => IInv'
<1> SUFFICES ASSUME IInv, [Next]_vars PROVE IInv'
    OBVIOUS
<1>1. CASE UNCHANGED vars
    BY <1>1, StutterIInv DEF vars, IInv, Shapes
<1>2. CASE Next
    <2>1. PICK t \in Threads :
              \/ \E f \in Funcs, n \in Sizes : halide_profiler_memory_allocate(t, f, n)
              \/ \E f \in Funcs : halide_profiler_stack_peak_update(t, f)
              \/ \E f \in Funcs : halide_profiler_memory_free(t, f)
              \/ Step(t)
              \/ Fail(t)
        BY <1>2 DEF Next
    <2>2. CASE \E f \in Funcs, n \in Sizes : halide_profiler_memory_allocate(t, f, n)
        BY <2>2, AllocateIInv
    <2>3. CASE \E f \in Funcs : halide_profiler_stack_peak_update(t, f)
        BY <2>3, StackPeakIInv
    <2>4. CASE \E f \in Funcs : halide_profiler_memory_free(t, f)
        BY <2>4, FreeIInv
    <2>5. CASE Step(t)
        BY <2>5, AddIInv, ReadPeakIInv, SwapIInv, FreeFuncIInv DEF Step
    <2>6. CASE Fail(t)
        BY <2>6, FailIInv
    <2> QED
        BY <2>1, <2>2, <2>3, <2>4, <2>5, <2>6
<1> QED
    BY <1>1, <1>2

-----------------------------------------------------------------------------
\* memory_peak and stack_peak of sync_compare_max_and_swap: never above what was
\* reached, and never below it once the thread that reached it has returned.
THEOREM PeaksCorrect == Spec => []PeakExact
<1>1. IInv => PeakExact
    BY DEF IInv
<1> QED
    BY <1>1, InitIInv, StepIInv, PTL DEF Spec

-----------------------------------------------------------------------------
(***************************************************************************)
(* Totals.                                                                 *)
(***************************************************************************)
LEMMA FiberSize ==
    ASSUME NEW x, NEW n \in Nat
    PROVE  IsFiniteSet({x} \X (1 .. n)) /\ Cardinality({x} \X (1 .. n)) = n
<1>1. IsFiniteSet({x}) /\ Cardinality({x}) = 1
    BY FS_Singleton
<1>2. IsFiniteSet(1 .. n) /\ Cardinality(1 .. n) = n
    BY FS_Interval
<1>3. /\ IsFiniteSet({x} \X (1 .. n))
      /\ Cardinality({x} \X (1 .. n)) = Cardinality({x}) * Cardinality(1 .. n)
    BY <1>1, <1>2, FS_Product
<1> QED BY <1>1, <1>2, <1>3

LEMMA UnitsFinite ==
    ASSUME NEW S, IsFiniteSet(S), NEW g, \A x \in S : g[x] \in Nat
    PROVE  IsFiniteSet(Units(S, g)) /\ Total(S, g) \in Nat
<1> DEFINE T == {{x} \X (1 .. g[x]) : x \in S}
           h == [x \in S |-> {x} \X (1 .. g[x])]
<1>1. h \in Surjection(S, T)
    BY DEF Surjection
<1>2. ASSUME NEW U \in T PROVE IsFiniteSet(U)
    <2>1. PICK x \in S : U = {x} \X (1 .. g[x])
        OBVIOUS
    <2>2. g[x] \in Nat
        OBVIOUS
    <2> QED BY <2>1, <2>2, FiberSize
<1> HIDE DEF h, T
<1>3. IsFiniteSet(T)
    BY <1>1, FS_Surjection
<1>4. IsFiniteSet(UNION T)
    BY <1>2, <1>3, FS_UNION
<1>5. IsFiniteSet(Units(S, g))
    BY <1>4 DEF T, Units
<1> QED BY <1>5, FS_CardinalityType DEF Total

LEMMA TotalSame ==
    ASSUME NEW S, NEW g, NEW h, \A x \in S : h[x] = g[x]
    PROVE  Total(S, h) = Total(S, g)
<1>1. Units(S, h) = Units(S, g)
    BY DEF Units
<1> QED BY <1>1 DEF Total

LEMMA TotalZero ==
    ASSUME NEW S, NEW g, \A x \in S : g[x] = 0
    PROVE  Total(S, g) = 0
<1>1. \A x \in S : 1 .. g[x] = {}
    OBVIOUS
<1>2. Units(S, g) = {}
    BY <1>1 DEF Units
<1> QED BY <1>2, FS_EmptySet DEF Total

LEMMA TotalLess ==
    ASSUME NEW S, IsFiniteSet(S), NEW g, NEW h, \A x \in S : g[x] \in Nat /\ h[x] \in Nat,
           \A x \in S : h[x] <= g[x]
    PROVE  Total(S, h) <= Total(S, g)
<1>1. \A x \in S : 1 .. h[x] \subseteq 1 .. g[x]
    OBVIOUS
<1>2. Units(S, h) \in SUBSET Units(S, g)
    BY <1>1 DEF Units
<1> QED BY <1>2, UnitsFinite, FS_Subset DEF Total

\* A total changes by as much as one of its parts.
LEMMA TotalUpdate ==
    ASSUME NEW S, IsFiniteSet(S), NEW g, NEW h, NEW x \in S,
           \A y \in S : g[y] \in Nat /\ h[y] \in Nat,
           \A y \in S : y # x => h[y] = g[y]
    PROVE  /\ Total(S, g) \in Nat /\ Total(S, h) \in Nat
           /\ Total(S, h) + g[x] = Total(S, g) + h[x]
           /\ g[x] <= Total(S, g)
<1> DEFINE R == Units(S \ {x}, g)
<1>1. IsFiniteSet(S \ {x})
    BY FS_RemoveElement
<1>2. IsFiniteSet(R) /\ Cardinality(R) \in Nat
    BY <1>1, UnitsFinite DEF Total
<1>3. ASSUME NEW f, \A y \in S : f[y] \in Nat, \A y \in S : y # x => f[y] = g[y]
      PROVE  Total(S, f) = Cardinality(R) + f[x]
    <2> DEFINE F == {x} \X (1 .. f[x])
    <2>1. IsFiniteSet(F) /\ Cardinality(F) = f[x]
        BY <1>3, FiberSize
    <2>2. Units(S, f) = R \cup F
        <3>1. Units(S, f) = (UNION {{y} \X (1 .. f[y]) : y \in S \ {x}}) \cup F
            BY DEF Units
        <3>2. {{y} \X (1 .. f[y]) : y \in S \ {x}} = {{y} \X (1 .. g[y]) : y \in S \ {x}}
            BY <1>3
        <3> QED BY <3>1, <3>2 DEF Units
    <2>3. R \cap F = {}
        BY DEF Units
    <2> HIDE DEF F, R
    <2>4. Cardinality(R \cup F) = Cardinality(R) + Cardinality(F) - Cardinality(R \cap F)
        BY <1>2, <2>1, FS_Union
    <2>5. f[x] \in Nat
        BY <1>3
    <2>6. Total(S, f) = Cardinality(R \cup F) /\ Cardinality(R \cap F) = 0
        BY <2>2, <2>3, FS_EmptySet DEF Total
    <2> QED BY <1>2, <2>1, <2>4, <2>5, <2>6
<1> HIDE DEF R
<1>4. Total(S, g) = Cardinality(R) + g[x]
    BY <1>3
<1>5. Total(S, h) = Cardinality(R) + h[x]
    BY <1>3
<1>6. g[x] \in Nat /\ h[x] \in Nat
    OBVIOUS
<1> QED BY <1>2, <1>4, <1>5, <1>6

-----------------------------------------------------------------------------
(***************************************************************************)
(* The accounts: what a call under way has counted in one place and not    *)
(* yet in the other.                                                       *)
(***************************************************************************)
AtPipeline(c) == c.at = <<"memory_peak", Pipeline>>
AtFunc(c) == c.at = <<"memory_peak", c.func>>

\* memory_allocate has updated the pipeline and not yet the Func.
Between(c) == (InLoop(c) /\ AtPipeline(c)) \/ (c.pc = "add" /\ AtFunc(c))
\* memory_allocate has updated the Func and not yet returned.
Returning(c) == InLoop(c) /\ AtFunc(c)

\* What a call adds to each account.
AddShare(c) == IF Between(c) THEN c.bytes ELSE 0
MakeShare(c) == IF Between(c) THEN 1 ELSE 0
FreeShare(c) == IF c.pc = "sub" THEN c.bytes ELSE 0
FuncShare(c, f) == IF c.func = f /\ (c.pc = "sub" \/ Returning(c)) THEN c.bytes ELSE 0
PipeShare(c, f) == IF c.func = f /\ (Between(c) \/ Returning(c)) THEN c.bytes ELSE 0

Adding == [t \in Threads |-> AddShare(call[t])]
Making == [t \in Threads |-> MakeShare(call[t])]
Freeing == [t \in Threads |-> FreeShare(call[t])]

\* The part of memory_current of a Func, and of the pipeline, that is due to
\* a thread.
Owed(f) == [t \in Threads |-> live[t][f] + FuncShare(call[t], f)]
PipelineOwed ==
    [p \in Threads \X Funcs |-> live[p[1]][p[2]] + PipeShare(call[p[1]], p[2])]

\* The arguments of a call, and a thread has no memory yet that it asks for.
CallShape ==
    \A t \in Threads :
        /\ call[t].pc # "idle" => call[t].func \in Funcs
        /\ call[t].pc = "add" => AtPipeline(call[t]) \/ AtFunc(call[t])
        /\ InLoop(call[t]) => \/ AtPipeline(call[t]) \/ AtFunc(call[t])
                              \/ call[t].at = <<"stack_peak", call[t].func>>
        /\ call[t].pc = "add" \/ (InLoop(call[t]) /\ (AtPipeline(call[t]) \/ AtFunc(call[t])))
              => live[t][call[t].func] = 0

Accounts ==
    /\ \A f \in Funcs : /\ memory_current[f] >= Total(Threads, Owed(f))
                        /\ failures = 0 => memory_current[f] = Total(Threads, Owed(f))
    /\ memory_current[Pipeline] >= Total(Threads \X Funcs, PipelineOwed)
    /\ memory_current[Pipeline] + Total(Threads, Freeing)
          = Total(Funcs, memory_current) + Total(Threads, Adding)
    /\ memory_total[Pipeline] = Total(Funcs, memory_total) + Total(Threads, Adding)
    /\ num_allocs[Pipeline] = Total(Funcs, num_allocs) + Total(Threads, Making)

CInv == TypeOK /\ CallShape /\ Accounts

\* The shares of a call at each of its points.
LEMMA NoShare ==
    ASSUME NEW c, \/ c.pc = "idle"
                  \/ c.pc = "add" /\ AtPipeline(c) /\ c.func \in Funcs
                  \/ InLoop(c) /\ c.at = <<"stack_peak", c.func>>
    PROVE  /\ AddShare(c) = 0 /\ MakeShare(c) = 0 /\ FreeShare(c) = 0
           /\ \A f : FuncShare(c, f) = 0 /\ PipeShare(c, f) = 0
<1>1. c.pc # "sub"
    BY DEF InLoop
<1>2. ~Between(c)
    BY MemoryAssumption DEF Between, InLoop, AtPipeline, AtFunc
<1>3. ~Returning(c)
    BY DEF Returning, InLoop, AtPipeline, AtFunc
<1> QED BY <1>1, <1>2, <1>3 DEF AddShare, MakeShare, FreeShare, FuncShare, PipeShare

LEMMA BetweenShare ==
    ASSUME NEW c, Between(c), c.func \in Funcs
    PROVE  /\ AddShare(c) = c.bytes /\ MakeShare(c) = 1 /\ FreeShare(c) = 0
           /\ \A f : FuncShare(c, f) = 0
           /\ \A f : PipeShare(c, f) = IF f = c.func THEN c.bytes ELSE 0
<1>1. c.pc # "sub" /\ ~Returning(c)
    BY MemoryAssumption DEF Between, Returning, InLoop, AtPipeline, AtFunc
<1> QED BY <1>1 DEF AddShare, MakeShare, FreeShare, FuncShare, PipeShare

LEMMA ReturningShare ==
    ASSUME NEW c, Returning(c), c.func \in Funcs
    PROVE  /\ AddShare(c) = 0 /\ MakeShare(c) = 0 /\ FreeShare(c) = 0
           /\ \A f : FuncShare(c, f) = IF f = c.func THEN c.bytes ELSE 0
           /\ \A f : PipeShare(c, f) = IF f = c.func THEN c.bytes ELSE 0
<1>1. c.pc # "sub" /\ ~Between(c)
    BY MemoryAssumption DEF Between, Returning, InLoop, AtPipeline, AtFunc
<1> QED BY <1>1 DEF AddShare, MakeShare, FreeShare, FuncShare, PipeShare

LEMMA SubShare ==
    ASSUME NEW c, c.pc = "sub"
    PROVE  /\ AddShare(c) = 0 /\ MakeShare(c) = 0 /\ FreeShare(c) = c.bytes
           /\ \A f : FuncShare(c, f) = IF f = c.func THEN c.bytes ELSE 0
           /\ \A f : PipeShare(c, f) = 0
<1>1. ~Returning(c) /\ ~Between(c)
    BY DEF Between, Returning, InLoop
<1> QED BY <1>1 DEF AddShare, MakeShare, FreeShare, FuncShare, PipeShare

LEMMA ShareTypes ==
    ASSUME NEW c \in Calls
    PROVE  /\ AddShare(c) \in Nat /\ MakeShare(c) \in Nat /\ FreeShare(c) \in Nat
           /\ \A f : FuncShare(c, f) \in Nat /\ PipeShare(c, f) \in Nat
<1>1. c.bytes \in Nat
    BY DEF Calls
<1> QED BY <1>1 DEF AddShare, MakeShare, FreeShare, FuncShare, PipeShare

NaturalAccounts ==
    /\ \A t \in Threads : Adding[t] \in Nat /\ Making[t] \in Nat /\ Freeing[t] \in Nat
    /\ \A t \in Threads, f \in Funcs : Owed(f)[t] \in Nat
    /\ \A p \in Threads \X Funcs : PipelineOwed[p] \in Nat

LEMMA AccountTypes == TypeOK => NaturalAccounts
<1> SUFFICES ASSUME TypeOK PROVE NaturalAccounts
    OBVIOUS
<1>1. \A t \in Threads : call[t] \in Calls /\ \A f \in Funcs : live[t][f] \in Nat
    BY DEF TypeOK
<1>2. \A t \in Threads : Adding[t] \in Nat /\ Making[t] \in Nat /\ Freeing[t] \in Nat
    BY <1>1, ShareTypes DEF Adding, Making, Freeing
<1>3. ASSUME NEW t \in Threads, NEW f \in Funcs
      PROVE  Owed(f)[t] \in Nat /\ live[t][f] + PipeShare(call[t], f) \in Nat
    <2>1. live[t][f] \in Nat /\ FuncShare(call[t], f) \in Nat /\ PipeShare(call[t], f) \in Nat
        BY <1>1, ShareTypes
    <2>2. Owed(f)[t] = live[t][f] + FuncShare(call[t], f)
        BY DEF Owed
    <2> QED BY <2>1, <2>2
<1>4. ASSUME NEW p \in Threads \X Funcs PROVE PipelineOwed[p] \in Nat
    <2>1. p[1] \in Threads /\ p[2] \in Funcs
        OBVIOUS
    <2>2. PipelineOwed[p] = live[p[1]][p[2]] + PipeShare(call[p[1]], p[2])
        BY DEF PipelineOwed
    <2> QED BY <1>3, <2>1, <2>2
<1> QED BY <1>2, <1>3, <1>4 DEF NaturalAccounts

LEMMA Finite == IsFiniteSet(Threads) /\ IsFiniteSet(Funcs) /\ IsFiniteSet(Threads \X Funcs)
BY MemoryAssumption, FS_Product

\* A step of thread t changes the totals by its own shares.
LEMMA OwnShares ==
    ASSUME TypeOK, TypeOK', NEW t \in Threads,
           \A u \in Threads : u # t => call'[u] = call[u] /\ live'[u] = live[u]
    PROVE  /\ Total(Threads, Adding)' + AddShare(call[t])
                 = Total(Threads, Adding) + AddShare(call'[t])
           /\ Total(Threads, Making)' + MakeShare(call[t])
                 = Total(Threads, Making) + MakeShare(call'[t])
           /\ Total(Threads, Freeing)' + FreeShare(call[t])
                 = Total(Threads, Freeing) + FreeShare(call'[t])
           /\ \A f \in Funcs :
                 /\ Total(Threads, Owed(f))' + (live[t][f] + FuncShare(call[t], f))
                       = Total(Threads, Owed(f)) + (live'[t][f] + FuncShare(call'[t], f))
                 /\ live[t][f] + FuncShare(call[t], f) <= Total(Threads, Owed(f))
                 /\ Total(Threads, Owed(f)) \in Nat /\ Total(Threads, Owed(f))' \in Nat
           /\ Total(Threads, Adding) \in Nat /\ Total(Threads, Adding)' \in Nat
           /\ Total(Threads, Making) \in Nat /\ Total(Threads, Making)' \in Nat
           /\ Total(Threads, Freeing) \in Nat /\ Total(Threads, Freeing)' \in Nat
<1>1. NaturalAccounts
    BY AccountTypes
<1>2. NaturalAccounts'
    BY AccountTypes, PTL
<1>3. /\ Adding[t] = AddShare(call[t]) /\ Adding'[t] = AddShare(call'[t])
      /\ Making[t] = MakeShare(call[t]) /\ Making'[t] = MakeShare(call'[t])
      /\ Freeing[t] = FreeShare(call[t]) /\ Freeing'[t] = FreeShare(call'[t])
      /\ \A u \in Threads : u # t =>
            Adding'[u] = Adding[u] /\ Making'[u] = Making[u] /\ Freeing'[u] = Freeing[u]
    BY DEF Adding, Making, Freeing, AddShare, MakeShare, FreeShare, Between, Returning,
           InLoop, AtPipeline, AtFunc
<1>4. ASSUME NEW f \in Funcs
      PROVE  /\ Owed(f)[t] = live[t][f] + FuncShare(call[t], f)
             /\ Owed(f)'[t] = live'[t][f] + FuncShare(call'[t], f)
             /\ \A u \in Threads : u # t => Owed(f)'[u] = Owed(f)[u]
    BY DEF Owed, FuncShare, Returning, InLoop, AtFunc
<1>5. /\ Total(Threads, Adding)' = Total(Threads, Adding')
      /\ Total(Threads, Making)' = Total(Threads, Making')
      /\ Total(Threads, Freeing)' = Total(Threads, Freeing')
      /\ \A f \in Funcs : Total(Threads, Owed(f))' = Total(Threads, Owed(f)')
    BY DEF Total, Units
<1> HIDE DEF Adding, Making, Freeing, Owed
<1>6. /\ Total(Threads, Adding') + Adding[t] = Total(Threads, Adding) + Adding'[t]
      /\ Total(Threads, Adding) \in Nat /\ Total(Threads, Adding') \in Nat
    <2>1. \A u \in Threads : Adding[u] \in Nat /\ Adding'[u] \in Nat
        BY <1>1, <1>2 DEF NaturalAccounts
    <2>2. \A u \in Threads : u # t => Adding'[u] = Adding[u]
        BY <1>3
    <2> QED BY <2>1, <2>2, Finite, TotalUpdate
<1>7. /\ Total(Threads, Making') + Making[t] = Total(Threads, Making) + Making'[t]
      /\ Total(Threads, Making) \in Nat /\ Total(Threads, Making') \in Nat
    <2>1. \A u \in Threads : Making[u] \in Nat /\ Making'[u] \in Nat
        BY <1>1, <1>2 DEF NaturalAccounts
    <2>2. \A u \in Threads : u # t => Making'[u] = Making[u]
        BY <1>3
    <2> QED BY <2>1, <2>2, Finite, TotalUpdate
<1>8. /\ Total(Threads, Freeing') + Freeing[t] = Total(Threads, Freeing) + Freeing'[t]
      /\ Total(Threads, Freeing) \in Nat /\ Total(Threads, Freeing') \in Nat
    <2>1. \A u \in Threads : Freeing[u] \in Nat /\ Freeing'[u] \in Nat
        BY <1>1, <1>2 DEF NaturalAccounts
    <2>2. \A u \in Threads : u # t => Freeing'[u] = Freeing[u]
        BY <1>3
    <2> QED BY <2>1, <2>2, Finite, TotalUpdate
<1>9. ASSUME NEW f \in Funcs
      PROVE  /\ Total(Threads, Owed(f)') + Owed(f)[t] = Total(Threads, Owed(f)) + Owed(f)'[t]
             /\ Owed(f)[t] <= Total(Threads, Owed(f))
             /\ Total(Threads, Owed(f)) \in Nat /\ Total(Threads, Owed(f)') \in Nat
    BY <1>1, <1>2, <1>4, Finite, TotalUpdate DEF NaturalAccounts
<1> QED BY <1>3, <1>4, <1>5, <1>6, <1>7, <1>8, <1>9

LEMMA OwnPipelineShare ==
    ASSUME TypeOK, TypeOK', NEW t \in Threads, NEW f \in Funcs,
           \A u \in Threads : u # t => call'[u] = call[u] /\ live'[u] = live[u],
           \A g \in Funcs : g # f => live'[t][g] + PipeShare(call'[t], g)
                                        = live[t][g] + PipeShare(call[t], g)
    PROVE  /\ Total(Threads \X Funcs, PipelineOwed)' + (live[t][f] + PipeShare(call[t], f))
                 = Total(Threads \X Funcs, PipelineOwed) + (live'[t][f] + PipeShare(call'[t], f))
           /\ live[t][f] + PipeShare(call[t], f) <= Total(Threads \X Funcs, PipelineOwed)
           /\ Total(Threads \X Funcs, PipelineOwed) \in Nat
           /\ Total(Threads \X Funcs, PipelineOwed)' \in Nat
<1>1. NaturalAccounts
    BY AccountTypes
<1>2. NaturalAccounts'
    BY AccountTypes, PTL
<1>3. /\ PipelineOwed[<<t, f>>] = live[t][f] + PipeShare(call[t], f)
      /\ PipelineOwed'[<<t, f>>] = live'[t][f] + PipeShare(call'[t], f)
    BY DEF PipelineOwed, PipeShare, Between, Returning, InLoop, AtPipeline, AtFunc
<1>4. ASSUME NEW p \in Threads \X Funcs, p # <<t, f>>
      PROVE  PipelineOwed'[p] = PipelineOwed[p]
    <2>1. /\ PipelineOwed[p] = live[p[1]][p[2]] + PipeShare(call[p[1]], p[2])
          /\ PipelineOwed'[p] = live'[p[1]][p[2]] + PipeShare(call'[p[1]], p[2])
        BY DEF PipelineOwed, PipeShare, Between, Returning, InLoop, AtPipeline, AtFunc
    <2>2. CASE p[1] # t
        BY <2>1, <2>2
    <2>3. CASE p[1] = t
        <3>1. p[2] \in Funcs /\ p[2] # f
            BY <1>4, <2>3
        <3> QED BY <2>1, <2>3, <3>1
    <2> QED BY <2>2, <2>3
<1>5. \A p \in Threads \X Funcs : PipelineOwed[p] \in Nat /\ PipelineOwed'[p] \in Nat
    BY <1>1, <1>2 DEF NaturalAccounts
<1>6. Total(Threads \X Funcs, PipelineOwed)' = Total(Threads \X Funcs, PipelineOwed')
    BY DEF Total, Units
<1>7. <<t, f>> \in Threads \X Funcs
    OBVIOUS
<1> HIDE DEF PipelineOwed
<1>8. /\ Total(Threads \X Funcs, PipelineOwed') + PipelineOwed[<<t, f>>]
            = Total(Threads \X Funcs, PipelineOwed) + PipelineOwed'[<<t, f>>]
      /\ PipelineOwed[<<t, f>>] <= Total(Threads \X Funcs, PipelineOwed)
      /\ Total(Threads \X Funcs, PipelineOwed) \in Nat
      /\ Total(Threads \X Funcs, PipelineOwed') \in Nat
    BY <1>4, <1>5, <1>7, Finite, TotalUpdate
<1> QED BY <1>3, <1>6, <1>8

\* A step that moves bytes only between a call and what its thread has.
LEMMA Balanced ==
    ASSUME CInv, TypeOK', NEW t \in Threads, UNCHANGED <<counts, failures>>,
           \A u \in Threads : u # t => call'[u] = call[u] /\ live'[u] = live[u],
           AddShare(call'[t]) = AddShare(call[t]), MakeShare(call'[t]) = MakeShare(call[t]),
           FreeShare(call'[t]) = FreeShare(call[t]),
           \A f \in Funcs : /\ live'[t][f] + FuncShare(call'[t], f)
                                  = live[t][f] + FuncShare(call[t], f)
                            /\ live'[t][f] + PipeShare(call'[t], f)
                                  = live[t][f] + PipeShare(call[t], f)
    PROVE  Accounts'
<1>1. call[t] \in Calls /\ call'[t] \in Calls /\ \A f \in Funcs : live[t][f] \in Nat
    BY DEF CInv, TypeOK
<1>2. /\ AddShare(call[t]) \in Nat /\ MakeShare(call[t]) \in Nat /\ FreeShare(call[t]) \in Nat
      /\ \A f \in Funcs : /\ live[t][f] + FuncShare(call[t], f) \in Nat
                          /\ live[t][f] + PipeShare(call[t], f) \in Nat
    BY <1>1, ShareTypes
<1>3. /\ Total(Threads, Adding)' = Total(Threads, Adding)
      /\ Total(Threads, Making)' = Total(Threads, Making)
      /\ Total(Threads, Freeing)' = Total(Threads, Freeing)
      /\ \A f \in Funcs : Total(Threads, Owed(f))' = Total(Threads, Owed(f))
    BY <1>2, OwnShares DEF CInv
<1>4. Total(Threads \X Funcs, PipelineOwed)' = Total(Threads \X Funcs, PipelineOwed)
    <2>1. CASE Funcs = {}
        <3>1. PipelineOwed' = PipelineOwed
            BY <2>1 DEF PipelineOwed
        <3> QED BY <3>1 DEF Total, Units
    <2>2. CASE Funcs # {}
        <3>1. PICK f \in Funcs : TRUE
            BY <2>2
        <3>2. /\ Total(Threads \X Funcs, PipelineOwed)' + (live[t][f] + PipeShare(call[t], f))
                    = Total(Threads \X Funcs, PipelineOwed) + (live'[t][f] + PipeShare(call'[t], f))
              /\ Total(Threads \X Funcs, PipelineOwed) \in Nat
              /\ Total(Threads \X Funcs, PipelineOwed)' \in Nat
            BY OwnPipelineShare DEF CInv
        <3>3. live'[t][f] + PipeShare(call'[t], f) = live[t][f] + PipeShare(call[t], f)
            OBVIOUS
        <3> QED BY <1>2, <3>2, <3>3
    <2> QED BY <2>1, <2>2
<1>5. /\ UNCHANGED <<memory_current, memory_total, num_allocs, failures>>
      /\ Total(Funcs, memory_current)' = Total(Funcs, memory_current)
      /\ Total(Funcs, memory_total)' = Total(Funcs, memory_total)
      /\ Total(Funcs, num_allocs)' = Total(Funcs, num_allocs)
    BY DEF counts, Total, Units
<1> QED BY <1>3, <1>4, <1>5 DEF CInv, Accounts

-----------------------------------------------------------------------------
LEMMA NoCallShape ==
    /\ NoCall \in Calls /\ NoCall.pc = "idle" /\ ~InLoop(NoCall)
BY DEF NoCall, Calls, CallPC, Counters, Peaks, InLoop

\* Leaving sync_compare_max_and_swap.
LEMMA DoneOutcomes ==
    ASSUME NEW c \in Calls
    PROVE  /\ Done(c) \in Calls
           /\ AtPipeline(c) => /\ Done(c).pc = "add" /\ AtFunc(Done(c))
                               /\ Done(c).func = c.func /\ Done(c).bytes = c.bytes
           /\ ~AtPipeline(c) => Done(c) = NoCall
<1>1. CASE AtPipeline(c)
    <2>1. /\ c.func \in Counters /\ c.bytes \in Nat
          /\ c = [pc |-> c.pc, func |-> c.func, bytes |-> c.bytes,
                  at |-> c.at, val |-> c.val, old_val |-> c.old_val]
        BY DEF Calls
    <2>2. <<"memory_peak", c.func>> \in Peaks
        BY <2>1 DEF Peaks
    <2>3. Done(c) = [pc |-> "add", func |-> c.func, bytes |-> c.bytes,
                     at |-> <<"memory_peak", c.func>>, val |-> 0, old_val |-> 0]
        BY <1>1, <2>1 DEF Done, AtPipeline
    <2> QED BY <1>1, <2>1, <2>2, <2>3 DEF Calls, CallPC, AtFunc
<1>2. CASE ~AtPipeline(c)
    BY <1>2, NoCallShape DEF Done, AtPipeline
<1> QED BY <1>1, <1>2

LEMMA LoopOutcomes ==
    ASSUME NEW c \in Calls, NEW old \in Nat
    PROVE  \/ /\ Loop(c, old) \in Calls /\ Loop(c, old).pc = "swap" /\ Loop(c, old).at = c.at
              /\ Loop(c, old).func = c.func /\ Loop(c, old).bytes = c.bytes
           \/ Loop(c, old) = Done(c)
<1>1. c = [pc |-> c.pc, func |-> c.func, bytes |-> c.bytes,
           at |-> c.at, val |-> c.val, old_val |-> c.old_val]
    BY DEF Calls
<1>2. CASE c.val > old
    <2>1. Loop(c, old) = [pc |-> "swap", func |-> c.func, bytes |-> c.bytes,
                          at |-> c.at, val |-> c.val, old_val |-> old]
        BY <1>1, <1>2 DEF Loop
    <2> QED BY <2>1 DEF Calls, CallPC
<1>3. CASE ~(c.val > old)
    BY <1>3 DEF Loop
<1> QED BY <1>2, <1>3

-----------------------------------------------------------------------------
\* Only the call of t has changed its shape.
LEMMA ShapeOf ==
    ASSUME CInv, NEW t \in Threads,
           \A u \in Threads : u # t => call'[u] = call[u] /\ live'[u] = live[u],
           call'[t].pc # "idle" => call'[t].func \in Funcs,
           call'[t].pc = "add" => AtPipeline(call'[t]) \/ AtFunc(call'[t]),
           InLoop(call'[t]) => \/ AtPipeline(call'[t]) \/ AtFunc(call'[t])
                               \/ call'[t].at = <<"stack_peak", call'[t].func>>,
           call'[t].pc = "add" \/ (InLoop(call'[t]) /\ (AtPipeline(call'[t]) \/ AtFunc(call'[t])))
              => live'[t][call'[t].func] = 0
    PROVE  CallShape'
<1> SUFFICES ASSUME NEW u \in Threads
             PROVE  /\ call'[u].pc # "idle" => call'[u].func \in Funcs
                    /\ call'[u].pc = "add" => AtPipeline(call'[u]) \/ AtFunc(call'[u])
                    /\ InLoop(call'[u]) => \/ AtPipeline(call'[u]) \/ AtFunc(call'[u])
                                           \/ call'[u].at = <<"stack_peak", call'[u].func>>
                    /\ call'[u].pc = "add" \/ (InLoop(call'[u]) /\ (AtPipeline(call'[u]) \/ AtFunc(call'[u])))
                          => live'[u][call'[u].func] = 0
    BY DEF CallShape, InLoop, AtPipeline, AtFunc
<1>1. CASE u = t
    BY <1>1
<1>2. CASE u # t
    BY <1>2 DEF CInv, CallShape
<1> QED BY <1>1, <1>2

LEMMA AllocateCInv ==
    ASSUME CInv, NEW t \in Threads, NEW f \in Funcs, NEW n \in Sizes,
           halide_profiler_memory_allocate(t, f, n)
    PROVE  CInv'
<1> DEFINE c == [NoCall EXCEPT !.pc = "add", !.func = f, !.bytes = n]
<1>1. c \in Calls /\ c.pc = "add" /\ c.func = f /\ AtPipeline(c) /\ ~InLoop(c)
    <2>1. n \in Nat /\ f \in Counters
        BY MemoryAssumption DEF Counters
    <2>2. c \in Calls /\ c.pc = "add" /\ c.func = f
        BY <2>1, NoCallShape DEF Calls, CallPC
    <2>3. c.at = <<"memory_peak", Pipeline>>
        BY DEF NoCall
    <2> QED BY <2>2, <2>3 DEF AtPipeline, InLoop
<1>2. /\ call[t].pc = "idle" /\ live[t][f] = 0 /\ call' = [call EXCEPT ![t] = c]
      /\ UNCHANGED <<counts, peak, live, high, failures>>
    BY DEF halide_profiler_memory_allocate, At
<1> HIDE DEF c
<1>3. /\ call' \in [Threads -> Calls] /\ call'[t] = c
      /\ \A u \in Threads : u # t => call'[u] = call[u]
    BY <1>1, <1>2 DEF CInv, TypeOK
<1>4. TypeOK'
    BY <1>2, <1>3 DEF CInv, TypeOK, counts
<1>5. CallShape'
    BY <1>1, <1>2, <1>3, ShapeOf
<1>6. Accounts'
    BY <1>1, <1>2, <1>3, <1>4, NoShare, Balanced
<1> QED BY <1>4, <1>5, <1>6 DEF CInv

LEMMA StackPeakCInv ==
    ASSUME CInv, NEW t \in Threads, NEW f \in Funcs, halide_profiler_stack_peak_update(t, f)
    PROVE  CInv'
<1> DEFINE w == <<"stack_peak", f>>
           c == [NoCall EXCEPT !.pc = "read", !.func = f, !.at = w, !.val = StackBytes[f]]
<1>1. /\ c \in Calls /\ c.pc = "read" /\ c.func = f /\ c.at = <<"stack_peak", c.func>>
      /\ InLoop(c) /\ ~AtPipeline(c) /\ ~AtFunc(c)
    <2>1. StackBytes[f] \in Nat /\ f \in Counters /\ w \in Peaks
        BY MemoryAssumption DEF Counters, Peaks
    <2> HIDE DEF w
    <2>2. c \in Calls /\ c.pc = "read" /\ c.func = f /\ c.at = w
        BY <2>1, NoCallShape DEF Calls, CallPC
    <2> QED BY <2>2 DEF w, AtPipeline, AtFunc, InLoop
<1>2. /\ call[t].pc = "idle" /\ call' = [call EXCEPT ![t] = c] /\ IsHigh(w, StackBytes[f])
      /\ UNCHANGED <<counts, peak, live, failures>>
    BY DEF halide_profiler_stack_peak_update, At
<1>3. high' \in [Peaks -> Nat]
    <2>1. StackBytes[f] \in Nat
        BY MemoryAssumption
    <2> HIDE DEF w
    <2>2. high' = [high EXCEPT ![w] = Larger(high[w], StackBytes[f])] /\ high \in [Peaks -> Nat]
        BY <1>2 DEF IsHigh, CInv, TypeOK
    <2>3. w \in Peaks => Larger(high[w], StackBytes[f]) \in Nat
        BY <2>1, <2>2 DEF Larger
    <2> QED BY <2>2, <2>3
<1> HIDE DEF c
<1>4. /\ call' \in [Threads -> Calls] /\ call'[t] = c
      /\ \A u \in Threads : u # t => call'[u] = call[u]
    BY <1>1, <1>2 DEF CInv, TypeOK
<1>5. TypeOK'
    BY <1>2, <1>3, <1>4 DEF CInv, TypeOK, counts
<1>6. CallShape'
    BY <1>1, <1>2, <1>4, ShapeOf
<1>7. Accounts'
    BY <1>1, <1>2, <1>4, <1>5, NoShare, Balanced
<1> QED BY <1>5, <1>6, <1>7 DEF CInv

\* The end of an iteration of sync_compare_max_and_swap: the loop goes on, or
\* the counters of the Func follow, or the call returns.
LEMMA LoopEndCInv ==
    ASSUME CInv, NEW t \in Threads, InLoop(call[t]), NEW d \in Calls,
           call' = [call EXCEPT ![t] = d], Allocated(t), peak' \in [Peaks -> Nat],
           UNCHANGED <<counts, high, failures>>,
           \/ InLoop(d) /\ d.at = call[t].at /\ d.func = call[t].func /\ d.bytes = call[t].bytes
           \/ d = Done(call[t])
    PROVE  CInv'
<1> DEFINE c == call[t]
<1>1. c \in Calls /\ c.func \in Funcs /\ InLoop(c) /\ c.bytes \in Nat
    BY DEF CInv, TypeOK, CallShape, InLoop, Calls
<1>2. /\ call' \in [Threads -> Calls] /\ call'[t] = d
      /\ \A u \in Threads : u # t => call'[u] = call[u]
    BY DEF CInv, TypeOK
<1>3. live' = IF c.at = <<"memory_peak", c.func>> /\ d.pc = "idle"
              THEN [live EXCEPT ![t][c.func] = c.bytes] ELSE live
    BY <1>2 DEF Allocated
<1>4. /\ live' \in [Threads -> [Funcs -> Nat]]
      /\ \A u \in Threads : u # t => live'[u] = live[u]
    BY <1>1, <1>3 DEF CInv, TypeOK
<1>5. TypeOK'
    BY <1>2, <1>4 DEF CInv, TypeOK, counts
<1>6. \A f \in Funcs : live[t][f] \in Nat
    BY DEF CInv, TypeOK
<1>7. /\ AtPipeline(c) \/ AtFunc(c) \/ c.at = <<"stack_peak", c.func>>
      /\ AtPipeline(c) \/ AtFunc(c) => live[t][c.func] = 0
    BY <1>1 DEF CInv, CallShape
<1> HIDE DEF c
<1>8. CASE InLoop(d) /\ d.at = c.at /\ d.func = c.func /\ d.bytes = c.bytes
    <2>1. live' = live
        BY <1>3, <1>8 DEF InLoop
    <2>2. (AtPipeline(d) <=> AtPipeline(c)) /\ (AtFunc(d) <=> AtFunc(c))
        BY <1>8 DEF AtPipeline, AtFunc
    <2>3. CallShape'
        BY <1>1, <1>2, <1>7, <1>8, <2>1, <2>2, ShapeOf DEF InLoop
    <2>4. /\ AddShare(d) = AddShare(c) /\ MakeShare(d) = MakeShare(c)
          /\ FreeShare(d) = FreeShare(c)
          /\ \A f : FuncShare(d, f) = FuncShare(c, f) /\ PipeShare(d, f) = PipeShare(c, f)
        <3>1. c.pc # "sub" /\ d.pc # "sub" /\ c.pc # "add" /\ d.pc # "add"
            BY <1>1, <1>8 DEF InLoop
        <3>2. (Between(d) <=> Between(c)) /\ (Returning(d) <=> Returning(c))
            BY <1>1, <1>8, <2>2, <3>1 DEF Between, Returning
        <3> QED BY <1>8, <3>1, <3>2
            DEF AddShare, MakeShare, FreeShare, FuncShare, PipeShare
    <2>5. Accounts'
        BY <1>2, <1>5, <2>1, <2>4, Balanced DEF c
    <2> QED BY <1>5, <2>3, <2>5 DEF CInv
<1>9. CASE d = Done(c) /\ AtPipeline(c)
    <2>1. /\ d.pc = "add" /\ AtFunc(d) /\ d.func = c.func /\ d.bytes = c.bytes /\ ~InLoop(d)
        BY <1>1, <1>9, DoneOutcomes DEF InLoop
    <2>2. live' = live
        BY <1>3, <2>1
    <2>3. CallShape'
        BY <1>1, <1>2, <1>7, <1>9, <2>1, <2>2, ShapeOf
    <2>4. Between(c) /\ Between(d)
        BY <1>1, <1>9, <2>1 DEF Between
    <2>5. Accounts'
        BY <1>1, <1>2, <1>5, <2>1, <2>2, <2>4, BetweenShare, Balanced DEF c
    <2> QED BY <1>5, <2>3, <2>5 DEF CInv
<1>10. CASE d = Done(c) /\ ~AtPipeline(c)
    <2>1. d = NoCall /\ d.pc = "idle" /\ ~InLoop(d)
        BY <1>1, <1>10, DoneOutcomes, NoCallShape
    <2>2. CallShape'
        BY <1>2, <1>4, <2>1, ShapeOf
    <2>3. CASE AtFunc(c)
        <3>1. Returning(c)
            BY <1>1, <2>3 DEF Returning
        <3>2. live' = [live EXCEPT ![t][c.func] = c.bytes]
            BY <1>3, <2>1, <2>3 DEF AtFunc
        <3>3. \A f \in Funcs : live'[t][f] = IF f = c.func THEN c.bytes ELSE live[t][f]
            BY <1>1, <3>2 DEF CInv, TypeOK
        <3>4. \A f \in Funcs : /\ live'[t][f] + FuncShare(d, f) = live[t][f] + FuncShare(c, f)
                               /\ live'[t][f] + PipeShare(d, f) = live[t][f] + PipeShare(c, f)
            BY <1>1, <1>6, <1>7, <2>1, <2>3, <3>1, <3>3, NoShare, ReturningShare
        <3>5. /\ AddShare(d) = AddShare(c) /\ MakeShare(d) = MakeShare(c)
              /\ FreeShare(d) = FreeShare(c)
            BY <1>1, <2>1, <3>1, NoShare, ReturningShare
        <3>6. Accounts'
            BY <1>2, <1>4, <1>5, <3>4, <3>5, Balanced DEF c
        <3> QED BY <1>5, <2>2, <3>6 DEF CInv
    <2>4. CASE ~AtFunc(c)
        <3>1. c.at = <<"stack_peak", c.func>>
            BY <1>7, <1>10, <2>4
        <3>2. live' = live
            BY <1>3, <2>4 DEF AtFunc
        <3>3. Accounts'
            BY <1>1, <1>2, <1>5, <2>1, <3>1, <3>2, NoShare, Balanced DEF c
        <3> QED BY <1>5, <2>2, <3>3 DEF CInv
    <2> QED BY <2>3, <2>4
<1> QED BY <1>8, <1>9, <1>10 DEF c

LEMMA ReadPeakCInv ==
    ASSUME CInv, NEW t \in Threads, ReadPeak(t)
    PROVE  CInv'
<1> DEFINE d == Loop(call[t], peak[call[t].at])
<1>1. /\ InLoop(call[t]) /\ call' = [call EXCEPT ![t] = d] /\ Allocated(t)
      /\ UNCHANGED <<counts, peak, high, failures>>
    BY DEF ReadPeak, At, InLoop
<1>2. call[t] \in Calls /\ peak[call[t].at] \in Nat /\ peak' \in [Peaks -> Nat]
    BY <1>1 DEF CInv, TypeOK, Calls
<1>3. /\ d \in Calls
      /\ \/ InLoop(d) /\ d.at = call[t].at /\ d.func = call[t].func /\ d.bytes = call[t].bytes
         \/ d = Done(call[t])
    BY <1>2, LoopOutcomes, DoneOutcomes DEF InLoop
<1> HIDE DEF d
<1> QED BY <1>1, <1>2, <1>3, LoopEndCInv

LEMMA SwapCInv ==
    ASSUME CInv, NEW t \in Threads, Swap(t)
    PROVE  CInv'
<1>0. call[t] \in Calls /\ peak[call[t].at] \in Nat /\ call[t].at \in Peaks /\ call[t].val \in Nat
    BY DEF CInv, TypeOK, Calls
<1>1. InLoop(call[t]) /\ Allocated(t) /\ UNCHANGED <<counts, high, failures>>
    BY DEF Swap, At, InLoop
<1>2. CASE Swaps(call[t])
    <2>1. /\ call' = [call EXCEPT ![t] = Done(call[t])]
          /\ peak' = [peak EXCEPT ![call[t].at] = call[t].val]
        BY <1>2 DEF Swap
    <2>2. peak' \in [Peaks -> Nat]
        BY <1>0, <2>1 DEF CInv, TypeOK
    <2>3. Done(call[t]) \in Calls
        BY <1>0, DoneOutcomes
    <2> QED BY <1>1, <2>1, <2>2, <2>3, LoopEndCInv
<1>3. CASE ~Swaps(call[t])
    <2> DEFINE d == Loop(call[t], peak[call[t].at])
    <2>1. peak' = peak /\ call' = [call EXCEPT ![t] = d]
        BY <1>3 DEF Swap, AfterSwap
    <2>2. peak' \in [Peaks -> Nat]
        BY <2>1 DEF CInv, TypeOK
    <2>3. /\ d \in Calls
          /\ \/ InLoop(d) /\ d.at = call[t].at /\ d.func = call[t].func /\ d.bytes = call[t].bytes
             \/ d = Done(call[t])
        BY <1>0, LoopOutcomes, DoneOutcomes DEF InLoop
    <2> HIDE DEF d
    <2> QED BY <1>1, <2>1, <2>2, <2>3, LoopEndCInv
<1> QED BY <1>2, <1>3

\* The counters of one step: c is a counter, n its change.
LEMMA CountersOf ==
    ASSUME NEW g, NEW h, g \in [Counters -> Nat], h \in [Counters -> Nat], NEW c \in Counters,
           \A x \in Counters : x # c => h[x] = g[x]
    PROVE  /\ Total(Funcs, g) \in Nat /\ Total(Funcs, h) \in Nat
           /\ c = Pipeline => Total(Funcs, h) = Total(Funcs, g)
           /\ c \in Funcs => Total(Funcs, h) + g[c] = Total(Funcs, g) + h[c] /\ h[Pipeline] = g[Pipeline]
<1>1. \A f \in Funcs : g[f] \in Nat /\ h[f] \in Nat /\ f \in Counters /\ f # Pipeline
    BY MemoryAssumption DEF Counters
<1>2. Total(Funcs, g) \in Nat /\ Total(Funcs, h) \in Nat
    BY <1>1, Finite, UnitsFinite
<1>3. c = Pipeline => Total(Funcs, h) = Total(Funcs, g)
    BY <1>1, TotalSame
<1>4. ASSUME c \in Funcs
      PROVE  Total(Funcs, h) + g[c] = Total(Funcs, g) + h[c] /\ h[Pipeline] = g[Pipeline]
    <2>1. Pipeline \in Counters /\ Pipeline # c
        BY <1>1, <1>4 DEF Counters
    <2>2. \A f \in Funcs : f # c => h[f] = g[f]
        BY <1>1
    <2> QED BY <1>1, <1>4, <2>1, <2>2, Finite, TotalUpdate
<1> QED BY <1>2, <1>3, <1>4

LEMMA AddCInv ==
    ASSUME CInv, NEW t \in Threads, Add(t)
    PROVE  CInv'
<1> SUFFICES ASSUME NEW c, NEW d, NEW k, NEW n, c = call[t], d = call'[t],
                    k = c.at[2], n = c.bytes
             PROVE  CInv'
    OBVIOUS
<1>1. /\ c \in Calls /\ c.pc = "add" /\ c.func \in Funcs /\ n \in Nat /\ c.at \in Peaks
      /\ AtPipeline(c) \/ AtFunc(c)
      /\ live[t][c.func] = 0
    BY DEF Add, At, CInv, TypeOK, CallShape, Calls
<1>2. k \in Counters /\ (AtPipeline(c) => k = Pipeline) /\ (AtFunc(c) => k = c.func)
    BY <1>1 DEF AtPipeline, AtFunc, Counters
<1>3. /\ memory_current \in [Counters -> Nat] /\ memory_total \in [Counters -> Nat]
      /\ num_allocs \in [Counters -> Nat] /\ high \in [Peaks -> Nat]
      /\ call \in [Threads -> Calls] /\ live \in [Threads -> [Funcs -> Nat]]
    BY DEF CInv, TypeOK
<1>4. /\ num_allocs' = [num_allocs EXCEPT ![k] = @ + 1]
      /\ memory_total' = [memory_total EXCEPT ![k] = @ + n]
      /\ memory_current' = [memory_current EXCEPT ![k] = @ + n]
      /\ call' = [call EXCEPT ![t].pc = "read", ![t].val = memory_current[k] + n]
      /\ IsHigh(c.at, memory_current'[k])
      /\ UNCHANGED <<peak, live, failures>>
    BY DEF Add, AddAndFetch
<1>5. /\ num_allocs' \in [Counters -> Nat] /\ num_allocs'[k] = num_allocs[k] + 1
      /\ memory_total' \in [Counters -> Nat] /\ memory_total'[k] = memory_total[k] + n
      /\ memory_current' \in [Counters -> Nat] /\ memory_current'[k] = memory_current[k] + n
      /\ \A x \in Counters : x # k => /\ num_allocs'[x] = num_allocs[x]
                                      /\ memory_total'[x] = memory_total[x]
                                      /\ memory_current'[x] = memory_current[x]
    BY <1>1, <1>2, <1>3, <1>4
<1>6. /\ call' \in [Threads -> Calls]
      /\ d.pc = "read" /\ d.at = c.at /\ d.func = c.func /\ d.bytes = c.bytes
      /\ \A u \in Threads : u # t => call'[u] = call[u]
    <2>1. memory_current[k] + n \in Nat
        BY <1>1, <1>2, <1>3
    <2>2. call' = [call EXCEPT ![t] = [c EXCEPT !.pc = "read", !.val = memory_current[k] + n]]
        BY <1>3, <1>4
    <2>3. /\ [c EXCEPT !.pc = "read", !.val = memory_current[k] + n] \in Calls
          /\ [c EXCEPT !.pc = "read", !.val = memory_current[k] + n].pc = "read"
          /\ [c EXCEPT !.pc = "read", !.val = memory_current[k] + n].at = c.at
          /\ [c EXCEPT !.pc = "read", !.val = memory_current[k] + n].func = c.func
          /\ [c EXCEPT !.pc = "read", !.val = memory_current[k] + n].bytes = c.bytes
        BY <1>1, <2>1 DEF Calls, CallPC
    <2> QED BY <1>3, <2>2, <2>3
<1>7. high' \in [Peaks -> Nat]
    <2>1. high[c.at] \in Nat /\ memory_current'[k] \in Nat
        BY <1>1, <1>2, <1>3, <1>5
    <2>2. Larger(high[c.at], memory_current'[k]) \in Nat
        BY <2>1 DEF Larger
    <2>3. high' = [high EXCEPT ![c.at] = Larger(high[c.at], memory_current'[k])]
        BY <1>3, <1>4 DEF IsHigh
    <2> QED BY <1>3, <2>2, <2>3
<1>8. TypeOK'
    BY <1>4, <1>5, <1>6, <1>7 DEF CInv, TypeOK
<1>9. InLoop(d) /\ (AtPipeline(d) <=> AtPipeline(c)) /\ (AtFunc(d) <=> AtFunc(c))
    BY <1>6 DEF InLoop, AtPipeline, AtFunc
<1>10. CallShape'
    BY <1>1, <1>4, <1>6, <1>9, ShapeOf
<1>11. /\ Total(Threads, Adding)' + AddShare(c) = Total(Threads, Adding) + AddShare(d)
       /\ Total(Threads, Making)' + MakeShare(c) = Total(Threads, Making) + MakeShare(d)
       /\ Total(Threads, Freeing)' + FreeShare(c) = Total(Threads, Freeing) + FreeShare(d)
       /\ \A f \in Funcs :
             /\ Total(Threads, Owed(f))' + (live[t][f] + FuncShare(c, f))
                   = Total(Threads, Owed(f)) + (live[t][f] + FuncShare(d, f))
             /\ Total(Threads, Owed(f)) \in Nat /\ Total(Threads, Owed(f))' \in Nat
       /\ Total(Threads, Adding) \in Nat /\ Total(Threads, Adding)' \in Nat
       /\ Total(Threads, Making) \in Nat /\ Total(Threads, Making)' \in Nat
       /\ Total(Threads, Freeing) \in Nat /\ Total(Threads, Freeing)' \in Nat
    BY <1>4, <1>6, <1>8, OwnShares DEF CInv
<1>12. /\ Total(Funcs, memory_current)' = Total(Funcs, memory_current')
       /\ Total(Funcs, memory_total)' = Total(Funcs, memory_total')
       /\ Total(Funcs, num_allocs)' = Total(Funcs, num_allocs')
    BY DEF Total, Units
<1>13. \A f \in Funcs : live[t][f] \in Nat
    BY <1>3
<1>14. Pipeline \in Counters /\ \A f \in Funcs : f \in Counters /\ f # Pipeline
    BY MemoryAssumption DEF Counters
<1>15. /\ \A x \in Counters : /\ memory_current[x] \in Nat /\ memory_total[x] \in Nat
                              /\ num_allocs[x] \in Nat
       /\ failures' = failures /\ live' = live
    BY <1>3, <1>4
<1>16. /\ \A f \in Funcs : /\ memory_current[f] >= Total(Threads, Owed(f))
                           /\ failures = 0 => memory_current[f] = Total(Threads, Owed(f))
       /\ memory_current[Pipeline] >= Total(Threads \X Funcs, PipelineOwed)
       /\ memory_current[Pipeline] + Total(Threads, Freeing)
             = Total(Funcs, memory_current) + Total(Threads, Adding)
       /\ memory_total[Pipeline] = Total(Funcs, memory_total) + Total(Threads, Adding)
       /\ num_allocs[Pipeline] = Total(Funcs, num_allocs) + Total(Threads, Making)
    BY DEF CInv, Accounts
<1>17. CASE AtPipeline(c)
    <2>1. /\ AddShare(c) = 0 /\ MakeShare(c) = 0 /\ FreeShare(c) = 0
          /\ \A f : FuncShare(c, f) = 0 /\ PipeShare(c, f) = 0
        BY <1>1, <1>17, NoShare
    <2>2. Between(d) /\ d.func \in Funcs
        BY <1>1, <1>6, <1>9, <1>17 DEF Between
    <2>3. /\ AddShare(d) = n /\ MakeShare(d) = 1 /\ FreeShare(d) = 0
          /\ \A f : FuncShare(d, f) = 0
          /\ \A f : PipeShare(d, f) = IF f = c.func THEN n ELSE 0
        BY <1>6, <2>2, BetweenShare
    <2>4. /\ Total(Funcs, memory_current') = Total(Funcs, memory_current)
          /\ Total(Funcs, memory_total') = Total(Funcs, memory_total)
          /\ Total(Funcs, num_allocs') = Total(Funcs, num_allocs)
          /\ Total(Funcs, memory_current) \in Nat /\ Total(Funcs, memory_total) \in Nat
          /\ Total(Funcs, num_allocs) \in Nat
        <3>0. Pipeline \in Counters /\ k = Pipeline
            BY <1>2, <1>14, <1>17
        <3>1. /\ Total(Funcs, memory_current') = Total(Funcs, memory_current)
              /\ Total(Funcs, memory_current) \in Nat
            <4>1. /\ memory_current \in [Counters -> Nat] /\ memory_current' \in [Counters -> Nat]
                  /\ \A x \in Counters : x # Pipeline => memory_current'[x] = memory_current[x]
                BY <1>3, <1>5, <3>0
            <4> QED BY <3>0, <4>1, CountersOf
        <3>2. /\ Total(Funcs, memory_total') = Total(Funcs, memory_total)
              /\ Total(Funcs, memory_total) \in Nat
            <4>1. /\ memory_total \in [Counters -> Nat] /\ memory_total' \in [Counters -> Nat]
                  /\ \A x \in Counters : x # Pipeline => memory_total'[x] = memory_total[x]
                BY <1>3, <1>5, <3>0
            <4> QED BY <3>0, <4>1, CountersOf
        <3>3. /\ Total(Funcs, num_allocs') = Total(Funcs, num_allocs)
              /\ Total(Funcs, num_allocs) \in Nat
            <4>1. /\ num_allocs \in [Counters -> Nat] /\ num_allocs' \in [Counters -> Nat]
                  /\ \A x \in Counters : x # Pipeline => num_allocs'[x] = num_allocs[x]
                BY <1>3, <1>5, <3>0
            <4> QED BY <3>0, <4>1, CountersOf
        <3> QED BY <3>1, <3>2, <3>3
    <2>5. /\ Total(Threads \X Funcs, PipelineOwed)' + (live[t][c.func] + PipeShare(c, c.func))
                = Total(Threads \X Funcs, PipelineOwed) + (live[t][c.func] + PipeShare(d, c.func))
          /\ Total(Threads \X Funcs, PipelineOwed) \in Nat
          /\ Total(Threads \X Funcs, PipelineOwed)' \in Nat
        <3>0. PICK f \in Funcs : f = c.func
            BY <1>1
        <3>1. \A g \in Funcs : g # f => live'[t][g] + PipeShare(call'[t], g)
                                           = live[t][g] + PipeShare(call[t], g)
            BY <1>15, <2>1, <2>3, <3>0
        <3>2. \A u \in Threads : u # t => call'[u] = call[u] /\ live'[u] = live[u]
            BY <1>6, <1>15
        <3>3. TypeOK
            BY DEF CInv
        <3>4. /\ Total(Threads \X Funcs, PipelineOwed)' + (live[t][f] + PipeShare(call[t], f))
                   = Total(Threads \X Funcs, PipelineOwed) + (live'[t][f] + PipeShare(call'[t], f))
              /\ Total(Threads \X Funcs, PipelineOwed) \in Nat
              /\ Total(Threads \X Funcs, PipelineOwed)' \in Nat
            BY <1>8, <3>1, <3>2, <3>3, OwnPipelineShare
        <3> QED BY <1>15, <3>0, <3>4
    <2>6. \A f \in Funcs : /\ memory_current'[f] = memory_current[f]
                           /\ Total(Threads, Owed(f))' = Total(Threads, Owed(f))
        BY <1>2, <1>5, <1>11, <1>13, <1>14, <1>17, <2>1, <2>3
    <2>7. memory_current'[Pipeline] >= Total(Threads \X Funcs, PipelineOwed)'
        BY <1>1, <1>2, <1>5, <1>14, <1>15, <1>16, <1>17, <2>1, <2>3, <2>5
    <2>8. /\ Total(Threads, Adding)' = Total(Threads, Adding) + n
          /\ Total(Threads, Making)' = Total(Threads, Making) + 1
          /\ Total(Threads, Freeing)' = Total(Threads, Freeing)
        BY <1>1, <1>11, <2>1, <2>3
    <2>9. /\ memory_current'[Pipeline] + Total(Threads, Freeing)'
                = Total(Funcs, memory_current)' + Total(Threads, Adding)'
          /\ memory_total'[Pipeline] = Total(Funcs, memory_total)' + Total(Threads, Adding)'
          /\ num_allocs'[Pipeline] = Total(Funcs, num_allocs)' + Total(Threads, Making)'
        BY <1>1, <1>2, <1>5, <1>11, <1>12, <1>14, <1>15, <1>16, <1>17, <2>4, <2>8
    <2>10. Accounts'
        BY <1>15, <1>16, <2>6, <2>7, <2>9 DEF Accounts
    <2> QED BY <1>8, <1>10, <2>10 DEF CInv
<1>18. CASE AtFunc(c)
    <2> DEFINE f == c.func
    <2>0. Between(c) /\ Returning(d) /\ k = f /\ f \in Funcs
        BY <1>1, <1>2, <1>9, <1>18 DEF Between, Returning
    <2>1. /\ AddShare(c) = n /\ MakeShare(c) = 1 /\ FreeShare(c) = 0
          /\ \A g : FuncShare(c, g) = 0
          /\ \A g : PipeShare(c, g) = IF g = f THEN n ELSE 0
        BY <1>1, <2>0, BetweenShare
    <2>3. /\ AddShare(d) = 0 /\ MakeShare(d) = 0 /\ FreeShare(d) = 0
          /\ \A g : FuncShare(d, g) = IF g = f THEN n ELSE 0
          /\ \A g : PipeShare(d, g) = IF g = f THEN n ELSE 0
        BY <1>1, <1>6, <2>0, ReturningShare
    <2> HIDE DEF f
    <2>4. /\ Total(Funcs, memory_current') + memory_current[f] = Total(Funcs, memory_current) + memory_current'[f]
          /\ Total(Funcs, memory_total') + memory_total[f] = Total(Funcs, memory_total) + memory_total'[f]
          /\ Total(Funcs, num_allocs') + num_allocs[f] = Total(Funcs, num_allocs) + num_allocs'[f]
          /\ Total(Funcs, memory_current) \in Nat /\ Total(Funcs, memory_current') \in Nat
          /\ Total(Funcs, memory_total) \in Nat /\ Total(Funcs, memory_total') \in Nat
          /\ Total(Funcs, num_allocs) \in Nat /\ Total(Funcs, num_allocs') \in Nat
        <3>0. f \in Counters /\ f \in Funcs
            BY <1>2, <2>0
        <3>1. /\ Total(Funcs, memory_current') + memory_current[f]
                   = Total(Funcs, memory_current) + memory_current'[f]
              /\ Total(Funcs, memory_current) \in Nat /\ Total(Funcs, memory_current') \in Nat
            <4>1. \A x \in Counters : x # f => memory_current'[x] = memory_current[x]
                BY <1>5, <2>0
            <4>2. memory_current \in [Counters -> Nat] /\ memory_current' \in [Counters -> Nat]
                BY <1>3, <1>5
            <4> QED BY <3>0, <4>1, <4>2, CountersOf
        <3>2. /\ Total(Funcs, memory_total') + memory_total[f]
                   = Total(Funcs, memory_total) + memory_total'[f]
              /\ Total(Funcs, memory_total) \in Nat /\ Total(Funcs, memory_total') \in Nat
            <4>1. \A x \in Counters : x # f => memory_total'[x] = memory_total[x]
                BY <1>5, <2>0
            <4>2. memory_total \in [Counters -> Nat] /\ memory_total' \in [Counters -> Nat]
                BY <1>3, <1>5
            <4> QED BY <3>0, <4>1, <4>2, CountersOf
        <3>3. /\ Total(Funcs, num_allocs') + num_allocs[f]
                   = Total(Funcs, num_allocs) + num_allocs'[f]
              /\ Total(Funcs, num_allocs) \in Nat /\ Total(Funcs, num_allocs') \in Nat
            <4>1. \A x \in Counters : x # f => num_allocs'[x] = num_allocs[x]
                BY <1>5, <2>0
            <4>2. num_allocs \in [Counters -> Nat] /\ num_allocs' \in [Counters -> Nat]
                BY <1>3, <1>5
            <4> QED BY <3>0, <4>1, <4>2, CountersOf
        <3> QED BY <3>1, <3>2, <3>3
    <2>5. Total(Threads \X Funcs, PipelineOwed)' = Total(Threads \X Funcs, PipelineOwed)
        <3>1. \A g \in Funcs : live'[t][g] + PipeShare(d, g) = live[t][g] + PipeShare(c, g)
            BY <1>15, <2>1, <2>3
        <3>2. live[t][f] + PipeShare(c, f) \in Nat
            BY <1>1, <1>13, <2>0, <2>1
        <3>3. /\ Total(Threads \X Funcs, PipelineOwed)' + (live[t][f] + PipeShare(c, f))
                   = Total(Threads \X Funcs, PipelineOwed) + (live'[t][f] + PipeShare(d, f))
              /\ Total(Threads \X Funcs, PipelineOwed) \in Nat
              /\ Total(Threads \X Funcs, PipelineOwed)' \in Nat
            <4>1. \A g \in Funcs : live'[t][g] + PipeShare(call'[t], g)
                                      = live[t][g] + PipeShare(call[t], g)
                BY <3>1
            <4>2. \A u \in Threads : u # t => call'[u] = call[u] /\ live'[u] = live[u]
                BY <1>6, <1>15
            <4>3. TypeOK /\ f \in Funcs
                BY <2>0 DEF CInv
            <4>4. /\ Total(Threads \X Funcs, PipelineOwed)' + (live[t][f] + PipeShare(call[t], f))
                       = Total(Threads \X Funcs, PipelineOwed) + (live'[t][f] + PipeShare(call'[t], f))
                  /\ Total(Threads \X Funcs, PipelineOwed) \in Nat
                  /\ Total(Threads \X Funcs, PipelineOwed)' \in Nat
                BY <1>8, <4>1, <4>2, <4>3, OwnPipelineShare
            <4> QED BY <4>4
        <3> QED BY <2>0, <3>1, <3>2, <3>3
    <2>6. ASSUME NEW g \in Funcs
          PROVE  /\ memory_current'[g] >= Total(Threads, Owed(g))'
                 /\ failures' = 0 => memory_current'[g] = Total(Threads, Owed(g))'
        <3>1. CASE g = f
            <4>1. memory_current'[g] = memory_current[g] + n /\ memory_current[g] \in Nat
                BY <1>5, <1>14, <1>15, <2>0, <3>1
            <4>2. FuncShare(c, g) = 0 /\ FuncShare(d, g) = n
                BY <2>1, <2>3, <3>1
            <4>3. /\ Total(Threads, Owed(g))' = Total(Threads, Owed(g)) + n
                  /\ Total(Threads, Owed(g)) \in Nat
                BY <1>1, <1>11, <1>13, <4>2
            <4> QED BY <1>1, <1>15, <1>16, <4>1, <4>3
        <3>2. CASE g # f
            <4>1. memory_current'[g] = memory_current[g]
                BY <1>5, <1>14, <2>0, <3>2
            <4>2. FuncShare(c, g) = 0 /\ FuncShare(d, g) = 0
                BY <2>1, <2>3, <3>2
            <4>3. Total(Threads, Owed(g))' = Total(Threads, Owed(g))
                BY <1>11, <1>13, <4>2
            <4> QED BY <1>15, <1>16, <4>1, <4>3
        <3> QED BY <3>1, <3>2
    <2>7. memory_current'[Pipeline] >= Total(Threads \X Funcs, PipelineOwed)'
        BY <1>5, <1>14, <1>16, <2>0, <2>5
    <2>8. /\ Total(Threads, Adding)' + n = Total(Threads, Adding)
          /\ Total(Threads, Making)' + 1 = Total(Threads, Making)
          /\ Total(Threads, Freeing)' = Total(Threads, Freeing)
        BY <1>1, <1>11, <2>1, <2>3
    <2>9. /\ memory_current'[Pipeline] + Total(Threads, Freeing)'
                = Total(Funcs, memory_current)' + Total(Threads, Adding)'
          /\ memory_total'[Pipeline] = Total(Funcs, memory_total)' + Total(Threads, Adding)'
          /\ num_allocs'[Pipeline] = Total(Funcs, num_allocs)' + Total(Threads, Making)'
        BY <1>1, <1>5, <1>11, <1>12, <1>14, <1>15, <1>16, <2>0, <2>4, <2>8
    <2>10. Accounts'
        BY <2>6, <2>7, <2>9 DEF Accounts
    <2> QED BY <1>8, <1>10, <2>10 DEF CInv
<1> QED BY <1>1, <1>17, <1>18

\* What is due to one thread is part of the totals.
LEMMA PartOwed ==
    ASSUME TypeOK, NEW t \in Threads, NEW f \in Funcs
    PROVE  /\ live[t][f] + FuncShare(call[t], f) <= Total(Threads, Owed(f))
           /\ live[t][f] + PipeShare(call[t], f) <= Total(Threads \X Funcs, PipelineOwed)
           /\ Total(Threads, Owed(f)) \in Nat
           /\ Total(Threads \X Funcs, PipelineOwed) \in Nat
<1>1. NaturalAccounts
    BY AccountTypes
<1>2. /\ Owed(f)[t] = live[t][f] + FuncShare(call[t], f)
      /\ PipelineOwed[<<t, f>>] = live[t][f] + PipeShare(call[t], f)
    BY DEF Owed, PipelineOwed
<1> HIDE DEF Owed, PipelineOwed
<1>3. Owed(f)[t] <= Total(Threads, Owed(f)) /\ Total(Threads, Owed(f)) \in Nat
    <2>1. \A u \in Threads : Owed(f)[u] \in Nat
        BY <1>1 DEF NaturalAccounts
    <2> QED BY <2>1, Finite, TotalUpdate
<1>4. /\ PipelineOwed[<<t, f>>] <= Total(Threads \X Funcs, PipelineOwed)
      /\ Total(Threads \X Funcs, PipelineOwed) \in Nat
    <2>1. \A p \in Threads \X Funcs : PipelineOwed[p] \in Nat
        BY <1>1 DEF NaturalAccounts
    <2>2. <<t, f>> \in Threads \X Funcs
        OBVIOUS
    <2> QED BY <2>1, <2>2, Finite, TotalUpdate
<1> QED BY <1>2, <1>3, <1>4

\* memory_free takes from the pipeline no more than is due to its caller.
LEMMA FreeCInv ==
    ASSUME CInv, NEW t \in Threads, NEW f \in Funcs, halide_profiler_memory_free(t, f)
    PROVE  CInv'
<1> SUFFICES ASSUME NEW c, NEW d, NEW n, c = call[t], n = live[t][f],
                    d = [NoCall EXCEPT !.pc = "sub", !.func = f, !.bytes = n]
             PROVE  CInv'
    OBVIOUS
<1>1. /\ memory_current \in [Counters -> Nat] /\ memory_total \in [Counters -> Nat]
      /\ num_allocs \in [Counters -> Nat]
      /\ call \in [Threads -> Calls] /\ live \in [Threads -> [Funcs -> Nat]]
      /\ n \in Nat /\ TypeOK
    BY DEF CInv, TypeOK
<1>2. /\ c.pc = "idle"
      /\ memory_current' = [memory_current EXCEPT ![Pipeline] = memory_current[Pipeline] - n]
      /\ call' = [call EXCEPT ![t] = d]
      /\ live' = [live EXCEPT ![t][f] = 0]
      /\ UNCHANGED <<memory_total, num_allocs, peak, high, failures>>
    BY DEF halide_profiler_memory_free, At
<1>3. d \in Calls /\ d.pc = "sub" /\ d.func = f /\ d.bytes = n /\ ~InLoop(d)
    <2>1. f \in Counters
        BY DEF Counters
    <2> QED BY <1>1, <2>1, NoCallShape DEF Calls, CallPC, InLoop
<1>4. /\ call' \in [Threads -> Calls] /\ call'[t] = d
      /\ \A u \in Threads : u # t => call'[u] = call[u] /\ live'[u] = live[u]
      /\ live' \in [Threads -> [Funcs -> Nat]] /\ live'[t][f] = 0
      /\ \A g \in Funcs : g # f => live'[t][g] = live[t][g]
    BY <1>1, <1>2, <1>3
<1>5. /\ AddShare(c) = 0 /\ MakeShare(c) = 0 /\ FreeShare(c) = 0
      /\ \A g : FuncShare(c, g) = 0 /\ PipeShare(c, g) = 0
    BY <1>2, NoShare
<1>6. /\ AddShare(d) = 0 /\ MakeShare(d) = 0 /\ FreeShare(d) = n
      /\ \A g : FuncShare(d, g) = IF g = f THEN n ELSE 0
      /\ \A g : PipeShare(d, g) = 0
    BY <1>3, SubShare
<1>7. /\ \A g \in Funcs : /\ memory_current[g] >= Total(Threads, Owed(g))
                          /\ failures = 0 => memory_current[g] = Total(Threads, Owed(g))
      /\ memory_current[Pipeline] >= Total(Threads \X Funcs, PipelineOwed)
      /\ memory_current[Pipeline] + Total(Threads, Freeing)
            = Total(Funcs, memory_current) + Total(Threads, Adding)
      /\ memory_total[Pipeline] = Total(Funcs, memory_total) + Total(Threads, Adding)
      /\ num_allocs[Pipeline] = Total(Funcs, num_allocs) + Total(Threads, Making)
    BY DEF CInv, Accounts
<1>8. Pipeline \in Counters /\ \A g \in Funcs : g \in Counters /\ g # Pipeline
    BY MemoryAssumption DEF Counters
<1>9. n <= memory_current[Pipeline] /\ memory_current[Pipeline] \in Nat
    <2>1. /\ live[t][f] + PipeShare(call[t], f) <= Total(Threads \X Funcs, PipelineOwed)
          /\ Total(Threads \X Funcs, PipelineOwed) \in Nat
        BY <1>1, PartOwed
    <2>2. live[t][f] + PipeShare(call[t], f) = n
        BY <1>1, <1>5
    <2> QED BY <1>1, <1>7, <1>8, <2>1, <2>2
<1>10. /\ memory_current' \in [Counters -> Nat]
       /\ memory_current'[Pipeline] = memory_current[Pipeline] - n
       /\ \A x \in Counters : x # Pipeline => memory_current'[x] = memory_current[x]
    BY <1>1, <1>2, <1>8, <1>9
<1>11. TypeOK'
    BY <1>2, <1>4, <1>10 DEF CInv, TypeOK
<1>12. CallShape'
    <2>1. /\ call'[t].func \in Funcs /\ call'[t].pc # "add" /\ ~InLoop(call'[t])
          /\ \A u \in Threads : u # t => call'[u] = call[u] /\ live'[u] = live[u]
        BY <1>3, <1>4
    <2> QED BY <2>1, ShapeOf
<1>13. /\ Total(Threads, Adding)' = Total(Threads, Adding)
       /\ Total(Threads, Making)' = Total(Threads, Making)
       /\ Total(Threads, Freeing)' = Total(Threads, Freeing) + n
       /\ \A g \in Funcs :
             /\ Total(Threads, Owed(g))' + (live[t][g] + FuncShare(c, g))
                   = Total(Threads, Owed(g)) + (live'[t][g] + FuncShare(d, g))
             /\ Total(Threads, Owed(g)) \in Nat /\ Total(Threads, Owed(g))' \in Nat
       /\ Total(Threads, Adding) \in Nat /\ Total(Threads, Freeing) \in Nat
    <2>1. /\ Total(Threads, Adding)' + AddShare(c) = Total(Threads, Adding) + AddShare(d)
          /\ Total(Threads, Making)' + MakeShare(c) = Total(Threads, Making) + MakeShare(d)
          /\ Total(Threads, Freeing)' + FreeShare(c) = Total(Threads, Freeing) + FreeShare(d)
          /\ \A g \in Funcs :
                /\ Total(Threads, Owed(g))' + (live[t][g] + FuncShare(c, g))
                      = Total(Threads, Owed(g)) + (live'[t][g] + FuncShare(d, g))
                /\ Total(Threads, Owed(g)) \in Nat /\ Total(Threads, Owed(g))' \in Nat
          /\ Total(Threads, Adding) \in Nat /\ Total(Threads, Adding)' \in Nat
          /\ Total(Threads, Making) \in Nat /\ Total(Threads, Making)' \in Nat
          /\ Total(Threads, Freeing) \in Nat /\ Total(Threads, Freeing)' \in Nat
        BY <1>1, <1>4, <1>11, OwnShares
    <2> QED BY <1>1, <1>5, <1>6, <2>1
<1>14. ASSUME NEW g \in Funcs PROVE Total(Threads, Owed(g))' = Total(Threads, Owed(g))
    <2>1. live[t][g] + FuncShare(c, g) = live'[t][g] + FuncShare(d, g)
        BY <1>1, <1>4, <1>5, <1>6
    <2>2. live[t][g] + FuncShare(c, g) \in Nat
        BY <1>1, <1>5
    <2> QED BY <1>13, <2>1, <2>2
<1>15. Total(Threads \X Funcs, PipelineOwed)' + n = Total(Threads \X Funcs, PipelineOwed)
       /\ Total(Threads \X Funcs, PipelineOwed)' \in Nat
    <2>1. \A g \in Funcs : g # f => live'[t][g] + PipeShare(call'[t], g)
                                       = live[t][g] + PipeShare(call[t], g)
        BY <1>4, <1>5, <1>6
    <2>2. /\ Total(Threads \X Funcs, PipelineOwed)' + (live[t][f] + PipeShare(call[t], f))
                = Total(Threads \X Funcs, PipelineOwed) + (live'[t][f] + PipeShare(call'[t], f))
          /\ Total(Threads \X Funcs, PipelineOwed) \in Nat
          /\ Total(Threads \X Funcs, PipelineOwed)' \in Nat
        BY <1>1, <1>4, <1>11, <2>1, OwnPipelineShare
    <2>3. live[t][f] + PipeShare(call[t], f) = n /\ live'[t][f] + PipeShare(call'[t], f) = 0
        BY <1>1, <1>4, <1>5, <1>6
    <2> QED BY <1>1, <2>2, <2>3
<1>16. /\ Total(Funcs, memory_current)' = Total(Funcs, memory_current)
       /\ Total(Funcs, memory_current) \in Nat
       /\ Total(Funcs, memory_total)' = Total(Funcs, memory_total)
       /\ Total(Funcs, num_allocs)' = Total(Funcs, num_allocs)
    <2>1. Total(Funcs, memory_current)' = Total(Funcs, memory_current')
        BY DEF Total, Units
    <2>2. /\ Total(Funcs, memory_current') = Total(Funcs, memory_current)
          /\ Total(Funcs, memory_current) \in Nat
        BY <1>1, <1>8, <1>10, CountersOf
    <2>3. /\ Total(Funcs, memory_total)' = Total(Funcs, memory_total)
          /\ Total(Funcs, num_allocs)' = Total(Funcs, num_allocs)
        BY <1>2 DEF Total, Units
    <2> QED BY <2>1, <2>2, <2>3
<1>17. \A g \in Funcs : /\ memory_current'[g] >= Total(Threads, Owed(g))'
                        /\ failures' = 0 => memory_current'[g] = Total(Threads, Owed(g))'
    BY <1>2, <1>7, <1>8, <1>10, <1>14
<1>18. memory_current'[Pipeline] >= Total(Threads \X Funcs, PipelineOwed)'
    BY <1>1, <1>7, <1>9, <1>10, <1>15
<1>19. /\ memory_current'[Pipeline] + Total(Threads, Freeing)'
             = Total(Funcs, memory_current)' + Total(Threads, Adding)'
       /\ memory_total'[Pipeline] = Total(Funcs, memory_total)' + Total(Threads, Adding)'
       /\ num_allocs'[Pipeline] = Total(Funcs, num_allocs)' + Total(Threads, Making)'
    BY <1>1, <1>2, <1>7, <1>9, <1>10, <1>13, <1>16
<1>20. Accounts'
    BY <1>17, <1>18, <1>19 DEF Accounts
<1> QED BY <1>11, <1>12, <1>20 DEF CInv

\* memory_free takes from the Func what its call still owes it.
LEMMA FreeFuncCInv ==
    ASSUME CInv, NEW t \in Threads, FreeFunc(t)
    PROVE  CInv'
<1> SUFFICES ASSUME NEW c, NEW f, NEW n, c = call[t], f = c.func, n = c.bytes
             PROVE  CInv'
    OBVIOUS
<1>1. /\ memory_current \in [Counters -> Nat] /\ memory_total \in [Counters -> Nat]
      /\ num_allocs \in [Counters -> Nat]
      /\ call \in [Threads -> Calls] /\ live \in [Threads -> [Funcs -> Nat]]
      /\ c \in Calls /\ n \in Nat /\ TypeOK
    BY DEF CInv, TypeOK, Calls
<1>0. n \in Nat
    BY <1>1
<1>2. /\ c.pc = "sub" /\ f \in Funcs
      /\ memory_current' = [memory_current EXCEPT ![f] = memory_current[f] - n]
      /\ call' = [call EXCEPT ![t] = NoCall]
      /\ UNCHANGED <<memory_total, num_allocs, peak, live, high, failures>>
    BY DEF FreeFunc, At, Subtracted, CInv, CallShape
<1>3. /\ call' \in [Threads -> Calls] /\ call'[t] = NoCall
      /\ \A u \in Threads : u # t => call'[u] = call[u] /\ live'[u] = live[u]
      /\ live' = live
    BY <1>1, <1>2, NoCallShape
<1>4. /\ AddShare(c) = 0 /\ MakeShare(c) = 0 /\ FreeShare(c) = n
      /\ \A g : FuncShare(c, g) = IF g = f THEN n ELSE 0
      /\ \A g : PipeShare(c, g) = 0
    BY <1>2, SubShare
<1>5. /\ AddShare(NoCall) = 0 /\ MakeShare(NoCall) = 0 /\ FreeShare(NoCall) = 0
      /\ \A g : FuncShare(NoCall, g) = 0 /\ PipeShare(NoCall, g) = 0
    BY NoCallShape, NoShare
<1>6. /\ \A g \in Funcs : /\ memory_current[g] >= Total(Threads, Owed(g))
                          /\ failures = 0 => memory_current[g] = Total(Threads, Owed(g))
      /\ memory_current[Pipeline] >= Total(Threads \X Funcs, PipelineOwed)
      /\ memory_current[Pipeline] + Total(Threads, Freeing)
            = Total(Funcs, memory_current) + Total(Threads, Adding)
      /\ memory_total[Pipeline] = Total(Funcs, memory_total) + Total(Threads, Adding)
      /\ num_allocs[Pipeline] = Total(Funcs, num_allocs) + Total(Threads, Making)
    BY DEF CInv, Accounts
<1>7. Pipeline \in Counters /\ f # Pipeline /\ \A g \in Funcs : g \in Counters
    BY <1>2, MemoryAssumption DEF Counters
<1>8. n <= memory_current[f] /\ memory_current[f] \in Nat
    <2>1. /\ live[t][f] + FuncShare(call[t], f) <= Total(Threads, Owed(f))
          /\ Total(Threads, Owed(f)) \in Nat
        BY <1>1, <1>2, PartOwed
    <2>2. live[t][f] \in Nat /\ FuncShare(call[t], f) = n
        BY <1>1, <1>2, <1>4
    <2> QED BY <1>1, <1>2, <1>6, <1>7, <2>1, <2>2
<1>9. /\ memory_current' \in [Counters -> Nat]
      /\ memory_current'[f] = memory_current[f] - n
      /\ \A x \in Counters : x # f => memory_current'[x] = memory_current[x]
    BY <1>1, <1>2, <1>7, <1>8
<1>10. TypeOK'
    BY <1>2, <1>3, <1>9 DEF CInv, TypeOK
<1>11. CallShape'
    <2>1. call'[t].pc = "idle" /\ ~InLoop(call'[t])
        BY <1>3, NoCallShape
    <2> QED BY <1>3, <2>1, ShapeOf
<1>12. /\ Total(Threads, Adding)' + AddShare(c) = Total(Threads, Adding) + AddShare(NoCall)
       /\ Total(Threads, Making)' + MakeShare(c) = Total(Threads, Making) + MakeShare(NoCall)
       /\ Total(Threads, Freeing)' + FreeShare(c) = Total(Threads, Freeing) + FreeShare(NoCall)
       /\ \A g \in Funcs :
             /\ Total(Threads, Owed(g))' + (live[t][g] + FuncShare(c, g))
                   = Total(Threads, Owed(g)) + (live'[t][g] + FuncShare(NoCall, g))
             /\ Total(Threads, Owed(g)) \in Nat /\ Total(Threads, Owed(g))' \in Nat
       /\ Total(Threads, Adding) \in Nat /\ Total(Threads, Adding)' \in Nat
       /\ Total(Threads, Making) \in Nat /\ Total(Threads, Making)' \in Nat
       /\ Total(Threads, Freeing) \in Nat /\ Total(Threads, Freeing)' \in Nat
    BY <1>1, <1>3, <1>10, OwnShares
<1>13. /\ Total(Threads, Adding)' = Total(Threads, Adding)
       /\ Total(Threads, Making)' = Total(Threads, Making)
       /\ Total(Threads, Freeing)' + n = Total(Threads, Freeing)
    BY <1>1, <1>4, <1>5, <1>12
<1>14. /\ Total(Funcs, memory_current)' + n = Total(Funcs, memory_current)
       /\ Total(Funcs, memory_current)' \in Nat
       /\ Total(Funcs, memory_total)' = Total(Funcs, memory_total)
       /\ Total(Funcs, num_allocs)' = Total(Funcs, num_allocs)
       /\ memory_current'[Pipeline] = memory_current[Pipeline]
    <2>1. Total(Funcs, memory_current)' = Total(Funcs, memory_current')
        BY DEF Total, Units
    <2>2. /\ Total(Funcs, memory_current') + memory_current[f]
                = Total(Funcs, memory_current) + memory_current'[f]
          /\ Total(Funcs, memory_current) \in Nat /\ Total(Funcs, memory_current') \in Nat
          /\ memory_current'[Pipeline] = memory_current[Pipeline]
        <3>1. f \in Counters /\ f \in Funcs /\ memory_current \in [Counters -> Nat]
            BY <1>1, <1>2, <1>7
        <3> QED BY <1>9, <3>1, CountersOf
    <2>3. /\ Total(Funcs, memory_total)' = Total(Funcs, memory_total)
          /\ Total(Funcs, num_allocs)' = Total(Funcs, num_allocs)
        BY <1>2 DEF Total, Units
    <2>4. memory_current'[f] = memory_current[f] - n /\ memory_current[f] \in Nat
        BY <1>8, <1>9
    <2>5. Total(Funcs, memory_current') + n = Total(Funcs, memory_current)
        BY <1>0, <2>2, <2>4
    <2> QED BY <2>1, <2>2, <2>3, <2>5
<1>15. ASSUME NEW g \in Funcs
       PROVE  /\ memory_current'[g] >= Total(Threads, Owed(g))'
              /\ failures' = 0 => memory_current'[g] = Total(Threads, Owed(g))'
    <2>1. failures' = failures /\ live[t][g] \in Nat /\ live'[t][g] = live[t][g]
        BY <1>1, <1>2
    <2>2. CASE g = f
        <3>1. Total(Threads, Owed(g))' + n = Total(Threads, Owed(g))
            <4>1. FuncShare(c, g) = n /\ FuncShare(NoCall, g) = 0
                BY <1>4, <1>5, <2>2
            <4>2. /\ Total(Threads, Owed(g))' + (live[t][g] + n)
                       = Total(Threads, Owed(g)) + (live[t][g] + 0)
                  /\ Total(Threads, Owed(g)) \in Nat /\ Total(Threads, Owed(g))' \in Nat
                BY <1>12, <2>1, <4>1
            <4> QED BY <1>0, <2>1, <4>2
        <3>2. Total(Threads, Owed(g)) \in Nat /\ Total(Threads, Owed(g))' \in Nat
            BY <1>12
        <3>3. memory_current'[g] = memory_current[g] - n /\ memory_current[g] \in Nat
            BY <1>8, <1>9, <2>2
        <3>4. /\ memory_current[g] >= Total(Threads, Owed(g))
              /\ failures = 0 => memory_current[g] = Total(Threads, Owed(g))
            BY <1>6
        <3>5. memory_current'[g] >= Total(Threads, Owed(g))'
            BY <1>0, <3>1, <3>2, <3>3, <3>4
        <3>6. ASSUME failures' = 0 PROVE memory_current'[g] = Total(Threads, Owed(g))'
            <4>1. memory_current[g] = Total(Threads, Owed(g))
                BY <2>1, <3>4, <3>6
            <4> QED BY <1>0, <3>1, <3>2, <3>3, <4>1
        <3> QED BY <3>5, <3>6
    <2>3. CASE g # f
        <3>1. FuncShare(c, g) = 0 /\ FuncShare(NoCall, g) = 0
            BY <1>4, <1>5, <2>3
        <3>2. Total(Threads, Owed(g))' = Total(Threads, Owed(g))
            BY <1>12, <2>1, <3>1
        <3>3. memory_current'[g] = memory_current[g]
            BY <1>7, <1>9, <2>3
        <3> QED BY <1>6, <2>1, <3>2, <3>3
    <2> QED BY <2>2, <2>3
<1>16. Total(Threads \X Funcs, PipelineOwed)' = Total(Threads \X Funcs, PipelineOwed)
    <2>1. \A g \in Funcs : live'[t][g] + PipeShare(call'[t], g)
                              = live[t][g] + PipeShare(call[t], g)
        BY <1>3, <1>4, <1>5
    <2>2. /\ Total(Threads \X Funcs, PipelineOwed)' + (live[t][f] + PipeShare(call[t], f))
                = Total(Threads \X Funcs, PipelineOwed) + (live'[t][f] + PipeShare(call'[t], f))
          /\ Total(Threads \X Funcs, PipelineOwed) \in Nat
          /\ Total(Threads \X Funcs, PipelineOwed)' \in Nat
        <3>1. /\ TypeOK /\ f \in Funcs
              /\ \A u \in Threads : u # t => call'[u] = call[u] /\ live'[u] = live[u]
            BY <1>1, <1>2, <1>3
        <3> QED BY <1>10, <2>1, <3>1, OwnPipelineShare
    <2>3. live[t][f] + PipeShare(call[t], f) \in Nat
        BY <1>1, <1>2, <1>4
    <2> QED BY <1>2, <2>1, <2>2, <2>3
<1>17. /\ memory_current'[Pipeline] + Total(Threads, Freeing)'
             = Total(Funcs, memory_current)' + Total(Threads, Adding)'
       /\ memory_total'[Pipeline] = Total(Funcs, memory_total)' + Total(Threads, Adding)'
       /\ num_allocs'[Pipeline] = Total(Funcs, num_allocs)' + Total(Threads, Making)'
    <2>1. memory_current[Pipeline] \in Nat
        BY <1>1, <1>7
    <2>2. /\ Total(Threads, Freeing) \in Nat /\ Total(Threads, Freeing)' \in Nat
          /\ Total(Threads, Adding) \in Nat
        BY <1>12
    <2>3. memory_current[Pipeline] + Total(Threads, Freeing)
             = Total(Funcs, memory_current) + Total(Threads, Adding)
        BY <1>6
    <2>4. memory_current[Pipeline] + Total(Threads, Freeing)'
             = Total(Funcs, memory_current)' + Total(Threads, Adding)
        BY <1>0, <1>13, <1>14, <2>1, <2>2, <2>3
    <2> QED BY <1>2, <1>6, <1>13, <1>14, <2>4
<1>18. Accounts'
    BY <1>6, <1>14, <1>15, <1>16, <1>17 DEF Accounts
<1> QED BY <1>10, <1>11, <1>18 DEF CInv

\* A failure leaves what the thread had in the counters.
LEMMA FailCInv ==
    ASSUME CInv, NEW t \in Threads, Fail(t)
    PROVE  CInv'
<1>1. /\ call[t].pc = "idle" /\ failures < MaxFailures
      /\ live' = [live EXCEPT ![t] = [f \in Funcs |-> 0]] /\ failures' = failures + 1
      /\ call' = call /\ memory_current' = memory_current /\ memory_total' = memory_total
      /\ num_allocs' = num_allocs /\ peak' = peak /\ high' = high
    BY DEF Fail, At, counts
<1>2. /\ call \in [Threads -> Calls] /\ live \in [Threads -> [Funcs -> Nat]]
      /\ failures \in 0 .. MaxFailures /\ MaxFailures \in Nat /\ TypeOK
      /\ memory_current \in [Counters -> Nat]
    BY MemoryAssumption DEF CInv, TypeOK
<1>3. /\ live' \in [Threads -> [Funcs -> Nat]]
      /\ \A u \in Threads, f \in Funcs : live'[u][f] <= live[u][f]
      /\ \A u \in Threads : u # t => live'[u] = live[u]
    BY <1>1, <1>2
<1>4. failures' \in 0 .. MaxFailures /\ failures' # 0
    BY <1>1, <1>2
<1>5. TypeOK'
    BY <1>1, <1>3, <1>4 DEF CInv, TypeOK
<1>6. CallShape'
    <2>1. call'[t].pc = "idle" /\ ~InLoop(call'[t])
        BY <1>1 DEF InLoop
    <2> QED BY <1>1, <1>3, <2>1, ShapeOf
<1>7. /\ NaturalAccounts /\ NaturalAccounts'
    <2>1. NaturalAccounts
        BY <1>2, AccountTypes
    <2>2. NaturalAccounts'
        BY <1>5, AccountTypes, PTL
    <2> QED BY <2>1, <2>2
<1>8. ASSUME NEW f \in Funcs
      PROVE  /\ Total(Threads, Owed(f))' <= Total(Threads, Owed(f))
             /\ Total(Threads, Owed(f)) \in Nat /\ Total(Threads, Owed(f))' \in Nat
    <2>1. \A u \in Threads : Owed(f)[u] \in Nat /\ Owed(f)'[u] \in Nat
        BY <1>7 DEF NaturalAccounts
    <2>2. ASSUME NEW u \in Threads PROVE Owed(f)'[u] <= Owed(f)[u]
        <3>1. /\ Owed(f)[u] = live[u][f] + FuncShare(call[u], f)
              /\ Owed(f)'[u] = live'[u][f] + FuncShare(call[u], f)
            BY <1>1 DEF Owed, FuncShare, Returning, InLoop, AtFunc
        <3>2. FuncShare(call[u], f) \in Nat /\ live[u][f] \in Nat /\ live'[u][f] \in Nat
            BY <1>2, <1>3, ShareTypes
        <3> QED BY <1>3, <3>1, <3>2
    <2>3. Total(Threads, Owed(f))' = Total(Threads, Owed(f)')
        BY DEF Total, Units
    <2> HIDE DEF Owed
    <2>4. Total(Threads, Owed(f)') <= Total(Threads, Owed(f))
        BY <2>1, <2>2, Finite, TotalLess
    <2>5. Total(Threads, Owed(f)) \in Nat /\ Total(Threads, Owed(f)') \in Nat
        BY <2>1, Finite, UnitsFinite
    <2> QED BY <2>3, <2>4, <2>5
<1>9. /\ Total(Threads \X Funcs, PipelineOwed)' <= Total(Threads \X Funcs, PipelineOwed)
      /\ Total(Threads \X Funcs, PipelineOwed) \in Nat
      /\ Total(Threads \X Funcs, PipelineOwed)' \in Nat
    <2>1. \A p \in Threads \X Funcs : PipelineOwed[p] \in Nat /\ PipelineOwed'[p] \in Nat
        BY <1>7 DEF NaturalAccounts
    <2>2. ASSUME NEW p \in Threads \X Funcs PROVE PipelineOwed'[p] <= PipelineOwed[p]
        <3>1. /\ PipelineOwed[p] = live[p[1]][p[2]] + PipeShare(call[p[1]], p[2])
              /\ PipelineOwed'[p] = live'[p[1]][p[2]] + PipeShare(call[p[1]], p[2])
            BY <1>1 DEF PipelineOwed, PipeShare, Between, Returning, InLoop, AtPipeline, AtFunc
        <3>2. /\ PipeShare(call[p[1]], p[2]) \in Nat
              /\ live[p[1]][p[2]] \in Nat /\ live'[p[1]][p[2]] \in Nat
              /\ live'[p[1]][p[2]] <= live[p[1]][p[2]]
            BY <1>2, <1>3, ShareTypes
        <3> QED BY <3>1, <3>2
    <2>3. Total(Threads \X Funcs, PipelineOwed)' = Total(Threads \X Funcs, PipelineOwed')
        BY DEF Total, Units
    <2> HIDE DEF PipelineOwed
    <2>4. Total(Threads \X Funcs, PipelineOwed') <= Total(Threads \X Funcs, PipelineOwed)
        BY <2>1, <2>2, Finite, TotalLess
    <2>5. /\ Total(Threads \X Funcs, PipelineOwed) \in Nat
          /\ Total(Threads \X Funcs, PipelineOwed') \in Nat
        BY <2>1, Finite, UnitsFinite
    <2> QED BY <2>3, <2>4, <2>5
<1>10. /\ Total(Threads, Adding)' = Total(Threads, Adding)
       /\ Total(Threads, Making)' = Total(Threads, Making)
       /\ Total(Threads, Freeing)' = Total(Threads, Freeing)
       /\ Total(Funcs, memory_current)' = Total(Funcs, memory_current)
       /\ Total(Funcs, memory_total)' = Total(Funcs, memory_total)
       /\ Total(Funcs, num_allocs)' = Total(Funcs, num_allocs)
    <2>1. Adding' = Adding /\ Making' = Making /\ Freeing' = Freeing
        BY <1>1 DEF Adding, Making, Freeing, AddShare, MakeShare, FreeShare, Between,
                    InLoop, AtPipeline, AtFunc
    <2> QED BY <1>1, <2>1 DEF Total, Units
<1>11. \A f \in Funcs : memory_current[f] \in Nat /\ memory_current[Pipeline] \in Nat
    BY <1>2 DEF Counters
<1>12. /\ \A f \in Funcs : memory_current'[f] >= Total(Threads, Owed(f))'
       /\ memory_current'[Pipeline] >= Total(Threads \X Funcs, PipelineOwed)'
    <2>1. /\ \A f \in Funcs : memory_current[f] >= Total(Threads, Owed(f))
          /\ memory_current[Pipeline] >= Total(Threads \X Funcs, PipelineOwed)
        BY DEF CInv, Accounts
    <2>2. memory_current[Pipeline] \in Nat
        BY <1>2 DEF Counters
    <2> QED BY <1>1, <1>8, <1>9, <1>11, <2>1, <2>2
<1>13. Accounts'
    BY <1>1, <1>4, <1>10, <1>12 DEF CInv, Accounts
<1> QED BY <1>5, <1>6, <1>13 DEF CInv

-----------------------------------------------------------------------------
LEMMA InitCInv == Init => CInv
<1> SUFFICES ASSUME Init PROVE CInv
    OBVIOUS
<1>1. /\ \A t \in Threads : call[t] = NoCall /\ \A f \in Funcs : live[t][f] = 0
      /\ \A c \in Counters : memory_current[c] = 0 /\ memory_total[c] = 0 /\ num_allocs[c] = 0
      /\ failures = 0
    BY DEF Init
<1>2. TypeOK
    BY NoCallShape, MemoryAssumption DEF Init, TypeOK
<1>3. CallShape
    BY <1>1, NoCallShape DEF CallShape
<1>4. /\ AddShare(NoCall) = 0 /\ MakeShare(NoCall) = 0 /\ FreeShare(NoCall) = 0
      /\ \A g : FuncShare(NoCall, g) = 0 /\ PipeShare(NoCall, g) = 0
    BY NoCallShape, NoShare
<1>5. /\ Total(Threads, Adding) = 0 /\ Total(Threads, Making) = 0 /\ Total(Threads, Freeing) = 0
    BY <1>1, <1>4, TotalZero DEF Adding, Making, Freeing
<1>6. ASSUME NEW f \in Funcs PROVE Total(Threads, Owed(f)) = 0
    <2>1. \A t \in Threads : Owed(f)[t] = 0
        BY <1>1, <1>4 DEF Owed
    <2> QED BY <2>1, TotalZero
<1>7. Total(Threads \X Funcs, PipelineOwed) = 0
    <2>1. ASSUME NEW p \in Threads \X Funcs PROVE PipelineOwed[p] = 0
        <3>1. p[1] \in Threads /\ p[2] \in Funcs
            OBVIOUS
        <3>2. PipelineOwed[p] = live[p[1]][p[2]] + PipeShare(call[p[1]], p[2])
            BY DEF PipelineOwed
        <3> QED BY <1>1, <1>4, <3>1, <3>2
    <2> QED BY <2>1, TotalZero
<1>8. Pipeline \in Counters /\ \A f \in Funcs : f \in Counters
    BY DEF Counters
<1>9. /\ Total(Funcs, memory_current) = 0 /\ Total(Funcs, memory_total) = 0
      /\ Total(Funcs, num_allocs) = 0
    BY <1>1, <1>8, TotalZero
<1>10. Accounts
    BY <1>1, <1>5, <1>6, <1>7, <1>8, <1>9 DEF Accounts
<1> QED BY <1>2, <1>3, <1>10 DEF CInv

LEMMA NextCInv == CInv /\ [Next]_vars => CInv'
<1> SUFFICES ASSUME CInv, [Next]_vars PROVE CInv'
    OBVIOUS
<1>1. CASE UNCHANGED vars
    <2>1. TypeOK' /\ CallShape'
        BY <1>1 DEF vars, CInv, TypeOK, CallShape, InLoop, AtPipeline, AtFunc
    <2>2. /\ Adding' = Adding /\ Making' = Making /\ Freeing' = Freeing
          /\ PipelineOwed' = PipelineOwed /\ \A f \in Funcs : Owed(f)' = Owed(f)
        BY <1>1 DEF vars, Adding, Making, Freeing, PipelineOwed, Owed, AddShare, MakeShare,
                    FreeShare, FuncShare, PipeShare, Between, Returning, InLoop, AtPipeline, AtFunc
    <2>3. UNCHANGED <<memory_current, memory_total, num_allocs, failures>>
        BY <1>1 DEF vars
    <2> HIDE DEF Adding, Making, Freeing, PipelineOwed, Owed
    <2>4. Accounts'
        BY <2>2, <2>3 DEF CInv, Accounts, Total, Units
    <2> QED BY <2>1, <2>4 DEF CInv
<1>2. CASE Next
    <2>1. ASSUME NEW t \in Threads, NEW f \in Funcs, NEW n \in Sizes,
                 halide_profiler_memory_allocate(t, f, n)
          PROVE  CInv'
        BY <2>1, AllocateCInv
    <2>2. ASSUME NEW t \in Threads, NEW f \in Funcs, halide_profiler_stack_peak_update(t, f)
          PROVE  CInv'
        BY <2>2, StackPeakCInv
    <2>3. ASSUME NEW t \in Threads, NEW f \in Funcs, halide_profiler_memory_free(t, f)
          PROVE  CInv'
        BY <2>3, FreeCInv
    <2>4. ASSUME NEW t \in Threads, Add(t) PROVE CInv'
        BY <2>4, AddCInv
    <2>5. ASSUME NEW t \in Threads, ReadPeak(t) PROVE CInv'
        BY <2>5, ReadPeakCInv
    <2>6. ASSUME NEW t \in Threads, Swap(t) PROVE CInv'
        BY <2>6, SwapCInv
    <2>7. ASSUME NEW t \in Threads, FreeFunc(t) PROVE CInv'
        BY <2>7, FreeFuncCInv
    <2>8. ASSUME NEW t \in Threads, Fail(t) PROVE CInv'
        BY <2>8, FailCInv
    <2> QED BY <1>2, <2>1, <2>2, <2>3, <2>4, <2>5, <2>6, <2>7, <2>8 DEF Next, Step
<1> QED BY <1>1, <1>2

\* Between calls nothing is counted in one place only.
LEMMA QuietAccounts == CInv => CurrentExact
<1> SUFFICES ASSUME CInv, Quiet
             PROVE  /\ \A counter \in {memory_current, memory_total, num_allocs} :
                          counter[Pipeline] = Total(Funcs, counter)
                    /\ \A f \in Funcs : memory_current[f] >= LiveBytes(f)
                    /\ failures = 0 => \A f \in Funcs : memory_current[f] = LiveBytes(f)
    BY DEF CurrentExact, CInv
<1>1. \A t \in Threads : /\ AddShare(call[t]) = 0 /\ MakeShare(call[t]) = 0
                         /\ FreeShare(call[t]) = 0
                         /\ \A f : FuncShare(call[t], f) = 0
    BY NoShare DEF Quiet, At
<1>2. Total(Threads, Adding) = 0 /\ Total(Threads, Making) = 0 /\ Total(Threads, Freeing) = 0
    BY <1>1, TotalZero DEF Adding, Making, Freeing
<1>3. ASSUME NEW f \in Funcs PROVE Total(Threads, Owed(f)) = LiveBytes(f)
    <2> DEFINE g == [t \in Threads |-> live[t][f]]
    <2>1. \A t \in Threads : live[t][f] \in Nat
        BY DEF CInv, TypeOK
    <2>2. \A t \in Threads : Owed(f)[t] = g[t]
        BY <1>1, <2>1 DEF Owed
    <2> HIDE DEF g
    <2>3. Total(Threads, Owed(f)) = Total(Threads, g)
        BY <2>2, TotalSame
    <2> QED BY <2>3 DEF g, LiveBytes
<1>4. /\ memory_current \in [Counters -> Nat] /\ memory_total \in [Counters -> Nat]
      /\ num_allocs \in [Counters -> Nat]
    BY DEF CInv, TypeOK
<1>5. /\ Total(Funcs, memory_current) \in Nat /\ Total(Funcs, memory_total) \in Nat
      /\ Total(Funcs, num_allocs) \in Nat
    <2>1. \A f \in Funcs : /\ memory_current[f] \in Nat /\ memory_total[f] \in Nat
                           /\ num_allocs[f] \in Nat
        BY <1>4 DEF Counters
    <2> QED BY <2>1, Finite, UnitsFinite
<1>6. memory_current[Pipeline] \in Nat
    BY <1>4 DEF Counters
<1> QED BY <1>2, <1>3, <1>5, <1>6 DEF CInv, Accounts

\* The statistics of memory are right whatever calls overlap: no counter goes
\* below zero (a free only takes what its thread has added before), and when
\* no call is under way a pipeline has the sums of its Funcs and, unless some
\* thread failed, exactly the bytes that are allocated.
THEOREM CountersCorrect == Spec => []CurrentExact
<1>1. Init => CInv
    BY InitCInv
<1>2. CInv /\ [Next]_vars => CInv'
    BY NextCInv
<1>3. CInv => CurrentExact
    BY QuietAccounts
<1> QED BY <1>1, <1>2, <1>3, PTL DEF Spec

=============================================================================
