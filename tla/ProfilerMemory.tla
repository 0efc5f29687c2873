--------------------------- MODULE ProfilerMemory ---------------------------
(***************************************************************************)
(* The memory statistics of a profiled pipeline: the calls                 *)
(* halide_profiler_memory_allocate, halide_profiler_memory_free and        *)
(* halide_profiler_stack_peak_update of src/runtime/profiler.cpp, which    *)
(* the threads of a pipeline make at any time and without a lock, around   *)
(* the allocations that src/Profiling.cpp finds.                           *)
(*                                                                         *)
(* Each atomic operation that another thread can tell apart is a step.     *)
(* num_allocs and memory_total are only printed: they change together with *)
(* the memory_current that is updated next.  halide_profiler_reset, which  *)
(* must not be called while a pipeline runs, is in Profiler.               *)
(***************************************************************************)
EXTENDS Integers, FiniteSets

CONSTANTS
    Threads,
    Funcs,
    Pipeline,           \* stands for the statistics of the whole pipeline
    Sizes,              \* sizes of allocations, 0 if a condition is false
    StackBytes,         \* stack space of each Func, known when it is compiled
    MaxAllocs,          \* bound: allocations
    MaxFailures         \* bound: threads that fail

ASSUME MemoryAssumption ==
    /\ IsFiniteSet(Threads) /\ IsFiniteSet(Funcs)
    /\ Pipeline \notin Funcs
    /\ Sizes \subseteq Nat /\ StackBytes \in [Funcs -> Nat]
    /\ MaxAllocs \in Nat /\ MaxFailures \in Nat

Counters == Funcs \cup {Pipeline}

\* The words that hold a maximum.
Peaks == ({"memory_peak"} \X Counters) \cup ({"stack_peak"} \X Funcs)

VARIABLES
    memory_current, memory_total, num_allocs,   \* of the pipeline and its Funcs
    peak,               \* memory_peak and stack_peak
    call,               \* the call each thread is in
    live,               \* bytes each thread has allocated for each Func
    high,               \* history: the largest value ever due to a peak
    failures            \* history: threads that failed so far

vars == <<memory_current, memory_total, num_allocs, peak, call, live, high, failures>>
counts == <<memory_current, memory_total, num_allocs>>

\* pc: what the thread does next; func and bytes: the arguments; at: the peak
\* that sync_compare_max_and_swap works on; val and old_val: its variables.
CallPC == {"idle", "add", "read", "swap", "sub"}
Calls == [pc : CallPC, func : Counters, bytes : Nat, at : Peaks, val : Nat, old_val : Nat]
NoCall == [pc |-> "idle", func |-> Pipeline, bytes |-> 0, at |-> <<"memory_peak", Pipeline>>,
           val |-> 0, old_val |-> 0]

TypeOK ==
    /\ memory_current \in [Counters -> Nat]
    /\ memory_total \in [Counters -> Nat]
    /\ num_allocs \in [Counters -> Nat]
    /\ peak \in [Peaks -> Nat]
    /\ call \in [Threads -> Calls]
    /\ live \in [Threads -> [Funcs -> Nat]]
    /\ high \in [Peaks -> Nat]
    /\ failures \in 0 .. MaxFailures

Init ==
    /\ memory_current = [c \in Counters |-> 0]
    /\ memory_total = [c \in Counters |-> 0]
    /\ num_allocs = [c \in Counters |-> 0]
    /\ peak = [w \in Peaks |-> 0]
    /\ call = [t \in Threads |-> NoCall]
    /\ live = [t \in Threads |-> [f \in Funcs |-> 0]]
    /\ high = [w \in Peaks |-> 0]
    /\ failures = 0

At(t, pc) == call[t].pc = pc
Larger(a, b) == IF a > b THEN a ELSE b
IsHigh(w, val) == high' = [high EXCEPT ![w] = Larger(@, val)]

-----------------------------------------------------------------------------
(***************************************************************************)
(* Operators named Bad... are not part of the model: each is the operator  *)
(* after it with a plausible mistake, used to test that the properties     *)
(* notice the mistake.                                                     *)
(***************************************************************************)

(***************************************************************************)
(* halide_profiler_memory_allocate: the counters of the pipeline, then     *)
(* those of the Func.  A thread has one allocation of a Func at a time.    *)
(***************************************************************************)
halide_profiler_memory_allocate(t, f, incr) ==
    /\ At(t, "idle") /\ live[t][f] = 0 /\ incr # 0 /\ num_allocs[Pipeline] < MaxAllocs
    /\ call' = [call EXCEPT ![t] = [NoCall EXCEPT !.pc = "add", !.func = f, !.bytes = incr]]
    /\ UNCHANGED <<counts, peak, live, high, failures>>

\* The result of __sync_add_and_fetch.
AddAndFetch(c, bytes) == memory_current[c] + bytes

\* Three atomic additions; nothing reads the results of the first two, so
\* they are one step with the third.
Add(t) ==
    LET c == call[t].at[2]
        n == call[t].bytes
    IN  /\ At(t, "add")
        /\ num_allocs' = [num_allocs EXCEPT ![c] = @ + 1]
        /\ memory_total' = [memory_total EXCEPT ![c] = @ + n]
        /\ memory_current' = [memory_current EXCEPT ![c] = @ + n]
        /\ call' = [call EXCEPT ![t].pc = "read", ![t].val = AddAndFetch(c, n)]
        /\ IsHigh(call[t].at, memory_current'[c])
        /\ UNCHANGED <<peak, live, failures>>

(***************************************************************************)
(* halide_profiler_stack_peak_update, for one Func: the loop of the code   *)
(* updates one word after the other.                                       *)
(***************************************************************************)
halide_profiler_stack_peak_update(t, f) ==
    LET w == <<"stack_peak", f>>
    IN  /\ At(t, "idle") /\ StackBytes[f] # 0
        /\ call' = [call EXCEPT ![t] = [NoCall EXCEPT !.pc = "read", !.func = f,
                                                      !.at = w, !.val = StackBytes[f]]]
        /\ IsHigh(w, StackBytes[f])
        /\ UNCHANGED <<counts, peak, live, failures>>

-----------------------------------------------------------------------------
(***************************************************************************)
(* sync_compare_max_and_swap.                                              *)
(***************************************************************************)
\* What a thread does after it: the counters of the Func follow those of the
\* pipeline.
Done(c) ==
    IF c.at = <<"memory_peak", Pipeline>>
    THEN [c EXCEPT !.pc = "add", !.at = <<"memory_peak", c.func>>, !.val = 0, !.old_val = 0]
    ELSE NoCall

\* The condition of the loop, for the value old that was read.
Loop(c, old) == IF c.val > old THEN [c EXCEPT !.pc = "swap", !.old_val = old] ELSE Done(c)

\* The last step of memory_allocate lets the thread use the memory.
Allocated(t) ==
    live' = IF call[t].at = <<"memory_peak", call[t].func>> /\ call'[t].pc = "idle"
            THEN [live EXCEPT ![t][call[t].func] = call[t].bytes]
            ELSE live

ReadPeak(t) ==
    /\ At(t, "read")
    /\ call' = [call EXCEPT ![t] = Loop(@, peak[@.at])]
    /\ Allocated(t)
    /\ UNCHANGED <<counts, peak, high, failures>>

BadSwaps(c) == TRUE

\* Does __sync_val_compare_and_swap succeed?
Swaps(c) == peak[c.at] = c.old_val

BadAfterSwap(c) == c

\* After a swap that failed, old_val is what it found instead.
AfterSwap(c) == Loop(c, peak[c.at])

Swap(t) ==
    /\ At(t, "swap")
    /\ \/ /\ Swaps(call[t])
          /\ peak' = [peak EXCEPT ![call[t].at] = call[t].val]
          /\ call' = [call EXCEPT ![t] = Done(@)]
       \/ /\ ~Swaps(call[t])
          /\ call' = [call EXCEPT ![t] = AfterSwap(@)]
          /\ UNCHANGED peak
    /\ Allocated(t)
    /\ UNCHANGED <<counts, high, failures>>

-----------------------------------------------------------------------------
(***************************************************************************)
(* halide_profiler_memory_free: the pipeline, then the Func.               *)
(***************************************************************************)
halide_profiler_memory_free(t, f) ==
    /\ At(t, "idle") /\ live[t][f] # 0
    /\ memory_current' = [memory_current EXCEPT ![Pipeline] = @ - live[t][f]]
    /\ call' = [call EXCEPT ![t] = [NoCall EXCEPT !.pc = "sub", !.func = f, !.bytes = live[t][f]]]
    /\ live' = [live EXCEPT ![t][f] = 0]
    /\ UNCHANGED <<memory_total, num_allocs, peak, high, failures>>

BadSubtracted(c) == 0
Subtracted(c) == c.bytes

FreeFunc(t) ==
    /\ At(t, "sub")
    /\ memory_current' = [memory_current EXCEPT ![call[t].func] = @ - Subtracted(call[t])]
    /\ call' = [call EXCEPT ![t] = NoCall]
    /\ UNCHANGED <<memory_total, num_allocs, peak, live, high, failures>>

\* The pipeline fails: destructors free the memory of the thread, but nothing
\* calls halide_profiler_memory_free.
Fail(t) ==
    /\ At(t, "idle") /\ failures < MaxFailures /\ \E f \in Funcs : live[t][f] # 0
    /\ live' = [live EXCEPT ![t] = [f \in Funcs |-> 0]]
    /\ failures' = failures + 1
    /\ UNCHANGED <<counts, peak, call, high>>

Step(t) == Add(t) \/ ReadPeak(t) \/ Swap(t) \/ FreeFunc(t)

Next ==
    \E t \in Threads :
        \/ \E f \in Funcs, n \in Sizes : halide_profiler_memory_allocate(t, f, n)
        \/ \E f \in Funcs : halide_profiler_stack_peak_update(t, f)
        \/ \E f \in Funcs : halide_profiler_memory_free(t, f)
        \/ Step(t)
        \/ Fail(t)

Spec == Init /\ [][Next]_vars

\* A thread that is in a call goes on.
FairSpec == Spec /\ \A t \in Threads : WF_vars(Step(t))

-----------------------------------------------------------------------------
(***************************************************************************)
(* Properties.                                                             *)
(***************************************************************************)

\* A peak is never more than a value that was really reached, and whoever
\* reached the highest value is still on the way to record it if it is not
\* recorded: concurrent updates lose no peak.
PeakExact ==
    \A w \in Peaks :
        /\ peak[w] <= high[w]
        /\ \/ peak[w] = high[w]
           \/ \E t \in Threads : call[t].pc \in {"read", "swap"} /\ call[t].at = w
                                 /\ call[t].val = high[w]

\* The sum of g over a set S, counted in units.
Units(S, g) == UNION {{x} \X (1 .. g[x]) : x \in S}
Total(S, g) == Cardinality(Units(S, g))

LiveBytes(f) == Total(Threads, [t \in Threads |-> live[t][f]])
Quiet == \A t \in Threads : At(t, "idle")

\* No counter, unsigned in the code, goes below zero, although a free may pass
\* allocations that are under way.  When no call is under way the statistics
\* of the pipeline are the sums of those of its Funcs, and unless a pipeline
\* failed memory_current is what the threads have allocated; after a failure
\* it can only be more.
CurrentExact ==
    /\ TypeOK
    /\ Quiet =>
         /\ \A counter \in {memory_current, memory_total, num_allocs} :
               counter[Pipeline] = Total(Funcs, counter)
         /\ \A f \in Funcs : memory_current[f] >= LiveBytes(f)
         /\ failures = 0 => \A f \in Funcs : memory_current[f] = LiveBytes(f)

\* Every call ends: a thread that loses the race for a peak retries only as
\* long as it has a larger value.
CallsEnd == \A t \in Threads : ~At(t, "idle") ~> At(t, "idle")

=============================================================================
