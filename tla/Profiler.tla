------------------------------ MODULE Profiler ------------------------------
(***************************************************************************)
(* The sampling profiler: src/runtime/profiler.cpp and                     *)
(* profiler_inlined.cpp, driven by the calls that src/Profiling.cpp        *)
(* injects into a pipeline and, for a loop on a DSP, by halide_hexagon_run *)
(* of hexagon_host.cpp.                                                    *)
(*                                                                         *)
(* halide_profiler_state::lock is held across steps only by the sampling   *)
(* thread; every other critical section touches nothing that is written    *)
(* without the lock, so it is one step.  current_func, active_threads and  *)
(* get_remote_profiler_state are written without the lock.                 *)
(*                                                                         *)
(* Times and the printed report are left out: what is kept of a sample is  *)
(* which Func it was billed to.  The memory counters, which share nothing  *)
(* with this, are in ProfilerMemory.                                       *)
(***************************************************************************)
EXTENDS Integers, FiniteSets, SequencesExt

CONSTANTS
    Threads,            \* threads of the application that run pipelines
    Pipelines,          \* names of pipelines
    NumFuncs,           \* number of Funcs of each, the overhead included
    MayFail,            \* what may fail, out of Failures
    RemotePolling,      \* does the DSP's library export its profiler state
    MaxTasks,           \* bound: tasks of a parallel loop that run at once
    MaxFailures         \* bound: pipelines and tasks that fail

Failures == {"malloc", "body", "task", "remote"}
outside_of_halide == -1
please_stop == -2

ASSUME ProfilerAssumption ==
    /\ IsFiniteSet(Threads) /\ IsFiniteSet(Pipelines) /\ Pipelines # {}
    /\ NumFuncs \in [Pipelines -> Nat \ {0}]
    /\ MayFail \subseteq Failures
    /\ RemotePolling \in BOOLEAN
    /\ MaxTasks \in Nat \ {0}
    /\ MaxFailures \in Nat

VARIABLES
    started, current_func, active_threads, first_free_id,
    pipelines,          \* the linked list of halide_profiler_pipeline_stats
    first_func_id,      \* of the pipelines in it
    billed,             \* the Func that the last sample was billed to
    polling,            \* is get_remote_profiler_state not NULL
    sampler,            \* where the sampling thread is
    run,                \* the pipeline each thread runs, and where it is
    stopping,           \* is halide_profiler_shutdown waiting for the sampler
    failures            \* history: pipelines and tasks that failed so far

vars == <<started, current_func, active_threads, first_free_id, pipelines, first_func_id,
          billed, polling, sampler, run, stopping, failures>>
state == <<started, first_free_id, pipelines, first_func_id, billed, sampler>>

FuncsOf(p) == 0 .. NumFuncs[p] - 1
SamplerPC == {"none", "spawned", "outer", "inner", "asleep"}
RunPC == {"idle", "starting", "entering", "body", "loop", "remote", "ending"}
NoId == 0                \* first_func_id of a pipeline that is not listed
Nobody == <<>>
NewRun(p) == [pc |-> "starting", pipe |-> p, tok |-> 0, tasks |-> 0, failed |-> FALSE]
Idle == [NewRun(CHOOSE p \in Pipelines : TRUE) EXCEPT !.pc = "idle"]

TypeOK ==
    /\ started \in BOOLEAN
    /\ current_func \in Int
    /\ active_threads \in Nat
    /\ first_free_id \in Nat
    /\ pipelines \in Seq(Pipelines)
    /\ first_func_id \in [Pipelines -> Nat]
    /\ billed = Nobody \/ \E p \in Pipelines : \E f \in FuncsOf(p) : billed = <<p, f>>
    /\ polling \in BOOLEAN
    /\ sampler \in SamplerPC
    /\ run \in [Threads -> [pc : RunPC, pipe : Pipelines, tok : Nat,
                            tasks : 0 .. MaxTasks, failed : BOOLEAN]]
    /\ stopping \in BOOLEAN
    /\ failures \in 0 .. MaxFailures

Locked == sampler \in {"outer", "inner"}
Listed == Range(pipelines)
Quiet == \A t \in Threads : run[t].pc = "idle"
At(t, pc) == run[t].pc = pc
Go(t, pc) == run' = [run EXCEPT ![t].pc = pc]

(***************************************************************************)
(* Operators named Bad... are not part of the model: each is the operator  *)
(* after it with a plausible mistake, used to test that the properties     *)
(* notice the mistake.                                                     *)
(***************************************************************************)
BadIds(p, n) == n .. n + NumFuncs[p] - 2

\* The Func ids of a pipeline whose ids start at n.
Ids(p, n) == n .. n + NumFuncs[p] - 1

Init ==
    /\ started = FALSE
    /\ current_func = 0
    /\ active_threads = 0
    /\ first_free_id = 1
    /\ pipelines = <<>>
    /\ first_func_id = [p \in Pipelines |-> NoId]
    /\ billed = Nobody
    /\ polling = FALSE
    /\ sampler = "none"
    /\ run = [t \in Threads |-> Idle]
    /\ stopping = FALSE
    /\ failures = 0

-----------------------------------------------------------------------------
(***************************************************************************)
(* A pipeline, as inject_profiling leaves it.  The destructor that calls   *)
(* halide_profiler_pipeline_end is registered first, so a failure at any   *)
(* later point goes to "ending".                                           *)
(***************************************************************************)
Begin(t, p) ==
    /\ At(t, "idle") /\ ~stopping
    /\ run' = [run EXCEPT ![t] = NewRun(p)]
    /\ UNCHANGED <<state, current_func, active_threads, polling, stopping, failures>>

\* halide_spawn_thread, unless the sampling thread is running.
Spawned == IF started THEN sampler ELSE "spawned"

\* What find_or_create_pipeline takes for a pipeline that is not listed yet.
NextFreeId(p) == first_free_id + NumFuncs[p]

halide_profiler_pipeline_start(t) ==
    LET p == run[t].pipe IN
    /\ At(t, "starting") /\ ~Locked
    /\ started' = TRUE
    /\ sampler' = Spawned
    /\ \/ /\ p \in Listed
          /\ run' = [run EXCEPT ![t].pc = "entering", ![t].tok = first_func_id[p]]
          /\ UNCHANGED <<pipelines, first_func_id, first_free_id>>
       \/ /\ p \notin Listed
          /\ pipelines' = <<p>> \o pipelines
          /\ first_func_id' = [first_func_id EXCEPT ![p] = first_free_id]
          /\ first_free_id' = NextFreeId(p)
          /\ run' = [run EXCEPT ![t].pc = "entering", ![t].tok = first_free_id]
       \/ /\ p \notin Listed /\ "malloc" \in MayFail
          /\ Go(t, "ending")
          /\ UNCHANGED <<pipelines, first_func_id, first_free_id>>
    /\ UNCHANGED <<billed, current_func, active_threads, polling, stopping, failures>>

incr_active_threads == active_threads' = active_threads + 1
Baddecr_active_threads == UNCHANGED active_threads
decr_active_threads == active_threads' = active_threads - 1

\* halide_profiler_get_pipeline_state reads the list under the lock, for the
\* calls of ProfilerMemory; then the body starts.
Enter(t) ==
    /\ At(t, "entering") /\ ~Locked
    /\ Go(t, "body")
    /\ incr_active_threads
    /\ UNCHANGED <<state, current_func, polling, stopping, failures>>

\* At the start of a produce or consume step, by the thread or by its tasks.
halide_profiler_set_current_func(t, f) ==
    /\ At(t, "body") \/ run[t].tasks > 0
    /\ current_func' = run[t].tok + f
    /\ UNCHANGED <<state, active_threads, polling, run, stopping, failures>>

Leave(t) ==
    /\ At(t, "body")
    /\ Go(t, "ending")
    /\ decr_active_threads
    /\ UNCHANGED <<state, current_func, polling, stopping, failures>>

\* An assertion fails, an allocation or a call returns an error: the code
\* jumps to the destructors and the rest of the pipeline is skipped.
Fail(t) ==
    /\ At(t, "body") /\ "body" \in MayFail /\ failures < MaxFailures
    /\ Go(t, "ending")
    /\ failures' = failures + 1
    /\ UNCHANGED <<state, current_func, active_threads, polling, stopping>>

BadFuncAtEnd == current_func
FuncAtEnd == outside_of_halide

halide_profiler_pipeline_end(t) ==
    /\ At(t, "ending")
    /\ run' = [run EXCEPT ![t] = Idle]
    /\ current_func' = FuncAtEnd
    /\ UNCHANGED <<state, active_threads, polling, stopping, failures>>

-----------------------------------------------------------------------------
(***************************************************************************)
(* A parallel loop: the thread that runs it does not count as active, each *)
(* of its tasks does.  The thread pool goes on handing out tasks after one *)
(* failed, and the loop fails when the last task is done.                  *)
(***************************************************************************)
LoopEnter(t) ==
    /\ At(t, "body")
    /\ Go(t, "loop")
    /\ decr_active_threads
    /\ UNCHANGED <<state, current_func, polling, stopping, failures>>

TaskBegin(t) ==
    /\ At(t, "loop") /\ run[t].tasks < MaxTasks
    /\ run' = [run EXCEPT ![t].tasks = @ + 1]
    /\ incr_active_threads
    /\ UNCHANGED <<state, current_func, polling, stopping, failures>>

TaskEnd(t) ==
    /\ run[t].tasks > 0
    /\ run' = [run EXCEPT ![t].tasks = @ - 1]
    /\ decr_active_threads
    /\ UNCHANGED <<state, current_func, polling, stopping, failures>>

TaskFail(t) ==
    /\ run[t].tasks > 0 /\ "task" \in MayFail /\ failures < MaxFailures
    /\ run' = [run EXCEPT ![t].tasks = @ - 1, ![t].failed = TRUE]
    /\ failures' = failures + 1
    /\ UNCHANGED <<state, current_func, active_threads, polling, stopping>>

LoopExit(t) ==
    /\ At(t, "loop") /\ run[t].tasks = 0 /\ ~run[t].failed
    /\ Go(t, "body")
    /\ incr_active_threads
    /\ UNCHANGED <<state, current_func, polling, stopping, failures>>

LoopFailed(t) ==
    /\ At(t, "loop") /\ run[t].tasks = 0 /\ run[t].failed
    /\ Go(t, "ending")
    /\ UNCHANGED <<state, current_func, active_threads, polling, stopping, failures>>

-----------------------------------------------------------------------------
(***************************************************************************)
(* A loop on the DSP.  The kernels set current_func of a profiler state on *)
(* the DSP, which keeps the id that the last kernel left there.            *)
(***************************************************************************)
RemoteEnter(t) ==
    /\ At(t, "body")
    /\ Go(t, "remote")
    /\ decr_active_threads
    /\ polling' = (polling \/ RemotePolling)
    /\ UNCHANGED <<state, current_func, stopping, failures>>

RemoteExit(t) ==
    /\ At(t, "remote")
    /\ Go(t, "body")
    /\ polling' = FALSE
    /\ incr_active_threads
    /\ UNCHANGED <<state, current_func, stopping, failures>>

\* halide_hexagon_run returns the error before it clears the pointer.
RemoteFail(t) ==
    /\ At(t, "remote") /\ "remote" \in MayFail /\ failures < MaxFailures
    /\ Go(t, "ending")
    /\ failures' = failures + 1
    /\ UNCHANGED <<state, current_func, active_threads, polling, stopping>>

-----------------------------------------------------------------------------
(***************************************************************************)
(* The sampling thread.                                                    *)
(***************************************************************************)
Unsampled == <<current_func, active_threads, first_free_id, first_func_id, polling,
               run, stopping, failures>>

SamplerStart ==
    /\ sampler = "spawned"
    /\ sampler' = "outer"
    /\ UNCHANGED <<started, pipelines, billed, Unsampled>>

\* The condition of the outer loop, and what follows the loop.
SamplerContinue ==
    /\ sampler = "outer" /\ current_func # please_stop
    /\ sampler' = "inner"
    /\ UNCHANGED <<started, pipelines, billed, Unsampled>>

BadStartedAtExit == TRUE
StartedAtExit == FALSE

SamplerExit ==
    /\ sampler = "outer" /\ current_func = please_stop
    /\ sampler' = "none"
    /\ started' = StartedAtExit
    /\ UNCHANGED <<pipelines, billed, Unsampled>>

\* The ids a sample may find: on the DSP, any id a kernel once set there.
SampledFuncs == IF polling THEN 0 .. first_free_id ELSE {current_func}

\* The positions in the list of a pipeline that func is one of.
Owners(func) == {i \in DOMAIN pipelines :
                    func \in Ids(pipelines[i], first_func_id[pipelines[i]])}

BadBubbled(i) == <<pipelines[i]>> \o pipelines

\* Bubble the pipeline at position i to the top of the list.
Bubbled(i) == <<pipelines[i]>> \o RemoveAt(pipelines, i)

\* Nothing is billed when the id belongs to nobody.
bill_func(func) ==
    \/ /\ Owners(func) = {}
       /\ billed' = Nobody
       /\ UNCHANGED pipelines
    \/ \E i \in Owners(func) :
          /\ \A j \in Owners(func) : i <= j
          /\ pipelines' = Bubbled(i)
          /\ billed' = <<pipelines[i], func - first_func_id[pipelines[i]]>>

BadAfterSample == "inner"
AfterSample == "asleep"

\* Take a sample, release the lock and sleep.
SamplerSample ==
    /\ sampler = "inner"
    /\ \E func \in SampledFuncs \ {please_stop} :
          \/ func >= 0 /\ bill_func(func)
          \/ func < 0 /\ billed' = Nobody /\ UNCHANGED pipelines
    /\ sampler' = AfterSample
    /\ UNCHANGED <<started, Unsampled>>

SamplerBreak ==
    /\ sampler = "inner" /\ please_stop \in SampledFuncs
    /\ sampler' = "outer"
    /\ UNCHANGED <<started, pipelines, billed, Unsampled>>

SamplerWake ==
    /\ sampler = "asleep"
    /\ sampler' = "inner"
    /\ UNCHANGED <<started, pipelines, billed, Unsampled>>

SamplerStep ==
    SamplerStart \/ SamplerContinue \/ SamplerExit \/ SamplerSample \/ SamplerBreak \/ SamplerWake

-----------------------------------------------------------------------------
(***************************************************************************)
(* The calls of the application: not while a pipeline is running.          *)
(***************************************************************************)
halide_profiler_reset ==
    /\ Quiet /\ ~Locked
    /\ pipelines' = <<>>
    /\ first_func_id' = [p \in Pipelines |-> NoId]
    /\ first_free_id' = 0
    /\ billed' = Nobody
    /\ UNCHANGED <<started, sampler, current_func, active_threads, polling,
                   run, stopping, failures>>

\* The first half of halide_profiler_shutdown, which then spins.
halide_profiler_shutdown ==
    /\ Quiet /\ ~stopping /\ started
    /\ stopping' = TRUE
    /\ current_func' = please_stop
    /\ UNCHANGED <<state, active_threads, polling, run, failures>>

\* The second half: started is FALSE.  The report follows, without the lock.
ShutdownReturn ==
    /\ stopping /\ ~started
    /\ stopping' = FALSE
    /\ current_func' = outside_of_halide
    /\ UNCHANGED <<state, active_threads, polling, run, failures>>

Thread(t) ==
    \/ \E p \in Pipelines : Begin(t, p)
    \/ halide_profiler_pipeline_start(t)
    \/ Enter(t)
    \/ \E f \in FuncsOf(run[t].pipe) : halide_profiler_set_current_func(t, f)
    \/ Leave(t)
    \/ Fail(t)
    \/ halide_profiler_pipeline_end(t)
    \/ LoopEnter(t)
    \/ TaskBegin(t)
    \/ TaskEnd(t)
    \/ TaskFail(t)
    \/ LoopExit(t)
    \/ LoopFailed(t)
    \/ RemoteEnter(t)
    \/ RemoteExit(t)
    \/ RemoteFail(t)

Next ==
    \/ \E t \in Threads : Thread(t)
    \/ SamplerStep
    \/ halide_profiler_reset
    \/ halide_profiler_shutdown
    \/ ShutdownReturn

Spec == Init /\ [][Next]_vars

(***************************************************************************)
(* The sampling thread is scheduled, the destructor that spins too, and a  *)
(* thread that waits for the mutex gets it when it is free often enough.   *)
(* Nothing makes a pipeline go on.                                         *)
(***************************************************************************)
FairSpec ==
    /\ Spec
    /\ WF_vars(SamplerStep)
    /\ WF_vars(ShutdownReturn)
    /\ \A t \in Threads : SF_vars(halide_profiler_pipeline_start(t))

-----------------------------------------------------------------------------
(***************************************************************************)
(* Properties.                                                             *)
(***************************************************************************)

\* find_or_create_pipeline and bill_func, which reorders the list, keep each
\* pipeline in it once, and two of them never share an id: a sample can be
\* billed to one Func only.
ListExact ==
    /\ IsInjective(pipelines)
    /\ \A p \in Listed : \A i \in Ids(p, first_func_id[p]) : i < first_free_id
    /\ \A p, q \in Listed :
          p # q => Ids(p, first_func_id[p]) \cap Ids(q, first_func_id[q]) = {}

Running(t) == run[t].pc \notin {"idle", "starting", "ending"}

\* A pipeline that got past halide_profiler_pipeline_start uses the ids under
\* which it is listed, and has a sampling thread, although that thread stops
\* and starts on its own account; started tells whether it is there.
RunningIsSampled ==
    /\ \A t \in Threads : Running(t) =>
          /\ run[t].pipe \in Listed
          /\ run[t].tok = first_func_id[run[t].pipe]
          /\ sampler # "none"
    /\ started = (sampler # "none")

\* The state that the sampling thread, which runs at its own pace, shares with
\* the pipelines fits together at all times.
StateValid == TypeOK /\ ListExact /\ RunningIsSampled

\* Threads that do work, of the pipelines and of their parallel loops.
Working == Cardinality({t \in Threads : At(t, "body")})
           + Cardinality({c \in Threads \X (1 .. MaxTasks) : c[2] <= run[c[1]].tasks})

\* active_threads, which is added to and subtracted from all over a pipeline,
\* is the number of threads at work as long as nothing failed.  A failure
\* skips a decrement and never an increment: the counter can only be high, by
\* no more than the number of failures.
ActiveThreadsCounted == active_threads \in Working .. Working + failures

BillsRunning ==
    billed' # billed =>
       \/ billed' = Nobody \/ polling
       \/ \E t \in Threads : run[t].pc \notin {"idle", "starting"} /\ run[t].pipe = billed'[1]

\* A sample taken on the host is billed to a pipeline that runs now: an ended
\* pipeline, or one whose ids were given away by halide_profiler_reset, gets
\* nothing.
BillsTheRunning == [][BillsRunning]_vars

\* halide_profiler_shutdown, which spins until the sampling thread is gone,
\* returns, unless a failed run on the DSP left the sampler polling the DSP.
ShutdownEnds == (stopping /\ ~polling) ~> ~stopping

\* Nobody waits forever in halide_profiler_pipeline_start: the sampling
\* thread sleeps without the lock.
StartReturns == \A t \in Threads : At(t, "starting") ~> ~At(t, "starting")

IsCurrent(p, f) == p \in Listed /\ ~polling /\ current_func = first_func_id[p] + f

\* While Funcs run on the host without an end, again and again a sample is
\* billed to the very Func that is running.
RunningIsBilled ==
    <>[](\E p \in Pipelines : \E f \in FuncsOf(p) : IsCurrent(p, f))
    => []<>(\E p \in Pipelines : \E f \in FuncsOf(p) : IsCurrent(p, f) /\ billed = <<p, f>>)

=============================================================================
