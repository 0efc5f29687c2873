----------------------------- MODULE ThreadPool -----------------------------
(***************************************************************************)
(* The default thread pool of the runtime: src/runtime/                    *)
(* thread_pool_common.h on the primitives of posix_threads.cpp.            *)
(*                                                                         *)
(* Client threads call halide_do_par_for; a task may call it again (nested *)
(* parallelism).  Each call puts a job, a variable of the caller's stack   *)
(* frame, on the work queue's linked list and stays in                     *)
(* worker_thread_already_locked until the job is complete; the pool's      *)
(* worker threads stay in it until shutdown.  The code between acquiring   *)
(* the queue's mutex and reaching the head of that loop, and between the   *)
(* loop head and releasing the mutex, is one action each.                  *)
(*                                                                         *)
(* A job is named by the number of the call that made it, 0 is NULL.  A    *)
(* frame of worker_thread_already_locked is named by the job it owns, 0    *)
(* for the outermost frame of a worker; top[t] is the innermost frame of   *)
(* thread t and work[j].parent the frame below the one that owns j.        *)
(***************************************************************************)
EXTENDS Integers, FiniteSets

CONSTANTS
    Clients,         \* threads outside the pool that call into Halide
    NULL,            \* no thread
    MAX_THREADS,     \* size of work_queue_t::threads
    DefaultThreads,  \* HL_NUM_THREADS, or the number of CPUs of the host
    Requests,        \* arguments of halide_set_num_threads
    Sizes,           \* loop extents passed to halide_do_par_for
    MaxSize,         \* bound: the largest of them
    Results,         \* values a task returns; 0 is success
    MaxJobs          \* bound: calls of halide_do_par_for in a behaviour

Workers == 0..(MAX_THREADS - 1)
Threads == Clients \cup Workers
JobIds == 1..MaxJobs
JobOrNull == 0..MaxJobs
Indices == 0..(MaxSize - 1)

ASSUME PoolAssumption ==
    /\ IsFiniteSet(Clients)
    /\ Clients \cap Int = {}
    /\ NULL \notin Clients \cup Int
    /\ MAX_THREADS \in Nat \ {0}
    /\ DefaultThreads \in Int
    /\ Requests \subseteq Int
    /\ MaxSize \in Nat
    /\ Sizes \subseteq 0..MaxSize
    /\ Results \subseteq Int
    /\ 0 \in Results
    /\ MaxJobs \in Nat

VARIABLES
    mutex,                \* holder of work_queue.mutex, or NULL
    jobs,                 \* head of the list of jobs with tasks to hand out
    work,                 \* the work structs of the calls made so far
    made,                 \* number of calls made so far
    a_team_size,
    target_a_team_size,
    threads_created,
    desired_num_threads,
    shutdown,
    initialized,
    joined,               \* loop counter of halide_shutdown_thread_pool
    pc,                   \* where each thread is
    top,                  \* innermost frame of each thread
    run,                  \* run[t][f]: the task frame f of thread t executes
    task,                 \* history: progress of each task of each job
    returned              \* history: values the tasks of a job returned

queueVars == <<a_team_size, target_a_team_size, threads_created,
               desired_num_threads, shutdown, initialized>>
historyVars == <<task, returned>>
vars == <<mutex, jobs, work, made, queueVars, joined, pc, top, run, historyVars>>

Waits == {"wait_owners", "wait_a_team", "wait_b_team"}
Locations ==
    Waits \cup {"user", "loop", "task", "wake", "wake_b_team", "shut_lock",
                "shut_join", "none", "start", "exited"}

NoTask == [job |-> 0, idx |-> 0]
Unused == [live |-> FALSE, next |-> 0, max |-> 0, active_workers |-> 0,
           exit_status |-> 0, next_job |-> 0, owner |-> NULL, parent |-> 0,
           wanted |-> 0]

-----------------------------------------------------------------------------
(***************************************************************************)
(* Operators named Bad... are not part of the model: each is the operator  *)
(* after it with a plausible mistake, used to test that the properties     *)
(* notice the mistake.                                                     *)
(***************************************************************************)
\* work::running and the loop condition of worker_thread_already_locked.
BadRunning(j) == work[j].next < work[j].max
Running(j) == work[j].next < work[j].max \/ work[j].active_workers > 0

StaysInLoop(t) == IF top[t] # 0 THEN Running(top[t]) ELSE ~shutdown

Badclamp_num_threads(n) == IF n < 1 THEN 1 ELSE n
clamp_num_threads(n) ==
    IF n > MAX_THREADS THEN MAX_THREADS ELSE IF n < 1 THEN 1 ELSE n

\* halide_cond_broadcast: every thread waiting on one of the conditions has
\* to get the mutex back; one that left the A team rejoins it then.
Broadcast(where, conditions) ==
    [t \in Threads |-> IF where[t] \notin conditions THEN where[t]
                       ELSE IF where[t] = "wait_b_team" THEN "wake_b_team"
                       ELSE "wake"]

\* A thread may make a call: a client between calls, or any thread from
\* inside the task it is executing.  halide_shutdown_thread_pool is only
\* called while no client is inside Halide, and no call is made during it.
Callers ==
    {t \in Threads : \/ pc[t] = "task"
                     \/ /\ pc[t] = "user"
                        /\ \A c \in Clients : pc[c] \notin {"shut_lock", "shut_join"}}

Init ==
    /\ mutex = NULL
    /\ jobs = 0
    /\ work = [j \in JobIds |-> Unused]
    /\ made = 0
    /\ a_team_size = 0
    /\ target_a_team_size = 0
    /\ threads_created = 0
    /\ desired_num_threads = 0
    /\ shutdown = FALSE
    /\ initialized = FALSE
    /\ joined = 0
    /\ pc = [t \in Threads |-> IF t \in Clients THEN "user" ELSE "none"]
    /\ top = [t \in Threads |-> 0]
    /\ run = [t \in Threads |-> [f \in JobOrNull |-> NoTask]]
    /\ task = [j \in JobIds |-> [i \in Indices |-> "idle"]]
    /\ returned = [j \in JobIds |-> {}]

-----------------------------------------------------------------------------
(***************************************************************************)
(* default_do_par_for up to the loop head: initialise the queue and create *)
(* missing threads, make the job, push it, and wake the teams.  The range  *)
(* [min, min+size) of indices is shifted to [0, size).                     *)
(***************************************************************************)
\* The number of threads wanted, once the queue is initialised.
Wanted ==
    IF initialized THEN desired_num_threads
    ELSE clamp_num_threads(IF desired_num_threads = 0 THEN DefaultThreads
                           ELSE desired_num_threads)

TargetSize(head, n) == IF head = 0 /\ n < Wanted THEN n ELSE Wanted

\* "Everyone starts on the a team", on every initialisation of the queue.
BadTeamAtStart == IF a_team_size > 0 THEN a_team_size ELSE Wanted
TeamAtStart == IF initialized THEN a_team_size ELSE Wanted

ParFor(t, n) ==
    LET j == made + 1
        head == IF initialized THEN jobs ELSE 0
        created == IF initialized THEN threads_created ELSE 0
        team == TeamAtStart
        spawned == created..(Wanted - 2)
    IN  /\ mutex = NULL
        /\ t \in Callers
        /\ made < MaxJobs
        /\ mutex' = t
        /\ made' = j
        /\ initialized' = TRUE
        /\ shutdown' = (initialized /\ shutdown)
        /\ desired_num_threads' = Wanted
        /\ threads_created' = IF created < Wanted - 1 THEN Wanted - 1 ELSE created
        /\ a_team_size' = team
        /\ target_a_team_size' = TargetSize(head, n)
        /\ jobs' = j
        /\ work' = [work EXCEPT ![j] =
                       [live |-> TRUE, next |-> 0, max |-> n, active_workers |-> 0,
                        exit_status |-> 0, next_job |-> head, owner |-> t,
                        parent |-> top[t], wanted |-> Wanted]]
        /\ top' = [top EXCEPT ![t] = j]
        /\ LET conditions == {"wait_a_team"} \cup
                   (IF TargetSize(head, n) > team THEN {"wait_b_team"} ELSE {})
               woken == Broadcast(pc, conditions)
           IN  pc' = [s \in Threads |-> IF s = t THEN "loop"
                                        ELSE IF s \in spawned THEN "start"
                                        ELSE woken[s]]
        /\ UNCHANGED <<joined, run, historyVars>>

\* worker_thread: a thread the pool created gets the mutex and starts.
WorkerStart(t) ==
    /\ pc[t] = "start"
    /\ mutex = NULL
    /\ mutex' = t
    /\ pc' = [pc EXCEPT ![t] = "loop"]
    /\ UNCHANGED <<jobs, work, made, queueVars, joined, top, run, historyVars>>

-----------------------------------------------------------------------------
(***************************************************************************)
(* worker_thread_already_locked.                                           *)
(***************************************************************************)
AtLoopHead(t) == pc[t] = "loop" /\ mutex = t

\* The loop condition is false for a job owner: default_do_par_for unlocks
\* and returns, and the job on its stack frame is gone.
Return(t) ==
    LET j == top[t]
    IN  /\ AtLoopHead(t)
        /\ j # 0
        /\ ~StaysInLoop(t)
        /\ mutex' = NULL
        /\ work' = [work EXCEPT ![j].live = FALSE]
        /\ top' = [top EXCEPT ![t] = work[j].parent]
        /\ pc' = [pc EXCEPT ![t] = IF t \in Clients /\ work[j].parent = 0
                                   THEN "user" ELSE "task"]
        /\ UNCHANGED <<jobs, made, queueVars, joined, run, historyVars>>

\* The loop condition is false for a worker: worker_thread unlocks and ends.
WorkerExit(t) ==
    /\ AtLoopHead(t)
    /\ top[t] = 0
    /\ ~StaysInLoop(t)
    /\ mutex' = NULL
    /\ pc' = [pc EXCEPT ![t] = "exited"]
    /\ UNCHANGED <<jobs, work, made, queueVars, joined, top, run, historyVars>>

\* No jobs pending: wait for the last worker, for more jobs, or on the B team.
WaitOn(t, condition) ==
    /\ AtLoopHead(t)
    /\ StaysInLoop(t)
    /\ jobs = 0
    /\ mutex' = NULL
    /\ pc' = [pc EXCEPT ![t] = condition]
    /\ UNCHANGED <<jobs, work, made, target_a_team_size, threads_created,
                   desired_num_threads, shutdown, initialized, joined, top, run,
                   historyVars>>

WaitOwner(t) ==
    /\ top[t] # 0
    /\ WaitOn(t, "wait_owners")
    /\ UNCHANGED a_team_size

WaitATeam(t) ==
    /\ top[t] = 0
    /\ a_team_size <= target_a_team_size
    /\ WaitOn(t, "wait_a_team")
    /\ UNCHANGED a_team_size

WaitBTeam(t) ==
    /\ top[t] = 0
    /\ a_team_size > target_a_team_size
    /\ WaitOn(t, "wait_b_team")
    /\ a_team_size' = a_team_size - 1

TeamAfterWait(t) == IF pc[t] = "wake_b_team" THEN a_team_size + 1 ELSE a_team_size

\* halide_cond_wait returns: the mutex is held again, and a thread of the B
\* team is back in the A team.
Rejoin(t) ==
    /\ pc[t] \in {"wake", "wake_b_team"}
    /\ mutex = NULL
    /\ mutex' = t
    /\ pc' = [pc EXCEPT ![t] = "loop"]
    /\ a_team_size' = TeamAfterWait(t)
    /\ UNCHANGED <<jobs, work, made, target_a_team_size, threads_created,
                   desired_num_threads, shutdown, initialized, joined, top, run,
                   historyVars>>

\* pthread_cond_wait may return without a broadcast.
SpuriousWakeup(t) ==
    /\ pc[t] \in Waits
    /\ pc' = [pc EXCEPT ![t] = Broadcast(pc, {pc[t]})[t]]
    /\ UNCHANGED <<mutex, jobs, work, made, queueVars, joined, top, run, historyVars>>

\* The head of the list without its first job, if that has handed out its
\* last task.
BadHeadAfterClaim(j) == IF work[j].next = work[j].max THEN work[j].next_job ELSE jobs
HeadAfterClaim(j) == IF work[j].next + 1 = work[j].max THEN work[j].next_job ELSE jobs

Claimed(w) == [w EXCEPT !.next = @ + 1, !.active_workers = @ + 1]

ClaimTask(t) ==
    LET j == jobs
        i == work[j].next
    IN  /\ AtLoopHead(t)
        /\ StaysInLoop(t)
        /\ j # 0
        /\ jobs' = HeadAfterClaim(j)
        /\ work' = [work EXCEPT ![j] = Claimed(@)]
        /\ run' = [run EXCEPT ![t][top[t]] = [job |-> j, idx |-> i]]
        /\ task' = [task EXCEPT ![j][i] = "running"]
        /\ mutex' = NULL
        /\ pc' = [pc EXCEPT ![t] = "task"]
        /\ UNCHANGED <<made, queueVars, joined, top, returned>>

\* The failure that is remembered is the last one.
BadStatusAfter(status, r) == r
StatusAfter(status, r) == IF r # 0 THEN r ELSE status

\* The job is done and its owner is another frame, which may be asleep.
Completes(j) == work[j].next >= work[j].max /\ work[j].active_workers = 1
BadWakesOwners(t, j) == Completes(j) /\ top[t] = 0
WakesOwners(t, j) == Completes(j) /\ j # top[t]

\* The task returned r: relock, record a failure, leave the job, and wake the
\* owners if that completed a job of another frame.
FinishTask(t, r) ==
    LET j == run[t][top[t]].job
        i == run[t][top[t]].idx
        where == IF WakesOwners(t, j) THEN Broadcast(pc, {"wait_owners"}) ELSE pc
    IN  /\ pc[t] = "task"
        /\ mutex = NULL
        /\ mutex' = t
        /\ work' = [work EXCEPT ![j].exit_status = StatusAfter(@, r),
                                ![j].active_workers = @ - 1]
        /\ run' = [run EXCEPT ![t][top[t]] = NoTask]
        /\ task' = [task EXCEPT ![j][i] = "done"]
        /\ returned' = [returned EXCEPT ![j] = @ \cup {r}]
        /\ pc' = [where EXCEPT ![t] = "loop"]
        /\ UNCHANGED <<jobs, made, queueVars, joined, top>>

-----------------------------------------------------------------------------
(***************************************************************************)
(* halide_set_num_threads and halide_shutdown_thread_pool.                 *)
(***************************************************************************)
SetNumThreads(c, n) ==
    /\ pc[c] = "user"
    /\ c \in Callers
    /\ mutex = NULL
    /\ desired_num_threads' = clamp_num_threads(IF n = 0 THEN DefaultThreads ELSE n)
    /\ UNCHANGED <<mutex, jobs, work, made, a_team_size, target_a_team_size,
                   threads_created, shutdown, initialized, joined, pc, top, run,
                   historyVars>>

\* The unlocked test of initialized; nothing else happens if it fails.
ShutdownCall(c) ==
    /\ \A d \in Clients : pc[d] = "user"
    /\ initialized
    /\ pc' = [pc EXCEPT ![c] = "shut_lock"]
    /\ UNCHANGED <<mutex, jobs, work, made, queueVars, joined, top, run, historyVars>>

BadShutdownWakes == {"wait_owners", "wait_a_team"}
ShutdownWakes == {"wait_owners", "wait_a_team", "wait_b_team"}

ShutdownSignal(c) ==
    /\ pc[c] = "shut_lock"
    /\ mutex = NULL
    /\ shutdown' = TRUE
    /\ pc' = [Broadcast(pc, ShutdownWakes) EXCEPT ![c] = "shut_join"]
    /\ UNCHANGED <<mutex, jobs, work, made, a_team_size, target_a_team_size,
                   threads_created, desired_num_threads, initialized, joined, top,
                   run, historyVars>>

\* The test of the join loop.
BadMoreToJoin == joined < threads_created - 1
MoreToJoin == joined < threads_created

ShutdownJoin(c) ==
    /\ pc[c] = "shut_join"
    /\ MoreToJoin
    /\ pc[joined] = "exited"
    /\ joined' = joined + 1
    /\ pc' = [pc EXCEPT ![joined] = "none"]
    /\ UNCHANGED <<mutex, jobs, work, made, queueVars, top, run, historyVars>>

\* Destroying the mutex leaves it zeroed, that is unlocked.
ShutdownDestroy(c) ==
    /\ pc[c] = "shut_join"
    /\ ~MoreToJoin
    /\ mutex' = NULL
    /\ initialized' = FALSE
    /\ joined' = 0
    /\ pc' = [pc EXCEPT ![c] = "user"]
    /\ UNCHANGED <<jobs, work, made, a_team_size, target_a_team_size,
                   threads_created, desired_num_threads, shutdown, top, run,
                   historyVars>>

-----------------------------------------------------------------------------
\* The steps of a thread inside the pool's code or inside a task.
ThreadStep(t) ==
    \/ WorkerStart(t)
    \/ Return(t)
    \/ WorkerExit(t)
    \/ WaitOwner(t)
    \/ WaitATeam(t)
    \/ WaitBTeam(t)
    \/ Rejoin(t)
    \/ ClaimTask(t)
    \/ \E r \in Results : FinishTask(t, r)

ShutdownStep(c) ==
    \/ ShutdownSignal(c)
    \/ ShutdownJoin(c)
    \/ ShutdownDestroy(c)

Next ==
    \/ \E t \in Threads : ThreadStep(t)
    \/ \E t \in Threads : SpuriousWakeup(t)
    \/ \E t \in Threads, n \in Sizes : ParFor(t, n)
    \/ \E c \in Clients, n \in Requests : SetNumThreads(c, n)
    \/ \E c \in Clients : ShutdownCall(c)
    \/ \E c \in Clients : ShutdownStep(c)

Spec == Init /\ [][Next]_vars

\* Tasks end, threads are scheduled, and a thread that keeps finding the mutex
\* free gets it in the end.  Nobody has to make a call.
Fairness ==
    /\ \A t \in Threads : SF_vars(ThreadStep(t))
    /\ \A c \in Clients : SF_vars(ShutdownStep(c))

FairSpec == Spec /\ Fairness

-----------------------------------------------------------------------------
WorkType ==
    [live : BOOLEAN, next : 0..MaxSize, max : 0..MaxSize, active_workers : Nat,
     exit_status : Results, next_job : JobOrNull, owner : Threads \cup {NULL},
     parent : JobOrNull, wanted : 0..MAX_THREADS]

\* Type invariant; the number of threads created also stays below the size of
\* work_queue_t::threads.
TypeOK ==
    /\ mutex \in Threads \cup {NULL}
    /\ jobs \in JobOrNull
    /\ work \in [JobIds -> WorkType]
    /\ made \in JobOrNull
    /\ a_team_size \in Int
    /\ target_a_team_size \in Nat
    /\ threads_created \in 0..(MAX_THREADS - 1)
    /\ desired_num_threads \in 0..MAX_THREADS
    /\ shutdown \in BOOLEAN
    /\ initialized \in BOOLEAN
    /\ joined \in 0..(MAX_THREADS - 1)
    /\ pc \in [Threads -> Locations]
    /\ top \in [Threads -> JobOrNull]
    /\ run \in [Threads -> [JobOrNull -> [job : JobOrNull, idx : Indices \cup {0}]]]
    /\ task \in [JobIds -> [Indices -> {"idle", "running", "done"}]]
    /\ returned \in [JobIds -> SUBSET Results]

\* The frames that execute a task of job j.
ActiveFrames(j) == {f \in Threads \X JobOrNull : run[f[1]][f[2]].job = j}

\* work::active_workers counts exactly the frames that are executing a task of
\* the job, whatever nesting put them there.
ActiveWorkersExact ==
    \A j \in JobIds : work[j].active_workers = Cardinality(ActiveFrames(j))

\* A job lives on the stack of the thread that called halide_do_par_for, so it
\* must not be reachable after that call returned: neither from a thread that
\* will write to it when its task ends, nor from the work queue's list.
NoDanglingJob ==
    /\ \A t \in Threads, f \in JobOrNull :
           run[t][f].job # 0 => work[run[t][f].job].live
    /\ jobs # 0 => work[jobs].live
    /\ \A j \in JobIds : work[j].live /\ work[j].next < work[j].max
                           /\ work[j].next_job # 0
                          => work[work[j].next_job].live

Pending(j) == work[j].live /\ work[j].next < work[j].max

\* The list starts at the newest job with tasks left to hand out and each link
\* leads to the next older such job: no job with work is lost, none without
\* work is offered ("If there were no more tasks pending for this job, remove
\* it from the stack").
QueueExact ==
    LET Newest(bound) == {j \in JobIds : j < bound /\ Pending(j)}
        IsNewest(k, bound) ==
            IF Newest(bound) = {} THEN k = 0
            ELSE k \in Newest(bound) /\ \A j \in Newest(bound) : j <= k
    IN  /\ IsNewest(jobs, made + 1)
        /\ \A j \in JobIds : Pending(j) => IsNewest(work[j].next_job, j)

\* No lost wakeup: an owner sleeps only while its job is running, so that the
\* frame that completes the job still has to come by and wake it; a worker
\* sleeps on the A team only while there is nothing to claim, and on the B team
\* only while the A team has its target size.
NobodyOversleeps ==
    \A t \in Threads :
        /\ pc[t] = "wait_owners" => Running(top[t])
        /\ pc[t] = "wait_a_team" => jobs = 0
        /\ pc[t] = "wait_b_team" => a_team_size >= target_a_team_size

\* The threads the two teams do not count.  Initialising the queue puts
\* everyone on the A team, also when the pool was shut down before and its size
\* changed since; later a thread is left out only if halide_set_num_threads had
\* grown the running pool when it was created, because a_team_size is not
\* adjusted then; and no thread is lost or counted twice when it changes teams.
BTeam == {t \in Threads : pc[t] \in {"wait_b_team", "wake_b_team"}}
Uncounted == threads_created + 1 - (a_team_size + Cardinality(BTeam))
TeamStep ==
    initialized' =>
        Uncounted' = IF initialized THEN Uncounted + (threads_created' - threads_created)
                     ELSE 0
TeamsAccounted == [][TeamStep]_vars

\* Once halide_shutdown_thread_pool has torn the queue down, every thread the
\* pool created has been joined and nobody is left on its mutex, its
\* conditions or its list.
ShutdownIsComplete ==
    ~initialized =>
        /\ \A w \in Workers : pc[w] = "none"
        /\ mutex = NULL
        /\ jobs = 0

\* Every call returns, whatever is nested in it and whoever runs its tasks.
CallsReturn == \A j \in JobIds : (made >= j) ~> ~work[j].live

\* A shutdown that was started ends with the queue torn down.
ShutdownEnds == \A c \in Clients : (pc[c] = "shut_lock") ~> ~initialized

\* The pool implements the contract of halide_do_par_for.
Contract == INSTANCE ParFor WITH
    phase <- [j \in JobIds |-> IF j > made THEN "new"
                               ELSE IF work[j].live THEN "open" ELSE "closed"],
    size <- [j \in JobIds |-> work[j].max],
    status <- [j \in JobIds |-> IF j <= made /\ ~work[j].live
                                THEN work[j].exit_status ELSE 0]

ParForContract == Contract!ParForSpec
=============================================================================
