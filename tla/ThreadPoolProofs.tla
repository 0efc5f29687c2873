-------------------------- MODULE ThreadPoolProofs --------------------------
(***************************************************************************)
(* Safety of the thread pool for any number of clients, threads, calls and *)
(* tasks, provided no loop is empty (0 \notin Sizes), and that it          *)
(* implements the contract of halide_do_par_for.                           *)
(***************************************************************************)
EXTENDS ThreadPool, FiniteSetTheorems, NaturalsInduction, WellFoundedInduction, TLAPS

-----------------------------------------------------------------------------
\* Who holds the mutex, and where a thread can be outside the pool's loop.
LockInv ==
    /\ \A t \in Threads : pc[t] = "loop" <=> mutex = t
    /\ \A t \in Threads : pc[t] \in {"user", "shut_lock", "shut_join"}
                             <=> t \in Clients /\ top[t] = 0
    /\ \A t \in Threads : pc[t] \in {"none", "start", "exited"}
                             => t \in Workers /\ top[t] = 0

\* The frames of a thread's stack, innermost first: top[t], then the parents.
FrameInv ==
    /\ \A j \in JobIds : work[j].live => j <= made /\ work[j].owner \in Threads
    /\ \A t \in Threads : top[t] # 0 => work[top[t]].live /\ work[top[t]].owner = t
    /\ \A j \in JobIds : work[j].live =>
          /\ j <= top[work[j].owner]
          /\ work[j].parent < j
          /\ work[j].parent # 0 => /\ work[work[j].parent].live
                                   /\ work[work[j].parent].owner = work[j].owner
          /\ \A k \in JobIds : work[k].live /\ work[k].owner = work[j].owner /\ k < j
                                  => k <= work[j].parent

\* Which frames execute a task: the innermost one of a thread whose control is
\* in a task, and every frame with another one above it.
TaskInv ==
    /\ \A t \in Threads : pc[t] = "task" <=> run[t][top[t]].job # 0
    /\ \A t \in Clients : run[t][0].job = 0
    /\ \A t \in Threads, f \in JobOrNull : f > made => run[t][f].job = 0
    /\ \A t \in Threads, f \in JobOrNull :
          run[t][f].job # 0 => work[run[t][f].job].live
    /\ \A j \in JobIds :
          /\ work[j].live
          /\ ~(work[j].owner \in Clients /\ work[j].parent = 0)
          => /\ run[work[j].owner][work[j].parent].job # 0
             /\ run[work[j].owner][work[j].parent].job < j

\* The linked list holds the pending jobs, newest first.
QueueInv ==
    /\ jobs # 0 => Pending(jobs)
    /\ \A j \in JobIds : Pending(j) =>
          /\ j <= jobs
          /\ work[j].next_job # 0 => Pending(work[j].next_job) /\ work[j].next_job < j
          /\ \A k \in JobIds : Pending(k) /\ k < j => k <= work[j].next_job

OwnersWoken ==
    \A t \in Threads :
        /\ pc[t] = "wait_owners" => Running(top[t])
        /\ pc[t] = "wait_a_team" => jobs = 0

WaitInv ==
    /\ OwnersWoken
    /\ \A t \in Threads : pc[t] = "wait_owners" => top[t] # 0

\* While a client shuts the pool down, the other clients are outside Halide.
ShutInv ==
    \A c, d \in Clients : pc[c] \in {"shut_lock", "shut_join"} /\ d # c => pc[d] = "user"

\* The pool's threads are those from joined to threads_created, and while the
\* queue is not initialised nobody is inside Halide.
PoolInv ==
    /\ \A w \in Workers : w < joined \/ w >= threads_created => pc[w] = "none"
    /\ joined # 0 => \E c \in Clients : pc[c] = "shut_join"
    /\ ~initialized => /\ \A c \in Clients : pc[c] = "user"
                       /\ \A w \in Workers : pc[w] = "none"

IInv ==
    /\ TypeOK
    /\ LockInv
    /\ FrameInv
    /\ TaskInv
    /\ ActiveWorkersExact
    /\ QueueInv
    /\ WaitInv
    /\ ShutInv
    /\ PoolInv

-----------------------------------------------------------------------------
LEMMA Constants ==
    /\ Clients \cap Workers = {}
    /\ NULL \notin Threads
    /\ Workers \subseteq Nat
    /\ MaxJobs \in Nat
    /\ MaxSize \in Nat
    /\ 0 \in Results
BY PoolAssumption DEF Workers, Threads

LEMMA Ids ==
    /\ \A x \in JobOrNull : x \in Nat
    /\ \A x \in JobIds : x \in Nat
    /\ \A x : x \in JobIds <=> x \in JobOrNull /\ x # 0
BY Constants DEF JobIds, JobOrNull

\* The ways a step changes a job keep its type.
LEMMA WorkUpdates ==
    ASSUME NEW w \in WorkType
    PROVE  /\ [w EXCEPT !.live = FALSE] \in WorkType
           /\ w.next < w.max => [w EXCEPT !.next = @ + 1, !.active_workers = @ + 1] \in WorkType
           /\ \A r \in Results : w.active_workers > 0 =>
                 [w EXCEPT !.exit_status = r, !.active_workers = @ - 1] \in WorkType
<1> USE Constants DEF WorkType
<1>1. [w EXCEPT !.live = FALSE] \in WorkType
    OBVIOUS
<1>2. ASSUME w.next < w.max
      PROVE  [w EXCEPT !.next = @ + 1, !.active_workers = @ + 1] \in WorkType
    <2>1. w.next + 1 \in 0..MaxSize /\ w.active_workers + 1 \in Nat
        BY <1>2
    <2>2. ASSUME NEW n \in 0..MaxSize, NEW a \in Nat
          PROVE  [w EXCEPT !.next = n, !.active_workers = a] \in WorkType
        OBVIOUS
    <2> HIDE DEF WorkType
    <2> QED
        BY <2>1, <2>2
<1>3. ASSUME NEW r \in Results, w.active_workers > 0
      PROVE  [w EXCEPT !.exit_status = r, !.active_workers = @ - 1] \in WorkType
    <2>1. w.active_workers - 1 \in Nat
        BY <1>3
    <2>2. ASSUME NEW a \in Nat
          PROVE  [w EXCEPT !.exit_status = r, !.active_workers = a] \in WorkType
        OBVIOUS
    <2> HIDE DEF WorkType
    <2> QED
        BY <2>1, <2>2
<1> QED
    BY <1>1, <1>2, <1>3

LEMMA InitIInv == Init => IInv
<1> SUFFICES ASSUME Init PROVE IInv
    OBVIOUS
<1> USE Constants DEF Init
<1>1. TypeOK
    <2>1. Unused \in WorkType
        BY PoolAssumption DEF Unused, WorkType, JobOrNull
    <2>2. NoTask \in [job : JobOrNull, idx : Indices \cup {0}]
        BY PoolAssumption DEF NoTask, JobOrNull
    <2>3. pc \in [Threads -> Locations]
        BY DEF Locations
    <2>4. /\ 0 \in JobOrNull
          /\ 0 \in 0..(MAX_THREADS - 1)
          /\ 0 \in 0..MAX_THREADS
        BY PoolAssumption DEF JobOrNull
    <2>5. /\ run \in [Threads -> [JobOrNull -> [job : JobOrNull, idx : Indices \cup {0}]]]
          /\ work \in [JobIds -> WorkType]
          /\ mutex \in Threads \cup {NULL}
          /\ a_team_size \in Int
          /\ target_a_team_size \in Nat
        BY <2>1, <2>2
    <2>6. /\ top \in [Threads -> JobOrNull]
          /\ task \in [JobIds -> [Indices -> {"idle", "running", "done"}]]
          /\ returned \in [JobIds -> SUBSET Results]
        BY <2>4
    <2> QED
        BY <2>3, <2>4, <2>5, <2>6 DEF TypeOK
<1>2. LockInv
    BY DEF LockInv, Threads
<1>3. FrameInv
    BY DEF FrameInv, Unused, JobIds
<1>4. TaskInv
    BY DEF TaskInv, Unused, NoTask, JobIds, JobOrNull, Threads
<1>5. ActiveWorkersExact
    <2> SUFFICES ASSUME NEW j \in JobIds
                 PROVE  work[j].active_workers = Cardinality(ActiveFrames(j))
        BY DEF ActiveWorkersExact
    <2>1. ActiveFrames(j) = {}
        BY DEF ActiveFrames, NoTask, JobIds
    <2>2. work[j].active_workers = 0
        BY DEF Unused
    <2> QED
        BY <2>1, <2>2, FS_EmptySet
<1>6. QueueInv
    BY DEF QueueInv, Pending, Unused
<1>7. WaitInv /\ ShutInv
    BY DEF WaitInv, OwnersWoken, ShutInv, Threads
<1>8. PoolInv
    BY DEF PoolInv, Threads
<1> QED
    BY <1>1, <1>2, <1>3, <1>4, <1>5, <1>6, <1>7, <1>8 DEF IInv

LEMMA Smallest ==
    ASSUME NEW S, S \subseteq Nat, S # {}
    PROVE  \E m \in S : \A k \in S : m <= k
<1> DEFINE R == {p \in Nat \X Nat : p[1] < p[2]}
<1>1. IsWellFoundedOn(R, Nat)
    BY NatLessThanWellFounded DEF OpToRel
<1> HIDE DEF R
<1>2. PICK m \in S : \A k \in S : <<k, m>> \notin R
    BY <1>1, WFMin
<1>3. \A k \in S : ~(k < m)
    BY <1>2 DEF R
<1> QED
    BY <1>3

\* While every client is outside Halide there is no job: the oldest one would
\* have to belong to a client.
LEMMA Quiet ==
    ASSUME IInv, \A c \in Clients : pc[c] \in {"user", "shut_lock", "shut_join"}
    PROVE  \A j \in JobIds : ~work[j].live
<1> DEFINE S == {j \in JobIds : work[j].live}
<1> SUFFICES ASSUME S # {} PROVE FALSE
    OBVIOUS
<1>1. S \subseteq Nat
    BY Constants DEF JobIds
<1>2. PICK j \in S : \A k \in S : j <= k
    <2> HIDE DEF S
    <2> QED
        BY <1>1, Smallest
<1>3. /\ j \in JobIds
      /\ work[j].live
      /\ work[j].owner \in Threads
      /\ work[j].parent \in JobOrNull
      /\ top[work[j].owner] \in JobOrNull
    BY <1>2 DEF IInv, TypeOK, FrameInv, WorkType
<1>4. work[j].parent = 0
    BY <1>2, <1>3, Constants DEF IInv, FrameInv, JobIds, JobOrNull
<1>5. work[j].owner \in Clients
    <2> DEFINE k == run[work[j].owner][0].job
    <2> SUFFICES ASSUME work[j].owner \notin Clients PROVE FALSE
        OBVIOUS
    <2>1. k # 0 /\ k < j
        BY <1>3, <1>4 DEF IInv, TaskInv
    <2>2. k \in JobOrNull
        <3>1. 0 \in JobOrNull
            BY Constants DEF JobOrNull
        <3> QED
            BY <1>3, <3>1 DEF IInv, TypeOK
    <2>3. work[k].live
        BY <1>3, <2>1, Constants DEF IInv, TaskInv, JobOrNull
    <2> QED
        BY <1>2, <2>1, <2>2, <2>3, <1>3, Constants DEF JobIds, JobOrNull
<1>6. top[work[j].owner] # 0
    BY <1>3, Constants DEF IInv, FrameInv, JobIds, JobOrNull
<1> QED
    BY <1>3, <1>5, <1>6 DEF IInv, LockInv

\* No task runs, and so no call is made, while a client shuts the pool down.
LEMMA NoCallInShutdown ==
    ASSUME IInv, NEW t \in Callers
    PROVE  \A c \in Clients : pc[c] \notin {"shut_lock", "shut_join"}
<1> SUFFICES ASSUME NEW c \in Clients, pc[c] \in {"shut_lock", "shut_join"}
             PROVE  FALSE
    OBVIOUS
<1>1. pc[t] = "task" /\ t \in Threads
    BY DEF Callers
<1>2. \A d \in Clients : pc[d] \in {"user", "shut_lock", "shut_join"}
    BY DEF IInv, ShutInv
<1>3. \A j \in JobIds : ~work[j].live
    BY <1>2, Quiet
<1>4. run[t][top[t]].job # 0 /\ top[t] \in JobOrNull /\ run[t][top[t]].job \in JobOrNull
    BY <1>1 DEF IInv, TaskInv, TypeOK
<1>5. work[run[t][top[t]].job].live
    BY <1>1, <1>4 DEF IInv, TaskInv
<1> QED
    BY <1>3, <1>4, <1>5, Constants DEF JobIds, JobOrNull

-----------------------------------------------------------------------------
(***************************************************************************)
(* The steps that leave the jobs, the list and the stacks alone.           *)
(***************************************************************************)
LEMMA SameJobs ==
    ASSUME IInv, UNCHANGED <<jobs, work, made, top, run>>
    PROVE  FrameInv' /\ ActiveWorkersExact' /\ QueueInv'
<1>1. FrameInv'
    BY DEF IInv, FrameInv
<1>2. ActiveWorkersExact'
    BY DEF IInv, ActiveWorkersExact, ActiveFrames
<1>3. QueueInv'
    BY DEF IInv, QueueInv, Pending
<1> QED
    BY <1>1, <1>2, <1>3

LEMMA WorkerStartStep ==
    ASSUME IInv, NEW t \in Threads, WorkerStart(t)
    PROVE  IInv'
<1> USE DEF WorkerStart, queueVars, historyVars
<1>1. TypeOK'
    BY DEF IInv, TypeOK, Locations
<1>2. LockInv'
    BY Constants DEF IInv, TypeOK, LockInv
<1>3. TaskInv'
    BY DEF IInv, TypeOK, TaskInv
<1>4. WaitInv'
    BY DEF IInv, TypeOK, WaitInv, OwnersWoken, Running
<1>5. ShutInv' /\ PoolInv'
    BY Constants DEF IInv, TypeOK, LockInv, ShutInv, PoolInv, Threads
<1> QED
    BY <1>1, <1>2, <1>3, <1>4, <1>5, SameJobs DEF IInv

LEMMA WorkerExitStep ==
    ASSUME IInv, NEW t \in Threads, WorkerExit(t)
    PROVE  IInv'
<1> USE DEF WorkerExit, AtLoopHead, queueVars, historyVars
<1>0. t \in Workers
    BY DEF IInv, LockInv, Threads
<1>1. TypeOK'
    BY DEF IInv, TypeOK, Locations
<1>2. LockInv'
    BY <1>0, Constants DEF IInv, TypeOK, LockInv
<1>3. TaskInv'
    BY DEF IInv, TypeOK, TaskInv
<1>4. WaitInv'
    BY DEF IInv, TypeOK, WaitInv, OwnersWoken, Running
<1>5. ShutInv' /\ PoolInv'
    BY <1>0, Constants DEF IInv, TypeOK, LockInv, ShutInv, PoolInv, Threads
<1> QED
    BY <1>1, <1>2, <1>3, <1>4, <1>5, SameJobs DEF IInv

LEMMA WaitStep ==
    ASSUME IInv, NEW t \in Threads, WaitOwner(t) \/ WaitATeam(t) \/ WaitBTeam(t)
    PROVE  IInv'
<1> DEFINE cond == IF top[t] # 0 THEN "wait_owners"
                   ELSE IF a_team_size <= target_a_team_size THEN "wait_a_team"
                   ELSE "wait_b_team"
<1>1. /\ AtLoopHead(t)
      /\ jobs = 0
      /\ top[t] # 0 => Running(top[t])
      /\ mutex' = NULL
      /\ pc' = [pc EXCEPT ![t] = cond]
      /\ a_team_size' \in Int
      /\ cond \in Waits
      /\ cond = "wait_owners" <=> top[t] # 0
      /\ UNCHANGED <<jobs, work, made, target_a_team_size, threads_created,
                     desired_num_threads, shutdown, initialized, joined, top, run,
                     task, returned>>
    BY DEF IInv, TypeOK, WaitOwner, WaitATeam, WaitBTeam, WaitOn, StaysInLoop, Waits,
           historyVars
<1> HIDE DEF cond
<1> USE <1>1 DEF AtLoopHead, Waits
<1>2. TypeOK'
    BY DEF IInv, TypeOK, Locations
<1>3. LockInv'
    BY Constants DEF IInv, TypeOK, LockInv
<1>4. TaskInv'
    BY DEF IInv, TypeOK, TaskInv
<1>5. WaitInv'
    BY DEF IInv, TypeOK, WaitInv, OwnersWoken, Running
<1>6. ShutInv' /\ PoolInv'
    BY Constants DEF IInv, TypeOK, LockInv, ShutInv, PoolInv, Threads
<1> QED
    BY <1>2, <1>3, <1>4, <1>5, <1>6, SameJobs DEF IInv

LEMMA RejoinStep ==
    ASSUME IInv, NEW t \in Threads, Rejoin(t)
    PROVE  IInv'
<1> USE DEF Rejoin, TeamAfterWait, historyVars
<1>1. TypeOK'
    BY DEF IInv, TypeOK, Locations
<1>2. LockInv'
    BY Constants DEF IInv, TypeOK, LockInv
<1>3. TaskInv'
    BY DEF IInv, TypeOK, TaskInv
<1>4. WaitInv'
    BY DEF IInv, TypeOK, WaitInv, OwnersWoken, Running
<1>5. ShutInv' /\ PoolInv'
    BY Constants DEF IInv, TypeOK, LockInv, ShutInv, PoolInv, Threads
<1> QED
    BY <1>1, <1>2, <1>3, <1>4, <1>5, SameJobs DEF IInv

LEMMA SpuriousWakeupStep ==
    ASSUME IInv, NEW t \in Threads, SpuriousWakeup(t)
    PROVE  IInv'
<1>0. /\ pc[t] \in Waits
      /\ pc' = [pc EXCEPT ![t] = IF pc[t] = "wait_b_team" THEN "wake_b_team" ELSE "wake"]
      /\ UNCHANGED <<mutex, jobs, work, made, queueVars, joined, top, run, historyVars>>
    BY DEF SpuriousWakeup, Broadcast
<1> USE <1>0 DEF Waits, queueVars, historyVars
<1>1. TypeOK'
    BY DEF IInv, TypeOK, Locations
<1>2. LockInv'
    BY Constants DEF IInv, TypeOK, LockInv
<1>3. TaskInv'
    BY DEF IInv, TypeOK, TaskInv
<1>4. WaitInv'
    BY DEF IInv, TypeOK, WaitInv, OwnersWoken, Running
<1>5. ShutInv' /\ PoolInv'
    BY Constants DEF IInv, TypeOK, LockInv, ShutInv, PoolInv, Threads
<1> QED
    BY <1>1, <1>2, <1>3, <1>4, <1>5, SameJobs DEF IInv

LEMMA SetNumThreadsStep ==
    ASSUME IInv, NEW c \in Clients, NEW n \in Requests, SetNumThreads(c, n)
    PROVE  IInv'
<1> USE DEF SetNumThreads, historyVars
<1>1. TypeOK'
    <2>1. desired_num_threads' \in 0..MAX_THREADS
        BY PoolAssumption DEF clamp_num_threads
    <2> QED
        BY <2>1 DEF IInv, TypeOK
<1>2. LockInv' /\ ShutInv'
    BY DEF IInv, LockInv, ShutInv
<1>3. TaskInv'
    BY DEF IInv, TaskInv
<1>4. WaitInv'
    BY DEF IInv, WaitInv, OwnersWoken, Running
<1>5. PoolInv'
    BY DEF IInv, PoolInv
<1> QED
    BY <1>1, <1>2, <1>3, <1>4, <1>5, SameJobs DEF IInv

-----------------------------------------------------------------------------
(***************************************************************************)
(* halide_shutdown_thread_pool.                                            *)
(***************************************************************************)
LEMMA ShutdownCallStep ==
    ASSUME IInv, NEW c \in Clients, ShutdownCall(c)
    PROVE  IInv'
<1> USE DEF ShutdownCall, queueVars, historyVars, Threads
<1>1. TypeOK'
    BY DEF IInv, TypeOK, Locations
<1>2. LockInv'
    BY Constants DEF IInv, TypeOK, LockInv
<1>3. TaskInv'
    BY DEF IInv, TypeOK, TaskInv
<1>4. WaitInv'
    BY DEF IInv, TypeOK, WaitInv, OwnersWoken, Running
<1>5. ShutInv' /\ PoolInv'
    BY Constants DEF IInv, TypeOK, LockInv, ShutInv, PoolInv
<1> QED
    BY <1>1, <1>2, <1>3, <1>4, <1>5, SameJobs DEF IInv

LEMMA ShutdownSignalStep ==
    ASSUME IInv, NEW c \in Clients, ShutdownSignal(c)
    PROVE  IInv'
<1> USE DEF Threads
<1>0. /\ pc[c] = "shut_lock"
      /\ shutdown' = TRUE
      /\ UNCHANGED <<mutex, jobs, work, made, a_team_size, target_a_team_size,
                     threads_created, desired_num_threads, initialized, joined, top,
                     run, task, returned>>
    BY DEF ShutdownSignal, historyVars
<1>P. \A t \in Threads :
          pc'[t] = IF t = c THEN "shut_join"
                   ELSE IF pc[t] \in {"wait_owners", "wait_a_team"} THEN "wake"
                   ELSE IF pc[t] = "wait_b_team" THEN "wake_b_team"
                   ELSE pc[t]
    BY Constants DEF ShutdownSignal, IInv, TypeOK, Broadcast, ShutdownWakes
<1>1. TypeOK'
    <2>1. pc' \in [Threads -> Locations]
        BY <1>P DEF ShutdownSignal, IInv, TypeOK, Broadcast, Locations
    <2> QED
        BY <2>1, <1>0 DEF IInv, TypeOK
<1>2. LockInv'
    BY <1>0, <1>P, Constants DEF IInv, TypeOK, LockInv
<1>3. TaskInv'
    BY SMTT(40), <1>0, <1>P DEF IInv, TypeOK, TaskInv
<1>4. WaitInv'
    BY <1>0, <1>P DEF IInv, TypeOK, WaitInv, OwnersWoken, Running
<1>5. ShutInv'
    BY <1>0, <1>P, Constants DEF IInv, TypeOK, LockInv, ShutInv
<1>6. PoolInv'
    BY <1>0, <1>P, Constants DEF IInv, TypeOK, LockInv, PoolInv
<1> QED
    BY <1>1, <1>2, <1>3, <1>4, <1>5, <1>6, <1>0, SameJobs DEF IInv

LEMMA ShutdownJoinStep ==
    ASSUME IInv, NEW c \in Clients, ShutdownJoin(c)
    PROVE  IInv'
<1> USE DEF ShutdownJoin, MoreToJoin, queueVars, historyVars
<1>0. joined \in Workers /\ joined \in Threads
    BY PoolAssumption DEF IInv, TypeOK, Workers, Threads
<1>1. TypeOK'
    BY <1>0, PoolAssumption DEF IInv, TypeOK, Locations
<1>2. LockInv'
    BY <1>0, Constants DEF IInv, TypeOK, LockInv
<1>3. TaskInv'
    BY <1>0 DEF IInv, TypeOK, TaskInv
<1>4. WaitInv'
    BY <1>0 DEF IInv, TypeOK, WaitInv, OwnersWoken, Running
<1>5. ShutInv'
    BY <1>0, Constants DEF IInv, TypeOK, LockInv, ShutInv, Threads
<1>6. PoolInv'
    <2>1. \A d \in Clients : pc'[d] = pc[d]
        BY <1>0, Constants DEF IInv, TypeOK, Threads
    <2>2. \A w \in Workers : w < joined' \/ w >= threads_created' => pc'[w] = "none"
        BY <1>0, Constants DEF IInv, TypeOK, PoolInv, Threads
    <2> QED
        BY <1>0, <2>1, <2>2 DEF IInv, PoolInv, TypeOK
<1> QED
    BY <1>1, <1>2, <1>3, <1>4, <1>5, <1>6, SameJobs DEF IInv

LEMMA ShutdownDestroyStep ==
    ASSUME IInv, NEW c \in Clients, ShutdownDestroy(c)
    PROVE  IInv'
<1> USE DEF ShutdownDestroy, MoreToJoin, historyVars
<1>0. /\ \A w \in Workers : pc[w] = "none"
      /\ \A d \in Clients : d # c => pc[d] = "user"
    BY Constants DEF IInv, PoolInv, ShutInv, TypeOK
<1>1. TypeOK'
    <2>0. pc' \in [Threads -> Locations]
        BY DEF IInv, TypeOK, Locations
    <2>1. joined' \in 0..(MAX_THREADS - 1)
        BY PoolAssumption
    <2>2. /\ mutex' \in Threads \cup {NULL}
          /\ initialized' \in BOOLEAN
          /\ UNCHANGED <<jobs, work, made, a_team_size, target_a_team_size,
                         threads_created, desired_num_threads, shutdown, top, run,
                         task, returned>>
        OBVIOUS
    <2> HIDE DEF ShutdownDestroy
    <2> QED
        BY <2>0, <2>1, <2>2 DEF IInv, TypeOK
<1>2. LockInv'
    BY <1>0, Constants DEF IInv, TypeOK, LockInv, Threads
<1>3. TaskInv'
    BY DEF IInv, TypeOK, TaskInv, Threads
<1>4. WaitInv'
    BY DEF IInv, TypeOK, WaitInv, OwnersWoken, Running, Threads
<1>5. ShutInv' /\ PoolInv'
    BY <1>0, Constants DEF IInv, TypeOK, ShutInv, PoolInv, Threads
<1> QED
    BY <1>1, <1>2, <1>3, <1>4, <1>5, SameJobs DEF IInv

-----------------------------------------------------------------------------
(***************************************************************************)
(* The frames that execute the tasks of a job are finitely many.           *)
(***************************************************************************)
LEMMA FramesFinite ==
    \A j : IsFiniteSet(ActiveFrames(j)) /\ Cardinality(ActiveFrames(j)) \in Nat
<1> SUFFICES ASSUME NEW j
             PROVE  IsFiniteSet(ActiveFrames(j)) /\ Cardinality(ActiveFrames(j)) \in Nat
    OBVIOUS
<1>1. IsFiniteSet(Workers)
    BY PoolAssumption, FS_Interval DEF Workers
<1>2. IsFiniteSet(Threads)
    BY <1>1, PoolAssumption, FS_Union DEF Threads
<1>3. IsFiniteSet(JobOrNull)
    BY PoolAssumption, FS_Interval DEF JobOrNull
<1>4. IsFiniteSet(Threads \X JobOrNull)
    BY <1>2, <1>3, FS_Product
<1>5. ActiveFrames(j) \in SUBSET (Threads \X JobOrNull)
    BY DEF ActiveFrames
<1>6. IsFiniteSet(ActiveFrames(j))
    BY <1>4, <1>5, FS_Subset
<1> QED
    BY <1>6, FS_CardinalityType

\* A running task keeps its job's active_workers above zero.
LEMMA ActiveCounts ==
    ASSUME IInv, NEW t \in Threads, NEW f \in JobOrNull, run[t][f].job # 0
    PROVE  work[run[t][f].job].active_workers > 0
<1> DEFINE j == run[t][f].job
<1>0. j \in JobOrNull
    BY DEF IInv, TypeOK
<1>1. j \in JobIds
    BY <1>0, Constants DEF JobOrNull, JobIds
<1>2. <<t, f>> \in ActiveFrames(j)
    BY DEF ActiveFrames
<1>3. Cardinality(ActiveFrames(j)) # 0
    BY <1>2, FramesFinite, FS_EmptySet
<1>4. work[j].active_workers = Cardinality(ActiveFrames(j))
    BY <1>1 DEF IInv, ActiveWorkersExact
<1> QED
    BY <1>3, <1>4, FramesFinite

-----------------------------------------------------------------------------
(***************************************************************************)
(* Return: nobody executes a task of the job whose frame goes away.        *)
(***************************************************************************)
LEMMA ReturnStep ==
    ASSUME IInv, NEW t \in Threads, Return(t)
    PROVE  IInv'
<1> DEFINE j == top[t]
           p == work[j].parent
           at == IF t \in Clients /\ p = 0 THEN "user" ELSE "task"
<1>1. /\ pc[t] = "loop"
      /\ mutex' = NULL
      /\ work' = [work EXCEPT ![j].live = FALSE]
      /\ top' = [top EXCEPT ![t] = p]
      /\ pc' = [pc EXCEPT ![t] = at]
      /\ UNCHANGED <<jobs, made, a_team_size, target_a_team_size, threads_created,
                     desired_num_threads, shutdown, initialized, joined, run, task,
                     returned>>
    BY DEF Return, AtLoopHead, queueVars, historyVars
<1>2. /\ j \in JobIds
      /\ work[j].live
      /\ work[j].owner = t
      /\ work[j].next >= work[j].max
      /\ work[j].active_workers = 0
      /\ p \in JobOrNull
    <2>1. j \in JobIds
        BY Constants DEF Return, IInv, TypeOK, JobOrNull, JobIds
    <2>2. /\ work[j].active_workers \in Nat
          /\ work[j].next \in Nat
          /\ work[j].max \in Nat
          /\ p \in JobOrNull
        BY <2>1, Constants DEF IInv, TypeOK, WorkType
    <2> QED
        BY <2>1, <2>2, Constants DEF Return, StaysInLoop, Running, IInv, FrameInv
<1>3. \A k \in JobIds :
          /\ work'[k].live <=> work[k].live /\ k # j
          /\ work'[k].owner = work[k].owner
          /\ work'[k].parent = work[k].parent
          /\ work'[k].next = work[k].next
          /\ work'[k].max = work[k].max
          /\ work'[k].next_job = work[k].next_job
          /\ work'[k].active_workers = work[k].active_workers
    BY <1>1, <1>2 DEF IInv, TypeOK, WorkType
<1>4. \A s \in Threads : /\ pc'[s] = IF s = t THEN at ELSE pc[s]
                         /\ top'[s] = IF s = t THEN p ELSE top[s]
    BY <1>1 DEF IInv, TypeOK
<1>5. /\ p < j
      /\ p # 0 => work[p].live /\ work[p].owner = t
      /\ \A k \in JobIds : work[k].live /\ work[k].owner = t /\ k < j => k <= p
    BY <1>2 DEF IInv, FrameInv
<1>T. TypeOK'
    <2>1. work' \in [JobIds -> WorkType]
        <3>1. [work[j] EXCEPT !.live = FALSE] \in WorkType
            BY <1>2, WorkUpdates DEF IInv, TypeOK
        <3>2. work' = [work EXCEPT ![j] = [work[j] EXCEPT !.live = FALSE]]
            BY <1>1
        <3> HIDE DEF j
        <3> QED
            BY <1>2, <3>1, <3>2 DEF IInv, TypeOK
    <2>2. top' \in [Threads -> JobOrNull]
        BY <1>1, <1>2 DEF IInv, TypeOK
    <2>3. pc' \in [Threads -> Locations]
        <3>1. at \in Locations
            BY DEF Locations
        <3> HIDE DEF at
        <3> QED
            BY <1>1, <3>1 DEF IInv, TypeOK
    <2> HIDE DEF at, p, j
    <2> QED
        BY <1>1, <2>1, <2>2, <2>3 DEF IInv, TypeOK
<1> USE Constants
<1> HIDE DEF j, p
<1>L. LockInv'
    BY <1>1, <1>4 DEF IInv, LockInv
<1>F. FrameInv'
    <2>1. \A k \in JobIds : work'[k].live =>
              k <= made' /\ work'[k].owner \in Threads
        BY <1>1, <1>3 DEF IInv, FrameInv
    <2>2. \A s \in Threads : top'[s] # 0 => work'[top'[s]].live /\ work'[top'[s]].owner = s
        <3> SUFFICES ASSUME NEW s \in Threads, top'[s] # 0
                     PROVE  work'[top'[s]].live /\ work'[top'[s]].owner = s
            OBVIOUS
        <3>1. CASE s = t
            <4>1. p \in JobIds /\ p # j
                BY <3>1, <1>2, <1>4, <1>5, Ids
            <4> QED
                BY <3>1, <4>1, <1>3, <1>4, <1>5
        <3>2. CASE s # t
            <4>1. top[s] \in JobIds /\ work[top[s]].live /\ work[top[s]].owner = s
                BY <3>2, <1>4, Ids DEF IInv, TypeOK, FrameInv
            <4> QED
                BY <3>2, <4>1, <1>2, <1>3, <1>4
        <3> QED
            BY <3>1, <3>2
    <2>3. ASSUME NEW k \in JobIds, work'[k].live
          PROVE  /\ k <= top'[work'[k].owner]
                 /\ work'[k].parent < k
                 /\ work'[k].parent # 0 => /\ work'[work'[k].parent].live
                                           /\ work'[work'[k].parent].owner = work'[k].owner
                 /\ \A l \in JobIds : work'[l].live /\ work'[l].owner = work'[k].owner
                                        /\ l < k => l <= work'[k].parent
        <3>1. work[k].live /\ k # j /\ work[k].owner \in Threads
            BY <2>3, <1>3 DEF IInv, FrameInv
        <3>2. work[k].owner = t => k <= j
            BY <3>1, <1>2 DEF IInv, FrameInv, j
        <3>3. k <= top'[work[k].owner]
            BY <3>1, <3>2, <1>2, <1>4, <1>5 DEF IInv, FrameInv, JobIds
        <3>4. work[k].parent \in JobOrNull /\ work[k].parent < k
            BY <3>1 DEF IInv, FrameInv, TypeOK, WorkType
        <3>5. work[k].parent # 0 => /\ work[k].parent # j
                                    /\ work[work[k].parent].live
                                    /\ work[work[k].parent].owner = work[k].owner
            BY <3>1, <3>2, <3>4, <1>2 DEF IInv, FrameInv, JobIds, JobOrNull
        <3>6. \A l \in JobIds : work[l].live /\ work[l].owner = work[k].owner /\ l < k
                                  => l <= work[k].parent
            BY <3>1 DEF IInv, FrameInv
        <3>7. work'[k].parent # 0 => /\ work'[work'[k].parent].live
                                     /\ work'[work'[k].parent].owner = work'[k].owner
            BY <3>4, <3>5, <1>3, Ids
        <3> QED
            BY <3>3, <3>4, <3>6, <3>7, <1>3
    <2> QED
        BY <2>1, <2>2, <2>3 DEF FrameInv
<1>R. TaskInv'
    <2>1. \A s \in Threads, f \in JobOrNull : run[s][f].job # 0 => run[s][f].job # j
        BY <1>2, ActiveCounts
    <2>2. \A s \in Threads, f \in JobOrNull : run[s][f].job \in JobOrNull
        BY DEF IInv, TypeOK
    <2>3. \A s \in Threads : pc'[s] = "task" <=> run'[s][top'[s]].job # 0
        BY <1>1, <1>2, <1>4 DEF IInv, TaskInv, p
    <2>4. \A s \in Threads, f \in JobOrNull :
              run'[s][f].job # 0 => work'[run'[s][f].job].live
        BY <2>1, <2>2, <1>1, <1>3 DEF IInv, TaskInv, JobIds, JobOrNull
    <2>5. \A k \in JobIds :
             /\ work'[k].live
             /\ ~(work'[k].owner \in Clients /\ work'[k].parent = 0)
             => /\ run'[work'[k].owner][work'[k].parent].job # 0
                /\ run'[work'[k].owner][work'[k].parent].job < k
        <3> SUFFICES ASSUME NEW k \in JobIds, work'[k].live,
                            ~(work[k].owner \in Clients /\ work[k].parent = 0)
                     PROVE  /\ run[work[k].owner][work[k].parent].job # 0
                            /\ run[work[k].owner][work[k].parent].job < k
            BY ZenonT(40), <1>1, <1>3
        <3>1. work[k].live
            BY <1>3
        <3> QED
            BY <3>1 DEF IInv, TaskInv
    <2> QED
        BY <2>3, <2>4, <2>5, <1>1 DEF IInv, TaskInv
<1>A. ActiveWorkersExact'
    <2>1. \A k : ActiveFrames(k)' = ActiveFrames(k)
        BY <1>1 DEF ActiveFrames
    <2> HIDE DEF j, p, at
    <2> QED BY <1>3, <2>1 DEF IInv, ActiveWorkersExact
<1>Q. QueueInv'
    <2>1. \A k \in JobIds : Pending(k)' <=> Pending(k)
        BY <1>2, <1>3 DEF IInv, TypeOK, WorkType, Pending
    <2>2. /\ jobs \in JobOrNull
          /\ \A k \in JobIds : work[k].next_job \in JobOrNull
        BY DEF IInv, TypeOK, WorkType
    <2> QED
        BY <1>1, <1>3, <2>1, <2>2 DEF IInv, QueueInv, JobIds, JobOrNull
<1>W. WaitInv'
    <2>1. \A k \in JobIds : Running(k)' <=> Running(k)
        BY <1>3 DEF Running
    <2>2. \A s \in Threads : top[s] \in JobOrNull
        BY DEF IInv, TypeOK
    <2> QED
        BY <1>1, <1>4, <2>1, <2>2, Ids DEF IInv, WaitInv, OwnersWoken
<1>S. ShutInv' /\ PoolInv'
    BY <1>1, <1>4 DEF IInv, ShutInv, PoolInv, Threads
<1> QED
    BY <1>T, <1>L, <1>F, <1>R, <1>A, <1>Q, <1>W, <1>S DEF IInv

-----------------------------------------------------------------------------
(***************************************************************************)
(* ClaimTask: the frame that was idle joins the head of the list.          *)
(***************************************************************************)
LEMMA ClaimTaskStep ==
    ASSUME IInv, NEW t \in Threads, ClaimTask(t)
    PROVE  IInv'
<1> DEFINE j == jobs
           f == top[t]
           x == [job |-> j, idx |-> work[j].next]
<1>1. /\ pc[t] = "loop"
      /\ j # 0
      /\ jobs' = IF work[j].next + 1 = work[j].max THEN work[j].next_job ELSE jobs
      /\ work' = [work EXCEPT ![j] = Claimed(work[j])]
      /\ run' = [run EXCEPT ![t][f] = x]
      /\ task' = [task EXCEPT ![j][work[j].next] = "running"]
      /\ mutex' = NULL
      /\ pc' = [pc EXCEPT ![t] = "task"]
      /\ UNCHANGED <<made, a_team_size, target_a_team_size, threads_created,
                     desired_num_threads, shutdown, initialized, joined, top, returned>>
    BY DEF ClaimTask, HeadAfterClaim, AtLoopHead, queueVars
<1>2. /\ j \in JobIds
      /\ f \in JobOrNull
      /\ work[j] \in WorkType
      /\ work[j].live
      /\ work[j].next < work[j].max
    BY <1>1, Ids DEF IInv, TypeOK, QueueInv, Pending
<1>3. /\ work[j].next \in Indices
      /\ work[j].next \in Nat
      /\ work[j].max \in Nat
      /\ work[j].active_workers \in Nat
      /\ work[j].next_job \in JobOrNull
    BY <1>2, Constants DEF WorkType, Indices
<1>4. \A k \in JobIds :
          /\ work'[k].live <=> work[k].live
          /\ work'[k].owner = work[k].owner
          /\ work'[k].parent = work[k].parent
          /\ work'[k].next = IF k = j THEN work[k].next + 1 ELSE work[k].next
          /\ work'[k].max = work[k].max
          /\ work'[k].next_job = work[k].next_job
          /\ work'[k].active_workers = IF k = j THEN work[k].active_workers + 1
                                       ELSE work[k].active_workers
    BY <1>1, <1>2 DEF IInv, TypeOK, WorkType, Claimed
<1>5. \A s \in Threads : pc'[s] = IF s = t THEN "task" ELSE pc[s]
    BY <1>1 DEF IInv, TypeOK
<1>6. \A s \in Threads, g \in JobOrNull :
          run'[s][g] = IF s = t /\ g = f THEN x ELSE run[s][g]
    BY <1>1, <1>2 DEF IInv, TypeOK
<1>7. run[t][f].job = 0
    BY <1>1 DEF IInv, TaskInv
<1>T. TypeOK'
    <2>1. work' \in [JobIds -> WorkType]
        <3>1. Claimed(work[j]) \in WorkType
            BY <1>2, WorkUpdates DEF Claimed
        <3> HIDE DEF j
        <3> QED
            BY <1>1, <1>2, <3>1 DEF IInv, TypeOK
    <2>2. run' \in [Threads -> [JobOrNull -> [job : JobOrNull, idx : Indices \cup {0}]]]
        <3>1. x \in [job : JobOrNull, idx : Indices \cup {0}]
            BY <1>2, <1>3, Ids
        <3> HIDE DEF x, f, j
        <3> QED
            BY <1>1, <1>2, <3>1 DEF IInv, TypeOK
    <2>3. task' \in [JobIds -> [Indices -> {"idle", "running", "done"}]]
        BY <1>1, <1>2, <1>3 DEF IInv, TypeOK
    <2>4. pc' \in [Threads -> Locations]
        BY <1>1 DEF IInv, TypeOK, Locations
    <2>5. jobs' \in JobOrNull
        BY <1>1, <1>2, <1>3, Ids DEF IInv, TypeOK
    <2> HIDE DEF x, f, j
    <2> QED
        BY <1>1, <2>1, <2>2, <2>3, <2>4, <2>5 DEF IInv, TypeOK
<1> HIDE DEF f
<1>L. LockInv'
    BY <1>1, <1>5, Constants DEF IInv, LockInv
<1>F. FrameInv'
    <2>1. /\ \A s \in Threads : top[s] \in JobOrNull
          /\ \A k \in JobIds : work[k].parent \in JobOrNull
        BY DEF IInv, TypeOK, WorkType
    <2> QED
        BY <1>1, <1>4, <2>1, Ids DEF IInv, FrameInv
<1>R. TaskInv'
    <2>0. \A s \in Threads, g \in JobOrNull : run[s][g].job \in JobOrNull
        BY DEF IInv, TypeOK
    <2>1. \A s \in Threads : top[s] \in JobOrNull
        BY DEF IInv, TypeOK
    <2>2. \A s \in Threads : pc'[s] = "task" <=> run'[s][top'[s]].job # 0
        BY <1>1, <1>5, <1>6, <2>1 DEF IInv, TaskInv, f
    <2>3. \A s \in Clients : run'[s][0].job = 0
        <3>1. t \in Clients => f # 0
            BY <1>1 DEF IInv, LockInv, f
        <3> QED
            BY <3>1, <1>6, Ids, Constants DEF IInv, TaskInv, Threads, JobOrNull
    <2>4. \A s \in Threads, g \in JobOrNull : g > made' => run'[s][g].job = 0
        <3>2. made \in Nat
            BY Ids DEF IInv, TypeOK
        <3>3. f # 0 => f <= made
            BY <1>2, Ids DEF IInv, FrameInv, f
        <3>1. f <= made
            BY <3>2, <3>3
        <3> QED
            BY <3>1, <3>2, <1>1, <1>2, <1>6, Ids DEF IInv, TaskInv
    <2>5. \A s \in Threads, g \in JobOrNull :
              run'[s][g].job # 0 => work'[run'[s][g].job].live
        BY <2>0, <1>2, <1>4, <1>6, Ids DEF IInv, TaskInv
    <2>6. ASSUME NEW k \in JobIds, work'[k].live,
                 ~(work'[k].owner \in Clients /\ work'[k].parent = 0)
          PROVE  /\ run'[work'[k].owner][work'[k].parent].job # 0
                 /\ run'[work'[k].owner][work'[k].parent].job < k
        <3>1. /\ work[k].live
              /\ ~(work[k].owner \in Clients /\ work[k].parent = 0)
              /\ work[k].owner \in Threads
              /\ work[k].parent \in JobOrNull
            BY <2>6, <1>4 DEF IInv, FrameInv, TypeOK, WorkType
        <3>2. work[k].parent < k /\ k <= top[work[k].owner]
            BY <3>1 DEF IInv, FrameInv
        <3>3. ~(work[k].owner = t /\ work[k].parent = f)
            <4>1. k \in Nat /\ f \in Nat
                BY <1>2, Ids
            <4>2. work[k].owner = t => k <= f
                BY <3>2 DEF f
            <4> QED
                BY <3>2, <4>1, <4>2
        <3> QED
            BY <3>1, <3>3, <1>4, <1>6 DEF IInv, TaskInv
    <2> QED
        BY <2>2, <2>3, <2>4, <2>5, <2>6 DEF TaskInv
<1>A. ActiveWorkersExact'
    <2> SUFFICES ASSUME NEW k \in JobIds
                 PROVE  work'[k].active_workers = Cardinality(ActiveFrames(k)')
        BY DEF ActiveWorkersExact
    <2>0. work[k].active_workers = Cardinality(ActiveFrames(k))
        BY DEF IInv, ActiveWorkersExact
    <2>1. CASE k = j
        <3>1. ActiveFrames(k)' = ActiveFrames(k) \cup {<<t, f>>}
            BY <2>1, <1>2, <1>6 DEF ActiveFrames
        <3>2. <<t, f>> \notin ActiveFrames(k)
            BY <1>7, Ids DEF ActiveFrames
        <3>3. Cardinality(ActiveFrames(k) \cup {<<t, f>>}) = Cardinality(ActiveFrames(k)) + 1
            BY <3>2, FramesFinite, FS_AddElement
        <3> QED
            BY <2>0, <2>1, <3>1, <3>3, <1>4
    <2>2. CASE k # j
        <3>1. ActiveFrames(k)' = ActiveFrames(k)
            <4>1. \A s \in Threads, g \in JobOrNull : run'[s][g].job = k <=> run[s][g].job = k
                BY <2>2, <1>6, <1>7, Ids
            <4> QED
                BY <4>1 DEF ActiveFrames
        <3> QED
            BY <2>0, <2>2, <3>1, <1>4
    <2> QED
        BY <2>1, <2>2
<1>Q. QueueInv'
    <2> DEFINE last == work[j].next + 1 = work[j].max
               Still(k) == work'[k].live /\ work'[k].next < work'[k].max
    <2>0. QueueInv' <=>
             /\ jobs' # 0 => Still(jobs')
             /\ \A k \in JobIds : Still(k) =>
                   /\ k <= jobs'
                   /\ work'[k].next_job # 0 => /\ Still(work'[k].next_job)
                                              /\ work'[k].next_job < k
                   /\ \A l \in JobIds : Still(l) /\ l < k => l <= work'[k].next_job
        BY DEF QueueInv, Pending
    <2>1. \A k \in JobIds : Still(k) <=> Pending(k) /\ ~(k = j /\ last)
        BY <1>2, <1>3, <1>4 DEF Pending
    <2> HIDE DEF Still
    <2>2. \A k \in JobIds : Pending(k) =>
             /\ k <= j
             /\ work[k].next_job \in JobOrNull
             /\ work[k].next_job # 0 => Pending(work[k].next_job) /\ work[k].next_job < k
             /\ \A l \in JobIds : Pending(l) /\ l < k => l <= work[k].next_job
        BY DEF IInv, QueueInv, TypeOK, WorkType
    <2>3. Pending(j)
        BY <1>2 DEF Pending
    <2>4. CASE last
        <3>1. jobs' = work[j].next_job
            BY <2>4, <1>1
        <3>2. \A k \in JobIds : Still(k) <=> Pending(k) /\ k # j
            BY <2>1, <2>4
        <3>3. ASSUME NEW k \in JobIds, Still(k)
              PROVE  k < j /\ k <= jobs'
            <4>1. Pending(k) /\ k # j
                BY <3>2, <3>3
            <4>2. k < j
                BY <4>1, <2>2, <1>2, Ids
            <4> QED
                BY <4>1, <4>2, <3>1, <2>2, <2>3, <1>2
        <3>4. jobs' # 0 => Still(jobs')
            <4> SUFFICES ASSUME jobs' # 0 PROVE Still(jobs')
                OBVIOUS
            <4>1. Pending(jobs') /\ jobs' < j /\ jobs' \in JobIds
                BY <3>1, <2>2, <2>3, <1>2, Ids
            <4> QED
                BY <4>1, <3>2, <1>2, Ids
        <3>5. ASSUME NEW k \in JobIds, Still(k)
              PROVE  /\ work'[k].next_job # 0 => /\ Still(work'[k].next_job)
                                                 /\ work'[k].next_job < k
                     /\ \A l \in JobIds : Still(l) /\ l < k => l <= work'[k].next_job
            <4>1. work'[k].next_job = work[k].next_job /\ Pending(k)
                BY <3>2, <3>5, <1>4
            <4>2. work[k].next_job # 0 =>
                      work[k].next_job \in JobIds /\ work[k].next_job # j
                <5> SUFFICES ASSUME work[k].next_job # 0
                             PROVE  work[k].next_job \in JobIds /\ work[k].next_job # j
                    OBVIOUS
                <5>1. work[k].next_job \in JobIds /\ work[k].next_job < k
                    BY <4>1, <2>2, Ids
                <5>2. k < j
                    BY <3>3, <3>5
                <5> QED
                    BY <5>1, <5>2, <1>2, Ids
            <4> QED
                BY <4>1, <4>2, <3>2, <2>2
        <3> QED
            BY <2>0, <3>3, <3>4, <3>5
    <2>5. CASE ~last
        <3>1. jobs' = j
            BY <2>5, <1>1
        <3> QED
            BY <3>1, <2>0, <2>1, <2>2, <2>3, <2>5, <1>2, <1>4, Ids
    <2> QED
        BY <2>4, <2>5
<1>W. WaitInv'
    <2>1. \A k \in JobIds : Running(k) => Running(k)'
        BY <1>3, <1>4 DEF Running
    <2>2. \A s \in Threads : top[s] \in JobOrNull
        BY DEF IInv, TypeOK
    <2> QED
        BY <1>1, <1>5, <2>1, <2>2, Ids DEF IInv, WaitInv, OwnersWoken
<1>S. ShutInv' /\ PoolInv'
    BY <1>1, <1>5 DEF IInv, ShutInv, PoolInv, Threads
<1> QED
    BY <1>T, <1>L, <1>F, <1>R, <1>A, <1>Q, <1>W, <1>S DEF IInv

-----------------------------------------------------------------------------
(***************************************************************************)
(* FinishTask: an owner that sleeps although its job is now complete has   *)
(* been woken, since only the owner itself finishes without a broadcast.   *)
(***************************************************************************)
LEMMA FinishTaskStep ==
    ASSUME IInv, NEW t \in Threads, NEW r \in Results, FinishTask(t, r)
    PROVE  IInv'
<1> DEFINE f == top[t]
           j == run[t][f].job
           i == run[t][f].idx
           st == StatusAfter(work[j].exit_status, r)
           done == [work[j] EXCEPT !.exit_status = st, !.active_workers = @ - 1]
<1>1. /\ pc[t] = "task"
      /\ mutex = NULL
      /\ mutex' = t
      /\ run' = [run EXCEPT ![t][f] = NoTask]
      /\ task' = [task EXCEPT ![j][i] = "done"]
      /\ returned' = [returned EXCEPT ![j] = @ \cup {r}]
      /\ UNCHANGED <<jobs, made, a_team_size, target_a_team_size, threads_created,
                     desired_num_threads, shutdown, initialized, joined, top>>
    BY DEF FinishTask, queueVars
<1>2. /\ f \in JobOrNull
      /\ j \in JobIds
      /\ work[j].live
      /\ work[j].active_workers > 0
    <2>1. f \in JobOrNull
        BY DEF IInv, TypeOK
    <2>2. j \in JobOrNull
        BY <2>1 DEF IInv, TypeOK
    <2>3. j # 0
        BY <1>1 DEF IInv, TaskInv
    <2> QED
        BY <2>1, <2>2, <2>3, ActiveCounts, Ids DEF IInv, TaskInv
<1>3. /\ work[j] \in WorkType
      /\ st \in Results
      /\ work' = [work EXCEPT ![j] = done]
      /\ done \in WorkType
    <2>1. work[j] \in WorkType
        BY <1>2 DEF IInv, TypeOK
    <2>2. st \in Results
        BY <2>1 DEF WorkType, StatusAfter
    <2>3. work' = [work EXCEPT ![j] = done]
        BY <1>2 DEF FinishTask, IInv, TypeOK
    <2> HIDE DEF st
    <2> QED
        BY <1>2, <2>1, <2>2, <2>3, WorkUpdates
<1>4. \A k \in JobIds :
          /\ work'[k].live <=> work[k].live
          /\ work'[k].owner = work[k].owner
          /\ work'[k].parent = work[k].parent
          /\ work'[k].next = work[k].next
          /\ work'[k].max = work[k].max
          /\ work'[k].next_job = work[k].next_job
          /\ work'[k].active_workers = IF k = j THEN work[k].active_workers - 1
                                       ELSE work[k].active_workers
    <2> HIDE DEF st, j
    <2> QED
        BY <1>2, <1>3 DEF IInv, TypeOK, WorkType
<1>5. \A s \in Threads :
          pc'[s] = IF s = t THEN "loop"
                   ELSE IF pc[s] = "wait_owners" /\ WakesOwners(t, j) THEN "wake"
                   ELSE pc[s]
    BY DEF FinishTask, Broadcast, IInv, TypeOK
<1>6. \A s \in Threads, g \in JobOrNull :
          run'[s][g] = IF s = t /\ g = f THEN NoTask ELSE run[s][g]
    BY <1>1, <1>2 DEF IInv, TypeOK
<1>T. TypeOK'
    <2>1. work' \in [JobIds -> WorkType]
        <3> HIDE DEF j, done
        <3> QED
            BY <1>2, <1>3 DEF IInv, TypeOK
    <2>2. run' \in [Threads -> [JobOrNull -> [job : JobOrNull, idx : Indices \cup {0}]]]
        <3>1. NoTask \in [job : JobOrNull, idx : Indices \cup {0}]
            BY Constants DEF NoTask, JobOrNull
        <3> HIDE DEF f
        <3> QED
            BY <1>1, <1>2, <3>1 DEF IInv, TypeOK
    <2>3. task' \in [JobIds -> [Indices -> {"idle", "running", "done"}]]
        <3> HIDE DEF j, i
        <3> QED
            BY <1>1, <1>2 DEF IInv, TypeOK
    <2>4. returned' \in [JobIds -> SUBSET Results]
        <3> HIDE DEF j
        <3> QED
            BY <1>1, <1>2 DEF IInv, TypeOK
    <2>5. pc' \in [Threads -> Locations]
        BY <1>5 DEF FinishTask, Broadcast, IInv, TypeOK, Locations
    <2> HIDE DEF f, j, i, done
    <2> QED
        BY <1>1, <2>1, <2>2, <2>3, <2>4, <2>5 DEF IInv, TypeOK
<1> HIDE DEF f, j, done
<1>L. LockInv'
    BY <1>1, <1>5, Constants DEF IInv, LockInv
<1>F. FrameInv'
    <2>1. /\ \A s \in Threads : top[s] \in JobOrNull
          /\ \A k \in JobIds : work[k].parent \in JobOrNull
        BY DEF IInv, TypeOK, WorkType
    <2> QED
        BY <1>1, <1>4, <2>1, Ids DEF IInv, FrameInv
<1>R. TaskInv'
    <2>0. \A s \in Threads, g \in JobOrNull : run[s][g].job \in JobOrNull
        BY DEF IInv, TypeOK
    <2>1. \A s \in Threads : top[s] \in JobOrNull
        BY DEF IInv, TypeOK
    <2>2. \A s \in Threads : pc'[s] = "task" <=> run'[s][top'[s]].job # 0
        BY <1>1, <1>5, <1>6, <2>1 DEF IInv, TaskInv, f, NoTask
    <2>3. \A s \in Clients : run'[s][0].job = 0
        BY <1>6, Constants DEF IInv, TaskInv, Threads, JobOrNull, NoTask
    <2>4. \A s \in Threads, g \in JobOrNull : g > made' => run'[s][g].job = 0
        BY <1>1, <1>6 DEF IInv, TaskInv, NoTask
    <2>5. \A s \in Threads, g \in JobOrNull :
              run'[s][g].job # 0 => work'[run'[s][g].job].live
        BY <2>0, <1>4, <1>6, Ids DEF IInv, TaskInv, NoTask
    <2>6. ASSUME NEW k \in JobIds, work'[k].live,
                 ~(work'[k].owner \in Clients /\ work'[k].parent = 0)
          PROVE  /\ run'[work'[k].owner][work'[k].parent].job # 0
                 /\ run'[work'[k].owner][work'[k].parent].job < k
        <3>1. /\ work[k].live
              /\ ~(work[k].owner \in Clients /\ work[k].parent = 0)
              /\ work[k].owner \in Threads
              /\ work[k].parent \in JobOrNull
            BY <2>6, <1>4 DEF IInv, FrameInv, TypeOK, WorkType
        <3>2. work[k].parent < k /\ k <= top[work[k].owner]
            BY <3>1 DEF IInv, FrameInv
        <3>3. ~(work[k].owner = t /\ work[k].parent = f)
            <4>1. k \in Nat /\ f \in Nat
                BY <1>2, Ids
            <4>2. work[k].owner = t => k <= f
                BY <3>2 DEF f
            <4> QED
                BY <3>2, <4>1, <4>2
        <3> QED
            BY <3>1, <3>3, <1>4, <1>6 DEF IInv, TaskInv
    <2> QED
        BY <2>2, <2>3, <2>4, <2>5, <2>6 DEF TaskInv
<1>A. ActiveWorkersExact'
    <2> SUFFICES ASSUME NEW k \in JobIds
                 PROVE  work'[k].active_workers = Cardinality(ActiveFrames(k)')
        BY DEF ActiveWorkersExact
    <2>0. work[k].active_workers = Cardinality(ActiveFrames(k))
        BY DEF IInv, ActiveWorkersExact
    <2>N. NoTask.job # k
        BY Ids DEF NoTask
    <2>1. CASE k = j
        <3>1. <<t, f>> \in ActiveFrames(k)
            BY <2>1, <1>2 DEF ActiveFrames, j
        <3>2. ActiveFrames(k)' = ActiveFrames(k) \ {<<t, f>>}
            BY <2>N, <1>2, <1>6 DEF ActiveFrames
        <3>3. Cardinality(ActiveFrames(k) \ {<<t, f>>}) = Cardinality(ActiveFrames(k)) - 1
            BY <3>1, FramesFinite, FS_RemoveElement
        <3> QED
            BY <2>0, <2>1, <3>2, <3>3, <1>4
    <2>2. CASE k # j
        <3>1. \A s \in Threads, g \in JobOrNull : run'[s][g].job = k <=> run[s][g].job = k
            BY <2>N, <2>2, <1>6 DEF j
        <3>2. ActiveFrames(k)' = ActiveFrames(k)
            BY <3>1 DEF ActiveFrames
        <3> QED
            BY <2>0, <2>2, <3>2, <1>4
    <2> QED
        BY <2>1, <2>2
<1>Q. QueueInv'
    <2>1. /\ jobs \in JobOrNull
          /\ \A k \in JobIds : work[k].next_job \in JobOrNull
        BY DEF IInv, TypeOK, WorkType
    <2> QED
        BY <1>1, <1>4, <2>1, Ids DEF IInv, QueueInv, Pending
<1>W. WaitInv'
    <2> SUFFICES ASSUME NEW s \in Threads, pc'[s] \in {"wait_owners", "wait_a_team"}
                 PROVE  /\ pc'[s] = "wait_owners" => Running(top[s])' /\ top'[s] # 0
                        /\ pc'[s] = "wait_a_team" => jobs' = 0
        BY DEF WaitInv, OwnersWoken
    <2>1. s # t /\ pc[s] = pc'[s]
        BY <1>5
    <2>2. CASE pc'[s] = "wait_a_team"
        BY <1>1, <2>1, <2>2 DEF IInv, WaitInv, OwnersWoken
    <2>3. CASE pc'[s] = "wait_owners"
        <3>1. top[s] # 0 /\ Running(top[s]) /\ top[s] \in JobIds
            BY <2>1, <2>3, Ids DEF IInv, TypeOK, WaitInv, OwnersWoken
        <3>2. ~WakesOwners(t, j)
            BY <1>5, <2>1, <2>3
        <3>3. top[s] = j => j # top[t]
            BY <2>1, <3>1, <1>2 DEF IInv, FrameInv
        <3>4. /\ work[j].next \in Nat
              /\ work[j].max \in Nat
              /\ work[j].active_workers \in Nat
            BY <1>3, Constants DEF WorkType
        <3>5. Running(top[s])'
            BY <3>1, <3>2, <3>3, <3>4, <1>1, <1>2, <1>4 DEF Running, WakesOwners, Completes
        <3> QED
            BY <3>1, <3>5, <1>1, <2>3
    <2> QED
        BY <2>2, <2>3
<1>S. ShutInv' /\ PoolInv'
    BY <1>1, <1>5 DEF IInv, ShutInv, PoolInv, Threads
<1> QED
    BY <1>T, <1>L, <1>F, <1>R, <1>A, <1>Q, <1>W, <1>S DEF IInv

-----------------------------------------------------------------------------
(***************************************************************************)
(* ParFor: the new job is the newest, and it has a task to hand out.       *)
(***************************************************************************)
LEMMA WantedType ==
    ASSUME IInv
    PROVE  Wanted \in 0..MAX_THREADS
BY PoolAssumption DEF IInv, TypeOK, Wanted, clamp_num_threads

LEMMA ParForStep ==
    ASSUME IInv, 0 \notin Sizes, NEW t \in Threads, NEW n \in Sizes, ParFor(t, n)
    PROVE  IInv'
<1> DEFINE j == made + 1
           head == IF initialized THEN jobs ELSE 0
           created == IF initialized THEN threads_created ELSE 0
           spawned == created..(Wanted - 2)
           job == [live |-> TRUE, next |-> 0, max |-> n, active_workers |-> 0,
                   exit_status |-> 0, next_job |-> head, owner |-> t,
                   parent |-> top[t], wanted |-> Wanted]
<1>1. /\ mutex = NULL
      /\ t \in Callers
      /\ made < MaxJobs
      /\ mutex' = t
      /\ made' = j
      /\ initialized' = TRUE
      /\ desired_num_threads' = Wanted
      /\ threads_created' = IF created < Wanted - 1 THEN Wanted - 1 ELSE created
      /\ jobs' = j
      /\ work' = [work EXCEPT ![j] = job]
      /\ top' = [top EXCEPT ![t] = j]
      /\ UNCHANGED <<joined, run, task, returned>>
    BY DEF ParFor, historyVars
<1>2. /\ j \in JobIds
      /\ made \in Nat
      /\ n \in 0..MaxSize
      /\ n > 0
      /\ Wanted \in 0..MAX_THREADS
      /\ created \in 0..(MAX_THREADS - 1)
      /\ \A s \in Threads : top[s] \in JobOrNull
      /\ head \in JobOrNull
    <2>1. made \in Nat /\ j \in JobIds
        BY <1>1, Ids, Constants DEF IInv, TypeOK, JobIds
    <2>2. n \in 0..MaxSize /\ n > 0
        BY PoolAssumption
    <2>3. 0 \in 0..(MAX_THREADS - 1) /\ 0 \in JobOrNull
        BY PoolAssumption DEF JobOrNull
    <2> QED
        BY <2>1, <2>2, <2>3, WantedType DEF IInv, TypeOK
<1>3. /\ \A c \in Clients : pc[c] \notin {"shut_lock", "shut_join"}
      /\ joined = 0
    BY <1>1, NoCallInShutdown DEF IInv, PoolInv
<1>4. ~initialized => \A k \in JobIds : ~work[k].live
    BY Quiet DEF IInv, PoolInv
<1>5. pc[t] \in {"user", "task"}
    BY <1>1 DEF Callers
<1>6. \A w \in spawned : w \in Workers /\ pc[w] = "none"
    <2> SUFFICES ASSUME NEW w \in spawned PROVE w \in Workers /\ pc[w] = "none"
        OBVIOUS
    <2>1. w \in Workers /\ w >= created
        BY <1>2, PoolAssumption DEF Workers
    <2> QED
        BY <2>1, Constants DEF IInv, PoolInv
<1>7. \A s \in Threads :
         /\ s = t => pc'[s] = "loop"
         /\ s # t /\ s \in spawned => pc'[s] = "start"
         /\ s # t /\ s \notin spawned =>
               /\ pc[s] \notin {"wait_a_team", "wait_b_team"} => pc'[s] = pc[s]
               /\ pc[s] = "wait_a_team" => pc'[s] = "wake"
               /\ pc[s] = "wait_b_team" => pc'[s] \in {"wait_b_team", "wake_b_team"}
    BY DEF ParFor, Broadcast
<1>8. \A k \in JobIds : work'[k] = IF k = j THEN job ELSE work[k]
    BY <1>1, <1>2 DEF IInv, TypeOK
<1>9. \A s \in Threads : top'[s] = IF s = t THEN j ELSE top[s]
    BY <1>1 DEF IInv, TypeOK
<1>10. \A k \in JobIds : work[k].live => k <= made /\ k # j
    BY <1>2, Ids DEF IInv, FrameInv
<1>11. \A s \in Threads : top[s] # 0 => top[s] \in JobIds /\ top[s] # j
    BY <1>2, <1>10, Ids DEF IInv, FrameInv
<1>12. top[t] < j
    BY <1>2, <1>10, <1>11, Ids DEF IInv, FrameInv
<1>T. TypeOK'
    <2>1. work' \in [JobIds -> WorkType]
        <3>1. job \in WorkType
            BY <1>2, Constants DEF WorkType
        <3> HIDE DEF job, j
        <3> QED
            BY <1>1, <1>2, <3>1 DEF IInv, TypeOK
    <2>2. top' \in [Threads -> JobOrNull]
        <3>1. j \in JobOrNull
            BY <1>2, Ids
        <3> HIDE DEF j
        <3> QED
            BY <1>1, <3>1 DEF IInv, TypeOK
    <2>3. pc' \in [Threads -> Locations]
        <3>1. \A s \in Threads : pc'[s] \in Locations
            BY <1>7 DEF IInv, TypeOK, Locations, Waits
        <3>2. pc' = [s \in Threads |-> pc'[s]]
            BY DEF ParFor
        <3> QED
            BY <3>1, <3>2
    <2>4. threads_created' \in 0..(MAX_THREADS - 1)
        <3> HIDE DEF created
        <3>1. created < Wanted - 1 => Wanted - 1 \in 0..(MAX_THREADS - 1)
            BY <1>2, PoolAssumption
        <3> QED
            BY <1>1, <1>2, <3>1
    <2>5. a_team_size' \in Int
        BY <1>2 DEF ParFor, TeamAtStart, IInv, TypeOK
    <2>6. target_a_team_size' \in Nat
        BY <1>2, PoolAssumption DEF ParFor, TargetSize
    <2>7. shutdown' \in BOOLEAN
        BY DEF ParFor
    <2>8. jobs' \in JobOrNull /\ made' \in JobOrNull
        BY <1>1, <1>2, Ids
    <2> HIDE DEF j, created, job
    <2> QED
        BY <1>1, <1>2, <2>1, <2>2, <2>3, <2>4, <2>5, <2>6, <2>7, <2>8 DEF IInv, TypeOK
<1>P. \A k \in JobIds :
          /\ work'[k].live <=> k = j \/ work[k].live
          /\ k # j => /\ work'[k].owner = work[k].owner
                      /\ work'[k].parent = work[k].parent
                      /\ work'[k].next = work[k].next
                      /\ work'[k].max = work[k].max
                      /\ work'[k].next_job = work[k].next_job
                      /\ work'[k].active_workers = work[k].active_workers
    BY <1>8
<1>J. /\ work'[j].owner = t
      /\ work'[j].parent = top[t]
      /\ work'[j].next = 0
      /\ work'[j].max = n
      /\ work'[j].next_job = head
      /\ work'[j].active_workers = 0
    BY <1>2, <1>8
<1> HIDE DEF job, spawned
<1>N. /\ t \notin spawned
      /\ \A s \in Threads : s \in spawned => pc[s] = "none"
    BY <1>5, <1>6
<1>L. LockInv'
    <2>1. \A s \in Threads : pc'[s] = "loop" <=> mutex' = s
        BY <1>1, <1>5, <1>7, <1>N, Constants DEF IInv, LockInv
    <2>2. \A s \in Threads : pc'[s] \in {"user", "shut_lock", "shut_join"}
                                <=> s \in Clients /\ top'[s] = 0
        BY <1>2, <1>7, <1>9, <1>N, Ids, Constants DEF IInv, LockInv
    <2>3. \A s \in Threads : pc'[s] \in {"none", "start", "exited"}
                                => s \in Workers /\ top'[s] = 0
        BY <1>7, <1>9, <1>N DEF IInv, LockInv
    <2> QED
        BY <2>1, <2>2, <2>3 DEF LockInv
<1> HIDE DEF j
<1>F. FrameInv'
    <2>1. \A k \in JobIds : work'[k].live => k <= made' /\ work'[k].owner \in Threads
        BY <1>1, <1>2, <1>10, <1>P, <1>J, Ids DEF IInv, FrameInv, j
    <2>2. \A s \in Threads : top'[s] # 0 => work'[top'[s]].live /\ work'[top'[s]].owner = s
        BY <1>2, <1>9, <1>11, <1>P, <1>J DEF IInv, FrameInv
    <2>3. ASSUME NEW k \in JobIds, work'[k].live
          PROVE  /\ k <= top'[work'[k].owner]
                 /\ work'[k].parent < k
                 /\ work'[k].parent # 0 => /\ work'[work'[k].parent].live
                                           /\ work'[work'[k].parent].owner = work'[k].owner
                 /\ \A l \in JobIds : work'[l].live /\ work'[l].owner = work'[k].owner
                                        /\ l < k => l <= work'[k].parent
        <3>1. CASE k = j
            <4>1. k <= top'[work'[k].owner] /\ work'[k].parent < k
                BY <3>1, <1>2, <1>9, <1>12, <1>J, Ids
            <4>2. work'[k].parent # 0 => /\ work'[work'[k].parent].live
                                         /\ work'[work'[k].parent].owner = work'[k].owner
                BY <3>1, <1>11, <1>J, <1>P DEF IInv, FrameInv
            <4>3. \A l \in JobIds : work'[l].live /\ work'[l].owner = work'[k].owner
                                      /\ l < k => l <= work'[k].parent
                BY <3>1, <1>2, <1>J, <1>P, Ids DEF IInv, FrameInv
            <4> QED
                BY <4>1, <4>2, <4>3
        <3>2. CASE k # j
            <4>1. /\ work[k].live
                  /\ work'[k].owner = work[k].owner
                  /\ work'[k].parent = work[k].parent
                  /\ k <= made
                  /\ work[k].owner \in Threads
                BY <2>3, <3>2, <1>P, <1>10 DEF IInv, FrameInv
            <4>2. k <= top'[work[k].owner]
                BY <4>1, <1>2, <1>9, Ids DEF IInv, FrameInv, j
            <4>3. /\ work[k].parent < k
                  /\ work[k].parent \in JobOrNull
                  /\ work[k].parent # 0 => /\ work[work[k].parent].live
                                           /\ work[work[k].parent].owner = work[k].owner
                BY <4>1 DEF IInv, FrameInv, TypeOK, WorkType
            <4>4. work'[k].parent # 0 => /\ work'[work'[k].parent].live
                                         /\ work'[work'[k].parent].owner = work'[k].owner
                BY <4>1, <4>3, <1>10, <1>P, Ids
            <4>5. \A l \in JobIds : work'[l].live /\ work'[l].owner = work'[k].owner
                                      /\ l < k => l <= work'[k].parent
                <5> SUFFICES ASSUME NEW l \in JobIds, work'[l].live, l < k,
                                    work'[l].owner = work[k].owner
                             PROVE  l <= work[k].parent
                    BY <4>1
                <5>1. l # j
                    BY <4>1, <1>2, Ids DEF j
                <5> QED
                    BY <5>1, <4>1, <1>P DEF IInv, FrameInv
            <4> QED
                BY <4>1, <4>2, <4>3, <4>4, <4>5
        <3> QED
            BY <3>1, <3>2
    <2> QED
        BY <2>1, <2>2, <2>3 DEF FrameInv
<1>R. TaskInv'
    <2>0. \A s \in Threads, f \in JobOrNull : run[s][f].job \in JobOrNull
        BY DEF IInv, TypeOK
    <2>1. \A s \in Threads, f \in JobOrNull : f > made => run'[s][f].job = 0
        BY <1>1 DEF IInv, TaskInv
    <2>2. \A s \in Threads : pc'[s] = "task" <=> run'[s][top'[s]].job # 0
        <3>1. run'[t][j].job = 0
            BY <2>1, <1>2, Ids DEF j
        <3>2. \A s \in Threads : s # t => (pc'[s] = "task" <=> pc[s] = "task")
            BY <1>7, <1>N
        <3> QED
            BY <3>1, <3>2, <1>1, <1>7, <1>9 DEF IInv, TaskInv
    <2>3. \A s \in Threads, f \in JobOrNull : f > made' => run'[s][f].job = 0
        BY <2>1, <1>1, <1>2, Ids DEF j
    <2>4. \A s \in Threads, f \in JobOrNull :
              run'[s][f].job # 0 => work'[run'[s][f].job].live
        BY <2>0, <1>1, <1>P, Ids DEF IInv, TaskInv
    <2>5. ASSUME NEW k \in JobIds, work'[k].live,
                 ~(work'[k].owner \in Clients /\ work'[k].parent = 0)
          PROVE  /\ run'[work'[k].owner][work'[k].parent].job # 0
                 /\ run'[work'[k].owner][work'[k].parent].job < k
        <3>1. CASE k = j
            <4>1. pc[t] = "task"
                BY <2>5, <3>1, <1>5, <1>J DEF IInv, LockInv
            <4>2. run[t][top[t]].job # 0 /\ work[run[t][top[t]].job].live
                BY <4>1, <1>2 DEF IInv, TaskInv
            <4>3. run[t][top[t]].job \in JobIds
                BY <4>2, <2>0, <1>2, Ids
            <4>4. run[t][top[t]].job < j
                BY <4>2, <4>3, <1>2, <1>10, Ids DEF j
            <4> QED
                BY <3>1, <4>2, <4>4, <1>1, <1>J
        <3>2. CASE k # j
            <4>1. /\ work[k].live
                  /\ work'[k].owner = work[k].owner
                  /\ work'[k].parent = work[k].parent
                BY <2>5, <3>2, <1>P
            <4> QED
                BY <2>5, <4>1, <1>1 DEF IInv, TaskInv
        <3> QED
            BY <3>1, <3>2
    <2> QED
        BY <2>2, <2>3, <2>4, <2>5, <1>1 DEF IInv, TaskInv
<1>A. ActiveWorkersExact'
    <2> SUFFICES ASSUME NEW k \in JobIds
                 PROVE  work'[k].active_workers = Cardinality(ActiveFrames(k)')
        BY DEF ActiveWorkersExact
    <2>1. ActiveFrames(k)' = ActiveFrames(k)
        BY <1>1 DEF ActiveFrames
    <2>2. CASE k = j
        <3>1. \A s \in Threads, f \in JobOrNull : run[s][f].job # k
            BY <2>2, <1>10, Ids DEF IInv, TaskInv
        <3>2. ActiveFrames(k) = {}
            BY <3>1 DEF ActiveFrames
        <3> QED
            BY <2>1, <2>2, <3>2, <1>J, FS_EmptySet
    <2>3. CASE k # j
        BY <2>1, <2>3, <1>P DEF IInv, ActiveWorkersExact
    <2> QED
        BY <2>2, <2>3
<1>Q. QueueInv'
    <2> DEFINE Still(k) == work'[k].live /\ work'[k].next < work'[k].max
    <2>0. QueueInv' <=>
             /\ jobs' # 0 => Still(jobs')
             /\ \A k \in JobIds : Still(k) =>
                   /\ k <= jobs'
                   /\ work'[k].next_job # 0 => /\ Still(work'[k].next_job)
                                              /\ work'[k].next_job < k
                   /\ \A l \in JobIds : Still(l) /\ l < k => l <= work'[k].next_job
        BY DEF QueueInv, Pending
    <2>1. \A k \in JobIds : Still(k) <=> k = j \/ Pending(k)
        BY <1>2, <1>10, <1>P, <1>J, Constants DEF Pending
    <2> HIDE DEF Still
    <2>2. \A k \in JobIds : Pending(k) => k < j /\ k <= head
        <3> SUFFICES ASSUME NEW k \in JobIds, Pending(k) PROVE k < j /\ k <= head
            OBVIOUS
        <3>1. work[k].live
            BY DEF Pending
        <3>2. initialized /\ k <= jobs
            BY <3>1, <1>4 DEF IInv, QueueInv
        <3> QED
            BY <3>1, <3>2, <1>2, <1>10, Ids DEF j
    <2>3. head # 0 => head \in JobIds /\ Pending(head)
        BY <1>2, Ids DEF IInv, QueueInv
    <2>4. jobs' = j
        BY <1>1
    <2>5. ASSUME NEW k \in JobIds, Still(k)
          PROVE  /\ k <= jobs'
                 /\ work'[k].next_job # 0 => /\ Still(work'[k].next_job)
                                            /\ work'[k].next_job < k
                 /\ \A l \in JobIds : Still(l) /\ l < k => l <= work'[k].next_job
        <3>1. CASE k = j
            BY <3>1, <2>1, <2>2, <2>3, <2>4, <1>2, <1>J, Ids
        <3>2. CASE k # j
            <4>1. Pending(k) /\ work'[k].next_job = work[k].next_job
                BY <2>1, <2>5, <3>2, <1>P
            <4>2. /\ work[k].next_job \in JobOrNull
                  /\ work[k].next_job # 0 => Pending(work[k].next_job) /\ work[k].next_job < k
                  /\ \A l \in JobIds : Pending(l) /\ l < k => l <= work[k].next_job
                BY <4>1 DEF IInv, QueueInv, TypeOK, WorkType
            <4>3. k < j
                BY <4>1, <2>2
            <4>4. \A l \in JobIds : Still(l) /\ l < k => Pending(l)
                BY <4>3, <2>1, <1>2, Ids
            <4>5. work[k].next_job # 0 => Still(work[k].next_job)
                BY <4>2, <2>1, Ids
            <4> QED
                BY <4>1, <4>2, <4>3, <4>4, <4>5, <2>4, <1>2, Ids
        <3> QED
            BY <3>1, <3>2
    <2> QED
        BY <2>0, <2>1, <2>4, <2>5, <1>2
<1>W. WaitInv'
    <2> SUFFICES ASSUME NEW s \in Threads, pc'[s] \in {"wait_owners", "wait_a_team"}
                 PROVE  pc'[s] = "wait_owners" /\ Running(top[s])' /\ top'[s] # 0
        BY DEF WaitInv, OwnersWoken
    <2>1. s # t /\ pc'[s] = "wait_owners" /\ pc[s] = "wait_owners"
        BY <1>7, <1>N DEF IInv, TypeOK, Locations, Waits
    <2>2. top'[s] = top[s] /\ top[s] # 0 /\ Running(top[s])
        BY <2>1, <1>9 DEF IInv, WaitInv, OwnersWoken
    <2> QED
        BY <2>1, <2>2, <1>11, <1>P DEF Running
<1>S. ShutInv'
    BY <1>3, <1>7, <1>N, Constants DEF ShutInv, Threads
<1>O. PoolInv'
    <2> SUFFICES ASSUME NEW w \in Workers, w >= threads_created'
                 PROVE  pc'[w] = "none"
        BY <1>1, <1>3, Constants DEF PoolInv
    <2>1. w >= created /\ w \notin spawned
        BY <1>1, <1>2, Constants DEF spawned
    <2>2. pc[w] = "none"
        BY <2>1 DEF IInv, PoolInv
    <2> QED
        BY <2>1, <2>2, <1>5, <1>7 DEF Threads
<1> QED
    BY <1>T, <1>L, <1>F, <1>R, <1>A, <1>Q, <1>W, <1>S, <1>O DEF IInv
-----------------------------------------------------------------------------
LEMMA NextIInv ==
    ASSUME IInv, 0 \notin Sizes, [Next]_vars
    PROVE  IInv'
<1> USE DEF Next, ThreadStep, ShutdownStep
<1>1. ASSUME NEW t \in Threads, ThreadStep(t)
      PROVE  IInv'
    BY <1>1, WorkerStartStep, ReturnStep, WorkerExitStep, WaitStep, RejoinStep,
       ClaimTaskStep, FinishTaskStep
<1>2. ASSUME NEW t \in Threads, SpuriousWakeup(t)
      PROVE  IInv'
    BY <1>2, SpuriousWakeupStep
<1>3. ASSUME NEW t \in Threads, NEW n \in Sizes, ParFor(t, n)
      PROVE  IInv'
    BY <1>3, ParForStep
<1>4. ASSUME NEW c \in Clients, NEW n \in Requests, SetNumThreads(c, n)
      PROVE  IInv'
    BY <1>4, SetNumThreadsStep
<1>5. ASSUME NEW c \in Clients, ShutdownCall(c) \/ ShutdownStep(c)
      PROVE  IInv'
    BY <1>5, ShutdownCallStep, ShutdownSignalStep, ShutdownJoinStep, ShutdownDestroyStep
<1>6. CASE UNCHANGED vars
    <2> USE <1>6 DEF vars, queueVars, historyVars
    <2>1. TypeOK' /\ LockInv'
        BY DEF IInv, TypeOK, LockInv
    <2>2. TaskInv' /\ ShutInv' /\ PoolInv'
        BY DEF IInv, TaskInv, ShutInv, PoolInv
    <2>3. WaitInv'
        BY DEF IInv, WaitInv, OwnersWoken, Running
    <2> QED
        BY <2>1, <2>2, <2>3, SameJobs DEF IInv
<1> HIDE DEF ThreadStep, ShutdownStep
<1> QED
    BY <1>1, <1>2, <1>3, <1>4, <1>5, <1>6

LEMMA Invariance ==
    ASSUME 0 \notin Sizes
    PROVE  Spec => []IInv
<1> USE 0 \notin Sizes
<1>1. Init => IInv
    BY InitIInv
<1>2. IInv /\ [Next]_vars => IInv'
    BY NextIInv
<1> QED
    BY <1>1, <1>2, PTL DEF Spec

-----------------------------------------------------------------------------
\* The runtime never spawns more threads than work_queue_t::threads holds, and
\* every variable keeps its type.
THEOREM TypeCorrect ==
    ASSUME 0 \notin Sizes
    PROVE  Spec => []TypeOK
<1>1. IInv => TypeOK
    BY DEF IInv
<1> QED
    BY <1>1, Invariance, PTL

\* work::active_workers counts the frames inside a task of the job.
THEOREM ActiveWorkersCorrect ==
    ASSUME 0 \notin Sizes
    PROVE  Spec => []ActiveWorkersExact
<1>1. IInv => ActiveWorkersExact
    BY DEF IInv
<1> QED
    BY <1>1, Invariance, PTL

\* default_do_par_for never returns while its stack-allocated job is reachable.
THEOREM JobsDoNotDangle ==
    ASSUME 0 \notin Sizes
    PROVE  Spec => []NoDanglingJob
<1>1. IInv => NoDanglingJob
    BY DEF IInv, TaskInv, QueueInv, NoDanglingJob, Pending
<1> QED
    BY <1>1, Invariance, PTL

\* The list holds exactly the jobs with tasks to hand out, newest first.
THEOREM QueueCorrect ==
    ASSUME 0 \notin Sizes
    PROVE  Spec => []QueueExact
<1>1. ASSUME IInv PROVE QueueExact
    <2>1. \A j \in JobIds : Pending(j) => j < made + 1 /\ j \in Nat /\ made \in Nat
        BY <1>1, Ids DEF IInv, TypeOK, FrameInv, Pending
    <2>2. /\ jobs \in JobOrNull
          /\ \A j \in JobIds : work[j].next_job \in JobOrNull
        BY <1>1 DEF IInv, TypeOK, WorkType
    <2> QED
        BY <1>1, <2>1, <2>2, Ids DEF IInv, QueueInv, QueueExact
<1> QED
    BY <1>1, Invariance, PTL

\* halide_shutdown_thread_pool leaves no thread, no lock and no job behind.
THEOREM ShutdownCorrect ==
    ASSUME 0 \notin Sizes
    PROVE  Spec => []ShutdownIsComplete
<1>1. ASSUME IInv PROVE ShutdownIsComplete
    <2> SUFFICES ASSUME ~initialized
                 PROVE  (\A w \in Workers : pc[w] = "none") /\ mutex = NULL /\ jobs = 0
        BY DEF ShutdownIsComplete
    <2>1. /\ \A w \in Workers : pc[w] = "none"
          /\ \A c \in Clients : pc[c] = "user"
        BY <1>1 DEF IInv, PoolInv
    <2>2. mutex = NULL
        BY <1>1, <2>1 DEF IInv, TypeOK, LockInv, Threads
    <2>3. jobs = 0
        BY <1>1, <2>1, Quiet, Ids DEF IInv, TypeOK, QueueInv, Pending
    <2> QED
        BY <2>1, <2>2, <2>3
<1> QED
    BY <1>1, Invariance, PTL
-----------------------------------------------------------------------------
(***************************************************************************)
(* The thread pool implements the contract of halide_do_par_for, and its   *)
(* teams are conserved.                                                    *)
(***************************************************************************)
\* Tasks are handed out in order, from 0 on; a job not yet made has none.
HandedOut ==
    \A j \in JobIds :
        /\ work[j].next <= work[j].max
        /\ \A i \in Indices : task[j][i] = "idle" <=> work[j].next <= i
        /\ j > made => work[j].next = 0 /\ returned[j] = {}

\* Frame f of thread t executes task i of job j.
Executes(t, f, j, i) == run[t][f].job = j /\ run[t][f].idx = i

\* A task is running exactly if a frame executes it, and then one frame does.
OneFrameEach ==
    /\ \A t \in Threads, f \in JobOrNull : run[t][f].job # 0 =>
          /\ run[t][f].idx \in Indices
          /\ task[run[t][f].job][run[t][f].idx] = "running"
    /\ \A j \in JobIds, i \in Indices : task[j][i] = "running" =>
          \E t \in Threads, f \in JobOrNull : Executes(t, f, j, i)
    /\ \A s, t \in Threads, e, f \in JobOrNull :
          run[s][e].job # 0 /\ run[s][e] = run[t][f] => s = t /\ e = f

\* exit_status is zero or the value of a failed task.
StatusInv ==
    \A j \in JobIds :
        /\ work[j].exit_status = 0 => returned[j] \subseteq {0}
        /\ work[j].exit_status # 0 => work[j].exit_status \in returned[j]

HInv == HandedOut /\ OneFrameEach /\ StatusInv

LEMMA Types ==
    ASSUME IInv
    PROVE  /\ \A j \in JobIds : /\ work[j].next \in 0..MaxSize /\ work[j].max \in 0..MaxSize
                                /\ work[j].active_workers \in Nat
                                /\ work[j].exit_status \in Results
                                /\ work[j].live \in BOOLEAN
           /\ \A t \in Threads : /\ top[t] \in JobOrNull
                                 /\ \A f \in JobOrNull : run[t][f].job \in JobOrNull
           /\ made \in Nat /\ MaxSize \in Nat /\ Indices \subseteq Nat
           /\ \A i : i \in Indices <=> i \in Nat /\ i < MaxSize
<1>1. MaxSize \in Nat /\ Indices \subseteq Nat /\ \A i : i \in Indices <=> i \in Nat /\ i < MaxSize
    BY Constants DEF Indices
<1>2. made \in Nat
    BY Ids DEF IInv, TypeOK
<1>3. \A j \in JobIds : work[j] \in WorkType
    BY DEF IInv, TypeOK
<1>4. \A t \in Threads : /\ top[t] \in JobOrNull
                         /\ \A f \in JobOrNull : run[t][f].job \in JobOrNull
    BY DEF IInv, TypeOK
<1> QED BY <1>1, <1>2, <1>3, <1>4 DEF WorkType

LEMMA InitHInv ==
    ASSUME Init
    PROVE  HInv
<1>1. MaxSize \in Nat /\ Indices \subseteq Nat /\ 0 \notin JobIds
    BY Constants DEF Indices, JobIds
<1>2. /\ \A j \in JobIds : /\ work[j].next = 0 /\ work[j].max = 0 /\ work[j].exit_status = 0
                           /\ returned[j] = {}
                           /\ \A i \in Indices : task[j][i] = "idle"
      /\ \A t \in Threads, f \in JobOrNull : run[t][f].job = 0
    BY DEF Init, Unused, NoTask
<1> QED BY <1>1, <1>2 DEF HInv, HandedOut, OneFrameEach, StatusInv

LEMMA SameHistory ==
    ASSUME HInv, UNCHANGED <<work, made, run, task, returned>>
    PROVE  HInv'
    BY DEF HInv, HandedOut, OneFrameEach, StatusInv, Executes

LEMMA ReturnHInv ==
    ASSUME IInv, HInv, NEW t \in Threads, Return(t)
    PROVE  HInv'
<1>1. top[t] \in JobIds
    BY Types, Ids DEF Return
<1>2. UNCHANGED <<made, run, task, returned>>
    BY DEF Return, historyVars
<1>3. \A j \in JobIds : /\ work'[j].next = work[j].next /\ work'[j].max = work[j].max
                        /\ work'[j].exit_status = work[j].exit_status
    BY <1>1 DEF Return, IInv, TypeOK, WorkType
<1> QED
    BY <1>2, <1>3 DEF HInv, HandedOut, OneFrameEach, StatusInv, Executes

\* What ClaimTask does to the jobs, the frames and the history.
LEMMA ClaimEffect ==
    ASSUME IInv, NEW t \in Threads, ClaimTask(t), NEW j, NEW i, j = jobs, i = work[j].next
    PROVE  /\ j \in JobIds /\ i \in Indices /\ i < work[j].max /\ work[j].live
           /\ work'[j].next = i + 1
           /\ \A k \in JobIds : /\ k # j => work'[k].next = work[k].next
                                /\ work'[k].max = work[k].max
                                /\ work'[k].exit_status = work[k].exit_status
                                /\ work'[k].live = work[k].live
           /\ run[t][top[t]].job = 0
           /\ run'[t][top[t]] = [job |-> j, idx |-> i]
           /\ \A s \in Threads, e \in JobOrNull :
                 s # t \/ e # top[t] => run'[s][e] = run[s][e]
           /\ task'[j][i] = "running"
           /\ \A k \in JobIds, l \in Indices : k # j \/ l # i => task'[k][l] = task[k][l]
           /\ UNCHANGED <<made, returned>>
<1>1. j \in JobIds /\ Pending(j)
    BY Ids DEF ClaimTask, IInv, TypeOK, QueueInv
<1>2. i \in Indices /\ i < work[j].max /\ work[j].live
    BY <1>1, Types DEF Pending
<1>3. /\ work' = [work EXCEPT ![j] = Claimed(@)]
      /\ run' = [run EXCEPT ![t][top[t]] = [job |-> j, idx |-> i]]
      /\ task' = [task EXCEPT ![j][i] = "running"]
      /\ UNCHANGED <<made, returned>>
    BY DEF ClaimTask
<1>4. /\ work'[j].next = i + 1 /\ work'[j].max = work[j].max /\ work'[j].live = work[j].live
      /\ work'[j].exit_status = work[j].exit_status
      /\ \A k \in JobIds : k # j => work'[k] = work[k]
    BY <1>1, <1>3 DEF Claimed, IInv, TypeOK, WorkType
<1>5. run[t][top[t]].job = 0
    BY DEF ClaimTask, AtLoopHead, IInv, TaskInv
<1>6. /\ run'[t][top[t]] = [job |-> j, idx |-> i]
      /\ \A s \in Threads, e \in JobOrNull : s # t \/ e # top[t] => run'[s][e] = run[s][e]
    BY <1>3, Types DEF IInv, TypeOK
<1>7. /\ task'[j][i] = "running"
      /\ \A k \in JobIds, l \in Indices : k # j \/ l # i => task'[k][l] = task[k][l]
    BY <1>1, <1>2, <1>3 DEF IInv, TypeOK
<1> QED BY <1>1, <1>2, <1>3, <1>4, <1>5, <1>6, <1>7

LEMMA ClaimHInv ==
    ASSUME IInv, HInv, NEW t \in Threads, ClaimTask(t)
    PROVE  HInv'
<1> DEFINE j == jobs
           i == work[j].next
<1>1. /\ j \in JobIds /\ i \in Indices /\ i < work[j].max /\ work[j].live
      /\ work'[j].next = i + 1
      /\ \A k \in JobIds : /\ k # j => work'[k].next = work[k].next
                           /\ work'[k].max = work[k].max
                           /\ work'[k].exit_status = work[k].exit_status
      /\ run[t][top[t]].job = 0
      /\ run'[t][top[t]] = [job |-> j, idx |-> i]
      /\ \A s \in Threads, e \in JobOrNull :
            s # t \/ e # top[t] => run'[s][e] = run[s][e]
      /\ task'[j][i] = "running"
      /\ \A k \in JobIds, l \in Indices : k # j \/ l # i => task'[k][l] = task[k][l]
      /\ UNCHANGED <<made, returned>>
    BY ClaimEffect
<1>2. task[j][i] = "idle" /\ j <= made
    BY <1>1, Types DEF HInv, HandedOut, IInv, FrameInv
<1> HIDE DEF j, i
<1>3. HandedOut'
    <2> SUFFICES ASSUME NEW k \in JobIds
                 PROVE  /\ work'[k].next <= work'[k].max
                        /\ \A l \in Indices : task'[k][l] = "idle" <=> work'[k].next <= l
                        /\ k > made' => work'[k].next = 0 /\ returned'[k] = {}
        BY DEF HandedOut
    <2>0. /\ work[k].next <= work[k].max /\ work[k].next \in Nat /\ work[k].max \in Nat
          /\ \A l \in Indices : task[k][l] = "idle" <=> work[k].next <= l
          /\ k > made => work[k].next = 0 /\ returned[k] = {}
        BY Types DEF HInv, HandedOut
    <2>1. CASE k # j
        BY <1>1, <2>0, <2>1
    <2>2. CASE k = j
        <3>1. work[j].next = i /\ work'[j].next = i + 1 /\ i \in Nat /\ i < work[j].max
            BY <1>1, Types DEF i
        <3>2. \A l \in Indices : task'[j][l] = "idle" <=> i + 1 <= l
            BY <1>1, <2>0, <2>2, <3>1, Types
        <3>3. ~(j > made) /\ made' = made
            BY <1>1, <1>2, Types, Ids
        <3> QED BY <1>1, <2>0, <2>2, <3>1, <3>2, <3>3
    <2> QED BY <2>1, <2>2
<1>4. ASSUME NEW s \in Threads, NEW e \in JobOrNull, run[s][e].job # 0
      PROVE  /\ s # t \/ e # top[t]
             /\ run'[s][e] = run[s][e] /\ run[s][e] # [job |-> j, idx |-> i]
             /\ run[s][e].idx \in Indices /\ run[s][e].job \in JobIds
             /\ task[run[s][e].job][run[s][e].idx] = "running"
    <2>1. s # t \/ e # top[t]
        BY <1>1, <1>4
    <2>2. /\ run[s][e].idx \in Indices /\ run[s][e].job \in JobIds
          /\ task[run[s][e].job][run[s][e].idx] = "running"
        BY <1>4, Types, Ids DEF HInv, OneFrameEach
    <2>3. run[s][e] # [job |-> j, idx |-> i]
        BY <1>2, <2>2
    <2> QED BY <1>1, <2>1, <2>2, <2>3
<1>5. ASSUME NEW s \in Threads, NEW e \in JobOrNull, run'[s][e].job # 0,
             s # t \/ e # top[t]
      PROVE  run'[s][e] = run[s][e] /\ run[s][e].job # 0
    BY <1>1, <1>5
<1>6. OneFrameEach'
    <2>1. ASSUME NEW s \in Threads, NEW e \in JobOrNull, run'[s][e].job # 0
          PROVE  run'[s][e].idx \in Indices /\ task'[run'[s][e].job][run'[s][e].idx] = "running"
        <3>1. CASE s = t /\ e = top[t]
            BY <1>1, <3>1
        <3>2. CASE s # t \/ e # top[t]
            BY <1>1, <1>4, <1>5, <2>1, <3>2
        <3> QED BY <3>1, <3>2
    <2>2. ASSUME NEW k \in JobIds, NEW l \in Indices, task'[k][l] = "running"
          PROVE  \E s \in Threads, e \in JobOrNull : run'[s][e].job = k /\ run'[s][e].idx = l
        <3>1. CASE k = j /\ l = i
            BY <1>1, <3>1, Types
        <3>2. CASE k # j \/ l # i
            <4>1. task[k][l] = "running"
                BY <1>1, <2>2, <3>2
            <4>2. PICK s \in Threads, e \in JobOrNull : Executes(s, e, k, l)
                BY <4>1 DEF HInv, OneFrameEach
            <4>3. run[s][e].job # 0
                BY <4>2, Ids DEF Executes
            <4> QED BY <1>4, <4>2, <4>3 DEF Executes
        <3> QED BY <3>1, <3>2
    <2>3. ASSUME NEW s \in Threads, NEW u \in Threads, NEW e \in JobOrNull, NEW f \in JobOrNull,
                 run'[s][e].job # 0, run'[s][e] = run'[u][f]
          PROVE  s = u /\ e = f
        <3>1. CASE s = t /\ e = top[t] /\ u = t /\ f = top[t]
            BY <3>1
        <3>2. CASE (s = t /\ e = top[t]) /\ (u # t \/ f # top[t])
            BY <1>1, <1>4, <1>5, <2>3, <3>2
        <3>3. CASE (s # t \/ e # top[t]) /\ (u = t /\ f = top[t])
            BY <1>1, <1>4, <1>5, <2>3, <3>3
        <3>4. CASE (s # t \/ e # top[t]) /\ (u # t \/ f # top[t])
            BY <1>5, <2>3, <3>4 DEF HInv, OneFrameEach
        <3> QED BY <3>1, <3>2, <3>3, <3>4
    <2> QED BY <2>1, <2>2, <2>3 DEF OneFrameEach, Executes
<1>7. StatusInv'
    BY <1>1 DEF HInv, StatusInv
<1> QED BY <1>3, <1>6, <1>7 DEF HInv

\* What FinishTask does to the jobs, the frames and the history.
LEMMA FinishEffect ==
    ASSUME IInv, HInv, NEW t \in Threads, NEW r \in Results, FinishTask(t, r),
           NEW j, NEW i, j = run[t][top[t]].job, i = run[t][top[t]].idx
    PROVE  /\ j \in JobIds /\ i \in Indices /\ work[j].live /\ task[j][i] = "running"
           /\ \A k \in JobIds : /\ work'[k].next = work[k].next
                                /\ work'[k].max = work[k].max
                                /\ k # j => work'[k].exit_status = work[k].exit_status
                                /\ work'[k].live = work[k].live
           /\ work'[j].exit_status = StatusAfter(work[j].exit_status, r)
           /\ run'[t][top[t]].job = 0
           /\ \A s \in Threads, e \in JobOrNull :
                 s # t \/ e # top[t] => run'[s][e] = run[s][e]
           /\ task'[j][i] = "done"
           /\ \A k \in JobIds, l \in Indices : k # j \/ l # i => task'[k][l] = task[k][l]
           /\ returned'[j] = returned[j] \cup {r}
           /\ \A k \in JobIds : k # j => returned'[k] = returned[k]
           /\ made' = made
<1>1. /\ pc[t] = "task"
      /\ work' = [work EXCEPT ![j].exit_status = StatusAfter(@, r),
                              ![j].active_workers = @ - 1]
      /\ run' = [run EXCEPT ![t][top[t]] = NoTask]
      /\ task' = [task EXCEPT ![j][i] = "done"]
      /\ returned' = [returned EXCEPT ![j] = @ \cup {r}]
      /\ made' = made
    BY DEF FinishTask
<1>2. top[t] \in JobOrNull /\ j \in JobIds /\ j # 0 /\ work[j].live
    BY <1>1, Types, Ids DEF IInv, TaskInv
<1>3. i \in Indices /\ task[j][i] = "running"
    BY <1>2 DEF HInv, OneFrameEach
<1>4. /\ \A k \in JobIds : k # j => work'[k] = work[k]
      /\ work'[j].next = work[j].next
      /\ work'[j].max = work[j].max
      /\ work'[j].live = work[j].live
      /\ work'[j].exit_status = StatusAfter(work[j].exit_status, r)
    <2>1. work \in [JobIds -> WorkType] /\ work[j] \in WorkType
        BY <1>2 DEF IInv, TypeOK
    <2>2. work' = [work EXCEPT ![j] =
              [work[j] EXCEPT !.exit_status = StatusAfter(work[j].exit_status, r),
                              !.active_workers = work[j].active_workers - 1]]
        BY <1>1, <1>2, <2>1
    <2> QED BY <1>2, <2>1, <2>2 DEF WorkType
<1>5. /\ run'[t][top[t]].job = 0
      /\ \A s \in Threads, e \in JobOrNull : s # t \/ e # top[t] => run'[s][e] = run[s][e]
    BY <1>1, <1>2 DEF IInv, TypeOK, NoTask
<1>6. /\ task'[j][i] = "done"
      /\ \A k \in JobIds, l \in Indices : k # j \/ l # i => task'[k][l] = task[k][l]
    BY <1>1, <1>2, <1>3 DEF IInv, TypeOK
<1>7. /\ returned'[j] = returned[j] \cup {r}
      /\ \A k \in JobIds : k # j => returned'[k] = returned[k]
    BY <1>1, <1>2 DEF IInv, TypeOK
<1> QED BY <1>1, <1>2, <1>3, <1>4, <1>5, <1>6, <1>7

LEMMA FinishHInv ==
    ASSUME IInv, HInv, NEW t \in Threads, NEW r \in Results, FinishTask(t, r)
    PROVE  HInv'
<1> DEFINE j == run[t][top[t]].job
           i == run[t][top[t]].idx
<1>0. j = run[t][top[t]].job /\ i = run[t][top[t]].idx
    OBVIOUS
<1> HIDE DEF j, i
<1>1. /\ j \in JobIds /\ i \in Indices /\ work[j].live /\ task[j][i] = "running"
      /\ \A k \in JobIds : /\ work'[k].next = work[k].next
                           /\ work'[k].max = work[k].max
                           /\ k # j => work'[k].exit_status = work[k].exit_status
      /\ work'[j].exit_status = StatusAfter(work[j].exit_status, r)
      /\ run'[t][top[t]].job = 0
      /\ \A s \in Threads, e \in JobOrNull :
            s # t \/ e # top[t] => run'[s][e] = run[s][e]
      /\ task'[j][i] = "done"
      /\ \A k \in JobIds, l \in Indices : k # j \/ l # i => task'[k][l] = task[k][l]
      /\ returned'[j] = returned[j] \cup {r}
      /\ \A k \in JobIds : k # j => returned'[k] = returned[k]
      /\ made' = made
    BY <1>0, FinishEffect
<1>2. j <= made /\ top[t] \in JobOrNull
    BY <1>1, Types DEF IInv, FrameInv
<1>3. HandedOut'
    <2> SUFFICES ASSUME NEW k \in JobIds
                 PROVE  /\ work'[k].next <= work'[k].max
                        /\ \A l \in Indices : task'[k][l] = "idle" <=> work'[k].next <= l
                        /\ k > made' => work'[k].next = 0 /\ returned'[k] = {}
        BY DEF HandedOut
    <2>0. /\ work[k].next <= work[k].max
          /\ \A l \in Indices : task[k][l] = "idle" <=> work[k].next <= l
          /\ k > made => work[k].next = 0 /\ returned[k] = {}
        BY DEF HInv, HandedOut
    <2>1. \A l \in Indices : task'[k][l] = "idle" <=> task[k][l] = "idle"
        BY <1>1
    <2>2. k > made => k # j
        BY <1>1, <1>2, Types, Ids
    <2> QED BY <1>1, <2>0, <2>1, <2>2
<1>4. ASSUME NEW s \in Threads, NEW e \in JobOrNull, run'[s][e].job # 0
      PROVE  /\ s # t \/ e # top[t]
             /\ run'[s][e] = run[s][e] /\ run[s][e].job # 0
             /\ run[s][e].job # j \/ run[s][e].idx # i
             /\ run[s][e].idx \in Indices /\ run[s][e].job \in JobIds
             /\ task[run[s][e].job][run[s][e].idx] = "running"
    <2>1. s # t \/ e # top[t]
        BY <1>1, <1>4
    <2>2. run'[s][e] = run[s][e] /\ run[s][e].job # 0
        BY <1>1, <1>4, <2>1
    <2>3. /\ run[s][e].idx \in Indices /\ run[s][e].job \in JobIds
          /\ task[run[s][e].job][run[s][e].idx] = "running"
        BY <2>2, Types, Ids DEF HInv, OneFrameEach
    <2>4. run[s][e] # run[t][top[t]]
        BY <1>2, <2>1, <2>2 DEF HInv, OneFrameEach
    <2>5. /\ run[s][e] \in [job : JobOrNull, idx : Indices \cup {0}]
          /\ run[t][top[t]] \in [job : JobOrNull, idx : Indices \cup {0}]
        BY <1>2 DEF IInv, TypeOK
    <2>6. run[s][e].job # j \/ run[s][e].idx # i
        BY <1>0, <2>4, <2>5
    <2> QED BY <2>1, <2>2, <2>3, <2>6
<1>5. OneFrameEach'
    <2>1. ASSUME NEW s \in Threads, NEW e \in JobOrNull, run'[s][e].job # 0
          PROVE  run'[s][e].idx \in Indices /\ task'[run'[s][e].job][run'[s][e].idx] = "running"
        BY <1>1, <1>4, <2>1
    <2>2. ASSUME NEW k \in JobIds, NEW l \in Indices, task'[k][l] = "running"
          PROVE  \E s \in Threads, e \in JobOrNull : run'[s][e].job = k /\ run'[s][e].idx = l
        <3>1. k # j \/ l # i
            BY <1>1, <2>2
        <3>2. task[k][l] = "running"
            BY <1>1, <2>2, <3>1
        <3>3. PICK s \in Threads, e \in JobOrNull : Executes(s, e, k, l)
            BY <3>2 DEF HInv, OneFrameEach
        <3>4. s # t \/ e # top[t]
            BY <1>0, <3>1, <3>3 DEF Executes
        <3> QED BY <1>1, <3>3, <3>4 DEF Executes
    <2>3. ASSUME NEW s \in Threads, NEW u \in Threads, NEW e \in JobOrNull, NEW f \in JobOrNull,
                 run'[s][e].job # 0, run'[s][e] = run'[u][f]
          PROVE  s = u /\ e = f
        BY <1>4, <2>3 DEF HInv, OneFrameEach
    <2> QED BY <2>1, <2>2, <2>3 DEF OneFrameEach, Executes
<1>6. StatusInv'
    <2> SUFFICES ASSUME NEW k \in JobIds
                 PROVE  /\ work'[k].exit_status = 0 => returned'[k] \subseteq {0}
                        /\ work'[k].exit_status # 0 => work'[k].exit_status \in returned'[k]
        BY DEF StatusInv
    <2>1. /\ work[k].exit_status = 0 => returned[k] \subseteq {0}
          /\ work[k].exit_status # 0 => work[k].exit_status \in returned[k]
        BY DEF HInv, StatusInv
    <2> QED BY <1>1, <2>1 DEF StatusAfter
<1> QED BY <1>3, <1>5, <1>6 DEF HInv

LEMMA ParForHInv ==
    ASSUME IInv, HInv, NEW t \in Threads, NEW n \in Sizes, ParFor(t, n)
    PROVE  HInv'
<1> DEFINE j == made + 1
<1>1. j \in JobIds /\ n \in 0..MaxSize /\ made \in Nat
    BY Types, PoolAssumption DEF ParFor, JobIds
<1>2. /\ made' = j
      /\ UNCHANGED <<run, task, returned>>
      /\ work'[j].next = 0 /\ work'[j].max = n /\ work'[j].exit_status = 0
      /\ \A k \in JobIds : k # j => work'[k] = work[k]
    BY <1>1 DEF ParFor, historyVars, IInv, TypeOK
<1>3. work[j].next = 0 /\ returned[j] = {}
    BY <1>1 DEF HInv, HandedOut
<1>4. HandedOut'
    <2> SUFFICES ASSUME NEW k \in JobIds
                 PROVE  /\ work'[k].next <= work'[k].max
                        /\ \A l \in Indices : task'[k][l] = "idle" <=> work'[k].next <= l
                        /\ k > made' => work'[k].next = 0 /\ returned'[k] = {}
        BY DEF HandedOut
    <2>0. /\ work[k].next <= work[k].max
          /\ \A l \in Indices : task[k][l] = "idle" <=> work[k].next <= l
          /\ k > made => work[k].next = 0 /\ returned[k] = {}
        BY DEF HInv, HandedOut
    <2>1. k > made + 1 => k > made
        BY <1>1, Ids
    <2> QED BY <1>1, <1>2, <1>3, <2>0, <2>1
<1>5. OneFrameEach'
    BY <1>2 DEF HInv, OneFrameEach, Executes
<1>6. StatusInv'
    BY <1>1, <1>2, <1>3 DEF HInv, StatusInv
<1> QED BY <1>4, <1>5, <1>6 DEF HInv

\* The steps that leave the jobs and the history alone.
LEMMA QuietSteps ==
    ASSUME \/ \E t \in Threads : \/ WorkerStart(t) \/ WorkerExit(t) \/ WaitOwner(t)
                                 \/ WaitATeam(t) \/ WaitBTeam(t) \/ Rejoin(t)
                                 \/ SpuriousWakeup(t)
           \/ \E c \in Clients : \/ ShutdownCall(c) \/ ShutdownStep(c)
                                 \/ \E n \in Requests : SetNumThreads(c, n)
           \/ UNCHANGED vars
    PROVE  UNCHANGED <<work, made, run, task, returned>>
BY DEF WorkerStart, WorkerExit, WaitOwner, WaitATeam, WaitBTeam, WaitOn, Rejoin,
       SpuriousWakeup, ShutdownCall, ShutdownStep, ShutdownSignal, ShutdownJoin,
       ShutdownDestroy, SetNumThreads, vars, historyVars

LEMMA NextHInv ==
    ASSUME IInv, HInv, [Next]_vars
    PROVE  HInv'
BY QuietSteps, SameHistory, ReturnHInv, ClaimHInv, FinishHInv, ParForHInv
   DEF Next, ThreadStep

-----------------------------------------------------------------------------
(***************************************************************************)
(* The refinement: what the contract sees of a state of the pool, and the  *)
(* step of the contract each step of the pool takes.                       *)
(***************************************************************************)
CallPhase(j) == IF j > made THEN "new" ELSE IF work[j].live THEN "open" ELSE "closed"
CallStatus(j) == IF j <= made /\ ~work[j].live THEN work[j].exit_status ELSE 0

LEMMA ContractSets == Contract!Call = JobIds /\ Contract!Index = Indices
BY DEF Contract!Call, Contract!Index, JobIds, Indices

LEMMA InitContract ==
    ASSUME Init
    PROVE  Contract!ParForInit
<1>1. \A j \in JobIds : j > made /\ ~(j <= made) /\ work[j].max = 0
    BY Constants, Ids DEF Init, Unused, JobIds
<1> QED BY <1>1, ContractSets DEF Contract!ParForInit, Init

\* The contract's variables do not change if these do not.
LEMMA ContractStutter ==
    ASSUME UNCHANGED <<work, made, task, returned>>
    PROVE  UNCHANGED Contract!parForVars
BY DEF Contract!parForVars

LEMMA ParForOpens ==
    ASSUME IInv, NEW t \in Threads, NEW n \in Sizes, ParFor(t, n)
    PROVE  Contract!ParForNext
<1> SUFFICES ASSUME NEW j, j = made + 1 PROVE Contract!ParForNext
    OBVIOUS
<1>1. j \in JobIds /\ n \in 0..MaxSize /\ made \in Nat
    BY Types, PoolAssumption DEF ParFor, JobIds
<1>2. /\ made' = j /\ UNCHANGED <<task, returned>>
      /\ work'[j].live = TRUE /\ work'[j].max = n
      /\ \A k \in JobIds : k # j => work'[k] = work[k]
    BY <1>1 DEF ParFor, historyVars, IInv, TypeOK
<1>3. /\ CallPhase(j) = "new" /\ CallPhase(j)' = "open"
      /\ CallStatus(j) = 0 /\ CallStatus(j)' = 0
    BY <1>1, <1>2 DEF CallPhase, CallStatus
<1>4. ASSUME NEW k \in JobIds, k # j
      PROVE  CallPhase(k)' = CallPhase(k) /\ CallStatus(k)' = CallStatus(k)
    <2>1. (k > made') = (k > made) /\ (k <= made') = (k <= made)
        BY <1>1, <1>2, <1>4, Ids
    <2> QED BY <1>2, <1>4, <2>1 DEF CallPhase, CallStatus
<1>5. Contract!Open(j, n)
    BY <1>1, <1>2, <1>3, <1>4 DEF Contract!Open, CallPhase, CallStatus
<1> QED BY <1>1, <1>5, ContractSets DEF Contract!ParForNext

LEMMA ClaimStarts ==
    ASSUME IInv, HInv, NEW t \in Threads, ClaimTask(t)
    PROVE  Contract!ParForNext
<1> DEFINE j == jobs
           i == work[j].next
<1>0. j = jobs /\ i = work[j].next
    OBVIOUS
<1> HIDE DEF j, i
<1>1. /\ j \in JobIds /\ i \in Indices /\ i < work[j].max /\ work[j].live
      /\ \A k \in JobIds : /\ work'[k].max = work[k].max
                           /\ work'[k].exit_status = work[k].exit_status
                           /\ work'[k].live = work[k].live
      /\ UNCHANGED <<made, returned>>
    BY <1>0, ClaimEffect
<1>2. task' = [task EXCEPT ![j][i] = "running"]
    BY <1>0 DEF ClaimTask
<1>3. task[j][i] = "idle" /\ j <= made
    BY <1>0, <1>1, Types DEF HInv, HandedOut, IInv, FrameInv
<1>4. CallPhase(j) = "open"
    BY <1>1, <1>3, Types, Ids DEF CallPhase
<1>5. \A k \in JobIds : CallPhase(k)' = CallPhase(k) /\ CallStatus(k)' = CallStatus(k)
    BY <1>1 DEF CallPhase, CallStatus
<1>6. Contract!Start(j, i)
    BY <1>1, <1>2, <1>3, <1>4, <1>5 DEF Contract!Start, CallPhase, CallStatus
<1> QED BY <1>1, <1>6, ContractSets DEF Contract!ParForNext

LEMMA FinishEnds ==
    ASSUME IInv, HInv, NEW t \in Threads, NEW r \in Results, FinishTask(t, r)
    PROVE  Contract!ParForNext
<1> DEFINE j == run[t][top[t]].job
           i == run[t][top[t]].idx
<1>0. j = run[t][top[t]].job /\ i = run[t][top[t]].idx
    OBVIOUS
<1> HIDE DEF j, i
<1>1. /\ j \in JobIds /\ i \in Indices /\ work[j].live /\ task[j][i] = "running"
      /\ \A k \in JobIds : /\ work'[k].max = work[k].max
                           /\ k # j => work'[k].exit_status = work[k].exit_status
                           /\ work'[k].live = work[k].live
      /\ made' = made
    BY <1>0, FinishEffect
<1>2. /\ task' = [task EXCEPT ![j][i] = "done"]
      /\ returned' = [returned EXCEPT ![j] = @ \cup {r}]
    BY <1>0 DEF FinishTask
<1>3. j <= made
    BY <1>1, Types DEF IInv, FrameInv
<1>4. CallPhase(j) = "open"
    BY <1>1, <1>3, Types, Ids DEF CallPhase
<1>5. \A k \in JobIds : CallPhase(k)' = CallPhase(k) /\ CallStatus(k)' = CallStatus(k)
    BY <1>1 DEF CallPhase, CallStatus
<1>6. Contract!End(j, i, r)
    BY <1>1, <1>2, <1>4, <1>5 DEF Contract!End, CallPhase, CallStatus
<1> QED BY <1>1, <1>6, ContractSets DEF Contract!ParForNext

\* When an owner leaves the loop, its job has handed out every task and no
\* frame executes one: they are all done.
LEMMA AllDone ==
    ASSUME IInv, HInv, NEW j \in JobIds, ~Running(j)
    PROVE  /\ \A i \in Indices : task[j][i] # "running"
           /\ \A i \in 0..(work[j].max - 1) : task[j][i] = "done"
<1>1. /\ work[j].next \in 0..MaxSize /\ work[j].max \in 0..MaxSize
      /\ work[j].active_workers \in Nat /\ MaxSize \in Nat
    BY Types
<1>2. work[j].active_workers = 0 /\ work[j].max <= work[j].next
    BY <1>1 DEF Running
<1>3. ActiveFrames(j) = {}
    BY <1>2, FramesFinite, FS_EmptySet DEF IInv, ActiveWorkersExact
<1>4. ASSUME NEW i \in Indices, task[j][i] = "running" PROVE FALSE
    <2>1. PICK t \in Threads, f \in JobOrNull : Executes(t, f, j, i)
        BY <1>4 DEF HInv, OneFrameEach
    <2>2. <<t, f>> \in ActiveFrames(j)
        BY <2>1 DEF ActiveFrames, Executes
    <2> QED BY <1>3, <2>2
<1>5. ASSUME NEW i \in 0..(work[j].max - 1)
      PROVE  task[j][i] = "done"
    <2>1. i \in Indices /\ ~(work[j].next <= i)
        BY <1>1, <1>2, Types
    <2>2. task[j][i] # "idle" /\ task[j][i] # "running"
        BY <1>4, <2>1 DEF HInv, HandedOut
    <2> QED BY <2>1, <2>2 DEF IInv, TypeOK
<1> QED BY <1>4, <1>5

LEMMA ReturnCloses ==
    ASSUME IInv, HInv, NEW t \in Threads, Return(t)
    PROVE  Contract!ParForNext
<1> SUFFICES ASSUME NEW j, NEW r, j = top[t], r = work[j].exit_status
             PROVE  Contract!ParForNext
    OBVIOUS
<1>1. /\ j \in JobIds /\ ~Running(j) /\ work[j].live
      /\ UNCHANGED <<made, task, returned>>
      /\ work' = [work EXCEPT ![j].live = FALSE]
    BY Types, Ids DEF Return, StaysInLoop, historyVars, IInv, FrameInv
<1>2. r \in Results /\ work[j].max \in Nat
    BY <1>1, Types
<1>3. /\ \A k \in JobIds : k # j => work'[k] = work[k]
      /\ work'[j].max = work[j].max /\ work'[j].exit_status = r /\ work'[j].live = FALSE
    BY <1>1 DEF IInv, TypeOK, WorkType
<1>4. j <= made
    BY <1>1 DEF IInv, FrameInv
<1>5. /\ CallPhase(j) = "open" /\ CallPhase(j)' = "closed" /\ CallStatus(j)' = r
    BY <1>1, <1>3, <1>4, Types, Ids DEF CallPhase, CallStatus
<1>6. \A k \in JobIds : k # j => CallPhase(k)' = CallPhase(k) /\ CallStatus(k)' = CallStatus(k)
    BY <1>1, <1>3 DEF CallPhase, CallStatus
<1>7. /\ \A i \in Indices : task[j][i] # "running"
      /\ \A i \in 0..(work[j].max - 1) : task[j][i] = "done"
    BY <1>1, AllDone
<1>8. Contract!Allowed(j, r)
    <2>1. r = 0 => returned[j] \subseteq {0}
        BY <1>1 DEF HInv, StatusInv
    <2>2. r # 0 => r \in returned[j]
        BY <1>1 DEF HInv, StatusInv
    <2> QED BY <1>1, <1>7, <2>1, <2>2 DEF Contract!Allowed
<1>9. Contract!Close(j, r)
    <2>1. [k \in JobIds |-> CallPhase(k)]' = [[k \in JobIds |-> CallPhase(k)] EXCEPT ![j] = "closed"]
        BY <1>1, <1>5, <1>6
    <2>2. [k \in JobIds |-> CallStatus(k)]' = [[k \in JobIds |-> CallStatus(k)] EXCEPT ![j] = r]
        BY <1>1, <1>5, <1>6
    <2>3. [k \in JobIds |-> work[k].max]' = [k \in JobIds |-> work[k].max]
        BY <1>1, <1>3
    <2>4. [k \in JobIds |-> CallPhase(k)][j] = "open"
        BY <1>1, <1>5
    <2> QED
        BY <1>1, <1>7, <1>8, <2>1, <2>2, <2>3, <2>4, ContractSets
           DEF Contract!Close, CallPhase, CallStatus
<1> QED BY <1>1, <1>2, <1>9, ContractSets DEF Contract!ParForNext

\* Every step of the pool is a step of the contract or leaves it unchanged.
LEMMA StepsImplement ==
    ASSUME IInv, HInv, [Next]_vars
    PROVE  [Contract!ParForNext]_Contract!parForVars
BY QuietSteps, ContractStutter, ParForOpens, ClaimStarts, FinishEnds, ReturnCloses
   DEF Next, ThreadStep

\* The pool implements the contract of halide_do_par_for: each task runs at
\* most once and inside its call, and the call returns after the last of them
\* with zero, or with the value of a task that failed.
THEOREM PoolImplementsParFor ==
    ASSUME 0 \notin Sizes
    PROVE  Spec => ParForContract
<1> USE 0 \notin Sizes
<1>1. Init => HInv
    BY InitHInv
<1>2. IInv /\ HInv /\ [Next]_vars => HInv'
    BY NextHInv
<1>3. Init => Contract!ParForInit
    BY InitContract
<1>4. IInv /\ HInv /\ [Next]_vars => [Contract!ParForNext]_Contract!parForVars
    BY StepsImplement
<1> QED
    BY <1>1, <1>2, <1>3, <1>4, Invariance, PTL DEF Spec, ParForContract, Contract!ParForSpec

-----------------------------------------------------------------------------
(***************************************************************************)
(* The teams.                                                              *)
(***************************************************************************)
Away == {"wait_b_team", "wake_b_team"}

LEMMA TeamFinite ==
    IsFiniteSet(BTeam) /\ Cardinality(BTeam) \in Nat
<1>1. IsFiniteSet(Workers)
    BY PoolAssumption, FS_Interval DEF Workers
<1>2. IsFiniteSet(Threads)
    BY <1>1, PoolAssumption, FS_Union DEF Threads
<1>3. BTeam \subseteq Threads
    BY DEF BTeam
<1>4. IsFiniteSet(BTeam)
    BY <1>2, <1>3, FS_Subset
<1> QED BY <1>4, FS_CardinalityType

\* A step that moves nobody between the teams.
LEMMA SameTeam ==
    ASSUME IInv, initialized' => initialized, initialized => a_team_size' = a_team_size,
           initialized => threads_created' \in Int,
           \A t \in Threads : pc'[t] \in Away <=> pc[t] \in Away
    PROVE  TeamStep
<1>1. BTeam' = BTeam
    BY DEF BTeam, Away
<1>2. threads_created \in Int /\ a_team_size \in Int
    BY DEF IInv, TypeOK
<1> QED BY <1>1, <1>2, TeamFinite DEF TeamStep, Uncounted

\* Broadcasts wake threads without moving them to another team.
LEMMA BroadcastTeam ==
    ASSUME NEW c \in SUBSET Waits
    PROVE  \A t \in Threads : Broadcast(pc, c)[t] \in Away <=> pc[t] \in Away
<1> SUFFICES ASSUME NEW t \in Threads
             PROVE  Broadcast(pc, c)[t] \in Away <=> pc[t] \in Away
    OBVIOUS
<1>1. Broadcast(pc, c)[t] = IF pc[t] \notin c THEN pc[t]
                            ELSE IF pc[t] = "wait_b_team" THEN "wake_b_team"
                            ELSE "wake"
    BY DEF Broadcast
<1>2. "wake_b_team" \notin c
    BY DEF Waits
<1> QED BY <1>1, <1>2 DEF Away

\* A step of a running pool that creates no thread.
LEMMA KeptTeam ==
    ASSUME IInv, initialized' => initialized, UNCHANGED threads_created,
           a_team_size' \in Int, Cardinality(BTeam') \in Int,
           a_team_size' + Cardinality(BTeam') = a_team_size + Cardinality(BTeam)
    PROVE  TeamStep
BY TeamFinite DEF TeamStep, Uncounted, IInv, TypeOK

LEMMA ThreadTeam ==
    ASSUME IInv, NEW t \in Threads, ThreadStep(t)
    PROVE  TeamStep
<1>1. /\ pc \in [Threads -> Locations] /\ a_team_size \in Int
      /\ threads_created' \in Int
      /\ UNCHANGED <<initialized, threads_created>>
    <2>1. UNCHANGED <<initialized, threads_created>>
        BY DEF ThreadStep, WorkerStart, Return, WorkerExit, WaitOwner, WaitATeam, WaitBTeam,
               WaitOn, Rejoin, ClaimTask, FinishTask, queueVars
    <2> QED BY <2>1 DEF IInv, TypeOK
<1>2. CASE WorkerStart(t) \/ Return(t) \/ WorkerExit(t) \/ WaitOwner(t) \/ WaitATeam(t)
           \/ ClaimTask(t)
    <2>1. PICK at : pc' = [pc EXCEPT ![t] = at] /\ at \notin Away
        BY <1>2 DEF WorkerStart, Return, WorkerExit, WaitOwner, WaitATeam, WaitOn, ClaimTask, Away
    <2>2. pc[t] \notin Away /\ a_team_size' = a_team_size
        BY <1>2 DEF WorkerStart, Return, WorkerExit, WaitOwner, WaitATeam, WaitOn, ClaimTask,
                    AtLoopHead, queueVars, Away
    <2> QED BY <1>1, <2>1, <2>2, SameTeam
<1>3. CASE WaitBTeam(t)
    <2>1. /\ pc[t] = "loop" /\ pc' = [pc EXCEPT ![t] = "wait_b_team"]
          /\ a_team_size' = a_team_size - 1
        BY <1>3 DEF WaitBTeam, WaitOn, AtLoopHead
    <2>2. t \notin BTeam /\ BTeam' = BTeam \cup {t}
        BY <1>1, <2>1 DEF BTeam
    <2>3. Cardinality(BTeam') = Cardinality(BTeam) + 1
        BY <2>2, TeamFinite, FS_AddElement
    <2> QED BY <1>1, <2>1, <2>3, TeamFinite, KeptTeam
<1>4. CASE Rejoin(t) /\ pc[t] = "wake"
    <2>1. pc' = [pc EXCEPT ![t] = "loop"] /\ a_team_size' = a_team_size
        BY <1>4 DEF Rejoin, TeamAfterWait
    <2> QED BY <1>1, <1>4, <2>1, SameTeam DEF Away
<1>5. CASE Rejoin(t) /\ pc[t] = "wake_b_team"
    <2>1. pc' = [pc EXCEPT ![t] = "loop"] /\ a_team_size' = a_team_size + 1
        BY <1>5 DEF Rejoin, TeamAfterWait
    <2>2. t \in BTeam /\ BTeam' = BTeam \ {t}
        BY <1>1, <1>5, <2>1 DEF BTeam
    <2>3. Cardinality(BTeam') = Cardinality(BTeam) - 1
        BY <2>2, TeamFinite, FS_RemoveElement
    <2> QED BY <1>1, <2>1, <2>3, TeamFinite, KeptTeam
<1>6. ASSUME NEW r \in Results, FinishTask(t, r) PROVE TeamStep
    <2>1. PICK where : /\ where = pc \/ where = Broadcast(pc, {"wait_owners"})
                       /\ pc' = [where EXCEPT ![t] = "loop"]
        BY <1>6 DEF FinishTask
    <2>2. DOMAIN where = Threads /\ \A s \in Threads : where[s] \in Away <=> pc[s] \in Away
        BY <1>1, <2>1, BroadcastTeam DEF Broadcast, Waits
    <2>3. \A s \in Threads : pc'[s] = IF s = t THEN "loop" ELSE where[s]
        BY <2>1, <2>2
    <2>4. pc[t] \notin Away /\ a_team_size' = a_team_size
        BY <1>6 DEF FinishTask, queueVars, Away
    <2>5. "loop" \notin Away
        BY DEF Away
    <2>6. \A s \in Threads : pc'[s] \in Away <=> pc[s] \in Away
        BY <2>2, <2>3, <2>4, <2>5
    <2> QED BY <1>1, <2>4, <2>6, SameTeam
<1> QED BY <1>2, <1>3, <1>4, <1>5, <1>6 DEF ThreadStep, Rejoin

\* Initialising the queue creates all threads but the caller's, and nobody is
\* left on the B team; in a running pool the threads created are not counted.
LEMMA ParForTeam ==
    ASSUME IInv, NEW t \in Threads, NEW n \in Sizes, ParFor(t, n)
    PROVE  TeamStep
<1>0. /\ threads_created \in 0..(MAX_THREADS - 1) /\ Wanted \in 0..MAX_THREADS
      /\ a_team_size \in Int /\ MAX_THREADS \in Nat
    BY WantedType, PoolAssumption DEF IInv, TypeOK
<1>1. CASE ~initialized
    <2>1. Wanted \in 1..MAX_THREADS
        BY <1>1, PoolAssumption DEF IInv, TypeOK, Wanted, clamp_num_threads
    <2>2. a_team_size' = Wanted /\ threads_created' = Wanted - 1
        BY <1>0, <1>1, <2>1 DEF ParFor, TeamAtStart
    <2>3. PICK spawned, conditions :
             /\ conditions \in SUBSET Waits
             /\ pc' = [s \in Threads |-> IF s = t THEN "loop"
                                         ELSE IF s \in spawned THEN "start"
                                         ELSE Broadcast(pc, conditions)[s]]
        <3> DEFINE grow == (IF initialized THEN threads_created ELSE 0)..(Wanted - 2)
                   woken == {"wait_a_team"} \cup
                       (IF TargetSize(IF initialized THEN jobs ELSE 0, n) > TeamAtStart
                        THEN {"wait_b_team"} ELSE {})
        <3>1. pc' = [s \in Threads |-> IF s = t THEN "loop" ELSE IF s \in grow THEN "start"
                                       ELSE Broadcast(pc, woken)[s]]
            BY DEF ParFor
        <3>2. woken \in SUBSET Waits
            BY DEF Waits
        <3> HIDE DEF grow, woken
        <3> QED BY <3>1, <3>2
    <2>4. \A s \in Threads : pc[s] \notin Away
        BY <1>1 DEF IInv, PoolInv, Threads, Away
    <2>5. "loop" \notin Away /\ "start" \notin Away
        BY DEF Away
    <2>6. \A s \in Threads : pc'[s] \notin Away
        BY <2>3, <2>4, <2>5, BroadcastTeam
    <2>7. BTeam' = {}
        BY <2>6 DEF BTeam, Away
    <2> QED BY <1>0, <1>1, <2>1, <2>2, <2>7, FS_EmptySet DEF TeamStep, Uncounted
<1>2. CASE initialized
    <2> DEFINE spawned == threads_created..(Wanted - 2)
    <2>1. PICK conditions \in SUBSET Waits :
             /\ a_team_size' = a_team_size
             /\ pc' = [s \in Threads |-> IF s = t THEN "loop"
                                         ELSE IF s \in spawned THEN "start"
                                         ELSE Broadcast(pc, conditions)[s]]
        BY <1>2 DEF ParFor, Waits, TeamAtStart
    <2>2. pc[t] \notin Away
        BY DEF ParFor, Callers, Away
    <2>3. ASSUME NEW s \in Threads, s \in spawned PROVE pc[s] = "none"
        <3>1. s \in Workers /\ s >= threads_created
            BY <1>0, <2>3 DEF Workers
        <3> QED BY <3>1 DEF IInv, PoolInv
    <2> HIDE DEF spawned
    <2>4. "loop" \notin Away /\ "start" \notin Away /\ "none" \notin Away
        BY DEF Away
    <2>5. \A s \in Threads : pc'[s] \in Away <=> pc[s] \in Away
        BY <2>1, <2>2, <2>3, <2>4, BroadcastTeam
    <2>6. threads_created' \in Int
        BY <1>0 DEF ParFor
    <2> QED BY <1>2, <2>1, <2>5, <2>6, SameTeam
<1> QED BY <1>1, <1>2

LEMMA ClientTeam ==
    ASSUME IInv, NEW c \in Clients,
           ShutdownCall(c) \/ ShutdownStep(c) \/ \E n \in Requests : SetNumThreads(c, n)
    PROVE  TeamStep
<1>0. /\ pc \in [Threads -> Locations] /\ c \in Threads
      /\ initialized' => initialized
      /\ threads_created' = threads_created /\ threads_created' \in Int
    BY DEF IInv, TypeOK, Threads, ShutdownCall, ShutdownStep, SetNumThreads, ShutdownSignal,
           ShutdownJoin, ShutdownDestroy, queueVars
<1>1. CASE \E n \in Requests : SetNumThreads(c, n)
    BY <1>0, <1>1, SameTeam DEF SetNumThreads
<1>2. CASE ShutdownCall(c)
    <2>1. pc[c] = "user" /\ pc' = [pc EXCEPT ![c] = "shut_lock"] /\ a_team_size' = a_team_size
        BY <1>2 DEF ShutdownCall, queueVars
    <2> QED BY <1>0, <2>1, SameTeam DEF Away
<1>3. CASE ShutdownSignal(c)
    <2>1. /\ pc[c] = "shut_lock" /\ a_team_size' = a_team_size
          /\ pc' = [Broadcast(pc, ShutdownWakes) EXCEPT ![c] = "shut_join"]
        BY <1>3 DEF ShutdownSignal
    <2>2. \A s \in Threads : pc'[s] = IF s = c THEN "shut_join" ELSE Broadcast(pc, ShutdownWakes)[s]
        BY <1>0, <2>1 DEF Broadcast
    <2>3. "shut_join" \notin Away /\ "shut_lock" \notin Away
        BY DEF Away
    <2>4. ShutdownWakes \in SUBSET Waits
        BY DEF ShutdownWakes, Waits
    <2>5. \A s \in Threads : pc'[s] \in Away <=> pc[s] \in Away
        BY <2>1, <2>2, <2>3, <2>4, BroadcastTeam
    <2> QED BY <1>0, <2>1, <2>5, SameTeam
<1>4. CASE ShutdownJoin(c)
    <2>1. /\ pc[joined] = "exited" /\ a_team_size' = a_team_size
          /\ pc' = [pc EXCEPT ![joined] = "none"]
        BY <1>4 DEF ShutdownJoin, queueVars
    <2> QED BY <1>0, <2>1, SameTeam DEF Away
<1>5. CASE ShutdownDestroy(c)
    BY <1>5 DEF ShutdownDestroy, TeamStep
<1> QED BY <1>1, <1>2, <1>3, <1>4, <1>5 DEF ShutdownStep

LEMMA SpuriousTeam ==
    ASSUME IInv, NEW t \in Threads, SpuriousWakeup(t)
    PROVE  TeamStep
<1>0. /\ pc \in [Threads -> Locations]
      /\ UNCHANGED <<initialized, threads_created>> /\ threads_created' \in Int
    BY DEF IInv, TypeOK, SpuriousWakeup, queueVars
<1>1. /\ pc' = [pc EXCEPT ![t] = Broadcast(pc, {pc[t]})[t]] /\ a_team_size' = a_team_size
    BY DEF SpuriousWakeup, queueVars
<1>2. {pc[t]} \in SUBSET Waits
    BY DEF SpuriousWakeup
<1>3. \A s \in Threads : pc'[s] \in Away <=> pc[s] \in Away
    BY <1>0, <1>1, <1>2, BroadcastTeam
<1> QED BY <1>0, <1>1, <1>3, SameTeam

\* The threads the teams leave out are exactly those created since the queue was
\* last initialised because the pool had grown: initialising it counts everyone,
\* whatever a previous life of the pool left in the counters, and
\* worker_thread_already_locked loses no thread and counts none twice.
THEOREM TeamsCorrect ==
    ASSUME 0 \notin Sizes
    PROVE  Spec => TeamsAccounted
<1> USE 0 \notin Sizes
<1>1. ASSUME IInv, [Next]_vars PROVE [TeamStep]_vars
    BY <1>1, ThreadTeam, ParForTeam, ClientTeam, SpuriousTeam DEF Next
<1>2. IInv /\ [Next]_vars => [TeamStep]_vars
    BY <1>1
<1> QED BY <1>2, Invariance, PTL DEF Spec, TeamsAccounted

\* No worker sleeps on the B team while the A team is below its target size.
BTeamWoken == \A t \in Threads : pc[t] = "wait_b_team" => a_team_size >= target_a_team_size

LEMMA ThreadBTeam ==
    ASSUME IInv, BTeamWoken, NEW t \in Threads, ThreadStep(t) \/ SpuriousWakeup(t)
    PROVE  BTeamWoken'
<1>1. pc \in [Threads -> Locations] /\ a_team_size \in Int /\ target_a_team_size \in Int
    BY DEF IInv, TypeOK
<1>2. CASE \/ WorkerStart(t) \/ Return(t) \/ WorkerExit(t) \/ WaitOwner(t) \/ WaitATeam(t)
           \/ ClaimTask(t) \/ Rejoin(t) \/ SpuriousWakeup(t)
    <2>1. PICK at : pc' = [pc EXCEPT ![t] = at] /\ (at = "wait_b_team" => pc[t] = at)
        BY <1>2 DEF WorkerStart, Return, WorkerExit, WaitOwner, WaitATeam, WaitOn, ClaimTask,
                    Rejoin, SpuriousWakeup, Broadcast, Waits
    <2>2. /\ a_team_size' \in {a_team_size, a_team_size + 1}
          /\ UNCHANGED target_a_team_size
        BY <1>2 DEF WorkerStart, Return, WorkerExit, WaitOwner, WaitATeam, WaitOn, ClaimTask,
                    Rejoin, SpuriousWakeup, TeamAfterWait, queueVars
    <2>3. ASSUME NEW s \in Threads, pc'[s] = "wait_b_team" PROVE pc[s] = "wait_b_team"
        BY <1>1, <2>1, <2>3
    <2> QED BY <1>1, <2>2, <2>3 DEF BTeamWoken
<1>3. CASE WaitBTeam(t)
    <2>1. /\ a_team_size > target_a_team_size /\ a_team_size' = a_team_size - 1
          /\ UNCHANGED target_a_team_size
        BY <1>3 DEF WaitBTeam, WaitOn
    <2> QED BY <1>1, <2>1 DEF BTeamWoken
<1>4. ASSUME NEW r \in Results, FinishTask(t, r) PROVE BTeamWoken'
    <2>1. UNCHANGED <<a_team_size, target_a_team_size>>
        BY <1>4 DEF FinishTask, queueVars
    <2>2. PICK where : /\ where = pc \/ where = Broadcast(pc, {"wait_owners"})
                       /\ pc' = [where EXCEPT ![t] = "loop"]
        BY <1>4 DEF FinishTask
    <2>3. ASSUME NEW s \in Threads, pc'[s] = "wait_b_team" PROVE pc[s] = "wait_b_team"
        BY <1>1, <2>2, <2>3 DEF Broadcast
    <2> QED BY <2>1, <2>3 DEF BTeamWoken
<1> QED BY <1>2, <1>3, <1>4 DEF ThreadStep

LEMMA ParForBTeam ==
    ASSUME IInv, BTeamWoken, NEW t \in Threads, NEW n \in Sizes, ParFor(t, n)
    PROVE  BTeamWoken'
<1>1. pc \in [Threads -> Locations] /\ TeamAtStart \in Int /\ target_a_team_size' \in Int
    BY WantedType, PoolAssumption DEF IInv, TypeOK, TeamAtStart, ParFor, TargetSize
<1>2. a_team_size' = TeamAtStart
    BY DEF ParFor
<1>3. PICK spawned, conditions :
         /\ target_a_team_size' > TeamAtStart => "wait_b_team" \in conditions
         /\ pc' = [s \in Threads |-> IF s = t THEN "loop"
                                     ELSE IF s \in spawned THEN "start"
                                     ELSE Broadcast(pc, conditions)[s]]
    <2> DEFINE grow == (IF initialized THEN threads_created ELSE 0)..(Wanted - 2)
               woken == {"wait_a_team"} \cup
                   (IF TargetSize(IF initialized THEN jobs ELSE 0, n) > TeamAtStart
                        THEN {"wait_b_team"} ELSE {})
    <2>1. pc' = [s \in Threads |-> IF s = t THEN "loop" ELSE IF s \in grow THEN "start"
                                   ELSE Broadcast(pc, woken)[s]]
        BY DEF ParFor
    <2>2. target_a_team_size' = TargetSize(IF initialized THEN jobs ELSE 0, n)
        BY DEF ParFor
    <2>3. target_a_team_size' > TeamAtStart => "wait_b_team" \in woken
        BY <2>2
    <2> HIDE DEF grow, woken
    <2> QED BY <2>1, <2>3
<1>4. ASSUME NEW s \in Threads, pc'[s] = "wait_b_team", target_a_team_size' > TeamAtStart
      PROVE  FALSE
    BY <1>1, <1>3, <1>4 DEF Broadcast
<1> QED BY <1>1, <1>2, <1>4 DEF BTeamWoken

LEMMA ClientBTeam ==
    ASSUME IInv, BTeamWoken, NEW c \in Clients,
           ShutdownCall(c) \/ ShutdownStep(c) \/ \E n \in Requests : SetNumThreads(c, n)
    PROVE  BTeamWoken'
<1>1. UNCHANGED <<a_team_size, target_a_team_size>> /\ pc \in [Threads -> Locations]
    BY DEF IInv, TypeOK, ShutdownCall, ShutdownStep, SetNumThreads, ShutdownSignal,
           ShutdownJoin, ShutdownDestroy, queueVars
<1>2. ASSUME NEW s \in Threads, pc'[s] = "wait_b_team" PROVE pc[s] = "wait_b_team"
    BY <1>1, <1>2 DEF ShutdownCall, ShutdownStep, SetNumThreads, ShutdownSignal,
           ShutdownJoin, ShutdownDestroy, Broadcast
<1> QED BY <1>1, <1>2 DEF BTeamWoken

\* No wakeup is lost: neither a sleeping owner's, nor an A team worker's, nor
\* that of a worker on the B team that a larger loop needs.
THEOREM WakeupsCorrect ==
    ASSUME 0 \notin Sizes
    PROVE  Spec => []NobodyOversleeps
<1> USE 0 \notin Sizes
<1>1. Init => BTeamWoken
    BY DEF Init, BTeamWoken
<1>2. IInv /\ BTeamWoken /\ [Next]_vars => BTeamWoken'
    <2> SUFFICES ASSUME IInv, BTeamWoken, [Next]_vars PROVE BTeamWoken'
        OBVIOUS
    <2>1. UNCHANGED vars => BTeamWoken'
        BY DEF BTeamWoken, vars, queueVars
    <2> QED BY <2>1, ThreadBTeam, ParForBTeam, ClientBTeam DEF Next
<1>3. IInv /\ BTeamWoken => NobodyOversleeps
    BY DEF IInv, WaitInv, OwnersWoken, BTeamWoken, NobodyOversleeps
<1> QED BY <1>1, <1>2, <1>3, Invariance, PTL DEF Spec

=============================================================================
