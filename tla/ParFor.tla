------------------------------- MODULE ParFor -------------------------------
(***************************************************************************)
(* What a call of halide_do_par_for promises its caller, whatever pool     *)
(* runs it (HalideRuntime.h: "Should return zero if all the jobs return    *)
(* zero, or an arbitrarily chosen return value from one of the jobs        *)
(* otherwise").  A call runs each of its tasks at most once, only while    *)
(* the call is open, and returns when none is running: with zero once      *)
(* every task has returned zero, or with a non-zero value that one of its  *)
(* tasks returned.                                                         *)
(***************************************************************************)
EXTENDS Integers

CONSTANTS
    MaxJobs,    \* calls made in one behaviour
    MaxSize,    \* the largest loop extent
    Results     \* values a task may return; 0 is success

Call == 1..MaxJobs
Index == 0..(MaxSize - 1)
Phases == {"new", "open", "closed"}

VARIABLES
    phase,      \* [Call -> Phases]
    size,       \* [Call -> 0..MaxSize], the number of tasks of an open call
    task,       \* [Call -> [Index -> {"idle", "running", "done"}]]
    returned,   \* [Call -> SUBSET Results], the values its tasks returned
    status      \* [Call -> Results], the value the call returned

parForVars == <<phase, size, task, returned, status>>

ParForInit ==
    /\ phase = [j \in Call |-> "new"]
    /\ size = [j \in Call |-> 0]
    /\ task = [j \in Call |-> [i \in Index |-> "idle"]]
    /\ returned = [j \in Call |-> {}]
    /\ status = [j \in Call |-> 0]

Open(j, n) ==
    /\ phase[j] = "new"
    /\ phase' = [phase EXCEPT ![j] = "open"]
    /\ size' = [size EXCEPT ![j] = n]
    /\ UNCHANGED <<task, returned, status>>

Start(j, i) ==
    /\ phase[j] = "open"
    /\ i < size[j]
    /\ task[j][i] = "idle"
    /\ task' = [task EXCEPT ![j][i] = "running"]
    /\ UNCHANGED <<phase, size, returned, status>>

End(j, i, r) ==
    /\ phase[j] = "open"
    /\ task[j][i] = "running"
    /\ task' = [task EXCEPT ![j][i] = "done"]
    /\ returned' = [returned EXCEPT ![j] = @ \cup {r}]
    /\ UNCHANGED <<phase, size, status>>

\* The result a call may hand back once none of its tasks is running.
Allowed(j, r) ==
    \/ r \in returned[j] \ {0}
    \/ /\ r = 0
       /\ returned[j] \subseteq {0}
       /\ \A i \in 0..(size[j] - 1) : task[j][i] = "done"

Close(j, r) ==
    /\ phase[j] = "open"
    /\ \A i \in Index : task[j][i] # "running"
    /\ Allowed(j, r)
    /\ phase' = [phase EXCEPT ![j] = "closed"]
    /\ status' = [status EXCEPT ![j] = r]
    /\ UNCHANGED <<size, task, returned>>

ParForNext ==
    \E j \in Call :
        \/ \E n \in 0..MaxSize : Open(j, n)
        \/ \E i \in Index : Start(j, i)
        \/ \E i \in Index, r \in Results : End(j, i, r)
        \/ \E r \in Results : Close(j, r)

ParForSpec == ParForInit /\ [][ParForNext]_parForVars
=============================================================================
