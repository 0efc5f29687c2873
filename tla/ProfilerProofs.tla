--------------------------- MODULE ProfilerProofs ---------------------------
(***************************************************************************)
(* The state that the sampling thread shares with the pipelines fits       *)
(* together, active_threads counts the threads at work, and a sample is    *)
(* billed to a pipeline that runs: for any number of threads, pipelines,   *)
(* Funcs, tasks and failures.                                              *)
(***************************************************************************)
EXTENDS Profiler, FiniteSetTheorems, SequenceTheorems, TLAPS

-----------------------------------------------------------------------------
(* The inductive invariant.                                                  *)

Stopping ==
    /\ stopping => Quiet
    /\ current_func = please_stop => stopping

TasksInLoop == \A t \in Threads : run[t].tasks > 0 => At(t, "loop")

Alive(p) == \E t \in Threads : run[t].pc \notin {"idle", "starting"} /\ run[t].pipe = p

\* current_func is no id of a listed pipeline that nobody runs.
CurrentRuns ==
    \A p \in Listed : current_func \in Ids(p, first_func_id[p]) => Alive(p)

IInv ==
    /\ TypeOK /\ ListExact /\ RunningIsSampled
    /\ CurrentRuns /\ Stopping /\ TasksInLoop /\ ActiveThreadsCounted

-----------------------------------------------------------------------------
(* The list of pipelines.                                                    *)

\* find_or_create_pipeline puts a new pipeline first.
LEMMA Prepended ==
    ASSUME NEW S, NEW s \in Seq(S), NEW p \in S, p \notin Range(s), IsInjective(s)
    PROVE  /\ <<p>> \o s \in Seq(S)
           /\ Range(<<p>> \o s) = Range(s) \cup {p}
           /\ IsInjective(<<p>> \o s)
<1> DEFINE r == <<p>> \o s
<1>1. r \in Seq(S) /\ Len(r) = Len(s) + 1
    OBVIOUS
<1>2. r[1] = p /\ \A j \in 1..Len(s) : r[j + 1] = s[j]
    OBVIOUS
<1>3. DOMAIN r = 1..Len(s)+1 /\ DOMAIN s = 1..Len(s) /\ Len(s) \in Nat
    BY <1>1
<1> HIDE DEF r
<1>4. \A j \in 2..Len(s)+1 : j - 1 \in 1..Len(s) /\ r[j] = s[j - 1]
    BY <1>2, <1>3
<1>5. Range(r) = Range(s) \cup {p}
    <2>1. ASSUME NEW j \in DOMAIN r PROVE r[j] \in Range(s) \cup {p}
        <3>1. CASE j = 1
            BY <1>2, <3>1
        <3>2. CASE j # 1
            <4>1. j \in 2..Len(s)+1
                BY <1>3, <3>2
            <4>2. j - 1 \in DOMAIN s /\ r[j] = s[j - 1]
                BY <1>3, <1>4, <4>1
            <4> QED BY <4>2 DEF Range
        <3> QED BY <3>1, <3>2
    <2>2. ASSUME NEW j \in DOMAIN s PROVE s[j] \in Range(r)
        <3>1. j + 1 \in DOMAIN r /\ r[j + 1] = s[j]
            BY <1>2, <1>3
        <3> QED BY <3>1 DEF Range
    <2>3. p \in Range(r)
        BY <1>2, <1>3 DEF Range
    <2> QED
        BY <2>1, <2>2, <2>3 DEF Range
<1>6. IsInjective(r)
    <2>1. \A j \in DOMAIN r : j = 1 \/ (j \in 2..Len(s)+1 /\ j - 1 \in DOMAIN s /\ r[j] = s[j - 1])
        BY <1>3, <1>4
    <2>2. \A j \in DOMAIN s : s[j] # p
        BY DEF Range
    <2>3. ASSUME NEW j \in DOMAIN r, NEW k \in DOMAIN r, r[j] = r[k] PROVE j = k
        <3>1. CASE j = 1 \/ k = 1
            BY <1>2, <2>1, <2>2, <2>3, <3>1
        <3>2. CASE j # 1 /\ k # 1
            <4>1. s[j - 1] = s[k - 1] /\ j - 1 \in DOMAIN s /\ k - 1 \in DOMAIN s
                BY <2>1, <2>3, <3>2
            <4>2. j - 1 = k - 1
                BY <4>1 DEF IsInjective
            <4> QED BY <1>3, <4>2
        <3> QED BY <3>1, <3>2
    <2> QED
        BY <2>3 DEF IsInjective
<1> QED
    BY <1>1, <1>5, <1>6 DEF r

\* Moving one pipeline to the front keeps them all.
LEMMA MovedToFront ==
    ASSUME NEW S, NEW s \in Seq(S), NEW i \in DOMAIN s, IsInjective(s)
    PROVE  /\ <<s[i]>> \o RemoveAt(s, i) \in Seq(S)
           /\ Range(<<s[i]>> \o RemoveAt(s, i)) = Range(s)
           /\ IsInjective(<<s[i]>> \o RemoveAt(s, i))
<1> DEFINE n == Len(s)
           a == SubSeq(s, 1, i-1)
           b == SubSeq(s, i+1, Len(s))
           c == a \o b
<1>1. n \in Nat /\ i \in 1..n /\ DOMAIN s = 1..n
    OBVIOUS
<1>2. a \in Seq(S) /\ Len(a) = i - 1 /\ \A j \in 1..i-1 : a[j] = s[j]
    BY <1>1
<1>3. b \in Seq(S) /\ Len(b) = n - i /\ \A j \in 1..n-i : b[j] = s[j + i]
    BY <1>1
<1> HIDE DEF a, b
<1>4. /\ c \in Seq(S) /\ Len(c) = n - 1
      /\ \A j \in 1..n-1 : c[j] = IF j < i THEN s[j] ELSE s[j + 1]
    <2>1. c \in Seq(S) /\ Len(c) = n - 1
        <3>1. c \in Seq(S)
            BY <1>2, <1>3
        <3>2. Len(c) = Len(a) + Len(b)
            BY <1>2, <1>3, ConcatProperties
        <3>3. (i - 1) + (n - i) = n - 1
            BY <1>1
        <3> QED BY <1>2, <1>3, <3>1, <3>2, <3>3
    <2>2. ASSUME NEW j \in 1..i-1 PROVE c[j] = s[j]
        <3>1. c[j] = a[j]
            BY <1>1, <1>2, <1>3
        <3> QED BY <1>2, <3>1
    <2>3. ASSUME NEW j \in i..n-1 PROVE c[j] = s[j + 1]
        <3>1. j - (i - 1) \in 1..n-i /\ (j - (i - 1)) + i = j + 1
            BY <1>1
        <3>2. c[j] = b[j - (i - 1)]
            BY <1>1, <1>2, <1>3
        <3> QED BY <1>3, <3>1, <3>2
    <2>4. ASSUME NEW j \in 1..n-1 PROVE c[j] = IF j < i THEN s[j] ELSE s[j + 1]
        <3>1. j \in 1..i-1 \/ (j \in i..n-1 /\ ~(j < i))
            BY <1>1
        <3> HIDE DEF c, n
        <3>2. CASE j \in 1..i-1
            <4>1. j < i
                BY <1>1, <3>2
            <4> QED BY <2>2, <3>2, <4>1
        <3>3. CASE j \in i..n-1 /\ ~(j < i)
            BY <2>3, <3>3
        <3> QED BY <3>1, <3>2, <3>3
    <2> HIDE DEF c, n
    <2> QED
        BY <2>1, <2>4
<1>5. RemoveAt(s, i) = c
    BY DEF RemoveAt, a, b
<1> HIDE DEF c
<1>6. ASSUME NEW j \in 1..n-1 PROVE c[j] # s[i] /\ c[j] \in Range(s)
    BY <1>1, <1>4 DEF IsInjective, Range
<1>7. DOMAIN c = 1..n-1
    BY <1>4
<1>8. s[i] \notin Range(c) /\ Range(s) = Range(c) \cup {s[i]}
    <2>1. s[i] \notin Range(c)
        BY <1>6, <1>7 DEF Range
    <2>2. ASSUME NEW j \in 1..n, j # i PROVE s[j] \in Range(c)
        <3>1. CASE j < i
            <4>1. j \in 1..n-1 /\ c[j] = s[j]
                BY <1>1, <1>4, <3>1
            <4> QED BY <1>7, <4>1 DEF Range
        <3>2. CASE j > i
            <4>1. j - 1 \in 1..n-1 /\ c[j - 1] = s[j]
                BY <1>1, <1>4, <3>2
            <4> QED BY <1>7, <4>1 DEF Range
        <3> QED BY <1>1, <2>2, <3>1, <3>2
    <2>3. Range(s) \subseteq Range(c) \cup {s[i]}
        BY <1>1, <2>2 DEF Range
    <2>4. Range(c) \subseteq Range(s) /\ s[i] \in Range(s)
        BY <1>1, <1>6, <1>7 DEF Range
    <2> QED BY <2>1, <2>3, <2>4
<1>9. IsInjective(c)
    <2>1. ASSUME NEW j \in 1..n-1, NEW k \in 1..n-1, c[j] = c[k] PROVE j = k
        <3>1. \A x, y \in 1..n : s[x] = s[y] => x = y
            BY <1>1 DEF IsInjective
        <3>2. \E x \in 1..n : c[j] = s[x] /\ x = IF j < i THEN j ELSE j + 1
            BY <1>1, <1>4
        <3>3. \E x \in 1..n : c[k] = s[x] /\ x = IF k < i THEN k ELSE k + 1
            BY <1>1, <1>4
        <3>4. PICK x \in 1..n : c[j] = s[x] /\ x = IF j < i THEN j ELSE j + 1
            BY <3>2
        <3>5. PICK y \in 1..n : c[k] = s[y] /\ y = IF k < i THEN k ELSE k + 1
            BY <3>3
        <3>6. x = y
            BY <2>1, <3>1, <3>4, <3>5
        <3> QED BY <1>1, <3>4, <3>5, <3>6
    <2> QED
        BY <1>7, <2>1 DEF IsInjective
<1> QED
    BY <1>1, <1>4, <1>5, <1>8, <1>9, Prepended

-----------------------------------------------------------------------------
(* What the steps of a thread do to its run.                                 *)

RunRec == [pc : RunPC, pipe : Pipelines, tok : Nat, tasks : 0 .. MaxTasks, failed : BOOLEAN]

\* Nobody else's run changes.
Only(t) == run' \in [Threads -> RunRec] /\ \A u \in Threads \ {t} : run'[u] = run[u]

LEMMA IdleRun ==
    /\ Idle \in RunRec /\ Idle.pc = "idle" /\ Idle.tasks = 0
    /\ \A p \in Pipelines : NewRun(p) \in RunRec /\ NewRun(p).pc = "starting" /\ NewRun(p).tasks = 0
<1> DEFINE c == CHOOSE p \in Pipelines : TRUE
<1>1. c \in Pipelines
    BY ProfilerAssumption
<1>2. 0 \in 0..MaxTasks /\ {"starting", "idle"} \subseteq RunPC
    BY ProfilerAssumption DEF RunPC
<1> HIDE DEF c
<1>3. \A p \in Pipelines : NewRun(p) \in RunRec /\ NewRun(p).pc = "starting" /\ NewRun(p).tasks = 0
    BY <1>2 DEF NewRun, RunRec
<1>4. Idle = [NewRun(c) EXCEPT !.pc = "idle"]
    BY DEF Idle, c
<1>5. Idle \in RunRec /\ Idle.pc = "idle" /\ Idle.tasks = 0
    BY <1>1, <1>2, <1>4 DEF NewRun, RunRec
<1> QED
    BY <1>3, <1>5

LEMMA GoEffect ==
    ASSUME TypeOK, NEW t \in Threads, NEW pc \in RunPC, Go(t, pc)
    PROVE  /\ Only(t) /\ run'[t].pc = pc
           /\ run'[t].pipe = run[t].pipe /\ run'[t].tok = run[t].tok
           /\ run'[t].tasks = run[t].tasks
<1>1. run \in [Threads -> RunRec]
    BY DEF TypeOK, RunRec
<1>2. run[t] \in RunRec
    BY <1>1
<1>3. run' = [run EXCEPT ![t].pc = pc]
    BY DEF Go
<1>4. [run[t] EXCEPT !.pc = pc] \in RunRec
    BY <1>2 DEF RunRec
<1>5. run'[t] = [run[t] EXCEPT !.pc = pc] /\ \A u \in Threads \ {t} : run'[u] = run[u]
    BY <1>1, <1>3
<1>6. run' \in [Threads -> RunRec]
    BY <1>1, <1>3, <1>4
<1> QED
    BY <1>2, <1>5, <1>6 DEF Only, RunRec

LEMMA TaskEffect ==
    ASSUME TypeOK, NEW t \in Threads, NEW k \in 0..MaxTasks, NEW b \in BOOLEAN,
           \/ run' = [run EXCEPT ![t].tasks = k]
           \/ run' = [run EXCEPT ![t].tasks = k, ![t].failed = b]
    PROVE  /\ Only(t) /\ run'[t].pc = run[t].pc
           /\ run'[t].pipe = run[t].pipe /\ run'[t].tok = run[t].tok
           /\ run'[t].tasks = k
<1>1. run \in [Threads -> RunRec]
    BY DEF TypeOK, RunRec
<1>2. run[t] \in RunRec
    BY <1>1
<1> DEFINE r1 == [run[t] EXCEPT !.tasks = k]
           r2 == [r1 EXCEPT !.failed = b]
<1>3. /\ r1 \in RunRec /\ r1.pc = run[t].pc /\ r1.pipe = run[t].pipe /\ r1.tok = run[t].tok
      /\ r1.tasks = k
    BY <1>2 DEF RunRec
<1>4. /\ r2 \in RunRec /\ r2.pc = run[t].pc /\ r2.pipe = run[t].pipe /\ r2.tok = run[t].tok
      /\ r2.tasks = k
    <2> HIDE DEF r1
    <2> QED BY <1>3 DEF RunRec
<1>5. run' = [run EXCEPT ![t] = r1] \/ run' = [run EXCEPT ![t] = r2]
    <2>1. CASE run' = [run EXCEPT ![t].tasks = k]
        BY <1>1, <2>1
    <2>2. CASE run' = [run EXCEPT ![t].tasks = k, ![t].failed = b]
        BY <1>1, <2>2
    <2> QED BY <2>1, <2>2
<1> HIDE DEF r1, r2
<1> QED
    BY <1>1, <1>3, <1>4, <1>5 DEF Only

LEMMA StartEffect ==
    ASSUME TypeOK, NEW t \in Threads, NEW k \in Nat,
           run' = [run EXCEPT ![t].pc = "entering", ![t].tok = k]
    PROVE  /\ Only(t) /\ run'[t].pc = "entering"
           /\ run'[t].pipe = run[t].pipe /\ run'[t].tok = k
           /\ run'[t].tasks = run[t].tasks
<1>1. run \in [Threads -> RunRec]
    BY DEF TypeOK, RunRec
<1>2. run[t] \in RunRec
    BY <1>1
<1> DEFINE r1 == [run[t] EXCEPT !.pc = "entering"]
           r2 == [r1 EXCEPT !.tok = k]
<1>3. /\ r1 \in RunRec /\ r1.pc = "entering" /\ r1.pipe = run[t].pipe
      /\ r1.tasks = run[t].tasks
    BY <1>2 DEF RunRec, RunPC
<1>4. /\ r2 \in RunRec /\ r2.pc = "entering" /\ r2.pipe = run[t].pipe /\ r2.tok = k
      /\ r2.tasks = run[t].tasks
    <2> HIDE DEF r1
    <2> QED BY <1>3 DEF RunRec
<1>5. run' = [run EXCEPT ![t] = r2]
    BY <1>1
<1> HIDE DEF r1, r2
<1> QED
    BY <1>1, <1>4, <1>5 DEF Only

LEMMA NewEffect ==
    ASSUME TypeOK, NEW t \in Threads, NEW r \in RunRec, run' = [run EXCEPT ![t] = r]
    PROVE  Only(t) /\ run'[t] = r
BY DEF TypeOK, RunRec, Only

-----------------------------------------------------------------------------
(* Counting the threads at work.                                             *)

Bodies == {t \in Threads : At(t, "body")}
Slots == Threads \X (1 .. MaxTasks)
Tasks == {c \in Slots : c[2] <= run[c[1]].tasks}

LEMMA CountsFinite ==
    /\ IsFiniteSet(Bodies) /\ Cardinality(Bodies) \in Nat
    /\ IsFiniteSet(Tasks) /\ Cardinality(Tasks) \in Nat
    /\ Working = Cardinality(Bodies) + Cardinality(Tasks)
<1>1. IsFiniteSet(Bodies)
    BY ProfilerAssumption, FS_Subset DEF Bodies
<1>2. IsFiniteSet(1 .. MaxTasks)
    BY ProfilerAssumption, FS_Interval
<1>3. IsFiniteSet(Slots)
    BY <1>2, ProfilerAssumption, FS_Product DEF Slots
<1>4. IsFiniteSet(Tasks)
    BY <1>3, FS_Subset DEF Tasks
<1>5. Working = Cardinality(Bodies) + Cardinality(Tasks)
    BY DEF Working, Bodies, Tasks, Slots
<1> QED
    BY <1>1, <1>4, <1>5, FS_CardinalityType

LEMMA BodiesChange ==
    ASSUME TypeOK, NEW t \in Threads, Only(t)
    PROVE  /\ (At(t, "body") <=> run'[t].pc = "body") => Cardinality(Bodies)' = Cardinality(Bodies)
           /\ At(t, "body") /\ run'[t].pc # "body" =>
                 Cardinality(Bodies)' = Cardinality(Bodies) - 1
           /\ ~At(t, "body") /\ run'[t].pc = "body" =>
                 Cardinality(Bodies)' = Cardinality(Bodies) + 1
<1>1. \A u \in Threads : u # t => (u \in Bodies' <=> u \in Bodies)
    BY DEF Bodies, Only, At
<1>2. /\ t \in Bodies' <=> run'[t].pc = "body"
      /\ t \in Bodies <=> At(t, "body")
    BY DEF Bodies, At
<1>3. Bodies \subseteq Threads /\ Bodies' \subseteq Threads
    BY DEF Bodies
<1>4. IsFiniteSet(Bodies) /\ Cardinality(Bodies) \in Nat
    BY CountsFinite
<1>5. CASE At(t, "body") <=> run'[t].pc = "body"
    <2>1. Bodies' = Bodies
        BY <1>1, <1>2, <1>3, <1>5
    <2> QED BY <1>5, <2>1
<1>6. CASE At(t, "body") /\ run'[t].pc # "body"
    <2>1. Bodies' = Bodies \ {t} /\ t \in Bodies
        BY <1>1, <1>2, <1>3, <1>6
    <2>2. Cardinality(Bodies \ {t}) = Cardinality(Bodies) - 1
        BY <1>4, <2>1, FS_RemoveElement
    <2> QED BY <1>6, <2>1, <2>2
<1>7. CASE ~At(t, "body") /\ run'[t].pc = "body"
    <2>1. Bodies' = Bodies \cup {t} /\ t \notin Bodies
        BY <1>1, <1>2, <1>3, <1>7
    <2>2. Cardinality(Bodies \cup {t}) = Cardinality(Bodies) + 1
        BY <1>4, <2>1, FS_AddElement
    <2> QED BY <1>7, <2>1, <2>2
<1> QED
    BY <1>5, <1>6, <1>7

LEMMA TasksChange ==
    ASSUME TypeOK, NEW t \in Threads, Only(t)
    PROVE  /\ run'[t].tasks = run[t].tasks => Cardinality(Tasks)' = Cardinality(Tasks)
           /\ run'[t].tasks = run[t].tasks - 1 => Cardinality(Tasks)' = Cardinality(Tasks) - 1
           /\ run'[t].tasks = run[t].tasks + 1 => Cardinality(Tasks)' = Cardinality(Tasks) + 1
<1> DEFINE k == run[t].tasks
           l == run'[t].tasks
<1>0. MaxTasks \in Nat
    BY ProfilerAssumption
<1>1. k \in 0..MaxTasks /\ l \in 0..MaxTasks
    BY DEF TypeOK, Only, RunRec
<1>2. \A u \in Threads, i \in 1..MaxTasks : u # t => (<<u, i>> \in Tasks' <=> <<u, i>> \in Tasks)
    BY DEF Tasks, Slots, Only
<1>3. \A i \in 1..MaxTasks : /\ <<t, i>> \in Tasks' <=> i <= l
                             /\ <<t, i>> \in Tasks <=> i <= k
    BY DEF Tasks, Slots
<1>4. Tasks \subseteq Slots /\ Tasks' \subseteq Slots
    BY DEF Tasks
<1>5. \A c \in Slots : \E u \in Threads, i \in 1..MaxTasks : c = <<u, i>>
    BY DEF Slots
<1>6. IsFiniteSet(Tasks) /\ Cardinality(Tasks) \in Nat
    BY CountsFinite
<1> HIDE DEF k, l
<1>7. CASE l = k
    <2>1. \A c \in Slots : c \in Tasks' <=> c \in Tasks
        BY <1>2, <1>3, <1>5, <1>7
    <2>2. Tasks' = Tasks
        BY <1>4, <2>1
    <2> QED BY <1>1, <1>7, <2>2 DEF k, l
<1>8. CASE l = k - 1
    <2>1. k \in 1..MaxTasks /\ <<t, k>> \in Tasks
        BY <1>0, <1>1, <1>3, <1>8
    <2>2. \A c \in Slots : c \in Tasks' <=> c \in Tasks /\ c # <<t, k>>
        <3>1. ASSUME NEW i \in 1..MaxTasks PROVE i <= l <=> i <= k /\ i # k
            BY <1>1, <1>8
        <3>2. ASSUME NEW u \in Threads, NEW i \in 1..MaxTasks
              PROVE  <<u, i>> \in Tasks' <=> <<u, i>> \in Tasks /\ <<u, i>> # <<t, k>>
            BY <1>2, <1>3, <3>1
        <3> QED BY <1>5, <3>2
    <2>3. Tasks' = Tasks \ {<<t, k>>}
        BY <1>4, <2>2
    <2>4. Cardinality(Tasks \ {<<t, k>>}) = Cardinality(Tasks) - 1
        BY <1>6, <2>1, FS_RemoveElement
    <2> QED BY <1>1, <1>8, <2>3, <2>4 DEF k, l
<1>9. CASE l = k + 1
    <2>1. l \in 1..MaxTasks /\ <<t, l>> \notin Tasks /\ <<t, l>> \in Slots
        BY <1>0, <1>1, <1>3, <1>9 DEF Slots
    <2>2. \A c \in Slots : c \in Tasks' <=> c \in Tasks \/ c = <<t, l>>
        <3>1. ASSUME NEW i \in 1..MaxTasks PROVE i <= l <=> i <= k \/ i = l
            BY <1>1, <1>9
        <3>2. ASSUME NEW u \in Threads, NEW i \in 1..MaxTasks
              PROVE  <<u, i>> \in Tasks' <=> <<u, i>> \in Tasks \/ <<u, i>> = <<t, l>>
            BY <1>2, <1>3, <3>1
        <3> QED BY <1>5, <3>2
    <2>3. Tasks' = Tasks \cup {<<t, l>>}
        BY <1>4, <2>1, <2>2
    <2>4. Cardinality(Tasks \cup {<<t, l>>}) = Cardinality(Tasks) + 1
        BY <1>6, <2>1, FS_AddElement
    <2> QED BY <1>1, <1>9, <2>3, <2>4 DEF k, l
<1> QED
    BY <1>7, <1>8, <1>9 DEF k, l

\* A step that counts right: it changes active_threads as it changes the number
\* of threads at work, or it is a failure and skips a decrement.
LEMMA CountStep ==
    ASSUME TypeOK, ActiveThreadsCounted, NEW t \in Threads, Only(t),
           NEW db \in {-1, 0, 1}, NEW dt \in {-1, 0, 1},
           \/ db = 0 /\ (At(t, "body") <=> run'[t].pc = "body")
           \/ db = -1 /\ At(t, "body") /\ run'[t].pc # "body"
           \/ db = 1 /\ ~At(t, "body") /\ run'[t].pc = "body",
           run'[t].tasks = run[t].tasks + dt,
           \/ active_threads' = active_threads + db + dt /\ failures' = failures
           \/ active_threads' = active_threads /\ failures' = failures + 1 /\ db + dt \in {-1, 0}
    PROVE  ActiveThreadsCounted' /\ active_threads' \in Nat
<1>1. /\ Cardinality(Bodies) \in Nat /\ Cardinality(Tasks) \in Nat
      /\ Working = Cardinality(Bodies) + Cardinality(Tasks)
    BY CountsFinite
<1>2. Working' = Cardinality(Bodies)' + Cardinality(Tasks)'
    BY DEF Working, Bodies, Tasks, Slots
<1>3. Cardinality(Bodies)' = Cardinality(Bodies) + db
    <2>1. CASE db = 0 /\ (At(t, "body") <=> run'[t].pc = "body")
        BY <1>1, <2>1, BodiesChange
    <2>2. CASE db = -1 /\ At(t, "body") /\ run'[t].pc # "body"
        BY <1>1, <2>2, BodiesChange
    <2>3. CASE db = 1 /\ ~At(t, "body") /\ run'[t].pc = "body"
        BY <1>1, <2>3, BodiesChange
    <2> QED BY <2>1, <2>2, <2>3
<1>4. Cardinality(Tasks)' = Cardinality(Tasks) + dt
    <2>1. run[t].tasks \in Nat
        BY DEF TypeOK
    <2>2. CASE dt = 0
        BY <1>1, <2>1, <2>2, TasksChange
    <2>3. CASE dt = -1
        BY <1>1, <2>1, <2>3, TasksChange
    <2>4. CASE dt = 1
        BY <1>1, <2>1, <2>4, TasksChange
    <2> QED BY <2>2, <2>3, <2>4
<1>5. Cardinality(Bodies) + db \in Nat /\ Cardinality(Tasks) + dt \in Nat
    <2>1. /\ IsFiniteSet(Bodies') /\ Cardinality(Bodies') \in Nat
          /\ IsFiniteSet(Tasks') /\ Cardinality(Tasks') \in Nat
        <3>1. IsFiniteSet(Bodies')
            BY ProfilerAssumption, FS_Subset DEF Bodies
        <3>2. IsFiniteSet(1 .. MaxTasks)
            BY ProfilerAssumption, FS_Interval
        <3>3. IsFiniteSet(Slots)
            BY <3>2, ProfilerAssumption, FS_Product DEF Slots
        <3>4. IsFiniteSet(Tasks')
            BY <3>3, FS_Subset DEF Tasks, Slots
        <3> QED BY <3>1, <3>4, FS_CardinalityType
    <2> QED BY <1>3, <1>4, <2>1
<1>6. active_threads \in Nat /\ failures \in Nat
    BY DEF TypeOK
<1>7. active_threads \in Working .. Working + failures
    BY DEF ActiveThreadsCounted
<1> DEFINE b == Cardinality(Bodies)
           k == Cardinality(Tasks)
           W == Working
           W2 == Working'
<1>8. /\ b \in Nat /\ k \in Nat /\ W = b + k /\ W2 = (b + db) + (k + dt)
      /\ b + db \in Nat /\ k + dt \in Nat /\ active_threads \in W .. W + failures
    BY <1>1, <1>2, <1>3, <1>4, <1>5, <1>7
<1> HIDE DEF b, k, W, W2
<1>9. active_threads' \in W2 .. W2 + failures' /\ active_threads' \in Nat
    BY <1>6, <1>8
<1> QED
    BY <1>9 DEF ActiveThreadsCounted, W2

-----------------------------------------------------------------------------
(* A step of a thread that leaves the lists alone keeps the invariant: the   *)
(* thread stays in the pipeline that it runs.                                *)

LEMMA ThreadStep ==
    ASSUME IInv, NEW t \in Threads, UNCHANGED <<state, stopping>>, ~stopping, Only(t),
           polling' \in BOOLEAN, failures' \in 0..MaxFailures,
           current_func' \in Int \ {please_stop},
           ActiveThreadsCounted', active_threads' \in Nat,
           Running(t)' => Running(t) /\ run'[t].pipe = run[t].pipe /\ run'[t].tok = run[t].tok,
           run'[t].tasks > 0 => run'[t].pc = "loop",
           \/ current_func' < 0
           \/ /\ run[t].pc \notin {"idle", "starting"} =>
                    run'[t].pc \notin {"idle", "starting"} /\ run'[t].pipe = run[t].pipe
              /\ \/ current_func' = current_func
                 \/ Running(t) /\ current_func' \in Ids(run[t].pipe, run[t].tok)
    PROVE  IInv'
<1>1. /\ TypeOK /\ ListExact /\ RunningIsSampled /\ CurrentRuns /\ Stopping /\ TasksInLoop
      /\ run' \in [Threads -> RunRec] /\ \A u \in Threads \ {t} : run'[u] = run[u]
    BY DEF IInv, Only
<1>2. UNCHANGED <<started, first_free_id, pipelines, first_func_id, billed, sampler, stopping>>
    BY DEF state
<1>3. TypeOK'
    BY <1>1, <1>2 DEF TypeOK, RunRec
<1>4. ListExact'
    BY <1>1, <1>2 DEF ListExact, Listed
<1>5. RunningIsSampled'
    <2>1. ASSUME NEW u \in Threads, Running(u)'
          PROVE  /\ run'[u].pipe \in Listed' /\ run'[u].tok = first_func_id'[run'[u].pipe]
                 /\ sampler' # "none"
        <3>1. Running(u) /\ run'[u].pipe = run[u].pipe /\ run'[u].tok = run[u].tok
            BY <1>1, <2>1 DEF Running
        <3> QED BY <1>1, <1>2, <3>1 DEF RunningIsSampled, Listed
    <2> QED BY <1>1, <1>2, <2>1 DEF RunningIsSampled
<1>6. Stopping' /\ TasksInLoop'
    BY <1>1, <1>2 DEF Stopping, TasksInLoop, At
<1>7. CurrentRuns'
    <2> SUFFICES ASSUME NEW p \in Listed, current_func' \in Ids(p, first_func_id[p])
                 PROVE  Alive(p)'
        BY <1>2 DEF CurrentRuns, Listed, Ids
    <2>1. p \in Pipelines /\ first_func_id[p] \in Nat /\ current_func' >= 0
        <3>1. p \in Pipelines
            BY <1>1 DEF TypeOK, Listed, Range
        <3>2. first_func_id[p] \in Nat /\ NumFuncs[p] \in Nat
            BY <1>1, <3>1, ProfilerAssumption DEF TypeOK
        <3> QED BY <3>1, <3>2 DEF Ids
    <2>2. /\ run[t].pc \notin {"idle", "starting"} =>
                run'[t].pc \notin {"idle", "starting"} /\ run'[t].pipe = run[t].pipe
          /\ \/ current_func' = current_func
             \/ Running(t) /\ current_func' \in Ids(run[t].pipe, run[t].tok)
        BY <2>1
    <2>3. Alive(p)
        <3>1. CASE current_func' = current_func
            BY <1>1, <3>1 DEF CurrentRuns
        <3>2. CASE Running(t) /\ current_func' \in Ids(run[t].pipe, run[t].tok)
            <4>1. /\ run[t].pipe \in Listed
                  /\ current_func' \in Ids(run[t].pipe, first_func_id[run[t].pipe])
                BY <1>1, <3>2 DEF RunningIsSampled
            <4>2. p = run[t].pipe
                BY <1>1, <4>1 DEF ListExact
            <4> QED BY <3>2, <4>2 DEF Alive, Running
        <3> QED BY <2>2, <3>1, <3>2
    <2> QED
        BY <1>1, <2>2, <2>3 DEF Alive
<1> QED
    BY <1>3, <1>4, <1>5, <1>6, <1>7 DEF IInv

\* What the steps of a thread have in common.
LEMMA ThreadFacts ==
    ASSUME IInv, NEW t \in Threads
    PROVE  /\ ~At(t, "idle") => ~stopping
           /\ ~stopping => current_func \in Int \ {please_stop}
           /\ run[t].tasks \in 0..MaxTasks /\ (run[t].tasks > 0 => At(t, "loop"))
           /\ active_threads \in Nat /\ failures \in 0..MaxFailures /\ polling \in BOOLEAN
           /\ TypeOK /\ ActiveThreadsCounted /\ MaxFailures \in Nat /\ MaxTasks \in Nat
BY ProfilerAssumption DEF IInv, Stopping, Quiet, TasksInLoop, At, TypeOK

\* A step from one place of a pipeline to another.
LEMMA GoStep ==
    ASSUME IInv, NEW t \in Threads, NEW pc \in RunPC \ {"idle", "starting"}, Go(t, pc),
           UNCHANGED <<state, stopping, current_func>>, polling' \in BOOLEAN,
           Running(t), run[t].tasks = 0, failures' \in 0..MaxFailures,
           NEW db \in {-1, 0, 1},
           \/ db = 0 /\ ~At(t, "body") /\ pc # "body"
           \/ db = -1 /\ At(t, "body") /\ pc # "body"
           \/ db = 1 /\ ~At(t, "body") /\ pc = "body",
           \/ active_threads' = active_threads + db /\ failures' = failures
           \/ active_threads' = active_threads /\ failures' = failures + 1 /\ db \in {-1, 0}
    PROVE  IInv'
<1>1. /\ Only(t) /\ run'[t].pc = pc
      /\ run'[t].pipe = run[t].pipe /\ run'[t].tok = run[t].tok
      /\ run'[t].tasks = run[t].tasks
    BY ThreadFacts, GoEffect
<1>2. ~stopping /\ current_func \in Int \ {please_stop}
    BY ThreadFacts DEF Running, At
<1>3. ActiveThreadsCounted' /\ active_threads' \in Nat
    <2>1. run'[t].tasks = run[t].tasks + 0 /\ active_threads + db + 0 = active_threads + db /\ db + 0 = db
        BY <1>1, ThreadFacts
    <2> QED
        BY <1>1, <2>1, ThreadFacts, CountStep
<1> QED
    BY <1>1, <1>2, <1>3, ThreadStep DEF Running

LEMMA StepPipeline ==
    ASSUME IInv, NEW t \in Threads, Enter(t) \/ Leave(t) \/ Fail(t)
    PROVE  IInv'
<1> USE ThreadFacts DEF At, Running, RunPC
<1>1. CASE Enter(t)
    BY <1>1, GoStep DEF Enter, incr_active_threads
<1>2. CASE Leave(t)
    BY <1>2, GoStep DEF Leave, decr_active_threads
<1>3. CASE Fail(t)
    BY <1>3, GoStep DEF Fail
<1> QED
    BY <1>1, <1>2, <1>3

LEMMA StepLoop ==
    ASSUME IInv, NEW t \in Threads, LoopEnter(t) \/ LoopExit(t) \/ LoopFailed(t)
    PROVE  IInv'
<1> USE ThreadFacts DEF At, Running, RunPC
<1>1. CASE LoopEnter(t)
    BY <1>1, GoStep DEF LoopEnter, decr_active_threads
<1>2. CASE LoopExit(t)
    BY <1>2, GoStep DEF LoopExit, incr_active_threads
<1>3. CASE LoopFailed(t)
    BY <1>3, GoStep DEF LoopFailed
<1> QED
    BY <1>1, <1>2, <1>3

LEMMA StepRemote ==
    ASSUME IInv, NEW t \in Threads, RemoteEnter(t) \/ RemoteExit(t) \/ RemoteFail(t)
    PROVE  IInv'
<1> USE ThreadFacts DEF At, Running, RunPC
<1>0. RemotePolling \in BOOLEAN
    BY ProfilerAssumption
<1>1. CASE RemoteEnter(t)
    BY <1>0, <1>1, GoStep DEF RemoteEnter, decr_active_threads
<1>2. CASE RemoteExit(t)
    <2>0. polling' \in BOOLEAN
        BY <1>2, Zenon DEF RemoteExit
    <2>1. /\ Go(t, "body") /\ UNCHANGED <<state, stopping, current_func>>
          /\ Running(t) /\ run[t].tasks = 0 /\ ~At(t, "body")
          /\ active_threads' = active_threads + 1 /\ failures' = failures
        BY <1>2 DEF RemoteExit, incr_active_threads
    <2> QED
        BY <2>0, <2>1, GoStep
<1>3. CASE RemoteFail(t)
    BY <1>3, GoStep DEF RemoteFail
<1> QED
    BY <1>1, <1>2, <1>3

LEMMA StepTask ==
    ASSUME IInv, NEW t \in Threads, TaskBegin(t) \/ TaskEnd(t) \/ TaskFail(t)
    PROVE  IInv'
<1> USE ThreadFacts DEF At
<1>1. \E k \in 0..MaxTasks, dt \in {-1, 1} :
         /\ k = run[t].tasks + dt
         /\ \/ run' = [run EXCEPT ![t].tasks = k]
            \/ run' = [run EXCEPT ![t].tasks = k, ![t].failed = TRUE]
         /\ \/ active_threads' = active_threads + dt /\ failures' = failures
            \/ active_threads' = active_threads /\ failures' = failures + 1 /\ dt = -1
    <2>1. CASE TaskBegin(t)
        <3>1. run' = [run EXCEPT ![t].tasks = run[t].tasks + 1] /\ run[t].tasks + 1 \in 0..MaxTasks
            BY <2>1 DEF TaskBegin
        <3> QED BY <2>1, <3>1 DEF TaskBegin, incr_active_threads
    <2>2. CASE TaskEnd(t)
        <3>1. /\ run' = [run EXCEPT ![t].tasks = run[t].tasks - 1]
              /\ run[t].tasks - 1 \in 0..MaxTasks /\ run[t].tasks - 1 = run[t].tasks + (-1)
            BY <2>2 DEF TaskEnd
        <3> QED BY <2>2, <3>1 DEF TaskEnd, decr_active_threads
    <2>3. CASE TaskFail(t)
        <3>1. /\ run' = [run EXCEPT ![t].tasks = run[t].tasks - 1, ![t].failed = TRUE]
              /\ run[t].tasks - 1 \in 0..MaxTasks /\ run[t].tasks - 1 = run[t].tasks + (-1)
            BY <2>3 DEF TaskFail
        <3> QED BY <2>3, <3>1 DEF TaskFail
    <2> QED BY <2>1, <2>2, <2>3
<1>2. PICK k \in 0..MaxTasks, dt \in {-1, 1} :
         /\ k = run[t].tasks + dt
         /\ \/ run' = [run EXCEPT ![t].tasks = k]
            \/ run' = [run EXCEPT ![t].tasks = k, ![t].failed = TRUE]
         /\ \/ active_threads' = active_threads + dt /\ failures' = failures
            \/ active_threads' = active_threads /\ failures' = failures + 1 /\ dt = -1
    BY <1>1
<1>3. /\ Only(t) /\ run'[t].pc = run[t].pc
      /\ run'[t].pipe = run[t].pipe /\ run'[t].tok = run[t].tok
      /\ run'[t].tasks = k
    BY ZenonT(40), <1>2, TaskEffect
<1>4. /\ At(t, "loop") /\ UNCHANGED <<state, current_func, polling, stopping>>
      /\ failures' \in 0..MaxFailures
    BY DEF TaskBegin, TaskEnd, TaskFail
<1>5. ActiveThreadsCounted' /\ active_threads' \in Nat
    <2>1. /\ active_threads + 0 + dt = active_threads + dt /\ 0 + dt = dt /\ dt \in {-1, 0, 1}
        OBVIOUS
    <2>2. \/ active_threads' = active_threads + 0 + dt /\ failures' = failures
          \/ active_threads' = active_threads /\ failures' = failures + 1 /\ 0 + dt \in {-1, 0}
        BY <1>2, <2>1
    <2>3. run'[t].tasks = run[t].tasks + dt /\ (At(t, "body") <=> run'[t].pc = "body")
        BY <1>2, <1>3
    <2> QED
        BY <1>3, <2>1, <2>2, <2>3, CountStep
<1>6. ~stopping /\ current_func \in Int \ {please_stop}
    BY <1>4
<1> QED
    BY <1>3, <1>4, <1>5, <1>6, ThreadStep DEF Running

LEMMA StepBegin ==
    ASSUME IInv, NEW t \in Threads, NEW p \in Pipelines, Begin(t, p)
    PROVE  IInv'
<1> USE ThreadFacts DEF At
<1>1. Only(t) /\ run'[t] = NewRun(p)
    BY IdleRun, NewEffect DEF Begin
<1>2. run'[t].pc = "starting" /\ run'[t].tasks = 0 /\ run[t].tasks = 0 /\ At(t, "idle")
    BY <1>1, IdleRun DEF Begin
<1>3. ActiveThreadsCounted' /\ active_threads' \in Nat
    <2>1. /\ active_threads' = active_threads + 0 + 0 /\ failures' = failures
          /\ run'[t].tasks = run[t].tasks + 0 /\ (At(t, "body") <=> run'[t].pc = "body")
        BY <1>2 DEF Begin
    <2> QED
        BY <1>1, <2>1, CountStep
<1> QED
    BY <1>1, <1>2, <1>3, ThreadStep DEF Begin, Running

LEMMA StepEnd ==
    ASSUME IInv, NEW t \in Threads, halide_profiler_pipeline_end(t)
    PROVE  IInv'
<1> USE ThreadFacts DEF At
<1>1. Only(t) /\ run'[t] = Idle
    BY IdleRun, NewEffect DEF halide_profiler_pipeline_end
<1>2. run'[t].pc = "idle" /\ run'[t].tasks = 0 /\ run[t].tasks = 0 /\ At(t, "ending")
    BY <1>1, IdleRun DEF halide_profiler_pipeline_end
<1>3. ActiveThreadsCounted' /\ active_threads' \in Nat
    <2>1. /\ active_threads' = active_threads + 0 + 0 /\ failures' = failures
          /\ run'[t].tasks = run[t].tasks + 0 /\ (At(t, "body") <=> run'[t].pc = "body")
        BY <1>2 DEF halide_profiler_pipeline_end
    <2> QED
        BY <1>1, <2>1, CountStep
<1>4. current_func' \in Int \ {please_stop} /\ current_func' < 0
    BY DEF halide_profiler_pipeline_end, FuncAtEnd, outside_of_halide, please_stop
<1> QED
    BY <1>1, <1>2, <1>3, <1>4, ThreadStep DEF halide_profiler_pipeline_end, Running

LEMMA StepSetFunc ==
    ASSUME IInv, NEW t \in Threads, NEW f \in FuncsOf(run[t].pipe),
           halide_profiler_set_current_func(t, f)
    PROVE  IInv'
<1> USE ThreadFacts DEF At
<1>1. /\ UNCHANGED <<state, stopping, run, active_threads, polling, failures>>
      /\ Running(t) /\ current_func' = run[t].tok + f
    BY DEF halide_profiler_set_current_func, Running
<1>2. Only(t) /\ run[t].tok \in Nat /\ run[t].pipe \in Pipelines
    BY <1>1 DEF TypeOK, Only, RunRec
<1>3. f \in Nat /\ f <= NumFuncs[run[t].pipe] - 1 /\ NumFuncs[run[t].pipe] \in Nat
    BY <1>2, ProfilerAssumption DEF FuncsOf
<1>4. current_func' \in Int \ {please_stop} /\ current_func' \in Ids(run[t].pipe, run[t].tok)
    BY <1>1, <1>2, <1>3 DEF Ids, please_stop
<1>5. ActiveThreadsCounted' /\ active_threads' \in Nat
    BY <1>1 DEF ActiveThreadsCounted, Working
<1>6. ~stopping
    BY <1>1 DEF Running
<1> QED
    BY <1>1, <1>2, <1>4, <1>5, <1>6, ThreadStep DEF Running

-----------------------------------------------------------------------------
(* halide_profiler_pipeline_start, which lists a pipeline.                   *)

LEMMA StepStart ==
    ASSUME IInv, NEW t \in Threads, halide_profiler_pipeline_start(t)
    PROVE  IInv'
<1> DEFINE p == run[t].pipe
<1> USE ThreadFacts DEF At
<1>1. /\ TypeOK /\ ListExact /\ RunningIsSampled /\ CurrentRuns /\ Stopping /\ TasksInLoop
      /\ run[t].pc = "starting" /\ run[t].tasks = 0 /\ ~stopping
      /\ UNCHANGED <<billed, current_func, active_threads, polling, stopping, failures>>
      /\ started' = TRUE /\ sampler' = Spawned
    BY DEF halide_profiler_pipeline_start, IInv
<1>2. /\ pipelines \in Seq(Pipelines) /\ IsInjective(pipelines) /\ Listed = Range(pipelines)
      /\ p \in Pipelines /\ first_free_id \in Nat /\ first_func_id \in [Pipelines -> Nat]
      /\ NumFuncs[p] \in Nat \ {0}
    BY <1>1, ProfilerAssumption DEF TypeOK, ListExact, Listed
<1>3. sampler' \in SamplerPC /\ sampler' # "none" /\ current_func \in Int \ {please_stop}
    BY <1>1 DEF Spawned, RunningIsSampled, TypeOK, SamplerPC
<1>4. Listed \subseteq Pipelines
    BY <1>2 DEF Range
\* The three outcomes, by what they do to the list and to the run of t.
<1>5. /\ Only(t) /\ run'[t].pipe = p /\ run'[t].tasks = 0
      /\ \/ /\ run'[t].pc = "ending" \/ (run'[t].pc = "entering" /\ p \in Listed /\ run'[t].tok = first_func_id[p])
            /\ UNCHANGED <<pipelines, first_func_id, first_free_id>>
         \/ /\ run'[t].pc = "entering" /\ run'[t].tok = first_free_id
            /\ p \notin Listed /\ pipelines' = <<p>> \o pipelines
            /\ first_func_id' = [first_func_id EXCEPT ![p] = first_free_id]
            /\ first_free_id' = first_free_id + NumFuncs[p]
    <2>1. CASE /\ p \in Listed
               /\ run' = [run EXCEPT ![t].pc = "entering", ![t].tok = first_func_id[p]]
               /\ UNCHANGED <<pipelines, first_func_id, first_free_id>>
        <3>1. first_func_id[p] \in Nat
            BY <1>2
        <3> HIDE DEF p
        <3>2. /\ Only(t) /\ run'[t].pc = "entering" /\ run'[t].pipe = run[t].pipe
              /\ run'[t].tok = first_func_id[p] /\ run'[t].tasks = run[t].tasks
            BY <2>1, <3>1, StartEffect
        <3> QED BY <1>1, <2>1, <3>2 DEF p
    <2>2. CASE /\ p \notin Listed
               /\ pipelines' = <<p>> \o pipelines
               /\ first_func_id' = [first_func_id EXCEPT ![p] = first_free_id]
               /\ first_free_id' = NextFreeId(p)
               /\ run' = [run EXCEPT ![t].pc = "entering", ![t].tok = first_free_id]
        <3>1. /\ Only(t) /\ run'[t].pc = "entering" /\ run'[t].pipe = run[t].pipe
              /\ run'[t].tok = first_free_id /\ run'[t].tasks = run[t].tasks
            BY <1>2, <2>2, StartEffect
        <3> QED BY <1>1, <2>2, <3>1 DEF NextFreeId
    <2>3. CASE /\ p \notin Listed /\ "malloc" \in MayFail
               /\ Go(t, "ending")
               /\ UNCHANGED <<pipelines, first_func_id, first_free_id>>
        <3>1. /\ Only(t) /\ run'[t].pc = "ending" /\ run'[t].pipe = run[t].pipe
              /\ run'[t].tasks = run[t].tasks
            BY <2>3, GoEffect DEF RunPC
        <3> QED BY <1>1, <2>3, <3>1
    <2> QED
        BY <2>1, <2>2, <2>3 DEF halide_profiler_pipeline_start
<1> HIDE DEF p
<1>6. run' \in [Threads -> RunRec] /\ \A u \in Threads \ {t} : run'[u] = run[u]
    BY <1>5 DEF Only
<1>7. ActiveThreadsCounted' /\ active_threads' \in Nat
    <2>1. /\ active_threads' = active_threads + 0 + 0 /\ failures' = failures
          /\ run'[t].tasks = run[t].tasks + 0 /\ (At(t, "body") <=> run'[t].pc = "body")
        BY <1>1, <1>5
    <2> QED
        BY <1>5, <2>1, CountStep
<1>8. Stopping' /\ TasksInLoop'
    BY <1>1, <1>3, <1>5, <1>6 DEF Stopping, TasksInLoop
<1>9. CASE UNCHANGED <<pipelines, first_func_id, first_free_id>>
    <2>0. \/ run'[t].pc = "ending"
          \/ run'[t].pc = "entering" /\ p \in Listed /\ run'[t].tok = first_func_id[p]
        <3>1. <<p>> \o pipelines # pipelines
            BY <1>2
        <3> QED BY <1>5, <1>9, <3>1
    <2>1. TypeOK'
        BY <1>1, <1>3, <1>6, <1>9, <1>7 DEF TypeOK, RunRec
    <2>2. ListExact'
        BY <1>1, <1>9 DEF ListExact, Listed
    <2>3. RunningIsSampled'
        BY <1>1, <1>3, <1>5, <1>6, <1>9, <2>0 DEF RunningIsSampled, Running, Listed
    <2>4. CurrentRuns'
        <3>1. ASSUME NEW q, Alive(q) PROVE Alive(q)'
            BY <1>1, <1>6, <3>1 DEF Alive
        <3> QED BY <1>1, <1>9, <3>1 DEF CurrentRuns, Listed
    <2> QED
        BY <1>7, <1>8, <2>1, <2>2, <2>3, <2>4 DEF IInv
<1>10. CASE /\ run'[t].pc = "entering" /\ run'[t].tok = first_free_id
            /\ p \notin Listed /\ pipelines' = <<p>> \o pipelines
            /\ first_func_id' = [first_func_id EXCEPT ![p] = first_free_id]
            /\ first_free_id' = first_free_id + NumFuncs[p]
    <2>1. /\ pipelines' \in Seq(Pipelines) /\ Listed' = Listed \cup {p}
          /\ IsInjective(pipelines')
        BY <1>2, <1>10, Prepended DEF Listed
    <2>2. /\ first_func_id' \in [Pipelines -> Nat] /\ first_func_id'[p] = first_free_id
          /\ \A q \in Listed : first_func_id'[q] = first_func_id[q] /\ q # p
          /\ first_free_id' \in Nat
        BY <1>2, <1>4, <1>10
    <2>3. TypeOK'
        BY <1>1, <1>3, <1>6, <1>7, <2>1, <2>2 DEF TypeOK, RunRec
    <2>4. ListExact'
        <3>1. \A q \in Listed : NumFuncs[q] \in Nat /\ first_func_id[q] \in Nat
            BY <1>2, <1>4, ProfilerAssumption
        <3>2. \A q \in Listed : \A i \in Ids(q, first_func_id'[q]) : i < first_free_id
            BY <1>1, <2>2 DEF ListExact
        <3>3. \A i \in Ids(p, first_func_id'[p]) : i >= first_free_id /\ i < first_free_id'
            BY SMTT(40), <1>2, <1>10, <2>2 DEF Ids
        <3>4. \A q \in Listed : \A i \in Ids(q, first_func_id'[q]) : i < first_free_id'
            <4> SUFFICES ASSUME NEW q \in Listed, NEW i \in Ids(q, first_func_id'[q])
                         PROVE  i < first_free_id'
                OBVIOUS
            <4>1. i < first_free_id /\ i \in Int
                BY <2>2, <3>1, <3>2 DEF Ids
            <4> QED BY <1>2, <1>10, <4>1
        <3>5. \A q \in Listed : Ids(q, first_func_id'[q]) \cap Ids(p, first_func_id'[p]) = {}
            BY <1>2, <2>2, <3>1, <3>2, <3>3 DEF Ids
        <3>6. \A q, r \in Listed : q # r =>
                  Ids(q, first_func_id'[q]) \cap Ids(r, first_func_id'[r]) = {}
            BY <1>1, <2>2 DEF ListExact
        <3>7. \A q, r \in Listed \cup {p} : q # r =>
                  Ids(q, first_func_id'[q]) \cap Ids(r, first_func_id'[r]) = {}
            BY <3>5, <3>6
        <3>8. \A q \in Listed \cup {p} : \A i \in Ids(q, first_func_id'[q]) : i < first_free_id'
            BY <3>3, <3>4
        <3> QED
            BY <2>1, <3>7, <3>8 DEF ListExact, Ids
    <2>5. RunningIsSampled'
        <3>1. ASSUME NEW u \in Threads, Running(u)'
              PROVE  /\ run'[u].pipe \in Listed' /\ run'[u].tok = first_func_id'[run'[u].pipe]
                     /\ sampler' # "none"
            <4>1. CASE u = t
                BY <1>3, <1>5, <1>10, <2>1, <2>2, <4>1
            <4>2. CASE u # t
                BY <1>1, <1>3, <1>6, <2>1, <2>2, <3>1, <4>2 DEF Running, RunningIsSampled
            <4> QED BY <4>1, <4>2
        <3> QED BY <1>1, <1>3, <3>1 DEF RunningIsSampled
    <2>6. CurrentRuns'
        <3>1. ASSUME NEW q, Alive(q) PROVE Alive(q)'
            BY <1>1, <1>6, <3>1 DEF Alive
        <3>2. ASSUME NEW q, q = p PROVE Alive(q)'
            BY <1>5, <1>10, <3>2 DEF Alive
        <3>3. ASSUME NEW q \in Listed, current_func' \in Ids(q, first_func_id'[q])
              PROVE  Alive(q)'
            <4>1. Alive(q)
                BY <1>1, <2>2, <3>3 DEF CurrentRuns
            <4> QED BY <3>1, <4>1
        <3> QED BY <2>1, <3>2, <3>3 DEF CurrentRuns, Ids
    <2> QED
        BY <1>7, <1>8, <2>3, <2>4, <2>5, <2>6 DEF IInv
<1> QED
    BY <1>5, <1>9, <1>10

-----------------------------------------------------------------------------
(* The sampling thread.                                                      *)

\* Steps that change neither the runs nor the ids, and reorder the list at most.
LEMMA SamplerKeeps ==
    ASSUME IInv, UNCHANGED Unsampled, sampler' \in SamplerPC, started' \in BOOLEAN,
           started' = (sampler' # "none"),
           (\E t \in Threads : Running(t)) => sampler' # "none",
           billed' = Nobody \/ \E p \in Pipelines : \E f \in FuncsOf(p) : billed' = <<p, f>>,
           pipelines' \in Seq(Pipelines), Range(pipelines') = Range(pipelines),
           IsInjective(pipelines')
    PROVE  IInv'
<1>1. /\ TypeOK /\ ListExact /\ RunningIsSampled /\ CurrentRuns /\ Stopping /\ TasksInLoop
      /\ ActiveThreadsCounted
      /\ UNCHANGED <<current_func, active_threads, first_free_id, first_func_id, polling, run,
                     stopping, failures>>
    BY DEF IInv, Unsampled
<1>2. Listed' = Listed
    BY DEF Listed
<1>3. TypeOK'
    BY <1>1 DEF TypeOK
<1>4. ListExact'
    BY <1>1, <1>2 DEF ListExact
<1>5. RunningIsSampled'
    BY <1>1, <1>2 DEF RunningIsSampled, Running
<1>6. CurrentRuns'
    BY <1>1, <1>2 DEF CurrentRuns, Alive
<1>7. Stopping' /\ TasksInLoop' /\ ActiveThreadsCounted'
    BY <1>1 DEF Stopping, Quiet, TasksInLoop, At, ActiveThreadsCounted, Working
<1> QED
    BY <1>3, <1>4, <1>5, <1>6, <1>7 DEF IInv

\* A sample is billed to the pipeline the id belongs to, which moves to the top.
LEMMA BillFunc ==
    ASSUME IInv, NEW func, bill_func(func)
    PROVE  /\ pipelines' \in Seq(Pipelines) /\ Range(pipelines') = Range(pipelines)
           /\ IsInjective(pipelines')
           /\ \/ billed' = Nobody
              \/ \E p \in Listed : /\ func \in Ids(p, first_func_id[p])
                                   /\ billed' = <<p, func - first_func_id[p]>>
                                   /\ \E f \in FuncsOf(p) : billed' = <<p, f>>
<1>1. /\ pipelines \in Seq(Pipelines) /\ IsInjective(pipelines)
      /\ first_func_id \in [Pipelines -> Nat]
    BY DEF IInv, TypeOK, ListExact
<1>2. CASE Owners(func) = {} /\ billed' = Nobody /\ UNCHANGED pipelines
    BY <1>1, <1>2
<1>3. CASE \E i \in Owners(func) :
             /\ \A j \in Owners(func) : i <= j
             /\ pipelines' = Bubbled(i)
             /\ billed' = <<pipelines[i], func - first_func_id[pipelines[i]]>>
    <2>1. PICK i \in Owners(func) :
             /\ pipelines' = Bubbled(i)
             /\ billed' = <<pipelines[i], func - first_func_id[pipelines[i]]>>
        BY <1>3
    <2>2. i \in DOMAIN pipelines /\ func \in Ids(pipelines[i], first_func_id[pipelines[i]])
        BY DEF Owners
    <2>3. /\ pipelines' \in Seq(Pipelines) /\ Range(pipelines') = Range(pipelines)
          /\ IsInjective(pipelines')
        BY <1>1, <2>1, <2>2, MovedToFront DEF Bubbled
    <2>4. PICK p \in Pipelines : p = pipelines[i]
        BY <1>1, <2>2
    <2>5. p \in Listed /\ first_func_id[p] \in Nat /\ NumFuncs[p] \in Nat
        BY <1>1, <2>2, <2>4, ProfilerAssumption DEF Listed, Range
    <2>6. func \in Ids(p, first_func_id[p])
        BY <2>2, <2>4
    <2>7. func - first_func_id[p] \in FuncsOf(p)
        BY <2>5, <2>6 DEF Ids, FuncsOf
    <2> QED
        BY <2>1, <2>3, <2>4, <2>5, <2>6, <2>7
<1> QED
    BY <1>2, <1>3 DEF bill_func

LEMMA StepSampler ==
    ASSUME IInv, SamplerStep
    PROVE  IInv'
<1>1. /\ pipelines \in Seq(Pipelines) /\ IsInjective(pipelines) /\ started \in BOOLEAN
      /\ started = (sampler # "none")
      /\ billed = Nobody \/ \E p \in Pipelines : \E f \in FuncsOf(p) : billed = <<p, f>>
    BY DEF IInv, TypeOK, ListExact, RunningIsSampled
<1>2. CASE SamplerStart \/ SamplerContinue \/ SamplerBreak \/ SamplerWake
    <2>1. /\ UNCHANGED Unsampled /\ UNCHANGED <<started, pipelines, billed>>
          /\ sampler # "none" /\ sampler' \in SamplerPC /\ sampler' # "none"
        BY <1>2 DEF SamplerStart, SamplerContinue, SamplerBreak, SamplerWake, SamplerPC
    <2>2. started' \in BOOLEAN /\ started' = (sampler' # "none")
        BY <1>1, <2>1
    <2> QED
        BY <1>1, <2>1, <2>2, SamplerKeeps
<1>3. CASE SamplerExit
    <2>1. ASSUME NEW t \in Threads, Running(t) PROVE FALSE
        BY <1>3, <2>1 DEF SamplerExit, IInv, Stopping, Quiet, Running
    <2>2. /\ UNCHANGED Unsampled /\ UNCHANGED <<pipelines, billed>>
          /\ sampler' \in SamplerPC /\ sampler' = "none"
        BY <1>3 DEF SamplerExit, SamplerPC
    <2>3. started' \in BOOLEAN /\ started' = (sampler' # "none")
        <3>1. started' = FALSE
            BY <1>3 DEF SamplerExit, StartedAtExit
        <3> QED BY <2>2, <3>1
    <2> QED
        BY <1>1, <2>1, <2>2, <2>3, SamplerKeeps
<1>4. CASE SamplerSample
    <2>1. /\ UNCHANGED Unsampled /\ UNCHANGED started
          /\ sampler = "inner" /\ sampler' \in SamplerPC /\ sampler' # "none"
        BY <1>4 DEF SamplerSample, AfterSample, SamplerPC
    <2>2. started' \in BOOLEAN /\ started' = (sampler' # "none")
        BY <1>1, <2>1
    <2>3. \E func : bill_func(func) \/ (billed' = Nobody /\ UNCHANGED pipelines)
        BY <1>4 DEF SamplerSample
    <2>4. /\ pipelines' \in Seq(Pipelines) /\ Range(pipelines') = Range(pipelines)
          /\ IsInjective(pipelines')
          /\ billed' = Nobody \/ \E p \in Pipelines : \E f \in FuncsOf(p) : billed' = <<p, f>>
        <3>1. PICK func : bill_func(func) \/ (billed' = Nobody /\ UNCHANGED pipelines)
            BY <2>3
        <3>2. CASE bill_func(func)
            <4>1. Listed \subseteq Pipelines
                BY <1>1 DEF Listed, Range
            <4> QED BY <3>2, <4>1, BillFunc
        <3>3. CASE billed' = Nobody /\ UNCHANGED pipelines
            BY <1>1, <3>3
        <3> QED BY <3>1, <3>2, <3>3
    <2> QED
        BY <2>1, <2>2, <2>4, SamplerKeeps
<1> QED
    BY <1>2, <1>3, <1>4 DEF SamplerStep

-----------------------------------------------------------------------------
(* The calls of the application, and the theorems.                           *)

LEMMA StepApplication ==
    ASSUME IInv, halide_profiler_reset \/ halide_profiler_shutdown \/ ShutdownReturn
    PROVE  IInv'
<1>1. /\ TypeOK /\ ListExact /\ RunningIsSampled /\ CurrentRuns /\ Stopping /\ TasksInLoop
      /\ ActiveThreadsCounted
    BY DEF IInv
<1>2. CASE halide_profiler_reset
    <2>1. /\ pipelines' = <<>> /\ first_func_id' = [p \in Pipelines |-> NoId]
          /\ first_free_id' = 0 /\ billed' = Nobody /\ Quiet
          /\ UNCHANGED <<started, sampler, current_func, active_threads, polling, run, stopping,
                         failures>>
        BY <1>2 DEF halide_profiler_reset
    <2>2. Listed' = {} /\ IsInjective(pipelines') /\ pipelines' \in Seq(Pipelines)
        BY <2>1 DEF Listed, Range, IsInjective
    <2>3. TypeOK'
        BY <1>1, <2>1, <2>2 DEF TypeOK, NoId
    <2>4. ListExact' /\ CurrentRuns'
        BY <2>2 DEF ListExact, CurrentRuns
    <2>5. RunningIsSampled'
        BY <1>1, <2>1 DEF RunningIsSampled, Running, Quiet
    <2>6. Stopping' /\ TasksInLoop' /\ ActiveThreadsCounted'
        BY <1>1, <2>1 DEF Stopping, Quiet, TasksInLoop, At, ActiveThreadsCounted, Working
    <2> QED
        BY <2>3, <2>4, <2>5, <2>6 DEF IInv
<1>3. CASE halide_profiler_shutdown \/ ShutdownReturn
    <2>1. /\ UNCHANGED <<started, first_free_id, pipelines, first_func_id, billed, sampler,
                         active_threads, polling, run, failures>>
          /\ stopping' \in BOOLEAN
          /\ current_func' \in Int /\ current_func' < 0
          /\ current_func' = please_stop => stopping'
          /\ stopping' => Quiet
        <3>1. CASE halide_profiler_shutdown
            <4>1. /\ Quiet /\ stopping' = TRUE /\ current_func' = please_stop
                  /\ UNCHANGED <<state, active_threads, polling, run, failures>>
                BY <3>1 DEF halide_profiler_shutdown
            <4>2. stopping' \in BOOLEAN /\ stopping'
                BY <4>1, Zenon
            <4> QED
                BY <4>1, <4>2 DEF state, please_stop
        <3>2. CASE ShutdownReturn
            <4>1. /\ stopping' = FALSE /\ current_func' = outside_of_halide
                  /\ UNCHANGED <<state, active_threads, polling, run, failures>>
                BY <3>2 DEF ShutdownReturn
            <4>2. stopping' \in BOOLEAN /\ ~stopping'
                BY <4>1, Zenon
            <4>3. current_func' \in Int /\ current_func' < 0 /\ current_func' # please_stop
                BY <4>1 DEF please_stop, outside_of_halide
            <4> QED
                BY <4>1, <4>2, <4>3 DEF state
        <3> QED BY <1>3, <3>1, <3>2
    <2>2. Listed' = Listed
        BY <2>1 DEF Listed
    <2>3. TypeOK'
        BY <1>1, <2>1 DEF TypeOK
    <2>4. ListExact' /\ RunningIsSampled'
        BY <1>1, <2>1, <2>2 DEF ListExact, RunningIsSampled, Running
    <2>5. ASSUME NEW p \in Listed, NEW i \in Ids(p, first_func_id[p]) PROVE i >= 0
        <3>1. p \in Pipelines
            BY <1>1 DEF TypeOK, Listed, Range
        <3>2. first_func_id[p] \in Nat /\ NumFuncs[p] \in Nat
            BY <1>1, <3>1, ProfilerAssumption DEF TypeOK
        <3> QED BY <3>2 DEF Ids
    <2>6. CurrentRuns'
        BY <2>1, <2>2, <2>5 DEF CurrentRuns, Ids
    <2>7. Stopping' /\ TasksInLoop' /\ ActiveThreadsCounted'
        BY <1>1, <2>1 DEF Stopping, Quiet, TasksInLoop, At, ActiveThreadsCounted, Working
    <2> QED
        BY <2>3, <2>4, <2>6, <2>7 DEF IInv
<1> QED
    BY <1>2, <1>3

LEMMA InitIInv ==
    ASSUME Init
    PROVE  IInv
<1> USE DEF Init
<1>1. run = [t \in Threads |-> Idle] /\ \A t \in Threads : run[t] = Idle
    OBVIOUS
<1>2. Listed = {} /\ IsInjective(pipelines) /\ pipelines \in Seq(Pipelines)
    BY DEF Listed, Range, IsInjective
<1>3. TypeOK
    <2>1. run \in [Threads -> RunRec]
        BY <1>1, IdleRun
    <2>2. first_func_id \in [Pipelines -> Nat] /\ failures \in 0..MaxFailures
        BY ProfilerAssumption DEF NoId
    <2>3. started \in BOOLEAN /\ polling \in BOOLEAN /\ stopping \in BOOLEAN
        BY Zenon
    <2>4. current_func \in Int /\ active_threads \in Nat /\ first_free_id \in Nat
        OBVIOUS
    <2>5. billed = Nobody /\ sampler \in SamplerPC
        BY DEF SamplerPC
    <2> HIDE DEF Init
    <2> QED
        BY <1>2, <2>1, <2>2, <2>3, <2>4, <2>5 DEF TypeOK, RunRec
<1>4. ListExact /\ CurrentRuns
    BY <1>2 DEF ListExact, CurrentRuns
<1>5. RunningIsSampled /\ Stopping /\ TasksInLoop
    <2>1. \A t \in Threads : run[t].pc = "idle" /\ ~(run[t].tasks > 0)
        BY <1>1, IdleRun
    <2>2. sampler = "none" /\ current_func # please_stop
        BY DEF please_stop
    <2>3. started = FALSE /\ stopping = FALSE
        OBVIOUS
    <2>4. ~started /\ ~stopping
        BY <2>3, Zenon
    <2> HIDE DEF Init
    <2>5. started = (sampler # "none")
        BY <2>2, <2>3, Zenon
    <2>6. RunningIsSampled
        BY <2>1, <2>5 DEF RunningIsSampled, Running
    <2> QED
        BY <2>1, <2>2, <2>4, <2>6 DEF Stopping, TasksInLoop
<1>6. ActiveThreadsCounted
    <2>1. Bodies = {} /\ Tasks = {}
        <3>1. \A t \in Threads : run[t].pc = "idle" /\ run[t].tasks = 0
            BY <1>1, IdleRun
        <3>2. \A c \in Slots : c[1] \in Threads /\ c[2] \in 1..MaxTasks
            BY DEF Slots
        <3> QED BY <3>1, <3>2 DEF Bodies, Tasks, At
    <2>2. Cardinality({}) = 0
        BY FS_EmptySet
    <2>3. Working = 0
        BY <2>1, <2>2, CountsFinite
    <2> QED
        BY <2>3 DEF ActiveThreadsCounted
<1> QED
    BY <1>3, <1>4, <1>5, <1>6 DEF IInv

LEMMA StepIInv ==
    ASSUME IInv, [Next]_vars
    PROVE  IInv'
<1>1. ASSUME NEW t \in Threads, Thread(t) PROVE IInv'
    <2>1. CASE \E p \in Pipelines : Begin(t, p)
        BY <2>1, StepBegin
    <2>2. CASE halide_profiler_pipeline_start(t)
        BY <2>2, StepStart
    <2>3. CASE Enter(t) \/ Leave(t) \/ Fail(t)
        BY <2>3, StepPipeline
    <2>4. CASE \E f \in FuncsOf(run[t].pipe) : halide_profiler_set_current_func(t, f)
        BY <2>4, StepSetFunc
    <2>5. CASE halide_profiler_pipeline_end(t)
        BY <2>5, StepEnd
    <2>6. CASE LoopEnter(t) \/ LoopExit(t) \/ LoopFailed(t)
        BY <2>6, StepLoop
    <2>7. CASE TaskBegin(t) \/ TaskEnd(t) \/ TaskFail(t)
        BY <2>7, StepTask
    <2>8. CASE RemoteEnter(t) \/ RemoteExit(t) \/ RemoteFail(t)
        BY <2>8, StepRemote
    <2> QED
        BY <1>1, <2>1, <2>2, <2>3, <2>4, <2>5, <2>6, <2>7, <2>8 DEF Thread
<1>2. CASE SamplerStep
    BY <1>2, StepSampler
<1>3. CASE halide_profiler_reset \/ halide_profiler_shutdown \/ ShutdownReturn
    BY <1>3, StepApplication
<1>4. CASE UNCHANGED vars
    BY <1>4 DEF IInv, vars, TypeOK, ListExact, Listed, RunningIsSampled, Running, CurrentRuns,
                Alive, Stopping, Quiet, TasksInLoop, At, ActiveThreadsCounted, Working
<1> QED
    BY <1>1, <1>2, <1>3, <1>4 DEF Next

LEMMA Invariant == Spec => []IInv
<1>1. Init => IInv
    BY InitIInv
<1>2. IInv /\ [Next]_vars => IInv'
    BY StepIInv
<1> QED
    BY <1>1, <1>2, PTL DEF Spec

\* The list of pipelines is exact although bill_func reorders it, and whoever got
\* past halide_profiler_pipeline_start is listed under the ids it uses and has a
\* sampling thread, which started tells of.
THEOREM StateAlwaysValid == Spec => []StateValid
<1>1. IInv => StateValid
    BY DEF IInv, StateValid
<1> QED
    BY <1>1, Invariant, PTL

\* active_threads is at least the number of threads at work, and too high by no
\* more than the number of failures, each of which skips a decrement.
THEOREM ActiveThreadsAlwaysCounted == Spec => []ActiveThreadsCounted
<1>1. IInv => ActiveThreadsCounted
    BY DEF IInv
<1> QED
    BY <1>1, Invariant, PTL

\* On the host, bill_func never bills a pipeline that has ended or whose ids
\* halide_profiler_reset gave away.
THEOREM OnlyTheRunningAreBilled == Spec => BillsTheRunning
<1>1. ASSUME IInv, [Next]_vars PROVE [BillsRunning]_vars
    <2> SUFFICES ASSUME billed' # billed, billed' # Nobody, ~polling
                 PROVE  \E t \in Threads : run[t].pc \notin {"idle", "starting"} /\ run[t].pipe = billed'[1]
        BY DEF BillsRunning
    <2>1. SamplerSample
        BY <1>1 DEF Next, vars, Thread, state, Begin, halide_profiler_pipeline_start, Enter, Leave, Fail,
                    halide_profiler_set_current_func, halide_profiler_pipeline_end, LoopEnter,
                    TaskBegin, TaskEnd, TaskFail, LoopExit, LoopFailed, RemoteEnter, RemoteExit,
                    RemoteFail, SamplerStep, SamplerStart, SamplerContinue, SamplerExit,
                    SamplerBreak, SamplerWake, halide_profiler_reset, halide_profiler_shutdown,
                    ShutdownReturn
    <2>2. bill_func(current_func)
        BY <2>1 DEF SamplerSample, SampledFuncs
    <2>3. PICK p \in Listed : /\ current_func \in Ids(p, first_func_id[p])
                              /\ billed' = <<p, current_func - first_func_id[p]>>
        BY <1>1, <2>2, BillFunc
    <2>4. Alive(p) /\ billed'[1] = p
        BY <1>1, <2>3 DEF IInv, CurrentRuns
    <2> QED
        BY <2>4 DEF Alive
<1> QED
    BY <1>1, Invariant, PTL DEF Spec, BillsTheRunning

=============================================================================
