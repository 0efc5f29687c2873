------------------------ MODULE CopyInjectionProofs -------------------------
(***************************************************************************)
(* Proofs about CopyInjection, for any devices, programs of any length and *)
(* any failures of the runtime calls.                                      *)
(***************************************************************************)
EXTENDS CopyInjection, SequenceTheorems, TLAPS

-----------------------------------------------------------------------------
(***************************************************************************)
(* What the pass knows.  Consistent is what makes do_copies copy to a      *)
(* device before every stage there: what is current on a device got there  *)
(* by a copy, and the copy needed host memory.                             *)
(***************************************************************************)
Infos ==
    [known : BOOLEAN, host_touched : BOOLEAN, dev_touched : BOOLEAN,
     host_current : BOOLEAN, dev_current : BOOLEAN, internal : BOOLEAN,
     dev_allocated : BOOLEAN, device_first_touched : Devices \cup {None},
     current_device : Devices \cup {Host}]

Consistent(i) == i.dev_current \/ i.current_device # Host => i.host_touched

Steps == Plain \cup IfThenElse

\* What do_copies decides about a stage, in terms of the BufferInfo before it.
FirstTouched(i, st) ==
    IF st.api # Host /\ ~i.dev_touched THEN st.api ELSE i.device_first_touched
Mallocs(i, st) == ~i.dev_allocated /\ FirstTouched(i, st) # None
CopiesToHost(i, st) == st.api = Host /\ ~i.host_current /\ (~i.internal \/ i.dev_touched)

\* The BufferInfo of an untouched buffer is one.
LEMMA InfoBeforeFacts ==
    ASSUME NEW k
    PROVE  /\ InfoBefore(k) \in Infos
           /\ Consistent(InfoBefore(k))
           /\ k = "internal" => InfoBefore(k).known
           /\ k # "internal" => InfoBefore(k).dev_allocated
           /\ k # "internal" => InfoBefore(k).internal = FALSE
           /\ InfoBefore(k).host_current = FALSE
           /\ k = "internal" => InfoBefore(k).dev_allocated = FALSE
           /\ InfoBefore(k).dev_touched = FALSE
           /\ InfoBefore(k).device_first_touched = None
  BY DEF InfoBefore, BufferInfo, Infos, Consistent

\* A stage is not Skip, and its fields have their types.
LEMMA StageFacts ==
    ASSUME NEW st \in Stages
    PROVE  /\ st # Skip
           /\ st.api \in Devices \cup {Host}
           /\ st.writes \in BOOLEAN
  BY DEF Stages, Skip

\* WithTouch notes who touches the buffer, and nothing else.
LEMMA TouchFacts ==
    ASSUME NEW i \in Infos, NEW st \in Stages
    PROVE  /\ WithTouch(i, st) \in Infos
           /\ WithTouch(i, st).known
           /\ WithTouch(i, st).host_touched <=> i.host_touched \/ st.api = Host
           /\ WithTouch(i, st).dev_touched <=> i.dev_touched \/ st.api # Host
           /\ WithTouch(i, st).host_current = i.host_current
           /\ WithTouch(i, st).dev_current = i.dev_current
           /\ WithTouch(i, st).internal = i.internal
           /\ WithTouch(i, st).dev_allocated = i.dev_allocated
           /\ WithTouch(i, st).device_first_touched = FirstTouched(i, st)
           /\ WithTouch(i, st).current_device = i.current_device
<1> DEFINE w == WithTouch(i, st)
<1>1. w.known = TRUE
  BY DEF WithTouch, Infos
<1>2. w.host_touched = (i.host_touched \/ ~(st.api # Host))
  BY DEF WithTouch, Infos
<1>3. w.dev_touched = (i.dev_touched \/ st.api # Host)
  BY DEF WithTouch, Infos
<1>4. w.device_first_touched = FirstTouched(i, st)
  BY DEF WithTouch, Infos, FirstTouched
<1>5. /\ w.host_current = i.host_current /\ w.dev_current = i.dev_current
      /\ w.internal = i.internal /\ w.dev_allocated = i.dev_allocated
      /\ w.current_device = i.current_device
  BY DEF WithTouch, Infos
<1>6. w \in Infos
  <2>2. PICK a, b, c \in BOOLEAN, d \in Devices \cup {None} :
           /\ a = TRUE /\ b = (i.host_touched \/ ~(st.api # Host))
           /\ c = (i.dev_touched \/ st.api # Host)
           /\ d = FirstTouched(i, st)
    BY StageFacts DEF Infos, FirstTouched
  <2>3. w = [i EXCEPT !.known = a, !.host_touched = b, !.dev_touched = c,
                      !.device_first_touched = d]
    BY <2>2 DEF w, WithTouch, FirstTouched, Infos
  <2>4. [i EXCEPT !.known = a, !.host_touched = b, !.dev_touched = c,
                  !.device_first_touched = d] \in Infos
    BY DEF Infos
  <2> QED BY <2>3, <2>4, Zenon
<1> HIDE DEF w
<1> QED BY <1>1, <1>2, <1>3, <1>4, <1>5, <1>6 DEF w

\* A stage on a device is preceded by a copy to it, whatever the pass knows.
LEMMA DeviceCopies ==
    ASSUME NEW i \in Infos, NEW st \in Stages, Consistent(i)
    PROVE  /\ NeedsDeviceCopy(WithTouch(i, st), st) <=> st.api # Host
           /\ NeedsHostCopy(WithTouch(i, st), st) <=> CopiesToHost(i, st)
  BY TouchFacts, StageFacts DEF NeedsDeviceCopy, NeedsHostCopy, CopiesToHost, Consistent

\* The assignments of CurrentAfter keep the type of a BufferInfo.
LEMMA SetInfo ==
    ASSUME NEW i \in Infos, NEW a \in BOOLEAN, NEW b \in BOOLEAN, NEW d \in BOOLEAN,
           NEW e \in Devices \cup {Host}
    PROVE  /\ [i EXCEPT !.host_touched = a, !.dev_current = b, !.current_device = e,
                        !.host_current = d] \in Infos
           /\ [i EXCEPT !.host_current = a, !.dev_current = b] \in Infos
           /\ [i EXCEPT !.dev_current = a, !.host_current = b] \in Infos
<1>1. [i EXCEPT !.host_touched = a, !.dev_current = b, !.current_device = e,
                !.host_current = d] \in Infos
  BY DEF Infos
<1>2. [i EXCEPT !.host_current = a, !.dev_current = b] \in Infos
  BY DEF Infos
<1>3. [i EXCEPT !.dev_current = a, !.host_current = b] \in Infos
  BY DEF Infos
<1> QED BY <1>1, <1>2, <1>3, Zenon

\* CurrentAfter moves the newest data to where the stage is.
LEMMA CurrentFacts ==
    ASSUME NEW i \in Infos, NEW st \in Stages, Consistent(i),
           NEW t, t = WithTouch(i, st), NEW c, c = CurrentAfter(t, st)
    PROVE  /\ c \in Infos
           /\ c.known
           /\ c.host_touched
           /\ c.dev_touched = t.dev_touched
           /\ c.internal = i.internal
           /\ c.dev_allocated = i.dev_allocated
           /\ c.device_first_touched = FirstTouched(i, st)
           /\ st.api # Host => (c.host_current => i.host_current /\ ~st.writes)
<1>1. /\ t \in Infos /\ t.known
      /\ t.host_touched <=> i.host_touched \/ st.api = Host
      /\ t.host_current = i.host_current /\ t.dev_current = i.dev_current
      /\ t.internal = i.internal /\ t.dev_allocated = i.dev_allocated
      /\ t.device_first_touched = FirstTouched(i, st)
      /\ t.current_device = i.current_device
  BY TouchFacts
<1>2. /\ NeedsDeviceCopy(t, st) <=> st.api # Host
      /\ NeedsHostCopy(t, st) <=> CopiesToHost(i, st)
  BY DeviceCopies
<1>3. CASE st.api # Host
  <2>1. c = [t EXCEPT !.host_touched = HostTouched(t, st),
                      !.dev_current = TRUE, !.current_device = st.api,
                      !.host_current = @ /\ ~st.writes]
    <3>1. ~NeedsHostCopy(t, st) /\ NeedsDeviceCopy(t, st)
      BY <1>2, <1>3 DEF CopiesToHost
    <3> QED BY <3>1 DEF CurrentAfter
  <2>2. HostTouched(t, st)
    BY <1>1, <1>3 DEF HostTouched, Consistent
  <2>3. PICK a, b, d \in BOOLEAN, e \in Devices \cup {Host} :
           /\ a = HostTouched(t, st) /\ b = TRUE
           /\ d = (t.host_current /\ ~st.writes) /\ e = st.api
    BY StageFacts, <2>2
  <2>4. c = [t EXCEPT !.host_touched = a, !.dev_current = b, !.current_device = e,
                      !.host_current = d]
    BY <2>1, <2>3 DEF Infos
  <2>5. [t EXCEPT !.host_touched = a, !.dev_current = b, !.current_device = e,
                  !.host_current = d] \in Infos
    BY <1>1, SetInfo, Zenon
  <2>6. /\ c.known = t.known /\ c.host_touched = a /\ c.dev_touched = t.dev_touched
        /\ c.internal = t.internal /\ c.dev_allocated = t.dev_allocated
        /\ c.device_first_touched = t.device_first_touched /\ c.host_current = d
    <3>1. t \in Infos
      BY <1>1
    <3>2. c.known = t.known /\ c.host_touched = a
      BY <2>4, <3>1 DEF Infos
    <3>3. c.dev_touched = t.dev_touched /\ c.internal = t.internal
      BY <2>4, <3>1 DEF Infos
    <3>4. c.dev_allocated = t.dev_allocated /\ c.device_first_touched = t.device_first_touched
      BY <2>4, <3>1 DEF Infos
    <3>5. c.host_current = d
      BY <2>4, <3>1 DEF Infos
    <3> QED BY <3>2, <3>3, <3>4, <3>5
  <2>7. c \in Infos
    BY <2>4, <2>5, Zenon
  <2> QED BY <1>1, <1>3, <2>2, <2>3, <2>6, <2>7
<1>4. CASE st.api = Host /\ CopiesToHost(i, st)
  <2>1. c = [t EXCEPT !.host_current = TRUE, !.dev_current = @ /\ ~st.writes]
    BY <1>2, <1>4 DEF CurrentAfter
  <2>3. PICK a, b \in BOOLEAN : a = TRUE /\ b = (t.dev_current /\ ~st.writes)
    OBVIOUS
  <2>4. c = [t EXCEPT !.host_current = a, !.dev_current = b]
    BY <2>1, <2>3 DEF Infos
  <2>5. [t EXCEPT !.host_current = a, !.dev_current = b] \in Infos
    BY <1>1, SetInfo
  <2>6. /\ c.known = t.known /\ c.host_touched = t.host_touched
        /\ c.dev_touched = t.dev_touched
        /\ c.internal = t.internal /\ c.dev_allocated = t.dev_allocated
        /\ c.device_first_touched = t.device_first_touched
    BY <1>1, <2>4 DEF Infos
  <2>7. c \in Infos
    BY <2>4, <2>5, Zenon
  <2> QED BY <1>1, <1>4, <2>6, <2>7
<1>5. CASE st.api = Host /\ ~CopiesToHost(i, st)
  <2>1. c = [t EXCEPT !.dev_current = @ /\ (st.api # Host \/ ~st.writes),
                      !.host_current = @ /\ (st.api = Host \/ ~st.writes)]
    <3>1. ~NeedsHostCopy(t, st) /\ ~NeedsDeviceCopy(t, st)
      BY <1>2, <1>5
    <3> QED BY <3>1 DEF CurrentAfter
  <2>3. PICK a, b \in BOOLEAN : /\ a = (t.dev_current /\ (st.api # Host \/ ~st.writes))
                                /\ b = (t.host_current /\ (st.api = Host \/ ~st.writes))
    OBVIOUS
  <2>4. c = [t EXCEPT !.dev_current = a, !.host_current = b]
    BY <2>1, <2>3 DEF Infos
  <2>5. [t EXCEPT !.dev_current = a, !.host_current = b] \in Infos
    BY <1>1, SetInfo
  <2>6. /\ c.known = t.known /\ c.host_touched = t.host_touched
        /\ c.dev_touched = t.dev_touched
        /\ c.internal = t.internal /\ c.dev_allocated = t.dev_allocated
        /\ c.device_first_touched = t.device_first_touched
    BY <1>1, <2>4 DEF Infos
  <2>7. c \in Infos
    BY <2>4, <2>5, Zenon
  <2> QED BY <1>1, <1>5, <2>6, <2>7
<1> QED BY <1>3, <1>4, <1>5

\* What remains of the code of a stage, from each of its places on.
AtDirty(st) == Maybe(st.writes, DirtyOp(st))
AtStage(st) == << <<"stage", st>> >> \o AtDirty(st)
AtToDevice(st) == Maybe(st.api # Host, <<"to_device", st.api>>) \o AtStage(st)
AtToHost(i, st) == Maybe(CopiesToHost(i, st), <<"to_host">>) \o AtToDevice(st)
AtMalloc(i, st) == Maybe(Mallocs(i, st), <<"malloc", FirstTouched(i, st)>>) \o AtToHost(i, st)

\* What do_copies makes of a stage, and what it knows after it.
LEMMA StageInfo ==
    ASSUME NEW i \in Infos, NEW st \in Stages, Consistent(i),
           NEW r, r = do_copies(i, st).info
    PROVE  /\ r \in Infos /\ r.known /\ r.host_touched
           /\ r.dev_touched <=> i.dev_touched \/ st.api # Host
           /\ r.internal = i.internal
           /\ r.dev_allocated <=> i.dev_allocated \/ Mallocs(i, st)
           /\ r.device_first_touched = FirstTouched(i, st)
           /\ st.api # Host => (r.host_current => i.host_current /\ ~st.writes)
           /\ do_copies(i, st).code = AtMalloc(i, st)
<1> DEFINE t == WithTouch(i, st)
           c == CurrentAfter(t, st)
<1>1. /\ c \in Infos /\ c.known /\ c.host_touched
      /\ c.dev_touched = t.dev_touched
      /\ c.internal = i.internal
      /\ c.dev_allocated = i.dev_allocated
      /\ c.device_first_touched = FirstTouched(i, st)
      /\ st.api # Host => (c.host_current => i.host_current /\ ~st.writes)
  BY CurrentFacts
<1>2. t.dev_touched <=> i.dev_touched \/ st.api # Host
  BY TouchFacts
<1>3. NeedsMalloc(c) <=> Mallocs(i, st)
  BY <1>1 DEF NeedsMalloc, Mallocs
<1>4. /\ NeedsDeviceCopy(t, st) <=> st.api # Host
      /\ NeedsHostCopy(t, st) <=> CopiesToHost(i, st)
  BY DeviceCopies
<1>5. st # Skip
  BY StageFacts
<1>6. r = [c EXCEPT !.dev_allocated = @ \/ NeedsMalloc(c)]
  BY <1>5 DEF do_copies
<1>7. do_copies(i, st).code = AtMalloc(i, st)
  <2>1. do_copies(i, st).code =
            Maybe(NeedsMalloc(c), <<"malloc", c.device_first_touched>>)
                       \o (Maybe(NeedsHostCopy(t, st), <<"to_host">>)
                       \o (Maybe(NeedsDeviceCopy(t, st), <<"to_device", st.api>>)
                       \o (<< <<"stage", st>> >>
                       \o Maybe(st.writes, DirtyOp(st)))))
    BY <1>5 DEF do_copies
  <2>2. Maybe(NeedsDeviceCopy(t, st), <<"to_device", st.api>>)
            = Maybe(st.api # Host, <<"to_device", st.api>>)
    BY <1>4 DEF Maybe
  <2>3. Maybe(NeedsHostCopy(t, st), <<"to_host">>) = Maybe(CopiesToHost(i, st), <<"to_host">>)
    BY <1>4 DEF Maybe
  <2>4. Maybe(NeedsMalloc(c), <<"malloc", c.device_first_touched>>)
            = Maybe(Mallocs(i, st), <<"malloc", FirstTouched(i, st)>>)
    BY <1>1, <1>3 DEF Maybe
  <2> HIDE DEF t, c
  <2> QED BY <2>1, <2>2, <2>3, <2>4, Zenon DEF AtMalloc, AtToHost, AtToDevice, AtStage, AtDirty
<1> HIDE DEF t, c
<1>8. PICK a \in BOOLEAN : a = (c.dev_allocated \/ NeedsMalloc(c))
  OBVIOUS
<1>9. r = [c EXCEPT !.dev_allocated = a]
  BY <1>6, <1>8
<1>10. r \in Infos
  <2>1. c \in Infos
    BY <1>1
  <2>2. [c EXCEPT !.dev_allocated = a] \in Infos
    BY <2>1 DEF Infos
  <2> QED BY <1>9, <2>2, Zenon
<1>11. /\ r.known = c.known /\ r.host_touched = c.host_touched
       /\ r.dev_touched = c.dev_touched /\ r.internal = c.internal
       /\ r.dev_allocated = a /\ r.device_first_touched = c.device_first_touched
       /\ r.host_current = c.host_current
  <2>1. c \in Infos
    BY <1>1
  <2>2. r.known = c.known /\ r.host_touched = c.host_touched /\ r.host_current = c.host_current
    BY <1>9, <2>1 DEF Infos
  <2>3. r.dev_touched = c.dev_touched /\ r.internal = c.internal
    BY <1>9, <2>1 DEF Infos
  <2>4. r.dev_allocated = a /\ r.device_first_touched = c.device_first_touched
    BY <1>9, <2>1 DEF Infos
  <2> QED BY <2>2, <2>3, <2>4
<1> QED BY <1>1, <1>2, <1>3, <1>7, <1>8, <1>10, <1>11

\* A branch that leaves the buffer alone leaves its BufferInfo alone.
LEMMA SkipInfo ==
    ASSUME NEW i
    PROVE  do_copies(i, Skip).info = i /\ do_copies(i, Skip).code = <<>>
  BY DEF do_copies

\* The merge of two branches, of a buffer with an entry.
LEMMA MergedFacts ==
    ASSUME NEW t \in Infos, NEW e \in Infos, t.known
    PROVE  /\ Merged(t, e) \in Infos
           /\ Merged(t, e).known
           /\ Merged(t, e).host_touched <=> t.host_touched \/ e.host_touched
           /\ Merged(t, e).host_current <=> t.host_current /\ e.host_current
           /\ Merged(t, e).dev_current => t.dev_current
           /\ ~Merged(t, e).internal
           /\ Merged(t, e).current_device = Host
<1> DEFINE m == Merged(t, e)
<1>a. PICK a, b \in BOOLEAN : /\ a = (t.host_touched \/ e.host_touched)
                              /\ b = (t.dev_touched \/ e.dev_touched)
  OBVIOUS
<1>b. PICK c, d \in BOOLEAN :
         /\ c = (t.host_current /\ e.host_current)
         /\ d = (/\ t.dev_current /\ e.dev_current /\ t.current_device = e.current_device)
  OBVIOUS
<1>c. PICK f \in Devices \cup {None} :
         f = IF t.device_first_touched = e.device_first_touched
             THEN t.device_first_touched ELSE None
  BY DEF Infos
<1>d. PICK yes, no \in BOOLEAN : yes = TRUE /\ no = FALSE
  OBVIOUS
<1>2. m = [BufferInfo EXCEPT !.known = TRUE, !.host_touched = a, !.dev_touched = b,
                             !.host_current = c, !.dev_current = d,
                             !.device_first_touched = f]
  BY <1>a, <1>b, <1>c DEF Merged
<1>3. m = [known |-> yes, host_touched |-> a, dev_touched |-> b,
           host_current |-> c, dev_current |-> d, internal |-> no,
           dev_allocated |-> yes, device_first_touched |-> f, current_device |-> Host]
  BY <1>d, <1>2 DEF BufferInfo
<1> HIDE DEF m
<1>4. m \in Infos
  BY <1>3 DEF Infos
<1>5. /\ m.known = yes /\ m.host_touched = a /\ m.host_current = c /\ m.dev_current = d
      /\ m.internal = no /\ m.current_device = Host
  BY <1>3
<1> QED BY <1>a, <1>b, <1>d, <1>4, <1>5 DEF m

\* A step has one alternative or two.
LEMMA StepShape ==
    ASSUME NEW step \in Steps
    PROVE  \/ step \in Plain /\ Len(step) = 1 /\ DOMAIN step = {1} /\ step[1] \in Stages
           \/ /\ step \in IfThenElse /\ Len(step) = 2 /\ DOMAIN step = {1, 2}
              /\ step[1] \in Stages \cup {Skip} /\ step[2] \in Stages \cup {Skip}
<1>1. CASE step \in Plain
  <2>1. PICK s \in Stages : step = <<s>>
    BY <1>1 DEF Plain
  <2> QED BY <1>1, <2>1
<1>2. CASE step \in IfThenElse
  <2>1. PICK s \in Stages \cup {Skip}, t \in Stages \cup {Skip} : step = <<s, t>>
    BY <1>2 DEF IfThenElse
  <2> QED BY <1>2, <2>1
<1> QED BY <1>1, <1>2 DEF Steps

\* do_copies of a stage or of a branch without one.
LEMMA BranchInfo ==
    ASSUME NEW i \in Infos, NEW st \in Stages \cup {Skip}, Consistent(i)
    PROVE  /\ do_copies(i, st).info \in Infos
           /\ Consistent(do_copies(i, st).info)
           /\ i.known => do_copies(i, st).info.known
           /\ i.host_touched \/ st \in Stages => do_copies(i, st).info.host_touched
  BY StageInfo, SkipInfo DEF Consistent

\* The pass over a step that is a single stage.
LEMMA PlainInfo ==
    ASSUME NEW i \in Infos, NEW step \in Steps, Consistent(i), Len(step) = 1,
           NEW r, r = InfoAfter(i, step)
    PROVE  /\ step[1] \in Stages
           /\ r = do_copies(i, step[1]).info
           /\ r \in Infos /\ Consistent(r)
           /\ r.known
           /\ r.host_touched
           /\ r.internal = i.internal
           /\ i.dev_allocated => r.dev_allocated
           /\ (i.dev_touched <=> i.device_first_touched # None)
                => (r.dev_touched <=> r.device_first_touched # None)
<1>1. step[1] \in Stages
  BY StepShape
<1>2. r = do_copies(i, step[1]).info
  BY DEF InfoAfter
<1> DEFINE st == step[1]
<1>3. /\ r \in Infos /\ r.known /\ r.host_touched
      /\ r.dev_touched <=> i.dev_touched \/ st.api # Host
      /\ r.internal = i.internal
      /\ r.dev_allocated <=> i.dev_allocated \/ Mallocs(i, st)
      /\ r.device_first_touched = FirstTouched(i, st)
  BY <1>1, <1>2, StageInfo
<1>4. st.api = Host \/ st.api # None
  BY <1>1, StageFacts, DeviceAssumption
<1> QED BY <1>1, <1>2, <1>3, <1>4 DEF FirstTouched, Consistent

\* The pass over an IfThenElse, for a buffer with an entry.
LEMMA BranchedInfo ==
    ASSUME NEW i \in Infos, NEW step \in Steps, Consistent(i), Len(step) = 2, i.known,
           NEW r, r = InfoAfter(i, step)
    PROVE  /\ r \in Infos /\ Consistent(r)
           /\ r.known
           /\ i.host_touched => r.host_touched
           /\ \A j \in DOMAIN step : step[j] \in Stages => r.host_touched
           /\ ~r.internal
           /\ \A j \in DOMAIN step : r.host_current => do_copies(i, step[j]).info.host_current
<1>1. /\ DOMAIN step = {1, 2}
      /\ step[1] \in Stages \cup {Skip} /\ step[2] \in Stages \cup {Skip}
  BY StepShape
<1> DEFINE t == do_copies(i, step[1]).info
           e == do_copies(i, step[2]).info
<1>2. r = Merged(t, e)
  BY DEF InfoAfter
<1>3. /\ t \in Infos /\ Consistent(t) /\ t.known
      /\ i.host_touched \/ step[1] \in Stages => t.host_touched
  BY <1>1, BranchInfo
<1>4. /\ e \in Infos
      /\ i.host_touched \/ step[2] \in Stages => e.host_touched
  BY <1>1, BranchInfo
<1>5. /\ r \in Infos /\ r.known
      /\ r.host_touched <=> t.host_touched \/ e.host_touched
      /\ r.host_current <=> t.host_current /\ e.host_current
      /\ r.dev_current => t.dev_current
      /\ ~r.internal /\ r.current_device = Host
  BY <1>2, <1>3, <1>4, MergedFacts
<1>6. \A j \in DOMAIN step : j = 1 \/ j = 2
  BY <1>1
<1>7. Consistent(r)
  BY <1>3, <1>5 DEF Consistent
<1>8. \A j \in DOMAIN step : r.host_current => do_copies(i, step[j]).info.host_current
  BY <1>5, <1>6
<1> HIDE DEF t, e
<1> QED BY <1>3, <1>4, <1>5, <1>6, <1>7, <1>8

-----------------------------------------------------------------------------
(***************************************************************************)
(* The code, as sequences of calls.                                        *)
(***************************************************************************)
Ops == ({"malloc", "malloc_both", "to_device"} \X Devices)
       \cup ({"stage"} \X Stages)
       \cup {<<"to_host">>, <<"host_malloc">>, <<"set_host_dirty">>, <<"set_dev_dirty">>}

\* A call in front of the rest.
LEMMA ConsFacts ==
    ASSUME NEW S, NEW op \in S, NEW s \in Seq(S)
    PROVE  /\ <<op>> \o s \in Seq(S) /\ <<op>> \o s # <<>>
           /\ Head(<<op>> \o s) = op /\ Tail(<<op>> \o s) = s
<1>1. <<op>> \in Seq(S) /\ Len(<<op>>) = 1
  OBVIOUS
<1>2. <<op>> \o s \in Seq(S)
  BY <1>1
<1>3. Len(<<op>> \o s) = 1 + Len(s)
  BY <1>1
<1>4. <<op>> \o s # <<>> /\ Head(<<op>> \o s) = op
  BY <1>1, <1>2, <1>3
<1>5. Tail(<<op>> \o s) = s
  BY <1>1, <1>2, <1>3
<1> QED BY <1>2, <1>4, <1>5

\* The code of a stage, call by call.
LEMMA CodeFacts ==
    ASSUME NEW i \in Infos, NEW st \in Stages
    PROVE  /\ st.writes => /\ AtDirty(st) # <<>>
                           /\ Head(AtDirty(st)) = DirtyOp(st) /\ Tail(AtDirty(st)) = <<>>
           /\ ~st.writes => AtDirty(st) = <<>>
           /\ AtStage(st) # <<>>
           /\ Head(AtStage(st)) = <<"stage", st>> /\ Tail(AtStage(st)) = AtDirty(st)
           /\ st.api # Host => /\ AtToDevice(st) # <<>>
                               /\ Head(AtToDevice(st)) = <<"to_device", st.api>>
                               /\ Tail(AtToDevice(st)) = AtStage(st)
           /\ st.api = Host => AtToDevice(st) = AtStage(st)
           /\ CopiesToHost(i, st) => /\ AtToHost(i, st) # <<>>
                                     /\ Head(AtToHost(i, st)) = <<"to_host">>
                                     /\ Tail(AtToHost(i, st)) = AtToDevice(st)
           /\ ~CopiesToHost(i, st) => AtToHost(i, st) = AtToDevice(st)
           /\ Mallocs(i, st) => /\ AtMalloc(i, st) # <<>>
                                /\ Head(AtMalloc(i, st)) = <<"malloc", FirstTouched(i, st)>>
                                /\ Tail(AtMalloc(i, st)) = AtToHost(i, st)
           /\ ~Mallocs(i, st) => AtMalloc(i, st) = AtToHost(i, st)
<1>1. /\ AtDirty(st) \in Seq(Ops)
      /\ st.writes => /\ AtDirty(st) # <<>>
                      /\ Head(AtDirty(st)) = DirtyOp(st) /\ Tail(AtDirty(st)) = <<>>
      /\ ~st.writes => AtDirty(st) = <<>>
  <2>1. DirtyOp(st) \in Ops
    BY DEF DirtyOp, Ops
  <2>2. CASE st.writes
    <3>1. AtDirty(st) = <<DirtyOp(st)>>
      BY <2>2 DEF AtDirty, Maybe
    <3> QED BY <2>1, <2>2, <3>1
  <2>3. CASE ~st.writes
    BY <2>3 DEF AtDirty, Maybe
  <2> QED BY <2>2, <2>3
<1>2. /\ AtStage(st) \in Seq(Ops) /\ AtStage(st) # <<>>
      /\ Head(AtStage(st)) = <<"stage", st>> /\ Tail(AtStage(st)) = AtDirty(st)
  <2>1. <<"stage", st>> \in Ops
    BY DEF Ops
  <2>2. PICK op \in Ops : op = <<"stage", st>>
    BY <2>1
  <2>3. AtStage(st) = <<op>> \o AtDirty(st)
    BY <2>2, Zenon DEF AtStage
  <2> QED BY <1>1, <2>2, <2>3, ConsFacts
<1>3. /\ AtToDevice(st) \in Seq(Ops)
      /\ st.api # Host => /\ AtToDevice(st) # <<>>
                          /\ Head(AtToDevice(st)) = <<"to_device", st.api>>
                          /\ Tail(AtToDevice(st)) = AtStage(st)
      /\ st.api = Host => AtToDevice(st) = AtStage(st)
  <2>1. st.api # Host => <<"to_device", st.api>> \in Ops
    BY StageFacts DEF Ops
  <2>2. CASE st.api # Host
    <3>1. PICK op \in Ops : op = <<"to_device", st.api>>
      BY <2>1, <2>2
    <3>2. AtToDevice(st) = <<op>> \o AtStage(st)
      BY <2>2, <3>1 DEF AtToDevice, Maybe
    <3> QED BY <1>2, <2>2, <3>1, <3>2, ConsFacts
  <2>3. CASE st.api = Host
    BY <1>2, <2>3 DEF AtToDevice, Maybe
  <2> QED BY <2>2, <2>3
<1>4. /\ AtToHost(i, st) \in Seq(Ops)
      /\ CopiesToHost(i, st) => /\ AtToHost(i, st) # <<>>
                                /\ Head(AtToHost(i, st)) = <<"to_host">>
                                /\ Tail(AtToHost(i, st)) = AtToDevice(st)
      /\ ~CopiesToHost(i, st) => AtToHost(i, st) = AtToDevice(st)
  <2>1. CASE CopiesToHost(i, st)
    <3>1. PICK op \in Ops : op = <<"to_host">>
      BY DEF Ops
    <3>2. AtToHost(i, st) = <<op>> \o AtToDevice(st)
      BY <2>1, <3>1 DEF AtToHost, Maybe
    <3> QED BY <1>3, <2>1, <3>1, <3>2, ConsFacts
  <2>2. CASE ~CopiesToHost(i, st)
    BY <1>3, <2>2 DEF AtToHost, Maybe
  <2> QED BY <2>1, <2>2
<1>5. /\ Mallocs(i, st) => /\ AtMalloc(i, st) # <<>>
                           /\ Head(AtMalloc(i, st)) = <<"malloc", FirstTouched(i, st)>>
                           /\ Tail(AtMalloc(i, st)) = AtToHost(i, st)
      /\ ~Mallocs(i, st) => AtMalloc(i, st) = AtToHost(i, st)
  <2>1. CASE Mallocs(i, st)
    <3>1. FirstTouched(i, st) \in Devices
      BY <2>1, StageFacts DEF FirstTouched, Mallocs, Infos
    <3>2. PICK op \in Ops : op = <<"malloc", FirstTouched(i, st)>>
      BY <3>1 DEF Ops
    <3>3. AtMalloc(i, st) = <<op>> \o AtToHost(i, st)
      BY <2>1, <3>2 DEF AtMalloc, Maybe
    <3> QED BY <1>4, <2>1, <3>2, <3>3, ConsFacts
  <2>2. CASE ~Mallocs(i, st)
    BY <1>4, <2>2 DEF AtMalloc, Maybe
  <2> QED BY <2>1, <2>2
<1> QED BY <1>1, <1>2, <1>3, <1>4, <1>5

-----------------------------------------------------------------------------
(***************************************************************************)
(* The buffer.  Between the calls of the generated code the dirty bits say *)
(* which side has version v, and a side that is not marked stale has it    *)
(* too (Good).  An error may leave less than that, but the bits still name *)
(* a side that has v (Readable).                                           *)
(***************************************************************************)
Bufs == Buffers(Nat)

Readable(b, v) ==
    /\ b \in Bufs
    /\ ~(b.host_dirty /\ b.dev_dirty)
    /\ b.dev_dirty => b.dev # None /\ b.devData = v
    /\ ~b.dev_dirty => b.hostData = v

Good(b, v) ==
    /\ Readable(b, v)
    /\ b.host
    /\ ~b.host_dirty /\ b.dev # None => b.devData = v
    /\ b.dev = None => b.host_dirty \/ v = 0

\* What an outcome holds.
LEMMA OutcomeFields ==
    ASSUME NEW r, NEW b
    PROVE  Outcome(r, b).result = r /\ Outcome(r, b).buf = b
  BY DEF Outcome

\* Assignments to single fields of a buffer_t.
LEMMA SetHostData ==
    ASSUME NEW b \in Bufs, NEW x \in Nat
    PROVE  LET c == [b EXCEPT !.hostData = x]
           IN  /\ c \in Bufs
               /\ c.hostData = x /\ c.devData = b.devData
               /\ c.host = b.host /\ c.dev = b.dev
               /\ (c.host_dirty <=> b.host_dirty) /\ (c.dev_dirty <=> b.dev_dirty)
  BY DEF Bufs, Buffers

\* Data arrives on the device.
LEMMA SetDevData ==
    ASSUME NEW b \in Bufs, NEW x \in Nat
    PROVE  LET c == [b EXCEPT !.devData = x]
           IN  /\ c \in Bufs
               /\ c.hostData = b.hostData /\ c.devData = x
               /\ c.host = b.host /\ c.dev = b.dev
               /\ (c.host_dirty <=> b.host_dirty) /\ (c.dev_dirty <=> b.dev_dirty)
  BY DEF Bufs, Buffers

\* Memory is there on a device.
LEMMA SetDev ==
    ASSUME NEW b \in Bufs, NEW d \in Devices \cup {None}
    PROVE  LET c == [b EXCEPT !.dev = d, !.devData = 0]
           IN  /\ c \in Bufs
               /\ c.hostData = b.hostData /\ c.devData = 0
               /\ c.host = b.host /\ c.dev = d
               /\ (c.host_dirty <=> b.host_dirty) /\ (c.dev_dirty <=> b.dev_dirty)
  BY DEF Bufs, Buffers

\* The device memory is gone.
LEMMA DropDev ==
    ASSUME NEW b \in Bufs
    PROVE  LET c == [b EXCEPT !.dev = None, !.devData = 0]
           IN  /\ c \in Bufs
               /\ c.hostData = b.hostData /\ c.devData = 0
               /\ c.host = b.host /\ c.dev = None
               /\ (c.host_dirty <=> b.host_dirty) /\ (c.dev_dirty <=> b.dev_dirty)
<1>1. PICK d \in Devices \cup {None} : d = None
  OBVIOUS
<1>2. LET c == [b EXCEPT !.dev = d, !.devData = 0]
      IN  /\ c \in Bufs
          /\ c.hostData = b.hostData /\ c.devData = 0
          /\ c.host = b.host /\ c.dev = d
          /\ (c.host_dirty <=> b.host_dirty) /\ (c.dev_dirty <=> b.dev_dirty)
  BY SetDev
<1> QED BY <1>1, <1>2, Zenon

\* The host side is marked as newer.
LEMMA MarkHost ==
    ASSUME NEW b \in Bufs
    PROVE  LET c == [b EXCEPT !.host_dirty = TRUE]
           IN  /\ c \in Bufs
               /\ c.hostData = b.hostData /\ c.devData = b.devData
               /\ c.host = b.host /\ c.dev = b.dev
               /\ c.host_dirty /\ (c.dev_dirty <=> b.dev_dirty)
  BY DEF Bufs, Buffers

\* The device side is marked as newer.
LEMMA MarkDev ==
    ASSUME NEW b \in Bufs
    PROVE  LET c == [b EXCEPT !.dev_dirty = TRUE]
           IN  /\ c \in Bufs
               /\ c.hostData = b.hostData /\ c.devData = b.devData
               /\ c.host = b.host /\ c.dev = b.dev
               /\ (c.host_dirty <=> b.host_dirty) /\ c.dev_dirty
  BY DEF Bufs, Buffers

\* The mark of the host side is cleared.
LEMMA ClearHost ==
    ASSUME NEW b \in Bufs
    PROVE  LET c == [b EXCEPT !.host_dirty = FALSE]
           IN  /\ c \in Bufs
               /\ c.hostData = b.hostData /\ c.devData = b.devData
               /\ c.host = b.host /\ c.dev = b.dev
               /\ ~c.host_dirty /\ (c.dev_dirty <=> b.dev_dirty)
  BY DEF Bufs, Buffers

\* The mark of the device side is cleared.
LEMMA ClearDev ==
    ASSUME NEW b \in Bufs
    PROVE  LET c == [b EXCEPT !.dev_dirty = FALSE]
           IN  /\ c \in Bufs
               /\ c.hostData = b.hostData /\ c.devData = b.devData
               /\ c.host = b.host /\ c.dev = b.dev
               /\ (c.host_dirty <=> b.host_dirty) /\ ~c.dev_dirty
  BY DEF Bufs, Buffers

\* The host memory comes or goes.
LEMMA SetHost ==
    ASSUME NEW b \in Bufs, NEW h \in BOOLEAN
    PROVE  LET c == [b EXCEPT !.host = h]
           IN  /\ c \in Bufs
               /\ c.hostData = b.hostData /\ c.devData = b.devData
               /\ c.host = h /\ c.dev = b.dev
               /\ (c.host_dirty <=> b.host_dirty) /\ (c.dev_dirty <=> b.dev_dirty)
  BY DEF Bufs, Buffers

\* halide_copy_to_host leaves nothing that only the device has.
LEMMA CopyToHostOutcomes ==
    ASSUME NEW v \in Nat, NEW b, Good(b, v), NEW o \in halide_copy_to_host(b)
    PROVE  /\ Good(o.buf, v)
           /\ o.result \in {"ok", "error"}
           /\ o.result = "ok" => ~o.buf.dev_dirty
           /\ o.buf.dev = b.dev
           /\ ~b.dev_dirty => o.buf = b
<1> USE OutcomeFields
<1>1. CASE ~b.dev_dirty
  <2>1. o = Outcome("ok", b)
    BY <1>1 DEF halide_copy_to_host
  <2>2. o.buf = b /\ o.result = "ok"
    BY <2>1
  <2> QED BY <1>1, <2>2
<1>2. CASE b.dev_dirty
  <2> DEFINE copied == [b EXCEPT !.hostData = b.devData]
             clean == CopiedToHost(copied)
             broken == [b EXCEPT !.hostData = 0]
  <2>1. b.host /\ b.dev # None /\ ~b.host_dirty /\ b.devData = v /\ b \in Bufs
    BY <1>2 DEF Good, Readable
  <2>2. Good(clean, v) /\ ~clean.dev_dirty /\ clean.dev = b.dev
    <3>1. /\ copied \in Bufs
          /\ copied.hostData = v /\ copied.devData = v
          /\ copied.host /\ copied.dev = b.dev
          /\ (copied.host_dirty <=> b.host_dirty)
      BY <2>1, SetHostData
    <3> HIDE DEF copied
    <3>2. /\ clean \in Bufs
          /\ clean.hostData = v /\ clean.devData = v
          /\ clean.host /\ clean.dev = b.dev
          /\ (clean.host_dirty <=> b.host_dirty) /\ ~clean.dev_dirty
      BY <3>1, ClearDev DEF CopiedToHost
    <3> HIDE DEF clean
    <3> QED BY <2>1, <3>2 DEF Good, Readable
  <2>3. Good(broken, v) /\ broken.dev = b.dev
    <3>1. /\ broken \in Bufs
          /\ broken.devData = b.devData
          /\ broken.host = b.host /\ broken.dev = b.dev
          /\ (broken.host_dirty <=> b.host_dirty) /\ (broken.dev_dirty <=> b.dev_dirty)
      BY <2>1, SetHostData
    <3> HIDE DEF broken
    <3> QED BY <1>2, <2>1, <3>1 DEF Good, Readable
  <2>4. interface_copy_to_host(b) \subseteq {Outcome("ok", copied), Outcome("error", broken)}
    BY <2>1 DEF interface_copy_to_host, Fails
  <2>5. o \in AndThen(interface_copy_to_host(b), LAMBDA c : {Outcome("ok", CopiedToHost(c))})
    BY <1>2, <2>1 DEF halide_copy_to_host
  <2> HIDE DEF copied, broken
  <2>6. o \in {Outcome("ok", clean), Outcome("error", broken)}
    BY <2>4, <2>5 DEF AndThen
  <2> HIDE DEF clean
  <2> QED BY <1>2, <2>2, <2>3, <2>6
<1> QED BY <1>1, <1>2

\* What halide_device_free does: the reference to the memory is dropped, or the
\* assertion that it is gone fails.
LEMMA FreeCases ==
    ASSUME NEW b \in Bufs, NEW o \in halide_device_free(b)
    PROVE  \/ o = Outcome("ok", [b EXCEPT !.dev = None, !.devData = 0])
           \/ o = Outcome("error", [b EXCEPT !.dev = None, !.devData = 0])
           \/ o = Outcome("not_freed", b)
           \/ b.dev = None /\ o = Outcome("ok", [b EXCEPT !.dev_dirty = FALSE])
<1> DEFINE freed == [b EXCEPT !.dev = None, !.devData = 0]
<1>1. CASE b.dev = None
  BY <1>1 DEF halide_device_free
<1>2. CASE b.dev # None
  <2>1. PICK p \in interface_device_free(b) : o = AssertFreed(p)
    BY <1>2 DEF halide_device_free
  <2>2. p = Outcome("ok", freed) \/ p = Outcome("error", freed) \/ p = Outcome("error", b)
    BY <2>1 DEF interface_device_free, Fails
  <2>3. freed.dev = None
    BY DropDev
  <2> HIDE DEF freed
  <2>4. ASSUME NEW r, p = Outcome(r, freed)
        PROVE  o = Outcome(r, freed)
    <3>1. p.buf.dev = None
      BY <2>3, <2>4, OutcomeFields
    <3> QED BY <2>1, <2>4, <3>1 DEF AssertFreed
  <2>5. CASE p = Outcome("error", b)
    <3>1. p.buf = b
      BY <2>5, OutcomeFields
    <3>2. o = Outcome("not_freed", b)
      BY <1>2, <2>1, <3>1 DEF AssertFreed
    <3> QED BY <3>2
  <2>6. CASE p = Outcome("ok", freed)
    <3>1. o = Outcome("ok", freed)
      BY <2>4, <2>6
    <3> QED BY <3>1 DEF freed
  <2>7. CASE p = Outcome("error", freed)
    <3>1. o = Outcome("error", freed)
      BY <2>4, <2>7
    <3> QED BY <3>1 DEF freed
  <2> QED BY <2>2, <2>5, <2>6, <2>7
<1> QED BY <1>1, <1>2

\* Freeing leaves no device memory or does not return; what it frees here has
\* nothing new.
LEMMA FreeOutcomes ==
    ASSUME NEW v \in Nat, NEW b, Good(b, v), ~b.dev_dirty, NEW o \in halide_device_free(b)
    PROVE  /\ o.result \in {"ok", "error", "not_freed"}
           /\ Readable(o.buf, v)
           /\ o.result # "not_freed" => /\ Good(FlipDirty(o.buf), v)
                                        /\ FlipDirty(o.buf).dev = None
                                        /\ ~FlipDirty(o.buf).dev_dirty
<1> USE OutcomeFields
<1> DEFINE freed == [b EXCEPT !.dev = None, !.devData = 0]
           clean == [b EXCEPT !.dev_dirty = FALSE]
<1>1. b \in Bufs /\ b.host /\ b.hostData = v /\ Readable(b, v)
  BY DEF Good, Readable
<1>2. /\ freed \in Bufs
      /\ freed.host /\ freed.dev = None /\ ~freed.dev_dirty /\ freed.hostData = v
  <2>1. /\ freed \in Bufs
        /\ freed.hostData = b.hostData /\ freed.host = b.host /\ freed.dev = None
        /\ (freed.dev_dirty <=> b.dev_dirty)
    BY <1>1, DropDev
  <2> HIDE DEF freed
  <2> QED BY <1>1, <2>1
<1>3. ASSUME b.dev = None
      PROVE  /\ clean \in Bufs
             /\ clean.host /\ clean.dev = None /\ ~clean.dev_dirty /\ clean.hostData = v
  BY <1>1, <1>3, ClearDev
<1>4. \/ o = Outcome("ok", freed) \/ o = Outcome("error", freed)
      \/ o = Outcome("not_freed", b)
      \/ (o = Outcome("ok", clean) /\ b.dev = None)
  BY <1>1, FreeCases
<1> HIDE DEF freed, clean
<1>5. CASE o = Outcome("not_freed", b)
  BY <1>1, <1>5
<1>6. CASE o # Outcome("not_freed", b)
  <2>1. /\ o.result \in {"ok", "error"}
        /\ o.buf \in Bufs
        /\ o.buf.host /\ o.buf.dev = None /\ ~o.buf.dev_dirty /\ o.buf.hostData = v
    BY <1>2, <1>3, <1>4, <1>6
  <2>2. Readable(o.buf, v)
    BY <2>1 DEF Readable
  <2>3. PICK f : f = FlipDirty(o.buf)
    OBVIOUS
  <2>4. /\ f \in Bufs /\ f.hostData = v /\ f.host /\ f.dev = None
        /\ f.host_dirty /\ ~f.dev_dirty
    BY <2>1, <2>3, MarkHost DEF FlipDirty
  <2>5. Good(f, v)
    BY <2>4 DEF Good, Readable
  <2> QED BY <2>1, <2>2, <2>3, <2>4, <2>5
<1> QED BY <1>5, <1>6

\* A flip leaves the data on the host, unless it fails.
LEMMA FlipOutcomes ==
    ASSUME NEW v \in Nat, NEW b, Good(b, v), NEW o \in Flip(b)
    PROVE  /\ Readable(o.buf, v)
           /\ o.result \in {"ok", "error", "not_freed"}
           /\ o.result = "ok" => Good(o.buf, v) /\ o.buf.dev = None /\ ~o.buf.dev_dirty
<1>1. ~(b.dev_dirty /\ b.host_dirty)
  BY DEF Good, Readable
<1>2. \/ o \in halide_copy_to_host(b) /\ o.result # "ok"
      \/ \E p \in halide_copy_to_host(b) :
            /\ p.result = "ok"
            /\ \/ o \in halide_device_free(p.buf) /\ o.result # "ok"
               \/ \E q \in halide_device_free(p.buf) :
                     q.result = "ok" /\ o = Outcome("ok", FlipDirty(q.buf))
  BY <1>1 DEF Flip, AndThen
<1>3. CASE o \in halide_copy_to_host(b) /\ o.result # "ok"
  BY <1>3, CopyToHostOutcomes DEF Good
<1>4. ASSUME NEW p \in halide_copy_to_host(b), p.result = "ok",
             NEW q \in halide_device_free(p.buf)
      PROVE  /\ q.result \in {"ok", "error", "not_freed"}
             /\ Readable(q.buf, v)
             /\ q.result = "ok" => /\ Good(FlipDirty(q.buf), v)
                                   /\ FlipDirty(q.buf).dev = None
                                   /\ ~FlipDirty(q.buf).dev_dirty
  <2>1. Good(p.buf, v) /\ ~p.buf.dev_dirty
    BY <1>4, CopyToHostOutcomes
  <2> QED BY <2>1, FreeOutcomes
<1>5. \A c : Good(c, v) => Readable(c, v)
  BY DEF Good
<1>6. ASSUME NEW p \in halide_copy_to_host(b), p.result = "ok",
             o \in halide_device_free(p.buf), o.result # "ok"
      PROVE  Readable(o.buf, v) /\ o.result \in {"error", "not_freed"}
  BY <1>4, <1>6
<1>7. ASSUME NEW p \in halide_copy_to_host(b), p.result = "ok",
             NEW q \in halide_device_free(p.buf), q.result = "ok",
             o = Outcome("ok", FlipDirty(q.buf))
      PROVE  /\ o.result = "ok" /\ Readable(o.buf, v)
             /\ Good(o.buf, v) /\ o.buf.dev = None /\ ~o.buf.dev_dirty
  BY <1>4, <1>5, <1>7, OutcomeFields
<1> QED BY <1>2, <1>3, <1>6, <1>7

\* halide_copy_to_device copies what is new on the host.
LEMMA UploadOutcomes ==
    ASSUME NEW v \in Nat, NEW b, Good(b, v), b.dev # None, NEW o \in Upload(b)
    PROVE  /\ Good(o.buf, v)
           /\ o.result \in {"ok", "error"}
           /\ o.result = "ok" => ~o.buf.host_dirty
           /\ o.buf.dev = b.dev /\ (o.buf.dev_dirty <=> b.dev_dirty)
<1> USE OutcomeFields
<1>1. CASE ~b.host_dirty
  <2>1. o = Outcome("ok", b)
    BY <1>1 DEF Upload, NeedsUpload
  <2>2. o.buf = b /\ o.result = "ok"
    BY <2>1
  <2> QED BY <1>1, <2>2
<1>2. CASE b.host_dirty
  <2> DEFINE Cleared(c) == [c EXCEPT !.host_dirty = FALSE]
             copied == [b EXCEPT !.devData = b.hostData]
             clean == Cleared(copied)
             broken == [b EXCEPT !.devData = 0]
  <2>1. b.host /\ ~b.dev_dirty /\ b.hostData = v /\ b \in Bufs
    BY <1>2 DEF Good, Readable
  <2>2. Good(clean, v) /\ ~clean.host_dirty /\ clean.dev = b.dev /\ (clean.dev_dirty <=> b.dev_dirty)
    <3>1. /\ copied \in Bufs
          /\ copied.hostData = v /\ copied.devData = v
          /\ copied.host /\ copied.dev = b.dev
          /\ (copied.dev_dirty <=> b.dev_dirty)
      BY <2>1, SetDevData
    <3> HIDE DEF copied
    <3>2. /\ clean \in Bufs
          /\ clean.hostData = v /\ clean.devData = v
          /\ clean.host /\ clean.dev = b.dev
          /\ (clean.dev_dirty <=> b.dev_dirty) /\ ~clean.host_dirty
      BY <3>1, ClearHost
    <3> HIDE DEF clean
    <3> QED BY <2>1, <3>2 DEF Good, Readable
  <2>3. Good(broken, v) /\ broken.dev = b.dev /\ (broken.dev_dirty <=> b.dev_dirty)
    <3>1. /\ broken \in Bufs
          /\ broken.hostData = b.hostData
          /\ broken.host = b.host /\ broken.dev = b.dev
          /\ (broken.host_dirty <=> b.host_dirty) /\ (broken.dev_dirty <=> b.dev_dirty)
      BY <2>1, SetDevData
    <3> HIDE DEF broken
    <3> QED BY <1>2, <2>1, <3>1 DEF Good, Readable
  <2>4. interface_copy_to_device(b) \subseteq {Outcome("ok", copied), Outcome("error", broken)}
    BY <2>1 DEF interface_copy_to_device, Fails
  <2>5. o \in AndThen(interface_copy_to_device(b), LAMBDA c : {Outcome("ok", Cleared(c))})
    BY <1>2, <2>1 DEF Upload, NeedsUpload
  <2> HIDE DEF copied, broken, Cleared
  <2>6. o \in {Outcome("ok", clean), Outcome("error", broken)}
    BY <2>4, <2>5 DEF AndThen
  <2> HIDE DEF clean
  <2> QED BY <1>2, <2>2, <2>3, <2>6
<1> QED BY <1>1, <1>2

\* halide_device_malloc leaves the data where they are.
LEMMA MallocOutcomes ==
    ASSUME NEW v \in Nat, NEW b, Good(b, v), NEW d \in Devices,
           NEW o \in halide_device_malloc(b, d)
    PROVE  /\ Good(o.buf, v)
           /\ o.result \in {"ok", "error"}
           /\ o.result = "ok" => o.buf.dev = d
           /\ o.result # "ok" => o.buf = b
           /\ (o.buf.dev_dirty <=> b.dev_dirty)
<1> USE DeviceAssumption, OutcomeFields
<1>1. CASE b.dev # None
  <2>1. o = Outcome("error", b) \/ (o = Outcome("ok", b) /\ b.dev = d)
    BY <1>1 DEF halide_device_malloc, interface_device_malloc
  <2> QED BY <2>1
<1>2. CASE b.dev = None
  <2> DEFINE fresh == [b EXCEPT !.dev = d, !.devData = 0]
  <2>1. b \in Bufs
    BY DEF Good, Readable
  <2>2. /\ fresh \in Bufs
        /\ fresh.hostData = b.hostData /\ fresh.devData = 0
        /\ fresh.host = b.host /\ fresh.dev = d
        /\ (fresh.host_dirty <=> b.host_dirty) /\ (fresh.dev_dirty <=> b.dev_dirty)
    BY <2>1, SetDev
  <2>3. o = Outcome("ok", fresh) \/ o = Outcome("error", b)
    BY <1>2 DEF halide_device_malloc, interface_device_malloc, Fails
  <2> HIDE DEF fresh
  <2>4. d # None
    OBVIOUS
  <2>5. Good(fresh, v)
    BY <1>2, <2>2, <2>4 DEF Good, Readable
  <2> QED BY <2>2, <2>3, <2>5
<1> QED BY <1>1, <1>2

\* The parts of halide_copy_to_device before the copy.
Prepared(b, d) == IF b.dev \in {None, d} THEN {Outcome("ok", b)} ELSE Flip(b)
Allocated(b, d) == IF b.dev = None THEN halide_device_malloc(b, d) ELSE {Outcome("ok", b)}

\* After halide_copy_to_device the device has the newest data.
LEMMA CopyToDeviceOutcomes ==
    ASSUME NEW v \in Nat, NEW b, Good(b, v), NEW d \in Devices,
           NEW o \in halide_copy_to_device(b, d)
    PROVE  /\ Readable(o.buf, v)
           /\ o.result \in {"ok", "error", "not_freed"}
           /\ o.result = "ok" => /\ Good(o.buf, v)
                                 /\ ~o.buf.host_dirty /\ o.buf.dev = d
                                 /\ ~b.dev_dirty => ~o.buf.dev_dirty
<1>1. d # None
  BY DeviceAssumption
<1>2. \A c : Good(c, v) => Readable(c, v)
  BY DEF Good
<1>3. \/ o \in Prepared(b, d) /\ o.result # "ok"
      \/ \E p \in Prepared(b, d) :
            /\ p.result = "ok"
            /\ \/ o \in Allocated(p.buf, d) /\ o.result # "ok"
               \/ \E q \in Allocated(p.buf, d) : q.result = "ok" /\ o \in Upload(q.buf)
  BY <1>1 DEF halide_copy_to_device, AndThen, Prepared, Allocated
<1>4. ASSUME NEW p \in Prepared(b, d)
      PROVE  /\ Readable(p.buf, v)
             /\ p.result \in {"ok", "error", "not_freed"}
             /\ p.result = "ok" => /\ Good(p.buf, v) /\ p.buf.dev \in {None, d}
                                   /\ ~b.dev_dirty => ~p.buf.dev_dirty
  <2>1. CASE b.dev \in {None, d}
    <3>1. p = Outcome("ok", b)
      BY <2>1 DEF Prepared
    <3>2. p.result = "ok" /\ p.buf = b
      BY <3>1, OutcomeFields
    <3> QED BY <1>2, <2>1, <3>2
  <2>2. CASE b.dev \notin {None, d}
    BY <2>2, FlipOutcomes DEF Prepared
  <2> QED BY <2>1, <2>2
<1>5. ASSUME NEW p \in Prepared(b, d), p.result = "ok", NEW q \in Allocated(p.buf, d)
      PROVE  /\ Good(q.buf, v)
             /\ q.result \in {"ok", "error"}
             /\ q.result = "ok" => q.buf.dev = d
             /\ ~b.dev_dirty => ~q.buf.dev_dirty
  <2>1. /\ Good(p.buf, v) /\ p.buf.dev \in {None, d}
        /\ ~b.dev_dirty => ~p.buf.dev_dirty
    BY <1>4, <1>5
  <2>2. CASE p.buf.dev = None
    BY <2>1, <2>2, MallocOutcomes DEF Allocated
  <2>3. CASE p.buf.dev # None
    <3>1. q = Outcome("ok", p.buf)
      BY <2>3 DEF Allocated
    <3>2. q.result = "ok" /\ q.buf = p.buf
      BY <3>1, OutcomeFields
    <3> QED BY <2>1, <2>3, <3>2
  <2> QED BY <2>2, <2>3
<1>6. ASSUME NEW p \in Prepared(b, d), p.result = "ok",
             NEW q \in Allocated(p.buf, d), q.result = "ok", o \in Upload(q.buf)
      PROVE  /\ Good(o.buf, v)
             /\ o.result \in {"ok", "error"}
             /\ o.result = "ok" => ~o.buf.host_dirty /\ o.buf.dev = d
             /\ ~b.dev_dirty => ~o.buf.dev_dirty
  <2>1. /\ Good(q.buf, v) /\ q.buf.dev # None /\ q.buf.dev = d
        /\ ~b.dev_dirty => ~q.buf.dev_dirty
    BY <1>1, <1>5, <1>6
  <2> QED BY <1>6, <2>1, UploadOutcomes
<1> QED BY <1>2, <1>3, <1>4, <1>5, <1>6

\* The allocation of host and device memory for a new buffer_t.
LEMMA MallocBothOutcomes ==
    ASSUME NEW d \in Devices, NEW o \in halide_device_and_host_malloc(NewBuffer(FALSE), d)
    PROVE  /\ o.result \in {"ok", "error"}
           /\ o.buf \in Bufs
           /\ o.result = "ok" => Good(o.buf, 0) /\ ~o.buf.dev_dirty
           /\ o.result # "ok" => Readable(o.buf, 0) /\ o.buf.dev = None
<1> USE OutcomeFields, DeviceAssumption
<1> DEFINE b == NewBuffer(FALSE)
           h == [b EXCEPT !.host = TRUE, !.hostData = 0]
           n == [b EXCEPT !.host = FALSE]
           m == [h EXCEPT !.host = FALSE]
<1>1. /\ b \in Bufs /\ b.dev = None /\ ~b.host_dirty /\ ~b.dev_dirty
      /\ b.hostData = 0 /\ b.devData = 0
  BY DEF NewBuffer, Bufs, Buffers
<1> HIDE DEF b
<1>2. /\ h \in Bufs /\ h.dev = None /\ h.host /\ ~h.host_dirty /\ ~h.dev_dirty
      /\ h.hostData = 0 /\ h.devData = 0
  BY <1>1 DEF Bufs, Buffers
<1>3. Readable(n, 0) /\ n.dev = None
  <2>1. /\ n \in Bufs /\ n.dev = None /\ ~n.host_dirty /\ ~n.dev_dirty
        /\ n.hostData = 0
    BY <1>1, SetHost
  <2> HIDE DEF n
  <2> QED BY <2>1 DEF Readable
<1> HIDE DEF h, n
<1>4. Readable(m, 0) /\ m.dev = None
  <2>1. /\ m \in Bufs /\ m.dev = None /\ ~m.host_dirty /\ ~m.dev_dirty
        /\ m.hostData = 0
    BY <1>2, SetHost
  <2> HIDE DEF m
  <2> QED BY <2>1 DEF Readable
<1>5. Good(h, 0)
  BY <1>2 DEF Good, Readable
<1>6. \/ o = Outcome("error", n)
      \/ \E p \in halide_device_malloc(h, d) :
            o = IF p.result = "ok" THEN p ELSE WithoutHost(p)
  BY <1>1 DEF halide_device_and_host_malloc, Fails, b, h, n
<1>8. ASSUME NEW p \in halide_device_malloc(h, d), o = IF p.result = "ok" THEN p ELSE WithoutHost(p)
      PROVE  /\ o.result \in {"ok", "error"}
             /\ o.result = "ok" => Good(o.buf, 0) /\ ~o.buf.dev_dirty
             /\ o.result # "ok" => o.buf = m
  <2>1. /\ Good(p.buf, 0) /\ p.result \in {"ok", "error"} /\ (p.buf.dev_dirty <=> h.dev_dirty)
        /\ p.result # "ok" => p.buf = h
    BY <1>5, MallocOutcomes
  <2>2. CASE p.result = "ok"
    BY <1>2, <1>8, <2>1, <2>2
  <2>3. CASE p.result # "ok"
    <3>1. p = Outcome("error", h)
      BY <1>2, <2>3 DEF halide_device_malloc, interface_device_malloc, Fails
    <3>2. o = WithoutHost(Outcome("error", h))
      BY <1>8, <2>3, <3>1
    <3>3. o.result = "error" /\ o.buf = [h EXCEPT !.host = FALSE]
      BY <3>2 DEF WithoutHost, Outcome
    <3> QED BY <3>3
  <2> QED BY <2>2, <2>3
<1> HIDE DEF m
<1>9. \A c : Readable(c, 0) => c \in Bufs
  BY DEF Readable
<1>10. \A c : Good(c, 0) => Readable(c, 0)
  BY DEF Good
<1> QED BY <1>3, <1>4, <1>6, <1>8, <1>9, <1>10

\* A destructor that returns leaves no device memory behind.
LEMMA DestroyedFacts ==
    ASSUME NEW b \in Bufs, NEW d, NEW o \in Destroyed(b, d)
    PROVE  o.buf \in Bufs /\ (o.result # "not_freed" => o.buf.dev = None)
<1> USE OutcomeFields
<1>1. ASSUME NEW p \in halide_device_free(b)
      PROVE  p.buf \in Bufs /\ (p.result # "not_freed" => p.buf.dev = None)
  <2> DEFINE freed == [b EXCEPT !.dev = None, !.devData = 0]
             clean == [b EXCEPT !.dev_dirty = FALSE]
  <2>1. freed \in Bufs /\ freed.dev = None
    BY DropDev
  <2>2. clean \in Bufs /\ clean.dev = b.dev
    BY ClearDev
  <2>3. \/ p = Outcome("ok", freed) \/ p = Outcome("error", freed)
        \/ p = Outcome("not_freed", b)
        \/ (p = Outcome("ok", clean) /\ b.dev = None)
    BY FreeCases
  <2> HIDE DEF freed, clean
  <2> QED BY <2>1, <2>2, <2>3
<1>2. ASSUME NEW p \in halide_device_free(b)
      PROVE  BothFreed(p).buf \in Bufs
  <2>1. CASE p.result = "not_freed"
    BY <1>1, <1>2, <2>1 DEF BothFreed
  <2>2. CASE p.result # "not_freed"
    <3>1. PICK q \in Bufs : q = p.buf
      BY <1>1, <1>2
    <3>2. BothFreed(p) = Outcome(p.result, [q EXCEPT !.host = FALSE, !.hostData = 0,
                                                     !.host_dirty = FALSE, !.dev_dirty = FALSE])
      BY <2>2, <3>1 DEF BothFreed
    <3>3. [q EXCEPT !.host = FALSE, !.hostData = 0, !.host_dirty = FALSE,
                    !.dev_dirty = FALSE] \in Bufs
      BY DEF Bufs, Buffers
    <3> QED BY <3>2, <3>3
  <2> QED BY <2>1, <2>2
<1>3. ASSUME NEW p, p.buf \in Bufs
      PROVE  /\ AssertFreed(p).buf \in Bufs
             /\ AssertFreed(p).result # "not_freed" => AssertFreed(p).buf.dev = None
  BY <1>3 DEF AssertFreed
<1>4. CASE o \in halide_device_free(b)
  BY <1>1, <1>4
<1>5. CASE o \in halide_device_and_host_free(b)
  <2>1. CASE b.dev = None
    <3> DEFINE clean == [b EXCEPT !.dev_dirty = FALSE]
    <3>1. clean \in Bufs /\ clean.dev = b.dev
      BY ClearDev
    <3>2. o = Outcome("ok", clean)
      BY <1>5, <2>1 DEF halide_device_and_host_free
    <3> HIDE DEF clean
    <3> QED BY <2>1, <3>1, <3>2
  <2>2. CASE b.dev # None
    <3>1. PICK p \in halide_device_free(b) : o = AssertFreed(BothFreed(p))
      BY <1>5, <2>2 DEF halide_device_and_host_free
    <3> QED BY <1>2, <1>3, <3>1
  <2> QED BY <2>1, <2>2
<1> QED BY <1>4, <1>5 DEF Destroyed

-----------------------------------------------------------------------------
(***************************************************************************)
(* The inductive invariant.  PassInv is about the pass, the rest about the *)
(* run of the code: what the pass knows before a step is true of the       *)
(* buffer when the run gets there (Fits), and inside the code of a stage   *)
(* each call finds what the calls before it have established (InCode).     *)
(***************************************************************************)
Unbranched == kind = "internal" /\ Branches = {}

\* What the pass takes for current on the host is.
Fits(i, b, v) ==
    /\ Good(b, v)
    /\ i.host_current \/ (i.internal /\ ~i.dev_touched) => ~b.dev_dirty

\* What a stage needs when it runs, and what it leaves if it writes.
Ready(st, b) ==
    IF st.api = Host THEN ~b.dev_dirty ELSE b.dev = st.api /\ ~b.host_dirty
Written(st, b, v) ==
    /\ b \in Bufs /\ b.host
    /\ IF st.api = Host THEN ~b.dev_dirty /\ b.hostData = v
       ELSE b.dev = st.api /\ ~b.host_dirty /\ b.devData = v

\* A destructor is there for what the pass believes allocated.
Covered(i, st, ds, u) == u /\ (i.dev_allocated \/ Mallocs(i, st)) => ds # <<>>

\* The run is at a call of the code for stage st, i is the BufferInfo before it,
\* and r what remains.
InCode(i, st, b, v, r, ds, u) ==
    \/ Mallocs(i, st) /\ r = AtMalloc(i, st) /\ Fits(i, b, v)
    \/ CopiesToHost(i, st) /\ r = AtToHost(i, st) /\ Fits(i, b, v) /\ Covered(i, st, ds, u)
    \/ st.api # Host /\ r = AtToDevice(st) /\ Fits(i, b, v) /\ Covered(i, st, ds, u)
    \/ r = AtStage(st) /\ Fits(i, b, v) /\ Covered(i, st, ds, u) /\ Ready(st, b)
    \/ st.writes /\ r = AtDirty(st) /\ Written(st, b, v) /\ Covered(i, st, ds, u)

PassInv ==
    /\ kind \in BufferKinds
    /\ prog \in Seq(Steps)
    /\ info \in Seq(Infos) /\ Len(info) = Len(prog) + 1
    /\ info[1] = InfoBefore(kind)
    /\ kind # "internal" => Branches = {}
    /\ \A n \in 1..Len(prog) : info[n + 1] = InfoAfter(info[n], prog[n])
    /\ \A n \in 1..Len(info) :
          /\ Consistent(info[n])
          /\ kind = "internal" => info[n].known
          /\ kind # "internal" => info[n].dev_allocated
          /\ Branches = {} => (info[n].dev_touched <=> info[n].device_first_touched # None)
          /\ info[n].host_touched => info[Len(info)].host_touched
    /\ \A n \in 1..Len(prog), j \in {1, 2} :
          j \in DOMAIN prog[n] /\ prog[n][j] \in Stages => info[n + 1].host_touched

InFront ==
    /\ next = 1 /\ rest = Prologue(kind, Last(info)) /\ rest # <<>>
    /\ IF kind = "internal" THEN buf = NewBuffer(FALSE) /\ latest = 0 /\ dtors = <<>>
       ELSE Good(buf, latest)

Rested ==
    /\ rest = <<>>
    /\ Fits(info[next], buf, latest) \/ (kind = "internal" /\ ~Last(info).host_touched)
    /\ Unbranched /\ info[next].dev_allocated => dtors # <<>>

InStep ==
    \E m \in 1..Len(prog) : \E j \in DOMAIN prog[m] :
        /\ next = m + 1
        /\ prog[m][j] \in Stages
        /\ InCode(info[m], prog[m][j], buf, latest, rest, dtors, Unbranched)

Ended == kind = "internal" /\ rest = <<>> /\ next > Len(prog)

RunInv ==
    /\ buf \in Bufs /\ latest \in Nat
    /\ next \in 1..(Len(prog) + 1)
    /\ status \in {"pass", "run", "ok", "error", "failed", "not_freed"}
    /\ status = "pass" => next = 1 /\ dtors = <<>> /\ buf = NewBuffer(FALSE) /\ latest = 0
    /\ status = "run" => InFront \/ Rested \/ InStep \/ Ended

\* The ways out: the caller's buffer is readable, and whatever device memory
\* there is has a destructor, unless the destructor has ended the process.
ExitInv ==
    /\ dtors \in Seq({"device_free", "device_and_host_free"})
    /\ kind # "internal" => dtors = <<>>
    /\ Exited => dtors = <<>>
    /\ Unbranched /\ buf.dev # None => dtors # <<>> \/ status = "not_freed"
    /\ kind # "internal" /\ status \in {"error", "ok", "failed"} => Readable(buf, latest)

IInv == PassInv /\ RunInv /\ ExitInv

-----------------------------------------------------------------------------
(***************************************************************************)
(* The calls of the code of a stage, one after the other.                  *)
(***************************************************************************)
\* After the code of a stage.
Done(i, st, b, v, ds, u) ==
    /\ Fits(do_copies(i, st).info, b, v)
    /\ u /\ do_copies(i, st).info.dev_allocated => ds # <<>>

\* The run is past the allocation on the device, if there was one.
LEMMA EnterToHost ==
    ASSUME NEW i \in Infos, NEW st \in Stages, NEW b, NEW v, NEW ds, NEW u,
           Fits(i, b, v), Covered(i, st, ds, u)
    PROVE  InCode(i, st, b, v, AtToHost(i, st), ds, u)
<1>1. CASE CopiesToHost(i, st)
  BY <1>1 DEF InCode
<1>2. CASE ~CopiesToHost(i, st) /\ st.api # Host
  <2>1. AtToHost(i, st) = AtToDevice(st)
    BY <1>2, CodeFacts
  <2> QED BY <1>2, <2>1 DEF InCode
<1>3. CASE ~CopiesToHost(i, st) /\ st.api = Host
  <2>1. AtToHost(i, st) = AtStage(st)
    BY <1>3, CodeFacts
  <2>2. Ready(st, b)
    BY <1>3 DEF CopiesToHost, Fits, Ready
  <2> QED BY <2>1, <2>2 DEF InCode
<1> QED BY <1>1, <1>2, <1>3

\* The run enters the code of a stage.
LEMMA EnterCode ==
    ASSUME NEW i \in Infos, NEW st \in Stages, NEW b, NEW v, NEW ds, NEW u,
           Fits(i, b, v), u /\ i.dev_allocated => ds # <<>>
    PROVE  InCode(i, st, b, v, AtMalloc(i, st), ds, u)
<1>1. CASE Mallocs(i, st)
  BY <1>1 DEF InCode
<1>2. CASE ~Mallocs(i, st)
  <2>1. AtMalloc(i, st) = AtToHost(i, st)
    BY <1>2, CodeFacts
  <2>2. Covered(i, st, ds, u)
    BY <1>2 DEF Covered
  <2> QED BY <2>1, <2>2, EnterToHost
<1> QED BY <1>1, <1>2

\* The next call tells where in the code the run is.
LEMMA CodeHeads ==
    ASSUME NEW i \in Infos, NEW st \in Stages, NEW b, NEW v, NEW r, NEW ds, NEW u,
           InCode(i, st, b, v, r, ds, u)
    PROVE  /\ r # <<>>
           /\ Head(r)[1] \in {"malloc", "to_host", "to_device", "stage",
                              "set_host_dirty", "set_dev_dirty"}
           /\ Head(r)[1] = "malloc" =>
                 /\ Mallocs(i, st) /\ Head(r)[2] = FirstTouched(i, st)
                 /\ Fits(i, b, v) /\ Tail(r) = AtToHost(i, st)
           /\ Head(r)[1] = "to_host" =>
                 /\ CopiesToHost(i, st) /\ Tail(r) = AtToDevice(st)
                 /\ Fits(i, b, v) /\ Covered(i, st, ds, u)
           /\ Head(r)[1] = "to_device" =>
                 /\ st.api # Host /\ Head(r)[2] = st.api /\ Tail(r) = AtStage(st)
                 /\ Fits(i, b, v) /\ Covered(i, st, ds, u)
           /\ Head(r)[1] = "stage" =>
                 /\ Head(r)[2] = st /\ Tail(r) = AtDirty(st)
                 /\ Fits(i, b, v) /\ Covered(i, st, ds, u) /\ Ready(st, b)
           /\ Head(r)[1] \in {"set_host_dirty", "set_dev_dirty"} =>
                 /\ st.writes /\ Head(r) = DirtyOp(st) /\ Tail(r) = <<>>
                 /\ Written(st, b, v) /\ Covered(i, st, ds, u)
<1>1. CASE Mallocs(i, st) /\ r = AtMalloc(i, st) /\ Fits(i, b, v)
  <2>1. r # <<>> /\ Head(r) = <<"malloc", FirstTouched(i, st)>> /\ Tail(r) = AtToHost(i, st)
    BY <1>1, CodeFacts
  <2>2. Head(r)[1] = "malloc" /\ Head(r)[2] = FirstTouched(i, st)
    BY <2>1
  <2> QED BY <1>1, <2>1, <2>2
<1>2. CASE CopiesToHost(i, st) /\ r = AtToHost(i, st) /\ Fits(i, b, v) /\ Covered(i, st, ds, u)
  <2>1. r # <<>> /\ Head(r) = <<"to_host">> /\ Tail(r) = AtToDevice(st)
    BY <1>2, CodeFacts
  <2>2. Head(r)[1] = "to_host"
    BY <2>1
  <2> QED BY <1>2, <2>1, <2>2
<1>3. CASE st.api # Host /\ r = AtToDevice(st) /\ Fits(i, b, v) /\ Covered(i, st, ds, u)
  <2>1. r # <<>> /\ Head(r) = <<"to_device", st.api>> /\ Tail(r) = AtStage(st)
    BY <1>3, CodeFacts
  <2>2. Head(r)[1] = "to_device" /\ Head(r)[2] = st.api
    BY <2>1
  <2> QED BY <1>3, <2>1, <2>2
<1>4. CASE r = AtStage(st) /\ Fits(i, b, v) /\ Covered(i, st, ds, u) /\ Ready(st, b)
  <2>1. r # <<>> /\ Head(r) = <<"stage", st>> /\ Tail(r) = AtDirty(st)
    BY <1>4, CodeFacts
  <2>2. Head(r)[1] = "stage" /\ Head(r)[2] = st
    BY <2>1
  <2> QED BY <1>4, <2>1, <2>2
<1>5. CASE st.writes /\ r = AtDirty(st) /\ Written(st, b, v) /\ Covered(i, st, ds, u)
  <2>1. r # <<>> /\ Head(r) = DirtyOp(st) /\ Tail(r) = <<>>
    BY <1>5, CodeFacts
  <2>2. Head(r)[1] \in {"set_host_dirty", "set_dev_dirty"}
    BY <2>1 DEF DirtyOp
  <2> QED BY <1>5, <2>1, <2>2
<1> QED BY <1>1, <1>2, <1>3, <1>4, <1>5 DEF InCode

\* The device memory of the stage is allocated.
LEMMA CodeMalloc ==
    ASSUME NEW i \in Infos, NEW st \in Stages, NEW b, NEW v \in Nat, NEW r, NEW ds, NEW u,
           InCode(i, st, b, v, r, ds, u), Head(r)[1] = "malloc",
           NEW o \in halide_device_malloc(b, Head(r)[2])
    PROVE  /\ ~i.dev_allocated
           /\ o.result \in {"ok", "error"} /\ o.buf \in Bufs
           /\ o.result = "ok" => \A es : es # <<>> => InCode(i, st, o.buf, v, Tail(r), es, u)
           /\ o.result # "ok" => o.buf = b
<1>1. /\ Mallocs(i, st) /\ Head(r)[2] = FirstTouched(i, st)
      /\ Fits(i, b, v) /\ Tail(r) = AtToHost(i, st)
  BY CodeHeads
<1>2. FirstTouched(i, st) \in Devices
  BY <1>1, StageFacts DEF FirstTouched, Mallocs, Infos
<1>3. /\ Good(o.buf, v) /\ o.result \in {"ok", "error"}
      /\ o.result # "ok" => o.buf = b
      /\ (o.buf.dev_dirty <=> b.dev_dirty)
  BY <1>1, <1>2, MallocOutcomes DEF Fits
<1>4. Fits(i, o.buf, v)
  BY <1>1, <1>3 DEF Fits
<1>5. ASSUME NEW es, es # <<>>
      PROVE  InCode(i, st, o.buf, v, Tail(r), es, u)
  <2>1. Covered(i, st, es, u)
    BY <1>5 DEF Covered
  <2> QED BY <1>1, <1>4, <2>1, EnterToHost
<1> QED BY <1>1, <1>3, <1>5 DEF Mallocs, Good, Readable

\* The newest data is copied to a host stage that needs it.
LEMMA CodeToHost ==
    ASSUME NEW i \in Infos, NEW st \in Stages, NEW b, NEW v \in Nat, NEW r, NEW ds, NEW u,
           InCode(i, st, b, v, r, ds, u), Head(r)[1] = "to_host",
           NEW o \in halide_copy_to_host(b)
    PROVE  /\ o.result \in {"ok", "error"}
           /\ o.result = "ok" => InCode(i, st, o.buf, v, Tail(r), ds, u)
           /\ Readable(o.buf, v)
           /\ o.buf.dev = b.dev
<1>1. /\ CopiesToHost(i, st) /\ Tail(r) = AtToDevice(st)
      /\ Fits(i, b, v) /\ Covered(i, st, ds, u)
  BY CodeHeads
<1>2. /\ Good(o.buf, v) /\ o.result \in {"ok", "error"}
      /\ o.result = "ok" => ~o.buf.dev_dirty
      /\ o.buf.dev = b.dev
  BY <1>1, CopyToHostOutcomes DEF Fits
<1>3. st.api = Host /\ AtToDevice(st) = AtStage(st)
  BY <1>1, CodeFacts DEF CopiesToHost
<1>4. ASSUME o.result = "ok"
      PROVE  InCode(i, st, o.buf, v, Tail(r), ds, u)
  <2>1. Fits(i, o.buf, v) /\ Ready(st, o.buf)
    BY <1>2, <1>3, <1>4 DEF Fits, Ready
  <2> QED BY <1>1, <1>3, <2>1 DEF InCode
<1> QED BY <1>2, <1>4 DEF Good

\* The newest data is copied to the device of the stage.
LEMMA CodeToDevice ==
    ASSUME NEW i \in Infos, NEW st \in Stages, NEW b, NEW v \in Nat, NEW r, NEW ds, NEW u,
           InCode(i, st, b, v, r, ds, u), Head(r)[1] = "to_device",
           u => (i.dev_touched <=> i.device_first_touched # None),
           NEW o \in halide_copy_to_device(b, Head(r)[2])
    PROVE  /\ o.result \in {"ok", "error", "not_freed"}
           /\ o.result = "ok" => InCode(i, st, o.buf, v, Tail(r), ds, u)
           /\ Readable(o.buf, v)
           /\ u => ds # <<>>
<1>1. /\ st.api # Host /\ Head(r)[2] = st.api /\ Tail(r) = AtStage(st)
      /\ Fits(i, b, v) /\ Covered(i, st, ds, u)
  BY CodeHeads
<1>2. st.api \in Devices
  BY <1>1, StageFacts
<1>3. /\ Readable(o.buf, v) /\ o.result \in {"ok", "error", "not_freed"}
      /\ o.result = "ok" => /\ Good(o.buf, v)
                            /\ ~o.buf.host_dirty /\ o.buf.dev = st.api
                            /\ ~b.dev_dirty => ~o.buf.dev_dirty
  <2>1. Good(b, v)
    BY <1>1 DEF Fits
  <2>2. PICK d \in Devices : d = st.api
    BY <1>2
  <2>3. o \in halide_copy_to_device(b, d)
    BY <1>1, <2>2
  <2> QED BY <2>1, <2>2, <2>3, CopyToDeviceOutcomes
<1>4. ASSUME o.result = "ok"
      PROVE  InCode(i, st, o.buf, v, Tail(r), ds, u)
  <2>1. Fits(i, o.buf, v) /\ Ready(st, o.buf)
    BY <1>1, <1>3, <1>4 DEF Fits, Ready
  <2> QED BY <1>1, <2>1 DEF InCode
<1>5. u => ds # <<>>
  <2>1. st.api # None
    BY <1>2, DeviceAssumption
  <2> QED BY <1>1, <2>1 DEF Covered, Mallocs, FirstTouched
<1> QED BY <1>3, <1>4, <1>5

\* The stage runs on the newest data, and may write a newer version.
LEMMA CodeStage ==
    ASSUME NEW i \in Infos, NEW st \in Stages, NEW b, NEW v \in Nat, NEW r, NEW ds, NEW u,
           Consistent(i), InCode(i, st, b, v, r, ds, u), Head(r)[1] = "stage"
    PROVE  /\ IF st.api = Host THEN b.host /\ b.hostData = v
              ELSE b.dev = st.api /\ b.devData = v
           /\ ~st.writes => Tail(r) = <<>> /\ Done(i, st, b, v, ds, u)
           /\ st.writes => \A c : 
                 c = (IF st.api = Host THEN [b EXCEPT !.hostData = v + 1]
                      ELSE [b EXCEPT !.devData = v + 1])
                 => /\ InCode(i, st, c, v + 1, Tail(r), ds, u)
                    /\ c \in Bufs /\ c.dev = b.dev
<1>1. /\ Head(r)[2] = st /\ Tail(r) = AtDirty(st)
      /\ Fits(i, b, v) /\ Covered(i, st, ds, u) /\ Ready(st, b)
  BY CodeHeads
<1>2. Good(b, v) /\ b \in Bufs /\ b.host
  BY <1>1 DEF Fits, Good, Readable
<1>3. IF st.api = Host THEN b.host /\ b.hostData = v ELSE b.dev = st.api /\ b.devData = v
  <2>1. st.api # Host => st.api # None
    BY StageFacts, DeviceAssumption
  <2> QED BY <1>1, <1>2, <2>1 DEF Ready, Good, Readable
<1>4. ASSUME ~st.writes
      PROVE  Tail(r) = <<>> /\ Done(i, st, b, v, ds, u)
  <2>1. Tail(r) = <<>>
    BY <1>1, <1>4, CodeFacts
  <2>2. PICK a : a = do_copies(i, st).info
    OBVIOUS
  <2>3. /\ a.dev_touched <=> i.dev_touched \/ st.api # Host
        /\ a.internal = i.internal
        /\ a.dev_allocated <=> i.dev_allocated \/ Mallocs(i, st)
        /\ st.api # Host => (a.host_current => i.host_current /\ ~st.writes)
    BY <2>2, StageInfo
  <2>4. Fits(a, b, v)
    BY <1>1, <2>3 DEF Fits, Ready
  <2>5. u /\ a.dev_allocated => ds # <<>>
    BY <1>1, <2>3 DEF Covered
  <2> QED BY <2>1, <2>2, <2>4, <2>5 DEF Done
<1>5. ASSUME st.writes, NEW c,
             c = IF st.api = Host THEN [b EXCEPT !.hostData = v + 1]
                 ELSE [b EXCEPT !.devData = v + 1]
      PROVE  InCode(i, st, c, v + 1, Tail(r), ds, u) /\ c \in Bufs /\ c.dev = b.dev
  <2>1. v + 1 \in Nat
    OBVIOUS
  <2>2. /\ c \in Bufs /\ c.host = b.host /\ c.dev = b.dev
        /\ (c.host_dirty <=> b.host_dirty) /\ (c.dev_dirty <=> b.dev_dirty)
        /\ IF st.api = Host THEN c.hostData = v + 1 ELSE c.devData = v + 1
    BY <1>2, <1>5, <2>1, SetHostData, SetDevData
  <2>3. Written(st, c, v + 1)
    BY <1>1, <1>2, <2>2 DEF Written, Ready
  <2> QED BY <1>1, <1>5, <2>2, <2>3 DEF InCode
<1> QED BY <1>1, <1>3, <1>4, <1>5

\* The dirty bit of the side that the stage wrote is set.
LEMMA CodeDirty ==
    ASSUME NEW i \in Infos, NEW st \in Stages, NEW b, NEW v \in Nat, NEW r, NEW ds, NEW u,
           NEW op \in {"set_host_dirty", "set_dev_dirty"}, NEW c,
           Consistent(i), InCode(i, st, b, v, r, ds, u), Head(r)[1] = op, c = DirtyBit(op, b)
    PROVE  /\ Tail(r) = <<>>
           /\ Done(i, st, c, v, ds, u)
           /\ c \in Bufs
<1>1. /\ st.writes /\ Head(r) = DirtyOp(st) /\ Tail(r) = <<>>
      /\ Written(st, b, v) /\ Covered(i, st, ds, u)
  BY CodeHeads
<1>2. IF st.api = Host THEN op = "set_host_dirty" ELSE op = "set_dev_dirty"
  BY <1>1 DEF DirtyOp
<1>3. b \in Bufs /\ b.host
  BY <1>1 DEF Written
<1>4. /\ c \in Bufs /\ c.host = b.host /\ c.dev = b.dev
      /\ c.hostData = b.hostData /\ c.devData = b.devData
      /\ IF st.api = Host THEN c.host_dirty /\ (c.dev_dirty <=> b.dev_dirty)
         ELSE c.dev_dirty /\ (c.host_dirty <=> b.host_dirty)
  BY <1>2, <1>3, MarkHost, MarkDev DEF DirtyBit
<1>5. st.api # Host => st.api # None
  BY StageFacts, DeviceAssumption
<1>6. Good(c, v)
  BY <1>1, <1>3, <1>4, <1>5 DEF Written, Good, Readable
<1>7. PICK a : a = do_copies(i, st).info
  OBVIOUS
<1>8. /\ a.dev_touched <=> i.dev_touched \/ st.api # Host
      /\ a.dev_allocated <=> i.dev_allocated \/ Mallocs(i, st)
      /\ st.api # Host => (a.host_current => i.host_current /\ ~st.writes)
  BY <1>7, StageInfo
<1>9. Fits(a, c, v)
  BY <1>1, <1>4, <1>6, <1>8 DEF Fits, Written
<1>10. u /\ a.dev_allocated => ds # <<>>
  BY <1>1, <1>8 DEF Covered
<1> QED BY <1>1, <1>4, <1>7, <1>9, <1>10 DEF Done

-----------------------------------------------------------------------------
(***************************************************************************)
(* The actions.                                                            *)
(***************************************************************************)
\* What holds after one branch of a step is what the pass takes to hold after it.
LEMMA StepDone ==
    ASSUME NEW i \in Infos, Consistent(i), NEW step \in Steps, Len(step) = 2 => i.known,
           NEW j \in DOMAIN step, NEW b, NEW v, Fits(do_copies(i, step[j]).info, b, v)
    PROVE  Fits(InfoAfter(i, step), b, v)
<1>1. CASE Len(step) = 1
  <2>1. j = 1
    BY <1>1, StepShape
  <2> QED BY <1>1, <2>1 DEF InfoAfter
<1>2. CASE Len(step) = 2
  <2>1. PICK r : r = InfoAfter(i, step)
    OBVIOUS
  <2>2. ~r.internal /\ (r.host_current => do_copies(i, step[j]).info.host_current)
    BY <1>2, <2>1, BranchedInfo
  <2> QED BY <2>1, <2>2 DEF Fits
<1> QED BY <1>1, <1>2, StepShape

\* PassInv, about one step of the program.
LEMMA PassFacts ==
    ASSUME PassInv, NEW m \in 1..Len(prog)
    PROVE  /\ prog[m] \in Steps
           /\ info[m] \in Infos /\ info[m + 1] \in Infos
           /\ Consistent(info[m])
           /\ info[m + 1] = InfoAfter(info[m], prog[m])
           /\ Len(prog[m]) = 2 => kind = "internal" /\ info[m].known /\ ~Unbranched
           /\ kind # "internal" => info[m].dev_allocated
           /\ Unbranched => (info[m].dev_touched <=> info[m].device_first_touched # None)
           /\ \A j \in DOMAIN prog[m] : prog[m][j] \in Stages => Last(info).host_touched
<1>1. /\ prog \in Seq(Steps) /\ info \in Seq(Infos) /\ Len(info) = Len(prog) + 1
      /\ Len(prog) \in Nat
  BY DEF PassInv
<1>2. m \in 1..Len(info) /\ m + 1 \in 1..Len(info)
  BY <1>1
<1>3. prog[m] \in Steps /\ info[m] \in Infos /\ info[m + 1] \in Infos
  BY <1>1, <1>2
<1>4. /\ Consistent(info[m])
      /\ kind = "internal" => info[m].known
      /\ kind # "internal" => info[m].dev_allocated
      /\ Branches = {} => (info[m].dev_touched <=> info[m].device_first_touched # None)
      /\ kind # "internal" => Branches = {}
      /\ info[m + 1] = InfoAfter(info[m], prog[m])
  BY <1>2 DEF PassInv
<1>5. Len(prog[m]) = 2 => m \in Branches
  BY <1>1 DEF Branches
<1>6. \A j \in DOMAIN prog[m] : prog[m][j] \in Stages => Last(info).host_touched
  <2> SUFFICES ASSUME NEW j \in DOMAIN prog[m], prog[m][j] \in Stages
               PROVE  Last(info).host_touched
    OBVIOUS
  <2>1. j \in {1, 2}
    BY <1>3, StepShape
  <2>2. info[m + 1].host_touched
    BY <2>1 DEF PassInv
  <2>3. info[m + 1].host_touched => info[Len(info)].host_touched
    BY <1>2 DEF PassInv
  <2> QED BY <2>2, <2>3 DEF Last
<1> QED BY <1>3, <1>4, <1>5, <1>6 DEF Unbranched

\* What goes in front of the code.
LEMMA FrontHeads ==
    ASSUME NEW k, NEW i \in Infos
    PROVE  /\ k # "internal" => Prologue(k, i) # << <<"host_malloc">> >>
           /\ k = "internal" => (Prologue(k, i) = <<>> <=> ~i.host_touched)
           /\ Prologue(k, i) # <<>> =>
                 /\ Tail(Prologue(k, i)) = <<>>
                 /\ \/ Head(Prologue(k, i))[1] = "host_malloc" /\ k = "internal"
                    \/ /\ Head(Prologue(k, i))[1] = "malloc_both" /\ k = "internal"
                       /\ Head(Prologue(k, i))[2] \in Devices
                    \/ /\ Head(Prologue(k, i))[1] = "to_device" /\ k # "internal"
                       /\ Head(Prologue(k, i))[2] \in Devices
<1> DEFINE r == Prologue(k, i)
<1>1. \/ r = <<>> /\ (k = "internal" => ~i.host_touched)
      \/ r = << <<"host_malloc">> >> /\ k = "internal" /\ i.host_touched
      \/ r = << <<"malloc_both", i.device_first_touched>> >> /\ k = "internal"
         /\ i.device_first_touched \in Devices /\ i.host_touched
      \/ r = << <<"to_device", i.current_device>> >> /\ k # "internal"
         /\ i.current_device \in Devices
  BY DEF Prologue, Infos
<1> HIDE DEF r
<1>2. CASE r = <<>> /\ (k = "internal" => ~i.host_touched)
  BY <1>2 DEF r
<1>3. CASE r = << <<"host_malloc">> >> /\ k = "internal" /\ i.host_touched
  <2>1. r # <<>> /\ Tail(r) = <<>> /\ Head(r)[1] = "host_malloc"
    BY <1>3
  <2> QED BY <1>3, <2>1 DEF r
<1>4. CASE r = << <<"malloc_both", i.device_first_touched>> >> /\ k = "internal"
           /\ i.device_first_touched \in Devices /\ i.host_touched
  <2>1. /\ r # <<>> /\ Tail(r) = <<>> /\ Head(r)[1] = "malloc_both"
        /\ Head(r)[2] = i.device_first_touched
    BY <1>4
  <2> QED BY <1>4, <2>1 DEF r
<1>5. CASE r = << <<"to_device", i.current_device>> >> /\ k # "internal"
           /\ i.current_device \in Devices
  <2>1. /\ r # <<>> /\ Tail(r) = <<>> /\ Head(r)[1] = "to_device"
        /\ Head(r)[2] = i.current_device
    BY <1>5
  <2>2. r # << <<"host_malloc">> >>
    BY <2>1
  <2> QED BY <1>5, <2>1, <2>2 DEF r
<1> QED BY <1>1, <1>2, <1>3, <1>4, <1>5

\* The BufferInfo at the end of the pass is one.
LEMMA LastInfo ==
    ASSUME PassInv
    PROVE  Last(info) \in Infos /\ info[1] \in Infos
<1>1. info \in Seq(Infos) /\ Len(info) \in 1..Len(info)
  BY DEF PassInv
<1> QED BY <1>1 DEF Last

\* Before the pass has looked at anything.
LEMMA InitIInv == Init => IInv
<1> SUFFICES ASSUME Init PROVE IInv
  OBVIOUS
<1>1. kind \in BufferKinds
  BY InjectionAssumption DEF Init
<1>2. prog \in Seq(Steps) /\ Len(prog) = 0 /\ DOMAIN prog = {}
  BY DEF Init
<1>3. PICK i : i = InfoBefore(kind)
  OBVIOUS
<1>4. /\ i \in Infos /\ Consistent(i)
      /\ kind = "internal" => i.known
      /\ kind # "internal" => i.dev_allocated
      /\ i.dev_touched = FALSE /\ i.device_first_touched = None
  BY <1>3, InfoBeforeFacts
<1>5. info = <<i>>
  BY <1>3 DEF Init
<1>6. info \in Seq(Infos) /\ Len(info) = 1 /\ info[1] = i
  BY <1>4, <1>5
<1>7. Branches = {}
  BY <1>2 DEF Branches
<1>8. PassInv
  <2>1. \A n \in 1..Len(info) :
          /\ Consistent(info[n])
          /\ kind = "internal" => info[n].known
          /\ kind # "internal" => info[n].dev_allocated
          /\ Branches = {} => (info[n].dev_touched <=> info[n].device_first_touched # None)
          /\ info[n].host_touched => info[Len(info)].host_touched
    <3> SUFFICES ASSUME NEW n \in 1..Len(info)
                 PROVE  n = 1
      BY <1>4, <1>6
    <3> QED BY <1>6
  <2>2. 1..Len(prog) = {}
    BY <1>2
  <2> QED BY <1>1, <1>2, <1>3, <1>6, <1>7, <2>1, <2>2 DEF PassInv
<1>9. buf \in Bufs /\ buf.dev = None
  BY DEF Init, NewBuffer, Bufs, Buffers
<1>10. RunInv
  <2>1. status = "pass" /\ next = 1 /\ dtors = <<>> /\ buf = NewBuffer(FALSE) /\ latest = 0
    BY DEF Init
  <2>2. status # "run" /\ next \in 1..(Len(prog) + 1)
    BY <1>2, <2>1
  <2> QED BY <1>9, <2>1, <2>2 DEF RunInv
<1>11. ExitInv
  <2>1. status = "pass" /\ dtors = <<>>
    BY DEF Init
  <2>2. dtors \in Seq({"device_free", "device_and_host_free"})
    BY <2>1
  <2> QED BY <1>9, <2>1, <2>2 DEF ExitInv, Exited
<1> QED BY <1>8, <1>10, <1>11 DEF IInv

\* The pass takes the next step of the program.
LEMMA InjectStepIInv ==
    ASSUME IInv, InjectStep, Branching \subseteq {"internal"}
    PROVE  IInv'
<1>1. PICK step \in Plain \cup (IF MayBranch THEN IfThenElse ELSE {}) :
         /\ prog' = Append(prog, step)
         /\ info' = Append(info, InfoAfter(Last(info), step))
  BY DEF InjectStep
<1>2. step \in Steps
  BY DEF Steps
<1>3. kind # "internal" => Len(step) = 1
  <2>1. kind # "internal" => step \in Plain
    BY DEF MayBranch
  <2> QED BY <2>1 DEF Plain
<1> DEFINE L == Len(prog)
           i == Last(info)
           r == InfoAfter(i, step)
<1>4. /\ prog \in Seq(Steps) /\ info \in Seq(Infos) /\ Len(info) = L + 1 /\ L \in Nat
      /\ info[L + 1] = i
  BY DEF IInv, PassInv, Last
<1>5. /\ i \in Infos /\ Consistent(i)
      /\ kind = "internal" => i.known
      /\ kind # "internal" => i.dev_allocated
      /\ Branches = {} => (i.dev_touched <=> i.device_first_touched # None)
      /\ kind # "internal" => Branches = {}
      /\ \A n \in 1..(L + 1) : info[n].host_touched => i.host_touched
  <2>1. L + 1 \in 1..(L + 1)
    BY <1>4
  <2>2. info[L + 1] \in Infos
    BY <1>4, <2>1
  <2> QED BY <1>4, <2>1, <2>2 DEF IInv, PassInv
<1>6. Len(step) = 1 \/ Len(step) = 2
  BY <1>2, StepShape
<1>7. /\ r \in Infos /\ Consistent(r) /\ r.known
      /\ i.host_touched => r.host_touched
      /\ \A j \in {1, 2} : j \in DOMAIN step /\ step[j] \in Stages => r.host_touched
      /\ kind # "internal" => r.dev_allocated
      /\ Len(step) = 1 /\ Branches = {} => (r.dev_touched <=> r.device_first_touched # None)
  <2>1. CASE Len(step) = 1
    <3>1. /\ r \in Infos /\ Consistent(r) /\ r.known /\ r.host_touched
          /\ i.dev_allocated => r.dev_allocated
          /\ (i.dev_touched <=> i.device_first_touched # None)
               => (r.dev_touched <=> r.device_first_touched # None)
      BY <1>2, <1>5, <2>1, PlainInfo
    <3> HIDE DEF r, i
    <3> QED BY <1>5, <3>1
  <2>2. CASE Len(step) = 2
    <3>1. kind = "internal" /\ i.known
      BY <1>3, <1>5, <2>2
    <3>2. /\ r \in Infos /\ Consistent(r) /\ r.known
          /\ i.host_touched => r.host_touched
          /\ \A j \in DOMAIN step : step[j] \in Stages => r.host_touched
      BY <1>2, <1>5, <2>2, <3>1, BranchedInfo
    <3> HIDE DEF r, i
    <3> QED BY <2>2, <3>1, <3>2
  <2> QED BY <1>6, <2>1, <2>2
<1>8. kind' = kind
  BY DEF InjectStep
<1> HIDE DEF r
<1>9. /\ prog' \in Seq(Steps) /\ Len(prog') = L + 1
      /\ \A n \in 1..L : prog'[n] = prog[n]
      /\ prog'[L + 1] = step
  BY <1>1, <1>2, <1>4
<1>10. /\ info' \in Seq(Infos) /\ Len(info') = L + 2
       /\ \A n \in 1..(L + 1) : info'[n] = info[n]
       /\ info'[L + 2] = r
  <2>1. info' = Append(info, r)
    BY <1>1 DEF r
  <2> QED BY <1>4, <1>7, <2>1
<1>11. \A n \in 1..(L + 1) : n \in 1..L \/ n = L + 1
  BY <1>4
<1>12. DOMAIN prog' = 1..(L + 1) /\ DOMAIN prog = 1..L
  BY <1>4, <1>9
<1>13. /\ kind # "internal" => Branches' = {}
       /\ Branches' = {} => Branches = {} /\ Len(step) = 1
  <2>1. Branches' = {n \in 1..(L + 1) : Len(prog'[n]) = 2}
    BY <1>12 DEF Branches
  <2>2. Branches = {n \in 1..L : Len(prog[n]) = 2}
    BY <1>12 DEF Branches
  <2>3. \A n \in 1..L : n \in 1..(L + 1)
    BY <1>4
  <2>4. L + 1 \in 1..(L + 1)
    BY <1>4
  <2>5. kind # "internal" => Branches' = {}
    <3> SUFFICES ASSUME kind # "internal", NEW n \in 1..(L + 1), Len(prog'[n]) = 2
                 PROVE  FALSE
      BY <2>1
    <3>1. CASE n \in 1..L
      <4>1. prog'[n] = prog[n]
        BY <1>9, <3>1
      <4>2. n \in Branches
        BY <2>2, <3>1, <4>1
      <4> QED BY <1>5, <4>2
    <3>2. CASE n = L + 1
      <4>1. prog'[n] = step
        BY <1>9, <3>2
      <4>2. Len(step) = 2
        BY <4>1
      <4>3. Len(step) = 1
        BY <1>3
      <4>4. 1 # 2
        OBVIOUS
      <4> QED BY <4>2, <4>3, <4>4, Zenon
    <3>3. n \in 1..L \/ n = L + 1
      BY <1>11
    <3> QED BY <3>1, <3>2, <3>3
  <2>6. Branches' = {} => Branches = {}
    BY <1>9, <2>1, <2>2, <2>3
  <2>7. Branches' = {} => Len(step) # 2
    BY <1>9, <2>1, <2>4
  <2> QED BY <1>6, <2>5, <2>6, <2>7
<1>14. \A n \in 1..(L + 1) : info'[n + 1] = InfoAfter(info'[n], prog'[n])
  <2> SUFFICES ASSUME NEW n \in 1..(L + 1) PROVE info'[n + 1] = InfoAfter(info'[n], prog'[n])
    OBVIOUS
  <2>1. CASE n \in 1..L
    <3>1. n + 1 \in 1..(L + 1)
      BY <1>4, <2>1
    <3>2. info[n + 1] = InfoAfter(info[n], prog[n])
      BY <2>1 DEF IInv, PassInv
    <3> QED BY <1>9, <1>10, <2>1, <3>1, <3>2
  <2>2. CASE n = L + 1
    <3>1. n + 1 = L + 2
      BY <1>4, <2>2
    <3>2. info'[n] = i /\ prog'[n] = step /\ info'[n + 1] = r
      BY <1>4, <1>9, <1>10, <2>2, <3>1
    <3> QED BY <3>2 DEF r
  <2> QED BY <1>11, <2>1, <2>2
<1>15. \A n \in 1..(L + 2) : n \in 1..(L + 1) \/ n = L + 2
  BY <1>4
<1>16. ASSUME NEW n \in 1..(L + 2)
       PROVE  /\ Consistent(info'[n])
              /\ kind = "internal" => info'[n].known
              /\ kind # "internal" => info'[n].dev_allocated
              /\ Branches' = {} =>
                    (info'[n].dev_touched <=> info'[n].device_first_touched # None)
              /\ info'[n].host_touched => r.host_touched
  <2>1. CASE n \in 1..(L + 1)
    <3>1. /\ Consistent(info[n])
          /\ kind = "internal" => info[n].known
          /\ kind # "internal" => info[n].dev_allocated
          /\ Branches = {} => (info[n].dev_touched <=> info[n].device_first_touched # None)
      BY <1>4, <2>1 DEF IInv, PassInv
    <3>2. info'[n] = info[n]
      BY <1>10, <2>1
    <3>3. info[n].host_touched => r.host_touched
      BY <1>5, <1>7, <2>1
    <3> QED BY <1>13, <3>1, <3>2, <3>3
  <2>2. CASE n = L + 2
    <3>1. info'[n] = r
      BY <1>10, <2>2
    <3> QED BY <1>7, <1>13, <3>1
  <2> QED BY <1>15, <2>1, <2>2
<1>17. ASSUME NEW n \in 1..(L + 1), NEW j \in {1, 2},
              j \in DOMAIN prog'[n] /\ prog'[n][j] \in Stages
       PROVE  info'[n + 1].host_touched
  <2>1. CASE n \in 1..L
    <3>1. n + 1 \in 1..(L + 1)
      BY <1>4, <2>1
    <3>2. prog'[n] = prog[n] /\ info'[n + 1] = info[n + 1]
      BY <1>9, <1>10, <2>1, <3>1
    <3>3. j \in DOMAIN prog[n] /\ prog[n][j] \in Stages
      BY <1>17, <3>2
    <3>4. info[n + 1].host_touched
      BY <2>1, <3>3 DEF IInv, PassInv
    <3> QED BY <3>2, <3>4
  <2>2. CASE n = L + 1
    <3>1. n + 1 = L + 2
      BY <1>4, <2>2
    <3>2. prog'[n] = step /\ info'[n + 1] = r
      BY <1>9, <1>10, <2>2, <3>1
    <3> QED BY <1>7, <1>17, <3>2
  <2> QED BY <1>11, <2>1, <2>2
<1>18. PassInv'
  <2>1. /\ kind' \in BufferKinds /\ info'[1] = InfoBefore(kind')
    <3>1. kind \in BufferKinds /\ info[1] = InfoBefore(kind) /\ 1 \in 1..(L + 1)
      BY <1>4 DEF IInv, PassInv
    <3> QED BY <1>8, <1>10, <3>1
  <2>2. Len(info') = Len(prog') + 1
    BY <1>4, <1>9, <1>10
  <2>3. kind' # "internal" => Branches' = {}
    BY <1>8, <1>13
  <2>4. \A n \in 1..Len(prog') : info'[n + 1] = InfoAfter(info'[n], prog'[n])
    BY <1>9, <1>14
  <2>5. \A n \in 1..Len(info') :
          /\ Consistent(info'[n])
          /\ kind' = "internal" => info'[n].known
          /\ kind' # "internal" => info'[n].dev_allocated
          /\ Branches' = {} => (info'[n].dev_touched <=> info'[n].device_first_touched # None)
          /\ info'[n].host_touched => info'[Len(info')].host_touched
    BY <1>8, <1>10, <1>16
  <2>6. \A n \in 1..Len(prog'), j \in {1, 2} :
          j \in DOMAIN prog'[n] /\ prog'[n][j] \in Stages => info'[n + 1].host_touched
    BY <1>9, <1>17
  <2> HIDE DEF L
  <2> QED BY <1>9, <1>10, <2>1, <2>2, <2>3, <2>4, <2>5, <2>6 DEF PassInv
<1>19. /\ status = "pass" /\ status' = "pass" /\ next' = next /\ dtors' = dtors
       /\ buf' = buf /\ latest' = latest
  BY DEF InjectStep
<1>20. next = 1 /\ dtors = <<>> /\ buf = NewBuffer(FALSE) /\ latest = 0 /\ buf \in Bufs
  BY <1>19 DEF IInv, RunInv
<1>21. buf.dev = None
  BY <1>20 DEF NewBuffer
<1>22. next' \in 1..(Len(prog') + 1)
  BY <1>4, <1>9, <1>19, <1>20
<1>23. RunInv'
  <2>1. buf' \in Bufs /\ latest' \in Nat /\ status' # "run"
    BY <1>19, <1>20
  <2>2. next' = 1 /\ dtors' = <<>> /\ buf' = NewBuffer(FALSE) /\ latest' = 0
    BY <1>19, <1>20
  <2> QED BY <1>19, <1>22, <2>1, <2>2 DEF RunInv
<1>24. ExitInv'
  <2>1. dtors' \in Seq({"device_free", "device_and_host_free"})
    BY <1>19, <1>20
  <2> QED BY <1>19, <1>20, <1>21, <2>1 DEF ExitInv, Exited
<1> QED BY <1>18, <1>23, <1>24 DEF IInv

\* The run does not change what the pass has done.
LEMMA KeepPass ==
    ASSUME IInv, UNCHANGED passVars
    PROVE  /\ PassInv'
           /\ kind' = kind /\ prog' = prog /\ info' = info
           /\ Unbranched' <=> Unbranched
<1>1. kind' = kind /\ prog' = prog /\ info' = info
  BY DEF passVars
<1>2. Branches' = Branches
  BY <1>1 DEF Branches
<1>3. PassInv'
  BY <1>1, <1>2 DEF IInv, PassInv
<1> QED BY <1>1, <1>2, <1>3 DEF Unbranched

\* The run stays in the code of a stage.
LEMMA KeepInStep ==
    ASSUME IInv, UNCHANGED passVars, next' = next,
           NEW m \in 1..Len(prog), NEW j \in DOMAIN prog[m], next = m + 1,
           prog[m][j] \in Stages,
           InCode(info[m], prog[m][j], buf', latest', rest', dtors', Unbranched)
    PROVE  InStep'
<1>1. /\ kind' = kind /\ prog' = prog /\ info' = info
      /\ Unbranched' <=> Unbranched
  BY KeepPass
<1>2. InCode(info[m], prog[m][j], buf', latest', rest', dtors', Unbranched')
  BY <1>1 DEF InCode, Covered
<1> QED BY <1>1, <1>2 DEF InStep

\* The run leaves the code of a stage.
LEMMA LeaveStep ==
    ASSUME IInv, UNCHANGED passVars, next' = next,
           NEW m \in 1..Len(prog), NEW j \in DOMAIN prog[m], next = m + 1,
           prog[m][j] \in Stages, rest' = <<>>,
           Done(info[m], prog[m][j], buf', latest', dtors', Unbranched)
    PROVE  Rested'
<1>1. /\ kind' = kind /\ prog' = prog /\ info' = info
      /\ Unbranched' <=> Unbranched
  BY KeepPass
<1>2. /\ prog[m] \in Steps
      /\ info[m] \in Infos /\ Consistent(info[m])
      /\ info[m + 1] = InfoAfter(info[m], prog[m])
      /\ Len(prog[m]) = 2 => info[m].known /\ ~Unbranched
  BY PassFacts DEF IInv
<1>3. Fits(info[m + 1], buf', latest')
  BY <1>2, StepDone DEF Done
<1>4. Unbranched /\ info[m + 1].dev_allocated => dtors' # <<>>
  <2> SUFFICES ASSUME Unbranched, info[m + 1].dev_allocated PROVE dtors' # <<>>
    OBVIOUS
  <2>1. Len(prog[m]) = 1 /\ j = 1
    BY <1>2, StepShape
  <2>2. info[m + 1] = do_copies(info[m], prog[m][j]).info
    BY <1>2, <2>1 DEF InfoAfter
  <2> QED BY <2>2 DEF Done
<1> QED BY <1>1, <1>3, <1>4 DEF Rested

\* Where a call of the code can be.
LEMMA AtCall ==
    ASSUME IInv, NEW op, AtOp(op)
    PROVE  /\ status = "run" /\ rest # <<>>
           /\ \/ InFront /\ op \in {"host_malloc", "malloc_both", "to_device"}
              \/ InStep /\ op \in {"malloc", "to_host", "to_device", "stage",
                                   "set_host_dirty", "set_dev_dirty"}
<1>1. status = "run" /\ rest # <<>> /\ Head(rest)[1] = op
  BY DEF AtOp
<1>2. InFront \/ InStep
  BY <1>1 DEF IInv, RunInv, Rested, Ended
<1>3. CASE InFront
  <2>1. Last(info) \in Infos
    BY LastInfo DEF IInv
  <2>2. PICK r : r = Prologue(kind, Last(info))
    OBVIOUS
  <2>3. rest = r /\ r # <<>>
    BY <1>3, <2>2 DEF InFront
  <2> QED BY <1>1, <1>3, <2>1, <2>2, <2>3, FrontHeads
<1>4. CASE InStep
  <2>1. PICK m \in 1..Len(prog) : \E j \in DOMAIN prog[m] :
           /\ next = m + 1 /\ prog[m][j] \in Stages
           /\ InCode(info[m], prog[m][j], buf, latest, rest, dtors, Unbranched)
    BY <1>4 DEF InStep
  <2>2. PICK j \in DOMAIN prog[m] :
           /\ prog[m][j] \in Stages
           /\ InCode(info[m], prog[m][j], buf, latest, rest, dtors, Unbranched)
    BY <2>1
  <2>3. info[m] \in Infos
    BY PassFacts DEF IInv
  <2> QED BY <1>1, <1>4, <2>2, <2>3, CodeHeads
<1> QED BY <1>1, <1>2, <1>3, <1>4

\* The code of a stage, with what is known of the stage.
LEMMA InStepFacts ==
    ASSUME IInv, InStep
    PROVE  \E m \in 1..Len(prog) : \E j \in DOMAIN prog[m] :
              /\ next = m + 1 /\ prog[m][j] \in Stages
              /\ InCode(info[m], prog[m][j], buf, latest, rest, dtors, Unbranched)
              /\ info[m] \in Infos /\ Consistent(info[m])
              /\ kind # "internal" => info[m].dev_allocated
              /\ Unbranched => (info[m].dev_touched <=> info[m].device_first_touched # None)
<1>1. PICK m \in 1..Len(prog) : \E j \in DOMAIN prog[m] :
         /\ next = m + 1 /\ prog[m][j] \in Stages
         /\ InCode(info[m], prog[m][j], buf, latest, rest, dtors, Unbranched)
  BY DEF InStep
<1>2. /\ info[m] \in Infos /\ Consistent(info[m])
      /\ kind # "internal" => info[m].dev_allocated
      /\ Unbranched => (info[m].dev_touched <=> info[m].device_first_touched # None)
  BY PassFacts DEF IInv
<1> QED BY <1>1, <1>2

\* An error ends the code with a buffer that can be read.
LEMMA FailsWell ==
    ASSUME IInv, UNCHANGED <<passVars, next>>, status' \in {"error", "not_freed"}, buf' \in Bufs, latest' = latest,
           dtors' = dtors, kind # "internal" => Readable(buf', latest),
           Unbranched /\ buf'.dev # None => dtors # <<>>
    PROVE  IInv'
<1>1. PassInv' /\ kind' = kind /\ prog' = prog /\ (Unbranched' <=> Unbranched)
  BY KeepPass
<1>2. /\ latest \in Nat /\ next \in 1..(Len(prog) + 1)
  BY DEF IInv, RunInv
<1>3. RunInv'
  <2>1. status' # "run" /\ status' # "pass" /\ latest' \in Nat /\ next' \in 1..(Len(prog') + 1)
    BY <1>1, <1>2
  <2> QED BY <2>1 DEF RunInv
<1>4. ExitInv'
  <2>1. /\ dtors \in Seq({"device_free", "device_and_host_free"})
        /\ kind # "internal" => dtors = <<>>
    BY DEF IInv, ExitInv
  <2>2. ~Exited'
    BY DEF Exited
  <2> QED BY <1>1, <2>1, <2>2 DEF ExitInv
<1> QED BY <1>1, <1>3, <1>4 DEF IInv

\* A step of the run that leads to a place in the code.
LEMMA RunsOn ==
    ASSUME IInv, UNCHANGED passVars, status' = "run", next' \in 1..(Len(prog) + 1),
           buf' \in Bufs, latest' \in Nat, Rested' \/ InStep',
           dtors' \in Seq({"device_free", "device_and_host_free"}),
           kind # "internal" => dtors' = <<>>,
           Unbranched /\ buf'.dev # None => dtors' # <<>>
    PROVE  IInv'
<1>1. PassInv' /\ kind' = kind /\ prog' = prog /\ (Unbranched' <=> Unbranched)
  BY KeepPass
<1>2. RunInv'
  <2>1. status' # "pass" /\ next' \in 1..(Len(prog') + 1)
    BY <1>1
  <2> QED BY <2>1 DEF RunInv
<1>3. ExitInv'
  <2>1. ~Exited' /\ status' \notin {"error", "ok", "failed"}
    BY DEF Exited
  <2> QED BY <1>1, <2>1 DEF ExitInv
<1> QED BY <1>1, <1>2, <1>3 DEF IInv

\* The pipeline starts with a buffer that can be read.
LEMMA StartIInv ==
    ASSUME IInv, Start
    PROVE  IInv'
<1>1. /\ status = "pass" /\ status' = "run" /\ rest' = Prologue(kind, Last(info))
      /\ UNCHANGED passVars /\ next' = next /\ dtors' = dtors
  BY DEF Start
<1>2. next = 1 /\ dtors = <<>> /\ buf = NewBuffer(FALSE) /\ latest = 0 /\ buf \in Bufs
  BY <1>1 DEF IInv, RunInv
<1>3. /\ PassInv' /\ kind' = kind /\ prog' = prog /\ info' = info
      /\ (Unbranched' <=> Unbranched)
  BY <1>1, KeepPass
<1>4. CASE kind = "internal"
  <2>1. buf' = buf /\ latest' = latest
    BY <1>4 DEF Start
  <2>2. InFront' \/ Rested'
    <3>1. CASE Prologue(kind, Last(info)) # <<>>
      BY <1>1, <1>2, <1>3, <1>4, <2>1, <3>1 DEF InFront
    <3>2. CASE Prologue(kind, Last(info)) = <<>>
      <4>1. ~Last(info).host_touched
        BY <1>4, <3>2, LastInfo, FrontHeads DEF IInv
      <4>2. info[1].dev_allocated = FALSE
        BY <1>4, InfoBeforeFacts DEF IInv, PassInv
      <4>3. rest' = <<>> /\ next' = 1
        BY <1>1, <1>2, <3>2
      <4>4. info'[next'].dev_allocated = FALSE /\ ~Last(info').host_touched
        BY <1>3, <4>1, <4>2, <4>3
      <4> QED BY <1>3, <1>4, <4>3, <4>4 DEF Rested
    <3> QED BY <3>1, <3>2
  <2>3. buf.dev = None
    BY <1>2 DEF NewBuffer
  <2>4. RunInv'
    <3>1. next' \in 1..(Len(prog') + 1)
      BY <1>1, <1>3 DEF IInv, RunInv
    <3>2. buf' \in Bufs /\ latest' \in Nat /\ status' # "pass"
      BY <1>1, <1>2, <2>1
    <3> QED BY <1>1, <2>2, <3>1, <3>2 DEF RunInv
  <2>5. ExitInv'
    <3>1. dtors' \in Seq({"device_free", "device_and_host_free"})
      BY <1>1, <1>2
    <3> QED BY <1>1, <1>2, <1>3, <1>4, <2>1, <2>3, <3>1 DEF ExitInv, Exited
  <2> QED BY <1>3, <2>4, <2>5 DEF IInv
<1>5. CASE kind # "internal"
  <2>1. latest' \in Nat /\ Good(buf', latest')
    <3>1. CASE latest' = 0 /\ buf' = NewBuffer(TRUE)
      <4>1. PICK b : b = NewBuffer(TRUE)
        OBVIOUS
      <4>2. /\ b \in Bufs /\ b.host /\ b.dev = None /\ ~b.host_dirty /\ ~b.dev_dirty
            /\ b.hostData = 0 /\ b.devData = 0
        BY <4>1 DEF NewBuffer, Bufs, Buffers
      <4>3. Good(b, 0)
        BY <4>2 DEF Good, Readable
      <4> QED BY <3>1, <4>1, <4>3
    <3>2. CASE latest' = 1 /\ buf' \in {b \in Buffers({0, 1}) : Coherent(b, 1)}
      <4>1. PICK b \in Buffers({0, 1}) : b = buf' /\ Coherent(b, 1)
        BY <3>2
      <4>2. b \in Bufs
        BY DEF Bufs, Buffers
      <4>3. Good(b, 1)
        <5>1. /\ b.host
              /\ ~(b.host_dirty /\ b.dev_dirty)
              /\ b.hostData = IF b.dev_dirty THEN 0 ELSE 1
              /\ b.devData = IF b.host_dirty THEN 0 ELSE 1
              /\ b.dev = None => b.host_dirty
          BY <4>1 DEF Coherent
        <5>2. Readable(b, 1)
          BY <4>2, <5>1 DEF Readable
        <5> QED BY <5>1, <5>2 DEF Good
      <4> QED BY <3>2, <4>1, <4>3
    <3> QED BY <1>5, <3>1, <3>2 DEF Start
  <2>2. buf' \in Bufs
    BY <2>1 DEF Good, Readable
  <2>3. InFront' \/ Rested'
    <3>1. CASE Prologue(kind, Last(info)) # <<>>
      BY <1>1, <1>2, <1>3, <1>5, <2>1, <3>1 DEF InFront
    <3>2. CASE Prologue(kind, Last(info)) = <<>>
      <4>1. PICK i : i = info[1]
        OBVIOUS
      <4>2. i = InfoBefore(kind)
        BY <4>1 DEF IInv, PassInv
      <4>2a. i.host_current = FALSE /\ i.internal = FALSE
        BY <1>5, <4>2, InfoBeforeFacts
      <4>3. Fits(i, buf', latest')
        BY <2>1, <4>2a DEF Fits
      <4>4. rest' = <<>> /\ info'[next'] = i
        BY <1>1, <1>2, <1>3, <3>2, <4>1
      <4>5. ~Unbranched'
        BY <1>3, <1>5 DEF Unbranched
      <4> QED BY <4>3, <4>4, <4>5 DEF Rested
    <3> QED BY <3>1, <3>2
  <2>4. RunInv'
    <3>1. next' \in 1..(Len(prog') + 1)
      BY <1>1, <1>3 DEF IInv, RunInv
    <3>2. status' # "pass"
      BY <1>1
    <3> QED BY <1>1, <2>1, <2>2, <2>3, <3>1, <3>2 DEF RunInv
  <2>5. ExitInv'
    <3>1. dtors' \in Seq({"device_free", "device_and_host_free"})
      BY <1>1, <1>2
    <3>2. ~Unbranched'
      BY <1>3, <1>5 DEF Unbranched
    <3> QED BY <1>1, <1>2, <1>3, <3>1, <3>2 DEF ExitInv, Exited
  <2> QED BY <1>3, <2>4, <2>5 DEF IInv
<1> QED BY <1>4, <1>5

\* The run comes to the next step, and takes one of its branches.
LEMMA NextStepIInv ==
    ASSUME IInv, NextStep
    PROVE  IInv'
<1>1. /\ status = "run" /\ status' = "run" /\ rest = <<>> /\ next <= Len(prog)
      /\ next' = next + 1 /\ UNCHANGED passVars
      /\ buf' = buf /\ latest' = latest /\ dtors' = dtors
  BY DEF NextStep
<1>2. /\ buf \in Bufs /\ latest \in Nat /\ next \in 1..(Len(prog) + 1)
      /\ InFront \/ Rested \/ InStep \/ Ended
      /\ Len(prog) \in Nat
  BY <1>1 DEF IInv, RunInv, PassInv
<1>3. next \in 1..Len(prog) /\ next' \in 1..(Len(prog) + 1)
  BY <1>1, <1>2
<1>4. Rested
  <2>1. ~InFront /\ ~Ended
    BY <1>1, <1>2 DEF InFront, Ended
  <2>2. ~InStep
    BY <1>1, InStepFacts, CodeHeads
  <2> QED BY <1>2, <2>1, <2>2
<1>5. PICK m \in 1..Len(prog) : m = next
  BY <1>3
<1>6. PICK j \in DOMAIN prog[m] : rest' = do_copies(info[m], prog[m][j]).code
  BY <1>5 DEF NextStep
<1>7. /\ prog[m] \in Steps
      /\ info[m] \in Infos /\ Consistent(info[m])
      /\ info[m + 1] = InfoAfter(info[m], prog[m])
      /\ Len(prog[m]) = 2 => info[m].known /\ ~Unbranched
      /\ prog[m][j] \in Stages => Last(info).host_touched
  BY PassFacts DEF IInv
<1>8. /\ prog[m][j] \in Stages \cup {Skip}
      /\ Len(prog[m]) = 1 => prog[m][j] \in Stages
      /\ Len(prog[m]) = 1 \/ Len(prog[m]) = 2
  BY <1>7, StepShape
<1>9. /\ kind' = kind /\ prog' = prog /\ info' = info
      /\ (Unbranched' <=> Unbranched)
  BY <1>1, KeepPass
<1>10. Rested' \/ InStep'
  <2>1. CASE prog[m][j] \in Stages
    <3>1. Fits(info[m], buf, latest) /\ (Unbranched /\ info[m].dev_allocated => dtors # <<>>)
      BY <1>4, <1>5, <1>7, <2>1 DEF Rested
    <3>2. InCode(info[m], prog[m][j], buf, latest, AtMalloc(info[m], prog[m][j]), dtors, Unbranched)
      BY <1>7, <2>1, <3>1, EnterCode
    <3>3. rest' = AtMalloc(info[m], prog[m][j])
      BY <1>6, <1>7, <2>1, StageInfo
    <3>4. InCode(info[m], prog[m][j], buf', latest', rest', dtors', Unbranched')
      BY <1>1, <1>9, <3>2, <3>3 DEF InCode, Covered
    <3>5. next' = m + 1
      BY <1>1, <1>5
    <3> QED BY <1>9, <2>1, <3>4, <3>5 DEF InStep
  <2>2. CASE prog[m][j] = Skip
    <3>1. /\ rest' = <<>> /\ do_copies(info[m], prog[m][j]).info = info[m]
      BY <1>6, <2>2, SkipInfo
    <3>2. ~Unbranched
      BY <1>7, <1>8, <2>2, StageFacts
    <3>3. Fits(info[m], buf, latest) => Fits(info[m + 1], buf, latest)
      BY <1>7, <3>1, StepDone
    <3>4. Fits(info[m + 1], buf, latest) \/ (kind = "internal" /\ ~Last(info).host_touched)
      BY <1>4, <1>5, <3>3 DEF Rested
    <3>5. info'[next'] = info[m + 1]
      BY <1>1, <1>5, <1>9
    <3> QED BY <1>1, <1>9, <3>1, <3>2, <3>4, <3>5 DEF Rested
  <2> QED BY <1>8, <2>1, <2>2
<1>11. /\ dtors' \in Seq({"device_free", "device_and_host_free"})
       /\ kind # "internal" => dtors' = <<>>
       /\ Unbranched /\ buf'.dev # None => dtors' # <<>>
  BY <1>1 DEF IInv, ExitInv
<1> QED BY <1>1, <1>2, <1>3, <1>10, <1>11, RunsOn

\* A call: its outcome is the buffer after it, and says whether the run goes on.
LEMMA CallFacts ==
    ASSUME NEW outcomes, CallRuntime(outcomes)
    PROVE  /\ rest' = Tail(rest) /\ UNCHANGED passVars /\ next' = next /\ latest' = latest
           /\ \E o \in outcomes : /\ buf' = o.buf
                                  /\ status' = IF o.result = "ok" THEN "run" ELSE o.result
  BY DEF CallRuntime

\* What the invariant says of the buffer and its destructors.
LEMMA ExitFacts ==
    ASSUME IInv
    PROVE  /\ buf \in Bufs /\ latest \in Nat /\ next \in 1..(Len(prog) + 1)
           /\ dtors \in Seq({"device_free", "device_and_host_free"})
           /\ kind # "internal" => dtors = <<>>
           /\ Unbranched /\ buf.dev # None => dtors # <<>> \/ status = "not_freed"
  BY DEF IInv, RunInv, ExitInv

\* In front of the code of an internal buffer nothing has happened yet.
LEMMA FrontFacts ==
    ASSUME IInv, InFront
    PROVE  /\ next = 1 /\ Tail(rest) = <<>>
           /\ Head(rest)[1] # "host_malloc" => Head(rest)[2] \in Devices
           /\ Head(rest)[1] = "to_device" => kind # "internal" /\ Good(buf, latest)
           /\ Head(rest)[1] \in {"host_malloc", "malloc_both"} =>
                 /\ kind = "internal" /\ buf = NewBuffer(FALSE) /\ latest = 0 /\ dtors = <<>>
                 /\ info[next].host_current = FALSE /\ info[next].dev_allocated = FALSE
           /\ kind # "internal" => info[next].host_current = FALSE /\ info[next].internal = FALSE
<1>1. Last(info) \in Infos
  BY LastInfo DEF IInv
<1>2. PICK r : r = Prologue(kind, Last(info))
  OBVIOUS
<1>3. rest = r /\ r # <<>> /\ next = 1
  BY <1>2 DEF InFront
<1>4. /\ Tail(r) = <<>>
      /\ \/ Head(r)[1] = "host_malloc" /\ kind = "internal"
         \/ Head(r)[1] = "malloc_both" /\ kind = "internal" /\ Head(r)[2] \in Devices
         \/ Head(r)[1] = "to_device" /\ kind # "internal" /\ Head(r)[2] \in Devices
  BY <1>1, <1>2, <1>3, FrontHeads
<1>5. info[next] = InfoBefore(kind)
  BY <1>3 DEF IInv, PassInv
<1>6. /\ info[next].host_current = FALSE
      /\ kind = "internal" => info[next].dev_allocated = FALSE
      /\ kind # "internal" => info[next].internal = FALSE
  BY <1>5, InfoBeforeFacts
<1> QED BY <1>3, <1>4, <1>6 DEF InFront

\* The allocation in front of the code has succeeded.
LEMMA FrontDone ==
    ASSUME IInv, UNCHANGED passVars, next' = next, rest' = <<>>, latest' = latest,
           Good(buf', latest), ~info[next].host_current, ~info[next].internal \/ ~buf'.dev_dirty,
           Unbranched /\ info[next].dev_allocated => dtors' # <<>>
    PROVE  Rested'
<1>1. kind' = kind /\ info' = info /\ (Unbranched' <=> Unbranched)
  BY KeepPass
<1>2. PICK i : i = info[next]
  OBVIOUS
<1>3. Fits(i, buf', latest')
  BY <1>2 DEF Fits
<1>4. info'[next'] = i
  BY <1>1, <1>2
<1> QED BY <1>1, <1>2, <1>3, <1>4 DEF Rested

\* The host memory of an internal buffer is allocated.
LEMMA HostMallocIInv ==
    ASSUME IInv, RunHostMalloc
    PROVE  IInv'
<1>1. /\ AtOp("host_malloc") /\ dtors' = dtors
      /\ CallRuntime({Outcome("ok", NewBuffer(TRUE))} \cup Fails("host_malloc", buf))
  BY DEF RunHostMalloc
<1>2. InFront
  BY <1>1, AtCall
<1>3. Head(rest)[1] = "host_malloc"
  BY <1>1 DEF AtOp
<1>4. /\ Tail(rest) = <<>>
      /\ kind = "internal" /\ buf = NewBuffer(FALSE) /\ latest = 0 /\ dtors = <<>>
      /\ info[next].host_current = FALSE /\ info[next].dev_allocated = FALSE
  BY <1>2, <1>3, FrontFacts
<1>5. /\ rest' = Tail(rest) /\ UNCHANGED passVars /\ next' = next /\ latest' = latest
      /\ \E o \in {Outcome("ok", NewBuffer(TRUE))} \cup Fails("host_malloc", buf) :
            /\ buf' = o.buf
            /\ status' = IF o.result = "ok" THEN "run" ELSE o.result
  BY <1>1, CallFacts
<1>6. \/ buf' = NewBuffer(TRUE) /\ status' = "run"
      \/ buf' = buf /\ status' = "error"
  <2>1. PICK o \in {Outcome("ok", NewBuffer(TRUE))} \cup Fails("host_malloc", buf) :
            /\ buf' = o.buf
            /\ status' = IF o.result = "ok" THEN "run" ELSE o.result
    BY <1>5
  <2>2. o = Outcome("ok", NewBuffer(TRUE)) \/ o = Outcome("error", buf)
    BY DEF Fails
  <2>3. CASE o = Outcome("ok", NewBuffer(TRUE))
    <3>1. o.buf = NewBuffer(TRUE) /\ o.result = "ok"
      BY <2>3, OutcomeFields
    <3> QED BY <2>1, <3>1
  <2>4. CASE o = Outcome("error", buf)
    <3>1. o.buf = buf /\ o.result = "error"
      BY <2>4, OutcomeFields
    <3> QED BY <2>1, <3>1
  <2> QED BY <2>2, <2>3, <2>4
<1>7. CASE buf' = buf /\ status' = "error"
  <2>1. buf' \in Bufs /\ (Unbranched /\ buf'.dev # None => dtors # <<>>)
    BY <1>1, <1>7, ExitFacts DEF AtOp
  <2> QED BY <1>1, <1>4, <1>5, <1>7, <2>1, FailsWell
<1>8. CASE buf' = NewBuffer(TRUE) /\ status' = "run"
  <2>1. PICK b : b = NewBuffer(TRUE)
    OBVIOUS
  <2>2. /\ b \in Bufs /\ b.host /\ b.dev = None /\ ~b.host_dirty /\ ~b.dev_dirty
        /\ b.hostData = 0 /\ b.devData = 0
    BY <2>1 DEF NewBuffer, Bufs, Buffers
  <2>3. Good(b, 0)
    BY <2>2 DEF Good, Readable
  <2>4. Good(buf', latest) /\ ~buf'.dev_dirty /\ buf'.dev = None /\ buf' \in Bufs
    BY <1>4, <1>8, <2>1, <2>2, <2>3
  <2>5. Rested'
    BY <1>4, <1>5, <2>4, FrontDone
  <2> QED BY <1>1, <1>4, <1>5, <1>8, <2>4, <2>5, ExitFacts, RunsOn
<1> QED BY <1>6, <1>7, <1>8

\* The destructor of an allocation is registered when it has succeeded.
LEMMA NewDtor ==
    ASSUME IInv, NEW d \in {"device_free", "device_and_host_free"},
           dtors' = Registered(d)
    PROVE  /\ status' = "run" => /\ dtors' \in Seq({"device_free", "device_and_host_free"})
                                 /\ dtors' # <<>>
           /\ status' # "run" => dtors' = dtors
<1>1. dtors \in Seq({"device_free", "device_and_host_free"})
  BY ExitFacts
<1>2. status' = "run" => dtors' = <<d>> \o dtors
  BY DEF Registered
<1>3. status' # "run" => dtors' = dtors
  BY DEF Registered
<1>4. PICK S : S = {"device_free", "device_and_host_free"}
  OBVIOUS
<1>5. <<d>> \o dtors \in Seq(S) /\ <<d>> \o dtors # <<>>
  BY <1>1, <1>4, ConsFacts
<1> QED BY <1>2, <1>3, <1>4, <1>5

\* Host and device memory of an internal buffer are allocated together.
LEMMA MallocBothIInv ==
    ASSUME IInv, RunMallocBoth
    PROVE  IInv'
<1>1. /\ AtOp("malloc_both") /\ dtors' = Registered("device_and_host_free")
      /\ CallRuntime(halide_device_and_host_malloc(buf, Head(rest)[2]))
  BY DEF RunMallocBoth
<1>2. InFront
  BY <1>1, AtCall
<1>3. Head(rest)[1] = "malloc_both"
  BY <1>1 DEF AtOp
<1>4. /\ Tail(rest) = <<>> /\ Head(rest)[2] \in Devices
      /\ kind = "internal" /\ buf = NewBuffer(FALSE) /\ latest = 0 /\ dtors = <<>>
      /\ info[next].host_current = FALSE /\ info[next].dev_allocated = FALSE
  BY <1>2, <1>3, FrontFacts
<1>5. /\ rest' = Tail(rest) /\ UNCHANGED passVars /\ next' = next /\ latest' = latest
      /\ \E o \in halide_device_and_host_malloc(buf, Head(rest)[2]) :
            /\ buf' = o.buf
            /\ status' = IF o.result = "ok" THEN "run" ELSE o.result
  BY <1>1, CallFacts
<1>6. PICK o \in halide_device_and_host_malloc(buf, Head(rest)[2]) :
            /\ buf' = o.buf
            /\ status' = IF o.result = "ok" THEN "run" ELSE o.result
  BY <1>5
<1>7. /\ o.result \in {"ok", "error"}
      /\ o.buf \in Bufs
      /\ o.result = "ok" => Good(o.buf, 0) /\ ~o.buf.dev_dirty
      /\ o.result # "ok" => Readable(o.buf, 0) /\ o.buf.dev = None
  BY <1>4, MallocBothOutcomes
<1>8. /\ status' = "run" => /\ dtors' \in Seq({"device_free", "device_and_host_free"})
                            /\ dtors' # <<>>
      /\ status' # "run" => dtors' = dtors
  BY <1>1, NewDtor
<1>9. CASE o.result = "ok"
  <2>1. status' = "run"
    BY <1>6, <1>9
  <2>2. Good(buf', latest) /\ ~buf'.dev_dirty /\ buf' \in Bufs
    BY <1>4, <1>6, <1>7, <1>9
  <2>3. Rested'
    BY <1>4, <1>5, <2>2, FrontDone
  <2> QED BY <1>4, <1>5, <1>8, <2>1, <2>2, <2>3, ExitFacts, RunsOn
<1>10. CASE o.result # "ok"
  <2>1. status' = "error" /\ dtors' = dtors
    BY <1>6, <1>7, <1>8, <1>10
  <2>2. buf' \in Bufs /\ buf'.dev = None
    BY <1>6, <1>7, <1>10
  <2> QED BY <1>4, <1>5, <2>1, <2>2, FailsWell
<1> QED BY <1>9, <1>10

\* The call of halide_device_malloc in the code of a stage.
LEMMA MallocIInv ==
    ASSUME IInv, RunMalloc
    PROVE  IInv'
<1>1. /\ AtOp("malloc") /\ dtors' = Registered("device_free")
      /\ CallRuntime(halide_device_malloc(buf, Head(rest)[2]))
  BY DEF RunMalloc
<1>2. InStep /\ Head(rest)[1] = "malloc"
  BY <1>1, AtCall DEF AtOp
<1>3. PICK m \in 1..Len(prog) : \E j \in DOMAIN prog[m] :
         /\ next = m + 1 /\ prog[m][j] \in Stages
         /\ InCode(info[m], prog[m][j], buf, latest, rest, dtors, Unbranched)
         /\ info[m] \in Infos
         /\ kind # "internal" => info[m].dev_allocated
  BY <1>2, InStepFacts
<1>4. PICK j \in DOMAIN prog[m] :
         /\ next = m + 1 /\ prog[m][j] \in Stages
         /\ InCode(info[m], prog[m][j], buf, latest, rest, dtors, Unbranched)
         /\ info[m] \in Infos
         /\ kind # "internal" => info[m].dev_allocated
  BY <1>3
<1>5. /\ rest' = Tail(rest) /\ UNCHANGED passVars /\ next' = next /\ latest' = latest
      /\ \E o \in halide_device_malloc(buf, Head(rest)[2]) :
            /\ buf' = o.buf
            /\ status' = IF o.result = "ok" THEN "run" ELSE o.result
  BY <1>1, CallFacts
<1>6. PICK o \in halide_device_malloc(buf, Head(rest)[2]) :
            /\ buf' = o.buf
            /\ status' = IF o.result = "ok" THEN "run" ELSE o.result
  BY <1>5
<1>7. /\ buf \in Bufs /\ latest \in Nat /\ next \in 1..(Len(prog) + 1)
      /\ (Unbranched /\ buf.dev # None => dtors # <<>>)
  BY <1>1, ExitFacts DEF AtOp
<1>8. /\ ~info[m].dev_allocated
      /\ o.result \in {"ok", "error"} /\ o.buf \in Bufs
      /\ o.result = "ok" =>
            \A es : es # <<>> =>
                InCode(info[m], prog[m][j], o.buf, latest, Tail(rest), es, Unbranched)
      /\ o.result # "ok" => o.buf = buf
  BY <1>2, <1>4, <1>7, CodeMalloc
<1>9. kind = "internal"
  BY <1>4, <1>8
<1>10. /\ status' = "run" => /\ dtors' \in Seq({"device_free", "device_and_host_free"})
                             /\ dtors' # <<>>
       /\ status' # "run" => dtors' = dtors
  BY <1>1, NewDtor
<1>11. CASE o.result = "ok"
  <2>1. status' = "run"
    BY <1>6, <1>11
  <2>2. InCode(info[m], prog[m][j], buf', latest', rest', dtors', Unbranched)
    BY <1>5, <1>6, <1>8, <1>10, <1>11, <2>1
  <2>3. InStep'
    BY <1>4, <1>5, <2>2, KeepInStep
  <2>4. buf' \in Bufs /\ latest' \in Nat /\ next' \in 1..(Len(prog) + 1)
    BY <1>5, <1>6, <1>7, <1>8
  <2> QED BY <1>5, <1>9, <1>10, <2>1, <2>3, <2>4, RunsOn
<1>12. CASE o.result # "ok"
  <2>1. status' = "error" /\ dtors' = dtors /\ buf' = buf
    BY <1>6, <1>8, <1>10, <1>12
  <2> QED BY <1>5, <1>7, <1>9, <2>1, FailsWell
<1> QED BY <1>11, <1>12

\* The call of halide_copy_to_host in the code of a stage.
LEMMA CopyToHostIInv ==
    ASSUME IInv, RunCopyToHost
    PROVE  IInv'
<1>1. AtOp("to_host") /\ dtors' = dtors /\ CallRuntime(halide_copy_to_host(buf))
  BY DEF RunCopyToHost
<1>2. InStep /\ Head(rest)[1] = "to_host"
  BY <1>1, AtCall DEF AtOp
<1>3. PICK m \in 1..Len(prog) : \E j \in DOMAIN prog[m] :
         /\ next = m + 1 /\ prog[m][j] \in Stages
         /\ InCode(info[m], prog[m][j], buf, latest, rest, dtors, Unbranched)
         /\ info[m] \in Infos
  BY <1>2, InStepFacts
<1>4. PICK j \in DOMAIN prog[m] :
         /\ next = m + 1 /\ prog[m][j] \in Stages
         /\ InCode(info[m], prog[m][j], buf, latest, rest, dtors, Unbranched)
         /\ info[m] \in Infos
  BY <1>3
<1>5. /\ rest' = Tail(rest) /\ UNCHANGED passVars /\ next' = next /\ latest' = latest
      /\ \E o \in halide_copy_to_host(buf) :
            /\ buf' = o.buf
            /\ status' = IF o.result = "ok" THEN "run" ELSE o.result
  BY <1>1, CallFacts
<1>6. PICK o \in halide_copy_to_host(buf) :
            /\ buf' = o.buf
            /\ status' = IF o.result = "ok" THEN "run" ELSE o.result
  BY <1>5
<1>7. /\ latest \in Nat /\ next \in 1..(Len(prog) + 1)
      /\ (Unbranched /\ buf.dev # None => dtors # <<>>)
      /\ dtors \in Seq({"device_free", "device_and_host_free"})
      /\ kind # "internal" => dtors = <<>>
  BY <1>1, ExitFacts DEF AtOp
<1>8. /\ o.result \in {"ok", "error"}
      /\ o.result = "ok" => InCode(info[m], prog[m][j], o.buf, latest, Tail(rest), dtors, Unbranched)
      /\ Readable(o.buf, latest)
      /\ o.buf.dev = buf.dev
  BY <1>2, <1>4, <1>7, CodeToHost
<1>9. buf' \in Bufs /\ Readable(buf', latest) /\ buf'.dev = buf.dev
  BY <1>6, <1>8 DEF Readable
<1>10. CASE o.result = "ok"
  <2>1. status' = "run"
    BY <1>6, <1>10
  <2>2. InCode(info[m], prog[m][j], buf', latest', rest', dtors', Unbranched)
    BY <1>1, <1>5, <1>6, <1>8, <1>10
  <2>3. InStep'
    BY <1>4, <1>5, <2>2, KeepInStep
  <2> QED BY <1>1, <1>5, <1>7, <1>9, <2>1, <2>3, RunsOn
<1>11. CASE o.result # "ok"
  <2>1. status' = "error"
    BY <1>6, <1>8, <1>11
  <2> QED BY <1>1, <1>5, <1>7, <1>9, <2>1, FailsWell
<1> QED BY <1>10, <1>11

\* The calls of halide_copy_to_device, in front of the code and in it.
LEMMA CopyToDeviceIInv ==
    ASSUME IInv, RunCopyToDevice
    PROVE  IInv'
<1>1. /\ AtOp("to_device") /\ dtors' = dtors
      /\ CallRuntime(halide_copy_to_device(buf, Head(rest)[2]))
  BY DEF RunCopyToDevice
<1>2. (InFront \/ InStep) /\ Head(rest)[1] = "to_device"
  BY <1>1, AtCall DEF AtOp
<1>3. /\ rest' = Tail(rest) /\ UNCHANGED passVars /\ next' = next /\ latest' = latest
      /\ \E o \in halide_copy_to_device(buf, Head(rest)[2]) :
            /\ buf' = o.buf
            /\ status' = IF o.result = "ok" THEN "run" ELSE o.result
  BY <1>1, CallFacts
<1>4. PICK o \in halide_copy_to_device(buf, Head(rest)[2]) :
            /\ buf' = o.buf
            /\ status' = IF o.result = "ok" THEN "run" ELSE o.result
  BY <1>3
<1>5. /\ latest \in Nat /\ next \in 1..(Len(prog) + 1)
      /\ (Unbranched /\ buf.dev # None => dtors # <<>>)
      /\ dtors \in Seq({"device_free", "device_and_host_free"})
      /\ kind # "internal" => dtors = <<>>
  BY <1>1, ExitFacts DEF AtOp
<1>6. CASE InFront
  <2>1. /\ Tail(rest) = <<>> /\ Head(rest)[2] \in Devices
        /\ kind # "internal" /\ Good(buf, latest)
        /\ info[next].host_current = FALSE /\ info[next].internal = FALSE
    BY <1>2, <1>6, FrontFacts
  <2>2. /\ Readable(o.buf, latest)
        /\ o.result \in {"ok", "error", "not_freed"}
        /\ o.result = "ok" => Good(o.buf, latest)
    BY <1>5, <2>1, CopyToDeviceOutcomes
  <2>3. buf' \in Bufs /\ Readable(buf', latest)
    BY <1>4, <2>2 DEF Readable
  <2>4. ~Unbranched
    BY <2>1 DEF Unbranched
  <2>5. CASE o.result = "ok"
    <3>1. status' = "run" /\ Good(buf', latest)
      BY <1>4, <2>2, <2>5
    <3>2. Rested'
      BY <1>3, <2>1, <2>4, <3>1, FrontDone
    <3> QED BY <1>1, <1>3, <1>5, <2>3, <2>4, <3>1, <3>2, RunsOn
  <2>6. CASE o.result # "ok"
    <3>1. status' \in {"error", "not_freed"}
      BY <1>4, <2>2, <2>6
    <3> QED BY <1>1, <1>3, <2>3, <2>4, <3>1, FailsWell
  <2> QED BY <2>5, <2>6
<1>7. CASE InStep
  <2>1. PICK m \in 1..Len(prog) : \E j \in DOMAIN prog[m] :
           /\ next = m + 1 /\ prog[m][j] \in Stages
           /\ InCode(info[m], prog[m][j], buf, latest, rest, dtors, Unbranched)
           /\ info[m] \in Infos
           /\ Unbranched => (info[m].dev_touched <=> info[m].device_first_touched # None)
    BY <1>7, InStepFacts
  <2>2. PICK j \in DOMAIN prog[m] :
           /\ next = m + 1 /\ prog[m][j] \in Stages
           /\ InCode(info[m], prog[m][j], buf, latest, rest, dtors, Unbranched)
           /\ info[m] \in Infos
           /\ Unbranched => (info[m].dev_touched <=> info[m].device_first_touched # None)
    BY <2>1
  <2>3. /\ o.result \in {"ok", "error", "not_freed"}
        /\ o.result = "ok" =>
              InCode(info[m], prog[m][j], o.buf, latest, Tail(rest), dtors, Unbranched)
        /\ Readable(o.buf, latest)
        /\ Unbranched => dtors # <<>>
    BY <1>2, <1>5, <2>2, CodeToDevice
  <2>4. buf' \in Bufs /\ Readable(buf', latest)
    BY <1>4, <2>3 DEF Readable
  <2>5. CASE o.result = "ok"
    <3>1. status' = "run"
      BY <1>4, <2>5
    <3>2. InCode(info[m], prog[m][j], buf', latest', rest', dtors', Unbranched)
      BY <1>1, <1>3, <1>4, <2>3, <2>5
    <3>3. InStep'
      BY <1>3, <2>2, <3>2, KeepInStep
    <3> QED BY <1>1, <1>3, <1>5, <2>3, <2>4, <3>1, <3>3, RunsOn
  <2>6. CASE o.result # "ok"
    <3>1. status' \in {"error", "not_freed"}
      BY <1>4, <2>3, <2>6
    <3> QED BY <1>1, <1>3, <2>3, <2>4, <3>1, FailsWell
  <2> QED BY <2>5, <2>6
<1> QED BY <1>2, <1>6, <1>7

\* A stage runs.
LEMMA StageIInv ==
    ASSUME IInv, RunStage
    PROVE  IInv'
<1>1. /\ AtOp("stage") /\ rest' = Tail(rest) /\ UNCHANGED passVars
      /\ next' = next /\ dtors' = dtors /\ status' = status
  BY DEF RunStage
<1>2. InStep /\ Head(rest)[1] = "stage" /\ status' = "run"
  BY <1>1, AtCall DEF AtOp
<1>3. PICK m \in 1..Len(prog) : \E j \in DOMAIN prog[m] :
         /\ next = m + 1 /\ prog[m][j] \in Stages
         /\ InCode(info[m], prog[m][j], buf, latest, rest, dtors, Unbranched)
         /\ info[m] \in Infos /\ Consistent(info[m])
  BY <1>2, InStepFacts
<1>4. PICK j \in DOMAIN prog[m] :
         /\ next = m + 1 /\ prog[m][j] \in Stages
         /\ InCode(info[m], prog[m][j], buf, latest, rest, dtors, Unbranched)
         /\ info[m] \in Infos /\ Consistent(info[m])
  BY <1>3
<1>5. PICK st \in Stages : st = prog[m][j]
  BY <1>4
<1>6. /\ buf \in Bufs /\ latest \in Nat /\ next \in 1..(Len(prog) + 1)
      /\ (Unbranched /\ buf.dev # None => dtors # <<>>)
      /\ dtors \in Seq({"device_free", "device_and_host_free"})
      /\ kind # "internal" => dtors = <<>>
  BY <1>1, ExitFacts DEF AtOp
<1>7. /\ Head(rest)[2] = st
      /\ ~st.writes => Tail(rest) = <<>> /\ Done(info[m], st, buf, latest, dtors, Unbranched)
      /\ st.writes => \A c :
            c = (IF st.api = Host THEN [buf EXCEPT !.hostData = latest + 1]
                 ELSE [buf EXCEPT !.devData = latest + 1])
            => /\ InCode(info[m], st, c, latest + 1, Tail(rest), dtors, Unbranched)
               /\ c \in Bufs /\ c.dev = buf.dev
  <2>1. PICK i \in Infos : i = info[m]
    BY <1>4
  <2>2. PICK v \in Nat : v = latest
    BY <1>6
  <2>3. InCode(i, st, buf, v, rest, dtors, Unbranched)
    BY <1>4, <1>5, <2>1, <2>2
  <2>4. Consistent(i)
    BY <1>4, <2>1
  <2>5. Head(rest)[1] = "stage"
    BY <1>2
  <2>6. Head(rest)[2] = st
    BY <2>3, <2>5, CodeHeads
  <2>7. ~st.writes => Tail(rest) = <<>> /\ Done(i, st, buf, v, dtors, Unbranched)
    BY <2>3, <2>4, <2>5, CodeStage
  <2>8. /\ st.writes => \A c :
              c = (IF st.api = Host THEN [buf EXCEPT !.hostData = v + 1]
                   ELSE [buf EXCEPT !.devData = v + 1])
              => /\ InCode(i, st, c, v + 1, Tail(rest), dtors, Unbranched)
                 /\ c \in Bufs /\ c.dev = buf.dev
    BY <2>3, <2>4, <2>5, CodeStage
  <2> QED BY <2>1, <2>2, <2>6, <2>7, <2>8
<1>8. CASE ~st.writes
  <2>1. buf' = buf /\ latest' = latest
    BY <1>7, <1>8 DEF RunStage
  <2>2. rest' = <<>> /\ Done(info[m], prog[m][j], buf', latest', dtors', Unbranched)
    BY <1>1, <1>5, <1>7, <1>8, <2>1
  <2>3. Rested'
    BY <1>1, <1>4, <2>2, LeaveStep
  <2> QED BY <1>1, <1>2, <1>6, <2>1, <2>3, RunsOn
<1>9. CASE st.writes
  <2>1. /\ latest' = latest + 1
        /\ buf' = IF st.api = Host THEN [buf EXCEPT !.hostData = latest + 1]
                  ELSE [buf EXCEPT !.devData = latest + 1]
    BY <1>7, <1>9 DEF RunStage
  <2>2. /\ InCode(info[m], st, buf', latest + 1, Tail(rest), dtors, Unbranched)
        /\ buf' \in Bufs /\ buf'.dev = buf.dev
    BY <1>7, <1>9, <2>1
  <2>3. InCode(info[m], prog[m][j], buf', latest', rest', dtors', Unbranched)
    BY <1>1, <1>5, <2>1, <2>2
  <2>4. InStep'
    BY <1>1, <1>4, <2>3, KeepInStep
  <2>5. latest' \in Nat
    BY <1>6, <2>1
  <2> QED BY <1>1, <1>2, <1>6, <2>2, <2>4, <2>5, RunsOn
<1> QED BY <1>8, <1>9

\* The code of a stage that writes ends with a dirty bit.
LEMMA SetDirtyIInv ==
    ASSUME IInv, SetDirty
    PROVE  IInv'
<1>1. /\ rest' = Tail(rest) /\ UNCHANGED passVars
      /\ next' = next /\ dtors' = dtors /\ status' = status /\ latest' = latest
  BY DEF SetDirty
<1>2. PICK op \in {"set_host_dirty", "set_dev_dirty"} : AtOp(op) /\ buf' = DirtyBit(op, buf)
  BY DEF SetDirty
<1>3. InStep /\ Head(rest)[1] = op /\ status' = "run"
  BY <1>1, <1>2, AtCall DEF AtOp
<1>4. PICK m \in 1..Len(prog) : \E j \in DOMAIN prog[m] :
         /\ next = m + 1 /\ prog[m][j] \in Stages
         /\ InCode(info[m], prog[m][j], buf, latest, rest, dtors, Unbranched)
         /\ info[m] \in Infos /\ Consistent(info[m])
  BY <1>3, InStepFacts
<1>5. PICK j \in DOMAIN prog[m] :
         /\ next = m + 1 /\ prog[m][j] \in Stages
         /\ InCode(info[m], prog[m][j], buf, latest, rest, dtors, Unbranched)
         /\ info[m] \in Infos /\ Consistent(info[m])
  BY <1>4
<1>6. /\ latest \in Nat /\ next \in 1..(Len(prog) + 1)
      /\ (Unbranched /\ buf.dev # None => dtors # <<>>)
      /\ dtors \in Seq({"device_free", "device_and_host_free"})
      /\ kind # "internal" => dtors = <<>>
  BY <1>2, ExitFacts DEF AtOp
<1>7. /\ Tail(rest) = <<>>
      /\ Done(info[m], prog[m][j], buf', latest, dtors, Unbranched)
      /\ buf' \in Bufs /\ buf'.dev = buf.dev
  <2>1. PICK i \in Infos : i = info[m]
    BY <1>5
  <2>2. PICK st \in Stages : st = prog[m][j]
    BY <1>5
  <2>3. PICK v \in Nat : v = latest
    BY <1>6
  <2>4. InCode(i, st, buf, v, rest, dtors, Unbranched)
    BY <1>5, <2>1, <2>2, <2>3
  <2>5. Consistent(i)
    BY <1>5, <2>1
  <2>6. Head(rest)[1] = op
    BY <1>3
  <2>7. buf' = DirtyBit(op, buf)
    BY <1>2
  <2>8. /\ Tail(rest) = <<>>
        /\ Done(i, st, buf', v, dtors, Unbranched)
        /\ buf' \in Bufs
    BY <2>4, <2>5, <2>6, <2>7, CodeDirty
  <2>9. buf'.dev = buf.dev
    BY <2>7, ExitFacts, MarkHost, MarkDev DEF DirtyBit
  <2> QED BY <2>1, <2>2, <2>3, <2>8, <2>9
<1>8. rest' = <<>> /\ Done(info[m], prog[m][j], buf', latest', dtors', Unbranched)
  BY <1>1, <1>7
<1>9. Rested'
  BY <1>1, <1>5, <1>8, LeaveStep
<1> QED BY <1>1, <1>3, <1>6, <1>7, <1>9, RunsOn

\* A destructor frees the device memory or ends the process; the run has nothing else to do.
LEMMA DestructorIInv ==
    ASSUME IInv, RunDestructor
    PROVE  IInv'
<1>1. /\ Ending /\ dtors # <<>>
      /\ \E o \in Destroyed(buf, Head(dtors)) :
            /\ buf' = o.buf
            /\ status' = IF o.result = "not_freed" THEN "not_freed" ELSE status
      /\ dtors' = Tail(dtors) /\ UNCHANGED passVars
      /\ latest' = latest /\ next' = next /\ rest' = rest
  BY DEF RunDestructor, Triggered
<1>2. /\ buf \in Bufs /\ latest \in Nat /\ next \in 1..(Len(prog) + 1)
      /\ dtors \in Seq({"device_free", "device_and_host_free"})
      /\ kind # "internal" => dtors = <<>>
  BY ExitFacts
<1>3. PassInv' /\ kind' = kind /\ prog' = prog /\ (Unbranched' <=> Unbranched)
  BY <1>1, KeepPass
<1>4. kind' = "internal"
  BY <1>1, <1>2, <1>3
<1>5. /\ buf' \in Bufs
      /\ status' = "not_freed" \/ (status' = status /\ buf'.dev = None)
  <2>1. PICK o \in Destroyed(buf, Head(dtors)) :
           /\ buf' = o.buf
           /\ status' = IF o.result = "not_freed" THEN "not_freed" ELSE status
    BY <1>1
  <2>2. o.buf \in Bufs /\ (o.result # "not_freed" => o.buf.dev = None)
    BY <1>2, <2>1, DestroyedFacts
  <2> QED BY <2>1, <2>2
<1>6. dtors' \in Seq({"device_free", "device_and_host_free"})
  BY <1>1, <1>2
<1>7. status' \in {"error", "run", "not_freed"}
  BY <1>1, <1>5 DEF Ending
<1>8. RunInv'
  <2>1. latest' \in Nat /\ next' \in 1..(Len(prog') + 1)
    BY <1>1, <1>2, <1>3
  <2>2. status' = "run" => Ended'
    BY <1>1, <1>3, <1>4, <1>5 DEF Ending, Ended
  <2> QED BY <1>5, <1>7, <2>1, <2>2 DEF RunInv
<1>9. ExitInv'
  BY <1>4, <1>5, <1>6, <1>7 DEF ExitInv, Exited
<1> QED BY <1>3, <1>8, <1>9 DEF IInv

\* The buffer of the caller can be read when the last stage is done.
LEMMA RestReadable ==
    ASSUME IInv, Ending, kind # "internal"
    PROVE  Readable(buf, latest)
<1>1. CASE status = "error"
  BY <1>1 DEF IInv, ExitInv
<1>2. CASE status = "run" /\ rest = <<>>
  <2>1. ~InStep
    <3>1. ASSUME InStep PROVE rest # <<>>
      <4>1. PICK m \in 1..Len(prog) : \E j \in DOMAIN prog[m] :
               /\ prog[m][j] \in Stages
               /\ InCode(info[m], prog[m][j], buf, latest, rest, dtors, Unbranched)
               /\ info[m] \in Infos
        BY <3>1, InStepFacts
      <4> QED BY <4>1, CodeHeads
    <3> QED BY <1>2, <3>1
  <2>2. Rested
    BY <1>2, <2>1 DEF IInv, RunInv, InFront, Ended
  <2> QED BY <2>2 DEF Rested, Fits, Good
<1> QED BY <1>1, <1>2 DEF Ending

\* The pipeline returns: no destructor waits, so no device memory is left.
LEMMA ExitIInv ==
    ASSUME IInv, Exit
    PROVE  IInv'
<1>1. /\ Ending /\ dtors = <<>> /\ dtors' = <<>> /\ UNCHANGED passVars
      /\ latest' = latest /\ next' = next /\ rest' = rest
      /\ status' \in {"failed", "ok"}
  BY DEF Exit, Triggered
<1>2. /\ buf \in Bufs /\ latest \in Nat /\ next \in 1..(Len(prog) + 1)
      /\ Unbranched /\ buf.dev # None => dtors # <<>>
  BY <1>1, ExitFacts DEF Ending
<1>3. PassInv' /\ kind' = kind /\ prog' = prog /\ (Unbranched' <=> Unbranched)
  BY <1>1, KeepPass
<1>4. buf' \in Bufs /\ buf'.dev = buf.dev
  BY <1>2, SetHost DEF Exit
<1>5. kind # "internal" => buf' = buf
  <2>1. Last(info) \in Infos
    BY LastInfo DEF IInv
  <2> QED BY <2>1, FrontHeads DEF Exit
<1>6. RunInv'
  <2>1. latest' \in Nat /\ next' \in 1..(Len(prog') + 1)
    BY <1>1, <1>2, <1>3
  <2> QED BY <1>1, <1>4, <2>1 DEF RunInv
<1>7. ExitInv'
  <2>1. kind' # "internal" => Readable(buf', latest')
    BY <1>1, <1>3, <1>5, RestReadable
  <2>2. Unbranched' => buf'.dev = None
    BY <1>1, <1>2, <1>3, <1>4
  <2>3. dtors' \in Seq({"device_free", "device_and_host_free"})
    BY <1>1
  <2> QED BY <1>1, <2>1, <2>2, <2>3 DEF ExitInv
<1> QED BY <1>3, <1>6, <1>7 DEF IInv

\* Nothing changes.
LEMMA StutterIInv ==
    ASSUME IInv, UNCHANGED vars
    PROVE  IInv'
<1>1. /\ UNCHANGED passVars /\ buf' = buf /\ latest' = latest /\ next' = next /\ rest' = rest
      /\ dtors' = dtors /\ status' = status
  BY DEF vars
<1>2. PassInv' /\ kind' = kind /\ prog' = prog /\ info' = info /\ (Unbranched' <=> Unbranched)
  BY <1>1, KeepPass
<1>3. InFront => InFront'
  BY <1>1, <1>2 DEF InFront
<1>4. Rested => Rested'
  BY <1>1, <1>2 DEF Rested
<1>5. InStep => InStep'
  BY <1>1, <1>2 DEF InStep, InCode, Covered
<1>6. Ended => Ended'
  BY <1>1, <1>2 DEF Ended
<1>7. RunInv'
  BY <1>1, <1>2, <1>3, <1>4, <1>5, <1>6 DEF IInv, RunInv
<1>8. ExitInv'
  BY <1>1, <1>2 DEF IInv, ExitInv, Exited
<1> QED BY <1>2, <1>7, <1>8 DEF IInv

-----------------------------------------------------------------------------
(***************************************************************************)
(* The theorems.  They say what the pass and the runtime do together for   *)
(* any devices, any program of any length and any calls that fail, as long *)
(* as an IfThenElse touches internal buffers only.  For the buffers of the *)
(* caller the merge after an IfThenElse has no BufferInfo to start from.   *)
(***************************************************************************)
\* Every step keeps the invariant.
LEMMA StepIInv ==
    ASSUME Branching \subseteq {"internal"}, IInv, [Next]_vars
    PROVE  IInv'
<1>1. CASE InjectStep
  BY <1>1, InjectStepIInv
<1>2. CASE Start
  BY <1>2, StartIInv
<1>3. CASE NextStep
  BY <1>3, NextStepIInv
<1>4. CASE RunHostMalloc
  BY <1>4, HostMallocIInv
<1>5. CASE RunMalloc
  BY <1>5, MallocIInv
<1>6. CASE RunMallocBoth
  BY <1>6, MallocBothIInv
<1>7. CASE RunCopyToHost
  BY <1>7, CopyToHostIInv
<1>8. CASE RunCopyToDevice
  BY <1>8, CopyToDeviceIInv
<1>9. CASE RunStage
  BY <1>9, StageIInv
<1>10. CASE SetDirty
  BY <1>10, SetDirtyIInv
<1>11. CASE RunDestructor
  BY <1>11, DestructorIInv
<1>12. CASE Exit
  BY <1>12, ExitIInv
<1>13. CASE UNCHANGED vars
  BY <1>13, StutterIInv
<1> QED BY <1>1, <1>2, <1>3, <1>4, <1>5, <1>6, <1>7, <1>8, <1>9, <1>10, <1>11, <1>12, <1>13
        DEF Next

\* The inductive invariant holds of every state that the pass and the pipeline
\* it has compiled reach: the dirty bits are never both set, what the pass takes
\* for current is, and every device allocation it has made for an internal
\* buffer has its destructor, until the process ends.
THEOREM CopyInjectionInvariant ==
    ASSUME Branching \subseteq {"internal"}
    PROVE  Spec => []IInv
<1>1. Init => IInv
  BY InitIInv
<1>2. IInv /\ [Next]_vars => IInv'
  BY StepIInv
<1> QED BY <1>1, <1>2, PTL DEF Spec

\* The invariant and the stage that is about to run.
LEMMA InvStages == IInv => StagesSeeLatest
<1> SUFFICES ASSUME IInv PROVE StagesSeeLatest
  OBVIOUS
<1>1. status # "abort"
  BY DEF IInv, RunInv
<1>2. ASSUME AtOp("stage")
      PROVE  IF Head(rest)[2].api = Host THEN buf.host /\ buf.hostData = latest
             ELSE buf.dev = Head(rest)[2].api /\ buf.devData = latest
  <2>1. InStep /\ Head(rest)[1] = "stage"
    BY <1>2, AtCall DEF AtOp
  <2>2. PICK m \in 1..Len(prog) : \E j \in DOMAIN prog[m] :
           /\ prog[m][j] \in Stages
           /\ InCode(info[m], prog[m][j], buf, latest, rest, dtors, Unbranched)
           /\ info[m] \in Infos /\ Consistent(info[m])
    BY <2>1, InStepFacts
  <2>3. PICK j \in DOMAIN prog[m] :
           /\ prog[m][j] \in Stages
           /\ InCode(info[m], prog[m][j], buf, latest, rest, dtors, Unbranched)
           /\ info[m] \in Infos /\ Consistent(info[m])
    BY <2>2
  <2>4. PICK i \in Infos : i = info[m]
    BY <2>3
  <2>5. PICK st \in Stages : st = prog[m][j]
    BY <2>3
  <2>6. PICK v \in Nat : v = latest
    BY ExitFacts
  <2>7. InCode(i, st, buf, v, rest, dtors, Unbranched)
    BY <2>3, <2>4, <2>5, <2>6
  <2>8. Consistent(i)
    BY <2>3, <2>4
  <2>9. IF st.api = Host THEN buf.host /\ buf.hostData = v
        ELSE buf.dev = st.api /\ buf.devData = v
    BY <2>1, <2>7, <2>8, CodeStage
  <2>10. Head(rest)[2] = st
    BY <2>1, <2>7, CodeHeads
  <2> QED BY <2>6, <2>9, <2>10
<1> QED BY <1>1, <1>2 DEF StagesSeeLatest

\* Whatever copies InjectHostDevBufferCopies leaves out, every stage that runs
\* finds the newest data in memory of its own side, and no copy runs into an
\* assertion of the runtime.  The assertion that freed memory is gone is the one a
\* run may end at, when the context of the device is lost.
THEOREM StagesSeeLatestTheorem ==
    ASSUME Branching \subseteq {"internal"}
    PROVE  Spec => []StagesSeeLatest
  BY CopyInjectionInvariant, InvStages, PTL

\* A caller that gets its buffer back, after a success or after an error of any
\* call, finds dirty bits that name the side with the newest data.
THEOREM CallerCanReadTheorem ==
    ASSUME Branching \subseteq {"internal"}
    PROVE  Spec => []CallerCanRead
<1>1. IInv => CallerCanRead
  <2> SUFFICES ASSUME IInv, Exited, kind # "internal" PROVE Readable(buf, latest)
    BY DEF CallerCanRead, Readable
  <2> QED BY DEF IInv, ExitInv, Exited
<1> QED BY <1>1, CopyInjectionInvariant, PTL

\* The destructors that the code registers free the device memory of an internal
\* buffer on every way out of a program without IfThenElse.
THEOREM NoDeviceLeakTheorem ==
    ASSUME Branching \subseteq {"internal"}
    PROVE  Spec => []NoDeviceLeak
<1>1. IInv => NoDeviceLeak
  <2> SUFFICES ASSUME IInv, Exited, kind = "internal", Branches = {} PROVE buf.dev = None
    BY DEF NoDeviceLeak
  <2> QED BY DEF IInv, ExitInv, Unbranched, Exited
<1> QED BY <1>1, CopyInjectionInvariant, PTL

=============================================================================
