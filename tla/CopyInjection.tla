--------------------------- MODULE CopyInjection ----------------------------
(***************************************************************************)
(* The compiler pass src/InjectHostDevBufferCopies.cpp composed with the   *)
(* runtime calls it inserts (DeviceInterface): for one buffer and a small  *)
(* program, the pass decides where to allocate and copy, and then the code *)
(* it has produced runs.                                                   *)
(*                                                                         *)
(* A program is a sequence of steps at the loop level of the buffer, where *)
(* all its copies happen.  A step is a stage, on the host or a device,     *)
(* that reads or writes the buffer, or an IfThenElse of two stages either  *)
(* of which may leave the buffer alone.                                    *)
(***************************************************************************)
EXTENDS DeviceInterface, FiniteSets, SequencesExt

CONSTANTS
    Kinds,              \* buffers to look at, out of BufferKinds
    MaxSteps,           \* bound: length of the program
    MaxBranches,        \* bound: IfThenElse steps in it
    Branching           \* the kinds of buffers that an IfThenElse may touch

BufferKinds == {"internal", "input", "output"}
Host == "host"

ASSUME InjectionAssumption ==
    /\ Kinds \subseteq BufferKinds /\ Branching \subseteq Kinds
    /\ MaxSteps \in Nat
    /\ MaxBranches \in Nat
    /\ Host \notin Devices

Skip == [api |-> Host, reads |-> FALSE, writes |-> FALSE]
Stages == {s \in [api : Devices \cup {Host}, reads : BOOLEAN, writes : BOOLEAN] :
             s.reads \/ s.writes}

\* The alternatives of a step: one for a stage, two for an IfThenElse.
Plain == {<<s>> : s \in Stages}
IfThenElse == (Stages \cup {Skip}) \X (Stages \cup {Skip})

-----------------------------------------------------------------------------
(***************************************************************************)
(* The pass.  Operators named Bad... are not part of the model: each is    *)
(* the operator after it with a plausible mistake, used to test that the   *)
(* properties notice the mistake.                                          *)
(***************************************************************************)
\* known tells whether the pass has an entry for the buffer; a buffer from outside
\* gets one at its first use.
BufferInfo ==
    [known |-> FALSE, host_touched |-> FALSE, dev_touched |-> FALSE,
     host_current |-> FALSE, dev_current |-> FALSE, internal |-> FALSE,
     dev_allocated |-> TRUE, device_first_touched |-> None, current_device |-> Host]

InfoBefore(k) ==
    IF k = "internal"
    THEN [BufferInfo EXCEPT !.known = TRUE, !.internal = TRUE, !.dev_allocated = FALSE]
    ELSE BufferInfo

WithTouch(info, st) ==
    LET onDevice == st.api # Host
    IN  [info EXCEPT
            !.known = TRUE,
            !.host_touched = @ \/ ~onDevice,
            !.dev_touched = @ \/ onDevice,
            !.device_first_touched = IF onDevice /\ ~info.dev_touched THEN st.api ELSE @]

NeedsHostCopy(i, st) ==
    st.api = Host /\ ~i.host_current /\ (~i.internal \/ i.dev_touched)

NeedsDeviceCopy(i, st) ==
    /\ st.api # Host
    /\ \/ ~i.dev_current \/ i.current_device # st.api
       \/ ~i.internal \/ i.host_touched

\* A buffer that moves from one device to another needs host memory.
HostTouched(i, st) == i.host_touched \/ i.current_device # st.api

CurrentAfter(i, st) ==
    CASE NeedsHostCopy(i, st) ->
            [i EXCEPT !.host_current = TRUE, !.dev_current = @ /\ ~st.writes]
      [] NeedsDeviceCopy(i, st) ->
            [i EXCEPT !.host_touched = HostTouched(i, st),
                      !.dev_current = TRUE, !.current_device = st.api,
                      !.host_current = @ /\ ~st.writes]
      [] OTHER ->
            [i EXCEPT !.dev_current = @ /\ (st.api # Host \/ ~st.writes),
                      !.host_current = @ /\ (st.api = Host \/ ~st.writes)]

NeedsMalloc(i) == ~i.dev_allocated /\ i.device_first_touched # None

\* do_copies around a stage: the BufferInfo after it, and the code.
Maybe(condition, op) == IF condition THEN <<op>> ELSE <<>>
DirtyOp(st) == IF st.api = Host THEN <<"set_host_dirty">> ELSE <<"set_dev_dirty">>

do_copies(info, st) ==
    IF st = Skip THEN [info |-> info, code |-> <<>>]
    ELSE LET i == WithTouch(info, st)
             j == CurrentAfter(i, st)
         IN  [info |-> [j EXCEPT !.dev_allocated = @ \/ NeedsMalloc(j)],
              code |-> Maybe(NeedsMalloc(j), <<"malloc", j.device_first_touched>>)
                       \o (Maybe(NeedsHostCopy(i, st), <<"to_host">>)
                       \o (Maybe(NeedsDeviceCopy(i, st), <<"to_device", st.api>>)
                       \o (<< <<"stage", st>> >>
                       \o Maybe(st.writes, DirtyOp(st)))))]

\* The fields that the merge after an IfThenElse does not set are those of a new
\* BufferInfo.  A buffer with an entry in the else case only keeps that entry.
BadMerged(t, e) == t
Merged(t, e) ==
    IF ~t.known THEN e
    ELSE [BufferInfo EXCEPT
             !.known = TRUE,
             !.host_touched = t.host_touched \/ e.host_touched,
             !.dev_touched = t.dev_touched \/ e.dev_touched,
             !.host_current = t.host_current /\ e.host_current,
             !.dev_current = /\ t.dev_current /\ e.dev_current
                             /\ t.current_device = e.current_device,
             !.device_first_touched =
                 IF t.device_first_touched = e.device_first_touched
                 THEN t.device_first_touched ELSE None]

\* The BufferInfo after a step of the program.
InfoAfter(info, step) ==
    IF Len(step) = 1 THEN do_copies(info, step[1]).info
    ELSE Merged(do_copies(info, step[1]).info, do_copies(info, step[2]).info)

\* What goes in front: the allocation of an internal buffer; for an output
\* touched on a device, a copy that gets it there.  on_single_device holds
\* exactly when one device was the first to touch the buffer.
Prologue(k, i) ==
    IF k = "internal"
    THEN IF ~i.host_touched THEN <<>>
         ELSE IF i.dev_touched /\ i.device_first_touched # None
         THEN << <<"malloc_both", i.device_first_touched>> >>
         ELSE << <<"host_malloc">> >>
    ELSE IF k = "output" /\ i.dev_touched /\ i.current_device # Host
    THEN << <<"to_device", i.current_device>> >>
    ELSE <<>>

-----------------------------------------------------------------------------
VARIABLES
    kind, prog,         \* the buffer, and the program as far as the pass has seen it
    info,               \* the BufferInfo before each step of prog, and the one after it
    buf,
    latest,             \* the version of the data last written
    next,               \* the next step of prog to run
    rest,               \* what remains to do of the code of the current step
    dtors,              \* the destructors registered, the newest first
    status              \* "pass", "run", "ok", "error", "failed", "abort", "not_freed"

passVars == <<kind, prog, info>>
vars == <<passVars, buf, latest, next, rest, dtors, status>>

Init ==
    /\ kind \in Kinds
    /\ prog = <<>>
    /\ info = <<InfoBefore(kind)>>
    /\ buf = NewBuffer(FALSE)
    /\ latest = 0
    /\ next = 1
    /\ rest = <<>>
    /\ dtors = <<>>
    /\ status = "pass"

Branches == {n \in DOMAIN prog : Len(prog[n]) = 2}
MayBranch == kind \in Branching /\ Cardinality(Branches) < MaxBranches

\* The pass comes to the next step of the program.
InjectStep ==
    /\ status = "pass" /\ Len(prog) < MaxSteps
    /\ \E step \in Plain \cup (IF MayBranch THEN IfThenElse ELSE {}) :
          /\ prog' = Append(prog, step)
          /\ info' = Append(info, InfoAfter(Last(info), step))
    /\ UNCHANGED <<kind, buf, latest, next, rest, dtors, status>>

\* A buffer the caller passes in keeps the protocol of the dirty bits.
Coherent(b, v) ==
    /\ b.host
    /\ ~(b.host_dirty /\ b.dev_dirty)
    /\ b.hostData = IF b.dev_dirty THEN 0 ELSE v
    /\ b.devData = IF b.host_dirty THEN 0 ELSE v
    /\ b.dev = None => b.host_dirty

\* The pass is done, and the pipeline is called.
Start ==
    /\ status = "pass" /\ prog # <<>>
    /\ status' = "run"
    /\ rest' = Prologue(kind, Last(info))
    /\ \/ kind = "internal" /\ UNCHANGED <<buf, latest>>
       \/ kind # "internal" /\ latest' = 0 /\ buf' = NewBuffer(TRUE)
       \/ kind # "internal" /\ latest' = 1 /\ buf' \in {b \in Buffers({0, 1}) : Coherent(b, 1)}
    /\ UNCHANGED <<passVars, next, dtors>>

NextStep ==
    /\ status = "run" /\ rest = <<>> /\ next <= Len(prog)
    /\ \E j \in DOMAIN prog[next] : rest' = do_copies(info[next], prog[next][j]).code
    /\ next' = next + 1
    /\ UNCHANGED <<passVars, buf, latest, dtors, status>>

AtOp(op) == status = "run" /\ rest # <<>> /\ Head(rest)[1] = op

\* A call is made and its result asserted to be 0.
CallRuntime(outcomes) ==
    /\ \E o \in outcomes :
          /\ buf' = o.buf
          /\ status' = IF o.result = "ok" THEN "run" ELSE o.result
    /\ rest' = Tail(rest)
    /\ UNCHANGED <<passVars, latest, next>>

RunHostMalloc ==
    /\ AtOp("host_malloc")
    /\ CallRuntime({Outcome("ok", NewBuffer(TRUE))} \cup Fails("host_malloc", buf))
    /\ UNCHANGED dtors

\* The destructor is registered once the allocation has succeeded.
Registered(d) == IF status' = "run" THEN <<d>> \o dtors ELSE dtors

RunMalloc ==
    /\ AtOp("malloc")
    /\ CallRuntime(halide_device_malloc(buf, Head(rest)[2]))
    /\ dtors' = Registered("device_free")

RunMallocBoth ==
    /\ AtOp("malloc_both")
    /\ CallRuntime(halide_device_and_host_malloc(buf, Head(rest)[2]))
    /\ dtors' = Registered("device_and_host_free")

RunCopyToHost ==
    /\ AtOp("to_host")
    /\ CallRuntime(halide_copy_to_host(buf))
    /\ UNCHANGED dtors

RunCopyToDevice ==
    /\ AtOp("to_device")
    /\ CallRuntime(halide_copy_to_device(buf, Head(rest)[2]))
    /\ UNCHANGED dtors

RunStage ==
    /\ AtOp("stage")
    /\ LET st == Head(rest)[2]
       IN  IF ~st.writes THEN UNCHANGED <<buf, latest>>
           ELSE /\ latest' = latest + 1
                /\ buf' = IF st.api = Host THEN [buf EXCEPT !.hostData = latest + 1]
                          ELSE [buf EXCEPT !.devData = latest + 1]
    /\ rest' = Tail(rest)
    /\ UNCHANGED <<passVars, next, dtors, status>>

BadDirtyBit(op, b) == IF op = "set_host_dirty" THEN [b EXCEPT !.host_dirty = TRUE] ELSE b
DirtyBit(op, b) ==
    IF op = "set_host_dirty" THEN [b EXCEPT !.host_dirty = TRUE]
    ELSE [b EXCEPT !.dev_dirty = TRUE]

SetDirty ==
    /\ \E op \in {"set_host_dirty", "set_dev_dirty"} :
          AtOp(op) /\ buf' = DirtyBit(op, buf)
    /\ rest' = Tail(rest)
    /\ UNCHANGED <<passVars, latest, next, dtors, status>>

\* At the end, and on an error, the destructors run; their errors are ignored.
\* register_destructor of CodeGen_LLVM.cpp puts every new one in front of the
\* others.
Ending == status = "error" \/ (status = "run" /\ rest = <<>> /\ next > Len(prog))

BadTriggered == IF status = "error" THEN dtors ELSE <<>>
Triggered == dtors

Destroyed(b, d) ==
    IF d = "device_free" THEN halide_device_free(b) ELSE halide_device_and_host_free(b)

RunDestructor ==
    /\ Ending /\ Triggered # <<>>
    /\ \E o \in Destroyed(buf, Head(Triggered)) :
          /\ buf' = o.buf
          /\ status' = IF o.result = "not_freed" THEN "not_freed" ELSE status
    /\ dtors' = Tail(Triggered)
    /\ UNCHANGED <<passVars, latest, next, rest>>

\* The host memory of an Allocate was there before the destructors, and goes last.
Exit ==
    /\ Ending /\ Triggered = <<>>
    /\ buf' = IF Prologue(kind, Last(info)) = << <<"host_malloc">> >>
              THEN [buf EXCEPT !.host = FALSE] ELSE buf
    /\ dtors' = <<>>
    /\ status' = IF status = "error" THEN "failed" ELSE "ok"
    /\ UNCHANGED <<passVars, latest, next, rest>>

Next ==
    \/ InjectStep \/ Start \/ NextStep
    \/ RunHostMalloc \/ RunMalloc \/ RunMallocBoth \/ RunCopyToHost \/ RunCopyToDevice
    \/ RunStage \/ SetDirty \/ RunDestructor \/ Exit

Spec == Init /\ [][Next]_vars

-----------------------------------------------------------------------------
Exited == status \in {"ok", "failed"}

\* Every stage finds the newest data, in memory that exists where it runs: the
\* copies that the pass leaves out were not needed.  On the way there no copy
\* runs into an assertion of the runtime or of a backend, as it would without
\* host memory or with both dirty bits set.  The one assertion that a run may
\* end at is that halide_device_free has freed the memory, which fails when the
\* context of the device is lost.
StagesSeeLatest ==
    /\ AtOp("stage") =>
          LET st == Head(rest)[2]
          IN  IF st.api = Host THEN buf.host /\ buf.hostData = latest
              ELSE buf.dev = st.api /\ buf.devData = latest
    /\ status # "abort"

\* When the pipeline returns, with or without an error, the dirty bits of a
\* buffer of the caller say correctly which side has the newest data.
CallerCanRead ==
    Exited /\ kind # "internal" =>
        /\ ~(buf.host_dirty /\ buf.dev_dirty)
        /\ buf.dev_dirty => buf.dev # None /\ buf.devData = latest
        /\ ~buf.dev_dirty => buf.hostData = latest

\* The device memory of an internal buffer is freed on every way out.  This is
\* said of programs without IfThenElse: the merge after one sets dev_allocated,
\* and what halide_copy_to_device allocates then has no destructor.
NoDeviceLeak ==
    /\ Exited
    /\ kind = "internal"
    /\ Branches = {}
    => buf.dev = None
=============================================================================
