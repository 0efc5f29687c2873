-------------------------- MODULE DeviceInterface ---------------------------
(***************************************************************************)
(* The calls of src/runtime/device_interface.cpp on one buffer_t, as       *)
(* operators from the state of the buffer to the set of its outcomes.  An  *)
(* outcome is what the call returns and the buffer after it.               *)
(*                                                                         *)
(* The contents of a piece of memory are the version of the data they      *)
(* hold, 0 for memory whose contents are not defined: fresh memory, and    *)
(* the target of a copy that failed half-way.  A device is its             *)
(* halide_device_interface; the functions behind it (cuda.cpp, opencl.cpp, *)
(* metal.cpp, ...) belong to the backends and are modelled by what         *)
(* device_interface.cpp expects of them.                                   *)
(***************************************************************************)
EXTENDS Integers

CONSTANTS
    Devices,
    MayFail             \* operations that may fail, out of Operations

None == "none"          \* the NULL device_interface and a dev field of 0
Operations == {"host_malloc", "malloc", "context", "free", "to_host", "to_device"}

ASSUME DeviceAssumption == None \notin Devices /\ MayFail \subseteq Operations

\* What a call returns: 0, an error code, or not at all after halide_assert, which
\* ends the process.  The assertion that freed memory is gone has a result of its
\* own, "not_freed".
Results == {"ok", "error", "abort", "not_freed"}

\* host tells whether there is host memory.
Buffers(Version) ==
    [host : BOOLEAN, dev : Devices \cup {None}, host_dirty : BOOLEAN, dev_dirty : BOOLEAN,
     hostData : Version, devData : Version]

NewBuffer(has_host) ==
    [host |-> has_host, dev |-> None, host_dirty |-> FALSE, dev_dirty |-> FALSE,
     hostData |-> 0, devData |-> 0]

Outcome(r, b) == [result |-> r, buf |-> b]
Fails(op, b) == IF op \in MayFail THEN {Outcome("error", b)} ELSE {}

\* Continue with Then from every outcome that is a success.
AndThen(outcomes, Then(_)) ==
    {o \in outcomes : o.result # "ok"}
    \cup UNION {Then(o.buf) : o \in {p \in outcomes : p.result = "ok"}}

-----------------------------------------------------------------------------
(***************************************************************************)
(* The functions of a backend, through the halide_device_interface.        *)
(***************************************************************************)
interface_device_malloc(b, i) ==
    IF b.dev = i THEN {Outcome("ok", b)}
    ELSE {Outcome("ok", [b EXCEPT !.dev = i, !.devData = 0])} \cup Fails("malloc", b)

\* When the memory cannot be freed the reference is dropped all the same, but
\* not when the context of the device cannot be acquired.
interface_device_free(b) ==
    LET freed == [b EXCEPT !.dev = None, !.devData = 0]
    IN  {Outcome("ok", freed)} \cup Fails("free", freed) \cup Fails("context", b)

\* A copy needs memory on both sides: the backends assert it, or fault without.
interface_copy_to_host(b) ==
    IF ~b.host \/ b.dev = None THEN {Outcome("abort", b)} ELSE
    {Outcome("ok", [b EXCEPT !.hostData = b.devData])}
    \cup Fails("to_host", [b EXCEPT !.hostData = 0])

interface_copy_to_device(b) ==
    IF ~b.host \/ b.dev = None THEN {Outcome("abort", b)} ELSE
    {Outcome("ok", [b EXCEPT !.devData = b.hostData])}
    \cup Fails("to_device", [b EXCEPT !.devData = 0])

-----------------------------------------------------------------------------
(***************************************************************************)
(* Operators named Bad... are not part of the model: each is the operator  *)
(* after it with a plausible mistake, used to test that the properties     *)
(* notice the mistake.                                                     *)
(***************************************************************************)
BadCopiedToHost(b) == b
CopiedToHost(b) == [b EXCEPT !.dev_dirty = FALSE]

halide_copy_to_host(b) ==
    IF ~b.dev_dirty THEN {Outcome("ok", b)}
    ELSE IF b.host_dirty \/ b.dev = None THEN {Outcome("error", b)}
    ELSE AndThen(interface_copy_to_host(b), LAMBDA c : {Outcome("ok", CopiedToHost(c))})

halide_device_malloc(b, i) ==
    IF b.dev \notin {None, i} THEN {Outcome("error", b)}
    ELSE interface_device_malloc(b, i)

\* halide_assert(user_context, buf->dev == 0), before the result is looked at.
AssertFreed(o) == IF o.buf.dev = None THEN o ELSE Outcome("not_freed", o.buf)

\* The device dirty bit is cleared only if there is nothing to free.
halide_device_free(b) ==
    IF b.dev # None THEN {AssertFreed(o) : o \in interface_device_free(b)}
    ELSE {Outcome("ok", [b EXCEPT !.dev_dirty = FALSE])}

BadFlipDirty(b) == b
FlipDirty(b) == [b EXCEPT !.host_dirty = TRUE]

\* The buffer lives on another device: bring its data to the host, if only the
\* device has them, and free the device memory.
Flip(b) ==
    IF b.dev_dirty /\ b.host_dirty THEN {Outcome("abort", b)}
    ELSE AndThen(halide_copy_to_host(b), LAMBDA c :
         AndThen(halide_device_free(c), LAMBDA d : {Outcome("ok", FlipDirty(d))}))

NeedsUpload(b) == b.host_dirty

\* If both sides are dirty the code notes an error, and returns 0.
Upload(b) ==
    IF ~NeedsUpload(b) \/ b.dev_dirty THEN {Outcome("ok", b)}
    ELSE AndThen(interface_copy_to_device(b), LAMBDA c :
                 {Outcome("ok", [c EXCEPT !.host_dirty = FALSE])})

halide_copy_to_device(b, device_interface) ==
    LET i == IF device_interface = None THEN b.dev ELSE device_interface
    IN  IF i = None THEN {Outcome("error", b)}
        ELSE AndThen(IF b.dev \in {None, i} THEN {Outcome("ok", b)} ELSE Flip(b), LAMBDA c :
             AndThen(IF c.dev = None THEN halide_device_malloc(c, i)
                     ELSE {Outcome("ok", c)}, LAMBDA d : Upload(d)))

-----------------------------------------------------------------------------
(***************************************************************************)
(* Host and device memory together, by the default implementation.         *)
(***************************************************************************)
WithoutHost(o) == [o EXCEPT !.buf.host = FALSE]

halide_device_and_host_malloc(b, i) ==
    IF b.dev \notin {None, i} THEN {Outcome("error", b)}
    ELSE Fails("host_malloc", [b EXCEPT !.host = FALSE])
         \cup {IF o.result = "ok" THEN o ELSE WithoutHost(o) :
                 o \in halide_device_malloc([b EXCEPT !.host = TRUE, !.hostData = 0], i)}

BothFreed(o) ==
    IF o.result = "not_freed" THEN o
    ELSE Outcome(o.result, [o.buf EXCEPT !.host = FALSE, !.hostData = 0,
                                         !.host_dirty = FALSE, !.dev_dirty = FALSE])

\* Without device memory only the dirty bit is cleared.
halide_device_and_host_free(b) ==
    IF b.dev = None THEN {Outcome("ok", [b EXCEPT !.dev_dirty = FALSE])}
    ELSE {AssertFreed(BothFreed(o)) : o \in halide_device_free(b)}
=============================================================================
