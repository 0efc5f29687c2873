------------------------- MODULE DeviceBufferProofs -------------------------
(***************************************************************************)
(* For any number of threads, devices and versions of the data, and any    *)
(* failures but that of freeing device memory, nobody reads old data from  *)
(* a buffer_t and none are lost.  A lost device context may keep memory    *)
(* from being freed, which ends the process.                               *)
(***************************************************************************)
EXTENDS DeviceBuffer, TLAPS

-----------------------------------------------------------------------------
\* Version v of the data is where the dirty bits say it is.
Holds(b, v) ==
    /\ b \in Buffers(0..MaxVersion)
    /\ b.host
    /\ ~(b.host_dirty /\ b.dev_dirty)
    /\ b.dev_dirty => b.dev # None /\ b.devData = v
    /\ ~b.dev_dirty => b.hostData = v
    /\ ~b.host_dirty /\ ~b.dev_dirty /\ b.dev # None => b.devData = v
    /\ ~b.host_dirty /\ b.dev = None => v = 0

\* What is left of version v when the application has freed device memory.
Remains(b, v, l) ==
    /\ b \in Buffers(0..MaxVersion)
    /\ b.host
    /\ ~b.host_dirty
    /\ l = "host" => ~b.dev_dirty /\ b.hostData = v

Contents(b, v, l) == IF l = "all" THEN Holds(b, v) ELSE Remains(b, v, l)

Writing == {"write_host", "launch_write", "kernel_write"}

\* A thread that writes, or will, is the only one that uses the buffer, and
\* the pipelines that use it at the same time do so on the same device.
Exclusive ==
    \A t, u \in Threads : t # u =>
        /\ pc[t] \in Writing => pc[u] = "idle"
        /\ Active(t) /\ Active(u) => at[t] = at[u]

\* What a successful copy has established lasts as long as it is needed.
OnHost == \A t \in Threads : pc[t] \in {"read_host", "write_host"} => ~buf.dev_dirty
OnDevice(b) ==
    \A t \in Threads : pc[t] \in {"kernel", "kernel_write"} =>
        ~b.host_dirty /\ b.dev # None /\ at[t] \in {b.dev, None}

\* Without all the data nobody reads those that are missing, and there is device
\* memory only while it is being written.
Thrown ==
    left # "all" =>
        /\ \A t \in Threads : pc[t] \notin {"launch", "kernel"}
        /\ left = "none" => \A t \in Threads : pc[t] # "read_host"
        /\ buf.dev # None => \E t \in Threads : pc[t] \in {"kernel_write", "abort"}

IInv ==
    /\ TypeOK
    /\ Contents(buf, latest, left)
    /\ Exclusive
    /\ OnHost
    /\ OnDevice(buf)
    /\ Thrown

-----------------------------------------------------------------------------
LEMMA OutcomeFields ==
    \A r, b : Outcome(r, b).result = r /\ Outcome(r, b).buf = b
BY DEF Outcome

\* What an assignment to a field of a buffer_t changes, and what not.
LEMMA SetHostData ==
    ASSUME NEW b \in Buffers(0..MaxVersion), NEW x \in 0..MaxVersion
    PROVE  LET c == [b EXCEPT !.hostData = x]
           IN  /\ c \in Buffers(0..MaxVersion)
               /\ c.hostData = x /\ c.devData = b.devData
               /\ c.host = b.host /\ c.dev = b.dev
               /\ (c.host_dirty <=> b.host_dirty) /\ (c.dev_dirty <=> b.dev_dirty)
BY DEF Buffers

LEMMA SetDevData ==
    ASSUME NEW b \in Buffers(0..MaxVersion), NEW x \in 0..MaxVersion
    PROVE  LET c == [b EXCEPT !.devData = x]
           IN  /\ c \in Buffers(0..MaxVersion)
               /\ c.hostData = b.hostData /\ c.devData = x
               /\ c.host = b.host /\ c.dev = b.dev
               /\ (c.host_dirty <=> b.host_dirty) /\ (c.dev_dirty <=> b.dev_dirty)
BY DEF Buffers

LEMMA SetDev ==
    ASSUME NEW b \in Buffers(0..MaxVersion), NEW x \in 0..MaxVersion, NEW i \in Devices \cup {None}
    PROVE  LET c == [b EXCEPT !.dev = i, !.devData = x]
           IN  /\ c \in Buffers(0..MaxVersion)
               /\ c.hostData = b.hostData /\ c.devData = x
               /\ c.host = b.host /\ c.dev = i
               /\ (c.host_dirty <=> b.host_dirty) /\ (c.dev_dirty <=> b.dev_dirty)
BY DEF Buffers

LEMMA NewDev ==
    ASSUME NEW b \in Buffers(0..MaxVersion), NEW i \in Devices \cup {None}
    PROVE  LET c == [b EXCEPT !.dev = i, !.devData = 0]
           IN  /\ c \in Buffers(0..MaxVersion)
               /\ c.hostData = b.hostData /\ c.devData = 0
               /\ c.host = b.host /\ c.dev = i
               /\ (c.host_dirty <=> b.host_dirty) /\ (c.dev_dirty <=> b.dev_dirty)
<1>1. 0 \in 0..MaxVersion
    BY BufferAssumption
<1> QED
    BY <1>1, SetDev

LEMMA DropDev ==
    ASSUME NEW b \in Buffers(0..MaxVersion)
    PROVE  LET c == [b EXCEPT !.dev = None, !.devData = 0]
           IN  /\ c \in Buffers(0..MaxVersion)
               /\ c.hostData = b.hostData /\ c.devData = 0
               /\ c.host = b.host /\ c.dev = None
               /\ (c.host_dirty <=> b.host_dirty) /\ (c.dev_dirty <=> b.dev_dirty)
<1>1. 0 \in 0..MaxVersion
    BY BufferAssumption
<1>2. \E i \in Devices \cup {None} : i = None
    OBVIOUS
<1>3. PICK i \in Devices \cup {None} : i = None
    BY <1>2
<1> DEFINE c == [b EXCEPT !.dev = i, !.devData = 0]
<1>4. /\ c \in Buffers(0..MaxVersion)
      /\ c.hostData = b.hostData /\ c.devData = 0
      /\ c.host = b.host /\ c.dev = i
      /\ (c.host_dirty <=> b.host_dirty) /\ (c.dev_dirty <=> b.dev_dirty)
    BY <1>1, SetDev
<1>5. c = [b EXCEPT !.dev = None, !.devData = 0]
    BY <1>3
<1> HIDE DEF c
<1> QED
    BY <1>3, <1>4, <1>5

LEMMA MarkedHost ==
    ASSUME NEW b \in Buffers(0..MaxVersion)
    PROVE  LET c == [b EXCEPT !.host_dirty = TRUE]
           IN  /\ c \in Buffers(0..MaxVersion)
               /\ c.hostData = b.hostData /\ c.devData = b.devData
               /\ c.host = b.host /\ c.dev = b.dev
               /\ c.host_dirty /\ (c.dev_dirty <=> b.dev_dirty)
BY DEF Buffers

LEMMA MarkedDev ==
    ASSUME NEW b \in Buffers(0..MaxVersion)
    PROVE  LET c == [b EXCEPT !.dev_dirty = TRUE]
           IN  /\ c \in Buffers(0..MaxVersion)
               /\ c.hostData = b.hostData /\ c.devData = b.devData
               /\ c.host = b.host /\ c.dev = b.dev
               /\ (c.host_dirty <=> b.host_dirty) /\ c.dev_dirty
BY DEF Buffers

LEMMA ClearHost ==
    ASSUME NEW b \in Buffers(0..MaxVersion)
    PROVE  LET c == [b EXCEPT !.host_dirty = FALSE]
           IN  /\ c \in Buffers(0..MaxVersion)
               /\ c.hostData = b.hostData /\ c.devData = b.devData
               /\ c.host = b.host /\ c.dev = b.dev
               /\ ~c.host_dirty /\ (c.dev_dirty <=> b.dev_dirty)
BY DEF Buffers

LEMMA ClearDev ==
    ASSUME NEW b \in Buffers(0..MaxVersion)
    PROVE  LET c == [b EXCEPT !.dev_dirty = FALSE]
           IN  /\ c \in Buffers(0..MaxVersion)
               /\ c.hostData = b.hostData /\ c.devData = b.devData
               /\ c.host = b.host /\ c.dev = b.dev
               /\ (c.host_dirty <=> b.host_dirty) /\ ~c.dev_dirty
BY DEF Buffers

-----------------------------------------------------------------------------
LEMMA CopyToHostOutcomes ==
    ASSUME NEW v \in 0..MaxVersion, NEW b, Holds(b, v), NEW o \in halide_copy_to_host(b)
    PROVE  /\ Holds(o.buf, v)
           /\ o.result \in {"ok", "error"}
           /\ o.result = "ok" => ~o.buf.dev_dirty
           /\ o.buf.dev = b.dev /\ (o.buf.host_dirty <=> b.host_dirty)
           /\ ~b.dev_dirty => o.buf = b
<1> USE BufferAssumption, OutcomeFields
<1>1. CASE ~b.dev_dirty
    <2>1. o = Outcome("ok", b)
        BY <1>1 DEF halide_copy_to_host
    <2>2. o.buf = b /\ o.result = "ok"
        BY <2>1
    <2> QED
        BY <1>1, <2>2
<1>2. CASE b.dev_dirty
    <2> DEFINE copied == [b EXCEPT !.hostData = b.devData]
               clean == CopiedToHost(copied)
               broken == [b EXCEPT !.hostData = 0]
    <2>1. /\ b.host /\ b.dev # None /\ ~b.host_dirty /\ b.devData = v
          /\ b \in Buffers(0..MaxVersion) /\ 0 \in 0..MaxVersion
        BY <1>2 DEF Holds
    <2>2. Holds(clean, v) /\ ~clean.dev_dirty /\ clean.dev = b.dev /\ (clean.host_dirty <=> b.host_dirty)
        <3>1. /\ copied \in Buffers(0..MaxVersion)
              /\ copied.hostData = v /\ copied.devData = v
              /\ copied.host /\ copied.dev = b.dev
              /\ (copied.host_dirty <=> b.host_dirty)
            BY <2>1, SetHostData
        <3> HIDE DEF copied
        <3>2. /\ clean \in Buffers(0..MaxVersion)
              /\ clean.hostData = v /\ clean.devData = v
              /\ clean.host /\ clean.dev = b.dev
              /\ (clean.host_dirty <=> b.host_dirty) /\ ~clean.dev_dirty
            BY <3>1, ClearDev DEF CopiedToHost
        <3> HIDE DEF clean
        <3> QED
            BY <2>1, <3>2 DEF Holds
    <2>3. Holds(broken, v) /\ broken.dev = b.dev /\ (broken.host_dirty <=> b.host_dirty)
        BY <1>2, <2>1, SetHostData DEF Holds
    <2>4. interface_copy_to_host(b) \subseteq {Outcome("ok", copied), Outcome("error", broken)}
        BY <2>1 DEF interface_copy_to_host, Fails
    <2>5. o \in AndThen(interface_copy_to_host(b), LAMBDA c : {Outcome("ok", CopiedToHost(c))})
        BY <1>2, <2>1 DEF halide_copy_to_host
    <2> HIDE DEF copied, broken
    <2>6. o \in {Outcome("ok", clean), Outcome("error", broken)}
        BY <2>4, <2>5 DEF AndThen
    <2> HIDE DEF clean
    <2> QED
        BY <1>2, <2>2, <2>3, <2>6
<1> QED
    BY <1>1, <1>2

\* The memory is freed, or the process ends, or there is nothing to free.
LEMMA FreeCases ==
    ASSUME "free" \notin MayFail, NEW b \in Buffers(0..MaxVersion), NEW o \in halide_device_free(b)
    PROVE  \/ b.dev # None /\ o = Outcome("ok", [b EXCEPT !.dev = None, !.devData = 0])
           \/ b.dev # None /\ o = Outcome("not_freed", b)
           \/ b.dev = None /\ o = Outcome("ok", [b EXCEPT !.dev_dirty = FALSE])
<1> DEFINE freed == [b EXCEPT !.dev = None, !.devData = 0]
<1>1. CASE b.dev = None
    BY <1>1 DEF halide_device_free
<1>2. CASE b.dev # None
    <2>1. PICK p \in interface_device_free(b) : o = AssertFreed(p)
        BY <1>2 DEF halide_device_free
    <2>2. p = Outcome("ok", freed) \/ p = Outcome("error", b)
        BY <2>1 DEF interface_device_free, Fails
    <2>3. freed.dev = None
        BY BufferAssumption, DropDev
    <2> HIDE DEF freed
    <2>4. CASE p = Outcome("ok", freed)
        <3>1. p.buf.dev = None
            BY <2>3, <2>4, OutcomeFields
        <3>2. o = Outcome("ok", freed)
            BY <2>1, <2>4, <3>1 DEF AssertFreed
        <3> QED
            BY <1>2, <3>2 DEF freed
    <2>5. CASE p = Outcome("error", b)
        <3>1. p.buf = b
            BY <2>5, OutcomeFields
        <3> QED
            BY <1>2, <2>1, <3>1 DEF AssertFreed
    <2> QED
        BY <2>2, <2>4, <2>5
<1> QED
    BY <1>1, <1>2

\* Device memory is freed that has nothing new, and the host side marked.
LEMMA FreeOutcomes ==
    ASSUME "free" \notin MayFail,
           NEW v \in 0..MaxVersion, NEW b, Holds(b, v), ~b.dev_dirty,
           NEW o \in halide_device_free(b)
    PROVE  \/ o.result = "not_freed" /\ o.buf = b
           \/ /\ o.result = "ok"
              /\ Holds(FlipDirty(o.buf), v)
              /\ FlipDirty(o.buf).dev = None
              /\ FlipDirty(o.buf).host_dirty /\ ~FlipDirty(o.buf).dev_dirty
<1> USE BufferAssumption, OutcomeFields
<1> DEFINE freed == [b EXCEPT !.dev = None, !.devData = 0]
           clean == [b EXCEPT !.dev_dirty = FALSE]
<1>1. b \in Buffers(0..MaxVersion) /\ 0 \in 0..MaxVersion
    BY DEF Holds
<1>2. /\ freed \in Buffers(0..MaxVersion)
      /\ freed.host /\ freed.dev = None /\ ~freed.dev_dirty /\ freed.hostData = v
    <2>1. /\ freed \in Buffers(0..MaxVersion)
          /\ freed.hostData = b.hostData /\ freed.host = b.host /\ freed.dev = None
          /\ (freed.dev_dirty <=> b.dev_dirty)
        BY <1>1, DropDev
    <2> HIDE DEF freed
    <2> QED
        BY <2>1 DEF Holds
<1>3. ASSUME b.dev = None
      PROVE  /\ clean \in Buffers(0..MaxVersion)
             /\ clean.host /\ clean.dev = None /\ ~clean.dev_dirty /\ clean.hostData = v
    BY <1>1, <1>3, ClearDev DEF Holds
<1>4. \/ o = Outcome("ok", freed)
      \/ o = Outcome("not_freed", b)
      \/ o = Outcome("ok", clean) /\ b.dev = None
    BY <1>1, FreeCases
<1> HIDE DEF freed, clean
<1>5. CASE o = Outcome("not_freed", b)
    BY <1>5
<1>6. CASE o # Outcome("not_freed", b)
    <2>1. /\ o.result = "ok"
          /\ o.buf \in Buffers(0..MaxVersion)
          /\ o.buf.host /\ o.buf.dev = None /\ ~o.buf.dev_dirty /\ o.buf.hostData = v
        BY <1>2, <1>3, <1>4, <1>6
    <2> QED
        BY <2>1, MarkedHost DEF FlipDirty, Holds
<1> QED
    BY <1>5, <1>6

\* A flip leaves the data on the host only.
LEMMA FlipOutcomes ==
    ASSUME "free" \notin MayFail,
           NEW v \in 0..MaxVersion, NEW b, Holds(b, v), NEW o \in Flip(b)
    PROVE  /\ Holds(o.buf, v)
           /\ o.result \in {"ok", "error", "not_freed"}
           /\ o.result = "ok" => o.buf.dev = None /\ o.buf.host_dirty
           /\ ~b.dev_dirty => ~o.buf.dev_dirty
<1>1. ~(b.dev_dirty /\ b.host_dirty)
    BY DEF Holds
<1>2. \/ o \in halide_copy_to_host(b) /\ o.result # "ok"
      \/ \E p \in halide_copy_to_host(b) :
            /\ p.result = "ok"
            /\ \/ o \in halide_device_free(p.buf) /\ o.result # "ok"
               \/ \E q \in halide_device_free(p.buf) :
                     q.result = "ok" /\ o = Outcome("ok", FlipDirty(q.buf))
    BY <1>1 DEF Flip, AndThen
<1>3. CASE o \in halide_copy_to_host(b) /\ o.result # "ok"
    BY <1>3, CopyToHostOutcomes
<1>4. ASSUME NEW p \in halide_copy_to_host(b), p.result = "ok",
             NEW q \in halide_device_free(p.buf)
      PROVE  \/ /\ q.result = "not_freed"
                /\ Holds(q.buf, v) /\ ~q.buf.dev_dirty
             \/ /\ q.result = "ok"
                /\ Holds(FlipDirty(q.buf), v)
                /\ FlipDirty(q.buf).dev = None
                /\ FlipDirty(q.buf).host_dirty /\ ~FlipDirty(q.buf).dev_dirty
    <2>1. Holds(p.buf, v) /\ ~p.buf.dev_dirty
        BY <1>4, CopyToHostOutcomes
    <2> QED
        BY <1>4, <2>1, FreeOutcomes
<1>5. ASSUME NEW p \in halide_copy_to_host(b), p.result = "ok",
             o \in halide_device_free(p.buf), o.result # "ok"
      PROVE  /\ Holds(o.buf, v) /\ ~o.buf.dev_dirty
             /\ o.result = "not_freed"
    BY <1>4, <1>5
<1>6. ASSUME NEW p \in halide_copy_to_host(b), p.result = "ok",
             NEW q \in halide_device_free(p.buf), q.result = "ok", o = Outcome("ok", FlipDirty(q.buf))
      PROVE  /\ o.result = "ok" /\ Holds(o.buf, v)
             /\ o.buf.dev = None /\ o.buf.host_dirty /\ ~o.buf.dev_dirty
    BY <1>4, <1>6, OutcomeFields
<1> QED
    BY <1>2, <1>3, <1>5, <1>6

LEMMA UploadOutcomes ==
    ASSUME NEW v \in 0..MaxVersion, NEW b, Holds(b, v), b.dev # None, NEW o \in Upload(b)
    PROVE  /\ Holds(o.buf, v)
           /\ o.result \in {"ok", "error"}
           /\ o.result = "ok" => ~o.buf.host_dirty
           /\ o.buf.dev = b.dev /\ (o.buf.dev_dirty <=> b.dev_dirty)
           /\ ~b.host_dirty => o.buf = b
<1> USE BufferAssumption, OutcomeFields
<1>1. CASE ~b.host_dirty
    <2>1. o = Outcome("ok", b)
        BY <1>1 DEF Upload, NeedsUpload
    <2>2. o.buf = b /\ o.result = "ok"
        BY <2>1
    <2> QED
        BY <1>1, <2>2
<1>2. CASE b.host_dirty
    <2> DEFINE Cleared(c) == [c EXCEPT !.host_dirty = FALSE]
               copied == [b EXCEPT !.devData = b.hostData]
               clean == Cleared(copied)
               broken == [b EXCEPT !.devData = 0]
    <2>1. /\ b.host /\ ~b.dev_dirty /\ b.hostData = v
          /\ b \in Buffers(0..MaxVersion) /\ 0 \in 0..MaxVersion
        BY <1>2 DEF Holds
    <2>2. Holds(clean, v) /\ ~clean.host_dirty /\ clean.dev = b.dev /\ (clean.dev_dirty <=> b.dev_dirty)
        <3>1. /\ copied \in Buffers(0..MaxVersion)
              /\ copied.hostData = v /\ copied.devData = v
              /\ copied.host /\ copied.dev = b.dev
              /\ (copied.dev_dirty <=> b.dev_dirty)
            BY <2>1, SetDevData
        <3> HIDE DEF copied
        <3>2. /\ clean \in Buffers(0..MaxVersion)
              /\ clean.hostData = v /\ clean.devData = v
              /\ clean.host /\ clean.dev = b.dev
              /\ (clean.dev_dirty <=> b.dev_dirty) /\ ~clean.host_dirty
            BY <3>1, ClearHost
        <3> HIDE DEF clean
        <3> QED
            BY <2>1, <3>2 DEF Holds
    <2>3. Holds(broken, v) /\ broken.dev = b.dev /\ (broken.dev_dirty <=> b.dev_dirty)
        BY <1>2, <2>1, SetDevData DEF Holds
    <2>4. interface_copy_to_device(b) \subseteq {Outcome("ok", copied), Outcome("error", broken)}
        BY <2>1 DEF interface_copy_to_device, Fails
    <2>5. o \in AndThen(interface_copy_to_device(b), LAMBDA c : {Outcome("ok", Cleared(c))})
        BY <1>2, <2>1 DEF Upload, NeedsUpload
    <2> HIDE DEF copied, broken, Cleared
    <2>6. o \in {Outcome("ok", clean), Outcome("error", broken)}
        BY <2>4, <2>5 DEF AndThen
    <2> HIDE DEF clean
    <2> QED
        BY <1>2, <2>2, <2>3, <2>6
<1> QED
    BY <1>1, <1>2

LEMMA MallocOutcomes ==
    ASSUME NEW v \in 0..MaxVersion, NEW b, Holds(b, v), b.dev = None, NEW i \in Devices,
           NEW o \in halide_device_malloc(b, i)
    PROVE  /\ Holds(o.buf, v)
           /\ o.result \in {"ok", "error"}
           /\ o.result = "ok" => o.buf.dev = i
           /\ (o.buf.dev_dirty <=> b.dev_dirty)
<1> USE BufferAssumption, DeviceAssumption, OutcomeFields
<1> DEFINE fresh == [b EXCEPT !.dev = i, !.devData = 0]
<1>1. b \in Buffers(0..MaxVersion) /\ 0 \in 0..MaxVersion
    BY DEF Holds
<1>2. Holds(fresh, v) /\ fresh.dev = i /\ (fresh.dev_dirty <=> b.dev_dirty)
    <2>1. /\ fresh \in Buffers(0..MaxVersion)
          /\ fresh.hostData = b.hostData /\ fresh.devData = 0
          /\ fresh.host = b.host /\ fresh.dev = i
          /\ (fresh.host_dirty <=> b.host_dirty) /\ (fresh.dev_dirty <=> b.dev_dirty)
        BY <1>1, SetDev
    <2> HIDE DEF fresh
    <2> QED
        BY <2>1 DEF Holds
<1>3. o = Outcome("ok", fresh) \/ o = Outcome("error", b)
    BY DEF halide_device_malloc, interface_device_malloc, Fails
<1> HIDE DEF fresh
<1> QED
    BY <1>2, <1>3

\* The calls that follow on a successful first part.
Prepared(b, i) == IF b.dev \in {None, i} THEN {Outcome("ok", b)} ELSE Flip(b)
Allocated(b, i) == IF b.dev = None THEN halide_device_malloc(b, i) ELSE {Outcome("ok", b)}

LEMMA CopyToDeviceOutcomes ==
    ASSUME "free" \notin MayFail,
           NEW v \in 0..MaxVersion, NEW b, Holds(b, v), NEW d \in Devices \cup {None},
           NEW o \in halide_copy_to_device(b, d)
    PROVE  /\ Holds(o.buf, v)
           /\ o.result \in {"ok", "error", "not_freed"}
           /\ o.result = "ok" => ~o.buf.host_dirty /\ o.buf.dev # None /\ d \in {o.buf.dev, None}
           /\ ~b.dev_dirty => ~o.buf.dev_dirty
           /\ ~b.host_dirty /\ b.dev # None /\ d \in {b.dev, None} => o.buf = b
<1> DEFINE i == IF d = None THEN b.dev ELSE d
<1>1. CASE i = None
    BY <1>1, OutcomeFields DEF halide_copy_to_device
<1>2. CASE i # None
    <2>1. i \in Devices
        BY <1>2 DEF Holds, Buffers
    <2>2. \/ o \in Prepared(b, i) /\ o.result # "ok"
          \/ \E p \in Prepared(b, i) :
                /\ p.result = "ok"
                /\ \/ o \in Allocated(p.buf, i) /\ o.result # "ok"
                   \/ \E q \in Allocated(p.buf, i) : q.result = "ok" /\ o \in Upload(q.buf)
        BY <1>2 DEF halide_copy_to_device, AndThen, Prepared, Allocated
    <2>3. ASSUME NEW p \in Prepared(b, i)
          PROVE  /\ Holds(p.buf, v)
                 /\ p.result \in {"ok", "error", "not_freed"}
                 /\ p.result = "ok" => p.buf.dev \in {None, i}
                 /\ ~b.dev_dirty => ~p.buf.dev_dirty
                 /\ b.dev = i => p.result = "ok" /\ p.buf = b
        <3>1. CASE b.dev \in {None, i}
            BY <3>1 DEF Prepared, Outcome
        <3>2. CASE b.dev \notin {None, i}
            BY <3>2, FlipOutcomes DEF Prepared
        <3> QED
            BY <3>1, <3>2
    <2>4. ASSUME NEW p \in Prepared(b, i), p.result = "ok", NEW q \in Allocated(p.buf, i)
          PROVE  /\ Holds(q.buf, v)
                 /\ q.result \in {"ok", "error", "not_freed"}
                 /\ q.result = "ok" => q.buf.dev = i
                 /\ ~b.dev_dirty => ~q.buf.dev_dirty
                 /\ b.dev = i => q.result = "ok" /\ q.buf = b
        <3>1. CASE p.buf.dev = None
            BY <1>2, <2>1, <2>3, <2>4, <3>1, MallocOutcomes DEF Allocated
        <3>2. CASE p.buf.dev # None
            BY <2>3, <2>4, <3>2 DEF Allocated, Outcome
        <3> QED
            BY <3>1, <3>2
    <2>5. ASSUME NEW p \in Prepared(b, i), p.result = "ok",
                 NEW q \in Allocated(p.buf, i), q.result = "ok", o \in Upload(q.buf)
          PROVE  /\ Holds(o.buf, v)
                 /\ o.result \in {"ok", "error", "not_freed"}
                 /\ o.result = "ok" => ~o.buf.host_dirty /\ o.buf.dev = i
                 /\ ~b.dev_dirty => ~o.buf.dev_dirty
                 /\ ~b.host_dirty /\ b.dev = i => o.buf = b
        <3>1. Holds(q.buf, v) /\ q.buf.dev # None /\ q.buf.dev = i
            BY <1>2, <2>4, <2>5
        <3> QED
            BY <2>4, <2>5, <3>1, UploadOutcomes
    <2>6. d # None => d = i
        OBVIOUS
    <2>7. d \in {b.dev, None} /\ b.dev # None => b.dev = i
        OBVIOUS
    <2> HIDE DEF i
    <2> QED
        BY <1>2, <2>2, <2>3, <2>4, <2>5, <2>6, <2>7
<1> QED
    BY <1>1, <1>2

\* Without the data nothing is copied: there is new memory or none.
LEMMA CopyToNewDevice ==
    ASSUME NEW b \in Buffers(0..MaxVersion), b.dev = None, ~b.host_dirty,
           NEW d \in Devices \cup {None}, NEW o \in halide_copy_to_device(b, d)
    PROVE  \/ o.result = "error" /\ o.buf = b
           \/ /\ o.result = "ok" /\ d # None
              /\ o.buf \in Buffers(0..MaxVersion)
              /\ o.buf.hostData = b.hostData /\ o.buf.host = b.host /\ o.buf.dev = d
              /\ ~o.buf.host_dirty /\ (o.buf.dev_dirty <=> b.dev_dirty)
<1> DEFINE fresh == [b EXCEPT !.dev = d, !.devData = 0]
<1>1. fresh.dev = d
    BY DEF Buffers
<1>2. /\ fresh \in Buffers(0..MaxVersion)
      /\ fresh.hostData = b.hostData /\ fresh.host = b.host /\ fresh.dev = d
      /\ (fresh.host_dirty <=> b.host_dirty) /\ (fresh.dev_dirty <=> b.dev_dirty)
    BY <1>1, NewDev
<1> HIDE DEF fresh
<1> USE OutcomeFields
<1>3. CASE d = None
    BY <1>3 DEF halide_copy_to_device
<1>4. CASE d # None
    <2>1. halide_device_malloc(b, d) \subseteq {Outcome("ok", fresh), Outcome("error", b)}
        BY <1>4, DeviceAssumption DEF halide_device_malloc, interface_device_malloc, Fails, fresh
    <2>2. \/ o \in halide_device_malloc(b, d) /\ o.result # "ok"
          \/ \E q \in halide_device_malloc(b, d) : q.result = "ok" /\ o \in Upload(q.buf)
        BY <1>4 DEF halide_copy_to_device, AndThen
    <2>3. Upload(fresh) = {Outcome("ok", fresh)}
        BY <1>2 DEF Upload, NeedsUpload
    <2>4. o = Outcome("error", b) \/ o = Outcome("ok", fresh)
        BY <2>1, <2>2, <2>3
    <2> QED
        BY <1>2, <1>4, <2>4
<1> QED
    BY <1>3, <1>4

LEMMA RemainsOnDevice ==
    ASSUME NEW b \in Buffers(0..MaxVersion), NEW v, NEW l, Remains(b, v, l), b.dev = None,
           NEW d \in Devices \cup {None}, NEW o \in halide_copy_to_device(b, d)
    PROVE  /\ Remains(o.buf, v, l)
           /\ o.result \in {"ok", "error"}
           /\ o.result = "ok" => o.buf.dev = d /\ d # None
           /\ o.result # "ok" => o.buf.dev = None
           /\ ~o.buf.host_dirty /\ (o.buf.dev_dirty <=> b.dev_dirty)
<1>1. ~b.host_dirty
    BY DEF Remains
<1>2. CASE o.result = "error" /\ o.buf = b
    BY <1>1, <1>2
<1>3. CASE o.result # "error"
    <2>1. /\ o.result = "ok" /\ d # None
          /\ o.buf \in Buffers(0..MaxVersion)
          /\ o.buf.hostData = b.hostData /\ o.buf.host = b.host /\ o.buf.dev = d
          /\ ~o.buf.host_dirty /\ (o.buf.dev_dirty <=> b.dev_dirty)
        BY <1>1, <1>3, CopyToNewDevice
    <2>2. Remains(o.buf, v, l)
        BY <2>1 DEF Remains
    <2> QED
        BY <2>1, <2>2
<1> QED
    BY <1>1, <1>2, <1>3, CopyToNewDevice

-----------------------------------------------------------------------------
LEMMA InitIInv == Init => IInv
<1> SUFFICES ASSUME Init PROVE IInv
    OBVIOUS
<1> USE BufferAssumption DEF Init, NewBuffer
<1>1. 0 \in 0..MaxVersion
    OBVIOUS
<1>2. buf \in Buffers(0..MaxVersion)
    BY <1>1 DEF Buffers
<1>3. TypeOK
    BY <1>1, <1>2 DEF TypeOK, Phases
<1>4. Holds(buf, latest)
    BY <1>2 DEF Holds
<1>5. Exclusive /\ OnHost /\ OnDevice(buf) /\ Thrown
    BY DEF Exclusive, OnHost, OnDevice, Thrown, Writing, Active
<1> QED
    BY <1>3, <1>4, <1>5 DEF IInv, Contents

\* The part of the invariant about the phases of the threads, after thread t
\* has gone to another phase.
LEMMA PhaseChange ==
    ASSUME IInv, NEW t \in Threads, NEW p \in Phases,
           pc' = [pc EXCEPT ![t] = p],
           at' \in [Threads -> Devices \cup {None}],
           \A u \in Threads \ {t} : at'[u] = at[u],
           p \in Writing => \A u \in Threads \ {t} : pc[u] = "idle",
           p # "idle" => \A u \in Threads \ {t} : pc[u] \notin Writing,
           p \in {"launch", "launch_write", "kernel", "kernel_write"} =>
               \A u \in Threads \ {t} : Active(u) => at[u] = at'[t]
    PROVE  /\ pc' \in [Threads -> Phases]
           /\ Exclusive'
<1> USE DEF IInv, TypeOK
<1>1. /\ pc'[t] = p
      /\ \A u \in Threads \ {t} : pc'[u] = pc[u]
    OBVIOUS
<1>2. pc' \in [Threads -> Phases]
    BY <1>1
<1>3. ASSUME NEW u \in Threads, NEW w \in Threads, u # w
      PROVE  /\ pc'[u] \in Writing => pc'[w] = "idle"
             /\ Active(u)' /\ Active(w)' => at'[u] = at'[w]
    <2>1. CASE u = t
        BY <1>1, <1>3, <2>1 DEF Exclusive, Active
    <2>2. CASE w = t
        BY <1>1, <1>3, <2>2 DEF Exclusive, Active
    <2>3. CASE u # t /\ w # t
        BY <1>1, <1>3, <2>3 DEF Exclusive, Active
    <2> QED
        BY <2>1, <2>2, <2>3
<1> QED
    BY <1>2, <1>3 DEF Exclusive

\* What halide_copy_to_host leaves to show, once its outcome is known.
LEMMA HostPhase ==
    ASSUME IInv, NEW t \in Threads, NEW next \in {"read_host", "write_host"}, NEW o,
           pc[t] = "idle",
           next = "read_host" => NoWriter(t) /\ left # "none",
           next = "write_host" => Alone(t),
           pc' = [pc EXCEPT ![t] = CASE o.result = "ok" -> next
                                      [] o.result = "error" -> "idle"
                                      [] OTHER -> "abort"],
           at' = at, latest' = latest, left' = left,
           o.result \in {"ok", "error"},
           o.result = "ok" => ~buf'.dev_dirty,
           Contents(buf', latest, left),
           buf'.dev = buf.dev, buf'.host_dirty <=> buf.host_dirty,
           ~buf.dev_dirty => buf' = buf
    PROVE  IInv'
<1> USE DEF IInv
<1> DEFINE p == IF o.result = "ok" THEN next ELSE "idle"
<1>1. /\ p \in Phases /\ p \notin {"launch", "launch_write", "kernel", "kernel_write"}
      /\ pc' = [pc EXCEPT ![t] = p]
      /\ p \in Writing => \A u \in Threads \ {t} : pc[u] = "idle"
      /\ p # "idle" => \A u \in Threads \ {t} : pc[u] \notin Writing
      /\ p # "idle" => o.result = "ok"
      /\ p = "read_host" => left # "none"
    BY DEF Phases, Writing, NoWriter, Alone
<1> HIDE DEF p
<1>2. at' \in [Threads -> Devices \cup {None}] /\ \A u \in Threads \ {t} : at'[u] = at[u]
    BY DEF TypeOK
<1>3. /\ pc' \in [Threads -> Phases] /\ Exclusive'
    BY <1>1, <1>2, PhaseChange
<1>4. /\ pc'[t] = p
      /\ \A u \in Threads \ {t} : pc'[u] = pc[u]
    BY <1>1 DEF TypeOK
<1>5. OnHost'
    BY <1>1, <1>4 DEF OnHost
<1>6. OnDevice(buf)'
    BY <1>1, <1>4 DEF OnDevice
<1>7. Contents(buf, latest, left)'
    BY DEF Contents, Holds, Remains
<1>8. TypeOK'
    BY <1>3 DEF TypeOK, Contents, Holds, Remains
<1>9. Thrown'
    <2>1. left # "all" => \A u \in Threads : pc'[u] \notin {"launch", "kernel"}
        BY <1>1, <1>4 DEF Thrown
    <2>2. left = "none" => \A u \in Threads : pc'[u] # "read_host"
        BY <1>1, <1>4 DEF Thrown
    <2>3. left # "all" /\ buf.dev # None => \E u \in Threads : pc'[u] \in {"kernel_write", "abort"}
        BY <1>4 DEF Thrown
    <2> QED
        BY <2>1, <2>2, <2>3 DEF Thrown
<1> QED
    BY <1>3, <1>5, <1>6, <1>7, <1>8, <1>9

\* Nobody writes while a thread that is not writing starts to use the buffer.
LEMMA OthersIdle ==
    ASSUME IInv, NEW t \in Threads, pc[t] \in Writing
    PROVE  \A u \in Threads \ {t} : pc[u] = "idle"
BY DEF IInv, Exclusive

LEMMA CopyToHostIInv ==
    ASSUME IInv, Running, NEW t \in Threads, NEW next \in {"read_host", "write_host"},
           CopyToHost(t, next)
    PROVE  IInv'
<1> USE DEF IInv
<1>1. PICK o \in halide_copy_to_host(buf) :
         /\ buf' = o.buf
         /\ pc' = [pc EXCEPT ![t] = CASE o.result = "ok" -> next
                                      [] o.result = "error" -> "idle"
                                      [] OTHER -> "abort"]
    BY DEF CopyToHost
<1>2. /\ pc[t] = "idle" /\ at' = at /\ latest' = latest /\ left' = left
      /\ next = "read_host" => NoWriter(t) /\ left # "none"
      /\ next = "write_host" => Alone(t)
    BY DEF CopyToHost
<1>3. CASE left # "all"
    <2>1. buf.dev_dirty => buf.dev = None /\ left = "none"
        <3>1. ASSUME buf.dev # None, left = "none" PROVE FALSE
            <4>1. \E u \in Threads : pc[u] = "kernel_write"
                BY <1>3, <3>1 DEF Thrown, Running
            <4> QED
                BY <1>2, <3>1, <4>1 DEF Alone
        <3> QED
            BY <1>3, <3>1 DEF Contents, Remains, TypeOK
    <2>2. \/ ~buf.dev_dirty /\ o = Outcome("ok", buf)
          \/ buf.dev_dirty /\ o = Outcome("error", buf)
        BY <2>1 DEF halide_copy_to_host
    <2>3. /\ buf' = buf /\ o.result \in {"ok", "error"}
          /\ o.result = "ok" => ~buf.dev_dirty
        BY <1>1, <2>2, OutcomeFields
    <2> QED
        BY <1>1, <1>2, <1>3, <2>3, HostPhase
<1>4. CASE left = "all"
    <2>1. /\ Holds(buf', latest)
          /\ o.result \in {"ok", "error"}
          /\ o.result = "ok" => ~buf'.dev_dirty
          /\ buf'.dev = buf.dev /\ (buf'.host_dirty <=> buf.host_dirty)
          /\ ~buf.dev_dirty => buf' = buf
        BY <1>1, <1>4, CopyToHostOutcomes DEF TypeOK, Contents
    <2> QED
        BY <1>1, <1>2, <1>4, <2>1, HostPhase DEF Contents
<1> QED
    BY <1>3, <1>4

\* A reader of the host, or a kernel that reads, is done.
LEMMA ReaderDoneIInv ==
    ASSUME IInv, NEW t \in Threads, ReadHost(t) \/ Kernel(t)
    PROVE  IInv'
<1> USE DEF IInv
<1>1. /\ pc' = [pc EXCEPT ![t] = "idle"] /\ UNCHANGED <<buf, latest, left, at>>
      /\ pc[t] \in {"read_host", "kernel"}
    BY DEF ReadHost, Kernel
<1>2. pc' \in [Threads -> Phases] /\ Exclusive'
    BY <1>1, PhaseChange DEF TypeOK, Phases, Writing
<1>3. pc'[t] = "idle" /\ \A u \in Threads \ {t} : pc'[u] = pc[u]
    BY <1>1 DEF TypeOK
<1>4. TypeOK' /\ Contents(buf, latest, left)'
    BY <1>1, <1>2 DEF TypeOK, Contents, Holds, Remains
<1>5. OnHost' /\ OnDevice(buf)'
    BY <1>1, <1>3 DEF OnHost, OnDevice
<1>6. Thrown'
    BY <1>1, <1>3 DEF Thrown
<1> QED
    BY <1>2, <1>4, <1>5, <1>6

\* Where the application writes, there the newest data are.
LEMMA WriteHostIInv ==
    ASSUME IInv, NEW t \in Threads, WriteHost(t)
    PROVE  IInv'
<1> USE DEF IInv
<1>1. /\ pc[t] = "write_host" /\ latest' = latest + 1 /\ at' = at /\ left' = "all"
      /\ buf' = [buf EXCEPT !.hostData = latest + 1, !.host_dirty = TRUE]
      /\ pc' = [pc EXCEPT ![t] = "idle"]
    BY DEF WriteHost
<1>2. latest' \in 0..MaxVersion
    BY BufferAssumption DEF WriteHost, TypeOK
<1>3. pc' \in [Threads -> Phases] /\ Exclusive'
    BY <1>1, PhaseChange DEF TypeOK, Phases, Writing
<1>4. \A u \in Threads : pc'[u] = "idle"
    BY <1>1, OthersIdle DEF TypeOK, Writing
<1>5. OnHost' /\ OnDevice(buf)' /\ Thrown'
    BY <1>1, <1>4 DEF OnHost, OnDevice, Thrown
<1>6. /\ buf' \in Buffers(0..MaxVersion)
      /\ buf'.hostData = latest' /\ buf'.host /\ buf'.host_dirty /\ ~buf'.dev_dirty
    <2> DEFINE b == [buf EXCEPT !.hostData = latest + 1]
    <2>1. /\ b \in Buffers(0..MaxVersion)
          /\ b.hostData = latest + 1 /\ b.host = buf.host /\ (b.dev_dirty <=> buf.dev_dirty)
        BY <1>1, <1>2, SetHostData DEF TypeOK
    <2>2. buf' = [b EXCEPT !.host_dirty = TRUE]
        BY <1>1 DEF TypeOK, Buffers
    <2>3. buf.host /\ ~buf.dev_dirty
        BY <1>1 DEF Contents, Holds, Remains, OnHost
    <2> HIDE DEF b
    <2>4. /\ buf' \in Buffers(0..MaxVersion)
          /\ buf'.hostData = latest + 1 /\ buf'.host = b.host
          /\ buf'.host_dirty /\ (buf'.dev_dirty <=> b.dev_dirty)
        BY <2>1, <2>2, MarkedHost
    <2>5. latest' = latest + 1
        BY <1>1
    <2> QED
        BY <2>1, <2>3, <2>4, <2>5
<1>7. TypeOK' /\ Contents(buf, latest, left)'
    BY <1>1, <1>2, <1>3, <1>6 DEF TypeOK, Contents, Holds
<1> QED
    BY <1>3, <1>5, <1>7

\* A pipeline is called.
LEMMA StartIInv ==
    ASSUME IInv, NEW t \in Threads, NEW i \in Devices \cup {None},
           NEW next \in {"launch", "launch_write"}, Start(t, i, next)
    PROVE  IInv'
<1> USE DEF IInv
<1>1. /\ pc[t] = "idle" /\ UNCHANGED <<buf, latest, left>>
      /\ pc' = [pc EXCEPT ![t] = next] /\ at' = [at EXCEPT ![t] = i]
      /\ next = "launch" => /\ left = "all" /\ NoWriter(t)
                            /\ \A u \in Threads : Active(u) => at[u] = i
      /\ next = "launch_write" => Alone(t)
    BY DEF Start
<1>2. /\ next \in Phases
      /\ at' \in [Threads -> Devices \cup {None}] /\ at'[t] = i
      /\ \A u \in Threads \ {t} : at'[u] = at[u]
      /\ next \in Writing => \A u \in Threads \ {t} : pc[u] = "idle"
      /\ \A u \in Threads \ {t} : pc[u] \notin Writing
      /\ \A u \in Threads \ {t} : Active(u) => at[u] = i
    BY <1>1 DEF TypeOK, Phases, Writing, NoWriter, Alone, Active
<1>3. pc' \in [Threads -> Phases] /\ Exclusive'
    BY <1>1, <1>2, PhaseChange
<1>4. pc'[t] = next /\ \A u \in Threads \ {t} : pc'[u] = pc[u]
    BY <1>1 DEF TypeOK
<1>5. TypeOK' /\ Contents(buf, latest, left)'
    BY <1>1, <1>2, <1>3 DEF TypeOK, Contents, Holds, Remains
<1>6. OnHost' /\ OnDevice(buf)'
    BY <1>1, <1>2, <1>4 DEF OnHost, OnDevice
<1>7. Thrown'
    BY <1>1, <1>4 DEF Thrown
<1> QED
    BY <1>3, <1>5, <1>6, <1>7

\* What halide_copy_to_device leaves to show, once its outcome is known.
LEMMA DevicePhase ==
    ASSUME IInv, NEW t \in Threads, NEW p \in {Kernels[pc[t]], "idle", "abort"},
           pc[t] \in {"launch", "launch_write"},
           pc' = [pc EXCEPT ![t] = p],
           at' = at, latest' = latest, left' = left,
           p \notin {"idle", "abort"} =>
               ~buf'.host_dirty /\ buf'.dev # None /\ at[t] \in {buf'.dev, None},
           Contents(buf', latest, left),
           left # "all" => pc[t] = "launch_write" /\ (p \in {"idle", "abort"} => buf'.dev = None),
           ~buf.dev_dirty => ~buf'.dev_dirty,
           ~buf.host_dirty /\ buf.dev # None /\ at[t] \in {buf.dev, None} => buf' = buf
    PROVE  IInv'
<1> USE DEF IInv
<1>1. Kernels[pc[t]] = IF pc[t] = "launch" THEN "kernel" ELSE "kernel_write"
    BY DEF Kernels
<1>2. /\ p \in Phases
      /\ p \in Writing => pc[t] \in Writing
      /\ p \notin {"read_host", "write_host", "launch", "launch_write"}
      /\ p = "kernel" => pc[t] = "launch"
      /\ p \in {"kernel", "kernel_write", "idle", "abort"}
    BY <1>1 DEF Phases, Writing
<1>3. /\ p \in Writing => \A u \in Threads \ {t} : pc[u] = "idle"
      /\ \A u \in Threads \ {t} : pc[u] \notin Writing
      /\ \A u \in Threads \ {t} : Active(u) => at[u] = at[t]
    BY <1>2 DEF Exclusive, Active
<1>4. at' \in [Threads -> Devices \cup {None}] /\ \A u \in Threads \ {t} : at'[u] = at[u]
    BY DEF TypeOK
<1>5. pc' \in [Threads -> Phases] /\ Exclusive'
    <2>1. /\ p # "idle" => \A u \in Threads \ {t} : pc[u] \notin Writing
          /\ p \in {"launch", "launch_write", "kernel", "kernel_write"} =>
                \A u \in Threads \ {t} : Active(u) => at[u] = at'[t]
        BY <1>3
    <2> QED
        BY <1>2, <1>3, <1>4, <2>1, PhaseChange
<1>6. /\ pc'[t] = p
      /\ \A u \in Threads \ {t} : pc'[u] = pc[u]
    BY <1>2 DEF TypeOK
<1>7. OnHost'
    BY <1>2, <1>6 DEF OnHost
<1>8. ASSUME NEW u \in Threads, pc'[u] \in {"kernel", "kernel_write"}
      PROVE  ~buf'.host_dirty /\ buf'.dev # None /\ at'[u] \in {buf'.dev, None}
    <2>1. CASE u = t
        BY <1>2, <1>6, <1>8, <2>1
    <2>2. CASE u # t
        <3>1. at[u] = at[t] /\ ~buf.host_dirty /\ buf.dev # None /\ at[u] \in {buf.dev, None}
            BY <1>3, <1>6, <1>8, <2>2 DEF OnDevice, Active
        <3> QED
            BY <3>1
    <2> QED
        BY <2>1, <2>2
<1>9. Contents(buf, latest, left)'
    BY DEF Contents, Holds, Remains
<1>10. TypeOK'
    BY <1>5 DEF TypeOK, Contents, Holds, Remains
<1>11. Thrown'
    <2>1. left # "all" => \A u \in Threads : pc'[u] \notin {"launch", "kernel"}
        BY <1>2, <1>6 DEF Thrown
    <2>2. left = "none" => \A u \in Threads : pc'[u] # "read_host"
        BY <1>2, <1>6 DEF Thrown
    <2>3. left # "all" /\ buf'.dev # None => pc'[t] = "kernel_write"
        BY <1>1, <1>2, <1>6
    <2> QED
        BY <2>1, <2>2, <2>3 DEF Thrown
<1> QED
    BY <1>5, <1>7, <1>8, <1>9, <1>10, <1>11 DEF OnDevice

LEMMA CopyToDeviceIInv ==
    ASSUME "free" \notin MayFail, IInv, Running, NEW t \in Threads, CopyToDevice(t)
    PROVE  IInv'
<1> USE DEF IInv
<1>1. PICK o \in halide_copy_to_device(buf, at[t]) :
         /\ buf' = o.buf
         /\ pc' = [pc EXCEPT ![t] = CASE o.result = "ok" -> Kernels[pc[t]]
                                      [] o.result = "error" -> "idle"
                                      [] OTHER -> "abort"]
    BY DEF CopyToDevice
<1>2. /\ pc[t] \in {"launch", "launch_write"} /\ at' = at /\ latest' = latest /\ left' = left
      /\ at[t] \in Devices \cup {None} /\ latest \in 0..MaxVersion
    BY DEF CopyToDevice, TypeOK
<1>3. CASE left # "all"
    <2>1. pc[t] = "launch_write"
        BY <1>2, <1>3 DEF Thrown
    <2>2. buf.dev = None
        <3>1. ~\E u \in Threads : pc[u] \in {"kernel_write", "abort"}
            BY <2>1, OthersIdle DEF Writing
        <3> QED
            BY <1>3, <3>1 DEF Thrown
    <2>3. Remains(buf, latest, left) /\ buf \in Buffers(0..MaxVersion)
        BY <1>3 DEF Contents, Remains
    <2>4. /\ Remains(o.buf, latest, left)
          /\ o.result \in {"ok", "error"}
          /\ o.result = "ok" => o.buf.dev = at[t] /\ at[t] # None
          /\ o.result # "ok" => o.buf.dev = None
          /\ ~o.buf.host_dirty /\ (o.buf.dev_dirty <=> buf.dev_dirty)
        BY <1>2, <2>2, <2>3, RemainsOnDevice
    <2>5. Contents(buf', latest, left)
        BY <1>1, <1>3, <2>4 DEF Contents
    <2>6. PICK p \in {Kernels[pc[t]], "idle"} :
             /\ p = IF o.result = "ok" THEN Kernels[pc[t]] ELSE "idle"
             /\ pc' = [pc EXCEPT ![t] = p]
        BY <1>1, <2>4
    <2>7. p # "idle" => ~buf'.host_dirty /\ buf'.dev # None /\ at[t] \in {buf'.dev, None}
        BY <1>1, <2>4, <2>6
    <2>8. p \in {"idle", "abort"} => buf'.dev = None
        <3>1. Kernels[pc[t]] = "kernel_write"
            BY <2>1 DEF Kernels
        <3> QED
            BY <1>1, <2>4, <2>6, <3>1
    <2>9. ~buf.dev_dirty => ~buf'.dev_dirty
        BY <1>1, <2>4
    <2> QED
        BY <1>2, <2>1, <2>2, <2>5, <2>6, <2>7, <2>8, <2>9, DevicePhase
<1>4. CASE left = "all"
    <2>1. Holds(buf, latest)
        BY <1>4 DEF Contents
    <2>2. PICK d \in Devices \cup {None} : d = at[t]
        BY <1>2
    <2>3. PICK v \in 0..MaxVersion : v = latest
        BY <1>2
    <2>4. Holds(buf, v) /\ o \in halide_copy_to_device(buf, d)
        BY <2>1, <2>2, <2>3
    <2>5. /\ Holds(o.buf, v)
          /\ o.result \in {"ok", "error", "not_freed"}
          /\ o.result = "ok" => ~o.buf.host_dirty /\ o.buf.dev # None /\ d \in {o.buf.dev, None}
          /\ ~buf.dev_dirty => ~o.buf.dev_dirty
          /\ ~buf.host_dirty /\ buf.dev # None /\ d \in {buf.dev, None} => o.buf = buf
        BY <2>4, CopyToDeviceOutcomes
    <2>6. Contents(buf', latest, left)
        BY <1>1, <1>4, <2>3, <2>5 DEF Contents
    <2> QED
        BY <1>1, <1>2, <1>4, <2>2, <2>5, <2>6, DevicePhase
<1> QED
    BY <1>3, <1>4

\* A kernel has written.
LEMMA KernelWritesIInv ==
    ASSUME IInv, NEW t \in Threads, KernelWrites(t)
    PROVE  IInv'
<1> USE DEF IInv
<1>1. /\ pc[t] = "kernel_write" /\ latest' = latest + 1 /\ at' = at /\ left' = "all"
      /\ buf' = [buf EXCEPT !.devData = latest + 1, !.dev_dirty = TRUE]
      /\ pc' = [pc EXCEPT ![t] = "idle"]
    BY DEF KernelWrites
<1>2. latest' \in 0..MaxVersion
    BY BufferAssumption DEF KernelWrites, TypeOK
<1>3. pc' \in [Threads -> Phases] /\ Exclusive'
    BY <1>1, PhaseChange DEF TypeOK, Phases, Writing
<1>4. \A u \in Threads : pc'[u] = "idle"
    BY <1>1, OthersIdle DEF TypeOK, Writing
<1>5. OnHost' /\ OnDevice(buf)' /\ Thrown'
    BY <1>1, <1>4 DEF OnHost, OnDevice, Thrown
<1>6. /\ buf' \in Buffers(0..MaxVersion)
      /\ buf'.devData = latest' /\ buf'.host /\ ~buf'.host_dirty /\ buf'.dev_dirty
      /\ buf'.dev # None
    <2> DEFINE b == [buf EXCEPT !.devData = latest + 1]
    <2>1. /\ b \in Buffers(0..MaxVersion)
          /\ b.devData = latest + 1 /\ b.host = buf.host /\ (b.host_dirty <=> buf.host_dirty)
          /\ b.dev = buf.dev
        BY <1>1, <1>2, SetDevData DEF TypeOK
    <2>2. buf' = [b EXCEPT !.dev_dirty = TRUE]
        BY <1>1 DEF TypeOK, Buffers
    <2>3. buf.host /\ ~buf.host_dirty /\ buf.dev # None
        BY <1>1 DEF Contents, Holds, Remains, OnDevice
    <2> HIDE DEF b
    <2>4. /\ buf' \in Buffers(0..MaxVersion)
          /\ buf'.devData = latest + 1 /\ buf'.host = b.host /\ buf'.dev = b.dev
          /\ (buf'.host_dirty <=> b.host_dirty) /\ buf'.dev_dirty
        BY <2>1, <2>2, MarkedDev
    <2>5. latest' = latest + 1
        BY <1>1
    <2> QED
        BY <2>1, <2>3, <2>4, <2>5
<1>7. TypeOK' /\ Contents(buf, latest, left)'
    BY <1>1, <1>2, <1>3, <1>6 DEF TypeOK, Contents, Holds
<1> QED
    BY <1>3, <1>5, <1>7

\* The application frees the device memory, and what the dirty bits say of the
\* data that are left is still true.
LEMMA FreeIInv ==
    ASSUME "free" \notin MayFail, IInv, Running, NEW t \in Threads, Free(t)
    PROVE  IInv'
<1> USE DEF IInv
<1>1. PICK o \in halide_device_free(buf) :
         /\ buf' = o.buf
         /\ pc' = [pc EXCEPT ![t] = IF o.result = "not_freed" THEN "abort" ELSE "idle"]
    BY DEF Free
<1>2. /\ pc[t] = "idle" /\ \A u \in Threads : pc[u] = "idle"
      /\ latest' = latest /\ at' = at /\ buf \in Buffers(0..MaxVersion)
      /\ left' = IF buf.dev = None \/ buf.host_dirty THEN left
                 ELSE IF buf.dev_dirty THEN "none" ELSE "host"
    BY DEF Free, Alone, TypeOK
<1>3. left # "all" => buf.dev = None
    BY <1>2 DEF Thrown
<1>4. /\ pc' \in [Threads -> Phases] /\ \A u \in Threads : pc'[u] \in {"idle", "abort"}
      /\ o.result = "not_freed" => pc'[t] = "abort"
    BY <1>1, <1>2 DEF TypeOK, Phases
<1>5. Exclusive' /\ OnHost' /\ OnDevice(buf)'
    BY <1>4 DEF Exclusive, OnHost, OnDevice, Active, Writing
<1> DEFINE freed == [buf EXCEPT !.dev = None, !.devData = 0]
           clean == [buf EXCEPT !.dev_dirty = FALSE]
<1>6. /\ freed \in Buffers(0..MaxVersion)
      /\ freed.hostData = buf.hostData /\ freed.host = buf.host /\ freed.dev = None
      /\ (freed.host_dirty <=> buf.host_dirty) /\ (freed.dev_dirty <=> buf.dev_dirty)
    BY <1>2, DropDev
<1>7. /\ clean \in Buffers(0..MaxVersion)
      /\ clean.hostData = buf.hostData /\ clean.devData = buf.devData
      /\ clean.host = buf.host /\ clean.dev = buf.dev
      /\ (clean.host_dirty <=> buf.host_dirty) /\ ~clean.dev_dirty
    BY <1>2, ClearDev
<1>8. \/ buf.dev # None /\ o = Outcome("ok", freed)
      \/ buf.dev # None /\ o = Outcome("not_freed", buf)
      \/ buf.dev = None /\ o = Outcome("ok", clean)
    BY <1>2, FreeCases
<1> HIDE DEF freed, clean
<1>9. /\ Contents(buf', latest, left')
      /\ left' # "all" /\ buf'.dev # None => o.result = "not_freed"
    <2>1. CASE buf.dev = None /\ o = Outcome("ok", clean)
        <3>1. buf' = clean /\ left' = left
            BY <1>1, <1>2, <2>1, OutcomeFields
        <3>2. CASE left = "all"
            BY <1>7, <2>1, <3>1, <3>2 DEF Contents, Holds
        <3>3. CASE left # "all"
            BY <1>7, <2>1, <3>1, <3>3 DEF Contents, Remains
        <3> QED
            BY <3>2, <3>3
    <2>2. CASE buf.dev # None /\ o = Outcome("ok", freed)
        <3>1. buf' = freed /\ left = "all"
            BY <1>1, <1>3, <2>2, OutcomeFields
        <3>2. Holds(buf, latest)
            BY <3>1 DEF Contents
        <3>3. CASE buf.host_dirty
            BY <1>2, <1>6, <3>1, <3>2, <3>3 DEF Contents, Holds
        <3>4. CASE ~buf.host_dirty
            <4>1. left' = IF buf.dev_dirty THEN "none" ELSE "host"
                BY <1>2, <2>2, <3>4
            <4>2. Remains(freed, latest, left')
                BY <1>6, <3>2, <3>4, <4>1 DEF Remains, Holds
            <4> QED
                BY <1>6, <3>1, <4>1, <4>2 DEF Contents
        <3> QED
            BY <3>3, <3>4
    <2>3. CASE buf.dev # None /\ o = Outcome("not_freed", buf)
        <3>1. buf' = buf /\ left = "all" /\ o.result = "not_freed"
            BY <1>1, <1>3, <2>3, OutcomeFields
        <3>2. Holds(buf, latest)
            BY <3>1 DEF Contents
        <3>3. CASE buf.host_dirty
            BY <1>2, <3>1, <3>2, <3>3 DEF Contents
        <3>4. CASE ~buf.host_dirty
            <4>1. left' = IF buf.dev_dirty THEN "none" ELSE "host"
                BY <1>2, <2>3, <3>4
            <4>2. Remains(buf, latest, left')
                BY <3>2, <3>4, <4>1 DEF Remains, Holds
            <4> QED
                BY <3>1, <4>1, <4>2 DEF Contents
        <3> QED
            BY <3>3, <3>4
    <2> QED
        BY <1>8, <2>1, <2>2, <2>3
<1>10. TypeOK' /\ Contents(buf, latest, left)'
    <2>1. left' \in {"all", "host", "none"}
        BY <1>2 DEF TypeOK
    <2>2. buf' \in Buffers(0..MaxVersion)
        BY <1>9 DEF Contents, Holds, Remains
    <2>3. Contents(buf, latest, left)'
        BY <1>2, <1>9 DEF Contents, Holds, Remains
    <2> QED
        BY <1>2, <1>4, <2>1, <2>2, <2>3 DEF TypeOK
<1>11. Thrown'
    <2>1. left' # "all" /\ buf'.dev # None => \E u \in Threads : pc'[u] \in {"kernel_write", "abort"}
        BY <1>4, <1>9
    <2> QED
        BY <1>4, <2>1 DEF Thrown
<1> QED
    BY <1>5, <1>10, <1>11

\* The data on the host are marked, which is all that was missing.
LEMMA MarkHostIInv ==
    ASSUME IInv, Running, NEW t \in Threads, MarkHost(t)
    PROVE  IInv'
<1> USE DEF IInv
<1>1. /\ left = "host" /\ left' = "all" /\ UNCHANGED <<latest, pc, at>>
      /\ \A u \in Threads : pc[u] = "idle"
      /\ buf' = [buf EXCEPT !.host_dirty = TRUE]
    BY DEF MarkHost, Alone
<1>2. /\ buf' \in Buffers(0..MaxVersion)
      /\ buf'.hostData = buf.hostData /\ buf'.host = buf.host /\ buf'.dev = buf.dev
      /\ buf'.host_dirty /\ (buf'.dev_dirty <=> buf.dev_dirty)
    BY <1>1, MarkedHost DEF TypeOK
<1>3. Remains(buf, latest, "host")
    BY <1>1 DEF Contents
<1>4. TypeOK' /\ Contents(buf, latest, left)'
    BY <1>1, <1>2, <1>3 DEF TypeOK, Contents, Holds, Remains
<1>5. Exclusive' /\ OnHost' /\ OnDevice(buf)' /\ Thrown'
    BY <1>1 DEF Exclusive, OnHost, OnDevice, Thrown, Active, Writing
<1> QED
    BY <1>4, <1>5

LEMMA StepIInv ==
    ASSUME "free" \notin MayFail, IInv, [Next]_vars
    PROVE  IInv'
<1>1. CASE UNCHANGED vars
    BY <1>1 DEF IInv, vars, TypeOK, Contents, Holds, Remains, Exclusive, OnHost, OnDevice,
                Thrown, Active
<1>2. CASE Next
    <2>1. Running
        BY <1>2 DEF Next
    <2>2. PICK t \in Threads : ThreadStep(t)
        BY <1>2 DEF Next
    <2> QED
        BY <2>1, <2>2, CopyToHostIInv, ReaderDoneIInv, WriteHostIInv, StartIInv,
           CopyToDeviceIInv, KernelWritesIInv, FreeIInv, MarkHostIInv DEF ThreadStep
<1> QED
    BY <1>1, <1>2

LEMMA Invariance ==
    ASSUME "free" \notin MayFail
    PROVE  Spec => []IInv
<1>1. IInv /\ [Next]_vars => IInv'
    BY StepIInv
<1> QED
    BY <1>1, InitIInv, PTL DEF Spec

-----------------------------------------------------------------------------
\* After a successful halide_copy_to_host or halide_copy_to_device a reader
\* finds the newest data, whatever failed before.
THEOREM ReadersSeeLatest ==
    ASSUME "free" \notin MayFail
    PROVE  Spec => []ReadsLatest
<1>1. IInv => ReadsLatest
    BY DEF IInv, Contents, Holds, Remains, OnHost, OnDevice, Thrown, TypeOK, ReadsLatest
<1> QED
    BY <1>1, Invariance, PTL

\* The side that halide_copy_to_host and halide_copy_to_device copy from always
\* has the newest data.
THEOREM DataAreKept ==
    ASSUME "free" \notin MayFail
    PROVE  Spec => []LatestKept
<1>1. IInv => LatestKept
    BY DEF IInv, Contents, Holds, Remains, TypeOK, LatestKept
<1> QED
    BY <1>1, Invariance, PTL
=============================================================================
