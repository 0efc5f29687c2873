---------------------------- MODULE DeviceBuffer ----------------------------
(***************************************************************************)
(* An application that keeps data in a buffer_t and works on it on the     *)
(* host and, through Halide pipelines, on devices, with the calls of       *)
(* src/runtime/device_interface.cpp in between.  copy_to_host and          *)
(* copy_to_device hold device_copy_mutex, so each is one step.             *)
(*                                                                         *)
(* The application follows the protocol the interface asks for: it looks   *)
(* at the data on the host only after halide_copy_to_host has returned 0,  *)
(* sets host_dirty after writing there, and lets several threads use the   *)
(* buffer at the same time only to read it, and on one device.  It may     *)
(* free the device memory at any time, but knows what it has thrown away:  *)
(* without the newest data it does not read before it has written all of   *)
(* the buffer, and after freeing memory whose contents the host has too it *)
(* sets host_dirty before a pipeline reads the buffer on a device, as      *)
(* halide_copy_to_device would not copy them.                              *)
(***************************************************************************)
EXTENDS DeviceInterface

CONSTANTS
    Threads,
    MaxVersion          \* bound: how often the data are changed

ASSUME BufferAssumption == MaxVersion \in Nat

VARIABLES
    buf,
    latest,             \* the version of the data the application last wrote
    left,               \* what the application has left of the data, freeing memory:
                        \* "all", those on the "host", or "none"
    pc,                 \* what each thread does with the buffer
    at                  \* the device of its pipeline

vars == <<buf, latest, left, pc, at>>

Init ==
    /\ buf = NewBuffer(TRUE)
    /\ latest = 0
    /\ left = "all"
    /\ pc = [t \in Threads |-> "idle"]
    /\ at = [t \in Threads |-> None]

Alone(t) == \A u \in Threads \ {t} : pc[u] = "idle"
NoWriter(t) == \A u \in Threads \ {t} : pc[u] \notin {"write_host", "launch_write", "kernel_write"}

-----------------------------------------------------------------------------
\* halide_copy_to_host, to read the data on the host or to change them there.
CopyToHost(t, next) ==
    /\ pc[t] = "idle"
    /\ next = "read_host" => NoWriter(t) /\ left # "none"
    /\ next = "write_host" => Alone(t)
    /\ \E o \in halide_copy_to_host(buf) :
          /\ buf' = o.buf
          /\ pc' = [pc EXCEPT ![t] = CASE o.result = "ok" -> next
                                       [] o.result = "error" -> "idle"
                                       [] OTHER -> "abort"]
    /\ UNCHANGED <<latest, left, at>>

ReadHost(t) ==
    /\ pc[t] = "read_host"
    /\ pc' = [pc EXCEPT ![t] = "idle"]
    /\ UNCHANGED <<buf, latest, left, at>>

WriteHost(t) ==
    /\ pc[t] = "write_host"
    /\ latest < MaxVersion
    /\ latest' = latest + 1
    /\ left' = "all"
    /\ buf' = [buf EXCEPT !.hostData = latest + 1, !.host_dirty = TRUE]
    /\ pc' = [pc EXCEPT ![t] = "idle"]
    /\ UNCHANGED at

Active(u) == pc[u] \in {"launch", "launch_write", "kernel", "kernel_write"}

\* A pipeline is called that reads or writes the buffer on device i, or on the
\* device where it is.
Start(t, i, next) ==
    /\ pc[t] = "idle"
    /\ next = "launch" =>
          /\ left = "all"
          /\ NoWriter(t) /\ \A u \in Threads : Active(u) => at[u] = i
    /\ next = "launch_write" => Alone(t)
    /\ pc' = [pc EXCEPT ![t] = next]
    /\ at' = [at EXCEPT ![t] = i]
    /\ UNCHANGED <<buf, latest, left>>

Kernels == [launch |-> "kernel", launch_write |-> "kernel_write"]

CopyToDevice(t) ==
    /\ pc[t] \in {"launch", "launch_write"}
    /\ \E o \in halide_copy_to_device(buf, at[t]) :
          /\ buf' = o.buf
          /\ pc' = [pc EXCEPT ![t] = CASE o.result = "ok" -> Kernels[pc[t]]
                                       [] o.result = "error" -> "idle"
                                       [] OTHER -> "abort"]
    /\ UNCHANGED <<latest, left, at>>

\* The kernel is done; if it wrote, the generated code calls set_dev_dirty.
Kernel(t) ==
    /\ pc[t] = "kernel"
    /\ pc' = [pc EXCEPT ![t] = "idle"]
    /\ UNCHANGED <<buf, latest, left, at>>

KernelWrites(t) ==
    /\ pc[t] = "kernel_write"
    /\ latest < MaxVersion
    /\ latest' = latest + 1
    /\ left' = "all"
    /\ buf' = [buf EXCEPT !.devData = latest + 1, !.dev_dirty = TRUE]
    /\ pc' = [pc EXCEPT ![t] = "idle"]
    /\ UNCHANGED at

\* halide_device_free.
Free(t) ==
    /\ pc[t] = "idle" /\ Alone(t)
    /\ \E o \in halide_device_free(buf) :
          /\ buf' = o.buf
          /\ pc' = [pc EXCEPT ![t] = IF o.result = "not_freed" THEN "abort" ELSE "idle"]
    /\ left' = IF buf.dev = None \/ buf.host_dirty THEN left
               ELSE IF buf.dev_dirty THEN "none" ELSE "host"
    /\ UNCHANGED <<latest, at>>

\* The application marks the data on the host as newer than those on a device.
MarkHost(t) ==
    /\ pc[t] = "idle" /\ Alone(t)
    /\ left = "host"
    /\ buf' = [buf EXCEPT !.host_dirty = TRUE]
    /\ left' = "all"
    /\ UNCHANGED <<latest, pc, at>>

ThreadStep(t) ==
    \/ \E next \in {"read_host", "write_host"} : CopyToHost(t, next)
    \/ ReadHost(t) \/ WriteHost(t)
    \/ \E i \in Devices \cup {None}, next \in {"launch", "launch_write"} : Start(t, i, next)
    \/ CopyToDevice(t) \/ Kernel(t) \/ KernelWrites(t) \/ Free(t) \/ MarkHost(t)

Running == \A t \in Threads : pc[t] # "abort"
Next == Running /\ \E t \in Threads : ThreadStep(t)

Spec == Init /\ [][Next]_vars

-----------------------------------------------------------------------------
Phases == {"idle", "read_host", "write_host", "launch", "launch_write", "kernel",
           "kernel_write", "abort"}

\* Type invariant.
TypeOK ==
    /\ buf \in Buffers(0..MaxVersion)
    /\ latest \in 0..MaxVersion
    /\ left \in {"all", "host", "none"}
    /\ pc \in [Threads -> Phases]
    /\ at \in [Threads -> Devices \cup {None}]

\* Whoever looks at the data after a successful copy sees the newest version,
\* in memory that is still there: on the host after halide_copy_to_host, in a
\* kernel on its device after halide_copy_to_device.  A writer may count on the
\* old contents too, unless the application has thrown them away.
ReadsLatest ==
    \A t \in Threads :
        /\ pc[t] = "read_host" => buf.hostData = latest
        /\ pc[t] = "write_host" /\ left # "none" => buf.hostData = latest
        /\ pc[t] \in {"kernel", "kernel_write"} =>
              /\ buf.dev # None /\ at[t] \in {buf.dev, None}
              /\ pc[t] = "kernel" \/ left = "all" => buf.devData = latest

\* No sequence of failures loses the data: the dirty bits are never both set, on
\* which the copies fail in either direction, and the side that they say to copy
\* from has the newest version, until the application frees the memory that has
\* it.
LatestKept ==
    /\ ~(buf.host_dirty /\ buf.dev_dirty)
    /\ left # "none" =>
          IF buf.dev_dirty THEN buf.devData = latest ELSE buf.hostData = latest
=============================================================================
