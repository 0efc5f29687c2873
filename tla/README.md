# A TLA+ verification of the Halide/CoreIR runtime and of parts of its compiler

Halide is a language and compiler for image processing. The repository is the fork that
also generates hardware: it lowers a pipeline to LLVM code linked with a runtime library
(`src/src/runtime`), to C for high level synthesis (HLS) with a library of stencils and line
buffers (`src/apps/hls_examples/hls_support`), and to CoreIR. Most of the compiler rewrites
syntax trees, one thread at a time. What is hard to test is elsewhere: in the runtime, which
is called by many threads and devices and has to survive failures, in the contracts between
generated code and the runtime, and in the hardware's dataflow. These are the parts that the
modules here model, check with TLC and, in part, prove with TLAPS.

All paths below are relative to the repository root as `PROJECT.json` names it (`src/...`).

## 1. Inventory

| Component | State | Operations | Interacts with | What makes it correct |
|---|---|---|---|---|
| Thread pool (`thread_pool_common.h`, `posix_threads.cpp`) | list of jobs on their callers' stacks, counters, A and B team, threads | `halide_do_par_for` (nested too), worker loop, `halide_set_num_threads`, `halide_shutdown_thread_pool` | generated parallel loops call it and are called back for each task | each task runs once while its call is open; the call's result tells of failures; no job is used after its frame is gone; no lost wakeup; shutdown joins everybody |
| Memoization cache (`cache.cpp`, with the statements `Memoization.cpp` generates) | hash table, LRU list, size, use counts, block headers | lookup, store, release, set_size, cleanup | pipelines hold results until they release them | a held result is right and alive; nothing leaks; table, list, sizes and counts agree; eviction takes the oldest |
| Device interface (`device_interface.cpp`) | host and device pointers and the two dirty bits of a `buffer_t` | copies, mallocs, frees, moving from one device to another | applications, generated code, device backends | whoever copied successfully sees the newest data; failures lose nothing |
| Copy injection (`InjectHostDevBufferCopies.cpp`) | compile-time `BufferInfo` of each buffer | `do_copies`, merge after `IfThenElse`, rewriting of `Allocate` and outputs | the code it produces runs against the device interface | the copies it leaves out were not needed; memory is freed on each way out |
| Line buffers (`Linebuffer.h`) | ring buffers, shift registers, streams of one element | one loop per process of a dataflow region | stream producers and consumers | the stencils are those of `linebuffer_ref`, in order; the region never blocks |
| Grand Central Dispatch pool, serial pool | exit status of a loop | `halide_do_par_for` | as the thread pool | the same contract |
| Sampling profiler (`profiler.cpp`, `profiler_inlined.cpp`, with the calls `Profiling.cpp` injects) | list of pipelines, `current_func`, `active_threads`, sampling thread, memory counters | start, end, sample, reset, shutdown; allocate, free, stack peak | generated code on many threads, its own thread, the Hexagon host code | samples go to what runs, nobody waits forever, counters agree, no peak is lost |
| Tracing (`tracing.cpp`) | trace file, packet buffer | trace, shutdown | generated code on many threads | packets whole and in order |
| Zynq runtime (`zynq.cpp`) | file descriptors, CMA buffers | allocate, free, launch, sync | generated host code, kernel driver | every error path releases what it has |
| JIT modules (`JITModule.cpp`, the JIT part of `Pipeline.cpp`, `DeviceInterface.cpp`, `module_jit_ref_count.cpp`) | reference counts and dependencies of modules, the shared runtimes, default and active handlers | compile, realize, invalidate, release the runtimes, allocate and free on a device | device allocations hold references; pipelines call each other as externs | code stays as long as something can call it, and goes afterwards |
| Device backends (`cuda.cpp`, ...) | contexts, modules, allocations | the functions behind `halide_device_interface` | drivers | the expectations of `DeviceInterface` |
| Hardware kernel extraction and streaming (`ExtractHWKernelDAG.cpp`, `StreamOpt.cpp`, `CodeGen_HLS_Base.cpp`) | kernel DAG with windows, offsets and store bounds; streams, dispatchers and loops of the hardware | analysis, construction of the network; then the network runs | line buffers, DMA | each kernel finds the pixels it needs where it looks for them; the accelerator finishes |
| Passes over loops and storage, expression analysis, front end, lowering driver, code generators, allocation and printing, bindings and tools | syntax trees | rewritings | each other | need a semantics of the language |

`PROJECT.json` lists each of them under `components` with its files, and under `hazards` what
in the modelled ones is hard to test, at its line.

Hard behaviours, by kind: interleavings of threads around one mutex and three condition
variables, with nested calls that make a waiting owner execute other jobs' tasks (thread
pool); two activations that compute the same result (cache); failures half-way through a
sequence of device calls (device interface, copy injection); compile-time knowledge that is
stale at run time (copy injection); a thread that samples variables others write without a
lock, and that stops and starts on its own account (profiler); lock-free counters (profiler);
code that is released while others still hold pointers into it (JIT); capacity limits (cache
size, number of threads, bounded FIFOs); boundaries (empty loops, ring indices, windows of
different sizes merged into one).

## 2. Plan

Done, in this order: thread pool and its proofs, cache, device interface with copy
injection, line buffers, device proofs, profiler and its memory counters, JIT modules and
shared runtime, kernel extraction and the stream network, proof of the memory peaks.

Proved, in this order: thread pool, device interface, memory peaks, line buffers, sampling
thread, JIT runtime, contract of the thread pool, memory counters, cache, copy injection
(section 6).

### Not modelled

- The Grand Central Dispatch pool: its concurrency is in Apple's `dispatch_apply_f`. Reading
  it shows that each task overwrites the loop's `exit_status` (`gcd_thread_pool.cpp`), so that
  a later success hides a failure, while `HalideRuntime.h` asks for a non-zero result.
- The serial pool (a loop), the Windows primitives (wrappers under the same
  `thread_pool_common.h`), tracing (packets under one spin lock, formatting), the Zynq
  runtime (wrappers of `ioctl`, `open` and `mmap` in one thread), allocation and printing.
- The device backends but for what `device_interface.cpp` and the profiler use of them:
  their state is in the drivers.
- The compiler: lowering, simplification, bounds, vectorization, code generation. These
  rewrite syntax trees in one thread; a useful statement about them needs a semantics of the
  whole language. They are most of the repository's lines, and the reason why the models
  cover a small share of it. What is modelled of the compiler is where it makes a promise
  about a run: copy injection, profiling calls, the kernel DAG and its streams.
- Vendored and generated code (`include/Halide.h`, the Xilinx headers, tables), bindings,
  tools and applications.

## 3. Modules

`Bad...` operators in the modules are not part of the models. Each stands next to an
operator of the model and differs from it by a plausible mistake; substituting it must make
a property fail (`mutants` in `PROJECT.json`).

### Thread pool: `ThreadPool`, `ParFor`, `ThreadPoolProofs`, `MCThreadPool`

The mutex is held from the moment a thread acquires it to its release, so the code between
acquiring it and reaching the head of the loop of `worker_thread_already_locked` is one
action, and so is the code from the head of the loop to the release.

| Code | Model |
|---|---|
| `work_queue` | `mutex, jobs, a_team_size, target_a_team_size, threads_created, desired_num_threads, shutdown, initialized` |
| `work` structs, on stacks | `work[j]`, with `live` telling whether the frame still exists; links are `next_job` |
| `worker_thread_already_locked` frames | `top[t]`, `work[j].parent`, `run[t][f]` (the task that a frame executes) |
| `default_do_par_for` to the loop | `ParFor` |
| loop | `Return`, `WorkerExit`, `WaitOwner`, `WaitATeam`, `WaitBTeam`, `ClaimTask`, `FinishTask` |
| return of `halide_cond_wait` | `Rejoin`; `SpuriousWakeup` for a wakeup that nobody asked for |
| `worker_thread` | `WorkerStart` |
| `halide_set_num_threads`, `halide_shutdown_thread_pool` | `SetNumThreads`; `ShutdownCall`, `ShutdownSignal`, `ShutdownJoin`, `ShutdownDestroy` |

`ParFor` is the abstract specification of a call: tasks start once, end with a value, and
the call closes with a result that the header allows. `ParForContract` says that the pool
implements it under the mapping `Contract`; `task` and `returned` are history variables.

Left out: failure to spawn a thread (the code does not look), a shutdown concurrent with
loops (the code's contract excludes it, see `Callers`), custom `halide_do_task` handlers,
the Windows and QuRT primitives.

### Cache: `MemoCache`, `MemoCacheProofs`, `MCMemoCache`

`table` has the hash chains, as sets (at most one entry of a chain matches a key, so the
order does not matter), `entry` the `CacheEntry` structs with both LRU links, `block` the
host blocks with their `CacheBlockHeader`. Lookup is `LookupHit`, `LookupMiss` and
`LookupFails` (malloc fails after some elements of a Tuple); store is `StoreNew`,
`StoreFound` (another activation was first) and `StoreFails`; `Release` is one buffer at a
time; `SetSize`, `Cleanup`. `PruneCache` follows the loop of `prune_cache`, links and all. An
entry that is freed keeps its links, as memory does until malloc returns it again. `Compute`,
`Abandon` and `Fail` are the generated code around it. `uses` is a history of the order of
use, against which the list is compared. An assertion of `cache.cpp` that fails would end the
program, so the step is not taken; `CacheValid` says that none fails. Left out: device memory
of cached results; the debug-only `validate_cache`, whose checks are among the invariants.

### Device interface: `DeviceInterface`, `DeviceBuffer`, `DeviceBufferProofs`, `MCDeviceBuffer`

`DeviceInterface` has each call as an operator from a buffer to the set of its outcomes;
`AndThen` is the code's `if (result == 0)`. Contents of memory are version numbers, 0 for
undefined contents. The functions behind `halide_device_interface` are what
`device_interface.cpp` expects of them, as `cuda.cpp` has them. `MayFail` says which may
fail. A free has two ways to: the driver reports an error and the reference to the memory is
dropped all the same (`"free"`), or the context of the device is lost and `buf->dev` stays
set (`"context"`). `halide_device_free` and `halide_device_and_host_free` then end the process
at their assertion that the memory is gone (`device_interface.cpp:248`, `317`), which is the
result `"not_freed"`. A move between devices goes through `halide_device_free` too.

`DeviceBuffer` is an application whose threads use one `buffer_t` on the host and on
devices by the rules of the interface: copy first, mark dirty after writing, share only for
reading and on one device at a time. It may free the device memory at any time (`Free`), also
while the device has the newest data, and `left` is what it then has left of them. Without
any it does not read before it has written the whole buffer. If the host has them too, it
marks the host side dirty (`MarkHost`) before a pipeline reads the buffer on a device; this
is needed (section 5).

### Copy injection: `CopyInjection`, `CopyInjectionProofs`, `MCCopyInjection`

Composes the pass with `DeviceInterface`, for one buffer. A behaviour compiles a program and
then runs it:

| Code | Model |
|---|---|
| the walk of `InjectBufferCopies` over the stages | `InjectStep`: takes the next step of the program, a stage or an `IfThenElse` of two, and appends the `BufferInfo` after it (`InfoAfter`: `do_copies`, `Merged`) to `info` |
| `state[buf]` before each statement | `info[n]`, the `BufferInfo` before step `n`; its `known` says whether the map has the buffer |
| what is put in front: `Allocate` of an internal buffer, first copy of an output | `Prologue`, from the last `BufferInfo` |
| call of the pipeline | `Start`, with any coherent buffer if the buffer is the caller's |
| the code around a stage | `NextStep` takes `do_copies(info[n], stage).code`; `rest` is what is left of it, and each call is an action with all its outcomes |
| `register_destructor`, `call_destructor` | `dtors`; `RunDestructor` runs one, at the end and after an error, and `Exit` returns |

`latest` is the version written last, which the pass and the runtime do not know. Left out:
copies at several loop levels, extern stages, image loads of the OpenGL backend.

### Line buffers: `LinebufferRef`, `Linebuffer`, `LinebufferProofs`, `MCLinebuffer`

`LinebufferRef` is `linebuffer_ref`: the sequence of stencils a line buffer has to write.
`Linebuffer` is the network: `Source`, `Buf3D` (`LB3D_buf`), one of `Buf2D`, `Shift2D`,
`Sipo2D` (the specializations of `Linebuffer2D`), one of `Bypass1D`, `Shift1D`, `Sipo1D` (of
`Linebuffer1D`), and `Sink`. One action is one iteration of a pipelined loop; streams hold
one element. Extents are in units of input stencils, which the code always moves as a whole.
The image holds at each place the name of that place, so two stencils are equal only if they
show the same part of the same frame; uninitialized registers hold a place of no frame.
Left out: the packing of stencils into words.

### Profiler: `Profiler`, `ProfilerProofs`, `MCProfiler`; `ProfilerMemory`, `ProfilerMemoryProofs`, `MCProfilerMemory`

| Code | Model |
|---|---|
| `halide_profiler_state` | `started, current_func, active_threads, first_free_id, pipelines, first_func_id`; `polling` is whether `get_remote_profiler_state` is set |
| `sampling_profiler_thread` | `sampler` is where it is; `SamplerStart`, `SamplerContinue`, `SamplerSample` (with `bill_func`, which moves the pipeline to the front), `SamplerBreak`, `SamplerWake`, `SamplerExit` |
| a pipeline with the calls of `inject_profiling` | `Begin`, `halide_profiler_pipeline_start`, `Enter`, `halide_profiler_set_current_func`, `Leave` or `Fail`, `halide_profiler_pipeline_end` (the destructor, run on every way out) |
| parallel loops, loops on the DSP | `LoopEnter`, `TaskBegin`, `TaskEnd`, `TaskFail`, `LoopExit`, `LoopFailed`; `RemoteEnter`, `RemoteExit`, `RemoteFail` |
| `halide_profiler_reset`, `halide_profiler_shutdown` | actions of the same name (a shutdown spins until `ShutdownReturn`) |

The sampler holds the lock for as long as it does not sleep, so `Locked` is a function of
where it is; the critical sections of the others touch nothing that is written without the
lock and are one step each. `reset` and `shutdown` happen while no pipeline runs, as the
header asks. On the DSP a sample may find any id that a kernel once set there. Left out: the
sums of times and samples, the text of the report.

`ProfilerMemory` has the counters that threads update without a lock, one step per atomic
operation, with `sync_compare_max_and_swap` as its read and its swaps. `live` is what the
threads have allocated, `high` a history of the largest value that was due to a peak. The
two modules share no variable: the profiler's list is read once (`Enter`) to find the
statistics, and they are not freed while pipelines run.

### JIT: `JITRuntime`, `JITRuntimeProofs`, `MCJITRuntime`

`kind, life, ref_count, deps` are the `JITModuleContents`; `deps` counts twice for a module
with an execution engine, whose memory manager copies the vector (`Copies`). `get` is
`JITSharedRuntime::get` with the `make_module` of every missing runtime, under the mutex;
`held` are the local variables of a `compile_jit` under way, between `compile_jit` and
`compile_module`, so that `release_all` by another thread falls in between. `Throw` unwinds a
compilation, wherever the error is thrown (lowering, code generation, linking, or in
`GetFails` half-way through making the runtimes), and marks the one that asked for it as
`"thrown"`, so that the error goes up a chain of externs of any length. `leaked` counts the
references of engines that an error leaves behind (`LeftBehind`; a choice, since not every
error does). `cache` is the cache size in the current main runtime; the caches of older ones
are of no interest, since no setting reaches them. `Destroy` is a destructor, a step of its own.
`halide_device_malloc` and `halide_device_free` count references through
`adjust_module_ref_count`, which destroys nothing. `crashed` is the outcome of freeing a
device buffer through libHalide after `release_all`. Left out: symbol lookup, the LLVM
engine, handlers set per pipeline, two threads on one `Pipeline`.

### Stream network: `StreamNetwork`, `MCStreamNetwork`

A state starts with a design (functions, which pixels of one another they read, which are
inlined, FIFO depths, pixels per iteration). `BuildDAG` is the analysis: from the output
back, the box of every use, `extract_stencil_specs`, `merge_consumer_stencils`. The
variables are then the running network that `StreamOpt` and `CodeGen_HLS_Base` generate:
`chan` the streams with their depths, `it` and `got` the compute loops, `lb` the line
buffers, `disp` the dispatchers, and the DMA at both ends. A pixel is its coordinate.
`PixelsRead` is a reference that knows nothing of windows: what the definitions of the
functions read. One dimension slides, because the code treats dimensions one by one and
`Linebuffer` has the others. `Accepted` are the code's assertions; `Aligned` is a condition
that the code needs and does not check (section 5). An inlined function is
taken to be nested in the scan loops of the kernel that it is computed in: directly at the
level of the accelerator `transform_kernel` stops with an internal error
(`StreamOpt.cpp:405-412`). Left out: update definitions, taps, dimensions that do not slide,
the marking of kernels, the Zynq intrinsics.

## 4. Runs

| Run | Bounds | What it shows |
|---|---|---|
| `pool` | 2 clients, up to 3 threads, 2 calls of 1 or 2 tasks that may fail, sizes 1 and 4 requested | all safety invariants, the contract, and which threads the teams leave out |
| `pool_live` | 1 client, otherwise as `pool` | every call returns and every shutdown ends, under fairness |
| `cache` | 2 activations, 2 keys with the same hash, one a Tuple, room for one of them, any allocation may fail | results right and alive, no leak, exact accounting, no failing assertion, nothing in use is evicted |
| `cache_sizes` | 1 activation, 3 keys, sizes changed at any time | the same accounting under `set_size`, eviction in the order of use, also of several entries at once, and no more than needed stays |
| `cache_prune` | as `cache`, with `set_size` | *violation*: eviction from the middle of the LRU list leaves a dangling link |
| `device` | 3 threads, 2 devices, 4 changes; mallocs and copies may fail and the context may be lost | readers see the newest data whatever was freed before, failures lose nothing |
| `copies` | programs of up to 3 steps, 2 devices, one `IfThenElse` on an internal buffer, all calls may fail | stages see the newest data, callers get a coherent buffer, no assertion fails but the one that freed memory is gone, no leak of device memory |
| `linebuffer` | all 1592 initial states of shapes with extents to 5 and up to 30 stencils per frame, 1 or 2 frames | the network writes what the reference writes, keeps up, and drains |
| `profiler` | 2 threads, pipelines of 1 and 2 Funcs, 1 task at a time per loop (also after one failed), 1 failure of any kind, DSP with profiling | the list and the ids stay exact, a running pipeline has a sampler and uses its listed ids, `active_threads` is right up to failures, samples go to running pipelines; start and shutdown return, a running Func is sampled |
| `profiler_memory` | 2 threads, 2 Funcs, sizes 0 to 2, 2 allocations, 1 failure, stack of one Func | no peak is lost or lowered, the counters agree when no call is under way, each call ends |
| `jit` | 2 pipelines (one calls the other as an extern), host and CUDA, 1 device buffer, 5 modules, 1 error thrown while compiling, linking or making a runtime | exact reference counts, code outlives its users and, but for one case, the handlers of a run, runtimes are not mixed, handlers and cache size follow the settings, the right target runs, everything but two known leaks is reclaimed |
| `stream` | 169 designs: chains and diamonds with all windows in [-1, 1], 1 or 2 pixels per iteration, inlined functions, down- and upsampling by 2, the `fanout_hls` example | every kernel reads the right pixels at the right index; the accelerator completes with empty streams |

Why the bounds are enough to be interesting. *Thread pool*: two calls nest in each other or
come from different clients, two tasks are enough for a job to be complete by a frame other
than its owner's, and three threads for an A team that shrinks to a B team and back; deeper
nesting is covered by the proofs. *Cache*: two colliding keys and a bound of one result
force eviction while the other is in use. The passing runs cannot evict from the middle of
the list (`cache` has at most two entries and no change of size, `cache_sizes` one
activation), which is the case that `cache_prune` shows to be wrong. *Device*: two devices
are needed for a move, a third thread for a reader that runs while another copies; the
proofs cover more. *Copies*: three steps are a write, a move, and a read. *Line buffer*:
extent 5 with an output of 3 has a ring of two lines that wraps; the mutant that ignores the
position of the oldest line is found there. Two frames show that nothing of one leaks into
the next. *Profiler*: two threads are enough for one to end while the other goes on, two
pipelines for the list to be reordered, and one failure for each kind of drift; ids are taken
again after a reset. *Memory counters*: two threads race for one peak and two allocations
make the second one higher or lower than the first. *JIT*: five modules are the most that one
compilation of the caller makes (two runtimes, the extern, its exports, the caller). With a
release in between they are a runtime and a pipeline of the first generation, and a runtime,
the exports and the caller of the second, so that the pipeline can run with the handlers of
the newer runtime. *Stream*: windows of three pixels on either side of a diamond with three
iterations fill the line buffer, and the steady state and both ends occur; with two pixels per
iteration the offsets of consumers differ from those of windows.

Deadlock is checked in the runs of the thread pool and of the profiler. It says little there:
a spurious wakeup or a change of size, of the pool or by the application, is nearly always
possible. That nobody waits for ever is what `CallsReturn`, `ShutdownEnds`, `StartReturns`
and `NobodyOversleeps` say. In the others the system may stop: the JIT when its bound on
modules is used up or it has crashed, the accelerator when it is done (`Completes` says that
it stops nowhere else), the cache after its cleanup, the copies at the end of the program,
the line buffer after its last frame (where `AllDelivered` says that this is the only place
it stops), the device run at its bound on changes or where an assertion ended the process.

Fairness. `pool_live` assumes strong fairness of each thread's steps and of a shutdown's
steps: tasks terminate, threads are scheduled, and the operating system's mutex does not
starve one of its waiters. Nothing is assumed of calls, of changes of size and of spurious
wakeups. `linebuffer` assumes weak fairness of the whole: hardware whose inputs are there and
whose outputs are free moves, and so do its producer and its consumer; `stream` likewise.
`profiler` assumes weak fairness of the sampling thread and of the destructor that spins, and
strong fairness for a thread that waits for the lock in `halide_profiler_pipeline_start`;
nothing makes a pipeline go on. `profiler_memory` assumes weak fairness of
the steps of a thread that is in a call; `jit` that of the destructors which have begun
some one goes on (they run on the stacks of the threads that dropped the references).

## 5. Findings

`cache_prune` is a run that TLC refutes; `findings` in `PROJECT.json` explains it
(`cache.cpp:262`, an LRU link that is left dangling when an entry is evicted from the middle
of the list).

Five more disagreements follow from the models when a restriction is dropped. Each can be
reproduced by the change named:

- `ThreadPool`, `Sizes = {0, 1}`: a job of a loop with no iterations is never unlinked
  (`thread_pool_common.h:125`: `next == max` is looked at only after an increment), and stays
  on the list after its stack frame is gone, although the comment at 123-124 says "If there
  were no more tasks pending for this job, remove it from the stack." `QueueExact` fails.
- `ThreadPool`: after `halide_set_num_threads(1)` workers that exist already still take tasks
  (`thread_pool_common.h:116`), although `HalideRuntime.h:151` says "use exactly one thread;
  this will always enforce serial execution".
- `DeviceBuffer`, `"free"` in `MayFail`: when freeing the old allocation fails during a move
  between devices, `device_interface.cpp:148` returns before `host_dirty` is set ("force copy
  back to new device below", line 150); the retry copies nothing and succeeds.
  `ReadsLatest` fails.
- `CopyInjection`, an `IfThenElse` on a buffer of the caller: the merge
  (`InjectHostDevBufferCopies.cpp:641`) skips a buffer that is first used in the else case,
  which is then taken for current after the then case. `StagesSeeLatest` fails.
- `JITRuntime`, `HandlersOutlive` without its last disjunct: a pipeline runs with the handlers
  of the runtime that is current (`JITModule.cpp:790-795`), which need not be the one it was
  linked with, and nothing counts these pointers (`JITModule.cpp:684-706`). Compile q, call
  `release_all`, compile p and release again: once p is dropped, `active_handlers` lead into
  freed code, and the next `realize` of q calls it. `CodeOutlivesUsers` fails. The property
  excepts exactly this case; what such a call does is not modelled.

Met while modelling, and the reason for restrictions elsewhere:

- `halide_copy_to_device` copies only if `host_dirty` is set, also into memory it has just
  allocated (`device_interface.cpp:154-162`). An application that frees device memory whose
  contents the host has too therefore has to mark the host side dirty before it uses the
  buffer on a device again, as it does in `DeviceBuffer` (`MarkHost`). If `CopyToDevice` does
  not wait for that (`left # "none"` in place of `left = "all"`), a kernel reads undefined
  memory and `ReadsLatest` fails.
- `halide_device_free` clears `dev_dirty` only if there was nothing to free
  (`device_interface.cpp:246-256`), and `cuda.cpp:416-418` lets clients call it on any buffer.
  After it, `dev_dirty` may be set without device memory, so that no invariant relates the
  two: `halide_copy_to_host` returns an error until the buffer is freed again or gets new
  device memory, whose undefined contents it then copies. The application of the model has
  thrown the newest data away in this case and knows it. The theorems cover all that follows.
- When the context of a device is lost, `cuda.cpp:429-431` returns an error and leaves
  `buf->dev` set. `halide_device_free` then ends the process (`device_interface.cpp:248`) where
  a caller might expect the error. `StagesSeeLatest` names this assertion as the only one at
  which a pipeline may end, and the theorems say what holds up to there.
- The merge after an `IfThenElse` resets `dev_allocated` to true
  (`InjectHostDevBufferCopies.cpp:646`), and the memory that `halide_copy_to_device`
  allocates for an internal buffer then has no destructor. `NoDeviceLeak` is therefore said
  of programs without `IfThenElse`.
- An internal buffer with both destructors has `halide_device_free` run before
  `halide_device_and_host_free`, which then finds no device memory and frees no host memory
  (`device_interface.cpp:325`). There is no property about host memory.
- `halide_memoization_cache_cleanup` leaves both ends of the LRU list pointing at freed
  entries (`cache.cpp:528`). Nothing in the repository uses the cache after it, so `Cleanup`
  is the last step of the model.
- `current_device` is `Host` at first, so the first use on a device counts as a use on the
  host as well (`InjectHostDevBufferCopies.cpp:319`), and the host allocation of a buffer
  that is only used on a device is kept.

Profiler:

- When a run on the DSP fails, `halide_hexagon_run` returns before it clears
  `get_remote_profiler_state` (`hexagon_host.cpp:332-335`). The sampler then asks the DSP for
  ever and never sees `please_stop`, and `halide_profiler_shutdown` spins. `ShutdownEnds` and
  `BillsTheRunning` except that case.
- A failure skips the decrement of `active_threads`, and the calls of
  `halide_profiler_memory_free`: both counters drift upwards, by no more than the failures
  account for (`ActiveThreadsCounted`, `CurrentExact`). The thread pool goes on with the other
  tasks of a loop after one of them failed, and those count as usual.
- `HalideRuntime.h:981-982` says of `sleep_time` "Defaults to 1"; the static initializer
  (`profiler.cpp:12`) sets 0. The sampler still releases the lock between samples.
- A Func's `memory_peak` can exceed the pipeline's while calls are under way, since the two
  are updated one after the other.
- The `get_remote_profiler_state` pointer is read by the sampler and written by the Hexagon
  host code without a common lock.
- A reset or a shutdown while a pipeline runs is outside of the model, as the header forbids
  it: a pipeline overwrites `please_stop`, and the shutdown spins for as long as it runs. For
  the same reason `please_stop` is set only by a shutdown; that an application sets it while
  pipelines run (`HalideRuntime.h:1011-1013`) is not modelled.

JIT:

- libHalide's `halide_device_free`, also called by the destructor of a `Buffer`, looks up the
  runtime with `get(nullptr, ...)`; after `release_all` this makes a module from a null
  pointer (`JITModule.cpp:666`). The model stops there (`crashed`).
- `compile_jit` sets `jit_target` before it compiles (`Pipeline.cpp:679`). If it throws, the
  next call finds the target unchanged and reuses the module of the old one. `RightTarget`
  is therefore about runs without a failed compilation.
- When a function turns out not to compile (`JITModule.cpp:160`), the engine is a plain pointer
  that nobody deletes. It keeps the references that its memory manager has, so the runtimes
  it was to be linked with are never freed (`leaked`, excepted by name in `Reclaimed`). An
  error in a runtime for a device leaves those behind that were collected before it
  (`GetFails`); one in the main runtime is no different from an error before `get`.
- `adjust_module_ref_count` never destroys: a device runtime whose last reference was an
  allocation is leaked with the main runtime it depends on (`Reclaimed`).
- The comment at `JITModule.cpp:749` has device runtimes "each only depending on the main
  shared runtime"; a runtime depends on all that were collected before it (`RuntimeDeps`).
- `lookup_runtime_routine` (`DeviceInterface.cpp`) drops its references before the function it
  returns is called, and `set_default_handlers` and `init_jit_user_context` touch the handlers
  without the mutex. The model takes each of these as one step.
- A pipeline compiled after a release whose extern was compiled before it refers to two main
  runtimes; `RuntimesBelongTogether` is about the runtimes of one module.

Stream network:

- The offset of a consumer's region is not checked to be a multiple of the step
  (`StreamOpt.cpp:284`), while the extent is (`:486`). Without `Aligned` three consumers at
  -1, 0 and 1 with two pixels per iteration violate `ReadsRightPixels`: a kernel reads pixels
  1 and 2 for 0 and 1.
- FIFO depths are neither computed nor checked. A diamond with windows of three pixels
  deadlocks with the default depth of 1 and completes with 2; with windows of five pixels it
  takes 4. The depths of `fanout_hls` suffice.
- The merged region of an input may exceed what the software side allocated, as the FIXME at
  `ExtractHWKernelDAG.cpp:302` says; allocation is not modelled.

## 6. Proofs

`ThreadPoolProofs` proves for any number of clients, threads, calls and tasks: `TypeOK`,
`ActiveWorkersExact`, `NoDanglingJob`, `QueueExact`, `NobodyOversleeps` (for owners, the A
team and the B team) and `ShutdownIsComplete`. The assumptions are those on the constants and
`0 \notin Sizes`, which is necessary (section 5). The inductive invariant `IInv` adds to
these:

- `LockInv`: the holder of the mutex is the one thread at the head of the loop;
- `FrameInv`: the live jobs of a thread are its stack, linked by `parent`;
- `TaskInv`: the innermost frame executes a task exactly if control is in one, each frame
  below another one does, and only of live jobs, older than the frame above;
- `QueueInv`: the list is the pending jobs, in order of age;
- `WaitInv`, `ShutInv`, `PoolInv`: who sleeps, who shuts down, which threads exist.

No job dangles because a frame that executes a task of a job counts in `active_workers`, so
that the owner stays in its loop; this needs the count to be exact for nested frames, and
that needs the structure of the stacks. A step of one action is one lemma, which shows the
parts that the action can disturb.

Its second part builds on that invariant and proves, under the same assumptions, the
refinement `ParForContract` and the action property `TeamsAccounted`. The refinement needs
the history: tasks are handed out in order (`HandedOut`), a task is running exactly if one
frame, and only one, executes it (`OneFrameEach`), and `exit_status` is zero or what a failed
task returned (`StatusInv`). A call, a claim, the end of a task and the return of a call are
`Open`, `Start`, `End` and `Close`; the other steps stutter. `Close` is the hard one: an owner
that finds its job not running has `active_workers = 0`, so by the exact count no frame
executes a task of it, and since `next` has reached `max` all of them are done (`AllDone`).
`TeamsAccounted` says which threads `a_team_size` and the B team leave out (`Uncounted`). The
code sets `a_team_size` only when it initialises the queue
(`thread_pool_common.h:187`), so a thread that is created later because the running pool has
grown (`192-197`) is in neither, and nothing else may be: every initialisation, also after a
shutdown and with another size, starts with none left out, and each step of a running pool
leaves out as many more as it creates threads. It holds because a thread that is created had
no place in a team before, and a broadcast only names conditions, never a thread that already
woke up from one.

`DeviceBufferProofs` proves `ReadsLatest` and `LatestKept` for any number of threads, devices
and changes, device memory freed at any time, and any failures, a lost context included, but
that of the driver's freeing memory. The assumption `"free" \notin MayFail` is necessary too
(section 5). First come lemmas on the calls (`CopyToHostOutcomes`, `FreeOutcomes`,
`FlipOutcomes`, `MallocOutcomes`, `UploadOutcomes`, `CopyToDeviceOutcomes`): each outcome of
a call, also a failure, keeps `Holds(b, v)`, which says that version `v` is where the dirty
bits say. The invariant adds that writers are alone, that pipelines share one device, and
that what a copy has established is not undone while a thread relies on it: a thread on the
host keeps `dev_dirty` clear, a kernel keeps `host_dirty` clear and the allocation in place.
`Holds` is said while `left` is "all". After a free `Remains` takes its place, in which
`dev_dirty` may be stale, and `Thrown` says why this harms nobody: no thread reads on a
device, nor on the host if the host does not have the data, and new device memory exists only
for a kernel that is about to write it.

`CopyInjectionProofs` proves `StagesSeeLatest`, `CallerCanRead` and `NoDeviceLeak` for any
devices, programs of any length and any failures of the runtime calls, both ways to fail of
freeing included (up to the assertion that ends the process, if the memory is still there),
from `Branching \subseteq {"internal"}`: an `IfThenElse` may touch internal buffers only.
This is necessary (section 5, the merge at line 641). The invariant has three parts.

- `PassInv`: `info` is what the pass computes from step to step, and each `BufferInfo` is
  `Consistent`: a buffer that the pass takes for current on a device, or has moved to one,
  counts as touched on the host as well (line 319). Because of this `do_copies` puts a copy in
  front of every stage on a device, also if it takes the data for current there
  (`DeviceCopies`): what it really leaves out are copies to the host.
- `RunInv`: where in the code of a stage the run is (`InCode`), and what holds there. Between
  stages `Fits(info[n], buf, latest)` says that the dirty bits name the newest data
  (`Good`) and that `dev_dirty` is clear if the pass takes the host for current. This is the
  point at which compile-time knowledge and run-time state meet; the merge after an
  `IfThenElse` has to keep it for both branches (`StepDone`).
- `ExitInv`: a caller's buffer is `Readable` after an error. This is weaker than `Good`: a
  failed free in a move between devices leaves a buffer without device memory whose
  `host_dirty` is not set. It must not be used for a further device stage (section 5), and it
  is not, because the assertion on the result ends the pipeline; the host side can be read.
  For an internal buffer without `IfThenElse`, device memory implies a destructor, since the
  first call that may allocate is the one `do_copies` registers a destructor for (`Covered`).

The lemmas on the calls (`CopyToDeviceOutcomes` and others) differ from those of
`DeviceBufferProofs` in that freeing may fail. Then there is a lemma for each place in the
code of a stage (`CodeMalloc`, `CodeToHost`, `CodeToDevice`, `CodeStage`, `CodeDirty`) and one
for each action.

`ProfilerMemoryProofs` proves `PeakExact` for any number of threads, Funcs, sizes and
failures, from `MemoryAssumption` alone. The invariant adds the shape of the variables and
`CallsInv`: the value that a thread carries in `sync_compare_max_and_swap` was reached, and
the thread swaps only to raise the value that it read. Without the second fact a swap could
lower a peak that another thread has already left behind.

It also proves `CurrentExact`, from an invariant (`Accounts`) that balances the books at every
step and not only between calls. Each call under way adds a share: `Between` are the
allocations that have reached the pipeline and not yet the Func, "sub" the frees that have
left the pipeline and not yet the Func. Then a pipeline has the sums of its Funcs plus the
first minus the second; and a Func, and the pipeline, have at least what is due to the
threads (`Owed`, `PipelineOwed`), exactly that for a Func if nothing failed. A free takes what
is due to its own thread, which is a part of the total, so no unsigned counter wraps. Sums
are cardinalities (`Total`): that a sum changes by as much as one of its parts (`TotalUpdate`)
then follows from the cardinality of a union, without induction.

`LinebufferProofs` proves `ImplementsRef` and `KeepsUp` for every shape that can be
instantiated and any number of frames, from `ShapesAssumption` (extents are positive). The
invariant says of every stream that it is empty and its reader is at the place where the
writer emits next, or that it holds what the reader expects and the writer is one place ahead
(`Link`); of every ring, that the lines of the window which ends at the place of its process
are found in order after the line written next, also half-way through a line (`Ring2`,
`Ring3`); and of registers and arrays, that they hold the stencils read last. The refinement
then maps a step of the sink to a step of the reference, and every other step to a stutter.

`ProfilerProofs` proves `StateValid`, `ActiveThreadsCounted` and the action property
`BillsTheRunning` for any number of threads, pipelines, Funcs, tasks and failures, tasks that
begin after another one of their loop failed included. The
invariant adds `CurrentRuns` (`current_func` is no id of a listed pipeline that nobody runs,
which is what a sample relies on), `Stopping` (only a shutdown, while nothing runs, sets
`please_stop`), and that tasks exist only inside of a loop.

`JITRuntimeProofs` proves `RefCountExact`, `CodeOutlivesUsers`, `BuildIsConsistent` and
`SettingsInForce` for any number of pipelines, any chains of externs, device APIs, buffers,
modules and failures, from `JITAssumption` (sets of pipelines and buffers are finite, the
runtime kinds are different, and targets consist of device APIs). `MInv` has the counts:
modules are numbered in the order they are made, so a new one is referred to by nobody
(`Numbered`); each count is the sum over those who refer to the module (`Counted`); and who
is referred to is live (`UsersLive`). The last two need each other: a drop starts a
destructor only if the count reaches zero, which by the exact count leaves nobody who refers
to it, and only live modules are dropped, so that no destructor starts twice. `Compiling`
says what a pipeline holds at each point of `compile_jit`; from it `get` never adds a
reference to what a compilation holds already. `BInv` has the builds: what a made module is
does not change (`Stable`), device runtimes of the globals depend on the current main
runtime, what a compilation has got is coherent, and the externs it has collected were built
for its target. `Handlers`, also a part of `BInv`, is what the uncounted pointers rest on:
the handlers of the runtimes are those of the newest main runtime that was made, since a
runtime made later overwrites them, and a run copies them when it starts. So a run never has
the handlers of a runtime older than its own; if they are its own runtime's, the pipeline's
references keep that alive, and if they are the current one's, the global does. The case that
is left is the one of section 5. The proof attempt showed that an earlier `Throw` unwound
only one caller, which left a chain of three pipelines with a compilation that nobody
continues.

`MemoCacheProofs` proves `HeldIsRight` and `NoLeak`; the action property `UsedStay`, that no
step evicts an entry in use or gives its struct to another result; and of the parts of
`CacheValid` the two that they rest on, `InUseExact` and `UniqueKeys`, for any number of
activations, keys, entries and blocks, from `CacheAssumption`, which leaves hash values,
sizes and bounds open. The invariant (`Sound`) says that the allocated entries are those in
the table, in their buckets (`Homes`); that the header of a block and the entry it points to
agree (`Owner`); that what a client holds is allocated, right once it is computed, and held
by nobody else until it is stored (`Holder`); that an allocated block without an entry has a
client (`NoOrphans`); that the use counts are the pairs of a client and a block it holds
(`Counted`); and that no key has two entries. They need each other: an entry is freed when
its count is zero, the exact count then leaves nobody who holds its blocks, and a hit is
right because of `Owner`. `Sound` has the table, the entries and the blocks as parameters,
since `prune_cache` passes through many such states in one step: one eviction keeps it
(`PrunedSound`), and if a round of the loop did not, there would be a first one
(`PruneCacheSound`).

The links of the LRU list occur nowhere in the invariant. So these theorems also hold in runs
where line 262 has left a dangling link (`cache_prune`), but there they speak of the model,
which reads the old links of an entry that has been freed; what the program reads there is
undefined. The assertions of `cache.cpp` need the links too: the theorems speak of runs up to
the first that fails. `CacheValid` as a whole, which says that none does, and the order of
eviction do need the links, hold only as long as that line is harmless, and are model-checked
with bounds that make it so.

Only model-checked: liveness (`CallsReturn`, `ShutdownEnds`, `AllDelivered`, `StartReturns`,
`RunningIsBilled`, `CallsEnd`, `EventuallyReclaimed`, `Completes`), which this prover does not
reach; the LRU list and the sizes of the cache (`CacheValid`, `EvictsOldest`, `PrunesEnough`),
which the finding at line 262 makes false in general; and `ReadsRightPixels` of the stream
network. The kernel DAG is a recursive computation, and what such a computation yields for
every design cannot be proved here.
