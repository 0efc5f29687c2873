----------------------------- MODULE JITRuntime -----------------------------
(* Just-in-time compilation: JITModule.cpp, the JIT part of Pipeline.cpp and *)
(* DeviceInterface.cpp.  Compiled code lives in reference-counted modules:   *)
(* one shared runtime per kind (MainShared and one per device API), kept by  *)
(* the globals shared_runtimes until release_all; one module per compiled    *)
(* pipeline, which depends on the runtimes; and one that only exports the    *)
(* symbols of the pipelines that another calls as externs.  A device         *)
(* allocation holds a reference to the runtime of its device, because its    *)
(* handle contains pointers to that code.                                    *)
(*                                                                           *)
(* Pipelines are compiled and run by different threads; no two threads use   *)
(* the same pipeline.  A module is destroyed by the thread that drops its    *)
(* last reference, here in a step of its own (Destroy).  The seven handlers  *)
(* of JITHandlers are treated alike, so the model has one.                   *)
EXTENDS Naturals, Integers, Sequences, FiniteSets

CONSTANTS
    Pipelines,      \* Pipeline objects of the program
    ExternOf,       \* the pipeline that one calls as its extern, or None
    DeviceKinds,    \* the device APIs, in the order JITSharedRuntime::get asks for them
    Targets,        \* sets of device APIs that are asked for
    Buffers,        \* buffers that may have a device allocation
    CacheSizes,     \* arguments of memoization_cache_set_size
    MaxModules,     \* bound: modules made during a run
    MaxFailures,    \* bound: errors that are thrown while compiling
    None,           \* no module, no target
    Custom          \* a handler of the application

VARIABLES
    kind,               \* what each module is
    life,               \* "unused", "live", "dying" (in its destructor) or "dead"
    ref_count,          \* JITModuleContents::ref_count
    deps,               \* JITModuleContents::dependencies
    built,              \* the target a pipeline's module was compiled for
    shared_runtimes,    \* the global of each kind; None is an empty JITModule
    default_cache_size,
    cache,              \* the size of the current MainShared's memoization cache
    internal,           \* the runtime whose functions runtime_internal_handlers holds
    custom,             \* whether default_handlers replaces the runtime's
    active,             \* active_handlers
    jit_module, jit_target,     \* PipelineContents
    pc,                 \* where a pipeline's compile_jit or realize is
    held,               \* modules referred to by the local variables of compile_jit
    handlers,           \* JITUserContext::handlers of a run
    dev,                \* the runtime of a buffer's device allocation, or None
    leaked,             \* references to each module from engines that nothing deletes
    failures,           \* errors thrown
    crashed             \* the program followed a null pointer

modVars == <<kind, life, ref_count, deps, built, leaked>>
globals == <<shared_runtimes, default_cache_size, cache, internal, custom, active>>
pipeVars == <<jit_module, jit_target, pc, held, handlers>>
vars == <<modVars, globals, pipeVars, dev, failures, crashed>>

Modules == 1..MaxModules
RuntimeKinds == <<"MainShared">> \o DeviceKinds
Kinds == {RuntimeKinds[i] : i \in DOMAIN RuntimeKinds}
Devices == Kinds \ {"MainShared"}

ASSUME JITAssumption ==
    /\ IsFiniteSet(Pipelines) /\ IsFiniteSet(Buffers)
    /\ ExternOf \in [Pipelines -> Pipelines \union {None}]
    /\ DeviceKinds \in Seq(Devices)
    /\ \A i, j \in DOMAIN RuntimeKinds : RuntimeKinds[i] = RuntimeKinds[j] => i = j
    /\ {"unused", "externs", "func"} \intersect Kinds = {}
    /\ \A t \in Targets : t \subseteq Devices
    /\ MaxModules \in Nat /\ MaxFailures \in Nat /\ CacheSizes \subseteq Nat
    /\ None \notin Pipelines /\ None \notin Targets /\ None \notin Modules

(* Operators named Bad... are not part of the model: each is a plausible     *)
(* mistake in the definition that follows it, used to test that a property   *)
(* notices the mistake.                                                      *)

-----------------------------------------------------------------------------
(* Modules and their reference counts.                                       *)

Alive(m) == life[m] \in {"live", "dying"}

Fresh == Cardinality({m \in Modules : life[m] # "unused"}) + 1

\* How often a module of this kind refers to each of its dependencies: an engine's
\* memory manager has a copy of its own, and the exports module has no engine.
BadCopies(k) == 2

Copies(k) == IF k = "externs" THEN 1 ELSE 2

\* IntrusivePtr: drop[m] references to m go, and the last one destroys it.
AfterDrop(m, count, dropped) ==
    IF dropped > 0 /\ count = 0 THEN "dying" ELSE life[m]

Drop(drop) ==
    /\ ref_count' = [m \in Modules |-> ref_count[m] - drop[m]]
    /\ life' = [m \in Modules |-> AfterDrop(m, ref_count[m] - drop[m], drop[m])]

One(b) == IF b THEN 1 ELSE 0

\* ~JITModuleContents: static destructors, the engine, then the dependencies.
BadDestroy(m) ==
    /\ life[m] = "dying"
    /\ ref_count' = [d \in Modules |-> ref_count[d] - One(d \in deps[m])]
    /\ life' = [d \in Modules |->
                  IF d = m THEN "dead"
                  ELSE AfterDrop(d, ref_count[d] - One(d \in deps[m]), One(d \in deps[m]))]
    /\ UNCHANGED <<kind, deps, built, leaked, globals, pipeVars, dev, failures, crashed>>

Destroy(m) ==
    /\ life[m] = "dying"
    /\ LET lost == [d \in Modules |-> IF d \in deps[m] THEN Copies(kind[m]) ELSE 0]
       IN  /\ ref_count' = [d \in Modules |-> ref_count[d] - lost[d]]
           /\ life' = [d \in Modules |->
                         IF d = m THEN "dead"
                         ELSE AfterDrop(d, ref_count[d] - lost[d], lost[d])]
    /\ UNCHANGED <<kind, deps, built, leaked, globals, pipeVars, dev, failures, crashed>>

-----------------------------------------------------------------------------
(* JITSharedRuntime.                                                         *)

\* Which runtimes get() returns for a target, and the order in which it adds them.
Wanted(t) == {k \in Kinds : k = "MainShared" \/ k \in t}

Before(k, l) ==
    \E i, j \in DOMAIN RuntimeKinds : i < j /\ RuntimeKinds[i] = k /\ RuntimeKinds[j] = l

Missing(t) == {k \in Wanted(t) : shared_runtimes[k] = None}

\* The globals once make_module has made what is missing.
Runtimes(t) ==
    [k \in Kinds |->
       IF k \in Missing(t) THEN Fresh + Cardinality({l \in Missing(t) : Before(l, k)})
       ELSE shared_runtimes[k]]

Result(t) == {Runtimes(t)[k] : k \in Wanted(t)}

\* A new runtime depends on all that get() has collected before it.
RuntimeDeps(t, k) == {Runtimes(t)[l] : l \in {j \in Wanted(t) : Before(j, k)}}

\* merge_handlers
Badmerge_handlers(base, addins) == IF addins THEN Custom ELSE active

merge_handlers(base, addins) == IF addins THEN Custom ELSE base

\* The cache of a new MainShared: 0 stands for the size a runtime starts with.
NewCacheSize == default_cache_size

\* get() under shared_runtimes_mutex, called from the constructor of p's module: the
\* runtimes for t are made as far as they are missing, and returned.
GetRuntimes(p, t) ==
    LET new == {Runtimes(t)[k] : k \in Missing(t)}
        KindOf(m) == CHOOSE k \in Missing(t) : Runtimes(t)[k] = m
        Main == Runtimes(t)["MainShared"]
    IN  /\ new \subseteq Modules
        /\ shared_runtimes' = Runtimes(t)
        /\ kind' = [m \in Modules |-> IF m \in new THEN KindOf(m) ELSE kind[m]]
        /\ deps' = [m \in Modules |->
                      IF m \in new THEN RuntimeDeps(t, KindOf(m)) ELSE deps[m]]
        /\ life' = [m \in Modules |-> IF m \in new THEN "live" ELSE life[m]]
        /\ held' = [held EXCEPT ![p] = @ \union Result(t)]
        /\ ref_count' = [m \in Modules |->
              ref_count[m] + One(m \in new) + One(m \in Result(t))
                + 2 * Cardinality({n \in new : m \in RuntimeDeps(t, KindOf(n))})]
        /\ IF Main \in new
           THEN /\ internal' = Main
                /\ active' = merge_handlers(Main, custom)
                /\ cache' = NewCacheSize
           ELSE UNCHANGED <<internal, active, cache>>
        /\ UNCHANGED <<built, leaked, default_cache_size, custom, jit_module, jit_target,
                       handlers, dev, crashed>>

get(p) ==
    /\ pc[p] = "codegen"
    /\ GetRuntimes(p, jit_target[p])
    /\ pc' = [pc EXCEPT ![p] = "linking"]
    /\ UNCHANGED failures

\* make_module throws for the device k, when the library of the device is not found or
\* the runtime cannot be linked.  What get() has made and collected before stays made;
\* nothing is, if it throws for MainShared, which is no different from Throw.
GetFails(p) ==
    /\ pc[p] = "codegen"
    /\ failures < MaxFailures
    /\ \E k \in Missing(jit_target[p]) \intersect Devices :
          GetRuntimes(p, {j \in jit_target[p] : Before(j, k)})
    /\ pc' = [pc EXCEPT ![p] = "thrown"]
    /\ failures' = failures + 1

\* The globals release_all replaces by empty modules.
BadReleased == Kinds \ {RuntimeKinds[Len(RuntimeKinds)]}

Released == Kinds

release_all ==
    /\ shared_runtimes' = [k \in Kinds |-> IF k \in Released THEN None ELSE shared_runtimes[k]]
    /\ Drop([m \in Modules |-> One(\E k \in Released : shared_runtimes[k] = m)])
    /\ cache' = 0
    /\ UNCHANGED <<kind, deps, built, leaked, default_cache_size, internal, custom, active,
                   pipeVars, dev, failures, crashed>>

set_default_handlers(b) ==
    /\ custom' = b
    /\ active' = merge_handlers(internal, b)
    /\ UNCHANGED <<modVars, shared_runtimes, default_cache_size, cache, internal, pipeVars,
                   dev, failures, crashed>>

memoization_cache_set_size(size) ==
    /\ size # default_cache_size
    /\ default_cache_size' = size
    /\ cache' = IF shared_runtimes["MainShared"] = None THEN cache ELSE size
    /\ UNCHANGED <<kind, life, ref_count, deps, built, leaked, shared_runtimes, internal, custom,
                   active, pipeVars, dev, failures, crashed>>

-----------------------------------------------------------------------------
(* Pipelines.                                                                *)

\* compile_jit keeps the module it has if the target is the same.
Reuses(p, t) == jit_target[p] = t /\ jit_module[p] # None

\* Another pipeline is compiling p, which it calls as an extern.
IsCompiledFor(p, caller) == ExternOf[caller] = p /\ pc[caller] = "externs"

Free(p) == pc[p] = "idle" /\ \A c \in Pipelines : ~IsCompiledFor(p, c)

\* Without an extern to compile first, code generation follows compile_to_module.
FirstStep(p) == IF ExternOf[p] = None THEN "codegen" ELSE "lowering"

compile_jit(p, t) ==
    /\ Free(p)
    /\ ~Reuses(p, t)
    /\ jit_target' = [jit_target EXCEPT ![p] = t]
    /\ pc' = [pc EXCEPT ![p] = FirstStep(p)]
    /\ UNCHANGED <<modVars, globals, jit_module, held, handlers, dev, failures, crashed>>

\* compile_to_module is done, and make_externs_jit_module compiles the extern.
Lowered(p) ==
    /\ pc[p] = "lowering"
    /\ LET q == ExternOf[p]
       IN  /\ Free(q)
           /\ IF Reuses(q, jit_target[p])
              THEN pc' = [pc EXCEPT ![p] = "externs"] /\ UNCHANGED jit_target
              ELSE /\ pc' = [pc EXCEPT ![p] = "externs", ![q] = FirstStep(q)]
                   /\ jit_target' = [jit_target EXCEPT ![q] = jit_target[p]]
    /\ UNCHANGED <<modVars, globals, jit_module, held, handlers, dev, failures, crashed>>

\* make_externs_jit_module: a module that depends on the extern's and exports it.
ExternDeps(q) == {jit_module[q]}

make_externs_jit_module(p) ==
    LET q == ExternOf[p]
        e == Fresh
    IN  /\ pc[p] = "externs"
        /\ pc[q] = "idle"
        /\ e <= MaxModules
        /\ kind' = [kind EXCEPT ![e] = "externs"]
        /\ life' = [life EXCEPT ![e] = "live"]
        /\ deps' = [deps EXCEPT ![e] = ExternDeps(q)]
        /\ ref_count' = [m \in Modules |->
                           ref_count[m] + One(m = e) + One(m \in ExternDeps(q))]
        /\ held' = [held EXCEPT ![p] = {e}]
        /\ pc' = [pc EXCEPT ![p] = "codegen"]
        /\ UNCHANGED <<built, leaked, globals, jit_module, jit_target, handlers, dev,
                       failures, crashed>>

\* The references that unwinding compile_jit drops.
BadUnwound(p) == {}

Unwound(p) == held[p]

\* The dependencies of an engine that unwinding may leave behind: compile_module has it as
\* a plain pointer when a function turns out not to compile, so nobody deletes it, nor
\* the references its memory manager has.  It is the engine of p's module or of a runtime.
LeftBehind(p) ==
    CASE pc[p] = "linking" -> {{}, held[p]}
      [] pc[p] = "thrown"  -> {{}, {m \in held[p] : kind[m] \in Kinds}}
      [] OTHER             -> {{}}

\* An error while lowering, generating code or linking is thrown through compile_jit, and
\* on through the compile_jit of the pipeline that was compiling p as its extern.
Throw(p) ==
    /\ \/ /\ pc[p] \in {"lowering", "codegen", "linking"}
          /\ failures < MaxFailures
          /\ failures' = failures + 1
       \/ /\ pc[p] = "thrown"
          /\ UNCHANGED failures
    /\ pc' = [q \in Pipelines |-> IF q = p THEN "idle"
                                  ELSE IF IsCompiledFor(p, q) THEN "thrown" ELSE pc[q]]
    /\ \E left \in LeftBehind(p) :
          /\ leaked' = [m \in Modules |-> leaked[m] + One(m \in left)]
          /\ Drop([m \in Modules |-> One(m \in Unwound(p) /\ m \notin left)])
    /\ held' = [held EXCEPT ![p] = {}]
    /\ UNCHANGED <<kind, deps, built, globals, jit_module, jit_target, handlers,
                   dev, crashed>>

\* compile_module, and the assignment to contents->jit_module.
compile_module(p) ==
    LET f == Fresh
        added == [m \in Modules |-> IF m \in held[p] THEN Copies("func") ELSE 0]
        drop == [m \in Modules |-> One(m \in held[p]) + One(m = jit_module[p])]
    IN  /\ pc[p] = "linking"
        /\ f <= MaxModules
        /\ kind' = [kind EXCEPT ![f] = "func"]
        /\ deps' = [deps EXCEPT ![f] = held[p]]
        /\ built' = [built EXCEPT ![f] = jit_target[p]]
        /\ ref_count' = [m \in Modules |-> ref_count[m] + added[m] - drop[m] + One(m = f)]
        /\ life' = [m \in Modules |->
                      IF m = f THEN "live"
                      ELSE AfterDrop(m, ref_count[m] + added[m] - drop[m], drop[m])]
        /\ jit_module' = [jit_module EXCEPT ![p] = f]
        /\ held' = [held EXCEPT ![p] = {}]
        /\ pc' = [pc EXCEPT ![p] = "idle"]
        /\ UNCHANGED <<leaked, globals, jit_target, handlers, dev, failures, crashed>>

\* A change of the schedule, or the end of the Pipeline object.
invalidate_cache(p) ==
    /\ Free(p)
    /\ jit_module[p] # None
    /\ jit_module' = [jit_module EXCEPT ![p] = None]
    /\ jit_target' = [jit_target EXCEPT ![p] = None]
    /\ Drop([m \in Modules |-> One(m = jit_module[p])])
    /\ UNCHANGED <<kind, deps, built, leaked, globals, pc, held, handlers, dev,
                   failures, crashed>>

\* realize, once compile_jit has returned: init_jit_user_context and the call.
realize(p) ==
    /\ Free(p)
    /\ jit_module[p] # None
    /\ handlers' = [handlers EXCEPT ![p] = active]
    /\ pc' = [pc EXCEPT ![p] = "running"]
    /\ UNCHANGED <<modVars, globals, jit_module, jit_target, held, dev, failures, crashed>>

finalize(p) ==
    /\ pc[p] = "running"
    /\ handlers' = [handlers EXCEPT ![p] = None]
    /\ pc' = [pc EXCEPT ![p] = "idle"]
    /\ UNCHANGED <<modVars, globals, jit_module, jit_target, held, dev, failures, crashed>>

-----------------------------------------------------------------------------
(* Device allocations.                                                       *)

\* adjust_module_ref_count by 1: halide_new_device_wrapper calls use_module.
use_module(g) == ref_count' = [ref_count EXCEPT ![g] = @ + 1]

\* The running code of p allocates device memory through one of its runtimes.
halide_device_malloc(p, b, g) ==
    /\ pc[p] = "running"
    /\ dev[b] = None
    /\ g \in deps[jit_module[p]] /\ kind[g] \in Devices
    /\ dev' = [dev EXCEPT ![b] = g]
    /\ use_module(g)
    /\ UNCHANGED <<kind, life, deps, built, leaked, globals, pipeVars, failures, crashed>>

\* adjust_module_ref_count by -1 destroys nothing.
release_module(g) == ref_count' = [ref_count EXCEPT ![g] = @ - 1]

DropsAllocation(b) ==
    /\ dev[b] # None
    /\ dev' = [dev EXCEPT ![b] = None]
    /\ release_module(dev[b])
    /\ UNCHANGED <<kind, life, deps, built, leaked, globals, pipeVars, failures, crashed>>

\* halide_device_free called by running code, which has its own runtime.
halide_device_free(p, b) == pc[p] = "running" /\ DropsAllocation(b)

\* libHalide's halide_device_free (also called when a Buffer goes) looks its
\* runtime up with JITSharedRuntime::get(nullptr, ...), which can find a
\* MainShared but not make one: make_module reads its options from *for_module.
destroy_buffer(b) ==
    \/ shared_runtimes["MainShared"] # None /\ DropsAllocation(b)
    \/ /\ dev[b] # None
       /\ shared_runtimes["MainShared"] = None
       /\ crashed' = TRUE
       /\ UNCHANGED <<modVars, globals, pipeVars, dev, failures>>

-----------------------------------------------------------------------------
Init ==
    /\ kind = [m \in Modules |-> "unused"]
    /\ life = [m \in Modules |-> "unused"]
    /\ ref_count = [m \in Modules |-> 0]
    /\ deps = [m \in Modules |-> {}]
    /\ built = [m \in Modules |-> None]
    /\ shared_runtimes = [k \in Kinds |-> None]
    /\ default_cache_size = 0 /\ cache = 0
    /\ internal = None /\ custom = FALSE /\ active = None
    /\ jit_module = [p \in Pipelines |-> None]
    /\ jit_target = [p \in Pipelines |-> None]
    /\ pc = [p \in Pipelines |-> "idle"]
    /\ held = [p \in Pipelines |-> {}]
    /\ handlers = [p \in Pipelines |-> None]
    /\ dev = [b \in Buffers |-> None]
    /\ leaked = [m \in Modules |-> 0]
    /\ failures = 0
    /\ crashed = FALSE

PipelineStep(p) ==
    \/ \E t \in Targets : compile_jit(p, t)
    \/ Lowered(p)
    \/ make_externs_jit_module(p)
    \/ get(p)
    \/ GetFails(p)
    \/ compile_module(p)
    \/ Throw(p)
    \/ invalidate_cache(p)
    \/ realize(p)
    \/ finalize(p)
    \/ \E b \in Buffers, g \in Modules : halide_device_malloc(p, b, g)
    \/ \E b \in Buffers : halide_device_free(p, b)

Next ==
    /\ ~crashed
    /\ \/ \E p \in Pipelines : PipelineStep(p)
       \/ \E m \in Modules : Destroy(m)
       \/ release_all
       \/ \E b \in BOOLEAN : set_default_handlers(b)
       \/ \E s \in CacheSizes : memoization_cache_set_size(s)
       \/ \E b \in Buffers : destroy_buffer(b)

Spec == Init /\ [][Next]_vars

\* While there are destructors that have begun, one of them runs to its end.
FairSpec == Spec /\ WF_vars(~crashed /\ \E m \in Modules : Destroy(m))

-----------------------------------------------------------------------------
(* Properties.                                                               *)

MaybeModules == Modules \union {None}

\* Types, and that no reference count is negative.
TypeOK ==
    /\ kind \in [Modules -> Kinds \union {"unused", "externs", "func"}]
    /\ life \in [Modules -> {"unused", "live", "dying", "dead"}]
    /\ ref_count \in [Modules -> Nat]
    /\ deps \in [Modules -> SUBSET Modules]
    /\ built \in [Modules -> Targets \union {None}]
    /\ shared_runtimes \in [Kinds -> MaybeModules]
    /\ default_cache_size \in CacheSizes \union {0} /\ cache \in CacheSizes \union {0}
    /\ internal \in MaybeModules /\ custom \in BOOLEAN
    /\ active \in MaybeModules \union {Custom}
    /\ jit_module \in [Pipelines -> MaybeModules]
    /\ jit_target \in [Pipelines -> Targets \union {None}]
    /\ pc \in [Pipelines -> {"idle", "lowering", "externs", "codegen", "linking", "running",
                         "thrown"}]
    /\ held \in [Pipelines -> SUBSET Modules]
    /\ handlers \in [Pipelines -> MaybeModules \union {Custom}]
    /\ dev \in [Buffers -> MaybeModules]
    /\ leaked \in [Modules -> Nat]
    /\ failures \in 0..MaxFailures /\ crashed \in BOOLEAN

\* The number of references to m that exist.
References(m) ==
    Cardinality({k \in Kinds : shared_runtimes[k] = m})
      + Cardinality({p \in Pipelines : jit_module[p] = m})
      + Cardinality({p \in Pipelines : m \in held[p]})
      + Cardinality({b \in Buffers : dev[b] = m})
      + Cardinality({n \in Modules : Alive(n) /\ m \in deps[n]})
      + Cardinality({n \in Modules : Alive(n) /\ m \in deps[n] /\ kind[n] # "externs"})
      + leaked[m]

\* No ref_count is negative, and each is the number of references that globals, pipelines,
\* compilations under way, device allocations, dependents, their engines and leaked ones
\* hold, whoever drops which first and wherever an error is thrown.
RefCountExact == TypeOK /\ \A m \in Modules : ref_count[m] = References(m)

\* What refers to a module by counted pointers: a pipeline, a global, a compilation, a
\* device allocation, another module that is not yet destroyed, or a leaked engine.
InUse ==
    {shared_runtimes[k] : k \in Kinds} \union {jit_module[p] : p \in Pipelines}
      \union (UNION {held[p] : p \in Pipelines}) \union {dev[b] : b \in Buffers}
      \union (UNION {deps[m] : m \in {n \in Modules : Alive(n)}})
      \union {m \in Modules : leaked[m] > 0}

\* The runtimes that a pipeline's own module depends on.
OwnRuntimes(p) == {m \in deps[jit_module[p]] : kind[m] \in Kinds}

\* The handlers are plain pointers into the code of a runtime.  Those that the next run
\* would get are good as long as a runtime is current.  Those of a run are good if they
\* are its own runtime's, and they are never those of an older one; they may be those of a
\* newer one, and nothing keeps that alive once it is released.
HandlersOutlive ==
    /\ shared_runtimes["MainShared"] # None =>
          \A h \in {internal, active} \ {Custom} : life[h] = "live"
    /\ \A p \in Pipelines :
          pc[p] = "running" /\ handlers[p] # Custom =>
             \/ life[handlers[p]] = "live"
             \/ /\ handlers[p] # shared_runtimes["MainShared"]
                /\ \A m \in OwnRuntimes(p) : kind[m] = "MainShared" => m < handlers[p]

\* No code is freed while a counted reference to it is left: it is not even in its
\* destructor.  The uncounted handlers of a pipeline lead to code that is freed only if
\* the pipeline was compiled before a release_all and runs with the handlers of a runtime
\* made after that, and released again.
CodeOutlivesUsers ==
    /\ \A m \in InUse \ {None} : life[m] = "live"
    /\ HandlersOutlive

\* The runtimes a pipeline was compiled with belong together: one of each kind, and the
\* device runtimes were made with the pipeline's own MainShared, also if release_all ran
\* during the compilation.
RuntimesBelongTogether ==
    \A f \in {m \in Modules : kind[m] = "func" /\ Alive(m)} :
       \E main \in deps[f] :
          /\ kind[main] = "MainShared"
          /\ \A d \in deps[f] \ {main} :
                kind[d] # "externs" => kind[d] \in Devices /\ main \in deps[d]

\* active_handlers is what default_handlers says, or else the current MainShared's own: a
\* pipeline that was compiled with the current runtime never runs with the functions of one
\* that may be gone.
HandlersCurrent ==
    /\ custom => active = Custom
    /\ ~custom /\ shared_runtimes["MainShared"] # None => active = shared_runtimes["MainShared"]
    /\ \A p \in Pipelines :
          pc[p] = "running" /\ shared_runtimes["MainShared"] \in deps[jit_module[p]]
            => handlers[p] \in {Custom, shared_runtimes["MainShared"]}

\* The cache of the current MainShared has the size that was set last, also if that was
\* before the runtime was made.
CacheSizeFollows ==
    shared_runtimes["MainShared"] # None
      => cache = default_cache_size

\* As long as no compilation failed, realize calls code for the target that was asked for,
\* and so does the code of an extern.
RightTarget ==
    failures = 0 =>
      /\ \A p \in Pipelines :
            pc[p] \in {"idle", "running"} /\ jit_module[p] # None
              => built[jit_module[p]] = jit_target[p]
      /\ \A f, e, x \in Modules :
            Alive(f) /\ kind[f] = "func" /\ e \in deps[f] /\ kind[e] = "externs" /\ x \in deps[e]
              => built[x] = built[f]

\* What realize calls is one consistent build, whatever was compiled, released and set in
\* between.
BuildIsConsistent == RuntimesBelongTogether /\ RightTarget

\* What the application has set last, before or after the runtimes were made, is in force
\* in the runtime that is current.
SettingsInForce == HandlersCurrent /\ CacheSizeFollows

Idle == /\ \A k \in Kinds : shared_runtimes[k] = None
        /\ \A p \in Pipelines : pc[p] = "idle" /\ jit_module[p] = None
        /\ \A b \in Buffers : dev[b] = None

\* Once the program has dropped everything, all modules are destroyed, through the whole
\* chain of dependencies (which are older than the modules that have them); only device
\* runtimes that lost their last allocation too late, and what leaked engines refer to,
\* remain, and what these depend on.
Reclaimed ==
    \A m \in Modules :
       Alive(m) => \/ kind[m] \in Devices /\ life[m] = "live" /\ ref_count[m] = 0
                   \/ leaked[m] > 0
                   \/ \E n \in Modules : Alive(n) /\ m \in deps[n]

EventuallyReclaimed == <>[](Idle /\ ~crashed) => <>[]Reclaimed
=============================================================================
