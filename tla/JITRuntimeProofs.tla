-------------------------- MODULE JITRuntimeProofs --------------------------
(***************************************************************************)
(* Every reference count of a JIT module is exact, no code is freed while  *)
(* a counted reference to it is left (nor, but for one case that is        *)
(* stated, while handlers lead to it), what realize calls is one           *)
(* consistent build, and the settings are in force: for any number of      *)
(* pipelines, externs, device APIs, buffers, modules and failures.         *)
(***************************************************************************)
EXTENDS JITRuntime, FiniteSetTheorems, TLAPS

-----------------------------------------------------------------------------
(* The inductive invariant: modules and references.                          *)

Used == {m \in Modules : life[m] # "unused"}

\* Modules are made in the order of their numbers, and blank before.
Numbered ==
    /\ Fresh \in Nat /\ Used = 1 .. (Fresh - 1)
    /\ \A m \in Modules : /\ life[m] = "unused" <=> kind[m] = "unused"
                          /\ life[m] = "unused" => deps[m] = {}

SharedKinds == \A k \in Kinds : shared_runtimes[k] # None => kind[shared_runtimes[k]] = k

\* Those who refer to m.
ByGlobal(m) == {k \in Kinds : shared_runtimes[k] = m}
ByPipeline(m) == {p \in Pipelines : jit_module[p] = m}
ByHeld(m) == {p \in Pipelines : m \in held[p]}
ByBuffer(m) == {b \in Buffers : dev[b] = m}
ByModule(m) == {n \in Modules : Alive(n) /\ m \in deps[n]}
ByEngine(m) == {n \in Modules : Alive(n) /\ m \in deps[n] /\ kind[n] # "externs"}

Referenced(m) ==
    \/ ByGlobal(m) # {} \/ ByPipeline(m) # {} \/ ByHeld(m) # {}
    \/ ByBuffer(m) # {} \/ ByModule(m) # {} \/ leaked[m] > 0

Counted == \A m \in Modules : ref_count[m] = References(m)

UsersLive == \A m \in Modules : Referenced(m) => life[m] = "live"

\* What a pipeline has got at each point of compile_jit and realize.
Compiling ==
    \A p \in Pipelines :
       /\ pc[p] \in {"idle", "lowering", "externs", "running"} => held[p] = {}
       /\ pc[p] = "lowering" => ExternOf[p] # None
       /\ pc[p] = "codegen" => \A m \in held[p] : kind[m] = "externs"
       /\ pc[p] = "running" => jit_module[p] # None
       /\ pc[p] \in {"lowering", "externs", "codegen", "linking"} => jit_target[p] # None
       /\ pc[p] = "externs" =>
             /\ ExternOf[p] # None /\ ExternOf[p] # p
             /\ pc[ExternOf[p]] # "running"
             /\ pc[ExternOf[p]] = "idle" => jit_module[ExternOf[p]] # None

MInv ==
    TypeOK /\ Numbered /\ SharedKinds /\ Counted /\ UsersLive /\ Compiling

-----------------------------------------------------------------------------
(* Constants.                                                                *)

LEMMA Prepended ==
    ASSUME NEW S, NEW s \in Seq(S), NEW x \in S
    PROVE  /\ <<x>> \o s \in Seq(S) /\ (<<x>> \o s)[1] = x
           /\ Len(<<x>> \o s) = Len(s) + 1 /\ Len(s) \in Nat
    OBVIOUS

LEMMA KindFacts ==
    /\ "MainShared" \in Kinds /\ IsFiniteSet(Kinds)
    /\ DOMAIN RuntimeKinds = 1..Len(RuntimeKinds) /\ Len(RuntimeKinds) \in Nat
<1> DEFINE S == Devices \union {"MainShared"}
<1>1. RuntimeKinds \in Seq(S) /\ Len(RuntimeKinds) = Len(DeviceKinds) + 1
      /\ Len(DeviceKinds) \in Nat /\ RuntimeKinds[1] = "MainShared"
    <2>1. DeviceKinds \in Seq(Devices) /\ "MainShared" \in S
        BY JITAssumption
    <2>2. DeviceKinds \in Seq(S)
        BY <2>1
    <2> HIDE DEF S
    <2> QED BY <2>1, <2>2, Prepended DEF RuntimeKinds
<1>2. DOMAIN RuntimeKinds = 1..Len(RuntimeKinds) /\ Len(RuntimeKinds) \in Nat
    BY <1>1
<1>3. "MainShared" \in Kinds
    BY <1>1, <1>2 DEF Kinds
<1>4. IsFiniteSet(DOMAIN RuntimeKinds)
    BY <1>2, FS_Interval
<1>5. RuntimeKinds \in Surjection(DOMAIN RuntimeKinds, Kinds)
    <2>1. RuntimeKinds \in [DOMAIN RuntimeKinds -> Kinds]
        BY <1>1 DEF Kinds
    <2> QED BY <2>1 DEF Surjection, Kinds
<1> QED
    BY <1>2, <1>3, <1>4, <1>5, FS_Surjection

LEMMA ModuleFacts ==
    /\ IsFiniteSet(Modules) /\ MaxModules \in Nat /\ Modules = 1..MaxModules
    /\ None \notin Modules
<1>1. MaxModules \in Nat /\ None \notin Modules
    BY JITAssumption
<1> QED
    BY <1>1, FS_Interval DEF Modules

-----------------------------------------------------------------------------
(* Counting.                                                                 *)

\* A set in which only x may have come or gone.
LEMMA OneChanged ==
    ASSUME NEW X, NEW Y, NEW x, IsFiniteSet(X), \A y : y # x => (y \in X <=> y \in Y)
    PROVE  /\ IsFiniteSet(Y)
           /\ Cardinality(X) \in Nat /\ Cardinality(Y) \in Nat
           /\ Cardinality(Y) = Cardinality(X) + One(x \in Y) - One(x \in X)
<1>1. CASE x \in X <=> x \in Y
    <2>1. X = Y
        BY <1>1
    <2> QED BY <1>1, <2>1, FS_CardinalityType DEF One
<1>2. CASE x \in X /\ x \notin Y
    <2>1. Y = X \ {x}
        BY <1>2
    <2>2. Cardinality(X) \in Nat /\ IsFiniteSet(Y) /\ Cardinality(Y) = Cardinality(X) - 1
        BY <1>2, <2>1, FS_RemoveElement, FS_CardinalityType
    <2>3. Cardinality(Y) \in Nat
        BY <2>2, FS_CardinalityType
    <2> QED BY <1>2, <2>2, <2>3 DEF One
<1>3. CASE x \notin X /\ x \in Y
    <2>1. Y = X \union {x}
        BY <1>3
    <2>2. Cardinality(X) \in Nat /\ IsFiniteSet(Y) /\ Cardinality(Y) = Cardinality(X) + 1
        BY <1>3, <2>1, FS_AddElement, FS_CardinalityType
    <2> QED BY <1>3, <2>2 DEF One
<1> QED BY <1>1, <1>2, <1>3

LEMMA Finite ==
    ASSUME NEW m
    PROVE  /\ IsFiniteSet(ByGlobal(m)) /\ IsFiniteSet(ByPipeline(m)) /\ IsFiniteSet(ByHeld(m))
           /\ IsFiniteSet(ByBuffer(m)) /\ IsFiniteSet(ByModule(m)) /\ IsFiniteSet(ByEngine(m))
<1>1. IsFiniteSet(ByGlobal(m))
    BY KindFacts, FS_Subset DEF ByGlobal
<1>2. IsFiniteSet(ByPipeline(m)) /\ IsFiniteSet(ByHeld(m))
    BY JITAssumption, FS_Subset DEF ByPipeline, ByHeld
<1>3. IsFiniteSet(ByBuffer(m))
    BY JITAssumption, FS_Subset DEF ByBuffer
<1>4. IsFiniteSet(ByModule(m)) /\ IsFiniteSet(ByEngine(m))
    BY ModuleFacts, FS_Subset DEF ByModule, ByEngine
<1> QED BY <1>1, <1>2, <1>3, <1>4

LEMMA FinitePrime ==
    ASSUME NEW m
    PROVE  /\ IsFiniteSet(ByGlobal(m)') /\ IsFiniteSet(ByPipeline(m)')
           /\ IsFiniteSet(ByHeld(m)') /\ IsFiniteSet(ByBuffer(m)')
           /\ IsFiniteSet(ByModule(m)') /\ IsFiniteSet(ByEngine(m)')
<1>1. IsFiniteSet(ByGlobal(m)')
    BY KindFacts, FS_Subset DEF ByGlobal
<1>2. IsFiniteSet(ByPipeline(m)') /\ IsFiniteSet(ByHeld(m)')
    BY JITAssumption, FS_Subset DEF ByPipeline, ByHeld
<1>3. IsFiniteSet(ByBuffer(m)')
    BY JITAssumption, FS_Subset DEF ByBuffer
<1>4. IsFiniteSet(ByModule(m)') /\ IsFiniteSet(ByEngine(m)')
    BY ModuleFacts, FS_Subset DEF ByModule, ByEngine
<1> QED BY <1>1, <1>2, <1>3, <1>4

LEMMA ReferencesSum ==
    ASSUME NEW m
    PROVE  References(m) = Cardinality(ByGlobal(m)) + Cardinality(ByPipeline(m))
                             + Cardinality(ByHeld(m)) + Cardinality(ByBuffer(m))
                             + Cardinality(ByModule(m)) + Cardinality(ByEngine(m))
                             + leaked[m]
    BY DEF References, ByGlobal, ByPipeline, ByHeld, ByBuffer, ByModule, ByEngine

LEMMA ReferencesSumPrime ==
    ASSUME NEW m
    PROVE  References(m)' = Cardinality(ByGlobal(m)') + Cardinality(ByPipeline(m)')
                              + Cardinality(ByHeld(m)') + Cardinality(ByBuffer(m)')
                              + Cardinality(ByModule(m)') + Cardinality(ByEngine(m)')
                              + leaked'[m]
    BY DEF References, ByGlobal, ByPipeline, ByHeld, ByBuffer, ByModule, ByEngine

\* The module that nobody refers to is the one whose count is zero.
LEMMA NoneLeft ==
    ASSUME NEW m, leaked'[m] \in Nat
    PROVE  /\ References(m)' \in Nat
           /\ References(m)' = 0 => ~Referenced(m)'
<1> DEFINE A == ByGlobal(m)'
           B == ByPipeline(m)'
           C == ByHeld(m)'
           D == ByBuffer(m)'
           E == ByModule(m)'
           F == ByEngine(m)'
<1>1. /\ IsFiniteSet(A) /\ IsFiniteSet(B) /\ IsFiniteSet(C) /\ IsFiniteSet(D)
      /\ IsFiniteSet(E) /\ IsFiniteSet(F)
    BY FinitePrime
<1>2. References(m)' = Cardinality(A) + Cardinality(B) + Cardinality(C) + Cardinality(D)
                         + Cardinality(E) + Cardinality(F) + leaked'[m]
    BY ReferencesSumPrime
<1>3. Referenced(m)' => A # {} \/ B # {} \/ C # {} \/ D # {} \/ E # {} \/ leaked'[m] > 0
    BY DEF Referenced
<1> HIDE DEF A, B, C, D, E, F
<1>4. /\ Cardinality(A) \in Nat /\ Cardinality(B) \in Nat /\ Cardinality(C) \in Nat
      /\ Cardinality(D) \in Nat /\ Cardinality(E) \in Nat /\ Cardinality(F) \in Nat
    BY <1>1, FS_CardinalityType
<1>5. \A S \in {A, B, C, D, E} : Cardinality(S) = 0 => S = {}
    BY <1>1, FS_EmptySet
<1>6. References(m)' \in Nat
    BY <1>2, <1>4
<1>7. ASSUME References(m)' = 0 PROVE ~Referenced(m)'
    <2>0. Cardinality(A) + Cardinality(B) + Cardinality(C) + Cardinality(D)
             + Cardinality(E) + Cardinality(F) + leaked'[m] = 0
        BY <1>2, <1>7
    <2>1. /\ Cardinality(A) = 0 /\ Cardinality(B) = 0 /\ Cardinality(C) = 0
          /\ Cardinality(D) = 0 /\ Cardinality(E) = 0 /\ leaked'[m] = 0
        <3> DEFINE a == Cardinality(A)
                   b == Cardinality(B)
                   c == Cardinality(C)
                   d == Cardinality(D)
                   e == Cardinality(E)
                   f == Cardinality(F)
                   g == leaked'[m]
        <3>1. /\ a \in Nat /\ b \in Nat /\ c \in Nat /\ d \in Nat /\ e \in Nat /\ f \in Nat
              /\ g \in Nat /\ a + b + c + d + e + f + g = 0
            BY <1>4, <2>0
        <3> HIDE DEF a, b, c, d, e, f, g
        <3>2. a = 0 /\ b = 0 /\ c = 0 /\ d = 0 /\ e = 0 /\ g = 0
            BY <3>1
        <3> QED BY <3>2 DEF a, b, c, d, e, g
    <2>2. A = {} /\ B = {} /\ C = {} /\ D = {} /\ E = {}
        BY <1>5, <2>1
    <2>3. ~(leaked'[m] > 0)
        BY <2>1
    <2> QED
        BY <1>3, <2>2, <2>3, Zenon
<1> QED
    BY <1>6, <1>7

LEMMA UsedInterval ==
    ASSUME NEW n \in Nat, Used' = 1..n
    PROVE  Fresh' = n + 1 /\ Fresh' \in Nat /\ Used' = 1 .. (Fresh' - 1)
<1>1. Cardinality(1..n) = n
    BY FS_Interval
<1>2. Fresh' = Cardinality(Used') + 1
    BY DEF Fresh, Used
<1> QED BY <1>1, <1>2

\* Who is still referred to has a count that is not zero, and lives on.
LEMMA UsersStayLive ==
    ASSUME UsersLive, Counted', leaked' \in [Modules -> Nat],
           \A m \in Modules : Referenced(m)' =>
              life'[m] = "live" \/ (Referenced(m) /\ (life'[m] = life[m] \/ ref_count'[m] = 0))
    PROVE  UsersLive'
<1> SUFFICES ASSUME NEW m \in Modules, Referenced(m)' PROVE life'[m] = "live"
    BY DEF UsersLive
<1>1. ref_count'[m] # 0
    BY NoneLeft DEF Counted
<1> QED BY <1>1 DEF UsersLive

LEMMA SameModules ==
    ASSUME MInv,
           UNCHANGED <<kind, life, ref_count, deps, leaked, shared_runtimes, jit_module, held, dev>>
    PROVE  Numbered' /\ SharedKinds' /\ Counted' /\ UsersLive'
<1>1. Numbered' /\ SharedKinds'
    BY DEF MInv, Numbered, SharedKinds, Fresh, Used
<1>2. Counted'
    BY DEF MInv, Counted, References, Alive
<1>3. UsersLive'
    BY DEF MInv, UsersLive, Referenced, ByGlobal, ByPipeline, ByHeld, ByBuffer, ByModule, Alive
<1> QED BY <1>1, <1>2, <1>3

-----------------------------------------------------------------------------
(* The steps that leave the modules and the references alone.                *)

LEMMA StepCompileJit ==
    ASSUME MInv, NEW p \in Pipelines, NEW t \in Targets, compile_jit(p, t)
    PROVE  MInv'
<1> USE DEF compile_jit, modVars, globals
<1>1. TypeOK'
    BY DEF MInv, TypeOK, FirstStep
<1>2. Compiling'
    <2>1. t # None /\ pc[p] = "idle" /\ \A c \in Pipelines : ~IsCompiledFor(p, c)
        BY JITAssumption DEF Free
    <2> QED
        BY <2>1 DEF MInv, TypeOK, Compiling, IsCompiledFor, FirstStep
<1> QED BY <1>1, <1>2, SameModules DEF MInv

LEMMA StepLowered ==
    ASSUME MInv, NEW p \in Pipelines, Lowered(p)
    PROVE  MInv'
<1> DEFINE q == ExternOf[p]
<1>1. /\ pc[p] = "lowering"
      /\ UNCHANGED <<modVars, globals, jit_module, held, handlers, dev, failures, crashed>>
    BY DEF Lowered
<1>3. q # None /\ Free(q)
    BY <1>1 DEF Lowered, MInv, Compiling
<1>4. MInv'
    <2>1. q \in Pipelines /\ pc[q] = "idle" /\ q # p /\ \A c \in Pipelines : ~IsCompiledFor(q, c)
        BY <1>1, <1>3, JITAssumption DEF Free
    <2>2. jit_target[p] \in Targets /\ jit_target[p] # None
        BY <1>1 DEF MInv, TypeOK, Compiling
    <2>3. CASE Reuses(q, jit_target[p])
        <3>1. pc' = [pc EXCEPT ![p] = "externs"] /\ UNCHANGED jit_target
            BY <1>3, <2>3 DEF Lowered
        <3>2. TypeOK'
            BY <1>1, <3>1 DEF MInv, TypeOK, modVars, globals
        <3>3. pc'[p] = "externs" /\ \A r \in Pipelines : r # p => pc'[r] = pc[r]
            BY <1>1, <3>1 DEF MInv, TypeOK
        <3>4. jit_module[q] # None /\ held[p] = {}
            BY <1>1, <2>3 DEF Reuses, MInv, Compiling
        <3>5. ASSUME NEW r \in Pipelines, r # p, pc[r] = "externs"
              PROVE  pc[ExternOf[r]] # "lowering" => pc'[ExternOf[r]] = pc[ExternOf[r]]
            BY <1>1, <3>1, <3>3, <3>5, JITAssumption DEF MInv, Compiling
        <3>6. Compiling'
            BY <1>1, <1>3, <2>1, <2>2, <3>1, <3>3, <3>4, <3>5, JITAssumption
               DEF MInv, Compiling, modVars
        <3> QED BY <1>1, <3>2, <3>6, SameModules DEF MInv, modVars, globals
    <2>4. CASE ~Reuses(q, jit_target[p])
        <3>1. /\ pc' = [pc EXCEPT ![p] = "externs", ![q] = FirstStep(q)]
              /\ jit_target' = [jit_target EXCEPT ![q] = jit_target[p]]
            BY <1>3, <2>4 DEF Lowered
        <3>2. TypeOK'
            BY <1>1, <2>2, <3>1 DEF MInv, TypeOK, modVars, globals, FirstStep
        <3>3. /\ pc'[p] = "externs" /\ pc'[q] \in {"lowering", "codegen"}
              /\ pc'[q] = "lowering" => ExternOf[q] # None
              /\ \A r \in Pipelines : r # p /\ r # q => pc'[r] = pc[r]
              /\ jit_target'[q] # None
              /\ \A r \in Pipelines : r # q => jit_target'[r] = jit_target[r]
            BY <1>1, <2>1, <2>2, <3>1 DEF MInv, TypeOK, FirstStep
        <3>4. held[p] = {} /\ held[q] = {} /\ jit_target[p] # None
            BY <1>1, <2>1 DEF MInv, Compiling
        <3>5. ASSUME NEW r \in Pipelines, pc[r] = "externs"
              PROVE  /\ r # p /\ r # q /\ ExternOf[r] # q
                     /\ ExternOf[r] # p => pc'[ExternOf[r]] = pc[ExternOf[r]]
                     /\ pc'[ExternOf[r]] # "running"
                     /\ pc'[ExternOf[r]] = "idle" => jit_module[ExternOf[r]] # None
            <4>1. r # p /\ r # q /\ ExternOf[r] # q
                BY <1>1, <2>1, <3>5 DEF IsCompiledFor
            <4>2. ExternOf[r] \in Pipelines
                BY <3>5, JITAssumption DEF MInv, Compiling
            <4> QED
                BY <3>3, <3>5, <4>1, <4>2 DEF MInv, Compiling
        <3>6. Compiling'
            <4> SUFFICES ASSUME NEW r \in Pipelines
                         PROVE  /\ pc'[r] \in {"idle", "lowering", "externs", "running"} => held'[r] = {}
                                /\ pc'[r] = "lowering" => ExternOf[r] # None
                                /\ pc'[r] = "codegen" => \A m \in held'[r] : kind'[m] = "externs"
                                /\ pc'[r] = "running" => jit_module'[r] # None
                                /\ pc'[r] \in {"lowering", "externs", "codegen", "linking"}
                                      => jit_target'[r] # None
                                /\ pc'[r] = "externs" =>
                                      /\ ExternOf[r] # None /\ ExternOf[r] # r
                                      /\ pc'[ExternOf[r]] # "running"
                                      /\ pc'[ExternOf[r]] = "idle" => jit_module'[ExternOf[r]] # None
                BY DEF Compiling
            <4>1. CASE r = p
                BY <1>1, <1>3, <2>1, <3>3, <3>4, <4>1
            <4>2. CASE r = q
                BY <1>1, <2>1, <3>3, <3>4, <4>2
            <4>3. CASE r # p /\ r # q
                BY <1>1, <3>3, <3>5, <4>3 DEF MInv, Compiling, modVars
            <4> QED BY <4>1, <4>2, <4>3
        <3> QED BY <1>1, <3>2, <3>6, SameModules DEF MInv, modVars, globals
    <2> QED BY <2>3, <2>4
<1> QED BY <1>4

LEMMA StepRealize ==
    ASSUME MInv, NEW p \in Pipelines, realize(p) \/ finalize(p)
    PROVE  MInv'
<1>1. CASE realize(p)
    <2>1. TypeOK'
        BY <1>1 DEF realize, MInv, TypeOK, modVars, globals
    <2>2. pc[p] = "idle" /\ \A c \in Pipelines : ~IsCompiledFor(p, c)
        BY <1>1 DEF realize, Free
    <2>3. Compiling'
        BY <1>1, <2>2 DEF realize, MInv, TypeOK, Compiling, IsCompiledFor, modVars
    <2> QED BY <1>1, <2>1, <2>3, SameModules DEF realize, MInv, modVars, globals
<1>2. CASE finalize(p)
    <2>1. TypeOK'
        BY <1>2 DEF finalize, MInv, TypeOK, MaybeModules, modVars, globals
    <2>2. pc[p] = "running" /\ jit_module[p] # None
        BY <1>2 DEF finalize, MInv, Compiling
    <2>3. Compiling'
        BY <1>2, <2>2 DEF finalize, MInv, TypeOK, Compiling, modVars
    <2> QED BY <1>2, <2>1, <2>3, SameModules DEF finalize, MInv, modVars, globals
<1> QED BY <1>1, <1>2

LEMMA StepSettings ==
    ASSUME MInv,
           \/ \E b \in BOOLEAN : set_default_handlers(b)
           \/ \E s \in CacheSizes : memoization_cache_set_size(s)
    PROVE  MInv'
<1>1. UNCHANGED <<kind, life, ref_count, deps, built, shared_runtimes, internal, pipeVars, dev,
                  failures, crashed>>
    BY DEF set_default_handlers, memoization_cache_set_size, modVars
<1>a. UNCHANGED leaked
    BY DEF set_default_handlers, memoization_cache_set_size, modVars
<1>2. Compiling'
    BY <1>1 DEF MInv, Compiling, pipeVars
<1>3. TypeOK'
    <2>1. CASE \E b \in BOOLEAN : set_default_handlers(b)
        <3>1. custom' \in BOOLEAN /\ active' \in MaybeModules \union {Custom}
            BY <2>1 DEF set_default_handlers, merge_handlers, MInv, TypeOK
        <3>2. UNCHANGED <<cache, default_cache_size>>
            BY <2>1 DEF set_default_handlers, modVars
        <3> QED BY <1>1, <1>a, <3>1, <3>2 DEF MInv, TypeOK, pipeVars
    <2>2. CASE \E s \in CacheSizes : memoization_cache_set_size(s)
        <3>1. /\ default_cache_size' \in CacheSizes \union {0}
              /\ cache' \in CacheSizes \union {0}
              /\ UNCHANGED <<custom, active>>
            BY <2>2 DEF memoization_cache_set_size, MInv, TypeOK
        <3> QED BY <1>1, <1>a, <3>1 DEF MInv, TypeOK, pipeVars
    <2> QED BY <2>1, <2>2
<1> QED BY <1>1, <1>a, <1>2, <1>3, SameModules DEF MInv, pipeVars

-----------------------------------------------------------------------------
(* The steps that drop references.                                           *)

LEMMA CountsNat ==
    ASSUME NEW m
    PROVE  /\ Cardinality(ByGlobal(m)) \in Nat /\ Cardinality(ByPipeline(m)) \in Nat
           /\ Cardinality(ByHeld(m)) \in Nat /\ Cardinality(ByBuffer(m)) \in Nat
           /\ Cardinality(ByModule(m)) \in Nat /\ Cardinality(ByEngine(m)) \in Nat
    BY Finite, FS_CardinalityType

LEMMA Typed ==
    ASSUME MInv
    PROVE  /\ \A m \in Modules : /\ ref_count[m] \in Nat /\ deps[m] \subseteq Modules
                                 /\ life[m] \in {"unused", "live", "dying", "dead"}
           /\ \A k \in Kinds : shared_runtimes[k] \in Modules \union {None}
           /\ \A p \in Pipelines : /\ jit_module[p] \in Modules \union {None}
                                   /\ held[p] \subseteq Modules
           /\ \A m \in Modules : leaked[m] \in Nat
           /\ \A b \in Buffers : dev[b] \in Modules \union {None}
    BY DEF MInv, TypeOK, MaybeModules

\* A module goes from life to its destructor, and only when its count is zero.
Dropped(m) ==
    \/ life'[m] = life[m]
    \/ life[m] = "live" /\ life'[m] = "dying" /\ ref_count'[m] = 0

LEMMA AfterDropped ==
    ASSUME MInv, NEW m \in Modules, NEW n \in Nat, n > 0 => Referenced(m),
           life'[m] = AfterDrop(m, ref_count'[m], n)
    PROVE  Dropped(m)
    BY DEF AfterDrop, Dropped, MInv, UsersLive

LEMMA DroppedAlive ==
    ASSUME NEW m, Dropped(m)
    PROVE  (Alive(m)' <=> Alive(m)) /\ (life'[m] = "unused" <=> life[m] = "unused")
    BY DEF Dropped, Alive

\* Between them the three facts about the modules follow from this.
LEMMA DropStep ==
    ASSUME MInv, life' \in [Modules -> {"unused", "live", "dying", "dead"}],
           \A m \in Modules : Dropped(m), Counted', UNCHANGED <<kind, deps>>,
           leaked' \in [Modules -> Nat],
           \A m \in Modules : Referenced(m)' => Referenced(m)
    PROVE  Numbered' /\ UsersLive'
<1>1. Used' = Used
    BY DroppedAlive DEF Used
<1>2. Fresh' = Fresh
    BY <1>1 DEF Used, Fresh
<1>3. Numbered'
    BY <1>1, <1>2, DroppedAlive DEF MInv, Numbered
<1>4. UsersLive'
    BY UsersStayLive DEF Dropped, MInv
<1> QED BY <1>3, <1>4

LEMMA StepReleaseAll ==
    ASSUME MInv, release_all
    PROVE  MInv'
<1> DEFINE d == [m \in Modules |-> One(\E k \in Kinds : shared_runtimes[k] = m)]
<1>1. /\ shared_runtimes' = [k \in Kinds |-> None]
      /\ ref_count' = [m \in Modules |-> ref_count[m] - d[m]]
      /\ life' = [m \in Modules |-> AfterDrop(m, ref_count[m] - d[m], d[m])]
      /\ cache' = 0
      /\ UNCHANGED <<kind, deps, built, leaked, default_cache_size, internal, custom, active,
                     pipeVars, dev, failures, crashed>>
    BY DEF release_all, Drop, Released
<1>l. UNCHANGED leaked /\ leaked' \in [Modules -> Nat]
    BY <1>1, Typed DEF MInv, TypeOK
<1>2. \A m \in Modules : /\ d[m] = One(ByGlobal(m) # {}) /\ d[m] \in {0, 1}
                         /\ d[m] > 0 => Referenced(m)
    BY DEF One, ByGlobal, Referenced
<1>3. \A m \in Modules : ref_count'[m] = ref_count[m] - d[m]
    BY <1>1
<1> HIDE DEF d
<1>4. ASSUME NEW m \in Modules PROVE Dropped(m)
    BY <1>1, <1>2, AfterDropped DEF AfterDrop
<1>5. life' \in [Modules -> {"unused", "live", "dying", "dead"}]
    BY <1>1, Typed DEF AfterDrop
<1>6. ASSUME NEW m \in Modules
      PROVE  /\ ByGlobal(m)' = {} /\ ByPipeline(m)' = ByPipeline(m) /\ ByHeld(m)' = ByHeld(m)
             /\ ByBuffer(m)' = ByBuffer(m)
             /\ ByModule(m)' = ByModule(m) /\ ByEngine(m)' = ByEngine(m)
    <2>1. ByGlobal(m)' = {}
        BY <1>1, ModuleFacts DEF ByGlobal
    <2>2. ByModule(m)' = ByModule(m) /\ ByEngine(m)' = ByEngine(m)
        BY <1>1, <1>4, DroppedAlive DEF ByModule, ByEngine
    <2> QED BY <1>1, <2>1, <2>2 DEF ByPipeline, ByHeld, ByBuffer, pipeVars
<1>7. ASSUME NEW m \in Modules PROVE Cardinality(ByGlobal(m)) = d[m]
    <2>1. CASE ByGlobal(m) = {}
        BY <1>2, <2>1, FS_EmptySet DEF One
    <2>2. CASE ByGlobal(m) # {}
        <3>1. PICK k \in Kinds : shared_runtimes[k] = m
            BY <2>2 DEF ByGlobal
        <3>2. ByGlobal(m) = {k}
            BY <3>1, ModuleFacts DEF ByGlobal, MInv, SharedKinds
        <3> QED BY <1>2, <2>2, <3>2, FS_Singleton DEF One
    <2> QED BY <2>1, <2>2
<1>8. Counted'
    <2> SUFFICES ASSUME NEW m \in Modules PROVE ref_count'[m] = References(m)'
        BY DEF Counted
    <2>1. References(m)' = References(m) - d[m]
        <3>1. /\ Cardinality(ByGlobal(m)') = 0 /\ Cardinality(ByGlobal(m)) = d[m]
              /\ d[m] \in {0, 1}
            BY <1>2, <1>6, <1>7, FS_EmptySet
        <3>2. References(m)' = Cardinality(ByGlobal(m)') + Cardinality(ByPipeline(m))
                                 + Cardinality(ByHeld(m)) + Cardinality(ByBuffer(m))
                                 + Cardinality(ByModule(m)) + Cardinality(ByEngine(m))
                                 + leaked[m]
            BY <1>6, <1>l, ReferencesSumPrime
        <3> QED BY <3>1, <3>2, CountsNat, Typed, ReferencesSum
    <2> QED BY <1>3, <2>1 DEF MInv, Counted
<1>9. \A m \in Modules : Referenced(m)' => Referenced(m)
    BY <1>6, <1>l DEF Referenced
<1>10. ref_count' \in [Modules -> Nat]
    BY <1>1, <1>8, <1>l, NoneLeft DEF Counted
<1>11. TypeOK' /\ SharedKinds'
    BY <1>1, <1>5, <1>10 DEF MInv, TypeOK, SharedKinds, MaybeModules, pipeVars
<1>12. Compiling'
    BY <1>1 DEF MInv, Compiling, pipeVars
<1> QED BY <1>1, <1>4, <1>5, <1>8, <1>9, <1>11, <1>12, <1>l, DropStep DEF MInv

LEMMA StepInvalidate ==
    ASSUME MInv, NEW p \in Pipelines, invalidate_cache(p)
    PROVE  MInv'
<1> DEFINE x == jit_module[p]
           d == [m \in Modules |-> One(m = x)]
<1>1. /\ Free(p) /\ x # None
      /\ jit_module' = [jit_module EXCEPT ![p] = None]
      /\ jit_target' = [jit_target EXCEPT ![p] = None]
      /\ ref_count' = [m \in Modules |-> ref_count[m] - d[m]]
      /\ life' = [m \in Modules |-> AfterDrop(m, ref_count[m] - d[m], d[m])]
      /\ UNCHANGED <<kind, deps, built, leaked, globals, pc, held, handlers, dev, failures, crashed>>
    BY DEF invalidate_cache, Drop
<1>l. UNCHANGED leaked /\ leaked' \in [Modules -> Nat]
    BY <1>1, Typed DEF MInv, TypeOK
<1>2. \A m \in Modules : /\ d[m] = One(m = x) /\ d[m] \in {0, 1}
                         /\ d[m] > 0 => Referenced(m)
    BY DEF One, ByPipeline, Referenced
<1>3. \A m \in Modules : ref_count'[m] = ref_count[m] - d[m]
    BY <1>1
<1>a. x \in Modules /\ jit_module'[p] = None /\ \A r \in Pipelines : r # p => jit_module'[r] = jit_module[r]
    BY <1>1, Typed DEF MInv, TypeOK
<1> HIDE DEF d
<1>4. ASSUME NEW m \in Modules PROVE Dropped(m)
    BY <1>1, <1>2, AfterDropped DEF AfterDrop
<1>5. life' \in [Modules -> {"unused", "live", "dying", "dead"}]
    BY <1>1, Typed DEF AfterDrop
<1>6. ASSUME NEW m \in Modules
      PROVE  /\ ByGlobal(m)' = ByGlobal(m) /\ ByHeld(m)' = ByHeld(m)
             /\ ByBuffer(m)' = ByBuffer(m) /\ ByPipeline(m)' \subseteq ByPipeline(m)
             /\ ByModule(m)' = ByModule(m) /\ ByEngine(m)' = ByEngine(m)
    <2>1. ByPipeline(m)' \subseteq ByPipeline(m)
        BY <1>a, ModuleFacts DEF ByPipeline
    <2>2. ByModule(m)' = ByModule(m) /\ ByEngine(m)' = ByEngine(m)
        BY <1>1, <1>4, DroppedAlive DEF ByModule, ByEngine
    <2> QED BY <1>1, <2>1, <2>2 DEF ByGlobal, ByHeld, ByBuffer, globals
<1>7. ASSUME NEW m \in Modules
      PROVE  Cardinality(ByPipeline(m)') = Cardinality(ByPipeline(m)) - d[m]
    <2> DEFINE X == ByPipeline(m)
               Y == ByPipeline(m)'
    <2>1. \A r : r # p => (r \in X <=> r \in Y)
        BY <1>a DEF ByPipeline
    <2>2. p \notin Y /\ (p \in X <=> m = x)
        BY <1>a, ModuleFacts DEF ByPipeline
    <2>3. IsFiniteSet(X)
        BY Finite
    <2> HIDE DEF X, Y
    <2>4. Cardinality(X) \in Nat /\ Cardinality(Y) = Cardinality(X) + One(p \in Y) - One(p \in X)
        BY <2>1, <2>3, OneChanged
    <2>5. Cardinality(Y) = Cardinality(X) - d[m]
        BY <1>2, <2>2, <2>4 DEF One
    <2> QED BY <2>5 DEF X, Y
<1>8. Counted'
    <2> SUFFICES ASSUME NEW m \in Modules PROVE ref_count'[m] = References(m)'
        BY DEF Counted
    <2>1. References(m)' = References(m) - d[m]
        <3>1. /\ Cardinality(ByPipeline(m)') = Cardinality(ByPipeline(m)) - d[m]
              /\ d[m] \in {0, 1}
            BY <1>2, <1>7
        <3>2. References(m)' = Cardinality(ByGlobal(m)) + Cardinality(ByPipeline(m)')
                                 + Cardinality(ByHeld(m)) + Cardinality(ByBuffer(m))
                                 + Cardinality(ByModule(m)) + Cardinality(ByEngine(m))
                                 + leaked[m]
            BY <1>6, <1>l, ReferencesSumPrime
        <3> QED BY <3>1, <3>2, CountsNat, Typed, ReferencesSum
    <2> QED BY <1>3, <2>1 DEF MInv, Counted
<1>9. \A m \in Modules : Referenced(m)' => Referenced(m)
    BY <1>6, <1>l DEF Referenced
<1>10. ref_count' \in [Modules -> Nat]
    BY <1>1, <1>8, <1>l, NoneLeft DEF Counted
<1>11. TypeOK' /\ SharedKinds'
    BY <1>1, <1>5, <1>10 DEF MInv, TypeOK, SharedKinds, MaybeModules, globals
<1>12. Compiling'
    <2>1. \A c \in Pipelines : ~IsCompiledFor(p, c) /\ pc[p] = "idle"
        BY <1>1 DEF Free
    <2>2. \A r \in Pipelines : r # p => jit_target'[r] = jit_target[r]
        BY <1>1 DEF MInv, TypeOK
    <2>3. ASSUME NEW r \in Pipelines, pc[r] = "externs"
          PROVE  ExternOf[r] # p /\ jit_module'[ExternOf[r]] = jit_module[ExternOf[r]]
        BY <1>a, <2>1, <2>3, JITAssumption DEF IsCompiledFor, MInv, Compiling
    <2> QED BY <1>1, <1>a, <2>1, <2>2, <2>3 DEF MInv, Compiling
<1> QED BY <1>1, <1>4, <1>5, <1>8, <1>9, <1>11, <1>12, <1>l, DropStep DEF MInv

LEMMA StepThrow ==
    ASSUME MInv, NEW p \in Pipelines, Throw(p)
    PROVE  MInv'
<1>k. PICK left \in LeftBehind(p) :
         /\ leaked' = [m \in Modules |-> leaked[m] + One(m \in left)]
         /\ Drop([m \in Modules |-> One(m \in Unwound(p) /\ m \notin left)])
    BY DEF Throw
<1>s. left \subseteq held[p]
    BY DEF LeftBehind
<1> DEFINE d == [m \in Modules |-> One(m \in held[p] /\ m \notin left)]
<1>1. /\ pc[p] \in {"lowering", "codegen", "linking", "thrown"} /\ failures' \in 0..MaxFailures
      /\ pc' = [q \in Pipelines |-> IF q = p THEN "idle"
                                    ELSE IF IsCompiledFor(p, q) THEN "thrown" ELSE pc[q]]
      /\ held' = [held EXCEPT ![p] = {}]
      /\ ref_count' = [m \in Modules |-> ref_count[m] - d[m]]
      /\ life' = [m \in Modules |-> AfterDrop(m, ref_count[m] - d[m], d[m])]
      /\ UNCHANGED <<kind, deps, built, globals, jit_module, jit_target, handlers, dev,
                     crashed>>
    BY <1>k, JITAssumption DEF Throw, Drop, Unwound, MInv, TypeOK
<1>l. /\ leaked' \in [Modules -> Nat]
      /\ \A m \in Modules : leaked'[m] = leaked[m] + One(m \in left)
    BY <1>k, Typed DEF One
<1>2. \A m \in Modules : /\ d[m] = One(m \in held[p]) - One(m \in left) /\ d[m] \in {0, 1}
                         /\ One(m \in held[p]) \in {0, 1} /\ One(m \in left) \in {0, 1}
                         /\ d[m] > 0 => Referenced(m)
    BY <1>s DEF One, ByHeld, Referenced
<1>3. \A m \in Modules : ref_count'[m] = ref_count[m] - d[m]
    BY <1>1
<1>a. held'[p] = {} /\ \A r \in Pipelines : r # p => held'[r] = held[r]
    BY <1>1 DEF MInv, TypeOK
<1> HIDE DEF d
<1>4. ASSUME NEW m \in Modules PROVE Dropped(m)
    BY <1>1, <1>2, AfterDropped DEF AfterDrop
<1>5. life' \in [Modules -> {"unused", "live", "dying", "dead"}]
    BY <1>1, Typed DEF AfterDrop
<1>6. ASSUME NEW m \in Modules
      PROVE  /\ ByGlobal(m)' = ByGlobal(m) /\ ByPipeline(m)' = ByPipeline(m)
             /\ ByBuffer(m)' = ByBuffer(m) /\ ByHeld(m)' \subseteq ByHeld(m)
             /\ ByModule(m)' = ByModule(m) /\ ByEngine(m)' = ByEngine(m)
    <2>1. ByHeld(m)' \subseteq ByHeld(m)
        BY <1>a DEF ByHeld
    <2>2. ByModule(m)' = ByModule(m) /\ ByEngine(m)' = ByEngine(m)
        BY <1>1, <1>4, DroppedAlive DEF ByModule, ByEngine
    <2> QED BY <1>1, <2>1, <2>2 DEF ByGlobal, ByPipeline, ByBuffer, globals
<1>7. ASSUME NEW m \in Modules
      PROVE  Cardinality(ByHeld(m)') = Cardinality(ByHeld(m)) - One(m \in held[p])
    <2> DEFINE X == ByHeld(m)
               Y == ByHeld(m)'
    <2>1. \A r : r # p => (r \in X <=> r \in Y)
        BY <1>a DEF ByHeld
    <2>2. p \notin Y /\ (p \in X <=> m \in held[p])
        BY <1>a DEF ByHeld
    <2>3. IsFiniteSet(X)
        BY Finite
    <2> HIDE DEF X, Y
    <2>4. Cardinality(X) \in Nat /\ Cardinality(Y) = Cardinality(X) + One(p \in Y) - One(p \in X)
        BY <2>1, <2>3, OneChanged
    <2>5. Cardinality(Y) = Cardinality(X) - One(m \in held[p])
        BY <2>2, <2>4 DEF One
    <2> QED BY <2>5 DEF X, Y
<1>8. Counted'
    <2> SUFFICES ASSUME NEW m \in Modules PROVE ref_count'[m] = References(m)'
        BY DEF Counted
    <2>1. References(m)' = References(m) - d[m]
        <3>1. /\ Cardinality(ByHeld(m)') = Cardinality(ByHeld(m)) - One(m \in held[p])
              /\ d[m] = One(m \in held[p]) - One(m \in left)
              /\ One(m \in held[p]) \in {0, 1} /\ One(m \in left) \in {0, 1}
            BY <1>2, <1>7
        <3>2. References(m)' = Cardinality(ByGlobal(m)) + Cardinality(ByPipeline(m))
                                 + Cardinality(ByHeld(m)') + Cardinality(ByBuffer(m))
                                 + Cardinality(ByModule(m)) + Cardinality(ByEngine(m))
                                 + (leaked[m] + One(m \in left))
            BY <1>6, <1>l, ReferencesSumPrime
        <3>3. leaked[m] \in Nat
            BY Typed
        <3>4. References(m)' = References(m) - One(m \in held[p]) + One(m \in left)
            BY <3>1, <3>2, <3>3, CountsNat, ReferencesSum
        <3>5. References(m) \in Nat
            BY <3>3, CountsNat, ReferencesSum
        <3> HIDE DEF References
        <3> QED BY <3>1, <3>4, <3>5
    <2> QED BY <1>3, <2>1 DEF MInv, Counted
<1>9. ASSUME NEW m \in Modules, Referenced(m)' PROVE Referenced(m)
    <2>1. CASE m \in left
        BY <1>s, <2>1 DEF Referenced, ByHeld
    <2>2. CASE m \notin left
        <3>1. leaked'[m] = leaked[m]
            BY <1>l, <2>2, Typed DEF One
        <3> QED BY <1>6, <1>9, <3>1 DEF Referenced
    <2> QED BY <2>1, <2>2
<1>10. ref_count' \in [Modules -> Nat]
    BY <1>1, <1>8, <1>l, NoneLeft DEF Counted
<1>11. TypeOK' /\ SharedKinds'
    <2>1. pc' \in [Pipelines -> {"idle", "lowering", "externs", "codegen", "linking", "running",
                                 "thrown"}]
        BY <1>1 DEF MInv, TypeOK
    <2>2. held' \in [Pipelines -> SUBSET Modules]
        BY <1>1 DEF MInv, TypeOK
    <2> QED
        BY <1>1, <1>5, <1>10, <1>l, <2>1, <2>2 DEF MInv, TypeOK, SharedKinds, globals
<1>12. Compiling'
    <2>1. pc'[p] = "idle" /\ \A q \in Pipelines : q # p =>
             \/ pc'[q] = pc[q] /\ ~IsCompiledFor(p, q)
             \/ pc'[q] = "thrown" /\ pc[q] = "externs"
        BY <1>1 DEF IsCompiledFor
    <2>2. ASSUME NEW r \in Pipelines, pc'[r] = "externs"
          PROVE  /\ r # p /\ ExternOf[r] # p /\ pc[r] = "externs"
                 /\ ExternOf[r] \in Pipelines
                 /\ pc'[ExternOf[r]] \in {pc[ExternOf[r]], "thrown"}
        <3>1. r # p /\ pc[r] = "externs" /\ ExternOf[r] # p
            BY <2>1, <2>2 DEF IsCompiledFor
        <3>2. ExternOf[r] \in Pipelines
            BY <3>1, JITAssumption DEF MInv, Compiling
        <3> QED BY <2>1, <3>1, <3>2
    <2> QED BY <1>1, <1>a, <2>1, <2>2 DEF MInv, Compiling
<1> QED BY <1>1, <1>4, <1>5, <1>8, <1>9, <1>11, <1>12, <1>l, DropStep DEF MInv

\* A module that is destroyed takes its references, and its engine's, with it.
LEMMA StepDestroy ==
    ASSUME MInv, NEW x \in Modules, Destroy(x)
    PROVE  MInv'
<1> DEFINE d == [m \in Modules |-> IF m \in deps[x] THEN Copies(kind[x]) ELSE 0]
<1>1. /\ life[x] = "dying"
      /\ ref_count' = [m \in Modules |-> ref_count[m] - d[m]]
      /\ life' = [m \in Modules |->
                    IF m = x THEN "dead" ELSE AfterDrop(m, ref_count[m] - d[m], d[m])]
      /\ UNCHANGED <<kind, deps, built, leaked, globals, pipeVars, dev, failures, crashed>>
    BY DEF Destroy
<1>l. UNCHANGED leaked /\ leaked' \in [Modules -> Nat]
    BY <1>1, Typed DEF MInv, TypeOK
<1>2. \A m \in Modules : /\ d[m] \in {0, 1, 2}
                         /\ d[m] = One(m \in deps[x]) + One(m \in deps[x] /\ kind[x] # "externs")
                         /\ d[m] > 0 => Referenced(m)
    BY <1>1 DEF One, Copies, ByModule, Referenced, Alive
<1>3. \A m \in Modules : ref_count'[m] = ref_count[m] - d[m]
    BY <1>1
<1> HIDE DEF d
<1>4. ASSUME NEW m \in Modules, m # x PROVE Dropped(m)
    BY <1>1, <1>2, <1>4, AfterDropped DEF AfterDrop
<1>5. life' \in [Modules -> {"unused", "live", "dying", "dead"}]
    BY <1>1, Typed DEF AfterDrop
<1>a. Alive(x) /\ ~Alive(x)' /\ life'[x] = "dead" /\ ~Referenced(x)
    BY <1>1 DEF Alive, MInv, UsersLive
<1>6. ASSUME NEW m \in Modules
      PROVE  /\ ByGlobal(m)' = ByGlobal(m) /\ ByPipeline(m)' = ByPipeline(m)
             /\ ByHeld(m)' = ByHeld(m) /\ ByBuffer(m)' = ByBuffer(m)
             /\ ByModule(m)' = ByModule(m) \ {x} /\ ByEngine(m)' = ByEngine(m) \ {x}
    <2>1. ByModule(m)' = ByModule(m) \ {x} /\ ByEngine(m)' = ByEngine(m) \ {x}
        BY <1>1, <1>4, <1>a, DroppedAlive DEF ByModule, ByEngine
    <2> QED BY <1>1, <2>1 DEF ByGlobal, ByPipeline, ByHeld, ByBuffer, globals, pipeVars
<1>8. Counted'
    <2> SUFFICES ASSUME NEW m \in Modules PROVE ref_count'[m] = References(m)'
        BY DEF Counted
    <2>1. References(m)' = References(m) - d[m]
        <3>1. x \in ByModule(m) <=> m \in deps[x]
            BY <1>a DEF ByModule
        <3>2. x \in ByEngine(m) <=> (m \in deps[x] /\ kind[x] # "externs")
            BY <1>a DEF ByEngine
        <3>3. Cardinality(ByModule(m)') = Cardinality(ByModule(m)) - One(m \in deps[x])
            BY <1>6, <3>1, Finite, CountsNat, FS_RemoveElement DEF One
        <3>4. Cardinality(ByEngine(m)') = Cardinality(ByEngine(m))
                                             - One(m \in deps[x] /\ kind[x] # "externs")
            BY <1>6, <3>2, Finite, CountsNat, FS_RemoveElement DEF One
        <3>5. References(m)' = Cardinality(ByGlobal(m)) + Cardinality(ByPipeline(m))
                                 + Cardinality(ByHeld(m)) + Cardinality(ByBuffer(m))
                                 + Cardinality(ByModule(m)') + Cardinality(ByEngine(m)')
                                 + leaked[m]
            BY <1>6, <1>l, ReferencesSumPrime
        <3>6. One(m \in deps[x]) \in Int /\ One(m \in deps[x] /\ kind[x] # "externs") \in Int
            BY DEF One
        <3> QED BY <1>2, <3>3, <3>4, <3>5, <3>6, CountsNat, Typed, ReferencesSum
    <2> QED BY <1>3, <2>1 DEF MInv, Counted
<1>9. ASSUME NEW m \in Modules, Referenced(m)'
      PROVE  m # x /\ Referenced(m)
    BY <1>6, <1>9, <1>a, <1>l DEF Referenced
<1>10. ref_count' \in [Modules -> Nat]
    BY <1>1, <1>8, <1>l, NoneLeft DEF Counted
<1>11. TypeOK' /\ SharedKinds' /\ Compiling'
    BY <1>1, <1>5, <1>10 DEF MInv, TypeOK, SharedKinds, Compiling, globals, pipeVars
<1>12. Numbered'
    <2>1. Used' = Used
        BY <1>1, <1>4, <1>a, DroppedAlive DEF Used
    <2>2. Fresh' = Fresh
        BY <2>1 DEF Used, Fresh
    <2> QED BY <1>1, <1>4, <1>a, <2>1, <2>2, DroppedAlive DEF MInv, Numbered
<1>13. UsersLive'
    BY <1>4, <1>8, <1>9, <1>l, UsersStayLive DEF Dropped, MInv
<1> QED BY <1>8, <1>11, <1>12, <1>13 DEF MInv

-----------------------------------------------------------------------------
(* Device allocations.                                                       *)

LEMMA StepAllocation ==
    ASSUME MInv, NEW b \in Buffers, NEW g, NEW n \in Modules,
           \/ dev[b] = None /\ g = n /\ Referenced(n) /\ ref_count' = [ref_count EXCEPT ![n] = @ + 1]
           \/ dev[b] = n /\ g = None /\ ref_count' = [ref_count EXCEPT ![n] = @ - 1],
           dev' = [dev EXCEPT ![b] = g],
           UNCHANGED <<kind, life, deps, built, leaked, globals, pipeVars, failures, crashed>>
    PROVE  MInv'
<1> DEFINE d == IF g = n THEN 1 ELSE 0 - 1
<1>l. UNCHANGED leaked /\ leaked' \in [Modules -> Nat]
    BY Typed DEF MInv, TypeOK
<1>1. /\ d \in Int /\ dev[b] = n <=> g # n
      /\ d = IF g = n THEN 1 ELSE 0 - 1
    BY ModuleFacts
<1>2. \A m \in Modules : ref_count'[m] = ref_count[m] + (IF m = n THEN d ELSE 0)
    <2>1. ref_count \in [Modules -> Nat] /\ n # None
        BY ModuleFacts DEF MInv, TypeOK
    <2>2. CASE g = n /\ ref_count' = [ref_count EXCEPT ![n] = @ + 1]
        BY <2>1, <2>2
    <2>3. CASE g # n /\ ref_count' = [ref_count EXCEPT ![n] = @ - 1]
        BY <2>1, <2>3
    <2> QED BY <2>1, <2>2, <2>3
<1> HIDE DEF d
<1>3. dev'[b] = g /\ \A c \in Buffers : c # b => dev'[c] = dev[c]
    BY DEF MInv, TypeOK
<1>4. ASSUME NEW m \in Modules
      PROVE  /\ ByGlobal(m)' = ByGlobal(m) /\ ByPipeline(m)' = ByPipeline(m)
             /\ ByHeld(m)' = ByHeld(m)
             /\ ByModule(m)' = ByModule(m) /\ ByEngine(m)' = ByEngine(m)
    BY DEF ByGlobal, ByPipeline, ByHeld, ByModule, ByEngine, Alive, globals, pipeVars
<1>5. ASSUME NEW m \in Modules
      PROVE  Cardinality(ByBuffer(m)') = Cardinality(ByBuffer(m)) + (IF m = n THEN d ELSE 0)
    <2> DEFINE X == ByBuffer(m)
               Y == ByBuffer(m)'
    <2>1. \A r : r # b => (r \in X <=> r \in Y)
        BY <1>3 DEF ByBuffer
    <2>2. (b \in X <=> dev[b] = m) /\ (b \in Y <=> g = m)
        BY <1>3 DEF ByBuffer
    <2>3. IsFiniteSet(X)
        BY Finite
    <2>a. (m # n => dev[b] # m /\ g # m) /\ (m = n => (dev[b] = m <=> g # m))
        BY <1>1, ModuleFacts
    <2> HIDE DEF X, Y
    <2>4. Cardinality(X) \in Nat /\ Cardinality(Y) = Cardinality(X) + One(b \in Y) - One(b \in X)
        BY <2>1, <2>3, OneChanged
    <2>5. Cardinality(Y) = Cardinality(X) + (IF m = n THEN d ELSE 0)
        BY <1>1, <2>2, <2>a, <2>4 DEF One
    <2> QED BY <2>5 DEF X, Y
<1>6. Counted'
    <2> SUFFICES ASSUME NEW m \in Modules PROVE ref_count'[m] = References(m)'
        BY DEF Counted
    <2>1. References(m)' = References(m) + (IF m = n THEN d ELSE 0)
        <3>1. References(m)' = Cardinality(ByGlobal(m)) + Cardinality(ByPipeline(m))
                                 + Cardinality(ByHeld(m)) + Cardinality(ByBuffer(m)')
                                 + Cardinality(ByModule(m)) + Cardinality(ByEngine(m))
                                 + leaked[m]
            BY <1>4, <1>l, ReferencesSumPrime
        <3>2. (IF m = n THEN d ELSE 0) \in Int
            BY <1>1
        <3>3. leaked[m] \in Nat /\ Cardinality(ByBuffer(m)) \in Nat
            BY Typed, CountsNat
        <3> DEFINE x == IF m = n THEN d ELSE 0
        <3>4. Cardinality(ByBuffer(m)') = Cardinality(ByBuffer(m)) + x /\ x \in Int
            BY <1>5, <3>2
        <3> HIDE DEF x
        <3>5. References(m)' = References(m) + x
            BY <3>1, <3>3, <3>4, CountsNat, ReferencesSum
        <3> QED BY <3>5 DEF x
    <2> QED BY <1>2, <2>1 DEF MInv, Counted
<1>7. \A m \in Modules : Referenced(m)' => Referenced(m)
    <2>1. \A m \in Modules : m # n => ByBuffer(m)' \subseteq ByBuffer(m)
        BY <1>1, <1>3, ModuleFacts DEF ByBuffer
    <2>2. Referenced(n)
        BY DEF Referenced, ByBuffer
    <2> QED BY <1>4, <2>1, <2>2, <1>l DEF Referenced
<1>8. ref_count' \in [Modules -> Nat]
    <2>1. ref_count' = [m \in Modules |-> ref_count'[m]]
        <3>1. CASE ref_count' = [ref_count EXCEPT ![n] = @ + 1]
            BY <3>1 DEF MInv, TypeOK
        <3>2. CASE ref_count' = [ref_count EXCEPT ![n] = @ - 1]
            BY <3>2 DEF MInv, TypeOK
        <3> QED BY <3>1, <3>2
    <2> QED BY <1>6, <2>1, <1>l, NoneLeft DEF Counted
<1>9. TypeOK'
    BY <1>8 DEF MInv, TypeOK, MaybeModules, globals, pipeVars
<1>10. SharedKinds' /\ Compiling' /\ Numbered'
    BY DEF MInv, SharedKinds, Compiling, Numbered, Used, Fresh, globals, pipeVars
<1>11. UsersLive'
    BY <1>6, <1>7, <1>l, UsersStayLive DEF MInv
<1> QED BY <1>6, <1>9, <1>10, <1>11 DEF MInv

LEMMA StepMalloc ==
    ASSUME MInv, NEW p \in Pipelines, NEW b \in Buffers, NEW g \in Modules,
           halide_device_malloc(p, b, g)
    PROVE  MInv'
<1>1. /\ pc[p] = "running" /\ g \in deps[jit_module[p]] /\ jit_module[p] \in Modules
    BY Typed DEF halide_device_malloc, MInv, Compiling
<1>2. Referenced(jit_module[p])
    BY DEF Referenced, ByPipeline
<1>3. Alive(jit_module[p])
    BY <1>1, <1>2 DEF MInv, UsersLive, Alive
<1>4. Referenced(g)
    BY <1>1, <1>3 DEF Referenced, ByModule
<1> QED
    BY <1>4, StepAllocation DEF halide_device_malloc, use_module

LEMMA StepFree ==
    ASSUME MInv, NEW b \in Buffers,
           destroy_buffer(b) \/ \E p \in Pipelines : halide_device_free(p, b)
    PROVE  MInv'
<1>1. CASE DropsAllocation(b)
    <2>1. dev[b] \in Modules
        BY <1>1, Typed DEF DropsAllocation
    <2> QED
        BY <1>1, <2>1, StepAllocation DEF DropsAllocation, release_module
<1>2. CASE crashed' = TRUE /\ UNCHANGED <<modVars, globals, pipeVars, dev, failures>>
    <2>1. crashed' \in BOOLEAN
        BY <1>2, Zenon
    <2>2. TypeOK' /\ Compiling'
        BY <1>2, <2>1 DEF MInv, TypeOK, Compiling, modVars, globals, pipeVars
    <2> QED
        BY <1>2, <2>2, SameModules DEF MInv, modVars, globals, pipeVars
<1> QED BY <1>1, <1>2 DEF destroy_buffer, halide_device_free

-----------------------------------------------------------------------------
(* The steps that make a module.                                             *)

LEMMA FreshFacts ==
    ASSUME MInv
    PROVE  /\ Fresh \in Nat /\ Fresh >= 1
           /\ \A m \in Modules : m >= Fresh <=> life[m] = "unused"
           /\ \A m \in Modules : m >= Fresh =>
                 ~Referenced(m) /\ ~Alive(m) /\ deps[m] = {} /\ kind[m] = "unused"
<1>1. Fresh \in Nat /\ Used = 1 .. (Fresh - 1)
    BY DEF MInv, Numbered
<1>2. Fresh >= 1
    <2>1. IsFiniteSet(Used)
        BY ModuleFacts, FS_Subset DEF Used
    <2>2. Cardinality(Used) \in Nat /\ Fresh = Cardinality(Used) + 1
        BY <2>1, FS_CardinalityType DEF Fresh, Used
    <2> QED BY <2>2
<1>3. \A m \in Modules : m >= Fresh <=> life[m] = "unused"
    BY <1>1, ModuleFacts DEF Used
<1> QED
    BY <1>1, <1>2, <1>3 DEF MInv, UsersLive, Numbered, Alive

LEMMA FreshTaken ==
    ASSUME MInv, Fresh \in Modules,
           \A m \in Modules : life'[m] = "unused" <=> (life[m] = "unused" /\ m # Fresh)
    PROVE  Fresh' \in Nat /\ Used' = 1 .. (Fresh' - 1)
<1>1. Used' = 1..Fresh
    <2>1. Modules = 1..MaxModules /\ Fresh \in Nat /\ MaxModules \in Nat
        BY ModuleFacts, FreshFacts
    <2>2. \A m \in Modules : m \in Used' <=> m <= Fresh
        BY <2>1, FreshFacts DEF Used
    <2>3. Used' \subseteq Modules
        BY DEF Used
    <2>4. \A m : m \in 1..Fresh <=> (m \in Modules /\ m <= Fresh)
        BY <2>1
    <2>5. \A m : m \in Used' <=> m \in 1..Fresh
        BY <2>2, <2>3, <2>4
    <2> QED BY <2>5
<1> QED BY <1>1, FreshFacts, UsedInterval

LEMMA StepMakeExterns ==
    ASSUME MInv, NEW p \in Pipelines, make_externs_jit_module(p)
    PROVE  MInv'
<1> DEFINE q == ExternOf[p]
           x == jit_module[q]
           e == Fresh
<1>1. /\ pc[p] = "externs" /\ pc[q] = "idle" /\ e <= MaxModules
      /\ kind' = [kind EXCEPT ![e] = "externs"]
      /\ life' = [life EXCEPT ![e] = "live"]
      /\ deps' = [deps EXCEPT ![e] = {x}]
      /\ ref_count' = [m \in Modules |-> ref_count[m] + One(m = e) + One(m = x)]
      /\ held' = [held EXCEPT ![p] = {e}]
      /\ pc' = [pc EXCEPT ![p] = "codegen"]
      /\ UNCHANGED <<built, leaked, globals, jit_module, jit_target, handlers, dev, failures, crashed>>
    BY DEF make_externs_jit_module, ExternDeps
<1>l. UNCHANGED leaked /\ leaked' \in [Modules -> Nat]
    BY <1>1, Typed DEF MInv, TypeOK
<1>2. q \in Pipelines /\ q # p /\ x \in Modules /\ held[p] = {} /\ e \in Modules
    <2>1. q \in Pipelines /\ q # p /\ x # None /\ held[p] = {}
        BY <1>1, JITAssumption DEF MInv, Compiling
    <2> QED BY <1>1, <2>1, Typed, FreshFacts, ModuleFacts
<1>3. Referenced(x) /\ life[x] = "live"
    BY <1>2 DEF Referenced, ByPipeline, MInv, UsersLive
<1>4. /\ life[e] = "unused" /\ e # x /\ ~Referenced(e) /\ ~Alive(e) /\ kind[e] = "unused"
    BY <1>2, <1>3, FreshFacts
<1>5. /\ \A m \in Modules : ref_count'[m] = ref_count[m] + One(m = e) + One(m = x)
      /\ life'[e] = "live" /\ kind'[e] = "externs" /\ deps'[e] = {x}
      /\ \A m \in Modules : m # e => /\ life'[m] = life[m] /\ kind'[m] = kind[m]
                                     /\ deps'[m] = deps[m]
      /\ held'[p] = {e} /\ pc'[p] = "codegen"
      /\ \A r \in Pipelines : r # p => held'[r] = held[r] /\ pc'[r] = pc[r]
    BY <1>1, <1>2 DEF MInv, TypeOK
<1> HIDE DEF e, x, q
<1>6. ASSUME NEW m \in Modules
      PROVE  /\ ByGlobal(m)' = ByGlobal(m) /\ ByPipeline(m)' = ByPipeline(m)
             /\ ByBuffer(m)' = ByBuffer(m) /\ ByEngine(m)' = ByEngine(m)
             /\ ByHeld(m)' = IF m = e THEN ByHeld(m) \union {p} ELSE ByHeld(m)
             /\ ByModule(m)' = IF m = x THEN ByModule(m) \union {e} ELSE ByModule(m)
             /\ p \notin ByHeld(m) /\ e \notin ByModule(m)
    <2>1. ByHeld(m)' = IF m = e THEN ByHeld(m) \union {p} ELSE ByHeld(m)
        BY <1>2, <1>5 DEF ByHeld
    <2>2. ByModule(m)' = IF m = x THEN ByModule(m) \union {e} ELSE ByModule(m)
        BY <1>2, <1>4, <1>5 DEF ByModule, Alive
    <2>3. ByEngine(m)' = ByEngine(m)
        BY <1>2, <1>4, <1>5 DEF ByEngine, Alive
    <2>4. p \notin ByHeld(m) /\ e \notin ByModule(m)
        BY <1>2, <1>4 DEF ByHeld, ByModule
    <2> QED BY <1>1, <2>1, <2>2, <2>3, <2>4 DEF ByGlobal, ByPipeline, ByBuffer, globals
<1>7. Counted'
    <2> SUFFICES ASSUME NEW m \in Modules PROVE ref_count'[m] = References(m)'
        BY DEF Counted
    <2>1. Cardinality(ByHeld(m)') = Cardinality(ByHeld(m)) + One(m = e)
        BY <1>6, Finite, CountsNat, FS_AddElement DEF One
    <2>2. Cardinality(ByModule(m)') = Cardinality(ByModule(m)) + One(m = x)
        <3>1. CASE m = x
            <4>1. ByModule(m)' = ByModule(m) \union {e} /\ e \notin ByModule(m)
                BY <1>6, <3>1
            <4>2. Cardinality(ByModule(m)') = Cardinality(ByModule(m)) + 1
                BY <4>1, Finite, FS_AddElement
            <4> QED BY <3>1, <4>2 DEF One
        <3>2. CASE m # x
            BY <1>6, <3>2, CountsNat DEF One
        <3> QED BY <3>1, <3>2
    <2>3. References(m)' = Cardinality(ByGlobal(m)) + Cardinality(ByPipeline(m))
                             + Cardinality(ByHeld(m)') + Cardinality(ByBuffer(m))
                             + Cardinality(ByModule(m)') + Cardinality(ByEngine(m))
                             + leaked[m]
        BY <1>6, <1>l, ReferencesSumPrime
    <2>4. One(m = e) \in Int /\ One(m = x) \in Int
        BY DEF One
    <2>5. References(m)' = References(m) + One(m = e) + One(m = x)
        BY <2>1, <2>2, <2>3, <2>4, CountsNat, Typed, ReferencesSum
    <2> QED BY <1>5, <2>5 DEF MInv, Counted
<1>8. UsersLive'
    <2>1. ASSUME NEW m \in Modules, Referenced(m)', m # e PROVE Referenced(m)
        BY <1>3, <1>6, <2>1, <1>l DEF Referenced
    <2> QED BY <1>5, <1>7, <2>1, <1>l, UsersStayLive DEF MInv
<1>9. Numbered'
    <2>1. Fresh' \in Nat /\ Used' = 1 .. (Fresh' - 1)
        BY <1>2, <1>4, <1>5, FreshTaken DEF e
    <2> QED BY <1>5, <2>1 DEF MInv, Numbered
<1>10. SharedKinds'
    <2>1. ASSUME NEW k \in Kinds, shared_runtimes[k] # None
          PROVE  shared_runtimes[k] # e /\ shared_runtimes[k] \in Modules
        <3>1. shared_runtimes[k] \in Modules
            BY <2>1, Typed
        <3> QED BY <1>4, <3>1 DEF Referenced, ByGlobal
    <2> QED BY <1>1, <1>5, <2>1 DEF MInv, SharedKinds, globals
<1>11. Compiling'
    <2>1. ASSUME NEW r \in Pipelines, NEW m \in held[r] PROVE m # e /\ m \in Modules
        <3>1. m \in Modules
            BY Typed
        <3> QED BY <1>4, <3>1 DEF Referenced, ByHeld
    <2>2. ASSUME NEW r \in Pipelines, pc[r] = "externs"
          PROVE ExternOf[r] \in Pipelines
        BY <2>2, JITAssumption DEF MInv, Compiling
    <2> QED
        BY <1>1, <1>2, <1>5, <2>1, <2>2 DEF MInv, Compiling
<1>12. TypeOK'
    <2>1. ref_count' \in [Modules -> Nat]
        BY <1>1, <1>7, <1>l, NoneLeft DEF Counted
    <2> QED BY <1>1, <1>2, <2>1 DEF MInv, TypeOK, globals
<1> QED BY <1>7, <1>8, <1>9, <1>10, <1>11, <1>12 DEF MInv

LEMMA StepCompileModule ==
    ASSUME MInv, NEW p \in Pipelines, compile_module(p)
    PROVE  MInv'
<1> DEFINE f == Fresh
           H == held[p]
           x == jit_module[p]
           a == [m \in Modules |-> IF m \in H THEN 2 ELSE 0]
           d == [m \in Modules |-> One(m \in H) + One(m = x)]
<1>1. /\ pc[p] = "linking" /\ f <= MaxModules
      /\ kind' = [kind EXCEPT ![f] = "func"]
      /\ deps' = [deps EXCEPT ![f] = H]
      /\ built' = [built EXCEPT ![f] = jit_target[p]]
      /\ ref_count' = [m \in Modules |-> ref_count[m] + a[m] - d[m] + One(m = f)]
      /\ life' = [m \in Modules |->
                    IF m = f THEN "live" ELSE AfterDrop(m, ref_count[m] + a[m] - d[m], d[m])]
      /\ jit_module' = [jit_module EXCEPT ![p] = f]
      /\ held' = [held EXCEPT ![p] = {}]
      /\ pc' = [pc EXCEPT ![p] = "idle"]
      /\ UNCHANGED <<leaked, globals, jit_target, handlers, dev, failures, crashed>>
    BY DEF compile_module, Copies
<1>l. UNCHANGED leaked /\ leaked' \in [Modules -> Nat]
    BY <1>1, Typed DEF MInv, TypeOK
<1>2. f \in Modules /\ H \subseteq Modules /\ x \in Modules \union {None}
    BY <1>1, Typed, FreshFacts, ModuleFacts
<1>3. life[f] = "unused" /\ ~Referenced(f) /\ ~Alive(f) /\ kind[f] = "unused"
    BY <1>2, FreshFacts
<1>4. f \notin H /\ f # x
    BY <1>3 DEF Referenced, ByHeld, ByPipeline
<1>5. \A m \in Modules : /\ a[m] = 2 * One(m \in H) /\ d[m] = One(m \in H) + One(m = x)
                         /\ One(m \in H) \in Nat /\ One(m = x) \in Nat /\ One(m = f) \in Nat
                         /\ d[m] \in Nat /\ a[m] \in Nat
                         /\ d[m] > 0 => Referenced(m)
    BY DEF One, Referenced, ByHeld, ByPipeline
<1>6. /\ \A m \in Modules : ref_count'[m] = ref_count[m] + a[m] - d[m] + One(m = f)
      /\ life'[f] = "live" /\ kind'[f] = "func" /\ deps'[f] = H
      /\ \A m \in Modules : m # f => kind'[m] = kind[m] /\ deps'[m] = deps[m]
      /\ held'[p] = {} /\ pc'[p] = "idle" /\ jit_module'[p] = f
      /\ \A r \in Pipelines : r # p => /\ held'[r] = held[r] /\ pc'[r] = pc[r]
                                       /\ jit_module'[r] = jit_module[r]
    BY <1>1, <1>2 DEF MInv, TypeOK
<1>7. \A m \in Modules : m # f => life'[m] = AfterDrop(m, ref_count'[m], d[m])
    <2> SUFFICES ASSUME NEW m \in Modules, m # f
                 PROVE  life'[m] = AfterDrop(m, ref_count'[m], d[m])
        OBVIOUS
    <2>1. ref_count'[m] = ref_count[m] + a[m] - d[m]
        BY <1>5, <1>6, Typed DEF One
    <2> QED BY <1>1, <2>1
<1>8. life' \in [Modules -> {"unused", "live", "dying", "dead"}]
    BY <1>1, Typed DEF AfterDrop
<1> HIDE DEF f, x, H, a, d
<1>9. ASSUME NEW m \in Modules, m # f PROVE Dropped(m)
    BY <1>5, <1>7, <1>9, AfterDropped
<1>10. ASSUME NEW m \in Modules
       PROVE  /\ ByGlobal(m)' = ByGlobal(m) /\ ByBuffer(m)' = ByBuffer(m)
              /\ ByHeld(m)' = ByHeld(m) \ {p} /\ (p \in ByHeld(m) <=> m \in H)
              /\ ByModule(m)' = (IF m \in H THEN ByModule(m) \union {f} ELSE ByModule(m))
              /\ ByEngine(m)' = (IF m \in H THEN ByEngine(m) \union {f} ELSE ByEngine(m))
              /\ f \notin ByModule(m) /\ f \notin ByEngine(m)
    <2>1. ByHeld(m)' = ByHeld(m) \ {p} /\ (p \in ByHeld(m) <=> m \in H)
        BY <1>6 DEF ByHeld, H
    <2>2. ASSUME NEW n \in Modules, n # f
          PROVE  (Alive(n)' <=> Alive(n)) /\ deps'[n] = deps[n] /\ kind'[n] = kind[n]
        BY <1>6, <1>9, <2>2, DroppedAlive
    <2>a. life'[f] = "live" /\ f \in Modules /\ deps'[f] = H /\ kind'[f] = "func"
        BY <1>2, <1>6
    <2>3. /\ ByModule(m)' = (IF m \in H THEN ByModule(m) \union {f} ELSE ByModule(m))
          /\ f \notin ByModule(m)
        <3>1. ByModule(m)' = {n \in Modules : life'[n] \in {"live", "dying"} /\ m \in deps'[n]}
            BY DEF ByModule, Alive
        <3>2. f \notin ByModule(m)
            BY <1>3 DEF ByModule
        <3>3. \A n \in Modules : n # f => (n \in ByModule(m)' <=> n \in ByModule(m))
            BY <2>2, <3>1 DEF ByModule, Alive
        <3>4. f \in ByModule(m)' <=> m \in H
            BY <2>a, <3>1
        <3>5. ByModule(m) \subseteq Modules /\ ByModule(m)' \subseteq Modules
            BY <3>1 DEF ByModule
        <3> QED BY <2>a, <3>2, <3>3, <3>4, <3>5
    <2>4. /\ ByEngine(m)' = (IF m \in H THEN ByEngine(m) \union {f} ELSE ByEngine(m))
          /\ f \notin ByEngine(m)
        <3>1. ByEngine(m)' = {n \in Modules : /\ life'[n] \in {"live", "dying"}
                                              /\ m \in deps'[n] /\ kind'[n] # "externs"}
            BY DEF ByEngine, Alive
        <3>2. f \notin ByEngine(m)
            BY <1>3 DEF ByEngine
        <3>3. \A n \in Modules : n # f => (n \in ByEngine(m)' <=> n \in ByEngine(m))
            BY <2>2, <3>1 DEF ByEngine, Alive
        <3>4. f \in ByEngine(m)' <=> m \in H
            BY <2>a, <3>1
        <3>5. ByEngine(m) \subseteq Modules /\ ByEngine(m)' \subseteq Modules
            BY <3>1 DEF ByEngine
        <3> QED BY <2>a, <3>2, <3>3, <3>4, <3>5
    <2> QED BY <1>1, <2>1, <2>3, <2>4 DEF ByGlobal, ByBuffer, globals
<1>11. ASSUME NEW m \in Modules
       PROVE  Cardinality(ByPipeline(m)') = Cardinality(ByPipeline(m)) + One(m = f) - One(m = x)
    <2> DEFINE X == ByPipeline(m)
               Y == ByPipeline(m)'
    <2>1. \A r : r # p => (r \in X <=> r \in Y)
        BY <1>6 DEF ByPipeline
    <2>2. (p \in Y <=> m = f) /\ (p \in X <=> m = x)
        BY <1>6 DEF ByPipeline, x
    <2>3. IsFiniteSet(X)
        BY Finite
    <2> HIDE DEF X, Y
    <2>4. Cardinality(X) \in Nat /\ Cardinality(Y) = Cardinality(X) + One(p \in Y) - One(p \in X)
        BY <2>1, <2>3, OneChanged
    <2>5. Cardinality(Y) = Cardinality(X) + One(m = f) - One(m = x)
        BY <2>2, <2>4 DEF One
    <2> QED BY <2>5 DEF X, Y
<1>12. Counted'
    <2> SUFFICES ASSUME NEW m \in Modules PROVE ref_count'[m] = References(m)'
        BY DEF Counted
    <2>1. Cardinality(ByHeld(m)') = Cardinality(ByHeld(m)) - One(m \in H)
        BY <1>10, Finite, CountsNat, FS_RemoveElement DEF One
    <2>2. Cardinality(ByModule(m)') = Cardinality(ByModule(m)) + One(m \in H)
        <3>1. CASE m \in H
            <4>1. ByModule(m)' = ByModule(m) \union {f} /\ f \notin ByModule(m)
                BY <1>10, <3>1
            <4>2. Cardinality(ByModule(m)') = Cardinality(ByModule(m)) + 1
                BY <4>1, Finite, FS_AddElement
            <4> QED BY <3>1, <4>2 DEF One
        <3>2. CASE m \notin H
            BY <1>10, <3>2, CountsNat DEF One
        <3> QED BY <3>1, <3>2
    <2>3. Cardinality(ByEngine(m)') = Cardinality(ByEngine(m)) + One(m \in H)
        <3>1. CASE m \in H
            <4>1. ByEngine(m)' = ByEngine(m) \union {f} /\ f \notin ByEngine(m)
                BY <1>10, <3>1
            <4>2. Cardinality(ByEngine(m)') = Cardinality(ByEngine(m)) + 1
                BY <4>1, Finite, FS_AddElement
            <4> QED BY <3>1, <4>2 DEF One
        <3>2. CASE m \notin H
            BY <1>10, <3>2, CountsNat DEF One
        <3> QED BY <3>1, <3>2
    <2>4. References(m)' = Cardinality(ByGlobal(m)) + Cardinality(ByPipeline(m)')
                             + Cardinality(ByHeld(m)') + Cardinality(ByBuffer(m))
                             + Cardinality(ByModule(m)') + Cardinality(ByEngine(m)')
                             + leaked[m]
        BY <1>10, <1>l, ReferencesSumPrime
    <2>5. References(m)' = References(m) + One(m = f) - One(m = x) + One(m \in H)
        BY <1>5, <1>11, <2>1, <2>2, <2>3, <2>4, CountsNat, Typed, ReferencesSum
    <2>6. ref_count'[m] = ref_count[m] + One(m \in H) - One(m = x) + One(m = f)
        BY <1>5, <1>6, Typed
    <2>7. ref_count[m] = References(m) /\ ref_count[m] \in Nat
        BY Typed DEF MInv, Counted
    <2> QED BY <1>5, <2>5, <2>6, <2>7
<1>13. UsersLive'
    <2>1. ASSUME NEW m \in Modules, Referenced(m)', m # f PROVE Referenced(m)
        <3>1. ByPipeline(m)' \subseteq ByPipeline(m)
            BY <1>6, <2>1 DEF ByPipeline
        <3>2. m \in H => Referenced(m)
            BY <1>10, <1>l DEF Referenced
        <3> QED BY <1>10, <2>1, <3>1, <3>2, <1>l DEF Referenced
    <2> QED BY <1>6, <1>9, <1>12, <2>1, <1>l, UsersStayLive DEF MInv, Dropped
<1>14. Numbered'
    <2>1. \A m \in Modules : life'[m] = "unused" <=> (life[m] = "unused" /\ m # f)
        BY <1>6, <1>9, DroppedAlive
    <2>2. Fresh' \in Nat /\ Used' = 1 .. (Fresh' - 1)
        BY <1>2, <2>1, FreshTaken DEF f
    <2> QED BY <1>3, <1>6, <2>1, <2>2 DEF MInv, Numbered
<1>15. SharedKinds'
    <2>1. ASSUME NEW k \in Kinds, shared_runtimes[k] # None
          PROVE  shared_runtimes[k] # f /\ shared_runtimes[k] \in Modules
        <3>1. shared_runtimes[k] \in Modules
            BY <2>1, Typed
        <3> QED BY <1>3, <3>1 DEF Referenced, ByGlobal
    <2> QED BY <1>1, <1>6, <2>1 DEF MInv, SharedKinds, globals
<1>16. Compiling'
    <2>1. ASSUME NEW r \in Pipelines, NEW m \in held[r] PROVE m # f /\ m \in Modules
        <3>1. m \in Modules
            BY Typed
        <3> QED BY <1>3, <3>1 DEF Referenced, ByHeld
    <2>2. ASSUME NEW r \in Pipelines, pc[r] = "externs"
          PROVE ExternOf[r] \in Pipelines
        BY <2>2, JITAssumption DEF MInv, Compiling
    <2>3. f # None
        BY <1>2, ModuleFacts
    <2> QED
        BY <1>1, <1>6, <2>1, <2>2, <2>3 DEF MInv, Compiling
<1>17. TypeOK'
    <2>1. ref_count' \in [Modules -> Nat]
        BY <1>1, <1>12, <1>l, NoneLeft DEF Counted
    <2> QED BY <1>1, <1>2, <1>8, <2>1 DEF MInv, TypeOK, MaybeModules, globals
<1> QED BY <1>12, <1>13, <1>14, <1>15, <1>16, <1>17 DEF MInv

-----------------------------------------------------------------------------
(* JITSharedRuntime::get.                                                    *)

LEMMA KindOrder ==
    ASSUME NEW k \in Kinds, NEW l \in Kinds
    PROVE  /\ ~Before(k, k)
           /\ k # l => Before(k, l) \/ Before(l, k)
           /\ \A h \in Kinds : Before(h, k) /\ Before(k, l) => Before(h, l)
<1>1. PICK i \in DOMAIN RuntimeKinds : RuntimeKinds[i] = k
    BY DEF Kinds
<1>2. PICK j \in DOMAIN RuntimeKinds : RuntimeKinds[j] = l
    BY DEF Kinds
<1>3. DOMAIN RuntimeKinds \subseteq Nat
    BY KindFacts
<1>4. \A a, b \in DOMAIN RuntimeKinds : RuntimeKinds[a] = RuntimeKinds[b] => a = b
    BY JITAssumption
<1>5. ~Before(k, k)
    BY <1>3, <1>4 DEF Before
<1>6. k # l => Before(k, l) \/ Before(l, k)
    <2>1. k # l => i < j \/ j < i
        BY <1>1, <1>2, <1>3
    <2> QED BY <1>1, <1>2, <2>1 DEF Before
<1>7. ASSUME NEW h \in Kinds, Before(h, k), Before(k, l) PROVE Before(h, l)
    <2>1. PICK a, b \in DOMAIN RuntimeKinds : a < b /\ RuntimeKinds[a] = h /\ RuntimeKinds[b] = k
        BY <1>7 DEF Before
    <2>2. PICK c, e \in DOMAIN RuntimeKinds : c < e /\ RuntimeKinds[c] = k /\ RuntimeKinds[e] = l
        BY <1>7 DEF Before
    <2>3. a < e
        BY <1>3, <1>4, <2>1, <2>2
    <2> QED BY <2>1, <2>2, <2>3 DEF Before
<1> QED BY <1>5, <1>6, <1>7

\* The new modules get the next numbers, one each.
LEMMA NewRuntimes ==
    ASSUME MInv, NEW t, {Runtimes(t)[k] : k \in Missing(t)} \subseteq Modules
    PROVE  /\ IsFiniteSet(Missing(t)) /\ Cardinality(Missing(t)) \in Nat
           /\ \A k \in Missing(t) : Runtimes(t)[k] >= Fresh
           /\ \A k, l \in Missing(t) : Runtimes(t)[k] = Runtimes(t)[l] => k = l
           /\ {Runtimes(t)[k] : k \in Missing(t)} = Fresh .. (Fresh + Cardinality(Missing(t)) - 1)
<1> DEFINE M == Missing(t)
           R == Runtimes(t)
           n == Cardinality(M)
           pre(k) == {l \in M : Before(l, k)}
           T == Fresh .. (Fresh + n - 1)
<1>1. M \subseteq Kinds
    BY DEF Missing, Wanted
<1>2. IsFiniteSet(M) /\ n \in Nat
    BY <1>1, KindFacts, FS_Subset, FS_CardinalityType
<1>3. ASSUME NEW k \in M
      PROVE  /\ R[k] = Fresh + Cardinality(pre(k))
             /\ IsFiniteSet(pre(k)) /\ Cardinality(pre(k)) \in Nat
             /\ pre(k) \subseteq M /\ k \notin pre(k)
    <2>1. R[k] = Fresh + Cardinality(pre(k))
        BY <1>1 DEF Runtimes
    <2>2. pre(k) \subseteq M
        OBVIOUS
    <2>3. k \notin pre(k)
        BY <1>1, KindOrder
    <2> QED BY <1>2, <2>1, <2>2, <2>3, FS_Subset, FS_CardinalityType
<1>4. ASSUME NEW k \in M PROVE Cardinality(pre(k)) < n
    <2>1. pre(k) # M
        BY <1>3
    <2>2. Cardinality(pre(k)) <= n /\ (n = Cardinality(pre(k)) => M = pre(k))
        BY <1>2, <1>3, FS_Subset
    <2> QED BY <1>2, <1>3, <2>1, <2>2
<1>5. ASSUME NEW k \in M, NEW l \in M, Before(k, l)
      PROVE  Cardinality(pre(k)) < Cardinality(pre(l))
    <2>1. pre(k) \subseteq pre(l)
        <3> SUFFICES ASSUME NEW h \in M, Before(h, k) PROVE Before(h, l)
            OBVIOUS
        <3>1. h \in Kinds /\ k \in Kinds /\ l \in Kinds
            BY <1>1
        <3> QED BY <1>5, <3>1, KindOrder
    <2>2. k \in pre(l) /\ k \notin pre(k)
        BY <1>3, <1>5
    <2>3. /\ Cardinality(pre(k)) <= Cardinality(pre(l))
          /\ Cardinality(pre(l)) = Cardinality(pre(k)) => pre(l) = pre(k)
        BY <1>3, <2>1, FS_Subset
    <2> QED BY <1>3, <2>2, <2>3
<1>6. Fresh \in Nat
    BY FreshFacts
<1>7. ASSUME NEW k \in M PROVE R[k] >= Fresh /\ R[k] \in T
    <2> DEFINE c == Cardinality(pre(k))
    <2>1. R[k] = Fresh + c /\ c \in Nat /\ c < n /\ n \in Nat
        BY <1>2, <1>3, <1>4
    <2> HIDE DEF c, n
    <2> QED BY <1>6, <2>1
<1>8. ASSUME NEW k \in M, NEW l \in M, R[k] = R[l] PROVE k = l
    <2>1. Cardinality(pre(k)) = Cardinality(pre(l))
        BY <1>3, <1>6, <1>8
    <2>2. ~Before(k, l) /\ ~Before(l, k)
        <3> DEFINE a == Cardinality(pre(k))
                   b == Cardinality(pre(l))
        <3>1. (Before(k, l) => a < b) /\ (Before(l, k) => b < a) /\ a = b /\ a \in Nat
            BY <1>3, <1>5, <2>1
        <3> HIDE DEF a, b
        <3> QED BY <3>1
    <2> QED BY <1>1, <2>2, KindOrder
<1> DEFINE h == [k \in M |-> R[k]]
<1>9. h \in Injection(M, T)
    <2>1. h \in [M -> T]
        BY <1>7
    <2>2. \A k, l \in M : h[k] = h[l] => k = l
        BY <1>8
    <2> HIDE DEF h, M, T
    <2> QED BY <2>1, <2>2 DEF Injection, IsInjective
<1>10. IsFiniteSet(T) /\ Cardinality(T) = n
    <2> DEFINE b == Fresh + n - 1
    <2>1. Fresh \in Int /\ b \in Int /\ n \in Nat /\ b = Fresh + n - 1
        BY <1>2, <1>6
    <2> HIDE DEF b, n
    <2>2. IsFiniteSet(Fresh .. b) /\ Cardinality(Fresh .. b) = IF Fresh > b THEN 0 ELSE b - Fresh + 1
        BY <2>1, FS_Interval
    <2> QED BY <2>1, <2>2
<1>11. h \in Surjection(M, T)
    <2> HIDE DEF h, M, T
    <2> QED BY <1>9, <1>10, FS_Injection DEF n
<1>12. {R[k] : k \in M} = T
    <2>1. \A y \in T : \E k \in M : h[k] = y
        BY <1>11 DEF Surjection
    <2> QED BY <1>7, <2>1
<1> QED BY <1>2, <1>7, <1>8, <1>12

ResultOf(t, R) == {R[k] : k \in Wanted(t)}
DepsOf(t, R, k) == {R[l] : l \in {j \in Wanted(t) : Before(j, k)}}

\* What get() does, with t, R, N and K for the devices it gets to, the runtimes after it,
\* the new modules and their kinds, and next for how it ends.
GetStep(p, t, R, N, K, next) ==
    /\ R \in [Kinds -> Modules \union {None}]
    /\ N \subseteq Modules /\ K \in [N -> Kinds]
    /\ pc[p] = "codegen"
    /\ next \in {"linking", "thrown"} /\ failures' \in 0..MaxFailures
    /\ next = "thrown" => failures' # 0
    /\ next = "linking" => UNCHANGED failures
    /\ \E c \in Nat : N = Fresh .. (Fresh + c - 1)
    /\ \A k \in Kinds : \/ R[k] \in N /\ K[R[k]] = k /\ shared_runtimes[k] = None
                        \/ R[k] = shared_runtimes[k] /\ R[k] \notin N
    /\ \A k \in Wanted(t) : R[k] \in Modules
    /\ \A n \in N : R[K[n]] = n /\ K[n] \in Wanted(t)
    /\ shared_runtimes' = R
    /\ kind' = [m \in Modules |-> IF m \in N THEN K[m] ELSE kind[m]]
    /\ deps' = [m \in Modules |-> IF m \in N THEN DepsOf(t, R, K[m]) ELSE deps[m]]
    /\ life' = [m \in Modules |-> IF m \in N THEN "live" ELSE life[m]]
    /\ held' = [held EXCEPT ![p] = @ \union ResultOf(t, R)]
    /\ ref_count' = [m \in Modules |->
          ref_count[m] + One(m \in N) + One(m \in ResultOf(t, R))
            + 2 * Cardinality({n \in N : m \in DepsOf(t, R, K[n])})]
    /\ IF R["MainShared"] \in N
       THEN /\ internal' = R["MainShared"]
            /\ active' = merge_handlers(R["MainShared"], custom)
            /\ cache' = default_cache_size
       ELSE UNCHANGED <<internal, active, cache>>
    /\ pc' = [pc EXCEPT ![p] = next]
    /\ UNCHANGED <<built, leaked, default_cache_size, custom, jit_module, jit_target,
                   handlers, dev, crashed>>

LEMMA RuntimesEffect ==
    ASSUME MInv, NEW p \in Pipelines, NEW t, GetRuntimes(p, t), NEW next, pc[p] = "codegen",
           next \in {"linking", "thrown"}, failures' \in 0..MaxFailures,
           next = "thrown" => failures' # 0,
           next = "linking" => UNCHANGED failures,
           pc' = [pc EXCEPT ![p] = next]
    PROVE  \E R, N, K : GetStep(p, t, R, N, K, next)
<1> DEFINE M == Missing(t)
           R == Runtimes(t)
           N == {R[k] : k \in M}
           KindOf(m) == CHOOSE k \in M : R[k] = m
           K == [m \in N |-> KindOf(m)]
<1>1. N \subseteq Modules
    BY DEF GetRuntimes
<1>3. /\ IsFiniteSet(M) /\ Cardinality(M) \in Nat
      /\ \A k \in M : R[k] >= Fresh
      /\ \A k, l \in M : R[k] = R[l] => k = l
      /\ N = Fresh .. (Fresh + Cardinality(M) - 1)
    BY <1>1, NewRuntimes
<1>4. M \subseteq Wanted(t) /\ Wanted(t) \subseteq Kinds
    BY DEF Missing, Wanted
<1>5. \A k \in Kinds \ M : R[k] = shared_runtimes[k]
    BY DEF Runtimes
<1>6. ASSUME NEW m \in N PROVE KindOf(m) \in M /\ R[KindOf(m)] = m
    <2>1. PICK k \in M : R[k] = m
        OBVIOUS
    <2> QED BY <2>1
<1>7. K \in [N -> Kinds] /\ \A m \in N : K[m] = KindOf(m)
    BY <1>4, <1>6
<1>8. ASSUME NEW k \in M PROVE R[k] \in N /\ K[R[k]] = k /\ shared_runtimes[k] = None
    <2>1. R[k] \in N
        OBVIOUS
    <2>2. KindOf(R[k]) = k
        BY <1>3, <1>6, <2>1
    <2>3. shared_runtimes[k] = None
        BY DEF Missing
    <2> QED BY <1>7, <2>1, <2>2, <2>3
<1>9. ASSUME NEW k \in Kinds \ M PROVE R[k] = shared_runtimes[k] /\ R[k] \notin N
    <2>1. R[k] = shared_runtimes[k]
        BY <1>5
    <2>2. ASSUME R[k] \in N PROVE FALSE
        <3>1. R[k] \in Modules /\ R[k] >= Fresh
            BY <1>1, <1>3, <2>2
        <3>2. Referenced(R[k])
            BY <2>1 DEF Referenced, ByGlobal
        <3> QED BY <3>1, <3>2, FreshFacts
    <2> QED BY <2>1, <2>2
<1>10. \A k \in Wanted(t) : R[k] \in Modules
    <2> SUFFICES ASSUME NEW k \in Wanted(t) PROVE R[k] \in Modules
        OBVIOUS
    <2>1. CASE k \in M
        BY <1>1, <1>8, <2>1
    <2>2. CASE k \notin M
        BY <1>4, <1>5, <2>2, Typed DEF Missing
    <2> QED BY <2>1, <2>2
<1>11. R \in [Kinds -> Modules \union {None}]
    <2>1. R = [k \in Kinds |-> R[k]]
        BY DEF Runtimes
    <2>2. \A k \in Kinds : R[k] \in Modules \union {None}
        BY <1>1, <1>5, <1>8, Typed
    <2> HIDE DEF R
    <2> QED BY <2>1, <2>2
<1>12. \E c \in Nat : N = Fresh .. (Fresh + c - 1)
    BY <1>3
<1>13. \A k \in Kinds : \/ R[k] \in N /\ K[R[k]] = k /\ shared_runtimes[k] = None
                        \/ R[k] = shared_runtimes[k] /\ R[k] \notin N
    BY <1>8, <1>9
<1>14. \A n \in N : R[K[n]] = n /\ K[n] \in Wanted(t)
    BY <1>4, <1>6, <1>7
<1> DEFINE Deps(k) == DepsOf(t, R, k)
           Res == ResultOf(t, R)
<1>15. /\ shared_runtimes' = R
       /\ held' = [held EXCEPT ![p] = @ \union Res]
       /\ life' = [m \in Modules |-> IF m \in N THEN "live" ELSE life[m]]
       /\ IF R["MainShared"] \in N
          THEN /\ internal' = R["MainShared"]
               /\ active' = merge_handlers(R["MainShared"], custom)
               /\ cache' = default_cache_size
          ELSE UNCHANGED <<internal, active, cache>>
       /\ UNCHANGED <<built, leaked, default_cache_size, custom, jit_module, jit_target,
                      handlers, dev, crashed>>
    BY DEF GetRuntimes, Result, ResultOf, NewCacheSize
<1>16. kind' = [m \in Modules |-> IF m \in N THEN K[m] ELSE kind[m]]
    <2>1. kind' = [m \in Modules |-> IF m \in N THEN KindOf(m) ELSE kind[m]]
        BY DEF GetRuntimes
    <2> HIDE DEF N, K, KindOf
    <2> QED BY <1>7, <2>1
<1>17. deps' = [m \in Modules |-> IF m \in N THEN Deps(K[m]) ELSE deps[m]]
    <2>1. deps' = [m \in Modules |-> IF m \in N THEN Deps(KindOf(m)) ELSE deps[m]]
        BY DEF GetRuntimes, RuntimeDeps, DepsOf
    <2> HIDE DEF N, K, KindOf, Deps
    <2> QED BY <1>7, <2>1
<1>18. ref_count' = [m \in Modules |->
                   ref_count[m] + One(m \in N) + One(m \in Res)
                     + 2 * Cardinality({n \in N : m \in Deps(K[n])})]
    <2>1. ref_count' = [m \in Modules |->
                   ref_count[m] + One(m \in N) + One(m \in Res)
                     + 2 * Cardinality({n \in N : m \in Deps(KindOf(n))})]
        BY DEF GetRuntimes, RuntimeDeps, DepsOf, Result, ResultOf
    <2> HIDE DEF N, K, KindOf, Deps, Res
    <2>2. \A m \in Modules : {n \in N : m \in Deps(KindOf(n))} = {n \in N : m \in Deps(K[n])}
        BY <1>7
    <2> QED BY <2>1, <2>2
<1> HIDE DEF N, K, R, M, KindOf
<1>19. GetStep(p, t, R, N, K, next)
    BY <1>1, <1>7, <1>10, <1>11, <1>12, <1>13, <1>14, <1>15, <1>16, <1>17, <1>18
       DEF GetStep
<1> QED BY <1>19

LEMMA GetEffect ==
    ASSUME MInv, NEW p \in Pipelines, get(p) \/ GetFails(p)
    PROVE  \E t, R, N, K, next : GetStep(p, t, R, N, K, next)
<1>1. CASE get(p)
    <2>1. /\ pc[p] = "codegen" /\ GetRuntimes(p, jit_target[p])
          /\ pc' = [pc EXCEPT ![p] = "linking"] /\ UNCHANGED failures
        BY <1>1 DEF get
    <2>2. failures' \in 0..MaxFailures
        BY <2>1 DEF MInv, TypeOK
    <2>3. \E R, N, K : GetStep(p, jit_target[p], R, N, K, "linking")
        BY <2>1, <2>2, RuntimesEffect
    <2> QED BY <2>3
<1>2. CASE GetFails(p)
    <2>1. PICK k \in Missing(jit_target[p]) \intersect Devices :
             GetRuntimes(p, {j \in jit_target[p] : Before(j, k)})
        BY <1>2 DEF GetFails
    <2>2. /\ pc[p] = "codegen" /\ failures < MaxFailures /\ failures' = failures + 1
          /\ pc' = [pc EXCEPT ![p] = "thrown"]
        BY <1>2 DEF GetFails
    <2>3. failures' \in 0..MaxFailures /\ failures' # 0
        BY <2>2, JITAssumption DEF MInv, TypeOK
    <2> DEFINE t == {j \in jit_target[p] : Before(j, k)}
    <2> HIDE DEF t
    <2>4. GetRuntimes(p, t)
        BY <2>1 DEF t
    <2>5. \E R, N, K : GetStep(p, t, R, N, K, "thrown")
        BY <2>2, <2>3, <2>4, RuntimesEffect
    <2> QED BY <2>5
<1> QED BY <1>1, <1>2

LEMMA Disjoint ==
    ASSUME NEW S, NEW T, IsFiniteSet(S), IsFiniteSet(T), S \intersect T = {}
    PROVE  Cardinality(S \union T) = Cardinality(S) + Cardinality(T)
<1>1. Cardinality(S) \in Nat /\ Cardinality(T) \in Nat /\ Cardinality(S \intersect T) = 0
    BY FS_CardinalityType, FS_EmptySet
<1>2. Cardinality(S \union T) = Cardinality(S) + Cardinality(T) - Cardinality(S \intersect T)
    BY FS_Union
<1> QED BY <1>1, <1>2

LEMMA StepGet ==
    ASSUME MInv, NEW p \in Pipelines, NEW t, NEW R, NEW N, NEW K, NEW next,
           GetStep(p, t, R, N, K, next)
    PROVE  MInv'
<1> DEFINE Res == ResultOf(t, R)
           D(m) == {n \in N : m \in DepsOf(t, R, K[n])}
<1>1. /\ R \in [Kinds -> Modules \union {None}]
      /\ N \subseteq Modules /\ K \in [N -> Kinds]
      /\ pc[p] = "codegen" /\ next \in {"linking", "thrown"} /\ failures' \in 0..MaxFailures
      /\ \A k \in Kinds : \/ R[k] \in N /\ K[R[k]] = k /\ shared_runtimes[k] = None
                          \/ R[k] = shared_runtimes[k] /\ R[k] \notin N
      /\ \A k \in Wanted(t) : R[k] \in Modules
      /\ \A n \in N : R[K[n]] = n /\ K[n] \in Wanted(t)
    BY DEF GetStep
<1>2. /\ shared_runtimes' = R
      /\ kind' = [m \in Modules |-> IF m \in N THEN K[m] ELSE kind[m]]
      /\ deps' = [m \in Modules |-> IF m \in N THEN DepsOf(t, R, K[m]) ELSE deps[m]]
      /\ life' = [m \in Modules |-> IF m \in N THEN "live" ELSE life[m]]
      /\ held' = [held EXCEPT ![p] = @ \union Res]
      /\ ref_count' = [m \in Modules |->
            ref_count[m] + One(m \in N) + One(m \in Res) + 2 * Cardinality(D(m))]
      /\ pc' = [pc EXCEPT ![p] = next]
      /\ UNCHANGED <<built, leaked, default_cache_size, custom, jit_module, jit_target,
                     handlers, dev, crashed>>
    BY DEF GetStep
<1>l. UNCHANGED leaked /\ leaked' \in [Modules -> Nat]
    BY <1>2, Typed DEF MInv, TypeOK
<1>3. /\ Wanted(t) \subseteq Kinds /\ Res \subseteq Modules
      /\ \A k \in Kinds : DepsOf(t, R, k) \subseteq Res
    BY <1>1 DEF Wanted, ResultOf, DepsOf
<1>4. PICK c \in Nat : N = Fresh .. (Fresh + c - 1)
    BY DEF GetStep
<1>5. ASSUME NEW n \in N
      PROVE  /\ n \in Modules /\ life[n] = "unused" /\ ~Referenced(n) /\ ~Alive(n)
             /\ kind[n] = "unused"
    <2>1. n \in Modules /\ n >= Fresh
        BY <1>1, <1>4, FreshFacts
    <2> QED BY <2>1, FreshFacts
<1>6. /\ \A m \in Modules \ N : /\ life'[m] = life[m] /\ kind'[m] = kind[m]
                                /\ deps'[m] = deps[m]
      /\ \A m \in N : /\ life'[m] = "live" /\ kind'[m] = K[m] /\ K[m] \in Kinds
                      /\ deps'[m] = DepsOf(t, R, K[m])
      /\ \A m \in Modules : ref_count'[m] = ref_count[m] + One(m \in N) + One(m \in Res)
                                              + 2 * Cardinality(D(m))
      /\ held'[p] = held[p] \union Res
      /\ pc'[p] = next
      /\ \A r \in Pipelines : r # p => held'[r] = held[r] /\ pc'[r] = pc[r]
    BY <1>1, <1>2, <1>3, <1>5 DEF MInv, TypeOK
<1>7. ASSUME NEW m \in Res PROVE m \notin held[p]
    <2>1. PICK k \in Wanted(t) : m = R[k]
        BY DEF ResultOf
    <2>2. ASSUME m \in held[p] PROVE m \in Modules /\ kind[m] = "externs" /\ Referenced(m)
        BY <1>1, <2>2, Typed DEF MInv, Compiling, Referenced, ByHeld
    <2>3. CASE m \in N
        BY <1>5, <2>2, <2>3
    <2>4. CASE m \notin N
        <3>1. m = shared_runtimes[k] /\ m \in Modules /\ k \in Kinds
            BY <1>1, <1>3, <2>1, <2>4
        <3>2. kind[m] = k
            BY <3>1, ModuleFacts DEF MInv, SharedKinds
        <3>3. "externs" \notin Kinds
            BY JITAssumption
        <3> QED BY <2>2, <3>1, <3>2, <3>3
    <2> QED BY <2>3, <2>4
<1> HIDE DEF Res, D
<1>8. ASSUME NEW m \in Modules
      PROVE  /\ ByPipeline(m)' = ByPipeline(m) /\ ByBuffer(m)' = ByBuffer(m)
             /\ \A r : r # p => (r \in ByHeld(m) <=> r \in ByHeld(m)')
             /\ p \in ByHeld(m)' <=> p \in ByHeld(m) \/ m \in Res
             /\ m \in Res => p \notin ByHeld(m)
             /\ m \in N => ByGlobal(m) = {} /\ ByGlobal(m)' = {K[m]}
             /\ m \notin N => ByGlobal(m)' = ByGlobal(m)
             /\ ByModule(m)' = ByModule(m) \union D(m)
             /\ ByEngine(m)' = ByEngine(m) \union D(m)
             /\ ByModule(m) \intersect D(m) = {} /\ ByEngine(m) \intersect D(m) = {}
             /\ IsFiniteSet(D(m))
    <2>1. ByPipeline(m)' = ByPipeline(m) /\ ByBuffer(m)' = ByBuffer(m)
        BY <1>2 DEF ByPipeline, ByBuffer
    <2>2. /\ \A r : r # p => (r \in ByHeld(m) <=> r \in ByHeld(m)')
          /\ p \in ByHeld(m)' <=> p \in ByHeld(m) \/ m \in Res
          /\ m \in Res => p \notin ByHeld(m)
        BY <1>6, <1>7 DEF ByHeld
    <2>3. m \in N => ByGlobal(m) = {} /\ ByGlobal(m)' = {K[m]}
        <3> SUFFICES ASSUME m \in N PROVE ByGlobal(m) = {} /\ ByGlobal(m)' = {K[m]}
            OBVIOUS
        <3>1. ByGlobal(m) = {}
            BY <1>5, <1>l DEF Referenced
        <3>2. ByGlobal(m)' = {k \in Kinds : R[k] = m}
            BY <1>2 DEF ByGlobal
        <3>3. K[m] \in Kinds /\ R[K[m]] = m
            BY <1>1
        <3>4. \A k \in Kinds : R[k] = m => k = K[m]
            BY <1>1
        <3> QED BY <3>1, <3>2, <3>3, <3>4
    <2>4. m \notin N => ByGlobal(m)' = ByGlobal(m)
        <3>1. \A k \in Kinds : m \notin N => (R[k] = m <=> shared_runtimes[k] = m)
            BY <1>1, ModuleFacts
        <3> QED BY <1>2, <3>1 DEF ByGlobal
    <2>5. D(m) \subseteq N /\ \A n \in N : n \in D(m) <=> m \in deps'[n]
        BY <1>6 DEF D
    <2>6. /\ ByModule(m)' = ByModule(m) \union D(m) /\ ByModule(m) \intersect D(m) = {}
        <3>1. ByModule(m)' = {n \in Modules : life'[n] \in {"live", "dying"} /\ m \in deps'[n]}
            BY DEF ByModule, Alive
        <3>2. ASSUME NEW n \in Modules \ N PROVE n \in ByModule(m)' <=> n \in ByModule(m)
            BY <1>6, <3>1 DEF ByModule, Alive
        <3>3. ASSUME NEW n \in N
              PROVE  n \notin ByModule(m) /\ (n \in ByModule(m)' <=> n \in D(m))
            BY <1>5, <1>6, <2>5, <3>1 DEF ByModule
        <3>4. ByModule(m) \subseteq Modules /\ ByModule(m)' \subseteq Modules
            BY <3>1 DEF ByModule
        <3> QED BY <1>1, <2>5, <3>2, <3>3, <3>4
    <2>7. /\ ByEngine(m)' = ByEngine(m) \union D(m) /\ ByEngine(m) \intersect D(m) = {}
        <3>0. "externs" \notin Kinds
            BY JITAssumption
        <3>1. ByEngine(m)' = {n \in Modules : /\ life'[n] \in {"live", "dying"}
                                              /\ m \in deps'[n] /\ kind'[n] # "externs"}
            BY DEF ByEngine, Alive
        <3>2. ASSUME NEW n \in Modules \ N PROVE n \in ByEngine(m)' <=> n \in ByEngine(m)
            BY <1>6, <3>1 DEF ByEngine, Alive
        <3>3. ASSUME NEW n \in N
              PROVE  n \notin ByEngine(m) /\ (n \in ByEngine(m)' <=> n \in D(m))
            BY <1>5, <1>6, <2>5, <3>0, <3>1 DEF ByEngine
        <3>4. ByEngine(m) \subseteq Modules /\ ByEngine(m)' \subseteq Modules
            BY <3>1 DEF ByEngine
        <3> QED BY <1>1, <2>5, <3>2, <3>3, <3>4
    <2>8. IsFiniteSet(D(m))
        BY <1>1, <2>5, ModuleFacts, FS_Subset
    <2> QED BY <2>1, <2>2, <2>3, <2>4, <2>6, <2>7, <2>8
<1>9. Counted'
    <2> SUFFICES ASSUME NEW m \in Modules PROVE ref_count'[m] = References(m)'
        BY DEF Counted
    <2>1. Cardinality(ByGlobal(m)') = Cardinality(ByGlobal(m)) + One(m \in N)
        <3>1. CASE m \in N
            <4>1. Cardinality(ByGlobal(m)) = 0 /\ Cardinality(ByGlobal(m)') = 1
                BY <1>8, <3>1, FS_EmptySet, FS_Singleton
            <4> QED BY <3>1, <4>1 DEF One
        <3>2. CASE m \notin N
            BY <1>8, <3>2, CountsNat DEF One
        <3> QED BY <3>1, <3>2
    <2>2. Cardinality(ByHeld(m)') = Cardinality(ByHeld(m)) + One(m \in Res)
        <3> DEFINE X == ByHeld(m)
                   Y == ByHeld(m)'
        <3>1. /\ \A r : r # p => (r \in X <=> r \in Y)
              /\ p \in Y <=> p \in X \/ m \in Res
              /\ m \in Res => p \notin X
              /\ IsFiniteSet(X)
            BY <1>8, Finite
        <3> HIDE DEF X, Y
        <3>2. /\ Cardinality(X) \in Nat
              /\ Cardinality(Y) = Cardinality(X) + One(p \in Y) - One(p \in X)
            BY <3>1, OneChanged
        <3>3. Cardinality(Y) = Cardinality(X) + One(m \in Res)
            BY <3>1, <3>2 DEF One
        <3> QED BY <3>3 DEF X, Y
    <2>3. Cardinality(ByModule(m)') = Cardinality(ByModule(m)) + Cardinality(D(m))
        BY <1>8, Finite, Disjoint
    <2>4. Cardinality(ByEngine(m)') = Cardinality(ByEngine(m)) + Cardinality(D(m))
        BY <1>8, Finite, Disjoint
    <2>5. References(m)' = Cardinality(ByGlobal(m)') + Cardinality(ByPipeline(m))
                             + Cardinality(ByHeld(m)') + Cardinality(ByBuffer(m))
                             + Cardinality(ByModule(m)') + Cardinality(ByEngine(m)')
                             + leaked[m]
        BY <1>8, <1>l, ReferencesSumPrime
    <2>6. Cardinality(D(m)) \in Nat /\ One(m \in N) \in Nat /\ One(m \in Res) \in Nat
        BY <1>8, FS_CardinalityType DEF One
    <2>7. References(m)' = References(m) + One(m \in N) + One(m \in Res) + 2 * Cardinality(D(m))
        BY <2>1, <2>2, <2>3, <2>4, <2>5, <2>6, CountsNat, Typed, ReferencesSum
    <2>8. ref_count[m] = References(m)
        BY DEF MInv, Counted
    <2> QED BY <1>6, <2>7, <2>8
<1>10. ASSUME NEW m \in Modules, Referenced(m)' PROVE m \in N \/ Referenced(m)
    <2>1. ASSUME m \in Res, m \notin N PROVE Referenced(m)
        <3>1. PICK k \in Wanted(t) : m = R[k]
            BY <2>1 DEF Res, ResultOf
        <3>2. shared_runtimes[k] = m /\ k \in Kinds
            BY <1>1, <1>3, <2>1, <3>1
        <3> QED BY <3>2 DEF Referenced, ByGlobal
    <2>2. D(m) # {} => m \in Res
        BY <1>1, <1>3 DEF D
    <2>3. ByHeld(m)' # {} => ByHeld(m) # {} \/ m \in Res
        BY <1>8
    <2> QED BY <1>8, <1>10, <2>1, <2>2, <2>3, <1>l DEF Referenced
<1>11. UsersLive'
    <2>1. \A m \in Modules : Referenced(m)' => life'[m] = "live"
        BY <1>6, <1>10 DEF MInv, UsersLive
    <2> QED BY <2>1 DEF UsersLive
<1>12. Numbered'
    <2>1. Fresh \in Nat /\ Fresh >= 1 /\ Used = 1 .. (Fresh - 1)
        BY FreshFacts DEF MInv, Numbered
    <2>2. Used' = Used \union N
        BY <1>1, <1>6 DEF Used
    <2>3. Used' = 1 .. (Fresh + c - 1) /\ Fresh + c - 1 \in Nat
        BY <1>4, <2>1, <2>2
    <2>4. Fresh' \in Nat /\ Used' = 1 .. (Fresh' - 1)
        BY <2>3, UsedInterval
    <2>5. "unused" \notin Kinds
        BY JITAssumption
    <2>6. ASSUME NEW m \in Modules
          PROVE  /\ life'[m] = "unused" <=> kind'[m] = "unused"
                 /\ life'[m] = "unused" => deps'[m] = {}
        <3>1. CASE m \in N
            BY <1>6, <2>5, <3>1
        <3>2. CASE m \notin N
            BY <1>6, <3>2 DEF MInv, Numbered
        <3> QED BY <3>1, <3>2
    <2> QED BY <2>4, <2>6 DEF Numbered
<1>13. SharedKinds'
    <2> SUFFICES ASSUME NEW k \in Kinds, R[k] # None PROVE kind'[R[k]] = k
        BY <1>2 DEF SharedKinds
    <2>1. CASE R[k] \in N
        BY <1>1, <1>6, <2>1
    <2>2. CASE R[k] \notin N
        BY <1>1, <1>6, <2>2 DEF MInv, SharedKinds
    <2> QED BY <2>1, <2>2
<1>14. Compiling'
    <2>1. ASSUME NEW r \in Pipelines, NEW m \in held[r] PROVE m \notin N /\ m \in Modules
        <3>1. m \in Modules
            BY Typed
        <3> QED BY <1>5, <3>1 DEF Referenced, ByHeld
    <2>2. ASSUME NEW r \in Pipelines, pc[r] = "externs"
          PROVE ExternOf[r] \in Pipelines
        BY <2>2, JITAssumption DEF MInv, Compiling
    <2> QED BY <1>1, <1>2, <1>6, <2>1, <2>2 DEF MInv, Compiling
<1>15. TypeOK'
    <2>1. ref_count' \in [Modules -> Nat]
        BY <1>2, <1>9, <1>l, NoneLeft DEF Counted
    <2>2. /\ internal' \in MaybeModules /\ active' \in MaybeModules \union {Custom}
          /\ cache' \in CacheSizes \union {0}
        <3>1. CASE R["MainShared"] \in N
            <4>1. /\ internal' = R["MainShared"]
                  /\ active' = (IF custom THEN Custom ELSE R["MainShared"])
                  /\ cache' = default_cache_size
                BY <3>1 DEF GetStep, merge_handlers
            <4> QED BY <1>1, <3>1, <4>1 DEF MInv, TypeOK, MaybeModules
        <3>2. CASE R["MainShared"] \notin N
            <4>1. UNCHANGED <<internal, active, cache>>
                BY <3>2 DEF GetStep
            <4> QED BY <4>1 DEF MInv, TypeOK
        <3> QED BY <3>1, <3>2
    <2>3. deps' \in [Modules -> SUBSET Modules] /\ held' \in [Pipelines -> SUBSET Modules]
        BY <1>1, <1>2, <1>3, <1>6 DEF MInv, TypeOK
    <2>4. /\ kind' \in [Modules -> Kinds \union {"unused", "externs", "func"}]
          /\ life' \in [Modules -> {"unused", "live", "dying", "dead"}]
          /\ pc' \in [Pipelines -> {"idle", "lowering", "externs", "codegen", "linking",
                                    "running", "thrown"}]
        BY <1>1, <1>2 DEF MInv, TypeOK
    <2> QED BY <1>1, <1>2, <2>1, <2>2, <2>3, <2>4 DEF MInv, TypeOK, MaybeModules
<1> QED BY <1>9, <1>11, <1>12, <1>13, <1>14, <1>15 DEF MInv

-----------------------------------------------------------------------------
(* Counts are exact.                                                         *)

LEMMA InitMInv ==
    ASSUME Init
    PROVE  MInv
<1> USE DEF Init
<1>1. TypeOK
    <2>1. /\ custom \in BOOLEAN /\ crashed \in BOOLEAN
        BY Zenon
    <2>2. failures \in 0..MaxFailures
        BY JITAssumption
    <2>3. ref_count \in [Modules -> Nat] /\ deps \in [Modules -> SUBSET Modules]
          /\ held \in [Pipelines -> SUBSET Modules]
        OBVIOUS
    <2> QED BY <2>1, <2>2, <2>3 DEF TypeOK, MaybeModules
<1>2. Used = 1..0
    BY DEF Used
<1>3. Numbered
    <2>1. Cardinality(1..0) = 0
        BY FS_Interval
    <2>2. Fresh = 1
        <3> HIDE DEF Init
        <3>1. Fresh = Cardinality(Used) + 1
            BY DEF Fresh, Used
        <3> QED BY <1>2, <2>1, <3>1
    <2> QED BY <1>2, <2>2 DEF Numbered
<1>4. ASSUME NEW m \in Modules
      PROVE  /\ ByGlobal(m) = {} /\ ByPipeline(m) = {} /\ ByHeld(m) = {} /\ ByBuffer(m) = {}
             /\ ByModule(m) = {} /\ ByEngine(m) = {}
    <2>1. m # None
        BY ModuleFacts
    <2> QED BY <2>1 DEF ByGlobal, ByPipeline, ByHeld, ByBuffer, ByModule, ByEngine
<1>5. Counted
    <2> SUFFICES ASSUME NEW m \in Modules PROVE ref_count[m] = References(m)
        BY DEF Counted
    <2>1. Cardinality({}) = 0
        BY FS_EmptySet
    <2>2. References(m) = 0
        <3> HIDE DEF Init
        <3>1. References(m) = 0 + 0 + 0 + 0 + 0 + 0 + 0
            BY <1>4, <2>1, ReferencesSum DEF Init
        <3> QED BY <3>1
    <2> QED BY <2>2
<1>6. UsersLive
    BY <1>4 DEF UsersLive, Referenced
<1>7. SharedKinds /\ Compiling
    BY DEF SharedKinds, Compiling
<1> QED BY <1>1, <1>3, <1>5, <1>6, <1>7 DEF MInv

LEMMA StepMInv ==
    ASSUME MInv, [Next]_vars
    PROVE  MInv'
<1>1. CASE UNCHANGED vars
    <2>1. TypeOK' /\ Compiling'
        BY <1>1 DEF MInv, TypeOK, Compiling, vars, modVars, globals, pipeVars
    <2> QED BY <1>1, <2>1, SameModules DEF MInv, vars, modVars, globals, pipeVars
<1>2. CASE Next
    <2>1. ASSUME NEW p \in Pipelines, PipelineStep(p) PROVE MInv'
        <3>1. CASE \E t \in Targets : compile_jit(p, t)
            BY <3>1, StepCompileJit
        <3>2. CASE Lowered(p)
            BY <3>2, StepLowered
        <3>3. CASE make_externs_jit_module(p)
            BY <3>3, StepMakeExterns
        <3>4. CASE get(p) \/ GetFails(p)
            BY <3>4, GetEffect, StepGet
        <3>5. CASE compile_module(p)
            BY <3>5, StepCompileModule
        <3>6. CASE Throw(p)
            BY <3>6, StepThrow
        <3>7. CASE invalidate_cache(p)
            BY <3>7, StepInvalidate
        <3>8. CASE realize(p) \/ finalize(p)
            BY <3>8, StepRealize
        <3>9. CASE \E b \in Buffers, g \in Modules : halide_device_malloc(p, b, g)
            BY <3>9, StepMalloc
        <3>10. CASE \E b \in Buffers : halide_device_free(p, b)
            BY <3>10, StepFree DEF halide_device_free
        <3> QED BY <2>1, <3>1, <3>2, <3>3, <3>4, <3>5, <3>6, <3>7, <3>8, <3>9, <3>10
                DEF PipelineStep
    <2>2. CASE \E m \in Modules : Destroy(m)
        BY <2>2, StepDestroy
    <2>3. CASE release_all
        BY <2>3, StepReleaseAll
    <2>4. CASE (\E b \in BOOLEAN : set_default_handlers(b))
                 \/ (\E s \in CacheSizes : memoization_cache_set_size(s))
        BY <2>4, StepSettings
    <2>5. CASE \E b \in Buffers : destroy_buffer(b)
        BY <2>5, StepFree
    <2> QED BY <1>2, <2>1, <2>2, <2>3, <2>4, <2>5 DEF Next
<1> QED BY <1>1, <1>2

LEMMA Invariant == Spec => []MInv
<1>1. Init => MInv
    BY InitMInv
<1>2. MInv /\ [Next]_vars => MInv'
    BY StepMInv
<1> QED BY <1>1, <1>2, PTL DEF Spec

(* Every reference count of a module is exactly the number of references     *)
(* that globals, pipelines, compilations, device allocations, dependents,    *)
(* their engines and the engines that a failed compilation left behind hold, *)
(* and never negative (JITModuleContents::ref_count).                        *)
THEOREM RefCountsAlwaysExact == Spec => []RefCountExact
<1>1. MInv => RefCountExact
    BY DEF MInv, Counted, RefCountExact
<1> QED BY <1>1, Invariant, PTL

-----------------------------------------------------------------------------
(* The inductive invariant: builds and settings.                             *)

\* The runtimes among S: one MainShared, and devices that depend on it.
Coherent(S, kd, dp) ==
    \E main \in S :
       /\ kd[main] = "MainShared"
       /\ \A d \in S \ {main} : kd[d] # "externs" => kd[d] \in Devices /\ main \in dp[d]

DepsUsed == \A m \in Modules : \A d \in deps[m] : life[d] # "unused"

Together ==
    /\ \A f \in Modules : kind[f] = "func" => Coherent(deps[f], kind, deps)
    /\ \A p \in Pipelines : pc[p] = "linking" => Coherent(held[p], kind, deps)
    /\ \A k \in Devices : shared_runtimes[k] # None =>
          shared_runtimes["MainShared"] \in deps[shared_runtimes[k]]

\* The extern that p calls was built for t.
ExternsFor(S, t) ==
    \A e \in S : kind[e] = "externs" => \A x \in deps[e] : built[x] = t

\* The code that p has, or is given, is built for the target it asked for.
HasTarget(p) ==
    /\ pc[p] # "thrown"
    /\ pc[p] \in {"idle", "running"} /\ jit_module[p] # None
          => built[jit_module[p]] = jit_target[p]
    /\ pc[p] = "externs" => jit_target[ExternOf[p]] = jit_target[p]
    /\ pc[p] \in {"codegen", "linking"} => ExternsFor(held[p], jit_target[p])

ForTarget == failures = 0 => \A p \in Pipelines : HasTarget(p)

ExternsBuilt ==
    failures = 0 => \A f \in Modules : kind[f] = "func" => ExternsFor(deps[f], built[f])

Settings ==
    /\ shared_runtimes["MainShared"] # None => internal = shared_runtimes["MainShared"]
    /\ HandlersCurrent /\ CacheSizeFollows

\* The runtime's own handlers are those of the newest MainShared.
Handlers ==
    /\ custom => active = Custom
    /\ ~custom => active = internal
    /\ \A m \in Modules : kind[m] = "MainShared" => internal \in Modules /\ m <= internal
    /\ \A p \in Pipelines : jit_module[p] # None => internal \in Modules
    /\ \A p \in Pipelines : pc[p] = "running" /\ handlers[p] # Custom =>
          /\ handlers[p] \in Modules
          /\ \A m \in deps[jit_module[p]] : kind[m] = "MainShared" => m <= handlers[p]

BInv == DepsUsed /\ Together /\ ForTarget /\ ExternsBuilt /\ Settings /\ Handlers

-----------------------------------------------------------------------------
(* What is known of a module does not change once it is made.                *)

Stable == \A m \in Modules : life[m] # "unused" =>
             /\ kind'[m] = kind[m] /\ deps'[m] = deps[m] /\ built'[m] = built[m]
             /\ life'[m] # "unused"

\* A step that makes no module.
NoneMade(m) ==
    life[m] # "unused" => life'[m] # "unused"

LEMMA DropMakesNone ==
    ASSUME NEW d, Drop(d)
    PROVE  \A m \in Modules : NoneMade(m)
    BY DEF Drop, AfterDrop, NoneMade

LEMMA OldModules ==
    ASSUME MInv, [Next]_vars,
           \A p \in Pipelines : ~(make_externs_jit_module(p) \/ get(p) \/ GetFails(p) \/ compile_module(p))
    PROVE  UNCHANGED <<kind, deps, built>> /\ \A m \in Modules : NoneMade(m)
<1>1. CASE UNCHANGED vars
    BY <1>1 DEF vars, modVars, NoneMade
<1>2. CASE \E p \in Pipelines : PipelineStep(p)
    <2>1. PICK p \in Pipelines : PipelineStep(p)
        BY <1>2
    <2>2. CASE Throw(p)
        BY <2>2, DropMakesNone DEF Throw
    <2>3. CASE invalidate_cache(p)
        BY <2>3, DropMakesNone DEF invalidate_cache
    <2>4. CASE \/ \E t \in Targets : compile_jit(p, t)
               \/ Lowered(p) \/ realize(p) \/ finalize(p)
               \/ \E b \in Buffers, g \in Modules : halide_device_malloc(p, b, g)
               \/ \E b \in Buffers : halide_device_free(p, b)
        <3>1. UNCHANGED <<kind, deps, built, life>>
            BY <2>4 DEF compile_jit, Lowered, realize, finalize, halide_device_malloc,
                        halide_device_free, DropsAllocation, modVars
        <3> QED BY <3>1 DEF NoneMade
    <2> QED BY <2>1, <2>2, <2>3, <2>4 DEF PipelineStep
<1>3. CASE \E m \in Modules : Destroy(m)
    BY <1>3 DEF Destroy, AfterDrop, NoneMade
<1>4. CASE release_all
    BY <1>4, DropMakesNone DEF release_all
<1>5. CASE \/ \E b \in BOOLEAN : set_default_handlers(b)
           \/ \E s \in CacheSizes : memoization_cache_set_size(s)
           \/ \E b \in Buffers : destroy_buffer(b)
    <2>1. UNCHANGED <<kind, deps, built, life>>
        BY <1>5 DEF set_default_handlers, memoization_cache_set_size, destroy_buffer,
                    DropsAllocation, modVars
    <2> QED BY <2>1 DEF NoneMade
<1> QED BY <1>1, <1>2, <1>3, <1>4, <1>5 DEF Next

-----------------------------------------------------------------------------
(* The steps that make no module.                                            *)

OldStep ==
    [Next]_vars /\ \A p \in Pipelines :
       ~(make_externs_jit_module(p) \/ get(p) \/ GetFails(p) \/ compile_module(p))

\* Where the steps of one thread differ.
PipelinesAlone == UNCHANGED <<pc, jit_module, jit_target, held, handlers, failures>>

SettingsAlone == UNCHANGED <<shared_runtimes, default_cache_size, cache, internal, custom, active>>

LEMMA OldCases ==
    ASSUME OldStep
    PROVE  \/ PipelinesAlone /\ SettingsAlone
           \/ /\ PipelinesAlone
              /\ \/ release_all
                 \/ \E b \in BOOLEAN : set_default_handlers(b)
                 \/ \E s \in CacheSizes : memoization_cache_set_size(s)
           \/ /\ SettingsAlone
              /\ \E p \in Pipelines :
                    \/ \E t \in Targets : compile_jit(p, t)
                    \/ Lowered(p) \/ Throw(p) \/ invalidate_cache(p)
                    \/ realize(p) \/ finalize(p)
<1> USE DEF PipelinesAlone, SettingsAlone
<1>1. CASE UNCHANGED vars
    BY <1>1 DEF vars, modVars, globals, pipeVars
<1>2. CASE \E p \in Pipelines : PipelineStep(p)
    <2>1. PICK p \in Pipelines : PipelineStep(p)
        BY <1>2
    <2>2. ASSUME \/ \E t \in Targets : compile_jit(p, t)
                 \/ Lowered(p) \/ realize(p) \/ finalize(p)
          PROVE  SettingsAlone
        BY <2>2 DEF compile_jit, Lowered, realize, finalize, modVars, globals
    <2>3. ASSUME Throw(p) \/ invalidate_cache(p)
          PROVE  SettingsAlone
        BY <2>3 DEF Throw, invalidate_cache, globals
    <2>4. ASSUME \/ \E b \in Buffers, g \in Modules : halide_device_malloc(p, b, g)
                 \/ \E b \in Buffers : halide_device_free(p, b)
          PROVE  PipelinesAlone /\ SettingsAlone
        BY <2>4 DEF halide_device_malloc, halide_device_free, DropsAllocation, globals, pipeVars
    <2> HIDE DEF PipelinesAlone, SettingsAlone
    <2> QED BY <2>1, <2>2, <2>3, <2>4 DEF PipelineStep, OldStep
<1>3. CASE \E m \in Modules : Destroy(m)
    BY <1>3 DEF Destroy, globals, pipeVars
<1>4. CASE release_all
    BY <1>4 DEF release_all, pipeVars
<1>5. CASE \E b \in BOOLEAN : set_default_handlers(b)
    <2>1. PipelinesAlone
        BY <1>5 DEF set_default_handlers, pipeVars
    <2> QED BY <1>5, <2>1
<1>6. CASE \E s \in CacheSizes : memoization_cache_set_size(s)
    <2>1. PipelinesAlone
        BY <1>6 DEF memoization_cache_set_size, pipeVars
    <2> QED BY <1>6, <2>1
<1>7. CASE \E b \in Buffers : destroy_buffer(b)
    BY <1>7 DEF destroy_buffer, DropsAllocation, modVars, globals, pipeVars
<1> QED BY <1>1, <1>2, <1>3, <1>4, <1>5, <1>6, <1>7 DEF Next, OldStep

LEMMA OldTogether ==
    ASSUME MInv, BInv, OldStep
    PROVE  DepsUsed' /\ Together'
<1>1. UNCHANGED <<kind, deps, built>> /\ \A m \in Modules : NoneMade(m)
    BY OldModules DEF OldStep
<1>2. DepsUsed'
    <2>1. \A m \in Modules : deps[m] \subseteq Modules
        BY Typed
    <2> QED BY <1>1, <2>1 DEF BInv, DepsUsed, NoneMade
<1>3. \A p \in Pipelines : pc'[p] = "linking" => pc[p] = "linking" /\ held'[p] = held[p]
    <2>1. CASE PipelinesAlone
        BY <2>1 DEF PipelinesAlone
    <2>2. ASSUME NEW p \in Pipelines, NEW t \in Targets, compile_jit(p, t)
          PROVE  \A r \in Pipelines : pc'[r] = "linking" => pc[r] = "linking" /\ held'[r] = held[r]
        BY <2>2 DEF compile_jit, FirstStep, MInv, TypeOK
    <2>3. ASSUME NEW p \in Pipelines, Lowered(p)
          PROVE  \A r \in Pipelines : pc'[r] = "linking" => pc[r] = "linking" /\ held'[r] = held[r]
        <3>1. UNCHANGED held /\ \A r \in Pipelines : pc'[r] = "linking" => pc[r] = "linking"
            BY <2>3 DEF Lowered, FirstStep, MInv, TypeOK
        <3> QED BY <3>1
    <2>4. ASSUME NEW p \in Pipelines, Throw(p)
          PROVE  \A r \in Pipelines : pc'[r] = "linking" => pc[r] = "linking" /\ held'[r] = held[r]
        <3>1. /\ pc' = [q \in Pipelines |-> IF q = p THEN "idle"
                                            ELSE IF IsCompiledFor(p, q) THEN "thrown" ELSE pc[q]]
              /\ held' = [held EXCEPT ![p] = {}]
            BY <2>4 DEF Throw
        <3> QED BY <3>1 DEF MInv, TypeOK
    <2>5. ASSUME NEW p \in Pipelines, invalidate_cache(p) \/ realize(p) \/ finalize(p)
          PROVE  \A r \in Pipelines : pc'[r] = "linking" => pc[r] = "linking" /\ held'[r] = held[r]
        BY <2>5 DEF invalidate_cache, realize, finalize, MInv, TypeOK
    <2> QED BY <2>1, <2>2, <2>3, <2>4, <2>5, OldCases
<1>4. \/ UNCHANGED shared_runtimes
      \/ \A k \in Kinds : shared_runtimes'[k] = None
    BY OldCases DEF SettingsAlone, release_all, Released, set_default_handlers,
                    memoization_cache_set_size
<1>5. Devices \subseteq Kinds
    BY DEF Devices
<1>6. \A f \in Modules : kind'[f] = "func" => Coherent(deps'[f], kind', deps')
    BY <1>1 DEF BInv, Together
<1>7. \A p \in Pipelines : pc'[p] = "linking" => Coherent(held'[p], kind', deps')
    BY <1>1, <1>3 DEF BInv, Together
<1>8. \A k \in Devices : shared_runtimes'[k] # None =>
         shared_runtimes'["MainShared"] \in deps'[shared_runtimes'[k]]
    BY <1>1, <1>4, <1>5 DEF BInv, Together
<1> QED BY <1>2, <1>6, <1>7, <1>8 DEF Together

LEMMA OldForTarget ==
    ASSUME MInv, BInv, OldStep
    PROVE  ForTarget' /\ ExternsBuilt'
<1>1. UNCHANGED <<kind, deps, built>>
    BY OldModules DEF OldStep
<1>2. failures \in Nat
    BY JITAssumption DEF MInv, TypeOK
<1>3. failures' = 0 => failures = 0 /\ \A p \in Pipelines : HasTarget(p) /\ ~Throw(p)
    <2>1. failures = 0 => \A p \in Pipelines : HasTarget(p)
        BY DEF BInv, ForTarget
    <2>2. ASSUME NEW p \in Pipelines, Throw(p), failures' = 0 PROVE FALSE
        <3>1. CASE failures' = failures + 1
            BY <1>2, <2>2, <3>1
        <3>2. CASE pc[p] = "thrown" /\ UNCHANGED failures
            BY <2>1, <2>2, <3>2 DEF HasTarget
        <3> QED BY <2>2, <3>1, <3>2 DEF Throw
    <2>3. failures' = 0 => failures = 0
        <3>1. \/ UNCHANGED failures \/ \E p \in Pipelines : Throw(p)
            BY OldCases DEF PipelinesAlone, compile_jit, Lowered, invalidate_cache, realize, finalize
        <3> QED BY <2>2, <3>1
    <2> QED BY <2>1, <2>2, <2>3
<1>4. ExternsBuilt'
    BY <1>1, <1>3 DEF BInv, ExternsBuilt, ExternsFor
<1>5. ASSUME failures' = 0, NEW r \in Pipelines
      PROVE  HasTarget(r)'
    <2>1. HasTarget(r) /\ \A p \in Pipelines : HasTarget(p)
        BY <1>3, <1>5
    <2>2. CASE PipelinesAlone
        BY <1>1, <2>1, <2>2 DEF HasTarget, ExternsFor, PipelinesAlone
    <2>3. ASSUME NEW p \in Pipelines, NEW t \in Targets, compile_jit(p, t)
          PROVE  HasTarget(r)'
        <3>1. /\ \A c \in Pipelines : ~IsCompiledFor(p, c)
              /\ pc[p] = "idle" /\ pc'[p] \in {"lowering", "codegen"}
              /\ UNCHANGED <<jit_module, held>>
              /\ \A c \in Pipelines : c # p => pc'[c] = pc[c] /\ jit_target'[c] = jit_target[c]
            BY <2>3 DEF compile_jit, FirstStep, Free, MInv, TypeOK
        <3>2. CASE r = p
            <4>1. held[p] = {}
                BY <3>1 DEF MInv, Compiling
            <4> QED BY <3>1, <3>2, <4>1 DEF HasTarget, ExternsFor
        <3>3. CASE r # p
            <4>1. pc[r] = "externs" => ExternOf[r] # p /\ ExternOf[r] \in Pipelines
                BY <3>1, JITAssumption DEF IsCompiledFor, MInv, Compiling
            <4> QED BY <1>1, <2>1, <3>1, <3>3, <4>1 DEF HasTarget, ExternsFor
        <3> QED BY <3>2, <3>3
    <2>4. ASSUME NEW p \in Pipelines, Lowered(p)
          PROVE  HasTarget(r)'
        <3> DEFINE q == ExternOf[p]
        <3>1. /\ pc[p] = "lowering" /\ held[p] = {} /\ UNCHANGED <<jit_module, held>>
              /\ q # None /\ Free(q)
            BY <2>4 DEF Lowered, MInv, Compiling
        <3>3. HasTarget(r)'
            <4>1. /\ q \in Pipelines /\ pc[q] = "idle" /\ q # p
                  /\ \A c \in Pipelines : ~IsCompiledFor(q, c)
                BY <3>1, JITAssumption DEF Free
            <4>h. held[q] = {}
                BY <4>1 DEF MInv, Compiling
            <4>2. /\ pc'[p] = "externs" /\ pc'[q] \in {"idle", "lowering", "codegen"}
                  /\ pc'[q] = "idle" => UNCHANGED jit_target
                  /\ \A c \in Pipelines : c # p /\ c # q => pc'[c] = pc[c]
                  /\ jit_target'[q] = jit_target[p]
                  /\ \A c \in Pipelines : c # q => jit_target'[c] = jit_target[c]
                <5>1. CASE Reuses(q, jit_target[p])
                    <6>1. pc' = [pc EXCEPT ![p] = "externs"] /\ UNCHANGED jit_target
                        BY <2>4, <5>1 DEF Lowered
                    <6> QED BY <4>1, <5>1, <6>1 DEF Reuses, MInv, TypeOK
                <5>2. CASE ~Reuses(q, jit_target[p])
                    <6>1. /\ pc' = [pc EXCEPT ![p] = "externs", ![q] = FirstStep(q)]
                          /\ jit_target' = [jit_target EXCEPT ![q] = jit_target[p]]
                        BY <2>4, <5>2 DEF Lowered
                    <6>2. FirstStep(q) \in {"lowering", "codegen"}
                        BY DEF FirstStep
                    <6> QED BY <4>1, <6>1, <6>2 DEF MInv, TypeOK
                <5> QED BY <5>1, <5>2
            <4>3. CASE r = p
                BY <4>1, <4>2, <4>3 DEF HasTarget
            <4>4. CASE r = q
                BY <1>1, <2>1, <3>1, <4>1, <4>h, <4>2, <4>4 DEF HasTarget, ExternsFor
            <4>5. CASE r # p /\ r # q
                <5>1. pc[r] = "externs" => ExternOf[r] # q /\ ExternOf[r] \in Pipelines
                    BY <4>1, JITAssumption DEF IsCompiledFor, MInv, Compiling
                <5> QED BY <1>1, <2>1, <3>1, <4>2, <4>5, <5>1 DEF HasTarget, ExternsFor
            <4> QED BY <4>3, <4>4, <4>5
        <3> QED BY <3>3
    <2>5. ASSUME NEW p \in Pipelines, invalidate_cache(p)
          PROVE  HasTarget(r)'
        <3>1. /\ pc[p] = "idle" /\ \A c \in Pipelines : ~IsCompiledFor(p, c)
              /\ jit_module'[p] = None /\ UNCHANGED <<pc, held>>
              /\ \A c \in Pipelines : c # p => /\ jit_module'[c] = jit_module[c]
                                               /\ jit_target'[c] = jit_target[c]
            BY <2>5 DEF invalidate_cache, Free, MInv, TypeOK
        <3>2. CASE r = p
            BY <3>1, <3>2 DEF HasTarget
        <3>3. CASE r # p
            <4>1. pc[r] = "externs" => ExternOf[r] # p /\ ExternOf[r] \in Pipelines
                BY <3>1, JITAssumption DEF IsCompiledFor, MInv, Compiling
            <4> QED BY <1>1, <2>1, <3>1, <3>3, <4>1 DEF HasTarget, ExternsFor
        <3> QED BY <3>2, <3>3
    <2>6. ASSUME NEW p \in Pipelines, realize(p) \/ finalize(p)
          PROVE  HasTarget(r)'
        <3>1. /\ pc[p] \in {"idle", "running"} /\ pc'[p] \in {"idle", "running"}
              /\ \A c \in Pipelines : c # p => pc'[c] = pc[c]
              /\ UNCHANGED <<jit_module, jit_target, held>>
            BY <2>6 DEF realize, finalize, Free, MInv, TypeOK
        <3> QED BY <1>1, <2>1, <3>1 DEF HasTarget, ExternsFor
    <2> QED BY <1>3, <1>5, <2>2, <2>3, <2>4, <2>5, <2>6, OldCases
<1>6. ForTarget'
    BY <1>5 DEF ForTarget
<1> QED BY <1>4, <1>6

\* Who runs, runs the module that its pipeline has, with handlers that were active.
LEMMA OldRuns ==
    ASSUME MInv, OldStep
    PROVE  /\ \A r \in Pipelines : pc'[r] = "running" =>
                 /\ jit_module'[r] = jit_module[r]
                 /\ \/ pc[r] = "running" /\ handlers'[r] = handlers[r]
                    \/ handlers'[r] = active /\ jit_module[r] \in Modules
           /\ \A r \in Pipelines : jit_module'[r] \in {jit_module[r], None}
<1> DEFINE Runs == \A r \in Pipelines : pc'[r] = "running" =>
                      /\ jit_module'[r] = jit_module[r]
                      /\ \/ pc[r] = "running" /\ handlers'[r] = handlers[r]
                         \/ handlers'[r] = active /\ jit_module[r] \in Modules
           Has == \A r \in Pipelines : jit_module'[r] \in {jit_module[r], None}
<1>1. CASE PipelinesAlone
    BY <1>1 DEF PipelinesAlone
<1>2. ASSUME NEW p \in Pipelines, (\E t \in Targets : compile_jit(p, t)) \/ finalize(p)
       PROVE  Runs /\ Has
    BY <1>2 DEF compile_jit, FirstStep, finalize, MInv, TypeOK
<1>3. ASSUME NEW p \in Pipelines, Lowered(p) PROVE Runs /\ Has
    <2>1. /\ UNCHANGED <<jit_module, handlers>>
          /\ \A r \in Pipelines : pc'[r] = "running" => pc[r] = "running"
        BY <1>3 DEF Lowered, FirstStep, MInv, TypeOK
    <2> QED BY <2>1
<1>4. ASSUME NEW p \in Pipelines, Throw(p) PROVE Runs /\ Has
    <2>1. /\ UNCHANGED <<jit_module, handlers>>
          /\ pc' = [q \in Pipelines |-> IF q = p THEN "idle"
                                        ELSE IF IsCompiledFor(p, q) THEN "thrown" ELSE pc[q]]
        BY <1>4 DEF Throw
    <2> QED BY <2>1
<1>5. ASSUME NEW p \in Pipelines, invalidate_cache(p) PROVE Runs /\ Has
    BY <1>5 DEF invalidate_cache, Free, MInv, TypeOK
<1>6. ASSUME NEW p \in Pipelines, realize(p) PROVE Runs /\ Has
    BY <1>6, Typed DEF realize, MInv, TypeOK
<1> HIDE DEF Runs, Has
<1>7. Runs /\ Has
    BY <1>1, <1>2, <1>3, <1>4, <1>5, <1>6, OldCases DEF Runs, Has
<1> QED BY <1>7 DEF Runs, Has

LEMMA OldHandlers ==
    ASSUME MInv, BInv, OldStep
    PROVE  Handlers'
<1>1. UNCHANGED <<kind, deps>> /\ UNCHANGED internal
    <2>1. UNCHANGED internal
        BY OldCases DEF SettingsAlone, release_all, set_default_handlers,
                        memoization_cache_set_size
    <2> QED BY <2>1, OldModules DEF OldStep
<1>2. /\ custom' => active' = Custom
      /\ ~custom' => active' = internal'
    <2>1. CASE UNCHANGED <<custom, active>>
        BY <1>1, <2>1 DEF BInv, Handlers
    <2>2. CASE \E b \in BOOLEAN : set_default_handlers(b)
        BY <1>1, <2>2 DEF set_default_handlers, merge_handlers
    <2> QED BY <2>1, <2>2, OldCases DEF SettingsAlone, release_all, memoization_cache_set_size
<1>3. \A m \in Modules : kind'[m] = "MainShared" => internal' \in Modules /\ m <= internal'
    BY <1>1 DEF BInv, Handlers
<1>4. \A r \in Pipelines : jit_module'[r] # None => internal' \in Modules
    BY <1>1, OldRuns DEF BInv, Handlers
<1>5. ASSUME NEW r \in Pipelines, pc'[r] = "running", handlers'[r] # Custom
      PROVE  /\ handlers'[r] \in Modules
             /\ \A m \in deps'[jit_module'[r]] : kind'[m] = "MainShared" => m <= handlers'[r]
    <2>1. jit_module'[r] = jit_module[r]
        BY <1>5, OldRuns
    <2>2. CASE pc[r] = "running" /\ handlers'[r] = handlers[r]
        BY <1>1, <1>5, <2>1, <2>2 DEF BInv, Handlers
    <2>3. CASE handlers'[r] = active /\ jit_module[r] \in Modules
        <3>1. active = internal /\ internal \in Modules
            BY <1>5, <2>3, ModuleFacts DEF BInv, Handlers
        <3>2. deps[jit_module[r]] \subseteq Modules
            BY <2>3, Typed
        <3> QED BY <1>1, <2>1, <2>3, <3>1, <3>2 DEF BInv, Handlers
    <2> QED BY <1>5, <2>2, <2>3, OldRuns
<1> QED BY <1>2, <1>3, <1>4, <1>5 DEF Handlers

LEMMA OldSettings ==
    ASSUME MInv, BInv, OldStep
    PROVE  Settings'
<1> DEFINE main == shared_runtimes["MainShared"]
<1>1. UNCHANGED deps
    BY OldModules DEF OldStep
<1>2. "MainShared" \in Kinds
    BY KindFacts
<1>3. /\ main # None => internal = main
      /\ custom => active = Custom
      /\ ~custom /\ main # None => active = main
      /\ \A p \in Pipelines : pc[p] = "running" /\ main \in deps[jit_module[p]]
                                => handlers[p] \in {Custom, main}
      /\ main # None => cache = default_cache_size
    BY DEF BInv, Settings, HandlersCurrent, CacheSizeFollows
<1>4. \A p \in Pipelines : pc[p] = "running" =>
         jit_module[p] \in Modules /\ None \notin deps[jit_module[p]]
    BY Typed, ModuleFacts DEF MInv, Compiling
<1> USE DEF Settings, HandlersCurrent, CacheSizeFollows
<1>5. CASE PipelinesAlone /\ SettingsAlone
    BY <1>1, <1>3, <1>5 DEF PipelinesAlone, SettingsAlone
<1>6. CASE PipelinesAlone /\ release_all
    <2>1. /\ shared_runtimes'["MainShared"] = None
          /\ UNCHANGED <<custom, active>>
        BY <1>2, <1>6 DEF release_all, Released
    <2> QED BY <1>1, <1>3, <1>4, <1>6, <2>1 DEF PipelinesAlone
<1>7. CASE PipelinesAlone /\ \E b \in BOOLEAN : set_default_handlers(b)
    BY <1>1, <1>3, <1>7 DEF PipelinesAlone, set_default_handlers, merge_handlers, modVars
<1>8. CASE PipelinesAlone /\ \E s \in CacheSizes : memoization_cache_set_size(s)
    <2>1. PICK s \in CacheSizes : memoization_cache_set_size(s)
        BY <1>8
    <2>2. /\ UNCHANGED <<shared_runtimes, internal, custom, active>>
          /\ default_cache_size' = s
          /\ main # None => cache' = s
        BY <2>1 DEF memoization_cache_set_size
    <2>3. main \in Modules \union {None}
        BY <1>2, Typed
    <2> QED BY <1>1, <1>3, <1>8, <2>2, <2>3 DEF PipelinesAlone
<1>9. ASSUME SettingsAlone,
             \A p \in Pipelines : pc'[p] = "running" =>
                /\ jit_module'[p] = jit_module[p]
                /\ \/ pc[p] = "running" /\ handlers'[p] = handlers[p]
                   \/ handlers'[p] = active /\ jit_module[p] \in Modules
      PROVE  Settings'
    <2>1. ASSUME NEW p \in Pipelines, pc'[p] = "running", main \in deps[jit_module'[p]]
          PROVE  handlers'[p] \in {Custom, main}
        <3>1. CASE pc[p] = "running" /\ handlers'[p] = handlers[p]
            BY <1>3, <1>9, <2>1, <3>1
        <3>2. CASE handlers'[p] = active /\ jit_module[p] \in Modules
            <4>1. main # None
                BY <1>9, <2>1, <3>2, Typed, ModuleFacts
            <4> QED BY <1>3, <3>2, <4>1
        <3> QED BY <1>9, <2>1, <3>1, <3>2
    <2> QED BY <1>1, <1>3, <1>9, <2>1 DEF SettingsAlone
<1>10. SettingsAlone => Settings'
    BY <1>9, OldRuns
<1> HIDE DEF Settings, HandlersCurrent, CacheSizeFollows
<1> QED BY <1>5, <1>6, <1>7, <1>8, <1>10, OldCases

-----------------------------------------------------------------------------
(* The steps that make modules.                                              *)

LEMMA UsedModules ==
    ASSUME MInv
    PROVE  /\ \A p \in Pipelines : \A m \in held[p] : m \in Modules /\ life[m] # "unused"
           /\ \A p \in Pipelines : jit_module[p] # None =>
                 jit_module[p] \in Modules /\ life[jit_module[p]] # "unused"
           /\ \A k \in Kinds : shared_runtimes[k] # None =>
                 shared_runtimes[k] \in Modules /\ life[shared_runtimes[k]] # "unused"
<1>1. \A m \in Modules : Referenced(m) => life[m] # "unused"
    BY DEF MInv, UsersLive
<1>2. \A p \in Pipelines : \A m \in held[p] : m \in Modules /\ Referenced(m)
    BY Typed DEF Referenced, ByHeld
<1>3. \A p \in Pipelines : jit_module[p] # None =>
         jit_module[p] \in Modules /\ Referenced(jit_module[p])
    BY Typed DEF Referenced, ByPipeline
<1>4. \A k \in Kinds : shared_runtimes[k] # None =>
         shared_runtimes[k] \in Modules /\ Referenced(shared_runtimes[k])
    BY Typed DEF Referenced, ByGlobal
<1> QED BY <1>1, <1>2, <1>3, <1>4

LEMMA CoherentStays ==
    ASSUME Stable, NEW S, \A m \in S : m \in Modules /\ life[m] # "unused",
           Coherent(S, kind, deps)
    PROVE  Coherent(S, kind', deps')
    BY DEF Stable, Coherent

LEMMA ExternsStay ==
    ASSUME MInv, BInv, Stable, NEW S, \A m \in S : m \in Modules /\ life[m] # "unused", NEW t,
           ExternsFor(S, t)
    PROVE  \A e \in S : kind'[e] = "externs" => \A x \in deps'[e] : built'[x] = t
<1> SUFFICES ASSUME NEW e \in S, kind'[e] = "externs", NEW x \in deps'[e] PROVE built'[x] = t
    OBVIOUS
<1>1. e \in Modules /\ kind[e] = "externs" /\ x \in deps[e]
    BY DEF Stable
<1>2. x \in Modules /\ life[x] # "unused"
    BY <1>1, Typed DEF BInv, DepsUsed
<1>3. built'[x] = built[x]
    BY <1>2 DEF Stable
<1> QED BY <1>1, <1>3 DEF ExternsFor

\* What a step that makes modules leaves alone, and what it owes for the new ones.
LEMMA Made ==
    ASSUME MInv, BInv, Stable, TypeOK',
           \A m \in Modules : life[m] = "unused" => \A d \in deps'[m] : life'[d] # "unused",
           \A m \in Modules : life[m] = "unused" /\ kind'[m] = "func" =>
              /\ Coherent(deps'[m], kind', deps')
              /\ failures' = 0 => ExternsFor(deps[m], built[m])',
           failures' = 0 => failures = 0
    PROVE  DepsUsed' /\ ExternsBuilt'
           /\ \A f \in Modules : kind'[f] = "func" => Coherent(deps'[f], kind', deps')
<1>1. DepsUsed'
    <2> SUFFICES ASSUME NEW m \in Modules, NEW d \in deps'[m] PROVE life'[d] # "unused"
        BY DEF DepsUsed
    <2>1. CASE life[m] # "unused"
        <3>1. d \in deps[m] /\ d \in Modules /\ life[d] # "unused"
            BY <2>1, Typed DEF Stable, BInv, DepsUsed
        <3> QED BY <3>1 DEF Stable
    <2> QED BY <2>1
<1>2. ASSUME NEW f \in Modules, life[f] # "unused", kind'[f] = "func"
      PROVE  /\ kind[f] = "func" /\ deps'[f] = deps[f] /\ built'[f] = built[f]
             /\ \A m \in deps[f] : m \in Modules /\ life[m] # "unused"
    BY <1>2, Typed DEF Stable, BInv, DepsUsed
<1>3. ASSUME NEW f \in Modules, kind'[f] = "func"
      PROVE  Coherent(deps'[f], kind', deps')
    <2>1. CASE life[f] # "unused"
        BY <1>2, <1>3, <2>1, CoherentStays DEF BInv, Together
    <2> QED BY <1>3, <2>1
<1>4. ExternsBuilt'
    <2> SUFFICES ASSUME failures' = 0, NEW f \in Modules, kind'[f] = "func"
                 PROVE  \A e \in deps'[f] : kind'[e] = "externs" =>
                           \A x \in deps'[e] : built'[x] = built'[f]
        BY DEF ExternsBuilt, ExternsFor
    <2>1. CASE life[f] # "unused"
        <3>1. ExternsFor(deps[f], built[f])
            BY <1>2, <2>1 DEF BInv, ExternsBuilt
        <3> QED BY <1>2, <2>1, <3>1, ExternsStay
    <2>2. CASE life[f] = "unused"
        BY <2>2 DEF ExternsFor
    <2> QED BY <2>1, <2>2
<1> QED BY <1>1, <1>3, <1>4

LEMMA OtherPipelines ==
    ASSUME MInv, BInv, Stable, NEW r \in Pipelines, pc'[r] = pc[r],
           jit_module'[r] = jit_module[r], held'[r] = held[r], UNCHANGED jit_target
    PROVE  /\ pc'[r] = "linking" => Coherent(held'[r], kind', deps')
           /\ HasTarget(r) => HasTarget(r)'
           /\ pc'[r] = "running" => deps'[jit_module'[r]] = deps[jit_module[r]]
<1>1. pc'[r] = "linking" => Coherent(held'[r], kind', deps')
    BY UsedModules, CoherentStays DEF BInv, Together
<1>2. jit_module[r] # None => /\ built'[jit_module[r]] = built[jit_module[r]]
                              /\ deps'[jit_module[r]] = deps[jit_module[r]]
    BY UsedModules DEF Stable
<1>3. ExternsFor(held[r], jit_target[r]) =>
         \A e \in held[r] : kind'[e] = "externs" => \A x \in deps'[e] : built'[x] = jit_target[r]
    BY UsedModules, ExternsStay
<1>4. HasTarget(r) => HasTarget(r)'
    <2>1. ASSUME ExternsFor(held[r], jit_target[r]) PROVE ExternsFor(held[r], jit_target[r])'
        BY <1>3, <2>1 DEF ExternsFor
    <2> QED BY <1>2, <2>1 DEF HasTarget
<1>5. pc[r] = "running" => jit_module[r] # None
    BY DEF MInv, Compiling
<1> QED BY <1>1, <1>2, <1>4, <1>5

LEMMA GlobalsStay ==
    ASSUME MInv, BInv, Stable, UNCHANGED shared_runtimes
    PROVE  \A k \in Devices : shared_runtimes'[k] # None =>
              shared_runtimes'["MainShared"] \in deps'[shared_runtimes'[k]]
<1>1. Devices \subseteq Kinds
    BY DEF Devices
<1> QED BY <1>1, UsedModules DEF Stable, BInv, Together

LEMMA SettingsStay ==
    ASSUME BInv, SettingsAlone,
           \A r \in Pipelines : pc'[r] = "running" =>
              /\ pc[r] = "running" /\ deps'[jit_module'[r]] = deps[jit_module[r]]
              /\ handlers'[r] = handlers[r]
    PROVE  Settings'
    BY DEF BInv, Settings, HandlersCurrent, CacheSizeFollows, SettingsAlone

LEMMA HandlersStay ==
    ASSUME MInv, BInv, SettingsAlone, UNCHANGED handlers,
           \A m \in Modules : kind'[m] = "MainShared" => kind[m] = "MainShared",
           \A r \in Pipelines : jit_module'[r] # None => internal \in Modules,
           \A r \in Pipelines : pc'[r] = "running" =>
              pc[r] = "running" /\ deps'[jit_module'[r]] = deps[jit_module[r]]
    PROVE  Handlers'
<1>1. UNCHANGED <<internal, custom, active>>
    BY DEF SettingsAlone
<1>2. ASSUME NEW r \in Pipelines, pc'[r] = "running", handlers'[r] # Custom
      PROVE  /\ handlers'[r] \in Modules
             /\ \A m \in deps'[jit_module'[r]] : kind'[m] = "MainShared" => m <= handlers'[r]
    <2>1. pc[r] = "running" /\ deps'[jit_module'[r]] = deps[jit_module[r]]
        BY <1>2
    <2>2. deps[jit_module[r]] \subseteq Modules
        BY <2>1, Typed DEF MInv, Compiling
    <2> QED BY <1>2, <2>1, <2>2 DEF BInv, Handlers
<1>3. \A m \in Modules : kind'[m] = "MainShared" => internal' \in Modules /\ m <= internal'
    BY <1>1 DEF BInv, Handlers
<1> QED BY <1>1, <1>2, <1>3 DEF BInv, Handlers

LEMMA ExternsBInv ==
    ASSUME MInv, BInv, MInv', NEW p \in Pipelines, make_externs_jit_module(p)
    PROVE  BInv'
<1> DEFINE e == Fresh
           q == ExternOf[p]
           x == jit_module[q]
<1>1. /\ pc[p] = "externs" /\ pc[q] = "idle" /\ e <= MaxModules
      /\ kind' = [kind EXCEPT ![e] = "externs"]
      /\ life' = [life EXCEPT ![e] = "live"]
      /\ deps' = [deps EXCEPT ![e] = {x}]
      /\ held' = [held EXCEPT ![p] = {e}]
      /\ pc' = [pc EXCEPT ![p] = "codegen"]
      /\ UNCHANGED <<built, leaked, globals, jit_module, jit_target, handlers, dev, failures, crashed>>
    BY DEF make_externs_jit_module, ExternDeps
<1>2. e \in Modules /\ life[e] = "unused"
    BY <1>1, FreshFacts, ModuleFacts
<1>3. q \in Pipelines /\ x \in Modules /\ life[x] # "unused" /\ x # e
    BY <1>1, <1>2, UsedModules, JITAssumption DEF MInv, Compiling
<1> HIDE DEF e, q, x
<1>4. /\ life'[e] = "live" /\ kind'[e] = "externs" /\ deps'[e] = {x}
      /\ \A m \in Modules : m # e => /\ life'[m] = life[m] /\ kind'[m] = kind[m]
                                     /\ deps'[m] = deps[m]
      /\ held'[p] = {e} /\ pc'[p] = "codegen"
      /\ \A r \in Pipelines : r # p => held'[r] = held[r] /\ pc'[r] = pc[r]
    BY <1>1, <1>2 DEF MInv, TypeOK
<1>5. Stable
    BY <1>1, <1>2, <1>4 DEF Stable
<1>6. /\ DepsUsed' /\ ExternsBuilt'
      /\ \A f \in Modules : kind'[f] = "func" => Coherent(deps'[f], kind', deps')
    <2>1. \A m \in Modules : life[m] = "unused" => \A d \in deps'[m] : life'[d] # "unused"
        BY <1>3, <1>4 DEF MInv, Numbered
    <2>2. \A m \in Modules : life[m] = "unused" => kind'[m] # "func"
        BY <1>4 DEF MInv, Numbered
    <2> QED BY <1>1, <1>5, <2>1, <2>2, Made DEF MInv
<1>7. Together'
    <2>1. \A r \in Pipelines : pc'[r] = "linking" => Coherent(held'[r], kind', deps')
        BY <1>1, <1>4, <1>5, OtherPipelines
    <2> QED BY <1>1, <1>5, <1>6, <2>1, GlobalsStay DEF Together, globals
<1>8. ForTarget'
    <2> SUFFICES ASSUME failures' = 0, NEW r \in Pipelines PROVE HasTarget(r)'
        BY DEF ForTarget
    <2>1. \A c \in Pipelines : HasTarget(c)
        BY <1>1 DEF BInv, ForTarget
    <2>2. CASE r = p
        <3>1. built[x] = jit_target[q] /\ jit_target[q] = jit_target[p]
            BY <1>1, <1>3, <2>1, ModuleFacts DEF HasTarget, x, q
        <3> QED BY <1>1, <1>4, <2>2, <3>1 DEF HasTarget, ExternsFor
    <2>3. CASE r # p
        BY <1>1, <1>4, <1>5, <2>1, <2>3, OtherPipelines
    <2> QED BY <2>2, <2>3
<1>9. Settings'
    <2>1. \A r \in Pipelines : pc'[r] = "running" =>
             pc[r] = "running" /\ deps'[jit_module'[r]] = deps[jit_module[r]]
        BY <1>1, <1>4, <1>5, OtherPipelines
    <2>2. SettingsAlone /\ UNCHANGED handlers
        BY <1>1 DEF SettingsAlone, globals
    <2>3. \A r \in Pipelines : pc'[r] = "running" => handlers'[r] = handlers[r]
        BY <2>2
    <2> QED BY <2>1, <2>2, <2>3, SettingsStay
<1>10. Handlers'
    <2>1. \A r \in Pipelines : pc'[r] = "running" =>
             pc[r] = "running" /\ deps'[jit_module'[r]] = deps[jit_module[r]]
        BY <1>1, <1>4, <1>5, OtherPipelines
    <2>2. SettingsAlone /\ UNCHANGED handlers
        BY <1>1 DEF SettingsAlone, globals
    <2>3. \A m \in Modules : kind'[m] = "MainShared" => kind[m] = "MainShared"
        BY <1>4
    <2>4. \A r \in Pipelines : jit_module'[r] # None => internal \in Modules
        BY <1>1 DEF BInv, Handlers
    <2> QED BY <2>1, <2>2, <2>3, <2>4, HandlersStay
<1> QED BY <1>6, <1>7, <1>8, <1>9, <1>10 DEF BInv

LEMMA ModuleBInv ==
    ASSUME MInv, BInv, MInv', NEW p \in Pipelines, compile_module(p)
    PROVE  BInv'
<1> DEFINE f == Fresh
           H == held[p]
<1>1. /\ pc[p] = "linking" /\ f <= MaxModules
      /\ kind' = [kind EXCEPT ![f] = "func"]
      /\ deps' = [deps EXCEPT ![f] = H]
      /\ built' = [built EXCEPT ![f] = jit_target[p]]
      /\ jit_module' = [jit_module EXCEPT ![p] = f]
      /\ held' = [held EXCEPT ![p] = {}]
      /\ pc' = [pc EXCEPT ![p] = "idle"]
      /\ UNCHANGED <<leaked, globals, jit_target, handlers, dev, failures, crashed>>
    BY DEF compile_module
<1>2. f \in Modules /\ life[f] = "unused"
    BY <1>1, FreshFacts, ModuleFacts
<1>3. \A m \in Modules : life[m] # "unused" => life'[m] # "unused"
    BY DEF compile_module, AfterDrop
<1>4. \A m \in H : m \in Modules /\ life[m] # "unused"
    BY UsedModules
<1>5. Coherent(H, kind, deps)
    BY <1>1 DEF BInv, Together
<1>6. failures = 0 => ExternsFor(H, jit_target[p])
    BY <1>1 DEF BInv, ForTarget, HasTarget
<1> HIDE DEF f, H
<1>7. /\ kind'[f] = "func" /\ deps'[f] = H /\ built'[f] = jit_target[p]
      /\ \A m \in Modules : m # f => /\ kind'[m] = kind[m] /\ deps'[m] = deps[m]
                                     /\ built'[m] = built[m]
      /\ held'[p] = {} /\ pc'[p] = "idle" /\ jit_module'[p] = f
      /\ \A r \in Pipelines : r # p => /\ held'[r] = held[r] /\ pc'[r] = pc[r]
                                       /\ jit_module'[r] = jit_module[r]
    BY <1>1, <1>2 DEF MInv, TypeOK
<1>8. Stable
    BY <1>2, <1>3, <1>7 DEF Stable
<1>9. /\ DepsUsed' /\ ExternsBuilt'
      /\ \A m \in Modules : kind'[m] = "func" => Coherent(deps'[m], kind', deps')
    <2>1. \A m \in Modules : life[m] = "unused" => \A d \in deps'[m] : life'[d] # "unused"
        BY <1>3, <1>4, <1>7 DEF MInv, Numbered
    <2>2. \A m \in Modules : life[m] = "unused" /\ kind'[m] = "func" => m = f
        BY <1>7 DEF MInv, Numbered
    <2>3. Coherent(H, kind', deps')
        BY <1>4, <1>5, <1>8, CoherentStays
    <2>4. ASSUME failures' = 0, NEW m \in Modules, m = f PROVE ExternsFor(deps[m], built[m])'
        <3>0. failures = 0
            BY <1>1, <2>4
        <3>1. \A y \in H : kind'[y] = "externs" => \A x \in deps'[y] : built'[x] = jit_target[p]
            BY <1>4, <1>6, <1>8, <3>0, ExternsStay
        <3>2. \A y \in deps'[m] : kind'[y] = "externs" =>
                 \A x \in deps'[y] : built'[x] = built'[m]
            BY <1>7, <2>4, <3>1
        <3> QED BY <3>2 DEF ExternsFor
    <2>5. \A m \in Modules : life[m] = "unused" /\ kind'[m] = "func" =>
             /\ Coherent(deps'[m], kind', deps')
             /\ failures' = 0 => ExternsFor(deps[m], built[m])'
        BY <1>7, <2>2, <2>3, <2>4
    <2>6. UNCHANGED failures /\ TypeOK'
        BY <1>1 DEF MInv
    <2> QED BY <1>8, <2>1, <2>5, <2>6, Made
<1>10. Together'
    <2>1. \A r \in Pipelines : pc'[r] = "linking" => Coherent(held'[r], kind', deps')
        BY <1>1, <1>7, <1>8, OtherPipelines
    <2> QED BY <1>1, <1>8, <1>9, <2>1, GlobalsStay DEF Together, globals
<1>11. ForTarget'
    <2> SUFFICES ASSUME failures' = 0, NEW r \in Pipelines PROVE HasTarget(r)'
        BY DEF ForTarget
    <2>1. \A c \in Pipelines : HasTarget(c)
        BY <1>1 DEF BInv, ForTarget
    <2>2. CASE r = p
        BY <1>1, <1>7, <2>2 DEF HasTarget
    <2>3. CASE r # p
        BY <1>1, <1>7, <1>8, <2>1, <2>3, OtherPipelines
    <2> QED BY <2>2, <2>3
<1>12. Settings'
    <2>1. \A r \in Pipelines : pc'[r] = "running" =>
             pc[r] = "running" /\ deps'[jit_module'[r]] = deps[jit_module[r]]
        BY <1>1, <1>7, <1>8, OtherPipelines
    <2>2. SettingsAlone /\ UNCHANGED handlers
        BY <1>1 DEF SettingsAlone, globals
    <2>3. \A r \in Pipelines : pc'[r] = "running" => handlers'[r] = handlers[r]
        BY <2>2
    <2> QED BY <2>1, <2>2, <2>3, SettingsStay
<1>13. Handlers'
    <2>1. \A r \in Pipelines : pc'[r] = "running" =>
             pc[r] = "running" /\ deps'[jit_module'[r]] = deps[jit_module[r]]
        BY <1>1, <1>7, <1>8, OtherPipelines
    <2>2. SettingsAlone /\ UNCHANGED handlers
        BY <1>1 DEF SettingsAlone, globals
    <2>3. \A m \in Modules : kind'[m] = "MainShared" => kind[m] = "MainShared"
        BY <1>7
    <2>4. internal \in Modules
        BY <1>4, <1>5 DEF BInv, Handlers, Coherent
    <2> QED BY <2>1, <2>2, <2>3, <2>4, HandlersStay
<1> QED BY <1>9, <1>10, <1>11, <1>12, <1>13 DEF BInv

\* MainShared is the first runtime that get() asks for.
LEMMA MainFirst == \A k \in Devices : Before("MainShared", k)
<1> SUFFICES ASSUME NEW k \in Devices PROVE Before("MainShared", k)
    OBVIOUS
<1>1. PICK j \in DOMAIN RuntimeKinds : RuntimeKinds[j] = k /\ k # "MainShared"
    BY DEF Devices, Kinds
<1>2. RuntimeKinds[1] = "MainShared"
    <2> DEFINE S == Devices \union {"MainShared"}
    <2>1. DeviceKinds \in Seq(Devices) /\ "MainShared" \in S
        BY JITAssumption
    <2>2. DeviceKinds \in Seq(S)
        BY <2>1
    <2> HIDE DEF S
    <2> QED BY <2>1, <2>2, Prepended DEF RuntimeKinds
<1>3. 1 \in DOMAIN RuntimeKinds /\ 1 < j
    BY <1>1, <1>2, KindFacts
<1> QED BY <1>1, <1>2, <1>3 DEF Before

LEMMA GetBInv ==
    ASSUME MInv, BInv, MInv', NEW p \in Pipelines,
           NEW t, NEW R, NEW N, NEW K, NEW next, GetStep(p, t, R, N, K, next)
    PROVE  BInv'
<1> DEFINE Res == ResultOf(t, R)
           main == R["MainShared"]
<1>1. /\ R \in [Kinds -> Modules \union {None}]
      /\ N \subseteq Modules /\ K \in [N -> Kinds]
      /\ pc[p] = "codegen" /\ next \in {"linking", "thrown"}
      /\ next = "thrown" => failures' # 0
      /\ next = "linking" => UNCHANGED failures
      /\ \A k \in Kinds : \/ R[k] \in N /\ K[R[k]] = k /\ shared_runtimes[k] = None
                          \/ R[k] = shared_runtimes[k] /\ R[k] \notin N
      /\ \A k \in Wanted(t) : R[k] \in Modules
      /\ \A n \in N : R[K[n]] = n /\ K[n] \in Wanted(t)
    BY DEF GetStep
<1>2. /\ shared_runtimes' = R
      /\ kind' = [m \in Modules |-> IF m \in N THEN K[m] ELSE kind[m]]
      /\ deps' = [m \in Modules |-> IF m \in N THEN DepsOf(t, R, K[m]) ELSE deps[m]]
      /\ life' = [m \in Modules |-> IF m \in N THEN "live" ELSE life[m]]
      /\ held' = [held EXCEPT ![p] = @ \union Res]
      /\ pc' = [pc EXCEPT ![p] = next]
      /\ UNCHANGED <<built, leaked, default_cache_size, custom, jit_module, jit_target,
                     handlers, dev, crashed>>
    BY DEF GetStep
<1>3. /\ Wanted(t) \subseteq Kinds /\ "MainShared" \in Wanted(t) /\ "MainShared" \in Kinds
      /\ Devices \subseteq Kinds /\ \A k \in Kinds : k # "MainShared" => k \in Devices
    BY KindFacts DEF Wanted, Devices
<1>4. ASSUME NEW n \in N PROVE n \in Modules /\ life[n] = "unused" /\ kind[n] = "unused"
    <2>1. PICK c \in Nat : N = Fresh .. (Fresh + c - 1)
        BY DEF GetStep
    <2>2. n \in Modules /\ n >= Fresh
        BY <1>1, <2>1, FreshFacts
    <2> QED BY <2>2, FreshFacts
<1>5. /\ \A m \in Modules \ N : /\ life'[m] = life[m] /\ kind'[m] = kind[m]
                                /\ deps'[m] = deps[m]
      /\ \A m \in N : /\ life'[m] = "live" /\ kind'[m] = K[m]
                      /\ deps'[m] = DepsOf(t, R, K[m])
      /\ held'[p] = held[p] \union Res
      /\ pc'[p] = next
      /\ \A r \in Pipelines : r # p => held'[r] = held[r] /\ pc'[r] = pc[r]
    BY <1>1, <1>2 DEF MInv, TypeOK
<1>6. \A m \in held[p] : m \in Modules /\ life[m] # "unused" /\ kind[m] = "externs"
    BY <1>1, UsedModules DEF MInv, Compiling
<1>7. Stable
    BY <1>2, <1>4, <1>5 DEF Stable
<1>8. ASSUME NEW k \in Kinds, R[k] # None
      PROVE  R[k] \in Modules /\ kind'[R[k]] = k /\ life'[R[k]] # "unused"
    <2>1. kind'[R[k]] = k
        BY <1>2, <1>8 DEF MInv, SharedKinds
    <2>2. CASE R[k] \in N
        BY <1>1, <1>5, <2>1, <2>2
    <2>3. CASE R[k] = shared_runtimes[k] /\ R[k] \notin N
        BY <1>5, <1>8, <2>1, <2>3, UsedModules
    <2> QED BY <1>1, <2>2, <2>3
<1>9. main \in Modules /\ main # None
    BY <1>1, <1>3, ModuleFacts
<1>10. ASSUME NEW k \in Devices, R[k] # None PROVE main \in deps'[R[k]]
    <2>1. CASE R[k] \in N
        <3>1. K[R[k]] = k /\ deps'[R[k]] = DepsOf(t, R, k)
            BY <1>1, <1>3, <1>5, <1>10, <2>1, ModuleFacts
        <3>2. "MainShared" \in {j \in Wanted(t) : Before(j, k)}
            BY <1>3, MainFirst
        <3> QED BY <3>1, <3>2 DEF DepsOf
    <2>2. CASE R[k] = shared_runtimes[k] /\ R[k] \notin N
        <3>1. shared_runtimes[k] \in Modules
            BY <1>3, <1>10, <2>2, UsedModules
        <3>2. shared_runtimes["MainShared"] \in deps[shared_runtimes[k]]
            BY <1>10, <2>2 DEF BInv, Together
        <3>3. shared_runtimes["MainShared"] # None
            BY <3>1, <3>2, Typed, ModuleFacts
        <3>4. main = shared_runtimes["MainShared"]
            BY <1>1, <1>3, <3>3
        <3> QED BY <1>5, <2>2, <3>1, <3>2, <3>4
    <2> QED BY <1>1, <1>3, <2>1, <2>2
<1>11. /\ DepsUsed' /\ ExternsBuilt'
       /\ \A m \in Modules : kind'[m] = "func" => Coherent(deps'[m], kind', deps')
    <2>1. ASSUME NEW m \in Modules, life[m] = "unused", NEW d \in deps'[m]
          PROVE  life'[d] # "unused"
        <3>1. CASE m \in N
            <4>1. PICK l \in Wanted(t) : d = R[l]
                BY <1>5, <2>1, <3>1 DEF DepsOf
            <4>2. l \in Kinds /\ R[l] # None
                BY <1>1, <1>3, ModuleFacts
            <4> QED BY <1>8, <4>1, <4>2
        <3>2. CASE m \notin N
            BY <1>5, <2>1, <3>2 DEF MInv, Numbered
        <3> QED BY <3>1, <3>2
    <2>2. ASSUME NEW m \in Modules, life[m] = "unused" PROVE kind'[m] # "func"
        <3>1. CASE m \in N
            BY <1>1, <1>5, <3>1, JITAssumption
        <3>2. CASE m \notin N
            BY <1>5, <2>2, <3>2 DEF MInv, Numbered
        <3> QED BY <3>1, <3>2
    <2>3. (failures' = 0 => failures = 0) /\ TypeOK'
        BY <1>1 DEF MInv
    <2> QED BY <1>7, <2>1, <2>2, <2>3, Made
<1>12. Together'
    <2>1. Coherent(held'[p], kind', deps')
        <3>1. main \in held'[p] /\ kind'[main] = "MainShared"
            BY <1>3, <1>5, <1>8, <1>9 DEF ResultOf
        <3>2. ASSUME NEW d \in held'[p] \ {main}, kind'[d] # "externs"
              PROVE  kind'[d] \in Devices /\ main \in deps'[d]
            <4>1. d \notin held[p]
                BY <1>6, <1>7, <3>2 DEF Stable
            <4>2. PICK k \in Wanted(t) : d = R[k]
                BY <1>5, <4>1 DEF ResultOf
            <4>3. R[k] # None /\ k \in Devices /\ k \in Kinds
                BY <1>1, <1>3, <3>2, <4>2, ModuleFacts
            <4> QED BY <1>8, <1>10, <4>2, <4>3
        <3> QED BY <3>1, <3>2 DEF Coherent
    <2>2. \A r \in Pipelines : r # p /\ pc'[r] = "linking" => Coherent(held'[r], kind', deps')
        BY <1>2, <1>5, <1>7, OtherPipelines
    <2>3. \A k \in Devices : shared_runtimes'[k] # None =>
             shared_runtimes'["MainShared"] \in deps'[shared_runtimes'[k]]
        BY <1>2, <1>10
    <2> QED BY <1>11, <2>1, <2>2, <2>3 DEF Together
<1>13. ForTarget'
    <2> SUFFICES ASSUME failures' = 0, NEW r \in Pipelines PROVE HasTarget(r)'
        BY DEF ForTarget
    <2>0. next = "linking"
        BY <1>1
    <2>1. \A c \in Pipelines : HasTarget(c)
        BY <1>1, <2>0 DEF BInv, ForTarget
    <2>2. CASE r = p
        <3>1. \A e \in held[p] : kind'[e] = "externs" => \A x \in deps'[e] : built'[x] = jit_target[p]
            <4>1. ExternsFor(held[p], jit_target[p])
                BY <1>1, <2>1 DEF HasTarget
            <4> QED BY <1>6, <1>7, <4>1, ExternsStay
        <3>2. ASSUME NEW e \in Res PROVE kind'[e] # "externs"
            <4>1. PICK k \in Wanted(t) : e = R[k]
                BY DEF ResultOf
            <4>2. kind'[e] = k /\ k \in Kinds
                BY <1>1, <1>3, <1>8, <4>1, ModuleFacts
            <4> QED BY <4>2, JITAssumption
        <3>3. \A e \in held'[p] : kind'[e] = "externs" =>
                 \A x \in deps'[e] : built'[x] = jit_target'[p]
            <4>1. held'[p] = held[p] \union Res /\ jit_target'[p] = jit_target[p]
                BY <1>2, <1>5
            <4>2. ASSUME NEW e \in held'[p], kind'[e] = "externs"
                  PROVE  \A x \in deps'[e] : built'[x] = jit_target'[p]
                <5>1. e \in held[p]
                    BY <3>2, <4>1, <4>2
                <5> QED BY <3>1, <4>1, <4>2, <5>1
            <4> QED BY <4>2
        <3> QED BY <1>5, <2>0, <2>2, <3>3 DEF HasTarget, ExternsFor
    <2>3. CASE r # p
        BY <1>2, <1>5, <1>7, <2>1, <2>3, OtherPipelines
    <2> QED BY <2>2, <2>3
<1>14. ASSUME NEW r \in Pipelines, pc'[r] = "running"
       PROVE  /\ pc[r] = "running" /\ deps'[jit_module'[r]] = deps[jit_module[r]]
              /\ handlers'[r] = handlers[r] /\ jit_module[r] \in Modules
    <2>1. r # p /\ pc[r] = "running"
        BY <1>1, <1>5, <1>14
    <2>2. /\ pc'[r] = pc[r] /\ held'[r] = held[r] /\ handlers'[r] = handlers[r]
          /\ jit_module'[r] = jit_module[r] /\ UNCHANGED jit_target
        BY <1>2, <1>5, <2>1
    <2>3. jit_module[r] \in Modules
        BY <2>1, UsedModules DEF MInv, Compiling
    <2>4. deps'[jit_module'[r]] = deps[jit_module[r]]
        BY <1>7, <1>14, <2>2, OtherPipelines
    <2> QED BY <2>1, <2>2, <2>3, <2>4
<1>15. Settings'
    <2>1. CASE main \in N
        <3>1. /\ internal' = main /\ active' = (IF custom THEN Custom ELSE main)
              /\ cache' = default_cache_size
            BY <2>1 DEF GetStep, merge_handlers
        <3>2. cache' = default_cache_size
            BY <3>1
        <3>3. ASSUME NEW r \in Pipelines, pc'[r] = "running" PROVE main \notin deps'[jit_module'[r]]
            <4>1. jit_module[r] \in Modules /\ deps'[jit_module'[r]] = deps[jit_module[r]]
                BY <1>14, <3>3
            <4>2. \A d \in deps[jit_module[r]] : life[d] # "unused"
                BY <4>1 DEF BInv, DepsUsed
            <4> QED BY <1>4, <2>1, <4>1, <4>2
        <3>4. UNCHANGED <<custom, default_cache_size>> /\ shared_runtimes'["MainShared"] = main
            BY <1>2
        <3> QED BY <3>1, <3>2, <3>3, <3>4 DEF Settings, HandlersCurrent, CacheSizeFollows
    <2>2. CASE main \notin N
        <3>1. UNCHANGED <<internal, active, cache>>
            BY <2>2 DEF GetStep
        <3>2. main = shared_runtimes["MainShared"]
            BY <1>1, <1>3, <2>2
        <3> QED BY <1>2, <1>14, <3>1, <3>2
                DEF BInv, Settings, HandlersCurrent, CacheSizeFollows
    <2> QED BY <2>1, <2>2
<1>16. Handlers'
    <2>1. ASSUME NEW m \in Modules, kind'[m] = "MainShared"
          PROVE  IF m \in N THEN m = main ELSE kind[m] = "MainShared" /\ m < Fresh
        <3>1. CASE m \in N
            BY <1>1, <1>5, <2>1, <3>1
        <3>2. CASE m \notin N
            <4>1. kind[m] = "MainShared" /\ life[m] # "unused"
                BY <1>5, <2>1, <3>2, <1>3, JITAssumption DEF MInv, Numbered
            <4> QED BY <3>2, <4>1, FreshFacts, ModuleFacts
        <3> QED BY <3>1, <3>2
    <2>2. ASSUME NEW r \in Pipelines, pc'[r] = "running", handlers'[r] # Custom
          PROVE  /\ handlers'[r] \in Modules
                 /\ \A m \in deps'[jit_module'[r]] : kind'[m] = "MainShared" => m <= handlers'[r]
        <3>1. /\ pc[r] = "running" /\ deps'[jit_module'[r]] = deps[jit_module[r]]
              /\ handlers'[r] = handlers[r] /\ jit_module[r] \in Modules
            BY <1>14, <2>2
        <3>2. \A m \in deps[jit_module[r]] : m \in Modules /\ life[m] # "unused"
            BY <3>1, Typed DEF BInv, DepsUsed
        <3>3. \A m \in deps[jit_module[r]] : kind'[m] = kind[m]
            BY <1>4, <1>5, <3>2
        <3> QED BY <2>2, <3>1, <3>3 DEF BInv, Handlers
    <2>3. CASE main \in N
        <3>1. internal' = main /\ active' = (IF custom THEN Custom ELSE main)
            BY <2>3 DEF GetStep, merge_handlers
        <3>2. main >= Fresh /\ main \in Nat /\ Fresh \in Nat
            BY <1>4, <1>9, <2>3, FreshFacts, ModuleFacts
        <3>3. ASSUME NEW m \in Modules, kind'[m] = "MainShared" PROVE m <= main
            <4>1. m = main \/ m < Fresh
                BY <2>1, <3>3
            <4>2. m \in Nat
                BY ModuleFacts
            <4> QED BY <3>2, <4>1, <4>2
        <3> QED BY <1>2, <1>9, <2>2, <3>1, <3>3 DEF Handlers
    <2>4. CASE main \notin N
        <3>1. UNCHANGED <<internal, active>>
            BY <2>4 DEF GetStep
        <3>2. \A m \in Modules : kind'[m] = "MainShared" => kind[m] = "MainShared"
            BY <2>1, <2>4
        <3>3. \A m \in Modules : kind'[m] = "MainShared" => internal' \in Modules /\ m <= internal'
            BY <3>1, <3>2 DEF BInv, Handlers
        <3>4. \A r \in Pipelines : jit_module'[r] # None => internal' \in Modules
            BY <1>2, <3>1 DEF BInv, Handlers
        <3>5. (custom' => active' = Custom) /\ (~custom' => active' = internal')
            BY <1>2, <3>1 DEF BInv, Handlers
        <3> QED BY <2>2, <3>3, <3>4, <3>5 DEF Handlers
    <2> QED BY <2>3, <2>4
<1> QED BY <1>11, <1>12, <1>13, <1>15, <1>16 DEF BInv

-----------------------------------------------------------------------------
(* Builds are consistent and settings are in force.                          *)

LEMMA InitBInv ==
    ASSUME Init
    PROVE  BInv
<1>1. Devices \subseteq Kinds /\ "MainShared" \in Kinds
    BY KindFacts DEF Devices
<1>2. DepsUsed /\ Together
    BY <1>1 DEF Init, DepsUsed, Together
<1>3. ForTarget /\ ExternsBuilt
    BY DEF Init, ForTarget, HasTarget, ExternsBuilt
<1>4. Settings
    BY <1>1 DEF Init, Settings, HandlersCurrent, CacheSizeFollows
<1>5. Handlers
    <2>1. ~custom /\ active = internal /\ \A p \in Pipelines : jit_module[p] = None
          /\ \A q \in Pipelines : pc[q] = "idle"
        BY DEF Init
    <2>2. \A m \in Modules : kind[m] # "MainShared"
        BY <1>1, JITAssumption DEF Init
    <2> QED BY <2>1, <2>2 DEF Handlers
<1> QED BY <1>2, <1>3, <1>4, <1>5 DEF BInv

LEMMA StepBInv ==
    ASSUME MInv, BInv, [Next]_vars
    PROVE  BInv'
<1>1. MInv'
    BY StepMInv
<1>2. CASE \E p \in Pipelines : make_externs_jit_module(p)
    BY <1>1, <1>2, ExternsBInv
<1>3. CASE \E p \in Pipelines : get(p) \/ GetFails(p)
    BY <1>1, <1>3, GetEffect, GetBInv
<1>4. CASE \E p \in Pipelines : compile_module(p)
    BY <1>1, <1>4, ModuleBInv
<1>5. CASE OldStep
    BY <1>5, OldTogether, OldForTarget, OldSettings, OldHandlers DEF BInv
<1> QED BY <1>2, <1>3, <1>4, <1>5 DEF OldStep

LEMMA BuildInvariant == Spec => [](MInv /\ BInv)
<1>1. Init => MInv /\ BInv
    BY InitMInv, InitBInv
<1>2. (MInv /\ BInv) /\ [Next]_vars => (MInv /\ BInv)'
    BY StepMInv, StepBInv
<1> QED BY <1>1, <1>2, PTL DEF Spec

(* No module is in its destructor while a global, a pipeline, a compilation, *)
(* a device allocation, a module that is not yet destroyed or a leaked       *)
(* engine refers to it; and the uncounted handlers, those that the next run  *)
(* would get and those of every run, lead to live code, except for a run     *)
(* whose handlers are of a newer runtime than its own, released since        *)
(* (JITModule.cpp:705, 792).                                                 *)
THEOREM CodeAlwaysOutlivesUsers == Spec => []CodeOutlivesUsers
<1>1. ASSUME MInv PROVE \A m \in InUse \ {None} : life[m] = "live"
    <2>1. ASSUME NEW m,
                 \/ \E k \in Kinds : m = shared_runtimes[k]
                 \/ \E p \in Pipelines : m = jit_module[p] \/ m \in held[p]
                 \/ \E b \in Buffers : m = dev[b]
                 \/ \E n \in Modules : Alive(n) /\ m \in deps[n]
                 \/ m \in Modules /\ leaked[m] > 0,
                 m # None
          PROVE  life[m] = "live"
        <3>1. m \in Modules
            BY <1>1, <2>1, Typed
        <3>2. Referenced(m)
            <4>1. CASE \E k \in Kinds : m = shared_runtimes[k]
                BY <4>1 DEF Referenced, ByGlobal
            <4>2. CASE \E p \in Pipelines : m = jit_module[p] \/ m \in held[p]
                BY <4>2 DEF Referenced, ByPipeline, ByHeld
            <4>3. CASE \E b \in Buffers : m = dev[b]
                BY <4>3 DEF Referenced, ByBuffer
            <4>4. CASE \E n \in Modules : Alive(n) /\ m \in deps[n]
                BY <4>4 DEF Referenced, ByModule
            <4>5. CASE leaked[m] > 0
                BY <4>5 DEF Referenced
            <4> QED BY <2>1, <4>1, <4>2, <4>3, <4>4, <4>5
        <3> QED BY <1>1, <3>1, <3>2 DEF MInv, UsersLive
    <2> DEFINE live == {n \in Modules : Alive(n)}
               A == {shared_runtimes[k] : k \in Kinds}
               B == {jit_module[p] : p \in Pipelines}
               C == UNION {held[p] : p \in Pipelines}
               D == {dev[b] : b \in Buffers}
               E == UNION {deps[m] : m \in live}
               F == {m \in Modules : leaked[m] > 0}
    <2>2. \A m \in C : \E p \in Pipelines : m \in held[p]
        OBVIOUS
    <2>3. \A m \in E : \E n \in Modules : Alive(n) /\ m \in deps[n]
        OBVIOUS
    <2>4. \A m \in (A \union B \union C \union D \union E \union F) \ {None} : life[m] = "live"
        BY <2>1, <2>2, <2>3
    <2> HIDE DEF live, A, B, C, D, E, F
    <2> QED BY <2>4, Zenon DEF InUse, live, A, B, C, D, E, F
<1>2. ASSUME MInv, BInv PROVE HandlersOutlive
    <2> DEFINE main == shared_runtimes["MainShared"]
    <2>1. main # None => main \in Modules /\ life[main] = "live"
        <3>1. main # None => main \in Modules /\ Referenced(main)
            BY <1>2, KindFacts, Typed DEF Referenced, ByGlobal
        <3> QED BY <1>2, <3>1 DEF MInv, UsersLive
    <2>2. main # None => \A h \in {internal, active} \ {Custom} : life[h] = "live"
        <3>1. main # None => internal = main /\ active \in {Custom, main}
            BY <1>2 DEF BInv, Settings, Handlers
        <3> QED BY <2>1, <3>1
    <2>3. ASSUME NEW p \in Pipelines, pc[p] = "running", handlers[p] # Custom
          PROVE  \/ life[handlers[p]] = "live"
                 \/ /\ handlers[p] # main
                    /\ \A m \in OwnRuntimes(p) : kind[m] = "MainShared" => m < handlers[p]
        <3>1. /\ handlers[p] \in Modules /\ jit_module[p] \in Modules
              /\ \A m \in deps[jit_module[p]] : kind[m] = "MainShared" => m <= handlers[p]
            BY <1>2, <2>3, Typed DEF BInv, Handlers, MInv, Compiling
        <3>2. CASE handlers[p] = main
            BY <2>1, <3>1, <3>2, ModuleFacts
        <3>3. CASE handlers[p] \in deps[jit_module[p]]
            <4>1. Referenced(jit_module[p])
                BY <3>1 DEF Referenced, ByPipeline
            <4>2. Alive(jit_module[p])
                BY <1>2, <3>1, <4>1 DEF MInv, UsersLive, Alive
            <4>3. Referenced(handlers[p])
                BY <3>1, <3>3, <4>2 DEF Referenced, ByModule
            <4> QED BY <1>2, <3>1, <4>3 DEF MInv, UsersLive
        <3>4. CASE handlers[p] # main /\ handlers[p] \notin deps[jit_module[p]]
            <4>1. ASSUME NEW m \in OwnRuntimes(p), kind[m] = "MainShared" PROVE m < handlers[p]
                <5>1. m \in deps[jit_module[p]] /\ m \in Modules
                    BY <1>2, <3>1, Typed DEF OwnRuntimes
                <5>2. m <= handlers[p] /\ m # handlers[p] /\ m \in Nat /\ handlers[p] \in Nat
                    BY <3>1, <3>4, <4>1, <5>1, ModuleFacts
                <5> QED BY <5>2
            <4> QED BY <3>4, <4>1
        <3> QED BY <3>2, <3>3, <3>4
    <2> QED BY <2>2, <2>3 DEF HandlersOutlive
<1>3. MInv /\ BInv => CodeOutlivesUsers
    BY <1>1, <1>2 DEF CodeOutlivesUsers
<1> QED BY <1>3, BuildInvariant, PTL

(* What realize calls is one consistent build: the runtimes of a pipeline's  *)
(* module were made together, and as long as no compilation failed it and    *)
(* its extern were compiled for the target that was asked for, whatever was  *)
(* compiled, invalidated and released in between.                            *)
THEOREM BuildsAlwaysConsistent == Spec => []BuildIsConsistent
<1>1. ASSUME MInv, BInv PROVE BuildIsConsistent
    <2>1. RuntimesBelongTogether
        BY <1>1 DEF BInv, Together, Coherent, RuntimesBelongTogether
    <2>2. RightTarget
        <3> SUFFICES ASSUME failures = 0 PROVE
               /\ \A p \in Pipelines :
                     pc[p] \in {"idle", "running"} /\ jit_module[p] # None
                       => built[jit_module[p]] = jit_target[p]
               /\ \A f, e, x \in Modules :
                     Alive(f) /\ kind[f] = "func" /\ e \in deps[f] /\ kind[e] = "externs"
                       /\ x \in deps[e] => built[x] = built[f]
            BY DEF RightTarget
        <3>1. (\A p \in Pipelines : HasTarget(p))
              /\ \A f \in Modules : kind[f] = "func" => ExternsFor(deps[f], built[f])
            BY <1>1 DEF BInv, ForTarget, ExternsBuilt
        <3> QED BY <3>1 DEF HasTarget, ExternsFor
    <2> QED BY <2>1, <2>2 DEF BuildIsConsistent
<1> QED BY <1>1, BuildInvariant, PTL

(* The handlers and the cache size that were set last are in force in the    *)
(* current runtime, in whatever order they were set, and runtimes made and   *)
(* released (JITSharedRuntime).                                              *)
THEOREM SettingsAlwaysInForce == Spec => []SettingsInForce
<1>1. BInv => SettingsInForce
    BY DEF BInv, Settings, SettingsInForce
<1> QED BY <1>1, BuildInvariant, PTL

=============================================================================
