----------------------------- MODULE MemoCache ------------------------------
(***************************************************************************)
(* The memoization cache of the runtime, src/runtime/cache.cpp, and the    *)
(* protocol the code generated by Memoization.cpp follows: look a result   *)
(* up, on a miss compute and store it, use it, and release each of its     *)
(* buffers.  Every operation but release runs under memoization_lock and   *)
(* is one action.                                                          *)
(*                                                                         *)
(* A key stands for everything lookup compares: the key bytes, the         *)
(* computed bounds, the number of buffers and their bounds.  The chains of *)
(* the hash table, singly linked in the code, are sets: an entry is linked *)
(* once, and at most one entry of a chain matches a key (UniqueKeys).  The *)
(* two links of the LRU list are kept as the code has them; an entry that  *)
(* is freed keeps its fields, as memory does, until it is allocated again, *)
(* but for bufs, the blocks it owns: only an entry of the hash table gets  *)
(* as far as having them read.  A halide_assert that fails aborts the      *)
(* program, so the step is not taken; CacheValid says that none fails.     *)
(* 0 is the NULL pointer.                                                  *)
(***************************************************************************)
EXTENDS Integers, FiniteSets, SequencesExt

CONSTANTS
    Clients,            \* activations of memoized realizations
    Keys,
    Hash,               \* djb_hash of the bytes of each key
    Tuple,              \* tuple_count of each key
    Bytes,              \* buf_size of the buffers of each key, added up
    CacheSizes,         \* arguments of halide_memoization_cache_set_size
    kDefaultCacheSize,
    kHashTableSize,
    MaxEntries,         \* bound: CacheEntry structs that malloc can provide
    MaxBlocks           \* bound: host blocks that malloc can provide

Entries == 1..MaxEntries
Blocks == 1..MaxBlocks
Buckets == 0..(kHashTableSize - 1)

ASSUME CacheAssumption ==
    /\ IsFiniteSet(Clients)
    /\ Hash \in [Keys -> Nat]
    /\ Tuple \in [Keys -> Nat \ {0}]
    /\ Bytes \in [Keys -> Nat]
    /\ CacheSizes \subseteq Nat
    /\ kDefaultCacheSize \in Nat
    /\ kHashTableSize \in Nat \ {0}
    /\ MaxEntries \in Nat
    /\ MaxBlocks \in Nat

VARIABLES
    table,              \* cache_entries: the entries in the chain of each bucket
    entry,              \* the CacheEntry structs
    most_recently_used,
    least_recently_used,
    max_cache_size,
    current_cache_size,
    block,              \* host blocks: their CacheBlockHeader and contents
    pc,                 \* where each client is
    key,                \* the key each client works on
    held,               \* the blocks each client has to release
    down,               \* the cache has been torn down, at the end of the program
    uses                \* history: the entries, least recently used first

cacheVars == <<table, entry, most_recently_used, least_recently_used,
               current_cache_size, block>>
clientVars == <<pc, key, held>>
vars == <<cacheVars, max_cache_size, clientVars, down, uses>>

NoEntry == [live |-> FALSE, key |-> 0, in_use_count |-> 0, more_recent |-> 0,
            less_recent |-> 0, bufs |-> {}]
NoBlock == [live |-> FALSE, entry |-> 0, holds |-> 0]

Init ==
    /\ table = [i \in Buckets |-> {}]
    /\ entry = [e \in Entries |-> NoEntry]
    /\ most_recently_used = 0
    /\ least_recently_used = 0
    /\ max_cache_size = kDefaultCacheSize
    /\ current_cache_size = 0
    /\ block = [b \in Blocks |-> NoBlock]
    /\ pc = [c \in Clients |-> "idle"]
    /\ key = [c \in Clients |-> 0]
    /\ held = [c \in Clients |-> {}]
    /\ down = FALSE
    /\ uses = <<>>

-----------------------------------------------------------------------------
(***************************************************************************)
(* Operators named Bad... are not part of the model: each is the operator  *)
(* after it with a plausible mistake, used to test that the properties     *)
(* notice the mistake.                                                     *)
(***************************************************************************)
Index(k) == Hash[k] % kHashTableSize

BadMatches(e, k) == Hash[entry[e].key] = Hash[k]
Matches(e, k) == Hash[entry[e].key] = Hash[k] /\ entry[e].key = k

\* The entries of the chain of k that match it.
Found(k) == {e \in table[Index(k)] : Matches(e, k)}

FreeBlocks == {b \in Blocks : ~block[b].live}
FreeEntries(ents) == {e \in Entries : ~ents[e].live}

\* What n calls of malloc return.
FirstBlocks(n) == CHOOSE s \in Injection(1..n, FreeBlocks) : TRUE

-----------------------------------------------------------------------------
(***************************************************************************)
(* halide_memoization_cache_lookup.                                        *)
(***************************************************************************)
\* An entry that is hit moves to the recent end of the LRU list.
Touched(e) ==
    LET m == entry[e].more_recent
        l == entry[e].less_recent
    IN  [x \in Entries |->
            [entry[x] EXCEPT
                !.more_recent = IF x = e THEN 0
                                ELSE IF x = most_recently_used THEN e
                                ELSE IF x = l THEN m ELSE @,
                !.less_recent = IF x = e THEN most_recently_used
                                ELSE IF x = m THEN l ELSE @]]

BadMovesUp(e) == FALSE
MovesUp(e) == e # most_recently_used

\* The assertions on the way there.
HitAsserts(e) ==
    MovesUp(e) => /\ entry[e].more_recent # 0
                  /\ entry[e].less_recent = 0 => least_recently_used = e

UsesAdded(k) == Tuple[k]

LookupHit(c, k) ==
    /\ pc[c] = "idle"
    /\ ~down
    /\ Found(k) # {}
    /\ LET e == CHOOSE x \in Found(k) : TRUE
           moved == IF MovesUp(e) THEN Touched(e) ELSE entry
       IN  /\ HitAsserts(e)
           /\ entry' = [moved EXCEPT ![e].in_use_count = @ + UsesAdded(k)]
           /\ least_recently_used' =
                  IF MovesUp(e) /\ entry[e].less_recent = 0
                  THEN entry[e].more_recent ELSE least_recently_used
           /\ most_recently_used' = IF MovesUp(e) THEN e ELSE most_recently_used
           /\ held' = [held EXCEPT ![c] = entry[e].bufs]
           /\ uses' = Append(Remove(uses, e), e)
    /\ key' = [key EXCEPT ![c] = k]
    /\ pc' = [pc EXCEPT ![c] = "using"]
    /\ UNCHANGED <<table, current_cache_size, block, max_cache_size, down>>

\* A miss allocates the host blocks, each with a header in front of it.
LookupMiss(c, k) ==
    /\ pc[c] = "idle"
    /\ ~down
    /\ Found(k) = {}
    /\ Cardinality(FreeBlocks) >= Tuple[k]
    /\ LET got == Range(FirstBlocks(Tuple[k]))
       IN  /\ block' = [b \in Blocks |-> IF b \in got
                                         THEN [live |-> TRUE, entry |-> 0, holds |-> 0]
                                         ELSE block[b]]
           /\ held' = [held EXCEPT ![c] = got]
    /\ key' = [key EXCEPT ![c] = k]
    /\ pc' = [pc EXCEPT ![c] = "miss"]
    /\ UNCHANGED <<table, entry, most_recently_used, least_recently_used,
                   current_cache_size, max_cache_size, down, uses>>

\* After n blocks malloc fails: the loop for j from n down to 1 frees block j-1.
BadFreedOnFailure(got, n) == {got[j] : j \in 2..n}
FreedOnFailure(got, n) == {got[j] : j \in 1..n}

LookupFails(c, k) ==
    /\ pc[c] = "idle"
    /\ ~down
    /\ Found(k) = {}
    /\ \E n \in 0..(Tuple[k] - 1) :
          /\ Cardinality(FreeBlocks) >= n
          /\ LET got == FirstBlocks(n)
                 leaked == Range(got) \ FreedOnFailure(got, n)
             IN  block' = [b \in Blocks |-> IF b \in leaked
                                            THEN [live |-> TRUE, entry |-> 0, holds |-> 0]
                                            ELSE block[b]]
    /\ pc' = [pc EXCEPT ![c] = "error"]
    /\ UNCHANGED <<table, entry, most_recently_used, least_recently_used,
                   current_cache_size, max_cache_size, key, held, down, uses>>

\* The generated assertion on the result ends the pipeline.
Fail(c) ==
    /\ pc[c] = "error"
    /\ pc' = [pc EXCEPT ![c] = "idle"]
    /\ UNCHANGED <<cacheVars, max_cache_size, key, held, down, uses>>

\* The produce step runs, and either fills the blocks or fails: then they are
\* released without a store.
Compute(c) ==
    /\ pc[c] = "miss"
    /\ block' = [b \in Blocks |-> IF b \in held[c] THEN [block[b] EXCEPT !.holds = key[c]]
                                  ELSE block[b]]
    /\ pc' = [pc EXCEPT ![c] = "computed"]
    /\ UNCHANGED <<table, entry, most_recently_used, least_recently_used,
                   current_cache_size, max_cache_size, key, held, down, uses>>

Abandon(c) ==
    /\ pc[c] = "miss"
    /\ pc' = [pc EXCEPT ![c] = "abandoned"]
    /\ UNCHANGED <<cacheVars, max_cache_size, key, held, down, uses>>

-----------------------------------------------------------------------------
(***************************************************************************)
(* prune_cache, on a record of the variables it changes.  The loop goes    *)
(* from the least recently used entry along more_recent until the cache is *)
(* small enough.                                                           *)
(***************************************************************************)
Current(size) ==
    [table |-> table, entry |-> entry, most |-> most_recently_used,
     least |-> least_recently_used, size |-> size, block |-> block]

\* The links of the entries once e is taken out.  The code's last assignment
\* is to the less_recent field of e itself, which is about to be freed.
Unlinked(ents, e) ==
    LET m == ents[e].more_recent
        l == ents[e].less_recent
    IN  [x \in Entries |->
            IF x = e THEN [ents[e] EXCEPT !.less_recent = IF l # 0 THEN m ELSE l]
            ELSE IF x = m THEN [ents[x] EXCEPT !.less_recent = l]
            ELSE ents[x]]

BadLeastAfterPrune(s, e) == s.least
LeastAfterPrune(s, e) == IF s.least = e THEN s.entry[e].more_recent ELSE s.least

BadPrunable(ent) == TRUE
Prunable(ent) == ent.in_use_count = 0

SizeAfterPrune(s, e) == s.size - Bytes[s.entry[e].key]

Pruned(s, e) ==
    LET ent == s.entry[e]
        i == Index(ent.key)
    IN  [table |-> [s.table EXCEPT ![i] = @ \ {e}],
         entry |-> [Unlinked(s.entry, e) EXCEPT ![e].live = FALSE, ![e].bufs = {}],
         most |-> IF s.most = e THEN ent.less_recent ELSE s.most,
         least |-> LeastAfterPrune(s, e),
         size |-> SizeAfterPrune(s, e),
         block |-> [b \in Blocks |-> IF b \in ent.bufs THEN NoBlock ELSE s.block[b]]]

BadTooBig(size, max) == size > max + 1
TooBig(size, max) == size > max

\* The entry is not in the hash table: halide_assert(prev_hash_entry != NULL).
Aborted == -1
InTable(s, e) == e \in s.table[Index(s.entry[e].key)]

\* One round of the loop: x has the cache s and the prune_candidate.
PruneRound(x, max) ==
    LET s == x.s
        e == x.candidate
    IN  IF ~TooBig(s.size, max) \/ e \in {0, Aborted} THEN x
        ELSE IF ~Prunable(s.entry[e]) THEN [s |-> s, candidate |-> s.entry[e].more_recent]
        ELSE IF InTable(s, e)
             THEN [s |-> Pruned(s, e), candidate |-> s.entry[e].more_recent]
        ELSE [s |-> s, candidate |-> Aborted]

PruneRounds(s0, max) ==
    LET loop[n \in 0..MaxEntries] ==
            IF n = 0 THEN [s |-> s0, candidate |-> s0.least]
            ELSE PruneRound(loop[n - 1], max)
    IN  loop[MaxEntries]

PruneCache(s0, max) == PruneRounds(s0, max).s
PruneAsserts(s0, max) == PruneRounds(s0, max).candidate # Aborted

Becomes(s) ==
    /\ table' = s.table
    /\ entry' = s.entry
    /\ most_recently_used' = s.most
    /\ least_recently_used' = s.least
    /\ current_cache_size' = s.size
    /\ block' = s.block

StillLive(ents) == SelectSeq(uses, LAMBDA e : ents[e].live)

SetSize(size) ==
    LET max == IF size = 0 THEN kDefaultCacheSize ELSE size
        s == PruneCache(Current(current_cache_size), max)
    IN  /\ ~down
        /\ PruneAsserts(Current(current_cache_size), max)
        /\ max_cache_size' = max
        /\ Becomes(s)
        /\ uses' = StillLive(s.entry)
        /\ UNCHANGED <<clientVars, down>>

-----------------------------------------------------------------------------
(***************************************************************************)
(* halide_memoization_cache_store.                                         *)
(***************************************************************************)
\* The caller keeps blocks that no entry knows of.
Disowned(blocks, mine) ==
    [b \in Blocks |-> IF b \in mine THEN [blocks[b] EXCEPT !.entry = 0] ELSE blocks[b]]

BadStored(k) == FALSE
Stored(k) == Found(k) # {}

\* Another client stored the result first.
StoreFound(c) ==
    /\ pc[c] = "computed"
    /\ Stored(key[c])
    /\ block' = Disowned(block, held[c])
    /\ pc' = [pc EXCEPT ![c] = "using"]
    /\ UNCHANGED <<table, entry, most_recently_used, least_recently_used,
                   current_cache_size, max_cache_size, key, held, down, uses>>

\* The cache after room has been made for the result of c.
Grown(c) == Current(current_cache_size + Bytes[key[c]])
WithRoom(c) == PruneCache(Grown(c), max_cache_size)
RoomAsserts(c) == PruneAsserts(Grown(c), max_cache_size)

\* No memory for the entry or for its key: the pruning stays done.
StoreFails(c) ==
    LET s == WithRoom(c)
    IN  /\ pc[c] = "computed"
        /\ ~Stored(key[c])
        /\ RoomAsserts(c)
        /\ Becomes([s EXCEPT !.size = @ - Bytes[key[c]],
                             !.block = Disowned(@, held[c])])
        /\ uses' = StillLive(s.entry)
        /\ pc' = [pc EXCEPT ![c] = "using"]
        /\ UNCHANGED <<max_cache_size, key, held, down>>

\* The entry goes into its chain and the recent end of the LRU list.
Inserted(s, e, k, mine) ==
    [s EXCEPT
        !.table[Index(k)] = @ \cup {e},
        !.entry = [x \in Entries |->
                      IF x = e
                      THEN [live |-> TRUE, key |-> k, in_use_count |-> Tuple[k],
                            more_recent |-> 0, less_recent |-> s.most, bufs |-> mine]
                      ELSE IF x = s.most THEN [@[x] EXCEPT !.more_recent = e]
                      ELSE @[x]],
        !.most = e,
        !.least = IF @ = 0 THEN e ELSE @,
        !.block = [b \in Blocks |-> IF b \in mine THEN [@[b] EXCEPT !.entry = e]
                                    ELSE @[b]]]

StoreNew(c) ==
    LET s == WithRoom(c)
        e == CHOOSE x \in FreeEntries(s.entry) : TRUE
    IN  /\ pc[c] = "computed"
        /\ ~Stored(key[c])
        /\ RoomAsserts(c)
        /\ FreeEntries(s.entry) # {}
        /\ Becomes(Inserted(s, e, key[c], held[c]))
        /\ uses' = Append(StillLive(s.entry), e)
        /\ pc' = [pc EXCEPT ![c] = "using"]
        /\ UNCHANGED <<max_cache_size, key, held, down>>

-----------------------------------------------------------------------------
\* halide_memoization_cache_release, called for one buffer at a time.
Release(c, b) ==
    LET e == block[b].entry
    IN  /\ pc[c] \in {"using", "abandoned"}
        /\ b \in held[c]
        /\ IF e = 0
           THEN /\ block' = [block EXCEPT ![b] = NoBlock]
                /\ UNCHANGED entry
           ELSE /\ entry' = [entry EXCEPT ![e].in_use_count = @ - 1]
                /\ UNCHANGED block
        /\ held' = [held EXCEPT ![c] = @ \ {b}]
        /\ pc' = [pc EXCEPT ![c] = IF held[c] = {b} THEN "idle" ELSE @]
        /\ UNCHANGED <<table, most_recently_used, least_recently_used,
                       current_cache_size, max_cache_size, key, down, uses>>

\* halide_memoization_cache_cleanup, called while nobody uses the cache.
Cleanup ==
    LET gone == UNION {table[i] : i \in Buckets}
        freed == UNION {entry[e].bufs : e \in gone}
    IN  /\ ~down
        /\ \A c \in Clients : pc[c] = "idle"
        /\ table' = [i \in Buckets |-> {}]
        /\ entry' = [e \in Entries |->
                        IF e \in gone THEN [entry[e] EXCEPT !.live = FALSE, !.bufs = {}]
                        ELSE entry[e]]
        /\ block' = [b \in Blocks |-> IF b \in freed THEN NoBlock ELSE block[b]]
        /\ current_cache_size' = 0
        /\ down' = TRUE
        /\ uses' = <<>>
        /\ UNCHANGED <<most_recently_used, least_recently_used, max_cache_size, clientVars>>

Next ==
    \/ \E c \in Clients, k \in Keys :
          LookupHit(c, k) \/ LookupMiss(c, k) \/ LookupFails(c, k)
    \/ \E c \in Clients :
          \/ Fail(c) \/ Compute(c) \/ Abandon(c)
          \/ StoreFound(c) \/ StoreFails(c) \/ StoreNew(c)
    \/ \E c \in Clients, b \in Blocks : Release(c, b)
    \/ \E size \in CacheSizes : SetSize(size)
    \/ Cleanup

Spec == Init /\ [][Next]_vars

-----------------------------------------------------------------------------
EntryType ==
    [live : BOOLEAN, key : Keys \cup {0}, in_use_count : Nat,
     more_recent : Entries \cup {0}, less_recent : Entries \cup {0},
     bufs : SUBSET Blocks]

\* Type invariant; in_use_count, unsigned in the code, never goes below zero.
TypeOK ==
    /\ table \in [Buckets -> SUBSET Entries]
    /\ entry \in [Entries -> EntryType]
    /\ most_recently_used \in Entries \cup {0}
    /\ least_recently_used \in Entries \cup {0}
    /\ max_cache_size \in Nat
    /\ current_cache_size \in Nat
    /\ block \in [Blocks -> [live : BOOLEAN, entry : Entries \cup {0},
                             holds : Keys \cup {0}]]
    /\ pc \in [Clients -> {"idle", "miss", "error", "computed", "abandoned", "using"}]
    /\ key \in [Clients -> Keys \cup {0}]
    /\ held \in [Clients -> SUBSET Blocks]
    /\ down \in BOOLEAN
    /\ uses \in Seq(Entries)

Cached == UNION {table[i] : i \in Buckets}

\* The result a client uses is the result for its key, also when another key
\* has the same hash, and its memory is not freed before it is released; only
\* a buffer that belongs to an entry is shared.
HeldIsRight ==
    \A c \in Clients : \A b \in held[c] :
        /\ block[b].live
        /\ pc[c] = "using" => block[b].holds = key[c]
        /\ \A d \in Clients : d # c /\ b \in held[d] => block[b].entry # 0

\* in_use_count is the number of buffers of the entry that clients still have
\* to release, and a block header never points to an entry that is gone.
InUseExact ==
    /\ \A e \in Cached :
          entry[e].in_use_count =
              Cardinality({p \in Clients \X Blocks :
                              p[2] \in held[p[1]] /\ block[p[2]].entry = e})
    /\ \A b \in Blocks : block[b].entry # 0 =>
          block[b].entry \in Cached /\ b \in entry[block[b].entry].bufs

\* When no client is inside, the blocks and entries that are allocated are
\* those in the table: no path of lookup, store and release leaks.
NoLeak ==
    (\A c \in Clients : pc[c] = "idle") =>
        /\ {b \in Blocks : block[b].live} = UNION {entry[e].bufs : e \in Cached}
        /\ {e \in Entries : entry[e].live} = Cached

\* current_cache_size is the size of the results in the table.
SizeExact ==
    current_cache_size = FoldSet(LAMBDA e, n : n + Bytes[entry[e].key], 0, Cached)

\* A result is cached once, and where lookup searches for it.
UniqueKeys ==
    /\ \A d, e \in Cached : entry[d].key = entry[e].key => d = e
    /\ \A i \in Buckets : \A e \in table[i] : Index(entry[e].key) = i

\* The entries on the way from start along a link.
Walk(start, Link(_)) ==
    LET at[n \in 0..MaxEntries] ==
            IF n = 0 THEN start ELSE IF at[n - 1] = 0 THEN 0 ELSE Link(at[n - 1])
    IN  SelectSeq([n \in 1..(MaxEntries + 1) |-> at[n - 1]], LAMBDA e : e # 0)

\* What validate_cache tests: from either end the LRU list leads through all
\* entries of the table and no other ("entries_in_hash_table !=
\* entries_from_mru", "... != entries_from_lru"), and in the order of use.
LruExact ==
    ~down =>
        /\ ToSet(uses) = Cached
        /\ Walk(least_recently_used, LAMBDA e : entry[e].more_recent) = uses
        /\ Walk(most_recently_used, LAMBDA e : entry[e].less_recent) = Reverse(uses)

\* No halide_assert of cache.cpp fails, whatever is looked up next and however
\* many entries are evicted.
AssertsHold ==
    ~down =>
        /\ \A e \in Cached : HitAsserts(e)
        /\ PruneAsserts(Current(current_cache_size + 1), 0)

\* The hash table, the LRU list, the sizes, the use counts and the block
\* headers agree after every call, whatever failed in it.
CacheValid ==
    /\ TypeOK
    /\ UniqueKeys
    /\ InUseExact
    /\ SizeExact
    /\ LruExact
    /\ AssertsHold

\* No step evicts an entry whose buffers some client has yet to release, or
\* gives its memory to another result.
UsedStay ==
    [][\A e \in Cached : entry[e].in_use_count > 0 =>
          /\ e \in Cached'
          /\ entry'[e].key = entry[e].key /\ entry'[e].bufs = entry[e].bufs]_vars

Removed(e) == e \in Cached /\ entry'[e].bufs # entry[e].bufs

\* Only entries nobody uses are evicted, and an unused entry is kept only if
\* all entries that were evicted are older.
EvictsOldest ==
    [][\A i \in DOMAIN uses : Removed(uses[i]) =>
          /\ entry[uses[i]].in_use_count = 0
          /\ \A j \in 1..(i - 1) :
                Removed(uses[j]) \/ entry[uses[j]].in_use_count > 0]_vars

\* "This is not a strict maximum in that concurrency and simultaneous use of
\* memoized results ...": after a store or a change of the maximum the cache is
\* over it only if every entry is in use.
PrunesEnough ==
    [][(\/ max_cache_size' # max_cache_size
        \/ \E c \in Clients : /\ pc[c] = "computed"
                               /\ \E b \in held[c] : block'[b].entry # block[b].entry)
       => \/ current_cache_size' <= max_cache_size'
          \/ \A e \in Cached' : entry'[e].in_use_count > 0]_vars
=============================================================================
