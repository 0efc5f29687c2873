-------------------------- MODULE MemoCacheProofs ---------------------------
(***************************************************************************)
(* For any number of activations, keys, entries and blocks, whatever hash  *)
(* values collide and whatever allocations fail, a client of the cache     *)
(* holds the result it asked for until it releases it, and nothing leaks.  *)
(* The argument is about the hash table, the use counts and the headers of *)
(* the blocks; it does not use the links of the LRU list, which decide     *)
(* only which entries prune_cache looks at.                                *)
(***************************************************************************)
EXTENDS MemoCache, FiniteSetTheorems, TLAPS

-----------------------------------------------------------------------------
(***************************************************************************)
(* The invariant, for a hash table tab, entries ent, blocks blk, and       *)
(* clients at their places at with keys key and blocks hold.  prune_cache  *)
(* goes through such states within one step.                               *)
(***************************************************************************)
BlockType == [live : BOOLEAN, entry : Entries \cup {0}, holds : Keys \cup {0}]
Places == {"idle", "miss", "error", "computed", "abandoned", "using"}

Types(tab, ent, blk, at, keys, hold) ==
    /\ tab \in [Buckets -> SUBSET Entries]
    /\ ent \in [Entries -> EntryType]
    /\ blk \in [Blocks -> BlockType]
    /\ at \in [Clients -> Places]
    /\ keys \in [Clients -> Keys \cup {0}]
    /\ hold \in [Clients -> SUBSET Blocks]

\* The entries that are allocated are in the table, in their buckets.
Homes(tab, ent) ==
    \A e \in Entries :
        /\ ent[e].live => ent[e].key \in Keys
        /\ \A i \in Buckets : e \in tab[i] <=> ent[e].live /\ Index(ent[e].key) = i

\* A block header and the entry it points to agree.
Owner(e, ent, blk) ==
    /\ \A b \in Blocks : blk[b].entry = e <=> b \in ent[e].bufs
    /\ \A b \in ent[e].bufs : blk[b].live /\ blk[b].holds = ent[e].key
    /\ ent[e].live => Cardinality(ent[e].bufs) = Tuple[ent[e].key]
    /\ ~ent[e].live => ent[e].bufs = {}

Owns(ent, blk) == \A e \in Entries : Owner(e, ent, blk)

\* What a client holds is allocated and right, and until it is stored nobody
\* else holds it.
Holder(c, blk, at, keys, hold) ==
    /\ at[c] \in {"idle", "error"} => hold[c] = {}
    /\ at[c] \notin {"idle", "error"} => keys[c] \in Keys
    /\ at[c] \in {"miss", "computed"} => Cardinality(hold[c]) = Tuple[keys[c]]
    /\ \A b \in hold[c] :
          /\ blk[b].live
          /\ at[c] \in {"computed", "using"} => blk[b].holds = keys[c]
          /\ at[c] # "using" => blk[b].entry = 0
          /\ blk[b].entry = 0 => \A d \in Clients : b \in hold[d] => d = c

Holdings(blk, at, keys, hold) == \A c \in Clients : Holder(c, blk, at, keys, hold)

NoOrphans(blk, hold) ==
    \A b \in Blocks : blk[b].live /\ blk[b].entry = 0 => \E c \in Clients : b \in hold[c]

Users(e, blk, hold) ==
    {p \in Clients \X Blocks : p[2] \in hold[p[1]] /\ blk[p[2]].entry = e}

Counted(ent, blk, hold) ==
    \A e \in Entries : ent[e].live => ent[e].in_use_count = Cardinality(Users(e, blk, hold))

Unique(ent) ==
    \A d, e \in Entries : ent[d].live /\ ent[e].live /\ ent[d].key = ent[e].key => d = e

Sound(tab, ent, blk, at, keys, hold) ==
    /\ Types(tab, ent, blk, at, keys, hold)
    /\ Homes(tab, ent)
    /\ Owns(ent, blk)
    /\ Holdings(blk, at, keys, hold)
    /\ NoOrphans(blk, hold)
    /\ Counted(ent, blk, hold)
    /\ Unique(ent)

IInv ==
    /\ most_recently_used \in Entries \cup {0}
    /\ least_recently_used \in Entries \cup {0}
    /\ Sound(table, entry, block, pc, key, held)

-----------------------------------------------------------------------------
(***************************************************************************)
(* The loop of prune_cache.                                                *)
(***************************************************************************)
LEMMA Smallest ==
    ASSUME NEW S, S \subseteq Nat, S # {}
    PROVE  \E m \in S : \A k \in S : m <= k
<1> DEFINE R == {p \in Nat \X Nat : p[1] < p[2]}
<1>1. IsWellFoundedOn(R, Nat)
    BY NatLessThanWellFounded DEF OpToRel
<1> HIDE DEF R
<1>2. PICK m \in S : \A k \in S : <<k, m>> \notin R
    BY <1>1, WFMin
<1>3. \A k \in S : ~(k < m)
    BY <1>2 DEF R
<1> QED BY <1>3

IsLoop(f, x0, max, bound) ==
    f = [n \in 0..bound |-> IF n = 0 THEN x0 ELSE PruneRound(f[n - 1], max)]

\* The rounds up to any number of them are a function: a least number for
\* which there is none would follow one for which there is.
LEMMA RoundsExist ==
    ASSUME NEW x0, NEW max, NEW bound \in Nat
    PROVE  \E f : IsLoop(f, x0, max, bound)
<1> DEFINE Upto(m) == \E f : IsLoop(f, x0, max, m)
<1> DEFINE Bad == {m \in Nat : ~Upto(m)}
<1> SUFFICES ASSUME Bad # {} PROVE FALSE
    OBVIOUS
<1>1. PICK m \in Bad : \A k \in Bad : m <= k
    <2>1. Bad \subseteq Nat
        OBVIOUS
    <2> HIDE DEF Bad
    <2> QED BY <2>1, Smallest
<1>2. m \in Nat /\ ~Upto(m)
    OBVIOUS
<1>3. CASE m = 0
    <2> DEFINE f == [n \in 0..0 |-> x0]
    <2>1. f = [n \in 0..0 |-> IF n = 0 THEN x0 ELSE PruneRound(f[n - 1], max)]
        OBVIOUS
    <2> QED BY <1>2, <1>3, <2>1 DEF IsLoop
<1>4. CASE m # 0
    <2>1. Upto(m - 1)
        <3>1. m - 1 \in Nat /\ ~(m <= m - 1)
            BY <1>2, <1>4
        <3> HIDE DEF Upto
        <3>2. m - 1 \notin Bad
            <4> HIDE DEF Bad
            <4> QED BY <1>1, <3>1
        <3> QED BY <3>1, <3>2
    <2>2. PICK g : g = [n \in 0..(m - 1) |-> IF n = 0 THEN x0 ELSE PruneRound(g[n - 1], max)]
        BY <2>1 DEF IsLoop
    <2> DEFINE h == [n \in 0..m |-> IF n = m THEN PruneRound(g[m - 1], max) ELSE g[n]]
    <2>3. ASSUME NEW n \in 0..m
          PROVE  h[n] = IF n = 0 THEN x0 ELSE PruneRound(h[n - 1], max)
        <3>1. CASE n = m
            BY <1>2, <1>4, <3>1
        <3>2. CASE n # m
            <4>1. n \in 0..(m - 1) /\ h[n] = g[n]
                BY <1>2, <3>2
            <4>2. g[n] = IF n = 0 THEN x0 ELSE PruneRound(g[n - 1], max)
                BY <2>2, <4>1
            <4>3. n # 0 => h[n - 1] = g[n - 1]
                BY <1>2, <4>1
            <4> QED BY <4>1, <4>2, <4>3
        <3> QED BY <3>1, <3>2
    <2>4. h = [n \in 0..m |-> IF n = 0 THEN x0 ELSE PruneRound(h[n - 1], max)]
        <3>1. h = [n \in 0..m |-> h[n]]
            OBVIOUS
        <3> HIDE DEF h
        <3> QED BY <2>3, <3>1
    <2> HIDE DEF h
    <2>5. Upto(m)
        BY <2>4 DEF IsLoop
    <2> QED BY <1>2, <2>5
<1> QED BY <1>3, <1>4

LEMMA PruneLoop ==
    ASSUME NEW s0, NEW max
    PROVE  \E f : /\ IsLoop(f, [s |-> s0, candidate |-> s0.least], max, MaxEntries)
                  /\ PruneRounds(s0, max) = f[MaxEntries]
<1> DEFINE x0 == [s |-> s0, candidate |-> s0.least]
<1> DEFINE f == CHOOSE f : f = [n \in 0..MaxEntries |->
                                   IF n = 0 THEN x0 ELSE PruneRound(f[n - 1], max)]
<1>1. PruneRounds(s0, max) = f[MaxEntries]
    BY DEF PruneRounds
<1>2. IsLoop(f, x0, max, MaxEntries)
    <2>1. MaxEntries \in Nat
        BY CacheAssumption
    <2> HIDE DEF x0
    <2>2. \E g : IsLoop(g, x0, max, MaxEntries)
        BY <2>1, RoundsExist
    <2> QED BY <2>2 DEF IsLoop
<1> QED BY <1>1, <1>2

-----------------------------------------------------------------------------
LEMMA Constants ==
    /\ 0 \notin Entries
    /\ IsFiniteSet(Clients) /\ IsFiniteSet(Blocks) /\ IsFiniteSet(Clients \X Blocks)
    /\ \A k \in Keys : Index(k) \in Buckets /\ Tuple[k] \in Nat /\ Tuple[k] # 0
<1>1. 0 \notin Entries
    BY DEF Entries
<1>2. IsFiniteSet(Blocks)
    BY CacheAssumption, FS_Interval DEF Blocks
<1>3. IsFiniteSet(Clients \X Blocks)
    BY <1>2, CacheAssumption, FS_Product
<1>4. ASSUME NEW k \in Keys PROVE Index(k) \in Buckets
    <2>1. Hash[k] \in Nat /\ kHashTableSize \in Nat /\ kHashTableSize > 0
        BY CacheAssumption
    <2> QED BY <2>1 DEF Index, Buckets
<1>5. \A k \in Keys : Tuple[k] \in Nat /\ Tuple[k] # 0
    BY CacheAssumption
<1> QED BY <1>1, <1>2, <1>3, <1>4, <1>5, CacheAssumption

LEMMA UsersFinite ==
    ASSUME NEW e, NEW blk, NEW hold
    PROVE  IsFiniteSet(Users(e, blk, hold)) /\ Cardinality(Users(e, blk, hold)) \in Nat
<1>1. Users(e, blk, hold) \in SUBSET (Clients \X Blocks)
    BY DEF Users
<1> QED BY <1>1, Constants, FS_Subset, FS_CardinalityType

\* Nobody holds a block of an entry whose use count is zero.
LEMMA Unused ==
    ASSUME NEW tab, NEW ent, NEW blk, NEW at, NEW keys, NEW hold,
           Sound(tab, ent, blk, at, keys, hold), NEW e \in Entries,
           ent[e].in_use_count = 0, NEW c \in Clients, NEW b \in hold[c]
    PROVE  b \notin ent[e].bufs
<1> SUFFICES ASSUME b \in ent[e].bufs PROVE FALSE
    OBVIOUS
<1>1. b \in Blocks
    BY DEF Sound, Types
<1>2. ent[e].live
    BY DEF Sound, Owns, Owner
<1>3. blk[b].entry = e
    BY <1>1 DEF Sound, Owns, Owner
<1>4. <<c, b>> \in Users(e, blk, hold)
    BY <1>1, <1>3 DEF Users
<1>5. Cardinality(Users(e, blk, hold)) = 0
    BY <1>2 DEF Sound, Counted
<1>6. Users(e, blk, hold) = {}
    BY <1>5, UsersFinite, FS_EmptySet
<1> QED BY <1>4, <1>6

\* Freeing an entry that nobody uses, and its blocks.
LEMMA Evicted ==
    ASSUME NEW tab, NEW ent, NEW blk, NEW at, NEW keys, NEW hold,
           Sound(tab, ent, blk, at, keys, hold), NEW e \in Entries,
           ent[e].in_use_count = 0,
           NEW tab2, NEW ent2, NEW blk2, Types(tab2, ent2, blk2, at, keys, hold),
           \A x \in Entries : ent2[x].key = ent[x].key /\ ent2[x].in_use_count = ent[x].in_use_count,
           \A x \in Entries : x # e => ent2[x].live = ent[x].live /\ ent2[x].bufs = ent[x].bufs,
           ~ent2[e].live, ent2[e].bufs = {},
           \A i \in Buckets : tab2[i] = tab[i] \ {e},
           \A b \in Blocks : blk2[b] = IF b \in ent[e].bufs THEN NoBlock ELSE blk[b]
    PROVE  Sound(tab2, ent2, blk2, at, keys, hold)
<1>1. \A c \in Clients : \A b \in hold[c] : b \in Blocks /\ blk2[b] = blk[b]
    BY Unused DEF Types
<1>2. NoBlock.live = FALSE /\ NoBlock.entry = 0
    BY DEF NoBlock
<1>3. Homes(tab2, ent2)
    BY DEF Sound, Homes
<1>4. Owns(ent2, blk2)
    <2> SUFFICES ASSUME NEW x \in Entries PROVE Owner(x, ent2, blk2)
        BY DEF Owns
    <2>0. /\ \A y \in Entries, b \in Blocks : blk[b].entry = y <=> b \in ent[y].bufs
          /\ \A b \in ent[x].bufs : blk[b].live /\ blk[b].holds = ent[x].key
          /\ ent[x].live => Cardinality(ent[x].bufs) = Tuple[ent[x].key]
          /\ ~ent[x].live => ent[x].bufs = {}
          /\ ent[x].bufs \subseteq Blocks
        BY DEF Sound, Owns, Owner, Types, EntryType
    <2>1. CASE x = e
        BY <1>2, <2>0, <2>1, Constants DEF Owner
    <2>2. CASE x # e
        <3>1. \A b \in ent[x].bufs : b \notin ent[e].bufs
            BY <2>0, <2>2
        <3>2. \A b \in Blocks : blk2[b].entry = x <=> b \in ent2[x].bufs
            BY <1>2, <2>0, <2>2, <3>1, Constants
        <3>3. \A b \in ent2[x].bufs : blk2[b].live /\ blk2[b].holds = ent2[x].key
            BY <2>0, <2>2, <3>1
        <3> QED BY <2>0, <2>2, <3>2, <3>3 DEF Owner
    <2> QED BY <2>1, <2>2
<1>5. Holdings(blk2, at, keys, hold)
    BY <1>1 DEF Sound, Holdings, Holder
<1>6. NoOrphans(blk2, hold)
    BY <1>2 DEF Sound, NoOrphans
<1>7. Counted(ent2, blk2, hold)
    <2>1. ASSUME NEW x PROVE Users(x, blk2, hold) = Users(x, blk, hold)
        BY <1>1 DEF Users
    <2> QED BY <2>1 DEF Sound, Counted
<1>8. Unique(ent2)
    BY DEF Sound, Unique
<1> QED BY <1>3, <1>4, <1>5, <1>6, <1>7, <1>8 DEF Sound

\* A record of the variables that prune_cache changes.
IsCache(s) ==
    s = [table |-> s.table, entry |-> s.entry, most |-> s.most,
         least |-> s.least, size |-> s.size, block |-> s.block]

\* A state of prune_cache: s is sound, its entries are among those of ent, and
\* those in use are still there.
Prunes(s, ent, at, keys, hold) ==
    /\ IsCache(s)
    /\ s.most \in Entries \cup {0}
    /\ s.least \in Entries \cup {0}
    /\ Sound(s.table, s.entry, s.block, at, keys, hold)
    /\ \A x \in Entries : s.entry[x].live => ent[x].live /\ s.entry[x].key = ent[x].key
    /\ \A x \in Entries : ent[x].live /\ ent[x].in_use_count > 0 =>
          /\ s.entry[x].live /\ s.entry[x].bufs = ent[x].bufs
          /\ s.entry[x].in_use_count = ent[x].in_use_count

LEMMA UnlinkedFields ==
    ASSUME NEW ent \in [Entries -> EntryType], NEW e \in Entries, NEW ent2,
           ent2 = [Unlinked(ent, e) EXCEPT ![e].live = FALSE, ![e].bufs = {}]
    PROVE  /\ ent2 \in [Entries -> EntryType]
           /\ \A x \in Entries : /\ ent2[x].key = ent[x].key
                                 /\ ent2[x].in_use_count = ent[x].in_use_count
           /\ \A x \in Entries : x # e => ent2[x].live = ent[x].live /\ ent2[x].bufs = ent[x].bufs
           /\ ~ent2[e].live /\ ent2[e].bufs = {}
<1> DEFINE u == Unlinked(ent, e)
<1>1. \A x \in Entries : /\ ent[x] \in EntryType
                         /\ ent[x].more_recent \in Entries \cup {0}
                         /\ ent[x].less_recent \in Entries \cup {0}
    BY DEF EntryType
<1>2. /\ u \in [Entries -> EntryType]
      /\ \A x \in Entries : /\ u[x].key = ent[x].key /\ u[x].in_use_count = ent[x].in_use_count
                            /\ u[x].live = ent[x].live /\ u[x].bufs = ent[x].bufs
    <2> SUFFICES ASSUME NEW x \in Entries
                 PROVE  /\ u[x] \in EntryType
                        /\ u[x].key = ent[x].key /\ u[x].in_use_count = ent[x].in_use_count
                        /\ u[x].live = ent[x].live /\ u[x].bufs = ent[x].bufs
        BY DEF Unlinked
    <2>1. ASSUME NEW v \in Entries \cup {0}
          PROVE  /\ [ent[x] EXCEPT !.less_recent = v] \in EntryType
                 /\ [ent[x] EXCEPT !.less_recent = v].key = ent[x].key
                 /\ [ent[x] EXCEPT !.less_recent = v].in_use_count = ent[x].in_use_count
                 /\ [ent[x] EXCEPT !.less_recent = v].live = ent[x].live
                 /\ [ent[x] EXCEPT !.less_recent = v].bufs = ent[x].bufs
        BY <1>1 DEF EntryType
    <2>2. \/ u[x] = ent[x]
          \/ \E v \in Entries \cup {0} : u[x] = [ent[x] EXCEPT !.less_recent = v]
        BY <1>1 DEF Unlinked
    <2> QED BY <1>1, <2>1, <2>2
<1> HIDE DEF u
<1>3. ent2 = [u EXCEPT ![e] = [u[e] EXCEPT !.live = FALSE, !.bufs = {}]]
    BY <1>2 DEF u
<1>4. /\ [u[e] EXCEPT !.live = FALSE, !.bufs = {}] \in EntryType
      /\ [u[e] EXCEPT !.live = FALSE, !.bufs = {}].key = u[e].key
      /\ [u[e] EXCEPT !.live = FALSE, !.bufs = {}].in_use_count = u[e].in_use_count
      /\ [u[e] EXCEPT !.live = FALSE, !.bufs = {}].live = FALSE
      /\ [u[e] EXCEPT !.live = FALSE, !.bufs = {}].bufs = {}
    <2>1. u[e] \in EntryType
        BY <1>2
    <2> QED BY <2>1 DEF EntryType
<1>5. PICK w : w = [u[e] EXCEPT !.live = FALSE, !.bufs = {}]
    OBVIOUS
<1>6. /\ w \in EntryType /\ w.key = u[e].key /\ w.in_use_count = u[e].in_use_count
      /\ w.live = FALSE /\ w.bufs = {}
    BY <1>4, <1>5
<1>7. ent2 = [u EXCEPT ![e] = w]
    BY <1>3, <1>5
<1>8. ent2 \in [Entries -> EntryType] /\ ent2[e] = w /\ \A x \in Entries : x # e => ent2[x] = u[x]
    BY <1>2, <1>6, <1>7
<1>9. ASSUME NEW x \in Entries
      PROVE  ent2[x].key = ent[x].key /\ ent2[x].in_use_count = ent[x].in_use_count
    <2>1. u[x].key = ent[x].key /\ u[x].in_use_count = ent[x].in_use_count
        BY <1>2
    <2>2. CASE x = e
        BY <1>6, <1>8, <2>1, <2>2
    <2>3. CASE x # e
        BY <1>8, <2>1, <2>3
    <2> QED BY <2>2, <2>3
<1>10. \A x \in Entries : x # e => ent2[x].live = ent[x].live /\ ent2[x].bufs = ent[x].bufs
    BY <1>2, <1>8
<1>11. ~ent2[e].live /\ ent2[e].bufs = {}
    BY <1>6, <1>8
<1> QED BY <1>8, <1>9, <1>10, <1>11

LEMMA PrunedSound ==
    ASSUME NEW s, NEW ent, NEW at, NEW keys, NEW hold, Prunes(s, ent, at, keys, hold),
           NEW e \in Entries, s.entry[e].in_use_count = 0
    PROVE  Prunes(Pruned(s, e), ent, at, keys, hold)
<1> DEFINE p == Pruned(s, e)
           old == s.entry[e]
<1>1. /\ p.table = [s.table EXCEPT ![Index(old.key)] = @ \ {e}]
      /\ p.entry = [Unlinked(s.entry, e) EXCEPT ![e].live = FALSE, ![e].bufs = {}]
      /\ p.most = (IF s.most = e THEN old.less_recent ELSE s.most)
      /\ p.least = LeastAfterPrune(s, e)
      /\ p.block = [b \in Blocks |-> IF b \in old.bufs THEN NoBlock ELSE s.block[b]]
    BY DEF Pruned
<1>2. /\ s.table \in [Buckets -> SUBSET Entries] /\ s.entry \in [Entries -> EntryType]
      /\ s.block \in [Blocks -> BlockType]
    BY DEF Prunes, Sound, Types
<1>3. /\ old.less_recent \in Entries \cup {0} /\ old.more_recent \in Entries \cup {0}
    BY <1>2 DEF EntryType
<1>4. p.most \in Entries \cup {0} /\ p.least \in Entries \cup {0}
    BY <1>1, <1>3 DEF Prunes, LeastAfterPrune
<1>11. IsCache(p)
    BY DEF IsCache, Pruned
<1> HIDE DEF p, old
<1>5. /\ p.entry \in [Entries -> EntryType]
      /\ \A x \in Entries : /\ p.entry[x].key = s.entry[x].key
                            /\ p.entry[x].in_use_count = s.entry[x].in_use_count
      /\ \A x \in Entries : x # e => /\ p.entry[x].live = s.entry[x].live
                                     /\ p.entry[x].bufs = s.entry[x].bufs
      /\ ~p.entry[e].live /\ p.entry[e].bufs = {}
    BY <1>1, <1>2, UnlinkedFields
<1>6. /\ p.table \in [Buckets -> SUBSET Entries]
      /\ \A i \in Buckets : p.table[i] = s.table[i] \ {e}
    <2>1. \A i \in Buckets : i # Index(old.key) => e \notin s.table[i]
        BY DEF Prunes, Sound, Homes, old
    <2>2. PICK j, T : j = Index(old.key) /\ T = s.table
        OBVIOUS
    <2>3. p.table = [T EXCEPT ![j] = T[j] \ {e}] /\ T \in [Buckets -> SUBSET Entries]
        BY <1>1, <1>2, <2>2
    <2>4. p.table \in [Buckets -> SUBSET Entries]
        BY <2>3
    <2>5. \A i \in Buckets : p.table[i] = T[i] \ {e}
        BY <2>1, <2>2, <2>3
    <2> QED BY <2>2, <2>4, <2>5
<1>7. /\ p.block \in [Blocks -> BlockType]
      /\ \A b \in Blocks : p.block[b] = IF b \in s.entry[e].bufs THEN NoBlock ELSE s.block[b]
    <2>1. NoBlock \in BlockType
        BY DEF NoBlock, BlockType
    <2> QED BY <1>1, <1>2, <2>1 DEF old
<1>8. Types(p.table, p.entry, p.block, at, keys, hold)
    BY <1>5, <1>6, <1>7 DEF Prunes, Sound, Types
<1>9. Sound(p.table, p.entry, p.block, at, keys, hold)
    BY <1>5, <1>6, <1>7, <1>8, Evicted DEF Prunes
<1>10. \A x \in Entries : p.entry[x].live => ent[x].live /\ p.entry[x].key = ent[x].key
    BY <1>5 DEF Prunes
<1>12. ASSUME NEW x \in Entries, ent[x].live, ent[x].in_use_count > 0
       PROVE  /\ p.entry[x].live /\ p.entry[x].bufs = ent[x].bufs
              /\ p.entry[x].in_use_count = ent[x].in_use_count
    <2>1. /\ s.entry[x].live /\ s.entry[x].bufs = ent[x].bufs
          /\ s.entry[x].in_use_count = ent[x].in_use_count
        BY <1>12 DEF Prunes
    <2>2. x # e
        BY <1>12, <2>1
    <2> QED BY <1>5, <2>1, <2>2
<1> QED BY <1>4, <1>9, <1>10, <1>11, <1>12 DEF Prunes, p

\* prune_cache, from any sound state.
LEMMA PruneCacheSound ==
    ASSUME NEW s0, NEW max, NEW ent, NEW at, NEW keys, NEW hold,
           Prunes(s0, ent, at, keys, hold)
    PROVE  Prunes(PruneCache(s0, max), ent, at, keys, hold)
<1> DEFINE x0 == [s |-> s0, candidate |-> s0.least]
           Fine(x) == Prunes(x.s, ent, at, keys, hold) /\ x.candidate \in Entries \cup {0, Aborted}
<1>1. PICK f : IsLoop(f, x0, max, MaxEntries) /\ PruneRounds(s0, max) = f[MaxEntries]
    BY PruneLoop
<1>2. Fine(x0)
    BY DEF Prunes
<1>3. ASSUME NEW x, Fine(x) PROVE Fine(PruneRound(x, max))
    <2>1. CASE ~TooBig(x.s.size, max) \/ x.candidate \in {0, Aborted}
        BY <1>3, <2>1 DEF PruneRound
    <2>2. CASE TooBig(x.s.size, max) /\ x.candidate \notin {0, Aborted}
        <3> DEFINE e == x.candidate
                   y == PruneRound(x, max)
        <3>1. e \in Entries
            BY <1>3, <2>2
        <3>2. /\ y.s = x.s \/ (Prunable(x.s.entry[e]) /\ y.s = Pruned(x.s, e))
              /\ y.candidate \in {x.s.entry[e].more_recent, Aborted}
            BY <2>2 DEF PruneRound
        <3>3. y.candidate \in Entries \cup {0, Aborted}
            <4>1. x.s.entry \in [Entries -> EntryType]
                BY <1>3 DEF Prunes, Sound, Types
            <4>2. x.s.entry[e] \in EntryType
                BY <3>1, <4>1
            <4>3. x.s.entry[e].more_recent \in Entries \cup {0}
                BY <4>2 DEF EntryType
            <4> QED BY <3>2, <4>3
        <3> HIDE DEF e, y
        <3>4. Prunes(y.s, ent, at, keys, hold)
            BY <1>3, <3>1, <3>2, PrunedSound DEF Prunable
        <3> QED BY <3>3, <3>4 DEF y
    <2> QED BY <2>1, <2>2
<1> HIDE DEF Fine, x0
<1> DEFINE Bad == {n \in 0..MaxEntries : ~Fine(f[n])}
<1>4. MaxEntries \in Nat
    BY CacheAssumption
<1>5. Bad = {}
    <2> SUFFICES ASSUME Bad # {} PROVE FALSE
        OBVIOUS
    <2>1. PICK m \in Bad : \A k \in Bad : m <= k
        <3>1. Bad \subseteq Nat
            BY <1>4
        <3> HIDE DEF Bad
        <3> QED BY <3>1, Smallest
    <2>2. m \in 0..MaxEntries /\ ~Fine(f[m])
        OBVIOUS
    <2>3. f[m] = IF m = 0 THEN x0 ELSE PruneRound(f[m - 1], max)
        BY <1>1, <2>2 DEF IsLoop
    <2>4. m # 0
        BY <1>2, <2>2, <2>3
    <2>5. m - 1 \in 0..MaxEntries /\ ~(m <= m - 1)
        BY <1>4, <2>2, <2>4
    <2>6. Fine(f[m - 1])
        BY <2>1, <2>5
    <2> QED BY <1>3, <2>2, <2>3, <2>4, <2>6
<1>6. Fine(f[MaxEntries])
    BY <1>4, <1>5
<1> QED BY <1>1, <1>6 DEF Fine, PruneCache

-----------------------------------------------------------------------------
(***************************************************************************)
(* The operations.                                                         *)
(***************************************************************************)
LEMMA SoundAfter ==
    ASSUME most_recently_used' \in Entries \cup {0}, least_recently_used' \in Entries \cup {0},
           Sound(table', entry', block', pc', key', held')
    PROVE  IInv'
<1>1. Sound(table, entry, block, pc, key, held)'
    BY DEF Sound, Types, Homes, Owns, Owner, Holdings, Holder, NoOrphans, Counted, Users, Unique
<1> QED BY <1>1 DEF IInv

\* The pairs of one client and its blocks.
Pairs(c, S) == {c} \X S

LEMMA PairsCounted ==
    ASSUME NEW c, NEW S, IsFiniteSet(S)
    PROVE  IsFiniteSet(Pairs(c, S)) /\ Cardinality(Pairs(c, S)) = Cardinality(S)
<1>1. IsFiniteSet({c}) /\ Cardinality({c}) = 1
    BY FS_Singleton
<1>2. PICK C : C = {c}
    OBVIOUS
<1>3. IsFiniteSet(C \X S) /\ Cardinality(C \X S) = Cardinality(C) * Cardinality(S)
    BY <1>1, <1>2, FS_Product
<1>4. Cardinality(S) \in Nat
    BY FS_CardinalityType
<1> QED BY <1>1, <1>2, <1>3, <1>4 DEF Pairs

\* A hit: the client joins those who use the entry.
LEMMA HitSound ==
    ASSUME NEW tab, NEW ent, NEW blk, NEW at, NEW keys, NEW hold,
           Sound(tab, ent, blk, at, keys, hold),
           NEW c \in Clients, at[c] = "idle", NEW e \in Entries, ent[e].live,
           NEW ent2, NEW at2, NEW keys2, NEW hold2, Types(tab, ent2, blk, at2, keys2, hold2),
           \A x \in Entries : ent2[x].live = ent[x].live /\ ent2[x].key = ent[x].key
                              /\ ent2[x].bufs = ent[x].bufs,
           \A x \in Entries : x # e => ent2[x].in_use_count = ent[x].in_use_count,
           ent2[e].in_use_count = ent[e].in_use_count + Tuple[ent[e].key],
           at2[c] = "using", keys2[c] = ent[e].key, hold2[c] = ent[e].bufs,
           \A d \in Clients : d # c => at2[d] = at[d] /\ keys2[d] = keys[d] /\ hold2[d] = hold[d]
    PROVE  Sound(tab, ent2, blk, at2, keys2, hold2)
<1>1. /\ ent[e].key \in Keys /\ ent[e].bufs \in SUBSET Blocks /\ hold[c] = {}
      /\ Cardinality(ent[e].bufs) = Tuple[ent[e].key]
      /\ \A b \in ent[e].bufs : blk[b].live /\ blk[b].holds = ent[e].key /\ blk[b].entry = e
    BY DEF Sound, Types, EntryType, Homes, Owns, Owner, Holdings, Holder
<1>2. /\ at2[c] = "using" /\ keys2[c] = ent[e].key /\ hold2[c] = ent[e].bufs
      /\ \A d \in Clients : d # c => at2[d] = at[d] /\ keys2[d] = keys[d] /\ hold2[d] = hold[d]
    OBVIOUS
<1>4. Homes(tab, ent2) /\ Owns(ent2, blk) /\ Unique(ent2)
    <2>1. Homes(tab, ent2)
        BY DEF Sound, Homes
    <2>2. Owns(ent2, blk)
        BY DEF Sound, Owns, Owner
    <2>3. Unique(ent2)
        BY DEF Sound, Unique
    <2> QED BY <2>1, <2>2, <2>3
<1>5. Holdings(blk, at2, keys2, hold2)
    <2> SUFFICES ASSUME NEW d \in Clients PROVE Holder(d, blk, at2, keys2, hold2)
        BY DEF Holdings
    <2>1. CASE d = c
        BY <1>1, <1>2, <2>1, Constants DEF Holder
    <2>2. CASE d # c
        BY <1>1, <1>2, <2>2, Constants DEF Sound, Holdings, Holder
    <2> QED BY <2>1, <2>2
<1>6. NoOrphans(blk, hold2)
    BY <1>1, <1>2 DEF Sound, NoOrphans
<1>7. Counted(ent2, blk, hold2)
    <2> SUFFICES ASSUME NEW x \in Entries, ent2[x].live
                 PROVE  ent2[x].in_use_count = Cardinality(Users(x, blk, hold2))
        BY DEF Counted
    <2>1. ent[x].in_use_count = Cardinality(Users(x, blk, hold))
        BY DEF Sound, Counted
    <2>2. CASE x # e
        <3>1. Users(x, blk, hold2) = Users(x, blk, hold)
            BY <1>1, <1>2, <2>2 DEF Users
        <3> QED BY <2>1, <2>2, <3>1
    <2>3. CASE x = e
        <3> DEFINE mine == Pairs(c, ent[e].bufs)
        <3>1. /\ Users(e, blk, hold2) = Users(e, blk, hold) \cup mine
              /\ Users(e, blk, hold) \cap mine = {}
            BY <1>1, <1>2 DEF Users, Pairs
        <3>2. IsFiniteSet(mine) /\ Cardinality(mine) = Tuple[ent[e].key]
            <4>1. IsFiniteSet(ent[e].bufs)
                BY <1>1, Constants, FS_Subset
            <4> QED BY <1>1, <4>1, PairsCounted
        <3> HIDE DEF mine
        <3>3. IsFiniteSet(Users(e, blk, hold)) /\ Cardinality(Users(e, blk, hold)) \in Nat
            BY UsersFinite
        <3>4. Cardinality(Users(e, blk, hold) \cup mine)
                 = Cardinality(Users(e, blk, hold)) + Cardinality(mine)
                      - Cardinality(Users(e, blk, hold) \cap mine)
            BY <3>2, <3>3, FS_Union
        <3>5. Cardinality(Users(e, blk, hold) \cap mine) = 0
            BY <3>1, FS_EmptySet
        <3>6. Tuple[ent[e].key] \in Nat
            BY <1>1, Constants
        <3>7. ent2[x].in_use_count = Cardinality(Users(e, blk, hold)) + Tuple[ent[e].key]
            BY <2>1, <2>3
        <3>8. Cardinality(Users(e, blk, hold) \cup mine)
                 = Cardinality(Users(e, blk, hold)) + Tuple[ent[e].key]
            BY <3>2, <3>3, <3>4, <3>5, <3>6
        <3> QED BY <2>3, <3>1, <3>7, <3>8
    <2> QED BY <2>2, <2>3
<1> QED BY <1>4, <1>5, <1>6, <1>7 DEF Sound

LEMMA TouchedFields ==
    ASSUME NEW e \in Entries, entry \in [Entries -> EntryType],
           most_recently_used \in Entries \cup {0}
    PROVE  /\ Touched(e) \in [Entries -> EntryType]
           /\ \A x \in Entries : /\ Touched(e)[x].live = entry[x].live
                                 /\ Touched(e)[x].key = entry[x].key
                                 /\ Touched(e)[x].bufs = entry[x].bufs
                                 /\ Touched(e)[x].in_use_count = entry[x].in_use_count
<1>1. \A x \in Entries : /\ entry[x] \in EntryType
                         /\ entry[x].more_recent \in Entries \cup {0}
                         /\ entry[x].less_recent \in Entries \cup {0}
    BY DEF EntryType
<1>2. ASSUME NEW x \in Entries
      PROVE  /\ Touched(e)[x] \in EntryType
             /\ Touched(e)[x].live = entry[x].live /\ Touched(e)[x].key = entry[x].key
             /\ Touched(e)[x].bufs = entry[x].bufs
             /\ Touched(e)[x].in_use_count = entry[x].in_use_count
    <2> DEFINE m == entry[e].more_recent
               l == entry[e].less_recent
               v == IF x = e THEN 0 ELSE IF x = most_recently_used THEN e
                    ELSE IF x = l THEN m ELSE entry[x].more_recent
               w == IF x = e THEN most_recently_used
                    ELSE IF x = m THEN l ELSE entry[x].less_recent
               y == [entry[x] EXCEPT !.more_recent = v, !.less_recent = w]
    <2>1. v \in Entries \cup {0} /\ w \in Entries \cup {0}
        BY <1>1
    <2>2. Touched(e)[x] = y
        BY DEF Touched
    <2> HIDE DEF v, w
    <2>3. /\ y \in EntryType
          /\ y.live = entry[x].live /\ y.key = entry[x].key
          /\ y.bufs = entry[x].bufs /\ y.in_use_count = entry[x].in_use_count
        BY <1>1, <2>1 DEF EntryType
    <2> HIDE DEF y
    <2> QED BY <2>2, <2>3
<1>3. Touched(e) = [x \in Entries |-> Touched(e)[x]]
    BY DEF Touched
<1> QED BY <1>2, <1>3

LEMMA LookupHitIInv ==
    ASSUME IInv, NEW c \in Clients, NEW k \in Keys, LookupHit(c, k)
    PROVE  IInv'
<1> DEFINE e == CHOOSE x \in Found(k) : TRUE
           moved == IF MovesUp(e) THEN Touched(e) ELSE entry
<1>1. /\ pc[c] = "idle" /\ Found(k) # {}
      /\ entry' = [moved EXCEPT ![e].in_use_count = @ + UsesAdded(k)]
      /\ least_recently_used' =
             (IF MovesUp(e) /\ entry[e].less_recent = 0
              THEN entry[e].more_recent ELSE least_recently_used)
      /\ most_recently_used' = (IF MovesUp(e) THEN e ELSE most_recently_used)
      /\ held' = [held EXCEPT ![c] = entry[e].bufs]
      /\ key' = [key EXCEPT ![c] = k] /\ pc' = [pc EXCEPT ![c] = "using"]
      /\ table' = table /\ block' = block
    BY DEF LookupHit
<1>2. /\ table \in [Buckets -> SUBSET Entries] /\ entry \in [Entries -> EntryType]
      /\ most_recently_used \in Entries \cup {0} /\ least_recently_used \in Entries \cup {0}
      /\ Sound(table, entry, block, pc, key, held)
    BY DEF IInv, Sound, Types
<1>3. e \in Found(k)
    BY <1>1
<1> HIDE DEF e
<1>4. e \in Entries /\ entry[e].live /\ entry[e].key = k
    <2>1. e \in table[Index(k)] /\ entry[e].key = k
        BY <1>3 DEF Found, Matches
    <2>2. Index(k) \in Buckets
        BY Constants
    <2>3. e \in Entries
        BY <1>2, <2>1, <2>2
    <2> QED BY <1>2, <2>1, <2>2, <2>3 DEF Sound, Homes
<1>5. /\ moved \in [Entries -> EntryType]
      /\ \A x \in Entries : /\ moved[x].live = entry[x].live /\ moved[x].key = entry[x].key
                            /\ moved[x].bufs = entry[x].bufs
                            /\ moved[x].in_use_count = entry[x].in_use_count
    BY <1>2, <1>4, TouchedFields
<1> HIDE DEF moved
<1>6. /\ entry' \in [Entries -> EntryType]
      /\ \A x \in Entries : /\ entry'[x].live = entry[x].live /\ entry'[x].key = entry[x].key
                            /\ entry'[x].bufs = entry[x].bufs
      /\ \A x \in Entries : x # e => entry'[x].in_use_count = entry[x].in_use_count
      /\ entry'[e].in_use_count = entry[e].in_use_count + Tuple[entry[e].key]
    <2> DEFINE y == [moved[e] EXCEPT !.in_use_count = moved[e].in_use_count + Tuple[k]]
    <2>1. moved[e] \in EntryType /\ moved[e].in_use_count \in Nat /\ Tuple[k] \in Nat
        BY <1>4, <1>5, Constants DEF EntryType
    <2>2. /\ y \in EntryType /\ y.live = moved[e].live /\ y.key = moved[e].key
          /\ y.bufs = moved[e].bufs /\ y.in_use_count = moved[e].in_use_count + Tuple[k]
        BY <2>1 DEF EntryType
    <2>3. entry' = [moved EXCEPT ![e] = y]
        BY <1>1 DEF UsesAdded
    <2> HIDE DEF y
    <2> QED BY <1>4, <1>5, <2>2, <2>3
<1>7. least_recently_used' \in Entries \cup {0} /\ most_recently_used' \in Entries \cup {0}
    BY <1>1, <1>2, <1>4 DEF EntryType
<1>8. Sound(table', entry', block', pc', key', held')
    <2>1. /\ pc'[c] = "using" /\ key'[c] = entry[e].key /\ held'[c] = entry[e].bufs
          /\ \A d \in Clients : d # c => pc'[d] = pc[d] /\ key'[d] = key[d] /\ held'[d] = held[d]
        BY <1>1, <1>2, <1>4 DEF Sound, Types
    <2>2. Types(table, entry', block, pc', key', held')
        <3>1. entry[e].bufs \in SUBSET Blocks
            BY <1>2, <1>4 DEF EntryType
        <3> QED BY <1>1, <1>2, <1>6, <3>1 DEF Sound, Types, Places
    <2>3. Sound(table, entry', block, pc', key', held')
        <3>1. pc[c] = "idle" /\ e \in Entries /\ entry[e].live
            BY <1>1, <1>4
        <3> QED BY <1>2, <1>6, <2>1, <2>2, <3>1, HitSound
    <2> QED BY <1>1, <2>3
<1> QED BY <1>7, <1>8, SoundAfter

-----------------------------------------------------------------------------
\* Blocks that are not allocated belong to nobody.
LEMMA FreeBlock ==
    ASSUME NEW tab, NEW ent, NEW blk, NEW at, NEW keys, NEW hold,
           Sound(tab, ent, blk, at, keys, hold), NEW b \in Blocks, ~blk[b].live
    PROVE  /\ \A c \in Clients : b \notin hold[c]
           /\ \A e \in Entries : b \notin ent[e].bufs /\ blk[b].entry # e
    BY DEF Sound, Owns, Owner, Holdings, Holder

\* A miss: the client gets fresh blocks.
LEMMA MissSound ==
    ASSUME NEW tab, NEW ent, NEW blk, NEW at, NEW keys, NEW hold,
           Sound(tab, ent, blk, at, keys, hold),
           NEW c \in Clients, at[c] = "idle", NEW got \in SUBSET Blocks,
           \A b \in got : ~blk[b].live,
           NEW blk2, NEW at2, NEW keys2, NEW hold2, Types(tab, ent, blk2, at2, keys2, hold2),
           keys2[c] \in Keys, Cardinality(got) = Tuple[keys2[c]],
           \A b \in got : blk2[b].live /\ blk2[b].entry = 0,
           \A b \in Blocks : b \notin got => blk2[b] = blk[b],
           at2[c] = "miss", hold2[c] = got,
           \A d \in Clients : d # c => at2[d] = at[d] /\ keys2[d] = keys[d] /\ hold2[d] = hold[d]
    PROVE  Sound(tab, ent, blk2, at2, keys2, hold2)
<1>1. /\ hold[c] = {}
      /\ \A d \in Clients : hold[d] \cap got = {}
      /\ \A e \in Entries : ent[e].bufs \cap got = {} /\ ent[e].bufs \subseteq Blocks
      /\ \A b \in got, e \in Entries : blk[b].entry # e
    <2>1. hold[c] = {}
        BY DEF Sound, Holdings, Holder
    <2>2. \A e \in Entries : ent[e].bufs \subseteq Blocks
        BY DEF Types, EntryType
    <2> QED BY <2>1, <2>2, FreeBlock
<1>2. \A d \in Clients : hold[d] \subseteq Blocks
    BY DEF Sound, Types
<1>3. Owns(ent, blk2)
    <2> SUFFICES ASSUME NEW e \in Entries PROVE Owner(e, ent, blk2)
        BY DEF Owns
    <2>1. /\ \A b \in Blocks : blk[b].entry = e <=> b \in ent[e].bufs
          /\ \A b \in ent[e].bufs : blk[b].live /\ blk[b].holds = ent[e].key
          /\ ent[e].live => Cardinality(ent[e].bufs) = Tuple[ent[e].key]
          /\ ~ent[e].live => ent[e].bufs = {}
        BY DEF Sound, Owns, Owner
    <2> QED BY <1>1, <2>1, Constants DEF Owner
<1>4. Holdings(blk2, at2, keys2, hold2)
    <2> SUFFICES ASSUME NEW d \in Clients PROVE Holder(d, blk2, at2, keys2, hold2)
        BY DEF Holdings
    <2>1. CASE d = c
        BY <1>1, <2>1 DEF Holder
    <2>2. CASE d # c
        <3>1. \A b \in hold[d] : blk2[b] = blk[b]
            BY <1>1, <1>2
        <3> QED BY <1>1, <2>2, <3>1 DEF Sound, Holdings, Holder
    <2> QED BY <2>1, <2>2
<1>5. NoOrphans(blk2, hold2)
    BY <1>1 DEF Sound, NoOrphans
<1>6. Counted(ent, blk2, hold2)
    <2>1. ASSUME NEW e \in Entries PROVE Users(e, blk2, hold2) = Users(e, blk, hold)
        BY <1>1, <1>2, Constants DEF Users
    <2> QED BY <2>1 DEF Sound, Counted
<1> QED BY <1>3, <1>4, <1>5, <1>6 DEF Sound

\* A client goes on, with what it has.
LEMMA MoveSound ==
    ASSUME NEW tab, NEW ent, NEW blk, NEW at, NEW keys, NEW hold,
           Sound(tab, ent, blk, at, keys, hold), NEW c \in Clients,
           NEW at2, at2 \in [Clients -> Places], \A d \in Clients : d # c => at2[d] = at[d],
           \/ at[c] \in {"idle", "error"} /\ at2[c] \in {"idle", "error"}
           \/ at[c] = "miss" /\ at2[c] = "abandoned"
           \/ at[c] = "computed" /\ at2[c] = "using"
    PROVE  Sound(tab, ent, blk, at2, keys, hold)
<1>1. Types(tab, ent, blk, at2, keys, hold)
    BY DEF Sound, Types
<1>2. Holdings(blk, at2, keys, hold)
    <2> SUFFICES ASSUME NEW d \in Clients PROVE Holder(d, blk, at2, keys, hold)
        BY DEF Holdings
    <2>1. CASE d = c
        BY <2>1 DEF Sound, Holdings, Holder
    <2>2. CASE d # c
        BY <2>2 DEF Sound, Holdings, Holder
    <2> QED BY <2>1, <2>2
<1> QED BY <1>1, <1>2 DEF Sound

\* The result is computed into blocks that only its client has.
LEMMA ComputeSound ==
    ASSUME NEW tab, NEW ent, NEW blk, NEW at, NEW keys, NEW hold,
           Sound(tab, ent, blk, at, keys, hold), NEW c \in Clients, at[c] = "miss",
           NEW blk2, NEW at2, Types(tab, ent, blk2, at2, keys, hold),
           \A b \in Blocks : blk2[b].live = blk[b].live /\ blk2[b].entry = blk[b].entry,
           \A b \in hold[c] : blk2[b].holds = keys[c],
           \A b \in Blocks : b \notin hold[c] => blk2[b].holds = blk[b].holds,
           at2[c] = "computed", \A d \in Clients : d # c => at2[d] = at[d]
    PROVE  Sound(tab, ent, blk2, at2, keys, hold)
<1>1. /\ \A d \in Clients : hold[d] \subseteq Blocks
      /\ \A e \in Entries : ent[e].bufs \subseteq Blocks
    BY DEF Types, EntryType
<1>2. \A b \in hold[c] : blk[b].entry = 0 /\ \A d \in Clients : b \in hold[d] => d = c
    BY DEF Sound, Holdings, Holder
<1>3. Owns(ent, blk2)
    <2>1. \A e \in Entries : ent[e].bufs \cap hold[c] = {}
        BY <1>1, <1>2, Constants DEF Sound, Owns, Owner
    <2> QED BY <1>1, <2>1 DEF Sound, Owns, Owner
<1>4. Holdings(blk2, at2, keys, hold)
    <2> SUFFICES ASSUME NEW d \in Clients PROVE Holder(d, blk2, at2, keys, hold)
        BY DEF Holdings
    <2>1. CASE d = c
        BY <1>1, <1>2, <2>1 DEF Sound, Holdings, Holder
    <2>2. CASE d # c
        <3>1. \A b \in hold[d] : b \in Blocks /\ b \notin hold[c]
            BY <1>1, <1>2, <2>2
        <3> QED BY <2>2, <3>1 DEF Sound, Holdings, Holder
    <2> QED BY <2>1, <2>2
<1>5. NoOrphans(blk2, hold)
    BY DEF Sound, NoOrphans
<1>6. Counted(ent, blk2, hold)
    <2>1. ASSUME NEW e \in Entries PROVE Users(e, blk2, hold) = Users(e, blk, hold)
        BY DEF Users
    <2> QED BY <2>1 DEF Sound, Counted
<1> QED BY <1>3, <1>4, <1>5, <1>6 DEF Sound

\* The table, entries and blocks once entry e, for key k, has taken over the
\* blocks in mine.
Adds(tab, ent, blk, tab2, ent2, blk2, e, k, mine) ==
    /\ \A i \in Buckets, x \in Entries :
          x \in tab2[i] <=> x \in tab[i] \/ (x = e /\ i = Index(k))
    /\ ent2[e].live /\ ent2[e].key = k /\ ent2[e].bufs = mine
    /\ ent2[e].in_use_count = Tuple[k]
    /\ \A x \in Entries : x # e =>
          /\ ent2[x].live = ent[x].live /\ ent2[x].key = ent[x].key
          /\ ent2[x].bufs = ent[x].bufs /\ ent2[x].in_use_count = ent[x].in_use_count
    /\ \A b \in Blocks : blk2[b].live = blk[b].live /\ blk2[b].holds = blk[b].holds
    /\ \A b \in mine : blk2[b].entry = e
    /\ \A b \in Blocks : b \notin mine => blk2[b].entry = blk[b].entry

\* A new entry takes over the blocks of its client, which goes on using them.
LEMMA StoreSound ==
    ASSUME NEW tab, NEW ent, NEW blk, NEW at, NEW keys, NEW hold,
           Sound(tab, ent, blk, at, keys, hold), NEW c \in Clients, at[c] = "computed",
           NEW e \in Entries, ~ent[e].live,
           \A x \in Entries : ent[x].live => ent[x].key # keys[c],
           NEW tab2, NEW ent2, NEW blk2, NEW at2, Types(tab2, ent2, blk2, at2, keys, hold),
           Adds(tab, ent, blk, tab2, ent2, blk2, e, keys[c], hold[c]),
           at2[c] = "using", \A d \in Clients : d # c => at2[d] = at[d]
    PROVE  Sound(tab2, ent2, blk2, at2, keys, hold)
<1> USE DEF Adds
<1>1. /\ keys[c] \in Keys /\ hold[c] \subseteq Blocks
      /\ Cardinality(hold[c]) = Tuple[keys[c]]
      /\ \A b \in hold[c] : /\ blk[b].live /\ blk[b].holds = keys[c] /\ blk[b].entry = 0
                            /\ \A d \in Clients : b \in hold[d] => d = c
    BY DEF Sound, Types, Holdings, Holder
<1>2. /\ \A d \in Clients : hold[d] \subseteq Blocks
      /\ \A x \in Entries : ent[x].bufs \subseteq Blocks
      /\ ent[e].bufs = {} /\ \A b \in Blocks : blk[b].entry # e
    BY DEF Sound, Types, EntryType, Owns, Owner
<1>3. Homes(tab2, ent2)
    <2> SUFFICES ASSUME NEW x \in Entries
                 PROVE  /\ ent2[x].live => ent2[x].key \in Keys
                        /\ \A i \in Buckets : x \in tab2[i] <=> ent2[x].live /\ Index(ent2[x].key) = i
        BY DEF Homes
    <2>0. \A i \in Buckets : x \in tab2[i] <=> x \in tab[i] \/ (x = e /\ i = Index(keys[c]))
        OBVIOUS
    <2>1. /\ ent[x].live => ent[x].key \in Keys
          /\ \A i \in Buckets : x \in tab[i] <=> ent[x].live /\ Index(ent[x].key) = i
        BY DEF Sound, Homes
    <2>2. CASE x = e
        <3>1. ~ent[x].live /\ ent2[x].live /\ ent2[x].key = keys[c]
            BY <2>2
        <3> QED BY <1>1, <2>0, <2>1, <2>2, <3>1
    <2>3. CASE x # e
        <3>1. ent2[x].live = ent[x].live /\ ent2[x].key = ent[x].key
            BY <2>3
        <3> QED BY <2>0, <2>1, <2>3, <3>1
    <2> QED BY <2>2, <2>3
<1>4. Owns(ent2, blk2)
    <2> SUFFICES ASSUME NEW x \in Entries PROVE Owner(x, ent2, blk2)
        BY DEF Owns
    <2>1. CASE x = e
        BY <1>1, <1>2, <2>1 DEF Owner
    <2>2. CASE x # e
        <3>1. Owner(x, ent, blk) /\ \A b \in ent[x].bufs : b \in Blocks /\ b \notin hold[c]
            BY <1>1, <1>2, Constants DEF Sound, Owns, Owner
        <3> QED BY <1>1, <1>2, <2>2, <3>1, Constants DEF Owner
    <2> QED BY <2>1, <2>2
<1>5. Holdings(blk2, at2, keys, hold)
    <2> SUFFICES ASSUME NEW d \in Clients PROVE Holder(d, blk2, at2, keys, hold)
        BY DEF Holdings
    <2>1. CASE d = c
        BY <1>1, <2>1, Constants DEF Holder
    <2>2. CASE d # c
        <3>1. Holder(d, blk, at, keys, hold)
            BY DEF Sound, Holdings
        <3>2. \A b \in hold[d] : b \in Blocks /\ b \notin hold[c]
            BY <1>1, <1>2, <2>2
        <3> QED BY <2>2, <3>1, <3>2 DEF Holder
    <2> QED BY <2>1, <2>2
<1>6. NoOrphans(blk2, hold)
    BY <1>1, Constants DEF Sound, NoOrphans
<1>7. Counted(ent2, blk2, hold)
    <2> SUFFICES ASSUME NEW x \in Entries, ent2[x].live
                 PROVE  ent2[x].in_use_count = Cardinality(Users(x, blk2, hold))
        BY DEF Counted
    <2>1. CASE x # e
        <3>1. Users(x, blk2, hold) = Users(x, blk, hold)
            BY <1>1, <2>1, Constants DEF Users
        <3> QED BY <2>1, <3>1 DEF Sound, Counted
    <2>2. CASE x = e
        <3>1. Users(e, blk2, hold) = Pairs(c, hold[c])
            <4>1. ASSUME NEW p \in Users(e, blk2, hold) PROVE p \in Pairs(c, hold[c])
                <5>1. p \in Clients \X Blocks /\ p[2] \in hold[p[1]] /\ blk2[p[2]].entry = e
                    BY DEF Users
                <5>2. p[2] \in hold[c]
                    BY <1>2, <5>1
                <5>3. p[1] = c
                    BY <1>1, <5>1, <5>2
                <5> QED BY <5>1, <5>2, <5>3 DEF Pairs
            <4>2. ASSUME NEW p \in Pairs(c, hold[c]) PROVE p \in Users(e, blk2, hold)
                BY <1>1 DEF Users, Pairs
            <4> QED BY <4>1, <4>2
        <3>2. Cardinality(Pairs(c, hold[c])) = Cardinality(hold[c])
            <4>1. IsFiniteSet(hold[c])
                BY <1>1, Constants, FS_Subset
            <4> QED BY <4>1, PairsCounted
        <3> QED BY <1>1, <2>2, <3>1, <3>2
    <2> QED BY <2>1, <2>2
<1>8. Unique(ent2)
    BY DEF Sound, Unique
<1> QED BY <1>3, <1>4, <1>5, <1>6, <1>7, <1>8 DEF Sound

\* The last release of a block that no entry has frees it.
LEMMA FreedSound ==
    ASSUME NEW tab, NEW ent, NEW blk, NEW at, NEW keys, NEW hold,
           Sound(tab, ent, blk, at, keys, hold), NEW c \in Clients,
           at[c] \in {"using", "abandoned"}, NEW b \in hold[c], blk[b].entry = 0,
           NEW blk2, NEW at2, NEW hold2, Types(tab, ent, blk2, at2, keys, hold2),
           blk2[b] = NoBlock, \A x \in Blocks : x # b => blk2[x] = blk[x],
           hold2[c] = hold[c] \ {b}, at2[c] = IF hold[c] = {b} THEN "idle" ELSE at[c],
           \A d \in Clients : d # c => at2[d] = at[d] /\ hold2[d] = hold[d]
    PROVE  Sound(tab, ent, blk2, at2, keys, hold2)
<1>1. /\ NoBlock.live = FALSE /\ NoBlock.entry = 0
    BY DEF NoBlock
<1>2. /\ \A d \in Clients : hold[d] \subseteq Blocks
      /\ \A x \in Entries : ent[x].bufs \subseteq Blocks
      /\ \A d \in Clients : b \in hold[d] => d = c
      /\ \A x \in Entries : b \notin ent[x].bufs
    BY Constants DEF Sound, Types, EntryType, Owns, Owner, Holdings, Holder
<1>3. Owns(ent, blk2)
    <2> SUFFICES ASSUME NEW x \in Entries PROVE Owner(x, ent, blk2)
        BY DEF Owns
    <2>1. Owner(x, ent, blk)
        BY DEF Sound, Owns
    <2> QED BY <1>1, <1>2, <2>1, Constants DEF Owner
<1>4. Holdings(blk2, at2, keys, hold2)
    <2> SUFFICES ASSUME NEW d \in Clients PROVE Holder(d, blk2, at2, keys, hold2)
        BY DEF Holdings
    <2>1. Holder(d, blk, at, keys, hold)
        BY DEF Sound, Holdings
    <2>2. /\ b \notin hold2[d] /\ hold2[d] \subseteq hold[d]
          /\ \A x \in hold2[d] : blk2[x] = blk[x]
          /\ \A u \in Clients : hold2[u] \subseteq hold[u]
        BY <1>2
    <2>3. CASE d = c
        BY <2>1, <2>2, <2>3 DEF Holder
    <2>4. CASE d # c
        BY <2>1, <2>2, <2>4 DEF Holder
    <2> QED BY <2>3, <2>4
<1>5. NoOrphans(blk2, hold2)
    <2> SUFFICES ASSUME NEW x \in Blocks, blk2[x].live, blk2[x].entry = 0
                 PROVE  \E d \in Clients : x \in hold2[d]
        BY DEF NoOrphans
    <2>1. x # b /\ blk2[x] = blk[x]
        BY <1>1
    <2>2. PICK d \in Clients : x \in hold[d]
        BY <2>1 DEF Sound, NoOrphans
    <2>3. x \in hold2[d]
        BY <2>1, <2>2
    <2> QED BY <2>3
<1>6. Counted(ent, blk2, hold2)
    <2>1. ASSUME NEW x \in Entries PROVE Users(x, blk2, hold2) = Users(x, blk, hold)
        <3>1. \A d \in Clients, y \in Blocks :
                 (y \in hold2[d] /\ blk2[y].entry = x) <=> (y \in hold[d] /\ blk[y].entry = x)
            BY <1>1, <1>2, Constants
        <3> QED BY <3>1 DEF Users
    <2> QED BY <2>1 DEF Sound, Counted
<1> QED BY <1>3, <1>4, <1>5, <1>6 DEF Sound

\* The release of a block of an entry.
LEMMA ReleasedSound ==
    ASSUME NEW tab, NEW ent, NEW blk, NEW at, NEW keys, NEW hold,
           Sound(tab, ent, blk, at, keys, hold), NEW c \in Clients,
           at[c] \in {"using", "abandoned"}, NEW b \in hold[c],
           NEW e \in Entries, blk[b].entry = e,
           NEW ent2, NEW at2, NEW hold2,
           ent[e].in_use_count - 1 \in Nat => Types(tab, ent2, blk, at2, keys, hold2),
           \A x \in Entries : ent2[x].live = ent[x].live /\ ent2[x].key = ent[x].key
                              /\ ent2[x].bufs = ent[x].bufs,
           ent2[e].in_use_count = ent[e].in_use_count - 1,
           \A x \in Entries : x # e => ent2[x].in_use_count = ent[x].in_use_count,
           hold2[c] = hold[c] \ {b}, at2[c] = IF hold[c] = {b} THEN "idle" ELSE at[c],
           \A d \in Clients : d # c => at2[d] = at[d] /\ hold2[d] = hold[d]
    PROVE  Sound(tab, ent2, blk, at2, keys, hold2)
<1>1. /\ \A d \in Clients : hold[d] \subseteq Blocks
      /\ ent[e].live /\ ent[e].in_use_count \in Nat
      /\ e # 0
    BY Constants DEF Sound, Types, EntryType, Owns, Owner
<1> DEFINE u == Users(e, blk, hold)
<1>2. <<c, b>> \in u
    BY <1>1 DEF Users
<1>3. IsFiniteSet(u) /\ ent[e].in_use_count = Cardinality(u) /\ Cardinality(u) \in Nat
    BY <1>1, UsersFinite DEF Sound, Counted
<1>4. Users(e, blk, hold2) = u \ {<<c, b>>}
    <2>1. ASSUME NEW p \in Clients \X Blocks
          PROVE  p[2] \in hold2[p[1]] <=> (p[2] \in hold[p[1]] /\ p # <<c, b>>)
        <3>1. CASE p[1] = c
            <4>1. p # <<c, b>> <=> p[2] # b
                BY <3>1
            <4> QED BY <3>1, <4>1
        <3>2. CASE p[1] # c
            BY <3>2
        <3> QED BY <3>1, <3>2
    <2> QED BY <2>1 DEF Users
<1> HIDE DEF u
<1>5. Cardinality(u \ {<<c, b>>}) = Cardinality(u) - 1
    BY <1>2, <1>3, FS_RemoveElement
<1>6. ent[e].in_use_count - 1 \in Nat
    <2>1. Cardinality(u) # 0
        BY <1>2, <1>3, FS_EmptySet
    <2> QED BY <1>3, <2>1
<1>7. Homes(tab, ent2) /\ Owns(ent2, blk) /\ Unique(ent2)
    <2>1. Homes(tab, ent2)
        BY DEF Sound, Homes
    <2>2. Owns(ent2, blk)
        BY DEF Sound, Owns, Owner
    <2>3. Unique(ent2)
        BY DEF Sound, Unique
    <2> QED BY <2>1, <2>2, <2>3
<1>8. Holdings(blk, at2, keys, hold2)
    <2> SUFFICES ASSUME NEW d \in Clients PROVE Holder(d, blk, at2, keys, hold2)
        BY DEF Holdings
    <2>1. Holder(d, blk, at, keys, hold)
        BY DEF Sound, Holdings
    <2>2. \A v \in Clients : hold2[v] \subseteq hold[v]
        OBVIOUS
    <2>3. CASE d = c
        BY <2>1, <2>2, <2>3 DEF Holder
    <2>4. CASE d # c
        BY <2>1, <2>2, <2>4 DEF Holder
    <2> QED BY <2>3, <2>4
<1>9. NoOrphans(blk, hold2)
    <2> SUFFICES ASSUME NEW x \in Blocks, blk[x].live, blk[x].entry = 0
                 PROVE  \E d \in Clients : x \in hold2[d]
        BY DEF NoOrphans
    <2>1. x # b
        BY <1>1
    <2>2. PICK d \in Clients : x \in hold[d]
        BY DEF Sound, NoOrphans
    <2>3. x \in hold2[d]
        BY <2>1, <2>2
    <2> QED BY <2>3
<1>10. Counted(ent2, blk, hold2)
    <2> SUFFICES ASSUME NEW x \in Entries, ent2[x].live
                 PROVE  ent2[x].in_use_count = Cardinality(Users(x, blk, hold2))
        BY DEF Counted
    <2>1. CASE x = e
        BY <1>3, <1>4, <1>5, <2>1
    <2>2. CASE x # e
        <3>1. Users(x, blk, hold2) = Users(x, blk, hold)
            <4>1. \A d \in Clients, y \in Blocks :
                     (y \in hold2[d] /\ blk[y].entry = x) <=> (y \in hold[d] /\ blk[y].entry = x)
                BY <2>2
            <4> QED BY <4>1 DEF Users
        <3> QED BY <2>2, <3>1 DEF Sound, Counted
    <2> QED BY <2>1, <2>2
<1> QED BY <1>6, <1>7, <1>8, <1>9, <1>10 DEF Sound

\* What malloc returns n times: n different blocks that were free.
LEMMA BlocksFor ==
    ASSUME NEW n \in Nat, Cardinality(FreeBlocks) >= n
    PROVE  /\ FirstBlocks(n) \in [1..n -> FreeBlocks]
           /\ Range(FirstBlocks(n)) \subseteq FreeBlocks
           /\ Cardinality(Range(FirstBlocks(n))) = n
<1> DEFINE N == Cardinality(FreeBlocks)
           f == FirstBlocks(n)
<1>1. N \in Nat /\ ExistsBijection(1..N, FreeBlocks)
    <2>1. FreeBlocks \subseteq Blocks
        BY DEF FreeBlocks
    <2>2. IsFiniteSet(FreeBlocks)
        BY <2>1, Constants, FS_Subset
    <2> QED BY <2>2, FS_CardinalityType
<1>2. PICK g : g \in Bijection(1..N, FreeBlocks)
    BY <1>1 DEF ExistsBijection
<1>3. [i \in 1..n |-> g[i]] \in Injection(1..n, FreeBlocks)
    <2>1. g \in [1..N -> FreeBlocks] /\ IsInjective(g)
        BY <1>2 DEF Bijection, Injection
    <2>2. 1..n \subseteq 1..N
        BY <1>1
    <2> HIDE DEF N
    <2> QED BY <2>1, <2>2 DEF Injection, IsInjective
<1>4. f \in Injection(1..n, FreeBlocks)
    BY <1>3 DEF FirstBlocks
<1>5. f \in [1..n -> FreeBlocks] /\ IsInjective(f)
    BY <1>4 DEF Injection
<1> HIDE DEF f
<1>6. Range(f) \subseteq FreeBlocks
    BY <1>5 DEF Range
<1>7. f \in Bijection(1..n, Range(f))
    BY <1>5 DEF Range, Bijection, Injection, Surjection
<1>8. ExistsBijection(1..n, Range(f))
    BY <1>7 DEF ExistsBijection
<1>9. Cardinality(Range(f)) = n
    BY <1>8, FS_CountingElements
<1> QED BY <1>5, <1>6, <1>9 DEF f

LEMMA LookupMissIInv ==
    ASSUME IInv, NEW c \in Clients, NEW k \in Keys, LookupMiss(c, k)
    PROVE  IInv'
<1> DEFINE got == Range(FirstBlocks(Tuple[k]))
<1>1. /\ pc[c] = "idle" /\ Cardinality(FreeBlocks) >= Tuple[k]
      /\ block' = [b \in Blocks |-> IF b \in got
                                    THEN [live |-> TRUE, entry |-> 0, holds |-> 0]
                                    ELSE block[b]]
      /\ held' = [held EXCEPT ![c] = got]
      /\ key' = [key EXCEPT ![c] = k] /\ pc' = [pc EXCEPT ![c] = "miss"]
      /\ table' = table /\ entry' = entry
      /\ most_recently_used' = most_recently_used /\ least_recently_used' = least_recently_used
    BY DEF LookupMiss
<1>2. /\ Types(table, entry, block, pc, key, held)
      /\ most_recently_used \in Entries \cup {0} /\ least_recently_used \in Entries \cup {0}
      /\ Sound(table, entry, block, pc, key, held)
    BY DEF IInv, Sound
<1>3. Tuple[k] \in Nat
    BY Constants
<1>4. got \subseteq FreeBlocks /\ Cardinality(got) = Tuple[k]
    BY <1>1, <1>3, BlocksFor
<1> HIDE DEF got
<1>5. got \in SUBSET Blocks /\ \A b \in got : ~block[b].live
    BY <1>4 DEF FreeBlocks
<1>6. /\ \A b \in got : block'[b].live /\ block'[b].entry = 0
      /\ \A b \in Blocks : b \notin got => block'[b] = block[b]
      /\ block' \in [Blocks -> BlockType]
    <2> DEFINE new == [live |-> TRUE, entry |-> 0, holds |-> 0]
    <2>1. new \in BlockType /\ new.live = TRUE /\ new.entry = 0
        BY DEF BlockType
    <2>2. block' = [b \in Blocks |-> IF b \in got THEN new ELSE block[b]]
        BY <1>1
    <2> HIDE DEF new
    <2> QED BY <1>2, <1>5, <2>1, <2>2 DEF Types
<1>7. /\ pc'[c] = "miss" /\ key'[c] = k /\ held'[c] = got
      /\ \A d \in Clients : d # c => pc'[d] = pc[d] /\ key'[d] = key[d] /\ held'[d] = held[d]
    BY <1>1, <1>2 DEF Types
<1>8. Types(table, entry, block', pc', key', held')
    BY <1>1, <1>2, <1>5, <1>6 DEF Types, Places
<1>9. Sound(table, entry, block', pc', key', held')
    <2>1. pc[c] = "idle" /\ key'[c] \in Keys /\ Cardinality(got) = Tuple[key'[c]]
        BY <1>1, <1>4, <1>7
    <2> QED BY <1>2, <1>5, <1>6, <1>7, <1>8, <2>1, MissSound
<1> QED BY <1>1, <1>2, <1>9, SoundAfter

LEMMA LookupFailsIInv ==
    ASSUME IInv, NEW c \in Clients, NEW k \in Keys, LookupFails(c, k)
    PROVE  IInv'
<1>1. PICK n \in 0..(Tuple[k] - 1) :
          /\ Cardinality(FreeBlocks) >= n
          /\ LET got == FirstBlocks(n)
                 leaked == Range(got) \ FreedOnFailure(got, n)
             IN  block' = [b \in Blocks |-> IF b \in leaked
                                            THEN [live |-> TRUE, entry |-> 0, holds |-> 0]
                                            ELSE block[b]]
    BY DEF LookupFails
<1>2. /\ pc[c] = "idle" /\ pc' = [pc EXCEPT ![c] = "error"]
      /\ table' = table /\ entry' = entry /\ key' = key /\ held' = held
      /\ most_recently_used' = most_recently_used /\ least_recently_used' = least_recently_used
    BY DEF LookupFails
<1>3. /\ block \in [Blocks -> BlockType] /\ pc \in [Clients -> Places]
      /\ most_recently_used \in Entries \cup {0} /\ least_recently_used \in Entries \cup {0}
      /\ Sound(table, entry, block, pc, key, held)
    BY DEF IInv, Sound, Types
<1>4. n \in Nat
    BY Constants
<1>5. Range(FirstBlocks(n)) \ FreedOnFailure(FirstBlocks(n), n) = {}
    <2>1. FirstBlocks(n) \in [1..n -> FreeBlocks]
        BY <1>1, <1>4, BlocksFor
    <2> QED BY <2>1 DEF Range, FreedOnFailure
<1>6. block' = block
    <2>1. block' = [b \in Blocks |-> IF b \in {} THEN [live |-> TRUE, entry |-> 0, holds |-> 0]
                                     ELSE block[b]]
        BY <1>1, <1>5
    <2> QED BY <1>3, <2>1
<1>7. pc' \in [Clients -> Places] /\ pc'[c] = "error" /\ \A d \in Clients : d # c => pc'[d] = pc[d]
    BY <1>2, <1>3 DEF Places
<1>8. Sound(table, entry, block, pc', key, held)
    BY <1>2, <1>3, <1>7, MoveSound
<1> QED BY <1>2, <1>3, <1>6, <1>8, SoundAfter

LEMMA FailIInv ==
    ASSUME IInv, NEW c \in Clients, Fail(c)
    PROVE  IInv'
<1>1. /\ pc[c] = "error" /\ pc' = [pc EXCEPT ![c] = "idle"]
      /\ table' = table /\ entry' = entry /\ block' = block /\ key' = key /\ held' = held
      /\ most_recently_used' = most_recently_used /\ least_recently_used' = least_recently_used
    BY DEF Fail, cacheVars
<1>2. /\ pc \in [Clients -> Places]
      /\ most_recently_used \in Entries \cup {0} /\ least_recently_used \in Entries \cup {0}
      /\ Sound(table, entry, block, pc, key, held)
    BY DEF IInv, Sound, Types
<1>3. pc' \in [Clients -> Places] /\ pc'[c] = "idle" /\ \A d \in Clients : d # c => pc'[d] = pc[d]
    BY <1>1, <1>2 DEF Places
<1>4. Sound(table, entry, block, pc', key, held)
    BY <1>1, <1>2, <1>3, MoveSound
<1> QED BY <1>1, <1>2, <1>4, SoundAfter

LEMMA AbandonIInv ==
    ASSUME IInv, NEW c \in Clients, Abandon(c)
    PROVE  IInv'
<1>1. /\ pc[c] = "miss" /\ pc' = [pc EXCEPT ![c] = "abandoned"]
      /\ table' = table /\ entry' = entry /\ block' = block /\ key' = key /\ held' = held
      /\ most_recently_used' = most_recently_used /\ least_recently_used' = least_recently_used
    BY DEF Abandon, cacheVars
<1>2. /\ pc \in [Clients -> Places]
      /\ most_recently_used \in Entries \cup {0} /\ least_recently_used \in Entries \cup {0}
      /\ Sound(table, entry, block, pc, key, held)
    BY DEF IInv, Sound, Types
<1>3. /\ pc' \in [Clients -> Places] /\ pc'[c] = "abandoned"
      /\ \A d \in Clients : d # c => pc'[d] = pc[d]
    BY <1>1, <1>2 DEF Places
<1>4. Sound(table, entry, block, pc', key, held)
    BY <1>1, <1>2, <1>3, MoveSound
<1> QED BY <1>1, <1>2, <1>4, SoundAfter

LEMMA ComputeIInv ==
    ASSUME IInv, NEW c \in Clients, Compute(c)
    PROVE  IInv'
<1>1. /\ pc[c] = "miss" /\ pc' = [pc EXCEPT ![c] = "computed"]
      /\ block' = [b \in Blocks |-> IF b \in held[c] THEN [block[b] EXCEPT !.holds = key[c]]
                                    ELSE block[b]]
      /\ table' = table /\ entry' = entry /\ key' = key /\ held' = held
      /\ most_recently_used' = most_recently_used /\ least_recently_used' = least_recently_used
    BY DEF Compute
<1>2. /\ Types(table, entry, block, pc, key, held)
      /\ most_recently_used \in Entries \cup {0} /\ least_recently_used \in Entries \cup {0}
      /\ Sound(table, entry, block, pc, key, held)
    BY DEF IInv, Sound
<1>3. /\ pc' \in [Clients -> Places] /\ pc'[c] = "computed"
      /\ \A d \in Clients : d # c => pc'[d] = pc[d]
    BY <1>1, <1>2 DEF Types, Places
<1>4. ASSUME NEW b \in Blocks
      PROVE  /\ block'[b] \in BlockType
             /\ block'[b].live = block[b].live /\ block'[b].entry = block[b].entry
             /\ b \in held[c] => block'[b].holds = key[c]
             /\ b \notin held[c] => block'[b].holds = block[b].holds
    <2>1. block[b] \in BlockType /\ key[c] \in Keys \cup {0}
        BY <1>2 DEF Types
    <2>2. /\ [block[b] EXCEPT !.holds = key[c]] \in BlockType
          /\ [block[b] EXCEPT !.holds = key[c]].live = block[b].live
          /\ [block[b] EXCEPT !.holds = key[c]].entry = block[b].entry
          /\ [block[b] EXCEPT !.holds = key[c]].holds = key[c]
        BY <2>1 DEF BlockType
    <2>3. block'[b] = IF b \in held[c] THEN [block[b] EXCEPT !.holds = key[c]] ELSE block[b]
        BY <1>1
    <2> QED BY <2>1, <2>2, <2>3
<1>5. block' \in [Blocks -> BlockType]
    <2>1. block' = [b \in Blocks |-> block'[b]]
        BY <1>1
    <2> QED BY <1>4, <2>1
<1>6. Types(table, entry, block', pc', key, held)
    BY <1>2, <1>3, <1>5 DEF Types
<1>7. \A b \in held[c] : b \in Blocks
    BY <1>2 DEF Types
<1>8. Sound(table, entry, block', pc', key, held)
    <2>1. /\ \A b \in Blocks : block'[b].live = block[b].live /\ block'[b].entry = block[b].entry
          /\ \A b \in held[c] : block'[b].holds = key[c]
          /\ \A b \in Blocks : b \notin held[c] => block'[b].holds = block[b].holds
        BY <1>4, <1>7
    <2>2. pc[c] = "miss"
        BY <1>1
    <2>3. Sound(table, entry, block, pc, key, held)
        BY <1>2
    <2> QED BY <1>3, <1>6, <2>1, <2>2, <2>3, ComputeSound
<1> QED BY <1>1, <1>2, <1>8, SoundAfter

-----------------------------------------------------------------------------
LEMMA CurrentPrunes ==
    ASSUME IInv, NEW size
    PROVE  Prunes(Current(size), entry, pc, key, held)
<1>1. /\ Current(size).table = table /\ Current(size).entry = entry
      /\ Current(size).most = most_recently_used /\ Current(size).least = least_recently_used
      /\ Current(size).block = block /\ IsCache(Current(size))
    BY DEF Current, IsCache
<1> QED BY <1>1 DEF IInv, Prunes

LEMMA SetSizeIInv ==
    ASSUME IInv, NEW size, SetSize(size)
    PROVE  IInv'
<1> DEFINE max == IF size = 0 THEN kDefaultCacheSize ELSE size
           s == PruneCache(Current(current_cache_size), max)
<1>1. Becomes(s) /\ pc' = pc /\ key' = key /\ held' = held
    BY DEF SetSize, clientVars
<1>2. Prunes(s, entry, pc, key, held)
    BY CurrentPrunes, PruneCacheSound
<1> HIDE DEF s
<1> QED BY <1>1, <1>2, SoundAfter DEF Becomes, Prunes

\* The blocks of a client that has not stored them have no entry.
LEMMA NothingDisowned ==
    ASSUME NEW tab, NEW ent, NEW blk, NEW at, NEW keys, NEW hold,
           Sound(tab, ent, blk, at, keys, hold), NEW c \in Clients, at[c] = "computed"
    PROVE  Disowned(blk, hold[c]) = blk
<1>1. blk \in [Blocks -> BlockType] /\ \A b \in hold[c] : blk[b].entry = 0
    BY DEF Sound, Types, Holdings, Holder
<1>2. ASSUME NEW b \in Blocks, b \in hold[c] PROVE [blk[b] EXCEPT !.entry = 0] = blk[b]
    BY <1>1, <1>2 DEF BlockType
<1> QED BY <1>1, <1>2 DEF Disowned

LEMMA StoreFoundIInv ==
    ASSUME IInv, NEW c \in Clients, StoreFound(c)
    PROVE  IInv'
<1>1. /\ pc[c] = "computed" /\ pc' = [pc EXCEPT ![c] = "using"]
      /\ block' = Disowned(block, held[c])
      /\ table' = table /\ entry' = entry /\ key' = key /\ held' = held
      /\ most_recently_used' = most_recently_used /\ least_recently_used' = least_recently_used
    BY DEF StoreFound
<1>2. /\ pc \in [Clients -> Places]
      /\ most_recently_used \in Entries \cup {0} /\ least_recently_used \in Entries \cup {0}
      /\ Sound(table, entry, block, pc, key, held)
    BY DEF IInv, Sound, Types
<1>3. /\ pc' \in [Clients -> Places] /\ pc'[c] = "using"
      /\ \A d \in Clients : d # c => pc'[d] = pc[d]
    BY <1>1, <1>2 DEF Places
<1>4. block' = block
    BY <1>1, <1>2, NothingDisowned
<1>5. Sound(table, entry, block, pc', key, held)
    BY <1>1, <1>2, <1>3, MoveSound
<1> QED BY <1>1, <1>2, <1>4, <1>5, SoundAfter

LEMMA StoreFailsIInv ==
    ASSUME IInv, NEW c \in Clients, StoreFails(c)
    PROVE  IInv'
<1> DEFINE s == WithRoom(c)
           t == [s EXCEPT !.size = @ - Bytes[key[c]], !.block = Disowned(@, held[c])]
<1>1. /\ pc[c] = "computed" /\ pc' = [pc EXCEPT ![c] = "using"]
      /\ key' = key /\ held' = held /\ Becomes(t)
    BY DEF StoreFails
<1>2. Prunes(s, entry, pc, key, held)
    BY CurrentPrunes, PruneCacheSound DEF WithRoom, Grown
<1> HIDE DEF s
<1>3. /\ t.table = s.table /\ t.entry = s.entry /\ t.most = s.most /\ t.least = s.least
      /\ t.block = Disowned(s.block, held[c])
    BY <1>2 DEF Prunes, IsCache
<1> HIDE DEF t
<1>4. /\ s.most \in Entries \cup {0} /\ s.least \in Entries \cup {0}
      /\ Sound(s.table, s.entry, s.block, pc, key, held)
    BY <1>2 DEF Prunes
<1>5. t.block = s.block
    BY <1>1, <1>3, <1>4, NothingDisowned
<1>6. /\ pc' \in [Clients -> Places] /\ pc'[c] = "using"
      /\ \A d \in Clients : d # c => pc'[d] = pc[d]
    BY <1>1, <1>4 DEF Sound, Types, Places
<1>7. Sound(s.table, s.entry, s.block, pc', key, held)
    BY <1>1, <1>4, <1>6, MoveSound
<1>8. /\ most_recently_used' = s.most /\ least_recently_used' = s.least
      /\ table' = s.table /\ entry' = s.entry /\ block' = s.block
    BY <1>1, <1>3, <1>5 DEF Becomes
<1> QED BY <1>1, <1>4, <1>7, <1>8, SoundAfter

LEMMA InsertedFields ==
    ASSUME NEW s, IsCache(s), s.table \in [Buckets -> SUBSET Entries],
           s.entry \in [Entries -> EntryType], s.block \in [Blocks -> BlockType],
           s.most \in Entries \cup {0}, s.least \in Entries \cup {0},
           NEW e \in Entries, NEW k \in Keys, NEW mine \in SUBSET Blocks,
           NEW t, t = Inserted(s, e, k, mine)
    PROVE  /\ t.most \in Entries \cup {0} /\ t.least \in Entries \cup {0}
           /\ t.table \in [Buckets -> SUBSET Entries] /\ t.entry \in [Entries -> EntryType]
           /\ t.block \in [Blocks -> BlockType]
           /\ Adds(s.table, s.entry, s.block, t.table, t.entry, t.block, e, k, mine)
<1> DEFINE new == [live |-> TRUE, key |-> k, in_use_count |-> Tuple[k],
                   more_recent |-> 0, less_recent |-> s.most, bufs |-> mine]
           newer(x) == [s.entry[x] EXCEPT !.more_recent = e]
           mark(b) == [s.block[b] EXCEPT !.entry = e]
<1>1. /\ t.table = [s.table EXCEPT ![Index(k)] = @ \cup {e}]
      /\ t.entry = [x \in Entries |-> IF x = e THEN new
                                      ELSE IF x = s.most THEN newer(x) ELSE s.entry[x]]
      /\ t.most = e /\ t.least = (IF s.least = 0 THEN e ELSE s.least)
      /\ t.block = [b \in Blocks |-> IF b \in mine THEN mark(b) ELSE s.block[b]]
    <2>1. PICK tab, ent, most, least, size, blk :
              s = [table |-> tab, entry |-> ent, most |-> most,
                   least |-> least, size |-> size, block |-> blk]
        BY DEF IsCache
    <2>2. /\ s.table = tab /\ s.entry = ent /\ s.most = most /\ s.least = least /\ s.block = blk
        BY <2>1
    <2>3. t.table = [tab EXCEPT ![Index(k)] = @ \cup {e}]
        BY <2>1, <2>2 DEF Inserted
    <2>4. t.entry = [x \in Entries |-> IF x = e THEN new
                                      ELSE IF x = s.most THEN newer(x) ELSE s.entry[x]]
        BY <2>1, <2>2 DEF Inserted
    <2>5. t.most = e /\ t.least = (IF s.least = 0 THEN e ELSE s.least)
        BY <2>1, <2>2 DEF Inserted
    <2>6. t.block = [b \in Blocks |-> IF b \in mine THEN mark(b) ELSE s.block[b]]
        BY <2>1, <2>2 DEF Inserted
    <2> QED BY <2>2, <2>3, <2>4, <2>5, <2>6
<1>2. t.most \in Entries \cup {0} /\ t.least \in Entries \cup {0}
    BY <1>1
<1>3. /\ t.table \in [Buckets -> SUBSET Entries]
      /\ \A i \in Buckets, x \in Entries :
            x \in t.table[i] <=> x \in s.table[i] \/ (x = e /\ i = Index(k))
    <2>1. PICK j, T : j = Index(k) /\ T = s.table
        OBVIOUS
    <2>2. t.table = [T EXCEPT ![j] = T[j] \cup {e}] /\ T \in [Buckets -> SUBSET Entries] /\ j \in Buckets
        BY <1>1, <2>1, Constants
    <2>3. t.table \in [Buckets -> SUBSET Entries]
        BY <2>2
    <2>4. \A i \in Buckets, x \in Entries : x \in t.table[i] <=> x \in T[i] \/ (x = e /\ i = j)
        BY <2>2
    <2> QED BY <2>1, <2>3, <2>4
<1>4. /\ new \in EntryType /\ new.live /\ new.key = k /\ new.bufs = mine
      /\ new.in_use_count = Tuple[k]
    <2>1. Tuple[k] \in Nat
        BY Constants
    <2> QED BY <2>1 DEF EntryType
<1>5. ASSUME NEW x \in Entries
      PROVE  /\ newer(x) \in EntryType
             /\ newer(x).live = s.entry[x].live /\ newer(x).key = s.entry[x].key
             /\ newer(x).bufs = s.entry[x].bufs
             /\ newer(x).in_use_count = s.entry[x].in_use_count
    <2>1. s.entry[x] \in EntryType
        OBVIOUS
    <2> QED BY <2>1 DEF EntryType
<1>6. ASSUME NEW b \in Blocks
      PROVE  /\ mark(b) \in BlockType /\ mark(b).live = s.block[b].live
             /\ mark(b).holds = s.block[b].holds /\ mark(b).entry = e
    <2>1. s.block[b] \in BlockType
        OBVIOUS
    <2> QED BY <2>1 DEF BlockType
<1> HIDE DEF new, newer, mark
<1>7. /\ t.entry \in [Entries -> EntryType]
      /\ t.entry[e].live /\ t.entry[e].key = k /\ t.entry[e].bufs = mine
      /\ t.entry[e].in_use_count = Tuple[k]
      /\ \A x \in Entries : x # e =>
            /\ t.entry[x].live = s.entry[x].live /\ t.entry[x].key = s.entry[x].key
            /\ t.entry[x].bufs = s.entry[x].bufs
            /\ t.entry[x].in_use_count = s.entry[x].in_use_count
    BY <1>1, <1>4, <1>5
<1>8. /\ t.block \in [Blocks -> BlockType]
      /\ \A b \in Blocks : t.block[b].live = s.block[b].live /\ t.block[b].holds = s.block[b].holds
      /\ \A b \in mine : t.block[b].entry = e
      /\ \A b \in Blocks : b \notin mine => t.block[b].entry = s.block[b].entry
    BY <1>1, <1>6
<1>9. Adds(s.table, s.entry, s.block, t.table, t.entry, t.block, e, k, mine)
    BY <1>3, <1>7, <1>8 DEF Adds
<1> QED BY <1>2, <1>3, <1>7, <1>8, <1>9

LEMMA NoneStored ==
    ASSUME IInv, NEW k \in Keys, ~Stored(k), NEW x \in Entries, entry[x].live
    PROVE  entry[x].key # k
<1>1. Index(k) \in Buckets
    BY Constants
<1>2. entry[x].key = k => x \in table[Index(k)]
    BY <1>1 DEF IInv, Sound, Homes
<1> QED BY <1>2 DEF Stored, Found, Matches

LEMMA StoreNewIInv ==
    ASSUME IInv, NEW c \in Clients, StoreNew(c)
    PROVE  IInv'
<1> DEFINE s == WithRoom(c)
           e == CHOOSE x \in FreeEntries(s.entry) : TRUE
           k == key[c]
           t == Inserted(s, e, k, held[c])
<1>1. /\ pc[c] = "computed" /\ pc' = [pc EXCEPT ![c] = "using"] /\ ~Stored(k)
      /\ key' = key /\ held' = held /\ FreeEntries(s.entry) # {} /\ Becomes(t)
    BY DEF StoreNew
<1>2. Prunes(s, entry, pc, key, held)
    BY CurrentPrunes, PruneCacheSound DEF WithRoom, Grown
<1>3. e \in Entries /\ ~s.entry[e].live
    <2>1. e \in FreeEntries(s.entry)
        BY <1>1
    <2> QED BY <2>1 DEF FreeEntries
<1> HIDE DEF s, e
<1>4. /\ s.most \in Entries \cup {0} /\ s.least \in Entries \cup {0} /\ IsCache(s)
      /\ Sound(s.table, s.entry, s.block, pc, key, held)
      /\ s.table \in [Buckets -> SUBSET Entries] /\ s.entry \in [Entries -> EntryType]
      /\ s.block \in [Blocks -> BlockType] /\ held[c] \in SUBSET Blocks
      /\ pc \in [Clients -> Places]
    BY <1>2 DEF Prunes, Sound, Types
<1>5. k \in Keys
    BY <1>1, <1>4 DEF Sound, Holdings, Holder
<1>6. \A x \in Entries : s.entry[x].live => s.entry[x].key # k
    <2>1. \A x \in Entries : entry[x].live => entry[x].key # k
        BY <1>1, <1>5, NoneStored
    <2> QED BY <1>2, <2>1 DEF Prunes
<1> HIDE DEF k, t
<1>7. /\ t.most \in Entries \cup {0} /\ t.least \in Entries \cup {0}
      /\ t.table \in [Buckets -> SUBSET Entries] /\ t.entry \in [Entries -> EntryType]
      /\ t.block \in [Blocks -> BlockType]
      /\ Adds(s.table, s.entry, s.block, t.table, t.entry, t.block, e, k, held[c])
    <2>1. t = Inserted(s, e, k, held[c])
        BY DEF t
    <2> QED BY <1>3, <1>4, <1>5, <2>1, InsertedFields
<1>8. /\ pc' \in [Clients -> Places] /\ pc'[c] = "using"
      /\ \A d \in Clients : d # c => pc'[d] = pc[d]
    BY <1>1, <1>4 DEF Places
<1>9. Types(t.table, t.entry, t.block, pc', key, held)
    BY <1>4, <1>7, <1>8 DEF Sound, Types
<1>10. Sound(t.table, t.entry, t.block, pc', key, held)
    <2>1. pc[c] = "computed" /\ k = key[c]
        BY <1>1 DEF k
    <2>2. Sound(s.table, s.entry, s.block, pc, key, held)
        BY <1>4
    <2>3. Adds(s.table, s.entry, s.block, t.table, t.entry, t.block, e, key[c], held[c])
        BY <1>7, <2>1
    <2>4. \A x \in Entries : s.entry[x].live => s.entry[x].key # key[c]
        BY <1>6, <2>1
    <2> QED BY <1>3, <1>8, <1>9, <2>1, <2>2, <2>3, <2>4, StoreSound
<1> QED BY <1>1, <1>7, <1>10, SoundAfter DEF Becomes

-----------------------------------------------------------------------------
LEMMA ReleaseIInv ==
    ASSUME IInv, NEW c \in Clients, NEW b \in Blocks, Release(c, b)
    PROVE  IInv'
<1> DEFINE e == block[b].entry
<1>1. /\ pc[c] \in {"using", "abandoned"} /\ b \in held[c]
      /\ held' = [held EXCEPT ![c] = @ \ {b}]
      /\ pc' = [pc EXCEPT ![c] = IF held[c] = {b} THEN "idle" ELSE @]
      /\ table' = table /\ key' = key
      /\ most_recently_used' = most_recently_used /\ least_recently_used' = least_recently_used
    BY DEF Release
<1>2. /\ Types(table, entry, block, pc, key, held)
      /\ most_recently_used \in Entries \cup {0} /\ least_recently_used \in Entries \cup {0}
      /\ Sound(table, entry, block, pc, key, held)
    BY DEF IInv, Sound
<1>3. /\ pc' \in [Clients -> Places] /\ held' \in [Clients -> SUBSET Blocks]
      /\ held'[c] = held[c] \ {b} /\ pc'[c] = (IF held[c] = {b} THEN "idle" ELSE pc[c])
      /\ \A d \in Clients : d # c => pc'[d] = pc[d] /\ held'[d] = held[d]
    BY <1>1, <1>2 DEF Types, Places
<1>4. CASE e = 0
    <2>1. block' = [block EXCEPT ![b] = NoBlock] /\ entry' = entry
        BY <1>4 DEF Release
    <2>2. NoBlock \in BlockType
        BY DEF NoBlock, BlockType
    <2>3. /\ block' \in [Blocks -> BlockType] /\ block'[b] = NoBlock
          /\ \A x \in Blocks : x # b => block'[x] = block[x]
        BY <1>2, <2>1, <2>2 DEF Types
    <2>4. Types(table, entry, block', pc', key, held')
        BY <1>2, <1>3, <2>3 DEF Types
    <2>5. Sound(table, entry, block', pc', key, held')
        <3>1. pc[c] \in {"using", "abandoned"} /\ b \in held[c] /\ block[b].entry = 0
            BY <1>1, <1>4
        <3>2. Sound(table, entry, block, pc, key, held)
            BY <1>2
        <3> QED BY <1>3, <2>3, <2>4, <3>1, <3>2, FreedSound
    <2> QED BY <1>1, <1>2, <2>1, <2>5, SoundAfter
<1>5. CASE e # 0
    <2>1. entry' = [entry EXCEPT ![e].in_use_count = @ - 1] /\ block' = block
        BY <1>5 DEF Release
    <2>2. e \in Entries
        BY <1>2, <1>5 DEF Types, BlockType
    <2> HIDE DEF e
    <2> DEFINE n == entry[e].in_use_count - 1
               y == [entry[e] EXCEPT !.in_use_count = n]
    <2>3. entry \in [Entries -> EntryType] /\ entry[e] \in EntryType
        BY <1>2, <2>2 DEF Types
    <2>4. /\ y.live = entry[e].live /\ y.key = entry[e].key /\ y.bufs = entry[e].bufs
          /\ y.in_use_count = n /\ (n \in Nat => y \in EntryType)
        <3> HIDE DEF n
        <3> QED BY <2>3 DEF EntryType
    <2>5. entry' = [entry EXCEPT ![e] = y]
        BY <2>1
    <2> HIDE DEF y, n
    <2>6. /\ \A x \in Entries : entry'[x].live = entry[x].live /\ entry'[x].key = entry[x].key
                                /\ entry'[x].bufs = entry[x].bufs
          /\ entry'[e].in_use_count = n
          /\ \A x \in Entries : x # e => entry'[x].in_use_count = entry[x].in_use_count
          /\ n \in Nat => entry' \in [Entries -> EntryType]
        BY <2>2, <2>3, <2>4, <2>5
    <2>7. n \in Nat => Types(table, entry', block, pc', key, held')
        BY <1>2, <1>3, <2>6 DEF Types
    <2>8. Sound(table, entry', block, pc', key, held')
        <3>1. pc[c] \in {"using", "abandoned"} /\ b \in held[c] /\ block[b].entry = e
            BY <1>1 DEF e
        <3>2. Sound(table, entry, block, pc, key, held)
            BY <1>2
        <3>3. n = entry[e].in_use_count - 1
            BY DEF n
        <3> QED BY <1>3, <2>2, <2>6, <2>7, <3>1, <3>2, <3>3, ReleasedSound
    <2> QED BY <1>1, <1>2, <2>1, <2>8, SoundAfter
<1> QED BY <1>4, <1>5

\* At the end of the program nobody holds a block, and all entries go.
LEMMA CleanupIInv ==
    ASSUME IInv, Cleanup
    PROVE  IInv'
<1> DEFINE gone == UNION {table[i] : i \in Buckets}
           freed == UNION {entry[e].bufs : e \in gone}
           left(e) == [entry[e] EXCEPT !.live = FALSE, !.bufs = {}]
<1>1. /\ \A c \in Clients : pc[c] = "idle"
      /\ table' = [i \in Buckets |-> {}]
      /\ entry' = [e \in Entries |-> IF e \in gone THEN left(e) ELSE entry[e]]
      /\ block' = [b \in Blocks |-> IF b \in freed THEN NoBlock ELSE block[b]]
      /\ pc' = pc /\ key' = key /\ held' = held
      /\ most_recently_used' = most_recently_used /\ least_recently_used' = least_recently_used
    BY DEF Cleanup, clientVars
<1>2. /\ Types(table, entry, block, pc, key, held)
      /\ most_recently_used \in Entries \cup {0} /\ least_recently_used \in Entries \cup {0}
      /\ Sound(table, entry, block, pc, key, held)
    BY DEF IInv, Sound
<1>3. ASSUME NEW e \in Entries PROVE e \in gone <=> entry[e].live
    <2>1. \A i \in Buckets : e \in table[i] <=> entry[e].live /\ Index(entry[e].key) = i
        BY <1>2 DEF Sound, Homes
    <2>2. entry[e].live => Index(entry[e].key) \in Buckets
        BY <1>2, Constants DEF Sound, Homes
    <2> QED BY <2>1, <2>2
<1>4. gone \subseteq Entries
    BY <1>2 DEF Types
<1>5. ASSUME NEW b \in Blocks PROVE b \in freed <=> block[b].live
    <2>1. \A e \in Entries : Owner(e, entry, block)
        BY <1>2 DEF Sound, Owns
    <2>2. ASSUME b \in freed PROVE block[b].live
        <3>1. PICK e \in gone : b \in entry[e].bufs
            BY <2>2
        <3> QED BY <1>4, <2>1, <3>1 DEF Owner
    <2>3. ASSUME block[b].live PROVE b \in freed
        <3>1. \A c \in Clients : held[c] = {}
            BY <1>1, <1>2 DEF Sound, Holdings, Holder
        <3>2. block[b].entry # 0
            BY <1>2, <2>3, <3>1 DEF Sound, NoOrphans
        <3>3. block[b].entry \in Entries
            BY <1>2, <3>2 DEF Types, BlockType
        <3>4. PICK e \in Entries : block[b].entry = e
            BY <3>3
        <3>5. b \in entry[e].bufs /\ entry[e].live
            BY <2>1, <3>4 DEF Owner
        <3> QED BY <1>3, <3>5
    <2> QED BY <2>2, <2>3
<1>6. ASSUME NEW e \in Entries
      PROVE  left(e) \in EntryType /\ ~left(e).live /\ left(e).bufs = {}
    <2>1. entry[e] \in EntryType
        BY <1>2 DEF Types
    <2> QED BY <2>1 DEF EntryType
<1> HIDE DEF gone, freed, left
<1>7. /\ entry' \in [Entries -> EntryType]
      /\ \A e \in Entries : ~entry'[e].live /\ entry'[e].bufs = {}
    <2>1. \A e \in Entries : ~entry[e].live => entry[e].bufs = {}
        BY <1>2 DEF Sound, Owns, Owner
    <2> QED BY <1>1, <1>2, <1>3, <1>6, <2>1 DEF Types
<1>8. /\ block' \in [Blocks -> BlockType]
      /\ \A b \in Blocks : ~block'[b].live /\ \A e \in Entries : block'[b].entry # e
    <2>1. NoBlock \in BlockType /\ NoBlock.live = FALSE /\ NoBlock.entry = 0
        BY DEF NoBlock, BlockType
    <2>2. ASSUME NEW b \in Blocks, ~block[b].live PROVE \A e \in Entries : block[b].entry # e
        BY <1>2, <2>2, FreeBlock
    <2> QED BY <1>1, <1>2, <1>5, <2>1, <2>2, Constants DEF Types
<1>9. \A c \in Clients : held[c] = {} /\ pc[c] = "idle"
    BY <1>1, <1>2 DEF Sound, Holdings, Holder
<1>10. table' \in [Buckets -> SUBSET Entries] /\ \A i \in Buckets : table'[i] = {}
    BY <1>1
<1>11. Sound(table', entry', block', pc, key, held)
    <2>1. Types(table', entry', block', pc, key, held)
        BY <1>2, <1>7, <1>8, <1>10 DEF Types
    <2>2. Homes(table', entry')
        BY <1>7, <1>10 DEF Homes
    <2>3. Owns(entry', block')
        BY <1>7, <1>8 DEF Owns, Owner
    <2>4. Holdings(block', pc, key, held)
        BY <1>9 DEF Holdings, Holder
    <2>5. NoOrphans(block', held)
        BY <1>8 DEF NoOrphans
    <2>6. Counted(entry', block', held) /\ Unique(entry')
        BY <1>7 DEF Counted, Unique
    <2> QED BY <2>1, <2>2, <2>3, <2>4, <2>5, <2>6 DEF Sound
<1> QED BY <1>1, <1>2, <1>11, SoundAfter

LEMMA InitIInv == Init => IInv
<1> SUFFICES ASSUME Init PROVE IInv
    OBVIOUS
<1>1. NoEntry \in EntryType /\ NoEntry.live = FALSE /\ NoEntry.bufs = {}
    BY DEF NoEntry, EntryType
<1>2. NoBlock \in BlockType /\ NoBlock.live = FALSE /\ NoBlock.entry = 0
    BY DEF NoBlock, BlockType
<1>3. /\ entry \in [Entries -> EntryType]
      /\ \A e \in Entries : ~entry[e].live /\ entry[e].bufs = {}
    BY <1>1 DEF Init
<1>4. /\ block \in [Blocks -> BlockType]
      /\ \A b \in Blocks : ~block[b].live /\ \A e \in Entries : block[b].entry # e
    BY <1>2, Constants DEF Init
<1>5. /\ table \in [Buckets -> SUBSET Entries] /\ \A i \in Buckets : table[i] = {}
      /\ pc \in [Clients -> Places] /\ key \in [Clients -> Keys \cup {0}]
      /\ held \in [Clients -> SUBSET Blocks]
      /\ \A c \in Clients : held[c] = {} /\ pc[c] = "idle"
    BY DEF Init, Places
<1>6. Types(table, entry, block, pc, key, held)
    BY <1>3, <1>4, <1>5 DEF Types
<1>7. Homes(table, entry)
    BY <1>3, <1>5 DEF Homes
<1>8. Owns(entry, block)
    BY <1>3, <1>4 DEF Owns, Owner
<1>9. Holdings(block, pc, key, held)
    BY <1>5 DEF Holdings, Holder
<1>10. NoOrphans(block, held) /\ Counted(entry, block, held) /\ Unique(entry)
    BY <1>3, <1>4 DEF NoOrphans, Counted, Unique
<1>11. most_recently_used = 0 /\ least_recently_used = 0
    BY DEF Init
<1> QED BY <1>6, <1>7, <1>8, <1>9, <1>10, <1>11 DEF IInv, Sound

LEMMA NextIInv == IInv /\ [Next]_vars => IInv'
<1> SUFFICES ASSUME IInv, [Next]_vars PROVE IInv'
    OBVIOUS
<1>1. CASE UNCHANGED vars
    <2>1. /\ table' = table /\ entry' = entry /\ block' = block /\ pc' = pc /\ key' = key
          /\ held' = held
          /\ most_recently_used' = most_recently_used /\ least_recently_used' = least_recently_used
        BY <1>1 DEF vars, cacheVars, clientVars
    <2>2. /\ most_recently_used \in Entries \cup {0} /\ least_recently_used \in Entries \cup {0}
          /\ Sound(table, entry, block, pc, key, held)
        BY DEF IInv
    <2> QED BY <2>1, <2>2, SoundAfter
<1>2. ASSUME NEW c \in Clients, NEW k \in Keys,
             LookupHit(c, k) \/ LookupMiss(c, k) \/ LookupFails(c, k)
      PROVE  IInv'
    BY <1>2, LookupHitIInv, LookupMissIInv, LookupFailsIInv
<1>3. ASSUME NEW c \in Clients, Fail(c) \/ Compute(c) \/ Abandon(c)
      PROVE  IInv'
    BY <1>3, FailIInv, ComputeIInv, AbandonIInv
<1>4. ASSUME NEW c \in Clients, StoreFound(c) \/ StoreFails(c) \/ StoreNew(c)
      PROVE  IInv'
    BY <1>4, StoreFoundIInv, StoreFailsIInv, StoreNewIInv
<1>5. ASSUME NEW c \in Clients, NEW b \in Blocks, Release(c, b)
      PROVE  IInv'
    BY <1>5, ReleaseIInv
<1>6. ASSUME NEW size \in CacheSizes, SetSize(size)
      PROVE  IInv'
    BY <1>6, SetSizeIInv
<1>7. CASE Cleanup
    BY <1>7, CleanupIInv
<1> QED BY <1>1, <1>2, <1>3, <1>4, <1>5, <1>6, <1>7 DEF Next

LEMMA Inductive == Spec => []IInv
    BY InitIInv, NextIInv, PTL DEF Spec

-----------------------------------------------------------------------------
\* What is cached is what is allocated.
LEMMA CachedLive ==
    ASSUME IInv
    PROVE  \A e : e \in Cached <=> e \in Entries /\ entry[e].live
<1>1. table \in [Buckets -> SUBSET Entries] /\ Homes(table, entry)
    BY DEF IInv, Sound, Types
<1>2. ASSUME NEW e \in Cached PROVE e \in Entries /\ entry[e].live
    BY <1>1 DEF Cached, Homes
<1>3. ASSUME NEW e \in Entries, entry[e].live PROVE e \in Cached
    BY <1>1, <1>3, Constants DEF Cached, Homes
<1> QED BY <1>2, <1>3

\* The same as an implication, to be cited of the next state.
LEMMA CachedLiveThen == IInv => \A e : e \in Cached <=> e \in Entries /\ entry[e].live
    BY CachedLive

\* The result a client uses is the one it asked for, also when another key has
\* the same hash, and prune_cache, a failed store or another client's release
\* never frees it before the client has released it.
THEOREM ClientsHoldTheirResults == Spec => []HeldIsRight
<1>1. ASSUME IInv PROVE HeldIsRight
    <2> SUFFICES ASSUME NEW c \in Clients, NEW b \in held[c]
                 PROVE  /\ block[b].live
                        /\ pc[c] = "using" => block[b].holds = key[c]
                        /\ \A d \in Clients : d # c /\ b \in held[d] => block[b].entry # 0
        BY DEF HeldIsRight
    <2>1. Holder(c, block, pc, key, held)
        BY <1>1 DEF IInv, Sound, Holdings
    <2> QED BY <2>1 DEF Holder
<1> QED BY <1>1, Inductive, PTL

\* Once all clients are out, the blocks that are allocated are those of the
\* entries in the table, and the entries that are allocated are in the table:
\* no path through lookup, store, release and their failures leaks.
THEOREM NothingLeaks == Spec => []NoLeak
<1>1. ASSUME IInv PROVE NoLeak
    <2> SUFFICES ASSUME \A c \in Clients : pc[c] = "idle"
                 PROVE  /\ {b \in Blocks : block[b].live} = UNION {entry[e].bufs : e \in Cached}
                        /\ {e \in Entries : entry[e].live} = Cached
        BY DEF NoLeak
    <2>1. \A e : e \in Cached <=> e \in Entries /\ entry[e].live
        BY <1>1, CachedLive
    <2>2. /\ entry \in [Entries -> EntryType] /\ block \in [Blocks -> BlockType]
          /\ \A e \in Entries : Owner(e, entry, block)
        BY <1>1 DEF IInv, Sound, Types, Owns
    <2>3. \A c \in Clients : held[c] = {}
        BY <1>1 DEF IInv, Sound, Holdings, Holder
    <2>4. ASSUME NEW b \in Blocks, block[b].live
          PROVE  \E e \in Cached : b \in entry[e].bufs
        <3>1. block[b].entry # 0
            BY <1>1, <2>3, <2>4 DEF IInv, Sound, NoOrphans
        <3>2. block[b].entry \in Entries
            BY <2>2, <3>1 DEF BlockType
        <3>3. PICK e \in Entries : block[b].entry = e
            BY <3>2
        <3>4. b \in entry[e].bufs /\ entry[e].live
            BY <2>2, <3>3 DEF Owner
        <3> QED BY <2>1, <3>4
    <2>5. ASSUME NEW e \in Cached, NEW b \in entry[e].bufs
          PROVE  b \in Blocks /\ block[b].live
        <3>1. e \in Entries
            BY <2>1
        <3>2. entry[e].bufs \subseteq Blocks
            BY <2>2, <3>1 DEF EntryType
        <3> QED BY <2>2, <3>1, <3>2 DEF Owner
    <2>6. {b \in Blocks : block[b].live} = UNION {entry[e].bufs : e \in Cached}
        BY <2>4, <2>5
    <2>7. {e \in Entries : entry[e].live} = Cached
        BY <2>1
    <2> QED BY <2>6, <2>7
<1> QED BY <1>1, Inductive, PTL

\* in_use_count is the number of buffers of the entry that are still to be
\* released, so that it is never decremented below zero and prune_cache frees
\* no entry in use; a block header never points to an entry that is gone.
THEOREM UseCountsExact == Spec => []InUseExact
<1>1. ASSUME IInv PROVE InUseExact
    <2>1. \A e : e \in Cached <=> e \in Entries /\ entry[e].live
        BY <1>1, CachedLive
    <2>2. \A e \in Cached : entry[e].in_use_count = Cardinality(Users(e, block, held))
        BY <1>1, <2>1 DEF IInv, Sound, Counted
    <2>3. ASSUME NEW b \in Blocks, block[b].entry # 0
          PROVE  block[b].entry \in Cached /\ b \in entry[block[b].entry].bufs
        <3>1. /\ block[b].entry \in Entries
              /\ \A e \in Entries : Owner(e, entry, block)
            BY <1>1, <2>3 DEF IInv, Sound, Types, BlockType, Owns
        <3> QED BY <2>1, <3>1 DEF Owner
    <2> QED BY <2>2, <2>3 DEF InUseExact, Users
<1> QED BY <1>1, Inductive, PTL

\* A result is cached once, in the bucket where lookup searches for it, also
\* when two clients compute it at the same time.
THEOREM ResultsCachedOnce == Spec => []UniqueKeys
<1>1. ASSUME IInv PROVE UniqueKeys
    <2>1. \A e : e \in Cached <=> e \in Entries /\ entry[e].live
        BY <1>1, CachedLive
    <2>2. \A d, e \in Cached : entry[d].key = entry[e].key => d = e
        BY <1>1, <2>1 DEF IInv, Sound, Unique
    <2>3. \A i \in Buckets : \A e \in table[i] : Index(entry[e].key) = i
        BY <1>1 DEF IInv, Sound, Types, Homes
    <2> QED BY <2>2, <2>3 DEF UniqueKeys
<1> QED BY <1>1, Inductive, PTL

-----------------------------------------------------------------------------
(***************************************************************************)
(* What is in use stays, whatever step is taken.                           *)
(***************************************************************************)
\* The entries in use keep their place, their key and their buffers.
Kept(ent, ent2) ==
    \A x \in Entries : ent[x].live /\ ent[x].in_use_count > 0 =>
        ent2[x].live /\ ent2[x].key = ent[x].key /\ ent2[x].bufs = ent[x].bufs

\* A use count changes, and nothing else.
LEMMA CountChanges ==
    ASSUME NEW ent \in [Entries -> EntryType], NEW e \in Entries, NEW n
    PROVE  \A x \in Entries :
               LET ent2 == [ent EXCEPT ![e].in_use_count = n]
               IN  /\ ent2[x].live = ent[x].live /\ ent2[x].key = ent[x].key
                   /\ ent2[x].bufs = ent[x].bufs
<1> DEFINE y == [ent[e] EXCEPT !.in_use_count = n]
<1>1. y.live = ent[e].live /\ y.key = ent[e].key /\ y.bufs = ent[e].bufs
    BY DEF EntryType
<1>2. [ent EXCEPT ![e].in_use_count = n] = [ent EXCEPT ![e] = y]
    OBVIOUS
<1> HIDE DEF y
<1> QED BY <1>1, <1>2

\* A pruned cache keeps what is in use.
LEMMA PrunesKept ==
    ASSUME NEW s, NEW ent, NEW at, NEW keys, NEW hold, Prunes(s, ent, at, keys, hold)
    PROVE  Kept(ent, s.entry)
    BY DEF Prunes, Kept

\* A hit changes the links and the use count of an entry.
LEMMA LookupHitKept ==
    ASSUME IInv, NEW c \in Clients, NEW k \in Keys, LookupHit(c, k)
    PROVE  Kept(entry, entry')
<1> DEFINE e == CHOOSE x \in Found(k) : TRUE
           moved == IF MovesUp(e) THEN Touched(e) ELSE entry
<1>1. Found(k) # {} /\ entry' = [moved EXCEPT ![e].in_use_count = @ + UsesAdded(k)]
    BY DEF LookupHit
<1>2. /\ table \in [Buckets -> SUBSET Entries] /\ entry \in [Entries -> EntryType]
      /\ most_recently_used \in Entries \cup {0}
    BY DEF IInv, Sound, Types
<1>3. e \in Entries
    <2>1. e \in table[Index(k)] /\ Index(k) \in Buckets
        BY <1>1, Constants DEF Found
    <2> QED BY <1>2, <2>1
<1> HIDE DEF e
<1>4. /\ moved \in [Entries -> EntryType]
      /\ \A x \in Entries : /\ moved[x].live = entry[x].live /\ moved[x].key = entry[x].key
                            /\ moved[x].bufs = entry[x].bufs
    BY <1>2, <1>3, TouchedFields
<1> HIDE DEF moved
<1>5. PICK n : n = moved[e].in_use_count + UsesAdded(k)
    OBVIOUS
<1>6. entry' = [moved EXCEPT ![e].in_use_count = n]
    BY <1>1, <1>5
<1>7. \A x \in Entries : /\ entry'[x].live = moved[x].live /\ entry'[x].key = moved[x].key
                         /\ entry'[x].bufs = moved[x].bufs
    BY <1>3, <1>4, <1>6, CountChanges
<1> QED BY <1>4, <1>7 DEF Kept

\* A store evicts what is not in use, and takes a struct that is not allocated.
LEMMA StoreKept ==
    ASSUME IInv, NEW c \in Clients, StoreFails(c) \/ StoreNew(c)
    PROVE  Kept(entry, entry')
<1>1. PICK s : s = WithRoom(c)
    OBVIOUS
<1>2. Prunes(s, entry, pc, key, held)
    BY <1>1, CurrentPrunes, PruneCacheSound DEF WithRoom, Grown
<1>3. Kept(entry, s.entry)
    BY <1>2, PrunesKept
<1>4. CASE StoreFails(c)
    <2>1. PICK t : t = [s EXCEPT !.size = @ - Bytes[key[c]], !.block = Disowned(@, held[c])]
        OBVIOUS
    <2>2. entry' = t.entry
        BY <1>1, <1>4, <2>1 DEF StoreFails, Becomes
    <2>3. t.entry = s.entry
        BY <1>2, <2>1 DEF Prunes, IsCache
    <2> QED BY <1>3, <2>2, <2>3
<1>5. CASE StoreNew(c)
    <2>1. PICK e : e = CHOOSE x \in FreeEntries(s.entry) : TRUE
        OBVIOUS
    <2>2. PICK t : t = Inserted(s, e, key[c], held[c])
        OBVIOUS
    <2>3. pc[c] = "computed" /\ FreeEntries(s.entry) # {} /\ entry' = t.entry
        BY <1>1, <1>5, <2>1, <2>2 DEF StoreNew, Becomes
    <2>4. e \in Entries /\ ~s.entry[e].live
        BY <2>1, <2>3 DEF FreeEntries
    <2>5. /\ s.most \in Entries \cup {0} /\ s.least \in Entries \cup {0} /\ IsCache(s)
          /\ s.table \in [Buckets -> SUBSET Entries] /\ s.entry \in [Entries -> EntryType]
          /\ s.block \in [Blocks -> BlockType] /\ held[c] \in SUBSET Blocks
        BY <1>2 DEF Prunes, Sound, Types
    <2>6. key[c] \in Keys
        BY <1>2, <2>3 DEF Prunes, Sound, Holdings, Holder
    <2>7. Adds(s.table, s.entry, s.block, t.table, t.entry, t.block, e, key[c], held[c])
        BY <2>2, <2>4, <2>5, <2>6, InsertedFields
    <2>8. \A x \in Entries : x # e => /\ t.entry[x].live = s.entry[x].live
                                     /\ t.entry[x].key = s.entry[x].key
                                     /\ t.entry[x].bufs = s.entry[x].bufs
        BY <2>7 DEF Adds
    <2>9. \A x \in Entries : entry[x].live /\ entry[x].in_use_count > 0 => x # e
        BY <1>3, <2>4 DEF Kept
    <2> QED BY <1>3, <2>3, <2>8, <2>9 DEF Kept
<1> QED BY <1>4, <1>5

\* A release lowers the use count, and frees at most a block without an entry.
LEMMA ReleaseKept ==
    ASSUME IInv, NEW c \in Clients, NEW b \in Blocks, Release(c, b)
    PROVE  Kept(entry, entry')
<1>1. entry \in [Entries -> EntryType] /\ block \in [Blocks -> BlockType]
    BY DEF IInv, Sound, Types
<1>2. PICK e \in Entries \cup {0} : e = block[b].entry
    BY <1>1 DEF BlockType
<1>3. CASE e = 0
    BY <1>2, <1>3 DEF Release, Kept
<1>4. CASE e # 0
    <2>1. PICK n : n = entry[e].in_use_count - 1
        OBVIOUS
    <2>2. entry' = [entry EXCEPT ![e].in_use_count = n]
        BY <1>2, <1>4, <2>1 DEF Release
    <2>3. e \in Entries
        BY <1>4
    <2>4. \A x \in Entries : /\ entry'[x].live = entry[x].live /\ entry'[x].key = entry[x].key
                             /\ entry'[x].bufs = entry[x].bufs
        BY <1>1, <2>2, <2>3, CountChanges
    <2> QED BY <2>4 DEF Kept
<1> QED BY <1>3, <1>4

\* Cleanup waits until nobody is inside, and then nothing is in use.
LEMMA CleanupKept ==
    ASSUME IInv, Cleanup
    PROVE  Kept(entry, entry')
<1>1. \A c \in Clients : held[c] = {}
    BY DEF Cleanup, IInv, Sound, Holdings, Holder
<1>2. ASSUME NEW x \in Entries, entry[x].live PROVE entry[x].in_use_count = 0
    <2>1. entry[x].in_use_count = Cardinality(Users(x, block, held))
        BY <1>2 DEF IInv, Sound, Counted
    <2>2. Users(x, block, held) = {}
        BY <1>1 DEF Users
    <2> QED BY <2>1, <2>2, FS_EmptySet
<1> QED BY <1>2 DEF Kept

\* The same for every step.
LEMMA NextKept ==
    ASSUME IInv, [Next]_vars
    PROVE  Kept(entry, entry')
<1>1. ASSUME entry' = entry PROVE Kept(entry, entry')
    BY <1>1 DEF Kept
<1>2. CASE UNCHANGED vars
    BY <1>1, <1>2 DEF vars, cacheVars
<1>3. ASSUME NEW c \in Clients, NEW k \in Keys,
             LookupHit(c, k) \/ LookupMiss(c, k) \/ LookupFails(c, k)
      PROVE  Kept(entry, entry')
    <2>1. CASE LookupHit(c, k)
        BY <2>1, LookupHitKept
    <2>2. CASE LookupMiss(c, k)
        BY <1>1, <2>2 DEF LookupMiss
    <2>3. CASE LookupFails(c, k)
        BY <1>1, <2>3 DEF LookupFails
    <2> QED BY <1>3, <2>1, <2>2, <2>3
<1>4. ASSUME NEW c \in Clients,
             Fail(c) \/ Compute(c) \/ Abandon(c) \/ StoreFound(c)
      PROVE  Kept(entry, entry')
    BY <1>1, <1>4 DEF Fail, Compute, Abandon, StoreFound, cacheVars
<1>5. ASSUME NEW c \in Clients, StoreFails(c) \/ StoreNew(c)
      PROVE  Kept(entry, entry')
    BY <1>5, StoreKept
<1>6. ASSUME NEW c \in Clients, NEW b \in Blocks, Release(c, b)
      PROVE  Kept(entry, entry')
    BY <1>6, ReleaseKept
<1>7. ASSUME NEW size \in CacheSizes, SetSize(size)
      PROVE  Kept(entry, entry')
    <2>1. PICK s : s = PruneCache(Current(current_cache_size),
                                  IF size = 0 THEN kDefaultCacheSize ELSE size)
        OBVIOUS
    <2>2. entry' = s.entry
        BY <1>7, <2>1 DEF SetSize, Becomes
    <2>3. Prunes(s, entry, pc, key, held)
        BY <2>1, CurrentPrunes, PruneCacheSound
    <2> QED BY <2>2, <2>3, PrunesKept
<1>8. CASE Cleanup
    BY <1>8, CleanupKept
<1> QED BY <1>2, <1>3, <1>4, <1>5, <1>6, <1>7, <1>8 DEF Next

\* prune_cache, halide_memoization_cache_set_size and the cleanup evict only what
\* nobody uses: an entry stays cached under its key, with its buffers, as long
\* as one of them has still to be released, however the clients interleave.
THEOREM EntriesInUseStay == Spec => UsedStay
<1>1. IInv /\ [Next]_vars => IInv'
    BY NextIInv
<1>2. IInv' => (\A e : e \in Cached <=> e \in Entries /\ entry[e].live)'
    BY CachedLiveThen, PTL
<1>3. ASSUME IInv, IInv', [Next]_vars
      PROVE  [\A e \in Cached : entry[e].in_use_count > 0 =>
                 /\ e \in Cached'
                 /\ entry'[e].key = entry[e].key /\ entry'[e].bufs = entry[e].bufs]_vars
    <2>1. \A e : e \in Cached <=> e \in Entries /\ entry[e].live
        BY <1>3, CachedLive
    <2>2. \A e : e \in Cached' <=> e \in Entries /\ entry'[e].live
        BY <1>3, <1>2
    <2>3. Kept(entry, entry')
        BY <1>3, NextKept
    <2> QED BY <2>1, <2>2, <2>3 DEF Kept
<1> QED BY <1>1, <1>3, Inductive, PTL DEF Spec, UsedStay
=============================================================================
