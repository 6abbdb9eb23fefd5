------------------------------ MODULE NtfsCache ------------------------------
(***************************************************************************)
(* The LRU caches of libntfs-3g (cache.c): a doubly linked list of entries *)
(* in order of use, a singly linked list of free entries in the same       *)
(* array, and hash chains that point into the array.  The pointers are     *)
(* modelled as they are; a chain of hash links is the sequence of the      *)
(* entries it points to and the list of free links is its length.          *)
(*                                                                         *)
(* The library is called by one thread, so every call is one step.         *)
(***************************************************************************)
EXTENDS Lists, FiniteSets

CONSTANTS
    Keys,           \* what the compare functions tell apart
    ItemCount,      \* item_count: the number of entries
    Hashes,         \* the values of the hash function
    Hash,           \* dohash, a function from Keys to Hashes
    NULL,
    MallocFails     \* whether ntfs_malloc and realloc may return NULL

ASSUME CacheAssumption ==
    /\ ItemCount \in Nat /\ ItemCount >= 3  \* param.h: "zero or >= 3"
    /\ Hash \in [Keys -> Hashes]
    /\ NULL \notin Keys
    /\ MallocFails \in BOOLEAN

Entries == 1 .. ItemCount
NoEntry == 0
Pointer == Entries \cup {NoEntry}

(***************************************************************************)
(* ntfs_create_lru_caches creates caches of three kinds: hashed with a     *)
(* variable part (inode, lookup), hashed without (nidata), plain (securid, *)
(* legacy).                                                                *)
(***************************************************************************)
Kinds == {[hash |-> TRUE,  var |-> TRUE],
          [hash |-> TRUE,  var |-> FALSE],
          [hash |-> FALSE, var |-> FALSE]}

VARIABLES
    kind,   \* the kind of this cache
    cache   \* struct CACHE_HEADER and its entries

vars == <<kind, cache>>

-----------------------------------------------------------------------------
(***************************************************************************)
(* ntfs_create_cache.  The field previous of a new entry is not            *)
(* initialised; no function reads it before the entry is linked.  The      *)
(* field variable says what the entry's pointer points to: nothing, a      *)
(* block, or a block that was freed.  The field heap is not in the code:   *)
(* it records a block that was lost or freed twice.                        *)
(***************************************************************************)
ntfs_create_cache(knd) ==
    [ most_recent_entry |-> NoEntry,
      oldest_entry      |-> NoEntry,
      free_entry        |-> 1,
      next       |-> [e \in Entries |-> IF e = ItemCount THEN NoEntry ELSE e + 1],
      previous   |-> [e \in Entries |-> NoEntry],
      payload    |-> [e \in Entries |-> NULL],
      variable   |-> [e \in Entries |-> "null"],
      dohash     |-> knd.hash,
      first_hash |-> [h \in Hashes |-> << >>],
      free_hash  |-> IF knd.hash THEN ItemCount ELSE 0,
      heap       |-> "ok" ]

Init ==
    /\ kind \in Kinds
    /\ cache = ntfs_create_cache(kind)

(***************************************************************************)
(* The entries reached from e through the field next, one more than there  *)
(* are if the pointers form a cycle.                                       *)
(***************************************************************************)
Chain(c, e) ==
    LET at[i \in 1 .. ItemCount + 1] ==
            IF i = 1 THEN e
            ELSE IF at[i - 1] = NoEntry THEN NoEntry ELSE c.next[at[i - 1]]
    IN  [i \in {i \in 1 .. ItemCount + 1 : at[i] # NoEntry} |-> at[i]]

LruList(c) == Chain(c, c.most_recent_entry)
FreeList(c) == Chain(c, c.free_entry)

FirstMatch(c, entries, k) ==
    LET hits == {i \in DOMAIN entries : c.payload[entries[i]] = k}
    IN  IF hits = {} THEN NoEntry ELSE entries[Min(hits)]

\* Mutant: only the first link of a hash chain is compared.
Lookup_FirstLink(c, k) ==
    LET chain == c.first_hash[Hash[k]]
    IN  IF c.dohash
        THEN IF chain # << >> /\ c.payload[Head(chain)] = k THEN Head(chain)
                                                            ELSE NoEntry
        ELSE FirstMatch(c, LruList(c), k)

\* The search that starts ntfs_fetch_cache and ntfs_enter_cache.
Lookup(c, k) ==
    FirstMatch(c, IF c.dohash THEN c.first_hash[Hash[k]] ELSE LruList(c), k)

inserthashindex(c, e) ==
    IF ~ c.dohash THEN c
    ELSE IF c.free_hash = 0 THEN [c EXCEPT !.dohash = FALSE]
    ELSE [c EXCEPT !.free_hash = @ - 1,
                   !.first_hash[Hash[c.payload[e]]] = <<e>> \o @]

drophashindex(c, e) ==
    LET h == Hash[c.payload[e]]
    IN  IF ~ c.dohash THEN c
        ELSE IF ~ Contains(c.first_hash[h], e) THEN [c EXCEPT !.dohash = FALSE]
        ELSE [c EXCEPT !.free_hash = @ + 1,
                       !.first_hash[h] = RemoveFirst(@, e)]

\* Assignment through a pointer: c.field[e] := x, where e is not NULL.
SetNext(c, e, x) == IF e = NoEntry THEN c ELSE [c EXCEPT !.next[e] = x]
SetPrevious(c, e, x) == IF e = NoEntry THEN c ELSE [c EXCEPT !.previous[e] = x]

-----------------------------------------------------------------------------
\* Mutant: oldest_entry is not moved when the last entry is unlinked.
Unlink_KeepOldest(c, e) ==
    LET c1 == SetPrevious(c, c.next[e], c.previous[e])
    IN  IF c.previous[e] # NoEntry
        THEN SetNext(c1, c.previous[e], c.next[e])
        ELSE [c1 EXCEPT !.most_recent_entry = c.next[e]]

\* Take an entry out of the list: its neighbours, or the head and the tail
\* of the list, point past it.  Both ntfs_fetch_cache and do_invalidate do so.
Unlink(c, e) ==
    LET n == c.next[e]
        p == c.previous[e]
        c1 == IF n # NoEntry THEN SetPrevious(c, n, p)
                             ELSE [c EXCEPT !.oldest_entry = p]
    IN  IF p # NoEntry THEN SetNext(c1, p, n)
                       ELSE [c1 EXCEPT !.most_recent_entry = n]

\* Link an entry as the head of the list.
LinkFirst(c, e) ==
    LET c1 == [c EXCEPT !.next[e] = c.most_recent_entry,
                        !.previous[e] = NoEntry]
    IN  [SetPrevious(c1, c.most_recent_entry, e)
            EXCEPT !.most_recent_entry = e]

\* ntfs_fetch_cache: a hit that is not the head becomes the head.
Fetched(c, e) ==
    IF e = NoEntry \/ c.previous[e] = NoEntry THEN c
    ELSE LinkFirst(Unlink(c, e), e)

-----------------------------------------------------------------------------
\* The variable part of an entry that is taken for a new item.
Allocated(c, e, fails) ==
    [c EXCEPT !.variable[e] = IF kind.var /\ ~ fails THEN "live" ELSE "null",
              !.heap = IF c.variable[e] = "live" THEN "leak" ELSE @]

\* The same when the entry still has the variable part of an old item.
Reallocated(c, e, fails) ==
    [c EXCEPT !.variable[e] = IF kind.var /\ ~ fails THEN "live" ELSE "null",
              !.heap = CASE c.variable[e] = "freed" -> "double_free"
                         [] c.variable[e] = "live" /\ kind.var /\ fails -> "leak"
                         [] OTHER -> @]

\* The first free entry, taken from the free list.
FromFreeList(c, fails) ==
    LET e == c.free_entry
    IN  [Allocated(c, e, fails)
            EXCEPT !.free_entry = c.next[e],
                   !.oldest_entry = IF @ = NoEntry THEN e ELSE @]

\* The oldest entry, unlinked from the end of the list and from its hash chain.
FromOldest(c, fails) ==
    LET e == c.oldest_entry
        c1 == drophashindex(SetNext(c, c.previous[e], NoEntry), e)
    IN  [Reallocated(c1, e, fails) EXCEPT !.oldest_entry = c.previous[e]]

\* An entry without room for its variable part goes back to the free list.
Recycled(c, e) ==
    [c EXCEPT !.most_recent_entry = c.next[e],
              !.next[e] = c.free_entry,
              !.free_entry = e]

\* ntfs_enter_cache of an item that is not found.
Entered(c, k, fails) ==
    LET free == c.free_entry # NoEntry
        e == IF free THEN c.free_entry ELSE c.oldest_entry
        c1 == IF free THEN FromFreeList(c, fails) ELSE FromOldest(c, fails)
        c2 == [LinkFirst(c1, e) EXCEPT !.payload[e] = k]
    IN  IF kind.var /\ fails THEN Recycled(c2, e) ELSE inserthashindex(c2, e)

do_invalidate(c, e) ==
    [Unlink(c, e) EXCEPT
        !.next[e] = c.free_entry,
        !.free_entry = e,
        !.variable[e] = IF @ = "null" THEN "null" ELSE "freed",
        !.heap = IF c.variable[e] = "freed" THEN "double_free" ELSE @]

\* Both loops of ntfs_invalidate_cache go along a list of entries and drop
\* those whose key the compare function selects.
DropSelected(c, e, S) ==
    IF c.payload[e] \in S THEN do_invalidate(drophashindex(c, e), e) ELSE c

InvalidatedAlong(c, entries, S) ==
    LET after[n \in 0 .. Len(entries)] ==
            IF n = 0 THEN c ELSE DropSelected(after[n - 1], entries[n], S)
    IN  after[Len(entries)]

\* The sequential search, used with CACHE_NOHASH or when there is no hashing.
InvalidatedInList(c, S) == InvalidatedAlong(c, LruList(c), S)

\* Mutant: every entry of the hash chain is taken for the key.
Invalidated_WholeChain(c, k) ==
    IF c.dohash THEN InvalidatedAlong(c, c.first_hash[Hash[k]], Keys)
                ELSE InvalidatedInList(c, {k})

\* The search for one key: along its hash chain when there is hashing, and
\* along the list when there is none or it has just been dropped.
Invalidated(c, k) ==
    LET c1 == IF c.dohash THEN InvalidatedAlong(c, c.first_hash[Hash[k]], {k})
                          ELSE c
    IN  IF c1.dohash THEN c1 ELSE InvalidatedInList(c1, {k})

-----------------------------------------------------------------------------
ntfs_fetch_cache(k) ==
    /\ cache' = Fetched(cache, Lookup(cache, k))
    /\ UNCHANGED kind

\* The two allocation functions fail only when the model allows it.
ntfs_enter_cache(k) ==
    /\ \E fails \in {FALSE, MallocFails} :
          cache' = IF Lookup(cache, k) = NoEntry THEN Entered(cache, k, fails)
                                                 ELSE cache
    /\ UNCHANGED kind

\* Invalidation of one key, as in ntfs_inode_invalidate.
ntfs_invalidate_cache(k) ==
    /\ cache' = Invalidated(cache, k)
    /\ UNCHANGED kind

\* Invalidation with CACHE_NOHASH: every path below a directory, every name of
\* an inode.  The compare functions may select any set of keys.
ntfs_invalidate_cache_nohash(S) ==
    /\ cache' = InvalidatedInList(cache, S)
    /\ UNCHANGED kind

\* ntfs_inode_open takes the entry it has fetched out of the cache.
ntfs_remove_cache(k) ==
    /\ Lookup(cache, k) # NoEntry
    /\ LET e == Lookup(cache, k)
       IN  cache' = do_invalidate(drophashindex(Fetched(cache, e), e), e)
    /\ UNCHANGED kind

\* The caches of a volume are freed when it is unmounted; the next mount
\* creates new ones.  A block that only an unlisted entry points to is lost.
ntfs_free_cache ==
    /\ kind' \in Kinds
    /\ cache' = [ntfs_create_cache(kind') EXCEPT
                    !.heap = IF \E e \in Entries \ Range(LruList(cache)) :
                                    cache.variable[e] = "live"
                             THEN "leak" ELSE cache.heap]

Next ==
    \/ \E k \in Keys : \/ ntfs_fetch_cache(k)
                       \/ ntfs_enter_cache(k)
                       \/ ntfs_invalidate_cache(k)
                       \/ ntfs_remove_cache(k)
    \/ \E S \in SUBSET Keys : ntfs_invalidate_cache_nohash(S)
    \/ ntfs_free_cache

Spec == Init /\ [][Next]_vars

-----------------------------------------------------------------------------
TypeOK ==
    /\ kind \in Kinds
    /\ cache.most_recent_entry \in Pointer
    /\ cache.oldest_entry \in Pointer
    /\ cache.free_entry \in Pointer
    /\ cache.next \in [Entries -> Pointer]
    /\ cache.previous \in [Entries -> Pointer]
    /\ cache.payload \in [Entries -> Keys \cup {NULL}]
    /\ cache.variable \in [Entries -> {"null", "live", "freed"}]
    /\ cache.dohash \in BOOLEAN
    /\ cache.free_hash \in 0 .. ItemCount
    /\ \A h \in Hashes : Range(cache.first_hash[h]) \subseteq Entries
    /\ cache.heap \in {"ok", "leak", "double_free"}

\* The two lists share the array of entries without a gap or an overlap, and
\* the list in order of use can be walked both ways.
LinkedBothWays ==
    LET used == LruList(cache)
        free == FreeList(cache)
    IN  /\ Len(used) + Len(free) = ItemCount
        /\ Range(used) \cup Range(free) = Entries
        /\ \A i \in DOMAIN used :
              cache.previous[used[i]] = IF i = 1 THEN NoEntry ELSE used[i - 1]
        /\ cache.oldest_entry = IF used = << >> THEN NoEntry ELSE Last(used)

\* Hashing is never dropped, and a hash chain holds exactly the listed
\* entries whose key has that hash value, once each.
HashAgrees ==
    /\ cache.dohash = kind.hash
    /\ cache.dohash =>
          /\ \A h \in Hashes :
                /\ IsInjective(cache.first_hash[h])
                /\ Range(cache.first_hash[h]) =
                      {e \in Range(LruList(cache)) : Hash[cache.payload[e]] = h}
          /\ cache.free_hash = Len(FreeList(cache))

\* The listed entries, and only they, own the blocks of variable size.
BlocksOwned ==
    /\ cache.heap = "ok"
    /\ \A e \in Entries :
          (cache.variable[e] = "live") <=> (kind.var /\ Contains(LruList(cache), e))

(***************************************************************************)
(* The structures that share the entries agree, which every function of    *)
(* cache.c relies on when it relinks: the list of the entries in use, the  *)
(* list of the free ones, the hash chains, so that a search through the    *)
(* hash table finds what a search through the list would, and the blocks,  *)
(* none of which is lost or freed twice.                                   *)
(***************************************************************************)
ListsIntact == TypeOK /\ LinkedBothWays /\ HashAgrees /\ BlocksOwned

(***************************************************************************)
(* The cache implements the list of keys its users rely on.                *)
(***************************************************************************)
KeysOf(c) ==
    LET used == LruList(c) IN [i \in DOMAIN used |-> c.payload[used[i]]]

KeysInOrder == KeysOf(cache)

Abstract == INSTANCE LruCache WITH lru <- KeysInOrder, Size <- ItemCount

ImplementsLru == Abstract!Spec

(***************************************************************************)
(* Each function of cache.c has the effect its user asked for: a fetch     *)
(* makes a hit the most recent key, and an invalidation, along a hash      *)
(* chain or along the list, forgets the designated keys and no others.     *)
(***************************************************************************)
EachCallAsPromised ==
    /\ \A k \in Keys :
          LET hit == Lookup(cache, k)
              others == Without(KeysInOrder, {k})
          IN  /\ KeysOf(Fetched(cache, hit)) =
                    IF hit = NoEntry THEN KeysInOrder ELSE <<k>> \o others
              /\ KeysOf(Invalidated(cache, k)) = others
    /\ \A S \in SUBSET Keys :
          KeysOf(InvalidatedInList(cache, S)) =
              Without(KeysInOrder, S)

(***************************************************************************)
(* cache.c says of an item whose variable part cannot be allocated:        *)
(* "recycle entry in free list", "not an error, just uncacheable".  No     *)
(* entry would then be in use and free at once after such a failure.       *)
(***************************************************************************)
UncacheableIsHarmless ==
    Range(LruList(cache)) \cap Range(FreeList(cache)) = {}
=============================================================================
