------------------------------ MODULE LruCache ------------------------------
(***************************************************************************)
(* What a cache of libntfs-3g promises its users: a bounded list of        *)
(* distinct keys, most recently used first.  A full cache makes room by    *)
(* forgetting its last key, and nothing else is ever forgotten unasked.    *)
(***************************************************************************)
EXTENDS Sublists

CONSTANTS Keys, Size

VARIABLE lru

Init == lru = << >>

Hit(k) == \E i \in DOMAIN lru : lru[i] = k

\* A key that is found becomes the most recent one.
Fetch(k) == lru' = IF Hit(k) THEN <<k>> \o Without(lru, {k}) ELSE lru

\* A key that is already there keeps its place.
Enter(k) ==
    lru' = IF Hit(k) THEN lru
           ELSE <<k>> \o SubSeq(lru, 1, IF Len(lru) < Size THEN Len(lru) ELSE Size - 1)

\* Invalidation forgets exactly the designated keys.
Forget(S) == lru' = Without(lru, S)

Next ==
    \/ \E k \in Keys : Fetch(k) \/ Enter(k)
    \/ \E S \in SUBSET Keys : Forget(S)

Spec == Init /\ [][Next]_lru
=============================================================================
