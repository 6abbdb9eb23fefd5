-------------------------- MODULE NtfsCacheProofs --------------------------
(***************************************************************************)
(* Proofs about NtfsCache, for a cache of any number of entries and any    *)
(* hash function, as long as memory can be allocated: the lists, the hash  *)
(* chains and the blocks stay consistent, and the cache implements a list  *)
(* of keys in order of use.                                                *)
(***************************************************************************)
EXTENDS NtfsCache, Induction

\* What an entry may hold.
Payloads == Keys \cup {NULL}

-----------------------------------------------------------------------------
(* The lists.                                                              *)

\* The values the record of the cache may have.
Caches ==
    [ most_recent_entry : Pointer, oldest_entry : Pointer, free_entry : Pointer,
      next : [Entries -> Pointer], previous : [Entries -> Pointer],
      payload : [Entries -> Payloads], variable : [Entries -> {"null", "live", "freed"}],
      dohash : BOOLEAN, first_hash : [Hashes -> Seq(Entries)], free_hash : Nat,
      heap : {"ok", "leak", "double_free"} ]

\* The i-th entry of a list, as a pointer.
At(s, i) == IF i \in 1 .. Len(s) THEN s[i] ELSE NoEntry

\* The entries of u are linked in order in both directions.
Linked(c, u) ==
    /\ u \in Seq(Entries) /\ IsInjective(u)
    /\ c.most_recent_entry = At(u, 1)
    /\ \A i \in 1 .. Len(u) : /\ c.next[u[i]] = At(u, i + 1)
                              /\ c.previous[u[i]] = At(u, i - 1)

Ends(c, u) == c.oldest_entry = At(u, Len(u))

\* The entries of f are linked from the head of the free list.
FreeLinked(c, f) ==
    /\ f \in Seq(Entries) /\ IsInjective(f)
    /\ c.free_entry = At(f, 1)
    /\ \A i \in 1 .. Len(f) : c.next[f[i]] = At(f, i + 1)

\* Every entry is in one of the lists.
Shared(u, f) ==
    /\ Len(u) + Len(f) = ItemCount
    /\ \A e \in Entries : Contains(u, e) <=> ~ Contains(f, e)

\* The places of a list without its i-th entry.
LEMMA AtRemove ==
    ASSUME NEW u \in Seq(Entries), NEW i \in 1 .. Len(u), NEW k \in 0 .. Len(u)
    PROVE  At(RemoveAt(u, i), k) = At(u, IF k < i THEN k ELSE k + 1)
<1>. USE Zenon
<1>. DEFINE w == RemoveAt(u, i)
            N == Len(u)
<1>1. /\ w \in Seq(Entries) /\ Len(w) = N - 1 /\ N \in Nat
      /\ \A j \in 1 .. N - 1 : w[j] = u[IF j < i THEN j ELSE j + 1]
  <2>1. N \in Nat
    BY SMT
  <2>. QED
    BY <2>1, RemoveAtFacts
<1>. HIDE DEF w
<1>2. CASE k \in 1 .. N - 1
  <2>1. At(w, k) = u[IF k < i THEN k ELSE k + 1]
    BY <1>1, <1>2 DEF At
  <2>2. (IF k < i THEN k ELSE k + 1) \in 1 .. N
    BY SMT, <1>1, <1>2
  <2>. QED
    BY <2>1, <2>2 DEF At, w
<1>3. CASE k \notin 1 .. N - 1
  <2>1. At(w, k) = NoEntry
    BY <1>1, <1>3 DEF At
  <2>2. (IF k < i THEN k ELSE k + 1) \notin 1 .. N
    BY SMT, <1>1, <1>3
  <2>. QED
    BY <2>1, <2>2 DEF At, w
<1>. QED
  BY <1>2, <1>3

\* The places of a list with a new first entry.
LEMMA AtCons ==
    ASSUME NEW u \in Seq(Entries), NEW e \in Entries, NEW k \in Nat
    PROVE  At(<<e>> \o u, k) = IF k = 0 THEN NoEntry ELSE IF k = 1 THEN e ELSE At(u, k - 1)
<1>. DEFINE w == <<e>> \o u
            N == Len(u)
<1>1. /\ w \in Seq(Entries) /\ Len(w) = N + 1 /\ N \in Nat /\ w[1] = e
      /\ \A j \in 2 .. N + 1 : w[j] = u[j - 1]
  BY ConsFacts
<1>. HIDE DEF w
<1>2. CASE k = 0
  BY <1>1, <1>2 DEF At, w
<1>3. CASE k = 1
  BY <1>1, <1>3 DEF At, w
<1>4. CASE k \in 2 .. N + 1
  <2>1. k \in 1 .. N + 1 /\ k - 1 \in 1 .. N /\ k # 0 /\ k # 1
    BY <1>1, <1>4
  <2>. QED
    BY Zenon, <1>1, <1>4, <2>1 DEF At, w
<1>5. CASE k \notin 0 .. N + 1
  <2>1. k \notin 1 .. N + 1 /\ k - 1 \notin 1 .. N /\ k # 0 /\ k # 1
    BY <1>1, <1>5
  <2>. QED
    BY Zenon, <1>1, <1>5, <2>1 DEF At, w
<1>6. k = 0 \/ k = 1 \/ k \in 2 .. N + 1 \/ k \notin 0 .. N + 1
  BY <1>1
<1>. QED
  BY Zenon, <1>2, <1>3, <1>4, <1>5, <1>6

\* A place of a list is told by the entry there.
LEMMA AtPlace ==
    ASSUME NEW u \in Seq(Entries), IsInjective(u), NEW i \in 1 .. Len(u), NEW k \in Int
    PROVE  /\ At(u, k) \in Pointer /\ At(u, i) = u[i] /\ u[i] \in Entries /\ u[i] # NoEntry
           /\ At(u, k) = u[i] <=> k = i
           /\ At(u, k) = NoEntry <=> k \notin 1 .. Len(u)
<1>1. \A j \in 1 .. Len(u) : u[j] \in Entries /\ u[j] # NoEntry
  <2>1. \A e \in Entries : e # NoEntry
    BY CacheAssumption DEF Entries, NoEntry
  <2>. QED
    BY <2>1
<1>2. \A j \in 1 .. Len(u) : u[j] = u[i] => j = i
  BY DEF IsInjective
<1>. QED
  BY Zenon, <1>1, <1>2 DEF At, Pointer

\* The fields that have nothing to do with the order of use.
SameRest(c, d) ==
    /\ d.payload = c.payload /\ d.variable = c.variable /\ d.heap = c.heap
    /\ d.dohash = c.dohash /\ d.first_hash = c.first_hash /\ d.free_hash = c.free_hash

\* What Unlink assigns.
LEMMA UnlinkFields ==
    ASSUME NEW c \in Caches, NEW e \in Entries
    PROVE  LET d == Unlink(c, e)
               n == c.next[e]
               p == c.previous[e]
           IN  /\ d \in Caches /\ SameRest(c, d) /\ d.free_entry = c.free_entry
               /\ d.oldest_entry = IF n = NoEntry THEN p ELSE c.oldest_entry
               /\ d.most_recent_entry = IF p = NoEntry THEN n ELSE c.most_recent_entry
               /\ \A x \in Entries : d.next[x] = IF x = p THEN n ELSE c.next[x]
               /\ \A x \in Entries : d.previous[x] = IF x = n THEN p ELSE c.previous[x]
<1>. USE Zenon
<1>. DEFINE d == Unlink(c, e)
            n == c.next[e]
            p == c.previous[e]
            c1 == IF n # NoEntry THEN SetPrevious(c, n, p)
                                 ELSE [c EXCEPT !.oldest_entry = p]
<1>1. n \in Pointer /\ p \in Pointer
  BY DEF Caches
<1>2. NoEntry \notin Entries
  BY SMT, CacheAssumption DEF Entries, NoEntry
<1>3. d = IF p # NoEntry THEN SetNext(c1, p, n) ELSE [c1 EXCEPT !.most_recent_entry = n]
  BY DEF Unlink
<1>. HIDE DEF n, p, d
<1>4. /\ c1 \in Caches /\ SameRest(c, c1) /\ c1.free_entry = c.free_entry /\ c1.next = c.next
      /\ c1.oldest_entry = IF n = NoEntry THEN p ELSE c.oldest_entry
      /\ c1.most_recent_entry = c.most_recent_entry
      /\ \A x \in Entries : c1.previous[x] = IF x = n THEN p ELSE c.previous[x]
  <2>1. CASE n # NoEntry
    <3>1. c1 = [c EXCEPT !.previous[n] = p] /\ n \in Entries
      BY <1>1, <2>1 DEF SetPrevious, Pointer
    <3>. HIDE DEF c1
    <3>. QED
      BY <1>1, <2>1, <3>1 DEF Caches, SameRest
  <2>2. CASE n = NoEntry
    <3>1. c1 = [c EXCEPT !.oldest_entry = p]
      BY <2>2
    <3>. HIDE DEF c1
    <3>. QED
      BY <1>1, <1>2, <2>2, <3>1 DEF Caches, SameRest
  <2>. QED
    BY <2>1, <2>2
<1>. HIDE DEF c1
<1>5. /\ d \in Caches /\ SameRest(c1, d) /\ d.free_entry = c1.free_entry /\ d.previous = c1.previous
      /\ d.oldest_entry = c1.oldest_entry
      /\ d.most_recent_entry = IF p = NoEntry THEN n ELSE c1.most_recent_entry
      /\ \A x \in Entries : d.next[x] = IF x = p THEN n ELSE c1.next[x]
  <2>1. CASE p # NoEntry
    <3>1. d = [c1 EXCEPT !.next[p] = n] /\ p \in Entries
      BY <1>1, <1>3, <2>1 DEF SetNext, Pointer
    <3>. QED
      BY <1>1, <1>4, <2>1, <3>1 DEF Caches, SameRest
  <2>2. CASE p = NoEntry
    <3>1. d = [c1 EXCEPT !.most_recent_entry = n]
      BY <1>3, <2>2
    <3>. QED
      BY <1>1, <1>2, <1>4, <2>2, <3>1 DEF Caches, SameRest
  <2>. QED
    BY <2>1, <2>2
<1>. QED
  BY SMT, <1>4, <1>5 DEF SameRest, d, n, p

\* Unlink takes one entry out of the list.
LEMMA UnlinkList ==
    ASSUME NEW c \in Caches, NEW u, Linked(c, u), Ends(c, u), NEW i \in 1 .. Len(u)
    PROVE  Linked(Unlink(c, u[i]), RemoveAt(u, i)) /\ Ends(Unlink(c, u[i]), RemoveAt(u, i))
<1>. USE Zenon
<1>. DEFINE N == Len(u)
            w == RemoveAt(u, i)
            d == Unlink(c, u[i])
            n == c.next[u[i]]
            p == c.previous[u[i]]
            q(k) == IF k < i THEN k ELSE k + 1
<1>1. /\ u \in Seq(Entries) /\ IsInjective(u) /\ N \in Nat
      /\ c.most_recent_entry = At(u, 1) /\ c.oldest_entry = At(u, N)
      /\ \A k \in 1 .. N : c.next[u[k]] = At(u, k + 1) /\ c.previous[u[k]] = At(u, k - 1)
  BY SMT DEF Linked, Ends
<1>2. /\ \A k \in 1 .. N : u[k] \in Entries /\ u[k] # NoEntry
      /\ \A k \in 1 .. N : \A j \in Int : At(u, j) = u[k] <=> j = k
      /\ \A j \in Int : At(u, j) = NoEntry <=> j \notin 1 .. N
      /\ \A k \in 1 .. N : At(u, k) = u[k]
  BY SMT, <1>1, AtPlace
<1>3. n = At(u, i + 1) /\ p = At(u, i - 1) /\ i \in 1 .. N
  BY <1>1
<1>4. /\ d.oldest_entry = IF n = NoEntry THEN p ELSE c.oldest_entry
      /\ d.most_recent_entry = IF p = NoEntry THEN n ELSE c.most_recent_entry
      /\ \A x \in Entries : d.next[x] = IF x = p THEN n ELSE c.next[x]
      /\ \A x \in Entries : d.previous[x] = IF x = n THEN p ELSE c.previous[x]
  BY SMTT(30), <1>2, UnlinkFields
<1>5. /\ w \in Seq(Entries) /\ IsInjective(w) /\ Len(w) = N - 1
      /\ \A k \in 1 .. N - 1 : w[k] = u[q(k)]
  BY SMT, <1>1, RemoveAtFacts, RemoveAtInjective
<1>6. \A k \in 0 .. N : At(w, k) = At(u, q(k))
  BY <1>1, AtRemove
<1>. HIDE DEF w, d, n, p, N
<1>7. d.most_recent_entry = At(w, 1)
  <2>1. At(w, 1) = At(u, q(1)) /\ q(1) = IF i = 1 THEN 2 ELSE 1
    BY SMT, <1>1, <1>3, <1>6
  <2>2. p = NoEntry <=> i = 1
    BY SMT, <1>1, <1>2, <1>3
  <2>. QED
    BY SMT, <1>1, <1>3, <1>4, <2>1, <2>2
<1>8. d.oldest_entry = At(w, N - 1)
  <2>1. At(w, N - 1) = At(u, q(N - 1)) /\ q(N - 1) = IF i = N THEN N - 1 ELSE N
    BY SMT, <1>1, <1>3, <1>6
  <2>2. n = NoEntry <=> i = N
    BY SMT, <1>1, <1>2, <1>3
  <2>. QED
    BY <1>1, <1>3, <1>4, <2>1, <2>2
<1>9. ASSUME NEW k \in 1 .. N - 1
      PROVE  d.next[w[k]] = At(w, k + 1) /\ d.previous[w[k]] = At(w, k - 1)
  <2>1. /\ q(k) \in 1 .. N /\ q(k) # i /\ k + 1 \in 0 .. N /\ k - 1 \in 0 .. N
        /\ q(k) \in Int /\ i + 1 \in Int /\ i - 1 \in Int
    BY SMT, <1>1, <1>3
  <2>2. w[k] = u[q(k)] /\ u[q(k)] \in Entries
    BY <1>2, <1>5, <2>1
  <2>3. u[q(k)] = p <=> q(k) = i - 1
    BY <1>2, <1>3, <2>1
  <2>4. u[q(k)] = n <=> q(k) = i + 1
    BY <1>2, <1>3, <2>1
  <2>5. At(w, k + 1) = At(u, q(k + 1)) /\ At(w, k - 1) = At(u, q(k - 1))
    BY <1>6, <2>1
  <2>6. c.next[u[q(k)]] = At(u, q(k) + 1) /\ c.previous[u[q(k)]] = At(u, q(k) - 1)
    BY <1>1, <2>1
  <2>7. d.next[w[k]] = At(w, k + 1)
    <3>1. CASE q(k) = i - 1
      <4>1. q(k + 1) = i + 1
        BY SMT, <1>1, <1>3, <3>1
      <4>. QED
        BY <1>3, <1>4, <2>2, <2>3, <2>5, <3>1, <4>1
    <3>2. CASE q(k) # i - 1
      <4>1. q(k + 1) = q(k) + 1
        BY SMT, <1>1, <1>3, <3>2
      <4>. QED
        BY <1>4, <2>2, <2>3, <2>5, <2>6, <3>2, <4>1
    <3>. QED
      BY <3>1, <3>2
  <2>8. d.previous[w[k]] = At(w, k - 1)
    <3>1. CASE q(k) = i + 1
      <4>1. q(k - 1) = i - 1
        BY SMT, <1>1, <1>3, <3>1
      <4>. QED
        BY <1>3, <1>4, <2>2, <2>4, <2>5, <3>1, <4>1
    <3>2. CASE q(k) # i + 1
      <4>1. q(k - 1) = q(k) - 1
        BY SMT, <1>1, <1>3, <3>2
      <4>. QED
        BY <1>4, <2>2, <2>4, <2>5, <2>6, <3>2, <4>1
    <3>. QED
      BY <3>1, <3>2
  <2>. QED
    BY <2>7, <2>8
<1>. QED
  BY <1>5, <1>7, <1>8, <1>9 DEF Linked, Ends, w, d

\* What LinkFirst assigns.
LEMMA LinkFirstFields ==
    ASSUME NEW c \in Caches, NEW e \in Entries, c.most_recent_entry # e
    PROVE  LET d == LinkFirst(c, e)
               h == c.most_recent_entry
           IN  /\ d \in Caches /\ SameRest(c, d) /\ d.free_entry = c.free_entry
               /\ d.oldest_entry = c.oldest_entry /\ d.most_recent_entry = e
               /\ \A x \in Entries : d.next[x] = IF x = e THEN h ELSE c.next[x]
               /\ \A x \in Entries : d.previous[x] = IF x = e THEN NoEntry
                                                     ELSE IF x = h THEN e ELSE c.previous[x]
<1>. USE Zenon
<1>. DEFINE d == LinkFirst(c, e)
            h == c.most_recent_entry
            c1 == [c EXCEPT !.next[e] = h, !.previous[e] = NoEntry]
            c2 == SetPrevious(c1, h, e)
<1>1. h \in Pointer /\ h # e
  BY DEF Caches
<1>2. NoEntry \notin Entries /\ NoEntry \in Pointer /\ Entries \subseteq Pointer
  BY SMT, CacheAssumption DEF Entries, NoEntry, Pointer
<1>3. d = [c2 EXCEPT !.most_recent_entry = e]
  BY DEF LinkFirst
<1>. HIDE DEF h, d
<1>4. /\ c1 \in Caches /\ SameRest(c, c1) /\ c1.free_entry = c.free_entry
      /\ c1.oldest_entry = c.oldest_entry
      /\ \A x \in Entries : c1.next[x] = IF x = e THEN h ELSE c.next[x]
      /\ \A x \in Entries : c1.previous[x] = IF x = e THEN NoEntry ELSE c.previous[x]
  <2>. DEFINE c0 == [c EXCEPT !.next[e] = h]
  <2>1. c1 = [c0 EXCEPT !.previous[e] = NoEntry]
    OBVIOUS
  <2>2. /\ c0 \in Caches /\ SameRest(c, c0) /\ c0.free_entry = c.free_entry
        /\ c0.oldest_entry = c.oldest_entry /\ c0.previous = c.previous
        /\ \A x \in Entries : c0.next[x] = IF x = e THEN h ELSE c.next[x]
    BY <1>1 DEF Caches, SameRest
  <2>. HIDE DEF c0, c1
  <2>3. /\ c1 \in Caches /\ SameRest(c0, c1) /\ c1.free_entry = c0.free_entry
        /\ c1.oldest_entry = c0.oldest_entry /\ c1.next = c0.next
        /\ \A x \in Entries : c1.previous[x] = IF x = e THEN NoEntry ELSE c0.previous[x]
    BY <1>2, <2>1, <2>2 DEF Caches, SameRest
  <2>. QED
    BY <2>2, <2>3 DEF SameRest
<1>. HIDE DEF c1
<1>5. /\ c2 \in Caches /\ SameRest(c1, c2) /\ c2.free_entry = c1.free_entry
      /\ c2.oldest_entry = c1.oldest_entry /\ c2.next = c1.next
      /\ \A x \in Entries : c2.previous[x] = IF x = h THEN e ELSE c1.previous[x]
  <2>1. CASE h = NoEntry
    <3>1. c2 = c1
      BY <2>1 DEF SetPrevious
    <3>. HIDE DEF c2
    <3>. QED
      BY <1>2, <1>4, <2>1, <3>1 DEF SameRest
  <2>2. CASE h # NoEntry
    <3>1. c2 = [c1 EXCEPT !.previous[h] = e] /\ h \in Entries
      BY <1>1, <2>2 DEF SetPrevious, Pointer
    <3>. HIDE DEF c2
    <3>. QED
      BY <1>2, <1>4, <3>1 DEF Caches, SameRest
  <2>. QED
    BY <2>1, <2>2
<1>. HIDE DEF c2
<1>6. /\ d \in Caches /\ SameRest(c2, d) /\ d.free_entry = c2.free_entry
      /\ d.oldest_entry = c2.oldest_entry /\ d.next = c2.next /\ d.previous = c2.previous
      /\ d.most_recent_entry = e
  BY <1>2, <1>3, <1>5 DEF Caches, SameRest
<1>. QED
  BY SMT, <1>1, <1>4, <1>5, <1>6 DEF SameRest, d, h

\* LinkFirst puts an entry in front of the list.
LEMMA LinkFirstList ==
    ASSUME NEW c \in Caches, NEW u, Linked(c, u), NEW e \in Entries, ~ Contains(u, e)
    PROVE  /\ Linked(LinkFirst(c, e), <<e>> \o u)
           /\ c.most_recent_entry # e
<1>. DEFINE N == Len(u)
            w == <<e>> \o u
            d == LinkFirst(c, e)
            h == c.most_recent_entry
<1>1. /\ u \in Seq(Entries) /\ IsInjective(u) /\ N \in Nat /\ h = At(u, 1)
      /\ \A k \in 1 .. N : c.next[u[k]] = At(u, k + 1) /\ c.previous[u[k]] = At(u, k - 1)
  BY DEF Linked
<1>2. /\ \A k \in 1 .. N : u[k] \in Entries /\ u[k] # NoEntry
      /\ \A k \in 1 .. N : \A j \in Int : At(u, j) = u[k] <=> j = k
  BY <1>1, AtPlace
<1>3. NoEntry \notin Entries /\ \A k \in 1 .. N : u[k] # e
  BY CacheAssumption DEF Contains, Entries, NoEntry
<1>4. h # e
  BY Zenon, <1>1, <1>3 DEF At
<1>5. /\ d.most_recent_entry = e
      /\ \A x \in Entries : d.next[x] = IF x = e THEN h ELSE c.next[x]
      /\ \A x \in Entries : d.previous[x] = IF x = e THEN NoEntry
                                            ELSE IF x = h THEN e ELSE c.previous[x]
  BY <1>4, LinkFirstFields
<1>6. /\ w \in Seq(Entries) /\ IsInjective(w) /\ Len(w) = N + 1 /\ w[1] = e
      /\ \A k \in 2 .. N + 1 : w[k] = u[k - 1]
  BY <1>1, ConsFacts
<1>7. \A k \in Nat : At(w, k) = IF k = 0 THEN NoEntry ELSE IF k = 1 THEN e ELSE At(u, k - 1)
  BY Zenon, <1>1, AtCons
<1>. HIDE DEF w, d, N, h
<1>8. ASSUME NEW k \in 1 .. N + 1
      PROVE  d.next[w[k]] = At(w, k + 1) /\ d.previous[w[k]] = At(w, k - 1)
  <2>1. CASE k = 1
    <3>1. At(w, k + 1) = At(u, 1) /\ At(w, k - 1) = NoEntry
      BY <1>7, <2>1
    <3>. QED
      BY Zenon, <1>1, <1>5, <1>6, <2>1, <3>1
  <2>2. CASE k # 1
    <3>. DEFINE j == k - 1
    <3>1. j \in 1 .. N /\ k \in 2 .. N + 1 /\ j \in Int /\ 1 \in Int /\ k = j + 1
      BY <1>1, <2>2
    <3>2. w[k] = u[j] /\ u[j] \in Entries /\ u[j] # e
      BY Zenon, <1>2, <1>3, <1>6, <3>1
    <3>3. u[j] = h <=> j = 1
      BY Zenon, <1>1, <1>2, <3>1
    <3>. HIDE DEF j
    <3>4. At(w, k + 1) = At(u, j + 1) /\ At(w, k - 1) = IF j = 1 THEN e ELSE At(u, j - 1)
      <4>1. k + 1 \in Nat /\ k + 1 # 0 /\ k + 1 # 1 /\ (k + 1) - 1 = j + 1
        BY <1>1, <3>1
      <4>2. k - 1 \in Nat /\ k - 1 # 0 /\ (k - 1 = 1 <=> j = 1) /\ (k - 1) - 1 = j - 1
        BY <1>1, <3>1
      <4>. QED
        BY Zenon, <1>7, <4>1, <4>2
    <3>5. d.next[u[j]] = c.next[u[j]] /\ c.next[u[j]] = At(u, j + 1)
      BY Zenon, <1>1, <1>5, <3>1, <3>2
    <3>6. d.previous[u[j]] = IF j = 1 THEN e ELSE At(u, j - 1)
      BY Zenon, <1>1, <1>5, <3>1, <3>2, <3>3
    <3>. QED
      BY Zenon, <3>2, <3>4, <3>5, <3>6
  <2>. QED
    BY Zenon, <2>1, <2>2
<1>9. d.most_recent_entry = At(w, 1)
  BY <1>5, <1>7
<1>. QED
  BY Zenon, <1>4, <1>6, <1>8, <1>9 DEF Linked, w, d, h

-----------------------------------------------------------------------------
(* The invariant of the cache, for the lists u of the entries in use and f *)
(* of the free ones.                                                       *)

Lists(c, u, f) == Linked(c, u) /\ Ends(c, u) /\ FreeLinked(c, f) /\ Shared(u, f)

\* No two entries in use hold the same key.
KeysDiffer(c, u) ==
    /\ \A e \in Entries : Contains(u, e) => c.payload[e] \in Keys
    /\ \A d, e \in Entries : Contains(u, d) /\ Contains(u, e) /\ c.payload[d] = c.payload[e] => d = e

\* The hash chains hold the entries in use and the rest of the links is free.
Hashed(c, u, n) ==
    IF c.dohash
    THEN /\ \A h \in Hashes :
               /\ IsInjective(c.first_hash[h])
               /\ \A e \in Entries : Contains(c.first_hash[h], e) <=>
                                        Contains(u, e) /\ Hash[c.payload[e]] = h
         /\ c.free_hash = n
    ELSE c.free_hash = 0

\* The entries in use own their blocks.
Blocks(c, u, knd) ==
    /\ c.heap = "ok"
    /\ \A e \in Entries : c.variable[e] = "live" <=> knd.var /\ Contains(u, e)
    /\ \A e \in Entries : c.variable[e] = "freed" => ~ Contains(u, e)

Good(c, u, f, knd) ==
    /\ c \in Caches /\ knd \in Kinds
    /\ Lists(c, u, f) /\ KeysDiffer(c, u)
    /\ c.dohash = knd.hash /\ Hashed(c, u, Len(f)) /\ Blocks(c, u, knd)

\* RemoveFirst takes out the one place of an element.
LEMMA RemoveFirstFacts ==
    ASSUME NEW S, NEW s \in Seq(S), IsInjective(s), NEW e, Contains(s, e)
    PROVE  /\ RemoveFirst(s, e) \in Seq(S) /\ IsInjective(RemoveFirst(s, e))
           /\ \A x : Contains(RemoveFirst(s, e), x) <=> Contains(s, x) /\ x # e
<1>. USE Zenon
<1>. DEFINE I == {i \in 1 .. Len(s) : s[i] = e}
            m == Min(I)
<1>1. I # {}
  BY DEF Contains
<1>2. m \in I
  <2>1. I \in SUBSET Nat
    BY SMT
  <2>. HIDE DEF I
  <2>2. \E x \in I : \A y \in I : x <= y
    BY <1>1, <2>1, LeastNumber
  <2>. QED
    BY <2>2 DEF Min
<1>3. RemoveFirst(s, e) = RemoveAt(s, m)
  BY DEF RemoveFirst
<1>4. m \in 1 .. Len(s) /\ s[m] = e
  BY <1>2
<1>. HIDE DEF m
<1>. QED
  BY SMT, <1>3, <1>4, RemoveAtFacts, RemoveAtInjective

\* The fields other than those of the hash table.
SamePointers(c, d) ==
    /\ d.most_recent_entry = c.most_recent_entry /\ d.oldest_entry = c.oldest_entry
    /\ d.free_entry = c.free_entry /\ d.next = c.next /\ d.previous = c.previous

\* drophashindex takes an entry in use out of its hash chain.
LEMMA DropHash ==
    ASSUME NEW c \in Caches, NEW u, NEW n \in Nat, Hashed(c, u, n),
           NEW e \in Entries, Contains(u, e), c.payload[e] \in Keys
    PROVE  LET d == drophashindex(c, e)
           IN  /\ d \in Caches /\ SamePointers(c, d) /\ d.dohash = c.dohash
               /\ d.payload = c.payload /\ d.variable = c.variable /\ d.heap = c.heap
               /\ IF c.dohash
                  THEN /\ \A h \in Hashes :
                             /\ IsInjective(d.first_hash[h])
                             /\ \A x \in Entries : Contains(d.first_hash[h], x) <=>
                                   Contains(u, x) /\ x # e /\ Hash[c.payload[x]] = h
                       /\ d.free_hash = n + 1
                  ELSE d.free_hash = 0
<1>. USE Zenon
<1>. DEFINE d == drophashindex(c, e)
            h == Hash[c.payload[e]]
            g == c.first_hash[h]
<1>1. c \in Caches /\ Hashed(c, u, n) /\ c.payload[e] \in Keys
  OBVIOUS
<1>2. CASE ~ c.dohash
  BY <1>1, <1>2 DEF drophashindex, SamePointers, Hashed
<1>3. CASE c.dohash
  <2>1. h \in Hashes
    BY <1>1, CacheAssumption
  <2>2. /\ c.first_hash \in [Hashes -> Seq(Entries)] /\ c.free_hash = n
        /\ \A k \in Hashes :
              /\ IsInjective(c.first_hash[k])
              /\ \A x \in Entries : Contains(c.first_hash[k], x) <=>
                                       Contains(u, x) /\ Hash[c.payload[x]] = k
    BY <1>1, <1>3 DEF Hashed, Caches
  <2>3. g \in Seq(Entries) /\ IsInjective(g) /\ Contains(g, e)
    BY <2>1, <2>2
  <2>. DEFINE r == RemoveFirst(g, e)
  <2>4. r \in Seq(Entries) /\ IsInjective(r) /\ \A x \in Entries : Contains(r, x) <=> Contains(g, x) /\ x # e
    <3>. HIDE DEF g
    <3>. QED
      BY <2>3, RemoveFirstFacts
  <2>. DEFINE z == c.free_hash + 1
              c0 == [c EXCEPT !.free_hash = z]
  <2>5. d = [c0 EXCEPT !.first_hash[h] = r] /\ z = n + 1 /\ z \in Nat
    BY SMT, <1>3, <2>2, <2>3 DEF drophashindex
  <2>. HIDE DEF d, r, h, z
  <2>6. /\ c0 \in Caches /\ SamePointers(c, c0) /\ c0.dohash = c.dohash /\ c0.first_hash = c.first_hash
        /\ c0.payload = c.payload /\ c0.variable = c.variable /\ c0.heap = c.heap
        /\ c0.free_hash = n + 1
    BY <1>1, <2>5 DEF Caches, SamePointers
  <2>. HIDE DEF c0
  <2>7. /\ d \in Caches /\ SamePointers(c0, d) /\ d.dohash = c0.dohash /\ d.free_hash = c0.free_hash
        /\ d.payload = c0.payload /\ d.variable = c0.variable /\ d.heap = c0.heap
        /\ \A k \in Hashes : d.first_hash[k] = IF k = h THEN r ELSE c0.first_hash[k]
    BY <2>1, <2>4, <2>5, <2>6 DEF Caches, SamePointers
  <2>8. ASSUME NEW k \in Hashes
        PROVE  /\ IsInjective(d.first_hash[k])
               /\ \A x \in Entries : Contains(d.first_hash[k], x) <=>
                                   Contains(u, x) /\ x # e /\ Hash[c.payload[x]] = k
    <3>1. CASE k = h
      <4>1. d.first_hash[k] = r
        BY <2>7, <3>1
      <4>. QED
        BY <2>1, <2>2, <2>4, <3>1, <4>1
    <3>2. CASE k # h
      <4>1. d.first_hash[k] = c.first_hash[k]
        BY <2>6, <2>7, <3>2
      <4>2. Hash[c.payload[e]] # k
        BY <3>2 DEF h
      <4>. QED
        BY <2>2, <4>1, <4>2
    <3>. QED
      BY <3>1, <3>2
  <2>. QED
    BY <1>3, <2>6, <2>7, <2>8 DEF SamePointers, d
<1>. QED
  BY <1>2, <1>3

\* What do_invalidate assigns.
LEMMA InvalidateFields ==
    ASSUME NEW c \in Caches, NEW e \in Entries
    PROVE  LET d == do_invalidate(c, e)
               b == Unlink(c, e)
           IN  /\ d \in Caches
               /\ d.most_recent_entry = b.most_recent_entry /\ d.oldest_entry = b.oldest_entry
               /\ d.previous = b.previous /\ d.free_entry = e
               /\ \A x \in Entries : d.next[x] = IF x = e THEN c.free_entry ELSE b.next[x]
               /\ d.payload = c.payload /\ d.dohash = c.dohash
               /\ d.first_hash = c.first_hash /\ d.free_hash = c.free_hash
               /\ \A x \in Entries : d.variable[x] = IF x = e /\ c.variable[e] # "null" THEN "freed"
                                                                                ELSE c.variable[x]
               /\ d.heap = IF c.variable[e] = "freed" THEN "double_free" ELSE c.heap
<1>. USE Zenon
<1>. DEFINE b == Unlink(c, e)
            g == c.free_entry
            v == IF b.variable[e] = "null" THEN "null" ELSE "freed"
            p == IF c.variable[e] = "freed" THEN "double_free" ELSE b.heap
            b1 == [b EXCEPT !.next[e] = g]
            b2 == [b1 EXCEPT !.free_entry = e]
            b3 == [b2 EXCEPT !.variable[e] = v]
            d == do_invalidate(c, e)
<1>1. b \in Caches /\ SameRest(c, b) /\ b.free_entry = c.free_entry
  BY UnlinkFields
<1>2. d = [b3 EXCEPT !.heap = p]
  BY DEF do_invalidate
<1>3. /\ v \in {"null", "live", "freed"} /\ p \in {"ok", "leak", "double_free"} /\ g \in Pointer /\ e \in Pointer
      /\ v = IF c.variable[e] = "null" THEN "null" ELSE "freed"
      /\ p = IF c.variable[e] = "freed" THEN "double_free" ELSE c.heap
  BY <1>1 DEF Caches, SameRest, Pointer
<1>. HIDE DEF b, g, v, p, d
<1>4. /\ b1 \in Caches /\ SameRest(b, b1) /\ b1.previous = b.previous
      /\ b1.most_recent_entry = b.most_recent_entry /\ b1.oldest_entry = b.oldest_entry
      /\ \A x \in Entries : b1.next[x] = IF x = e THEN g ELSE b.next[x]
  BY <1>1, <1>3 DEF Caches, SameRest
<1>. HIDE DEF b1
<1>5. /\ b2 \in Caches /\ SameRest(b1, b2) /\ b2.previous = b1.previous /\ b2.next = b1.next
      /\ b2.most_recent_entry = b1.most_recent_entry /\ b2.oldest_entry = b1.oldest_entry
      /\ b2.free_entry = e
  BY <1>3, <1>4 DEF Caches, SameRest
<1>. HIDE DEF b2
<1>6. /\ b3 \in Caches /\ SamePointers(b2, b3)
      /\ b3.payload = b2.payload /\ b3.dohash = b2.dohash /\ b3.heap = b2.heap
      /\ b3.first_hash = b2.first_hash /\ b3.free_hash = b2.free_hash
      /\ \A x \in Entries : b3.variable[x] = IF x = e THEN v ELSE b2.variable[x]
  BY <1>3, <1>5 DEF Caches, SamePointers
<1>. HIDE DEF b3
<1>7. /\ d \in Caches /\ SamePointers(b3, d)
      /\ d.payload = b3.payload /\ d.dohash = b3.dohash /\ d.variable = b3.variable
      /\ d.first_hash = b3.first_hash /\ d.free_hash = b3.free_hash /\ d.heap = p
  BY <1>2, <1>3, <1>6 DEF Caches, SamePointers
<1>8. /\ d.payload = c.payload /\ d.dohash = c.dohash
      /\ d.first_hash = c.first_hash /\ d.free_hash = c.free_hash
      /\ b2.variable = c.variable
  BY SMT, <1>1, <1>4, <1>5, <1>6, <1>7 DEF SameRest
<1>9. /\ d.most_recent_entry = b.most_recent_entry /\ d.oldest_entry = b.oldest_entry
      /\ d.previous = b.previous /\ d.free_entry = e
      /\ \A x \in Entries : d.next[x] = IF x = e THEN g ELSE b.next[x]
  BY SMT, <1>4, <1>5, <1>6, <1>7 DEF SamePointers
<1>10. \A x \in Entries : d.variable[x] = IF x = e /\ c.variable[e] # "null" THEN "freed" ELSE c.variable[x]
  BY Zenon, <1>3, <1>6, <1>7, <1>8
<1>. QED
  BY <1>3, <1>7, <1>8, <1>9, <1>10 DEF b, d, g

\* Dropping an entry in use makes it the first of the free list.
LEMMA DropGood ==
    ASSUME NEW c, NEW u, NEW f, NEW knd, Good(c, u, f, knd), NEW i \in 1 .. Len(u)
    PROVE  LET d == do_invalidate(drophashindex(c, u[i]), u[i])
           IN  Good(d, RemoveAt(u, i), <<u[i]>> \o f, knd) /\ d.payload = c.payload
<1>. USE Zenon
<1>. DEFINE e == u[i]
            a == drophashindex(c, e)
            b == Unlink(a, e)
            d == do_invalidate(a, e)
            w == RemoveAt(u, i)
            g == <<e>> \o f
<1>1. /\ c \in Caches /\ knd \in Kinds /\ Linked(c, u) /\ Ends(c, u) /\ FreeLinked(c, f) /\ Shared(u, f)
      /\ KeysDiffer(c, u) /\ c.dohash = knd.hash /\ Hashed(c, u, Len(f)) /\ Blocks(c, u, knd)
  BY DEF Good, Lists
<1>2. /\ u \in Seq(Entries) /\ IsInjective(u) /\ f \in Seq(Entries) /\ IsInjective(f)
      /\ c.free_entry = At(f, 1) /\ \A k \in 1 .. Len(f) : c.next[f[k]] = At(f, k + 1)
  BY <1>1 DEF Linked, FreeLinked
<1>3. e \in Entries /\ Contains(u, e) /\ ~ Contains(f, e) /\ Len(u) \in Nat /\ Len(f) \in Nat
  BY SMT, <1>1, <1>2 DEF Contains, Shared
<1>4. /\ a \in Caches /\ SamePointers(c, a) /\ a.dohash = c.dohash
      /\ a.payload = c.payload /\ a.variable = c.variable /\ a.heap = c.heap
      /\ IF c.dohash
         THEN /\ \A h \in Hashes :
                     /\ IsInjective(a.first_hash[h])
                     /\ \A x \in Entries : Contains(a.first_hash[h], x) <=>
                           Contains(u, x) /\ x # e /\ Hash[c.payload[x]] = h
              /\ a.free_hash = Len(f) + 1
         ELSE a.free_hash = 0
  <2>1. c.payload[e] \in Keys
    BY <1>1, <1>3 DEF KeysDiffer
  <2>. HIDE DEF e
  <2>. QED
    BY <1>1, <1>3, <2>1, DropHash
<1>. HIDE DEF a
<1>5. Linked(a, u) /\ Ends(a, u)
  BY <1>1, <1>4 DEF Linked, Ends, SamePointers
<1>6. Linked(b, w) /\ Ends(b, w)
  BY <1>4, <1>5, UnlinkList
<1>7. \A x \in Entries : ~ Contains(u, x) => b.next[x] = a.next[x]
  <2>1. \A x \in Entries : b.next[x] = IF x = a.previous[e] THEN a.next[e] ELSE a.next[x]
    <3>. HIDE DEF e
    <3>. QED
      BY SMT, <1>3, <1>4, UnlinkFields
  <2>2. a.previous[e] = At(u, i - 1)
    BY <1>5 DEF Linked
  <2>3. i - 1 \in 1 .. Len(u) => Contains(u, At(u, i - 1))
    BY <1>3 DEF Contains, At
  <2>4. i - 1 \notin 1 .. Len(u) => At(u, i - 1) \notin Entries
    BY SMT, CacheAssumption DEF At, Entries, NoEntry
  <2>. HIDE DEF e, b
  <2>. QED
    BY <2>1, <2>2, <2>3, <2>4
<1>8. /\ d \in Caches
      /\ d.most_recent_entry = b.most_recent_entry /\ d.oldest_entry = b.oldest_entry
      /\ d.previous = b.previous /\ d.free_entry = e
      /\ \A x \in Entries : d.next[x] = IF x = e THEN a.free_entry ELSE b.next[x]
      /\ d.payload = a.payload /\ d.dohash = a.dohash
      /\ d.first_hash = a.first_hash /\ d.free_hash = a.free_hash
      /\ \A x \in Entries : d.variable[x] = IF x = e /\ a.variable[e] # "null" THEN "freed"
                                                                               ELSE a.variable[x]
      /\ d.heap = IF a.variable[e] = "freed" THEN "double_free" ELSE a.heap
  <2>. HIDE DEF e
  <2>. QED
    BY SMTT(30), <1>3, <1>4, InvalidateFields
<1>9. /\ w \in Seq(Entries) /\ IsInjective(w) /\ Len(w) = Len(u) - 1
      /\ \A x : Contains(w, x) <=> Contains(u, x) /\ x # e
  BY <1>2, RemoveAtFacts, RemoveAtInjective
<1>10. /\ g \in Seq(Entries) /\ IsInjective(g) /\ Len(g) = Len(f) + 1 /\ g[1] = e
       /\ \A k \in 2 .. Len(f) + 1 : g[k] = f[k - 1]
       /\ \A x : Contains(g, x) <=> Contains(f, x) \/ x = e
  <2>. HIDE DEF e
  <2>. QED
    BY SMT, <1>2, <1>3, ConsFacts
<1>11. \A k \in Nat : At(g, k) = IF k = 0 THEN NoEntry ELSE IF k = 1 THEN e ELSE At(f, k - 1)
  <2>. HIDE DEF e
  <2>. QED
    BY <1>2, <1>3, AtCons
<1>. HIDE DEF e, b, d, w, g
<1>12. Linked(d, w) /\ Ends(d, w)
  <2>1. \A k \in 1 .. Len(w) : w[k] \in Entries /\ w[k] # e
    BY SMT, <1>9 DEF Contains
  <2>. QED
    BY SMTT(30), <1>6, <1>8, <2>1 DEF Linked, Ends
<1>13. FreeLinked(d, g)
  <2>1. d.free_entry = At(g, 1)
    BY SMT, <1>8, <1>11
  <2>2. ASSUME NEW k \in 1 .. Len(f) + 1 PROVE d.next[g[k]] = At(g, k + 1)
    <3>1. CASE k = 1
      <4>1. At(g, k + 1) = At(f, 1)
        BY SMT, <1>11, <3>1
      <4>2. a.free_entry = At(f, 1)
        BY <1>2, <1>4 DEF SamePointers
      <4>. QED
        BY <1>3, <1>8, <1>10, <3>1, <4>1, <4>2
    <3>2. CASE k # 1
      <4>. DEFINE j == k - 1
      <4>1. j \in 1 .. Len(f) /\ k \in 2 .. Len(f) + 1 /\ k + 1 \in Nat /\ (k + 1) - 1 = j + 1 /\ k + 1 # 0 /\ k + 1 # 1
        BY SMT, <1>3, <3>2
      <4>2. g[k] = f[j] /\ f[j] \in Entries /\ Contains(f, f[j])
        BY SMT, <1>2, <1>10, <4>1 DEF Contains
      <4>3. At(g, k + 1) = At(f, j + 1)
        BY <1>11, <4>1
      <4>. HIDE DEF j
      <4>4. f[j] # e /\ ~ Contains(u, f[j])
        BY <1>1, <1>3, <4>2 DEF Shared
      <4>5. d.next[f[j]] = a.next[f[j]]
        BY <1>7, <1>8, <4>2, <4>4
      <4>6. a.next[f[j]] = At(f, j + 1)
        BY <1>2, <1>4, <4>1 DEF SamePointers
      <4>. QED
        BY <4>2, <4>3, <4>5, <4>6
    <3>. QED
      BY <3>1, <3>2
  <2>. QED
    BY <1>10, <2>1, <2>2 DEF FreeLinked
<1>14. Shared(w, g)
  <2>1. Len(w) + Len(g) = ItemCount
    BY SMT, <1>1, <1>3, <1>9, <1>10 DEF Shared
  <2>2. \A x \in Entries : Contains(w, x) <=> ~ Contains(g, x)
    BY <1>1, <1>9, <1>10 DEF Shared
  <2>. QED
    BY <2>1, <2>2 DEF Shared
<1>15. KeysDiffer(d, w)
  BY SMT, <1>1, <1>4, <1>8, <1>9 DEF KeysDiffer
<1>16. Hashed(d, w, Len(g))
  <2>1. CASE c.dohash
    BY SMT, <1>4, <1>8, <1>9, <1>10, <2>1 DEF Hashed
  <2>2. CASE ~ c.dohash
    BY <1>4, <1>8, <2>2 DEF Hashed
  <2>. QED
    BY <2>1, <2>2
<1>17. Blocks(d, w, knd)
  <2>1. c.variable[e] # "freed" /\ c.heap = "ok"
    BY <1>1, <1>3 DEF Blocks
  <2>2. d.heap = "ok"
    BY <1>4, <1>8, <2>1
  <2>3. ASSUME NEW x \in Entries
        PROVE  (d.variable[x] = "live" <=> knd.var /\ Contains(w, x)) /\ (d.variable[x] = "freed" => ~ Contains(w, x))
    <3>1. CASE x = e
      <4>1. c.variable[e] \in {"null", "live", "freed"}
        BY <1>1, <1>3 DEF Caches
      <4>2. d.variable[e] # "live"
        BY Zenon, <1>3, <1>4, <1>8, <4>1
      <4>. QED
        BY <1>9, <3>1, <4>2
    <3>2. CASE x # e
      BY SMTT(30), <1>1, <1>4, <1>8, <1>9, <3>2 DEF Blocks
    <3>. QED
      BY <3>1, <3>2
  <2>. QED
    BY <2>2, <2>3 DEF Blocks
<1>18. Good(d, w, g, knd)
  BY Zenon, <1>1, <1>4, <1>8, <1>12, <1>13, <1>14, <1>15, <1>16, <1>17 DEF Good, Lists
<1>. QED
  BY <1>4, <1>8, <1>18 DEF a, d, e, w, g

\* Moving entries within the list leaves the rest as it is.
LEMMA MovedGood ==
    ASSUME NEW c, NEW u, NEW f, NEW knd, Good(c, u, f, knd),
           NEW d \in Caches, SameRest(c, d), d.free_entry = c.free_entry,
           \A x \in Entries : ~ Contains(u, x) => d.next[x] = c.next[x],
           NEW v, Linked(d, v), Ends(d, v), Len(v) = Len(u),
           \A x \in Entries : Contains(v, x) <=> Contains(u, x)
    PROVE  Good(d, v, f, knd)
<1>. USE Zenon
<1>1. /\ FreeLinked(c, f) /\ Shared(u, f) /\ KeysDiffer(c, u) /\ knd \in Kinds
      /\ c.dohash = knd.hash /\ Hashed(c, u, Len(f)) /\ Blocks(c, u, knd)
  BY DEF Good, Lists
<1>2. FreeLinked(d, f)
  <2>1. \A k \in 1 .. Len(f) : f[k] \in Entries /\ Contains(f, f[k])
    BY SMT, <1>1 DEF FreeLinked, Contains
  <2>2. \A k \in 1 .. Len(f) : ~ Contains(u, f[k])
    BY <1>1, <2>1 DEF Shared
  <2>. QED
    BY <1>1, <2>1, <2>2 DEF FreeLinked
<1>3. Shared(v, f)
  BY <1>1 DEF Shared
<1>4. KeysDiffer(d, v)
  BY Zenon, <1>1 DEF KeysDiffer, SameRest
<1>5. Hashed(d, v, Len(f)) /\ d.dohash = knd.hash
  BY SMTT(30), <1>1 DEF Hashed, SameRest
<1>6. Blocks(d, v, knd)
  BY <1>1 DEF Blocks, SameRest
<1>. QED
  BY <1>1, <1>2, <1>3, <1>4, <1>5, <1>6 DEF Good, Lists

\* A fetch moves an entry to the front.
LEMMA FetchGood ==
    ASSUME NEW c, NEW u, NEW f, NEW knd, Good(c, u, f, knd), NEW i \in 1 .. Len(u)
    PROVE  LET d == Fetched(c, u[i])
           IN  Good(d, <<u[i]>> \o RemoveAt(u, i), f, knd) /\ d.payload = c.payload
<1>. USE Zenon
<1>. DEFINE e == u[i]
            w == RemoveAt(u, i)
            v == <<e>> \o w
            b == Unlink(c, e)
            d == LinkFirst(b, e)
            N == Len(u)
<1>1. /\ c \in Caches /\ Linked(c, u) /\ Ends(c, u) /\ u \in Seq(Entries) /\ IsInjective(u) /\ N \in Nat
      /\ \A k \in 1 .. N : c.next[u[k]] = At(u, k + 1) /\ c.previous[u[k]] = At(u, k - 1)
  BY SMT DEF Good, Lists, Linked
<1>2. e \in Entries /\ Contains(u, e) /\ e # NoEntry /\ NoEntry \notin Entries
  BY SMT, <1>1, AtPlace, CacheAssumption DEF Contains, Entries, NoEntry
<1>3. /\ w \in Seq(Entries) /\ IsInjective(w) /\ Len(w) = N - 1
      /\ \A k \in 1 .. N - 1 : w[k] = u[IF k < i THEN k ELSE k + 1]
      /\ \A x : Contains(w, x) <=> Contains(u, x) /\ x # e
  BY SMT, <1>1, RemoveAtFacts, RemoveAtInjective
<1>4. /\ v \in Seq(Entries) /\ Len(v) = N /\ v[1] = e
      /\ \A k \in 2 .. N : v[k] = w[k - 1]
      /\ \A x : Contains(v, x) <=> Contains(w, x) \/ x = e
  <2>. HIDE DEF e, w
  <2>1. /\ v \in Seq(Entries) /\ Len(v) = Len(w) + 1 /\ v[1] = e
        /\ \A k \in 2 .. Len(w) + 1 : v[k] = w[k - 1]
        /\ \A x : Contains(v, x) <=> Contains(w, x) \/ x = e
    BY SMT, <1>2, <1>3, ConsFacts
  <2>2. Len(w) + 1 = N
    BY SMT, <1>1, <1>3
  <2>. QED
    BY <2>1, <2>2
<1>5. c.previous[e] = NoEntry <=> i = 1
  <2>1. c.previous[e] = At(u, i - 1) /\ i - 1 \in Int
    BY SMT, <1>1
  <2>2. At(u, i - 1) = NoEntry <=> i - 1 \notin 1 .. N
    BY <1>1, <2>1, AtPlace
  <2>3. i - 1 \notin 1 .. N <=> i = 1
    BY SMT, <1>1
  <2>. QED
    BY <2>1, <2>2, <2>3
<1>6. CASE i = 1
  <2>1. Fetched(c, e) = c
    BY <1>5, <1>6 DEF Fetched
  <2>2. \A k \in 1 .. N : v[k] = u[k]
    <3>1. \A k \in 2 .. N : k - 1 \in 1 .. N - 1 /\ (k - 1) + 1 = k /\ ~ (k - 1 < 1)
      BY SMT, <1>1
    <3>2. \A k \in 2 .. N : v[k] = u[k]
      <4>. HIDE DEF v, w
      <4>. QED
        BY <1>3, <1>4, <1>6, <3>1
    <3>3. \A k \in 1 .. N : k = 1 \/ k \in 2 .. N
      BY SMT, <1>1
    <3>. HIDE DEF v
    <3>. QED
      BY <1>4, <1>6, <3>2, <3>3
  <2>3. v = u
    <3>. HIDE DEF v
    <3>. QED
      BY <1>1, <1>4, <2>2, SeqEqual
  <2>. QED
    BY <2>1, <2>3
<1>7. CASE i # 1
  <2>1. Fetched(c, e) = d
    BY <1>2, <1>5, <1>7 DEF Fetched
  <2>2. Linked(b, w) /\ Ends(b, w)
    BY <1>1, UnlinkList
  <2>3. /\ b \in Caches /\ SameRest(c, b) /\ b.free_entry = c.free_entry
        /\ \A x \in Entries : b.next[x] = IF x = c.previous[e] THEN c.next[e] ELSE c.next[x]
    <3>. HIDE DEF e
    <3>. QED
      BY SMT, <1>1, <1>2, UnlinkFields
  <2>. HIDE DEF e, b, w
  <2>4. Linked(d, v) /\ b.most_recent_entry # e
    BY <1>2, <1>3, <2>2, <2>3, LinkFirstList
  <2>5. /\ d \in Caches /\ SameRest(b, d) /\ d.free_entry = b.free_entry
        /\ d.oldest_entry = b.oldest_entry
        /\ \A x \in Entries : d.next[x] = IF x = e THEN b.most_recent_entry ELSE b.next[x]
    BY SMT, <1>2, <2>3, <2>4, LinkFirstFields
  <2>6. Ends(d, v)
    <3>1. At(v, N) = At(w, N - 1)
      <4>1. At(v, N) = IF N = 0 THEN NoEntry ELSE IF N = 1 THEN e ELSE At(w, N - 1)
        BY ZenonT(40), <1>1, <1>2, <1>3, AtCons
      <4>2. N # 0 /\ N # 1
        BY SMT, <1>1, <1>7
      <4>. QED
        BY <4>1, <4>2
    <3>. QED
      BY <1>3, <1>4, <2>2, <2>5, <3>1 DEF Ends
  <2>7. ASSUME NEW x \in Entries, ~ Contains(u, x) PROVE d.next[x] = c.next[x]
    <3>1. x # e
      BY <1>2, <2>7
    <3>2. c.previous[e] = At(u, i - 1) /\ i - 1 \in 1 .. N
      BY SMT, <1>1, <1>7 DEF e
    <3>3. Contains(u, c.previous[e])
      BY <3>2 DEF Contains, At
    <3>4. x # c.previous[e]
      BY <2>7, <3>3
    <3>. QED
      BY <2>3, <2>5, <3>1, <3>4
  <2>. HIDE DEF d, v
  <2>8. SameRest(c, d) /\ d.free_entry = c.free_entry
    BY <2>3, <2>5 DEF SameRest
  <2>9. \A x \in Entries : Contains(v, x) <=> Contains(u, x)
    BY <1>2, <1>3, <1>4
  <2>10. Good(d, v, f, knd)
    BY SMT, <1>4, <2>4, <2>5, <2>6, <2>7, <2>8, <2>9, MovedGood
  <2>. QED
    BY <2>1, <2>8, <2>10 DEF SameRest, v, e, w
<1>. QED
  BY <1>6, <1>7

\* The kinds of caches say yes or no.
LEMMA KindFields == \A k \in Kinds : k.var \in BOOLEAN /\ k.hash \in BOOLEAN
<1>1. /\ [hash |-> TRUE, var |-> TRUE].var \in BOOLEAN /\ [hash |-> TRUE, var |-> TRUE].hash \in BOOLEAN
      /\ [hash |-> TRUE, var |-> FALSE].var \in BOOLEAN /\ [hash |-> TRUE, var |-> FALSE].hash \in BOOLEAN
      /\ [hash |-> FALSE, var |-> FALSE].var \in BOOLEAN /\ [hash |-> FALSE, var |-> FALSE].hash \in BOOLEAN
  BY Zenon
<1>. QED
  BY <1>1, Zenon DEF Kinds

\* An entry e was taken for a new item, and the list w does not hold it yet.
Ready(c, e, w, g, knd) ==
    /\ c \in Caches /\ knd \in Kinds /\ e \in Entries /\ ~ Contains(w, e)
    /\ Linked(c, w) /\ c.oldest_entry = At(<<e>> \o w, Len(w) + 1)
    /\ FreeLinked(c, g) /\ Shared(<<e>> \o w, g) /\ KeysDiffer(c, w)
    /\ c.dohash = knd.hash /\ Hashed(c, w, Len(g) + 1) /\ Blocks(c, <<e>> \o w, knd)

\* What Allocated and the assignments after it in FromFreeList do.
LEMMA FromFreeFields ==
    ASSUME NEW c \in Caches, c.free_entry \in Entries, kind \in Kinds
    PROVE  LET d == FromFreeList(c, FALSE)
               e == c.free_entry
           IN  /\ d \in Caches
               /\ d.most_recent_entry = c.most_recent_entry /\ d.free_entry = c.next[e]
               /\ d.oldest_entry = IF c.oldest_entry = NoEntry THEN e ELSE c.oldest_entry
               /\ d.next = c.next /\ d.previous = c.previous /\ d.payload = c.payload
               /\ d.dohash = c.dohash /\ d.first_hash = c.first_hash /\ d.free_hash = c.free_hash
               /\ \A x \in Entries : d.variable[x] = IF x # e THEN c.variable[x]
                                                     ELSE IF kind.var THEN "live" ELSE "null"
               /\ d.heap = IF c.variable[e] = "live" THEN "leak" ELSE c.heap
<1>. USE Zenon
<1>. DEFINE e == c.free_entry
            v == IF kind.var THEN "live" ELSE "null"
            p == IF c.variable[e] = "live" THEN "leak" ELSE c.heap
            n == c.next[e]
            o == IF c.oldest_entry = NoEntry THEN e ELSE c.oldest_entry
            c1 == [c EXCEPT !.variable[e] = v]
            c2 == [c1 EXCEPT !.heap = p]
            c3 == [c2 EXCEPT !.free_entry = n]
            d == FromFreeList(c, FALSE)
<1>1. /\ e \in Entries /\ v \in {"null", "live", "freed"} /\ p \in {"ok", "leak", "double_free"}
      /\ n \in Pointer /\ o \in Pointer
  BY DEF Caches, Pointer
<1>2. d = [c3 EXCEPT !.oldest_entry = o]
  BY DEF FromFreeList, Allocated, Caches
<1>. HIDE DEF e, v, p, n, o, d
<1>3. /\ c1 \in Caches /\ SamePointers(c, c1) /\ c1.payload = c.payload /\ c1.dohash = c.dohash
      /\ c1.first_hash = c.first_hash /\ c1.free_hash = c.free_hash
      /\ \A x \in Entries : c1.variable[x] = IF x # e THEN c.variable[x] ELSE v
  BY <1>1 DEF Caches, SamePointers
<1>. HIDE DEF c1
<1>4. /\ c2 \in Caches /\ SamePointers(c1, c2) /\ c2.payload = c1.payload /\ c2.dohash = c1.dohash
      /\ c2.first_hash = c1.first_hash /\ c2.free_hash = c1.free_hash
      /\ c2.variable = c1.variable /\ c2.heap = p
  BY <1>1, <1>3 DEF Caches, SamePointers
<1>. HIDE DEF c2
<1>5. /\ c3 \in Caches /\ SameRest(c2, c3) /\ c3.free_entry = n
      /\ c3.next = c2.next /\ c3.previous = c2.previous
      /\ c3.most_recent_entry = c2.most_recent_entry
  BY <1>1, <1>4 DEF Caches, SameRest
<1>. HIDE DEF c3
<1>6. /\ d \in Caches /\ SameRest(c3, d) /\ d.free_entry = n /\ d.oldest_entry = o
      /\ d.next = c3.next /\ d.previous = c3.previous
      /\ d.most_recent_entry = c3.most_recent_entry
  BY <1>1, <1>2, <1>5 DEF Caches, SameRest
<1>7. /\ d.most_recent_entry = c.most_recent_entry /\ d.next = c.next /\ d.previous = c.previous
      /\ d.payload = c.payload /\ d.dohash = c.dohash /\ d.first_hash = c.first_hash
      /\ d.free_hash = c.free_hash /\ d.heap = p
      /\ \A x \in Entries : d.variable[x] = IF x # e THEN c.variable[x] ELSE v
  BY <1>3, <1>4, <1>5, <1>6 DEF SameRest, SamePointers
<1>. QED
  BY <1>6, <1>7 DEF d, e, v, p, n, o

\* The first entry of the free list can be taken.
LEMMA FromFreeReady ==
    ASSUME NEW c, NEW u, NEW f, Good(c, u, f, kind), c.free_entry # NoEntry
    PROVE  LET d == FromFreeList(c, FALSE)
           IN  /\ Ready(d, c.free_entry, u, RemoveAt(f, 1), kind) /\ d.payload = c.payload
               /\ Len(u) < ItemCount
<1>. USE Zenon
<1>. DEFINE e == c.free_entry
            d == FromFreeList(c, FALSE)
            g == RemoveAt(f, 1)
            v == <<e>> \o u
<1>1. /\ c \in Caches /\ kind \in Kinds /\ Linked(c, u) /\ Ends(c, u) /\ FreeLinked(c, f) /\ Shared(u, f)
      /\ KeysDiffer(c, u) /\ c.dohash = kind.hash /\ Hashed(c, u, Len(f)) /\ Blocks(c, u, kind)
  BY DEF Good, Lists
<1>2. /\ u \in Seq(Entries) /\ IsInjective(u) /\ f \in Seq(Entries) /\ IsInjective(f)
      /\ c.free_entry = At(f, 1) /\ \A k \in 1 .. Len(f) : c.next[f[k]] = At(f, k + 1)
      /\ Len(u) \in Nat /\ Len(f) \in Nat
  BY SMT, <1>1 DEF Linked, FreeLinked
<1>3. 1 \in 1 .. Len(f) /\ e = f[1] /\ e \in Entries /\ Contains(f, e) /\ ~ Contains(u, e)
  BY SMTT(30), <1>1, <1>2 DEF At, Contains, Shared
<1>. HIDE DEF e
<1>4. /\ d \in Caches
      /\ d.most_recent_entry = c.most_recent_entry /\ d.free_entry = c.next[e]
      /\ d.oldest_entry = IF c.oldest_entry = NoEntry THEN e ELSE c.oldest_entry
      /\ d.next = c.next /\ d.previous = c.previous /\ d.payload = c.payload
      /\ d.dohash = c.dohash /\ d.first_hash = c.first_hash /\ d.free_hash = c.free_hash
      /\ \A x \in Entries : d.variable[x] = IF x # e THEN c.variable[x]
                                            ELSE IF kind.var THEN "live" ELSE "null"
      /\ d.heap = IF c.variable[e] = "live" THEN "leak" ELSE c.heap
  BY <1>1, <1>3, FromFreeFields DEF e
<1>5. /\ g \in Seq(Entries) /\ IsInjective(g) /\ Len(g) = Len(f) - 1
      /\ \A k \in 1 .. Len(f) - 1 : g[k] = f[IF k < 1 THEN k ELSE k + 1]
      /\ \A x : Contains(g, x) <=> Contains(f, x) /\ x # e
  BY SMT, <1>2, <1>3, RemoveAtFacts, RemoveAtInjective
<1>6. /\ v \in Seq(Entries) /\ Len(v) = Len(u) + 1 /\ v[1] = e
      /\ \A x : Contains(v, x) <=> Contains(u, x) \/ x = e
  BY SMT, <1>2, <1>3, ConsFacts
<1>7. \A k \in 0 .. Len(f) : At(g, k) = At(f, IF k < 1 THEN k ELSE k + 1)
  BY <1>2, <1>3, AtRemove
<1>8. At(v, Len(u) + 1) = IF Len(u) + 1 = 1 THEN e ELSE At(u, Len(u))
  <2>1. \A k \in Nat : At(v, k) = IF k = 0 THEN NoEntry ELSE IF k = 1 THEN e ELSE At(u, k - 1)
    BY <1>2, <1>3, AtCons
  <2>2. Len(u) + 1 \in Nat /\ Len(u) + 1 # 0 /\ (Len(u) + 1) - 1 = Len(u)
    BY SMTT(30), <1>2
  <2>. HIDE DEF v
  <2>. QED
    BY <2>1, <2>2
<1>. HIDE DEF d, g, v
<1>9. Linked(d, u)
  BY <1>1, <1>4 DEF Linked
<1>10. d.oldest_entry = At(v, Len(u) + 1)
  <2>1. CASE Len(u) = 0
    <3>1. c.oldest_entry = NoEntry
      BY SMT, <1>1, <2>1 DEF Ends, At
    <3>. QED
      BY SMT, <1>4, <1>8, <2>1, <3>1
  <2>2. CASE Len(u) # 0
    <3>1. Len(u) \in 1 .. Len(u) /\ Len(u) + 1 # 1
      BY SMTT(30), <1>2, <2>2
    <3>2. c.oldest_entry = At(u, Len(u)) /\ At(u, Len(u)) = u[Len(u)] /\ u[Len(u)] # NoEntry
      BY SMTT(30), <1>1, <1>2, <3>1, AtPlace DEF Ends
    <3>. QED
      BY <1>4, <1>8, <3>1, <3>2
  <2>. QED
    BY <2>1, <2>2
<1>11. FreeLinked(d, g)
  <2>1. At(g, 1) = At(f, 2) /\ c.next[f[1]] = At(f, 2)
    <3>1. 1 \in 0 .. Len(f) /\ 1 + 1 = 2 /\ ~ (1 < 1)
      BY SMT, <1>2, <1>3
    <3>. QED
      BY <1>2, <1>3, <1>7, <3>1
  <2>2. d.free_entry = At(g, 1)
    BY <1>3, <1>4, <2>1
  <2>3. ASSUME NEW k \in 1 .. Len(g) PROVE d.next[g[k]] = At(g, k + 1)
    <3>1. k \in 1 .. Len(f) - 1 /\ k + 1 \in 1 .. Len(f) /\ k + 1 \in 0 .. Len(f) /\ ~ (k < 1) /\ ~ (k + 1 < 1)
      BY SMT, <1>2, <1>5
    <3>2. g[k] = f[k + 1] /\ At(g, k + 1) = At(f, (k + 1) + 1)
      BY <1>5, <1>7, <3>1
    <3>. QED
      BY <1>2, <1>4, <3>1, <3>2
  <2>. QED
    BY <1>5, <2>2, <2>3 DEF FreeLinked
<1>12. Shared(v, g)
  <2>1. Len(v) + Len(g) = ItemCount
    BY SMTT(30), <1>1, <1>2, <1>5, <1>6 DEF Shared
  <2>2. \A x \in Entries : Contains(v, x) <=> ~ Contains(g, x)
    BY Zenon, <1>1, <1>3, <1>5, <1>6 DEF Shared
  <2>. QED
    BY Zenon, <2>1, <2>2 DEF Shared
<1>13. KeysDiffer(d, u)
  BY Zenon, <1>1, <1>4 DEF KeysDiffer
<1>14. Hashed(d, u, Len(g) + 1)
  <2>1. Len(g) + 1 = Len(f)
    BY SMT, <1>2, <1>5
  <2>. QED
    BY SMTT(30), <1>1, <1>4, <2>1 DEF Hashed
<1>15. Blocks(d, v, kind)
  <2>1. c.variable[e] # "live" /\ c.heap = "ok"
    BY <1>1, <1>3 DEF Blocks
  <2>2. d.heap = "ok"
    BY <1>4, <2>1
  <2>3. ASSUME NEW x \in Entries
        PROVE  (d.variable[x] = "live" <=> kind.var /\ Contains(v, x)) /\ (d.variable[x] = "freed" => ~ Contains(v, x))
    <3>1. CASE x = e
      <4>1. kind.var \in BOOLEAN
        BY Zenon, <1>1, KindFields
      <4>. QED
        BY <1>3, <1>4, <1>6, <3>1, <4>1
    <3>2. CASE x # e
      BY SMTT(30), <1>1, <1>4, <1>6, <3>2 DEF Blocks
    <3>. QED
      BY <3>1, <3>2
  <2>. QED
    BY <2>2, <2>3 DEF Blocks
<1>16. Len(u) < ItemCount
  BY SMTT(30), <1>1, <1>2, <1>3 DEF Shared
<1>17. Ready(d, e, u, g, kind)
  BY Zenon, <1>1, <1>3, <1>4, <1>9, <1>10, <1>11, <1>12, <1>13, <1>14, <1>15 DEF Ready, v
<1>. QED
  BY <1>4, <1>16, <1>17 DEF d, e, g

\* What FromOldest does after the entry has left its hash chain.
TakenOver(c, e, q) == [Reallocated(c, e, FALSE) EXCEPT !.oldest_entry = q]

\* The fields it assigns.
LEMMA ReallocatedFields ==
    ASSUME NEW c \in Caches, NEW e \in Entries, NEW q \in Pointer, kind \in Kinds,
           c.variable[e] # "freed",
           NEW d, d = TakenOver(c, e, q)
    PROVE  /\ d \in Caches /\ d.oldest_entry = q
           /\ d.most_recent_entry = c.most_recent_entry /\ d.free_entry = c.free_entry
           /\ d.next = c.next /\ d.previous = c.previous /\ d.payload = c.payload
           /\ d.dohash = c.dohash /\ d.first_hash = c.first_hash /\ d.free_hash = c.free_hash
           /\ \A x \in Entries : d.variable[x] = IF x # e THEN c.variable[x]
                                                 ELSE IF kind.var THEN "live" ELSE "null"
           /\ d.heap = c.heap
<1>. USE Zenon
<1>. DEFINE v == IF kind.var THEN "live" ELSE "null"
            p == c.heap
            c1 == [c EXCEPT !.variable[e] = v]
            c2 == [c1 EXCEPT !.heap = p]
<1>1. v \in {"null", "live", "freed"} /\ p \in {"ok", "leak", "double_free"}
  BY DEF Caches
<1>2. Reallocated(c, e, FALSE) = c2
  BY DEF Reallocated
<1>3. d = [c2 EXCEPT !.oldest_entry = q]
  BY <1>2 DEF TakenOver
<1>. HIDE DEF v, p
<1>4. /\ c1 \in Caches /\ SamePointers(c, c1) /\ c1.payload = c.payload /\ c1.dohash = c.dohash
      /\ c1.first_hash = c.first_hash /\ c1.free_hash = c.free_hash
      /\ \A x \in Entries : c1.variable[x] = IF x # e THEN c.variable[x] ELSE v
  BY <1>1 DEF Caches, SamePointers
<1>. HIDE DEF c1
<1>5. /\ c2 \in Caches /\ SamePointers(c1, c2) /\ c2.payload = c1.payload /\ c2.dohash = c1.dohash
      /\ c2.first_hash = c1.first_hash /\ c2.free_hash = c1.free_hash
      /\ c2.variable = c1.variable /\ c2.heap = p
  BY <1>1, <1>4 DEF Caches, SamePointers
<1>. HIDE DEF c2
<1>6. /\ d \in Caches /\ SameRest(c2, d) /\ d.free_entry = c2.free_entry /\ d.oldest_entry = q
      /\ d.next = c2.next /\ d.previous = c2.previous
      /\ d.most_recent_entry = c2.most_recent_entry
  BY <1>1, <1>3, <1>5 DEF Caches, SameRest
<1>7. /\ d.most_recent_entry = c.most_recent_entry /\ d.next = c.next /\ d.previous = c.previous
      /\ d.free_entry = c.free_entry
      /\ d.payload = c.payload /\ d.dohash = c.dohash /\ d.first_hash = c.first_hash
      /\ d.free_hash = c.free_hash /\ d.heap = p
      /\ \A x \in Entries : d.variable[x] = IF x # e THEN c.variable[x] ELSE v
  BY <1>4, <1>5, <1>6 DEF SameRest, SamePointers
<1>. QED
  BY <1>6, <1>7 DEF v, p

\* With no free entry, the last one of the list can be taken.
LEMMA FromOldestReady ==
    ASSUME NEW c, NEW u, NEW f, Good(c, u, f, kind), c.free_entry = NoEntry
    PROVE  LET d == FromOldest(c, FALSE)
           IN  /\ Len(u) = ItemCount /\ c.oldest_entry = u[Len(u)]
               /\ Ready(d, c.oldest_entry, RemoveAt(u, Len(u)), f, kind) /\ d.payload = c.payload
<1>. USE Zenon
<1>. DEFINE N == Len(u)
            e == c.oldest_entry
            p == c.previous[e]
            b == SetNext(c, p, NoEntry)
            a == drophashindex(b, e)
            d == FromOldest(c, FALSE)
            w == RemoveAt(u, N)
            v == <<e>> \o w
            r == Unlink(c, e)
<1>1. /\ c \in Caches /\ kind \in Kinds /\ Linked(c, u) /\ Ends(c, u) /\ FreeLinked(c, f) /\ Shared(u, f)
      /\ KeysDiffer(c, u) /\ c.dohash = kind.hash /\ Hashed(c, u, Len(f)) /\ Blocks(c, u, kind)
  BY DEF Good, Lists
<1>2. /\ u \in Seq(Entries) /\ IsInjective(u) /\ f \in Seq(Entries) /\ IsInjective(f)
      /\ c.free_entry = At(f, 1) /\ N \in Nat /\ Len(f) \in Nat
      /\ \A k \in 1 .. N : c.next[u[k]] = At(u, k + 1) /\ c.previous[u[k]] = At(u, k - 1)
  BY SMT, <1>1 DEF Linked, FreeLinked
<1>3. Len(f) = 0 /\ N = ItemCount /\ N >= 3
  <2>1. Len(f) = 0
    <3>1. 1 \in 1 .. Len(f) => At(f, 1) # NoEntry
      BY SMT, <1>2, AtPlace
    <3>. QED
      BY SMT, <1>2, <3>1
  <2>. QED
    BY SMT, <1>1, <1>2, <2>1, CacheAssumption DEF Shared
<1>4. N \in 1 .. N /\ N - 1 \in 1 .. N /\ N + 1 \notin 1 .. N /\ N + 1 \in Int /\ N - 1 \in Int /\ N - 1 # N
  BY SMTT(30), <1>2, <1>3
<1>5. e = u[N] /\ e \in Entries /\ Contains(u, e)
  BY SMTT(30), <1>1, <1>2, <1>4, AtPlace DEF Ends, Contains
<1>6. p = u[N - 1] /\ p \in Entries /\ p # NoEntry /\ p # e /\ c.next[e] = NoEntry
  <2>1. p = At(u, N - 1) /\ c.next[e] = At(u, N + 1)
    BY <1>2, <1>4, <1>5
  <2>2. At(u, N + 1) = NoEntry
    BY <1>4 DEF At
  <2>3. At(u, N - 1) = u[N - 1] /\ u[N - 1] \in Entries /\ u[N - 1] # NoEntry
    BY <1>2, <1>4, AtPlace
  <2>4. At(u, N - 1) = u[N] <=> N - 1 = N
    <3>1. u \in Seq(Entries) /\ IsInjective(u)
      BY Zenon, <1>2
    <3>2. ASSUME NEW i \in 1 .. Len(u), NEW k \in Int
          PROVE  At(u, k) = u[i] <=> k = i
      BY SMT, <3>1, AtPlace
    <3>. QED
      BY Zenon, <1>4, <3>2
  <2>. QED
    BY Zenon, <1>4, <1>5, <2>1, <2>2, <2>3, <2>4
<1>. HIDE DEF N, e, p
<1>7. /\ b \in Caches /\ SameRest(c, b) /\ b.previous = c.previous /\ b.free_entry = c.free_entry
      /\ b.most_recent_entry = c.most_recent_entry
      /\ \A x \in Entries : b.next[x] = IF x = p THEN NoEntry ELSE c.next[x]
  BY ZenonT(40), <1>1, <1>6 DEF SetNext, Caches, SameRest, Pointer
<1>. HIDE DEF b
<1>8. Hashed(b, u, 0) /\ b.payload[e] \in Keys
  BY SMT, <1>1, <1>3, <1>5, <1>7 DEF Hashed, SameRest, KeysDiffer
<1>9. /\ a \in Caches /\ SamePointers(b, a) /\ a.dohash = b.dohash
      /\ a.payload = b.payload /\ a.variable = b.variable /\ a.heap = b.heap
      /\ IF b.dohash
         THEN /\ \A h \in Hashes :
                     /\ IsInjective(a.first_hash[h])
                     /\ \A x \in Entries : Contains(a.first_hash[h], x) <=>
                           Contains(u, x) /\ x # e /\ Hash[b.payload[x]] = h
              /\ a.free_hash = 0 + 1
         ELSE a.free_hash = 0
  BY SMT, <1>5, <1>7, <1>8, DropHash
<1>10. d = TakenOver(a, e, p)
  BY Zenon DEF FromOldest, TakenOver, a, b, e, p
<1>. HIDE DEF a
<1>11. a.variable[e] # "freed" /\ c.heap = "ok" /\ p \in Pointer
  BY SMTT(30), <1>1, <1>5, <1>6, <1>7, <1>9 DEF Blocks, SameRest, Pointer
<1>12. /\ d \in Caches /\ d.oldest_entry = p
       /\ d.most_recent_entry = a.most_recent_entry /\ d.free_entry = a.free_entry
       /\ d.next = a.next /\ d.previous = a.previous /\ d.payload = a.payload
       /\ d.dohash = a.dohash /\ d.first_hash = a.first_hash /\ d.free_hash = a.free_hash
       /\ \A x \in Entries : d.variable[x] = IF x # e THEN a.variable[x]
                                             ELSE IF kind.var THEN "live" ELSE "null"
       /\ d.heap = a.heap
  <2>. HIDE DEF d
  <2>1. a \in Caches /\ e \in Entries /\ p \in Pointer /\ kind \in Kinds /\ a.variable[e] # "freed"
    BY <1>1, <1>5, <1>9, <1>11
  <2>. QED
    BY SMT, <1>10, <2>1, ReallocatedFields
<1>. HIDE DEF d
<1>13. /\ w \in Seq(Entries) /\ IsInjective(w) /\ Len(w) = N - 1
       /\ \A x : Contains(w, x) <=> Contains(u, x) /\ x # e
  BY <1>2, <1>4, <1>5, RemoveAtFacts, RemoveAtInjective DEF N
<1>14. Linked(r, w) /\ Ends(r, w)
  BY Zenon, <1>1, <1>4, <1>5, UnlinkList DEF N
<1>15. /\ r.oldest_entry = p /\ r.most_recent_entry = c.most_recent_entry
       /\ \A x \in Entries : r.next[x] = IF x = p THEN NoEntry ELSE c.next[x]
       /\ \A x \in Entries : r.previous[x] = IF x = NoEntry THEN p ELSE c.previous[x]
  <2>1. /\ r.oldest_entry = IF c.next[e] = NoEntry THEN c.previous[e] ELSE c.oldest_entry
        /\ r.most_recent_entry = IF c.previous[e] = NoEntry THEN c.next[e] ELSE c.most_recent_entry
        /\ \A x \in Entries : r.next[x] = IF x = c.previous[e] THEN c.next[e] ELSE c.next[x]
        /\ \A x \in Entries : r.previous[x] = IF x = c.next[e] THEN c.previous[e] ELSE c.previous[x]
    <3>1. c \in Caches /\ e \in Entries
      BY <1>1, <1>5
    <3>. QED
      BY SMT, <3>1, UnlinkFields
  <2>2. p = c.previous[e]
    BY DEF p
  <2>. HIDE DEF r
  <2>. QED
    BY Zenon, <1>6, <2>1, <2>2
<1>16. /\ v \in Seq(Entries) /\ Len(v) = N
       /\ \A x : Contains(v, x) <=> Contains(w, x) \/ x = e
  <2>. HIDE DEF w
  <2>1. /\ v \in Seq(Entries) /\ Len(v) = Len(w) + 1
        /\ \A x : Contains(v, x) <=> Contains(w, x) \/ x = e
    BY SMT, <1>5, <1>13, ConsFacts
  <2>2. Len(w) + 1 = N
    BY SMT, <1>2, <1>13
  <2>. HIDE DEF v
  <2>. QED
    BY <2>1, <2>2
<1>17. At(v, Len(w) + 1) = At(w, Len(w))
  <2>. HIDE DEF w
  <2>1. Len(w) \in Nat /\ Len(w) + 1 \in Nat /\ (Len(w) + 1) - 1 = Len(w) /\ Len(w) + 1 # 0 /\ Len(w) + 1 # 1
    BY SMT, <1>2, <1>3, <1>13
  <2>2. \A k \in Nat : At(v, k) = IF k = 0 THEN NoEntry ELSE IF k = 1 THEN e ELSE At(w, k - 1)
    BY Zenon, <1>5, <1>13, AtCons
  <2>. HIDE DEF v
  <2>. QED
    BY <2>1, <2>2
<1>. HIDE DEF r, v, w
<1>18. Linked(d, w) /\ d.oldest_entry = At(v, Len(w) + 1)
  <2>1. \A k \in 1 .. Len(w) : w[k] \in Entries /\ w[k] # NoEntry
    BY SMTT(30), <1>13, CacheAssumption DEF Entries, NoEntry
  <2>2. d.most_recent_entry = r.most_recent_entry /\ d.oldest_entry = r.oldest_entry
    BY Zenon, <1>7, <1>9, <1>12, <1>15 DEF SamePointers
  <2>3. \A x \in Entries : d.next[x] = r.next[x] /\ (x # NoEntry => d.previous[x] = r.previous[x])
    BY SMTT(30), <1>7, <1>9, <1>12, <1>15 DEF SamePointers
  <2>. QED
    BY <1>14, <1>17, <2>1, <2>2, <2>3 DEF Linked, Ends
<1>19. FreeLinked(d, f)
  <2>1. 1 .. Len(f) = {}
    BY SMT, <1>3
  <2>2. d.free_entry = c.free_entry
    BY <1>7, <1>9, <1>12 DEF SamePointers
  <2>. QED
    BY <1>1, <2>1, <2>2 DEF FreeLinked
<1>20. Shared(v, f)
  BY <1>1, <1>5, <1>13, <1>16 DEF Shared, N
<1>21. KeysDiffer(d, w) /\ d.payload = c.payload
  <2>1. d.payload = c.payload
    BY <1>7, <1>9, <1>12 DEF SameRest
  <2>. QED
    BY <1>1, <1>13, <2>1 DEF KeysDiffer
<1>22. Hashed(d, w, Len(f) + 1) /\ d.dohash = kind.hash
  <2>1. b.payload = c.payload /\ b.dohash = c.dohash
    BY <1>7 DEF SameRest
  <2>2. d.payload = c.payload /\ d.dohash = c.dohash /\ d.first_hash = a.first_hash
        /\ d.free_hash = a.free_hash /\ c.dohash = kind.hash /\ Len(f) + 1 = 0 + 1
    BY <1>1, <1>3, <1>9, <1>12, <2>1
  <2>3. CASE b.dohash
    BY SMT, <1>9, <1>13, <2>1, <2>2, <2>3 DEF Hashed
  <2>4. CASE ~ b.dohash
    BY <1>9, <2>1, <2>2, <2>4 DEF Hashed
  <2>. QED
    BY <2>3, <2>4
<1>23. Blocks(d, v, kind)
  <2>1. d.heap = "ok" /\ a.variable = c.variable
    BY Zenon, <1>7, <1>9, <1>11, <1>12 DEF SameRest
  <2>2. ASSUME NEW x \in Entries
        PROVE  (d.variable[x] = "live" <=> kind.var /\ Contains(v, x)) /\ (d.variable[x] = "freed" => ~ Contains(v, x))
    <3>1. CASE x = e
      <4>1. kind.var \in BOOLEAN
        BY Zenon, <1>1, KindFields
      <4>. QED
        BY <1>5, <1>12, <1>16, <3>1, <4>1
    <3>2. CASE x # e
      BY SMTT(30), <1>1, <1>12, <1>13, <1>16, <2>1, <3>2 DEF Blocks
    <3>. QED
      BY <3>1, <3>2
  <2>. QED
    BY <2>1, <2>2 DEF Blocks
<1>24. Ready(d, e, w, f, kind)
  BY <1>1, <1>5, <1>12, <1>13, <1>18, <1>19, <1>20, <1>21, <1>22, <1>23 DEF Ready, v
<1>. QED
  BY ZenonT(40), <1>3, <1>5, <1>21, <1>24 DEF d, e, w, N

\* inserthashindex adds an entry to the chain of its key.
LEMMA InsertHash ==
    ASSUME NEW c \in Caches, NEW e \in Entries, c.payload[e] \in Keys,
           c.dohash => c.free_hash # 0
    PROVE  LET d == inserthashindex(c, e)
           IN  /\ d \in Caches /\ SamePointers(c, d) /\ d.dohash = c.dohash
               /\ d.payload = c.payload /\ d.variable = c.variable /\ d.heap = c.heap
               /\ d.free_hash = IF c.dohash THEN c.free_hash - 1 ELSE c.free_hash
               /\ c.dohash => \A h \in Hashes :
                     d.first_hash[h] = IF h = Hash[c.payload[e]] THEN <<e>> \o c.first_hash[h]
                                                                 ELSE c.first_hash[h]
<1>. USE Zenon
<1>. DEFINE h == Hash[c.payload[e]]
            g == <<e>> \o c.first_hash[h]
            z == c.free_hash - 1
            c0 == [c EXCEPT !.free_hash = z]
            d == inserthashindex(c, e)
<1>1. h \in Hashes
  BY CacheAssumption
<1>2. CASE ~ c.dohash
  BY <1>2 DEF inserthashindex, SamePointers
<1>3. CASE c.dohash
  <2>1. c.first_hash[h] \in Seq(Entries) /\ c.free_hash \in Nat
    BY <1>1 DEF Caches
  <2>2. g \in Seq(Entries) /\ z \in Nat
    <3>. HIDE DEF h
    <3>1. g \in Seq(Entries)
      BY <2>1, ConsFacts
    <3>2. z \in Nat
      BY SMT, <1>3, <2>1
    <3>. QED
      BY <3>1, <3>2
  <2>3. d = [c0 EXCEPT !.first_hash[h] = g]
    BY <1>1, <1>3 DEF inserthashindex, Caches
  <2>4. g = <<e>> \o c.first_hash[h]
    OBVIOUS
  <2>. HIDE DEF h, g, z, d
  <2>5. /\ c0 \in Caches /\ SamePointers(c, c0) /\ c0.dohash = c.dohash /\ c0.first_hash = c.first_hash
        /\ c0.payload = c.payload /\ c0.variable = c.variable /\ c0.heap = c.heap
        /\ c0.free_hash = z
    BY <2>2 DEF Caches, SamePointers
  <2>. HIDE DEF c0
  <2>6. /\ d \in Caches /\ SamePointers(c0, d) /\ d.dohash = c0.dohash /\ d.free_hash = c0.free_hash
        /\ d.payload = c0.payload /\ d.variable = c0.variable /\ d.heap = c0.heap
        /\ \A k \in Hashes : d.first_hash[k] = IF k = h THEN g ELSE c0.first_hash[k]
    BY <1>1, <2>2, <2>3, <2>5 DEF Caches, SamePointers
  <2>7. \A k \in Hashes : d.first_hash[k] = IF k = h THEN <<e>> \o c.first_hash[k] ELSE c.first_hash[k]
    BY <2>4, <2>5, <2>6
  <2>8. SamePointers(c, d)
    BY <2>5, <2>6 DEF SamePointers
  <2>9. d.free_hash = c.free_hash - 1
    BY <2>5, <2>6 DEF z
  <2>. QED
    BY <1>3, <2>5, <2>6, <2>7, <2>8, <2>9 DEF d, h
<1>. QED
  BY <1>2, <1>3

\* The new key and its entry, linked as the first of the list.
Filled(c, e, k) == [LinkFirst(c, e) EXCEPT !.payload[e] = k]

\* A taken entry becomes the first of the list and holds the new key.
LEMMA FilledGood ==
    ASSUME NEW c, NEW e, NEW w, NEW g, NEW knd, Ready(c, e, w, g, knd), NEW k \in Keys,
           \A x \in Entries : Contains(w, x) => c.payload[x] # k
    PROVE  LET d == inserthashindex(Filled(c, e, k), e)
           IN  /\ Good(d, <<e>> \o w, g, knd)
               /\ d.payload = [c.payload EXCEPT ![e] = k]
<1>. USE Zenon
<1>. DEFINE v == <<e>> \o w
            b == LinkFirst(c, e)
            a == Filled(c, e, k)
            d == inserthashindex(a, e)
<1>1. /\ c \in Caches /\ knd \in Kinds /\ e \in Entries /\ ~ Contains(w, e)
      /\ Linked(c, w) /\ c.oldest_entry = At(v, Len(w) + 1)
      /\ FreeLinked(c, g) /\ Shared(v, g) /\ KeysDiffer(c, w)
      /\ c.dohash = knd.hash /\ Hashed(c, w, Len(g) + 1) /\ Blocks(c, v, knd)
  BY DEF Ready
<1>2. w \in Seq(Entries) /\ IsInjective(w) /\ g \in Seq(Entries) /\ Len(g) \in Nat
  BY SMT, <1>1 DEF Linked, FreeLinked
<1>3. Linked(b, v) /\ c.most_recent_entry # e
  BY <1>1, LinkFirstList
<1>4. /\ b \in Caches /\ SameRest(c, b) /\ b.free_entry = c.free_entry
      /\ b.oldest_entry = c.oldest_entry
      /\ \A x \in Entries : b.next[x] = IF x = e THEN c.most_recent_entry ELSE c.next[x]
  BY SMT, <1>1, <1>3, LinkFirstFields
<1>5. /\ v \in Seq(Entries) /\ Len(v) = Len(w) + 1
      /\ \A x : Contains(v, x) <=> Contains(w, x) \/ x = e
  BY SMT, <1>1, <1>2, ConsFacts
<1>. HIDE DEF b, v
<1>6. /\ a \in Caches /\ SamePointers(b, a) /\ a.variable = b.variable /\ a.heap = b.heap
      /\ a.dohash = b.dohash /\ a.first_hash = b.first_hash /\ a.free_hash = b.free_hash
      /\ a.payload = [b.payload EXCEPT ![e] = k]
  <2>1. k \in Payloads
    BY DEF Payloads
  <2>2. a = [b EXCEPT !.payload[e] = k]
    BY DEF Filled, b
  <2>. HIDE DEF a
  <2>. QED
    BY <1>1, <1>4, <2>1, <2>2 DEF Caches, SamePointers
<1>. HIDE DEF a
<1>7. a.payload[e] = k /\ \A x \in Entries : x # e => a.payload[x] = c.payload[x]
  BY SMT, <1>1, <1>4, <1>6 DEF Caches, SameRest
<1>8. a.dohash => a.free_hash # 0
  BY SMT, <1>1, <1>2, <1>4, <1>6 DEF SameRest, Hashed
<1>9. /\ d \in Caches /\ SamePointers(a, d) /\ d.dohash = a.dohash
      /\ d.payload = a.payload /\ d.variable = a.variable /\ d.heap = a.heap
      /\ d.free_hash = IF a.dohash THEN a.free_hash - 1 ELSE a.free_hash
      /\ a.dohash => \A h \in Hashes :
            d.first_hash[h] = IF h = Hash[a.payload[e]] THEN <<e>> \o a.first_hash[h]
                                                        ELSE a.first_hash[h]
  <2>1. a \in Caches /\ e \in Entries /\ a.payload[e] \in Keys
    BY <1>1, <1>6, <1>7
  <2>. QED
    BY <1>8, <2>1, InsertHash
<1>. HIDE DEF d
<1>10. Linked(d, v) /\ Ends(d, v)
  BY SMT, <1>1, <1>3, <1>4, <1>5, <1>6, <1>9 DEF Linked, Ends, SamePointers
<1>11. FreeLinked(d, g)
  <2>1. \A j \in 1 .. Len(g) : g[j] \in Entries /\ Contains(g, g[j])
    BY SMT, <1>2 DEF Contains
  <2>2. \A j \in 1 .. Len(g) : g[j] # e
    BY <1>1, <1>5, <2>1 DEF Shared
  <2>3. \A x \in Entries : x # e => d.next[x] = c.next[x]
    BY SMT, <1>4, <1>6, <1>9 DEF SamePointers
  <2>4. d.free_entry = c.free_entry
    BY <1>4, <1>6, <1>9 DEF SamePointers
  <2>. QED
    BY <1>1, <2>1, <2>2, <2>3, <2>4 DEF FreeLinked
<1>12. KeysDiffer(d, v)
  <2>1. \A x \in Entries : Contains(v, x) => d.payload[x] \in Keys
    BY SMT, <1>1, <1>5, <1>7, <1>9 DEF KeysDiffer
  <2>2. ASSUME NEW x \in Entries, NEW y \in Entries, Contains(v, x), Contains(v, y), d.payload[x] = d.payload[y]
        PROVE  x = y
    <3>1. CASE x = e
      BY SMT, <1>5, <1>7, <1>9, <2>2, <3>1
    <3>2. CASE y = e
      BY SMT, <1>5, <1>7, <1>9, <2>2, <3>2
    <3>3. CASE x # e /\ y # e
      BY SMT, <1>1, <1>5, <1>7, <1>9, <2>2, <3>3 DEF KeysDiffer
    <3>. QED
      BY <3>1, <3>2, <3>3
  <2>. QED
    BY <2>1, <2>2 DEF KeysDiffer
<1>13. Hashed(d, v, Len(g)) /\ d.dohash = knd.hash
  <2>1. a.dohash = c.dohash /\ a.first_hash = c.first_hash /\ a.free_hash = c.free_hash
    BY <1>4, <1>6 DEF SameRest
  <2>2. CASE ~ a.dohash
    BY <1>1, <1>9, <2>1, <2>2 DEF Hashed
  <2>3. CASE a.dohash
    <3>1. /\ c.free_hash = Len(g) + 1 /\ c.first_hash \in [Hashes -> Seq(Entries)]
          /\ \A h \in Hashes :
                /\ IsInjective(c.first_hash[h])
                /\ \A x \in Entries : Contains(c.first_hash[h], x) <=>
                                         Contains(w, x) /\ Hash[c.payload[x]] = h
      BY <1>1, <2>1, <2>3 DEF Hashed, Caches
    <3>2. d.free_hash = Len(g)
      BY SMT, <1>2, <1>9, <2>1, <2>3, <3>1
    <3>3. ASSUME NEW h \in Hashes
          PROVE  /\ IsInjective(d.first_hash[h])
                 /\ \A x \in Entries : Contains(d.first_hash[h], x) <=>
                                          Contains(v, x) /\ Hash[d.payload[x]] = h
      <4>. DEFINE s == c.first_hash[h]
      <4>1. s \in Seq(Entries) /\ IsInjective(s) /\ ~ Contains(s, e)
        BY <1>1, <3>1
      <4>2. \A x \in Entries : Contains(s, x) <=> Contains(w, x) /\ Hash[d.payload[x]] = h
        BY SMT, <1>1, <1>7, <1>9, <3>1
      <4>3. CASE h = Hash[k]
        <5>1. d.first_hash[h] = <<e>> \o s
          BY ZenonT(40), <1>7, <1>9, <2>1, <2>3, <4>3
        <5>. HIDE DEF s
        <5>2. IsInjective(<<e>> \o s) /\ \A x : Contains(<<e>> \o s, x) <=> Contains(s, x) \/ x = e
          BY SMT, <1>1, <4>1, ConsFacts
        <5>. QED
          BY <1>1, <1>5, <1>7, <1>9, <4>2, <4>3, <5>1, <5>2
      <4>4. CASE h # Hash[k]
        <5>1. d.first_hash[h] = s
          BY <1>7, <1>9, <2>1, <2>3, <4>4
        <5>. HIDE DEF s
        <5>. QED
          BY <1>1, <1>5, <1>7, <1>9, <4>1, <4>2, <4>4, <5>1
      <4>. QED
        BY <4>3, <4>4
    <3>. QED
      BY <1>1, <1>9, <2>1, <2>3, <3>2, <3>3 DEF Hashed
  <2>. QED
    BY <2>2, <2>3
<1>14. Blocks(d, v, knd)
  BY SMT, <1>1, <1>4, <1>6, <1>9 DEF Blocks, SameRest
<1>15. Good(d, v, g, knd)
  BY <1>1, <1>9, <1>10, <1>11, <1>12, <1>13, <1>14 DEF Good, Lists
<1>16. d.payload = [c.payload EXCEPT ![e] = k]
  BY <1>4, <1>6, <1>9 DEF SameRest
<1>. QED
  BY <1>15, <1>16 DEF d, a, v

-----------------------------------------------------------------------------
(* The list of the keys, most recent first.                                *)

\* The keys that the entries of a list hold.
Image(m, s) == [i \in 1 .. Len(s) |-> m[s[i]]]

\* The keys of a list of entries, one for each entry.
LEMMA ImageFacts ==
    ASSUME NEW m \in [Entries -> Payloads], NEW s \in Seq(Entries)
    PROVE  /\ Image(m, s) \in Seq(Payloads) /\ Len(Image(m, s)) = Len(s)
           /\ \A i \in 1 .. Len(s) : Image(m, s)[i] = m[s[i]]
<1>1. Len(s) \in Nat /\ \A i \in 1 .. Len(s) : m[s[i]] \in Payloads
  OBVIOUS
<1>. QED
  BY <1>1 DEF Image

\* The keys of a list with an entry appended.
LEMMA ImageAppend ==
    ASSUME NEW m \in [Entries -> Payloads], NEW s \in Seq(Entries), NEW x \in Entries
    PROVE  Image(m, Append(s, x)) = Append(Image(m, s), m[x])
<1>. USE Zenon
<1>. DEFINE N == Len(s)
            a == Append(s, x)
            y == Image(m, s)
            z == Append(y, m[x])
            w == Image(m, a)
<1>1. /\ N \in Nat /\ a \in Seq(Entries) /\ Len(a) = N + 1 /\ a[N + 1] = x
      /\ \A i \in 1 .. N : a[i] = s[i]
  BY SMT
<1>2. y \in Seq(Payloads) /\ Len(y) = N /\ (\A i \in 1 .. N : y[i] = m[s[i]]) /\ m[x] \in Payloads
  <2>1. /\ Image(m, s) \in Seq(Payloads) /\ Len(Image(m, s)) = Len(s)
        /\ \A i \in 1 .. Len(s) : Image(m, s)[i] = m[s[i]]
    BY ImageFacts
  <2>2. m[x] \in Payloads
    OBVIOUS
  <2>. QED
    BY <2>1, <2>2
<1>. HIDE DEF a, y
<1>3. w \in Seq(Payloads) /\ Len(w) = N + 1 /\ \A i \in 1 .. N + 1 : w[i] = m[a[i]]
  <2>1. /\ Image(m, a) \in Seq(Payloads) /\ Len(Image(m, a)) = Len(a)
        /\ \A i \in 1 .. Len(a) : Image(m, a)[i] = m[a[i]]
    BY <1>1, ImageFacts
  <2>. QED
    BY <1>1, <2>1
<1>. HIDE DEF N, w
<1>4. z \in Seq(Payloads) /\ Len(z) = N + 1 /\ z[N + 1] = m[x] /\ \A i \in 1 .. N : z[i] = y[i]
  BY SMT, <1>1, <1>2
<1>. HIDE DEF z
<1>5. \A i \in 1 .. N + 1 : i = N + 1 \/ i \in 1 .. N
  BY SMT, <1>1
<1>6. \A i \in 1 .. N + 1 : w[i] = z[i]
  BY SMT, <1>1, <1>2, <1>3, <1>4, <1>5
<1>7. w = z
  BY <1>3, <1>4, <1>6, SeqEqual
<1>. QED
  BY <1>7 DEF w, z, a, y

\* The keys of a list with a new first entry.
LEMMA ImageCons ==
    ASSUME NEW m \in [Entries -> Payloads], NEW s \in Seq(Entries), NEW x \in Entries
    PROVE  Image(m, <<x>> \o s) = <<m[x]>> \o Image(m, s)
<1>. USE Zenon
<1>. DEFINE N == Len(s)
            a == <<x>> \o s
            y == Image(m, s)
            z == <<m[x]>> \o y
            w == Image(m, a)
<1>1. /\ N \in Nat /\ a \in Seq(Entries) /\ Len(a) = N + 1 /\ a[1] = x
      /\ \A i \in 2 .. N + 1 : a[i] = s[i - 1]
  BY SMT, ConsFacts
<1>2. y \in Seq(Payloads) /\ Len(y) = N /\ (\A i \in 1 .. N : y[i] = m[s[i]]) /\ m[x] \in Payloads
  <2>1. /\ Image(m, s) \in Seq(Payloads) /\ Len(Image(m, s)) = Len(s)
        /\ \A i \in 1 .. Len(s) : Image(m, s)[i] = m[s[i]]
    BY ImageFacts
  <2>2. m[x] \in Payloads
    OBVIOUS
  <2>. QED
    BY <2>1, <2>2
<1>. HIDE DEF a, y
<1>3. w \in Seq(Payloads) /\ Len(w) = N + 1 /\ \A i \in 1 .. N + 1 : w[i] = m[a[i]]
  <2>1. /\ Image(m, a) \in Seq(Payloads) /\ Len(Image(m, a)) = Len(a)
        /\ \A i \in 1 .. Len(a) : Image(m, a)[i] = m[a[i]]
    BY <1>1, ImageFacts
  <2>. QED
    BY <1>1, <2>1
<1>. HIDE DEF N, w
<1>4. z \in Seq(Payloads) /\ Len(z) = N + 1 /\ z[1] = m[x] /\ \A i \in 2 .. N + 1 : z[i] = y[i - 1]
  BY SMT, <1>1, <1>2, ConsFacts
<1>. HIDE DEF z
<1>5. \A i \in 1 .. N + 1 : i = 1 \/ (i \in 2 .. N + 1 /\ i - 1 \in 1 .. N)
  BY SMT, <1>1
<1>6. ASSUME NEW i \in 1 .. N + 1 PROVE w[i] = z[i]
  <2>1. CASE i = 1
    <3>1. w[1] = m[a[1]]
      BY <1>3, <2>1
    <3>. QED
      BY <1>1, <1>4, <2>1, <3>1
  <2>2. CASE i \in 2 .. N + 1 /\ i - 1 \in 1 .. N
    <3>1. w[i] = m[s[i - 1]]
      BY <1>1, <1>3, <2>2
    <3>2. z[i] = m[s[i - 1]]
      BY <1>2, <1>4, <2>2
    <3>. QED
      BY <3>1, <3>2
  <2>. QED
    BY <1>5, <2>1, <2>2
<1>7. w = z
  BY <1>3, <1>4, <1>6, SeqEqual
<1>. QED
  BY <1>7 DEF w, z, a, y

\* Forgetting entries of the list forgets their keys.
LEMMA WithoutImage ==
    ASSUME NEW m \in [Entries -> Payloads], NEW s \in Seq(Entries), NEW D, NEW E,
           \A i \in 1 .. Len(s) : s[i] \in D <=> m[s[i]] \in E
    PROVE  Without(Image(m, s), E) = Image(m, Without(s, D))
<1>. USE Zenon
<1>. DEFINE N == Len(s)
            y == Image(m, s)
<1>1. /\ N \in Nat /\ y \in Seq(Payloads) /\ Len(y) = N /\ \A i \in 1 .. N : s[i] \in Entries /\ y[i] = m[s[i]]
  <2>1. /\ Image(m, s) \in Seq(Payloads) /\ Len(Image(m, s)) = Len(s)
        /\ \A i \in 1 .. Len(s) : Image(m, s)[i] = m[s[i]]
    BY ImageFacts
  <2>2. Len(s) \in Nat /\ \A i \in 1 .. Len(s) : s[i] \in Entries
    BY SMT
  <2>. QED
    BY <2>1, <2>2
<1>. HIDE DEF y
<1>2. PICK k : Keeps(k, Entries, s, D) /\ Without(s, D) = k[N]
  BY WithoutKept
<1>3. PICK l : Keeps(l, Payloads, y, E) /\ Without(y, E) = l[N]
  BY SMT, <1>1, WithoutKept
<1>4. /\ \A n \in 0 .. N : k[n] \in Seq(Entries)
      /\ \A n \in 1 .. N : k[n] = IF s[n] \in D THEN k[n - 1] ELSE Append(k[n - 1], s[n])
      /\ \A n \in 1 .. N : l[n] = IF y[n] \in E THEN l[n - 1] ELSE Append(l[n - 1], y[n])
      /\ k[0] = << >> /\ l[0] = << >>
  BY Zenon, <1>1, <1>2, <1>3 DEF Keeps
<1>. DEFINE T == {n \in 0 .. N : l[n] = Image(m, k[n])}
<1>5. \A n \in 1 .. N : s[n] \in D <=> y[n] \in E
  BY <1>1
<1>. HIDE DEF N
<1>6. 0 \in T
  <2>1. Image(m, << >>) = << >>
    BY SMT DEF Image
  <2>. QED
    BY SMT, <1>1, <1>4, <2>1
<1>7. ASSUME NEW n \in 1 .. N, n - 1 \in T PROVE n \in T
  <2>1. n - 1 \in 0 .. N /\ n \in 0 .. N /\ l[n - 1] = Image(m, k[n - 1])
    BY SMT, <1>1, <1>7
  <2>2. CASE s[n] \in D
    <3>1. l[n] = l[n - 1] /\ k[n] = k[n - 1]
      BY <1>4, <1>5, <2>2
    <3>. QED
      BY <2>1, <3>1
  <2>3. CASE s[n] \notin D
    <3>1. l[n] = Append(l[n - 1], m[s[n]]) /\ k[n] = Append(k[n - 1], s[n])
      <4>1. y[n] \notin E /\ y[n] = m[s[n]]
        BY <1>1, <1>5, <2>3
      <4>2. l[n] = Append(l[n - 1], y[n])
        BY <1>4, <4>1
      <4>3. k[n] = Append(k[n - 1], s[n])
        BY <1>4, <2>3
      <4>. QED
        BY <4>1, <4>2, <4>3
    <3>2. k[n - 1] \in Seq(Entries) /\ s[n] \in Entries
      BY <1>1, <1>4, <2>1
    <3>3. Image(m, Append(k[n - 1], s[n])) = Append(Image(m, k[n - 1]), m[s[n]])
      BY <3>2, ImageAppend
    <3>. QED
      BY <2>1, <3>1, <3>3
  <2>. QED
    BY <2>2, <2>3
<1>8. 0 .. N \subseteq T
  <2>. HIDE DEF T
  <2>. QED
    BY <1>1, <1>6, <1>7, UpTo
<1>9. l[N] = Image(m, k[N])
  BY SMT, <1>1, <1>8
<1>. QED
  BY <1>2, <1>3, <1>9 DEF y

\* The keys of a list do not change with an entry that is not in it.
LEMMA ImageFrame ==
    ASSUME NEW m \in [Entries -> Payloads], NEW s \in Seq(Entries), NEW e \in Entries, ~ Contains(s, e),
           NEW k \in Payloads
    PROVE  Image([m EXCEPT ![e] = k], s) = Image(m, s)
<1>. USE Zenon
<1>. DEFINE q == [m EXCEPT ![e] = k]
<1>1. q \in [Entries -> Payloads] /\ \A x \in Entries : x # e => q[x] = m[x]
  OBVIOUS
<1>2. \A i \in 1 .. Len(s) : s[i] \in Entries /\ s[i] # e
  BY SMT DEF Contains
<1>. HIDE DEF q
<1>3. \A i \in 1 .. Len(s) : q[s[i]] = m[s[i]]
  BY <1>1, <1>2
<1>4. Image(q, s) = Image(m, s)
  BY <1>3 DEF Image
<1>. QED
  BY <1>4 DEF q

\* The keys of a list without its last entry.
LEMMA ImageButLast ==
    ASSUME NEW m \in [Entries -> Payloads], NEW u \in Seq(Entries), Len(u) # 0
    PROVE  Image(m, RemoveAt(u, Len(u))) = SubSeq(Image(m, u), 1, Len(u) - 1)
<1>. DEFINE N == Len(u)
            w == RemoveAt(u, N)
            y == Image(m, u)
            z == SubSeq(y, 1, N - 1)
<1>1. N \in Nat /\ N \in 1 .. N
  OBVIOUS
<1>2. /\ w \in Seq(Entries) /\ Len(w) = N - 1
      /\ \A k \in 1 .. N - 1 : w[k] = u[IF k < N THEN k ELSE k + 1]
  BY Zenon, <1>1, RemoveAtFacts
<1>3. y \in Seq(Payloads) /\ Len(y) = N /\ \A i \in 1 .. N : y[i] = m[u[i]]
  BY Zenon, ImageFacts
<1>. HIDE DEF N, w, y
<1>4. z \in Seq(Payloads) /\ Len(z) = N - 1 /\ \A k \in 1 .. N - 1 : z[k] = y[k]
  BY <1>1, <1>3
<1>. HIDE DEF z
<1>5. Image(m, w) \in Seq(Payloads) /\ Len(Image(m, w)) = N - 1 /\ \A k \in 1 .. N - 1 : Image(m, w)[k] = m[w[k]]
  BY Zenon, <1>2, ImageFacts
<1>6. \A k \in 1 .. N - 1 : k \in 1 .. N /\ k < N
  BY <1>1
<1>7. \A k \in 1 .. N - 1 : Image(m, w)[k] = z[k]
  BY <1>2, <1>3, <1>4, <1>5, <1>6
<1>8. Image(m, w) = z
  BY Zenon, <1>4, <1>5, <1>7, SeqEqual
<1>. QED
  BY Zenon, <1>8 DEF w, z, y, N

\* A good state that holds the given keys in order of use.
Holds(c, knd, keys) ==
    \E u, f : Good(c, u, f, knd) /\ Image(c.payload, u) = keys

\* The keys once a new one is entered.
WithEntered(k, keys) ==
    <<k>> \o SubSeq(keys, 1, IF Len(keys) < ItemCount THEN Len(keys) ELSE ItemCount - 1)

\* A new key is entered as the most recent one, in the place of the last if
\* there is no free entry.
LEMMA EnterGood ==
    ASSUME NEW c, NEW u, NEW f, Good(c, u, f, kind), NEW k \in Keys,
           \A x \in Entries : Contains(u, x) => c.payload[x] # k
    PROVE  Holds(Entered(c, k, FALSE), kind, WithEntered(k, Image(c.payload, u)))
<1>. USE Zenon
<1>. DEFINE d == Entered(c, k, FALSE)
            y == Image(c.payload, u)
<1>1. /\ c.payload \in [Entries -> Payloads] /\ u \in Seq(Entries) /\ IsInjective(u) /\ c \in Caches
      /\ k \in Payloads /\ Len(u) \in Nat
  BY SMT DEF Good, Caches, Lists, Linked, Payloads
<1>2. y \in Seq(Payloads) /\ Len(y) = Len(u)
  BY <1>1, ImageFacts
<1>3. CASE c.free_entry # NoEntry
  <2>. DEFINE e == c.free_entry
              b == FromFreeList(c, FALSE)
              g == RemoveAt(f, 1)
  <2>1. d = inserthashindex(Filled(b, e, k), e)
    BY <1>3 DEF Entered, Filled
  <2>2. Ready(b, e, u, g, kind) /\ b.payload = c.payload /\ Len(u) < ItemCount
    BY <1>3, FromFreeReady
  <2>. HIDE DEF b, g, e, d
  <2>3. Good(d, <<e>> \o u, g, kind) /\ d.payload = [c.payload EXCEPT ![e] = k]
    BY SMT, <2>1, <2>2, FilledGood
  <2>4. e \in Entries /\ ~ Contains(u, e)
    BY <2>2 DEF Ready
  <2>5. d.payload \in [Entries -> Payloads] /\ d.payload[e] = k /\ Image(d.payload, u) = y
    BY SMT, <1>1, <2>3, <2>4, ImageFrame
  <2>6. Image(d.payload, <<e>> \o u) = <<k>> \o y
    BY <1>1, <2>4, <2>5, ImageCons
  <2>7. y = SubSeq(y, 1, Len(u))
    <3>. HIDE DEF y
    <3>. QED
      BY SMT, <1>2
  <2>. HIDE DEF y
  <2>8. Image(d.payload, <<e>> \o u) = WithEntered(k, y)
    BY Zenon, <1>2, <2>2, <2>6, <2>7 DEF WithEntered
  <2>9. Holds(d, kind, WithEntered(k, y))
    BY <2>3, <2>8 DEF Holds
  <2>. QED
    BY <2>9 DEF d, y
<1>4. CASE c.free_entry = NoEntry
  <2>. DEFINE N == Len(u)
              e == c.oldest_entry
              b == FromOldest(c, FALSE)
              w == RemoveAt(u, N)
  <2>1. d = inserthashindex(Filled(b, e, k), e)
    BY <1>4 DEF Entered, Filled
  <2>2. Ready(b, e, w, f, kind) /\ b.payload = c.payload /\ N = ItemCount /\ e = u[N]
    BY <1>4, FromOldestReady
  <2>3. N \in 1 .. N /\ N # 0
    BY SMT, <1>1, <2>2, CacheAssumption
  <2>4. w \in Seq(Entries) /\ \A x : Contains(w, x) <=> Contains(u, x) /\ x # u[N]
    BY <1>1, <2>3, RemoveAtFacts, RemoveAtInjective
  <2>5. Image(c.payload, w) = SubSeq(y, 1, N - 1)
    BY <1>1, <2>3, ImageButLast
  <2>. HIDE DEF b, e, d, w, N
  <2>6. Good(d, <<e>> \o w, f, kind) /\ d.payload = [c.payload EXCEPT ![e] = k]
    BY SMT, <2>1, <2>2, <2>4, FilledGood
  <2>7. e \in Entries /\ ~ Contains(w, e)
    BY <2>2 DEF Ready
  <2>8. d.payload \in [Entries -> Payloads] /\ d.payload[e] = k /\ Image(d.payload, w) = SubSeq(y, 1, N - 1)
    BY SMT, <1>1, <2>4, <2>5, <2>6, <2>7, ImageFrame
  <2>9. Image(d.payload, <<e>> \o w) = <<k>> \o SubSeq(y, 1, N - 1)
    BY <2>4, <2>7, <2>8, ImageCons
  <2>10. (IF N < ItemCount THEN N ELSE ItemCount - 1) = N - 1
    BY SMT, <2>2, CacheAssumption
  <2>. HIDE DEF y
  <2>11. Image(d.payload, <<e>> \o w) = WithEntered(k, y)
    BY <1>2, <2>9, <2>10 DEF WithEntered, N
  <2>12. Holds(d, kind, WithEntered(k, y))
    BY <2>6, <2>11 DEF Holds
  <2>. QED
    BY <2>12 DEF d, y
<1>. QED
  BY <1>3, <1>4

-----------------------------------------------------------------------------
(* The searches.                                                           *)

\* Chain finds the entries that are linked in order.
LEMMA ChainIs ==
    ASSUME NEW c \in Caches, NEW s \in Seq(Entries), Len(s) <= ItemCount, NEW e, e = At(s, 1),
           \A i \in 1 .. Len(s) : c.next[s[i]] = At(s, i + 1)
    PROVE  Chain(c, e) = s
<1>. USE Zenon
<1>. DEFINE M == ItemCount + 1
            F(f) == [i \in 1 .. M |-> IF i = 1 THEN e
                                      ELSE IF f[i - 1] = NoEntry THEN NoEntry ELSE c.next[f[i - 1]]]
            a == [i \in 1 .. M |-> At(s, i)]
            N == Len(s)
<1>1. M \in Nat /\ N \in Nat /\ N < M
  BY SMT, CacheAssumption
<1>2. \A i \in 1 .. N : s[i] \in Entries /\ s[i] # NoEntry
  BY SMT, CacheAssumption DEF Entries, NoEntry
<1>. HIDE DEF M, N
<1>3. \A i \in 1 .. M : i # 1 => i - 1 \in 1 .. M /\ (i - 1) + 1 = i
  BY SMT, <1>1
<1>4. \A i \in 1 .. M : i # 1 => At(s, i) = IF At(s, i - 1) = NoEntry THEN NoEntry ELSE c.next[At(s, i - 1)]
  <2>. SUFFICES ASSUME NEW i \in 1 .. M, i # 1
                PROVE  At(s, i) = IF At(s, i - 1) = NoEntry THEN NoEntry ELSE c.next[At(s, i - 1)]
    OBVIOUS
  <2>1. CASE i - 1 \in 1 .. N
    <3>1. At(s, i - 1) = s[i - 1] /\ s[i - 1] # NoEntry
      BY <1>2, <2>1 DEF At, N
    <3>2. c.next[s[i - 1]] = At(s, (i - 1) + 1)
      BY <2>1 DEF N
    <3>. QED
      BY <1>3, <3>1, <3>2
  <2>2. CASE i - 1 \notin 1 .. N
    <3>1. i \notin 1 .. N
      BY SMT, <1>1, <2>2
    <3>. QED
      BY <2>2, <3>1 DEF At, N
  <2>. QED
    BY <2>1, <2>2
<1>5. a = F(a)
  <2>1. \A i \in 1 .. M : a[i] = F(a)[i]
    <3>. SUFFICES ASSUME NEW i \in 1 .. M PROVE a[i] = F(a)[i]
      OBVIOUS
    <3>1. CASE i = 1
      BY <3>1
    <3>2. CASE i # 1
      <4>1. a[i] = At(s, i) /\ a[i - 1] = At(s, i - 1)
        BY Zenon, <1>3, <3>2
      <4>. QED
        BY <1>4, <3>2, <4>1
    <3>. QED
      BY <3>1, <3>2
  <2>. QED
    BY <2>1
<1>. DEFINE at == CHOOSE f : f = F(f)
<1>6. at = F(at)
  BY <1>5
<1>7. Chain(c, e) = [i \in {i \in 1 .. M : at[i] # NoEntry} |-> at[i]]
  BY DEF Chain, M
<1>. HIDE DEF at, a
<1>8. /\ 1 \in 1 .. M => at[1] = e
      /\ \A i \in 1 .. M : i # 1 => at[i] = IF at[i - 1] = NoEntry THEN NoEntry ELSE c.next[at[i - 1]]
  <2>1. \A i \in 1 .. M : at[i] = F(at)[i]
    BY <1>6
  <2>. QED
    BY <2>1
<1>. HIDE DEF F
<1>9. \A i \in 1 .. M : at[i] = At(s, i)
  <2>. DEFINE T == {n \in 0 .. M : n # 0 => at[n] = At(s, n)}
  <2>1. 0 \in T
    BY SMT, <1>1
  <2>2. ASSUME NEW n \in 1 .. M, n - 1 \in T PROVE n \in T
    <3>1. n \in 0 .. M /\ (n # 1 => n - 1 # 0)
      BY SMT, <1>1
    <3>2. at[n] = At(s, n)
      <4>1. CASE n = 1
        BY <1>8, <4>1
      <4>2. CASE n # 1
        <5>1. at[n - 1] = At(s, n - 1)
          BY <2>2, <3>1, <4>2
        <5>. QED
          BY <1>4, <1>8, <4>2, <5>1
      <4>. QED
        BY <4>1, <4>2
    <3>. QED
      BY <3>1, <3>2
  <2>3. 0 .. M \subseteq T
    <3>. HIDE DEF T
    <3>. QED
      BY <1>1, <2>1, <2>2, UpTo
  <2>4. \A i \in 1 .. M : i \in 0 .. M /\ i # 0
    BY SMT, <1>1
  <2>. QED
    BY <2>3, <2>4
<1>10. {i \in 1 .. M : at[i] # NoEntry} = 1 .. N
  <2>1. \A i \in 1 .. M : At(s, i) # NoEntry <=> i \in 1 .. N
    BY <1>2 DEF At, N
  <2>2. \A i \in 1 .. N : i \in 1 .. M
    BY SMT, <1>1
  <2>. QED
    BY <1>9, <2>1, <2>2
<1>11. \A i \in 1 .. N : at[i] = s[i]
  <2>1. \A i \in 1 .. N : i \in 1 .. M
    BY SMT, <1>1
  <2>. QED
    BY <1>9, <2>1 DEF At, N
<1>12. Chain(c, e) = [i \in 1 .. N |-> at[i]]
  BY <1>7, <1>10
<1>13. s = [i \in 1 .. N |-> s[i]]
  BY SMT DEF N
<1>. QED
  BY <1>11, <1>12, <1>13

\* The two lists of a cache in a good state.
LEMMA ListsAre ==
    ASSUME NEW c, NEW u, NEW f, NEW knd, Good(c, u, f, knd)
    PROVE  LruList(c) = u /\ FreeList(c) = f
<1>1. /\ c \in Caches /\ u \in Seq(Entries) /\ f \in Seq(Entries)
      /\ Len(u) \in Nat /\ Len(f) \in Nat /\ Len(u) + Len(f) = ItemCount
      /\ c.most_recent_entry = At(u, 1) /\ c.free_entry = At(f, 1)
      /\ \A i \in 1 .. Len(u) : c.next[u[i]] = At(u, i + 1)
      /\ \A i \in 1 .. Len(f) : c.next[f[i]] = At(f, i + 1)
  BY DEF Good, Lists, Linked, FreeLinked, Shared
<1>2. \A m, n \in Nat : m + n = ItemCount => m <= ItemCount /\ n <= ItemCount
  BY CacheAssumption
<1>3. Len(u) <= ItemCount /\ Len(f) <= ItemCount
  BY Zenon, <1>1, <1>2
<1>. QED
  BY Zenon, <1>1, <1>3, ChainIs DEF LruList, FreeList

\* The first match along a list is a match, and there is none only if no entry
\* of the list holds the key.
LEMMA FirstMatchFacts ==
    ASSUME NEW c \in Caches, NEW s \in Seq(Entries), NEW k
    PROVE  IF FirstMatch(c, s, k) = NoEntry
           THEN \A x \in Entries : Contains(s, x) => c.payload[x] # k
           ELSE /\ Contains(s, FirstMatch(c, s, k)) /\ FirstMatch(c, s, k) \in Entries
                /\ c.payload[FirstMatch(c, s, k)] = k
<1>. USE Zenon
<1>. DEFINE I == {i \in DOMAIN s : c.payload[s[i]] = k}
            m == Min(I)
<1>1. FirstMatch(c, s, k) = IF I = {} THEN NoEntry ELSE s[m]
  BY DEF FirstMatch
<1>2. \A i \in 1 .. Len(s) : s[i] \in Entries /\ s[i] # NoEntry
  BY SMT, CacheAssumption DEF Entries, NoEntry
<1>3. CASE I = {}
  <2>1. FirstMatch(c, s, k) = NoEntry
    BY <1>1, <1>3
  <2>2. \A i \in 1 .. Len(s) : c.payload[s[i]] # k
    BY SMT, <1>3
  <2>3. \A x \in Entries : Contains(s, x) => c.payload[x] # k
    BY <2>2 DEF Contains
  <2>. QED
    BY <2>1, <2>3
<1>4. CASE I # {}
  <2>1. m \in I
    <3>1. I \in SUBSET Nat
      BY SMT
    <3>. HIDE DEF I
    <3>2. \E x \in I : \A y \in I : x <= y
      BY <1>4, <3>1, LeastNumber
    <3>. QED
      BY <3>2 DEF Min
  <2>2. m \in 1 .. Len(s) /\ c.payload[s[m]] = k
    <3>1. \A i \in I : i \in 1 .. Len(s) /\ c.payload[s[i]] = k
      BY SMT
    <3>. HIDE DEF I, m
    <3>. QED
      BY <2>1, <3>1
  <2>. HIDE DEF I, m
  <2>3. FirstMatch(c, s, k) = s[m] /\ s[m] \in Entries /\ s[m] # NoEntry
    BY <1>1, <1>2, <1>4, <2>2
  <2>4. Contains(s, s[m])
    BY <2>2 DEF Contains
  <2>. QED
    BY <2>2, <2>3, <2>4
<1>. QED
  BY <1>3, <1>4

\* The search of a key finds the entry in use that holds it, in the hash table
\* and in the list alike.
LEMMA LookupFacts ==
    ASSUME NEW c, NEW u, NEW f, NEW knd, Good(c, u, f, knd), NEW k \in Keys
    PROVE  IF Lookup(c, k) = NoEntry
           THEN \A x \in Entries : Contains(u, x) => c.payload[x] # k
           ELSE /\ Contains(u, Lookup(c, k)) /\ Lookup(c, k) \in Entries
                /\ c.payload[Lookup(c, k)] = k
<1>. USE Zenon
<1>1. c \in Caches /\ u \in Seq(Entries) /\ Hashed(c, u, Len(f))
  BY DEF Good, Lists, Linked
<1>2. CASE c.dohash
  <2>. DEFINE s == c.first_hash[Hash[k]]
  <2>1. /\ Hash[k] \in Hashes /\ s \in Seq(Entries)
        /\ \A x \in Entries : Contains(s, x) <=> Contains(u, x) /\ Hash[c.payload[x]] = Hash[k]
    BY <1>1, <1>2, CacheAssumption DEF Hashed, Caches
  <2>2. Lookup(c, k) = FirstMatch(c, s, k)
    BY <1>2 DEF Lookup
  <2>. HIDE DEF s
  <2>3. IF Lookup(c, k) = NoEntry
        THEN \A x \in Entries : Contains(s, x) => c.payload[x] # k
        ELSE /\ Contains(s, Lookup(c, k)) /\ Lookup(c, k) \in Entries
             /\ c.payload[Lookup(c, k)] = k
    BY SMT, <1>1, <2>1, <2>2, FirstMatchFacts
  <2>. QED
    BY <2>1, <2>3
<1>3. CASE ~ c.dohash
  <2>1. Lookup(c, k) = FirstMatch(c, u, k)
    BY <1>3, ListsAre DEF Lookup
  <2>. QED
    BY SMT, <1>1, <2>1, FirstMatchFacts
<1>. QED
  BY <1>2, <1>3

-----------------------------------------------------------------------------
(* The loops of ntfs_invalidate_cache.                                     *)

\* The entries that are dropped among the first n of a list.
Dropped(c, ws, S, n) == {x \in Entries : c.payload[x] \in S /\ \E j \in 1 .. n : ws[j] = x}

\* The state d of the cache when the loop has visited the first n entries.
Visited(d, c, u, knd, ws, S, n) ==
    \E v, g : /\ Good(d, v, g, knd) /\ d.payload = c.payload
              /\ v = Without(u, Dropped(c, ws, S, n))
              /\ \A x \in Entries : Contains(v, x) <=> Contains(u, x) /\ x \notin Dropped(c, ws, S, n)

\* One round of the loop.
LEMMA VisitNext ==
    ASSUME NEW c, NEW u \in Seq(Entries), IsInjective(u), NEW knd,
           NEW ws \in Seq(Entries), IsInjective(ws), \A i \in 1 .. Len(ws) : Contains(u, ws[i]),
           NEW S, NEW n \in 1 .. Len(ws), NEW d, Visited(d, c, u, knd, ws, S, n - 1)
    PROVE  Visited(DropSelected(d, ws[n], S), c, u, knd, ws, S, n)
<1>. USE Zenon
<1>. DEFINE e == ws[n]
            D == Dropped(c, ws, S, n - 1)
            E == Dropped(c, ws, S, n)
            b == DropSelected(d, e, S)
<1>1. PICK v, g : /\ Good(d, v, g, knd) /\ d.payload = c.payload /\ v = Without(u, D)
                  /\ \A x \in Entries : Contains(v, x) <=> Contains(u, x) /\ x \notin D
  BY DEF Visited
<1>2. e \in Entries /\ Contains(u, e) /\ v \in Seq(Entries) /\ IsInjective(v)
  BY SMT, <1>1 DEF Good, Lists, Linked
<1>3. n \in Nat /\ n - 1 \in Nat /\ n <= Len(ws) /\ Len(ws) \in Nat
  BY SMT
<1>4. \A j \in 1 .. n - 1 : ws[j] # e
  <2>1. \A j \in 1 .. n - 1 : j \in 1 .. Len(ws) /\ j # n
    BY SMT, <1>3
  <2>. QED
    BY SMT, <2>1 DEF IsInjective
<1>5. e \notin D
  BY <1>4 DEF Dropped
<1>6. Contains(v, e)
  BY <1>1, <1>2, <1>5
<1>7. \A j \in 1 .. n : j = n \/ j \in 1 .. n - 1
  BY SMT, <1>3
<1>8. \A j \in 1 .. n - 1 : j \in 1 .. n
  BY SMT, <1>3
<1>9. n \in 1 .. n
  BY SMT, <1>3
<1>10. E = IF c.payload[e] \in S THEN D \cup {e} ELSE D
  <2>1. \A x \in Entries : (\E j \in 1 .. n : ws[j] = x) <=> x = e \/ \E j \in 1 .. n - 1 : ws[j] = x
    BY <1>7, <1>8, <1>9
  <2>2. \A x : x \in E <=> x \in Entries /\ c.payload[x] \in S /\ (x = e \/ \E j \in 1 .. n - 1 : ws[j] = x)
    BY <2>1 DEF Dropped
  <2>3. \A x : x \in D <=> x \in Entries /\ c.payload[x] \in S /\ \E j \in 1 .. n - 1 : ws[j] = x
    BY DEF Dropped
  <2>. HIDE DEF D, E, e
  <2>4. \A x : x \in E <=> x \in (IF c.payload[e] \in S THEN D \cup {e} ELSE D)
    BY <1>2, <2>2, <2>3
  <2>. QED
    BY <2>4
<1>. HIDE DEF D, E, e
<1>11. CASE c.payload[e] \in S
  <2>1. PICK i \in 1 .. Len(v) : v[i] = e
    BY <1>2, <1>6 DEF Contains
  <2>2. PICK j \in 1 .. Len(u) : u[j] = e
    BY Zenon, <1>2 DEF Contains
  <2>3. b = do_invalidate(drophashindex(d, v[i]), v[i])
    BY <1>1, <1>11, <2>1 DEF DropSelected
  <2>4. Good(b, RemoveAt(v, i), <<v[i]>> \o g, knd) /\ b.payload = d.payload
    BY SMT, <1>1, <2>3, DropGood
  <2>5. Without(u, E) = RemoveAt(Without(u, D), i)
    <3>1. u[j] \notin D /\ E = D \cup {u[j]}
      BY <1>5, <1>10, <1>11, <2>2
    <3>2. i \in 1 .. Len(Without(u, D)) /\ Without(u, D)[i] = u[j] /\ IsInjective(Without(u, D))
      BY <1>1, <1>2, <2>1, <2>2
    <3>. QED
      BY ZenonT(40), <3>1, <3>2, WithoutOneMore
  <2>6. \A x \in Entries : Contains(RemoveAt(v, i), x) <=> Contains(v, x) /\ x # e
    BY <1>2, <2>1, RemoveAtInjective
  <2>7. \A x \in Entries : Contains(RemoveAt(v, i), x) <=> Contains(u, x) /\ x \notin E
    BY <1>1, <1>10, <1>11, <2>6
  <2>8. RemoveAt(v, i) = Without(u, E) /\ b.payload = c.payload
    BY <1>1, <2>4, <2>5
  <2>. HIDE DEF b
  <2>. QED
    BY <2>4, <2>7, <2>8 DEF Visited, b, e, E
<1>12. CASE c.payload[e] \notin S
  <2>1. b = d /\ E = D
    BY <1>1, <1>10, <1>12 DEF DropSelected
  <2>. QED
    BY <1>1, <2>1 DEF Visited, b, e, E
<1>. QED
  BY <1>11, <1>12

\* The whole loop.
LEMMA LoopVisits ==
    ASSUME NEW c, NEW u, NEW f, NEW knd, Good(c, u, f, knd),
           NEW ws \in Seq(Entries), IsInjective(ws), \A i \in 1 .. Len(ws) : Contains(u, ws[i]),
           NEW S
    PROVE  Visited(InvalidatedAlong(c, ws, S), c, u, knd, ws, S, Len(ws))
<1>. USE Zenon
<1>. DEFINE N == Len(ws)
            V(x, n) == Visited(x, c, u, knd, ws, S, n)
            Op(x, n) == DropSelected(x, ws[n], S)
            F(h) == [n \in 0 .. N |-> IF n = 0 THEN c ELSE DropSelected(h[n - 1], ws[n], S)]
            step == [n \in 1 .. N |-> [x \in Caches |-> IF Op(x, n) \in Caches THEN Op(x, n) ELSE x]]
<1>1. N \in Nat /\ u \in Seq(Entries) /\ IsInjective(u) /\ c \in Caches
  BY SMT DEF Good, Lists, Linked
<1>2. V(c, 0)
  <2>1. Dropped(c, ws, S, 0) = {}
    BY SMT DEF Dropped
  <2>2. Without(u, {}) = u
    <3>1. \A i \in 1 .. Len(u) : u[i] \notin {}
      OBVIOUS
    <3>. QED
      BY <1>1, <3>1, WithoutNone
  <2>. QED
    BY Zenon, <2>1, <2>2 DEF Visited
<1>3. \A n \in 1 .. N : \A x : V(x, n - 1) => V(Op(x, n), n)
  BY <1>1, VisitNext
<1>4. \A n : \A x : V(x, n) => x \in Caches
  BY DEF Visited, Good
<1>5. \A h : \A n \in 1 .. N : F(h)[n] = Op(h[n - 1], n)
  BY SMT, <1>1
<1>. HIDE DEF V, Op
<1>6. step \in [1 .. N -> [Caches -> Caches]] /\ \A n \in 1 .. N, x \in Caches :
         step[n][x] = IF Op(x, n) \in Caches THEN Op(x, n) ELSE x
  <2>. DEFINE Q == Caches
  <2>. HIDE DEF Q, N
  <2>1. \A n \in 1 .. N, x \in Q : (IF Op(x, n) \in Q THEN Op(x, n) ELSE x) \in Q
    OBVIOUS
  <2>. QED
    BY <2>1
<1>. HIDE DEF N, step
<1>7. PICK h \in [0 .. N -> Caches] : Iterates(h, N, c, step)
  BY <1>1, <1>6, Iteration
<1>8. h[0] = c /\ \A n \in 1 .. N : h[n] = step[n][h[n - 1]] /\ h[n - 1] \in Caches
  <2>1. 0 \in 0 .. N /\ \A n \in 1 .. N : n \in 0 .. N /\ n # 0 /\ n - 1 \in 0 .. N
    BY SMT, <1>1
  <2>2. h = [n \in 0 .. N |-> IF n = 0 THEN c ELSE step[n][h[n - 1]]]
    BY <1>7 DEF Iterates
  <2>. QED
    BY <2>1, <2>2
<1>9. \A n \in 1 .. N : V(h[n - 1], n - 1) => h[n] = Op(h[n - 1], n)
  BY <1>3, <1>4, <1>6, <1>8
<1>10. \A n \in 0 .. N : V(h[n], n)
  <2>. DEFINE T == {n \in 0 .. N : V(h[n], n)}
  <2>1. 0 \in T
    BY SMT, <1>1, <1>2, <1>8
  <2>2. ASSUME NEW n \in 1 .. N, n - 1 \in T PROVE n \in T
    <3>1. n \in 0 .. N /\ V(h[n - 1], n - 1)
      BY SMT, <1>1, <2>2
    <3>2. V(h[n], n)
      BY <1>3, <1>9, <3>1
    <3>. QED
      BY <3>1, <3>2
  <2>3. 0 .. N \subseteq T
    <3>. HIDE DEF T
    <3>. QED
      BY <1>1, <2>1, <2>2, UpTo
  <2>. QED
    BY <2>3
<1>11. h = F(h)
  <2>1. \A n \in 1 .. N : n - 1 \in 0 .. N
    BY SMT, <1>1
  <2>2. \A n \in 1 .. N : h[n] = DropSelected(h[n - 1], ws[n], S)
    BY <1>9, <1>10, <2>1 DEF Op
  <2>3. \A n \in 0 .. N : n # 0 => n \in 1 .. N
    BY SMT, <1>1
  <2>. QED
    BY <1>8, <2>2, <2>3
<1>. DEFINE after == CHOOSE a : a = F(a)
<1>12. after = F(after)
  BY <1>11
<1>13. InvalidatedAlong(c, ws, S) = after[N]
  BY DEF InvalidatedAlong, N
<1>. HIDE DEF after
<1>14. after[0] = c /\ \A n \in 1 .. N : after[n] = Op(after[n - 1], n)
  <2>1. after[0] = F(after)[0] /\ 0 \in 0 .. N
    BY SMT, <1>1, <1>12
  <2>2. after[0] = c
    BY <2>1
  <2>. HIDE DEF F
  <2>. QED
    BY <1>5, <1>12, <2>2
<1>. HIDE DEF F
<1>15. \A n \in 0 .. N : V(after[n], n)
  <2>. DEFINE T == {n \in 0 .. N : V(after[n], n)}
  <2>1. 0 \in T
    BY SMT, <1>1, <1>2, <1>14
  <2>2. ASSUME NEW n \in 1 .. N, n - 1 \in T PROVE n \in T
    <3>1. n \in 0 .. N /\ V(after[n - 1], n - 1)
      BY SMT, <1>1, <2>2
    <3>2. V(after[n], n)
      BY Zenon, <1>3, <1>14, <3>1
    <3>. QED
      BY <3>1, <3>2
  <2>3. 0 .. N \subseteq T
    <3>. HIDE DEF T
    <3>. QED
      BY <1>1, <2>1, <2>2, UpTo
  <2>. QED
    BY <2>3
<1>16. V(after[N], N)
  BY SMT, <1>1, <1>15
<1>. QED
  BY <1>13, <1>16 DEF V, N

-----------------------------------------------------------------------------
(* What the calls do to the list of keys.                                  *)

\* The list of keys of a good state.
LEMMA KeysAre ==
    ASSUME NEW c, NEW u, NEW f, NEW knd, Good(c, u, f, knd)
    PROVE  KeysOf(c) = Image(c.payload, u)
<1>1. LruList(c) = u /\ u \in Seq(Entries)
  BY Zenon, ListsAre DEF Good, Lists, Linked
<1>2. DOMAIN u = 1 .. Len(u)
  BY <1>1
<1>. QED
  BY Zenon, <1>1, <1>2 DEF KeysOf, Image

\* The same for a state that holds given keys.
LEMMA HeldKeys ==
    ASSUME NEW c, NEW knd, NEW keys, Holds(c, knd, keys)
    PROVE  KeysOf(c) = keys
  BY Zenon, KeysAre DEF Holds

\* A loop that passes every selected entry forgets exactly the selected keys.
LEMMA LoopForgets ==
    ASSUME NEW c, NEW u, NEW f, NEW knd, Good(c, u, f, knd),
           NEW ws \in Seq(Entries), IsInjective(ws), \A i \in 1 .. Len(ws) : Contains(u, ws[i]),
           NEW S, \A x \in Entries : Contains(u, x) /\ c.payload[x] \in S => Contains(ws, x)
    PROVE  Holds(InvalidatedAlong(c, ws, S), knd, Without(Image(c.payload, u), S))
<1>. USE Zenon
<1>. DEFINE d == InvalidatedAlong(c, ws, S)
            N == Len(ws)
            D == Dropped(c, ws, S, N)
<1>1. u \in Seq(Entries) /\ c.payload \in [Entries -> Payloads]
  BY DEF Good, Lists, Linked, Caches
<1>2. Visited(d, c, u, knd, ws, S, N)
  BY LoopVisits
<1>. HIDE DEF d
<1>3. PICK v, g : Good(d, v, g, knd) /\ d.payload = c.payload /\ v = Without(u, D)
  BY <1>2 DEF Visited
<1>4. \A x \in Entries : Contains(u, x) => (x \in D <=> c.payload[x] \in S)
  <2>1. \A x : Contains(ws, x) <=> \E j \in 1 .. N : ws[j] = x
    BY DEF Contains
  <2>. HIDE DEF N
  <2>. QED
    BY <2>1 DEF Dropped
<1>5. \A i \in 1 .. Len(u) : u[i] \in Entries /\ Contains(u, u[i])
  BY SMT, <1>1 DEF Contains
<1>. HIDE DEF D
<1>6. \A i \in 1 .. Len(u) : u[i] \in D <=> c.payload[u[i]] \in S
  BY Zenon, <1>4, <1>5
<1>7. Without(Image(c.payload, u), S) = Image(c.payload, v)
  BY SMT, <1>1, <1>3, <1>6, WithoutImage
<1>8. Holds(d, knd, Without(Image(c.payload, u), S))
  BY <1>3, <1>7 DEF Holds
<1>. QED
  BY <1>8 DEF d

\* The sequential search forgets exactly the selected keys.
LEMMA ForgetInList ==
    ASSUME NEW c, NEW u, NEW f, NEW knd, Good(c, u, f, knd), NEW S
    PROVE  Holds(InvalidatedInList(c, S), knd, Without(Image(c.payload, u), S))
<1>1. u \in Seq(Entries) /\ IsInjective(u) /\ LruList(c) = u
  BY Zenon, ListsAre DEF Good, Lists, Linked
<1>2. \A i \in 1 .. Len(u) : Contains(u, u[i])
  BY Zenon, <1>1 DEF Contains
<1>. QED
  BY Zenon, <1>1, <1>2, LoopForgets DEF InvalidatedInList

\* The search for one key forgets it, along its hash chain or along the list.
LEMMA ForgetKey ==
    ASSUME NEW c, NEW u, NEW f, NEW knd, Good(c, u, f, knd), NEW k \in Keys
    PROVE  Holds(Invalidated(c, k), knd, Without(Image(c.payload, u), {k}))
<1>. USE Zenon
<1>1. c \in Caches /\ u \in Seq(Entries) /\ Hashed(c, u, Len(f)) /\ c.dohash = knd.hash
  BY DEF Good, Lists, Linked
<1>2. CASE c.dohash
  <2>. DEFINE ws == c.first_hash[Hash[k]]
              d == InvalidatedAlong(c, ws, {k})
  <2>1. /\ ws \in Seq(Entries) /\ IsInjective(ws)
        /\ \A x \in Entries : Contains(ws, x) <=> Contains(u, x) /\ Hash[c.payload[x]] = Hash[k]
    BY <1>1, <1>2, CacheAssumption DEF Hashed, Caches
  <2>. HIDE DEF ws
  <2>2. \A i \in 1 .. Len(ws) : ws[i] \in Entries /\ Contains(ws, ws[i])
    BY SMT, <2>1 DEF Contains
  <2>3. \A x \in Entries : Contains(u, x) /\ c.payload[x] \in {k} => Contains(ws, x)
    BY Zenon, <2>1
  <2>4. Holds(d, knd, Without(Image(c.payload, u), {k}))
    BY Zenon, <2>1, <2>2, <2>3, LoopForgets
  <2>. HIDE DEF d
  <2>5. d.dohash
    BY <1>1, <1>2, <2>4 DEF Holds, Good
  <2>6. Invalidated(c, k) = d
    BY <1>2, <2>5 DEF Invalidated, d, ws
  <2>. QED
    BY <2>4, <2>6
<1>3. CASE ~ c.dohash
  <2>1. Invalidated(c, k) = InvalidatedInList(c, {k})
    BY <1>3 DEF Invalidated
  <2>. QED
    BY <2>1, ForgetInList
<1>. QED
  BY <1>2, <1>3

\* The keys without that of one entry.
LEMMA KeysWithout ==
    ASSUME NEW c, NEW u, NEW f, NEW knd, Good(c, u, f, knd), NEW i \in 1 .. Len(u)
    PROVE  Without(Image(c.payload, u), {c.payload[u[i]]}) = Image(c.payload, RemoveAt(u, i))
<1>. USE Zenon
<1>. DEFINE e == u[i]
            k == c.payload[e]
<1>1. u \in Seq(Entries) /\ IsInjective(u) /\ c.payload \in [Entries -> Payloads] /\ KeysDiffer(c, u)
  BY Zenon DEF Good, Lists, Linked, Caches
<1>2. Without(u, {}) = u
  <2>1. \A j \in 1 .. Len(u) : u[j] \notin {}
    OBVIOUS
  <2>. QED
    BY <1>1, <2>1, WithoutNone
<1>3. Without(u, {e}) = RemoveAt(u, i)
  <2>1. u[i] \notin {} /\ {e} = {} \cup {u[i]}
    OBVIOUS
  <2>2. i \in 1 .. Len(Without(u, {})) /\ Without(u, {})[i] = u[i] /\ IsInjective(Without(u, {}))
    BY <1>1, <1>2
  <2>3. Without(u, {e}) = RemoveAt(Without(u, {}), i)
    BY ZenonT(40), <1>1, <2>1, <2>2, WithoutOneMore
  <2>. QED
    BY <1>2, <2>3
<1>4. \A j \in 1 .. Len(u) : u[j] \in Entries /\ Contains(u, u[j])
  BY SMT, <1>1 DEF Contains
<1>5. \A j \in 1 .. Len(u) : u[j] \in {e} <=> c.payload[u[j]] \in {k}
  BY <1>1, <1>4 DEF KeysDiffer
<1>. HIDE DEF e, k
<1>6. Without(Image(c.payload, u), {k}) = Image(c.payload, Without(u, {e}))
  BY SMT, <1>1, <1>5, WithoutImage
<1>. QED
  BY <1>3, <1>6 DEF e, k

\* A fetch makes the key of a hit the most recent one.
LEMMA FetchKeys ==
    ASSUME NEW c, NEW u, NEW f, NEW knd, Good(c, u, f, knd), NEW k \in Keys
    PROVE  LET e == Lookup(c, k)
               others == Without(Image(c.payload, u), {k})
           IN  IF e = NoEntry THEN Fetched(c, e) = c
               ELSE /\ Holds(Fetched(c, e), knd, <<k>> \o others)
                    /\ Holds(do_invalidate(drophashindex(Fetched(c, e), e), e), knd, others)
<1>. USE Zenon
<1>. DEFINE e == Lookup(c, k)
            others == Without(Image(c.payload, u), {k})
<1>1. IF e = NoEntry
      THEN \A x \in Entries : Contains(u, x) => c.payload[x] # k
      ELSE Contains(u, e) /\ e \in Entries /\ c.payload[e] = k
  BY Zenon, LookupFacts
<1>. HIDE DEF e
<1>2. CASE e = NoEntry
  BY <1>2 DEF Fetched, e
<1>3. CASE e # NoEntry
  <2>1. u \in Seq(Entries) /\ IsInjective(u) /\ c.payload \in [Entries -> Payloads]
    BY DEF Good, Lists, Linked, Caches
  <2>2. PICK i \in 1 .. Len(u) : u[i] = e
    BY <1>1, <1>3, <2>1 DEF Contains
  <2>. DEFINE w == RemoveAt(u, i)
              v == <<e>> \o w
              d == Fetched(c, e)
              b == do_invalidate(drophashindex(d, e), e)
  <2>3. Good(d, v, f, knd) /\ d.payload = c.payload
    BY <2>2, FetchGood
  <2>4. others = Image(c.payload, w)
    BY <1>1, <1>3, <2>2, KeysWithout
  <2>5. w \in Seq(Entries) /\ e \in Entries /\ c.payload[e] = k
    BY <1>1, <1>3, <2>1, <2>2, RemoveAtFacts
  <2>. HIDE DEF w, d, others
  <2>6. Image(c.payload, v) = <<k>> \o others
    BY <2>1, <2>4, <2>5, ImageCons
  <2>7. Holds(d, knd, <<k>> \o others)
    BY Zenon, <2>3, <2>6 DEF Holds
  <2>8. /\ v \in Seq(Entries) /\ Len(v) = Len(w) + 1 /\ v[1] = e /\ Len(w) \in Nat
        /\ \A j \in 2 .. Len(w) + 1 : v[j] = w[j - 1]
    BY SMT, <2>5, ConsFacts
  <2>. HIDE DEF v
  <2>9. 1 \in 1 .. Len(v)
    BY SMT, <2>8
  <2>10. Good(b, RemoveAt(v, 1), <<v[1]>> \o f, knd) /\ b.payload = d.payload
    <3>. DEFINE z == do_invalidate(drophashindex(d, v[1]), v[1])
    <3>1. Good(z, RemoveAt(v, 1), <<v[1]>> \o f, knd) /\ z.payload = d.payload
      BY <2>3, <2>9, DropGood
    <3>2. z = b
      BY <2>8
    <3>. HIDE DEF z, b
    <3>. QED
      BY <3>1, <3>2
  <2>11. RemoveAt(v, 1) = w
    <3>1. /\ RemoveAt(v, 1) \in Seq(Entries) /\ Len(RemoveAt(v, 1)) = Len(v) - 1
          /\ \A j \in 1 .. Len(v) - 1 : RemoveAt(v, 1)[j] = v[IF j < 1 THEN j ELSE j + 1]
      BY <2>8, <2>9, RemoveAtFacts
    <3>2. Len(v) - 1 = Len(w)
      BY SMT, <2>8
    <3>3. \A j \in 1 .. Len(w) : ~ (j < 1) /\ j + 1 \in 2 .. Len(w) + 1 /\ (j + 1) - 1 = j
      BY SMT, <2>8
    <3>4. \A j \in 1 .. Len(w) : RemoveAt(v, 1)[j] = w[j]
      BY <2>8, <3>1, <3>2, <3>3
    <3>. QED
      BY Zenon, <2>5, <3>1, <3>2, <3>4, SeqEqual
  <2>. HIDE DEF b
  <2>12. Holds(b, knd, others)
    BY <2>3, <2>4, <2>10, <2>11 DEF Holds
  <2>. QED
    BY <1>3, <2>7, <2>12 DEF b, d, e, others
<1>. QED
  BY <1>2, <1>3 DEF e

\* A cache is created empty, with every entry in the free list.
LEMMA CreatedGood ==
    ASSUME NEW knd \in Kinds
    PROVE  Holds(ntfs_create_cache(knd), knd, << >>)
<1>. DEFINE c == ntfs_create_cache(knd)
            f == [i \in 1 .. ItemCount |-> i]
<1>1. ItemCount \in Nat /\ ItemCount >= 3
  BY Zenon, CacheAssumption
<1>2. knd.hash \in BOOLEAN
  BY Zenon, KindFields
<1>3. /\ c.most_recent_entry = NoEntry /\ c.oldest_entry = NoEntry /\ c.free_entry = 1
      /\ c.next = [e \in Entries |-> IF e = ItemCount THEN NoEntry ELSE e + 1]
      /\ c.payload = [e \in Entries |-> NULL] /\ c.variable = [e \in Entries |-> "null"]
      /\ c.dohash = knd.hash /\ c.first_hash = [h \in Hashes |-> << >>]
      /\ c.free_hash = (IF knd.hash THEN ItemCount ELSE 0) /\ c.heap = "ok"
  BY Zenon DEF ntfs_create_cache
<1>4. c \in Caches
  <2>1. /\ NoEntry \in Pointer /\ 1 \in Pointer
        /\ [e \in Entries |-> IF e = ItemCount THEN NoEntry ELSE e + 1] \in [Entries -> Pointer]
        /\ [e \in Entries |-> NoEntry] \in [Entries -> Pointer]
    BY <1>1 DEF Pointer, Entries, NoEntry
  <2>2. /\ [e \in Entries |-> NULL] \in [Entries -> Payloads]
        /\ [e \in Entries |-> "null"] \in [Entries -> {"null", "live", "freed"}]
    BY Zenon DEF Payloads
  <2>3. << >> \in Seq(Entries)
    OBVIOUS
  <2>4. [h \in Hashes |-> << >>] \in [Hashes -> Seq(Entries)]
    BY Zenon, <2>3
  <2>5. (IF knd.hash THEN ItemCount ELSE 0) \in Nat
    BY Zenon, <1>1
  <2>. QED
    BY Zenon, <1>2, <2>1, <2>2, <2>4, <2>5 DEF Caches, ntfs_create_cache
<1>. HIDE DEF c
<1>5. /\ f \in Seq(Entries) /\ Len(f) = ItemCount /\ \A i \in 1 .. ItemCount : f[i] = i
  BY <1>1 DEF Entries
<1>6. IsInjective(f) /\ \A e \in Entries : Contains(f, e)
  BY Zenon, <1>5 DEF IsInjective, Contains, Entries
<1>. HIDE DEF f
<1>7. FreeLinked(c, f)
  <2>1. At(f, 1) = 1
    BY <1>1, <1>5 DEF At
  <2>2. ASSUME NEW i \in 1 .. ItemCount PROVE c.next[f[i]] = At(f, i + 1)
    <3>1. i \in Entries /\ f[i] = i /\ c.next[i] = IF i = ItemCount THEN NoEntry ELSE i + 1
      BY Zenon, <1>3, <1>5 DEF Entries
    <3>2. i = ItemCount => i + 1 \notin 1 .. ItemCount
      BY <1>1
    <3>3. i # ItemCount => i + 1 \in 1 .. ItemCount
      BY <1>1
    <3>. QED
      BY Zenon, <1>5, <3>1, <3>2, <3>3 DEF At
  <2>. QED
    BY Zenon, <1>3, <1>5, <1>6, <2>1, <2>2 DEF FreeLinked
<1>8. /\ << >> \in Seq(Entries) /\ Len(<< >>) = 0 /\ IsInjective(<< >>) /\ \A x : ~ Contains(<< >>, x)
  BY DEF IsInjective, Contains
<1>9. Linked(c, << >>) /\ Ends(c, << >>)
  BY <1>3, <1>8 DEF Linked, Ends, At
<1>10. Shared(<< >>, f)
  BY <1>1, <1>5, <1>6, <1>8 DEF Shared
<1>11. KeysDiffer(c, << >>)
  BY Zenon, <1>8 DEF KeysDiffer
<1>12. Hashed(c, << >>, Len(f))
  <2>1. \A h \in Hashes : c.first_hash[h] = << >>
    BY Zenon, <1>3
  <2>. QED
    BY <1>3, <1>5, <1>8, <2>1 DEF Hashed
<1>13. Blocks(c, << >>, knd)
  BY Zenon, <1>3, <1>8 DEF Blocks
<1>14. Good(c, << >>, f, knd)
  BY Zenon, <1>3, <1>4, <1>7, <1>9, <1>10, <1>11, <1>12, <1>13 DEF Good, Lists
<1>15. Image(c.payload, << >>) = << >>
  BY <1>8 DEF Image
<1>. QED
  BY Zenon, <1>14, <1>15 DEF Holds, c

-----------------------------------------------------------------------------
(* The theorems.                                                           *)

\* The inductive invariant.
CacheInv == \E u, f : Good(cache, u, f, kind)

\* The invariant says that the structures agree.
LEMMA IntactFromInv ==
    ASSUME CacheInv
    PROVE  ListsIntact
<1>1. PICK u, f : Good(cache, u, f, kind)
  BY Zenon DEF CacheInv
<1>2. LruList(cache) = u /\ FreeList(cache) = f
  BY Zenon, <1>1, ListsAre
<1>3. /\ cache \in Caches /\ kind \in Kinds /\ Linked(cache, u) /\ Ends(cache, u) /\ FreeLinked(cache, f)
      /\ Shared(u, f) /\ cache.dohash = kind.hash /\ Hashed(cache, u, Len(f)) /\ Blocks(cache, u, kind)
      /\ u \in Seq(Entries) /\ f \in Seq(Entries) /\ Len(u) \in Nat /\ Len(f) \in Nat
  BY <1>1 DEF Good, Lists, Linked, FreeLinked
<1>4. \A s \in Seq(Entries) : \A x : x \in Range(s) <=> Contains(s, x)
  BY DEF Range, Contains
<1>5. \A s \in Seq(Entries) : Range(s) \subseteq Entries
  BY SMTT(30) DEF Range
<1>6. Len(u) + Len(f) = ItemCount /\ Len(f) \in 0 .. ItemCount
  <2>1. Len(u) + Len(f) = ItemCount
    BY Zenon, <1>3 DEF Shared
  <2>2. \A m, n \in Nat : m + n = ItemCount => n \in 0 .. ItemCount
    BY CacheAssumption
  <2>. QED
    BY Zenon, <1>3, <2>1, <2>2
<1>7. TypeOK
  <2>1. \A h \in Hashes : cache.first_hash[h] \in Seq(Entries)
    BY Zenon, <1>3 DEF Caches
  <2>2. cache.free_hash \in 0 .. ItemCount
    BY <1>3, <1>6, CacheAssumption DEF Hashed
  <2>. QED
    BY Zenon, <1>3, <1>5, <2>1, <2>2 DEF TypeOK, Caches, Payloads
<1>8. LinkedBothWays
  <2>1. Range(u) \cup Range(f) = Entries
    BY Zenon, <1>3, <1>4, <1>5 DEF Shared
  <2>2. ASSUME NEW i \in DOMAIN u
        PROVE  cache.previous[u[i]] = IF i = 1 THEN NoEntry ELSE u[i - 1]
    <3>. u \in Seq(Entries)
      BY Zenon, <1>3
    <3>1. i \in 1 .. Len(u) /\ (i # 1 => i - 1 \in 1 .. Len(u)) /\ (i = 1 => i - 1 \notin 1 .. Len(u))
      BY SMT
    <3>. QED
      BY Zenon, <1>3, <3>1 DEF Linked, At
  <2>3. cache.oldest_entry = IF u = << >> THEN NoEntry ELSE Last(u)
    <3>. u \in Seq(Entries)
      BY Zenon, <1>3
    <3>1. u = << >> => Len(u) \notin 1 .. Len(u)
      BY SMT
    <3>2. u # << >> => Len(u) \in 1 .. Len(u)
      BY SMT
    <3>. QED
      BY Zenon, <1>3, <3>1, <3>2 DEF Ends, At, Last
  <2>. QED
    BY Zenon, <1>2, <1>6, <2>1, <2>2, <2>3 DEF LinkedBothWays
<1>9. HashAgrees
  <2>1. ASSUME cache.dohash
        PROVE  /\ \A h \in Hashes :
                     /\ IsInjective(cache.first_hash[h])
                     /\ Range(cache.first_hash[h]) = {e \in Range(u) : Hash[cache.payload[e]] = h}
               /\ cache.free_hash = Len(f)
    <3>1. ASSUME NEW h \in Hashes
          PROVE  Range(cache.first_hash[h]) = {e \in Range(u) : Hash[cache.payload[e]] = h}
      <4>1. cache.first_hash[h] \in Seq(Entries)
        BY Zenon, <1>3 DEF Caches
      <4>2. \A x \in Entries : Contains(cache.first_hash[h], x) <=> Contains(u, x) /\ Hash[cache.payload[x]] = h
        BY Zenon, <1>3, <2>1 DEF Hashed
      <4>. QED
        BY Zenon, <1>3, <1>4, <1>5, <4>1, <4>2
    <3>. QED
      BY Zenon, <1>3, <2>1, <3>1 DEF Hashed
  <2>. QED
    BY Zenon, <1>2, <1>3, <2>1 DEF HashAgrees
<1>10. BlocksOwned
  BY Zenon, <1>2, <1>3 DEF BlocksOwned, Blocks
<1>. QED
  BY Zenon, <1>7, <1>8, <1>9, <1>10 DEF ListsIntact

\* The invariant says what each call does.
LEMMA PromiseFromInv ==
    ASSUME CacheInv
    PROVE  EachCallAsPromised
<1>. USE Zenon
<1>1. PICK u, f : Good(cache, u, f, kind)
  BY DEF CacheInv
<1>2. KeysInOrder = Image(cache.payload, u)
  BY <1>1, KeysAre DEF KeysInOrder
<1>3. ASSUME NEW k \in Keys
      PROVE  LET hit == Lookup(cache, k)
                 others == Without(KeysInOrder, {k})
             IN  /\ KeysOf(Fetched(cache, hit)) =
                       IF hit = NoEntry THEN KeysInOrder ELSE <<k>> \o others
                 /\ KeysOf(Invalidated(cache, k)) = others
  <2>. DEFINE hit == Lookup(cache, k)
              others == Without(KeysInOrder, {k})
  <2>1. IF hit = NoEntry THEN Fetched(cache, hit) = cache
        ELSE Holds(Fetched(cache, hit), kind, <<k>> \o others)
    BY <1>1, <1>2, FetchKeys
  <2>2. Holds(Invalidated(cache, k), kind, others)
    BY <1>1, <1>2, ForgetKey
  <2>. HIDE DEF hit, others
  <2>3. KeysOf(Invalidated(cache, k)) = others
    BY <2>2, HeldKeys
  <2>4. KeysOf(Fetched(cache, hit)) = IF hit = NoEntry THEN KeysInOrder ELSE <<k>> \o others
    <3>1. CASE hit = NoEntry
      BY <2>1, <3>1 DEF KeysInOrder
    <3>2. CASE hit # NoEntry
      BY <2>1, <3>2, HeldKeys
    <3>. QED
      BY <3>1, <3>2
  <2>. QED
    BY <2>3, <2>4 DEF hit, others
<1>4. ASSUME NEW S \in SUBSET Keys
      PROVE  KeysOf(InvalidatedInList(cache, S)) = Without(KeysInOrder, S)
  <2>1. Holds(InvalidatedInList(cache, S), kind, Without(KeysInOrder, S))
    BY <1>1, <1>2, ForgetInList
  <2>. QED
    BY <2>1, HeldKeys
<1>. QED
  BY <1>3, <1>4 DEF EachCallAsPromised

\* LruCache forgets keys by the same operator.
LEMMA LruWithout == \A s, D : Abstract!Without(s, D) = Without(s, D)
  BY Zenon DEF Abstract!Without, Without

\* A key is among the keys in order of use if and only if the search finds it.
LEMMA HitIsLookup ==
    ASSUME NEW u, NEW f, Good(cache, u, f, kind), NEW k \in Keys
    PROVE  Abstract!Hit(k) <=> Lookup(cache, k) # NoEntry
<1>. USE Zenon
<1>. DEFINE y == Image(cache.payload, u)
            e == Lookup(cache, k)
<1>1. KeysInOrder = y
  BY KeysAre DEF KeysInOrder
<1>2. u \in Seq(Entries) /\ cache.payload \in [Entries -> Payloads]
  BY DEF Good, Lists, Linked, Caches
<1>3. DOMAIN y = 1 .. Len(u) /\ \A i \in 1 .. Len(u) : y[i] = cache.payload[u[i]]
  BY DEF Image
<1>4. IF e = NoEntry
      THEN \A x \in Entries : Contains(u, x) => cache.payload[x] # k
      ELSE Contains(u, e) /\ e \in Entries /\ cache.payload[e] = k
  BY LookupFacts
<1>. HIDE DEF y, e
<1>5. Abstract!Hit(k) <=> \E i \in 1 .. Len(u) : cache.payload[u[i]] = k
  BY <1>1, <1>3 DEF Abstract!Hit
<1>6. \A x : Contains(u, x) <=> \E i \in 1 .. Len(u) : u[i] = x
  BY <1>2 DEF Contains
<1>7. \A i \in 1 .. Len(u) : u[i] \in Entries
  BY SMT, <1>2
<1>. QED
  BY <1>4, <1>5, <1>6, <1>7 DEF e

\* A state of the cache that follows from a call, with the keys it then holds.
LEMMA AfterCall ==
    ASSUME NEW keys, Holds(cache', kind', keys)
    PROVE  CacheInv' /\ KeysInOrder' = keys
<1>. USE Zenon
<1>1. CacheInv'
  BY DEF Holds, CacheInv
<1>2. KeysOf(cache') = keys
  BY HeldKeys
<1>. QED
  BY <1>1, <1>2 DEF KeysInOrder

\* Every call keeps the invariant and is a step of the list of keys.
LEMMA CallStep ==
    ASSUME MallocFails = FALSE, CacheInv, Next
    PROVE  CacheInv' /\ [Abstract!Next]_KeysInOrder
<1>. USE Zenon
<1>1. PICK u, f : Good(cache, u, f, kind)
  BY DEF CacheInv
<1>. DEFINE y == Image(cache.payload, u)
<1>2. KeysInOrder = y
  BY <1>1, KeysAre DEF KeysInOrder
<1>3. u \in Seq(Entries) /\ cache.payload \in [Entries -> Payloads] /\ KeysDiffer(cache, u)
  BY <1>1 DEF Good, Lists, Linked, Caches
<1>4. y \in Seq(Payloads) /\ Len(y) = Len(u) /\ \A i \in 1 .. Len(u) : y[i] = cache.payload[u[i]]
  BY <1>3, ImageFacts
<1>. HIDE DEF y
<1>5. ASSUME NEW k \in Keys, ntfs_fetch_cache(k) PROVE CacheInv' /\ [Abstract!Next]_KeysInOrder
  <2>. DEFINE e == Lookup(cache, k)
  <2>1. cache' = Fetched(cache, e) /\ kind' = kind
    BY <1>5 DEF ntfs_fetch_cache
  <2>2. IF e = NoEntry THEN Fetched(cache, e) = cache
        ELSE Holds(Fetched(cache, e), kind, <<k>> \o Without(y, {k}))
    BY <1>1, FetchKeys DEF y
  <2>3. Abstract!Hit(k) <=> e # NoEntry
    BY <1>1, HitIsLookup
  <2>. HIDE DEF e
  <2>4. CASE e = NoEntry
    <3>1. cache' = cache
      BY <2>1, <2>2, <2>4
    <3>. QED
      BY <2>1, <3>1 DEF CacheInv, KeysInOrder
  <2>5. CASE e # NoEntry
    <3>1. CacheInv' /\ KeysInOrder' = <<k>> \o Without(KeysInOrder, {k})
      BY <1>2, <2>1, <2>2, <2>5, AfterCall
    <3>2. Abstract!Fetch(k)
      BY <2>3, <2>5, <3>1, LruWithout DEF Abstract!Fetch
    <3>. QED
      BY <3>1, <3>2 DEF Abstract!Next
  <2>. QED
    BY <2>4, <2>5
<1>6. ASSUME NEW k \in Keys, ntfs_enter_cache(k) PROVE CacheInv' /\ [Abstract!Next]_KeysInOrder
  <2>. DEFINE e == Lookup(cache, k)
              d == Entered(cache, k, FALSE)
  <2>1. cache' = (IF e = NoEntry THEN d ELSE cache) /\ kind' = kind
    BY <1>6 DEF ntfs_enter_cache
  <2>2. Abstract!Hit(k) <=> e # NoEntry
    BY <1>1, HitIsLookup
  <2>3. e = NoEntry => \A x \in Entries : Contains(u, x) => cache.payload[x] # k
    BY <1>1, LookupFacts
  <2>. HIDE DEF e
  <2>4. CASE e = NoEntry
    <3>1. Holds(d, kind, WithEntered(k, y))
      BY <1>1, <2>3, <2>4, EnterGood DEF y
    <3>. HIDE DEF d
    <3>2. CacheInv' /\ KeysInOrder' = WithEntered(k, y)
      BY <2>1, <2>4, <3>1, AfterCall
    <3>3. Abstract!Enter(k)
      BY <1>2, <2>2, <2>4, <3>2 DEF Abstract!Enter, WithEntered
    <3>. QED
      BY <3>2, <3>3 DEF Abstract!Next
  <2>5. CASE e # NoEntry
    <3>1. cache' = cache
      BY <2>1, <2>5
    <3>. QED
      BY <2>1, <3>1 DEF CacheInv, KeysInOrder
  <2>. QED
    BY <2>4, <2>5
<1>7. ASSUME NEW k \in Keys, ntfs_invalidate_cache(k) PROVE CacheInv' /\ [Abstract!Next]_KeysInOrder
  <2>1. cache' = Invalidated(cache, k) /\ kind' = kind
    BY <1>7 DEF ntfs_invalidate_cache
  <2>2. Holds(cache', kind', Without(KeysInOrder, {k}))
    BY <1>1, <1>2, <2>1, ForgetKey DEF y
  <2>3. CacheInv' /\ Abstract!Forget({k})
    BY <2>2, AfterCall, LruWithout DEF Abstract!Forget
  <2>4. {k} \in SUBSET Keys
    OBVIOUS
  <2>. QED
    BY <2>3, <2>4 DEF Abstract!Next
<1>8. ASSUME NEW k \in Keys, ntfs_remove_cache(k) PROVE CacheInv' /\ [Abstract!Next]_KeysInOrder
  <2>. DEFINE e == Lookup(cache, k)
              d == do_invalidate(drophashindex(Fetched(cache, e), e), e)
  <2>1. e # NoEntry /\ cache' = d /\ kind' = kind
    BY <1>8 DEF ntfs_remove_cache
  <2>2. e # NoEntry => Holds(d, kind, Without(y, {k}))
    BY <1>1, FetchKeys DEF y
  <2>. HIDE DEF d, e
  <2>3. CacheInv' /\ Abstract!Forget({k})
    BY <1>2, <2>1, <2>2, AfterCall, LruWithout DEF Abstract!Forget
  <2>4. {k} \in SUBSET Keys
    OBVIOUS
  <2>. QED
    BY <2>3, <2>4 DEF Abstract!Next
<1>9. ASSUME NEW S \in SUBSET Keys, ntfs_invalidate_cache_nohash(S) PROVE CacheInv' /\ [Abstract!Next]_KeysInOrder
  <2>1. cache' = InvalidatedInList(cache, S) /\ kind' = kind
    BY <1>9 DEF ntfs_invalidate_cache_nohash
  <2>2. Holds(cache', kind', Without(KeysInOrder, S))
    BY <1>1, <1>2, <2>1, ForgetInList DEF y
  <2>3. CacheInv' /\ Abstract!Forget(S)
    BY <2>2, AfterCall, LruWithout DEF Abstract!Forget
  <2>. QED
    BY <2>3 DEF Abstract!Next
<1>10. ASSUME ntfs_free_cache PROVE CacheInv' /\ [Abstract!Next]_KeysInOrder
  <2>1. /\ LruList(cache) = u /\ Blocks(cache, u, kind)
        /\ \A x \in Entries : x \in Range(u) <=> Contains(u, x)
    BY SMT, <1>1, ListsAre DEF Good, Range, Contains
  <2>2. ~ \E e \in Entries \ Range(LruList(cache)) : cache.variable[e] = "live"
    BY <2>1 DEF Blocks
  <2>3. kind' \in Kinds /\ cache.heap = "ok"
    BY <1>10, <2>1 DEF ntfs_free_cache, Blocks
  <2>4. cache' = [ntfs_create_cache(kind') EXCEPT !.heap = "ok"]
    BY <1>10, <2>2, <2>3 DEF ntfs_free_cache
  <2>5. cache' = ntfs_create_cache(kind')
    BY <2>4 DEF ntfs_create_cache
  <2>6. CacheInv' /\ KeysInOrder' = << >>
    BY <2>3, <2>5, CreatedGood, AfterCall
  <2>7. Without(y, Keys) = << >>
    <3>1. \A i \in 1 .. Len(u) : u[i] \in Entries /\ Contains(u, u[i])
      BY SMTT(30), <1>3 DEF Contains
    <3>2. \A i \in 1 .. Len(y) : y[i] \in Keys
      BY <1>3, <1>4, <3>1 DEF KeysDiffer
    <3>. QED
      BY <1>4, <3>2, WithoutAll
  <2>8. Abstract!Forget(Keys)
    BY <1>2, <2>6, <2>7, LruWithout DEF Abstract!Forget
  <2>9. Keys \in SUBSET Keys
    OBVIOUS
  <2>. QED
    BY Zenon, <2>6, <2>8, <2>9 DEF Abstract!Next
<1>. QED
  BY <1>5, <1>6, <1>7, <1>8, <1>9, <1>10 DEF Next

\* The invariant holds in every state, and every step is one of the list of
\* keys, when no allocation fails.
LEMMA CacheInvariance ==
    ASSUME MallocFails = FALSE
    PROVE  Spec => []CacheInv
<1>1. Init => CacheInv
  BY Zenon, CreatedGood DEF Init, CacheInv, Holds
<1>2. CacheInv /\ [Next]_vars => CacheInv'
  <2>1. CacheInv /\ UNCHANGED vars => CacheInv'
    BY Zenon DEF CacheInv, vars
  <2>. QED
    BY Zenon, <2>1, CallStep
<1>. QED
  BY <1>1, <1>2, PTL DEF Spec

(***************************************************************************)
(* As long as memory can be allocated, the list in order of use, the free  *)
(* list, the hash chains and the blocks of cache.c agree after every call, *)
(* for any number of entries and any hash function.                        *)
(***************************************************************************)
THEOREM ListsStayIntact ==
    ASSUME MallocFails = FALSE
    PROVE  Spec => []ListsIntact
<1>1. CacheInv => ListsIntact
  BY Zenon, IntactFromInv
<1>. QED
  BY <1>1, CacheInvariance, PTL

(***************************************************************************)
(* As long as memory can be allocated, in every state of a cache a fetch   *)
(* makes a hit the most recent key, and an invalidation forgets the        *)
(* designated keys and no others, through the hash table and through the   *)
(* list alike.                                                             *)
(***************************************************************************)
THEOREM CallsKeepTheirPromise ==
    ASSUME MallocFails = FALSE
    PROVE  Spec => []EachCallAsPromised
<1>1. CacheInv => EachCallAsPromised
  BY Zenon, PromiseFromInv
<1>. QED
  BY <1>1, CacheInvariance, PTL

(***************************************************************************)
(* As long as memory can be allocated, the pointers of cache.c implement   *)
(* the bounded list of keys in order of use of LruCache: an entry is       *)
(* evicted only when the cache is full, and it is the least recent one.    *)
(***************************************************************************)
THEOREM CacheIsAnLruList ==
    ASSUME MallocFails = FALSE
    PROVE  Spec => ImplementsLru
<1>1. Init => Abstract!Init
  <2>1. ASSUME Init PROVE KeysInOrder = << >>
    <3>1. Holds(cache, kind, << >>)
      BY Zenon, <2>1, CreatedGood DEF Init
    <3>. QED
      BY Zenon, <3>1, HeldKeys DEF KeysInOrder
  <2>. QED
    BY Zenon, <2>1 DEF Abstract!Init
<1>2. CacheInv /\ [Next]_vars => [Abstract!Next]_KeysInOrder
  <2>1. UNCHANGED vars => KeysInOrder' = KeysInOrder
    BY Zenon DEF KeysInOrder, vars
  <2>. QED
    BY Zenon, <2>1, CallStep
<1>. QED
  BY <1>1, <1>2, CacheInvariance, PTL DEF Spec, ImplementsLru, Abstract!Spec
=============================================================================
