--------------------------- MODULE NtfsPathProofs ---------------------------
(***************************************************************************)
(* Proofs about where paths lead, for NtfsFile: on a disk whose power was  *)
(* never lost the directories are a tree, and what the driver finds by its *)
(* caches is what they lead to, before and after every operation.          *)
(***************************************************************************)
EXTENDS NtfsInodeProofs

-----------------------------------------------------------------------------
(* The tree of directories.  Until a power loss cuts ntfs_create or        *)
(* ntfs_delete short, files and entries are in step.                       *)

\* A file is an entry of the directory that it has for a parent.
Listed(d, i) ==
    LET r == d.mft[i]
        dir == d.mft[r.parent.inum]
    IN  /\ r.name \in Names
        /\ dir.used /\ r.parent.seq = dir.seq
        /\ dir.ents[Upcase[r.name]] = Ref(i, r.seq)

\* An entry is of a file.
Backed(d, ref) ==
    ref # NoEntry => d.mft[ref.inum].used /\ d.mft[ref.inum].seq = ref.seq

\* A directory without entries.
Empty(d, i) == \A k \in Keys : d.mft[i].ents[k] = NoEntry

Tree(d) ==
    /\ d.mft[Root].used /\ d.mft[Root].name = Dot /\ d.mft[Root].parent.inum = Root
    /\ \A i \in Records : d.mft[i].used => Listed(d, i)
    /\ \A i \in Inums, k \in Keys : Backed(d, d.mft[i].ents[k])
    /\ \A i \in Inums : ~ d.mft[i].used => Empty(d, i)

\* The file of an entry.
OfEntry(d, p, k, ref) ==
    /\ ref.inum \in Records /\ d.mft[ref.inum].used /\ ref.seq = d.mft[ref.inum].seq
    /\ d.mft[ref.inum].parent.inum = p /\ Upcase[d.mft[ref.inum].name] = k

\* Every entry is of a file that has it for its name and its directory for a
\* parent.
LEMMA TreeEntry ==
    ASSUME NEW d \in Disks, Sound(d), Tree(d), NEW p \in Inums, NEW k \in Keys,
           d.mft[p].ents[k] # NoEntry
    PROVE  OfEntry(d, p, k, d.mft[p].ents[k])
<1>. EntryTold(d, p, k, d.mft[p].ents[k]) /\ Backed(d, d.mft[p].ents[k])
  BY Zenon DEF Sound, Told, Tree
<1>. QED
  BY Zenon DEF EntryTold, Backed, OfEntry

\* Nothing, or one inode in use.
Single(d, X) == X = {} \/ \E i \in Inums : X = {i} /\ d.mft[i].used

\* What a component leads to.
Looked(d, i, n) ==
    /\ Single(d, Look(d, i, n))
    /\ \A j \in Records : Look(d, i, n) = {j} =>
          d.mft[j].parent.inum = i /\ n # Dot /\ Upcase[d.mft[j].name] = Upcase[n]

\* In a tree every component leads to one such file or to none.
LEMMA LookSingle ==
    ASSUME NEW d \in Disks, Sound(d), Tree(d), NEW i \in Inums, NEW n \in Components
    PROVE  Looked(d, i, n)
<1>. USE Zenon
<1>1. Root \in Inums /\ Root \notin Records /\ Records \subseteq Inums
  BY InodeAssumption DEF Root, Inums
<1>2. CASE n = Dot
  <2>. /\ Look(d, i, n) = {} \/ Look(d, i, n) = {Root}
       /\ d.mft[Root].used
    BY <1>2, LookFacts DEF Tree
  <2>. QED
    BY <1>1 DEF Single, Looked
<1>3. CASE n # Dot
  <2>. DEFINE k == Upcase[n]
              ref == d.mft[i].ents[k]
  <2>1. k \in Keys
    BY <1>3 DEF Keys, Components
  <2>2. CASE ref = NoEntry
    <3>. Look(d, i, n) = {}
      BY <1>3, <2>2, LookFacts
    <3>. QED
      BY DEF Single, Looked
  <2>3. CASE ref # NoEntry
    <3>1. Look(d, i, n) = {ref.inum}
      BY <1>3, <2>3, LookFacts
    <3>. HIDE DEF k
    <3>. OfEntry(d, i, k, ref)
      BY <2>1, <2>3, TreeEntry
    <3>. HIDE DEF ref
    <3>. QED
      BY <1>1, <1>3, <3>1 DEF Single, OfEntry, Looked, k
  <2>. QED
    BY <2>2, <2>3
<1>. QED
  BY <1>2, <1>3

\* What a path leads to.
LEMMA LeadsSingle ==
    ASSUME NEW d \in Disks, Sound(d), Tree(d), NEW path \in Seq(Components)
    PROVE  \A k \in 0 .. Len(path) : Single(d, Leads(d, SubSeq(path, 1, k)))
<1>. USE Zenon
<1>. DEFINE N == Len(path)
            L(k) == Leads(d, SubSeq(path, 1, k))
            T == {k \in 0 .. N : Single(d, L(k))}
<1>1. N \in Nat /\ 0 \in 0 .. N /\ \A k \in 1 .. N : path[k] \in Components /\ k \in 0 .. N
  BY SMT
<1>2. /\ L(0) = {Root}
      /\ \A k \in 1 .. N : L(k) = Go(d, L(k - 1), path[k])
  BY Leading DEF Led
<1>. HIDE DEF L, N
<1>3. 0 \in T
  <2>. Root \in Inums /\ d.mft[Root].used
    BY NoEntryFacts DEF Tree
  <2>. QED
    BY <1>1, <1>2 DEF Single
<1>4. ASSUME NEW k \in 1 .. N, k - 1 \in T PROVE k \in T
  <2>1. Single(d, L(k - 1)) /\ L(k) = Go(d, L(k - 1), path[k])
    BY <1>2, <1>4
  <2>2. CASE L(k - 1) = {}
    BY <1>1, <2>1, <2>2, GoFacts DEF Single
  <2>3. CASE \E i \in Inums : L(k - 1) = {i}
    <3>1. PICK i \in Inums : L(k - 1) = {i}
      BY <2>3
    <3>. /\ L(k) = Look(d, i, path[k])
         /\ Looked(d, i, path[k])
      BY <2>1, <3>1, GoFacts, <1>1, LookSingle
    <3>. QED
      BY <1>1 DEF Looked
  <2>. QED
    BY <2>1, <2>2, <2>3 DEF Single
<1>. HIDE DEF T
<1>. 0 .. N \subseteq T
  BY <1>1, <1>3, <1>4, UpTo
<1>. QED
  BY DEF T, L, N

\* So does every path the driver can be given.
LEMMA PathSingle ==
    ASSUME NEW d \in Disks, Sound(d), Tree(d), NEW path \in Paths
    PROVE  path \in Seq(Components) /\ Single(d, Leads(d, path))
<1>. USE Zenon
<1>. path \in Seq(Components)
  BY PathFacts DEF Components
<1>2. Len(path) \in 0 .. Len(path)
  BY SMT
<1>. /\ Led(d, path)
     /\ Single(d, Leads(d, SubSeq(path, 1, Len(path))))
  BY Leading, <1>2, LeadsSingle
<1>. QED
  BY DEF Led

\* Disk c is disk d without the files X, and nothing was below them.
Pruned(d, c, X) ==
    /\ Root \notin X
    /\ \A i \in Inums \ X, n \in Components : Look(c, i, n) = Look(d, i, n) \ X
    /\ \A i \in X, n \in Components : Look(d, i, n) = {}

\* Then its paths lead where they led, or nowhere if they led to X.
Loses(d, c, X, path) == Leads(c, path) = Leads(d, path) \ X

\* It is so for every path, by induction along it.
LEMMA LeadsPruned ==
    ASSUME NEW d \in Disks, NEW c \in Disks, NEW X, Pruned(d, c, X),
           NEW path \in Seq(Components)
    PROVE  Loses(d, c, X, path)
<1>. USE Zenon
<1>. DEFINE N == Len(path)
            L(k) == Leads(d, SubSeq(path, 1, k))
            M(k) == Leads(c, SubSeq(path, 1, k))
            T == {k \in 0 .. N : M(k) = L(k) \ X}
<1>1. N \in Nat /\ 0 \in 0 .. N /\ \A k \in 1 .. N : path[k] \in Components /\ k \in 0 .. N
  BY SMT
<1>2. N \in 0 .. N /\ \A k \in 1 .. N : k - 1 \in 0 .. N
  BY SMT, <1>1
<1>3. /\ L(0) = {Root} /\ L(N) = Leads(d, path)
      /\ \A k \in 1 .. N : L(k) = Go(d, L(k - 1), path[k])
      /\ \A k \in 0 .. N : L(k) \subseteq Inums
      /\ M(0) = {Root} /\ M(N) = Leads(c, path)
      /\ \A k \in 1 .. N : M(k) = Go(c, M(k - 1), path[k])
  BY Leading DEF Led
<1>. HIDE DEF L, M, N
<1>5. 0 \in T
  BY <1>1, <1>3 DEF Pruned
<1>6. ASSUME NEW k \in 1 .. N, k - 1 \in T PROVE k \in T
  <2>. DEFINE Y == L(k - 1)
              n == path[k]
  <2>1. M(k - 1) = Y \ X /\ L(k) = Go(d, Y, n) /\ M(k) = Go(c, M(k - 1), n)
    BY <1>3, <1>6
  <2>2. Y \subseteq Inums /\ n \in Components
    BY <1>1, <1>2, <1>3
  <2>. HIDE DEF Y, n
  <2>. ASSUME NEW x PROVE x \in Go(c, Y \ X, n) <=> x \in Go(d, Y, n) /\ x \notin X
    <3>1. /\ x \in Go(c, Y \ X, n) <=> \E i \in Y \ X : x \in Look(c, i, n)
          /\ x \in Go(d, Y, n) <=> \E i \in Y : x \in Look(d, i, n)
      BY DEF Go
    <3>3. \A i \in Y \ X : x \in Look(c, i, n) <=> x \in Look(d, i, n) /\ x \notin X
      <4>1. \A i \in Y \ X : i \in Inums \ X
        BY <2>2
      <4>. \A i \in Y \ X : Look(c, i, n) = Look(d, i, n) \ X
        BY <2>2, <4>1 DEF Pruned
      <4>. QED
        OBVIOUS
    <3>. \A i \in Y : i \in X => x \notin Look(d, i, n)
      BY <2>2 DEF Pruned
    <3>. QED
      BY <3>1, <3>3
  <2>. QED
    BY <1>1, <2>1
<1>. HIDE DEF T
<1>. 0 .. N \subseteq T
  BY <1>1, <1>5, <1>6, UpTo
<1>. QED
  BY <1>2, <1>3 DEF T, Loses

-----------------------------------------------------------------------------
(* Paths in the cache, and the walk along a path.                          *)

\* The paths in the cache lead where the directories lead.
Directed(d, ps) == \A e \in Range(ps) : Leads(d, e.path) = {e.inum}

\* What was found by a path is what it leads to.
Finds(d, path, at) ==
    /\ Directed(d, at.s.paths)
    /\ Leads(d, path) = {} => IsNull(at.ni)
    /\ \A i \in Inums : Leads(d, path) = {i} => ~ IsNull(at.ni) /\ at.ni.inum = i

\* ntfs_pathname_to_inode.
LEMMA PathnameFinds ==
    ASSUME NEW s, Good(s), Tree(s.disk), Directed(s.disk, s.paths), NEW path \in Paths
    PROVE  Finds(s.disk, path, ntfs_pathname_to_inode(s, path))
\* One component.
<1>StepFinds. ASSUME NEW s1, Good(s1), Tree(s1.disk), NEW path1 \in Paths, NEW k \in 1 .. Len(path1), NEW at,
                     Reached(s1, at), Finds(s1.disk, SubSeq(path1, 1, k - 1), at)
              PROVE  Finds(s1.disk, SubSeq(path1, 1, k), Step(path1, at, k))
  <2>. USE <1>StepFinds
  \* What Step finds is what the path1 leads to.
  <2>FoundLeads. ASSUME NEW s0, NEW path0, NEW k0, NEW at0, Agrees(s0.disk, at0.ni), Directed(s0.disk, at0.s.paths),
                        Leads(s0.disk, SubSeq(path0, 1, k0)) = Look(s0.disk, at0.ni.inum, path0[k0])
                 PROVE  Found(path0, at0, k0) = Leads(s0.disk, SubSeq(path0, 1, k0))
    <3>. USE Zenon, <2>FoundLeads
    <3>. DEFINE d == s0.disk
                Q == SubSeq(path0, 1, k0)
                cached == PathEntry(at0.s, Q)
    <3>1. CASE cached # {}
      <4>1. \A e \in cached : Leads(d, Q) = {e.inum}
        BY DEF PathEntry, Directed
      <4>2. Found(path0, at0, k0) = {e.inum : e \in cached}
        BY <3>1 DEF Found
      <4>. HIDE DEF cached, Q, d
      <4>. {e.inum : e \in cached} = Leads(d, Q)
        BY <3>1, <4>1
      <4>. QED
        BY <4>2 DEF d, Q
    <3>2. CASE cached = {}
      <4>. DEFINE ni == Inode(at0.ni.inum, d.mft[at0.ni.inum])
                  n == path0[k0]
      <4>1. /\ Found(path0, at0, k0) = ntfs_inode_lookup_by_name(at0.ni, n)
            /\ Look(d, at0.ni.inum, n) = ntfs_inode_lookup_by_name(ni, n)
        BY <3>2 DEF Found, Look
      <4>3. ni.inum = at0.ni.inum /\ ni.rec.ents = at0.ni.rec.ents
        <5>. ni.inum = at0.ni.inum /\ ni.rec = d.mft[at0.ni.inum]
          BY DEF Inode
        <5>. QED
          BY DEF Agrees, Alike
      <4>. HIDE DEF ni, n
      <4>. ntfs_inode_lookup_by_name(at0.ni, n) = ntfs_inode_lookup_by_name(ni, n)
        BY <4>3 DEF ntfs_inode_lookup_by_name
      <4>. QED
        BY <4>1 DEF d, n
    <3>. QED
      BY <3>1, <3>2
  <2>. USE Zenon
  <2>. DEFINE d == s1.disk
              P == SubSeq(path1, 1, k - 1)
              Q == SubSeq(path1, 1, k)
              r == Step(path1, at, k)
              n == path1[k]
  <2>1. path1 \in Seq(Components) /\ d \in Disks /\ Sound(d)
    BY PathFacts, GoodFields DEF Components
  <2>2. k \in 0 .. Len(path1) /\ k - 1 \in 0 .. Len(path1)
    BY SMT, <2>1
  <2>3. Leads(d, Q) = Go(d, Leads(d, P), n) /\ Single(d, Leads(d, P)) /\ Single(d, Leads(d, Q))
    BY <2>1, <2>2, Leading, LeadsSingle DEF Led
  <2>4. Steps(s1, path1, k, at, r)
    BY StepGood
  <2>. HIDE DEF r
  <2>5. CASE Leads(d, P) = {}
    <3>. Leads(d, Q) = {} /\ IsNull(at.ni)
      BY <2>3, <2>5, GoFacts DEF Finds
    <3>. r = at
      BY <2>4 DEF Steps
    <3>. HIDE DEF d, P, Q
    <3>. QED
      BY DEF Finds, d, P, Q, r
  <2>6. CASE \E i \in Inums : Leads(d, P) = {i}
    <3>1. PICK i \in Inums : Leads(d, P) = {i}
      BY <2>6
    <3>2. ~ IsNull(at.ni) /\ at.ni.inum = i /\ Directed(d, at.s.paths)
      BY <3>1 DEF Finds
    <3>3. /\ Agrees(d, at.ni)
          /\ Leads(d, Q) = Look(d, at.ni.inum, n)
      BY <3>2, <2>3, <3>1, GoFacts DEF Reached
    <3>5. Found(path1, at, k) = Leads(d, Q)
      BY <3>2, <3>3, <2>FoundLeads
    <3>6. CASE Leads(d, Q) = {}
      <4>. IsNull(r.ni) /\ Range(r.s.paths) \subseteq Range(at.s.paths)
        BY <2>4, <3>2, <3>5, <3>6 DEF Steps
      <4>. Directed(d, r.s.paths)
        BY <3>2 DEF Directed
      <4>. HIDE DEF d, P, Q
      <4>. QED
        BY <3>6 DEF Finds, d, Q, r
    <3>7. CASE \E j \in Inums : Leads(d, Q) = {j} /\ d.mft[j].used
      <4>1. PICK j \in Inums : Leads(d, Q) = {j} /\ d.mft[j].used
        BY <3>7
      <4>2. PICK x \in Found(path1, at, k) \cap Inums :
                /\ s1.disk.mft[x].used => ~ IsNull(r.ni) /\ r.ni.inum = x
                /\ Range(r.s.paths) \subseteq Range(at.s.paths) \cup {[path |-> Q, inum |-> x]}
        BY <2>4, <3>2, <3>5, <4>1 DEF Steps
      <4>3. x = j
        BY <3>5, <4>1
      <4>. DEFINE e == [path |-> Q, inum |-> j]
      <4>4. e.path = Q /\ e.inum = j
        OBVIOUS
      <4>. HIDE DEF e
      <4>. ~ IsNull(r.ni) /\ r.ni.inum = j /\ Range(r.s.paths) \subseteq Range(at.s.paths) \cup {e}
        BY <4>1, <4>2, <4>3 DEF e
      <4>. Directed(d, r.s.paths)
        BY <3>2, <4>1, <4>4 DEF Directed
      <4>. HIDE DEF d, P, Q
      <4>. QED
        BY <4>1 DEF Finds, d, Q, r
    <3>. QED
      BY <2>3, <3>6, <3>7 DEF Single
  <2>. QED
    BY <2>3, <2>5, <2>6 DEF Single
<1>. USE Zenon
<1>. DEFINE d == s.disk
            r == ntfs_pathname_to_inode(s, path)
<1>1. path \in Seq(Components) /\ d \in Disks /\ Sound(d)
  BY PathFacts, GoodFields DEF Components
<1>2. Led(d, path)
  BY <1>1, Leading
<1>3. CASE PathEntry(s, path) = {}
  <2>1. PICK at : Walked(s, path, at) /\ r = at[Len(path)]
    BY <1>3, Walking
  <2>. HIDE DEF r
  <2>. DEFINE N == Len(path)
              T == {k \in 0 .. N : Finds(d, SubSeq(path, 1, k), at[k])}
  <2>2. /\ N \in Nat /\ 0 \in 0 .. N /\ N \in 0 .. N
        /\ \A k \in 1 .. N : k \in 0 .. N /\ k - 1 \in 0 .. N
    BY SMT, <1>1
  <2>3. 0 \in T
    <3>1. Quiet(s, s) /\ Root \in Inums /\ d.mft[Root].used
      BY NoEntryFacts DEF Quiet, Tree
    <3>. DEFINE x == ntfs_inode_open(s, Root, 0)
    <3>2. Reaches(s, s, Root, 0, x)
      BY <3>1, OpenReached
    <3>3. at[0] = x /\ Leads(d, SubSeq(path, 1, 0)) = {Root}
      BY <1>2, <2>1 DEF Walked, Led
    <3>. HIDE DEF x
    <3>4. 0 \in {0, s.disk.mft[Root].seq}
      OBVIOUS
    <3>5. x.s.paths = s.paths /\ ~ IsNull(x.ni) /\ x.ni.inum = Root
      BY <3>1, <3>2, <3>4 DEF Reaches
    <3>. Finds(d, SubSeq(path, 1, 0), x)
      BY <3>3, <3>5 DEF Finds
    <3>. QED
      BY <2>2, <3>3
  <2>4. ASSUME NEW k \in 1 .. N, k - 1 \in T PROVE k \in T
    <3>1. /\ Finds(d, SubSeq(path, 1, k - 1), at[k - 1])
          /\ Reached(s, at[k - 1]) /\ at[k] = Step(path, at[k - 1], k)
      BY <2>4, <2>1, <2>2 DEF Walked
    <3>. Finds(d, SubSeq(path, 1, k), at[k])
      BY <3>1, <1>StepFinds
    <3>. QED
      BY <2>2
  <2>. HIDE DEF T
  <2>5. 0 .. N \subseteq T
    BY <2>2, <2>3, <2>4, UpTo
  <2>. Finds(d, SubSeq(path, 1, N), at[N]) /\ SubSeq(path, 1, N) = path
    BY <1>2, <2>2, <2>5 DEF T, Led
  <2>. QED
    BY <2>1 DEF r
<1>4. CASE PathEntry(s, path) # {}
  <2>. DEFINE e == CHOOSE e \in PathEntry(s, path) : TRUE
              u == SetPaths(s, <<e>> \o Without(s.paths, {e}))
  <2>1. r = ntfs_inode_open(u, e.inum, 0)
    BY <1>4 DEF ntfs_pathname_to_inode, SetPaths
  <2>2. e \in Range(s.paths) /\ e.path = path
    BY <1>4 DEF PathEntry
  <2>. HIDE DEF e
  <2>3. Hits(s, e, u)
    BY <2>2, HitGood
  <2>. HIDE DEF u, r
  <2>4. Quiet(s, u) /\ Range(u.paths) \subseteq Range(s.paths) /\ e \in PathEntries
    BY <2>3 DEF Hits
  <2>5. e.inum \in Inums
    BY <2>4 DEF PathEntries
  <2>6. Leads(d, path) = {e.inum} /\ d.mft[e.inum].used
    <3>. /\ Leads(d, path) = {e.inum}
         /\ Single(d, Leads(d, path))
      BY <2>2, <1>1, PathSingle DEF Directed
    <3>. QED
      BY DEF Single
  <2>7. /\ Reaches(s, u, e.inum, 0, r)
        /\ 0 \in {0, s.disk.mft[e.inum].seq}
    BY <2>1, <2>4, <2>5, OpenReached
  <2>9. r.s.paths = u.paths /\ ~ IsNull(r.ni) /\ r.ni.inum = e.inum
    BY <2>6, <2>7 DEF Reaches
  <2>10. Directed(d, r.s.paths)
    BY <2>4, <2>9 DEF Directed
  <2>. Finds(d, path, r)
    BY <2>6, <2>9, <2>10 DEF Finds
  <2>. QED
    BY DEF r
<1>. QED
  BY <1>3, <1>4

-----------------------------------------------------------------------------
(* How the tree changes.                                                   *)

\* Two records that differ in their entries at most.
Same(r, q) ==
    /\ r.used = q.used /\ r.seq = q.seq /\ r.size = q.size
    /\ r.name = q.name /\ r.parent = q.parent

\* Disk d has the file i, with nothing in it, as entry k of directory p; disk c
\* has not, and has all else that d has.
Apart(d, c, p, i, k) ==
    /\ d.mft[i].used /\ ~ c.mft[i].used /\ Empty(d, i) /\ Empty(c, i)
    /\ d.mft[i].parent.inum = p /\ Upcase[d.mft[i].name] = k /\ Listed(d, i)
    /\ p \in Inums \ {i} /\ i \in Records /\ k \in Keys
    /\ \A j \in Inums \ {i} : Same(c.mft[j], d.mft[j])
    /\ \A j \in Inums \ {i}, l \in Keys :
          c.mft[j].ents[l] = IF j = p /\ l = k THEN NoEntry ELSE d.mft[j].ents[l]

\* The numbers of files.
LEMMA Numbered ==
    /\ Root \in Inums /\ Root \notin Records /\ Records \subseteq Inums
    /\ \A n \in Names : Upcase[n] \in Keys
    /\ \A i \in Records : \A q : Ref(i, q) # NoEntry
    /\ \A i, q : Ref(i, q).inum = i /\ Ref(i, q).seq = q
<1>. USE Zenon
<1>1. /\ Root \in Inums /\ Root \notin Records /\ Records \subseteq Inums
      /\ \A n \in Names : Upcase[n] \in Keys
  BY InodeAssumption DEF Root, Inums, Keys
<1>. \A i, q : Ref(i, q).inum = i /\ Ref(i, q).seq = q
  BY DEF Ref
<1>. NoEntry.inum = Root
  BY DEF NoEntry
<1>. QED
  BY <1>1

\* Paths lead to the file only through its entry.
LEMMA PrunedFile ==
    ASSUME NEW d \in Disks, NEW c \in Disks, NEW p, NEW i, NEW k, Sound(d), Tree(d),
           Apart(d, c, p, i, k)
    PROVE  Pruned(d, c, {i})
<1>. USE Zenon
<1>1. /\ Empty(d, i) /\ d.mft[i].parent.inum = p /\ Upcase[d.mft[i].name] = k
      /\ Listed(d, i) /\ p \in Inums \ {i} /\ i \in Records /\ k \in Keys
  BY DEF Apart
<1>2. \A j \in Inums \ {i}, l \in Keys :
          c.mft[j].ents[l] = IF j = p /\ l = k THEN NoEntry ELSE d.mft[j].ents[l]
  BY DEF Apart
<1>. HIDE DEF NoEntry
<1>3. i # Root /\ i \in Inums
  BY <1>1, Numbered
<1>4. ASSUME NEW n \in Components PROVE Look(d, i, n) = {}
  <2>1. CASE n = Dot
    BY <1>3, <2>1, LookFacts
  <2>2. CASE n # Dot
    <3>1. Upcase[n] \in Keys
      BY <2>2, Numbered DEF Components
    <3>. d.mft[i].ents[Upcase[n]] = NoEntry
      BY <1>1, <3>1 DEF Empty
    <3>. QED
      BY <2>2, LookFacts
  <2>. QED
    BY <2>1, <2>2
<1>. ASSUME NEW j \in Inums \ {i}, NEW n \in Components
     PROVE  Look(c, j, n) = Look(d, j, n) \ {i}
  <2>1. CASE n = Dot
    <3>. /\ Look(c, j, n) = IF j = Root THEN {Root} ELSE {}
         /\ Look(d, j, n) = IF j = Root THEN {Root} ELSE {}
      BY <2>1, LookFacts
    <3>. QED
      BY <1>3
  <2>2. CASE n # Dot
    <3>. DEFINE l == Upcase[n]
                ref == d.mft[j].ents[l]
    <3>1. l \in Keys
      BY <2>2, Numbered DEF Components
    <3>2. CASE j = p /\ l = k
      <4>1. c.mft[j].ents[l] = NoEntry
        BY <1>2, <3>1, <3>2
      <4>2. /\ ref = Ref(i, d.mft[i].seq)
            /\ Ref(i, d.mft[i].seq) # NoEntry /\ Ref(i, d.mft[i].seq).inum = i
        BY <1>1, <3>2, Numbered DEF Listed
      <4>4. Look(c, j, n) = {}
        BY <2>2, <4>1, LookFacts
      <4>5. Look(d, j, n) = {ref.inum}
        <5>. d.mft[j].ents[Upcase[n]] # NoEntry
          BY <4>2
        <5>. QED
          BY <2>2, LookFacts
      <4>. ref.inum = i
        BY <4>2
      <4>. QED
        BY <4>4, <4>5
    <3>3. CASE ~ (j = p /\ l = k)
      <4>1. c.mft[j].ents[l] = ref
        BY <1>2, <3>1, <3>3
      <4>2. CASE ref = NoEntry
        <5>. /\ Look(c, j, n) = {}
             /\ Look(d, j, n) = {}
          BY <2>2, <4>1, <4>2, LookFacts
        <5>. QED
          OBVIOUS
      <4>3. CASE ref # NoEntry
        <5>1. Look(c, j, n) = {ref.inum}
          <6>1. c.mft[j].ents[Upcase[n]] # NoEntry
            BY <4>1, <4>3
          <6>. Look(c, j, n) = {c.mft[j].ents[Upcase[n]].inum}
            BY <2>2, <6>1, LookFacts
          <6>. QED
            BY <4>1
        <5>2. Look(d, j, n) = {ref.inum}
          BY <2>2, <4>3, LookFacts
        <5>3. OfEntry(d, j, l, ref)
          BY <3>1, <4>3, TreeEntry
        <5>. HIDE DEF ref, l
        <5>. ref.inum # i
          BY <1>1, <3>3, <5>3 DEF OfEntry
        <5>. QED
          BY <5>1, <5>2
      <4>. QED
        BY <4>2, <4>3
    <3>. QED
      BY <3>2, <3>3
  <2>. QED
    BY <2>1, <2>2
<1>. QED
  BY <1>3, <1>4 DEF Pruned

\* Disk c has the files and the entries of disk d.
Steady(d, c) ==
    \A j \in Inums :
        /\ c.mft[j].used = d.mft[j].used
        /\ \A k \in Keys : c.mft[j].ents[k] = d.mft[j].ents[k]
        /\ d.mft[j].used =>
              /\ c.mft[j].seq = d.mft[j].seq /\ c.mft[j].name = d.mft[j].name
              /\ c.mft[j].parent = d.mft[j].parent

-----------------------------------------------------------------------------
(* Handles and cached paths when the disk changes.                         *)

HandleRecs ==
    [open : BOOLEAN, path : Paths, root : BOOLEAN, dir : BOOLEAN, ro : BOOLEAN,
     pos : Nat, size : Nat, file : Refs]

\* The path of an open handle leads to its file, which has the size that the
\* handle has or is larger; or the record was freed since.
Placed(d, x) ==
    LET rec == d.mft[x.file.inum]
    IN  x.open => \/ x.file.seq < rec.seq
                  \/ /\ x.file.seq = rec.seq /\ rec.used
                     /\ Leads(d, x.path) = {x.file.inum} /\ x.size <= rec.size

\* While no power loss has cut an operation short.
Settled(d, ps, hs) ==
    Tree(d) /\ Directed(d, ps) /\ \A h \in Handles : Placed(d, hs[h])

\* From disk d to disk c the files X are freed; all others stay, and the paths
\* that lead to them.
Evolves(d, c, X) ==
    \A j \in Inums :
        /\ d.mft[j].seq <= c.mft[j].seq
        /\ j \in X => d.mft[j].seq < c.mft[j].seq
        /\ d.mft[j].used /\ j \notin X =>
              /\ c.mft[j].used /\ c.mft[j].seq = d.mft[j].seq /\ d.mft[j].size <= c.mft[j].size
              /\ \A path \in Paths : Leads(d, path) = {j} => Leads(c, path) = {j}

\* The cached paths and the handles stay settled.
LEMMA SettledEvolves ==
    ASSUME NEW d \in Disks, NEW c \in Disks, NEW X, Evolves(d, c, X), Tree(c), Sound(d),
           NEW ps, NEW qs \in Seq(PathEntries), Directed(d, qs), \A e \in Range(qs) : e.inum \notin X,
           NEW hs \in [Handles -> HandleRecs], Settled(d, ps, hs), load.size \in Nat
    PROVE  Settled(c, qs, hs)
\* A handle keeps its place.
<1>PlacedEvolves. ASSUME NEW d0 \in Disks, NEW c0 \in Disks, NEW X0, Evolves(d0, c0, X0), NEW x \in HandleRecs,
                         Placed(d0, x), load.size \in Nat
                  PROVE  Placed(c0, x)
  <2>. USE Zenon, <1>PlacedEvolves
  <2>. DEFINE i == x.file.inum
              q == x.file.seq
              a == d0.mft[i].seq
              b == c0.mft[i].seq
              z == d0.mft[i].size
              y == c0.mft[i].size
  <2>1. i \in Inums /\ q \in 0 .. MaxSeq /\ x.size \in Nat /\ x.path \in Paths
    BY DEF HandleRecs, Refs
  <2>2. d0.mft[i] \in RecordType /\ c0.mft[i] \in RecordType
    BY <2>1 DEF Disks
  <2>3. /\ a \in 1 .. MaxSeq /\ b \in 1 .. MaxSeq
        /\ z \in 0 .. load.size /\ y \in 0 .. load.size
    BY <2>2, RecordFields
  <2>4. /\ x.open => q < a \/ (q = a /\ d0.mft[i].used /\ Leads(d0, x.path) = {i} /\ x.size <= z)
    BY DEF Placed
  <2>5. /\ a <= b /\ (i \in X0 => a < b)
        /\ d0.mft[i].used /\ i \notin X0 =>
              /\ c0.mft[i].used /\ b = a /\ z <= y
              /\ Leads(d0, x.path) = {i} => Leads(c0, x.path) = {i}
    BY <2>1 DEF Evolves
  <2>. HIDE DEF i, q, a, b, z, y
  <2>6. MaxSeq \in Nat
    BY Bounds
  <2>. x.open => q < b \/ (q = b /\ c0.mft[i].used /\ Leads(c0, x.path) = {i} /\ x.size <= y)
    <3>1. q < a => q < b
      BY SMT, <2>1, <2>3, <2>5, <2>6
    <3>2. q = a /\ a < b => q < b
      OBVIOUS
    <3>. x.size <= z /\ z <= y => x.size <= y
      BY SMT, <2>1, <2>3
    <3>. QED
      BY <2>4, <2>5, <3>1, <3>2
  <2>. QED
    BY DEF Placed, i, q, b, y
<1>. USE Zenon
<1>1. ASSUME NEW e \in Range(qs) PROVE Leads(c, e.path) = {e.inum}
  <2>1. e.path \in Paths /\ e.inum \in Inums
    <3>. e \in PathEntries
      BY RangeOf
    <3>. QED
      BY DEF PathEntries
  <2>2. Leads(d, e.path) = {e.inum}
    BY DEF Directed
  <2>3. d.mft[e.inum].used
    <3>. Single(d, Leads(d, e.path))
      BY <2>1, PathSingle DEF Settled
    <3>. QED
      BY <2>2 DEF Single
  <2>. e.inum \notin X
    OBVIOUS
  <2>. QED
    BY <2>1, <2>2, <2>3 DEF Evolves
<1>2. Directed(c, qs)
  BY <1>1 DEF Directed
<1>. ASSUME NEW h \in Handles PROVE Placed(c, hs[h])
  <2>. hs[h] \in HandleRecs /\ Placed(d, hs[h])
    BY DEF Settled
  <2>. QED
    BY <1>PlacedEvolves
<1>. QED
  BY <1>2 DEF Settled

\* The files stay.
LEMMA SteadyEvolves ==
    ASSUME NEW d \in Disks, NEW c \in Disks, Tree(d), Steady(d, c),
           \A j \in Inums : /\ d.mft[j].seq <= c.mft[j].seq
                            /\ d.mft[j].used => d.mft[j].size <= c.mft[j].size
    PROVE  Evolves(d, c, {}) /\ Tree(c)
\* Its paths lead where they led.
<1>LeadsSteady. ASSUME NEW d0 \in Disks, NEW c0 \in Disks, Steady(d0, c0), NEW path \in Seq(Components)
                PROVE  Leads(c0, path) = Leads(d0, path)
  <2>. USE Zenon, <1>LeadsSteady
  <2>. HIDE DEF NoEntry
  <2>1. ASSUME NEW i \in Inums, NEW n \in Components
        PROVE  Look(c0, i, n) = Look(d0, i, n)
    <3>1. CASE n = Dot
      <4>. /\ Look(c0, i, n) = IF i = Root THEN {Root} ELSE {}
           /\ Look(d0, i, n) = IF i = Root THEN {Root} ELSE {}
        BY <3>1, LookFacts
      <4>. QED
        OBVIOUS
    <3>2. CASE n # Dot
      <4>. DEFINE k == Upcase[n]
      <4>1. k \in Keys
        BY <3>2, Numbered DEF Components
      <4>2. c0.mft[i].ents[k] = d0.mft[i].ents[k]
        BY <4>1 DEF Steady
      <4>3. CASE d0.mft[i].ents[k] = NoEntry
        <5>1. Look(d0, i, n) = {}
          BY <3>2, <4>3, LookFacts
        <5>2. c0.mft[i].ents[Upcase[n]] = NoEntry
          BY <4>2, <4>3
        <5>. Look(c0, i, n) = {}
          BY <3>2, <5>2, LookFacts
        <5>. QED
          BY <5>1
      <4>4. CASE d0.mft[i].ents[k] # NoEntry
        <5>1. Look(d0, i, n) = {d0.mft[i].ents[k].inum}
          BY <3>2, <4>4, LookFacts
        <5>2. c0.mft[i].ents[Upcase[n]] # NoEntry
          BY <4>2, <4>4
        <5>. Look(c0, i, n) = {c0.mft[i].ents[Upcase[n]].inum}
          BY <3>2, <5>2, LookFacts
        <5>. QED
          BY <4>2, <5>1
      <4>. QED
        BY <4>3, <4>4
    <3>. QED
      BY <3>1, <3>2
  <2>2. ASSUME NEW i \in Inums \ {}, NEW n \in Components
        PROVE  Look(c0, i, n) = Look(d0, i, n) \ {}
    <3>. Look(c0, i, n) = Look(d0, i, n)
      BY <2>1
    <3>. QED
      OBVIOUS
  <2>3. Pruned(d0, c0, {})
    <3>. Root \notin {} /\ \A i \in {}, n \in Components : Look(d0, i, n) = {}
      OBVIOUS
    <3>. QED
      BY <2>2 DEF Pruned
  <2>. Loses(d0, c0, {}, path)
    BY <2>3, LeadsPruned
  <2>. QED
    BY DEF Loses
\* The tree stays one.
<1>TreeSteady. Tree(c)
  <2>. USE Zenon
  <2>1. ASSUME NEW j \in Inums
        PROVE  /\ c.mft[j].used = d.mft[j].used
               /\ \A k \in Keys : c.mft[j].ents[k] = d.mft[j].ents[k]
    BY DEF Steady
  <2>2. ASSUME NEW j \in Inums, d.mft[j].used
        PROVE  /\ c.mft[j].seq = d.mft[j].seq /\ c.mft[j].name = d.mft[j].name
               /\ c.mft[j].parent = d.mft[j].parent
    BY <2>2 DEF Steady
  <2>. HIDE DEF NoEntry
  <2>3. c.mft[Root].used /\ c.mft[Root].name = Dot /\ c.mft[Root].parent.inum = Root
    BY <2>1, <2>2, Numbered DEF Tree
  <2>4. ASSUME NEW j \in Inums, NEW k \in Keys
        PROVE  d.mft[j].ents[k].inum \in Inums /\ d.mft[j].parent.inum \in Inums
    <3>. d.mft[j] \in RecordType
      BY DEF Disks
    <3>. QED
      BY RecordFields
  <2>5. ASSUME NEW j \in Records, c.mft[j].used PROVE Listed(c, j)
    <3>. DEFINE q == d.mft[j].parent.inum
                l == Upcase[d.mft[j].name]
    <3>1. j \in Inums /\ d.mft[j].used
      BY <2>1, <2>5, Numbered
    <3>2. Listed(d, j)
      BY <3>1 DEF Tree
    <3>. /\ d.mft[j].name \in Names /\ d.mft[q].used /\ d.mft[j].parent.seq = d.mft[q].seq
         /\ d.mft[q].ents[l] = Ref(j, d.mft[j].seq)
      BY <3>2 DEF Listed
    <3>4. l \in Keys /\ q \in Inums
      BY <2>4, <3>1, Numbered
    <3>. HIDE DEF q, l
    <3>. /\ c.mft[q].used /\ c.mft[q].seq = d.mft[q].seq
         /\ c.mft[q].ents[l] = Ref(j, d.mft[j].seq)
         /\ c.mft[j].seq = d.mft[j].seq /\ c.mft[j].name = d.mft[j].name
         /\ c.mft[j].parent = d.mft[j].parent
      BY <2>1, <2>2, <3>4, <3>1
    <3>. QED
      BY DEF Listed, q, l
  <2>6. ASSUME NEW j \in Inums, NEW k \in Keys PROVE Backed(c, c.mft[j].ents[k])
    <3>. DEFINE ref == d.mft[j].ents[k]
    <3>. c.mft[j].ents[k] = ref /\ ref.inum \in Inums /\ Backed(d, ref)
      BY <2>1, <2>4 DEF Tree
    <3>. HIDE DEF ref
    <3>. Backed(c, ref)
      BY <2>1, <2>2 DEF Backed
    <3>. QED
      OBVIOUS
  <2>7. ASSUME NEW j \in Inums, ~ c.mft[j].used PROVE Empty(c, j)
    BY <2>1, <2>7 DEF Tree, Empty
  <2>. QED
    BY <2>3, <2>5, <2>6, <2>7 DEF Tree
<1>. USE Zenon
<1>1. ASSUME NEW path \in Paths PROVE Leads(c, path) = Leads(d, path)
  <2>. path \in Seq(Components)
    BY PathFacts DEF Components
  <2>. QED
    BY <1>LeadsSteady
<1>2. ASSUME NEW j \in Inums, d.mft[j].used
      PROVE  c.mft[j].used /\ c.mft[j].seq = d.mft[j].seq
  BY <1>2 DEF Steady
<1>. Evolves(d, c, {})
  BY <1>1, <1>2 DEF Evolves
<1>. QED
  BY <1>TreeSteady

\* Record r is the directory p of disk d with ref for entry k.
EntryChanged(d, p, k, ref, r) ==
    /\ Same(r, d.mft[p])
    /\ \A l \in Keys : r.ents[l] = IF l = k THEN ref ELSE d.mft[p].ents[l]

\* So it is for a record that is alike.
LEMMA EntryPutFacts ==
    ASSUME NEW d \in Disks, NEW p \in Inums, NEW k \in Keys, NEW ref \in Refs, NEW r,
           Alike(r, WithEntries(d.mft[p], [d.mft[p].ents EXCEPT ![k] = ref]))
    PROVE  EntryChanged(d, p, k, ref, r)
<1>. USE Zenon
<1>. DEFINE rec == d.mft[p]
            ents == [rec.ents EXCEPT ![k] = ref]
            q == WithEntries(rec, ents)
<1>1. rec \in RecordType
  BY DEF Disks
<1>2. rec.ents \in [Keys -> Refs]
  BY <1>1, RecordFields
<1>3. /\ ents \in [Keys -> Refs]
      /\ \A l \in Keys : ents[l] = IF l = k THEN ref ELSE rec.ents[l]
  BY <1>2
<1>4. Alike(r, q)
  OBVIOUS
<1>. HIDE DEF ents, rec
<1>5. /\ q.ents = ents /\ q.used = rec.used /\ q.seq = rec.seq
      /\ q.size = rec.size /\ q.name = rec.name /\ q.parent = rec.parent
  BY <1>1, <1>3, EntriesFields
<1>. HIDE DEF q
<1>. /\ r.ents = ents /\ r.used = rec.used /\ r.seq = rec.seq
     /\ r.size = rec.size /\ r.name = rec.name /\ r.parent = rec.parent
  BY <1>4, <1>5 DEF Alike
<1>. QED
  BY <1>3 DEF EntryChanged, Same, rec

-----------------------------------------------------------------------------
(* The way up.                                                             *)

\* The directory of a file is where the path without its last component leads.
LEMMA LeadsParent ==
    ASSUME NEW d \in Disks, Sound(d), Tree(d), NEW q \in Seq(Components), NEW i \in Records,
           Leads(d, q) = {i}
    PROVE  \E u \in Seq(Components) :
               Len(u) + 1 = Len(q) /\ Leads(d, u) = {d.mft[i].parent.inum}
\* A sequence without its last element.
<1>FrontFacts. ASSUME NEW S, NEW q0 \in Seq(S), q0 # << >>
               PROVE  LET m == Len(q0)
                          u == SubSeq(q0, 1, m - 1)
                      IN  /\ m \in 1 .. m /\ m - 1 \in 0 .. m /\ q0[m] \in S
                          /\ u \in Seq(S) /\ Len(u) + 1 = m
  <2>. USE <1>FrontFacts
  <2>. DEFINE m == Len(q0)
  <2>1. m \in Nat /\ m # 0
    OBVIOUS
  <2>2. /\ m \in 1 .. m /\ m - 1 \in 0 .. m /\ m - 1 \in Nat
        /\ q0[m] \in S
    BY <2>1
  <2>4. ASSUME NEW j \in 0 .. m PROVE SubSeq(q0, 1, j) \in Seq(S) /\ Len(SubSeq(q0, 1, j)) = j
    OBVIOUS
  <2>. SubSeq(q0, 1, m - 1) \in Seq(S) /\ Len(SubSeq(q0, 1, m - 1)) = m - 1
    BY Zenon, <2>2, <2>4
  <2>. QED
    BY <2>2
<1>. USE Zenon
<1>. DEFINE m == Len(q)
            u == SubSeq(q, 1, m - 1)
            n == q[m]
<1>1. q # << >>
  BY LeadsRoot, Numbered
<1>2. /\ m \in 1 .. m /\ m - 1 \in 0 .. m /\ n \in Components
      /\ u \in Seq(Components) /\ Len(u) + 1 = m
  BY <1>1, <1>FrontFacts
<1>3. Led(d, q) /\ Single(d, Leads(d, u))
  BY <1>2, Leading, LeadsSingle
<1>4. Leads(d, q) = Go(d, Leads(d, u), n)
  BY <1>2, <1>3 DEF Led
<1>. HIDE DEF u, n, m
<1>5. PICK j \in Inums : Leads(d, u) = {j}
  <2>. Leads(d, u) # {}
    BY <1>4, GoFacts
  <2>. QED
    BY <1>3 DEF Single
<1>6. /\ Look(d, j, n) = {i}
      /\ Looked(d, j, n)
  BY <1>4, <1>5, GoFacts, <1>2, LookSingle
<1>. d.mft[i].parent.inum = j
  BY <1>6 DEF Looked
<1>. QED
  BY <1>2, <1>5 DEF m

\* A file is found in its directory by its name, also the root directory.
Named(d, i) ==
    /\ d.mft[i].name \in Components
    /\ Look(d, d.mft[i].parent.inum, d.mft[i].name) = {i}
    /\ i = Root => d.mft[i].parent.inum = Root

\* A name between two paths.
Between(q, n, p) == (q \o <<n>>) \o p = q \o (<<n>> \o p)

\* On the way up from file j, after k steps: the names found so far lead from
\* the ancestor to j, and the ancestor is at most m - k components deep.
Rising(d, j, m, k, x) ==
    /\ x.path \in Seq(Components)
    /\ IsNull(x.ni) => Leads(d, x.path) = {j}
    /\ ~ IsNull(x.ni) =>
          /\ \E q \in Seq(Components) : Len(q) + k <= m /\ Leads(d, q) = {x.ni.inum}
          /\ \A q \in Seq(Components) : Leads(d, q) = {x.ni.inum} => Leads(d, q \o x.path) = {j}

\* So it stays with each turn of the loop of utils_inode_get_name.
LEMMA UpRising ==
    ASSUME NEW s, Good(s), Tree(s.disk), NEW j, NEW m \in Nat, NEW k \in Nat \ {0}, NEW at,
           Risen(s, at), Rising(s.disk, j, m, k - 1, at)
    PROVE  Rising(s.disk, j, m, k, Up(at, k))
\* In a tree every file is found so.
<1>LookName. ASSUME NEW d \in Disks, Sound(d), Tree(d), NEW i \in Inums, d.mft[i].used
             PROVE  Named(d, i)
  <2>. USE Zenon, <1>LookName
  <2>1. CASE i = Root
    <3>. d.mft[i].name = Dot /\ d.mft[i].parent.inum = Root
      BY <2>1 DEF Tree
    <3>. Look(d, Root, Dot) = {Root}
      BY LookFacts
    <3>. QED
      BY <2>1 DEF Named, Components
  <2>2. CASE i # Root
    <3>. DEFINE p == d.mft[i].parent.inum
                n == d.mft[i].name
    <3>1. i \in Records
      BY <2>2 DEF Inums
    <3>2. n \in Names /\ d.mft[p].ents[Upcase[n]] = Ref(i, d.mft[i].seq)
      BY <3>1 DEF Tree, Listed
    <3>. HIDE DEF p, n, NoEntry
    <3>3. n # Dot
      BY <3>2, InodeAssumption
    <3>4. Ref(i, d.mft[i].seq) # NoEntry /\ Ref(i, d.mft[i].seq).inum = i
      BY <3>1, Numbered
    <3>5. d.mft[p].ents[Upcase[n]] # NoEntry
      BY <3>2, <3>4
    <3>6. Look(d, p, n) = {d.mft[p].ents[Upcase[n]].inum}
      BY <3>3, <3>5, LookFacts
    <3>. Look(d, p, n) = {i}
      BY <3>2, <3>4, <3>6
    <3>. QED
      BY <2>2, <3>2 DEF Named, Components, p, n
  <2>. QED
    BY <2>1, <2>2
\* It belongs to either.
<1>ConcatThree. ASSUME NEW S, NEW q \in Seq(S), NEW n \in S, NEW p \in Seq(S)
                PROVE  Between(q, n, p)
  <2>. USE <1>ConcatThree
  <2>. DEFINE a == (q \o <<n>>) \o p
              b == q \o (<<n>> \o p)
  <2>. /\ a \in Seq(S) /\ b \in Seq(S) /\ Len(a) = Len(b)
       /\ Len(a) = Len(q) + 1 + Len(p)
    OBVIOUS
  <2>. ASSUME NEW k0 \in 1 .. Len(a) PROVE a[k0] = b[k0]
    <3>1. CASE k0 <= Len(q)
      BY <3>1
    <3>2. CASE k0 = Len(q) + 1
      BY <3>2
    <3>3. CASE k0 > Len(q) + 1
      BY <3>3
    <3>. QED
      BY <3>1, <3>2, <3>3
  <2>. QED
    BY Zenon, SeqEqual DEF Between
<1>. USE Zenon
<1>. DEFINE d == s.disk
            r == Up(at, k)
            i == at.ni.inum
            ref == at.ni.rec.parent
            n == at.ni.rec.name
<1>1. Rises(s, at, r)
  BY UpGood
<1>2. d \in Disks /\ Sound(d)
  BY GoodFields
<1>. HIDE DEF r
<1>3. CASE IsNull(at.ni)
  <2>. /\ r = at
       /\ Rising(d, j, m, k, at)
    BY <1>1, <1>3 DEF Rises, Rising
  <2>. QED
    BY DEF r
<1>4. CASE ~ IsNull(at.ni)
  <2>1. at.path \in Seq(Components) /\ at.ni \in MemInodes
    BY DEF Risen, Climbers, Components
  <2>2. Agrees(d, at.ni)
    BY <1>4 DEF Risen
  <2>3. d.mft[i].used /\ d.mft[i].parent = ref /\ d.mft[i].name = n /\ i \in Inums
    BY <2>1, <2>2, InodeFields DEF Agrees, Alike
  <2>4. r.path = <<n>> \o at.path
    BY <1>1, <1>4 DEF Rises, Prepended
  <2>5. /\ n \in Components /\ Look(d, ref.inum, n) = {i}
        /\ i = Root => ref.inum = Root
    <3>. Named(d, i)
      BY <1>2, <2>3, <1>LookName
    <3>. QED
      BY <2>3 DEF Named
  <2>6. /\ \E q \in Seq(Components) : Len(q) + (k - 1) <= m /\ Leads(d, q) = {i}
        /\ \A q \in Seq(Components) : Leads(d, q) = {i} => Leads(d, q \o at.path) = {j}
    BY <1>4 DEF Rising
  <2>7. /\ ref.inum = Root => IsNull(r.ni)
        /\ ref.inum # Root =>
              /\ ~ IsNull(r.ni) => r.ni.inum = ref.inum
              /\ d.mft[ref.inum].used /\ ref.seq = d.mft[ref.inum].seq => ~ IsNull(r.ni)
    BY <1>1, <1>4 DEF Rises
  <2>. HIDE DEF d, i, ref, n
  <2>8. ASSUME NEW q \in Seq(Components), Leads(d, q) = {ref.inum}
        PROVE  Leads(d, q \o r.path) = {j}
    <3>1. q \o <<n>> \in Seq(Components) /\ Leads(d, q \o <<n>>) = Go(d, Leads(d, q), n)
      BY <1>2, <2>5, LeadsLast
    <3>2. Leads(d, q \o <<n>>) = {i}
      BY <2>5, <2>8, <3>1, GoFacts
    <3>. /\ Leads(d, (q \o <<n>>) \o at.path) = {j}
         /\ Between(q, n, at.path)
      BY <2>6, <3>1, <3>2, <2>1, <2>5, <1>ConcatThree
    <3>. QED
      BY <2>4 DEF Between
  <2>9. r.path \in Seq(Components)
    BY SMT, <2>1, <2>4, <2>5
  <2>10. CASE ref.inum = Root
    <3>1. Leads(d, << >>) = {Root} /\ << >> \in Seq(Components)
      BY <1>2, LeadsRoot
    <3>2. << >> \o r.path = r.path
      BY SMT, <2>9
    <3>. Leads(d, << >> \o r.path) = {j}
      BY <2>8, <2>10, <3>1
    <3>. QED
      BY <2>7, <2>9, <2>10, <3>2 DEF Rising, r, d
  <2>11. CASE ref.inum # Root
    <3>1. i \in Records
      BY <2>3, <2>5, <2>11 DEF Inums
    <3>2. d.mft[ref.inum].used /\ ref.seq = d.mft[ref.inum].seq
      BY <2>3, <3>1 DEF Tree, Listed, d
    <3>3. ~ IsNull(r.ni) /\ r.ni.inum = ref.inum
      BY <2>7, <2>11, <3>2
    <3>4. PICK q \in Seq(Components) : Len(q) + (k - 1) <= m /\ Leads(d, q) = {i}
      BY <2>6
    <3>5. PICK u \in Seq(Components) :
              Len(u) + 1 = Len(q) /\ Leads(d, u) = {d.mft[i].parent.inum}
      BY <1>2, <3>1, <3>4, LeadsParent DEF d
    <3>6. Len(u) + k <= m
      BY SMT, <3>4, <3>5
    <3>. Leads(d, u) = {r.ni.inum}
      BY <2>3, <3>3, <3>5
    <3>. QED
      BY <2>8, <2>9, <3>3, <3>6 DEF Rising, r, d
  <2>. QED
    BY <2>10, <2>11
<1>. QED
  BY <1>3, <1>4

\* utils_inode_get_name finds a path that leads to the inode, if there is one
\* that is not too long.
LEMMA NameLeads ==
    ASSUME NEW s, Good(s), Tree(s.disk), NEW ni \in MemInodes, Agrees(s.disk, ni),
           NEW q \in Seq(Components), Len(q) < MaxDepth, Leads(s.disk, q) = {ni.inum}
    PROVE  Leads(s.disk, utils_inode_get_name(s, ni).path) = {ni.inum}
<1>. USE Zenon
<1>. DEFINE d == s.disk
            j == ni.inum
            m == Len(q)
            N == MaxDepth
<1>1. PICK at : Climbed(s, ni, at) /\ utils_inode_get_name(s, ni) = at[MaxDepth]
  BY Climbing
<1>2. /\ at[0] = [s |-> s, ni |-> ni, path |-> << >>]
      /\ \A k \in 1 .. N : at[k] = Up(at[k - 1], k)
      /\ \A k \in 0 .. N : Risen(s, at[k])
  BY <1>1 DEF Climbed
<1>3. /\ N \in Nat /\ m \in Nat /\ m < N /\ 0 \in 0 .. N /\ N \in 0 .. N
      /\ \A k \in 1 .. N : k \in Nat \ {0} /\ k \in 0 .. N /\ k - 1 \in 0 .. N
  BY SMT, Bounds
<1>. DEFINE T == {k \in 0 .. N : Rising(d, j, m, k, at[k])}
<1>4. 0 \in T
  <2>1. /\ at[0].ni = ni /\ at[0].path = << >>
        /\ Len(q) + 0 <= m /\ << >> \in Seq(Components) /\ \A u \in Seq(Components) : u \o << >> = u
    BY SMT, <1>2
  <2>3. ~ IsNull(ni)
    BY DEF Agrees, IsNull
  <2>. Rising(d, j, m, 0, at[0])
    BY <2>1, <2>3 DEF Rising
  <2>. QED
    BY <1>3
<1>5. ASSUME NEW k \in 1 .. N, k - 1 \in T PROVE k \in T
  <2>. Risen(s, at[k - 1]) /\ Rising(d, j, m, k - 1, at[k - 1]) /\ at[k] = Up(at[k - 1], k)
    BY <1>2, <1>3, <1>5
  <2>. Rising(d, j, m, k, Up(at[k - 1], k))
    BY <1>3, UpRising
  <2>. QED
    BY <1>3
<1>. HIDE DEF T
<1>6. 0 .. N \subseteq T
  BY <1>3, <1>4, <1>5, UpTo
<1>7. Rising(d, j, m, N, at[N])
  BY <1>3, <1>6 DEF T
<1>. IsNull(at[N].ni)
  <2>1. ASSUME NEW u \in Seq(Components), Len(u) + N <= m PROVE FALSE
    BY SMT, <1>3, <2>1
  <2>. QED
    BY <1>7, <2>1 DEF Rising
<1>. QED
  BY <1>1, <1>7 DEF Rising

\* What was found, from the inode.
LEMMA FindsLeads ==
    ASSUME NEW d \in Disks, Sound(d), Tree(d), NEW path \in Paths, NEW at, Finds(d, path, at)
    PROVE  /\ IsNull(at.ni) => Leads(d, path) = {}
           /\ ~ IsNull(at.ni) => Leads(d, path) = {at.ni.inum}
<1>. USE Zenon
<1>. Single(d, Leads(d, path))
  BY PathSingle
<1>. QED
  BY DEF Finds, Single

-----------------------------------------------------------------------------
(* What the operations leave of it.                                        *)

\* The handles with one of them replaced.
LEMMA SettledHandle ==
    ASSUME NEW d, NEW ps, NEW hs \in [Handles -> HandleRecs], NEW h \in Handles, NEW x,
           Settled(d, ps, hs), Placed(d, x)
    PROVE  Settled(d, ps, [hs EXCEPT ![h] = x])
<1>. \A g \in Handles : [hs EXCEPT ![h] = x][g] = IF g = h THEN x ELSE hs[g]
  BY Zenon
<1>. QED
  BY Zenon DEF Settled

\* A closed handle is not looked at.
LEMMA SettledClosed ==
    ASSUME NEW d, NEW ps, NEW hs \in [Handles -> HandleRecs], NEW h \in Handles,
           Settled(d, ps, hs)
    PROVE  Settled(d, ps, [hs EXCEPT ![h] = Closed])
<1>. USE Zenon
<1>1. ~ Closed.open
  BY DEF Closed
<1>. Placed(d, Closed)
  BY <1>1 DEF Placed
<1>. QED
  BY SettledHandle

\* The position of a handle says nothing of its file.
LEMMA SettledPos ==
    ASSUME NEW d, NEW ps, NEW hs \in [Handles -> HandleRecs], NEW h \in Handles, NEW pos,
           Settled(d, ps, hs)
    PROVE  Settled(d, ps, [hs EXCEPT ![h].pos = pos])
<1>. USE Zenon
<1>. DEFINE f == hs[h]
            x == [f EXCEPT !.pos = pos]
<1>1. [hs EXCEPT ![h].pos = pos] = [hs EXCEPT ![h] = x]
  OBVIOUS
<1>2. f \in HandleRecs /\ Placed(d, f)
  BY DEF Settled
<1>. HIDE DEF f
<1>3. x.open = f.open /\ x.path = f.path /\ x.size = f.size /\ x.file = f.file
  BY <1>2 DEF HandleRecs
<1>. HIDE DEF x
<1>. Placed(d, x)
  BY <1>2, <1>3 DEF Placed
<1>. QED
  BY <1>1, SettledHandle

\* What is opened under a path is what the path leads to, if it leads anywhere.
Heading(d, path, ni) ==
    ~ IsNull(ni) => Agrees(d, ni) /\ Leads(d, path) \subseteq {ni.inum}

\* After it, every path and handle finds what it found before, and the path
\* that led nowhere leads to the new file.
MadeSettled(path, hs, made, closed) ==
    LET c == ntfs_inode_close(closed, made.ni, TRUE)
    IN  Settled(c.disk, c.paths, hs) /\ Heading(c.disk, path, made.ni)

\* So does ntfs_create with the closing of both inodes.
LEMMA MakingSettled ==
    ASSUME NEW s, Good(s), NEW dir \in MemInodes, Agrees(s.disk, dir), NEW i \in FreeRecords(s),
           NEW name \in Names, NEW isdir, NEW ro, NEW made, NEW closed,
           Making(s, dir, i, name, isdir, ro, made, closed),
           IsNull(made.ni) => s.disk.mft[i].seq < MaxSeq,
           NEW hs \in [Handles -> HandleRecs], Settled(s.disk, s.paths, hs),
           NEW path \in Paths, Leads(s.disk, path) = {}
    PROVE  MadeSettled(path, hs, made, closed)
\* What ntfs_create leaves.
<1>TakenApart. ASSUME NEW d \in Disks, NEW c \in Disks, Tree(d), NEW e, NEW p \in Inums, NEW i0 \in Records,
                      NEW k \in Keys, p # i0, ~ d.mft[i0].used, d.mft[p].used, d.mft[p].ents[k] = NoEntry,
                      Taken(d, e, p, i0, k), NEW r, Rewritten(c, e, i0, r),
                      r.used, r.seq = d.mft[i0].seq, r.ents = NoEntries, r.name \in Names,
                      Upcase[r.name] = k, r.parent = Ref(p, d.mft[p].seq)
               PROVE  Apart(c, d, p, i0, k) /\ c.mft[i0].seq = d.mft[i0].seq
  <2>. USE Zenon, <1>TakenApart
  <2>. DEFINE ref == Ref(i0, d.mft[i0].seq)
  <2>1. i0 \in Inums
    BY Numbered
  <2>2. c.mft[i0] = r /\ \A j \in Inums \ {i0} : c.mft[j] = e.mft[j]
    BY <2>1 DEF Rewritten
  <2>3. ref \in Refs
    <3>1. d.mft[i0] \in RecordType
      BY <2>1 DEF Disks
    <3>2. d.mft[i0].seq \in 1 .. MaxSeq
      BY <3>1, RecordFields
    <3>. d.mft[i0].seq \in 0 .. MaxSeq
      BY SMT, <3>2, Bounds
    <3>. QED
      BY <2>1 DEF Ref, Refs
  <2>4. Alike(e.mft[p], WithEntries(d.mft[p], [d.mft[p].ents EXCEPT ![k] = ref]))
    BY DEF Taken
  <2>. HIDE DEF ref, NoEntry
  <2>5. EntryChanged(d, p, k, ref, e.mft[p])
    BY <2>3, <2>4, EntryPutFacts
  <2>6. /\ Same(c.mft[p], d.mft[p])
        /\ \A l \in Keys : c.mft[p].ents[l] = IF l = k THEN ref ELSE d.mft[p].ents[l]
    BY <2>2, <2>5 DEF EntryChanged
  <2>7. ASSUME NEW j \in Inums \ {i0}
        PROVE  /\ Same(d.mft[j], c.mft[j])
               /\ \A l \in Keys : d.mft[j].ents[l] = IF j = p /\ l = k THEN NoEntry
                                                     ELSE c.mft[j].ents[l]
    <3>1. CASE j = p
      BY <2>6, <3>1 DEF Same
    <3>2. CASE j # p
      <4>. c.mft[j] = d.mft[j]
        BY <2>2, <3>2 DEF Taken
      <4>. QED
        BY <3>2 DEF Same
    <3>. QED
      BY <3>1, <3>2
  <2>8. Empty(d, i0) /\ Empty(c, i0)
    <3>1. Empty(d, i0)
      BY <2>1 DEF Tree
    <3>2. /\ \A l \in Keys : NoEntries[l] = NoEntry
          /\ c.mft[i0].ents = NoEntries
      BY NoEntryFacts, <2>2
    <3>. Empty(c, i0)
      BY <3>2 DEF Empty
    <3>. QED
      BY <3>1
  <2>9. c.mft[i0].parent.inum = p /\ c.mft[i0].parent.seq = d.mft[p].seq
    <3>. c.mft[i0].parent = Ref(p, d.mft[p].seq)
      BY <2>2
    <3>. Ref(p, d.mft[p].seq).inum = p /\ Ref(p, d.mft[p].seq).seq = d.mft[p].seq
      BY Numbered
    <3>. QED
      OBVIOUS
  <2>. Listed(c, i0)
    <3>. c.mft[p].used /\ c.mft[p].seq = d.mft[p].seq /\ c.mft[p].ents[k] = ref
      BY <2>6 DEF Same
    <3>. QED
      BY <2>2, <2>9 DEF Listed, ref
  <2>. QED
    BY <2>2, <2>7, <2>8, <2>9 DEF Apart
\* A file is added.
<1>WithEvolves. ASSUME NEW d \in Disks, NEW c \in Disks, NEW p, NEW i1, NEW k, Sound(c), Tree(d),
                       Apart(c, d, p, i1, k), c.mft[i1].seq = d.mft[i1].seq, load.size \in Nat
                PROVE  /\ Evolves(d, c, {}) /\ Tree(c)
                       /\ \A path0 \in Paths : Leads(d, path0) = {} => Leads(c, path0) \subseteq {i1}
  <2>. USE <1>WithEvolves
  \* The file is added.
  <2>TreeWith. ASSUME NEW d0 \in Disks, NEW c0 \in Disks, NEW p0, NEW i0, NEW k0, Tree(c0),
                      Apart(d0, c0, p0, i0, k0)
               PROVE  Tree(d0)
    <3>. USE Zenon, <2>TreeWith
    <3>1. /\ d0.mft[i0].used /\ ~ c0.mft[i0].used /\ Empty(d0, i0) /\ Empty(c0, i0)
          /\ d0.mft[i0].parent.inum = p0 /\ Upcase[d0.mft[i0].name] = k0 /\ Listed(d0, i0)
          /\ p0 \in Inums \ {i0} /\ i0 \in Records /\ k0 \in Keys
      BY DEF Apart
    <3>2. ASSUME NEW j \in Inums \ {i0}
          PROVE  /\ c0.mft[j].used = d0.mft[j].used /\ c0.mft[j].seq = d0.mft[j].seq
                 /\ c0.mft[j].name = d0.mft[j].name /\ c0.mft[j].parent = d0.mft[j].parent
      BY DEF Apart, Same
    <3>3. \A j \in Inums \ {i0}, l \in Keys :
              c0.mft[j].ents[l] = IF j = p0 /\ l = k0 THEN NoEntry ELSE d0.mft[j].ents[l]
      BY DEF Apart
    <3>. HIDE DEF NoEntry
    <3>4. d0.mft[p0].used /\ d0.mft[p0].ents[k0] = Ref(i0, d0.mft[i0].seq)
      BY <3>1 DEF Listed
    <3>5. d0.mft[Root].used /\ d0.mft[Root].name = Dot /\ d0.mft[Root].parent.inum = Root
      BY <3>1, <3>2, Numbered DEF Tree
    <3>6. ASSUME NEW j \in Records, d0.mft[j].used PROVE Listed(d0, j)
      <4>1. CASE j = i0
        BY <3>1, <4>1
      <4>2. CASE j # i0
        <5>. DEFINE q == c0.mft[j].parent.inum
                    l == Upcase[c0.mft[j].name]
        <5>1. j \in Inums \ {i0}
          BY <4>2, Numbered
        <5>2. Listed(c0, j)
          BY <3>2, <3>6, <5>1 DEF Tree
        <5>3. /\ c0.mft[j].name \in Names /\ c0.mft[q].used /\ c0.mft[j].parent.seq = c0.mft[q].seq
              /\ c0.mft[q].ents[l] = Ref(j, c0.mft[j].seq)
          BY <5>2 DEF Listed
        <5>4. q \in Inums /\ l \in Keys
          <6>. c0.mft[j] \in RecordType
            BY <5>1 DEF Disks
          <6>. QED
            BY <5>3, RecordFields, Numbered
        <5>. HIDE DEF q, l
        <5>5. q # i0
          BY <3>1, <5>3
        <5>6. Ref(j, c0.mft[j].seq) # NoEntry
          BY Numbered
        <5>7. ~ (q = p0 /\ l = k0)
          <6>. c0.mft[p0].ents[k0] = NoEntry
            BY <3>1, <3>3
          <6>. QED
            BY <5>3, <5>6
        <5>. /\ d0.mft[q].used /\ d0.mft[q].seq = c0.mft[q].seq
             /\ d0.mft[q].ents[l] = Ref(j, c0.mft[j].seq)
             /\ c0.mft[j].seq = d0.mft[j].seq /\ c0.mft[j].name = d0.mft[j].name
             /\ c0.mft[j].parent = d0.mft[j].parent
          BY <3>2, <3>3, <5>3, <5>4, <5>5, <5>7, <5>1
        <5>. QED
          BY <5>3 DEF Listed, q, l
      <4>. QED
        BY <4>1, <4>2
    <3>7. ASSUME NEW j \in Inums, NEW l \in Keys PROVE Backed(d0, d0.mft[j].ents[l])
      <4>1. CASE j = i0
        BY <3>1, <4>1 DEF Backed, Empty
      <4>2. CASE j = p0 /\ l = k0
        <5>. Ref(i0, d0.mft[i0].seq).inum = i0 /\ Ref(i0, d0.mft[i0].seq).seq = d0.mft[i0].seq
          BY Numbered
        <5>. QED
          BY <3>1, <3>4, <4>2 DEF Backed
      <4>3. CASE j # i0 /\ ~ (j = p0 /\ l = k0)
        <5>. DEFINE ref == d0.mft[j].ents[l]
        <5>1. c0.mft[j].ents[l] = ref /\ Backed(c0, c0.mft[j].ents[l])
          BY <3>3, <4>3 DEF Tree
        <5>2. ref.inum \in Inums
          <6>. d0.mft[j] \in RecordType
            BY DEF Disks
          <6>. QED
            BY RecordFields
        <5>. HIDE DEF ref
        <5>3. CASE ref = NoEntry
          BY <5>3 DEF Backed, ref
        <5>4. CASE ref # NoEntry
          <6>. c0.mft[ref.inum].used /\ c0.mft[ref.inum].seq = ref.seq
            BY <5>1, <5>4 DEF Backed
          <6>. ref.inum \in Inums \ {i0}
            BY <3>1, <5>2
          <6>. QED
            BY <3>2 DEF Backed, ref
        <5>. QED
          BY <5>3, <5>4
      <4>. QED
        BY <4>1, <4>2, <4>3
    <3>8. ASSUME NEW j \in Inums, ~ d0.mft[j].used PROVE Empty(d0, j)
      <4>. j \in Inums \ {i0} /\ j # p0
        BY <3>1, <3>4, <3>8
      <4>. Empty(c0, j)
        BY <3>2, <3>8 DEF Tree
      <4>. QED
        BY <3>3 DEF Empty
    <3>. QED
      BY <3>5, <3>6, <3>7, <3>8 DEF Tree
  <2>. USE Zenon
  <2>1. Tree(c)
    BY <2>TreeWith
  <2>2. ASSUME NEW path0 \in Paths PROVE Loses(c, d, {i1}, path0) /\ Single(c, Leads(c, path0))
    <3>. /\ path0 \in Seq(Components) /\ Single(c, Leads(c, path0))
         /\ Pruned(c, d, {i1})
      BY <2>1, PathSingle, PrunedFile
    <3>. Loses(c, d, {i1}, path0)
      BY LeadsPruned
    <3>. QED
      OBVIOUS
  <2>3. ASSUME NEW j \in Inums \ {i1}
        PROVE  /\ d.mft[j].used = c.mft[j].used /\ d.mft[j].seq = c.mft[j].seq
               /\ d.mft[j].size = c.mft[j].size
    BY DEF Apart, Same
  <2>4. ASSUME NEW j \in Inums
        PROVE  d.mft[j].seq <= d.mft[j].seq /\ d.mft[j].size <= d.mft[j].size
    <3>1. d.mft[j] \in RecordType
      BY DEF Disks
    <3>. d.mft[j].seq \in 1 .. MaxSeq /\ d.mft[j].size \in 0 .. load.size
      BY <3>1, RecordFields
    <3>. QED
      BY SMT, Bounds
  <2>5. ~ d.mft[i1].used
    BY DEF Apart
  <2>6. ASSUME NEW j, NEW path0 \in Paths, Leads(d, path0) = {j}
        PROVE  Leads(c, path0) = {j}
    <3>. DEFINE A == Leads(c, path0)
                B == Leads(d, path0)
    <3>1. B = A \ {i1} /\ B = {j} /\ Single(c, A)
      BY <2>2, <2>6 DEF Loses
    <3>. HIDE DEF A, B
    <3>2. A = {} \/ \E x : A = {x}
      BY <3>1 DEF Single
    <3>. A = {j}
      BY <3>1, <3>2
    <3>. QED
      BY DEF A
  <2>7. ASSUME NEW j \in Inums
        PROVE  /\ d.mft[j].seq <= c.mft[j].seq
               /\ d.mft[j].used =>
                     /\ c.mft[j].used /\ c.mft[j].seq = d.mft[j].seq /\ d.mft[j].size <= c.mft[j].size
                     /\ \A path0 \in Paths : Leads(d, path0) = {j} => Leads(c, path0) = {j}
    <3>1. CASE j = i1
      BY <2>4, <2>5, <3>1
    <3>2. CASE j # i1
      BY <2>3, <2>4, <2>6, <3>2
    <3>. QED
      BY <3>1, <3>2
  <2>8. Evolves(d, c, {})
    BY <2>7 DEF Evolves
  <2>9. ASSUME NEW path0 \in Paths, Leads(d, path0) = {} PROVE Leads(c, path0) \subseteq {i1}
    BY <2>2, <2>9 DEF Loses
  <2>. QED
    BY <2>1, <2>8, <2>9
<1>. USE Zenon
<1>. DEFINE done == ntfs_inode_close(closed, made.ni, TRUE)
            d == s.disk
            c == done.disk
            p == dir.inum
            k == Upcase[name]
<1>1. /\ d \in Disks /\ Sound(d) /\ load.size \in Nat /\ d.mft \in [Inums -> RecordType]
      /\ s.paths \in Seq(PathEntries)
  BY GoodFields
<1>2. Tree(d) /\ Directed(d, s.paths)
  BY DEF Settled
<1>3. /\ Good(closed) /\ Good(done) /\ done.paths = s.paths /\ made.ni \in MemInodes
      /\ IF ~ dir.rec.dir \/ dir.rec.ents[k] # NoEntry
         THEN /\ made.ni = NullInode
              /\ \A j \in Inums : c.mft[j] = IF j = i THEN Unused(d.mft[i].seq + 1) ELSE d.mft[j]
         ELSE /\ made.ni.inum = i /\ made.ni.rec.used /\ made.ni.rec.seq = d.mft[i].seq
              /\ made.ni.rec.ents = NoEntries /\ made.ni.rec.name = name
              /\ made.ni.rec.parent = Ref(p, dir.rec.seq)
              /\ Taken(d, closed.disk, p, i, k)
              /\ c = WithRecord(closed.disk, i, made.ni.rec)
  BY DEF Making
<1>. HIDE DEF done
<1>4. c \in Disks /\ Sound(c) /\ closed.disk \in Disks
  BY <1>3, GoodFields
<1>5. i \in Records /\ i \notin d.bitmap
  BY DEF FreeRecords
<1>6. i \in Inums /\ ~ d.mft[i].used
  <2>. /\ i \in Inums
       /\ Covered(d)
    BY <1>5, Numbered, <1>1 DEF Sound
  <2>. QED
    BY <1>5 DEF Covered
<1>7. \A e \in Range(s.paths) : e.inum \notin {}
  OBVIOUS
<1>8. ASSUME Evolves(d, c, {}), Tree(c)
      PROVE  Settled(c, done.paths, hs)
  <2>. DEFINE ps == s.paths
  <2>1. /\ Directed(d, ps) /\ ps \in Seq(PathEntries) /\ Settled(d, ps, hs)
        /\ \A e \in Range(ps) : e.inum \notin {}
    BY <1>1, <1>2, <1>7
  <2>. HIDE DEF ps, c, d
  <2>. Settled(c, ps, hs)
    BY <1>1, <1>4, <1>8, <2>1, SettledEvolves
  <2>. QED
    BY <1>3 DEF ps
<1>9. CASE ~ dir.rec.dir \/ dir.rec.ents[k] # NoEntry
  <2>. DEFINE q == d.mft[i].seq
  <2>1. made.ni = NullInode /\ \A j \in Inums : c.mft[j] = IF j = i THEN Unused(q + 1) ELSE d.mft[j]
    BY <1>3, <1>9
  <2>2. IsNull(made.ni)
    BY <1>1, <2>1, NullFacts
  <2>3. q \in 1 .. MaxSeq /\ q < MaxSeq
    BY <1>1, <1>6, <2>2, RecordFields
  <2>. HIDE DEF q
  <2>4. q + 1 \in 1 .. MaxSeq /\ q <= q + 1
    BY SMT, <2>3, Bounds
  <2>5. Unused(q + 1).seq = q + 1 /\ Unused(q + 1).ents = NoEntries /\ ~ Unused(q + 1).used
    BY <1>1, <2>4, UnusedFacts
  <2>. HIDE DEF c
  <2>6. Steady(d, c)
    <3>1. /\ \A l \in Keys : d.mft[i].ents[l] = NoEntry
          /\ \A l \in Keys : NoEntries[l] = NoEntry
          /\ c.mft[i] = Unused(q + 1) /\ \A j \in Inums : j # i => c.mft[j] = d.mft[j]
      BY <1>2, <1>6, NoEntryFacts, <2>1 DEF Tree, Empty
    <3>4. c.mft[i].used = d.mft[i].used
      <4>. /\ d.mft[i].used \in BOOLEAN
           /\ Unused(q + 1).used = FALSE
        BY <1>1, <1>6, RecordFields DEF Unused
      <4>. QED
        BY <1>6, <3>1
    <3>. \A l \in Keys : c.mft[i].ents[l] = d.mft[i].ents[l]
      BY <2>5, <3>1
    <3>. QED
      BY <1>6, <3>1, <3>4 DEF Steady
  <2>7. ASSUME NEW j \in Inums
        PROVE  d.mft[j].seq <= c.mft[j].seq /\ (d.mft[j].used => d.mft[j].size <= c.mft[j].size)
    <3>1. CASE j = i
      BY <1>6, <2>1, <2>4, <2>5, <3>1 DEF q
    <3>2. CASE j # i
      <4>. /\ c.mft[j] = d.mft[j]
           /\ d.mft[j].seq \in 1 .. MaxSeq /\ d.mft[j].size \in 0 .. load.size
        BY <2>1, <3>2, <1>1, RecordFields
      <4>. QED
        BY SMT
    <3>. QED
      BY <3>1, <3>2
  <2>. Evolves(d, c, {}) /\ Tree(c)
    BY <1>1, <1>2, <1>4, <2>6, <2>7, SteadyEvolves
  <2>. QED
    BY <1>8, <2>2 DEF MadeSettled, Heading, done, c
<1>10. CASE dir.rec.dir /\ dir.rec.ents[k] = NoEntry
  <2>. DEFINE e == closed.disk
              x == made.ni.rec
  <2>1. /\ made.ni.inum = i /\ x.used /\ x.seq = d.mft[i].seq /\ x.ents = NoEntries
        /\ x.name = name /\ x.parent = Ref(p, dir.rec.seq) /\ Taken(d, e, p, i, k)
        /\ c = WithRecord(e, i, x)
        /\ dir.rec.seq = d.mft[p].seq /\ d.mft[p].used /\ d.mft[p].ents[k] = NoEntry
        /\ p \in Inums /\ k \in Keys /\ x \in RecordType
    BY <1>3, <1>10, InodeFields, Numbered DEF Agrees, Alike
  <2>4. /\ p # i
        /\ Rewritten(c, e, i, x)
    BY <1>6, <2>1, <1>4, Rewriting
  <2>. HIDE DEF e, x, c, d, p, k
  <2>6. Apart(c, d, p, i, k) /\ c.mft[i].seq = d.mft[i].seq
    <3>. /\ x.name \in Names /\ Upcase[x.name] = k /\ x.parent = Ref(p, d.mft[p].seq)
         /\ d \in Disks /\ c \in Disks /\ Tree(d) /\ i \in Records /\ ~ d.mft[i].used
         /\ Taken(d, e, p, i, k) /\ x.used /\ x.seq = d.mft[i].seq /\ x.ents = NoEntries
         /\ d.mft[p].used /\ d.mft[p].ents[k] = NoEntry /\ p \in Inums /\ k \in Keys
      BY <2>1, <1>1, <1>2, <1>4, <1>5, <1>6 DEF k
    <3>. QED
      BY <2>4, <1>TakenApart
  <2>7. /\ Evolves(d, c, {}) /\ Tree(c)
        /\ \A z \in Paths : Leads(d, z) = {} => Leads(c, z) \subseteq {i}
    BY <1>1, <1>2, <1>4, <2>6, <1>WithEvolves
  <2>8. Leads(c, path) \subseteq {i}
    BY <2>7 DEF d
  <2>9. c.mft[i] = x
    BY <1>6, <2>4 DEF Rewritten
  <2>. Agrees(c, made.ni)
    BY <2>1, <2>9 DEF Agrees, Alike, x
  <2>. QED
    BY <1>8, <2>1, <2>7, <2>8 DEF MadeSettled, Heading, done, c
<1>. QED
  BY <1>9, <1>10

\* Every path and handle still finds its file, which has not become shorter.
LEMMA WroteSettled ==
    ASSUME NEW s, Good(s), NEW at, Good(at.s), at.ni \in MemInodes, Agrees(s.disk, at.ni),
           NEW size \in Nat, at.ni.rec.size <= size, NEW t, Wrote(s, at, size, t),
           NEW hs \in [Handles -> HandleRecs], Settled(s.disk, at.s.paths, hs)
    PROVE  Settled(t.disk, t.paths, hs)
<1>. USE Zenon
<1>. DEFINE d == s.disk
            c == t.disk
            ps == at.s.paths
            i == at.ni.inum
<1>1. /\ d \in Disks /\ Sound(d) /\ load.size \in Nat /\ d.mft \in [Inums -> RecordType]
      /\ ps \in Seq(PathEntries)
      /\ c \in Disks /\ t.paths = ps /\ c.mft[i].size = size
  BY GoodFields DEF Wrote
<1>3. Tree(d) /\ Directed(d, ps) /\ Settled(d, ps, hs)
  BY DEF Settled
<1>4. Steady(d, c)
  BY DEF Wrote, Steady
<1>5. ASSUME NEW j \in Inums
      PROVE  d.mft[j].seq <= c.mft[j].seq /\ (d.mft[j].used => d.mft[j].size <= c.mft[j].size)
  <2>1. c.mft[j].seq = d.mft[j].seq /\ (j # i => c.mft[j].size = d.mft[j].size)
    BY DEF Wrote
  <2>2. d.mft[j].seq \in 1 .. MaxSeq /\ d.mft[j].size \in 0 .. load.size
    BY <1>1, RecordFields
  <2>3. j = i => d.mft[j].size <= c.mft[j].size
    BY <1>1 DEF Agrees, Alike
  <2>. QED
    BY SMT, <2>1, <2>2, <2>3
<1>. HIDE DEF d, c, ps
<1>. DEFINE X == {}
<1>6. /\ Evolves(d, c, X) /\ Tree(c)
      /\ \A e \in Range(ps) : e.inum \notin X
  BY <1>1, <1>3, <1>4, <1>5, SteadyEvolves
<1>. HIDE DEF X
<1>8. /\ d \in Disks /\ c \in Disks /\ Sound(d) /\ load.size \in Nat /\ ps \in Seq(PathEntries)
      /\ Directed(d, ps) /\ Settled(d, ps, hs)
  BY <1>1, <1>3
<1>. Settled(c, ps, hs)
  BY <1>6, <1>8, SettledEvolves
<1>. QED
  BY <1>1 DEF c

\* So does the handle that was written through, with the new size.
LEMMA WrittenPlaced ==
    ASSUME NEW s, Good(s), NEW at, NEW size \in Nat, NEW t, Wrote(s, at, size, t),
           NEW f \in HandleRecs, Placed(s.disk, f), Placed(t.disk, f), at.ni.inum \in Inums,
           Leads(s.disk, f.path) = {at.ni.inum}, NEW pos
    PROVE  Placed(t.disk, [f EXCEPT !.pos = pos, !.size = size])
<1>. USE Zenon
<1>. DEFINE x == [f EXCEPT !.pos = pos, !.size = size]
            d == s.disk
            c == t.disk
            j == f.file.inum
<1>1. x.open = f.open /\ x.path = f.path /\ x.size = size /\ x.file = f.file /\ j \in Inums
  BY DEF HandleRecs, Refs
<1>. HIDE DEF x
<1>2. c.mft[at.ni.inum].size = size /\ c.mft[j].seq = d.mft[j].seq
  BY <1>1 DEF Wrote
<1>3. d.mft[j].seq \in 1 .. MaxSeq
  BY <1>1, GoodFields, RecordFields
<1>4. CASE ~ f.open \/ f.file.seq < c.mft[j].seq
  BY <1>1, <1>4 DEF Placed, x
<1>5. CASE f.open /\ ~ (f.file.seq < c.mft[j].seq)
  <2>1. f.file.seq = c.mft[j].seq /\ c.mft[j].used /\ Leads(c, f.path) = {j}
    BY <1>5 DEF Placed
  <2>2. Leads(d, f.path) = {j}
    BY <1>2, <1>5 DEF Placed
  <2>3. j = at.ni.inum
    BY <2>2
  <2>. x.size <= c.mft[j].size
    BY SMT, <1>1, <1>2, <2>3
  <2>. QED
    BY <1>1, <2>1 DEF Placed, x
<1>. QED
  BY <1>4, <1>5

\* Every path and handle still finds its file, unless that is the file deleted.
LEMMA DeletingSettled ==
    ASSUME NEW s, Good(s), NEW path, NEW at, at.ni \in MemInodes, Agrees(s.disk, at.ni),
           s.disk.mft[at.ni.inum].seq < MaxSeq, NEW dir, NEW t, Deleting(s, path, at, dir, t),
           NEW hs \in [Handles -> HandleRecs], Settled(s.disk, at.s.paths, hs)
    PROVE  Settled(t.disk, t.paths, hs)
\* What ntfs_delete leaves.
<1>RemovedApart. ASSUME NEW d \in Disks, NEW c \in Disks, Sound(d), Tree(d), NEW p, NEW i \in Records, NEW k,
                        d.mft[i].used, Empty(d, i), p = d.mft[i].parent.inum, k = Upcase[d.mft[i].name],
                        d.mft[i].seq < MaxSeq, Removed(d, c, p, i, k), load.size \in Nat
                 PROVE  Apart(d, c, p, i, k) /\ c.mft[i].seq = d.mft[i].seq + 1
  <2>. USE Zenon, <1>RemovedApart
  <2>. DEFINE q == d.mft[i].seq + 1
  <2>1. Listed(d, i)
    BY DEF Tree
  <2>2. k \in Keys /\ i \in Inums
    BY <2>1, Numbered DEF Listed
  <2>3. d.mft[i] \in RecordType
    BY <2>2 DEF Disks
  <2>4. p \in Inums \ {i}
    <3>. p # i
      BY DEF Sound, Above
    <3>. QED
      BY <2>3, RecordFields
  <2>5. q \in 1 .. MaxSeq
    <3>. d.mft[i].seq \in 1 .. MaxSeq
      BY <2>3, RecordFields
    <3>. QED
      BY SMT, Bounds
  <2>6. Alike(c.mft[i], Unused(q))
    BY DEF Removed
  <2>. HIDE DEF q
  <2>7. ~ Unused(q).used /\ Unused(q).seq = q /\ Unused(q).ents = NoEntries
    BY <2>5, UnusedFacts
  <2>8. ~ c.mft[i].used /\ c.mft[i].seq = q /\ c.mft[i].ents = NoEntries
    BY <2>6, <2>7 DEF Alike
  <2>. HIDE DEF NoEntry
  <2>9. Empty(c, i)
    BY <2>8, NoEntryFacts DEF Empty
  <2>10. EntryChanged(d, p, k, NoEntry, c.mft[p])
    <3>. /\ NoEntry \in Refs /\ p \in Inums
         /\ Alike(c.mft[p], WithEntries(d.mft[p], [d.mft[p].ents EXCEPT ![k] = NoEntry]))
      BY <2>4, NoEntryFacts DEF Removed
    <3>. QED
      BY <2>2, EntryPutFacts
  <2>. ASSUME NEW j \in Inums \ {i}
       PROVE  /\ Same(c.mft[j], d.mft[j])
              /\ \A l \in Keys : c.mft[j].ents[l] = IF j = p /\ l = k THEN NoEntry
                                                    ELSE d.mft[j].ents[l]
    <3>1. CASE j = p
      BY <2>10, <3>1 DEF EntryChanged
    <3>2. CASE j # p
      <4>. Alike(c.mft[j], d.mft[j])
        BY <3>2 DEF Removed
      <4>. QED
        BY <3>2 DEF Alike, Same
    <3>. QED
      BY <3>1, <3>2
  <2>. QED
    BY <2>1, <2>2, <2>4, <2>8, <2>9 DEF Apart, q
\* A file is taken away.
<1>WithoutEvolves. ASSUME NEW d \in Disks, NEW c \in Disks, NEW p, NEW i, NEW k, Sound(d), Tree(d),
                          Apart(d, c, p, i, k), c.mft[i].seq = d.mft[i].seq + 1, load.size \in Nat
                   PROVE  Evolves(d, c, {i}) /\ Tree(c)
  <2>. USE <1>WithoutEvolves
  \* The file is taken away.
  <2>TreeWithout. Tree(c)
    \* References to two files.
    <3>RefsDiffer. \A i0, j, q, r : i0 # j => Ref(i0, q) # Ref(j, r)
        BY Zenon DEF Ref
    <3>. USE Zenon
    <3>1. /\ d.mft[i].used /\ ~ c.mft[i].used /\ Empty(d, i) /\ Empty(c, i)
          /\ d.mft[i].parent.inum = p /\ Upcase[d.mft[i].name] = k /\ Listed(d, i)
          /\ p \in Inums \ {i} /\ i \in Records /\ k \in Keys
      BY DEF Apart
    <3>2. ASSUME NEW j \in Inums \ {i}
          PROVE  /\ c.mft[j].used = d.mft[j].used /\ c.mft[j].seq = d.mft[j].seq
                 /\ c.mft[j].name = d.mft[j].name /\ c.mft[j].parent = d.mft[j].parent
      BY DEF Apart, Same
    <3>3. \A j \in Inums \ {i}, l \in Keys :
              c.mft[j].ents[l] = IF j = p /\ l = k THEN NoEntry ELSE d.mft[j].ents[l]
      BY DEF Apart
    <3>. HIDE DEF NoEntry
    <3>4. c.mft[Root].used /\ c.mft[Root].name = Dot /\ c.mft[Root].parent.inum = Root
      BY <3>1, <3>2, Numbered DEF Tree
    <3>5. ASSUME NEW j \in Records, c.mft[j].used PROVE Listed(c, j)
      <4>. DEFINE q == d.mft[j].parent.inum
                  l == Upcase[d.mft[j].name]
      <4>1. j \in Inums \ {i}
        BY <3>1, <3>5, Numbered
      <4>2. Listed(d, j)
        BY <3>2, <3>5, <4>1 DEF Tree
      <4>3. /\ d.mft[j].name \in Names /\ d.mft[q].used /\ d.mft[j].parent.seq = d.mft[q].seq
            /\ d.mft[q].ents[l] = Ref(j, d.mft[j].seq)
        BY <4>2 DEF Listed
      <4>4. d.mft[p].ents[k] = Ref(i, d.mft[i].seq)
        BY <3>1 DEF Listed
      <4>5. q \in Inums /\ l \in Keys
        <5>. d.mft[j] \in RecordType
          BY <4>1 DEF Disks
        <5>. QED
          BY <4>3, RecordFields, Numbered
      <4>. HIDE DEF q, l
      <4>6. q # i
        <5>. Ref(j, d.mft[j].seq) # NoEntry
          BY Numbered
        <5>. QED
          BY <3>1, <4>3, <4>5 DEF Empty
      <4>7. ~ (q = p /\ l = k)
        <5>. Ref(j, d.mft[j].seq) # Ref(i, d.mft[i].seq)
          <6>. j # i
            BY <4>1
          <6>. QED
            BY <3>RefsDiffer
        <5>. QED
          BY <4>3, <4>4
      <4>8. /\ c.mft[q].used /\ c.mft[q].seq = d.mft[q].seq
            /\ c.mft[q].ents[l] = Ref(j, d.mft[j].seq)
        <5>1. q \in Inums \ {i} /\ l \in Keys
          BY <4>5, <4>6
        <5>. /\ c.mft[q].used /\ c.mft[q].seq = d.mft[q].seq
             /\ c.mft[q].ents[l] = d.mft[q].ents[l]
          BY <3>2, <4>3, <5>1, <3>3, <4>7
        <5>. QED
          BY <4>3
      <4>. /\ c.mft[j].seq = d.mft[j].seq /\ c.mft[j].name = d.mft[j].name
           /\ c.mft[j].parent = d.mft[j].parent
        BY <3>2, <4>1
      <4>. QED
        BY <4>3, <4>8 DEF Listed, q, l
    <3>6. ASSUME NEW j \in Inums, NEW l \in Keys PROVE Backed(c, c.mft[j].ents[l])
      <4>1. CASE j = i \/ (j = p /\ l = k)
        <5>. c.mft[j].ents[l] = NoEntry
          <6>1. CASE j = i
            BY <3>1, <6>1 DEF Empty
          <6>2. CASE j # i /\ j = p /\ l = k
            BY <3>3, <6>2
          <6>. QED
            BY <4>1, <6>1, <6>2
        <5>. QED
          BY DEF Backed
      <4>2. CASE j # i /\ ~ (j = p /\ l = k)
        <5>. DEFINE ref == d.mft[j].ents[l]
        <5>1. c.mft[j].ents[l] = ref
          BY <3>3, <4>2
        <5>2. CASE ref = NoEntry
          BY <5>1, <5>2 DEF Backed
        <5>3. CASE ref # NoEntry
          <6>. OfEntry(d, j, l, ref)
            BY <5>3, TreeEntry
          <6>. HIDE DEF ref
          <6>. ref.inum \in Inums \ {i}
            BY <3>1, <4>2, Numbered DEF OfEntry
          <6>. c.mft[ref.inum].used /\ ref.seq = c.mft[ref.inum].seq
            BY <3>2 DEF OfEntry
          <6>. QED
            BY <5>1 DEF Backed
        <5>. QED
          BY <5>2, <5>3
      <4>. QED
        BY <4>1, <4>2
    <3>7. ASSUME NEW j \in Inums, ~ c.mft[j].used PROVE Empty(c, j)
      <4>1. CASE j = i
        BY <3>1, <4>1
      <4>2. CASE j # i
        <5>. Empty(d, j)
          BY <3>2, <3>7, <4>2 DEF Tree
        <5>. QED
          BY <3>3, <4>2 DEF Empty
      <4>. QED
        BY <4>1, <4>2
    <3>. QED
      BY <3>4, <3>5, <3>6, <3>7 DEF Tree
  <2>. USE Zenon
  <2>1. ASSUME NEW path0 \in Paths PROVE Loses(d, c, {i}, path0)
    <3>. /\ path0 \in Seq(Components)
         /\ Pruned(d, c, {i})
      BY PathFacts, PrunedFile DEF Components
    <3>. QED
      BY LeadsPruned
  <2>2. ASSUME NEW j \in Inums \ {i}
        PROVE  /\ c.mft[j].used = d.mft[j].used /\ c.mft[j].seq = d.mft[j].seq
               /\ c.mft[j].size = d.mft[j].size
    BY DEF Apart, Same
  <2>3. ASSUME NEW j \in Inums
        PROVE  /\ d.mft[j].seq \in Nat /\ d.mft[j].size \in Nat
               /\ d.mft[j].seq <= d.mft[j].seq /\ d.mft[j].size <= d.mft[j].size
               /\ d.mft[j].seq < d.mft[j].seq + 1 /\ d.mft[j].seq <= d.mft[j].seq + 1
    <3>1. d.mft[j] \in RecordType
      BY DEF Disks
    <3>. d.mft[j].seq \in 1 .. MaxSeq /\ d.mft[j].size \in 0 .. load.size
      BY <3>1, RecordFields
    <3>. QED
      BY SMT, Bounds
  <2>4. i \in Inums
    BY Numbered DEF Apart
  <2>5. ASSUME NEW j \in Inums \ {i}, NEW path0 \in Paths, Leads(d, path0) = {j}
        PROVE  Leads(c, path0) = {j}
    BY <2>1, <2>5 DEF Loses
  <2>6. ASSUME NEW j \in Inums
        PROVE  /\ d.mft[j].seq <= c.mft[j].seq
               /\ j \in {i} => d.mft[j].seq < c.mft[j].seq
               /\ d.mft[j].used /\ j \notin {i} =>
                     /\ c.mft[j].used /\ c.mft[j].seq = d.mft[j].seq /\ d.mft[j].size <= c.mft[j].size
                     /\ \A path0 \in Paths : Leads(d, path0) = {j} => Leads(c, path0) = {j}
    <3>1. CASE j = i
      BY <2>3, <3>1
    <3>2. CASE j # i
      BY <2>2, <2>3, <2>5, <3>2
    <3>. QED
      BY <3>1, <3>2
  <2>. Evolves(d, c, {i})
    BY <2>6 DEF Evolves
  <2>. QED
    BY <2>TreeWithout
<1>. USE Zenon
<1>. DEFINE d == s.disk
            c == t.disk
            ps == at.s.paths
            qs == t.paths
            i == at.ni.inum
            p == dir.ni.inum
            k == Upcase[NameOf(path)]
<1>1. /\ d \in Disks /\ Sound(d) /\ load.size \in Nat /\ c \in Disks /\ qs \in Seq(PathEntries)
      /\ Tree(d) /\ Directed(d, ps) /\ Settled(d, ps, hs)
  BY GoodFields DEF Deleting, Settled
<1>3. Directed(d, qs)
  BY <1>1 DEF Deleting, Directed
<1>4. CASE Deletable(dir.ni, at.ni, NameOf(path))
  <2>1. /\ i \in Records /\ p = at.ni.rec.parent.inum
        /\ \A e \in Range(qs) : e.inum # i
        /\ Removed(d, c, p, i, k)
    BY <1>4 DEF Deleting
  <2>2. Upcase[at.ni.rec.name] = k /\ at.ni.rec.ents = NoEntries
    BY <1>4 DEF Deletable
  <2>3. /\ d.mft[i].used /\ d.mft[i].parent = at.ni.rec.parent
        /\ d.mft[i].name = at.ni.rec.name /\ d.mft[i].ents = NoEntries
    BY <2>2 DEF Agrees, Alike
  <2>4. /\ Empty(d, i)
        /\ p = d.mft[i].parent.inum /\ k = Upcase[d.mft[i].name] /\ d.mft[i].seq < MaxSeq
    BY <2>3, NoEntryFacts, <2>1, <2>2 DEF Empty
  <2>. HIDE DEF d, c, i, p, k, ps, qs
  <2>6. Apart(d, c, p, i, k) /\ c.mft[i].seq = d.mft[i].seq + 1
    BY <1>1, <2>1, <2>3, <2>4, <1>RemovedApart
  <2>7. /\ Evolves(d, c, {i}) /\ Tree(c)
        /\ \A e \in Range(qs) : e.inum \notin {i}
    BY <1>1, <2>6, <1>WithoutEvolves, <2>1
  <2>. Settled(c, qs, hs)
    BY <1>1, <1>3, <2>7, SettledEvolves
  <2>. QED
    BY DEF c, qs
<1>5. CASE ~ Deletable(dir.ni, at.ni, NameOf(path))
  <2>. t.disk = s.disk
    BY <1>5 DEF Deleting
  <2>. QED
    BY <1>1, <1>3 DEF Settled
<1>. QED
  BY <1>4, <1>5
=============================================================================
