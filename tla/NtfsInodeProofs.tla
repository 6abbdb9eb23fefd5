-------------------------- MODULE NtfsInodeProofs ---------------------------
(***************************************************************************)
(* Proofs about NtfsInode and the lookups of NtfsFile: what the library    *)
(* calls keep of a session.                                                *)
(***************************************************************************)
EXTENDS NtfsFile, Induction

-----------------------------------------------------------------------------
\* The bounds of the model.
LEMMA Bounds ==
    /\ MaxSeq \in Nat \ {0} /\ MaxDepth \in Nat \ {0}
    /\ PathCacheSize \in Nat \ {0} /\ InodeCacheSize \in Nat \ {0}
<1>. USE Zenon
<1>. /\ MaxSeq \in Nat \ {0}
     /\ MaxDepth \in Nat \ {0}
     /\ PathCacheSize \in Nat \ {0} /\ InodeCacheSize \in Nat \ {0}
  BY FileAssumption, InodeAssumption
<1>. QED
  OBVIOUS

-----------------------------------------------------------------------------
(* The caches as lists of at most size entries with different keys.        *)

Keyed(l, S, key, size) ==
    /\ l \in Seq(S) /\ Len(l) <= size
    /\ \A a, b \in 1 .. Len(l) : key[l[a]] = key[l[b]] => a = b

\* The elements of a sequence.
LEMMA RangeOf ==
    ASSUME NEW S, NEW l \in Seq(S)
    PROVE  /\ \A x : x \in Range(l) <=> Contains(l, x)
           /\ Range(l) \subseteq S
           /\ \A a \in 1 .. Len(l) : l[a] \in Range(l)
<1>. DOMAIN l = 1 .. Len(l) /\ \A a \in 1 .. Len(l) : l[a] \in S
  OBVIOUS
<1>. QED
  BY Zenon DEF Range, Contains

\* A list that some entries are left out of.
LEMMA WithoutKeyed ==
    ASSUME NEW S, NEW key, NEW size \in Nat, NEW l, Keyed(l, S, key, size), NEW D
    PROVE  /\ Keyed(Without(l, D), S, key, size)
           /\ Range(Without(l, D)) \subseteq Range(l) \ D
           /\ D \cap Range(l) # {} => Len(Without(l, D)) < size
<1>. DEFINE w == Without(l, D)
<1>1. /\ l \in Seq(S) /\ Len(l) <= size /\ Len(l) \in Nat
      /\ \A a, b \in 1 .. Len(l) : key[l[a]] = key[l[b]] => a = b
  BY DEF Keyed
<1>2. /\ w \in Seq(S) /\ Len(w) <= Len(l) /\ Len(w) \in Nat
      /\ (\E i \in 1 .. Len(l) : l[i] \in D) => Len(w) < Len(l)
      /\ \A a \in 1 .. Len(w) : w[a] \notin D /\ Contains(l, w[a])
      /\ \A a, b \in 1 .. Len(w) : a < b =>
            \E i, j \in 1 .. Len(l) : i < j /\ w[a] = l[i] /\ w[b] = l[j]
  <2>. /\ w \in Seq(S) /\ Len(w) <= Len(l)
       /\ (\E i \in 1 .. Len(l) : l[i] \in D) => Len(w) < Len(l)
       /\ \A a \in 1 .. Len(w) : w[a] \notin D /\ Contains(l, w[a])
       /\ \A a, b \in 1 .. Len(w) : a < b =>
             \E i, j \in 1 .. Len(l) : i < j /\ w[a] = l[i] /\ w[b] = l[j]
    BY <1>1, WithoutFacts
  <2>. HIDE DEF w
  <2>. QED
    OBVIOUS
<1>. HIDE DEF w
<1>3. Len(w) <= size
  BY <1>1, <1>2
<1>4. ASSUME NEW a \in 1 .. Len(w), NEW b \in 1 .. Len(w), a < b PROVE key[w[a]] # key[w[b]]
  <2>. PICK i \in 1 .. Len(l), j \in 1 .. Len(l) : i < j /\ w[a] = l[i] /\ w[b] = l[j]
    BY Zenon, <1>2, <1>4
  <2>. i # j
    OBVIOUS
  <2>. QED
    BY Zenon, <1>1
<1>5. ASSUME NEW a \in 1 .. Len(w), NEW b \in 1 .. Len(w), key[w[a]] = key[w[b]] PROVE a = b
  <2>. ~ (a < b) /\ ~ (b < a)
    BY Zenon, <1>4, <1>5
  <2>. QED
    BY <1>2
<1>6. Range(w) \subseteq Range(l) \ D
  BY <1>1, <1>2, RangeOf DEF Contains
<1>7. ASSUME D \cap Range(l) # {} PROVE Len(w) < size
  <2>. \E i \in 1 .. Len(l) : l[i] \in D
    BY <1>1, <1>7, RangeOf DEF Contains
  <2>. QED
    BY <1>1, <1>2
<1>. QED
  BY Zenon, <1>2, <1>3, <1>5, <1>6, <1>7 DEF Keyed, w

\* A list with a new key in front.
LEMMA ConsKeyed ==
    ASSUME NEW S, NEW key, NEW size \in Nat, NEW l, Keyed(l, S, key, size),
           Len(l) < size, NEW e \in S, \A x \in Range(l) : key[x] # key[e]
    PROVE  Keyed(<<e>> \o l, S, key, size) /\ Range(<<e>> \o l) = Range(l) \cup {e}
<1>. USE Zenon
<1>. DEFINE z == <<e>> \o l
            N == Len(l)
<1>1. /\ l \in Seq(S) /\ N \in Nat
      /\ \A a, b \in 1 .. N : key[l[a]] = key[l[b]] => a = b
  BY SMT DEF Keyed
<1>2. /\ z \in Seq(S) /\ Len(z) = N + 1 /\ z[1] = e
      /\ \A k \in 2 .. N + 1 : z[k] = l[k - 1]
      /\ \A x : Contains(z, x) <=> Contains(l, x) \/ x = e
  BY SMT, <1>1, ConsFacts
<1>. HIDE DEF z
<1>3. \A k \in 1 .. N + 1 : k = 1 \/ (k \in 2 .. N + 1 /\ k - 1 \in 1 .. N)
  BY SMT, <1>1
<1>4. \A k \in 1 .. N : key[l[k]] # key[e]
  BY <1>1, RangeOf
<1>5. ASSUME NEW a \in 1 .. Len(z), NEW b \in 1 .. Len(z), key[z[a]] = key[z[b]] PROVE a = b
  <2>1. a \in 1 .. N + 1 /\ b \in 1 .. N + 1
    BY <1>2
  <2>2. CASE a = 1 \/ b = 1
    BY <1>2, <1>3, <1>4, <1>5, <2>1, <2>2
  <2>3. CASE a # 1 /\ b # 1
    <3>1. a - 1 \in 1 .. N /\ b - 1 \in 1 .. N /\ z[a] = l[a - 1] /\ z[b] = l[b - 1]
      BY <1>2, <1>3, <2>1, <2>3
    <3>. a - 1 = b - 1
      BY <1>1, <1>5, <3>1
    <3>. QED
      BY SMT, <2>1
  <2>. QED
    BY <2>2, <2>3
<1>6. Len(z) <= size
  BY SMT, <1>1, <1>2 DEF N
<1>. Range(z) = Range(l) \cup {e}
  BY <1>1, <1>2, RangeOf
<1>. QED
  BY <1>2, <1>5, <1>6 DEF Keyed, z

\* ntfs_enter_cache of a new key.
LEMMA EnteredKeyed ==
    ASSUME NEW S, NEW key, NEW size \in Nat \ {0}, NEW l, Keyed(l, S, key, size),
           NEW e \in S, \A x \in Range(l) : key[x] # key[e]
    PROVE  /\ Keyed(Entered(l, size, e), S, key, size)
           /\ Range(Entered(l, size, e)) \subseteq Range(l) \cup {e}
\* A list without its last entry.
<1>FrontKeyed. ASSUME NEW S0, NEW key0, NEW size0 \in Nat, NEW l0, Keyed(l0, S0, key0, size0), Len(l0) > 0
               PROVE  LET z == RemoveAt(l0, Len(l0))
                      IN  Keyed(z, S0, key0, size0) /\ Len(z) < size0 /\ Range(z) \subseteq Range(l0)
  <2>. USE Zenon, <1>FrontKeyed
  <2>. DEFINE z == RemoveAt(l0, Len(l0))
              N == Len(l0)
  <2>1. /\ l0 \in Seq(S0) /\ N \in Nat /\ N <= size0 /\ N \in 1 .. N
        /\ \A a, b \in 1 .. N : key0[l0[a]] = key0[l0[b]] => a = b
    BY SMT DEF Keyed
  <2>2. /\ z \in Seq(S0) /\ Len(z) = N - 1
        /\ \A k \in 1 .. N - 1 : z[k] = l0[IF k < N THEN k ELSE k + 1]
    BY <2>1, RemoveAtFacts
  <2>. HIDE DEF z, N
  <2>3. Len(z) < size0 /\ Len(z) <= size0 /\ \A k \in 1 .. Len(z) : k \in 1 .. N /\ z[k] = l0[k]
    BY SMT, <2>1, <2>2
  <2>4. Range(z) \subseteq Range(l0)
    <3>. ASSUME NEW x \in Range(z) PROVE x \in Range(l0)
      <4>1. PICK k \in 1 .. Len(z) : z[k] = x
        BY <2>2, RangeOf DEF Contains
      <4>. k \in 1 .. Len(l0) /\ l0[k] = x
        BY <2>3, <4>1 DEF N
      <4>. QED
        BY <2>1, RangeOf
    <3>. QED
      OBVIOUS
  <2>. \A a, b \in 1 .. Len(z) : key0[z[a]] = key0[z[b]] => a = b
    BY <2>1, <2>3
  <2>. QED
    BY <2>2, <2>3, <2>4 DEF Keyed, z, N
<1>1. Len(l) \in Nat /\ Len(l) <= size /\ size \in Nat
  BY DEF Keyed
<1>2. CASE Len(l) < size
  <2>1. Entered(l, size, e) = <<e>> \o l
    BY Zenon, <1>2 DEF Entered
  <2>. Keyed(<<e>> \o l, S, key, size) /\ Range(<<e>> \o l) = Range(l) \cup {e}
    BY <1>1, <1>2, ConsKeyed
  <2>. QED
    BY Zenon, <2>1
<1>3. CASE ~ (Len(l) < size)
  <2>. DEFINE z == RemoveAt(l, Len(l))
  <2>1. Len(l) > 0
    BY <1>1, <1>3
  <2>2. Keyed(z, S, key, size) /\ Len(z) < size /\ Range(z) \subseteq Range(l)
    BY Zenon, <1>1, <2>1, <1>FrontKeyed
  <2>3. Entered(l, size, e) = <<e>> \o z
    BY Zenon, <1>3 DEF Entered
  <2>. HIDE DEF z
  <2>. Keyed(<<e>> \o z, S, key, size) /\ Range(<<e>> \o z) = Range(z) \cup {e}
    BY <1>1, <2>2, ConsKeyed
  <2>. QED
    BY Zenon, <2>2, <2>3
<1>. QED
  BY Zenon, <1>2, <1>3

\* A hit becomes the most recent entry.
LEMMA MovedKeyed ==
    ASSUME NEW S, NEW key, NEW size \in Nat, NEW l, Keyed(l, S, key, size), NEW e \in Range(l)
    PROVE  LET z == <<e>> \o Without(l, {e})
           IN  Keyed(z, S, key, size) /\ Range(z) \subseteq Range(l)
<1>. USE Zenon
<1>. DEFINE w == Without(l, {e})
<1>1. /\ Keyed(w, S, key, size) /\ Range(w) \subseteq Range(l) \ {e} /\ Len(w) < size
  BY WithoutKeyed
<1>2. l \in Seq(S) /\ e \in S
  BY RangeOf DEF Keyed
<1>. HIDE DEF w
<1>3. \A x, y \in Range(l) : key[x] = key[y] => x = y
  <2>. \A a, b \in 1 .. Len(l) : key[l[a]] = key[l[b]] => a = b
    BY DEF Keyed
  <2>. QED
    BY SMT, <1>2, RangeOf DEF Contains
<1>4. \A x \in Range(w) : key[x] # key[e]
  BY <1>1, <1>3
<1>. Keyed(<<e>> \o w, S, key, size) /\ Range(<<e>> \o w) = Range(w) \cup {e}
  <2>. Keyed(w, S, key, size) /\ Len(w) < size /\ e \in S
    BY <1>1, <1>2
  <2>. QED
    BY SMT, <1>4, ConsKeyed
<1>. QED
  BY <1>1 DEF w

-----------------------------------------------------------------------------
(* Sessions.                                                               *)

Disks == [mft : [Inums -> RecordType], bitmap : SUBSET Records]
MemInodes == [inum : Inums, rec : RecordType]
PathEntries == [path : Paths, inum : Inums]
Sessions ==
    [disk : Disks, paths : Seq(PathEntries), inodes : Seq(MemInodes),
     cuts : SUBSET Disks]

InodeKey == [e \in MemInodes |-> e.inum]
PathKey == [e \in PathEntries |-> e.path]

InodesKeyed(l) == Keyed(l, MemInodes, InodeKey, InodeCacheSize)
PathsKeyed(l) == Keyed(l, PathEntries, PathKey, PathCacheSize)

\* Two copies of a record, their attributes apart.
Alike(r, q) ==
    /\ r.used = q.used /\ r.seq = q.seq /\ r.dir = q.dir /\ r.ents = q.ents
    /\ r.size = q.size /\ r.name = q.name /\ r.parent = q.parent

\* An inode in memory that is what the disk has.
Agrees(d, ni) == ni.rec.used /\ Alike(ni.rec, d.mft[ni.inum])

\* The bitmap has the records in use.
Covered(d) == \A i \in Records : d.mft[i].used => i \in d.bitmap

\* An entry is not ahead of its record.  If it is of the same age, the record
\* is taken, and when it is in use it is the file of the entry.
EntryTold(d, p, k, ref) ==
    ref # NoEntry =>
        /\ ref.inum \in Records /\ ref.seq <= d.mft[ref.inum].seq
        /\ ref.seq = d.mft[ref.inum].seq =>
              /\ ref.inum \in d.bitmap
              /\ d.mft[ref.inum].used => /\ d.mft[ref.inum].parent.inum = p
                                         /\ Upcase[d.mft[ref.inum].name] = k

Told(d) == \A p \in Inums, k \in Keys : EntryTold(d, p, k, d.mft[p].ents[k])

\* No file is its own parent.
Above(d) == \A i \in Records : d.mft[i].used => d.mft[i].parent.inum # i

Sound(d) == Covered(d) /\ Told(d) /\ Above(d)

\* A session between two calls of the library: its disk and those that a power
\* loss could leave are sound, and the cached inodes are what its disk has.
Good(s) ==
    /\ load.size \in Nat
    /\ s \in Sessions
    /\ s.disk \in s.cuts
    /\ \A d \in s.cuts : Sound(d)
    /\ InodesKeyed(s.inodes)
    /\ PathsKeyed(s.paths)
    /\ \A e \in Range(s.inodes) : Agrees(s.disk, e)

SetInodes(s, l) == [s EXCEPT !.inodes = l]
SetPaths(s, l) == [s EXCEPT !.paths = l]

\* The fields of a good session.
LEMMA GoodFields ==
    ASSUME NEW s, Good(s)
    PROVE  /\ load.size \in Nat
           /\ s \in Sessions /\ s.disk \in Disks /\ s.disk \in s.cuts /\ Sound(s.disk)
           /\ s.paths \in Seq(PathEntries) /\ s.inodes \in Seq(MemInodes)
           /\ s.disk.mft \in [Inums -> RecordType] /\ s.disk.bitmap \subseteq Records
           /\ Range(s.inodes) \subseteq MemInodes /\ Range(s.paths) \subseteq PathEntries
           /\ \A e \in Range(s.inodes) : Agrees(s.disk, e)
<1>. USE Zenon
<1>1. /\ s \in Sessions /\ s.disk \in s.cuts /\ Sound(s.disk) /\ load.size \in Nat
      /\ \A e \in Range(s.inodes) : Agrees(s.disk, e)
  BY DEF Good
<1>. s.disk \in Disks /\ s.paths \in Seq(PathEntries) /\ s.inodes \in Seq(MemInodes)
  BY <1>1 DEF Sessions
<1>. /\ s.disk.mft \in [Inums -> RecordType] /\ s.disk.bitmap \subseteq Records
     /\ Range(s.inodes) \subseteq MemInodes /\ Range(s.paths) \subseteq PathEntries
  BY RangeOf DEF Disks
<1>. QED
  BY <1>1

\* What Put assigns.
LEMMA PutFields ==
    ASSUME NEW s \in Sessions, NEW d \in Disks
    PROVE  /\ Put(s, d) \in Sessions /\ Put(s, d).disk = d
           /\ Put(s, d).paths = s.paths /\ Put(s, d).inodes = s.inodes
           /\ Put(s, d).cuts = s.cuts \cup {d}
<1>. USE Zenon
<1>. /\ Put(s, d).disk = d /\ Put(s, d).paths = s.paths /\ Put(s, d).inodes = s.inodes
     /\ Put(s, d).cuts = s.cuts \cup {d}
     /\ Put(s, d) \in Sessions
  BY DEF Put, Sessions
<1>. QED
  OBVIOUS

\* A write that leaves a sound disk with which the cached inodes agree.
LEMMA PutGood ==
    ASSUME NEW s, Good(s), NEW d \in Disks, Sound(d),
           \A e \in Range(s.inodes) : Agrees(d, e)
    PROVE  Good(Put(s, d))
<1>. USE Zenon
<1>. DEFINE t == Put(s, d)
<1>1. s \in Sessions
  BY DEF Good
<1>2. /\ t \in Sessions /\ t.disk = d /\ t.paths = s.paths /\ t.inodes = s.inodes
      /\ t.cuts = s.cuts \cup {d}
  BY <1>1, PutFields
<1>. HIDE DEF t
<1>. Good(t)
  BY <1>2 DEF Good
<1>. QED
  BY DEF t

\* Another list of cached inodes.
LEMMA SetInodesGood ==
    ASSUME NEW s, Good(s), NEW l, InodesKeyed(l), \A e \in Range(l) : Agrees(s.disk, e)
    PROVE  LET t == SetInodes(s, l)
           IN  /\ Good(t) /\ t.disk = s.disk /\ t.cuts = s.cuts /\ t.paths = s.paths
               /\ t.inodes = l
<1>. USE Zenon
<1>. DEFINE t == SetInodes(s, l)
<1>1. s \in Sessions /\ l \in Seq(MemInodes)
  BY DEF Good, InodesKeyed, Keyed
<1>. /\ t.disk = s.disk /\ t.cuts = s.cuts /\ t.paths = s.paths /\ t.inodes = l
     /\ t \in Sessions
  BY <1>1 DEF SetInodes, Sessions
<1>. QED
  BY DEF Good

\* Another list of cached paths.
LEMMA SetPathsGood ==
    ASSUME NEW s, Good(s), NEW l, PathsKeyed(l)
    PROVE  LET t == SetPaths(s, l)
           IN  /\ Good(t) /\ t.disk = s.disk /\ t.cuts = s.cuts /\ t.paths = l
               /\ t.inodes = s.inodes
<1>. USE Zenon
<1>. DEFINE t == SetPaths(s, l)
<1>1. s \in Sessions /\ l \in Seq(PathEntries)
  BY DEF Good, PathsKeyed, Keyed
<1>. /\ t.disk = s.disk /\ t.cuts = s.cuts /\ t.paths = l /\ t.inodes = s.inodes
     /\ t \in Sessions
  BY <1>1 DEF SetPaths, Sessions
<1>. QED
  BY DEF Good

Refs == [inum : Inums, seq : 0 .. MaxSeq]

\* The fields of a record.
LEMMA RecordFields ==
    ASSUME NEW r \in RecordType
    PROVE  /\ r.used \in BOOLEAN /\ r.seq \in 1 .. MaxSeq /\ r.dir \in BOOLEAN
           /\ r.ents \in [Keys -> Refs] /\ r.size \in 0 .. load.size
           /\ r.name \in Names \cup {Dot} /\ r.parent \in Refs
           /\ r.parent.inum \in Inums /\ r.parent.seq \in 0 .. MaxSeq
           /\ \A k \in Keys : r.ents[k] \in Refs /\ r.ents[k].inum \in Inums
<1>. USE Zenon
<1>. /\ r.used \in BOOLEAN /\ r.seq \in 1 .. MaxSeq /\ r.dir \in BOOLEAN
     /\ r.ents \in [Keys -> Refs] /\ r.size \in 0 .. load.size
     /\ r.name \in Names \cup {Dot} /\ r.parent \in Refs
     /\ \A x \in Refs : x.inum \in Inums /\ x.seq \in 0 .. MaxSeq
  BY DEF RecordType, Refs
<1>. QED
  OBVIOUS

\* The fields of an inode in memory.
LEMMA InodeFields ==
    ASSUME NEW ni \in MemInodes
    PROVE  ni.inum \in Inums /\ ni.rec \in RecordType /\ InodeKey[ni] = ni.inum
  BY Zenon DEF MemInodes, InodeKey

\* No entry, and a directory of none.
LEMMA NoEntryFacts ==
    NoEntry \in Refs /\ NoEntry.inum = Root /\ Root \in Inums /\ NoEntries \in [Keys -> Refs]
    /\ \A k \in Keys : NoEntries[k] = NoEntry
<1>1. 0 \in 0 .. MaxSeq
  BY Bounds
<1>. NoEntry \in Refs /\ NoEntry.inum = Root /\ Root \in Inums
  BY Zenon, <1>1 DEF NoEntry, Ref, Refs, Inums
<1>. QED
  BY Zenon DEF NoEntries

\* A record that is not in use.
LEMMA UnusedFacts ==
    ASSUME NEW q \in 1 .. MaxSeq, load.size \in Nat
    PROVE  /\ Unused(q) \in RecordType /\ ~ Unused(q).used /\ Unused(q).seq = q
           /\ Unused(q).ents = NoEntries
<1>1. 0 \in 0 .. load.size
  OBVIOUS
<1>. HIDE DEF NoEntries, NoEntry
<1>. /\ ~ Unused(q).used /\ Unused(q).seq = q /\ Unused(q).ents = NoEntries
     /\ Unused(q) \in RecordType
  BY Zenon, <1>1, NoEntryFacts DEF Unused, RecordType, Refs
<1>. QED
  BY Zenon

\* NULL is an inode in memory.
LEMMA NullFacts ==
    ASSUME load.size \in Nat
    PROVE  NullInode \in MemInodes /\ IsNull(NullInode) /\ NullInode.rec.ents = NoEntries
<1>. USE Zenon
<1>1. 1 \in 1 .. MaxSeq
  BY SMT, Bounds
<1>. Unused(1) \in RecordType /\ ~ Unused(1).used /\ Unused(1).ents = NoEntries
  BY <1>1, UnusedFacts
<1>. /\ NullInode.rec = Unused(1) /\ NullInode.inum = Root
     /\ NullInode \in MemInodes
  BY NoEntryFacts DEF NullInode, Inode, MemInodes
<1>. QED
  BY DEF IsNull

-----------------------------------------------------------------------------
(* Where the directories on a disk lead.                                   *)

\* What a name is found to be is an inode.
LEMMA LookupInums ==
    ASSUME NEW ni \in MemInodes, NEW name \in Names \cup {Dot}
    PROVE  ntfs_inode_lookup_by_name(ni, name) \subseteq Inums
<1>. USE Zenon
<1>1. ni.rec \in RecordType /\ ni.rec.ents \in [Keys -> Refs] /\ Root \in Inums
  BY InodeFields, RecordFields, NoEntryFacts
<1>2. CASE name = Dot
  BY <1>1, <1>2 DEF ntfs_inode_lookup_by_name
<1>3. CASE name # Dot
  <2>1. Upcase[name] \in Keys
    BY <1>3 DEF Keys
  <2>. ni.rec.ents[Upcase[name]].inum \in Inums
    BY <1>1, <2>1, RecordFields
  <2>. QED
    BY <1>3 DEF ntfs_inode_lookup_by_name
<1>. QED
  BY <1>2, <1>3

Components == Names \cup {Dot}

\* What the directory i of disk d has under a name.
Look(d, i, n) == ntfs_inode_lookup_by_name(Inode(i, d.mft[i]), n)

\* The three cases of it: the name of the root, no entry, an entry.
LEMMA LookFacts ==
    ASSUME NEW d, NEW i, NEW n
    PROVE  /\ n = Dot => Look(d, i, n) = IF i = Root THEN {Root} ELSE {}
           /\ n # Dot /\ d.mft[i].ents[Upcase[n]] = NoEntry => Look(d, i, n) = {}
           /\ n # Dot /\ d.mft[i].ents[Upcase[n]] # NoEntry
              => Look(d, i, n) = {d.mft[i].ents[Upcase[n]].inum}
<1>. USE Zenon
<1>. DEFINE ni == Inode(i, d.mft[i])
<1>. /\ ni.inum = i /\ ni.rec = d.mft[i]
     /\ Look(d, i, n) = IF n = Dot THEN IF ni.inum = Root THEN {Root} ELSE {}
                        ELSE {ref.inum : ref \in {ni.rec.ents[Upcase[n]]} \ {NoEntry}}
  BY DEF Inode, Look, ntfs_inode_lookup_by_name
<1>. HIDE DEF ni, NoEntry
<1>. QED
  OBVIOUS

\* What the directories X of disk d have under a name.
Go(d, X, n) == UNION {Look(d, i, n) : i \in X}

\* A path leads where its last component leads from where the rest of it leads.
Led(d, path) ==
    /\ Leads(d, SubSeq(path, 1, 0)) = {Root}
    /\ \A k \in 1 .. Len(path) :
          Leads(d, SubSeq(path, 1, k)) = Go(d, Leads(d, SubSeq(path, 1, k - 1)), path[k])
    /\ \A k \in 0 .. Len(path) : Leads(d, SubSeq(path, 1, k)) \subseteq Inums
    /\ SubSeq(path, 1, Len(path)) = path

\* So it is for Leads, which is a recursive function along the path.
LEMMA Leading ==
    ASSUME NEW d \in Disks, NEW path \in Seq(Components)
    PROVE  Led(d, path)
\* It is an inode.
<1>LookInums. ASSUME NEW d0 \in Disks, NEW i \in Inums, NEW n \in Components
              PROVE  Look(d0, i, n) \subseteq Inums
  <2>. USE Zenon, <1>LookInums
  <2>1. d0.mft[i] \in RecordType
    BY DEF Disks
  <2>. Inode(i, d0.mft[i]) \in MemInodes
    BY <2>1 DEF Inode, MemInodes
  <2>. QED
    BY LookupInums DEF Look, Components
<1>. USE Zenon
<1>. DEFINE N == Len(path)
            S == SUBSET Inums
            step == [k \in 1 .. N |-> [X \in S |-> Go(d, X, path[k])]]
<1>1. N \in Nat /\ \A k \in 1 .. N : path[k] \in Components
  BY SMT
<1>2. ASSUME NEW k \in 1 .. N, NEW X \in S PROVE Go(d, X, path[k]) \in S
  <2>. \A i \in X : Look(d, i, path[k]) \subseteq Inums
    BY <1>1, <1>LookInums
  <2>. QED
    BY DEF Go
<1>3. /\ step \in [1 .. N -> [S -> S]]
      /\ \A k \in 1 .. N, X \in S : step[k][X] = Go(d, X, path[k])
  BY <1>2
<1>4. {Root} \in S
  BY DEF Inums
<1>. HIDE DEF N, S, step
<1>5. PICK f \in [0 .. N -> S] : Iterates(f, N, {Root}, step)
  BY <1>1, <1>3, <1>4, Iteration
<1>6. f[0] = {Root}
  <2>. 0 \in 0 .. N
    BY SMT, <1>1
  <2>. QED
    BY <1>5 DEF Iterates
<1>7. ASSUME NEW k \in 1 .. N PROVE f[k - 1] \in S /\ f[k] = Go(d, f[k - 1], path[k])
  <2>. k \in 0 .. N /\ k # 0 /\ k - 1 \in 0 .. N
    BY SMT, <1>1
  <2>. f[k] = step[k][f[k - 1]]
    BY <1>5 DEF Iterates
  <2>. QED
    BY <1>3
<1>8. ASSUME NEW m \in 0 .. N PROVE Leads(d, SubSeq(path, 1, m)) = f[m]
  <2>. DEFINE p == SubSeq(path, 1, m)
              F(g) == [k \in 0 .. Len(p) |->
                          IF k = 0 THEN {Root}
                          ELSE UNION {ntfs_inode_lookup_by_name(Inode(i, d.mft[i]), p[k]) :
                                          i \in g[k - 1]}]
              at == CHOOSE g : g = F(g)
  <2>1. Leads(d, p) = at[Len(p)]
    BY DEF Leads
  <2>2. Len(p) = m /\ \A k \in 1 .. m : p[k] = path[k]
    BY SMT, <1>1 DEF N
  <2>. HIDE DEF p
  <2>. DEFINE h == [k \in 0 .. m |-> f[k]]
  <2>3. ASSUME NEW k \in 0 .. m
        PROVE  /\ k \in 0 .. N
               /\ k # 0 => k \in 1 .. N /\ k \in 1 .. m /\ k - 1 \in 0 .. m
    BY SMT, <1>1
  <2>4. ASSUME NEW g, NEW k \in 0 .. m
        PROVE  F(g)[k] = IF k = 0 THEN {Root} ELSE Go(d, g[k - 1], path[k])
    BY <2>2, <2>3 DEF Go, Look
  <2>5. h = F(h)
    <3>1. ASSUME NEW k \in 0 .. m PROVE F(h)[k] = f[k]
      <4>1. CASE k = 0
        BY <1>6, <2>4, <4>1
      <4>2. CASE k # 0
        <5>. /\ h[k - 1] = f[k - 1]
             /\ F(h)[k] = Go(d, h[k - 1], path[k])
          BY <2>3, <4>2, <2>4
        <5>. HIDE DEF F, h
        <5>. QED
          BY <1>7, <2>3, <4>2
      <4>. QED
        BY <4>1, <4>2
    <3>. h = [k \in 0 .. m |-> F(h)[k]]
      BY <3>1
    <3>. QED
      BY <2>2
  <2>6. at = F(at)
    BY <2>5
  <2>. HIDE DEF at, h
  <2>7. ASSUME NEW k \in 0 .. m
        PROVE  at[k] = IF k = 0 THEN {Root} ELSE Go(d, at[k - 1], path[k])
    BY <2>4, <2>6
  <2>. HIDE DEF F
  <2>. DEFINE T == {k \in 0 .. m : at[k] = f[k]}
  <2>8. m \in Nat /\ 0 \in 0 .. m /\ m \in 0 .. m
    BY SMT, <1>1
  <2>9. 0 \in T
    BY <1>6, <2>7, <2>8
  <2>10. ASSUME NEW k \in 1 .. m, k - 1 \in T PROVE k \in T
    <3>. k \in 0 .. m /\ k # 0 /\ at[k - 1] = f[k - 1]
      BY SMT, <2>8, <2>10
    <3>. QED
      BY <1>7, <2>3, <2>7
  <2>. HIDE DEF T
  <2>. 0 .. m \subseteq T
    BY <2>8, <2>9, <2>10, UpTo
  <2>. QED
    BY <2>1, <2>2, <2>8 DEF T, p
<1>9. SubSeq(path, 1, N) = path
  BY SMT DEF N
<1>10. ASSUME NEW k \in 1 .. N PROVE k \in 0 .. N /\ k - 1 \in 0 .. N
  BY SMT, <1>1
<1>11. 0 \in 0 .. N
  BY SMT, <1>1
<1>. \A k \in 0 .. N : f[k] \subseteq Inums
  BY DEF S
<1>. QED
  BY <1>6, <1>7, <1>8, <1>9, <1>10, <1>11 DEF Led, N

\* The last component of a path.
LEMMA LeadsLast ==
    ASSUME NEW d \in Disks, NEW q \in Seq(Components), NEW n \in Components
    PROVE  /\ q \o <<n>> \in Seq(Components)
           /\ Leads(d, q \o <<n>>) = Go(d, Leads(d, q), n)
<1>. DEFINE p == q \o <<n>>
            m == Len(q) + 1
<1>1. /\ p \in Seq(Components) /\ Len(p) = m /\ p[m] = n /\ m - 1 = Len(q)
      /\ m \in 1 .. m /\ Len(q) \in Nat
  OBVIOUS
<1>2. SubSeq(p, 1, Len(q)) = q
  <2>. /\ SubSeq(p, 1, Len(q)) \in Seq(Components) /\ Len(SubSeq(p, 1, Len(q))) = Len(q)
       /\ \A k \in 1 .. Len(q) : SubSeq(p, 1, Len(q))[k] = q[k]
    BY <1>1
  <2>. QED
    BY Zenon, SeqEqual
<1>. HIDE DEF p, m
<1>3. Led(d, p)
  BY Zenon, <1>1, Leading
<1>. Leads(d, p) = Go(d, Leads(d, q), n)
  BY Zenon, <1>1, <1>2, <1>3 DEF Led
<1>. QED
  BY Zenon, <1>1 DEF p

\* The empty path leads to the root directory.
LEMMA LeadsRoot ==
    ASSUME NEW d \in Disks
    PROVE  << >> \in Seq(Components) /\ Leads(d, << >>) = {Root}
<1>. << >> \in Seq(Components) /\ SubSeq(<< >>, 1, 0) = << >>
  OBVIOUS
<1>. Led(d, << >>)
  BY Zenon, Leading
<1>. QED
  BY Zenon DEF Led

\* From nowhere, and from one directory.
LEMMA GoFacts ==
    ASSUME NEW d, NEW n
    PROVE  Go(d, {}, n) = {} /\ \A i : Go(d, {i}, n) = Look(d, i, n)
  BY Zenon DEF Go

-----------------------------------------------------------------------------
(* Opening and closing an inode.                                           *)

\* A call that writes nothing.
Quiet(s, t) == Good(t) /\ t.disk = s.disk /\ t.cuts = s.cuts

NotCached(s, i) == \A e \in Range(s.inodes) : e.inum # i

\* The inode of i was opened, if it is not NULL.
Opened(s, r, i) ==
    /\ Quiet(s, r.s) /\ r.s.paths = s.paths /\ Range(r.s.inodes) \subseteq Range(s.inodes)
    /\ r.ni \in MemInodes
    /\ IsNull(r.ni) \/ (r.ni.inum = i /\ Agrees(s.disk, r.ni) /\ NotCached(r.s, i))

\* An inode that is opened is not in the cache, and is what the disk has.  It
\* is not NULL if the record is in use and has the sequence number.
LEMMA OpenGood ==
    ASSUME NEW s, Good(s), NEW i \in Inums, NEW q
    PROVE  LET r == ntfs_inode_open(s, i, q)
           IN  /\ Opened(s, r, i)
               /\ s.disk.mft[i].used /\ q \in {0, s.disk.mft[i].seq} => ~ IsNull(r.ni)
<1>. USE Zenon
<1>. DEFINE r == ntfs_inode_open(s, i, q)
            rec == s.disk.mft[i]
<1>1. /\ load.size \in Nat /\ s.disk.mft \in [Inums -> RecordType] /\ s.inodes \in Seq(MemInodes)
      /\ Range(s.inodes) \subseteq MemInodes
      /\ \A e \in Range(s.inodes) : Agrees(s.disk, e)
  BY GoodFields
<1>2. InodesKeyed(s.inodes)
  BY DEF Good
<1>3. rec \in RecordType
  BY <1>1
<1>4. CASE InodeEntry(s, i) = {}
  <2>1. /\ NotCached(s, i)
        /\ r.s = s /\ r.ni = IF q \in {0, rec.seq} THEN Inode(i, rec) ELSE NullInode
    BY <1>4 DEF InodeEntry, NotCached, ntfs_inode_open, ntfs_inode_real_open, Result
  <2>3. Inode(i, rec) \in MemInodes /\ Inode(i, rec).inum = i /\ Inode(i, rec).rec = rec
    BY <1>3 DEF Inode, MemInodes
  <2>4. Alike(rec, rec)
    BY DEF Alike
  <2>. HIDE DEF r, rec
  <2>5. CASE q \in {0, rec.seq}
    <3>. r.ni = Inode(i, rec) /\ r.ni \in MemInodes /\ r.ni.inum = i /\ r.ni.rec = rec
      BY <2>1, <2>3, <2>5
    <3>. /\ IsNull(r.ni) \/ Agrees(s.disk, r.ni)
         /\ rec.used => ~ IsNull(r.ni)
      BY <2>4 DEF IsNull, Agrees, rec
    <3>. QED
      BY <2>1 DEF Opened, Quiet, r, rec
  <2>6. CASE ~ (q \in {0, rec.seq})
    BY <1>1, <2>1, <2>6, NullFacts DEF Opened, Quiet, r, rec
  <2>. QED
    BY <2>5, <2>6
<1>5. CASE InodeEntry(s, i) # {}
  <2>. DEFINE ni == CHOOSE e \in InodeEntry(s, i) : TRUE
              l == Without(s.inodes, {ni})
  <2>1. ni \in Range(s.inodes) /\ ni.inum = i /\ ni \in MemInodes /\ Agrees(s.disk, ni)
    BY <1>1, <1>5 DEF InodeEntry
  <2>2. r.ni = ni /\ r.s = SetInodes(s, l)
    BY <1>5 DEF ntfs_inode_open, Result, SetInodes
  <2>. HIDE DEF ni
  <2>3. InodesKeyed(l) /\ Range(l) \subseteq Range(s.inodes) \ {ni}
    <3>. InodeCacheSize \in Nat
      BY Bounds
    <3>. QED
      BY <1>2, WithoutKeyed DEF InodesKeyed
  <2>. HIDE DEF l, r
  <2>4. Quiet(s, r.s) /\ r.s.paths = s.paths /\ r.s.inodes = l
    <3>1. \A e \in Range(l) : Agrees(s.disk, e)
      BY <1>1, <2>3
    <3>. LET t == SetInodes(s, l)
         IN  /\ Good(t) /\ t.disk = s.disk /\ t.cuts = s.cuts /\ t.paths = s.paths
             /\ t.inodes = l
      BY <2>3, <3>1, SetInodesGood
    <3>. QED
      BY <2>2 DEF Quiet
  <2>5. ASSUME NEW e \in Range(l) PROVE e.inum # i
    <3>. e \in Range(s.inodes) /\ e # ni /\ e \in MemInodes
      BY <1>1, <2>3
    <3>2. PICK a \in 1 .. Len(s.inodes), b \in 1 .. Len(s.inodes) : s.inodes[a] = e /\ s.inodes[b] = ni
      BY SMT, <1>1, <2>1, RangeOf DEF Contains
    <3>. InodeKey[e] # InodeKey[ni]
      BY <1>2, <3>2 DEF InodesKeyed, Keyed
    <3>. QED
      BY <2>1, InodeFields
  <2>. ~ IsNull(ni)
    BY <2>1 DEF Agrees, IsNull
  <2>. QED
    BY <2>1, <2>2, <2>3, <2>4, <2>5 DEF Opened, NotCached, r
<1>. QED
  BY <1>4, <1>5

\* Closing an inode that was not changed.
Closes(s, ni, t) ==
    /\ Quiet(s, t) /\ t.paths = s.paths
    /\ Range(t.inodes) \subseteq Range(s.inodes) \cup {ni}

\* An inode that is what the disk has can be closed and cached.
LEMMA CloseGood ==
    ASSUME NEW s, Good(s), NEW ni \in MemInodes, IsNull(ni) \/ Agrees(s.disk, ni)
    PROVE  Closes(s, ni, CacheInode(s, ni))
<1>. USE Zenon
<1>. DEFINE t == CacheInode(s, ni)
<1>1. CASE IsNull(ni) \/ InodeEntry(s, ni.inum) # {}
  BY <1>1 DEF CacheInode, Quiet, Closes
<1>2. CASE ~ IsNull(ni) /\ InodeEntry(s, ni.inum) = {}
  <2>. DEFINE l == Entered(s.inodes, InodeCacheSize, ni)
  <2>1. t = SetInodes(s, l)
    BY <1>2 DEF CacheInode, SetInodes
  <2>2. Range(s.inodes) \subseteq MemInodes /\ \A e \in Range(s.inodes) : Agrees(s.disk, e)
    BY GoodFields
  <2>3. ASSUME NEW x \in Range(s.inodes) PROVE InodeKey[x] # InodeKey[ni]
    BY <1>2, <2>2, InodeFields DEF InodeEntry
  <2>. InodesKeyed(l) /\ Range(l) \subseteq Range(s.inodes) \cup {ni}
    <3>. /\ InodeCacheSize \in Nat \ {0}
         /\ InodesKeyed(s.inodes)
      BY Bounds DEF Good
    <3>. QED
      BY <2>3, EnteredKeyed DEF InodesKeyed
  <2>5. \A e \in Range(l) : Agrees(s.disk, e)
    BY <1>2, <2>2
  <2>. HIDE DEF l
  <2>. LET u == SetInodes(s, l)
       IN  /\ Good(u) /\ u.disk = s.disk /\ u.cuts = s.cuts /\ u.paths = s.paths
           /\ u.inodes = l
    BY <2>5, SetInodesGood
  <2>. QED
    BY <2>1 DEF Quiet, Closes
<1>. QED
  BY <1>1, <1>2

-----------------------------------------------------------------------------
(* Writing a record.                                                       *)

\* Two disks that differ in attributes only.
Similar(d, c) == d.bitmap = c.bitmap /\ \A i \in Inums : Alike(d.mft[i], c.mft[i])

WithRecord(d, i, r) == [d EXCEPT !.mft[i] = r]

\* The record of an inode may be written: it is the record on the disk, but for
\* its size, attributes and entries.  An entry that is new is of a record that
\* was just taken and is not yet in use.
Writable(d, ni) ==
    LET rec == d.mft[ni.inum]
    IN  /\ ni.rec.used /\ rec.used /\ ni.rec.seq = rec.seq
        /\ ni.rec.name = rec.name /\ ni.rec.parent = rec.parent
        /\ \A k \in Keys :
              LET ref == ni.rec.ents[k]
              IN  \/ ref \in {NoEntry, rec.ents[k]}
                  \/ /\ ref.inum \in Records /\ ref.inum \in d.bitmap
                     /\ ref.seq = d.mft[ref.inum].seq /\ ~ d.mft[ref.inum].used

\* The fields of a disk, and of one with another record.
LEMMA WriteFields ==
    ASSUME NEW d \in Disks, NEW i \in Inums, NEW r \in RecordType
    PROVE  LET c == WithRecord(d, i, r)
           IN  /\ c \in Disks /\ c.bitmap = d.bitmap
               /\ \A j \in Inums : c.mft[j] = IF j = i THEN r ELSE d.mft[j]
<1>. USE Zenon
<1>. DEFINE c == WithRecord(d, i, r)
<1>1. /\ d.mft \in [Inums -> RecordType] /\ d.bitmap \subseteq Records
      /\ c.bitmap = d.bitmap /\ c.mft = [d.mft EXCEPT ![i] = r]
  BY DEF Disks, WithRecord
<1>3. \A j \in Inums : c.mft[j] = IF j = i THEN r ELSE d.mft[j]
  BY <1>1
<1>. c \in Disks
  <2>1. c.mft \in [Inums -> RecordType]
    BY <1>1
  <2>. c = [mft |-> c.mft, bitmap |-> c.bitmap]
    BY SMT DEF WithRecord, Disks
  <2>. HIDE DEF c
  <2>. QED
    BY <1>1, <2>1 DEF Disks
<1>. QED
  BY <1>1, <1>3

\* Disk c is disk d with record r for i.
Rewritten(c, d, i, r) ==
    /\ c \in Disks /\ c.bitmap = d.bitmap
    /\ \A j \in Inums : c.mft[j] = IF j = i THEN r ELSE d.mft[j]

\* So is the disk after ntfs_mft_record_write.
LEMMA Rewriting ==
    ASSUME NEW d \in Disks, NEW i \in Inums, NEW r \in RecordType
    PROVE  Rewritten(WithRecord(d, i, r), d, i, r)
  BY Zenon, WriteFields DEF Rewritten

\* An inode that is what the disk has may be written.
LEMMA AgreesWritable ==
    ASSUME NEW d, NEW ni, Agrees(d, ni)
    PROVE  Writable(d, ni)
  BY Zenon DEF Agrees, Alike, Writable

\* ntfs_mft_record_write of an open inode.
LEMMA RecordWriteGood ==
    ASSUME NEW s, Good(s), NEW ni \in MemInodes, NotCached(s, ni.inum), Writable(s.disk, ni)
    PROVE  LET t == ntfs_mft_record_write(s, ni)
           IN  /\ Good(t) /\ t.paths = s.paths /\ t.inodes = s.inodes
               /\ t.disk = WithRecord(s.disk, ni.inum, ni.rec) /\ Agrees(t.disk, ni)
\* The write leaves a sound disk.
<1>WriteSound. ASSUME NEW d \in Disks, Sound(d), NEW ni0 \in MemInodes, Writable(d, ni0)
               PROVE  Sound(WithRecord(d, ni0.inum, ni0.rec))
  <2>. USE <1>WriteSound
  \* Sequence numbers are numbers.
  <2>SeqNat. \A q \in 1 .. MaxSeq : q \in Nat
      BY Bounds
  <2>. USE Zenon
  <2>. DEFINE c == WithRecord(d, ni0.inum, ni0.rec)
              n == ni0.inum
  <2>1. ni0.inum \in Inums /\ ni0.rec \in RecordType
    BY InodeFields
  <2>2. /\ c \in Disks /\ c.bitmap = d.bitmap
        /\ \A j \in Inums : c.mft[j] = IF j = n THEN ni0.rec ELSE d.mft[j]
    BY SMT, <2>1, WriteFields
  <2>3. Records \subseteq Inums /\ d.mft \in [Inums -> RecordType]
    BY DEF Inums, Disks
  <2>. HIDE DEF c
  <2>4. \A j \in Inums : /\ c.mft[j].used = d.mft[j].used /\ c.mft[j].seq = d.mft[j].seq
                         /\ c.mft[j].name = d.mft[j].name /\ c.mft[j].parent = d.mft[j].parent
    <3>1. /\ ni0.rec.used = d.mft[n].used /\ ni0.rec.seq = d.mft[n].seq
          /\ ni0.rec.name = d.mft[n].name /\ ni0.rec.parent = d.mft[n].parent
      <4>1. d.mft[n] \in RecordType
        BY <2>1, <2>3
      <4>. d.mft[n].used \in BOOLEAN /\ ni0.rec.used \in BOOLEAN
        BY <2>1, <4>1, RecordFields
      <4>. QED
        BY DEF Writable
    <3>2. TAKE j \in Inums
    <3>3. CASE j = n
      BY <2>2, <3>1, <3>3
    <3>4. CASE j # n
      BY <2>2, <3>4
    <3>. QED
      BY <3>3, <3>4
  <2>5. /\ Covered(c)
        /\ Above(c)
    BY <2>2, <2>3, <2>4 DEF Sound, Covered, Above
  <2>7. ASSUME NEW p \in Inums, NEW k \in Keys
        PROVE  EntryTold(c, p, k, c.mft[p].ents[k])
    <3>. DEFINE ref == c.mft[p].ents[k]
    <3>. HIDE DEF ref
    <3>1. CASE EntryTold(d, p, k, ref)
      <4>. ASSUME NEW i \in Records
           PROVE  /\ c.mft[i].used = d.mft[i].used /\ c.mft[i].seq = d.mft[i].seq
                  /\ c.mft[i].name = d.mft[i].name /\ c.mft[i].parent = d.mft[i].parent
        BY <2>3, <2>4
      <4>. QED
        BY <2>2, <3>1 DEF EntryTold, ref
    <3>2. CASE ref = NoEntry
      BY <3>2 DEF EntryTold, ref
    <3>3. CASE /\ ref.inum \in Records /\ ref.inum \in d.bitmap
               /\ ref.seq = d.mft[ref.inum].seq /\ ~ d.mft[ref.inum].used
      <4>1. ref.inum \in Inums /\ d.mft[ref.inum] \in RecordType
        BY <2>3, <3>3
      <4>2. d.mft[ref.inum].seq \in Nat
        BY <4>1, RecordFields, <2>SeqNat
      <4>3. ref.seq <= d.mft[ref.inum].seq
        BY SMT, <3>3, <4>2
      <4>. /\ c.mft[ref.inum].used = d.mft[ref.inum].used
           /\ c.mft[ref.inum].seq = d.mft[ref.inum].seq
        BY <2>4, <4>1
      <4>. QED
        BY <2>2, <3>3, <4>3 DEF EntryTold, ref
    <3>4. CASE p # n
      <4>. ref = d.mft[p].ents[k]
        BY <2>2, <3>4 DEF ref
      <4>. QED
        BY <3>1 DEF Sound, Told
    <3>5. CASE p = n
      <4>1. ref = ni0.rec.ents[k]
        BY <2>2, <3>5 DEF ref
      <4>. /\ \/ ref \in {NoEntry, d.mft[n].ents[k]}
              \/ /\ ref.inum \in Records /\ ref.inum \in d.bitmap
                 /\ ref.seq = d.mft[ref.inum].seq /\ ~ d.mft[ref.inum].used
           /\ EntryTold(d, p, k, d.mft[p].ents[k])
        BY <4>1 DEF Writable, Sound, Told
      <4>. QED
        BY <3>1, <3>2, <3>3, <3>5
    <3>. QED
      BY <3>4, <3>5
  <2>. Told(c)
    BY <2>7 DEF Told
  <2>. QED
    BY <2>5 DEF Sound, c
<1>. USE Zenon
<1>. DEFINE d == WithRecord(s.disk, ni.inum, ni.rec)
            t == ntfs_mft_record_write(s, ni)
<1>1. t = Put(s, d)
  BY DEF ntfs_mft_record_write, WithRecord
<1>2. /\ s \in Sessions /\ s.disk \in Disks /\ Sound(s.disk)
      /\ Range(s.inodes) \subseteq MemInodes
      /\ \A e \in Range(s.inodes) : Agrees(s.disk, e)
  BY GoodFields
<1>3. ni.inum \in Inums /\ ni.rec \in RecordType
  BY InodeFields
<1>4. /\ d \in Disks
      /\ \A j \in Inums : d.mft[j] = IF j = ni.inum THEN ni.rec ELSE s.disk.mft[j]
  BY SMT, <1>2, <1>3, WriteFields
<1>5. Sound(d)
  BY <1>2, <1>WriteSound
<1>. HIDE DEF d, t
<1>6. ASSUME NEW e \in Range(s.inodes) PROVE Agrees(d, e)
  <2>1. e.inum \in Inums /\ e.inum # ni.inum
    BY <1>2, InodeFields DEF NotCached
  <2>. d.mft[e.inum] = s.disk.mft[e.inum]
    BY <1>4, <2>1
  <2>. QED
    BY <1>2 DEF Agrees
<1>7. /\ Good(t)
      /\ t.paths = s.paths /\ t.inodes = s.inodes /\ t.disk = d
  BY <1>1, <1>4, <1>5, <1>6, PutGood, <1>2, PutFields
<1>. Agrees(d, ni)
  <2>. d.mft[ni.inum] = ni.rec
    BY <1>3, <1>4
  <2>. QED
    BY DEF Agrees, Writable, Alike
<1>. QED
  BY <1>7 DEF d, t

\* ntfs_inode_close of an open inode that was marked dirty.
DirtyCloses(s, ni, t) ==
    /\ Good(t) /\ t.paths = s.paths
    /\ Range(t.inodes) \subseteq Range(s.inodes) \cup {ni}
    /\ t.disk = WithRecord(s.disk, ni.inum, ni.rec)

\* It can be closed if its record may be written.
LEMMA DirtyCloseGood ==
    ASSUME NEW s, Good(s), NEW ni \in MemInodes, NotCached(s, ni.inum), Writable(s.disk, ni)
    PROVE  DirtyCloses(s, ni, ntfs_inode_close(s, ni, TRUE))
<1>. USE Zenon
<1>. DEFINE u == ntfs_mft_record_write(s, ni)
<1>1. /\ Good(u) /\ u.paths = s.paths /\ u.inodes = s.inodes
      /\ u.disk = WithRecord(s.disk, ni.inum, ni.rec) /\ Agrees(u.disk, ni)
  BY RecordWriteGood
<1>2. ntfs_inode_close(s, ni, TRUE) = CacheInode(u, ni)
  BY DEF ntfs_inode_close, Writable, IsNull
<1>. HIDE DEF u
<1>. Closes(u, ni, CacheInode(u, ni))
  BY <1>1, CloseGood
<1>. QED
  BY <1>1, <1>2 DEF Quiet, Closes, DirtyCloses

\* ntfs_inode_close of an open inode whose size or entries have changed.
ChangeCloses(s, ni, t) ==
    /\ Good(t) /\ t.paths = s.paths /\ t.disk.bitmap = s.disk.bitmap
    /\ t.disk.mft[ni.inum] = ni.rec
    /\ \A j \in Inums : j # ni.inum => Alike(t.disk.mft[j], s.disk.mft[j])

\* It can be closed, with the copy of its size in the entry of its parent, if its
\* record may be written.
LEMMA CloseChangedGood ==
    ASSUME NEW s, Good(s), NEW ni \in MemInodes, NotCached(s, ni.inum), Writable(s.disk, ni)
    PROVE  ChangeCloses(s, ni, CloseChanged(s, ni))
\* ntfs_inode_sync_file_name changes attributes at most, and caches the
\* directory at most.
<1>SyncNameGood. LET t == ntfs_inode_sync_file_name(s, ni)
                 IN  /\ Good(t) /\ t.paths = s.paths /\ Similar(t.disk, s.disk)
                     /\ \A e \in Range(t.inodes) :
                           e \in Range(s.inodes) \/ (ni.inum # Root /\ e.inum = ni.rec.parent.inum)
  \* Alike records, and similar disks.
  <2>SimilarFacts. ASSUME NEW d \in Disks, NEW ni0 \in MemInodes, Agrees(d, ni0)
                   PROVE  Similar(d, d) /\ Similar(WithRecord(d, ni0.inum, ni0.rec), d)
    <3>. USE Zenon, <2>SimilarFacts
    <3>. DEFINE c == WithRecord(d, ni0.inum, ni0.rec)
    <3>1. ni0.inum \in Inums /\ ni0.rec \in RecordType
      BY InodeFields
    <3>2. /\ c.bitmap = d.bitmap
          /\ \A j \in Inums : c.mft[j] = IF j = ni0.inum THEN ni0.rec ELSE d.mft[j]
      BY SMT, <3>1, WriteFields
    <3>. HIDE DEF c
    <3>3. \A r : Alike(r, r)
      BY DEF Alike
    <3>. ASSUME NEW j \in Inums PROVE Alike(c.mft[j], d.mft[j])
      <4>1. CASE j = ni0.inum
        BY <3>2, <4>1 DEF Agrees
      <4>2. CASE j # ni0.inum
        BY <3>2, <3>3, <4>2
      <4>. QED
        BY <4>1, <4>2
    <3>. QED
      BY <3>2, <3>3 DEF Similar, c
  <2>. USE Zenon
  <2>. DEFINE t == ntfs_inode_sync_file_name(s, ni)
              i == ni.rec.parent.inum
              dir == OpenRef(s, ni.rec.parent)
  <2>1. s.disk \in Disks /\ i \in Inums
    BY GoodFields, InodeFields, RecordFields
  <2>2. Similar(s.disk, s.disk)
    <3>. \A r : Alike(r, r)
      BY DEF Alike
    <3>. QED
      BY DEF Similar
  <2>3. CASE ni.inum = Root
    BY <2>2, <2>3 DEF ntfs_inode_sync_file_name
  <2>4. CASE ni.inum # Root
    <3>1. Opened(s, dir, i)
      BY <2>1, OpenGood DEF OpenRef
    <3>2. t = ntfs_inode_close(dir.s, dir.ni, dir.ni.inum \notin LargeDirs)
      BY <2>4 DEF ntfs_inode_sync_file_name
    <3>. HIDE DEF t, dir, i
    <3>3. /\ Good(dir.s) /\ dir.s.disk = s.disk /\ dir.s.paths = s.paths
          /\ Range(dir.s.inodes) \subseteq Range(s.inodes) /\ dir.ni \in MemInodes
      BY <3>1 DEF Opened, Quiet
    <3>4. CASE IsNull(dir.ni)
      <4>. t = dir.s
        BY <3>2, <3>4 DEF ntfs_inode_close, CacheInode
      <4>. QED
        BY <2>2, <3>3 DEF t
    <3>5. CASE ~ IsNull(dir.ni)
      <4>1. dir.ni.inum = i /\ Agrees(s.disk, dir.ni) /\ NotCached(dir.s, i)
        BY <3>1, <3>5 DEF Opened
      <4>2. CASE dir.ni.inum \in LargeDirs
        <5>. /\ t = CacheInode(dir.s, dir.ni)
             /\ Closes(dir.s, dir.ni, CacheInode(dir.s, dir.ni))
          BY <3>2, <4>2, <3>3, <4>1, CloseGood DEF ntfs_inode_close
        <5>. QED
          BY <2>2, <2>4, <3>3, <4>1 DEF Quiet, Closes, t, i
      <4>3. CASE dir.ni.inum \notin LargeDirs
        <5>1. t = ntfs_inode_close(dir.s, dir.ni, TRUE)
          BY <3>2, <4>3 DEF ntfs_inode_close
        <5>2. Writable(dir.s.disk, dir.ni) /\ NotCached(dir.s, dir.ni.inum)
          BY <3>3, <4>1, AgreesWritable
        <5>. /\ DirtyCloses(dir.s, dir.ni, ntfs_inode_close(dir.s, dir.ni, TRUE))
             /\ Similar(WithRecord(s.disk, dir.ni.inum, dir.ni.rec), s.disk)
          BY <3>3, <5>2, DirtyCloseGood, <2>1, <4>1, <2>SimilarFacts
        <5>. QED
          BY <2>4, <3>3, <4>1, <5>1 DEF DirtyCloses, t, i
      <4>. QED
        BY <4>2, <4>3
    <3>. QED
      BY <3>4, <3>5
  <2>. QED
    BY <2>3, <2>4
\* It may be written if it may be on a disk with other attributes.
<1>SimilarWritable. ASSUME NEW d, NEW c, NEW ni0 \in MemInodes, Similar(c, d), Writable(d, ni0)
                    PROVE  Writable(c, ni0)
  <2>. USE Zenon, <1>SimilarWritable
  <2>1. \A i \in Inums : Alike(c.mft[i], d.mft[i])
    BY DEF Similar
  <2>2. c.bitmap = d.bitmap
    BY DEF Similar
  <2>3. Records \subseteq Inums
    BY DEF Inums
  <2>4. Alike(c.mft[ni0.inum], d.mft[ni0.inum])
    BY <2>1, InodeFields
  <2>. ASSUME NEW k \in Keys
       PROVE  LET ref == ni0.rec.ents[k]
              IN  \/ ref \in {NoEntry, c.mft[ni0.inum].ents[k]}
                  \/ /\ ref.inum \in Records /\ ref.inum \in c.bitmap
                     /\ ref.seq = c.mft[ref.inum].seq /\ ~ c.mft[ref.inum].used
    <3>. DEFINE ref == ni0.rec.ents[k]
    <3>1. \/ ref \in {NoEntry, d.mft[ni0.inum].ents[k]}
          \/ /\ ref.inum \in Records /\ ref.inum \in d.bitmap
             /\ ref.seq = d.mft[ref.inum].seq /\ ~ d.mft[ref.inum].used
      BY DEF Writable
    <3>. HIDE DEF ref
    <3>2. CASE ref \in {NoEntry, d.mft[ni0.inum].ents[k]}
      BY <2>4, <3>2 DEF Alike, ref
    <3>3. CASE /\ ref.inum \in Records /\ ref.inum \in d.bitmap
               /\ ref.seq = d.mft[ref.inum].seq /\ ~ d.mft[ref.inum].used
      <4>. Alike(c.mft[ref.inum], d.mft[ref.inum])
        BY <2>1, <2>3, <3>3
      <4>. QED
        BY <2>2, <3>3 DEF Alike, ref
    <3>. QED
      BY <3>1, <3>2, <3>3
  <2>. QED
    BY <2>4 DEF Writable, Alike
<1>. USE Zenon
<1>. DEFINE u == ntfs_inode_sync_file_name(s, ni)
            t == CloseChanged(s, ni)
<1>1. /\ Good(u) /\ u.paths = s.paths /\ Similar(u.disk, s.disk)
      /\ \A e \in Range(u.inodes) :
            e \in Range(s.inodes) \/ (ni.inum # Root /\ e.inum = ni.rec.parent.inum)
  BY <1>SyncNameGood
<1>2. ni.inum \in Inums /\ ni.rec \in RecordType
  BY InodeFields
<1>3. ni.inum # Root => ni.rec.parent.inum # ni.inum
  <2>. /\ Sound(s.disk)
       /\ ni.inum # Root => ni.inum \in Records
    BY GoodFields, <1>2 DEF Inums
  <2>. QED
    BY DEF Sound, Above, Writable
<1>4. t = ntfs_inode_close(u, ni, TRUE)
  BY DEF CloseChanged
<1>. HIDE DEF u, t
<1>5. /\ NotCached(u, ni.inum)
      /\ Writable(u.disk, ni)
  BY <1>1, <1>3, <1>SimilarWritable DEF NotCached
<1>7. DirtyCloses(u, ni, ntfs_inode_close(u, ni, TRUE))
  BY <1>1, <1>5, DirtyCloseGood
<1>8. /\ Good(t) /\ t.paths = s.paths /\ t.disk = WithRecord(u.disk, ni.inum, ni.rec)
      /\ u.disk \in Disks
  BY <1>1, <1>4, <1>7, GoodFields DEF DirtyCloses
<1>10. /\ t.disk.bitmap = u.disk.bitmap
       /\ \A j \in Inums : t.disk.mft[j] = IF j = ni.inum THEN ni.rec ELSE u.disk.mft[j]
  BY SMT, <1>2, <1>8, WriteFields
<1>11. ASSUME NEW j \in Inums, j # ni.inum PROVE Alike(t.disk.mft[j], s.disk.mft[j])
  BY <1>1, <1>10, <1>11 DEF Similar
<1>. t.disk.mft[ni.inum] = ni.rec /\ t.disk.bitmap = s.disk.bitmap
  BY <1>1, <1>2, <1>10 DEF Similar
<1>. QED
  BY <1>8, <1>11 DEF ChangeCloses, t

-----------------------------------------------------------------------------
(* Adding and removing an entry of a directory.                            *)

EntryPut(rec, k, ref) == [rec EXCEPT !.ents[k] = ref]
WithEntries(rec, ents) == [rec EXCEPT !.ents = ents]

\* The fields of a record with other entries.
LEMMA EntriesFields ==
    ASSUME NEW rec \in RecordType, NEW ents \in [Keys -> Refs]
    PROVE  LET r == WithEntries(rec, ents)
           IN  /\ r \in RecordType /\ r.ents = ents
               /\ r.used = rec.used /\ r.seq = rec.seq /\ r.dir = rec.dir
               /\ r.size = rec.size /\ r.name = rec.name /\ r.parent = rec.parent
<1>. USE Zenon
<1>. /\ WithEntries(rec, ents) \in RecordType
     /\ LET r == WithEntries(rec, ents)
        IN  /\ r.ents = ents /\ r.used = rec.used /\ r.seq = rec.seq /\ r.dir = rec.dir
            /\ r.size = rec.size /\ r.name = rec.name /\ r.parent = rec.parent
  BY DEF WithEntries, RecordType, Refs
<1>. QED
  OBVIOUS

\* An entry that may be put into a directory.
Puttable(d, ref) ==
    \/ ref = NoEntry
    \/ /\ ref.inum \in Records /\ ref.inum \in d.bitmap
       /\ ref.seq = d.mft[ref.inum].seq /\ ~ d.mft[ref.inum].used

\* An entry is put into an open directory: into its index block, or into the
\* copy in memory alone.
EntrySet(s, dir, ents, r) ==
    /\ Good(r.s) /\ r.s.paths = s.paths /\ r.s.inodes = s.inodes
    /\ r.ni \in MemInodes /\ r.ni.inum = dir.inum /\ Writable(r.s.disk, r.ni)
    /\ Alike(r.ni.rec, WithEntries(s.disk.mft[dir.inum], ents))
    /\ dir.inum \in LargeDirs => Agrees(r.s.disk, r.ni)
    /\ r.s.disk.bitmap = s.disk.bitmap
    /\ \A j \in Inums \ {dir.inum} : r.s.disk.mft[j] = s.disk.mft[j]

\* So does SetEntry, for an entry that may be put in.
LEMMA SetEntryGood ==
    ASSUME NEW s, Good(s), NEW dir \in MemInodes, Agrees(s.disk, dir),
           NotCached(s, dir.inum), NEW name \in Names, NEW ref \in Refs,
           Puttable(s.disk, ref)
    PROVE  EntrySet(s, dir, [dir.rec.ents EXCEPT ![Upcase[name]] = ref],
                    SetEntry(s, dir, name, ref))
<1>. USE Zenon
<1>. DEFINE k == Upcase[name]
            ents == [dir.rec.ents EXCEPT ![k] = ref]
            rec == s.disk.mft[dir.inum]
            ni == Inode(dir.inum, WithEntries(dir.rec, ents))
            w == Inode(dir.inum, WithEntries(rec, ents))
            r == SetEntry(s, dir, name, ref)
<1>1. /\ dir.inum \in Inums /\ dir.rec \in RecordType /\ dir.rec.ents \in [Keys -> Refs]
  BY InodeFields, RecordFields
<1>2. s.disk \in Disks /\ rec \in RecordType
  BY <1>1, GoodFields
<1>3. k \in Keys
  BY DEF Keys
<1>4. ents \in [Keys -> Refs] /\ \A j \in Keys : ents[j] = IF j = k THEN ref ELSE dir.rec.ents[j]
  BY <1>1, <1>3
<1>. HIDE DEF ents, k
<1>5. LET q == WithEntries(dir.rec, ents)
       IN  /\ q \in RecordType /\ q.ents = ents
           /\ q.used = dir.rec.used /\ q.seq = dir.rec.seq /\ q.dir = dir.rec.dir
           /\ q.size = dir.rec.size /\ q.name = dir.rec.name /\ q.parent = dir.rec.parent
  BY <1>1, <1>4, EntriesFields
<1>. HIDE DEF rec
<1>6. LET q == WithEntries(rec, ents)
       IN  /\ q \in RecordType /\ q.ents = ents
           /\ q.used = rec.used /\ q.seq = rec.seq /\ q.dir = rec.dir
           /\ q.size = rec.size /\ q.name = rec.name /\ q.parent = rec.parent
  BY <1>2, <1>4, EntriesFields
<1>7. r.ni = ni /\ r.s = IF dir.inum \in LargeDirs THEN ntfs_mft_record_write(s, w) ELSE s
  <2>. DEFINE new == [dir EXCEPT !.rec.ents[Upcase[name]] = ref]
  <2>1. new = ni
    BY SMT DEF MemInodes, Inode, WithEntries, ents, k
  <2>2. ni.rec.ents = ents
    <3>. ni.rec = WithEntries(dir.rec, ents)
      BY DEF Inode
    <3>. QED
      BY <1>5
  <2>3. [s.disk EXCEPT !.mft[dir.inum].ents = ents] = [s.disk EXCEPT !.mft[w.inum] = w.rec]
    <3>. w.inum = dir.inum /\ w.rec = WithEntries(rec, ents)
      BY DEF Inode
    <3>. HIDE DEF w
    <3>. QED
      BY DEF WithEntries, rec
  <2>. HIDE DEF ni, w
  <2>4. r = Result(IF dir.inum \in LargeDirs
                   THEN Put(s, [s.disk EXCEPT !.mft[dir.inum].ents = new.rec.ents]) ELSE s, new)
    BY DEF SetEntry
  <2>. HIDE DEF new, r
  <2>5. r = Result(IF dir.inum \in LargeDirs
                   THEN Put(s, [s.disk EXCEPT !.mft[dir.inum].ents = ents]) ELSE s, ni)
    BY <2>1, <2>2, <2>4
  <2>. r.ni = ni /\ r.s = IF dir.inum \in LargeDirs
                THEN Put(s, [s.disk EXCEPT !.mft[dir.inum].ents = ents]) ELSE s
    BY <2>5 DEF Result
  <2>. QED
    BY <2>3 DEF ntfs_mft_record_write
<1>8. /\ ni \in MemInodes /\ ni.inum = dir.inum /\ ni.rec = WithEntries(dir.rec, ents)
      /\ w \in MemInodes /\ w.inum = dir.inum /\ w.rec = WithEntries(rec, ents)
  <2>. WithEntries(dir.rec, ents) \in RecordType /\ WithEntries(rec, ents) \in RecordType
    BY <1>5, <1>6
  <2>. QED
    BY <1>1 DEF Inode, MemInodes
<1>. HIDE DEF ni, w, r
<1>9. Alike(ni.rec, w.rec)
  <2>. /\ ni.rec.ents = ents /\ ni.rec.used = dir.rec.used /\ ni.rec.seq = dir.rec.seq
       /\ ni.rec.dir = dir.rec.dir /\ ni.rec.size = dir.rec.size
       /\ ni.rec.name = dir.rec.name /\ ni.rec.parent = dir.rec.parent
       /\ w.rec.ents = ents /\ w.rec.used = rec.used /\ w.rec.seq = rec.seq
       /\ w.rec.dir = rec.dir /\ w.rec.size = rec.size
       /\ w.rec.name = rec.name /\ w.rec.parent = rec.parent
       /\ Alike(dir.rec, rec)
    BY <1>5, <1>8, <1>6 DEF Agrees, rec
  <2>. QED
    BY DEF Alike
<1>10. Writable(s.disk, w)
  <2>1. /\ w.rec.ents = ents /\ w.rec.used = rec.used /\ w.rec.seq = rec.seq
        /\ w.rec.name = rec.name /\ w.rec.parent = rec.parent
    BY <1>6, <1>8
  <2>. dir.rec.ents = rec.ents /\ rec.used
    BY DEF Agrees, Alike, rec
  <2>. ASSUME NEW j \in Keys
       PROVE  \/ ents[j] \in {NoEntry, rec.ents[j]}
              \/ Puttable(s.disk, ents[j])
    BY <1>4
  <2>. QED
    BY <1>8, <2>1 DEF Writable, Puttable, rec
<1>11. Writable(s.disk, ni)
  BY ZenonT(40), <1>8, <1>9, <1>10 DEF Writable, Alike
<1>12. CASE dir.inum \notin LargeDirs
  BY <1>7, <1>8, <1>9, <1>11, <1>12 DEF EntrySet, r, rec, ents, k
<1>13. CASE dir.inum \in LargeDirs
  <2>1. LET t == ntfs_mft_record_write(s, w)
        IN  /\ Good(t) /\ t.paths = s.paths /\ t.inodes = s.inodes
            /\ t.disk = WithRecord(s.disk, w.inum, w.rec) /\ Agrees(t.disk, w)
    BY <1>8, <1>10, RecordWriteGood
  <2>2. /\ Good(r.s) /\ r.s.paths = s.paths /\ r.s.inodes = s.inodes
        /\ r.s.disk = WithRecord(s.disk, dir.inum, w.rec) /\ Agrees(r.s.disk, w)
    BY <1>7, <1>8, <1>13, <2>1
  <2>3. w.rec \in RecordType
    BY <1>8, InodeFields
  <2>4. /\ r.s.disk.bitmap = s.disk.bitmap
        /\ \A j \in Inums : r.s.disk.mft[j] = IF j = dir.inum THEN w.rec ELSE s.disk.mft[j]
    <3>. DEFINE i == dir.inum
                q == w.rec
                d == s.disk
    <3>1. i \in Inums /\ q \in RecordType /\ d \in Disks
      BY <1>1, <1>2, <2>3
    <3>2. r.s.disk = WithRecord(d, i, q)
      BY <2>2
    <3>. HIDE DEF i, q, d
    <3>. Rewritten(WithRecord(d, i, q), d, i, q)
      BY <3>1, Rewriting
    <3>. QED
      BY <3>2 DEF i, q, d, Rewritten
  <2>. Agrees(r.s.disk, ni)
    BY <1>8, <1>9, <2>2 DEF Agrees, Alike
  <2>. /\ Writable(r.s.disk, ni)
       /\ \A j \in Inums \ {dir.inum} : r.s.disk.mft[j] = s.disk.mft[j]
    BY AgreesWritable, <2>4
  <2>. QED
    BY <1>7, <1>8, <1>9, <2>2, <2>4 DEF EntrySet, r, rec, ents, k
<1>. QED
  BY <1>12, <1>13

-----------------------------------------------------------------------------
(* Taking and freeing a record.                                            *)

WithBitmap(d, b) == [d EXCEPT !.bitmap = b]

\* The fields of a disk with another bitmap.
LEMMA BitmapFields ==
    ASSUME NEW d \in Disks, NEW b \in SUBSET Records
    PROVE  /\ WithBitmap(d, b) \in Disks
           /\ WithBitmap(d, b).mft = d.mft /\ WithBitmap(d, b).bitmap = b
  BY Zenon DEF WithBitmap, Disks

\* ntfs_mft_record_free of a record that is not cached.
LEMMA FreeGood ==
    ASSUME NEW s, Good(s), NEW i \in Records, NotCached(s, i), s.disk.mft[i].seq < MaxSeq
    PROVE  LET t == ntfs_mft_record_free(s, i)
           IN  /\ Good(t) /\ t.paths = s.paths /\ t.inodes = s.inodes
               /\ t.disk.bitmap = s.disk.bitmap \ {i}
               /\ \A j \in Inums : t.disk.mft[j] = IF j = i THEN Unused(s.disk.mft[i].seq + 1)
                                                   ELSE s.disk.mft[j]
\* A record that was freed with the next sequence number: no entry is of its
\* age, so that its bit may be set or not.
<1>FreedSound. ASSUME NEW d \in Disks, Sound(d), NEW i0 \in Records, NEW c \in Disks,
                      c.bitmap \in {d.bitmap, d.bitmap \ {i0}},
                      NEW r \in RecordType, ~ r.used, r.seq = d.mft[i0].seq + 1, r.ents = NoEntries,
                      \A j \in Inums : c.mft[j] = IF j = i0 THEN r ELSE d.mft[j]
               PROVE  Sound(c)
  <2>. USE Zenon, <1>FreedSound
  <2>1. Records \subseteq Inums /\ d.mft \in [Inums -> RecordType]
    BY DEF Inums, Disks
  <2>2. c.mft[i0] = r /\ \A j \in Inums \ {i0} : c.mft[j] = d.mft[j]
    BY <2>1
  <2>3. \A j \in Records \ {i0} : j \in d.bitmap => j \in c.bitmap
    OBVIOUS
  <2>4. /\ Covered(c)
        /\ Above(c)
    BY <2>1, <2>2, <2>3 DEF Sound, Covered, Above
  <2>. ASSUME NEW p \in Inums, NEW k \in Keys PROVE EntryTold(c, p, k, c.mft[p].ents[k])
    <3>. DEFINE ref == c.mft[p].ents[k]
    <3>1. CASE p = i0
      BY <2>2, <3>1, NoEntryFacts DEF EntryTold
    <3>2. CASE p # i0
      <4>1. ref = d.mft[p].ents[k]
        BY <2>2, <3>2
      <4>2. EntryTold(d, p, k, ref)
        BY <4>1 DEF Sound, Told
      <4>. HIDE DEF ref
      <4>3. CASE ref # NoEntry /\ ref.inum = i0
        <5>1. ref.seq <= d.mft[i0].seq
          BY <4>2, <4>3 DEF EntryTold
        <5>2. ref.seq \in Int /\ d.mft[i0].seq \in Int
          <6>1. d.mft[p] \in RecordType /\ d.mft[i0] \in RecordType
            BY <2>1
          <6>. ref \in Refs /\ d.mft[i0].seq \in 1 .. MaxSeq
            BY <4>1, <6>1, RecordFields
          <6>. QED
            BY SMT, Bounds DEF Refs
        <5>. ref.seq <= r.seq /\ ref.seq # r.seq
          BY SMT, <5>1, <5>2
        <5>. QED
          BY <2>2, <4>3 DEF EntryTold, ref
      <4>4. CASE ref # NoEntry /\ ref.inum # i0
        <5>1. ref.inum \in Records
          BY <4>2, <4>4 DEF EntryTold
        <5>. /\ c.mft[ref.inum] = d.mft[ref.inum]
             /\ ref.inum \in d.bitmap => ref.inum \in c.bitmap
          BY <2>1, <2>2, <2>3, <4>4, <5>1
        <5>. QED
          BY <4>2 DEF EntryTold, ref
      <4>5. CASE ref = NoEntry
        BY <4>5 DEF EntryTold, ref
      <4>. QED
        BY <4>3, <4>4, <4>5
    <3>. QED
      BY <3>1, <3>2
  <2>. QED
    BY <2>4 DEF Sound, Told
<1>. USE Zenon
<1>. DEFINE d == s.disk
            r == Unused(d.mft[i].seq + 1)
            c == WithRecord(d, i, r)
            b == d.bitmap \ {i}
            e == WithBitmap(c, b)
            u == Put(s, c)
            t == ntfs_mft_record_free(s, i)
<1>1. /\ s \in Sessions /\ d \in Disks /\ Sound(d) /\ load.size \in Nat
      /\ Range(s.inodes) \subseteq MemInodes /\ d.mft \in [Inums -> RecordType]
      /\ d.bitmap \subseteq Records
      /\ \A x \in Range(s.inodes) : Agrees(d, x)
  BY GoodFields
<1>2. i \in Inums /\ d.mft[i] \in RecordType
  <2>. i \in Inums
    BY DEF Inums
  <2>. QED
    BY <1>1
<1>3. d.mft[i].seq + 1 \in 1 .. MaxSeq
  <2>. d.mft[i].seq \in 1 .. MaxSeq
    BY <1>2, RecordFields
  <2>. QED
    BY SMT, Bounds
<1>4. r \in RecordType /\ ~ r.used /\ r.seq = d.mft[i].seq + 1 /\ r.ents = NoEntries
  BY <1>1, <1>3, UnusedFacts
<1>5. t = Put(u, [u.disk EXCEPT !.bitmap = @ \ {i}])
  BY DEF ntfs_mft_record_free, WithRecord
<1>. HIDE DEF r, d
<1>6. /\ c \in Disks /\ c.bitmap = d.bitmap
      /\ \A j \in Inums : c.mft[j] = IF j = i THEN r ELSE d.mft[j]
  <2>1. i \in Inums /\ r \in RecordType /\ d \in Disks
    BY <1>1, <1>2, <1>4
  <2>. Rewritten(c, d, i, r)
    BY <2>1, Rewriting
  <2>. QED
    BY DEF Rewritten
<1>. HIDE DEF c
<1>7. b \in SUBSET Records
  BY <1>1
<1>8. e \in Disks /\ e.mft = c.mft /\ e.bitmap = b
  BY <1>6, <1>7, BitmapFields
<1>9. Sound(c)
  <2>. c.bitmap \in {d.bitmap, d.bitmap \ {i}}
    BY <1>6
  <2>. QED
    BY <1>1, <1>4, <1>6, <1>FreedSound
<1>. HIDE DEF e
<1>10. Sound(e)
  <2>. /\ e.bitmap \in {d.bitmap, d.bitmap \ {i}}
       /\ \A j \in Inums : e.mft[j] = IF j = i THEN r ELSE d.mft[j]
    BY <1>8, <1>6
  <2>. QED
    BY <1>1, <1>4, <1>8, <1>FreedSound
<1>11. ASSUME NEW x \in Range(s.inodes) PROVE Agrees(c, x) /\ Agrees(e, x)
  <2>. x.inum \in Inums /\ x.inum # i /\ Agrees(d, x)
    BY <1>1, InodeFields DEF NotCached
  <2>. c.mft[x.inum] = d.mft[x.inum] /\ e.mft[x.inum] = d.mft[x.inum]
    BY <1>6, <1>8
  <2>. QED
    BY DEF Agrees
<1>12. /\ Good(u) /\ u \in Sessions /\ u.disk = c /\ u.paths = s.paths /\ u.inodes = s.inodes
  BY <1>1, <1>6, <1>9, <1>11, PutGood, PutFields
<1>. HIDE DEF u
<1>13. t = Put(u, e)
  BY <1>5, <1>6, <1>12 DEF e, WithBitmap
<1>. HIDE DEF t
<1>. /\ Good(t) /\ t.disk = e /\ t.paths = s.paths /\ t.inodes = s.inodes
  BY <1>8, <1>10, <1>11, <1>12, <1>13, PutGood, PutFields
<1>. /\ t.disk.bitmap = d.bitmap \ {i}
     /\ \A j \in Inums : t.disk.mft[j] = IF j = i THEN r ELSE d.mft[j]
  BY <1>6, <1>8
<1>. QED
  BY DEF t, r, d

\* A record is taken: its bit is set on the disk.
Alloc(s, i) ==
    Put([s EXCEPT !.inodes = Without(@, InodeEntry(s, i))],
        [s.disk EXCEPT !.bitmap = @ \cup {i}])

\* Then no inode of it is in the cache, and nothing else has changed.
LEMMA AllocGood ==
    ASSUME NEW s, Good(s), NEW i \in Records
    PROVE  LET t == Alloc(s, i)
           IN  /\ Good(t) /\ t.paths = s.paths /\ Range(t.inodes) \subseteq Range(s.inodes)
               /\ NotCached(t, i)
               /\ t.disk.mft = s.disk.mft /\ t.disk.bitmap = s.disk.bitmap \cup {i}
\* The inode cache forgets an inode.
<1>ForgetGood. ASSUME NEW s0, Good(s0), NEW i0
               PROVE  LET t == SetInodes(s0, Without(s0.inodes, InodeEntry(s0, i0)))
                      IN  /\ Quiet(s0, t) /\ t.paths = s0.paths
                          /\ Range(t.inodes) \subseteq Range(s0.inodes) /\ NotCached(t, i0)
  <2>. USE Zenon, <1>ForgetGood
  <2>. DEFINE l == Without(s0.inodes, InodeEntry(s0, i0))
              t == SetInodes(s0, l)
  <2>. InodesKeyed(l) /\ Range(l) \subseteq Range(s0.inodes) \ InodeEntry(s0, i0)
    <3>. InodeCacheSize \in Nat /\ InodesKeyed(s0.inodes)
      BY Bounds DEF Good
    <3>. QED
      BY WithoutKeyed DEF InodesKeyed
  <2>. HIDE DEF l
  <2>2. \A e \in Range(l) : Agrees(s0.disk, e)
    BY GoodFields
  <2>. /\ Good(t) /\ t.disk = s0.disk /\ t.cuts = s0.cuts /\ t.paths = s0.paths
       /\ t.inodes = l
    BY <2>2, SetInodesGood
  <2>. HIDE DEF t
  <2>. NotCached(t, i0)
    BY DEF NotCached, InodeEntry
  <2>. QED
    BY DEF Quiet, t, l
\* Another bit of the bitmap may be set.
<1>GrownSound. ASSUME NEW d, Sound(d), NEW c, c.mft = d.mft, d.bitmap \subseteq c.bitmap
               PROVE  Sound(c)
  <2>. USE Zenon, <1>GrownSound
  <2>1. Covered(c) /\ Above(c)
    BY DEF Sound, Covered, Above
  <2>. ASSUME NEW p \in Inums, NEW k \in Keys PROVE EntryTold(c, p, k, c.mft[p].ents[k])
    <3>. EntryTold(d, p, k, d.mft[p].ents[k])
      BY DEF Sound, Told
    <3>. QED
      BY DEF EntryTold
  <2>. QED
    BY <2>1 DEF Sound, Told
<1>. USE Zenon
<1>. DEFINE l == Without(s.inodes, InodeEntry(s, i))
            u == SetInodes(s, l)
            b == s.disk.bitmap \cup {i}
            d == WithBitmap(s.disk, b)
            t == Alloc(s, i)
<1>1. /\ Quiet(s, u) /\ u.paths = s.paths
      /\ Range(u.inodes) \subseteq Range(s.inodes) /\ NotCached(u, i)
  BY <1>ForgetGood
<1>2. t = Put(u, d)
  BY DEF Alloc, SetInodes, WithBitmap
<1>. HIDE DEF u, t
<1>3. s.disk \in Disks /\ s.disk.bitmap \subseteq Records /\ Sound(s.disk)
  BY GoodFields
<1>4. b \in SUBSET Records /\ s.disk.bitmap \subseteq b
  BY <1>3
<1>5. d \in Disks /\ d.mft = s.disk.mft /\ d.bitmap = b
  BY <1>3, <1>4, BitmapFields
<1>. HIDE DEF d
<1>6. Sound(d)
  BY <1>3, <1>4, <1>5, <1>GrownSound
<1>7. Good(u) /\ u.disk = s.disk
  BY <1>1 DEF Quiet
<1>8. u \in Sessions /\ \A e \in Range(u.inodes) : Agrees(s.disk, e)
  BY <1>7, GoodFields
<1>9. \A e \in Range(u.inodes) : Agrees(d, e)
  BY <1>5, <1>8 DEF Agrees
<1>. /\ Good(t)
     /\ t.disk = d /\ t.paths = u.paths /\ t.inodes = u.inodes
  BY <1>2, <1>5, <1>6, <1>7, <1>9, PutGood, <1>8, PutFields
<1>. QED
  BY <1>1, <1>5 DEF NotCached, t

\* Disk c is disk d with record i taken, and entry k of directory p for it.
Taken(d, c, p, i, k) ==
    /\ c.bitmap = d.bitmap \cup {i}
    /\ \A j \in Inums \ {p} : c.mft[j] = d.mft[j]
    /\ Alike(c.mft[p], WithEntries(d.mft[p],
                           [d.mft[p].ents EXCEPT ![k] = Ref(i, d.mft[i].seq)]))

\* ntfs_create that adds the entry, and the close of the directory.
Enters(s, dir, i, name, added) ==
    LET t == ntfs_inode_close(added.s, added.ni, dir.inum \notin LargeDirs)
    IN  /\ Good(t) /\ t.paths = s.paths /\ NotCached(t, i)
        /\ Taken(s.disk, t.disk, dir.inum, i, Upcase[name])

\* A new inode of a record that was taken.
NewInode(new, d, p, i, k) ==
    /\ new \in MemInodes /\ new.inum = i
    /\ new.rec.used /\ new.rec.seq = d.mft[i].seq /\ new.rec.ents = NoEntries
    /\ new.rec.parent.inum = p /\ Upcase[new.rec.name] = k

\* The inode of a new file is closed.
NewClosed(s, i, new) ==
    LET t == ntfs_inode_close(s, new, TRUE)
    IN  Good(t) /\ t.paths = s.paths /\ t.disk = WithRecord(s.disk, i, new.rec)

-----------------------------------------------------------------------------
(* Deleting a file.                                                        *)

\* Disk c is disk d without the file i, which was entry k of directory p.
Removed(d, c, p, i, k) ==
    /\ c.bitmap = d.bitmap \ {i}
    /\ Alike(c.mft[i], Unused(d.mft[i].seq + 1))
    /\ \A j \in Inums \ {p, i} : Alike(c.mft[j], d.mft[j])
    /\ Alike(c.mft[p], WithEntries(d.mft[p], [d.mft[p].ents EXCEPT ![k] = NoEntry]))

-----------------------------------------------------------------------------
(* Finding a file by its path.                                             *)

\* Paths are the short sequences of names.
LEMMA PathFacts ==
    \A p : p \in Paths <=> p \in Seq(Names \cup {Dot}) /\ Len(p) <= MaxDepth
<1>1. MaxDepth \in Nat
  BY Zenon, Bounds
<1>. DEFINE S == Names \cup {Dot}
<1>2. ASSUME NEW p, NEW n \in 0 .. MaxDepth, p \in [1 .. n -> S]
      PROVE  p \in Seq(S) /\ Len(p) <= MaxDepth
  BY <1>1, <1>2
<1>3. ASSUME NEW p \in Seq(S), Len(p) <= MaxDepth
      PROVE  Len(p) \in 0 .. MaxDepth /\ p \in [1 .. Len(p) -> S]
  BY <1>1, <1>3
<1>. \A p : p \in Paths <=> \E n \in 0 .. MaxDepth : p \in [1 .. n -> S]
  BY Zenon DEF Paths
<1>. QED
  BY Zenon, <1>2, <1>3

Results == [s : Sessions, ni : MemInodes]

\* A result of a walk from session s: nothing was written, and the inode is
\* open if it is not NULL.
Reached(s, x) ==
    /\ x \in Results /\ Quiet(s, x.s)
    /\ IsNull(x.ni) \/ (Agrees(s.disk, x.ni) /\ NotCached(x.s, x.ni.inum))

\* What Step finds at component k.
Found(path, at, k) ==
    LET cached == PathEntry(at.s, SubSeq(path, 1, k))
    IN  IF cached # {} THEN {e.inum : e \in cached}
        ELSE ntfs_inode_lookup_by_name(at.ni, path[k])

\* A path that is in the cache becomes the most recent one.
Hits(s, e, t) ==
    /\ Quiet(s, t) /\ t.inodes = s.inodes /\ Range(t.paths) \subseteq Range(s.paths)
    /\ e \in PathEntries

\* So does a fetch from the path cache.
LEMMA HitGood ==
    ASSUME NEW s, Good(s), NEW e \in Range(s.paths)
    PROVE  Hits(s, e, SetPaths(s, <<e>> \o Without(s.paths, {e})))
<1>. USE Zenon
<1>. DEFINE l == <<e>> \o Without(s.paths, {e})
<1>1. PathCacheSize \in Nat /\ PathsKeyed(s.paths) /\ Range(s.paths) \subseteq PathEntries
  BY Bounds, GoodFields DEF Good
<1>. PathsKeyed(l) /\ Range(l) \subseteq Range(s.paths)
  BY <1>1, MovedKeyed DEF PathsKeyed
<1>. HIDE DEF l
<1>. LET t == SetPaths(s, l)
     IN  /\ Good(t) /\ t.disk = s.disk /\ t.cuts = s.cuts /\ t.paths = l
         /\ t.inodes = s.inodes
  BY SetPathsGood
<1>. QED
  BY <1>1 DEF Quiet, Hits, l

\* One component of a walk, from at to r.
Steps(s, path, k, at, r) ==
    LET found == Found(path, at, k)
        prefix == SubSeq(path, 1, k)
    IN  /\ Reached(s, r)
        /\ IsNull(at.ni) => r = at
        /\ ~ IsNull(at.ni) /\ found = {} =>
              IsNull(r.ni) /\ Range(r.s.paths) \subseteq Range(at.s.paths)
        /\ ~ IsNull(at.ni) /\ found # {} =>
              \E i \in found \cap Inums :
                  /\ s.disk.mft[i].used => ~ IsNull(r.ni) /\ r.ni.inum = i
                  /\ Range(r.s.paths)
                         \subseteq Range(at.s.paths) \cup {[path |-> prefix, inum |-> i]}

\* So does each turn of the loop of ntfs_pathname_to_inode.
LEMMA StepGood ==
    ASSUME NEW s, NEW path \in Paths, NEW k \in 1 .. Len(path), NEW at, Reached(s, at)
    PROVE  Steps(s, path, k, at, Step(path, at, k))
\* A path that is not in the cache is entered.
<1>MissGood. ASSUME NEW s0, Good(s0), NEW path0 \in Paths, PathEntry(s0, path0) = {}, NEW i \in Inums
             PROVE  LET e == [path |-> path0, inum |-> i]
                        t == SetPaths(s0, Entered(s0.paths, PathCacheSize, e))
                    IN  /\ Quiet(s0, t) /\ t.inodes = s0.inodes
                        /\ Range(t.paths) \subseteq Range(s0.paths) \cup {e}
  <2>. USE Zenon, <1>MissGood
  <2>. DEFINE e == [path |-> path0, inum |-> i]
              l == Entered(s0.paths, PathCacheSize, e)
  <2>1. PathCacheSize \in Nat \ {0} /\ PathsKeyed(s0.paths) /\ Range(s0.paths) \subseteq PathEntries
    BY Bounds, GoodFields DEF Good
  <2>2. e \in PathEntries /\ e.path = path0
    BY DEF PathEntries
  <2>. HIDE DEF e
  <2>3. ASSUME NEW x \in Range(s0.paths) PROVE PathKey[x] # PathKey[e]
    <3>. x \in PathEntries /\ x.path # path0
      BY <2>1 DEF PathEntry
    <3>. QED
      BY <2>2 DEF PathKey
  <2>. PathsKeyed(l) /\ Range(l) \subseteq Range(s0.paths) \cup {e}
    BY <2>1, <2>2, <2>3, EnteredKeyed DEF PathsKeyed
  <2>. HIDE DEF l
  <2>. LET t == SetPaths(s0, l)
       IN  /\ Good(t) /\ t.disk = s0.disk /\ t.cuts = s0.cuts /\ t.paths = l
           /\ t.inodes = s0.inodes
    BY SetPathsGood
  <2>. QED
    BY DEF Quiet, l, e
\* A prefix of a path.
<1>PrefixPath. ASSUME NEW p \in Paths, NEW k0 \in 0 .. Len(p)
               PROVE  /\ SubSeq(p, 1, k0) \in Paths /\ Len(SubSeq(p, 1, k0)) = k0
                      /\ \A j \in 1 .. k0 : SubSeq(p, 1, k0)[j] = p[j]
  <2>. USE <1>PrefixPath
  <2>1. p \in Seq(Names \cup {Dot}) /\ Len(p) <= MaxDepth /\ MaxDepth \in Nat /\ Len(p) \in Nat
    BY PathFacts, Bounds
  <2>. /\ SubSeq(p, 1, k0) \in Seq(Names \cup {Dot}) /\ Len(SubSeq(p, 1, k0)) = k0
       /\ \A j \in 1 .. k0 : SubSeq(p, 1, k0)[j] = p[j]
       /\ k0 <= MaxDepth
    BY <2>1
  <2>. QED
    BY Zenon, PathFacts
<1>. USE Zenon
<1>. DEFINE r == Step(path, at, k)
            found == Found(path, at, k)
            prefix == SubSeq(path, 1, k)
            cached == PathEntry(at.s, prefix)
            i == CHOOSE x \in found : TRUE
            s1 == [at.s EXCEPT !.paths =
                      IF cached # {}
                      THEN LET e == CHOOSE e \in cached : TRUE
                           IN  <<e>> \o Without(@, {e})
                      ELSE IF found = {} THEN @
                      ELSE Entered(@, PathCacheSize, [path |-> prefix, inum |-> i])]
            s2 == ntfs_inode_close(s1, at.ni, FALSE)
<1>1. r = IF IsNull(at.ni) THEN at
          ELSE IF found = {} THEN Result(s2, NullInode) ELSE ntfs_inode_open(s2, i, 0)
  BY DEF Step, Found
<1>2. CASE IsNull(at.ni)
  BY <1>1, <1>2 DEF Steps
<1>3. CASE ~ IsNull(at.ni)
  <2>1. /\ at \in Results /\ Good(at.s) /\ at.s.disk = s.disk /\ at.s.cuts = s.cuts
        /\ Agrees(s.disk, at.ni) /\ NotCached(at.s, at.ni.inum)
    BY <1>3 DEF Reached, Quiet
  <2>2. at.ni \in MemInodes /\ at.s \in Sessions
    BY <2>1 DEF Results
  <2>3. prefix \in Paths /\ path[k] \in Names \cup {Dot}
    <3>. k \in 0 .. Len(path) /\ path \in Seq(Names \cup {Dot})
      BY SMT, PathFacts
    <3>. path[k] \in Names \cup {Dot}
      BY SMT
    <3>. QED
      BY <1>PrefixPath
  <2>4. found \subseteq Inums
    <3>1. /\ Range(at.s.paths) \subseteq PathEntries
          /\ \A e \in PathEntries : e.inum \in Inums
      BY <2>1, GoodFields DEF PathEntries
    <3>. /\ {e.inum : e \in cached} \subseteq Inums
         /\ ntfs_inode_lookup_by_name(at.ni, path[k]) \subseteq Inums
      BY <3>1, <2>2, <2>3, LookupInums DEF PathEntry
    <3>. QED
      BY DEF Found
  <2>. DEFINE new == [path |-> prefix, inum |-> i]
  <2>5. /\ Quiet(at.s, s1) /\ s1.inodes = at.s.inodes
        /\ Range(s1.paths) \subseteq Range(at.s.paths) \cup {new}
        /\ found = {} => Range(s1.paths) \subseteq Range(at.s.paths)
    <3>1. CASE cached # {}
      <4>. DEFINE e == CHOOSE e \in cached : TRUE
      <4>1. e \in Range(at.s.paths)
        BY <3>1 DEF PathEntry
      <4>2. s1 = SetPaths(at.s, <<e>> \o Without(at.s.paths, {e}))
        BY <3>1 DEF SetPaths
      <4>. HIDE DEF s1, e
      <4>. Hits(at.s, e, SetPaths(at.s, <<e>> \o Without(at.s.paths, {e})))
        BY <2>1, <4>1, HitGood
      <4>. QED
        BY <4>2 DEF Hits
    <3>2. CASE cached = {} /\ found = {}
      <4>1. s1 = [at.s EXCEPT !.paths = @]
        BY <3>2
      <4>. s1 = at.s
        BY <2>2, <4>1 DEF Sessions
      <4>. HIDE DEF s1
      <4>. QED
        BY <2>1 DEF Quiet
    <3>3. CASE cached = {} /\ found # {}
      <4>1. s1 = SetPaths(at.s, Entered(at.s.paths, PathCacheSize, new))
        BY <3>3 DEF SetPaths
      <4>2. i \in Inums
        BY <2>4, <3>3
      <4>. HIDE DEF s1, i, prefix, found
      <4>. LET t == SetPaths(at.s, Entered(at.s.paths, PathCacheSize, new))
           IN  /\ Quiet(at.s, t) /\ t.inodes = at.s.inodes
               /\ Range(t.paths) \subseteq Range(at.s.paths) \cup {new}
        BY <2>1, <2>3, <3>3, <4>2, <1>MissGood
      <4>. QED
        BY <3>3, <4>1
    <3>. QED
      BY <3>1, <3>2, <3>3
  <2>. HIDE DEF s1
  <2>6. /\ Quiet(s1, s2) /\ s2.paths = s1.paths
    <3>1. s2 = CacheInode(s1, at.ni)
      BY DEF ntfs_inode_close
    <3>2. Good(s1) /\ Agrees(s1.disk, at.ni)
      BY <2>1, <2>5 DEF Quiet
    <3>. HIDE DEF s2
    <3>. Closes(s1, at.ni, CacheInode(s1, at.ni))
      BY <2>2, <3>2, CloseGood
    <3>. QED
      BY <3>1 DEF Closes
  <2>. HIDE DEF s2
  <2>7. Quiet(s, s2) /\ Good(s2) /\ s2.disk = s.disk /\ s2 \in Sessions
    BY <2>1, <2>5, <2>6, GoodFields DEF Quiet
  <2>8. CASE found = {}
    <3>1. r = Result(s2, NullInode)
      BY <1>1, <1>3, <2>8
    <3>. HIDE DEF r
    <3>2. r.s = s2 /\ r.ni = NullInode
      BY <3>1 DEF Result
    <3>. NullInode \in MemInodes /\ IsNull(NullInode)
      BY <2>7, GoodFields, NullFacts
    <3>. r \in Results
      BY <2>7, <3>1 DEF Result, Results
    <3>. QED
      BY <1>3, <2>5, <2>6, <2>7, <2>8, <3>2 DEF Reached, r, Steps
  <2>9. CASE found # {}
    <3>1. r = ntfs_inode_open(s2, i, 0)
      BY <1>1, <1>3, <2>9
    <3>2. i \in found /\ i \in Inums
      BY <2>4, <2>9
    <3>. HIDE DEF r, i, found
    <3>3. LET o == ntfs_inode_open(s2, i, 0)
          IN  /\ Opened(s2, o, i)
              /\ s2.disk.mft[i].used /\ 0 \in {0, s2.disk.mft[i].seq} => ~ IsNull(o.ni)
      BY <2>7, <3>2, OpenGood
    <3>4. Opened(s2, r, i) /\ (s.disk.mft[i].used => ~ IsNull(r.ni))
      BY <2>7, <3>1, <3>3
    <3>5. /\ Quiet(s, r.s) /\ r.s.paths = s2.paths /\ r.ni \in MemInodes
          /\ IsNull(r.ni) \/ (r.ni.inum = i /\ Agrees(s.disk, r.ni) /\ NotCached(r.s, r.ni.inum))
      BY <2>7, <3>4 DEF Opened, Quiet
    <3>6. r \in Results
      <4>. /\ r = [s |-> r.s, ni |-> r.ni]
           /\ r.s \in Sessions
        BY <3>1, <3>5, GoodFields DEF ntfs_inode_open, Result, Quiet
      <4>. QED
        BY <3>5 DEF Results
    <3>. /\ Reached(s, r)
         /\ i \in found \cap Inums
         /\ s.disk.mft[i].used => ~ IsNull(r.ni) /\ r.ni.inum = i
         /\ Range(r.s.paths) \subseteq Range(at.s.paths) \cup {[path |-> prefix, inum |-> i]}
      BY <3>5, <3>6, <2>5, <2>6, <3>2, <3>4 DEF Reached
    <3>. QED
      BY <1>3, <2>9 DEF r, found, Steps
  <2>. QED
    BY <2>8, <2>9
<1>. QED
  BY <1>2, <1>3

\* Opening an inode is a walk.
Reaches(s, u, i, q, r) ==
    /\ Reached(s, r) /\ r.s.paths = u.paths /\ Range(r.s.inodes) \subseteq Range(u.inodes)
    /\ ~ IsNull(r.ni) => r.ni.inum = i
    /\ s.disk.mft[i].used /\ q \in {0, s.disk.mft[i].seq} => ~ IsNull(r.ni)

\* So does ntfs_inode_open, at any time during a walk.
LEMMA OpenReached ==
    ASSUME NEW s, NEW u, Quiet(s, u), NEW i \in Inums, NEW q
    PROVE  Reaches(s, u, i, q, ntfs_inode_open(u, i, q))
<1>. USE Zenon
<1>. DEFINE r == ntfs_inode_open(u, i, q)
<1>1. Good(u) /\ u.disk = s.disk /\ u.cuts = s.cuts
  BY DEF Quiet
<1>2. /\ Opened(u, r, i)
      /\ u.disk.mft[i].used /\ q \in {0, u.disk.mft[i].seq} => ~ IsNull(r.ni)
  BY <1>1, OpenGood
<1>3. r = [s |-> r.s, ni |-> r.ni]
  BY DEF ntfs_inode_open, Result
<1>. HIDE DEF r
<1>. /\ Quiet(s, r.s) /\ r.s.paths = u.paths /\ r.ni \in MemInodes
     /\ Range(r.s.inodes) \subseteq Range(u.inodes)
     /\ IsNull(r.ni) \/ (r.ni.inum = i /\ Agrees(s.disk, r.ni) /\ NotCached(r.s, r.ni.inum))
  BY <1>1, <1>2 DEF Opened, Quiet
<1>5. r \in Results
  <2>. r.s \in Sessions
    BY GoodFields DEF Quiet
  <2>. QED
    BY <1>3 DEF Results
<1>. Reached(s, r)
  BY <1>5 DEF Reached
<1>. QED
  BY <1>1, <1>2 DEF Reaches, r

\* The walk along a path, component by component.
Walked(s, path, at) ==
    /\ at[0] = ntfs_inode_open(s, Root, 0)
    /\ \A k \in 1 .. Len(path) : at[k] = Step(path, at[k - 1], k)
    /\ \A k \in 0 .. Len(path) : Reached(s, at[k])

\* So goes ntfs_pathname_to_inode for a path that is not in the cache.
LEMMA Walking ==
    ASSUME NEW s, Good(s), NEW path \in Paths, PathEntry(s, path) = {}
    PROVE  \E at : Walked(s, path, at) /\ ntfs_pathname_to_inode(s, path) = at[Len(path)]
<1>. USE Zenon
<1>. DEFINE N == Len(path)
            base == ntfs_inode_open(s, Root, 0)
            F(f) == [k \in 0 .. N |-> IF k = 0 THEN base ELSE Step(path, f[k - 1], k)]
            S == {x \in Results : Reached(s, x)}
            step == [k \in 1 .. N |-> [x \in S |-> Step(path, x, k)]]
<1>1. N \in Nat
  BY SMT, PathFacts
<1>2. base \in S
  <2>1. Quiet(s, s) /\ Root \in Inums
    BY NoEntryFacts DEF Quiet
  <2>. Reaches(s, s, Root, 0, base)
    BY <2>1, OpenReached
  <2>. QED
    BY DEF Reached, Reaches
<1>3. ASSUME NEW k \in 1 .. N, NEW x \in S PROVE Step(path, x, k) \in S
  <2>1. Reached(s, x)
    OBVIOUS
  <2>. Reached(s, Step(path, x, k))
    BY <2>1, StepGood DEF Steps
  <2>. QED
    BY DEF Reached
<1>4. /\ step \in [1 .. N -> [S -> S]]
      /\ \A k \in 1 .. N, x \in S : step[k][x] = Step(path, x, k)
  BY <1>3
<1>5. \A x \in S : Reached(s, x)
  OBVIOUS
<1>. DEFINE at == CHOOSE f : f = F(f)
<1>6. ntfs_pathname_to_inode(s, path) = at[N]
  BY DEF ntfs_pathname_to_inode
<1>. HIDE DEF N, S, step, base
<1>7. PICK f \in [0 .. N -> S] : Iterates(f, N, base, step)
  BY <1>1, <1>2, <1>4, Iteration
<1>8. f = F(f)
  <2>1. ASSUME NEW n \in 0 .. N, n # 0 PROVE n \in 1 .. N /\ f[n - 1] \in S
    BY SMT, <1>1, <2>1
  <2>. QED
    BY <1>4, <1>7, <2>1 DEF Iterates
<1>9. at = F(at)
  BY <1>8
<1>. HIDE DEF at
<1>10. at[0] = base
  <2>. 0 \in 0 .. N
    BY SMT, <1>1
  <2>. QED
    BY <1>9
<1>11. ASSUME NEW k \in 1 .. N PROVE at[k] = Step(path, at[k - 1], k)
  <2>. k \in 0 .. N /\ k # 0
    BY SMT, <1>1
  <2>. QED
    BY <1>9
<1>. \A k \in 0 .. N : at[k] \in S
  <2>. DEFINE T == {k \in 0 .. N : at[k] \in S}
  <2>1. 0 \in T
    BY SMT, <1>1, <1>2, <1>10
  <2>2. ASSUME NEW k \in 1 .. N, k - 1 \in T PROVE k \in T
    <3>. at[k - 1] \in S /\ k \in 0 .. N
      BY SMT, <1>1, <2>2
    <3>. QED
      BY <1>3, <1>11
  <2>. HIDE DEF T
  <2>. 0 .. N \subseteq T
    BY <1>1, <2>1, <2>2, UpTo
  <2>. QED
    BY DEF T
<1>. QED
  BY <1>5, <1>6, <1>10, <1>11 DEF Walked, N, base

\* ntfs_pathname_to_inode writes nothing, and what it returns is open.
LEMMA PathnameGood ==
    ASSUME NEW s, Good(s), NEW path \in Paths
    PROVE  Reached(s, ntfs_pathname_to_inode(s, path))
<1>. USE Zenon
<1>1. CASE PathEntry(s, path) = {}
  <2>1. PICK at : Walked(s, path, at) /\ ntfs_pathname_to_inode(s, path) = at[Len(path)]
    BY <1>1, Walking
  <2>. Len(path) \in 0 .. Len(path)
    BY SMT, PathFacts
  <2>. QED
    BY <2>1 DEF Walked
<1>2. CASE PathEntry(s, path) # {}
  <2>. DEFINE e == CHOOSE e \in PathEntry(s, path) : TRUE
              u == SetPaths(s, <<e>> \o Without(s.paths, {e}))
  <2>1. ntfs_pathname_to_inode(s, path) = ntfs_inode_open(u, e.inum, 0)
    BY <1>2 DEF ntfs_pathname_to_inode, SetPaths
  <2>2. e \in Range(s.paths)
    BY <1>2 DEF PathEntry
  <2>. HIDE DEF e
  <2>3. Quiet(s, u) /\ e \in PathEntries
    <3>. Hits(s, e, u)
      BY <2>2, HitGood
    <3>. QED
      BY DEF Hits
  <2>4. e.inum \in Inums
    BY <2>3 DEF PathEntries
  <2>. HIDE DEF u
  <2>. Reaches(s, u, e.inum, 0, ntfs_inode_open(u, e.inum, 0))
    BY <2>3, <2>4, OpenReached
  <2>. QED
    BY <2>1 DEF Reaches
<1>. QED
  BY <1>1, <1>2

-----------------------------------------------------------------------------
(* Finding the path of an inode, and the entries of a directory.           *)

Climbers == [s : Sessions, ni : MemInodes, path : Seq(Names \cup {Dot})]

\* On the way up from session s: nothing was written, and the ancestor is what
\* the disk has.
Risen(s, x) ==
    /\ x \in Climbers /\ Quiet(s, x.s) /\ x.s.paths = s.paths
    /\ IsNull(x.ni) \/ Agrees(s.disk, x.ni)

\* One step up, from at to r.
Rises(s, at, r) ==
    LET ref == at.ni.rec.parent
    IN  /\ Risen(s, r)
        /\ IsNull(at.ni) => r = at
        /\ ~ IsNull(at.ni) =>
              /\ r.path = Prepended(at.ni, at.path)
              /\ ref.inum = Root => IsNull(r.ni)
              /\ ref.inum # Root =>
                    /\ ~ IsNull(r.ni) => r.ni.inum = ref.inum
                    /\ s.disk.mft[ref.inum].used /\ ref.seq = s.disk.mft[ref.inum].seq
                       => ~ IsNull(r.ni)

\* So does each turn of the loop of utils_inode_get_name.
LEMMA UpGood ==
    ASSUME NEW s, NEW k \in Nat, NEW at, Risen(s, at)
    PROVE  Rises(s, at, Up(at, k))
<1>. USE Zenon
<1>. DEFINE r == Up(at, k)
            ref == at.ni.rec.parent
            s1 == IF k > 1 THEN ntfs_inode_close(at.s, at.ni, FALSE) ELSE at.s
            up == OpenRef(s1, ref)
            path == Prepended(at.ni, at.path)
<1>1. r = IF IsNull(at.ni) THEN at
          ELSE IF ref.inum = Root THEN [s |-> s1, ni |-> NullInode, path |-> path]
          ELSE [s |-> up.s, ni |-> up.ni, path |-> path]
  BY DEF Up
<1>2. CASE IsNull(at.ni)
  BY <1>1, <1>2 DEF Rises
<1>3. CASE ~ IsNull(at.ni)
  <2>1. /\ at \in Climbers /\ Good(at.s) /\ at.s.disk = s.disk /\ at.s.cuts = s.cuts
        /\ at.s.paths = s.paths /\ Agrees(s.disk, at.ni)
    BY <1>3 DEF Risen, Quiet
  <2>2. at.ni \in MemInodes /\ at.path \in Seq(Names \cup {Dot})
    BY <2>1 DEF Climbers
  <2>3. ref.inum \in Inums /\ at.ni.rec.name \in Names \cup {Dot}
    BY <2>2, InodeFields, RecordFields
  <2>4. path \in Seq(Names \cup {Dot})
    BY SMT, <2>2, <2>3 DEF Prepended
  <2>5. Quiet(s, s1) /\ s1.paths = s.paths
    <3>1. CASE k > 1
      <4>. /\ s1 = CacheInode(at.s, at.ni)
           /\ Closes(at.s, at.ni, CacheInode(at.s, at.ni))
        BY <3>1, <2>1, <2>2, CloseGood DEF ntfs_inode_close
      <4>. QED
        BY <2>1 DEF Quiet, Closes
    <3>2. CASE ~ (k > 1)
      BY <2>1, <3>2 DEF Quiet
    <3>. QED
      BY <3>1, <3>2
  <2>. HIDE DEF s1, path
  <2>6. s1 \in Sessions /\ NullInode \in MemInodes /\ IsNull(NullInode)
    BY <2>5, GoodFields, NullFacts DEF Quiet
  <2>7. CASE ref.inum = Root
    <3>1. r = [s |-> s1, ni |-> NullInode, path |-> path]
      BY ZenonT(40), <1>1, <1>3, <2>7
    <3>. HIDE DEF r
    <3>. r \in Climbers /\ r.s = s1 /\ r.ni = NullInode /\ r.path = path
      BY <2>4, <2>6, <3>1 DEF Climbers
    <3>. QED
      BY <1>3, <2>5, <2>6, <2>7 DEF Risen, r, path, Rises
  <2>8. CASE ref.inum # Root
    <3>1. r = [s |-> up.s, ni |-> up.ni, path |-> path]
      BY ZenonT(40), <1>1, <1>3, <2>8
    <3>2. /\ Reached(s, up) /\ up.s.paths = s1.paths
          /\ ~ IsNull(up.ni) => up.ni.inum = ref.inum
          /\ s.disk.mft[ref.inum].used /\ ref.seq \in {0, s.disk.mft[ref.inum].seq}
             => ~ IsNull(up.ni)
      <4>. HIDE DEF ref
      <4>. /\ up = ntfs_inode_open(s1, ref.inum, ref.seq)
           /\ Reaches(s, s1, ref.inum, ref.seq, ntfs_inode_open(s1, ref.inum, ref.seq))
        BY <2>3, <2>5, OpenReached DEF OpenRef
      <4>. QED
        BY DEF Reaches
    <3>. HIDE DEF r, up, ref
    <3>3. up \in Results /\ Quiet(s, up.s) /\ (IsNull(up.ni) \/ Agrees(s.disk, up.ni))
      BY <3>2 DEF Reached
    <3>. r \in Climbers /\ r.s = up.s /\ r.ni = up.ni /\ r.path = path
      BY <2>4, <3>1, <3>3 DEF Climbers, Results
    <3>. Risen(s, r)
      BY <2>5, <3>2, <3>3 DEF Risen
    <3>. QED
      BY <1>3, <2>8, <3>2 DEF r, ref, path, Rises
  <2>. QED
    BY <2>7, <2>8
<1>. QED
  BY <1>2, <1>3

\* The way up to the root directory.
Climbed(s, ni, at) ==
    /\ at[0] = [s |-> s, ni |-> ni, path |-> << >>]
    /\ \A k \in 1 .. MaxDepth : at[k] = Up(at[k - 1], k)
    /\ \A k \in 0 .. MaxDepth : Risen(s, at[k]) /\ Len(at[k].path) <= k

\* So goes utils_inode_get_name.
LEMMA Climbing ==
    ASSUME NEW s, Good(s), NEW ni \in MemInodes, IsNull(ni) \/ Agrees(s.disk, ni)
    PROVE  \E at : Climbed(s, ni, at) /\ utils_inode_get_name(s, ni) = at[MaxDepth]
<1>. USE Zenon
<1>. DEFINE N == MaxDepth
            base == [s |-> s, ni |-> ni, path |-> << >>]
            F(f) == [k \in 0 .. N |-> IF k = 0 THEN base ELSE Up(f[k - 1], k)]
            S == {x \in Climbers : Risen(s, x)}
            step == [k \in 1 .. N |-> [x \in S |-> Up(x, k)]]
<1>1. N \in Nat
  BY Bounds
<1>2. base \in S /\ base.path = << >> /\ base.ni = ni
  <2>. s \in Sessions /\ Quiet(s, s)
    BY GoodFields DEF Quiet
  <2>. base \in Climbers /\ base.s = s /\ base.ni = ni /\ base.path = << >>
    BY SMT DEF Climbers
  <2>. HIDE DEF base
  <2>. QED
    BY DEF Risen
<1>3. ASSUME NEW k \in 1 .. N, NEW x \in S PROVE Up(x, k) \in S
  <2>1. Risen(s, x) /\ k \in Nat
    BY SMT, <1>1
  <2>. Risen(s, Up(x, k))
    BY <2>1, UpGood DEF Rises
  <2>. QED
    BY DEF Risen
<1>4. /\ step \in [1 .. N -> [S -> S]]
      /\ \A k \in 1 .. N, x \in S : step[k][x] = Up(x, k)
  BY <1>3
<1>5. \A x \in S : Risen(s, x)
  OBVIOUS
<1>. DEFINE at == CHOOSE f : f = F(f)
<1>6. utils_inode_get_name(s, ni) = at[N]
  BY DEF utils_inode_get_name
<1>. HIDE DEF N, S, step, base
<1>7. PICK f \in [0 .. N -> S] : Iterates(f, N, base, step)
  BY <1>1, <1>2, <1>4, Iteration
<1>8. f = F(f)
  <2>1. ASSUME NEW n \in 0 .. N, n # 0 PROVE n \in 1 .. N /\ f[n - 1] \in S
    BY SMT, <1>1, <2>1
  <2>. QED
    BY <1>4, <1>7, <2>1 DEF Iterates
<1>9. at = F(at)
  BY <1>8
<1>. HIDE DEF at
<1>10. at[0] = base
  <2>. 0 \in 0 .. N
    BY SMT, <1>1
  <2>. QED
    BY <1>9
<1>11. ASSUME NEW k \in 1 .. N PROVE at[k] = Up(at[k - 1], k)
  <2>. k \in 0 .. N /\ k # 0
    BY SMT, <1>1
  <2>. QED
    BY <1>9
<1>. \A k \in 0 .. N : at[k] \in S /\ Len(at[k].path) <= k
  <2>. DEFINE T == {k \in 0 .. N : at[k] \in S /\ Len(at[k].path) <= k}
  <2>1. 0 \in T
    BY SMT, <1>1, <1>2, <1>10
  <2>2. ASSUME NEW k \in 1 .. N, k - 1 \in T PROVE k \in T
    <3>. DEFINE x == at[k - 1]
    <3>1. x \in S /\ Len(x.path) <= k - 1 /\ k \in 0 .. N /\ k \in Nat
      BY SMT, <1>1, <2>2
    <3>2. at[k] = Up(x, k) /\ Up(x, k) \in S
      BY <1>3, <1>11, <3>1
    <3>3. Risen(s, x) /\ x \in Climbers
      BY <1>5, <3>1 DEF Risen
    <3>. HIDE DEF x
    <3>4. Up(x, k) = x \/ Up(x, k).path = Prepended(x.ni, x.path)
      <4>. Rises(s, x, Up(x, k))
        BY <3>1, <3>3, UpGood
      <4>. QED
        BY DEF Rises
    <3>5. x.path \in Seq(Names \cup {Dot})
      BY <3>3 DEF Climbers
    <3>. Len(x.path) <= k /\ Len(Prepended(x.ni, x.path)) <= k
      BY SMT, <3>1, <3>5 DEF Prepended
    <3>. QED
      BY <3>1, <3>2, <3>4
  <2>. HIDE DEF T
  <2>. 0 .. N \subseteq T
    BY <1>1, <2>1, <2>2, UpTo
  <2>. QED
    BY DEF T
<1>. QED
  BY <1>5, <1>6, <1>10, <1>11 DEF Climbed, N, base

\* utils_inode_get_name writes nothing, and finds a path.
LEMMA NameGood ==
    ASSUME NEW s, Good(s), NEW ni \in MemInodes, IsNull(ni) \/ Agrees(s.disk, ni)
    PROVE  LET r == utils_inode_get_name(s, ni)
           IN  Quiet(s, r.s) /\ r.s.paths = s.paths /\ r.path \in Paths
<1>. USE Zenon
<1>. DEFINE r == utils_inode_get_name(s, ni)
<1>1. PICK at : Climbed(s, ni, at) /\ r = at[MaxDepth]
  BY Climbing
<1>. HIDE DEF r
<1>2. MaxDepth \in 0 .. MaxDepth
  BY SMT, Bounds
<1>. Risen(s, r) /\ Len(r.path) <= MaxDepth
  BY <1>1, <1>2 DEF Climbed
<1>. r.path \in Seq(Names \cup {Dot})
  BY DEF Risen, Climbers
<1>. QED
  BY PathFacts DEF Risen, r

Fillers == [s : Sessions, more : BOOLEAN]

\* NtfsFiller writes nothing and leaves the cached paths.
Filled(s, x) == x \in Fillers /\ Quiet(s, x.s) /\ x.s.paths = s.paths

\* NtfsGetDirEntInfo writes nothing; the inode it returns is what the disk has.
LEMMA InfoGood ==
    ASSUME NEW s, Good(s), NEW path \in Paths, NEW isdir
    PROVE  LET r == NtfsGetDirEntInfo(s, path, isdir)
               at == ntfs_pathname_to_inode(s, path)
           IN  /\ Quiet(s, r.s) /\ r.s.paths = at.s.paths /\ r.ni = at.ni
               /\ r.ni \in MemInodes /\ (IsNull(r.ni) \/ Agrees(s.disk, r.ni))
\* Reading a directory writes nothing and leaves the cached paths.
<1>ReaddirGood. ASSUME NEW s1, Good(s1), NEW ni \in MemInodes
                PROVE  Quiet(s1, ntfs_readdir(s1, ni)) /\ ntfs_readdir(s1, ni).paths = s1.paths
  <2>. USE <1>ReaddirGood
  \* So it is for one more entry.
  <2>FillerGood. ASSUME NEW s0, NEW at, Filled(s0, at), NEW ref \in Refs
                 PROVE  Filled(s0, NtfsFiller(at, ref))
    <3>. USE Zenon, <2>FillerGood
    <3>. DEFINE r == NtfsFiller(at, ref)
                sub == OpenRef(at.s, ref)
                named == utils_inode_get_name(sub.s, sub.ni)
                t == ntfs_inode_close(named.s, sub.ni, FALSE)
    <3>1. at \in Fillers /\ Quiet(s0, at.s) /\ at.s.paths = s0.paths
      BY DEF Filled
    <3>2. ref.inum \in Inums
      BY SMTT(30) DEF Refs
    <3>3. Reached(s0, sub) /\ sub.s.paths = at.s.paths
      <4>. /\ sub = ntfs_inode_open(at.s, ref.inum, ref.seq)
           /\ Reaches(s0, at.s, ref.inum, ref.seq, ntfs_inode_open(at.s, ref.inum, ref.seq))
        BY <3>1, <3>2, OpenReached DEF OpenRef
      <4>. QED
        BY DEF Reaches
    <3>4. r = IF ref = NoEntry \/ ~ at.more THEN at
              ELSE IF IsNull(sub.ni) THEN [s |-> sub.s, more |-> FALSE]
              ELSE [s |-> t, more |-> TRUE]
      BY DEF NtfsFiller
    <3>. HIDE DEF sub
    <3>5. sub \in Results /\ Quiet(s0, sub.s) /\ (IsNull(sub.ni) \/ Agrees(s0.disk, sub.ni))
      BY <3>3 DEF Reached
    <3>6. /\ sub.s \in Sessions /\ sub.ni \in MemInodes
          /\ Good(sub.s) /\ sub.s.disk = s0.disk
      BY <3>5 DEF Results, Quiet
    <3>8. Quiet(sub.s, named.s) /\ named.s.paths = sub.s.paths
      BY <3>5, <3>6, NameGood
    <3>. HIDE DEF named
    <3>9. Quiet(s0, named.s) /\ named.s.paths = s0.paths
      BY <3>1, <3>3, <3>5, <3>8 DEF Quiet
    <3>10. Quiet(named.s, t) /\ t.paths = named.s.paths
      <4>1. Good(named.s) /\ (IsNull(sub.ni) \/ Agrees(named.s.disk, sub.ni))
        BY <3>5, <3>9 DEF Quiet
      <4>2. t = CacheInode(named.s, sub.ni)
        BY DEF ntfs_inode_close
      <4>. HIDE DEF t
      <4>. Closes(named.s, sub.ni, CacheInode(named.s, sub.ni))
        BY <3>6, <4>1, CloseGood
      <4>. QED
        BY <4>2 DEF Closes
    <3>. HIDE DEF t
    <3>11. Quiet(s0, t) /\ t.paths = s0.paths /\ t \in Sessions
      BY <3>9, <3>10, GoodFields DEF Quiet
    <3>12. CASE ref = NoEntry \/ ~ at.more
      BY <3>4, <3>12
    <3>13. CASE ref # NoEntry /\ at.more /\ IsNull(sub.ni)
      <4>1. r = [s |-> sub.s, more |-> FALSE]
        BY <3>4, <3>13
      <4>. HIDE DEF r
      <4>. r.s = sub.s /\ r \in Fillers
        BY <3>6, <4>1 DEF Fillers
      <4>. QED
        BY <3>1, <3>3, <3>5 DEF Filled, r
    <3>14. CASE ref # NoEntry /\ at.more /\ ~ IsNull(sub.ni)
      <4>1. r = [s |-> t, more |-> TRUE]
        BY <3>4, <3>14
      <4>. HIDE DEF r
      <4>. r.s = t /\ r \in Fillers
        BY <3>11, <4>1 DEF Fillers
      <4>. QED
        BY <3>11 DEF Filled, r
    <3>. QED
      BY <3>12, <3>13, <3>14
  <2>. USE Zenon
  <2>. DEFINE N == Len(IndexOrder)
              base == [s |-> s1, more |-> TRUE]
              ref(k) == ni.rec.ents[IndexOrder[k]]
              F(f) == [k \in 0 .. N |-> IF k = 0 THEN base ELSE NtfsFiller(f[k - 1], ref(k))]
              S == {x \in Fillers : Filled(s1, x)}
              step == [k \in 1 .. N |-> [x \in S |-> NtfsFiller(x, ref(k))]]
              at == CHOOSE f : f = F(f)
  <2>1. N \in Nat /\ \A j \in 1 .. N : ref(j) \in Refs
    <3>1. IndexOrder \in Seq(Keys)
      BY FileAssumption
    <3>2. N \in Nat /\ \A j \in 1 .. N : IndexOrder[j] \in Keys
      BY SMT, <3>1
    <3>. ni.rec.ents \in [Keys -> Refs]
      BY InodeFields, RecordFields
    <3>. QED
      BY <3>2
  <2>2. ntfs_readdir(s1, ni) = at[N].s
    BY DEF ntfs_readdir
  <2>. HIDE DEF ref, N
  <2>3. base \in S
    <3>. s1 \in Sessions /\ Quiet(s1, s1)
      BY GoodFields DEF Quiet
    <3>. base \in Fillers /\ base.s = s1
      BY DEF Fillers
    <3>. HIDE DEF base
    <3>. QED
      BY DEF Filled
  <2>4. ASSUME NEW k \in 1 .. N, NEW x \in S PROVE NtfsFiller(x, ref(k)) \in S
    <3>1. Filled(s1, x) /\ ref(k) \in Refs
      BY <2>1
    <3>. Filled(s1, NtfsFiller(x, ref(k)))
      BY <3>1, <2>FillerGood
    <3>. QED
      BY DEF Filled
  <2>5. /\ step \in [1 .. N -> [S -> S]]
        /\ \A k \in 1 .. N, x \in S : step[k][x] = NtfsFiller(x, ref(k))
    BY <2>4
  <2>6. \A x \in S : Filled(s1, x)
    OBVIOUS
  <2>. HIDE DEF S, step, base
  <2>7. PICK f \in [0 .. N -> S] : Iterates(f, N, base, step)
    BY SMTT(30), <2>1, <2>3, <2>5, Iteration
  <2>8. f = F(f)
    <3>1. ASSUME NEW n \in 0 .. N, n # 0 PROVE n \in 1 .. N /\ f[n - 1] \in S
      BY SMT, <2>1, <3>1
    <3>. QED
      BY <2>5, <2>7, <3>1 DEF Iterates
  <2>9. at = F(at)
    BY <2>8
  <2>. HIDE DEF at
  <2>10. at[0] = base
    <3>. 0 \in 0 .. N
      BY SMT, <2>1
    <3>. QED
      BY <2>9
  <2>11. ASSUME NEW k \in 1 .. N PROVE at[k] = NtfsFiller(at[k - 1], ref(k))
    <3>. k \in 0 .. N /\ k # 0
      BY SMT, <2>1
    <3>. QED
      BY <2>9
  <2>. at[N] \in S
    <3>. DEFINE T == {k \in 0 .. N : at[k] \in S}
    <3>1. 0 \in T
      BY SMT, <2>1, <2>3, <2>10
    <3>2. ASSUME NEW k \in 1 .. N, k - 1 \in T PROVE k \in T
      <4>. at[k - 1] \in S /\ k \in 0 .. N
        BY SMT, <2>1, <3>2
      <4>. QED
        BY <2>4, <2>11
    <3>. HIDE DEF T
    <3>3. 0 .. N \subseteq T
      BY <2>1, <3>1, <3>2, UpTo
    <3>. N \in 0 .. N
      BY SMT, <2>1
    <3>. QED
      BY <3>3 DEF T
  <2>. QED
    BY <2>2, <2>6 DEF Filled
<1>. USE Zenon
<1>. DEFINE r == NtfsGetDirEntInfo(s, path, isdir)
            at == ntfs_pathname_to_inode(s, path)
            u == IF isdir THEN ntfs_readdir(at.s, at.ni) ELSE at.s
            t == CacheInode(u, at.ni)
<1>1. Reached(s, at)
  BY PathnameGood
<1>2. r.s = t /\ r.ni = at.ni
  BY DEF NtfsGetDirEntInfo, Result, ntfs_inode_close
<1>. HIDE DEF r, at
<1>3. at \in Results /\ Quiet(s, at.s) /\ (IsNull(at.ni) \/ Agrees(s.disk, at.ni))
  BY <1>1 DEF Reached
<1>4. at.ni \in MemInodes
  BY <1>3 DEF Results
<1>5. Quiet(s, u) /\ u.paths = at.s.paths
  <2>1. Good(at.s)
    BY <1>3 DEF Quiet
  <2>. Quiet(at.s, ntfs_readdir(at.s, at.ni)) /\ ntfs_readdir(at.s, at.ni).paths = at.s.paths
    BY SMTT(30), <1>4, <2>1, <1>ReaddirGood
  <2>. QED
    BY <1>3 DEF Quiet
<1>. HIDE DEF u
<1>. Quiet(u, t) /\ t.paths = u.paths
  <2>1. Good(u) /\ (IsNull(at.ni) \/ Agrees(u.disk, at.ni))
    BY <1>3, <1>5 DEF Quiet
  <2>. Closes(u, at.ni, t)
    BY <1>4, <2>1, CloseGood
  <2>. QED
    BY DEF Closes
<1>. HIDE DEF t
<1>. QED
  BY <1>2, <1>3, <1>4, <1>5 DEF Quiet, r, at

-----------------------------------------------------------------------------
(* What the operations of NtfsFile are made of.                            *)

\* What a walk returned is closed again.
LEMMA ReachedClose ==
    ASSUME NEW s, NEW x, Reached(s, x)
    PROVE  LET t == ntfs_inode_close(x.s, x.ni, FALSE)
           IN  /\ Quiet(s, t) /\ Good(t) /\ t.paths = x.s.paths
               /\ Good(x.s) /\ x.s.disk = s.disk /\ x.ni \in MemInodes
<1>. USE Zenon
<1>1. x \in Results /\ Quiet(s, x.s) /\ (IsNull(x.ni) \/ Agrees(s.disk, x.ni))
  BY DEF Reached
<1>. /\ x.ni \in MemInodes
     /\ Good(x.s) /\ x.s.disk = s.disk /\ x.s.cuts = s.cuts
  BY <1>1 DEF Results, Quiet
<1>. /\ Closes(x.s, x.ni, CacheInode(x.s, x.ni))
     /\ ntfs_inode_close(x.s, x.ni, FALSE) = CacheInode(x.s, x.ni)
  BY <1>1, CloseGood DEF ntfs_inode_close
<1>. QED
  BY DEF Quiet, Closes

\* ntfs_dir_parent_inode is a step of a walk.
LEMMA ParentGood ==
    ASSUME NEW s, NEW at, Reached(s, at), ~ IsNull(at.ni)
    PROVE  LET up == ntfs_dir_parent_inode(at.s, at.ni)
           IN  /\ Reached(s, up) /\ up.s.paths = at.s.paths
               /\ Range(up.s.inodes) \subseteq Range(at.s.inodes)
               /\ ~ IsNull(up.ni) => at.ni.inum # Root /\ up.ni.inum = at.ni.rec.parent.inum
               /\ at.ni.inum # Root /\ s.disk.mft[at.ni.rec.parent.inum].used => ~ IsNull(up.ni)
<1>. USE Zenon
<1>. DEFINE up == ntfs_dir_parent_inode(at.s, at.ni)
<1>1. /\ Quiet(s, at.s) /\ at.s.disk = s.disk /\ at.ni \in MemInodes
  BY ReachedClose DEF Reached
<1>2. CASE at.ni.inum = Root
  <2>1. up = Result(at.s, NullInode)
    BY <1>2 DEF ntfs_dir_parent_inode
  <2>. at.s \in Sessions /\ NullInode \in MemInodes /\ IsNull(NullInode)
    BY <1>1, GoodFields, NullFacts DEF Quiet
  <2>. HIDE DEF up
  <2>. up.s = at.s /\ up.ni = NullInode /\ up \in Results
    BY <2>1 DEF Result, Results
  <2>. QED
    BY <1>1, <1>2 DEF Reached, up
<1>3. CASE at.ni.inum # Root
  <2>. DEFINE i == at.ni.rec.parent.inum
  <2>1. up = ntfs_inode_open(at.s, i, 0)
    BY <1>3 DEF ntfs_dir_parent_inode
  <2>2. i \in Inums
    BY <1>1, InodeFields, RecordFields
  <2>. HIDE DEF up, i
  <2>. Reaches(s, at.s, i, 0, ntfs_inode_open(at.s, i, 0))
    BY <1>1, <2>2, OpenReached
  <2>. QED
    BY <1>3, <2>1 DEF Reaches, up, i
<1>. QED
  BY <1>2, <1>3

\* ntfs_create, the close of the directory and that of the new file.
Making(s, dir, i, name, isdir, ro, made, closed) ==
    LET done == ntfs_inode_close(closed, made.ni, TRUE)
    IN  /\ made.ni \in MemInodes /\ Good(closed)
        /\ Good(done) /\ done.paths = s.paths
        /\ IF ~ dir.rec.dir \/ dir.rec.ents[Upcase[name]] # NoEntry
           THEN /\ made.ni = NullInode /\ done.disk.bitmap = s.disk.bitmap
                /\ \A j \in Inums : done.disk.mft[j] =
                       IF j = i THEN Unused(s.disk.mft[i].seq + 1) ELSE s.disk.mft[j]
           ELSE /\ made.ni.inum = i /\ made.ni.rec.used /\ made.ni.rec.seq = s.disk.mft[i].seq
                /\ made.ni.rec.ents = NoEntries /\ made.ni.rec.name = name
                /\ made.ni.rec.parent = Ref(dir.inum, dir.rec.seq)
                /\ Taken(s.disk, closed.disk, dir.inum, i, Upcase[name])
                /\ done.disk = WithRecord(closed.disk, i, made.ni.rec)

\* The record of a new file.
NewRecord(rec, seq, name, ref) ==
    rec.used /\ rec.seq = seq /\ rec.ents = NoEntries /\ rec.name = name /\ rec.parent = ref

\* It leaves a good session whether the entry could be added or not.
LEMMA MakingGood ==
    ASSUME NEW s, Good(s), NEW dir \in MemInodes, Agrees(s.disk, dir),
           NotCached(s, dir.inum), NEW i \in FreeRecords(s), NEW name \in Names,
           NEW isdir \in BOOLEAN, NEW ro \in BOOLEAN,
           LET made == ntfs_create(s, dir, i, name, isdir, ro)
           IN  IsNull(made.ni) => s.disk.mft[i].seq < MaxSeq
    PROVE  LET made == ntfs_create(s, dir, i, name, isdir, ro)
               small == dir.inum \notin LargeDirs
               changed == ~ IsNull(made.ni) /\ small
           IN  Making(s, dir, i, name, isdir, ro, made,
                      ntfs_inode_close(made.s, made.dir, changed))
\* The record ntfs_create makes is one.
<1>NewRecordFacts. ASSUME NEW seq \in 1 .. MaxSeq, NEW isdir0 \in BOOLEAN, NEW ro0 \in BOOLEAN,
                          NEW name0 \in Names, NEW ref \in Refs, load.size \in Nat
                   PROVE  LET rec == [used |-> TRUE, seq |-> seq, dir |-> isdir0, ents |-> NoEntries,
                                      ro |-> ro0, size |-> 0, name |-> name0, parent |-> ref]
                          IN  rec \in RecordType /\ NewRecord(rec, seq, name0, ref)
  <2>. USE <1>NewRecordFacts
  <2>. DEFINE rec == [used |-> TRUE, seq |-> seq, dir |-> isdir0, ents |-> NoEntries,
                      ro |-> ro0, size |-> 0, name |-> name0, parent |-> ref]
  <2>1. NoEntries \in [Keys -> Refs] /\ 0 \in 0 .. load.size
    BY NoEntryFacts
  <2>. /\ rec \in RecordType
       /\ NewRecord(rec, seq, name0, ref)
    BY Zenon, <2>1 DEF RecordType, Refs, NewRecord
  <2>. QED
    BY Zenon
\* The three fields of what ntfs_create returns.
<1>MadeFields. ASSUME NEW a, NEW b, NEW c, NEW x, x = [s |-> a, dir |-> b, ni |-> c]
               PROVE  x.s = a /\ x.dir = b /\ x.ni = c
    BY Zenon, <1>MadeFields
\* It can be closed: its record is put into the place that was taken for it.
<1>NewCloseGood. ASSUME NEW d \in Disks, Sound(d), NEW i2 \in Records, i2 \notin d.bitmap, NEW s0, Good(s0),
                        NEW p \in Inums, p # i2, NEW k \in Keys, NotCached(s0, i2),
                        Taken(d, s0.disk, p, i2, k), NEW new, NewInode(new, d, p, i2, k)
                 PROVE  NewClosed(s0, i2, new)
  <2>. USE <1>NewCloseGood
  \* The record of a new file may be written: the entry that was added for it is
  \* the only one of its age.
  <2>NewSound. ASSUME NEW d1 \in Disks, Sound(d1), NEW i1 \in Records, i1 \notin d1.bitmap,
                      NEW e \in Disks, Sound(e), NEW p1 \in Inums, p1 # i1, NEW k1 \in Keys,
                      Taken(d1, e, p1, i1, k1), NEW new0, NewInode(new0, d1, p1, i1, k1)
               PROVE  Sound(WithRecord(e, i1, new0.rec))
    <3>. USE <2>NewSound
    \* The entries of the directories when a record is taken.
    <3>TakenEntries. ASSUME NEW d0 \in Disks, NEW c, NEW p0 \in Inums, NEW i0 \in Inums, NEW k0 \in Keys,
                            Taken(d0, c, p0, i0, k0)
                     PROVE  /\ c.mft[p0].ents[k0] = Ref(i0, d0.mft[i0].seq)
                            /\ \A y \in Keys \ {k0} : c.mft[p0].ents[y] = d0.mft[p0].ents[y]
                            /\ \A x \in Inums \ {p0}, y \in Keys : c.mft[x].ents[y] = d0.mft[x].ents[y]
      <4>. USE Zenon, <3>TakenEntries
      <4>. DEFINE ref == Ref(i0, d0.mft[i0].seq)
                  ents == [d0.mft[p0].ents EXCEPT ![k0] = ref]
      <4>1. d0.mft \in [Inums -> RecordType]
        BY DEF Disks
      <4>2. d0.mft[p0] \in RecordType /\ d0.mft[i0].seq \in 1 .. MaxSeq /\ d0.mft[p0].ents \in [Keys -> Refs]
        BY <4>1, RecordFields
      <4>3. ref \in Refs
        <5>. d0.mft[i0].seq \in 0 .. MaxSeq
          BY SMT, <4>2, Bounds
        <5>. QED
          BY DEF Ref, Refs
      <4>. HIDE DEF ref
      <4>4. ents \in [Keys -> Refs] /\ ents[k0] = ref /\ \A y \in Keys \ {k0} : ents[y] = d0.mft[p0].ents[y]
        BY <4>2, <4>3
      <4>5. Alike(c.mft[p0], WithEntries(d0.mft[p0], ents))
        BY DEF Taken, ref
      <4>. HIDE DEF ents
      <4>6. WithEntries(d0.mft[p0], ents).ents = ents
        BY <4>2, <4>4, EntriesFields
      <4>. /\ c.mft[p0].ents = ents
           /\ \A x \in Inums \ {p0} : c.mft[x] = d0.mft[x]
        BY <4>5, <4>6 DEF Alike, Taken
      <4>. QED
        BY <4>4 DEF ref
    <3>. USE Zenon
    <3>. DEFINE c == WithRecord(e, i1, new0.rec)
    <3>1. Records \subseteq Inums
      BY DEF Inums
    <3>2. /\ new0.rec \in RecordType /\ new0.rec.used /\ new0.rec.seq = d1.mft[i1].seq
          /\ new0.rec.ents = NoEntries /\ new0.rec.parent.inum = p1 /\ Upcase[new0.rec.name] = k1
      BY InodeFields DEF NewInode
    <3>3. Rewritten(c, e, i1, new0.rec)
      BY <3>1, <3>2, Rewriting
    <3>. HIDE DEF c
    <3>4. c.mft[i1] = new0.rec /\ c.bitmap = e.bitmap /\ \A j \in Inums \ {i1} : c.mft[j] = e.mft[j]
      BY <3>1, <3>3 DEF Rewritten
    <3>5. i1 \in e.bitmap
      <4>. e.bitmap = d1.bitmap \cup {i1}
        BY DEF Taken
      <4>. QED
        OBVIOUS
    <3>6. e.mft[i1] = d1.mft[i1]
      BY <3>1 DEF Taken
    <3>7. /\ Covered(c)
          /\ Above(c)
      BY <3>1, <3>4, <3>5, <3>2 DEF Sound, Covered, Above
    <3>. ASSUME NEW x \in Inums, NEW y \in Keys PROVE EntryTold(c, x, y, c.mft[x].ents[y])
      <4>. DEFINE ref == c.mft[x].ents[y]
      <4>1. CASE x = i1
        BY <3>2, <3>4, <4>1, NoEntryFacts DEF EntryTold
      <4>2. CASE x # i1
        <5>1. ref = e.mft[x].ents[y]
          BY <3>4, <4>2
        <5>2. EntryTold(e, x, y, ref)
          BY <5>1 DEF Sound, Told
        <5>. HIDE DEF ref
        <5>3. CASE ref.inum # i1 \/ ref = NoEntry
          <6>1. ref # NoEntry => ref.inum \in Records
            BY <5>2 DEF EntryTold
          <6>. ref # NoEntry => c.mft[ref.inum] = e.mft[ref.inum]
            BY <3>1, <3>4, <5>3, <6>1
          <6>. QED
            BY <3>4, <5>2 DEF EntryTold, ref
        <5>4. CASE ref.inum = i1 /\ ref # NoEntry
          <6>1. ref.seq <= new0.rec.seq
            BY <3>2, <3>6, <5>2, <5>4 DEF EntryTold
          <6>2. ASSUME ref.seq = new0.rec.seq, ref = d1.mft[x].ents[y] PROVE FALSE
            <7>. EntryTold(d1, x, y, ref)
              BY <6>2 DEF Sound, Told
            <7>. QED
              BY <3>2, <5>4, <6>2 DEF EntryTold
          <6>. ref = d1.mft[x].ents[y] \/ (x = p1 /\ y = k1)
            <7>1. i1 \in Inums
              BY <3>1
            <7>. /\ \A z \in Keys \ {k1} : e.mft[p1].ents[z] = d1.mft[p1].ents[z]
                 /\ \A w \in Inums \ {p1}, z \in Keys : e.mft[w].ents[z] = d1.mft[w].ents[z]
              BY SMT, <7>1, <3>TakenEntries
            <7>. QED
              BY <5>1
          <6>. QED
            BY <3>2, <3>4, <3>5, <5>4, <6>1, <6>2 DEF EntryTold, ref
        <5>. QED
          BY <5>3, <5>4
      <4>. QED
        BY <4>1, <4>2
    <3>. QED
      BY <3>7 DEF Sound, Told, c
  <2>. USE Zenon
  <2>. DEFINE c == WithRecord(s0.disk, i2, new.rec)
              u == Put(s0, c)
  <2>1. i2 \in Inums
    BY DEF Inums
  <2>2. /\ s0 \in Sessions /\ s0.disk \in Disks /\ Sound(s0.disk)
        /\ Range(s0.inodes) \subseteq MemInodes /\ \A e \in Range(s0.inodes) : Agrees(s0.disk, e)
    BY GoodFields
  <2>3. new \in MemInodes /\ new.inum = i2 /\ new.rec.used /\ new.rec \in RecordType
    BY InodeFields DEF NewInode
  <2>4. Sound(c)
    BY <2>2, <2>NewSound
  <2>5. Rewritten(c, s0.disk, i2, new.rec)
    BY <2>1, <2>2, <2>3, Rewriting
  <2>6. ntfs_inode_close(s0, new, TRUE) = CacheInode(u, new)
    BY <2>3 DEF ntfs_inode_close, ntfs_mft_record_write, IsNull, WithRecord
  <2>. HIDE DEF c
  <2>7. c \in Disks /\ c.mft[i2] = new.rec /\ \A j \in Inums \ {i2} : c.mft[j] = s0.disk.mft[j]
    BY <2>1, <2>5 DEF Rewritten
  <2>8. ASSUME NEW e \in Range(s0.inodes) PROVE Agrees(c, e)
    <3>. e.inum \in Inums /\ e.inum # i2
      BY <2>2, InodeFields DEF NotCached
    <3>. QED
      BY <2>2, <2>7 DEF Agrees
  <2>. Good(u) /\ u.disk = c /\ u.paths = s0.paths
    BY <2>2, <2>4, <2>7, <2>8, PutGood, PutFields
  <2>. HIDE DEF u
  <2>10. Agrees(u.disk, new)
    BY <2>3, <2>7 DEF Agrees, Alike
  <2>. Closes(u, new, CacheInode(u, new))
    BY <2>3, <2>10, CloseGood
  <2>. QED
    BY <2>6 DEF Quiet, Closes, NewClosed, c
\* So does the directory in which ntfs_create puts the new file.
<1>CreateDirGood. Enters(s, dir, i, name,
                         SetEntry(Alloc(s, i), dir, name, Ref(i, s.disk.mft[i].seq)))
  <2>. USE Zenon
  <2>. DEFINE u == Alloc(s, i)
              d == s.disk
              p == dir.inum
              k == Upcase[name]
              ref == Ref(i, d.mft[i].seq)
              added == SetEntry(u, dir, name, ref)
              t == ntfs_inode_close(added.s, added.ni, p \notin LargeDirs)
              ents == [dir.rec.ents EXCEPT ![k] = ref]
  <2>1. i \in Records /\ i \notin d.bitmap /\ ~ d.mft[i].used
    BY DEF FreeRecords
  <2>2. /\ Good(u) /\ u.paths = s.paths /\ Range(u.inodes) \subseteq Range(s.inodes)
        /\ NotCached(u, i) /\ u.disk.mft = d.mft /\ u.disk.bitmap = d.bitmap \cup {i}
    BY SMTT(30), <2>1, AllocGood
  <2>. HIDE DEF u
  <2>3. i \in Inums /\ p \in Inums /\ i # p
    <3>. i \in Inums /\ p \in Inums
      BY <2>1, InodeFields DEF Inums
    <3>. QED
      BY <2>1 DEF Agrees, Alike
  <2>4. ref \in Refs /\ ref.inum = i /\ ref.seq = d.mft[i].seq
    <3>1. d.mft[i].seq \in 1 .. MaxSeq
      BY <2>3, GoodFields, RecordFields
    <3>. d.mft[i].seq \in 0 .. MaxSeq
      BY SMT, <3>1, Bounds
    <3>. QED
      BY <2>3 DEF Ref, Refs
  <2>. HIDE DEF ref
  <2>5. /\ Agrees(u.disk, dir) /\ NotCached(u, p) /\ Puttable(u.disk, ref)
    <3>. i \in u.disk.bitmap
      BY SMTT(30), <2>2
    <3>. QED
      BY <2>1, <2>2, <2>4 DEF Agrees, NotCached, Puttable
  <2>6. /\ Good(added.s) /\ added.s.paths = u.paths /\ added.s.inodes = u.inodes
        /\ added.ni \in MemInodes /\ added.ni.inum = p /\ Writable(added.s.disk, added.ni)
        /\ Alike(added.ni.rec, WithEntries(u.disk.mft[p], ents))
        /\ p \in LargeDirs => Agrees(added.s.disk, added.ni)
        /\ added.s.disk.bitmap = u.disk.bitmap
        /\ \A j \in Inums \ {p} : added.s.disk.mft[j] = u.disk.mft[j]
    <3>. EntrySet(u, dir, ents, added)
      BY <2>2, <2>4, <2>5, SetEntryGood
    <3>. QED
      BY DEF EntrySet
  <2>7. ents = [d.mft[p].ents EXCEPT ![k] = ref]
    BY DEF Agrees, Alike
  <2>. HIDE DEF added, ents, d, k
  <2>8. Alike(added.ni.rec, WithEntries(d.mft[p], ents))
    BY <2>2, <2>6
  <2>9. NotCached(added.s, p)
    BY <2>5, <2>6 DEF NotCached
  <2>. /\ Good(t) /\ t.paths = s.paths /\ Range(t.inodes) \subseteq Range(u.inodes) \cup {added.ni}
       /\ t.disk.bitmap = d.bitmap \cup {i}
       /\ \A j \in Inums \ {p} : t.disk.mft[j] = d.mft[j]
       /\ Alike(t.disk.mft[p], added.ni.rec)
    <3>1. CASE p \in LargeDirs
      <4>1. /\ t = CacheInode(added.s, added.ni)
            /\ Closes(added.s, added.ni, CacheInode(added.s, added.ni))
        BY <3>1, <2>6, CloseGood DEF ntfs_inode_close
      <4>. HIDE DEF t
      <4>. /\ Good(t) /\ t.disk = added.s.disk /\ t.paths = added.s.paths
           /\ Range(t.inodes) \subseteq Range(added.s.inodes) \cup {added.ni}
        BY <4>1 DEF Quiet, Closes
      <4>. Alike(t.disk.mft[p], added.ni.rec)
        BY <2>6, <3>1 DEF Agrees, Alike
      <4>. QED
        BY <2>2, <2>6
    <3>2. CASE p \notin LargeDirs
      <4>1. /\ t = ntfs_inode_close(added.s, added.ni, TRUE)
            /\ DirtyCloses(added.s, added.ni, ntfs_inode_close(added.s, added.ni, TRUE))
        BY <3>2, <2>6, <2>9, DirtyCloseGood DEF ntfs_inode_close
      <4>. HIDE DEF t
      <4>3. added.ni.rec \in RecordType /\ added.s.disk \in Disks
        BY <2>6, InodeFields, GoodFields
      <4>4. Rewritten(t.disk, added.s.disk, p, added.ni.rec)
        BY <2>3, <2>6, <4>1, <4>3, Rewriting DEF DirtyCloses
      <4>. /\ \A r : Alike(r, r)
           /\ t.disk.mft[p] = added.ni.rec /\ \A j \in Inums \ {p} : t.disk.mft[j] = added.s.disk.mft[j]
           /\ t.disk.bitmap = added.s.disk.bitmap
        BY <2>3, <4>4 DEF Alike, Rewritten
      <4>. QED
        BY <2>2, <2>6, <4>1 DEF DirtyCloses
    <3>. QED
      BY <3>1, <3>2
  <2>. HIDE DEF t
  <2>11. NotCached(t, i)
    BY <2>2, <2>3, <2>6 DEF NotCached
  <2>12. Alike(t.disk.mft[p], WithEntries(d.mft[p], ents))
    BY <2>8 DEF Alike
  <2>. Taken(d, t.disk, p, i, k)
    BY <2>7, <2>12 DEF Taken, ref
  <2>. QED
    BY <2>11 DEF Enters, t, d, k, added, u, ref
\* ntfs_create that cannot add the entry.
<1>CreateFailGood. ASSUME s.disk.mft[i].seq < MaxSeq
                   PROVE  LET t == ntfs_mft_record_free(Alloc(s, i), i)
                          IN  /\ Good(t) /\ t.paths = s.paths /\ Agrees(t.disk, dir)
                              /\ NotCached(t, dir.inum) /\ t.disk.bitmap = s.disk.bitmap
                              /\ \A j \in Inums : t.disk.mft[j] = IF j = i THEN Unused(s.disk.mft[i].seq + 1)
                                                                  ELSE s.disk.mft[j]
  <2>. USE Zenon, <1>CreateFailGood
  <2>. DEFINE u == Alloc(s, i)
              t == ntfs_mft_record_free(u, i)
  <2>1. i \in Records /\ i \notin s.disk.bitmap /\ ~ s.disk.mft[i].used
    BY DEF FreeRecords
  <2>2. /\ Good(u) /\ u.paths = s.paths /\ Range(u.inodes) \subseteq Range(s.inodes)
        /\ NotCached(u, i) /\ u.disk.mft = s.disk.mft /\ u.disk.bitmap = s.disk.bitmap \cup {i}
    BY <2>1, AllocGood
  <2>. HIDE DEF u
  <2>3. /\ Good(t) /\ t.paths = u.paths /\ t.inodes = u.inodes
        /\ t.disk.bitmap = u.disk.bitmap \ {i}
        /\ \A j \in Inums : t.disk.mft[j] = IF j = i THEN Unused(u.disk.mft[i].seq + 1)
                                            ELSE u.disk.mft[j]
    <3>. u.disk.mft[i].seq < MaxSeq
      BY <2>2
    <3>. QED
      BY SMT, <2>1, <2>2, FreeGood
  <2>. HIDE DEF t
  <2>4. t.disk.bitmap = s.disk.bitmap
    <3>. t.disk.bitmap = (s.disk.bitmap \cup {i}) \ {i}
      BY <2>2, <2>3
    <3>. QED
      BY <2>1
  <2>5. Agrees(t.disk, dir)
    <3>1. dir.inum \in Inums /\ dir.inum # i
      BY <2>1, InodeFields DEF Agrees, Alike
    <3>. t.disk.mft[dir.inum] = s.disk.mft[dir.inum]
      BY <2>2, <2>3, <3>1
    <3>. QED
      BY DEF Agrees
  <2>. /\ \A j \in Inums : t.disk.mft[j] = IF j = i THEN Unused(s.disk.mft[i].seq + 1)
                                           ELSE s.disk.mft[j]
       /\ NotCached(t, dir.inum)
    BY <2>2, <2>3 DEF NotCached
  <2>. QED
    BY <2>2, <2>3, <2>4, <2>5 DEF t, u
<1>. USE Zenon
<1>. DEFINE made == ntfs_create(s, dir, i, name, isdir, ro)
            small == dir.inum \notin LargeDirs
            changed == ~ IsNull(made.ni) /\ small
            t == ntfs_inode_close(made.s, made.dir, changed)
            seq == s.disk.mft[i].seq
            u == Alloc(s, i)
            added == SetEntry(u, dir, name, Ref(i, seq))
            rec == [used |-> TRUE, seq |-> seq, dir |-> isdir,
                    ents |-> NoEntries, ro |-> ro, size |-> 0, name |-> name,
                    parent |-> Ref(dir.inum, dir.rec.seq)]
            new == Inode(i, rec)
            freed == ntfs_mft_record_free(u, i)
            clash == ~ dir.rec.dir \/ dir.rec.ents[Upcase[name]] # NoEntry
<1>1. made = IF clash THEN [s |-> freed, dir |-> dir, ni |-> NullInode]
             ELSE [s |-> added.s, dir |-> added.ni, ni |-> new]
  BY DEF ntfs_create, Alloc
<1>2. i \in Records /\ i \notin s.disk.bitmap
  BY DEF FreeRecords
<1>3. /\ load.size \in Nat /\ s.disk \in Disks /\ Sound(s.disk) /\ s.disk.mft[i] \in RecordType
      /\ seq \in 1 .. MaxSeq
  <2>. /\ s.disk.mft \in [Inums -> RecordType]
       /\ i \in Inums
    BY GoodFields, <1>2 DEF Inums
  <2>. QED
    BY RecordFields, GoodFields
<1>4. NullInode \in MemInodes /\ IsNull(NullInode)
  BY <1>3, NullFacts
<1>. HIDE DEF made
<1>5. CASE clash
  <2>1. made.s = freed /\ made.dir = dir /\ made.ni = NullInode
    <3>. made = [s |-> freed, dir |-> dir, ni |-> NullInode]
      BY <1>1, <1>5
    <3>. HIDE DEF freed
    <3>. QED
      BY <1>MadeFields
  <2>2. seq < MaxSeq
    BY <1>4, <2>1 DEF made
  <2>3. /\ Good(freed) /\ freed.paths = s.paths /\ Agrees(freed.disk, dir)
        /\ NotCached(freed, dir.inum) /\ freed.disk.bitmap = s.disk.bitmap
        /\ \A j \in Inums : freed.disk.mft[j] = IF j = i THEN Unused(seq + 1) ELSE s.disk.mft[j]
    BY <2>2, <1>CreateFailGood
  <2>. HIDE DEF freed, seq
  <2>4. /\ t = CacheInode(freed, dir)
        /\ Closes(freed, dir, CacheInode(freed, dir))
    BY <1>4, <2>1, <2>3, CloseGood DEF ntfs_inode_close
  <2>. HIDE DEF t
  <2>6. /\ Good(t) /\ t.disk = freed.disk /\ t.paths = s.paths
        /\ ntfs_inode_close(t, made.ni, TRUE) = t
    BY <2>3, <2>4, <1>4, <2>1 DEF Quiet, Closes, ntfs_inode_close, CacheInode
  <2>. Making(s, dir, i, name, isdir, ro, made, t)
    BY <1>4, <1>5, <2>1, <2>3, <2>6 DEF Making, seq
  <2>. QED
    BY DEF t, made
<1>6. CASE ~ clash
  <2>1. made.s = added.s /\ made.dir = added.ni /\ made.ni = new
    <3>. made = [s |-> added.s, dir |-> added.ni, ni |-> new]
      BY <1>1, <1>6
    <3>. HIDE DEF added, new
    <3>. QED
      BY <1>MadeFields
  <2>2. dir.inum \in Inums /\ dir.rec \in RecordType /\ dir.rec.seq \in 1 .. MaxSeq
    BY InodeFields, RecordFields
  <2>3. Ref(dir.inum, dir.rec.seq) \in Refs
    <3>. dir.rec.seq \in 0 .. MaxSeq
      BY SMT, <2>2, Bounds
    <3>. QED
      BY <2>2 DEF Ref, Refs
  <2>4. rec \in RecordType /\ NewRecord(rec, seq, name, Ref(dir.inum, dir.rec.seq))
    BY <1>3, <2>3, <1>NewRecordFacts
  <2>5. /\ rec.used /\ rec.seq = seq /\ rec.ents = NoEntries /\ rec.name = name
        /\ rec.parent = Ref(dir.inum, dir.rec.seq)
    BY <2>4 DEF NewRecord
  <2>6. rec.parent.inum = dir.inum
    BY <2>5 DEF Ref
  <2>. HIDE DEF rec
  <2>7. new \in MemInodes /\ new.inum = i /\ new.rec = rec
    BY <1>2, <2>4 DEF Inode, MemInodes, Inums
  <2>. HIDE DEF new
  <2>8. ~ IsNull(new) /\ changed = (dir.inum \notin LargeDirs)
    BY <2>1, <2>5, <2>7 DEF IsNull
  <2>9. t = ntfs_inode_close(added.s, added.ni, dir.inum \notin LargeDirs)
    BY <2>1, <2>8
  <2>10. /\ Good(t) /\ t.paths = s.paths /\ NotCached(t, i)
         /\ Taken(s.disk, t.disk, dir.inum, i, Upcase[name])
    <3>. Enters(s, dir, i, name, added)
      BY <1>CreateDirGood DEF seq
    <3>. QED
      BY <2>9 DEF Enters
  <2>. HIDE DEF t, added
  <2>11. /\ Upcase[name] \in Keys
         /\ NewInode(new, s.disk, dir.inum, i, Upcase[name])
    BY <2>5, <2>6, <2>7 DEF Keys, NewInode, seq
  <2>13. dir.inum # i
    <3>. s.disk.mft[dir.inum].used
      BY DEF Agrees, Alike
    <3>. QED
      BY DEF FreeRecords
  <2>14. NewClosed(t, i, new)
    <3>. DEFINE d == s.disk
                p == dir.inum
                k == Upcase[name]
    <3>. /\ d \in Disks /\ Sound(d) /\ i \in Records /\ i \notin d.bitmap /\ Good(t)
         /\ p \in Inums /\ p # i /\ k \in Keys /\ NotCached(t, i)
         /\ Taken(d, t.disk, p, i, k) /\ NewInode(new, d, p, i, k)
      BY <1>2, <1>3, <2>2, <2>10, <2>11, <2>13
    <3>. HIDE DEF d, p, k
    <3>. QED
      BY <1>NewCloseGood
  <2>. Making(s, dir, i, name, isdir, ro, made, t)
    BY <1>6, <2>1, <2>5, <2>7, <2>10, <2>14 DEF Making, NewClosed, seq
  <2>. QED
    BY DEF t, made
<1>. QED
  BY <1>5, <1>6

\* Other attributes leave an inode alike.
LEMMA AttrFacts ==
    ASSUME NEW ni \in MemInodes, NEW ro \in BOOLEAN
    PROVE  LET x == [ni EXCEPT !.rec.ro = ro]
           IN  x \in MemInodes /\ x.inum = ni.inum /\ Alike(x.rec, ni.rec)
<1>. USE Zenon
<1>. DEFINE r == [ni.rec EXCEPT !.ro = ro]
            x == [ni EXCEPT !.rec.ro = ro]
<1>1. ni.inum \in Inums /\ ni.rec \in RecordType
  BY InodeFields
<1>2. r \in RecordType
  BY <1>1 DEF RecordType
<1>3. /\ Alike(r, ni.rec)
      /\ x = [ni EXCEPT !.rec = r]
  BY <1>1 DEF RecordType, Alike
<1>. HIDE DEF r
<1>. [ni EXCEPT !.rec = r] \in MemInodes /\ [ni EXCEPT !.rec = r].inum = ni.inum
     /\ [ni EXCEPT !.rec = r].rec = r
  BY <1>2 DEF MemInodes
<1>. QED
  BY <1>3

\* The close of a file that was written to: it has the new size.
Wrote(s, at, size, t) ==
    /\ Good(t) /\ t.paths = at.s.paths /\ t.disk.bitmap = s.disk.bitmap
    /\ t.disk.mft[at.ni.inum].size = size
    /\ \A j \in Inums :
          LET q == t.disk.mft[j]
              r == s.disk.mft[j]
          IN  /\ q.used = r.used /\ q.seq = r.seq /\ q.dir = r.dir /\ q.ents = r.ents
              /\ q.name = r.name /\ q.parent = r.parent
              /\ j # at.ni.inum => q.size = r.size

\* So does a write, whether the size changes or not.
LEMMA WroteGood ==
    ASSUME NEW s, NEW at, Reached(s, at), ~ IsNull(at.ni), NEW size \in 0 .. load.size
    PROVE  LET ni == [at.ni EXCEPT !.rec.size = size]
           IN  Wrote(s, at, size, IF ni = at.ni THEN ntfs_inode_close(at.s, ni, FALSE)
                                  ELSE CloseChanged(at.s, ni))
\* The inode with another size or other attributes.
<1>SizeFacts. ASSUME NEW ni \in MemInodes, NEW size0 \in 0 .. load.size
              PROVE  LET x == [ni EXCEPT !.rec.size = size0]
                     IN  /\ x \in MemInodes /\ x.inum = ni.inum /\ x.rec = [ni.rec EXCEPT !.size = size0]
                         /\ x.rec.used = ni.rec.used /\ x.rec.seq = ni.rec.seq /\ x.rec.dir = ni.rec.dir
                         /\ x.rec.ents = ni.rec.ents /\ x.rec.name = ni.rec.name
                         /\ x.rec.parent = ni.rec.parent /\ x.rec.size = size0
  <2>. USE Zenon, <1>SizeFacts
  <2>. DEFINE r == [ni.rec EXCEPT !.size = size0]
              x == [ni EXCEPT !.rec.size = size0]
  <2>1. ni.inum \in Inums /\ ni.rec \in RecordType
    BY InodeFields
  <2>2. r \in RecordType
    BY <2>1 DEF RecordType
  <2>3. /\ r.used = ni.rec.used /\ r.seq = ni.rec.seq /\ r.dir = ni.rec.dir
        /\ r.ents = ni.rec.ents /\ r.name = ni.rec.name
        /\ r.parent = ni.rec.parent /\ r.size = size0
        /\ x = [ni EXCEPT !.rec = r]
    BY <2>1 DEF RecordType
  <2>. HIDE DEF r
  <2>. [ni EXCEPT !.rec = r] \in MemInodes /\ [ni EXCEPT !.rec = r].inum = ni.inum
       /\ [ni EXCEPT !.rec = r].rec = r
    BY <2>2 DEF MemInodes
  <2>. QED
    BY <2>3 DEF r
<1>. USE Zenon
<1>. DEFINE ni == [at.ni EXCEPT !.rec.size = size]
            i == at.ni.inum
            t == IF ni = at.ni THEN ntfs_inode_close(at.s, ni, FALSE) ELSE CloseChanged(at.s, ni)
<1>1. at.ni \in MemInodes /\ Good(at.s) /\ at.s.disk = s.disk
  BY ReachedClose
<1>2. Agrees(s.disk, at.ni) /\ NotCached(at.s, i)
  BY DEF Reached
<1>3. /\ ni \in MemInodes /\ ni.inum = i
      /\ ni.rec.used = at.ni.rec.used /\ ni.rec.seq = at.ni.rec.seq
      /\ ni.rec.dir = at.ni.rec.dir
      /\ ni.rec.ents = at.ni.rec.ents /\ ni.rec.name = at.ni.rec.name
      /\ ni.rec.parent = at.ni.rec.parent /\ ni.rec.size = size
  BY <1>1, <1>SizeFacts
<1>. HIDE DEF ni
<1>4. /\ at.ni.rec.used = s.disk.mft[i].used /\ at.ni.rec.seq = s.disk.mft[i].seq
      /\ at.ni.rec.dir = s.disk.mft[i].dir /\ at.ni.rec.ents = s.disk.mft[i].ents
      /\ at.ni.rec.size = s.disk.mft[i].size
      /\ at.ni.rec.name = s.disk.mft[i].name /\ at.ni.rec.parent = s.disk.mft[i].parent
      /\ at.ni.rec.used
  BY <1>2 DEF Agrees, Alike
<1>5. i \in Inums
  BY <1>3, InodeFields
<1>6. CASE ni = at.ni
  <2>1. /\ t = ntfs_inode_close(at.s, at.ni, FALSE)
        /\ LET u == ntfs_inode_close(at.s, at.ni, FALSE)
           IN  Quiet(s, u) /\ Good(u) /\ u.paths = at.s.paths
    BY <1>6, ReachedClose
  <2>. HIDE DEF t, i
  <2>3. Good(t) /\ t.paths = at.s.paths /\ t.disk = s.disk
    BY <2>1 DEF Quiet
  <2>. Wrote(s, at, size, t)
    BY <1>3, <1>4, <1>6, <2>3 DEF Wrote, i
  <2>. QED
    BY DEF t, ni
<1>7. CASE ni # at.ni
  <2>1. t = CloseChanged(at.s, ni)
    BY <1>7
  <2>2. Writable(at.s.disk, ni) /\ NotCached(at.s, ni.inum)
    BY <1>1, <1>2, <1>3, <1>4 DEF Writable
  <2>3. ChangeCloses(at.s, ni, CloseChanged(at.s, ni))
    BY <1>1, <1>3, <2>2, CloseChangedGood
  <2>. HIDE DEF t, i
  <2>4. /\ Good(t) /\ t.paths = at.s.paths /\ t.disk.bitmap = s.disk.bitmap
        /\ t.disk.mft[i] = ni.rec
        /\ \A j \in Inums : j # i => Alike(t.disk.mft[j], s.disk.mft[j])
    BY <1>1, <1>3, <2>1, <2>3 DEF ChangeCloses
  <2>5. ASSUME NEW j \in Inums
        PROVE  LET q == t.disk.mft[j]
                   r == s.disk.mft[j]
               IN  /\ q.used = r.used /\ q.seq = r.seq /\ q.dir = r.dir /\ q.ents = r.ents
                   /\ q.name = r.name /\ q.parent = r.parent
                   /\ j # i => q.size = r.size
    <3>1. CASE j = i
      BY <1>3, <1>4, <2>4, <3>1
    <3>2. CASE j # i
      BY <2>4, <3>2 DEF Alike
    <3>. QED
      BY <3>1, <3>2
  <2>. Wrote(s, at, size, t)
    BY <1>3, <2>4, <2>5 DEF Wrote, i
  <2>. QED
    BY DEF t, ni
<1>. QED
  BY <1>6, <1>7

\* NtfsDelete, from what it found: the file is gone, or all is as it was.
Deleting(s, path, at, dir, t) ==
    /\ Good(t) /\ Range(t.paths) \subseteq Range(at.s.paths)
    /\ IF Deletable(dir.ni, at.ni, NameOf(path))
       THEN /\ at.ni.inum \in Records /\ dir.ni.inum = at.ni.rec.parent.inum
            /\ \A e \in Range(t.paths) : e.inum # at.ni.inum /\ e.path # path
            /\ Removed(s.disk, t.disk, dir.ni.inum, at.ni.inum, Upcase[NameOf(path)])
       ELSE t.disk = s.disk

\* So does NtfsDelete, whatever the handle finds by its path.
LEMMA DeletingGood ==
    ASSUME NEW s, Good(s), NEW path \in Paths, NEW at, Reached(s, at), ~ IsNull(at.ni),
           s.disk.mft[at.ni.inum].seq < MaxSeq
    PROVE  LET dir == ntfs_dir_parent_inode(at.s, at.ni)
           IN  Deleting(s, path, at, dir, ntfs_delete(dir.s, path, dir.ni, at.ni, NameOf(path)))
\* ntfs_delete of an open file, in the directory that is its parent.
<1>DeleteGood. ASSUME NEW s1, Good(s1), NEW path1, NEW dir \in MemInodes, NEW ni \in MemInodes,
                      NEW name \in Names, Agrees(s1.disk, dir), Agrees(s1.disk, ni),
                      NotCached(s1, dir.inum), NotCached(s1, ni.inum), ni.inum \in Records,
                      dir.inum = ni.rec.parent.inum, s1.disk.mft[ni.inum].seq < MaxSeq,
                      Deletable(dir, ni, name)
               PROVE  LET t == ntfs_delete(s1, path1, dir, ni, name)
                      IN  /\ Good(t) /\ Range(t.paths) \subseteq Range(s1.paths)
                          /\ \A e \in Range(t.paths) : e.inum # ni.inum /\ e.path # path1
                          /\ Removed(s1.disk, t.disk, dir.inum, ni.inum, Upcase[name])
  <2>. USE <1>DeleteGood
  \* ntfs_delete forgets paths.
  <2>InvalidatedGood. ASSUME NEW s0, Good(s0), NEW path0, NEW i
                      PROVE  LET t == Invalidated(s0, path0, i)
                             IN  /\ Quiet(s0, t) /\ t.inodes = s0.inodes
                                 /\ Range(t.paths) \subseteq Range(s0.paths)
                                 /\ \A e \in Range(t.paths) : e.inum # i /\ e.path # path0
    <3>. USE Zenon, <2>InvalidatedGood
    <3>. DEFINE D == {e \in Range(s0.paths) : e.inum = i \/ e.path = path0}
                l == Without(s0.paths, D)
                t == Invalidated(s0, path0, i)
    <3>1. PathsKeyed(l) /\ Range(l) \subseteq Range(s0.paths) \ D
      <4>. PathCacheSize \in Nat /\ PathsKeyed(s0.paths)
        BY Bounds DEF Good
      <4>. HIDE DEF D
      <4>. QED
        BY WithoutKeyed DEF PathsKeyed
    <3>2. t = SetPaths(s0, l)
      BY DEF Invalidated, SetPaths
    <3>. HIDE DEF l, t
    <3>3. LET u == SetPaths(s0, l)
          IN  /\ Good(u) /\ u.disk = s0.disk /\ u.cuts = s0.cuts /\ u.paths = l
              /\ u.inodes = s0.inodes
      BY <3>1, SetPathsGood
    <3>. /\ Quiet(s0, t) /\ t.inodes = s0.inodes /\ t.paths = l
         /\ Range(l) \subseteq Range(s0.paths) /\ \A e \in Range(l) : e.inum # i /\ e.path # path0
      BY <3>2, <3>3, <3>1 DEF Quiet
    <3>. QED
      BY DEF t
  <2>. USE Zenon
  <2>. DEFINE d == s1.disk
              p == dir.inum
              i == ni.inum
              k == Upcase[name]
              gone == SetEntry(s1, dir, name, NoEntry)
              ents == [dir.rec.ents EXCEPT ![k] = NoEntry]
              u == Invalidated(gone.s, path1, i)
              v == ntfs_mft_record_free(u, i)
              t == ntfs_delete(s1, path1, dir, ni, name)
  <2>1. t = CloseChanged(v, gone.ni)
    BY DEF ntfs_delete
  <2>2. p \in Inums /\ i \in Inums /\ p # i
    <3>. Sound(d) /\ d.mft[i].used /\ d.mft[i].parent.inum = p
      BY ZenonT(40), GoodFields DEF Agrees, Alike
    <3>. QED
      BY InodeFields DEF Sound, Above
  <2>3. /\ Good(gone.s) /\ gone.s.paths = s1.paths /\ gone.s.inodes = s1.inodes
        /\ gone.ni \in MemInodes /\ gone.ni.inum = p /\ Writable(gone.s.disk, gone.ni)
        /\ Alike(gone.ni.rec, WithEntries(d.mft[p], ents))
        /\ gone.s.disk.bitmap = d.bitmap
        /\ \A j \in Inums \ {p} : gone.s.disk.mft[j] = d.mft[j]
    <3>1. Puttable(s1.disk, NoEntry) /\ NoEntry \in Refs
      BY NoEntryFacts DEF Puttable
    <3>. HIDE DEF NoEntry
    <3>. EntrySet(s1, dir, ents, gone)
      BY <3>1, SetEntryGood
    <3>. QED
      BY DEF EntrySet
  <2>4. ents = [d.mft[p].ents EXCEPT ![k] = NoEntry]
    BY DEF Agrees, Alike
  <2>. HIDE DEF gone, ents, d, k, t
  <2>5. /\ Quiet(gone.s, u) /\ u.inodes = gone.s.inodes
        /\ Range(u.paths) \subseteq Range(gone.s.paths)
        /\ \A e \in Range(u.paths) : e.inum # i /\ e.path # path1
    <3>. Good(gone.s)
      BY <2>3
    <3>. QED
      BY SMTT(20), <2>InvalidatedGood
  <2>. HIDE DEF u
  <2>6. Good(u) /\ u.disk = gone.s.disk /\ NotCached(u, i) /\ NotCached(u, p)
    BY <2>3, <2>5 DEF Quiet, NotCached
  <2>7. u.disk.mft[i] = d.mft[i] /\ u.disk.mft[i].seq < MaxSeq
    BY <2>2, <2>3, <2>6 DEF d
  <2>8. /\ Good(v) /\ v.paths = u.paths /\ v.inodes = u.inodes
        /\ v.disk.bitmap = u.disk.bitmap \ {i}
        /\ \A j \in Inums : v.disk.mft[j] = IF j = i THEN Unused(u.disk.mft[i].seq + 1)
                                            ELSE u.disk.mft[j]
    BY SMTT(30), <2>6, <2>7, FreeGood
  <2>. HIDE DEF v, i
  <2>9. v.disk.mft[i] = Unused(d.mft[i].seq + 1) /\ \A j \in Inums \ {i} : v.disk.mft[j] = u.disk.mft[j]
    BY <2>2, <2>7, <2>8
  <2>10. Writable(v.disk, gone.ni) /\ NotCached(v, gone.ni.inum)
    <3>1. v.disk.mft[p] = gone.s.disk.mft[p]
      BY <2>2, <2>6, <2>9
    <3>2. ASSUME NEW y \in Keys
          PROVE  LET ref == gone.ni.rec.ents[y]
                 IN  \/ ref \in {NoEntry, v.disk.mft[p].ents[y]}
                     \/ Puttable(v.disk, ref)
      <4>. DEFINE ref == gone.ni.rec.ents[y]
      <4>1. \/ ref \in {NoEntry, gone.s.disk.mft[p].ents[y]}
            \/ /\ ref.inum \in Records /\ ref.inum \in u.disk.bitmap
               /\ ref.seq = u.disk.mft[ref.inum].seq /\ ~ u.disk.mft[ref.inum].used
        BY ZenonT(40), <2>3, <2>6 DEF Writable
      <4>. HIDE DEF ref
      <4>2. CASE ref \in {NoEntry, gone.s.disk.mft[p].ents[y]}
        BY <3>1, <4>2 DEF ref
      <4>3. CASE /\ ref.inum \in Records /\ ref.inum \in u.disk.bitmap
                 /\ ref.seq = u.disk.mft[ref.inum].seq /\ ~ u.disk.mft[ref.inum].used
        <5>1. d.mft[i].used
          BY DEF Agrees, Alike, d, i
        <5>2. ref.inum \in Inums \ {i}
          BY <2>7, <4>3, <5>1 DEF Inums
        <5>. v.disk.mft[ref.inum] = u.disk.mft[ref.inum] /\ ref.inum \in v.disk.bitmap
          BY <2>8, <2>9, <4>3, <5>2
        <5>. QED
          BY <4>3 DEF Puttable, ref
      <4>. QED
        BY <4>1, <4>2, <4>3
    <3>. Writable(v.disk, gone.ni)
      <4>. DEFINE g == gone.ni
      <4>1. g.inum = p /\ g \in MemInodes
        BY <2>3
      <4>2. /\ g.rec.used /\ gone.s.disk.mft[p].used /\ g.rec.seq = gone.s.disk.mft[p].seq
            /\ g.rec.name = gone.s.disk.mft[p].name /\ g.rec.parent = gone.s.disk.mft[p].parent
        BY <2>3, <4>1 DEF Writable
      <4>. HIDE DEF g
      <4>3. /\ \A y \in Keys : LET ref == g.rec.ents[y]
                              IN  ref \in {NoEntry, v.disk.mft[p].ents[y]} \/ Puttable(v.disk, ref)
            /\ g.rec.used /\ v.disk.mft[p].used /\ g.rec.seq = v.disk.mft[p].seq
            /\ g.rec.name = v.disk.mft[p].name /\ g.rec.parent = v.disk.mft[p].parent
        BY <3>2, <3>1, <4>2 DEF g
      <4>. Writable(v.disk, g)
        BY <4>1, <4>3 DEF Writable, Puttable
      <4>. QED
        BY DEF g
    <3>. QED
      BY <2>3, <2>6, <2>8 DEF NotCached
  <2>11. /\ Good(t) /\ t.paths = v.paths /\ t.disk.bitmap = v.disk.bitmap
         /\ t.disk.mft[p] = gone.ni.rec
         /\ \A j \in Inums : j # p => Alike(t.disk.mft[j], v.disk.mft[j])
    <3>. ChangeCloses(v, gone.ni, CloseChanged(v, gone.ni))
      BY <2>3, <2>8, <2>10, CloseChangedGood
    <3>. QED
      BY <2>1, <2>3 DEF ChangeCloses
  <2>12. Removed(d, t.disk, p, i, k)
    <3>1. ASSUME NEW j \in Inums \ {p, i} PROVE Alike(t.disk.mft[j], d.mft[j])
      <4>. v.disk.mft[j] = d.mft[j]
        BY <2>3, <2>6, <2>9
      <4>. QED
        BY <2>11
    <3>. /\ Alike(t.disk.mft[i], Unused(d.mft[i].seq + 1))
         /\ t.disk.bitmap = d.bitmap \ {i}
         /\ Alike(t.disk.mft[p], WithEntries(d.mft[p], ents))
      BY <2>2, <2>9, <2>11, <2>3, <2>6, <2>8
    <3>. QED
      BY <2>4, <3>1 DEF Removed
  <2>. /\ Range(t.paths) \subseteq Range(s1.paths)
       /\ \A e \in Range(t.paths) : e.inum # i /\ e.path # path1
    BY <2>3, <2>5, <2>8, <2>11 DEF i
  <2>. QED
    BY <2>11, <2>12 DEF t, d, k, i
<1>. USE Zenon
<1>. DEFINE dir == ntfs_dir_parent_inode(at.s, at.ni)
            name == NameOf(path)
            t == ntfs_delete(dir.s, path, dir.ni, at.ni, name)
            u == ntfs_inode_close(dir.s, dir.ni, FALSE)
<1>1. at.ni \in MemInodes /\ Agrees(s.disk, at.ni) /\ NotCached(at.s, at.ni.inum)
  BY ReachedClose DEF Reached
<1>2. /\ Reached(s, dir) /\ dir.s.paths = at.s.paths
      /\ Range(dir.s.inodes) \subseteq Range(at.s.inodes)
      /\ ~ IsNull(dir.ni) => at.ni.inum # Root /\ dir.ni.inum = at.ni.rec.parent.inum
  BY ParentGood
<1>. HIDE DEF dir
<1>3. /\ Quiet(s, u) /\ Good(u) /\ u.paths = dir.s.paths
      /\ Good(dir.s) /\ dir.s.disk = s.disk /\ dir.ni \in MemInodes
  BY <1>2, ReachedClose
<1>4. NotCached(dir.s, at.ni.inum)
  BY <1>1, <1>2 DEF NotCached
<1>5. CASE Deletable(dir.ni, at.ni, name)
  <2>1. ~ IsNull(dir.ni) /\ name # Dot
    BY <1>5 DEF Deletable
  <2>2. Agrees(s.disk, dir.ni) /\ NotCached(dir.s, dir.ni.inum)
    BY <1>2, <2>1 DEF Reached
  <2>3. at.ni.inum \in Records /\ dir.ni.inum = at.ni.rec.parent.inum
    <3>. at.ni.inum \in Inums
      BY <1>1, InodeFields
    <3>. QED
      BY <1>2, <2>1 DEF Inums
  <2>4. name \in Names
    <3>1. path # << >> /\ name = path[Len(path)]
      BY <2>1 DEF NameOf, Last
    <3>2. path \in Seq(Names \cup {Dot})
      BY PathFacts
    <3>. path[Len(path)] \in Names \cup {Dot}
      BY SMT, <3>1, <3>2
    <3>. QED
      BY <2>1, <3>1
  <2>. HIDE DEF name
  <2>5. /\ Good(t) /\ Range(t.paths) \subseteq Range(dir.s.paths)
        /\ \A e \in Range(t.paths) : e.inum # at.ni.inum /\ e.path # path
        /\ Removed(dir.s.disk, t.disk, dir.ni.inum, at.ni.inum, Upcase[name])
    <3>. DEFINE ni == at.ni
                dn == dir.ni
                v == dir.s
    <3>1. /\ Good(v) /\ dn \in MemInodes /\ ni \in MemInodes /\ name \in Names
          /\ Agrees(v.disk, dn) /\ Agrees(v.disk, ni)
          /\ NotCached(v, dn.inum) /\ NotCached(v, ni.inum) /\ ni.inum \in Records
          /\ dn.inum = ni.rec.parent.inum /\ v.disk.mft[ni.inum].seq < MaxSeq
          /\ Deletable(dn, ni, name)
      BY <1>1, <1>3, <1>4, <1>5, <2>2, <2>3, <2>4
    <3>. HIDE DEF v, dn, ni
    <3>. LET x == ntfs_delete(v, path, dn, ni, name)
         IN  /\ Good(x) /\ Range(x.paths) \subseteq Range(v.paths)
             /\ \A e \in Range(x.paths) : e.inum # ni.inum /\ e.path # path
             /\ Removed(v.disk, x.disk, dn.inum, ni.inum, Upcase[name])
      BY <3>1, <1>DeleteGood
    <3>. QED
      BY DEF v, dn, ni
  <2>. HIDE DEF t
  <2>. Deleting(s, path, at, dir, t)
    BY <1>2, <1>3, <1>5, <2>3, <2>5 DEF Deleting, name
  <2>. QED
    BY DEF t, dir, name
<1>6. CASE ~ Deletable(dir.ni, at.ni, name)
  <2>1. t = CacheInode(u, at.ni)
    BY <1>6 DEF ntfs_delete, ntfs_inode_close
  <2>2. Agrees(u.disk, at.ni)
    BY <1>1, <1>3 DEF Quiet
  <2>. HIDE DEF u
  <2>3. Closes(u, at.ni, CacheInode(u, at.ni))
    BY <1>1, <1>3, <2>2, CloseGood
  <2>. HIDE DEF t
  <2>4. Good(t) /\ t.disk = s.disk /\ t.paths = dir.s.paths
    BY <1>3, <2>1, <2>3 DEF Quiet, Closes
  <2>. Deleting(s, path, at, dir, t)
    BY <1>2, <1>6, <2>4 DEF Deleting
  <2>. QED
    BY DEF t, dir
<1>. QED
  BY <1>5, <1>6

\* The root directory.
LEMMA RootFacts ==
    ASSUME load.size \in Nat
    PROVE  /\ RootRecord \in RecordType /\ RootRecord.used /\ RootRecord.dir
           /\ RootRecord.seq = 1 /\ RootRecord.ents = NoEntries /\ RootRecord.size = 0
           /\ RootRecord.name = Dot /\ RootRecord.parent.inum = Root
<1>. USE Zenon
<1>1. 1 \in 1 .. MaxSeq /\ 1 \in 0 .. MaxSeq /\ Root \in Inums
  BY SMT, Bounds DEF Inums
<1>. DEFINE u == Unused(1)
            ref == Ref(Root, 1)
<1>2. u \in RecordType /\ u.seq = 1 /\ u.ents = NoEntries
  BY <1>1, UnusedFacts
<1>3. u.size = 0 /\ u.name = Dot
  BY DEF Unused
<1>4. ref \in Refs /\ ref.inum = Root
  BY <1>1 DEF Ref, Refs
<1>5. RootRecord = [u EXCEPT !.used = TRUE, !.dir = TRUE, !.parent = ref]
  BY DEF RootRecord
<1>. HIDE DEF u, ref
<1>. /\ RootRecord \in RecordType
     /\ RootRecord.used /\ RootRecord.dir /\ RootRecord.seq = u.seq
     /\ RootRecord.ents = u.ents /\ RootRecord.size = u.size
     /\ RootRecord.name = u.name /\ RootRecord.parent = ref
  BY <1>2, <1>4, <1>5 DEF RecordType, Refs
<1>. QED
  BY <1>2, <1>3, <1>4

\* The disk of an empty volume.
LEMMA EmptyDiskFacts ==
    ASSUME load.size \in Nat
    PROVE  /\ EmptyDisk \in Disks /\ EmptyDisk.bitmap = {}
           /\ EmptyDisk.mft[Root] = RootRecord
           /\ \A i \in Records : EmptyDisk.mft[i] = Unused(1)
           /\ \A i \in Inums : EmptyDisk.mft[i].ents = NoEntries
<1>. USE Zenon
<1>1. RootRecord \in RecordType /\ RootRecord.ents = NoEntries
  BY RootFacts
<1>2. Unused(1) \in RecordType /\ Unused(1).ents = NoEntries
  <2>. 1 \in 1 .. MaxSeq
    BY SMT, Bounds
  <2>. QED
    BY UnusedFacts
<1>. DEFINE r == RootRecord
            q == Unused(1)
            f == [i \in Inums |-> IF i = Root THEN r ELSE q]
<1>3. EmptyDisk.mft = f /\ EmptyDisk.bitmap = {} /\ EmptyDisk = [mft |-> f, bitmap |-> {}]
  BY DEF EmptyDisk
<1>. HIDE DEF r, q
<1>4. Root \notin Records /\ Records \subseteq Inums /\ Root \in Inums
  BY InodeAssumption DEF Root, Inums
<1>. /\ f \in [Inums -> RecordType] /\ f[Root] = r /\ \A i \in Records : f[i] = q
     /\ \A i \in Inums : f[i].ents = NoEntries
  BY <1>1, <1>2, <1>4 DEF r, q
<1>. HIDE DEF f
<1>. [mft |-> f, bitmap |-> {}] \in Disks
  BY DEF Disks
<1>. QED
  BY <1>3 DEF r, q
=============================================================================
