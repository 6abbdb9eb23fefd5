--------------------------- MODULE NtfsFileProofs ---------------------------
(***************************************************************************)
(* Proofs about NtfsFile: the invariants of the volume.                    *)
(***************************************************************************)
EXTENDS NtfsPathProofs

-----------------------------------------------------------------------------
(* The invariant.                                                          *)

\* What holds between two operations: the session that an operation starts
\* from is good, and before the first power loss the cached paths and the
\* handles lead to the files that they name.
FileInv ==
    /\ load \in Workloads
    /\ Good(Now)
    /\ handle \in [Handles -> HandleRecs]
    /\ readOnly \in BOOLEAN /\ crashed \in BOOLEAN
    /\ faults \in 0 .. load.faults
    /\ faults = 0 => Settled(disk, paths, handle)

\* The bounds of a workload.
LEMMA LoadFacts ==
    ASSUME load \in Workloads
    PROVE  /\ load.paths \subseteq Paths /\ load.size \in Nat /\ load.files \in Nat
           /\ load.ro \subseteq BOOLEAN /\ load.faults \in Nat
           /\ \A p \in load.paths : p # << >> => Last(p) # Dot
  BY Zenon, FileAssumption

\* The workload does not change, and with it the types.
LEMMA TypesSame ==
    ASSUME load' = load
    PROVE  /\ RecordType' = RecordType /\ Disks' = Disks /\ MemInodes' = MemInodes
           /\ Sessions' = Sessions /\ InodeKey' = InodeKey
<1>. USE Zenon
<1>1. RecordType' = RecordType
  BY DEF RecordType
<1>. Disks' = Disks /\ MemInodes' = MemInodes
  BY <1>1 DEF Disks, MemInodes
<1>. Sessions' = Sessions /\ InodeKey' = InodeKey
  BY DEF Sessions, InodeKey
<1>. QED
  BY <1>1

\* A session of its own.
LEMMA SessionFields ==
    ASSUME NEW d, NEW p, NEW n
    PROVE  /\ Session(d, p, n).disk = d /\ Session(d, p, n).paths = p
           /\ Session(d, p, n).inodes = n /\ Session(d, p, n).cuts = {d}
           /\ d \in Disks /\ p \in Seq(PathEntries) /\ n \in Seq(MemInodes)
              => Session(d, p, n) \in Sessions
  BY Zenon DEF Session, Sessions

\* The session after a step.
LEMMA GoodNow ==
    ASSUME load.size \in Nat, load' = load, disk' \in Disks, Sound(disk'),
           PathsKeyed(paths'), InodesKeyed(inodes'),
           \A e \in Range(inodes') : Agrees(disk', e)
    PROVE  Good(Now)'
<1>. USE Zenon
<1>. DEFINE s == Session(disk', paths', inodes')
<1>1. paths' \in Seq(PathEntries) /\ inodes' \in Seq(MemInodes)
  BY DEF PathsKeyed, InodesKeyed, Keyed
<1>2. s.disk = disk' /\ s.paths = paths' /\ s.inodes = inodes' /\ s.cuts = {disk'} /\ s \in Sessions
  BY SMT, <1>1, SessionFields
<1>3. Now' = s
  BY DEF Now
<1>. HIDE DEF s
<1>4. /\ Sessions' = Sessions /\ MemInodes' = MemInodes /\ InodeKey' = InodeKey
      /\ Keyed(s.inodes, MemInodes, InodeKey, InodeCacheSize)
         /\ Keyed(s.paths, PathEntries, PathKey, PathCacheSize)
  BY TypesSame, <1>2 DEF PathsKeyed, InodesKeyed
<1>. /\ load'.size \in Nat /\ s \in Sessions' /\ s.disk \in s.cuts /\ \A d \in s.cuts : Sound(d)
     /\ Keyed(s.inodes, MemInodes', InodeKey', InodeCacheSize)
     /\ Keyed(s.paths, PathEntries, PathKey, PathCacheSize)
     /\ \A e \in Range(s.inodes) : Agrees(s.disk, e)
  BY <1>2, <1>4
<1>. QED
  BY <1>3 DEF Good, InodesKeyed, PathsKeyed

\* The state before an operation.
LEMMA NowFacts ==
    ASSUME FileInv
    PROVE  /\ Good(Now) /\ Now.disk = disk /\ Now.paths = paths /\ Now.inodes = inodes
           /\ \A h \in Handles : handle[h] \in HandleRecs /\ handle[h].path \in Paths
<1>. USE Zenon
<1>. /\ Good(Now) /\ \A h \in Handles : handle[h] \in HandleRecs
     /\ Now.disk = disk /\ Now.paths = paths /\ Now.inodes = inodes
     /\ \A x \in HandleRecs : x.path \in Paths
  BY DEF FileInv, Now, Session, HandleRecs
<1>. QED
  OBVIOUS

\* An operation that ends in a good session.
LEMMA EndsInv ==
    ASSUME FileInv, NEW s, Good(s), NEW hs \in [Handles -> HandleRecs],
           faults = 0 => Settled(s.disk, s.paths, hs), Ends(s, hs)
    PROVE  FileInv'
<1>. USE Zenon
<1>. /\ disk' = s.disk /\ paths' = s.paths /\ inodes' = s.inodes /\ handle' = hs
     /\ readOnly' = readOnly /\ load' = load /\ crashed' = crashed /\ faults' = faults
  BY DEF Ends
<1>. /\ Good(Now)'
     /\ faults' = 0 => Settled(disk', paths', handle')
  BY GoodFields, GoodNow DEF Good
<1>. QED
  BY DEF FileInv

\* A closed handle.
LEMMA ClosedFacts == Closed \in HandleRecs
<1>. << >> \in Paths /\ 0 \in Nat
  <2>. << >> \in Seq(Names \cup {Dot}) /\ Len(<< >>) <= MaxDepth /\ 0 \in Nat
    BY Bounds
  <2>. QED
    BY Zenon, PathFacts
<1>. HIDE DEF NoEntry
<1>. QED
  BY Zenon, NoEntryFacts DEF Closed, HandleRecs

\* The empty caches.
LEMMA EmptyCaches ==
    /\ PathsKeyed(<< >>) /\ InodesKeyed(<< >>) /\ \A e \in Range(<< >>) : FALSE
<1>1. PathCacheSize \in Nat /\ InodeCacheSize \in Nat
  BY Zenon, Bounds
<1>. /\ \A S, key : \A size \in Nat : Keyed(<< >>, S, key, size)
     /\ \A e \in Range(<< >>) : FALSE
  BY DEF Keyed, Range
<1>. QED
  BY Zenon, <1>1 DEF PathsKeyed, InodesKeyed

\* An operation that the power is lost in.
LEMMA CutInv ==
    ASSUME FileInv, NEW s, Good(s), CutShort(s)
    PROVE  FileInv'
<1>. USE Zenon
<1>1. /\ faults < load.faults /\ faults' = faults + 1 /\ disk' \in s.cuts
      /\ paths' = << >> /\ inodes' = << >> /\ handle' = [h \in Handles |-> Closed]
      /\ readOnly' = readOnly /\ load' = load /\ crashed' = crashed
  BY DEF CutShort
<1>2. disk' \in Disks /\ Sound(disk')
  <2>. s.cuts \subseteq Disks
    BY SMT, GoodFields DEF Sessions
  <2>. QED
    BY <1>1 DEF Good
<1>3. Good(Now)'
  <2>. /\ load.size \in Nat
       /\ PathsKeyed(paths') /\ InodesKeyed(inodes') /\ \A e \in Range(inodes') : Agrees(disk', e)
    BY GoodFields, <1>1, EmptyCaches
  <2>. QED
    BY <1>1, <1>2, GoodNow
<1>4. faults' \in 0 .. load'.faults /\ faults' # 0
  <2>. faults \in 0 .. load.faults /\ load.faults \in Nat
    BY LoadFacts DEF FileInv
  <2>. QED
    BY SMT, <1>1
<1>. handle' \in [Handles -> HandleRecs]
  BY <1>1, ClosedFacts
<1>. QED
  BY <1>1, <1>3, <1>4 DEF FileInv

\* An operation that uses a NULL pointer.
LEMMA CrashInv ==
    ASSUME FileInv, NEW s, Good(s), faults = 0 => Settled(s.disk, s.paths, handle), Crashes(s)
    PROVE  FileInv'
<1>. USE Zenon
<1>. /\ disk' = s.disk /\ paths' = s.paths /\ inodes' = s.inodes /\ handle' = handle
     /\ readOnly' = readOnly /\ load' = load /\ crashed' = TRUE /\ faults' = faults
  BY DEF Crashes
<1>. /\ Good(Now)'
     /\ faults' = 0 => Settled(disk', paths', handle')
  BY GoodFields, GoodNow DEF Good
<1>. QED
  BY DEF FileInv

\* A walk before which no power was lost finds what its path leads to, and the
\* paths that it caches are right.
Resolved(path, at) ==
    faults = 0 => /\ Finds(disk, path, at) /\ Settled(disk, at.s.paths, handle)
                  /\ IsNull(at.ni) => Leads(disk, path) = {}
                  /\ ~ IsNull(at.ni) => Leads(disk, path) = {at.ni.inum}

\* So does the first walk of an operation.
LEMMA Resolves ==
    ASSUME FileInv, NEW path \in Paths
    PROVE  Resolved(path, ntfs_pathname_to_inode(Now, path))
<1>. USE Zenon
<1>. DEFINE at == ntfs_pathname_to_inode(Now, path)
<1>. SUFFICES ASSUME faults = 0
              PROVE  /\ Finds(disk, path, at) /\ Settled(disk, at.s.paths, handle)
                     /\ IsNull(at.ni) => Leads(disk, path) = {}
                     /\ ~ IsNull(at.ni) => Leads(disk, path) = {at.ni.inum}
  BY DEF Resolved
<1>1. Good(Now) /\ Now.disk = disk /\ Now.paths = paths
  BY NowFacts
<1>2. Settled(disk, paths, handle)
  BY DEF FileInv
<1>3. Tree(Now.disk) /\ Directed(Now.disk, Now.paths)
  BY <1>1, <1>2 DEF Settled
<1>4. Finds(disk, path, at)
  BY <1>1, <1>3, PathnameFinds
<1>. HIDE DEF at
<1>5. disk \in Disks /\ Sound(disk) /\ Tree(disk)
  BY <1>1, <1>3, GoodFields
<1>. /\ IsNull(at.ni) => Leads(disk, path) = {}
     /\ ~ IsNull(at.ni) => Leads(disk, path) = {at.ni.inum}
     /\ Settled(disk, at.s.paths, handle)
  BY <1>4, <1>5, FindsLeads, <1>2 DEF Settled, Finds
<1>. QED
  BY <1>4

\* The end of NtfsOFileOpen.
LEMMA OpensInv ==
    ASSUME FileInv, NEW s, NEW ni \in MemInodes, NEW new \in BOOLEAN, NEW g \in Handles,
           NEW path \in Paths, NEW mode, Good(ntfs_inode_close(s, ni, new)),
           LET c == ntfs_inode_close(s, ni, new)
           IN  faults = 0 => Settled(c.disk, c.paths, handle) /\ Heading(c.disk, path, ni),
           Opens(s, ni, new, g, path, mode)
    PROVE  FileInv'
<1>. USE Zenon
<1>. DEFINE closed == ntfs_inode_close(s, ni, new)
            info == NtfsGetDirEntInfo(closed, path, ni.rec.dir)
            rec == [open |-> TRUE, path |-> path, root |-> FALSE,
                    dir |-> ni.rec.dir, ro |-> mode = "read", pos |-> 0,
                    size |-> info.ni.rec.size, file |-> Ref(ni.inum, ni.rec.seq)]
            hs == [handle EXCEPT ![g] = rec]
            at == ntfs_pathname_to_inode(closed, path)
<1>1. IF IsNull(ni) \/ (ni.rec.ro /\ mode # "read")
      THEN Ends(closed, handle) \/ (new /\ CutShort(closed))
      ELSE IF IsNull(info.ni) THEN Crashes(info.s)
      ELSE Ends(info.s, hs) \/ (new /\ CutShort(info.s))
  BY DEF Opens
<1>2. handle \in [Handles -> HandleRecs]
  BY DEF FileInv
<1>3. /\ Good(closed)
      /\ faults = 0 => /\ Settled(closed.disk, closed.paths, handle)
                       /\ Heading(closed.disk, path, ni)
  OBVIOUS
<1>. HIDE DEF closed
<1>4. /\ Quiet(closed, info.s) /\ info.ni \in MemInodes
      /\ info.s.paths = at.s.paths /\ info.ni = at.ni
      /\ IsNull(info.ni) \/ Agrees(closed.disk, info.ni)
  BY <1>3, InfoGood
<1>. HIDE DEF info
<1>5. Good(info.s)
  BY <1>4 DEF Quiet
<1>6. rec \in HandleRecs
  <2>1. ni.rec \in RecordType /\ ni.inum \in Inums /\ info.ni.rec \in RecordType
    BY <1>4, InodeFields
  <2>2. /\ ni.rec.dir \in BOOLEAN /\ ni.rec.seq \in 1 .. MaxSeq
        /\ info.ni.rec.size \in 0 .. load.size
    BY <2>1, RecordFields
  <2>3. ni.rec.seq \in 0 .. MaxSeq /\ info.ni.rec.size \in Nat
    <3>. load.size \in Nat
      BY LoadFacts DEF FileInv
    <3>. QED
      BY SMT, <2>2, Bounds
  <2>4. /\ Ref(ni.inum, ni.rec.seq) \in Refs
        /\ (mode = "read") \in BOOLEAN /\ 0 \in Nat
    BY <2>1, <2>3 DEF Ref, Refs
  <2>. DEFINE a == ni.rec.dir
              b == mode = "read"
              c == info.ni.rec.size
              f == Ref(ni.inum, ni.rec.seq)
  <2>. HIDE DEF a, b, c, f
  <2>6. a \in BOOLEAN /\ b \in BOOLEAN /\ c \in Nat /\ f \in Refs
    BY <2>2, <2>3, <2>4 DEF a, b, c, f
  <2>. [open |-> TRUE, path |-> path, root |-> FALSE, dir |-> a, ro |-> b, pos |-> 0,
        size |-> c, file |-> f] \in HandleRecs
    BY <2>6 DEF HandleRecs
  <2>. QED
    BY DEF a, b, c, f
<1>7. /\ rec.path = path /\ rec.file.inum = ni.inum /\ rec.file.seq = ni.rec.seq
       /\ rec.size = info.ni.rec.size
  BY DEF Ref
<1>. HIDE DEF rec
<1>8. hs \in [Handles -> HandleRecs]
  BY <1>2, <1>6
<1>9. ASSUME faults = 0
       PROVE  /\ Settled(info.s.disk, info.s.paths, handle)
              /\ ~ IsNull(ni) /\ ~ IsNull(info.ni) => Settled(info.s.disk, info.s.paths, hs)
  <2>. DEFINE d == closed.disk
  <2>1. Settled(d, closed.paths, handle) /\ Heading(d, path, ni)
    BY <1>3, <1>9
  <2>2. Tree(d) /\ Directed(d, closed.paths)
    BY <2>1 DEF Settled
  <2>3. Finds(d, path, at)
    BY <1>3, <2>2, PathnameFinds
  <2>. HIDE DEF at
  <2>4. info.s.disk = d /\ info.s.paths = at.s.paths
    BY <1>4 DEF Quiet
  <2>5. Settled(d, at.s.paths, handle)
    BY <2>1, <2>3 DEF Settled, Finds
  <2>6. d \in Disks /\ Sound(d) /\ d.mft \in [Inums -> RecordType]
    BY <1>3, GoodFields
  <2>7. ASSUME ~ IsNull(ni), ~ IsNull(info.ni)
        PROVE  Settled(d, at.s.paths, hs)
    <3>. HIDE DEF d
    <3>1. /\ Leads(d, path) = {info.ni.inum}
          /\ Agrees(d, ni) /\ Leads(d, path) \subseteq {ni.inum}
      BY <1>4, <2>2, <2>3, <2>6, <2>7, FindsLeads, <2>1 DEF Heading
    <3>3. info.ni.inum = ni.inum
      BY <3>1
    <3>4. Agrees(d, info.ni)
      BY <1>4, <2>7 DEF d
    <3>5. /\ ni.rec.seq = d.mft[ni.inum].seq /\ d.mft[ni.inum].used
          /\ info.ni.rec.size = d.mft[ni.inum].size
      BY <3>1, <3>3, <3>4 DEF Agrees, Alike
    <3>6. rec.size <= d.mft[ni.inum].size
      <4>. d.mft[ni.inum].size \in 0 .. load.size
        BY <2>6, InodeFields, RecordFields
      <4>. QED
        BY SMT, <1>7, <3>5
    <3>. Placed(d, rec)
      BY <1>7, <3>1, <3>3, <3>5, <3>6 DEF Placed
    <3>. QED
      BY <1>2, <2>5, SettledHandle DEF hs
  <2>. QED
    BY <2>4, <2>5, <2>7
<1>. HIDE DEF hs
<1>10. CASE Ends(closed, handle)
  BY <1>2, <1>3, <1>10, EndsInv
<1>11. CASE CutShort(closed)
  BY <1>3, <1>11, CutInv
<1>12. CASE Crashes(info.s)
  BY <1>5, <1>12, <1>9, CrashInv
<1>13. CASE ~ IsNull(ni) /\ ~ IsNull(info.ni) /\ Ends(info.s, hs)
  BY <1>5, <1>8, <1>13, <1>9, EndsInv
<1>14. CASE CutShort(info.s)
  BY <1>5, <1>14, CutInv
<1>. QED
  BY <1>1, <1>10, <1>11, <1>12, <1>13, <1>14

\* What a walk found may be opened under the path of the walk.
FoundOpens(path, at) ==
    LET c == ntfs_inode_close(at.s, at.ni, FALSE)
    IN  /\ Good(c) /\ at.ni \in MemInodes
        /\ faults = 0 => Settled(c.disk, c.paths, handle) /\ Heading(c.disk, path, at.ni)

\* It is so for what the session finds.
LEMMA FoundOpensGood ==
    ASSUME FileInv, NEW path \in Paths, NEW at, Reached(Now, at), Resolved(path, at)
    PROVE  FoundOpens(path, at)
<1>. USE Zenon
<1>. DEFINE c == ntfs_inode_close(at.s, at.ni, FALSE)
<1>. /\ Quiet(Now, c) /\ Good(c) /\ c.paths = at.s.paths /\ at.ni \in MemInodes
     /\ Now.disk = disk
  BY ReachedClose, NowFacts
<1>. HIDE DEF c
<1>2. /\ c.disk = disk
      /\ IsNull(at.ni) \/ Agrees(disk, at.ni)
  BY DEF Quiet, Reached
<1>. /\ faults = 0 => Settled(c.disk, c.paths, handle)
     /\ faults = 0 => Heading(c.disk, path, at.ni)
  BY <1>2 DEF Resolved, Heading
<1>. QED
  BY DEF FoundOpens, c

\* Open of ".".
LEMMA OpenDotInv ==
    ASSUME FileInv, NEW h \in Handles, NEW g \in Handles, NEW mode, OpenDot(h, g, mode)
    PROVE  FileInv'
<1>. USE Zenon
<1>. DEFINE p == handle[h].path
            at == ntfs_pathname_to_inode(Now, p)
<1>1. Opens(at.s, at.ni, FALSE, g, p, mode)
  BY DEF OpenDot
<1>. p \in Paths /\ Good(Now)
  BY NowFacts
<1>3. /\ Reached(Now, at)
      /\ Resolved(p, at)
  BY PathnameGood, Resolves
<1>. HIDE DEF at, p
<1>. FoundOpens(p, at)
  BY <1>3, FoundOpensGood
<1>. QED
  BY <1>1, OpensInv DEF FoundOpens

\* Open of "..".
LEMMA OpenDotDotInv ==
    ASSUME FileInv, NEW h \in Handles, NEW g \in Handles, NEW mode, OpenDotDot(h, g, mode)
    PROVE  FileInv'
<1>. USE Zenon
<1>. DEFINE p == handle[h].path
            cur == ntfs_pathname_to_inode(Now, p)
            up == ntfs_dir_parent_inode(cur.s, cur.ni)
            c == ntfs_inode_close(up.s, cur.ni, FALSE)
            named == utils_inode_get_name(c, up.ni)
<1>1. IF IsNull(cur.ni) THEN Crashes(cur.s)
      ELSE Opens(named.s, up.ni, FALSE, g, named.path, mode)
  BY DEF OpenDotDot
<1>2. p \in Paths /\ Good(Now) /\ Now.disk = disk
  BY NowFacts
<1>3. Reached(Now, cur) /\ Resolved(p, cur)
  BY <1>2, PathnameGood, Resolves
<1>. HIDE DEF cur, p
<1>4. Good(cur.s) /\ cur.ni \in MemInodes /\ cur.s.disk = disk
  BY <1>2, <1>3, ReachedClose
<1>5. faults = 0 => Settled(disk, cur.s.paths, handle)
  BY <1>3 DEF Resolved
<1>6. CASE IsNull(cur.ni)
  BY <1>1, <1>4, <1>6, <1>5, CrashInv
<1>7. CASE ~ IsNull(cur.ni)
  <2>1. /\ Reached(Now, up) /\ up.s.paths = cur.s.paths
        /\ ~ IsNull(up.ni) => cur.ni.inum # Root /\ up.ni.inum = cur.ni.rec.parent.inum
    BY <1>3, <1>7, ParentGood
  <2>. HIDE DEF up
  <2>2. /\ Good(up.s) /\ up.s.disk = Now.disk /\ up.ni \in MemInodes
        /\ Agrees(Now.disk, cur.ni) /\ (IsNull(up.ni) \/ Agrees(Now.disk, up.ni))
    BY <2>1, ReachedClose, <1>3, <1>7 DEF Reached
  <2>4. Good(c) /\ c.disk = Now.disk /\ c.paths = cur.s.paths
    <3>. /\ c = CacheInode(up.s, cur.ni)
         /\ Closes(up.s, cur.ni, CacheInode(up.s, cur.ni))
      BY <1>4, <2>2, CloseGood DEF ntfs_inode_close
    <3>. QED
      BY <2>1, <2>2 DEF Quiet, Closes
  <2>. HIDE DEF c
  <2>5. Quiet(c, named.s) /\ named.path \in Paths /\ named.s.paths = c.paths
    BY <2>2, <2>4, NameGood
  <2>6. faults = 0 => Heading(disk, named.path, up.ni)
    <3>. SUFFICES ASSUME faults = 0, ~ IsNull(up.ni)
                  PROVE  Agrees(disk, up.ni) /\ Leads(disk, named.path) \subseteq {up.ni.inum}
      BY DEF Heading
    <3>. DEFINE k == cur.ni.inum
    <3>1. Leads(disk, p) = {k} /\ Tree(disk)
      BY <1>3, <1>7 DEF Resolved, Settled
    <3>2. disk \in Disks /\ Sound(disk)
      BY <1>2, GoodFields
    <3>3. k \in Records
      <4>. k \in Inums
        BY <1>4, InodeFields
      <4>. QED
        BY <2>1 DEF Inums
    <3>4. p \in Seq(Components) /\ Len(p) <= MaxDepth
      BY <1>2, PathFacts DEF Components
    <3>. HIDE DEF k
    <3>5. PICK u \in Seq(Components) :
              Len(u) + 1 = Len(p) /\ Leads(disk, u) = {disk.mft[k].parent.inum}
      BY <3>1, <3>2, <3>3, <3>4, LeadsParent
    <3>6. Len(u) < MaxDepth
      BY SMT, <3>4, <3>5, Bounds
    <3>7. up.ni.inum = disk.mft[k].parent.inum
      BY <1>2, <2>1, <2>2 DEF Agrees, Alike, k
    <3>. Agrees(c.disk, up.ni) /\ Tree(c.disk) /\ Leads(c.disk, u) = {up.ni.inum}
      BY <1>2, <2>2, <2>4, <3>1, <3>5, <3>7
    <3>. Leads(c.disk, named.path) = {up.ni.inum}
      BY <2>2, <2>4, <3>6, NameLeads
    <3>. QED
      BY <1>2, <2>4
  <2>. HIDE DEF named
  <2>7. LET x == ntfs_inode_close(named.s, up.ni, FALSE)
        IN  Good(x) /\ x.disk = disk /\ x.paths = cur.s.paths
    <3>1. ntfs_inode_close(named.s, up.ni, FALSE) = CacheInode(named.s, up.ni)
      BY DEF ntfs_inode_close
    <3>. Good(named.s) /\ named.s.disk = Now.disk
      BY <2>4, <2>5 DEF Quiet
    <3>. Closes(named.s, up.ni, CacheInode(named.s, up.ni))
      BY <2>2, CloseGood
    <3>. QED
      BY <1>2, <2>4, <2>5, <3>1 DEF Quiet, Closes
  <2>. Opens(named.s, up.ni, FALSE, g, named.path, mode)
    BY <1>1, <1>7
  <2>. QED
    BY <1>5, <2>2, <2>5, <2>7, <2>6, OpensInv
<1>. QED
  BY <1>6, <1>7

\* The last name of a path that a file is created by.
LEMMA LastName ==
    ASSUME load \in Workloads, NEW p \in load.paths, NEW name \in Suffixes(p)
    PROVE  Last(name) \in Names
<1>1. p \in Paths /\ (p # << >> => Last(p) # Dot)
  BY Zenon, LoadFacts
<1>2. p \in Seq(Names \cup {Dot})
  BY Zenon, <1>1, PathFacts
<1>3. PICK i \in 1 .. Len(p) : name = SubSeq(p, i, Len(p))
  BY Zenon DEF Suffixes
<1>4. Len(p) \in Nat /\ i \in 1 .. Len(p) /\ Len(p) \in 1 .. Len(p)
  BY <1>2
<1>5. name[Len(name)] = p[Len(p)] /\ p # << >>
  BY <1>2, <1>3, <1>4
<1>6. Last(name) = Last(p)
  BY Zenon, <1>5 DEF Last
<1>. p[Len(p)] \in Names \cup {Dot}
  BY <1>2, <1>4
<1>. QED
  BY Zenon, <1>1, <1>5, <1>6 DEF Last

\* Open of a path, and the creation of the file if there is none.
LEMMA OpenNameInv ==
    ASSUME FileInv, NEW h \in Handles, NEW g \in Handles, NEW p \in load.paths,
           NEW name \in Suffixes(p), NEW mode, NEW isdir \in BOOLEAN, NEW ro \in load.ro,
           OpenName(h, g, name, mode, isdir, ro)
    PROVE  FileInv'
<1>. USE Zenon
<1>. DEFINE path == handle[h].path \o name
            at == ntfs_pathname_to_inode(Now, path)
            cur == ntfs_pathname_to_inode(at.s, handle[h].path)
            free == {i \in FreeRecords(cur.s) : i <= load.files}
            made(i) == ntfs_create(cur.s, cur.ni, i, Last(name), isdir, ro)
            small == cur.ni.inum \notin LargeDirs
            dclosed(i) == ntfs_inode_close(made(i).s, made(i).dir, ~ IsNull(made(i).ni) /\ small)
<1>1. /\ path \in load.paths
      /\ IF ~ IsNull(at.ni) THEN Opens(at.s, at.ni, FALSE, g, path, mode)
         ELSE IF mode # "create" THEN Ends(at.s, handle)
         ELSE IF IsNull(cur.ni) \/ free = {}
         THEN Ends(ntfs_inode_close(cur.s, cur.ni, FALSE), handle)
         ELSE \E i \in free : /\ IsNull(made(i).ni) => disk.mft[i].seq < MaxSeq
                              /\ Opens(dclosed(i), made(i).ni, TRUE, g, path, mode)
  BY DEF OpenName
<1>2. load \in Workloads /\ handle \in [Handles -> HandleRecs]
  BY DEF FileInv
<1>3. path \in Paths /\ ro \in BOOLEAN
  BY <1>1, <1>2, LoadFacts
<1>4. Last(name) \in Names
  BY <1>2, LastName
<1>5. Good(Now) /\ handle[h].path \in Paths /\ Now.disk = disk
  BY NowFacts
<1>6. Reached(Now, at) /\ Resolved(path, at)
  BY <1>3, <1>5, PathnameGood, Resolves
<1>. HIDE DEF at, path
<1>7. /\ Good(at.s) /\ at.s.disk = disk /\ at.ni \in MemInodes
      /\ faults = 0 => Settled(disk, at.s.paths, handle)
      /\ faults = 0 /\ IsNull(at.ni) => Leads(disk, path) = {}
  BY <1>5, <1>6, ReachedClose DEF Resolved
<1>8. Reached(at.s, cur)
  BY <1>5, <1>7, PathnameGood
<1>9. faults = 0 => Settled(disk, cur.s.paths, handle)
  <2>. SUFFICES ASSUME faults = 0
                PROVE  Settled(disk, cur.s.paths, handle)
    OBVIOUS
  <2>1. Settled(disk, at.s.paths, handle)
    BY <1>7
  <2>2. Tree(at.s.disk) /\ Directed(at.s.disk, at.s.paths)
    BY <1>7, <2>1 DEF Settled
  <2>. Finds(at.s.disk, handle[h].path, cur)
    BY <1>5, <1>7, <2>2, PathnameFinds
  <2>. QED
    BY <1>7, <2>1 DEF Settled, Finds
<1>. HIDE DEF cur
<1>10. /\ Good(cur.s) /\ cur.s.disk = disk /\ cur.ni \in MemInodes
      /\ Good(ntfs_inode_close(cur.s, cur.ni, FALSE))
      /\ ntfs_inode_close(cur.s, cur.ni, FALSE).disk = disk
      /\ ntfs_inode_close(cur.s, cur.ni, FALSE).paths = cur.s.paths
  BY <1>7, <1>8, ReachedClose DEF Quiet
<1>11. CASE ~ IsNull(at.ni)
  <2>. /\ Opens(at.s, at.ni, FALSE, g, path, mode)
       /\ FoundOpens(path, at)
    BY <1>1, <1>11, <1>3, <1>6, FoundOpensGood
  <2>. QED
    BY <1>3, OpensInv DEF FoundOpens
<1>12. CASE IsNull(at.ni) /\ mode # "create"
  BY <1>1, <1>2, <1>7, <1>12, EndsInv
<1>13. CASE IsNull(at.ni) /\ mode = "create" /\ (IsNull(cur.ni) \/ free = {})
  <2>. Ends(ntfs_inode_close(cur.s, cur.ni, FALSE), handle)
    BY <1>1, <1>13
  <2>. QED
    BY <1>2, <1>10, <1>9, EndsInv
<1>14. CASE IsNull(at.ni) /\ mode = "create" /\ ~ IsNull(cur.ni) /\ free # {}
  <2>1. PICK i \in free : /\ IsNull(made(i).ni) => disk.mft[i].seq < MaxSeq
                          /\ Opens(dclosed(i), made(i).ni, TRUE, g, path, mode)
    BY <1>1, <1>14
  <2>2. /\ i \in FreeRecords(cur.s)
        /\ Agrees(cur.s.disk, cur.ni) /\ NotCached(cur.s, cur.ni.inum)
        /\ IsNull(made(i).ni) => cur.s.disk.mft[i].seq < MaxSeq
    BY <1>7, <1>8, <1>10, <1>14, <2>1 DEF Reached
  <2>5. Making(cur.s, cur.ni, i, Last(name), isdir, ro, made(i), dclosed(i))
    <3>. DEFINE m == Last(name)
    <3>. /\ Good(cur.s) /\ cur.ni \in MemInodes /\ Agrees(cur.s.disk, cur.ni)
         /\ NotCached(cur.s, cur.ni.inum) /\ i \in FreeRecords(cur.s) /\ m \in Names
         /\ isdir \in BOOLEAN /\ ro \in BOOLEAN
      BY <1>3, <1>4, <1>10, <2>2
    <3>. HIDE DEF m
    <3>. QED
      BY <2>2, MakingGood DEF m
  <2>. HIDE DEF made, dclosed
  <2>6. made(i).ni \in MemInodes /\ Good(ntfs_inode_close(dclosed(i), made(i).ni, TRUE))
    BY <2>5 DEF Making
  <2>. LET c == ntfs_inode_close(dclosed(i), made(i).ni, TRUE)
       IN  faults = 0 => Settled(c.disk, c.paths, handle) /\ Heading(c.disk, path, made(i).ni)
    <3>. SUFFICES ASSUME faults = 0
                  PROVE  MadeSettled(path, handle, made(i), dclosed(i))
      BY DEF MadeSettled
    <3>1. Settled(cur.s.disk, cur.s.paths, handle) /\ Leads(cur.s.disk, path) = {}
      BY <1>7, <1>10, <1>14, <1>9
    <3>. DEFINE x == made(i)
                y == dclosed(i)
                m == Last(name)
    <3>2. Making(cur.s, cur.ni, i, m, isdir, ro, x, y) /\ m \in Names
      BY <1>4, <2>5
    <3>. HIDE DEF x, y, m
    <3>3. /\ Good(cur.s) /\ cur.ni \in MemInodes /\ Agrees(cur.s.disk, cur.ni)
          /\ i \in FreeRecords(cur.s) /\ handle \in [Handles -> HandleRecs] /\ path \in Paths
          /\ IsNull(x.ni) => cur.s.disk.mft[i].seq < MaxSeq
      BY <1>2, <1>3, <1>10, <2>2 DEF x
    <3>. MadeSettled(path, handle, x, y)
      BY <3>1, <3>2, <3>3, MakingSettled
    <3>. QED
      BY DEF x, y
  <2>. QED
    BY <1>3, <2>1, <2>6, OpensInv
<1>. QED
  BY <1>11, <1>12, <1>13, <1>14

\* The handle after an operation through it.
LEMMA HandlePut ==
    ASSUME handle \in [Handles -> HandleRecs], NEW h \in Handles, NEW x \in HandleRecs
    PROVE  [handle EXCEPT ![h] = x] \in [Handles -> HandleRecs]
  BY Zenon

\* The handle with another position.
LEMMA HandlePos ==
    ASSUME handle \in [Handles -> HandleRecs], NEW h \in Handles, NEW pos \in Nat
    PROVE  [handle EXCEPT ![h].pos = pos] \in [Handles -> HandleRecs]
<1>. USE Zenon
<1>1. [handle EXCEPT ![h].pos = pos] = [handle EXCEPT ![h] = [handle[h] EXCEPT !.pos = pos]]
  OBVIOUS
<1>2. handle[h] \in HandleRecs
  OBVIOUS
<1>. [handle[h] EXCEPT !.pos = pos] \in HandleRecs
  BY <1>2 DEF HandleRecs
<1>. QED
  BY <1>1, HandlePut

\* The root directory is opened, in a new mount.
LEMMA OpenVolumeInv ==
    ASSUME FileInv, NEW h \in Handles, NtfsOpenVolume(h)
    PROVE  FileInv'
<1>. USE Zenon
<1>. DEFINE x == [Closed EXCEPT !.open = TRUE, !.root = TRUE, !.dir = TRUE,
                                !.file = Ref(Root, 1)]
<1>1. /\ handle' = [handle EXCEPT ![h] = x]
      /\ disk' = disk /\ paths' = << >> /\ inodes' = << >>
      /\ UNCHANGED <<readOnly, load, crashed, faults>>
  BY DEF NtfsOpenVolume
<1>2. x \in HandleRecs
  <2>1. Ref(Root, 1) \in Refs
    BY SMT, Bounds DEF Ref, Refs, Inums
  <2>. DEFINE r == Ref(Root, 1)
  <2>. HIDE DEF r
  <2>. [Closed EXCEPT !.open = TRUE, !.root = TRUE, !.dir = TRUE, !.file = r] \in HandleRecs
    BY <2>1, ClosedFacts DEF HandleRecs, r
  <2>. QED
    BY DEF r
<1>3. x.path = << >> /\ x.size = 0 /\ x.file.inum = Root /\ x.file.seq = 1
  BY DEF Closed, Ref
<1>. HIDE DEF x
<1>4. disk \in Disks /\ Sound(disk) /\ load.size \in Nat
  BY NowFacts, GoodFields DEF Good
<1>5. [handle EXCEPT ![h] = x] \in [Handles -> HandleRecs]
  BY <1>2, HandlePut DEF FileInv
<1>6. Good(Now)'
  <2>. PathsKeyed(paths') /\ InodesKeyed(inodes') /\ \A e \in Range(inodes') : Agrees(disk', e)
    BY <1>1, EmptyCaches
  <2>. QED
    BY <1>1, <1>4, GoodNow
<1>7. ASSUME faults = 0
      PROVE  Settled(disk, << >>, [handle EXCEPT ![h] = x])
  <2>1. Settled(disk, paths, handle) /\ handle \in [Handles -> HandleRecs]
    BY <1>7 DEF FileInv
  <2>2. disk.mft \in [Inums -> RecordType] /\ Root \in Inums
    BY <1>4, NowFacts, GoodFields, Numbered
  <2>3. Leads(disk, << >>) = {Root} /\ disk.mft[Root].used
    BY <2>1, <1>4, <2>2, LeadsRoot DEF Settled, Tree
  <2>4. disk.mft[Root].seq \in 1 .. MaxSeq /\ disk.mft[Root].size \in 0 .. load.size
    BY <2>2, RecordFields
  <2>5. /\ x.file.seq < disk.mft[Root].seq \/ x.file.seq = disk.mft[Root].seq
        /\ x.size <= disk.mft[Root].size
    BY SMT, <1>3, <2>4
  <2>6. Settled(disk, << >>, handle)
    BY <2>1, EmptyCaches DEF Settled, Directed
  <2>. Placed(disk, x)
    BY <1>3, <2>3, <2>5 DEF Placed
  <2>. QED
    BY <2>1, <2>6, SettledHandle
<1>. QED
  BY <1>1, <1>5, <1>6, <1>7 DEF FileInv

\* A handle is closed.
LEMMA CloseInv ==
    ASSUME FileInv, NEW h \in Handles, NtfsClose(h)
    PROVE  FileInv'
<1>. USE Zenon
<1>. /\ [handle EXCEPT ![h] = Closed] \in [Handles -> HandleRecs]
     /\ Ends(Now, [handle EXCEPT ![h] = Closed])
     /\ faults = 0 => Settled(disk, paths, [handle EXCEPT ![h] = Closed])
  BY ClosedFacts, HandlePut, NowFacts, SettledClosed DEF FileInv, Ends, NtfsClose
<1>. QED
  BY NowFacts, EndsInv

\* The position is set.
LEMMA SetPositionInv ==
    ASSUME FileInv, NEW h \in Handles, NEW p \in Nat, NtfsSetPosition(h, p)
    PROVE  FileInv'
<1>. USE Zenon
<1>. /\ [handle EXCEPT ![h].pos = p] \in [Handles -> HandleRecs]
     /\ Ends(Now, [handle EXCEPT ![h].pos = p])
     /\ faults = 0 => Settled(disk, paths, [handle EXCEPT ![h].pos = p])
  BY HandlePos, NowFacts, SettledPos DEF FileInv, Ends, NtfsSetPosition
<1>. QED
  BY NowFacts, EndsInv

\* What is read moves the position.
LEMMA ReadInv ==
    ASSUME FileInv, NEW h \in Handles, NEW n \in Nat, NtfsRead(h, n)
    PROVE  FileInv'
<1>. USE Zenon
<1>. DEFINE f == handle[h]
            at == ntfs_pathname_to_inode(Now, f.path)
            s == ntfs_inode_close(at.s, at.ni, FALSE)
            size == at.ni.rec.size
            there == IF f.pos < size THEN size - f.pos ELSE 0
            got == IF n < there THEN n ELSE there
<1>1. \/ Crashes(Now)
      \/ Ends(s, handle)
      \/ Ends(s, [handle EXCEPT ![h].pos = @ + got])
  BY DEF NtfsRead
<1>2. Good(Now) /\ f.path \in Paths /\ f \in HandleRecs /\ handle \in [Handles -> HandleRecs]
  BY NowFacts DEF FileInv
<1>3. Reached(Now, at) /\ Resolved(f.path, at)
  BY <1>2, PathnameGood, Resolves
<1>. HIDE DEF at
<1>4. /\ Good(s) /\ at.ni \in MemInodes
      /\ faults = 0 => Settled(s.disk, s.paths, handle)
  BY <1>2, <1>3, FoundOpensGood DEF FoundOpens
<1>. HIDE DEF s
<1>5. size \in Nat /\ f.pos \in Nat
  <2>. /\ size \in 0 .. load.size /\ load.size \in Nat
       /\ f.pos \in Nat
    BY <1>2, <1>4, InodeFields, RecordFields, GoodFields DEF HandleRecs
  <2>. QED
    BY SMT
<1>. HIDE DEF size
<1>6. f.pos + got \in Nat
  BY SMT, <1>5
<1>7. [handle EXCEPT ![h].pos = @ + got] = [handle EXCEPT ![h].pos = f.pos + got]
  OBVIOUS
<1>. HIDE DEF got
<1>8. /\ [handle EXCEPT ![h].pos = f.pos + got] \in [Handles -> HandleRecs]
      /\ faults = 0 => Settled(s.disk, s.paths, [handle EXCEPT ![h].pos = f.pos + got])
  BY <1>2, <1>6, HandlePos, <1>4, SettledPos
<1>10. CASE Crashes(Now)
  BY <1>2, <1>10, NowFacts, CrashInv DEF FileInv
<1>11. CASE Ends(s, handle)
  BY <1>2, <1>4, <1>11, EndsInv
<1>12. CASE Ends(s, [handle EXCEPT ![h].pos = @ + got])
  BY <1>4, <1>7, <1>8, <1>12, EndsInv
<1>. QED
  BY <1>1, <1>10, <1>11, <1>12

\* What is written moves the position and may extend the file.
LEMMA WriteInv ==
    ASSUME FileInv, NEW h \in Handles, NEW n \in Nat, NEW m \in 0 .. n, NtfsWrite(h, n, m)
    PROVE  FileInv'
<1>. USE Zenon
<1>. DEFINE f == handle[h]
            at == ntfs_pathname_to_inode(Now, f.path)
            size == IF m > 0 /\ f.pos + m > at.ni.rec.size THEN f.pos + m ELSE at.ni.rec.size
            ni == [at.ni EXCEPT !.rec.size = size]
            s == IF ni = at.ni THEN ntfs_inode_close(at.s, ni, FALSE) ELSE CloseChanged(at.s, ni)
            c == ntfs_inode_close(at.s, at.ni, FALSE)
<1>1. /\ f.pos + n <= load.size
      /\ \/ Ends(c, handle)
         \/ /\ ~ IsNull(at.ni)
            /\ Ends(s, handle) \/ Ends(s, Written(h, n, size)) \/ CutShort(s)
  BY DEF NtfsWrite
<1>2. Good(Now) /\ f.path \in Paths /\ f \in HandleRecs /\ handle \in [Handles -> HandleRecs]
  BY NowFacts DEF FileInv
<1>3. Reached(Now, at) /\ Resolved(f.path, at)
  BY <1>2, PathnameGood, Resolves
<1>. HIDE DEF at
<1>4. Good(c) /\ at.ni \in MemInodes /\ (faults = 0 => Settled(c.disk, c.paths, handle))
  BY <1>2, <1>3, FoundOpensGood DEF FoundOpens
<1>. HIDE DEF c
<1>5. f.pos \in Nat /\ load.size \in Nat /\ at.ni.rec.size \in 0 .. load.size
  <2>. /\ at.ni.rec.size \in 0 .. load.size /\ load.size \in Nat
       /\ f.pos \in Nat
    BY <1>2, <1>4, InodeFields, RecordFields, GoodFields DEF HandleRecs
  <2>. QED
    OBVIOUS
<1>6. size \in 0 .. load.size /\ size \in Nat /\ f.pos + n \in Nat /\ at.ni.rec.size <= size
  <2>. DEFINE x == at.ni.rec.size
              q == f.pos
  <2>. HIDE DEF x, q
  <2>1. q \in Nat /\ load.size \in Nat /\ x \in 0 .. load.size /\ q + n <= load.size
    BY <1>1, <1>5 DEF x, q
  <2>. LET z == IF m > 0 /\ q + m > x THEN q + m ELSE x
       IN  z \in 0 .. load.size /\ z \in Nat /\ q + n \in Nat /\ x <= z
    BY SMT, <2>1
  <2>. QED
    BY DEF x, q
<1>. HIDE DEF size
<1>7. ~ IsNull(at.ni) => Wrote(Now, at, size, s)
  BY <1>3, <1>6, WroteGood
<1>. HIDE DEF s
<1>8. ~ IsNull(at.ni) => Good(s)
  BY <1>7 DEF Wrote
<1>. DEFINE x == [f EXCEPT !.pos = f.pos + n, !.size = size]
<1>9. Written(h, n, size) = [handle EXCEPT ![h] = x]
  BY <1>2 DEF Written
<1>10. Written(h, n, size) \in [Handles -> HandleRecs]
  <2>. x \in HandleRecs
    BY <1>2, <1>6 DEF HandleRecs
  <2>. HIDE DEF x
  <2>. QED
    BY <1>2, <1>9, HandlePut
<1>11. ASSUME faults = 0, ~ IsNull(at.ni)
       PROVE  Settled(s.disk, s.paths, handle) /\ Settled(s.disk, s.paths, Written(h, n, size))
  <2>1. /\ Now.disk = disk /\ Good(at.s) /\ Agrees(disk, at.ni)
        /\ Settled(disk, at.s.paths, handle) /\ Leads(disk, f.path) = {at.ni.inum}
    BY <1>3, <1>11, NowFacts, ReachedClose DEF Reached, Resolved
  <2>2. Settled(s.disk, s.paths, handle)
    BY <1>2, <1>4, <1>6, <1>7, <1>11, <2>1, WroteSettled
  <2>3. /\ Placed(disk, f) /\ Placed(s.disk, f)
        /\ at.ni.inum \in Inums
    BY <2>1, <2>2, <1>4, InodeFields DEF Settled
  <2>5. Placed(s.disk, x)
    BY <1>2, <1>6, <1>7, <1>11, <2>1, <2>3, WrittenPlaced
  <2>. HIDE DEF x
  <2>. Settled(s.disk, s.paths, [handle EXCEPT ![h] = x])
    BY <1>2, <2>2, <2>5, SettledHandle
  <2>. QED
    BY <1>9, <2>2
<1>12. CASE Ends(c, handle)
  BY <1>2, <1>4, <1>12, EndsInv
<1>13. CASE ~ IsNull(at.ni) /\ Ends(s, handle)
  BY <1>2, <1>8, <1>11, <1>13, EndsInv
<1>14. CASE ~ IsNull(at.ni) /\ Ends(s, Written(h, n, size))
  BY <1>8, <1>10, <1>11, <1>14, EndsInv
<1>15. CASE ~ IsNull(at.ni) /\ CutShort(s)
  BY <1>8, <1>15, CutInv
<1>. QED
  BY <1>1, <1>12, <1>13, <1>14, <1>15

\* SetInfo changes attributes in memory only.
LEMMA SetFileInfoInv ==
    ASSUME FileInv, NEW h \in Handles, NEW valid \in BOOLEAN, NEW dirbit \in BOOLEAN,
           NEW ro \in BOOLEAN, NtfsSetFileInfo(h, valid, dirbit, ro)
    PROVE  FileInv'
<1>. USE Zenon
<1>. DEFINE p == handle[h].path
            at == ntfs_pathname_to_inode(Now, p)
            x == [at.ni EXCEPT !.rec.ro = ro]
            ni == IF valid /\ ~ dirbit THEN x ELSE at.ni
            c == ntfs_inode_close(at.s, ni, FALSE)
<1>1. IF IsNull(at.ni) /\ valid THEN Crashes(at.s) ELSE Ends(c, handle)
  BY DEF NtfsSetFileInfo
<1>2. Good(Now) /\ p \in Paths /\ handle \in [Handles -> HandleRecs]
  BY NowFacts DEF FileInv
<1>3. Reached(Now, at) /\ Resolved(p, at)
  BY <1>2, PathnameGood, Resolves
<1>. HIDE DEF at, p
<1>4. Good(at.s) /\ at.ni \in MemInodes /\ at.s.disk = Now.disk
  BY <1>3, ReachedClose
<1>5. x \in MemInodes /\ x.inum = at.ni.inum /\ Alike(x.rec, at.ni.rec)
  BY <1>4, AttrFacts
<1>. HIDE DEF x
<1>6. IsNull(at.ni) \/ Agrees(at.s.disk, at.ni)
  BY <1>3, <1>4 DEF Reached
<1>7. ni \in MemInodes /\ (IsNull(ni) \/ Agrees(at.s.disk, ni))
  <2>. IsNull(x) \/ Agrees(at.s.disk, x)
    BY <1>5, <1>6 DEF IsNull, Agrees, Alike
  <2>. QED
    BY <1>4, <1>5, <1>6
<1>. HIDE DEF ni
<1>8. Good(c) /\ c.disk = at.s.disk /\ c.paths = at.s.paths
  <2>. /\ c = CacheInode(at.s, ni)
       /\ Closes(at.s, ni, CacheInode(at.s, ni))
    BY <1>4, <1>7, CloseGood DEF ntfs_inode_close
  <2>. QED
    BY DEF Quiet, Closes
<1>. HIDE DEF c
<1>9. faults = 0 => Settled(at.s.disk, at.s.paths, handle)
  BY <1>3, <1>4, NowFacts DEF Resolved
<1>10. CASE Crashes(at.s)
  BY <1>4, <1>9, <1>10, CrashInv
<1>11. CASE Ends(c, handle)
  BY <1>2, <1>8, <1>9, <1>11, EndsInv
<1>. QED
  BY <1>1, <1>10, <1>11

\* A file is deleted, or the handle only closed.
LEMMA DeleteInv ==
    ASSUME FileInv, NEW h \in Handles, NtfsDelete(h)
    PROVE  FileInv'
<1>. USE Zenon
<1>. DEFINE path == handle[h].path
            at == ntfs_pathname_to_inode(Now, path)
            dir == ntfs_dir_parent_inode(at.s, at.ni)
            done == ntfs_delete(dir.s, path, dir.ni, at.ni, NameOf(path))
            closed == [handle EXCEPT ![h] = Closed]
<1>1. /\ disk.mft[at.ni.inum].seq < MaxSeq
      /\ \/ Ends(Now, closed)
         \/ Crashes(at.s)
         \/ ~ IsNull(at.ni) /\ (Ends(done, closed) \/ CutShort(done))
  BY DEF NtfsDelete
<1>2. Good(Now) /\ path \in Paths /\ Now.disk = disk /\ handle \in [Handles -> HandleRecs]
  BY NowFacts DEF FileInv
<1>3. /\ closed \in [Handles -> HandleRecs]
      /\ \A d, ps : Settled(d, ps, handle) => Settled(d, ps, closed)
  BY <1>2, ClosedFacts, HandlePut, SettledClosed
<1>. HIDE DEF closed
<1>4. Reached(Now, at) /\ Resolved(path, at)
  BY <1>2, PathnameGood, Resolves
<1>. HIDE DEF at, path
<1>5. /\ Good(at.s) /\ at.s.disk = disk /\ at.ni \in MemInodes
      /\ faults = 0 => Settled(disk, at.s.paths, handle)
      /\ ~ IsNull(at.ni) => Deleting(Now, path, at, dir, done)
  BY <1>2, <1>4, ReachedClose, <1>1, DeletingGood DEF Resolved
<1>. HIDE DEF done, dir
<1>7. ~ IsNull(at.ni) => Good(done)
  BY <1>5 DEF Deleting
<1>8. faults = 0 /\ ~ IsNull(at.ni) => Settled(done.disk, done.paths, handle)
  <2>. SUFFICES ASSUME faults = 0, ~ IsNull(at.ni)
                PROVE  Settled(done.disk, done.paths, handle)
    OBVIOUS
  <2>. /\ Agrees(Now.disk, at.ni)
       /\ Settled(Now.disk, at.s.paths, handle) /\ Now.disk.mft[at.ni.inum].seq < MaxSeq
    BY <1>4, <1>1, <1>2, <1>5 DEF Reached
  <2>. QED
    BY <1>2, <1>5, DeletingSettled
<1>9. CASE Ends(Now, closed)
  BY <1>2, <1>3, <1>9, NowFacts, EndsInv DEF FileInv
<1>10. CASE Crashes(at.s)
  BY <1>5, <1>10, CrashInv
<1>11. CASE ~ IsNull(at.ni) /\ Ends(done, closed)
  BY <1>3, <1>7, <1>8, <1>11, EndsInv
<1>12. CASE ~ IsNull(at.ni) /\ CutShort(done)
  BY <1>7, <1>12, CutInv
<1>. QED
  BY <1>1, <1>9, <1>10, <1>11, <1>12

-----------------------------------------------------------------------------
(* The theorems.                                                           *)

\* The volume is mounted.
LEMMA InitInv ==
    ASSUME Init
    PROVE  FileInv
<1>. USE Zenon
<1>1. /\ disk = EmptyDisk /\ paths = << >> /\ inodes = << >> /\ load \in Workloads
      /\ handle = [h \in Handles |-> Closed] /\ readOnly \in BOOLEAN
      /\ crashed = FALSE /\ faults = 0
  BY DEF Init
<1>2. load.size \in Nat /\ load.faults \in Nat
  BY <1>1, LoadFacts
<1>3. /\ disk \in Disks /\ disk.bitmap = {} /\ \A i \in Records : disk.mft[i] = Unused(1)
      /\ \A i \in Inums : disk.mft[i].ents = NoEntries
  BY <1>1, <1>2, EmptyDiskFacts
<1>4. \A i \in Records : ~ disk.mft[i].used
  <2>. ~ Unused(1).used
    BY DEF Unused
  <2>. QED
    BY <1>3
<1>5. Sound(disk)
  <2>. /\ Covered(disk) /\ Above(disk)
       /\ Told(disk)
    BY <1>4, <1>3, NoEntryFacts DEF Covered, Above, Told, EntryTold
  <2>. QED
    BY DEF Sound
<1>6. /\ Now.disk = disk /\ Now.paths = << >> /\ Now.inodes = << >> /\ Now.cuts = {disk}
      /\ Now \in Sessions
  <2>1. /\ paths \in Seq(PathEntries) /\ inodes \in Seq(MemInodes)
        /\ disk \in Disks
    BY <1>1, EmptyCaches, <1>3 DEF PathsKeyed, InodesKeyed, Keyed
  <2>. /\ Now.disk = disk /\ Now.paths = paths /\ Now.inodes = inodes /\ Now.cuts = {disk}
       /\ Now \in Sessions
    BY SMT, <2>1, SessionFields DEF Now
  <2>. QED
    BY <1>1
<1>7. /\ Good(Now)
      /\ handle \in [Handles -> HandleRecs]
  BY <1>2, <1>5, <1>6, EmptyCaches, <1>1, ClosedFacts DEF Good
<1>9. faults \in 0 .. load.faults /\ crashed \in BOOLEAN
  <2>. 0 \in 0 .. load.faults
    BY SMT, <1>2
  <2>. QED
    BY <1>1
<1>. Settled(disk, paths, handle)
  <2>1. /\ disk.mft[Root].used /\ disk.mft[Root].name = Dot
        /\ disk.mft[Root].parent.inum = Root
        /\ \A i \in Inums, k \in Keys : disk.mft[i].ents[k] = NoEntry
    BY <1>1, <1>2, EmptyDiskFacts, RootFacts, <1>3, NoEntryFacts
  <2>3. /\ Tree(disk)
        /\ Directed(disk, paths)
    BY <1>4, <2>1, <1>1, EmptyCaches DEF Tree, Backed, Empty, Directed
  <2>5. ~ Closed.open
    BY DEF Closed
  <2>. \A h \in Handles : Placed(disk, handle[h])
    BY <1>1, <2>5 DEF Placed
  <2>. QED
    BY <2>3 DEF Settled
<1>. QED
  BY <1>1, <1>7, <1>9 DEF FileInv

\* A step that changes nothing.
LEMMA StutterInv ==
    ASSUME FileInv, UNCHANGED vars
    PROVE  FileInv'
<1>. USE Zenon
<1>1. /\ disk' = disk /\ paths' = paths /\ inodes' = inodes /\ handle' = handle
      /\ UNCHANGED <<readOnly, load, crashed, faults>>
  BY DEF vars
<1>. Ends(Now, handle)
  BY <1>1, NowFacts DEF Ends
<1>. QED
  BY NowFacts, EndsInv DEF FileInv

\* Every step of the driver keeps the invariant.
LEMMA NextInv ==
    ASSUME FileInv, [Next]_vars
    PROVE  FileInv'
<1>. USE Zenon
<1>1. load \in Workloads /\ load.ro \subseteq BOOLEAN /\ load.size \in Nat
  BY LoadFacts DEF FileInv
<1>2. CASE \E h \in Handles : NtfsOpenVolume(h) \/ NtfsClose(h) \/ NtfsDelete(h)
  BY <1>2, OpenVolumeInv, CloseInv, DeleteInv
<1>3. CASE NtfsOpen
  <2>1. PICK h \in Handles, g \in Handles, mode \in Modes :
            \/ OpenDot(h, g, mode)
            \/ OpenDotDot(h, g, mode)
            \/ \E name \in UNION {Suffixes(p) : p \in load.paths},
                  isdir \in BOOLEAN, ro \in load.ro :
                  OpenName(h, g, name, mode, isdir, ro)
    BY <1>3 DEF NtfsOpen
  <2>2. CASE OpenDot(h, g, mode) \/ OpenDotDot(h, g, mode)
    BY <2>2, OpenDotInv, OpenDotDotInv
  <2>3. CASE \E name \in UNION {Suffixes(p) : p \in load.paths},
                isdir \in BOOLEAN, ro \in load.ro :
                OpenName(h, g, name, mode, isdir, ro)
    <3>1. PICK name \in UNION {Suffixes(p) : p \in load.paths}, isdir \in BOOLEAN, ro \in load.ro :
              OpenName(h, g, name, mode, isdir, ro)
      BY <2>3
    <3>. PICK p \in load.paths : name \in Suffixes(p)
      OBVIOUS
    <3>. QED
      BY <3>1, OpenNameInv
  <2>. QED
    BY <2>1, <2>2, <2>3
<1>4. CASE NtfsIFileAccess
  <2>1. PICK h \in Handles, n \in 0 .. load.size :
            NtfsRead(h, n) \/ \E m \in 0 .. n : NtfsWrite(h, n, m)
    BY <1>4 DEF NtfsIFileAccess
  <2>. n \in Nat
    BY SMT, <1>1
  <2>. QED
    BY <2>1, ReadInv, WriteInv
<1>5. CASE SetPosition
  <2>. PICK h \in Handles : \E p \in 0 .. load.size \cup {handle[h].size} : NtfsSetPosition(h, p)
    BY <1>5 DEF SetPosition
  <2>1. PICK p \in 0 .. load.size \cup {handle[h].size} : NtfsSetPosition(h, p)
    OBVIOUS
  <2>2. handle[h] \in HandleRecs
    BY NowFacts
  <2>3. handle[h].size \in Nat
    BY <2>2 DEF HandleRecs
  <2>. p \in Nat
    BY SMT, <1>1, <2>3
  <2>. QED
    BY <2>1, SetPositionInv
<1>6. CASE NtfsSetInfo
  <2>1. PICK h \in Handles, valid \in BOOLEAN, dirbit \in BOOLEAN, ro \in load.ro :
            NtfsSetFileInfo(h, valid, dirbit, ro)
    BY <1>6 DEF NtfsSetInfo
  <2>. ro \in BOOLEAN
    BY <1>1
  <2>. QED
    BY <2>1, SetFileInfoInv
<1>7. CASE PowerLoss
  BY <1>7, NowFacts, CutInv DEF PowerLoss
<1>8. CASE Halted \/ UNCHANGED vars
  BY <1>8, StutterInv DEF Halted
<1>. QED
  BY <1>2, <1>3, <1>4, <1>5, <1>6, <1>7, <1>8 DEF Next

\* FileInv holds in every reachable state.
THEOREM FileInvariant == Spec => []FileInv
<1>1. /\ Init => FileInv
      /\ FileInv /\ [Next]_vars => FileInv'
  BY Zenon, InitInv, NextInv
<1>. QED
  BY <1>1, PTL DEF Spec

\* The variables have their types, and neither cache is longer than its size or
\* has an entry twice.
THEOREM TypesHold == Spec => []TypeOK
<1>1. FileInv => TypeOK
  <2>. SUFFICES ASSUME FileInv PROVE TypeOK
    BY Zenon
  <2>1. Good(Now) /\ Now.disk = disk /\ Now.paths = paths /\ Now.inodes = inodes
    BY Zenon, NowFacts
  <2>2. /\ disk \in Disks /\ InodesKeyed(inodes) /\ PathsKeyed(paths)
        /\ Range(inodes) \subseteq MemInodes /\ Range(paths) \subseteq PathEntries
    BY Zenon, <2>1, GoodFields DEF Good
  <2>3. /\ \A e \in Range(paths) : e.path \in Paths /\ e.inum \in Inums
        /\ \A e \in Range(inodes) : e.inum \in Inums /\ e.rec \in RecordType
    BY Zenon, <2>2, InodeFields DEF PathEntries
  <2>5. Len(inodes) <= InodeCacheSize /\ IsInjective([k \in DOMAIN inodes |-> inodes[k].inum])
    <3>. /\ inodes \in Seq(MemInodes) /\ Len(inodes) <= InodeCacheSize
         /\ \A a, b \in 1 .. Len(inodes) : InodeKey[inodes[a]] = InodeKey[inodes[b]] => a = b
      BY Zenon, <2>2 DEF InodesKeyed, Keyed
    <3>. DOMAIN inodes = 1 .. Len(inodes) /\ \A a \in 1 .. Len(inodes) : inodes[a] \in MemInodes
      OBVIOUS
    <3>. QED
      BY Zenon DEF InodeKey, IsInjective
  <2>6. Len(paths) <= PathCacheSize /\ IsInjective([k \in DOMAIN paths |-> paths[k].path])
    <3>. /\ paths \in Seq(PathEntries) /\ Len(paths) <= PathCacheSize
         /\ \A a, b \in 1 .. Len(paths) : PathKey[paths[a]] = PathKey[paths[b]] => a = b
      BY Zenon, <2>2 DEF PathsKeyed, Keyed
    <3>. DOMAIN paths = 1 .. Len(paths) /\ \A a \in 1 .. Len(paths) : paths[a] \in PathEntries
      OBVIOUS
    <3>. QED
      BY Zenon DEF PathKey, IsInjective
  <2>. readOnly \in BOOLEAN /\ crashed \in BOOLEAN /\ faults \in 0 .. load.faults
    BY Zenon DEF FileInv
  <2>. QED
    BY Zenon, <2>2, <2>3, <2>5, <2>6 DEF TypeOK, Disks
<1>. QED
  BY <1>1, FileInvariant, PTL

\* A record in use is marked in the MFT bitmap, after any number of power
\* losses at any write: ntfs_mft_record_alloc never gives it to a second file.
THEOREM BitmapCovered == Spec => []BitmapCovers
<1>1. FileInv => BitmapCovers
  BY Zenon, NowFacts, GoodFields DEF Sound, Covered, BitmapCovers
<1>. QED
  BY <1>1, FileInvariant, PTL

\* After any number of power losses, an index entry with the sequence number of
\* a record in use is the entry of the file in that record: what a power loss
\* in ntfs_create or ntfs_delete leaves behind can be told from a file.
THEOREM EntriesAreTold == Spec => []EntriesTold
<1>1. FileInv => EntriesTold
  <2>. SUFFICES ASSUME FileInv, NEW d \in Inums, NEW k \in Keys,
                       LET ref == disk.mft[d].ents[k]
                           rec == disk.mft[ref.inum]
                       IN  ref # NoEntry /\ rec.used /\ rec.seq = ref.seq
                PROVE  LET rec == disk.mft[disk.mft[d].ents[k].inum]
                       IN  rec.parent.inum = d /\ Upcase[rec.name] = k
    BY Zenon DEF EntriesTold
  <2>. EntryTold(disk, d, k, disk.mft[d].ents[k])
    BY Zenon, NowFacts, GoodFields DEF Sound, Told
  <2>. QED
    BY Zenon DEF EntryTold
<1>. QED
  BY <1>1, FileInvariant, PTL

\* Two records that differ in the attributes only.
LEMMA AlikeEqual ==
    ASSUME NEW r \in RecordType, NEW q \in RecordType, Alike(r, q)
    PROVE  [r EXCEPT !.ro = FALSE] = [q EXCEPT !.ro = FALSE]
  BY Zenon DEF RecordType, Alike

\* An inode in the cache of closed inodes is in use and is what the disk has:
\* no close, sync, create, delete or power loss leaves an obsolete copy that a
\* later ntfs_inode_open would return.
THEOREM InodeCacheHolds == Spec => []InodeCacheAgrees
<1>1. FileInv => InodeCacheAgrees
  <2>. SUFFICES ASSUME FileInv, NEW e \in Range(inodes)
                PROVE  /\ e.rec.used
                       /\ [e.rec EXCEPT !.ro = FALSE] = [disk.mft[e.inum] EXCEPT !.ro = FALSE]
    BY Zenon DEF InodeCacheAgrees
  <2>1. Agrees(disk, e) /\ e \in MemInodes /\ disk.mft \in [Inums -> RecordType]
    BY Zenon, NowFacts, GoodFields
  <2>. /\ e.rec \in RecordType /\ disk.mft[e.inum] \in RecordType
       /\ e.rec.used /\ Alike(e.rec, disk.mft[e.inum])
    BY Zenon, <2>1, InodeFields DEF Agrees
  <2>. QED
    BY Zenon, AlikeEqual
<1>. QED
  BY <1>1, FileInvariant, PTL

\* Until the power is lost, a path in the cache leads where the directories on
\* the disk lead: ntfs_create and ntfs_delete leave no stale path behind, by
\* whatever spelling the name was cached.
THEOREM PathCacheHolds == Spec => [](faults = 0 => PathCacheAgrees)
<1>1. FileInv /\ TypeOK => (faults = 0 => PathCacheAgrees)
  BY Zenon DEF FileInv, Settled, Directed, PathCacheAgrees
<1>. QED
  BY <1>1, FileInvariant, TypesHold, PTL

\* Until the power is lost, an operation on a handle finds the file that the
\* handle was opened on for as long as the file exists, whatever is created,
\* deleted, cached or dropped through other handles and other spellings.
THEOREM HandlesFind == Spec => [](faults = 0 => HandleFindsFile)
<1>1. FileInv => (faults = 0 => HandleFindsFile)
  <2>. USE Zenon
  <2>. SUFFICES ASSUME FileInv, faults = 0, NEW h \in Handles, Live(h)
                PROVE  LET at == ntfs_pathname_to_inode(Now, handle[h].path)
                       IN  ~ IsNull(at.ni) /\ Ref(at.ni.inum, at.ni.rec.seq) = handle[h].file
    BY Zenon DEF HandleFindsFile
  <2>. DEFINE f == handle[h]
              at == ntfs_pathname_to_inode(Now, f.path)
              i == f.file.inum
  <2>1. f.open /\ disk.mft[i].used /\ disk.mft[i].seq = f.file.seq
    BY Zenon DEF Live
  <2>2. /\ Good(Now) /\ Now.disk = disk /\ f \in HandleRecs /\ f.path \in Paths
        /\ disk.mft \in [Inums -> RecordType]
    BY Zenon, NowFacts, GoodFields
  <2>3. Resolved(f.path, at) /\ Reached(Now, at)
    BY Zenon, <2>2, Resolves, PathnameGood
  <2>4. Placed(disk, f)
    BY Zenon DEF FileInv, Settled
  <2>. HIDE DEF at, f
  <2>5. i \in Inums /\ f.file = Ref(i, f.file.seq)
    BY Zenon, <2>2 DEF HandleRecs, Refs, Ref
  <2>6. ~ (f.file.seq < disk.mft[i].seq)
    <3>. disk.mft[i].seq \in 1 .. MaxSeq
      BY Zenon, <2>2, <2>5, RecordFields
    <3>. QED
      BY SMT, <2>1
  <2>7. Leads(disk, f.path) = {i}
    BY Zenon, <2>1, <2>4, <2>6 DEF Placed
  <2>. ~ IsNull(at.ni) /\ at.ni.inum = i
    BY Zenon, <2>3, <2>7 DEF Resolved
  <2>. at.ni.rec.seq = f.file.seq
    BY Zenon, <2>1, <2>2, <2>3 DEF Reached, Agrees, Alike
  <2>. QED
    BY Zenon, <2>5 DEF at, f
<1>. QED
  BY <1>1, FileInvariant, PTL

\* Until the power is lost, the size in FileInfo is not ahead of the file, so
\* what Read takes for readable and SetPosition for the end is in the file.
THEOREM SizesNotAhead == Spec => [](faults = 0 => SizeNotAhead)
<1>1. FileInv => (faults = 0 => SizeNotAhead)
  <2>. USE Zenon
  <2>. SUFFICES ASSUME FileInv, faults = 0, NEW h \in Handles, Live(h)
                PROVE  handle[h].size <= disk.mft[handle[h].file.inum].size
    BY Zenon DEF SizeNotAhead
  <2>. DEFINE f == handle[h]
              r == disk.mft[f.file.inum]
  <2>1. f.open /\ r.seq = f.file.seq /\ f \in HandleRecs /\ disk.mft \in [Inums -> RecordType]
    BY Zenon, NowFacts, GoodFields DEF Live
  <2>2. Placed(disk, f)
    BY Zenon DEF FileInv, Settled
  <2>. ~ (f.file.seq < r.seq)
    <3>1. f.file.inum \in Inums
      BY Zenon, <2>1 DEF HandleRecs, Refs
    <3>. r.seq \in 1 .. MaxSeq
      BY Zenon, <2>1, <3>1, RecordFields
    <3>. QED
      BY SMT, <2>1
  <2>. QED
    BY Zenon, <2>1, <2>2 DEF Placed
<1>. QED
  BY <1>1, FileInvariant, PTL
=============================================================================
