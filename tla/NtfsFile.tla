------------------------------ MODULE NtfsFile ------------------------------
(***************************************************************************)
(* Files and directories through the EFI_FILE_PROTOCOL handles of a        *)
(* mounted volume.  A handle keeps a path and a copy of the file's         *)
(* information, and no inode: every operation looks the path up again      *)
(* (NtfsInode), so two handles meet only on the disk and in the caches.    *)
(*                                                                         *)
(* An operation holds NtfsFsLock from start to end and is one step, or is  *)
(* cut short by a power loss after any of its writes.  NtfsVolume models   *)
(* the reference counts and the reentrancy of the operations,              *)
(* NtfsDirectory the reading of a directory.                               *)
(***************************************************************************)
EXTENDS NtfsInode

CONSTANTS
    Handles,        \* addresses of NTFS_IFILE instances
    IndexOrder,     \* the upcased names in the order that an index has them
    MaxSeq,         \* bound on the reuse of a record
    Workloads       \* bounds on the callers: the paths they use, the number
                    \* and the size of their files, the read-only bits they
                    \* set, and the number of power losses

Paths == UNION {[1 .. n -> Names \cup {Dot}] : n \in 0 .. MaxDepth}

ASSUME FileAssumption ==
    /\ IndexOrder \in Seq(Keys) /\ Range(IndexOrder) = Keys
    /\ MaxSeq \in Nat \ {0}
    /\ \A w \in Workloads :
          /\ w.paths \subseteq Paths
          /\ \A p \in w.paths : p # << >> => Last(p) # Dot
          /\ w.files \in Nat
          /\ w.size \in Nat
          /\ w.ro \subseteq BOOLEAN
          /\ w.faults \in Nat

VARIABLES
    disk,       \* the MFT and its bitmap
    paths,      \* xinode_cache, most recent first
    inodes,     \* nidata_cache, most recent first
    handle,     \* the open instances
    readOnly,   \* Volume->ReadOnly
    load,       \* the workload
    crashed,    \* a NULL inode or FileInfo was used
    faults      \* the number of faults so far

vars == <<disk, paths, inodes, handle, readOnly, load, crashed, faults>>

Modes == {"read", "write", "create"}

Closed ==
    [open |-> FALSE, path |-> << >>, root |-> FALSE, dir |-> FALSE,
     ro |-> FALSE, pos |-> 0, size |-> 0, file |-> NoEntry]

\* FileInfo->FileName: what follows the last separator of the path.
NameOf(path) == IF path = << >> THEN Dot ELSE Last(path)

Init ==
    /\ disk = EmptyDisk
    /\ paths = << >>
    /\ inodes = << >>
    /\ handle = [h \in Handles |-> Closed]
    /\ readOnly \in BOOLEAN
    /\ load \in Workloads
    /\ crashed = FALSE
    /\ faults = 0

-----------------------------------------------------------------------------
Now == Session(disk, paths, inodes)

\* An operation ends in session s; its answer changes the handles to hs.
Ends(s, hs) ==
    /\ disk' = s.disk
    /\ paths' = s.paths
    /\ inodes' = s.inodes
    /\ handle' = hs
    /\ UNCHANGED <<readOnly, load, crashed, faults>>

\* The power is lost in the operation: memory is lost and the volume mounted
\* again.
CutShort(s) ==
    /\ faults < load.faults
    /\ faults' = faults + 1
    /\ disk' \in s.cuts
    /\ paths' = << >>
    /\ inodes' = << >>
    /\ handle' = [h \in Handles |-> Closed]
    /\ UNCHANGED <<readOnly, load, crashed>>

\* The operation uses a NULL pointer in session s: nothing more is said.
Crashes(s) ==
    /\ crashed' = TRUE
    /\ disk' = s.disk
    /\ paths' = s.paths
    /\ inodes' = s.inodes
    /\ UNCHANGED <<handle, readOnly, load, faults>>

Open(h) == ~ crashed /\ handle[h].open

-----------------------------------------------------------------------------
\* Every OpenVolume mounts the volume anew: the open handles go on with the
\* new mount's empty caches.  A handle from OpenVolume has no FileInfo.
NtfsOpenVolume(h) ==
    /\ ~ crashed
    /\ ~ handle[h].open
    /\ handle' = [handle EXCEPT ![h] =
           [Closed EXCEPT !.open = TRUE, !.root = TRUE, !.dir = TRUE,
                          !.file = Ref(Root, 1)]]
    /\ paths' = << >>
    /\ inodes' = << >>
    /\ UNCHANGED <<disk, readOnly, load, crashed, faults>>

NtfsClose(h) ==
    /\ Open(h)
    /\ handle' = [handle EXCEPT ![h] = Closed]
    /\ UNCHANGED <<disk, paths, inodes, readOnly, load, crashed, faults>>

\* NtfsFiller for one entry of a directory, if there is one: its inode is
\* opened and its path found, until an inode cannot be opened.
NtfsFiller(at, ref) ==
    LET sub == OpenRef(at.s, ref)
        named == utils_inode_get_name(sub.s, sub.ni)
    IN  IF ref = NoEntry \/ ~ at.more THEN at
        ELSE IF IsNull(sub.ni) THEN [s |-> sub.s, more |-> FALSE]
        ELSE [s |-> ntfs_inode_close(named.s, sub.ni, FALSE), more |-> TRUE]

\* NtfsFiller for every entry of the open directory ni, in order.
ntfs_readdir(s, ni) ==
    LET at[k \in 0 .. Len(IndexOrder)] ==
            IF k = 0 THEN [s |-> s, more |-> TRUE]
            ELSE NtfsFiller(at[k - 1], ni.rec.ents[IndexOrder[k]])
    IN  at[Len(IndexOrder)].s

\* NtfsGetDirEntInfo looks the path up and lists a directory; ni is the inode
\* it uses, NULL if the path names nothing.
NtfsGetDirEntInfo(s, path, isdir) ==
    LET at == ntfs_pathname_to_inode(s, path)
    IN  Result(ntfs_inode_close(IF isdir THEN ntfs_readdir(at.s, at.ni) ELSE at.s,
                                at.ni, FALSE),
               at.ni)

\* The end of NtfsOFileOpen, with the inode to open and whether it is new.  A
\* read-only inode is not opened for writing.  (FILE_ATTR_DIRECTORY is never
\* set, so this holds for directories as well.)
Opens(s, ni, new, g, path, mode) ==
    LET closed == ntfs_inode_close(s, ni, new)
        info == NtfsGetDirEntInfo(closed, path, ni.rec.dir)
    IN  IF IsNull(ni) \/ (ni.rec.ro /\ mode # "read")
        THEN Ends(closed, handle) \/ (new /\ CutShort(closed))
        ELSE IF IsNull(info.ni) THEN Crashes(info.s)
        ELSE \/ Ends(info.s, [handle EXCEPT ![g] =
                    [open |-> TRUE, path |-> path, root |-> FALSE,
                     dir |-> ni.rec.dir, ro |-> mode = "read", pos |-> 0,
                     size |-> info.ni.rec.size,
                     file |-> Ref(ni.inum, ni.rec.seq)]])
             \/ new /\ CutShort(info.s)

\* Open through h into the free instance g.
MayOpen(h, g, mode) ==
    /\ Open(h)
    /\ ~ handle[g].open
    /\ ~ (readOnly /\ mode # "read")

OpenDot(h, g, mode) ==
    /\ MayOpen(h, g, mode)
    /\ LET at == ntfs_pathname_to_inode(Now, handle[h].path)
       IN  Opens(at.s, at.ni, FALSE, g, handle[h].path, mode)

OpenDotDot(h, g, mode) ==
    /\ MayOpen(h, g, mode)
    /\ LET cur == ntfs_pathname_to_inode(Now, handle[h].path)
           up == ntfs_dir_parent_inode(cur.s, cur.ni)
           named == utils_inode_get_name(ntfs_inode_close(up.s, cur.ni, FALSE),
                                         up.ni)
       IN  IF IsNull(cur.ni) THEN Crashes(cur.s)
           ELSE Opens(named.s, up.ni, FALSE, g, named.path, mode)

\* A name may have several components.  If nothing has the path, ntfs_create
\* makes its last component in the directory of h.
OpenName(h, g, name, mode, isdir, ro) ==
    LET path == handle[h].path \o name
        at == ntfs_pathname_to_inode(Now, path)
        cur == ntfs_pathname_to_inode(at.s, handle[h].path)
        free == {i \in FreeRecords(cur.s) : i <= load.files}
    IN  /\ MayOpen(h, g, mode)
        /\ path \in load.paths
        /\ IF ~ IsNull(at.ni) THEN Opens(at.s, at.ni, FALSE, g, path, mode)
           ELSE IF mode # "create" THEN Ends(at.s, handle)
           ELSE IF IsNull(cur.ni) \/ free = {}
           THEN Ends(ntfs_inode_close(cur.s, cur.ni, FALSE), handle)
           ELSE \E i \in free :
                   LET made == ntfs_create(cur.s, cur.ni, i, Last(name), isdir, ro)
                       small == cur.ni.inum \notin LargeDirs
                       changed == ~ IsNull(made.ni) /\ small
                   IN  /\ IsNull(made.ni) => disk.mft[i].seq < MaxSeq
                       /\ Opens(ntfs_inode_close(made.s, made.dir, changed),
                                made.ni, TRUE, g, path, mode)

\* Delete closes the handle whatever happens.  A path that names nothing is a
\* NULL inode for ntfs_dir_parent_inode.
NtfsDelete(h) ==
    LET path == handle[h].path
        at == ntfs_pathname_to_inode(Now, path)
        dir == ntfs_dir_parent_inode(at.s, at.ni)
        done == ntfs_delete(dir.s, path, dir.ni, at.ni, NameOf(path))
        closed == [handle EXCEPT ![h] = Closed]
    IN  /\ Open(h)
        /\ disk.mft[at.ni.inum].seq < MaxSeq
        /\ IF handle[h].ro \/ handle[h].root THEN Ends(Now, closed)
           ELSE IF IsNull(at.ni) THEN Crashes(at.s)
           ELSE Ends(done, closed) \/ CutShort(done)

-----------------------------------------------------------------------------
\* Read of a file: n bytes at the position, or what there is of them.  The
\* check against FileInfo comes first.  Nothing is read through a path that
\* names nothing, or a directory.
NtfsRead(h, n) ==
    LET f == handle[h]
        at == ntfs_pathname_to_inode(Now, f.path)
        s == ntfs_inode_close(at.s, at.ni, FALSE)
        there == IF f.pos < at.ni.rec.size THEN at.ni.rec.size - f.pos ELSE 0
        got == IF n < there THEN n ELSE there
    IN  /\ Open(h)
        /\ f.root \/ ~ f.dir
        /\ IF f.root THEN Crashes(Now)
           ELSE /\ f.pos <= f.size
                /\ IF IsNull(at.ni) \/ at.ni.rec.dir THEN Ends(s, handle)
                   ELSE Ends(s, [handle EXCEPT ![h].pos = @ + got])

\* Mutant: FileInfo grows by what was written.
Written_Grows(h, n, size) ==
    [handle EXCEPT ![h].pos = @ + n, ![h].size = @ + n]

\* The handle after n bytes were written: FileInfo follows the inode.
Written(h, n, size) == [handle EXCEPT ![h].pos = @ + n, ![h].size = size]

\* Write of n bytes at the position, of which m are written if the device or
\* the space fails.  Only a file that grows is marked dirty, with its name.
NtfsWrite(h, n, m) ==
    LET f == handle[h]
        at == ntfs_pathname_to_inode(Now, f.path)
        size == IF m > 0 /\ f.pos + m > at.ni.rec.size THEN f.pos + m
                ELSE at.ni.rec.size
        ni == [at.ni EXCEPT !.rec.size = size]
        s == IF ni = at.ni THEN ntfs_inode_close(at.s, ni, FALSE)
             ELSE CloseChanged(at.s, ni)
    IN  /\ Open(h)
        /\ ~ readOnly /\ ~ f.ro /\ ~ f.dir
        /\ f.pos + n <= load.size
        /\ IF IsNull(at.ni) \/ at.ni.rec.dir
           THEN m = 0 /\ Ends(ntfs_inode_close(at.s, at.ni, FALSE), handle)
           ELSE IF m < n THEN Ends(s, handle)
           ELSE Ends(s, Written(h, n, size)) \/ CutShort(s)

\* SetPosition of a file: anywhere, or to the end as FileInfo has it.
NtfsSetPosition(h, p) ==
    /\ Open(h)
    /\ ~ handle[h].dir
    /\ handle' = [handle EXCEPT ![h].pos = p]
    /\ UNCHANGED <<disk, paths, inodes, readOnly, load, crashed, faults>>

\* SetInfo with attributes ro and dirbit, or with a time or attribute that is
\* not valid.  The directory bit is compared with FILE_ATTR_DIRECTORY, which no
\* inode has.  The inode is not marked dirty, and FileInfo is not changed.
NtfsSetFileInfo(h, valid, dirbit, ro) ==
    LET at == ntfs_pathname_to_inode(Now, handle[h].path)
        ni == IF valid /\ ~ dirbit THEN [at.ni EXCEPT !.rec.ro = ro] ELSE at.ni
    IN  /\ Open(h)
        /\ ~ readOnly
        /\ ~ handle[h].root
        /\ IF IsNull(at.ni) /\ valid THEN Crashes(at.s)
           ELSE Ends(ntfs_inode_close(at.s, ni, FALSE), handle)

-----------------------------------------------------------------------------
NtfsOpen ==
    \E h, g \in Handles, mode \in Modes :
        \/ OpenDot(h, g, mode)
        \/ OpenDotDot(h, g, mode)
        \/ \E name \in UNION {Suffixes(p) : p \in load.paths},
              isdir \in BOOLEAN, ro \in load.ro :
              /\ mode = "create" \/ ~ (isdir \/ ro)
              /\ OpenName(h, g, name, mode, isdir, ro)

NtfsSetInfo ==
    \E h \in Handles, valid, dirbit \in BOOLEAN, ro \in load.ro :
        NtfsSetFileInfo(h, valid, dirbit, ro)

NtfsIFileAccess ==
    \E h \in Handles, n \in 0 .. load.size :
        \/ NtfsRead(h, n)
        \/ \E m \in 0 .. n : NtfsWrite(h, n, m)

SetPosition ==
    \E h \in Handles : \E p \in 0 .. load.size \cup {handle[h].size} :
        NtfsSetPosition(h, p)

\* The power is lost between two operations.
PowerLoss == ~ crashed /\ CutShort(Now)

Halted == crashed /\ UNCHANGED vars

Next ==
    \/ \E h \in Handles : NtfsOpenVolume(h) \/ NtfsClose(h) \/ NtfsDelete(h)
    \/ NtfsOpen
    \/ NtfsIFileAccess
    \/ SetPosition
    \/ NtfsSetInfo
    \/ PowerLoss
    \/ Halted

Spec == Init /\ [][Next]_vars

-----------------------------------------------------------------------------
RecordType ==
    [used : BOOLEAN, seq : 1 .. MaxSeq, dir : BOOLEAN,
     ents : [Keys -> [inum : Inums, seq : 0 .. MaxSeq]],
     ro : BOOLEAN, size : 0 .. load.size, name : Names \cup {Dot},
     parent : [inum : Inums, seq : 0 .. MaxSeq]]

\* Every variable has its type, and neither cache holds more than its size or
\* the same key twice (ntfs_enter_cache).
TypeOK ==
    /\ disk \in [mft : [Inums -> RecordType], bitmap : SUBSET Records]
    /\ Len(paths) <= PathCacheSize
    /\ \A e \in Range(paths) : e.path \in Paths /\ e.inum \in Inums
    /\ IsInjective([k \in DOMAIN paths |-> paths[k].path])
    /\ Len(inodes) <= InodeCacheSize
    /\ \A e \in Range(inodes) : e.inum \in Inums /\ e.rec \in RecordType
    /\ IsInjective([k \in DOMAIN inodes |-> inodes[k].inum])
    /\ readOnly \in BOOLEAN /\ crashed \in BOOLEAN
    /\ faults \in 0 .. load.faults

\* The inodes that a path leads to by the directories on disk d alone: one, or
\* none.
Leads(d, path) ==
    LET at[k \in 0 .. Len(path)] ==
            IF k = 0 THEN {Root}
            ELSE UNION {ntfs_inode_lookup_by_name(Inode(i, d.mft[i]), path[k]) :
                            i \in at[k - 1]}
    IN  at[Len(path)]

\* A path in the cache leads where the directories on the disk lead: no create
\* or delete, by whatever spelling of the name, leaves a stale path behind
\* (Invalidated, ntfs_pathname_to_inode).
PathCacheAgrees == TypeOK /\ \A e \in Range(paths) : Leads(disk, e.path) = {e.inum}

\* A cached inode is the record on the disk, its attributes apart: it is in
\* use, and has the entries, the size and the names that the disk has.  So no
\* copy that was opened twice comes back as an obsolete one (ntfs_inode_open).
InodeCacheAgrees ==
    \A e \in Range(inodes) :
        /\ e.rec.used
        /\ [e.rec EXCEPT !.ro = FALSE] = [disk.mft[e.inum] EXCEPT !.ro = FALSE]

\* The file a handle was opened on is still there.
Live(h) ==
    LET rec == disk.mft[handle[h].file.inum]
    IN  handle[h].open /\ rec.used /\ rec.seq = handle[h].file.seq

\* For as long as the file of a handle exists, an operation on the handle finds
\* that file: not NULL and not another one, whatever was created, deleted,
\* cached or dropped through other handles and other spellings of the path
\* (NtfsOFileOpen, ntfs_pathname_to_inode).
HandleFindsFile ==
    \A h \in Handles :
        Live(h) => LET at == ntfs_pathname_to_inode(Now, handle[h].path)
                   IN  ~ IsNull(at.ni)
                       /\ Ref(at.ni.inum, at.ni.rec.seq) = handle[h].file

\* The size in FileInfo is never ahead of the file: what SetPosition takes for
\* the end of the file, and Read for readable, is in the file (NtfsIFileAccess).
SizeNotAhead ==
    \A h \in Handles :
        Live(h) => handle[h].size <= disk.mft[handle[h].file.inum].size

\* A record in use is marked in the bitmap, also after a power loss: it is
\* never given to a second file (ntfs_mft_record_alloc, ntfs_mft_record_free).
BitmapCovers == \A i \in Records : disk.mft[i].used => i \in disk.bitmap

\* An index entry whose sequence number is that of the record names the file
\* in the record; a power loss leaves entries that lead nowhere, and they can
\* be told (ntfs_mft_record_free).
EntriesTold ==
    \A d \in Inums : disk.mft[d].used =>
        \A k \in Keys :
            LET ref == disk.mft[d].ents[k]
                rec == disk.mft[ref.inum]
            IN  ref # NoEntry /\ rec.used /\ rec.seq = ref.seq
                => rec.parent.inum = d /\ Upcase[rec.name] = k
=============================================================================
