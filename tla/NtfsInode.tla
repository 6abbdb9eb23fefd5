----------------------------- MODULE NtfsInode -----------------------------
(***************************************************************************)
(* Inodes and path names of libntfs-3g as the driver uses them: the MFT    *)
(* records and the MFT bitmap on the disk, the cache of path names         *)
(* (xinode_cache) and the cache of closed inodes (nidata_cache), and the   *)
(* library calls that read and change them.                                *)
(*                                                                         *)
(* A call is an operator on a session: the disk, the two caches and, in    *)
(* `cuts', every disk that a power loss during the call could leave.  The  *)
(* device writes are synchronous, so these are the disks after each write. *)
(*                                                                         *)
(* An inode in memory is a copy of its record.  A change to the copy       *)
(* reaches the disk only if the inode is marked dirty before it is closed. *)
(***************************************************************************)
EXTENDS Lists

CONSTANTS
    Names,          \* spellings of a file name
    Upcase,         \* the upcase table: spelling -> spelling
    Records,        \* MFT records for files: positive numbers
    LargeDirs,      \* directories whose index is in index blocks
    MaxDepth,       \* bound on the depth of a path
    PathCacheSize,  \* CACHE_INODE_SIZE
    InodeCacheSize  \* CACHE_NIDATA_SIZE

Root == 0
Dot == "."          \* the name of the root directory, in itself

Inums == {Root} \cup Records
Keys == {Upcase[n] : n \in Names}

ASSUME InodeAssumption ==
    /\ IsFiniteSet(Records) /\ Records \subseteq Nat \ {0}
    /\ Upcase \in [Names -> Names]
    /\ \A n \in Names : Upcase[Upcase[n]] = Upcase[n]
    /\ Dot \notin Names
    /\ LargeDirs \subseteq Inums
    /\ MaxDepth \in Nat \ {0}
    /\ PathCacheSize \in Nat \ {0}
    /\ InodeCacheSize \in Nat \ {0}

\* An MFT reference: a record number with the sequence number it had.
Ref(i, q) == [inum |-> i, seq |-> q]
NoEntry == Ref(Root, 0)
NoEntries == [n \in Keys |-> NoEntry]

\* A record that is not in use: only its sequence number matters.
Unused(q) ==
    [used |-> FALSE, seq |-> q, dir |-> FALSE, ents |-> NoEntries,
     ro |-> FALSE, size |-> 0, name |-> Dot, parent |-> NoEntry]

\* The root directory holds itself under the name Dot.
RootRecord ==
    [Unused(1) EXCEPT !.used = TRUE, !.dir = TRUE, !.parent = Ref(Root, 1)]

EmptyDisk ==
    [mft |-> [i \in Inums |-> IF i = Root THEN RootRecord ELSE Unused(1)],
     bitmap |-> {}]

Session(disk, paths, inodes) ==
    [disk |-> disk, paths |-> paths, inodes |-> inodes, cuts |-> {disk}]

\* The disk of a session becomes d, by one write.
Put(s, d) == [s EXCEPT !.disk = d, !.cuts = @ \cup {d}]

\* An inode in memory; NULL is an inode whose record is not in use.
Inode(i, rec) == [inum |-> i, rec |-> rec]
NullInode == Inode(Root, Unused(1))
IsNull(ni) == ~ ni.rec.used

Result(s, ni) == [s |-> s, ni |-> ni]

-----------------------------------------------------------------------------
\* ntfs_enter_cache of a new entry.
Entered(cache, size, e) ==
    <<e>> \o (IF Len(cache) < size THEN cache ELSE RemoveAt(cache, Len(cache)))

PathEntry(s, path) == {e \in Range(s.paths) : e.path = path}
InodeEntry(s, i) == {e \in Range(s.inodes) : e.inum = i}

\* ntfs_inode_real_open of a reference whose sequence number is q, or of a bare
\* record number when q is 0.
ntfs_inode_real_open(s, i, q) ==
    LET rec == s.disk.mft[i]
    IN  IF q \in {0, rec.seq} THEN Inode(i, rec) ELSE NullInode

\* A cached inode is taken out of the cache as it is; no sequence number is
\* compared.
ntfs_inode_open(s, i, q) ==
    IF InodeEntry(s, i) = {}
    THEN Result(s, ntfs_inode_real_open(s, i, q))
    ELSE LET ni == CHOOSE e \in InodeEntry(s, i) : TRUE
         IN  Result([s EXCEPT !.inodes = Without(@, {ni})], ni)

OpenRef(s, ref) == ntfs_inode_open(s, ref.inum, ref.seq)

\* ntfs_enter_cache keeps an entry it already has: then ni is lost.  An inode
\* that is dropped from the cache has been synced.
CacheInode(s, ni) ==
    IF IsNull(ni) \/ InodeEntry(s, ni.inum) # {} THEN s
    ELSE [s EXCEPT !.inodes = Entered(@, InodeCacheSize, ni)]

ntfs_mft_record_write(s, ni) ==
    Put(s, [s.disk EXCEPT !.mft[ni.inum] = ni.rec])

\* Mutant: a dirty inode is cached without being written.
ntfs_inode_close_NoSync(s, ni, dirty) == CacheInode(s, ni)

\* ntfs_inode_close writes a dirty inode, then caches it.
ntfs_inode_close(s, ni, dirty) ==
    CacheInode(IF dirty /\ ~ IsNull(ni) THEN ntfs_mft_record_write(s, ni) ELSE s,
               ni)

\* ntfs_inode_sync_file_name opens the directory that holds the inode and
\* updates its index entry: in an index block, or in the record of the
\* directory, which is then written when it is closed.  The entry of the root
\* directory is its own.
ntfs_inode_sync_file_name(s, ni) ==
    IF ni.inum = Root THEN s
    ELSE LET dir == OpenRef(s, ni.rec.parent)
         IN  ntfs_inode_close(dir.s, dir.ni, dir.ni.inum \notin LargeDirs)

\* ntfs_inode_close of an inode whose size or times have changed.
CloseChanged(s, ni) ==
    ntfs_inode_close(ntfs_inode_sync_file_name(s, ni), ni, TRUE)

-----------------------------------------------------------------------------
\* ntfs_inode_lookup_by_name: names are compared without case; the empty set
\* if there is no entry, or ni is not a directory.
ntfs_inode_lookup_by_name(ni, name) ==
    IF name = Dot THEN IF ni.inum = Root THEN {Root} ELSE {}
    ELSE {ref.inum : ref \in {ni.rec.ents[Upcase[name]]} \ {NoEntry}}

\* One component of a path: the number of the inode is fetched from the cache
\* or looked up in the directory and entered.
Step(path, at, k) ==
    LET prefix == SubSeq(path, 1, k)
        cached == PathEntry(at.s, prefix)
        found  == IF cached # {} THEN {e.inum : e \in cached}
                  ELSE ntfs_inode_lookup_by_name(at.ni, path[k])
        s1 == [at.s EXCEPT !.paths =
                  IF cached # {}
                  THEN LET e == CHOOSE e \in cached : TRUE
                       IN  <<e>> \o Without(@, {e})
                  ELSE IF found = {} THEN @
                  ELSE Entered(@, PathCacheSize,
                          [path |-> prefix, inum |-> CHOOSE i \in found : TRUE])]
        s2 == ntfs_inode_close(s1, at.ni, FALSE)
    IN  IF IsNull(at.ni) THEN at
        ELSE IF found = {} THEN Result(s2, NullInode)
        ELSE ntfs_inode_open(s2, CHOOSE i \in found : TRUE, 0)

\* ntfs_pathname_to_inode: the whole path is tried in the cache first.  What
\* is opened is a record number: the sequence number is masked out.
ntfs_pathname_to_inode(s, path) ==
    LET hit == PathEntry(s, path)
    IN  IF hit # {}
        THEN LET e == CHOOSE e \in hit : TRUE
             IN  ntfs_inode_open([s EXCEPT !.paths = <<e>> \o Without(@, {e})],
                                 e.inum, 0)
        ELSE LET at[k \in 0 .. Len(path)] ==
                     IF k = 0 THEN ntfs_inode_open(s, Root, 0)
                     ELSE Step(path, at[k - 1], k)
             IN  at[Len(path)]

\* Mutant: the walk stops below the root directory without the name there.
Prepended_BelowRoot(ni, path) ==
    IF ni.rec.parent.inum = Root THEN path ELSE <<ni.rec.name>> \o path

\* The name of an ancestor goes before the names found so far.
Prepended(ni, path) == <<ni.rec.name>> \o path

\* One step up, from an ancestor at number k of the loop.
Up(at, k) ==
    LET s1 == IF k > 1 THEN ntfs_inode_close(at.s, at.ni, FALSE) ELSE at.s
        up == OpenRef(s1, at.ni.rec.parent)
        path == Prepended(at.ni, at.path)
    IN  IF IsNull(at.ni) THEN at
        ELSE IF at.ni.rec.parent.inum = Root
        THEN [s |-> s1, ni |-> NullInode, path |-> path]
        ELSE [s |-> up.s, ni |-> up.ni, path |-> path]

\* utils_inode_get_name: the path of an open inode, from the names and parents
\* in its record and in those of its ancestors, which are opened on the way.
utils_inode_get_name(s, ni) ==
    LET at[k \in 0 .. MaxDepth] ==
            IF k = 0 THEN [s |-> s, ni |-> ni, path |-> << >>]
            ELSE Up(at[k - 1], k)
    IN  at[MaxDepth]

\* ntfs_dir_parent_inode: NULL for the root directory.
ntfs_dir_parent_inode(s, ni) ==
    IF ni.inum = Root THEN Result(s, NullInode)
    ELSE ntfs_inode_open(s, ni.rec.parent.inum, 0)

-----------------------------------------------------------------------------
\* A changed directory: an index block is written at once.
SetEntry(s, dir, name, ref) ==
    LET d == [dir EXCEPT !.rec.ents[Upcase[name]] = ref]
    IN  Result(IF dir.inum \in LargeDirs
               THEN Put(s, [s.disk EXCEPT !.mft[dir.inum].ents = d.rec.ents])
               ELSE s, d)

\* The records that ntfs_mft_record_alloc may pick.
FreeRecords(s) ==
    {i \in Records : i \notin s.disk.bitmap /\ ~ s.disk.mft[i].used}

\* Mutant: the sequence number of a freed record stays.
ntfs_mft_record_free_SameSeq(s, i) ==
    LET freed == Put(s, [s.disk EXCEPT !.mft[i] = Unused(@.seq)])
    IN  Put(freed, [freed.disk EXCEPT !.bitmap = @ \ {i}])

\* Mutant: the bit is cleared before the record is written.
ntfs_mft_record_free_BitFirst(s, i) ==
    LET freed == Put(s, [s.disk EXCEPT !.bitmap = @ \ {i}])
    IN  Put(freed, [freed.disk EXCEPT !.mft[i] = Unused(@.seq + 1)])

\* The record is written as not in use with the next sequence number, then its
\* bit is cleared; the inode is not cached.
ntfs_mft_record_free(s, i) ==
    LET freed == Put(s, [s.disk EXCEPT !.mft[i] = Unused(@.seq + 1)])
    IN  Put(freed, [freed.disk EXCEPT !.bitmap = @ \ {i}])

\* ntfs_create of an entry of the open directory dir in record i, which the
\* caller closes.  The bit is set on the disk first; the new record is written
\* only when its inode is closed.  If the entry cannot be added, because dir is
\* not a directory or has such an entry, the record is freed again.
ntfs_create(s, dir, i, name, isdir, ro) ==
    LET seq == s.disk.mft[i].seq
        alloc == Put([s EXCEPT !.inodes = Without(@, InodeEntry(s, i))],
                     [s.disk EXCEPT !.bitmap = @ \cup {i}])
        added == SetEntry(alloc, dir, name, Ref(i, seq))
        new == Inode(i, [used |-> TRUE, seq |-> seq, dir |-> isdir,
                         ents |-> NoEntries, ro |-> ro, size |-> 0, name |-> name,
                         parent |-> Ref(dir.inum, dir.rec.seq)])
    IN  IF ~ dir.rec.dir \/ dir.rec.ents[Upcase[name]] # NoEntry
        THEN [s |-> ntfs_mft_record_free(alloc, i), dir |-> dir, ni |-> NullInode]
        ELSE [s |-> added.s, dir |-> added.ni, ni |-> new]

\* Mutant: only the path that the file is deleted by is forgotten.
Invalidated_ByPath(s, path, i) ==
    [s EXCEPT !.paths = Without(@, PathEntry(s, path))]

\* The cached paths that ntfs_delete forgets: those of the inode, and the path
\* itself.  (Paths below it are separated by '/', which PATH_SEP is not.)
Invalidated(s, path, i) ==
    [s EXCEPT !.paths =
        Without(@, {e \in Range(@) : e.inum = i \/ e.path = path})]

\* ntfs_delete refuses an inode that is not held by dir under this name, and a
\* directory that is not empty.
Deletable(dir, ni, name) ==
    /\ ~ IsNull(dir)
    /\ name # Dot
    /\ Upcase[ni.rec.name] = Upcase[name]
    /\ ni.rec.ents = NoEntries
    /\ dir.rec.ents[Upcase[name]] # NoEntry

\* ntfs_delete: the entry leaves the directory, the record is freed, and the
\* directory is closed last.
ntfs_delete(s, path, dir, ni, name) ==
    IF ~ Deletable(dir, ni, name)
    THEN ntfs_inode_close(ntfs_inode_close(s, dir, FALSE), ni, FALSE)
    ELSE LET gone == SetEntry(s, dir, name, NoEntry)
         IN  CloseChanged(
                 ntfs_mft_record_free(Invalidated(gone.s, path, ni.inum), ni.inum),
                 gone.ni)
=============================================================================
