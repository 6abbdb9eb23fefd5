# A TLA+ verification of Ntfs_For_UEFI

The repository is a UEFI driver that puts an `EFI_SIMPLE_FILE_SYSTEM_PROTOCOL`
on every block device with an NTFS volume.  `src/NtfsDxe` is the driver: driver
binding, the volume and file protocols, and a repair step that runs when a mount
fails.  `src/Library/libntfs-3g` is a port of ntfs-3g (mount, inodes,
attributes, run lists, caches) over a UEFI disk; `uefi_io.c` there is the
driver's own.  The modules here are about the driver and the parts of the library
that it reaches and whose state, in memory or on the disk, outlives a call.

## The parts of the system

| Part | Source | State | Operations | What is hard about it | Module |
|---|---|---|---|---|---|
| Volume life cycle | Ntfs.c, Init.c, OpenVolume.c, Flush.c | DiskIo opens, installed interface, `NTFS_VOLUME`, `NtfsFsLock`, `RefCount`, mounts | Start, Stop, Unload, OpenVolume, Close, Flush, and the common frame of every file operation | Stop and Start are called inside other operations when the media changes; memory is freed by a count | `NtfsVolume` |
| Directory enumeration | DirectoryManage.c, ReadWrite.c | the `SubFIleHead` list of a handle, `Position` | open, read, rewind | the cursor adds up sizes that are computed in two ways | `NtfsDirectory` |
| LRU caches | libntfs-3g/cache.c | entry array, two linked lists, hash chains | create, fetch, enter, invalidate, remove, free | pointers shared by three structures, eviction, failed allocations | `NtfsCache` |
| Time conversion | Misc.c | none | `EfiTime2NtfsTime`, `NtfsTime2EfiTime`, `NtfsIsValidTime` | leap years by division tricks one way, by a loop the other way | `NtfsTime` |
| Files and handles | Open.c, ReadWrite.c, Info.c, Delete.c | path, `Position` and `FileInfo` of a handle | Open, Read, Write, SetPosition, SetInfo, Delete | a handle has no inode: it looks its path up again, and its copy of the information gets old | `NtfsFile` |
| Inodes and paths | libntfs-3g/inode.c, dir.c, mft.c | MFT records and their bitmap, the inode and path caches | lookup, open, close, sync, create, delete | an inode that is opened twice has two copies; a power loss between two writes | `NtfsInode` |
| Directory index | libntfs-3g/index.c, dir.c | a B+ tree in the MFT record and in index blocks | add, remove, both searches, both walks | splits, separators that do not fit, a full volume | `NtfsIndex` |
| Clusters and data | libntfs-3g/lcnalloc.c, bitmap.c, runlist.c, attrib.c | `$Bitmap`, zones, runlists, attribute records | create, write, delete, allocate, free | runs merged in place, undo after a failure, a power loss at any write | `Runlist`, `NtfsClusters`, `NtfsStorage` |
| Mount and repair | ntfsfix.c, OpenVolume.c, libntfs-3g/volume.c, mst.c, mft.c | boot sectors, `$MFT`, `$MFTMirr`, `$LogFile`, the volume flags | mount, `fix_mount` and its steps, writes of records | a write fails or is interrupted at any sector, of the repair too | `NtfsFix`, `Mst` |
| UEFI device | uefi_io.c | `Pos` | seek, ioctl, pread, pwrite | the size of the partition | in `NtfsFix` and `NtfsStorage`, as far as they use it |
| File names | FileName.c, Misc.c | none | `NtfsFileNameIsValid`, conversions | one pass over a string | not modelled |
| Unicode collation, component name | UnicodeCollation.c, ComponentName.c | one pointer; none | forwarding, constant strings | nothing | not modelled |

Interactions.  The firmware calls the driver binding and the protocols; both
reach `NTFS_VOLUME`.  A file operation takes `NtfsFsLock`, calls the library,
which reads and writes the device through `uefi_io.c`, and ends with
`NtfsCleanupVolume`.  While it waits for the device the firmware may call Stop
and Start.  The library finds inodes through its caches.  `OpenVolume` mounts,
and when the mount fails repairs the volume and mounts again.

How the modules compose.  `NtfsFile` EXTENDS `NtfsInode`, `NtfsStorage` EXTENDS
`NtfsClusters` and that `Runlist`, `NtfsFix` EXTENDS `Mst`: the lower modules are the
library calls as operators, the upper ones have the state and the actions.  What a
part promises is a specification of its own, which the detailed one implements:
`LruCache` (`NtfsCache`), `DirIterator` (`NtfsDirectory`), `DirSet` (`NtfsIndex`),
`FileStore` (`NtfsStorage`), and `Calendar` for the operators of `NtfsTime`.

`Lists` and `Sublists` have the operations on sequences that the modules with proofs
use.  They mean what the operators of the same names in the community modules mean;
those come with the theory of bags and with folds, which would be in the context of
every proof obligation.  The proofs about a module are in a module of their own that
EXTENDS it (`NtfsVolumeProofs`, `NtfsDirectoryProofs`, `NtfsCacheProofs`,
`NtfsFixProofs`); those about `NtfsFile` are in three, each of which EXTENDS the one
before: `NtfsInodeProofs` (the calls of the library), `NtfsPathProofs` (where paths
lead) and `NtfsFileProofs` (the actions and the theorems).  `Induction` is shared.

The hazards that follow from this, with the line each of them bites at and the
properties that would catch it, are the `hazards` of `PROJECT.json`.

## NtfsVolume: the life of a volume

One variable for every field or firmware table entry the driver relies on:

| Variable | Code |
|---|---|
| `DiskIoOpen[c]` | `OpenProtocol (DiskIo, ..., BY_DRIVER)` of the controller, Ntfs.c |
| `FileSystem[c]` | the interface installed by `NtfsAllocateVolume` |
| `memory`, `Handle`, `Valid`, `RefCount`, `VolInfo` | the pool block and the fields of `NTFS_VOLUME` |
| `mounts` | `ntfs_volume` objects of the library mounted for a volume |
| `fileVol`, `IsRoot` | the open `NTFS_IFILE` instances |
| `lock` | `NtfsFsLock` |
| `op` | the locals of the operation that waits for the device |
| `image`, `toUnload` | the loop of `NtfsUnload` |
| `crashed` | the outcome of an undefined access; nothing is said after it |
| `drift` | a history variable: decrements without an increment (closing a root instance) and increments without a decrement (Delete) |

An operation that reaches the device is a Begin and an End action around the
access; `NtfsDriverBindingStop` and `NtfsDriverBindingStartNested` may fall in
between.  Close and Flush do not wait for the device: `ntfs_device_uefi_sync` does
nothing, and the unmount in `NtfsCleanupVolume` is the last use of the volume.  An End action contains everything
the handler does after the access, `NtfsCleanupVolume` and the release of the
lock included.  Three undefined outcomes are actions
of their own: `FixMountFault` (the repair gives the device layer no private data,
ntfsfix.c:1434), `NullInode` (a path that is not found yields a NULL inode, which is
dereferenced) and `RootFault` (the instance of OpenVolume has no `FileInfo`).  ASSERT is compiled out, since
`Conf/target.txt` selects RELEASE: acquiring the lock twice succeeds.

What holds:

- `InFlightProtected`: whatever is stopped or started inside an operation, the
  operation holds the lock and its volume stays allocated.  This is what
  `LockedByMe` in `NtfsAbandonVolume` is for.
- `InstalledIsLive`, `OneValidVolume`: an installed interface never points to a
  freed or invalid volume, and no path through Start and Stop loses the
  BY_DRIVER open.
- `RefCountBalance`, `CountedFilesKeepVolume`: `RefCount` is the number of open
  files plus the drift, so as long as no root instance is closed and no file is
  deleted a volume is freed only after its last file is closed.
- `UnloadedLeavesNothing`: an image that `NtfsUnload` has unloaded leaves neither
  an interface nor an open behind.
- `StoppedInFlightIsFreed`: a volume that is stopped inside an operation is freed
  when the operation ends, unless files are counted or it faults.  Read and Write are
  excluded: `NtfsIFileAccess` checks the references on errors only.

What does not hold: `CountedVolumeIsFreed` (`volume_leak`).  `NtfsAbandonVolume` takes
the lock and never releases it, so the next Stop believes it is nested in an operation
and leaves its volume allocated.

Three more outcomes are in the model without a run of their own.  OpenVolume does not
count the root instance it returns, so a Stop inside it frees the volume under that
instance (`CountedFilesKeepVolume` is about the counted ones).  Close of a root instance
decrements a count that never included it (`drift`).  Every OpenVolume mounts again and
forgets the mount before (`mounts`).

Bounds.  `Volumes` bounds how often Start allocates: two are needed for a Stop
followed by a Start, nested or not, and for volumes of two controllers next to each
other.  Two handles allow a root instance and a file, or two files, of the same or of
different volumes.  `RefModulus` is the smallest value above the number of handles, so
the wrap of `RefCount` below zero is reached; the theorems hold for every modulus larger
than that number, 2^64 included.  `MaxMounts` is two, so that OpenVolume on a mounted
volume happens.

Fairness.  `FairSpec` assumes weak fairness of the end of the operation in flight:
a device access returns, with success or with an error.  Nothing is assumed about
callers, Start or Stop.

## NtfsDirectory and DirIterator: reading a directory

Opening a directory copies its entries into a list (`NtfsFiller`).  Read looks for
the entry at which the sum of the sizes before it equals `Position`, and moves
`Position` by the size of what it returned.  The first size is taken from the
UTF-16 name in the index, the second from the UTF-8 path of the inode: the model
has both as functions (`nameSize`, `pathSize`).  Other handles create and delete
entries meanwhile (`IndexChange`), and what goes through a NULL pointer either
halts or is answered from page zero (`pageZero`), as the platform has it.

- Where the sizes agree, the handle implements `DirIterator` (each listed entry once,
  in order, none skipped, a buffer that is too small changes nothing;
  `ImplementsIterator`), and the end is reported only after the last entry
  (`EndMeansAllReturned`).
- Where they differ entries may be skipped, but none is returned twice or out of
  order (`InOrder`).
- In both cases a caller that keeps reading comes to an end (`ReadingEnds`, under weak
  fairness of the caller's reads with a sufficient buffer; the fairness describes the
  caller, which loops until it sees the end).

Bounds: three files, one of them a directory and one that may be filtered; sizes 1 and
2, enough for sums that agree by accident; one change of the directory and two opens or
rewinds.

## NtfsCache and LruCache: the caches of the library

`NtfsCache` has the pointers of cache.c as they are: `most_recent_entry`,
`oldest_entry`, `free_entry`, `next` and `previous` of each entry, the hash chains,
and what the pointer to the variable part points to.  Every call is one step, since
the library runs in one thread.  `LruCache` is what its users rely on: a bounded
list of distinct keys in order of use.

- `cache`: four keys on two hash chains, three entries (the least `param.h` allows),
  for each of the three kinds of caches the library creates.  The lists partition the
  entries and can be walked both ways, a search through the hash finds what a search
  through the list finds, and no block is lost or freed twice (`ListsIntact`); every
  call returns what it promises (`EachCallAsPromised`); and `ImplementsLru`.
- `cache_nomemory`, a violation: when the variable part of an entry cannot be
  allocated, `ntfs_enter_cache` takes the entry back by its head pointer only;
  it stays reachable from the list of entries in use.

## NtfsTime and Calendar: time stamps

`Calendar` counts: a day follows another and a month ends after its last day.
`NtfsTime` has the two conversions and the check of Misc.c as operators.  A 64-bit
stamp is kept as days, seconds and 100 ns ticks, which is how the code takes it
apart.  The run `time` visits every day number that 19 bits hold, 1 January 1601
to 14 June 3036, and every second of one day: the date shown for a stamp is the
calendar's, a time that is set reads back to 100 ns, and `NtfsIsValidTime`
accepts exactly the days that exist, from 1980 on.  Later days are cut to 19 bits
by the code and are outside of the run, although `NtfsIsValidTime` accepts them;
the time zone fields, which the code does not write, are left out.

## NtfsInode and NtfsFile: handles, paths and caches

`NtfsInode` has the calls of the library that a handle reaches: lookup of a path through
the path cache and, where it misses, through the directories (`ntfs_pathname_to_inode`),
opening and closing an inode through the inode cache, creating, deleting, and the
allocation of records.  A call is an operator on a *session*: the disk, the two caches,
and in `cuts` every disk that a power loss during the call could leave, which are the
disks after each of its device writes (`ntfs_device_uefi_sync` has nothing to do, since
the writes are synchronous).  An inode in memory is a copy; a change reaches the disk only
when the inode is dirty on close.

`NtfsFile` has the handles.  An operation holds `NtfsFsLock` and is one step, or ends in
one of the `cuts` with the memory lost (`CutShort`), or goes through a NULL inode
(`Crashes`).  OpenVolume mounts the volume again each time it is called: the handles that
are open go on with the new mount, whose caches are empty.  The run `files` shows:

- `PathCacheAgrees`, `InodeCacheAgrees`: no create or delete, by whatever spelling of a
  path, leaves a stale path or inode in a cache.  Attributes are left out of the second:
  SetInfo changes them without marking the inode dirty (Info.c:364).
- `HandleFindsFile`: as long as the file of a handle exists, the handle finds it.
- `SizeNotAhead`: the copy of the size in a handle may be old, but never too large.
- `BitmapCovers`, `EntriesTold`: after a power loss anywhere no record in use is free for
  another file, and an index entry without its file can be told by the sequence number.

Outcomes without a property: Delete through a handle whose file was deleted and created
again deletes the new file; creating a name of several components makes the last one
in the directory of the handle; a read-only create makes a file and refuses to open it.

The order in which the entries of a directory are listed is a constant, `IndexOrder`:
that of the collation of the index.  The paths of a workload do not end in the name of
the root directory, which is not a name that a caller can create.

Bounds: three spellings of two names, two records, paths of two components, two
symmetric handles, caches of two entries (so that entries are dropped), each record
reused once.  The three workloads keep apart what need not be combined: subdirectories
with a power loss, spellings with the read-only bit, and growing files.

## NtfsIndex and DirSet: the index of a directory

A node is a sequence of entries in order of collation, an entry a key and perhaps a VCN;
lengths are kept, since whether an entry fits decides between inserting, splitting,
moving the root into a block and growing the root.  `ntfs_index_add` and `ntfs_index_rm`
are translated with everything they call: splitting a block at its median, inserting
the separator in the parent and so on to the root, replacing a removed separator by its
successor, taking out an empty leaf with the separator before it and adding that
separator again.  `full` is a choice of each call: the growth of the index allocation
fails.  The truncation of the root to its smallest size in `ntfs_ir_reparent` is taken to
succeed, as the code says it should (index.c:1197).  The run `index` shows that both searches find exactly the names that are there
(`Searchable`), that the bitmap marks exactly the blocks of the tree, once each
(`BitmapExact`), that both ways to walk visit every name once (`Enumerated`), that the
tree is balanced, in order, and has no empty leaf (`Balanced`), and that it implements a set of
names (`ImplementsDirSet`).  `DirSet` has the answers and whether the volume was full: with
room, a call fails only for a name that is there already, or is not there; on a full volume it
may fail and change nothing, and a removal may lose one other name.

`index_lost`, a violation, is that exception: `ntfs_ih_takeout` deletes a name before it
adds it again, and where the successor was longer than the separator the failure is
returned as success (index.c:1778 against the comment at index.c:1800).

Bounds: 22 keys and blocks for five of them give trees of three levels; two keys are
longer, so that a successor does not fit where its separator was; the root has room for
two or three.  The four loads are directories filled upwards, downwards, or from nothing, in which up to six
names come and go in any order.  A power loss inside a call is not modelled: blocks are
written in place without a journal, and nothing in the repository promises anything.

## Runlist, NtfsClusters, NtfsStorage and FileStore: the data of files

`Runlist` has the operations on runlists (`ntfs_runlists_merge` with its four cases,
truncation, the sizes).  `NtfsClusters` has `ntfs_cluster_alloc`: three zones, the buffers
of `$Bitmap` it reads one after the other, the order of the zones, the positions, the
zones marked as full, and the release of what was taken when the request fails.
`NtfsStorage` has the calls on an attribute: create, write (enlarge, fill holes, zero
what the write leaves of a cluster, raise the initialised size, update the mapping
pairs, and undo on a failure) and delete.  Each device write adds to `cuts` as in
`NtfsInode`, and any one device write of a call may fail (`fails`): of `$Bitmap`, to mark or
to clear, of data or of a record.  What the code does then is in the model: clusters that
could not be freed stay marked (`kept`, then `lost`), an undo that fails leaves the file
half done (`broken`, then `hurt`), a write of which a part is out is tried again from
there.  The run `storage` shows:

- `OwnedOnce`: no cluster has two owners, after power losses and failed writes too.
- `BitmapExact`: `$Bitmap` marks what is owned, what a power loss or a failed write left
  marked (`lost`), and nothing else; the count of free clusters is exact throughout, also when
  clearing `$Bitmap` fails half-way through a runlist.
- `RecordsSound`: sizes, runs and the sparse flags of a record agree with each other, unless
  the file is hurt.
- `ImplementsFileStore`: reads give what was written, zeroes in gaps, and never the data
  of a former owner.  A write that fails for want of clusters, or because `$Bitmap` cannot be
  written, keeps the size, and every unit of its range is the old or the new one (`FailedWrite`); a power loss, or an undo that fails,
  harms only the file in work.  `content` is a variable for the mapping: a function of the
  disk, computed by `ntfs_attr_pread`.

`FileStore` has a weaker promise for a write in which the device refused data or a record
(`FaultyWrite`): the size is right and nothing outside of the clusters of the range changes,
but inside of them old data may appear.  This is what the code does.  A data write that fails
after a hole was filled leaves the clusters in the file with what they held; and when a part
of the write is out, `ntfs_attr_data_write` tries the rest again (attrib.c:2263 and 6746) and
may succeed, but the second attempt no longer knows that the cluster was a hole and does not
zero the rest of it (against the comment at attrib.c:2176).

Outcomes without a property: a zone is counted as full after a pass that took one run
of each buffer, although clusters are free in it (lcnalloc.c:471; volume.h:197 calls such
zones full), so a request may end with ENOSPC too early; a file that just became sparse
is refused after a power loss between the write of its record and that of its flag
(attrib.c:482; `FileStore` allows a hurt file to be unreadable); the driver answers success
when closing the inode could not write its record (ReadWrite.c:211); a file whose
clusters are free, after a deletion or an undo that was cut half-way (`torn`), is not explored
further.

Bounds: ten clusters in three zones with five of them taken, `$Bitmap` in bytes of four
bits read two at a time, so that zones and buffers end inside of each other; clusters of
two units and files of up to five, so that holes, partial clusters and a full volume
happen; four initial volumes, one with a file that another system wrote and one with a sparse
file; three calls, one failing write in each of them, and one file hurt, by a power loss or
otherwise.  Data is only moved, so one value for each file tells whose data a unit holds.  A
device write that fails is taken to write nothing.  Reads of the device do not fail; in
particular the read of `$Bitmap` in `ntfs_cluster_alloc` does not.

Left out: compression and encryption, mapping pairs that need several records, resident
values that are not empty, the extension of `$MFT`, merging with unmapped parts of a
runlist, the packing of mapping pairs into bytes.

## NtfsFix and Mst: mount, repair and the copies of $MFT

`Mst` is the protection of a record of several sectors: the update sequence number in
the last word of every sector, and the words it replaces.  `NtfsFix` has the disk
as far as mount and repair look at it, the mount, each step of `fix_mount` in its order
with each of its writes a step, the second mount with the check of the alternate boot
sector, and the update of records while mounted.  A write may fail, and power may be lost
in it, after any sector.  `fix_mount` allocates its device without private data
(ntfsfix.c:1434), through which `uefi_io.c` reaches the disk (uefi_io.c:68), so the first
access of the repair is undefined: either the machine halts until it is reset
(`FixMountFault`, `ResetMachine`), or the repair goes on.  The steps after that are what
ntfsfix.c is written to do on a device that reaches the disk, and what is said about them is
about that code; nothing promises that a repair gets there.  A record that was overwritten
has no valid magic, and may or may not have its in-use flag set.  The run `fix` shows:

- `ReadIsWhole`: a record that reads as complete is one version, not a mixture.
- `OneCopyLeft`: one interrupted write never spoils both copies of a record.
- `NewestKept`: no step of driver or repair sets a record of `$MFT` back.
- `DirtyBeforeJournal`: the journal is emptied only when the volume is marked dirty.
- `ExtentKept`: the second part of the runlist of `$MFT` survives its move, cut anywhere.
- `BootSafe`: a usable boot sector is never replaced by another, and the alternate one
  is not written over the file system.
- `RepairedMounts`: what the repair reports as mended can be mounted, overwritten
  records apart.
- `RepairEnds`: a repair that has begun comes to an end, closed, mounted or halted, whatever the
  disk holds and whichever writes fail.  `FairSpec` assumes weak fairness of the steps of the
  call itself, which runs in one thread without waiting, and nothing of the caller.

`fix_mirror`, a violation: a record of `$MFT` that was overwritten is not restored from
`$MFTMirr`, since the number of bytes to compare is taken from the corrupt copy
(ntfsfix.c:453 and 458).

Bounds: two records of two sectors (one that the mount needs, one with the flags), six
sequence numbers so that they wrap around, two versions of a record, two faults, six kinds
of initial damage.

## The runs

| Run | Expected | Distinct states |
|---|---|---|
| `volume` | pass | 749,210 |
| `volume_leak` | violation | |
| `cache` | pass | 18,211 |
| `cache_nomemory` | violation | |
| `directory` | pass | 326,912 |
| `time` | pass | 610,687 |
| `fix` | pass | 157,860 |
| `fix_mirror` | violation | |
| `files` | pass | 120,859 |
| `index` | pass | 21,314 |
| `index_lost` | violation | |
| `storage` | pass | 37,251 |

A run is `tlc -config <cfg> <module>` with the names in `PROJECT.json`.  Every
property of a passing run has a mutant, a definition of the model changed the way
the code might be wrong, for which TLC finds it violated.  The type invariant of a module
is a conjunct of one of its properties (`ListsIntact`, `InOrder`, `PathCacheAgrees`,
`Balanced`, `RecordsSound`, `ReadIsWhole`); that of `NtfsVolume` is proved only.

## What is proved

The theorems hold for every value of the constants that the named assumptions of the
modules allow; TLC evaluates those assumptions in the runs.  They are listed in
`PROJECT.json`, each with the property of a run that it states.  A property of a run is
seldom inductive; what had to be added to it is the interesting part of each proof.

`NtfsVolumeProofs` proves for any sets of controllers, volumes and handles (the
handles finite and fewer than `RefModulus`; `ConstantsAssumption` in `NtfsVolume`)
that `IndInv` is an invariant of `Spec` (`Invariance`), and from it
`TypeCorrectness`, `InstalledFileSystemsAreLive`, `OneValidVolumePerController`,
`OperationsAreProtected`, `RefCountIsBalanced`, `CountedFilesAreProtected` and
`UnloadIsClean`.  An operation ends in the state its
Begin action left, changed by any number of nested Stops and Starts, so the
invariant has to say what they leave alone: `OperationIntact` (the handle is still
an instance of the volume of the operation, a Start in flight has not published
its volume), `VolumeMemory` (an unused volume is blank, a freed one has count 0)
and `UnloadProgress` (controllers that Unload has passed stay closed).
`CountedFilesKeepVolume` follows from `RefCountBalance` and the count 0 of a freed
volume: 0 is the number of files modulo a modulus that is larger than it.
`BalanceOpen`, `BalanceOpenRoot` and `BalanceClose`
say how the number of open files, the count and the drift change together, and
rest on the cardinality theorems of the library and on `Wrapping`, the arithmetic
of a count that wraps around.

`NtfsDirectoryProofs` proves `InOrder`, `EndMeansAllReturned` and `ImplementsIterator`
for any directory, any sizes and any number of changes and rewinds.  `DirInv` says that
the position is one of the partial sums of the sizes and that all entries before it, and
no other, were looked at; the sums are strictly increasing, so the position tells the entry.

`NtfsCacheProofs` proves `ListsIntact`, `EachCallAsPromised` and `ImplementsLru` for any
number of entries, keys and hash values.  The invariant `CacheInv` names two sequences
of which the pointers are the links (`Good`): one in order of use, one of free entries,
with the hash chains and the blocks over them; each function of cache.c is a lemma
about these sequences.  The theorems are about `MallocFails = FALSE`: with TRUE the
properties do not hold, which is the run `cache_nomemory`.

`NtfsFixProofs` proves all seven safety properties of the repair for any number of records,
sectors, versions and damages.  `Layout` is the form of the records on the disk and in memory.
`BootSafe`, `NewestKept` (with `Versions`), `OneCopyLeft` (`Copies`), `DirtyBeforeJournal`
(`DirtyFlag`), `ExtentKept` (`Held`, `NoReference`) and `RepairedMounts` (`Progress`: what the
step of the repair that comes next may rely on) need no more than it.
`ReadIsWhole` needs a count (`Numbers`): the update sequence numbers in the sectors of a record
are at most as far behind the number in memory as writes were interrupted, so a number that
is written differs from all that an interrupted write may have left.  That is so if
`MaxFaults < UsnModulus - 2` (`FaultAssumption`): the code has 2^16 - 2 numbers.
The assumption is tight: with four faults and six numbers TLC finds a mixed record that
reads as complete.

`NtfsInodeProofs`, `NtfsPathProofs` and `NtfsFileProofs` prove the properties of files
and handles for any set of names, records and handles, any depth of paths, any size of the
two caches and any workload.

- For any number of power losses: `TypesHold`, `BitmapCovered` (`BitmapCovers`), `EntriesAreTold`
  (`EntriesTold`) and `InodeCacheHolds` (`InodeCacheAgrees`).  The invariant is `Good` of the
  session: not only its disk but every disk that a power loss could leave (`cuts`) is `Sound`,
  the keys of a cache differ, and a cached inode is what the disk has.  `Sound` is more than the two
  properties: an index entry is never ahead of the sequence number of its record, and one
  of the same age whose record is in use is the entry of that file, by its parent and its name.  Without
  this a delete could free a record that another entry still names.  Each call of the library has a
  lemma that takes a good session to a good one; in between, while an inode is open, its
  record may be written (`Writable`) only because no other copy of it is cached
  (`NotCached`), which is what the inode cache of the library is careful about.
- While power was not lost (`faults = 0`): `PathCacheHolds` (`PathCacheAgrees`), `HandlesFind`
  (`HandleFindsFile`) and `SizesNotAhead` (`SizeNotAhead`).  The invariant `Settled` adds that the
  directories are a `Tree` (a file in use is the entry that its parent and its name
  say, an entry has its file, a record that is free has no entries), that a cached path leads to its
  inode (`Directed`), and that the path of an open handle leads to its file, which is not
  shorter than the handle believes, or the file's record was freed since (`Placed`).  A path in a tree
  leads to at most one file, and an operation changes where paths lead only for the file it creates
  or removes (`Evolves`), by induction along the path.
  The hypothesis is needed: after a power loss in the middle of a create or delete an entry without its
  file may be left, a second loss can leave another one in the same place, and then
  two paths with different spellings disagree; `EntriesTold` is what holds instead.
  The run checks the three properties with one power loss, where they hold.

How data is handled.  `Induction` has induction over the numbers up to a bound for a *set*
of numbers (`UpTo`, `DownFrom`), which the provers can instantiate, since a theorem with
an operator for a parameter is out of their reach; with it, what a recursive function along a
sequence computes (`Iteration`), and lemmas about removing and inserting elements.  For
this the models that are proved about use recursive functions and `Lists`.

Only model-checked:

- liveness (`StoppedInFlightIsFreed`, `ReadingEnds`, `RepairEnds`), which is out of the
  prover's reach, and the violations;
- the index, the clusters and the storage: their operators are RECURSIVE (a tree
  that splits up to its root, runlists that are merged and cut), for which the SMT prover is
  not available;
- the calendar: its run is exhaustive over the days that the code can hold;
- the three properties of `NtfsFile` that are proved for `faults = 0`, with one power loss.

## What is not modelled

- File names (FileName.c, parts of Misc.c): one pass over a string, without state.  Names are
  abstract in all modules; `NtfsInode` has their case by a table.
- Unicode collation (one pointer) and the component name (constant strings).
- Compression, encryption, security descriptors, reparse points, attribute lists and
  object identifiers of the library, which the driver never creates; the growth of
  `$MFT`.
- The other kinds of indexes ($SDH, $SII, $O, $Q), which share the tree.
- The volume label, which SetInfo may change (`ntfs_volume_rename`): one attribute of
  `$Volume` that nothing else depends on.  Its locking and references are in `NtfsVolume`.
- The command line tools and FUSE front ends of ntfs-3g, which are not part of the driver
  and make up most of the lines under `src/Library`.
- The composition of `NtfsVolume` with the modules of the library: a Stop inside an
  operation does not touch the library's state before the operation ends
  (`InFlightProtected`), so operations are single steps in `NtfsFile` and `NtfsStorage`.
