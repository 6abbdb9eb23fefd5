------------------------------ MODULE NtfsVolume ------------------------------
(***************************************************************************)
(* The life of an NTFS_VOLUME: DriverBinding Start and Stop, NtfsUnload,   *)
(* OpenVolume, and what every EFI_FILE_PROTOCOL operation does to the      *)
(* volume's reference count, to its memory and to the global NtfsFsLock.   *)
(*                                                                         *)
(* The driver is single threaded.  What makes it hard is reentrancy: while *)
(* an operation waits for the device, a media change makes the firmware    *)
(* call Stop() and then Start() on any controller, inside that operation.  *)
(* An operation that reaches the device is therefore a Begin and an End    *)
(* action, and `op' is the operation in flight; Stop and the nested Start  *)
(* are single steps that may fall between them.                            *)
(*                                                                         *)
(* The build is RELEASE (Conf/target.txt), where ASSERT is compiled out:   *)
(* EfiAcquireLock takes a lock that is already acquired.                   *)
(***************************************************************************)
EXTENDS Integers, FiniteSets

CONSTANTS
    Controllers,    \* device handles that carry BlockIo and DiskIo
    Volumes,        \* addresses of NTFS_VOLUME structures
    Handles,        \* addresses of open NTFS_IFILE instances
    NULL,
    RefModulus,     \* RefCount is a UINTN: 2^64 in the build
    MaxMounts       \* bound on the mounts of one volume

ASSUME ConstantsAssumption ==
    /\ IsFiniteSet(Handles)
    /\ RefModulus \in Nat
    /\ Cardinality(Handles) < RefModulus
    /\ NULL \notin Controllers \cup Volumes \cup Handles
    /\ MaxMounts \in Nat

VARIABLES
    DiskIoOpen,     \* controller -> DiskIo opened BY_DRIVER by this driver
    FileSystem,     \* controller -> volume whose SimpleFileSystem is installed
    memory,         \* volume -> "unused", "allocated" or "freed" pool
    Handle,         \* volume -> its controller
    Valid,          \* volume -> Valid
    RefCount,       \* volume -> RefCount
    VolInfo,        \* volume -> whether VolInfo points to a mounted ntfs_volume
    mounts,         \* volume -> ntfs_volume objects mounted and not unmounted
    fileVol,        \* open instance -> IFile->Volume, NULL for no instance
    IsRoot,         \* open instance -> IsRoot
    lock,           \* NtfsFsLock
    op,             \* the operation in flight
    image,          \* the driver image: "loaded", "unloading" or "unloaded"
    toUnload,       \* handles NtfsUnload has still to visit
    crashed,        \* a freed volume, a NULL mount or unloaded code was used
    drift           \* history: how far RefCount is from the open files

boundVars  == <<DiskIoOpen, FileSystem>>
volumeVars == <<memory, Handle, Valid, RefCount, VolInfo, mounts>>
fileVars   == <<fileVol, IsRoot>>
imageVars  == <<image, toUnload>>
vars == <<boundVars, volumeVars, fileVars, imageVars, lock, op, crashed, drift>>

OpKinds == {"none", "OpenVolume", "Open", "Delete", "Access", "Info", "Start"}

Operation == [kind : OpKinds,
              vol  : Volumes \cup {NULL},
              file : Handles \cup {NULL},
              ctl  : Controllers \cup {NULL},
              mine : BOOLEAN]

NoOp == [kind |-> "none", vol |-> NULL, file |-> NULL, ctl |-> NULL,
         mine |-> FALSE]

Idle == op = NoOp

\* The driver's code still runs and no operation is in flight.
Ready == ~crashed /\ Idle

\* Open instances that are not the root instance of OpenVolume.
Files(v) == {h \in Handles : fileVol[h] = v /\ ~IsRoot[h]}

\* UINTN arithmetic on RefCount.
Plus(m, n) == IF m + n < RefModulus THEN m + n ELSE m + n - RefModulus
Increment(n) == IF n = RefModulus - 1 THEN 0 ELSE n + 1
Decrement(n) == IF n = 0 THEN RefModulus - 1 ELSE n - 1

Init ==
    /\ DiskIoOpen = [c \in Controllers |-> FALSE]
    /\ FileSystem = [c \in Controllers |-> NULL]
    /\ memory     = [v \in Volumes |-> "unused"]
    /\ Handle     = [v \in Volumes |-> NULL]
    /\ Valid      = [v \in Volumes |-> FALSE]
    /\ RefCount   = [v \in Volumes |-> 0]
    /\ VolInfo    = [v \in Volumes |-> FALSE]
    /\ mounts     = [v \in Volumes |-> 0]
    /\ fileVol    = [h \in Handles |-> NULL]
    /\ IsRoot     = [h \in Handles |-> FALSE]
    /\ lock       = "released"
    /\ op         = NoOp
    /\ image      = "loaded"
    /\ toUnload   = {}
    /\ crashed    = FALSE
    /\ drift      = [v \in Volumes |-> 0]

-----------------------------------------------------------------------------
(* The lock and the reference check.                                       *)

NtfsAcquireLock == lock' = "acquired"

NtfsReleaseLock == lock' = "released"

LockedByMe_Always == TRUE
LockedByMe == lock = "released"

\* The last step of an operation on volume v: unmount and free a volume that
\* was stopped and that nobody counts on.  `m' is `mounts' as the operation
\* left it; RefCount', Valid' and VolInfo' are what the operation wrote.
Disposable_Uncounted(v) == ~Valid'[v]
Disposable_Installed(v) == RefCount'[v] = 0
Disposable(v) == RefCount'[v] = 0 /\ ~Valid'[v]

NtfsCleanupVolume(v, m) ==
    /\ memory' = IF Disposable(v) THEN [memory EXCEPT ![v] = "freed"] ELSE memory
    /\ mounts' = IF Disposable(v) /\ VolInfo'[v] THEN [m EXCEPT ![v] = @ - 1] ELSE m

Begin(kind, v, h, c, mine) ==
    op' = [kind |-> kind, vol |-> v, file |-> h, ctl |-> c, mine |-> mine]

\* A call through handle h reaches driver code and a volume that is there.
Callable(h) ==
    /\ Ready
    /\ image # "unloaded"
    /\ fileVol[h] # NULL
    /\ memory[fileVol[h]] = "allocated"

\* Any call through an instance whose volume was freed, or after the image
\* was unloaded: the outcome is undefined and is not followed further.
CallDangling(h) ==
    /\ Ready
    /\ fileVol[h] # NULL
    /\ image = "unloaded" \/ memory[fileVol[h]] = "freed"
    /\ crashed' = TRUE
    /\ UNCHANGED <<boundVars, volumeVars, fileVars, imageVars, lock, op, drift>>

Halted == (crashed \/ image = "unloaded") /\ UNCHANGED vars

-----------------------------------------------------------------------------
(* Driver binding.                                                         *)

\* NtfsAllocateVolume up to the read of the boot sector.  Start leaves early,
\* with no effect, when DiskIo is already opened BY_DRIVER.
NtfsDriverBindingStartBegin(c, v) ==
    /\ Ready
    /\ image = "loaded"
    /\ ~DiskIoOpen[c]
    /\ memory[v] = "unused"
    /\ DiskIoOpen' = [DiskIoOpen EXCEPT ![c] = TRUE]
    /\ memory'     = [memory EXCEPT ![v] = "allocated"]
    /\ Handle'     = [Handle EXCEPT ![v] = c]
    /\ Begin("Start", v, NULL, c, LockedByMe)
    /\ NtfsAcquireLock
    /\ UNCHANGED <<FileSystem, Valid, RefCount, VolInfo, mounts, fileVars,
                   imageVars, crashed, drift>>

\* The boot sector is NTFS and the protocol is installed, or not; on an error
\* DiskIo stays open when a nested Start has installed a file system.
NtfsDriverBindingStartEnd(found) ==
    /\ ~crashed
    /\ op.kind = "Start"
    /\ IF found
       THEN /\ FileSystem' = [FileSystem EXCEPT ![op.ctl] = op.vol]
            /\ Valid'      = [Valid EXCEPT ![op.vol] = TRUE]
            /\ UNCHANGED <<memory, DiskIoOpen>>
       ELSE /\ memory'     = [memory EXCEPT ![op.vol] = "freed"]
            /\ DiskIoOpen' = [DiskIoOpen EXCEPT ![op.ctl] =
                                 FileSystem[op.ctl] # NULL]
            /\ UNCHANGED <<FileSystem, Valid>>
    /\ IF op.mine THEN NtfsReleaseLock ELSE UNCHANGED lock
    /\ op' = NoOp
    /\ UNCHANGED <<Handle, RefCount, VolInfo, mounts, fileVars, imageVars,
                   crashed, drift>>

\* A successful Start inside the operation in flight, which holds the lock.
NtfsDriverBindingStartNested(c, v) ==
    /\ ~crashed
    /\ ~Idle
    /\ image = "loaded"
    /\ ~DiskIoOpen[c]
    /\ memory[v] = "unused"
    /\ DiskIoOpen' = [DiskIoOpen EXCEPT ![c] = TRUE]
    /\ FileSystem' = [FileSystem EXCEPT ![c] = v]
    /\ memory'     = [memory EXCEPT ![v] = "allocated"]
    /\ Handle'     = [Handle EXCEPT ![v] = c]
    /\ Valid'      = [Valid EXCEPT ![v] = TRUE]
    /\ UNCHANGED <<RefCount, VolInfo, mounts, fileVars, imageVars, lock, op,
                   crashed, drift>>

\* Stop, alone or inside the operation in flight.  The lock that Stop takes
\* is not released on any path of NtfsAbandonVolume.
NtfsAbandonVolume(v) ==
    /\ Valid' = [Valid EXCEPT ![v] = FALSE]
    /\ UNCHANGED <<RefCount, VolInfo>>
    /\ IF LockedByMe THEN NtfsCleanupVolume(v, mounts)
                     ELSE UNCHANGED <<memory, mounts>>
    /\ NtfsAcquireLock

\* Stop fails, with no effect, when no file system is installed on c.
NtfsDriverBindingStop_KeepDiskIo(c) ==
    /\ FileSystem[c] # NULL
    /\ FileSystem' = [FileSystem EXCEPT ![c] = NULL]
    /\ NtfsAbandonVolume(FileSystem[c])
    /\ UNCHANGED <<DiskIoOpen, Handle, fileVars, op, crashed, drift>>

NtfsDriverBindingStop(c) ==
    /\ FileSystem[c] # NULL
    /\ FileSystem' = [FileSystem EXCEPT ![c] = NULL]
    /\ NtfsAbandonVolume(FileSystem[c])
    /\ DiskIoOpen' = [DiskIoOpen EXCEPT ![c] = FALSE]
    /\ UNCHANGED <<Handle, fileVars, op, crashed, drift>>

Disconnect(c) ==
    /\ ~crashed
    /\ image = "loaded"
    /\ NtfsDriverBindingStop(c)
    /\ UNCHANGED imageVars

\* NtfsUnload visits every handle once, disconnects the ones this driver
\* manages and gives up at the first one that does not disconnect.  It does
\* not touch the device, so no media change falls into its loop; the users of
\* a file system that goes away may Flush and Close their files there.
NtfsUnloadBegin ==
    /\ Ready
    /\ image = "loaded"
    /\ image' = "unloading"
    /\ toUnload' = Controllers
    /\ UNCHANGED <<boundVars, volumeVars, fileVars, lock, op, crashed, drift>>

UnloadGivesUp_Continue == toUnload' = {} /\ UNCHANGED image
UnloadGivesUp == toUnload' = {} /\ image' = "loaded"

NtfsUnloadVisit(c) ==
    /\ Ready
    /\ image = "unloading"
    /\ c \in toUnload
    /\ \/ /\ DiskIoOpen[c]
          /\ NtfsDriverBindingStop(c)
          /\ toUnload' = toUnload \ {c}
          /\ UNCHANGED image
       \/ /\ DiskIoOpen[c]
          /\ UnloadGivesUp
          /\ UNCHANGED <<boundVars, volumeVars, fileVars, lock, op, crashed, drift>>
       \/ /\ ~DiskIoOpen[c]
          /\ toUnload' = toUnload \ {c}
          /\ UNCHANGED <<boundVars, volumeVars, fileVars, image, lock, op,
                         crashed, drift>>

NtfsUnloadEnd ==
    /\ Ready
    /\ image = "unloading"
    /\ toUnload = {}
    /\ image' \in {"unloaded", "loaded"}
    /\ UNCHANGED <<toUnload, boundVars, volumeVars, fileVars, lock, op, crashed,
                   drift>>

-----------------------------------------------------------------------------
(* SimpleFileSystem.OpenVolume: every call mounts the device again.        *)

NtfsOpenVolumeBegin(c) ==
    /\ Ready
    /\ image = "loaded"
    /\ FileSystem[c] # NULL
    /\ mounts[FileSystem[c]] < MaxMounts
    /\ NtfsAcquireLock
    /\ Begin("OpenVolume", FileSystem[c], NULL, NULL, TRUE)
    /\ UNCHANGED <<boundVars, volumeVars, fileVars, imageVars, crashed, drift>>

\* `mounted': NtfsMount succeeded, at once or after the repair.  `h' is the
\* root instance, NULL when a check after the repair or the allocation fails.
NtfsOpenVolumeEnd(mounted, h) ==
    LET v == op.vol IN
    /\ ~crashed
    /\ op.kind = "OpenVolume"
    /\ h # NULL => mounted /\ fileVol[h] = NULL
    /\ VolInfo' = [VolInfo EXCEPT ![v] = mounted]
    /\ IF h # NULL
       THEN /\ fileVol' = [fileVol EXCEPT ![h] = v]
            /\ IsRoot'  = [IsRoot EXCEPT ![h] = TRUE]
       ELSE UNCHANGED fileVars
    /\ UNCHANGED <<RefCount, Valid>>
    /\ NtfsCleanupVolume(v, IF mounted THEN [mounts EXCEPT ![v] = @ + 1]
                                       ELSE mounts)
    /\ NtfsReleaseLock
    /\ op' = NoOp
    /\ UNCHANGED <<boundVars, Handle, imageVars, crashed, drift>>

\* When the first mount fails, fix_mount sets up its device without the volume
\* (priv_data is NULL), so the repair reaches the disk through NULL: it may do
\* anything, from working to this.
FixMountFault ==
    /\ ~crashed
    /\ op.kind = "OpenVolume"
    /\ VolInfo' = [VolInfo EXCEPT ![op.vol] = FALSE]
    /\ crashed' = TRUE
    /\ UNCHANGED <<boundVars, memory, Handle, Valid, RefCount, mounts, fileVars,
                   imageVars, lock, op, drift>>

-----------------------------------------------------------------------------
(* EFI_FILE_PROTOCOL operations.                                           *)

\* Open, Delete, Read, Write, GetInfo and SetInfo on instance h: take the
\* lock and start to use the device.
FileBegin(kind, h) ==
    /\ Callable(h)
    /\ image = "loaded"
    /\ NtfsAcquireLock
    /\ Begin(kind, fileVol[h], h, NULL, TRUE)
    /\ UNCHANGED <<boundVars, volumeVars, fileVars, imageVars, crashed, drift>>

\* The path of an instance is looked up at every call.  Without a mount, when
\* the file is gone or when the device fails the lookup yields a NULL inode,
\* which these operations dereference.  Delete of a root does not look it up.
NullInode ==
    /\ ~crashed
    /\ op.kind \in {"Open", "Delete", "Access", "Info"}
    /\ op.kind = "Delete" => ~IsRoot[op.file]
    /\ crashed' = TRUE
    /\ UNCHANGED <<boundVars, volumeVars, fileVars, imageVars, lock, op, drift>>

\* A root instance has no FileInfo.  Read, before it takes the lock, and Close,
\* for its message, go through the NULL pointer: they fault or go on.
RootFault(h) ==
    /\ Callable(h)
    /\ IsRoot[h]
    /\ crashed' = TRUE
    /\ UNCHANGED <<boundVars, volumeVars, fileVars, imageVars, lock, op, drift>>

\* `g' is the new instance of volume v, NULL when the open fails.
NtfsOFileOpen_CountFailure(v, g) ==
    /\ RefCount' = [RefCount EXCEPT ![v] = Increment(@)]
    /\ IF g # NULL
       THEN /\ VolInfo[v]
            /\ fileVol[g] = NULL
            /\ fileVol'  = [fileVol EXCEPT ![g] = v]
            /\ IsRoot'   = [IsRoot EXCEPT ![g] = FALSE]
       ELSE UNCHANGED fileVars

NtfsOFileOpen(v, g) ==
    IF g # NULL
    THEN /\ VolInfo[v]
         /\ fileVol[g] = NULL
         /\ fileVol'  = [fileVol EXCEPT ![g] = v]
         /\ IsRoot'   = [IsRoot EXCEPT ![g] = FALSE]
         /\ RefCount' = [RefCount EXCEPT ![v] = Increment(@)]
    ELSE UNCHANGED <<fileVars, RefCount>>

NtfsOpenEnd(g) ==
    /\ ~crashed
    /\ op.kind = "Open"
    /\ NtfsOFileOpen(op.vol, g)
    /\ UNCHANGED <<Valid, VolInfo>>
    /\ NtfsCleanupVolume(op.vol, mounts)
    /\ NtfsReleaseLock
    /\ op' = NoOp
    /\ UNCHANGED <<boundVars, Handle, imageVars, crashed, drift>>

NtfsIFileClose(h) ==
    /\ fileVol' = [fileVol EXCEPT ![h] = NULL]
    /\ IsRoot'  = [IsRoot EXCEPT ![h] = FALSE]

\* The instance is closed on every path and RefCount is left alone.
NtfsDeleteEnd ==
    LET v == op.vol IN
    /\ ~crashed
    /\ op.kind = "Delete"
    /\ NtfsIFileClose(op.file)
    /\ UNCHANGED <<RefCount, Valid, VolInfo>>
    /\ drift' = IF IsRoot[op.file] THEN drift
                                   ELSE [drift EXCEPT ![v] = Increment(@)]
    /\ NtfsCleanupVolume(v, mounts)
    /\ NtfsReleaseLock
    /\ op' = NoOp
    /\ UNCHANGED <<boundVars, Handle, imageVars, crashed>>

\* NtfsIFileAccess checks the references only when the access failed.
NtfsAccessEnd(ok) ==
    /\ ~crashed
    /\ op.kind = "Access"
    /\ UNCHANGED <<RefCount, Valid, VolInfo>>
    /\ IF ok THEN UNCHANGED <<memory, mounts>>
             ELSE NtfsCleanupVolume(op.vol, mounts)
    /\ NtfsReleaseLock
    /\ op' = NoOp
    /\ UNCHANGED <<boundVars, Handle, fileVars, imageVars, crashed, drift>>

NtfsSetOrGetInfoEnd_NoCleanup ==
    /\ ~crashed
    /\ op.kind = "Info"
    /\ NtfsReleaseLock
    /\ op' = NoOp
    /\ UNCHANGED <<boundVars, volumeVars, fileVars, imageVars, crashed, drift>>

NtfsSetOrGetInfoEnd ==
    /\ ~crashed
    /\ op.kind = "Info"
    /\ UNCHANGED <<RefCount, Valid, VolInfo>>
    /\ NtfsCleanupVolume(op.vol, mounts)
    /\ NtfsReleaseLock
    /\ op' = NoOp
    /\ UNCHANGED <<boundVars, Handle, fileVars, imageVars, crashed, drift>>

\* Close and Flush do not wait for the device: its sync does nothing.  Flush
\* leaves early, with no effect, on a read-only volume or instance.
NtfsClose(h) ==
    LET v == fileVol[h] IN
    /\ Callable(h)
    /\ NtfsIFileClose(h)
    /\ RefCount' = [RefCount EXCEPT ![v] = Decrement(@)]
    /\ drift' = IF IsRoot[h] THEN [drift EXCEPT ![v] = Decrement(@)] ELSE drift
    /\ UNCHANGED <<Valid, VolInfo>>
    /\ NtfsCleanupVolume(v, mounts)
    /\ NtfsReleaseLock
    /\ UNCHANGED <<boundVars, Handle, imageVars, op, crashed>>

NtfsFlush(h) ==
    LET v == fileVol[h] IN
    /\ Callable(h)
    /\ UNCHANGED <<RefCount, Valid, VolInfo>>
    /\ IF VolInfo[v]
       THEN NtfsCleanupVolume(v, mounts) /\ NtfsReleaseLock /\ UNCHANGED crashed
       ELSE crashed' = TRUE /\ NtfsAcquireLock /\ UNCHANGED <<memory, mounts>>
    /\ UNCHANGED <<boundVars, Handle, fileVars, imageVars, op, drift>>

-----------------------------------------------------------------------------

\* The rest of the operation in flight, once the device has answered.
EndOperation ==
    \/ \E found \in BOOLEAN : NtfsDriverBindingStartEnd(found)
    \/ \E mounted \in BOOLEAN, h \in Handles \cup {NULL} :
          NtfsOpenVolumeEnd(mounted, h)
    \/ FixMountFault
    \/ NullInode
    \/ \E g \in Handles \cup {NULL} : NtfsOpenEnd(g)
    \/ NtfsDeleteEnd
    \/ \E ok \in BOOLEAN : NtfsAccessEnd(ok)
    \/ NtfsSetOrGetInfoEnd

Next ==
    \/ \E c \in Controllers, v \in Volumes :
          \/ NtfsDriverBindingStartBegin(c, v)
          \/ NtfsDriverBindingStartNested(c, v)
    \/ \E c \in Controllers :
          \/ Disconnect(c)
          \/ NtfsUnloadVisit(c)
          \/ NtfsOpenVolumeBegin(c)
    \/ NtfsUnloadBegin
    \/ NtfsUnloadEnd
    \/ \E h \in Handles :
          \/ \E kind \in {"Open", "Delete", "Access", "Info"} : FileBegin(kind, h)
          \/ NtfsClose(h)
          \/ NtfsFlush(h)
          \/ RootFault(h)
          \/ CallDangling(h)
    \/ EndOperation
    \/ Halted

Spec == Init /\ [][Next]_vars

\* A device call returns, with data or with an error, and the handler that
\* made it runs on to its end: nothing in the driver waits.
FairSpec == Spec /\ WF_vars(EndOperation)

-----------------------------------------------------------------------------
(* Properties.                                                             *)

TypeOK ==
    /\ DiskIoOpen \in [Controllers -> BOOLEAN]
    /\ FileSystem \in [Controllers -> Volumes \cup {NULL}]
    /\ memory     \in [Volumes -> {"unused", "allocated", "freed"}]
    /\ Handle     \in [Volumes -> Controllers \cup {NULL}]
    /\ Valid      \in [Volumes -> BOOLEAN]
    /\ RefCount   \in [Volumes -> 0 .. RefModulus - 1]
    /\ VolInfo    \in [Volumes -> BOOLEAN]
    /\ mounts     \in [Volumes -> 0 .. MaxMounts]
    /\ fileVol    \in [Handles -> Volumes \cup {NULL}]
    /\ IsRoot     \in [Handles -> BOOLEAN]
    /\ lock       \in {"released", "acquired"}
    /\ op         \in Operation
    /\ image      \in {"loaded", "unloading", "unloaded"}
    /\ toUnload   \in SUBSET Controllers
    /\ crashed    \in BOOLEAN
    /\ drift      \in [Volumes -> 0 .. RefModulus - 1]

\* An installed SimpleFileSystem interface never points into freed memory:
\* its volume is allocated, valid and on that controller, and the driver
\* still has DiskIo open (NtfsAllocateVolume, NtfsAbandonVolume).
InstalledIsLive ==
    \A c \in Controllers : FileSystem[c] # NULL =>
        /\ memory[FileSystem[c]] = "allocated"
        /\ Valid[FileSystem[c]]
        /\ Handle[FileSystem[c]] = c
        /\ DiskIoOpen[c]

\* Between Start and Stop a controller has exactly one valid volume, and
\* DiskIo is open exactly while a file system is installed or being started:
\* no path of Start or Stop leaks the BY_DRIVER open or the volume.
OneValidVolume ==
    /\ \A v \in Volumes : Valid[v] => Handle[v] # NULL /\ FileSystem[Handle[v]] = v
    /\ \A c \in Controllers :
          DiskIoOpen[c] <=> FileSystem[c] # NULL \/ (op.kind = "Start" /\ op.ctl = c)

\* The operation in flight holds NtfsFsLock and its volume is still
\* allocated, whatever Stop and Start were called inside it: this is what
\* LockedByMe is for in NtfsAbandonVolume and NtfsDriverBindingStart.
InFlightProtected ==
    ~Idle => lock = "acquired" /\ memory[op.vol] = "allocated"

\* RefCount is the number of open files plus the drift that closing a root
\* instance (one too many decrement) and Delete (one missing) leave behind.
RefCountBalance ==
    \A v \in Volumes :
        RefCount[v] = Plus(Cardinality(Files(v)), drift[v])

\* The reference count protects every open file of a volume on which no root
\* instance was closed and no file deleted: Stop and the operations that
\* follow it free such a volume only when its last file is closed.
CountedFilesKeepVolume ==
    \A v \in Volumes : memory[v] = "freed" /\ drift[v] = 0 => Files(v) = {}

\* An unloaded driver leaves no file system and no open DiskIo behind, since
\* NtfsUnload gives up at the first controller that does not disconnect.
UnloadedLeavesNothing ==
    image = "unloaded" =>
        \A c \in Controllers : FileSystem[c] = NULL /\ ~DiskIoOpen[c]

\* What the operation in flight may rely on when the device answers: the
\* handle it was called on is still an instance of its volume, Start has not
\* published its volume, OpenVolume may mount once more.
OperationIntact ==
    /\ op.kind = "none" <=> Idle
    /\ ~Idle => op.vol \in Volumes
    /\ op.kind \in {"Open", "Delete", "Access", "Info"} =>
          op.file \in Handles /\ fileVol[op.file] = op.vol
    /\ op.kind = "OpenVolume" => mounts[op.vol] < MaxMounts
    /\ op.kind = "Start" =>
          /\ op.ctl \in Controllers
          /\ Handle[op.vol] = op.ctl
          /\ ~Valid[op.vol]
          /\ RefCount[op.vol] = 0
          /\ FileSystem[op.ctl] = NULL

\* A volume before its allocation is blank, a freed one is not counted, and
\* an allocated one with a VolInfo has a mount to undo.
VolumeMemory ==
    \A v \in Volumes :
        /\ memory[v] = "unused" =>
              /\ ~Valid[v] /\ ~VolInfo[v]
              /\ RefCount[v] = 0 /\ mounts[v] = 0 /\ drift[v] = 0
              /\ \A h \in Handles : fileVol[h] # v
        /\ memory[v] = "freed" => RefCount[v] = 0
        /\ memory[v] = "allocated" /\ VolInfo[v] => mounts[v] > 0

\* Controllers that NtfsUnload has passed stay closed.
UnloadProgress ==
    /\ image # "loaded" => Idle
    /\ image = "unloading" => \A c \in Controllers \ toUnload : ~DiskIoOpen[c]
    /\ image = "unloaded" => \A c \in Controllers : ~DiskIoOpen[c]

\* The inductive invariant: no part of it is preserved by every step without
\* the others (an operation ends in the state its first half left, which Stop,
\* Start and Unload may have changed in between).
IndInv ==
    /\ TypeOK
    /\ InstalledIsLive
    /\ OneValidVolume
    /\ InFlightProtected
    /\ RefCountBalance
    /\ OperationIntact
    /\ VolumeMemory
    /\ UnloadProgress

\* Init.c, NtfsAbandonVolume: "If locked by me, this means DriverBindingStop
\* is NOT called within an on-going Fat operation, so we should take
\* responsibility to cleanup and free the volume."  A stopped volume without
\* open instances, whose RefCount is right, does not stay allocated.
CountedVolumeIsFreed ==
    \A v \in Volumes :
        Ready /\ memory[v] = "allocated" /\ ~Valid[v] /\ drift[v] = 0
            => \E h \in Handles : fileVol[h] = v

\* "Otherwise, the DriverBindingStop is called within an on-going Fat
\* operation ... just let outer FatCleanupVolume do the task": a volume that
\* is stopped inside an operation on it is freed once that operation ends,
\* unless files are counted.  A successful Read or Write is the exception:
\* NtfsIFileAccess checks the references only on errors.
StoppedInFlight(v) ==
    /\ op.kind \in {"OpenVolume", "Open", "Delete", "Info"}
    /\ op.vol = v
    /\ ~Valid[v]
    /\ RefCount[v] = 0

StoppedInFlightIsFreed ==
    \A v \in Volumes :
        StoppedInFlight(v) ~> (memory[v] = "freed" \/ RefCount[v] # 0 \/ crashed)

=============================================================================
