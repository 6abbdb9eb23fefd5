-------------------------------- MODULE NtfsFix --------------------------------
(***************************************************************************)
(* The metadata on the disk through OpenVolume: the mount that checks it,  *)
(* the repair that runs when the mount fails (ntfsfix.c), the second mount *)
(* and the check of the alternate boot sector; and the writes of MFT       *)
(* records to $MFT and $MFTMirr while the volume is mounted.  A write may  *)
(* fail, and power may be lost in it, at any sector.                       *)
(*                                                                         *)
(* fix_mount sets its device up without the volume behind it, so that the  *)
(* first access of the repair is undefined (FixMountFault).  The steps of  *)
(* the repair are those it is written to take on a device that does reach  *)
(* the disk.                                                               *)
(***************************************************************************)
EXTENDS Mst, FiniteSets

CONSTANTS
    MirrorSize,     \* vol->mftmirr_size: records that $MFTMirr holds
    SystemRecords,  \* FILE_MFT and FILE_MFTMirr, which the startup needs
    VolumeRecord,   \* FILE_Volume
    LogRecord,      \* FILE_LogFile
    LastBlock,      \* BlockIo->Media->LastBlock; a block is a sector
    Chunks,         \* writes of NTFS_BUF_SIZE that cover $LogFile
    TailWords,      \* last words the driver leaves in the sectors of a record
    Damages,        \* what may be wrong with the disk at first
    MaxVersions,    \* bound on the versions of one MFT record
    MaxFaults       \* bound on the writes that fail or are interrupted

Records == 0 .. MirrorSize - 1

ASSUME FixAssumption ==
    /\ MirrorSize \in Nat \ {0}
    /\ SystemRecords \subseteq Records
    /\ 0 \in SystemRecords
    /\ VolumeRecord \in Records \ SystemRecords
    /\ LogRecord \in Records
    /\ LastBlock \in Nat /\ LastBlock > 1
    /\ Chunks \in Nat \ {0}
    /\ TailWords \subseteq Words /\ TailWords # {}
    /\ Damages \subseteq {"none", "boot", "oversized", "upcase", "selfloc", "record"}
    /\ MaxVersions \in Nat /\ MaxFaults \in Nat

\* Fewer writes fail than there are update sequence numbers.  With one more
\* failure the number that an interrupted write left in a sector comes round.
ASSUME FaultAssumption == MaxFaults < UsnModulus - 2

VARIABLES
    mft,        \* record -> what $MFT holds on the disk
    mirr,       \* record -> what $MFTMirr holds on the disk
    blocks,     \* sector of the partition -> boot sector found in it
    extent,     \* where the second part of the runlist of $MFT is kept
    upcase,     \* the table in $UpCase passes the check
    journal,    \* chunk of $LogFile -> filled with 0xff
    pc,         \* what the driver does next
    cur,        \* the record or chunk it is at
    buf,        \* the protected record that is being written
    core,       \* record -> deprotected copy in memory, while mounted
    latest,     \* history: record -> number of its last version
    faults      \* history: writes that failed or were interrupted

disk == <<mft, mirr, blocks, extent, upcase, journal>>
vars == <<disk, pc, cur, buf, core, latest, faults>>

-----------------------------------------------------------------------------
(* What the disk holds.                                                    *)

VolumeFlags == {"dirty", "other"}

\* Where the attribute list of $MFT says its second part is.
ListRefs == {"none", "high", "spare"}

\* The part of a sector that the protection does not touch: the version
\* of the record it belongs to (history), the flags in $VOLUME_INFORMATION when it is
\* $Volume, and the attribute list when it is $MFT and the list is resident.
Body == [ver : Nat, flags : SUBSET VolumeFlags, list : ListRefs]

Rec == Record(Body)

BootSector == [ntfs : BOOLEAN, sectors : Nat]

\* `high' is the MFT record beyond 15 that describes itself, `spare' is
\* record 15, each with what it holds.
Extent == [resident : BOOLEAN,
           list     : ListRefs,
           high     : {"extent", "free", "torn"},
           spare    : {"extent", "free", "torn"}]

Whole(usn, w, flags, list) ==
    [magic |-> "FILE", valid |-> TRUE, usn |-> usn,
     usa  |-> [s \in Sectors |-> w],
     tail |-> [s \in Sectors |-> usn],
     body |-> [s \in Sectors |-> [ver |-> 0, flags |-> flags, list |-> list]]]

\* Memory without a record.
Blank == Whole(1, 0, {}, "none")

\* A record that was overwritten with something else; what has the magic
\* "other" has the bit MFT_RECORD_IN_USE set, what has the magic "none" not.
Garbage(r, magic) == [r EXCEPT !.magic = magic, !.valid = FALSE]

\* MFT_RECORD_IN_USE, in the header of the record as it is on the disk.
InUse(r) == r.magic \in {"FILE", "other"}

Read(r) == ntfs_mst_post_read_fixup(r)

FlagsOf(r) == r.body[SectorCount].flags

Usable(r) == Read(r).magic = "FILE"


InitialDisk(d, usn, w, resident) ==
    LET list == IF d = "selfloc" THEN "high" ELSE "none"
        at0  == IF resident THEN list ELSE "none"
        rec(i) == Whole(usn, w, IF i = VolumeRecord THEN {"other"} ELSE {},
                        IF i = 0 THEN at0 ELSE "none")
        good == [ntfs |-> TRUE, sectors |-> LastBlock]
        data == [ntfs |-> FALSE, sectors |-> 0]
        main == CASE d = "boot"      -> [ntfs : {FALSE}, sectors : 0 .. LastBlock + 2]
                  [] d = "oversized" -> {[ntfs |-> TRUE, sectors |-> LastBlock + 2]}
                  [] OTHER           -> {good}
    IN  /\ mirr = [i \in Records |-> rec(i)]
        /\ IF d = "record" THEN \E i \in Records, m \in {"none", "other"} :
                                    mft = [mirr EXCEPT ![i] = Garbage(@, m)]
                           ELSE mft = mirr
        /\ \E first \in main :
              blocks = [b \in 0 .. LastBlock |->
                          IF b = 0 THEN first ELSE IF b = LastBlock THEN good ELSE data]
        /\ extent = [resident |-> resident,
                     list  |-> IF resident THEN "none" ELSE list,
                     high  |-> IF d = "selfloc" THEN "extent" ELSE "free",
                     spare |-> "free"]
        /\ upcase = (d # "upcase")
        /\ journal = [c \in 1 .. Chunks |-> FALSE]

Init ==
    /\ \E d \in Damages, usn \in 1 .. UsnModulus - 2, w \in TailWords, resident \in BOOLEAN :
          InitialDisk(d, usn, w, resident)
    /\ pc = "closed" /\ cur = 0
    /\ buf = Blank /\ core = [i \in Records |-> Blank]
    /\ latest = [i \in Records |-> 0]
    /\ faults = 0

-----------------------------------------------------------------------------
(* The checks of the mount.                                                *)

\* ntfs_boot_sector_is_ntfs and ntfs_boot_sector_parse.  The seek to the last
\* sector fails past part_length, which uefi_io sets to LastBlock blocks.
BootUsable(bs) == bs.ntfs /\ bs.sectors # 0 /\ bs.sectors - 1 <= LastBlock

AttributeList == IF extent.resident THEN Read(mft[0]).body[SectorCount].list
                                    ELSE extent.list

\* ntfs_mft_load follows the attribute list of $MFT to its second part.
MftLoads ==
    \/ AttributeList = "none"
    \/ AttributeList = "spare" /\ extent.spare = "extent"

\* ntfs_volume_startup.
StartupOk ==
    /\ BootUsable(blocks[0])
    /\ \A i \in SystemRecords : Usable(mft[i])
    /\ MftLoads

\* ntfs_device_mount: the two copies of a record are read and compared.
MirrorMatches(i) == Usable(mft[i]) /\ Read(mft[i]) = Read(mirr[i])

MountOk ==
    /\ StartupOk
    /\ \A i \in Records : MirrorMatches(i)
    /\ upcase

-----------------------------------------------------------------------------
(* One write of an MFT record to $MFT and then to $MFTMirr                 *)
(* (ntfs_mft_records_write).                                               *)

\* A change of a record in memory: a new version, with word `w' at the end of
\* its sectors.
Versioned(r, v, w) ==
    [r EXCEPT !.tail = [s \in Sectors |-> w],
              !.body = [s \in Sectors |-> [@[s] EXCEPT !.ver = v]]]

\* Protect record `r' and write it as record `i'; `next' is the first write.
StartWrite(i, r, next) ==
    /\ buf' = ntfs_mst_pre_write_fixup(r)
    /\ cur' = i
    /\ pc' = next

AfterMft == CASE pc = "updateMft" -> "updateMirr" [] pc = "mirrorMft" -> "mirrorMirr"
              [] pc = "dirtyMft"  -> "dirtyMirr"  [] pc = "listMft"   -> "listMirr"

InMft  == pc \in {"updateMft", "mirrorMft", "dirtyMft", "listMft"}
InMirr == pc \in {"updateMirr", "mirrorMirr", "dirtyMirr", "listMirr"}

\* The volume is given up, or power is lost: what was in memory is gone.
Leave ==
    /\ pc' = "closed" /\ cur' = 0
    /\ buf' = Blank /\ core' = [i \in Records |-> Blank]

\* The write is over.  The copy in memory is deprotected, whatever came of it.
EndWrite(next, at) ==
    /\ pc' = next /\ cur' = at
    /\ buf' = Blank
    /\ core' = IF pc \in {"updateMft", "updateMirr"}
               THEN [core EXCEPT ![cur] = ntfs_mst_post_write_fixup(buf)] ELSE core

\* A write that fails returns an error; the repair gives up then.
FailWrite == IF pc \in {"updateMft", "updateMirr"} THEN EndWrite("mounted", 0) ELSE Leave

WriteMft ==
    /\ InMft
    /\ mft' = [mft EXCEPT ![cur] = buf]
    /\ pc' = AfterMft
    /\ UNCHANGED <<mirr, blocks, extent, upcase, journal, cur, buf, core, latest, faults>>

WriteMirr ==
    /\ InMirr
    /\ mirr' = [mirr EXCEPT ![cur] = buf]
    /\ CASE pc = "updateMirr" -> EndWrite("mounted", 0)
         [] pc = "mirrorMirr" -> EndWrite("mirror", cur + 1)
         [] pc = "dirtyMirr"  -> EndWrite("journal", 1)
         [] pc = "listMirr"   -> EndWrite("spare", 0)
    /\ UNCHANGED <<mft, blocks, extent, upcase, journal, latest, faults>>

\* Only some sectors get to the disk; the driver sees an error, or power is
\* lost.
Fault == faults < MaxFaults /\ faults' = faults + 1

WriteMftFails_Both ==
    /\ InMft /\ Fault
    /\ \E done \in SUBSET Sectors :
          /\ mft'  = [mft  EXCEPT ![cur] = Torn(@, buf, done)]
          /\ mirr' = [mirr EXCEPT ![cur] = Torn(@, buf, done)]
    /\ FailWrite \/ Leave
    /\ UNCHANGED <<blocks, extent, upcase, journal, latest>>

WriteMftFails ==
    /\ InMft /\ Fault
    /\ \E done \in SUBSET Sectors : mft' = [mft EXCEPT ![cur] = Torn(@, buf, done)]
    /\ FailWrite \/ Leave
    /\ UNCHANGED <<mirr, blocks, extent, upcase, journal, latest>>

WriteMirrFails ==
    /\ InMirr /\ Fault
    /\ \E done \in SUBSET Sectors : mirr' = [mirr EXCEPT ![cur] = Torn(@, buf, done)]
    /\ FailWrite \/ Leave
    /\ UNCHANGED <<mft, blocks, extent, upcase, journal, latest>>

-----------------------------------------------------------------------------
(* OpenVolume: the first mount, and the start of fix_mount.                *)

Mounted == pc' = "mounted" /\ cur' = 0 /\ buf' = Blank
           /\ core' = [i \in Records |-> Read(mft[i])]

Goto(next) == pc' = next /\ UNCHANGED <<cur, buf, core>>

OpenVolume ==
    /\ pc = "closed"
    /\ IF MountOk THEN Mounted ELSE Goto("startup")
    /\ UNCHANGED <<disk, latest, faults>>

\* The device of fix_mount has no private data, through which ntfs_volume_startup
\* reaches the disk: the machine may stop here, until it is reset.
FixMountFault ==
    /\ pc = "startup"
    /\ Goto("halted")
    /\ UNCHANGED <<disk, latest, faults>>

ResetMachine ==
    /\ pc = "halted"
    /\ Leave
    /\ UNCHANGED <<disk, latest, faults>>

Startup ==
    /\ pc \in {"startup", "restart"}
    /\ IF StartupOk THEN pc' = "mirror" /\ cur' = 0 /\ UNCHANGED <<buf, core>>
       ELSE IF pc = "restart" THEN Leave
       ELSE IF BootUsable(blocks[0]) THEN Goto("selfloc")
       ELSE pc' = "boot1" /\ cur' = blocks[0].sectors /\ UNCHANGED <<buf, core>>
    /\ UNCHANGED <<disk, latest, faults>>

-----------------------------------------------------------------------------
(* fix_startup: the boot sector from its alternate.                        *)

\* ntfs_device_size_get: part_length / sector size.
DeviceSize == LastBlock

ActualSectors == DeviceSize - 1

\* try_alternate_boot: the sector to read and the sector count to set, at
\* each of its three attempts, and the condition of the attempt.  `cur' is
\* shown_sectors, the count in the boot sector as it was first read.
Attempt == CASE pc = "boot1" -> [read |-> ActualSectors, fix |-> ActualSectors]
             [] pc = "boot2" -> [read |-> cur, fix |-> cur]
             [] pc = "boot3" -> [read |-> 0, fix |-> ActualSectors]

Tried == CASE pc = "boot1" -> ActualSectors > 0
           [] pc = "boot2" -> cur > 0 /\ cur < ActualSectors
           [] pc = "boot3" -> cur > ActualSectors

Alternate == [blocks[Attempt.read] EXCEPT !.sectors = Attempt.fix]

InBoot == pc \in {"boot1", "boot2", "boot3"}

NextBoot == IF pc = "boot3" THEN Leave ELSE Goto(IF pc = "boot1" THEN "boot2" ELSE "boot3")

\* try_fix_boot: the boot sector is rewritten only when the copy is usable.
TryFixBoot ==
    /\ InBoot
    /\ IF Tried /\ BootUsable(Alternate)
       THEN blocks' = [blocks EXCEPT ![0] = Alternate] /\ Goto("restart")
       ELSE NextBoot /\ UNCHANGED blocks
    /\ UNCHANGED <<mft, mirr, extent, upcase, journal, latest, faults>>

\* A sector is written or it is not; after an error the next attempt is made.
TryFixBootFails ==
    /\ InBoot /\ Tried /\ BootUsable(Alternate) /\ Fault
    /\ blocks' \in {blocks, [blocks EXCEPT ![0] = Alternate]}
    /\ NextBoot \/ Leave
    /\ UNCHANGED <<mft, mirr, extent, upcase, journal, latest>>

-----------------------------------------------------------------------------
(* fix_startup: the second part of $MFT described in itself.  Three writes: *)
(* the attribute list, record 15, and the record that was replaced.        *)

\* The four conditions of fix_self_located_mft.
SelfLocated ==
    /\ Usable(mft[0])
    /\ AttributeList = "high"
    /\ extent.high = "extent"
    /\ extent.spare = "free"

ListMoved(r) == [r EXCEPT !.body = [s \in Sectors |->
                                      [@[s] EXCEPT !.ver = latest[0] + 1, !.list = "spare"]]]

\* A resident list is in the MFT record, which is written to both copies.
FixSelfLocated ==
    /\ pc = "selfloc"
    /\ IF ~SelfLocated THEN Leave /\ UNCHANGED <<disk, latest>>
       ELSE IF extent.resident
       THEN /\ StartWrite(0, ListMoved(Read(mft[0])), "listMft")
            /\ latest' = [latest EXCEPT ![0] = @ + 1]
            /\ UNCHANGED <<disk, core>>
       ELSE /\ extent' = [extent EXCEPT !.list = "spare"]
            /\ Goto("spare")
            /\ UNCHANGED <<mft, mirr, blocks, upcase, journal, latest>>
    /\ UNCHANGED faults

FixSelfLocatedFails ==
    /\ pc = "selfloc" /\ SelfLocated /\ ~extent.resident /\ Fault
    /\ extent' \in {extent, [extent EXCEPT !.list = "spare"]}
    /\ Leave
    /\ UNCHANGED <<mft, mirr, blocks, upcase, journal, latest>>

\* The contents that were swapped in memory go to record 15, then to the
\* record beyond it.
Swap_HighFirst(ok) ==
    IF pc = "spare" THEN [extent EXCEPT !.high  = IF ok THEN "free" ELSE "torn"]
                    ELSE [extent EXCEPT !.spare = IF ok THEN "extent" ELSE "torn"]
Swap(ok) ==
    IF pc = "spare" THEN [extent EXCEPT !.spare = IF ok THEN "extent" ELSE "torn"]
                    ELSE [extent EXCEPT !.high  = IF ok THEN "free" ELSE "torn"]

SwapRecords ==
    /\ pc \in {"spare", "high"}
    /\ extent' = Swap(TRUE)
    /\ Goto(IF pc = "spare" THEN "high" ELSE "restart")
    /\ UNCHANGED <<mft, mirr, blocks, upcase, journal, latest, faults>>

SwapRecordsFails ==
    /\ pc \in {"spare", "high"} /\ Fault
    /\ extent' \in {extent, Swap(TRUE), Swap(FALSE)}
    /\ Leave
    /\ UNCHANGED <<mft, mirr, blocks, upcase, journal, latest>>

-----------------------------------------------------------------------------
(* fix_mount: the four repairs of a volume that starts up.                 *)

\* ntfs_mft_record_get_data_size: how much of the record is compared.
DataSize(r) == IF r.magic = "FILE" THEN 1 ELSE 0

UseMirr_Always(i) == TRUE
UseMirr(i) == InUse(mirr[i]) /\ ~InUse(mft[i]) /\ Read(mft[i]).magic # "FILE"

Incomplete(r) == InUse(r) /\ ~Usable(r)

\* fix_mftmirr, one record.
FixMftMirr ==
    /\ pc = "mirror"
    /\ LET r  == Read(mft[cur])
           r2 == Read(mirr[cur])
       IN  IF cur \notin Records THEN Goto("upcase")
           ELSE IF Incomplete(mft[cur]) \/ Incomplete(mirr[cur]) THEN Leave
           ELSE IF DataSize(r) > 0 /\ r # r2
           THEN StartWrite(cur, IF UseMirr(cur) THEN r2 ELSE r, "mirrorMft") /\ UNCHANGED core
           ELSE pc' = pc /\ cur' = cur + 1 /\ UNCHANGED <<buf, core>>
    /\ UNCHANGED <<disk, latest, faults>>

\* fix_upcase.  The part of the table that is checked is in its first sector.
FixUpcase_JournalFirst ==
    /\ pc = "upcase"
    /\ upcase' = TRUE
    /\ pc' = "journal" /\ cur' = 1 /\ UNCHANGED <<buf, core>>
    /\ UNCHANGED <<mft, mirr, blocks, extent, journal, latest, faults>>

FixUpcase_Accepts ==
    /\ pc = "upcase"
    /\ Goto("dirty")
    /\ UNCHANGED <<disk, latest, faults>>

FixUpcase ==
    /\ pc = "upcase"
    /\ upcase' = TRUE
    /\ Goto("dirty")
    /\ UNCHANGED <<mft, mirr, blocks, extent, journal, latest, faults>>

FixUpcaseFails ==
    /\ pc = "upcase" /\ ~upcase /\ Fault
    /\ upcase' \in BOOLEAN
    /\ Leave
    /\ UNCHANGED <<mft, mirr, blocks, extent, journal, latest>>

\* A record whose flags do not change keeps its version.
Flagged(r, v, flags) ==
    [r EXCEPT !.body = [s \in Sectors |-> [@[s] EXCEPT !.ver = v, !.flags = flags]]]

\* vol->flags after ntfs_volume_startup, which does not read $Volume.
StartupFlags == {}

\* set_dirty_flag.
SetDirtyFlag ==
    /\ pc = "dirty"
    /\ IF Usable(mft[VolumeRecord])
       THEN LET r == Read(mft[VolumeRecord])
                flags == StartupFlags \union {"dirty"}
                v == IF FlagsOf(r) = flags THEN latest[VolumeRecord]
                                           ELSE latest[VolumeRecord] + 1
            IN  /\ StartWrite(VolumeRecord, Flagged(r, v, flags), "dirtyMft")
                /\ latest' = [latest EXCEPT ![VolumeRecord] = v]
                /\ UNCHANGED core
       ELSE Leave /\ UNCHANGED latest
    /\ UNCHANGED <<disk, faults>>

\* Mutant: the position in $LogFile does not move.
EmptyJournal_Stays ==
    /\ pc = "journal"
    /\ IF ~Usable(mft[LogRecord]) THEN Leave /\ UNCHANGED journal
       ELSE /\ journal' = [journal EXCEPT ![cur] = TRUE]
            /\ IF cur < Chunks THEN UNCHANGED <<pc, cur>> ELSE pc' = "remount" /\ cur' = 0
            /\ UNCHANGED <<buf, core>>
    /\ UNCHANGED <<mft, mirr, blocks, extent, upcase, latest, faults>>

\* empty_journal: ntfs_logfile_reset fills $LogFile, a chunk at a time.
EmptyJournal ==
    /\ pc = "journal"
    /\ IF ~Usable(mft[LogRecord]) THEN Leave /\ UNCHANGED journal
       ELSE /\ journal' = [journal EXCEPT ![cur] = TRUE]
            /\ IF cur < Chunks THEN pc' = pc /\ cur' = cur + 1 ELSE pc' = "remount" /\ cur' = 0
            /\ UNCHANGED <<buf, core>>
    /\ UNCHANGED <<mft, mirr, blocks, extent, upcase, latest, faults>>

EmptyJournalFails ==
    /\ pc = "journal" /\ Usable(mft[LogRecord]) /\ Fault
    /\ journal' \in {journal, [journal EXCEPT ![cur] = TRUE]}
    /\ Leave
    /\ UNCHANGED <<mft, mirr, blocks, extent, upcase, latest>>

-----------------------------------------------------------------------------
(* OpenVolume: the second mount, and the alternate boot sector.            *)

Remount ==
    /\ pc = "remount"
    /\ IF MountOk THEN Goto("altboot") ELSE Leave
    /\ UNCHANGED <<disk, latest, faults>>

\* check_alternate_boot: the copy goes to the last sector the device shows,
\* when the file system does not reach it.
AlternateFits_Equal == DeviceSize >= blocks[0].sectors
AlternateFits == DeviceSize > blocks[0].sectors

CheckAlternateBoot ==
    /\ pc = "altboot"
    /\ IF AlternateFits
       THEN blocks' = [blocks EXCEPT ![DeviceSize - 1] = blocks[0]] /\ Mounted
       ELSE Leave /\ UNCHANGED blocks
    /\ UNCHANGED <<mft, mirr, extent, upcase, journal, latest, faults>>

CheckAlternateBootFails ==
    /\ pc = "altboot" /\ AlternateFits /\ Fault
    /\ blocks' \in {blocks, [blocks EXCEPT ![DeviceSize - 1] = blocks[0]]}
    /\ Leave
    /\ UNCHANGED <<mft, mirr, extent, upcase, journal, latest>>

-----------------------------------------------------------------------------
(* The mounted volume.                                                     *)

\* The driver changes an MFT record in memory and writes it.
Update(i) ==
    /\ pc = "mounted" /\ latest[i] < MaxVersions
    /\ \E w \in TailWords :
          StartWrite(i, Versioned(core[i], latest[i] + 1, w), "updateMft")
    /\ latest' = [latest EXCEPT ![i] = @ + 1]
    /\ UNCHANGED <<disk, core, faults>>

Close ==
    /\ pc = "mounted"
    /\ Leave
    /\ UNCHANGED <<disk, latest, faults>>

\* Power is lost between two writes, or a read fails.
PowerLoss ==
    /\ pc \notin {"closed", "mounted", "halted"} /\ Fault
    /\ Leave
    /\ UNCHANGED <<disk, latest>>

Repair ==
    \/ Startup \/ TryFixBoot \/ FixSelfLocated \/ SwapRecords
    \/ FixMftMirr \/ FixUpcase \/ SetDirtyFlag \/ EmptyJournal
    \/ Remount \/ CheckAlternateBoot

WriteFails ==
    \/ WriteMftFails \/ WriteMirrFails \/ TryFixBootFails
    \/ FixSelfLocatedFails \/ SwapRecordsFails \/ FixUpcaseFails
    \/ EmptyJournalFails \/ CheckAlternateBootFails

Next ==
    \/ OpenVolume \/ Repair \/ WriteMft \/ WriteMirr
    \/ \E i \in Records : Update(i)
    \/ Close \/ WriteFails \/ PowerLoss \/ FixMountFault \/ ResetMachine

Spec == Init /\ [][Next]_vars

\* A call that was made goes on while it has a step to take.  Nothing is
\* assumed of the caller.
FairSpec == Spec /\ WF_vars(Repair \/ WriteMft \/ WriteMirr)

-----------------------------------------------------------------------------
(* Properties.                                                             *)

Pcs == {"closed", "startup", "boot1", "boot2", "boot3", "selfloc", "listMft", "listMirr",
        "spare", "high", "restart", "mirror", "mirrorMft", "mirrorMirr", "upcase",
        "dirty", "dirtyMft", "dirtyMirr", "journal", "remount", "altboot",
        "mounted", "updateMft", "updateMirr", "halted"}

\* The records on the disk and in memory, the boot sectors and the program
\* counter have the values the code gives them.
TypeOK ==
    /\ mft \in [Records -> Rec] /\ mirr \in [Records -> Rec]
    /\ blocks \in [0 .. LastBlock -> BootSector]
    /\ extent \in Extent
    /\ upcase \in BOOLEAN
    /\ journal \in [1 .. Chunks -> BOOLEAN]
    /\ pc \in Pcs /\ cur \in Nat
    /\ buf \in Rec /\ core \in [Records -> Rec]
    /\ latest \in [Records -> Nat] /\ faults \in 0 .. MaxFaults

\* All sectors of a record belong to the same version of it.
OneVersion(r) == \A s, t \in Sectors : r.body[s] = r.body[t]

\* A record that the protection lets through was not put together from two
\* writes: however many writes were interrupted, in whatever sector, a copy
\* of an MFT record that reads as an MFT record is one version of it.
ReadIsWhole ==
    TypeOK /\ \A i \in Records :
        /\ Usable(mft[i])  => OneVersion(mft[i])
        /\ Usable(mirr[i]) => OneVersion(mirr[i])

\* $MFT is written before $MFTMirr, and a failed write of the first keeps the
\* driver from the second: one interrupted write never leaves a record
\* without a complete copy.
OneCopyLeft ==
    faults <= 1 => \A i \in Records : Usable(mft[i]) \/ Usable(mirr[i])

\* The repair corrects $MFTMirr from $MFT, which is the newer of the two: no
\* step, of the driver or of the repair, puts an older version of a record
\* into $MFT than the complete one it holds.
NewestKept ==
    [][\A i \in Records :
          Usable(mft[i]) /\ Usable(mft'[i]) =>
              mft'[i].body[1].ver >= mft[i].body[1].ver]_vars

\* The journal is emptied only when the disk already says that the volume
\* has to be checked, so that a repair cut short there is not forgotten; no
\* later write, whole or interrupted, takes that back in any sector.
DirtyBeforeJournal ==
    (\E c \in 1 .. Chunks : journal[c]) =>
        \A s \in Sectors : "dirty" \in mft[VolumeRecord].body[s].flags

\* Wherever the move of the second part of $MFT into record 15 is cut short,
\* one of the two records still holds that part.
ExtentKept ==
    extent.high = "free" /\ extent.spare = "free" =>
        extent.list = "none" /\ mft[0].body[SectorCount].list = "none"

\* A boot sector that can be used is never replaced by one that cannot, and
\* the alternate boot sector is never written over a sector of the file
\* system.
BootSafe ==
    [][/\ BootUsable(blocks[0]) => BootUsable(blocks'[0])
       /\ \A b \in 1 .. LastBlock : blocks'[b] # blocks[b] => b >= blocks[0].sectors]_vars

Garbled == \E i \in Records : ~InUse(mft[i])

\* When the repair reports success the volume can be mounted, unless it met
\* a record that was overwritten.
RepairedMounts == pc = "remount" /\ ~Garbled => MountOk

\* A call of OpenVolume that has begun the repair comes to an end, whatever
\* the disk holds and whichever writes fail: three attempts at the boot
\* sector and at most one more startup, every record and every chunk once.
RepairEnds == pc = "startup" ~> pc \in {"closed", "mounted", "halted"}

\* "$MFT is corrupt but $MFTMirr is ok, use $MFTMirr" (ntfsfix.c:453): when
\* the repair of the records is done, every record of $MFT can be read.
MirrorUsed == pc = "upcase" => \A i \in Records : Usable(mft[i])
=============================================================================
