----------------------------- MODULE NtfsFixProofs -----------------------------
(***************************************************************************)
(* Proofs about NtfsFix: the protection of the MFT records, the two copies *)
(* of each and the repair, for any number of records, sectors and chunks,  *)
(* any width of the update sequence number and any number of failing       *)
(* writes that is smaller than the number of update sequence numbers.      *)
(***************************************************************************)
EXTENDS NtfsFix, TLAPS

-----------------------------------------------------------------------------
(* Update sequence numbers.                                                *)

\* The numbers that a protected record may have: not 0 and not 0xffff.
Usns == 1 .. UsnModulus - 2

\* How many writes it takes to get from number a to number b.
Dist(a, b) == IF b >= a THEN b - a ELSE b - a + (UsnModulus - 2)

\* The increment of mst.c stays in the usable numbers.
LEMMA NextUsnType ==
    ASSUME NEW a \in Usns
    PROVE  NextUsn(a) \in Usns /\ NextUsn(a) # a
BY MstAssumption DEF Usns, NextUsn

\* Dist counts writes: it is 0 only from a number to itself, it satisfies the
\* triangle inequality, and one more write makes it larger by one at most.
LEMMA DistFacts ==
    ASSUME NEW a \in Usns, NEW b \in Usns, NEW c \in Usns
    PROVE  /\ Dist(a, b) \in Nat
           /\ Dist(a, a) = 0
           /\ Dist(a, c) <= Dist(a, b) + Dist(b, c)
           /\ Dist(a, NextUsn(b)) <= Dist(a, b) + 1
BY MstAssumption DEF Usns, NextUsn, Dist

\* The number comes round only after as many writes as there are numbers.
LEMMA NoWrap ==
    ASSUME NEW a \in Usns, NEW b \in Usns, Dist(a, b) + 1 < UsnModulus - 2
    PROVE  NextUsn(b) # a
BY MstAssumption DEF Usns, NextUsn, Dist

-----------------------------------------------------------------------------
(* Records.                                                                *)

\* A record with a valid update sequence array, and one as it is written to
\* the disk: a usable number at the end of every sector.
Proper(r) == r.valid /\ r.magic = "FILE" /\ r.usn \in Usns
Stored(r) == Proper(r) /\ \A s \in Sectors : r.tail[s] \in Usns

\* The magics of a record that was overwritten.
GarbageMagics == {"none", "other"}

\* A record that was overwritten with something else.
Overwritten(r) == r.magic \in GarbageMagics /\ ~r.valid

\* What the read leaves alone, and what makes a record usable.
LEMMA ReadFacts ==
    ASSUME NEW r \in Rec
    PROVE  /\ Read(r) \in Rec
           /\ Read(r).usn = r.usn /\ Read(r).body = r.body /\ Read(r).valid = r.valid
           /\ Overwritten(r) => ~Usable(r) /\ Read(r) = r
           /\ Stored(r) => Usable(r) <=> Complete(r)
           /\ Stored(r) /\ Usable(r) => Proper(Read(r))
BY Zenon DEF Rec, Record, Read, Usable, ntfs_mst_post_read_fixup, is_valid_record, Overwritten, GarbageMagics,
       Stored, Proper, Complete, Magics

\* The protection of a record in memory makes a complete record of it, with
\* the next number and the same contents.
LEMMA PreWriteFacts ==
    ASSUME NEW r \in Rec, Proper(r)
    PROVE  LET b == ntfs_mst_pre_write_fixup(r)
           IN  /\ b \in Rec /\ Stored(b) /\ Complete(b)
               /\ b.usn = NextUsn(r.usn) /\ b.body = r.body
<1>1. NextUsn(r.usn) \in Usns
  BY Zenon, NextUsnType DEF Proper
<1>2. Usns \subseteq Words
  BY MstAssumption DEF Usns, Words
<1>. QED
  BY Zenon, <1>1, <1>2 DEF Rec, Record, ntfs_mst_pre_write_fixup, Stored, Proper, Complete, Magics

\* Deprotecting the record after the write gives it back its last words.
LEMMA PostWriteFacts ==
    ASSUME NEW r \in Rec
    PROVE  LET b == ntfs_mst_post_write_fixup(r)
           IN  /\ b \in Rec /\ (Proper(r) => Proper(b))
               /\ b.usn = r.usn /\ b.body = r.body
BY Zenon DEF Rec, Record, ntfs_mst_post_write_fixup, Proper

\* A sector of a record after an interrupted write is a sector of the old or
\* of the new record; the header goes with the first sector.
LEMMA TornFacts ==
    ASSUME NEW old \in Rec, NEW new \in Rec, NEW done \in SUBSET Sectors
    PROVE  LET r == Torn(old, new, done)
           IN  /\ r \in Rec
               /\ (Stored(old) /\ Stored(new) => Stored(r))
               /\ r.usn = IF 1 \in done THEN new.usn ELSE old.usn
               /\ \A s \in Sectors :
                     /\ r.tail[s] = IF s \in done THEN new.tail[s] ELSE old.tail[s]
                     /\ r.body[s] = IF s \in done THEN new.body[s] ELSE old.body[s]
BY ZenonT(40) DEF Rec, Record, Torn, Stored, Proper

\* What the driver changes in memory before it writes a record: the version,
\* the flags of $Volume, the attribute list of $MFT, the last words.
LEMMA VersionedFacts ==
    ASSUME NEW r \in Rec, NEW v \in Nat, NEW w \in Words
    PROVE  LET b == Versioned(r, v, w)
           IN  /\ b \in Rec /\ (Proper(r) => Proper(b)) /\ b.usn = r.usn
               /\ (OneVersion(r) => OneVersion(b))
               /\ \A s \in Sectors : /\ b.body[s].ver = v
                                     /\ b.body[s].flags = r.body[s].flags
                                     /\ b.body[s].list = r.body[s].list
BY ZenonT(40) DEF Rec, Record, Body, Versioned, Proper, OneVersion

\* set_dirty_flag changes the flags, and the version when they differ.
LEMMA FlaggedFacts ==
    ASSUME NEW r \in Rec, NEW v \in Nat, NEW flags \in SUBSET VolumeFlags
    PROVE  LET b == Flagged(r, v, flags)
           IN  /\ b \in Rec /\ (Proper(r) => Proper(b)) /\ b.usn = r.usn
               /\ (OneVersion(r) => OneVersion(b))
               /\ \A s \in Sectors : /\ b.body[s].ver = v
                                     /\ b.body[s].flags = flags
                                     /\ b.body[s].list = r.body[s].list
BY ZenonT(40) DEF Rec, Record, Body, Flagged, Proper, OneVersion

\* fix_self_located_mft changes the attribute list, and the version.
LEMMA ListMovedFacts ==
    ASSUME NEW r \in Rec, latest[0] \in Nat
    PROVE  LET b == ListMoved(r)
           IN  /\ b \in Rec /\ (Proper(r) => Proper(b)) /\ b.usn = r.usn
               /\ (OneVersion(r) => OneVersion(b))
               /\ \A s \in Sectors : /\ b.body[s].ver = latest[0] + 1
                                     /\ b.body[s].flags = r.body[s].flags
                                     /\ b.body[s].list = "spare"
<1>. USE Zenon
<1>1. latest[0] + 1 \in Nat /\ "spare" \in ListRefs
  BY SMT DEF ListRefs
<1>2. DEFINE v == latest[0] + 1
             c == [s \in Sectors |-> [r.body[s] EXCEPT !.ver = v, !.list = "spare"]]
<1>3. \A s \in Sectors : r.body[s] \in Body
  BY DEF Rec, Record
<1>. HIDE DEF v
<1>4. /\ c \in [Sectors -> Body]
      /\ \A s \in Sectors : /\ c[s].ver = v
                            /\ c[s].flags = r.body[s].flags
                            /\ c[s].list = "spare"
  BY <1>1, <1>3 DEF Body, v
<1>5. OneVersion(r) => \A s, t \in Sectors : c[s] = c[t]
  BY DEF OneVersion
<1>6. ListMoved(r) = [r EXCEPT !.body = c]
  BY DEF ListMoved, v
<1>. HIDE DEF c
<1>. QED
  BY <1>1, <1>4, <1>5, <1>6 DEF Rec, Record, Proper, OneVersion, v

-----------------------------------------------------------------------------
(* The layout of the disk and of the memory.                               *)

\* Every record on the disk is one that the driver protected, except one of
\* $MFT that was overwritten before.
DiskLayout ==
    /\ mft \in [Records -> Rec] /\ mirr \in [Records -> Rec]
    /\ blocks \in [0 .. LastBlock -> BootSector]
    /\ extent \in Extent
    /\ upcase \in BOOLEAN
    /\ journal \in [1 .. Chunks -> BOOLEAN]
    /\ latest \in [Records -> Nat] /\ faults \in 0 .. MaxFaults
    /\ \A i \in Records : Stored(mirr[i]) /\ (Stored(mft[i]) \/ Overwritten(mft[i]))

\* What is written is complete, and what the program counter says of it: the
\* repair writes only over a complete record, the mounted volume has no
\* overwritten one, and $MFTMirr is written when $MFT was.
MemoryLayout ==
    /\ pc \in Pcs /\ cur \in Nat
    /\ buf \in Rec /\ Stored(buf) /\ Complete(buf)
    /\ core \in [Records -> Rec] /\ \A i \in Records : Proper(core[i])
    /\ InMft \/ InMirr => cur \in Records
    /\ pc \in {"listMft", "listMirr"} => cur = 0
    /\ pc \in {"dirtyMft", "dirtyMirr"} => cur = VolumeRecord
    /\ pc = "journal" => cur \in 1 .. Chunks
    /\ pc \in {"listMft", "mirrorMft", "dirtyMft"} => Usable(mft[cur])
    /\ InMirr => mft[cur] = buf
    /\ pc \in {"mounted", "updateMft", "updateMirr"} => \A i \in Records : Stored(mft[i])
    /\ pc = "altboot" => MountOk

Layout == DiskLayout /\ MemoryLayout

\* The buffer without a record is a complete record.
LEMMA BlankFacts ==
    /\ Blank \in Rec /\ Stored(Blank) /\ Complete(Blank) /\ OneVersion(Blank)
    /\ \A s \in Sectors : Blank.body[s] = [ver |-> 0, flags |-> {}, list |-> "none"]
<1>1. 1 \in Usns /\ 1 \in Words /\ 0 \in Words
  BY MstAssumption DEF Usns, Words
<1>2. {} \in SUBSET VolumeFlags /\ "none" \in ListRefs /\ "FILE" \in Magics
  BY Zenon DEF ListRefs, Magics
<1>. QED
  BY Zenon, <1>1, <1>2 DEF Blank, Whole, Rec, Record, Body, Stored, Proper, Complete, OneVersion

\* Giving the volume up leaves nothing in memory.
LEMMA LeaveLayout ==
    ASSUME Leave
    PROVE  MemoryLayout'
BY Zenon, BlankFacts DEF Leave, MemoryLayout, Stored, InMft, InMirr, Pcs

\* A mount reads complete records only.
LEMMA MountLayout ==
    ASSUME DiskLayout, MountOk, Mounted, UNCHANGED mft
    PROVE  MemoryLayout'
<1>1. \A i \in Records : Stored(mft[i]) /\ Read(mft[i]) \in Rec /\ Proper(Read(mft[i]))
  BY Zenon, ReadFacts DEF DiskLayout, MountOk, MirrorMatches
<1>. QED
  BY Zenon, <1>1, BlankFacts DEF Mounted, MemoryLayout, Stored, InMft, InMirr, Pcs

\* A record in memory that is proper can be written.
LEMMA StartWriteLayout ==
    ASSUME DiskLayout, MemoryLayout, UNCHANGED <<disk, core>>,
           NEW i \in Records, NEW r \in Rec, Proper(r), NEW next, StartWrite(i, r, next),
           \/ next = "updateMft" /\ pc = "mounted"
           \/ next = "listMft" /\ i = 0 /\ Usable(mft[i])
           \/ next = "mirrorMft" /\ Usable(mft[i])
           \/ next = "dirtyMft" /\ i = VolumeRecord /\ Usable(mft[i])
    PROVE  MemoryLayout'
<1>1. buf' \in Rec /\ Stored(buf') /\ Complete(buf')
  BY Zenon, PreWriteFacts DEF StartWrite
<1>2. i \in Nat
  BY DEF Records
<1>. QED
  BY Zenon, <1>1, <1>2 DEF StartWrite, MemoryLayout, disk, InMft, InMirr, Pcs, Usable

\* The end of a write to $MFTMirr, or of a failing write of a mounted volume.
LEMMA EndWriteLayout ==
    ASSUME DiskLayout', MemoryLayout, InMft \/ InMirr, NEW at \in Nat,
           NEW next \in {"mounted", "mirror", "journal", "spare"}, EndWrite(next, at),
           next = "journal" => at \in 1 .. Chunks,
           next = "mounted" => \A i \in Records : Stored(mft'[i])
    PROVE  MemoryLayout'
<1>1. /\ ntfs_mst_post_write_fixup(buf) \in Rec
      /\ Proper(ntfs_mst_post_write_fixup(buf))
  BY Zenon, PostWriteFacts DEF MemoryLayout, Stored
<1>. QED
  BY Zenon, <1>1, BlankFacts DEF EndWrite, MemoryLayout, Stored, InMft, InMirr, Pcs

\* Writes of records keep the layout.
LEMMA WriteLayout ==
    ASSUME Layout, WriteMft \/ WriteMirr
    PROVE  Layout'
<1>. USE Zenon
<1>. USE DEF Layout
<1>1. CASE WriteMft
  <2>1. DiskLayout'
    BY <1>1 DEF WriteMft, InMft, DiskLayout, MemoryLayout
  <2>2. MemoryLayout'
    BY <1>1 DEF WriteMft, InMft, InMirr, AfterMft, DiskLayout, MemoryLayout, Stored, Pcs
  <2>. QED
    BY <2>1, <2>2
<1>2. CASE WriteMirr
  <2>1. DiskLayout'
    BY <1>2 DEF WriteMirr, InMirr, DiskLayout, MemoryLayout
  <2>2. /\ 1 \in 1 .. Chunks /\ cur + 1 \in Nat
        /\ pc = "updateMirr" => \A i \in Records : Stored(mft'[i])
    BY SMT, <1>2, FixAssumption DEF WriteMirr, MemoryLayout
  <2>3. \/ EndWrite("mounted", 0) /\ pc = "updateMirr"
        \/ EndWrite("mirror", cur + 1) \/ EndWrite("journal", 1) \/ EndWrite("spare", 0)
    BY <1>2 DEF WriteMirr, InMirr
  <2>. QED
    BY <1>2, <2>1, <2>2, <2>3, EndWriteLayout DEF WriteMirr
<1>. QED
  BY <1>1, <1>2

\* A failing write leaves a protected record behind, complete or not.
LEMMA WriteFailsLayout ==
    ASSUME Layout, WriteMftFails \/ WriteMirrFails
    PROVE  Layout'
<1>. USE Zenon
<1>. USE DEF Layout
<1>1. cur \in Records /\ buf \in Rec /\ Stored(buf) /\ Stored(mft[cur]) /\ Stored(mirr[cur])
  <2>1. Stored(mft[cur])
    <3>1. CASE pc = "updateMft"
      BY <3>1 DEF WriteMftFails, WriteMirrFails, InMft, InMirr, MemoryLayout
    <3>2. CASE InMft /\ pc # "updateMft"
      BY <3>2, ReadFacts DEF InMft, MemoryLayout, DiskLayout
    <3>3. CASE InMirr
      BY <3>3 DEF MemoryLayout
    <3>. QED
      BY <3>1, <3>2, <3>3 DEF WriteMftFails, WriteMirrFails
  <2>. QED
    BY <2>1 DEF WriteMftFails, WriteMirrFails, MemoryLayout, DiskLayout
<1>2. PICK done \in SUBSET Sectors :
         \/ mft' = [mft EXCEPT ![cur] = Torn(mft[cur], buf, done)] /\ mirr' = mirr
         \/ mirr' = [mirr EXCEPT ![cur] = Torn(mirr[cur], buf, done)] /\ mft' = mft
  BY DEF WriteMftFails, WriteMirrFails
<1>3. /\ Torn(mft[cur], buf, done) \in Rec /\ Stored(Torn(mft[cur], buf, done))
      /\ Torn(mirr[cur], buf, done) \in Rec /\ Stored(Torn(mirr[cur], buf, done))
  BY <1>1, TornFacts DEF DiskLayout
<1>4. /\ mft' \in [Records -> Rec] /\ mirr' \in [Records -> Rec]
      /\ \A i \in Records : /\ Stored(mirr'[i])
                            /\ Stored(mft'[i]) \/ Overwritten(mft'[i])
                            /\ Stored(mft[i]) => Stored(mft'[i])
  BY <1>1, <1>2, <1>3 DEF DiskLayout
<1>5. DiskLayout'
  BY SMT, <1>4, FixAssumption DEF WriteMftFails, WriteMirrFails, DiskLayout, Fault
<1>6. CASE Leave
  BY <1>5, <1>6, LeaveLayout
<1>7. CASE ~Leave
  <2>1. EndWrite("mounted", 0) /\ pc \in {"updateMft", "updateMirr"}
    BY <1>7 DEF WriteMftFails, WriteMirrFails, FailWrite
  <2>2. \A i \in Records : Stored(mft'[i])
    BY <1>4, <2>1 DEF MemoryLayout
  <2>. QED
    BY <1>5, <2>1, <2>2, EndWriteLayout DEF WriteMftFails, WriteMirrFails
<1>. QED
  BY <1>6, <1>7

\* The repair of the boot sector and of the runlist of $MFT.
LEMMA StartupLayout ==
    ASSUME Layout,
           Startup \/ TryFixBoot \/ TryFixBootFails \/ FixSelfLocated \/ FixSelfLocatedFails
           \/ SwapRecords \/ SwapRecordsFails
    PROVE  Layout'
<1>. USE Zenon
<1>. USE DEF Layout
<1>1. CASE Startup
  <2>1. DiskLayout'
    BY <1>1 DEF Startup, DiskLayout, disk
  <2>2. blocks[0].sectors \in Nat
    BY SMT, FixAssumption DEF DiskLayout, BootSector
  <2>. QED
    BY SMT, <1>1, <2>1, <2>2, LeaveLayout DEF Startup, Goto, MemoryLayout, disk, InMft, InMirr, Pcs
<1>2. ASSUME InBoot, Tried PROVE [blocks EXCEPT ![0] = Alternate] \in [0 .. LastBlock -> BootSector]
  <2>1. Attempt.read \in 0 .. LastBlock /\ Attempt.fix \in Nat
    <3>1. CASE pc = "boot1"
      BY SMT, <3>1, FixAssumption DEF Attempt, ActualSectors, DeviceSize
    <3>2. CASE pc = "boot2"
      BY SMT, <1>2, <3>2, FixAssumption DEF Tried, Attempt, ActualSectors, DeviceSize, MemoryLayout
    <3>3. CASE pc = "boot3"
      BY SMT, <3>3, FixAssumption DEF Attempt, ActualSectors, DeviceSize
    <3>. QED
      BY <1>2, <3>1, <3>2, <3>3 DEF InBoot
  <2>. QED
    BY <2>1 DEF Alternate, BootSector, DiskLayout
<1>3. ASSUME InBoot, NextBoot, UNCHANGED mft PROVE MemoryLayout'
  BY <1>3, LeaveLayout DEF InBoot, NextBoot, Goto, MemoryLayout, InMft, InMirr, Pcs
<1>4. CASE TryFixBoot
  <2>1. DiskLayout'
    BY <1>4, <1>2 DEF TryFixBoot, DiskLayout
  <2>2. MemoryLayout'
    BY <1>4, <1>3 DEF TryFixBoot, Goto, MemoryLayout, InMft, InMirr, InBoot, Pcs
  <2>. QED
    BY <2>1, <2>2
<1>5. CASE TryFixBootFails
  <2>1. DiskLayout'
    BY SMT, <1>5, <1>2, FixAssumption DEF TryFixBootFails, DiskLayout, Fault
  <2>. QED
    BY <1>5, <1>3, <2>1, LeaveLayout DEF TryFixBootFails
<1>6. CASE FixSelfLocated
  <2>1. DiskLayout'
    BY SMT, <1>6, FixAssumption DEF FixSelfLocated, DiskLayout, disk, Extent, ListRefs
  <2>2. CASE ~SelfLocated
    BY <1>6, <2>1, <2>2, LeaveLayout DEF FixSelfLocated
  <2>3. CASE SelfLocated /\ extent.resident
    <3>1. 0 \in Records /\ latest[0] \in Nat /\ mft[0] \in Rec /\ Usable(mft[0])
      BY <2>3, FixAssumption DEF Records, DiskLayout, SelfLocated
    <3>2. Read(mft[0]) \in Rec /\ Proper(Read(mft[0]))
      BY <3>1, ReadFacts DEF DiskLayout
    <3>3. ListMoved(Read(mft[0])) \in Rec /\ Proper(ListMoved(Read(mft[0])))
      BY <3>1, <3>2, ListMovedFacts
    <3>. QED
      BY <1>6, <2>1, <2>3, <3>1, <3>3, StartWriteLayout DEF FixSelfLocated
  <2>4. CASE SelfLocated /\ ~extent.resident
    BY <1>6, <2>1, <2>4 DEF FixSelfLocated, Goto, MemoryLayout, InMft, InMirr, Pcs
  <2>. QED
    BY <2>2, <2>3, <2>4
<1>7. CASE FixSelfLocatedFails
  BY SMT, <1>7, LeaveLayout, FixAssumption
  DEF FixSelfLocatedFails, DiskLayout, Fault, Extent, ListRefs
<1>8. Swap(TRUE) \in Extent /\ Swap(FALSE) \in Extent
  BY DEF DiskLayout, Swap, Extent
<1>9. CASE SwapRecords
  BY <1>8, <1>9 DEF SwapRecords, Goto, DiskLayout, MemoryLayout, InMft, InMirr, Pcs
<1>10. CASE SwapRecordsFails
  <2>1. DiskLayout'
    <3>1. extent' \in Extent
      BY <1>8, <1>10 DEF SwapRecordsFails, DiskLayout
    <3>. QED
      BY SMT, <1>10, <3>1, FixAssumption DEF SwapRecordsFails, DiskLayout, Fault
  <2>. QED
    BY <1>10, <2>1, LeaveLayout DEF SwapRecordsFails
<1>. QED
  BY <1>1, <1>4, <1>5, <1>6, <1>7, <1>9, <1>10

\* The four repairs of a volume that starts up.
LEMMA RepairLayout ==
    ASSUME Layout,
           FixMftMirr \/ FixUpcase \/ FixUpcaseFails \/ SetDirtyFlag
           \/ EmptyJournal \/ EmptyJournalFails
    PROVE  Layout'
<1>. USE Zenon
<1>. USE DEF Layout
<1>1. CASE FixMftMirr
  <2>1. DiskLayout'
    BY <1>1 DEF FixMftMirr, DiskLayout, disk
  <2>2. CASE cur \in Records /\ DataSize(Read(mft[cur])) > 0
             /\ ~Incomplete(mft[cur]) /\ ~Incomplete(mirr[cur]) /\ Read(mft[cur]) # Read(mirr[cur])
    <3>1. Usable(mft[cur]) /\ ~UseMirr(cur)
      BY SMT, <2>2 DEF DataSize, Usable, UseMirr
    <3>2. Read(mft[cur]) \in Rec /\ Proper(Read(mft[cur]))
      BY <2>2, <3>1, ReadFacts DEF DiskLayout
    <3>3. UNCHANGED <<disk, core>> /\ StartWrite(cur, Read(mft[cur]), "mirrorMft")
      BY <1>1, <2>2, <3>1 DEF FixMftMirr
    <3>. QED
      BY <2>1, <2>2, <3>1, <3>2, <3>3, StartWriteLayout
  <2>. QED
    BY SMT, <1>1, <2>1, <2>2, LeaveLayout
    DEF FixMftMirr, Goto, MemoryLayout, disk, InMft, InMirr, Pcs
<1>2. CASE FixUpcase
  BY <1>2 DEF FixUpcase, Goto, DiskLayout, MemoryLayout, InMft, InMirr, Pcs
<1>3. CASE FixUpcaseFails
  BY SMT, <1>3, LeaveLayout, FixAssumption DEF FixUpcaseFails, DiskLayout, Fault
<1>4. CASE SetDirtyFlag
  <2>1. VolumeRecord \in Records
    BY FixAssumption
  <2>2. DiskLayout'
    BY SMT, <1>4, <2>1 DEF SetDirtyFlag, DiskLayout, disk
  <2>3. CASE ~Usable(mft[VolumeRecord])
    BY <1>4, <2>2, <2>3, LeaveLayout DEF SetDirtyFlag
  <2>4. CASE Usable(mft[VolumeRecord])
    <3>1. PICK v \in Nat, flags \in SUBSET VolumeFlags :
             StartWrite(VolumeRecord, Flagged(Read(mft[VolumeRecord]), v, flags), "dirtyMft")
      BY SMT, <1>4, <2>1, <2>4 DEF SetDirtyFlag, StartupFlags, VolumeFlags, DiskLayout
    <3>2. Read(mft[VolumeRecord]) \in Rec /\ Proper(Read(mft[VolumeRecord]))
      BY <2>1, <2>4, ReadFacts DEF DiskLayout
    <3>3. /\ Flagged(Read(mft[VolumeRecord]), v, flags) \in Rec
          /\ Proper(Flagged(Read(mft[VolumeRecord]), v, flags))
      BY <3>2, FlaggedFacts
    <3>. QED
      BY <1>4, <2>1, <2>2, <2>4, <3>1, <3>3, StartWriteLayout DEF SetDirtyFlag
  <2>. QED
    BY <2>3, <2>4
<1>5. CASE EmptyJournal
  <2>1. DiskLayout'
    BY <1>5 DEF EmptyJournal, DiskLayout, MemoryLayout
  <2>2. CASE ~Usable(mft[LogRecord])
    BY <1>5, <2>1, <2>2, LeaveLayout DEF EmptyJournal
  <2>3. CASE Usable(mft[LogRecord])
    BY SMT, <1>5, <2>1, <2>3, FixAssumption DEF EmptyJournal, MemoryLayout, InMft, InMirr, Pcs
  <2>. QED
    BY <2>2, <2>3
<1>6. CASE EmptyJournalFails
  <2>1. DiskLayout'
    <3>1. [journal EXCEPT ![cur] = TRUE] \in [1 .. Chunks -> BOOLEAN]
      BY DEF DiskLayout
    <3>2. journal' \in [1 .. Chunks -> BOOLEAN]
      BY <1>6, <3>1 DEF EmptyJournalFails, DiskLayout
    <3>. QED
      BY SMT, <1>6, <3>2, FixAssumption DEF EmptyJournalFails, DiskLayout, Fault
  <2>. QED
    BY <1>6, <2>1, LeaveLayout DEF EmptyJournalFails
<1>. QED
  BY <1>1, <1>2, <1>3, <1>4, <1>5, <1>6

\* The mounts, the alternate boot sector and the mounted volume.
LEMMA MountedLayout ==
    ASSUME Layout,
           OpenVolume \/ Remount \/ CheckAlternateBoot \/ CheckAlternateBootFails
           \/ (\E i \in Records : Update(i)) \/ Close \/ PowerLoss \/ FixMountFault \/ ResetMachine
    PROVE  Layout'
<1>. USE Zenon
<1>. USE DEF Layout
<1>1. CASE OpenVolume
  <2>1. DiskLayout'
    BY <1>1 DEF OpenVolume, DiskLayout, disk
  <2>. QED
    BY <1>1, <2>1, MountLayout DEF OpenVolume, Goto, MemoryLayout, disk, InMft, InMirr, Pcs
<1>2. CASE Remount
  <2>1. DiskLayout'
    BY Zenon, <1>2 DEF Remount, DiskLayout, disk
  <2>2. MountOk' <=> MountOk
    BY <1>2 DEF Remount, disk, MountOk, StartupOk, MftLoads, AttributeList, MirrorMatches
  <2>. QED
    BY <1>2, <2>1, <2>2, LeaveLayout DEF Remount, Goto, MemoryLayout, disk, InMft, InMirr, Pcs
<1>3. [blocks EXCEPT ![DeviceSize - 1] = blocks[0]] \in [0 .. LastBlock -> BootSector]
  BY SMT, FixAssumption DEF DiskLayout, DeviceSize
<1>4. CASE CheckAlternateBoot
  <2>1. DiskLayout'
    BY Zenon, <1>3, <1>4 DEF CheckAlternateBoot, DiskLayout
  <2>2. MountOk
    BY <1>4 DEF CheckAlternateBoot, MemoryLayout
  <2>. QED
    BY <1>4, <2>1, <2>2, LeaveLayout, MountLayout DEF CheckAlternateBoot
<1>5. CASE CheckAlternateBootFails
  <2>1. blocks' \in [0 .. LastBlock -> BootSector]
    BY <1>3, <1>5 DEF CheckAlternateBootFails, DiskLayout
  <2>2. DiskLayout'
    BY SMT, <1>5, <2>1, FixAssumption DEF CheckAlternateBootFails, DiskLayout, Fault
  <2>. QED
    BY <1>5, <2>2, LeaveLayout DEF CheckAlternateBootFails
<1>6. ASSUME NEW i \in Records, Update(i) PROVE Layout'
  <2>1. DiskLayout'
    BY SMT, <1>6 DEF Update, DiskLayout, disk
  <2>2. PICK w \in TailWords :
           StartWrite(i, Versioned(core[i], latest[i] + 1, w), "updateMft")
    BY <1>6 DEF Update
  <2>3. core[i] \in Rec /\ Proper(core[i]) /\ latest[i] + 1 \in Nat /\ w \in Words
    BY SMT, FixAssumption DEF DiskLayout, MemoryLayout
  <2>4. DEFINE r == Versioned(core[i], latest[i] + 1, w)
  <2>5. r \in Rec /\ Proper(r)
    BY <2>3, VersionedFacts
  <2>. HIDE DEF r
  <2>6. StartWrite(i, r, "updateMft")
    BY <2>2 DEF r
  <2>. QED
    BY <1>6, <2>1, <2>5, <2>6, StartWriteLayout DEF Update
<1>7. CASE Close
  BY <1>7, LeaveLayout DEF Close, DiskLayout, disk
<1>8. CASE PowerLoss
  <2>1. DiskLayout'
    BY SMT, <1>8, FixAssumption DEF PowerLoss, DiskLayout, disk, Fault
  <2>. QED
    BY <1>8, <2>1, LeaveLayout DEF PowerLoss
<1>9. CASE FixMountFault
  <2>1. DiskLayout'
    BY <1>9 DEF FixMountFault, DiskLayout, disk
  <2>. QED
    BY <1>9, <2>1 DEF FixMountFault, Goto, MemoryLayout, disk, InMft, InMirr, Pcs
<1>10. CASE ResetMachine
  BY <1>10, LeaveLayout DEF ResetMachine, DiskLayout, disk
<1>. QED
  BY <1>1, <1>2, <1>4, <1>5, <1>6, <1>7, <1>8, <1>9, <1>10

\* A whole record as a disk is formatted with.
LEMMA WholeFacts ==
    ASSUME NEW usn \in Usns, NEW w \in Words,
           NEW flags \in SUBSET VolumeFlags, NEW list \in ListRefs
    PROVE  LET r == Whole(usn, w, flags, list)
           IN  /\ r \in Rec /\ Stored(r) /\ Complete(r) /\ OneVersion(r) /\ r.usn = usn
               /\ \A s \in Sectors : r.tail[s] = usn
               /\ \A s \in Sectors : r.body[s] = [ver |-> 0, flags |-> flags, list |-> list]
               /\ \A m \in GarbageMagics :
                     /\ Garbage(r, m) \in Rec /\ Overwritten(Garbage(r, m))
                     /\ Garbage(r, m).body = r.body /\ Garbage(r, m).usn = usn
<1>1. usn \in Words
  BY MstAssumption DEF Usns, Words
<1>. QED
  BY ZenonT(40), <1>1 DEF Whole, Rec, Record, Body, Magics, Stored, Proper, Complete, OneVersion,
              Garbage, Overwritten, GarbageMagics

\* The disk as OpenVolume finds it at first.
LEMMA InitialFacts ==
    ASSUME Init
    PROVE  /\ DiskLayout
           /\ \A i \in Records : /\ Complete(mirr[i])
                                 /\ OneVersion(mirr[i]) /\ OneVersion(mft[i])
                                 /\ mft[i].usn = mirr[i].usn
                                 /\ \A s \in Sectors : mft[i].body[s].ver = 0
           /\ extent.high = "free" =>
                 extent.list = "none" /\ \A s \in Sectors : mft[0].body[s].list = "none"
<1>. USE Zenon
<1>. PICK d \in Damages, usn \in 1 .. UsnModulus - 2, w \in TailWords, resident \in BOOLEAN :
        InitialDisk(d, usn, w, resident)
  BY DEF Init
<1>. DEFINE list == IF d = "selfloc" THEN "high" ELSE "none"
            rec(i) == Whole(usn, w, IF i = VolumeRecord THEN {"other"} ELSE {},
                            IF i = 0 THEN (IF resident THEN list ELSE "none") ELSE "none")
<1>1. usn \in Usns /\ w \in Words /\ list \in ListRefs
  BY FixAssumption DEF Usns, ListRefs
<1>2. \A i \in Records :
         /\ rec(i) \in Rec /\ Stored(rec(i)) /\ Complete(rec(i)) /\ OneVersion(rec(i))
         /\ \A m \in GarbageMagics :
               /\ Garbage(rec(i), m) \in Rec /\ Overwritten(Garbage(rec(i), m))
               /\ Garbage(rec(i), m).body = rec(i).body /\ Garbage(rec(i), m).usn = rec(i).usn
         /\ \A s \in Sectors : rec(i).body[s].ver = 0
         /\ d # "selfloc" => \A s \in Sectors : rec(i).body[s].list = "none"
  <2>. TAKE i \in Records
  <2>. DEFINE flags == IF i = VolumeRecord THEN {"other"} ELSE {}
              at == IF i = 0 THEN (IF resident THEN list ELSE "none") ELSE "none"
  <2>1. flags \in SUBSET VolumeFlags /\ at \in ListRefs /\ (d # "selfloc" => at = "none")
    BY <1>1 DEF VolumeFlags, ListRefs
  <2>. HIDE DEF flags, at
  <2>3. rec(i) = Whole(usn, w, flags, at)
    BY Zenon DEF flags, at
  <2>. DEFINE r == Whole(usn, w, flags, at)
  <2>4. /\ r \in Rec /\ Stored(r) /\ Complete(r) /\ OneVersion(r) /\ r.usn = usn
        /\ \A s \in Sectors : r.body[s] = [ver |-> 0, flags |-> flags, list |-> at]
        /\ \A m \in GarbageMagics :
              /\ Garbage(r, m) \in Rec /\ Overwritten(Garbage(r, m))
              /\ Garbage(r, m).body = r.body /\ Garbage(r, m).usn = usn
    BY SMTT(30), <1>1, <2>1, WholeFacts
  <2>5. \A s \in Sectors : r.body[s].ver = 0 /\ r.body[s].list = at
    <3>. HIDE DEF r
    <3>1. \A s \in Sectors : r.body[s] = [ver |-> 0, flags |-> flags, list |-> at]
      BY <2>4
    <3>. QED
      BY SMT, <3>1
  <2>6. rec(i) = r
    BY <2>3
  <2>. HIDE DEF rec, r
  <2>. QED
    BY <2>1, <2>4, <2>5, <2>6
<1>3. /\ mirr = [i \in Records |-> rec(i)]
      /\ mft = mirr \/ \E i \in Records, m \in GarbageMagics :
                         mft = [mirr EXCEPT ![i] = Garbage(mirr[i], m)]
  BY DEF InitialDisk, GarbageMagics
<1>. HIDE DEF rec
<1>4. /\ mft \in [Records -> Rec] /\ mirr \in [Records -> Rec]
      /\ \A i \in Records : /\ mirr[i] = rec(i)
                            /\ mft[i] = rec(i) \/ \E m \in GarbageMagics : mft[i] = Garbage(rec(i), m)
  BY SMT, <1>2, <1>3
<1>5. blocks \in [0 .. LastBlock -> BootSector]
  <2>. DEFINE good == [ntfs |-> TRUE, sectors |-> LastBlock]
              data == [ntfs |-> FALSE, sectors |-> 0]
  <2>1. good \in BootSector /\ data \in BootSector
    BY FixAssumption DEF BootSector
  <2>. DEFINE main == CASE d = "boot"      -> [ntfs : {FALSE}, sectors : 0 .. LastBlock + 2]
                        [] d = "oversized" -> {[ntfs |-> TRUE, sectors |-> LastBlock + 2]}
                        [] OTHER           -> {good}
              after(first) == [b \in 0 .. LastBlock |->
                                 IF b = 0 THEN first ELSE IF b = LastBlock THEN good ELSE data]
  <2>2. \E first \in main : blocks = after(first)
    BY DEF InitialDisk
  <2>3. main \subseteq BootSector
    <3>1. CASE d = "boot"
      <4>1. main = [ntfs : {FALSE}, sectors : 0 .. LastBlock + 2]
        BY <3>1
      <4>2. 0 .. LastBlock + 2 \subseteq Nat /\ {FALSE} \subseteq BOOLEAN
        BY SMT
      <4>3. ASSUME NEW A, NEW B, A \subseteq BOOLEAN, B \subseteq Nat
            PROVE  [ntfs : A, sectors : B] \subseteq BootSector
        BY <4>3 DEF BootSector
      <4>. HIDE DEF main
      <4>. QED
        BY <4>1, <4>2, <4>3
    <3>2. CASE d = "oversized"
      <4>1. main = {[ntfs |-> TRUE, sectors |-> LastBlock + 2]}
        BY <3>2
      <4>. HIDE DEF main
      <4>. QED
        BY SMT, <4>1, FixAssumption DEF BootSector
    <3>3. CASE d \notin {"boot", "oversized"}
      BY <3>3, <2>1
    <3>. QED
      BY <3>1, <3>2, <3>3
  <2>4. \A first \in BootSector : after(first) \in [0 .. LastBlock -> BootSector]
    <3>. HIDE DEF good, data
    <3>. QED
      BY <2>1
  <2>. HIDE DEF main, after
  <2>. QED
    BY <2>2, <2>3, <2>4
<1>6. /\ extent \in Extent /\ upcase \in BOOLEAN /\ journal \in [1 .. Chunks -> BOOLEAN]
      /\ extent.high = "free" => d # "selfloc" /\ extent.list = "none"
  BY <1>1 DEF InitialDisk, Extent, ListRefs
<1>7. latest \in [Records -> Nat] /\ faults \in 0 .. MaxFaults /\ 0 \in Records
  BY SMT, FixAssumption DEF Init, Records
<1>8. DiskLayout
  BY Zenon, <1>2, <1>4, <1>5, <1>6, <1>7 DEF DiskLayout
<1>. QED
  BY SMT, <1>2, <1>4, <1>6, <1>7, <1>8 DEF OneVersion

\* Every step keeps the layout.
LEMMA LayoutStep ==
    ASSUME Layout, [Next]_vars
    PROVE  Layout'
<1>. USE Zenon
<1>1. CASE UNCHANGED vars
  <2>1. DiskLayout'
    BY <1>1 DEF Layout, DiskLayout, vars, disk
  <2>2. MountOk' <=> MountOk
    BY <1>1 DEF vars, disk, MountOk, StartupOk, MftLoads, AttributeList, MirrorMatches
  <2>3. MemoryLayout'
    BY <1>1, <2>2 DEF Layout, MemoryLayout, vars, disk, InMft, InMirr
  <2>. QED
    BY <2>1, <2>3 DEF Layout
<1>. QED
  BY <1>1, WriteLayout, WriteFailsLayout, StartupLayout, RepairLayout, MountedLayout
  DEF Next, Repair, WriteFails

\* The records on the disk and in memory keep the form the driver gives them,
\* in every state: the layout is an invariant.
THEOREM LayoutInvariance == Spec => []Layout
<1>1. Init => Layout
  <2>. SUFFICES ASSUME Init PROVE Layout
    BY Zenon
  <2>1. MemoryLayout
    BY Zenon, BlankFacts DEF Init, MemoryLayout, Stored, InMft, InMirr, Pcs
  <2>. QED
    BY Zenon, <2>1, InitialFacts DEF Layout
<1>2. Layout /\ [Next]_vars => Layout'
  BY Zenon, LayoutStep
<1>. QED
  BY <1>1, <1>2, PTL DEF Spec

\* A usable boot sector is never replaced by an unusable one, and the copy
\* check_alternate_boot writes is outside the file system.
THEOREM BootSectorIsSafe == Spec => BootSafe
<1>. DEFINE Safe == /\ BootUsable(blocks[0]) => BootUsable(blocks'[0])
                    /\ \A b \in 1 .. LastBlock : blocks'[b] # blocks[b] => b >= blocks[0].sectors
<1>1. ASSUME Layout, [Next]_vars PROVE [Safe]_vars
  <2>. /\ blocks \in [0 .. LastBlock -> BootSector] /\ LastBlock \in Nat /\ LastBlock > 1
       /\ 0 \in 0 .. LastBlock
    BY <1>1, FixAssumption DEF Layout, DiskLayout
  <2>1. CASE UNCHANGED blocks
    BY Zenon, <2>1
  <2>2. CASE TryFixBoot \/ TryFixBootFails
    <3>1. CASE blocks' = [blocks EXCEPT ![0] = Alternate] /\ BootUsable(Alternate)
      BY <3>1
    <3>. QED
      BY Zenon, <2>1, <2>2, <3>1 DEF TryFixBoot, TryFixBootFails
  <2>3. CASE CheckAlternateBoot \/ CheckAlternateBootFails
    <3>1. CASE blocks' = [blocks EXCEPT ![LastBlock - 1] = blocks[0]] /\ LastBlock > blocks[0].sectors
      <4>1. blocks[0].sectors \in Nat
        BY Zenon DEF BootSector
      <4>. QED
        BY <3>1, <4>1
    <3>. QED
      BY Zenon, <2>1, <2>3, <3>1
      DEF CheckAlternateBoot, CheckAlternateBootFails, AlternateFits, DeviceSize
  <2>4. CASE ~(TryFixBoot \/ TryFixBootFails \/ CheckAlternateBoot \/ CheckAlternateBootFails)
    <3>1. UNCHANGED blocks
      BY Zenon, <1>1, <2>4 DEF Next, Repair, WriteFails, vars, disk, OpenVolume, Startup, FixSelfLocated,
          SwapRecords, FixMftMirr, FixUpcase, SetDirtyFlag, EmptyJournal, Remount, WriteMft,
          WriteMirr, Update, Close, PowerLoss, FixMountFault, ResetMachine, WriteMftFails, WriteMirrFails,
          FixSelfLocatedFails, SwapRecordsFails, FixUpcaseFails, EmptyJournalFails
    <3>. QED
      BY Zenon, <2>1, <3>1
  <2>. QED
    BY Zenon, <2>2, <2>3, <2>4
<1>. QED
  BY <1>1, LayoutInvariance, PTL DEF Spec, BootSafe

-----------------------------------------------------------------------------
(* What a step does to the records.                                        *)

\* The volume is mounted: the records are in memory.
VolumeOpen == pc \in {"mounted", "updateMft", "updateMirr"}

\* No record is written or about to be.  The volume may be mounted, when all
\* copies agree, or given up.
Quiet ==
    /\ UNCHANGED <<mft, mirr, latest>>
    /\ ~InMft' /\ ~InMirr'
    /\ faults' = faults \/ faults' = faults + 1
    /\ InMft \/ InMirr => faults' = faults + 1
    /\ buf' = buf \/ buf' = Blank
    /\ \/ ~VolumeOpen' /\ (core' = core \/ core' = [i \in Records |-> Blank])
       \/ /\ pc' = "mounted" /\ ~VolumeOpen /\ \A i \in Records : MirrorMatches(i)
          /\ core' = [i \in Records |-> Read(mft[i])]

\* Record b, as it is going to be written, was made from record r.
Rewritten(r, b) == b.usn = NextUsn(r.usn) /\ (OneVersion(r) => OneVersion(b))

\* Record i is protected and its write begins: for a mounted volume, for
\* fix_mftmirr, for set_dirty_flag or for fix_self_located_mft.
BeginWrite(i) ==
    /\ ~InMft /\ ~InMirr
    /\ UNCHANGED <<disk, core, faults>>
    /\ cur' = i
    /\ latest' \in [Records -> Nat] /\ \A j \in Records : latest'[j] >= latest[j]
    /\ pc' \in {"updateMft", "dirtyMft", "listMft"} =>
          \A s \in Sectors : buf'.body[s].ver = latest'[i]
    /\ \/ /\ pc = "mounted" /\ pc' = "updateMft"
          /\ Rewritten(core[i], buf')
          /\ \A s \in Sectors : /\ buf'.body[s].flags = core[i].body[s].flags
                                /\ buf'.body[s].list = core[i].body[s].list
       \/ /\ pc = "mirror" /\ pc' = "mirrorMft"
          /\ Usable(mft[i]) /\ Usable(mirr[i]) /\ Rewritten(mft[i], buf')
          /\ buf'.body = mft[i].body
       \/ /\ pc = "dirty" /\ pc' = "dirtyMft" /\ i = VolumeRecord
          /\ Usable(mft[i]) /\ Rewritten(mft[i], buf')
          /\ \A s \in Sectors : /\ buf'.body[s].flags = {"dirty"}
                                /\ buf'.body[s].list = mft[i].body[s].list
       \/ /\ pc = "selfloc" /\ pc' = "listMft" /\ i = 0
          /\ SelfLocated /\ Rewritten(mft[i], buf')
          /\ \A s \in Sectors : /\ buf'.body[s].flags = mft[i].body[s].flags
                                /\ buf'.body[s].list = "spare"

\* The steps of the repair of the boot sector and of $MFT.
LEMMA StartupRecords ==
    ASSUME Layout,
           Startup \/ TryFixBoot \/ TryFixBootFails \/ FixSelfLocated \/ FixSelfLocatedFails
           \/ SwapRecords \/ SwapRecordsFails
    PROVE  Quiet \/ \E i \in Records : BeginWrite(i)
<1>. USE Zenon
<1>. USE DEF Layout
<1>1. CASE FixSelfLocated /\ SelfLocated /\ extent.resident
  <2>. DEFINE r == Read(mft[0])
  <2>1. 0 \in Records /\ latest \in [Records -> Nat] /\ latest[0] \in Nat /\ mft[0] \in Rec
    BY FixAssumption DEF Records, DiskLayout
  <2>2. r \in Rec /\ Proper(r) /\ r.usn = mft[0].usn /\ r.body = mft[0].body
    BY <1>1, <2>1, ReadFacts DEF DiskLayout, SelfLocated
  <2>. HIDE DEF r
  <2>3. DEFINE b == ListMoved(r)
  <2>4. /\ b \in Rec /\ Proper(b) /\ b.usn = r.usn /\ (OneVersion(r) => OneVersion(b))
        /\ \A s \in Sectors : /\ b.body[s].ver = latest[0] + 1
                              /\ b.body[s].flags = r.body[s].flags
                              /\ b.body[s].list = "spare"
    BY <2>1, <2>2, ListMovedFacts
  <2>5. buf' = ntfs_mst_pre_write_fixup(b) /\ cur' = 0 /\ pc' = "listMft"
    BY <1>1 DEF FixSelfLocated, StartWrite, r
  <2>. HIDE DEF b
  <2>6. buf'.usn = NextUsn(r.usn) /\ buf'.body = b.body
    BY <2>4, <2>5, PreWriteFacts
  <2>7. Rewritten(mft[0], buf')
    BY SMT, <2>2, <2>4, <2>6 DEF Rewritten, OneVersion
  <2>8. /\ latest' = [latest EXCEPT ![0] = @ + 1] /\ UNCHANGED <<disk, core, faults>>
        /\ pc = "selfloc"
    BY Zenon, <1>1 DEF FixSelfLocated
  <2>9. BeginWrite(0)
    <3>1. latest' \in [Records -> Nat] /\ (\A j \in Records : latest'[j] >= latest[j])
          /\ latest'[0] = latest[0] + 1
      BY SMT, <2>1, <2>8
    <3>. QED
      BY <1>1, <2>2, <2>4, <2>5, <2>6, <2>7, <2>8, <3>1 DEF BeginWrite, InMft, InMirr
  <2>. QED
    BY <2>1, <2>9
<1>2. CASE ~(FixSelfLocated /\ SelfLocated /\ extent.resident)
  BY ZenonT(40), <1>2 DEF Startup, TryFixBoot, TryFixBootFails, FixSelfLocated, FixSelfLocatedFails, SwapRecords,
      SwapRecordsFails, Quiet, InBoot, NextBoot, Leave, Goto, Fault, disk, InMft, InMirr, VolumeOpen
<1>. QED
  BY <1>1, <1>2

\* The steps of the four repairs.
LEMMA RepairRecords ==
    ASSUME Layout,
           FixMftMirr \/ FixUpcase \/ FixUpcaseFails \/ SetDirtyFlag
           \/ EmptyJournal \/ EmptyJournalFails
    PROVE  Quiet \/ \E i \in Records : BeginWrite(i)
<1>. USE Zenon
<1>. USE DEF Layout
<1>1. CASE FixMftMirr
  <2>. DEFINE r == Read(mft[cur])
  <2>1. CASE cur \in Records /\ DataSize(r) > 0 /\ r # Read(mirr[cur])
             /\ ~Incomplete(mft[cur]) /\ ~Incomplete(mirr[cur])
    <3>1. Usable(mft[cur]) /\ Usable(mirr[cur]) /\ ~UseMirr(cur)
      BY SMT, <2>1 DEF DataSize, Usable, UseMirr, Incomplete, InUse, DiskLayout, Stored, Proper
    <3>2. r \in Rec /\ Proper(r) /\ r.usn = mft[cur].usn /\ r.body = mft[cur].body
      BY Zenon, <2>1, <3>1, ReadFacts DEF DiskLayout
    <3>. HIDE DEF r
    <3>3. buf' = ntfs_mst_pre_write_fixup(r) /\ cur' = cur /\ pc' = "mirrorMft"
      BY ZenonT(40), <1>1, <2>1, <3>1 DEF FixMftMirr, StartWrite, r
    <3>4. UNCHANGED <<disk, core, latest, faults>> /\ pc = "mirror"
      BY <1>1, <2>1 DEF FixMftMirr, r
    <3>5. buf'.usn = NextUsn(mft[cur].usn) /\ buf'.body = mft[cur].body
      BY <3>2, <3>3, PreWriteFacts
    <3>6. Rewritten(mft[cur], buf')
      BY <3>5 DEF Rewritten, OneVersion
    <3>7. latest' \in [Records -> Nat] /\ \A j \in Records : latest'[j] >= latest[j]
      BY SMTT(30), <3>4 DEF DiskLayout
    <3>. QED
      BY <2>1, <3>1, <3>3, <3>4, <3>5, <3>6, <3>7 DEF BeginWrite, InMft, InMirr
  <2>2. CASE ~(cur \in Records /\ DataSize(r) > 0 /\ r # Read(mirr[cur])
               /\ ~Incomplete(mft[cur]) /\ ~Incomplete(mirr[cur]))
    BY <1>1, <2>2 DEF FixMftMirr, Quiet, Leave, Goto, disk, InMft, InMirr, VolumeOpen
  <2>. QED
    BY <2>1, <2>2
<1>2. CASE SetDirtyFlag
  <2>. DEFINE V == VolumeRecord
              r == Read(mft[V])
  <2>1. V \in Records /\ latest \in [Records -> Nat] /\ latest[V] \in Nat /\ mft[V] \in Rec
    BY FixAssumption DEF DiskLayout
  <2>2. CASE Usable(mft[V])
    <3>1. r \in Rec /\ Proper(r) /\ r.usn = mft[V].usn /\ r.body = mft[V].body
      BY Zenon, <2>1, <2>2, ReadFacts DEF DiskLayout
    <3>2. PICK v \in Nat :
             /\ v >= latest[V] /\ latest' = [latest EXCEPT ![V] = v]
             /\ StartWrite(V, Flagged(r, v, {"dirty"}), "dirtyMft")
             /\ UNCHANGED core
      <4>. DEFINE n == IF FlagsOf(r) = StartupFlags \union {"dirty"} THEN latest[V] ELSE latest[V] + 1
      <4>1. n \in Nat /\ n >= latest[V] /\ StartupFlags \union {"dirty"} = {"dirty"}
        BY SMT, <2>1 DEF StartupFlags
      <4>2. /\ StartWrite(V, Flagged(r, n, StartupFlags \union {"dirty"}), "dirtyMft")
            /\ latest' = [latest EXCEPT ![V] = n] /\ UNCHANGED core
        BY <1>2, <2>2 DEF SetDirtyFlag
      <4>. HIDE DEF n
      <4>. QED
        BY <4>1, <4>2
    <3>. HIDE DEF r
    <3>3. DEFINE b == Flagged(r, v, {"dirty"})
    <3>4. /\ b \in Rec /\ Proper(b) /\ b.usn = r.usn /\ (OneVersion(r) => OneVersion(b))
          /\ \A s \in Sectors : /\ b.body[s].ver = v
                                /\ b.body[s].flags = {"dirty"}
                                /\ b.body[s].list = r.body[s].list
      <4>1. {"dirty"} \in SUBSET VolumeFlags
        BY DEF VolumeFlags
      <4>. QED
        BY SMT, <3>1, <4>1, FlaggedFacts
    <3>5. buf' = ntfs_mst_pre_write_fixup(b) /\ cur' = V /\ pc' = "dirtyMft"
      BY Zenon, <3>2 DEF StartWrite
    <3>. HIDE DEF b
    <3>6. buf'.usn = NextUsn(r.usn) /\ buf'.body = b.body
      BY Zenon, <3>4, <3>5, PreWriteFacts
    <3>7. Rewritten(mft[V], buf')
      BY SMT, <3>1, <3>4, <3>6 DEF Rewritten, OneVersion
    <3>8. /\ latest' \in [Records -> Nat] /\ (\A j \in Records : latest'[j] >= latest[j])
          /\ latest'[V] = v
      BY SMT, <2>1, <3>2
    <3>9. UNCHANGED <<disk, core, faults>> /\ pc = "dirty"
      BY Zenon, <1>2, <3>2 DEF SetDirtyFlag
    <3>10. BeginWrite(V)
      BY <2>2, <3>1, <3>4, <3>5, <3>6, <3>7, <3>8, <3>9 DEF BeginWrite, InMft, InMirr
    <3>. QED
      BY <2>1, <3>10
  <2>3. CASE ~Usable(mft[V])
    BY Zenon, <1>2, <2>3 DEF SetDirtyFlag, Quiet, Leave, disk, InMft, InMirr, VolumeOpen
  <2>. QED
    BY <2>2, <2>3
<1>3. CASE FixUpcase \/ FixUpcaseFails \/ EmptyJournal \/ EmptyJournalFails
  BY <1>3 DEF FixUpcase, FixUpcaseFails, EmptyJournal, EmptyJournalFails, Quiet, Leave, Goto,
      Fault, InMft, InMirr, VolumeOpen
<1>. QED
  BY <1>1, <1>2, <1>3

\* The steps of the mounts and of the mounted volume.
LEMMA MountedRecords ==
    ASSUME Layout,
           OpenVolume \/ Remount \/ CheckAlternateBoot \/ CheckAlternateBootFails
           \/ (\E i \in Records : Update(i)) \/ Close \/ PowerLoss \/ FixMountFault \/ ResetMachine
    PROVE  Quiet \/ \E i \in Records : BeginWrite(i)
<1>. USE Zenon
<1>. USE DEF Layout
<1>1. ASSUME NEW i \in Records, Update(i) PROVE BeginWrite(i)
  <2>1. PICK w \in TailWords :
           StartWrite(i, Versioned(core[i], latest[i] + 1, w), "updateMft")
    BY <1>1 DEF Update
  <2>. DEFINE v == latest[i] + 1
              b == Versioned(core[i], v, w)
  <2>2. core[i] \in Rec /\ Proper(core[i]) /\ v \in Nat /\ w \in Words
    BY SMTT(30), FixAssumption DEF DiskLayout, MemoryLayout
  <2>3. /\ b \in Rec /\ Proper(b) /\ b.usn = core[i].usn /\ (OneVersion(core[i]) => OneVersion(b))
        /\ \A s \in Sectors : /\ b.body[s].ver = v
                              /\ b.body[s].flags = core[i].body[s].flags
                              /\ b.body[s].list = core[i].body[s].list
    <3>. HIDE DEF v
    <3>. QED
      BY SMT, <2>2, VersionedFacts
  <2>4. buf' = ntfs_mst_pre_write_fixup(b) /\ cur' = i /\ pc' = "updateMft"
    BY Zenon, <2>1 DEF StartWrite
  <2>. HIDE DEF b
  <2>5. buf'.usn = NextUsn(core[i].usn) /\ buf'.body = b.body
    BY Zenon, <2>3, <2>4, PreWriteFacts
  <2>6. Rewritten(core[i], buf')
    BY SMT, <2>3, <2>5 DEF Rewritten, OneVersion
  <2>7. /\ latest' = [latest EXCEPT ![i] = @ + 1] /\ UNCHANGED <<disk, core, faults>>
        /\ pc = "mounted"
    BY <1>1 DEF Update
  <2>8. /\ latest' \in [Records -> Nat] /\ (\A j \in Records : latest'[j] >= latest[j])
        /\ latest'[i] = latest[i] + 1
    BY SMTT(30), <2>7 DEF DiskLayout
  <2>. QED
    BY <2>3, <2>4, <2>5, <2>6, <2>7, <2>8 DEF BeginWrite, InMft, InMirr
<1>2. CASE OpenVolume \/ Remount \/ CheckAlternateBoot \/ CheckAlternateBootFails
  BY <1>2 DEF OpenVolume, Remount, CheckAlternateBoot, CheckAlternateBootFails, Quiet, MemoryLayout,
      MountOk, Mounted, Leave, Goto, Fault, disk, InMft, InMirr, VolumeOpen
<1>3. CASE Close \/ PowerLoss \/ FixMountFault \/ ResetMachine
  BY <1>3 DEF Close, PowerLoss, FixMountFault, ResetMachine, Quiet, Leave, Goto, Fault, disk,
      InMft, InMirr, VolumeOpen
<1>. QED
  BY Zenon, <1>1, <1>2, <1>3

\* Every step is one of six kinds.
LEMMA RecordSteps ==
    ASSUME Layout, Next
    PROVE  \/ Quiet \/ \E i \in Records : BeginWrite(i)
           \/ WriteMft \/ WriteMirr \/ WriteMftFails \/ WriteMirrFails
BY Zenon, StartupRecords, RepairRecords, MountedRecords DEF Next, Repair, WriteFails

\* Record r has, sector by sector, what old or new has; the header goes with
\* the first sector.
Mixed(old, new, r) ==
    \E done \in SUBSET Sectors :
        /\ r.usn = IF 1 \in done THEN new.usn ELSE old.usn
        /\ \A s \in Sectors :
              /\ r.tail[s] = IF s \in done THEN new.tail[s] ELSE old.tail[s]
              /\ r.body[s] = IF s \in done THEN new.body[s] ELSE old.body[s]

\* An interrupted write leaves such a record.
LEMMA TornIsMixed ==
    ASSUME NEW old \in Rec, NEW new \in Rec, NEW done \in SUBSET Sectors,
           NEW r, r = Torn(old, new, done)
    PROVE  Mixed(old, new, r)
<1>1. /\ r.usn = IF 1 \in done THEN new.usn ELSE old.usn
      /\ \A s \in Sectors : /\ r.tail[s] = IF s \in done THEN new.tail[s] ELSE old.tail[s]
                            /\ r.body[s] = IF s \in done THEN new.body[s] ELSE old.body[s]
  BY Zenon DEF Torn, Rec, Record
<1>. QED
  BY Zenon, <1>1 DEF Mixed

\* What each of the four kinds of writes does to the copy that it is about,
\* and where the driver is afterwards.
LEMMA WriteMftFacts ==
    ASSUME Layout, WriteMft
    PROVE  /\ cur \in Records /\ mft'[cur] = buf
           /\ \A i \in Records \ {cur} : mft'[i] = mft[i]
           /\ InMft /\ InMirr' /\ ~InMft' /\ (VolumeOpen <=> VolumeOpen')
<1>. USE Zenon
<1>1. cur \in Records /\ mft \in [Records -> Rec]
  BY DEF WriteMft, Layout, DiskLayout, MemoryLayout
<1>2. InMft /\ InMirr' /\ ~InMft' /\ (VolumeOpen <=> VolumeOpen')
  BY DEF WriteMft, AfterMft, InMft, InMirr, VolumeOpen
<1>. QED
  BY <1>1, <1>2 DEF WriteMft

\* The write to $MFTMirr ends the write; $MFT has the record by then.
LEMMA WriteMirrFacts ==
    ASSUME Layout, WriteMirr
    PROVE  /\ cur \in Records /\ mirr'[cur] = buf /\ mft[cur] = buf
           /\ \A i \in Records \ {cur} : mirr'[i] = mirr[i]
           /\ InMirr /\ ~InMirr' /\ ~InMft' /\ (VolumeOpen <=> VolumeOpen') /\ buf' = Blank
<1>. USE Zenon
<1>1. cur \in Records /\ mirr \in [Records -> Rec] /\ mft[cur] = buf
  BY DEF WriteMirr, Layout, DiskLayout, MemoryLayout
<1>2. InMirr /\ ~InMirr' /\ ~InMft' /\ (VolumeOpen <=> VolumeOpen') /\ buf' = Blank
  BY DEF WriteMirr, EndWrite, InMft, InMirr, VolumeOpen
<1>. QED
  BY <1>1, <1>2 DEF WriteMirr

\* A write that fails is over, for the mounted volume and for the repair.
LEMMA FailsControl ==
    ASSUME FailWrite \/ Leave
    PROVE  ~InMirr' /\ ~InMft' /\ (VolumeOpen' => VolumeOpen) /\ buf' = Blank
BY Zenon DEF FailWrite, EndWrite, Leave, InMft, InMirr, VolumeOpen

\* A failing write to $MFT touches the record in $MFT only.
LEMMA WriteMftFailsFacts ==
    ASSUME Layout, WriteMftFails
    PROVE  /\ cur \in Records /\ Mixed(mft[cur], buf, mft'[cur])
           /\ \A i \in Records \ {cur} : mft'[i] = mft[i]
           /\ InMft /\ ~InMirr' /\ ~InMft' /\ (VolumeOpen' => VolumeOpen) /\ buf' = Blank
           /\ faults < MaxFaults /\ faults' = faults + 1
<1>. USE Zenon
<1>1. cur \in Records /\ mft \in [Records -> Rec] /\ buf \in Rec /\ mft[cur] \in Rec
  BY DEF WriteMftFails, Layout, DiskLayout, MemoryLayout
<1>2. PICK done \in SUBSET Sectors : mft' = [mft EXCEPT ![cur] = Torn(mft[cur], buf, done)]
  BY DEF WriteMftFails
<1>3. Mixed(mft[cur], buf, mft'[cur])
  BY <1>1, <1>2, TornIsMixed
<1>. QED
  BY <1>1, <1>2, <1>3, FailsControl DEF WriteMftFails, Fault

\* A failing write to $MFTMirr touches the record in $MFTMirr only.
LEMMA WriteMirrFailsFacts ==
    ASSUME Layout, WriteMirrFails
    PROVE  /\ cur \in Records /\ mft[cur] = buf /\ Mixed(mirr[cur], buf, mirr'[cur])
           /\ \A i \in Records \ {cur} : mirr'[i] = mirr[i]
           /\ InMirr /\ ~InMirr' /\ ~InMft' /\ (VolumeOpen' => VolumeOpen) /\ buf' = Blank
           /\ faults < MaxFaults /\ faults' = faults + 1
<1>. USE Zenon
<1>1. /\ cur \in Records /\ mirr \in [Records -> Rec] /\ buf \in Rec /\ mirr[cur] \in Rec
      /\ mft[cur] = buf
  BY DEF WriteMirrFails, Layout, DiskLayout, MemoryLayout
<1>2. PICK done \in SUBSET Sectors : mirr' = [mirr EXCEPT ![cur] = Torn(mirr[cur], buf, done)]
  BY DEF WriteMirrFails
<1>3. Mixed(mirr[cur], buf, mirr'[cur])
  BY <1>1, <1>2, TornIsMixed
<1>. QED
  BY <1>1, <1>2, <1>3, FailsControl DEF WriteMirrFails, Fault

-----------------------------------------------------------------------------
(* No older version is put into $MFT.                                      *)

\* `latest' bounds the versions in $MFT, and what is about to be written is
\* the latest version, or the version that is there.
Versions ==
    /\ \A i \in Records, s \in Sectors : mft[i].body[s].ver <= latest[i]
    /\ pc = "mirrorMft" => buf.body = mft[cur].body
    /\ pc \in {"updateMft", "dirtyMft", "listMft"} =>
          \A s \in Sectors : buf.body[s].ver = latest[cur]

\* The versions are numbers.
LEMMA VersionType ==
    ASSUME Layout, NEW i \in Records, NEW s \in Sectors
    PROVE  /\ mft[i].body[s].ver \in Nat /\ latest[i] \in Nat
           /\ buf.body[s].ver \in Nat
BY DEF Layout, DiskLayout, MemoryLayout, Rec, Record, Body

\* What is about to be written is not older than what is there.
LEMMA WriteIsNewer ==
    ASSUME Layout, Versions, InMft, cur \in Records, NEW s \in Sectors
    PROVE  buf.body[s].ver >= mft[cur].body[s].ver /\ buf.body[s].ver <= latest[cur]
<1>1. /\ mft[cur].body[s].ver \in Nat /\ latest[cur] \in Nat
      /\ mft[cur].body[s].ver <= latest[cur]
  BY Zenon, VersionType DEF Versions
<1>. QED
  BY <1>1 DEF Versions, InMft

\* Every step keeps the bound on the versions.
LEMMA VersionsStep ==
    ASSUME Layout, Versions, [Next]_vars
    PROVE  Versions'
<1>. USE Zenon
<1>1. CASE UNCHANGED vars
  BY <1>1 DEF Versions, vars, disk
<1>2. CASE Quiet
  BY <1>2 DEF Quiet, Versions, InMft
<1>3. ASSUME NEW i \in Records, BeginWrite(i) PROVE Versions'
  <2>1. ASSUME NEW j \in Records, NEW s \in Sectors PROVE mft'[j].body[s].ver <= latest'[j]
    <3>1. /\ mft' = mft /\ latest'[j] \in Nat /\ latest'[j] >= latest[j]
          /\ mft[j].body[s].ver <= latest[j]
      BY <1>3 DEF BeginWrite, disk, Versions
    <3>. QED
      BY SMT, <3>1, VersionType
  <2>. QED
    BY <1>3, <2>1 DEF BeginWrite, disk, Versions
<1>4. CASE WriteMft
  <2>1. ASSUME NEW j \in Records, NEW s \in Sectors PROVE mft'[j].body[s].ver <= latest'[j]
    BY <1>4, WriteMftFacts, WriteIsNewer DEF WriteMft, Versions
  <2>. QED
    BY <1>4, <2>1, WriteMftFacts DEF Versions, InMft
<1>5. CASE WriteMirr
  BY <1>5, WriteMirrFacts DEF WriteMirr, Versions, InMft
<1>6. CASE WriteMftFails
  <2>1. ASSUME NEW j \in Records, NEW s \in Sectors PROVE mft'[j].body[s].ver <= latest'[j]
    <3>1. CASE j = cur
      <4>1. mft'[j].body[s] \in {mft[cur].body[s], buf.body[s]}
        BY <1>6, <3>1, WriteMftFailsFacts DEF Mixed
      <4>. QED
        BY <1>6, <3>1, <4>1, WriteMftFailsFacts, WriteIsNewer DEF WriteMftFails, Versions
    <3>2. CASE j # cur
      BY <1>6, <3>2, WriteMftFailsFacts DEF WriteMftFails, Versions
    <3>. QED
      BY <3>1, <3>2
  <2>. QED
    BY <1>6, <2>1, WriteMftFailsFacts DEF Versions, InMft
<1>7. CASE WriteMirrFails
  BY <1>7, WriteMirrFailsFacts DEF WriteMirrFails, Versions, InMft
<1>. QED
  BY <1>1, <1>2, <1>3, <1>4, <1>5, <1>6, <1>7, RecordSteps

\* The bound on the versions is an invariant.
LEMMA VersionsInvariance == Spec => []Versions
<1>1. Init => Versions
  <2>. SUFFICES ASSUME Init PROVE Versions
    BY Zenon
  <2>1. latest = [i \in Records |-> 0] /\ pc = "closed"
    BY Zenon DEF Init
  <2>. QED
    BY <2>1, InitialFacts DEF Versions
<1>2. Layout /\ Versions /\ [Next]_vars => Versions'
  BY Zenon, VersionsStep
<1>. QED
  BY <1>1, <1>2, LayoutInvariance, PTL DEF Spec

\* Neither an update, nor the repair, nor an interrupted write puts an older
\* version of a record into $MFT: fix_mftmirr takes the record of $MFT when
\* it can be read.
THEOREM NewestVersionIsKept == Spec => NewestKept
<1>. DEFINE Newer == \A i \in Records : Usable(mft[i]) /\ Usable(mft'[i]) =>
                        mft'[i].body[1].ver >= mft[i].body[1].ver
<1>1. ASSUME Layout, Versions, [Next]_vars PROVE [Newer]_vars
  <2>. SUFFICES ASSUME NEW i \in Records, Next PROVE mft'[i].body[1].ver >= mft[i].body[1].ver
    BY Zenon, <1>1
  <2>1. 1 \in Sectors
    BY MstAssumption DEF Sectors
  <2>2. mft[i].body[1].ver \in Nat
    BY Zenon, <1>1, <2>1, VersionType
  <2>3. CASE mft'[i].body[1] = mft[i].body[1]
    BY <2>2, <2>3
  <2>4. CASE mft'[i].body[1] = buf.body[1] /\ i = cur /\ InMft
    BY Zenon, <1>1, <2>1, <2>4, WriteIsNewer
  <2>5. CASE UNCHANGED mft
    BY Zenon, <2>3, <2>5
  <2>6. CASE WriteMft
    BY Zenon, <1>1, <2>3, <2>4, <2>6, WriteMftFacts
  <2>7. CASE WriteMftFails
    BY <1>1, <2>1, <2>3, <2>4, <2>7, WriteMftFailsFacts DEF Mixed
  <2>. QED
    BY Zenon, <1>1, <2>5, <2>6, <2>7, RecordSteps DEF Quiet, BeginWrite, disk, WriteMirr, WriteMirrFails
<1>. QED
  BY <1>1, LayoutInvariance, VersionsInvariance, PTL DEF Spec, NewestKept

-----------------------------------------------------------------------------
(* One complete copy.                                                      *)

\* Before the first fault every record of $MFTMirr is complete.
Copies ==
    /\ faults = 0 => \A i \in Records : Usable(mirr[i])
    /\ OneCopyLeft

\* The first write that fails hits one of two complete copies; when it is the
\* one in $MFTMirr, $MFT has just been written.
LEMMA CopiesStep ==
    ASSUME Layout, Copies, [Next]_vars
    PROVE  Copies'
<1>. USE DEF Copies, OneCopyLeft
<1>. /\ faults \in Nat /\ (\A i \in Records : mft[i] \in Rec /\ mirr[i] \in Rec)
     /\ buf \in Rec /\ Stored(buf) /\ Complete(buf)
  BY FixAssumption DEF Layout, DiskLayout, MemoryLayout
<1>1. Usable(buf)
  BY Zenon, ReadFacts
<1>2. CASE UNCHANGED <<mft, mirr>> /\ (faults' = faults \/ faults' = faults + 1)
  BY <1>2 DEF Usable
<1>3. CASE WriteMft
  BY Zenon, <1>1, <1>3, WriteMftFacts DEF WriteMft, Usable
<1>4. CASE WriteMirr
  BY Zenon, <1>1, <1>4, WriteMirrFacts DEF WriteMirr, Usable
<1>5. CASE WriteMftFails
  <2>1. mirr' = mirr /\ faults' = faults + 1
    BY Zenon, <1>5, WriteMftFailsFacts DEF WriteMftFails
  <2>. QED
    BY <2>1
<1>6. CASE WriteMirrFails
  <2>1. /\ faults' = faults + 1 /\ Usable(mft'[cur])
        /\ \A i \in Records \ {cur} : mirr'[i] = mirr[i]
    BY Zenon, <1>1, <1>6, WriteMirrFailsFacts DEF WriteMirrFails
  <2>. QED
    BY <2>1
<1>. QED
  BY Zenon, <1>2, <1>3, <1>4, <1>5, <1>6, RecordSteps DEF vars, disk, Quiet, BeginWrite

\* One interrupted write never leaves a record without a complete copy:
\* ntfs_mft_records_write writes $MFTMirr only when $MFT was written.
THEOREM OneCopyIsLeft == Spec => []OneCopyLeft
<1>1. Init => Copies
  <2>. SUFFICES ASSUME Init PROVE Copies
    BY Zenon
  <2>1. \A i \in Records : Usable(mirr[i])
    BY Zenon, InitialFacts, ReadFacts DEF DiskLayout
  <2>. QED
    BY Zenon, <2>1 DEF Copies, OneCopyLeft
<1>2. Layout /\ Copies /\ [Next]_vars => Copies'
  BY Zenon, CopiesStep
<1>3. Copies => OneCopyLeft
  BY Zenon DEF Copies
<1>. QED
  BY <1>1, <1>2, <1>3, LayoutInvariance, PTL DEF Spec

-----------------------------------------------------------------------------
(* A record that can be read is whole.                                     *)

\* Sectors with the same number belong to the same write.
Consistent(r) == \A s, t \in Sectors : r.tail[s] = r.tail[t] => r.body[s] = r.body[t]

\* The number of the write in progress.
Sequence ==
    InMft => buf.usn = NextUsn(IF pc = "updateMft" THEN core[cur].usn ELSE mft[cur].usn)

\* How far the number in a sector of $MFTMirr is behind the one in $MFT, and
\* that one behind the record in memory: no further than the number of faults,
\* because only a fault keeps a write from both copies.
MountedGap(i) == \A s, t \in Sectors :
    Dist(mirr[i].tail[s], mft[i].tail[t]) + Dist(mft[i].tail[t], core[i].usn) <= faults

\* When the volume is not mounted the number to start from is in $MFT.
ClosedGap(i) == Usable(mft[i]) => \A s \in Sectors : Dist(mirr[i].tail[s], mft[i].usn) <= faults

\* $MFT was written and $MFTMirr was not.
WriteGap == \A s \in Sectors :
    /\ Dist(mirr[cur].tail[s], buf.usn) <= faults + 1
    /\ faults < MaxFaults => mirr[cur].tail[s] # buf.usn

Gap(i) == IF InMirr /\ i = cur THEN WriteGap ELSE IF VolumeOpen THEN MountedGap(i) ELSE ClosedGap(i)

Numbers ==
    /\ OneVersion(buf) /\ \A i \in Records : OneVersion(core[i])
    /\ \A i \in Records : Consistent(mft[i]) /\ Consistent(mirr[i])
    /\ Sequence
    /\ \A i \in Records : Gap(i)

\* With few faults the next number is in no sector of either copy.
LEMMA NumberIsNew ==
    ASSUME NEW a \in Usns, NEW t \in Usns, NEW u \in Usns, NEW f \in Nat,
           Dist(a, t) + Dist(t, u) <= f
    PROVE  /\ Dist(a, NextUsn(u)) <= f + 1
           /\ Dist(a, t) + Dist(t, NextUsn(u)) <= f + 1
           /\ f < MaxFaults => NextUsn(u) # a /\ NextUsn(u) # t
<1>1. /\ Dist(a, t) \in Nat /\ Dist(t, u) \in Nat /\ Dist(a, u) \in Nat
      /\ NextUsn(u) \in Usns /\ Dist(a, NextUsn(u)) \in Nat /\ Dist(t, NextUsn(u)) \in Nat
  BY Zenon, DistFacts, NextUsnType
<1>2. Dist(a, u) <= Dist(a, t) + Dist(t, u)
  BY Zenon, DistFacts
<1>3. Dist(t, NextUsn(u)) <= Dist(t, u) + 1 /\ Dist(a, NextUsn(u)) <= Dist(a, u) + 1
  BY Zenon, DistFacts
<1>4. f < MaxFaults => Dist(a, u) + 1 < UsnModulus - 2 /\ Dist(t, u) + 1 < UsnModulus - 2
  BY <1>1, <1>2, FixAssumption, MstAssumption, FaultAssumption
<1>. QED
  BY <1>1, <1>2, <1>3, <1>4, NoWrap

\* A mixture of a consistent record and a new one, whose number is not in the
\* old one, is consistent.
LEMMA MixedConsistent ==
    ASSUME NEW old, NEW new, NEW r, Mixed(old, new, r), Consistent(old), OneVersion(new),
           \A s \in Sectors : new.tail[s] = new.usn /\ old.tail[s] # new.usn
    PROVE  Consistent(r)
BY DEF Mixed, Consistent, OneVersion

\* A consistent record that can be read is one version.
LEMMA UsableIsWhole ==
    ASSUME NEW r \in Rec, Stored(r) \/ Overwritten(r), Consistent(r), Usable(r)
    PROVE  OneVersion(r) /\ Stored(r) /\ Complete(r)
BY ReadFacts DEF Complete, Consistent, OneVersion

\* The number of every sector on the disk, and of the records in memory, is
\* usable.
LEMMA NumberTypes ==
    ASSUME Layout, NEW i \in Records, NEW s \in Sectors
    PROVE  /\ mirr[i].tail[s] \in Usns /\ core[i].usn \in Usns /\ buf.usn \in Usns
           /\ buf.tail[s] = buf.usn
           /\ Stored(mft[i]) => mft[i].tail[s] \in Usns /\ mft[i].usn \in Usns
           /\ VolumeOpen => Stored(mft[i])
           /\ faults \in Nat
BY FixAssumption DEF Layout, DiskLayout, MemoryLayout, VolumeOpen, Stored, Proper, Complete

\* Giving a mounted volume up keeps the bound.
LEMMA GapClosed ==
    ASSUME Layout, NEW i \in Records, VolumeOpen, MountedGap(i), NEW s \in Sectors, Usable(mft[i])
    PROVE  Dist(mirr[i].tail[s], mft[i].usn) <= faults
<1>1. 1 \in Sectors /\ mft[i] \in Rec
  BY MstAssumption DEF Sectors, Layout, DiskLayout
<1>2. Stored(mft[i]) /\ mft[i].tail[1] = mft[i].usn
  BY Zenon, <1>1, NumberTypes, ReadFacts DEF Complete
<1>3. Dist(mirr[i].tail[s], mft[i].tail[1]) + Dist(mft[i].tail[1], core[i].usn) <= faults
  BY Zenon, <1>1 DEF MountedGap
<1>4. Dist(mirr[i].tail[s], mft[i].usn) \in Nat /\ Dist(mft[i].usn, core[i].usn) \in Nat /\ faults \in Nat
  BY Zenon, <1>2, NumberTypes, DistFacts
<1>. QED
  BY <1>2, <1>3, <1>4

\* A step without a write keeps the numbers: a mount starts from copies that
\* agree.
LEMMA QuietNumbers ==
    ASSUME Layout, Numbers, Quiet
    PROVE  Numbers'
<1>. USE Zenon
<1>. USE DEF Quiet
<1>1. faults \in Nat /\ faults' \in Nat /\ faults <= faults'
  BY SMT, FixAssumption DEF Layout, DiskLayout
<1>2. \A i \in Records : Consistent(mft'[i]) /\ Consistent(mirr'[i])
  BY DEF Numbers
<1>3. OneVersion(buf') /\ Sequence'
  BY BlankFacts DEF Numbers, Sequence
<1>4. CASE ~VolumeOpen'
  <2>1. \A i \in Records : OneVersion(core'[i])
    BY <1>4, BlankFacts DEF Numbers, VolumeOpen
  <2>2. ASSUME NEW i \in Records, NEW s \in Sectors, Usable(mft[i])
        PROVE  Dist(mirr[i].tail[s], mft[i].usn) <= faults'
    <3>1. mft[i] \in Rec /\ Stored(mft[i])
      BY <2>2, ReadFacts DEF Layout, DiskLayout
    <3>2. Dist(mirr[i].tail[s], mft[i].usn) \in Nat
      BY <3>1, NumberTypes, DistFacts
    <3>3. CASE InMirr /\ i = cur
      <4>1. Gap(i) /\ mft[cur] = buf /\ faults' = faults + 1
        BY <3>3 DEF Numbers, Layout, MemoryLayout
      <4>2. Dist(mirr[cur].tail[s], buf.usn) <= faults + 1
        BY <3>3, <4>1 DEF Gap, WriteGap
      <4>. QED
        BY <3>3, <4>1, <4>2
    <3>4. CASE ~(InMirr /\ i = cur) /\ VolumeOpen
      <4>1. MountedGap(i)
        BY <3>4 DEF Numbers, Gap
      <4>. QED
        BY SMT, <1>1, <2>2, <3>2, <3>4, <4>1, GapClosed
    <3>5. CASE ~(InMirr /\ i = cur) /\ ~VolumeOpen
      <4>1. ClosedGap(i)
        BY <3>5 DEF Numbers, Gap
      <4>. QED
        BY SMT, <1>1, <2>2, <3>2, <4>1 DEF ClosedGap
    <3>. QED
      BY <3>3, <3>4, <3>5
  <2>3. \A i \in Records : Gap(i)'
    BY <1>4, <2>2 DEF Gap, ClosedGap, Usable
  <2>. QED
    BY <1>2, <1>3, <2>1, <2>3 DEF Numbers
<1>5. CASE VolumeOpen'
  <2>1. \A i \in Records : MirrorMatches(i) /\ core'[i] = Read(mft[i])
    BY <1>5
  <2>2. ASSUME NEW i \in Records
        PROVE  OneVersion(core'[i]) /\ MountedGap(i)'
    <3>1. mft[i] \in Rec /\ mirr[i] \in Rec /\ Consistent(mft[i]) /\ Stored(mirr[i])
          /\ (Stored(mft[i]) \/ Overwritten(mft[i]))
      BY DEF Numbers, Layout, DiskLayout
    <3>2. Usable(mft[i]) /\ Usable(mirr[i]) /\ mft[i].usn = mirr[i].usn
      BY SMT, <2>1, <3>1, ReadFacts DEF MirrorMatches, Usable
    <3>3. OneVersion(mft[i]) /\ Stored(mft[i]) /\ Complete(mft[i]) /\ Complete(mirr[i])
      BY <3>1, <3>2, UsableIsWhole, ReadFacts
    <3>4. core'[i].usn = mft[i].usn /\ core'[i].body = mft[i].body
      BY <2>1, <3>1, ReadFacts
    <3>5. ASSUME NEW s \in Sectors, NEW t \in Sectors
          PROVE  Dist(mirr[i].tail[s], mft[i].tail[t]) + Dist(mft[i].tail[t], core'[i].usn) <= faults'
      <4>1. mirr[i].tail[s] = mft[i].usn /\ mft[i].tail[t] = mft[i].usn /\ mft[i].usn \in Usns
        BY <3>2, <3>3 DEF Complete, Stored, Proper
      <4>2. Dist(mft[i].usn, mft[i].usn) = 0
        BY <4>1, DistFacts
      <4>. QED
        BY SMT, <1>1, <3>4, <4>1, <4>2
    <3>. QED
      BY <3>3, <3>4, <3>5 DEF OneVersion, MountedGap
  <2>. QED
    BY <1>2, <1>3, <1>5, <2>2 DEF Numbers, Gap
<1>. QED
  BY <1>4, <1>5

\* The write of a record begins with the next number.
LEMMA BeginNumbers ==
    ASSUME Layout, Numbers, NEW i \in Records, BeginWrite(i)
    PROVE  Numbers'
<1>. USE Zenon
<1>1. UNCHANGED <<mft, mirr, core, faults>> /\ ~InMirr /\ ~InMirr' /\ (VolumeOpen' <=> VolumeOpen)
  BY DEF BeginWrite, disk, InMirr, VolumeOpen
<1>2. \A j \in Records : Gap(j)'
  BY Zenon, <1>1 DEF Numbers, Gap, MountedGap, ClosedGap, Usable
<1>3. Sequence'
  BY <1>1 DEF BeginWrite, Sequence, Rewritten, InMft
<1>4. OneVersion(buf')
  <2>1. CASE Rewritten(core[i], buf')
    BY <2>1 DEF Rewritten, Numbers
  <2>2. CASE Usable(mft[i]) /\ Rewritten(mft[i], buf')
    BY <2>2, UsableIsWhole DEF Rewritten, Numbers, Layout, DiskLayout
  <2>. QED
    BY <2>1, <2>2 DEF BeginWrite, SelfLocated
<1>. QED
  BY Zenon, <1>1, <1>2, <1>3, <1>4 DEF Numbers

\* What the write in progress may mix: its number is in no sector of a copy.
LEMMA WriteNumbers ==
    ASSUME Layout, Numbers, InMft, NEW s \in Sectors
    PROVE  /\ Dist(mirr[cur].tail[s], buf.usn) <= faults + 1
           /\ faults < MaxFaults => mirr[cur].tail[s] # buf.usn /\ mft[cur].tail[s] # buf.usn
           /\ \A t \in Sectors :
                 Dist(mirr[cur].tail[s], mft[cur].tail[t]) + Dist(mft[cur].tail[t], buf.usn) <= faults + 1
<1>. USE Zenon
<1>. DEFINE a == mirr[cur].tail[s]
            u == IF pc = "updateMft" THEN core[cur].usn ELSE mft[cur].usn
<1>1. cur \in Records /\ Gap(cur) /\ ~InMirr /\ buf.usn = NextUsn(u) /\ faults \in Nat
  BY NumberTypes DEF Numbers, Sequence, InMft, InMirr, Layout, MemoryLayout
<1>2. Stored(mft[cur]) /\ a \in Usns /\ u \in Usns
      /\ \A t \in Sectors : /\ mft[cur].tail[t] \in Usns
                            /\ Dist(a, mft[cur].tail[t]) + Dist(mft[cur].tail[t], u) <= faults
  <2>1. CASE pc = "updateMft"
    BY Zenon, <1>1, <2>1, NumberTypes DEF Gap, MountedGap, VolumeOpen
  <2>2. CASE pc # "updateMft"
    <3>1. Usable(mft[cur]) /\ ~VolumeOpen /\ mft[cur] \in Rec
      BY <1>1, <2>2 DEF InMft, VolumeOpen, Layout, MemoryLayout, DiskLayout
    <3>2. Stored(mft[cur]) /\ Complete(mft[cur])
      BY <1>1, <3>1, ReadFacts DEF Layout, DiskLayout
    <3>3. Dist(a, mft[cur].usn) <= faults /\ mft[cur].usn \in Usns
      BY <1>1, <3>1, <3>2 DEF Gap, ClosedGap, Stored, Proper
    <3>4. Dist(mft[cur].usn, mft[cur].usn) = 0 /\ a \in Usns /\ Dist(a, mft[cur].usn) \in Nat
      BY <1>1, <3>3, NumberTypes, DistFacts
    <3>. QED
      BY SMT, <1>1, <2>2, <3>2, <3>3, <3>4 DEF Complete, Stored
  <2>. QED
    BY <2>1, <2>2
<1>. HIDE DEF a, u
<1>3. \A t \in Sectors :
         /\ Dist(a, NextUsn(u)) <= faults + 1
         /\ Dist(a, mft[cur].tail[t]) + Dist(mft[cur].tail[t], NextUsn(u)) <= faults + 1
         /\ faults < MaxFaults => NextUsn(u) # a /\ NextUsn(u) # mft[cur].tail[t]
  BY <1>1, <1>2, NumberIsNew
<1>. QED
  BY <1>1, <1>3 DEF a

\* The record in memory after a write: the written one, deprotected.
LEMMA CoreAfterWrite ==
    ASSUME Layout, WriteMirr \/ WriteMftFails \/ WriteMirrFails
    PROVE  IF VolumeOpen'
           THEN /\ VolumeOpen /\ core'[cur].usn = buf.usn /\ core'[cur].body = buf.body
                /\ \A i \in Records \ {cur} : core'[i] = core[i]
           ELSE \A i \in Records : core'[i] \in {core[i], Blank}
<1>. USE Zenon
<1>1. cur \in Records /\ core \in [Records -> Rec] /\ buf \in Rec
  BY DEF WriteMirr, WriteMftFails, WriteMirrFails, Layout, MemoryLayout
<1>2. \/ Leave
      \/ \E next, at : EndWrite(next, at) /\ (next = "mounted" <=> VolumeOpen) /\ (next = "mounted" <=> VolumeOpen')
  BY DEF WriteMirr, WriteMftFails, WriteMirrFails, InMft, InMirr, FailWrite, EndWrite, VolumeOpen
<1>3. CASE Leave
  BY <1>3 DEF Leave, VolumeOpen
<1>4. CASE ~Leave
  <2>1. /\ VolumeOpen <=> VolumeOpen'
        /\ core' = IF pc \in {"updateMft", "updateMirr"}
                   THEN [core EXCEPT ![cur] = ntfs_mst_post_write_fixup(buf)] ELSE core
    BY <1>2, <1>4 DEF EndWrite
  <2>2. VolumeOpen => pc \in {"updateMft", "updateMirr"}
    BY DEF VolumeOpen, WriteMirr, WriteMftFails, WriteMirrFails, InMft, InMirr
  <2>3. ~VolumeOpen => core' = core
    BY <2>1 DEF VolumeOpen
  <2>. QED
    BY <1>1, <2>1, <2>2, <2>3, PostWriteFacts
<1>. QED
  BY <1>3, <1>4

\* The record in memory stays one version.
LEMMA CoreVersions ==
    ASSUME Layout, Numbers, WriteMirr \/ WriteMftFails \/ WriteMirrFails, buf' = Blank
    PROVE  OneVersion(buf') /\ \A i \in Records : OneVersion(core'[i])
BY CoreAfterWrite, BlankFacts DEF Numbers, OneVersion

\* $MFT is written: $MFTMirr is one write further behind.
LEMMA WriteMftNumbers ==
    ASSUME Layout, Numbers, WriteMft
    PROVE  Numbers'
<1>. USE Zenon
<1>1. /\ cur \in Records /\ mft'[cur] = buf /\ InMft /\ InMirr' /\ ~InMft' /\ ~InMirr
      /\ (VolumeOpen <=> VolumeOpen') /\ \A i \in Records \ {cur} : mft'[i] = mft[i]
  BY WriteMftFacts DEF InMft, InMirr
<1>2. UNCHANGED <<mirr, cur, buf, core, faults>>
  BY DEF WriteMft
<1>3. WriteGap'
  BY <1>1, <1>2, WriteNumbers DEF WriteGap
<1>4. ASSUME NEW i \in Records, i # cur PROVE Gap(i)'
  BY <1>1, <1>2, <1>4 DEF Numbers, Gap, MountedGap, ClosedGap, Usable
<1>5. \A i \in Records : Gap(i)'
  BY Zenon, <1>1, <1>2, <1>3, <1>4 DEF Gap
<1>6. \A i \in Records : Consistent(mft'[i])
  BY SMTT(30), <1>1 DEF Numbers, OneVersion, Consistent
<1>. QED
  BY <1>1, <1>2, <1>5, <1>6 DEF Numbers, Sequence

\* $MFTMirr is written: the two copies agree.
LEMMA WriteMirrNumbers ==
    ASSUME Layout, Numbers, WriteMirr
    PROVE  Numbers'
<1>1. /\ cur \in Records /\ mirr'[cur] = buf /\ mft[cur] = buf /\ InMirr /\ ~InMirr' /\ ~InMft'
      /\ (VolumeOpen <=> VolumeOpen') /\ buf' = Blank
      /\ \A i \in Records \ {cur} : mirr'[i] = mirr[i]
  BY Zenon, WriteMirrFacts
<1>2. UNCHANGED <<mft, faults>>
  BY Zenon DEF WriteMirr
<1>3. ASSUME NEW i \in Records, i = cur PROVE Gap(i)'
  <2>1. /\ buf.usn \in Usns /\ faults \in Nat /\ Dist(buf.usn, buf.usn) = 0
        /\ \A s \in Sectors : buf.tail[s] = buf.usn
    BY <1>1, MstAssumption, FixAssumption, DistFacts
    DEF Layout, DiskLayout, MemoryLayout, Complete, Stored, Proper
  <2>2. VolumeOpen' => core'[cur].usn = buf.usn
    BY Zenon, CoreAfterWrite
  <2>3. \A s, t \in Sectors : VolumeOpen' =>
           Dist(mirr'[cur].tail[s], mft'[cur].tail[t]) + Dist(mft'[cur].tail[t], core'[cur].usn) <= faults'
    BY <1>1, <1>2, <2>1, <2>2
  <2>4. \A s \in Sectors : Dist(mirr'[cur].tail[s], mft'[cur].usn) <= faults'
    BY <1>1, <1>2, <2>1
  <2>. QED
    BY Zenon, <1>1, <1>3, <2>3, <2>4 DEF Gap, MountedGap, ClosedGap
<1>4. ASSUME NEW i \in Records, i # cur PROVE Gap(i)'
  BY Zenon, <1>1, <1>2, <1>4, CoreAfterWrite DEF Numbers, Gap, MountedGap, ClosedGap, Usable
<1>5. \A i \in Records : Consistent(mirr'[i])
  BY <1>1 DEF Numbers, OneVersion, Consistent
<1>6. \A i \in Records : Gap(i)'
  BY Zenon, <1>3, <1>4
<1>. QED
  BY Zenon, <1>1, <1>2, <1>5, <1>6, CoreVersions DEF Numbers, Sequence

\* The records that a failing write is not about.
LEMMA OtherGaps ==
    ASSUME Layout, Numbers, WriteMftFails \/ WriteMirrFails, ~InMirr',
           faults' = faults + 1, VolumeOpen' => VolumeOpen,
           NEW i \in Records, i # cur, mft'[i] = mft[i], mirr'[i] = mirr[i]
    PROVE  Gap(i)'
<1>. USE Zenon
<1>1. Gap(i) /\ faults \in Nat
  BY SMT, FixAssumption DEF Numbers, Layout, DiskLayout
<1>2. CASE VolumeOpen'
  <2>1. MountedGap(i) /\ core'[i] = core[i]
    BY <1>1, <1>2, CoreAfterWrite DEF Gap
  <2>2. ASSUME NEW s \in Sectors, NEW t \in Sectors
        PROVE  Dist(mirr[i].tail[s], mft[i].tail[t]) + Dist(mft[i].tail[t], core[i].usn) <= faults + 1
    <3>1. mirr[i].tail[s] \in Usns /\ mft[i].tail[t] \in Usns /\ core[i].usn \in Usns
      BY <1>2, NumberTypes
    <3>2. Dist(mirr[i].tail[s], mft[i].tail[t]) \in Nat /\ Dist(mft[i].tail[t], core[i].usn) \in Nat
      BY <3>1, DistFacts
    <3>3. Dist(mirr[i].tail[s], mft[i].tail[t]) + Dist(mft[i].tail[t], core[i].usn) <= faults
      BY <2>1 DEF MountedGap
    <3>. QED
      BY SMT, <1>1, <3>2, <3>3
  <2>. QED
    BY <1>2, <2>1, <2>2 DEF Gap, MountedGap
<1>3. CASE ~VolumeOpen'
  <2>1. ASSUME Usable(mft[i]), NEW s \in Sectors PROVE Dist(mirr[i].tail[s], mft[i].usn) <= faults + 1
    <3>1. mft[i].usn \in Usns /\ mirr[i].tail[s] \in Usns
      BY <2>1, NumberTypes, ReadFacts DEF Layout, DiskLayout
    <3>2. Dist(mirr[i].tail[s], mft[i].usn) \in Nat
      BY <3>1, DistFacts
    <3>3. Dist(mirr[i].tail[s], mft[i].usn) <= faults
      BY Zenon, <1>1, <2>1, GapClosed DEF Gap, ClosedGap
    <3>. QED
      BY SMTT(30), <1>1, <3>2, <3>3
  <2>. QED
    BY <1>3, <2>1 DEF Gap, ClosedGap, Usable
<1>. QED
  BY <1>2, <1>3

\* A write to $MFT that fails counts as a fault, and mixes sectors whose
\* numbers differ.
LEMMA WriteMftFailsNumbers ==
    ASSUME Layout, Numbers, WriteMftFails
    PROVE  Numbers'
<1>. USE Zenon
<1>1. /\ cur \in Records /\ Mixed(mft[cur], buf, mft'[cur]) /\ InMft /\ ~InMirr' /\ ~InMft' /\ ~InMirr
      /\ (VolumeOpen' => VolumeOpen) /\ buf' = Blank
      /\ faults < MaxFaults /\ faults' = faults + 1 /\ faults \in Nat
      /\ \A i \in Records \ {cur} : mft'[i] = mft[i]
  BY SMT, WriteMftFailsFacts, FixAssumption DEF InMft, InMirr, Layout, DiskLayout
<1>2. mirr' = mirr
  BY Zenon DEF WriteMftFails
<1>3. \A s \in Sectors : buf.tail[s] = buf.usn /\ mft[cur].tail[s] # buf.usn
  BY Zenon, <1>1, WriteNumbers, NumberTypes
<1>4. \A i \in Records : Consistent(mft'[i])
  <2>1. Consistent(mft'[cur])
    BY Zenon, <1>1, <1>3, MixedConsistent DEF Numbers
  <2>. QED
    BY <1>1, <2>1 DEF Numbers
<1>5. ASSUME NEW s \in Sectors, NEW t \in Sectors
      PROVE  /\ Dist(mirr[cur].tail[s], mft'[cur].tail[t]) + Dist(mft'[cur].tail[t], buf.usn) <= faults'
             /\ Dist(mirr[cur].tail[s], mft'[cur].tail[t]) <= faults'
  <2>1. mft'[cur].tail[t] \in {mft[cur].tail[t], buf.usn}
    BY <1>1, <1>3 DEF Mixed
  <2>2. /\ Dist(mirr[cur].tail[s], buf.usn) <= faults + 1
        /\ Dist(mirr[cur].tail[s], mft[cur].tail[t]) + Dist(mft[cur].tail[t], buf.usn) <= faults + 1
    BY <1>1, WriteNumbers
  <2>3. Stored(mft[cur])
    <3>1. CASE pc = "updateMft"
      BY <1>1, <3>1, NumberTypes DEF VolumeOpen
    <3>2. CASE pc # "updateMft"
      BY Zenon, <1>1, <3>2, ReadFacts DEF InMft, Layout, MemoryLayout, DiskLayout
    <3>. QED
      BY <3>1, <3>2
  <2>4. mirr[cur].tail[s] \in Usns /\ mft[cur].tail[t] \in Usns /\ buf.usn \in Usns
    BY <1>1, <2>3, NumberTypes
  <2>5. /\ Dist(buf.usn, buf.usn) = 0 /\ Dist(mirr[cur].tail[s], buf.usn) \in Nat
        /\ Dist(mirr[cur].tail[s], mft[cur].tail[t]) \in Nat /\ Dist(mft[cur].tail[t], buf.usn) \in Nat
    BY <2>4, DistFacts
  <2>. QED
    BY SMTT(30), <1>1, <2>1, <2>2, <2>5
<1>6. ASSUME NEW i \in Records, i = cur PROVE Gap(i)'
  <2>1. CASE VolumeOpen'
    BY Zenon, <1>1, <1>2, <1>5, <1>6, <2>1, CoreAfterWrite DEF Gap, MountedGap
  <2>2. CASE ~VolumeOpen'
    <3>1. ASSUME Usable(mft'[i]), NEW s \in Sectors PROVE Dist(mirr'[i].tail[s], mft'[i].usn) <= faults'
      <4>1. 1 \in Sectors /\ mft'[i] \in Rec /\ (Stored(mft'[i]) \/ Overwritten(mft'[i]))
        BY SMT, LayoutStep, MstAssumption DEF Next, WriteFails, Layout, DiskLayout, Sectors
      <4>2. mft'[i].tail[1] = mft'[i].usn
        BY <3>1, <4>1, ReadFacts DEF Complete
      <4>. QED
        BY <1>2, <1>5, <1>6, <4>1, <4>2
    <3>. QED
      BY <1>1, <2>2, <3>1 DEF Gap, ClosedGap, Usable
  <2>. QED
    BY Zenon, <2>1, <2>2
<1>7. ASSUME NEW i \in Records, i # cur PROVE Gap(i)'
  BY Zenon, <1>1, <1>2, <1>7, OtherGaps
<1>8. \A i \in Records : Gap(i)'
  BY <1>6, <1>7
<1>. QED
  BY Zenon, <1>1, <1>2, <1>4, <1>8, CoreVersions DEF Numbers, Sequence

\* So does a write to $MFTMirr.
LEMMA WriteMirrFailsNumbers ==
    ASSUME Layout, Numbers, WriteMirrFails
    PROVE  Numbers'
<1>. USE Zenon
<1>1. /\ cur \in Records /\ Mixed(mirr[cur], buf, mirr'[cur]) /\ InMirr /\ ~InMirr' /\ ~InMft'
      /\ (VolumeOpen' => VolumeOpen) /\ buf' = Blank /\ mft[cur] = buf
      /\ faults < MaxFaults /\ faults' = faults + 1 /\ faults \in Nat
      /\ \A i \in Records \ {cur} : mirr'[i] = mirr[i]
  BY SMTT(30), WriteMirrFailsFacts, FixAssumption DEF Layout, DiskLayout
<1>2. mft' = mft
  BY DEF WriteMirrFails
<1>3. \A s \in Sectors : /\ buf.tail[s] = buf.usn /\ mirr[cur].tail[s] # buf.usn
                         /\ Dist(mirr[cur].tail[s], buf.usn) <= faults + 1
  BY ZenonT(40), <1>1, NumberTypes DEF Numbers, Gap, WriteGap
<1>4. \A i \in Records : Consistent(mirr'[i])
  <2>1. Consistent(mirr'[cur])
    BY ZenonT(40), <1>1, <1>3, MixedConsistent DEF Numbers
  <2>. QED
    BY ZenonT(40), <1>1, <2>1 DEF Numbers
<1>5. ASSUME NEW s \in Sectors
      PROVE  Dist(mirr'[cur].tail[s], buf.usn) <= faults' /\ Dist(mirr'[cur].tail[s], buf.usn) \in Nat
             /\ Dist(buf.usn, buf.usn) = 0
  <2>1. mirr'[cur].tail[s] \in {mirr[cur].tail[s], buf.usn}
    BY <1>1, <1>3 DEF Mixed
  <2>2. mirr[cur].tail[s] \in Usns /\ buf.usn \in Usns
    BY <1>1, NumberTypes
  <2>3. Dist(buf.usn, buf.usn) = 0 /\ Dist(mirr[cur].tail[s], buf.usn) \in Nat
    BY <2>2, DistFacts
  <2>4. Dist(mirr[cur].tail[s], buf.usn) <= faults + 1 /\ 0 <= faults + 1 /\ faults' = faults + 1
    BY SMT, <1>1, <1>3
  <2>5. CASE mirr'[cur].tail[s] = mirr[cur].tail[s]
    BY <2>3, <2>4, <2>5
  <2>6. CASE mirr'[cur].tail[s] = buf.usn
    <3>1. 0 \in Nat
      OBVIOUS
    <3>. QED
      BY <2>3, <2>4, <2>6, <3>1
  <2>. QED
    BY <2>1, <2>5, <2>6
<1>6. ASSUME NEW i \in Records, i = cur PROVE Gap(i)'
  <2>1. CASE VolumeOpen'
    <3>1. ASSUME NEW s \in Sectors, NEW t \in Sectors
          PROVE  Dist(mirr'[i].tail[s], mft'[i].tail[t]) + Dist(mft'[i].tail[t], core'[i].usn) <= faults'
      BY SMTT(30), <1>1, <1>2, <1>3, <1>5, <1>6, <2>1, CoreAfterWrite
    <3>. QED
      BY Zenon, <1>1, <2>1, <3>1 DEF Gap, MountedGap
  <2>2. CASE ~VolumeOpen'
    BY Zenon, <1>1, <1>2, <1>5, <1>6, <2>2 DEF Gap, ClosedGap
  <2>. QED
    BY <2>1, <2>2
<1>7. ASSUME NEW i \in Records, i # cur PROVE Gap(i)'
  BY <1>1, <1>2, <1>7, OtherGaps
<1>8. \A i \in Records : Gap(i)'
  BY <1>6, <1>7
<1>. QED
  BY Zenon, <1>1, <1>2, <1>4, <1>8, CoreVersions DEF Numbers, Sequence

\* A record that the protection lets through was not put together from two
\* writes, however many writes were interrupted (fewer than there are update
\* sequence numbers), on $MFT or on $MFTMirr.
THEOREM ReadRecordsAreWhole == Spec => []ReadIsWhole
<1>1. Init => Numbers
  <2>. SUFFICES ASSUME Init PROVE Numbers
    BY Zenon
  <2>1. pc = "closed" /\ buf = Blank /\ faults = 0 /\ core = [i \in Records |-> Blank]
    BY Zenon DEF Init
  <2>2. ASSUME NEW i \in Records
        PROVE  Consistent(mft[i]) /\ Consistent(mirr[i]) /\ OneVersion(core[i]) /\ Gap(i)
    <3>1. OneVersion(core[i])
      BY Zenon, <2>1, BlankFacts
    <3>2. Consistent(mft[i]) /\ Consistent(mirr[i])
      BY Zenon, InitialFacts DEF OneVersion, Consistent
    <3>3. mirr[i].usn \in Usns /\ mft[i].usn = mirr[i].usn /\ \A s \in Sectors : mirr[i].tail[s] = mirr[i].usn
      BY Zenon, InitialFacts DEF DiskLayout, Stored, Proper, Complete
    <3>4. Dist(mirr[i].usn, mirr[i].usn) = 0
      BY Zenon, <3>3, DistFacts
    <3>. QED
      BY <2>1, <3>1, <3>2, <3>3, <3>4 DEF Gap, ClosedGap, InMirr, VolumeOpen
  <2>. QED
    BY Zenon, <2>1, <2>2, BlankFacts DEF Numbers, Sequence, InMft
<1>2. ASSUME Layout, Numbers, [Next]_vars PROVE Numbers'
  <2>1. CASE UNCHANGED vars
    BY Zenon, <1>2, <2>1 DEF vars, disk, Numbers, Sequence, Gap, WriteGap, MountedGap, ClosedGap, Usable,
                      InMft, InMirr, VolumeOpen
  <2>. QED
    BY Zenon, <1>2, <2>1, RecordSteps, QuietNumbers, BeginNumbers, WriteMftNumbers, WriteMirrNumbers,
       WriteMftFailsNumbers, WriteMirrFailsNumbers
<1>3. Layout /\ Numbers => ReadIsWhole
  <2>. SUFFICES ASSUME Layout, Numbers PROVE ReadIsWhole
    BY Zenon
  <2>1. TypeOK
    BY Zenon DEF TypeOK, Layout, DiskLayout, MemoryLayout
  <2>. QED
    BY Zenon, <2>1, UsableIsWhole DEF ReadIsWhole, Layout, DiskLayout, Numbers
<1>. QED
  BY <1>1, <1>2, <1>3, LayoutInvariance, PTL DEF Spec

-----------------------------------------------------------------------------
(* The dirty flag.                                                         *)

AllDirty(r) == \A s \in Sectors : "dirty" \in r.body[s].flags

Journalled == \E c \in 1 .. Chunks : journal[c]

\* Once the journal is being emptied the flag is in every sector of $Volume,
\* in the record in memory, and in what is about to be written over it.
DirtyFlag ==
    /\ pc \in {"dirtyMft", "dirtyMirr"} => AllDirty(buf)
    /\ Journalled \/ pc = "journal" =>
          /\ AllDirty(mft[VolumeRecord])
          /\ VolumeOpen => AllDirty(core[VolumeRecord])
          /\ InMft /\ cur = VolumeRecord => AllDirty(buf)

\* Only empty_journal fills the journal, and only set_dirty_flag gets there.
LEMMA JournalStep ==
    ASSUME Layout, Next, Journalled' \/ pc' = "journal"
    PROVE  Journalled \/ pc = "journal" \/ (WriteMirr /\ pc = "dirtyMirr")
<1>. USE Zenon
<1>1. CASE pc = "journal"
  BY <1>1
<1>2. CASE pc # "journal"
  <2>1. UNCHANGED journal
    BY <1>2 DEF Next, Repair, WriteFails, vars, disk, OpenVolume, Startup, TryFixBoot, FixSelfLocated,
        SwapRecords, FixMftMirr, FixUpcase, SetDirtyFlag, EmptyJournal, Remount, CheckAlternateBoot,
        WriteMft, WriteMirr, Update, Close, PowerLoss, FixMountFault, ResetMachine, WriteMftFails, WriteMirrFails,
        TryFixBootFails, FixSelfLocatedFails, SwapRecordsFails, FixUpcaseFails,
        EmptyJournalFails, CheckAlternateBootFails
  <2>2. pc' = "journal" => WriteMirr /\ pc = "dirtyMirr"
    BY <1>2 DEF Next, Repair, WriteFails, disk, OpenVolume, Startup, TryFixBoot, FixSelfLocated,
        SwapRecords, FixMftMirr, FixUpcase, SetDirtyFlag, EmptyJournal, Remount, CheckAlternateBoot,
        WriteMft, WriteMirr, Update, Close, PowerLoss, FixMountFault, ResetMachine, WriteMftFails, WriteMirrFails,
        TryFixBootFails, FixSelfLocatedFails, SwapRecordsFails, FixUpcaseFails,
        EmptyJournalFails, CheckAlternateBootFails, StartWrite, Leave, Goto, Mounted, NextBoot,
        EndWrite, FailWrite, AfterMft, InMft, InMirr
  <2>. QED
    BY Zenon, <2>1, <2>2 DEF Journalled
<1>. QED
  BY <1>1, <1>2

\* No step takes the flag out of $Volume once the journal is being emptied.
LEMMA DirtyFlagStep ==
    ASSUME Layout, Versions, DirtyFlag, [Next]_vars
    PROVE  DirtyFlag'
<1>. USE Zenon
<1>. DEFINE V == VolumeRecord
<1>0. V \in Records /\ V # 0 /\ mft[V] \in Rec
  BY FixAssumption DEF Layout, DiskLayout
<1>1. CASE UNCHANGED vars
  BY <1>1 DEF DirtyFlag, AllDirty, Journalled, vars, disk, InMft, VolumeOpen
<1>2. CASE Next /\ Quiet
  <2>1. UNCHANGED mft /\ ~InMft' /\ ~InMirr'
    BY <1>2 DEF Quiet
  <2>2. VolumeOpen' => core'[V].body = mft[V].body
    BY <1>0, <1>2, ReadFacts DEF Quiet
  <2>3. Journalled' \/ pc' = "journal" => AllDirty(mft[V])
    <3>1. Journalled' \/ pc' = "journal" => Journalled \/ pc = "journal" \/ AllDirty(mft[V])
      <4>1. WriteMirr /\ pc = "dirtyMirr" => AllDirty(mft[V])
        BY WriteMirrFacts DEF DirtyFlag, Layout, MemoryLayout
      <4>. QED
        BY Zenon, <1>2, <4>1, JournalStep
    <3>. QED
      BY <3>1 DEF DirtyFlag
  <2>. QED
    BY <2>1, <2>2, <2>3 DEF DirtyFlag, AllDirty, InMft, InMirr
<1>3. ASSUME NEW i \in Records, BeginWrite(i) PROVE DirtyFlag'
  <2>1. UNCHANGED <<mft, journal, core>> /\ pc' # "journal" /\ pc' # "dirtyMirr" /\ cur' = i
        /\ (VolumeOpen' <=> VolumeOpen)
    BY Zenon, <1>3 DEF BeginWrite, disk, VolumeOpen
  <2>2. pc' = "dirtyMft" => AllDirty(buf')
    BY Zenon, <1>3 DEF BeginWrite, AllDirty
  <2>3. Journalled /\ i = V => AllDirty(buf')
    BY Zenon, <1>0, <1>3 DEF BeginWrite, AllDirty, DirtyFlag, VolumeOpen
  <2>. QED
    BY Zenon, <2>1, <2>2, <2>3 DEF DirtyFlag, Journalled
<1>4. CASE WriteMft
  <2>1. UNCHANGED <<buf, cur, core, journal>> /\ pc' # "journal" /\ (pc' = "dirtyMirr" => pc = "dirtyMft")
    BY <1>4 DEF WriteMft, AfterMft, InMft
  <2>2. Journalled => AllDirty(mft'[V])
    BY <1>0, <1>4, WriteMftFacts DEF DirtyFlag
  <2>. QED
    BY <1>4, <2>1, <2>2, WriteMftFacts DEF DirtyFlag, Journalled, InMft, InMirr
<1>5. CASE WriteMirr
  <2>1. UNCHANGED <<mft, journal>> /\ mft[cur] = buf /\ ~InMft' /\ ~InMirr'
    BY <1>5, WriteMirrFacts DEF WriteMirr
  <2>2. Journalled \/ pc' = "journal" => AllDirty(mft[V])
    BY <1>5, <2>1 DEF WriteMirr, EndWrite, InMirr, DirtyFlag, Layout, MemoryLayout
  <2>3. VolumeOpen' => pc' # "journal" /\ (AllDirty(mft[V]) /\ Journalled => AllDirty(core'[V]))
    <3>1. VolumeOpen' => \/ core'[V].body = mft[V].body
                         \/ VolumeOpen /\ core'[V] = core[V]
      BY <1>0, <1>5, <2>1, CoreAfterWrite
    <3>. QED
      BY <3>1 DEF AllDirty, DirtyFlag, VolumeOpen
  <2>. QED
    BY <2>1, <2>2, <2>3 DEF DirtyFlag, Journalled, InMft, InMirr
<1>6. CASE WriteMftFails
  <2>1. UNCHANGED journal /\ ~InMft' /\ ~InMirr' /\ pc' # "journal"
    BY <1>6, WriteMftFailsFacts DEF WriteMftFails, FailWrite, EndWrite, Leave
  <2>2. Journalled => AllDirty(mft'[V])
    BY <1>0, <1>6, WriteMftFailsFacts DEF Mixed, AllDirty, DirtyFlag
  <2>3. Journalled /\ VolumeOpen' => AllDirty(core'[V])
    <3>1. VolumeOpen' => VolumeOpen /\ ((V = cur /\ core'[V].body = buf.body) \/ core'[V] = core[V])
      BY <1>0, <1>6, CoreAfterWrite
    <3>. QED
      BY <1>6, <3>1, WriteMftFailsFacts DEF AllDirty, DirtyFlag
  <2>. QED
    BY <2>1, <2>2, <2>3 DEF DirtyFlag, Journalled, InMft, InMirr
<1>7. CASE WriteMirrFails
  <2>1. UNCHANGED <<mft, journal>> /\ ~InMft' /\ ~InMirr' /\ pc' # "journal" /\ mft[cur] = buf
    BY <1>7, WriteMirrFailsFacts DEF WriteMirrFails, FailWrite, EndWrite, Leave
  <2>2. Journalled /\ VolumeOpen' => AllDirty(core'[V])
    <3>1. VolumeOpen' => VolumeOpen /\ (core'[V].body = mft[V].body \/ core'[V] = core[V])
      BY <1>0, <1>7, <2>1, CoreAfterWrite
    <3>. QED
      BY <1>7, <3>1 DEF AllDirty, DirtyFlag
  <2>. QED
    BY Zenon, <2>1, <2>2 DEF DirtyFlag, Journalled, InMft, InMirr
<1>. QED
  BY <1>1, <1>2, <1>3, <1>4, <1>5, <1>6, <1>7, RecordSteps

\* The journal is emptied only when every sector of $Volume says that the
\* volume has to be checked, and nothing takes that back.
THEOREM DirtyIsSetBeforeJournal == Spec => []DirtyBeforeJournal
<1>1. Init => DirtyFlag
  BY Zenon DEF Init, InitialDisk, DirtyFlag, Journalled
<1>2. Layout /\ Versions /\ DirtyFlag /\ [Next]_vars => DirtyFlag'
  BY Zenon, DirtyFlagStep
<1>3. DirtyFlag => DirtyBeforeJournal
  BY Zenon DEF DirtyFlag, DirtyBeforeJournal, Journalled, AllDirty
<1>. QED
  BY <1>1, <1>2, <1>3, LayoutInvariance, VersionsInvariance, PTL DEF Spec

-----------------------------------------------------------------------------
(* The second part of the runlist of $MFT.                                 *)

\* While the move of the second part is under way, one of the two records is
\* known to hold it.
Held ==
    /\ pc \in {"listMft", "listMirr", "spare"} => extent.high = "extent"
    /\ pc = "high" => extent.spare = "extent"

NoExtent == extent.high = "free" /\ extent.spare = "free"

NoList(r) == \A s \in Sectors : r.body[s].list = "none"

\* When neither record holds it nothing refers to it, in $MFT, in the record
\* in memory, or in what is about to be written over $MFT.
NoReference ==
    NoExtent =>
        /\ extent.list = "none"
        /\ NoList(mft[0])
        /\ VolumeOpen => NoList(core[0])
        /\ InMft /\ cur = 0 => NoList(buf)

\* The second part is in one of the records until the move is over, and no
\* step that ends with neither holding it began with one of them holding it.
LEMMA ExtentStep ==
    ASSUME Layout, Held, [Next]_vars
    PROVE  Held' /\ (NoExtent' => NoExtent /\ UNCHANGED extent)
<1>. USE Zenon
<1>. extent \in Extent
  BY DEF Layout, DiskLayout
<1>1. CASE FixSelfLocated \/ FixSelfLocatedFails
  BY <1>1 DEF FixSelfLocated, FixSelfLocatedFails, Held, NoExtent, SelfLocated, StartWrite, Leave, Goto,
      disk, Extent
<1>2. CASE SwapRecords \/ SwapRecordsFails
  BY <1>2 DEF SwapRecords, SwapRecordsFails, Swap, Held, NoExtent, Leave, Goto, Extent
<1>3. CASE ~(FixSelfLocated \/ FixSelfLocatedFails \/ SwapRecords \/ SwapRecordsFails)
  <2>1. UNCHANGED extent
    BY ZenonT(40), <1>3 DEF Next, Repair, WriteFails, vars, disk, OpenVolume, Startup, TryFixBoot, FixMftMirr,
        FixUpcase, SetDirtyFlag, EmptyJournal, Remount, CheckAlternateBoot, WriteMft, WriteMirr,
        Update, Close, PowerLoss, FixMountFault, ResetMachine, WriteMftFails, WriteMirrFails, TryFixBootFails, FixUpcaseFails,
        EmptyJournalFails, CheckAlternateBootFails
  <2>2. /\ pc' \in {"listMft", "listMirr", "spare"} => pc \in {"listMft", "listMirr", "spare"}
        /\ pc' = "high" => pc = "high"
    BY ZenonT(40), <1>3 DEF Next, Repair, WriteFails, vars, OpenVolume, Startup, TryFixBoot, FixMftMirr,
        FixUpcase, SetDirtyFlag, EmptyJournal, Remount, CheckAlternateBoot, WriteMft, WriteMirr,
        Update, Close, PowerLoss, FixMountFault, ResetMachine, WriteMftFails, WriteMirrFails, TryFixBootFails, FixUpcaseFails,
        EmptyJournalFails, CheckAlternateBootFails, StartWrite, Leave, Goto, Mounted, NextBoot,
        EndWrite, FailWrite, AfterMft, InMft, InMirr
  <2>. QED
    BY Zenon, <2>1, <2>2 DEF Held, NoExtent
<1>. QED
  BY <1>1, <1>2, <1>3

\* Nothing brings a reference back.
LEMMA NoReferenceStep ==
    ASSUME Layout, Held, NoReference, [Next]_vars
    PROVE  NoReference'
<1>. USE Zenon
<1>0. 0 \in Records /\ mft[0] \in Rec /\ VolumeRecord # 0
  BY FixAssumption DEF Records, Layout, DiskLayout
<1>. SUFFICES ASSUME NoExtent'
              PROVE  /\ NoList(mft'[0])
                     /\ VolumeOpen' => NoList(core'[0])
                     /\ InMft' /\ cur' = 0 => NoList(buf')
  BY ExtentStep DEF NoReference, NoList
<1>1. NoExtent /\ UNCHANGED extent /\ NoList(mft[0])
  BY ExtentStep DEF NoReference
<1>2. CASE UNCHANGED vars
  BY <1>1, <1>2 DEF NoReference, NoList, vars, disk, InMft, VolumeOpen
<1>3. CASE Quiet
  <2>1. VolumeOpen' => core'[0].body = mft[0].body
    BY <1>0, <1>3, ReadFacts DEF Quiet
  <2>. QED
    BY <1>1, <1>3, <2>1 DEF Quiet, NoList
<1>4. ASSUME NEW i \in Records, BeginWrite(i)
      PROVE  /\ NoList(mft'[0])
             /\ VolumeOpen' => NoList(core'[0])
             /\ InMft' /\ cur' = 0 => NoList(buf')
  <2>1. UNCHANGED <<mft, core>> /\ cur' = i /\ (VolumeOpen' <=> VolumeOpen)
    BY Zenon, <1>4 DEF BeginWrite, disk, VolumeOpen
  <2>2. i = 0 => NoList(buf')
    BY SMTT(30), <1>0, <1>1, <1>4 DEF BeginWrite, NoReference, NoExtent, NoList, SelfLocated, VolumeOpen
  <2>. QED
    BY Zenon, <1>1, <2>1, <2>2 DEF NoReference
<1>5. CASE WriteMft
  <2>1. NoList(mft'[0])
    BY <1>0, <1>1, <1>5, WriteMftFacts DEF NoReference
  <2>. QED
    BY <1>1, <1>5, <2>1, WriteMftFacts DEF WriteMft, NoReference
<1>6. CASE WriteMirr \/ WriteMirrFails
  <2>1. UNCHANGED mft /\ ~InMft' /\ mft[cur] = buf
    BY ZenonT(40), <1>6, WriteMirrFacts, WriteMirrFailsFacts DEF WriteMirr, WriteMirrFails
  <2>2. VolumeOpen' => VolumeOpen /\ (core'[0].body = mft[0].body \/ core'[0] = core[0])
    BY <1>0, <1>6, <2>1, CoreAfterWrite
  <2>. QED
    BY <1>1, <2>1, <2>2 DEF NoReference, NoList
<1>7. CASE WriteMftFails
  <2>1. NoList(mft'[0])
    BY SMT, <1>0, <1>1, <1>7, WriteMftFailsFacts DEF Mixed, NoReference, NoList
  <2>2. VolumeOpen' => VolumeOpen /\ ((cur = 0 /\ core'[0].body = buf.body) \/ core'[0] = core[0])
    BY <1>0, <1>7, CoreAfterWrite
  <2>. QED
    BY <1>1, <1>7, <2>1, <2>2, WriteMftFailsFacts DEF NoReference, NoList
<1>. QED
  BY <1>2, <1>3, <1>4, <1>5, <1>6, <1>7, RecordSteps

\* Wherever the move of the second part of $MFT is cut short, that part is
\* still in one of the two records, or it never was in either.
THEOREM SecondPartIsKept == Spec => []ExtentKept
<1>1. Init => Held /\ NoReference
  <2>. SUFFICES ASSUME Init PROVE Held /\ NoReference
    BY Zenon
  <2>. PICK d \in Damages, usn \in 1 .. UsnModulus - 2, w \in TailWords, resident \in BOOLEAN :
          InitialDisk(d, usn, w, resident)
    BY Zenon DEF Init
  <2>1. pc = "closed"
    BY Zenon DEF Init
  <2>2. NoExtent => extent.list = "none" /\ NoList(mft[0])
    <3>1. 0 \in Records
      BY Zenon, FixAssumption
    <3>. SUFFICES ASSUME NoExtent PROVE extent.list = "none" /\ NoList(mft[0])
      BY Zenon
    <3>2. d # "selfloc"
      BY Zenon DEF InitialDisk, NoExtent
    <3>3. extent.list = "none" /\ mirr[0] = Whole(usn, w, IF 0 = VolumeRecord THEN {"other"} ELSE {}, "none")
      BY Zenon, <3>1, <3>2 DEF InitialDisk
    <3>4. mft[0].body = mirr[0].body
      <4>1. mft[0] = mirr[0] \/ \E m \in GarbageMagics : mft[0] = Garbage(mirr[0], m)
        BY Zenon, <3>1 DEF InitialDisk, GarbageMagics
      <4>2. \A m \in GarbageMagics : Garbage(mirr[0], m).body = mirr[0].body
        BY Zenon, <3>3 DEF Garbage, Whole
      <4>. QED
        BY Zenon, <4>1, <4>2
    <3>5. ASSUME NEW f PROVE \A s \in Sectors : Whole(usn, w, f, "none").body[s].list = "none"
      BY Zenon DEF Whole
    <3>6. \A s \in Sectors : mirr[0].body[s].list = "none"
      BY Zenon, <3>3, <3>5
    <3>. QED
      BY Zenon, <3>3, <3>4, <3>6 DEF NoList
  <2>. QED
    BY Zenon, <2>1, <2>2 DEF Held, NoReference, VolumeOpen, InMft
<1>2. Layout /\ Held /\ NoReference /\ [Next]_vars => (Held /\ NoReference)'
  BY Zenon, ExtentStep, NoReferenceStep
<1>3. NoReference => ExtentKept
  <2>1. SectorCount \in Sectors
    BY MstAssumption DEF Sectors
  <2>. QED
    BY Zenon, <2>1 DEF NoReference, NoExtent, NoList, ExtentKept
<1>. QED
  BY <1>1, <1>2, <1>3, LayoutInvariance, PTL DEF Spec

-----------------------------------------------------------------------------
(* How far the repair is.                                                  *)

\* The states of the repair after its own startup succeeded.
Started == pc \in {"mirror", "mirrorMft", "mirrorMirr", "upcase", "dirty", "dirtyMft",
                   "dirtyMirr", "journal", "remount"}

Checked(i) == InUse(mft[i]) => MirrorMatches(i)

\* The startup keeps succeeding; the records before the one that fix_mftmirr
\* is at agree with their copies, except $Volume while set_dirty_flag writes
\* it; the table is mended before the flag is set.
Progress ==
    /\ Started => StartupOk
    /\ pc \in {"mirror", "mirrorMft", "mirrorMirr"} => \A i \in Records : i < cur => Checked(i)
    /\ pc \in {"upcase", "dirty", "journal", "remount"} => \A i \in Records : Checked(i)
    /\ pc \in {"dirtyMft", "dirtyMirr"} => \A i \in Records \ {VolumeRecord} : Checked(i)
    /\ pc \in {"dirty", "dirtyMft", "dirtyMirr", "journal", "remount"} => upcase

\* What the checks of the mount depend on.
LEMMA ChecksUnchanged ==
    ASSUME UNCHANGED <<mft, mirr, blocks, extent>>
    PROVE  (StartupOk <=> StartupOk') /\ \A i \in Records : Checked(i) <=> Checked(i)'
BY Zenon DEF StartupOk, MftLoads, AttributeList, Checked, MirrorMatches, Usable

\* A record that is rewritten in $MFT leaves the startup as it was, unless
\* it changes the attribute list of $MFT.
LEMMA StartupKept ==
    ASSUME Layout, StartupOk, NEW c \in Records, DiskLayout', UNCHANGED <<blocks, extent>>,
           \A i \in Records \ {c} : mft'[i] = mft[i],
           Usable(mft'[c]), c = 0 => mft'[0].body = mft[0].body
    PROVE  StartupOk'
<1>. USE Zenon
<1>1. 0 \in Records /\ mft[0] \in Rec /\ mft'[0] \in Rec
  BY Zenon, FixAssumption DEF Layout, DiskLayout
<1>2. Read(mft[0]).body = mft[0].body /\ Read(mft'[0]).body = mft'[0].body
  BY Zenon, <1>1, ReadFacts
<1>3. mft'[0].body = mft[0].body
  BY <1>1
<1>4. AttributeList' = AttributeList
  BY <1>2, <1>3 DEF AttributeList
<1>5. \A i \in SystemRecords : Usable(mft[i])'
  BY Zenon, FixAssumption DEF StartupOk, Usable
<1>. QED
  BY <1>4, <1>5 DEF StartupOk, MftLoads

\* The steps that lead into the repair or on through it.
LEMMA RepairSteps ==
    ASSUME Next, Started'
    PROVE  \/ Startup \/ FixMftMirr \/ FixUpcase \/ SetDirtyFlag \/ EmptyJournal
           \/ WriteMft \/ WriteMirr
BY Zenon DEF Next, Repair, WriteFails, Started, OpenVolume, TryFixBoot, FixSelfLocated, SwapRecords, Remount,
    CheckAlternateBoot, Update, Close, PowerLoss, FixMountFault, ResetMachine, WriteMftFails, WriteMirrFails, TryFixBootFails,
    FixSelfLocatedFails, SwapRecordsFails, FixUpcaseFails, EmptyJournalFails,
    CheckAlternateBootFails, StartWrite, Leave, Goto, Mounted, NextBoot, EndWrite, FailWrite, InMft, InMirr,
    InBoot

\* fix_mftmirr leaves a record that it passes equal to its copy.
LEMMA PassedIsChecked ==
    ASSUME cur \in Records, ~Incomplete(mft[cur]),
           ~(DataSize(Read(mft[cur])) > 0 /\ Read(mft[cur]) # Read(mirr[cur]))
    PROVE  Checked(cur)
BY DEF Incomplete, DataSize, Checked, MirrorMatches, Usable

\* Every step of the repair keeps what was achieved before it.
LEMMA ProgressStep ==
    ASSUME Layout, Layout', Versions, Progress, [Next]_vars
    PROVE  Progress'
<1>. USE Zenon
<1>0. cur \in Nat /\ VolumeRecord \in Records /\ VolumeRecord # 0
  BY FixAssumption DEF Layout, MemoryLayout
<1>1. CASE UNCHANGED vars
  <2>1. UNCHANGED <<mft, mirr, blocks, extent, upcase, pc, cur>>
    BY <1>1 DEF vars, disk
  <2>. QED
    BY <2>1, ChecksUnchanged DEF Progress, Started
<1>2. CASE ~Started'
  BY <1>2 DEF Progress, Started
<1>3. CASE Startup
  <2>1. UNCHANGED <<mft, mirr, blocks, extent>>
    BY <1>3 DEF Startup, disk
  <2>2. Started' => pc' = "mirror" /\ cur' = 0 /\ StartupOk
    BY <1>3 DEF Startup, Started, Leave, Goto
  <2>3. \A i \in Records : ~(i < 0)
    BY SMT DEF Records
  <2>. QED
    BY <2>1, <2>2, <2>3, <1>2, ChecksUnchanged DEF Progress
<1>4. CASE FixMftMirr /\ Started'
  <2>1. UNCHANGED <<mft, mirr, blocks, extent>> /\ pc = "mirror"
    BY Zenon, <1>4 DEF FixMftMirr, disk
  <2>2. \/ pc' = "upcase" /\ cur \notin Records
        \/ pc' = "mirrorMft" /\ cur' = cur
        \/ pc' = "mirror" /\ cur' = cur + 1 /\ cur \in Records /\ Checked(cur)
    BY <1>4, PassedIsChecked DEF FixMftMirr, Started, StartWrite, Leave, Goto
  <2>3. cur \notin Records => \A i \in Records : i < cur
    BY SMT, <1>0, FixAssumption DEF Records
  <2>4. \A i \in Records : i < cur + 1 => i < cur \/ i = cur
    BY SMT, <1>0 DEF Records
  <2>. QED
    BY Zenon, <2>1, <2>2, <2>3, <2>4, ChecksUnchanged DEF Progress, Started
<1>5. CASE FixUpcase \/ SetDirtyFlag \/ EmptyJournal
  <2>1. UNCHANGED <<mft, mirr, blocks, extent>>
    BY <1>5 DEF FixUpcase, SetDirtyFlag, EmptyJournal, disk
  <2>2. Started' => \/ pc = "upcase" /\ pc' = "dirty" /\ upcase' = TRUE
                    \/ pc = "dirty" /\ pc' = "dirtyMft" /\ upcase' = upcase
                    \/ pc = "journal" /\ pc' \in {"journal", "remount"} /\ upcase' = upcase
    BY <1>5 DEF FixUpcase, SetDirtyFlag, EmptyJournal, Started, StartWrite, Leave, Goto, disk
  <2>. QED
    BY <1>2, <2>1, <2>2, ChecksUnchanged DEF Progress, Started
<1>6. CASE WriteMft /\ Started'
  <2>1. /\ UNCHANGED <<mirr, blocks, extent, upcase, cur>>
        /\ \/ pc = "mirrorMft" /\ pc' = "mirrorMirr"
           \/ pc = "dirtyMft" /\ pc' = "dirtyMirr" /\ cur = VolumeRecord
    BY <1>6 DEF WriteMft, InMft, AfterMft, Started, Layout, MemoryLayout
  <2>2. cur \in Records /\ mft'[cur] = buf /\ \A i \in Records \ {cur} : mft'[i] = mft[i]
    BY Zenon, <1>6, WriteMftFacts
  <2>3. Usable(mft'[cur])
    BY Zenon, <2>2, ReadFacts DEF Layout, MemoryLayout
  <2>4. cur = 0 => mft'[0].body = mft[0].body
    BY <1>0, <2>1, <2>2 DEF Versions
  <2>5. StartupOk'
    BY Zenon, <2>1, <2>2, <2>3, <2>4, StartupKept DEF Layout, Progress, Started
  <2>6. \A i \in Records \ {cur} : Checked(i) <=> Checked(i)'
    BY <2>1, <2>2 DEF Checked, MirrorMatches, Usable
  <2>7. \A i \in Records : i < cur => i # cur
    BY SMT, <1>0
  <2>. QED
    BY <2>1, <2>5, <2>6, <2>7 DEF Progress
<1>7. CASE WriteMirr /\ Started'
  <2>1. /\ UNCHANGED <<mft, blocks, extent, upcase>>
        /\ \/ pc = "mirrorMirr" /\ pc' = "mirror" /\ cur' = cur + 1
           \/ pc = "dirtyMirr" /\ pc' = "journal" /\ cur = VolumeRecord
    BY ZenonT(40), <1>7 DEF WriteMirr, EndWrite, InMirr, Started, Layout, MemoryLayout
  <2>2. /\ cur \in Records /\ mft[cur] = buf /\ mirr'[cur] = buf
        /\ \A i \in Records \ {cur} : mirr'[i] = mirr[i]
    BY <1>7, WriteMirrFacts
  <2>3. Usable(buf)
    BY ReadFacts DEF Layout, MemoryLayout
  <2>4. ASSUME NEW i \in Records, i = cur PROVE Checked(i)'
    BY <2>1, <2>2, <2>3, <2>4 DEF Checked, MirrorMatches, Usable
  <2>5. \A i \in Records \ {cur} : Checked(i) <=> Checked(i)'
    BY Zenon, <2>1, <2>2 DEF Checked, MirrorMatches, Usable
  <2>6. StartupOk <=> StartupOk'
    BY <2>1 DEF StartupOk, MftLoads, AttributeList, Usable
  <2>7. \A i \in Records : i < cur + 1 => i < cur \/ i = cur
    BY SMT, <1>0 DEF Records
  <2>. QED
    BY <2>1, <2>4, <2>5, <2>6, <2>7 DEF Progress, Started
<1>. QED
  BY <1>1, <1>2, <1>3, <1>4, <1>5, <1>6, <1>7, RepairSteps

\* When the repair reports success the second mount succeeds, unless a
\* record was overwritten, which the repair leaves as it is.
THEOREM RepairedVolumeMounts == Spec => []RepairedMounts
<1>1. Init => Progress
  BY Zenon DEF Init, Progress, Started
<1>2. Layout /\ Layout' /\ Versions /\ Progress /\ [Next]_vars => Progress'
  BY Zenon, ProgressStep
<1>3. Progress => RepairedMounts
  BY Zenon DEF Progress, Started, RepairedMounts, Garbled, Checked, MountOk
<1>. QED
  BY <1>1, <1>2, <1>3, LayoutInvariance, VersionsInvariance, PTL DEF Spec

=============================================================================
