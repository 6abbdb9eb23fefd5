---------------------------- MODULE NtfsStorage ----------------------------
(***************************************************************************)
(* Where the data of files lives: the calls of libntfs-3g that write to an *)
(* attribute and that delete it (attrib.c, dir.c), on top of the cluster   *)
(* allocator and of the runlists.  The driver reaches them from the Write  *)
(* and Delete of its file protocol, and the library itself when it grows   *)
(* the index of a directory.                                               *)
(*                                                                         *)
(* Sizes are in units, of which a cluster has ClusterSize; a unit is as    *)
(* long as an MFT record, so that an attribute is resident only when it is *)
(* empty.  Attributes are neither compressed nor encrypted, and their      *)
(* mapping pairs fit one record.                                           *)
(*                                                                         *)
(* The record of an attribute in memory (m) and the open attribute (na)    *)
(* live during one call: the driver opens the inode and the attribute in   *)
(* every call, and closing the inode writes its record.                    *)
(*                                                                         *)
(* One write of the device in a call may fail: of $Bitmap, of data or of a *)
(* record.  A power loss may come between any two writes of a call.        *)
(***************************************************************************)
EXTENDS NtfsClusters

CONSTANTS
    Files,
    Solid,          \* files that hold an index: never sparse, never resident
    Values,         \* what is written
    ValuesOf,       \* what is written to each file
    Zero, Stale,    \* zeroes, and what a disk holds before it is written
    Bad, Absent,    \* what reads that fail, and files that are not there, give
    ClusterSize,    \* units in a cluster
    MaxSize,        \* bound on the size of a file
    Reserved,       \* clusters of the metadata files
    InitialRecs,    \* the records a volume may start with
    MaxCalls        \* bound on the number of calls

VARIABLES
    disk,           \* $Bitmap, the units of the clusters, and the records
    mem,            \* the mounted volume: full, pos, free
    content,        \* what reads of each file give, a function of the disk
    answer,         \* of the last call: "ok" or "error"
    fault,          \* whether the device failed in it, with data or a record
    hurt,           \* files that a call left half done
    lost,           \* clusters that such calls left marked without owner
    torn,           \* files some of whose clusters such a call freed
    calls           \* calls made so far

vars == <<disk, mem, content, answer, fault, hurt, lost, torn, calls>>

ASSUME StorageAssumption ==
    /\ Solid \subseteq Files
    /\ ClusterSize \in Nat \ {0} /\ MaxSize \in Nat
    /\ MaxCalls \in Nat /\ ValuesOf \in [Files -> SUBSET Values]
    /\ Reserved \subseteq Clusters

-----------------------------------------------------------------------------
\* The record of an attribute: its mapping pairs (runs), its sizes (alloc
\* and csize in clusters), its flag ATTR_IS_SPARSE, and the flag
\* FILE_ATTR_SPARSE_FILE of the inode it belongs to.
Unused ==
    [used |-> FALSE, nonres |-> FALSE, runs |-> <<>>, alloc |-> 0, size |-> 0,
     init |-> 0, sparse |-> FALSE, csize |-> 0, flag |-> FALSE]

\* The record of a new file, or of the new index of a directory.
NewRecord(f) == [Unused EXCEPT !.used = TRUE, !.nonres = f \in Solid]

\* ntfs_mapping_pairs_decompress and ntfs_mapping_pairs_build, of all runs.
ntfs_mapping_pairs_decompress(runs) ==
    LET vcn[i \in 1 .. Len(runs) + 1] ==
            IF i = 1 THEN 0 ELSE vcn[i - 1] + runs[i - 1].length
    IN  [i \in 1 .. Len(runs) + 1 |->
            IF i <= Len(runs) THEN Run(vcn[i], runs[i].lcn, runs[i].length)
                              ELSE Run(vcn[i], LCN_ENOENT, 0)]

ntfs_mapping_pairs_build(rl) ==
    [i \in 1 .. Len(rl) - 1 |-> [lcn |-> rl[i].lcn, length |-> rl[i].length]]

\* The clusters that n units take, and the units of clusters that data has.
UpToCluster(n) == (n + ClusterSize - 1) \div ClusterSize
DataUnits == 0 .. NrClusters * ClusterSize - 1

\* The unit of the disk that position p is at, -1 in a hole; whether p is
\* mapped at all.
Where(rl, p) ==
    LET e == rl[FindVcn(rl, p \div ClusterSize)]
    IN  IF e.lcn < 0 THEN -1
        ELSE (e.lcn + p \div ClusterSize - e.vcn) * ClusterSize
                 + (p % ClusterSize)
IsMapped(rl, p) == rl[FindVcn(rl, p \div ClusterSize)].length > 0

-----------------------------------------------------------------------------
(***************************************************************************)
(* A call on the attribute of file f: the session s, the record m of f in  *)
(* memory, the open attribute na, the inode's sparse flag, the error, how  *)
(* much has been written (total), whether initialized_size has been moved  *)
(* (undo), and whether the call had to leave f half done (broken).         *)
(***************************************************************************)
\* ntfs_attr_open refuses a sparse attribute of an inode not marked sparse.
CanOpen(f, rec) == f \in Solid \/ ~ rec.sparse \/ rec.flag

ntfs_attr_open(s, f) ==
    LET rec == s.recs[f]
    IN  [s |-> s, f |-> f, m |-> rec, flag |-> rec.flag,
         err |-> IF CanOpen(f, rec) THEN "ok" ELSE "EIO",
         total |-> 0, undo |-> FALSE, broken |-> FALSE,
         na |-> [nonres |-> rec.nonres, alloc |-> rec.alloc, size |-> rec.size,
                 init |-> rec.init, dirty |-> FALSE,
                 rl |-> ntfs_mapping_pairs_decompress(rec.runs)]]

ntfs_mft_record_write(c) ==
    [c EXCEPT !.s = DeviceWrite(@, "record", [@ EXCEPT !.recs[c.f] = c.m])]

\* ntfs_inode_close: the flags of the inode reach its record, and the record,
\* if it has changed, the disk.  No caller looks at the error.
ntfs_inode_close(c) ==
    LET d == [c EXCEPT !.m.flag = c.flag]
    IN  IF d.m = d.s.recs[d.f] THEN d
        ELSE [ntfs_mft_record_write(d) EXCEPT !.broken = @ \/ WriteFails(d.s)]

\* Mutant: an attribute that is no longer sparse keeps the flag.
ntfs_attr_update_mapping_pairs_Sticky(c) ==
    LET sparse == c.m.sparse \/ ntfs_rl_sparse(c.na.rl)
    IN  [c EXCEPT !.m.runs = ntfs_mapping_pairs_build(c.na.rl),
                  !.m.alloc = c.na.alloc, !.m.sparse = sparse,
                  !.m.csize = IF sparse THEN ntfs_rl_get_compressed_size(c.na.rl)
                                        ELSE 0,
                  !.flag = IF sparse # c.m.sparse THEN sparse ELSE @,
                  !.na.dirty = FALSE]

\* ntfs_attr_update_mapping_pairs, with ntfs_attr_update_meta.
ntfs_attr_update_mapping_pairs(c) ==
    LET sparse == ntfs_rl_sparse(c.na.rl)
    IN  [c EXCEPT !.m.runs = ntfs_mapping_pairs_build(c.na.rl),
                  !.m.alloc = c.na.alloc, !.m.sparse = sparse,
                  !.m.csize = IF sparse THEN ntfs_rl_get_compressed_size(c.na.rl)
                                        ELSE 0,
                  !.flag = IF sparse # c.m.sparse THEN sparse ELSE @,
                  !.na.dirty = FALSE]

-----------------------------------------------------------------------------
\* One write of the device: value v at the positions P, zeroes at Z.
Put(c, P, v, Z) ==
    LET at == {Where(c.na.rl, p) : p \in P}
        zero == {Where(c.na.rl, p) : p \in Z}
    IN  [c EXCEPT !.err = IF WriteFails(c.s) THEN "EIO" ELSE @,
                  !.s = DeviceWrite(@, "data", [@ EXCEPT !.data =
            [u \in DataUnits |-> IF u \in at THEN v
                                 ELSE IF u \in zero THEN Zero ELSE @[u]]])]

\* ntfs_attr_fill_zero: nothing is written into a hole.
ntfs_attr_fill_zero(c, from, end) ==
    LET Z == from .. end - 1
        d == IF \E p \in Z : Where(c.na.rl, p) >= 0 THEN Put(c, {}, Zero, Z) ELSE c
    IN  IF \A p \in Z : IsMapped(c.na.rl, p) THEN d ELSE [d EXCEPT !.err = "EIO"]

\* Where to look for clusters for the hole at element i, from vcn on: as far
\* behind the last run before it, or before the first run after it, as vcn is.
SeekFrom(rl, i, vcn) ==
    LET before == {j \in 1 .. i - 1 : rl[j].lcn >= 0}
        after == {j \in i + 1 .. Len(rl) : rl[j].lcn >= 0}
    IN  CASE before # {} -> rl[Max(before)].lcn + vcn - rl[Max(before)].vcn
          [] before = {} /\ after # {} ->
                 Max({-1, rl[Min(after)].lcn - (rl[Min(after)].vcn - vcn)})
          [] OTHER -> -1

\* The clusters found take the place of the hole; what lies before pos in
\* the clusters of the hole is zeroed.
HoleFilled(c, r, hole, pos) ==
    IF r.err # "ok" THEN [c EXCEPT !.s = r.s, !.err = r.err]
    ELSE ntfs_attr_fill_zero(
             [c EXCEPT !.s = r.s, !.na.dirty = TRUE,
                       !.na.rl = ntfs_runlists_merge(@, r.rl)],
             hole.vcn * ClusterSize, pos)

\* Clusters for the part of the hole at element i that a write of count
\* units at pos reaches.
ntfs_attr_fill_hole(c, i, pos, count) ==
    LET hole == c.na.rl[i]
        from == pos \div ClusterSize
        end == Min({pos + count, EndOf(hole) * ClusterSize})
    IN  HoleFilled(c, ntfs_cluster_alloc(c.s, from, UpToCluster(end) - from,
                                         SeekFrom(c.na.rl, i, from)),
                   hole, pos)

-----------------------------------------------------------------------------
\* ntfs_attr_make_non_resident of an empty attribute: no cluster is needed.
ntfs_attr_make_non_resident(c) ==
    [c EXCEPT !.flag = FALSE, !.m.nonres = TRUE, !.m.sparse = FALSE,
              !.na.nonres = TRUE, !.na.alloc = 0]

\* ntfs_attr_make_resident of an attribute that has become empty.
ntfs_attr_make_resident(c) ==
    [c EXCEPT !.s = ntfs_cluster_free(@, c.na.rl, 0), !.flag = FALSE,
              !.m = [Unused EXCEPT !.used = TRUE, !.flag = c.m.flag],
              !.na.nonres = FALSE, !.na.rl = ntfs_mapping_pairs_decompress(<<>>),
              !.na.alloc = 0, !.na.init = 0]

\* Where to look for clusters behind the attribute.
SeekBehind(rl) ==
    LET real == {i \in DOMAIN rl : rl[i].lcn >= 0}
    IN  IF real = {} THEN -1 ELSE rl[Max(real)].lcn + rl[Max(real)].length

\* The clusters up to vcn, a hole for a $DATA attribute.
NewClusters(c, vcn) ==
    IF c.f \in Solid
    THEN ntfs_cluster_alloc(c.s, c.na.alloc, vcn - c.na.alloc, SeekBehind(c.na.rl))
    ELSE [s |-> c.s, err |-> "ok",
          rl |-> <<Run(c.na.alloc, LCN_HOLE, vcn - c.na.alloc),
                   Run(vcn, LCN_ENOENT, 0)>>]

\* New clusters r, up to vcn, go to the end of the runlist.  When data is
\* about to be appended (delay), the mapping pairs wait for it.
Lengthened(c, r, vcn, delay) ==
    LET d == [c EXCEPT !.s = r.s, !.na.alloc = vcn, !.na.dirty = TRUE,
                       !.na.rl = ntfs_runlists_merge(@, r.rl)]
    IN  IF r.err # "ok" THEN [c EXCEPT !.s = r.s, !.err = r.err]
        ELSE IF delay THEN d
        ELSE ntfs_attr_update_mapping_pairs(d)

Sized(c, newsize) ==
    IF c.err = "ok" THEN [c EXCEPT !.na.size = newsize, !.m.size = newsize] ELSE c

ntfs_non_resident_attr_expand(c, newsize, delay) ==
    LET vcn == UpToCluster(newsize)
    IN  Sized(IF c.na.alloc < vcn
                  THEN Lengthened(c, NewClusters(c, vcn), vcn, delay)
                  ELSE c,
              newsize)

\* The clusters from vcn on, freed in session s, leave the runlist; they stay
\* in it when one of them could not be freed.
Shortened(c, s, vcn) ==
    IF s.failed # c.s.failed THEN [c EXCEPT !.s = s, !.broken = TRUE]
    ELSE ntfs_attr_update_mapping_pairs(
             [c EXCEPT !.s = s, !.na.rl = ntfs_rl_truncate(@, vcn),
                       !.na.alloc = vcn])

\* An empty attribute becomes resident, if its type allows it.
EmptyIsResident(c) ==
    IF c.na.size = 0 /\ c.f \notin Solid THEN ntfs_attr_make_resident(c) ELSE c

\* The sizes follow once the clusters are gone.
Shrunk(c, newsize) ==
    IF c.broken THEN c
    ELSE EmptyIsResident(
        [c EXCEPT !.na.size = newsize, !.m.size = newsize,
                  !.na.init = Min({@, newsize}),
                  !.m.init = IF newsize < c.na.init THEN newsize ELSE @])

ntfs_non_resident_attr_shrink(c, newsize) ==
    LET vcn == UpToCluster(newsize)
    IN  Shrunk(IF c.na.alloc # vcn
                   THEN Shortened(c, ntfs_cluster_free(c.s, c.na.rl, vcn), vcn)
                   ELSE c,
               newsize)

\* ntfs_attr_truncate to a larger size: a resident attribute no longer fits
\* its record.
Enlarged(c, newsize, delay) ==
    ntfs_non_resident_attr_expand(
        IF c.na.nonres THEN c ELSE ntfs_attr_make_non_resident(c), newsize, delay)

-----------------------------------------------------------------------------
\* Mutant: the rest of the last cluster keeps what the disk held.
Rounding_None(c, wend, hole_end) == {}

\* The positions behind a write that are zeroed with it, up to the end of
\* the cluster: at the end of the initialised data, and in a former hole.
Rounding(c, wend, hole_end) ==
    IF wend = c.na.init \/ wend < hole_end * ClusterSize
        THEN wend .. UpToCluster(wend) * ClusterSize - 1 ELSE {}

\* rl_err_out: what has been written counts, unless initialized_size has been
\* moved; then, and when that is nothing, all of it is undone.
Interrupted(c) ==
    [c EXCEPT !.err = IF c.total > 0 /\ ~ c.undo THEN "short" ELSE "EIO"]

\* The loop of ntfs_attr_pwrite: run by run, holes being filled first.  A
\* write cannot go on where nothing is mapped.
RECURSIVE Scatter(_, _, _, _, _)
ScatterOn(c, pos, wend, end, v, hole_end) ==
    IF c.err # "ok" THEN Interrupted(c)
    ELSE Scatter([c EXCEPT !.total = @ + wend - pos], wend, end, v, hole_end)

ScatterRun(c, pos, end, v, hole_end) ==
    LET run == c.na.rl[FindVcn(c.na.rl, pos \div ClusterSize)]
        wend == Min({end, EndOf(run) * ClusterSize})
    IN  IF c.err # "ok" THEN c
        ELSE ScatterOn(Put(c, pos .. wend - 1, v, Rounding(c, wend, hole_end)),
                       pos, wend, end, v, hole_end)

Scatter(c, pos, end, v, hole_end) ==
    LET i == FindVcn(c.na.rl, pos \div ClusterSize)
        run == c.na.rl[i]
    IN  CASE pos = end -> c
          [] pos < end /\ run.length = 0 -> Interrupted(c)
          [] pos < end /\ run.length > 0 /\ run.lcn < 0 ->
                 ScatterRun(ntfs_attr_fill_hole(c, i, pos, end - pos),
                            pos, end, v, EndOf(run))
          [] OTHER -> ScatterRun(c, pos, end, v, hole_end)

\* The write reaches beyond initialized_size: the gap is zeroed, and the
\* record goes to the disk before the data does.  When that fails, the record
\* is sent out again as it was.
InitSaved(c, end) ==
    LET w == ntfs_mft_record_write([c EXCEPT !.m.init = end])
    IN  CASE c.err # "ok" -> c
          [] c.err = "ok" /\ WriteFails(c.s) ->
                 ntfs_mft_record_write([w EXCEPT !.m.init = c.na.init, !.err = "EIO"])
          [] OTHER -> [w EXCEPT !.na.init = end, !.undo = TRUE]

Initialised(c, pos, end) == InitSaved(ntfs_attr_fill_zero(c, c.na.init, pos), end)

MappingsUpdated(c) == IF c.na.dirty THEN ntfs_attr_update_mapping_pairs(c) ELSE c

InitRestored(c, init) ==
    IF c.undo
        THEN ntfs_mft_record_write([c EXCEPT !.m.init = init, !.na.init = init])
        ELSE c

SizeRestored(c, size) ==
    IF c.na.size = size THEN c ELSE ntfs_non_resident_attr_shrink(c, size)

\* err_out: the sizes go back to what they were in the record `old'.
Undone(c, old) ==
    SizeRestored(MappingsUpdated(InitRestored(c, old.init)), old.size)

EndWrite(c, old) ==
    IF c.err \in {"ok", "short"} THEN MappingsUpdated(c) ELSE Undone(c, old)

\* The data goes out once the attribute is large enough.
WriteData(c, pos, end, v) ==
    IF c.err = "ok" THEN Scatter(c, pos, end, v, 0) ELSE c

WriteInside(c, old, pos, end, v) ==
    EndWrite(WriteData(IF end > c.na.init THEN Initialised(c, pos, end) ELSE c,
                       pos, end, v),
             old)

\* Nothing is undone when the attribute cannot be enlarged.
WriteOnceEnlarged(c, old, pos, end, v) ==
    IF c.err = "ok" THEN WriteInside(c, old, pos, end, v) ELSE c

ntfs_attr_pwrite(c, pos, end, v) ==
    LET appending == c.f \notin Solid /\ pos >= c.na.size /\ c.na.nonres
        d == [c EXCEPT !.err = "ok", !.total = 0, !.undo = FALSE]
    IN  WriteOnceEnlarged(
            IF end > c.na.size THEN Enlarged(d, end, appending) ELSE d,
            c.m, pos, end, v)

\* ntfs_attr_data_write goes on where a short write stopped.
RECURSIVE ntfs_attr_data_write(_, _, _, _)
WriteRest(c, pos, end, v) ==
    IF c.err = "short" THEN ntfs_attr_data_write(c, pos + c.total, end, v) ELSE c

ntfs_attr_data_write(c, pos, end, v) ==
    IF c.err \in {"ok", "short"}
        THEN WriteRest(ntfs_attr_pwrite(c, pos, end, v), pos, end, v)
        ELSE c

\* The end of ntfs_delete: the clusters are freed before the record, which is
\* freed even when they cannot be.
ntfs_mft_record_free(s, f) == DeviceWrite(s, "record", [s EXCEPT !.recs[f] = Unused])

ntfs_delete(s, f) ==
    ntfs_mft_record_free(
        ntfs_cluster_free_from_rl(
            s, ntfs_mapping_pairs_decompress(s.recs[f].runs)),
        f)

-----------------------------------------------------------------------------
\* What a read of position p gives (ntfs_attr_pread).
ReadUnit(rl, rec, data, p) ==
    LET u == Where(rl, p)
    IN  CASE p >= rec.init -> Zero
          [] p < rec.init /\ u >= 0 -> data[u]
          [] p < rec.init /\ u < 0 -> IF IsMapped(rl, p) THEN Zero ELSE Bad

ContentOf(f, rec, rl, data) ==
    IF ~ rec.used THEN Absent
    ELSE [i \in 1 .. rec.size |->
             IF CanOpen(f, rec) THEN ReadUnit(rl, rec, data, i - 1) ELSE Bad]

ContentsOf(d) ==
    [f \in Files |->
        ContentOf(f, d.recs[f], ntfs_mapping_pairs_decompress(d.recs[f].runs),
                  d.data)]

-----------------------------------------------------------------------------
OwnedBy(recs, f) == ClustersOf(recs[f].runs)
Owned(recs) == UNION {OwnedBy(recs, f) : f \in Files}

\* What a cluster without an owner holds is old data, whatever it is.
Forgotten(d) ==
    LET owned == Owned(d.recs)
    IN  [d EXCEPT !.data = [u \in DataUnits |->
            IF u \div ClusterSize \in owned THEN @[u] ELSE Stale]]

\* The disk is d from now on.
NowOn(d) == disk' = Forgotten(d) /\ content' = ContentsOf(d)

Session(fails) ==
    [Mounted(disk, fails) EXCEPT !.full = mem.full, !.pos = mem.pos,
                                 !.free = mem.free]

Memory(s) == [full |-> s.full, pos |-> s.pos, free |-> s.free]

\* A call has run to its end, with the given answer.
Done(s, ans) == NowOn(Disk(s)) /\ mem' = Memory(s) /\ answer' = ans

Unowned(d) == d.bits \ (Reserved \cup Padding \cup Owned(d.recs))

\* The clusters of f that were marked before the call and are no longer.
Freed(f) == OwnedBy(disk'.recs, f) \cap (disk.bits \ disk'.bits)

\* The power goes during a call on f, and the volume is mounted again.  The
\* clusters that had been marked for f have no owner any more.
CutShort(s, f) ==
    \E cut \in s.cuts \ {disk} :
        /\ hurt = {}
        /\ NowOn(cut) /\ mem' = Memory(Mounted(cut, 0))
        /\ hurt' = {f} /\ lost' = Unowned(cut)
        /\ answer' = "error" /\ fault' = FALSE

Init ==
    /\ \E recs \in InitialRecs :
          disk = [bits |-> Reserved \cup Padding \cup Owned(recs),
                  data |-> [u \in DataUnits |-> Stale], recs |-> recs]
    /\ mem = Memory(Mounted(disk, 0)) /\ content = ContentsOf(disk)
    /\ answer = "ok" /\ fault = FALSE
    /\ hurt = {} /\ lost = {} /\ torn = {} /\ calls = 0

\* NtfsOpenVolume of a volume mounts it again.
Mount ==
    /\ mem' = Memory(Mounted(disk, 0))
    /\ UNCHANGED <<disk, content, answer, fault, hurt, lost, torn, calls>>

Create(f) ==
    /\ torn = {} /\ ~ disk.recs[f].used
    /\ NowOn([disk EXCEPT !.recs[f] = NewRecord(f)])
    /\ answer' = "ok" /\ fault' = FALSE
    /\ UNCHANGED <<mem, hurt, lost, torn>>

\* The range of a write.  An index is written by blocks, without gaps.
InRange(f, pos, end) ==
    /\ torn = {} /\ disk.recs[f].used /\ pos < end
    /\ f \in Solid => /\ pos <= disk.recs[f].size
                      /\ pos % ClusterSize = 0 /\ end = pos + ClusterSize

\* A write between opening and closing the inode.
Writing(f, pos, end, v, fails) ==
    ntfs_inode_close(
        ntfs_attr_data_write(ntfs_attr_open(Session(fails), f), pos, end, v))

\* The driver answers with the result of the write, whatever closing the
\* inode gives.  A call that ends half done hurts the file.  Bound: only one
\* file at a time is hurt.
EndOfWrite(f, c) ==
    /\ Done(c.s, IF c.err = "ok" THEN "ok" ELSE "error")
    /\ fault' = (c.broken \/ c.s.failed \in {"data", "record"})
    /\ c.broken => hurt = {}
    /\ hurt' = IF c.broken THEN {f} ELSE hurt
    /\ torn' = {g \in {f} : c.broken /\ Freed(g) # {}}
    /\ lost' = lost \cup (c.s.kept \ Owned(disk'.recs)) \cup
                  (IF c.broken THEN Unowned(disk') \ disk.bits ELSE {})

\* fails: which write of the device in the call fails, 0 for none.
Write(f, pos, end, v) ==
    /\ InRange(f, pos, end)
    /\ \E fails \in 0 .. Writing(f, pos, end, v, 0).s.writes :
          EndOfWrite(f, Writing(f, pos, end, v, fails))

PowerLossInWrite(f, pos, end, v) ==
    /\ InRange(f, pos, end)
    /\ CutShort(Writing(f, pos, end, v, 0).s, f)
    /\ torn' = {g \in {f} : Freed(g) # {}}

\* A record that cannot be freed stays, without a name.
EndOfDelete(f, s) ==
    /\ Done(s, IF s.failed = "none" THEN "ok" ELSE "error")
    /\ fault' = (s.failed = "record")
    /\ fault' => hurt = {}
    /\ hurt' = IF fault' THEN {f} ELSE hurt \ {f}
    /\ torn' = {g \in {f} : fault'}
    /\ lost' = lost \cup s.kept

Delete(f) ==
    /\ torn = {} /\ disk.recs[f].used
    /\ \E fails \in 0 .. ntfs_delete(Session(0), f).writes :
          EndOfDelete(f, ntfs_delete(Session(fails), f))

\* What follows a deletion that was cut half-way is not explored.
PowerLossInDelete(f) ==
    /\ torn = {} /\ disk.recs[f].used
    /\ CutShort(ntfs_delete(Session(0), f), f)
    /\ torn' = {g \in {f} : disk'.recs[g].used}

Next ==
    \/ Mount
    \/ /\ calls < MaxCalls /\ calls' = calls + 1
       /\ \E f \in Files :
            \/ Create(f) \/ Delete(f) \/ PowerLossInDelete(f)
            \/ \E pos \in 0 .. MaxSize - 1, end \in 1 .. MaxSize, v \in ValuesOf[f] :
                  Write(f, pos, end, v) \/ PowerLossInWrite(f, pos, end, v)

Spec == Init /\ [][Next]_vars

-----------------------------------------------------------------------------
\* The state is well formed, and the position of each zone of the allocator
\* lies in the zone, where the next search starts.
TypeOK ==
    /\ disk.bits \subseteq 0 .. BitmapBits - 1 /\ Padding \subseteq disk.bits
    /\ disk.data \in [DataUnits -> Values \cup {Zero, Stale}]
    /\ \A f \in Files : disk.recs[f].size \in 0 .. MaxSize
    /\ mem.full \subseteq Zones
    /\ \A z \in Zones : \/ mem.pos[z] \in InitialPos[z] .. ZoneEnd[z] - 1
                        \/ mem.pos[z] = InitialPos[z]
    /\ hurt \subseteq Files /\ torn \subseteq hurt /\ lost \subseteq Clusters

\* No cluster belongs to two files, or to a file and the metadata: merging
\* runlists, filling holes and undoing a failed write never map a cluster
\* twice, and neither a power loss nor a failed write of the device leaves
\* a record that shares a cluster.
OwnedOnce ==
    \A f \in Files :
        /\ OwnedBy(disk.recs, f) \cap Reserved = {}
        /\ \A g \in Files \ {f} :
              OwnedBy(disk.recs, f) \cap OwnedBy(disk.recs, g) = {}
        /\ Cardinality(OwnedBy(disk.recs, f)) =
              ntfs_rl_get_compressed_size(disk.recs[f].runs)

\* $Bitmap says exactly which clusters are in use.  Every cluster of a file
\* is marked, and no other: a write that cannot be completed, for want of
\* space or because the device failed, leaks nothing.  What stays marked
\* without an owner is what a power loss or a record that could not be saved
\* found marked, and what a failed clearing of $Bitmap left behind (lost).  A
\* file keeps a free cluster only when a call that frees clusters before it
\* writes the record is cut short between the two (torn).  And
\* vol->free_clusters, which the driver reports as the free space of the
\* volume, is the number of clear bits after any sequence of calls.
BitmapExact ==
    LET sound == UNION {OwnedBy(disk.recs, f) : f \in Files \ torn}
    IN  /\ disk.bits \subseteq Reserved \cup Padding \cup lost \cup Owned(disk.recs)
        /\ Reserved \cup Padding \cup lost \cup sound \subseteq disk.bits
        /\ mem.free = CountFree(disk.bits)

\* The record of every file that no call left half done agrees with itself,
\* also after a write that failed and was undone:
\* its runs cover exactly its allocated size, that size covers its data, it
\* is marked sparse just when it has a hole, with the size that remains, and
\* then its inode is marked too, or it could never be opened again.
RecordsSound ==
    TypeOK /\ \A f \in Files \ hurt :
        LET rec == disk.recs[f]
            rl == ntfs_mapping_pairs_decompress(rec.runs)
        IN  /\ rec.alloc = Last(rl).vcn
            /\ rec.init <= rec.size /\ rec.size <= rec.alloc * ClusterSize
            /\ rec.sparse <=> ntfs_rl_sparse(rl)
            /\ rec.csize = IF rec.sparse THEN ntfs_rl_get_compressed_size(rl) ELSE 0
            /\ rec.sparse => rec.flag
            /\ f \in Solid => ~ rec.sparse

Store == INSTANCE FileStore

\* Reads give what was written.  A write that is answered "ok" has put its
\* units in place and zeroed the gap it leaves, whatever the clusters held
\* before; one that is answered "error" keeps the size and everything outside
\* its range, or outside its clusters when the device failed with data; a
\* call that is cut short harms only the file in work; and no call on one
\* file ever changes another.
ImplementsFileStore == Store!Spec
=============================================================================
