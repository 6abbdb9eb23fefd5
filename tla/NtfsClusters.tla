---------------------------- MODULE NtfsClusters ----------------------------
(***************************************************************************)
(* The cluster allocator of libntfs-3g (lcnalloc.c).  $Bitmap on the disk  *)
(* has one bit per cluster, set when the cluster is in use.  A mounted     *)
(* volume remembers where to go on searching in each of three zones, which *)
(* zones it takes for full, and how many clusters are free.                *)
(*                                                                         *)
(* A call is an operator on a session: the disk (bits, data, recs), the    *)
(* memory of the mounted volume (full, pos, free), every disk that a power *)
(* loss during the call could leave (cuts: the device writes are           *)
(* synchronous), how many writes the device has been asked for (writes),   *)
(* which of them fails (fails: 0 for none), what the one that failed was   *)
(* to do (failed), and the clusters that it kept from being freed (kept).  *)
(***************************************************************************)
EXTENDS Integers, FiniteSets, FiniteSetsExt, Runlist

CONSTANTS
    NrClusters,     \* vol->nr_clusters
    MftLcn,         \* vol->mft_lcn
    MftZoneStart,   \* vol->mft_zone_start
    MftZoneEnd,     \* vol->mft_zone_end
    ByteBits,       \* bits of $Bitmap in a byte
    BSize,          \* NTFS_LCNALLOC_BSIZE: bytes of $Bitmap read at a time
    Skip            \* NTFS_LCNALLOC_SKIP

ASSUME ClustersAssumption ==
    /\ NrClusters \in Nat /\ ByteBits \in Nat \ {0} /\ BSize \in Nat \ {0}
    /\ Skip \in Nat
    /\ MftZoneStart \in {0, MftLcn}
    /\ MftLcn \in Nat /\ MftZoneEnd \in MftLcn .. NrClusters - 1

Clusters == 0 .. NrClusters - 1

\* $Bitmap has whole bytes; the bits past the last cluster are set.
BitmapBits == ((NrClusters + ByteBits - 1) \div ByteBits) * ByteBits
Padding == NrClusters .. BitmapBits - 1

Zones == {"mft", "data1", "data2"}

ZoneOf(lcn) == CASE lcn < MftZoneStart -> "data2"
                 [] lcn < MftZoneEnd /\ lcn >= MftZoneStart -> "mft"
                 [] OTHER -> "data1"

ZoneBegin == [mft |-> MftZoneStart, data1 |-> MftZoneEnd, data2 |-> 0]
ZoneEnd == [mft |-> MftZoneEnd, data1 |-> NrClusters, data2 |-> MftZoneStart]

\* A session on a volume that has just been mounted.
InitialPos == [mft |-> MftLcn, data1 |-> MftZoneEnd, data2 |-> 0]
Disk(s) == [bits |-> s.bits, data |-> s.data, recs |-> s.recs]
Written(s) == [s EXCEPT !.cuts = @ \cup {Disk(s)}]
CountFree(bits) == Cardinality(Clusters \ bits)
Mounted(disk, fails) ==
    [bits |-> disk.bits, data |-> disk.data, recs |-> disk.recs,
     full |-> {}, pos |-> InitialPos, free |-> CountFree(disk.bits),
     cuts |-> {disk}, writes |-> 0, fails |-> fails, failed |-> "none",
     kept |-> {}]

\* One write of the device, which makes s into t.  The one that fails leaves
\* the disk as it is.
WriteFails(s) == s.writes + 1 = s.fails
DeviceWrite(s, what, t) ==
    IF WriteFails(s) THEN [s EXCEPT !.writes = @ + 1, !.failed = what]
    ELSE Written([t EXCEPT !.writes = @ + 1])

-----------------------------------------------------------------------------
\* ntfs_cluster_set_zone_pos is told where the zone starts: for the MFT zone
\* at mft_lcn, not at mft_zone_start.
ntfs_cluster_update_zone_pos(s, zone, tc) ==
    LET start == InitialPos[zone]
    IN  [s EXCEPT !.pos[zone] = CASE tc >= ZoneEnd[zone] -> start
                                  [] tc < ZoneEnd[zone] /\ tc >= start -> tc
                                  [] OTHER -> @]

update_full_status(s, lcn) ==
    IF ZoneOf(lcn) \in s.full
        THEN [ntfs_cluster_update_zone_pos(s, ZoneOf(lcn), lcn)
                 EXCEPT !.full = @ \ {ZoneOf(lcn)}]
        ELSE s

\* Mutant: the run goes on over bits that are set.
FreeLength_Past(bits, first, end) == end - first

\* The clusters from `first' on that are free, up to the bit `end'.
FreeLength(bits, first, end) ==
    Min({b \in first .. end : b = end \/ b \in bits}) - first

\* The first of the longest ranges of clear bits in a buffer, -1 for none.
max_empty_bit_range(bits, base, end) ==
    LET clear == (base .. end - 1) \ bits
        longest == Max({FreeLength(bits, b, end) : b \in clear})
    IN  IF clear = {} THEN -1
        ELSE Min({b \in clear : FreeLength(bits, b, end) = longest})

\* bitmap_writeback: the bits from `first' on are set on the disk.
bitmap_writeback(s, first, n) ==
    IF n = 0 THEN s
    ELSE DeviceWrite(s, "set", [s EXCEPT !.bits = @ \cup (first .. first + n - 1)])

-----------------------------------------------------------------------------
\* ntfs_bitmap_clear_run: one run of clusters is free again on the disk.
ntfs_bitmap_clear_run(s, lcn, n) ==
    DeviceWrite(s, "clear", [s EXCEPT !.bits = @ \ (lcn .. lcn + n - 1)])


\* One run is freed, and counts as free once it is.
FreeRun(s, lcn, n) ==
    [ntfs_bitmap_clear_run(update_full_status(s, lcn), lcn, n)
        EXCEPT !.free = IF WriteFails(s) THEN @ ELSE @ + n]

\* ntfs_cluster_free_from_rl stops at the first run that it cannot free: that
\* run and the ones behind it stay marked.
RECURSIVE ntfs_cluster_free_from_rl(_, _)
FreeOthers(s, t, rl) ==
    IF t.failed # s.failed THEN [t EXCEPT !.kept = ClustersOf(rl)]
    ELSE ntfs_cluster_free_from_rl(t, Tail(rl))

ntfs_cluster_free_from_rl(s, rl) ==
    IF rl = <<>> \/ rl[1].length = 0 THEN s
    ELSE FreeOthers(s, IF rl[1].lcn >= 0 THEN FreeRun(s, rl[1].lcn, rl[1].length)
                                         ELSE s,
                    rl)

\* ntfs_cluster_free of all the clusters from start_vcn on: in the run that
\* holds start_vcn, from there; then the runs after it.  It stops at the same
\* failure, and counts what it freed before.
ntfs_cluster_free(s, rl, start_vcn) ==
    LET i == FindVcn(rl, start_vcn)
        delta == start_vcn - rl[i].vcn
        first == [rl[i] EXCEPT !.lcn = IF @ >= 0 THEN @ + delta ELSE @,
                               !.length = @ - delta]
    IN  IF rl[i].length = 0 THEN s
        ELSE ntfs_cluster_free_from_rl(s, <<first>> \o SubSeq(rl, i + 1, Len(rl)))
-----------------------------------------------------------------------------
(***************************************************************************)
(* ntfs_cluster_alloc, for DATA_ZONE.  The search is a record: the session *)
(* s, the runs found (rl), the clusters still to find (left), the zone and *)
(* the pass (1 from its position to its end, 2 from its start), the range  *)
(* of the pass (from, to), the bit to go on at, whether that bit is a good *)
(* guess, whether the position of the zone has been used, and the zones    *)
(* done.  A pass takes at most one range of each buffer it reads.          *)
(***************************************************************************)
Base(at) == (at \div ByteBits) * ByteBits
BufferEnd(at) == Min({Base(at) + BSize * ByteBits, BitmapBits})

\* A pass that starts where a zone starts is already the second one.
IsZoneBegin(lcn) == lcn \in {0, MftZoneStart, MftZoneEnd}

\* The bit of the buffer to allocate from, -1 for none.
FirstFree(a) ==
    IF a.guess THEN (IF a.at \in a.s.bits THEN -1 ELSE a.at)
    ELSE max_empty_bit_range(a.s.bits, Base(a.at), BufferEnd(a.at))

Allocated(a, runs) ==
    [s |-> a.s, err |-> "ok",
     rl |-> runs \o <<Run(EndOf(Last(runs)), LCN_RL_NOT_MAPPED, 0)>>]

\* What was found before the error is freed; an error of that goes unnoticed.
Failed(a, err) ==
    [s |-> ntfs_cluster_free_from_rl(a.s, a.rl), err |-> err, rl |-> <<>>]

\* n clusters from lcn on are taken, in the runlist and in the count.
Take(a, lcn, n) ==
    LET joins == a.rl # <<>> /\ Last(a.rl).lcn + Last(a.rl).length = lcn
        vcn == IF a.rl = <<>> THEN a.vcn ELSE EndOf(Last(a.rl))
    IN  [a EXCEPT !.rl = IF joins THEN Front(@) \o <<Longer(Last(@), n)>>
                                  ELSE Append(@, Run(vcn, lcn, n)),
                  !.left = @ - n,
                  !.guess = lcn + n = BufferEnd(a.at),
                  !.s.free = Max({@ - n, 0})]

NextZone(a) ==
    CASE a.zone = "mft" -> "data1"
      [] a.zone = "data1" -> "data2"
      [] a.zone = "data2" -> IF "data1" \in a.done THEN "mft" ELSE "data1"

\* The position of the zone that is left moves behind the last run.
LeaveZone(a) ==
    IF a.rl # <<>> /\ a.used
        THEN [a EXCEPT !.s = ntfs_cluster_update_zone_pos(
                  @, a.zone, Last(a.rl).lcn + Last(a.rl).length + Skip)]
        ELSE a

EnterZone(a, zone) ==
    [a EXCEPT !.zone = zone, !.from = a.s.pos[zone], !.at = a.s.pos[zone],
              !.to = ZoneEnd[zone],
              !.pass = IF a.s.pos[zone] = ZoneBegin[zone] THEN 2 ELSE 1]

RECURSIVE SearchZone(_), ZoneDone(_)

\* done_zones_check: the zone counts as full from now on.  An empty zone is
\* done as soon as it is entered.
ZoneDone(a) ==
    LET b == [a EXCEPT !.done = @ \cup {a.zone}, !.s.full = @ \cup {a.zone}]
        c == EnterZone(LeaveZone(b), NextZone(b))
    IN  IF b.done = Zones THEN Failed(b, "ENOSPC")
        ELSE IF c.from = c.to THEN ZoneDone(c)
        ELSE SearchZone(c)

\* zone_pass_done.
PassDone(a) ==
    LET begin == ZoneBegin[a.zone]
    IN  IF a.pass = 1
        THEN SearchZone([a EXCEPT !.pass = 2, !.from = begin, !.at = begin,
                                  !.to = Max({a.from, begin})])
        ELSE ZoneDone(a)

\* The next buffer; after a guess, the position of the zone.
NextBuffer(a) ==
    LET pos == a.s.pos[a.zone]
        b == IF a.used
             THEN [a EXCEPT !.at = BufferEnd(a.at)]
             ELSE [a EXCEPT !.used = TRUE, !.from = pos, !.at = pos,
                            !.pass = IF IsZoneBegin(pos) THEN 2 ELSE @]
    IN  IF b.at < b.to THEN SearchZone(b) ELSE PassDone(b)

\* The clusters taken from one buffer, n of them from lcn on, reach the disk.
\* The last cluster of the request moves the position of the zone.
TakeAndWrite(a, lcn, n) ==
    LET b == Take(a, lcn, n)
        c == IF b.left = 0 /\ a.used
             THEN [b EXCEPT !.s = ntfs_cluster_update_zone_pos(
                                      @, a.zone, lcn + n + Skip)]
             ELSE b
        d == [c EXCEPT !.s = bitmap_writeback(@, lcn, n)]
    IN  IF WriteFails(a.s) THEN Failed(d, "EIO")
        ELSE IF d.left = 0 THEN Allocated(d, d.rl)
        ELSE NextBuffer(d)

\* One buffer of $Bitmap.  Nothing is read past the end of $Bitmap.
SearchBuffer(a, lcn) ==
    IF lcn = -1 THEN NextBuffer([a EXCEPT !.guess = FALSE])
    ELSE TakeAndWrite(a, lcn,
             Min({a.left, FreeLength(a.s.bits, lcn, BufferEnd(a.at))}))

SearchZone(a) ==
    IF a.zone \in a.s.full \/ Base(a.at) >= BitmapBits THEN PassDone(a)
    ELSE SearchBuffer(a, FirstFree(a))

\* count > 0 clusters for the attribute from vcn on, if possible from
\* start_lcn on; without that guess, from the position of the zone data1.
ntfs_cluster_alloc(s, vcn, count, start_lcn) ==
    LET from == IF start_lcn < 0 THEN s.pos["data1"] ELSE start_lcn
    IN  SearchZone([s |-> s, rl |-> <<>>, vcn |-> vcn, left |-> count,
                    zone |-> ZoneOf(from), from |-> from, at |-> from,
                    to |-> ZoneEnd[ZoneOf(from)],
                    pass |-> IF IsZoneBegin(from) THEN 2 ELSE 1,
                    guess |-> start_lcn >= 0, used |-> start_lcn < 0,
                    done |-> {}])
=============================================================================
