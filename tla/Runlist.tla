------------------------------ MODULE Runlist ------------------------------
(***************************************************************************)
(* Runlists of libntfs-3g: where the clusters of an attribute are on the   *)
(* volume.  An element maps `length' clusters of the attribute from `vcn'  *)
(* to the clusters of the volume from `lcn'; a negative lcn is a hole, a   *)
(* part not mapped yet or the end of the attribute.  The last element has  *)
(* length 0.  Positions are counted from 1 where the code counts from 0.   *)
(***************************************************************************)
EXTENDS Integers, SequencesExt

LCN_HOLE == -1
LCN_RL_NOT_MAPPED == -2
LCN_ENOENT == -3

Run(vcn, lcn, length) == [vcn |-> vcn, lcn |-> lcn, length |-> length]

EndOf(e) == e.vcn + e.length
Longer(e, by) == [e EXCEPT !.length = @ + by]

\* The first element at or after i that satisfies a test.
FirstRun(rl, i, Test(_)) ==
    CHOOSE j \in i .. Len(rl) :
        Test(rl[j]) /\ \A k \in i .. j - 1 : ~ Test(rl[k])

\* The clusters of the volume that a runlist refers to.
ClustersOf(rl) ==
    UNION {rl[i].lcn .. rl[i].lcn + rl[i].length - 1 :
               i \in {j \in DOMAIN rl : rl[j].lcn >= 0}}

\* ntfs_attr_find_vcn on a runlist that is mapped as a whole: the element
\* that holds vcn, and the terminator when there is none.
FindVcn(rl, vcn) == FirstRun(rl, 1, LAMBDA e : e.length = 0 \/ vcn < EndOf(e))

-----------------------------------------------------------------------------
ntfs_rl_are_mergeable(dst, src) ==
    \/ dst.lcn = LCN_RL_NOT_MAPPED /\ src.lcn = LCN_RL_NOT_MAPPED
    \/ /\ EndOf(dst) = src.vcn
       /\ \/ dst.lcn >= 0 /\ src.lcn >= 0 /\ dst.lcn + dst.length = src.lcn
          \/ dst.lcn = LCN_HOLE /\ src.lcn = LCN_HOLE

\* The last run of src takes over the run `next' that continues it.
MergedRight(src, next) == Front(src) \o <<Longer(Last(src), next.length)>>

\* The length of the attribute may have changed: its end marker moves.
EndMoved(tail, vcn) ==
    IF tail # <<>> /\ tail[1].lcn = LCN_ENOENT
        THEN <<[tail[1] EXCEPT !.vcn = vcn]>> \o Tail(tail)
        ELSE tail

\* src goes to the end of the hole at loc.
ntfs_rl_append(dst, src, loc) ==
    LET right == loc < Len(dst) /\ ntfs_rl_are_mergeable(Last(src), dst[loc + 1])
        new == IF right THEN MergedRight(src, dst[loc + 1]) ELSE src
        tail == SubSeq(dst, IF right THEN loc + 2 ELSE loc + 1, Len(dst))
    IN  SubSeq(dst, 1, loc - 1)
            \o <<[dst[loc] EXCEPT !.length = src[1].vcn - dst[loc].vcn]>>
            \o new \o EndMoved(tail, EndOf(Last(new)))

\* src goes before the element at loc, with an unmapped run before it when
\* it does not continue what dst holds.
ntfs_rl_insert(dst, src, loc) ==
    LET left == loc > 1 /\ ntfs_rl_are_mergeable(dst[loc - 1], src[1])
        head == IF left
                THEN SubSeq(dst, 1, loc - 2)
                         \o <<Longer(dst[loc - 1], src[1].length)>>
                ELSE SubSeq(dst, 1, loc - 1)
        gap == IF head = <<>> THEN 0 ELSE EndOf(Last(head))
        disc == src[1].vcn > gap
        new == head
               \o (IF disc THEN <<Run(gap, LCN_RL_NOT_MAPPED, src[1].vcn - gap)>>
                           ELSE <<>>)
               \o (IF left THEN Tail(src) ELSE src)
        vcn == EndOf(Last(new))
        next == [dst[loc] EXCEPT !.vcn = vcn,
                    !.length = IF dst[loc].lcn \in {LCN_HOLE, LCN_RL_NOT_MAPPED}
                                   THEN dst[loc + 1].vcn - vcn
                                   ELSE @]
    IN  new \o <<next>> \o SubSeq(dst, loc + 1, Len(dst))

\* src takes the place of the hole at loc.
ntfs_rl_replace(dst, src, loc) ==
    LET right == loc < Len(dst) /\ ntfs_rl_are_mergeable(Last(src), dst[loc + 1])
        left == loc > 1 /\ ntfs_rl_are_mergeable(dst[loc - 1], src[1])
        new == IF right THEN MergedRight(src, dst[loc + 1]) ELSE src
        joined == IF left
                  THEN SubSeq(dst, 1, loc - 2)
                           \o <<Longer(dst[loc - 1], new[1].length)>> \o Tail(new)
                  ELSE SubSeq(dst, 1, loc - 1) \o new
        tail == SubSeq(dst, IF right THEN loc + 2 ELSE loc + 1, Len(dst))
    IN  joined \o EndMoved(tail, EndOf(Last(joined)))

\* src goes into the middle of the hole at loc.
ntfs_rl_split(dst, src, loc) ==
    LET vcn == EndOf(Last(src))
    IN  SubSeq(dst, 1, loc - 1)
            \o <<[dst[loc] EXCEPT !.length = src[1].vcn - dst[loc].vcn]>>
            \o src
            \o <<[dst[loc] EXCEPT !.vcn = vcn,
                                  !.length = dst[loc + 1].vcn - vcn]>>
            \o SubSeq(dst, loc + 1, Len(dst))

-----------------------------------------------------------------------------
\* A merged runlist whose source held the end of the attribute, at vcn.
MarkedEnd(rl, vcn) ==
    IF Last(rl).vcn = vcn THEN Front(rl) \o <<[Last(rl) EXCEPT !.lcn = LCN_ENOENT]>>
                          ELSE rl

\* ntfs_runlists_merge for a source that is mapped from its first run and
\* starts at a hole of drl or at its end.
ntfs_runlists_merge(drl, srl) ==
    LET dins == FindVcn(drl, srl[1].vcn)
        at == drl[dins]
        marker == Last(srl).lcn = LCN_ENOENT
        last == srl[Len(srl) - 1]
        src == IF at.length = 0 /\ at.lcn >= LCN_RL_NOT_MAPPED
                   THEN srl ELSE Front(srl)
        start == at.lcn < LCN_RL_NOT_MAPPED \/ at.vcn = srl[1].vcn
        finish == /\ at.lcn >= LCN_RL_NOT_MAPPED
                  /\ EndOf(at) <= EndOf(last)
                  /\ ~ (marker /\ EndOf(at) > last.vcn)
        merged ==
            CASE start /\ finish   -> ntfs_rl_replace(drl, src, dins)
              [] start /\ ~ finish -> ntfs_rl_insert(drl, src, dins)
              [] ~ start /\ finish -> ntfs_rl_append(drl, src, dins)
              [] OTHER             -> ntfs_rl_split(drl, src, dins)
    IN  IF marker THEN MarkedEnd(merged, Last(srl).vcn) ELSE merged

\* The runlist up to start_vcn, which lies before its end.
ntfs_rl_truncate(rl, start_vcn) ==
    LET i == FindVcn(rl, start_vcn)
        kept == start_vcn - rl[i].vcn
    IN  SubSeq(rl, 1, i - 1)
            \o (IF kept > 0 THEN <<[rl[i] EXCEPT !.length = kept]>> ELSE <<>>)
            \o <<Run(start_vcn, LCN_ENOENT, 0)>>

ntfs_rl_sparse(rl) == \E i \in DOMAIN rl : rl[i].length > 0 /\ rl[i].lcn < 0

\* In clusters.
ntfs_rl_get_compressed_size(rl) ==
    FoldLeft(LAMBDA n, e : n + (IF e.lcn >= 0 THEN e.length ELSE 0), 0, rl)
=============================================================================
