----------------------------- MODULE NtfsIndex -----------------------------
(***************************************************************************)
(* The index of a directory (index.c): a tree of nodes, of which the root  *)
(* is in the MFT record of the directory and the others are index blocks,  *)
(* numbered by VCN and marked in a bitmap while they are in use.  A node   *)
(* is a sequence of entries ordered by key; the last one has no key.  An   *)
(* entry may have the VCN of the node with the keys before its own.        *)
(*                                                                         *)
(* A call is an operator on the tree.  What can fail is the growth of the  *)
(* index allocation, when the volume is full.  Blocks are written in place *)
(* and the MFT record is written after the call; losing power in between   *)
(* is not modelled here.                                                   *)
(***************************************************************************)
EXTENDS Integers, SequencesExt

CONSTANTS
    Keys,       \* file names, as numbers in collation order
    KeyLength,  \* length of the index entry of a key, without a VCN
    VcnLength,  \* length that a VCN adds
    EndLength,  \* length of the last entry
    BlockSpace, \* allocated_size of an index block
    RootSpaces, \* room that an MFT record may have for the index root
    MaxBlocks,  \* blocks that the index allocation can grow to
    Loads       \* keys to add first, in order, and those that come and go then

End == 1 + Max(Keys)    \* collates after every key
NoVcn == -1
Root == -2              \* VCN_INDEX_ROOT_PARENT
Vcns == 0 .. MaxBlocks - 1

ASSUME IndexAssumption ==
    /\ Keys \subseteq Nat \ {0}
    /\ KeyLength \in [Keys -> Nat \ {0}]
    /\ VcnLength \in Nat \ {0} /\ EndLength \in Nat \ {0}
    /\ MaxBlocks \in Nat \ {0}
    \* A root without keys always fits its record, as index.c:1197 expects.
    /\ \A s \in RootSpaces : s >= EndLength + VcnLength
    /\ \A l \in Loads : l.keys \cup ToSet(l.first) \subseteq Keys
    \* At least two entries fit into a block beside the one that is added.
    /\ \A k, l, m \in Keys : Cardinality({k, l, m}) = 3 =>
          EndLength + KeyLength[k] + KeyLength[l] + KeyLength[m] + 4 * VcnLength
              <= BlockSpace

VARIABLES
    tree,   \* the index
    load,   \* the member of Loads that is tried
    held,   \* the keys in it: Held(tree), which the code does not keep
    answer, \* what the last call returned
    full    \* whether the volume had no room for the index to grow in it

vars == <<tree, load, held, answer, full>>

-----------------------------------------------------------------------------
(* Entries and nodes.                                                      *)

Entry(k, v) == [key |-> k, vcn |-> v]
HasVcn(e) == e.vcn # NoVcn

LengthOf(e) ==
    (IF e.key = End THEN EndLength ELSE KeyLength[e.key])
        + (IF HasVcn(e) THEN VcnLength ELSE 0)

\* ih_flags tells a node that has subnodes from a leaf.
Node(large, ents) == [large |-> large, ents |-> ents]

index_length(n) ==
    LET upto[i \in 0 .. Len(n.ents)] ==
            IF i = 0 THEN 0 ELSE upto[i - 1] + LengthOf(n.ents[i])
    IN  upto[Len(n.ents)]

ntfs_ih_numof_entries(n) == Len(n.ents) - 1

\* A block that is not in use has no contents that matter.
Free == Node(FALSE, << >>)

EmptyTree(space) ==
    [root |-> Node(FALSE, <<Entry(End, NoVcn)>>), blocks |-> [v \in Vcns |-> Free],
     bitmap |-> {}, grown |-> 0, space |-> space]

NodeAt(t, v) == IF v = Root THEN t.root ELSE t.blocks[v]

ntfs_ib_write(t, v, n) ==
    IF v = Root THEN [t EXCEPT !.root = n] ELSE [t EXCEPT !.blocks[v] = n]

Result(t, status) == [t |-> t, status |-> status]

\* STATUS_KEEP_SEARCHING: room was made, the place must be looked up again.
KeepSearching(r) == IF r.status = "ok" THEN Result(r.t, "again") ELSE r

-----------------------------------------------------------------------------
(* Searching.                                                              *)

\* ntfs_ie_lookup: the first entry that does not collate before the key.
ntfs_ie_lookup(n, k) == SelectInSeq(n.ents, LAMBDA e : e.key >= k)

At(v, pos) == [vcn |-> v, pos |-> pos]
EntryAt(t, at) == NodeAt(t, at.vcn).ents[at.pos]

\* ntfs_index_lookup: the way from the root to the entry with the key, or to
\* where it belongs.
RECURSIVE Descend(_, _, _)
Descend(t, k, path) ==
    LET e == EntryAt(t, Last(path))
    IN  IF e.key = k \/ ~ HasVcn(e) THEN path
        ELSE Descend(t, k, Append(path, At(e.vcn, ntfs_ie_lookup(t.blocks[e.vcn], k))))

ntfs_index_lookup(t, k) == Descend(t, k, <<At(Root, ntfs_ie_lookup(t.root, k))>>)

Found(t, k) == EntryAt(t, Last(ntfs_index_lookup(t, k))).key = k

\* ntfs_inode_lookup_by_name, by which files are opened, has a search of its
\* own, which a subnode of a leaf ends.
RECURSIVE LookupBelow(_, _, _)
LookupBelow(t, n, k) ==
    LET e == n.ents[SelectInSeq(n.ents, LAMBDA f : f.key = End \/ k <= f.key)]
    IN  IF e.key = k THEN "found"
        ELSE IF ~ HasVcn(e) THEN "absent"
        ELSE IF ~ n.large THEN "corrupt"
        ELSE LookupBelow(t, t.blocks[e.vcn], k)

ntfs_inode_lookup_by_name(t, k) == LookupBelow(t, t.root, k)

-----------------------------------------------------------------------------
(* Index blocks.                                                           *)

\* ntfs_ibm_get_free: the lowest VCN whose bit is clear.
FreeVcn(t) == Min((0 .. MaxBlocks) \ t.bitmap)

\* A new block cannot be written where the index allocation cannot grow.
Unwritable(t, v, nospace) == v >= MaxBlocks \/ (nospace /\ v >= t.grown)

NewBlock(t, v, n) ==
    [t EXCEPT !.blocks[v] = n, !.bitmap = @ \cup {v},
              !.grown = IF v < @ THEN @ ELSE v + 1]

\* Mutant: the bit stays set.
ntfs_ibm_clear_Kept(t, v) == t

ntfs_ibm_clear(t, v) == [t EXCEPT !.bitmap = @ \ {v}, !.blocks[v] = Free]

-----------------------------------------------------------------------------
(* Making room.                                                            *)

\* ntfs_ir_reparent: the entries of the root move to a new block.
ntfs_ir_reparent(t, nospace) ==
    LET v == FreeVcn(t)
    IN  IF Unwritable(t, v, nospace) THEN Result(t, "error")
        ELSE Result([NewBlock(t, v, t.root) EXCEPT
                        !.root = Node(TRUE, <<Entry(End, v)>>)], "ok")

ntfs_ir_make_space(t, size, nospace) ==
    IF size <= t.space THEN Result(t, "ok")
    ELSE KeepSearching(ntfs_ir_reparent(t, nospace))

\* Mutant: the new subnode is left of the new entry.
ntfs_ih_insert_Swapped(n, e, new, pos) ==
    [n EXCEPT !.ents = InsertAt(@, pos, Entry(e.key, new))]

\* ntfs_ih_insert: the new entry takes over the subnode of the entry at pos,
\* which gets the new one.
ntfs_ih_insert(n, e, new, pos) ==
    LET old == n.ents[pos]
    IN  [n EXCEPT !.ents = InsertAt(ReplaceAt(@, pos, Entry(old.key, new)),
                                    pos, Entry(e.key, old.vcn))]

MedianIntoRoot(r, e, new, pos) ==
    IF r.status # "ok" THEN r
    ELSE Result([r.t EXCEPT !.root = ntfs_ih_insert(@, e, new, pos)], "ok")

ntfs_ir_insert_median(t, e, new, pos, nospace) ==
    LET size == index_length(t.root) + LengthOf(e)
                + (IF HasVcn(e) THEN 0 ELSE VcnLength)
    IN  MedianIntoRoot(ntfs_ir_make_space(t, size, nospace), e, new, pos)

\* ntfs_ie_get_median.
Median(n) == ntfs_ih_numof_entries(n) \div 2 + 1

\* ntfs_ib_copy_tail and ntfs_ib_cut_tail, at the entry m.
Tailed(n, m) == [n EXCEPT !.ents = SubSeq(@, m + 1, Len(@))]

\* Mutant: the tail stays.
Headed_Uncut(n, m) == n

Headed(n, m) ==
    [n EXCEPT !.ents = Append(SubSeq(@, 1, m - 1), Entry(End, @[m].vcn))]

\* ntfs_ib_split of the block n at the end of the path: the entries after the
\* median go to a new block, the median goes to the parent, and, if that is
\* done, both leave the block.
RECURSIVE ntfs_ib_split(_, _, _, _)
ntfs_ib_insert(t, path, e, new, nospace) ==
    LET at == Last(path)
        n == t.blocks[at.vcn]
    IN  IF index_length(n) + LengthOf(e) + VcnLength > BlockSpace
        THEN KeepSearching(ntfs_ib_split(t, path, n, nospace))
        ELSE Result(ntfs_ib_write(t, at.vcn, ntfs_ih_insert(n, e, new, at.pos)), "ok")

MedianIntoParent(t, up, e, new, nospace) ==
    IF Len(up) = 1 THEN ntfs_ir_insert_median(t, e, new, Last(up).pos, nospace)
    ELSE ntfs_ib_insert(t, up, e, new, nospace)

EndSplit(r, v, n, new) ==
    IF r.status # "ok" THEN Result(ntfs_ibm_clear(r.t, new), r.status)
    ELSE Result(ntfs_ib_write(r.t, v, Headed(n, Median(n))), "ok")

ntfs_ib_split(t, path, n, nospace) ==
    LET new == FreeVcn(t)
    IN  IF Unwritable(t, new, nospace) THEN Result(t, "error")
        ELSE EndSplit(MedianIntoParent(NewBlock(t, new, Tailed(n, Median(n))),
                                       Front(path), n.ents[Median(n)], new, nospace),
                      Last(path).vcn, n, new)

-----------------------------------------------------------------------------
(* Adding.                                                                 *)

\* ntfs_ie_add: room is made and the place looked up again until it fits.
RECURSIVE ntfs_ie_add(_, _, _)
AddOnceRoomIsMade(r, k, nospace) ==
    IF r.status = "error" THEN r ELSE ntfs_ie_add(r.t, k, nospace)

AddAt(t, path, k, nospace) ==
    LET at == Last(path)
        n == NodeAt(t, at.vcn)
        size == index_length(n) + KeyLength[k]
    IN  IF n.ents[at.pos].key = k THEN Result(t, "error")
        ELSE IF size <= (IF at.vcn = Root THEN t.space ELSE BlockSpace)
        THEN Result(ntfs_ib_write(t, at.vcn,
                        [n EXCEPT !.ents = InsertAt(@, at.pos, Entry(k, NoVcn))]), "ok")
        ELSE AddOnceRoomIsMade(IF at.vcn = Root THEN ntfs_ir_make_space(t, size, nospace)
                               ELSE ntfs_ib_split(t, path, n, nospace), k, nospace)

ntfs_ie_add(t, k, nospace) == AddAt(t, ntfs_index_lookup(t, k), k, nospace)

-----------------------------------------------------------------------------
(* Removing.                                                               *)

\* Mutant: the entry is not added again.
ntfs_ih_takeout_Dropped(t, v, n, pos, nospace) ==
    Result(ntfs_ib_write(t, v, [n EXCEPT !.ents = RemoveAt(@, pos)]), "ok")

\* ntfs_ih_takeout: an entry whose subnode is gone leaves node n, which is
\* written as v, and is added again without a subnode.
ntfs_ih_takeout(t, v, n, pos, nospace) ==
    ntfs_ie_add(ntfs_ib_write(t, v, [n EXCEPT !.ents = RemoveAt(@, pos)]),
                n.ents[pos].key, nospace)

\* ntfs_ih_reparent_end: the last entry gets the subnode of the one before it.
ntfs_ih_reparent_end(t, v, n, pos, nospace) ==
    LET moved == [n EXCEPT !.ents = ReplaceAt(@, pos, Entry(End, @[pos - 1].vcn))]
    IN  ntfs_ih_takeout(t, v, moved, pos - 1, nospace)

ntfs_ir_leafify(t) == [t EXCEPT !.root = Node(FALSE, <<Entry(End, NoVcn)>>)]

\* ntfs_index_rm_leaf: the block at the end of the path has become empty.
RECURSIVE ntfs_index_rm_leaf(_, _, _)
ntfs_index_rm_leaf(t, path, nospace) ==
    LET up == Front(path)
        at == Last(up)
        t1 == ntfs_ibm_clear(t, Last(path).vcn)
        n == NodeAt(t1, at.vcn)
    IN  IF Len(path) = 1 THEN Result(t, "error")
        ELSE IF n.ents[at.pos].key # End
        THEN ntfs_ih_takeout(t1, at.vcn, n, at.pos, nospace)
        ELSE IF ntfs_ih_numof_entries(n) > 0
        THEN ntfs_ih_reparent_end(t1, at.vcn, n, at.pos, nospace)
        ELSE IF at.vcn = Root THEN Result(ntfs_ir_leafify(t1), "ok")
        ELSE ntfs_index_rm_leaf(t1, up, nospace)

\* The way from a subnode to its first leaf.
RECURSIVE Leftmost(_, _, _)
Leftmost(t, v, path) ==
    LET down == Append(path, At(v, 1))
    IN  IF t.blocks[v].large THEN Leftmost(t, t.blocks[v].ents[1].vcn, down) ELSE down

\* ntfs_index_rm_node: an entry with a subnode is replaced by the one after it,
\* which is the first of a leaf, if there is room for that.  Once room was made
\* in the root, ret is STATUS_OK and a failure after that is not reported.
ReportedAs(r, grows) == IF grows THEN Result(r.t, "ok") ELSE r

ReplaceBySuccessor(t, path, down, succ, grows, nospace) ==
    LET at == Last(path)
        n == NodeAt(t, at.vcn)
        leaf == Last(down).vcn
        t1 == ntfs_ib_write(t, at.vcn, [n EXCEPT !.ents = ReplaceAt(@, at.pos, succ)])
    IN  IF ntfs_ih_numof_entries(t.blocks[leaf]) = 1
        THEN ReportedAs(ntfs_index_rm_leaf(t1, down, nospace), grows /\ at.vcn = Root)
        ELSE Result(ntfs_ib_write(t1, leaf, [t.blocks[leaf] EXCEPT !.ents = Tail(@)]), "ok")

RemoveNodeAt(t, path, down, nospace) ==
    LET at == Last(path)
        n == NodeAt(t, at.vcn)
        leaf == t.blocks[Last(down).vcn]
        succ == Entry(leaf.ents[1].key, n.ents[at.pos].vcn)
        delta == LengthOf(succ) - LengthOf(n.ents[at.pos])
        size == index_length(n) + delta
    IN  IF ntfs_ih_numof_entries(leaf) = 0 THEN Result(t, "error")
        ELSE IF delta <= 0 \/ size <= (IF at.vcn = Root THEN t.space ELSE BlockSpace)
        THEN ReplaceBySuccessor(t, path, down, succ, delta > 0, nospace)
        ELSE IF at.vcn = Root THEN ntfs_ir_make_space(t, size, nospace)
        ELSE KeepSearching(ntfs_ib_split(t, path, n, nospace))

ntfs_index_rm_node(t, path, nospace) ==
    LET at == Last(path)
        next == [path EXCEPT ![Len(path)].pos = @ + 1]
    IN  RemoveNodeAt(t, path, Leftmost(t, NodeAt(t, at.vcn).ents[at.pos + 1].vcn, next), nospace)

\* Mutant: a leaf may become empty.
ntfs_index_rm_Empty(t, path, nospace) ==
    LET at == Last(path)
        n == NodeAt(t, at.vcn)
    IN  IF HasVcn(n.ents[at.pos]) THEN ntfs_index_rm_node(t, path, nospace)
        ELSE Result(ntfs_ib_write(t, at.vcn, [n EXCEPT !.ents = RemoveAt(@, at.pos)]), "ok")

ntfs_index_rm(t, path, nospace) ==
    LET at == Last(path)
        n == NodeAt(t, at.vcn)
    IN  IF HasVcn(n.ents[at.pos]) THEN ntfs_index_rm_node(t, path, nospace)
        ELSE IF at.vcn = Root \/ ntfs_ih_numof_entries(n) # 1
        THEN Result(ntfs_ib_write(t, at.vcn, [n EXCEPT !.ents = RemoveAt(@, at.pos)]), "ok")
        ELSE ntfs_index_rm_leaf(t, path, nospace)

RECURSIVE ntfs_index_remove(_, _, _)
RemoveOnceRoomIsMade(r, k, nospace) ==
    IF r.status = "again" THEN ntfs_index_remove(r.t, k, nospace) ELSE r

ntfs_index_remove(t, k, nospace) ==
    IF ~ Found(t, k) THEN Result(t, "error")
    ELSE RemoveOnceRoomIsMade(ntfs_index_rm(t, ntfs_index_lookup(t, k), nospace), k, nospace)

-----------------------------------------------------------------------------
\* The keys in a node and below it.
RECURSIVE KeysBelow(_, _)
KeysBelow(t, n) ==
    ({e.key : e \in ToSet(n.ents)} \ {End})
        \cup UNION {KeysBelow(t, t.blocks[e.vcn]) : e \in {f \in ToSet(n.ents) : HasVcn(f)}}

Held(t) == KeysBelow(t, t.root)

Init ==
    /\ load \in Loads
    /\ \E s \in RootSpaces : tree = EmptyTree(s)
    /\ held = Held(tree)
    /\ answer = "ok" /\ full = FALSE

Ends(r) ==
    /\ tree' = r.t /\ held' = Held(r.t) /\ answer' = r.status
    /\ load' = [load EXCEPT !.first = IF @ = << >> THEN @ ELSE Tail(@)]

AddEntry(k) ==
    /\ IF load.first = << >> THEN k \in load.keys
       ELSE k = Head(load.first) /\ ~ full'
    /\ Ends(ntfs_ie_add(tree, k, full'))

RemoveEntry(k) ==
    /\ load.first = << >>
    /\ Ends(ntfs_index_remove(tree, k, full'))

\* Other attributes of the MFT record come or go.
RecordChanges ==
    /\ load.first = << >>
    /\ \E s \in RootSpaces :
          s >= index_length(tree.root) /\ tree' = [tree EXCEPT !.space = s]
    /\ UNCHANGED <<load, held, answer, full>>

Next ==
    \/ /\ full' \in BOOLEAN
       /\ \/ \E k \in Keys : AddEntry(k)
          \/ \E k \in load.keys : RemoveEntry(k)
    \/ RecordChanges

Spec == Init /\ [][Next]_vars

-----------------------------------------------------------------------------
(* Listing.                                                                *)

\* The keys in a node, without the last entry.
KeysOf(n) == [i \in 1 .. ntfs_ih_numof_entries(n) |-> n.ents[i].key]

\* ntfs_readdir: the root, then the blocks in use by ascending VCN.
ntfs_readdir(t) ==
    FoldLeft(LAMBDA list, v : list \o KeysOf(t.blocks[v]), KeysOf(t.root),
             SelectSeq([i \in 1 .. MaxBlocks |-> i - 1], LAMBDA v : v \in t.bitmap))

\* ntfs_index_walk_up: to the first ancestor that is not a last entry.
RECURSIVE ntfs_index_walk_up(_, _)
ntfs_index_walk_up(t, path) ==
    LET up == Front(path)
    IN  IF Len(up) > 1 /\ EntryAt(t, Last(up)).key = End
        THEN ntfs_index_walk_up(t, up) ELSE up

\* ntfs_index_next: the path to the entry after the one at the end of path,
\* which has a key; it ends at a last entry if there is none.
ntfs_index_next(t, path) ==
    LET next == [path EXCEPT ![Len(path)].pos = @ + 1]
        e == EntryAt(t, Last(next))
    IN  IF HasVcn(e) THEN Leftmost(t, e.vcn, next)
        ELSE IF e.key = End /\ Len(path) > 1 THEN ntfs_index_walk_up(t, next)
        ELSE next

-----------------------------------------------------------------------------
(* Properties.                                                             *)

\* The blocks below a node.
RECURSIVE Below(_, _)
Below(t, n) ==
    FoldLeft(LAMBDA vs, e : IF HasVcn(e) THEN vs \o <<e.vcn>> \o Below(t, t.blocks[e.vcn]) ELSE vs,
             << >>, n.ents)

\* The lengths of the ways from a node to its leaves.
RECURSIVE Depths(_, _)
Depths(t, n) ==
    IF n.large THEN {1 + d : d \in UNION {Depths(t, t.blocks[e.vcn]) : e \in ToSet(n.ents)}}
    ELSE {0}

WellFormed(n, space) ==
    /\ \A i \in 1 .. Len(n.ents) :
          /\ n.ents[i].key \in Keys \cup {End} /\ n.ents[i].vcn \in Vcns \cup {NoVcn}
          /\ n.ents[i].key = End <=> i = Len(n.ents)
          /\ HasVcn(n.ents[i]) <=> n.large
    /\ index_length(n) <= space

TypeOK ==
    /\ tree.bitmap \subseteq Vcns /\ tree.grown \in 0 .. MaxBlocks
    /\ \A v \in tree.bitmap : v < tree.grown
    /\ WellFormed(tree.root, tree.space) /\ tree.space \in RootSpaces
    /\ \A v \in tree.bitmap : WellFormed(tree.blocks[v], BlockSpace)
    /\ held \subseteq Keys /\ answer \in {"ok", "error"}

\* Both searches, that of ntfs_index_lookup before a change and that of
\* ntfs_inode_lookup_by_name for opening, find a key exactly if a node that
\* can be reached has it, after whatever splits and removals.
Searchable ==
    \A k \in Keys :
        /\ Found(tree, k) <=> k \in held
        /\ ntfs_inode_lookup_by_name(tree, k) = IF k \in held THEN "found" ELSE "absent"

\* The bitmap marks exactly the blocks of the tree, each of which has one
\* parent: none is lost, none that is freed is still linked, none given twice.
BitmapExact ==
    LET below == Below(tree, tree.root)
    IN  IsInjective(below) /\ ToSet(below) = tree.bitmap

\* Both ways to go through a directory visit every file once: ntfs_readdir,
\* which goes by the bitmap and not along the tree, and ntfs_index_next, which
\* gets from every entry to the one that follows in order.
Enumerated ==
    LET list == ntfs_readdir(tree)
    IN  /\ IsInjective(list) /\ ToSet(list) = held
        /\ \A k \in held :
              LET later == {l \in held : l > k}
                  next == EntryAt(tree, Last(ntfs_index_next(tree,
                                                 ntfs_index_lookup(tree, k))))
              IN  next.key = IF later = {} THEN End ELSE Min(later)

\* Every node is in order and fits into its space, all leaves are equally
\* deep and none but the root is empty: a removal
\* never meets the "Empty index block" that ntfs_index_rm_node gives up on.
Balanced ==
    /\ TypeOK
    /\ Cardinality(Depths(tree, tree.root)) = 1
    /\ \A v \in tree.bitmap :
          ~ tree.blocks[v].large => ntfs_ih_numof_entries(tree.blocks[v]) > 0

Names == INSTANCE DirSet WITH names <- held

\* The tree implements the set of names: splitting, moving separators and
\* merging neither lose, add nor bring back a name, and a call fails only for
\* a name that is there already, or is not there.  Where the volume is full a
\* call may fail besides, and a removal, and only that, may lose the one name
\* that ntfs_ih_takeout moves.
ImplementsDirSet == Names!Spec

\* "Return 0 on success or -1 on error" (ntfs_index_rm): where a call reports
\* success, no other name than the one it was given has come or gone.
SuccessIsComplete ==
    [][answer' = "ok" => Cardinality((held \ held') \cup (held' \ held)) <= 1]_vars
=============================================================================
