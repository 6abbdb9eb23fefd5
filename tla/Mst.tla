--------------------------------- MODULE Mst ---------------------------------
(***************************************************************************)
(* Multi sector transfer protection (mst.c).  A record covers several      *)
(* sectors, and a write that is interrupted leaves sectors of two writes   *)
(* on the disk.  Before a write the last word of every sector is moved to  *)
(* the update sequence array in the first sector and replaced by the       *)
(* update sequence number; after a read all of them have to agree.         *)
(*                                                                         *)
(* A record is a record of TLA+ with one component per field that mst.c    *)
(* touches.  `magic', `valid', `usn' and `usa' are part of the first       *)
(* sector; `tail' is the last word of every sector and `body' the rest.    *)
(***************************************************************************)
EXTENDS Integers

CONSTANTS
    SectorCount,    \* sectors of a record: usa_count - 1
    UsnModulus      \* an update sequence number has 16 bits: 2^16

ASSUME MstAssumption ==
    /\ SectorCount \in Nat \ {0}
    /\ UsnModulus \in Nat
    /\ UsnModulus > 3

Sectors == 1 .. SectorCount

Words == 0 .. UsnModulus - 1

\* "FILE" is an MFT record, "BAAD" one that was found incomplete; "none" and
\* "other" stand for any other magic.
Magics == {"FILE", "BAAD", "none", "other"}

Record(Body) == [magic : Magics,
                 valid : BOOLEAN,
                 usn   : Words,
                 usa   : [Sectors -> Words],
                 tail  : [Sectors -> Words],
                 body  : [Sectors -> Body]]

\* The array has the length and the place it must have.
is_valid_record(b) == b.valid

\* Mutant: the number stays.
NextUsn_Same(usn) == usn

\* The number the next write uses: 16 bits wide, without 0 and 0xffff.
NextUsn(usn) ==
    LET next == IF usn = UsnModulus - 1 THEN 0 ELSE usn + 1
    IN  IF next = UsnModulus - 1 \/ next = 0 THEN 1 ELSE next

ntfs_mst_pre_write_fixup(b) ==
    LET usn == NextUsn(b.usn)
    IN  [b EXCEPT !.usn  = usn,
                  !.usa  = b.tail,
                  !.tail = [s \in Sectors |-> usn]]

ntfs_mst_post_write_fixup(b) == [b EXCEPT !.tail = b.usa]

Complete(b) == \A s \in Sectors : b.tail[s] = b.usn

ntfs_mst_post_read_fixup(b) ==
    IF ~is_valid_record(b) THEN b
    ELSE IF Complete(b) THEN [b EXCEPT !.tail = b.usa]
    ELSE [b EXCEPT !.magic = "BAAD"]

\* What the disk holds when only the sectors in `done' of record `new' were
\* written over record `old'.
Torn(old, new, done) ==
    LET pick(f, g) == [s \in Sectors |-> IF s \in done THEN g[s] ELSE f[s]]
        head == IF 1 \in done THEN new ELSE old
    IN  [head EXCEPT !.tail = pick(old.tail, new.tail),
                     !.body = pick(old.body, new.body)]

=============================================================================
