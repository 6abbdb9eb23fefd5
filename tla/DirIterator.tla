---------------------------- MODULE DirIterator ----------------------------
(***************************************************************************)
(* What a caller expects of Read() on a directory handle: the entries that *)
(* the directory had when it was opened, one per call and each once, then  *)
(* an empty answer; a buffer that is too small changes nothing; setting    *)
(* the position to zero starts again.                                      *)
(***************************************************************************)
EXTENDS Naturals, Sequences

CONSTANT Files

VARIABLES
    listing,    \* the entries of the open handle
    given       \* the number of entries returned since the start

vars == <<listing, given>>

Init == listing = << >> /\ given = 0

Open == listing' \in Seq(Files) /\ given' = 0

ReadEntry ==
    /\ given < Len(listing)
    /\ given' = given + 1
    /\ UNCHANGED listing

Rewind == given' = 0 /\ UNCHANGED listing

Next == Open \/ ReadEntry \/ Rewind

Spec == Init /\ [][Next]_vars
=============================================================================
