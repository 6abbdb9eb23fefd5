----------------------------- MODULE MCNtfsTime -----------------------------
(***************************************************************************)
(* The conversions on every day the 19-bit day number holds, 1 January     *)
(* 1601 to 14 June 3036, and every second of 31 December 1601.              *)
(***************************************************************************)
EXTENDS NtfsTime

MCMaxDay == 2^19 - 1
MCTickDays == {364}
MCNanoseconds == {99, 999999999}
=============================================================================
