----------------------------- MODULE MCNtfsFile -----------------------------
(***************************************************************************)
(* A small volume for NtfsFile with a large root directory.                *)
(***************************************************************************)
EXTENDS NtfsFile, TLC

Symmetry == Permutations(Handles)

MCUpcase == [n \in Names |-> IF n = "A" THEN "a" ELSE n]

MCIndexOrder == <<"a", "b">>

\* Subdirectories; a name in two spellings; growing files.
MCWorkloads ==
    {[paths |-> {<<"a">>, <<"a", "a">>, <<"b">>}, files |-> 2, size |-> 0,
      ro |-> {FALSE}, faults |-> 1],
     [paths |-> {<<"a">>, <<"A">>}, files |-> 1, size |-> 0,
      ro |-> BOOLEAN, faults |-> 0],
     [paths |-> {<<"a">>, <<".", "a">>}, files |-> 1, size |-> 2,
      ro |-> {FALSE}, faults |-> 0]}
=============================================================================
