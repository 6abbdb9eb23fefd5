---------------------------- MODULE MCNtfsCache ----------------------------
(* An instance of NtfsCache for TLC: more keys than entries, and two keys  *)
(* on each hash chain.                                                      *)
EXTENDS NtfsCache, TLC

CONSTANTS k1, k2, k3, k4

MCKeys == {k1, k2, k3, k4}
MCHashes == {0, 1}
MCHash == (k1 :> 0) @@ (k2 :> 0) @@ (k3 :> 1) @@ (k4 :> 1)
=============================================================================
