----------------------------- MODULE MCNtfsVolume -----------------------------
(* The volume life cycle for TLC: see NtfsVolume.  Addresses are            *)
(* interchangeable, and so are controllers.                                 *)
EXTENDS NtfsVolume, TLC

Symmetry == Permutations(Controllers) \cup Permutations(Volumes)
                \cup Permutations(Handles)

=============================================================================
