-------------------------- MODULE MCNtfsDirectory --------------------------
(* An instance of NtfsDirectory for TLC.                                    *)
EXTENDS NtfsDirectory
=============================================================================
