------------------------------ MODULE MCNtfsFix ------------------------------
(***************************************************************************)
(* NtfsFix with two MFT records of two sectors: one that the startup reads *)
(* and one with the volume flags.                                          *)
(***************************************************************************)
EXTENDS NtfsFix

=============================================================================
