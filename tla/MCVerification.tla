--------------------------- MODULE MCVerification ---------------------------
(***************************************************************************)
(* Instances of Verification for TLC.                                      *)
(***************************************************************************)
EXTENDS Verification, TLC

MCSymmetry == Permutations(Procs) \cup Permutations(Codes)
=============================================================================
