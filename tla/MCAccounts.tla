----------------------------- MODULE MCAccounts -----------------------------
(***************************************************************************)
(* Instances of Accounts for TLC.                                          *)
(***************************************************************************)
EXTENDS Accounts, TLC

MCSymmetry == Permutations(Procs) \cup Permutations(Emails) \cup Permutations(Accounts)
=============================================================================
