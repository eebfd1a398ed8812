----------------------------- MODULE MCScripts -----------------------------
(***************************************************************************)
(* Instances of Scripts for TLC.                                           *)
(***************************************************************************)
EXTENDS Scripts, TLC

MCSymmetry == Permutations(Procs) \cup Permutations(Names)
                \cup Permutations(ScriptIds) \cup Permutations(Controllers)
=============================================================================
