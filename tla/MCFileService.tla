---------------------------- MODULE MCFileService ----------------------------
(***************************************************************************)
(* Instances of FileService for TLC: one customer and one portal, files     *)
(* that cost them 1 credit each.                                           *)
(***************************************************************************)
EXTENDS FileService, TLC

CONSTANTS c1, a1

MCCustomerOf == [f \in Files |-> c1]
MCAdminOf == [f \in Files |-> a1]
MCPrice == [f \in Files |-> 1]
MCAdminPrice == [f \in Files |-> 1]
\* Handlers are interchangeable.
MCSymmetry == Permutations(Procs)

=============================================================================
