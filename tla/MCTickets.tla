----------------------------- MODULE MCTickets -----------------------------
(***************************************************************************)
(* Instances of Tickets for TLC: a ticket with a comment and a message, a  *)
(* file service with a message; the ticket and both messages may have a    *)
(* file.                                                                   *)
(***************************************************************************)
EXTENDS Tickets, TLC

CONSTANTS t1, f1, c1, m1, m2

MCMessageOf == [m \in Messages |-> IF m = m2 THEN f1 ELSE t1]
MCSymmetry == Permutations(Procs)
=============================================================================
