-------------------------- MODULE MCPricingMatrix --------------------------
(***************************************************************************)
(* Instances of PricingMatrix for TLC: two portals, the first with a       *)
(* second customer type.                                                   *)
(***************************************************************************)
EXTENDS PricingMatrix, TLC

CONSTANTS a1, a2, d1, d2, t1

MCAdminOf == [t \in Types |-> IF t = d2 THEN a2 ELSE a1]
MCDefaultOf == [a \in Admins |-> IF a = a2 THEN d2 ELSE d1]
MCSymmetry == Permutations(Procs) \cup Permutations(Solutions)
=============================================================================
