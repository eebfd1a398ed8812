----------------------------- MODULE MCPurchase -----------------------------
(***************************************************************************)
(* Instances of Purchase for TLC: a customer buys by invoices of different *)
(* sizes, one of them for EVC credits, and its portal buys from the super  *)
(* admin.                                                                  *)
(***************************************************************************)
EXTENDS Purchase, TLC

CONSTANTS i1, i2, i3, i4, customer, portal, own, super

MCOwnerOf == [i \in Invoices |-> IF i = i4 THEN portal ELSE customer]
MCSellerOf == [i \in Invoices |-> IF i = i4 THEN super ELSE own]
MCQuantity == [i \in Invoices |-> IF i = i1 THEN 1 ELSE 2]
MCSymmetry == Permutations(Procs)

\* The calculation of VAT has no state: it is compared over small amounts.
ASSUME VatAssumption == VatFits({0, 7, 19}, 1 .. 3)
=============================================================================
