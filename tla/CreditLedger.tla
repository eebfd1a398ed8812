---------------------------- MODULE CreditLedger ----------------------------
(***************************************************************************)
(* What the file service promises about money, whatever its handlers do:   *)
(* a tuning file is charged to its customer and to its portal in one step  *)
(* or not at all, credits only move through such a charge or through a     *)
(* refund to the customer, a file is PAID only if it was charged, and a    *)
(* file that left UNPAID never returns to it.                              *)
(***************************************************************************)
EXTENDS Integers

CONSTANTS Files, Customers, Admins,
          CustomerOf, AdminOf,   \* the customer and the portal of each file
          Price, AdminPrice,     \* what a file costs to the one and to the other
          InitialCredits         \* balances accounts may start with

VARIABLES balance,   \* committed credits of each customer and portal
          charges,   \* charges[f]: number of times f was charged
          refunds,   \* refunds[f]: number of times f was refunded
          pay        \* pay[f]: the committed payment status of f

ledgerVars == <<balance, charges, refunds, pay>>

Accounts == Customers \cup Admins

Init ==
    /\ balance \in [Accounts -> InitialCredits]
    /\ charges = [f \in Files |-> 0]
    /\ refunds = [f \in Files |-> 0]
    /\ pay = [f \in Files |-> "UNPAID"]

\* Both accounts are debited and the file is settled, together.
Charge(f) ==
    /\ balance' = [balance EXCEPT ![CustomerOf[f]] = @ - Price[f],
                                  ![AdminOf[f]] = @ - AdminPrice[f]]
    /\ charges' = [charges EXCEPT ![f] = @ + 1]
    /\ \E s \in {"PAID", "REFUNDED"} : pay' = [pay EXCEPT ![f] = s]
    /\ UNCHANGED refunds

\* A charge for a file that was removed meanwhile: there is nothing to settle.
ChargeRemoved(f) ==
    /\ balance' = [balance EXCEPT ![CustomerOf[f]] = @ - Price[f],
                                  ![AdminOf[f]] = @ - AdminPrice[f]]
    /\ charges' = [charges EXCEPT ![f] = @ + 1]
    /\ UNCHANGED <<refunds, pay>>

\* The customer gets the price back.
Refund(f) ==
    /\ balance' = [balance EXCEPT ![CustomerOf[f]] = @ + Price[f]]
    /\ refunds' = [refunds EXCEPT ![f] = @ + 1]
    /\ UNCHANGED <<charges, pay>>

\* The payment status moves without money: it may be marked refunded, and a
\* charged file may be marked paid.
Mark(f) ==
    /\ \E s \in {"PAID", "REFUNDED"} :
          /\ s = "PAID" => charges[f] > 0
          /\ pay' = [pay EXCEPT ![f] = s]
    /\ UNCHANGED <<balance, charges, refunds>>

Next == \E f \in Files : Charge(f) \/ ChargeRemoved(f) \/ Refund(f) \/ Mark(f)

Spec == Init /\ [][Next]_ledgerVars
=============================================================================
