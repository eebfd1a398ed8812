------------------------------ MODULE Purchase ------------------------------
(***************************************************************************)
(* Buying credits (src/src/features/purchase and invoice).  A customer or  *)
(* a portal asks for a payment link: an invoice is saved and a PayPal      *)
(* order created.  After the payer approved the order PayPal redirects to  *)
(* the server with an invoice and an order.  The server captures the       *)
(* order, marks the invoice PAID and adds its credits; that the order was  *)
(* created for this invoice, or that the invoice is still UNPAID, it does  *)
(* not ask.  PayPal and EVC are no part of the database transaction: what  *)
(* they did stays done when it aborts.  One handler step is one awaited    *)
(* operation.  An order is named after the invoice it was created for.     *)
(***************************************************************************)
EXTENDS Integers, FiniteSets, MongoTx

CONSTANTS
    Invoices,
    Accounts,       \* customers and portals
    OwnerOf,        \* the account an invoice buys credits for
    Sellers,        \* PayPal accounts of the portals and of the super admin
    SellerOf,       \* the one that an invoice is paid to
    EvcInvoices,    \* those that buy EVC credits, which are kept by EVC
    Quantity,       \* credits bought
    NoInvoice,      \* target of an idle handler, order of an unpaid invoice
    MaxFaults,      \* bound: failed external or database calls
    MaxCrashes      \* bound: restarts of the server

ASSUME InvoicesAssumption ==
    /\ OwnerOf \in [Invoices -> Accounts]
    /\ SellerOf \in [Invoices -> Sellers]
    /\ Quantity \in [Invoices -> Nat]
    /\ EvcInvoices \subseteq Invoices
    /\ NoInvoice \notin Invoices
    /\ Invoices \cap Accounts = {}

ASSUME FaultsAssumption == MaxFaults \in Nat /\ MaxCrashes \in Nat

VARIABLES
    invoice,        \* absent until committed, then UNPAID or PAID
    orderId,        \* the order that an invoice names as its payment
    balance,        \* credits of each account
    order,          \* PayPal: none, created, approved, captured
    evc,            \* EVC: how often credits were added for an order
    pc, op,         \* handlers, with
    target, paying, \*   the invoice and the order they work on
    paid,           \* observation: all the <<invoice, order>> ever saved as PAID
    faults, crashes

docVars == <<invoice, orderId, balance, paid>>
remoteVars == <<order, evc>>
procVars == <<pc, op, target, paying>>
boundVars == <<faults, crashes>>
vars == <<docVars, remoteVars, txVars, procVars, boundVars>>

Docs == Invoices \cup Accounts
Points == {"idle", "invoice", "order", "capture", "save", "credit", "evc", "commit"}

TypeOK ==
    /\ invoice \in [Invoices -> {"absent", "UNPAID", "PAID"}]
    /\ orderId \in [Invoices -> Invoices \cup {NoInvoice}]
    /\ balance \in [Accounts -> Nat]
    /\ order \in [Invoices -> {"none", "created", "approved", "captured"}]
    /\ evc \in [Invoices -> Nat]
    /\ TxTypeOK(Docs)
    /\ pc \in [Procs -> Points]
    /\ op \in [Procs -> {"none", "purchase", "verify"}]
    /\ target \in [Procs -> Invoices \cup {NoInvoice}]
    /\ paying \in [Procs -> Invoices \cup {NoInvoice}]
    /\ \A p \in Procs : pc[p] # "idle" =>
          target[p] \in Invoices /\ paying[p] \in Invoices /\ op[p] # "none"
    /\ paid \subseteq Invoices \X Invoices
    /\ faults \in Nat
    /\ crashes \in Nat

\* Nothing was bought yet; an invoice is created without an order (its schema).
Init ==
    /\ invoice = [i \in Invoices |-> "absent"]
    /\ orderId = [i \in Invoices |-> NoInvoice]
    /\ balance = [a \in Accounts |-> 0]
    /\ order = [i \in Invoices |-> "none"]
    /\ evc = [i \in Invoices |-> 0]
    /\ TxInit
    /\ pc = [p \in Procs |-> "idle"]
    /\ op = [p \in Procs |-> "none"]
    /\ target = [p \in Procs |-> NoInvoice]
    /\ paying = [p \in Procs |-> NoInvoice]
    /\ paid = {}
    /\ faults = 0
    /\ crashes = 0

-----------------------------------------------------------------------------
(* How a handler moves on. *)

Take(p, what, i, o, s) ==
    /\ pc[p] = "idle"
    /\ pc' = [pc EXCEPT ![p] = s]
    /\ op' = [op EXCEPT ![p] = what]
    /\ target' = [target EXCEPT ![p] = i]
    /\ paying' = [paying EXCEPT ![p] = o]

Goto(p, s) ==
    /\ pc' = [pc EXCEPT ![p] = s]
    /\ UNCHANGED <<op, target, paying>>

Leave(p) ==
    /\ pc' = [pc EXCEPT ![p] = "idle"]
    /\ op' = [op EXCEPT ![p] = "none"]
    /\ target' = [target EXCEPT ![p] = NoInvoice]
    /\ paying' = [paying EXCEPT ![p] = NoInvoice]

\* The invoice names the order that paid it.
Pay(i, o) ==
    /\ invoice' = [invoice EXCEPT ![i] = "PAID"]
    /\ orderId' = [orderId EXCEPT ![i] = o]
    /\ paid' = paid \cup {<<i, o>>}

\* The transaction is abandoned, and with it what was written in it.
Abort(p) == TxAbort(p) /\ Leave(p)

-----------------------------------------------------------------------------
(* What an invoice asks: prices in units, amounts and VAT in hundredths. *)

EuCountries == {"DE", "FR"}
Parties == [country : EuCountries \cup {"CH"}, vatNumber : {"none", "valid", "invalid"}]

\* The numbers of parties in the EU are looked up before an invoice is written.
NumberAccepted(party) ==
    party.country \in EuCountries /\ party.vatNumber # "none" => party.vatNumber = "valid"

\* VAT is left out between two countries of the EU for a buyer with a number.
ReverseCharge(seller, buyer) ==
    /\ seller.country \in EuCountries /\ buyer.country \in EuCountries
    /\ seller.country # buyer.country
    /\ buyer.vatNumber # "none"

CalculateVat(seller, rate, buyer, price) ==
    LET vat == IF rate = 0 \/ ReverseCharge(seller, buyer) THEN 0 ELSE price * rate IN
    [totalPrice |-> 100 * price, vatAmount |-> vat, grandTotal |-> 100 * price + vat,
     reverseCharge |-> rate # 0 /\ ReverseCharge(seller, buyer)]

-----------------------------------------------------------------------------
(* purchaseCredits and purchaseAdminCredits. *)

\* The numbers of both parties (NumberAccepted), the EVC number and the prices were
\* checked and found.
PurchaseCredits(p, i) ==
    /\ invoice[i] = "absent"
    /\ order[i] = "none"
    /\ \A q \in Procs : target[q] # i
    /\ Take(p, "purchase", i, i, "invoice")
    /\ UNCHANGED <<docVars, remoteVars, txVars, boundVars>>

SaveInvoice(p) ==
    /\ pc[p] = "invoice"
    /\ SessionWrite(p, target[p])
    /\ Goto(p, "order")
    /\ UNCHANGED <<docVars, remoteVars, boundVars>>

CreateOrder(p) ==
    /\ pc[p] = "order"
    /\ order' = [order EXCEPT ![target[p]] = "created"]
    /\ Goto(p, "commit")
    /\ UNCHANGED <<docVars, evc, txVars, boundVars>>

\* External: the payer, who got the link, approves the order.
PayerApproves(i) ==
    /\ invoice[i] # "absent"
    /\ order[i] = "created"
    /\ order' = [order EXCEPT ![i] = "approved"]
    /\ UNCHANGED <<docVars, evc, txVars, procVars, boundVars>>

-----------------------------------------------------------------------------
(* verifyAndSaveCredits. *)

\* The redirect from PayPal: a request names an invoice and an order.  The payer
\* may load the page again.
VerifyAndSaveCredits(p, i, o) ==
    /\ invoice[i] # "absent"
    /\ order[o] # "none"
    /\ Take(p, "verify", i, o, "capture")
    /\ UNCHANGED <<docVars, remoteVars, txVars, boundVars>>

\* PayPal captures an approved order once, for the account it is paid to, and
\* refuses any other.  The server asks with the credentials of the invoice's seller.
Capturable(p) ==
    /\ order[paying[p]] = "approved"
    /\ SellerOf[paying[p]] = SellerOf[target[p]]

CaptureOrder(p) ==
    /\ pc[p] = "capture"
    /\ IF Capturable(p)
       THEN /\ order' = [order EXCEPT ![paying[p]] = "captured"]
            /\ Goto(p, "save")
            /\ UNCHANGED <<evc, txVars>>
       ELSE /\ Abort(p)
            /\ UNCHANGED remoteVars
    /\ UNCHANGED <<docVars, boundVars>>

\* Variant: the status of the answer is not compared.
CaptureNotCompleted_Unchecked(p) ==
    /\ pc[p] = "capture"
    /\ Capturable(p)
    /\ Goto(p, "save")
    /\ UNCHANGED <<docVars, remoteVars, txVars, boundVars>>

\* An answer whose status is not COMPLETED: the handler returns false.
CaptureNotCompleted(p) ==
    /\ pc[p] = "capture"
    /\ Capturable(p)
    /\ Abort(p)
    /\ UNCHANGED <<docVars, remoteVars, boundVars>>

\* Variant: the invoice is saved without the session.
MarkPaid_NoSession(p) ==
    /\ pc[p] = "save"
    /\ PlainWrite(target[p])
    /\ Pay(target[p], paying[p])
    /\ Goto(p, IF target[p] \in EvcInvoices THEN "evc" ELSE "credit")
    /\ UNCHANGED <<balance, remoteVars, boundVars>>

MarkPaid(p) ==
    /\ pc[p] = "save"
    /\ SessionWrite(p, target[p])
    /\ Goto(p, IF target[p] \in EvcInvoices THEN "evc" ELSE "credit")
    /\ UNCHANGED <<docVars, remoteVars, boundVars>>

\* EVC adds the credits; its answer is not looked at.
AddEvcBalance(p) ==
    /\ pc[p] = "evc"
    /\ evc' = [evc EXCEPT ![paying[p]] = @ + 1]
    /\ Goto(p, "commit")
    /\ UNCHANGED <<docVars, order, txVars, boundVars>>

\* Variant: the account is updated without the session.
UpdateCredit_NoSession(p) ==
    LET a == OwnerOf[target[p]] IN
    /\ pc[p] = "credit"
    /\ PlainWrite(a)
    /\ balance' = [balance EXCEPT ![a] = @ + Quantity[target[p]]]
    /\ Goto(p, "commit")
    /\ UNCHANGED <<invoice, orderId, paid, remoteVars, boundVars>>

UpdateCredit(p) ==
    /\ pc[p] = "credit"
    /\ SessionWrite(p, OwnerOf[target[p]])
    /\ Goto(p, "commit")
    /\ UNCHANGED <<docVars, remoteVars, boundVars>>

-----------------------------------------------------------------------------

\* Variant: the quantity is taken from the account.
Bought_Debit(i) == -Quantity[i]

\* What a payment of an invoice adds to its account.
Bought(i) == Quantity[i]

\* What the transaction of p wrote takes effect: the invoice and the account.
Commit(p) ==
    LET i == target[p]
        a == OwnerOf[i] IN
    /\ pc[p] = "commit"
    /\ TxCommit(p)
    /\ IF op[p] = "verify" /\ i \in locks[p] THEN Pay(i, paying[p])
       ELSE /\ invoice' = IF i \in locks[p] THEN [invoice EXCEPT ![i] = "UNPAID"] ELSE invoice
            /\ UNCHANGED <<orderId, paid>>
    /\ balance' = IF a \in locks[p] THEN [balance EXCEPT ![a] = @ + Bought(i)] ELSE balance
    /\ Leave(p)
    /\ UNCHANGED <<remoteVars, boundVars>>

\* A session write that MongoDB refuses.
WriteConflict(p) ==
    /\ \/ pc[p] \in {"invoice", "save"} /\ Conflict(p, target[p])
       \/ pc[p] = "credit" /\ Conflict(p, OwnerOf[target[p]])
    /\ Abort(p)
    /\ UNCHANGED <<docVars, remoteVars, boundVars>>

\* Variant: after a failure the handler tries its last step again.
Fail_Retry(p) ==
    /\ pc[p] # "idle"
    /\ faults < MaxFaults
    /\ faults' = faults + 1
    /\ Goto(p, IF pc[p] = "commit" /\ op[p] = "verify" /\ target[p] \in EvcInvoices
               THEN "evc" ELSE pc[p])
    /\ UNCHANGED <<docVars, remoteVars, txVars, crashes>>

\* A call to PayPal, EVC or MongoDB fails.
Fail(p) ==
    /\ pc[p] # "idle"
    /\ faults < MaxFaults
    /\ faults' = faults + 1
    /\ Abort(p)
    /\ UNCHANGED <<docVars, remoteVars, crashes>>

\* The server restarts.
Crash ==
    /\ crashes < MaxCrashes
    /\ crashes' = crashes + 1
    /\ TxCrash
    /\ pc' = [p \in Procs |-> "idle"]
    /\ op' = [p \in Procs |-> "none"]
    /\ target' = [p \in Procs |-> NoInvoice]
    /\ paying' = [p \in Procs |-> NoInvoice]
    /\ UNCHANGED <<docVars, remoteVars, faults>>

\* The steps of a handler that is answered.
ProgressStep(p) ==
    \/ SaveInvoice(p)
    \/ CreateOrder(p)
    \/ CaptureOrder(p)
    \/ CaptureNotCompleted(p)
    \/ MarkPaid(p)
    \/ AddEvcBalance(p)
    \/ UpdateCredit(p)
    \/ Commit(p)
    \/ WriteConflict(p)

Next ==
    \/ \E p \in Procs, i \in Invoices : PurchaseCredits(p, i)
    \/ \E p \in Procs, i, o \in Invoices : VerifyAndSaveCredits(p, i, o)
    \/ \E i \in Invoices : PayerApproves(i)
    \/ \E p \in Procs : ProgressStep(p) \/ Fail(p)
    \/ Crash

Spec == Init /\ [][Next]_vars

\* Handlers go on when what they await is done, which no failure is needed for;
\* nobody has to buy or to pay.
FairSpec == Spec /\ \A p \in Procs : WF_vars(ProgressStep(p))

-----------------------------------------------------------------------------
(* Properties. *)

\* An order pays once: whatever fails, however often the payer comes back and
\* with whichever invoice, no two invoices get their credits for one order, here
\* or at EVC, and EVC, which no abort takes back, adds them at most once
\* (verifyAndSaveCredits).
CreditedOnce ==
    /\ \A x, y \in paid : x[2] = y[2] => x = y
    /\ \A o \in Invoices : evc[o] <= 1
    /\ \A x \in paid : evc[x[2]] = IF x[1] \in EvcInvoices THEN 1 ELSE 0

\* The payments that added credits here for an account.
PaymentsOf(a) == {x \in paid : x[1] \notin EvcInvoices /\ OwnerOf[x[1]] = a}

\* The credits they bought, one by one.
PaidCredits(a) == UNION {{x} \X (1 .. Quantity[x[1]]) : x \in PaymentsOf(a)}

\* What an account holds is what was bought for it: the quantity of an invoice once
\* for every order that paid it, since the account and the invoice that names the
\* order are written in one session (updateCredit, invoice.save).
BalancesAddUp == \A a \in Accounts : balance[a] = Cardinality(PaidCredits(a))

\* An invoice is PAID exactly if it names an order, whose money was taken before, by
\* the seller of the invoice; no two invoices name the same; and no EVC credits are
\* added before the money is taken.
PaidWasCaptured ==
    /\ \A i \in Invoices : invoice[i] = "PAID" <=> orderId[i] # NoInvoice
    /\ \A i \in Invoices : invoice[i] = "PAID" =>
          /\ order[orderId[i]] = "captured"
          /\ SellerOf[orderId[i]] = SellerOf[i]
          /\ \A j \in Invoices \ {i} : orderId[j] # orderId[i]
    /\ \A o \in Invoices : evc[o] > 0 => order[o] = "captured"

\* "save customer credit": captured money is turned into credits of some invoice.
CapturedIsCredited ==
    \A o \in Invoices : order[o] = "captured" ~> \E i \in Invoices : <<i, o>> \in paid

\* VAT is left out only if the seller has no rate, or for a buyer in another
\* country of the EU whose number was looked up (calculateVat, purchaseCredits).
VatFits(rates, prices) ==
    \A seller, buyer \in Parties, rate \in rates, price \in prices :
        NumberAccepted(seller) /\ NumberAccepted(buyer) =>
            LET asked == CalculateVat(seller, rate, buyer, price) IN
            /\ asked.grandTotal = asked.totalPrice + asked.vatAmount
            /\ rate # 0 /\ asked.vatAmount = 0 =>
                  /\ asked.reverseCharge
                  /\ buyer.vatNumber = "valid" /\ buyer.country # seller.country
=============================================================================
