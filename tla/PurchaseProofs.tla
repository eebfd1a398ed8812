--------------------------- MODULE PurchaseProofs ---------------------------
(***************************************************************************)
(* Proofs about Purchase, for any number of invoices, handlers, faults and *)
(* restarts: money is taken before credits are added, and they are added   *)
(* once for every order.  The argument: PayPal captures an order once, so  *)
(* at most one handler is past the capture of an order, and no invoice     *)
(* names that order yet.  Nothing is assumed about which invoice an order  *)
(* is brought with.                                                        *)
(***************************************************************************)
EXTENDS Purchase, FiniteSetTheorems, TLAPS

Buying(p) == pc[p] # "idle" /\ op[p] = "purchase"
Crediting(p) == pc[p] \in {"save", "credit", "evc", "commit"} /\ op[p] = "verify"

\* What the transaction of p has written by each step.
Locked(p) ==
    LET i == target[p] IN
    /\ pc[p] \in {"idle", "invoice", "capture", "save"} => locks[p] = {}
    /\ pc[p] \in {"order", "credit", "evc"} => locks[p] = {i}
    /\ pc[p] = "commit" /\ op[p] = "purchase" => locks[p] = {i}
    /\ pc[p] = "commit" /\ op[p] = "verify" =>
          locks[p] = IF i \in EvcInvoices THEN {i} ELSE {i, OwnerOf[i]}

\* Which operations come to which step.
Route(p) ==
    /\ pc[p] \in {"invoice", "order"} => op[p] = "purchase"
    /\ pc[p] \in {"capture", "save", "credit", "evc"} => op[p] = "verify"
    /\ pc[p] = "evc" => target[p] \in EvcInvoices
    /\ pc[p] = "credit" => target[p] \notin EvcInvoices

\* What a handler past the capture of its order knows.
CreditingInv(p) ==
    /\ order[paying[p]] = "captured"
    /\ SellerOf[paying[p]] = SellerOf[target[p]]
    /\ \A x \in paid : x[2] # paying[p]
    /\ evc[paying[p]] = IF pc[p] = "commit" /\ target[p] \in EvcInvoices THEN 1 ELSE 0
    /\ \A q \in Procs \ {p} : Crediting(q) => paying[q] # paying[p]

HandlerInv ==
    \A p \in Procs :
        /\ Route(p)
        /\ Locked(p)
        /\ Buying(p) =>
              /\ invoice[target[p]] = "absent"
              /\ order[target[p]] = IF pc[p] = "commit" THEN "created" ELSE "none"
              /\ \A q \in Procs \ {p} : target[q] # target[p]
        /\ pc[p] # "idle" /\ op[p] = "verify" => invoice[target[p]] # "absent"
        /\ Crediting(p) => CreditingInv(p)

InvoiceInv ==
    /\ \A i \in Invoices :
          /\ order[i] = "approved" => invoice[i] # "absent"
          /\ invoice[i] = "PAID" <=> orderId[i] # NoInvoice
          /\ invoice[i] = "PAID" => <<i, orderId[i]>> \in paid
          /\ evc[i] <= 1
          /\ order[i] # "captured" => evc[i] = 0
    /\ \A x \in paid :
          /\ order[x[2]] = "captured"
          /\ SellerOf[x[2]] = SellerOf[x[1]]
          /\ evc[x[2]] = IF x[1] \in EvcInvoices THEN 1 ELSE 0
    /\ \A x, y \in paid : x[2] = y[2] => x = y

PurchaseInv == HandlerInv /\ InvoiceInv

USE InvoicesAssumption

LEMMA InitInv == Init => TypeOK /\ PurchaseInv
<1> SUFFICES ASSUME Init PROVE TypeOK /\ PurchaseInv
  OBVIOUS
<1> USE DEF Init, TxInit
<1>1. TypeOK
  BY DEF TypeOK, TxTypeOK, Docs, Points
<1>2. HandlerInv
  BY DEF HandlerInv, Route, Locked, Buying, Crediting, CreditingInv
<1>3. InvoiceInv
  BY DEF InvoiceInv
<1> QED
  BY <1>1, <1>2, <1>3 DEF PurchaseInv

\* Types: what verifyAndSaveCredits and purchaseCredits write stays in range;
\* credits are only ever added.
LEMMA TypeStep == TypeOK /\ [Next]_vars => TypeOK'
<1> SUFFICES ASSUME TypeOK, [Next]_vars PROVE TypeOK'
  OBVIOUS
<1> USE DEF TypeOK, TxTypeOK, Docs, Points
<1>1. ASSUME NEW p \in Procs, NEW i \in Invoices, PurchaseCredits(p, i) PROVE TypeOK'
  BY <1>1 DEF PurchaseCredits, Take, txVars, docVars, remoteVars, boundVars
<1>2. ASSUME NEW p \in Procs, NEW i \in Invoices,
             NEW o \in Invoices, VerifyAndSaveCredits(p, i, o)
      PROVE TypeOK'
  BY <1>2 DEF VerifyAndSaveCredits, Take, txVars, docVars, remoteVars, boundVars
<1>3. ASSUME NEW i \in Invoices, PayerApproves(i) PROVE TypeOK'
  BY <1>3 DEF PayerApproves, txVars, docVars, procVars, boundVars
<1>4. ASSUME NEW p \in Procs, ProgressStep(p) PROVE TypeOK'
  <2>1. CASE SaveInvoice(p) \/ CreateOrder(p)
    BY <1>4, <2>1 DEF SaveInvoice, CreateOrder, SessionWrite, Goto, txVars, docVars, remoteVars,
                      boundVars
  <2>2. CASE CaptureOrder(p)
    <3>1. UNCHANGED <<invoice, orderId, balance, paid, faults, crashes>>
      BY <2>2 DEF CaptureOrder, docVars, boundVars
    <3>2. CASE Capturable(p)
      BY <2>2, <3>1, <3>2 DEF CaptureOrder, Goto, txVars
    <3>3. CASE ~Capturable(p)
      BY <2>2, <3>1, <3>3 DEF CaptureOrder, Abort, Leave, TxAbort, remoteVars
    <3> QED
      BY <3>2, <3>3
  <2>3. CASE CaptureNotCompleted(p) \/ WriteConflict(p)
    BY <1>4, <2>3 DEF CaptureNotCompleted, WriteConflict, Abort, Leave, TxAbort, docVars,
                      remoteVars, boundVars
  <2>4. CASE MarkPaid(p) \/ UpdateCredit(p)
    BY <1>4, <2>4 DEF MarkPaid, UpdateCredit, SessionWrite, Goto, docVars, remoteVars, boundVars
  <2>5. CASE AddEvcBalance(p)
    BY <1>4, <2>5 DEF AddEvcBalance, Goto, txVars, docVars, boundVars
  <2>6. CASE Commit(p)
    BY <1>4, <2>6 DEF Commit, Pay, TxCommit, Leave, Bought, remoteVars, boundVars
  <2> QED
    BY <1>4, <2>1, <2>2, <2>3, <2>4, <2>5, <2>6 DEF ProgressStep
<1>5. ASSUME NEW p \in Procs, Fail(p) PROVE TypeOK'
  BY <1>5 DEF Fail, Abort, Leave, TxAbort, docVars, remoteVars
<1>6. CASE Crash
  BY <1>6 DEF Crash, TxCrash, docVars, remoteVars
<1>7. CASE UNCHANGED vars
  BY <1>7 DEF vars, txVars, docVars, remoteVars, procVars, boundVars
<1> QED
  BY <1>1, <1>2, <1>3, <1>4, <1>5, <1>6, <1>7 DEF Next

THEOREM TypeCorrect == Spec => []TypeOK
  BY InitInv, TypeStep, PTL DEF Spec

-----------------------------------------------------------------------------

\* What a step of p leaves as it was of the other handlers.
OthersSame(p) ==
    \A q \in Procs \ {p} :
        /\ pc'[q] = pc[q] /\ op'[q] = op[q] /\ locks'[q] = locks[q]
        /\ target'[q] = target[q] /\ paying'[q] = paying[q]

LEMMA OthersKeep ==
    ASSUME TypeOK, HandlerInv, NEW p \in Procs, OthersSame(p)
    PROVE  \A q \in Procs \ {p} :
               /\ Route(q)' /\ Locked(q)'
               /\ Buying(q)' <=> Buying(q)
               /\ Crediting(q)' <=> Crediting(q)
<1> SUFFICES ASSUME NEW q \in Procs \ {p}
             PROVE  /\ Route(q)' /\ Locked(q)'
                    /\ Buying(q)' <=> Buying(q)
                    /\ Crediting(q)' <=> Crediting(q)
  OBVIOUS
<1>1. Route(q) /\ Locked(q)
  BY DEF HandlerInv
<1> QED
  BY <1>1 DEF OthersSame, Route, Locked, Buying, Crediting

\* A handler that leaves, or that goes on without touching invoices and orders and
\* without having captured, disturbs nobody.
LEMMA NothingNew ==
    ASSUME TypeOK, TypeOK', PurchaseInv,
           NEW p \in Procs, OthersSame(p), UNCHANGED <<docVars, remoteVars>>,
           Route(p)', Locked(p)',
           \/ pc'[p] = "idle" /\ target'[p] = NoInvoice
           \/ /\ op'[p] = op[p] /\ target'[p] = target[p] /\ paying'[p] = paying[p]
              /\ pc[p] # "idle" /\ Crediting(p)' = Crediting(p)
              /\ pc'[p] = "commit" => op[p] = "verify" /\ target[p] \notin EvcInvoices
              /\ pc[p] # "commit"
    PROVE  PurchaseInv'
<1>1. \A q \in Procs \ {p} :
         /\ Route(q)' /\ Locked(q)'
         /\ Buying(q)' <=> Buying(q)
         /\ Crediting(q)' <=> Crediting(q)
  BY OthersKeep DEF PurchaseInv
<1>2. UNCHANGED <<invoice, orderId, paid, order, evc>>
  BY DEF docVars, remoteVars
<1>3. Crediting(p)' => Crediting(p)
  BY DEF Crediting
<1>4. NoInvoice \notin Invoices
  OBVIOUS
<1>5. InvoiceInv'
  BY <1>2 DEF PurchaseInv, InvoiceInv
<1>6. ASSUME NEW q \in Procs, Crediting(q)' PROVE CreditingInv(q)'
  <2>1. Crediting(q) /\ CreditingInv(q)
    BY <1>1, <1>3, <1>6 DEF PurchaseInv, HandlerInv
  <2>2. /\ paying'[q] = paying[q] /\ target'[q] = target[q]
        /\ target[q] \in EvcInvoices => (pc'[q] = "commit" <=> pc[q] = "commit")
    BY <1>6 DEF OthersSame, Crediting
  <2>3. \A r \in Procs : Crediting(r)' => Crediting(r) /\ paying'[r] = paying[r]
    BY <1>1, <1>3 DEF OthersSame, Crediting
  <2> QED
    BY <1>2, <2>1, <2>2, <2>3 DEF CreditingInv
<1>7. \A q \in Procs : pc'[q] # "idle" /\ op'[q] = "verify" => invoice'[target'[q]] # "absent"
  BY <1>2 DEF OthersSame, PurchaseInv, HandlerInv
<1>8. ASSUME NEW q \in Procs, Buying(q)'
      PROVE  /\ invoice'[target'[q]] = "absent"
             /\ order'[target'[q]] = IF pc'[q] = "commit" THEN "created" ELSE "none"
             /\ \A r \in Procs \ {q} : target'[r] # target'[q]
  <2>1. Buying(q) /\ target'[q] = target[q] /\ (pc'[q] = "commit" <=> pc[q] = "commit")
    BY <1>8 DEF OthersSame, Buying
  <2>2. \A r \in Procs : target'[r] \in {target[r], NoInvoice}
    BY DEF OthersSame
  <2>3. target[q] \in Invoices
    BY <2>1 DEF Buying, TypeOK
  <2> QED
    BY <1>2, <1>4, <2>1, <2>2, <2>3 DEF PurchaseInv, HandlerInv
<1> QED
  BY <1>1, <1>5, <1>6, <1>7, <1>8 DEF PurchaseInv, HandlerInv

\* The capture: only an order that nobody has captured can be, so no invoice names
\* it, and no other handler holds it.
LEMMA CaptureInv ==
    ASSUME TypeOK, TypeOK', PurchaseInv,
           NEW p \in Procs, CaptureOrder(p), Capturable(p), OthersSame(p)
    PROVE  PurchaseInv'
<1> DEFINE o == paying[p]
<1>0. /\ pc[p] = "capture" /\ op[p] = "verify" /\ o \in Invoices /\ locks[p] = {}
  BY DEF CaptureOrder, TypeOK, PurchaseInv, HandlerInv, Route, Locked
<1>1. /\ pc[p] = "capture" /\ op[p] = "verify" /\ o \in Invoices /\ locks[p] = {}
      /\ pc'[p] = "save" /\ order' = [order EXCEPT ![o] = "captured"]
      /\ UNCHANGED <<invoice, orderId, paid, evc, op, target, paying, locks>>
  BY <1>0 DEF CaptureOrder, Goto, TypeOK, txVars, docVars
<1>2. order[o] = "approved" /\ SellerOf[o] = SellerOf[target[p]]
  BY DEF Capturable
<1>3. order'[o] = "captured" /\ \A i \in Invoices \ {o} : order'[i] = order[i]
  BY <1>1 DEF TypeOK
<1>4. \A q \in Procs \ {p} :
         /\ Route(q)' /\ Locked(q)'
         /\ Buying(q)' <=> Buying(q)
         /\ Crediting(q)' <=> Crediting(q)
  BY OthersKeep DEF PurchaseInv
<1>5. Route(p)' /\ Locked(p)' /\ ~Buying(p)' /\ Crediting(p)'
  BY <1>1 DEF Route, Locked, Buying, Crediting
<1>6. InvoiceInv'
  <2>1. invoice[o] # "absent" /\ InvoiceInv
    BY <1>1, <1>2 DEF PurchaseInv, InvoiceInv
  <2>2. \A x \in paid : order'[x[2]] = "captured"
    BY <1>1, <1>3, <2>1 DEF InvoiceInv, TypeOK
  <2> QED
    BY <1>1, <1>3, <2>1, <2>2 DEF InvoiceInv
<1>7. CreditingInv(p)'
  <2>1. evc[o] = 0 /\ \A x \in paid : x[2] # o
    BY <1>1, <1>2 DEF PurchaseInv, InvoiceInv
  <2>2. \A q \in Procs \ {p} : Crediting(q) => paying[q] # o
    BY <1>2 DEF PurchaseInv, HandlerInv, CreditingInv
  <2> QED
    BY <1>1, <1>2, <1>3, <1>4, <2>1, <2>2 DEF CreditingInv
<1>8. ASSUME NEW q \in Procs \ {p}, Crediting(q)' PROVE CreditingInv(q)'
  <2>1. CreditingInv(q) /\ Crediting(q) /\ pc'[q] = pc[q] /\ paying[q] \in Invoices
    BY <1>4, <1>8 DEF PurchaseInv, HandlerInv, OthersSame, TypeOK, Crediting
  <2>2. paying[q] # o
    BY <1>2, <2>1 DEF CreditingInv
  <2> QED
    BY <1>1, <1>3, <1>4, <2>1, <2>2 DEF CreditingInv
<1>9. ASSUME NEW q \in Procs, Buying(q)'
      PROVE  /\ invoice'[target'[q]] = "absent"
             /\ order'[target'[q]] = IF pc'[q] = "commit" THEN "created" ELSE "none"
             /\ \A r \in Procs \ {q} : target'[r] # target'[q]
  <2>1. Buying(q) /\ q # p /\ pc'[q] = pc[q] /\ target[q] \in Invoices
    BY <1>4, <1>5, <1>9 DEF OthersSame, Buying, TypeOK
  <2> QED
    BY <1>1, <1>2, <1>3, <2>1 DEF PurchaseInv, HandlerInv
<1>10. \A q \in Procs : pc'[q] # "idle" /\ op'[q] = "verify" => invoice'[target'[q]] # "absent"
  BY <1>1 DEF OthersSame, PurchaseInv, HandlerInv
<1> QED
  BY <1>4, <1>5, <1>6, <1>7, <1>8, <1>9, <1>10 DEF PurchaseInv, HandlerInv

\* The commit of a payment: its order was in no invoice before.
LEMMA CommitInv ==
    ASSUME TypeOK, TypeOK', PurchaseInv, NEW p \in Procs, Commit(p), OthersSame(p)
    PROVE  PurchaseInv'
<1> DEFINE i == target[p]
           o == paying[p]
<1>1. /\ pc[p] = "commit" /\ i \in Invoices /\ o \in Invoices /\ i \in locks[p]
      /\ op[p] \in {"purchase", "verify"}
      /\ pc'[p] = "idle" /\ locks'[p] = {} /\ target'[p] = NoInvoice
      /\ UNCHANGED <<order, evc>>
  BY DEF Commit, Leave, TxCommit, TypeOK, TxTypeOK, remoteVars, PurchaseInv, HandlerInv, Locked
<1>2. \A q \in Procs \ {p} :
         /\ Route(q)' /\ Locked(q)'
         /\ Buying(q)' <=> Buying(q)
         /\ Crediting(q)' <=> Crediting(q)
  BY OthersKeep DEF PurchaseInv
<1>3. Route(p)' /\ Locked(p)' /\ ~Buying(p)' /\ ~Crediting(p)'
  BY <1>1 DEF Route, Locked, Buying, Crediting
<1>4. ASSUME op[p] = "purchase" PROVE PurchaseInv'
  <2>1. /\ invoice[i] = "absent" /\ order[i] = "created"
        /\ invoice' = [invoice EXCEPT ![i] = "UNPAID"] /\ UNCHANGED <<orderId, paid>>
    BY <1>1, <1>4 DEF Commit, PurchaseInv, HandlerInv, Buying
  <2>2. InvoiceInv'
    BY <1>1, <2>1 DEF PurchaseInv, InvoiceInv, TypeOK
  <2>3. \A q \in Procs \ {p} : Crediting(q) => CreditingInv(q)'
    BY <1>1, <1>2, <1>3, <2>1 DEF PurchaseInv, HandlerInv, CreditingInv, OthersSame
  <2>4. \A q \in Procs \ {p} : Buying(q) => target[q] # i /\ target[q] \in Invoices
    BY <1>1, <1>4 DEF PurchaseInv, HandlerInv, Buying, TypeOK
  <2>6. \A q \in Procs \ {p} : pc[q] # "idle" /\ op[q] = "verify"
              => invoice'[target[q]] # "absent"
    BY <2>1 DEF PurchaseInv, HandlerInv, TypeOK
  <2>7. \A q \in Procs \ {p} : Buying(q) =>
           /\ invoice'[target[q]] = "absent"
           /\ order[target[q]] = IF pc[q] = "commit" THEN "created" ELSE "none"
           /\ \A r \in Procs \ {q} : target'[r] # target[q]
    BY <1>1, <2>1, <2>4 DEF PurchaseInv, HandlerInv, OthersSame, TypeOK
  <2> QED
    BY <1>1, <1>2, <1>3, <2>2, <2>3, <2>6, <2>7 DEF PurchaseInv, HandlerInv, OthersSame
<1>5. ASSUME op[p] = "verify" PROVE PurchaseInv'
  <2>1. Crediting(p) /\ CreditingInv(p) /\ invoice[i] # "absent"
    BY <1>1, <1>5 DEF Crediting, PurchaseInv, HandlerInv
  <2>2. /\ invoice' = [invoice EXCEPT ![i] = "PAID"]
        /\ orderId' = [orderId EXCEPT ![i] = o]
        /\ paid' = paid \cup {<<i, o>>}
    BY <1>1, <1>5 DEF Commit, Pay
  <2>3. /\ order[o] = "captured" /\ SellerOf[o] = SellerOf[i]
        /\ evc[o] = IF i \in EvcInvoices THEN 1 ELSE 0
        /\ \A x \in paid : x[2] # o
    BY <1>1, <2>1 DEF CreditingInv
  <2>4. InvoiceInv'
    <3>1. \A j \in Invoices :
             /\ order'[j] = "approved" => invoice'[j] # "absent"
             /\ invoice'[j] = "PAID" <=> orderId'[j] # NoInvoice
             /\ invoice'[j] = "PAID" => <<j, orderId'[j]>> \in paid'
             /\ evc'[j] <= 1
             /\ order'[j] # "captured" => evc'[j] = 0
      BY <1>1, <2>2 DEF PurchaseInv, InvoiceInv, TypeOK
    <3>2. \A x \in paid' :
             /\ order'[x[2]] = "captured"
             /\ SellerOf[x[2]] = SellerOf[x[1]]
             /\ evc'[x[2]] = IF x[1] \in EvcInvoices THEN 1 ELSE 0
      BY <1>1, <2>2, <2>3 DEF PurchaseInv, InvoiceInv
    <3>3. \A x, y \in paid' : x[2] = y[2] => x = y
      BY <2>2, <2>3 DEF PurchaseInv, InvoiceInv
    <3> QED
      BY <3>1, <3>2, <3>3 DEF InvoiceInv
  <2>5. ASSUME NEW q \in Procs \ {p}, Crediting(q) PROVE CreditingInv(q)'
    <3>1. paying[q] # o /\ CreditingInv(q)
      BY <2>1, <2>5 DEF CreditingInv, PurchaseInv, HandlerInv
    <3>2. \A x \in paid' : x[2] # paying[q]
      BY <2>2, <3>1 DEF CreditingInv
    <3> QED
      BY <1>1, <1>2, <1>3, <3>1, <3>2 DEF CreditingInv, OthersSame
  <2>6. \A q \in Procs \ {p} : Buying(q) =>
           /\ invoice'[target[q]] = "absent"
           /\ order[target[q]] = IF pc[q] = "commit" THEN "created" ELSE "none"
           /\ \A r \in Procs \ {q} : target'[r] # target[q]
    BY <1>1, <2>1, <2>2 DEF PurchaseInv, HandlerInv, Buying, OthersSame, TypeOK
  <2>7. \A q \in Procs \ {p} : pc[q] # "idle" /\ op[q] = "verify"
              => invoice'[target[q]] # "absent"
    BY <2>2 DEF PurchaseInv, HandlerInv, TypeOK
  <2> QED
    BY <1>1, <1>2, <1>3, <2>4, <2>5, <2>6, <2>7 DEF PurchaseInv, HandlerInv, OthersSame
<1> QED
  BY <1>1, <1>4, <1>5

\* EVC adds the credits of an order that nobody else holds.
LEMMA EvcInv ==
    ASSUME TypeOK, TypeOK', PurchaseInv, NEW p \in Procs, AddEvcBalance(p), OthersSame(p)
    PROVE  PurchaseInv'
<1> DEFINE o == paying[p]
<1>0. /\ pc[p] = "evc" /\ op[p] = "verify" /\ o \in Invoices
      /\ target[p] \in EvcInvoices /\ locks[p] = {target[p]}
  BY DEF AddEvcBalance, TypeOK, PurchaseInv, HandlerInv, Route, Locked
<1>1. /\ pc[p] = "evc" /\ op[p] = "verify" /\ o \in Invoices
      /\ target[p] \in EvcInvoices /\ locks[p] = {target[p]}
      /\ pc'[p] = "commit" /\ evc' = [evc EXCEPT ![o] = @ + 1]
      /\ UNCHANGED <<invoice, orderId, paid, order, op, target, paying, locks>>
  BY <1>0 DEF AddEvcBalance, Goto, TypeOK, txVars, docVars
<1>2. Crediting(p) /\ CreditingInv(p) /\ evc[o] = 0
  BY <1>1 DEF Crediting, CreditingInv, PurchaseInv, HandlerInv
<1>3. evc'[o] = 1 /\ \A j \in Invoices \ {o} : evc'[j] = evc[j]
  BY <1>1, <1>2 DEF TypeOK
<1>4. \A q \in Procs \ {p} :
         /\ Route(q)' /\ Locked(q)'
         /\ Buying(q)' <=> Buying(q)
         /\ Crediting(q)' <=> Crediting(q)
  BY OthersKeep DEF PurchaseInv
<1>5. Route(p)' /\ Locked(p)' /\ ~Buying(p)' /\ Crediting(p)'
  BY <1>1 DEF Route, Locked, Buying, Crediting
<1>6. InvoiceInv'
  BY <1>1, <1>2, <1>3 DEF PurchaseInv, InvoiceInv, CreditingInv, TypeOK
<1>7. CreditingInv(p)'
  BY <1>1, <1>2, <1>3, <1>4 DEF CreditingInv
<1>8. ASSUME NEW q \in Procs \ {p}, Crediting(q) PROVE CreditingInv(q)'
  <2>1. CreditingInv(q) /\ pc'[q] = pc[q] /\ paying[q] \in Invoices /\ paying[q] # o
    BY <1>2, <1>8 DEF PurchaseInv, HandlerInv, OthersSame, TypeOK, CreditingInv, Crediting
  <2> QED
    BY <1>1, <1>2, <1>3, <1>4, <2>1 DEF CreditingInv
<1>9. \A q \in Procs \ {p} : Buying(q) =>
         /\ invoice[target[q]] = "absent"
         /\ order[target[q]] = IF pc[q] = "commit" THEN "created" ELSE "none"
         /\ \A r \in Procs \ {q} : target[r] # target[q]
  BY DEF PurchaseInv, HandlerInv
<1>10. \A q \in Procs : pc'[q] # "idle" /\ op'[q] = "verify" => invoice'[target'[q]] # "absent"
  BY <1>1 DEF OthersSame, PurchaseInv, HandlerInv
<1> QED
  BY <1>1, <1>4, <1>5, <1>6, <1>7, <1>8, <1>9, <1>10 DEF PurchaseInv, HandlerInv, OthersSame

\* PayPal creates the order of an invoice that nobody else knows.
LEMMA OrderInv ==
    ASSUME TypeOK, TypeOK', PurchaseInv, NEW p \in Procs, CreateOrder(p), OthersSame(p)
    PROVE  PurchaseInv'
<1> DEFINE i == target[p]
<1>0. pc[p] = "order" /\ op[p] = "purchase" /\ i \in Invoices /\ locks[p] = {i}
  BY DEF CreateOrder, TypeOK, PurchaseInv, HandlerInv, Route, Locked
<1>1. /\ pc[p] = "order" /\ op[p] = "purchase" /\ i \in Invoices /\ locks[p] = {i}
      /\ pc'[p] = "commit" /\ order' = [order EXCEPT ![i] = "created"]
      /\ UNCHANGED <<invoice, orderId, paid, evc, op, target, paying, locks>>
  BY <1>0 DEF CreateOrder, Goto, TypeOK, txVars, docVars
<1>2. Buying(p) /\ invoice[i] = "absent" /\ order[i] = "none"
      /\ \A q \in Procs \ {p} : target[q] # i
  BY <1>1 DEF Buying, PurchaseInv, HandlerInv
<1>3. order'[i] = "created" /\ \A j \in Invoices \ {i} : order'[j] = order[j]
  BY <1>1 DEF TypeOK
<1>4. \A q \in Procs \ {p} :
         /\ Route(q)' /\ Locked(q)'
         /\ Buying(q)' <=> Buying(q)
         /\ Crediting(q)' <=> Crediting(q)
  BY OthersKeep DEF PurchaseInv
<1>5. Route(p)' /\ Locked(p)' /\ Buying(p)' /\ ~Crediting(p)' /\ ~Crediting(p)
  BY <1>1 DEF Route, Locked, Buying, Crediting
<1>6. InvoiceInv'
  BY <1>1, <1>2, <1>3 DEF PurchaseInv, InvoiceInv, TypeOK
<1>7. ASSUME NEW q \in Procs \ {p}, Crediting(q) PROVE CreditingInv(q)'
  <2>1. CreditingInv(q) /\ pc'[q] = pc[q] /\ paying[q] \in Invoices
              /\ order[paying[q]] = "captured"
    BY <1>7 DEF PurchaseInv, HandlerInv, OthersSame, TypeOK, CreditingInv, Crediting
  <2> QED
    BY <1>1, <1>2, <1>3, <1>4, <1>5, <2>1 DEF CreditingInv
<1>8. \A q \in Procs \ {p} : Buying(q) =>
         /\ invoice[target[q]] = "absent"
         /\ order'[target[q]] = IF pc[q] = "commit" THEN "created" ELSE "none"
         /\ \A r \in Procs \ {q} : target[r] # target[q]
  BY <1>2, <1>3 DEF PurchaseInv, HandlerInv, Buying, TypeOK
<1>9. \A q \in Procs : pc'[q] # "idle" /\ op'[q] = "verify" => invoice'[target'[q]] # "absent"
  BY <1>1 DEF OthersSame, PurchaseInv, HandlerInv
<1> QED
  BY <1>1, <1>2, <1>3, <1>4, <1>5, <1>6, <1>7, <1>8, <1>9 DEF PurchaseInv, HandlerInv, OthersSame

\* Every step of a handler keeps the invariant.
LEMMA HandlerStepInv ==
    ASSUME TypeOK, TypeOK', PurchaseInv, NEW p \in Procs, ProgressStep(p) \/ Fail(p)
    PROVE  PurchaseInv'
<1>1. OthersSame(p)
  BY DEF OthersSame, ProgressStep, SaveInvoice, CreateOrder, CaptureOrder, CaptureNotCompleted,
     MarkPaid,
         AddEvcBalance, UpdateCredit, Commit, WriteConflict, Fail, Goto, Leave, Abort,
         SessionWrite, TxAbort, TxCommit, txVars, TypeOK, TxTypeOK
<1>2. CASE Abort(p) /\ UNCHANGED <<docVars, remoteVars>>
  <2>1. Route(p)' /\ Locked(p)' /\ pc'[p] = "idle" /\ target'[p] = NoInvoice
    BY <1>2 DEF Abort, Leave, TxAbort, Route, Locked, TypeOK, TxTypeOK
  <2> QED
    BY <1>1, <1>2, <2>1, NothingNew
<1>3. CASE SaveInvoice(p) \/ MarkPaid(p) \/ UpdateCredit(p)
  <2>1. /\ pc[p] # "idle" /\ UNCHANGED <<docVars, remoteVars>>
        /\ op'[p] = op[p] /\ target'[p] = target[p] /\ paying'[p] = paying[p]
        /\ Route(p) /\ Locked(p) /\ target[p] \in Invoices
    BY <1>3 DEF SaveInvoice, MarkPaid, UpdateCredit, Goto, PurchaseInv, HandlerInv, TypeOK
  <2>2. CASE SaveInvoice(p)
    <3>1. pc[p] = "invoice" /\ pc'[p] = "order" /\ locks'[p] = {target[p]}
      BY <2>1, <2>2 DEF SaveInvoice, Goto, SessionWrite, Locked, TypeOK, TxTypeOK
    <3>2. Route(p)' /\ Locked(p)' /\ Crediting(p)' = Crediting(p)
      BY <2>1, <3>1 DEF Route, Locked, Crediting
    <3> QED
      BY <1>1, <2>1, <3>1, <3>2, NothingNew
  <2>3. CASE MarkPaid(p)
    <3>1. /\ pc[p] = "save" /\ locks'[p] = {target[p]}
          /\ pc'[p] = IF target[p] \in EvcInvoices THEN "evc" ELSE "credit"
      BY <2>1, <2>3 DEF MarkPaid, Goto, SessionWrite, Locked, TypeOK, TxTypeOK
    <3>2. Route(p)' /\ Locked(p)' /\ Crediting(p)' = Crediting(p)
      BY <2>1, <3>1 DEF Route, Locked, Crediting
    <3> QED
      BY <1>1, <2>1, <3>1, <3>2, NothingNew
  <2>4. CASE UpdateCredit(p)
    <3>1. /\ pc[p] = "credit" /\ pc'[p] = "commit" /\ target[p] \notin EvcInvoices
                   /\ op[p] = "verify"
          /\ locks'[p] = {target[p], OwnerOf[target[p]]}
      BY <2>1, <2>4 DEF UpdateCredit, Goto, SessionWrite, Route, Locked, TypeOK, TxTypeOK
    <3>2. Route(p)' /\ Locked(p)' /\ Crediting(p)' = Crediting(p) /\ Crediting(p)
      BY <2>1, <3>1 DEF Route, Locked, Crediting
    <3> QED
      BY <1>1, <2>1, <3>1, <3>2, NothingNew
  <2> QED
    BY <1>3, <2>2, <2>3, <2>4
<1>4. CASE CreateOrder(p)
  BY <1>1, <1>4, OrderInv
<1>5. CASE CaptureOrder(p) /\ Capturable(p)
  BY <1>1, <1>5, CaptureInv
<1>6. CASE AddEvcBalance(p)
  BY <1>1, <1>6, EvcInv
<1>7. CASE Commit(p)
  BY <1>1, <1>7, CommitInv
<1> QED
  BY <1>2, <1>3, <1>4, <1>5, <1>6, <1>7
  DEF ProgressStep, CaptureOrder, CaptureNotCompleted, WriteConflict, Fail, remoteVars

LEMMA PurchaseStep == TypeOK /\ TypeOK' /\ PurchaseInv /\ [Next]_vars => PurchaseInv'
<1> SUFFICES ASSUME TypeOK, TypeOK', PurchaseInv, [Next]_vars PROVE PurchaseInv'
  OBVIOUS
<1> USE DEF PurchaseInv, TypeOK, TxTypeOK, HandlerInv, InvoiceInv, Route, Locked, Buying, Crediting,
            CreditingInv
<1>1. ASSUME NEW p \in Procs, NEW i \in Invoices, PurchaseCredits(p, i) PROVE PurchaseInv'
  BY <1>1 DEF PurchaseCredits, Take, txVars, docVars, remoteVars
<1>2. ASSUME NEW p \in Procs, NEW i \in Invoices,
             NEW o \in Invoices, VerifyAndSaveCredits(p, i, o)
      PROVE PurchaseInv'
  BY <1>2 DEF VerifyAndSaveCredits, Take, txVars, docVars, remoteVars
<1>3. ASSUME NEW i \in Invoices, PayerApproves(i) PROVE PurchaseInv'
  BY <1>3 DEF PayerApproves, txVars, docVars, procVars
<1>4. ASSUME NEW p \in Procs, ProgressStep(p) \/ Fail(p) PROVE PurchaseInv'
  BY <1>4, HandlerStepInv
<1>5. CASE Crash
  BY <1>5 DEF Crash, TxCrash, docVars, remoteVars
<1>6. CASE UNCHANGED vars
  BY <1>6 DEF vars, txVars, docVars, remoteVars, procVars
<1> QED
  BY <1>1, <1>2, <1>3, <1>4, <1>5, <1>6 DEF Next

\* At most one handler is past the capture of an order, which no invoice names yet;
\* the inductive invariant behind the theorems below.
THEOREM PurchaseCorrect == Spec => []PurchaseInv
  BY InitInv, TypeCorrect, PurchaseStep, PTL DEF Spec

\* A captured order buys credits once, for one invoice, whichever invoice it is
\* brought with and however often (verifyAndSaveCredits); EVC adds them at most
\* once (addEvcBalance is never tried again).
THEOREM CreditedOnceAlways == Spec => []CreditedOnce
<1>1. PurchaseInv => CreditedOnce
  BY DEF PurchaseInv, InvoiceInv, CreditedOnce
<1> QED
  BY <1>1, PurchaseCorrect, PTL

\* A PAID invoice names an order whose money its seller has taken (captureOrder
\* comes first), and which no other invoice names.
THEOREM CapturedAlways == Spec => []PaidWasCaptured
<1>1. TypeOK /\ PurchaseInv => PaidWasCaptured
  <2> SUFFICES ASSUME TypeOK, PurchaseInv PROVE PaidWasCaptured
    OBVIOUS
  <2>1. ASSUME NEW i \in Invoices, invoice[i] = "PAID"
        PROVE  /\ order[orderId[i]] = "captured"
               /\ SellerOf[orderId[i]] = SellerOf[i]
               /\ \A j \in Invoices \ {i} : orderId[j] # orderId[i]
    <3>1. <<i, orderId[i]>> \in paid /\ orderId[i] # NoInvoice
      BY <2>1 DEF PurchaseInv, InvoiceInv
    <3>2. \A j \in Invoices \ {i} : orderId[j] # NoInvoice => <<j, orderId[j]>> \in paid
      BY DEF PurchaseInv, InvoiceInv
    <3>3. \A j \in Invoices \ {i} : orderId[j] # orderId[i]
      BY <3>1, <3>2 DEF PurchaseInv, InvoiceInv
    <3> QED
      BY <3>1, <3>3 DEF PurchaseInv, InvoiceInv
  <2>2. ASSUME NEW o \in Invoices, order[o] # "captured" PROVE ~(evc[o] > 0)
    <3>1. evc[o] = 0
      BY <2>2 DEF PurchaseInv, InvoiceInv
    <3> QED
      BY <3>1
  <2> QED
    BY <2>1, <2>2 DEF PaidWasCaptured, PurchaseInv, InvoiceInv
<1> QED
  BY <1>1, TypeCorrect, PurchaseCorrect, PTL

-----------------------------------------------------------------------------
(* The balances. *)

\* What an account holds is a finite number of credits, those it bought.
BalanceInv ==
    \A a \in Accounts : IsFiniteSet(PaidCredits(a)) /\ balance[a] = Cardinality(PaidCredits(a))

LEMMA CreditsOfOne ==
  ASSUME NEW x \in Invoices \X Invoices
  PROVE  /\ IsFiniteSet({x} \X (1 .. Quantity[x[1]]))
         /\ Cardinality({x} \X (1 .. Quantity[x[1]])) = Quantity[x[1]]
         /\ Quantity[x[1]] \in Nat
<1>1. Quantity[x[1]] \in Nat
  OBVIOUS
<1>2. IsFiniteSet(1 .. Quantity[x[1]]) /\ Cardinality(1 .. Quantity[x[1]]) = Quantity[x[1]]
  BY <1>1, FS_Interval
<1>3. IsFiniteSet({x}) /\ Cardinality({x}) = 1
  BY FS_Singleton
<1> DEFINE S == {x}
           T == 1 .. Quantity[x[1]]
<1>4. IsFiniteSet(S \X T) /\ Cardinality(S \X T) = Cardinality(S) * Cardinality(T)
  <2> HIDE DEF S, T
  <2> QED
    BY <1>2, <1>3, FS_Product DEF S, T
<1> QED
  BY <1>1, <1>2, <1>3, <1>4

\* A payment adds as many credits as its invoice is for.
LEMMA OneMorePaid ==
  ASSUME NEW a \in Accounts, NEW x \in Invoices \X Invoices, IsFiniteSet(PaidCredits(a)),
         x \notin PaymentsOf(a), PaymentsOf(a)' = PaymentsOf(a) \cup {x}
  PROVE  /\ IsFiniteSet(PaidCredits(a)')
         /\ Cardinality(PaidCredits(a)') = Cardinality(PaidCredits(a)) + Quantity[x[1]]
<1> DEFINE C == {x} \X (1 .. Quantity[x[1]])
<1>1. IsFiniteSet(C) /\ Cardinality(C) = Quantity[x[1]] /\ Quantity[x[1]] \in Nat
  BY CreditsOfOne
<1>2. PaidCredits(a)' = PaidCredits(a) \cup C
  BY DEF PaidCredits
<1>3. PaidCredits(a) \cap C = {}
  BY DEF PaidCredits
<1>4. Cardinality(PaidCredits(a)) \in Nat
  BY FS_CardinalityType
<1> HIDE DEF C
<1>5. /\ IsFiniteSet(PaidCredits(a) \cup C)
      /\ Cardinality(PaidCredits(a) \cup C) =
            Cardinality(PaidCredits(a)) + Cardinality(C) - Cardinality(PaidCredits(a) \cap C)
  BY <1>1, FS_Union
<1>6. Cardinality(PaidCredits(a) \cap C) = 0
  BY <1>3, FS_EmptySet
<1>7. Cardinality(PaidCredits(a) \cup C) = Cardinality(PaidCredits(a)) + Quantity[x[1]]
  BY <1>1, <1>4, <1>5, <1>6
<1> QED
  BY <1>2, <1>5, <1>7

LEMMA SamePaid ==
  ASSUME BalanceInv, UNCHANGED balance, \A a \in Accounts : PaymentsOf(a)' = PaymentsOf(a)
  PROVE  BalanceInv'
<1>1. \A a \in Accounts : PaidCredits(a)' = PaidCredits(a)
  BY DEF PaidCredits
<1> QED
  BY <1>1 DEF BalanceInv

LEMMA CommitBalance ==
  ASSUME TypeOK, PurchaseInv, BalanceInv, NEW p \in Procs, Commit(p)
  PROVE  BalanceInv'
<1> DEFINE i == target[p]
           o == paying[p]
<1>1. /\ pc[p] = "commit" /\ i \in Invoices /\ o \in Invoices /\ i \in locks[p]
      /\ op[p] \in {"purchase", "verify"} /\ OwnerOf[i] \in Accounts /\ OwnerOf[i] # i
      /\ Locked(p)
  <2>1. pc[p] = "commit" /\ i \in Invoices /\ o \in Invoices /\ op[p] \in {"purchase", "verify"}
    BY DEF Commit, TypeOK
  <2>2. OwnerOf[i] \in Accounts /\ OwnerOf[i] # i
    BY <2>1
  <2> QED
    BY <2>1, <2>2 DEF PurchaseInv, HandlerInv, Locked
<1>2. CASE op[p] = "purchase"
  <2>1. UNCHANGED paid /\ UNCHANGED balance
    BY <1>1, <1>2 DEF Commit, Locked
  <2> QED
    BY <2>1, SamePaid DEF PaymentsOf
<1>3. CASE op[p] = "verify"
  <2>1. Crediting(p) /\ CreditingInv(p)
    BY <1>1, <1>3 DEF Crediting, PurchaseInv, HandlerInv
  <2>2. paid' = paid \cup {<<i, o>>} /\ \A x \in paid : x[2] # o
    BY <1>1, <1>3, <2>1 DEF Commit, Pay, CreditingInv
  <2>3. CASE i \in EvcInvoices
    <3>1. UNCHANGED balance
      BY <1>1, <1>3, <2>3 DEF Commit, Locked
    <3>2. \A a \in Accounts : PaymentsOf(a)' = PaymentsOf(a)
      BY <2>2, <2>3 DEF PaymentsOf
    <3> QED
      BY <3>1, <3>2, SamePaid
  <2>4. CASE i \notin EvcInvoices
    <3>1. balance' = [balance EXCEPT ![OwnerOf[i]] = @ + Quantity[i]]
      BY <1>1, <1>3, <2>4 DEF Commit, Bought, Locked
    <3>2. ASSUME NEW a \in Accounts
          PROVE  IsFiniteSet(PaidCredits(a)') /\ balance'[a] = Cardinality(PaidCredits(a)')
      <4>1. IsFiniteSet(PaidCredits(a)) /\ balance[a] = Cardinality(PaidCredits(a))
        BY DEF BalanceInv
      <4>2. CASE a = OwnerOf[i]
        <5> DEFINE x == <<i, o>>
        <5>1. x \notin PaymentsOf(a) /\ PaymentsOf(a)' = PaymentsOf(a) \cup {x}
          BY <2>2, <2>4, <4>2 DEF PaymentsOf
        <5>2. balance'[a] = balance[a] + Quantity[i]
          BY <3>1, <4>2 DEF TypeOK
        <5>3. x \in Invoices \X Invoices /\ x[1] = i
          BY <1>1
        <5> HIDE DEF x
        <5> QED
          BY <4>1, <5>1, <5>2, <5>3, OneMorePaid
      <4>3. CASE a # OwnerOf[i]
        <5>1. PaymentsOf(a)' = PaymentsOf(a)
          BY <2>2, <4>3 DEF PaymentsOf
        <5>2. PaidCredits(a)' = PaidCredits(a)
          BY <5>1 DEF PaidCredits
        <5>3. balance'[a] = balance[a]
          BY <3>1, <4>3 DEF TypeOK
        <5> QED
          BY <4>1, <5>2, <5>3
      <4> QED
        BY <4>2, <4>3
    <3> QED
      BY <3>2 DEF BalanceInv
  <2> QED
    BY <2>3, <2>4
<1> QED
  BY <1>1, <1>2, <1>3

LEMMA BalanceStep == TypeOK /\ PurchaseInv /\ BalanceInv /\ [Next]_vars => BalanceInv'
<1> SUFFICES ASSUME TypeOK, PurchaseInv, BalanceInv, [Next]_vars PROVE BalanceInv'
  OBVIOUS
<1>1. CASE \E p \in Procs : Commit(p)
  BY <1>1, CommitBalance
<1>2. CASE UNCHANGED docVars
  BY <1>2, SamePaid DEF PaymentsOf, docVars
<1>3. (\E p \in Procs : Commit(p)) \/ UNCHANGED docVars
  BY DEF Next, PurchaseCredits, VerifyAndSaveCredits, PayerApproves, Crash, vars, ProgressStep,
         SaveInvoice, CreateOrder, CaptureOrder, CaptureNotCompleted, MarkPaid, AddEvcBalance,
         UpdateCredit, WriteConflict, Fail
<1> QED
  BY <1>1, <1>2, <1>3

\* What every account holds is what was bought for it, once for every order, for
\* any quantities, faults and restarts.
THEOREM BalancesAlways == Spec => []BalancesAddUp
<1>1. Init => BalanceInv
  <2> SUFFICES ASSUME Init PROVE BalanceInv
    OBVIOUS
  <2>1. \A a \in Accounts : PaidCredits(a) = {} /\ balance[a] = 0
    BY DEF Init, PaidCredits, PaymentsOf
  <2> QED
    BY <2>1, FS_EmptySet DEF BalanceInv
<1>2. Spec => []BalanceInv
  BY <1>1, BalanceStep, TypeCorrect, PurchaseCorrect, PTL DEF Spec
<1>3. BalanceInv => BalancesAddUp
  BY DEF BalanceInv, BalancesAddUp
<1> QED
  BY <1>2, <1>3, PTL

-----------------------------------------------------------------------------

\* VAT, for any prices and rates: it is left out only without a rate, or for a buyer
\* in another country of the EU whose number was looked up (calculateVat).
THEOREM VatAlways == VatFits(Nat, Nat \ {0})
<1> SUFFICES ASSUME NEW seller \in Parties, NEW buyer \in Parties, NEW rate \in Nat,
                    NEW price \in Nat \ {0}, NumberAccepted(seller), NumberAccepted(buyer)
             PROVE  LET asked == CalculateVat(seller, rate, buyer, price) IN
                    /\ asked.grandTotal = asked.totalPrice + asked.vatAmount
                    /\ rate # 0 /\ asked.vatAmount = 0 =>
                          /\ asked.reverseCharge
                          /\ buyer.vatNumber = "valid" /\ buyer.country # seller.country
  BY DEF VatFits
<1>1. price * rate \in Nat /\ (rate # 0 => price * rate # 0)
  OBVIOUS
<1> QED
  BY <1>1 DEF CalculateVat, ReverseCharge, NumberAccepted, Parties, EuCountries
=============================================================================
