----------------------- MODULE PricingMatrixProofs -----------------------
(***************************************************************************)
(* Proofs about PricingMatrix, for any number of portals, types,           *)
(* solutions, customers and handlers, any updates and any faults.          *)
(***************************************************************************)
EXTENDS PricingMatrix, FiniteSetTheorems, TLAPS

Ops == {"none", "createAdmin", "createType", "deleteType", "createSolution",
        "removeSolution", "createCustomer", "update"}

\* The steps of an operation, and what it works on.
StepsOf(o) ==
    CASE o = "createAdmin" -> {"first", "save", "credit", "pricing", "commit"}
      [] o = "createType" -> {"pricing", "credit", "save", "commit"}
      [] o = "deleteType" -> {"first", "pricing", "credit", "commit"}
      [] o \in {"createSolution", "removeSolution"} -> {"first", "pricing", "commit"}
      [] o = "createCustomer" -> {"save", "commit"}
      [] o = "update" -> {"write"}
      [] OTHER -> {"idle"}

KindOf(o) ==
    CASE o \in {"createAdmin", "update"} -> Admins
      [] o \in {"createType", "deleteType"} -> Types
      [] o \in {"createSolution", "removeSolution"} -> Solutions
      [] o = "createCustomer" -> Customers
      [] OTHER -> {NoDoc}

\* What the transaction of p has written by each step.
Held(p) ==
    LET d == target[p]
        Upto(S, x) == IF pc[p] \in S THEN {} ELSE {x} IN
    CASE op[p] = "createAdmin" ->
            Upto({"first"}, d) \cup Upto({"first", "save"}, DefaultOf[d])
              \cup Upto({"first", "save", "credit"}, CreditDoc(d))
              \cup Upto({"first", "save", "credit", "pricing"}, PricingDoc(d))
      [] op[p] = "createType" ->
            Upto({"pricing"}, PricingDoc(AdminOf[d]))
              \cup Upto({"pricing", "credit"}, CreditDoc(AdminOf[d]))
              \cup Upto({"pricing", "credit", "save"}, d)
      [] op[p] = "deleteType" ->
            Upto({"first"}, d) \cup Upto({"first", "pricing"}, PricingDoc(AdminOf[d]))
              \cup Upto({"first", "pricing", "credit"}, CreditDoc(AdminOf[d]))
      [] op[p] \in {"createSolution", "removeSolution"} ->
            Upto({"first"}, d) \cup
            (IF pc[p] = "commit" THEN {PricingDoc(a) : a \in view[p].admins} ELSE {})
      [] op[p] = "createCustomer" -> Upto({"save"}, d)
      [] OTHER -> {}

\* Where p is, on what, with which documents written and what read.
Route(p) ==
    /\ pc[p] \in StepsOf(op[p])
    /\ target[p] \in KindOf(op[p])
    /\ locks[p] = Held(p)
    /\ p \in snap <=> locks[p] # {}
    /\ p \in snap /\ op[p] # "createCustomer" => view[p] \in Snapshot
    /\ op[p] = "createCustomer" => view[p] \in Types
    /\ op[p] = "update" => view[p] \in Pricings

TypeInv == TypeOK /\ \A p \in Procs : Route(p)

\* Every row has limits, also in the copies that are written back.
PricedInv ==
    /\ \A a \in Admins : pricing[a].items \subseteq pricing[a].limits
    /\ \A p \in Procs : op[p] = "update" => view[p].items \subseteq view[p].limits

TxInv == LocksDisjoint /\ \A p \in Procs : locks[p] \cap stale[p] = {}

\* A portal has the EVC prices of its types, and a type its portal.
EvcInv ==
    /\ \A t \in types : AdminOf[t] \in admins
    /\ \A a \in admins : evcPrices[a] = TypesOf(a, types)
    /\ \A p \in Procs :
          /\ op[p] = "createAdmin" =>
                target[p] \notin admins /\ \A q \in Procs \ {p} : target[q] # target[p]
          /\ op[p] = "createType" => AdminOf[target[p]] \in admins

\* What a handler saw of the types and solutions of a portal is still so, or the
\* portal's pricing document changed since and the handler cannot write it.
SeenInv ==
    /\ FirstAdmins \subseteq admins
    /\ \A p \in snap : op[p] # "createCustomer" =>
          /\ FirstAdmins \subseteq view[p].admins
          /\ \A a \in FirstAdmins :
                \/ PricingDoc(a) \in stale[p]
                \/ /\ TypesOf(a, view[p].types) = TypesOf(a, types)
                   /\ view[p].solutions = solutions

CompleteInv ==
    /\ \A p \in Procs : op[p] = "update" => updates > 0
    /\ updates = 0 => \A a \in FirstAdmins : CompleteIn(a)

-----------------------------------------------------------------------------
(* Types. *)

DataOK ==
    /\ admins \subseteq Admins /\ types \subseteq Types /\ solutions \subseteq Solutions
    /\ customers \in [Customers -> Types \cup {NoDoc}]
    /\ pricing \in [Admins -> Pricings]
    /\ evcPrices \in [Admins -> SUBSET Types]

HandlersOK ==
    /\ pc \in [Procs -> {"idle", "first", "pricing", "credit", "save", "write", "commit"}]
    /\ op \in [Procs -> Ops]
    /\ target \in [Procs -> Docs \cup {NoDoc}]
    /\ view \in [Procs -> Snapshot \cup Pricings \cup Types \cup {NoDoc}]

BoundsOK == updates \in 0 .. MaxUpdates /\ faults \in 0 .. MaxFaults

LEMMA TypeParts ==
  ASSUME DataOK, HandlersOK, BoundsOK, TxTypeOK(Docs), \A p \in Procs : Route(p)
  PROVE  TypeInv
<1>1. \A p \in Procs : locks[p] # {} /\ op[p] # "createCustomer" => view[p] \in Snapshot
  BY DEF Route
<1> QED
  BY <1>1 DEF DataOK, HandlersOK, BoundsOK, TypeInv, TypeOK, Ops

LEMMA TypeFacts ==
  ASSUME TypeInv
  PROVE  DataOK /\ HandlersOK /\ BoundsOK /\ TxTypeOK(Docs) /\ \A p \in Procs : Route(p)
BY DEF DataOK, HandlersOK, BoundsOK, TypeInv, TypeOK, Ops

\* All handlers but p stay where they are.
Still(p) ==
    \A q \in Procs \ {p} : /\ pc'[q] = pc[q] /\ op'[q] = op[q] /\ target'[q] = target[q]
                           /\ view'[q] = view[q]

\* Their transactions stay as they are, but for what others changed.
TxStill(p) ==
    \A q \in Procs \ {p} : locks'[q] = locks[q] /\ (q \in snap' <=> q \in snap)

LEMMA RoutesKept ==
  ASSUME NEW p \in Procs, Still(p), TxStill(p), \A q \in Procs : Route(q), Route(p)'
  PROVE  \A q \in Procs : Route(q)'
<1> SUFFICES ASSUME NEW q \in Procs \ {p} PROVE Route(q)'
  OBVIOUS
<1>1. /\ pc'[q] = pc[q] /\ op'[q] = op[q] /\ target'[q] = target[q] /\ view'[q] = view[q]
      /\ locks'[q] = locks[q] /\ (q \in snap' <=> q \in snap)
  BY DEF Still, TxStill
<1>2. Held(q)' = Held(q)
  BY <1>1 DEF Held
<1> QED
  BY <1>1, <1>2 DEF Route

LEMMA StepTypes ==
  ASSUME TypeInv, NEW p \in Procs, Still(p), TxStill(p),
         DataOK', HandlersOK', BoundsOK', TxTypeOK(Docs)', Route(p)'
  PROVE  TypeInv'
<1>1. \A q \in Procs : Route(q)'
  BY RoutesKept, TypeFacts
<1>2. \A q \in Procs : locks'[q] # {} /\ op'[q] # "createCustomer" => view'[q] \in Snapshot'
  BY <1>1 DEF Route
<1> QED
  BY <1>1, <1>2 DEF DataOK, HandlersOK, BoundsOK, TypeInv, TypeOK, Ops

LEMMA TakeMoves ==
  ASSUME HandlersOK, NEW p \in Procs, NEW o \in Ops, NEW d \in Docs, NEW s \in StepsOf(o),
         Take(p, o, d, s)
  PROVE  /\ HandlersOK' /\ Still(p) /\ TxStill(p) /\ pc[p] = "idle"
         /\ pc'[p] = s /\ op'[p] = o /\ target'[p] = d /\ view'[p] = view[p]
<1>1. s \in {"idle", "first", "pricing", "credit", "save", "write", "commit"}
  BY DEF StepsOf
<1> QED
  BY <1>1 DEF HandlersOK, Take, Still, TxStill, txVars

LEMMA LeaveMoves ==
  ASSUME HandlersOK, NEW p \in Procs, Leave(p)
  PROVE  /\ HandlersOK' /\ Still(p)
         /\ pc'[p] = "idle" /\ op'[p] = "none" /\ target'[p] = NoDoc /\ view'[p] = NoDoc
BY DEF HandlersOK, Leave, Still, Ops

LEMMA InitTypes == Init => TypeInv
<1> SUFFICES ASSUME Init PROVE TypeInv
  OBVIOUS
<1>1. DataOK
  BY PricingAssumption DEF Init, DataOK, Pricings, Entries, NoEntries
<1>2. HandlersOK /\ BoundsOK /\ TxTypeOK(Docs)
  BY PricingAssumption DEF Init, HandlersOK, BoundsOK, TxTypeOK, TxInit, Ops
<1>3. \A p \in Procs : Route(p)
  BY DEF Init, TxInit, Route, StepsOf, KindOf, Held
<1> QED
  BY <1>1, <1>2, <1>3, TypeParts

\* A request that writes in a transaction begins with none.
LEMMA BeginTypes ==
  ASSUME TypeInv, NEW p \in Procs, NEW o \in Ops \ {"none", "update", "createCustomer"},
         NEW d \in KindOf(o), NEW s \in StepsOf(o), Take(p, o, d, s), UNCHANGED updates,
         s = IF o = "createType" THEN "pricing" ELSE "first"
  PROVE  TypeInv'
<1>1. d \in Docs
  BY DEF KindOf, Docs, Ops
<1>2. /\ HandlersOK' /\ Still(p) /\ TxStill(p) /\ pc[p] = "idle"
      /\ pc'[p] = s /\ op'[p] = o /\ target'[p] = d /\ view'[p] = view[p]
  BY <1>1, TakeMoves, TypeFacts
<1>3. DataOK' /\ BoundsOK' /\ TxTypeOK(Docs)'
  BY TypeFacts DEF Take, dataVars, txVars, DataOK, BoundsOK, TxTypeOK
<1>4. op[p] = "none" /\ Route(p)
  BY <1>2, TypeFacts DEF HandlersOK, Ops, Route, StepsOf
<1>5. locks[p] = {} /\ p \notin snap
  BY <1>4 DEF Route, Held
<1>6. locks'[p] = {} /\ p \notin snap'
  BY <1>5 DEF Take, txVars
<1>7. Held(p)' = {}
  BY <1>2 DEF Held, Ops
<1>8. Route(p)'
  BY <1>2, <1>6, <1>7 DEF Route
<1> QED
  BY <1>2, <1>3, <1>8, StepTypes

LEMMA RequestTypes == ASSUME TypeInv, NEW p \in Procs, Request(p) PROVE TypeInv'
<1>1. ASSUME NEW a \in Admins, CreateAdmin(p, a) PROVE TypeInv'
  BY <1>1, BeginTypes DEF CreateAdmin, StepsOf, KindOf, Ops
<1>2. ASSUME NEW t \in Types, CreateCustomerType(p, t) PROVE TypeInv'
  BY <1>2, BeginTypes DEF CreateCustomerType, StepsOf, KindOf, Ops
<1>3. ASSUME NEW t \in Types, DeleteCustomerType(p, t) PROVE TypeInv'
  BY <1>3, BeginTypes DEF DeleteCustomerType, StepsOf, KindOf, Ops
<1>4. ASSUME NEW s \in Solutions, CreateSolution(p, s) PROVE TypeInv'
  BY <1>4, BeginTypes DEF CreateSolution, StepsOf, KindOf, Ops
<1>5. ASSUME NEW s \in Solutions, RemoveSolution(p, s) PROVE TypeInv'
  BY <1>5, BeginTypes DEF RemoveSolution, StepsOf, KindOf, Ops
<1>6. pc[p] = "idle" => op[p] = "none" /\ locks[p] = {} /\ p \notin snap
  <2>1. op[p] \in Ops /\ Route(p)
    BY TypeFacts DEF HandlersOK
  <2> QED
    BY <2>1 DEF Ops, Route, StepsOf, Held
<1>7. ASSUME NEW a \in Admins, UpdatePricing(p, a) PROVE TypeInv'
  <2>1. /\ DataOK' /\ BoundsOK' /\ TxTypeOK(Docs)' /\ TxStill(p)
        /\ locks'[p] = {} /\ p \notin snap'
    BY <1>6, <1>7, TypeFacts, PricingAssumption
    DEF UpdatePricing, dataVars, txVars, DataOK, BoundsOK, TxTypeOK, TxStill
  <2>2. /\ HandlersOK' /\ Still(p)
        /\ pc'[p] = "write" /\ op'[p] = "update" /\ target'[p] = a /\ view'[p] \in Pricings
    BY <1>7, TypeFacts DEF UpdatePricing, HandlersOK, DataOK, Still, Ops, Docs
  <2>3. Route(p)'
    BY <2>1, <2>2 DEF Route, StepsOf, KindOf, Held
  <2> QED
    BY <2>1, <2>2, <2>3, StepTypes
<1>8. ASSUME NEW c \in Customers, NEW t \in Types, CreateCustomer(p, c, t) PROVE TypeInv'
  <2>1. /\ DataOK' /\ BoundsOK' /\ TxTypeOK(Docs)' /\ TxStill(p)
        /\ locks'[p] = {} /\ p \notin snap'
    BY <1>6, <1>8, TypeFacts
    DEF CreateCustomer, dataVars, txVars, DataOK, BoundsOK, TxTypeOK, TxStill
  <2>2. /\ HandlersOK' /\ Still(p) /\ view'[p] = t
        /\ pc'[p] = "save" /\ op'[p] = "createCustomer" /\ target'[p] = c
    BY <1>8, TypeFacts DEF CreateCustomer, HandlersOK, Still, Ops, Docs
  <2>3. Route(p)'
    BY <2>1, <2>2 DEF Route, StepsOf, KindOf, Held
  <2> QED
    BY <2>1, <2>2, <2>3, StepTypes
<1> QED
  BY <1>1, <1>2, <1>3, <1>4, <1>5, <1>7, <1>8 DEF Request

\* A step of a transaction, by what it writes and where it leads.
LEMMA WriteSteps ==
  ASSUME TypeInv, NEW p \in Procs, Written(p) # {} \/ pc[p] = "pricing"
  PROVE  LET d == target[p] IN
         \/ At(p, "createAdmin", "first") /\ Written(p) = {d} /\ After(p) = "save"
         \/ At(p, "createAdmin", "save") /\ Written(p) = {DefaultOf[d]} /\ After(p) = "credit"
         \/ At(p, "createAdmin", "credit") /\ Written(p) = {CreditDoc(d)} /\ After(p) = "pricing"
         \/ At(p, "createAdmin", "pricing") /\ Written(p) = {PricingDoc(d)} /\ After(p) = "commit"
         \/ At(p, "createType", "pricing") /\ Written(p) = {PricingDoc(AdminOf[d])}
              /\ After(p) = "credit"
         \/ At(p, "createType", "credit") /\ Written(p) = {CreditDoc(AdminOf[d])}
              /\ After(p) = "save"
         \/ At(p, "createType", "save") /\ Written(p) = {d} /\ After(p) = "commit"
         \/ At(p, "deleteType", "first") /\ Written(p) = {d} /\ After(p) = "pricing"
         \/ At(p, "deleteType", "pricing") /\ Written(p) = {PricingDoc(AdminOf[d])}
              /\ After(p) = "credit"
         \/ At(p, "deleteType", "credit") /\ Written(p) = {CreditDoc(AdminOf[d])}
              /\ After(p) = "commit"
         \/ /\ op[p] \in {"createSolution", "removeSolution"} /\ pc[p] = "first"
            /\ Written(p) = {d} /\ After(p) = "pricing"
         \/ /\ op[p] \in {"createSolution", "removeSolution"} /\ pc[p] = "pricing"
            /\ Written(p) = {PricingDoc(a) : a \in view[p].admins} /\ After(p) = "commit"
         \/ At(p, "createCustomer", "save") /\ Written(p) = {d} /\ After(p) = "commit"
<1>1. op[p] \in Ops /\ pc[p] \in StepsOf(op[p])
  BY TypeFacts DEF HandlersOK, Route
<1>2. CASE op[p] = "createAdmin"
  BY <1>1, <1>2 DEF StepsOf, Written, After, At
<1>3. CASE op[p] = "createType"
  BY <1>1, <1>3 DEF StepsOf, Written, After, At
<1>4. CASE op[p] = "deleteType"
  BY <1>1, <1>4 DEF StepsOf, Written, After, At
<1>5. CASE op[p] \in {"createSolution", "removeSolution"}
  <2>1. pc[p] \in {"first", "pricing", "commit"}
    BY <1>1, <1>5 DEF StepsOf
  <2>2. After(p) = [first |-> "pricing", pricing |-> "commit"][pc[p]]
    BY <1>5 DEF After
  <2>3. CASE pc[p] = "first"
    BY <1>5, <2>2, <2>3 DEF Written, At
  <2>4. CASE pc[p] = "pricing"
    BY <1>5, <2>2, <2>4 DEF Written, At
  <2>5. CASE pc[p] = "commit"
    BY <1>5, <2>5 DEF Written, At
  <2> QED
    BY <2>1, <2>3, <2>4, <2>5
<1>6. CASE op[p] = "createCustomer"
  BY <1>1, <1>6 DEF StepsOf, Written, After, At
<1>7. CASE op[p] \in {"none", "update"}
  BY <1>1, <1>7 DEF StepsOf, Written, At
<1> QED
  BY <1>1, <1>2, <1>3, <1>4, <1>5, <1>6, <1>7 DEF Ops

LEMMA WrittenDocs ==
  ASSUME TypeInv, NEW p \in Procs, Written(p) # {} \/ pc[p] = "pricing"
  PROVE  /\ Written(p) \in SUBSET Docs
         /\ After(p) \in StepsOf(op[p]) /\ pc[p] # "commit"
         /\ op[p] \in Ops \ {"none", "update"}
         /\ locks[p] \cup Written(p) # {}
<1>1. target[p] \in KindOf(op[p]) /\ locks[p] = Held(p)
      /\ (p \in snap <=> locks[p] # {})
      /\ (p \in snap /\ op[p] # "createCustomer" => view[p] \in Snapshot)
  BY TypeFacts DEF Route
<1>2. op[p] = "createAdmin" => target[p] \in Admins
  BY <1>1 DEF KindOf
<1>3. op[p] \in {"createType", "deleteType"} => target[p] \in Types
  BY <1>1 DEF KindOf
<1>4. op[p] \in {"createSolution", "removeSolution"} => target[p] \in Solutions
  BY <1>1 DEF KindOf
<1>5. op[p] = "createCustomer" => target[p] \in Customers
  BY <1>1 DEF KindOf
<1>6. op[p] \in {"createSolution", "removeSolution"} /\ pc[p] = "pricing" =>
          view[p].admins \subseteq Admins /\ locks[p] # {}
  <2> SUFFICES ASSUME op[p] \in {"createSolution", "removeSolution"}, pc[p] = "pricing"
               PROVE  view[p].admins \subseteq Admins /\ locks[p] # {}
    OBVIOUS
  <2>1. locks[p] # {}
    BY <1>1 DEF Held
  <2>2. view[p] \in Snapshot
    BY <1>1, <2>1
  <2> QED
    BY <2>1, <2>2 DEF Snapshot
<1>7. Written(p) \in SUBSET Docs
  BY WriteSteps, <1>2, <1>3, <1>4, <1>5, <1>6, PricingAssumption DEF At, Docs
<1>8. /\ After(p) \in StepsOf(op[p]) /\ pc[p] # "commit"
      /\ op[p] \in Ops \ {"none", "update"}
  BY WriteSteps DEF At, StepsOf, Ops
<1>9. locks[p] \cup Written(p) # {}
  BY WriteSteps, <1>6 DEF At
<1> QED
  BY <1>7, <1>8, <1>9

\* What a handler has written after a step is what it had and what the step writes.
LEMMA WriteHeld ==
  ASSUME TypeInv, NEW p \in Procs, Written(p) # {} \/ pc[p] = "pricing",
         pc'[p] = After(p), op'[p] = op[p], target'[p] = target[p],
         op[p] \in {"createSolution", "removeSolution"} /\ pc[p] = "pricing" =>
            view'[p] = view[p]
  PROVE  Held(p)' = Held(p) \cup Written(p)
<1> DEFINE d == target[p]
<1>1. CASE op[p] = "createAdmin"
  BY <1>1, WriteSteps DEF At, Held
<1>2. CASE op[p] = "createType"
  BY <1>2, WriteSteps DEF At, Held
<1>3. CASE op[p] = "deleteType"
  BY <1>3, WriteSteps DEF At, Held
<1>4. CASE op[p] \in {"createSolution", "removeSolution"}
  BY <1>4, WriteSteps DEF At, Held
<1>5. CASE op[p] = "createCustomer"
  BY <1>5, WriteSteps DEF At, Held
<1> QED
  BY <1>1, <1>2, <1>3, <1>4, <1>5, WrittenDocs DEF Ops

LEMMA WriteTypes == ASSUME TypeInv, NEW p \in Procs, Write(p) PROVE TypeInv'
<1>1. Written(p) # {} \/ pc[p] = "pricing"
  BY DEF Write
<1>2. /\ HandlersOK /\ DataOK /\ BoundsOK /\ TxTypeOK(Docs) /\ Route(p)
      /\ Written(p) \in SUBSET Docs
      /\ After(p) \in StepsOf(op[p]) /\ pc[p] # "commit"
      /\ op[p] \in Ops \ {"none", "update"}
      /\ locks[p] \cup Written(p) # {}
  BY <1>1, TypeFacts, WrittenDocs
<1>3. /\ locks' = [locks EXCEPT ![p] = @ \cup Written(p)]
      /\ snap' = snap \cup {p} /\ stale' = stale
      /\ pc' = [pc EXCEPT ![p] = After(p)] /\ op' = op /\ target' = target
  BY DEF Write, SessionWrites, Goto
<1>4. view' = IF p \in snap \/ op[p] = "createCustomer" THEN view
              ELSE [view EXCEPT ![p] =
                       [admins |-> admins, types |-> types, solutions |-> solutions]]
  BY DEF Write, SessionWrites
<1>5. [admins |-> admins, types |-> types, solutions |-> solutions] \in Snapshot
  BY <1>2 DEF DataOK, Snapshot
<1>6. /\ view' \in [Procs -> Snapshot \cup Pricings \cup Types \cup {NoDoc}]
      /\ op[p] # "createCustomer" => view'[p] \in Snapshot
      /\ op[p] = "createCustomer" => view'[p] = view[p]
  BY <1>2, <1>4, <1>5 DEF HandlersOK, Route
<1>7. After(p) \in {"idle", "first", "pricing", "credit", "save", "write", "commit"}
  BY <1>2 DEF StepsOf
<1>8. HandlersOK' /\ Still(p) /\ TxStill(p)
  <2>1. /\ pc' \in [Procs -> {"idle", "first", "pricing", "credit", "save", "write", "commit"}]
        /\ \A q \in Procs \ {p} : pc'[q] = pc[q]
        /\ \A q \in Procs \ {p} : locks'[q] = locks[q]
    BY <1>2, <1>3, <1>7 DEF HandlersOK, TxTypeOK
  <2>2. \A q \in Procs \ {p} : view'[q] = view[q]
    BY <1>2, <1>4 DEF HandlersOK
  <2> QED
    BY <1>2, <1>3, <1>6, <2>1, <2>2 DEF HandlersOK, Still, TxStill
<1>9. pc'[p] = After(p) /\ op'[p] = op[p] /\ target'[p] = target[p]
      /\ locks'[p] = locks[p] \cup Written(p)
  BY <1>2, <1>3 DEF HandlersOK, TxTypeOK
<1>10. DataOK' /\ BoundsOK' /\ TxTypeOK(Docs)'
  BY <1>2, <1>3 DEF Write, dataVars, DataOK, BoundsOK, TxTypeOK
<1>11. op[p] \in {"createSolution", "removeSolution"} /\ pc[p] = "pricing" =>
            view'[p] = view[p]
  BY <1>2, <1>4 DEF Route, Held
<1>12. Held(p)' = locks'[p]
  BY <1>1, <1>2, <1>9, <1>11, WriteHeld DEF Route
<1>13. Route(p)'
  <2>1. pc'[p] \in StepsOf(op'[p]) /\ target'[p] \in KindOf(op'[p])
    BY <1>2, <1>9 DEF Route
  <2>2. p \in snap' <=> locks'[p] # {}
    BY <1>2, <1>3, <1>9
  <2>3. /\ p \in snap' /\ op'[p] # "createCustomer" => view'[p] \in Snapshot'
        /\ op'[p] = "createCustomer" => view'[p] \in Types
        /\ op'[p] = "update" => view'[p] \in Pricings'
    BY <1>2, <1>6, <1>9 DEF Route, Snapshot
  <2> QED
    BY <1>12, <2>1, <2>2, <2>3 DEF Route
<1> QED
  BY <1>8, <1>10, <1>13, StepTypes
-----------------------------------------------------------------------------
(* What a commit changes. *)

\* Documents of different collections, once more.
LEMMA DocKinds ==
  /\ \A a \in Admins, b \in Admins : /\ PricingDoc(a) # CreditDoc(b)
                                     /\ PricingDoc(a) = PricingDoc(b) => a = b
                                     /\ CreditDoc(a) = CreditDoc(b) => a = b
  /\ \A a \in Admins : /\ PricingDoc(a) \notin Admins \cup Types \cup Solutions \cup Customers
                       /\ CreditDoc(a) \notin Admins \cup Types \cup Solutions \cup Customers
  /\ \A a \in Admins : a \notin Types \cup Solutions \cup Customers
  /\ \A t \in Types : t \notin Admins \cup Solutions \cup Customers
  /\ \A s \in Solutions : s \notin Admins \cup Types \cup Customers
  /\ \A c \in Customers : c \notin Admins \cup Types \cup Solutions
<1>1. \A a \in Admins, b \in Admins : /\ PricingDoc(a) # CreditDoc(b)
                                      /\ PricingDoc(a) = PricingDoc(b) => a = b
                                      /\ CreditDoc(a) = CreditDoc(b) => a = b
  BY DEF PricingDoc, CreditDoc
<1>2. \A a \in Admins : /\ PricingDoc(a) \notin Admins \cup Types \cup Solutions \cup Customers
                        /\ CreditDoc(a) \notin Admins \cup Types \cup Solutions \cup Customers
  BY PricingAssumption
<1> QED
  BY <1>1, <1>2, PricingAssumption

\* Everything a commit is about: the documents that were written.
LEMMA CommitLocks ==
  ASSUME TypeInv, NEW p \in Procs, pc[p] = "commit"
  PROVE  LET d == target[p] IN
         /\ op[p] \in Ops \ {"none", "update"}
         /\ op[p] = "createAdmin" =>
               d \in Admins /\ locks[p] = {d, DefaultOf[d], CreditDoc(d), PricingDoc(d)}
         /\ op[p] = "createType" =>
               d \in Types /\ locks[p] = {d, CreditDoc(AdminOf[d]), PricingDoc(AdminOf[d])}
         /\ op[p] = "deleteType" =>
               d \in Types /\ locks[p] = {d, CreditDoc(AdminOf[d]), PricingDoc(AdminOf[d])}
         /\ op[p] \in {"createSolution", "removeSolution"} =>
               d \in Solutions /\ locks[p] = {d} \cup {PricingDoc(a) : a \in view[p].admins}
         /\ op[p] = "createCustomer" =>
               d \in Customers /\ locks[p] = {d} /\ view[p] \in Types
         /\ op[p] # "createCustomer" => view[p] \in Snapshot
         /\ p \in snap
<1>1. Route(p) /\ op[p] \in Ops
  BY TypeFacts DEF HandlersOK
<1>2. op[p] \in Ops \ {"none", "update"}
  BY <1>1 DEF Route, StepsOf, Ops
<1>3. op[p] = "createAdmin" =>
         target[p] \in Admins
         /\ locks[p] = {target[p], DefaultOf[target[p]], CreditDoc(target[p]),
                        PricingDoc(target[p])}
  BY <1>1 DEF Route, KindOf, Held
<1>4. op[p] \in {"createType", "deleteType"} =>
         target[p] \in Types
         /\ locks[p] = {target[p], CreditDoc(AdminOf[target[p]]), PricingDoc(AdminOf[target[p]])}
  BY <1>1 DEF Route, KindOf, Held
<1>5. op[p] \in {"createSolution", "removeSolution"} =>
         target[p] \in Solutions
         /\ locks[p] = {target[p]} \cup {PricingDoc(a) : a \in view[p].admins}
  BY <1>1 DEF Route, KindOf, Held
<1>6. op[p] = "createCustomer" =>
         target[p] \in Customers /\ locks[p] = {target[p]} /\ view[p] \in Types
  BY <1>1 DEF Route, KindOf, Held
<1>7. locks[p] # {}
  BY <1>2, <1>3, <1>4, <1>5, <1>6 DEF Ops
<1>8. p \in snap /\ (op[p] # "createCustomer" => view[p] \in Snapshot)
  BY <1>1, <1>7 DEF Route
<1> QED
  BY <1>2, <1>3, <1>4, <1>5, <1>6, <1>8

\* The portals whose documents a commit changes.
Priced(p) ==
    IF op[p] = "createAdmin" THEN {target[p]}
    ELSE IF op[p] \in {"createType", "deleteType"} THEN {AdminOf[target[p]]}
    ELSE IF op[p] \in {"createSolution", "removeSolution"} THEN view[p].admins
    ELSE {}

LEMMA CommitPriced ==
  ASSUME TypeInv, NEW p \in Procs, pc[p] = "commit"
  PROVE  /\ Priced(p) \subseteq Admins
         /\ \A a \in Admins : PricingDoc(a) \in locks[p] <=> a \in Priced(p)
         /\ \A a \in Admins : CreditDoc(a) \in locks[p] <=>
               a \in Priced(p) /\ op[p] \in {"createAdmin", "createType", "deleteType"}
         /\ locks[p] \cap Admins = IF op[p] = "createAdmin" THEN {target[p]} ELSE {}
         /\ locks[p] \cap Types =
               IF op[p] = "createAdmin" THEN {DefaultOf[target[p]]}
               ELSE IF op[p] \in {"createType", "deleteType"} THEN {target[p]} ELSE {}
         /\ locks[p] \cap Solutions =
               IF op[p] \in {"createSolution", "removeSolution"} THEN {target[p]} ELSE {}
<1> DEFINE d == target[p]
<1>1. CASE op[p] = "createAdmin"
  <2>1. d \in Admins /\ DefaultOf[d] \in Types
        /\ locks[p] = {d, DefaultOf[d], CreditDoc(d), PricingDoc(d)}
    BY <1>1, CommitLocks, PricingAssumption
  <2> QED
    BY <1>1, <2>1, DocKinds DEF Priced
<1>2. CASE op[p] \in {"createType", "deleteType"}
  <2>1. d \in Types /\ AdminOf[d] \in Admins
        /\ locks[p] = {d, CreditDoc(AdminOf[d]), PricingDoc(AdminOf[d])}
    BY <1>2, CommitLocks, PricingAssumption
  <2> QED
    BY <1>2, <2>1, DocKinds DEF Priced
<1>3. CASE op[p] \in {"createSolution", "removeSolution"}
  <2>1. d \in Solutions /\ view[p].admins \subseteq Admins
        /\ locks[p] = {d} \cup {PricingDoc(a) : a \in view[p].admins}
    BY <1>3, CommitLocks DEF Snapshot
  <2> QED
    BY <1>3, <2>1, DocKinds DEF Priced
<1>4. CASE op[p] = "createCustomer"
  <2>1. d \in Customers /\ locks[p] = {d}
    BY <1>4, CommitLocks
  <2> QED
    BY <1>4, <2>1, DocKinds DEF Priced
<1> QED
  BY <1>1, <1>2, <1>3, <1>4, CommitLocks DEF Ops

\* A pricing document as the commit of p leaves it.
LEMMA NewPricingType ==
  ASSUME TypeInv, NEW p \in Procs, pc[p] = "commit", NEW a \in Priced(p)
  PROVE  NewPricing(p, a) \in Pricings
<1>1. /\ a \in Admins /\ pricing[a] \in Pricings /\ pricing[a].items \subseteq Types
      /\ pricing[a].limits \subseteq Types /\ pricing[a].cells \subseteq Types \X Solutions
  BY CommitPriced, TypeFacts DEF DataOK, Pricings
<1> DEFINE d == target[p]
           pr == pricing[a]
<1>2. op[p] # "createCustomer" /\ op[p] \in Ops \ {"none", "update"} /\ view[p] \in Snapshot
  BY CommitLocks DEF Priced
<1>3. CASE op[p] = "createAdmin"
  <2>1. d \in Admins /\ DefaultOf[d] \in Types
    BY <1>3, CommitLocks, PricingAssumption
  <2>2. NewPricing(p, a) = Entries({DefaultOf[d]}, view[p].solutions)
    BY <1>3 DEF NewPricing
  <2> QED
    BY <1>2, <2>1, <2>2 DEF Snapshot, Entries, Pricings
<1>4. CASE op[p] = "createType"
  <2>1. d \in Types
    BY <1>4, CommitLocks
  <2>2. NewPricing(p, a) = [items |-> pr.items \cup {d}, limits |-> pr.limits \cup {d},
                            cells |-> pr.cells \cup ({d} \X view[p].solutions)]
    BY <1>1, <1>4 DEF NewPricing, PushPriceLimit, PushSolutionItemsByType,
                      PushCategoryBasedItems, Pricings
  <2> QED
    BY <1>1, <1>2, <2>1, <2>2 DEF Snapshot, Pricings
<1>5. CASE op[p] = "deleteType"
  <2>1. NewPricing(p, a) = [items |-> pr.items \ {d}, limits |-> pr.limits \ {d},
                            cells |-> {c \in pr.cells : c[1] # d}]
    BY <1>1, <1>5 DEF NewPricing, PullPriceLimit, PullSolutionItemsByType,
                      PullCategoryBasedItems, Pricings
  <2> QED
    BY <1>1, <2>1 DEF Pricings
<1>6. CASE op[p] = "createSolution"
  <2>1. d \in Solutions
    BY <1>6, CommitLocks
  <2>2. NewPricing(p, a) = [pr EXCEPT !.cells = @ \cup (TypesOf(a, view[p].types) \X {d})]
    BY <1>6 DEF NewPricing, PushSolutionItemsById
  <2>3. TypesOf(a, view[p].types) \subseteq Types
    BY <1>2 DEF TypesOf, Snapshot
  <2> QED
    BY <1>1, <2>1, <2>2, <2>3 DEF Pricings
<1>7. CASE op[p] = "removeSolution"
  <2>1. NewPricing(p, a) = [pr EXCEPT !.cells = {c \in pr.cells : c[2] # d}]
    BY <1>7 DEF NewPricing, PullSolutionItemsById
  <2> QED
    BY <1>1, <2>1 DEF Pricings
<1> QED
  BY <1>2, <1>3, <1>4, <1>5, <1>6, <1>7 DEF Ops

LEMMA CommitTypes == ASSUME TypeInv, NEW p \in Procs, Commit(p) PROVE TypeInv'
<1>1. /\ pc[p] = "commit" /\ TxCommit(p) /\ Leave(p) /\ UNCHANGED <<updates, faults>>
      /\ pricing' = [a \in Admins |->
                        IF PricingDoc(a) \in locks[p] THEN NewPricing(p, a) ELSE pricing[a]]
      /\ evcPrices' = [a \in Admins |->
                          IF CreditDoc(a) \in locks[p] THEN NewEvcPrices(p, a) ELSE evcPrices[a]]
      /\ admins' = admins \cup (locks[p] \cap Admins)
      /\ types' = IF op[p] = "deleteType" THEN types \ {target[p]}
                  ELSE types \cup (locks[p] \cap Types)
      /\ solutions' = IF op[p] = "removeSolution" THEN solutions \ {target[p]}
                      ELSE solutions \cup (locks[p] \cap Solutions)
      /\ customers' = IF op[p] = "createCustomer" THEN [customers EXCEPT ![target[p]] = view[p]]
                      ELSE customers
  BY DEF Commit
<1>2. HandlersOK /\ DataOK /\ BoundsOK /\ TxTypeOK(Docs)
  BY TypeFacts
<1>3. pricing' \in [Admins -> Pricings]
  BY <1>1, <1>2, CommitPriced, NewPricingType DEF DataOK
<1>4. evcPrices' \in [Admins -> SUBSET Types]
  <2> SUFFICES ASSUME NEW a \in Admins, CreditDoc(a) \in locks[p]
               PROVE  NewEvcPrices(p, a) \in SUBSET Types
    BY <1>1, <1>2 DEF DataOK
  <2>1. op[p] \in {"createAdmin", "createType", "deleteType"}
    BY <1>1, CommitPriced
  <2>2. /\ op[p] = "createAdmin" => DefaultOf[target[p]] \in Types
        /\ op[p] = "createType" => target[p] \in Types
        /\ evcPrices[a] \in SUBSET Types
    BY <1>1, <1>2, CommitLocks, PricingAssumption DEF DataOK
  <2> QED
    BY <2>1, <2>2 DEF NewEvcPrices, PushEvcPriceItems, PullEvcPricingItem
<1>5. DataOK'
  <2>1. op[p] = "createCustomer" => target[p] \in Customers /\ view[p] \in Types
    BY <1>1, CommitLocks
  <2>2. customers' \in [Customers -> Types \cup {NoDoc}]
    BY <1>1, <1>2, <2>1 DEF DataOK
  <2> QED
    BY <1>1, <1>2, <1>3, <1>4, <2>2 DEF DataOK
<1>6. BoundsOK' /\ TxTypeOK(Docs)' /\ TxStill(p) /\ locks'[p] = {} /\ p \notin snap'
  BY <1>1, <1>2 DEF BoundsOK, TxTypeOK, TxCommit, TxStill
<1>7. /\ HandlersOK' /\ Still(p)
      /\ pc'[p] = "idle" /\ op'[p] = "none" /\ target'[p] = NoDoc
  BY <1>1, <1>2, LeaveMoves
<1>8. Route(p)'
  BY <1>6, <1>7 DEF Route, StepsOf, KindOf, Held
<1> QED
  BY <1>5, <1>6, <1>7, <1>8, StepTypes

LEMMA AbortTypes ==
  ASSUME TypeInv, NEW p \in Procs, Abort(p), BoundsOK'
  PROVE  TypeInv'
<1>1. HandlersOK /\ DataOK /\ BoundsOK /\ TxTypeOK(Docs)
  BY TypeFacts
<1>2. DataOK' /\ TxTypeOK(Docs)' /\ TxStill(p) /\ locks'[p] = {} /\ p \notin snap'
  BY <1>1 DEF Abort, dataVars, DataOK, TxTypeOK, TxAbort, TxStill
<1>3. /\ HandlersOK' /\ Still(p)
      /\ pc'[p] = "idle" /\ op'[p] = "none" /\ target'[p] = NoDoc
  BY <1>1, LeaveMoves DEF Abort
<1>4. Route(p)'
  BY <1>2, <1>3 DEF Route, StepsOf, KindOf, Held
<1> QED
  BY <1>2, <1>3, <1>4, StepTypes

\* The handler that writes a copy back has no transaction.
LEMMA Writing ==
  ASSUME TypeInv, NEW p \in Procs, pc[p] = "write"
  PROVE  /\ op[p] = "update" /\ target[p] \in Admins /\ view[p] \in Pricings
         /\ locks[p] = {} /\ p \notin snap
<1>1. op[p] \in Ops /\ Route(p)
  BY TypeFacts DEF HandlersOK
<1>2. op[p] = "update"
  BY <1>1 DEF Ops, Route, StepsOf
<1> QED
  BY <1>1, <1>2 DEF Route, KindOf, Held

LEMMA WriteBackTypes == ASSUME TypeInv, NEW p \in Procs, WriteBack(p) PROVE TypeInv'
<1>1. HandlersOK /\ DataOK /\ BoundsOK /\ TxTypeOK(Docs)
  BY TypeFacts
<1>2. /\ pc[p] = "write" /\ PlainWrite(PricingDoc(target[p])) /\ Leave(p)
      /\ pricing' = [pricing EXCEPT ![target[p]] = view[p]]
      /\ UNCHANGED <<admins, types, solutions, customers, evcPrices, updates, faults>>
  BY DEF WriteBack
<1>3. target[p] \in Admins /\ view[p] \in Pricings /\ locks[p] = {} /\ p \notin snap
  BY <1>2, Writing
<1>4. DataOK' /\ BoundsOK'
  BY <1>1, <1>2, <1>3 DEF DataOK, BoundsOK
<1>5. PricingDoc(target[p]) \in Docs
  BY <1>3 DEF Docs
<1>6. TxTypeOK(Docs)' /\ TxStill(p) /\ locks'[p] = {} /\ p \notin snap'
  BY <1>1, <1>2, <1>3, <1>5 DEF TxTypeOK, PlainWrite, TxStill
<1>7. /\ HandlersOK' /\ Still(p)
      /\ pc'[p] = "idle" /\ op'[p] = "none" /\ target'[p] = NoDoc
  BY <1>1, <1>2, LeaveMoves
<1>8. Route(p)'
  BY <1>6, <1>7 DEF Route, StepsOf, KindOf, Held
<1> QED
  BY <1>4, <1>6, <1>7, <1>8, StepTypes

LEMMA TypeNext == TypeInv /\ [Next]_vars => TypeInv'
<1> SUFFICES ASSUME TypeInv, [Next]_vars PROVE TypeInv'
  OBVIOUS
<1>1. ASSUME NEW p \in Procs, HandlerStep(p) PROVE TypeInv'
  <2>1. CASE WriteConflict(p)
    BY <2>1, AbortTypes, TypeFacts DEF WriteConflict, Abort, BoundsOK
  <2>2. CASE Fail(p)
    BY <2>2, AbortTypes, TypeFacts, PricingAssumption DEF Fail, Abort, BoundsOK
  <2> QED
    BY <1>1, <2>1, <2>2, WriteTypes, WriteBackTypes, CommitTypes DEF HandlerStep
<1>2. CASE UNCHANGED vars
  <2>1. \A p \in Procs : Held(p)' = Held(p)
    BY <1>2 DEF vars, procVars, Held
  <2> QED
    BY <1>2, <2>1 DEF vars, procVars, dataVars, txVars, TypeInv, TypeOK, Route, TxTypeOK
<1> QED
  BY <1>1, <1>2, RequestTypes DEF Next

LEMMA TypeInvCorrect == Spec => []TypeInv
  BY InitTypes, TypeNext, PTL DEF Spec

\* Pricing documents, what handlers have read and what they work on keep their types;
\* a handler that has written something has read a snapshot.
THEOREM TypeCorrect == Spec => []TypeOK
<1>1. TypeInv => TypeOK
  BY DEF TypeInv
<1> QED
  BY <1>1, TypeInvCorrect, PTL

-----------------------------------------------------------------------------
(* Prices. *)

LEMMA TotalFacts ==
  ASSUME NEW S, IsFiniteSet(S), NEW most \in Nat, NEW price \in [S -> 0 .. most],
         NEW chosen \in SUBSET S
  PROVE  /\ Total(price, chosen) \in Nat
         /\ Total(price, chosen) = 0 => \A x \in chosen : price[x] = 0
<1> DEFINE credits == UNION {{x} \X (1 .. price[x]) : x \in chosen}
<1>1. IsFiniteSet(S \X (1 .. most))
  <2>1. 1 \in Int /\ most \in Int
    OBVIOUS
  <2>2. IsFiniteSet(1 .. most)
    BY <2>1, FS_Interval, Zenon
  <2> QED
    BY <2>2, FS_Product, Zenon
<1>2. credits \subseteq S \X (1 .. most)
  <2> SUFFICES ASSUME NEW x \in chosen, NEW k \in 1 .. price[x] PROVE k \in 1 .. most
    OBVIOUS
  <2> QED
    OBVIOUS
<1>3. Total(price, chosen) = Cardinality(credits)
  BY DEF Total
<1>4. \A x \in chosen : price[x] # 0 => <<x, 1>> \in credits
  OBVIOUS
<1> HIDE DEF credits
<1>5. IsFiniteSet(credits)
  BY <1>1, <1>2, FS_Subset
<1>6. Cardinality(credits) \in Nat /\ (Cardinality(credits) = 0 => credits = {})
  BY <1>5, FS_CardinalityType, FS_EmptySet
<1> QED
  BY <1>3, <1>4, <1>6

\* What the calculation of a file's price promises, for any number of solutions and any
\* prices and limits: the upper limit holds, nothing is free where there is a lower
\* limit, and a portal pays what its limits allow.
THEOREM CreditsWithinLimits ==
  ASSUME NEW S, IsFiniteSet(S), NEW most \in Nat, NEW price \in [S -> 0 .. most],
         NEW some \in SUBSET S, NEW others \in SUBSET S,
         NEW limit \in [min : Nat, max : Nat], limit.min <= limit.max
  PROVE  /\ SolutionCredits(some, others, price, limit) <= limit.max
         /\ SolutionCredits(some, others, price, limit) = 0 => limit.min = 0
         /\ AdminCredits(some, price, limit) \in limit.min .. limit.max
         /\ CategoryCredits(some, price) = 0 => \A x \in some : price[x] = 0
<1>1. /\ Total(price, some) \in Nat /\ Total(price, others) \in Nat
      /\ Total(price, some) = 0 => \A x \in some : price[x] = 0
  BY TotalFacts
<1>2. limit.min \in Nat /\ limit.max \in Nat
  OBVIOUS
<1>3. /\ SolutionCredits(some, others, price, limit) <= limit.max
      /\ SolutionCredits(some, others, price, limit) = 0 => limit.min = 0
  BY <1>1, <1>2 DEF SolutionCredits
<1>4. AdminCredits(some, price, limit) \in limit.min .. limit.max
  BY <1>1, <1>2 DEF AdminCredits
<1> QED
  BY <1>1, <1>3, <1>4 DEF CategoryCredits

LEMMA CreditsAlwaysFit == CreditsFit
<1> SUFFICES ASSUME NEW price \in [Chosen -> Amounts], NEW some \in SUBSET Chosen,
                    NEW others \in SUBSET Chosen, NEW limit \in Limits
             PROVE  LET solutionBased == SolutionCredits(some, others, price, limit) IN
                    /\ solutionBased <= limit.max
                    /\ solutionBased = 0 => limit.min = 0
                    /\ AdminCredits(some, price, limit) \in limit.min .. limit.max
                    /\ CategoryCredits(some, price) = 0 => \A x \in some : price[x] = 0
  BY DEF CreditsFit
<1>1. IsFiniteSet(Chosen)
  <2>1. 1 \in Int /\ 2 \in Int
    OBVIOUS
  <2> QED
    BY <2>1, FS_Interval, Zenon DEF Chosen
<1>2. /\ limit \in [min : Nat, max : Nat] /\ limit.min <= limit.max
      /\ price \in [Chosen -> 0 .. 2] /\ 2 \in Nat
  BY DEF Limits, Amounts
<1> QED
  BY <1>1, <1>2, CreditsWithinLimits

LEMMA PricedNext == TypeInv /\ PricedInv /\ [Next]_vars => PricedInv'
<1> SUFFICES ASSUME TypeInv, PricedInv, [Next]_vars PROVE PricedInv'
  OBVIOUS
<1> USE DEF PricedInv
<1>0. HandlersOK /\ DataOK
  BY TypeFacts
<1>1. ASSUME NEW p \in Procs, Request(p) PROVE PricedInv'
  <2>1. pricing' = pricing
    BY <1>1 DEF Request, CreateAdmin, UpdatePricing, CreateCustomerType, DeleteCustomerType,
                CreateSolution, RemoveSolution, CreateCustomer, Take, dataVars
  <2>2. ASSUME NEW q \in Procs, op'[q] = "update" PROVE view'[q].items \subseteq view'[q].limits
    <3>1. CASE \E a \in Admins : UpdatePricing(p, a)
      BY <1>0, <2>2, <3>1 DEF UpdatePricing, HandlersOK
    <3>2. CASE \E c \in Customers, t \in Types : CreateCustomer(p, c, t)
      BY <1>0, <2>2, <3>2 DEF CreateCustomer, HandlersOK
    <3>3. ASSUME NEW o \in Ops \ {"update"}, NEW d, NEW s, Take(p, o, d, s)
          PROVE  view'[q].items \subseteq view'[q].limits
      BY <1>0, <2>2, <3>3 DEF Take, HandlersOK
    <3> QED
      BY <1>1, <3>1, <3>2, <3>3 DEF Request, CreateAdmin, CreateCustomerType,
         DeleteCustomerType, CreateSolution, RemoveSolution, Ops
  <2> QED
    BY <2>1, <2>2
<1>2. ASSUME NEW p \in Procs, Write(p) PROVE PricedInv'
  <2>1. pricing' = pricing /\ op' = op
    BY <1>2 DEF Write, Goto, dataVars
  <2>2. op[p] # "update"
    BY <1>2, WrittenDocs DEF Write
  <2>3. \A q \in Procs \ {p} : view'[q] = view[q]
    BY <1>0, <1>2 DEF Write, SessionWrites, HandlersOK
  <2> QED
    BY <2>1, <2>2, <2>3
<1>3. ASSUME NEW p \in Procs, Leave(p) PROVE \A q \in Procs : op'[q] = "update" =>
                                          view'[q].items \subseteq view'[q].limits
  BY <1>0, <1>3 DEF Leave, HandlersOK
<1>4. ASSUME NEW p \in Procs, WriteBack(p) PROVE PricedInv'
  <2>1. op[p] = "update" /\ pricing' = [pricing EXCEPT ![target[p]] = view[p]]
    BY <1>4, Writing DEF WriteBack
  <2> QED
    BY <1>0, <1>3, <1>4, <2>1 DEF WriteBack, DataOK
<1>5. ASSUME NEW p \in Procs, Commit(p) PROVE PricedInv'
  <2>1. pc[p] = "commit" /\ Leave(p)
        /\ pricing' = [a \in Admins |->
                        IF PricingDoc(a) \in locks[p] THEN NewPricing(p, a) ELSE pricing[a]]
    BY <1>5 DEF Commit
  <2>2. ASSUME NEW a \in Priced(p)
        PROVE  NewPricing(p, a).items \subseteq NewPricing(p, a).limits
    <3>1. a \in Admins /\ pricing[a] \in Pricings /\ pricing[a].items \subseteq pricing[a].limits
      BY <1>0, <2>1, CommitPriced DEF DataOK
    <3>2. op[p] \in Ops \ {"none", "update", "createCustomer"}
      BY <2>1, CommitLocks DEF Priced
    <3> QED
      BY <3>1, <3>2 DEF NewPricing, Pricings, Ops, Entries, PushPriceLimit,
         PushSolutionItemsByType, PushCategoryBasedItems, PullPriceLimit,
         PullSolutionItemsByType, PullCategoryBasedItems, PushSolutionItemsById,
         PullSolutionItemsById
  <2> QED
    BY <1>3, <2>1, <2>2, CommitPriced
<1>6. ASSUME NEW p \in Procs, Abort(p) PROVE PricedInv'
  BY <1>3, <1>6 DEF Abort, dataVars
<1>7. CASE UNCHANGED vars
  BY <1>7 DEF vars, dataVars, procVars
<1> QED
  BY <1>1, <1>2, <1>4, <1>5, <1>6, <1>7 DEF Next, HandlerStep, WriteConflict, Fail

\* Each row has limits and each price respects them, also when an old copy of the whole
\* pricing document is written back over a newer one: a copy was complete in itself.
THEOREM PricedAlways == Spec => []FilesPriced
<1>1. Init => PricedInv
  BY DEF Init, PricedInv, Entries, NoEntries
<1>2. TypeInv /\ PricedInv => FilesPriced
  BY CreditsAlwaysFit DEF FilesPriced, PricedInv, TypeInv, TypeOK
<1> QED
  BY <1>1, <1>2, PricedNext, TypeInvCorrect, PTL DEF Spec

-----------------------------------------------------------------------------
(* The matrix. *)

\* A transaction holds only what nobody else holds and nobody changed since its snapshot.
LEMMA TxNext == TypeInv /\ TxInv /\ [Next]_vars => TxInv'
<1> SUFFICES ASSUME TypeInv, TxInv, [Next]_vars PROVE TxInv'
  OBVIOUS
<1>0. TxTypeOK(Docs)
  BY TypeFacts
<1> USE DEF TxInv, LocksDisjoint
<1>1. ASSUME UNCHANGED txVars PROVE TxInv'
  BY <1>1 DEF txVars
<1>2. ASSUME NEW p \in Procs, Request(p) PROVE TxInv'
  BY <1>1, <1>2 DEF Request, CreateAdmin, UpdatePricing, CreateCustomerType,
     DeleteCustomerType, CreateSolution, RemoveSolution, CreateCustomer, Take
<1>3. ASSUME NEW p \in Procs, Write(p) PROVE TxInv'
  <2>1. /\ \A d \in Written(p) : ~Conflict(p, d)
        /\ locks' = [locks EXCEPT ![p] = @ \cup Written(p)] /\ stale' = stale
    BY <1>3 DEF Write, SessionWrites
  <2>2. \A d \in Written(p) : d \notin stale[p] /\ \A q \in Procs \ {p} : d \notin locks[q]
    BY <2>1 DEF Conflict
  <2> QED
    BY <1>0, <2>1, <2>2 DEF TxTypeOK
<1>4. ASSUME NEW p \in Procs, WriteBack(p) PROVE TxInv'
  BY <1>0, <1>4 DEF WriteBack, PlainWrite, Free, TxTypeOK
<1>5. ASSUME NEW p \in Procs, Commit(p) PROVE TxInv'
  BY <1>0, <1>5 DEF Commit, TxCommit, TxTypeOK
<1>6. ASSUME NEW p \in Procs, Abort(p) PROVE TxInv'
  BY <1>0, <1>6 DEF Abort, TxAbort, TxTypeOK
<1> QED
  BY <1>1, <1>2, <1>3, <1>4, <1>5, <1>6
  DEF Next, HandlerStep, WriteConflict, Fail, vars

\* What the steps other than a commit leave alone.
LEMMA QuietSteps ==
  ASSUME TypeInv, NEW p \in Procs,
         Request(p) \/ Write(p) \/ WriteBack(p) \/ WriteConflict(p) \/ Fail(p)
  PROVE  /\ UNCHANGED <<admins, types, solutions, customers, evcPrices>>
         /\ pricing' = pricing \/ (op[p] = "update" /\ UNCHANGED updates)
         /\ \A q \in Procs \ {p} : /\ op'[q] = op[q] /\ target'[q] = target[q]
                                   /\ locks'[q] = locks[q]
                                   /\ (q \in snap' <=> q \in snap) /\ view'[q] = view[q]
         /\ updates' >= updates
<1>0. HandlersOK /\ BoundsOK /\ TxTypeOK(Docs)
  BY TypeFacts
<1>1. CASE Request(p)
  BY <1>0, <1>1 DEF Request, CreateAdmin, UpdatePricing, CreateCustomerType,
     DeleteCustomerType, CreateSolution, RemoveSolution, CreateCustomer, Take,
     dataVars, txVars, HandlersOK, BoundsOK
<1>2. CASE Write(p)
  BY <1>0, <1>2 DEF Write, SessionWrites, Goto, dataVars, HandlersOK, TxTypeOK, BoundsOK
<1>3. CASE WriteBack(p)
  <2>1. op[p] = "update"
    BY <1>3, Writing DEF WriteBack
  <2> QED
    BY <1>0, <1>3, <2>1 DEF WriteBack, PlainWrite, Leave, HandlersOK, TxTypeOK, BoundsOK
<1>4. CASE WriteConflict(p) \/ Fail(p)
  BY <1>0, <1>4
  DEF WriteConflict, Fail, Abort, TxAbort, Leave, dataVars, HandlersOK, TxTypeOK, BoundsOK
<1> QED
  BY <1>1, <1>2, <1>3, <1>4

\* A handler that creates a portal is the only one that works on it.
LEMMA EvcQuiet ==
  ASSUME TypeInv, EvcInv, NEW p \in Procs,
         Request(p) \/ Write(p) \/ WriteBack(p) \/ WriteConflict(p) \/ Fail(p)
  PROVE  EvcInv'
<1> USE DEF EvcInv
<1>0. HandlersOK
  BY TypeFacts
<1>1. /\ UNCHANGED <<admins, types, evcPrices>>
      /\ \A q \in Procs \ {p} : op'[q] = op[q] /\ target'[q] = target[q]
  BY QuietSteps
<1>2. /\ \A t \in types' : AdminOf[t] \in admins'
      /\ \A a \in admins' : evcPrices'[a] = TypesOf(a, types')
  BY <1>1
<1>3. CASE \E a \in Admins : CreateAdmin(p, a)
  BY <1>0, <1>1, <1>2, <1>3 DEF CreateAdmin, Take, New, HandlersOK
<1>4. CASE \E a \in Admins : UpdatePricing(p, a)
  BY <1>0, <1>1, <1>2, <1>4 DEF UpdatePricing, HandlersOK
<1>5. CASE \E t \in Types : CreateCustomerType(p, t) \/ DeleteCustomerType(p, t)
  <2>1. PICK t \in Types : CreateCustomerType(p, t) \/ DeleteCustomerType(p, t)
    BY <1>5
  <2>2. /\ op'[p] \in {"createType", "deleteType"} /\ target'[p] = t
        /\ op'[p] = "createType" => AdminOf[t] \in admins
    BY <1>0, <2>1 DEF CreateCustomerType, DeleteCustomerType, Take, HandlersOK
  <2>3. \A q \in Procs \ {p} : op[q] = "createAdmin" => target[q] # t
    BY TypeFacts, DocKinds DEF Route, KindOf
  <2> QED
    BY <1>1, <1>2, <2>2, <2>3
<1>6. CASE \E s \in Solutions : CreateSolution(p, s) \/ RemoveSolution(p, s)
  <2>1. PICK s \in Solutions : CreateSolution(p, s) \/ RemoveSolution(p, s)
    BY <1>6
  <2>2. /\ op'[p] \in {"createSolution", "removeSolution"} /\ target'[p] = s
    BY <1>0, <2>1 DEF CreateSolution, RemoveSolution, Take, HandlersOK
  <2>3. \A q \in Procs \ {p} : op[q] = "createAdmin" => target[q] # s
    BY TypeFacts, DocKinds DEF Route, KindOf
  <2> QED
    BY <1>1, <1>2, <2>2, <2>3
<1>7. CASE \E c \in Customers, t \in Types : CreateCustomer(p, c, t)
  <2>1. PICK c \in Customers : \E t \in Types : CreateCustomer(p, c, t)
    BY <1>7
  <2>2. op'[p] = "createCustomer" /\ target'[p] = c
    BY <1>0, <2>1 DEF CreateCustomer, HandlersOK
  <2>3. \A q \in Procs \ {p} : op[q] = "createAdmin" => target[q] # c
    BY TypeFacts, DocKinds DEF Route, KindOf
  <2> QED
    BY <1>1, <1>2, <2>2, <2>3
<1>8. CASE Write(p)
  BY <1>0, <1>1, <1>2, <1>8 DEF Write, Goto
<1>9. CASE WriteBack(p) \/ WriteConflict(p) \/ Fail(p)
  <2>1. Leave(p)
    BY <1>9 DEF WriteBack, WriteConflict, Fail, Abort
  <2>2. \A q \in Procs \ {p} : op[q] = "createAdmin" => target[q] # NoDoc
    BY TypeFacts, PricingAssumption DEF Route, KindOf, Docs
  <2> QED
    BY <1>0, <1>1, <1>2, <2>1, <2>2, LeaveMoves
<1> QED
  BY <1>3, <1>4, <1>5, <1>6, <1>7, <1>8, <1>9 DEF Request

\* The data as a commit leaves them: the types and the documents of one portal for the
\* operations on portals and types, all portals the handler saw for those on solutions.
LEMMA CommitData ==
  ASSUME TypeInv, NEW p \in Procs, Commit(p)
  PROVE  /\ pc[p] = "commit" /\ Leave(p) /\ UNCHANGED updates
         /\ admins' = IF op[p] = "createAdmin" THEN admins \cup {target[p]} ELSE admins
         /\ types' = IF op[p] = "deleteType" THEN types \ {target[p]}
                     ELSE IF op[p] = "createAdmin" THEN types \cup {DefaultOf[target[p]]}
                     ELSE IF op[p] = "createType" THEN types \cup {target[p]} ELSE types
         /\ solutions' = IF op[p] = "removeSolution" THEN solutions \ {target[p]}
                         ELSE IF op[p] = "createSolution" THEN solutions \cup {target[p]}
                         ELSE solutions
         /\ \A a \in Admins : pricing'[a] = IF a \in Priced(p) THEN NewPricing(p, a)
                                            ELSE pricing[a]
         /\ \A a \in Admins : evcPrices'[a] =
               IF a \in Priced(p) /\ op[p] \in {"createAdmin", "createType", "deleteType"}
               THEN NewEvcPrices(p, a) ELSE evcPrices[a]
         /\ \A q \in Procs \ {p} : /\ op'[q] = op[q] /\ target'[q] = target[q]
                                   /\ locks'[q] = locks[q]
                                   /\ (q \in snap' <=> q \in snap) /\ view'[q] = view[q]
                                   /\ stale'[q] = IF q \in snap THEN stale[q] \cup locks[p]
                                                  ELSE stale[q]
         /\ op'[p] = "none" /\ target'[p] = NoDoc /\ p \notin snap'
<1>0. HandlersOK /\ DataOK /\ TxTypeOK(Docs)
  BY TypeFacts
<1>1. pc[p] = "commit" /\ Leave(p) /\ UNCHANGED updates /\ TxCommit(p)
  BY DEF Commit
<1>2. /\ admins' = IF op[p] = "createAdmin" THEN admins \cup {target[p]} ELSE admins
      /\ types' = IF op[p] = "deleteType" THEN types \ {target[p]}
                  ELSE IF op[p] = "createAdmin" THEN types \cup {DefaultOf[target[p]]}
                  ELSE IF op[p] = "createType" THEN types \cup {target[p]} ELSE types
      /\ solutions' = IF op[p] = "removeSolution" THEN solutions \ {target[p]}
                      ELSE IF op[p] = "createSolution" THEN solutions \cup {target[p]}
                      ELSE solutions
  BY <1>1, CommitPriced DEF Commit
<1>3. /\ \A a \in Admins : pricing'[a] = IF a \in Priced(p) THEN NewPricing(p, a)
                                         ELSE pricing[a]
      /\ \A a \in Admins : evcPrices'[a] =
            IF a \in Priced(p) /\ op[p] \in {"createAdmin", "createType", "deleteType"}
            THEN NewEvcPrices(p, a) ELSE evcPrices[a]
  BY <1>1, CommitPriced DEF Commit
<1>4. /\ \A q \in Procs \ {p} : /\ op'[q] = op[q] /\ target'[q] = target[q]
                                /\ locks'[q] = locks[q]
                                /\ (q \in snap' <=> q \in snap) /\ view'[q] = view[q]
                                /\ stale'[q] = IF q \in snap THEN stale[q] \cup locks[p]
                                               ELSE stale[q]
      /\ op'[p] = "none" /\ target'[p] = NoDoc /\ p \notin snap'
  BY <1>0, <1>1 DEF TxCommit, Leave, HandlersOK, TxTypeOK
<1> QED
  BY <1>1, <1>2, <1>3, <1>4

LEMMA EvcCommit == ASSUME TypeInv, EvcInv, NEW p \in Procs, Commit(p) PROVE EvcInv'
<1> DEFINE d == target[p]
<1>1. pc[p] = "commit" /\ DataOK
  BY CommitData, TypeFacts
<1>2. op[p] = "createAdmin" => d \in Admins /\ d \notin admins /\ DefaultOf[d] \in Types
                               /\ AdminOf[DefaultOf[d]] = d
  BY <1>1, CommitLocks, PricingAssumption DEF EvcInv
<1>3. op[p] \in {"createType", "deleteType"} => d \in Types
  BY <1>1, CommitLocks
<1>4. \A t \in types' : AdminOf[t] \in admins'
  BY <1>2, <1>3, CommitData DEF EvcInv
<1>5. ASSUME NEW a \in admins' PROVE evcPrices'[a] = TypesOf(a, types')
  <2>1. a \in Admins /\ (a \notin admins => op[p] = "createAdmin" /\ a = d)
    BY <1>1, <1>2, CommitData DEF DataOK
  <2>2. a \in admins => evcPrices[a] = TypesOf(a, types)
    BY DEF EvcInv
  <2>3. CASE op[p] = "createAdmin"
    <3>1. CASE a = d
      <4>1. evcPrices'[a] = {DefaultOf[d]}
        BY <2>1, <2>3, <3>1, CommitData DEF Priced, NewEvcPrices
      <4>2. TypesOf(d, types) = {}
        BY <1>2, <2>3 DEF TypesOf, EvcInv
      <4>3. TypesOf(d, types \cup {DefaultOf[d]}) = {DefaultOf[d]}
        BY <1>2, <2>3, <4>2 DEF TypesOf
      <4> QED
        BY <2>3, <3>1, <4>1, <4>3, CommitData
    <3>2. CASE a # d
      <4>1. evcPrices'[a] = evcPrices[a]
        BY <2>1, <2>3, <3>2, CommitData DEF Priced
      <4>2. TypesOf(a, types \cup {DefaultOf[d]}) = TypesOf(a, types)
        BY <1>2, <2>3, <3>2 DEF TypesOf
      <4> QED
        BY <2>1, <2>2, <2>3, <3>2, <4>1, <4>2, CommitData
    <3> QED
      BY <3>1, <3>2
  <2>4. CASE op[p] = "createType"
    <3>1. evcPrices'[a] = IF a = AdminOf[d] THEN evcPrices[a] \cup {d} ELSE evcPrices[a]
      BY <2>1, <2>4, CommitData DEF Priced, NewEvcPrices, PushEvcPriceItems
    <3>2. TypesOf(a, types \cup {d}) = IF a = AdminOf[d] THEN TypesOf(a, types) \cup {d}
                                       ELSE TypesOf(a, types)
      BY DEF TypesOf
    <3> QED
      BY <2>1, <2>2, <2>4, <3>1, <3>2, CommitData
  <2>5. CASE op[p] = "deleteType"
    <3>1. evcPrices'[a] = IF a = AdminOf[d] THEN evcPrices[a] \ {d} ELSE evcPrices[a]
      BY <2>1, <2>5, CommitData DEF Priced, NewEvcPrices, PullEvcPricingItem
    <3>2. TypesOf(a, types \ {d}) = IF a = AdminOf[d] THEN TypesOf(a, types) \ {d}
                                    ELSE TypesOf(a, types)
      BY DEF TypesOf
    <3> QED
      BY <2>1, <2>2, <2>5, <3>1, <3>2, CommitData
  <2>6. CASE op[p] \notin {"createAdmin", "createType", "deleteType"}
    BY <2>1, <2>2, <2>6, CommitData
  <2> QED
    BY <2>3, <2>4, <2>5, <2>6
<1>6. ASSUME NEW q \in Procs, op'[q] = "createAdmin"
      PROVE  target'[q] \notin admins' /\ \A r \in Procs \ {q} : target'[r] # target'[q]
  <2>1. q # p /\ op[q] = "createAdmin" /\ target'[q] = target[q]
    BY <1>6, CommitData
  <2>2. target[q] \notin admins /\ \A r \in Procs \ {q} : target[r] # target[q]
    BY <2>1 DEF EvcInv
  <2>3. target[q] # NoDoc
    BY <2>1, TypeFacts, PricingAssumption DEF Route, KindOf, Docs
  <2>4. target'[q] \notin admins'
    <3>1. op[p] = "createAdmin" => target[q] # d
      BY <2>1, <2>2
    <3> QED
      BY <2>1, <2>2, <3>1, CommitData
  <2>5. ASSUME NEW r \in Procs \ {q} PROVE target'[r] # target'[q]
    <3>1. target'[r] = IF r = p THEN NoDoc ELSE target[r]
      BY CommitData
    <3> QED
      BY <2>1, <2>2, <2>3, <3>1
  <2> QED
    BY <2>4, <2>5
<1>7. ASSUME NEW q \in Procs, op'[q] = "createType" PROVE AdminOf[target'[q]] \in admins'
  <2>1. q # p /\ op[q] = "createType" /\ target'[q] = target[q]
    BY <1>7, CommitData
  <2>2. admins \subseteq admins'
    BY CommitData
  <2> QED
    BY <2>1, <2>2 DEF EvcInv
<1> QED
  BY <1>4, <1>5, <1>6, <1>7 DEF EvcInv

\* What changes the types or solutions of a portal commits its pricing document with them.
LEMMA SeenCommit ==
  ASSUME TypeInv, EvcInv, SeenInv, NEW p \in Procs, Commit(p) PROVE SeenInv'
<1> DEFINE d == target[p]
<1>1. pc[p] = "commit" /\ DataOK /\ FirstAdmins \subseteq admins /\ admins \subseteq admins'
  BY CommitData, TypeFacts DEF SeenInv
<1>2. ASSUME NEW a \in FirstAdmins, a \notin Priced(p)
      PROVE  TypesOf(a, types') = TypesOf(a, types) /\ solutions' = solutions
  <2>1. CASE op[p] = "createAdmin"
    <3>1. d \in Admins /\ d # a /\ DefaultOf[d] \in Types /\ AdminOf[DefaultOf[d]] = d
      BY <1>1, <2>1, CommitLocks, PricingAssumption DEF EvcInv
    <3> QED
      BY <2>1, <3>1, CommitData DEF TypesOf
  <2>2. CASE op[p] \in {"createType", "deleteType"}
    BY <1>2, <2>2, CommitData DEF TypesOf, Priced
  <2>3. CASE op[p] \in {"createSolution", "removeSolution"}
    <3>1. FirstAdmins \subseteq view[p].admins
      BY <1>1, <2>3, CommitLocks DEF SeenInv
    <3> QED
      BY <1>2, <2>3, <3>1 DEF Priced
  <2>4. CASE op[p] = "createCustomer"
    BY <2>4, CommitData
  <2> QED
    BY <1>1, <2>1, <2>2, <2>3, <2>4, CommitLocks DEF Ops
<1>3. ASSUME NEW q \in snap', op'[q] # "createCustomer"
      PROVE  /\ FirstAdmins \subseteq view'[q].admins
             /\ \A a \in FirstAdmins :
                   \/ PricingDoc(a) \in stale'[q]
                   \/ /\ TypesOf(a, view'[q].types) = TypesOf(a, types')
                      /\ view'[q].solutions = solutions'
  <2>1. q \in Procs \ {p}
    BY <1>3, CommitData, CommitTypes, TypeFacts DEF Commit, TxCommit, TxTypeOK
  <2>2. q \in snap /\ op[q] # "createCustomer" /\ view'[q] = view[q]
        /\ stale'[q] = stale[q] \cup locks[p]
    BY <1>3, <2>1, CommitData
  <2>3. /\ FirstAdmins \subseteq view[q].admins
        /\ \A a \in FirstAdmins : \/ PricingDoc(a) \in stale[q]
                                  \/ /\ TypesOf(a, view[q].types) = TypesOf(a, types)
                                     /\ view[q].solutions = solutions
    BY <2>2 DEF SeenInv
  <2>4. \A a \in Priced(p) : PricingDoc(a) \in locks[p]
    BY <1>1, CommitPriced
  <2> QED
    BY <1>2, <2>2, <2>3, <2>4
<1> QED
  BY <1>1, <1>3 DEF SeenInv

LEMMA SeenQuiet ==
  ASSUME TypeInv, SeenInv, NEW p \in Procs,
         Request(p) \/ Write(p) \/ WriteBack(p) \/ WriteConflict(p) \/ Fail(p)
  PROVE  SeenInv'
<1>0. HandlersOK /\ DataOK /\ TxTypeOK(Docs) /\ Route(p)
  BY TypeFacts
<1>1. /\ UNCHANGED <<admins, types, solutions>>
      /\ \A q \in Procs \ {p} : op'[q] = op[q] /\ (q \in snap' <=> q \in snap)
                                /\ view'[q] = view[q]
  BY QuietSteps
<1>2. \A q \in Procs \ {p} : stale[q] \subseteq stale'[q]
  BY <1>0 DEF Request, CreateAdmin, UpdatePricing, CreateCustomerType, DeleteCustomerType,
     CreateSolution, RemoveSolution, CreateCustomer, Take, txVars, Write, SessionWrites,
     WriteBack, PlainWrite, WriteConflict, Fail, Abort, TxAbort, TxTypeOK
<1>3. snap' \subseteq Procs
  BY <1>0 DEF Request, CreateAdmin, UpdatePricing, CreateCustomerType, DeleteCustomerType,
     CreateSolution, RemoveSolution, CreateCustomer, Take, txVars, Write, SessionWrites,
     WriteBack, PlainWrite, WriteConflict, Fail, Abort, TxAbort, TxTypeOK
<1>4. ASSUME p \in snap', op'[p] # "createCustomer"
      PROVE  /\ FirstAdmins \subseteq view'[p].admins
             /\ \A a \in FirstAdmins :
                   \/ PricingDoc(a) \in stale'[p]
                   \/ /\ TypesOf(a, view'[p].types) = TypesOf(a, types')
                      /\ view'[p].solutions = solutions'
  <2>1. CASE Request(p)
    <3>1. pc[p] = "idle" /\ snap' = snap
      BY <2>1 DEF Request, CreateAdmin, UpdatePricing, CreateCustomerType,
         DeleteCustomerType, CreateSolution, RemoveSolution, CreateCustomer, Take, txVars
    <3>2. op[p] = "none"
      BY <1>0, <3>1 DEF HandlersOK, Ops, Route, StepsOf
    <3> QED
      BY <1>0, <1>4, <3>1, <3>2 DEF Route, Held
  <2>2. CASE Write(p)
    <3>1. /\ stale' = stale /\ op' = op
          /\ view' = IF p \in snap \/ op[p] = "createCustomer" THEN view
                     ELSE [view EXCEPT ![p] =
                        [admins |-> admins, types |-> types, solutions |-> solutions]]
      BY <2>2 DEF Write, SessionWrites, Goto
    <3>2. CASE p \in snap
      BY <1>1, <1>4, <3>1, <3>2 DEF SeenInv
    <3>3. CASE p \notin snap
      <4>1. view'[p] = [admins |-> admins, types |-> types, solutions |-> solutions]
        BY <1>0, <1>4, <3>1, <3>3 DEF HandlersOK
      <4> QED
        BY <1>1, <4>1 DEF SeenInv
    <3> QED
      BY <3>2, <3>3
  <2>3. CASE WriteBack(p)
    <3>1. p \notin snap /\ snap' = snap
      BY <2>3, Writing DEF WriteBack, PlainWrite
    <3> QED
      BY <1>4, <3>1
  <2>4. CASE WriteConflict(p) \/ Fail(p)
    BY <1>4, <2>4 DEF WriteConflict, Fail, Abort, TxAbort
  <2> QED
    BY <2>1, <2>2, <2>3, <2>4
<1>5. ASSUME NEW q \in snap', op'[q] # "createCustomer", q # p
      PROVE  /\ FirstAdmins \subseteq view'[q].admins
             /\ \A a \in FirstAdmins :
                   \/ PricingDoc(a) \in stale'[q]
                   \/ /\ TypesOf(a, view'[q].types) = TypesOf(a, types')
                      /\ view'[q].solutions = solutions'
  BY <1>1, <1>2, <1>3, <1>5 DEF SeenInv
<1> QED
  BY <1>1, <1>4, <1>5 DEF SeenInv

\* What the pricing service pushes and pulls keeps a complete document complete.
LEMMA PushType ==
  ASSUME NEW ts, NEW ss, NEW t
  PROVE  PushPriceLimit(PushSolutionItemsByType(
             PushCategoryBasedItems(Entries(ts, ss), t), t, ss), t) = Entries(ts \cup {t}, ss)
<1>1. (ts \X ss) \cup ({t} \X ss) = (ts \cup {t}) \X ss
  OBVIOUS
<1>2. PushCategoryBasedItems(Entries(ts, ss), t) =
          [items |-> ts \cup {t}, limits |-> ts, cells |-> ts \X ss]
  BY DEF PushCategoryBasedItems, Entries
<1>3. PushSolutionItemsByType([items |-> ts \cup {t}, limits |-> ts, cells |-> ts \X ss], t, ss)
          = [items |-> ts \cup {t}, limits |-> ts, cells |-> (ts \X ss) \cup ({t} \X ss)]
  BY DEF PushSolutionItemsByType
<1>4. PushPriceLimit([items |-> ts \cup {t}, limits |-> ts, cells |-> (ts \cup {t}) \X ss], t)
          = Entries(ts \cup {t}, ss)
  BY DEF PushPriceLimit, Entries
<1> QED
  BY <1>1, <1>2, <1>3, <1>4, Zenon

LEMMA PullType ==
  ASSUME NEW ts, NEW ss, NEW t
  PROVE  PullPriceLimit(PullSolutionItemsByType(
             PullCategoryBasedItems(Entries(ts, ss), t), t), t) = Entries(ts \ {t}, ss)
<1>1. {c \in ts \X ss : c[1] # t} = (ts \ {t}) \X ss
  OBVIOUS
<1>2. PullCategoryBasedItems(Entries(ts, ss), t) =
          [items |-> ts \ {t}, limits |-> ts, cells |-> ts \X ss]
  BY DEF PullCategoryBasedItems, Entries
<1>3. PullSolutionItemsByType([items |-> ts \ {t}, limits |-> ts, cells |-> ts \X ss], t)
          = [items |-> ts \ {t}, limits |-> ts, cells |-> {c \in ts \X ss : c[1] # t}]
  BY DEF PullSolutionItemsByType
<1>4. PullPriceLimit([items |-> ts \ {t}, limits |-> ts, cells |-> (ts \ {t}) \X ss], t)
          = Entries(ts \ {t}, ss)
  BY DEF PullPriceLimit, Entries
<1> QED
  BY <1>1, <1>2, <1>3, <1>4, Zenon

LEMMA PushSolution ==
  ASSUME NEW ts, NEW ss, NEW s
  PROVE  PushSolutionItemsById(Entries(ts, ss), s, ts) = Entries(ts, ss \cup {s})
<1>1. (ts \X ss) \cup (ts \X {s}) = ts \X (ss \cup {s})
  OBVIOUS
<1>2. PushSolutionItemsById(Entries(ts, ss), s, ts) =
          [items |-> ts, limits |-> ts, cells |-> (ts \X ss) \cup (ts \X {s})]
  BY DEF PushSolutionItemsById, Entries
<1> QED
  BY <1>1, <1>2 DEF Entries

LEMMA PullSolution ==
  ASSUME NEW ts, NEW ss, NEW s
  PROVE  PullSolutionItemsById(Entries(ts, ss), s) = Entries(ts, ss \ {s})
<1>1. {c \in ts \X ss : c[2] # s} = ts \X (ss \ {s})
  OBVIOUS
<1>2. PullSolutionItemsById(Entries(ts, ss), s) =
          [items |-> ts, limits |-> ts, cells |-> {c \in ts \X ss : c[2] # s}]
  BY DEF PullSolutionItemsById, Entries
<1> QED
  BY <1>1, <1>2 DEF Entries

\* The commit of a handler finds the types and solutions it has seen.
LEMMA CompleteCommit ==
  ASSUME TypeInv, TxInv, EvcInv, SeenInv, CompleteInv, NEW p \in Procs, Commit(p),
         updates = 0, NEW a \in FirstAdmins
  PROVE  pricing'[a] = Entries(TypesOf(a, types'), solutions')
<1> DEFINE d == target[p]
           ts == TypesOf(a, types)
<1>1. /\ pc[p] = "commit" /\ a \in Admins /\ a \in admins
      /\ pricing[a] = Entries(ts, solutions)
  BY CommitData, PricingAssumption DEF SeenInv, CompleteInv, CompleteIn
<1>2. /\ p \in snap
      /\ op[p] # "createCustomer" => view[p] \in Snapshot /\ FirstAdmins \subseteq view[p].admins
  BY <1>1, CommitLocks DEF SeenInv
<1>3. a \in Priced(p) /\ op[p] # "createCustomer" =>
          TypesOf(a, view[p].types) = ts /\ view[p].solutions = solutions
  <2> SUFFICES ASSUME a \in Priced(p), op[p] # "createCustomer"
               PROVE  TypesOf(a, view[p].types) = ts /\ view[p].solutions = solutions
    OBVIOUS
  <2>1. PricingDoc(a) \in locks[p]
    BY <1>1, CommitPriced
  <2>2. PricingDoc(a) \notin stale[p]
    BY <2>1 DEF TxInv
  <2> QED
    BY <1>2, <2>2 DEF SeenInv
<1>4. CASE op[p] = "createAdmin"
  <2>1. d \in Admins /\ d # a /\ DefaultOf[d] \in Types /\ AdminOf[DefaultOf[d]] = d
    BY <1>1, <1>4, CommitLocks, PricingAssumption DEF EvcInv
  <2>2. TypesOf(a, types \cup {DefaultOf[d]}) = ts
    BY <2>1 DEF TypesOf
  <2> QED
    BY <1>1, <1>4, <2>1, <2>2, CommitData DEF Priced
<1>5. CASE op[p] = "createType"
  <2>1. CASE a = AdminOf[d]
    <3>1. TypesOf(a, types \cup {d}) = ts \cup {d}
      BY <2>1 DEF TypesOf
    <3>2. a \in Priced(p) /\ view[p].solutions = solutions
      BY <1>3, <1>5, <2>1 DEF Priced
    <3>3. pricing'[a] = Entries(ts \cup {d}, solutions)
      <4>1. pricing'[a] = PushPriceLimit(PushSolutionItemsByType(
                             PushCategoryBasedItems(pricing[a], d), d, solutions), d)
        BY <1>1, <1>5, <3>2, CommitData DEF NewPricing
      <4> QED
        BY <1>1, <4>1, PushType
    <3> QED
      BY <1>5, <3>1, <3>3, CommitData
  <2>2. CASE a # AdminOf[d]
    <3>1. TypesOf(a, types \cup {d}) = ts
      BY <2>2 DEF TypesOf
    <3> QED
      BY <1>1, <1>5, <2>2, <3>1, CommitData DEF Priced
  <2> QED
    BY <2>1, <2>2
<1>6. CASE op[p] = "deleteType"
  <2>1. CASE a = AdminOf[d]
    <3>1. TypesOf(a, types \ {d}) = ts \ {d}
      BY <2>1 DEF TypesOf
    <3>2. a \in Priced(p)
      BY <1>6, <2>1 DEF Priced
    <3>3. pricing'[a] = Entries(ts \ {d}, solutions)
      <4>1. pricing'[a] = PullPriceLimit(PullSolutionItemsByType(
                             PullCategoryBasedItems(pricing[a], d), d), d)
        BY <1>1, <1>6, <3>2, CommitData DEF NewPricing
      <4> QED
        BY <1>1, <4>1, PullType
    <3> QED
      BY <1>6, <3>1, <3>3, CommitData
  <2>2. CASE a # AdminOf[d]
    <3>1. TypesOf(a, types \ {d}) = ts
      BY <2>2 DEF TypesOf
    <3> QED
      BY <1>1, <1>6, <2>2, <3>1, CommitData DEF Priced
  <2> QED
    BY <2>1, <2>2
<1>7. CASE op[p] = "createSolution"
  <2>1. a \in Priced(p)
    BY <1>2, <1>7 DEF Priced
  <2>2. pricing'[a] = PushSolutionItemsById(pricing[a], d, ts)
    BY <1>1, <1>3, <1>7, <2>1, CommitData DEF NewPricing
  <2>3. types' = types /\ solutions' = solutions \cup {d}
    BY <1>7, CommitData
  <2>4. TypesOf(a, types') = ts
    BY <2>3
  <2>5. pricing'[a] = PushSolutionItemsById(Entries(ts, solutions), d, ts)
    BY <1>1, <2>2
  <2>6. PushSolutionItemsById(Entries(ts, solutions), d, ts) = Entries(ts, solutions \cup {d})
    BY PushSolution
  <2> QED
    BY <2>3, <2>4, <2>5, <2>6
<1>8. CASE op[p] = "removeSolution"
  <2>1. a \in Priced(p)
    BY <1>2, <1>8 DEF Priced
  <2>2. pricing'[a] = PullSolutionItemsById(pricing[a], d)
    BY <1>1, <1>8, <2>1, CommitData DEF NewPricing
  <2>3. types' = types /\ solutions' = solutions \ {d}
    BY <1>8, CommitData
  <2>4. TypesOf(a, types') = ts
    BY <2>3
  <2>5. pricing'[a] = PullSolutionItemsById(Entries(ts, solutions), d)
    BY <1>1, <2>2
  <2>6. PullSolutionItemsById(Entries(ts, solutions), d) = Entries(ts, solutions \ {d})
    BY PullSolution
  <2> QED
    BY <2>3, <2>4, <2>5, <2>6
<1>9. CASE op[p] = "createCustomer"
  BY <1>1, <1>9, CommitData DEF Priced
<1> QED
  BY <1>1, <1>4, <1>5, <1>6, <1>7, <1>8, <1>9, CommitLocks DEF Ops

MatrixInv == TxInv /\ EvcInv /\ SeenInv /\ CompleteInv

LEMMA MatrixNext == TypeInv /\ MatrixInv /\ [Next]_vars => MatrixInv'
<1> SUFFICES ASSUME TypeInv, MatrixInv, [Next]_vars PROVE MatrixInv'
  OBVIOUS
<1>0. TxInv /\ EvcInv /\ SeenInv /\ CompleteInv /\ HandlersOK /\ BoundsOK /\ updates \in Nat
  BY TypeFacts DEF MatrixInv, BoundsOK
<1>1. TxInv'
  BY <1>0, TxNext
<1>2. ASSUME NEW p \in Procs,
             Request(p) \/ Write(p) \/ WriteBack(p) \/ WriteConflict(p) \/ Fail(p)
      PROVE  EvcInv' /\ SeenInv' /\ CompleteInv'
  <2>1. op'[p] = "update" => updates' > 0
    <3>1. CASE \E a \in Admins : UpdatePricing(p, a)
      BY <1>0, <3>1 DEF UpdatePricing
    <3>2. CASE \E c \in Customers, t \in Types : CreateCustomer(p, c, t)
      BY <1>0, <3>2 DEF CreateCustomer, HandlersOK
    <3>3. ASSUME NEW o \in Ops \ {"update"}, NEW e, NEW s, Take(p, o, e, s)
          PROVE  op'[p] # "update"
      BY <1>0, <3>3 DEF Take, HandlersOK
    <3>4. CASE Write(p)
      BY <1>0, <3>4 DEF Write, Goto, CompleteInv
    <3>5. CASE WriteBack(p) \/ WriteConflict(p) \/ Fail(p)
      BY <1>0, <3>5 DEF WriteBack, WriteConflict, Fail, Abort, Leave, HandlersOK
    <3> QED
      BY <1>2, <3>1, <3>2, <3>3, <3>4, <3>5
      DEF Request, CreateAdmin, CreateCustomerType, DeleteCustomerType, CreateSolution,
          RemoveSolution, Ops
  <2>2. updates' \in Nat
    BY <1>2, TypeNext, TypeFacts DEF Next, HandlerStep, TypeInv, TypeOK
  <2>3. \A q \in Procs : op'[q] = "update" => updates' > 0
    BY <1>0, <1>2, <2>1, <2>2, QuietSteps DEF CompleteInv
  <2>4. ASSUME updates' = 0, NEW a \in FirstAdmins PROVE CompleteIn(a)'
    <3>1. updates = 0
      BY <1>0, <1>2, <2>2, <2>4, QuietSteps
    <3>2. op[p] # "update"
      BY <1>0, <3>1 DEF CompleteInv
    <3> QED
      BY <1>0, <1>2, <3>1, <3>2, QuietSteps DEF CompleteInv, CompleteIn
  <2> QED
    BY <1>0, <1>2, <2>3, <2>4, EvcQuiet, SeenQuiet DEF CompleteInv
<1>3. ASSUME NEW p \in Procs, Commit(p) PROVE EvcInv' /\ SeenInv' /\ CompleteInv'
  <2>1. \A q \in Procs : op'[q] = "update" => updates' > 0
    BY <1>0, <1>3, CommitData DEF CompleteInv
  <2>2. updates' = 0 => \A a \in FirstAdmins : CompleteIn(a)'
    BY <1>0, <1>3, CommitData, CompleteCommit DEF CompleteIn
  <2> QED
    BY <1>0, <1>3, <2>1, <2>2, EvcCommit, SeenCommit DEF CompleteInv
<1>4. CASE UNCHANGED vars
  <2>1. EvcInv'
    BY <1>0, <1>4 DEF vars, dataVars, procVars, EvcInv
  <2>2. SeenInv'
    BY <1>0, <1>4 DEF vars, dataVars, txVars, procVars, SeenInv
  <2>3. CompleteInv'
    BY <1>0, <1>4 DEF vars, dataVars, procVars, CompleteInv, CompleteIn
  <2> QED
    BY <1>1, <2>1, <2>2, <2>3 DEF MatrixInv
<1> QED
  BY <1>1, <1>2, <1>3, <1>4 DEF MatrixInv, Next, HandlerStep

\* The matrix of a portal is complete and has nothing that is not of a type or solution,
\* and each type has its EVC price, for any number of handlers that add and remove types
\* and solutions at once: a transaction that would use a row or column it has not seen
\* writes a document that changed since, and conflicts.
THEOREM MatrixAlways == Spec => []MatrixComplete
<1>1. Init => MatrixInv
  <2> SUFFICES ASSUME Init PROVE MatrixInv
    OBVIOUS
  <2>1. TxInv
    BY DEF Init, TxInit, TxInv, LocksDisjoint
  <2>2. \A a \in FirstAdmins : TypesOf(a, types) = {DefaultOf[a]}
    BY PricingAssumption DEF Init, TypesOf
  <2>3. EvcInv
    <3>1. \A t \in types : AdminOf[t] \in admins
      BY PricingAssumption DEF Init
    <3>2. \A a \in admins : evcPrices[a] = TypesOf(a, types)
      BY <2>2, PricingAssumption DEF Init
    <3>3. \A p \in Procs : op[p] = "none"
      BY DEF Init
    <3> QED
      BY <3>1, <3>2, <3>3 DEF EvcInv
  <2>4. SeenInv /\ CompleteInv
    BY <2>2, PricingAssumption DEF Init, TxInit, SeenInv, CompleteInv, CompleteIn
  <2> QED
    BY <2>1, <2>3, <2>4 DEF MatrixInv
<1>2. MatrixInv => MatrixComplete
  BY DEF MatrixInv, EvcInv, CompleteInv, MatrixComplete
<1> QED
  BY <1>1, <1>2, MatrixNext, TypeInvCorrect, PTL DEF Spec
=============================================================================
