--------------------------- MODULE PricingMatrix ---------------------------
(***************************************************************************)
(* The price matrix (src/src/features/pricing, with the handlers of        *)
(* solution, customer and admin that change it).  A portal has a pricing   *)
(* document with a row of category prices and of price limits for each of  *)
(* its customer types and a cell for each type and solution, and a credit  *)
(* pricing document with an EVC price for each type.  Each entry stands    *)
(* for those of the three make types, which are added together.  Handlers  *)
(* write in transactions, except those that update prices.                 *)
(***************************************************************************)
EXTENDS Naturals, FiniteSets, MongoTx

CONSTANTS
    Admins, Types, Solutions, Customers,
    AdminOf,        \* the portal of a customer type
    DefaultOf,      \* the type a portal is created with
    FirstAdmins,    \* portals that exist from the start, with their types
    NoDoc,          \* no target, no customer type
    MaxUpdates,     \* bound: updates of prices and limits
    MaxFaults       \* bound: failed calls

PricingDoc(a) == <<"pricing", a>>
CreditDoc(a) == <<"credit", a>>
Docs == Admins \cup Types \cup Solutions \cup Customers
            \cup {PricingDoc(a) : a \in Admins} \cup {CreditDoc(a) : a \in Admins}

\* Documents of different collections are different.
ASSUME PricingAssumption ==
    /\ AdminOf \in [Types -> Admins]
    /\ DefaultOf \in [Admins -> Types]
    /\ \A a \in Admins : AdminOf[DefaultOf[a]] = a
    /\ FirstAdmins \subseteq Admins
    /\ Admins \cap Types = {}
    /\ (Admins \cup Types) \cap Solutions = {}
    /\ (Admins \cup Types \cup Solutions) \cap Customers = {}
    /\ \A a \in Admins : {PricingDoc(a), CreditDoc(a)} \cap
           (Admins \cup Types \cup Solutions \cup Customers) = {}
    /\ NoDoc \notin Docs
    /\ MaxUpdates \in Nat /\ MaxFaults \in Nat

VARIABLES
    admins, types, solutions,   \* committed documents
    customers,      \* the customer type of each customer, NoDoc before it is created
    pricing,        \* pricing documents
    evcPrices,      \* credit pricing documents: the types they have a price for
    pc, op, target, \* handlers
    view,           \* what a handler has read: the snapshot, a copy, or a type
    updates, faults

procVars == <<pc, op, target, view>>
dataVars == <<admins, types, solutions, customers, pricing, evcPrices>>
vars == <<dataVars, txVars, procVars, updates, faults>>

TypesOf(a, ts) == {t \in ts : AdminOf[t] = a}

\* Entries for types ts and solutions ss.
Entries(ts, ss) == [items |-> ts, limits |-> ts, cells |-> ts \X ss]
NoEntries == Entries({}, {})

Pricings == [items : SUBSET Types, limits : SUBSET Types, cells : SUBSET (Types \X Solutions)]
Snapshot == [admins : SUBSET Admins, types : SUBSET Types, solutions : SUBSET Solutions]

TypeOK ==
    /\ admins \subseteq Admins /\ types \subseteq Types /\ solutions \subseteq Solutions
    /\ customers \in [Customers -> Types \cup {NoDoc}]
    /\ pricing \in [Admins -> Pricings]
    /\ evcPrices \in [Admins -> SUBSET Types]
    /\ TxTypeOK(Docs)
    /\ pc \in [Procs -> {"idle", "first", "pricing", "credit", "save", "write", "commit"}]
    /\ op \in [Procs -> {"none", "createAdmin", "createType", "deleteType", "createSolution",
                         "removeSolution", "createCustomer", "update"}]
    /\ target \in [Procs -> Docs \cup {NoDoc}]
    /\ view \in [Procs -> Snapshot \cup Pricings \cup Types \cup {NoDoc}]
    /\ \A p \in Procs :
          locks[p] # {} /\ op[p] # "createCustomer" => view[p] \in Snapshot
    /\ updates \in 0 .. MaxUpdates /\ faults \in 0 .. MaxFaults

Init ==
    /\ admins = FirstAdmins
    /\ types = {DefaultOf[a] : a \in FirstAdmins}
    /\ solutions = {}
    /\ customers = [c \in Customers |-> NoDoc]
    /\ pricing = [a \in Admins |->
                     IF a \in FirstAdmins THEN Entries({DefaultOf[a]}, {}) ELSE NoEntries]
    /\ evcPrices = [a \in Admins |-> IF a \in FirstAdmins THEN {DefaultOf[a]} ELSE {}]
    /\ TxInit
    /\ pc = [p \in Procs |-> "idle"]
    /\ op = [p \in Procs |-> "none"]
    /\ target = [p \in Procs |-> NoDoc]
    /\ view = [p \in Procs |-> NoDoc]
    /\ updates = 0 /\ faults = 0

-----------------------------------------------------------------------------
(* How a handler moves on. *)

Take(p, o, d, s) ==
    /\ pc[p] = "idle"
    /\ pc' = [pc EXCEPT ![p] = s]
    /\ op' = [op EXCEPT ![p] = o]
    /\ target' = [target EXCEPT ![p] = d]
    /\ UNCHANGED <<dataVars, txVars, view, faults>>

At(p, o, s) == op[p] = o /\ pc[p] = s

Goto(p, s) == pc' = [pc EXCEPT ![p] = s] /\ UNCHANGED <<op, target>>

Leave(p) ==
    /\ pc' = [pc EXCEPT ![p] = "idle"]
    /\ op' = [op EXCEPT ![p] = "none"]
    /\ target' = [target EXCEPT ![p] = NoDoc]
    /\ view' = [view EXCEPT ![p] = NoDoc]

\* Variant: the transaction is neither committed nor aborted.
Abort_LeaveOpen(p) == Leave(p) /\ UNCHANGED <<dataVars, txVars, updates>>

Abort(p) == TxAbort(p) /\ Leave(p) /\ UNCHANGED <<dataVars, updates>>

\* A document nobody has yet.
New(d) == \A q \in Procs : target[q] # d

\* Writes with the session to the documents ds; the first one takes the
\* snapshot that later reads of the handler see.
SessionWrites(p, ds) ==
    /\ \A d \in ds : ~Conflict(p, d)
    /\ locks' = [locks EXCEPT ![p] = @ \cup ds]
    /\ snap' = snap \cup {p}
    /\ UNCHANGED stale
    /\ view' = IF p \in snap \/ op[p] = "createCustomer" THEN view
               ELSE [view EXCEPT ![p] =
                        [admins |-> admins, types |-> types, solutions |-> solutions]]

\* What step s of the handler writes.
Written(p) ==
    LET d == target[p] IN
    CASE At(p, "createAdmin", "first") -> {d}
      [] At(p, "createAdmin", "save") -> {DefaultOf[d]}
      [] At(p, "createAdmin", "credit") -> {CreditDoc(d)}
      [] At(p, "createAdmin", "pricing") -> {PricingDoc(d)}
      [] op[p] \in {"createType", "deleteType"} /\ pc[p] = "pricing" -> {PricingDoc(AdminOf[d])}
      [] op[p] \in {"createType", "deleteType"} /\ pc[p] = "credit" -> {CreditDoc(AdminOf[d])}
      [] op[p] \in {"createType", "deleteType"} /\ pc[p] \in {"first", "save"} -> {d}
      [] op[p] \in {"createSolution", "removeSolution"} /\ pc[p] = "first" -> {d}
      [] op[p] \in {"createSolution", "removeSolution"} /\ pc[p] = "pricing" ->
            {PricingDoc(a) : a \in view[p].admins}
      [] At(p, "createCustomer", "save") -> {d}
      [] OTHER -> {}

\* The order of the writes of each handler.
After(p) ==
    CASE op[p] = "createAdmin" ->
            [first |-> "save", save |-> "credit", credit |-> "pricing", pricing |-> "commit"][pc[p]]
      [] op[p] = "createType" ->
            [pricing |-> "credit", credit |-> "save", save |-> "commit"][pc[p]]
      [] op[p] = "deleteType" ->
            [first |-> "pricing", pricing |-> "credit", credit |-> "commit"][pc[p]]
      [] op[p] \in {"createSolution", "removeSolution"} ->
            [first |-> "pricing", pricing |-> "commit"][pc[p]]
      [] OTHER -> "commit"

-----------------------------------------------------------------------------
(* Requests. *)

CreateAdmin(p, a) ==
    /\ a \notin admins /\ New(a)
    /\ Take(p, "createAdmin", a, "first")
    /\ UNCHANGED updates

CreateCustomerType(p, t) ==
    /\ AdminOf[t] \in admins /\ t # DefaultOf[AdminOf[t]]
    /\ t \notin types /\ New(t)
    /\ \A c \in Customers : customers[c] # t
    /\ Take(p, "createType", t, "pricing")
    /\ UNCHANGED updates

\* The name of the type is not read, so the default type is deleted like any
\* other; customers are looked for without the session.
DeleteCustomerType(p, t) ==
    /\ t \in types
    /\ \A c \in Customers : customers[c] # t
    /\ Take(p, "deleteType", t, "first")
    /\ UNCHANGED updates

CreateSolution(p, s) ==
    /\ s \notin solutions /\ New(s)
    /\ Take(p, "createSolution", s, "first")
    /\ UNCHANGED updates

RemoveSolution(p, s) ==
    /\ s \in solutions
    /\ Take(p, "removeSolution", s, "first")
    /\ UNCHANGED updates

\* A customer gets the oldest type of the portal, which is its default type
\* as long as that exists.
CreateCustomer(p, c, t) ==
    /\ customers[c] = NoDoc /\ New(c)
    /\ t \in types
    /\ DefaultOf[AdminOf[t]] \in types => t = DefaultOf[AdminOf[t]]
    /\ pc[p] = "idle"
    /\ pc' = [pc EXCEPT ![p] = "save"]
    /\ op' = [op EXCEPT ![p] = "createCustomer"]
    /\ target' = [target EXCEPT ![p] = c]
    /\ view' = [view EXCEPT ![p] = t]
    /\ UNCHANGED <<dataVars, txVars, updates, faults>>

\* updatePricing and updatePriceLimit read the document without a session ...
UpdatePricing(p, a) ==
    /\ a \in admins
    /\ updates < MaxUpdates
    /\ updates' = updates + 1
    /\ pc[p] = "idle"
    /\ pc' = [pc EXCEPT ![p] = "write"]
    /\ op' = [op EXCEPT ![p] = "update"]
    /\ target' = [target EXCEPT ![p] = a]
    /\ view' = [view EXCEPT ![p] = pricing[a]]
    /\ UNCHANGED <<dataVars, txVars, faults>>

\* ... and write all of it back, with new prices.
WriteBack(p) ==
    LET a == target[p] IN
    /\ pc[p] = "write"
    /\ PlainWrite(PricingDoc(a))
    /\ pricing' = [pricing EXCEPT ![a] = view[p]]
    /\ Leave(p)
    /\ UNCHANGED <<admins, types, solutions, customers, evcPrices, updates, faults>>

-----------------------------------------------------------------------------

\* A step of a transaction.
Write(p) ==
    /\ Written(p) # {} \/ pc[p] = "pricing"
    /\ SessionWrites(p, Written(p))
    /\ Goto(p, After(p))
    /\ UNCHANGED <<dataVars, updates, faults>>

(* What the pricing service does to the pricing document pr and to the EVC      *)
(* prices of a portal, for a customer type t or a solution s.                   *)

PushCategoryBasedItems(pr, t) == [pr EXCEPT !.items = @ \cup {t}]

PullCategoryBasedItems(pr, t) == [pr EXCEPT !.items = @ \ {t}]

\* Variant: the cells are set instead of pushed.
PushSolutionItemsByType_Set(pr, t, ss) == [pr EXCEPT !.cells = {t} \X ss]

PushSolutionItemsByType(pr, t, ss) == [pr EXCEPT !.cells = @ \cup ({t} \X ss)]

PullSolutionItemsByType(pr, t) == [pr EXCEPT !.cells = {c \in @ : c[1] # t}]

PushSolutionItemsById(pr, s, ts) == [pr EXCEPT !.cells = @ \cup (ts \X {s})]

PullSolutionItemsById(pr, s) == [pr EXCEPT !.cells = {c \in @ : c[2] # s}]

\* Variant: a new type gets a row but no limits.
PushPriceLimit_None(pr, t) == pr

PushPriceLimit(pr, t) == [pr EXCEPT !.limits = @ \cup {t}]

PullPriceLimit(pr, t) == [pr EXCEPT !.limits = @ \ {t}]

\* Variant: a new type gets no EVC price.
PushEvcPriceItems_None(prices, t) == prices

PushEvcPriceItems(prices, t) == prices \cup {t}

PullEvcPricingItem(prices, t) == prices \ {t}

\* The pricing document of a as the handler p leaves it.
NewPricing(p, a) ==
    LET d == target[p]
        pr == pricing[a]
        seen == view[p] IN
    CASE op[p] = "createAdmin" -> Entries({DefaultOf[d]}, seen.solutions)
      [] op[p] = "createType" ->
            PushPriceLimit(
                PushSolutionItemsByType(PushCategoryBasedItems(pr, d), d, seen.solutions), d)
      [] op[p] = "deleteType" ->
            PullPriceLimit(PullSolutionItemsByType(PullCategoryBasedItems(pr, d), d), d)
      [] op[p] = "createSolution" -> PushSolutionItemsById(pr, d, TypesOf(a, seen.types))
      [] op[p] = "removeSolution" -> PullSolutionItemsById(pr, d)

NewEvcPrices(p, a) ==
    CASE op[p] = "createAdmin" -> {DefaultOf[target[p]]}
      [] op[p] = "createType" -> PushEvcPriceItems(evcPrices[a], target[p])
      [] op[p] = "deleteType" -> PullEvcPricingItem(evcPrices[a], target[p])

Commit(p) ==
    LET d == target[p] IN
    /\ pc[p] = "commit"
    /\ TxCommit(p)
    /\ pricing' = [a \in Admins |->
                      IF PricingDoc(a) \in locks[p] THEN NewPricing(p, a) ELSE pricing[a]]
    /\ evcPrices' = [a \in Admins |->
                        IF CreditDoc(a) \in locks[p] THEN NewEvcPrices(p, a) ELSE evcPrices[a]]
    /\ admins' = admins \cup (locks[p] \cap Admins)
    /\ types' = IF op[p] = "deleteType" THEN types \ {d} ELSE types \cup (locks[p] \cap Types)
    /\ solutions' = IF op[p] = "removeSolution" THEN solutions \ {d}
                    ELSE solutions \cup (locks[p] \cap Solutions)
    /\ customers' = IF op[p] = "createCustomer" THEN [customers EXCEPT ![d] = view[p]] ELSE customers
    /\ Leave(p)
    /\ UNCHANGED <<updates, faults>>

\* One of the writes of a step is refused.
WriteConflict(p) ==
    /\ \E d \in Written(p) : Conflict(p, d)
    /\ Abort(p)
    /\ UNCHANGED faults

Fail(p) ==
    /\ pc[p] # "idle"
    /\ faults < MaxFaults
    /\ faults' = faults + 1
    /\ Abort(p)

HandlerStep(p) ==
    \/ Write(p)
    \/ WriteBack(p)
    \/ Commit(p)
    \/ WriteConflict(p)
    \/ Fail(p)

Request(p) ==
    \/ \E a \in Admins : CreateAdmin(p, a) \/ UpdatePricing(p, a)
    \/ \E t \in Types : CreateCustomerType(p, t) \/ DeleteCustomerType(p, t)
    \/ \E s \in Solutions : CreateSolution(p, s) \/ RemoveSolution(p, s)
    \/ \E c \in Customers, t \in Types : CreateCustomer(p, c, t)

Next == \E p \in Procs : Request(p) \/ HandlerStep(p)

Spec == Init /\ [][Next]_vars

-----------------------------------------------------------------------------
(* What a file costs.  Prices are functions of what is chosen. *)

\* A sum, as the number of credits it stands for.
Total(price, chosen) == Cardinality(UNION {{x} \X (1 .. price[x]) : x \in chosen})

\* Prices by category: no limits apply.
CategoryCredits(services, price) == Total(price, services)

\* Variant: the lower limit is forgotten.
SolutionCredits_NoMinimum(automatic, requested, price, limit) ==
    LET total == Total(price, automatic) + Total(price, requested) IN
    IF total > limit.max THEN limit.max ELSE total

\* Prices by solution, for chosen solutions that have a cell and suit the make:
\* one chosen twice counts twice, and the lower limit stands for a price of 0
\* only.
SolutionCredits(automatic, requested, price, limit) ==
    LET total == Total(price, automatic) + Total(price, requested)
        priced == IF total = 0 THEN limit.min ELSE total IN
    IF priced > limit.max THEN limit.max ELSE priced

\* What the portal pays.
AdminCredits(services, price, limit) ==
    LET total == Total(price, services)
        capped == IF total > limit.max THEN limit.max ELSE total IN
    IF capped < limit.min THEN limit.min ELSE capped

-----------------------------------------------------------------------------
(* Properties. *)

\* The pricing document of a has a row and limits for each of its types and a
\* cell for each type and solution, and nothing else.
CompleteIn(a) == pricing[a] = Entries(TypesOf(a, types), solutions)

\* The matrix of a portal is complete, however additions and removals of types
\* and solutions overlap, as long as nobody updates prices; and each type has an
\* EVC price, without which purchaseCredits refuses its customers.
MatrixComplete ==
    /\ updates = 0 => \A a \in FirstAdmins : CompleteIn(a)
    /\ \A a \in admins : evcPrices[a] = TypesOf(a, types)

\* "Pricing updated successfully": an update of prices keeps it complete.
UpdateKeepsMatrix == \A a \in FirstAdmins : CompleteIn(a)

\* "create default pricing including evc and credit pricing": the matrix of a
\* new portal is complete.
NewPortalComplete == \A a \in admins \ FirstAdmins : CompleteIn(a)

Chosen == 1 .. 2
Amounts == 0 .. 2
Limits == {l \in [min : Amounts, max : Amounts] : l.min <= l.max}

\* For all prices and limits: nothing costs more than the upper limit, no choice
\* is free where there is a lower limit, and a portal pays what its limits allow.
CreditsFit ==
    \A price \in [Chosen -> Amounts], some, others \in SUBSET Chosen, limit \in Limits :
        LET solutionBased == SolutionCredits(some, others, price, limit) IN
        /\ solutionBased <= limit.max
        /\ solutionBased = 0 => limit.min = 0
        /\ AdminCredits(some, price, limit) \in limit.min .. limit.max
        /\ CategoryCredits(some, price) = 0 => \A x \in some : price[x] = 0

\* Each type with a row can be priced, whatever a stale write loses or brings
\* back: calculateCredits reads its limits without asking whether they exist; and
\* the credits it finds fit the limits.
FilesPriced ==
    /\ \A a \in admins : pricing[a].items \subseteq pricing[a].limits
    /\ CreditsFit

\* "Customer type is associated with customer": customers keep their type.
CustomersHaveType == \A c \in Customers : customers[c] \in types \cup {NoDoc}

\* "Default customer type cannot be deleted".
DefaultTypeStays == \A a \in admins : DefaultOf[a] \in types
=============================================================================
