--------------------------- MODULE AccountsProofs ---------------------------
(***************************************************************************)
(* Proofs about Accounts for every number of accounts, addresses and       *)
(* handlers, and any failures and restarts.                                *)
(***************************************************************************)
EXTENDS Accounts, TLAPS

\* The steps of each operation.
StepsOf(o) ==
    CASE o = "none" -> {"idle"}
      [] o = "create" -> {"lookup", "insertUser", "insertProfile", "defaults", "evc", "commit"}
      [] o = "update" -> {"updateUser", "updateProfile", "evc", "commit"}
      [] o = "delete" -> {"removeProfile", "removeUser", "commit"}

\* Where a handler may be, with what, on whose account.
Route(p) ==
    LET a == target[p] IN
    /\ pc[p] \in StepsOf(op[p])
    /\ IF op[p] = "none"
       THEN a = NoAccount /\ p \notin number
       ELSE a \in Accounts /\ role[a] # "none"
    /\ email[p] \in IF op[p] \in {"create", "update"} THEN Emails ELSE {NoEmail}
    /\ p \in number => op[p] \in {"create", "update"} /\ IsCustomer(a)
    /\ pc[p] = "evc" => p \in number
    /\ pc[p] = "defaults" => IsPortal(a)
    /\ op[p] = "delete" => IsCustomer(a) \/ IsEmployee(a)
    /\ pc[p] = "removeProfile" => IsEmployee(a)

TypeInv == TypeOK /\ \A p \in Procs : Route(p)

WroteUser(p) == User(target[p]) \in locks[p]
WroteProfile(p) == Profile(target[p]) \in locks[p]

\* What the transaction of p has written at each step.
Written(p) ==
    /\ locks[p] \subseteq {User(target[p]), Profile(target[p])} \cup ({"index"} \X Emails)
    /\ op[p] = "none" => locks[p] = {}
    /\ op[p] = "create" =>
          /\ WroteUser(p) <=> pc[p] \notin {"lookup", "insertUser"}
          /\ WroteProfile(p) <=> pc[p] \in {"defaults", "evc", "commit"}
    /\ op[p] = "update" =>
          /\ WroteUser(p) => pc[p] # "updateUser"
          /\ WroteProfile(p) => pc[p] \in {"evc", "commit"}
    /\ op[p] = "delete" =>
          /\ WroteUser(p) <=> pc[p] = "commit"
          /\ WroteProfile(p) <=> IsEmployee(target[p]) /\ pc[p] # "removeProfile"

\* What a handler may rely on.  A creation is alone with its account; who has
\* written a document found it there, and it stays there; and who has written a
\* customer's address has it to himself.
Holds(p) ==
    LET a == target[p] IN
    /\ op[p] = "create" =>
          /\ ~Present(user, a) /\ ~Present(profile, a)
          /\ \A q \in Procs \ {p} : target[q] # a
    /\ op[p] = "update" =>
          /\ WroteUser(p) => Present(user, a)
          /\ WroteProfile(p) => Present(profile, a)
    /\ op[p] = "delete" /\ IsCustomer(a) => ~Present(profile, a)
    /\ p \in number /\ pc[p] = "commit" => a \in told
    /\ op[p] \in {"create", "update"} /\ IsCustomer(a) /\ WroteProfile(p) =>
          \/ profile[a] = email[p]
          \/ Index(email[p]) \in locks[p] /\ ~CustomerExists(email[p])

\* An update that is alone with its account writes the user whenever it changes
\* the address.
Alone(p) ==
    LET a == target[p] IN
    op[p] = "update" /\ a \notin raced =>
        /\ Present(profile, a)
        /\ pc[p] # "updateUser" => profile[a] = email[p] \/ WroteUser(p)
        /\ pc[p] \in {"evc", "commit"} => WroteProfile(p)

RacedInv ==
    \A p, q \in Procs : p # q /\ target[p] = target[q] /\ op[p] # "none" => target[p] \in raced

UnbornInv == \A a \in Accounts : role[a] = "none" => ~Present(user, a) /\ ~Present(profile, a)

\* No address is in the profiles of two customers, raced or not.
UniqueInv ==
    \A a, b \in Accounts :
        IsCustomer(a) /\ IsCustomer(b) /\ a # b /\ Present(profile, a) => profile[a] # profile[b]

SameInv ==
    \A a \in Accounts :
        IsCustomer(a) /\ Present(profile, a) /\ a \notin raced => user[a] = profile[a]

HandlerInv == LocksDisjoint /\ RacedInv /\ \A p \in Procs : Written(p) /\ Holds(p) /\ Alone(p)
AccountInv == UnbornInv /\ AccountsPaired /\ UniqueInv /\ SameInv

HandlersOK ==
    /\ pc \in [Procs -> Points]
    /\ op \in [Procs -> {"none", "create", "update", "delete"}]
    /\ target \in [Procs -> Accounts \cup {NoAccount}]
    /\ email \in [Procs -> Emails \cup {NoEmail}]
    /\ number \subseteq Procs

-----------------------------------------------------------------------------
(* Types. *)

\* What a route says, in one place.
LEMMA RouteFacts ==
  ASSUME TypeInv, NEW p \in Procs
  PROVE  /\ pc[p] = "idle" <=> op[p] = "none"
         /\ op[p] # "none" => target[p] \in Accounts /\ role[target[p]] # "none"
         /\ op[p] = "none" => target[p] = NoAccount /\ p \notin number /\ email[p] = NoEmail
         /\ op[p] \in {"create", "update"} => email[p] \in Emails
         /\ op[p] = "delete" => email[p] = NoEmail /\ p \notin number
         /\ p \in number => IsCustomer(target[p])
         /\ pc[p] \in StepsOf(op[p])
         /\ op[p] \in {"none", "create", "update", "delete"}
BY DEF TypeInv, TypeOK, Route, StepsOf

LEMMA DocTypes ==
  /\ \A a \in Accounts : User(a) \in Docs /\ Profile(a) \in Docs
  /\ \A e \in Emails : Index(e) \in Docs
  /\ \A a, b : User(a) # Profile(b) /\ User(a) # Index(b) /\ Profile(a) # Index(b)
  /\ \A a, b : /\ User(a) = User(b) => a = b
               /\ Profile(a) = Profile(b) => a = b
               /\ Index(a) = Index(b) => a = b
BY DEF Docs, User, Profile, Index

LEMMA InitTypes == Init => TypeInv
BY DEF Init, TypeInv, TypeOK, Route, StepsOf, Points, TxTypeOK, TxInit, Roles

\* What the database helpers do to the state of the transactions.
LEMMA TxTypes ==
  ASSUME TypeInv, NEW p \in Procs, NEW d \in Docs, NEW D \in SUBSET Docs,
         \/ SessionWrite(p, d) \/ SessionWriteAll(p, D) \/ SessionRead(p) \/ PlainWriteAll(D)
         \/ TxCommit(p) \/ TxAbort(p) \/ TxCrash \/ UNCHANGED txVars
  PROVE  TxTypeOK(Docs)'
<1>0. TxTypeOK(Docs)
  BY DEF TypeInv, TypeOK
<1>1. CASE SessionWrite(p, d)
  BY <1>0, <1>1 DEF TxTypeOK, SessionWrite
<1>2. CASE SessionWriteAll(p, D)
  BY <1>0, <1>2 DEF TxTypeOK, SessionWriteAll
<1>3. CASE SessionRead(p)
  BY <1>0, <1>3 DEF TxTypeOK, SessionRead
<1>4. CASE PlainWriteAll(D)
  BY <1>0, <1>4 DEF TxTypeOK, PlainWriteAll
<1>5. CASE TxCommit(p)
  BY <1>0, <1>5 DEF TxTypeOK, TxCommit
<1>6. CASE TxAbort(p)
  BY <1>0, <1>6 DEF TxTypeOK, TxAbort
<1>7. CASE TxCrash
  BY <1>7 DEF TxTypeOK, TxCrash
<1>8. CASE UNCHANGED txVars
  BY <1>0, <1>8 DEF TxTypeOK, txVars
<1> QED
  BY <1>1, <1>2, <1>3, <1>4, <1>5, <1>6, <1>7, <1>8

\* All handlers but p stay where they are.
Still(p) ==
    \A q \in Procs \ {p} : /\ pc'[q] = pc[q] /\ op'[q] = op[q] /\ target'[q] = target[q]
                           /\ email'[q] = email[q] /\ (q \in number' <=> q \in number)

LEMMA GotoMoves ==
  ASSUME TypeInv, NEW p \in Procs, NEW s \in Points, Goto(p, s)
  PROVE  /\ HandlersOK' /\ Still(p)
         /\ pc'[p] = s /\ op'[p] = op[p] /\ target'[p] = target[p] /\ email'[p] = email[p]
         /\ p \in number' <=> p \in number
BY DEF TypeInv, TypeOK, HandlersOK, Goto, Still

LEMMA LeaveMoves ==
  ASSUME TypeInv, NEW p \in Procs, Leave(p)
  PROVE  /\ HandlersOK' /\ Still(p)
         /\ pc'[p] = "idle" /\ op'[p] = "none" /\ target'[p] = NoAccount
         /\ email'[p] = NoEmail /\ p \notin number'
BY DEF TypeInv, TypeOK, HandlersOK, Leave, Still, Points

LEMMA TakeMoves ==
  ASSUME TypeInv, NEW p \in Procs, NEW o \in {"create", "update", "delete"},
         NEW a \in Accounts, NEW e \in Emails \cup {NoEmail}, NEW n \in BOOLEAN,
         NEW s \in Points, Take(p, o, a, e, n, s)
  PROVE  /\ HandlersOK' /\ Still(p) /\ op[p] = "none"
         /\ pc'[p] = s /\ op'[p] = o /\ target'[p] = a /\ email'[p] = e
         /\ p \in number' <=> n
         /\ raced \subseteq raced' /\ raced' \subseteq Accounts
         /\ (\E q \in Procs : target[q] = a) => a \in raced'
<1>1. op[p] = "none" /\ p \notin number
  BY RouteFacts DEF Take
<1> QED
  BY <1>1 DEF TypeInv, TypeOK, HandlersOK, Take, Still

\* The routes of the others, when no account that is in use changes its role.
LEMMA RoutesKept ==
  ASSUME TypeInv, NEW p \in Procs, Still(p), Route(p)',
         \A q \in Procs \ {p} : op[q] # "none" => role'[target[q]] = role[target[q]]
  PROVE  \A q \in Procs : Route(q)'
<1> SUFFICES ASSUME NEW q \in Procs \ {p} PROVE Route(q)'
  OBVIOUS
<1>1. /\ pc'[q] = pc[q] /\ op'[q] = op[q] /\ target'[q] = target[q] /\ email'[q] = email[q]
      /\ q \in number' <=> q \in number
  BY DEF Still
<1>2. Route(q) /\ op[q] \in {"none", "create", "update", "delete"}
  BY DEF TypeInv, TypeOK
<1>3. CASE op[q] = "none"
  BY <1>1, <1>2, <1>3 DEF Route, StepsOf
<1>4. CASE op[q] # "none"
  BY <1>1, <1>2, <1>4 DEF Route, IsCustomer, IsEmployee, IsPortal
<1> QED
  BY <1>3, <1>4

\* How a step of p that leaves the roles alone keeps the types.
LEMMA StepTypes ==
  ASSUME TypeInv, NEW p \in Procs, Still(p), HandlersOK', Route(p)', TxTypeOK(Docs)',
         role' = role, raced' \subseteq Accounts,
         user' \in [Accounts -> Emails \cup {NoEmail}],
         profile' \in [Accounts -> Emails \cup {NoEmail}],
         defaults' \subseteq Accounts, numbers' \subseteq Accounts, told' \subseteq Accounts
  PROVE  TypeInv'
<1>1. \A q \in Procs : Route(q)'
  BY RoutesKept
<1>2. \A q \in Procs : pc'[q] # "idle" => role'[target'[q]] # "none"
  BY <1>1 DEF Route, StepsOf, HandlersOK
<1> QED
  BY <1>1, <1>2 DEF TypeInv, TypeOK, HandlersOK

LEMMA QuietTypes ==
  ASSUME TypeInv, NEW p \in Procs, Still(p), HandlersOK', Route(p)', TxTypeOK(Docs)',
         UNCHANGED docVars, raced' \subseteq Accounts
  PROVE  TypeInv'
BY StepTypes DEF TypeInv, TypeOK, docVars

LEMMA LeaveTypes ==
  ASSUME TypeInv, NEW p \in Procs, Leave(p), TxTypeOK(Docs)',
         UNCHANGED <<role, raced>>,
         user' \in [Accounts -> Emails \cup {NoEmail}],
         profile' \in [Accounts -> Emails \cup {NoEmail}],
         defaults' \subseteq Accounts, numbers' \subseteq Accounts, told' \subseteq Accounts
  PROVE  TypeInv'
<1>1. Route(p)'
  BY LeaveMoves DEF Route, StepsOf
<1>2. raced' \subseteq Accounts
  BY DEF TypeInv, TypeOK
<1> QED
  BY <1>1, <1>2, LeaveMoves, StepTypes

LEMMA AbortTypes ==
  ASSUME TypeInv, NEW p \in Procs, Abort(p), UNCHANGED <<docVars, raced>>
  PROVE  TypeInv'
<1>1. TxTypeOK(Docs)' /\ Leave(p)
  BY DEF Abort, TxAbort, TxTypeOK, TypeInv, TypeOK
<1> QED
  BY <1>1, LeaveTypes DEF docVars, TypeInv, TypeOK

\* Where a handler is after the profile is written.
LEMMA AfterProfileRoute ==
  ASSUME TypeInv, NEW p \in Procs, pc[p] \in {"insertProfile", "updateProfile"}
  PROVE  /\ AfterProfile(p) \in StepsOf(op[p]) \cap {"defaults", "evc", "commit"}
         /\ AfterProfile(p) = "evc" <=> p \in number
         /\ AfterProfile(p) = "defaults" => IsPortal(target[p]) /\ op[p] = "create"
         /\ op[p] \in {"create", "update"}
<1>1. Route(p) /\ op[p] \in {"none", "create", "update", "delete"}
  BY DEF TypeInv, TypeOK
<1> QED
  BY <1>1 DEF Route, AfterProfile, StepsOf, IsCustomer, IsPortal

\* A step of p that goes on.
LEMMA GotoTypes ==
  ASSUME TypeInv, NEW p \in Procs, NEW s \in StepsOf(op[p]), Goto(p, s), op[p] # "none",
         s = "evc" => p \in number, s = "defaults" => IsPortal(target[p]), s # "removeProfile",
         TxTypeOK(Docs)', UNCHANGED <<docVars, raced>>
  PROVE  TypeInv'
<1>1. s \in Points /\ op[p] \in {"none", "create", "update", "delete"} /\ Route(p)
  BY DEF TypeInv, TypeOK, StepsOf, Points
<1>2. /\ HandlersOK' /\ Still(p)
      /\ pc'[p] = s /\ op'[p] = op[p] /\ target'[p] = target[p] /\ email'[p] = email[p]
      /\ p \in number' <=> p \in number
  BY <1>1, GotoMoves
<1>3. Route(p)'
  BY <1>1, <1>2 DEF Route, docVars, IsCustomer, IsEmployee, IsPortal
<1>4. raced' \subseteq Accounts
  BY DEF TypeInv, TypeOK
<1> QED
  BY <1>2, <1>3, <1>4, QuietTypes

LEMMA SessionTypes ==
  ASSUME TypeInv, NEW p \in Procs,
         \/ LookUpUser(p) \/ InsertUser(p) \/ InsertProfile(p) \/ InsertDefaults(p)
         \/ UpdateUserEmail(p) \/ UpdateProfile(p) \/ RemoveProfile(p) \/ RemoveUser(p)
  PROVE  TypeInv'
<1>0. /\ Route(p) /\ op[p] \in {"none", "create", "update", "delete"}
      /\ UNCHANGED <<docVars, raced>>
  BY DEF TypeInv, TypeOK, LookUpUser, InsertUser, InsertProfile, InsertDefaults,
         UpdateUserEmail, UpdateProfile, RemoveProfile, RemoveUser, Then
<1>1. op[p] # "none"
  BY <1>0 DEF LookUpUser, InsertUser, InsertProfile, InsertDefaults, UpdateUserEmail,
              UpdateProfile, RemoveProfile, RemoveUser, Then, Route, StepsOf
<1>2. target[p] \in Accounts /\ (op[p] \in {"create", "update"} => email[p] \in Emails)
  BY <1>1, RouteFacts
<1>3. CASE LookUpUser(p)
  <2>1. CASE Abort(p)
    BY <1>0, <2>1, AbortTypes
  <2>2. CASE Goto(p, "insertUser") /\ UNCHANGED txVars
    <3>1. op[p] = "create"
      BY <1>0, <1>3 DEF LookUpUser, Route, StepsOf
    <3>2. "insertUser" \in StepsOf(op[p])
      BY <3>1 DEF StepsOf
    <3>3. TxTypeOK(Docs)'
      BY <2>2 DEF TxTypeOK, txVars, TypeInv, TypeOK
    <3> QED
      BY <1>0, <1>1, <2>2, <3>2, <3>3, GotoTypes
  <2> QED
    BY <1>3, <2>1, <2>2 DEF LookUpUser
<1>4. CASE InsertUser(p)
  <2>1. pc[p] = "insertUser" /\ Goto(p, "insertProfile") /\ SessionWrite(p, User(target[p]))
    BY <1>4 DEF InsertUser, Then
  <2>2. "insertProfile" \in StepsOf(op[p])
    BY <1>0, <2>1 DEF Route, StepsOf
  <2>3. TxTypeOK(Docs)'
    BY <1>2, <2>1, TxTypes, DocTypes
  <2> QED
    BY <1>0, <1>1, <2>1, <2>2, <2>3, GotoTypes
<1>5. CASE InsertProfile(p)
  <2>1. pc[p] = "insertProfile" /\ Goto(p, AfterProfile(p))
    BY <1>5 DEF InsertProfile, Then
  <2>2. TxTypeOK(Docs)'
    <3>1. op[p] = "create"
      BY <1>0, <2>1 DEF Route, StepsOf
    <3>2. Profile(target[p]) \in Docs /\ Index(email[p]) \in Docs
      BY <1>2, <3>1, DocTypes
    <3>3. {Profile(target[p])} \cup (IF IsCustomer(target[p]) THEN {Index(email[p])} ELSE {})
             \in SUBSET Docs
      BY <3>2
    <3> QED
      BY <1>5, <3>2, <3>3, TxTypes DEF InsertProfile
  <2> QED
    BY <1>0, <1>1, <2>1, <2>2, AfterProfileRoute, GotoTypes
<1>6. CASE InsertDefaults(p)
  <2>1. pc[p] = "defaults" /\ Goto(p, "commit") /\ UNCHANGED txVars
    BY <1>6 DEF InsertDefaults, Then
  <2>2. "commit" \in StepsOf(op[p])
    BY <1>0, <2>1 DEF Route, StepsOf
  <2>3. TxTypeOK(Docs)'
    BY <2>1 DEF TxTypeOK, txVars, TypeInv, TypeOK
  <2> QED
    BY <1>0, <1>1, <2>1, <2>2, <2>3, GotoTypes
<1>7. CASE UpdateUserEmail(p)
  <2>1. pc[p] = "updateUser" /\ Goto(p, "updateProfile")
    BY <1>7 DEF UpdateUserEmail, Then
  <2>2. "updateProfile" \in StepsOf(op[p])
    BY <1>0, <2>1 DEF Route, StepsOf
  <2>3. TxTypeOK(Docs)'
    BY <1>2, <1>7, TxTypes, DocTypes DEF UpdateUserEmail
  <2> QED
    BY <1>0, <1>1, <2>1, <2>2, <2>3, GotoTypes
<1>8. CASE UpdateProfile(p)
  <2>1. pc[p] = "updateProfile" /\ Goto(p, AfterProfile(p))
    BY <1>8 DEF UpdateProfile, Then
  <2>2. TxTypeOK(Docs)'
    <3>1. op[p] = "update"
      BY <1>0, <2>1 DEF Route, StepsOf
    <3>2. Profile(target[p]) \in Docs /\ Index(email[p]) \in Docs
      BY <1>2, <3>1, DocTypes
    <3>3. CASE profile[target[p]] = NoEmail
      BY <1>8, <3>2, <3>3, TxTypes DEF UpdateProfile
    <3>4. CASE profile[target[p]] # NoEmail
      <4>1. Index(profile[target[p]]) \in Docs
        BY <1>2, <3>4, DocTypes DEF TypeInv, TypeOK
      <4>2. PICK D \in SUBSET Docs : SessionWriteAll(p, D)
        BY <1>8, <3>2, <3>4, <4>1 DEF UpdateProfile
      <4> QED
        BY <3>2, <4>2, TxTypes
    <3> QED
      BY <3>3, <3>4
  <2> QED
    BY <1>0, <1>1, <2>1, <2>2, AfterProfileRoute, GotoTypes
<1>9. CASE RemoveProfile(p)
  <2>1. pc[p] = "removeProfile" /\ Goto(p, "removeUser")
    BY <1>9 DEF RemoveProfile, Then
  <2>2. "removeUser" \in StepsOf(op[p])
    BY <1>0, <2>1 DEF Route, StepsOf
  <2>3. TxTypeOK(Docs)'
    BY <1>2, <1>9, TxTypes, DocTypes DEF RemoveProfile
  <2> QED
    BY <1>0, <1>1, <2>1, <2>2, <2>3, GotoTypes
<1>10. CASE RemoveUser(p)
  <2>1. pc[p] = "removeUser" /\ Goto(p, "commit")
    BY <1>10 DEF RemoveUser, Then
  <2>2. "commit" \in StepsOf(op[p])
    BY <1>0, <2>1 DEF Route, StepsOf
  <2>3. TxTypeOK(Docs)'
    BY <1>2, <1>10, TxTypes, DocTypes DEF RemoveUser
  <2> QED
    BY <1>0, <1>1, <2>1, <2>2, <2>3, GotoTypes
<1> QED
  BY <1>3, <1>4, <1>5, <1>6, <1>7, <1>8, <1>9, <1>10

LEMMA EvcTypes ==
  ASSUME TypeInv, NEW p \in Procs, AddEvcCustomer(p)
  PROVE  TypeInv'
<1>1. /\ pc[p] = "evc" /\ Goto(p, "commit") /\ UNCHANGED txVars
      /\ told' = told \cup {target[p]} /\ UNCHANGED <<user, profile, role, defaults, numbers, raced>>
  BY DEF AddEvcCustomer
<1>2. Route(p) /\ op[p] \in {"none", "create", "update", "delete"}
  BY DEF TypeInv, TypeOK
<1>3. op[p] \in {"create", "update"} /\ target[p] \in Accounts
  BY <1>1, <1>2 DEF Route, StepsOf
<1>4. /\ HandlersOK' /\ Still(p)
      /\ pc'[p] = "commit" /\ op'[p] = op[p] /\ target'[p] = target[p] /\ email'[p] = email[p]
      /\ p \in number' <=> p \in number
  BY <1>1, GotoMoves DEF Points
<1>5. Route(p)'
  BY <1>1, <1>2, <1>3, <1>4 DEF Route, StepsOf, IsCustomer, IsEmployee, IsPortal
<1>6. TxTypeOK(Docs)'
  BY <1>1 DEF TxTypeOK, txVars, TypeInv, TypeOK
<1> QED
  BY <1>1, <1>3, <1>4, <1>5, <1>6, StepTypes DEF TypeInv, TypeOK

LEMMA CommitTypes ==
  ASSUME TypeInv, NEW p \in Procs, Commit(p)
  PROVE  TypeInv'
<1>1. TxTypeOK(Docs)'
  BY TxTypes, DocTypes DEF Commit, TypeInv, TypeOK, TxTypeOK, TxCommit
<1>2. pc[p] = "commit" /\ Leave(p) /\ UNCHANGED <<role, told, raced>>
  BY DEF Commit
<1>3. op[p] # "none"
  BY <1>2, RouteFacts DEF StepsOf
<1>4. target[p] \in Accounts /\ email[p] \in Emails \cup {NoEmail}
  BY <1>3, RouteFacts DEF TypeInv, TypeOK
<1>5. /\ user' \in [Accounts -> Emails \cup {NoEmail}]
      /\ profile' \in [Accounts -> Emails \cup {NoEmail}]
      /\ defaults' \subseteq Accounts /\ numbers' \subseteq Accounts /\ told' \subseteq Accounts
  BY <1>4 DEF Commit, TypeInv, TypeOK
<1> QED
  BY <1>1, <1>2, <1>5, LeaveTypes

\* The steps that only abandon the transaction.
LEMMA EndTypes ==
  ASSUME TypeInv, NEW p \in Procs,
         DuplicateKey(p) \/ AddressTaken(p) \/ WriteConflict(p) \/ Fail(p)
  PROVE  TypeInv'
<1>1. Abort(p) /\ UNCHANGED <<docVars, raced>>
  BY DEF DuplicateKey, AddressTaken, WriteConflict, Fail
<1> QED
  BY <1>1, AbortTypes

\* Whose account a request may be about: a creation, one that nobody works on.
LEMMA CreateTypes ==
  ASSUME TypeInv, NEW p \in Procs, NEW a \in Accounts, NEW e \in Emails, NEW n \in BOOLEAN,
         NEW r \in Roles, Create(p, a, r, e, n), n => r = "customer"
  PROVE  TypeInv'
<1>1. /\ role[a] = "none" /\ role' = [role EXCEPT ![a] = r]
      /\ Take(p, "create", a, e, n, "lookup")
      /\ UNCHANGED <<user, profile, defaults, numbers, told, txVars>>
  BY DEF Create
<1>2. /\ HandlersOK' /\ Still(p) /\ op[p] = "none"
      /\ pc'[p] = "lookup" /\ op'[p] = "create" /\ target'[p] = a /\ email'[p] = e
      /\ p \in number' <=> n
      /\ raced' \subseteq Accounts
  <2>1. "lookup" \in Points
    BY DEF Points
  <2> QED
    BY <1>1, <2>1, TakeMoves
<1>3. role' \in [Accounts -> Roles \cup {"none"}] /\ role'[a] = r /\ r # "none"
  BY <1>1 DEF TypeInv, TypeOK, Roles
<1>4. Route(p)'
  BY <1>2, <1>3 DEF Route, StepsOf, IsCustomer
<1>5. ASSUME NEW q \in Procs \ {p}, op[q] # "none"
      PROVE  role'[target[q]] = role[target[q]]
  <2>1. target[q] \in Accounts /\ role[target[q]] # "none"
    BY <1>5, RouteFacts
  <2> QED
    BY <1>1, <2>1 DEF TypeInv, TypeOK
<1>6. \A q \in Procs : Route(q)'
  BY <1>2, <1>4, <1>5, RoutesKept
<1>7. \A q \in Procs : pc'[q] # "idle" => role'[target'[q]] # "none"
  BY <1>2, <1>6 DEF Route, StepsOf, HandlersOK
<1>8. TxTypeOK(Docs)'
  BY <1>1 DEF TxTypeOK, txVars, TypeInv, TypeOK
<1> QED
  BY <1>1, <1>2, <1>3, <1>6, <1>7, <1>8 DEF TypeInv, TypeOK, HandlersOK

LEMMA UpdateTypes ==
  ASSUME TypeInv, NEW p \in Procs, NEW a \in Accounts, NEW e \in Emails, NEW n \in BOOLEAN,
         Update(p, a, e, n), role[a] # "none", n => IsCustomer(a)
  PROVE  TypeInv'
<1>1. PICK s \in {"updateUser", "updateProfile"} :
        /\ Take(p, "update", a, e, n, s) /\ UNCHANGED <<docVars, txVars>>
  BY DEF Update
<1>2. /\ HandlersOK' /\ Still(p) /\ op[p] = "none"
      /\ pc'[p] = s /\ op'[p] = "update" /\ target'[p] = a /\ email'[p] = e
      /\ p \in number' <=> n
      /\ raced' \subseteq Accounts
  <2>1. s \in Points
    BY DEF Points
  <2> QED
    BY <1>1, <2>1, TakeMoves
<1>3. Route(p)'
  BY <1>1, <1>2 DEF Route, StepsOf, docVars, IsCustomer
<1>4. TxTypeOK(Docs)'
  BY <1>1 DEF TxTypeOK, txVars, TypeInv, TypeOK
<1> QED
  BY <1>1, <1>2, <1>3, <1>4, QuietTypes

LEMMA DeleteTypes ==
  ASSUME TypeInv, NEW p \in Procs, NEW a \in Accounts, DeleteCustomer(p, a) \/ DeleteEmployee(p, a)
  PROVE  TypeInv'
<1>1. PICK s \in {"removeUser", "removeProfile"} :
        /\ Take(p, "delete", a, NoEmail, FALSE, s)
        /\ IsCustomer(a) \/ IsEmployee(a)
        /\ s = "removeProfile" => IsEmployee(a)
        /\ UNCHANGED <<user, role, defaults, numbers, told>>
        /\ profile' \in [Accounts -> Emails \cup {NoEmail}]
        /\ TxTypeOK(Docs)'
  <2>1. CASE DeleteCustomer(p, a)
    <3>1. Profile(a) \in Docs /\ Index(profile[a]) \in Docs
      BY <2>1, DocTypes DEF DeleteCustomer, TypeInv, TypeOK
    <3>2. TxTypeOK(Docs)'
      BY <2>1, <3>1, TxTypes DEF DeleteCustomer
    <3> QED
      BY <2>1, <3>2 DEF DeleteCustomer, TypeInv, TypeOK
  <2>2. CASE DeleteEmployee(p, a)
    BY <2>2 DEF DeleteEmployee, docVars, txVars, TxTypeOK, TypeInv, TypeOK
  <2> QED
    BY <2>1, <2>2
<1>2. /\ HandlersOK' /\ Still(p) /\ op[p] = "none"
      /\ pc'[p] = s /\ op'[p] = "delete" /\ target'[p] = a /\ email'[p] = NoEmail
      /\ p \notin number'
      /\ raced' \subseteq Accounts
  <2>1. s \in Points
    BY DEF Points
  <2> QED
    BY <1>1, <2>1, TakeMoves
<1>3. Route(p)'
  BY <1>1, <1>2 DEF Route, StepsOf, IsCustomer, IsEmployee
<1> QED
  BY <1>1, <1>2, <1>3, StepTypes DEF TypeInv, TypeOK

\* What a request of any kind is.
Request(p, a, e, n) ==
    \/ CreateCustomer(p, a, e, n) \/ UpdateCustomer(p, a, e, n)
    \/ CreateEmployee(p, a, e) \/ UpdateEmployee(p, a, e)
    \/ CreateAdmin(p, a, e) \/ UpdateAdmin(p, a, e)

LEMMA RequestFacts ==
  ASSUME NEW p \in Procs, NEW a \in Accounts, NEW e \in Emails, NEW n \in BOOLEAN,
         Request(p, a, e, n)
  PROVE  \E m \in BOOLEAN :
            \/ \E r \in Roles : /\ Create(p, a, r, e, m) /\ (m => r = "customer")
                                /\ r = "customer" => ~CustomerExists(e)
            \/ Update(p, a, e, m) /\ role[a] # "none" /\ (m => IsCustomer(a))
BY DEF Request, CreateCustomer, UpdateCustomer, CreateEmployee, UpdateEmployee, CreateAdmin,
       UpdateAdmin, IsCustomer, IsEmployee, IsPortal, Roles

LEMMA RequestTypes ==
  ASSUME TypeInv, NEW p \in Procs, NEW a \in Accounts, NEW e \in Emails, NEW n \in BOOLEAN,
         Request(p, a, e, n)
  PROVE  TypeInv'
BY RequestFacts, CreateTypes, UpdateTypes

LEMMA CrashTypes == TypeInv /\ Crash => TypeInv'
<1> SUFFICES ASSUME TypeInv, Crash PROVE TypeInv'
  OBVIOUS
<1>1. TxTypeOK(Docs)'
  BY DEF Crash, TxCrash, TxTypeOK
<1>2. \A q \in Procs : /\ pc'[q] = "idle" /\ op'[q] = "none" /\ target'[q] = NoAccount
                       /\ email'[q] = NoEmail /\ q \notin number'
  BY DEF Crash
<1>3. \A q \in Procs : Route(q)'
  BY <1>2 DEF Route, StepsOf
<1> QED
  BY <1>1, <1>2, <1>3 DEF Crash, docVars, TypeInv, TypeOK, Points

LEMMA StutterTypes == TypeInv /\ UNCHANGED vars => TypeInv'
<1> SUFFICES ASSUME TypeInv, UNCHANGED vars PROVE TypeInv'
  OBVIOUS
<1>1. TypeOK'
  BY DEF TypeInv, TypeOK, TxTypeOK, vars, docVars, procVars, txVars
<1>2. \A p \in Procs : Route(p)'
  BY DEF TypeInv, Route, vars, docVars, procVars, IsCustomer, IsEmployee, IsPortal
<1> QED
  BY <1>1, <1>2 DEF TypeInv

\* The kinds of steps there are.
LEMMA NextKinds ==
  ASSUME Next
  PROVE  \/ \E p \in Procs, a \in Accounts, e \in Emails, n \in BOOLEAN : Request(p, a, e, n)
         \/ \E p \in Procs, a \in Accounts : DeleteCustomer(p, a) \/ DeleteEmployee(p, a)
         \/ \E p \in Procs : HandlerStep(p)
         \/ Crash
BY DEF Next, Request

LEMMA TypeNext == TypeInv /\ [Next]_vars => TypeInv'
<1> SUFFICES ASSUME TypeInv, [Next]_vars PROVE TypeInv'
  OBVIOUS
<1>1. ASSUME NEW p \in Procs, HandlerStep(p) PROVE TypeInv'
  BY <1>1, SessionTypes, EvcTypes, CommitTypes, EndTypes DEF HandlerStep
<1>2. CASE UNCHANGED vars
  BY <1>2, StutterTypes
<1>3. CASE Next
  BY <1>1, <1>3, NextKinds, RequestTypes, DeleteTypes, CrashTypes
<1> QED
  BY <1>2, <1>3

\* Every document and every handler is always what its type says, and a handler
\* only works on an account that was begun, on the route of its operation.
THEOREM TypeCorrect == Spec => []TypeOK
<1>1. Spec => []TypeInv
  BY InitTypes, TypeNext, PTL DEF Spec
<1>2. TypeInv => TypeOK
  BY DEF TypeInv
<1> QED
  BY <1>1, <1>2, PTL

-----------------------------------------------------------------------------
(* The others, when p takes a step. *)

\* What p does to the documents and locks that another handler relies on.
Spares(p) ==
    /\ \A q \in Procs \ {p} : locks'[q] = locks[q]
    /\ raced \subseteq raced' /\ told \subseteq told'
    /\ \A q \in Procs \ {p} : op[q] # "none" =>
          LET t == target[q] IN
          /\ role'[t] = role[t]
          /\ op[q] = "create" /\ user[t] = NoEmail => user'[t] = NoEmail
          /\ profile[t] = NoEmail => profile'[t] = NoEmail
          /\ WroteUser(q) => user'[t] = user[t]
          /\ WroteProfile(q) => profile'[t] = profile[t]
          /\ t \notin raced' => profile'[t] = profile[t]
          /\ op[q] = "create" => target'[p] # t
          /\ \A e \in Emails : Index(e) \in locks[q] /\ CustomerExists(e)' => CustomerExists(e)

LEMMA OthersKept ==
  ASSUME TypeInv, NEW p \in Procs, Still(p), Spares(p), NEW q \in Procs \ {p},
         Written(q), Holds(q), Alone(q)
  PROVE  Written(q)' /\ Holds(q)' /\ Alone(q)'
<1> DEFINE t == target[q]
<1>1. /\ pc'[q] = pc[q] /\ op'[q] = op[q] /\ target'[q] = t
      /\ email'[q] = email[q] /\ (q \in number' <=> q \in number)
      /\ locks'[q] = locks[q]
  BY DEF Still, Spares
<1>2. CASE op[q] = "none"
  <2>1. q \notin number
    BY <1>2, RouteFacts
  <2> QED
    BY <1>1, <1>2, <2>1 DEF Written, Holds, Alone
<1>3. CASE op[q] # "none"
  <2>1. /\ role'[t] = role[t]
        /\ op[q] = "create" /\ user[t] = NoEmail => user'[t] = NoEmail
        /\ profile[t] = NoEmail => profile'[t] = NoEmail
        /\ WroteUser(q) => user'[t] = user[t]
        /\ WroteProfile(q) => profile'[t] = profile[t]
        /\ t \notin raced' => profile'[t] = profile[t] /\ t \notin raced
        /\ op[q] = "create" => target'[p] # t
        /\ t \in told => t \in told'
    BY <1>3 DEF Spares
  <2>2. \A e \in Emails : Index(e) \in locks[q] /\ CustomerExists(e)' => CustomerExists(e)
    BY <1>3 DEF Spares
  <2>3. /\ WroteUser(q)' <=> WroteUser(q)
        /\ WroteProfile(q)' <=> WroteProfile(q)
        /\ IsCustomer(target[q])' <=> IsCustomer(t)
        /\ IsEmployee(target[q])' <=> IsEmployee(t)
    BY <1>1, <2>1 DEF WroteUser, WroteProfile, IsCustomer, IsEmployee
  <2>4. Written(q)'
    BY <1>1, <2>3 DEF Written
  <2>5. Alone(q)'
    BY <1>1, <2>1, <2>3 DEF Alone, Present
  <2>6. Holds(q)'
    <3>1. op[q] = "create" =>
             /\ ~Present(user, target[q])' /\ ~Present(profile, target[q])'
             /\ \A r \in Procs \ {q} : target'[r] # target'[q]
      <4>1. op[q] = "create" => \A r \in Procs \ {q} : target'[r] # t
        BY <2>1 DEF Holds, Still
      <4> QED
        BY <1>1, <2>1, <4>1 DEF Holds, Present
    <3>2. op[q] = "update" => /\ WroteUser(q)' => Present(user, target[q])'
                              /\ WroteProfile(q)' => Present(profile, target[q])'
      BY <1>1, <2>1, <2>3 DEF Holds, Present
    <3>3. op[q] = "delete" /\ IsCustomer(t) => ~Present(profile, target[q])'
      BY <1>1, <2>1 DEF Holds, Present
    <3>4. ASSUME op[q] \in {"create", "update"}, IsCustomer(t), WroteProfile(q)
          PROVE  \/ profile'[t] = email'[q]
                 \/ Index(email'[q]) \in locks'[q] /\ ~CustomerExists(email[q])'
      <4>1. PICK e \in Emails : e = email[q] /\ e = email'[q]
        BY <1>1, <3>4, RouteFacts
      <4>2. \/ profile'[t] = e
            \/ Index(e) \in locks[q] /\ ~CustomerExists(e)'
        BY <2>1, <2>2, <3>4, <4>1 DEF Holds
      <4>3. CustomerExists(email[q])' <=> CustomerExists(e)'
        BY <4>1 DEF CustomerExists
      <4> QED
        BY <1>1, <4>1, <4>2, <4>3
    <3>5. q \in number' /\ pc'[q] = "commit" => target'[q] \in told'
      BY <1>1, <2>1 DEF Holds
    <3>6. op'[q] = op[q]
      BY <1>1
    <3>7. /\ op'[q] \in {"create", "update"} /\ IsCustomer(target[q])' /\ WroteProfile(q)' =>
               \/ profile'[target'[q]] = email'[q]
               \/ Index(email'[q]) \in locks'[q] /\ ~CustomerExists(email[q])'
          /\ op'[q] = "delete" /\ IsCustomer(target[q])' => ~Present(profile, target[q])'
      BY <1>1, <2>3, <3>3, <3>4
    <3> HIDE DEF t
    <3> QED
      BY <3>1, <3>2, <3>5, <3>6, <3>7 DEF Holds
  <2> QED
    BY <2>4, <2>5, <2>6
<1> QED
  BY <1>2, <1>3

\* Two handlers on an account are seen by the one that came last.
LEMMA RacedKept ==
  ASSUME TypeInv, RacedInv, NEW p \in Procs, Still(p), raced \subseteq raced',
         op'[p] # "none" => target'[p] \in Accounts,
         \A q \in Procs \ {p} :
             target[q] = target'[p] /\ target[q] \in Accounts => target[q] \in raced'
  PROVE  RacedInv'
<1> SUFFICES ASSUME NEW q \in Procs, NEW r \in Procs, q # r,
                    target'[q] = target'[r], op'[q] # "none"
             PROVE  target'[q] \in raced'
  BY DEF RacedInv
<1>1. q # p => op[q] # "none" /\ target'[q] = target[q] /\ target[q] \in Accounts
  BY RouteFacts DEF Still
<1>2. r # p => target'[r] = target[r]
  BY DEF Still
<1> QED
  BY <1>1, <1>2 DEF RacedInv

LEMMA HandlersKept ==
  ASSUME TypeInv, HandlerInv, NEW p \in Procs, Still(p), Spares(p), LocksDisjoint',
         Written(p)', Holds(p)', Alone(p)',
         op'[p] # "none" => target'[p] \in Accounts,
         \A q \in Procs \ {p} :
             target[q] = target'[p] /\ target[q] \in Accounts => target[q] \in raced'
  PROVE  HandlerInv'
<1>1. \A q \in Procs \ {p} : Written(q)' /\ Holds(q)' /\ Alone(q)'
  BY OthersKept DEF HandlerInv
<1>2. RacedInv'
  BY RacedKept DEF HandlerInv, Spares
<1> QED
  BY <1>1, <1>2 DEF HandlerInv

\* A handler that is gone has promised nothing.
LEMMA IdleHolds ==
  ASSUME NEW p \in Procs, op'[p] = "none", locks'[p] = {}, p \notin number'
  PROVE  Written(p)' /\ Holds(p)' /\ Alone(p)'
BY DEF Written, Holds, Alone, WroteUser, WroteProfile

\* The documents, when a step leaves them alone.
LEMMA AccountsKept ==
  ASSUME AccountInv, UNCHANGED <<user, profile, role, defaults, numbers>>,
         raced \subseteq raced', told \subseteq told'
  PROVE  AccountInv'
<1>1. UnbornInv'
  BY DEF AccountInv, UnbornInv, Present
<1>2. AccountsPaired'
  BY DEF AccountInv, AccountsPaired, Present, IsCustomer, IsPortal
<1>3. UniqueInv'
  BY DEF AccountInv, UniqueInv, Present, IsCustomer
<1>4. SameInv'
  BY DEF AccountInv, SameInv, Present, IsCustomer
<1> QED
  BY <1>1, <1>2, <1>3, <1>4 DEF AccountInv

\* A step of p that changes no document and takes no account.
LEMMA QuietSpares ==
  ASSUME TypeInv, HandlerInv, NEW p \in Procs,
         UNCHANGED <<user, profile, role, defaults, numbers, raced>>, told \subseteq told',
         \A q \in Procs \ {p} : locks'[q] = locks[q],
         target'[p] = NoAccount \/ target'[p] = target[p]
  PROVE  Spares(p)
<1>1. \A e \in Emails : CustomerExists(e)' <=> CustomerExists(e)
  BY DEF CustomerExists, IsCustomer
<1>2. \A q \in Procs \ {p} : op[q] = "create" => target'[p] # target[q]
  <2>1. NoAccount \notin Accounts
    BY AccountsAssumption
  <2>2. \A q \in Procs : op[q] = "create" => target[q] \in Accounts
    BY RouteFacts
  <2> QED
    BY <2>1, <2>2 DEF HandlerInv, Holds
<1> QED
  BY <1>1, <1>2 DEF Spares

LEMMA QuietStep ==
  ASSUME TypeInv, HandlerInv, AccountInv, NEW p \in Procs, Still(p),
         UNCHANGED <<user, profile, role, defaults, numbers, raced>>, told \subseteq told',
         \A q \in Procs \ {p} : locks'[q] = locks[q], LocksDisjoint',
         \/ target'[p] = NoAccount /\ op'[p] = "none"
         \/ target'[p] = target[p] /\ op'[p] = op[p],
         Written(p)', Holds(p)', Alone(p)'
  PROVE  HandlerInv' /\ AccountInv'
<1>1. Spares(p)
  BY QuietSpares
<1>2. op'[p] # "none" => target'[p] \in Accounts
  BY RouteFacts
<1>3. ASSUME NEW q \in Procs \ {p}, target[q] = target'[p], target[q] \in Accounts
      PROVE  target[q] \in raced'
  <2>1. op[q] # "none"
    BY <1>3, RouteFacts, AccountsAssumption
  <2> QED
    BY <1>3, <2>1, AccountsAssumption DEF HandlerInv, RacedInv
<1>4. HandlerInv'
  BY <1>1, <1>2, <1>3, HandlersKept
<1> QED
  BY <1>4, AccountsKept

\* The locks, when p writes what nobody has locked, or lets go.
LEMMA LocksKept ==
  ASSUME TypeInv, LocksDisjoint, NEW p \in Procs, NEW D,
         \A q \in Procs \ {p} : D \cap locks[q] = {},
         locks' = [locks EXCEPT ![p] = D]
  PROVE  LocksDisjoint' /\ locks'[p] = D /\ \A q \in Procs \ {p} : locks'[q] = locks[q]
<1>1. locks'[p] = D /\ \A q \in Procs \ {p} : locks'[q] = locks[q]
  BY DEF TypeInv, TypeOK, TxTypeOK
<1> QED
  BY <1>1 DEF LocksDisjoint

-----------------------------------------------------------------------------
(* The steps that send a write to the database, or fail. *)

Safe == TypeInv /\ HandlerInv /\ AccountInv

LEMMA SessionLocks ==
  ASSUME TypeInv, LocksDisjoint, NEW p \in Procs, NEW D, SessionWriteAll(p, D)
  PROVE  /\ LocksDisjoint' /\ locks'[p] = locks[p] \cup D
         /\ \A q \in Procs \ {p} : locks'[q] = locks[q]
<1>1. locks' = [locks EXCEPT ![p] = locks[p] \cup D]
  BY DEF SessionWriteAll
<1>2. \A q \in Procs \ {p} : (locks[p] \cup D) \cap locks[q] = {}
  BY DEF SessionWriteAll, Conflict, LocksDisjoint
<1> QED
  BY <1>1, <1>2, LocksKept

LEMMA SessionLock ==
  ASSUME TypeInv, LocksDisjoint, NEW p \in Procs, NEW d, SessionWrite(p, d)
  PROVE  /\ LocksDisjoint' /\ locks'[p] = locks[p] \cup {d}
         /\ \A q \in Procs \ {p} : locks'[q] = locks[q]
<1>1. SessionWriteAll(p, {d})
  BY DEF SessionWrite, SessionWriteAll
<1> QED
  BY <1>1, SessionLocks

LEMMA NoLocks ==
  ASSUME LocksDisjoint, NEW p \in Procs, UNCHANGED locks
  PROVE  /\ LocksDisjoint' /\ locks'[p] = locks[p]
         /\ \A q \in Procs \ {p} : locks'[q] = locks[q]
BY DEF LocksDisjoint

\* A handler that goes on to s, its documents untouched, has this to keep.
LEMMA GotoStep ==
  ASSUME Safe, NEW p \in Procs, NEW s \in Points, Goto(p, s), op[p] # "none",
         UNCHANGED <<docVars, raced>>, LocksDisjoint', Written(p)', Alone(p)',
         \A q \in Procs \ {p} : locks'[q] = locks[q],
         op[p] = "update" =>
            /\ User(target[p]) \in locks'[p] => user[target[p]] # NoEmail
            /\ Profile(target[p]) \in locks'[p] => profile[target[p]] # NoEmail,
         s = "commit" => p \notin number,
         op[p] \in {"create", "update"} /\ IsCustomer(target[p]) /\ Profile(target[p]) \in locks'[p] =>
            \/ profile[target[p]] = email[p]
            \/ Index(email[p]) \in locks'[p] /\ ~CustomerExists(email[p])
  PROVE  HandlerInv' /\ AccountInv'
<1> DEFINE a == target[p]
           e == email[p]
<1>1. /\ Still(p) /\ pc'[p] = s /\ op'[p] = op[p] /\ target'[p] = a /\ email'[p] = e
      /\ p \in number' <=> p \in number
  BY GotoMoves DEF Safe
<1>2. UNCHANGED <<user, profile, role, defaults, numbers, told, raced>>
  BY DEF docVars
<1>3. Holds(p)'
  <2>1. op[p] = "create" =>
           /\ user'[a] = NoEmail /\ profile'[a] = NoEmail
           /\ \A q \in Procs \ {p} : target'[q] # a
    BY <1>1, <1>2 DEF Safe, HandlerInv, Holds, Still, Present
  <2>2. op[p] = "delete" /\ IsCustomer(a) => profile'[a] = NoEmail
    BY <1>1, <1>2 DEF Safe, HandlerInv, Holds, Present
  <2>3. CustomerExists(email[p])' <=> CustomerExists(e)
    BY <1>1, <1>2 DEF CustomerExists, IsCustomer
  <2>4. /\ IsCustomer(target[p])' <=> IsCustomer(a)
        /\ WroteUser(p)' <=> User(a) \in locks'[p]
        /\ WroteProfile(p)' <=> Profile(a) \in locks'[p]
    BY <1>1, <1>2 DEF IsCustomer, WroteUser, WroteProfile
  <2>5. op[p] \in {"create", "update"} /\ IsCustomer(a) /\ Profile(a) \in locks'[p] =>
           \/ profile'[a] = e
           \/ Index(e) \in locks'[p] /\ ~CustomerExists(email[p])'
    BY <1>2, <2>3
  <2>6. op[p] = "update" => /\ User(a) \in locks'[p] => user'[a] # NoEmail
                            /\ Profile(a) \in locks'[p] => profile'[a] # NoEmail
    BY <1>2
  <2>7. ~(p \in number' /\ pc'[p] = "commit")
    BY <1>1
  <2> HIDE DEF a, e
  <2> QED
    BY <1>1, <2>1, <2>2, <2>4, <2>5, <2>6, <2>7 DEF Holds, Present
<1> QED
  BY <1>1, <1>2, <1>3, QuietStep DEF Safe

LEMMA AbortStep ==
  ASSUME Safe, NEW p \in Procs, Abort(p), UNCHANGED <<docVars, raced>>
  PROVE  HandlerInv' /\ AccountInv'
<1>1. /\ Still(p) /\ op'[p] = "none" /\ target'[p] = NoAccount /\ p \notin number'
  BY LeaveMoves DEF Safe, Abort
<1>2. /\ LocksDisjoint' /\ locks'[p] = {}
      /\ \A q \in Procs \ {p} : locks'[q] = locks[q]
  BY LocksKept DEF Safe, HandlerInv, Abort, TxAbort
<1>3. Written(p)' /\ Holds(p)' /\ Alone(p)'
  BY <1>1, <1>2, IdleHolds
<1>4. UNCHANGED <<user, profile, role, defaults, numbers, raced>> /\ told \subseteq told'
  BY DEF docVars
<1>5. TypeInv /\ HandlerInv /\ AccountInv
  BY DEF Safe
<1> QED
  BY <1>1, <1>2, <1>3, <1>4, <1>5, QuietStep

\* Where p is, what it has written, and what it relies on.
LEMMA HandlerFacts ==
  ASSUME Safe, NEW p \in Procs
  PROVE  Route(p) /\ Written(p) /\ Holds(p) /\ Alone(p) /\ LocksDisjoint
BY DEF Safe, TypeInv, HandlerInv

LEMMA LookUpUserStep ==
  ASSUME Safe, NEW p \in Procs, LookUpUser(p)
  PROVE  HandlerInv' /\ AccountInv'
<1>1. CASE Abort(p)
  BY <1>1, AbortStep DEF LookUpUser
<1>2. CASE Goto(p, "insertUser") /\ UNCHANGED txVars
  <2>1. pc[p] = "lookup" /\ UNCHANGED <<docVars, raced>>
    BY DEF LookUpUser
  <2>2. op[p] = "create"
    BY <2>1, RouteFacts DEF Safe, StepsOf
  <2>3. /\ LocksDisjoint' /\ locks'[p] = locks[p]
        /\ \A q \in Procs \ {p} : locks'[q] = locks[q]
    BY <1>2, NoLocks, HandlerFacts DEF txVars
  <2>4. "insertUser" \in Points
    BY DEF Points
  <2>5. /\ pc'[p] = "insertUser" /\ op'[p] = "create" /\ target'[p] = target[p]
        /\ email'[p] = email[p]
    BY <1>2, <2>2, <2>4, GotoMoves DEF Safe
  <2>6. User(target[p]) \notin locks[p] /\ Profile(target[p]) \notin locks[p]
    BY <2>1, <2>2, HandlerFacts DEF Written, WroteUser, WroteProfile
  <2>7. Written(p)' /\ Alone(p)'
    BY <2>2, <2>3, <2>5, <2>6, HandlerFacts DEF Written, WroteUser, WroteProfile, Alone
  <2> QED
    BY <1>2, <2>1, <2>2, <2>3, <2>4, <2>6, <2>7, GotoStep
<1> QED
  BY <1>1, <1>2 DEF LookUpUser

LEMMA InsertUserStep ==
  ASSUME Safe, NEW p \in Procs, InsertUser(p)
  PROVE  HandlerInv' /\ AccountInv'
<1>1. /\ pc[p] = "insertUser" /\ Goto(p, "insertProfile") /\ UNCHANGED <<docVars, raced>>
      /\ SessionWrite(p, User(target[p]))
  BY DEF InsertUser, Then
<1>2. op[p] = "create"
  BY <1>1, RouteFacts DEF Safe, StepsOf
<1>3. /\ LocksDisjoint' /\ locks'[p] = locks[p] \cup {User(target[p])}
      /\ \A q \in Procs \ {p} : locks'[q] = locks[q]
  BY <1>1, SessionLock, HandlerFacts DEF Safe
<1>4. "insertProfile" \in Points
  BY DEF Points
<1>5. pc'[p] = "insertProfile" /\ op'[p] = "create" /\ target'[p] = target[p]
  BY <1>1, <1>2, <1>4, GotoMoves DEF Safe
<1>6. Profile(target[p]) \notin locks'[p]
  BY <1>1, <1>2, <1>3, HandlerFacts, DocTypes DEF Written, WroteProfile
<1>7. Written(p)' /\ Alone(p)'
  BY <1>2, <1>3, <1>5, <1>6, HandlerFacts DEF Written, WroteUser, WroteProfile, Alone
<1> QED
  BY <1>1, <1>2, <1>3, <1>4, <1>6, <1>7, GotoStep

LEMMA InsertProfileStep ==
  ASSUME Safe, NEW p \in Procs, InsertProfile(p)
  PROVE  HandlerInv' /\ AccountInv'
<1> DEFINE a == target[p]
           D == {Profile(a)} \cup (IF IsCustomer(a) THEN {Index(email[p])} ELSE {})
           s == AfterProfile(p)
<1>1. /\ pc[p] = "insertProfile" /\ Goto(p, s) /\ UNCHANGED <<docVars, raced>>
      /\ IsCustomer(a) => ~CustomerExists(email[p])
      /\ SessionWriteAll(p, D)
  BY DEF InsertProfile, Then
<1>2. op[p] = "create" /\ email[p] \in Emails
  BY <1>1, RouteFacts DEF Safe, StepsOf
<1>3. s \in {"defaults", "evc", "commit"} /\ (s = "evc" <=> p \in number)
  BY <1>1, AfterProfileRoute DEF Safe
<1> HIDE DEF s
<1>4. /\ LocksDisjoint' /\ locks'[p] = locks[p] \cup D
      /\ \A q \in Procs \ {p} : locks'[q] = locks[q]
  BY <1>1, SessionLocks, HandlerFacts DEF Safe
<1>5. s \in Points
  BY <1>3 DEF Points
<1>6. pc'[p] = s /\ op'[p] = "create" /\ target'[p] = target[p]
  BY <1>1, <1>2, <1>5, GotoMoves DEF Safe
<1>7. /\ User(a) \in locks[p]
      /\ locks[p] \subseteq {User(a), Profile(a)} \cup ({"index"} \X Emails)
  BY <1>1, <1>2, HandlerFacts DEF Written, WroteUser
<1>8. D \subseteq {Profile(a)} \cup ({"index"} \X Emails)
  BY <1>2 DEF Index
<1>9. Written(p)'
  BY <1>2, <1>3, <1>4, <1>6, <1>7, <1>8 DEF Written, WroteUser, WroteProfile
<1>10. Alone(p)'
  BY <1>6 DEF Alone
<1>11. /\ IsCustomer(target[p]) => Index(email[p]) \in locks'[p] /\ ~CustomerExists(email[p])
       /\ s = "commit" => p \notin number
  BY <1>1, <1>3, <1>4
<1> HIDE DEF a, D
<1> QED
  BY <1>1, <1>2, <1>4, <1>5, <1>9, <1>10, <1>11, GotoStep

LEMMA InsertDefaultsStep ==
  ASSUME Safe, NEW p \in Procs, InsertDefaults(p)
  PROVE  HandlerInv' /\ AccountInv'
<1>1. pc[p] = "defaults" /\ Goto(p, "commit") /\ UNCHANGED <<docVars, raced, txVars>>
  BY DEF InsertDefaults, Then
<1>2. op[p] = "create"
  BY <1>1, RouteFacts DEF Safe, StepsOf
<1>3. IsPortal(target[p]) /\ p \notin number
  BY <1>1, HandlerFacts DEF Route, IsPortal, IsCustomer
<1>4. /\ LocksDisjoint' /\ locks'[p] = locks[p]
      /\ \A q \in Procs \ {p} : locks'[q] = locks[q]
  BY <1>1, NoLocks, HandlerFacts DEF txVars
<1>5. "commit" \in Points
  BY DEF Points
<1>6. pc'[p] = "commit" /\ op'[p] = "create" /\ target'[p] = target[p]
  BY <1>1, <1>2, <1>5, GotoMoves DEF Safe
<1>7. Written(p)' /\ Alone(p)'
  BY <1>1, <1>2, <1>4, <1>6, HandlerFacts DEF Written, WroteUser, WroteProfile, Alone
<1> QED
  BY <1>1, <1>2, <1>3, <1>4, <1>5, <1>7, GotoStep DEF IsPortal, IsCustomer

LEMMA UpdateUserStep ==
  ASSUME Safe, NEW p \in Procs, UpdateUserEmail(p)
  PROVE  HandlerInv' /\ AccountInv'
<1> DEFINE a == target[p]
<1>1. /\ pc[p] = "updateUser" /\ Goto(p, "updateProfile") /\ UNCHANGED <<docVars, raced>>
  BY DEF UpdateUserEmail, Then
<1>2. op[p] = "update" /\ a \in Accounts
  BY <1>1, RouteFacts DEF Safe, StepsOf
<1>3. /\ LocksDisjoint'
      /\ locks'[p] = locks[p] \cup (IF user[a] # NoEmail THEN {User(a)} ELSE {})
      /\ \A q \in Procs \ {p} : locks'[q] = locks[q]
  <2>1. CASE user[a] # NoEmail
    BY <2>1, SessionLock, HandlerFacts DEF Safe, UpdateUserEmail
  <2>2. CASE user[a] = NoEmail
    <3>1. UNCHANGED locks
      BY <2>2 DEF UpdateUserEmail, SessionRead
    <3> QED
      BY <2>2, <3>1, NoLocks, HandlerFacts
  <2> QED
    BY <2>1, <2>2
<1>4. "updateProfile" \in Points
  BY DEF Points
<1>5. pc'[p] = "updateProfile" /\ op'[p] = "update" /\ target'[p] = a /\ email'[p] = email[p]
  BY <1>1, <1>2, <1>4, GotoMoves DEF Safe
<1>6. /\ User(a) \notin locks[p] /\ Profile(a) \notin locks[p] /\ Profile(a) \notin locks'[p]
      /\ locks[p] \subseteq {User(a), Profile(a)} \cup ({"index"} \X Emails)
  BY <1>1, <1>2, <1>3, HandlerFacts, DocTypes DEF Written, WroteUser, WroteProfile
<1>7. Written(p)'
  BY <1>3, <1>5, <1>6 DEF Written, WroteUser, WroteProfile
<1>8. Alone(p)'
  <2> SUFFICES ASSUME a \notin raced PROVE Alone(p)'
    BY <1>1, <1>5 DEF Alone
  <2>1. Present(profile, a)
    BY <1>2, HandlerFacts DEF Alone
  <2>2. user[a] # NoEmail
    BY <1>2, <2>1 DEF Safe, AccountInv, AccountsPaired, Present
  <2> QED
    BY <1>1, <1>3, <1>5, <2>1, <2>2 DEF Alone, WroteUser, Present, docVars
<1>9. User(a) \in locks'[p] => user[a] # NoEmail
  BY <1>3, <1>6
<1> QED
  BY <1>1, <1>2, <1>3, <1>4, <1>6, <1>7, <1>8, <1>9, GotoStep

LEMMA UpdateProfileStep ==
  ASSUME Safe, NEW p \in Procs, UpdateProfile(p)
  PROVE  HandlerInv' /\ AccountInv'
<1> DEFINE a == target[p]
           s == AfterProfile(p)
<1>1. /\ pc[p] = "updateProfile" /\ Goto(p, s) /\ UNCHANGED <<docVars, raced>>
  BY DEF UpdateProfile, Then
<1>2. op[p] = "update" /\ a \in Accounts /\ email[p] \in Emails
  BY <1>1, RouteFacts DEF Safe, StepsOf
<1>3. s \in {"evc", "commit"} /\ (s = "evc" <=> p \in number)
  BY <1>1, <1>2, AfterProfileRoute DEF Safe
<1> HIDE DEF s
<1>4. /\ User(a) \in locks[p] => user[a] # NoEmail
      /\ Profile(a) \notin locks[p]
      /\ locks[p] \subseteq {User(a), Profile(a)} \cup ({"index"} \X Emails)
  BY <1>1, <1>2, HandlerFacts DEF Written, WroteUser, WroteProfile, Holds, Present
<1>5. PICK D \in SUBSET ({Profile(a)} \cup ({"index"} \X Emails)) :
        /\ LocksDisjoint' /\ locks'[p] = locks[p] \cup D
        /\ \A q \in Procs \ {p} : locks'[q] = locks[q]
        /\ profile[a] = NoEmail => D = {}
        /\ profile[a] # NoEmail => Profile(a) \in D
        /\ profile[a] # NoEmail /\ IsCustomer(a) /\ profile[a] # email[p] =>
              Index(email[p]) \in D /\ ~CustomerExists(email[p])
  <2>1. CASE profile[a] = NoEmail
    <3>1. UNCHANGED locks
      BY <2>1 DEF UpdateProfile, SessionRead
    <3>2. /\ LocksDisjoint' /\ locks'[p] = locks[p] \cup {}
          /\ \A q \in Procs \ {p} : locks'[q] = locks[q]
      BY <3>1, NoLocks, HandlerFacts
    <3> QED
      BY <2>1, <3>2
  <2>2. CASE profile[a] # NoEmail
    <3> DEFINE keys == IF IsCustomer(a) /\ profile[a] # email[p]
                       THEN {Index(profile[a]), Index(email[p])} ELSE {}
               D == {Profile(a)} \cup keys
    <3>1. SessionWriteAll(p, D) /\ (keys # {} => ~CustomerExists(email[p]))
      BY <2>2 DEF UpdateProfile
    <3>2. profile[a] \in Emails
      BY <1>2, <2>2 DEF Safe, TypeInv, TypeOK
    <3>3. D \in SUBSET ({Profile(a)} \cup ({"index"} \X Emails))
      BY <1>2, <3>2 DEF Index
    <3>4. /\ Profile(a) \in D
          /\ IsCustomer(a) /\ profile[a] # email[p] =>
                Index(email[p]) \in D /\ ~CustomerExists(email[p])
      BY <3>1
    <3> HIDE DEF D
    <3>5. /\ LocksDisjoint' /\ locks'[p] = locks[p] \cup D
          /\ \A q \in Procs \ {p} : locks'[q] = locks[q]
      BY <3>1, SessionLocks, HandlerFacts DEF Safe
    <3> QED
      BY <2>2, <3>3, <3>4, <3>5
  <2> QED
    BY <2>1, <2>2
<1>6. s \in Points
  BY <1>3 DEF Points
<1>7. pc'[p] = s /\ op'[p] = "update" /\ target'[p] = a /\ email'[p] = email[p]
  BY <1>1, <1>2, <1>6, GotoMoves DEF Safe
<1>8. User(a) \in locks'[p] <=> User(a) \in locks[p]
  BY <1>5, DocTypes DEF User, Profile
<1>9. Written(p)'
  BY <1>2, <1>3, <1>4, <1>5, <1>7 DEF Written, WroteUser, WroteProfile
<1>10. Alone(p)'
  <2> SUFFICES ASSUME a \notin raced PROVE Alone(p)'
    BY <1>1, <1>7 DEF Alone
  <2>1. Present(profile, a) /\ (profile[a] = email[p] \/ User(a) \in locks[p])
    BY <1>1, <1>2, HandlerFacts DEF Alone, WroteUser
  <2>2. User(a) \in locks[p] => User(a) \in locks'[p]
    BY <1>8
  <2>3. Profile(a) \in locks'[p]
    BY <1>5, <2>1 DEF Present
  <2> QED
    BY <1>1, <1>7, <2>1, <2>2, <2>3 DEF Alone, WroteUser, WroteProfile, Present, docVars
<1>11. Profile(a) \in locks'[p] => profile[a] # NoEmail
  BY <1>4, <1>5
<1>12. IsCustomer(a) /\ Profile(a) \in locks'[p] =>
          \/ profile[a] = email[p]
          \/ Index(email[p]) \in locks'[p] /\ ~CustomerExists(email[p])
  BY <1>5, <1>11
<1> QED
  BY <1>1, <1>2, <1>3, <1>4, <1>5, <1>6, <1>8, <1>9, <1>10, <1>11, <1>12, GotoStep

LEMMA RemoveStep ==
  ASSUME Safe, NEW p \in Procs, RemoveProfile(p) \/ RemoveUser(p)
  PROVE  HandlerInv' /\ AccountInv'
<1> DEFINE a == target[p]
<1>1. PICK s \in {"removeUser", "commit"} :
        /\ pc[p] = (IF s = "commit" THEN "removeUser" ELSE "removeProfile")
        /\ Goto(p, s) /\ UNCHANGED <<docVars, raced>>
        /\ SessionWrite(p, IF s = "commit" THEN User(a) ELSE Profile(a))
  BY DEF RemoveProfile, RemoveUser, Then
<1>2. op[p] = "delete" /\ p \notin number
  BY <1>1, RouteFacts DEF Safe, StepsOf
<1>3. /\ LocksDisjoint'
      /\ locks'[p] = locks[p] \cup {IF s = "commit" THEN User(a) ELSE Profile(a)}
      /\ \A q \in Procs \ {p} : locks'[q] = locks[q]
  BY <1>1, SessionLock, HandlerFacts DEF Safe
<1>4. s \in Points
  BY DEF Points
<1>5. pc'[p] = s /\ op'[p] = "delete" /\ target'[p] = a
  BY <1>1, <1>2, <1>4, GotoMoves DEF Safe
<1>6. /\ User(a) \notin locks[p]
      /\ Profile(a) \in locks[p] <=> IsEmployee(a) /\ s = "commit"
      /\ s # "commit" => IsEmployee(a)
      /\ locks[p] \subseteq {User(a), Profile(a)} \cup ({"index"} \X Emails)
  BY <1>1, <1>2, HandlerFacts DEF Written, WroteUser, WroteProfile, Route
<1>7. /\ User(a) \in locks'[p] <=> s = "commit"
      /\ Profile(a) \in locks'[p] <=> IsEmployee(a)
      /\ locks'[p] \subseteq {User(a), Profile(a)} \cup ({"index"} \X Emails)
  BY <1>3, <1>6 DEF User, Profile
<1>8. IsEmployee(target[p])' <=> IsEmployee(a)
  BY <1>1, <1>5 DEF IsEmployee, docVars
<1>9. Written(p)' /\ Alone(p)'
  BY <1>5, <1>7, <1>8 DEF Written, WroteUser, WroteProfile, Alone
<1> QED
  BY <1>1, <1>2, <1>3, <1>4, <1>9, GotoStep

LEMMA AddEvcCustomerStep ==
  ASSUME Safe, NEW p \in Procs, AddEvcCustomer(p)
  PROVE  HandlerInv' /\ AccountInv'
<1> DEFINE a == target[p]
<1>1. /\ pc[p] = "evc" /\ told' = told \cup {a} /\ Goto(p, "commit")
      /\ UNCHANGED <<user, profile, role, defaults, numbers, locks, raced>>
  BY DEF AddEvcCustomer, txVars
<1>2. op[p] \in {"create", "update"}
  BY <1>1, RouteFacts DEF Safe, StepsOf
<1>3. /\ LocksDisjoint' /\ locks'[p] = locks[p]
      /\ \A q \in Procs \ {p} : locks'[q] = locks[q]
  BY <1>1, NoLocks, HandlerFacts
<1>4. /\ Still(p) /\ pc'[p] = "commit" /\ op'[p] = op[p] /\ target'[p] = a
      /\ email'[p] = email[p]
  BY <1>1, GotoMoves DEF Safe, Points
<1>5. Written(p)' /\ Alone(p)'
  BY <1>1, <1>2, <1>3, <1>4, HandlerFacts
     DEF Written, WroteUser, WroteProfile, Alone, Present
<1>6. Holds(p)'
  <2>1. \A q \in Procs \ {p} : target'[q] = target[q]
    BY <1>4 DEF Still
  <2>2. CustomerExists(email[p])' <=> CustomerExists(email[p])
    BY <1>1, <1>4 DEF CustomerExists, IsCustomer
  <2>3. IsCustomer(target[p])' <=> IsCustomer(a)
    BY <1>1, <1>4 DEF IsCustomer
  <2>4. /\ WroteUser(p)' <=> WroteUser(p)
        /\ WroteProfile(p)' <=> WroteProfile(p)
    BY <1>3, <1>4 DEF WroteUser, WroteProfile
  <2>5. target'[p] \in told'
    BY <1>1, <1>4
  <2> QED
    BY <1>1, <1>2, <1>3, <1>4, <2>1, <2>2, <2>3, <2>4, <2>5, HandlerFacts DEF Holds, Present
<1>7. TypeInv /\ HandlerInv /\ AccountInv /\ told \subseteq told'
  BY <1>1 DEF Safe
<1> QED
  BY <1>1, <1>3, <1>4, <1>5, <1>6, <1>7, QuietStep

LEMMA EndStep ==
  ASSUME Safe, NEW p \in Procs,
         DuplicateKey(p) \/ AddressTaken(p) \/ WriteConflict(p) \/ Fail(p)
  PROVE  HandlerInv' /\ AccountInv'
<1>1. Abort(p) /\ UNCHANGED <<docVars, raced>>
  BY DEF DuplicateKey, AddressTaken, WriteConflict, Fail
<1> QED
  BY <1>1, AbortStep

-----------------------------------------------------------------------------
(* Requests. *)

\* An account that was never begun is nobody's, and has no documents.
LEMMA CreateStep ==
  ASSUME Safe, NEW p \in Procs, NEW a \in Accounts, NEW e \in Emails, NEW n \in BOOLEAN,
         NEW r \in Roles, Create(p, a, r, e, n)
  PROVE  HandlerInv' /\ AccountInv'
<1>1. /\ role[a] = "none" /\ role' = [role EXCEPT ![a] = r]
      /\ Take(p, "create", a, e, n, "lookup")
      /\ UNCHANGED <<user, profile, defaults, numbers, told, locks>>
  BY DEF Create, txVars
<1>2. "lookup" \in Points
  BY DEF Points
<1>3. /\ Still(p) /\ op[p] = "none"
      /\ pc'[p] = "lookup" /\ op'[p] = "create" /\ target'[p] = a /\ email'[p] = e
      /\ raced \subseteq raced' /\ ((\E q \in Procs : target[q] = a) => a \in raced')
  BY <1>1, <1>2, TakeMoves DEF Safe
<1>4. user[a] = NoEmail /\ profile[a] = NoEmail
  BY <1>1 DEF Safe, AccountInv, UnbornInv, Present
<1>5. /\ \A b \in Accounts \ {a} : role'[b] = role[b]
      /\ role'[a] = r /\ r # "none"
  BY <1>1 DEF Safe, TypeInv, TypeOK, Roles
<1>6. \A q \in Procs : op[q] # "none" => target[q] \in Accounts \ {a}
  BY <1>1, RouteFacts DEF Safe
<1>7. \A q \in Procs : target[q] # a
  <2>1. \A q \in Procs : op[q] = "none" => target[q] # a
    BY RouteFacts, AccountsAssumption DEF Safe
  <2> QED
    BY <1>6, <2>1
<1>8. /\ LocksDisjoint' /\ locks'[p] = {}
      /\ \A q \in Procs \ {p} : locks'[q] = locks[q]
  BY <1>1, <1>3, NoLocks, HandlerFacts DEF Written
<1>9. \A x \in Emails : CustomerExists(x)' => CustomerExists(x)
  <2> SUFFICES ASSUME NEW x \in Emails, NEW b \in Accounts, role'[b] = "customer", profile'[b] = x
               PROVE  CustomerExists(x)
    BY DEF CustomerExists, IsCustomer
  <2>1. b # a
    BY <1>1, <1>4, AccountsAssumption
  <2> QED
    BY <1>1, <1>5, <2>1 DEF CustomerExists, IsCustomer
<1>10. Spares(p)
  BY <1>1, <1>3, <1>5, <1>6, <1>8, <1>9 DEF Spares
<1>11. Written(p)' /\ Alone(p)'
  BY <1>3, <1>8 DEF Written, Alone, WroteUser, WroteProfile
<1>12. Holds(p)'
  <2>1. \A q \in Procs \ {p} : target'[q] # target'[p]
    BY <1>3, <1>7 DEF Still
  <2>2. ~WroteProfile(p)'
    BY <1>8 DEF WroteProfile
  <2> QED
    BY <1>1, <1>3, <1>4, <2>1, <2>2 DEF Holds, Present
<1>13. HandlerInv'
  BY <1>3, <1>7, <1>8, <1>10, <1>11, <1>12, HandlersKept DEF Safe
<1>14. AccountInv'
  <2>1. UnbornInv'
    BY <1>1, <1>5 DEF Safe, AccountInv, UnbornInv, Present
  <2>2. AccountsPaired'
    BY <1>1, <1>4, <1>5 DEF Safe, AccountInv, AccountsPaired, Present, IsCustomer, IsPortal
  <2>3. UniqueInv'
    BY <1>1, <1>4, <1>5 DEF Safe, AccountInv, UniqueInv, Present, IsCustomer
  <2>4. SameInv'
    BY <1>1, <1>3, <1>4, <1>5 DEF Safe, AccountInv, SameInv, Present, IsCustomer
  <2> QED
    BY <2>1, <2>2, <2>3, <2>4 DEF AccountInv
<1> QED
  BY <1>13, <1>14

\* A request about an account there is: what it takes is free of creations.
LEMMA TakeSpares ==
  ASSUME Safe, NEW p \in Procs, NEW a \in Accounts, profile[a] # NoEmail,
         target'[p] = a, UNCHANGED <<user, profile, role, told, locks>>, raced \subseteq raced'
  PROVE  Spares(p)
<1>1. \A q \in Procs \ {p} : op[q] = "create" => target[q] # a
  BY HandlerFacts DEF Holds, Present
<1>2. \A x \in Emails : CustomerExists(x)' => CustomerExists(x)
  BY DEF CustomerExists, IsCustomer
<1> QED
  BY <1>1, <1>2 DEF Spares

LEMMA UpdateStep ==
  ASSUME Safe, NEW p \in Procs, NEW a \in Accounts, NEW e \in Emails, NEW n \in BOOLEAN,
         Update(p, a, e, n)
  PROVE  HandlerInv' /\ AccountInv'
<1>1. PICK s \in {"updateUser", "updateProfile"} :
        /\ profile[a] # NoEmail
        /\ s # "updateUser" => profile[a] = e
        /\ Take(p, "update", a, e, n, s)
        /\ UNCHANGED <<user, profile, role, defaults, numbers, told, locks>>
  BY DEF Update, docVars, txVars
<1>2. s \in Points
  BY DEF Points
<1>3. /\ Still(p) /\ op[p] = "none"
      /\ pc'[p] = s /\ op'[p] = "update" /\ target'[p] = a /\ email'[p] = e
      /\ raced \subseteq raced' /\ ((\E q \in Procs : target[q] = a) => a \in raced')
  BY <1>1, <1>2, TakeMoves DEF Safe
<1>4. /\ LocksDisjoint' /\ locks'[p] = {}
      /\ \A q \in Procs \ {p} : locks'[q] = locks[q]
  BY <1>1, <1>3, NoLocks, HandlerFacts DEF Written
<1>5. ~WroteUser(p)' /\ ~WroteProfile(p)'
  BY <1>4 DEF WroteUser, WroteProfile
<1>6. Written(p)' /\ Alone(p)' /\ Holds(p)'
  BY <1>1, <1>3, <1>4, <1>5 DEF Written, Alone, Holds, Present
<1>7. Spares(p)
  BY <1>1, <1>3, TakeSpares
<1>8. HandlerInv'
  BY <1>3, <1>4, <1>6, <1>7, HandlersKept DEF Safe
<1>9. AccountInv'
  BY <1>1, <1>3, AccountsKept DEF Safe
<1> QED
  BY <1>8, <1>9

LEMMA DeleteEmployeeStep ==
  ASSUME Safe, NEW p \in Procs, NEW a \in Accounts, DeleteEmployee(p, a)
  PROVE  HandlerInv' /\ AccountInv'
<1>1. /\ profile[a] # NoEmail /\ role[a] = "employee"
      /\ Take(p, "delete", a, NoEmail, FALSE, "removeProfile")
      /\ UNCHANGED <<user, profile, role, defaults, numbers, told, locks>>
  BY DEF DeleteEmployee, docVars, txVars, IsEmployee
<1>2. "removeProfile" \in Points
  BY DEF Points
<1>3. /\ Still(p) /\ op[p] = "none"
      /\ pc'[p] = "removeProfile" /\ op'[p] = "delete" /\ target'[p] = a
      /\ p \notin number'
      /\ raced \subseteq raced' /\ ((\E q \in Procs : target[q] = a) => a \in raced')
  BY <1>1, <1>2, TakeMoves DEF Safe
<1>4. /\ LocksDisjoint' /\ locks'[p] = {}
      /\ \A q \in Procs \ {p} : locks'[q] = locks[q]
  BY <1>1, <1>3, NoLocks, HandlerFacts DEF Written
<1>5. ~WroteUser(p)' /\ ~WroteProfile(p)' /\ ~IsCustomer(target[p])'
  BY <1>1, <1>3, <1>4 DEF WroteUser, WroteProfile, IsCustomer
<1>6. Written(p)' /\ Alone(p)' /\ Holds(p)'
  BY <1>1, <1>3, <1>4, <1>5 DEF Written, Alone, Holds, Present
<1>7. Spares(p)
  BY <1>1, <1>3, TakeSpares
<1>8. HandlerInv'
  BY <1>3, <1>4, <1>6, <1>7, HandlersKept DEF Safe
<1>9. AccountInv'
  BY <1>1, <1>3, AccountsKept DEF Safe
<1> QED
  BY <1>8, <1>9

\* The profile goes at once; nobody's transaction has written it.
LEMMA DeleteCustomerStep ==
  ASSUME Safe, NEW p \in Procs, NEW a \in Accounts, DeleteCustomer(p, a)
  PROVE  HandlerInv' /\ AccountInv'
<1>1. /\ profile[a] # NoEmail /\ role[a] = "customer" /\ Free(Profile(a))
      /\ profile' = [profile EXCEPT ![a] = NoEmail]
      /\ Take(p, "delete", a, NoEmail, FALSE, "removeUser")
      /\ UNCHANGED <<user, role, defaults, numbers, told, locks>>
  BY DEF DeleteCustomer, PlainWriteAll, IsCustomer
<1>2. "removeUser" \in Points
  BY DEF Points
<1>3. /\ Still(p) /\ op[p] = "none"
      /\ pc'[p] = "removeUser" /\ op'[p] = "delete" /\ target'[p] = a
      /\ p \notin number'
      /\ raced \subseteq raced' /\ ((\E q \in Procs : target[q] = a) => a \in raced')
  BY <1>1, <1>2, TakeMoves DEF Safe
<1>4. /\ LocksDisjoint' /\ locks'[p] = {}
      /\ \A q \in Procs \ {p} : locks'[q] = locks[q]
  BY <1>1, <1>3, NoLocks, HandlerFacts DEF Written
<1>5. profile'[a] = NoEmail /\ \A b \in Accounts \ {a} : profile'[b] = profile[b]
  BY <1>1 DEF Safe, TypeInv, TypeOK
<1>6. /\ ~WroteUser(p)' /\ ~WroteProfile(p)'
      /\ ~IsEmployee(target[p])' /\ ~Present(profile, target[p])'
  BY <1>1, <1>3, <1>4, <1>5 DEF WroteUser, WroteProfile, IsEmployee, Present
<1>7. Written(p)' /\ Alone(p)' /\ Holds(p)'
  BY <1>3, <1>4, <1>6 DEF Written, Alone, Holds
<1>8. Spares(p)
  <2>1. \A q \in Procs \ {p} : op[q] = "create" => target[q] # a
    BY <1>1, HandlerFacts DEF Holds, Present
  <2>2. \A q \in Procs : WroteProfile(q) => target[q] # a
    BY <1>1 DEF WroteProfile, Free
  <2>3. \A q \in Procs : op[q] # "none" => target[q] \in Accounts
    BY RouteFacts DEF Safe
  <2>4. \A x \in Emails : CustomerExists(x)' => CustomerExists(x)
    BY <1>1, <1>5, AccountsAssumption DEF CustomerExists, IsCustomer
  <2>5. \A q \in Procs \ {p} : op[q] # "none" =>
           /\ profile[target[q]] = NoEmail => profile'[target[q]] = NoEmail
           /\ WroteProfile(q) => profile'[target[q]] = profile[target[q]]
           /\ target[q] \notin raced' => profile'[target[q]] = profile[target[q]]
    BY <1>3, <1>5, <2>2, <2>3
  <2> QED
    BY <1>1, <1>3, <1>4, <2>1, <2>4, <2>5 DEF Spares
<1>9. HandlerInv'
  BY <1>3, <1>4, <1>7, <1>8, HandlersKept DEF Safe
<1>10. AccountInv'
  <2>1. UnbornInv'
    BY <1>1, <1>5 DEF Safe, AccountInv, UnbornInv, Present
  <2>2. AccountsPaired'
    BY <1>1, <1>5 DEF Safe, AccountInv, AccountsPaired, Present, IsCustomer, IsPortal
  <2>3. UniqueInv'
    BY <1>1, <1>5 DEF Safe, AccountInv, UniqueInv, Present, IsCustomer
  <2>4. SameInv'
    BY <1>1, <1>3, <1>5 DEF Safe, AccountInv, SameInv, Present, IsCustomer
  <2> QED
    BY <2>1, <2>2, <2>3, <2>4 DEF AccountInv
<1> QED
  BY <1>9, <1>10

-----------------------------------------------------------------------------
(* The commit. *)

\* What a commit writes.
LEMMA CommitWrites ==
  ASSUME Safe, NEW p \in Procs, Commit(p)
  PROVE  LET a == target[p]
             value == IF op[p] = "delete" THEN NoEmail ELSE email[p] IN
         /\ pc[p] = "commit" /\ op[p] \in {"create", "update", "delete"} /\ a \in Accounts
         /\ op[p] # "delete" => email[p] # NoEmail /\ email[p] \in Emails
         /\ \A b \in Accounts \ {a} : user'[b] = user[b] /\ profile'[b] = profile[b]
         /\ user'[a] = IF WroteUser(p) THEN value ELSE user[a]
         /\ profile'[a] = IF WroteProfile(p) THEN value ELSE profile[a]
         /\ numbers' \subseteq numbers \cup (IF p \in number THEN {a} ELSE {})
         /\ defaults \subseteq defaults' /\ (op[p] = "create" /\ IsPortal(a) => a \in defaults')
         /\ UNCHANGED <<role, told, raced>>
<1>1. pc[p] = "commit"
  BY DEF Commit
<1>2. op[p] \in {"create", "update", "delete"}
  BY <1>1, RouteFacts DEF Safe, StepsOf
<1>3. target[p] \in Accounts
  BY <1>2, RouteFacts DEF Safe
<1>4. op[p] # "delete" => email[p] # NoEmail /\ email[p] \in Emails
  BY <1>2, RouteFacts, AccountsAssumption DEF Safe
<1> QED
  BY <1>1, <1>2, <1>3, <1>4 DEF Commit, WroteUser, WroteProfile, Safe, TypeInv, TypeOK

\* What the others work on is not what p has written, or they have raced.
LEMMA CommitSpares ==
  ASSUME Safe, NEW p \in Procs, Commit(p)
  PROVE  Spares(p)
<1> DEFINE a == target[p]
           value == IF op[p] = "delete" THEN NoEmail ELSE email[p]
<1>1. /\ pc[p] = "commit" /\ op[p] \in {"create", "update", "delete"} /\ a \in Accounts
      /\ op[p] # "delete" => email[p] # NoEmail /\ email[p] \in Emails
      /\ \A b \in Accounts \ {a} : user'[b] = user[b] /\ profile'[b] = profile[b]
      /\ user'[a] = IF WroteUser(p) THEN value ELSE user[a]
      /\ profile'[a] = IF WroteProfile(p) THEN value ELSE profile[a]
      /\ UNCHANGED <<role, told, raced>>
  BY CommitWrites
<1>2. \A q \in Procs \ {p} : locks'[q] = locks[q]
  BY LocksKept, HandlerFacts DEF Commit, TxCommit, Safe
<1>3. target'[p] = NoAccount
  BY LeaveMoves DEF Commit, Safe
<1>4. ASSUME NEW q \in Procs \ {p}, op[q] # "none"
      PROVE  target[q] \in Accounts /\ target[q] # NoAccount
  BY <1>4, RouteFacts, AccountsAssumption DEF Safe
<1>5. ASSUME NEW q \in Procs \ {p}, op[q] # "none", target[q] = a
      PROVE  /\ op[q] # "create" /\ op[p] # "create" /\ a \in raced
             /\ profile[a] = NoEmail => profile'[a] = NoEmail
             /\ WroteUser(q) => user'[a] = user[a]
             /\ WroteProfile(q) => profile'[a] = profile[a]
  <2>1. op[q] # "create" /\ op[p] # "create"
    BY <1>5, HandlerFacts DEF Holds
  <2>2. a \in raced
    BY <1>5 DEF Safe, HandlerInv, RacedInv
  <2>3. (WroteUser(q) => ~WroteUser(p)) /\ (WroteProfile(q) => ~WroteProfile(p))
    BY <1>5, HandlerFacts DEF WroteUser, WroteProfile, LocksDisjoint
  <2>4. op[p] = "update" /\ WroteProfile(p) => profile[a] # NoEmail
    BY HandlerFacts DEF Holds, Present
  <2> QED
    BY <1>1, <2>1, <2>2, <2>3, <2>4
<1>6. ASSUME NEW q \in Procs \ {p}, NEW e \in Emails, Index(e) \in locks[q], CustomerExists(e)'
      PROVE  CustomerExists(e)
  <2>1. PICK b \in Accounts : IsCustomer(b) /\ profile'[b] = e
    BY <1>1, <1>6 DEF CustomerExists, IsCustomer
  <2>2. CASE profile[b] = e
    BY <2>1, <2>2 DEF CustomerExists
  <2>3. CASE profile[b] # e
    <3>1. b = a /\ WroteProfile(p) /\ e = value
      BY <1>1, <2>1, <2>3
    <3>2. op[p] # "delete" /\ e = email[p]
      BY <3>1, AccountsAssumption
    <3>3. Index(e) \notin locks[p]
      BY <1>6, HandlerFacts DEF LocksDisjoint
    <3>4. profile[a] = email[p]
      BY <1>1, <2>1, <3>1, <3>2, <3>3, HandlerFacts DEF Holds
    <3> QED
      BY <2>1, <3>1, <3>2, <3>4 DEF CustomerExists
  <2> QED
    BY <2>2, <2>3
<1>7. ASSUME NEW q \in Procs \ {p}, op[q] # "none"
      PROVE  LET t == target[q] IN
             /\ op[q] = "create" /\ user[t] = NoEmail => user'[t] = NoEmail
             /\ profile[t] = NoEmail => profile'[t] = NoEmail
             /\ WroteUser(q) => user'[t] = user[t]
             /\ WroteProfile(q) => profile'[t] = profile[t]
             /\ t \notin raced' => profile'[t] = profile[t]
  <2>1. CASE target[q] = a
    BY <1>1, <1>5, <1>7, <2>1
  <2>2. CASE target[q] # a
    BY <1>1, <1>4, <1>7, <2>2
  <2> QED
    BY <2>1, <2>2
<1> HIDE DEF a, value
<1> QED
  BY <1>1, <1>2, <1>3, <1>4, <1>6, <1>7 DEF Spares

\* What a handler has written when it commits: both documents or neither, unless it
\* raced with another, or a customer's profile was gone before.
LEMMA CommitAccounts ==
  ASSUME Safe, NEW p \in Procs, Commit(p)
  PROVE  AccountInv'
<1> DEFINE a == target[p]
           value == IF op[p] = "delete" THEN NoEmail ELSE email[p]
<1>1. /\ pc[p] = "commit" /\ op[p] \in {"create", "update", "delete"} /\ a \in Accounts
      /\ op[p] # "delete" => email[p] # NoEmail /\ email[p] \in Emails
      /\ \A b \in Accounts \ {a} : user'[b] = user[b] /\ profile'[b] = profile[b]
      /\ user'[a] = IF WroteUser(p) THEN value ELSE user[a]
      /\ profile'[a] = IF WroteProfile(p) THEN value ELSE profile[a]
      /\ numbers' \subseteq numbers \cup (IF p \in number THEN {a} ELSE {})
      /\ defaults \subseteq defaults' /\ (op[p] = "create" /\ IsPortal(a) => a \in defaults')
      /\ UNCHANGED <<role, told, raced>>
  BY CommitWrites
<1>2. role[a] # "none"
  BY <1>1, RouteFacts DEF Safe
<1>3. /\ profile[a] # NoEmail => user[a] # NoEmail
      /\ user[a] # NoEmail /\ ~IsCustomer(a) => profile[a] # NoEmail
      /\ profile[a] # NoEmail /\ IsPortal(a) => a \in defaults
      /\ IsCustomer(a) /\ profile[a] # NoEmail /\ a \notin raced => user[a] = profile[a]
  BY <1>1 DEF Safe, AccountInv, AccountsPaired, SameInv, Present
<1>4. /\ profile'[a] # NoEmail => user'[a] # NoEmail
      /\ user'[a] # NoEmail /\ ~IsCustomer(a) => profile'[a] # NoEmail
      /\ profile'[a] # NoEmail /\ IsPortal(a) => a \in defaults'
      /\ IsCustomer(a) /\ profile'[a] # NoEmail /\ a \notin raced => user'[a] = profile'[a]
  <2>1. CASE op[p] = "create"
    <3>1. user'[a] = email[p] /\ profile'[a] = email[p]
      BY <1>1, <2>1, HandlerFacts DEF Written
    <3> QED
      BY <1>1, <2>1, <3>1
  <2>2. CASE op[p] = "update"
    <3>1. /\ WroteUser(p) => user[a] # NoEmail
          /\ WroteProfile(p) => profile[a] # NoEmail
      BY <2>2, HandlerFacts DEF Holds, Present
    <3>2. a \notin raced =>
             WroteProfile(p) /\ (profile[a] = email[p] \/ WroteUser(p))
      BY <1>1, <2>2, HandlerFacts DEF Alone
    <3> QED
      BY <1>1, <1>3, <2>2, <3>1, <3>2
  <2>3. CASE op[p] = "delete"
    <3>1. user'[a] = NoEmail
      BY <1>1, <2>3, HandlerFacts DEF Written
    <3>2. profile'[a] = NoEmail
      <4>1. CASE IsCustomer(a)
        BY <1>1, <2>3, <4>1, HandlerFacts DEF Holds, Present
      <4>2. CASE IsEmployee(a)
        BY <1>1, <2>3, <4>2, HandlerFacts DEF Written
      <4> QED
        BY <2>3, <4>1, <4>2, HandlerFacts DEF Route
    <3> QED
      BY <3>1, <3>2
  <2> QED
    BY <1>1, <2>1, <2>2, <2>3
<1>5. ASSUME IsCustomer(a), profile'[a] # NoEmail, NEW b \in Accounts \ {a}, IsCustomer(b)
      PROVE  profile'[a] # profile[b]
  <2>1. CASE profile'[a] = profile[a]
    BY <1>1, <1>5, <2>1 DEF Safe, AccountInv, UniqueInv, Present
  <2>2. CASE profile'[a] # profile[a]
    <3>1. WroteProfile(p) /\ op[p] # "delete" /\ profile'[a] = email[p]
      BY <1>1, <1>5, <2>2
    <3>2. ~CustomerExists(email[p])
      BY <1>1, <1>5, <2>2, <3>1, HandlerFacts DEF Holds
    <3> QED
      BY <1>5, <3>1, <3>2 DEF CustomerExists
  <2> QED
    BY <2>1, <2>2
<1>6. p \in number => a \in told
  BY <1>1, HandlerFacts DEF Holds
<1> HIDE DEF a, value
<1>7. UnbornInv'
  BY <1>1, <1>2 DEF Safe, AccountInv, UnbornInv, Present
<1>8. AccountsPaired'
  <2>1. numbers' \subseteq told'
    BY <1>1, <1>6 DEF Safe, AccountInv, AccountsPaired
  <2>2. \A b \in Accounts :
           /\ profile'[b] # NoEmail => user'[b] # NoEmail
           /\ user'[b] # NoEmail /\ role[b] # "customer" => profile'[b] # NoEmail
           /\ profile'[b] # NoEmail /\ role[b] = "admin" => b \in defaults'
    BY <1>1, <1>4 DEF Safe, AccountInv, AccountsPaired, Present, IsCustomer, IsPortal
  <2> QED
    BY <1>1, <2>1, <2>2 DEF AccountsPaired, Present, IsCustomer, IsPortal
<1>9. UniqueInv'
  <2> SUFFICES ASSUME NEW b \in Accounts, NEW c \in Accounts,
                      role[b] = "customer", role[c] = "customer", b # c, profile'[b] # NoEmail
               PROVE  profile'[b] # profile'[c]
    BY <1>1 DEF UniqueInv, Present, IsCustomer
  <2>1. CASE b = a
    BY <1>1, <1>5, <2>1 DEF IsCustomer
  <2>2. CASE c = a
    BY <1>1, <1>5, <2>2 DEF IsCustomer
  <2>3. CASE b # a /\ c # a
    BY <1>1, <2>3 DEF Safe, AccountInv, UniqueInv, Present, IsCustomer
  <2> QED
    BY <2>1, <2>2, <2>3
<1>10. SameInv'
  <2>1. \A b \in Accounts :
           role[b] = "customer" /\ profile'[b] # NoEmail /\ b \notin raced => user'[b] = profile'[b]
    BY <1>1, <1>4 DEF Safe, AccountInv, SameInv, Present, IsCustomer
  <2> QED
    BY <1>1, <2>1 DEF SameInv, Present, IsCustomer
<1> QED
  BY <1>7, <1>8, <1>9, <1>10 DEF AccountInv

LEMMA CommitStep ==
  ASSUME Safe, NEW p \in Procs, Commit(p)
  PROVE  HandlerInv' /\ AccountInv'
<1>1. /\ Still(p) /\ op'[p] = "none" /\ target'[p] = NoAccount /\ p \notin number'
  BY LeaveMoves DEF Safe, Commit
<1>2. LocksDisjoint' /\ locks'[p] = {}
  BY LocksKept DEF Safe, HandlerInv, Commit, TxCommit
<1>3. Written(p)' /\ Holds(p)' /\ Alone(p)'
  BY <1>1, <1>2, IdleHolds
<1>4. HandlerInv'
  BY <1>1, <1>2, <1>3, CommitSpares, HandlersKept, AccountsAssumption DEF Safe
<1> QED
  BY <1>4, CommitAccounts

LEMMA CrashStep == Safe /\ Crash => HandlerInv' /\ AccountInv'
<1> SUFFICES ASSUME Safe, Crash PROVE HandlerInv' /\ AccountInv'
  OBVIOUS
<1>1. \A q \in Procs : /\ op'[q] = "none" /\ target'[q] = NoAccount /\ q \notin number'
                       /\ locks'[q] = {}
  BY DEF Crash, TxCrash
<1>2. \A q \in Procs : Written(q)' /\ Holds(q)' /\ Alone(q)'
  BY <1>1, IdleHolds
<1>3. RacedInv' /\ LocksDisjoint'
  BY <1>1 DEF RacedInv, LocksDisjoint
<1>4. AccountInv'
  BY AccountsKept DEF Safe, Crash, docVars
<1> QED
  BY <1>2, <1>3, <1>4 DEF HandlerInv

LEMMA StutterStep == Safe /\ UNCHANGED vars => HandlerInv' /\ AccountInv'
<1> SUFFICES ASSUME Safe, UNCHANGED vars PROVE HandlerInv' /\ AccountInv'
  OBVIOUS
<1>1. UNCHANGED <<user, profile, role, defaults, numbers, told, locks, pc, op, target, email,
                  number, raced>>
  BY DEF vars, docVars, procVars, txVars
<1>2. \A p \in Procs : Written(p)'
  BY <1>1 DEF Safe, HandlerInv, Written, WroteUser, WroteProfile, IsEmployee
<1>3. \A p \in Procs : Holds(p)'
  BY <1>1 DEF Safe, HandlerInv, Holds, WroteUser, WroteProfile, IsCustomer, Present,
              CustomerExists
<1>4. \A p \in Procs : Alone(p)'
  BY <1>1 DEF Safe, HandlerInv, Alone, WroteUser, WroteProfile, Present
<1>5. RacedInv' /\ LocksDisjoint'
  BY <1>1 DEF Safe, HandlerInv, RacedInv, LocksDisjoint
<1>6. AccountInv'
  BY <1>1, AccountsKept DEF Safe
<1> QED
  BY <1>2, <1>3, <1>4, <1>5, <1>6 DEF HandlerInv

-----------------------------------------------------------------------------
(* The theorems. *)

LEMMA InitSafe == Init => Safe
<1> SUFFICES ASSUME Init PROVE Safe
  OBVIOUS
<1>1. TypeInv
  BY InitTypes
<1>2. \A p \in Procs : Written(p) /\ Holds(p) /\ Alone(p)
  BY DEF Init, TxInit, Written, Holds, Alone, WroteUser, WroteProfile
<1>3. LocksDisjoint /\ RacedInv
  BY DEF Init, TxInit, LocksDisjoint, RacedInv
<1>4. AccountInv
  BY DEF Init, AccountInv, UnbornInv, AccountsPaired, UniqueInv, SameInv, Present
<1> QED
  BY <1>1, <1>2, <1>3, <1>4 DEF Safe, HandlerInv

LEMMA SafeNext == Safe /\ [Next]_vars => Safe'
<1> SUFFICES ASSUME Safe, [Next]_vars PROVE Safe'
  OBVIOUS
<1>1. TypeInv'
  BY TypeNext DEF Safe
<1>2. ASSUME NEW p \in Procs, NEW a \in Accounts, NEW e \in Emails, NEW n \in BOOLEAN,
             Request(p, a, e, n)
      PROVE  HandlerInv' /\ AccountInv'
  BY <1>2, RequestFacts, CreateStep, UpdateStep
<1>3. ASSUME NEW p \in Procs, NEW a \in Accounts, DeleteCustomer(p, a) \/ DeleteEmployee(p, a)
      PROVE  HandlerInv' /\ AccountInv'
  BY <1>3, DeleteCustomerStep, DeleteEmployeeStep
<1>4. ASSUME NEW p \in Procs, HandlerStep(p)
      PROVE  HandlerInv' /\ AccountInv'
  BY <1>4, LookUpUserStep, InsertUserStep, InsertProfileStep, InsertDefaultsStep,
     UpdateUserStep, UpdateProfileStep, RemoveStep, AddEvcCustomerStep, CommitStep, EndStep
     DEF HandlerStep
<1>5. CASE UNCHANGED vars
  BY <1>1, <1>5, StutterStep DEF Safe
<1>6. CASE Next
  BY <1>1, <1>2, <1>3, <1>4, <1>6, NextKinds, CrashStep DEF Safe
<1> QED
  BY <1>5, <1>6

\* What handlers have written and may rely on, and what holds of the documents,
\* is true in every state: the transactions, the unique index and the plain
\* deletion of a customer's profile keep it together.
THEOREM SafeCorrect == Spec => []Safe
BY InitSafe, SafeNext, PTL DEF Spec

\* Users and profiles come and go together, portals have what they are created
\* with, and EVC knows every number, for any number of accounts and handlers.
THEOREM AccountsAlways == Spec => []AccountsPaired
<1>1. Safe => AccountsPaired
  BY DEF Safe, AccountInv
<1> QED
  BY <1>1, SafeCorrect, PTL

\* No two customers have one address in their profiles, whatever handlers race;
\* and the user and the profile of an account agree, unless two handlers of that
\* account ran at once.
THEOREM AddressesAlways == Spec => [](UniqueInv /\ AddressesAgree)
<1>1. Safe => UniqueInv /\ AddressesAgree
  <2> SUFFICES ASSUME Safe PROVE UniqueInv /\ AddressesAgree
    OBVIOUS
  <2>1. UniqueInv /\ SameInv
    BY DEF Safe, AccountInv
  <2> QED
    BY <2>1 DEF AddressesAgree, UniqueInv, SameInv
<1> QED
  BY <1>1, SafeCorrect, PTL
=============================================================================
