------------------------------ MODULE Accounts ------------------------------
(***************************************************************************)
(* Users and the profiles they log in to: customers, employees and the     *)
(* portals themselves (src/src/features/customer, employee, admin, user,   *)
(* profile, super-admin, evc).  A user and its profile are two documents;  *)
(* a portal has more, created with it.  The service of EVC is told about a *)
(* customer's number before the number is committed.  Of a document only   *)
(* the address is kept: it is the name of a login.  Its letter case is     *)
(* left out: create makes it lower in the user, update keeps it as given.  *)
(***************************************************************************)
EXTENDS Naturals, FiniteSets, MongoTx

CONSTANTS
    Accounts,
    Emails,
    NoEmail,        \* of a document that is not there
    NoAccount       \* target of an idle handler

ASSUME AccountsAssumption == NoEmail \notin Emails /\ NoAccount \notin Accounts

Roles == {"customer", "employee", "admin"}

\* What a transaction may lock: users, profiles, and the entries of the unique
\* index on the customers' addresses.
User(a) == <<"user", a>>
Profile(a) == <<"profile", a>>
Index(e) == <<"index", e>>
Docs == ({"user", "profile"} \X Accounts) \cup ({"index"} \X Emails)

VARIABLES
    user, profile,  \* the address in a user and in its profile
    role,           \* of an account whose creation was begun
    defaults,       \* portals with schedule, credentials, customer type and prices
    numbers,        \* customers with an EVC number
    told,           \* customers EVC was told about
    pc, op, target, \* handlers
    email,          \* the address a handler was given
    number,         \* handlers that were given an EVC number to add
    raced           \* observation: accounts two handlers worked on at once

docVars == <<user, profile, role, defaults, numbers, told>>
procVars == <<pc, op, target, email, number>>
vars == <<docVars, txVars, procVars, raced>>

Points == {"idle", "lookup", "insertUser", "insertProfile", "defaults", "updateUser",
           "updateProfile", "removeProfile", "removeUser", "evc", "commit"}

TypeOK ==
    /\ user \in [Accounts -> Emails \cup {NoEmail}]
    /\ profile \in [Accounts -> Emails \cup {NoEmail}]
    /\ role \in [Accounts -> Roles \cup {"none"}]
    /\ defaults \subseteq Accounts
    /\ numbers \subseteq Accounts /\ told \subseteq Accounts
    /\ TxTypeOK(Docs)
    /\ pc \in [Procs -> Points]
    /\ op \in [Procs -> {"none", "create", "update", "delete"}]
    /\ target \in [Procs -> Accounts \cup {NoAccount}]
    /\ email \in [Procs -> Emails \cup {NoEmail}]
    /\ number \subseteq Procs
    /\ raced \subseteq Accounts
    /\ \A p \in Procs : pc[p] # "idle" => role[target[p]] # "none"

Init ==
    /\ user = [a \in Accounts |-> NoEmail]
    /\ profile = [a \in Accounts |-> NoEmail]
    /\ role = [a \in Accounts |-> "none"]
    /\ defaults = {} /\ numbers = {} /\ told = {}
    /\ TxInit
    /\ pc = [p \in Procs |-> "idle"]
    /\ op = [p \in Procs |-> "none"]
    /\ target = [p \in Procs |-> NoAccount]
    /\ email = [p \in Procs |-> NoEmail]
    /\ number = {}
    /\ raced = {}

IsCustomer(a) == role[a] = "customer"
IsEmployee(a) == role[a] = "employee"
IsPortal(a) == role[a] = "admin"

-----------------------------------------------------------------------------
(* How a handler moves on. *)

Take(p, o, a, e, n, s) ==
    /\ pc[p] = "idle"
    /\ pc' = [pc EXCEPT ![p] = s]
    /\ op' = [op EXCEPT ![p] = o]
    /\ target' = [target EXCEPT ![p] = a]
    /\ email' = [email EXCEPT ![p] = e]
    /\ number' = IF n THEN number \cup {p} ELSE number
    /\ raced' = IF \E q \in Procs : target[q] = a THEN raced \cup {a} ELSE raced

Goto(p, s) ==
    /\ pc' = [pc EXCEPT ![p] = s]
    /\ UNCHANGED <<op, target, email, number>>

Leave(p) ==
    /\ pc' = [pc EXCEPT ![p] = "idle"]
    /\ op' = [op EXCEPT ![p] = "none"]
    /\ target' = [target EXCEPT ![p] = NoAccount]
    /\ email' = [email EXCEPT ![p] = NoEmail]
    /\ number' = number \ {p}

Abort(p) == TxAbort(p) /\ Leave(p)

\* A step of p that sends s to the database in its session and goes on.
Then(p, from, to) ==
    /\ pc[p] = from
    /\ Goto(p, to)
    /\ UNCHANGED <<docVars, raced>>

\* What comes after the profile was written.
AfterProfile(p) ==
    IF op[p] = "create" /\ IsPortal(target[p]) THEN "defaults"
    ELSE IF p \in number THEN "evc" ELSE "commit"

-----------------------------------------------------------------------------
(* create: a registration, or an account made by its portal.  The look-ups do  *)
(* not use the session.                                                        *)

CustomerExists(e) == \E a \in Accounts : IsCustomer(a) /\ profile[a] = e

Create(p, a, r, e, n) ==
    /\ role[a] = "none"
    /\ role' = [role EXCEPT ![a] = r]
    /\ Take(p, "create", a, e, n, "lookup")
    /\ UNCHANGED <<user, profile, defaults, numbers, told, txVars>>

\* Only customers are looked for, and only they have an EVC number.
CreateCustomer(p, a, e, n) == ~CustomerExists(e) /\ Create(p, a, "customer", e, n)

CreateEmployee(p, a, e) == Create(p, a, "employee", e, FALSE)

CreateAdmin(p, a, e) == Create(p, a, "admin", e, FALSE)

LookUpUser(p) ==
    /\ pc[p] = "lookup"
    /\ IF \E a \in Accounts : user[a] = email[p]
       THEN Abort(p)
       ELSE Goto(p, "insertUser") /\ UNCHANGED txVars
    /\ UNCHANGED <<docVars, raced>>

InsertUser(p) ==
    /\ Then(p, "insertUser", "insertProfile")
    /\ SessionWrite(p, User(target[p]))

\* Variant: the customers' addresses have no unique index.
InsertProfile_NotUnique(p) ==
    /\ Then(p, "insertProfile", AfterProfile(p))
    /\ SessionWrite(p, Profile(target[p]))

\* The index refuses an address that another customer has.
InsertProfile(p) ==
    LET a == target[p] IN
    /\ Then(p, "insertProfile", AfterProfile(p))
    /\ IsCustomer(a) => ~CustomerExists(email[p])
    /\ SessionWriteAll(p, {Profile(a)} \cup (IF IsCustomer(a) THEN {Index(email[p])} ELSE {}))

DuplicateKey(p) ==
    /\ pc[p] = "insertProfile" /\ IsCustomer(target[p])
    /\ CustomerExists(email[p])
    /\ Abort(p)
    /\ UNCHANGED <<docVars, raced>>

\* Schedule, credentials, customer type and prices are new documents.
InsertDefaults(p) ==
    /\ Then(p, "defaults", "commit")
    /\ UNCHANGED txVars

\* Variant: EVC is given another field of the customer.
AddEvcCustomer_Address(p) ==
    /\ pc[p] = "evc"
    /\ told' = told \cup {email[p]}
    /\ Goto(p, "commit")
    /\ UNCHANGED <<user, profile, role, defaults, numbers, txVars, raced>>

\* EVC is told; what it answers is not looked at.
AddEvcCustomer(p) ==
    /\ pc[p] = "evc"
    /\ told' = told \cup {target[p]}
    /\ Goto(p, "commit")
    /\ UNCHANGED <<user, profile, role, defaults, numbers, txVars, raced>>

-----------------------------------------------------------------------------
(* update: the profile is read without the session, written with it. *)

Update(p, a, e, n) ==
    /\ profile[a] # NoEmail
    /\ Take(p, "update", a, e, n, IF profile[a] # e THEN "updateUser" ELSE "updateProfile")
    /\ UNCHANGED <<docVars, txVars>>

UpdateCustomer(p, a, e, n) == IsCustomer(a) /\ Update(p, a, e, n)

UpdateEmployee(p, a, e) == IsEmployee(a) /\ Update(p, a, e, FALSE)

UpdateAdmin(p, a, e) == IsPortal(a) /\ Update(p, a, e, FALSE)

\* Another user may have the new address: it is not looked up.
UpdateUserEmail(p) ==
    /\ Then(p, "updateUser", "updateProfile")
    /\ IF user[target[p]] # NoEmail
       THEN SessionWrite(p, User(target[p]))
       ELSE SessionRead(p) /\ ~Conflict(p, User(target[p]))

\* A profile that is gone is not written, and nothing is said.
UpdateProfile(p) ==
    LET a == target[p]
        keys == IF IsCustomer(a) /\ profile[a] # email[p]
                THEN {Index(profile[a]), Index(email[p])} ELSE {} IN
    /\ Then(p, "updateProfile", AfterProfile(p))
    /\ IF profile[a] = NoEmail
       THEN SessionRead(p) /\ ~Conflict(p, Profile(a))
       ELSE /\ keys # {} => ~CustomerExists(email[p])
            /\ SessionWriteAll(p, {Profile(a)} \cup keys)

AddressTaken(p) ==
    LET a == target[p] IN
    /\ pc[p] = "updateProfile" /\ IsCustomer(a)
    /\ profile[a] # NoEmail /\ profile[a] # email[p]
    /\ CustomerExists(email[p])
    /\ Abort(p)
    /\ UNCHANGED <<docVars, raced>>

-----------------------------------------------------------------------------
(* deleteCustomer and deleteEmployee. *)

\* The customer is deleted at once, without the session; then the rest with it.
DeleteCustomer(p, a) ==
    /\ IsCustomer(a) /\ profile[a] # NoEmail
    /\ PlainWriteAll({Profile(a), Index(profile[a])})
    /\ profile' = [profile EXCEPT ![a] = NoEmail]
    /\ Take(p, "delete", a, NoEmail, FALSE, "removeUser")
    /\ UNCHANGED <<user, role, defaults, numbers, told>>

DeleteEmployee(p, a) ==
    /\ IsEmployee(a) /\ profile[a] # NoEmail
    /\ Take(p, "delete", a, NoEmail, FALSE, "removeProfile")
    /\ UNCHANGED <<docVars, txVars>>

\* Variant: an employee is deleted like a customer.
RemoveProfile_NoSession(p) ==
    LET a == target[p] IN
    /\ pc[p] = "removeProfile"
    /\ PlainWrite(Profile(a))
    /\ profile' = [profile EXCEPT ![a] = NoEmail]
    /\ Goto(p, "removeUser")
    /\ UNCHANGED <<user, role, defaults, numbers, told, raced>>

\* An employee that is gone is an error.
RemoveProfile(p) ==
    /\ Then(p, "removeProfile", "removeUser")
    /\ profile[target[p]] # NoEmail
    /\ SessionWrite(p, Profile(target[p]))

RemoveUser(p) ==
    /\ Then(p, "removeUser", "commit")
    /\ SessionWrite(p, User(target[p]))

-----------------------------------------------------------------------------
(* The end of a handler. *)

\* What was written with the session takes effect.
Commit(p) ==
    LET a == target[p]
        value == IF op[p] = "delete" THEN NoEmail ELSE email[p]
        wrote(d) == d \in locks[p] IN
    /\ pc[p] = "commit"
    /\ user' = IF wrote(User(a)) THEN [user EXCEPT ![a] = value] ELSE user
    /\ profile' = IF wrote(Profile(a)) THEN [profile EXCEPT ![a] = value] ELSE profile
    /\ numbers' = IF p \in number /\ wrote(Profile(a)) THEN numbers \cup {a} ELSE numbers
    /\ defaults' = IF op[p] = "create" /\ IsPortal(a) THEN defaults \cup {a} ELSE defaults
    /\ TxCommit(p)
    /\ Leave(p)
    /\ UNCHANGED <<role, told, raced>>

WriteConflict(p) ==
    LET a == target[p] IN
    /\ \/ pc[p] \in {"updateUser", "removeUser"} /\ Conflict(p, User(a))
       \/ pc[p] \in {"updateProfile", "removeProfile"} /\ Conflict(p, Profile(a))
       \/ /\ pc[p] \in {"insertProfile", "updateProfile"} /\ IsCustomer(a)
          /\ \E e \in {email[p], profile[a]} \ {NoEmail} : Conflict(p, Index(e))
    /\ Abort(p)
    /\ UNCHANGED <<docVars, raced>>

\* A call fails, or an answer is not what the handler needs: an EVC or VAT number
\* that is not accepted, a name that is taken, a document that is gone.
Fail(p) ==
    /\ pc[p] # "idle"
    /\ Abort(p)
    /\ UNCHANGED <<docVars, raced>>

Crash ==
    /\ TxCrash
    /\ pc' = [p \in Procs |-> "idle"]
    /\ op' = [p \in Procs |-> "none"]
    /\ target' = [p \in Procs |-> NoAccount]
    /\ email' = [p \in Procs |-> NoEmail]
    /\ number' = {}
    /\ UNCHANGED <<docVars, raced>>

HandlerStep(p) ==
    \/ LookUpUser(p) \/ InsertUser(p) \/ InsertProfile(p) \/ DuplicateKey(p)
    \/ InsertDefaults(p) \/ AddEvcCustomer(p)
    \/ UpdateUserEmail(p) \/ UpdateProfile(p) \/ AddressTaken(p)
    \/ RemoveProfile(p) \/ RemoveUser(p)
    \/ Commit(p) \/ WriteConflict(p) \/ Fail(p)

Next ==
    \/ \E p \in Procs, a \in Accounts, e \in Emails :
          \/ \E n \in BOOLEAN : CreateCustomer(p, a, e, n) \/ UpdateCustomer(p, a, e, n)
          \/ CreateEmployee(p, a, e) \/ UpdateEmployee(p, a, e)
          \/ CreateAdmin(p, a, e) \/ UpdateAdmin(p, a, e)
    \/ \E p \in Procs, a \in Accounts : DeleteCustomer(p, a) \/ DeleteEmployee(p, a)
    \/ \E p \in Procs : HandlerStep(p)
    \/ Crash

Spec == Init /\ [][Next]_vars

-----------------------------------------------------------------------------

Present(d, a) == d[a] # NoEmail

\* Whoever has a profile can log in, and whoever can log in has a profile, if he
\* is not a customer, whose user stays when the deletion fails half-way; a portal
\* has everything it is created with; and EVC has been told every number a
\* customer has.  (create, update and deleteEmployee write in one session;
\* customer.service.ts, employee.service.ts and admin.service.ts.)
AccountsPaired ==
    /\ \A a \in Accounts : Present(profile, a) => Present(user, a)
    /\ \A a \in Accounts : Present(user, a) /\ ~IsCustomer(a) => Present(profile, a)
    /\ \A a \in Accounts : Present(profile, a) /\ IsPortal(a) => a \in defaults
    /\ numbers \subseteq told

\* A customer logs in with the address in the profile, and no other customer has
\* it, whatever registrations and updates of other accounts run at once: the
\* look-ups do not tell, the unique index does.  Two handlers of one account may
\* leave its two documents with different addresses (update compares with what
\* it read without the session).
AddressesAgree ==
    LET Settled == {a \in Accounts : IsCustomer(a) /\ Present(profile, a) /\ a \notin raced} IN
    /\ \A a \in Settled : user[a] = profile[a]
    /\ \A a, b \in Settled : a # b => user[a] # user[b]
=============================================================================
