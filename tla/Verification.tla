---------------------------- MODULE Verification ----------------------------
(***************************************************************************)
(* Verification codes (src/src/features/auth and verification-mail).  A    *)
(* login of an unverified user, or a request to resend, saves a code and   *)
(* mails it; the code verifies the address or resets the password.  It is  *)
(* looked up without the session and used in it.  Time is counted in       *)
(* half-minutes.  Distinct codes are taken to have distinct digits.        *)
(***************************************************************************)
EXTENDS Integers, FiniteSets, MongoTx

CONSTANTS
    Users,
    Codes,
    NoCode,         \* target of an idle handler
    Duration,       \* minutes a code is good for (5 in the code)
    MaxTime,        \* bound: half-minutes
    MaxFaults,      \* bound: failed database calls
    MaxCrashes      \* bound: restarts of the server

ASSUME VerificationAssumption ==
    /\ Users \cap Codes = {} /\ NoCode \notin Codes
    /\ IsFiniteSet(Procs)
    /\ Duration \in Nat /\ MaxTime \in Nat
    /\ MaxFaults \in Nat /\ MaxCrashes \in Nat

VARIABLES
    code,           \* the verification mails
    verified,       \* users whose isVerified is set
    passwords,      \* how often a user's password was reset
    clock,
    expiring,       \* codes whose deletion was started and not awaited
    pc, op, target, \* handlers
    found,          \* the clock when a handler found its code
    uses,           \* observation: commits that marked the code used
    faults, crashes

procVars == <<pc, op, target, found>>
boundVars == <<faults, crashes>>
vars == <<code, verified, passwords, clock, expiring, txVars, procVars, uses, boundVars>>

Types == {"EMAIL_VERIFICATION", "FORGOT_PASSWORD"}

\* A code that was not sent, and one that was.  "typed" tells that the address
\* was saved with the capitals it was typed with.
Unsent == [state |-> "unsent"]
Sent_UntilWhen(u, ty, typed) ==     \* variant: the time it expires is kept
    [state |-> "sent", user |-> u, type |-> ty, typed |-> typed,
     createdAt |-> clock + 2 * Duration]
Sent(u, ty, typed) ==
    [state |-> "sent", user |-> u, type |-> ty, typed |-> typed, createdAt |-> clock]

SentCode ==
    [state : {"sent", "used", "deleted"}, user : Users, type : Types,
     typed : BOOLEAN, createdAt : 0 .. MaxTime]

TypeOK ==
    /\ code \in [Codes -> {Unsent} \cup SentCode]
    /\ verified \subseteq Users
    /\ passwords \in [Users -> Nat]
    /\ clock \in 0 .. MaxTime
    /\ expiring \subseteq Codes
    /\ TxTypeOK(Codes \cup Users)
    /\ pc \in [Procs -> {"idle", "find", "use", "password", "verified", "commit"}]
    /\ op \in [Procs -> Types \cup {"none"}]
    /\ target \in [Procs -> Codes \cup {NoCode}]
    /\ found \in [Procs -> 0 .. MaxTime]
    /\ \A p \in Procs : pc[p] # "idle" => target[p] \in Codes /\ code[target[p]] # Unsent
    /\ uses \in [Codes -> Nat]
    /\ faults \in 0 .. MaxFaults /\ crashes \in 0 .. MaxCrashes

Init ==
    /\ code = [c \in Codes |-> Unsent]
    /\ verified = {} /\ expiring = {}
    /\ passwords = [u \in Users |-> 0]
    /\ clock = 0
    /\ TxInit
    /\ pc = [p \in Procs |-> "idle"]
    /\ op = [p \in Procs |-> "none"]
    /\ target = [p \in Procs |-> NoCode]
    /\ found = [p \in Procs |-> 0]
    /\ uses = [c \in Codes |-> 0]
    /\ faults = 0 /\ crashes = 0

Take(p, o, c, s) ==
    /\ pc[p] = "idle"
    /\ pc' = [pc EXCEPT ![p] = s]
    /\ op' = [op EXCEPT ![p] = o]
    /\ target' = [target EXCEPT ![p] = c]
    /\ UNCHANGED found

Goto(p, s) ==
    /\ pc' = [pc EXCEPT ![p] = s]
    /\ UNCHANGED <<op, target, found>>

Leave(p) ==
    /\ pc' = [pc EXCEPT ![p] = "idle"]
    /\ op' = [op EXCEPT ![p] = "none"]
    /\ target' = [target EXCEPT ![p] = NoCode]
    /\ found' = [found EXCEPT ![p] = 0]

Abort(p) == TxAbort(p) /\ Leave(p)

-----------------------------------------------------------------------------
(* Codes are sent.  Saving one is a single write. *)

\* An unverified user logs in with the right password.
LogIn(u, c, typed) ==
    /\ u \notin verified
    /\ code[c] = Unsent
    /\ code' = [code EXCEPT ![c] = Sent(u, "EMAIL_VERIFICATION", typed)]
    /\ UNCHANGED <<verified, passwords, clock, expiring, txVars, procVars, uses, boundVars>>

\* The address is looked up as typed, so only one without capitals is found.
ResendCode(u, c, ty) ==
    /\ code[c] = Unsent
    /\ code' = [code EXCEPT ![c] = Sent(u, ty, FALSE)]
    /\ UNCHANGED <<verified, passwords, clock, expiring, txVars, procVars, uses, boundVars>>

Tick ==
    /\ clock < MaxTime
    /\ clock' = clock + 1
    /\ UNCHANGED <<code, verified, passwords, expiring, txVars, procVars, uses, boundVars>>

-----------------------------------------------------------------------------
(* verifyCode and verifyCodeAndResetPassword with a code that was sent. *)

Verify(p, c, ty) ==
    /\ code[c] # Unsent
    /\ Take(p, ty, c, "find")
    /\ UNCHANGED <<code, verified, passwords, clock, expiring, txVars, uses, boundVars>>

\* Variant: the code's type is not asked for.
Findable_AnyType(p) ==
    LET c == code[target[p]] IN c.state = "sent" /\ ~c.typed

\* The unused code is asked for by type and by the address without capitals.
Findable(p) ==
    LET c == code[target[p]] IN c.state = "sent" /\ c.type = op[p] /\ ~c.typed

\* Variant: a minute more is allowed.
Expired_OffByOne(p) == (clock - code[target[p]].createdAt) \div 2 > Duration + 1

\* differenceInMinutes counts whole minutes.
Expired(p) == (clock - code[target[p]].createdAt) \div 2 > Duration

\* The look-up, without the session; the deletion of an expired code is started.
FindCode(p) ==
    /\ pc[p] = "find"
    /\ IF ~Findable(p) \/ Expired(p)
       THEN /\ Abort(p)
            /\ expiring' = IF Findable(p) THEN expiring \cup {target[p]} ELSE expiring
       ELSE /\ pc' = [pc EXCEPT ![p] = "use"]
            /\ found' = [found EXCEPT ![p] = clock]
            /\ UNCHANGED <<op, target, expiring, txVars>>
    /\ UNCHANGED <<code, verified, passwords, clock, uses, boundVars>>

\* deleteMany runs in the background.
DeleteExpired(c) ==
    /\ c \in expiring
    /\ PlainWrite(c)
    /\ code' = [code EXCEPT ![c].state = "deleted"]
    /\ expiring' = expiring \ {c}
    /\ UNCHANGED <<verified, passwords, clock, procVars, uses, boundVars>>

\* Variant: isUsed is not set, and saving a document without changes writes nothing.
UseCode_Forgets(p) ==
    /\ pc[p] = "use"
    /\ SessionRead(p)
    /\ Goto(p, IF op[p] = "FORGOT_PASSWORD" THEN "password" ELSE "verified")
    /\ UNCHANGED <<code, verified, passwords, clock, expiring, uses, boundVars>>

\* Variant: isUsed is set by an update, which does not throw when it finds no code.
UseCode_ByUpdate(p) ==
    /\ pc[p] = "use"
    /\ IF code[target[p]].state = "deleted" THEN SessionRead(p) ELSE SessionWrite(p, target[p])
    /\ Goto(p, IF op[p] = "FORGOT_PASSWORD" THEN "password" ELSE "verified")
    /\ UNCHANGED <<code, verified, passwords, clock, expiring, uses, boundVars>>

\* Variant: the code is saved without the session.
UseCode_NoSession(p) ==
    LET c == target[p] IN
    /\ pc[p] = "use"
    /\ code[c].state # "deleted"
    /\ PlainWrite(c)
    /\ code' = [code EXCEPT ![c].state = "used"]
    /\ Goto(p, IF op[p] = "FORGOT_PASSWORD" THEN "password" ELSE "verified")
    /\ UNCHANGED <<verified, passwords, clock, expiring, uses, boundVars>>

\* Saving a document that is gone throws.
UseCode(p) ==
    /\ pc[p] = "use"
    /\ IF code[target[p]].state = "deleted"
       THEN Abort(p)
       ELSE /\ SessionWrite(p, target[p])
            /\ Goto(p, IF op[p] = "FORGOT_PASSWORD" THEN "password" ELSE "verified")
    /\ UNCHANGED <<code, verified, passwords, clock, expiring, uses, boundVars>>

WriteUser(p, from, to) ==
    /\ pc[p] = from
    /\ SessionWrite(p, code[target[p]].user)
    /\ Goto(p, to)
    /\ UNCHANGED <<code, verified, passwords, clock, expiring, uses, boundVars>>

UpdatePassword(p) == WriteUser(p, "password", "verified")
UpdateVerificationStatus(p) == WriteUser(p, "verified", "commit")

\* What the session wrote takes effect, the code and the user together.
Commit(p) ==
    LET c == target[p]
        u == code[c].user IN
    /\ pc[p] = "commit"
    /\ TxCommit(p)
    /\ IF c \in locks[p]
       THEN /\ code' = [code EXCEPT ![c].state = "used"]
            /\ uses' = [uses EXCEPT ![c] = @ + 1]
       ELSE UNCHANGED <<code, uses>>
    /\ IF u \in locks[p]
       THEN /\ verified' = verified \cup {u}
            /\ passwords' = IF op[p] = "FORGOT_PASSWORD" THEN [passwords EXCEPT ![u] = @ + 1]
                            ELSE passwords
       ELSE UNCHANGED <<verified, passwords>>
    /\ Leave(p)
    /\ UNCHANGED <<clock, expiring, boundVars>>

WriteConflict(p) ==
    /\ \/ pc[p] = "use" /\ Conflict(p, target[p])
       \/ pc[p] \in {"password", "verified"} /\ Conflict(p, code[target[p]].user)
    /\ Abort(p)
    /\ UNCHANGED <<code, verified, passwords, clock, expiring, uses, boundVars>>

Fail(p) ==
    /\ pc[p] # "idle"
    /\ faults < MaxFaults
    /\ faults' = faults + 1
    /\ Abort(p)
    /\ UNCHANGED <<code, verified, passwords, clock, expiring, uses, crashes>>

\* The server restarts; deletions not yet made are forgotten.
Crash ==
    /\ crashes < MaxCrashes
    /\ crashes' = crashes + 1
    /\ TxCrash
    /\ pc' = [p \in Procs |-> "idle"]
    /\ op' = [p \in Procs |-> "none"]
    /\ target' = [p \in Procs |-> NoCode]
    /\ found' = [p \in Procs |-> 0]
    /\ expiring' = {}
    /\ UNCHANGED <<code, verified, passwords, clock, uses, faults>>

HandlerStep(p) ==
    \/ FindCode(p)
    \/ UseCode(p)
    \/ UpdatePassword(p)
    \/ UpdateVerificationStatus(p)
    \/ Commit(p)
    \/ WriteConflict(p)
    \/ Fail(p)

Next ==
    \/ \E u \in Users, c \in Codes :
          \/ \E typed \in BOOLEAN : LogIn(u, c, typed)
          \/ \E ty \in Types : ResendCode(u, c, ty)
    \/ \E p \in Procs, c \in Codes, ty \in Types : Verify(p, c, ty)
    \/ \E p \in Procs : HandlerStep(p)
    \/ \E c \in Codes : DeleteExpired(c)
    \/ Tick
    \/ Crash

Spec == Init /\ [][Next]_vars

-----------------------------------------------------------------------------
(* Properties. *)

UsedCodes(u, tys) ==
    {c \in Codes : uses[c] > 0 /\ code[c].user = u /\ code[c].type \in tys}

\* A code that is marked used, or was until its deletion.
Marked(c) ==
    /\ code[c] # Unsent
    /\ code[c].state = "used" \/ (code[c].state = "deleted" /\ uses[c] > 0)

\* A user is verified exactly when one of the codes sent to him is marked used (or
\* was, until it was deleted): no code is used up for nothing and no user is verified
\* by a code that can be used again, whatever failed between the two writes, which
\* are made in one session (verifyCode, verifyCodeAndResetPassword).
UsedIffVerified ==
    \A u \in Users :
        u \in verified <=> \E c \in Codes : Marked(c) /\ code[c].user = u

\* Only codes sent for it reset a password, no oftener than handlers that run at
\* the same time can find one unused, and only handlers that found the code while
\* it was good (verifyCodeAndResetPassword, verifyEmail).
ResetsByCodes ==
    /\ \A u \in Users :
          passwords[u] <= Cardinality(UsedCodes(u, {"FORGOT_PASSWORD"})) * Cardinality(Procs)
    /\ \A p \in Procs :
          pc[p] \in {"use", "password", "verified", "commit"} =>
              found[p] - code[target[p]].createdAt < 2 * (Duration + 1)

\* "duration: number; //minutes": nor is it found after that many minutes.
FoundInTime ==
    \A p \in Procs :
        pc[p] = "use" => found[p] - code[target[p]].createdAt <= 2 * Duration

\* "Verification code sent to your email": the code that was sent, entered in
\* time and for the first time, is found.
SentCodeWorks ==
    \A p \in Procs :
        pc[p] = "find" /\ code[target[p]].state = "sent" /\ code[target[p]].type = op[p]
        /\ ~Expired(p) => Findable(p)
=============================================================================
