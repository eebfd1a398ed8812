------------------------- MODULE VerificationProofs -------------------------
(***************************************************************************)
(* Proofs about Verification, for any number of users, codes and handlers, *)
(* any duration and any number of faults and restarts.                     *)
(***************************************************************************)
EXTENDS Verification, FiniteSetTheorems, TLAPS

AfterFind == {"use", "password", "verified", "commit"}

\* A code is used only by handlers that found it while it was good (the second
\* part of ResetsByCodes).
FoundInGrace ==
    \A p \in Procs :
        pc[p] \in AfterFind => found[p] - code[target[p]].createdAt < 2 * (Duration + 1)

\* Users are verified by commits that marked a code of theirs used, and nothing else
\* marks a code used.
UsesInv ==
    /\ \A u \in Users : u \in verified <=> UsedCodes(u, Types) # {}
    /\ \A c \in Codes : code[c] # Unsent /\ code[c].state = "used" => uses[c] > 0

\* From the use of its code on a handler's session holds the code, and at the commit
\* the user as well.
HeldInv ==
    \A p \in Procs :
        /\ pc[p] \in {"password", "verified", "commit"} => target[p] \in locks[p]
        /\ pc[p] = "commit" => code[target[p]].user \in locks[p]

\* A code that was not sent was not used, either.
Inv ==
    /\ TypeOK
    /\ \A c \in Codes : code[c] = Unsent => uses[c] = 0
    /\ UsesInv
    /\ FoundInGrace

-----------------------------------------------------------------------------
(* What the transactions and the handlers do to their variables. *)

Docs == Codes \cup Users

LEMMA TxTypes ==
  ASSUME TxTypeOK(Docs), NEW p \in Procs, NEW d \in Docs,
         \/ SessionWrite(p, d) \/ PlainWrite(d) \/ TxCommit(p) \/ TxAbort(p) \/ TxCrash
         \/ UNCHANGED txVars
  PROVE  TxTypeOK(Docs)'
BY DEF TxTypeOK, SessionWrite, PlainWrite, TxCommit, TxAbort, TxCrash, txVars

LEMMA UnsentIsNot == Unsent \notin SentCode
<1>1. Unsent.state = "unsent"
  BY DEF Unsent
<1>2. \A r \in SentCode : r.state # "unsent"
  BY DEF SentCode
<1> QED
  BY <1>1, <1>2

\* A change of state leaves the rest of a code that was sent.
LEMMA StateChange ==
  ASSUME TypeOK, NEW c \in Codes, code[c] # Unsent, NEW s \in {"used", "deleted"},
         code' = [code EXCEPT ![c].state = s]
  PROVE  /\ code' \in [Codes -> {Unsent} \cup SentCode]
         /\ code'[c] \in SentCode /\ code'[c].state = s
         /\ code'[c].user = code[c].user /\ code'[c].type = code[c].type
         /\ code'[c].createdAt = code[c].createdAt
         /\ \A d \in Codes : d # c => code'[d] = code[d]
<1>1. code[c] \in SentCode
  BY DEF TypeOK
<1> DEFINE r == [code[c] EXCEPT !.state = s]
<1>2. /\ r \in SentCode /\ r.state = s
      /\ r.user = code[c].user /\ r.type = code[c].type /\ r.createdAt = code[c].createdAt
  BY <1>1 DEF SentCode
<1>3. code' = [code EXCEPT ![c] = r]
  OBVIOUS
<1> HIDE DEF r
<1> QED
  BY <1>2, <1>3 DEF TypeOK

\* Handlers that stay where they are or leave, while no code changes but its state.
LEMMA Settled ==
  ASSUME Inv, UNCHANGED <<code, verified, passwords, uses>>,
         clock' \in 0 .. MaxTime, expiring' \subseteq Codes,
         faults' \in 0 .. MaxFaults, crashes' \in 0 .. MaxCrashes,
         TxTypeOK(Docs)',
         pc' \in [Procs -> {"idle", "find", "use", "password", "verified", "commit"}],
         op' \in [Procs -> Types \cup {"none"}],
         target' \in [Procs -> Codes \cup {NoCode}],
         found' \in [Procs -> 0 .. MaxTime],
         \A p \in Procs :
            \/ pc'[p] = "idle"
            \/ pc'[p] = pc[p] /\ target'[p] = target[p] /\ found'[p] = found[p]
            \/ /\ pc[p] \in AfterFind /\ pc'[p] \in AfterFind
               /\ target'[p] = target[p] /\ found'[p] = found[p]
            \/ /\ target'[p] \in Codes /\ code[target'[p]] # Unsent
               /\ pc'[p] \in AfterFind =>
                     found'[p] - code[target'[p]].createdAt < 2 * (Duration + 1)
  PROVE  Inv'
<1>1. ASSUME NEW p \in Procs, pc'[p] # "idle"
      PROVE  target'[p] \in Codes /\ code[target'[p]] # Unsent
  BY <1>1 DEF Inv, TypeOK, AfterFind
<1>2. TypeOK'
  BY <1>1 DEF Inv, TypeOK, Docs
<1>3. UsesInv'
  BY DEF Inv, UsesInv, UsedCodes
<1>4. FoundInGrace'
  BY DEF Inv, FoundInGrace, AfterFind
<1> QED
  BY <1>2, <1>3, <1>4 DEF Inv

LEMMA Leaving ==
  ASSUME Inv, NEW p \in Procs, Leave(p)
  PROVE  /\ pc' \in [Procs -> {"idle", "find", "use", "password", "verified", "commit"}]
         /\ op' \in [Procs -> Types \cup {"none"}]
         /\ target' \in [Procs -> Codes \cup {NoCode}]
         /\ found' \in [Procs -> 0 .. MaxTime]
         /\ pc'[p] = "idle"
         /\ \A q \in Procs : q # p =>
               pc'[q] = pc[q] /\ target'[q] = target[q] /\ found'[q] = found[q]
BY VerificationAssumption DEF Inv, TypeOK, Leave

LEMMA InitInv == Init => Inv
<1> USE VerificationAssumption
<1> SUFFICES ASSUME Init PROVE Inv
  OBVIOUS
<1>1. TypeOK
  BY DEF Init, TypeOK, TxInit, TxTypeOK
<1>2. UsesInv /\ FoundInGrace
  BY DEF Init, UsesInv, UsedCodes, FoundInGrace, AfterFind, Unsent
<1> QED
  BY <1>1, <1>2 DEF Inv, Init

-----------------------------------------------------------------------------
(* Each step preserves the invariant. *)

\* A code is sent.
LEMMA SentStep ==
  ASSUME Inv, NEW u \in Users, NEW c \in Codes, NEW ty \in Types, NEW typed \in BOOLEAN,
         code[c] = Unsent,
         code' = [code EXCEPT ![c] = Sent(u, ty, typed)],
         UNCHANGED <<verified, passwords, clock, expiring, txVars, procVars, uses, boundVars>>
  PROVE  Inv'
<1>0. UNCHANGED <<pc, op, target, found, faults, crashes, locks, snap, stale>>
  BY DEF procVars, boundVars, txVars
<1>1. Sent(u, ty, typed) \in SentCode
  BY DEF Inv, TypeOK, Sent, SentCode
<1>2. Sent(u, ty, typed).state = "sent" /\ Sent(u, ty, typed) # Unsent
  BY <1>1, UnsentIsNot DEF Sent
<1>3. /\ code' \in [Codes -> {Unsent} \cup SentCode]
      /\ code'[c] = Sent(u, ty, typed)
      /\ \A d \in Codes : d # c => code'[d] = code[d]
  BY <1>1 DEF Inv, TypeOK
<1>4. \A p \in Procs : pc[p] # "idle" => target[p] # c /\ target[p] \in Codes
  BY DEF Inv, TypeOK
<1>5. TypeOK'
  BY <1>0, <1>3, <1>4 DEF Inv, TypeOK, TxTypeOK
<1>6. uses[c] = 0
  BY DEF Inv
<1>7. \A v \in Users : UsedCodes(v, Types)' = UsedCodes(v, Types)
  BY <1>3, <1>6 DEF UsedCodes
<1>8. UsesInv'
  <2>1. \A d \in Codes : code'[d] # Unsent /\ code'[d].state = "used" => uses'[d] > 0
    BY <1>2, <1>3 DEF Inv, UsesInv
  <2> QED
    BY <1>7, <2>1 DEF Inv, UsesInv
<1>9. FoundInGrace'
  BY <1>0, <1>3, <1>4 DEF Inv, FoundInGrace, AfterFind
<1> QED
  BY <1>2, <1>3, <1>5, <1>8, <1>9 DEF Inv

LEMMA TickStep == Inv /\ Tick => Inv'
<1> SUFFICES ASSUME Inv, Tick PROVE Inv'
  OBVIOUS
<1>1. /\ UNCHANGED <<code, verified, passwords, expiring, uses, faults, crashes>>
      /\ UNCHANGED <<pc, op, target, found, locks, snap, stale>>
  BY DEF Tick, procVars, boundVars, txVars
<1>2. clock' \in 0 .. MaxTime
  BY VerificationAssumption DEF Inv, TypeOK, Tick
<1> QED
  BY <1>1, <1>2, Settled DEF Inv, TypeOK, TxTypeOK, Docs

LEMMA VerifyStep ==
  ASSUME Inv, NEW p \in Procs, NEW c \in Codes, NEW ty \in Types, Verify(p, c, ty)
  PROVE  Inv'
<1>1. /\ UNCHANGED <<code, verified, passwords, clock, expiring, uses, faults, crashes>>
      /\ UNCHANGED <<found, locks, snap, stale>>
  BY DEF Verify, Take, boundVars, txVars
<1>2. /\ pc' = [pc EXCEPT ![p] = "find"]
      /\ op' = [op EXCEPT ![p] = ty]
      /\ target' = [target EXCEPT ![p] = c]
      /\ code[c] # Unsent
  BY DEF Verify, Take
<1>3. /\ pc' \in [Procs -> {"idle", "find", "use", "password", "verified", "commit"}]
      /\ op' \in [Procs -> Types \cup {"none"}]
      /\ target' \in [Procs -> Codes \cup {NoCode}]
      /\ pc'[p] = "find" /\ target'[p] = c
      /\ \A q \in Procs : q # p => pc'[q] = pc[q] /\ target'[q] = target[q]
  BY <1>2 DEF Inv, TypeOK
<1> QED
  BY <1>1, <1>2, <1>3, Settled DEF Inv, TypeOK, TxTypeOK, Docs, AfterFind

\* A handler leaves its transaction; nothing that was committed changes.
LEMMA AbortStep ==
  ASSUME Inv, NEW p \in Procs, Abort(p),
         UNCHANGED <<code, verified, passwords, clock, uses, crashes>>,
         expiring' \subseteq Codes, faults' \in 0 .. MaxFaults
  PROVE  Inv'
<1>1. TxTypeOK(Docs)'
  <2>1. TxTypeOK(Docs)
    BY DEF Inv, TypeOK, Docs
  <2> QED
    BY <2>1 DEF Abort, TxAbort, TxTypeOK
<1>2. Leave(p)
  BY DEF Abort
<1> QED
  BY <1>1, <1>2, Leaving, Settled DEF Inv, TypeOK

\* A handler that has found its code goes on.
LEMMA GoOnStep ==
  ASSUME Inv, NEW p \in Procs, NEW d \in Docs, SessionWrite(p, d),
         pc[p] \in AfterFind, NEW s \in AfterFind, Goto(p, s),
         UNCHANGED <<code, verified, passwords, clock, expiring, uses, boundVars>>
  PROVE  Inv'
<1>1. TxTypeOK(Docs)'
  BY TxTypes DEF Inv, TypeOK, Docs
<1>2. /\ pc' \in [Procs -> {"idle", "find", "use", "password", "verified", "commit"}]
      /\ pc'[p] = s /\ \A q \in Procs : q # p => pc'[q] = pc[q]
      /\ UNCHANGED <<op, target, found, faults, crashes>>
  BY DEF Inv, TypeOK, Goto, AfterFind, boundVars
<1> QED
  BY <1>1, <1>2, Settled DEF Inv, TypeOK

LEMMA FindStep == ASSUME Inv, NEW p \in Procs, FindCode(p) PROVE Inv'
<1>0. UNCHANGED <<code, verified, passwords, clock, uses, faults, crashes>> /\ pc[p] = "find"
  BY DEF FindCode, boundVars
<1>1. target[p] \in Codes /\ code[target[p]] \in SentCode /\ code[target[p]] # Unsent
  BY <1>0 DEF Inv, TypeOK
<1>2. CASE ~Findable(p) \/ Expired(p)
  <2>1. Abort(p) /\ expiring' \subseteq Codes
    BY <1>1, <1>2 DEF FindCode, Inv, TypeOK
  <2> QED
    BY <1>0, <2>1, AbortStep DEF Inv, TypeOK
<1>3. CASE ~(~Findable(p) \/ Expired(p))
  <2>1. /\ pc' = [pc EXCEPT ![p] = "use"]
        /\ found' = [found EXCEPT ![p] = clock]
        /\ UNCHANGED <<op, target, expiring, locks, snap, stale>>
    BY <1>3 DEF FindCode, txVars
  <2>2. /\ pc' \in [Procs -> {"idle", "find", "use", "password", "verified", "commit"}]
        /\ found' \in [Procs -> 0 .. MaxTime]
        /\ pc'[p] = "use" /\ found'[p] = clock
        /\ \A q \in Procs : q # p => pc'[q] = pc[q] /\ found'[q] = found[q]
    BY <2>1 DEF Inv, TypeOK
  <2>3. clock - code[target[p]].createdAt < 2 * (Duration + 1)
    <3>1. code[target[p]].createdAt \in 0 .. MaxTime /\ clock \in 0 .. MaxTime
      BY <1>1 DEF SentCode, Inv, TypeOK
    <3>2. (clock - code[target[p]].createdAt) \div 2 <= Duration
      BY <1>3, <3>1, VerificationAssumption DEF Expired
    <3> QED
      BY <3>1, <3>2, VerificationAssumption
  <2> QED
    BY <1>0, <1>1, <2>1, <2>2, <2>3, Settled DEF Inv, TypeOK, TxTypeOK, Docs, AfterFind
<1> QED
  BY <1>2, <1>3

LEMMA DeleteStep == ASSUME Inv, NEW c \in Codes, DeleteExpired(c), code[c] # Unsent PROVE Inv'
<1>0. /\ UNCHANGED <<verified, passwords, clock, uses, faults, crashes>>
      /\ UNCHANGED <<pc, op, target, found, locks, snap>>
  BY DEF DeleteExpired, PlainWrite, procVars, boundVars
<1>1. TxTypeOK(Docs)'
  BY DEF DeleteExpired, Inv, TypeOK, TxTypeOK, PlainWrite, Docs
<1>2. code' = [code EXCEPT ![c].state = "deleted"] /\ expiring' \subseteq Codes
  BY DEF DeleteExpired, Inv, TypeOK
<1>3. /\ code' \in [Codes -> {Unsent} \cup SentCode]
      /\ code'[c] \in SentCode /\ code'[c].state = "deleted"
      /\ code'[c].user = code[c].user /\ code'[c].type = code[c].type
      /\ code'[c].createdAt = code[c].createdAt
      /\ \A d \in Codes : d # c => code'[d] = code[d]
  BY <1>2, StateChange DEF Inv
<1>4. code'[c] # Unsent
  BY <1>3, UnsentIsNot
<1>5. TypeOK'
  BY <1>0, <1>1, <1>2, <1>3, <1>4 DEF Inv, TypeOK, Docs
<1>6. \A v \in Users : UsedCodes(v, Types)' = UsedCodes(v, Types)
  BY <1>0, <1>3 DEF UsedCodes
<1>7. UsesInv'
  <2>1. \A d \in Codes : code'[d] # Unsent /\ code'[d].state = "used" => uses'[d] > 0
    BY <1>0, <1>3 DEF Inv, UsesInv
  <2> QED
    BY <1>0, <1>6, <2>1 DEF Inv, UsesInv
<1>8. FoundInGrace'
  BY <1>0, <1>3 DEF Inv, FoundInGrace, AfterFind, TypeOK
<1> QED
  BY <1>0, <1>3, <1>4, <1>5, <1>7, <1>8 DEF Inv

\* What a commit does: the session holds the code and the user.
LEMMA CommitHeld ==
  ASSUME HeldInv, NEW p \in Procs, Commit(p)
  PROVE  /\ code' = [code EXCEPT ![target[p]].state = "used"]
         /\ verified' = verified \cup {code[target[p]].user}
         /\ uses' = [uses EXCEPT ![target[p]] = @ + 1]
         /\ passwords' = IF op[p] = "FORGOT_PASSWORD"
                         THEN [passwords EXCEPT ![code[target[p]].user] = @ + 1]
                         ELSE passwords
<1>1. target[p] \in locks[p] /\ code[target[p]].user \in locks[p]
  BY DEF HeldInv, Commit
<1> QED
  BY <1>1 DEF Commit

LEMMA CommitStep == ASSUME Inv, HeldInv, NEW p \in Procs, Commit(p) PROVE Inv'
<1> DEFINE c == target[p]
           u == code[c].user
<1>0. /\ UNCHANGED <<clock, expiring, faults, crashes>>
      /\ pc[p] = "commit"
      /\ code' = [code EXCEPT ![c].state = "used"]
      /\ verified' = verified \cup {u}
      /\ uses' = [uses EXCEPT ![c] = @ + 1]
      /\ Leave(p) /\ TxCommit(p)
  BY CommitHeld DEF Commit, boundVars
<1>1. c \in Codes /\ code[c] # Unsent /\ code[c] \in SentCode
  BY <1>0 DEF Inv, TypeOK
<1>2. u \in Users /\ code[c].type \in Types
  BY <1>1 DEF SentCode
<1>3. /\ code' \in [Codes -> {Unsent} \cup SentCode]
      /\ code'[c] \in SentCode /\ code'[c].state = "used"
      /\ code'[c].user = u /\ code'[c].type = code[c].type
      /\ code'[c].createdAt = code[c].createdAt
      /\ \A d \in Codes : d # c => code'[d] = code[d]
  BY <1>0, <1>1, StateChange DEF Inv
<1>4. code'[c] # Unsent
  BY <1>3, UnsentIsNot
<1>5. /\ uses' \in [Codes -> Nat] /\ uses'[c] > 0
      /\ \A d \in Codes : d # c => uses'[d] = uses[d]
  BY <1>0, <1>1 DEF Inv, TypeOK
<1>6. passwords' \in [Users -> Nat]
  BY <1>2, CommitHeld DEF Inv, TypeOK
<1>7. /\ pc' \in [Procs -> {"idle", "find", "use", "password", "verified", "commit"}]
      /\ op' \in [Procs -> Types \cup {"none"}]
      /\ target' \in [Procs -> Codes \cup {NoCode}]
      /\ found' \in [Procs -> 0 .. MaxTime]
      /\ pc'[p] = "idle"
      /\ \A q \in Procs : q # p =>
            pc'[q] = pc[q] /\ target'[q] = target[q] /\ found'[q] = found[q]
  BY <1>0, Leaving
<1>8. TxTypeOK(Docs)'
  <2>1. TxTypeOK(Docs)
    BY DEF Inv, TypeOK, Docs
  <2> QED
    BY <1>0, <2>1 DEF TxCommit, TxTypeOK
<1>9. \A q \in Procs : pc'[q] # "idle" => target'[q] \in Codes /\ code'[target'[q]] # Unsent
  BY <1>3, <1>4, <1>7 DEF Inv, TypeOK
<1> HIDE DEF c, u
<1>10. TypeOK'
  BY <1>0, <1>2, <1>3, <1>5, <1>6, <1>7, <1>8, <1>9 DEF Inv, TypeOK, Docs
<1>11. UsesInv'
  <2>1. ASSUME NEW v \in Users
        PROVE  v \in verified' <=> (\E d \in Codes : uses'[d] > 0 /\ code'[d].user = v /\ code'[d].type \in Types)
    <3>1. v \in verified <=> (\E d \in Codes : uses[d] > 0 /\ code[d].user = v /\ code[d].type \in Types)
      BY <2>1 DEF Inv, UsesInv, UsedCodes
    <3>2. CASE v = u
      BY <1>0, <1>1, <1>2, <1>3, <1>5, <3>2
    <3>3. CASE v # u
      <4>1. \A d \in Codes : (uses'[d] > 0 /\ code'[d].user = v) <=> (uses[d] > 0 /\ code[d].user = v /\ d # c)
        BY <1>3, <1>5, <3>3
      <4>2. \A d \in Codes : code'[d].type = code[d].type
        BY <1>3
      <4>3. code[c].user # v
        BY <3>3 DEF u
      <4> QED
        BY <1>0, <3>1, <3>3, <4>1, <4>2, <4>3
    <3> QED
      BY <3>2, <3>3
  <2>2. \A d \in Codes : code'[d] # Unsent /\ code'[d].state = "used" => uses'[d] > 0
    BY <1>3, <1>5 DEF Inv, UsesInv
  <2> QED
    BY <2>1, <2>2 DEF UsesInv, UsedCodes
<1>12. FoundInGrace'
  <2>1. \A d \in Codes : code'[d].createdAt = code[d].createdAt
    BY <1>3
  <2> QED
    BY <1>7, <2>1 DEF Inv, FoundInGrace, AfterFind, TypeOK
<1> QED
  BY <1>3, <1>4, <1>5, <1>10, <1>11, <1>12 DEF Inv

\* What is being deleted was sent.
ExpiringSent == \A c \in expiring : code[c] # Unsent

LEMMA HandlerPreserves == ASSUME Inv, HeldInv, NEW p \in Procs, HandlerStep(p) PROVE Inv'
<1>1. CASE FindCode(p)
  BY <1>1, FindStep
<1>2. CASE UseCode(p)
  <2>0. UNCHANGED <<code, verified, passwords, clock, expiring, uses, boundVars>> /\ pc[p] = "use"
    BY <1>2 DEF UseCode
  <2>1. CASE Abort(p)
    BY <2>0, <2>1, AbortStep DEF boundVars, Inv, TypeOK
  <2>2. CASE SessionWrite(p, target[p])
             /\ Goto(p, IF op[p] = "FORGOT_PASSWORD" THEN "password" ELSE "verified")
    <3>1. target[p] \in Docs
      BY <2>0 DEF Inv, TypeOK, Docs
    <3>2. \E s \in AfterFind : Goto(p, s)
      BY <2>2 DEF AfterFind
    <3> QED
      BY <2>0, <2>2, <3>1, <3>2, GoOnStep DEF AfterFind
  <2> QED
    BY <1>2, <2>1, <2>2 DEF UseCode
<1>3. CASE UpdatePassword(p) \/ UpdateVerificationStatus(p)
  <2>1. PICK s \in AfterFind :
            Goto(p, s) /\ pc[p] \in {"password", "verified"} /\ SessionWrite(p, code[target[p]].user)
    BY <1>3 DEF UpdatePassword, UpdateVerificationStatus, WriteUser, AfterFind
  <2>2. code[target[p]].user \in Docs
    BY <2>1 DEF Inv, TypeOK, SentCode, Docs
  <2> QED
    BY <1>3, <2>1, <2>2, GoOnStep
       DEF UpdatePassword, UpdateVerificationStatus, WriteUser, AfterFind
<1>4. CASE Commit(p)
  BY <1>4, CommitStep
<1>5. CASE WriteConflict(p)
  BY <1>5, AbortStep DEF WriteConflict, boundVars, Inv, TypeOK
<1>6. CASE Fail(p)
  <2>1. faults' \in 0 .. MaxFaults
    BY <1>6, VerificationAssumption DEF Fail, Inv, TypeOK
  <2> QED
    BY <1>6, <2>1, AbortStep DEF Fail, Inv, TypeOK
<1> QED
  BY <1>1, <1>2, <1>3, <1>4, <1>5, <1>6 DEF HandlerStep

LEMMA CrashStep == Inv /\ Crash => Inv'
<1> SUFFICES ASSUME Inv, Crash PROVE Inv'
  OBVIOUS
<1>1. TxTypeOK(Docs)'
  BY DEF Crash, TxCrash, TxTypeOK
<1>2. crashes' \in 0 .. MaxCrashes
  BY VerificationAssumption DEF Crash, Inv, TypeOK
<1>3. /\ UNCHANGED <<code, verified, passwords, clock, uses, faults>> /\ expiring' = {}
      /\ pc' \in [Procs -> {"idle", "find", "use", "password", "verified", "commit"}]
      /\ op' \in [Procs -> Types \cup {"none"}]
      /\ target' \in [Procs -> Codes \cup {NoCode}]
      /\ found' \in [Procs -> 0 .. MaxTime]
      /\ \A p \in Procs : pc'[p] = "idle"
  BY VerificationAssumption DEF Crash
<1> QED
  BY <1>1, <1>2, <1>3, Settled DEF Inv, TypeOK

\* Only codes that were found are deleted.
LEMMA ExpiringStep == Inv /\ HeldInv /\ ExpiringSent /\ [Next]_vars => ExpiringSent'
<1> SUFFICES ASSUME Inv, HeldInv, ExpiringSent, [Next]_vars PROVE ExpiringSent'
  OBVIOUS
<1>1. expiring \subseteq Codes
  BY DEF Inv, TypeOK
<1>2. ASSUME NEW p \in Procs, HandlerStep(p) PROVE ExpiringSent'
  <2>1. CASE FindCode(p)
    <3>1. target[p] \in Codes /\ code[target[p]] # Unsent
      BY <2>1 DEF FindCode, Inv, TypeOK
    <3> QED
      BY <2>1, <3>1 DEF FindCode, ExpiringSent
  <2>2. CASE Commit(p)
    <3>1. target[p] \in Codes /\ code[target[p]] # Unsent
      BY <2>2 DEF Commit, Inv, TypeOK
    <3>2. \A d \in Codes : code[d] # Unsent => code'[d] # Unsent
      BY <2>2, <3>1, CommitHeld, StateChange, UnsentIsNot DEF Inv
    <3> QED
      BY <1>1, <2>2, <3>2 DEF Commit, ExpiringSent
  <2> QED
    BY <1>2, <2>1, <2>2 DEF HandlerStep, UseCode, UpdatePassword, UpdateVerificationStatus,
       WriteUser, WriteConflict, Fail, ExpiringSent
<1>3. ASSUME NEW c \in Codes, DeleteExpired(c) PROVE ExpiringSent'
  <2>1. code[c] # Unsent
    BY <1>3 DEF DeleteExpired, ExpiringSent
  <2>2. \A d \in Codes : code[d] # Unsent => code'[d] # Unsent
    BY <1>3, <2>1, StateChange, UnsentIsNot DEF DeleteExpired, Inv
  <2> QED
    BY <1>1, <1>3, <2>2 DEF DeleteExpired, ExpiringSent
<1>4. ASSUME NEW u \in Users, NEW c \in Codes, NEW ty \in Types, NEW typed \in BOOLEAN,
             code[c] = Unsent, code' = [code EXCEPT ![c] = Sent(u, ty, typed)],
             UNCHANGED expiring
      PROVE  ExpiringSent'
  BY <1>1, <1>4 DEF ExpiringSent, Inv, TypeOK
<1>5. CASE Tick \/ Crash \/ UNCHANGED vars
  BY <1>5 DEF Tick, Crash, vars, ExpiringSent
<1>6. ASSUME NEW p \in Procs, NEW c \in Codes, NEW ty \in Types, Verify(p, c, ty)
      PROVE  ExpiringSent'
  BY <1>6 DEF Verify, ExpiringSent
<1> QED
  BY <1>2, <1>3, <1>4, <1>5, <1>6 DEF Next, LogIn, ResendCode, Types

\* No step changes whom a code was sent to.
LEMMA HeldKept ==
  ASSUME Inv, HeldInv,
         \A c \in Codes : code[c] # Unsent => code'[c].user = code[c].user,
         \A p \in Procs : pc'[p] \in {"password", "verified", "commit"} =>
            /\ pc'[p] = pc[p] /\ target'[p] = target[p]
            /\ locks[p] \subseteq locks'[p]
  PROVE  HeldInv'
BY DEF HeldInv, Inv, TypeOK

LEMMA HeldStep == Inv /\ HeldInv /\ ExpiringSent /\ [Next]_vars => HeldInv'
<1> SUFFICES ASSUME Inv, HeldInv, ExpiringSent, [Next]_vars PROVE HeldInv'
  OBVIOUS
<1> DEFINE Held == {"password", "verified", "commit"}
<1>0. /\ locks \in [Procs -> SUBSET Docs]
      /\ \A q \in Procs : pc[q] # "idle" => target[q] \in Codes /\ code[target[q]] # Unsent
  BY DEF Inv, TypeOK, TxTypeOK, Docs
<1>1. ASSUME NEW p \in Procs, Abort(p), UNCHANGED code PROVE HeldInv'
  <2>1. /\ pc'[p] \notin Held
        /\ \A q \in Procs : q # p =>
              pc'[q] = pc[q] /\ target'[q] = target[q] /\ locks'[q] = locks[q]
    BY <1>0, <1>1 DEF Abort, TxAbort, Leave, Inv, TypeOK
  <2> QED
    BY <1>1, <2>1, HeldKept
<1>2. ASSUME NEW p \in Procs, FindCode(p) PROVE HeldInv'
  <2>1. UNCHANGED code
    BY <1>2 DEF FindCode
  <2>2. CASE Abort(p)
    BY <1>1, <2>1, <2>2
  <2>3. CASE pc' = [pc EXCEPT ![p] = "use"] /\ UNCHANGED <<op, target, expiring, txVars>>
    <3>1. /\ pc'[p] \notin Held /\ UNCHANGED <<locks, target>>
          /\ \A q \in Procs : q # p => pc'[q] = pc[q]
      BY <2>3 DEF Inv, TypeOK, txVars
    <3> QED
      BY <2>1, <3>1, HeldKept
  <2> QED
    BY <1>2, <2>2, <2>3 DEF FindCode
<1>3. ASSUME NEW p \in Procs, UseCode(p) PROVE HeldInv'
  <2>1. UNCHANGED code
    BY <1>3 DEF UseCode
  <2>2. CASE Abort(p)
    BY <1>1, <2>1, <2>2
  <2>3. CASE SessionWrite(p, target[p])
             /\ Goto(p, IF op[p] = "FORGOT_PASSWORD" THEN "password" ELSE "verified")
    <3>1. /\ pc'[p] # "commit" /\ UNCHANGED target /\ target[p] \in locks'[p]
          /\ \A q \in Procs : q # p => pc'[q] = pc[q] /\ locks'[q] = locks[q]
      BY <1>0, <2>3 DEF SessionWrite, Goto, Inv, TypeOK
    <3> QED
      BY <2>1, <3>1 DEF HeldInv
  <2> QED
    BY <1>3, <2>2, <2>3 DEF UseCode
<1>4. ASSUME NEW p \in Procs, UpdatePassword(p) \/ UpdateVerificationStatus(p) PROVE HeldInv'
  <2>1. /\ pc[p] \in {"password", "verified"} /\ UNCHANGED <<code, target>>
        /\ SessionWrite(p, code[target[p]].user)
        /\ pc' = [pc EXCEPT ![p] = IF pc[p] = "password" THEN "verified" ELSE "commit"]
    BY <1>4 DEF UpdatePassword, UpdateVerificationStatus, WriteUser, Goto
  <2>2. /\ target[p] \in locks'[p] /\ code[target[p]].user \in locks'[p]
        /\ \A q \in Procs : q # p => pc'[q] = pc[q] /\ locks'[q] = locks[q]
    BY <1>0, <2>1 DEF SessionWrite, HeldInv, Inv, TypeOK
  <2> QED
    BY <2>1, <2>2 DEF HeldInv
<1>5. ASSUME NEW p \in Procs, Commit(p) PROVE HeldInv'
  <2>1. target[p] \in Codes /\ code[target[p]] # Unsent
    BY <1>5 DEF Commit, Inv, TypeOK
  <2>2. \A c \in Codes : code'[c].user = code[c].user
    BY <1>5, <2>1, CommitHeld, StateChange DEF Inv
  <2>3. /\ pc'[p] \notin Held
        /\ \A q \in Procs : q # p =>
              pc'[q] = pc[q] /\ target'[q] = target[q] /\ locks'[q] = locks[q]
    BY <1>0, <1>5 DEF Commit, TxCommit, Leave, Inv, TypeOK
  <2> QED
    BY <2>2, <2>3, HeldKept
<1>6. ASSUME NEW c \in Codes, DeleteExpired(c) PROVE HeldInv'
  <2>1. code[c] # Unsent /\ code' = [code EXCEPT ![c].state = "deleted"]
    BY <1>6 DEF DeleteExpired, ExpiringSent
  <2>2. \A d \in Codes : code'[d].user = code[d].user
    BY <2>1, StateChange DEF Inv
  <2>3. UNCHANGED <<pc, target, locks>>
    BY <1>6 DEF DeleteExpired, PlainWrite, procVars
  <2> QED
    BY <2>2, <2>3, HeldKept
<1>7. ASSUME NEW u \in Users, NEW c \in Codes, NEW ty \in Types, NEW typed \in BOOLEAN,
             code[c] = Unsent, code' = [code EXCEPT ![c] = Sent(u, ty, typed)],
             UNCHANGED <<txVars, procVars>>
      PROVE  HeldInv'
  <2>1. \A d \in Codes : code[d] # Unsent => code'[d] = code[d]
    BY <1>7 DEF Inv, TypeOK
  <2>2. UNCHANGED <<pc, target, locks>>
    BY <1>7 DEF txVars, procVars
  <2> QED
    BY <2>1, <2>2, HeldKept
<1>8. ASSUME NEW p \in Procs, NEW c \in Codes, NEW ty \in Types, Verify(p, c, ty)
      PROVE  HeldInv'
  <2>1. /\ UNCHANGED <<code, locks>> /\ pc'[p] \notin Held
        /\ \A q \in Procs : q # p => pc'[q] = pc[q] /\ target'[q] = target[q]
    BY <1>8 DEF Verify, Take, txVars, Inv, TypeOK
  <2> QED
    BY <2>1, HeldKept
<1>9. CASE Tick \/ UNCHANGED vars
  <2>1. UNCHANGED <<code, pc, target, locks>>
    BY <1>9 DEF Tick, vars, procVars, txVars
  <2> QED
    BY <2>1, HeldKept
<1>10. CASE Crash
  BY <1>10 DEF Crash, HeldInv
<1>11. ASSUME NEW p \in Procs, HandlerStep(p) PROVE HeldInv'
  BY <1>1, <1>2, <1>3, <1>4, <1>5, <1>11 DEF HandlerStep, WriteConflict, Fail
<1> QED
  BY <1>6, <1>7, <1>8, <1>9, <1>10, <1>11 DEF Next, LogIn, ResendCode, Types

LEMMA StepInv == Inv /\ HeldInv /\ ExpiringSent /\ [Next]_vars => Inv'
<1> SUFFICES ASSUME Inv, HeldInv, ExpiringSent, [Next]_vars PROVE Inv'
  OBVIOUS
<1>1. ASSUME NEW p \in Procs, HandlerStep(p) PROVE Inv'
  BY <1>1, HandlerPreserves
<1>2. ASSUME NEW c \in Codes, DeleteExpired(c) PROVE Inv'
  BY <1>2, DeleteStep DEF DeleteExpired, ExpiringSent
<1>3. ASSUME NEW u \in Users, NEW c \in Codes, NEW typed \in BOOLEAN, LogIn(u, c, typed)
      PROVE  Inv'
  BY <1>3, SentStep DEF LogIn, Types
<1>4. ASSUME NEW u \in Users, NEW c \in Codes, NEW ty \in Types, ResendCode(u, c, ty)
      PROVE  Inv'
  BY <1>4, SentStep DEF ResendCode
<1>5. ASSUME NEW p \in Procs, NEW c \in Codes, NEW ty \in Types, Verify(p, c, ty) PROVE Inv'
  BY <1>5, VerifyStep
<1>6. CASE Tick \/ Crash
  BY <1>6, TickStep, CrashStep
<1>7. CASE UNCHANGED vars
  BY <1>7, Settled
     DEF vars, procVars, boundVars, txVars, Inv, TypeOK, TxTypeOK, Docs
<1> QED
  BY <1>1, <1>2, <1>3, <1>4, <1>5, <1>6, <1>7 DEF Next

THEOREM CodesCorrect == Spec => [](Inv /\ HeldInv /\ ExpiringSent)
<1>1. Init => ExpiringSent /\ HeldInv
  BY DEF Init, ExpiringSent, HeldInv
<1> QED
  BY <1>1, InitInv, StepInv, HeldStep, ExpiringStep, PTL DEF Spec

\* Codes, the handlers' copies of the time and the sessions keep their types.
THEOREM TypeCorrect == Spec => []TypeOK
<1>1. Inv => TypeOK
  BY DEF Inv
<1> QED
  BY <1>1, CodesCorrect, PTL

\* Whoever uses a code found it before the minute after its last was over
\* (differenceInMinutes in verifyEmail).
THEOREM GraceAlways == Spec => []FoundInGrace
<1>1. Inv => FoundInGrace
  BY DEF Inv
<1> QED
  BY <1>1, CodesCorrect, PTL

-----------------------------------------------------------------------------
(* How often a password is reset. *)

ResetCodes(u) == UsedCodes(u, {"FORGOT_PASSWORD"})

\* Handlers that may still reset the password of u with a code that is used by now.
Pending(u) ==
    {p \in Procs : /\ pc[p] \in AfterFind /\ op[p] = "FORGOT_PASSWORD"
                   /\ uses[target[p]] > 0 /\ code[target[p]].user = u}

\* A code's first use lets in no more than the handlers there are: itself and those
\* that have found the code.  No handler finds it later.
Resets ==
    /\ \A c \in Codes : uses[c] > 0 => code[c].state # "sent"
    /\ \A p \in Procs : pc[p] \in AfterFind => code[target[p]].type = op[p]
    /\ \A u \in Users :
          /\ IsFiniteSet(ResetCodes(u))
          /\ passwords[u] + Cardinality(Pending(u)) <= Cardinality(ResetCodes(u)) * Cardinality(Procs)

LEMMA PendingFinite ==
  /\ IsFiniteSet(Procs) /\ Cardinality(Procs) \in Nat
  /\ \A u : IsFiniteSet(Pending(u)) /\ Cardinality(Pending(u)) \in Nat
<1>1. IsFiniteSet(Procs)
  BY VerificationAssumption
<1>2. \A u : Pending(u) \in SUBSET Procs
  BY DEF Pending
<1> QED
  BY <1>1, <1>2, FS_Subset, FS_CardinalityType

LEMMA InitResets == Init => Resets
<1> SUFFICES ASSUME Init PROVE Resets
  OBVIOUS
<1>1. ASSUME NEW u \in Users PROVE ResetCodes(u) = {} /\ Pending(u) = {}
  BY DEF Init, ResetCodes, UsedCodes, Pending, AfterFind
<1>2. \A u \in Users : passwords[u] = 0
  BY DEF Init
<1>3. Cardinality(Procs) \in Nat
  BY PendingFinite
<1>4. 0 * Cardinality(Procs) = 0 /\ 0 + 0 <= 0
  BY <1>3
<1>5. \A c \in Codes : uses[c] = 0
  BY DEF Init
<1>6. \A p \in Procs : pc[p] \notin AfterFind
  BY DEF Init, AfterFind
<1>7. ASSUME NEW u \in Users
      PROVE  /\ IsFiniteSet(ResetCodes(u))
             /\ passwords[u] + Cardinality(Pending(u))
                  <= Cardinality(ResetCodes(u)) * Cardinality(Procs)
  BY <1>1, <1>2, <1>4, FS_EmptySet
<1> QED
  BY <1>5, <1>6, <1>7 DEF Resets

\* A step that uses no code and resets no password, and lets a handler go on only
\* with the code it has, or with one that was not used.
LEMMA ResetsKept ==
  ASSUME Inv, Resets, UNCHANGED <<uses, passwords>>,
         \A c \in Codes : code[c] # Unsent =>
            /\ code'[c].user = code[c].user /\ code'[c].type = code[c].type
            /\ code'[c].state = "sent" => code[c].state = "sent",
         \A p \in Procs : pc'[p] \in AfterFind =>
            \/ pc[p] \in AfterFind /\ op'[p] = op[p] /\ target'[p] = target[p]
            \/ /\ target'[p] \in Codes /\ uses[target'[p]] = 0
               /\ code'[target'[p]].type = op'[p]
  PROVE  Resets'
<1>1. \A c \in Codes : uses[c] > 0 => code[c] # Unsent
  BY DEF Inv
<1>2. \A p \in Procs : pc[p] \in AfterFind => target[p] \in Codes /\ code[target[p]] # Unsent
  BY DEF Inv, TypeOK, AfterFind
<1>3. \A c \in Codes : uses'[c] > 0 => code'[c].state # "sent"
  BY <1>1 DEF Resets
<1>4. \A p \in Procs : pc'[p] \in AfterFind => code'[target'[p]].type = op'[p]
  BY <1>2 DEF Resets
<1>5. ASSUME NEW u \in Users
      PROVE  ResetCodes(u)' = ResetCodes(u) /\ Pending(u)' \subseteq Pending(u)
  <2>1. ResetCodes(u)' = ResetCodes(u)
    BY <1>1 DEF ResetCodes, UsedCodes
  <2>2. ASSUME NEW p \in Pending(u)' PROVE p \in Pending(u)
    <3>1. /\ p \in Procs /\ pc'[p] \in AfterFind /\ op'[p] = "FORGOT_PASSWORD"
          /\ uses'[target'[p]] > 0 /\ code'[target'[p]].user = u
      BY <2>2 DEF Pending
    <3>2. pc[p] \in AfterFind /\ op'[p] = op[p] /\ target'[p] = target[p]
      BY <3>1
    <3> QED
      BY <1>2, <3>1, <3>2 DEF Pending
  <2> QED
    BY <2>1, <2>2
<1>6. ASSUME NEW u \in Users
      PROVE  /\ IsFiniteSet(ResetCodes(u)')
             /\ passwords'[u] + Cardinality(Pending(u)')
                  <= Cardinality(ResetCodes(u)') * Cardinality(Procs)
  <2>1. /\ IsFiniteSet(ResetCodes(u))
        /\ passwords[u] + Cardinality(Pending(u)) <= Cardinality(ResetCodes(u)) * Cardinality(Procs)
    BY DEF Resets
  <2>2. /\ Cardinality(ResetCodes(u)) * Cardinality(Procs) \in Nat
        /\ passwords[u] \in Nat /\ passwords'[u] = passwords[u]
    BY <2>1, PendingFinite, FS_CardinalityType DEF Inv, TypeOK
  <2>3. /\ Cardinality(Pending(u)') <= Cardinality(Pending(u))
        /\ Cardinality(Pending(u)') \in Nat /\ Cardinality(Pending(u)) \in Nat
    BY <1>5, PendingFinite, FS_Subset, FS_CardinalityType
  <2> HIDE DEF Pending
  <2> QED
    BY <1>5, <2>1, <2>2, <2>3
<1> QED
  BY <1>3, <1>4, <1>6 DEF Resets

\* A first use lets in the others that have found the code; a later one is one of them.
LEMMA CommitResets ==
  ASSUME Inv, HeldInv, Resets, Inv', NEW p \in Procs, Commit(p)
  PROVE  Resets'
<1>0. /\ pc[p] = "commit" /\ target[p] \in Codes /\ code[target[p]] # Unsent
      /\ code[target[p]].user \in Users /\ code[target[p]].type = op[p]
  BY DEF Commit, Inv, TypeOK, Resets, AfterFind, SentCode
<1>1. PICK c \in Codes, u \in Users :
        /\ c = target[p] /\ code[c] # Unsent /\ u = code[c].user /\ code[c].type = op[p]
  BY <1>0
<1>a. /\ pc[p] = "commit"
      /\ code' = [code EXCEPT ![c].state = "used"]
      /\ uses' = [uses EXCEPT ![c] = @ + 1]
      /\ passwords' = IF op[p] = "FORGOT_PASSWORD" THEN [passwords EXCEPT ![u] = @ + 1]
                      ELSE passwords
      /\ Leave(p)
  BY <1>1, CommitHeld DEF Commit
<1>2. /\ code'[c].state = "used" /\ code'[c].user = u /\ code'[c].type = code[c].type
      /\ \A d \in Codes : d # c => code'[d] = code[d]
  BY <1>a, <1>1, StateChange DEF Inv
<1>3. /\ uses[c] \in Nat /\ uses'[c] = uses[c] + 1
      /\ \A d \in Codes : d # c => uses'[d] = uses[d]
  BY <1>a, <1>1 DEF Inv, TypeOK
<1>4. /\ pc'[p] = "idle"
      /\ \A q \in Procs : q # p => pc'[q] = pc[q] /\ target'[q] = target[q] /\ op'[q] = op[q]
  BY <1>a DEF Leave, Inv, TypeOK
<1>5. \A q \in Procs : pc[q] \in AfterFind => target[q] \in Codes /\ code[target[q]].type = op[q]
  BY DEF Inv, TypeOK, AfterFind, Resets
<1>6. \A d \in Codes : uses'[d] > 0 => code'[d].state # "sent"
  BY <1>2, <1>3 DEF Resets
<1>7. \A q \in Procs : pc'[q] \in AfterFind => code'[target'[q]].type = op'[q]
  <2>1. pc'[p] \notin AfterFind
    BY <1>4 DEF AfterFind
  <2> QED
    BY <1>2, <1>4, <1>5, <2>1
<1>8. ASSUME NEW v \in Users, v # u \/ op[p] # "FORGOT_PASSWORD"
      PROVE  /\ passwords'[v] = passwords[v]
             /\ ResetCodes(v)' = ResetCodes(v)
             /\ Pending(v)' \subseteq Pending(v)
  <2>1. passwords'[v] = passwords[v]
    BY <1>a, <1>8 DEF Inv, TypeOK
  <2>2. code[c].user = u /\ (op[p] # "FORGOT_PASSWORD" => code[c].type # "FORGOT_PASSWORD")
    BY <1>1
  <2>3. \A d \in Codes : /\ code'[d].user = code[d].user /\ code'[d].type = code[d].type
    BY <1>2, <2>2
  <2>4. ~(code[c].user = v /\ code[c].type \in {"FORGOT_PASSWORD"})
    BY <1>8, <2>2
  <2>5. ResetCodes(v)' = ResetCodes(v)
    BY <1>2, <1>3, <2>3, <2>4 DEF ResetCodes, UsedCodes
  <2>6. ASSUME NEW q \in Pending(v)' PROVE q \in Pending(v)
    <3>1. /\ q \in Procs /\ pc'[q] \in AfterFind /\ op'[q] = "FORGOT_PASSWORD"
          /\ uses'[target'[q]] > 0 /\ code'[target'[q]].user = v
      BY <2>6 DEF Pending
    <3>2. q # p
      BY <1>4, <3>1 DEF AfterFind
    <3>3. /\ pc[q] \in AfterFind /\ op[q] = "FORGOT_PASSWORD" /\ target[q] \in Codes
          /\ target'[q] = target[q] /\ code[target[q]].type = "FORGOT_PASSWORD"
          /\ code[target[q]].user = v
      BY <1>4, <1>5, <2>3, <3>1, <3>2
    <3>4. target[q] # c
      BY <2>4, <3>3
    <3> QED
      BY <1>3, <3>1, <3>3, <3>4 DEF Pending
  <2> QED
    BY <2>1, <2>5, <2>6
<1>9. ASSUME op[p] = "FORGOT_PASSWORD"
      PROVE  /\ passwords'[u] = passwords[u] + 1
             /\ ResetCodes(u)' = ResetCodes(u) \cup {c}
             /\ c \in ResetCodes(u) <=> uses[c] > 0
  <2>1. passwords'[u] = passwords[u] + 1
    BY <1>a, <1>1, <1>9 DEF Inv, TypeOK
  <2>2. code[c].user = u /\ code[c].type = "FORGOT_PASSWORD"
    BY <1>1, <1>9
  <2>3. \A d \in Codes : /\ code'[d].user = code[d].user /\ code'[d].type = code[d].type
    BY <1>2, <2>2
  <2>4. ResetCodes(u)' = ResetCodes(u) \cup {c}
    BY <1>1, <1>3, <2>2, <2>3 DEF ResetCodes, UsedCodes
  <2>5. c \in ResetCodes(u) <=> uses[c] > 0
    BY <1>1, <2>2 DEF ResetCodes, UsedCodes
  <2> QED
    BY <2>1, <2>4, <2>5
<1>10. ASSUME op[p] = "FORGOT_PASSWORD", uses[c] > 0
       PROVE  p \in Pending(u) /\ Pending(u)' \subseteq Pending(u) \ {p}
  <2>1. p \in Pending(u)
    BY <1>a, <1>1, <1>10 DEF Pending, AfterFind
  <2>2. ASSUME NEW q \in Pending(u)' PROVE q \in Pending(u) \ {p}
    <3>1. /\ q \in Procs /\ pc'[q] \in AfterFind /\ op'[q] = "FORGOT_PASSWORD"
          /\ uses'[target'[q]] > 0 /\ code'[target'[q]].user = u
      BY <2>2 DEF Pending
    <3>2. q # p
      BY <1>4, <3>1 DEF AfterFind
    <3>3. target[q] \in Codes /\ pc[q] \in AfterFind /\ target'[q] = target[q] /\ op'[q] = op[q]
      BY <1>4, <1>5, <3>1, <3>2
    <3>4. code[target[q]].user = u
      BY <1>1, <1>2, <3>1, <3>3
    <3>5. uses[target[q]] > 0
      BY <1>3, <1>10, <3>1, <3>3
    <3> QED
      BY <3>1, <3>2, <3>3, <3>4, <3>5 DEF Pending
  <2> QED
    BY <2>1, <2>2
<1>11. ASSUME op[p] = "FORGOT_PASSWORD"
       PROVE  Pending(u)' \subseteq Pending(u) \cup (Procs \ {p})
  BY <1>4 DEF Pending, AfterFind
<1>12. ASSUME NEW v \in Users
       PROVE  /\ IsFiniteSet(ResetCodes(v)')
              /\ passwords'[v] + Cardinality(Pending(v)')
                   <= Cardinality(ResetCodes(v)') * Cardinality(Procs)
  <2> DEFINE n == Cardinality(Procs)
             P == Cardinality(Pending(v))
             P1 == Cardinality(Pending(v)')
             R == Cardinality(ResetCodes(v))
             R1 == Cardinality(ResetCodes(v)')
  <2>1. /\ IsFiniteSet(ResetCodes(v)) /\ R \in Nat /\ passwords[v] + P <= R * n
    BY FS_CardinalityType DEF Resets
  <2>2. /\ n \in Nat /\ P \in Nat /\ P1 \in Nat /\ passwords[v] \in Nat
        /\ IsFiniteSet(Pending(v)) /\ IsFiniteSet(Pending(v)')
    <3>1. Pending(v)' \in SUBSET Procs
      BY DEF Pending
    <3> QED
      BY <3>1, PendingFinite, FS_Subset, FS_CardinalityType DEF Inv, TypeOK
  <2>3. CASE v # u \/ op[p] # "FORGOT_PASSWORD"
    <3>1. P1 <= P
      BY <1>8, <2>2, <2>3, FS_Subset
    <3>2. R1 = R /\ passwords'[v] = passwords[v] /\ IsFiniteSet(ResetCodes(v)')
      BY <1>8, <2>1, <2>3
    <3>3. R * n \in Nat
      BY <2>1, <2>2
    <3> HIDE DEF n, P, P1, R, R1
    <3>4. passwords[v] + P1 <= R * n
      BY <2>1, <2>2, <3>1, <3>3
    <3> QED
      BY <3>2, <3>4 DEF P1, R1, n
  <2>4. CASE v = u /\ op[p] = "FORGOT_PASSWORD" /\ uses[c] > 0
    <3>1. P1 <= P - 1
      <4>1. IsFiniteSet(Pending(v) \ {p}) /\ Cardinality(Pending(v) \ {p}) = P - 1
        BY <1>10, <2>2, <2>4, FS_RemoveElement
      <4>2. Pending(v)' \in SUBSET (Pending(v) \ {p})
        BY <1>10, <2>4
      <4> QED
        BY <4>1, <4>2, FS_Subset
    <3>2. R1 = R /\ passwords'[v] = passwords[v] + 1 /\ IsFiniteSet(ResetCodes(v)')
      <4>1. ResetCodes(v)' = ResetCodes(v)
        BY <1>9, <2>4
      <4> QED
        BY <1>9, <2>1, <2>4, <4>1
    <3>3. R * n \in Nat
      BY <2>1, <2>2
    <3> HIDE DEF n, P, P1, R, R1
    <3>4. passwords[v] + 1 + P1 <= R * n
      BY <2>1, <2>2, <3>1, <3>3
    <3> QED
      BY <3>2, <3>4 DEF P1, R1, n
  <2>5. CASE v = u /\ op[p] = "FORGOT_PASSWORD" /\ ~(uses[c] > 0)
    <3>1. P1 <= P + (n - 1)
      <4> DEFINE Others == Procs \ {p}
      <4>1. IsFiniteSet(Others) /\ Cardinality(Others) = n - 1
        BY PendingFinite, FS_RemoveElement
      <4>2. /\ IsFiniteSet(Pending(v) \cup Others)
            /\ Cardinality(Pending(v) \cup Others) =
                 P + (n - 1) - Cardinality(Pending(v) \cap Others)
        BY <2>2, <4>1, FS_Union
      <4>3. Cardinality(Pending(v) \cap Others) \in Nat
        BY <2>2, FS_Intersection, FS_CardinalityType
      <4>4. P1 <= Cardinality(Pending(v) \cup Others)
        <5>1. Pending(v)' \in SUBSET (Pending(v) \cup Others)
          BY <1>11, <2>5
        <5> QED
          BY <4>2, <5>1, FS_Subset
      <4> HIDE DEF Others, P, P1, n
      <4> QED
        BY <2>2, <4>2, <4>3, <4>4
    <3>2. passwords'[v] = passwords[v] + 1 /\ R1 = R + 1 /\ IsFiniteSet(ResetCodes(v)')
      <4>1. ResetCodes(v)' = ResetCodes(v) \cup {c} /\ c \notin ResetCodes(v)
        BY <1>9, <2>5
      <4> QED
        BY <1>9, <2>1, <2>5, <4>1, FS_AddElement
    <3> HIDE DEF n, P, P1, R, R1
    <3>3. R * n \in Nat /\ (R + 1) * n = R * n + n
      BY <2>1, <2>2
    <3>4. passwords[v] + 1 + P1 <= R * n + n
      BY <2>1, <2>2, <3>1, <3>3
    <3> QED
      BY <3>2, <3>3, <3>4 DEF P1, R1, n
  <2> QED
    BY <2>3, <2>4, <2>5
<1> QED
  BY <1>6, <1>7, <1>12 DEF Resets

\* A code that was not sent belongs to no handler.
LEMMA SentResets ==
  ASSUME Inv, Resets, NEW u \in Users, NEW c \in Codes, NEW ty \in Types, NEW typed \in BOOLEAN,
         code[c] = Unsent,
         code' = [code EXCEPT ![c] = Sent(u, ty, typed)],
         UNCHANGED <<passwords, procVars, uses>>
  PROVE  Resets'
<1>1. \A d \in Codes : code[d] # Unsent => code'[d] = code[d]
  BY DEF Inv, TypeOK
<1>2. UNCHANGED <<pc, op, target>>
  BY DEF procVars
<1> QED
  BY <1>1, <1>2, ResetsKept

LEMMA FindResets == ASSUME Inv, Resets, NEW p \in Procs, FindCode(p) PROVE Resets'
<1>1. UNCHANGED <<code, passwords, uses>> /\ pc[p] = "find"
  BY DEF FindCode
<1>2. CASE ~Findable(p) \/ Expired(p)
  <2>1. Leave(p)
    BY <1>2 DEF FindCode, Abort
  <2>2. \A q \in Procs : pc'[q] \in AfterFind =>
           pc[q] \in AfterFind /\ op'[q] = op[q] /\ target'[q] = target[q]
    BY <2>1 DEF Leave, Inv, TypeOK, AfterFind
  <2> QED
    BY <1>1, <2>2, ResetsKept
<1>3. CASE Findable(p) /\ ~Expired(p)
  <2>1. pc' = [pc EXCEPT ![p] = "use"] /\ UNCHANGED <<op, target>>
    BY <1>3 DEF FindCode
  <2>2. target[p] \in Codes
    BY <1>1 DEF Inv, TypeOK
  <2>3. uses[target[p]] = 0 /\ code[target[p]].type = op[p]
    BY <1>3, <2>2 DEF Findable, Resets, Inv, TypeOK
  <2>4. \A q \in Procs \ {p} : pc'[q] = pc[q]
    BY <2>1 DEF Inv, TypeOK
  <2>5. \A q \in Procs : pc'[q] \in AfterFind =>
           \/ pc[q] \in AfterFind /\ op'[q] = op[q] /\ target'[q] = target[q]
           \/ /\ target'[q] \in Codes /\ uses[target'[q]] = 0
              /\ code'[target'[q]].type = op'[q]
    BY <1>1, <2>1, <2>2, <2>3, <2>4
  <2> QED
    BY <1>1, <2>5, ResetsKept
<1> QED
  BY <1>2, <1>3

\* The other steps of a handler.
LEMMA GoOnResets ==
  ASSUME Inv, Resets, NEW p \in Procs, UNCHANGED <<code, passwords, uses>>,
         \/ Abort(p)
         \/ pc[p] \in AfterFind /\ \E s \in AfterFind : Goto(p, s)
         \/ \E c \in Codes, ty \in Types : Take(p, ty, c, "find")
  PROVE  Resets'
<1>1. \A q \in Procs : pc'[q] \in AfterFind =>
         pc[q] \in AfterFind /\ op'[q] = op[q] /\ target'[q] = target[q]
  BY DEF Abort, Leave, Goto, Take, Inv, TypeOK, AfterFind
<1> QED
  BY <1>1, ResetsKept

LEMMA StepResets == Inv /\ HeldInv /\ ExpiringSent /\ Resets /\ [Next]_vars => Resets'
<1> SUFFICES ASSUME Inv, HeldInv, ExpiringSent, Resets, [Next]_vars PROVE Resets'
  OBVIOUS
<1>0. Inv'
  BY StepInv
<1>1. ASSUME NEW p \in Procs, HandlerStep(p) PROVE Resets'
  <2>1. CASE UseCode(p)
    BY <2>1, GoOnResets DEF UseCode, AfterFind
  <2>2. CASE UpdatePassword(p) \/ UpdateVerificationStatus(p)
    BY <2>2, GoOnResets DEF UpdatePassword, UpdateVerificationStatus, WriteUser, AfterFind
  <2>3. CASE WriteConflict(p) \/ Fail(p)
    BY <2>3, GoOnResets DEF WriteConflict, Fail
  <2> QED
    BY <1>0, <1>1, <2>1, <2>2, <2>3, FindResets, CommitResets DEF HandlerStep
<1>2. ASSUME NEW c \in Codes, DeleteExpired(c) PROVE Resets'
  <2>1. code[c] # Unsent /\ code' = [code EXCEPT ![c].state = "deleted"]
    BY <1>2 DEF DeleteExpired, ExpiringSent
  <2>2. UNCHANGED <<uses, passwords, pc, op, target>>
    BY <1>2 DEF DeleteExpired, procVars
  <2>3. /\ code'[c].state = "deleted" /\ code'[c].user = code[c].user
        /\ code'[c].type = code[c].type
        /\ \A d \in Codes : d # c => code'[d] = code[d]
    BY <2>1, StateChange DEF Inv
  <2> QED
    BY <2>2, <2>3, ResetsKept
<1>3. ASSUME NEW u \in Users, NEW c \in Codes, NEW typed \in BOOLEAN, LogIn(u, c, typed)
      PROVE  Resets'
  BY <1>3, SentResets DEF LogIn, Types
<1>4. ASSUME NEW u \in Users, NEW c \in Codes, NEW ty \in Types, ResendCode(u, c, ty)
      PROVE  Resets'
  BY <1>4, SentResets DEF ResendCode
<1>5. ASSUME NEW p \in Procs, NEW c \in Codes, NEW ty \in Types, Verify(p, c, ty) PROVE Resets'
  BY <1>5, GoOnResets DEF Verify
<1>6. CASE Tick \/ UNCHANGED vars
  <2>1. UNCHANGED <<code, uses, passwords, pc, op, target>>
    BY <1>6 DEF Tick, vars, procVars
  <2> QED
    BY <2>1, ResetsKept
<1>7. CASE Crash
  <2>1. UNCHANGED <<code, uses, passwords>> /\ \A p \in Procs : pc'[p] \notin AfterFind
    BY <1>7 DEF Crash, AfterFind
  <2> QED
    BY <2>1, ResetsKept
<1> QED
  BY <1>1, <1>2, <1>3, <1>4, <1>5, <1>6, <1>7 DEF Next

THEOREM ResetsCorrect == Spec => [](Inv /\ Resets)
BY InitResets, StepResets, CodesCorrect, PTL DEF Spec

\* A user is verified exactly when one of his codes was marked used: verifyCode and
\* verifyCodeAndResetPassword write both in one session.  Nothing finds a code that a
\* commit marked, so it stays marked until it is deleted.
THEOREM UsedAlways == Spec => []UsedIffVerified
<1>1. Inv /\ Resets => UsedIffVerified
  <2> SUFFICES ASSUME Inv, Resets PROVE UsedIffVerified
    OBVIOUS
  <2>1. ASSUME NEW c \in Codes PROVE Marked(c) <=> uses[c] > 0
    <3>1. code[c] # Unsent => code[c].state \in {"sent", "used", "deleted"}
      BY DEF Inv, TypeOK, SentCode
    <3> QED
      BY <3>1 DEF Marked, Inv, UsesInv, Resets
  <2>2. ASSUME NEW c \in Codes, uses[c] > 0 PROVE code[c].type \in Types
    BY <2>2 DEF Inv, TypeOK, SentCode
  <2> QED
    BY <2>1, <2>2 DEF UsedIffVerified, UsedCodes, Inv, UsesInv
<1> QED
  BY <1>1, ResetsCorrect, PTL

\* A password is reset by codes sent for it, no oftener than there are handlers for
\* each code, and by handlers that found the code while it was good.
THEOREM ResetsAlways == Spec => []ResetsByCodes
<1>1. Inv /\ Resets => ResetsByCodes
  <2> SUFFICES ASSUME Inv, Resets PROVE ResetsByCodes
    OBVIOUS
  <2>1. ASSUME NEW u \in Users
        PROVE  passwords[u] <= Cardinality(ResetCodes(u)) * Cardinality(Procs)
    <3>1. passwords[u] + Cardinality(Pending(u)) <= Cardinality(ResetCodes(u)) * Cardinality(Procs)
      BY DEF Resets
    <3>2. Cardinality(ResetCodes(u)) * Cardinality(Procs) \in Nat
      BY PendingFinite, FS_CardinalityType DEF Resets
    <3>3. passwords[u] \in Nat /\ Cardinality(Pending(u)) \in Nat
      BY PendingFinite DEF Inv, TypeOK
    <3> QED
      BY <3>1, <3>2, <3>3
  <2> QED
    BY <2>1 DEF Inv, FoundInGrace, AfterFind, ResetsByCodes, ResetCodes
<1> QED
  BY <1>1, ResetsCorrect, PTL
=============================================================================
