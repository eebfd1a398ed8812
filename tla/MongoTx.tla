------------------------------ MODULE MongoTx ------------------------------
(***************************************************************************)
(* The part of MongoDB's multi-document transactions the backend relies    *)
(* on.  A handler calls connection.startSession() and startTransaction();  *)
(* its snapshot opens at the first operation that carries the session.     *)
(* A write that carries the session locks the document until the           *)
(* transaction ends; a write to a document that another open transaction   *)
(* has locked, or that anyone changed after the snapshot, is refused with  *)
(* a WriteConflict, which every handler answers with abortTransaction().   *)
(* A write without the session waits for the lock and takes effect at      *)
(* once.  Reads without the session see what is committed.                 *)
(***************************************************************************)
CONSTANT Procs      \* handlers (HTTP requests, queue workers) that may run at once

VARIABLES locks,    \* locks[p]: documents written by p's open transaction
          snap,     \* the handlers whose transaction has opened its snapshot
          stale     \* stale[p]: documents committed by others since p's snapshot

txVars == <<locks, snap, stale>>

TxTypeOK(Docs) ==
    /\ locks \in [Procs -> SUBSET Docs]
    /\ snap \in SUBSET Procs
    /\ stale \in [Procs -> SUBSET Docs]

TxInit ==
    /\ locks = [p \in Procs |-> {}]
    /\ snap = {}
    /\ stale = [p \in Procs |-> {}]

-----------------------------------------------------------------------------

\* No open transaction has written d: a write without a session goes through.
Free(d) == \A q \in Procs : d \notin locks[q]

\* A session write of p to d would be refused.
Conflict(p, d) ==
    \/ d \in stale[p]
    \/ \E q \in Procs \ {p} : d \in locks[q]

\* A write of p to d with the session.
SessionWrite(p, d) ==
    /\ ~Conflict(p, d)
    /\ locks' = [locks EXCEPT ![p] = @ \cup {d}]
    /\ snap' = snap \cup {p}
    /\ UNCHANGED stale

\* A write with the session that also changes entries of a unique index.
SessionWriteAll(p, D) ==
    /\ \A d \in D : ~Conflict(p, d)
    /\ locks' = [locks EXCEPT ![p] = @ \cup D]
    /\ snap' = snap \cup {p}
    /\ UNCHANGED stale

\* A read with the session only opens the snapshot.
SessionRead(p) ==
    /\ snap' = snap \cup {p}
    /\ UNCHANGED <<locks, stale>>

\* A write to d that takes effect at once: every open snapshot is now behind.
PlainWrite(d) ==
    /\ Free(d)
    /\ stale' = [q \in Procs |-> IF q \in snap THEN stale[q] \cup {d} ELSE stale[q]]
    /\ UNCHANGED <<locks, snap>>

PlainWriteAll(D) ==
    /\ \A d \in D : Free(d)
    /\ stale' = [q \in Procs |-> IF q \in snap THEN stale[q] \cup D ELSE stale[q]]
    /\ UNCHANGED <<locks, snap>>

\* The transaction of p commits: what it wrote is new to every other snapshot.
TxCommit(p) ==
    /\ locks' = [locks EXCEPT ![p] = {}]
    /\ snap' = snap \ {p}
    /\ stale' = [q \in Procs |->
                    IF q = p THEN {}
                    ELSE IF q \in snap THEN stale[q] \cup locks[p] ELSE stale[q]]

\* The transaction of p is abandoned.
TxAbort(p) ==
    /\ locks' = [locks EXCEPT ![p] = {}]
    /\ snap' = snap \ {p}
    /\ stale' = [stale EXCEPT ![p] = {}]

\* The server stops: the database abandons every open transaction.
TxCrash ==
    /\ locks' = [p \in Procs |-> {}]
    /\ snap' = {}
    /\ stale' = [p \in Procs |-> {}]

\* Two transactions never hold the same document (the mutual exclusion on
\* which the handlers' reasoning about a locked document rests).
LocksDisjoint ==
    \A p, q \in Procs : p # q => locks[p] \cap locks[q] = {}
=============================================================================
