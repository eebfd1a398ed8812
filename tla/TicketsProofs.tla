--------------------------- MODULE TicketsProofs ---------------------------
(***************************************************************************)
(* Proofs about Tickets for every set of tickets, files, messages and      *)
(* handlers.                                                               *)
(***************************************************************************)
EXTENDS Tickets, TLAPS

\* The steps and the targets of each operation.
StepsOf(o) ==
    CASE o = "none" -> {"idle"}
      [] o = "createTicket" -> {"upload", "save", "comment", "mail", "commit", "cleanup"}
      [] o = "createChat" -> {"read", "reopen", "upload", "save", "mail", "commit", "cleanup"}
      [] o = "close" -> {"close", "mail"}
      [] o = "removeChat" -> {"delete", "object"}
      [] o \in {"removeTicket", "deleteFile"} -> {"delete", "chats", "object", "commit"}

TargetsOf(o) ==
    CASE o = "none" -> {NoDoc}
      [] o \in {"createTicket", "close", "removeTicket"} -> Tickets
      [] o = "createChat" -> Messages \ Comments
      [] o = "removeChat" -> Messages
      [] o = "deleteFile" -> Files

Route(p) == pc[p] \in StepsOf(op[p]) /\ target[p] \in TargetsOf(op[p])

TypeInv == TypeOK /\ \A p \in Procs : Route(p)

Known(d) == IF d \in Messages THEN message[d] # "absent" ELSE status[d] # "absent"

CommentsOf(t) == {m \in Comments : MessageOf[m] = t}
KnownMessagesOf(s) == {m \in Messages : MessageOf[m] = s /\ message[m] # "absent"}

\* What the transaction of p has written at each step.
Written(p) ==
    LET d == target[p] IN
    CASE op[p] = "createTicket" ->
            locks[p] = (IF pc[p] \in {"comment", "mail", "commit"} THEN {d} ELSE {})
                       \cup (IF pc[p] \in {"mail", "commit"} THEN CommentsOf(d) ELSE {})
      [] op[p] = "createChat" ->
            locks[p] \subseteq (IF pc[p] = "cleanup" THEN {} ELSE {d, MessageOf[d]})
      [] op[p] \in {"removeTicket", "deleteFile"} ->
            locks[p] \subseteq (IF pc[p] = "delete" THEN {} ELSE {d} \cup KnownMessagesOf(d))
      [] OTHER -> locks[p] = {}

\* What p knows of the documents it works on: a creation is the only handler of
\* its document, which does not exist yet; the others were told of an existing one.
Aware(p) ==
    /\ Creating(p) => /\ ~Known(target[p])
                      /\ \A q \in Procs \ {p} : target[q] # target[p]
    /\ op[p] = "createChat" => Known(MessageOf[target[p]])
    /\ op[p] \in {"close", "removeTicket", "deleteFile"} => Known(target[p])

\* The object a creation has uploaded is still there when it commits.
Concerned(d) == d \in Tickets \/ MessageOf[d] \in Tickets
Uploaded(p) ==
    /\ Creating(p) /\ pc[p] \in {"save", "comment", "mail", "commit"}
    /\ target[p] \in Attached /\ Concerned(target[p])
    => target[p] \in store

FilesKnown == \A f \in Files : Known(f)

\* A ticket or a message of one that was ever saved has its object.
StoreInv == \A d \in Attached : Concerned(d) /\ Known(d) => d \in store

TempInv ==
    crashes = 0 => \A d \in temp : \E p \in Procs : Creating(p) /\ target[p] = d

TicketInv ==
    /\ \A p \in Procs : Written(p) /\ Aware(p) /\ Uploaded(p)
    /\ FilesKnown
    /\ StoreInv
    /\ CommentSavedWithTicket
    /\ TempInv

HandlersOK ==
    /\ pc \in [Procs -> Points]
    /\ op \in [Procs -> Operations]
    /\ target \in [Procs -> Docs \cup {NoDoc}]
    /\ reopening \subseteq Procs
    /\ \A p \in Procs : Route(p)

-----------------------------------------------------------------------------
(* Types. *)

\* What a route says of the target.
LEMMA RouteFacts ==
  ASSUME TypeInv, NEW p \in Procs
  PROVE  /\ pc[p] # "idle" => target[p] \in Docs /\ Subject(p) \in Subjects
         /\ pc[p] = "idle" => target[p] = NoDoc /\ op[p] = "none"
         /\ op[p] = "createTicket" => target[p] \in Tickets /\ Subject(p) = target[p]
         /\ op[p] = "createChat" =>
               target[p] \in Messages \ Comments /\ Subject(p) = MessageOf[target[p]]
         /\ op[p] = "deleteFile" => target[p] \in Files /\ Subject(p) = target[p]
         /\ op[p] \in {"close", "removeTicket"} =>
               target[p] \in Tickets /\ Subject(p) = target[p]
         /\ op[p] = "removeChat" => target[p] \in Messages
         /\ Creating(p) => pc[p] # "idle"
         /\ pc[p] = "cleanup" => Creating(p)
<1>1. Route(p) /\ op[p] \in Operations
  BY DEF TypeInv, TypeOK
<1> QED
  BY <1>1, TicketsAssumption
  DEF Route, StepsOf, TargetsOf, Operations, Docs, Subjects, Subject, Creating

LEMMA TakeTypes ==
  ASSUME TypeInv, NEW p \in Procs, NEW o \in Operations, NEW s \in StepsOf(o),
         NEW d \in TargetsOf(o), Take(p, o, d, s)
  PROVE  HandlersOK'
<1>1. s \in Points /\ d \in Docs \cup {NoDoc}
  BY DEF StepsOf, TargetsOf, Points, Operations, Docs, Subjects
<1> QED
  BY <1>1 DEF TypeInv, TypeOK, HandlersOK, Take, Route

LEMMA GotoTypes ==
  ASSUME TypeInv, NEW p \in Procs, NEW s \in StepsOf(op[p]), Goto(p, s)
  PROVE  HandlersOK'
<1>1. s \in Points
  BY DEF StepsOf, Points, Operations, TypeInv, TypeOK
<1> QED
  BY <1>1 DEF TypeInv, TypeOK, HandlersOK, Goto, Route

LEMMA LeaveTypes ==
  ASSUME TypeInv, NEW p \in Procs, Leave(p)
  PROVE  HandlersOK'
<1>1. "idle" \in StepsOf("none") /\ NoDoc \in TargetsOf("none") /\ "idle" \in Points
      /\ "none" \in Operations
  BY DEF StepsOf, TargetsOf, Points, Operations
<1> QED
  BY <1>1 DEF TypeInv, TypeOK, HandlersOK, Leave, Route

LEMMA GiveUpTypes ==
  ASSUME TypeInv, NEW p \in Procs, GiveUp(p)
  PROVE  HandlersOK' /\ TxTypeOK(Docs)'
<1>1. CASE Creating(p)
  <2>1. "cleanup" \in StepsOf(op[p])
    BY <1>1 DEF Creating, StepsOf
  <2> QED
    BY <1>1, <2>1, GotoTypes DEF GiveUp, TxAbort, TxTypeOK, TypeInv, TypeOK
<1>2. CASE ~Creating(p)
  BY <1>2, LeaveTypes DEF GiveUp, TxAbort, TxTypeOK, TypeInv, TypeOK
<1> QED
  BY <1>1, <1>2

LEMMA InitTypes == Init => TypeInv
BY TicketsAssumption
DEF Init, TypeInv, TypeOK, Route, StepsOf, TargetsOf, Points, Operations, MailTypes, TxTypeOK,
    TxInit, Subjects

\* What the database helpers do to the state of the transactions.
LEMMA TxTypes ==
  ASSUME TypeInv, NEW p \in Procs, NEW d \in Docs,
         \/ SessionWrite(p, d) \/ SessionRead(p) \/ PlainWrite(d)
         \/ TxCommit(p) \/ TxAbort(p) \/ UNCHANGED txVars
  PROVE  TxTypeOK(Docs)'
<1>0. TxTypeOK(Docs)
  BY DEF TypeInv, TypeOK
<1>1. CASE SessionWrite(p, d)
  BY <1>0, <1>1 DEF TxTypeOK, SessionWrite
<1>2. CASE SessionRead(p)
  BY <1>0, <1>2 DEF TxTypeOK, SessionRead
<1>3. CASE PlainWrite(d)
  BY <1>0, <1>3 DEF TxTypeOK, PlainWrite
<1>4. CASE TxCommit(p)
  BY <1>0, <1>4 DEF TxTypeOK, TxCommit
<1>5. CASE TxAbort(p)
  BY <1>0, <1>5 DEF TxTypeOK, TxAbort
<1>6. CASE UNCHANGED txVars
  BY <1>0, <1>6 DEF TxTypeOK, txVars
<1> QED
  BY <1>1, <1>2, <1>3, <1>4, <1>5, <1>6

\* A request changes nothing but its handler and what was uploaded.
LEMMA RequestTypes ==
  ASSUME TypeInv, NEW p \in Procs, Request(p)
  PROVE  TypeInv'
<1>1. HandlersOK'
  <2>1. ASSUME NEW t \in Tickets, CreateTicket(p, t) PROVE HandlersOK'
    BY <2>1, TakeTypes DEF CreateTicket, Operations, StepsOf, TargetsOf
  <2>2. ASSUME NEW t \in Tickets, Close(p, t) \/ RemoveTicket(p, t) PROVE HandlersOK'
    BY <2>2, TakeTypes DEF Close, RemoveTicket, Operations, StepsOf, TargetsOf
  <2>3. ASSUME NEW m \in Messages, CreateChat(p, m) \/ RemoveChat(p, m) PROVE HandlersOK'
    BY <2>3, TakeTypes DEF CreateChat, RemoveChat, Operations, StepsOf, TargetsOf
  <2>4. ASSUME NEW f \in Files, DeleteFileService(p, f) PROVE HandlersOK'
    BY <2>4, TakeTypes DEF DeleteFileService, Operations, StepsOf, TargetsOf
  <2> QED
    BY <2>1, <2>2, <2>3, <2>4 DEF Request
<1>2. temp' \subseteq Attached
  BY DEF Request, CreateTicket, CreateChat, Close, RemoveTicket, RemoveChat,
         DeleteFileService, Received, TypeInv, TypeOK
<1>3. UNCHANGED <<status, message, store, mail, txVars, boundVars>>
  BY DEF Request, CreateTicket, CreateChat, Close, RemoveTicket, RemoveChat,
         DeleteFileService
<1> QED
  BY <1>1, <1>2, <1>3 DEF TypeInv, TypeOK, HandlersOK, TxTypeOK, txVars, boundVars

\* The steps of a creation up to its commit.
LEMMA CreationTypes ==
  ASSUME TypeInv, NEW p \in Procs,
         \/ ReadSubject(p) \/ Reopen(p) \/ Upload(p) \/ Save(p)
         \/ SaveComment(p) \/ Notify(p) \/ CleanUp(p)
  PROVE  TypeInv'
<1>0. Route(p) /\ op[p] \in Operations /\ pc[p] # "idle"
  BY DEF TypeInv, TypeOK, ReadSubject, Reopen, Upload, Save, SaveComment, Notify, CleanUp
<1>1. CASE ReadSubject(p)
  <2>1. pc[p] = "read" /\ op[p] = "createChat"
    BY <1>0, <1>1 DEF ReadSubject, Route, StepsOf, Operations
  <2>2. \E s \in StepsOf(op[p]) : Goto(p, s)
    BY <2>1, <1>1 DEF ReadSubject, StepsOf
  <2>3. TxTypeOK(Docs)'
    BY <1>0, <1>1, TxTypes, RouteFacts DEF ReadSubject
  <2> QED
    BY <1>1, <2>2, <2>3, GotoTypes DEF ReadSubject, TypeInv, TypeOK, HandlersOK, boundVars
<1>2. CASE Reopen(p)
  <2>1. pc[p] = "reopen" /\ op[p] = "createChat"
    BY <1>0, <1>2 DEF Reopen, Route, StepsOf, Operations
  <2>2. "upload" \in StepsOf(op[p]) /\ "upload" \in Points
    BY <2>1 DEF StepsOf, Points
  <2>3. TxTypeOK(Docs)'
    BY <1>0, <1>2, TxTypes, RouteFacts DEF Reopen, Docs
  <2>4. HandlersOK'
    BY <1>2, <2>2 DEF Reopen, HandlersOK, TypeInv, TypeOK, Route
  <2> QED
    BY <1>2, <2>3, <2>4 DEF Reopen, TypeInv, TypeOK, HandlersOK, boundVars
<1>3. CASE Upload(p)
  <2>1. "save" \in StepsOf(op[p])
    BY <1>0, <1>3 DEF Upload, Route, StepsOf, Operations
  <2>2. HandlersOK' /\ store' \subseteq Attached
    BY <1>3, <2>1, GotoTypes DEF Upload, TypeInv, TypeOK
  <2> QED
    BY <1>3, <2>2 DEF Upload, TypeInv, TypeOK, HandlersOK, boundVars, txVars, TxTypeOK
<1>4. CASE Save(p)
  <2>1. \E s \in StepsOf(op[p]) : Goto(p, s)
    BY <1>0, <1>4 DEF Save, Route, StepsOf, Operations
  <2>2. HandlersOK' /\ TxTypeOK(Docs)'
    BY <1>0, <1>4, <2>1, GotoTypes, TxTypes, RouteFacts DEF Save
  <2> QED
    BY <1>4, <2>2 DEF Save, TypeInv, TypeOK, HandlersOK, boundVars
<1>5. CASE SaveComment(p)
  <2>1. "mail" \in StepsOf(op[p])
    BY <1>0, <1>5 DEF SaveComment, Route, StepsOf, Operations
  <2>2. HandlersOK'
    BY <1>5, <2>1, GotoTypes DEF SaveComment
  <2>3. TxTypeOK(Docs)'
    BY <1>5, TicketsAssumption DEF SaveComment, TxTypeOK, TypeInv, TypeOK, Docs
  <2> QED
    BY <1>5, <2>2, <2>3 DEF SaveComment, TypeInv, TypeOK, HandlersOK, boundVars
<1>6. CASE Notify(p)
  <2>1. "commit" \in StepsOf(op[p])
    BY <1>6 DEF Notify, Creating, StepsOf
  <2>2. HandlersOK'
    BY <1>6, <2>1, GotoTypes DEF Notify
  <2>3. mail' \in [Subjects -> MailTypes]
    BY <1>6 DEF Notify, TypeInv, TypeOK, MailTypes
  <2> QED
    BY <1>6, <2>2, <2>3 DEF Notify, TypeInv, TypeOK, HandlersOK, boundVars, txVars, TxTypeOK
<1>7. CASE CleanUp(p)
  <2>1. HandlersOK' /\ store' \subseteq Attached /\ temp' \subseteq Attached
    BY <1>7, LeaveTypes DEF CleanUp, TypeInv, TypeOK
  <2> QED
    BY <1>7, <2>1 DEF CleanUp, TypeInv, TypeOK, HandlersOK, boundVars, txVars, TxTypeOK
<1> QED
  BY <1>1, <1>2, <1>3, <1>4, <1>5, <1>6, <1>7

\* The steps that close and remove.
LEMMA RemovalTypes ==
  ASSUME TypeInv, NEW p \in Procs,
         \/ CloseSupportTicket(p) \/ NotifyClosed(p) \/ DeleteDocument(p)
         \/ DeleteInSession(p) \/ DeleteChats(p) \/ DeleteObject(p) \/ DeleteFolder(p)
  PROVE  TypeInv'
<1>0. Route(p) /\ op[p] \in Operations /\ pc[p] # "idle" /\ target[p] \in Docs
  BY RouteFacts
  DEF TypeInv, TypeOK, CloseSupportTicket, NotifyClosed, DeleteDocument, DeleteInSession,
      DeleteChats, DeleteObject, DeleteFolder
<1>1. CASE CloseSupportTicket(p)
  <2>1. "mail" \in StepsOf(op[p])
    BY <1>0, <1>1 DEF CloseSupportTicket, Route, StepsOf, Operations
  <2>2. HandlersOK'
    BY <1>1, <2>1, GotoTypes, LeaveTypes DEF CloseSupportTicket
  <2>3. TxTypeOK(Docs)'
    BY <1>0, <1>1, TxTypes DEF CloseSupportTicket
  <2>4. status' \in [Subjects -> {"absent", "OPEN", "CLOSED", "deleted"}]
    BY <1>1 DEF CloseSupportTicket, TypeInv, TypeOK
  <2> QED
    BY <1>1, <2>2, <2>3, <2>4 DEF CloseSupportTicket, TypeInv, TypeOK, HandlersOK, boundVars
<1>2. CASE NotifyClosed(p)
  <2>1. HandlersOK' /\ mail' \in [Subjects -> MailTypes]
    BY <1>2, LeaveTypes DEF NotifyClosed, TypeInv, TypeOK, MailTypes
  <2> QED
    BY <1>2, <2>1 DEF NotifyClosed, TypeInv, TypeOK, HandlersOK, boundVars, txVars, TxTypeOK
<1>3. CASE DeleteDocument(p)
  <2>1. /\ op[p] \in {"removeTicket", "removeChat"}
        /\ target[p] \in Messages => op[p] = "removeChat"
        /\ target[p] \notin Messages => op[p] = "removeTicket"
    BY <1>0, <1>3, TicketsAssumption
    DEF DeleteDocument, Route, StepsOf, TargetsOf, Operations, Subjects
  <2>2. Leave(p) \/ \E s \in StepsOf(op[p]) : Goto(p, s)
    BY <2>1, <1>3 DEF DeleteDocument, StepsOf
  <2>3. HandlersOK' /\ TxTypeOK(Docs)'
    BY <1>0, <1>3, <2>2, GotoTypes, LeaveTypes, TxTypes DEF DeleteDocument
  <2>4. /\ status' \in [Subjects -> {"absent", "OPEN", "CLOSED", "deleted"}]
        /\ message' \in [Messages -> {"absent", "saved", "deleted"}]
    BY <1>3 DEF DeleteDocument, TypeInv, TypeOK
  <2> QED
    BY <1>3, <2>3, <2>4 DEF DeleteDocument, TypeInv, TypeOK, HandlersOK, boundVars
<1>4. CASE DeleteInSession(p)
  <2>1. "chats" \in StepsOf(op[p])
    BY <1>4 DEF DeleteInSession, StepsOf
  <2>2. HandlersOK' /\ TxTypeOK(Docs)'
    BY <1>0, <1>4, <2>1, GotoTypes, TxTypes DEF DeleteInSession
  <2> QED
    BY <1>4, <2>2 DEF DeleteInSession, TypeInv, TypeOK, HandlersOK, boundVars
<1>5. CASE DeleteChats(p)
  <2>1. "object" \in StepsOf(op[p])
    BY <1>0, <1>5 DEF DeleteChats, Route, StepsOf, Operations
  <2>2. HandlersOK'
    BY <1>5, <2>1, GotoTypes DEF DeleteChats
  <2>3. TxTypeOK(Docs)'
    BY <1>5 DEF DeleteChats, TxTypeOK, TypeInv, TypeOK, Docs
  <2> QED
    BY <1>5, <2>2, <2>3 DEF DeleteChats, TypeInv, TypeOK, HandlersOK, boundVars
<1>6. CASE DeleteObject(p)
  <2>1. op[p] = "removeTicket" => "commit" \in StepsOf(op[p])
    BY DEF StepsOf
  <2>2. HandlersOK'
    BY <1>6, <2>1, GotoTypes, LeaveTypes DEF DeleteObject
  <2> QED
    BY <1>6, <2>2 DEF DeleteObject, TypeInv, TypeOK, HandlersOK, boundVars, txVars, TxTypeOK
<1>7. CASE DeleteFolder(p)
  <2>1. "commit" \in StepsOf(op[p])
    BY <1>7 DEF DeleteFolder, StepsOf
  <2>2. HandlersOK' /\ store' \subseteq Attached
    BY <1>7, <2>1, GotoTypes DEF DeleteFolder, TypeInv, TypeOK
  <2> QED
    BY <1>7, <2>2 DEF DeleteFolder, TypeInv, TypeOK, HandlersOK, boundVars, txVars, TxTypeOK
<1> QED
  BY <1>1, <1>2, <1>3, <1>4, <1>5, <1>6, <1>7

\* How handlers end, and what happens without one.
LEMMA EndTypes ==
  ASSUME TypeInv, NEW p \in Procs, Commit(p) \/ WriteConflict(p) \/ Fail(p)
  PROVE  TypeInv'
<1>0. pc[p] # "idle" /\ target[p] \in Docs
  BY RouteFacts DEF Commit, WriteConflict, Fail
<1>1. CASE Commit(p)
  <2>1. HandlersOK' /\ TxTypeOK(Docs)'
    BY <1>0, <1>1, LeaveTypes, TxTypes DEF Commit
  <2>2. status' \in [Subjects -> {"absent", "OPEN", "CLOSED", "deleted"}]
    BY <1>1 DEF Commit, TypeInv, TypeOK
  <2>3. message' \in [Messages -> {"absent", "saved", "deleted"}]
    BY <1>1 DEF Commit, TypeInv, TypeOK
  <2>4. temp' \subseteq Attached
    BY <1>1 DEF Commit, TypeInv, TypeOK
  <2> QED
    BY <1>1, <2>1, <2>2, <2>3, <2>4 DEF Commit, TypeInv, TypeOK, HandlersOK, boundVars
<1>2. CASE WriteConflict(p)
  BY <1>2, GiveUpTypes DEF WriteConflict, TypeInv, TypeOK, HandlersOK, boundVars
<1>3. CASE Fail(p)
  <2>1. faults' \in 0 .. MaxFaults
    BY <1>3, TicketsAssumption DEF Fail, TypeInv, TypeOK
  <2>2. HandlersOK' /\ TxTypeOK(Docs)' /\ temp' \subseteq Attached
    BY <1>0, <1>3, GiveUpTypes, LeaveTypes, TxTypes DEF Fail, TypeInv, TypeOK
  <2> QED
    BY <1>3, <2>1, <2>2 DEF Fail, TypeInv, TypeOK, HandlersOK
<1> QED
  BY <1>1, <1>2, <1>3

LEMMA OtherTypes ==
  ASSUME TypeInv, Crash \/ (\E f \in Files : FileCloses(f)) \/ UNCHANGED vars
  PROVE  TypeInv'
<1>1. CASE Crash
  <2>1. crashes' \in 0 .. MaxCrashes
    BY <1>1, TicketsAssumption DEF Crash, TypeInv, TypeOK
  <2>2. TxTypeOK(Docs)'
    BY <1>1 DEF Crash, TxCrash, TxTypeOK
  <2>3. HandlersOK'
    BY <1>1 DEF Crash, HandlersOK, Route, StepsOf, TargetsOf, Points, Operations
  <2> QED
    BY <1>1, <2>1, <2>2, <2>3 DEF Crash, TypeInv, TypeOK, HandlersOK
<1>2. ASSUME NEW f \in Files, FileCloses(f) PROVE TypeInv'
  <2>1. TxTypeOK(Docs)'
    BY <1>2 DEF FileCloses, PlainWrite, TxTypeOK, TypeInv, TypeOK, Docs, Subjects
  <2>2. status' \in [Subjects -> {"absent", "OPEN", "CLOSED", "deleted"}]
    BY <1>2 DEF FileCloses, TypeInv, TypeOK
  <2> QED
    BY <1>2, <2>1, <2>2 DEF FileCloses, TypeInv, TypeOK, Route, boundVars, procVars
<1>3. CASE UNCHANGED vars
  BY <1>3 DEF vars, TypeInv, TypeOK, Route, boundVars, procVars, txVars, TxTypeOK
<1> QED
  BY <1>1, <1>2, <1>3

LEMMA TypeNext == TypeInv /\ [Next]_vars => TypeInv'
<1> SUFFICES ASSUME TypeInv, [Next]_vars PROVE TypeInv'
  OBVIOUS
<1>1. ASSUME NEW p \in Procs, Request(p) \/ HandlerStep(p) PROVE TypeInv'
  BY <1>1, RequestTypes, CreationTypes, RemovalTypes, EndTypes DEF HandlerStep
<1> QED
  BY <1>1, OtherTypes DEF Next

LEMMA TypeInvCorrect == Spec => []TypeInv
BY InitTypes, TypeNext, PTL DEF Spec

\* Every document, object and handler keeps its type, and no handler is at a
\* step, or works on a document, that its operation does not have.
THEOREM TypeCorrect == Spec => []TypeOK
<1>1. TypeInv => TypeOK
  BY DEF TypeInv
<1> QED
  BY <1>1, TypeInvCorrect, PTL

-----------------------------------------------------------------------------
(* Documents and objects. *)

\* All handlers but p stay where they are.
Still(p) ==
    \A q \in Procs \ {p} : /\ pc'[q] = pc[q] /\ op'[q] = op[q]
                           /\ target'[q] = target[q] /\ locks'[q] = locks[q]

\* A step of p takes nothing away from the other handlers.
Spares(p) ==
    /\ \A d \in Docs : Known(d) => Known(d)'
    /\ \A q \in Procs \ {p} : Creating(q) =>
          /\ ~Known(target[q])'
          /\ target'[p] # target[q]
          /\ Concerned(target[q]) /\ target[q] \in store => target[q] \in store'

LEMMA OthersKept ==
  ASSUME TypeInv, TypeInv', TicketInv, NEW p \in Procs, Still(p), Spares(p),
         Written(p)', Aware(p)', Uploaded(p)'
  PROVE  \A q \in Procs : Written(q)' /\ Aware(q)' /\ Uploaded(q)'
<1> SUFFICES ASSUME NEW q \in Procs, q # p PROVE Written(q)' /\ Aware(q)' /\ Uploaded(q)'
  OBVIOUS
<1>1. /\ pc'[q] = pc[q] /\ op'[q] = op[q] /\ target'[q] = target[q] /\ locks'[q] = locks[q]
      /\ Written(q) /\ Aware(q) /\ Uploaded(q)
  BY DEF Still, TicketInv
<1>2. ASSUME NEW s PROVE KnownMessagesOf(s) \subseteq KnownMessagesOf(s)'
  BY DEF KnownMessagesOf, Spares, Known, Docs
<1>3. Written(q)'
  BY <1>1, <1>2 DEF Written, CommentsOf
<1>4. Creating(q)' <=> Creating(q)
  BY <1>1 DEF Creating
<1>5. \A r \in Procs : Creating(q) /\ r # q => target'[r] # target'[q]
  BY <1>1 DEF Aware, Still, Spares
<1>6. op[q] = "createChat" => Known(MessageOf[target[q]])'
  <2> SUFFICES ASSUME op[q] = "createChat" PROVE Known(MessageOf[target[q]])'
    OBVIOUS
  <2>1. MessageOf[target[q]] \in Docs
    BY RouteFacts, TicketsAssumption DEF Docs
  <2> QED
    BY <1>1, <2>1 DEF Aware, Spares
<1>7. op[q] \in {"close", "removeTicket", "deleteFile"} => Known(target[q])'
  <2> SUFFICES ASSUME op[q] \in {"close", "removeTicket", "deleteFile"} PROVE Known(target[q])'
    OBVIOUS
  <2>1. target[q] \in Docs
    BY RouteFacts DEF Docs, Subjects
  <2> QED
    BY <1>1, <2>1 DEF Aware, Spares
<1>8. Aware(q)'
  BY <1>1, <1>4, <1>5, <1>6, <1>7 DEF Aware, Spares, Known
<1>9. Uploaded(q)'
  BY <1>1, <1>4 DEF Uploaded, Concerned, Spares
<1> QED
  BY <1>3, <1>8, <1>9

\* An upload stays only with the handler that received it.
LEMMA TempKept ==
  ASSUME TempInv, NEW p \in Procs, Still(p), crashes' = crashes,
         \A d \in temp' : d \in temp \/ (Creating(p)' /\ target'[p] = d),
         Creating(p) => (Creating(p)' /\ target'[p] = target[p]) \/ target[p] \notin temp'
  PROVE  TempInv'
<1> SUFFICES ASSUME crashes = 0, NEW d \in temp'
             PROVE  \E q \in Procs : Creating(q)' /\ target'[q] = d
  BY DEF TempInv, Creating
<1>1. CASE d \in temp
  <2>1. PICK q \in Procs : Creating(q) /\ target[q] = d
    BY <1>1 DEF TempInv
  <2> QED
    BY <2>1 DEF Still, Creating
<1> QED
  BY <1>1

\* Steps after which the same documents are known and no object is lost.
LEMMA QuietKept ==
  ASSUME TicketInv, \A d \in Docs : Known(d)' <=> Known(d),
         \A d \in Attached : d \in store /\ Concerned(d) /\ Known(d) => d \in store'
  PROVE  FilesKnown' /\ StoreInv' /\ CommentSavedWithTicket'
<1>0. FilesKnown'
  BY DEF TicketInv, FilesKnown, Docs, Subjects
<1>1. \A d \in Attached : d \in Docs
  BY TicketsAssumption DEF Docs, Subjects
<1>2. StoreInv'
  BY <1>1 DEF TicketInv, StoreInv, Concerned
<1>3. \A m \in Comments : /\ m \in Docs /\ m \in Messages
                         /\ MessageOf[m] \in Docs /\ MessageOf[m] \notin Messages
  BY TicketsAssumption DEF Docs, Subjects
<1>4. CommentSavedWithTicket'
  BY <1>3 DEF TicketInv, CommentSavedWithTicket, Known
<1> QED
  BY <1>0, <1>2, <1>4

\* Who works on a document that is not there yet is the handler that creates it.
LEMMA CreatingFacts ==
  ASSUME TypeInv, TicketInv, NEW p \in Procs, NEW q \in Procs, p # q, Creating(q)
  PROVE  target[p] # target[q] /\ ~Known(target[q]) /\ target[q] \in Docs
BY RouteFacts DEF TicketInv, Aware

LEMMA InitTickets == Init => TicketInv
BY TicketsAssumption
DEF Init, TicketInv, Written, Aware, Uploaded, FilesKnown, StoreInv,
    CommentSavedWithTicket, TempInv,
    Creating, TxInit, Known, Concerned, Subjects

\* A step of p that makes no document known.
LEMMA QuietStep ==
  ASSUME TypeInv, TypeInv', TicketInv, NEW p \in Procs, Still(p), crashes' = crashes,
         \A d \in Docs : Known(d)' <=> Known(d),
         \A q \in Procs \ {p} : Creating(q) => target'[p] # target[q],
         \A d \in Attached \cap store : Concerned(d) =>
             d \in store' \/ (Creating(p) /\ target[p] = d),
         \A d \in temp' : d \in temp \/ (Creating(p)' /\ target'[p] = d),
         Creating(p) => (Creating(p)' /\ target'[p] = target[p]) \/ target[p] \notin temp',
         Written(p)', Aware(p)', Uploaded(p)'
  PROVE  TicketInv'
<1>1. Spares(p)
  <2>1. ASSUME NEW q \in Procs \ {p}, Creating(q)
        PROVE  /\ ~Known(target[q])'
               /\ Concerned(target[q]) /\ target[q] \in store => target[q] \in store'
    <3>1. target[p] # target[q] /\ ~Known(target[q]) /\ target[q] \in Docs
      BY <2>1, CreatingFacts
    <3>2. target[q] \in store => target[q] \in Attached
      BY DEF TypeInv, TypeOK
    <3>3. target'[q] = target[q]
      BY DEF Still
    <3>4. ~Known(target[q])'
      BY <3>1, <3>3
    <3> QED
      BY <3>1, <3>2, <3>4
  <2> QED
    BY <2>1 DEF Spares
<1>2. \A d \in Attached : d \in store /\ Concerned(d) /\ Known(d) => d \in store'
  BY DEF TicketInv, Aware
<1>3. FilesKnown' /\ StoreInv' /\ CommentSavedWithTicket'
  BY <1>2, QuietKept
<1>4. TempInv'
  BY TempKept DEF TicketInv
<1> QED
  BY <1>1, <1>3, <1>4, OthersKept DEF TicketInv

\* A handler that only moves on, or goes away, makes nothing known and is in
\* nobody's way.
LEMMA MovesOn ==
  ASSUME TypeInv, TicketInv, NEW p \in Procs, Still(p), UNCHANGED <<status, message>>,
         (op'[p] = op[p] /\ target'[p] = target[p]) \/ (op'[p] = "none" /\ target'[p] = NoDoc)
  PROVE  /\ Aware(p)'
         /\ \A q \in Procs \ {p} : Creating(q) => target'[p] # target[q]
         /\ \A d \in Docs : Known(d)' <=> Known(d)
<1>1. \A d \in Docs : Known(d)' <=> Known(d)
  BY DEF Known
<1>2. ASSUME NEW q \in Procs \ {p}, Creating(q) PROVE target'[p] # target[q]
  BY <1>2, CreatingFacts, TicketsAssumption
<1>3. Aware(p)'
  <2>1. CASE op'[p] = "none"
    BY <2>1 DEF Aware, Creating
  <2>2. CASE op'[p] = op[p] /\ target'[p] = target[p]
    BY <2>2 DEF TicketInv, Aware, Creating, Known, Still
  <2> QED
    BY <2>1, <2>2
<1> QED
  BY <1>1, <1>2, <1>3

LEMMA GotoStill ==
  ASSUME TypeInv, NEW p \in Procs, NEW s, Goto(p, s),
         \A q \in Procs \ {p} : locks'[q] = locks[q]
  PROVE  Still(p) /\ pc'[p] = s /\ op'[p] = op[p] /\ target'[p] = target[p]
BY DEF TypeInv, TypeOK, Goto, Still

LEMMA LeaveStill ==
  ASSUME TypeInv, NEW p \in Procs, Leave(p),
         \A q \in Procs \ {p} : locks'[q] = locks[q]
  PROVE  Still(p) /\ pc'[p] = "idle" /\ op'[p] = "none" /\ target'[p] = NoDoc
BY DEF TypeInv, TypeOK, Leave, Still

LEMMA LocksAfter ==
  ASSUME TypeInv, NEW p \in Procs, NEW d
  PROVE  /\ SessionWrite(p, d) =>
               /\ locks'[p] = locks[p] \cup {d}
               /\ \A q \in Procs \ {p} : locks'[q] = locks[q]
         /\ SessionRead(p) => locks' = locks
         /\ TxAbort(p) => locks'[p] = {} /\ \A q \in Procs \ {p} : locks'[q] = locks[q]
         /\ PlainWrite(d) => locks' = locks
BY DEF TypeInv, TypeOK, TxTypeOK, SessionWrite, SessionRead, TxAbort, PlainWrite

\* A handler that left has nothing locked, nothing to be aware of.
LEMMA Gone ==
  ASSUME NEW p \in Procs, op'[p] = "none"
  PROVE  ~Creating(p)' /\ Uploaded(p)' /\ (Written(p)' <=> locks'[p] = {})
BY DEF Creating, Uploaded, Written

-----------------------------------------------------------------------------
(* What each step does to them. *)

\* An abandoned transaction: a creation has its clean-up before it.
LEMMA GiveUpKeeps ==
  ASSUME TypeInv, TypeInv', TicketInv, NEW p \in Procs, GiveUp(p),
         UNCHANGED <<status, message, store, temp, crashes>>
  PROVE  TicketInv'
<1>1. CASE Creating(p)
  <2>1. /\ Still(p) /\ op'[p] = op[p] /\ target'[p] = target[p] /\ pc'[p] = "cleanup"
        /\ locks'[p] = {} /\ Creating(p)'
    BY <1>1, GotoStill, LocksAfter DEF GiveUp, Creating
  <2>2. Written(p)' /\ Uploaded(p)'
    BY <1>1, <2>1 DEF Written, Uploaded, Creating
  <2>3. /\ Aware(p)'
        /\ \A q \in Procs \ {p} : Creating(q) => target'[p] # target[q]
        /\ \A d \in Docs : Known(d)' <=> Known(d)
    BY <2>1, MovesOn
  <2> QED
    BY <2>1, <2>2, <2>3, QuietStep
<1>2. CASE ~Creating(p)
  <2>1. /\ Still(p) /\ op'[p] = "none" /\ target'[p] = NoDoc /\ pc'[p] = "idle"
        /\ locks'[p] = {} /\ ~Creating(p)'
    BY <1>2, LeaveStill, LocksAfter DEF GiveUp, Creating
  <2>2. Written(p)' /\ Uploaded(p)'
    BY <2>1, Gone
  <2>3. /\ Aware(p)'
        /\ \A q \in Procs \ {p} : Creating(q) => target'[p] # target[q]
        /\ \A d \in Docs : Known(d)' <=> Known(d)
    BY <2>1, MovesOn
  <2> QED
    BY <1>2, <2>1, <2>2, <2>3, QuietStep
<1> QED
  BY <1>1, <1>2

\* A step that writes, or reads, in the session and goes on.
LEMMA GoOnKeeps ==
  ASSUME TypeInv, TypeInv', TicketInv, NEW p \in Procs, Still(p),
         op'[p] = op[p], target'[p] = target[p],
         UNCHANGED <<status, message, store, temp, crashes>>,
         Written(p)', Uploaded(p)'
  PROVE  TicketInv'
<1>1. /\ Aware(p)'
      /\ \A q \in Procs \ {p} : Creating(q) => target'[p] # target[q]
      /\ \A d \in Docs : Known(d)' <=> Known(d)
  BY MovesOn
<1>2. Creating(p)' <=> Creating(p)
  BY DEF Creating
<1> QED
  BY <1>1, <1>2, QuietStep

LEMMA CreationKeeps ==
  ASSUME TypeInv, TypeInv', TicketInv, NEW p \in Procs,
         \/ ReadSubject(p) \/ Reopen(p) \/ Save(p) \/ SaveComment(p) \/ Notify(p)
  PROVE  TicketInv'
<1>0. /\ Route(p) /\ op[p] \in Operations /\ Written(p) /\ Uploaded(p)
      /\ UNCHANGED <<status, message, store, temp, crashes>>
  BY DEF TypeInv, TypeOK, TicketInv, ReadSubject, Reopen, Save, SaveComment, Notify, boundVars
<1>1. CASE ReadSubject(p)
  <2>1. pc[p] = "read" /\ op[p] = "createChat" /\ Creating(p)
    BY <1>0, <1>1 DEF ReadSubject, Route, StepsOf, Operations, Creating
  <2>2. CASE TxAbort(p) /\ Goto(p, "cleanup")
    BY <1>0, <2>1, <2>2, GiveUpKeeps DEF GiveUp
  <2>3. ASSUME NEW s \in {"reopen", "upload"}, SessionRead(p), Goto(p, s) PROVE TicketInv'
    <3>1. /\ Still(p) /\ op'[p] = op[p] /\ target'[p] = target[p] /\ pc'[p] = s
          /\ locks' = locks
      BY <2>3, GotoStill, LocksAfter
    <3>2. Written(p)' /\ Uploaded(p)'
      BY <1>0, <2>1, <3>1 DEF Written, Uploaded
    <3> QED
      BY <1>0, <3>1, <3>2, GoOnKeeps
  <2> QED
    BY <1>1, <2>2, <2>3 DEF ReadSubject
<1>2. CASE Reopen(p)
  <2>1. pc[p] = "reopen" /\ op[p] = "createChat" /\ Subject(p) = MessageOf[target[p]]
    BY <1>0, <1>2, RouteFacts DEF Reopen, Route, StepsOf, Operations
  <2>2. /\ Still(p) /\ op'[p] = op[p] /\ target'[p] = target[p] /\ pc'[p] = "upload"
        /\ locks'[p] = locks[p] \cup {Subject(p)}
    BY <1>2, LocksAfter DEF Reopen, Still, TypeInv, TypeOK
  <2>3. Written(p)' /\ Uploaded(p)'
    BY <1>0, <2>1, <2>2 DEF Written, Uploaded
  <2> QED
    BY <1>0, <2>2, <2>3, GoOnKeeps
<1>3. CASE Save(p)
  <2>1. pc[p] = "save" /\ op[p] \in {"createTicket", "createChat"}
    BY <1>0, <1>3 DEF Save, Route, StepsOf, Operations
  <2>2. /\ Still(p) /\ op'[p] = op[p] /\ target'[p] = target[p]
        /\ pc'[p] = (IF op[p] = "createTicket" THEN "comment" ELSE "mail")
        /\ locks'[p] = locks[p] \cup {target[p]}
    BY <1>3, GotoStill, LocksAfter DEF Save
  <2>3. Written(p)' /\ Uploaded(p)'
    BY <1>0, <2>1, <2>2 DEF Written, Uploaded, Creating, Concerned
  <2> QED
    BY <1>0, <2>2, <2>3, GoOnKeeps
<1>4. CASE SaveComment(p)
  <2>1. pc[p] = "comment" /\ op[p] = "createTicket"
    BY <1>0, <1>4 DEF SaveComment, Route, StepsOf, Operations
  <2>2. /\ locks'[p] = locks[p] \cup CommentsOf(target[p])
        /\ \A q \in Procs \ {p} : locks'[q] = locks[q]
    BY <1>4 DEF SaveComment, CommentsOf, TypeInv, TypeOK, TxTypeOK
  <2>3. /\ Still(p) /\ op'[p] = op[p] /\ target'[p] = target[p] /\ pc'[p] = "mail"
    BY <1>4, <2>2, GotoStill DEF SaveComment
  <2>4. Written(p)' /\ Uploaded(p)'
    BY <1>0, <2>1, <2>2, <2>3 DEF Written, Uploaded, Creating, Concerned, CommentsOf
  <2> QED
    BY <1>0, <2>3, <2>4, GoOnKeeps
<1>5. CASE Notify(p)
  <2>1. pc[p] = "mail" /\ op[p] \in {"createTicket", "createChat"}
    BY <1>5 DEF Notify, Creating
  <2>2. /\ Still(p) /\ op'[p] = op[p] /\ target'[p] = target[p] /\ pc'[p] = "commit"
        /\ locks' = locks
    BY <1>5, GotoStill DEF Notify, txVars
  <2>3. Written(p)' /\ Uploaded(p)'
    BY <1>0, <2>1, <2>2 DEF Written, Uploaded, Creating, Concerned, CommentsOf
  <2> QED
    BY <1>0, <2>2, <2>3, GoOnKeeps
<1> QED
  BY <1>1, <1>2, <1>3, <1>4, <1>5

LEMMA UploadKeeps ==
  ASSUME TypeInv, TypeInv', TicketInv, NEW p \in Procs, Upload(p)
  PROVE  TicketInv'
<1>0. /\ pc[p] = "upload" /\ op[p] \in {"createTicket", "createChat"} /\ Written(p)
      /\ UNCHANGED <<status, message, temp, crashes>>
  BY DEF TypeInv, TypeOK, TicketInv, Upload, Route, StepsOf, Operations, boundVars
<1>1. /\ Still(p) /\ op'[p] = op[p] /\ target'[p] = target[p] /\ pc'[p] = "save"
      /\ locks' = locks /\ (Creating(p)' <=> Creating(p))
  BY GotoStill DEF Upload, txVars, Creating
<1>2. Written(p)'
  BY <1>0, <1>1 DEF Written
<1>3. Uploaded(p)' /\ store \subseteq store'
  BY <1>0, <1>1 DEF Uploaded, Upload
<1>4. /\ Aware(p)'
      /\ \A q \in Procs \ {p} : Creating(q) => target'[p] # target[q]
      /\ \A d \in Docs : Known(d)' <=> Known(d)
  BY <1>0, <1>1, MovesOn
<1> QED
  BY <1>0, <1>1, <1>2, <1>3, <1>4, QuietStep

\* The object and the upload that go belong to the creation that failed.
LEMMA CleanUpKeeps ==
  ASSUME TypeInv, TypeInv', TicketInv, NEW p \in Procs, pc[p] = "cleanup", Leave(p),
         UNCHANGED <<status, message, locks, crashes>>,
         store' \in {store, store \ {target[p]}}, temp' = temp \ {target[p]}
  PROVE  TicketInv'
<1>0. Creating(p) /\ locks[p] = {}
  BY RouteFacts DEF TicketInv, Written, Creating
<1>1. /\ Still(p) /\ op'[p] = "none" /\ target'[p] = NoDoc /\ locks'[p] = {}
  BY <1>0, LeaveStill
<1>2. Written(p)' /\ Uploaded(p)'
  BY <1>1, Gone
<1>3. /\ Aware(p)'
      /\ \A q \in Procs \ {p} : Creating(q) => target'[p] # target[q]
      /\ \A d \in Docs : Known(d)' <=> Known(d)
  BY <1>1, MovesOn
<1> QED
  BY <1>0, <1>1, <1>2, <1>3, QuietStep

LEMMA TakeStill ==
  ASSUME TypeInv, NEW p \in Procs, NEW o, NEW d, NEW s, Take(p, o, d, s), UNCHANGED txVars
  PROVE  /\ Still(p) /\ pc'[p] = s /\ op'[p] = o /\ target'[p] = d /\ locks' = locks
         /\ op[p] = "none" /\ ~Creating(p)
BY RouteFacts DEF TypeInv, TypeOK, Take, Still, txVars, Creating

LEMMA RequestKeeps ==
  ASSUME TypeInv, TypeInv', TicketInv, NEW p \in Procs, Request(p)
  PROVE  TicketInv'
<1>0. /\ UNCHANGED <<status, message, store, txVars, crashes>>
      /\ \A d \in Docs : Known(d)' <=> Known(d)
  BY DEF Request, CreateTicket, CreateChat, Close, RemoveTicket, RemoveChat,
         DeleteFileService, boundVars, Known
<1>1. op[p] = "none" => locks[p] = {}
  BY DEF TicketInv, Written
<1>2. ASSUME NEW t \in Tickets, CreateTicket(p, t) PROVE TicketInv'
  <2>1. /\ Still(p) /\ pc'[p] = "upload" /\ op'[p] = "createTicket" /\ target'[p] = t
        /\ locks' = locks /\ locks[p] = {} /\ ~Creating(p)
    BY <1>0, <1>1, <1>2, TakeStill DEF CreateTicket
  <2>2. Written(p)' /\ Uploaded(p)' /\ Creating(p)'
    BY <2>1 DEF Written, Uploaded, Creating
  <2>3. ~Known(t) /\ \A q \in Procs : target[q] # t
    BY <1>2, TicketsAssumption DEF CreateTicket, Fresh, Known, Subjects
  <2>4. Aware(p)'
    BY <1>0, <2>1, <2>3 DEF Aware, Still, Known
  <2>5. \A d \in temp' : d \in temp \/ d = t
    BY <1>2 DEF CreateTicket, Received
  <2> QED
    BY <1>0, <2>1, <2>2, <2>3, <2>4, <2>5, QuietStep
<1>3. ASSUME NEW m \in Messages, CreateChat(p, m) PROVE TicketInv'
  <2>1. /\ Still(p) /\ pc'[p] = "read" /\ op'[p] = "createChat" /\ target'[p] = m
        /\ locks' = locks /\ locks[p] = {} /\ ~Creating(p)
    BY <1>0, <1>1, <1>3, TakeStill DEF CreateChat
  <2>2. Written(p)' /\ Uploaded(p)' /\ Creating(p)'
    BY <2>1 DEF Written, Uploaded, Creating
  <2>3. ~Known(m) /\ Known(MessageOf[m]) /\ \A q \in Procs : target[q] # m
    BY <1>3, TicketsAssumption DEF CreateChat, Fresh, Known, Subjects
  <2>4. Aware(p)'
    BY <1>0, <2>1, <2>3 DEF Aware, Still, Known
  <2>5. \A d \in temp' : d \in temp \/ d = m
    BY <1>3 DEF CreateChat, Received
  <2> QED
    BY <1>0, <2>1, <2>2, <2>3, <2>4, <2>5, QuietStep
<1>4. ASSUME NEW d \in Docs, NEW o \in {"close", "removeTicket", "removeChat", "deleteFile"},
             NEW s \in {"close", "delete"}, Take(p, o, d, s),
             Known(d),
             o \in {"removeTicket", "deleteFile"} => s = "delete", temp' = temp
      PROVE  TicketInv'
  <2>1. /\ Still(p) /\ pc'[p] = s /\ op'[p] = o /\ target'[p] = d
        /\ locks' = locks /\ locks[p] = {} /\ ~Creating(p)
    BY <1>0, <1>1, <1>4, TakeStill
  <2>2. Written(p)' /\ Uploaded(p)'
    BY <1>4, <2>1 DEF Written, Uploaded, Creating
  <2>3. Aware(p)'
    BY <1>0, <1>4, <2>1 DEF Aware, Creating, Known
  <2>4. \A q \in Procs \ {p} : Creating(q) => d # target[q]
    BY <1>4, CreatingFacts
  <2> QED
    BY <1>0, <1>4, <2>1, <2>2, <2>3, <2>4, QuietStep
<1>5. ASSUME NEW t \in Tickets, Close(p, t) \/ RemoveTicket(p, t) PROVE TicketInv'
  BY <1>4, <1>5, TicketsAssumption DEF Close, RemoveTicket, Known, Docs, Subjects
<1>6. ASSUME NEW m \in Messages, RemoveChat(p, m) PROVE TicketInv'
  BY <1>4, <1>6 DEF RemoveChat, Known, Docs
<1>7. ASSUME NEW f \in Files, DeleteFileService(p, f) PROVE TicketInv'
  BY <1>4, <1>7 DEF DeleteFileService, Docs, Subjects, TicketInv, FilesKnown
<1> QED
  BY <1>2, <1>3, <1>5, <1>6, <1>7 DEF Request

\* Closing and removing: what was there stays known, as closed or deleted.
LEMMA RemovalKeeps ==
  ASSUME TypeInv, TypeInv', TicketInv, NEW p \in Procs,
         \/ CloseSupportTicket(p) \/ NotifyClosed(p) \/ DeleteDocument(p)
         \/ DeleteInSession(p) \/ DeleteChats(p) \/ DeleteObject(p) \/ DeleteFolder(p)
  PROVE  TicketInv'
<1>0. /\ Route(p) /\ op[p] \in Operations /\ Written(p) /\ Aware(p)
      /\ UNCHANGED <<temp, crashes>>
  BY DEF TypeInv, TypeOK, TicketInv, CloseSupportTicket, NotifyClosed, DeleteDocument,
         DeleteInSession, DeleteChats, DeleteObject, DeleteFolder, boundVars
<1>1. /\ op[p] \in {"close", "removeTicket", "removeChat", "deleteFile"}
      /\ ~Creating(p)
  BY <1>0
  DEF CloseSupportTicket, NotifyClosed, DeleteDocument, DeleteInSession, DeleteChats,
      DeleteObject, DeleteFolder, Route, StepsOf, Operations, Creating
\* A step that leaves the documents known, the locks as they are, and the objects
\* of tickets and their messages in the store.
<1>2. ASSUME locks' = locks, Leave(p) \/ (\E s \in Points : Goto(p, s)),
             Leave(p) => locks[p] = {},
             \A s \in Points : Goto(p, s) /\ op[p] \in {"removeTicket", "deleteFile"} =>
                 s # "delete" /\ (pc[p] = "delete" => locks[p] = {}),
             \A d \in Docs : Known(d)' <=> Known(d),
             \A d \in Attached \cap store : Concerned(d) => d \in store'
      PROVE  TicketInv'
  <2>1. CASE Leave(p)
    <3>1. /\ Still(p) /\ op'[p] = "none" /\ target'[p] = NoDoc /\ locks'[p] = {}
      BY <1>2, <2>1, LeaveStill
    <3>2. Written(p)' /\ Uploaded(p)' /\ ~Creating(p)' /\ Aware(p)'
      BY <3>1, Gone DEF Aware, Creating
    <3>3. \A q \in Procs \ {p} : Creating(q) => target'[p] # target[q]
      BY <3>1, CreatingFacts, TicketsAssumption
    <3> QED
      BY <1>0, <1>1, <1>2, <3>1, <3>2, <3>3, QuietStep
  <2>2. ASSUME NEW s \in Points, Goto(p, s) PROVE TicketInv'
    <3>1. /\ Still(p) /\ op'[p] = op[p] /\ target'[p] = target[p] /\ pc'[p] = s
      BY <1>2, <2>2, GotoStill
    <3>2. \A d : KnownMessagesOf(d)' = KnownMessagesOf(d)
      BY <1>2 DEF KnownMessagesOf, Known, Docs
    <3>3. Written(p)'
      BY <1>0, <1>1, <1>2, <2>2, <3>1, <3>2 DEF Written
    <3>4. Uploaded(p)' /\ ~Creating(p)'
      BY <1>1, <3>1 DEF Uploaded, Creating
    <3>5. Aware(p)'
      <4>1. op[p] \in {"close", "removeTicket", "deleteFile"} => target[p] \in Docs
        BY RouteFacts DEF Docs, Subjects
      <4>2. op[p] \in {"close", "removeTicket", "deleteFile"} => Known(target[p])'
        BY <1>0, <1>2, <3>1, <4>1 DEF Aware
      <4> QED
        BY <1>1, <3>1, <3>4, <4>2 DEF Aware
    <3>6. \A q \in Procs \ {p} : Creating(q) => target'[p] # target[q]
      BY <3>1, CreatingFacts
    <3> QED
      BY <1>0, <1>1, <1>2, <3>1, <3>3, <3>4, <3>5, <3>6, QuietStep
  <2> QED
    BY <1>2, <2>1, <2>2
<1>3. CASE CloseSupportTicket(p)
  <2>1. op[p] = "close" /\ target[p] \in Tickets /\ locks[p] = {} /\ Known(target[p])
    BY <1>0, <1>1, <1>3, RouteFacts DEF CloseSupportTicket, Route, StepsOf, Written, Aware
  <2>2. locks' = locks /\ UNCHANGED <<message, store>>
    BY <1>3 DEF CloseSupportTicket, PlainWrite, txVars
  <2>3. \A d \in Docs : Known(d)' <=> Known(d)
    BY <1>3, <2>1, <2>2, TicketsAssumption
    DEF CloseSupportTicket, Known, Docs, Subjects, TypeInv, TypeOK
  <2>4. Leave(p) \/ \E s \in Points : Goto(p, s)
    BY <1>3 DEF CloseSupportTicket, Points
  <2> QED
    BY <1>2, <2>1, <2>2, <2>3, <2>4
<1>4. CASE NotifyClosed(p)
  <2>1. locks[p] = {} /\ op[p] = "close" /\ Leave(p)
    BY <1>0, <1>4 DEF NotifyClosed, Written
  <2>2. locks' = locks /\ UNCHANGED <<status, message, store>>
    BY <1>4 DEF NotifyClosed, txVars
  <2> QED
    BY <1>2, <2>1, <2>2 DEF Known
<1>5. CASE DeleteDocument(p)
  <2>1. op[p] \in {"removeTicket", "removeChat"} /\ locks[p] = {} /\ target[p] \in Docs
    BY <1>0, <1>1, <1>5, RouteFacts DEF DeleteDocument, Route, StepsOf, Written
  <2>2. locks' = locks /\ UNCHANGED store
    BY <1>5 DEF DeleteDocument, PlainWrite, txVars
  <2>3. \A d \in Docs : Known(d)' <=> Known(d)
    BY <1>5, <2>1 DEF DeleteDocument, Known, Exists, TypeInv, TypeOK, Docs
  <2>4. Leave(p) \/ Goto(p, "object") \/ Goto(p, "chats")
    BY <1>5 DEF DeleteDocument
  <2>5. \A s \in Points : Goto(p, s) => s # "delete"
    BY <1>5 DEF DeleteDocument, Leave, Goto, TypeInv, TypeOK
  <2> QED
    BY <1>2, <2>1, <2>2, <2>3, <2>4, <2>5 DEF Points
<1>6. CASE DeleteInSession(p)
  <2>1. op[p] = "deleteFile" /\ locks[p] = {}
    BY <1>0, <1>6 DEF DeleteInSession, Written
  <2>2. /\ Still(p) /\ op'[p] = op[p] /\ target'[p] = target[p] /\ pc'[p] = "chats"
        /\ locks'[p] = {target[p]}
    BY <1>6, <2>1, GotoStill, LocksAfter DEF DeleteInSession
  <2>3. Written(p)' /\ Uploaded(p)'
    BY <2>1, <2>2 DEF Written, Uploaded, Creating
  <2>4. UNCHANGED <<status, message, store, temp, crashes>>
    BY <1>0, <1>6 DEF DeleteInSession
  <2> QED
    BY <2>2, <2>3, <2>4, GoOnKeeps
<1>7. CASE DeleteChats(p)
  <2>1. op[p] \in {"removeTicket", "deleteFile"} /\ pc[p] = "chats"
    BY <1>0, <1>7 DEF DeleteChats, Route, StepsOf, Operations
  <2>2. /\ UNCHANGED <<status, message, store, temp, crashes>>
        /\ locks'[p] \subseteq locks[p] \cup KnownMessagesOf(target[p])
        /\ \A q \in Procs \ {p} : locks'[q] = locks[q]
    BY <1>0, <1>7 DEF DeleteChats, KnownMessagesOf, TypeInv, TypeOK, TxTypeOK
  <2>3. /\ Still(p) /\ op'[p] = op[p] /\ target'[p] = target[p] /\ pc'[p] = "object"
    BY <1>7, <2>2, GotoStill DEF DeleteChats
  <2>4. Written(p)' /\ Uploaded(p)'
    BY <1>0, <2>1, <2>2, <2>3 DEF Written, Uploaded, Creating, KnownMessagesOf
  <2> QED
    BY <2>2, <2>3, <2>4, GoOnKeeps
<1>8. CASE DeleteObject(p)
  <2>1. /\ locks' = locks /\ UNCHANGED <<status, message, store>>
        /\ IF op[p] = "removeTicket" THEN Goto(p, "commit") ELSE Leave(p)
    BY <1>8 DEF DeleteObject, txVars
  <2>2. op[p] = "removeTicket" \/ (op[p] = "removeChat" /\ locks[p] = {})
    BY <1>0, <1>1, <1>8 DEF DeleteObject, Route, StepsOf, Written
  <2>3. CASE op[p] = "removeTicket"
    <3>1. /\ Still(p) /\ op'[p] = op[p] /\ target'[p] = target[p] /\ pc'[p] = "commit"
      BY <2>1, <2>3, GotoStill
    <3>2. Written(p)' /\ Uploaded(p)'
      BY <1>0, <1>8, <2>1, <2>3, <3>1
      DEF DeleteObject, Written, Uploaded, Creating, KnownMessagesOf
    <3> QED
      BY <1>0, <2>1, <3>1, <3>2, GoOnKeeps
  <2>4. CASE op[p] = "removeChat"
    BY <1>2, <2>1, <2>2, <2>4 DEF Known
  <2> QED
    BY <2>2, <2>3, <2>4
<1>9. CASE DeleteFolder(p)
  <2>1. /\ locks' = locks /\ UNCHANGED <<status, message>> /\ Goto(p, "commit")
        /\ op[p] = "deleteFile" /\ pc[p] = "object" /\ target[p] \in Files
    BY <1>9, RouteFacts DEF DeleteFolder, txVars
  <2>2. \A d \in Attached \cap store : Concerned(d) => d \in store'
    BY <1>9, <2>1, TicketsAssumption DEF DeleteFolder, Concerned, Subjects
  <2>3. \A s \in Points : Goto(p, s) => s # "delete"
    BY <2>1 DEF Goto, TypeInv, TypeOK
  <2>4. ~Leave(p)
    BY <2>1 DEF Goto, Leave, TypeInv, TypeOK
  <2> QED
    BY <1>2, <2>1, <2>2, <2>3, <2>4 DEF Known, Points
<1> QED
  BY <1>3, <1>4, <1>5, <1>6, <1>7, <1>8, <1>9

\* What a commit makes known: the ticket with its comments, or the message.
LEMMA CommitKnown ==
  ASSUME TypeInv, TicketInv, NEW p \in Procs, Commit(p), NEW d \in Docs
  PROVE  Known(d)' <=> \/ Known(d)
                       \/ op[p] = "createTicket" /\ d \in {target[p]} \cup CommentsOf(target[p])
                       \/ op[p] = "createChat" /\ d = target[p] /\ d \in locks[p]
<1>0. /\ pc[p] = "commit" /\ Route(p) /\ op[p] \in Operations /\ Written(p) /\ Aware(p)
      /\ (Creating(p) <=> op[p] \in {"createTicket", "createChat"})
  BY DEF Commit, TypeInv, TypeOK, TicketInv, Creating
<1>1. op[p] \in {"createTicket", "createChat", "removeTicket", "deleteFile"}
  BY <1>0 DEF Route, StepsOf, Operations
<1>2. /\ status' = IF Subject(p) \in locks[p]
                   THEN [status EXCEPT ![Subject(p)] = IF Creating(p) THEN "OPEN" ELSE "deleted"]
                   ELSE status
      /\ message' = [m \in Messages |->
                        IF m \notin locks[p] \cap Messages THEN message[m]
                        ELSE IF Creating(p) THEN "saved" ELSE "deleted"]
  BY DEF Commit
<1>3. /\ Subject(p) \in Subjects /\ Subjects \cap Messages = {}
      /\ status \in [Subjects -> {"absent", "OPEN", "CLOSED", "deleted"}]
  BY <1>0, RouteFacts, TicketsAssumption DEF TypeInv, TypeOK
<1>4. CASE op[p] = "createTicket"
  <2>1. /\ Subject(p) = target[p] /\ target[p] \notin Messages
        /\ locks[p] = {target[p]} \cup CommentsOf(target[p])
    BY <1>0, <1>3, <1>4, RouteFacts DEF Written
  <2>2. CommentsOf(target[p]) \subseteq Messages
    BY TicketsAssumption DEF CommentsOf
  <2> QED
    BY <1>0, <1>2, <1>3, <1>4, <2>1, <2>2 DEF Known, Docs
<1>5. CASE op[p] = "createChat"
  <2>1. /\ Subject(p) = MessageOf[target[p]] /\ target[p] \in Messages
        /\ locks[p] \subseteq {target[p], MessageOf[target[p]]}
        /\ Known(Subject(p))
    BY <1>0, <1>5, RouteFacts DEF Written, Aware
  <2> QED
    BY <1>0, <1>2, <1>3, <1>5, <2>1 DEF Known, Docs
<1>6. CASE op[p] \in {"removeTicket", "deleteFile"}
  <2>1. /\ ~Creating(p) /\ Subject(p) = target[p]
        /\ locks[p] \subseteq {target[p]} \cup KnownMessagesOf(target[p])
    BY <1>0, <1>6, RouteFacts DEF Written
  <2>2. Known(target[p])
    BY <1>0, <1>6 DEF Aware
  <2> QED
    BY <1>0, <1>2, <1>3, <1>6, <2>1, <2>2 DEF Known, Docs, KnownMessagesOf
<1> QED
  BY <1>1, <1>4, <1>5, <1>6

LEMMA CommitKeeps ==
  ASSUME TypeInv, TypeInv', TicketInv, NEW p \in Procs, Commit(p)
  PROVE  TicketInv'
<1>0. /\ pc[p] = "commit" /\ op[p] \in Operations /\ Aware(p) /\ Uploaded(p)
      /\ store' = store /\ crashes' = crashes
      /\ target[p] \in Docs
  BY RouteFacts DEF Commit, TypeInv, TypeOK, TicketInv, boundVars
<1>1. /\ Still(p) /\ op'[p] = "none" /\ target'[p] = NoDoc /\ locks'[p] = {}
  <2>1. locks'[p] = {} /\ \A q \in Procs \ {p} : locks'[q] = locks[q]
    BY DEF Commit, TxCommit, TypeInv, TypeOK, TxTypeOK
  <2> QED
    BY <2>1, LeaveStill DEF Commit
<1>2. Written(p)' /\ Uploaded(p)' /\ ~Creating(p)' /\ Aware(p)'
  BY <1>1, Gone DEF Aware, Creating
<1>3. CommentsOf(target[p]) \subseteq Comments /\ Comments \cap Attached = {}
      /\ Comments \subseteq Messages /\ Attached \subseteq Docs
  BY TicketsAssumption DEF CommentsOf, Docs, Subjects
<1>4. Spares(p)
  <2>1. ASSUME NEW q \in Procs \ {p}, Creating(q)
        PROVE  ~Known(target[q])' /\ target'[p] # target[q]
    <3>1. target[p] # target[q] /\ ~Known(target[q]) /\ target[q] \in Docs
      BY <2>1, CreatingFacts
    <3>2. target[q] \notin Comments
      BY <2>1, <1>3, RouteFacts, TicketsAssumption DEF Creating, Subjects
    <3>3. target'[q] = target[q] /\ target[q] # NoDoc
      BY <1>1, <3>1, TicketsAssumption DEF Still
    <3> QED
      BY <1>1, <1>3, <3>1, <3>2, <3>3, CommitKnown
  <2>2. \A d \in Docs : Known(d) => Known(d)'
    BY CommitKnown
  <2> QED
    BY <1>0, <2>1, <2>2 DEF Spares
<1>5. FilesKnown'
  BY CommitKnown DEF TicketInv, FilesKnown, Docs, Subjects
<1>6. StoreInv'
  <2> SUFFICES ASSUME NEW d \in Attached, Concerned(d), Known(d)' PROVE d \in store
    BY <1>0 DEF StoreInv, Concerned
  <2>1. Known(d) \/ (Creating(p) /\ d = target[p]) \/ d \in Comments
    BY <1>3, CommitKnown DEF Creating
  <2> QED
    BY <1>0, <1>3, <2>1 DEF TicketInv, StoreInv, Uploaded
<1>7. CommentSavedWithTicket'
  <2> SUFFICES ASSUME NEW m \in Comments PROVE Known(MessageOf[m])' <=> Known(m)'
    BY TicketsAssumption DEF CommentSavedWithTicket, Known, Subjects
  <2>1. /\ m \in Docs /\ m \in Messages
        /\ MessageOf[m] \in Docs /\ MessageOf[m] \in Tickets /\ MessageOf[m] \notin Messages
    BY TicketsAssumption DEF Docs, Subjects
  <2>2. Known(MessageOf[m]) <=> Known(m)
    BY <2>1 DEF TicketInv, CommentSavedWithTicket, Known
  <2>3. op[p] = "createChat" => target[p] \in Messages \ Comments
    BY RouteFacts
  <2>4. op[p] = "createTicket" => target[p] \in Tickets
    BY RouteFacts
  <2>5. m \in CommentsOf(target[p]) <=> MessageOf[m] = target[p]
    BY DEF CommentsOf
  <2>6. \A t \in Tickets : t \notin Messages
    BY TicketsAssumption DEF Subjects
  <2> QED
    BY <1>3, <2>1, <2>2, <2>3, <2>4, <2>5, <2>6, CommitKnown
<1>8. TempInv'
  <2>1. /\ \A d \in temp' : d \in temp
        /\ Creating(p) => target[p] \notin temp'
    BY DEF Commit
  <2> QED
    BY <1>0, <1>1, <2>1, TempKept DEF TicketInv
<1> QED
  BY <1>1, <1>2, <1>4, <1>5, <1>6, <1>7, <1>8, OthersKept DEF TicketInv

LEMMA EndKeeps ==
  ASSUME TypeInv, TypeInv', TicketInv, NEW p \in Procs,
         WriteConflict(p) \/ CleanUp(p) \/ Fail(p)
  PROVE  TicketInv'
<1>1. CASE WriteConflict(p)
  BY <1>1, GiveUpKeeps DEF WriteConflict, boundVars
<1>2. CASE CleanUp(p)
  BY <1>2, CleanUpKeeps DEF CleanUp, txVars, boundVars
<1>3. CASE Fail(p) /\ pc[p] = "cleanup"
  BY <1>3, CleanUpKeeps DEF Fail, txVars
<1>4. CASE Fail(p) /\ pc[p] # "cleanup"
  BY <1>4, GiveUpKeeps DEF Fail
<1> QED
  BY <1>1, <1>2, <1>3, <1>4

\* After a restart nobody works on anything, and uploads may stay on the disk.
LEMMA CrashKeeps ==
  ASSUME TypeInv, TypeInv', TicketInv, Crash
  PROVE  TicketInv'
<1>1. /\ \A p \in Procs : op'[p] = "none" /\ locks'[p] = {}
      /\ UNCHANGED <<status, message, store>>
      /\ crashes' # 0
  BY DEF Crash, TxCrash, TypeInv, TypeOK
<1>2. \A p \in Procs : Written(p)' /\ Aware(p)' /\ Uploaded(p)'
  BY <1>1, Gone DEF Aware, Creating
<1>3. FilesKnown' /\ StoreInv' /\ CommentSavedWithTicket'
  BY <1>1, QuietKept DEF Known
<1> QED
  BY <1>1, <1>2, <1>3 DEF TicketInv, TempInv

LEMMA FileClosesKeeps ==
  ASSUME TypeInv, TypeInv', TicketInv, NEW f \in Files, FileCloses(f)
  PROVE  TicketInv'
<1>1. UNCHANGED <<message, store, temp, procVars, crashes, locks>>
  BY DEF FileCloses, boundVars, PlainWrite
<1>2. \A d : Known(d)' <=> Known(d)
  BY <1>1 DEF FileCloses, Known, TypeInv, TypeOK, Subjects
<1>3. FilesKnown' /\ StoreInv' /\ CommentSavedWithTicket'
  BY <1>1, <1>2, QuietKept
<1>4. ASSUME NEW p \in Procs PROVE Written(p)' /\ Aware(p)' /\ Uploaded(p)'
  <2>1. Written(p) /\ Aware(p) /\ Uploaded(p)
    BY DEF TicketInv
  <2>2. \A s : KnownMessagesOf(s)' = KnownMessagesOf(s)
    BY <1>1 DEF KnownMessagesOf
  <2>3. Written(p)'
    BY <1>1, <2>1, <2>2 DEF Written, procVars
  <2>4. Aware(p)'
    BY <1>1, <1>2, <2>1 DEF Aware, procVars, Creating
  <2> QED
    BY <1>1, <2>1, <2>3, <2>4 DEF Uploaded, procVars, Creating
<1>5. TempInv'
  BY <1>1 DEF TicketInv, TempInv, procVars, Creating
<1> QED
  BY <1>3, <1>4, <1>5 DEF TicketInv

LEMMA StutterKeeps ==
  ASSUME TicketInv, UNCHANGED vars
  PROVE  TicketInv'
BY DEF vars, procVars, txVars, boundVars, TicketInv, Written, Aware, Uploaded, FilesKnown,
       StoreInv, CommentSavedWithTicket, TempInv, Creating, Known, KnownMessagesOf, CommentsOf,
       Concerned

LEMMA TicketNext == TypeInv /\ TicketInv /\ [Next]_vars => TicketInv'
<1> SUFFICES ASSUME TypeInv, TicketInv, [Next]_vars PROVE TicketInv'
  OBVIOUS
<1>0. TypeInv'
  BY TypeNext
<1>1. ASSUME NEW p \in Procs, HandlerStep(p) PROVE TicketInv'
  BY <1>0, <1>1, CreationKeeps, UploadKeeps, RemovalKeeps, CommitKeeps, EndKeeps
  DEF HandlerStep
<1>2. ASSUME NEW p \in Procs, Request(p) PROVE TicketInv'
  BY <1>0, <1>2, RequestKeeps
<1> QED
  BY <1>0, <1>1, <1>2, FileClosesKeeps, CrashKeeps, StutterKeeps DEF Next

\* At every step of every handler the transaction has written what it should, the
\* documents a handler relies on are there or not there as it saw them, and the
\* object of what it creates is in the store before the commit.
THEOREM TicketInvCorrect == Spec => []TicketInv
<1>1. Init => TypeInv /\ TicketInv
  BY InitTypes, InitTickets
<1>2. TypeInv /\ TicketInv /\ [Next]_vars => (TypeInv /\ TicketInv)'
  BY TypeNext, TicketNext
<1> QED
  BY <1>1, <1>2, PTL DEF Spec

\* A file named by a ticket or one of its messages is in the store, and an upload
\* stays on the disk only while its handler works (create of both services).
THEOREM UploadsAlways == Spec => []UploadsMatch
<1>1. TicketInv => UploadsMatch
  BY DEF TicketInv, UploadsMatch, StoreInv, TempInv, Concerned, Known, Exists
<1> QED
  BY <1>1, TicketInvCorrect, PTL

\* A ticket and the comment it was created with are saved together.
THEOREM CommentAlways == Spec => []CommentSavedWithTicket
<1>1. TicketInv => CommentSavedWithTicket
  BY DEF TicketInv
<1> QED
  BY <1>1, TicketInvCorrect, PTL
=============================================================================
