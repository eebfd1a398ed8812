------------------------------ MODULE Tickets ------------------------------
(***************************************************************************)
(* Support tickets and the messages on tickets and file services           *)
(* (src/src/features/support-ticket and chat).  A message reopens what was *)
(* closed.  Documents are written in a transaction or, by close and        *)
(* remove, without one; attached files are uploaded to the store and       *)
(* deleted from it on the side.  A file is named after the document that   *)
(* has it: multer makes the names unique.  What else happens to a file     *)
(* service is in module FileService; here it is closed and deleted.        *)
(***************************************************************************)
EXTENDS Naturals, FiniteSets, MongoTx

CONSTANTS
    Tickets,
    Files,          \* file services, as far as messages concern them
    Messages,
    MessageOf,      \* the ticket or file service a message is about
    Comments,       \* messages that are the comment a ticket is created with
    Attached,       \* tickets and messages with a file
    NoDoc,          \* target of an idle handler
    MaxFaults,      \* bound: failed calls
    MaxCrashes      \* bound: restarts of the server

Subjects == Tickets \cup Files
Docs == Subjects \cup Messages

ASSUME TicketsAssumption ==
    /\ Tickets \cap Files = {} /\ Subjects \cap Messages = {}
    /\ MessageOf \in [Messages -> Subjects]
    /\ Comments \subseteq {m \in Messages : MessageOf[m] \in Tickets}
    /\ Attached \subseteq (Tickets \cup Messages) \ Comments
    /\ NoDoc \notin Docs
    /\ MaxFaults \in Nat /\ MaxCrashes \in Nat

VARIABLES
    status,         \* of tickets and file services: absent, OPEN, CLOSED, deleted
    message,        \* messages: absent, saved, deleted
    store,          \* the objects in the store, each named by its document
    temp,           \* uploads on the server's disk
    mail,           \* the last e-mail about a subject: its kind and its type
    pc, op, target, \* handlers
    reopening,      \* handlers whose message reopens its subject
    faults, crashes

procVars == <<pc, op, target, reopening>>
boundVars == <<faults, crashes>>
vars == <<status, message, store, temp, mail, txVars, procVars, boundVars>>

Points == {"idle", "upload", "save", "comment", "read", "reopen", "mail",
           "commit", "cleanup", "close", "delete", "chats", "object"}
Operations == {"none", "createTicket", "createChat", "close", "removeTicket",
               "removeChat", "deleteFile"}
MailTypes == {"none", "open", "closed", "reopenFileService", "reopenSupportTicket"}

TypeOK ==
    /\ status \in [Subjects -> {"absent", "OPEN", "CLOSED", "deleted"}]
    /\ message \in [Messages -> {"absent", "saved", "deleted"}]
    /\ store \subseteq Attached /\ temp \subseteq Attached
    /\ mail \in [Subjects -> MailTypes]
    /\ TxTypeOK(Docs)
    /\ pc \in [Procs -> Points]
    /\ op \in [Procs -> Operations]
    /\ target \in [Procs -> Docs \cup {NoDoc}]
    /\ reopening \subseteq Procs
    /\ faults \in 0 .. MaxFaults /\ crashes \in 0 .. MaxCrashes

Init ==
    /\ status = [s \in Subjects |-> IF s \in Tickets THEN "absent" ELSE "OPEN"]
    /\ message = [m \in Messages |-> "absent"]
    /\ store = {} /\ temp = {}
    /\ mail = [s \in Subjects |-> "none"]
    /\ TxInit
    /\ pc = [p \in Procs |-> "idle"]
    /\ op = [p \in Procs |-> "none"]
    /\ target = [p \in Procs |-> NoDoc]
    /\ reopening = {}
    /\ faults = 0 /\ crashes = 0

-----------------------------------------------------------------------------
(* How a handler moves on. *)

Take(p, o, d, s) ==
    /\ pc[p] = "idle"
    /\ pc' = [pc EXCEPT ![p] = s]
    /\ op' = [op EXCEPT ![p] = o]
    /\ target' = [target EXCEPT ![p] = d]
    /\ UNCHANGED reopening

Goto(p, s) ==
    /\ pc' = [pc EXCEPT ![p] = s]
    /\ UNCHANGED <<op, target, reopening>>

Leave(p) ==
    /\ pc' = [pc EXCEPT ![p] = "idle"]
    /\ op' = [op EXCEPT ![p] = "none"]
    /\ target' = [target EXCEPT ![p] = NoDoc]
    /\ reopening' = reopening \ {p}

\* A new document, whose upload multer has put on the disk.
Fresh(d) == d \notin temp /\ d \notin store /\ \A q \in Procs : target[q] # d

Received(d) == temp' = temp \cup ({d} \cap Attached)

\* The subject a handler is about.
Subject(p) == IF target[p] \in Messages THEN MessageOf[target[p]] ELSE target[p]

Creating(p) == op[p] \in {"createTicket", "createChat"}

-----------------------------------------------------------------------------
(* create of both services. *)

CreateTicket(p, t) ==
    /\ status[t] = "absent" /\ Fresh(t)
    /\ Take(p, "createTicket", t, "upload")
    /\ Received(t)
    /\ UNCHANGED <<status, message, store, mail, txVars, boundVars>>

CreateChat(p, m) ==
    /\ m \notin Comments
    /\ message[m] = "absent" /\ Fresh(m)
    /\ status[MessageOf[m]] # "absent"
    /\ Take(p, "createChat", m, "read")
    /\ Received(m)
    /\ UNCHANGED <<status, message, store, mail, txVars, boundVars>>

\* The subject is read in the session.  A message to a file service that is
\* gone is saved all the same; the status of a missing ticket throws.
ReadSubject(p) ==
    LET s == Subject(p) IN
    /\ pc[p] = "read"
    /\ IF status[s] = "deleted" /\ s \in Tickets
       THEN TxAbort(p) /\ Goto(p, "cleanup")
       ELSE SessionRead(p) /\ Goto(p, IF status[s] = "CLOSED" THEN "reopen" ELSE "upload")
    /\ UNCHANGED <<status, message, store, temp, mail, boundVars>>

Reopen(p) ==
    /\ pc[p] = "reopen"
    /\ SessionWrite(p, Subject(p))
    /\ pc' = [pc EXCEPT ![p] = "upload"]
    /\ reopening' = reopening \cup {p}
    /\ UNCHANGED <<status, message, store, temp, mail, op, target, boundVars>>

\* Variant: the upload is not awaited, and fails unseen.
Upload_NotAwaited(p) ==
    /\ pc[p] = "upload"
    /\ store' = store \/ store' = store \cup ({target[p]} \cap Attached)
    /\ Goto(p, "save")
    /\ UNCHANGED <<status, message, temp, mail, txVars, boundVars>>

\* Variant: nobody asks whether there is a file.
Upload_Always(p) ==
    /\ pc[p] = "upload"
    /\ store' = store \cup {target[p]}
    /\ Goto(p, "save")
    /\ UNCHANGED <<status, message, temp, mail, txVars, boundVars>>

\* The file, if there is one, is uploaded.
Upload(p) ==
    /\ pc[p] = "upload"
    /\ store' = store \cup ({target[p]} \cap Attached)
    /\ Goto(p, "save")
    /\ UNCHANGED <<status, message, temp, mail, txVars, boundVars>>

Save(p) ==
    /\ pc[p] = "save"
    /\ SessionWrite(p, target[p])
    /\ Goto(p, IF op[p] = "createTicket" THEN "comment" ELSE "mail")
    /\ UNCHANGED <<status, message, store, temp, mail, boundVars>>

\* Variant: the comment is saved in a session of its own.
SaveComment_OwnSession(p) ==
    LET ms == {m \in Comments : MessageOf[m] = target[p]} IN
    /\ pc[p] = "comment"
    /\ message' = [m \in Messages |-> IF m \in ms THEN "saved" ELSE message[m]]
    /\ Goto(p, "mail")
    /\ UNCHANGED <<status, store, temp, mail, txVars, boundVars>>

\* The comment becomes the ticket's first message, in the ticket's session,
\* which reads the new ticket and finds it OPEN.
SaveComment(p) ==
    LET ms == {m \in Comments : MessageOf[m] = target[p]} IN
    /\ pc[p] = "comment"
    /\ locks' = [locks EXCEPT ![p] = @ \cup ms]
    /\ Goto(p, "mail")
    /\ UNCHANGED <<status, message, store, temp, mail, snap, stale, boundVars>>

\* The e-mails are queued before the commit.
Notify(p) ==
    LET s == Subject(p)
        type == IF op[p] = "createTicket" THEN "open"
                ELSE IF s \in Files THEN "reopenSupportTicket" ELSE "reopenFileService" IN
    /\ pc[p] = "mail" /\ Creating(p)
    /\ mail' = IF op[p] = "createTicket" \/ p \in reopening THEN [mail EXCEPT ![s] = type] ELSE mail
    /\ Goto(p, "commit")
    /\ UNCHANGED <<status, message, store, temp, txVars, boundVars>>

-----------------------------------------------------------------------------
(* closeSupportTicket, remove of both services, and what closes a file. *)

Close(p, t) ==
    /\ t \in Tickets /\ status[t] # "absent"
    /\ Take(p, "close", t, "close")
    /\ UNCHANGED <<status, message, store, temp, mail, txVars, boundVars>>

\* Written without a session; a missing ticket throws.
CloseSupportTicket(p) ==
    LET t == target[p] IN
    /\ pc[p] = "close"
    /\ IF status[t] = "deleted"
       THEN UNCHANGED <<status, txVars>> /\ Leave(p)
       ELSE /\ PlainWrite(t)
            /\ status' = [status EXCEPT ![t] = "CLOSED"]
            /\ Goto(p, "mail")
    /\ UNCHANGED <<message, store, temp, mail, boundVars>>

NotifyClosed(p) ==
    /\ pc[p] = "mail" /\ op[p] = "close"
    /\ mail' = [mail EXCEPT ![target[p]] = "closed"]
    /\ Leave(p)
    /\ UNCHANGED <<status, message, store, temp, txVars, boundVars>>

\* A handler of the file service closes or completes it (module FileService).
FileCloses(f) ==
    /\ status[f] = "OPEN"
    /\ PlainWrite(f)
    /\ status' = [status EXCEPT ![f] = "CLOSED"]
    /\ UNCHANGED <<message, store, temp, mail, procVars, boundVars>>

RemoveTicket(p, t) ==
    /\ t \in Tickets /\ status[t] # "absent"
    /\ Take(p, "removeTicket", t, "delete")
    /\ UNCHANGED <<status, message, store, temp, mail, txVars, boundVars>>

RemoveChat(p, m) ==
    /\ message[m] # "absent"
    /\ Take(p, "removeChat", m, "delete")
    /\ UNCHANGED <<status, message, store, temp, mail, txVars, boundVars>>

DeleteFileService(p, f) ==
    /\ f \in Files /\ status[f] # "deleted"
    /\ Take(p, "deleteFile", f, "delete")
    /\ UNCHANGED <<status, message, store, temp, mail, txVars, boundVars>>

Exists(d) == IF d \in Messages THEN message[d] = "saved" ELSE status[d] \in {"OPEN", "CLOSED"}

\* findByIdAndDelete without the session; a document that is gone throws.
DeleteDocument(p) ==
    LET d == target[p] IN
    /\ pc[p] = "delete" /\ op[p] # "deleteFile"
    /\ IF ~Exists(d)
       THEN UNCHANGED <<status, message, txVars>> /\ Leave(p)
       ELSE /\ PlainWrite(d)
            /\ IF d \in Messages
               THEN message' = [message EXCEPT ![d] = "deleted"] /\ UNCHANGED status
               ELSE status' = [status EXCEPT ![d] = "deleted"] /\ UNCHANGED message
            /\ Goto(p, IF d \in Messages THEN "object" ELSE "chats")
    /\ UNCHANGED <<store, temp, mail, boundVars>>

\* A file service is deleted in the session, if it is still there.
DeleteInSession(p) ==
    /\ pc[p] = "delete" /\ op[p] = "deleteFile"
    /\ SessionWrite(p, target[p])
    /\ Goto(p, "chats")
    /\ UNCHANGED <<status, message, store, temp, mail, boundVars>>

\* The messages of the subject are deleted in the session.
DeleteChats(p) ==
    LET ms == {m \in Messages : MessageOf[m] = target[p] /\ message[m] = "saved"} IN
    /\ pc[p] = "chats"
    /\ \A m \in ms : ~Conflict(p, m)
    /\ locks' = [locks EXCEPT ![p] = @ \cup ms]
    /\ snap' = snap \cup {p}
    /\ Goto(p, "object")
    /\ UNCHANGED <<status, message, store, temp, mail, stale, boundVars>>

\* Deletes "<subject>/<key>", where the key has the subject in it already:
\* there is no such object, and the store says nothing.
DeleteObject(p) ==
    /\ pc[p] = "object"
    /\ op[p] # "deleteFile"
    /\ IF op[p] = "removeTicket" THEN Goto(p, "commit") ELSE Leave(p)
    /\ UNCHANGED <<status, message, store, temp, mail, txVars, boundVars>>

\* Everything stored for the file service, before the commit.
DeleteFolder(p) ==
    /\ pc[p] = "object" /\ op[p] = "deleteFile"
    /\ store' = {d \in store : d \notin Messages \/ MessageOf[d] # target[p]}
    /\ Goto(p, "commit")
    /\ UNCHANGED <<status, message, temp, mail, txVars, boundVars>>

-----------------------------------------------------------------------------

\* The transaction takes effect, and the upload is removed from the disk.
Commit(p) ==
    LET s == Subject(p)
        written == locks[p] \cap Messages IN
    /\ pc[p] = "commit"
    /\ TxCommit(p)
    /\ status' = IF s \in locks[p]
                 THEN [status EXCEPT ![s] = IF Creating(p) THEN "OPEN" ELSE "deleted"]
                 ELSE status
    /\ message' = [m \in Messages |->
                      IF m \notin written THEN message[m]
                      ELSE IF Creating(p) THEN "saved" ELSE "deleted"]
    /\ temp' = IF Creating(p) THEN temp \ {target[p]} ELSE temp
    /\ Leave(p)
    /\ UNCHANGED <<store, mail, boundVars>>

\* The transaction is abandoned: create goes on to its catch block.
GiveUp(p) ==
    /\ TxAbort(p)
    /\ IF Creating(p) THEN Goto(p, "cleanup") ELSE Leave(p)

\* The write that reopens or deletes the subject is refused.
WriteConflict(p) ==
    /\ pc[p] = "reopen" \/ (pc[p] = "delete" /\ op[p] = "deleteFile")
    /\ Conflict(p, Subject(p))
    /\ GiveUp(p)
    /\ UNCHANGED <<status, message, store, temp, mail, boundVars>>

\* Variant: a handler that fails leaves its upload on the disk.
CleanUp_KeepTemp(p) ==
    /\ pc[p] = "cleanup"
    /\ store' = store \ {target[p]}
    /\ Leave(p)
    /\ UNCHANGED <<status, message, temp, mail, txVars, boundVars>>

\* The uploaded object is deleted, then the upload on the disk.
CleanUp(p) ==
    /\ pc[p] = "cleanup"
    /\ store' = store \ {target[p]}
    /\ temp' = temp \ {target[p]}
    /\ Leave(p)
    /\ UNCHANGED <<status, message, mail, txVars, boundVars>>

\* The call a handler awaits fails; in the catch block the object stays.
Fail(p) ==
    /\ pc[p] # "idle"
    /\ faults < MaxFaults
    /\ faults' = faults + 1
    /\ IF pc[p] = "cleanup"
       THEN temp' = temp \ {target[p]} /\ Leave(p) /\ UNCHANGED txVars
       ELSE GiveUp(p) /\ UNCHANGED temp
    /\ UNCHANGED <<status, message, store, mail, crashes>>

\* The server restarts.
Crash ==
    /\ crashes < MaxCrashes
    /\ crashes' = crashes + 1
    /\ TxCrash
    /\ pc' = [p \in Procs |-> "idle"]
    /\ op' = [p \in Procs |-> "none"]
    /\ target' = [p \in Procs |-> NoDoc]
    /\ reopening' = {}
    /\ UNCHANGED <<status, message, store, temp, mail, faults>>

HandlerStep(p) ==
    \/ ReadSubject(p)
    \/ Reopen(p)
    \/ Upload(p)
    \/ Save(p)
    \/ SaveComment(p)
    \/ Notify(p)
    \/ CloseSupportTicket(p)
    \/ NotifyClosed(p)
    \/ DeleteDocument(p)
    \/ DeleteInSession(p)
    \/ DeleteChats(p)
    \/ DeleteObject(p)
    \/ DeleteFolder(p)
    \/ Commit(p)
    \/ WriteConflict(p)
    \/ CleanUp(p)
    \/ Fail(p)

Request(p) ==
    \/ \E t \in Tickets : CreateTicket(p, t) \/ Close(p, t) \/ RemoveTicket(p, t)
    \/ \E m \in Messages : CreateChat(p, m) \/ RemoveChat(p, m)
    \/ \E f \in Files : DeleteFileService(p, f)

Next ==
    \/ \E p \in Procs : Request(p) \/ HandlerStep(p)
    \/ \E f \in Files : FileCloses(f)
    \/ Crash

Spec == Init /\ [][Next]_vars

-----------------------------------------------------------------------------
(* Properties. *)

\* A file that a ticket or one of its messages names is in the store, whatever
\* upload, save, clean-up or restart came between (a file service does not
\* promise it: its folder is deleted before the commit); and an upload stays on
\* the disk only while its handler works on it, whether that succeeds or fails
\* and whatever fails in its own clean-up (a restart leaves what was there).
UploadsMatch ==
    /\ \A d \in Attached :
          Exists(d) /\ (d \in Tickets \/ MessageOf[d] \in Tickets) => d \in store
    /\ crashes = 0 => \A d \in temp : \E p \in Procs : target[p] = d

\* A ticket and the comment it was created with are saved together or not at
\* all (chatService.create with the session of the ticket).
CommentSavedWithTicket ==
    \A m \in Comments : status[MessageOf[m]] = "absent" <=> message[m] = "absent"

\* "send email for re-open file": the customer is told what was reopened.
ReopenMailFits ==
    \A s \in Subjects :
        /\ mail[s] = "reopenFileService" => s \in Files
        /\ mail[s] = "reopenSupportTicket" => s \in Tickets

\* "Support Ticket Deleted Successfully": no message of it stays.
DeletedTicketIsGone ==
    \A m \in Messages :
        status[MessageOf[m]] = "deleted" /\ message[m] = "saved" =>
            \E p \in Procs : pc[p] # "idle"

\* "Message deleted successfully": nor does its file.
DeletedFileIsGone ==
    \A m \in Messages \cap Attached :
        message[m] = "deleted" /\ m \in store => \E p \in Procs : pc[p] # "idle"
=============================================================================
