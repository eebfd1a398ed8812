--------------------------- MODULE Notifications ---------------------------
(***************************************************************************)
(* The e-mails and phone messages the services send (src/src/features/     *)
(* queue-manager, mail, catapush, credential).  A service adds a job to a  *)
(* queue and does not wait; a worker sends to the job's recipients, one    *)
(* after the other; a job that fails is tried again from its beginning.    *)
(***************************************************************************)
EXTENDS Naturals, FiniteSets

CONSTANTS
    Jobs,
    Types,          \* the e-mails' types, and whom phone messages are for
    Employees,      \* of the portal
    Workers,        \* jobs of one queue that are worked on at once (10 in the code)
    Attempts,       \* runs of a job that may fail (2 in the code)
    MaxStalled      \* Bull: restarts a job is run again after

CodeMails == {"verifyEmail", "resetPasswordEmail", "welcomeEmail"}
FileServiceMails == {"fileReady", "requestSolution", "newFileNotification",
                     "refundFileService", "closedFileService", "reopenFileService"}
TicketMails == {"openSupportTicket", "openSupportTicketAdmin",
                "closedSupportTicket", "reopenSupportTicket"}
EmailTypes == CodeMails \cup FileServiceMails \cup TicketMails
Messages == {"admin", "customer"}

Staff == {"portal"} \cup Employees
Recipients == {"customer"} \cup Staff

ASSUME NotificationsAssumption ==
    /\ Types \subseteq EmailTypes \cup Messages
    /\ Employees \cap {"portal", "customer"} = {}
    /\ Workers \in Nat \ {0} /\ Attempts \in Nat \ {0} /\ MaxStalled \in Nat

VARIABLES
    type,           \* what a job is
    job,            \* where it is
    failures,       \* runs of the job that failed
    stalls,         \* runs that a restart cut off
    asked,          \* whom the run is for, as read at its start
    todo,           \* whom the run has not told yet
    copies,         \* messages the remote service took, of a job and for a recipient
    smtp,           \* has the portal's credentials a section for its mail server
    phones          \* the portal and its employees, as far as they have a phone

vars == <<type, job, failures, stalls, asked, todo, copies, smtp, phones>>

Copies == Attempts + MaxStalled

TypeOK ==
    /\ type \in [Jobs -> Types \cup {"none"}]
    /\ \A j \in Jobs : job[j] # "new" => type[j] # "none"
    /\ job \in [Jobs -> {"new", "lost", "waiting", "begun", "active", "done", "failed"}]
    /\ failures \in [Jobs -> 0 .. Attempts]
    /\ stalls \in [Jobs -> 0 .. MaxStalled + 1]
    /\ asked \in [Jobs -> SUBSET Recipients]
    /\ todo \in [Jobs -> SUBSET Recipients]
    /\ copies \in [Jobs -> [Recipients -> 0 .. Copies]]
    /\ smtp \in BOOLEAN
    /\ phones \subseteq Staff

Init ==
    /\ type = [j \in Jobs |-> "none"]
    /\ job = [j \in Jobs |-> "new"]
    /\ failures = [j \in Jobs |-> 0] /\ stalls = [j \in Jobs |-> 0]
    /\ asked = [j \in Jobs |-> {}] /\ todo = [j \in Jobs |-> {}]
    /\ copies = [j \in Jobs |-> [r \in Recipients |-> 0]]
    /\ smtp \in BOOLEAN
    /\ phones \in SUBSET Staff

-----------------------------------------------------------------------------
(* The queues. *)

IsMail(j) == type[j] \in EmailTypes
SameQueue(i, j) == IsMail(i) = IsMail(j)
Running(j) == job[j] \in {"begun", "active"}

\* sendMail and sendCatapushMessage do not wait for the job to be added.
Produce(j, t) ==
    /\ job[j] = "new"
    /\ type' = [type EXCEPT ![j] = t]
    /\ \E s \in {"waiting", "lost"} : job' = [job EXCEPT ![j] = s]
    /\ UNCHANGED <<failures, stalls, asked, todo, copies, smtp, phones>>

TakeJob(j) ==
    /\ job[j] = "waiting"
    /\ Cardinality({i \in Jobs : SameQueue(i, j) /\ Running(i)}) < Workers
    /\ job' = [job EXCEPT ![j] = "begun"]
    /\ UNCHANGED <<type, failures, stalls, asked, todo, copies, smtp, phones>>

\* Variant: every run that fails is tried again.
Failed_AlwaysRetried(j) ==
    /\ job' = [job EXCEPT ![j] = "waiting"]
    /\ failures' = [failures EXCEPT ![j] = @ + 1]
    /\ todo' = [todo EXCEPT ![j] = {}]

\* A run fails: the job is tried again, at once, or is over.
Failed(j) ==
    /\ job' = [job EXCEPT ![j] = IF failures[j] + 1 < Attempts THEN "waiting" ELSE "failed"]
    /\ failures' = [failures EXCEPT ![j] = @ + 1]
    /\ todo' = [todo EXCEPT ![j] = {}]

\* The server restarts: what it was running has stalled.
Crash ==
    /\ job' = [j \in Jobs |->
                  IF ~Running(j) THEN job[j]
                  ELSE IF stalls[j] < MaxStalled THEN "waiting" ELSE "failed"]
    /\ stalls' = [j \in Jobs |-> IF Running(j) THEN stalls[j] + 1 ELSE stalls[j]]
    /\ todo' = [j \in Jobs |-> {}]
    /\ UNCHANGED <<type, failures, asked, copies, smtp, phones>>

-----------------------------------------------------------------------------
(* A run of a job. *)

\* Whom an e-mail is for is in the job; a message for the portal also goes to its
\* employees, as they are when the run starts.
MailReceiver(t) ==
    IF t \in {"newFileNotification", "openSupportTicketAdmin"}
    THEN "portal" ELSE "customer"

For(j) ==
    IF IsMail(j) THEN {MailReceiver(type[j])}
    ELSE IF type[j] = "admin" THEN phones ELSE {"customer"}

\* The run reads what it needs.  The mail functions read the SMTP section and
\* fail without one: the configuration's own mail server is never used.
Begin(j) ==
    /\ job[j] = "begun"
    /\ \/ /\ IsMail(j) => smtp
          /\ job' = [job EXCEPT ![j] = "active"]
          /\ asked' = [asked EXCEPT ![j] = For(j)]
          /\ todo' = [todo EXCEPT ![j] = For(j)]
          /\ UNCHANGED failures
       \/ Failed(j) /\ UNCHANGED asked
    /\ UNCHANGED <<type, stalls, copies, smtp, phones>>

Sent(j, r) == copies' = [copies EXCEPT ![j][r] = @ + 1]

\* Variant: a message that is refused is given up, and the run goes on.
Send_ErrorsIgnored(j) ==
    /\ job[j] = "active"
    /\ \E r \in todo[j] :
          /\ todo' = [todo EXCEPT ![j] = @ \ {r}]
          /\ Sent(j, r) \/ UNCHANGED copies
    /\ UNCHANGED <<type, job, failures, asked, stalls, smtp, phones>>

\* One message: it is taken, or it is refused, or it is taken and the answer is
\* lost.  The last two end the run, for the recipients after it as well.
Send(j) ==
    /\ job[j] = "active"
    /\ \E r \in todo[j] :
          \/ /\ Sent(j, r)
             /\ todo' = [todo EXCEPT ![j] = @ \ {r}]
             /\ UNCHANGED <<job, failures>>
          \/ Failed(j) /\ (Sent(j, r) \/ UNCHANGED copies)
    /\ UNCHANGED <<type, asked, stalls, smtp, phones>>

AuthMail(j) == type[j] \in CodeMails /\ Send(j)
FileServiceMail(j) == type[j] \in FileServiceMails /\ Send(j)
TicketMail(j) == type[j] \in TicketMails /\ Send(j)
SendMessages(j) == type[j] \in Messages /\ Send(j)

Completed(j) ==
    /\ job[j] = "active" /\ todo[j] = {}
    /\ job' = [job EXCEPT ![j] = "done"]
    /\ UNCHANGED <<type, failures, stalls, asked, todo, copies, smtp, phones>>

-----------------------------------------------------------------------------
(* What the jobs read changes meanwhile. *)

UpdateSmtpCredential ==
    /\ smtp' = TRUE
    /\ UNCHANGED <<type, job, failures, stalls, asked, todo, copies, phones>>

\* The portal, or an employee, is created, changed or removed.
ChangeStaff(r) ==
    /\ phones' = IF r \in phones THEN phones \ {r} ELSE phones \cup {r}
    /\ UNCHANGED <<type, job, failures, stalls, asked, todo, copies, smtp>>

Process(j) ==
    \/ TakeJob(j) \/ Begin(j) \/ Completed(j)
    \/ AuthMail(j) \/ FileServiceMail(j) \/ TicketMail(j) \/ SendMessages(j)

Next ==
    \/ \E j \in Jobs : (\E t \in Types : Produce(j, t)) \/ Process(j)
    \/ UpdateSmtpCredential
    \/ \E r \in Staff : ChangeStaff(r)
    \/ Crash

Spec == Init /\ [][Next]_vars

-----------------------------------------------------------------------------

\* A job is over only when everyone its last run was for has been told, or when
\* it failed or stalled as often as the queue allows; and however often it runs,
\* each of them is told at most once in a run, even if the answer to an earlier
\* message is lost or the portal's staff changes between the runs (the consumers
\* of emailQueue and catapushMessageQueue, attempts in queue-manager.module.ts).
ToldOncePerRun ==
    \A j \in Jobs :
        /\ job[j] = "done" => \A r \in asked[j] : copies[j][r] > 0
        /\ job[j] = "failed" => failures[j] = Attempts \/ stalls[j] > MaxStalled
        /\ \A r \in Recipients :
              copies[j][r] <= failures[j] + stalls[j] +
                  (IF job[j] = "done" \/ (job[j] = "active" /\ r \notin todo[j])
                   THEN 1 ELSE 0)

=============================================================================
