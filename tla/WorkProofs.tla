----------------------------- MODULE WorkProofs -----------------------------
(***************************************************************************)
(* Proofs about the work that leaves the server and its database: about    *)
(* Notifications, for any number of jobs, workers, employees, attempts and *)
(* restarts; about Dtc, for any number of documents, faults and restarts;  *)
(* and about Decoders, for any number of requests and decodings, any       *)
(* time-out, and remote services that refuse, forget tokens and leave the  *)
(* server to be restarted as often as they like.                           *)
(***************************************************************************)
EXTENDS Notifications, Dtc, Decoders, TLAPS

\* What a run knows of its recipients, and how often it may still fail.
RunInv ==
    \A j \in Jobs :
        /\ job[j] \in {"new", "lost", "waiting", "begun", "active"} =>
              failures[j] < Attempts /\ stalls[j] <= MaxStalled
        /\ job[j] = "done" => failures[j] < Attempts /\ stalls[j] <= MaxStalled
        /\ job[j] = "failed" =>
              \/ failures[j] = Attempts /\ stalls[j] <= MaxStalled
              \/ failures[j] < Attempts /\ stalls[j] = MaxStalled + 1
        /\ job[j] = "active" =>
              \A r \in asked[j] : r \notin todo[j] => copies[j][r] > 0

\* How often recipient r may have been told by job j.
Told(j, r) ==
    copies[j][r] <= failures[j] + stalls[j] +
        (IF job[j] = "done" \/ (job[j] = "active" /\ r \notin todo[j]) THEN 1 ELSE 0)

\* What TypeOK says of each variable, copies without their bound.
Types0 ==
    /\ type \in [Jobs -> Types \cup {"none"}]
    /\ \A j \in Jobs : job[j] # "new" => type[j] # "none"
    /\ job \in [Jobs -> {"new", "lost", "waiting", "begun", "active", "done", "failed"}]
    /\ failures \in [Jobs -> 0 .. Attempts]
    /\ stalls \in [Jobs -> 0 .. MaxStalled + 1]
    /\ asked \in [Jobs -> SUBSET Recipients]
    /\ todo \in [Jobs -> SUBSET Recipients]
    /\ copies \in [Jobs -> [Recipients -> Nat]]
    /\ smtp \in BOOLEAN
    /\ phones \subseteq Staff

Inv ==
    /\ Types0
    /\ RunInv
    /\ \A j \in Jobs, r \in Recipients : Told(j, r)
    /\ \A j \in Jobs : job[j] = "done" => \A r \in asked[j] : copies[j][r] > 0

LEMMA InvImplies == Inv => TypeOK /\ ToldOncePerRun
<1> USE NotificationsAssumption
<1> SUFFICES ASSUME Inv PROVE TypeOK /\ ToldOncePerRun
  OBVIOUS
<1>1. ASSUME NEW j \in Jobs, NEW r \in Recipients PROVE copies[j][r] \in 0 .. Copies
  BY <1>1 DEF Inv, Types0, RunInv, Told, Copies
<1>2. copies \in [Jobs -> [Recipients -> 0 .. Copies]]
  BY <1>1 DEF Inv, Types0
<1>3. TypeOK
  BY <1>2 DEF Inv, Types0, TypeOK
<1>4. ToldOncePerRun
  BY DEF Inv, RunInv, Told, ToldOncePerRun, Types0
<1> QED
  BY <1>3, <1>4

LEMMA InitInv == Init => Inv
<1> USE NotificationsAssumption
<1> SUFFICES ASSUME Init PROVE Inv
  OBVIOUS
<1>1. Types0
  BY DEF Init, Types0
<1>2. RunInv
  BY DEF Init, RunInv
<1>3. \A j \in Jobs, r \in Recipients : Told(j, r)
  BY DEF Init, Told
<1> QED
  BY <1>1, <1>2, <1>3 DEF Inv, Init

LEMMA ForType ==
    ASSUME Types0, NEW j \in Jobs, job[j] # "new" PROVE For(j) \subseteq Recipients
BY DEF Types0, For, IsMail, MailReceiver, Recipients, Staff

-----------------------------------------------------------------------------
(* Each step preserves the invariant. *)

LEMMA ProduceStep == ASSUME Inv, NEW j \in Jobs, NEW t \in Types, Produce(j, t) PROVE Inv'
<1> USE NotificationsAssumption DEF Inv, Produce
<1>1. t # "none"
  BY DEF EmailTypes, CodeMails, FileServiceMails, TicketMails, Messages
<1>2. Types0'
  BY <1>1 DEF Types0
<1>3. RunInv'
  BY DEF Types0, RunInv
<1>4. ASSUME NEW i \in Jobs, NEW r \in Recipients PROVE Told(i, r)'
  BY <1>4 DEF Types0, Told
<1> QED
  BY <1>2, <1>3, <1>4 DEF Types0

LEMMA MoveStep ==
  ASSUME Inv, NEW j \in Jobs, TakeJob(j) \/ Completed(j)
  PROVE  Inv'
<1> USE NotificationsAssumption DEF Inv, TakeJob, Completed
<1>1. Types0'
  BY DEF Types0
<1>2. RunInv'
  BY DEF Types0, RunInv
<1>3. ASSUME NEW i \in Jobs, NEW r \in Recipients PROVE Told(i, r)'
  BY <1>3 DEF Types0, Told
<1>4. \A i \in Jobs : job'[i] = "done" => \A r \in asked'[i] : copies'[i][r] > 0
  BY DEF Types0, RunInv
<1> QED
  BY <1>1, <1>2, <1>3, <1>4

\* A message adds one copy, for its job and recipient.
LEMMA SentCopies ==
  ASSUME copies \in [Jobs -> [Recipients -> Nat]],
         NEW j \in Jobs, NEW s \in Recipients, Sent(j, s)
  PROVE  /\ copies' \in [Jobs -> [Recipients -> Nat]]
         /\ copies'[j][s] = copies[j][s] + 1
         /\ \A i \in Jobs, r \in Recipients : i # j \/ r # s => copies'[i][r] = copies[i][r]
<1> DEFINE row == [copies[j] EXCEPT ![s] = copies[j][s] + 1]
<1>1. row \in [Recipients -> Nat] /\ row[s] = copies[j][s] + 1
  OBVIOUS
<1>2. \A r \in Recipients : r # s => row[r] = copies[j][r]
  OBVIOUS
<1>3. copies' = [copies EXCEPT ![j] = row]
  BY DEF Sent
<1> HIDE DEF row
<1> QED
  BY <1>1, <1>2, <1>3

\* A run fails, and meanwhile recipient s was told, or nobody was.
LEMMA FailedStep ==
  ASSUME Inv, NEW j \in Jobs, job[j] \in {"begun", "active"}, Failed(j),
         UNCHANGED <<type, asked, stalls, smtp, phones>>,
         NEW s \in Recipients,
         UNCHANGED copies \/ (Sent(j, s) /\ job[j] = "active" /\ s \in todo[j])
  PROVE  Inv'
<1> USE NotificationsAssumption
<1>0. Types0 /\ RunInv /\ \A i \in Jobs, r \in Recipients : Told(i, r)
  BY DEF Inv
<1>1. failures[j] \in 0 .. Attempts - 1 /\ stalls[j] \in 0 .. MaxStalled
  BY <1>0 DEF RunInv, Types0
<1>2. /\ copies' \in [Jobs -> [Recipients -> Nat]]
      /\ \A i \in Jobs, r \in Recipients : i # j => copies'[i][r] = copies[i][r]
      /\ \A r \in Recipients :
            \/ copies'[j][r] = copies[j][r]
            \/ /\ copies'[j][r] = copies[j][r] + 1
               /\ job[j] = "active" /\ r \in todo[j]
  <2>1. copies \in [Jobs -> [Recipients -> Nat]]
    BY <1>0 DEF Types0
  <2>2. CASE UNCHANGED copies
    BY <2>1, <2>2
  <2>3. CASE Sent(j, s) /\ job[j] = "active" /\ s \in todo[j]
    BY <2>1, <2>3, SentCopies
  <2> QED
    BY <2>2, <2>3
<1>3. /\ job' = [job EXCEPT ![j] = IF failures[j] + 1 < Attempts THEN "waiting" ELSE "failed"]
      /\ failures' = [failures EXCEPT ![j] = failures[j] + 1]
      /\ todo' = [todo EXCEPT ![j] = {}]
      /\ UNCHANGED <<type, asked, stalls, smtp, phones>>
  BY DEF Failed
<1>4. Types0'
  <2>1. job' \in [Jobs -> {"new", "lost", "waiting", "begun", "active", "done", "failed"}]
    BY <1>0, <1>3 DEF Types0
  <2>2. failures' \in [Jobs -> 0 .. Attempts] /\ todo' \in [Jobs -> SUBSET Recipients]
    BY <1>0, <1>1, <1>3 DEF Types0
  <2>3. \A i \in Jobs : job'[i] # "new" => type'[i] # "none"
    BY <1>0, <1>3 DEF Types0
  <2> QED
    BY <1>0, <1>2, <1>3, <2>1, <2>2, <2>3 DEF Types0
<1>5. /\ job'[j] = IF failures[j] + 1 < Attempts THEN "waiting" ELSE "failed"
      /\ failures'[j] = failures[j] + 1
      /\ \A i \in Jobs : i # j => /\ job'[i] = job[i] /\ failures'[i] = failures[i]
                                  /\ todo'[i] = todo[i]
  BY <1>0, <1>3 DEF Types0
<1>6. RunInv'
  <2> SUFFICES ASSUME NEW i \in Jobs PROVE RunInv!(i)'
    BY DEF RunInv
  <2>1. CASE i # j
    BY <2>1, <1>0, <1>2, <1>3, <1>5 DEF RunInv, Types0
  <2>2. CASE i = j
    BY <2>2, <1>1, <1>3, <1>5
  <2> QED
    BY <2>1, <2>2
<1>7. ASSUME NEW i \in Jobs, NEW r \in Recipients PROVE Told(i, r)'
  <2>0. Told(i, r) /\ copies[i][r] \in Nat /\ failures[i] \in Nat /\ stalls[i] \in Nat
    BY <1>0 DEF Types0
  <2>1. CASE i # j
    BY <2>0, <2>1, <1>2, <1>3, <1>5 DEF Told
  <2>2. CASE i = j
    <3>1. job[j] # "done"
      OBVIOUS
    <3>2. copies'[j][r] <= failures[j] + 1 + stalls[j]
      BY <2>0, <2>2, <1>2, <3>1 DEF Told
    <3> QED
      BY <2>0, <2>2, <3>2, <1>3, <1>5 DEF Told
  <2> QED
    BY <2>1, <2>2
<1>8. \A i \in Jobs : job'[i] = "done" => \A r \in asked'[i] : copies'[i][r] > 0
  BY <1>0, <1>2, <1>3, <1>5 DEF Inv, Types0
<1> QED
  BY <1>4, <1>6, <1>7, <1>8 DEF Inv

LEMMA BeginStep == ASSUME Inv, NEW j \in Jobs, Begin(j) PROVE Inv'
<1> USE NotificationsAssumption
<1>1. CASE Failed(j) /\ UNCHANGED asked
  <2>1. job[j] = "begun" /\ UNCHANGED <<type, asked, stalls, copies, smtp, phones>>
    BY <1>1 DEF Begin
  <2>2. "customer" \in Recipients
    BY DEF Recipients
  <2> QED
    BY <1>1, <2>1, <2>2, FailedStep
<1>2. CASE /\ job' = [job EXCEPT ![j] = "active"]
           /\ asked' = [asked EXCEPT ![j] = For(j)]
           /\ todo' = [todo EXCEPT ![j] = For(j)]
           /\ UNCHANGED failures
  <2>1. job[j] = "begun" /\ UNCHANGED <<type, stalls, copies, smtp, phones>>
    BY DEF Begin
  <2>2. For(j) \subseteq Recipients
    BY <2>1, ForType DEF Inv
  <2>3. Types0'
    BY <1>2, <2>1, <2>2 DEF Inv, Types0
  <2>4. RunInv'
    BY <1>2, <2>1 DEF Inv, Types0, RunInv
  <2>5. ASSUME NEW i \in Jobs, NEW r \in Recipients PROVE Told(i, r)'
    BY <1>2, <2>1, <2>5 DEF Inv, Types0, Told
  <2>6. \A i \in Jobs : job'[i] = "done" => \A r \in asked'[i] : copies'[i][r] > 0
    BY <1>2, <2>1 DEF Inv, Types0
  <2> QED
    BY <2>3, <2>4, <2>5, <2>6 DEF Inv
<1> QED
  BY <1>1, <1>2 DEF Begin

LEMMA SendStep == ASSUME Inv, NEW j \in Jobs, Send(j) PROVE Inv'
<1> USE NotificationsAssumption
<1>0. job[j] = "active" /\ UNCHANGED <<type, asked, stalls, smtp, phones>>
  BY DEF Send
<1>1. PICK s \in todo[j] :
          \/ Sent(j, s) /\ todo' = [todo EXCEPT ![j] = @ \ {s}] /\ UNCHANGED <<job, failures>>
          \/ Failed(j) /\ (Sent(j, s) \/ UNCHANGED copies)
  BY DEF Send
<1>2. s \in Recipients
  BY <1>1 DEF Inv, Types0
<1>3. CASE Failed(j) /\ (Sent(j, s) \/ UNCHANGED copies)
  BY <1>0, <1>1, <1>2, <1>3, FailedStep
<1>4. CASE Sent(j, s) /\ todo' = [todo EXCEPT ![j] = @ \ {s}] /\ UNCHANGED <<job, failures>>
  <2>0. Types0 /\ RunInv /\ \A i \in Jobs, r \in Recipients : Told(i, r)
    BY DEF Inv
  <2>1. /\ copies' \in [Jobs -> [Recipients -> Nat]]
        /\ copies'[j][s] = copies[j][s] + 1
        /\ \A i \in Jobs, r \in Recipients : i # j \/ r # s => copies'[i][r] = copies[i][r]
    BY <1>2, <1>4, <2>0, SentCopies DEF Types0
  <2>2. /\ todo' \in [Jobs -> SUBSET Recipients]
        /\ todo'[j] = todo[j] \ {s}
        /\ \A i \in Jobs : i # j => todo'[i] = todo[i]
    BY <1>4, <2>0 DEF Types0
  <2>3. Types0'
    BY <1>0, <1>4, <2>0, <2>1, <2>2 DEF Types0
  <2>4. ASSUME NEW i \in Jobs, NEW r \in Recipients
        PROVE  copies[i][r] \in Nat /\ copies'[i][r] \in Nat /\ copies'[i][r] >= copies[i][r]
    <3>1. copies[i][r] \in Nat /\ copies'[i][r] \in Nat
      BY <2>0, <2>1, <2>4 DEF Types0
    <3>2. copies'[i][r] = copies[i][r] \/ copies'[i][r] = copies[i][r] + 1
      BY <2>1, <2>4
    <3> QED
      BY <3>1, <3>2
  <2>5. RunInv'
    <3> SUFFICES ASSUME NEW i \in Jobs PROVE RunInv!(i)'
      BY DEF RunInv
    <3>1. ASSUME job[i] = "active", NEW r \in asked[i], r \notin todo'[i] PROVE copies'[i][r] > 0
      <4>1. r \in Recipients
        BY <2>0, <3>1 DEF Types0
      <4>2. CASE i = j /\ r = s
        BY <2>1, <2>4, <4>1, <4>2
      <4>3. CASE ~(i = j /\ r = s)
        <5>1. r \notin todo[i]
          BY <2>2, <3>1, <4>3
        <5>2. copies[i][r] > 0
          BY <2>0, <3>1, <5>1 DEF RunInv
        <5> QED
          BY <2>4, <4>1, <5>2
      <4> QED
        BY <4>2, <4>3
    <3> QED
      BY <1>0, <1>4, <2>0, <3>1 DEF RunInv
  <2>6. ASSUME NEW i \in Jobs, NEW r \in Recipients PROVE Told(i, r)'
    <3>0. Told(i, r) /\ failures[i] \in Nat /\ stalls[i] \in Nat
      BY <2>0, <2>6 DEF Types0
    <3>1. CASE i = j /\ r = s
      <4>1. copies[j][s] <= failures[j] + stalls[j]
        BY <1>0, <1>1, <3>0, <3>1 DEF Told
      <4>2. s \notin todo'[j]
        BY <2>2
      <4> QED
        BY <1>0, <1>4, <2>1, <2>4, <3>0, <3>1, <4>1, <4>2 DEF Told
    <3>2. CASE ~(i = j /\ r = s)
      <4>1. copies'[i][r] = copies[i][r] /\ (r \in todo'[i] <=> r \in todo[i])
        BY <2>1, <2>2, <3>2, <2>6
      <4> QED
        BY <1>0, <1>4, <3>0, <4>1 DEF Told
    <3> QED
      BY <3>1, <3>2
  <2>7. ASSUME NEW i \in Jobs, job'[i] = "done", NEW r \in asked'[i] PROVE copies'[i][r] > 0
    <3>1. job[i] = "done" /\ r \in asked[i] /\ r \in Recipients
      BY <1>0, <1>4, <2>0, <2>7 DEF Types0
    <3>2. copies[i][r] > 0
      BY <2>7, <3>1 DEF Inv
    <3> QED
      BY <2>4, <3>1, <3>2, <2>7
  <2> QED
    BY <2>3, <2>5, <2>6, <2>7 DEF Inv
<1> QED
  BY <1>1, <1>3, <1>4

LEMMA CrashStep == ASSUME Inv, Crash PROVE Inv'
<1> USE NotificationsAssumption
<1>0. Types0 /\ RunInv /\ \A i \in Jobs, r \in Recipients : Told(i, r)
  BY DEF Inv
<1>1. UNCHANGED <<type, failures, asked, copies, smtp, phones>>
  BY DEF Crash
<1>2. ASSUME NEW i \in Jobs
      PROVE  /\ todo'[i] = {}
             /\ Running(i) => /\ stalls[i] <= MaxStalled
                             /\ stalls'[i] = stalls[i] + 1
                             /\ job'[i] = IF stalls[i] < MaxStalled THEN "waiting" ELSE "failed"
             /\ ~Running(i) => stalls'[i] = stalls[i] /\ job'[i] = job[i]
  BY <1>0, <1>2 DEF Crash, RunInv, Running
<1>3. Types0'
  <2>1. job' \in [Jobs -> {"new", "lost", "waiting", "begun", "active", "done", "failed"}]
    BY <1>0 DEF Crash, Types0
  <2>2. todo' \in [Jobs -> SUBSET Recipients]
    BY DEF Crash
  <2>3. stalls' \in [Jobs -> 0 .. MaxStalled + 1]
    <3>1. ASSUME NEW i \in Jobs PROVE stalls'[i] \in 0 .. MaxStalled + 1
      BY <1>0, <1>2, <3>1 DEF Types0
    <3>2. stalls' = [i \in Jobs |-> stalls'[i]]
      BY DEF Crash
    <3> QED
      BY <3>1, <3>2
  <2>4. \A i \in Jobs : job'[i] # "new" => type'[i] # "none"
    BY <1>0, <1>1, <1>2 DEF Types0, Running
  <2> QED
    BY <1>0, <1>1, <2>1, <2>2, <2>3, <2>4 DEF Types0
<1>4. RunInv'
  <2> SUFFICES ASSUME NEW i \in Jobs PROVE RunInv!(i)'
    BY DEF RunInv
  <2>1. stalls[i] \in Nat
    BY <1>0 DEF Types0
  <2>2. CASE Running(i)
    BY <1>0, <1>1, <1>2, <2>1, <2>2 DEF RunInv, Running
  <2>3. CASE ~Running(i)
    BY <1>0, <1>1, <1>2, <2>3 DEF RunInv, Running
  <2> QED
    BY <2>2, <2>3
<1>5. ASSUME NEW i \in Jobs, NEW r \in Recipients PROVE Told(i, r)'
  <2>1. /\ Told(i, r)
        /\ copies[i][r] \in Nat /\ failures[i] \in Nat /\ stalls[i] \in Nat
    BY <1>0, <1>5 DEF Types0
  <2>2. CASE Running(i)
    BY <1>1, <1>2, <2>1, <2>2 DEF Told, Running
  <2>3. CASE ~Running(i)
    BY <1>1, <1>2, <2>1, <2>3 DEF Told, Running
  <2> QED
    BY <2>2, <2>3
<1>6. \A i \in Jobs : job'[i] = "done" => \A r \in asked'[i] : copies'[i][r] > 0
  BY <1>0, <1>1, <1>2 DEF Inv, Running
<1> QED
  BY <1>3, <1>4, <1>5, <1>6 DEF Inv

\* The steps that change none of what jobs are about.
LEMMA OtherStep ==
  ASSUME Inv, UNCHANGED <<type, job, failures, stalls, asked, todo, copies>>,
         smtp' \in BOOLEAN, phones' \subseteq Staff
  PROVE  Inv'
BY DEF Inv, Types0, RunInv, Told

LEMMA StepInv == Inv /\ [Next]_vars => Inv'
<1> SUFFICES ASSUME Inv, [Next]_vars PROVE Inv'
  OBVIOUS
<1>1. ASSUME NEW j \in Jobs, NEW t \in Types, Produce(j, t) PROVE Inv'
  BY <1>1, ProduceStep
<1>2. ASSUME NEW j \in Jobs, Process(j) PROVE Inv'
  BY <1>2, MoveStep, BeginStep, SendStep
     DEF Process, AuthMail, FileServiceMail, TicketMail, SendMessages
<1>3. CASE UpdateSmtpCredential
  BY <1>3, OtherStep DEF UpdateSmtpCredential, Inv, Types0
<1>4. ASSUME NEW r \in Staff, ChangeStaff(r) PROVE Inv'
  BY <1>4, OtherStep DEF ChangeStaff, Inv, Types0
<1>5. CASE Crash
  BY <1>5, CrashStep
<1>6. CASE UNCHANGED vars
  BY <1>6, OtherStep DEF vars, Inv, Types0
<1> QED
  BY <1>1, <1>2, <1>3, <1>4, <1>5, <1>6 DEF Next

THEOREM RunsCorrect == Spec => []Inv
  BY InitInv, StepInv, PTL DEF Spec

\* Jobs, what they fail and whom they told keep their types; no recipient is sent
\* more copies than the attempts and restarts of the queue allow.
THEOREM TypeCorrect == Spec => []TypeOK
  BY InvImplies, RunsCorrect, PTL

\* A job that is done has told everyone its last run was for, one that failed
\* did so as often as the queue allows, and nobody is told twice in a run.
THEOREM ToldOnceAlways == Spec => []ToldOncePerRun
  BY InvImplies, RunsCorrect, PTL
-----------------------------------------------------------------------------
(* Dtc. *)

\* A worker that is at a document runs its job, only one job runs, and none is
\* queued before its request is done.
WorkInv ==
    /\ \A d \in Dtcs : status[d] = "absent" \/ d \in creating => dtcJob[d] = "none"
    /\ \A d \in creating : status[d] # "absent"
    /\ \A d \in Dtcs : work[d] # "idle" => dtcJob[d] = "active"
    /\ \A d, e \in Dtcs : dtcJob[d] = "active" /\ dtcJob[e] = "active" => d = e

\* Only a document that exists names an answer, the folder is removed after
\* its document, and the worker that is about to conclude a document that
\* exists has stored its answer.
StoreInv ==
    /\ \A d \in outputFile : Exists(d) /\ d \in stored
    /\ \A d \in Dtcs : deleting[d] = "folder" => status[d] = "deleted"
    /\ \A d \in Dtcs : work[d] = "complete" /\ Exists(d) => d \in stored

\* Types: every operation keeps the documents, directories and program points
\* of dtc.service.ts within their ranges.
THEOREM DtcTypeCorrect == DtcSpec => []DtcTypeOK
<1>1. DtcInit => DtcTypeOK
  BY BoundsAssumption DEF DtcInit, DtcTypeOK, DtcStatus
<1>2. DtcTypeOK /\ [DtcNext]_dtcVars => DtcTypeOK'
  <2> SUFFICES ASSUME DtcTypeOK, [DtcNext]_dtcVars PROVE DtcTypeOK'
    OBVIOUS
  <2> USE BoundsAssumption DEF DtcTypeOK, DtcStatus
  <2>1. ASSUME NEW d \in Dtcs, Create(d) \/ CreateStep(d) PROVE DtcTypeOK'
    BY <2>1 DEF Create, CreateStep, MoveAndQueue, MoveFails, Fault, docVars,
                diskVars, workVars, boundVars
  <2>2. ASSUME NEW d \in Dtcs, WorkerStep(d) PROVE DtcTypeOK'
    <3>1. CASE StartJob(d)
      BY <3>1 DEF StartJob, SetStatus, Return, Proceed, EndJob, diskVars, boundVars
    <3>2. CASE MoveToWinols(d)
      BY <3>2 DEF MoveToWinols, Return, Proceed, EndJob, docVars, boundVars
    <3>3. CASE FoundAnswer(d) \/ UploadAnswer(d)
      BY <3>3 DEF FoundAnswer, UploadAnswer, Proceed, docVars, diskVars, boundVars
    <3>4. CASE LookAgain(d)
      BY <3>4 DEF LookAgain, docVars, diskVars, boundVars
    <3>5. CASE GiveUp(d)
      BY <3>5 DEF GiveUp, SetStatus, Return, Proceed, EndJob, diskVars, boundVars
    <3>6. CASE CompleteDtc(d)
      BY <3>6 DEF CompleteDtc, SetStatus, Proceed, diskVars, boundVars
    <3>7. CASE RemoveAnswer(d) \/ JobFails(d) \/ EndJob(d)
      BY <3>7
         DEF RemoveAnswer, JobFails, Fault, Return, Proceed, EndJob, docVars, diskVars, boundVars
    <3> QED
      BY <2>2, <3>1, <3>2, <3>3, <3>4, <3>5, <3>6, <3>7 DEF WorkerStep
  <2>3. ASSUME NEW d \in Dtcs, WinolsAnswers(d) PROVE DtcTypeOK'
    BY <2>3 DEF WinolsAnswers, docVars, workVars, boundVars
  <2>4. ASSUME NEW d \in Dtcs, DeleteTemp(d) \/ DeleteStep(d) PROVE DtcTypeOK'
    BY <2>4 DEF DeleteTemp, DeleteStep, DeleteDocument, DeleteFolder,
                DeleteFails, Fault, docVars, diskVars, workVars, boundVars
  <2>5. CASE Restart
    BY <2>5 DEF Restart, docVars, diskVars
  <2>6. CASE UNCHANGED dtcVars
    BY <2>6 DEF dtcVars
  <2> QED
    BY <2>1, <2>2, <2>3, <2>4, <2>5, <2>6 DEF DtcNext, DtcStep
<1> QED
  BY <1>1, <1>2, PTL DEF DtcSpec

\* What the queue and the program points say of each other at every step.
THEOREM WorkCorrect == DtcSpec => []WorkInv
<1>1. DtcInit => WorkInv
  BY DEF DtcInit, WorkInv
<1>2. WorkInv /\ DtcTypeOK /\ [DtcNext]_dtcVars => WorkInv'
  <2> SUFFICES ASSUME WorkInv, DtcTypeOK, [DtcNext]_dtcVars PROVE WorkInv'
    OBVIOUS
  <2> USE DEF WorkInv, DtcTypeOK
  <2>1. ASSUME NEW d \in Dtcs, StartJob(d) PROVE WorkInv'
    BY <2>1 DEF StartJob, Return, Proceed, EndJob, SetStatus, Exists, DtcStatus
  <2>2. ASSUME NEW d \in Dtcs, WorkerStep(d), ~StartJob(d) PROVE WorkInv'
    BY <2>2 DEF WorkerStep, MoveToWinols, FoundAnswer, LookAgain, GiveUp,
                UploadAnswer, CompleteDtc, RemoveAnswer, JobFails, Return, Proceed, EndJob,
                SetStatus, Exists, DtcStatus, docVars
  <2>3. ASSUME NEW d \in Dtcs, CreateStep(d) PROVE WorkInv'
    BY <2>3 DEF CreateStep, MoveAndQueue, MoveFails, workVars, docVars
  <2>4. ASSUME NEW d \in Dtcs,
               Create(d) \/ WinolsAnswers(d) \/ DeleteTemp(d) \/ DeleteStep(d)
        PROVE WorkInv'
    BY <2>4 DEF Create, WinolsAnswers, DeleteTemp, DeleteStep, DeleteDocument,
                DeleteFolder, DeleteFails, workVars, docVars, Exists, DtcStatus
  <2>5. CASE Restart
    BY <2>5 DEF Restart, docVars
  <2>6. CASE UNCHANGED dtcVars
    BY <2>6 DEF dtcVars
  <2> QED
    BY <2>1, <2>2, <2>3, <2>4, <2>5, <2>6 DEF DtcNext, DtcStep
<1> QED
  BY <1>1, <1>2, DtcTypeCorrect, PTL DEF DtcSpec

\* What a document, its answer in the store and its deletion say of each other.
LEMMA StoreCorrect == DtcSpec => []StoreInv
<1>1. DtcInit => StoreInv
  BY DEF DtcInit, StoreInv
<1>2. StoreInv /\ DtcTypeOK /\ WorkInv /\ [DtcNext]_dtcVars => StoreInv'
  <2> SUFFICES ASSUME StoreInv, DtcTypeOK, WorkInv, [DtcNext]_dtcVars PROVE StoreInv'
    OBVIOUS
  <2> USE DEF StoreInv, DtcTypeOK, Exists, DtcStatus
  <2>1. ASSUME NEW d \in Dtcs, Create(d) PROVE StoreInv'
    BY <2>1 DEF Create, workVars, WorkInv
  <2>2. ASSUME NEW d \in Dtcs, CreateStep(d) \/ WinolsAnswers(d) PROVE StoreInv'
    BY <2>2 DEF CreateStep, MoveAndQueue, MoveFails, WinolsAnswers, docVars,
                diskVars, workVars
  <2>3. ASSUME NEW d \in Dtcs, WorkerStep(d) PROVE StoreInv'
    <3>1. CASE StartJob(d) \/ GiveUp(d)
      BY <2>3, <3>1 DEF StartJob, GiveUp, SetStatus, Return, Proceed, EndJob, diskVars
    <3>2. CASE CompleteDtc(d)
      BY <2>3, <3>2 DEF CompleteDtc, SetStatus, Proceed, diskVars
    <3>3. CASE MoveToWinols(d) \/ FoundAnswer(d) \/ LookAgain(d)
      BY <2>3, <3>3 DEF MoveToWinols, FoundAnswer, LookAgain, Return, Proceed, EndJob,
                        docVars, diskVars
    <3>4. CASE UploadAnswer(d) \/ RemoveAnswer(d) \/ JobFails(d) \/ EndJob(d)
      BY <2>3, <3>4 DEF UploadAnswer, RemoveAnswer, JobFails, Return, Proceed, EndJob,
                        docVars, diskVars
    <3> QED
      BY <2>3, <3>1, <3>2, <3>3, <3>4 DEF WorkerStep
  <2>4. ASSUME NEW d \in Dtcs, DeleteTemp(d) \/ DeleteStep(d) PROVE StoreInv'
    BY <2>4 DEF DeleteTemp, DeleteStep, DeleteDocument, DeleteFolder,
                DeleteFails, docVars, diskVars, workVars
  <2>5. CASE Restart
    BY <2>5 DEF Restart, docVars, diskVars
  <2>6. CASE UNCHANGED dtcVars
    BY <2>6 DEF dtcVars
  <2> QED
    BY <2>1, <2>2, <2>3, <2>4, <2>5, <2>6 DEF DtcNext, DtcStep
<1> QED
  BY <1>1, <1>2, DtcTypeCorrect, WorkCorrect, PTL DEF DtcSpec

\* A document names an answer only while the store has it.
THEOREM OutputAlwaysStored == DtcSpec => []OutputIsStored
<1>1. StoreInv => OutputIsStored
  BY DEF StoreInv, OutputIsStored
<1> QED
  BY <1>1, StoreCorrect, PTL

\* An answer is stored only by the run that moved the file: what is stored was moved,
\* and who looks for an answer has stored none.
VerdictInv ==
    \A d \in Dtcs :
        /\ status[d] = "absent" => d \notin stored
        /\ d \in creating => status[d] \in {"WAITING", "deleted"} /\ d \notin stored
        /\ place[d] \in {"none", "upload", "temp"} =>
              d \notin stored /\ work[d] \in {"idle", "files", "end"}
        /\ work[d] = "look" => d \notin stored
        /\ status[d] = "FAILED" =>
              work[d] \in {"idle", "end"} /\ d \notin stored \cup outputFile

\* dtcProcess run again after a restart fails on its moved file and never marks FAILED
\* a document whose answer was stored.
THEOREM FailedAlwaysEmpty == DtcSpec => []FailedHasNoAnswer
<1>1. DtcInit => VerdictInv
  BY DEF DtcInit, VerdictInv
<1>2. VerdictInv /\ StoreInv /\ WorkInv /\ DtcTypeOK /\ [DtcNext]_dtcVars => VerdictInv'
  <2> SUFFICES ASSUME VerdictInv, StoreInv, WorkInv, DtcTypeOK, [DtcNext]_dtcVars
               PROVE  VerdictInv'
    OBVIOUS
  <2> USE DEF VerdictInv, WorkInv, DtcTypeOK, DtcStatus
  <2>1. ASSUME NEW d \in Dtcs, Create(d) \/ CreateStep(d) PROVE VerdictInv'
    BY <2>1 DEF Create, CreateStep, MoveAndQueue, MoveFails, docVars, diskVars, workVars
  <2>2. ASSUME NEW d \in Dtcs, WorkerStep(d) PROVE VerdictInv'
    <3>1. CASE StartJob(d) \/ JobFails(d)
      BY <3>1
         DEF StartJob, JobFails, SetStatus, Exists, Return, Proceed, EndJob, docVars, diskVars
    <3>2. CASE MoveToWinols(d) \/ FoundAnswer(d) \/ LookAgain(d)
      BY <3>2 DEF MoveToWinols, FoundAnswer, LookAgain, Return, Proceed, EndJob, docVars, diskVars
    <3>3. CASE GiveUp(d)
      BY <3>3 DEF GiveUp, SetStatus, Exists, Return, Proceed, EndJob, diskVars, StoreInv
    <3>4. CASE UploadAnswer(d) \/ CompleteDtc(d)
      BY <3>4 DEF UploadAnswer, CompleteDtc, SetStatus, Exists, Proceed, docVars, diskVars
    <3>5. CASE RemoveAnswer(d) \/ EndJob(d)
      BY <3>5 DEF RemoveAnswer, Return, Proceed, EndJob, docVars, diskVars
    <3> QED
      BY <2>2, <3>1, <3>2, <3>3, <3>4, <3>5 DEF WorkerStep
  <2>3. ASSUME NEW d \in Dtcs, WinolsAnswers(d) PROVE VerdictInv'
    BY <2>3 DEF WinolsAnswers, docVars, workVars
  <2>4. ASSUME NEW d \in Dtcs, DeleteTemp(d) \/ DeleteStep(d) PROVE VerdictInv'
    BY <2>4 DEF DeleteTemp, DeleteStep, DeleteDocument, DeleteFolder, DeleteFails,
                docVars, diskVars, workVars
  <2>5. CASE Restart
    BY <2>5 DEF Restart, docVars, diskVars
  <2>6. CASE UNCHANGED dtcVars
    BY <2>6 DEF dtcVars
  <2> QED
    BY <2>1, <2>2, <2>3, <2>4, <2>5, <2>6 DEF DtcNext, DtcStep
<1>3. VerdictInv => FailedHasNoAnswer
  BY DEF VerdictInv, FailedHasNoAnswer
<1> QED
  BY <1>1, <1>2, <1>3, DtcTypeCorrect, WorkCorrect, StoreCorrect, PTL DEF DtcSpec


\* Before any restart: a document whose request still moves its file is waiting or
\* gone, and the worker has left, or only cleans up after, a document with a result.
FinalInv ==
    crashes = 0 =>
        \A d \in Dtcs :
            /\ d \in creating => status[d] \in {"WAITING", "deleted"}
            /\ status[d] \in {"COMPLETED", "FAILED"} =>
                  dtcJob[d] # "waiting" /\ work[d] \in {"idle", "clean", "end"}

\* A result stays until it is deleted: dtcProcess sets PROGRESS only for a job that
\* waits, and none waits for a document that was concluded, as long as the server runs.
THEOREM ResultFinalAlways == DtcSpec => ResultIsFinal
<1> DEFINE Final ==
      crashes = 0 =>
          \A d \in Dtcs : status[d] \in {"COMPLETED", "FAILED"} =>
              status'[d] \in {status[d], "deleted"}
<1>1. DtcInit => FinalInv
  BY DEF DtcInit, FinalInv
<1>2. FinalInv /\ WorkInv /\ DtcTypeOK /\ [DtcNext]_dtcVars => FinalInv' /\ [Final]_dtcVars
  <2> SUFFICES ASSUME FinalInv, WorkInv, DtcTypeOK, [DtcNext]_dtcVars
               PROVE  FinalInv' /\ (dtcVars' = dtcVars \/ Final)
    OBVIOUS
  <2> USE DEF FinalInv, WorkInv, DtcTypeOK, DtcStatus
  <2>1. ASSUME NEW d \in Dtcs, Create(d) \/ CreateStep(d) PROVE FinalInv' /\ Final
    BY <2>1 DEF Create, CreateStep, MoveAndQueue, MoveFails, Fault, docVars,
                workVars, boundVars
  <2>2. ASSUME NEW d \in Dtcs, WorkerStep(d) PROVE FinalInv' /\ Final
    <3>1. CASE StartJob(d) \/ GiveUp(d)
      BY <3>1 DEF StartJob, GiveUp, SetStatus, Exists, Return, Proceed, EndJob, boundVars
    <3>2. CASE CompleteDtc(d)
      BY <3>2 DEF CompleteDtc, SetStatus, Exists, Proceed, boundVars
    <3>3. CASE MoveToWinols(d) \/ FoundAnswer(d) \/ LookAgain(d)
      BY <3>3 DEF MoveToWinols, FoundAnswer, LookAgain, Return, Proceed, EndJob,
                  docVars, boundVars
    <3>4. CASE UploadAnswer(d) \/ RemoveAnswer(d) \/ JobFails(d) \/ EndJob(d)
      BY <3>4 DEF UploadAnswer, RemoveAnswer, JobFails, Return, Proceed, EndJob,
                  docVars, boundVars, Fault
    <3> QED
      BY <2>2, <3>1, <3>2, <3>3, <3>4 DEF WorkerStep
  <2>3. ASSUME NEW d \in Dtcs, WinolsAnswers(d) \/ DeleteTemp(d) \/ DeleteStep(d)
        PROVE FinalInv' /\ Final
    BY <2>3 DEF WinolsAnswers, DeleteTemp, DeleteStep, DeleteDocument,
                DeleteFolder, DeleteFails, Fault, docVars, workVars, boundVars
  <2>4. CASE Restart
    BY <2>4, BoundsAssumption DEF Restart, docVars
  <2>5. CASE UNCHANGED dtcVars
    BY <2>5 DEF dtcVars
  <2> QED
    BY <2>1, <2>2, <2>3, <2>4, <2>5 DEF DtcNext, DtcStep
<1> QED
  BY <1>1, <1>2, DtcTypeCorrect, WorkCorrect, PTL DEF DtcSpec, ResultIsFinal

-----------------------------------------------------------------------------
(* Decoders. *)

HandlersOK ==
    /\ pc \in [Procs -> Points]
    /\ op \in [Procs -> {"none", "decode", "encode"}]
    /\ target \in [Procs -> Docs \cup {NoDoc}]
    /\ tool \in [Procs -> Tools \cup {"none"}]
    /\ held \subseteq Procs /\ knows \subseteq Procs
    /\ polls \in [Procs -> 0 .. Timeout]
    /\ \A p \in Procs : pc[p] # "idle" => target[p] \in Docs /\ tool[p] \in Tools

\* A handler that has still to close the slot it opened, or to give up on it.
Owing(p) ==
    \/ pc[p] \in {"poll", "close", "giveBack", "modify", "encode"}
    \/ pc[p] = "download" /\ op[p] = "decode"

\* SlotsReturned does not say who closes a slot that is open while somebody works
\* on the file: another handler may have it open, and end before this one.
SlotsOwed ==
    \A d \in Docs : slot[d] = "open" /\ d \notin unreturned =>
        \E p \in Procs : target[p] = d /\ Owing(p)

\* What a handler is about to name was stored.
SavesStored ==
    \A p \in Procs : pc[p] = "save" => {target[p]} \X MadeNames(p) \subseteq objects

\* Only a decoding of Kess3 names what Kess3 named.
RemoteIsKess3 ==
    \A d \in Docs : "remote" \in doc[d].named => doc[d].tool = "KESS3"

NamedOnceStored == \A d \in Docs : {d} \X doc[d].named \subseteq objects

-----------------------------------------------------------------------------
(* How handlers move. *)

LEMMA TakeTypes ==
  ASSUME DecodersTypeOK, NEW p \in Procs, NEW o \in {"decode", "encode"}, NEW d \in Docs,
         NEW t \in Tools, NEW s \in Points, Take(p, o, d, t, s)
  PROVE  HandlersOK'
BY DEF DecodersTypeOK, HandlersOK, Take

LEMMA GotoTypes ==
  ASSUME DecodersTypeOK, NEW p \in Procs, pc[p] # "idle", NEW s \in Points, Goto(p, s)
  PROVE  HandlersOK'
<1>1. 0 \in 0 .. Timeout
  BY DecodersAssumption
<1> QED
  BY <1>1 DEF DecodersTypeOK, HandlersOK, Goto

LEMMA LeaveTypes ==
  ASSUME DecodersTypeOK, NEW p \in Procs, Leave(p)
  PROVE  HandlersOK'
<1>1. 0 \in 0 .. Timeout
  BY DecodersAssumption
<1> QED
  BY <1>1 DEF DecodersTypeOK, HandlersOK, Leave, Points

LEMMA LeaveOpenTypes ==
  ASSUME DecodersTypeOK, NEW d \in Docs, LeaveOpen(d)
  PROVE  unreturned' \subseteq Docs
BY DEF DecodersTypeOK, LeaveOpen

LEMMA TokenTypes ==
  ASSUME DecodersTypeOK, NEW p \in Procs, Answered(p) \/ Refused(p)
  PROVE  token' \in BOOLEAN
<1>1. CASE Answered(p)
  <2>1. token' = (token \/ p \notin held)
    BY <1>1 DEF Answered
  <2> QED
    BY <2>1
<1>2. CASE Refused(p)
  BY <1>2 DEF Refused, DecodersTypeOK
<1> QED
  BY <1>1, <1>2

LEMMA AbandonTypes ==
  ASSUME DecodersTypeOK, NEW p \in Procs, pc[p] # "idle", Abandon(p)
  PROVE  HandlersOK' /\ slot' = slot /\ unreturned' \subseteq Docs
<1>1. target[p] \in Docs
  BY DEF DecodersTypeOK
<1>2. CASE op[p] = "decode" /\ p \in knows
  BY <1>2, GotoTypes DEF Abandon, DecodersTypeOK, Points
<1>3. CASE ~(op[p] = "decode" /\ p \in knows)
  BY <1>1, <1>3, LeaveTypes, LeaveOpenTypes DEF Abandon
<1> QED
  BY <1>2, <1>3 DEF Abandon

LEMMA PollAgainTypes ==
  ASSUME DecodersTypeOK, NEW p \in Procs, pc[p] # "idle", PollAgain(p)
  PROVE  HandlersOK' /\ slot' = slot /\ unreturned' \subseteq Docs
<1>1. CASE polls[p] = Timeout
  BY <1>1, AbandonTypes DEF PollAgain
<1>2. CASE polls[p] # Timeout
  <2>1. polls[p] + 1 \in 0 .. Timeout
    BY <1>2, DecodersAssumption DEF DecodersTypeOK
  <2> QED
    BY <1>2, <2>1 DEF PollAgain, DecodersTypeOK, HandlersOK
<1> QED
  BY <1>1, <1>2

-----------------------------------------------------------------------------
(* Types. *)

LEMMA MadeNamesTypes ==
  ASSUME NEW p \in Procs
  PROVE  MadeNames(p) \subseteq Names /\ EncodedName(p) \in EncodedNames
BY DEF MadeNames, EncodedName, EncodedNames, Names

LEMMA InitTypes == DecodersInit => DecodersTypeOK
<1>1. 0 \in 0 .. Timeout
  BY DecodersAssumption
<1> QED
  BY <1>1 DEF DecodersInit, DecodersTypeOK, Points

\* The steps that talk to Kess3: nothing is stored.
LEMMA RemoteTypes ==
  ASSUME DecodersTypeOK, NEW p \in Procs,
         \/ UploadEncodedFile(p) \/ ResolveAsyncOperation(p) \/ Download(p)
         \/ CloseFileSlot(p) \/ GiveBack(p)
         \/ ReOpenFileSlot(p) \/ UploadModifiedFile(p) \/ StartEncoding(p)
  PROVE  DecodersTypeOK'
<1>1. /\ HandlersOK' /\ unreturned' \subseteq Docs
      /\ slot' \in [Docs -> {"none", "open", "closed"}]
      /\ pc[p] # "idle"
  <2>1. CASE UploadEncodedFile(p)
    <3>1. pc[p] # "idle" /\ target[p] \in Docs
      BY <2>1 DEF UploadEncodedFile, DecodersTypeOK
    <3> QED
      BY <2>1, <3>1, LeaveTypes, LeaveOpenTypes
      DEF UploadEncodedFile, DecodersTypeOK, HandlersOK, Points
  <2>2. CASE ResolveAsyncOperation(p)
    BY <2>2, GotoTypes, AbandonTypes, PollAgainTypes
       DEF ResolveAsyncOperation, DecodersTypeOK, Points
  <2>3. CASE Download(p)
    BY <2>3, GotoTypes, AbandonTypes DEF Download, DecodersTypeOK, Points
  <2>4. CASE CloseFileSlot(p)
    BY <2>4, GotoTypes, AbandonTypes DEF CloseFileSlot, Closed, DecodersTypeOK, Points
  <2>5. CASE GiveBack(p)
    BY <2>5, LeaveTypes, LeaveOpenTypes DEF GiveBack, Closed, DecodersTypeOK
  <2>6. CASE ReOpenFileSlot(p)
    <3>1. pc[p] # "idle" /\ target[p] \in Docs
      BY <2>6 DEF ReOpenFileSlot, DecodersTypeOK
    <3> QED
      BY <2>6, <3>1, GotoTypes, LeaveTypes, LeaveOpenTypes
         DEF ReOpenFileSlot, DecodersTypeOK, Points
  <2>7. CASE UploadModifiedFile(p)
    BY <2>7, GotoTypes, AbandonTypes DEF UploadModifiedFile, DecodersTypeOK, Points
  <2>8. CASE StartEncoding(p)
    BY <2>8, GotoTypes, AbandonTypes DEF StartEncoding, DecodersTypeOK, Points
  <2> QED
    BY <2>1, <2>2, <2>3, <2>4, <2>5, <2>6, <2>7, <2>8
<1>2. UNCHANGED <<doc, objects, partial>> /\ (Answered(p) \/ Refused(p))
  BY DEF UploadEncodedFile, ResolveAsyncOperation, Download, CloseFileSlot, GiveBack,
         ReOpenFileSlot, UploadModifiedFile, StartEncoding
<1> QED
  BY <1>1, <1>2, TokenTypes DEF DecodersTypeOK, HandlersOK

LEMMA StoreTypes == ASSUME DecodersTypeOK, NEW p \in Procs, Store(p) PROVE DecodersTypeOK'
<1>1. pc[p] # "idle" /\ target[p] \in Docs
  BY DEF Store, DecodersTypeOK
<1>2. UNCHANGED <<doc, slot, token, unreturned>> /\ HandlersOK'
  BY <1>1, GotoTypes, LeaveTypes DEF Store, Points
<1>3. objects' \subseteq Docs \X Names /\ objects \subseteq objects'
  BY <1>1, MadeNamesTypes DEF Store, DecodersTypeOK
<1>4. partial' \subseteq objects' \cap (Docs \X {"remote"})
  BY <1>1, <1>3 DEF Store, DecodersTypeOK, MadeNames
<1> QED
  BY <1>2, <1>3, <1>4 DEF DecodersTypeOK, HandlersOK

LEMMA SaveTypes == ASSUME DecodersTypeOK, NEW p \in Procs, Save(p) PROVE DecodersTypeOK'
<1>1. pc[p] # "idle" /\ target[p] \in Docs /\ tool[p] \in Tools
  BY DEF Save, DecodersTypeOK
<1>2. doc[target[p]].named \subseteq Names
  BY <1>1 DEF DecodersTypeOK, NoDecoding
<1>3. doc' \in [Docs -> {NoDecoding} \cup [tool : Tools, named : SUBSET Names]]
  BY <1>1, <1>2, MadeNamesTypes DEF Save, DecodersTypeOK
<1>4. UNCHANGED <<objects, partial, slot, token, unreturned>> /\ HandlersOK'
  BY LeaveTypes DEF Save
<1> QED
  BY <1>3, <1>4 DEF DecodersTypeOK, HandlersOK

LEMMA ConvertTypes ==
  ASSUME DecodersTypeOK, NEW p \in Procs, AutoTuner(p) \/ FlexSlave(p) \/ AutoFlasher(p)
  PROVE  DecodersTypeOK'
<1>1. UNCHANGED <<doc, objects, partial, slot, token, unreturned>> /\ HandlersOK'
  BY GotoTypes, LeaveTypes DEF AutoTuner, FlexSlave, AutoFlasher, Points
<1> QED
  BY <1>1 DEF DecodersTypeOK, HandlersOK

LEMMA RequestTypes ==
  ASSUME DecodersTypeOK, NEW p \in Procs, NEW d \in Docs,
         (\E t \in Tools : DecodeSlave(p, d, t)) \/ EncodeMod(p, d)
  PROVE  DecodersTypeOK'
<1>1. HandlersOK'
  <2>1. ASSUME NEW t \in Tools, DecodeSlave(p, d, t) PROVE HandlersOK'
    BY <2>1, TakeTypes DEF DecodeSlave, Points
  <2>2. CASE EncodeMod(p, d)
    <3>1. doc[d].tool \in Tools
      BY <2>2 DEF EncodeMod, DecodersTypeOK
    <3> QED
      BY <2>2, <3>1, TakeTypes DEF EncodeMod, EncodeModifiedFile, Points
  <2> QED
    BY <2>1, <2>2
<1>2. UNCHANGED <<doc, objects, partial, slot, token, unreturned>>
  BY DEF DecodeSlave, EncodeMod
<1> QED
  BY <1>1, <1>2 DEF DecodersTypeOK, HandlersOK

LEMMA WorldTypes ==
  ASSUME DecodersTypeOK, TokenExpires \/ UpdateCredential \/ ServerRestarts
  PROVE  DecodersTypeOK'
<1>1. 0 \in 0 .. Timeout
  BY DecodersAssumption
<1>2. CASE TokenExpires
  BY <1>2 DEF TokenExpires, DecodersTypeOK
<1>3. CASE UpdateCredential
  BY <1>3 DEF UpdateCredential, handlerVars, DecodersTypeOK
<1>4. CASE ServerRestarts
  BY <1>1, <1>4 DEF ServerRestarts, DecodersTypeOK, Points
<1> QED
  BY <1>2, <1>3, <1>4

LEMMA StepTypes == DecodersTypeOK /\ [DecodersNext]_decodersVars => DecodersTypeOK'
<1> SUFFICES ASSUME DecodersTypeOK, [DecodersNext]_decodersVars PROVE DecodersTypeOK'
  OBVIOUS
<1>1. ASSUME NEW p \in Procs, Step(p) PROVE DecodersTypeOK'
  BY <1>1, RemoteTypes, StoreTypes, SaveTypes, ConvertTypes DEF Step
<1>2. CASE UNCHANGED decodersVars
  BY <1>2 DEF decodersVars, handlerVars, DecodersTypeOK
<1> QED
  BY <1>1, <1>2, RequestTypes, WorldTypes DEF DecodersNext

-----------------------------------------------------------------------------
(* Slots: a handler that goes on still owes the slot, or has closed it, or has *)
(* said that it leaves it open.                                                *)

LEMMA AbandonOwes ==
  ASSUME DecodersTypeOK, SlotsOwed, NEW p \in Procs, pc[p] # "idle", Abandon(p)
  PROVE  SlotsOwed'
<1>1. target[p] \in Docs
  BY DEF DecodersTypeOK
<1>2. \A q \in Procs : q # p => pc'[q] = pc[q] /\ op'[q] = op[q] /\ target'[q] = target[q]
  BY DEF Abandon, Goto, Leave, DecodersTypeOK
<1>3. slot' = slot /\ unreturned \subseteq unreturned'
  BY DEF Abandon, LeaveOpen
<1>4. \/ pc'[p] = "giveBack" /\ target'[p] = target[p]
      \/ slot'[target[p]] = "open" => target[p] \in unreturned'
  BY DEF Abandon, Goto, LeaveOpen, DecodersTypeOK
<1> QED
  BY <1>1, <1>2, <1>3, <1>4 DEF SlotsOwed, Owing

LEMMA UploadOwes ==
  ASSUME DecodersTypeOK, SlotsOwed, NEW p \in Procs, UploadEncodedFile(p) \/ ReOpenFileSlot(p)
  PROVE  SlotsOwed'
<1>1. target[p] \in Docs
  BY DEF DecodersTypeOK, UploadEncodedFile, ReOpenFileSlot
<1>2. \A q \in Procs : q # p => pc'[q] = pc[q] /\ op'[q] = op[q] /\ target'[q] = target[q]
  BY DEF UploadEncodedFile, ReOpenFileSlot, Goto, Leave, DecodersTypeOK
<1>3. /\ \A d \in Docs : d # target[p] => slot'[d] = slot[d]
      /\ unreturned \subseteq unreturned'
  BY DEF UploadEncodedFile, ReOpenFileSlot, LeaveOpen, DecodersTypeOK
<1>4. \/ pc'[p] \in {"poll", "modify"} /\ target'[p] = target[p]
      \/ slot'[target[p]] = "open" => target[p] \in unreturned'
  BY DEF UploadEncodedFile, ReOpenFileSlot, Goto, LeaveOpen, DecodersTypeOK
<1>5. ~Owing(p)
  BY DEF UploadEncodedFile, ReOpenFileSlot, Owing
<1> QED
  BY <1>1, <1>2, <1>3, <1>4, <1>5 DEF SlotsOwed, Owing

LEMMA PollOwes ==
  ASSUME DecodersTypeOK, SlotsOwed, NEW p \in Procs, ResolveAsyncOperation(p)
  PROVE  SlotsOwed'
<1>1. pc[p] = "poll" /\ pc[p] # "idle" /\ op[p] \in {"none", "decode", "encode"}
  BY DEF ResolveAsyncOperation, DecodersTypeOK
<1>2. CASE Abandon(p)
  BY <1>1, <1>2, AbandonOwes
<1>3. CASE Goto(p, IF op[p] = "decode" THEN "download" ELSE "close")
            /\ UNCHANGED <<slot, unreturned>>
  <2>1. /\ pc'[p] = "close" \/ (pc'[p] = "download" /\ op[p] = "decode")
        /\ UNCHANGED <<op, target>>
        /\ \A q \in Procs : q # p => pc'[q] = pc[q]
    BY <1>3 DEF Goto, DecodersTypeOK
  <2> QED
    BY <1>3, <2>1 DEF SlotsOwed, Owing
<1>4. CASE PollAgain(p)
  <2>1. CASE UNCHANGED <<pc, op, target, slot, unreturned>>
    BY <2>1 DEF SlotsOwed, Owing
  <2> QED
    BY <1>2, <1>4, <2>1 DEF PollAgain
<1> QED
  BY <1>2, <1>3, <1>4 DEF ResolveAsyncOperation

LEMMA GoOnOwes ==
  ASSUME DecodersTypeOK, SlotsOwed, NEW p \in Procs,
         Download(p) \/ UploadModifiedFile(p) \/ StartEncoding(p)
  PROVE  SlotsOwed'
<1>1. pc[p] # "idle" /\ op[p] \in {"none", "decode", "encode"}
  BY DEF Download, UploadModifiedFile, StartEncoding, DecodersTypeOK
<1>2. CASE Abandon(p)
  BY <1>1, <1>2, AbandonOwes
<1>3. CASE ~Abandon(p)
  <2>1. /\ UNCHANGED <<slot, unreturned, op, target>>
        /\ \A q \in Procs : q # p => pc'[q] = pc[q]
        /\ pc'[p] \in {"close", "encode", "poll"} \/ (pc[p] = "download" /\ op[p] # "decode")
    BY <1>3 DEF Download, UploadModifiedFile, StartEncoding, Goto, DecodersTypeOK
  <2> QED
    BY <2>1 DEF SlotsOwed, Owing
<1> QED
  BY <1>2, <1>3

LEMMA CloseOwes ==
  ASSUME DecodersTypeOK, SlotsOwed, NEW p \in Procs, CloseFileSlot(p) \/ GiveBack(p)
  PROVE  SlotsOwed'
<1>1. pc[p] # "idle" /\ target[p] \in Docs
  BY DEF CloseFileSlot, GiveBack, DecodersTypeOK
<1>2. CASE Abandon(p)
  BY <1>1, <1>2, AbandonOwes
<1>3. CASE ~Abandon(p)
  <2>1. \A q \in Procs : q # p => pc'[q] = pc[q] /\ op'[q] = op[q] /\ target'[q] = target[q]
    BY <1>3 DEF CloseFileSlot, GiveBack, Goto, Leave, DecodersTypeOK
  <2>2. \A d \in Docs : d # target[p] =>
            slot'[d] = slot[d] /\ (d \in unreturned => d \in unreturned')
    BY <1>1, <1>3 DEF CloseFileSlot, GiveBack, Closed, LeaveOpen, DecodersTypeOK
  <2>3. slot'[target[p]] = "open" => target[p] \in unreturned'
    BY <1>1, <1>3 DEF CloseFileSlot, GiveBack, Closed, LeaveOpen, DecodersTypeOK
  <2> QED
    BY <1>1, <2>1, <2>2, <2>3 DEF SlotsOwed, Owing
<1> QED
  BY <1>2, <1>3

\* The other steps of a handler, and the start of a request, leave slots alone,
\* and are made by handlers that owe none.
LEMMA OtherOwes ==
  ASSUME DecodersTypeOK, SlotsOwed, NEW p \in Procs,
         \/ Store(p) \/ Save(p) \/ AutoTuner(p) \/ FlexSlave(p) \/ AutoFlasher(p)
         \/ \E d \in Docs, t \in Tools : DecodeSlave(p, d, t)
         \/ \E d \in Docs : EncodeMod(p, d)
  PROVE  SlotsOwed'
<1>1. UNCHANGED <<slot, unreturned>> /\ ~Owing(p)
  BY DEF Store, Save, AutoTuner, FlexSlave, AutoFlasher, DecodeSlave, EncodeMod, Take, Owing
<1>2. \A q \in Procs : q # p => pc'[q] = pc[q] /\ op'[q] = op[q] /\ target'[q] = target[q]
  BY DEF Store, Save, AutoTuner, FlexSlave, AutoFlasher, DecodeSlave, EncodeMod,
         Take, Goto, Leave, DecodersTypeOK
<1> QED
  BY <1>1, <1>2 DEF SlotsOwed, Owing

LEMMA WorldOwes ==
  ASSUME DecodersTypeOK, SlotsOwed, TokenExpires \/ UpdateCredential \/ ServerRestarts
  PROVE  SlotsOwed'
<1>1. CASE TokenExpires \/ UpdateCredential
  BY <1>1 DEF TokenExpires, UpdateCredential, handlerVars, SlotsOwed, Owing
<1>2. CASE ServerRestarts
  BY <1>2 DEF ServerRestarts, SlotsOwed
<1> QED
  BY <1>1, <1>2

LEMMA StepOwes == DecodersTypeOK /\ SlotsOwed /\ [DecodersNext]_decodersVars => SlotsOwed'
<1> SUFFICES ASSUME DecodersTypeOK, SlotsOwed, [DecodersNext]_decodersVars PROVE SlotsOwed'
  OBVIOUS
<1>1. ASSUME NEW p \in Procs, Step(p) PROVE SlotsOwed'
  BY <1>1, UploadOwes, PollOwes, GoOnOwes, CloseOwes, OtherOwes DEF Step
<1>2. CASE UNCHANGED decodersVars
  BY <1>2 DEF decodersVars, handlerVars, SlotsOwed, Owing
<1> QED
  BY <1>1, <1>2, OtherOwes, WorldOwes DEF DecodersNext

-----------------------------------------------------------------------------
(* Names: what is named was stored, and objects are never removed.            *)

Stored == SavesStored /\ RemoteIsKess3 /\ NamedOnceStored

\* A step that names nothing and brings nobody to Save.
LEMMA NothingNamed ==
  ASSUME Stored, doc' = doc, objects \subseteq objects',
         \A p \in Procs : pc'[p] = "save" =>
            pc[p] = "save" /\ target'[p] = target[p] /\ op'[p] = op[p] /\ tool'[p] = tool[p]
  PROVE  Stored'
<1>1. \A p \in Procs : pc'[p] = "save" => MadeNames(p)' = MadeNames(p)
  BY DEF MadeNames, EncodedName
<1> QED
  BY <1>1 DEF Stored, SavesStored, RemoteIsKess3, NamedOnceStored

LEMMA StoreNames == ASSUME DecodersTypeOK, Stored, NEW p \in Procs, Store(p) PROVE Stored'
<1>1. doc' = doc /\ objects \subseteq objects'
  BY DEF Store
<1>2. \A q \in Procs : q # p =>
        pc'[q] = pc[q] /\ target'[q] = target[q] /\ op'[q] = op[q] /\ tool'[q] = tool[q]
  BY DEF Store, Goto, Leave, DecodersTypeOK
<1>3. CASE pc'[p] # "save"
  BY <1>1, <1>2, <1>3, NothingNamed
<1>4. CASE pc'[p] = "save"
  <2>1. /\ objects' = objects \cup ({target[p]} \X MadeNames(p))
        /\ UNCHANGED <<op, target, tool>>
    BY <1>4 DEF Store, Leave, Goto, DecodersTypeOK
  <2>2. MadeNames(p)' = MadeNames(p)
    BY <2>1 DEF MadeNames, EncodedName
  <2>3. \A q \in Procs : MadeNames(q)' = MadeNames(q)
    BY <2>1 DEF MadeNames, EncodedName
  <2> QED
    BY <1>1, <1>2, <2>1, <2>2, <2>3 DEF Stored, SavesStored, RemoteIsKess3, NamedOnceStored
<1> QED
  BY <1>3, <1>4

LEMMA SaveNames == ASSUME DecodersTypeOK, Stored, NEW p \in Procs, Save(p) PROVE Stored'
<1>1. /\ target[p] \in Docs /\ tool[p] \in Tools /\ pc[p] = "save"
      /\ objects' = objects
  BY DEF Save, DecodersTypeOK
<1>2. \A q \in Procs :
        /\ q # p => pc'[q] = pc[q] /\ target'[q] = target[q] /\ op'[q] = op[q]
                 /\ tool'[q] = tool[q]
        /\ q = p => pc'[q] = "idle"
  BY DEF Save, Leave, DecodersTypeOK
<1>3. CASE doc' = doc
  BY <1>1, <1>2, <1>3, NothingNamed
<1>4. CASE doc' # doc
  <2>1. doc' = [doc EXCEPT ![target[p]] =
                   [tool |-> tool[p],
                    named |-> (@.named \ EncodedNames) \cup MadeNames(p)]]
    BY <1>4 DEF Save
  <2>2. /\ doc'[target[p]].tool = tool[p]
        /\ doc'[target[p]].named = (doc[target[p]].named \ EncodedNames) \cup MadeNames(p)
        /\ \A d \in Docs : d # target[p] => doc'[d] = doc[d]
    BY <1>1, <2>1 DEF DecodersTypeOK
  <2>3. SavesStored'
    <3>1. \A q \in Procs : pc'[q] = "save" => MadeNames(q)' = MadeNames(q)
      BY <1>2 DEF MadeNames, EncodedName
    <3> QED
      BY <1>1, <1>2, <3>1 DEF Stored, SavesStored
  <2>4. RemoteIsKess3'
    <3>1. "remote" \in EncodedNames
      BY DEF EncodedNames
    <3>2. "remote" \in MadeNames(p) => tool[p] = "KESS3"
      BY DecodersAssumption DEF MadeNames, EncodedName
    <3> QED
      BY <2>2, <3>1, <3>2 DEF Stored, RemoteIsKess3
  <2>5. NamedOnceStored'
    <3>1. {target[p]} \X MadeNames(p) \subseteq objects
      BY <1>1 DEF Stored, SavesStored
    <3>2. {target[p]} \X doc[target[p]].named \subseteq objects
      BY <1>1 DEF Stored, NamedOnceStored
    <3>3. {target[p]} \X doc'[target[p]].named \subseteq objects
      BY <2>2, <3>1, <3>2
    <3> QED
      BY <1>1, <2>2, <3>3 DEF Stored, NamedOnceStored
  <2> QED
    BY <2>3, <2>4, <2>5 DEF Stored
<1> QED
  BY <1>3, <1>4

\* The steps before Store.
LEMMA OtherNames ==
  ASSUME DecodersTypeOK, Stored, NEW p \in Procs,
         \/ UploadEncodedFile(p) \/ ResolveAsyncOperation(p) \/ Download(p)
         \/ CloseFileSlot(p) \/ GiveBack(p)
         \/ ReOpenFileSlot(p) \/ UploadModifiedFile(p) \/ StartEncoding(p)
         \/ AutoTuner(p) \/ FlexSlave(p) \/ AutoFlasher(p)
         \/ \E d \in Docs, t \in Tools : DecodeSlave(p, d, t)
         \/ \E d \in Docs : EncodeMod(p, d)
  PROVE  Stored'
<1>1. doc' = doc /\ objects' = objects
  BY DEF UploadEncodedFile, ResolveAsyncOperation, Download, CloseFileSlot, GiveBack,
         ReOpenFileSlot, UploadModifiedFile, StartEncoding, AutoTuner, FlexSlave,
         AutoFlasher, DecodeSlave, EncodeMod
<1>2. pc[p] # "save" /\ pc'[p] # "save"
  <2>1. CASE UploadEncodedFile(p) \/ ReOpenFileSlot(p)
    BY <2>1 DEF UploadEncodedFile, ReOpenFileSlot, Goto, Leave, DecodersTypeOK
  <2>2. CASE ResolveAsyncOperation(p)
    BY <2>2 DEF ResolveAsyncOperation, PollAgain, Abandon, Goto, Leave, DecodersTypeOK
  <2>3. CASE Download(p) \/ CloseFileSlot(p) \/ GiveBack(p)
    BY <2>3 DEF Download, CloseFileSlot, GiveBack, Abandon, Goto, Leave, DecodersTypeOK
  <2>4. CASE UploadModifiedFile(p) \/ StartEncoding(p)
    BY <2>4 DEF UploadModifiedFile, StartEncoding, Abandon, Goto, Leave, DecodersTypeOK
  <2>5. CASE AutoTuner(p) \/ FlexSlave(p) \/ AutoFlasher(p)
    BY <2>5 DEF AutoTuner, FlexSlave, AutoFlasher, Goto, Leave, DecodersTypeOK
  <2>6. CASE \/ \E d \in Docs, t \in Tools : DecodeSlave(p, d, t)
             \/ \E d \in Docs : EncodeMod(p, d)
    BY <2>6 DEF DecodeSlave, EncodeMod, EncodeModifiedFile, Take, DecodersTypeOK
  <2> QED
    BY <2>1, <2>2, <2>3, <2>4, <2>5, <2>6
<1>3. \A q \in Procs : q # p =>
        pc'[q] = pc[q] /\ target'[q] = target[q] /\ op'[q] = op[q] /\ tool'[q] = tool[q]
  <2>1. Goto(p, pc'[p]) \/ Leave(p) \/ UNCHANGED <<pc, target, op, tool>>
          \/ (\E o, d, t, s : Take(p, o, d, t, s))
          \/ (pc' = [pc EXCEPT ![p] = "poll"] /\ UNCHANGED <<op, target, tool>>)
    BY DEF UploadEncodedFile, ResolveAsyncOperation, Download, CloseFileSlot, GiveBack,
           ReOpenFileSlot, UploadModifiedFile, StartEncoding, AutoTuner, FlexSlave,
           AutoFlasher, DecodeSlave, EncodeMod, PollAgain, Abandon, Goto, DecodersTypeOK
  <2> QED
    BY <2>1 DEF Goto, Leave, Take, DecodersTypeOK
<1> QED
  BY <1>1, <1>2, <1>3, NothingNamed

LEMMA StepNames == DecodersTypeOK /\ Stored /\ [DecodersNext]_decodersVars => Stored'
<1> SUFFICES ASSUME DecodersTypeOK, Stored, [DecodersNext]_decodersVars PROVE Stored'
  OBVIOUS
<1>1. ASSUME NEW p \in Procs, Step(p) PROVE Stored'
  BY <1>1, StoreNames, SaveNames, OtherNames DEF Step
<1>2. CASE TokenExpires \/ UpdateCredential \/ ServerRestarts \/ UNCHANGED decodersVars
  <2>1. /\ doc' = doc /\ objects' = objects
        /\ \A p \in Procs : pc'[p] = "save" => UNCHANGED <<pc, target, op, tool>>
    BY <1>2 DEF TokenExpires, UpdateCredential, ServerRestarts, decodersVars, handlerVars
  <2> QED
    BY <2>1, NothingNamed
<1> QED
  BY <1>1, <1>2, OtherNames DEF DecodersNext

-----------------------------------------------------------------------------

\* Types, who owes which slot, and what is stored.
DecodersInv == DecodersTypeOK /\ SlotsOwed /\ Stored

LEMMA DecodersInitInv == DecodersInit => DecodersInv
<1> SUFFICES ASSUME DecodersInit PROVE DecodersInv
  OBVIOUS
<1>1. DecodersTypeOK
  BY InitTypes
<1>2. SlotsOwed
  BY DEF DecodersInit, SlotsOwed
<1>3. Stored
  BY DEF DecodersInit, Stored, SavesStored, RemoteIsKess3, NamedOnceStored, NoDecoding
<1> QED
  BY <1>1, <1>2, <1>3 DEF DecodersInv

\* The decoders keep the inductive invariant.
THEOREM DecodersCorrect == DecodersSpec => []DecodersInv
<1>1. DecodersInv /\ [DecodersNext]_decodersVars => DecodersInv'
  BY StepTypes, StepOwes, StepNames DEF DecodersInv
<1> QED
  BY <1>1, DecodersInitInv, PTL DEF DecodersSpec

\* Decodings, slots and the handlers of the portal keep their types.
THEOREM DecodersTypeCorrect == DecodersSpec => []DecodersTypeOK
<1>1. DecodersInv => DecodersTypeOK
  BY DEF DecodersInv
<1> QED
  BY <1>1, DecodersCorrect, PTL

\* A slot that is open while nobody works on its file was left open by one of the
\* failures SlotsReturned names (decodeFile, encodeFile).
THEOREM SlotsAlways == DecodersSpec => []SlotsReturned
<1>1. DecodersInv => SlotsReturned
  BY DEF DecodersInv, SlotsOwed, SlotsReturned
<1> QED
  BY <1>1, DecodersCorrect, PTL

\* What a saved decoding names is in the store, whole unless Kess3 encoded it
\* (decodeSlave, encodeMod).
THEOREM NamesAlways == DecodersSpec => []NamedIsStored
<1>1. ASSUME DecodersInv, NEW d \in Docs, NEW n \in doc[d].named PROVE <<d, n>> \in objects
  BY <1>1 DEF DecodersInv, Stored, NamedOnceStored
<1>2. ASSUME DecodersInv, NEW d \in Docs, NEW n \in doc[d].named, <<d, n>> \in partial
      PROVE  doc[d].tool = "KESS3" /\ n \in EncodedNames
  <2>1. n = "remote"
    BY <1>2 DEF DecodersInv, DecodersTypeOK
  <2> QED
    BY <1>2, <2>1 DEF DecodersInv, Stored, RemoteIsKess3, EncodedNames
<1>3. DecodersInv => NamedIsStored
  BY <1>1, <1>2 DEF NamedIsStored
<1> QED
  BY <1>3, DecodersCorrect, PTL
=============================================================================
