---------------------------- MODULE FileService ----------------------------
(***************************************************************************)
(* The life of a tuning file in src/src/features/file-service: prepared    *)
(* from a temporary upload, charged, built by hand, by upload or by the    *)
(* WinOLS pipeline (two Bull queues), refunded, closed, reopened, deleted. *)
(*                                                                         *)
(* Each element of Files is one temporary upload and the file-service      *)
(* document that prepareSolution may make of it.  Each element of Procs is *)
(* one handler in flight: an HTTP request or a worker of the build queue.  *)
(* A handler is a sequence of steps, one per database operation; between   *)
(* two steps (an await in the code) every other handler may run.           *)
(***************************************************************************)
EXTENDS Integers, FiniteSets, MongoTx

CONSTANTS
    Files,            \* temporary uploads / file services
    Customers, Admins,
    SuperAdmins,      \* the portal SUPER_ADMIN_ID, or none
    CustomerOf, AdminOf,
    Price,            \* what calculateCredits returns for the file
    AdminPrice,       \* what the portal pays for the file
    InitialCredits,
    NoFile,           \* target of an idle handler
    MaxRequests,      \* bound: HTTP requests accepted in a behaviour
    MaxCrashes        \* bound: restarts of the server in a behaviour

ASSUME FilesAssumption == NoFile \notin Files

ASSUME OwnersAssumption ==
    /\ CustomerOf \in [Files -> Customers]
    /\ AdminOf \in [Files -> Admins]
    /\ SuperAdmins \subseteq Admins
    /\ Customers \cap Admins = {}
    /\ Files \cap (Customers \cup Admins) = {}

ASSUME PricesAssumption ==
    /\ Price \in [Files -> Nat]
    /\ AdminPrice \in [Files -> Nat]
    /\ \A f \in Files : AdminOf[f] \in SuperAdmins => AdminPrice[f] = 0
    /\ InitialCredits \subseteq Nat

ASSUME FiniteAssumption ==
    /\ IsFiniteSet(Files) /\ Files # {}
    /\ IsFiniteSet(Procs) /\ Procs # {}

Accounts == Customers \cup Admins
Docs == Files \cup Accounts

-----------------------------------------------------------------------------

VARIABLES
    \* MongoDB, committed
    balance,     \* credits of each customer and each admin
    exists,      \* "absent" until prepared, "present", "deleted"
    doc,         \* the file-service document
    \* disk
    tempDir,     \* uploads whose directory still has its temporary name
    \* Bull
    job,         \* stage of the file's WinOLS job
    jobCredits,  \* admin.credits as copied into the job's data
    \* handlers in flight
    pc, op, target,
    loc,         \* the file-service document the handler holds
    funds,       \* what the customer's credits, as read, cover the price
    \* observation
    notified,    \* files whose customer was told "ready to download"
    charges, adminCharges, refunds,
    requests, crashes

dbVars == <<balance, exists, doc>>
jobVars == <<job, jobCredits>>
procVars == <<pc, op, target, loc, funds>>
ledgerVars == <<charges, adminCharges, refunds>>
boundVars == <<requests, crashes>>
vars == <<dbVars, txVars, tempDir, jobVars, procVars, notified, ledgerVars, boundVars>>

-----------------------------------------------------------------------------

Status == {"NEW", "OPEN", "PROGRESS", "COMPLETED", "CLOSED", "REFUNDED"}
Pay == {"UNPAID", "PAID", "REFUNDED"}
Winols == {"none", "PROGRESS", "BUILD", "FAILED", "OK"}

\* The fields the handlers branch on.  requested: some requested solution is
\* still to be matched.  mod: a modified file can be downloaded.
FileDoc == [status : Status, pay : Pay, winols : Winols,
            requested : BOOLEAN, mod : BOOLEAN]

\* What prepareSolution saves when some solution has no script yet; the job's
\* data carries this document to the end of the pipeline.
RequestedDoc == [status |-> "NEW", pay |-> "UNPAID", winols |-> "none",
                 requested |-> TRUE, mod |-> FALSE]

\* What it saves when every solution had a script.
AutomaticDoc == [status |-> "COMPLETED", pay |-> "PAID", winols |-> "none",
                 requested |-> FALSE, mod |-> TRUE]

PrepareOps == {"prepareAuto", "prepareReq"}
BuildOps == {"build", "buildPartial"}
Ops == PrepareOps \cup BuildOps \cup
       {"none", "upload", "manual", "refund", "delete", "chat", "progress"}

JobStages == {"none", "waiting", "running", "completed", "failed", "build", "building"}

\* Program points of a handler; at those of TxPoints its transaction is open.
TxPoints == {"rename", "customer", "admin", "information", "notify", "file", "commit"}
Points == TxPoints \cup {"idle", "winols", "match", "status", "after"}

DbTypeOK ==
    /\ balance \in [Accounts -> Int]
    /\ exists \in [Files -> {"absent", "present", "deleted"}]
    /\ doc \in [Files -> FileDoc]

JobTypeOK ==
    /\ job \in [Files -> JobStages]
    /\ jobCredits \in [Files -> Int]

\* A busy handler has a file it works on.
ProcTypeOK ==
    /\ pc \in [Procs -> Points]
    /\ op \in [Procs -> Ops]
    /\ target \in [Procs -> Files \cup {NoFile}]
    /\ loc \in [Procs -> FileDoc]
    /\ funds \in [Procs -> BOOLEAN]
    /\ \A p \in Procs : pc[p] # "idle" => target[p] \in Files

LedgerTypeOK ==
    /\ charges \in [Files -> Nat]
    /\ adminCharges \in [Files -> Nat]
    /\ refunds \in [Files -> Nat]

TypeOK ==
    /\ DbTypeOK
    /\ TxTypeOK(Docs)
    /\ JobTypeOK
    /\ ProcTypeOK
    /\ LedgerTypeOK
    /\ tempDir \in SUBSET Files
    /\ notified \in SUBSET Files
    /\ requests \in Nat
    /\ crashes \in Nat

Init ==
    /\ balance \in [Accounts -> InitialCredits]
    /\ exists = [f \in Files |-> "absent"]
    /\ doc = [f \in Files |-> RequestedDoc]
    /\ TxInit
    /\ tempDir = Files
    /\ job = [f \in Files |-> "none"]
    /\ jobCredits = [f \in Files |-> 0]
    /\ pc = [p \in Procs |-> "idle"]
    /\ op = [p \in Procs |-> "none"]
    /\ target = [p \in Procs |-> NoFile]
    /\ loc = [p \in Procs |-> RequestedDoc]
    /\ funds = [p \in Procs |-> FALSE]
    /\ notified = {}
    /\ charges = [f \in Files |-> 0]
    /\ adminCharges = charges
    /\ refunds = charges
    /\ requests = 0
    /\ crashes = 0

-----------------------------------------------------------------------------
(* How a handler moves on. *)

\* The customer's credits, as committed now, cover the price of f.
CustomerCovers(f) == balance[CustomerOf[f]] >= Price[f]

\* The step that follows step s of operation o.
After(o, s) ==
    CASE s = "rename"      -> IF o = "prepareAuto" THEN "customer" ELSE "file"
      [] s = "customer"    -> IF o = "refund" THEN "file"
                              ELSE IF o = "upload" THEN "information" ELSE "admin"
      [] s = "admin"       -> IF o = "prepareAuto" THEN "file"
                              ELSE IF o = "upload" THEN "customer" ELSE "information"
      [] s = "information" -> IF o = "build" THEN "notify" ELSE "file"
      [] s = "notify"      -> "file"
      [] s = "file"        -> "commit"
      [] s = "commit"      -> IF o \in {"manual", "refund", "delete", "chat"}
                              THEN "idle" ELSE "after"

Goto(p, s) ==
    IF s = "idle"
    THEN /\ pc' = [pc EXCEPT ![p] = "idle"]
         /\ op' = [op EXCEPT ![p] = "none"]
         /\ target' = [target EXCEPT ![p] = NoFile]
         /\ loc' = [loc EXCEPT ![p] = RequestedDoc]
         /\ funds' = [funds EXCEPT ![p] = FALSE]
    ELSE /\ pc' = [pc EXCEPT ![p] = s]
         /\ UNCHANGED <<op, target, loc, funds>>

\* Handler p takes up operation o on file f at step s, holding document d.
Take(p, o, f, s, d) ==
    /\ pc[p] = "idle"
    /\ pc' = [pc EXCEPT ![p] = s]
    /\ op' = [op EXCEPT ![p] = o]
    /\ target' = [target EXCEPT ![p] = f]
    /\ loc' = [loc EXCEPT ![p] = d]
    /\ funds' = [funds EXCEPT ![p] = CustomerCovers(f)]

\* An HTTP request.
Accept(p, o, f, s, d) ==
    /\ requests < MaxRequests
    /\ requests' = requests + 1
    /\ Take(p, o, f, s, d)
    /\ UNCHANGED <<dbVars, tempDir, jobVars, notified, ledgerVars, crashes>>


-----------------------------------------------------------------------------
(* Requests, up to the first write of their handler.  A request the checks *)
(* refuse changes nothing and is not a step.                               *)

\* prepareSolution: the portal and the customer must afford the file.
PrepareSolution(p, f, o) ==
    /\ AdminOf[f] \notin SuperAdmins => AdminPrice[f] <= balance[AdminOf[f]]
    /\ CustomerCovers(f)
    /\ Accept(p, o, f, "rename", IF o = "prepareAuto" THEN AutomaticDoc ELSE RequestedDoc)
    /\ UNCHANGED txVars

\* uploadModFile.  Its comparison with admin.credits never refuses: the admin
\* is read without its credits.
UploadModFile(p, f) ==
    /\ exists[f] = "present"
    /\ Accept(p, "upload", f, "admin", doc[f])
    /\ UNCHANGED txVars

\* manualBuild: only an unpaid file is charged, to a customer who can pay.  As
\* above, nothing is asked of the portal's credits.
ManualBuild(p, f) ==
    /\ exists[f] = "present"
    /\ doc[f].pay = "UNPAID" => CustomerCovers(f)
    /\ Accept(p, "manual", f, IF doc[f].pay = "UNPAID" THEN "customer" ELSE "file", doc[f])
    /\ UNCHANGED txVars

RefundFileService(p, f) ==
    /\ exists[f] = "present"
    /\ Accept(p, "refund", f, "customer", doc[f])
    /\ UNCHANGED txVars

DeleteFileService(p, f) ==
    /\ exists[f] = "present"
    /\ Accept(p, "delete", f, "file", doc[f])
    /\ UNCHANGED txVars

\* A chat message about a closed or completed file reopens it; the file is
\* read with the session.
ChatMessage(p, f) ==
    /\ exists[f] = "present"
    /\ doc[f].status \in {"CLOSED", "COMPLETED"}
    /\ Accept(p, "chat", f, "file", doc[f])
    /\ SessionRead(p)

\* progressFileService reads the file and returns it if it is done.
ProgressFileService(p, f) ==
    /\ exists[f] = "present"
    /\ doc[f].status \notin {"COMPLETED", "CLOSED"}
    /\ Accept(p, "progress", f, "status", doc[f])
    /\ UNCHANGED txVars

\* closeFileService is one update, without a transaction.
CloseFileService(f) ==
    /\ requests < MaxRequests
    /\ exists[f] = "present"
    /\ PlainWrite(f)
    /\ doc' = [doc EXCEPT ![f].status = "CLOSED"]
    /\ requests' = requests + 1
    /\ UNCHANGED <<balance, exists, tempDir, jobVars, procVars, notified, ledgerVars, crashes>>

-----------------------------------------------------------------------------
(* Steps of a handler that took up its file. *)

\* Variant: the directory is copied, the temporary one stays.
RenameUpload_Copy(p) ==
    /\ pc[p] = "rename"
    /\ target[p] \in tempDir
    /\ Goto(p, After(op[p], "rename"))
    /\ UNCHANGED <<dbVars, txVars, tempDir, jobVars, notified, ledgerVars, boundVars>>

\* The directory of the upload gets the name of the new document: of two
\* handlers that prepare the same upload only one finds it.
RenameUpload(p) ==
    /\ pc[p] = "rename"
    /\ target[p] \in tempDir
    /\ tempDir' = tempDir \ {target[p]}
    /\ Goto(p, After(op[p], "rename"))
    /\ UNCHANGED <<dbVars, txVars, jobVars, notified, ledgerVars, boundVars>>

\* Variant: uploadModFile does not compare the customer's credits.
UpdateCustomerCredit_Unchecked(p) ==
    /\ pc[p] = "customer"
    /\ SessionWrite(p, CustomerOf[target[p]])
    /\ Goto(p, After(op[p], "customer"))
    /\ UNCHANGED <<dbVars, tempDir, jobVars, notified, ledgerVars, boundVars>>

\* Variant: the refund also touches the file in its session, before the write without.
UpdateCustomerCredit_TouchesFile(p) ==
    /\ pc[p] = "customer"
    /\ op[p] = "upload" => funds[p]
    /\ SessionWriteAll(p, {CustomerOf[target[p]]} \cup IF op[p] = "refund" THEN {target[p]} ELSE {})
    /\ Goto(p, After(op[p], "customer"))
    /\ UNCHANGED <<dbVars, tempDir, jobVars, notified, ledgerVars, boundVars>>

\* customerService.updateCredit with the session.  uploadModFile alone checks
\* the credits it read at this point, after it debited the portal.
UpdateCustomerCredit(p) ==
    /\ pc[p] = "customer"
    /\ op[p] = "upload" => funds[p]
    /\ SessionWrite(p, CustomerOf[target[p]])
    /\ Goto(p, After(op[p], "customer"))
    /\ UNCHANGED <<dbVars, tempDir, jobVars, notified, ledgerVars, boundVars>>

\* Variant: the session is not passed on, so the debit is final at once.
UpdateAdminCredit_NoSession(p) ==
    LET f == target[p] IN
    /\ pc[p] = "admin"
    /\ PlainWrite(AdminOf[f])
    /\ balance' = [balance EXCEPT ![AdminOf[f]] = @ - AdminPrice[f]]
    /\ adminCharges' = [adminCharges EXCEPT ![f] = @ + 1]
    /\ Goto(p, After(op[p], "admin"))
    /\ UNCHANGED <<exists, doc, tempDir, jobVars, notified, charges, refunds, boundVars>>

\* adminService.updateCredit with the session; uploadModFile spares the super
\* admin, whose files cost 0 in the other handlers.
UpdateAdminCredit(p) ==
    /\ pc[p] = "admin"
    /\ IF op[p] = "upload" /\ AdminOf[target[p]] \in SuperAdmins
       THEN UNCHANGED txVars
       ELSE SessionWrite(p, AdminOf[target[p]])
    /\ Goto(p, After(op[p], "admin"))
    /\ UNCHANGED <<dbVars, tempDir, jobVars, notified, ledgerVars, boundVars>>

\* The solution information is posted as a chat message within the same
\* session, if there is any; the message reopens a closed or completed file.
PostInformation(p) ==
    /\ pc[p] = "information"
    /\ \/ UNCHANGED txVars
       \/ /\ exists[target[p]] = "present"
          /\ doc[target[p]].status \in {"CLOSED", "COMPLETED"}
          /\ SessionWrite(p, target[p])
    /\ Goto(p, After(op[p], "information"))
    /\ UNCHANGED <<dbVars, tempDir, jobVars, notified, ledgerVars, boundVars>>

\* buildFileProcess tells the customer before it writes the file and commits.
NotifyFromBuild(p) ==
    /\ pc[p] = "notify"
    /\ notified' = notified \cup {target[p]}
    /\ Goto(p, After(op[p], "notify"))
    /\ UNCHANGED <<dbVars, txVars, tempDir, jobVars, ledgerVars, boundVars>>

-----------------------------------------------------------------------------
(* What each handler writes into the file-service document. *)

\* Variant: the upload does not set the payment status.
UploadedDoc_Unsettled(p) ==
    [doc[target[p]] EXCEPT !.status = "COMPLETED", !.mod = TRUE]

\* uploadModFile: mongoose saves the fields that differ from what was read at
\* the start, so a file that was COMPLETED stays OPEN if the information
\* message reopened it, and one read PAID keeps its committed payment status.
UploadedDoc(p) ==
    LET f == target[p] IN
    [doc[f] EXCEPT
        !.status = IF loc[p].status # "COMPLETED" THEN "COMPLETED"
                   ELSE IF f \in locks[p] THEN "OPEN" ELSE @,
        !.pay = IF loc[p].pay # "PAID" THEN "PAID" ELSE @,
        !.mod = TRUE]

\* Variants: every build marks the file paid; a status outside the schema.
BuiltDoc_AlwaysPaid(d) == [d EXCEPT !.status = "COMPLETED", !.pay = "PAID", !.mod = TRUE]
BuiltDoc_BadStatus(d) == [d EXCEPT !.status = "DONE", !.pay = "PAID", !.mod = TRUE]

\* buildSolution settles the document it was given, if that was unpaid.
BuiltDoc(d) ==
    IF d.pay = "UNPAID"
    THEN [d EXCEPT !.status = "COMPLETED", !.pay = "PAID", !.mod = TRUE]
    ELSE [d EXCEPT !.mod = TRUE]

\* manualBuild writes back every field it read; a field that was missing
\* (winolsStatus before the pipeline started) is left as it is.
ManualDoc(p) ==
    LET d == loc[p] IN
    [BuiltDoc(d) EXCEPT !.winols = IF d.winols = "none" THEN doc[target[p]].winols ELSE @]

\* buildFileProcess writes back every field of the document in the job's data.
PipelineDoc(d) == [BuiltDoc(d) EXCEPT !.winols = "OK", !.requested = FALSE]

\* Variant: the partial result is marked as a success.
PartialDoc_Ok(p) == [doc[target[p]] EXCEPT !.winols = "OK"]

\* buildFileProcess when a requested solution got no output file.
PartialDoc(p) == [doc[target[p]] EXCEPT !.winols = "FAILED"]

WrittenDoc(p) ==
    CASE op[p] = "upload"       -> UploadedDoc(p)
      [] op[p] = "manual"       -> ManualDoc(p)
      [] op[p] = "build"        -> PipelineDoc(loc[p])
      [] op[p] = "buildPartial" -> PartialDoc(p)
      [] op[p] = "chat"         -> [doc[target[p]] EXCEPT !.status = "OPEN"]
      [] op[p] = "delete"       -> doc[target[p]]
      [] OTHER                  -> loc[p]

\* Variant: updates by id insert the document if it is missing (upsert).
Removed_Upsert(p, f) == FALSE

\* The file was removed before the snapshot: an update by id finds nothing.
Removed(p, f) == exists[f] = "deleted" /\ ~Conflict(p, f)

\* The write of the file-service document with the session.  Updating a
\* removed file is no error, except for uploadModFile, which saves a document.
WriteFile(p) ==
    /\ pc[p] = "file"
    /\ op[p] # "refund"
    /\ IF Removed(p, target[p])
       THEN /\ op[p] # "upload"
            /\ UNCHANGED <<txVars, loc>>
       ELSE /\ SessionWrite(p, target[p])
            /\ loc' = [loc EXCEPT ![p] = WrittenDoc(p)]
    /\ pc' = [pc EXCEPT ![p] = After(op[p], "file")]
    /\ UNCHANGED <<op, target, funds, dbVars, tempDir, jobVars, notified,
                   ledgerVars, boundVars>>

\* refundFileService updates the document without the session: it waits for
\* the lock, is visible at once, and survives if the commit then fails.
MarkRefunded(p) ==
    /\ pc[p] = "file"
    /\ op[p] = "refund"
    /\ PlainWrite(target[p])
    /\ doc' = IF exists[target[p]] = "present"
              THEN [doc EXCEPT ![target[p]].status = "REFUNDED",
                               ![target[p]].pay = "REFUNDED"]
              ELSE doc
    /\ Goto(p, After(op[p], "file"))
    /\ UNCHANGED <<balance, exists, tempDir, jobVars, notified, ledgerVars, boundVars>>

\* progressFileService writes what its earlier read allowed.
MarkInProgress(p) ==
    /\ pc[p] = "status"
    /\ PlainWrite(target[p])
    /\ doc' = IF exists[target[p]] = "present"
              THEN [doc EXCEPT ![target[p]].status = "PROGRESS"]
              ELSE doc
    /\ Goto(p, "idle")
    /\ UNCHANGED <<balance, exists, tempDir, jobVars, notified, ledgerVars, boundVars>>

-----------------------------------------------------------------------------
(* The end of a transaction. *)

Credited(p) == CustomerOf[target[p]] \in locks[p] /\ op[p] = "refund"
DebitedCustomer(p) == CustomerOf[target[p]] \in locks[p] /\ op[p] # "refund"
DebitedAdmin(p) == AdminOf[target[p]] \in locks[p]

\* Variant: the refund is taken from the customer.
Increment_RefundSign(p, a) ==
    CASE a = CustomerOf[target[p]] /\ a \in locks[p]     -> -Price[target[p]]
      [] a = AdminOf[target[p]] /\ DebitedAdmin(p)       -> -AdminPrice[target[p]]
      [] OTHER                                           -> 0

\* The increments the transaction of p applies to the accounts it locked.
Increment(p, a) ==
    CASE a = CustomerOf[target[p]] /\ Credited(p)        -> Price[target[p]]
      [] a = CustomerOf[target[p]] /\ DebitedCustomer(p) -> -Price[target[p]]
      [] a = AdminOf[target[p]] /\ DebitedAdmin(p)       -> -AdminPrice[target[p]]
      [] OTHER                                           -> 0

Commit(p) ==
    LET f == target[p] IN
    /\ pc[p] = "commit"
    /\ TxCommit(p)
    /\ balance' = [a \in Accounts |-> balance[a] + Increment(p, a)]
    /\ charges' = [charges EXCEPT ![f] = IF DebitedCustomer(p) THEN @ + 1 ELSE @]
    /\ adminCharges' = [adminCharges EXCEPT ![f] = IF DebitedAdmin(p) THEN @ + 1 ELSE @]
    /\ refunds' = [refunds EXCEPT ![f] = IF Credited(p) THEN @ + 1 ELSE @]
    /\ IF f \in locks[p]
       THEN /\ doc' = [doc EXCEPT ![f] = loc[p]]
            /\ exists' = [exists EXCEPT ![f] = IF op[p] = "delete" THEN "deleted" ELSE "present"]
       ELSE UNCHANGED <<doc, exists>>
    /\ Goto(p, After(op[p], "commit"))
    /\ UNCHANGED <<tempDir, jobVars, notified, boundVars>>

\* What cannot go on and is answered at once: a directory that was renamed, too few
\* credits or a removed file for an upload, a write that meets another transaction's.
Refused(p) ==
    LET f == target[p] IN
    \/ pc[p] = "rename" /\ f \notin tempDir
    \/ /\ pc[p] = "customer"
       /\ (op[p] = "upload" /\ ~funds[p]) \/ Conflict(p, CustomerOf[f])
    \/ pc[p] = "admin" /\ Conflict(p, AdminOf[f])
    \/ /\ pc[p] = "file" /\ op[p] # "refund"
       /\ Conflict(p, f) \/ (op[p] = "upload" /\ Removed(p, f))

\* Any exception before the commit - a WriteConflict, a failed upload, an
\* encoder's error, missing scripts, too few credits - aborts the
\* transaction.  What was written without the session stays.
Fail(p) ==
    /\ pc[p] \in TxPoints \cup {"winols", "match"}
    /\ TxAbort(p)
    /\ Goto(p, "idle")
    /\ job' = IF op[p] \in BuildOps THEN [job EXCEPT ![target[p]] = "failed"] ELSE job
    /\ UNCHANGED <<dbVars, tempDir, jobCredits, notified, ledgerVars, boundVars>>

\* After the commit: the customer is told, or the job is queued with a copy of
\* the file and of the portal, or Bull learns that the build job is done.
Finish(p) ==
    LET f == target[p] IN
    /\ pc[p] = "after"
    /\ notified' = IF op[p] \in {"prepareAuto", "upload"} THEN notified \cup {f} ELSE notified
    /\ CASE op[p] = "prepareReq" ->
              \/ /\ job' = [job EXCEPT ![f] = "waiting"]
                 /\ jobCredits' = [jobCredits EXCEPT ![f] = balance[AdminOf[f]]]
              \/ UNCHANGED jobVars     \* the portal does not use WinOLS
         [] op[p] \in BuildOps ->
              job' = [job EXCEPT ![f] = "none"] /\ UNCHANGED jobCredits
         [] OTHER -> UNCHANGED jobVars
    /\ Goto(p, "idle")
    /\ UNCHANGED <<dbVars, txVars, tempDir, ledgerVars, boundVars>>

-----------------------------------------------------------------------------
(* The WinOLS pipeline: the process job, then the build job. *)

\* updateWinolsStatus: an update by id without a session.
SetWinols(f, w) ==
    /\ PlainWrite(f)
    /\ doc' = IF exists[f] = "present" THEN [doc EXCEPT ![f].winols = w] ELSE doc
    /\ UNCHANGED <<balance, exists>>

\* A worker takes the process job and marks the file.
FileProcessStart(f) ==
    /\ job[f] = "waiting"
    /\ job' = [job EXCEPT ![f] = "running"]
    /\ SetWinols(f, "PROGRESS")
    /\ UNCHANGED <<tempDir, jobCredits, procVars, notified, ledgerVars, boundVars>>

\* WinOLS answered with output files, or did not within the waits.
FileProcessEnd(f) ==
    /\ job[f] = "running"
    /\ \E s \in {"completed", "failed"} : job' = [job EXCEPT ![f] = s]
    /\ UNCHANGED <<dbVars, txVars, tempDir, jobCredits, procVars, notified, ledgerVars, boundVars>>

\* The completed event of the process job queues the build job.
QueueBuild(f) ==
    /\ job[f] = "completed"
    /\ job' = [job EXCEPT ![f] = "build"]
    /\ UNCHANGED <<dbVars, txVars, tempDir, jobCredits, procVars, notified, ledgerVars, boundVars>>

\* Variant: the failed event is only logged.
OnFailed_LogOnly(f) ==
    /\ job[f] = "failed"
    /\ job' = [job EXCEPT ![f] = "none"]
    /\ UNCHANGED <<dbVars, txVars, tempDir, jobCredits, procVars, notified, ledgerVars, boundVars>>

\* The failed event of either job.
OnFailed(f) ==
    /\ job[f] = "failed"
    /\ job' = [job EXCEPT ![f] = "none"]
    /\ SetWinols(f, "FAILED")
    /\ UNCHANGED <<tempDir, jobCredits, procVars, notified, ledgerVars, boundVars>>

\* A worker takes the build job; the document it holds is the job's data.
BuildStart(p, f) ==
    /\ job[f] = "build"
    /\ job' = [job EXCEPT ![f] = "building"]
    /\ Take(p, "build", f, "winols", RequestedDoc)
    /\ UNCHANGED <<dbVars, txVars, tempDir, jobCredits, notified, ledgerVars, boundVars>>

BuildProgress(p) ==
    /\ pc[p] = "winols"
    /\ SetWinols(target[p], "BUILD")
    /\ Goto(p, "match")
    /\ UNCHANGED <<tempDir, jobVars, notified, ledgerVars, boundVars>>

\* Every requested solution has an output file, the portal's credits as copied
\* into the job cover the file, and so do the customer's as they are now.
BuildMatched(p) ==
    LET f == target[p] IN
    /\ pc[p] = "match"
    /\ jobCredits[f] >= AdminPrice[f]
    /\ CustomerCovers(f)
    /\ Goto(p, "customer")
    /\ UNCHANGED <<dbVars, txVars, tempDir, jobVars, notified, ledgerVars, boundVars>>

\* Some requested solution has none.
BuildUnmatched(p) ==
    /\ pc[p] = "match"
    /\ pc' = [pc EXCEPT ![p] = "file"]
    /\ op' = [op EXCEPT ![p] = "buildPartial"]
    /\ UNCHANGED <<dbVars, txVars, tempDir, jobVars, target, loc, funds, notified,
                   ledgerVars, boundVars>>

-----------------------------------------------------------------------------

\* The server stops and starts again: handlers vanish, the database drops
\* their transactions, Bull runs the active jobs again (stalled), and events
\* of jobs that had just ended are not delivered.
Crash ==
    /\ crashes < MaxCrashes
    /\ crashes' = crashes + 1
    /\ TxCrash
    /\ pc' = [p \in Procs |-> "idle"]
    /\ op' = [p \in Procs |-> "none"]
    /\ target' = [p \in Procs |-> NoFile]
    /\ loc' = [p \in Procs |-> RequestedDoc]
    /\ funds' = [p \in Procs |-> FALSE]
    /\ job' = [f \in Files |-> CASE job[f] = "running" -> "waiting"
                                 [] job[f] = "building" -> "build"
                                 [] job[f] \in {"completed", "failed"} -> "none"
                                 [] OTHER -> job[f]]
    /\ UNCHANGED <<dbVars, tempDir, jobCredits, notified, ledgerVars, requests>>

Request(p, f) ==
    \/ \E o \in PrepareOps : PrepareSolution(p, f, o)
    \/ UploadModFile(p, f)
    \/ ManualBuild(p, f)
    \/ RefundFileService(p, f)
    \/ DeleteFileService(p, f)
    \/ ChatMessage(p, f)
    \/ ProgressFileService(p, f)

ProgressStep(p) ==
    \/ RenameUpload(p)
    \/ UpdateCustomerCredit(p)
    \/ UpdateAdminCredit(p)
    \/ PostInformation(p)
    \/ NotifyFromBuild(p)
    \/ WriteFile(p)
    \/ MarkRefunded(p)
    \/ MarkInProgress(p)
    \/ BuildProgress(p)
    \/ BuildMatched(p)
    \/ BuildUnmatched(p)
    \/ Commit(p)
    \/ Finish(p)

HandlerStep(p) == ProgressStep(p) \/ Fail(p)

JobStep(f) ==
    \/ FileProcessStart(f)
    \/ FileProcessEnd(f)
    \/ QueueBuild(f)
    \/ OnFailed(f)

Next ==
    \/ \E p \in Procs, f \in Files : Request(p, f)
    \/ \E f \in Files : CloseFileService(f)
    \/ \E p \in Procs : HandlerStep(p)
    \/ \E f \in Files : JobStep(f)
    \/ \E p \in Procs, f \in Files : BuildStart(p, f)
    \/ Crash

Spec == Init /\ [][Next]_vars

\* The event loop resumes every handler whose database answered, also with a refusal,
\* and Bull runs every queued job.  Nothing makes a request arrive, the server crash or
\* any other step fail: who waits for a lock waits until it is free.
FairSpec ==
    /\ Spec
    /\ \A p \in Procs : WF_vars(ProgressStep(p)) /\ WF_vars(Refused(p) /\ Fail(p))
    /\ \A f \in Files : WF_vars(JobStep(f))
    /\ \A f \in Files : WF_vars(\E p \in Procs : BuildStart(p, f))

-----------------------------------------------------------------------------
(* Properties. *)

\* A file of an ordinary portal is charged to the portal exactly as often as
\* to the customer, whichever handlers ran, failed or were cut by a crash
\* (updateCredit of both services in one session).
ChargesPaired ==
    \A f \in Files : AdminOf[f] \notin SuperAdmins => adminCharges[f] = charges[f]

\* A file shown as PAID was charged at least once, although the pipeline and
\* the manual build write back documents they read long before.
PaidWasCharged ==
    \A f \in Files :
        exists[f] = "present" /\ doc[f].pay = "PAID" => charges[f] > 0

\* A modified file can be downloaded only from a file that was settled, and
\* WinOLS_OK stands only on a file the pipeline built and charged: the stale writes
\* of manualBuild never show the pipeline's success without its file.
DeliveredIsSettled ==
    \A f \in Files :
        /\ doc[f].mod => doc[f].pay # "UNPAID"
        /\ doc[f].winols = "OK" => doc[f].mod /\ charges[f] > 0

\* Two requests to prepare the same upload never both get past the rename:
\* no upload becomes two file services or is charged twice by preparing it.
PreparedOnce ==
    \A f \in Files, p \in Procs :
        (target[p] = f /\ op[p] \in PrepareOps /\ pc[p] \in TxPoints \ {"rename"}) =>
            /\ exists[f] = "absent"
            /\ \A q \in Procs \ {p} :
                  ~(target[q] = f /\ op[q] \in PrepareOps /\ pc[q] \in TxPoints \ {"rename"})

\* Concurrent handlers may overdraw a customer, each having checked the same
\* credits, but by no more than one file each: every charge checks first.
OverdraftBounded ==
    \A c \in Customers :
        \E f \in Files : balance[c] >= -((Cardinality(Procs) - 1) * Price[f])

\* No update by id brings a removed file back.
RemovedForGood ==
    [][\A f \in Files : exists[f] = "deleted" => exists'[f] = "deleted"]_vars

\* The pipeline's progress is always concluded: a queued job ends with the
\* file marked OK or FAILED, or finds it removed.
PipelineSettles ==
    \A f \in Files :
        job[f] = "waiting" ~> \/ doc[f].winols \in {"OK", "FAILED"}
                              \/ exists[f] = "deleted"

\* No handler waits for ever, although refunds, closings and status updates
\* wait for locks that transactions hold.
HandlersReturn == \A p \in Procs : pc[p] # "idle" ~> pc[p] = "idle"

\* "if status is unpaid and not enough credits then throw error": a manual
\* build that charges the portal finds the credits there.
ManualBuildCovered ==
    [][\A p \in Procs :
          op[p] = "manual" /\ adminCharges' # adminCharges /\ pc'[p] # pc[p] =>
              balance[AdminOf[target[p]]] >= AdminPrice[target[p]]]_vars

\* "check customer admin credits has enough credit or not": so does the build
\* job of the pipeline.
PipelineBuildCovered ==
    [][\A p \in Procs :
          op[p] = "build" /\ adminCharges' # adminCharges /\ pc'[p] # pc[p] =>
              balance[AdminOf[target[p]]] >= AdminPrice[target[p]]]_vars

\* "Your mod file ... is ready to download": when the customer is told so,
\* there is a file to download.
ReadyIsDownloadable == \A f \in notified : doc[f].mod

\* "send email after all the job done": the customer of a delivered file is
\* told in the end.
DeliveredIsTold == \A f \in Files : doc[f].mod ~> f \in notified

\* The detailed handlers keep the promise of the abstract ledger.
Ledger == INSTANCE CreditLedger WITH pay <- [f \in Files |-> doc[f].pay]

LedgerSpec == Ledger!Spec
=============================================================================
