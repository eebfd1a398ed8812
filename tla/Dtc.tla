-------------------------------- MODULE Dtc --------------------------------
(***************************************************************************)
(* Removal of diagnostic trouble codes (src/src/features/dtc): a customer  *)
(* uploads a file, a queue worker hands it to WinOLS through a shared      *)
(* folder, looks for the answer, stores it and concludes the document.     *)
(* The document, the directories and the object store change in separate   *)
(* steps; a deletion or a restart may come between any two of them.        *)
(***************************************************************************)
EXTENDS Integers, FiniteSets

CONSTANTS
    Dtcs,          \* DTC documents
    MaxRetry,      \* "retry > 7" in the code: looks for the answer before giving up
    MaxFaults,     \* bound: failed file or store operations in a behaviour
    MaxCrashes     \* bound: restarts of the server in a behaviour

ASSUME BoundsAssumption ==
    MaxRetry \in Nat /\ MaxFaults \in Nat /\ MaxCrashes \in Nat

VARIABLES
    status,        \* MongoDB: absent, a DTC_STATUS, or deleted
    outputFile,    \* the documents that have an outputFile
    place,         \* directory of the uploaded file
    output,        \* answers of WinOLS in its out folder
    stored,        \* answers in the object store
    dtcJob,        \* Bull: none, waiting, active
    creating,      \* requests that saved a document and move its file
    work,          \* program point of the worker on the document
    retry,         \* looks for the answer so far
    deleting,      \* program point of the deletion of the document
    faults, crashes

dtcVars == <<status, outputFile, place, output, stored, dtcJob, creating, work,
          retry, deleting, faults, crashes>>

docVars == <<status, outputFile>>
diskVars == <<place, output, stored>>
workVars == <<dtcJob, work, retry>>
boundVars == <<faults, crashes>>

DtcStatus == {"WAITING", "PROGRESS", "COMPLETED", "FAILED"}

DtcTypeOK ==
    /\ status \in [Dtcs -> DtcStatus \cup {"absent", "deleted"}]
    /\ outputFile \in SUBSET Dtcs
    /\ place \in [Dtcs -> {"none", "upload", "temp", "in", "winols"}]
    /\ output \in SUBSET Dtcs
    /\ stored \in SUBSET Dtcs
    /\ dtcJob \in [Dtcs -> {"none", "waiting", "active"}]
    /\ creating \in SUBSET Dtcs
    /\ work \in [Dtcs -> {"idle", "files", "look", "upload", "complete", "clean", "end"}]
    /\ retry \in [Dtcs -> 0 .. MaxRetry + 1]
    /\ deleting \in [Dtcs -> {"idle", "document", "folder"}]
    /\ faults \in 0 .. MaxFaults
    /\ crashes \in 0 .. MaxCrashes

DtcInit ==
    /\ status = [d \in Dtcs |-> "absent"]
    /\ outputFile = {}
    /\ place = [d \in Dtcs |-> "none"]
    /\ output = {}
    /\ stored = {}
    /\ dtcJob = [d \in Dtcs |-> "none"]
    /\ creating = {}
    /\ work = [d \in Dtcs |-> "idle"]
    /\ retry = [d \in Dtcs |-> 0]
    /\ deleting = [d \in Dtcs |-> "idle"]
    /\ faults = 0
    /\ crashes = 0

Exists(d) == status[d] \in DtcStatus

\* findByIdAndUpdate: nothing happens to a document that is gone.
SetStatus(d, s) ==
    status' = IF Exists(d) THEN [status EXCEPT ![d] = s] ELSE status

Proceed(d, point) ==
    /\ work' = [work EXCEPT ![d] = point]
    /\ UNCHANGED <<dtcJob, retry>>

\* dtcProcess returns or throws; Bull does not know it yet.
Return(d) == Proceed(d, "end")

\* A file or store operation fails.
Fault ==
    /\ faults < MaxFaults
    /\ faults' = faults + 1
    /\ UNCHANGED crashes

-----------------------------------------------------------------------------
(* create: the document is saved, then its file is moved and queued. *)

Create(d) ==
    /\ status[d] = "absent"
    /\ status' = [status EXCEPT ![d] = "WAITING"]
    /\ place' = [place EXCEPT ![d] = "upload"]
    /\ creating' = creating \cup {d}
    /\ UNCHANGED <<outputFile, output, stored, workVars, deleting, boundVars>>

MoveAndQueue(d) ==
    /\ d \in creating
    /\ creating' = creating \ {d}
    /\ place' = [place EXCEPT ![d] = "temp"]
    /\ dtcJob' = [dtcJob EXCEPT ![d] = "waiting"]
    /\ UNCHANGED <<docVars, output, stored, work, retry, deleting, boundVars>>

\* The file cannot be moved: the request fails, the document stays.
MoveFails(d) ==
    /\ d \in creating
    /\ Fault
    /\ creating' = creating \ {d}
    /\ UNCHANGED <<docVars, diskVars, workVars, deleting>>

-----------------------------------------------------------------------------
(* dtcProcess, run by the only worker of the queue. *)

\* A job of a deleted document fails on its null document.
StartJob(d) ==
    /\ dtcJob[d] = "waiting"
    /\ \A e \in Dtcs : dtcJob[e] # "active"
    /\ SetStatus(d, "PROGRESS")
    /\ dtcJob' = [dtcJob EXCEPT ![d] = "active"]
    /\ work' = [work EXCEPT ![d] = IF Exists(d) THEN "files" ELSE "end"]
    /\ retry' = [retry EXCEPT ![d] = 0]
    /\ UNCHANGED <<outputFile, diskVars, creating, deleting, boundVars>>

\* Variant: a file that is not there is taken to be with WinOLS already.
MoveToWinols_Resumes(d) ==
    /\ work[d] = "files"
    /\ place' = IF place[d] = "temp" THEN [place EXCEPT ![d] = "in"] ELSE place
    /\ Proceed(d, "look")
    /\ UNCHANGED <<docVars, output, stored, creating, deleting, boundVars>>

\* The fault codes are written beside the file and both go to WinOLS; without
\* the file (deleted, or moved by an earlier run) the job fails.
MoveToWinols(d) ==
    /\ work[d] = "files"
    /\ IF place[d] = "temp"
       THEN place' = [place EXCEPT ![d] = "in"] /\ Proceed(d, "look")
       ELSE UNCHANGED place /\ Return(d)
    /\ UNCHANGED <<docVars, output, stored, creating, deleting, boundVars>>

\* External: WinOLS takes the file and answers, or never does.
WinolsAnswers(d) ==
    /\ place[d] = "in"
    /\ place' = [place EXCEPT ![d] = "winols"]
    /\ output' = output \cup {d}
    /\ UNCHANGED <<docVars, stored, workVars, creating, deleting, boundVars>>

\* One look for the answer, every ten seconds.
FoundAnswer(d) ==
    /\ work[d] = "look"
    /\ d \in output
    /\ Proceed(d, "upload")
    /\ UNCHANGED <<docVars, diskVars, creating, deleting, boundVars>>

\* Variant: one look too many.
LookAgain_Unbounded(d) ==
    /\ work[d] = "look"
    /\ d \notin output
    /\ retry[d] <= MaxRetry + 1
    /\ retry' = [retry EXCEPT ![d] = @ + 1]
    /\ UNCHANGED <<docVars, diskVars, dtcJob, work, creating, deleting, boundVars>>

LookAgain(d) ==
    /\ work[d] = "look"
    /\ d \notin output
    /\ retry[d] <= MaxRetry
    /\ retry' = [retry EXCEPT ![d] = @ + 1]
    /\ UNCHANGED <<docVars, diskVars, dtcJob, work, creating, deleting, boundVars>>

\* Variant: giving up leaves the document as it is.
GiveUp_KeepStatus(d) ==
    /\ work[d] = "look"
    /\ d \notin output
    /\ retry[d] > MaxRetry
    /\ Return(d)
    /\ UNCHANGED <<docVars, diskVars, creating, deleting, boundVars>>

GiveUp(d) ==
    /\ work[d] = "look"
    /\ d \notin output
    /\ retry[d] > MaxRetry
    /\ SetStatus(d, "FAILED")
    /\ Return(d)
    /\ UNCHANGED <<outputFile, diskVars, creating, deleting, boundVars>>

UploadAnswer(d) ==
    /\ work[d] = "upload"
    /\ stored' = stored \cup {d}
    /\ Proceed(d, "complete")
    /\ UNCHANGED <<docVars, place, output, creating, deleting, boundVars>>

CompleteDtc(d) ==
    /\ work[d] = "complete"
    /\ SetStatus(d, "COMPLETED")
    /\ outputFile' = IF Exists(d) THEN outputFile \cup {d} ELSE outputFile
    /\ Proceed(d, "clean")
    /\ UNCHANGED <<diskVars, creating, deleting, boundVars>>

\* Variant: the job stays in its queue after it is done.
RemoveAnswer_Requeue(d) ==
    /\ work[d] = "clean"
    /\ output' = output \ {d}
    /\ dtcJob' = [dtcJob EXCEPT ![d] = "waiting"]
    /\ work' = [work EXCEPT ![d] = "idle"]
    /\ UNCHANGED <<docVars, place, stored, retry, creating, deleting, boundVars>>

RemoveAnswer(d) ==
    /\ work[d] = "clean"
    /\ output' = output \ {d}
    /\ Return(d)
    /\ UNCHANGED <<docVars, place, stored, creating, deleting, boundVars>>

\* Moving a file, reaching the store or the database fails; onFailed only logs it.
JobFails(d) ==
    /\ work[d] \in {"files", "upload", "complete"}
    /\ Fault
    /\ Return(d)
    /\ UNCHANGED <<docVars, diskVars, creating, deleting>>

\* Bull drops the job, done or failed: with one attempt it is not tried again.
EndJob(d) ==
    /\ work[d] = "end"
    /\ dtcJob' = [dtcJob EXCEPT ![d] = "none"]
    /\ work' = [work EXCEPT ![d] = "idle"]
    /\ UNCHANGED <<docVars, diskVars, retry, creating, deleting, boundVars>>

-----------------------------------------------------------------------------
(* deleteDtc: the temporary directory, the document, then the stored folder. *)

\* Variant: the folder goes first, and the document after it.
DeleteTemp_FolderFirst(d) ==
    /\ Exists(d)
    /\ deleting[d] = "idle"
    /\ deleting' = [deleting EXCEPT ![d] = "document"]
    /\ place' = IF place[d] = "temp" THEN [place EXCEPT ![d] = "none"] ELSE place
    /\ stored' = stored \ {d}
    /\ UNCHANGED <<docVars, output, workVars, creating, boundVars>>

DeleteTemp(d) ==
    /\ Exists(d)
    /\ deleting[d] = "idle"
    /\ deleting' = [deleting EXCEPT ![d] = "document"]
    /\ place' = IF place[d] = "temp" THEN [place EXCEPT ![d] = "none"] ELSE place
    /\ UNCHANGED <<docVars, output, stored, workVars, creating, boundVars>>

\* What is removed from the out folder bears the name of the upload, which the
\* answers of WinOLS never have.
DeleteDocument(d) ==
    /\ deleting[d] = "document"
    /\ status' = [status EXCEPT ![d] = "deleted"]
    /\ outputFile' = outputFile \ {d}
    /\ deleting' = [deleting EXCEPT ![d] = IF d \in outputFile THEN "folder" ELSE "idle"]
    /\ UNCHANGED <<diskVars, workVars, creating, boundVars>>

DeleteFolder(d) ==
    /\ deleting[d] = "folder"
    /\ stored' = stored \ {d}
    /\ deleting' = [deleting EXCEPT ![d] = "idle"]
    /\ UNCHANGED <<docVars, place, output, workVars, creating, boundVars>>

DeleteFails(d) ==
    /\ deleting[d] # "idle"
    /\ Fault
    /\ deleting' = [deleting EXCEPT ![d] = "idle"]
    /\ UNCHANGED <<docVars, diskVars, workVars, creating>>

-----------------------------------------------------------------------------

\* The server restarts: requests and the worker vanish, and Bull gives the
\* active job to the worker again (stalled).
Restart ==
    /\ crashes < MaxCrashes
    /\ crashes' = crashes + 1
    /\ creating' = {}
    /\ dtcJob' = [d \in Dtcs |-> IF dtcJob[d] = "active" THEN "waiting" ELSE dtcJob[d]]
    /\ work' = [d \in Dtcs |-> "idle"]
    /\ deleting' = [d \in Dtcs |-> "idle"]
    /\ UNCHANGED <<docVars, diskVars, retry, faults>>

CreateStep(d) == MoveAndQueue(d) \/ MoveFails(d)

WorkerStep(d) ==
    \/ StartJob(d)
    \/ MoveToWinols(d)
    \/ FoundAnswer(d)
    \/ LookAgain(d)
    \/ GiveUp(d)
    \/ UploadAnswer(d)
    \/ CompleteDtc(d)
    \/ RemoveAnswer(d)
    \/ JobFails(d)
    \/ EndJob(d)

DeleteStep(d) == DeleteDocument(d) \/ DeleteFolder(d) \/ DeleteFails(d)

DtcStep(d) ==
    \/ Create(d)
    \/ CreateStep(d)
    \/ WorkerStep(d)
    \/ WinolsAnswers(d)
    \/ DeleteTemp(d)
    \/ DeleteStep(d)

DtcNext == (\E d \in Dtcs : DtcStep(d)) \/ Restart

DtcSpec == DtcInit /\ [][DtcNext]_dtcVars

\* Requests and the worker go on when what they await is done; a job that
\* waits for the only worker gets it in turn, since every job ends.  Nothing
\* is assumed of WinOLS, of customers or of administrators.
DtcFairSpec ==
    /\ DtcSpec
    /\ \A d \in Dtcs : WF_dtcVars(CreateStep(d)) /\ WF_dtcVars(DeleteStep(d)) /\ SF_dtcVars(WorkerStep(d))

-----------------------------------------------------------------------------
(* Properties. *)

\* A document names an answer only while the store has it: the upload comes
\* before the document says so, and the document goes before the folder.
OutputIsStored == \A d \in outputFile : d \in stored

\* Through restarts, which run a job again, a document that is FAILED has no answer, in
\* the store or named: only the run that moved the file looks for one, so that the
\* second run never reports a failure of what the first delivered.
FailedHasNoAnswer ==
    \A d \in Dtcs : status[d] = "FAILED" => d \notin stored \cup outputFile

\* Without a restart, a result stays until it is deleted: no second run of the
\* job takes the document back to PROGRESS.
ResultIsFinal ==
    [][crashes = 0 =>
          \A d \in Dtcs :
             status[d] \in {"COMPLETED", "FAILED"} => status'[d] \in {status[d], "deleted"}]_dtcVars

Concluded(d) == status[d] \in {"COMPLETED", "FAILED", "deleted"}

\* However long WinOLS takes, a queued document is concluded, unless an
\* operation fails or the server restarts.
JobConcludes ==
    \A d \in Dtcs : dtcJob[d] = "waiting" ~> Concluded(d) \/ faults > 0 \/ crashes > 0

\* "File is uploaded, please wait while processing": the customer whose file
\* was queued sees the wait end.
WaitingEnds == \A d \in Dtcs : dtcJob[d] = "waiting" ~> Concluded(d)

\* "Dtc file is deleted": when neither a deletion nor the worker is at work on
\* a deleted document, nothing of it is left in the store.
DeletedIsGone ==
    \A d \in Dtcs :
        status[d] = "deleted" /\ deleting[d] = "idle" /\ dtcJob[d] = "none" => d \notin stored
=============================================================================
