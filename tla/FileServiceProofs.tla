------------------------- MODULE FileServiceProofs -------------------------
(***************************************************************************)
(* Proofs about FileService for every set of files, handlers and accounts  *)
(* and every price: types; what the transactions have locked at each step, *)
(* so that a charge reaches the customer and the portal together; and what *)
(* the handlers hold and write back, so that an upload is prepared once, a *)
(* removed file stays removed, and PAID and delivered files were charged;  *)
(* and by how much handlers that run at once may overdraw a customer.      *)
(***************************************************************************)
EXTENDS FileServiceInvariants, FiniteSetTheorems, WellFoundedInduction, TLAPS

\* The next-state relation split into one case per action, once for all the
\* invariance proofs below.
LEMMA NextCases ==
    ASSUME [Next]_vars
    PROVE  \/ \E p \in Procs, f \in Files, o \in PrepareOps : PrepareSolution(p, f, o)
           \/ \E p \in Procs, f \in Files : UploadModFile(p, f)
           \/ \E p \in Procs, f \in Files : ManualBuild(p, f)
           \/ \E p \in Procs, f \in Files : RefundFileService(p, f)
           \/ \E p \in Procs, f \in Files : DeleteFileService(p, f)
           \/ \E p \in Procs, f \in Files : ChatMessage(p, f)
           \/ \E p \in Procs, f \in Files : ProgressFileService(p, f)
           \/ \E f \in Files : CloseFileService(f)
           \/ \E p \in Procs : RenameUpload(p)
           \/ \E p \in Procs : UpdateCustomerCredit(p)
           \/ \E p \in Procs : UpdateAdminCredit(p)
           \/ \E p \in Procs : PostInformation(p)
           \/ \E p \in Procs : NotifyFromBuild(p)
           \/ \E p \in Procs : WriteFile(p)
           \/ \E p \in Procs : MarkRefunded(p)
           \/ \E p \in Procs : MarkInProgress(p)
           \/ \E p \in Procs : BuildProgress(p)
           \/ \E p \in Procs : BuildMatched(p)
           \/ \E p \in Procs : BuildUnmatched(p)
           \/ \E p \in Procs : Commit(p)
           \/ \E p \in Procs : Fail(p)
           \/ \E p \in Procs : Finish(p)
           \/ \E f \in Files : FileProcessStart(f)
           \/ \E f \in Files : FileProcessEnd(f)
           \/ \E f \in Files : QueueBuild(f)
           \/ \E f \in Files : OnFailed(f)
           \/ \E p \in Procs, f \in Files : BuildStart(p, f)
           \/ Crash
           \/ UNCHANGED vars
BY DEF Next, Request, HandlerStep, ProgressStep, JobStep


-----------------------------------------------------------------------------
(* Type correctness. *)

\* What the database helpers do to the state of the transactions.
LEMMA TxTypes ==
    ASSUME TxTypeOK(Docs), NEW p \in Procs, NEW d \in Docs,
           \/ SessionWrite(p, d) \/ SessionRead(p) \/ PlainWrite(d)
           \/ TxCommit(p) \/ TxAbort(p) \/ TxCrash \/ UNCHANGED txVars
    PROVE  TxTypeOK(Docs)'
<1>1. CASE SessionWrite(p, d)
  BY <1>1 DEF TxTypeOK, SessionWrite
<1>2. CASE SessionRead(p)
  BY <1>2 DEF TxTypeOK, SessionRead
<1>3. CASE PlainWrite(d)
  BY <1>3 DEF TxTypeOK, PlainWrite
<1>4. CASE TxCommit(p)
  BY <1>4 DEF TxTypeOK, TxCommit
<1>5. CASE TxAbort(p)
  BY <1>5 DEF TxTypeOK, TxAbort
<1>6. CASE TxCrash
  BY <1>6 DEF TxTypeOK, TxCrash
<1>7. CASE UNCHANGED txVars
  BY <1>7 DEF TxTypeOK, txVars
<1>q. QED BY <1>1, <1>2, <1>3, <1>4, <1>5, <1>6, <1>7

\* The documents a file service starts from.
LEMMA NewDocs == RequestedDoc \in FileDoc /\ AutomaticDoc \in FileDoc
BY DEF RequestedDoc, AutomaticDoc, FileDoc, Status, Pay, Winols

LEMMA IdlePoint == "idle" \in Points /\ "none" \in Ops
BY DEF Points, Ops

\* A handler that takes up a request, or moves on, keeps the types.
LEMMA TakeTypes ==
    ASSUME ProcTypeOK, NEW p \in Procs, NEW o \in Ops, NEW f \in Files,
           NEW s \in Points, NEW d \in FileDoc, Take(p, o, f, s, d)
    PROVE  ProcTypeOK'
BY DEF ProcTypeOK, Take, CustomerCovers

LEMMA GotoTypes ==
    ASSUME ProcTypeOK, NEW p \in Procs, NEW s \in Points, pc[p] # "idle", Goto(p, s)
    PROVE  ProcTypeOK'
<1>1. CASE s = "idle"
  BY <1>1, NewDocs, IdlePoint DEF ProcTypeOK, Goto
<1>2. CASE s # "idle"
  BY <1>2 DEF ProcTypeOK, Goto
<1>q. QED BY <1>1, <1>2

LEMMA AfterPoints ==
    ASSUME NEW o, NEW s \in TxPoints
    PROVE  After(o, s) \in Points
BY DEF After, TxPoints, Points

\* What a handler writes into the file-service document is a document.
LEMMA WrittenDocs ==
    ASSUME ProcTypeOK, DbTypeOK, NEW p \in Procs, target[p] \in Files
    PROVE  WrittenDoc(p) \in FileDoc
<1>1. loc[p] \in FileDoc /\ doc[target[p]] \in FileDoc
  BY DEF ProcTypeOK, DbTypeOK
<1>2. UploadedDoc(p) \in FileDoc
  BY <1>1 DEF UploadedDoc, FileDoc, Status, Pay, Winols
<1>3. \A d \in FileDoc : BuiltDoc(d) \in FileDoc
  BY DEF BuiltDoc, FileDoc, Status, Pay, Winols
<1>4. ManualDoc(p) \in FileDoc
  BY <1>1, <1>3 DEF ManualDoc, FileDoc, Status, Pay, Winols
<1>5. PipelineDoc(loc[p]) \in FileDoc
  BY <1>1, <1>3 DEF PipelineDoc, FileDoc, Status, Pay, Winols
<1>6. PartialDoc(p) \in FileDoc
  BY <1>1 DEF PartialDoc, FileDoc, Status, Pay, Winols
<1>7. [doc[target[p]] EXCEPT !.status = "OPEN"] \in FileDoc
  BY <1>1 DEF FileDoc, Status, Pay, Winols
<1>q. QED
  BY <1>1, <1>2, <1>4, <1>5, <1>6, <1>7 DEF WrittenDoc

LEMMA FilesAndAccounts ==
    \A f \in Files : /\ {f, CustomerOf[f], AdminOf[f]} \subseteq Docs
                     /\ {CustomerOf[f], AdminOf[f]} \subseteq Accounts
                     /\ CustomerOf[f] # AdminOf[f]
                     /\ f \notin Accounts
                     /\ Price[f] \in Nat
                     /\ AdminPrice[f] \in Nat
BY OwnersAssumption, PricesAssumption DEF Docs, Accounts

LEMMA RequestPoints ==
    /\ {"rename", "admin", "customer", "file", "status", "winols"} \subseteq Points
    /\ {"upload", "manual", "refund", "delete", "chat", "progress", "build"} \subseteq Ops
    /\ PrepareOps \subseteq Ops
BY DEF Points, TxPoints, Ops, PrepareOps, BuildOps

LEMMA HandlerPoints ==
    /\ {"match", "file", "customer"} \subseteq Points
    /\ {"rename", "admin", "customer", "information", "notify", "file", "commit"} \subseteq TxPoints
    /\ "buildPartial" \in Ops
    /\ \A o, s \in STRING : s \in TxPoints \ {"commit"} => After(o, s) # "idle"
BY DEF Points, TxPoints, Ops, PrepareOps, BuildOps, After

LEMMA PlainTypes ==
    ASSUME TxTypeOK(Docs), NEW d \in Docs, PlainWrite(d)
    PROVE  TxTypeOK(Docs)'
BY DEF TxTypeOK, PlainWrite

\* The updates by id that set one field.
LEMMA MarkedDocs ==
    ASSUME DbTypeOK, NEW f \in Files
    PROVE  /\ [doc EXCEPT ![f].status = "CLOSED"] \in [Files -> FileDoc]
           /\ [doc EXCEPT ![f].status = "PROGRESS"] \in [Files -> FileDoc]
           /\ [doc EXCEPT ![f].status = "REFUNDED", ![f].pay = "REFUNDED"]
                \in [Files -> FileDoc]
           /\ \A w \in {"PROGRESS", "BUILD", "FAILED"} :
                [doc EXCEPT ![f].winols = w] \in [Files -> FileDoc]
<1>1. doc[f] \in FileDoc
  BY DEF DbTypeOK
<1>2. /\ [doc[f] EXCEPT !.status = "CLOSED"] \in FileDoc
      /\ [doc[f] EXCEPT !.status = "PROGRESS"] \in FileDoc
      /\ [doc[f] EXCEPT !.status = "REFUNDED", !.pay = "REFUNDED"] \in FileDoc
  BY <1>1 DEF FileDoc, Status, Pay
<1>3. \A w \in {"PROGRESS", "BUILD", "FAILED"} : [doc[f] EXCEPT !.winols = w] \in FileDoc
  BY <1>1 DEF FileDoc, Winols
<1>q. QED
  BY <1>1, <1>2, <1>3 DEF DbTypeOK

LEMMA Increments ==
    ASSUME NEW p \in Procs, target[p] \in Files
    PROVE  \A a \in Accounts : Increment(p, a) \in Int
BY FilesAndAccounts DEF Increment

LEMMA TypeInit == Init => TypeOK
<1> SUFFICES ASSUME Init PROVE TypeOK
  OBVIOUS
<1>1. TxTypeOK(Docs)
  BY DEF Init, TxInit, TxTypeOK
<1>2. ProcTypeOK
  BY NewDocs, IdlePoint DEF Init, ProcTypeOK
<1>3. DbTypeOK
  <2>1. balance \in [Accounts -> Int]
    <3>1. InitialCredits \subseteq Int /\ balance \in [Accounts -> InitialCredits]
      BY PricesAssumption DEF Init
    <3>q. QED
      BY <3>1
  <2>2. doc \in [Files -> FileDoc]
    BY NewDocs DEF Init
  <2>3. exists \in [Files -> {"absent", "present", "deleted"}]
    BY DEF Init
  <2>q. QED
    BY <2>1, <2>2, <2>3 DEF DbTypeOK
<1>4. JobTypeOK
  BY DEF Init, JobTypeOK, JobStages
<1>5. LedgerTypeOK
  BY DEF Init, LedgerTypeOK
<1>q. QED
  BY <1>1, <1>2, <1>3, <1>4, <1>5 DEF Init, TypeOK

LEMMA TypeNext == TypeOK /\ [Next]_vars => TypeOK'
<1> SUFFICES ASSUME TypeOK, [Next]_vars PROVE TypeOK'
  OBVIOUS
<1>a. DbTypeOK /\ TxTypeOK(Docs) /\ JobTypeOK /\ ProcTypeOK /\ LedgerTypeOK
  BY DEF TypeOK
<1>1. ASSUME NEW p \in Procs, NEW f \in Files, NEW o \in PrepareOps, PrepareSolution(p, f, o)
      PROVE  TypeOK'
  <2>1. ProcTypeOK'
    BY <1>a, <1>1, TakeTypes, NewDocs, RequestPoints DEF PrepareSolution, Accept, DbTypeOK
  <2>2. TxTypeOK(Docs)'
    BY <1>a, <1>1, TxTypes, FilesAndAccounts DEF PrepareSolution, Accept
  <2>3. DbTypeOK'
    BY <1>a, <1>1 DEF PrepareSolution, Accept, DbTypeOK, dbVars
  <2>4. JobTypeOK'
    BY <1>a, <1>1 DEF PrepareSolution, Accept, JobTypeOK, jobVars
  <2>5. LedgerTypeOK'
    BY <1>a, <1>1 DEF PrepareSolution, Accept, LedgerTypeOK, ledgerVars
  <2>q. QED
    BY <1>a, <1>1, <2>1, <2>2, <2>3, <2>4, <2>5
       DEF PrepareSolution, Accept, boundVars, TypeOK
<1>2. ASSUME NEW p \in Procs, NEW f \in Files, UploadModFile(p, f)
      PROVE  TypeOK'
  <2>1. ProcTypeOK'
    BY <1>a, <1>2, TakeTypes, NewDocs, RequestPoints DEF UploadModFile, Accept, DbTypeOK
  <2>2. TxTypeOK(Docs)'
    BY <1>a, <1>2, TxTypes, FilesAndAccounts DEF UploadModFile, Accept
  <2>3. DbTypeOK'
    BY <1>a, <1>2 DEF UploadModFile, Accept, DbTypeOK, dbVars
  <2>4. JobTypeOK'
    BY <1>a, <1>2 DEF UploadModFile, Accept, JobTypeOK, jobVars
  <2>5. LedgerTypeOK'
    BY <1>a, <1>2 DEF UploadModFile, Accept, LedgerTypeOK, ledgerVars
  <2>q. QED
    BY <1>a, <1>2, <2>1, <2>2, <2>3, <2>4, <2>5 DEF UploadModFile, Accept, boundVars, TypeOK
<1>3. ASSUME NEW p \in Procs, NEW f \in Files, ManualBuild(p, f)
      PROVE  TypeOK'
  <2>1. ProcTypeOK'
    BY <1>a, <1>3, TakeTypes, NewDocs, RequestPoints DEF ManualBuild, Accept, DbTypeOK
  <2>2. TxTypeOK(Docs)'
    BY <1>a, <1>3, TxTypes, FilesAndAccounts DEF ManualBuild, Accept
  <2>3. DbTypeOK'
    BY <1>a, <1>3 DEF ManualBuild, Accept, DbTypeOK, dbVars
  <2>4. JobTypeOK'
    BY <1>a, <1>3 DEF ManualBuild, Accept, JobTypeOK, jobVars
  <2>5. LedgerTypeOK'
    BY <1>a, <1>3 DEF ManualBuild, Accept, LedgerTypeOK, ledgerVars
  <2>q. QED
    BY <1>a, <1>3, <2>1, <2>2, <2>3, <2>4, <2>5 DEF ManualBuild, Accept, boundVars, TypeOK
<1>4. ASSUME NEW p \in Procs, NEW f \in Files, RefundFileService(p, f)
      PROVE  TypeOK'
  <2>1. ProcTypeOK'
    BY <1>a, <1>4, TakeTypes, NewDocs, RequestPoints DEF RefundFileService, Accept, DbTypeOK
  <2>2. TxTypeOK(Docs)'
    BY <1>a, <1>4, TxTypes, FilesAndAccounts DEF RefundFileService, Accept
  <2>3. DbTypeOK'
    BY <1>a, <1>4 DEF RefundFileService, Accept, DbTypeOK, dbVars
  <2>4. JobTypeOK'
    BY <1>a, <1>4 DEF RefundFileService, Accept, JobTypeOK, jobVars
  <2>5. LedgerTypeOK'
    BY <1>a, <1>4 DEF RefundFileService, Accept, LedgerTypeOK, ledgerVars
  <2>q. QED
    BY <1>a, <1>4, <2>1, <2>2, <2>3, <2>4, <2>5
       DEF RefundFileService, Accept, boundVars, TypeOK
<1>5. ASSUME NEW p \in Procs, NEW f \in Files, DeleteFileService(p, f)
      PROVE  TypeOK'
  <2>1. ProcTypeOK'
    BY <1>a, <1>5, TakeTypes, NewDocs, RequestPoints DEF DeleteFileService, Accept, DbTypeOK
  <2>2. TxTypeOK(Docs)'
    BY <1>a, <1>5, TxTypes, FilesAndAccounts DEF DeleteFileService, Accept
  <2>3. DbTypeOK'
    BY <1>a, <1>5 DEF DeleteFileService, Accept, DbTypeOK, dbVars
  <2>4. JobTypeOK'
    BY <1>a, <1>5 DEF DeleteFileService, Accept, JobTypeOK, jobVars
  <2>5. LedgerTypeOK'
    BY <1>a, <1>5 DEF DeleteFileService, Accept, LedgerTypeOK, ledgerVars
  <2>q. QED
    BY <1>a, <1>5, <2>1, <2>2, <2>3, <2>4, <2>5
       DEF DeleteFileService, Accept, boundVars, TypeOK
<1>6. ASSUME NEW p \in Procs, NEW f \in Files, ChatMessage(p, f)
      PROVE  TypeOK'
  <2>1. ProcTypeOK'
    BY <1>a, <1>6, TakeTypes, NewDocs, RequestPoints DEF ChatMessage, Accept, DbTypeOK
  <2>2. TxTypeOK(Docs)'
    BY <1>a, <1>6, TxTypes, FilesAndAccounts DEF ChatMessage, Accept
  <2>3. DbTypeOK'
    BY <1>a, <1>6 DEF ChatMessage, Accept, DbTypeOK, dbVars
  <2>4. JobTypeOK'
    BY <1>a, <1>6 DEF ChatMessage, Accept, JobTypeOK, jobVars
  <2>5. LedgerTypeOK'
    BY <1>a, <1>6 DEF ChatMessage, Accept, LedgerTypeOK, ledgerVars
  <2>q. QED
    BY <1>a, <1>6, <2>1, <2>2, <2>3, <2>4, <2>5 DEF ChatMessage, Accept, boundVars, TypeOK
<1>7. ASSUME NEW p \in Procs, NEW f \in Files, ProgressFileService(p, f)
      PROVE  TypeOK'
  <2>1. ProcTypeOK'
    BY <1>a, <1>7, TakeTypes, NewDocs, RequestPoints
       DEF ProgressFileService, Accept, DbTypeOK
  <2>2. TxTypeOK(Docs)'
    BY <1>a, <1>7, TxTypes, FilesAndAccounts DEF ProgressFileService, Accept
  <2>3. DbTypeOK'
    BY <1>a, <1>7 DEF ProgressFileService, Accept, DbTypeOK, dbVars
  <2>4. JobTypeOK'
    BY <1>a, <1>7 DEF ProgressFileService, Accept, JobTypeOK, jobVars
  <2>5. LedgerTypeOK'
    BY <1>a, <1>7 DEF ProgressFileService, Accept, LedgerTypeOK, ledgerVars
  <2>q. QED
    BY <1>a, <1>7, <2>1, <2>2, <2>3, <2>4, <2>5
       DEF ProgressFileService, Accept, boundVars, TypeOK
<1>8. ASSUME NEW f \in Files, CloseFileService(f)
      PROVE  TypeOK'
  <2>1. ProcTypeOK'
    BY <1>a, <1>8 DEF CloseFileService, ProcTypeOK, procVars
  <2>2. TxTypeOK(Docs)'
    BY <1>a, <1>8, PlainTypes, FilesAndAccounts DEF CloseFileService, SetWinols
  <2>3. DbTypeOK'
    BY <1>a, <1>8, MarkedDocs DEF CloseFileService, SetWinols, DbTypeOK
  <2>4. JobTypeOK'
    BY <1>a, <1>8 DEF CloseFileService, JobTypeOK, jobVars
  <2>5. LedgerTypeOK'
    BY <1>a, <1>8 DEF CloseFileService, LedgerTypeOK, ledgerVars
  <2>q. QED
    BY <1>a, <1>8, <2>1, <2>2, <2>3, <2>4, <2>5 DEF CloseFileService, boundVars, TypeOK
<1>9. ASSUME NEW p \in Procs, RenameUpload(p)
      PROVE  TypeOK'
  <2>0. pc[p] # "idle" /\ target[p] \in Files
    BY <1>a, <1>9 DEF RenameUpload, ProcTypeOK, TxPoints
  <2>1. ProcTypeOK'
    BY <1>a, <1>9, <2>0, GotoTypes, AfterPoints, HandlerPoints, IdlePoint DEF RenameUpload
  <2>2. TxTypeOK(Docs)'
    BY <1>a, <1>9, <2>0, TxTypes, FilesAndAccounts DEF RenameUpload, SetWinols
  <2>3. DbTypeOK'
    BY <1>a, <1>9 DEF RenameUpload, DbTypeOK, dbVars
  <2>4. JobTypeOK'
    BY <1>a, <1>9 DEF RenameUpload, JobTypeOK, jobVars
  <2>5. LedgerTypeOK'
    BY <1>a, <1>9 DEF RenameUpload, LedgerTypeOK, ledgerVars
  <2>q. QED
    BY <1>a, <1>9, <2>1, <2>2, <2>3, <2>4, <2>5 DEF RenameUpload, boundVars, TypeOK
<1>10. ASSUME NEW p \in Procs, UpdateCustomerCredit(p)
      PROVE  TypeOK'
  <2>0. pc[p] # "idle" /\ target[p] \in Files
    BY <1>a, <1>10 DEF UpdateCustomerCredit, ProcTypeOK, TxPoints
  <2>1. ProcTypeOK'
    BY <1>a, <1>10, <2>0, GotoTypes, AfterPoints, HandlerPoints, IdlePoint
       DEF UpdateCustomerCredit
  <2>2. TxTypeOK(Docs)'
    BY <1>a, <1>10, <2>0, TxTypes, FilesAndAccounts DEF UpdateCustomerCredit, SetWinols
  <2>3. DbTypeOK'
    BY <1>a, <1>10 DEF UpdateCustomerCredit, DbTypeOK, dbVars
  <2>4. JobTypeOK'
    BY <1>a, <1>10 DEF UpdateCustomerCredit, JobTypeOK, jobVars
  <2>5. LedgerTypeOK'
    BY <1>a, <1>10 DEF UpdateCustomerCredit, LedgerTypeOK, ledgerVars
  <2>q. QED
    BY <1>a, <1>10, <2>1, <2>2, <2>3, <2>4, <2>5 DEF UpdateCustomerCredit, boundVars, TypeOK
<1>11. ASSUME NEW p \in Procs, UpdateAdminCredit(p)
      PROVE  TypeOK'
  <2>0. pc[p] # "idle" /\ target[p] \in Files
    BY <1>a, <1>11 DEF UpdateAdminCredit, ProcTypeOK, TxPoints
  <2>1. ProcTypeOK'
    BY <1>a, <1>11, <2>0, GotoTypes, AfterPoints, HandlerPoints, IdlePoint
       DEF UpdateAdminCredit
  <2>2. TxTypeOK(Docs)'
    BY <1>a, <1>11, <2>0, TxTypes, FilesAndAccounts DEF UpdateAdminCredit, SetWinols
  <2>3. DbTypeOK'
    BY <1>a, <1>11 DEF UpdateAdminCredit, DbTypeOK, dbVars
  <2>4. JobTypeOK'
    BY <1>a, <1>11 DEF UpdateAdminCredit, JobTypeOK, jobVars
  <2>5. LedgerTypeOK'
    BY <1>a, <1>11 DEF UpdateAdminCredit, LedgerTypeOK, ledgerVars
  <2>q. QED
    BY <1>a, <1>11, <2>1, <2>2, <2>3, <2>4, <2>5 DEF UpdateAdminCredit, boundVars, TypeOK
<1>12. ASSUME NEW p \in Procs, PostInformation(p)
      PROVE  TypeOK'
  <2>0. pc[p] # "idle" /\ target[p] \in Files
    BY <1>a, <1>12 DEF PostInformation, ProcTypeOK, TxPoints
  <2>1. ProcTypeOK'
    BY <1>a, <1>12, <2>0, GotoTypes, AfterPoints, HandlerPoints, IdlePoint
       DEF PostInformation
  <2>2. TxTypeOK(Docs)'
    BY <1>a, <1>12, <2>0, TxTypes, FilesAndAccounts DEF PostInformation, SetWinols
  <2>3. DbTypeOK'
    BY <1>a, <1>12 DEF PostInformation, DbTypeOK, dbVars
  <2>4. JobTypeOK'
    BY <1>a, <1>12 DEF PostInformation, JobTypeOK, jobVars
  <2>5. LedgerTypeOK'
    BY <1>a, <1>12 DEF PostInformation, LedgerTypeOK, ledgerVars
  <2>q. QED
    BY <1>a, <1>12, <2>1, <2>2, <2>3, <2>4, <2>5 DEF PostInformation, boundVars, TypeOK
<1>13. ASSUME NEW p \in Procs, NotifyFromBuild(p)
      PROVE  TypeOK'
  <2>0. pc[p] # "idle" /\ target[p] \in Files
    BY <1>a, <1>13 DEF NotifyFromBuild, ProcTypeOK, TxPoints
  <2>1. ProcTypeOK'
    BY <1>a, <1>13, <2>0, GotoTypes, AfterPoints, HandlerPoints, IdlePoint
       DEF NotifyFromBuild
  <2>2. TxTypeOK(Docs)'
    BY <1>a, <1>13, <2>0, TxTypes, FilesAndAccounts DEF NotifyFromBuild, SetWinols
  <2>3. DbTypeOK'
    BY <1>a, <1>13 DEF NotifyFromBuild, DbTypeOK, dbVars
  <2>4. JobTypeOK'
    BY <1>a, <1>13 DEF NotifyFromBuild, JobTypeOK, jobVars
  <2>5. LedgerTypeOK'
    BY <1>a, <1>13 DEF NotifyFromBuild, LedgerTypeOK, ledgerVars
  <2>q. QED
    BY <1>a, <1>13, <2>0, <2>1, <2>2, <2>3, <2>4, <2>5
       DEF NotifyFromBuild, boundVars, TypeOK
<1>14. ASSUME NEW p \in Procs, WriteFile(p)
      PROVE  TypeOK'
  <2>1. ProcTypeOK'
    BY <1>a, <1>14, AfterPoints, WrittenDocs, HandlerPoints DEF WriteFile, ProcTypeOK
  <2>2. TxTypeOK(Docs)'
    BY <1>a, <1>14, TxTypes, FilesAndAccounts, HandlerPoints DEF WriteFile, ProcTypeOK
  <2>3. DbTypeOK'
    BY <1>a, <1>14 DEF WriteFile, DbTypeOK, dbVars
  <2>4. JobTypeOK'
    BY <1>a, <1>14 DEF WriteFile, JobTypeOK, jobVars
  <2>5. LedgerTypeOK'
    BY <1>a, <1>14 DEF WriteFile, LedgerTypeOK, ledgerVars
  <2>q. QED
    BY <1>a, <1>14, <2>1, <2>2, <2>3, <2>4, <2>5 DEF WriteFile, boundVars, TypeOK
<1>15. ASSUME NEW p \in Procs, MarkRefunded(p)
      PROVE  TypeOK'
  <2>0. pc[p] # "idle" /\ target[p] \in Files
    BY <1>a, <1>15 DEF MarkRefunded, ProcTypeOK, TxPoints
  <2>1. ProcTypeOK'
    BY <1>a, <1>15, <2>0, GotoTypes, AfterPoints, HandlerPoints, IdlePoint DEF MarkRefunded
  <2>2. TxTypeOK(Docs)'
    BY <1>a, <1>15, <2>0, TxTypes, FilesAndAccounts DEF MarkRefunded, SetWinols
  <2>3. DbTypeOK'
    BY <1>a, <1>15, MarkedDocs, <2>0 DEF MarkRefunded, SetWinols, DbTypeOK
  <2>4. JobTypeOK'
    BY <1>a, <1>15 DEF MarkRefunded, JobTypeOK, jobVars
  <2>5. LedgerTypeOK'
    BY <1>a, <1>15 DEF MarkRefunded, LedgerTypeOK, ledgerVars
  <2>q. QED
    BY <1>a, <1>15, <2>1, <2>2, <2>3, <2>4, <2>5 DEF MarkRefunded, boundVars, TypeOK
<1>16. ASSUME NEW p \in Procs, MarkInProgress(p)
      PROVE  TypeOK'
  <2>0. pc[p] # "idle" /\ target[p] \in Files
    BY <1>a, <1>16 DEF MarkInProgress, ProcTypeOK, TxPoints
  <2>1. ProcTypeOK'
    BY <1>a, <1>16, <2>0, GotoTypes, AfterPoints, HandlerPoints, IdlePoint
       DEF MarkInProgress
  <2>2. TxTypeOK(Docs)'
    BY <1>a, <1>16, <2>0, TxTypes, FilesAndAccounts DEF MarkInProgress, SetWinols
  <2>3. DbTypeOK'
    BY <1>a, <1>16, MarkedDocs, <2>0 DEF MarkInProgress, SetWinols, DbTypeOK
  <2>4. JobTypeOK'
    BY <1>a, <1>16 DEF MarkInProgress, JobTypeOK, jobVars
  <2>5. LedgerTypeOK'
    BY <1>a, <1>16 DEF MarkInProgress, LedgerTypeOK, ledgerVars
  <2>q. QED
    BY <1>a, <1>16, <2>1, <2>2, <2>3, <2>4, <2>5 DEF MarkInProgress, boundVars, TypeOK
<1>17. ASSUME NEW p \in Procs, BuildProgress(p)
      PROVE  TypeOK'
  <2>0. pc[p] # "idle" /\ target[p] \in Files
    BY <1>a, <1>17 DEF BuildProgress, ProcTypeOK, TxPoints
  <2>1. ProcTypeOK'
    BY <1>a, <1>17, <2>0, GotoTypes, AfterPoints, HandlerPoints, IdlePoint DEF BuildProgress
  <2>2. TxTypeOK(Docs)'
    BY <1>a, <1>17, <2>0, TxTypes, FilesAndAccounts DEF BuildProgress, SetWinols
  <2>3. DbTypeOK'
    BY <1>a, <1>17, MarkedDocs, <2>0 DEF BuildProgress, SetWinols, DbTypeOK
  <2>4. JobTypeOK'
    BY <1>a, <1>17 DEF BuildProgress, JobTypeOK, jobVars
  <2>5. LedgerTypeOK'
    BY <1>a, <1>17 DEF BuildProgress, LedgerTypeOK, ledgerVars
  <2>q. QED
    BY <1>a, <1>17, <2>1, <2>2, <2>3, <2>4, <2>5 DEF BuildProgress, boundVars, TypeOK
<1>18. ASSUME NEW p \in Procs, BuildMatched(p)
      PROVE  TypeOK'
  <2>0. pc[p] # "idle" /\ target[p] \in Files
    BY <1>a, <1>18 DEF BuildMatched, ProcTypeOK, TxPoints
  <2>1. ProcTypeOK'
    BY <1>a, <1>18, <2>0, GotoTypes, AfterPoints, HandlerPoints, IdlePoint DEF BuildMatched
  <2>2. TxTypeOK(Docs)'
    BY <1>a, <1>18, <2>0, TxTypes, FilesAndAccounts DEF BuildMatched, SetWinols
  <2>3. DbTypeOK'
    BY <1>a, <1>18 DEF BuildMatched, DbTypeOK, dbVars
  <2>4. JobTypeOK'
    BY <1>a, <1>18 DEF BuildMatched, JobTypeOK, jobVars
  <2>5. LedgerTypeOK'
    BY <1>a, <1>18 DEF BuildMatched, LedgerTypeOK, ledgerVars
  <2>q. QED
    BY <1>a, <1>18, <2>1, <2>2, <2>3, <2>4, <2>5 DEF BuildMatched, boundVars, TypeOK
<1>19. ASSUME NEW p \in Procs, BuildUnmatched(p)
      PROVE  TypeOK'
  <2>1. ProcTypeOK'
    BY <1>a, <1>19, HandlerPoints DEF BuildUnmatched, ProcTypeOK
  <2>2. TxTypeOK(Docs)'
    BY <1>a, <1>19 DEF BuildUnmatched, TxTypeOK, txVars
  <2>3. DbTypeOK'
    BY <1>a, <1>19 DEF BuildUnmatched, DbTypeOK, dbVars
  <2>4. JobTypeOK'
    BY <1>a, <1>19 DEF BuildUnmatched, JobTypeOK, jobVars
  <2>5. LedgerTypeOK'
    BY <1>a, <1>19 DEF BuildUnmatched, LedgerTypeOK, ledgerVars
  <2>q. QED
    BY <1>a, <1>19, <2>1, <2>2, <2>3, <2>4, <2>5 DEF BuildUnmatched, boundVars, TypeOK
<1>20. ASSUME NEW p \in Procs, Commit(p)
      PROVE  TypeOK'
  <2>0. pc[p] # "idle" /\ target[p] \in Files
    BY <1>a, <1>20 DEF Commit, ProcTypeOK, TxPoints
  <2>1. ProcTypeOK'
    BY <1>a, <1>20, <2>0, GotoTypes, AfterPoints, HandlerPoints, IdlePoint DEF Commit
  <2>2. TxTypeOK(Docs)'
    BY <1>a, <1>20, <2>0, TxTypes, FilesAndAccounts DEF Commit, SetWinols
  <2>3. DbTypeOK'
    BY <1>a, <1>20, <2>0, Increments DEF Commit, DbTypeOK, ProcTypeOK
  <2>4. JobTypeOK'
    BY <1>a, <1>20 DEF Commit, JobTypeOK, jobVars
  <2>5. LedgerTypeOK'
    BY <1>a, <1>20, <2>0 DEF Commit, LedgerTypeOK
  <2>q. QED
    BY <1>a, <1>20, <2>1, <2>2, <2>3, <2>4, <2>5 DEF Commit, boundVars, TypeOK
<1>21. ASSUME NEW p \in Procs, Fail(p)
      PROVE  TypeOK'
  <2>0. pc[p] # "idle" /\ target[p] \in Files
    BY <1>a, <1>21 DEF Fail, ProcTypeOK, TxPoints
  <2>1. ProcTypeOK'
    BY <1>a, <1>21, <2>0, GotoTypes, AfterPoints, HandlerPoints, IdlePoint DEF Fail
  <2>2. TxTypeOK(Docs)'
    BY <1>a, <1>21, <2>0, TxTypes, FilesAndAccounts DEF Fail, SetWinols
  <2>3. DbTypeOK'
    BY <1>a, <1>21 DEF Fail, DbTypeOK, dbVars
  <2>4. JobTypeOK'
    BY <1>a, <1>21, <2>0 DEF Fail, JobTypeOK, DbTypeOK, JobStages, jobVars
  <2>5. LedgerTypeOK'
    BY <1>a, <1>21 DEF Fail, LedgerTypeOK, ledgerVars
  <2>q. QED
    BY <1>a, <1>21, <2>1, <2>2, <2>3, <2>4, <2>5 DEF Fail, boundVars, TypeOK
<1>22. ASSUME NEW p \in Procs, Finish(p)
      PROVE  TypeOK'
  <2>0. pc[p] # "idle" /\ target[p] \in Files
    BY <1>a, <1>22 DEF Finish, ProcTypeOK, TxPoints
  <2>1. ProcTypeOK'
    BY <1>a, <1>22, <2>0, GotoTypes, AfterPoints, HandlerPoints, IdlePoint DEF Finish
  <2>2. TxTypeOK(Docs)'
    BY <1>a, <1>22, <2>0, TxTypes, FilesAndAccounts DEF Finish, SetWinols
  <2>3. DbTypeOK'
    BY <1>a, <1>22 DEF Finish, DbTypeOK, dbVars
  <2>4. JobTypeOK'
    BY <1>a, <1>22, <2>0, FilesAndAccounts
       DEF Finish, JobTypeOK, DbTypeOK, JobStages, jobVars
  <2>5. LedgerTypeOK'
    BY <1>a, <1>22 DEF Finish, LedgerTypeOK, ledgerVars
  <2>q. QED
    BY <1>a, <1>22, <2>0, <2>1, <2>2, <2>3, <2>4, <2>5 DEF Finish, boundVars, TypeOK
<1>23. ASSUME NEW f \in Files, FileProcessStart(f)
      PROVE  TypeOK'
  <2>1. ProcTypeOK'
    BY <1>a, <1>23 DEF FileProcessStart, ProcTypeOK, procVars
  <2>2. TxTypeOK(Docs)'
    BY <1>a, <1>23, PlainTypes, FilesAndAccounts DEF FileProcessStart, SetWinols
  <2>3. DbTypeOK'
    BY <1>a, <1>23, MarkedDocs DEF FileProcessStart, SetWinols, DbTypeOK
  <2>4. JobTypeOK'
    BY <1>a, <1>23 DEF FileProcessStart, JobTypeOK, DbTypeOK, JobStages, jobVars
  <2>5. LedgerTypeOK'
    BY <1>a, <1>23 DEF FileProcessStart, LedgerTypeOK, ledgerVars
  <2>q. QED
    BY <1>a, <1>23, <2>1, <2>2, <2>3, <2>4, <2>5 DEF FileProcessStart, boundVars, TypeOK
<1>24. ASSUME NEW f \in Files, FileProcessEnd(f)
      PROVE  TypeOK'
  <2>1. ProcTypeOK'
    BY <1>a, <1>24 DEF FileProcessEnd, ProcTypeOK, procVars
  <2>2. TxTypeOK(Docs)'
    BY <1>a, <1>24 DEF FileProcessEnd, TxTypeOK, txVars
  <2>3. DbTypeOK'
    BY <1>a, <1>24 DEF FileProcessEnd, DbTypeOK, dbVars
  <2>4. JobTypeOK'
    BY <1>a, <1>24 DEF FileProcessEnd, JobTypeOK, DbTypeOK, JobStages, jobVars
  <2>5. LedgerTypeOK'
    BY <1>a, <1>24 DEF FileProcessEnd, LedgerTypeOK, ledgerVars
  <2>q. QED
    BY <1>a, <1>24, <2>1, <2>2, <2>3, <2>4, <2>5 DEF FileProcessEnd, boundVars, TypeOK
<1>25. ASSUME NEW f \in Files, QueueBuild(f)
      PROVE  TypeOK'
  <2>1. ProcTypeOK'
    BY <1>a, <1>25 DEF QueueBuild, ProcTypeOK, procVars
  <2>2. TxTypeOK(Docs)'
    BY <1>a, <1>25 DEF QueueBuild, TxTypeOK, txVars
  <2>3. DbTypeOK'
    BY <1>a, <1>25 DEF QueueBuild, DbTypeOK, dbVars
  <2>4. JobTypeOK'
    BY <1>a, <1>25 DEF QueueBuild, JobTypeOK, DbTypeOK, JobStages, jobVars
  <2>5. LedgerTypeOK'
    BY <1>a, <1>25 DEF QueueBuild, LedgerTypeOK, ledgerVars
  <2>q. QED
    BY <1>a, <1>25, <2>1, <2>2, <2>3, <2>4, <2>5 DEF QueueBuild, boundVars, TypeOK
<1>26. ASSUME NEW f \in Files, OnFailed(f)
      PROVE  TypeOK'
  <2>1. ProcTypeOK'
    BY <1>a, <1>26 DEF OnFailed, ProcTypeOK, procVars
  <2>2. TxTypeOK(Docs)'
    BY <1>a, <1>26, PlainTypes, FilesAndAccounts DEF OnFailed, SetWinols
  <2>3. DbTypeOK'
    BY <1>a, <1>26, MarkedDocs DEF OnFailed, SetWinols, DbTypeOK
  <2>4. JobTypeOK'
    BY <1>a, <1>26 DEF OnFailed, JobTypeOK, DbTypeOK, JobStages, jobVars
  <2>5. LedgerTypeOK'
    BY <1>a, <1>26 DEF OnFailed, LedgerTypeOK, ledgerVars
  <2>q. QED
    BY <1>a, <1>26, <2>1, <2>2, <2>3, <2>4, <2>5 DEF OnFailed, boundVars, TypeOK
<1>27. ASSUME NEW p \in Procs, NEW f \in Files, BuildStart(p, f)
      PROVE  TypeOK'
  <2>1. ProcTypeOK'
    BY <1>a, <1>27, TakeTypes, NewDocs, RequestPoints DEF BuildStart
  <2>2. TxTypeOK(Docs)'
    BY <1>a, <1>27 DEF BuildStart, TxTypeOK, txVars
  <2>3. DbTypeOK'
    BY <1>a, <1>27 DEF BuildStart, DbTypeOK, dbVars
  <2>4. JobTypeOK'
    BY <1>a, <1>27 DEF BuildStart, JobTypeOK, DbTypeOK, JobStages, jobVars
  <2>5. LedgerTypeOK'
    BY <1>a, <1>27 DEF BuildStart, LedgerTypeOK, ledgerVars
  <2>q. QED
    BY <1>a, <1>27, <2>1, <2>2, <2>3, <2>4, <2>5 DEF BuildStart, boundVars, TypeOK
<1>28. CASE Crash
  <2>1. ProcTypeOK'
    BY <1>a, <1>28, NewDocs, IdlePoint DEF Crash, ProcTypeOK
  <2>2. TxTypeOK(Docs)'
    BY <1>a, <1>28 DEF Crash, TxCrash, TxTypeOK
  <2>3. DbTypeOK'
    BY <1>a, <1>28 DEF Crash, DbTypeOK, dbVars
  <2>4. JobTypeOK'
    BY <1>a, <1>28 DEF Crash, JobTypeOK, DbTypeOK, JobStages, jobVars
  <2>5. LedgerTypeOK'
    BY <1>a, <1>28 DEF Crash, LedgerTypeOK, ledgerVars
  <2>q. QED
    BY <1>a, <1>28, <2>1, <2>2, <2>3, <2>4, <2>5 DEF Crash, boundVars, TypeOK
<1>29. CASE UNCHANGED vars
  BY <1>29
     DEF vars, dbVars, txVars, jobVars, procVars, ledgerVars, boundVars, TypeOK, DbTypeOK,
         JobTypeOK, ProcTypeOK, LedgerTypeOK, TxTypeOK
<1>q. QED BY NextCases, <1>1, <1>2, <1>3, <1>4, <1>5, <1>6, <1>7, <1>8, <1>9, <1>10, <1>11,
     <1>12, <1>13, <1>14, <1>15, <1>16, <1>17, <1>18, <1>19, <1>20, <1>21, <1>22,
     <1>23, <1>24, <1>25, <1>26, <1>27, <1>28, <1>29

\* Every field a handler reads, copies or writes back keeps its type, and a
\* handler that runs has its file, for any number of handlers, files and
\* restarts.
THEOREM TypeCorrect == Spec => []TypeOK
BY TypeInit, TypeNext, PTL DEF Spec

-----------------------------------------------------------------------------
(* What the transactions of the handlers have locked, step by step. *)

\* The frame of a step of one handler: the others keep their place and their
\* locks, so the invariant is to be shown for the one that moved.
LEMMA LockFrame ==
    ASSUME LockInv, NEW p \in Procs,
           \A q \in Procs \ {p} : /\ pc'[q] = pc[q] /\ op'[q] = op[q]
                                  /\ target'[q] = target[q] /\ locks'[q] = locks[q]
                                  /\ locks'[p] \cap locks[q] = {},
           Route(p)', ChargeLocks(p)'
    PROVE  LockInv'
<1>1. ASSUME NEW q \in Procs PROVE Route(q)' /\ ChargeLocks(q)'
  <2>1. CASE q = p
    BY <2>1
  <2>2. CASE q # p
    <3>1. Route(q) /\ ChargeLocks(q)
      BY DEF LockInv
    <3>2. pc'[q] = pc[q] /\ op'[q] = op[q] /\ target'[q] = target[q] /\ locks'[q] = locks[q]
      BY <2>2
    <3>3. Route(q)'
      BY <3>1, <3>2 DEF Route
    <3>q. QED
      BY <3>1, <3>2, <3>3 DEF ChargeLocks, HasCustomer, HasAdmin, HasFile, SuperFile
  <2>q. QED BY <2>1, <2>2
<1>2. LocksDisjoint'
  <2> SUFFICES ASSUME NEW q \in Procs, NEW r \in Procs, q # r
               PROVE  locks'[q] \cap locks'[r] = {}
    BY DEF LocksDisjoint
  <2>q. QED BY DEF LockInv, LocksDisjoint
<1>q. QED BY <1>1, <1>2 DEF LockInv

LEMMA AfterCommit ==
    ASSUME NEW o
    PROVE  After(o, "commit") = IF o \in {"manual", "refund", "delete", "chat"}
                                THEN "idle" ELSE "after"
BY DEF After

LEMMA LockInit == Init => LockInv
BY DEF Init, TxInit, LockInv, LocksDisjoint, Route, ChargeLocks, TxPoints

LEMMA LockNext == TypeOK /\ LockInv /\ [Next]_vars => LockInv'
<1> SUFFICES ASSUME TypeOK, LockInv, [Next]_vars PROVE LockInv'
  OBVIOUS
<1>a. TypeOK /\ LockInv
  OBVIOUS
<1>1. ASSUME NEW p \in Procs, NEW f \in Files, NEW o \in PrepareOps, PrepareSolution(p, f, o)
      PROVE  LockInv'
  <2>1. Route(p) /\ ChargeLocks(p) /\ LocksDisjoint
    BY <1>a DEF LockInv
  <2>2. \A q \in Procs \ {p} : /\ pc'[q] = pc[q] /\ op'[q] = op[q]
                                /\ target'[q] = target[q] /\ locks'[q] = locks[q]
                                /\ locks'[p] \cap locks[q] = {}
    BY <1>a, <1>1, <2>1
       DEF PrepareSolution, Accept, Take, LocksDisjoint, Conflict, TypeOK, ProcTypeOK,
           TxTypeOK, txVars
  <2>3. Route(p)'
    BY <1>a, <1>1, <2>1
       DEF PrepareSolution, Accept, Take, Route, TypeOK, ProcTypeOK, PrepareOps, BuildOps,
           ChargeOps, TxPoints
  <2>4. ChargeLocks(p)'
    BY <1>a, <1>1, <2>1, FilesAndAccounts
       DEF PrepareSolution, Accept, Take, Route, ChargeLocks, HasCustomer, HasAdmin,
           HasFile, SuperFile, TypeOK, ProcTypeOK, TxTypeOK, PrepareOps, BuildOps,
           ChargeOps, TxPoints, txVars
  <2>q. QED
    BY <1>a, <2>2, <2>3, <2>4, LockFrame
<1>2. ASSUME NEW p \in Procs, NEW f \in Files, UploadModFile(p, f)
      PROVE  LockInv'
  <2>1. Route(p) /\ ChargeLocks(p) /\ LocksDisjoint
    BY <1>a DEF LockInv
  <2>2. \A q \in Procs \ {p} : /\ pc'[q] = pc[q] /\ op'[q] = op[q]
                                /\ target'[q] = target[q] /\ locks'[q] = locks[q]
                                /\ locks'[p] \cap locks[q] = {}
    BY <1>a, <1>2, <2>1
       DEF UploadModFile, Accept, Take, LocksDisjoint, Conflict, TypeOK, ProcTypeOK,
           TxTypeOK, txVars
  <2>3. Route(p)'
    BY <1>a, <1>2, <2>1
       DEF UploadModFile, Accept, Take, Route, TypeOK, ProcTypeOK, PrepareOps, BuildOps,
           ChargeOps, TxPoints
  <2>4. ChargeLocks(p)'
    BY <1>a, <1>2, <2>1, FilesAndAccounts
       DEF UploadModFile, Accept, Take, Route, ChargeLocks, HasCustomer, HasAdmin, HasFile,
           SuperFile, TypeOK, ProcTypeOK, TxTypeOK, PrepareOps, BuildOps, ChargeOps,
           TxPoints, txVars
  <2>q. QED
    BY <1>a, <2>2, <2>3, <2>4, LockFrame
<1>3. ASSUME NEW p \in Procs, NEW f \in Files, ManualBuild(p, f)
      PROVE  LockInv'
  <2>1. Route(p) /\ ChargeLocks(p) /\ LocksDisjoint
    BY <1>a DEF LockInv
  <2>2. \A q \in Procs \ {p} : /\ pc'[q] = pc[q] /\ op'[q] = op[q]
                                /\ target'[q] = target[q] /\ locks'[q] = locks[q]
                                /\ locks'[p] \cap locks[q] = {}
    BY <1>a, <1>3, <2>1
       DEF ManualBuild, Accept, Take, LocksDisjoint, Conflict, TypeOK, ProcTypeOK, TxTypeOK,
           txVars
  <2>3. Route(p)'
    BY <1>a, <1>3, <2>1
       DEF ManualBuild, Accept, Take, Route, TypeOK, ProcTypeOK, PrepareOps, BuildOps,
           ChargeOps, TxPoints
  <2>4. ChargeLocks(p)'
    BY <1>a, <1>3, <2>1, FilesAndAccounts
       DEF ManualBuild, Accept, Take, Route, ChargeLocks, HasCustomer, HasAdmin, HasFile,
           SuperFile, TypeOK, ProcTypeOK, TxTypeOK, PrepareOps, BuildOps, ChargeOps,
           TxPoints, txVars
  <2>q. QED
    BY <1>a, <2>2, <2>3, <2>4, LockFrame
<1>4. ASSUME NEW p \in Procs, NEW f \in Files, RefundFileService(p, f)
      PROVE  LockInv'
  <2>1. Route(p) /\ ChargeLocks(p) /\ LocksDisjoint
    BY <1>a DEF LockInv
  <2>2. \A q \in Procs \ {p} : /\ pc'[q] = pc[q] /\ op'[q] = op[q]
                                /\ target'[q] = target[q] /\ locks'[q] = locks[q]
                                /\ locks'[p] \cap locks[q] = {}
    BY <1>a, <1>4, <2>1
       DEF RefundFileService, Accept, Take, LocksDisjoint, Conflict, TypeOK, ProcTypeOK,
           TxTypeOK, txVars
  <2>3. Route(p)'
    BY <1>a, <1>4, <2>1
       DEF RefundFileService, Accept, Take, Route, TypeOK, ProcTypeOK, PrepareOps, BuildOps,
           ChargeOps, TxPoints
  <2>4. ChargeLocks(p)'
    BY <1>a, <1>4, <2>1, FilesAndAccounts
       DEF RefundFileService, Accept, Take, Route, ChargeLocks, HasCustomer, HasAdmin,
           HasFile, SuperFile, TypeOK, ProcTypeOK, TxTypeOK, PrepareOps, BuildOps,
           ChargeOps, TxPoints, txVars
  <2>q. QED
    BY <1>a, <2>2, <2>3, <2>4, LockFrame
<1>5. ASSUME NEW p \in Procs, NEW f \in Files, DeleteFileService(p, f)
      PROVE  LockInv'
  <2>1. Route(p) /\ ChargeLocks(p) /\ LocksDisjoint
    BY <1>a DEF LockInv
  <2>2. \A q \in Procs \ {p} : /\ pc'[q] = pc[q] /\ op'[q] = op[q]
                                /\ target'[q] = target[q] /\ locks'[q] = locks[q]
                                /\ locks'[p] \cap locks[q] = {}
    BY <1>a, <1>5, <2>1
       DEF DeleteFileService, Accept, Take, LocksDisjoint, Conflict, TypeOK, ProcTypeOK,
           TxTypeOK, txVars
  <2>3. Route(p)'
    BY <1>a, <1>5, <2>1
       DEF DeleteFileService, Accept, Take, Route, TypeOK, ProcTypeOK, PrepareOps, BuildOps,
           ChargeOps, TxPoints
  <2>4. ChargeLocks(p)'
    BY <1>a, <1>5, <2>1, FilesAndAccounts
       DEF DeleteFileService, Accept, Take, Route, ChargeLocks, HasCustomer, HasAdmin,
           HasFile, SuperFile, TypeOK, ProcTypeOK, TxTypeOK, PrepareOps, BuildOps,
           ChargeOps, TxPoints, txVars
  <2>q. QED
    BY <1>a, <2>2, <2>3, <2>4, LockFrame
<1>6. ASSUME NEW p \in Procs, NEW f \in Files, ChatMessage(p, f)
      PROVE  LockInv'
  <2>1. Route(p) /\ ChargeLocks(p) /\ LocksDisjoint
    BY <1>a DEF LockInv
  <2>2. \A q \in Procs \ {p} : /\ pc'[q] = pc[q] /\ op'[q] = op[q]
                                /\ target'[q] = target[q] /\ locks'[q] = locks[q]
                                /\ locks'[p] \cap locks[q] = {}
    BY <1>a, <1>6, <2>1
       DEF ChatMessage, SessionRead, Accept, Take, LocksDisjoint, Conflict, TypeOK,
           ProcTypeOK, TxTypeOK, txVars
  <2>3. Route(p)'
    BY <1>a, <1>6, <2>1
       DEF ChatMessage, SessionRead, Accept, Take, Route, TypeOK, ProcTypeOK, PrepareOps,
           BuildOps, ChargeOps, TxPoints
  <2>4. ChargeLocks(p)'
    BY <1>a, <1>6, <2>1, FilesAndAccounts
       DEF ChatMessage, SessionRead, Accept, Take, Route, ChargeLocks, HasCustomer,
           HasAdmin, HasFile, SuperFile, TypeOK, ProcTypeOK, TxTypeOK, PrepareOps, BuildOps,
           ChargeOps, TxPoints, txVars
  <2>q. QED
    BY <1>a, <2>2, <2>3, <2>4, LockFrame
<1>7. ASSUME NEW p \in Procs, NEW f \in Files, ProgressFileService(p, f)
      PROVE  LockInv'
  <2>1. Route(p) /\ ChargeLocks(p) /\ LocksDisjoint
    BY <1>a DEF LockInv
  <2>2. \A q \in Procs \ {p} : /\ pc'[q] = pc[q] /\ op'[q] = op[q]
                                /\ target'[q] = target[q] /\ locks'[q] = locks[q]
                                /\ locks'[p] \cap locks[q] = {}
    BY <1>a, <1>7, <2>1
       DEF ProgressFileService, Accept, Take, LocksDisjoint, Conflict, TypeOK, ProcTypeOK,
           TxTypeOK, txVars
  <2>3. Route(p)'
    BY <1>a, <1>7, <2>1
       DEF ProgressFileService, Accept, Take, Route, TypeOK, ProcTypeOK, PrepareOps,
           BuildOps, ChargeOps, TxPoints
  <2>4. ChargeLocks(p)'
    BY <1>a, <1>7, <2>1, FilesAndAccounts
       DEF ProgressFileService, Accept, Take, Route, ChargeLocks, HasCustomer, HasAdmin,
           HasFile, SuperFile, TypeOK, ProcTypeOK, TxTypeOK, PrepareOps, BuildOps,
           ChargeOps, TxPoints, txVars
  <2>q. QED
    BY <1>a, <2>2, <2>3, <2>4, LockFrame
<1>8. ASSUME NEW f \in Files, CloseFileService(f)
      PROVE  LockInv'
  <2>1. UNCHANGED <<pc, op, target, locks>>
    BY <1>8 DEF CloseFileService, PlainWrite, procVars, txVars
  <2>q. QED
    BY <1>a, <2>1
       DEF LockInv, LocksDisjoint, Route, ChargeLocks, HasCustomer, HasAdmin, HasFile,
           SuperFile
<1>9. ASSUME NEW p \in Procs, RenameUpload(p)
      PROVE  LockInv'
  <2>1. Route(p) /\ ChargeLocks(p) /\ LocksDisjoint
    BY <1>a DEF LockInv
  <2>2. \A q \in Procs \ {p} : /\ pc'[q] = pc[q] /\ op'[q] = op[q]
                                /\ target'[q] = target[q] /\ locks'[q] = locks[q]
                                /\ locks'[p] \cap locks[q] = {}
    BY <1>a, <1>9, <2>1
       DEF RenameUpload, Goto, After, LocksDisjoint, Conflict, TypeOK, ProcTypeOK, TxTypeOK,
           txVars
  <2>3. Route(p)'
    BY <1>a, <1>9, <2>1
       DEF RenameUpload, Goto, After, Route, TypeOK, ProcTypeOK, PrepareOps, BuildOps,
           ChargeOps, TxPoints
  <2>4. ChargeLocks(p)'
    BY <1>a, <1>9, <2>1, FilesAndAccounts
       DEF RenameUpload, Goto, After, Route, ChargeLocks, HasCustomer, HasAdmin, HasFile,
           SuperFile, TypeOK, ProcTypeOK, TxTypeOK, PrepareOps, BuildOps, ChargeOps,
           TxPoints, txVars
  <2>q. QED
    BY <1>a, <2>2, <2>3, <2>4, LockFrame
<1>10. ASSUME NEW p \in Procs, UpdateCustomerCredit(p)
      PROVE  LockInv'
  <2>1. Route(p) /\ ChargeLocks(p) /\ LocksDisjoint
    BY <1>a DEF LockInv
  <2>2. \A q \in Procs \ {p} : /\ pc'[q] = pc[q] /\ op'[q] = op[q]
                                /\ target'[q] = target[q] /\ locks'[q] = locks[q]
                                /\ locks'[p] \cap locks[q] = {}
    BY <1>a, <1>10, <2>1
       DEF UpdateCustomerCredit, SessionWrite, Goto, After, LocksDisjoint, Conflict, TypeOK,
           ProcTypeOK, TxTypeOK, txVars
  <2>3. Route(p)'
    BY <1>a, <1>10, <2>1
       DEF UpdateCustomerCredit, SessionWrite, Goto, After, Route, TypeOK, ProcTypeOK,
           PrepareOps, BuildOps, ChargeOps, TxPoints
  <2>4. ChargeLocks(p)'
    BY <1>a, <1>10, <2>1, FilesAndAccounts
       DEF UpdateCustomerCredit, SessionWrite, Goto, After, Route, ChargeLocks, HasCustomer,
           HasAdmin, HasFile, SuperFile, TypeOK, ProcTypeOK, TxTypeOK, PrepareOps, BuildOps,
           ChargeOps, TxPoints, txVars
  <2>q. QED
    BY <1>a, <2>2, <2>3, <2>4, LockFrame
<1>11. ASSUME NEW p \in Procs, UpdateAdminCredit(p)
      PROVE  LockInv'
  <2>1. Route(p) /\ ChargeLocks(p) /\ LocksDisjoint
    BY <1>a DEF LockInv
  <2>2. \A q \in Procs \ {p} : /\ pc'[q] = pc[q] /\ op'[q] = op[q]
                                /\ target'[q] = target[q] /\ locks'[q] = locks[q]
                                /\ locks'[p] \cap locks[q] = {}
    BY <1>a, <1>11, <2>1
       DEF UpdateAdminCredit, SessionWrite, Goto, After, LocksDisjoint, Conflict, TypeOK,
           ProcTypeOK, TxTypeOK, txVars
  <2>3. Route(p)'
    BY <1>a, <1>11, <2>1
       DEF UpdateAdminCredit, SessionWrite, Goto, After, Route, TypeOK, ProcTypeOK,
           PrepareOps, BuildOps, ChargeOps, TxPoints
  <2>4. ChargeLocks(p)'
    BY <1>a, <1>11, <2>1, FilesAndAccounts
       DEF UpdateAdminCredit, SessionWrite, Goto, After, Route, ChargeLocks, HasCustomer,
           HasAdmin, HasFile, SuperFile, TypeOK, ProcTypeOK, TxTypeOK, PrepareOps, BuildOps,
           ChargeOps, TxPoints, txVars
  <2>q. QED
    BY <1>a, <2>2, <2>3, <2>4, LockFrame
<1>12. ASSUME NEW p \in Procs, PostInformation(p)
      PROVE  LockInv'
  <2>1. Route(p) /\ ChargeLocks(p) /\ LocksDisjoint
    BY <1>a DEF LockInv
  <2>2. \A q \in Procs \ {p} : /\ pc'[q] = pc[q] /\ op'[q] = op[q]
                                /\ target'[q] = target[q] /\ locks'[q] = locks[q]
                                /\ locks'[p] \cap locks[q] = {}
    BY <1>a, <1>12, <2>1
       DEF PostInformation, SessionWrite, Goto, After, LocksDisjoint, Conflict, TypeOK,
           ProcTypeOK, TxTypeOK, txVars
  <2>3. Route(p)'
    BY <1>a, <1>12, <2>1
       DEF PostInformation, SessionWrite, Goto, After, Route, TypeOK, ProcTypeOK,
           PrepareOps, BuildOps, ChargeOps, TxPoints
  <2>4. ChargeLocks(p)'
    BY <1>a, <1>12, <2>1, FilesAndAccounts
       DEF PostInformation, SessionWrite, Goto, After, Route, ChargeLocks, HasCustomer,
           HasAdmin, HasFile, SuperFile, TypeOK, ProcTypeOK, TxTypeOK, PrepareOps, BuildOps,
           ChargeOps, TxPoints, txVars
  <2>q. QED
    BY <1>a, <2>2, <2>3, <2>4, LockFrame
<1>13. ASSUME NEW p \in Procs, NotifyFromBuild(p)
      PROVE  LockInv'
  <2>1. Route(p) /\ ChargeLocks(p) /\ LocksDisjoint
    BY <1>a DEF LockInv
  <2>2. \A q \in Procs \ {p} : /\ pc'[q] = pc[q] /\ op'[q] = op[q]
                                /\ target'[q] = target[q] /\ locks'[q] = locks[q]
                                /\ locks'[p] \cap locks[q] = {}
    BY <1>a, <1>13, <2>1
       DEF NotifyFromBuild, Goto, After, LocksDisjoint, Conflict, TypeOK, ProcTypeOK,
           TxTypeOK, txVars
  <2>3. Route(p)'
    BY <1>a, <1>13, <2>1
       DEF NotifyFromBuild, Goto, After, Route, TypeOK, ProcTypeOK, PrepareOps, BuildOps,
           ChargeOps, TxPoints
  <2>4. ChargeLocks(p)'
    BY <1>a, <1>13, <2>1, FilesAndAccounts
       DEF NotifyFromBuild, Goto, After, Route, ChargeLocks, HasCustomer, HasAdmin, HasFile,
           SuperFile, TypeOK, ProcTypeOK, TxTypeOK, PrepareOps, BuildOps, ChargeOps,
           TxPoints, txVars
  <2>q. QED
    BY <1>a, <2>2, <2>3, <2>4, LockFrame
<1>14. ASSUME NEW p \in Procs, WriteFile(p)
      PROVE  LockInv'
  <2>1. Route(p) /\ ChargeLocks(p) /\ LocksDisjoint
    BY <1>a DEF LockInv
  <2>2. \A q \in Procs \ {p} : /\ pc'[q] = pc[q] /\ op'[q] = op[q]
                                /\ target'[q] = target[q] /\ locks'[q] = locks[q]
                                /\ locks'[p] \cap locks[q] = {}
    BY <1>a, <1>14, <2>1
       DEF WriteFile, SessionWrite, After, LocksDisjoint, Conflict, TypeOK, ProcTypeOK,
           TxTypeOK, txVars
  <2>3. Route(p)'
    BY <1>a, <1>14, <2>1
       DEF WriteFile, SessionWrite, After, Route, TypeOK, ProcTypeOK, PrepareOps, BuildOps,
           ChargeOps, TxPoints
  <2>4. ChargeLocks(p)'
    BY <1>a, <1>14, <2>1, FilesAndAccounts
       DEF WriteFile, SessionWrite, After, Route, ChargeLocks, HasCustomer, HasAdmin,
           HasFile, SuperFile, TypeOK, ProcTypeOK, TxTypeOK, PrepareOps, BuildOps,
           ChargeOps, TxPoints, txVars
  <2>q. QED
    BY <1>a, <2>2, <2>3, <2>4, LockFrame
<1>15. ASSUME NEW p \in Procs, MarkRefunded(p)
      PROVE  LockInv'
  <2>1. Route(p) /\ ChargeLocks(p) /\ LocksDisjoint
    BY <1>a DEF LockInv
  <2>2. \A q \in Procs \ {p} : /\ pc'[q] = pc[q] /\ op'[q] = op[q]
                                /\ target'[q] = target[q] /\ locks'[q] = locks[q]
                                /\ locks'[p] \cap locks[q] = {}
    BY <1>a, <1>15, <2>1
       DEF MarkRefunded, PlainWrite, Goto, After, LocksDisjoint, Conflict, TypeOK,
           ProcTypeOK, TxTypeOK, txVars
  <2>3. Route(p)'
    BY <1>a, <1>15, <2>1
       DEF MarkRefunded, PlainWrite, Goto, After, Route, TypeOK, ProcTypeOK, PrepareOps,
           BuildOps, ChargeOps, TxPoints
  <2>4. ChargeLocks(p)'
    BY <1>a, <1>15, <2>1, FilesAndAccounts
       DEF MarkRefunded, PlainWrite, Goto, After, Route, ChargeLocks, HasCustomer, HasAdmin,
           HasFile, SuperFile, TypeOK, ProcTypeOK, TxTypeOK, PrepareOps, BuildOps,
           ChargeOps, TxPoints, txVars
  <2>q. QED
    BY <1>a, <2>2, <2>3, <2>4, LockFrame
<1>16. ASSUME NEW p \in Procs, MarkInProgress(p)
      PROVE  LockInv'
  <2>1. Route(p) /\ ChargeLocks(p) /\ LocksDisjoint
    BY <1>a DEF LockInv
  <2>2. \A q \in Procs \ {p} : /\ pc'[q] = pc[q] /\ op'[q] = op[q]
                                /\ target'[q] = target[q] /\ locks'[q] = locks[q]
                                /\ locks'[p] \cap locks[q] = {}
    BY <1>a, <1>16, <2>1
       DEF MarkInProgress, PlainWrite, Goto, LocksDisjoint, Conflict, TypeOK, ProcTypeOK,
           TxTypeOK, txVars
  <2>3. Route(p)'
    BY <1>a, <1>16, <2>1
       DEF MarkInProgress, PlainWrite, Goto, Route, TypeOK, ProcTypeOK, PrepareOps,
           BuildOps, ChargeOps, TxPoints
  <2>4. ChargeLocks(p)'
    BY <1>a, <1>16, <2>1, FilesAndAccounts
       DEF MarkInProgress, PlainWrite, Goto, Route, ChargeLocks, HasCustomer, HasAdmin,
           HasFile, SuperFile, TypeOK, ProcTypeOK, TxTypeOK, PrepareOps, BuildOps,
           ChargeOps, TxPoints, txVars
  <2>q. QED
    BY <1>a, <2>2, <2>3, <2>4, LockFrame
<1>17. ASSUME NEW p \in Procs, BuildProgress(p)
      PROVE  LockInv'
  <2>1. Route(p) /\ ChargeLocks(p) /\ LocksDisjoint
    BY <1>a DEF LockInv
  <2>2. \A q \in Procs \ {p} : /\ pc'[q] = pc[q] /\ op'[q] = op[q]
                                /\ target'[q] = target[q] /\ locks'[q] = locks[q]
                                /\ locks'[p] \cap locks[q] = {}
    BY <1>a, <1>17, <2>1
       DEF BuildProgress, SetWinols, PlainWrite, Goto, LocksDisjoint, Conflict, TypeOK,
           ProcTypeOK, TxTypeOK, txVars
  <2>3. Route(p)'
    BY <1>a, <1>17, <2>1
       DEF BuildProgress, SetWinols, PlainWrite, Goto, Route, TypeOK, ProcTypeOK,
           PrepareOps, BuildOps, ChargeOps, TxPoints
  <2>4. ChargeLocks(p)'
    BY <1>a, <1>17, <2>1, FilesAndAccounts
       DEF BuildProgress, SetWinols, PlainWrite, Goto, Route, ChargeLocks, HasCustomer,
           HasAdmin, HasFile, SuperFile, TypeOK, ProcTypeOK, TxTypeOK, PrepareOps, BuildOps,
           ChargeOps, TxPoints, txVars
  <2>q. QED
    BY <1>a, <2>2, <2>3, <2>4, LockFrame
<1>18. ASSUME NEW p \in Procs, BuildMatched(p)
      PROVE  LockInv'
  <2>1. Route(p) /\ ChargeLocks(p) /\ LocksDisjoint
    BY <1>a DEF LockInv
  <2>2. \A q \in Procs \ {p} : /\ pc'[q] = pc[q] /\ op'[q] = op[q]
                                /\ target'[q] = target[q] /\ locks'[q] = locks[q]
                                /\ locks'[p] \cap locks[q] = {}
    BY <1>a, <1>18, <2>1
       DEF BuildMatched, Goto, LocksDisjoint, Conflict, TypeOK, ProcTypeOK, TxTypeOK, txVars
  <2>3. Route(p)'
    BY <1>a, <1>18, <2>1
       DEF BuildMatched, Goto, Route, TypeOK, ProcTypeOK, PrepareOps, BuildOps, ChargeOps,
           TxPoints
  <2>4. ChargeLocks(p)'
    BY <1>a, <1>18, <2>1, FilesAndAccounts
       DEF BuildMatched, Goto, Route, ChargeLocks, HasCustomer, HasAdmin, HasFile,
           SuperFile, TypeOK, ProcTypeOK, TxTypeOK, PrepareOps, BuildOps, ChargeOps,
           TxPoints, txVars
  <2>q. QED
    BY <1>a, <2>2, <2>3, <2>4, LockFrame
<1>19. ASSUME NEW p \in Procs, BuildUnmatched(p)
      PROVE  LockInv'
  <2>1. Route(p) /\ ChargeLocks(p) /\ LocksDisjoint
    BY <1>a DEF LockInv
  <2>2. \A q \in Procs \ {p} : /\ pc'[q] = pc[q] /\ op'[q] = op[q]
                                /\ target'[q] = target[q] /\ locks'[q] = locks[q]
                                /\ locks'[p] \cap locks[q] = {}
    BY <1>a, <1>19, <2>1
       DEF BuildUnmatched, LocksDisjoint, Conflict, TypeOK, ProcTypeOK, TxTypeOK, txVars
  <2>3. Route(p)'
    BY <1>a, <1>19, <2>1
       DEF BuildUnmatched, Route, TypeOK, ProcTypeOK, PrepareOps, BuildOps, ChargeOps,
           TxPoints
  <2>4. ChargeLocks(p)'
    BY <1>a, <1>19, <2>1, FilesAndAccounts
       DEF BuildUnmatched, Route, ChargeLocks, HasCustomer, HasAdmin, HasFile, SuperFile,
           TypeOK, ProcTypeOK, TxTypeOK, PrepareOps, BuildOps, ChargeOps, TxPoints, txVars
  <2>q. QED
    BY <1>a, <2>2, <2>3, <2>4, LockFrame
<1>20. ASSUME NEW p \in Procs, Commit(p)
      PROVE  LockInv'
  <2>1. Route(p) /\ ChargeLocks(p) /\ LocksDisjoint
    BY <1>a DEF LockInv
  <2>2. \A q \in Procs \ {p} : /\ pc'[q] = pc[q] /\ op'[q] = op[q]
                                /\ target'[q] = target[q] /\ locks'[q] = locks[q]
                                /\ locks'[p] \cap locks[q] = {}
    BY <1>a, <1>20, <2>1
       DEF Commit, TxCommit, Goto, After, LocksDisjoint, Conflict, TypeOK, ProcTypeOK,
           TxTypeOK, txVars
  <2>3. IF op[p] \in {"manual", "refund", "delete", "chat"}
       THEN pc'[p] = "idle" /\ op'[p] = "none"
       ELSE pc'[p] = "after" /\ op'[p] = op[p]
    BY <1>a, <1>20, AfterCommit DEF Commit, Goto, TypeOK, ProcTypeOK
  <2>4. Route(p)'
    BY <1>a, <1>20, <2>1, <2>3
       DEF Commit, Route, TypeOK, ProcTypeOK, Ops, PrepareOps, BuildOps
  <2>5. locks'[p] = {}
    BY <1>a, <1>20 DEF Commit, TxCommit, TypeOK, TxTypeOK
  <2>6. ChargeLocks(p)'
    BY <2>3, <2>5 DEF ChargeLocks, TxPoints
  <2>q. QED
    BY <1>a, <2>2, <2>4, <2>6, LockFrame
<1>21. ASSUME NEW p \in Procs, Fail(p)
      PROVE  LockInv'
  <2>1. Route(p) /\ ChargeLocks(p) /\ LocksDisjoint
    BY <1>a DEF LockInv
  <2>2. \A q \in Procs \ {p} : /\ pc'[q] = pc[q] /\ op'[q] = op[q]
                                /\ target'[q] = target[q] /\ locks'[q] = locks[q]
                                /\ locks'[p] \cap locks[q] = {}
    BY <1>a, <1>21, <2>1
       DEF Fail, TxAbort, Goto, LocksDisjoint, Conflict, TypeOK, ProcTypeOK, TxTypeOK,
           txVars
  <2>3. Route(p)'
    BY <1>a, <1>21, <2>1
       DEF Fail, TxAbort, Goto, Route, TypeOK, ProcTypeOK, PrepareOps, BuildOps, ChargeOps,
           TxPoints
  <2>4. ChargeLocks(p)'
    BY <1>a, <1>21, <2>1, FilesAndAccounts
       DEF Fail, TxAbort, Goto, Route, ChargeLocks, HasCustomer, HasAdmin, HasFile,
           SuperFile, TypeOK, ProcTypeOK, TxTypeOK, PrepareOps, BuildOps, ChargeOps,
           TxPoints, txVars
  <2>q. QED
    BY <1>a, <2>2, <2>3, <2>4, LockFrame
<1>22. ASSUME NEW p \in Procs, Finish(p)
      PROVE  LockInv'
  <2>1. Route(p) /\ ChargeLocks(p) /\ LocksDisjoint
    BY <1>a DEF LockInv
  <2>2. \A q \in Procs \ {p} : /\ pc'[q] = pc[q] /\ op'[q] = op[q]
                                /\ target'[q] = target[q] /\ locks'[q] = locks[q]
                                /\ locks'[p] \cap locks[q] = {}
    BY <1>a, <1>22, <2>1
       DEF Finish, Goto, LocksDisjoint, Conflict, TypeOK, ProcTypeOK, TxTypeOK, txVars
  <2>3. Route(p)'
    BY <1>a, <1>22, <2>1
       DEF Finish, Goto, Route, TypeOK, ProcTypeOK, PrepareOps, BuildOps, ChargeOps,
           TxPoints
  <2>4. ChargeLocks(p)'
    BY <1>a, <1>22, <2>1, FilesAndAccounts
       DEF Finish, Goto, Route, ChargeLocks, HasCustomer, HasAdmin, HasFile, SuperFile,
           TypeOK, ProcTypeOK, TxTypeOK, PrepareOps, BuildOps, ChargeOps, TxPoints, txVars
  <2>q. QED
    BY <1>a, <2>2, <2>3, <2>4, LockFrame
<1>23. ASSUME NEW f \in Files, FileProcessStart(f)
      PROVE  LockInv'
  <2>1. UNCHANGED <<pc, op, target, locks>>
    BY <1>23 DEF FileProcessStart, SetWinols, PlainWrite, procVars, txVars
  <2>q. QED
    BY <1>a, <2>1
       DEF LockInv, LocksDisjoint, Route, ChargeLocks, HasCustomer, HasAdmin, HasFile,
           SuperFile
<1>24. ASSUME NEW f \in Files, FileProcessEnd(f)
      PROVE  LockInv'
  <2>1. UNCHANGED <<pc, op, target, locks>>
    BY <1>24 DEF FileProcessEnd, procVars, txVars
  <2>q. QED
    BY <1>a, <2>1
       DEF LockInv, LocksDisjoint, Route, ChargeLocks, HasCustomer, HasAdmin, HasFile,
           SuperFile
<1>25. ASSUME NEW f \in Files, QueueBuild(f)
      PROVE  LockInv'
  <2>1. UNCHANGED <<pc, op, target, locks>>
    BY <1>25 DEF QueueBuild, procVars, txVars
  <2>q. QED
    BY <1>a, <2>1
       DEF LockInv, LocksDisjoint, Route, ChargeLocks, HasCustomer, HasAdmin, HasFile,
           SuperFile
<1>26. ASSUME NEW f \in Files, OnFailed(f)
      PROVE  LockInv'
  <2>1. UNCHANGED <<pc, op, target, locks>>
    BY <1>26 DEF OnFailed, SetWinols, PlainWrite, procVars, txVars
  <2>q. QED
    BY <1>a, <2>1
       DEF LockInv, LocksDisjoint, Route, ChargeLocks, HasCustomer, HasAdmin, HasFile,
           SuperFile
<1>27. ASSUME NEW p \in Procs, NEW f \in Files, BuildStart(p, f)
      PROVE  LockInv'
  <2>1. Route(p) /\ ChargeLocks(p) /\ LocksDisjoint
    BY <1>a DEF LockInv
  <2>2. \A q \in Procs \ {p} : /\ pc'[q] = pc[q] /\ op'[q] = op[q]
                                /\ target'[q] = target[q] /\ locks'[q] = locks[q]
                                /\ locks'[p] \cap locks[q] = {}
    BY <1>a, <1>27, <2>1
       DEF BuildStart, Take, LocksDisjoint, Conflict, TypeOK, ProcTypeOK, TxTypeOK, txVars
  <2>3. Route(p)'
    BY <1>a, <1>27, <2>1
       DEF BuildStart, Take, Route, TypeOK, ProcTypeOK, PrepareOps, BuildOps, ChargeOps,
           TxPoints
  <2>4. ChargeLocks(p)'
    BY <1>a, <1>27, <2>1, FilesAndAccounts
       DEF BuildStart, Take, Route, ChargeLocks, HasCustomer, HasAdmin, HasFile, SuperFile,
           TypeOK, ProcTypeOK, TxTypeOK, PrepareOps, BuildOps, ChargeOps, TxPoints, txVars
  <2>q. QED
    BY <1>a, <2>2, <2>3, <2>4, LockFrame
<1>28. CASE Crash
  <2>1. locks' = [p \in Procs |-> {}] /\ pc' = [p \in Procs |-> "idle"] /\ op' = [p \in Procs |-> "none"]
    BY <1>28 DEF Crash, TxCrash
  <2>q. QED
    BY <2>1 DEF LockInv, LocksDisjoint, Route, ChargeLocks, TxPoints
<1>29. CASE UNCHANGED vars
  <2>1. UNCHANGED <<pc, op, target, locks>>
    BY <1>29 DEF vars, procVars, txVars
  <2>q. QED
    BY <1>a, <2>1
       DEF LockInv, LocksDisjoint, Route, ChargeLocks, HasCustomer, HasAdmin, HasFile,
           SuperFile
<1>q. QED BY NextCases, <1>1, <1>2, <1>3, <1>4, <1>5, <1>6, <1>7, <1>8, <1>9, <1>10, <1>11,
     <1>12, <1>13, <1>14, <1>15, <1>16, <1>17, <1>18, <1>19, <1>20, <1>21, <1>22,
     <1>23, <1>24, <1>25, <1>26, <1>27, <1>28, <1>29

\* At every step of every handler, the locks its transaction holds are those
\* its operation has written by then (the order of the session's writes in
\* uploadModFile, manualBuild, refundFileService, buildFileProcess).
THEOREM LocksCorrect == Spec => []LockInv
BY TypeCorrect, LockInit, LockNext, PTL DEF Spec

-----------------------------------------------------------------------------
(* Charges. *)

\* Charges are counted by commits only.
LEMMA LedgerFrame ==
    ASSUME [Next]_vars
    PROVE  UNCHANGED ledgerVars \/ \E p \in Procs : Commit(p)
BY NextCases
   DEF PrepareSolution, UploadModFile, ManualBuild, RefundFileService, DeleteFileService,
       ChatMessage, ProgressFileService, Accept, CloseFileService, RenameUpload,
       UpdateCustomerCredit, UpdateAdminCredit, PostInformation, NotifyFromBuild,
       WriteFile, MarkRefunded, MarkInProgress, BuildProgress, BuildMatched,
       BuildUnmatched, Fail, Finish, FileProcessStart, FileProcessEnd, QueueBuild,
       OnFailed, BuildStart, Crash, vars

\* What a transaction moves when it commits: both debits of a charge, the
\* customer's alone for a file of the super admin, the credit of a refund, or
\* nothing.
LEMMA CommitDebits ==
    ASSUME NEW p \in Procs, pc[p] = "commit", ChargeLocks(p)
    PROVE  /\ DebitedAdmin(p) => DebitedCustomer(p)
           /\ DebitedCustomer(p) => op[p] \in ChargeOps /\ (DebitedAdmin(p) \/ SuperFile(p))
           /\ Credited(p) => op[p] = "refund" /\ ~DebitedAdmin(p) /\ ~HasFile(p)
<1> USE DEF DebitedCustomer, DebitedAdmin, Credited, HasCustomer, HasAdmin
<1>1. CASE op[p] = "refund"
  BY <1>1 DEF ChargeLocks, ChargeOps
<1>2. CASE op[p] = "upload"
  BY <1>2 DEF ChargeLocks, ChargeOps
<1>3. CASE op[p] \in ChargeOps \ {"upload"}
  BY <1>3 DEF ChargeLocks, ChargeOps
<1>4. CASE op[p] \notin ChargeOps \cup {"refund"}
  BY <1>4 DEF ChargeLocks, ChargeOps
<1>q. QED BY <1>1, <1>2, <1>3, <1>4

\* Whatever handlers run at once, fail or are cut off by a restart, a file of
\* an ordinary portal is charged to its customer as often as to its portal.
THEOREM PairedAlways == Spec => []ChargesPaired
<1>1. Init => ChargesPaired
  BY DEF Init, ChargesPaired
<1>2. TypeOK /\ LockInv /\ ChargesPaired /\ [Next]_vars => ChargesPaired'
  <2> SUFFICES ASSUME TypeOK, LockInv, ChargesPaired, [Next]_vars
               PROVE  ChargesPaired'
    OBVIOUS
  <2>1. CASE UNCHANGED ledgerVars
    BY <2>1 DEF ChargesPaired, ledgerVars
  <2>2. ASSUME NEW p \in Procs, Commit(p) PROVE ChargesPaired'
    <3>1. target[p] \in Files /\ ChargeLocks(p) /\ pc[p] = "commit"
      BY <2>2 DEF Commit, TypeOK, ProcTypeOK, LockInv
    <3>2. ~SuperFile(p) => (DebitedCustomer(p) <=> DebitedAdmin(p))
      BY <3>1, CommitDebits
    <3>q. QED
      BY <2>2, <3>1, <3>2
      DEF Commit, ChargesPaired, SuperFile, TypeOK, LedgerTypeOK
  <2>q. QED BY <2>1, <2>2, LedgerFrame
<1>q. QED BY <1>1, <1>2, TypeCorrect, LocksCorrect, PTL DEF Spec

-----------------------------------------------------------------------------
(* What the handlers hold and write back, and the committed documents. *)

LEMMA ExistsInit == Init => ExistsInv
BY DEF Init, ExistsInv, UploadInv, TargetInv, PreparingInv, Preparing, PrepareOps


LEMMA ExistsNext == TypeOK /\ LockInv /\ ExistsInv /\ [Next]_vars => ExistsInv'
<1> SUFFICES ASSUME TypeOK, LockInv, ExistsInv, [Next]_vars PROVE ExistsInv'
  OBVIOUS
<1>a. /\ TypeOK /\ UploadInv /\ TargetInv /\ PreparingInv /\ LocksDisjoint
      /\ \A p \in Procs : Route(p) /\ ChargeLocks(p)
  BY DEF ExistsInv, LockInv
<1>1. ASSUME NEW p \in Procs, NEW f \in Files, NEW o \in PrepareOps, PrepareSolution(p, f, o)
      PROVE  ExistsInv'
  <2>0. locks[p] = {} /\ locks' = locks
    BY <1>a, <1>1 DEF PrepareSolution, Accept, Take, ChargeLocks, TxPoints, txVars
  <2>1. UploadInv'
    BY <1>a, <1>1
       DEF PrepareSolution, Accept, Take, UploadInv, TargetInv, dbVars, jobVars, procVars,
           txVars, TypeOK, DbTypeOK, JobTypeOK, ProcTypeOK, TxTypeOK, Route, BuildOps,
           PrepareOps
  <2>2. TargetInv'
    BY <1>a, <1>1, <2>0
       DEF PrepareSolution, Accept, Take, UploadInv, TargetInv, PreparingInv, Preparing,
           HasFile, Route, dbVars, jobVars, procVars, txVars, TypeOK, DbTypeOK, JobTypeOK,
           ProcTypeOK, TxTypeOK, PrepareOps, BuildOps, TxPoints
  <2>3. PreparingInv'
    BY <1>a, <1>1
       DEF PrepareSolution, Accept, Take, UploadInv, TargetInv, PreparingInv, Preparing,
           Route, dbVars, jobVars, procVars, txVars, TypeOK, DbTypeOK, JobTypeOK,
           ProcTypeOK, TxTypeOK, PrepareOps, BuildOps, TxPoints
  <2>q. QED
    BY <2>1, <2>2, <2>3 DEF ExistsInv
<1>2. ASSUME NEW p \in Procs, NEW f \in Files, UploadModFile(p, f)
      PROVE  ExistsInv'
  <2>1. UploadInv'
    BY <1>a, <1>2
       DEF UploadModFile, Accept, Take, UploadInv, TargetInv, dbVars, jobVars, procVars,
           txVars, TypeOK, DbTypeOK, JobTypeOK, ProcTypeOK, TxTypeOK, Route, BuildOps,
           PrepareOps
  <2>2. TargetInv'
    BY <1>a, <1>2
       DEF UploadModFile, Accept, Take, UploadInv, TargetInv, PreparingInv, Preparing,
           HasFile, Route, dbVars, jobVars, procVars, txVars, TypeOK, DbTypeOK, JobTypeOK,
           ProcTypeOK, TxTypeOK, PrepareOps, BuildOps, TxPoints
  <2>3. PreparingInv'
    BY <1>a, <1>2
       DEF UploadModFile, Accept, Take, UploadInv, TargetInv, PreparingInv, Preparing,
           Route, dbVars, jobVars, procVars, txVars, TypeOK, DbTypeOK, JobTypeOK,
           ProcTypeOK, TxTypeOK, PrepareOps, BuildOps, TxPoints
  <2>q. QED
    BY <2>1, <2>2, <2>3 DEF ExistsInv
<1>3. ASSUME NEW p \in Procs, NEW f \in Files, ManualBuild(p, f)
      PROVE  ExistsInv'
  <2>1. UploadInv'
    BY <1>a, <1>3
       DEF ManualBuild, Accept, Take, UploadInv, TargetInv, dbVars, jobVars, procVars,
           txVars, TypeOK, DbTypeOK, JobTypeOK, ProcTypeOK, TxTypeOK, Route, BuildOps,
           PrepareOps
  <2>2. TargetInv'
    BY <1>a, <1>3
       DEF ManualBuild, Accept, Take, UploadInv, TargetInv, PreparingInv, Preparing,
           HasFile, Route, dbVars, jobVars, procVars, txVars, TypeOK, DbTypeOK, JobTypeOK,
           ProcTypeOK, TxTypeOK, PrepareOps, BuildOps, TxPoints
  <2>3. PreparingInv'
    BY <1>a, <1>3
       DEF ManualBuild, Accept, Take, UploadInv, TargetInv, PreparingInv, Preparing, Route,
           dbVars, jobVars, procVars, txVars, TypeOK, DbTypeOK, JobTypeOK, ProcTypeOK,
           TxTypeOK, PrepareOps, BuildOps, TxPoints
  <2>q. QED
    BY <2>1, <2>2, <2>3 DEF ExistsInv
<1>4. ASSUME NEW p \in Procs, NEW f \in Files, RefundFileService(p, f)
      PROVE  ExistsInv'
  <2>1. UploadInv'
    BY <1>a, <1>4
       DEF RefundFileService, Accept, Take, UploadInv, TargetInv, dbVars, jobVars, procVars,
           txVars, TypeOK, DbTypeOK, JobTypeOK, ProcTypeOK, TxTypeOK, Route, BuildOps,
           PrepareOps
  <2>2. TargetInv'
    BY <1>a, <1>4
       DEF RefundFileService, Accept, Take, UploadInv, TargetInv, PreparingInv, Preparing,
           HasFile, Route, dbVars, jobVars, procVars, txVars, TypeOK, DbTypeOK, JobTypeOK,
           ProcTypeOK, TxTypeOK, PrepareOps, BuildOps, TxPoints
  <2>3. PreparingInv'
    BY <1>a, <1>4
       DEF RefundFileService, Accept, Take, UploadInv, TargetInv, PreparingInv, Preparing,
           Route, dbVars, jobVars, procVars, txVars, TypeOK, DbTypeOK, JobTypeOK,
           ProcTypeOK, TxTypeOK, PrepareOps, BuildOps, TxPoints
  <2>q. QED
    BY <2>1, <2>2, <2>3 DEF ExistsInv
<1>5. ASSUME NEW p \in Procs, NEW f \in Files, DeleteFileService(p, f)
      PROVE  ExistsInv'
  <2>1. UploadInv'
    BY <1>a, <1>5
       DEF DeleteFileService, Accept, Take, UploadInv, TargetInv, dbVars, jobVars, procVars,
           txVars, TypeOK, DbTypeOK, JobTypeOK, ProcTypeOK, TxTypeOK, Route, BuildOps,
           PrepareOps
  <2>2. TargetInv'
    BY <1>a, <1>5
       DEF DeleteFileService, Accept, Take, UploadInv, TargetInv, PreparingInv, Preparing,
           HasFile, Route, dbVars, jobVars, procVars, txVars, TypeOK, DbTypeOK, JobTypeOK,
           ProcTypeOK, TxTypeOK, PrepareOps, BuildOps, TxPoints
  <2>3. PreparingInv'
    BY <1>a, <1>5
       DEF DeleteFileService, Accept, Take, UploadInv, TargetInv, PreparingInv, Preparing,
           Route, dbVars, jobVars, procVars, txVars, TypeOK, DbTypeOK, JobTypeOK,
           ProcTypeOK, TxTypeOK, PrepareOps, BuildOps, TxPoints
  <2>q. QED
    BY <2>1, <2>2, <2>3 DEF ExistsInv
<1>6. ASSUME NEW p \in Procs, NEW f \in Files, ChatMessage(p, f)
      PROVE  ExistsInv'
  <2>1. UploadInv'
    BY <1>a, <1>6
       DEF ChatMessage, SessionRead, Accept, Take, UploadInv, TargetInv, dbVars, jobVars,
           procVars, txVars, TypeOK, DbTypeOK, JobTypeOK, ProcTypeOK, TxTypeOK, Route,
           BuildOps, PrepareOps
  <2>2. TargetInv'
    BY <1>a, <1>6
       DEF ChatMessage, SessionRead, Accept, Take, UploadInv, TargetInv, PreparingInv,
           Preparing, HasFile, Route, dbVars, jobVars, procVars, txVars, TypeOK, DbTypeOK,
           JobTypeOK, ProcTypeOK, TxTypeOK, PrepareOps, BuildOps, TxPoints
  <2>3. PreparingInv'
    BY <1>a, <1>6
       DEF ChatMessage, SessionRead, Accept, Take, UploadInv, TargetInv, PreparingInv,
           Preparing, Route, dbVars, jobVars, procVars, txVars, TypeOK, DbTypeOK, JobTypeOK,
           ProcTypeOK, TxTypeOK, PrepareOps, BuildOps, TxPoints
  <2>q. QED
    BY <2>1, <2>2, <2>3 DEF ExistsInv
<1>7. ASSUME NEW p \in Procs, NEW f \in Files, ProgressFileService(p, f)
      PROVE  ExistsInv'
  <2>1. UploadInv'
    BY <1>a, <1>7
       DEF ProgressFileService, Accept, Take, UploadInv, TargetInv, dbVars, jobVars,
           procVars, txVars, TypeOK, DbTypeOK, JobTypeOK, ProcTypeOK, TxTypeOK, Route,
           BuildOps, PrepareOps
  <2>2. TargetInv'
    BY <1>a, <1>7
       DEF ProgressFileService, Accept, Take, UploadInv, TargetInv, PreparingInv, Preparing,
           HasFile, Route, dbVars, jobVars, procVars, txVars, TypeOK, DbTypeOK, JobTypeOK,
           ProcTypeOK, TxTypeOK, PrepareOps, BuildOps, TxPoints
  <2>3. PreparingInv'
    BY <1>a, <1>7
       DEF ProgressFileService, Accept, Take, UploadInv, TargetInv, PreparingInv, Preparing,
           Route, dbVars, jobVars, procVars, txVars, TypeOK, DbTypeOK, JobTypeOK,
           ProcTypeOK, TxTypeOK, PrepareOps, BuildOps, TxPoints
  <2>q. QED
    BY <2>1, <2>2, <2>3 DEF ExistsInv
<1>8. ASSUME NEW f \in Files, CloseFileService(f)
      PROVE  ExistsInv'
  <2>1. UploadInv'
    BY <1>a, <1>8
       DEF CloseFileService, PlainWrite, UploadInv, TargetInv, dbVars, jobVars, procVars,
           txVars, TypeOK, DbTypeOK, JobTypeOK, ProcTypeOK, TxTypeOK, Route, BuildOps,
           PrepareOps
  <2>2. TargetInv'
    BY <1>a, <1>8
       DEF CloseFileService, PlainWrite, UploadInv, TargetInv, PreparingInv, Preparing,
           HasFile, Route, dbVars, jobVars, procVars, txVars, TypeOK, DbTypeOK, JobTypeOK,
           ProcTypeOK, TxTypeOK, PrepareOps, BuildOps, TxPoints
  <2>3. PreparingInv'
    BY <1>a, <1>8
       DEF CloseFileService, PlainWrite, UploadInv, TargetInv, PreparingInv, Preparing,
           Route, dbVars, jobVars, procVars, txVars, TypeOK, DbTypeOK, JobTypeOK,
           ProcTypeOK, TxTypeOK, PrepareOps, BuildOps, TxPoints
  <2>q. QED
    BY <2>1, <2>2, <2>3 DEF ExistsInv
<1>9. ASSUME NEW p \in Procs, RenameUpload(p)
      PROVE  ExistsInv'
  <2>1. UploadInv'
    BY <1>a, <1>9
       DEF RenameUpload, Goto, After, UploadInv, TargetInv, dbVars, jobVars, procVars,
           txVars, TypeOK, DbTypeOK, JobTypeOK, ProcTypeOK, TxTypeOK, Route, BuildOps,
           PrepareOps
  <2>2. TargetInv'
    BY <1>a, <1>9
       DEF RenameUpload, Goto, After, UploadInv, TargetInv, PreparingInv, Preparing,
           HasFile, Route, dbVars, jobVars, procVars, txVars, TypeOK, DbTypeOK, JobTypeOK,
           ProcTypeOK, TxTypeOK, PrepareOps, BuildOps, TxPoints
  <2>3. PreparingInv'
    BY <1>a, <1>9
       DEF RenameUpload, Goto, After, UploadInv, TargetInv, PreparingInv, Preparing, Route,
           dbVars, jobVars, procVars, txVars, TypeOK, DbTypeOK, JobTypeOK, ProcTypeOK,
           TxTypeOK, PrepareOps, BuildOps, TxPoints
  <2>q. QED
    BY <2>1, <2>2, <2>3 DEF ExistsInv
<1>10. ASSUME NEW p \in Procs, UpdateCustomerCredit(p)
      PROVE  ExistsInv'
  <2>0. HasFile(p)' => HasFile(p)
    BY <1>a, <1>10, FilesAndAccounts
       DEF UpdateCustomerCredit, SessionWrite, Goto, After, HasFile, txVars, TypeOK,
           ProcTypeOK, TxTypeOK, Docs
  <2>1. UploadInv'
    BY <1>a, <1>10
       DEF UpdateCustomerCredit, SessionWrite, Goto, After, UploadInv, TargetInv, dbVars,
           jobVars, procVars, txVars, TypeOK, DbTypeOK, JobTypeOK, ProcTypeOK, TxTypeOK,
           Route, BuildOps, PrepareOps
  <2>2. TargetInv'
    BY <1>a, <1>10, <2>0
       DEF UpdateCustomerCredit, SessionWrite, Goto, After, UploadInv, TargetInv,
           PreparingInv, Preparing, HasFile, Route, dbVars, jobVars, procVars, txVars,
           TypeOK, DbTypeOK, JobTypeOK, ProcTypeOK, TxTypeOK, PrepareOps, BuildOps, TxPoints
  <2>3. PreparingInv'
    BY <1>a, <1>10
       DEF UpdateCustomerCredit, SessionWrite, Goto, After, UploadInv, TargetInv,
           PreparingInv, Preparing, Route, dbVars, jobVars, procVars, txVars, TypeOK,
           DbTypeOK, JobTypeOK, ProcTypeOK, TxTypeOK, PrepareOps, BuildOps, TxPoints
  <2>q. QED
    BY <2>1, <2>2, <2>3 DEF ExistsInv
<1>11. ASSUME NEW p \in Procs, UpdateAdminCredit(p)
      PROVE  ExistsInv'
  <2>0. HasFile(p)' => HasFile(p)
    BY <1>a, <1>11, FilesAndAccounts
       DEF UpdateAdminCredit, SessionWrite, Goto, After, HasFile, txVars, TypeOK,
           ProcTypeOK, TxTypeOK, Docs
  <2>1. UploadInv'
    BY <1>a, <1>11
       DEF UpdateAdminCredit, SessionWrite, Goto, After, UploadInv, TargetInv, dbVars,
           jobVars, procVars, txVars, TypeOK, DbTypeOK, JobTypeOK, ProcTypeOK, TxTypeOK,
           Route, BuildOps, PrepareOps
  <2>2. TargetInv'
    BY <1>a, <1>11, <2>0
       DEF UpdateAdminCredit, SessionWrite, Goto, After, UploadInv, TargetInv, PreparingInv,
           Preparing, HasFile, Route, dbVars, jobVars, procVars, txVars, TypeOK, DbTypeOK,
           JobTypeOK, ProcTypeOK, TxTypeOK, PrepareOps, BuildOps, TxPoints
  <2>3. PreparingInv'
    BY <1>a, <1>11
       DEF UpdateAdminCredit, SessionWrite, Goto, After, UploadInv, TargetInv, PreparingInv,
           Preparing, Route, dbVars, jobVars, procVars, txVars, TypeOK, DbTypeOK, JobTypeOK,
           ProcTypeOK, TxTypeOK, PrepareOps, BuildOps, TxPoints
  <2>q. QED
    BY <2>1, <2>2, <2>3 DEF ExistsInv
<1>12. ASSUME NEW p \in Procs, PostInformation(p)
      PROVE  ExistsInv'
  <2>1. UploadInv'
    BY <1>a, <1>12
       DEF PostInformation, SessionWrite, Goto, After, UploadInv, TargetInv, dbVars,
           jobVars, procVars, txVars, TypeOK, DbTypeOK, JobTypeOK, ProcTypeOK, TxTypeOK,
           Route, BuildOps, PrepareOps
  <2>2. TargetInv'
    BY <1>a, <1>12
       DEF PostInformation, SessionWrite, Goto, After, UploadInv, TargetInv, PreparingInv,
           Preparing, HasFile, Route, dbVars, jobVars, procVars, txVars, TypeOK, DbTypeOK,
           JobTypeOK, ProcTypeOK, TxTypeOK, PrepareOps, BuildOps, TxPoints
  <2>3. PreparingInv'
    BY <1>a, <1>12
       DEF PostInformation, SessionWrite, Goto, After, UploadInv, TargetInv, PreparingInv,
           Preparing, Route, dbVars, jobVars, procVars, txVars, TypeOK, DbTypeOK, JobTypeOK,
           ProcTypeOK, TxTypeOK, PrepareOps, BuildOps, TxPoints
  <2>q. QED
    BY <2>1, <2>2, <2>3 DEF ExistsInv
<1>13. ASSUME NEW p \in Procs, NotifyFromBuild(p)
      PROVE  ExistsInv'
  <2>1. UploadInv'
    BY <1>a, <1>13
       DEF NotifyFromBuild, Goto, After, UploadInv, TargetInv, dbVars, jobVars, procVars,
           txVars, TypeOK, DbTypeOK, JobTypeOK, ProcTypeOK, TxTypeOK, Route, BuildOps,
           PrepareOps
  <2>2. TargetInv'
    BY <1>a, <1>13
       DEF NotifyFromBuild, Goto, After, UploadInv, TargetInv, PreparingInv, Preparing,
           HasFile, Route, dbVars, jobVars, procVars, txVars, TypeOK, DbTypeOK, JobTypeOK,
           ProcTypeOK, TxTypeOK, PrepareOps, BuildOps, TxPoints
  <2>3. PreparingInv'
    BY <1>a, <1>13
       DEF NotifyFromBuild, Goto, After, UploadInv, TargetInv, PreparingInv, Preparing,
           Route, dbVars, jobVars, procVars, txVars, TypeOK, DbTypeOK, JobTypeOK,
           ProcTypeOK, TxTypeOK, PrepareOps, BuildOps, TxPoints
  <2>q. QED
    BY <2>1, <2>2, <2>3 DEF ExistsInv
<1>14. ASSUME NEW p \in Procs, WriteFile(p)
      PROVE  ExistsInv'
  <2>1. UploadInv'
    BY <1>a, <1>14
       DEF WriteFile, SessionWrite, Removed, After, UploadInv, TargetInv, dbVars, jobVars,
           procVars, txVars, TypeOK, DbTypeOK, JobTypeOK, ProcTypeOK, TxTypeOK, Route,
           BuildOps, PrepareOps
  <2>2. TargetInv'
    BY <1>a, <1>14
       DEF WriteFile, SessionWrite, Removed, After, UploadInv, TargetInv, PreparingInv,
           Preparing, HasFile, Route, dbVars, jobVars, procVars, txVars, TypeOK, DbTypeOK,
           JobTypeOK, ProcTypeOK, TxTypeOK, PrepareOps, BuildOps, TxPoints
  <2>3. PreparingInv'
    BY <1>a, <1>14
       DEF WriteFile, SessionWrite, Removed, After, UploadInv, TargetInv, PreparingInv,
           Preparing, Route, dbVars, jobVars, procVars, txVars, TypeOK, DbTypeOK, JobTypeOK,
           ProcTypeOK, TxTypeOK, PrepareOps, BuildOps, TxPoints
  <2>q. QED
    BY <2>1, <2>2, <2>3 DEF ExistsInv
<1>15. ASSUME NEW p \in Procs, MarkRefunded(p)
      PROVE  ExistsInv'
  <2>1. UploadInv'
    BY <1>a, <1>15
       DEF MarkRefunded, PlainWrite, Goto, After, UploadInv, TargetInv, dbVars, jobVars,
           procVars, txVars, TypeOK, DbTypeOK, JobTypeOK, ProcTypeOK, TxTypeOK, Route,
           BuildOps, PrepareOps
  <2>2. TargetInv'
    BY <1>a, <1>15
       DEF MarkRefunded, PlainWrite, Goto, After, UploadInv, TargetInv, PreparingInv,
           Preparing, HasFile, Route, dbVars, jobVars, procVars, txVars, TypeOK, DbTypeOK,
           JobTypeOK, ProcTypeOK, TxTypeOK, PrepareOps, BuildOps, TxPoints
  <2>3. PreparingInv'
    BY <1>a, <1>15
       DEF MarkRefunded, PlainWrite, Goto, After, UploadInv, TargetInv, PreparingInv,
           Preparing, Route, dbVars, jobVars, procVars, txVars, TypeOK, DbTypeOK, JobTypeOK,
           ProcTypeOK, TxTypeOK, PrepareOps, BuildOps, TxPoints
  <2>q. QED
    BY <2>1, <2>2, <2>3 DEF ExistsInv
<1>16. ASSUME NEW p \in Procs, MarkInProgress(p)
      PROVE  ExistsInv'
  <2>1. UploadInv'
    BY <1>a, <1>16
       DEF MarkInProgress, PlainWrite, Goto, UploadInv, TargetInv, dbVars, jobVars,
           procVars, txVars, TypeOK, DbTypeOK, JobTypeOK, ProcTypeOK, TxTypeOK, Route,
           BuildOps, PrepareOps
  <2>2. TargetInv'
    BY <1>a, <1>16
       DEF MarkInProgress, PlainWrite, Goto, UploadInv, TargetInv, PreparingInv, Preparing,
           HasFile, Route, dbVars, jobVars, procVars, txVars, TypeOK, DbTypeOK, JobTypeOK,
           ProcTypeOK, TxTypeOK, PrepareOps, BuildOps, TxPoints
  <2>3. PreparingInv'
    BY <1>a, <1>16
       DEF MarkInProgress, PlainWrite, Goto, UploadInv, TargetInv, PreparingInv, Preparing,
           Route, dbVars, jobVars, procVars, txVars, TypeOK, DbTypeOK, JobTypeOK,
           ProcTypeOK, TxTypeOK, PrepareOps, BuildOps, TxPoints
  <2>q. QED
    BY <2>1, <2>2, <2>3 DEF ExistsInv
<1>17. ASSUME NEW p \in Procs, BuildProgress(p)
      PROVE  ExistsInv'
  <2>1. UploadInv'
    BY <1>a, <1>17
       DEF BuildProgress, SetWinols, PlainWrite, Goto, UploadInv, TargetInv, dbVars,
           jobVars, procVars, txVars, TypeOK, DbTypeOK, JobTypeOK, ProcTypeOK, TxTypeOK,
           Route, BuildOps, PrepareOps
  <2>2. TargetInv'
    BY <1>a, <1>17
       DEF BuildProgress, SetWinols, PlainWrite, Goto, UploadInv, TargetInv, PreparingInv,
           Preparing, HasFile, Route, dbVars, jobVars, procVars, txVars, TypeOK, DbTypeOK,
           JobTypeOK, ProcTypeOK, TxTypeOK, PrepareOps, BuildOps, TxPoints
  <2>3. PreparingInv'
    BY <1>a, <1>17
       DEF BuildProgress, SetWinols, PlainWrite, Goto, UploadInv, TargetInv, PreparingInv,
           Preparing, Route, dbVars, jobVars, procVars, txVars, TypeOK, DbTypeOK, JobTypeOK,
           ProcTypeOK, TxTypeOK, PrepareOps, BuildOps, TxPoints
  <2>q. QED
    BY <2>1, <2>2, <2>3 DEF ExistsInv
<1>18. ASSUME NEW p \in Procs, BuildMatched(p)
      PROVE  ExistsInv'
  <2>1. UploadInv'
    BY <1>a, <1>18
       DEF BuildMatched, Goto, UploadInv, TargetInv, dbVars, jobVars, procVars, txVars,
           TypeOK, DbTypeOK, JobTypeOK, ProcTypeOK, TxTypeOK, Route, BuildOps, PrepareOps
  <2>2. TargetInv'
    BY <1>a, <1>18
       DEF BuildMatched, Goto, UploadInv, TargetInv, PreparingInv, Preparing, HasFile,
           Route, dbVars, jobVars, procVars, txVars, TypeOK, DbTypeOK, JobTypeOK,
           ProcTypeOK, TxTypeOK, PrepareOps, BuildOps, TxPoints
  <2>3. PreparingInv'
    BY <1>a, <1>18
       DEF BuildMatched, Goto, UploadInv, TargetInv, PreparingInv, Preparing, Route, dbVars,
           jobVars, procVars, txVars, TypeOK, DbTypeOK, JobTypeOK, ProcTypeOK, TxTypeOK,
           PrepareOps, BuildOps, TxPoints
  <2>q. QED
    BY <2>1, <2>2, <2>3 DEF ExistsInv
<1>19. ASSUME NEW p \in Procs, BuildUnmatched(p)
      PROVE  ExistsInv'
  <2>1. UploadInv'
    BY <1>a, <1>19
       DEF BuildUnmatched, UploadInv, TargetInv, dbVars, jobVars, procVars, txVars, TypeOK,
           DbTypeOK, JobTypeOK, ProcTypeOK, TxTypeOK, Route, BuildOps, PrepareOps
  <2>2. TargetInv'
    BY <1>a, <1>19
       DEF BuildUnmatched, UploadInv, TargetInv, PreparingInv, Preparing, HasFile, Route,
           dbVars, jobVars, procVars, txVars, TypeOK, DbTypeOK, JobTypeOK, ProcTypeOK,
           TxTypeOK, PrepareOps, BuildOps, TxPoints
  <2>3. PreparingInv'
    BY <1>a, <1>19
       DEF BuildUnmatched, UploadInv, TargetInv, PreparingInv, Preparing, Route, dbVars,
           jobVars, procVars, txVars, TypeOK, DbTypeOK, JobTypeOK, ProcTypeOK, TxTypeOK,
           PrepareOps, BuildOps, TxPoints
  <2>q. QED
    BY <2>1, <2>2, <2>3 DEF ExistsInv
<1>20. ASSUME NEW p \in Procs, Commit(p)
      PROVE  ExistsInv'
  <2> DEFINE f == target[p]
  <2>1. /\ pc[p] = "commit" /\ f \in Files
        /\ \A g \in Files \ {f} : exists'[g] = exists[g] /\ doc'[g] = doc[g]
        /\ IF HasFile(p) THEN exists'[f] \in {"present", "deleted"}
           ELSE exists'[f] = exists[f] /\ doc'[f] = doc[f]
        /\ UNCHANGED <<tempDir, job>>
    BY <1>a, <1>20 DEF Commit, HasFile, TypeOK, DbTypeOK, ProcTypeOK, jobVars
  <2>2. /\ op[p] \in PrepareOps => HasFile(p) /\ f \notin tempDir
        /\ op[p] \notin PrepareOps => exists[f] # "absent"
    BY <1>a, <2>1 DEF TargetInv, PreparingInv, Preparing, TxPoints
  <2>3. exists'[f] # "absent" /\ f \notin tempDir
    BY <1>a, <2>1, <2>2 DEF UploadInv
  <2>4. UploadInv'
    BY <1>a, <2>1, <2>3 DEF UploadInv
  <2>5. /\ pc'[p] \in {"idle", "after"} /\ (pc'[p] = "after" => target'[p] = f)
        /\ locks'[p] = {}
        /\ \A q \in Procs \ {p} : /\ pc'[q] = pc[q] /\ op'[q] = op[q]
                                 /\ target'[q] = target[q] /\ locks'[q] = locks[q]
    BY <1>a, <1>20, AfterCommit DEF Commit, TxCommit, Goto, TypeOK, ProcTypeOK, TxTypeOK
  <2>6. \A q \in Procs \ {p} : HasFile(p) => f \notin locks[q]
    BY <1>a DEF LocksDisjoint, HasFile
  <2>7. TargetInv'
    <3>1. ASSUME NEW q \in Procs, pc'[q] # "idle", op'[q] \notin PrepareOps \/ pc'[q] = "after"
          PROVE  exists'[target'[q]] # "absent"
      BY <1>a, <2>1, <2>3, <2>5, <3>1 DEF TargetInv, TypeOK, ProcTypeOK
    <3>2. ASSUME NEW q \in Procs, pc'[q] # "idle", target'[q] \in locks'[q]
          PROVE  exists'[target'[q]] # "deleted"
      <4>1. q # p /\ pc[q] # "idle" /\ HasFile(q) /\ target[q] \in Files
        BY <1>a, <2>5, <3>2 DEF HasFile, TypeOK, ProcTypeOK
      <4>q. QED
        BY <1>a, <2>1, <2>5, <2>6, <4>1 DEF TargetInv, HasFile
    <3>3. ASSUME NEW q \in Procs, op'[q] \in PrepareOps, pc'[q] = "commit"
          PROVE  target'[q] \in locks'[q]
      BY <1>a, <2>5, <3>3 DEF TargetInv, HasFile
    <3>q. QED BY <3>1, <3>2, <3>3 DEF TargetInv, HasFile
  <2>8. PreparingInv'
    <3>1. \A q \in Procs, g \in Files : Preparing(q, g)' => q # p /\ Preparing(q, g)
      BY <2>5 DEF Preparing, TxPoints
    <3>2. \A q \in Procs \ {p} : ~Preparing(q, f)
      BY <1>a, <2>1, <2>2 DEF PreparingInv, Preparing, TxPoints
    <3>q. QED
      BY <1>a, <2>1, <3>1, <3>2 DEF PreparingInv
  <2>q. QED BY <2>4, <2>7, <2>8 DEF ExistsInv
<1>21. ASSUME NEW p \in Procs, Fail(p)
      PROVE  ExistsInv'
  <2>1. UploadInv'
    BY <1>a, <1>21
       DEF Fail, TxAbort, Goto, UploadInv, TargetInv, dbVars, jobVars, procVars, txVars,
           TypeOK, DbTypeOK, JobTypeOK, ProcTypeOK, TxTypeOK, Route, BuildOps, PrepareOps
  <2>2. TargetInv'
    BY <1>a, <1>21
       DEF Fail, TxAbort, Goto, UploadInv, TargetInv, PreparingInv, Preparing, HasFile,
           Route, dbVars, jobVars, procVars, txVars, TypeOK, DbTypeOK, JobTypeOK,
           ProcTypeOK, TxTypeOK, PrepareOps, BuildOps, TxPoints
  <2>3. PreparingInv'
    BY <1>a, <1>21
       DEF Fail, TxAbort, Goto, UploadInv, TargetInv, PreparingInv, Preparing, Route,
           dbVars, jobVars, procVars, txVars, TypeOK, DbTypeOK, JobTypeOK, ProcTypeOK,
           TxTypeOK, PrepareOps, BuildOps, TxPoints
  <2>q. QED
    BY <2>1, <2>2, <2>3 DEF ExistsInv
<1>22. ASSUME NEW p \in Procs, Finish(p)
      PROVE  ExistsInv'
  <2>1. UploadInv'
    BY <1>a, <1>22
       DEF Finish, Goto, UploadInv, TargetInv, dbVars, jobVars, procVars, txVars, TypeOK,
           DbTypeOK, JobTypeOK, ProcTypeOK, TxTypeOK, Route, BuildOps, PrepareOps
  <2>2. TargetInv'
    BY <1>a, <1>22
       DEF Finish, Goto, UploadInv, TargetInv, PreparingInv, Preparing, HasFile, Route,
           dbVars, jobVars, procVars, txVars, TypeOK, DbTypeOK, JobTypeOK, ProcTypeOK,
           TxTypeOK, PrepareOps, BuildOps, TxPoints
  <2>3. PreparingInv'
    BY <1>a, <1>22
       DEF Finish, Goto, UploadInv, TargetInv, PreparingInv, Preparing, Route, dbVars,
           jobVars, procVars, txVars, TypeOK, DbTypeOK, JobTypeOK, ProcTypeOK, TxTypeOK,
           PrepareOps, BuildOps, TxPoints
  <2>q. QED
    BY <2>1, <2>2, <2>3 DEF ExistsInv
<1>23. ASSUME NEW f \in Files, FileProcessStart(f)
      PROVE  ExistsInv'
  <2>1. UploadInv'
    BY <1>a, <1>23
       DEF FileProcessStart, SetWinols, PlainWrite, UploadInv, TargetInv, dbVars, jobVars,
           procVars, txVars, TypeOK, DbTypeOK, JobTypeOK, ProcTypeOK, TxTypeOK, Route,
           BuildOps, PrepareOps
  <2>2. TargetInv'
    BY <1>a, <1>23
       DEF FileProcessStart, SetWinols, PlainWrite, UploadInv, TargetInv, PreparingInv,
           Preparing, HasFile, Route, dbVars, jobVars, procVars, txVars, TypeOK, DbTypeOK,
           JobTypeOK, ProcTypeOK, TxTypeOK, PrepareOps, BuildOps, TxPoints
  <2>3. PreparingInv'
    BY <1>a, <1>23
       DEF FileProcessStart, SetWinols, PlainWrite, UploadInv, TargetInv, PreparingInv,
           Preparing, Route, dbVars, jobVars, procVars, txVars, TypeOK, DbTypeOK, JobTypeOK,
           ProcTypeOK, TxTypeOK, PrepareOps, BuildOps, TxPoints
  <2>q. QED
    BY <2>1, <2>2, <2>3 DEF ExistsInv
<1>24. ASSUME NEW f \in Files, FileProcessEnd(f)
      PROVE  ExistsInv'
  <2>1. UploadInv'
    BY <1>a, <1>24
       DEF FileProcessEnd, UploadInv, TargetInv, dbVars, jobVars, procVars, txVars, TypeOK,
           DbTypeOK, JobTypeOK, ProcTypeOK, TxTypeOK, Route, BuildOps, PrepareOps
  <2>2. TargetInv'
    BY <1>a, <1>24
       DEF FileProcessEnd, UploadInv, TargetInv, PreparingInv, Preparing, HasFile, Route,
           dbVars, jobVars, procVars, txVars, TypeOK, DbTypeOK, JobTypeOK, ProcTypeOK,
           TxTypeOK, PrepareOps, BuildOps, TxPoints
  <2>3. PreparingInv'
    BY <1>a, <1>24
       DEF FileProcessEnd, UploadInv, TargetInv, PreparingInv, Preparing, Route, dbVars,
           jobVars, procVars, txVars, TypeOK, DbTypeOK, JobTypeOK, ProcTypeOK, TxTypeOK,
           PrepareOps, BuildOps, TxPoints
  <2>q. QED
    BY <2>1, <2>2, <2>3 DEF ExistsInv
<1>25. ASSUME NEW f \in Files, QueueBuild(f)
      PROVE  ExistsInv'
  <2>1. UploadInv'
    BY <1>a, <1>25
       DEF QueueBuild, UploadInv, TargetInv, dbVars, jobVars, procVars, txVars, TypeOK,
           DbTypeOK, JobTypeOK, ProcTypeOK, TxTypeOK, Route, BuildOps, PrepareOps
  <2>2. TargetInv'
    BY <1>a, <1>25
       DEF QueueBuild, UploadInv, TargetInv, PreparingInv, Preparing, HasFile, Route,
           dbVars, jobVars, procVars, txVars, TypeOK, DbTypeOK, JobTypeOK, ProcTypeOK,
           TxTypeOK, PrepareOps, BuildOps, TxPoints
  <2>3. PreparingInv'
    BY <1>a, <1>25
       DEF QueueBuild, UploadInv, TargetInv, PreparingInv, Preparing, Route, dbVars,
           jobVars, procVars, txVars, TypeOK, DbTypeOK, JobTypeOK, ProcTypeOK, TxTypeOK,
           PrepareOps, BuildOps, TxPoints
  <2>q. QED
    BY <2>1, <2>2, <2>3 DEF ExistsInv
<1>26. ASSUME NEW f \in Files, OnFailed(f)
      PROVE  ExistsInv'
  <2>1. UploadInv'
    BY <1>a, <1>26
       DEF OnFailed, SetWinols, PlainWrite, UploadInv, TargetInv, dbVars, jobVars, procVars,
           txVars, TypeOK, DbTypeOK, JobTypeOK, ProcTypeOK, TxTypeOK, Route, BuildOps,
           PrepareOps
  <2>2. TargetInv'
    BY <1>a, <1>26
       DEF OnFailed, SetWinols, PlainWrite, UploadInv, TargetInv, PreparingInv, Preparing,
           HasFile, Route, dbVars, jobVars, procVars, txVars, TypeOK, DbTypeOK, JobTypeOK,
           ProcTypeOK, TxTypeOK, PrepareOps, BuildOps, TxPoints
  <2>3. PreparingInv'
    BY <1>a, <1>26
       DEF OnFailed, SetWinols, PlainWrite, UploadInv, TargetInv, PreparingInv, Preparing,
           Route, dbVars, jobVars, procVars, txVars, TypeOK, DbTypeOK, JobTypeOK,
           ProcTypeOK, TxTypeOK, PrepareOps, BuildOps, TxPoints
  <2>q. QED
    BY <2>1, <2>2, <2>3 DEF ExistsInv
<1>27. ASSUME NEW p \in Procs, NEW f \in Files, BuildStart(p, f)
      PROVE  ExistsInv'
  <2>0. locks[p] = {} /\ locks' = locks
    BY <1>a, <1>27 DEF BuildStart, Take, ChargeLocks, TxPoints, txVars
  <2>1. UploadInv'
    BY <1>a, <1>27
       DEF BuildStart, Take, UploadInv, TargetInv, dbVars, jobVars, procVars, txVars,
           TypeOK, DbTypeOK, JobTypeOK, ProcTypeOK, TxTypeOK, Route, BuildOps, PrepareOps
  <2>2. TargetInv'
    BY <1>a, <1>27, <2>0
       DEF BuildStart, Take, UploadInv, TargetInv, PreparingInv, Preparing, HasFile, Route,
           dbVars, jobVars, procVars, txVars, TypeOK, DbTypeOK, JobTypeOK, ProcTypeOK,
           TxTypeOK, PrepareOps, BuildOps, TxPoints
  <2>3. PreparingInv'
    BY <1>a, <1>27
       DEF BuildStart, Take, UploadInv, TargetInv, PreparingInv, Preparing, Route, dbVars,
           jobVars, procVars, txVars, TypeOK, DbTypeOK, JobTypeOK, ProcTypeOK, TxTypeOK,
           PrepareOps, BuildOps, TxPoints
  <2>q. QED
    BY <2>1, <2>2, <2>3 DEF ExistsInv
<1>28. CASE Crash
  <2>1. UploadInv'
    BY <1>a, <1>28
       DEF Crash, TxCrash, UploadInv, TargetInv, dbVars, jobVars, procVars, txVars, TypeOK,
           DbTypeOK, JobTypeOK, ProcTypeOK, TxTypeOK, Route, BuildOps, PrepareOps
  <2>2. TargetInv'
    BY <1>a, <1>28
       DEF Crash, TxCrash, UploadInv, TargetInv, PreparingInv, Preparing, HasFile, Route,
           dbVars, jobVars, procVars, txVars, TypeOK, DbTypeOK, JobTypeOK, ProcTypeOK,
           TxTypeOK, PrepareOps, BuildOps, TxPoints
  <2>3. PreparingInv'
    BY <1>a, <1>28
       DEF Crash, TxCrash, UploadInv, TargetInv, PreparingInv, Preparing, Route, dbVars,
           jobVars, procVars, txVars, TypeOK, DbTypeOK, JobTypeOK, ProcTypeOK, TxTypeOK,
           PrepareOps, BuildOps, TxPoints
  <2>q. QED
    BY <2>1, <2>2, <2>3 DEF ExistsInv
<1>29. CASE UNCHANGED vars
  <2>1. UploadInv'
    BY <1>a, <1>29
       DEF vars, UploadInv, TargetInv, dbVars, jobVars, procVars, txVars, TypeOK, DbTypeOK,
           JobTypeOK, ProcTypeOK, TxTypeOK, Route, BuildOps, PrepareOps
  <2>2. TargetInv'
    BY <1>a, <1>29
       DEF vars, UploadInv, TargetInv, PreparingInv, Preparing, HasFile, Route, dbVars,
           jobVars, procVars, txVars, TypeOK, DbTypeOK, JobTypeOK, ProcTypeOK, TxTypeOK,
           PrepareOps, BuildOps, TxPoints
  <2>3. PreparingInv'
    BY <1>a, <1>29
       DEF vars, UploadInv, TargetInv, PreparingInv, Preparing, Route, dbVars, jobVars,
           procVars, txVars, TypeOK, DbTypeOK, JobTypeOK, ProcTypeOK, TxTypeOK, PrepareOps,
           BuildOps, TxPoints
  <2>q. QED
    BY <2>1, <2>2, <2>3 DEF ExistsInv
<1>q. QED BY NextCases, <1>1, <1>2, <1>3, <1>4, <1>5, <1>6, <1>7, <1>8, <1>9, <1>10, <1>11,
     <1>12, <1>13, <1>14, <1>15, <1>16, <1>17, <1>18, <1>19, <1>20, <1>21, <1>22,
     <1>23, <1>24, <1>25, <1>26, <1>27, <1>28, <1>29

\* The handlers' reasoning about the existence of their file is right: an
\* upload is prepared by the one handler that renamed its directory, and a
\* locked file is not removed.
THEOREM ExistsCorrect == Spec => []ExistsInv
BY TypeCorrect, LocksCorrect, ExistsInit, ExistsNext, PTL DEF Spec

\* Two requests to prepare one upload never both get past the rename.
THEOREM PreparedOnceAlways == Spec => []PreparedOnce
<1>1. ExistsInv => PreparedOnce
  BY DEF ExistsInv, PreparingInv, Preparing, PreparedOnce
<1>q. QED BY <1>1, ExistsCorrect, PTL

\* Files come and go by commits only.
LEMMA ExistsFrame ==
    ASSUME [Next]_vars
    PROVE  UNCHANGED exists \/ \E p \in Procs : Commit(p)
BY NextCases
   DEF PrepareSolution, UploadModFile, ManualBuild, RefundFileService, DeleteFileService,
       ChatMessage, ProgressFileService, Accept, CloseFileService, RenameUpload,
       UpdateCustomerCredit, UpdateAdminCredit, PostInformation, NotifyFromBuild,
       WriteFile, MarkRefunded, MarkInProgress, BuildProgress, BuildMatched,
       BuildUnmatched, Fail, Finish, FileProcessStart, FileProcessEnd, QueueBuild,
       OnFailed, BuildStart, Crash, SetWinols, vars, dbVars

\* No handler that still holds a removed file brings it back.
THEOREM RemovedAlways == Spec => RemovedForGood
<1>1. TypeOK /\ ExistsInv /\ [Next]_vars =>
        [\A f \in Files : exists[f] = "deleted" => exists'[f] = "deleted"]_vars
  <2> SUFFICES ASSUME TypeOK, ExistsInv, [Next]_vars, NEW f \in Files, exists[f] = "deleted"
               PROVE  exists'[f] = "deleted"
    OBVIOUS
  <2>1. ASSUME NEW p \in Procs, Commit(p) PROVE exists'[f] = "deleted"
    <3>1. pc[p] = "commit" /\ (HasFile(p) => exists[target[p]] # "deleted")
      BY <2>1 DEF Commit, ExistsInv, TargetInv
    <3>q. QED
      BY <2>1, <3>1 DEF Commit, HasFile, TypeOK, DbTypeOK
  <2>q. QED BY <2>1, ExistsFrame
<1>q. QED BY <1>1, TypeCorrect, ExistsCorrect, PTL DEF Spec, RemovedForGood

-----------------------------------------------------------------------------
(* What handlers hold and write. *)

LEMMA DocInit == Init => DocInv
<1> SUFFICES ASSUME Init PROVE DocInv
  OBVIOUS
<1>1. SettledInv
  BY DEF Init, SettledInv, RequestedDoc
<1>2. \A p \in Procs : HeldDoc(p) /\ Written(p)
  BY DEF Init, HeldDoc, Written, RequestedDoc, PrepareOps
<1>q. QED BY <1>1, <1>2 DEF DocInv

\* The frame of a step of one handler.
LEMMA DocFrame ==
    ASSUME DocInv, TypeOK, NEW p \in Procs,
           \A q \in Procs \ {p} :
              /\ pc'[q] = pc[q] /\ op'[q] = op[q] /\ target'[q] = target[q]
              /\ loc'[q] = loc[q] /\ locks'[q] = locks[q]
              /\ pc[q] # "idle" /\ HasFile(q) => doc'[target[q]].pay = doc[target[q]].pay,
           \A f \in Files : /\ charges[f] > 0 => charges'[f] > 0
                            /\ doc[f].pay # "UNPAID" => doc'[f].pay # "UNPAID",
           HeldDoc(p)', Written(p)', SettledInv'
    PROVE  DocInv'
<1> SUFFICES ASSUME NEW q \in Procs \ {p} PROVE HeldDoc(q)' /\ Written(q)'
  BY DEF DocInv
<1>1. HeldDoc(q) /\ Written(q) /\ (pc[q] # "idle" => target[q] \in Files)
  BY DEF DocInv, TypeOK, ProcTypeOK
<1>2. HeldDoc(q)'
  BY <1>1 DEF HeldDoc, HasCustomer
<1>3. Written(q)'
  BY <1>1 DEF Written, HasFile, HasCustomer
<1>q. QED BY <1>2, <1>3

LEMMA AfterFile == ASSUME NEW o PROVE After(o, "file") = "commit"
BY DEF After

\* What the document p writes has to do with the one it held.
WriteFacts(p) ==
    LET f == target[p] d == WrittenDoc(p) IN
    /\ op[p] \in PrepareOps => d = loc[p]
    /\ d.mod => d.pay # "UNPAID"
    /\ op[p] \in ChargeOps => d.pay # "UNPAID"
    /\ op[p] \in CopyOps => d.pay = doc[f].pay
    /\ d.winols = "OK" => d.mod
    /\ d.pay = "PAID" \/ d.winols = "OK" => charges[f] > 0 \/ HasCustomer(p)

LEMMA WriteFileFacts ==
    ASSUME TypeOK, NEW p \in Procs, target[p] \in Files, pc[p] = "file", op[p] # "refund",
           HeldDoc(p), Route(p), ChargeLocks(p), SettledInv
    PROVE  WriteFacts(p)
<1> DEFINE f == target[p]
<1>1. /\ loc[p] \in FileDoc /\ doc[f] \in FileDoc /\ charges[f] \in Nat
      /\ op[p] \in Ops \ {"none", "progress", "refund"}
  BY DEF TypeOK, DbTypeOK, ProcTypeOK, LedgerTypeOK, Route
<1>2. /\ loc[p].mod => loc[p].pay # "UNPAID"
      /\ doc[f].pay = "PAID" => charges[f] > 0
      /\ doc[f].mod => doc[f].pay # "UNPAID"
      /\ doc[f].winols = "OK" => doc[f].mod /\ charges[f] > 0
      /\ op[p] \notin PrepareOps =>
            /\ loc[p].pay # "UNPAID" => doc[f].pay # "UNPAID"
            /\ loc[p].pay = "PAID" \/ loc[p].winols = "OK" => charges[f] > 0
      /\ op[p] \in ChargeOps => HasCustomer(p) \/ (op[p] = "manual" /\ loc[p].pay # "UNPAID")
  BY DEF HeldDoc, SettledInv
<1>3. CASE op[p] = "upload"
  BY <1>1, <1>2, <1>3
  DEF WriteFacts, WrittenDoc, UploadedDoc, FileDoc, PrepareOps, ChargeOps, CopyOps
<1>4. CASE op[p] = "manual"
  BY <1>1, <1>2, <1>4
  DEF WriteFacts, WrittenDoc, ManualDoc, BuiltDoc, FileDoc, PrepareOps, ChargeOps, CopyOps
<1>5. CASE op[p] = "build"
  BY <1>1, <1>2, <1>5
  DEF WriteFacts, WrittenDoc, PipelineDoc, BuiltDoc, FileDoc, PrepareOps, ChargeOps, CopyOps
<1>6. CASE op[p] \in CopyOps
  BY <1>1, <1>2, <1>6
  DEF WriteFacts, WrittenDoc, PartialDoc, FileDoc, PrepareOps, ChargeOps, CopyOps
<1>7. CASE op[p] \in PrepareOps
  <2>1. WrittenDoc(p) = loc[p]
    BY <1>7 DEF WrittenDoc, PrepareOps
  <2>2. loc[p] = RequestedDoc \/ (loc[p] = AutomaticDoc /\ op[p] = "prepareAuto")
    BY <1>7 DEF HeldDoc, PrepareOps
  <2>q. QED
    BY <1>2, <1>7, <2>1, <2>2
    DEF WriteFacts, HeldDoc, RequestedDoc, AutomaticDoc, PrepareOps, ChargeOps, CopyOps
<1>q. QED
  BY <1>1, <1>3, <1>4, <1>5, <1>6, <1>7 DEF Ops, PrepareOps, BuildOps, CopyOps

LEMMA DocNext == TypeOK /\ LockInv /\ ExistsInv /\ DocInv /\ [Next]_vars => DocInv'
<1> SUFFICES ASSUME TypeOK, LockInv, ExistsInv, DocInv, [Next]_vars PROVE DocInv'
  OBVIOUS
<1>a. TypeOK /\ LockInv /\ ExistsInv /\ DocInv
  OBVIOUS
<1>1. ASSUME NEW p \in Procs, NEW f \in Files, NEW o \in PrepareOps, PrepareSolution(p, f, o)
      PROVE  DocInv'
  <2>1. HeldDoc(p) /\ Written(p) /\ Route(p) /\ ChargeLocks(p) /\ SettledInv
    BY <1>a DEF DocInv, LockInv
  <2>2. \A q \in Procs \ {p} :
           /\ pc'[q] = pc[q] /\ op'[q] = op[q] /\ target'[q] = target[q]
           /\ loc'[q] = loc[q] /\ locks'[q] = locks[q]
           /\ pc[q] # "idle" /\ HasFile(q) => doc'[target[q]].pay = doc[target[q]].pay
    BY <1>a, <1>1
       DEF PrepareSolution, Accept, Take, HasFile, Free, LockInv, LocksDisjoint, TypeOK,
           DbTypeOK, ProcTypeOK, TxTypeOK, LedgerTypeOK, dbVars, procVars, txVars,
           ledgerVars, FileDoc
  <2>3. \A g \in Files : /\ charges[g] > 0 => charges'[g] > 0
                         /\ doc[g].pay # "UNPAID" => doc'[g].pay # "UNPAID"
    BY <1>a, <1>1, <2>1
       DEF PrepareSolution, Accept, Take, TypeOK, DbTypeOK, ProcTypeOK, TxTypeOK,
           LedgerTypeOK, dbVars, procVars, txVars, ledgerVars, FileDoc
  <2>4. HeldDoc(p)'
    BY <1>a, <1>1, <2>1, <2>3
       DEF PrepareSolution, Accept, Take, HeldDoc, Route, ChargeLocks, HasCustomer, HasFile,
           SettledInv, RequestedDoc, AutomaticDoc, ChargeOps, PrepareOps, BuildOps,
           TxPoints, TypeOK, DbTypeOK, ProcTypeOK, TxTypeOK, LedgerTypeOK, dbVars, procVars,
           txVars, ledgerVars, FileDoc
  <2>5. Written(p)'
    BY <1>a, <1>1, <2>1, <2>3
       DEF PrepareSolution, Accept, Take, Written, HeldDoc, Route, ChargeLocks, HasCustomer,
           HasFile, TypeOK, DbTypeOK, ProcTypeOK, TxTypeOK, LedgerTypeOK, dbVars, procVars,
           txVars, ledgerVars
  <2>6. SettledInv'
    BY <1>a, <1>1, <2>1, <2>3
       DEF PrepareSolution, Accept, Take, SettledInv, TypeOK, DbTypeOK, ProcTypeOK,
           TxTypeOK, LedgerTypeOK, dbVars, procVars, txVars, ledgerVars, FileDoc
  <2>q. QED
    BY <1>a, <2>2, <2>3, <2>4, <2>5, <2>6, DocFrame
<1>2. ASSUME NEW p \in Procs, NEW f \in Files, UploadModFile(p, f)
      PROVE  DocInv'
  <2>1. HeldDoc(p) /\ Written(p) /\ Route(p) /\ ChargeLocks(p) /\ SettledInv
    BY <1>a DEF DocInv, LockInv
  <2>2. \A q \in Procs \ {p} :
           /\ pc'[q] = pc[q] /\ op'[q] = op[q] /\ target'[q] = target[q]
           /\ loc'[q] = loc[q] /\ locks'[q] = locks[q]
           /\ pc[q] # "idle" /\ HasFile(q) => doc'[target[q]].pay = doc[target[q]].pay
    BY <1>a, <1>2
       DEF UploadModFile, Accept, Take, HasFile, Free, LockInv, LocksDisjoint, TypeOK,
           DbTypeOK, ProcTypeOK, TxTypeOK, LedgerTypeOK, dbVars, procVars, txVars,
           ledgerVars, FileDoc
  <2>3. \A g \in Files : /\ charges[g] > 0 => charges'[g] > 0
                         /\ doc[g].pay # "UNPAID" => doc'[g].pay # "UNPAID"
    BY <1>a, <1>2, <2>1
       DEF UploadModFile, Accept, Take, TypeOK, DbTypeOK, ProcTypeOK, TxTypeOK,
           LedgerTypeOK, dbVars, procVars, txVars, ledgerVars, FileDoc
  <2>4. HeldDoc(p)'
    BY <1>a, <1>2, <2>1, <2>3
       DEF UploadModFile, Accept, Take, HeldDoc, Route, ChargeLocks, HasCustomer, HasFile,
           SettledInv, RequestedDoc, AutomaticDoc, ChargeOps, PrepareOps, BuildOps,
           TxPoints, TypeOK, DbTypeOK, ProcTypeOK, TxTypeOK, LedgerTypeOK, dbVars, procVars,
           txVars, ledgerVars, FileDoc
  <2>5. Written(p)'
    BY <1>a, <1>2, <2>1, <2>3
       DEF UploadModFile, Accept, Take, Written, HeldDoc, Route, ChargeLocks, HasCustomer,
           HasFile, TypeOK, DbTypeOK, ProcTypeOK, TxTypeOK, LedgerTypeOK, dbVars, procVars,
           txVars, ledgerVars
  <2>6. SettledInv'
    BY <1>a, <1>2, <2>1, <2>3
       DEF UploadModFile, Accept, Take, SettledInv, TypeOK, DbTypeOK, ProcTypeOK, TxTypeOK,
           LedgerTypeOK, dbVars, procVars, txVars, ledgerVars, FileDoc
  <2>q. QED
    BY <1>a, <2>2, <2>3, <2>4, <2>5, <2>6, DocFrame
<1>3. ASSUME NEW p \in Procs, NEW f \in Files, ManualBuild(p, f)
      PROVE  DocInv'
  <2>1. HeldDoc(p) /\ Written(p) /\ Route(p) /\ ChargeLocks(p) /\ SettledInv
    BY <1>a DEF DocInv, LockInv
  <2>2. \A q \in Procs \ {p} :
           /\ pc'[q] = pc[q] /\ op'[q] = op[q] /\ target'[q] = target[q]
           /\ loc'[q] = loc[q] /\ locks'[q] = locks[q]
           /\ pc[q] # "idle" /\ HasFile(q) => doc'[target[q]].pay = doc[target[q]].pay
    BY <1>a, <1>3
       DEF ManualBuild, Accept, Take, HasFile, Free, LockInv, LocksDisjoint, TypeOK,
           DbTypeOK, ProcTypeOK, TxTypeOK, LedgerTypeOK, dbVars, procVars, txVars,
           ledgerVars, FileDoc
  <2>3. \A g \in Files : /\ charges[g] > 0 => charges'[g] > 0
                         /\ doc[g].pay # "UNPAID" => doc'[g].pay # "UNPAID"
    BY <1>a, <1>3, <2>1
       DEF ManualBuild, Accept, Take, TypeOK, DbTypeOK, ProcTypeOK, TxTypeOK, LedgerTypeOK,
           dbVars, procVars, txVars, ledgerVars, FileDoc
  <2>4. HeldDoc(p)'
    BY <1>a, <1>3, <2>1, <2>3
       DEF ManualBuild, Accept, Take, HeldDoc, Route, ChargeLocks, HasCustomer, HasFile,
           SettledInv, RequestedDoc, AutomaticDoc, ChargeOps, PrepareOps, BuildOps,
           TxPoints, TypeOK, DbTypeOK, ProcTypeOK, TxTypeOK, LedgerTypeOK, dbVars, procVars,
           txVars, ledgerVars, FileDoc
  <2>5. Written(p)'
    BY <1>a, <1>3, <2>1, <2>3
       DEF ManualBuild, Accept, Take, Written, HeldDoc, Route, ChargeLocks, HasCustomer,
           HasFile, TypeOK, DbTypeOK, ProcTypeOK, TxTypeOK, LedgerTypeOK, dbVars, procVars,
           txVars, ledgerVars
  <2>6. SettledInv'
    BY <1>a, <1>3, <2>1, <2>3
       DEF ManualBuild, Accept, Take, SettledInv, TypeOK, DbTypeOK, ProcTypeOK, TxTypeOK,
           LedgerTypeOK, dbVars, procVars, txVars, ledgerVars, FileDoc
  <2>q. QED
    BY <1>a, <2>2, <2>3, <2>4, <2>5, <2>6, DocFrame
<1>4. ASSUME NEW p \in Procs, NEW f \in Files, RefundFileService(p, f)
      PROVE  DocInv'
  <2>1. HeldDoc(p) /\ Written(p) /\ Route(p) /\ ChargeLocks(p) /\ SettledInv
    BY <1>a DEF DocInv, LockInv
  <2>2. \A q \in Procs \ {p} :
           /\ pc'[q] = pc[q] /\ op'[q] = op[q] /\ target'[q] = target[q]
           /\ loc'[q] = loc[q] /\ locks'[q] = locks[q]
           /\ pc[q] # "idle" /\ HasFile(q) => doc'[target[q]].pay = doc[target[q]].pay
    BY <1>a, <1>4
       DEF RefundFileService, Accept, Take, HasFile, Free, LockInv, LocksDisjoint, TypeOK,
           DbTypeOK, ProcTypeOK, TxTypeOK, LedgerTypeOK, dbVars, procVars, txVars,
           ledgerVars, FileDoc
  <2>3. \A g \in Files : /\ charges[g] > 0 => charges'[g] > 0
                         /\ doc[g].pay # "UNPAID" => doc'[g].pay # "UNPAID"
    BY <1>a, <1>4, <2>1
       DEF RefundFileService, Accept, Take, TypeOK, DbTypeOK, ProcTypeOK, TxTypeOK,
           LedgerTypeOK, dbVars, procVars, txVars, ledgerVars, FileDoc
  <2>4. HeldDoc(p)'
    BY <1>a, <1>4, <2>1, <2>3
       DEF RefundFileService, Accept, Take, HeldDoc, Route, ChargeLocks, HasCustomer,
           HasFile, SettledInv, RequestedDoc, AutomaticDoc, ChargeOps, PrepareOps, BuildOps,
           TxPoints, TypeOK, DbTypeOK, ProcTypeOK, TxTypeOK, LedgerTypeOK, dbVars, procVars,
           txVars, ledgerVars, FileDoc
  <2>5. Written(p)'
    BY <1>a, <1>4, <2>1, <2>3
       DEF RefundFileService, Accept, Take, Written, HeldDoc, Route, ChargeLocks,
           HasCustomer, HasFile, TypeOK, DbTypeOK, ProcTypeOK, TxTypeOK, LedgerTypeOK,
           dbVars, procVars, txVars, ledgerVars
  <2>6. SettledInv'
    BY <1>a, <1>4, <2>1, <2>3
       DEF RefundFileService, Accept, Take, SettledInv, TypeOK, DbTypeOK, ProcTypeOK,
           TxTypeOK, LedgerTypeOK, dbVars, procVars, txVars, ledgerVars, FileDoc
  <2>q. QED
    BY <1>a, <2>2, <2>3, <2>4, <2>5, <2>6, DocFrame
<1>5. ASSUME NEW p \in Procs, NEW f \in Files, DeleteFileService(p, f)
      PROVE  DocInv'
  <2>1. HeldDoc(p) /\ Written(p) /\ Route(p) /\ ChargeLocks(p) /\ SettledInv
    BY <1>a DEF DocInv, LockInv
  <2>2. \A q \in Procs \ {p} :
           /\ pc'[q] = pc[q] /\ op'[q] = op[q] /\ target'[q] = target[q]
           /\ loc'[q] = loc[q] /\ locks'[q] = locks[q]
           /\ pc[q] # "idle" /\ HasFile(q) => doc'[target[q]].pay = doc[target[q]].pay
    BY <1>a, <1>5
       DEF DeleteFileService, Accept, Take, HasFile, Free, LockInv, LocksDisjoint, TypeOK,
           DbTypeOK, ProcTypeOK, TxTypeOK, LedgerTypeOK, dbVars, procVars, txVars,
           ledgerVars, FileDoc
  <2>3. \A g \in Files : /\ charges[g] > 0 => charges'[g] > 0
                         /\ doc[g].pay # "UNPAID" => doc'[g].pay # "UNPAID"
    BY <1>a, <1>5, <2>1
       DEF DeleteFileService, Accept, Take, TypeOK, DbTypeOK, ProcTypeOK, TxTypeOK,
           LedgerTypeOK, dbVars, procVars, txVars, ledgerVars, FileDoc
  <2>4. HeldDoc(p)'
    BY <1>a, <1>5, <2>1, <2>3
       DEF DeleteFileService, Accept, Take, HeldDoc, Route, ChargeLocks, HasCustomer,
           HasFile, SettledInv, RequestedDoc, AutomaticDoc, ChargeOps, PrepareOps, BuildOps,
           TxPoints, TypeOK, DbTypeOK, ProcTypeOK, TxTypeOK, LedgerTypeOK, dbVars, procVars,
           txVars, ledgerVars, FileDoc
  <2>5. Written(p)'
    BY <1>a, <1>5, <2>1, <2>3
       DEF DeleteFileService, Accept, Take, Written, HeldDoc, Route, ChargeLocks,
           HasCustomer, HasFile, TypeOK, DbTypeOK, ProcTypeOK, TxTypeOK, LedgerTypeOK,
           dbVars, procVars, txVars, ledgerVars
  <2>6. SettledInv'
    BY <1>a, <1>5, <2>1, <2>3
       DEF DeleteFileService, Accept, Take, SettledInv, TypeOK, DbTypeOK, ProcTypeOK,
           TxTypeOK, LedgerTypeOK, dbVars, procVars, txVars, ledgerVars, FileDoc
  <2>q. QED
    BY <1>a, <2>2, <2>3, <2>4, <2>5, <2>6, DocFrame
<1>6. ASSUME NEW p \in Procs, NEW f \in Files, ChatMessage(p, f)
      PROVE  DocInv'
  <2>1. HeldDoc(p) /\ Written(p) /\ Route(p) /\ ChargeLocks(p) /\ SettledInv
    BY <1>a DEF DocInv, LockInv
  <2>2. \A q \in Procs \ {p} :
           /\ pc'[q] = pc[q] /\ op'[q] = op[q] /\ target'[q] = target[q]
           /\ loc'[q] = loc[q] /\ locks'[q] = locks[q]
           /\ pc[q] # "idle" /\ HasFile(q) => doc'[target[q]].pay = doc[target[q]].pay
    BY <1>a, <1>6
       DEF ChatMessage, SessionRead, Accept, Take, HasFile, Free, LockInv, LocksDisjoint,
           TypeOK, DbTypeOK, ProcTypeOK, TxTypeOK, LedgerTypeOK, dbVars, procVars, txVars,
           ledgerVars, FileDoc
  <2>3. \A g \in Files : /\ charges[g] > 0 => charges'[g] > 0
                         /\ doc[g].pay # "UNPAID" => doc'[g].pay # "UNPAID"
    BY <1>a, <1>6, <2>1
       DEF ChatMessage, SessionRead, Accept, Take, TypeOK, DbTypeOK, ProcTypeOK, TxTypeOK,
           LedgerTypeOK, dbVars, procVars, txVars, ledgerVars, FileDoc
  <2>4. HeldDoc(p)'
    BY <1>a, <1>6, <2>1, <2>3
       DEF ChatMessage, SessionRead, Accept, Take, HeldDoc, Route, ChargeLocks, HasCustomer,
           HasFile, SettledInv, RequestedDoc, AutomaticDoc, ChargeOps, PrepareOps, BuildOps,
           TxPoints, TypeOK, DbTypeOK, ProcTypeOK, TxTypeOK, LedgerTypeOK, dbVars, procVars,
           txVars, ledgerVars, FileDoc
  <2>5. Written(p)'
    BY <1>a, <1>6, <2>1, <2>3
       DEF ChatMessage, SessionRead, Accept, Take, Written, HeldDoc, Route, ChargeLocks,
           HasCustomer, HasFile, TypeOK, DbTypeOK, ProcTypeOK, TxTypeOK, LedgerTypeOK,
           dbVars, procVars, txVars, ledgerVars
  <2>6. SettledInv'
    BY <1>a, <1>6, <2>1, <2>3
       DEF ChatMessage, SessionRead, Accept, Take, SettledInv, TypeOK, DbTypeOK, ProcTypeOK,
           TxTypeOK, LedgerTypeOK, dbVars, procVars, txVars, ledgerVars, FileDoc
  <2>q. QED
    BY <1>a, <2>2, <2>3, <2>4, <2>5, <2>6, DocFrame
<1>7. ASSUME NEW p \in Procs, NEW f \in Files, ProgressFileService(p, f)
      PROVE  DocInv'
  <2>1. HeldDoc(p) /\ Written(p) /\ Route(p) /\ ChargeLocks(p) /\ SettledInv
    BY <1>a DEF DocInv, LockInv
  <2>2. \A q \in Procs \ {p} :
           /\ pc'[q] = pc[q] /\ op'[q] = op[q] /\ target'[q] = target[q]
           /\ loc'[q] = loc[q] /\ locks'[q] = locks[q]
           /\ pc[q] # "idle" /\ HasFile(q) => doc'[target[q]].pay = doc[target[q]].pay
    BY <1>a, <1>7
       DEF ProgressFileService, Accept, Take, HasFile, Free, LockInv, LocksDisjoint, TypeOK,
           DbTypeOK, ProcTypeOK, TxTypeOK, LedgerTypeOK, dbVars, procVars, txVars,
           ledgerVars, FileDoc
  <2>3. \A g \in Files : /\ charges[g] > 0 => charges'[g] > 0
                         /\ doc[g].pay # "UNPAID" => doc'[g].pay # "UNPAID"
    BY <1>a, <1>7, <2>1
       DEF ProgressFileService, Accept, Take, TypeOK, DbTypeOK, ProcTypeOK, TxTypeOK,
           LedgerTypeOK, dbVars, procVars, txVars, ledgerVars, FileDoc
  <2>4. HeldDoc(p)'
    BY <1>a, <1>7, <2>1, <2>3
       DEF ProgressFileService, Accept, Take, HeldDoc, Route, ChargeLocks, HasCustomer,
           HasFile, SettledInv, RequestedDoc, AutomaticDoc, ChargeOps, PrepareOps, BuildOps,
           TxPoints, TypeOK, DbTypeOK, ProcTypeOK, TxTypeOK, LedgerTypeOK, dbVars, procVars,
           txVars, ledgerVars, FileDoc
  <2>5. Written(p)'
    BY <1>a, <1>7, <2>1, <2>3
       DEF ProgressFileService, Accept, Take, Written, HeldDoc, Route, ChargeLocks,
           HasCustomer, HasFile, TypeOK, DbTypeOK, ProcTypeOK, TxTypeOK, LedgerTypeOK,
           dbVars, procVars, txVars, ledgerVars
  <2>6. SettledInv'
    BY <1>a, <1>7, <2>1, <2>3
       DEF ProgressFileService, Accept, Take, SettledInv, TypeOK, DbTypeOK, ProcTypeOK,
           TxTypeOK, LedgerTypeOK, dbVars, procVars, txVars, ledgerVars, FileDoc
  <2>q. QED
    BY <1>a, <2>2, <2>3, <2>4, <2>5, <2>6, DocFrame
<1>8. ASSUME NEW f \in Files, CloseFileService(f)
      PROVE  DocInv'
  <2>1. /\ UNCHANGED <<pc, op, target, loc, locks, charges>>
        /\ \A g \in Files :
              /\ doc'[g].pay = doc[g].pay
              /\ doc'[g].mod = doc[g].mod
              /\ doc'[g].winols = "OK" => doc[g].winols = "OK"
    BY <1>a, <1>8
       DEF CloseFileService, PlainWrite, procVars, txVars, ledgerVars, TypeOK, DbTypeOK,
           FileDoc
  <2>2. SettledInv'
    BY <1>a, <2>1 DEF DocInv, SettledInv
  <2>3. ASSUME NEW p \in Procs PROVE HeldDoc(p)' /\ Written(p)'
    <3>1. HeldDoc(p) /\ Written(p) /\ (pc[p] # "idle" => target[p] \in Files)
      BY <1>a DEF DocInv, TypeOK, ProcTypeOK
    <3>2. HeldDoc(p)'
      BY <2>1, <3>1 DEF HeldDoc, HasCustomer
    <3>3. Written(p)'
      BY <2>1, <3>1 DEF Written, HasFile, HasCustomer
    <3>q. QED BY <3>2, <3>3
  <2>q. QED
    BY <2>2, <2>3 DEF DocInv
<1>9. ASSUME NEW p \in Procs, RenameUpload(p)
      PROVE  DocInv'
  <2> DEFINE f == target[p]
  <2>1. HeldDoc(p) /\ Written(p) /\ Route(p) /\ ChargeLocks(p) /\ SettledInv
    BY <1>a DEF DocInv, LockInv
  <2>2. \A q \in Procs \ {p} :
           /\ pc'[q] = pc[q] /\ op'[q] = op[q] /\ target'[q] = target[q]
           /\ loc'[q] = loc[q] /\ locks'[q] = locks[q]
           /\ pc[q] # "idle" /\ HasFile(q) => doc'[target[q]].pay = doc[target[q]].pay
    BY <1>a, <1>9
       DEF RenameUpload, Goto, After, HasFile, Free, LockInv, LocksDisjoint, TypeOK,
           DbTypeOK, ProcTypeOK, TxTypeOK, LedgerTypeOK, dbVars, procVars, txVars,
           ledgerVars, FileDoc
  <2>3. \A g \in Files : /\ charges[g] > 0 => charges'[g] > 0
                         /\ doc[g].pay # "UNPAID" => doc'[g].pay # "UNPAID"
    BY <1>a, <1>9, <2>1
       DEF RenameUpload, Goto, After, TypeOK, DbTypeOK, ProcTypeOK, TxTypeOK, LedgerTypeOK,
           dbVars, procVars, txVars, ledgerVars, FileDoc
  <2>4. HeldDoc(p)'
    BY <1>a, <1>9, <2>1, <2>3
       DEF RenameUpload, Goto, After, HeldDoc, Route, ChargeLocks, HasCustomer, HasFile,
           SettledInv, RequestedDoc, AutomaticDoc, ChargeOps, PrepareOps, BuildOps,
           TxPoints, TypeOK, DbTypeOK, ProcTypeOK, TxTypeOK, LedgerTypeOK, dbVars, procVars,
           txVars, ledgerVars, FileDoc
  <2>5. Written(p)'
    BY <1>a, <1>9, <2>1, <2>3
       DEF RenameUpload, Goto, After, Written, HeldDoc, Route, ChargeLocks, HasCustomer,
           HasFile, TypeOK, DbTypeOK, ProcTypeOK, TxTypeOK, LedgerTypeOK, dbVars, procVars,
           txVars, ledgerVars
  <2>6. SettledInv'
    BY <1>a, <1>9, <2>1, <2>3
       DEF RenameUpload, Goto, After, SettledInv, TypeOK, DbTypeOK, ProcTypeOK, TxTypeOK,
           LedgerTypeOK, dbVars, procVars, txVars, ledgerVars, FileDoc
  <2>q. QED
    BY <1>a, <2>2, <2>3, <2>4, <2>5, <2>6, DocFrame
<1>10. ASSUME NEW p \in Procs, UpdateCustomerCredit(p)
      PROVE  DocInv'
  <2> DEFINE f == target[p]
  <2>1. HeldDoc(p) /\ Written(p) /\ Route(p) /\ ChargeLocks(p) /\ SettledInv
    BY <1>a DEF DocInv, LockInv
  <2>2. \A q \in Procs \ {p} :
           /\ pc'[q] = pc[q] /\ op'[q] = op[q] /\ target'[q] = target[q]
           /\ loc'[q] = loc[q] /\ locks'[q] = locks[q]
           /\ pc[q] # "idle" /\ HasFile(q) => doc'[target[q]].pay = doc[target[q]].pay
    BY <1>a, <1>10
       DEF UpdateCustomerCredit, SessionWrite, Goto, After, HasFile, Free, LockInv,
           LocksDisjoint, TypeOK, DbTypeOK, ProcTypeOK, TxTypeOK, LedgerTypeOK, dbVars,
           procVars, txVars, ledgerVars, FileDoc
  <2>3. \A g \in Files : /\ charges[g] > 0 => charges'[g] > 0
                         /\ doc[g].pay # "UNPAID" => doc'[g].pay # "UNPAID"
    BY <1>a, <1>10, <2>1
       DEF UpdateCustomerCredit, SessionWrite, Goto, After, TypeOK, DbTypeOK, ProcTypeOK,
           TxTypeOK, LedgerTypeOK, dbVars, procVars, txVars, ledgerVars, FileDoc
  <2>4. HeldDoc(p)'
    BY <1>a, <1>10, <2>1, <2>3
       DEF UpdateCustomerCredit, SessionWrite, Goto, After, HeldDoc, Route, ChargeLocks,
           HasCustomer, HasFile, SettledInv, RequestedDoc, AutomaticDoc, ChargeOps,
           PrepareOps, BuildOps, TxPoints, TypeOK, DbTypeOK, ProcTypeOK, TxTypeOK,
           LedgerTypeOK, dbVars, procVars, txVars, ledgerVars, FileDoc
  <2>5. Written(p)'
    BY <1>a, <1>10, <2>1, <2>3
       DEF UpdateCustomerCredit, SessionWrite, Goto, After, Written, HeldDoc, Route,
           ChargeLocks, HasCustomer, HasFile, TypeOK, DbTypeOK, ProcTypeOK, TxTypeOK,
           LedgerTypeOK, dbVars, procVars, txVars, ledgerVars
  <2>6. SettledInv'
    BY <1>a, <1>10, <2>1, <2>3
       DEF UpdateCustomerCredit, SessionWrite, Goto, After, SettledInv, TypeOK, DbTypeOK,
           ProcTypeOK, TxTypeOK, LedgerTypeOK, dbVars, procVars, txVars, ledgerVars, FileDoc
  <2>q. QED
    BY <1>a, <2>2, <2>3, <2>4, <2>5, <2>6, DocFrame
<1>11. ASSUME NEW p \in Procs, UpdateAdminCredit(p)
      PROVE  DocInv'
  <2> DEFINE f == target[p]
  <2>1. HeldDoc(p) /\ Written(p) /\ Route(p) /\ ChargeLocks(p) /\ SettledInv
    BY <1>a DEF DocInv, LockInv
  <2>2. \A q \in Procs \ {p} :
           /\ pc'[q] = pc[q] /\ op'[q] = op[q] /\ target'[q] = target[q]
           /\ loc'[q] = loc[q] /\ locks'[q] = locks[q]
           /\ pc[q] # "idle" /\ HasFile(q) => doc'[target[q]].pay = doc[target[q]].pay
    BY <1>a, <1>11
       DEF UpdateAdminCredit, SessionWrite, Goto, After, HasFile, Free, LockInv,
           LocksDisjoint, TypeOK, DbTypeOK, ProcTypeOK, TxTypeOK, LedgerTypeOK, dbVars,
           procVars, txVars, ledgerVars, FileDoc
  <2>3. \A g \in Files : /\ charges[g] > 0 => charges'[g] > 0
                         /\ doc[g].pay # "UNPAID" => doc'[g].pay # "UNPAID"
    BY <1>a, <1>11, <2>1
       DEF UpdateAdminCredit, SessionWrite, Goto, After, TypeOK, DbTypeOK, ProcTypeOK,
           TxTypeOK, LedgerTypeOK, dbVars, procVars, txVars, ledgerVars, FileDoc
  <2>4. HeldDoc(p)'
    BY <1>a, <1>11, <2>1, <2>3
       DEF UpdateAdminCredit, SessionWrite, Goto, After, HeldDoc, Route, ChargeLocks,
           HasCustomer, HasFile, SettledInv, RequestedDoc, AutomaticDoc, ChargeOps,
           PrepareOps, BuildOps, TxPoints, TypeOK, DbTypeOK, ProcTypeOK, TxTypeOK,
           LedgerTypeOK, dbVars, procVars, txVars, ledgerVars, FileDoc
  <2>5. Written(p)'
    BY <1>a, <1>11, <2>1, <2>3
       DEF UpdateAdminCredit, SessionWrite, Goto, After, Written, HeldDoc, Route,
           ChargeLocks, HasCustomer, HasFile, TypeOK, DbTypeOK, ProcTypeOK, TxTypeOK,
           LedgerTypeOK, dbVars, procVars, txVars, ledgerVars
  <2>6. SettledInv'
    BY <1>a, <1>11, <2>1, <2>3
       DEF UpdateAdminCredit, SessionWrite, Goto, After, SettledInv, TypeOK, DbTypeOK,
           ProcTypeOK, TxTypeOK, LedgerTypeOK, dbVars, procVars, txVars, ledgerVars, FileDoc
  <2>q. QED
    BY <1>a, <2>2, <2>3, <2>4, <2>5, <2>6, DocFrame
<1>12. ASSUME NEW p \in Procs, PostInformation(p)
      PROVE  DocInv'
  <2> DEFINE f == target[p]
  <2>1. HeldDoc(p) /\ Written(p) /\ Route(p) /\ ChargeLocks(p) /\ SettledInv
    BY <1>a DEF DocInv, LockInv
  <2>2. \A q \in Procs \ {p} :
           /\ pc'[q] = pc[q] /\ op'[q] = op[q] /\ target'[q] = target[q]
           /\ loc'[q] = loc[q] /\ locks'[q] = locks[q]
           /\ pc[q] # "idle" /\ HasFile(q) => doc'[target[q]].pay = doc[target[q]].pay
    BY <1>a, <1>12
       DEF PostInformation, SessionWrite, Goto, After, HasFile, Free, LockInv,
           LocksDisjoint, TypeOK, DbTypeOK, ProcTypeOK, TxTypeOK, LedgerTypeOK, dbVars,
           procVars, txVars, ledgerVars, FileDoc
  <2>3. \A g \in Files : /\ charges[g] > 0 => charges'[g] > 0
                         /\ doc[g].pay # "UNPAID" => doc'[g].pay # "UNPAID"
    BY <1>a, <1>12, <2>1
       DEF PostInformation, SessionWrite, Goto, After, TypeOK, DbTypeOK, ProcTypeOK,
           TxTypeOK, LedgerTypeOK, dbVars, procVars, txVars, ledgerVars, FileDoc
  <2>4. HeldDoc(p)'
    BY <1>a, <1>12, <2>1, <2>3
       DEF PostInformation, SessionWrite, Goto, After, HeldDoc, Route, ChargeLocks,
           HasCustomer, HasFile, SettledInv, RequestedDoc, AutomaticDoc, ChargeOps,
           PrepareOps, BuildOps, TxPoints, TypeOK, DbTypeOK, ProcTypeOK, TxTypeOK,
           LedgerTypeOK, dbVars, procVars, txVars, ledgerVars, FileDoc
  <2>5. Written(p)'
    BY <1>a, <1>12, <2>1, <2>3
       DEF PostInformation, SessionWrite, Goto, After, Written, HeldDoc, Route, ChargeLocks,
           HasCustomer, HasFile, TypeOK, DbTypeOK, ProcTypeOK, TxTypeOK, LedgerTypeOK,
           dbVars, procVars, txVars, ledgerVars
  <2>6. SettledInv'
    BY <1>a, <1>12, <2>1, <2>3
       DEF PostInformation, SessionWrite, Goto, After, SettledInv, TypeOK, DbTypeOK,
           ProcTypeOK, TxTypeOK, LedgerTypeOK, dbVars, procVars, txVars, ledgerVars, FileDoc
  <2>q. QED
    BY <1>a, <2>2, <2>3, <2>4, <2>5, <2>6, DocFrame
<1>13. ASSUME NEW p \in Procs, NotifyFromBuild(p)
      PROVE  DocInv'
  <2> DEFINE f == target[p]
  <2>1. HeldDoc(p) /\ Written(p) /\ Route(p) /\ ChargeLocks(p) /\ SettledInv
    BY <1>a DEF DocInv, LockInv
  <2>2. \A q \in Procs \ {p} :
           /\ pc'[q] = pc[q] /\ op'[q] = op[q] /\ target'[q] = target[q]
           /\ loc'[q] = loc[q] /\ locks'[q] = locks[q]
           /\ pc[q] # "idle" /\ HasFile(q) => doc'[target[q]].pay = doc[target[q]].pay
    BY <1>a, <1>13
       DEF NotifyFromBuild, Goto, After, HasFile, Free, LockInv, LocksDisjoint, TypeOK,
           DbTypeOK, ProcTypeOK, TxTypeOK, LedgerTypeOK, dbVars, procVars, txVars,
           ledgerVars, FileDoc
  <2>3. \A g \in Files : /\ charges[g] > 0 => charges'[g] > 0
                         /\ doc[g].pay # "UNPAID" => doc'[g].pay # "UNPAID"
    BY <1>a, <1>13, <2>1
       DEF NotifyFromBuild, Goto, After, TypeOK, DbTypeOK, ProcTypeOK, TxTypeOK,
           LedgerTypeOK, dbVars, procVars, txVars, ledgerVars, FileDoc
  <2>4. HeldDoc(p)'
    BY <1>a, <1>13, <2>1, <2>3
       DEF NotifyFromBuild, Goto, After, HeldDoc, Route, ChargeLocks, HasCustomer, HasFile,
           SettledInv, RequestedDoc, AutomaticDoc, ChargeOps, PrepareOps, BuildOps,
           TxPoints, TypeOK, DbTypeOK, ProcTypeOK, TxTypeOK, LedgerTypeOK, dbVars, procVars,
           txVars, ledgerVars, FileDoc
  <2>5. Written(p)'
    BY <1>a, <1>13, <2>1, <2>3
       DEF NotifyFromBuild, Goto, After, Written, HeldDoc, Route, ChargeLocks, HasCustomer,
           HasFile, TypeOK, DbTypeOK, ProcTypeOK, TxTypeOK, LedgerTypeOK, dbVars, procVars,
           txVars, ledgerVars
  <2>6. SettledInv'
    BY <1>a, <1>13, <2>1, <2>3
       DEF NotifyFromBuild, Goto, After, SettledInv, TypeOK, DbTypeOK, ProcTypeOK, TxTypeOK,
           LedgerTypeOK, dbVars, procVars, txVars, ledgerVars, FileDoc
  <2>q. QED
    BY <1>a, <2>2, <2>3, <2>4, <2>5, <2>6, DocFrame
<1>14. ASSUME NEW p \in Procs, WriteFile(p)
      PROVE  DocInv'
  <2> DEFINE f == target[p]
  <2>1. HeldDoc(p) /\ Written(p) /\ Route(p) /\ ChargeLocks(p) /\ SettledInv
    BY <1>a DEF DocInv, LockInv
  <2>2. \A q \in Procs \ {p} :
           /\ pc'[q] = pc[q] /\ op'[q] = op[q] /\ target'[q] = target[q]
           /\ loc'[q] = loc[q] /\ locks'[q] = locks[q]
           /\ pc[q] # "idle" /\ HasFile(q) => doc'[target[q]].pay = doc[target[q]].pay
    BY <1>a, <1>14
       DEF WriteFile, SessionWrite, Removed, After, HasFile, Free, LockInv, LocksDisjoint,
           TypeOK, DbTypeOK, ProcTypeOK, TxTypeOK, LedgerTypeOK, dbVars, procVars, txVars,
           ledgerVars, FileDoc
  <2>3. \A g \in Files : /\ charges[g] > 0 => charges'[g] > 0
                         /\ doc[g].pay # "UNPAID" => doc'[g].pay # "UNPAID"
    BY <1>a, <1>14, <2>1
       DEF WriteFile, SessionWrite, Removed, After, TypeOK, DbTypeOK, ProcTypeOK, TxTypeOK,
           LedgerTypeOK, dbVars, procVars, txVars, ledgerVars, FileDoc
  <2>4. pc'[p] = "commit" /\ op'[p] = op[p] /\ target'[p] = f /\ UNCHANGED <<doc, charges>>
    BY <1>a, <1>14, AfterFile
       DEF WriteFile, TypeOK, DbTypeOK, ProcTypeOK, TxTypeOK, LedgerTypeOK, dbVars,
           procVars, txVars, ledgerVars
  <2>6. SettledInv'
    BY <2>1, <2>4 DEF SettledInv
  <2>5. CASE Removed(p, f)
    <3>1. loc'[p] = loc[p] /\ locks' = locks
      BY <1>14, <2>5 DEF WriteFile, txVars
    <3>2. ~HasFile(p)
      BY <1>a, <1>14, <2>5 DEF WriteFile, Removed, ExistsInv, TargetInv
    <3>3. HeldDoc(p)'
      BY <2>1, <2>4, <3>1 DEF HeldDoc
    <3>4. Written(p)'
      BY <2>4, <3>1, <3>2 DEF Written, HasFile
    <3>q. QED BY <1>a, <2>2, <2>3, <3>3, <3>4, <2>6, DocFrame
  <2>7. CASE ~Removed(p, f)
    <3>1. loc'[p] = WrittenDoc(p) /\ locks'[p] = locks[p] \cup {f}
      BY <1>a, <1>14, <2>7 DEF WriteFile, SessionWrite, TypeOK, ProcTypeOK, TxTypeOK
    <3>2. f \in Files /\ op[p] # "refund" /\ HasCustomer(p)' = HasCustomer(p)
      BY <1>a, <1>14, <2>4, <3>1, FilesAndAccounts
         DEF WriteFile, HasCustomer, TypeOK, ProcTypeOK, Accounts
    <3>3. WriteFacts(p)
      BY <1>a, <1>14, <2>1, <3>2, WriteFileFacts DEF WriteFile
    <3>4. HeldDoc(p)'
      BY <2>1, <2>4, <3>1, <3>3 DEF WriteFacts, HeldDoc, PrepareOps
    <3>5. Written(p)'
      BY <2>4, <3>1, <3>2, <3>3 DEF WriteFacts, Written
    <3>q. QED BY <1>a, <2>2, <2>3, <3>4, <3>5, <2>6, DocFrame
  <2>q. QED
    BY <2>5, <2>7
<1>15. ASSUME NEW p \in Procs, MarkRefunded(p)
      PROVE  DocInv'
  <2> DEFINE f == target[p]
  <2>1. HeldDoc(p) /\ Written(p) /\ Route(p) /\ ChargeLocks(p) /\ SettledInv
    BY <1>a DEF DocInv, LockInv
  <2>2. \A q \in Procs \ {p} :
           /\ pc'[q] = pc[q] /\ op'[q] = op[q] /\ target'[q] = target[q]
           /\ loc'[q] = loc[q] /\ locks'[q] = locks[q]
           /\ pc[q] # "idle" /\ HasFile(q) => doc'[target[q]].pay = doc[target[q]].pay
    BY <1>a, <1>15
       DEF MarkRefunded, PlainWrite, Goto, After, HasFile, Free, LockInv, LocksDisjoint,
           TypeOK, DbTypeOK, ProcTypeOK, TxTypeOK, LedgerTypeOK, dbVars, procVars, txVars,
           ledgerVars, FileDoc
  <2>3. \A g \in Files : /\ charges[g] > 0 => charges'[g] > 0
                         /\ doc[g].pay # "UNPAID" => doc'[g].pay # "UNPAID"
    BY <1>a, <1>15, <2>1
       DEF MarkRefunded, PlainWrite, Goto, After, TypeOK, DbTypeOK, ProcTypeOK, TxTypeOK,
           LedgerTypeOK, dbVars, procVars, txVars, ledgerVars, FileDoc
  <2>4. HeldDoc(p)'
    BY <1>a, <1>15, <2>1, <2>3
       DEF MarkRefunded, PlainWrite, Goto, After, HeldDoc, Route, ChargeLocks, HasCustomer,
           HasFile, SettledInv, RequestedDoc, AutomaticDoc, ChargeOps, PrepareOps, BuildOps,
           TxPoints, TypeOK, DbTypeOK, ProcTypeOK, TxTypeOK, LedgerTypeOK, dbVars, procVars,
           txVars, ledgerVars, FileDoc
  <2>5. Written(p)'
    BY <1>a, <1>15, <2>1
       DEF MarkRefunded, PlainWrite, Goto, Written, ChargeLocks, HasFile, TypeOK,
           ProcTypeOK, ChargeOps
  <2>6. SettledInv'
    BY <1>a, <1>15, <2>1, <2>3
       DEF MarkRefunded, PlainWrite, Goto, After, SettledInv, TypeOK, DbTypeOK, ProcTypeOK,
           TxTypeOK, LedgerTypeOK, dbVars, procVars, txVars, ledgerVars, FileDoc
  <2>q. QED
    BY <1>a, <2>2, <2>3, <2>4, <2>5, <2>6, DocFrame
<1>16. ASSUME NEW p \in Procs, MarkInProgress(p)
      PROVE  DocInv'
  <2> DEFINE f == target[p]
  <2>1. HeldDoc(p) /\ Written(p) /\ Route(p) /\ ChargeLocks(p) /\ SettledInv
    BY <1>a DEF DocInv, LockInv
  <2>2. \A q \in Procs \ {p} :
           /\ pc'[q] = pc[q] /\ op'[q] = op[q] /\ target'[q] = target[q]
           /\ loc'[q] = loc[q] /\ locks'[q] = locks[q]
           /\ pc[q] # "idle" /\ HasFile(q) => doc'[target[q]].pay = doc[target[q]].pay
    BY <1>a, <1>16
       DEF MarkInProgress, PlainWrite, Goto, HasFile, Free, LockInv, LocksDisjoint, TypeOK,
           DbTypeOK, ProcTypeOK, TxTypeOK, LedgerTypeOK, dbVars, procVars, txVars,
           ledgerVars, FileDoc
  <2>3. \A g \in Files : /\ charges[g] > 0 => charges'[g] > 0
                         /\ doc[g].pay # "UNPAID" => doc'[g].pay # "UNPAID"
    BY <1>a, <1>16, <2>1
       DEF MarkInProgress, PlainWrite, Goto, TypeOK, DbTypeOK, ProcTypeOK, TxTypeOK,
           LedgerTypeOK, dbVars, procVars, txVars, ledgerVars, FileDoc
  <2>4. HeldDoc(p)'
    BY <1>a, <1>16, <2>1, <2>3
       DEF MarkInProgress, PlainWrite, Goto, HeldDoc, Route, ChargeLocks, HasCustomer,
           HasFile, SettledInv, RequestedDoc, AutomaticDoc, ChargeOps, PrepareOps, BuildOps,
           TxPoints, TypeOK, DbTypeOK, ProcTypeOK, TxTypeOK, LedgerTypeOK, dbVars, procVars,
           txVars, ledgerVars, FileDoc
  <2>5. Written(p)'
    BY <1>a, <1>16, <2>1, <2>3
       DEF MarkInProgress, PlainWrite, Goto, Written, HeldDoc, Route, ChargeLocks,
           HasCustomer, HasFile, TypeOK, DbTypeOK, ProcTypeOK, TxTypeOK, LedgerTypeOK,
           dbVars, procVars, txVars, ledgerVars
  <2>6. SettledInv'
    BY <1>a, <1>16, <2>1, <2>3
       DEF MarkInProgress, PlainWrite, Goto, SettledInv, TypeOK, DbTypeOK, ProcTypeOK,
           TxTypeOK, LedgerTypeOK, dbVars, procVars, txVars, ledgerVars, FileDoc
  <2>q. QED
    BY <1>a, <2>2, <2>3, <2>4, <2>5, <2>6, DocFrame
<1>17. ASSUME NEW p \in Procs, BuildProgress(p)
      PROVE  DocInv'
  <2> DEFINE f == target[p]
  <2>1. HeldDoc(p) /\ Written(p) /\ Route(p) /\ ChargeLocks(p) /\ SettledInv
    BY <1>a DEF DocInv, LockInv
  <2>2. \A q \in Procs \ {p} :
           /\ pc'[q] = pc[q] /\ op'[q] = op[q] /\ target'[q] = target[q]
           /\ loc'[q] = loc[q] /\ locks'[q] = locks[q]
           /\ pc[q] # "idle" /\ HasFile(q) => doc'[target[q]].pay = doc[target[q]].pay
    BY <1>a, <1>17
       DEF BuildProgress, SetWinols, PlainWrite, Goto, HasFile, Free, LockInv,
           LocksDisjoint, TypeOK, DbTypeOK, ProcTypeOK, TxTypeOK, LedgerTypeOK, dbVars,
           procVars, txVars, ledgerVars, FileDoc
  <2>3. \A g \in Files : /\ charges[g] > 0 => charges'[g] > 0
                         /\ doc[g].pay # "UNPAID" => doc'[g].pay # "UNPAID"
    BY <1>a, <1>17, <2>1
       DEF BuildProgress, SetWinols, PlainWrite, Goto, TypeOK, DbTypeOK, ProcTypeOK,
           TxTypeOK, LedgerTypeOK, dbVars, procVars, txVars, ledgerVars, FileDoc
  <2>4. HeldDoc(p)'
    BY <1>a, <1>17, <2>1, <2>3
       DEF BuildProgress, SetWinols, PlainWrite, Goto, HeldDoc, Route, ChargeLocks,
           HasCustomer, HasFile, SettledInv, RequestedDoc, AutomaticDoc, ChargeOps,
           PrepareOps, BuildOps, TxPoints, TypeOK, DbTypeOK, ProcTypeOK, TxTypeOK,
           LedgerTypeOK, dbVars, procVars, txVars, ledgerVars, FileDoc
  <2>5. Written(p)'
    BY <1>a, <1>17, <2>1, <2>3
       DEF BuildProgress, SetWinols, PlainWrite, Goto, Written, HeldDoc, Route, ChargeLocks,
           HasCustomer, HasFile, TypeOK, DbTypeOK, ProcTypeOK, TxTypeOK, LedgerTypeOK,
           dbVars, procVars, txVars, ledgerVars
  <2>6. SettledInv'
    BY <1>a, <1>17, <2>1, <2>3
       DEF BuildProgress, SetWinols, PlainWrite, Goto, SettledInv, TypeOK, DbTypeOK,
           ProcTypeOK, TxTypeOK, LedgerTypeOK, dbVars, procVars, txVars, ledgerVars, FileDoc
  <2>q. QED
    BY <1>a, <2>2, <2>3, <2>4, <2>5, <2>6, DocFrame
<1>18. ASSUME NEW p \in Procs, BuildMatched(p)
      PROVE  DocInv'
  <2> DEFINE f == target[p]
  <2>1. HeldDoc(p) /\ Written(p) /\ Route(p) /\ ChargeLocks(p) /\ SettledInv
    BY <1>a DEF DocInv, LockInv
  <2>2. \A q \in Procs \ {p} :
           /\ pc'[q] = pc[q] /\ op'[q] = op[q] /\ target'[q] = target[q]
           /\ loc'[q] = loc[q] /\ locks'[q] = locks[q]
           /\ pc[q] # "idle" /\ HasFile(q) => doc'[target[q]].pay = doc[target[q]].pay
    BY <1>a, <1>18
       DEF BuildMatched, Goto, HasFile, Free, LockInv, LocksDisjoint, TypeOK, DbTypeOK,
           ProcTypeOK, TxTypeOK, LedgerTypeOK, dbVars, procVars, txVars, ledgerVars, FileDoc
  <2>3. \A g \in Files : /\ charges[g] > 0 => charges'[g] > 0
                         /\ doc[g].pay # "UNPAID" => doc'[g].pay # "UNPAID"
    BY <1>a, <1>18, <2>1
       DEF BuildMatched, Goto, TypeOK, DbTypeOK, ProcTypeOK, TxTypeOK, LedgerTypeOK, dbVars,
           procVars, txVars, ledgerVars, FileDoc
  <2>4. HeldDoc(p)'
    BY <1>a, <1>18, <2>1, <2>3
       DEF BuildMatched, Goto, HeldDoc, Route, ChargeLocks, HasCustomer, HasFile,
           SettledInv, RequestedDoc, AutomaticDoc, ChargeOps, PrepareOps, BuildOps,
           TxPoints, TypeOK, DbTypeOK, ProcTypeOK, TxTypeOK, LedgerTypeOK, dbVars, procVars,
           txVars, ledgerVars, FileDoc
  <2>5. Written(p)'
    BY <1>a, <1>18, <2>1, <2>3
       DEF BuildMatched, Goto, Written, HeldDoc, Route, ChargeLocks, HasCustomer, HasFile,
           TypeOK, DbTypeOK, ProcTypeOK, TxTypeOK, LedgerTypeOK, dbVars, procVars, txVars,
           ledgerVars
  <2>6. SettledInv'
    BY <1>a, <1>18, <2>1, <2>3
       DEF BuildMatched, Goto, SettledInv, TypeOK, DbTypeOK, ProcTypeOK, TxTypeOK,
           LedgerTypeOK, dbVars, procVars, txVars, ledgerVars, FileDoc
  <2>q. QED
    BY <1>a, <2>2, <2>3, <2>4, <2>5, <2>6, DocFrame
<1>19. ASSUME NEW p \in Procs, BuildUnmatched(p)
      PROVE  DocInv'
  <2> DEFINE f == target[p]
  <2>1. HeldDoc(p) /\ Written(p) /\ Route(p) /\ ChargeLocks(p) /\ SettledInv
    BY <1>a DEF DocInv, LockInv
  <2>2. \A q \in Procs \ {p} :
           /\ pc'[q] = pc[q] /\ op'[q] = op[q] /\ target'[q] = target[q]
           /\ loc'[q] = loc[q] /\ locks'[q] = locks[q]
           /\ pc[q] # "idle" /\ HasFile(q) => doc'[target[q]].pay = doc[target[q]].pay
    BY <1>a, <1>19
       DEF BuildUnmatched, HasFile, Free, LockInv, LocksDisjoint, TypeOK, DbTypeOK,
           ProcTypeOK, TxTypeOK, LedgerTypeOK, dbVars, procVars, txVars, ledgerVars, FileDoc
  <2>3. \A g \in Files : /\ charges[g] > 0 => charges'[g] > 0
                         /\ doc[g].pay # "UNPAID" => doc'[g].pay # "UNPAID"
    BY <1>a, <1>19, <2>1
       DEF BuildUnmatched, TypeOK, DbTypeOK, ProcTypeOK, TxTypeOK, LedgerTypeOK, dbVars,
           procVars, txVars, ledgerVars, FileDoc
  <2>4. HeldDoc(p)'
    BY <1>a, <1>19, <2>1, <2>3
       DEF BuildUnmatched, HeldDoc, Route, ChargeLocks, HasCustomer, HasFile, SettledInv,
           RequestedDoc, AutomaticDoc, ChargeOps, PrepareOps, BuildOps, TxPoints, TypeOK,
           DbTypeOK, ProcTypeOK, TxTypeOK, LedgerTypeOK, dbVars, procVars, txVars,
           ledgerVars, FileDoc
  <2>5. Written(p)'
    BY <1>a, <1>19, <2>1, <2>3
       DEF BuildUnmatched, Written, HeldDoc, Route, ChargeLocks, HasCustomer, HasFile,
           TypeOK, DbTypeOK, ProcTypeOK, TxTypeOK, LedgerTypeOK, dbVars, procVars, txVars,
           ledgerVars
  <2>6. SettledInv'
    BY <1>a, <1>19, <2>1, <2>3
       DEF BuildUnmatched, SettledInv, TypeOK, DbTypeOK, ProcTypeOK, TxTypeOK, LedgerTypeOK,
           dbVars, procVars, txVars, ledgerVars, FileDoc
  <2>q. QED
    BY <1>a, <2>2, <2>3, <2>4, <2>5, <2>6, DocFrame
<1>20. ASSUME NEW p \in Procs, Commit(p)
      PROVE  DocInv'
  <2> DEFINE f == target[p]
  <2>1. HeldDoc(p) /\ Written(p) /\ Route(p) /\ ChargeLocks(p) /\ SettledInv
    BY <1>a DEF DocInv, LockInv
  <2>2. \A q \in Procs \ {p} :
           /\ pc'[q] = pc[q] /\ op'[q] = op[q] /\ target'[q] = target[q]
           /\ loc'[q] = loc[q] /\ locks'[q] = locks[q]
           /\ pc[q] # "idle" /\ HasFile(q) => doc'[target[q]].pay = doc[target[q]].pay
    BY <1>a, <1>20
       DEF Commit, TxCommit, Goto, HasFile, Free, LockInv, LocksDisjoint, TypeOK, DbTypeOK,
           ProcTypeOK, TxTypeOK, LedgerTypeOK, dbVars, procVars, txVars, ledgerVars, FileDoc
  <2>3. /\ pc[p] = "commit" /\ f \in Files /\ op[p] \in Ops
        /\ \A g \in Files : charges'[g] = IF g = f /\ DebitedCustomer(p) THEN charges[g] + 1 ELSE charges[g]
        /\ \A g \in Files : doc'[g] = IF g = f /\ HasFile(p) THEN loc[p] ELSE doc[g]
    BY <1>a, <1>20 DEF Commit, HasFile, TypeOK, DbTypeOK, ProcTypeOK, LedgerTypeOK
  <2>4. HasFile(p) => /\ doc[f].pay # "UNPAID" => loc[p].pay # "UNPAID"
                      /\ loc[p].pay = "PAID" \/ loc[p].winols = "OK"
                           => charges[f] > 0 \/ DebitedCustomer(p)
    <3>1. CASE op[p] \in ChargeOps \cup CopyOps
      BY <2>1, <2>3, <3>1 DEF Written, DebitedCustomer, HasCustomer
    <3>2. CASE op[p] = "prepareReq"
      BY <1>a, <2>1, <2>3, <3>2 DEF ExistsInv, UploadInv, PreparingInv, Preparing, HeldDoc,
         PrepareOps, TxPoints, RequestedDoc
    <3>3. CASE op[p] = "refund"
      BY <2>1, <2>3, <3>3 DEF ChargeLocks, ChargeOps
    <3>q. QED
      BY <2>1, <2>3, <3>1, <3>2, <3>3
         DEF Route, Ops, PrepareOps, BuildOps, ChargeOps, CopyOps
  <2>5. \A g \in Files : /\ charges[g] > 0 => charges'[g] > 0
                         /\ doc[g].pay # "UNPAID" => doc'[g].pay # "UNPAID"
    BY <1>a, <2>3, <2>4 DEF TypeOK, LedgerTypeOK
  <2>6. SettledInv'
    BY <1>a, <2>1, <2>3, <2>4 DEF SettledInv, Written, HeldDoc, TypeOK, LedgerTypeOK
  <2>7. \/ pc'[p] = "idle" /\ op'[p] = "none" /\ loc'[p] = RequestedDoc
        \/ pc'[p] = "after" /\ op'[p] = op[p] /\ loc'[p] = loc[p]
    BY <1>a, <1>20, AfterCommit DEF Commit, Goto, TypeOK, ProcTypeOK
  <2>8. HeldDoc(p)' /\ Written(p)'
    BY <2>1, <2>7 DEF HeldDoc, Written, RequestedDoc, PrepareOps
  <2>q. QED BY <1>a, <2>2, <2>5, <2>6, <2>8, DocFrame
<1>21. ASSUME NEW p \in Procs, Fail(p)
      PROVE  DocInv'
  <2> DEFINE f == target[p]
  <2>1. HeldDoc(p) /\ Written(p) /\ Route(p) /\ ChargeLocks(p) /\ SettledInv
    BY <1>a DEF DocInv, LockInv
  <2>2. \A q \in Procs \ {p} :
           /\ pc'[q] = pc[q] /\ op'[q] = op[q] /\ target'[q] = target[q]
           /\ loc'[q] = loc[q] /\ locks'[q] = locks[q]
           /\ pc[q] # "idle" /\ HasFile(q) => doc'[target[q]].pay = doc[target[q]].pay
    BY <1>a, <1>21
       DEF Fail, TxAbort, Goto, HasFile, Free, LockInv, LocksDisjoint, TypeOK, DbTypeOK,
           ProcTypeOK, TxTypeOK, LedgerTypeOK, dbVars, procVars, txVars, ledgerVars, FileDoc
  <2>3. \A g \in Files : /\ charges[g] > 0 => charges'[g] > 0
                         /\ doc[g].pay # "UNPAID" => doc'[g].pay # "UNPAID"
    BY <1>a, <1>21, <2>1
       DEF Fail, TxAbort, Goto, TypeOK, DbTypeOK, ProcTypeOK, TxTypeOK, LedgerTypeOK,
           dbVars, procVars, txVars, ledgerVars, FileDoc
  <2>4. HeldDoc(p)'
    BY <1>a, <1>21, <2>1, <2>3
       DEF Fail, TxAbort, Goto, HeldDoc, Route, ChargeLocks, HasCustomer, HasFile,
           SettledInv, RequestedDoc, AutomaticDoc, ChargeOps, PrepareOps, BuildOps,
           TxPoints, TypeOK, DbTypeOK, ProcTypeOK, TxTypeOK, LedgerTypeOK, dbVars, procVars,
           txVars, ledgerVars, FileDoc
  <2>5. Written(p)'
    BY <1>a, <1>21, <2>1, <2>3
       DEF Fail, TxAbort, Goto, Written, HeldDoc, Route, ChargeLocks, HasCustomer, HasFile,
           TypeOK, DbTypeOK, ProcTypeOK, TxTypeOK, LedgerTypeOK, dbVars, procVars, txVars,
           ledgerVars
  <2>6. SettledInv'
    BY <1>a, <1>21, <2>1, <2>3
       DEF Fail, TxAbort, Goto, SettledInv, TypeOK, DbTypeOK, ProcTypeOK, TxTypeOK,
           LedgerTypeOK, dbVars, procVars, txVars, ledgerVars, FileDoc
  <2>q. QED
    BY <1>a, <2>2, <2>3, <2>4, <2>5, <2>6, DocFrame
<1>22. ASSUME NEW p \in Procs, Finish(p)
      PROVE  DocInv'
  <2> DEFINE f == target[p]
  <2>1. HeldDoc(p) /\ Written(p) /\ Route(p) /\ ChargeLocks(p) /\ SettledInv
    BY <1>a DEF DocInv, LockInv
  <2>2. \A q \in Procs \ {p} :
           /\ pc'[q] = pc[q] /\ op'[q] = op[q] /\ target'[q] = target[q]
           /\ loc'[q] = loc[q] /\ locks'[q] = locks[q]
           /\ pc[q] # "idle" /\ HasFile(q) => doc'[target[q]].pay = doc[target[q]].pay
    BY <1>a, <1>22
       DEF Finish, Goto, HasFile, Free, LockInv, LocksDisjoint, TypeOK, DbTypeOK,
           ProcTypeOK, TxTypeOK, LedgerTypeOK, dbVars, procVars, txVars, ledgerVars, FileDoc
  <2>3. \A g \in Files : /\ charges[g] > 0 => charges'[g] > 0
                         /\ doc[g].pay # "UNPAID" => doc'[g].pay # "UNPAID"
    BY <1>a, <1>22, <2>1
       DEF Finish, Goto, TypeOK, DbTypeOK, ProcTypeOK, TxTypeOK, LedgerTypeOK, dbVars,
           procVars, txVars, ledgerVars, FileDoc
  <2>4. HeldDoc(p)'
    BY <1>a, <1>22, <2>1, <2>3
       DEF Finish, Goto, HeldDoc, Route, ChargeLocks, HasCustomer, HasFile, SettledInv,
           RequestedDoc, AutomaticDoc, ChargeOps, PrepareOps, BuildOps, TxPoints, TypeOK,
           DbTypeOK, ProcTypeOK, TxTypeOK, LedgerTypeOK, dbVars, procVars, txVars,
           ledgerVars, FileDoc
  <2>5. Written(p)'
    BY <1>a, <1>22, <2>1, <2>3
       DEF Finish, Goto, Written, HeldDoc, Route, ChargeLocks, HasCustomer, HasFile, TypeOK,
           DbTypeOK, ProcTypeOK, TxTypeOK, LedgerTypeOK, dbVars, procVars, txVars,
           ledgerVars
  <2>6. SettledInv'
    BY <1>a, <1>22, <2>1, <2>3
       DEF Finish, Goto, SettledInv, TypeOK, DbTypeOK, ProcTypeOK, TxTypeOK, LedgerTypeOK,
           dbVars, procVars, txVars, ledgerVars, FileDoc
  <2>q. QED
    BY <1>a, <2>2, <2>3, <2>4, <2>5, <2>6, DocFrame
<1>23. ASSUME NEW f \in Files, FileProcessStart(f)
      PROVE  DocInv'
  <2>1. /\ UNCHANGED <<pc, op, target, loc, locks, charges>>
        /\ \A g \in Files :
              /\ doc'[g].pay = doc[g].pay
              /\ doc'[g].mod = doc[g].mod
              /\ doc'[g].winols = "OK" => doc[g].winols = "OK"
    BY <1>a, <1>23
       DEF FileProcessStart, SetWinols, PlainWrite, procVars, txVars, ledgerVars, TypeOK,
           DbTypeOK, FileDoc
  <2>2. SettledInv'
    BY <1>a, <2>1 DEF DocInv, SettledInv
  <2>3. ASSUME NEW p \in Procs PROVE HeldDoc(p)' /\ Written(p)'
    <3>1. HeldDoc(p) /\ Written(p) /\ (pc[p] # "idle" => target[p] \in Files)
      BY <1>a DEF DocInv, TypeOK, ProcTypeOK
    <3>2. HeldDoc(p)'
      BY <2>1, <3>1 DEF HeldDoc, HasCustomer
    <3>3. Written(p)'
      BY <2>1, <3>1 DEF Written, HasFile, HasCustomer
    <3>q. QED BY <3>2, <3>3
  <2>q. QED
    BY <2>2, <2>3 DEF DocInv
<1>24. ASSUME NEW f \in Files, FileProcessEnd(f)
      PROVE  DocInv'
  <2>1. UNCHANGED <<pc, op, target, loc, locks, doc, charges>>
    BY <1>24 DEF FileProcessEnd, procVars, txVars, dbVars, ledgerVars
  <2>q. QED
    BY <1>a, <2>1 DEF DocInv, HeldDoc, Written, SettledInv, HasFile, HasCustomer
<1>25. ASSUME NEW f \in Files, QueueBuild(f)
      PROVE  DocInv'
  <2>1. UNCHANGED <<pc, op, target, loc, locks, doc, charges>>
    BY <1>25 DEF QueueBuild, procVars, txVars, dbVars, ledgerVars
  <2>q. QED
    BY <1>a, <2>1 DEF DocInv, HeldDoc, Written, SettledInv, HasFile, HasCustomer
<1>26. ASSUME NEW f \in Files, OnFailed(f)
      PROVE  DocInv'
  <2>1. /\ UNCHANGED <<pc, op, target, loc, locks, charges>>
        /\ \A g \in Files :
              /\ doc'[g].pay = doc[g].pay
              /\ doc'[g].mod = doc[g].mod
              /\ doc'[g].winols = "OK" => doc[g].winols = "OK"
    BY <1>a, <1>26
       DEF OnFailed, SetWinols, PlainWrite, procVars, txVars, ledgerVars, TypeOK, DbTypeOK,
           FileDoc
  <2>2. SettledInv'
    BY <1>a, <2>1 DEF DocInv, SettledInv
  <2>3. ASSUME NEW p \in Procs PROVE HeldDoc(p)' /\ Written(p)'
    <3>1. HeldDoc(p) /\ Written(p) /\ (pc[p] # "idle" => target[p] \in Files)
      BY <1>a DEF DocInv, TypeOK, ProcTypeOK
    <3>2. HeldDoc(p)'
      BY <2>1, <3>1 DEF HeldDoc, HasCustomer
    <3>3. Written(p)'
      BY <2>1, <3>1 DEF Written, HasFile, HasCustomer
    <3>q. QED BY <3>2, <3>3
  <2>q. QED
    BY <2>2, <2>3 DEF DocInv
<1>27. ASSUME NEW p \in Procs, NEW f \in Files, BuildStart(p, f)
      PROVE  DocInv'
  <2>1. HeldDoc(p) /\ Written(p) /\ Route(p) /\ ChargeLocks(p) /\ SettledInv
    BY <1>a DEF DocInv, LockInv
  <2>2. \A q \in Procs \ {p} :
           /\ pc'[q] = pc[q] /\ op'[q] = op[q] /\ target'[q] = target[q]
           /\ loc'[q] = loc[q] /\ locks'[q] = locks[q]
           /\ pc[q] # "idle" /\ HasFile(q) => doc'[target[q]].pay = doc[target[q]].pay
    BY <1>a, <1>27
       DEF BuildStart, Take, HasFile, Free, LockInv, LocksDisjoint, TypeOK, DbTypeOK,
           ProcTypeOK, TxTypeOK, LedgerTypeOK, dbVars, procVars, txVars, ledgerVars, FileDoc
  <2>3. \A g \in Files : /\ charges[g] > 0 => charges'[g] > 0
                         /\ doc[g].pay # "UNPAID" => doc'[g].pay # "UNPAID"
    BY <1>a, <1>27, <2>1
       DEF BuildStart, Take, TypeOK, DbTypeOK, ProcTypeOK, TxTypeOK, LedgerTypeOK, dbVars,
           procVars, txVars, ledgerVars, FileDoc
  <2>4. HeldDoc(p)'
    BY <1>a, <1>27, <2>1, <2>3
       DEF BuildStart, Take, HeldDoc, Route, ChargeLocks, HasCustomer, HasFile, SettledInv,
           RequestedDoc, AutomaticDoc, ChargeOps, PrepareOps, BuildOps, TxPoints, TypeOK,
           DbTypeOK, ProcTypeOK, TxTypeOK, LedgerTypeOK, dbVars, procVars, txVars,
           ledgerVars, FileDoc
  <2>5. Written(p)'
    BY <1>a, <1>27, <2>1, <2>3
       DEF BuildStart, Take, Written, HeldDoc, Route, ChargeLocks, HasCustomer, HasFile,
           TypeOK, DbTypeOK, ProcTypeOK, TxTypeOK, LedgerTypeOK, dbVars, procVars, txVars,
           ledgerVars
  <2>6. SettledInv'
    BY <1>a, <1>27, <2>1, <2>3
       DEF BuildStart, Take, SettledInv, TypeOK, DbTypeOK, ProcTypeOK, TxTypeOK,
           LedgerTypeOK, dbVars, procVars, txVars, ledgerVars, FileDoc
  <2>q. QED
    BY <1>a, <2>2, <2>3, <2>4, <2>5, <2>6, DocFrame
<1>28. CASE Crash
  <2>1. UNCHANGED <<doc, charges>> /\ loc' = [p \in Procs |-> RequestedDoc]
        /\ pc' = [p \in Procs |-> "idle"] /\ op' = [p \in Procs |-> "none"]
    BY <1>28 DEF Crash, dbVars, ledgerVars
  <2>q. QED
    BY <1>a, <2>1 DEF DocInv, HeldDoc, Written, SettledInv, RequestedDoc, PrepareOps
<1>29. CASE UNCHANGED vars
  <2>1. UNCHANGED <<pc, op, target, loc, locks, doc, charges>>
    BY <1>29 DEF vars, procVars, txVars, dbVars, ledgerVars
  <2>q. QED
    BY <1>a, <2>1 DEF DocInv, HeldDoc, Written, SettledInv, HasFile, HasCustomer
<1>q. QED BY NextCases, <1>1, <1>2, <1>3, <1>4, <1>5, <1>6, <1>7, <1>8, <1>9, <1>10, <1>11,
     <1>12, <1>13, <1>14, <1>15, <1>16, <1>17, <1>18, <1>19, <1>20, <1>21, <1>22,
     <1>23, <1>24, <1>25, <1>26, <1>27, <1>28, <1>29

\* What handlers hold, however old, and what they write agrees with what was
\* charged.
THEOREM DocCorrect == Spec => []DocInv
BY TypeCorrect, LocksCorrect, ExistsCorrect, DocInit, DocNext, PTL DEF Spec

\* A file shown as PAID was charged, although manualBuild and the pipeline
\* write back documents they read long before.
THEOREM PaidAlways == Spec => []PaidWasCharged
<1>1. DocInv => PaidWasCharged
  BY DEF DocInv, SettledInv, PaidWasCharged
<1>q. QED BY <1>1, DocCorrect, PTL

\* A modified file can be downloaded only from a file that was settled, and
\* WinOLS_OK stands only on one that was built and charged.
THEOREM SettledAlways == Spec => []DeliveredIsSettled
<1>1. DocInv => DeliveredIsSettled
  BY DEF DocInv, SettledInv, DeliveredIsSettled
<1>q. QED BY <1>1, DocCorrect, PTL

-----------------------------------------------------------------------------
(* The handlers implement the ledger. *)

LEMMA LedgerInit == Init => Ledger!Init
BY DEF Init, Ledger!Init, Accounts, Ledger!Accounts, RequestedDoc

\* The steps that touch neither the balances nor a payment status.
LEMMA PayFrame ==
    ASSUME TypeOK, [Next]_vars
    PROVE  \/ UNCHANGED <<balance, charges, refunds>>
              /\ \A f \in Files : doc'[f].pay = doc[f].pay
           \/ \E p \in Procs : MarkRefunded(p)
           \/ \E p \in Procs : Commit(p)
<1> DEFINE Same == UNCHANGED <<balance, charges, refunds>>
                     /\ \A f \in Files : doc'[f].pay = doc[f].pay
<1>1. ASSUME UNCHANGED dbVars, UNCHANGED ledgerVars PROVE Same
  BY <1>1 DEF dbVars, ledgerVars
<1>2. ASSUME NEW f \in Files, NEW w, UNCHANGED ledgerVars, SetWinols(f, w) PROVE Same
  BY <1>2 DEF SetWinols, ledgerVars, TypeOK, DbTypeOK, FileDoc
<1>3. ASSUME NEW f \in Files, CloseFileService(f) PROVE Same
  BY <1>3 DEF CloseFileService, ledgerVars, TypeOK, DbTypeOK, FileDoc
<1>4. ASSUME NEW p \in Procs, MarkInProgress(p) PROVE Same
  BY <1>4 DEF MarkInProgress, ledgerVars, TypeOK, DbTypeOK, ProcTypeOK, FileDoc
<1>5. ASSUME NEW p \in Procs, BuildProgress(p) PROVE Same
  BY <1>2, <1>5 DEF BuildProgress, TypeOK, ProcTypeOK
<1>6. ASSUME NEW f \in Files, FileProcessStart(f) \/ OnFailed(f) PROVE Same
  BY <1>2, <1>6 DEF FileProcessStart, OnFailed
<1>7. \/ UNCHANGED dbVars /\ UNCHANGED ledgerVars
      \/ \E f \in Files : CloseFileService(f)
      \/ \E p \in Procs : MarkRefunded(p) \/ MarkInProgress(p) \/ BuildProgress(p)
      \/ \E f \in Files : FileProcessStart(f) \/ OnFailed(f)
      \/ \E p \in Procs : Commit(p)
  BY NextCases
     DEF PrepareSolution, UploadModFile, ManualBuild, RefundFileService, DeleteFileService,
         ChatMessage, ProgressFileService, Accept, RenameUpload, UpdateCustomerCredit,
         UpdateAdminCredit, PostInformation, NotifyFromBuild, WriteFile, BuildMatched,
         BuildUnmatched, Fail, Finish, FileProcessEnd, QueueBuild, BuildStart, Crash, vars
<1>q. QED BY <1>1, <1>3, <1>4, <1>5, <1>6, <1>7

LEMMA CreditedOrDebited == ASSUME NEW p PROVE ~(Credited(p) /\ DebitedCustomer(p))
BY DEF Credited, DebitedCustomer

\* The commit of a handler is a charge, a refund, a mark, or nothing.
LEMMA LedgerCommit ==
    ASSUME TypeOK, LockInv, ExistsInv, DocInv, NEW p \in Procs, Commit(p)
    PROVE  Ledger!Next \/ UNCHANGED Ledger!ledgerVars
<1> DEFINE f == target[p]
           pay == [g \in Files |-> doc[g].pay]
<1>1. /\ pc[p] = "commit" /\ f \in Files /\ op[p] \in Ops
      /\ ChargeLocks(p) /\ Route(p) /\ HeldDoc(p) /\ Written(p)
      /\ loc[p].pay \in Pay
  BY DEF Commit, TypeOK, ProcTypeOK, LockInv, DocInv, FileDoc
<1>2. /\ balance' = [a \in Accounts |-> balance[a] + Increment(p, a)]
      /\ charges' = [charges EXCEPT ![f] = IF DebitedCustomer(p) THEN @ + 1 ELSE @]
      /\ refunds' = [refunds EXCEPT ![f] = IF Credited(p) THEN @ + 1 ELSE @]
      /\ pay' = IF HasFile(p) THEN [pay EXCEPT ![f] = loc[p].pay] ELSE pay
  BY <1>1 DEF Commit, HasFile, TypeOK, DbTypeOK
<1>3. /\ DebitedAdmin(p) => DebitedCustomer(p)
      /\ DebitedCustomer(p) => op[p] \in ChargeOps /\ (DebitedAdmin(p) \/ AdminPrice[f] = 0)
      /\ Credited(p) => op[p] = "refund" /\ ~DebitedAdmin(p) /\ ~HasFile(p)
  BY <1>1, CommitDebits, PricesAssumption DEF SuperFile
<1>4. /\ balance \in [Accounts -> Int] /\ charges \in [Files -> Nat] /\ refunds \in [Files -> Nat]
      /\ Price[f] \in Nat /\ AdminPrice[f] \in Nat
      /\ CustomerOf[f] \in Accounts /\ AdminOf[f] \in Accounts /\ CustomerOf[f] # AdminOf[f]
  BY <1>1, FilesAndAccounts DEF TypeOK, DbTypeOK, LedgerTypeOK
<1>5. CASE DebitedCustomer(p)
  <2>1. balance' = [balance EXCEPT ![CustomerOf[f]] = @ - Price[f],
                                   ![AdminOf[f]] = @ - AdminPrice[f]]
    <3>1. Increment(p, CustomerOf[f]) = -Price[f]
      BY <1>4, <1>5, CreditedOrDebited DEF Increment
    <3>2. Increment(p, AdminOf[f]) = -AdminPrice[f]
      BY <1>3, <1>4, <1>5 DEF Increment
    <3>3. \A a \in Accounts \ {CustomerOf[f], AdminOf[f]} : Increment(p, a) = 0
      BY DEF Increment
    <3>4. /\ balance'[CustomerOf[f]] = balance[CustomerOf[f]] - Price[f]
          /\ balance'[AdminOf[f]] = balance[AdminOf[f]] - AdminPrice[f]
          /\ \A a \in Accounts \ {CustomerOf[f], AdminOf[f]} : balance'[a] = balance[a]
      BY <1>2, <1>4, <3>1, <3>2, <3>3
    <3>q. QED BY <1>2, <1>4, <3>4
  <2>2. charges' = [charges EXCEPT ![f] = @ + 1] /\ refunds' = refunds
    BY <1>2, <1>3, <1>4, <1>5 DEF DebitedCustomer
  <2>3. CASE HasFile(p)
    <3>1. loc[p].pay \in {"PAID", "REFUNDED"}
      BY <1>1, <1>3, <1>5, <2>3 DEF Written, Pay
    <3>q. QED
      BY <1>1, <1>2, <2>1, <2>2, <2>3, <3>1 DEF Ledger!Next, Ledger!Charge
  <2>4. CASE ~HasFile(p)
    BY <1>1, <1>2, <2>1, <2>2, <2>4 DEF Ledger!Next, Ledger!ChargeRemoved
  <2>q. QED BY <2>3, <2>4
<1>6. CASE Credited(p)
  <2>1. balance' = [balance EXCEPT ![CustomerOf[f]] = @ + Price[f]]
    <3>1. Increment(p, CustomerOf[f]) = Price[f]
      BY <1>4, <1>6, CreditedOrDebited DEF Increment
    <3>2. \A a \in Accounts \ {CustomerOf[f]} : Increment(p, a) = 0
      BY <1>3, <1>6 DEF Increment
    <3>3. /\ balance'[CustomerOf[f]] = balance[CustomerOf[f]] + Price[f]
          /\ \A a \in Accounts \ {CustomerOf[f]} : balance'[a] = balance[a]
      BY <1>2, <1>4, <3>1, <3>2
    <3>q. QED BY <1>2, <1>4, <3>3
  <2>2. refunds' = [refunds EXCEPT ![f] = @ + 1] /\ charges' = charges /\ pay' = pay
    BY <1>2, <1>3, <1>4, <1>6 DEF DebitedCustomer
  <2>q. QED BY <1>1, <2>1, <2>2 DEF Ledger!Next, Ledger!Refund
<1>7. CASE ~DebitedCustomer(p) /\ ~Credited(p)
  <2>1. balance' = balance /\ charges' = charges /\ refunds' = refunds
    BY <1>2, <1>3, <1>4, <1>7 DEF Increment
  <2>2. CASE ~HasFile(p)
    BY <1>2, <2>1, <2>2 DEF Ledger!ledgerVars
  <2>3. CASE HasFile(p) /\ op[p] = "prepareReq"
    <3>1. loc[p].pay = pay[f]
      BY <1>1, <2>3
         DEF HeldDoc, ExistsInv, PreparingInv, Preparing, UploadInv, PrepareOps, TxPoints
    <3>q. QED BY <1>1, <1>2, <2>1, <3>1 DEF Ledger!ledgerVars
  <2>4. CASE HasFile(p) /\ op[p] \in CopyOps
    <3>1. loc[p].pay = pay[f]
      BY <1>1, <2>4 DEF Written
    <3>q. QED BY <1>1, <1>2, <2>1, <3>1 DEF Ledger!ledgerVars
  <2>5. CASE HasFile(p) /\ op[p] \in ChargeOps
    <3>1. loc[p].pay \in {"PAID", "REFUNDED"} /\ (loc[p].pay = "PAID" => charges[f] > 0)
      BY <1>1, <1>7, <2>5 DEF Written, Pay, DebitedCustomer, HasCustomer
    <3>q. QED
      BY <1>1, <1>2, <2>1, <2>5, <3>1 DEF Ledger!Next, Ledger!Mark
  <2>q. QED
    BY <1>1, <2>2, <2>3, <2>4, <2>5
    DEF Route, ChargeLocks, Ops, PrepareOps, BuildOps, ChargeOps, CopyOps
<1>q. QED BY <1>5, <1>6, <1>7

LEMMA LedgerNext ==
    TypeOK /\ LockInv /\ ExistsInv /\ DocInv /\ [Next]_vars => [Ledger!Next]_(Ledger!ledgerVars)
<1> SUFFICES ASSUME TypeOK, LockInv, ExistsInv, DocInv, [Next]_vars
             PROVE  Ledger!Next \/ UNCHANGED Ledger!ledgerVars
  OBVIOUS
<1> DEFINE pay == [g \in Files |-> doc[g].pay]
<1>1. CASE UNCHANGED <<balance, charges, refunds>> /\ \A f \in Files : doc'[f].pay = doc[f].pay
  BY <1>1 DEF Ledger!ledgerVars
<1>2. ASSUME NEW p \in Procs, MarkRefunded(p)
      PROVE  Ledger!Next \/ UNCHANGED Ledger!ledgerVars
  <2> DEFINE f == target[p]
  <2>1. f \in Files /\ UNCHANGED <<balance, charges, refunds>>
    BY <1>2 DEF MarkRefunded, ledgerVars, TypeOK, ProcTypeOK
  <2>2. pay' = pay \/ pay' = [pay EXCEPT ![f] = "REFUNDED"]
    BY <1>2, <2>1 DEF MarkRefunded, TypeOK, DbTypeOK, FileDoc
  <2>q. QED BY <2>1, <2>2 DEF Ledger!Next, Ledger!Mark, Ledger!ledgerVars
<1>q. QED BY <1>1, <1>2, LedgerCommit, PayFrame

\* Every behaviour of the handlers, with any interleaving, failure or restart,
\* is one of the abstract ledger: money moves only in whole charges and
\* refunds, and no file returns to UNPAID or becomes PAID without a charge.
THEOREM LedgerImplemented == Spec => LedgerSpec
<1>1. Spec => Ledger!Spec
  BY TypeCorrect, LocksCorrect, ExistsCorrect, DocCorrect, LedgerInit, LedgerNext, PTL
  DEF Spec, Ledger!Spec
<1>q. QED BY <1>1 DEF LedgerSpec

-----------------------------------------------------------------------------
(* Overdrafts. *)

\* One of finitely many files is the dearest: the one that fewest are dearer than.
LEMMA DearestFile == Dearest \in Files /\ \A g \in Files : Price[g] <= Price[Dearest]
<1> DEFINE Dearer(f) == {g \in Files : Price[g] > Price[f]}
           T == {Dearer(f) : f \in Files}
<1>1. \A f \in Files : Price[f] \in Nat
  BY FilesAndAccounts
<1>2. T \subseteq FiniteSubsetsOf(Files) /\ T # {}
  <2>1. ASSUME NEW f \in Files PROVE Dearer(f) \in FiniteSubsetsOf(Files)
    <3>1. Dearer(f) \in SUBSET Files
      OBVIOUS
    <3> HIDE DEF Dearer
    <3> QED
      BY <3>1, FiniteAssumption, FS_Subset DEF FiniteSubsetsOf
  <2> HIDE DEF Dearer
  <2> QED
    BY <2>1, FiniteAssumption
<1>3. PICK S \in T : \A U \in T : <<U, S>> \notin StrictSubsetOrdering(Files)
  <2> HIDE DEF T
  <2> QED
    BY <1>2, FS_StrictSubsetOrderingWellFounded, WFMin
<1>4. PICK f \in Files : S = Dearer(f)
  BY <1>3
<1>5. ASSUME NEW g \in Files, Price[g] > Price[f] PROVE FALSE
  <2>1. /\ Dearer(g) \subseteq Dearer(f) /\ Dearer(f) \subseteq Files
        /\ g \in Dearer(f) /\ g \notin Dearer(g)
    BY <1>1, <1>5
  <2>2. Dearer(g) \in T
    OBVIOUS
  <2> HIDE DEF Dearer
  <2> QED
    BY <1>3, <1>4, <2>1, <2>2 DEF StrictSubsetOrdering
<1> QED
  BY <1>1, <1>5 DEF Dearest

LEMMA RoomFacts ==
  /\ Cardinality(Procs) \in Nat /\ Cardinality(Procs) >= 1
  /\ \A f \in Files : Price[f] \in Nat /\ Price[f] <= Price[Dearest]
  /\ Price[Dearest] \in Nat
  /\ \A k \in 0 .. Cardinality(Procs) : Room(k) \in Nat
  /\ \A k \in 1 .. Cardinality(Procs) : Room(k - 1) = Room(k) + Price[Dearest]
<1> DEFINE N == Cardinality(Procs)
           M == Price[Dearest]
<1>1. N \in Nat /\ N >= 1
  <2>1. N \in Nat /\ N # 0
    BY FiniteAssumption, FS_CardinalityType, FS_EmptySet
  <2> QED
    BY <2>1
<1>2. M \in Nat /\ \A f \in Files : Price[f] \in Nat /\ Price[f] <= M
  BY DearestFile, FilesAndAccounts
<1> HIDE DEF N, M
<1>3. \A k \in 0 .. N : (N - k) * M \in Nat
  BY <1>1, <1>2
<1>4. \A k \in 1 .. N : (N - (k - 1)) * M = (N - k) * M + M
  BY <1>1, <1>2
<1> QED
  BY <1>1, <1>2, <1>3, <1>4 DEF Room, N, M

LEMMA RoomShrinks ==
  ASSUME NEW k \in 1 .. Cardinality(Procs)
  PROVE  Room(k) <= Room(1)
<1> DEFINE N == Cardinality(Procs)
           M == Price[Dearest]
<1>1. N \in Nat /\ M \in Nat
  BY RoomFacts
<1> HIDE DEF N, M
<1>2. k \in Int /\ k >= 1 /\ (N - 1) * M = (N - k) * M + (k - 1) * M /\ (k - 1) * M \in Nat
  BY <1>1
<1>3. (N - k) * M \in Int
  BY <1>1, <1>2
<1> QED
  BY <1>2, <1>3 DEF Room, N, M

\* No other handler begins or ceases to charge c.
OthersKept(p, c) ==
    \A q \in Procs \ {p} : /\ q \in Charging(c) <=> q \in Charging(c)'
                           /\ q \in Charging(c) => target'[q] = target[q]

\* p goes on, begins to charge c, which can pay, or ceases, and took what it charged.
Stays(p, c) ==
    /\ p \in Charging(c) <=> p \in Charging(c)'
    /\ p \in Charging(c) => target'[p] = target[p]
    /\ balance'[c] >= balance[c]
Enters(p, c) ==
    /\ p \notin Charging(c) /\ p \in Charging(c)'
    /\ balance'[c] = balance[c] /\ balance[c] >= Price[target'[p]]
Leaves(p, c) ==
    /\ p \in Charging(c) /\ p \notin Charging(c)'
    /\ balance'[c] >= balance[c] - Price[target[p]]

LEMMA CoveredStep ==
  ASSUME TypeOK, TypeOK', NEW c \in Customers, Covered(c), NEW p \in Procs,
         OthersKept(p, c), Stays(p, c) \/ Enters(p, c) \/ Leaves(p, c)
  PROVE  Covered(c)'
<1> DEFINE N == Cardinality(Procs)
           M == Price[Dearest]
           K == Charging(c)
           L == Charging(c)'
           k == Cardinality(K)
           l == Cardinality(L)
<1>1. balance[c] \in Int /\ balance'[c] \in Int
  BY DEF TypeOK, DbTypeOK, Accounts
<1>2. /\ \A q \in K : target[q] \in Files
      /\ \A q \in L : target'[q] \in Files
  BY DEF Charging, Charges, TypeOK, ProcTypeOK, TxPoints
<1>3. K \subseteq Procs /\ L \subseteq Procs
  BY DEF Charging
<1>4. /\ balance[c] >= -Room(1)
      /\ K # {} => \E q \in K : balance[c] >= Price[target[q]] - Room(k)
  BY DEF Covered
<1>5. SUFFICES /\ balance'[c] >= -Room(1)
               /\ L # {} => \E q \in L : balance'[c] >= Price[target'[q]] - Room(l)
  BY DEF Covered, Room
<1> HIDE DEF K, L, M, N
<1>6. /\ IsFiniteSet(K) /\ k \in 0 .. N /\ (k = 0 <=> K = {})
      /\ IsFiniteSet(L) /\ l \in 0 .. N /\ (l = 0 <=> L = {})
  BY <1>3, FiniteAssumption, FS_Subset, FS_CardinalityType, FS_EmptySet DEF N
<1>7. /\ N \in Nat /\ N >= 1 /\ M \in Nat
      /\ \A f \in Files : Price[f] \in Nat /\ Price[f] <= M
      /\ \A i \in 0 .. N : Room(i) \in Nat
      /\ \A i \in 1 .. N : Room(i - 1) = Room(i) + M
  BY RoomFacts DEF M, N
<1>a. \A q \in Procs \ {p} : /\ q \in K <=> q \in L
                             /\ q \in K => target'[q] = target[q]
  BY DEF OthersKept, K, L
<1>b. /\ Stays(p, c) => /\ p \in K <=> p \in L
                        /\ p \in K => target'[p] = target[p]
                        /\ balance'[c] >= balance[c]
      /\ Enters(p, c) => /\ p \notin K /\ p \in L
                         /\ balance'[c] = balance[c] /\ balance[c] >= Price[target'[p]]
      /\ Leaves(p, c) => /\ p \in K /\ p \notin L
                         /\ balance'[c] >= balance[c] - Price[target[p]]
  BY DEF Stays, Enters, Leaves, K, L
<1>8. CASE /\ p \in K <=> p \in L
           /\ p \in K => target'[p] = target[p]
           /\ balance'[c] >= balance[c]
  <2>1. L = K /\ \A q \in K : target'[q] = target[q]
    BY <1>3, <1>8, <1>a
  <2> QED
    BY <1>1, <1>2, <1>4, <1>6, <1>7, <1>8, <2>1
<1>9. CASE /\ p \notin K /\ p \in L
           /\ balance'[c] = balance[c] /\ balance[c] >= Price[target'[p]]
  BY <1>1, <1>2, <1>4, <1>6, <1>7, <1>9
<1>10. CASE /\ p \in K /\ p \notin L
            /\ balance'[c] >= balance[c] - Price[target[p]]
  <2>1. L = K \ {p} /\ \A q \in L : target'[q] = target[q]
    BY <1>3, <1>10, <1>a
  <2>2. l = k - 1
    BY <1>6, <1>10, <2>1, FS_RemoveElement
  <2>3. PICK q \in K : balance[c] >= Price[target[q]] - Room(k)
    BY <1>4, <1>10
  <2>4. k \in 1 .. N /\ Room(l) = Room(k) + M /\ Room(k) \in Nat /\ Room(l) \in Nat
    BY <1>6, <1>7, <1>10, <2>2
  <2>5. /\ Price[target[p]] \in Nat /\ Price[target[p]] <= M
        /\ Price[target[q]] \in Nat /\ Price[target[q]] <= M
        /\ M \in Nat
    BY <1>2, <1>7, <1>10
  <2>6. CASE L = {}
    <3>1. k = 1 /\ q = p
      BY <1>6, <2>1, <2>2, <2>6
    <3> QED
      BY <1>1, <1>10, <2>3, <2>5, <2>6, <3>1, <2>4
  <2>7. CASE L # {}
    <3>1. balance'[c] >= -Room(1)
      <4>1. l \in 1 .. N /\ Room(1) \in Nat /\ Room(1) >= Room(l)
        BY <1>6, <1>7, <2>7, RoomShrinks DEF N
      <4> QED
        BY <1>1, <1>10, <2>3, <2>4, <2>5, <4>1
    <3>2. CASE q # p
      BY <1>1, <1>10, <2>1, <2>3, <2>4, <2>5, <3>1, <3>2
    <3>3. CASE q = p
      <4>1. PICK r \in L : TRUE
        BY <2>7
      <4>2. Price[target'[r]] \in Nat /\ Price[target'[r]] <= M
        BY <1>2, <1>7
      <4> QED
        BY <1>1, <1>10, <2>3, <2>4, <2>5, <3>1, <3>3, <4>1, <4>2
    <3> QED
      BY <3>2, <3>3
  <2> QED
    BY <2>6, <2>7
<1> QED
  BY <1>b, <1>8, <1>9, <1>10

OthersStay(p) ==
    \A q \in Procs \ {p} : /\ pc'[q] = pc[q] /\ op'[q] = op[q] /\ target'[q] = target[q]
                           /\ funds'[q] = funds[q] /\ locks'[q] = locks[q]

LEMMA OthersCharge ==
  ASSUME NEW p \in Procs, OthersStay(p)
  PROVE  \A q \in Procs \ {p} : /\ Charges(q)' <=> Charges(q)
                                /\ Checked(q)' <=> Checked(q)
BY DEF OthersStay, Charges, Checked, HasCustomer

\* A step of p that changes no credits: p charges if it did or if its customer can pay.
LEMMA QuietMove ==
  ASSUME TypeOK, TypeOK', OverdraftInv, NEW p \in Procs, OthersStay(p),
         balance' = balance, Checked(p)',
         Charges(p)' => \/ Charges(p) /\ target'[p] = target[p]
                        \/ ~Charges(p) /\ CustomerCovers(target'[p])
  PROVE  OverdraftInv'
<1>1. ASSUME NEW c \in Customers PROVE Covered(c)'
  <2>1. Covered(c) /\ balance[c] \in Int
    BY DEF OverdraftInv, TypeOK, DbTypeOK, Accounts
  <2>2. OthersKept(p, c)
    BY OthersCharge DEF OthersKept, OthersStay, Charging
  <2>3. Charges(p) => target[p] \in Files /\ Price[target[p]] \in Nat
    BY FilesAndAccounts DEF Charges, TypeOK, ProcTypeOK, TxPoints
  <2>4. CASE p \notin Charging(c) /\ p \in Charging(c)'
    <3>1. ~Charges(p) \/ target'[p] # target[p]
      BY <2>4 DEF Charging
    <3>2. balance[c] >= Price[target'[p]]
      BY <2>4, <3>1 DEF Charging, CustomerCovers
    <3>3. Enters(p, c)
      BY <2>1, <2>4, <3>2 DEF Enters
    <3> QED
      BY <2>1, <2>2, <3>3, CoveredStep
  <2>5. CASE p \in Charging(c) /\ p \notin Charging(c)'
    <3>1. balance'[c] >= balance[c] - Price[target[p]]
      BY <2>1, <2>3, <2>5 DEF Charging
    <3>2. Leaves(p, c)
      BY <2>5, <3>1 DEF Leaves
    <3> QED
      BY <2>1, <2>2, <3>2, CoveredStep
  <2>6. CASE p \in Charging(c) <=> p \in Charging(c)'
    <3>1. p \in Charging(c) => target'[p] = target[p]
      BY <2>6 DEF Charging
    <3>2. balance'[c] >= balance[c]
      BY <2>1
    <3>3. Stays(p, c)
      BY <2>6, <3>1, <3>2 DEF Stays
    <3> QED
      BY <2>1, <2>2, <3>3, CoveredStep
  <2> QED
    BY <2>4, <2>5, <2>6
<1>2. \A q \in Procs : Checked(q)'
  BY OthersCharge DEF OverdraftInv
<1> QED
  BY <1>1, <1>2 DEF OverdraftInv

LEMMA OverdraftInit == Init => OverdraftInv
<1> SUFFICES ASSUME Init PROVE OverdraftInv
  OBVIOUS
<1>1. \A p \in Procs : Checked(p)
  BY DEF Init, Checked
<1>2. ASSUME NEW c \in Customers PROVE Covered(c)
  <2>1. Charging(c) = {}
    BY DEF Init, Charging, Charges, TxPoints
  <2>2. balance[c] \in Nat
    BY PricesAssumption DEF Init, Accounts
  <2>3. Room(1) \in Nat
    BY RoomFacts
  <2> QED
    BY <2>1, <2>2, <2>3 DEF Covered
<1> QED
  BY <1>1, <1>2 DEF OverdraftInv

\* The debit of a commit was checked; what a refund adds is not missed.
LEMMA CommitCovers ==
  ASSUME TypeOK, TypeOK', LockInv, OverdraftInv, NEW p \in Procs, Commit(p)
  PROVE  OverdraftInv'
<1>1. /\ pc[p] = "commit" /\ target[p] \in Files /\ CustomerOf[target[p]] \in Customers
      /\ Price[target[p]] \in Nat
  BY FilesAndAccounts, OwnersAssumption DEF Commit, TypeOK, ProcTypeOK
<1>2. OthersStay(p) /\ pc'[p] \in {"idle", "after"}
  BY <1>1, AfterCommit
     DEF Commit, TxCommit, Goto, OthersStay, TypeOK, ProcTypeOK, TxTypeOK
<1>3. ~Charges(p)' /\ locks'[p] = {}
  BY <1>2 DEF Commit, TxCommit, Charges, TxPoints, TypeOK, TxTypeOK
<1>4. DebitedCustomer(p) => Charges(p)
  BY <1>1 DEF DebitedCustomer, Charges, HasCustomer, LockInv, ChargeLocks, ChargeOps, TxPoints,
              OverdraftInv, Checked
<1>5. ASSUME NEW c \in Customers PROVE Covered(c)'
  <2>1. Covered(c) /\ balance[c] \in Int /\ c \in Accounts /\ c # AdminOf[target[p]]
    BY <1>1, OwnersAssumption DEF OverdraftInv, TypeOK, DbTypeOK, Accounts
  <2>2. OthersKept(p, c)
    BY <1>2, OthersCharge DEF OthersKept, OthersStay, Charging
  <2>3. p \notin Charging(c)'
    BY <1>3 DEF Charging
  <2>4. balance'[c] = balance[c] + Increment(p, c)
    BY <2>1 DEF Commit
  <2>5. CASE p \in Charging(c)
    <3>1. balance'[c] >= balance[c] - Price[target[p]]
      BY <1>1, <2>1, <2>4 DEF Increment
    <3>2. Leaves(p, c)
      BY <2>3, <2>5, <3>1 DEF Leaves
    <3> QED
      BY <2>1, <2>2, <3>2, CoveredStep
  <2>6. CASE p \notin Charging(c)
    <3>1. ~(c = CustomerOf[target[p]] /\ DebitedCustomer(p))
      BY <1>4, <2>6 DEF Charging
    <3>2. balance'[c] >= balance[c]
      BY <1>1, <2>1, <2>4, <3>1 DEF Increment
    <3>3. Stays(p, c)
      BY <2>3, <2>6, <3>2 DEF Stays
    <3> QED
      BY <2>1, <2>2, <3>3, CoveredStep
  <2> QED
    BY <2>5, <2>6
<1>6. \A q \in Procs : Checked(q)'
  BY <1>1, <1>2, <1>3, OthersCharge DEF OverdraftInv, Checked, HasCustomer
<1> QED
  BY <1>5, <1>6 DEF OverdraftInv

LEMMA OverdraftNext == TypeOK /\ TypeOK' /\ LockInv /\ OverdraftInv /\ [Next]_vars => OverdraftInv'
<1> SUFFICES ASSUME TypeOK, TypeOK', LockInv, OverdraftInv, [Next]_vars PROVE OverdraftInv'
  OBVIOUS
<1>a. ASSUME NEW p \in Procs
      PROVE  /\ pc[p] \in Points /\ op[p] \in Ops /\ locks[p] \in SUBSET Docs
             /\ Route(p) /\ ChargeLocks(p) /\ Checked(p)
             /\ pc[p] # "idle" => target[p] \in Files
  BY DEF TypeOK, ProcTypeOK, TxTypeOK, LockInv, OverdraftInv
<1>1. ASSUME NEW p \in Procs, NEW f \in Files, NEW o \in PrepareOps, PrepareSolution(p, f, o)
      PROVE  OverdraftInv'
  <2>1. OthersStay(p) /\ balance' = balance
    BY <1>1 DEF PrepareSolution, Accept, Take, OthersStay, dbVars, txVars
  <2>2. /\ pc[p] = "idle" /\ locks[p] = {} /\ locks'[p] = {}
    BY <1>a, <1>1 DEF PrepareSolution, Accept, Take, ChargeLocks, TxPoints, txVars
  <2>3. Charges(p)' => ~Charges(p) /\ CustomerCovers(target'[p])
    BY <1>1, <2>2
       DEF PrepareSolution, Accept, Take, Charges, HasCustomer, TypeOK, ProcTypeOK
  <2>4. Checked(p)'
    BY <2>2 DEF Checked, HasCustomer
  <2> QED
    BY <2>1, <2>3, <2>4, QuietMove
<1>2. ASSUME NEW p \in Procs, NEW f \in Files, UploadModFile(p, f)
      PROVE  OverdraftInv'
  <2>1. OthersStay(p) /\ balance' = balance
    BY <1>2 DEF UploadModFile, Accept, Take, OthersStay, dbVars, txVars
  <2>2. /\ pc[p] = "idle" /\ locks[p] = {} /\ locks'[p] = {}
    BY <1>a, <1>2 DEF UploadModFile, Accept, Take, ChargeLocks, TxPoints, txVars
  <2>3. Charges(p)' => ~Charges(p) /\ CustomerCovers(target'[p])
    BY <1>2, <2>2 DEF UploadModFile, Accept, Take, Charges, HasCustomer, TypeOK, ProcTypeOK
  <2>4. Checked(p)'
    BY <2>2 DEF Checked, HasCustomer
  <2> QED
    BY <2>1, <2>3, <2>4, QuietMove
<1>3. ASSUME NEW p \in Procs, NEW f \in Files, ManualBuild(p, f)
      PROVE  OverdraftInv'
  <2>1. OthersStay(p) /\ balance' = balance
    BY <1>3 DEF ManualBuild, Accept, Take, OthersStay, dbVars, txVars
  <2>2. /\ pc[p] = "idle" /\ locks[p] = {} /\ locks'[p] = {}
    BY <1>a, <1>3 DEF ManualBuild, Accept, Take, ChargeLocks, TxPoints, txVars
  <2>3. Charges(p)' => ~Charges(p) /\ CustomerCovers(target'[p])
    BY <1>3, <2>2 DEF ManualBuild, Accept, Take, Charges, HasCustomer, TypeOK, ProcTypeOK
  <2>4. Checked(p)'
    BY <2>2 DEF Checked, HasCustomer
  <2> QED
    BY <2>1, <2>3, <2>4, QuietMove
<1>4. ASSUME NEW p \in Procs, NEW f \in Files, RefundFileService(p, f) \/ DeleteFileService(p, f) \/ ChatMessage(p, f) \/ ProgressFileService(p, f)
      PROVE  OverdraftInv'
  <2>1. OthersStay(p) /\ balance' = balance
    BY <1>4
       DEF RefundFileService, DeleteFileService, ChatMessage, ProgressFileService,
           SessionRead, Accept, Take, OthersStay, dbVars, txVars, TypeOK, ProcTypeOK
  <2>2. /\ pc[p] = "idle" /\ locks[p] = {} /\ locks'[p] = {}
    BY <1>a, <1>4
       DEF RefundFileService, DeleteFileService, ChatMessage, ProgressFileService,
           SessionRead, Accept, Take, ChargeLocks, TxPoints, txVars
  <2>3. Charges(p)' => ~Charges(p) /\ CustomerCovers(target'[p])
    BY <1>4, <2>2
       DEF RefundFileService, DeleteFileService, ChatMessage, ProgressFileService, Accept,
           Take, Charges, ChargeOps, TypeOK, ProcTypeOK
  <2>4. Checked(p)'
    BY <2>2 DEF Checked, HasCustomer
  <2> QED
    BY <2>1, <2>3, <2>4, QuietMove
<1>5. ASSUME NEW p \in Procs, RenameUpload(p) PROVE OverdraftInv'
  <2>1. OthersStay(p) /\ balance' = balance
    BY <1>5 DEF RenameUpload, Goto, OthersStay, dbVars, txVars, TypeOK, ProcTypeOK
  <2>2. /\ Charges(p)' => \/ Charges(p) /\ target'[p] = target[p]
                          \/ ~Charges(p) /\ CustomerCovers(target'[p])
        /\ Checked(p)'
    BY <1>a, <1>5, FilesAndAccounts
       DEF RenameUpload, Goto, After, Charges, Checked, Route, PrepareOps, TxPoints
  <2> QED
    BY <2>1, <2>2, QuietMove
<1>6. ASSUME NEW p \in Procs, UpdateCustomerCredit(p) PROVE OverdraftInv'
  <2>1. OthersStay(p) /\ balance' = balance
    BY <1>6
       DEF UpdateCustomerCredit, SessionWrite, Goto, OthersStay, dbVars, TypeOK, ProcTypeOK
  <2>2. /\ Charges(p)' => \/ Charges(p) /\ target'[p] = target[p]
                          \/ ~Charges(p) /\ CustomerCovers(target'[p])
        /\ Checked(p)'
    BY <1>a, <1>6, FilesAndAccounts
       DEF UpdateCustomerCredit, Goto, After, Charges, Checked, TxPoints
  <2> QED
    BY <2>1, <2>2, QuietMove
<1>7. ASSUME NEW p \in Procs, UpdateAdminCredit(p) PROVE OverdraftInv'
  <2>1. OthersStay(p) /\ balance' = balance
    BY <1>7
       DEF UpdateAdminCredit, SessionWrite, Goto, OthersStay, dbVars, txVars, TypeOK,
           ProcTypeOK, TxTypeOK
  <2>2. /\ Charges(p)' => \/ Charges(p) /\ target'[p] = target[p]
                          \/ ~Charges(p) /\ CustomerCovers(target'[p])
        /\ Checked(p)'
    BY <1>a, <1>7, FilesAndAccounts
       DEF UpdateAdminCredit, SessionWrite, Goto, After, Charges, Checked, HasCustomer,
           TxPoints, txVars, TypeOK, TxTypeOK
  <2> QED
    BY <2>1, <2>2, QuietMove
<1>8. ASSUME NEW p \in Procs, PostInformation(p) PROVE OverdraftInv'
  <2>1. OthersStay(p) /\ balance' = balance
    BY <1>8
       DEF PostInformation, SessionWrite, Goto, OthersStay, dbVars, txVars, TypeOK,
           ProcTypeOK, TxTypeOK
  <2>2. /\ Charges(p)' => \/ Charges(p) /\ target'[p] = target[p]
                          \/ ~Charges(p) /\ CustomerCovers(target'[p])
        /\ Checked(p)'
    BY <1>a, <1>8, FilesAndAccounts
       DEF PostInformation, SessionWrite, Goto, After, Charges, Checked, ChargeLocks,
           HasCustomer, txVars, TypeOK, ProcTypeOK, TxTypeOK
  <2> QED
    BY <2>1, <2>2, QuietMove
<1>9. ASSUME NEW p \in Procs, NotifyFromBuild(p) PROVE OverdraftInv'
  <2>1. OthersStay(p) /\ balance' = balance
    BY <1>9 DEF NotifyFromBuild, Goto, OthersStay, dbVars, txVars, TypeOK, ProcTypeOK
  <2>2. /\ Charges(p)' => \/ Charges(p) /\ target'[p] = target[p]
                          \/ ~Charges(p) /\ CustomerCovers(target'[p])
        /\ Checked(p)'
    BY <1>a, <1>9, FilesAndAccounts
       DEF NotifyFromBuild, Goto, After, Charges, Checked, ChargeLocks, HasCustomer, txVars,
           TypeOK, ProcTypeOK
  <2> QED
    BY <2>1, <2>2, QuietMove
<1>10. ASSUME NEW p \in Procs, WriteFile(p) PROVE OverdraftInv'
  <2>1. OthersStay(p) /\ balance' = balance
    BY <1>10 DEF WriteFile, SessionWrite, OthersStay, dbVars, txVars, TypeOK, TxTypeOK
  <2>2. /\ Charges(p)' => \/ Charges(p) /\ target'[p] = target[p]
                          \/ ~Charges(p) /\ CustomerCovers(target'[p])
        /\ Checked(p)'
    BY <1>a, <1>10, FilesAndAccounts
       DEF WriteFile, SessionWrite, After, Charges, Checked, ChargeLocks, HasCustomer,
           txVars, TypeOK, TxTypeOK
  <2> QED
    BY <2>1, <2>2, QuietMove
<1>11. ASSUME NEW p \in Procs, MarkRefunded(p) PROVE OverdraftInv'
  <2>1. OthersStay(p) /\ balance' = balance
    BY <1>11 DEF MarkRefunded, PlainWrite, Goto, OthersStay, TypeOK, ProcTypeOK
  <2>2. /\ Charges(p)' => \/ Charges(p) /\ target'[p] = target[p]
                          \/ ~Charges(p) /\ CustomerCovers(target'[p])
        /\ Checked(p)'
    BY <1>a, <1>11, FilesAndAccounts
       DEF MarkRefunded, Goto, After, Charges, Checked, ChargeOps
  <2> QED
    BY <2>1, <2>2, QuietMove
<1>12. ASSUME NEW p \in Procs, MarkInProgress(p) PROVE OverdraftInv'
  <2>1. OthersStay(p) /\ balance' = balance
    BY <1>12 DEF MarkInProgress, PlainWrite, Goto, OthersStay, TypeOK, ProcTypeOK
  <2>2. /\ Charges(p)' => \/ Charges(p) /\ target'[p] = target[p]
                          \/ ~Charges(p) /\ CustomerCovers(target'[p])
        /\ Checked(p)'
    BY <1>a, <1>12, FilesAndAccounts
       DEF MarkInProgress, Goto, Charges, Checked, ChargeOps, TypeOK, ProcTypeOK
  <2> QED
    BY <2>1, <2>2, QuietMove
<1>13. ASSUME NEW p \in Procs, BuildProgress(p) PROVE OverdraftInv'
  <2>1. OthersStay(p) /\ balance' = balance
    BY <1>13 DEF BuildProgress, SetWinols, PlainWrite, Goto, OthersStay, TypeOK, ProcTypeOK
  <2>2. /\ Charges(p)' => \/ Charges(p) /\ target'[p] = target[p]
                          \/ ~Charges(p) /\ CustomerCovers(target'[p])
        /\ Checked(p)'
    BY <1>a, <1>13, FilesAndAccounts
       DEF BuildProgress, SetWinols, PlainWrite, Goto, Charges, Checked, ChargeLocks,
           HasCustomer, TypeOK, ProcTypeOK
  <2> QED
    BY <2>1, <2>2, QuietMove
<1>14. ASSUME NEW p \in Procs, BuildMatched(p) PROVE OverdraftInv'
  <2>1. OthersStay(p) /\ balance' = balance
    BY <1>14 DEF BuildMatched, Goto, OthersStay, dbVars, txVars, TypeOK, ProcTypeOK
  <2>2. /\ Charges(p)' => \/ Charges(p) /\ target'[p] = target[p]
                          \/ ~Charges(p) /\ CustomerCovers(target'[p])
        /\ Checked(p)'
    BY <1>a, <1>14, FilesAndAccounts DEF BuildMatched, Goto, Checked, Route
  <2> QED
    BY <2>1, <2>2, QuietMove
<1>15. ASSUME NEW p \in Procs, BuildUnmatched(p) PROVE OverdraftInv'
  <2>1. OthersStay(p) /\ balance' = balance
    BY <1>15 DEF BuildUnmatched, OthersStay, dbVars, txVars
  <2>2. /\ Charges(p)' => \/ Charges(p) /\ target'[p] = target[p]
                          \/ ~Charges(p) /\ CustomerCovers(target'[p])
        /\ Checked(p)'
    BY <1>a, <1>15, FilesAndAccounts
       DEF BuildUnmatched, Charges, Checked, ChargeLocks, HasCustomer, ChargeOps, txVars
  <2> QED
    BY <2>1, <2>2, QuietMove
<1>16. ASSUME NEW p \in Procs, Fail(p) PROVE OverdraftInv'
  <2>1. OthersStay(p) /\ balance' = balance
    BY <1>16 DEF Fail, TxAbort, Goto, OthersStay, dbVars, TypeOK, ProcTypeOK
  <2>2. /\ Charges(p)' => \/ Charges(p) /\ target'[p] = target[p]
                          \/ ~Charges(p) /\ CustomerCovers(target'[p])
        /\ Checked(p)'
    BY <1>a, <1>16, FilesAndAccounts
       DEF Fail, Goto, Charges, Checked, ChargeOps, TypeOK, ProcTypeOK
  <2> QED
    BY <2>1, <2>2, QuietMove
<1>17. ASSUME NEW p \in Procs, Finish(p) PROVE OverdraftInv'
  <2>1. OthersStay(p) /\ balance' = balance
    BY <1>17 DEF Finish, Goto, OthersStay, dbVars, txVars, TypeOK, ProcTypeOK
  <2>2. /\ Charges(p)' => \/ Charges(p) /\ target'[p] = target[p]
                          \/ ~Charges(p) /\ CustomerCovers(target'[p])
        /\ Checked(p)'
    BY <1>a, <1>17, FilesAndAccounts
       DEF Finish, Goto, Charges, Checked, ChargeOps, TypeOK, ProcTypeOK
  <2> QED
    BY <2>1, <2>2, QuietMove
<1>18. ASSUME NEW p \in Procs, NEW f \in Files, BuildStart(p, f) PROVE OverdraftInv'
  <2>1. OthersStay(p) /\ balance' = balance
    BY <1>18 DEF BuildStart, Take, OthersStay, dbVars, txVars
  <2>2. ~Charges(p)' /\ Checked(p)'
    BY <1>a, <1>18 DEF BuildStart, Take, Charges, Checked, TxPoints, TypeOK, ProcTypeOK
  <2> QED
    BY <2>1, <2>2, QuietMove
<1>19. ASSUME NEW p \in Procs, Commit(p) PROVE OverdraftInv'
  BY <1>19, CommitCovers
<1>20. ASSUME UNCHANGED <<balance, locks, pc, op, target, funds>> PROVE OverdraftInv'
  BY <1>20 DEF OverdraftInv, Covered, Checked, Charging, Charges, HasCustomer
<1>21. ASSUME NEW f \in Files, CloseFileService(f) \/ JobStep(f) PROVE OverdraftInv'
  <2>1. UNCHANGED <<balance, locks, pc, op, target, funds>>
    BY <1>21
       DEF CloseFileService, JobStep, FileProcessStart, FileProcessEnd, QueueBuild,
           OnFailed, SetWinols, PlainWrite, dbVars, txVars, procVars
  <2> QED
    BY <1>20, <2>1
<1>22. CASE UNCHANGED vars
  BY <1>20, <1>22 DEF vars, dbVars, txVars, procVars
<1>23. CASE Crash
  <2>1. \A p \in Procs : Checked(p)'
    BY <1>23 DEF Crash, Checked
  <2>2. ASSUME NEW c \in Customers PROVE Covered(c)'
    <3>1. Charging(c)' = {}
      BY <1>23 DEF Crash, Charging, Charges, TxPoints
    <3> QED
      BY <1>23, <3>1 DEF Crash, dbVars, OverdraftInv, Covered
  <2> QED
    BY <2>1, <2>2 DEF OverdraftInv
<1> QED
  BY NextCases, <1>1, <1>2, <1>3, <1>4, <1>5, <1>6, <1>7, <1>8, <1>9, <1>10, <1>11, <1>12, <1>13, <1>14, <1>15, <1>16, <1>17, <1>18, <1>19, <1>20, <1>21, <1>22, <1>23
     DEF JobStep

\* Handlers that checked the same credits may overdraw a customer together, but by no
\* more than one file for each of them but one (prepareSolution, uploadModFile, manualBuild,
\* the build job), for any prices and any number of handlers, files and customers.
THEOREM OverdraftAlways == Spec => []OverdraftBounded
<1>1. OverdraftInv => OverdraftBounded
  BY DearestFile, RoomFacts DEF OverdraftInv, Covered, Room, OverdraftBounded
<1>2. Spec => []OverdraftInv
  BY TypeCorrect, LocksCorrect, OverdraftInit, OverdraftNext, PTL DEF Spec
<1> QED
  BY <1>1, <1>2, PTL
=============================================================================
