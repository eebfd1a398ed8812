# TLA+ models of the AI-Tuning back end

The back end (`src/src`) sells chip-tuning files. It is a NestJS server over
MongoDB (mongoose, multi-document transactions), Bull queues on Redis, an
S3-like store, a folder shared with WinOLS (an external Windows program), and the
HTTP interfaces of PayPal, EVC, AlienTech (Kess3), AutoTuner, AutoFlasher and FlexSlave. One Node
process, restarted by PM2 when it dies (`ecosystem.config.js`), runs everything:
concurrency is the interleaving of request handlers and queue workers at
their `await`s. There are almost no tests (`test/app.e2e-spec.ts` is the
generator's).

## 1. Inventory

| Component | State it keeps | Operations | Interacts with | What is hard | What makes it correct |
|---|---|---|---|---|---|
| File services (`file-service`) | the `FileService` documents: status, payment status, WinOLS status, original and modified files; temporary uploads and their directories | prepare, upload the modified file, manual build, refund, delete, close, progress, build from the queue | credits, chat, queues, storage, mail, decoders, scripts, WinOLS | several handlers on one document, some reads and writes outside the transaction; stale copies in job data; failure and restart between steps | charges paired and counted, nothing delivered unpaid, the queue concludes |
| Credits (`customer.updateCredit`, `admin.updateCredit`) | credits of customers and portals | `$inc` with a session | file services, purchases | checks made before the debit | no debit without its twin; overdraft bounded |
| WinOLS pipeline (`queue-manager`, `fileProcess`, `buildFileProcess`) | Bull jobs with copies of documents | process, build, completed and failed events | file services, mail | copies go stale; events are lost when the process stops | a queued job ends with OK or FAILED |
| MongoDB transactions (`app.module.ts`) | locks, snapshots | session write, plain write, commit, abort | all services | which calls carry the session | |
| Purchases (`purchase`, `invoice`, `evc`) | invoices, PayPal orders, EVC balances | create an order with VAT, capture it and add credits | credits, PayPal, EVC | money is captured before the transaction commits; redirects repeat, and name an invoice and an order that are not compared | an order adds credits once, and only after it was captured; VAT where it is due |
| Pricing (`pricing`, `admin-pricing`, `solution`) | a price matrix: portal x solution x customer type | add and remove rows and columns, update, calculate a file's price | admins, customer types, file services | rows and columns added at the same time; read-then-write without a session | the matrix is complete; the price lies within its limits |
| Authentication (`auth`, `verification-mail`, `security`) | users, verification codes, JWTs | login, verify code, reset password, resend, refresh | mail | a code checked outside the transaction that uses it; the time limit | a code admits once and in time |
| Chat and support tickets (`chat`, `support-ticket`) | messages, ticket status | create (reopens), close, remove | file services, mail, storage, Catapush | the store and the disk are outside the transaction | what is named is stored, nothing is left behind |
| DTC jobs (`dtc`) | DTC documents and their queue | create, process, delete | WinOLS folder, storage | polling an external program; failed jobs | every document ends completed or failed |
| Decoders (`kess3`, `auto-tuner`, `auto-flasher`, `flex-slave`, `decode-encode`) | access tokens, remote slots, decodings and their files | decode, encode, poll, download | file services, credentials, storage | slots are few; polling; expired tokens; an upload of a file still being written | a slot is given back; a decoding ends; what it names is stored |
| Scripts (`script`, `car`, `car-controller`, `automatisation`) | scripts, cars, controllers, and directories and files on disk | create, replace, delete, rename, offer | file services | files and documents change separately; downloads share a path | a script's file is where its documents say; what is offered was compared whole |
| Accounts (`customer`, `admin`, `employee`, `user`, `super-admin`, `profile`) | users and the profile of each role | create, update, delete | mail, pricing, credits, EVC | several documents per account; writes without the session; a look-up before an insert | one user per account, one customer per address, a portal with its defaults |
| Notifications (`emailQueue`, `catapushMessageQueue`, `mail`, `catapush`) | Bull jobs | send, retry | every service | a job for several recipients starts again from its beginning | each is told once in a run; no job ends unfinished |
| Credentials (`credential`) | a document per portal | update, read | decoders, mail | written whole by the portal and in part by a renewed token | |
| Storage and assets (`storage-service`, `logo-manager`) | objects under keys | upload, delete | all uploads | objects are not part of any transaction | no orphan, no dangling key |
| Employee roles, dashboard, settings, migration, common | single documents, queries, scripts that run once | read, update | | | |

## 2. Modules

| Module | Models | Composes |
|---|---|---|
| `MongoTx` | the MongoDB transactions every handler uses: locks, snapshots, write conflicts, writes without the session, updates of many documents | |
| `CreditLedger` | the abstract promise about money: a charge debits both accounts and settles the file in one step | |
| `FileService` | the handlers of `file-service.service.ts` with both WinOLS queues, the credits, chat's reopening, failures and restarts | `MongoTx`; implements `CreditLedger` |
| `Dtc` | `dtc.service.ts`, its queue, the folder shared with WinOLS, the store | |
| `Purchase` | buying credits (with VAT) and verifying the payment, with PayPal and EVC outside the transaction | `MongoTx` |
| `Tickets` | support tickets and messages, with uploads, the store and e-mails | `MongoTx` |
| `Verification` | verification codes: sent, found, used, expired | `MongoTx` |
| `PricingMatrix` | who has prices (portals, customer types, solutions, updates), and what a file costs its customer and its portal | `MongoTx` |
| `Decoders` | decoding and encoding a portal's file with the four tools: slots, tokens, polling, objects | |
| `Accounts` | customers, employees and portals with their users, the unique index, EVC | `MongoTx` |
| `Scripts` | cars, controllers and scripts with their directories, the download of originals, what a customer is offered | `MongoTx` |
| `Notifications` | the two message queues from producer to remote service | |
| `MC...` | the instances TLC checks (`Dtc` and `Decoders` need none) | |
| `FileServiceInvariants`, `ScriptsInvariants` | the inductive invariants of `FileService` and of `Scripts` | |
| `FileServiceProofs`, `PurchaseProofs`, `TicketsProofs`, `VerificationProofs`, `PricingMatrixProofs`, `AccountsProofs`, `ScriptsProofs` | the theorems of the module they are named after | |
| `WorkProofs` | the theorems of the components whose work leaves the server: `Notifications`, `Dtc` and `Decoders` (whose `DtcSpec`, `DecodersSpec`, `dtcJob` and the like are named so that the three can be extended together) | |

### How state and actions correspond to the code

*Handlers.* Where several requests or workers run at once there is a set `Procs`
of handlers in flight, each with a program point (`pc`, in `Scripts` `at`), an operation (`op`) and
what it works on (`target`). One action is one awaited operation (a database
write, an upload, a call to PayPal), together with everything the code does up
to the next `await` that matters: that is where Node may run another handler.
Requests (`PrepareSolution`, `CreateChat`, ...) are the part of a method before its
first write; a request that the checks refuse changes nothing and is no step.
`Dtc` has one worker, so its program points belong to the document; in `Notifications`
they belong to the job.

*Transactions.* A handler that holds a session collects the documents it wrote in
`locks[p]`; what it wrote takes effect in `Commit`. A write with the session to a
document that another open transaction wrote, or that changed after the handler's
snapshot, is a WriteConflict, which every handler answers with
`abortTransaction`. A write without the session (`PlainWrite`; the code has many) waits for the
lock and is final at once. Which calls carry the session was read off each call.
`Accounts` treats the entries of the unique index on the customers' addresses as documents:
two inserts of one address conflict, or the second is a duplicate key.

*Stale copies.* What a handler read before an `await` is kept in a variable of the
handler (`loc`, `funds`, `view`, `found`, `reopening`, `email`, `held`) or of its job (`jobCredits`) and used as
it was then.

*Failures.* `Fail` (or `JobFails`, `MoveFails`, `DeleteFails`, a refusal in `Decoders` and `Notifications`) makes the awaited
call throw; `Crash` (or `Restart`) stops the server: handlers vanish, MongoDB drops their transactions,
Bull runs active jobs again and events not yet handled are lost. A remote service that refuses may have
done what it was asked (a slot opened, an e-mail sent): the answer can be lost.

*The disk and the store* are variables of the modules that use them: they take part in no transaction, and a
restart leaves them as they are. In `Scripts` an original that is being downloaded is the set of the blocks written so
far, since other handlers find it under the same path; `partial` in `Decoders` is the file uploaded while it is being written.

*Data.* Credits are integers; a file costs its customer `Price[f]` and its portal
`AdminPrice[f]`; names, texts, byte contents and dates are left out. `PricingMatrix`
keeps which entries exist; the prices themselves are operators (`SolutionCredits`, `CategoryCredits`,
`AdminCredits`) over small amounts; the entries of the three make
types, which are always added and removed together, are one. VAT is computed in whole hundredths (`CalculateVat`).

Operators whose comment begins with "Variant" are the plausible bugs that show
that a property can fail; no action uses them.

## 3. Runs

| Run | Question | Result |
|---|---|---|
| `file_service` | two handlers on one file, four requests, one restart, every interleaving: are charges paired, settled and counted, and is the abstract ledger implemented? | holds, 2 978 988 states |
| `file_service_fair` | does a queued WinOLS job always end with the file marked, and does every handler get every lock it waits for, without any step failing? | holds, 60 018 states |
| `dtc` | two documents, one failing operation, one restart: is an answer that a document names in the store, has a FAILED document none, through a job that Bull runs again, is a result final, is a queued document concluded? | holds, 84 706 states |
| `purchase` | four invoices of two buyers, any order brought with any invoice, two handlers, a fault, a restart: does an order add credits once, after the money was taken, and do balances add up? (VAT where it is due: an assumption that TLC evaluates) | holds, 3 980 452 states |
| `tickets` | two handlers on a ticket and a file service, a fault, a restart: is what a ticket names stored, is a comment saved with its ticket, are uploads removed? | holds, 1 388 914 states |
| `verification` | two codes, two handlers, a fault, a restart, a running clock: is a user verified exactly when a code of his was marked used, and in time? | holds, 1 182 724 states |
| `pricing_matrix` | two portals (one created meanwhile), three types, a solution, a customer, two updates, a fault: does every type have its row, limits, cells and EVC price, and do the prices lie within their limits? | holds, 2 403 062 states |
| `decoders` | three requests on one decoding, every refusal, expiry and restart: do slots come back, is what is named stored, does the work end? | holds, 186 134 states |
| `notifications` | two jobs of any kind, refusals, lost answers, restarts, a changing staff: is each told, and at most once in a run? | holds, 1 464 500 states |
| `accounts` | two accounts of any role, two addresses, two handlers, failures and restarts at every step: do users and profiles stay paired and addresses unique? | holds, 306 376 states |
| `scripts` | a car, two controllers, two scripts and one original, three requests by two handlers: is a script's file where its documents say, through renames and moves, and is what is offered sound? | holds, 1 750 297 states |
| `purchase_captured` | does captured money become credits? | violated (section 5) |

`CHECK_DEADLOCK FALSE` stands in every configuration: requests are voluntary and
bounded, so a system whose requests are all served rightly stops.

*Bounds.* `MaxRequests` = 4 in `file_service` is enough for a file to be prepared,
queued, and then met by two more handlers while the pipeline runs (the pipeline
itself is not a request), which is where a stale document is written over a newer
one; all the variants of the table of section 4 are found within it. `MaxCrashes`
= 1 and `MaxFaults` = 1 put one restart and one failure at every step; in
`FileService`, `Decoders`, `Accounts`, `Scripts` failures are unbounded, in the last three restarts too. What several restarts add up to
in the others is covered by the theorems where there are any,
and only there. Two handlers put a whole handler between any two steps of another, which is the shape of every race
found while reading the code; the theorems do not bound them, and for the rest a chain of three is checked in `decoders` only
(`accounts` holds with three handlers too, 7.9 million states, which takes too long to keep). The bound of the
overdraft is stated with `Cardinality(Procs)`. `InitialCredits` = {1, 2} has
accounts that can pay once and twice. `MaxTime` = 5 half-minutes lets a code of one
minute pass its limit, the grace of the whole-minute comparison, and the end of
that. `MaxRetry` stands for the 7 of the code, `Timeout` for the minute after which polling ends. In `pricing_matrix` a second type of
one portal, the type of a second portal and one solution are the smallest
matrix in which a row can meet a column; the two updates may overlap. Prices, limits and amounts are 0 to 2: zero, a price under, at and over each limit.
In `purchase` four invoices are three of one customer (two sizes, one of them for EVC credits) and one of another seller, so that an order
can be brought with an invoice of its own seller, of another kind and of another seller. In `scripts` three requests let a script be made, and then met by a renaming and by an offer, or by a second script from the same original.
In `notifications` one worker and two jobs make a job wait; `Attempts` and `MaxStalled` are those of the code.

*Symmetry* is used for handlers (and codes, documents or names that are interchangeable), in runs without liveness only.

*Fairness.* In `FileService` and `Purchase` every handler is resumed when its database call was answered: its progress steps are weakly
fair, and in `FileService`, apart from them, the failure of a step that cannot succeed (`Refused`: a WriteConflict, an upload
or a document that is gone, credits that do not suffice). No other failure is fair: a handler that waits for a lock waits until the lock is free, and `HandlersReturn` shows that it
does not wait for ever. Bull runs each queued job (weak fairness of `JobStep` and `BuildStart`). In `Decoders` each handler's steps are weakly
fair: every request of the remote services is answered or fails, whichever it is. In `Dtc` the worker's steps are
strongly fair per document: the queue has one worker, so starting the job of a
document is enabled again and again, whenever the job before it ended, and Bull
serves jobs in their order. Requests, WinOLS, payers, failures of a step that could succeed, expiring tokens and restarts are never assumed to happen
(in `Decoders` a failure is one of the answers).

## 4. Properties

| Property | Says | Broken by (variant) |
|---|---|---|
| `ChargesPaired` | portal and customer are charged equally often | the portal debited without the session |
| `PaidWasCharged` | PAID only on a charged file, in spite of stale documents written back | every build marks the file paid |
| `DeliveredIsSettled` | no download from an UNPAID file, and WinOLS_OK only with the file and the charge | the upload does not set the payment status; the partial result marked OK |
| `PreparedOnce` | one upload becomes one file service | the directory copied instead of renamed |
| `OverdraftBounded` | a customer is overdrawn by at most a file for each other handler | no check of the credits in the upload |
| `RemovedForGood` | no write brings a removed file back | updates with upsert |
| `LedgerSpec` | every step is a step of `CreditLedger` or none (the ledger leaves open when a file is marked REFUNDED, since the refund marks it outside its transaction, `file-service.service.ts:1868`) | a refund takes the credits |
| `PipelineSettles`, `HandlersReturn` | jobs are concluded; nobody waits for a lock for ever | the failed event only logged; the refund touches the file in its session before it writes the file without it |
| `OutputIsStored`, `FailedHasNoAnswer`, `ResultIsFinal`, `JobConcludes` | what `dtc` asks | the folder deleted first; a file that is missing taken to be with WinOLS already, when the job runs again; the job left in the queue; giving up without FAILED |
| `CreditedOnce` | an order adds credits once, to one invoice, here or at EVC | a failed step repeated |
| `BalancesAddUp` | accounts hold what their invoices bought, once for every order that paid them | the credits, or the invoice, saved without the session |
| `PaidWasCaptured` | an invoice is PAID exactly if it names an order, captured before by the same seller and named by no other invoice | the answer not compared |
| `UploadsMatch`, `CommentSavedWithTicket` | what `tickets` asks | the upload not awaited, no clean-up; a session of its own for the comment |
| `UsedIffVerified`, `ResetsByCodes` | a user is verified exactly when a code of his was marked used; codes reset passwords in number and in time | the code saved without the session, not marked, or marked by an update that finds it gone; its type not asked for, a minute more |
| `MatrixComplete` | the matrix is complete and each type has an EVC price | cells set instead of pushed; no EVC price for a new type |
| `FilesPriced` | every row has limits, and every price respects them | limits forgotten; a price below the lower limit not raised |
| `SlotsReturned`, `NamedIsStored`, `WorkEnds` (`Decoders`) | a slot nobody works on is closed or was left by a named failure; what is named is stored whole; polling ends | a failed decoding does not close; uploads not awaited; polls without a limit |
| `ToldOncePerRun` | a job is done when all were told, given up when the queue's limits are reached, and tells nobody twice in a run | a refused message skipped |
| `AccountsPaired`, `AddressesAgree` | a profile has its user, a portal its defaults, EVC its numbers; customers log in with an address nobody else has | the profile removed without the session; no unique index |
| `NamedIsStored`, `OffersAreSound` (`Scripts`) | a script's file is in the directory its car and controller name now, also after the controller was moved; what is offered was compared to the end and not deleted | a directory not renamed; sizes not compared |

## 5. Disagreements between the code and what it says

Checked by a run: `purchase_captured`. Two payments of one account verified at once conflict after both were captured; one is never credited (`purchase.service.ts:239`).

Seen with the same models; the definition is in the module, no run is kept for it, and TLC
finds the counterexample with the configuration of the component, the definition added as an invariant or property:

| Definition | What the code does |
|---|---|
| `ManualBuildCovered` (FileService) | `manualBuild` compares with `admin.credits`, which it did not select (`file-service.service.ts:1621`, `1634`): a portal without credits is charged, in spite of the comment at 1632 |
| `DeliveredIsTold` (FileService) | `buildSolution` has already set PAID, so the block that informs the customer of a manual build never runs (`file-service.service.ts:1703`, comment at 1708) |
| `PipelineBuildCovered` (FileService) | the build job compares the portal's credits copied into the job's data (`file-service.service.ts:1209`) |
| `ReadyIsDownloadable` (FileService) | the build job tells the customer before it writes and commits (`file-service.service.ts:1224`) |
| `WaitingEnds` (Dtc) | a job that fails anywhere but at its last look is only logged; the document stays in PROGRESS (`dtc.service.ts:136`) |
| `DeletedIsGone` (Dtc) | an answer uploaded while its document is deleted stays (`dtc.service.ts:83`) |
| `ReopenMailFits` (Tickets) | the two reopening e-mails are swapped (`chat.service.ts:166`, `180`) |
| `DeletedTicketIsGone` (Tickets) | a message saved while its ticket is removed stays (`support-ticket.service.ts:167`) |
| `DeletedFileIsGone` (Tickets) | `delete(dir, key)` repeats the directory that is in the key (`chat.service.ts:234`) |
| `FoundInTime` (Verification) | whole minutes compared with `>`: the code lives almost a minute longer (`verification-mail.service.ts:60`) |
| `SentCodeWorks` (Verification) | the code of a login is saved under the address as typed and looked up in lower case (`auth.service.ts:81`, `125`) |
| `UpdateKeepsMatrix` (PricingMatrix) | `updatePricing` writes back a whole document it read without a session (`pricing.service.ts:519`) |
| `NewPortalComplete` (PricingMatrix) | a portal and a solution created at once miss each other (`pricing.service.ts:370`) |
| `CustomersHaveType` (PricingMatrix) | a type is deleted while a new customer gets it (`customer.service.ts:264`) |
| `DefaultTypeStays` (PricingMatrix) | the guard reads a name that was not selected (`customer.service.ts:250`, `255`) |

Noticed while modelling, each modelled as the code does it, or outside a model:

- `verifyAndSaveCredits` takes the invoice and the order from the request and compares neither with the other, nor asks for the status of the invoice (`purchase.service.ts:228-256`): an order credits the invoice it is brought with, whichever of its seller's, and an invoice credits its buyer once for every order. `Purchase` models it so; what it promises is said of orders.
- PayPal is asked for `totalPrice`: the VAT on the invoice is never taken (`purchase.service.ts`, the call of `createOrder` in `purchaseCredits`).
- An encoding of Kess3 that fails leaves its slot open: only decoding has a catch (`kess3.service.ts:315-419`). `SlotsReturned` names that case in `unreturned`.
- Kess3's encoded file is written without being awaited and uploaded meanwhile (`kess3.service.ts:153`); `partial` in `NamedIsStored`.
- A failed `encodeMod` deletes under a key with the directory in it twice (`decode-encode.service.ts:178`).
- AutoFlasher tests the credentials of AutoTuner, which it did not select: every request fails (`auto-flasher.service.ts:253-256`).
- The default e-mail configuration is unreachable: a portal without a mail section makes the job fail (`mail.service.ts:44`).
- The check of an EVC number at registration is inverted (`customer.service.ts:46-57`).
- Updates of an account keep the letters of an address as typed, logging in does not; two updates of one customer at once may leave its two documents with different addresses (`customer.service.ts:123`).
- A customer is deleted without the session in which the user is (`customer.service.ts:293`): the user may stay. An employee's profile is updated as a customer (`profile.service.ts:45`).
- `car.update` never renames the directories of scripts: its path lacks `scripts`. A controller that one update moves to another car and renames leaves its scripts under the old name: the directory is looked for under the new car (`car-controller.service.ts:106-121`); one moved to another portal leaves them behind. `deleteScript` ignores the super admin's tree. Removing a car or controller deletes the directory before the commit.
- Two scripts created at once from one file service share the path of its original: one may compare with a part of it, or find it removed (`script.service.ts:149`). `replaceScript` leaves a partial original behind.
- The cell of a removed solution, brought back by an update or a new portal, makes `calculateCredits` throw; a solution-based price below the lower limit but not 0 is not raised, so that adding a cheap solution can lower the price.

## 6. Proofs

All theorems are for any number of files, documents, invoices, codes, jobs, handlers, requests, faults and restarts, and any
prices; they assume only the named `ASSUME`s of the constants (owners, prices that are natural numbers, files of the super admin free,
disjoint kinds of documents and names, finitely many handlers and files, at least one of each). TLC evaluates each of these assumptions in a run.

*FileService.* The invariants are conjunctions of parts that rest on each other
(`FileServiceInvariants`):

1. `TypeOK`.
2. `LockInv`: at each program point the transaction of a handler has written
   exactly what its operation has debited by then. `ChargesPaired` is not inductive, since the two debits are two
   steps: what `Commit` counts is what is in `locks`, so one has to know that at `commit`
   the customer is there exactly when the portal is.
3. `ExistsInv`: an upload with a temporary directory is not prepared, and one
   handler at most is past the rename. It gives `PreparedOnce` and `RemovedForGood`.
4. `DocInv`: what a handler holds, however old, can only have been
   overtaken by a settlement; what it will commit, with the debits in its
   `locks`, is paid for. `PaidWasCharged` and `DeliveredIsSettled`
   need it because `manualBuild` and the build job write back documents read long before.
5. `OverdraftInv`: `OverdraftBounded` is a potential over the handlers. Let `k` be the number of handlers between check and debit
   (`Charging`) on the files of a customer. Either the customer has nothing to lose in them, or one of these handlers saw the credits that it takes, and
   each of the others can take at most the dearest file (`Covered`). A debit takes its handler out of
   the set and its price out of the credits (`CommitCovers`, `CoveredStep`), a check brings in a handler that sees the
   credits as they are. The dearest of finitely many prices exists because strict inclusion of finite sets is well-founded.
6. `LedgerImplemented`: every step maps to a step of `CreditLedger` or to a stutter, case by case on the operation that commits.

*Dtc.* `WorkInv` (one active job; the worker is only at a document whose job is active; Bull hears of a job's end in a step of its own, `EndJob`, so that
a restart in between runs a job again that has done its work) and `StoreInv` (a document that names an answer exists and is stored, the folder goes
only after the document, the worker concludes after the upload) give `OutputIsStored`. `VerdictInv` follows the file: as long as it can still be moved to WinOLS no answer is
stored, and a document that is FAILED has no worker that could still store one; a second run of its job finds the file gone and stops.
It gives `FailedHasNoAnswer`, with any number of restarts. The action property `ResultIsFinal` rests on this: before the first restart a concluded document
has no job waiting and no worker that could write it, since a job ends with its worker's last write.

*Purchase.* PayPal captures an order once; hence at most one handler is past the capture of an order, no invoice names that order yet and EVC has added nothing
for it (`CreditingInv`), whichever invoices the handlers work on. That makes `CreditedOnce` and `PaidWasCaptured` inductive.
`BalancesAddUp` is about a sum over payments, pairs of an invoice and an order. It is stated as the number of elements of a set (the credits that payments bought, each
tagged with its payment), so that a commit adds a disjoint finite set and the library's theorems on cardinality
do what an induction would; `BalanceInv` adds that those sets are finite. `VatAlways` is about the calculation alone, for any rate and price.

*Tickets.* At each program point a handler knows something about its upload (on the disk, in the store, or never there) and about what its
transaction wrote. `TicketInv` says so for all of them and that no two handlers work on one document; `UploadsMatch` needs that an upload is
in the store before the document that names it is saved, and that every way out passes the clean-up.

*Verification.* `UsedIffVerified` relates two documents, a code and a user. What a commit writes is what its session holds; `HeldInv` says that at
the commit it holds both. Beside it the invariant says that a code that is marked has been committed (`UsesInv`), that unsent
codes were not used and that what a handler found was good when it found it (`FoundInGrace`), which must
survive that the clock runs between two steps and that the deletion of an expired code is not awaited
(`ExpiringSent`: who deletes a code was told that it had been sent). That a marked code never becomes unused again is part of `Resets`. `ResetsByCodes` bounds a counter by handlers times used codes,
because the code marks a code used without asking whether it still is unused. `Resets` is a potential: the resets of a
user, with the handlers that still may reset it, do not exceed that product; a handler that finds a code unused is counted against the
handlers the code has left, and once the code is used no handler can find it again.

*PricingMatrix.* Types: every handler is at a step of its operation, with exactly the documents of that step in its transaction (`Route`).
`FilesPriced` needs that a copy that will be written back has limits for its rows too (`PricedInv`), and `CreditsWithinLimits`
is a theorem about the calculation alone, for any prices. `MatrixComplete` is about additions and removals that
overlap: each handler pushes or pulls what it read before it wrote. `SeenInv` says that
what a handler saw is still so, or the pricing document that it is about to write has changed since, so that its write
fails with a conflict; `EvcInv` that a portal's EVC prices follow its types at each commit. Both need `TxInv`: a document is locked by one transaction, and
what that transaction locked has not gone stale.

*Accounts.* `Safe` says of each handler what it read of its account, what it wrote in its session, and whether another handler of the same account ran
meanwhile (`raced`). `AddressesAgree` holds although two look-ups can both find an address free: the unique index (`UniqueInv`)
lets one insert through, and every address in a profile was first written to a user.

*Scripts.* A script is a document and a file, and the path of the file is built anew from the names of car and controller by everyone who
needs it. `NamedIsStored` and `OffersAreSound` are not inductive: what makes them true is who may be where. `ScriptsInvariants` has

1. `WorkInv`: the types, and what the job of each handler holds at each step.
2. `MakingInv`: one handler makes a script, which has no document before its file was written; one whose file is about to be unlinked has none any more.
3. `SharedInv`: two handlers at one script or one original have been noticed (`shared`).
4. `OrigInv`: while nobody shared, an original on the disk is a beginning of the original, who stores it has stored all of it
   that is there, and what passed the comparison of sizes is whole. It gives the second half of `OffersAreSound`.
5. `DirInv`: for a controller that is followed (not in `strayed`), a handler that changes it is alone at it (`AloneInv`), no other controller of the portal has, had or
   will have its name and nobody looks for a directory by it (`NamesInv`, `Seeks`), its car stays (`CarInv`), and the paths that handlers computed earlier are still right (`Knows`). Hence its scripts
   are where its name says, or where the handler between the write and the rename will take them from (`PlacesInv`, `Renames`), and a script
   that is replaced is a script of the controller that was searched (`ReplacesInv`). `place` holds what a controller names other than this car and
   portal: an update builds both paths from what the request names, so that a move alone touches no directory of this car.
6. `DeletedInv`: a script that was deleted has no file and nobody at work on it, except in the cases `OffersAreSound` names (`Excused`).

Without `NamesInv` the proof breaks at `RenameDir`: a directory could be moved onto that of another controller. The look-up of a name
is not in the transaction, so a name is free only as long as no other handler has chosen it, which `strayed` records.

*Decoders.* `SlotsReturned` is not inductive: a slot may be open because another handler opened it again. `SlotsOwed`
says who owes an open slot: a handler between the upload and the closing, or nobody, when a named failure left it. `Stored` says that what a
handler is about to name is in the store, where nothing is removed, and that only Kess3 names files as Kess3 does. (`Answered` lets a new token heal a 401 everywhere; the code asks for one at
a relative address, `kess3.service.ts:436`, so it allows more answers than there are, which no property relies on.)

*Notifications.* Beside `ToldOncePerRun`: where a run is, it has told what is not in `todo`, failures and restarts are counted
once for every run that ended, and a job is given up only when the counters are full.

Each inductive invariant was first checked by TLC as an invariant of the component's run.

*Only model-checked:* the liveness properties `PipelineSettles`, `HandlersReturn`, `JobConcludes` and `WorkEnds` (fairness and ENABLED are out of the
prover's reach), and the bounded comparison of the price functions with amounts up to two, which `CreditsWithinLimits` generalises.

## 7. Not modelled

Passwords, tokens and guards, employee roles and permissions (no state that handlers share), the wording of mails,
dashboards and queries (they change nothing), logos and avatars (a file beside a single write), single-document updates of settings, the byte comparison of scripts
(an algorithm over file contents; `Scripts` counts blocks), the extraction of fields from the answers of the decoders, migrations that ran once, code generated or vendored.
`migration` is mostly a table of countries and code that is commented out. Which step of a service produces
a message is in the module of the service where it matters (`FileService`, `Tickets`); `Notifications` begins with the job.
`PROJECT.json` names each part with its status.

## 8. Plan

Done, in order of importance: money (`CreditLedger`, `FileService`, its proofs), `Dtc`, `Purchase`, `Tickets`, `Verification`, `PricingMatrix`, `Decoders`, `Notifications`, `Accounts`, `Scripts`.

What would come next:

1. Abstract specifications: a shop that a `Purchase` implements (an order is taken and credited as one step, or is pending), a matrix that `PricingMatrix` implements.
2. The decoding behind a customer's upload as the first step of `FileService`, composed with `Decoders`.
