----------------------- MODULE FileServiceInvariants -----------------------
(***************************************************************************)
(* The inductive invariants behind the theorems about FileService: what a  *)
(* handler has locked, holds and will write at each of its steps, and what *)
(* that says of the committed documents.  Each rests on the ones before.   *)
(***************************************************************************)
EXTENDS FileService

\* The operations that charge the file.
ChargeOps == {"prepareAuto", "upload", "manual", "build"}

\* Those that write back a document they read under the lock.
CopyOps == {"chat", "delete", "buildPartial"}

\* Which operations come to which step.
Route(p) ==
    /\ pc[p] = "idle" => op[p] = "none"
    /\ pc[p] = "rename" => op[p] \in PrepareOps
    /\ pc[p] = "customer" => op[p] \in ChargeOps \cup {"refund"}
    /\ pc[p] = "admin" => op[p] \in ChargeOps
    /\ pc[p] = "information" => op[p] \in {"upload", "manual", "build"}
    /\ pc[p] \in {"winols", "match", "notify"} => op[p] = "build"
    /\ pc[p] = "status" => op[p] = "progress"
    /\ pc[p] \in {"file", "commit"} => op[p] \notin {"none", "progress"}
    /\ pc[p] = "after" => op[p] \in PrepareOps \cup BuildOps \cup {"upload"}

HasCustomer(p) == CustomerOf[target[p]] \in locks[p]
HasAdmin(p) == AdminOf[target[p]] \in locks[p]
HasFile(p) == target[p] \in locks[p]
SuperFile(p) == AdminOf[target[p]] \in SuperAdmins

\* What p's transaction has written by each step: the two debits of a charge
\* are both there or both missing, except between the one and the other.
ChargeLocks(p) ==
    /\ pc[p] \notin TxPoints => locks[p] = {}
    /\ pc[p] = "rename" => locks[p] = {}
    /\ pc[p] = "customer" =>
          IF op[p] = "upload"
          THEN ~HasFile(p) /\ ~HasCustomer(p) /\ (HasAdmin(p) <=> ~SuperFile(p))
          ELSE locks[p] = {}
    /\ pc[p] = "admin" =>
          IF op[p] = "upload" THEN locks[p] = {}
          ELSE ~HasFile(p) /\ HasCustomer(p) /\ ~HasAdmin(p)
    /\ pc[p] \in {"information", "notify", "file", "commit"} =>
          CASE op[p] = "refund"    -> HasCustomer(p) /\ ~HasAdmin(p) /\ ~HasFile(p)
            [] op[p] = "upload"    -> HasCustomer(p) /\ (HasAdmin(p) <=> ~SuperFile(p))
            [] op[p] \in ChargeOps \ {"upload"} -> HasCustomer(p) <=> HasAdmin(p)
            [] OTHER               -> ~HasCustomer(p) /\ ~HasAdmin(p)
    /\ pc[p] \in TxPoints =>
          locks[p] \subseteq {target[p], CustomerOf[target[p]], AdminOf[target[p]]}

LockInv ==
    /\ LocksDisjoint
    /\ \A p \in Procs : Route(p) /\ ChargeLocks(p)

\* p prepares f and has its directory.
Preparing(p, f) ==
    target[p] = f /\ op[p] \in PrepareOps /\ pc[p] \in TxPoints \ {"rename"}

\* A file that is not prepared yet has no job, and one that still has its
\* temporary directory is not prepared.
UploadInv ==
    \A f \in Files :
        /\ f \in tempDir => exists[f] = "absent"
        /\ exists[f] = "absent" => doc[f] = RequestedDoc /\ job[f] = "none"

\* What a handler may rely on about its file.
TargetInv ==
    \A p \in Procs :
        /\ pc[p] # "idle" /\ (op[p] \notin PrepareOps \/ pc[p] = "after")
              => exists[target[p]] # "absent"
        /\ pc[p] # "idle" /\ HasFile(p) => exists[target[p]] # "deleted"
        /\ op[p] \in PrepareOps /\ pc[p] = "commit" => HasFile(p)

\* Only one handler prepares a file.
PreparingInv ==
    \A p \in Procs, f \in Files : Preparing(p, f) =>
        /\ exists[f] = "absent"
        /\ f \notin tempDir
        /\ \A q \in Procs \ {p} : ~Preparing(q, f)

ExistsInv == UploadInv /\ TargetInv /\ PreparingInv

\* What p holds until it writes: what it read, which can only have moved
\* towards settled since.
HeldDoc(p) ==
    LET f == target[p] d == loc[p] IN
    /\ op[p] = "prepareReq" => d = RequestedDoc
    /\ op[p] = "prepareAuto" => d = AutomaticDoc
    /\ d.mod => d.pay # "UNPAID"
    /\ pc[p] \notin {"idle", "commit", "after"} /\ op[p] \notin PrepareOps =>
          /\ d.pay # "UNPAID" => doc[f].pay # "UNPAID"
          /\ d.pay = "PAID" \/ d.winols = "OK" => charges[f] > 0
    /\ pc[p] \in {"information", "notify", "file"} /\ op[p] \in ChargeOps =>
          HasCustomer(p) \/ (op[p] = "manual" /\ d.pay # "UNPAID")

\* What p has written and is about to commit.
Written(p) ==
    LET f == target[p] d == loc[p] IN
    pc[p] = "commit" /\ HasFile(p) =>
        /\ op[p] \in ChargeOps => d.pay # "UNPAID"
        /\ op[p] \in CopyOps => d.pay = doc[f].pay
        /\ d.winols = "OK" => d.mod
        /\ d.pay = "PAID" \/ d.winols = "OK" =>
              charges[f] > 0 \/ (HasCustomer(p) /\ op[p] # "refund")

\* What the committed documents say was charged, and what was delivered is
\* settled.
SettledInv ==
    \A f \in Files :
        /\ doc[f].pay = "PAID" => charges[f] > 0
        /\ doc[f].mod => doc[f].pay # "UNPAID"
        /\ doc[f].winols = "OK" => doc[f].mod /\ charges[f] > 0

DocInv ==
    /\ \A p \in Procs : HeldDoc(p) /\ Written(p)
    /\ SettledInv

\* p will debit its customer unless it fails: its check of the credits committed
\* then has passed.
Charges(p) ==
    /\ pc[p] \in TxPoints /\ op[p] \in ChargeOps
    /\ HasCustomer(p) \/ pc[p] \in {"rename", "admin", "customer"}
    /\ op[p] = "upload" => funds[p]

Charging(c) == {p \in Procs : Charges(p) /\ CustomerOf[target[p]] = c}

Dearest == CHOOSE f \in Files : \A g \in Files : Price[g] <= Price[f]

\* What the handlers but k of them can take from a customer.
Room(k) == (Cardinality(Procs) - k) * Price[Dearest]

\* One of those that charge saw the credits it takes, before the others that
\* charge by now, or have charged, took theirs.
Covered(c) ==
    /\ balance[c] >= -Room(1)
    /\ Charging(c) # {} =>
          \E p \in Charging(c) :
              balance[c] >= Price[target[p]] - Room(Cardinality(Charging(c)))

\* uploadModFile debits only who had the credits.
Checked(p) == pc[p] # "idle" /\ op[p] = "upload" /\ HasCustomer(p) => funds[p]

OverdraftInv ==
    /\ \A p \in Procs : Checked(p)
    /\ \A c \in Customers : Covered(c)
=============================================================================
