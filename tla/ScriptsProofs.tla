--------------------------- MODULE ScriptsProofs ---------------------------
(***************************************************************************)
(* Proofs about Scripts for any number of controllers, names, scripts,     *)
(* file services, requests and handlers, and any failures and restarts.    *)
(* The inductive invariant is that of ScriptsInvariants, part by part.     *)
(***************************************************************************)
EXTENDS ScriptsInvariants, TLAPS

DocTypes ==
    /\ name \in [Docs -> Names \cup {NoName}] /\ removed \subseteq Docs
    /\ place \in [Controllers -> SUBSET Fields]
    /\ owner \in {"portal", "super"}
    /\ scripts \subseteq [id : ScriptIds, doc : Controllers]
    /\ \A s, t \in scripts : s.id = t.id => s = t
    /\ requests \in 0..MaxRequests
    /\ strayed \subseteq Docs

DiskTypes ==
    /\ dirs \subseteq Dirs
    /\ files \subseteq [dir : dirs, id : ScriptIds, valid : BOOLEAN,
                        orig : SUBSET Blocks, mod : Blocks]
    /\ \A x, y \in files : x.dir = y.dir /\ x.id = y.id => x = y

BinTypes ==
    /\ bin \in [Services -> (SUBSET Blocks) \cup {Absent}]
    /\ writers \subseteq Procs
    /\ \A p \in writers :
          at[p] = "store" /\ job[p].service \in Services /\ bin[job[p].service] # Absent

\* The types of the state come in parts that most steps leave alone.
LEMMA WorkParts ==
    WorkInv <=> /\ DocTypes /\ DiskTypes /\ BinTypes /\ TxTypeOK(Docs)
                /\ at \in [Procs -> Steps] /\ job \in [Procs -> Jobs]
                /\ \A p \in Procs : JobOK(p)
BY DEF WorkInv, TypeOK, DocTypes, DiskTypes, BinTypes, Docs

\* What the job of a handler is made of.
LEMMA JobFields ==
    ASSUME WorkInv, NEW p \in Procs
    PROVE  /\ job[p] \in Jobs /\ JobOK(p) /\ at[p] \in Steps
           /\ job[p].op \in {"none", "create", "update", "remove",
                           "script", "replace", "drop", "offer"}
           /\ job[p].doc \in Docs \cup {NoDoc}
           /\ job[p].name \in Names \cup {NoName}
           /\ job[p].dir \in Dirs \cup {NoDir}
           /\ job[p].script \in ScriptIds \cup {NoScript}
           /\ job[p].service \in Services \cup {Upload, NoService}
           /\ job[p].mod \in 0..2 /\ job[p].stored \in 0..2
           /\ job[p].orig \in SUBSET Blocks /\ job[p].place \in SUBSET Fields
BY DEF WorkInv, Jobs, WorkOps, DocOps, FileOps

LEMMA IdleJob == Idle \in Jobs
BY ScriptsAssumption DEF Idle, Jobs, Blocks, WorkOps

\* The others go on as they were.
Others(p) == \A q \in Procs \ {p} : job'[q] = job[q] /\ at'[q] = at[q]

\* A handler goes on with its job, or leaves.
SameWork(p) ==
    /\ job'[p].op = job[p].op /\ job'[p].doc = job[p].doc
    /\ job'[p].name = job[p].name /\ job'[p].dir = job[p].dir
    /\ job'[p].script = job[p].script /\ job'[p].service = job[p].service
    /\ job'[p].mod = job[p].mod /\ job'[p].place = job[p].place
Goes(p) == Others(p) /\ SameWork(p)
Leaves(p) == Others(p) /\ job'[p] = Idle /\ at'[p] = "idle"

\* A handler that is done leaves the others where they are.
LEMMA LeaveFacts ==
    ASSUME WorkInv, NEW p \in Procs, Leave(p)
    PROVE  /\ Leaves(p)
           /\ at' \in [Procs -> Steps] /\ job' \in [Procs -> Jobs]
           /\ \A q \in Procs : JobOK(q)'
<1>1. at \in [Procs -> Steps] /\ job \in [Procs -> Jobs] /\ \A q \in Procs : JobOK(q)
  BY DEF WorkInv
<1>a. job' = [job EXCEPT ![p] = Idle] /\ at' = [at EXCEPT ![p] = "idle"]
  BY DEF Leave
<1>b. job' \in [Procs -> Jobs]
  BY <1>1, <1>a, IdleJob
<1>c. Leaves(p) /\ at' \in [Procs -> Steps]
  BY <1>1, <1>a DEF Leaves, Others, Steps
<1>2. Leaves(p) /\ at' \in [Procs -> Steps] /\ job' \in [Procs -> Jobs]
  BY <1>b, <1>c
<1>3. JobOK(p)'
  BY <1>2, ScriptsAssumption DEF Leaves, JobOK, Idle, WorkSteps, DocOps, FileOps
<1> QED
  BY <1>1, <1>2, <1>3 DEF Leaves, Others, JobOK

LEMMA MoveFacts ==
    ASSUME WorkInv, NEW p \in Procs, NEW s, at' = [at EXCEPT ![p] = s],
           s \in Steps, job' \in [Procs -> Jobs],
           \A q \in Procs \ {p} : job'[q] = job[q], JobOK(p)'
    PROVE  /\ Others(p) /\ at'[p] = s
           /\ at' \in [Procs -> Steps]
           /\ \A q \in Procs : JobOK(q)'
<1>1. at \in [Procs -> Steps] /\ \A q \in Procs : JobOK(q)
  BY DEF WorkInv
<1>2. Others(p) /\ at'[p] = s /\ at' \in [Procs -> Steps]
  BY <1>1 DEF Others
<1> QED
  BY <1>1, <1>2 DEF Others, JobOK

LEMMA NameTypes ==
    WorkInv => /\ name \in [Docs -> Names \cup {NoName}] /\ owner \in {"portal", "super"}
               /\ dirs \subseteq Dirs /\ TxTypeOK(Docs)
               /\ Car \in Docs /\ Controllers \subseteq Docs
BY DEF WorkInv, TypeOK, Docs

\* A handler that goes on fits its next step, if its own job does.
LEMMA MoveTypes ==
    ASSUME WorkInv, NEW p \in Procs, NEW s \in Steps, at' = [at EXCEPT ![p] = s],
           job' \in [Procs -> Jobs], \A q \in Procs \ {p} : job'[q] = job[q], JobOK(p)',
           at[p] # "store", UNCHANGED <<bin, writers>>,
           DocTypes', DiskTypes', TxTypeOK(Docs)'
    PROVE  WorkInv' /\ Others(p)
<1>1. Others(p) /\ at' \in [Procs -> Steps] /\ \A q \in Procs : JobOK(q)'
  BY MoveFacts
<1>2. BinTypes'
  BY <1>1, WorkParts DEF BinTypes, Others
<1>3. (Docs = Docs')
  BY DEF Docs
<1> QED
  BY <1>1, <1>2, WorkParts DEF WorkInv, TypeOK, DocTypes, DiskTypes, BinTypes, Docs

LEMMA LeaveTypes ==
    ASSUME WorkInv, NEW p \in Procs, Leave(p),
           at[p] # "store", UNCHANGED <<bin, writers>>,
           DocTypes', DiskTypes', TxTypeOK(Docs)'
    PROVE  WorkInv' /\ Leaves(p)
<1>1. /\ Leaves(p) /\ at' \in [Procs -> Steps] /\ job' \in [Procs -> Jobs]
      /\ \A q \in Procs : JobOK(q)'
  BY LeaveFacts
<1>2. BinTypes'
  BY <1>1, WorkParts DEF BinTypes, Leaves, Others
<1> QED
  BY <1>1, <1>2, WorkParts DEF WorkInv, TypeOK, DocTypes, DiskTypes, BinTypes, Docs

\* The parts of the state that a step leaves alone keep their types.
LEMMA SameDocs ==
    ASSUME WorkInv, UNCHANGED <<docVars, owner, requests, strayed>>
    PROVE  DocTypes'
BY WorkParts DEF DocTypes, docVars

LEMMA SameDisk ==
    ASSUME WorkInv, UNCHANGED <<dirs, files>>
    PROVE  DiskTypes'
BY WorkParts DEF DiskTypes

LEMMA SameTx ==
    ASSUME WorkInv, UNCHANGED txVars
    PROVE  TxTypeOK(Docs)'
BY WorkParts DEF TxTypeOK, txVars, Docs

LEMMA TxTypes ==
    ASSUME WorkInv, NEW p \in Procs
    PROVE  /\ \A d \in Docs : SessionWrite(p, d) => TxTypeOK(Docs)'
           /\ \A d \in Docs : PlainWrite(d) => TxTypeOK(Docs)'
           /\ \A D \in SUBSET Docs : PlainWriteAll(D) => TxTypeOK(Docs)'
           /\ TxCommit(p) => TxTypeOK(Docs)'
           /\ TxAbort(p) => TxTypeOK(Docs)'
           /\ TxCrash => TxTypeOK(Docs)'
<1>1. TxTypeOK(Docs)
  BY WorkParts
<1>2. \A d \in Docs : SessionWrite(p, d) => TxTypeOK(Docs)'
  BY <1>1 DEF TxTypeOK, SessionWrite, Docs
<1>3. \A d \in Docs : PlainWrite(d) => TxTypeOK(Docs)'
  BY <1>1 DEF TxTypeOK, PlainWrite, Docs
<1>4. \A D \in SUBSET Docs : PlainWriteAll(D) => TxTypeOK(Docs)'
  BY <1>1 DEF TxTypeOK, PlainWriteAll, Docs
<1>5. TxCommit(p) => TxTypeOK(Docs)'
  BY <1>1 DEF TxTypeOK, TxCommit, Docs
<1>6. TxAbort(p) => TxTypeOK(Docs)'
  BY <1>1 DEF TxTypeOK, TxAbort, Docs
<1>7. TxCrash => TxTypeOK(Docs)'
  BY <1>1 DEF TxTypeOK, TxCrash, Docs
<1> QED
  BY <1>2, <1>3, <1>4, <1>5, <1>6, <1>7

LEMMA MoreDirs ==
    ASSUME WorkInv, NEW D \in SUBSET Dirs, dirs' = dirs \cup D, files' = files
    PROVE  DiskTypes'
BY WorkParts DEF DiskTypes, Dirs, Trees

LEMMA FewerDirs ==
    ASSUME WorkInv, NEW D, RemoveDirs(D)
    PROVE  DiskTypes'
BY WorkParts DEF DiskTypes, RemoveDirs, Dirs, Trees, Blocks

LEMMA FileFields ==
    ASSUME WorkInv, NEW x \in files
    PROVE  /\ x.dir \in dirs /\ x.dir \in Dirs /\ x.id \in ScriptIds /\ x.valid \in BOOLEAN
           /\ x.orig \in SUBSET Blocks /\ x.mod \in Blocks
           /\ x = [dir |-> x.dir, id |-> x.id, valid |-> x.valid, orig |-> x.orig, mod |-> x.mod]
BY WorkParts DEF DiskTypes

\* A directory that is moved onto an empty one keeps its files.
LEMMA MovedDir ==
    ASSUME WorkInv, NEW from \in dirs, NEW to \in Dirs, FilesIn(to) = {}, MoveDir(from, to)
    PROVE  /\ DiskTypes'
           /\ \A x \in files' : \E y \in files :
                 x.id = y.id /\ x.orig = y.orig /\ x.mod = y.mod /\ x.valid = y.valid
                 /\ x.dir = IF y.dir = from THEN to ELSE y.dir
           /\ \A y \in files : \E x \in files' :
                 x.id = y.id /\ x.orig = y.orig /\ x.mod = y.mod /\ x.valid = y.valid
                 /\ x.dir = IF y.dir = from THEN to ELSE y.dir
<1> DEFINE m(x) == IF x.dir = from THEN [x EXCEPT !.dir = to] ELSE x
<1>1. files' = {m(x) : x \in files} /\ dirs' = (dirs \ {from}) \cup {to}
  BY DEF MoveDir
<1>2. \A x \in files :
         /\ m(x) \in [dir : dirs', id : ScriptIds, valid : BOOLEAN,
                     orig : SUBSET Blocks, mod : Blocks]
         /\ m(x).id = x.id /\ m(x).orig = x.orig /\ m(x).mod = x.mod /\ m(x).valid = x.valid
         /\ m(x).dir = IF x.dir = from THEN to ELSE x.dir
  BY <1>1, FileFields
<1>3. \A x, y \in files : m(x).dir = m(y).dir /\ m(x).id = m(y).id => m(x) = m(y)
  BY <1>2, WorkParts DEF DiskTypes, FilesIn
<1> HIDE DEF m
<1>4. DiskTypes'
  BY <1>1, <1>2, <1>3, WorkParts DEF DiskTypes, Dirs, Trees, Blocks
<1> QED
  BY <1>1, <1>2, <1>4

-----------------------------------------------------------------------------
(* Requests. *)

\* What a request may stop following are controllers.
LEMMA StraysTypes ==
    ASSUME NEW p, NEW j
    PROVE  Strays(p, j) \subseteq Controllers
BY DEF Strays

\* A handler takes a request: nothing changes but what is known of who works on what.
Begins(p) ==
    /\ Others(p) /\ at[p] = "idle"
    /\ UNCHANGED <<docVars, diskVars, owner, offered, deleted>>
    /\ strayed' = strayed \cup Strays(p, job'[p])
    /\ shared' = shared \cup ((UNION {{job[q].script, job[q].service} : q \in Procs \ {p}})
                     \cap {job'[p].script, job'[p].service} \cap (ScriptIds \cup Services))

\* What p will work on.
Has(p, o, d, n, r, s, f, m) ==
    /\ job'[p].op = o /\ job'[p].doc = d /\ job'[p].name = n /\ job'[p].dir = r
    /\ job'[p].script = s /\ job'[p].service = f /\ job'[p].mod = m

LEMMA BeginTypes ==
    ASSUME WorkInv, NEW p \in Procs, NEW s \in Steps, NEW j \in Jobs, Begin(p, j, s),
           UNCHANGED <<docVars, diskVars, owner, txVars, offered, deleted>>, JobOK(p)'
    PROVE  WorkInv' /\ Begins(p) /\ at'[p] = s /\ job'[p] = j
<1>1. at' = [at EXCEPT ![p] = s] /\ job' = [job EXCEPT ![p] = j] /\ at[p] = "idle"
  BY DEF Begin
<1>2. DocTypes'
  BY WorkParts, StraysTypes, ScriptsAssumption DEF DocTypes, docVars, Begin, Docs
<1>3. DiskTypes' /\ UNCHANGED <<bin, writers>> /\ TxTypeOK(Docs)'
  BY SameDisk, SameTx DEF diskVars
<1>4. job \in [Procs -> Jobs]
  BY DEF WorkInv
<1>5. job' \in [Procs -> Jobs] /\ job'[p] = j /\ \A q \in Procs \ {p} : job'[q] = job[q]
  BY <1>1, <1>4
<1>6. WorkInv' /\ Others(p)
  BY <1>1, <1>2, <1>3, <1>5, MoveTypes
<1>7. at'[p] = s
  BY <1>1 DEF WorkInv
<1> QED
  BY <1>1, <1>5, <1>6, <1>7 DEF Begins, Begin

\* What the jobs of requests have in common.
LEMMA CreateDocTypes ==
    ASSUME WorkInv, NEW p \in Procs, NEW d \in Docs, NEW n \in Names, CreateDoc(p, d, n)
    PROVE  /\ WorkInv' /\ Begins(p) /\ JobOK(p)'
           /\ Has(p, "create", d, n, IF d = Car THEN NoDir ELSE CompletePath(name[Car], n),
                  NoScript, NoService, 0)
<1> DEFINE j == [Idle EXCEPT !.op = "create", !.doc = d, !.name = n,
                             !.dir = IF d = Car THEN NoDir ELSE CompletePath(name[Car], n)]
<1>1. /\ Begin(p, j, "save")
      /\ UNCHANGED <<docVars, diskVars, owner, txVars, offered, deleted>>
      /\ (d # Car => Exists(Car))
  BY DEF CreateDoc
<1>2. d # Car => CompletePath(name[Car], n) \in Dirs
  BY <1>1, NameTypes DEF Exists, CompletePath, Dirs, Trees
<1>3. j \in Jobs
  BY <1>2, IdleJob DEF Jobs, WorkOps, DocOps, FileOps, Idle
<1>4. at'[p] = "save" /\ job'[p] = j
  BY <1>1, WorkParts DEF Begin
<1>5. JobOK(p)'
  BY <1>2, <1>4, ScriptsAssumption
     DEF JobOK, WorkSteps, Idle, DocOps, FileOps, CompletePath, Dirs, Trees
<1>6. Has(p, "create", d, n, IF d = Car THEN NoDir ELSE CompletePath(name[Car], n),
             NoScript, NoService, 0)
  BY <1>4 DEF Has, Idle
<1> QED
  BY <1>1, <1>3, <1>5, <1>6, BeginTypes DEF Steps

\* The path update takes for that of the directory.
OldPath(d, w) ==
    IF w = {} THEN CompletePath(name[Car], name[d]) ELSE PathElsewhere(name[d])

LEMMA UpdateDocTypes ==
    ASSUME WorkInv, NEW p \in Procs, NEW d \in Docs, NEW n \in Names, NEW w \in SUBSET Fields,
           UpdateDoc(p, d, n, w)
    PROVE  /\ WorkInv' /\ Begins(p) /\ JobOK(p)'
           /\ Has(p, "update", d, n, OldPath(d, w), NoScript, NoService, 0)
           /\ job'[p].place = w
<1> DEFINE j == [Idle EXCEPT !.op = "update", !.doc = d, !.name = n, !.place = w,
                             !.dir = OldPath(d, w)]
<1>1. /\ Begin(p, j, IF d = Car THEN "writeCar" ELSE "writeController")
      /\ UNCHANGED <<docVars, diskVars, owner, txVars, offered, deleted>>
      /\ w = {} => Exists(Car)
      /\ Exists(d) /\ (d = Car => w = {})
  BY DEF UpdateDoc, OldPath
<1>2. OldPath(d, w) \in Dirs
  BY <1>1, NameTypes DEF Exists, OldPath, CompletePath, PathElsewhere, Dirs, Trees
<1>3. j \in Jobs
  BY <1>2, IdleJob DEF Jobs, WorkOps, DocOps, FileOps, Idle, Blocks, Docs
<1>4. at'[p] = (IF d = Car THEN "writeCar" ELSE "writeController") /\ job'[p] = j
  BY <1>1, WorkParts DEF Begin
<1>5. Has(p, "update", d, n, OldPath(d, w), NoScript, NoService, 0) /\ job'[p].place = w
  BY <1>4 DEF Has, Idle
<1>6. JobOK(p)'
  <2>1. job'[p].op = "update" /\ at'[p] \in {"writeCar", "writeController"}
    BY <1>4, <1>5 DEF Has
  <2>2. at'[p] \in WorkSteps(job'[p].op)
    BY <2>1 DEF WorkSteps
  <2>3. d # Car => at'[p] = "writeController" /\ d \in Controllers
    BY <1>4 DEF Docs
  <2> QED
    BY <1>1, <1>2, <1>4, <1>5, <2>1, <2>2, <2>3, ScriptsAssumption
       DEF JobOK, Has, DocOps, FileOps, Docs
<1> QED
  BY <1>1, <1>3, <1>5, <1>6, BeginTypes DEF Steps

LEMMA RemoveDocTypes ==
    ASSUME WorkInv, NEW p \in Procs, NEW d \in Docs, RemoveDoc(p, d)
    PROVE  /\ WorkInv' /\ Begins(p) /\ JobOK(p)'
           /\ Has(p, "remove", d, NoName, NoDir, NoScript, NoService, 0)
<1> DEFINE j == [Idle EXCEPT !.op = "remove", !.doc = d]
<1>1. Begin(p, j, "delete") /\ UNCHANGED <<docVars, diskVars, owner, txVars, offered, deleted>>
  BY DEF RemoveDoc
<1>2. NoDir \in Dirs \cup {NoDir}
  OBVIOUS
<1>3. j \in Jobs
  BY <1>2, IdleJob DEF Jobs, WorkOps, DocOps, FileOps, Idle, Blocks, Docs
<1>4. at'[p] = "delete" /\ job'[p] = j
  BY <1>1, WorkParts DEF Begin
<1>5. JobOK(p)'
  BY <1>2, <1>4, ScriptsAssumption
     DEF JobOK, WorkSteps, Idle, DocOps, FileOps, CompletePath, Dirs, Trees, Docs, Blocks
<1>6. Has(p, "remove", d, NoName, NoDir, NoScript, NoService, 0)
  BY <1>4 DEF Has, Idle
<1> QED
  BY <1>1, <1>3, <1>5, <1>6, BeginTypes DEF Steps

LEMMA CreateScriptTypes ==
    ASSUME WorkInv, NEW p \in Procs, NEW d \in Controllers, NEW m \in Blocks, NEW s \in ScriptIds,
           NEW f \in Services \cup {Upload}, CreateScript(p, s, d, f, m)
    PROVE  /\ WorkInv' /\ Begins(p) /\ JobOK(p)'
           /\ Has(p, "script", d, NoName, ScriptDir(d), s, f, m)
<1> DEFINE j == [Idle EXCEPT !.op = "script", !.doc = d, !.script = s, !.service = f,
                             !.mod = m, !.dir = ScriptDir(d)]
<1>1. /\ Begin(p, j, IF f = Upload THEN "check" ELSE "find")
      /\ UNCHANGED <<docVars, diskVars, owner, txVars, offered, deleted>> /\ Exists(Car)
      /\ Exists(d)
  BY DEF CreateScript
<1>2. ScriptDir(d) \in Dirs
  BY <1>1, NameTypes DEF Exists, ScriptDir, CompletePath, Dirs, Trees
<1>a. m \in 0..2 /\ d \in Docs
  BY DEF Blocks, Docs
<1>3. j \in Jobs
  BY <1>2, <1>a, IdleJob DEF Jobs, WorkOps, DocOps, FileOps, Idle, Docs
<1>4. at'[p] = (IF f = Upload THEN "check" ELSE "find") /\ job'[p] = j
  BY <1>1, WorkParts DEF Begin
<1>5. JobOK(p)'
  BY <1>2, <1>4, ScriptsAssumption
     DEF JobOK, WorkSteps, Idle, DocOps, FileOps, CompletePath, Dirs, Trees, Docs, Blocks
<1>6. Has(p, "script", d, NoName, ScriptDir(d), s, f, m)
  BY <1>4 DEF Has, Idle
<1> QED
  BY <1>1, <1>3, <1>5, <1>6, BeginTypes DEF Steps

LEMMA ReplaceScriptTypes ==
    ASSUME WorkInv, NEW p \in Procs, NEW d \in Controllers, NEW m \in Blocks, NEW f \in Services,
           ReplaceScript(p, d, f, m)
    PROVE  /\ WorkInv' /\ Begins(p) /\ JobOK(p)'
           /\ Has(p, "replace", d, NoName, ScriptDir(d), NoScript, f, m)
<1> DEFINE j == [Idle EXCEPT !.op = "replace", !.doc = d, !.service = f, !.mod = m,
                             !.dir = ScriptDir(d)]
<1>1. /\ Begin(p, j, "match")
      /\ UNCHANGED <<docVars, diskVars, owner, txVars, offered, deleted>> /\ Exists(Car)
      /\ Exists(d)
  BY DEF ReplaceScript
<1>2. ScriptDir(d) \in Dirs
  BY <1>1, NameTypes DEF Exists, ScriptDir, CompletePath, Dirs, Trees
<1>a. m \in 0..2 /\ d \in Docs
  BY DEF Blocks, Docs
<1>3. j \in Jobs
  BY <1>2, <1>a, IdleJob DEF Jobs, WorkOps, DocOps, FileOps, Idle, Docs
<1>4. at'[p] = "match" /\ job'[p] = j
  BY <1>1, WorkParts DEF Begin
<1>5. JobOK(p)'
  BY <1>2, <1>4, ScriptsAssumption
     DEF JobOK, WorkSteps, Idle, DocOps, FileOps, CompletePath, Dirs, Trees, Docs, Blocks
<1>6. Has(p, "replace", d, NoName, ScriptDir(d), NoScript, f, m)
  BY <1>4 DEF Has, Idle
<1> QED
  BY <1>1, <1>3, <1>5, <1>6, BeginTypes DEF Steps

LEMMA DeleteScriptTypes ==
    ASSUME WorkInv, NEW p \in Procs, NEW t \in scripts, DeleteScript(p, t)
    PROVE  /\ WorkInv' /\ Begins(p) /\ JobOK(p)'
           /\ Has(p, "drop", t.doc, NoName, NoDir, t.id, NoService, 0)
<1> DEFINE j == [Idle EXCEPT !.op = "drop", !.doc = t.doc, !.script = t.id]
<1>1. Begin(p, j, "drop") /\ UNCHANGED <<docVars, diskVars, owner, txVars, offered, deleted>>
  BY DEF DeleteScript
<1>2. t.doc \in Controllers /\ t.id \in ScriptIds
  BY WorkParts DEF DocTypes
<1>3. j \in Jobs
  BY <1>2, IdleJob DEF Jobs, WorkOps, DocOps, FileOps, Idle, Blocks, Docs
<1>4. at'[p] = "drop" /\ job'[p] = j
  BY <1>1, WorkParts DEF Begin
<1>5. JobOK(p)'
  BY <1>2, <1>4, ScriptsAssumption
     DEF JobOK, WorkSteps, Idle, DocOps, FileOps, CompletePath, Dirs, Trees, Docs, Blocks
<1>6. Has(p, "drop", t.doc, NoName, NoDir, t.id, NoService, 0)
  BY <1>4 DEF Has, Idle
<1> QED
  BY <1>1, <1>3, <1>5, <1>6, BeginTypes DEF Steps

LEMMA AutomatisationTypes ==
    ASSUME WorkInv, NEW p \in Procs, NEW d \in Controllers,
           NEW assist \in BOOLEAN, Automatisation(p, d, assist)
    PROVE  /\ WorkInv' /\ Begins(p) /\ JobOK(p)'
           /\ Has(p, "offer", d, NoName,
                  IF assist THEN <<"ai", name[Car], name[d]>> ELSE ScriptDir(d),
                  NoScript, NoService, 0)
<1> DEFINE j == [Idle EXCEPT !.op = "offer", !.doc = d,
                             !.dir = IF assist THEN <<"ai", name[Car], name[d]>> ELSE ScriptDir(d)]
<1>1. /\ Begin(p, j, "list")
      /\ UNCHANGED <<docVars, diskVars, owner, txVars, offered, deleted>> /\ Exists(Car)
      /\ Exists(d)
  BY DEF Automatisation
<1>2. ScriptDir(d) \in Dirs /\ <<"ai", name[Car], name[d]>> \in Dirs
  BY <1>1, NameTypes DEF Exists, ScriptDir, CompletePath, Dirs, Trees
<1>3. j \in Jobs
  BY <1>2, IdleJob DEF Jobs, WorkOps, DocOps, FileOps, Idle, Blocks, Docs
<1>4. at'[p] = "list" /\ job'[p] = j
  BY <1>1, WorkParts DEF Begin
<1>5. JobOK(p)'
  BY <1>2, <1>4, ScriptsAssumption
     DEF JobOK, WorkSteps, Idle, DocOps, FileOps, CompletePath, Dirs, Trees, Docs, Blocks
<1>6. Has(p, "offer", d, NoName,
             IF assist THEN <<"ai", name[Car], name[d]>> ELSE ScriptDir(d),
             NoScript, NoService, 0)
  BY <1>4 DEF Has, Idle
<1> QED
  BY <1>1, <1>3, <1>5, <1>6, BeginTypes DEF Steps

-----------------------------------------------------------------------------
(* Steps that end in commit, or a request that fails. *)

LEMMA GotoTypes ==
    ASSUME WorkInv, NEW p \in Procs, NEW s \in Steps, Goto(p, s),
           at[p] # "store", UNCHANGED <<bin, writers>>, JobOK(p)',
           DocTypes', DiskTypes', TxTypeOK(Docs)'
    PROVE  WorkInv' /\ Goes(p)
<1>1. job' = job /\ at' = [at EXCEPT ![p] = s]
  BY DEF Goto
<1>2. job' \in [Procs -> Jobs] /\ \A q \in Procs \ {p} : job'[q] = job[q]
  BY <1>1 DEF WorkInv
<1> QED
  BY <1>1, <1>2, MoveTypes DEF Goes, SameWork

\* A step that only moves on: its job fits the next step.
LEMMA NextStep ==
    ASSUME WorkInv, NEW p \in Procs, NEW s \in Steps, Goto(p, s)
    PROVE  at'[p] = s /\ job' = job
BY WorkParts DEF Goto

LEMMA SaveTypes ==
    ASSUME WorkInv, NEW p \in Procs, Save(p)
    PROVE  WorkInv' /\ Goes(p)
<1>1. job[p].op = "create" /\ job[p].doc \in Docs
  BY JobFields DEF Save, JobOK, WorkSteps, DocOps
<1>2. JobOK(p)'
  BY <1>1, JobFields, NextStep DEF Save, JobOK, WorkSteps, Steps
<1>3. TxTypeOK(Docs)'
  BY <1>1, TxTypes DEF Save
<1> QED
  BY <1>2, <1>3, GotoTypes, SameDocs, SameDisk DEF Save, diskVars, seenVars, Steps

\* A step that changes one field of its job.
LEMMA JobChange ==
    ASSUME WorkInv, NEW p \in Procs, NEW j \in Jobs, job' = [job EXCEPT ![p] = j]
    PROVE  /\ job' \in [Procs -> Jobs] /\ job'[p] = j
           /\ \A q \in Procs \ {p} : job'[q] = job[q]
BY WorkParts

LEMMA SameWorkJobs ==
    ASSUME WorkInv, NEW p \in Procs,
           \/ job' = job
           \/ job' = [job EXCEPT ![p].made = TRUE]
           \/ \E v \in SUBSET ScriptIds : job' = [job EXCEPT ![p].list = v]
           \/ \E v \in SUBSET Blocks : job' = [job EXCEPT ![p].orig = v]
           \/ \E v \in 0..2 : job' = [job EXCEPT ![p].stored = v]
    PROVE  /\ job' \in [Procs -> Jobs] /\ \A q \in Procs \ {p} : job'[q] = job[q]
           /\ SameWork(p)
<1>1. CASE job' = job
  BY <1>1, WorkParts DEF SameWork
<1>2. ASSUME NEW j \in Jobs, job' = [job EXCEPT ![p] = j],
             j.op = job[p].op, j.doc = job[p].doc, j.name = job[p].name, j.dir = job[p].dir,
             j.script = job[p].script, j.service = job[p].service, j.mod = job[p].mod,
             j.place = job[p].place
      PROVE  /\ job' \in [Procs -> Jobs] /\ \A q \in Procs \ {p} : job'[q] = job[q]
             /\ SameWork(p)
  BY <1>2, JobChange DEF SameWork
<1>3. CASE job' = [job EXCEPT ![p].made = TRUE]
  <2>1. [job[p] EXCEPT !.made = TRUE] \in Jobs
    BY JobFields DEF Jobs
  <2> QED
    BY <1>2, <1>3, <2>1, JobFields DEF Jobs
<1>4. ASSUME NEW v \in SUBSET ScriptIds, job' = [job EXCEPT ![p].list = v]
      PROVE  /\ job' \in [Procs -> Jobs] /\ \A q \in Procs \ {p} : job'[q] = job[q]
             /\ SameWork(p)
  <2>1. [job[p] EXCEPT !.list = v] \in Jobs
    BY JobFields DEF Jobs
  <2> QED
    BY <1>2, <1>4, <2>1, JobFields DEF Jobs
<1>5. ASSUME NEW v \in SUBSET Blocks, job' = [job EXCEPT ![p].orig = v]
      PROVE  /\ job' \in [Procs -> Jobs] /\ \A q \in Procs \ {p} : job'[q] = job[q]
             /\ SameWork(p)
  <2>1. [job[p] EXCEPT !.orig = v] \in Jobs
    BY JobFields DEF Jobs
  <2> QED
    BY <1>2, <1>5, <2>1, JobFields DEF Jobs
<1>6. ASSUME NEW v \in 0..2, job' = [job EXCEPT ![p].stored = v]
      PROVE  /\ job' \in [Procs -> Jobs] /\ \A q \in Procs \ {p} : job'[q] = job[q]
             /\ SameWork(p)
  <2>1. [job[p] EXCEPT !.stored = v] \in Jobs
    BY JobFields DEF Jobs
  <2> QED
    BY <1>2, <1>6, <2>1, JobFields DEF Jobs
<1> QED
  BY <1>1, <1>3, <1>4, <1>5, <1>6

LEMMA MakeDirTypes ==
    ASSUME WorkInv, NEW p \in Procs, MakeDir(p)
    PROVE  WorkInv' /\ Goes(p)
<1>1. job[p].op = "create" /\ (job[p].dir \in Dirs \/ job[p].dir = NoDir)
  BY JobFields DEF MakeDir, JobOK, WorkSteps
<1>2. DiskTypes'
  <2>1. CASE job[p].dir \in dirs \cup {NoDir}
    BY <2>1, SameDisk DEF MakeDir
  <2>2. CASE job[p].dir \notin dirs \cup {NoDir}
    <3>1. dirs' = dirs \cup {job[p].dir} /\ files' = files /\ {job[p].dir} \in SUBSET Dirs
      BY <1>1, <2>2 DEF MakeDir
    <3> QED
      BY <3>1, MoreDirs
  <2> QED
    BY <2>1, <2>2
<1>3. job' = job \/ job' = [job EXCEPT ![p].made = TRUE]
  BY DEF MakeDir
<1>4. job' \in [Procs -> Jobs] /\ (\A q \in Procs \ {p} : job'[q] = job[q]) /\ SameWork(p)
  BY <1>3, SameWorkJobs
<1>5. at' = [at EXCEPT ![p] = "commit"] /\ at'[p] = "commit"
  BY WorkParts DEF MakeDir
<1>6. JobOK(p)'
  BY <1>1, <1>4, <1>5, JobFields DEF MakeDir, SameWork, JobOK, WorkSteps, FileOps, Docs
<1> QED
  BY <1>2, <1>4, <1>5, <1>6, MoveTypes, SameDocs, SameTx DEF Goes, MakeDir, seenVars, Steps

LEMMA WriteCarTypes ==
    ASSUME WorkInv, NEW p \in Procs, WriteCar(p)
    PROVE  WorkInv' /\ Goes(p)
<1>1. JobOK(p)'
  BY JobFields, NextStep DEF WriteCar, JobOK, WorkSteps, Steps
<1>2. TxTypeOK(Docs)'
  BY TxTypes, NameTypes DEF WriteCar
<1> QED
  BY <1>1, <1>2, GotoTypes, SameDocs, SameDisk DEF WriteCar, diskVars, seenVars, Steps

LEMMA WriteControllerTypes ==
    ASSUME WorkInv, NEW p \in Procs, WriteController(p)
    PROVE  WorkInv' /\ Goes(p)
<1>1. job[p].op = "update" /\ job[p].doc \in Controllers /\ job[p].name \in Names
  BY JobFields DEF WriteController, JobOK, WorkSteps
<1>2. JobOK(p)'
  BY <1>1, JobFields, NextStep DEF WriteController, JobOK, WorkSteps, Steps
<1>3. TxTypeOK(Docs)'
  BY <1>1, TxTypes, NameTypes DEF WriteController
<1>4. DocTypes'
  <2>1. job[p].place \in SUBSET Fields
    BY JobFields
  <2>2. /\ name' \in [Docs -> Names \cup {NoName}]
        /\ place' \in [Controllers -> SUBSET Fields]
    BY <1>1, <2>1, WorkParts DEF WriteController, DocTypes
  <2> QED
    BY <2>2, WorkParts DEF WriteController, DocTypes, seenVars
<1> QED
  BY <1>2, <1>3, <1>4, GotoTypes, SameDisk DEF WriteController, diskVars, Steps

LEMMA RenameDirTypes ==
    ASSUME WorkInv, NEW p \in Procs, RenameDir(p)
    PROVE  WorkInv' /\ Goes(p)
<1>1. /\ job[p].op = "update" /\ job[p].doc \in Controllers /\ job[p].name \in Names
      /\ job[p].dir \in Dirs
  BY JobFields DEF RenameDir, JobOK, WorkSteps
<1>2. Renamed(p) \in Dirs
  BY <1>1 DEF Renamed, CompletePath, PathElsewhere, Dirs, Trees
<1>3. DiskTypes'
  BY <1>2, SameDisk, MovedDir DEF RenameDir
<1>4. job' = job \/ job' = [job EXCEPT ![p].made = TRUE]
  BY DEF RenameDir, Goto
<1>5. job' \in [Procs -> Jobs] /\ (\A q \in Procs \ {p} : job'[q] = job[q]) /\ SameWork(p)
  BY <1>4, SameWorkJobs
<1>6. at' = [at EXCEPT ![p] = "commit"] /\ at'[p] = "commit"
  BY WorkParts DEF RenameDir, Goto
<1>7. JobOK(p)'
  BY <1>1, <1>5, <1>6, JobFields DEF RenameDir, SameWork, JobOK, WorkSteps, FileOps, Docs
<1> QED
  BY <1>3, <1>5, <1>6, <1>7, MoveTypes, SameDocs, SameTx
     DEF Goes, RenameDir, docVars, seenVars, Steps

LEMMA RenameFailsTypes ==
    ASSUME WorkInv, NEW p \in Procs, RenameFails(p)
    PROVE  WorkInv' /\ Leaves(p)
<1>1. job[p].doc \in Docs
  BY JobFields DEF RenameFails, JobOK, Docs
<1>2. DocTypes'
  BY <1>1, WorkParts DEF RenameFails, DocTypes, docVars
<1> QED
  BY <1>2, LeaveTypes, TxTypes, SameDisk DEF RenameFails, diskVars

LEMMA DeleteDocTypes ==
    ASSUME WorkInv, NEW p \in Procs, DeleteDoc(p)
    PROVE  WorkInv' /\ Goes(p)
<1>1. job[p].op = "remove" /\ job[p].doc \in Docs
  BY JobFields DEF DeleteDoc, JobOK, WorkSteps, DocOps
<1> DEFINE s == IF job[p].doc = Car THEN "controllers" ELSE "rmdir"
<1>2. /\ Goto(p, s) /\ s \in Steps /\ s \in {"controllers", "rmdir"}
      /\ s = "controllers" => job[p].doc = Car
  BY DEF DeleteDoc, Steps
<1> HIDE DEF s
<1>3. JobOK(p)'
  BY <1>1, <1>2, JobFields, NextStep DEF DeleteDoc, JobOK, WorkSteps
<1>4. TxTypeOK(Docs)'
  BY <1>1, TxTypes DEF DeleteDoc
<1> QED
  BY <1>2, <1>3, <1>4, GotoTypes, SameDocs, SameDisk DEF DeleteDoc, diskVars, seenVars

LEMMA DeleteControllersTypes ==
    ASSUME WorkInv, NEW p \in Procs, DeleteControllers(p)
    PROVE  WorkInv' /\ Goes(p)
<1>1. JobOK(p)'
  BY JobFields, NextStep DEF DeleteControllers, JobOK, WorkSteps, Steps
<1>2. TxTypeOK(Docs)'
  BY TxTypes, NameTypes DEF DeleteControllers
<1>3. DocTypes'
  BY WorkParts DEF DeleteControllers, DocTypes, seenVars, Docs
<1> QED
  BY <1>1, <1>2, <1>3, GotoTypes, SameDisk DEF DeleteControllers, diskVars, Steps

LEMMA RemoveDirTypes ==
    ASSUME WorkInv, NEW p \in Procs, RemoveDir(p)
    PROVE  WorkInv' /\ Goes(p)
<1>1. JobOK(p)'
  BY JobFields, NextStep DEF RemoveDir, JobOK, WorkSteps, Steps
<1> QED
  BY <1>1, GotoTypes, SameDocs, SameTx, FewerDirs DEF RemoveDir, seenVars, Steps

LEMMA CommitDocTypes ==
    ASSUME WorkInv, NEW p \in Procs, CommitDoc(p)
    PROVE  WorkInv' /\ Leaves(p)
<1>1. /\ job[p].op \in {"create", "update", "remove"} /\ job[p].doc \in Docs
      /\ job[p].op # "remove" => job[p].name \in Names
  BY JobFields DEF CommitDoc, JobOK, WorkSteps, DocOps
<1>2. DocTypes'
  BY <1>1, WorkParts DEF CommitDoc, DocTypes, seenVars
<1> QED
  BY <1>2, LeaveTypes, TxTypes, SameDisk DEF CommitDoc, diskVars

\* Whether it is taken back or put back, what the catch blocks do keeps the types.
LEMMA FailDocDisk ==
    ASSUME WorkInv, NEW p \in Procs, FailDoc(p)
    PROVE  DiskTypes' /\ job[p].doc \in Docs
<1>1. /\ job[p].op \in {"create", "update", "remove"} /\ job[p].doc \in Docs
      /\ job[p].op = "update" => job[p].dir \in Dirs
  BY JobFields DEF FailDoc, JobOK, WorkSteps, DocOps
<1>2. CASE ~job[p].made
  BY <1>1, <1>2, SameDisk DEF FailDoc
<1>3. CASE job[p].made /\ job[p].op = "create"
  BY <1>1, <1>3, FewerDirs DEF FailDoc
<1>4. CASE job[p].made /\ job[p].op # "create"
  <2>1. CASE FilesIn(job[p].dir) = {} /\ Renamed(p) \in dirs
    <3>1. CASE job[p].op = "update"
      BY <1>1, <1>4, <2>1, <3>1, MovedDir DEF FailDoc
    <3>2. CASE job[p].op = "remove"
      BY <1>4, <3>2, JobFields DEF JobOK
    <3> QED
      BY <1>1, <1>4, <3>1, <3>2
  <2>2. CASE ~(FilesIn(job[p].dir) = {} /\ Renamed(p) \in dirs)
    BY <1>1, <1>4, <2>2, SameDisk DEF FailDoc
  <2> QED
    BY <2>1, <2>2
<1> QED
  BY <1>2, <1>3, <1>4

LEMMA FailDocTypes ==
    ASSUME WorkInv, NEW p \in Procs, FailDoc(p)
    PROVE  WorkInv' /\ Leaves(p)
<1>1. DocTypes'
  BY FailDocDisk, WorkParts DEF FailDoc, DocTypes, docVars
<1>2. at[p] # "store" /\ UNCHANGED <<bin, writers>> /\ Leave(p) /\ TxTypeOK(Docs)'
  BY TxTypes DEF FailDoc
<1> QED
  BY <1>1, <1>2, FailDocDisk, LeaveTypes

-----------------------------------------------------------------------------
(* Steps of create and replaceScript. *)

LEMMA MatchFileTypes ==
    ASSUME WorkInv, NEW p \in Procs, MatchFile(p)
    PROVE  /\ WorkInv' /\ Others(p)
           /\ job[p].op = "replace" /\ at'[p] = "find"
           /\ \E x \in files :
                 x.dir = job[p].dir /\ x.id = job'[p].script /\ job'[p].script \in ScriptIds
           /\ job'[p].op = job[p].op /\ job'[p].doc = job[p].doc
           /\ job'[p].name = job[p].name /\ job'[p].dir = job[p].dir
           /\ job'[p].service = job[p].service /\ job'[p].mod = job[p].mod
           /\ job'[p].place = job[p].place
<1>1. PICK x \in files : x.dir = job[p].dir /\ job' = [job EXCEPT ![p].script = x.id]
  BY DEF MatchFile, FilesIn
<1> DEFINE j == [job[p] EXCEPT !.script = x.id]
<1>2. /\ j \in Jobs /\ x.id \in ScriptIds /\ j.op = job[p].op /\ j.doc = job[p].doc
      /\ j.name = job[p].name /\ j.dir = job[p].dir /\ j.script = x.id
      /\ j.service = job[p].service /\ j.mod = job[p].mod /\ j.stored = job[p].stored
      /\ j.made = job[p].made /\ j.place = job[p].place
  BY JobFields, FileFields DEF Jobs
<1>3. job' = [job EXCEPT ![p] = j]
  BY <1>1
<1> HIDE DEF j
<1>4. job' \in [Procs -> Jobs] /\ job'[p] = j /\ \A q \in Procs \ {p} : job'[q] = job[q]
  BY <1>2, <1>3, JobChange
<1>5. at' = [at EXCEPT ![p] = "find"] /\ at'[p] = "find"
  BY WorkParts DEF MatchFile
<1>a. job[p].op = "replace" /\ at[p] = "match"
  BY JobFields DEF MatchFile, JobOK, WorkSteps
<1>6. JobOK(p)'
  BY <1>2, <1>4, <1>5, <1>a, JobFields DEF JobOK, WorkSteps, FileOps, DocOps, Docs
<1> QED
  BY <1>1, <1>2, <1>4, <1>5, <1>6, <1>a, MoveTypes, SameDocs, SameDisk, SameTx
     DEF MatchFile, diskVars, Steps

LEMMA FindOriginalTypes ==
    ASSUME WorkInv, NEW p \in Procs, FindOriginal(p)
    PROVE  WorkInv' /\ Goes(p)
<1> DEFINE s == IF OnDisk(Service(p)) THEN "check" ELSE "download"
<1>1. Goto(p, s) /\ s \in Steps /\ s \in {"check", "download"}
  BY DEF FindOriginal, Steps
<1> HIDE DEF s
<1>2. JobOK(p)'
  BY <1>1, JobFields, NextStep DEF FindOriginal, JobOK, WorkSteps
<1> QED
  BY <1>1, <1>2, GotoTypes, SameDocs, SameDisk, SameTx DEF FindOriginal, diskVars, seenVars

LEMMA OpenOriginalTypes ==
    ASSUME WorkInv, NEW p \in Procs, OpenOriginal(p)
    PROVE  WorkInv' /\ Goes(p)
<1>1. job[p].service \in Services
  BY JobFields DEF OpenOriginal, JobOK
<1>2. Goto(p, "store") /\ "store" \in Steps /\ at'[p] = "store" /\ job' = job
  BY NextStep DEF OpenOriginal, Steps
<1>3. JobOK(p)'
  BY <1>2, JobFields DEF OpenOriginal, JobOK, WorkSteps
<1>4. Others(p) /\ at' \in [Procs -> Steps] /\ \A q \in Procs : JobOK(q)'
  BY <1>2, <1>3, MoveFacts, WorkParts DEF Goto
<1>5. {} # Absent
  BY DEF Absent
<1>6. BinTypes'
  BY <1>1, <1>2, <1>4, <1>5, WorkParts DEF OpenOriginal, BinTypes, Others, Service
<1>7. DocTypes' /\ DiskTypes' /\ TxTypeOK(Docs)'
  BY SameDocs, SameDisk, SameTx DEF OpenOriginal, seenVars
<1> QED
  BY <1>2, <1>4, <1>6, <1>7, WorkParts
     DEF WorkInv, TypeOK, DocTypes, DiskTypes, BinTypes, Docs, Goes, SameWork

LEMMA BlockNumbers == Blocks = {1, 2} /\ Whole = {1, 2} /\ (\A S \in SUBSET Blocks : S # Absent)
BY DEF Blocks, Whole, Absent

LEMMA StoreBlockTypes ==
    ASSUME WorkInv, NEW p \in Procs, StoreBlock(p)
    PROVE  WorkInv' /\ Goes(p)
<1> DEFINE n == job[p].stored + 1
<1>1. job[p].stored \in 0..1 /\ n \in Blocks /\ n \in 0..2
  BY JobFields, BlockNumbers DEF StoreBlock, JobOK
<1>a. job' = [job EXCEPT ![p].stored = n]
  BY DEF StoreBlock
<1> HIDE DEF n
<1>2. job' \in [Procs -> Jobs] /\ (\A q \in Procs \ {p} : job'[q] = job[q]) /\ SameWork(p)
  BY <1>1, <1>a, SameWorkJobs
<1>3. job'[p].stored = n
  BY <1>a, WorkParts, JobFields DEF Jobs
<1>4. \/ n = 1 /\ UNCHANGED <<at, writers>>
      \/ n = 2 /\ at' = [at EXCEPT ![p] = "check"] /\ writers' = writers \ {p}
  BY <1>1, BlockNumbers DEF StoreBlock, n
<1>5. Others(p) /\ at' \in [Procs -> Steps] /\ at'[p] \in {"store", "check"}
  BY <1>2, <1>4, WorkParts DEF StoreBlock, Others, Steps
<1>6. at'[p] = "store" => n = 1
  BY <1>4, WorkParts
<1>7. JobOK(p)'
  BY <1>1, <1>2, <1>3, <1>5, <1>6, JobFields
     DEF StoreBlock, SameWork, JobOK, WorkSteps, FileOps, DocOps
<1>8. \A q \in Procs : JobOK(q)'
  BY <1>5, <1>7, WorkParts DEF Others, JobOK
<1>9. BinTypes'
  <2>1. /\ writers' \subseteq writers
        /\ \A q \in writers' : at'[q] = "store" /\ job'[q].service = job[q].service
    BY <1>2, <1>4, <1>5, WorkParts DEF BinTypes, Others, SameWork, StoreBlock
  <2>2. /\ bin' \in [Services -> (SUBSET Blocks) \cup {Absent}]
        /\ \A f \in Services : bin[f] # Absent => bin'[f] # Absent
    <3>1. CASE p \in writers
      <4>1. /\ bin' = [bin EXCEPT ![job[p].service] = @ \cup {n}]
            /\ bin[job[p].service] \in SUBSET Blocks /\ job[p].service \in Services
        BY <3>1, WorkParts DEF BinTypes, StoreBlock, Service, n
      <4>2. bin[job[p].service] \cup {n} \in SUBSET Blocks
        BY <1>1, <4>1
      <4> QED
        BY <4>1, <4>2, WorkParts, BlockNumbers DEF BinTypes
    <3>2. CASE p \notin writers
      BY <3>2, WorkParts DEF BinTypes, StoreBlock
    <3> QED
      BY <3>1, <3>2
  <2> QED
    BY <2>1, <2>2, WorkParts DEF BinTypes
<1>10. DocTypes' /\ DiskTypes' /\ TxTypeOK(Docs)'
  BY SameDocs, SameDisk, SameTx DEF StoreBlock, seenVars
<1> QED
  BY <1>2, <1>5, <1>8, <1>9, <1>10, WorkParts
     DEF WorkInv, TypeOK, DocTypes, DiskTypes, BinTypes, Docs, Goes

LEMMA CheckSizeTypes ==
    ASSUME WorkInv, NEW p \in Procs, CheckSize(p)
    PROVE  WorkInv' /\ Goes(p)
<1>1. job[p].op \in FileOps /\ job[p].dir \in Dirs
  BY JobFields DEF CheckSize, JobOK, WorkSteps, FileOps
<1>2. JobOK(p)'
  BY <1>1, JobFields, NextStep DEF CheckSize, JobOK, WorkSteps, FileOps, DocOps, Steps
<1>3. DiskTypes'
  <2>1. \E D \in SUBSET Dirs : dirs' = dirs \cup D
    <3>1. {} \in SUBSET Dirs /\ {job[p].dir} \in SUBSET Dirs
      BY <1>1
    <3>2. dirs' = dirs \cup {} \/ dirs' = dirs \cup {job[p].dir}
      BY DEF CheckSize
    <3> QED
      BY <3>1, <3>2
  <2> QED
    BY <2>1, MoreDirs DEF CheckSize
<1> QED
  BY <1>2, <1>3, GotoTypes, SameDocs, SameTx DEF CheckSize, seenVars, Steps

LEMMA ReadOriginalTypes ==
    ASSUME WorkInv, NEW p \in Procs, ReadOriginal(p)
    PROVE  WorkInv' /\ Goes(p)
<1>1. job[p].op \in FileOps /\ job[p].service \in Services \cup {Upload} /\ job[p].mod \in {1, 2}
  BY JobFields DEF ReadOriginal, JobOK, WorkSteps, FileOps
<1> DEFINE o == IF Service(p) = Upload THEN 1..job[p].mod ELSE bin[Service(p)]
<1>2. o \in SUBSET Blocks
  <2>1. 1..job[p].mod \in SUBSET Blocks
    BY <1>1 DEF Blocks
  <2>2. CASE Service(p) # Upload
    <3>1. Service(p) \in Services /\ bin[Service(p)] # Absent
      BY <2>2 DEF ReadOriginal, OnDisk
    <3> QED
      BY <2>2, <3>1, WorkParts DEF BinTypes
  <2> QED
    BY <2>1, <2>2
<1>3. job' = [job EXCEPT ![p].orig = o]
  BY DEF ReadOriginal
<1> HIDE DEF o
<1>4. job' \in [Procs -> Jobs] /\ (\A q \in Procs \ {p} : job'[q] = job[q]) /\ SameWork(p)
  BY <1>2, <1>3, SameWorkJobs
<1>5. at[p] = "read" /\ at' = [at EXCEPT ![p] = "write"] /\ at'[p] = "write"
  BY WorkParts DEF ReadOriginal
<1>6. JobOK(p)'
  BY <1>1, <1>4, <1>5, JobFields DEF SameWork, JobOK, WorkSteps, FileOps, DocOps, Docs
<1> QED
  BY <1>4, <1>5, <1>6, MoveTypes, SameDocs, SameDisk, SameTx
     DEF Goes, ReadOriginal, diskVars, seenVars, Steps

LEMMA OpenScriptTypes ==
    ASSUME WorkInv, NEW p \in Procs, OpenScript(p)
    PROVE  WorkInv' /\ Goes(p)
<1>1. job[p].op \in FileOps /\ job[p].script \in ScriptIds /\ job[p].mod \in Blocks
  BY JobFields DEF OpenScript, JobOK, WorkSteps, FileOps, Blocks
<1>2. JobOK(p)'
  BY <1>1, JobFields, NextStep DEF OpenScript, JobOK, WorkSteps, FileOps, DocOps, Steps
<1> DEFINE y == [dir |-> job[p].dir, id |-> job[p].script, valid |-> FALSE,
                 orig |-> job[p].orig, mod |-> job[p].mod]
<1>3. y \in [dir : dirs, id : ScriptIds, valid : BOOLEAN, orig : SUBSET Blocks, mod : Blocks]
  BY <1>1, JobFields DEF OpenScript
<1>4. y.dir = job[p].dir /\ y.id = job[p].script
  OBVIOUS
<1>5. files' = {x \in files : x.dir # job[p].dir \/ x.id # job[p].script} \cup {y} /\ dirs' = dirs
  BY DEF OpenScript
<1> HIDE DEF y
<1>6. DiskTypes'
  BY <1>3, <1>4, <1>5, WorkParts DEF DiskTypes
<1> QED
  BY <1>2, <1>6, GotoTypes, SameDocs, SameTx DEF OpenScript, seenVars, Steps

\* Writing a script to its end changes what is in it, and nothing else.
LEMMA ValidFiles ==
    ASSUME WorkInv, NEW p \in Procs, WriteScript(p)
    PROVE  /\ DiskTypes'
           /\ \A x \in files' : \E y \in files :
                 x.dir = y.dir /\ x.id = y.id /\ x.orig = y.orig /\ x.mod = y.mod
           /\ \A y \in files : \E x \in files' :
                 x.dir = y.dir /\ x.id = y.id /\ x.orig = y.orig /\ x.mod = y.mod
<1> DEFINE z(x) == [x EXCEPT !.valid = TRUE]
           v(x) == IF x.id = job[p].script /\ x.orig = job[p].orig /\ x.mod = job[p].mod
                   THEN z(x) ELSE x
<1>1. files' = {v(x) : x \in files} /\ dirs' = dirs
  BY DEF WriteScript
<1>c. \A x \in files :
         x \in [dir : dirs', id : ScriptIds, valid : BOOLEAN, orig : SUBSET Blocks, mod : Blocks]
  BY <1>1, WorkParts DEF DiskTypes
<1>a. \A x \in files :
         /\ z(x) \in [dir : dirs', id : ScriptIds, valid : BOOLEAN,
                     orig : SUBSET Blocks, mod : Blocks]
         /\ z(x).id = x.id /\ z(x).orig = x.orig /\ z(x).mod = x.mod /\ z(x).dir = x.dir
  BY <1>c
<1> HIDE DEF z
<1>b. \A x \in files : v(x) = z(x) \/ v(x) = x
  OBVIOUS
<1> HIDE DEF v
<1>2. \A x \in files :
         /\ v(x) \in [dir : dirs', id : ScriptIds, valid : BOOLEAN,
                     orig : SUBSET Blocks, mod : Blocks]
         /\ v(x).id = x.id /\ v(x).orig = x.orig /\ v(x).mod = x.mod /\ v(x).dir = x.dir
  BY <1>a, <1>b, <1>c
<1>3. \A x, y \in files : v(x).dir = v(y).dir /\ v(x).id = v(y).id => v(x) = v(y)
  BY <1>2, WorkParts DEF DiskTypes
<1>4. DiskTypes'
  BY <1>1, <1>2, <1>3, WorkParts DEF DiskTypes
<1> QED
  BY <1>1, <1>2, <1>4

LEMMA WriteScriptTypes ==
    ASSUME WorkInv, NEW p \in Procs, WriteScript(p)
    PROVE  WorkInv' /\ IF job[p].op = "script" THEN Goes(p) /\ at'[p] = "insert" ELSE Leaves(p)
<1>1. CASE job[p].op = "script"
  <2>1. Goto(p, "insert") /\ at[p] = "writing"
    BY <1>1 DEF WriteScript
  <2>2. JobOK(p)'
    BY <1>1, <2>1, JobFields, NextStep DEF JobOK, WorkSteps, Steps
  <2> QED
    BY <1>1, <2>1, <2>2, NextStep, ValidFiles, GotoTypes, SameDocs, SameTx
       DEF WriteScript, seenVars, Steps
<1>2. CASE job[p].op # "script"
  BY <1>2, ValidFiles, LeaveTypes, SameDocs, SameTx DEF WriteScript, seenVars
<1> QED
  BY <1>1, <1>2

\* Removing the original takes its writers with it, the handler itself among them.
LEMMA RemoveOriginalTypes ==
    ASSUME WorkInv, NEW p \in Procs, RemoveOriginal(p), Leave(p)
    PROVE  BinTypes' /\ Leaves(p)
<1>1. Leaves(p)
  BY LeaveFacts
<1>2. writers' \subseteq writers \ {p}
  BY WorkParts DEF RemoveOriginal, BinTypes, Service
<1>3. /\ bin' \in [Services -> (SUBSET Blocks) \cup {Absent}]
      /\ \A q \in writers' : bin'[job[q].service] = bin[job[q].service]
  BY <1>2, WorkParts DEF RemoveOriginal, BinTypes, Service
<1>4. \A q \in writers' : at'[q] = at[q] /\ job'[q] = job[q]
  BY <1>1, <1>2, WorkParts DEF Leaves, Others, BinTypes
<1> QED
  BY <1>1, <1>2, <1>3, <1>4, WorkParts DEF BinTypes

LEMMA InsertScriptTypes ==
    ASSUME WorkInv, MakingInv, NEW p \in Procs, InsertScript(p)
    PROVE  WorkInv' /\ Leaves(p)
<1>1. job[p].op = "script" /\ job[p].script \in ScriptIds /\ job[p].doc \in Controllers
  BY JobFields DEF InsertScript, JobOK, WorkSteps, FileOps, DocOps
<1>2. \A t \in scripts : t.id # job[p].script
  BY <1>1 DEF MakingInv, MakesOne
<1>3. DocTypes'
  <2> DEFINE r == [id |-> job[p].script, doc |-> job[p].doc]
  <2>1. r \in [id : ScriptIds, doc : Controllers] /\ r.id = job[p].script
    BY <1>1
  <2>2. scripts' = scripts \cup {r}
    BY DEF InsertScript
  <2> HIDE DEF r
  <2> QED
    BY <1>2, <2>1, <2>2, WorkParts DEF InsertScript, DocTypes, seenVars
<1>4. /\ BinTypes' /\ Leaves(p) /\ at' \in [Procs -> Steps] /\ job' \in [Procs -> Jobs]
      /\ \A q \in Procs : JobOK(q)'
  BY RemoveOriginalTypes, LeaveFacts DEF InsertScript
<1>5. DiskTypes' /\ TxTypeOK(Docs)'
  BY SameDisk, SameTx DEF InsertScript
<1> QED
  BY <1>3, <1>4, <1>5 DEF WorkInv, TypeOK, DocTypes, DiskTypes, BinTypes, Docs

LEMMA FailScriptTypes ==
    ASSUME WorkInv, NEW p \in Procs, FailScript(p)
    PROVE  WorkInv' /\ Leaves(p)
<1>1. /\ BinTypes' /\ Leaves(p) /\ at' \in [Procs -> Steps] /\ job' \in [Procs -> Jobs]
      /\ \A q \in Procs : JobOK(q)'
  BY RemoveOriginalTypes, LeaveFacts DEF FailScript
<1>2. DocTypes' /\ DiskTypes' /\ TxTypeOK(Docs)'
  BY SameDocs, SameDisk, SameTx DEF FailScript, seenVars
<1> QED
  BY <1>1, <1>2 DEF WorkInv, TypeOK, DocTypes, DiskTypes, BinTypes, Docs

-----------------------------------------------------------------------------
(* Steps of deleteScript and automatisation. *)

LEMMA DropScriptTypes ==
    ASSUME WorkInv, NEW p \in Procs, DropScript(p)
    PROVE  /\ WorkInv' /\ Others(p) /\ job[p].op = "drop"
           /\ \/ /\ Exists(Car) /\ Exists(job[p].doc) /\ at'[p] = "unlink"
                 /\ job'[p].op = job[p].op /\ job'[p].doc = job[p].doc
                 /\ job'[p].name = job[p].name /\ job'[p].script = job[p].script
                 /\ job'[p].service = job[p].service /\ job'[p].mod = job[p].mod
                 /\ job'[p].dir = CompletePath(name[Car], name[job[p].doc])
              \/ Leaves(p)
<1>1. job[p].op = "drop" /\ at[p] = "drop" /\ job[p].doc \in Controllers
  BY JobFields DEF DropScript, JobOK, WorkSteps, FileOps, DocOps
<1>2. DocTypes'
  BY WorkParts DEF DropScript, DocTypes, seenVars
<1>3. DiskTypes' /\ TxTypeOK(Docs)' /\ UNCHANGED <<bin, writers>>
  BY SameDisk, SameTx DEF DropScript, diskVars
<1>4. CASE Exists(Car) /\ Exists(job[p].doc)
  <2> DEFINE d == CompletePath(name[Car], name[job[p].doc])
             j == [job[p] EXCEPT !.dir = d]
  <2>1. d \in Dirs
    BY <1>1, <1>4, NameTypes DEF Exists, CompletePath, Dirs, Trees
  <2>2. job' = [job EXCEPT ![p] = j] /\ at' = [at EXCEPT ![p] = "unlink"]
    BY <1>4 DEF DropScript
  <2> HIDE DEF d
  <2>3. /\ j \in Jobs /\ j.op = job[p].op /\ j.doc = job[p].doc
        /\ j.name = job[p].name /\ j.dir = d /\ j.script = job[p].script
        /\ j.service = job[p].service /\ j.mod = job[p].mod /\ j.stored = job[p].stored
        /\ j.place = job[p].place
    BY <2>1, JobFields DEF Jobs
  <2> HIDE DEF j
  <2>4. job' \in [Procs -> Jobs] /\ job'[p] = j /\ \A q \in Procs \ {p} : job'[q] = job[q]
    BY <2>2, <2>3, JobChange
  <2>5. at'[p] = "unlink"
    BY <2>2, WorkParts
  <2>6. JobOK(p)'
    BY <1>1, <2>1, <2>3, <2>4, <2>5, JobFields DEF JobOK, WorkSteps, FileOps, DocOps, Docs
  <2> QED
    BY <1>1, <1>2, <1>3, <1>4, <2>2, <2>3, <2>4, <2>5, <2>6, MoveTypes DEF Steps, d
<1>5. CASE ~(Exists(Car) /\ Exists(job[p].doc))
  BY <1>1, <1>2, <1>3, <1>5, LeaveTypes DEF DropScript, Leaves
<1> QED
  BY <1>4, <1>5

LEMMA UnlinkScriptTypes ==
    ASSUME WorkInv, NEW p \in Procs, UnlinkScript(p)
    PROVE  WorkInv' /\ Leaves(p)
<1>1. DiskTypes'
  BY WorkParts DEF UnlinkScript, DiskTypes
<1> QED
  BY <1>1, LeaveTypes, SameDocs, SameTx DEF UnlinkScript

LEMMA EndTypes ==
    ASSUME WorkInv, NEW p \in Procs, NotFound(p) \/ MatchScripts(p) \/ OfferFails(p)
    PROVE  WorkInv' /\ Leaves(p)
<1>1. /\ Leave(p) /\ at[p] # "store"
      /\ UNCHANGED <<docVars, diskVars, owner, requests, txVars, strayed>>
  BY DEF NotFound, MatchScripts, OfferFails, seenVars
<1> QED
  BY <1>1, LeaveTypes, SameDocs, SameDisk, SameTx DEF diskVars

LEMMA ListScriptsTypes ==
    ASSUME WorkInv, NEW p \in Procs, ListScripts(p)
    PROVE  WorkInv' /\ Goes(p)
<1>1. job[p].op = "offer" /\ at[p] = "list" /\ job[p].dir \in Dirs
  BY JobFields DEF ListScripts, JobOK, WorkSteps
<1> DEFINE l == {x.id : x \in FilesIn(job[p].dir)}
<1>2. job' = [job EXCEPT ![p].list = l] /\ l \in SUBSET ScriptIds
  BY FileFields DEF ListScripts, FilesIn
<1> HIDE DEF l
<1>3. job' \in [Procs -> Jobs] /\ (\A q \in Procs \ {p} : job'[q] = job[q]) /\ SameWork(p)
  BY <1>2, SameWorkJobs
<1>4. at' = [at EXCEPT ![p] = "offer"] /\ at'[p] = "offer"
  BY WorkParts DEF ListScripts
<1>5. JobOK(p)'
  BY <1>1, <1>3, <1>4, JobFields DEF SameWork, JobOK, WorkSteps, FileOps, DocOps, Docs
<1>6. DiskTypes'
  <2>1. {job[p].dir} \in SUBSET Dirs
    BY <1>1
  <2> QED
    BY <2>1, MoreDirs DEF ListScripts
<1> QED
  BY <1>1, <1>3, <1>4, <1>5, <1>6, MoveTypes, SameDocs, SameTx
     DEF Goes, ListScripts, seenVars, Steps

LEMMA CrashTypes ==
    ASSUME WorkInv, Crash
    PROVE  WorkInv'
<1>1. /\ at' \in [Procs -> Steps] /\ job' \in [Procs -> Jobs]
      /\ \A q \in Procs : at'[q] = "idle" /\ job'[q] = Idle
  BY IdleJob DEF Crash, Steps
<1>2. \A q \in Procs : JobOK(q)'
  BY <1>1, ScriptsAssumption DEF JobOK, Idle, WorkSteps, DocOps, FileOps
<1>3. \A q \in Procs : at[q] = "rename" => job[q].doc \in Docs
  BY JobFields DEF JobOK, Docs
<1>4. DocTypes'
  BY <1>3, WorkParts DEF Crash, DocTypes, docVars
<1>5. BinTypes'
  BY WorkParts DEF Crash, BinTypes
<1>6. DiskTypes'
  BY SameDisk DEF Crash
<1>7. TxTypeOK(Docs)'
  BY WorkParts DEF Crash, TxCrash, TxTypeOK, Docs
<1> QED
  BY <1>1, <1>2, <1>4, <1>5, <1>6, <1>7 DEF WorkInv, TypeOK, DocTypes, DiskTypes, BinTypes, Docs

LEMMA InitWork == Init => WorkInv
<1> SUFFICES ASSUME Init PROVE WorkInv
  OBVIOUS
<1>1. DocTypes
  BY ScriptsAssumption DEF Init, DocTypes
<1>2. \A c \in Controllers : name[c] # NoName => name[Car] # NoName
  BY DEF Init
<1>3. DiskTypes
  <2>1. dirs \subseteq Dirs
    BY <1>1, <1>2 DEF Init, DocTypes, Docs, Dirs, Trees
  <2> QED
    BY <2>1 DEF Init, DiskTypes
<1>4. BinTypes
  BY DEF Init, BinTypes
<1>5. TxTypeOK(Docs)
  BY DEF Init, TxInit, TxTypeOK
<1>6. /\ at \in [Procs -> Steps] /\ job \in [Procs -> Jobs]
      /\ \A q \in Procs : at[q] = "idle" /\ job[q] = Idle
  BY IdleJob DEF Init, Steps
<1>7. \A q \in Procs : JobOK(q)
  BY <1>6, ScriptsAssumption DEF JobOK, Idle, WorkSteps, DocOps, FileOps
<1> QED
  BY <1>1, <1>3, <1>4, <1>5, <1>6, <1>7, WorkParts

-----------------------------------------------------------------------------
(* One handler makes a script, and one that is dropped has no document. *)

\* A step that adds no document and no script to the disk, and takes nobody back to
\* where his script has no file.
LEMMA MakingKept ==
    ASSUME WorkInv, MakingInv, NEW p \in Procs, Goes(p) \/ Leaves(p), scripts' \subseteq scripts,
           \A x \in files' : \E y \in files : y.id = x.id,
           at'[p] = "unlink" => at[p] = "unlink",
           job[p].op = "script" /\ at'[p] \in BeforeWriting => at[p] \in BeforeWriting
    PROVE  MakingInv'
<1>1. CASE Goes(p)
  BY <1>1 DEF MakingInv, MakesOne, DropsOne, Goes, SameWork, Others
<1>2. CASE Leaves(p)
  <2>1. \A q \in Procs : job[q].op = "script" => job[q].script \in ScriptIds
    BY JobFields DEF JobOK
  <2>2. job'[p].op = "none" /\ job'[p].script = NoScript /\ at'[p] # "unlink"
    BY <1>2 DEF Leaves, Idle
  <2> QED
    BY <1>2, <2>1, <2>2, ScriptsAssumption DEF MakingInv, MakesOne, DropsOne, Leaves, Others
<1> QED
  BY <1>1, <1>2

LEMMA MakingBegun ==
    ASSUME WorkInv, MakingInv, NEW p \in Procs, Begins(p), JobOK(p)',
           job'[p].script = NoScript, job'[p].op # "drop", job'[p].op # "script",
           job'[p].op \in WorkOps
    PROVE  MakingInv'
<1>1. \A q \in Procs : job[q].op = "script" => job[q].script \in ScriptIds
  BY JobFields DEF JobOK
<1>2. at'[p] # "unlink"
  BY DEF JobOK, WorkSteps, WorkOps, DocOps, FileOps
<1> QED
  BY <1>1, <1>2, ScriptsAssumption
     DEF MakingInv, MakesOne, DropsOne, Begins, Others, docVars, diskVars

LEMMA MakingCreate ==
    ASSUME WorkInv, MakingInv, NEW p \in Procs, NEW d \in Controllers, NEW m \in Blocks,
           NEW s \in ScriptIds, NEW f \in Services \cup {Upload}, CreateScript(p, s, d, f, m)
    PROVE  MakingInv'
<1>1. /\ Begins(p) /\ job'[p].op = "script" /\ job'[p].script = s /\ JobOK(p)'
  BY CreateScriptTypes DEF Has
<1>2. /\ \A t \in scripts : t.id # s
      /\ \A x \in files : x.id # s
      /\ \A q \in Procs : job[q].script # s
  BY DEF CreateScript
<1>3. at'[p] # "unlink"
  BY <1>1 DEF JobOK, WorkSteps
<1> QED
  BY <1>1, <1>2, <1>3 DEF MakingInv, MakesOne, DropsOne, Begins, Others, docVars, diskVars

LEMMA MakingDelete ==
    ASSUME WorkInv, MakingInv, NEW p \in Procs, NEW t \in scripts, DeleteScript(p, t)
    PROVE  MakingInv'
<1>1. /\ Begins(p) /\ job'[p].op = "drop" /\ job'[p].script = t.id
  BY DeleteScriptTypes DEF Has
<1>2. at'[p] = "drop"
  BY WorkParts DEF DeleteScript, Begin
<1> QED
  BY <1>1, <1>2 DEF MakingInv, MakesOne, DropsOne, Begins, Others, docVars, diskVars

LEMMA MakingMatch ==
    ASSUME WorkInv, MakingInv, NEW p \in Procs, MatchFile(p)
    PROVE  MakingInv'
<1>1. /\ Others(p) /\ job'[p].op = "replace" /\ at'[p] = "find"
      /\ \E x \in files : x.id = job'[p].script
  BY MatchFileTypes
<1>2. UNCHANGED <<scripts, files>>
  BY DEF MatchFile, docVars, diskVars
<1> QED
  BY <1>1, <1>2 DEF MakingInv, MakesOne, DropsOne, Others

LEMMA MakingOpen ==
    ASSUME WorkInv, MakingInv, NEW p \in Procs, OpenScript(p)
    PROVE  MakingInv'
<1>1. Goes(p) /\ at[p] = "write" /\ at'[p] = "writing" /\ UNCHANGED scripts
  BY OpenScriptTypes, NextStep DEF OpenScript, docVars, Steps
<1>2. \A x \in files' : x.id = job[p].script \/ \E y \in files : y.id = x.id
  BY DEF OpenScript
<1> QED
  BY <1>1, <1>2 DEF MakingInv, MakesOne, DropsOne, Goes, SameWork, Others, BeforeWriting

LEMMA MakingInsert ==
    ASSUME WorkInv, MakingInv, NEW p \in Procs, InsertScript(p)
    PROVE  MakingInv'
<1>1. Leaves(p) /\ UNCHANGED files
  BY InsertScriptTypes DEF InsertScript
<1>2. job[p].op = "script" /\ at[p] = "insert"
  BY JobFields DEF InsertScript, JobOK, WorkSteps
<1>3. \A t \in scripts' : t \in scripts \/ t.id = job[p].script
  BY DEF InsertScript
<1>4. \A q \in Procs : job[q].op = "script" => job[q].script \in ScriptIds
  BY JobFields DEF JobOK
<1>5. job'[p].op = "none" /\ job'[p].script = NoScript /\ at'[p] # "unlink"
  BY <1>1 DEF Leaves, Idle
<1>6. \A q \in Procs \ {p} : at[q] = "unlink" => job[q].op = "drop"
  BY JobFields DEF JobOK, WorkSteps
<1> QED
  BY <1>1, <1>2, <1>3, <1>4, <1>5, <1>6, ScriptsAssumption
     DEF MakingInv, MakesOne, DropsOne, Leaves, Others

LEMMA MakingDrop ==
    ASSUME WorkInv, MakingInv, NEW p \in Procs, DropScript(p)
    PROVE  MakingInv'
<1>1. scripts' = {t \in scripts : t.id # job[p].script} /\ UNCHANGED files
  BY DEF DropScript, diskVars
<1>2. CASE Leaves(p)
  BY <1>1, <1>2, MakingKept DEF Leaves, BeforeWriting
<1>3. CASE ~Leaves(p)
  <2>1. Others(p) /\ job'[p].op = "drop" /\ job'[p].script = job[p].script
    BY <1>3, DropScriptTypes
  <2> QED
    BY <1>1, <2>1, DropScriptTypes DEF MakingInv, MakesOne, DropsOne, Others
<1> QED
  BY <1>2, <1>3

-----------------------------------------------------------------------------
(* Steps in groups. *)

Request(p) ==
    \/ \E d \in Docs, n \in Names : CreateDoc(p, d, n)
    \/ \E d \in Docs, n \in Names, w \in SUBSET Fields : UpdateDoc(p, d, n, w)
    \/ \E d \in Docs : RemoveDoc(p, d)
    \/ \E d \in Controllers, m \in Blocks, s \in ScriptIds, f \in Services \cup {Upload} :
          CreateScript(p, s, d, f, m)
    \/ \E d \in Controllers, m \in Blocks, f \in Services : ReplaceScript(p, d, f, m)
    \/ \E t \in scripts : DeleteScript(p, t)
    \/ \E d \in Controllers, assist \in BOOLEAN : Automatisation(p, d, assist)

LEMMA NextCases ==
    ASSUME Next
    PROVE  Crash \/ \E p \in Procs : Request(p) \/ DocStep(p) \/ ScriptStep(p)
BY DEF Next, Request

LEMMA RequestFacts ==
    ASSUME WorkInv, NEW p \in Procs, Request(p)
    PROVE  WorkInv' /\ Begins(p) /\ JobOK(p)' /\ job'[p].op \in WorkOps
<1>1. WorkInv' /\ Begins(p) /\ JobOK(p)'
  BY CreateDocTypes, UpdateDocTypes, RemoveDocTypes, CreateScriptTypes, ReplaceScriptTypes,
     DeleteScriptTypes, AutomatisationTypes DEF Request
<1> QED
  BY <1>1 DEF WorkInv, Jobs

\* Every file is one of before, in another directory perhaps.
SameFiles ==
    \A x \in files' : \E y \in files : x.id = y.id /\ x.orig = y.orig /\ x.mod = y.mod

\* What the steps of create, update and remove leave alone.
LEMMA DocStepFacts ==
    ASSUME WorkInv, NEW p \in Procs, DocStep(p)
    PROVE  /\ WorkInv' /\ (Goes(p) \/ Leaves(p)) /\ job[p].op \in DocOps
           /\ SameFiles /\ strayed \subseteq strayed'
           /\ UNCHANGED <<scripts, bin, writers, owner, offered, deleted, shared>>
<1>1. WorkInv' /\ (Goes(p) \/ Leaves(p))
  BY SaveTypes, MakeDirTypes, WriteCarTypes, WriteControllerTypes, RenameDirTypes,
     RenameFailsTypes, DeleteDocTypes, DeleteControllersTypes, RemoveDirTypes, CommitDocTypes,
     FailDocTypes DEF DocStep
<1>2. job[p].op \in DocOps
  <2>1. at[p] \in {"save", "mkdir", "writeCar", "writeController", "rename", "delete",
                   "controllers", "rmdir", "commit"}
    BY DEF DocStep, Save, MakeDir, WriteCar, WriteController, RenameDir, RenameFails, DeleteDoc,
           DeleteControllers, RemoveDir, CommitDoc, FailDoc
  <2> QED
    BY <2>1, JobFields DEF JobOK, WorkSteps, DocOps
<1>3. /\ UNCHANGED <<scripts, bin, writers, owner, offered, deleted, shared>>
      /\ strayed \subseteq strayed'
  BY DEF DocStep, Save, MakeDir, WriteCar, WriteController, RenameDir, RenameFails, DeleteDoc,
         DeleteControllers, RemoveDir, CommitDoc, FailDoc, docVars, diskVars, seenVars
<1>4. SameFiles
  <2>1. CASE files' \subseteq files
    BY <2>1 DEF SameFiles
  <2>2. CASE RenameDir(p)
    <3>1. Renamed(p) \in Dirs
      BY <2>2, JobFields
         DEF RenameDir, JobOK, WorkSteps, DocOps, Renamed, CompletePath, PathElsewhere, Dirs,
             Trees
    <3> QED
      BY <2>1, <2>2, <3>1, MovedDir DEF RenameDir, SameFiles
  <2>3. CASE FailDoc(p)
    <3>1. CASE MoveDir(Renamed(p), job[p].dir) /\ Renamed(p) \in dirs /\ job[p].op = "update"
                 /\ FilesIn(job[p].dir) = {}
      <4>1. job[p].dir \in Dirs
        BY <3>1, JobFields DEF JobOK
      <4> QED
        BY <3>1, <4>1, MovedDir DEF SameFiles
    <3>2. job[p].op = "create" \/ job[p].op = "update" \/ (job[p].op = "remove" /\ ~job[p].made)
      BY <1>2, JobFields DEF JobOK, DocOps
    <3> QED
      BY <2>1, <2>3, <3>1, <3>2 DEF FailDoc, RemoveDirs
  <2> QED
    BY <2>1, <2>2, <2>3
       DEF DocStep, Save, MakeDir, WriteCar, WriteController, RenameFails, DeleteDoc,
           DeleteControllers, RemoveDir, CommitDoc, diskVars, RemoveDirs
<1> QED
  BY <1>1, <1>2, <1>3, <1>4

\* The steps that change neither what is a script nor what is in its file.
QuietStep(p) ==
    \/ FindOriginal(p) \/ OpenOriginal(p) \/ StoreBlock(p) \/ CheckSize(p) \/ ReadOriginal(p)
    \/ WriteScript(p) \/ FailScript(p) \/ NotFound(p) \/ ListScripts(p)
    \/ MatchScripts(p) \/ OfferFails(p)

\* What the steps of scripts leave alone that touch neither documents nor files.
LEMMA QuietFacts ==
    ASSUME WorkInv, NEW p \in Procs, QuietStep(p)
    PROVE  /\ WorkInv' /\ (Goes(p) \/ Leaves(p))
           /\ \A x \in files' : \E y \in files :
                 x.dir = y.dir /\ x.id = y.id /\ x.orig = y.orig /\ x.mod = y.mod
           /\ \A y \in files : \E x \in files' :
                 x.dir = y.dir /\ x.id = y.id /\ x.orig = y.orig /\ x.mod = y.mod
           /\ UNCHANGED <<name, place, removed, scripts, owner, deleted, strayed, shared>>
           /\ job[p].op \notin DocOps
           /\ at'[p] # "unlink"
           /\ at'[p] \in BeforeWriting => at[p] \in BeforeWriting
           /\ at'[p] \notin BeforeWriting /\ at'[p] # "idle" /\ job[p].op = "script"
                 => at[p] \notin BeforeWriting
<1>1. WorkInv' /\ (Goes(p) \/ Leaves(p))
  BY FindOriginalTypes, OpenOriginalTypes, StoreBlockTypes, CheckSizeTypes, ReadOriginalTypes,
     WriteScriptTypes, FailScriptTypes, EndTypes, ListScriptsTypes DEF QuietStep
<1>2. UNCHANGED <<name, place, removed, scripts, owner, deleted, strayed, shared>>
  BY DEF QuietStep, FindOriginal, OpenOriginal, StoreBlock, CheckSize, ReadOriginal, WriteScript,
         FailScript, NotFound, ListScripts, MatchScripts, OfferFails, docVars, seenVars
<1>3. /\ \A x \in files' : \E y \in files :
            x.dir = y.dir /\ x.id = y.id /\ x.orig = y.orig /\ x.mod = y.mod
      /\ \A y \in files : \E x \in files' :
            x.dir = y.dir /\ x.id = y.id /\ x.orig = y.orig /\ x.mod = y.mod
  <2>1. CASE WriteScript(p)
    BY <2>1, ValidFiles
  <2>2. CASE ~WriteScript(p)
    BY <2>2 DEF QuietStep, FindOriginal, OpenOriginal, StoreBlock, CheckSize, ReadOriginal,
                FailScript, NotFound, ListScripts, MatchScripts, OfferFails, diskVars
  <2> QED
    BY <2>1, <2>2
<1>4. \/ at[p] \in {"find", "download", "store", "check", "read"} /\ at'[p] \in BeforeWriting
      \/ at[p] = "writing" /\ at'[p] \in {"insert", "idle"}
      \/ at[p] = "list" /\ at'[p] = "offer"
      \/ at'[p] = "idle"
               /\ at[p] \in {"match", "find", "download", "store", "check", "read", "write",
                                      "insert", "drop", "list", "offer"}
  BY WorkParts
     DEF QuietStep, FindOriginal, OpenOriginal, StoreBlock, CheckSize, ReadOriginal, WriteScript,
         FailScript, NotFound, ListScripts, MatchScripts, OfferFails, Goto, Leave, BeforeWriting
<1>5. job[p].op \notin DocOps
  BY <1>4, JobFields DEF JobOK, WorkSteps, DocOps
<1> QED
  BY <1>1, <1>2, <1>3, <1>4, <1>5 DEF BeforeWriting

LEMMA MakingRequest ==
    ASSUME WorkInv, MakingInv, NEW p \in Procs, Request(p)
    PROVE  MakingInv'
<1>1. CASE \E d \in Controllers, m \in Blocks, s \in ScriptIds, f \in Services \cup {Upload} :
              CreateScript(p, s, d, f, m)
  BY <1>1, MakingCreate
<1>2. CASE \E t \in scripts : DeleteScript(p, t)
  BY <1>2, MakingDelete
<1>3. CASE \E d \in Docs, n \in Names : CreateDoc(p, d, n)
  BY <1>3, CreateDocTypes, MakingBegun DEF Has, WorkOps, DocOps
<1>4. CASE \E d \in Docs, n \in Names, w \in SUBSET Fields : UpdateDoc(p, d, n, w)
  BY <1>4, UpdateDocTypes, MakingBegun DEF Has, WorkOps, DocOps
<1>5. CASE \E d \in Docs : RemoveDoc(p, d)
  BY <1>5, RemoveDocTypes, MakingBegun DEF Has, WorkOps, DocOps
<1>6. CASE \E d \in Controllers, m \in Blocks, f \in Services : ReplaceScript(p, d, f, m)
  BY <1>6, ReplaceScriptTypes, MakingBegun DEF Has, WorkOps, FileOps
<1>7. CASE \E d \in Controllers, assist \in BOOLEAN : Automatisation(p, d, assist)
  BY <1>7, AutomatisationTypes, MakingBegun DEF Has, WorkOps
<1> QED
  BY <1>1, <1>2, <1>3, <1>4, <1>5, <1>6, <1>7 DEF Request

LEMMA ScriptStepCases ==
    ASSUME NEW p, ScriptStep(p)
    PROVE  \/ QuietStep(p) \/ MatchFile(p) \/ OpenScript(p) \/ InsertScript(p)
           \/ DropScript(p) \/ UnlinkScript(p)
BY DEF ScriptStep, QuietStep

WorkAndMaking == WorkInv /\ MakingInv

LEMMA InitMaking == Init => WorkAndMaking
BY InitWork, ScriptsAssumption DEF WorkAndMaking, Init, MakingInv, MakesOne, DropsOne, Idle

\* Types and the making of scripts are kept by every step.
LEMMA MakingNext == WorkAndMaking /\ [Next]_vars => WorkAndMaking'
<1> SUFFICES ASSUME WorkInv, MakingInv, [Next]_vars PROVE WorkAndMaking'
  BY DEF WorkAndMaking
<1>1. ASSUME NEW p \in Procs, Request(p) PROVE WorkAndMaking'
  BY <1>1, RequestFacts, MakingRequest DEF WorkAndMaking
<1>2. ASSUME NEW p \in Procs, DocStep(p) PROVE WorkAndMaking'
  <2>1. /\ WorkInv' /\ (Goes(p) \/ Leaves(p)) /\ job[p].op \in DocOps
        /\ SameFiles /\ scripts' \subseteq scripts
    BY <1>2, DocStepFacts
  <2>2. Goes(p) => at'[p] # "unlink"
    BY <2>1, JobFields DEF WorkInv, JobOK, WorkSteps, DocOps, Goes, SameWork
  <2>3. at'[p] # "unlink" /\ job[p].op # "script"
    BY <2>1, <2>2 DEF Leaves, DocOps
  <2> QED
    BY <2>1, <2>3, MakingKept DEF WorkAndMaking, SameFiles
<1>3. ASSUME NEW p \in Procs, QuietStep(p) PROVE WorkAndMaking'
  <2>1. /\ WorkInv' /\ (Goes(p) \/ Leaves(p)) /\ scripts' \subseteq scripts
        /\ \A x \in files' : \E y \in files : y.id = x.id
        /\ at'[p] # "unlink"
        /\ at'[p] \in BeforeWriting => at[p] \in BeforeWriting
    BY <1>3, QuietFacts
  <2> QED
    BY <2>1, MakingKept DEF WorkAndMaking
<1>4. ASSUME NEW p \in Procs, MatchFile(p) \/ OpenScript(p) \/ InsertScript(p) \/ DropScript(p)
      PROVE WorkAndMaking'
  BY <1>4, MatchFileTypes, OpenScriptTypes, InsertScriptTypes, DropScriptTypes,
     MakingMatch, MakingOpen, MakingInsert, MakingDrop DEF WorkAndMaking
<1>5. ASSUME NEW p \in Procs, UnlinkScript(p) PROVE WorkAndMaking'
  <2>1. /\ WorkInv' /\ Leaves(p) /\ scripts' \subseteq scripts
        /\ \A x \in files' : \E y \in files : y.id = x.id
    BY <1>5, UnlinkScriptTypes DEF UnlinkScript, docVars
  <2> QED
    BY <2>1, MakingKept DEF WorkAndMaking, Leaves, BeforeWriting
<1>6. CASE Crash
  <2>1. WorkInv' /\ \A q \in Procs : at'[q] = "idle" /\ job'[q].op = "none"
    BY <1>6, CrashTypes DEF Crash, Idle
  <2> QED
    BY <2>1 DEF WorkAndMaking, MakingInv, MakesOne, DropsOne
<1>7. CASE UNCHANGED vars
  BY <1>7 DEF WorkAndMaking, WorkInv, TypeOK, JobOK, TxTypeOK, txVars, MakingInv, MakesOne,
              DropsOne, vars, docVars, diskVars, seenVars
<1> QED
  BY <1>1, <1>2, <1>3, <1>4, <1>5, <1>6, <1>7, NextCases, ScriptStepCases

\* The state of the cars, their directories and scripts keeps its types, for any number
\* of controllers, names, scripts, requests and handlers, with failures and restarts.
THEOREM TypeCorrect == Spec => []TypeOK
<1>1. WorkAndMaking => TypeOK
  BY DEF WorkAndMaking, WorkInv
<1> QED
  BY InitMaking, MakingNext, <1>1, PTL DEF Spec

\* Only one request makes a script, which has no document before its file was
\* written (create), and one whose file is about to go has none either (deleteScript).
THEOREM MakingCorrect == Spec => []WorkAndMaking
BY InitMaking, MakingNext, PTL DEF Spec

-----------------------------------------------------------------------------
(* Handlers at one script or one original have been noticed. *)

LEMMA SharedKept ==
    ASSUME SharedInv, NEW p \in Procs, shared \subseteq shared', Others(p),
           \/ Leaves(p)
           \/ job'[p].script = job[p].script /\ job'[p].service = job[p].service
    PROVE  SharedInv'
<1>1. CASE Leaves(p)
  BY <1>1, ScriptsAssumption DEF SharedInv, Leaves, Others, Idle
<1>2. CASE ~Leaves(p)
  BY <1>2 DEF SharedInv, Others
<1> QED
  BY <1>1, <1>2

\* Every request and every match notices who is already at the script or the original.
LEMMA SharedNext ==
    ASSUME WorkInv, SharedInv, [Next]_vars
    PROVE  SharedInv' /\ shared \subseteq shared'
<1>1. ASSUME NEW p \in Procs, Request(p) PROVE SharedInv' /\ shared \subseteq shared'
  <2>1. Begins(p)
    BY <1>1, RequestFacts
  <2>2. ASSUME NEW q \in Procs \ {p}, NEW r \in ScriptIds \cup Services,
               r \in {job'[p].script, job'[p].service}, r \in {job[q].script, job[q].service}
        PROVE  r \in shared'
    <3>1. r \in UNION {{job[a].script, job[a].service} : a \in Procs \ {p}}
      BY <2>2
    <3> QED
      BY <2>1, <2>2, <3>1 DEF Begins
  <2> QED
    BY <2>1, <2>2 DEF Begins, Others, SharedInv
<1>2. ASSUME NEW p \in Procs, DocStep(p) PROVE SharedInv' /\ shared \subseteq shared'
  BY <1>2, DocStepFacts, SharedKept DEF Goes, SameWork, Leaves
<1>3. ASSUME NEW p \in Procs, QuietStep(p) PROVE SharedInv' /\ shared \subseteq shared'
  BY <1>3, QuietFacts, SharedKept DEF Goes, SameWork, Leaves
<1>4. ASSUME NEW p \in Procs, MatchFile(p) PROVE SharedInv' /\ shared \subseteq shared'
  <2>1. PICK x \in files :
           /\ job' = [job EXCEPT ![p].script = x.id]
           /\ shared' = IF \E q \in Procs \ {p} : job[q].script = x.id
                        THEN shared \cup {x.id} ELSE shared
    BY <1>4 DEF MatchFile, FilesIn
  <2>2. job'[p].script = x.id /\ x.id \in ScriptIds
    BY <2>1, FileFields, WorkParts, JobFields DEF Jobs
  <2>3. Others(p) /\ job'[p].service = job[p].service
    BY <1>4, MatchFileTypes
  <2>4. \A q \in Procs : job[q].service \in Services \cup {Upload, NoService}
    BY JobFields
  <2>5. job[p].service \in Services /\ job[p].op = "replace"
    BY <1>4, MatchFileTypes, JobFields DEF JobOK
  <2>6. \A q \in Procs \ {p} : job[q].script \in ScriptIds \cup {NoScript}
    BY JobFields
  <2>7. ASSUME NEW q \in Procs \ {p}, NEW r \in ScriptIds \cup Services,
               r \in {job'[p].script, job'[p].service}, r \in {job[q].script, job[q].service}
        PROVE  r \in shared'
    <3>1. CASE r = job[p].service
      BY <2>1, <2>7, <3>1 DEF SharedInv
    <3>2. CASE r = x.id /\ job[q].script = x.id
      BY <2>1, <2>7, <3>2
    <3>3. CASE r = x.id /\ job[q].service = x.id
      BY <2>1, <2>2, <2>4, <2>7, <3>3, ScriptsAssumption
    <3> QED
      BY <2>2, <2>3, <2>7, <3>1, <3>2, <3>3
  <2> QED
    BY <2>1, <2>3, <2>7 DEF Others, SharedInv
<1>5. ASSUME NEW p \in Procs, OpenScript(p) \/ InsertScript(p) \/ DropScript(p) \/ UnlinkScript(p)
      PROVE SharedInv' /\ shared \subseteq shared'
  <2>1. UNCHANGED shared
    BY <1>5 DEF OpenScript, InsertScript, DropScript, UnlinkScript, seenVars
  <2>2. Leaves(p) \/ (Others(p) /\ job'[p].script = job[p].script
              /\ job'[p].service = job[p].service)
    <3>1. CASE OpenScript(p)
      BY <3>1, OpenScriptTypes DEF Goes, SameWork
    <3>2. CASE InsertScript(p)
      BY <3>2, LeaveFacts DEF InsertScript
    <3>3. CASE DropScript(p)
      BY <3>3, DropScriptTypes
    <3>4. CASE UnlinkScript(p)
      BY <3>4, UnlinkScriptTypes
    <3> QED
      BY <1>5, <3>1, <3>2, <3>3, <3>4
  <2> QED
    BY <2>1, <2>2, SharedKept DEF Leaves
<1>6. CASE Crash
  <2>1. \A q \in Procs : job'[q] = Idle
    BY <1>6 DEF Crash
  <2> QED
    BY <1>6, <2>1, ScriptsAssumption DEF Crash, SharedInv, Idle
<1>7. CASE UNCHANGED vars
  BY <1>7 DEF SharedInv, vars, seenVars
<1> QED
  BY <1>1, <1>2, <1>3, <1>4, <1>5, <1>6, <1>7, NextCases, ScriptStepCases

-----------------------------------------------------------------------------
(* Alone at an original, a handler finds it whole or not at all. *)

LEMMA OrigKept ==
    ASSUME OrigInv, NEW p \in Procs, Others(p), shared \subseteq shared',
           UNCHANGED <<bin, writers>>, SameFiles, shared' = {} => OriginalOf(p)'
    PROVE  OrigInv'
BY DEF OrigInv, OriginalOf, Others, SameFiles, Service

\* The original of another handler is not the one that p works on.
LEMMA OthersOriginal ==
    ASSUME WorkInv, SharedInv, OrigInv, shared = {}, NEW p \in Procs, Others(p),
           Service(p) \in Services,
           \A f \in Services \ {Service(p)} : bin'[f] = bin[f],
           \A q \in Procs \ {p} : q \in writers /\ job[q].service # job[p].service
                 => q \in writers'
    PROVE  \A q \in Procs \ {p} : OriginalOf(q)'
<1> SUFFICES ASSUME NEW q \in Procs \ {p} PROVE OriginalOf(q)'
  OBVIOUS
<1>1. OriginalOf(q) /\ job'[q] = job[q] /\ at'[q] = at[q]
  BY DEF OrigInv, Others
<1>2. job[q].service # job[p].service
  BY DEF SharedInv, Service
<1>3. job[q].service \in Services \cup {Upload, NoService}
  BY JobFields
<1>4. at[q] = "store" => job[q].service \in Services
  BY JobFields DEF JobOK
<1>5. at[q] = "read" => job[q].service \in Services \cup {Upload}
  BY JobFields DEF JobOK, WorkSteps, FileOps
<1> QED
  BY <1>1, <1>2, <1>3, <1>4, <1>5 DEF OriginalOf, Service

\* The finally block of create removes the original from nobody who is alone at it.
LEMMA OrigRemoved ==
    ASSUME WorkInv, SharedInv, OrigInv, NEW p \in Procs, Leaves(p), RemoveOriginal(p),
           UNCHANGED <<files, shared>>
    PROVE  OrigInv'
<1> SUFFICES ASSUME shared = {}
             PROVE  /\ \A f \in Services : bin'[f] = Absent \/ \E n \in 0..2 : bin'[f] = 1..n
                    /\ \A q \in Procs : OriginalOf(q)'
  BY DEF OrigInv
<1>1. OriginalOf(p)'
  BY DEF OriginalOf, Leaves
<1>2. \A f \in Services : bin'[f] = Absent \/ bin'[f] = bin[f]
  BY WorkParts DEF RemoveOriginal, BinTypes
<1>3. CASE Service(p) \in Services
  <2>1. /\ \A f \in Services \ {Service(p)} : bin'[f] = bin[f]
        /\ \A q \in Procs \ {p} : q \in writers /\ job[q].service # job[p].service
                 => q \in writers'
    BY WorkParts DEF RemoveOriginal, BinTypes, Service
  <2>2. \A q \in Procs \ {p} : OriginalOf(q)'
    BY <1>3, <2>1, OthersOriginal DEF Leaves
  <2> QED
    BY <1>1, <1>2, <2>2 DEF OrigInv
<1>4. CASE Service(p) \notin Services
  <2>1. bin' = bin /\ writers' = writers \ {p}
    BY <1>4 DEF RemoveOriginal
  <2> QED
    BY <1>1, <1>2, <2>1 DEF OrigInv, OriginalOf, Leaves, Others, Service
<1> QED
  BY <1>3, <1>4

LEMMA OrigOpenOriginal ==
    ASSUME WorkInv, SharedInv, OrigInv, NEW p \in Procs, OpenOriginal(p)
    PROVE  OrigInv'
<1>1. Goes(p) /\ at'[p] = "store" /\ job' = job /\ UNCHANGED <<files, shared>>
  BY OpenOriginalTypes, NextStep DEF OpenOriginal, seenVars, Steps
<1>2. job[p].service \in Services /\ job[p].stored = 0
  BY JobFields DEF OpenOriginal, JobOK
<1>3. bin' = [bin EXCEPT ![job[p].service] = {}] /\ writers' = writers \cup {p}
  BY DEF OpenOriginal, Service
<1>4. 1..0 = {}
  OBVIOUS
<1>5. /\ bin'[job[p].service] = {}
      /\ \A f \in Services \ {job[p].service} : bin'[f] = bin[f]
  BY <1>2, <1>3, WorkParts DEF BinTypes
<1> SUFFICES ASSUME shared = {}
             PROVE  /\ \A f \in Services : bin'[f] = Absent \/ \E n \in 0..2 : bin'[f] = 1..n
                    /\ \A q \in Procs : OriginalOf(q)'
  BY <1>1 DEF OrigInv
<1>6. OriginalOf(p)'
  BY <1>1, <1>2, <1>3, <1>4, <1>5 DEF OriginalOf, Service
<1>7. \A q \in Procs \ {p} : OriginalOf(q)'
  BY <1>1, <1>2, <1>3, <1>5, OthersOriginal DEF Goes, Service
<1>8. \A f \in Services : bin'[f] = Absent \/ \E n \in 0..2 : bin'[f] = 1..n
  BY <1>4, <1>5 DEF OrigInv
<1> QED
  BY <1>6, <1>7, <1>8

\* Storing the next block keeps what is on the disk a beginning of the original.
LEMMA OrigStoreBlock ==
    ASSUME WorkInv, SharedInv, OrigInv, NEW p \in Procs, StoreBlock(p)
    PROVE  OrigInv'
<1> DEFINE n == job[p].stored + 1
           f == job[p].service
<1>1. /\ Goes(p) /\ UNCHANGED <<files, shared>> /\ at[p] = "store"
      /\ \/ n = 1 /\ UNCHANGED <<at, writers>>
         \/ n = 2 /\ at' = [at EXCEPT ![p] = "check"] /\ writers' = writers \ {p}
  <2>1. job[p].stored \in 0..1 /\ n \in 1..2
    BY JobFields DEF StoreBlock, JobOK
  <2>2. Goes(p) /\ UNCHANGED <<files, shared>> /\ at[p] = "store"
    BY StoreBlockTypes DEF StoreBlock, seenVars
  <2>3. IF n \in Whole /\ n + 1 \in Whole THEN UNCHANGED <<at, writers>>
        ELSE at' = [at EXCEPT ![p] = "check"] /\ writers' = writers \ {p}
    BY DEF StoreBlock
  <2> HIDE DEF n
  <2>4. n = 1 => n \in Whole /\ n + 1 \in Whole
    BY BlockNumbers
  <2>5. n = 2 => n + 1 \notin Whole
    BY BlockNumbers
  <2> QED
    BY <2>1, <2>2, <2>3, <2>4, <2>5
<1>2. f \in Services /\ job[p].stored \in 0..1
  BY JobFields DEF StoreBlock, JobOK
<1> SUFFICES ASSUME shared = {}
             PROVE  /\ \A g \in Services : bin'[g] = Absent \/ \E k \in 0..2 : bin'[g] = 1..k
                    /\ \A q \in Procs : OriginalOf(q)'
  BY <1>1 DEF OrigInv, SameFiles
<1>3. p \in writers /\ bin[f] = 1..job[p].stored
  BY <1>1 DEF OrigInv, OriginalOf, Service
<1>4. /\ bin'[f] = (1..job[p].stored) \cup {n}
      /\ \A g \in Services \ {f} : bin'[g] = bin[g]
  BY <1>2, <1>3, WorkParts DEF StoreBlock, Service, BinTypes
<1>5. bin'[f] = 1..n /\ n \in 1..2
  BY <1>2, <1>4
<1>6. job'[p].stored = n
  BY WorkParts, JobFields DEF StoreBlock, Jobs
<1>7. OriginalOf(p)'
  BY <1>1, <1>3, <1>5, <1>6, WorkParts DEF OriginalOf, Service, Goes, SameWork
<1>8. \A q \in Procs \ {p} : OriginalOf(q)'
  <2>1. \A q \in Procs \ {p} : q \in writers => q \in writers'
    BY <1>1
  <2> QED
    BY <1>1, <1>2, <1>4, <2>1, OthersOriginal DEF Goes, Service
<1>9. \A g \in Services : bin'[g] = Absent \/ \E k \in 0..2 : bin'[g] = 1..k
  BY <1>4, <1>5 DEF OrigInv
<1> QED
  BY <1>7, <1>8, <1>9

\* Of an original that was written from the front, the size says what is there.
LEMMA SizeOfBlocks ==
    ASSUME NEW n \in 0..2
    PROVE  Size(1..n) = n
<1>1. CASE n = 0
  BY <1>1 DEF Size
<1>2. CASE n # 0
  <2>1. n \in 1..n /\ \A m \in 1..n : m <= n
    BY <1>2
  <2>2. \A k \in 1..n : (\A m \in 1..n : m <= k) => k = n
    BY <2>1
  <2>3. 1..n # {}
    BY <2>1
  <2> QED
    BY <2>1, <2>2, <2>3 DEF Size
<1> QED
  BY <1>1, <1>2

LEMMA OrigCheckSize ==
    ASSUME WorkInv, SharedInv, OrigInv, NEW p \in Procs, CheckSize(p)
    PROVE  OrigInv'
<1>1. Goes(p) /\ at'[p] = "read" /\ job' = job /\ UNCHANGED <<files, shared, bin, writers>>
  BY CheckSizeTypes, NextStep DEF CheckSize, seenVars, Steps
<1>2. ASSUME shared' = {} PROVE OriginalOf(p)'
  <2>1. CASE Service(p) # Upload
    <3>1. /\ Service(p) \in Services /\ bin[Service(p)] # Absent
          /\ Size(bin[Service(p)]) = job[p].mod
      BY <2>1 DEF CheckSize, SameSize, OnDisk
    <3>2. PICK n \in 0..2 : bin[Service(p)] = 1..n
      BY <1>1, <1>2, <3>1 DEF OrigInv
    <3>3. bin[Service(p)] = 1..job[p].mod
      BY <3>1, <3>2, SizeOfBlocks
    <3> QED
      BY <1>1, <3>3 DEF OriginalOf, Service
  <2>2. CASE Service(p) = Upload
    BY <1>1, <2>2 DEF OriginalOf, Service
  <2> QED
    BY <2>1, <2>2
<1> QED
  BY <1>1, <1>2, OrigKept DEF Goes, SameFiles

LEMMA OrigReadOriginal ==
    ASSUME WorkInv, SharedInv, OrigInv, NEW p \in Procs, ReadOriginal(p)
    PROVE  OrigInv'
<1>1. Goes(p) /\ at[p] = "read" /\ UNCHANGED <<files, shared, bin, writers>>
  BY ReadOriginalTypes DEF ReadOriginal, diskVars, seenVars
<1>2. at'[p] = "write"
  BY WorkParts DEF ReadOriginal
<1>3. job'[p].orig = IF Service(p) = Upload THEN 1..job[p].mod ELSE bin[Service(p)]
  BY WorkParts, JobFields DEF ReadOriginal, Jobs
<1>4. ASSUME shared' = {} PROVE OriginalOf(p)'
  <2>1. job'[p].orig = 1..job[p].mod
    BY <1>1, <1>3, <1>4 DEF OrigInv, OriginalOf
  <2> QED
    BY <1>1, <1>2, <2>1 DEF OriginalOf, Goes, SameWork
<1> QED
  BY <1>1, <1>4, OrigKept DEF Goes, SameFiles

LEMMA OrigOpenScript ==
    ASSUME WorkInv, SharedInv, OrigInv, NEW p \in Procs, OpenScript(p)
    PROVE  OrigInv'
<1>1. /\ Goes(p) /\ at[p] = "write" /\ at'[p] = "writing" /\ job' = job
      /\ UNCHANGED <<shared, bin, writers>>
  BY OpenScriptTypes, NextStep DEF OpenScript, seenVars, Steps
<1>2. \A x \in files' : x \in files \/ (x.orig = job[p].orig /\ x.mod = job[p].mod)
  BY DEF OpenScript
<1> SUFFICES ASSUME shared = {} PROVE OrigInv'
  BY <1>1 DEF OrigInv
<1>3. job[p].orig = 1..job[p].mod
  BY <1>1 DEF OrigInv, OriginalOf
<1>4. \A x \in files' : x.orig = 1..x.mod
  BY <1>2, <1>3 DEF OrigInv
<1>5. OriginalOf(p)'
  BY <1>1, <1>3 DEF OriginalOf
<1>6. \A q \in Procs \ {p} : OriginalOf(q)'
  BY <1>1 DEF OrigInv, OriginalOf, Goes, Others, Service
<1> QED
  BY <1>1, <1>4, <1>5, <1>6 DEF OrigInv

LEMMA RequestStep ==
    ASSUME WorkInv, NEW p \in Procs, Request(p)
    PROVE  at'[p] \in {"save", "writeCar", "writeController", "delete", "check", "find",
                      "match", "drop", "list"}
<1> DEFINE S == {"save", "writeCar", "writeController", "delete", "check", "find",
                 "match", "drop", "list"}
<1>1. \A s, j : Begin(p, j, s) => at'[p] = s
  BY WorkParts DEF Begin
<1>2. ASSUME NEW d \in Docs, NEW n \in Names, CreateDoc(p, d, n) PROVE at'[p] \in S
  BY <1>1, <1>2 DEF CreateDoc
<1>3. ASSUME NEW d \in Docs, NEW n \in Names, NEW w \in SUBSET Fields, UpdateDoc(p, d, n, w)
      PROVE  at'[p] \in S
  BY <1>1, <1>3 DEF UpdateDoc
<1>4. ASSUME NEW d \in Docs, RemoveDoc(p, d) PROVE at'[p] \in S
  BY <1>1, <1>4 DEF RemoveDoc
<1>5. ASSUME NEW d \in Controllers, NEW m \in Blocks, NEW s \in ScriptIds,
             NEW f \in Services \cup {Upload}, CreateScript(p, s, d, f, m) PROVE at'[p] \in S
  BY <1>1, <1>5 DEF CreateScript
<1>6. ASSUME NEW d \in Controllers, NEW m \in Blocks, NEW f \in Services,
             ReplaceScript(p, d, f, m) PROVE at'[p] \in S
  BY <1>1, <1>6 DEF ReplaceScript
<1>7. ASSUME NEW t \in scripts, DeleteScript(p, t) PROVE at'[p] \in S
  BY <1>1, <1>7 DEF DeleteScript
<1>8. ASSUME NEW d \in Controllers, NEW assist \in BOOLEAN, Automatisation(p, d, assist)
      PROVE at'[p] \in S
  BY <1>1, <1>8 DEF Automatisation
<1> QED
  BY <1>2, <1>3, <1>4, <1>5, <1>6, <1>7, <1>8 DEF Request

\* Alone at an original, every step keeps it whole or absent, and what was made of it.
LEMMA OrigNext ==
    ASSUME WorkInv, MakingInv, SharedInv, OrigInv, [Next]_vars
    PROVE  OrigInv'
<1>1. ASSUME NEW p \in Procs, Request(p) PROVE OrigInv'
  <2>1. /\ Begins(p) /\ JobOK(p)' /\ UNCHANGED <<bin, writers, files>>
        /\ at'[p] \notin {"store", "read", "write", "writing"}
    <3>1. at'[p] \in {"save", "writeCar", "writeController", "delete", "check", "find",
                      "match", "drop", "list"}
      BY <1>1, RequestStep
    <3> QED
      BY <1>1, <3>1, RequestFacts DEF Begins, diskVars
  <2> QED
    BY <2>1, OrigKept DEF Begins, OriginalOf, SameFiles
<1>2. ASSUME NEW p \in Procs, DocStep(p) PROVE OrigInv'
  <2>1. at'[p] \notin {"store", "read", "write", "writing"}
    <3>1. WorkInv' /\ (Goes(p) \/ Leaves(p)) /\ job[p].op \in DocOps
      BY <1>2, DocStepFacts
    <3>2. CASE Goes(p)
      BY <3>1, <3>2 DEF WorkInv, JobOK, WorkSteps, DocOps, Goes, SameWork
    <3> QED
      BY <3>1, <3>2 DEF Leaves
  <2> QED
    BY <1>2, <2>1, DocStepFacts, OrigKept DEF Goes, Leaves, OriginalOf
<1>3. ASSUME NEW p \in Procs, UNCHANGED <<bin, writers, files, shared>>, Others(p),
             at'[p] \notin {"store", "read", "write", "writing"}
      PROVE OrigInv'
  BY <1>3, OrigKept DEF OriginalOf, SameFiles
<1>4. ASSUME NEW p \in Procs, FindOriginal(p) PROVE OrigInv'
  <2>1. at'[p] \in {"check", "download"} /\ Others(p)
    BY <1>4, FindOriginalTypes, WorkParts DEF FindOriginal, Goto, Goes
  <2> QED
    BY <1>3, <1>4, <2>1 DEF FindOriginal, diskVars, seenVars
<1>5. ASSUME NEW p \in Procs, NotFound(p) \/ MatchScripts(p) \/ OfferFails(p) PROVE OrigInv'
  <2>1. UNCHANGED <<bin, writers, files, shared>>
    BY <1>5 DEF NotFound, MatchScripts, OfferFails, diskVars, seenVars
  <2> QED
    BY <1>3, <1>5, <2>1, EndTypes DEF Leaves
<1>6. ASSUME NEW p \in Procs, ListScripts(p) PROVE OrigInv'
  <2>1. at'[p] = "offer" /\ UNCHANGED <<bin, writers, files, shared>>
    BY <1>6, WorkParts DEF ListScripts, seenVars
  <2> QED
    BY <1>3, <1>6, <2>1, ListScriptsTypes DEF Goes
<1>7. ASSUME NEW p \in Procs, MatchFile(p) PROVE OrigInv'
  <2>1. /\ Others(p) /\ at'[p] = "find" /\ UNCHANGED <<bin, writers, files>>
        /\ shared \subseteq shared'
    BY <1>7, MatchFileTypes DEF MatchFile, diskVars
  <2> QED
    BY <2>1, OrigKept DEF OriginalOf, SameFiles
<1>8. ASSUME NEW p \in Procs, DropScript(p) PROVE OrigInv'
  <2>1. /\ Others(p) /\ at'[p] \in {"unlink", "idle"}
        /\ UNCHANGED <<bin, writers, files, shared>>
    BY <1>8, DropScriptTypes DEF DropScript, diskVars, seenVars, Leaves
  <2> QED
    BY <1>3, <2>1
<1>9. ASSUME NEW p \in Procs, UnlinkScript(p) PROVE OrigInv'
  <2>1. /\ Others(p) /\ at'[p] = "idle" /\ files' \subseteq files
        /\ UNCHANGED <<bin, writers, shared>>
    BY <1>9, UnlinkScriptTypes DEF UnlinkScript, Leaves
  <2> QED
    BY <2>1, OrigKept DEF OriginalOf, SameFiles
<1>10. ASSUME NEW p \in Procs, WriteScript(p) PROVE OrigInv'
  <2>1. UNCHANGED <<bin, writers, shared>> /\ SameFiles
    BY <1>10, ValidFiles DEF WriteScript, seenVars, SameFiles
  <2>2. Others(p) /\ at'[p] \in {"insert", "idle"}
    BY <1>10, WriteScriptTypes DEF Goes, Leaves
  <2> QED
    BY <2>1, <2>2, OrigKept DEF OriginalOf
<1>11. ASSUME NEW p \in Procs, FailScript(p) \/ InsertScript(p) PROVE OrigInv'
  <2>1. Leaves(p) /\ RemoveOriginal(p) /\ UNCHANGED <<files, shared>>
    BY <1>11, FailScriptTypes, InsertScriptTypes DEF FailScript, InsertScript, seenVars
  <2> QED
    BY <2>1, OrigRemoved
<1>12. ASSUME NEW p \in Procs, OpenOriginal(p) \/ StoreBlock(p) \/ CheckSize(p)
                               \/ ReadOriginal(p) \/ OpenScript(p) PROVE OrigInv'
  BY <1>12, OrigOpenOriginal, OrigStoreBlock, OrigCheckSize, OrigReadOriginal, OrigOpenScript
<1>13. CASE Crash
  <2>1. UNCHANGED <<bin, files, shared>> /\ \A q \in Procs : at'[q] = "idle"
    BY <1>13 DEF Crash
  <2> QED
    BY <2>1 DEF OrigInv, OriginalOf
<1>14. CASE UNCHANGED vars
  BY <1>14 DEF OrigInv, OriginalOf, vars, diskVars, seenVars, Service
<1> QED
  BY <1>1, <1>2, <1>4, <1>5, <1>6, <1>7, <1>8, <1>9, <1>10, <1>11, <1>12, <1>13, <1>14,
     NextCases DEF ScriptStep

-----------------------------------------------------------------------------
(* The directories. *)

LEMMA AllStrayed ==
    ASSUME WorkInv, Controllers \subseteq strayed
    PROVE  DirInv
<1>1. \A t \in scripts : t.doc \in strayed
  BY WorkParts DEF DocTypes
<1>2. \A p \in Procs : job[p].op = "script" => job[p].doc \in strayed
  BY JobFields DEF JobOK, DocOps
<1>3. AloneInv /\ NamesInv /\ CarInv /\ \A p \in Procs : Knows(p)
  BY DEF AloneInv, NamesInv, CarInv, Knows
<1> QED
  BY <1>1, <1>2, <1>3 DEF DirInv, PlacesInv, ReplacesInv

\* The parts of DirInv that are not about files.
FollowInv == AloneInv /\ NamesInv /\ CarInv /\ \A p \in Procs : Knows(p)

\* A handler that goes on or leaves claims no name that it did not.
LEMMA UsesKept ==
    ASSUME WorkInv, NEW p \in Procs, Goes(p) \/ Leaves(p)
    PROVE  \A q \in Procs :
              /\ Uses(job'[q]) \subseteq Uses(job[q])
              /\ Seeks(job'[q]) \subseteq Seeks(job[q])
              /\ job'[q].doc \in Docs => job'[q].doc = job[q].doc /\ job'[q].op = job[q].op
<1>1. \A q \in Procs \ {p} : job'[q] = job[q]
  BY DEF Goes, Leaves, Others
<1>2. CASE Goes(p)
  BY <1>1, <1>2 DEF Goes, SameWork, Uses, Seeks
<1>3. CASE Leaves(p)
  <2>1. job'[p].doc = NoDoc /\ Uses(job'[p]) = {} /\ Seeks(job'[p]) = {}
    BY <1>3, ScriptsAssumption DEF Leaves, Idle, Uses, Seeks
  <2> QED
    BY <1>1, <2>1, ScriptsAssumption DEF Docs
<1> QED
  BY <1>2, <1>3

\* A step that gives its document its name, or takes it away, and no other.
LEMMA FollowKept ==
    ASSUME WorkInv, WorkInv', FollowInv, NEW p \in Procs, Goes(p) \/ Leaves(p),
           owner' = owner, strayed \subseteq strayed',
           \A e \in Docs \ {job[p].doc} : name'[e] = name[e],
           job[p].doc \in Docs =>
              name'[job[p].doc] \in {name[job[p].doc], NoName, job[p].name},
           name' # name => job[p].op \in DocOps /\ job[p].doc \in Docs,
           name'[Car] = name[Car] \/ (job[p].doc = Car /\ Leaves(p)),
           \A e \in Controllers : place'[e] # place[e] =>
              e = job[p].doc /\ job[p].op = "update" /\ name'[e] = job[p].name,
           Knows(p)'
    PROVE  FollowInv'
<1>1. \A q \in Procs :
         /\ Uses(job'[q]) \subseteq Uses(job[q]) /\ Seeks(job'[q]) \subseteq Seeks(job[q])
         /\ job'[q].doc \in Docs => job'[q].doc = job[q].doc /\ job'[q].op = job[q].op
  BY UsesKept
<1>2. Car \in Docs /\ Controllers \subseteq Docs /\ Car \notin Controllers
  BY ScriptsAssumption DEF Docs
<1>a. \A d \in Controllers, q \in Procs : Meets(job'[q], d) => Meets(job[q], d)
            /\ job'[q].op = job[q].op
  BY <1>1, <1>2 DEF Meets
<1>3. AloneInv'
  BY <1>a DEF FollowInv, AloneInv, Changes
<1>4. \A d \in Controllers, n \in Names : Claims(d, n)' => Claims(d, n)
  <2> SUFFICES ASSUME NEW d \in Controllers, NEW n \in Names, Claims(d, n)' PROVE Claims(d, n)
    OBVIOUS
  <2>1. CASE name'[d] = n
    <3>1. CASE d = job[p].doc /\ n = job[p].name
      BY <3>1 DEF Claims, Uses
    <3> QED
      BY <2>1, <3>1, <1>2, ScriptsAssumption DEF Claims
  <2>2. ASSUME NEW q \in Procs, job'[q].doc = d, n \in Uses(job'[q]) PROVE Claims(d, n)
    BY <2>2, <1>1, <1>2 DEF Claims
  <2> QED
    BY <2>1, <2>2 DEF Claims
<1>5. NamesInv'
  <2> SUFFICES ASSUME NEW d \in Controllers \ strayed', NEW n \in Names, Claims(d, n)'
               PROVE  /\ \A e \in Controllers \ {d} : "portal" \in place'[e] \/ name'[e] # n
                      /\ \A q \in Procs : job'[q].doc # d => n \notin Seeks(job'[q])
    BY DEF NamesInv
  <2>1. /\ \A e \in Controllers \ {d} : "portal" \in place[e] \/ name[e] # n
        /\ \A q \in Procs : job[q].doc # d => n \notin Seeks(job[q])
    BY <1>4 DEF FollowInv, NamesInv
  <2>2. ASSUME NEW e \in Controllers \ {d} PROVE "portal" \in place'[e] \/ name'[e] # n
    <3>1. CASE name'[e] = name[e] /\ place'[e] = place[e]
      BY <2>1, <3>1
    <3>2. CASE ~(name'[e] = name[e] /\ place'[e] = place[e])
      <4>1. e = job[p].doc /\ job[p].op \in DocOps /\ name'[e] \in {NoName, job[p].name}
        BY <1>2, <3>2 DEF DocOps
      <4>2. job[p].name # n
        BY <2>1, <4>1 DEF Uses, Seeks, DocOps
      <4> QED
        BY <4>1, <4>2, ScriptsAssumption
    <3> QED
      BY <3>1, <3>2
  <2>3. ASSUME NEW q \in Procs, job'[q].doc # d PROVE n \notin Seeks(job'[q])
    <3>1. CASE job[q].doc # d
      BY <1>1, <2>1, <3>1
    <3>2. CASE job[q].doc = d
      <4>1. q = p /\ Leaves(p)
        BY <2>3, <3>2 DEF Goes, Leaves, Others, SameWork
      <4> QED
        BY <4>1, ScriptsAssumption DEF Leaves, Idle, Uses, Seeks
    <3> QED
      BY <3>1, <3>2
  <2> QED
    BY <2>2, <2>3
<1>6. \A d \in Controllers \ strayed' : \A q \in Procs \ {p} :
         Meets(job[q], d) => name'[d] = name[d] /\ name'[Car] = name[Car]
  <2> SUFFICES ASSUME NEW d \in Controllers \ strayed', NEW q \in Procs \ {p}, Meets(job[q], d),
                      name'[d] # name[d] \/ name'[Car] # name[Car]
               PROVE  FALSE
    OBVIOUS
  <2>1. Changes(job[p]) /\ Meets(job[p], d)
    BY <1>2 DEF Changes, DocOps, Meets
  <2> QED
    BY <2>1 DEF FollowInv, AloneInv
<1>7. CarInv'
  <2> SUFFICES ASSUME NEW d \in Controllers \ strayed'
               PROVE  /\ name'[d] # NoName => name'[Car] # NoName
                      /\ \A q \in Procs : job'[q].doc = Car => job'[q].op = "create"
                               /\ name'[Car] = NoName
    BY DEF CarInv, Exists
  <2>1. /\ name[d] # NoName => name[Car] # NoName
        /\ \A q \in Procs : job[q].doc = Car => job[q].op = "create" /\ name[Car] = NoName
    BY DEF FollowInv, CarInv, Exists
  <2>2. ASSUME name'[d] # NoName PROVE name'[Car] # NoName
    <3>1. CASE name'[Car] = name[Car]
      <4>1. CASE job[p].doc = d
        BY <3>1, <4>1 DEF FollowInv, Knows, Exists
      <4>2. CASE job[p].doc # d
        BY <2>1, <2>2, <3>1, <4>2, <1>2
      <4> QED
        BY <4>1, <4>2
    <3>2. CASE name'[Car] # name[Car]
      BY <2>1, <2>2, <3>2, <1>2
    <3> QED
      BY <3>1, <3>2
  <2>3. ASSUME NEW q \in Procs, job'[q].doc = Car
        PROVE  job'[q].op = "create" /\ name'[Car] = NoName
    <3>1. job[q].doc = Car /\ job'[q].op = "create" /\ name[Car] = NoName
      BY <1>1, <1>2, <2>1, <2>3
    <3>2. CASE q # p
      BY <1>6, <3>1, <3>2 DEF Meets
    <3>3. CASE q = p
      <4>1. ~Leaves(p)
        BY <2>3, <3>3, <1>2, ScriptsAssumption DEF Leaves, Idle
      <4> QED
        BY <3>1, <4>1
    <3> QED
      BY <3>1, <3>2, <3>3
  <2> QED
    BY <2>2, <2>3
<1>8. ASSUME NEW q \in Procs \ {p} PROVE Knows(q)'
  <2>1. job'[q] = job[q] /\ at'[q] = at[q] /\ Knows(q)
    BY DEF Goes, Leaves, Others, FollowInv
  <2> SUFFICES ASSUME job[q].doc \in Controllers \ strayed' PROVE Knows(q)'
    BY <2>1 DEF Knows
  <2>2. name'[job[q].doc] = name[job[q].doc] /\ name'[Car] = name[Car]
    BY <1>6 DEF Meets
  <2> QED
    BY <2>1, <2>2 DEF Knows, Exists, ScriptDir, CompletePath
<1> QED
  BY <1>3, <1>5, <1>7, <1>8 DEF FollowInv

LEMMA KnowsKept ==
    ASSUME WorkInv, FollowInv, NEW p \in Procs, Goes(p) \/ Leaves(p),
           name' = name, owner' = owner, strayed \subseteq strayed', at'[p] # "unlink",
           Goes(p) => at'[p] # "writeController" /\ at[p] # "writeController"
    PROVE  Knows(p)'
<1>1. CASE Goes(p)
  <2>1. Knows(p)
    BY DEF FollowInv
  <2> QED
    BY <1>1, <2>1 DEF Goes, SameWork, Knows, Exists, ScriptDir, CompletePath, FileOps
<1>2. CASE Leaves(p)
  <2>1. job'[p].doc = NoDoc
    BY <1>2 DEF Leaves, Idle
  <2> QED
    BY <2>1, ScriptsAssumption DEF Knows
<1> QED
  BY <1>1, <1>2

\* Once the car changes no controller is followed.
LEMMA CarChanges ==
    ASSUME CarInv, NEW p \in Procs, job[p].doc = Car, job[p].op # "create"
    PROVE  Controllers \subseteq strayed
BY DEF CarInv

\* A step of create, update or remove keeps its controller followed, or says it strayed.
LEMMA FollowDoc ==
    ASSUME WorkInv, FollowInv, NEW p \in Procs, DocStep(p)
    PROVE  FollowInv'
<1>1. /\ WorkInv' /\ (Goes(p) \/ Leaves(p)) /\ job[p].op \in DocOps
      /\ strayed \subseteq strayed' /\ owner' = owner
  BY DocStepFacts
<1>2. job[p].doc \in Docs /\ Knows(p) /\ CarInv
  BY <1>1, JobFields DEF JobOK, FollowInv
<1>3. CASE job[p].doc = Car /\ job[p].op # "create"
  <2>1. Controllers \subseteq strayed'
    BY <1>1, <1>2, <1>3, CarChanges
  <2> QED
    BY <2>1, <1>1 DEF FollowInv, AloneInv, NamesInv, CarInv, Knows
<1> SUFFICES ASSUME job[p].doc = Car => job[p].op = "create" PROVE FollowInv'
  BY <1>3
<1>4. ASSUME UNCHANGED <<name, place>>, Goes(p) => at'[p] # "writeController" /\ at[p] # "writeController"
      PROVE  FollowInv'
  <2>1. at'[p] # "unlink"
    <3>1. CASE Goes(p)
      BY <1>1, <3>1 DEF WorkInv, JobOK, WorkSteps, DocOps, Goes, SameWork
    <3> QED
      BY <1>1, <3>1 DEF Leaves
  <2>2. Knows(p)'
    BY <1>1, <1>4, <2>1, KnowsKept
  <2> QED
    BY <1>1, <1>2, <1>4, <2>2, FollowKept
<1>5. CASE Save(p) \/ MakeDir(p) \/ WriteCar(p) \/ RenameDir(p) \/ DeleteDoc(p) \/ RemoveDir(p)
  <2>1. UNCHANGED <<name, place>> /\ at[p] # "writeController"
    BY <1>5 DEF Save, MakeDir, WriteCar, RenameDir, DeleteDoc, RemoveDir, docVars
  <2>2. at'[p] # "writeController"
    BY <1>5, WorkParts DEF Save, MakeDir, WriteCar, RenameDir, DeleteDoc, RemoveDir, Goto
  <2> QED
    BY <1>4, <2>1, <2>2
<1>6. CASE RenameFails(p) \/ FailDoc(p)
  <2>1. UNCHANGED <<name, place>> /\ Leaves(p) /\ at[p] # "idle"
    BY <1>6, LeaveFacts DEF RenameFails, FailDoc, docVars
  <2>2. ~Goes(p)
    <3>1. job'[p].op = "none"
      BY <2>1 DEF Leaves, Idle
    <3> QED
      BY <1>1, <3>1 DEF Goes, SameWork, DocOps
  <2> QED
    BY <1>4, <2>1, <2>2
<1>7. CASE WriteController(p)
  <2> DEFINE d == job[p].doc
  <2>1. /\ d \in Controllers /\ at[p] = "writeController" /\ job[p].op = "update"
        /\ job[p].name \in Names
    BY <1>7, JobFields DEF WriteController, JobOK, WorkSteps
  <2>2. Goes(p) /\ job' = job /\ at'[p] = "rename"
    BY <1>7, WriteControllerTypes, NextStep DEF WriteController, Steps
  <2>3. name' = IF Exists(d) THEN [name EXCEPT ![d] = job[p].name] ELSE name
    BY <1>7 DEF WriteController
  <2>4. /\ \A e \in Docs \ {d} : name'[e] = name[e]
        /\ name'[d] = IF Exists(d) THEN job[p].name ELSE name[d]
    BY <1>2, <2>3, WorkParts DEF DocTypes
  <2>a. \A e \in Controllers : place'[e] # place[e] => e = d /\ name'[e] = job[p].name
    BY <1>2, <1>7, <2>4, WorkParts DEF WriteController, DocTypes
  <2>5. name'[Car] = name[Car]
    BY <2>1, <2>4, ScriptsAssumption DEF Docs
  <2>6. Knows(p)'
    <3> SUFFICES ASSUME d \in Controllers \ strayed' PROVE Knows(p)'
      BY <2>2 DEF Knows
    <3>1. /\ Exists(Car) /\ Exists(d) /\ owner # "super"
          /\ job[p].place = {} => job[p].dir = CompletePath(name[Car], job[p].dir[3])
          /\ job[p].place # {} => job[p].dir = PathElsewhere(job[p].name)
      BY <1>1, <1>2, <2>1 DEF Knows
    <3>2. name'[d] = job[p].name /\ name'[d] # NoName
      BY <2>1, <2>4, <3>1, ScriptsAssumption
    <3> QED
      BY <1>1, <2>1, <2>2, <2>5, <3>1, <3>2 DEF Knows, Exists, FileOps, CompletePath
  <2>7. name'[job[p].doc] \in {name[job[p].doc], NoName, job[p].name}
    BY <2>4
  <2> HIDE DEF d
  <2> QED
    BY <1>1, <1>2, <2>1, <2>2, <2>4, <2>5, <2>6, <2>7, <2>a, FollowKept DEF d
<1>8. CASE DeleteControllers(p)
  BY <1>8, JobFields DEF DeleteControllers, JobOK, WorkSteps
<1>9. CASE CommitDoc(p)
  <2> DEFINE d == job[p].doc
  <2>1. Leaves(p)
    BY <1>9, CommitDocTypes
  <2>2. /\ \A e \in Docs \ {d} : name'[e] = name[e]
        /\ name'[d] \in {name[d], NoName, job[p].name}
    BY <1>2, <1>9, WorkParts DEF CommitDoc, DocTypes
  <2>3. Knows(p)'
    BY <2>1, ScriptsAssumption DEF Leaves, Idle, Knows
  <2>4. (name'[Car] = name[Car] \/ job[p].doc = Car) /\ place' = place
    BY <1>9, <2>2 DEF Docs, CommitDoc
  <2> QED
    BY <1>1, <1>2, <2>1, <2>2, <2>3, <2>4, FollowKept
<1> QED
  BY <1>5, <1>6, <1>7, <1>8, <1>9 DEF DocStep

LEMMA FollowQuiet ==
    ASSUME WorkInv, FollowInv, NEW p \in Procs,
           QuietStep(p) \/ OpenScript(p) \/ InsertScript(p) \/ UnlinkScript(p), MakingInv
    PROVE  FollowInv'
<1>1. /\ WorkInv' /\ (Goes(p) \/ Leaves(p)) /\ UNCHANGED <<name, place, owner, strayed>>
      /\ at'[p] # "unlink" /\ job[p].op \notin DocOps
  <2>1. CASE QuietStep(p)
    BY <2>1, QuietFacts
  <2>2. CASE OpenScript(p)
    <3>1. at'[p] = "writing" /\ job[p].op \in FileOps
      BY <2>2, NextStep, JobFields DEF OpenScript, Steps, JobOK, WorkSteps, FileOps
    <3> QED
      BY <2>2, <3>1, OpenScriptTypes DEF OpenScript, docVars, seenVars, FileOps, DocOps
  <2>3. CASE InsertScript(p)
    <3>1. job[p].op \in FileOps
      BY <2>3, JobFields DEF InsertScript, JobOK, WorkSteps, FileOps
    <3> QED
      BY <2>3, <3>1, InsertScriptTypes DEF InsertScript, Leaves, seenVars, FileOps, DocOps
  <2>4. CASE UnlinkScript(p)
    <3>1. job[p].op = "drop"
      BY <2>4, JobFields DEF UnlinkScript, JobOK, WorkSteps
    <3> QED
      BY <2>4, <3>1, UnlinkScriptTypes DEF UnlinkScript, Leaves, docVars, DocOps
  <2> QED
    BY <2>1, <2>2, <2>3, <2>4
<1>2. Goes(p) => at'[p] # "writeController" /\ at[p] # "writeController"
  <2>1. job[p].op \in {"none", "script", "replace", "drop", "offer"}
    BY <1>1, JobFields DEF DocOps
  <2>2. at[p] # "writeController"
    BY <2>1, JobFields DEF JobOK, WorkSteps
  <2>3. Goes(p) => JobOK(p)' /\ job'[p].op = job[p].op
    BY <1>1 DEF WorkInv, Goes, SameWork
  <2>4. Goes(p) => at'[p] # "writeController"
    BY <2>1, <2>3 DEF JobOK, WorkSteps
  <2> QED
    BY <2>2, <2>4
<1>3. Knows(p)'
  BY <1>1, <1>2, KnowsKept
<1>4. job[p].doc \in Docs \cup {NoDoc}
  BY JobFields
<1> QED
  BY <1>1, <1>3, <1>4, FollowKept

LEMMA FollowMatch ==
    ASSUME WorkInv, FollowInv, NEW p \in Procs, MatchFile(p)
    PROVE  FollowInv'
<1>1. \A q \in Procs :
         /\ job'[q].op = job[q].op /\ job'[q].doc = job[q].doc
         /\ job'[q].name = job[q].name /\ job'[q].dir = job[q].dir
         /\ job'[q].place = job[q].place
  BY MatchFileTypes DEF Others
<1>2. UNCHANGED <<name, place, owner, strayed>>
  BY DEF MatchFile, docVars
<1>4. \A q \in Procs : at'[q] = at[q] \/ (q = p /\ at[q] = "match" /\ at'[q] = "find")
  BY MatchFileTypes DEF Others, MatchFile
<1>5. AloneInv'
  BY <1>1, <1>2 DEF FollowInv, AloneInv, Meets, Changes
<1>6. NamesInv'
  BY <1>1, <1>2 DEF FollowInv, NamesInv, Claims, Uses, Seeks
<1>7. CarInv'
  BY <1>1, <1>2 DEF FollowInv, CarInv, Exists
<1>8. \A q \in Procs : Knows(q)'
  BY <1>1, <1>2, <1>4 DEF FollowInv, Knows, Exists, ScriptDir, CompletePath
<1> QED
  BY <1>5, <1>6, <1>7, <1>8 DEF FollowInv

LEMMA FollowDrop ==
    ASSUME WorkInv, FollowInv, NEW p \in Procs, DropScript(p)
    PROVE  FollowInv'
<1>1. WorkInv' /\ Others(p) /\ UNCHANGED <<name, place, owner, strayed>>
  BY DropScriptTypes DEF DropScript, seenVars
<1>2. CASE Leaves(p)
  <2>1. Knows(p)'
    BY <1>2, ScriptsAssumption DEF Leaves, Idle, Knows
  <2>2. job[p].doc \in Docs \cup {NoDoc}
    BY JobFields
  <2> QED
    BY <1>1, <1>2, <2>1, <2>2, FollowKept
<1>3. CASE ~Leaves(p)
  <2> DEFINE d == job[p].doc
  <2>1. /\ Exists(Car) /\ Exists(d) /\ at'[p] = "unlink" /\ job'[p].op = job[p].op
        /\ job'[p].doc = d /\ job'[p].name = job[p].name
        /\ job'[p].dir = CompletePath(name[Car], name[d])
    BY <1>3, DropScriptTypes
  <2>2. job[p].op = "drop" /\ d \in Controllers /\ job[p].name \notin Names
    BY JobFields DEF DropScript, JobOK, WorkSteps, DocOps
  <2>3. Uses(job'[p]) \subseteq {name[d]}
    BY <2>1, <2>2 DEF Uses, CompletePath
  <2> HIDE DEF d
  <2>4. \A q \in Procs : job'[q].op = job[q].op /\ job'[q].doc = job[q].doc
    BY <1>1, <2>1 DEF Others, d
  <2>5. \A e \in Controllers, n \in Names : Claims(e, n)' => Claims(e, n)
    BY <1>1, <2>1, <2>3, <2>4 DEF Claims, Others, d
  <2>6. AloneInv'
    BY <1>1, <2>4 DEF FollowInv, AloneInv, Meets, Changes
  <2>7. NamesInv'
    <3> SUFFICES ASSUME NEW e \in Controllers \ strayed, NEW n \in Names, Claims(e, n)
                 PROVE  /\ \A c \in Controllers \ {e} : "portal" \in place[c] \/ name[c] # n
                        /\ \A q \in Procs : job'[q].doc # e => n \notin Seeks(job'[q])
      BY <1>1, <2>5 DEF NamesInv
    <3>1. /\ \A c \in Controllers \ {e} : "portal" \in place[c] \/ name[c] # n
          /\ \A q \in Procs : job[q].doc # e => n \notin Seeks(job[q])
      BY DEF FollowInv, NamesInv
    <3>2. n \notin Seeks(job'[p])
      BY <2>1, <2>2 DEF Seeks
    <3> QED
      BY <1>1, <2>1, <3>1, <3>2 DEF Others
  <2>8. CarInv'
    BY <1>1, <2>4 DEF FollowInv, CarInv, Exists
  <2>9. \A q \in Procs \ {p} : Knows(q)'
    BY <1>1 DEF FollowInv, Knows, Exists, ScriptDir, CompletePath, Others
  <2>10. Knows(p)'
    BY <1>1, <2>1, <2>2 DEF Knows, Exists, CompletePath, FileOps
  <2> QED
    BY <2>6, <2>7, <2>8, <2>9, <2>10 DEF FollowInv
<1> QED
  BY <1>2, <1>3

\* What is so of a controller that is followed after a request was taken.
LEMMA NotStrayed ==
    ASSUME NEW p \in Procs, Begins(p), NEW d \in Controllers \ strayed'
    PROVE  /\ d \notin strayed
           /\ ~(job'[p].doc = Car /\ job'[p].op \in {"update", "remove"})
           /\ ~(job'[p].doc = d /\ job'[p].op = "remove")
           /\ job'[p].doc = d /\ job'[p].op = "update" =>
                 /\ owner # "super"
                 /\ job'[p].place # {} => job'[p].name = name[d]
           /\ job'[p].doc \in Controllers \ {d} => name[d] \notin Uses(job'[p])
           /\ \A q \in Procs \ {p} : Changes(job'[p]) \/ Changes(job[q]) =>
                 /\ ~(Meets(job'[p], d) /\ Meets(job[q], d))
                 /\ d \in {job'[p].doc, job[q].doc} => Uses(job'[p]) \cap Uses(job[q]) = {}
<1>1. strayed' = strayed \cup Strays(p, job'[p])
  BY DEF Begins
<1>2. d \notin Strays(p, job'[p]) /\ d \notin strayed
  BY <1>1
<1> QED
  BY <1>2 DEF Strays

\* A request with no name that another claims keeps the controllers it lets be followed.
LEMMA FollowBegun ==
    ASSUME WorkInv, FollowInv, NEW p \in Procs, Begins(p),
           job'[p].doc = Car => job'[p].op \in DocOps /\ (job'[p].op = "create" => ~Exists(Car)),
           \A d \in Controllers \ strayed', n \in Names :
              Claims(d, n) /\ job'[p].doc # d => n \notin Uses(job'[p]),
           \A d \in Controllers \ strayed', n \in Names :
              job'[p].doc = d /\ n \in Uses(job'[p]) =>
                 \/ Claims(d, n)
                 \/ /\ \A e \in Controllers \ {d} : "portal" \in place[e] \/ name[e] # n
                    /\ \A q \in Procs \ {p} : job[q].doc # d => n \notin Seeks(job[q]),
           Knows(p)'
    PROVE  FollowInv'
<1>0. \A j : Seeks(j) \subseteq Uses(j)
  BY DEF Seeks
<1>1. /\ UNCHANGED <<name, place, owner>> /\ strayed \subseteq strayed'
      /\ \A q \in Procs \ {p} : job'[q] = job[q] /\ at'[q] = at[q]
  BY DEF Begins, docVars, Others
<1>2. job[p].doc = NoDoc
  BY JobFields DEF Begins, JobOK, WorkSteps
<1>3. AloneInv'
  <2> SUFFICES ASSUME NEW d \in Controllers \ strayed', NEW q \in Procs, NEW r \in Procs,
                      q # r, Meets(job'[q], d), Meets(job'[r], d), Changes(job'[q])
               PROVE  FALSE
    BY DEF AloneInv
  <2>1. CASE q # p /\ r # p
    BY <1>1, <2>1 DEF FollowInv, AloneInv
  <2>2. CASE q = p \/ r = p
    BY <1>1, <2>2, NotStrayed
  <2> QED
    BY <2>1, <2>2
<1>4. NamesInv'
  <2> SUFFICES ASSUME NEW d \in Controllers \ strayed', NEW n \in Names, Claims(d, n)'
               PROVE  /\ \A e \in Controllers \ {d} : "portal" \in place[e] \/ name[e] # n
                      /\ \A q \in Procs : job'[q].doc # d => n \notin Seeks(job'[q])
    BY <1>1 DEF NamesInv
  <2>1. CASE Claims(d, n)
    <3>1. /\ \A e \in Controllers \ {d} : "portal" \in place[e] \/ name[e] # n
          /\ \A q \in Procs : job[q].doc # d => n \notin Seeks(job[q])
      BY <1>1, <2>1 DEF FollowInv, NamesInv
    <3> QED
      BY <1>0, <1>1, <2>1, <3>1
  <2>2. CASE ~Claims(d, n)
    <3>1. job'[p].doc = d /\ n \in Uses(job'[p])
      BY <1>1, <2>2 DEF Claims
    <3> QED
      BY <1>1, <2>2, <3>1
  <2> QED
    BY <2>1, <2>2
<1>5. CarInv'
  <2> SUFFICES ASSUME NEW d \in Controllers \ strayed'
               PROVE  /\ Exists(d) => Exists(Car)
                      /\ \A q \in Procs : job'[q].doc = Car => job'[q].op = "create"
                               /\ ~Exists(Car)
    BY <1>1 DEF CarInv, Exists
  <2>1. /\ Exists(d) => Exists(Car)
        /\ \A q \in Procs : job[q].doc = Car => job[q].op = "create" /\ ~Exists(Car)
    BY <1>1 DEF FollowInv, CarInv
  <2>2. job'[p].doc = Car => job'[p].op = "create" /\ ~Exists(Car)
    BY NotStrayed DEF DocOps
  <2> QED
    BY <1>1, <2>1, <2>2
<1>6. \A q \in Procs \ {p} : Knows(q)'
  BY <1>1 DEF FollowInv, Knows, Exists, ScriptDir, CompletePath
<1> QED
  BY <1>3, <1>4, <1>5, <1>6 DEF FollowInv

\* create: the name is free, so no followed controller has it or will have it.
LEMMA FollowCreate ==
    ASSUME WorkInv, FollowInv, NEW p \in Procs, NEW e \in Docs, NEW n0 \in Names,
           CreateDoc(p, e, n0)
    PROVE  FollowInv'
<1>1. /\ Begins(p)
      /\ Has(p, "create", e, n0, IF e = Car THEN NoDir ELSE CompletePath(name[Car], n0),
             NoScript, NoService, 0)
      /\ ~Exists(e) /\ (e # Car => Exists(Car)) /\ NameFree(e, n0)
  <2>1. ~Exists(e) /\ (e # Car => Exists(Car)) /\ NameFree(e, n0)
    BY DEF CreateDoc
  <2> QED
    BY <2>1, CreateDocTypes
<1>2. Uses(job'[p]) = {n0} /\ Changes(job'[p]) /\ job'[p].doc = e
  BY <1>1 DEF Has, Uses, CompletePath, Changes
<1>3. \A c \in Controllers \ {e} : e # Car => "portal" \in place[c] \/ name[c] # n0
  BY <1>1, ScriptsAssumption DEF NameFree, Rivals, Docs
<1>4. ASSUME NEW d \in Controllers \ strayed', Claims(d, n0), e # d PROVE FALSE
  <2>1. CASE name[d] = n0
    <3>1. e = Car
      BY <1>1, <1>2, <1>4, <2>1, NotStrayed DEF Docs
    <3>2. Exists(d) /\ ~Exists(Car)
      BY <1>1, <2>1, <3>1, ScriptsAssumption DEF Exists
    <3> QED
      BY <1>1, <3>2, NotStrayed DEF FollowInv, CarInv
  <2>2. ASSUME NEW q \in Procs, job[q].doc = d, n0 \in Uses(job[q]) PROVE FALSE
    <3>1. q # p
      BY <1>1, <2>2, JobFields, ScriptsAssumption DEF Begins, JobOK, WorkSteps
    <3> QED
      BY <1>1, <1>2, <2>2, <3>1, NotStrayed
  <2> QED
    BY <1>4, <2>1, <2>2 DEF Claims
<1>5. ASSUME NEW d \in Controllers \ strayed', e = d
      PROVE  /\ \A c \in Controllers \ {d} : "portal" \in place[c] \/ name[c] # n0
             /\ \A q \in Procs \ {p} : job[q].doc # d => n0 \notin Seeks(job[q])
  <2>1. d # Car
    BY ScriptsAssumption
  <2>2. \A q \in Procs \ {p} : n0 \notin Uses(job[q])
    BY <1>1, <1>2, <1>5, NotStrayed
  <2> QED
    BY <1>3, <1>5, <2>1, <2>2 DEF Seeks
<1>6. Knows(p)'
  <2> SUFFICES ASSUME e \in Controllers PROVE Knows(p)'
    BY <1>2 DEF Knows
  <2>1. e # Car /\ Exists(Car) /\ ~Exists(e) /\ UNCHANGED <<name, owner>>
    BY <1>1, ScriptsAssumption DEF Begins, docVars
  <2>2. at'[p] # "unlink"
    BY <1>1, CreateDocTypes DEF JobOK, Has, WorkSteps
  <2> QED
    BY <1>1, <2>1, <2>2 DEF Knows, Has, Exists, FileOps
<1>7. job'[p].doc = Car => job'[p].op \in DocOps /\ (job'[p].op = "create" => ~Exists(Car))
  BY <1>1 DEF Has, DocOps
<1> QED
  BY <1>1, <1>2, <1>4, <1>5, <1>6, <1>7, FollowBegun

\* update: the new name is free, and nobody else is at the controller.
LEMMA FollowUpdate ==
    ASSUME WorkInv, FollowInv, NEW p \in Procs, NEW e \in Docs, NEW n0 \in Names,
           NEW w \in SUBSET Fields, UpdateDoc(p, e, n0, w)
    PROVE  FollowInv'
<1>1. /\ Begins(p)
      /\ Has(p, "update", e, n0, OldPath(e, w), NoScript, NoService, 0) /\ job'[p].place = w
      /\ Exists(e) /\ NameFreeForAll(e, n0)
  <2>1. Exists(e) /\ NameFreeForAll(e, n0)
    BY DEF UpdateDoc
  <2> QED
    BY <2>1, UpdateDocTypes
<1>2. /\ Uses(job'[p]) \subseteq {n0, name[e]} /\ Changes(job'[p]) /\ job'[p].doc = e
      /\ job'[p].op = "update"
  BY <1>1 DEF Has, Uses, OldPath, CompletePath, PathElsewhere, Changes
<1>3. \A c \in Controllers \ {e} : e # Car => name[c] # n0
  BY <1>1, ScriptsAssumption DEF NameFreeForAll, Rivals, Docs
<1>4. ASSUME NEW d \in Controllers \ strayed' PROVE e # Car /\ e \in Controllers
  BY <1>1, <1>2, NotStrayed DEF Docs
<1>5. ASSUME NEW d \in Controllers \ strayed', NEW n \in Names, Claims(d, n), e # d,
             n \in Uses(job'[p])
      PROVE  FALSE
  <2>3. CASE name[d] = n
    BY <1>1, <1>2, <1>4, <1>5, <2>3, NotStrayed
  <2>4. ASSUME NEW q \in Procs, job[q].doc = d, n \in Uses(job[q]) PROVE FALSE
    <3>1. q # p
      BY <1>1, <2>4, JobFields, ScriptsAssumption DEF Begins, JobOK, WorkSteps
    <3> QED
      BY <1>1, <1>2, <1>5, <2>4, <3>1, NotStrayed
  <2> QED
    BY <1>5, <2>3, <2>4 DEF Claims
<1>6. ASSUME NEW d \in Controllers \ strayed', NEW n \in Names, e = d, n \in Uses(job'[p])
      PROVE  \/ Claims(d, n)
             \/ /\ \A c \in Controllers \ {d} : "portal" \in place[c] \/ name[c] # n
                /\ \A q \in Procs \ {p} : job[q].doc # d => n \notin Seeks(job[q])
  <2>1. CASE n = name[e]
    BY <1>6, <2>1 DEF Claims
  <2>2. CASE n = n0
    <3>1. \A q \in Procs \ {p} : n \notin Uses(job[q])
      BY <1>1, <1>2, <1>6, NotStrayed
    <3> QED
      BY <1>3, <1>4, <1>6, <2>2, <3>1 DEF Seeks
  <2> QED
    BY <1>2, <1>6, <2>1, <2>2
<1>7. Knows(p)'
  <2> SUFFICES ASSUME e \in Controllers \ strayed' PROVE Knows(p)'
    BY <1>2 DEF Knows
  <2>1. /\ e # Car /\ UNCHANGED <<name, owner>> /\ owner # "super"
        /\ w # {} => n0 = name[e]
    BY <1>1, <1>2, ScriptsAssumption, NotStrayed DEF Begins, docVars, Has
  <2>2. at'[p] = "writeController"
    BY <2>1, WorkParts DEF UpdateDoc, Begin
  <2>3. Exists(Car)
    BY <1>1, NotStrayed DEF FollowInv, CarInv
  <2> QED
    BY <1>1, <2>1, <2>2, <2>3
       DEF Knows, Has, Exists, FileOps, OldPath, CompletePath, PathElsewhere
<1>8. job'[p].doc = Car => job'[p].op \in DocOps /\ (job'[p].op = "create" => ~Exists(Car))
  BY <1>1 DEF Has, DocOps
<1> QED
  BY <1>1, <1>2, <1>5, <1>6, <1>7, <1>8, FollowBegun

LEMMA FollowRemove ==
    ASSUME WorkInv, FollowInv, NEW p \in Procs, NEW e \in Docs, RemoveDoc(p, e)
    PROVE  FollowInv'
<1>1. /\ Begins(p) /\ Has(p, "remove", e, NoName, NoDir, NoScript, NoService, 0)
  BY RemoveDocTypes
<1>2. Uses(job'[p]) = {} /\ job'[p].doc = e /\ job'[p].op = "remove"
  BY <1>1, ScriptsAssumption DEF Has, Uses
<1>3. Knows(p)'
  BY <1>1, <1>2, NotStrayed DEF Knows
<1> QED
  BY <1>1, <1>2, <1>3, FollowBegun DEF DocOps

\* create, replaceScript and automatisation: the directory has the controller's name.
LEMMA FollowFiles ==
    ASSUME WorkInv, FollowInv, NEW p \in Procs, NEW e \in Controllers, Begins(p), JobOK(p)',
           Exists(Car), Exists(e), job'[p].doc = e, job'[p].op \in FileOps \cup {"offer"},
           job'[p].dir[3] = name[e], job'[p].name = NoName,
           job'[p].op \in FileOps => job'[p].dir = ScriptDir(e)
    PROVE  FollowInv'
<1>1. Uses(job'[p]) \subseteq {name[e]}
  BY ScriptsAssumption DEF Uses
<1>2. ASSUME NEW d \in Controllers \ strayed', Claims(d, name[e]), e # d, name[e] \in Names
      PROVE FALSE
  <2>1. name[e] \in Uses(job'[p])
    <3>1. job'[p].dir # NoDir
      BY ScriptsAssumption DEF JobOK, FileOps, Dirs, Trees
    <3> QED
      BY <1>2, <3>1 DEF Uses
  <2>2. name[d] # name[e]
    BY <1>2, <2>1, NotStrayed
  <2>3. ASSUME NEW q \in Procs, job[q].doc = d, name[e] \in Uses(job[q]) PROVE FALSE
    <3>1. q # p
      BY <2>3, JobFields, ScriptsAssumption DEF Begins, JobOK, WorkSteps
    <3>2. ~Changes(job[q])
      BY <1>2, <2>1, <2>3, <3>1, NotStrayed
    <3>3. job[q].op \in FileOps \cup {"offer", "drop"} /\ job[q].name \notin Names
      BY <2>3, <3>2, JobFields, ScriptsAssumption DEF JobOK, Changes, FileOps
    <3>4. job[q].dir # NoDir /\ job[q].dir[3] = name[e]
      BY <2>3, <3>3 DEF Uses
    <3>5. job[q].op = "drop" => at[q] = "unlink"
      BY <3>4, JobFields DEF JobOK, WorkSteps
    <3>6. job[q].dir[3] = name[d]
      <4>1. Knows(q) /\ job[q].doc = d /\ d \in Controllers \ strayed
        BY <1>2, <2>3, NotStrayed DEF FollowInv
      <4>2. \/ job[q].op = "offer"
            \/ job[q].op \in FileOps /\ job[q].dir = ScriptDir(d)
            \/ at[q] = "unlink" /\ job[q].dir = CompletePath(name[Car], name[d])
        BY <3>3, <3>5, <4>1 DEF Knows
      <4> QED
        BY <4>1, <4>2 DEF Knows, ScriptDir, CompletePath
    <3> QED
      BY <2>2, <3>4, <3>6
  <2> QED
    BY <1>2, <2>2, <2>3 DEF Claims
<1>3. Claims(e, name[e])
  BY DEF Claims
<1>4. Knows(p)'
  <2>1. at'[p] # "unlink" /\ job'[p].op \notin {"create", "update", "remove"}
    BY DEF JobOK, WorkSteps, FileOps
  <2>2. UNCHANGED <<name, owner>>
    BY DEF Begins, docVars
  <2> QED
    BY <2>1, <2>2 DEF Knows, Exists, ScriptDir, CompletePath
<1>5. job'[p].doc # Car
  BY ScriptsAssumption
<1> QED
  BY <1>1, <1>2, <1>3, <1>4, <1>5, FollowBegun

LEMMA FollowDelete ==
    ASSUME WorkInv, DirInv, FollowInv, NEW p \in Procs, NEW t \in scripts, DeleteScript(p, t)
    PROVE  FollowInv'
<1>1. /\ Begins(p) /\ Has(p, "drop", t.doc, NoName, NoDir, t.id, NoService, 0)
      /\ t.doc \in Controllers
  BY DeleteScriptTypes, WorkParts DEF DocTypes
<1>2. Uses(job'[p]) = {} /\ job'[p].doc = t.doc /\ job'[p].op = "drop"
  BY <1>1, ScriptsAssumption DEF Has, Uses
<1>3. Knows(p)'
  <2> SUFFICES ASSUME t.doc \notin strayed' PROVE Knows(p)'
    BY <1>2 DEF Knows
  <2>1. Exists(t.doc) /\ Exists(Car)
    BY <1>1, NotStrayed DEF DirInv, PlacesInv, CarInv
  <2>2. at'[p] = "drop" /\ UNCHANGED <<name, owner>>
    BY <1>1, WorkParts DEF DeleteScript, Begin, Begins, docVars
  <2> QED
    BY <1>2, <2>1, <2>2 DEF Knows, Exists, FileOps
<1>4. job'[p].doc # Car
  BY <1>1, <1>2, ScriptsAssumption
<1> QED
  BY <1>1, <1>2, <1>3, <1>4, FollowBegun

LEMMA FollowRequest ==
    ASSUME WorkInv, DirInv, FollowInv, NEW p \in Procs, Request(p)
    PROVE  FollowInv'
<1>1. ASSUME NEW d \in Docs, NEW n \in Names, CreateDoc(p, d, n) PROVE FollowInv'
  BY <1>1, FollowCreate
<1>2. ASSUME NEW d \in Docs, NEW n \in Names, NEW w \in SUBSET Fields, UpdateDoc(p, d, n, w)
      PROVE  FollowInv'
  BY <1>2, FollowUpdate
<1>3. ASSUME NEW d \in Docs, RemoveDoc(p, d) PROVE FollowInv'
  BY <1>3, FollowRemove
<1>4. ASSUME NEW d \in Controllers, NEW m \in Blocks, NEW s \in ScriptIds,
             NEW f \in Services \cup {Upload}, CreateScript(p, s, d, f, m) PROVE FollowInv'
  <2>1. Exists(Car) /\ Exists(d)
    BY <1>4 DEF CreateScript
  <2>2. Begins(p) /\ JobOK(p)' /\ Has(p, "script", d, NoName, ScriptDir(d), s, f, m)
    BY <1>4, CreateScriptTypes
  <2> QED
    BY <2>1, <2>2, FollowFiles DEF Has, ScriptDir, CompletePath, FileOps
<1>5. ASSUME NEW d \in Controllers, NEW m \in Blocks, NEW f \in Services,
             ReplaceScript(p, d, f, m) PROVE FollowInv'
  <2>1. Exists(Car) /\ Exists(d)
    BY <1>5 DEF ReplaceScript
  <2>2. Begins(p) /\ JobOK(p)' /\ Has(p, "replace", d, NoName, ScriptDir(d), NoScript, f, m)
    BY <1>5, ReplaceScriptTypes
  <2> QED
    BY <2>1, <2>2, FollowFiles DEF Has, ScriptDir, CompletePath, FileOps
<1>6. ASSUME NEW t \in scripts, DeleteScript(p, t) PROVE FollowInv'
  BY <1>6, FollowDelete
<1>7. ASSUME NEW d \in Controllers, NEW assist \in BOOLEAN, Automatisation(p, d, assist)
      PROVE FollowInv'
  <2>1. Exists(Car) /\ Exists(d)
    BY <1>7 DEF Automatisation
  <2>2. /\ Begins(p) /\ JobOK(p)'
        /\ Has(p, "offer", d, NoName,
               IF assist THEN <<"ai", name[Car], name[d]>> ELSE ScriptDir(d),
               NoScript, NoService, 0)
    BY <1>7, AutomatisationTypes
  <2>3. job'[p].dir[3] = name[d] /\ job'[p].op = "offer"
    BY <2>2 DEF Has, ScriptDir, CompletePath
  <2> QED
    BY <2>1, <2>2, <2>3, FollowFiles DEF Has, FileOps
<1> QED
  BY <1>1, <1>2, <1>3, <1>4, <1>5, <1>6, <1>7 DEF Request

\* Who is alone at a controller, and whose name it has, is kept by every step.
LEMMA FollowNext ==
    ASSUME WorkInv, MakingInv, DirInv, [Next]_vars
    PROVE  FollowInv'
<1>1. FollowInv
  BY DEF DirInv, FollowInv
<1>2. ASSUME NEW p \in Procs, Request(p) \/ DocStep(p) \/ ScriptStep(p) PROVE FollowInv'
  BY <1>1, <1>2, ScriptStepCases, FollowRequest, FollowDoc, FollowQuiet, FollowMatch, FollowDrop
<1>3. CASE Crash
  <2>1. /\ \A q \in Procs : job'[q] = Idle
        /\ UNCHANGED <<name, place, owner>> /\ strayed \subseteq strayed'
    BY <1>3 DEF Crash, docVars
  <2>2. \A q \in Procs : job'[q].doc = NoDoc /\ Uses(job'[q]) = {} /\ Seeks(job'[q]) = {}
    BY <2>1, ScriptsAssumption DEF Idle, Uses, Seeks
  <2>3. AloneInv' /\ \A q \in Procs : Knows(q)'
    BY <2>2, ScriptsAssumption DEF AloneInv, Meets, Knows
  <2>4. NamesInv'
    BY <1>1, <2>1, <2>2 DEF FollowInv, NamesInv, Claims
  <2>5. CarInv'
    BY <1>1, <2>1, <2>2, ScriptsAssumption DEF FollowInv, CarInv, Exists
  <2> QED
    BY <2>3, <2>4, <2>5 DEF FollowInv
<1>4. CASE UNCHANGED vars
  <2>1. UNCHANGED <<name, place, owner, job, at, strayed>>
    BY <1>4 DEF vars, docVars, seenVars
  <2>2. AloneInv' /\ NamesInv' /\ CarInv'
    BY <1>1, <2>1 DEF FollowInv, AloneInv, NamesInv, CarInv, Meets, Claims, Uses, Seeks, Exists,
                      Changes
  <2>3. \A q \in Procs : Knows(q)'
    BY <1>1, <2>1 DEF FollowInv, Knows, Exists, ScriptDir, CompletePath
  <2> QED
    BY <2>2, <2>3 DEF FollowInv
<1> QED
  BY <1>2, <1>3, <1>4, NextCases

-----------------------------------------------------------------------------
(* The files of scripts stay where their controller is. *)

\* Whether a handler has been at its file: then that is in its directory.
Wrote(p) == job[p].op = "script" /\ at[p] \notin BeforeWriting

\* The directories with a name in N may lose files, or give them to others.
Touches(N) ==
    /\ \A x \in files : x.dir[3] \in N \/ \E y \in files' : y.id = x.id /\ y.dir = x.dir
    /\ \A y \in files' : \E x \in files : x.id = y.id /\ (x.dir[3] \in N \/ x.dir = y.dir)

LEMMA PlacedKept ==
    ASSUME NEW N, Touches(N), NEW s, NEW dir, dir[3] \notin N, Placed(s, dir)
    PROVE  Placed(s, dir)'
BY DEF Placed, Touches

\* The directories in which a script can be.
LEMMA ScriptPlaces ==
    ASSUME WorkInv, DirInv
    PROVE  /\ \A c \in Controllers \ strayed : Exists(c) => Claims(c, ScriptDir(c)[3])
                    /\ ScriptDir(c)[3] \in Names
           /\ \A p \in Procs : job[p].dir \in Dirs =>
                 job[p].dir[3] \in Uses(job[p]) /\ job[p].dir[3] \in Names
                 /\ Claims(job[p].doc, job[p].dir[3])
<1>1. \A c \in Controllers \ strayed : Exists(c) => Claims(c, ScriptDir(c)[3])
            /\ ScriptDir(c)[3] \in Names
  BY NameTypes DEF ScriptDir, CompletePath, Claims, Exists
<1>2. ASSUME NEW p \in Procs, job[p].dir \in Dirs
      PROVE  job[p].dir[3] \in Uses(job[p]) /\ job[p].dir[3] \in Names
             /\ Claims(job[p].doc, job[p].dir[3])
  <2>1. job[p].dir[3] \in Names /\ job[p].dir # NoDir
    BY <1>2, ScriptsAssumption DEF Dirs, Trees
  <2>2. job[p].dir[3] \in Uses(job[p])
    BY <2>1 DEF Uses
  <2> QED
    BY <2>1, <2>2 DEF Claims
<1> QED
  BY <1>1, <1>2

\* The names of the directories that a handler at a document may touch.
Touched(p) ==
    {n \in Names :
        \/ n \in Uses(job[p])
        \/ job[p].doc # Car /\ n = name[job[p].doc] /\ place[job[p].doc] = {}}

\* Which directories a step of create, update or remove may touch.
LEMMA DocTouches ==
    ASSUME WorkInv, NEW p \in Procs, DocStep(p), job[p].doc # Car \/ job[p].op = "create"
    PROVE  Touches(Touched(p))
<1> DEFINE N == Touched(p)
<1>1. /\ job[p].op \in {"create", "update", "remove"} /\ job[p].doc \in Docs
      /\ job[p].op # "remove" => job[p].name \in Names
      /\ job[p].op = "update" => job[p].dir \in Dirs
      /\ job[p].op = "create" => (job[p].dir \in Dirs <=> job[p].doc # Car)
      /\ job[p].op = "remove" => ~job[p].made
      /\ job[p].dir \in Dirs \cup {NoDir}
  <2>1. job[p].op \in DocOps
    BY DocStepFacts
  <2> QED
    BY <2>1, JobFields DEF JobOK, DocOps
<1>2. job[p].dir \in Dirs => job[p].dir[3] \in N
  BY ScriptsAssumption DEF Dirs, Trees, Uses, Touched
<1>3. job[p].op # "remove" => job[p].name \in N
  BY <1>1 DEF Uses, Touched
<1>4. \A x \in files : x.dir \in Dirs
  BY FileFields
<1> SUFFICES Touches(N)
  OBVIOUS
<1> HIDE DEF N
<1>5. CASE files' = files
  BY <1>5 DEF Touches
<1>6. ASSUME NEW from \in dirs, NEW to \in Dirs, FilesIn(to) = {}, MoveDir(from, to),
             from[3] \in N
      PROVE  Touches(N)
  <2>1. \A x \in files : x.dir[3] \notin N => x.dir # from
    BY <1>6
  <2> QED
    BY <1>6, <2>1, MovedDir DEF Touches
<1>7. ASSUME NEW D, RemoveDirs(D), \A dir \in D \cap Dirs : dir[3] \in N
      PROVE  Touches(N)
  BY <1>4, <1>7 DEF Touches, RemoveDirs
<1>8. CASE RenameDir(p)
  <2>1. job[p].op = "update"
    BY <1>8, JobFields DEF RenameDir, JobOK, WorkSteps
  <2>2. Renamed(p) \in Dirs
    BY <1>1, <2>1 DEF Renamed, CompletePath, PathElsewhere, Dirs, Trees
  <2>3. CASE job[p].dir \in dirs /\ job[p].dir # Renamed(p)
    <3>1. FilesIn(Renamed(p)) = {} /\ MoveDir(job[p].dir, Renamed(p)) /\ job[p].dir[3] \in N
      BY <1>1, <1>2, <1>8, <2>1, <2>3 DEF RenameDir
    <3> QED
      BY <1>6, <2>2, <2>3, <3>1
  <2>4. CASE ~(job[p].dir \in dirs /\ job[p].dir # Renamed(p))
    BY <1>5, <1>8, <2>4 DEF RenameDir
  <2> QED
    BY <2>3, <2>4
<1>9. CASE RemoveDir(p)
  <2>1. job[p].op = "remove" /\ job[p].doc # Car
    BY <1>9, JobFields DEF RemoveDir, JobOK, WorkSteps
  <2> DEFINE D == {x \in dirs : /\ place[job[p].doc] = {}
                                /\ x[1] = "portal" /\ x[2] = name[Car]
                                /\ job[p].doc = Car \/ x[3] = name[job[p].doc]}
  <2>2. RemoveDirs(D)
    BY <1>9, <2>1 DEF RemoveDir
  <2>3. \A dir \in D \cap Dirs : dir[3] \in N
    BY <2>1 DEF N, Touched, Dirs
  <2> HIDE DEF D
  <2> QED
    BY <1>7, <2>2, <2>3
<1>10. CASE FailDoc(p)
  <2>1. CASE ~job[p].made
    BY <1>5, <1>10, <2>1 DEF FailDoc
  <2>2. CASE job[p].made /\ job[p].op = "create"
    <3>1. RemoveDirs({job[p].dir})
      BY <1>10, <2>2 DEF FailDoc
    <3>2. \A dir \in {job[p].dir} \cap Dirs : dir[3] \in N
      BY <1>2
    <3> DEFINE D == {job[p].dir}
    <3>3. RemoveDirs(D) /\ \A dir \in D \cap Dirs : dir[3] \in N
      BY <3>1, <3>2
    <3> HIDE DEF D
    <3> QED
      BY <1>7, <3>3
  <2>3. CASE job[p].made /\ job[p].op = "update"
    <3>1. \/ FilesIn(job[p].dir) = {} /\ Renamed(p) \in dirs /\ MoveDir(Renamed(p), job[p].dir)
          \/ files' = files
      BY <1>10, <2>3 DEF FailDoc
    <3>2. Renamed(p)[3] \in N
      BY <1>3, <2>3 DEF Renamed, CompletePath, PathElsewhere
    <3>3. job[p].dir \in Dirs
      BY <1>1, <2>3
    <3> QED
      BY <1>5, <1>6, <3>1, <3>2, <3>3
  <2> QED
    BY <1>1, <2>1, <2>2, <2>3
<1>11. CASE Save(p) \/ MakeDir(p) \/ WriteCar(p) \/ WriteController(p) \/ RenameFails(p)
            \/ DeleteDoc(p) \/ DeleteControllers(p) \/ CommitDoc(p)
  BY <1>5, <1>11 DEF Save, MakeDir, WriteCar, WriteController, RenameFails, DeleteDoc,
                     DeleteControllers, CommitDoc, diskVars
<1> QED
  BY <1>8, <1>9, <1>10, <1>11 DEF DocStep

LEMMA Apart ==
    ASSUME WorkInv, DirInv, NEW p \in Procs, job[p].op \in DocOps,
           NEW c \in Controllers \ strayed, job[p].doc # c, NEW n, Claims(c, n)
    PROVE  n \notin Touched(p)
<1>1. job[p].doc # Car => job[p].doc \in Controllers
  BY JobFields DEF JobOK, Docs
<1>2. n \in Names => n \notin Uses(job[p])
  BY DEF DirInv, NamesInv, Seeks, DocOps
<1>3. ASSUME n \in Names, job[p].doc # Car, n = name[job[p].doc]
      PROVE  place[job[p].doc] # {}
  <2>1. job[p].doc \in Controllers \ {c}
    BY <1>1, <1>3
  <2>2. "portal" \in place[job[p].doc]
    BY <1>3, <2>1 DEF DirInv, NamesInv
  <2> QED
    BY <2>2
<1> QED
  BY <1>2, <1>3 DEF Touched

\* No handler is at a controller that is followed and that another one changes.
LEMMA NoOther ==
    ASSUME WorkInv, DirInv, NEW p \in Procs, job[p].op \in DocOps,
           job[p].doc \in Controllers \ strayed
    PROVE  \A q \in Procs \ {p} : job[q].doc # job[p].doc
BY DEF DirInv, AloneInv, Meets, Changes, DocOps

LEMMA DocNames ==
    ASSUME WorkInv, DirInv, NEW p \in Procs, DocStep(p),
           job[p].doc = Car => job[p].op = "create"
    PROVE  \A c \in Controllers \ strayed : c # job[p].doc /\ Exists(c) =>
              name'[c] = name[c] /\ name'[Car] = name[Car] /\ owner' = owner
<1> SUFFICES ASSUME NEW c \in Controllers \ strayed, c # job[p].doc, Exists(c)
             PROVE  name'[c] = name[c] /\ name'[Car] = name[Car] /\ owner' = owner
  OBVIOUS
<1>1. /\ job[p].op \in DocOps /\ job[p].doc \in Docs /\ owner' = owner
      /\ Car \notin Controllers /\ Car \in Docs /\ c \in Docs
  BY DocStepFacts, JobFields, ScriptsAssumption DEF JobOK, Docs
<1>2. job[p].doc # Car
  BY DEF DirInv, CarInv
<1>3. name' = name \/ WriteController(p) \/ CommitDoc(p) \/ DeleteControllers(p)
  BY DEF DocStep, Save, MakeDir, WriteCar, RenameDir, RenameFails, DeleteDoc, RemoveDir, FailDoc,
         docVars
<1>4. \A e \in Docs \ {job[p].doc} : name'[e] = name[e]
  <2>1. CASE WriteController(p)
    BY <2>1, WorkParts DEF DocTypes, WriteController
  <2>2. CASE CommitDoc(p)
    BY <2>2, WorkParts DEF DocTypes, CommitDoc
  <2>3. CASE DeleteControllers(p)
    BY <1>2, <2>3, JobFields DEF DeleteControllers, JobOK
  <2> QED
    BY <1>3, <2>1, <2>2, <2>3
<1> QED
  BY <1>1, <1>2, <1>4

\* The script of a controller that a handler at its document leaves followed.
LEMMA OwnScript ==
    ASSUME WorkInv, DirInv, NEW p \in Procs, DocStep(p), NEW t \in scripts,
           t.doc = job[p].doc, t.doc \in Controllers \ strayed'
    PROVE  /\ name'[t.doc] # NoName
           /\ \/ Placed(t.id, ScriptDir(t.doc))'
              \/ Renames(p, t.doc)'
           /\ Renames(p, t.doc)' => Placed(t.id, job[p].dir)'
<1> DEFINE d == t.doc
           D == ScriptDir(d)
<1>1. /\ job[p].doc = d /\ job[p].op \in DocOps /\ strayed \subseteq strayed'
               /\ d \in Controllers \ strayed
      /\ WorkInv' /\ owner' = owner
  BY DocStepFacts
<1>2. /\ Exists(d) /\ \A q \in Procs \ {p} : job[q].doc # d
      /\ Knows(p)
  BY <1>1, NoOther DEF DirInv, PlacesInv
<1>3. /\ job[p].op = "update" /\ owner # "super" /\ Exists(Car)
      /\ job[p].place = {} => job[p].dir = CompletePath(name[Car], job[p].dir[3])
      /\ job[p].place # {} => job[p].dir = PathElsewhere(job[p].name)
      /\ name[d] = IF at[p] = "writeController" THEN job[p].dir[3] ELSE job[p].name
      /\ job[p].name \in Names /\ job[p].dir \in Dirs
  <2>1. job[p].op = "update"
    BY <1>1, <1>2 DEF Knows, DocOps
  <2> QED
    BY <1>1, <1>2, <2>1, JobFields DEF Knows, JobOK
<1>4. D = CompletePath(name[Car], name[d])
  BY <1>3 DEF ScriptDir
<1>5. ~Renames(p, d) => Placed(t.id, D)
  BY <1>1, <1>2 DEF DirInv, PlacesInv, Renames
<1>6. Renames(p, d) => Placed(t.id, job[p].dir)
  BY <1>1 DEF DirInv, PlacesInv
<1>7. ASSUME files' = files, name'[d] = name[d], name'[Car] = name[Car], ~Renames(p, d)
      PROVE  Placed(t.id, ScriptDir(t.doc))' /\ name'[t.doc] # NoName
  <2>1. ScriptDir(d)' = D
    BY <1>1, <1>7 DEF ScriptDir, CompletePath
  <2> QED
    BY <1>2, <1>5, <1>7, <2>1 DEF Placed, Exists
<1>8. CASE WriteController(p)
  <2>1. /\ at[p] = "writeController" /\ at'[p] = "rename" /\ job' = job /\ files' = files
    BY <1>8, NextStep DEF WriteController, diskVars, Steps
  <2>2. name' = [name EXCEPT ![d] = job[p].name]
    BY <1>2, <1>8 DEF WriteController
  <2>3. name'[d] = job[p].name /\ name'[d] # NoName
    BY <1>1, <1>3, <2>2, WorkParts, ScriptsAssumption DEF DocTypes, Docs
  <2>4. Placed(t.id, D)
    BY <1>5, <2>1 DEF Renames
  <2>5. CASE job[p].place = {}
    <3>1. job[p].dir = D
      BY <1>3, <1>4, <2>1, <2>5
    <3> QED
      BY <1>1, <2>1, <2>3, <2>4, <2>5, <3>1 DEF Placed, Renames
  <2>6. CASE job[p].place # {}
    <3>1. name'[d] = name[d] /\ name'[Car] = name[Car] /\ d # Car
      BY <1>1, <1>3, <2>1, <2>2, <2>3, <2>6, ScriptsAssumption DEF PathElsewhere
    <3> QED
      BY <1>7, <2>1, <2>6, <3>1 DEF Renames
  <2> QED
    BY <2>5, <2>6
<1>9. CASE RenameDir(p) /\ ~(job[p].place = {} /\ job[p].dir # Renamed(p))
  <2>1. job[p].dir = Renamed(p)
    BY <1>3, <1>9 DEF Renamed
  <2>2. /\ at[p] = "rename" /\ at'[p] = "commit" /\ files' = files /\ UNCHANGED name
    BY <1>9, <2>1, NextStep DEF RenameDir, docVars, Steps
  <2>3. ~Renames(p, d)' /\ ScriptDir(d)' = D
    BY <1>1, <2>2 DEF Renames, ScriptDir, CompletePath
  <2>4. Renames(p, d) => job[p].dir = D
    BY <1>3, <1>4, <2>1, <2>2 DEF Renames, Renamed, CompletePath
  <2> QED
    BY <1>2, <1>5, <1>6, <2>2, <2>3, <2>4 DEF Placed, Exists
<1>15. CASE RenameDir(p) /\ job[p].place = {} /\ job[p].dir # Renamed(p)
  <2>1. Placed(t.id, job[p].dir) /\ job[p].dir \in dirs
    <3>1. Placed(t.id, job[p].dir)
      BY <1>1, <1>6, <1>15 DEF RenameDir, Renames
    <3> QED
      BY <3>1, FileFields DEF Placed
  <2>2. /\ FilesIn(Renamed(p)) = {} /\ MoveDir(job[p].dir, Renamed(p)) /\ UNCHANGED name
        /\ at'[p] = "commit"
    BY <1>15, <2>1, WorkParts DEF RenameDir, docVars
  <2>3. Renamed(p) = CompletePath(name[Car], job[p].name)
    BY <1>3, <1>15 DEF Renamed, CompletePath
  <2>4. Renamed(p) = D /\ D = ScriptDir(d)' /\ Renamed(p) \in Dirs
    <3>1. name[d] = job[p].name
      BY <1>3, <1>15 DEF RenameDir
    <3>2. name[Car] \in Names
      BY <1>3, NameTypes DEF Exists
    <3> QED
      BY <1>1, <1>3, <1>4, <2>2, <2>3, <3>1, <3>2 DEF ScriptDir, CompletePath, Dirs, Trees
  <2>5. /\ \A x \in files' : \E y \in files : x.id = y.id
                 /\ x.dir = IF y.dir = job[p].dir THEN Renamed(p) ELSE y.dir
        /\ \A y \in files : \E x \in files' : x.id = y.id
                 /\ x.dir = IF y.dir = job[p].dir THEN Renamed(p) ELSE y.dir
    BY <2>1, <2>2, <2>4, MovedDir
  <2>6. Placed(t.id, ScriptDir(d))'
    <3>1. /\ \A x \in files' : x.id = t.id => x.dir = D
          /\ \E x \in files' : x.id = t.id
      BY <2>1, <2>4, <2>5 DEF Placed
    <3> QED
      BY <2>4, <3>1 DEF Placed
  <2> QED
    BY <1>2, <2>2, <2>4, <2>6 DEF Exists, Renames
<1>10. CASE RenameFails(p)
  BY <1>10 DEF RenameFails
<1>11. CASE CommitDoc(p)
  <2>1. /\ files' = files /\ at'[p] # "rename" /\ at[p] = "commit"
    BY <1>11, CommitDocTypes DEF CommitDoc, diskVars, Leaves
  <2>2. name'[d] = name[d] /\ name'[Car] = name[Car]
    BY <1>1, <1>3, <1>11, <2>1, WorkParts, ScriptsAssumption DEF CommitDoc, DocTypes, Docs
  <2> QED
    BY <1>7, <2>1, <2>2 DEF Renames
<1>12. CASE FailDoc(p)
  <2>1. ~job[p].made
    BY <1>12 DEF FailDoc
  <2>2. /\ files' = files /\ name' = name /\ at'[p] # "rename" /\ at[p] # "rename"
    BY <1>12, <2>1, FailDocTypes DEF FailDoc, docVars, Leaves
  <2> QED
    BY <1>7, <2>2 DEF Renames
<1>13. CASE WriteCar(p)
  <2>1. /\ files' = files /\ name' = name /\ at'[p] # "rename" /\ at[p] # "rename"
    BY <1>13, NextStep DEF WriteCar, docVars, diskVars, Steps
  <2> QED
    BY <1>7, <2>1 DEF Renames
<1>14. CASE Save(p) \/ MakeDir(p) \/ DeleteDoc(p) \/ DeleteControllers(p) \/ RemoveDir(p)
  BY <1>3, <1>14, JobFields
     DEF Save, MakeDir, DeleteDoc, DeleteControllers, RemoveDir, JobOK, WorkSteps
<1> QED
  BY <1>8, <1>9, <1>10, <1>11, <1>12, <1>13, <1>14, <1>15 DEF DocStep

\* A step at a document leaves the scripts of other controllers where they are and
\* takes along those of its own.
LEMMA PlacesDoc ==
    ASSUME WorkInv, DirInv, NEW p \in Procs, DocStep(p)
    PROVE  PlacesInv'
<1>1. /\ WorkInv' /\ (Goes(p) \/ Leaves(p)) /\ job[p].op \in DocOps
      /\ scripts' = scripts /\ strayed \subseteq strayed' /\ owner' = owner
  BY DocStepFacts
<1>2. CASE job[p].doc = Car /\ job[p].op # "create"
  <2>1. Controllers \subseteq strayed'
    BY <1>1, <1>2, CarChanges DEF DirInv
  <2>2. \A t \in scripts' : t.doc \in strayed'
    BY <1>1, <2>1, WorkParts DEF DocTypes
  <2>3. \A q \in Procs : job'[q].op = "script" => job'[q].doc \in strayed'
    BY <1>1, <2>1 DEF WorkInv, JobOK, DocOps
  <2> QED
    BY <2>2, <2>3 DEF PlacesInv
<1> SUFFICES ASSUME job[p].doc = Car => job[p].op = "create" PROVE PlacesInv'
  BY <1>2
<1>3. Touches(Touched(p))
  BY DocTouches
<1>4. \A q \in Procs \ {p} : job'[q] = job[q] /\ at'[q] = at[q]
  BY <1>1 DEF Goes, Leaves, Others
<1>5. job'[p].op # "script" /\ (job'[p].doc \in Docs => job'[p].doc = job[p].doc)
  BY <1>1, ScriptsAssumption DEF Goes, SameWork, Leaves, Idle, DocOps, Docs
<1>6. ASSUME NEW c \in Controllers \ strayed', c # job[p].doc, NEW s, NEW dir, Claims(c, dir[3]),
             Placed(s, dir)
      PROVE  Placed(s, dir)'
  <2>1. dir[3] \notin Touched(p)
    BY <1>1, <1>6, Apart
  <2> QED
    BY <1>3, <1>6, <2>1 DEF Placed, Touches
<1>7. ASSUME NEW t \in scripts, t.doc \notin strayed'
      PROVE  /\ Exists(t.doc)'
             /\ \/ Placed(t.id, ScriptDir(t.doc))'
                \/ \E q \in Procs : Renames(q, t.doc)'
             /\ \A q \in Procs : Renames(q, t.doc)' => Placed(t.id, job[q].dir)'
  <2>1. /\ t.doc \in Controllers \ strayed' /\ t.doc \notin strayed /\ Exists(t.doc)
        /\ t.doc \in Docs
    BY <1>1, <1>7, WorkParts DEF DocTypes, DirInv, PlacesInv, Docs
  <2>2. CASE t.doc = job[p].doc
    <3>1. \A q \in Procs \ {p} : job'[q].doc # t.doc
      BY <1>1, <1>4, <2>1, <2>2, NoOther
    <3>2. \A q \in Procs \ {p} : ~Renames(q, t.doc)'
      BY <3>1 DEF Renames
    <3> QED
      BY <2>1, <2>2, <3>2, OwnScript DEF Exists
  <2>3. CASE t.doc # job[p].doc
    <3> DEFINE D == ScriptDir(t.doc)
    <3>1. /\ name'[t.doc] = name[t.doc] /\ name'[Car] = name[Car] /\ job'[p].doc # t.doc
          /\ Exists(t.doc)'
      BY <1>5, <2>1, <2>3, DocNames DEF Exists
    <3>2. ScriptDir(t.doc)' = D
      BY <1>1, <3>1 DEF ScriptDir, CompletePath
    <3>3. Placed(t.id, D) => Placed(t.id, ScriptDir(t.doc))'
      <4>1. Claims(t.doc, D[3])
        BY <2>1, ScriptPlaces
      <4>2. \A dir : Claims(t.doc, dir[3]) /\ Placed(t.id, dir) => Placed(t.id, dir)'
        BY <1>6, <2>1, <2>3
      <4> QED
        BY <3>2, <4>1, <4>2 DEF Placed
    <3>4. ASSUME NEW q \in Procs, Renames(q, t.doc)'
          PROVE  Placed(t.id, job[q].dir)'
      <4>1. q # p /\ Renames(q, t.doc) /\ job'[q] = job[q]
        BY <1>4, <3>1, <3>4 DEF Renames
      <4>2. job[q].dir \in Dirs /\ job[q].doc = t.doc
        BY <4>1, JobFields DEF JobOK, WorkSteps, Renames
      <4>3. Claims(t.doc, job[q].dir[3])
        BY <4>2, ScriptPlaces
      <4>4. Placed(t.id, job[q].dir)
        BY <2>1, <4>1 DEF DirInv, PlacesInv
      <4>5. \A dir : Claims(t.doc, dir[3]) /\ Placed(t.id, dir) => Placed(t.id, dir)'
        BY <1>6, <2>1, <2>3
      <4> QED
        BY <4>1, <4>3, <4>4, <4>5 DEF Placed
    <3>5. \/ Placed(t.id, D)
          \/ \E q \in Procs : Renames(q, t.doc)
      BY <2>1 DEF DirInv, PlacesInv
    <3>6. \A q \in Procs : Renames(q, t.doc) => Renames(q, t.doc)'
      BY <1>4, <2>3 DEF Renames
    <3> QED
      BY <3>1, <3>3, <3>4, <3>5, <3>6
  <2> QED
    BY <2>2, <2>3
<1>8. ASSUME NEW q \in Procs, job'[q].op = "script", at'[q] \notin BeforeWriting,
             job'[q].doc \notin strayed'
      PROVE  Placed(job[q].script, job[q].dir)'
  <2>1. q # p /\ job'[q] = job[q] /\ at'[q] = at[q]
    BY <1>4, <1>5, <1>8
  <2>2. job[q].doc \in Controllers \ strayed' /\ job[q].dir \in Dirs
    BY <1>8, <2>1, JobFields DEF JobOK, DocOps, FileOps
  <2>3. Placed(job[q].script, job[q].dir)
    BY <1>1, <1>8, <2>1 DEF DirInv, PlacesInv
  <2>4. job[q].doc # job[p].doc
    BY <1>1, <2>1, <2>2, NoOther
  <2>5. Claims(job[q].doc, job[q].dir[3])
    BY <2>2, ScriptPlaces
  <2>6. \A s, dir : Claims(job[q].doc, dir[3]) /\ Placed(s, dir) => Placed(s, dir)'
    BY <1>6, <2>2, <2>4
  <2> QED
    BY <2>1, <2>3, <2>5, <2>6 DEF Placed
<1> QED
  BY <1>1, <1>7, <1>8 DEF PlacesInv, Exists

\* All files but those of s stay in their directories.
Spares(s) ==
    /\ \A x \in files' : x.id # s => \E y \in files : y.id = x.id /\ y.dir = x.dir
    /\ \A y \in files : y.id # s => \E x \in files' : y.id = x.id /\ y.dir = x.dir

LEMMA PlacesKept ==
    ASSUME WorkInv, DirInv, NEW p \in Procs, NEW s, Spares(s), UNCHANGED <<name, owner>>,
           strayed \subseteq strayed', Others(p), at[p] # "rename", at'[p] # "rename",
           \A t \in scripts' : t.id # s => t \in scripts,
           \A t \in scripts' : t.id = s /\ t.doc \notin strayed' =>
              /\ Exists(t.doc) /\ Placed(s, ScriptDir(t.doc))'
              /\ \A q \in Procs : ~Renames(q, t.doc),
           \A q \in Procs : Wrote(q)' /\ job'[q].script = s /\ job'[q].doc \notin strayed' =>
              Placed(s, job[q].dir)',
           Wrote(p)' /\ job'[p].script # s =>
              /\ Wrote(p) /\ job'[p].script = job[p].script
              /\ job'[p].dir = job[p].dir /\ job'[p].doc = job[p].doc
    PROVE  PlacesInv'
<1>1. \A q \in Procs \ {p} : job'[q] = job[q] /\ at'[q] = at[q]
  BY DEF Others
<1>2. \A i, dir : i # s /\ Placed(i, dir) => Placed(i, dir)'
  BY DEF Placed, Spares
<1>3. \A c \in Controllers : ScriptDir(c)' = ScriptDir(c)
  BY DEF ScriptDir, CompletePath
<1>4. ASSUME NEW t \in scripts', t.doc \notin strayed'
      PROVE  /\ Exists(t.doc)'
             /\ \/ Placed(t.id, ScriptDir(t.doc))'
                \/ \E q \in Procs : Renames(q, t.doc)'
             /\ \A q \in Procs : Renames(q, t.doc)' => Placed(t.id, job[q].dir)'
  <2>0. ASSUME NEW q \in Procs
        PROVE  /\ Renames(q, t.doc)' <=> Renames(q, t.doc)
               /\ Renames(q, t.doc) => job'[q] = job[q]
    <3>1. CASE q = p
      BY <3>1 DEF Renames
    <3>2. CASE q # p
      BY <1>1, <3>2 DEF Renames
    <3> QED
      BY <3>1, <3>2
  <2>1. CASE t.id = s
    <3>1. /\ Exists(t.doc) /\ Placed(s, ScriptDir(t.doc))'
          /\ \A q \in Procs : ~Renames(q, t.doc)
      BY <1>4, <2>1
    <3>2. \A q \in Procs : ~Renames(q, t.doc)'
      BY <2>0, <3>1
    <3> QED
      BY <2>1, <3>1, <3>2 DEF Exists
  <2>2. CASE t.id # s
    <3>1. t \in scripts /\ t.doc \notin strayed /\ t.doc \in Controllers
      BY <1>4, <2>2, WorkParts DEF DocTypes
    <3>2. /\ Exists(t.doc)
          /\ \/ Placed(t.id, ScriptDir(t.doc))
             \/ \E q \in Procs : Renames(q, t.doc)
          /\ \A q \in Procs : Renames(q, t.doc) => Placed(t.id, job[q].dir)
      BY <3>1 DEF DirInv, PlacesInv
    <3>3. Placed(t.id, ScriptDir(t.doc)) => Placed(t.id, ScriptDir(t.doc))'
      BY <1>2, <1>3, <2>2, <3>1 DEF Placed
    <3>4. ASSUME NEW q \in Procs, Renames(q, t.doc)'
          PROVE  Placed(t.id, job[q].dir)'
      <4>1. Placed(t.id, job[q].dir) /\ job'[q] = job[q]
        BY <2>0, <3>2, <3>4
      <4> QED
        BY <1>2, <2>2, <4>1 DEF Placed
    <3> QED
      BY <2>0, <3>2, <3>3, <3>4 DEF Exists
  <2> QED
    BY <2>1, <2>2
<1>5. ASSUME NEW q \in Procs, Wrote(q)', job'[q].doc \notin strayed'
      PROVE  Placed(job[q].script, job[q].dir)'
  <2>1. CASE job'[q].script = s
    BY <1>5, <2>1 DEF Placed
  <2>2. CASE job'[q].script # s
    <3>1. /\ Wrote(q) /\ job'[q].script = job[q].script
          /\ job'[q].dir = job[q].dir /\ job'[q].doc = job[q].doc
      BY <1>1, <1>5, <2>2 DEF Wrote
    <3>2. Placed(job[q].script, job[q].dir)
      BY <1>5, <3>1 DEF DirInv, PlacesInv, Wrote
    <3> QED
      BY <1>2, <2>2, <3>1, <3>2 DEF Placed
  <2> QED
    BY <2>1, <2>2
<1> QED
  BY <1>4, <1>5 DEF PlacesInv, Wrote, Exists

\* A step after which all files are where they were.
LEMMA PlacesSame ==
    ASSUME WorkInv, DirInv, WorkInv', NEW p \in Procs, Spares(NoScript),
           UNCHANGED <<name, owner>>, strayed \subseteq strayed', Others(p),
           scripts' \subseteq scripts, at[p] # "rename", at'[p] # "rename",
           Wrote(p)' => /\ Wrote(p) /\ job'[p].script = job[p].script
                        /\ job'[p].dir = job[p].dir /\ job'[p].doc = job[p].doc
    PROVE  PlacesInv'
<1>1. \A t \in scripts' : t.id # NoScript
  BY WorkParts, ScriptsAssumption DEF DocTypes
<1>2. \A q \in Procs : Wrote(q)' => job'[q].script # NoScript
  BY ScriptsAssumption DEF WorkInv, JobOK, Wrote
<1> QED
  BY <1>1, <1>2, PlacesKept

\* Opening a script for writing puts it into the directory of its controller.
LEMMA PlacesOpen ==
    ASSUME WorkInv, MakingInv, DirInv, NEW p \in Procs, OpenScript(p)
    PROVE  PlacesInv'
<1>0. PICK s, dir : s = job[p].script /\ dir = job[p].dir
  OBVIOUS
<1>1. /\ WorkInv' /\ Goes(p) /\ job' = job /\ at[p] = "write" /\ at'[p] = "writing"
      /\ UNCHANGED <<name, owner, scripts, strayed>>
  BY <1>0, OpenScriptTypes, NextStep DEF OpenScript, docVars, seenVars, Steps
<1>2. /\ \A x \in files' : x.id # s => x \in files
      /\ \A x \in files : x.id # s => x \in files'
      /\ \A x \in files' : x.id = s => x.dir = dir \/ x \in files
      /\ \E x \in files' : x.id = s /\ x.dir = dir
  <2> DEFINE y == [dir |-> dir, id |-> s, valid |-> FALSE, orig |-> job[p].orig, mod |-> job[p].mod]
  <2>1. files' = {x \in files : x.dir # dir \/ x.id # s} \cup {y} /\ y.id = s /\ y.dir = dir
    BY <1>0 DEF OpenScript
  <2> HIDE DEF y
  <2> QED
    BY <1>0, <2>1
<1>3. job[p].op \in FileOps /\ s \in ScriptIds
  BY <1>0, JobFields DEF OpenScript, JobOK, WorkSteps, FileOps
<1>4. \A c : Placed(s, c) /\ c = dir => Placed(s, dir)'
  BY <1>0, <1>1, <1>2 DEF Placed
<1>5. (\A x \in files : x.id # s) => Placed(s, dir)'
  BY <1>0, <1>1, <1>2 DEF Placed
<1>6. ASSUME NEW t \in scripts', t.id = s, t.doc \notin strayed'
      PROVE  /\ Exists(t.doc) /\ Placed(s, ScriptDir(t.doc))'
             /\ \A q \in Procs : ~Renames(q, t.doc)
  <2>1. t \in scripts /\ t.doc \in Controllers \ strayed
    BY <1>0, <1>1, <1>6, WorkParts DEF DocTypes
  <2>2. job[p].op = "replace"
    BY <1>0, <1>3, <1>6, <2>1 DEF FileOps, MakingInv, MakesOne
  <2>3. job[p].doc = t.doc
    BY <1>0, <1>6, <2>1, <2>2 DEF DirInv, ReplacesInv
  <2>4. dir = ScriptDir(t.doc)
    BY <1>0, <1>3, <2>1, <2>3 DEF DirInv, Knows
  <2>5. ASSUME NEW q \in Procs, Renames(q, t.doc) PROVE FALSE
    <3>1. job[q].op = "update" /\ job[q].doc = t.doc
      BY <1>0, <2>5, JobFields DEF JobOK, WorkSteps, Renames
    <3> QED
      BY <1>0, <2>1, <2>2, <2>3, <2>5, <3>1 DEF DirInv, AloneInv, Meets, Changes
  <2>6. Exists(t.doc) /\ Placed(s, ScriptDir(t.doc))
    BY <1>0, <1>6, <2>1, <2>5 DEF DirInv, PlacesInv
  <2>7. ScriptDir(t.doc)' = ScriptDir(t.doc)
    BY <1>0, <1>1 DEF ScriptDir, CompletePath
  <2>8. Placed(s, ScriptDir(t.doc))'
    BY <1>0, <1>1, <1>4, <2>4, <2>6, <2>7 DEF Placed
  <2> QED
    BY <1>0, <2>5, <2>6, <2>8
<1>7. ASSUME NEW q \in Procs, Wrote(q)', job'[q].script = s, job'[q].doc \notin strayed'
      PROVE  Placed(s, job[q].dir)'
  <2>1. job[q].op = "script" /\ job[q].script = s /\ job[q].doc \in Controllers \ strayed
    BY <1>0, <1>1, <1>7, JobFields DEF Wrote, JobOK, DocOps
  <2>2. CASE q = p
    <3>1. \A x \in files : x.id # s
      BY <1>0, <1>1, <2>1, <2>2 DEF MakingInv, MakesOne, BeforeWriting
    <3> QED
      BY <1>0, <1>1, <1>5, <2>2, <3>1 DEF Placed
  <2>3. CASE q # p
    <3>1. Wrote(q)
      BY <1>0, <1>1, <1>7, <2>3 DEF Wrote, Goes, Others
    <3>2. job[p].op = "replace"
      BY <1>0, <2>1, <2>3 DEF MakingInv, MakesOne
    <3>3. job[p].doc = job[q].doc
      BY <1>0, <2>1, <3>2 DEF DirInv, ReplacesInv
    <3>4. dir = ScriptDir(job[q].doc) /\ job[q].dir = ScriptDir(job[q].doc)
      BY <1>0, <2>1, <3>2, <3>3 DEF DirInv, Knows, FileOps
    <3>5. Placed(s, job[q].dir)
      BY <1>0, <2>1, <3>1 DEF Wrote, DirInv, PlacesInv
    <3> QED
      BY <1>0, <1>1, <1>4, <3>4, <3>5 DEF Placed
  <2> QED
    BY <1>0, <2>2, <2>3
<1>8. Spares(s)
  BY <1>0, <1>2 DEF Spares
<1>9. ~(Wrote(p)' /\ job'[p].script # s)
  BY <1>0, <1>1
<1> QED
  BY <1>0, <1>1, <1>6, <1>7, <1>8, <1>9, PlacesKept DEF Goes

LEMMA PlacesInsert ==
    ASSUME WorkInv, MakingInv, DirInv, NEW p \in Procs, InsertScript(p)
    PROVE  PlacesInv'
<1>0. PICK s : s = job[p].script
  OBVIOUS
<1>1. /\ WorkInv' /\ Leaves(p) /\ UNCHANGED <<name, owner, files, strayed>>
  BY <1>0, InsertScriptTypes DEF InsertScript, seenVars
<1>2. at[p] = "insert" /\ job[p].op = "script" /\ s \in ScriptIds /\ job[p].doc \in Controllers
  BY <1>0, JobFields DEF InsertScript, JobOK, WorkSteps, DocOps
<1>3. \A t \in scripts' : t \in scripts \/ (t.id = s /\ t.doc = job[p].doc)
  BY <1>0 DEF InsertScript
<1>4. \A t \in scripts : t.id # s
  BY <1>0, <1>2 DEF MakingInv, MakesOne
<1>5. ASSUME NEW t \in scripts', t.id = s, t.doc \notin strayed'
      PROVE  /\ Exists(t.doc) /\ Placed(s, ScriptDir(t.doc))'
             /\ \A q \in Procs : ~Renames(q, t.doc)
  <2>1. t.doc = job[p].doc /\ t.doc \in Controllers \ strayed
    BY <1>0, <1>1, <1>2, <1>3, <1>4, <1>5
  <2>2. Exists(t.doc) /\ job[p].dir = ScriptDir(t.doc)
    BY <1>0, <1>2, <2>1 DEF DirInv, Knows, FileOps
  <2>3. Placed(s, job[p].dir)
    BY <1>0, <1>2, <2>1 DEF DirInv, PlacesInv, BeforeWriting
  <2>4. ASSUME NEW q \in Procs, Renames(q, t.doc) PROVE FALSE
    <3>1. job[q].op = "update" /\ job[q].doc = t.doc
      BY <1>0, <2>4, JobFields DEF JobOK, WorkSteps, Renames
    <3> QED
      BY <1>0, <1>2, <2>1, <2>4, <3>1 DEF DirInv, AloneInv, Meets, Changes
  <2>5. ScriptDir(t.doc)' = ScriptDir(t.doc)
    BY <1>0, <1>1 DEF ScriptDir, CompletePath
  <2> QED
    BY <1>0, <1>1, <2>2, <2>3, <2>4, <2>5 DEF Placed
<1>6. ASSUME NEW q \in Procs, Wrote(q)', job'[q].script = s PROVE FALSE
  <2>1. q # p
    BY <1>0, <1>1, <1>6 DEF Wrote, Leaves, Idle
  <2>2. job[q].op = "script" /\ job[q].script = s
    BY <1>0, <1>1, <1>6, <2>1 DEF Wrote, Leaves, Others
  <2> QED
    BY <1>0, <1>2, <2>1, <2>2 DEF MakingInv, MakesOne
<1>7. Spares(s) /\ ~Wrote(p)'
  BY <1>0, <1>1 DEF Spares, Wrote, Leaves, Idle
<1> QED
  BY <1>0, <1>1, <1>2, <1>3, <1>5, <1>6, <1>7, PlacesKept DEF Leaves

\* What deleteScript unlinks is no file of a script that has a document.
LEMMA PlacesUnlink ==
    ASSUME WorkInv, MakingInv, DirInv, NEW p \in Procs, UnlinkScript(p)
    PROVE  PlacesInv'
<1> DEFINE s == job[p].script
<1>1. /\ WorkInv' /\ Leaves(p) /\ at[p] = "unlink"
      /\ UNCHANGED <<name, owner, scripts, strayed>>
  BY UnlinkScriptTypes DEF UnlinkScript, docVars
<1>2. \A t \in scripts : t.id # s
  BY <1>1 DEF MakingInv, DropsOne
<1>3. job[p].op = "drop"
  BY <1>1, JobFields DEF JobOK, WorkSteps
<1>4. ASSUME NEW q \in Procs, Wrote(q)', job'[q].script = s PROVE FALSE
  <2>1. q # p
    BY <1>1, <1>4 DEF Wrote, Leaves, Idle
  <2>2. job[q].op = "script" /\ job[q].script = s
    BY <1>1, <1>4, <2>1 DEF Wrote, Leaves, Others
  <2> QED
    BY <1>3, <2>1, <2>2 DEF MakingInv, MakesOne
<1>5. Spares(s) /\ ~Wrote(p)'
  BY <1>1 DEF UnlinkScript, Spares, Wrote, Leaves, Idle
<1> HIDE DEF s
<1> QED
  BY <1>1, <1>2, <1>4, <1>5, PlacesKept DEF Leaves

\* Every step keeps the files of scripts where their controllers are.
LEMMA PlacesNext ==
    ASSUME WorkInv, MakingInv, DirInv, [Next]_vars
    PROVE  PlacesInv'
<1>1. ASSUME NEW p \in Procs, Request(p) PROVE PlacesInv'
  <2>1. WorkInv' /\ Begins(p) /\ at[p] = "idle"
    BY <1>1, RequestFacts DEF Begins
  <2>2. at'[p] # "rename" /\ ~Wrote(p)'
    <3>1. /\ JobOK(p)'
          /\ at'[p] \in {"save", "writeCar", "writeController", "delete", "check", "find",
                         "match", "drop", "list"}
      BY <1>1, RequestFacts, RequestStep
    <3> QED
      BY <3>1 DEF Wrote, JobOK, WorkSteps, BeforeWriting
  <2> QED
    BY <2>1, <2>2, PlacesSame DEF Begins, docVars, diskVars, Spares
<1>2. ASSUME NEW p \in Procs, QuietStep(p) PROVE PlacesInv'
  <2>1. /\ WorkInv' /\ Others(p) /\ Spares(NoScript)
        /\ UNCHANGED <<name, owner, scripts, strayed>> /\ job[p].op \notin DocOps
    BY <1>2, QuietFacts DEF Goes, Leaves, Spares
  <2>2. at[p] # "rename"
    BY <2>1, JobFields DEF JobOK, WorkSteps, DocOps
  <2>3. Goes(p) => job'[p].op \notin DocOps /\ JobOK(p)' /\ job'[p].op \in WorkOps
    BY <2>1, JobFields DEF WorkInv, Goes, SameWork, WorkOps, DocOps, FileOps
  <2>4. at'[p] # "rename"
    BY <1>2, <2>3, QuietFacts DEF JobOK, WorkSteps, DocOps, WorkOps, FileOps, Leaves
  <2>5. Wrote(p)' => /\ Wrote(p) /\ job'[p].script = job[p].script
                     /\ job'[p].dir = job[p].dir /\ job'[p].doc = job[p].doc
    <3>1. CASE Goes(p)
      <4>1. at'[p] # "idle" \/ job'[p].op # "script"
        BY <2>3, <3>1 DEF JobOK, WorkSteps
      <4> QED
        BY <1>2, <3>1, <4>1, QuietFacts DEF Goes, SameWork, Wrote
    <3>2. CASE Leaves(p)
      BY <3>2 DEF Leaves, Idle, Wrote
    <3> QED
      BY <1>2, <3>1, <3>2, QuietFacts
  <2> QED
    BY <2>1, <2>2, <2>4, <2>5, PlacesSame
<1>3. ASSUME NEW p \in Procs, MatchFile(p) PROVE PlacesInv'
  <2>1. /\ WorkInv' /\ Others(p) /\ job'[p].op = "replace" /\ at[p] = "match" /\ at'[p] = "find"
        /\ UNCHANGED <<name, owner, scripts, strayed, files>>
    BY <1>3, MatchFileTypes DEF MatchFile, docVars, diskVars
  <2> QED
    BY <2>1, PlacesSame DEF Spares, Wrote
<1>4. ASSUME NEW p \in Procs, DropScript(p) PROVE PlacesInv'
  <2>1. /\ WorkInv' /\ Others(p) /\ at[p] = "drop" /\ at'[p] \in {"unlink", "idle"}
        /\ job'[p].op \in {"drop", "none"}
        /\ UNCHANGED <<name, owner, strayed, files>> /\ scripts' \subseteq scripts
    BY <1>4, DropScriptTypes DEF DropScript, diskVars, seenVars, Leaves, Idle
  <2> QED
    BY <2>1, PlacesSame DEF Spares, Wrote
<1>5. CASE Crash
  <2>1. /\ \A q \in Procs : at'[q] = "idle" /\ job'[q] = Idle
        /\ UNCHANGED <<name, owner, scripts, files>>
        /\ strayed' = strayed \cup {job[p].doc : p \in {q \in Procs : at[q] = "rename"}}
    BY <1>5 DEF Crash, docVars
  <2>2. \A q \in Procs : job'[q].op = "none"
    BY <2>1 DEF Idle
  <2>3. ASSUME NEW t \in scripts, t.doc \notin strayed'
        PROVE  Exists(t.doc) /\ Placed(t.id, ScriptDir(t.doc))
    <3>1. \A q \in Procs : ~Renames(q, t.doc)
      BY <2>1, <2>3 DEF Renames
    <3> QED
      BY <2>1, <2>3, <3>1 DEF DirInv, PlacesInv
  <2> QED
    BY <2>1, <2>2, <2>3 DEF PlacesInv, Placed, Renames, Exists, ScriptDir, CompletePath
<1>6. CASE UNCHANGED vars
  BY <1>6 DEF DirInv, PlacesInv, Placed, Renames, Exists, ScriptDir, CompletePath, vars, docVars,
              diskVars, seenVars
<1> QED
  BY <1>1, <1>2, <1>3, <1>4, <1>5, <1>6, NextCases, ScriptStepCases, PlacesDoc, PlacesOpen,
     PlacesInsert, PlacesUnlink

-----------------------------------------------------------------------------
(* The scripts that are replaced. *)

LEMMA ReplacesKept ==
    ASSUME WorkInv, DirInv, NEW p \in Procs, Others(p), scripts' \subseteq scripts,
           strayed \subseteq strayed',
           \/ /\ job'[p].op = job[p].op /\ job'[p].script = job[p].script
              /\ job'[p].doc = job[p].doc
           \/ job'[p].op \notin FileOps
    PROVE  ReplacesInv'
BY DEF DirInv, ReplacesInv, Others, FileOps

\* The file that is found by its name is a script of the controller searched.
LEMMA ReplacesMatch ==
    ASSUME WorkInv, MakingInv, DirInv, NEW p \in Procs, MatchFile(p)
    PROVE  ReplacesInv'
<1>1. PICK x \in files : x.dir = job[p].dir /\ x.id = job'[p].script
  BY MatchFileTypes
<1>2. /\ Others(p) /\ job'[p].op = "replace" /\ job'[p].doc = job[p].doc
      /\ UNCHANGED <<scripts, strayed>>
  BY MatchFileTypes DEF MatchFile, docVars
<1>3. job[p].dir \in Dirs
  BY MatchFileTypes, JobFields DEF JobOK, FileOps
<1>4. ASSUME NEW c \in Controllers \ strayed, Claims(c, x.dir[3]) PROVE job[p].doc = c
  <2>1. job[p].op = "replace"
    BY MatchFileTypes
  <2> QED
    BY <1>1, <1>3, <1>4, <2>1, ScriptPlaces DEF DirInv, NamesInv, Seeks
<1>5. ASSUME NEW t \in scripts, t.id = x.id, t.doc \notin strayed PROVE job[p].doc = t.doc
  <2>1. t.doc \in Controllers \ strayed /\ Exists(t.doc)
    BY <1>5, WorkParts DEF DocTypes, DirInv, PlacesInv
  <2>2. CASE Placed(t.id, ScriptDir(t.doc))
    BY <1>4, <1>5, <2>1, <2>2, ScriptPlaces DEF Placed
  <2>3. ASSUME NEW r \in Procs, Renames(r, t.doc) PROVE job[p].doc = t.doc
    <3>1. Placed(t.id, job[r].dir) /\ job[r].dir \in Dirs /\ job[r].doc = t.doc
      BY <1>5, <2>3, JobFields DEF DirInv, PlacesInv, JobOK, WorkSteps, Renames
    <3> QED
      BY <1>4, <1>5, <2>1, <2>3, <3>1, ScriptPlaces DEF Placed
  <2> QED
    BY <1>5, <2>2, <2>3 DEF DirInv, PlacesInv
<1>6. ASSUME NEW q \in Procs, job[q].op = "script", job[q].script = x.id, job[q].doc \notin strayed
      PROVE  job[p].doc = job[q].doc
  <2>1. job[q].doc \in Controllers \ strayed /\ job[q].dir \in Dirs
    BY <1>6, JobFields DEF JobOK, DocOps, FileOps
  <2>2. at[q] \notin BeforeWriting
    BY <1>6 DEF MakingInv, MakesOne
  <2>3. Placed(x.id, job[q].dir)
    BY <1>6, <2>2 DEF DirInv, PlacesInv
  <2> QED
    BY <1>4, <2>1, <2>3, ScriptPlaces DEF Placed
<1> QED
  BY <1>1, <1>2, <1>5, <1>6 DEF DirInv, ReplacesInv, Others

LEMMA ReplacesInsert ==
    ASSUME WorkInv, MakingInv, DirInv, NEW p \in Procs, InsertScript(p)
    PROVE  ReplacesInv'
<1>1. Leaves(p) /\ UNCHANGED strayed
  BY InsertScriptTypes DEF InsertScript, seenVars
<1>2. job[p].op = "script"
  BY JobFields DEF InsertScript, JobOK, WorkSteps
<1>3. \A t \in scripts' : t \in scripts \/ (t.id = job[p].script /\ t.doc = job[p].doc)
  BY DEF InsertScript
<1>4. \A q \in Procs : job'[q].op \in FileOps => job'[q] = job[q] /\ q # p
  BY <1>1 DEF Leaves, Others, Idle, FileOps
<1> QED
  BY <1>1, <1>2, <1>3, <1>4 DEF DirInv, ReplacesInv, FileOps

LEMMA ReplacesRequest ==
    ASSUME WorkInv, DirInv, NEW p \in Procs, Request(p)
    PROVE  ReplacesInv'
<1>1. Others(p) /\ UNCHANGED scripts /\ strayed \subseteq strayed'
  BY RequestFacts DEF Begins, docVars
<1>2. ASSUME NEW d \in Controllers, NEW m \in Blocks, NEW s \in ScriptIds,
             NEW f \in Services \cup {Upload}, CreateScript(p, s, d, f, m)
      PROVE  ReplacesInv'
  <2>1. job'[p].op = "script" /\ job'[p].script = s
    BY <1>2, CreateScriptTypes DEF Has
  <2>2. \A q \in Procs : job[q].script # s
    BY <1>2 DEF CreateScript
  <2> QED
    BY <1>1, <2>1, <2>2 DEF DirInv, ReplacesInv, Others
<1>3. ASSUME NEW d \in Controllers, NEW m \in Blocks, NEW f \in Services,
             ReplaceScript(p, d, f, m)
      PROVE  ReplacesInv'
  <2>1. job'[p].op = "replace" /\ job'[p].script = NoScript
    BY <1>3, ReplaceScriptTypes DEF Has
  <2>2. \A q \in Procs : job[q].op = "script" => job[q].script # NoScript
    BY JobFields, ScriptsAssumption DEF JobOK
  <2>3. \A t \in scripts : t.id # NoScript
    BY WorkParts, ScriptsAssumption DEF DocTypes
  <2> QED
    BY <1>1, <2>1, <2>2, <2>3 DEF DirInv, ReplacesInv, Others
<1>4. CASE job'[p].op \notin FileOps
  BY <1>1, <1>4, ReplacesKept
<1>5. \/ job'[p].op \notin FileOps
      \/ \E d \in Controllers, m \in Blocks, s \in ScriptIds, f \in Services \cup {Upload} :
            CreateScript(p, s, d, f, m)
      \/ \E d \in Controllers, m \in Blocks, f \in Services : ReplaceScript(p, d, f, m)
  <2>1. CASE \E d \in Docs, n \in Names, w \in SUBSET Fields : UpdateDoc(p, d, n, w)
    BY <2>1, UpdateDocTypes DEF Has, FileOps
  <2>2. CASE ~\E d \in Docs, n \in Names, w \in SUBSET Fields : UpdateDoc(p, d, n, w)
    BY <2>2, CreateDocTypes, RemoveDocTypes, DeleteScriptTypes, AutomatisationTypes
       DEF Request, Has, FileOps
  <2> QED
    BY <2>1, <2>2
<1> QED
  BY <1>2, <1>3, <1>4, <1>5

LEMMA ReplacesNext ==
    ASSUME WorkInv, MakingInv, DirInv, [Next]_vars
    PROVE  ReplacesInv'
<1>1. ASSUME NEW p \in Procs, Goes(p) \/ Leaves(p), scripts' \subseteq scripts,
             strayed \subseteq strayed'
      PROVE  ReplacesInv'
  BY <1>1, ReplacesKept DEF Goes, SameWork, Leaves, Idle, FileOps
<1>2. ASSUME NEW p \in Procs, DocStep(p) \/ QuietStep(p) PROVE ReplacesInv'
  BY <1>1, <1>2, DocStepFacts, QuietFacts
<1>3. ASSUME NEW p \in Procs, OpenScript(p) \/ UnlinkScript(p) PROVE ReplacesInv'
  BY <1>1, <1>3, OpenScriptTypes, UnlinkScriptTypes
     DEF OpenScript, UnlinkScript, docVars, seenVars
<1>4. ASSUME NEW p \in Procs, DropScript(p) PROVE ReplacesInv'
  <2>1. /\ Others(p) /\ job'[p].op \in {"drop", "none"}
        /\ UNCHANGED strayed /\ scripts' \subseteq scripts
    BY <1>4, DropScriptTypes DEF DropScript, seenVars, Leaves, Idle
  <2> QED
    BY <2>1, ReplacesKept DEF FileOps
<1>5. CASE Crash
  <2>1. \A q \in Procs : job'[q].op = "none"
    BY <1>5 DEF Crash, Idle
  <2> QED
    BY <2>1 DEF ReplacesInv
<1>6. CASE UNCHANGED vars
  BY <1>6 DEF DirInv, ReplacesInv, vars, docVars, seenVars
<1> QED
  BY <1>2, <1>3, <1>4, <1>5, <1>6, NextCases, ScriptStepCases, ReplacesRequest, ReplacesMatch,
     ReplacesInsert

\* Directories, names and files are kept in step.
LEMMA DirNext ==
    ASSUME WorkInv, MakingInv, DirInv, [Next]_vars
    PROVE  DirInv'
BY FollowNext, PlacesNext, ReplacesNext DEF FollowInv, DirInv

LEMMA InitDir == Init => DirInv
<1> SUFFICES ASSUME Init PROVE DirInv
  OBVIOUS
<1>1. \A p \in Procs : job[p] = Idle /\ at[p] = "idle"
  BY DEF Init
<1>2. \A p \in Procs : job[p].doc = NoDoc /\ job[p].op = "none" /\ Uses(job[p]) = {}
  BY <1>1, ScriptsAssumption DEF Idle, Uses
<1>3. AloneInv /\ \A p \in Procs : Knows(p)
  BY <1>2, ScriptsAssumption DEF AloneInv, Meets, Knows
<1>4. NamesInv
  BY <1>2, ScriptsAssumption DEF Init, NamesInv, Claims, Seeks, Uses
<1>5. CarInv
  BY <1>2, ScriptsAssumption DEF Init, CarInv, Exists
<1>6. PlacesInv /\ ReplacesInv
  BY <1>2 DEF Init, PlacesInv, ReplacesInv
<1> QED
  BY <1>3, <1>4, <1>5, <1>6 DEF DirInv

-----------------------------------------------------------------------------
(* Scripts whose deletion was answered. *)

LEMMA ExcusedKept ==
    ASSUME owner' = owner, shared \subseteq shared', strayed \subseteq strayed'
    PROVE  \A s : Excused(s) => Excused(s)'
BY DEF Excused

\* What a step may do to the files of scripts, and to the handlers of those, that were
\* deleted.
LEMMA DeletedKept ==
    ASSUME WorkInv, DeletedInv, NEW p \in Procs, owner' = owner, shared \subseteq shared',
           strayed \subseteq strayed', deleted' = deleted, Others(p),
           \A t \in scripts' : t \in scripts \/
               \A q \in Procs \ {p} : job[q].op = "drop" => job[q].script # t.id,
           \A x \in files' : \E y \in files : y.id = x.id,
           job'[p].op \in FileOps => job[p].op \in FileOps /\ job'[p].script = job[p].script,
           job'[p].op = "drop" => job[p].op = "drop" /\ job'[p].script = job[p].script
                                  /\ job'[p].doc = job[p].doc /\ scripts' \subseteq scripts,
           at'[p] # "unlink",
           \A q \in Procs \ {p} : at[q] = "unlink" =>
              \/ Excused(job[q].script)'
              \/ \A x \in files' : x.id = job[q].script =>
                    \E y \in files : y.id = x.id /\ y.dir = x.dir
    PROVE  DeletedInv'
<1>1. \A s : Excused(s) => Excused(s)'
  BY ExcusedKept
<1>2. \A q \in Procs \ {p} : job'[q] = job[q] /\ at'[q] = at[q]
  BY DEF Others
<1>3. deleted' \subseteq ScriptIds
  BY DEF DeletedInv
<1>4. ASSUME NEW q \in Procs, NEW t \in scripts', job'[q].op = "drop", t.id = job'[q].script
      PROVE  t.doc = job'[q].doc
  BY <1>2, <1>4 DEF DeletedInv
<1>5. ASSUME NEW x \in files', x.id \in deleted' PROVE Excused(x.id)'
  BY <1>1, <1>5 DEF DeletedInv
<1>6. ASSUME NEW q \in Procs, job'[q].op \in FileOps, job'[q].script \in deleted'
      PROVE  Excused(job[q].script)'
  <2>1. Excused(job[q].script) /\ job'[q].script = job[q].script
    BY <1>2, <1>6 DEF DeletedInv
  <2> QED
    BY <1>1, <2>1 DEF Excused
<1>7. ASSUME NEW q \in Procs, at'[q] = "unlink"
      PROVE  \/ Excused(job[q].script)'
             \/ \A x \in files' : x.id = job'[q].script => x.dir = job'[q].dir
  <2>1. q # p /\ at[q] = "unlink" /\ job'[q] = job[q]
    BY <1>2, <1>7
  <2>2. CASE Excused(job[q].script)
    BY <1>1, <2>1, <2>2 DEF Excused
  <2>3. CASE \A x \in files : x.id = job[q].script => x.dir = job[q].dir
    BY <2>1, <2>3
  <2> QED
    BY <2>1, <2>2, <2>3 DEF DeletedInv
<1> QED
  BY <1>3, <1>4, <1>5, <1>6, <1>7 DEF DeletedInv

LEMMA DeletedRequest ==
    ASSUME WorkInv, DeletedInv, NEW p \in Procs, Request(p), shared \subseteq shared'
    PROVE  DeletedInv'
<1>1. /\ Begins(p) /\ Others(p) /\ JobOK(p)' /\ owner' = owner /\ deleted' = deleted
      /\ scripts' = scripts /\ files' = files /\ strayed \subseteq strayed'
  BY RequestFacts DEF Begins, docVars, diskVars
<1>2. \A s : Excused(s) => Excused(s)'
  BY <1>1, ExcusedKept
<1>3. at'[p] # "unlink"
  BY RequestStep
<1>4. /\ job'[p].op \in FileOps => job'[p].script \notin deleted
      /\ job'[p].op = "drop" => \A t \in scripts : t.id = job'[p].script => t.doc = job'[p].doc
  <2>1. ASSUME NEW d \in Controllers, NEW m \in Blocks, NEW s \in ScriptIds,
               NEW f \in Services \cup {Upload}, CreateScript(p, s, d, f, m)
        PROVE  job'[p].op = "script" /\ job'[p].script \notin deleted
    <3>1. s \notin deleted
      BY <2>1 DEF CreateScript
    <3> QED
      BY <2>1, <3>1, CreateScriptTypes DEF Has
  <2>2. ASSUME NEW d \in Controllers, NEW m \in Blocks, NEW f \in Services,
               ReplaceScript(p, d, f, m)
        PROVE  job'[p].op = "replace" /\ job'[p].script \notin deleted
    BY <2>2, ReplaceScriptTypes, ScriptsAssumption DEF Has, DeletedInv
  <2>3. ASSUME NEW r \in scripts, DeleteScript(p, r)
        PROVE  /\ job'[p].op = "drop"
               /\ \A t \in scripts : t.id = job'[p].script => t.doc = job'[p].doc
    BY <2>3, DeleteScriptTypes, WorkParts DEF Has, DocTypes
  <2>4. \/ job'[p].op \notin FileOps \cup {"drop"}
        \/ \E d \in Controllers, m \in Blocks, s \in ScriptIds, f \in Services \cup {Upload} :
              CreateScript(p, s, d, f, m)
        \/ \E d \in Controllers, m \in Blocks, f \in Services : ReplaceScript(p, d, f, m)
        \/ \E r \in scripts : DeleteScript(p, r)
    <3>1. ASSUME NEW d \in Docs, NEW n \in Names, CreateDoc(p, d, n)
          PROVE  job'[p].op = "create"
      BY <3>1, CreateDocTypes DEF Has
    <3>2. ASSUME NEW d \in Docs, NEW n \in Names, NEW w \in SUBSET Fields, UpdateDoc(p, d, n, w)
          PROVE  job'[p].op = "update"
      BY <3>2, UpdateDocTypes DEF Has
    <3>3. ASSUME NEW d \in Docs, RemoveDoc(p, d) PROVE job'[p].op = "remove"
      BY <3>3, RemoveDocTypes DEF Has
    <3>4. ASSUME NEW d \in Controllers, NEW assist \in BOOLEAN, Automatisation(p, d, assist)
          PROVE  job'[p].op = "offer"
      BY <3>4, AutomatisationTypes DEF Has
    <3> QED
      BY <3>1, <3>2, <3>3, <3>4 DEF Request, FileOps
  <2> QED
    BY <2>1, <2>2, <2>3, <2>4 DEF FileOps
<1>5. ASSUME NEW q \in Procs
      PROVE  /\ \A t \in scripts' : job'[q].op = "drop" /\ t.id = job'[q].script
                      => t.doc = job'[q].doc
             /\ job'[q].op \in FileOps /\ job'[q].script \in deleted' => Excused(job[q].script)'
             /\ at'[q] = "unlink" =>
                   \/ Excused(job[q].script)'
                   \/ \A x \in files' : x.id = job'[q].script => x.dir = job'[q].dir
  <2>1. CASE q = p
    BY <1>1, <1>3, <1>4, <2>1
  <2>2. CASE q # p
    <3>1. job'[q] = job[q] /\ at'[q] = at[q]
      BY <1>1, <2>2 DEF Others
    <3>2. Excused(job[q].script) => Excused(job[q].script)'
      BY <1>2, <3>1 DEF Excused
    <3> QED
      BY <1>1, <3>1, <3>2 DEF DeletedInv
  <2> QED
    BY <2>1, <2>2
<1> QED
  BY <1>1, <1>2, <1>5 DEF DeletedInv

LEMMA DeletedDoc ==
    ASSUME WorkInv, DirInv, DeletedInv, NEW p \in Procs, DocStep(p)
    PROVE  DeletedInv'
<1>1. /\ WorkInv' /\ (Goes(p) \/ Leaves(p)) /\ job[p].op \in DocOps /\ SameFiles
      /\ strayed \subseteq strayed'
      /\ UNCHANGED <<scripts, owner, deleted, shared>>
  BY DocStepFacts
<1>2. job'[p].op \notin FileOps \cup {"drop"}
  BY <1>1 DEF Goes, SameWork, Leaves, Idle, DocOps, FileOps
<1>3. at'[p] # "unlink"
  BY <1>1, <1>2 DEF WorkInv, JobOK, WorkSteps, DocOps, Goes, SameWork, Leaves
<1>4. ASSUME NEW q \in Procs \ {p}, at[q] = "unlink", ~Excused(job[q].script)'
      PROVE  \A x \in files' : x.id = job[q].script =>
                \E y \in files : y.id = x.id /\ y.dir = x.dir
  <2>1. /\ strayed' = {} /\ owner # "super" /\ ~Excused(job[q].script)
        /\ job[q].op = "drop" /\ job[q].dir \in Dirs /\ job[q].doc \in Controllers \ strayed
    <3>1. job'[q] = job[q]
      BY <1>1 DEF Goes, Leaves, Others
    <3>2. job[q].op = "drop" /\ job[q].dir \in Dirs /\ job[q].doc \in Controllers
      BY <1>4, JobFields DEF JobOK, WorkSteps, DocOps
    <3> QED
      BY <1>1, <1>4, <3>1, <3>2 DEF Excused
  <2>2. \A x \in files : x.id = job[q].script => x.dir = job[q].dir
    BY <1>4, <2>1 DEF DeletedInv
  <2>3. job[p].doc = Car => job[p].op = "create"
    BY <1>1, <2>1, CarChanges DEF DirInv
  <2>4. Touches(Touched(p))
    BY <2>3, DocTouches
  <2>5. job[p].doc # job[q].doc
    BY <1>1, <2>1, NoOther
  <2>6. job[q].dir[3] \notin Touched(p)
    BY <1>1, <2>1, <2>5, Apart, ScriptPlaces
  <2> QED
    BY <2>2, <2>4, <2>6 DEF Touches
<1>5. \A x \in files' : \E y \in files : y.id = x.id
  BY <1>1 DEF SameFiles
<1>6. Others(p)
  BY <1>1 DEF Goes, Leaves
<1> QED
  BY <1>1, <1>2, <1>3, <1>4, <1>5, <1>6, DeletedKept

LEMMA DeletedQuiet ==
    ASSUME WorkInv, DeletedInv, NEW p \in Procs, QuietStep(p)
    PROVE  DeletedInv'
<1>1. /\ WorkInv' /\ (Goes(p) \/ Leaves(p))
      /\ \A x \in files' : \E y \in files : x.dir = y.dir /\ x.id = y.id
      /\ UNCHANGED <<scripts, owner, deleted, strayed, shared>>
      /\ at'[p] # "unlink"
  BY QuietFacts
<1>2. /\ job'[p].op \in FileOps => job[p].op \in FileOps /\ job'[p].script = job[p].script
      /\ job'[p].op = "drop" => job[p].op = "drop" /\ job'[p].script = job[p].script
                                /\ job'[p].doc = job[p].doc
  BY <1>1 DEF Goes, SameWork, Leaves, Idle, FileOps
<1>3. Others(p)
  BY <1>1 DEF Goes, Leaves
<1>4. /\ \A x \in files' : \E y \in files : y.id = x.id
      /\ \A x \in files' : \E y \in files : y.id = x.id /\ y.dir = x.dir
  BY <1>1
<1> QED
  BY <1>1, <1>2, <1>3, <1>4, DeletedKept

LEMMA DeletedMatch ==
    ASSUME WorkInv, DeletedInv, NEW p \in Procs, MatchFile(p), shared \subseteq shared'
    PROVE  DeletedInv'
<1>1. PICK x \in files : x.id = job'[p].script
  BY MatchFileTypes
<1>2. /\ Others(p) /\ job'[p].op = "replace" /\ at'[p] = "find"
      /\ UNCHANGED <<owner, deleted, strayed, scripts, files>>
  BY MatchFileTypes DEF MatchFile, docVars, diskVars
<1>3. \A s : Excused(s) => Excused(s)'
  BY <1>2, ExcusedKept
<1>4. x.id \in deleted => Excused(x.id)'
  BY <1>3 DEF DeletedInv
<1>5. ASSUME NEW q \in Procs
      PROVE  /\ \A t \in scripts' : job'[q].op = "drop" /\ t.id = job'[q].script
                      => t.doc = job'[q].doc
             /\ job'[q].op \in FileOps /\ job'[q].script \in deleted' => Excused(job[q].script)'
             /\ at'[q] = "unlink" =>
                   \/ Excused(job[q].script)'
                   \/ \A y \in files' : y.id = job'[q].script => y.dir = job'[q].dir
  <2>1. CASE q = p
    BY <1>1, <1>2, <1>4, <2>1 DEF Excused
  <2>2. CASE q # p
    <3>1. job'[q] = job[q] /\ at'[q] = at[q]
      BY <1>2, <2>2 DEF Others
    <3>2. Excused(job[q].script) => Excused(job[q].script)'
      BY <1>3, <3>1 DEF Excused
    <3> QED
      BY <1>2, <3>1, <3>2 DEF DeletedInv
  <2> QED
    BY <2>1, <2>2
<1> QED
  BY <1>2, <1>3, <1>5 DEF DeletedInv

LEMMA DeletedOpen ==
    ASSUME WorkInv, SharedInv, DeletedInv, NEW p \in Procs, OpenScript(p)
    PROVE  DeletedInv'
<1>1. /\ job' = job /\ at'[p] = "writing" /\ Others(p)
      /\ UNCHANGED <<owner, deleted, strayed, scripts, shared>>
  BY OpenScriptTypes, NextStep DEF OpenScript, docVars, seenVars, Steps, Goes
<1>2. job[p].op \in FileOps /\ job[p].script \in ScriptIds
  BY JobFields DEF OpenScript, JobOK, WorkSteps, FileOps
<1>3. \A x \in files' : x \in files \/ x.id = job[p].script
  BY DEF OpenScript
<1>4. \A s : Excused(s)' <=> Excused(s)
  BY <1>1 DEF Excused
<1>5. \A x \in files' : x.id \in deleted => Excused(x.id)
  BY <1>2, <1>3 DEF DeletedInv
<1>6. ASSUME NEW q \in Procs, at'[q] = "unlink"
      PROVE  \/ Excused(job[q].script)
             \/ \A x \in files' : x.id = job[q].script => x.dir = job[q].dir
  <2>1. q # p /\ at[q] = "unlink"
    BY <1>1, <1>6 DEF Others
  <2>2. CASE job[q].script = job[p].script
    BY <1>2, <2>1, <2>2 DEF SharedInv, Excused
  <2>3. CASE job[q].script # job[p].script
    BY <1>3, <2>1, <2>3 DEF DeletedInv
  <2> QED
    BY <2>2, <2>3
<1> QED
  BY <1>1, <1>4, <1>5, <1>6 DEF DeletedInv, Excused

LEMMA DeletedInsert ==
    ASSUME WorkInv, MakingInv, DeletedInv, NEW p \in Procs, InsertScript(p)
    PROVE  DeletedInv'
<1>1. /\ Leaves(p) /\ UNCHANGED <<owner, deleted, strayed, files, shared>>
  BY InsertScriptTypes DEF InsertScript, seenVars
<1>2. job[p].op = "script"
  BY JobFields DEF InsertScript, JobOK, WorkSteps
<1>3. \A t \in scripts' : t \in scripts \/ t.id = job[p].script
  BY DEF InsertScript
<1>4. \A q \in Procs \ {p} : job[q].op = "drop" => job[q].script # job[p].script
  BY <1>2 DEF MakingInv, MakesOne
<1>5. job'[p].op = "none" /\ at'[p] # "unlink"
  BY <1>1 DEF Leaves, Idle
<1> QED
  BY <1>1, <1>3, <1>4, <1>5, DeletedKept DEF Leaves, FileOps

\* The path deleteScript builds is the one the file is at, unless it is excused.
LEMMA DeletedDrop ==
    ASSUME WorkInv, DirInv, DeletedInv, NEW p \in Procs, DropScript(p)
    PROVE  DeletedInv'
<1>1. /\ Others(p) /\ scripts' \subseteq scripts /\ at[p] = "drop" /\ job[p].op = "drop"
      /\ UNCHANGED <<owner, deleted, strayed, files, shared>>
  BY DropScriptTypes DEF DropScript, diskVars, seenVars
<1>2. CASE Leaves(p)
  <2>1. job'[p].op = "none" /\ at'[p] # "unlink"
    BY <1>2 DEF Leaves, Idle
  <2> QED
    BY <1>1, <2>1, DeletedKept DEF FileOps
<1>3. CASE ~Leaves(p)
  <2>1. /\ job'[p].op = "drop" /\ job'[p].doc = job[p].doc /\ job'[p].script = job[p].script
        /\ job'[p].dir = CompletePath(name[Car], name[job[p].doc])
    BY <1>1, <1>3, DropScriptTypes
  <2>2. PICK t \in scripts : t.id = job[p].script
    BY DEF DropScript
  <2>3. t.doc = job[p].doc /\ t.doc \in Controllers
    BY <1>1, <2>2, WorkParts DEF DeletedInv, DocTypes
  <2>4. ASSUME ~Excused(job[p].script), NEW x \in files, x.id = job[p].script
        PROVE  x.dir = job'[p].dir
    <3>1. strayed = {} /\ owner # "super"
      BY <2>4 DEF Excused
    <3>2. ASSUME NEW r \in Procs, Renames(r, t.doc) PROVE FALSE
      <4>1. job[r].op = "update" /\ job[r].doc = t.doc
        BY <3>2, JobFields DEF JobOK, WorkSteps, Renames
      <4> QED
        BY <1>1, <2>3, <3>1, <3>2, <4>1 DEF DirInv, AloneInv, Meets, Changes
    <3>3. Placed(t.id, ScriptDir(t.doc))
      BY <3>1, <3>2 DEF DirInv, PlacesInv
    <3> QED
      BY <2>1, <2>2, <2>3, <2>4, <3>1, <3>3 DEF Placed, ScriptDir
  <2>5. \A s : Excused(s)' <=> Excused(s)
    BY <1>1 DEF Excused
  <2>6. \A q \in Procs : job'[q].op = job[q].op /\ job'[q].doc = job[q].doc
              /\ job'[q].script = job[q].script
    BY <1>1, <2>1 DEF Others
  <2>7. ASSUME NEW q \in Procs, at'[q] = "unlink"
        PROVE  \/ Excused(job[q].script)
               \/ \A x \in files' : x.id = job'[q].script => x.dir = job'[q].dir
    <3>1. CASE q = p
      BY <1>1, <2>1, <2>4, <3>1
    <3>2. CASE q # p
      BY <1>1, <2>7, <3>2 DEF DeletedInv, Others
    <3> QED
      BY <3>1, <3>2
  <2> QED
    BY <1>1, <2>5, <2>6, <2>7 DEF DeletedInv, Excused
<1> QED
  BY <1>2, <1>3

\* What is unlinked is gone: all files of the script were at that path.
LEMMA DeletedUnlink ==
    ASSUME WorkInv, SharedInv, DeletedInv, NEW p \in Procs, UnlinkScript(p)
    PROVE  DeletedInv'
<1>1. /\ Leaves(p) /\ at[p] = "unlink" /\ job[p].script \in ScriptIds
      /\ UNCHANGED <<owner, strayed, scripts, shared>>
  BY UnlinkScriptTypes, JobFields DEF UnlinkScript, docVars, JobOK, WorkSteps
<1>2. deleted' = deleted \cup {job[p].script}
  BY DEF UnlinkScript
<1>3. files' = {x \in files : x.dir # job[p].dir \/ x.id # job[p].script}
  BY DEF UnlinkScript
<1>4. \A s : Excused(s)' <=> Excused(s)
  BY <1>1 DEF Excused
<1>5. \A x \in files' : x.id \in deleted' => Excused(x.id)
  BY <1>1, <1>2, <1>3 DEF DeletedInv
<1>6. \A q \in Procs : job'[q].op # "none" => job'[q] = job[q] /\ at'[q] = at[q] /\ q # p
  BY <1>1 DEF Leaves, Others, Idle
<1>7. \A q \in Procs : job'[q].op \in FileOps /\ job'[q].script \in deleted'
            => Excused(job'[q].script)
  <2>1. \A q \in Procs \ {p} : job[q].script = job[p].script => Excused(job[q].script)
    BY <1>1 DEF SharedInv, Excused
  <2> QED
    BY <1>2, <1>6, <2>1 DEF DeletedInv, FileOps
<1>8. \A q \in Procs : at'[q] = "unlink" => q # p /\ at[q] = "unlink" /\ job'[q] = job[q]
  BY <1>1 DEF Leaves, Others
<1>9. deleted' \subseteq ScriptIds
  BY <1>1, <1>2 DEF DeletedInv
<1>10. \A q \in Procs : at'[q] = "unlink" =>
          \/ Excused(job'[q].script)
          \/ \A x \in files' : x.id = job'[q].script => x.dir = job'[q].dir
  BY <1>3, <1>8 DEF DeletedInv
<1>11. \A q \in Procs : \A t \in scripts' :
          job'[q].op = "drop" /\ t.id = job'[q].script => t.doc = job'[q].doc
  BY <1>1, <1>6 DEF DeletedInv
<1> QED
  BY <1>1, <1>5, <1>7, <1>9, <1>10, <1>11 DEF DeletedInv, Excused

\* A deleted script does not come back, unless it is excused.
LEMMA DeletedNext ==
    ASSUME WorkInv, MakingInv, SharedInv, DirInv, DeletedInv, [Next]_vars
    PROVE  DeletedInv'
<1>1. shared \subseteq shared'
  BY SharedNext
<1>2. CASE Crash
  <2>1. /\ \A q \in Procs : job'[q].op = "none" /\ at'[q] = "idle"
        /\ UNCHANGED <<owner, deleted, scripts, files, shared>> /\ strayed \subseteq strayed'
    BY <1>2 DEF Crash, docVars, Idle
  <2>2. \A s : Excused(s) => Excused(s)'
    BY <2>1, ExcusedKept
  <2> QED
    BY <2>1, <2>2 DEF DeletedInv, FileOps
<1>3. CASE UNCHANGED vars
  BY <1>3 DEF DeletedInv, Excused, vars, docVars, diskVars, seenVars
<1> QED
  BY <1>1, <1>2, <1>3, NextCases, ScriptStepCases, DeletedRequest, DeletedDoc, DeletedQuiet,
     DeletedMatch, DeletedOpen, DeletedInsert, DeletedDrop, DeletedUnlink

-----------------------------------------------------------------------------

\* What is offered is in the directory, written to the end and made of a whole original.
LEMMA OffersNext ==
    ASSUME WorkInv, OrigInv, DeletedInv, OffersAreSound, shared \subseteq shared',
           [Next]_vars
    PROVE  OffersAreSound'
<1>1. owner' = owner /\ strayed \subseteq strayed'
  <2>1. ASSUME NEW p \in Procs, OpenScript(p) \/ UnlinkScript(p) \/ InsertScript(p) \/ DropScript(p)
               \/ MatchFile(p)
        PROVE  UNCHANGED <<owner, strayed>>
    BY <2>1 DEF OpenScript, UnlinkScript, InsertScript, DropScript, MatchFile, seenVars
  <2>2. CASE Crash
    BY <2>2 DEF Crash
  <2>3. CASE UNCHANGED vars
    BY <2>3 DEF vars, seenVars
  <2> QED
    BY <2>1, <2>2, <2>3, NextCases, ScriptStepCases, RequestFacts, DocStepFacts, QuietFacts
       DEF Begins
<1>2. CASE offered' = offered
  BY <1>1, <1>2 DEF OffersAreSound
<1>3. ASSUME NEW p \in Procs, MatchScripts(p) PROVE OffersAreSound'
  <2>1. PICK O \in SUBSET files :
           offered' = {[script |-> x.id, orig |-> x.orig, mod |-> x.mod,
                        deleted |-> x.id \in deleted] : x \in O}
    BY <1>3 DEF MatchScripts, FilesIn
  <2>2. \A o \in offered' : \E x \in files :
           /\ o.script = x.id /\ o.orig = x.orig /\ o.mod = x.mod
           /\ o.deleted <=> x.id \in deleted
    <3> DEFINE r(x) == [script |-> x.id, orig |-> x.orig, mod |-> x.mod,
                        deleted |-> x.id \in deleted]
    <3>1. \A x : /\ r(x).script = x.id /\ r(x).orig = x.orig /\ r(x).mod = x.mod
                /\ r(x).deleted = (x.id \in deleted)
      OBVIOUS
    <3>2. offered' = {r(x) : x \in O}
      BY <2>1
    <3> HIDE DEF r
    <3>3. SUFFICES ASSUME NEW o \in offered'
                   PROVE  \E x \in files :
                             /\ o.script = x.id /\ o.orig = x.orig /\ o.mod = x.mod
                             /\ o.deleted <=> x.id \in deleted
      OBVIOUS
    <3>4. PICK x \in O : o = r(x)
      BY <3>2
    <3>5. x \in files /\ o.deleted = (x.id \in deleted)
      BY <3>1, <3>4
    <3> QED
      BY <3>1, <3>4, <3>5
  <2> QED
    BY <1>1, <2>2 DEF OffersAreSound, OrigInv, DeletedInv, Excused
<1>4. (\E p \in Procs : MatchScripts(p)) \/ offered' = offered
  <2>1. ASSUME NEW p \in Procs, Request(p) PROVE offered' = offered
    BY <2>1, RequestFacts DEF Begins
  <2>2. ASSUME NEW p \in Procs, DocStep(p) PROVE offered' = offered
    BY <2>2, DocStepFacts
  <2>3. ASSUME NEW p \in Procs, ScriptStep(p), ~MatchScripts(p) PROVE offered' = offered
    BY <2>3 DEF ScriptStep, MatchFile, FindOriginal, OpenOriginal, StoreBlock, CheckSize,
       ReadOriginal, OpenScript, WriteScript, InsertScript, FailScript, DropScript, UnlinkScript,
       NotFound, ListScripts, OfferFails, seenVars
  <2>4. CASE Crash
    BY <2>4 DEF Crash
  <2>5. CASE UNCHANGED vars
    BY <2>5 DEF vars, seenVars
  <2> QED
    BY <2>1, <2>2, <2>3, <2>4, <2>5, NextCases
<1> QED
  BY <1>2, <1>3, <1>4

\* What holds of the scripts of a portal in every state.
ScriptsHold == ScriptsInv /\ OffersAreSound

LEMMA InitHolds == Init => ScriptsHold
<1> SUFFICES ASSUME Init PROVE ScriptsHold
  OBVIOUS
<1>1. WorkInv /\ MakingInv
  BY InitMaking DEF WorkAndMaking
<1>2. DirInv
  BY InitDir
<1>3. \A p \in Procs : job[p] = Idle /\ at[p] = "idle"
  BY DEF Init
<1>4. SharedInv
  BY <1>3, ScriptsAssumption DEF SharedInv, Idle
<1>5. OrigInv
  BY <1>3 DEF Init, OrigInv, OriginalOf
<1>6. DeletedInv
  BY <1>3 DEF Init, DeletedInv, Idle
<1>7. OffersAreSound
  BY DEF Init, OffersAreSound
<1> QED
  BY <1>1, <1>2, <1>4, <1>5, <1>6, <1>7 DEF ScriptsHold, ScriptsInv

\* The inductive invariant is kept by every step.
LEMMA HoldsNext == ScriptsHold /\ [Next]_vars => ScriptsHold'
<1> SUFFICES ASSUME ScriptsHold, [Next]_vars PROVE ScriptsHold'
  OBVIOUS
<1>1. WorkInv /\ MakingInv /\ SharedInv /\ OrigInv /\ DirInv /\ DeletedInv /\ OffersAreSound
  BY DEF ScriptsHold, ScriptsInv
<1>2. WorkInv' /\ MakingInv'
  BY <1>1, MakingNext DEF WorkAndMaking
<1>3. SharedInv' /\ shared \subseteq shared'
  BY <1>1, SharedNext
<1>4. OrigInv' /\ DirInv' /\ DeletedInv'
  BY <1>1, OrigNext, DirNext, DeletedNext
<1>5. OffersAreSound'
  BY <1>1, <1>3, OffersNext
<1> QED
  BY <1>2, <1>3, <1>4, <1>5 DEF ScriptsHold, ScriptsInv

\* A script that has a document has its file in the directory its car and controller
\* name now (script, car and car-controller services), for any number of renames,
\* requests and restarts, except for the controllers NamedIsStored names.
THEOREM StoredAlways == Spec => []NamedIsStored
<1>1. ScriptsHold => NamedIsStored
  BY DEF ScriptsHold, ScriptsInv, DirInv, PlacesInv, Placed, Renames, NamedIsStored
<1> QED
  BY InitHolds, HoldsNext, <1>1, PTL DEF Spec

\* automatisation offers no script whose deletion was answered, and only scripts whose
\* original was compared to the last byte, except where handlers met at the script or
\* at the original, the super admin deleted, or a directory strayed.
THEOREM OffersAlways == Spec => []OffersAreSound
<1>1. ScriptsHold => OffersAreSound
  BY DEF ScriptsHold
<1> QED
  BY InitHolds, HoldsNext, <1>1, PTL DEF Spec
=============================================================================
