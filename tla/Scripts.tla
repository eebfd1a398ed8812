------------------------------ MODULE Scripts ------------------------------
(***************************************************************************)
(* The scripts of a portal: what a modified file changed of the original,  *)
(* kept as a file in the directory of a car's controller                   *)
(* (src/src/features/script, car, car-controller).  The directory is       *)
(* named by the car and the controller and moves with them.  A customer    *)
(* is offered the scripts of the directory that match the file he          *)
(* uploaded (automatisation in src/src/features/file-service).  Contents   *)
(* are counted in blocks: an original on the disk is the set of its blocks *)
(* written so far, while it is downloaded.                                 *)
(***************************************************************************)
EXTENDS Naturals, FiniteSets, MongoTx

CONSTANTS
    Car, Controllers,   \* a car and its controllers
    Names,
    NoName,             \* of a car or controller that is not there
    ScriptIds,
    Services,           \* file services an original can be taken from
    Upload,             \* the original is sent with the request instead
    NoDoc, NoScript, NoService, NoDir, \* in the job of a handler that needs none
    MaxRequests         \* bound: requests taken

ASSUME ScriptsAssumption ==
    /\ NoName \notin Names /\ Car \notin Controllers /\ MaxRequests \in Nat
    /\ Upload \notin Services /\ NoService \notin Services \cup {Upload}
    /\ NoDoc \notin {Car} \cup Controllers /\ NoScript \notin ScriptIds \cup Services
    /\ ScriptIds \cap (Services \cup {Upload, NoService}) = {}
    /\ NoDir \notin {"portal", "ai", "other"} \X Names \X Names

Docs == {Car} \cup Controllers

VARIABLES
    name, removed,  \* documents of the car and its controllers
    place,          \* place[d]: fields of controller d that do not name this car
    owner,          \* of the car: a portal, or the super admin
    scripts,        \* script documents: [id, doc] with doc the controller
    dirs, files,    \* on the disk: the directories and the scripts in them
    bin,            \* bin[f]: blocks of f's original on the disk; Absent if there is none
    writers,        \* handlers that write into the file bin stands for
    at, job,        \* handlers
    requests,       \* how many requests were taken
    offered,        \* observation: the last answer to a customer
    deleted,        \* observation: scripts whose deletion was answered
    strayed,        \* observation: controllers whose directory need not follow them
    shared          \* observation: scripts and services two handlers worked on at once

docVars == <<name, place, removed, scripts>>
diskVars == <<dirs, files, bin, writers>>
seenVars == <<offered, deleted, strayed, shared>>
vars == <<docVars, diskVars, owner, txVars, at, job, requests, seenVars>>

Blocks == 1..2
Absent == {0}       \* no file: not a set of blocks
Whole == Blocks
Size(b) == IF b = {} THEN 0 ELSE CHOOSE n \in b : \A m \in b : m <= n

Fields == {"portal", "car"}   \* what a controller names beside its own name
Trees == {"portal", "ai", "other"}
Dirs == Trees \X Names \X Names

Idle == [op |-> "none", doc |-> NoDoc, name |-> NoName, dir |-> NoDir, made |-> FALSE,
         script |-> NoScript, service |-> NoService, mod |-> 0, orig |-> {},
         stored |-> 0, list |-> {}, place |-> {}]

TypeOK ==
    /\ name \in [Docs -> Names \cup {NoName}] /\ removed \subseteq Docs
    /\ place \in [Controllers -> SUBSET Fields]
    /\ owner \in {"portal", "super"}
    /\ scripts \subseteq [id : ScriptIds, doc : Controllers]
    /\ \A s, t \in scripts : s.id = t.id => s = t
    /\ dirs \subseteq Dirs
    /\ files \subseteq [dir : dirs, id : ScriptIds, valid : BOOLEAN,
                        orig : SUBSET Blocks, mod : Blocks]
    /\ \A x, y \in files : x.dir = y.dir /\ x.id = y.id => x = y
    /\ bin \in [Services -> (SUBSET Blocks) \cup {Absent}]
    /\ writers \subseteq Procs
    /\ \A p \in writers : job[p].service \in Services /\ bin[job[p].service] # Absent
    /\ TxTypeOK(Docs)
    /\ requests \in 0..MaxRequests

\* The car and its controllers may have been made before, with their directories.
Init ==
    /\ name \in [Docs -> Names \cup {NoName}] /\ removed = {}
    /\ place = [d \in Controllers |-> {}]
    /\ \A c, d \in Controllers : c # d /\ name[c] # NoName => name[c] # name[d]
    /\ name[Car] = NoName => \A d \in Controllers : name[d] = NoName
    /\ owner \in {"portal", "super"}
    /\ scripts = {} /\ files = {}
    /\ dirs = {<<"portal", name[Car], name[d]>> : d \in {c \in Controllers : name[c] # NoName}}
    /\ bin = [f \in Services |-> Absent] /\ writers = {}
    /\ TxInit
    /\ at = [p \in Procs |-> "idle"]
    /\ job = [p \in Procs |-> Idle]
    /\ requests = 0
    /\ offered = {} /\ deleted = {} /\ strayed = {} /\ shared = {}

-----------------------------------------------------------------------------
(* The directories (path.service.ts).                                          *)

Exists(d) == name[d] # NoName

\* Where car and car-controller keep a controller's directory.
CompletePath(carName, ctlName) == <<"portal", carName, ctlName>>

\* In a directory of another car or portal, of which only the controller is kept: no
\* script of this car is there, and dirs does not say what is.
PathElsewhere(ctlName) == <<"other", ctlName, ctlName>>

\* Where scripts are written and read: the super admin's are in a tree of their own.
ScriptDir(d) ==
    IF owner = "super" THEN <<"ai", name[Car], name[d]>>
    ELSE CompletePath(name[Car], name[d])

FilesIn(dir) == {x \in files : x.dir = dir}

RemoveDirs(D) ==
    /\ dirs' = dirs \ D
    /\ files' = {x \in files : x.dir \notin D}

-----------------------------------------------------------------------------
(* How a handler moves on. *)

\* What a handler with job j may change, and the names of directories it works with.
Changes(j) == j.op \in {"create", "update", "remove"}
Uses(j) == ({j.name} \cup IF j.dir = NoDir THEN {} ELSE {j.dir[3]}) \cap Names
Meets(j, d) == j.doc \in {d, Car}

\* The controllers that are no longer followed when p begins j: two handlers, one of
\* which changes the directory, work on it or on its name, or it cannot follow at all,
\* or it has the name of one that was moved to another portal and is named by j.  One
\* that is moved and renamed is looked for where it goes and not where it is.
Strays(p, j) ==
    {d \in Controllers :
        \/ j.doc = Car /\ j.op \in {"update", "remove"}
        \/ j.doc = d /\ j.op = "remove"
        \/ /\ j.doc = d /\ j.op = "update"
           /\ \/ owner = "super" \/ "portal" \in j.place
              \/ j.place # {} /\ j.name # name[d]
        \/ j.doc \in Controllers \ {d} /\ name[d] \in Uses(j)
        \/ \E q \in Procs \ {p} :
              /\ Changes(j) \/ Changes(job[q])
              /\ \/ Meets(j, d) /\ Meets(job[q], d)
                 \/ d \in {j.doc, job[q].doc} /\ Uses(j) \cap Uses(job[q]) # {}}

Begin(p, j, s) ==
    /\ at[p] = "idle"
    /\ requests < MaxRequests
    /\ requests' = requests + 1
    /\ at' = [at EXCEPT ![p] = s]
    /\ job' = [job EXCEPT ![p] = j]
    /\ strayed' = strayed \cup Strays(p, j)
    /\ shared' = shared \cup ((UNION {{job[q].script, job[q].service} : q \in Procs \ {p}})
                                \cap {j.script, j.service} \cap (ScriptIds \cup Services))

Goto(p, s) ==
    /\ at' = [at EXCEPT ![p] = s]
    /\ UNCHANGED job

Leave(p) ==
    /\ at' = [at EXCEPT ![p] = "idle"]
    /\ job' = [job EXCEPT ![p] = Idle]

-----------------------------------------------------------------------------
(* Cars and controllers: create, update, remove.  Look-ups do not use the      *)
(* session.                                                                    *)

Rivals(d) == IF d = Car THEN {} ELSE Controllers \ {d}

\* create looks among the controllers of the portal, update among all.
NameFree(d, n) == \A e \in Rivals(d) : "portal" \in place[e] \/ name[e] # n
NameFreeForAll(d, n) == \A e \in Rivals(d) : name[e] # n

CreateDoc(p, d, n) ==
    /\ ~Exists(d) /\ d \notin removed
    /\ d # Car => Exists(Car)
    /\ NameFree(d, n)
    /\ Begin(p, [Idle EXCEPT !.op = "create", !.doc = d, !.name = n,
                             !.dir = IF d = Car THEN NoDir ELSE CompletePath(name[Car], n)],
             "save")
    /\ UNCHANGED <<docVars, diskVars, owner, txVars, offered, deleted>>

Save(p) ==
    /\ at[p] = "save"
    /\ SessionWrite(p, job[p].doc)
    /\ Goto(p, "mkdir")
    /\ UNCHANGED <<docVars, diskVars, owner, requests, seenVars>>

MakeDir(p) ==
    /\ at[p] = "mkdir"
    /\ at' = [at EXCEPT ![p] = "commit"]
    /\ IF job[p].dir \in dirs \cup {NoDir}
       THEN UNCHANGED <<dirs, job>>
       ELSE /\ dirs' = dirs \cup {job[p].dir}
            /\ job' = [job EXCEPT ![p].made = TRUE]
    /\ UNCHANGED <<docVars, files, bin, writers, owner, requests, txVars, seenVars>>

\* The body names the car and the portal as well, those the controller has or not (w),
\* and the path of the directory is built from what it names.
UpdateDoc(p, d, n, w) ==
    /\ Exists(d) /\ ("car" \in w \/ Exists(Car))
    /\ NameFreeForAll(d, n)
    /\ IF d = Car THEN w = {} /\ n # name[d] ELSE n # name[d] \/ w # place[d]
    /\ Begin(p, [Idle EXCEPT !.op = "update", !.doc = d, !.name = n, !.place = w,
                             !.dir = IF w = {} THEN CompletePath(name[Car], name[d])
                                     ELSE PathElsewhere(name[d])],
             IF d = Car THEN "writeCar" ELSE "writeController")
    /\ UNCHANGED <<docVars, diskVars, owner, txVars, offered, deleted>>

\* The paths update builds are not those of scripts: nothing is there to rename.
WriteCar(p) ==
    /\ at[p] = "writeCar"
    /\ SessionWrite(p, Car)
    /\ Goto(p, "commit")
    /\ UNCHANGED <<docVars, diskVars, owner, requests, seenVars>>

\* Without the session, every field of the body.
WriteController(p) ==
    LET d == job[p].doc IN
    /\ at[p] = "writeController"
    /\ PlainWrite(d)
    /\ IF Exists(d)
       THEN /\ name' = [name EXCEPT ![d] = job[p].name]
            /\ place' = [place EXCEPT ![d] = job[p].place]
       ELSE UNCHANGED <<name, place>>
    /\ Goto(p, "rename")
    /\ UNCHANGED <<removed, scripts, diskVars, owner, requests, seenVars>>

Renamed(p) ==
    IF job[p].place = {} THEN CompletePath(job[p].dir[2], job[p].name)
    ELSE PathElsewhere(job[p].name)

MoveDir(from, to) ==
    /\ dirs' = (dirs \ {from}) \cup {to}
    /\ files' = {IF x.dir = from THEN [x EXCEPT !.dir = to] ELSE x : x \in files}

\* Variant: the directory keeps its name.
RenameDir_Stays(p) ==
    /\ at[p] = "rename"
    /\ Goto(p, "commit")
    /\ UNCHANGED <<diskVars, docVars, owner, requests, txVars, seenVars>>

\* rename replaces a directory that is empty and fails on one that is not.
RenameDir(p) ==
    /\ at[p] = "rename"
    /\ job[p].dir = Renamed(p) \/ FilesIn(Renamed(p)) = {}
    /\ IF job[p].dir \in dirs /\ job[p].dir # Renamed(p)
       THEN /\ MoveDir(job[p].dir, Renamed(p))
            /\ at' = [at EXCEPT ![p] = "commit"]
            /\ job' = [job EXCEPT ![p].made = TRUE]
       ELSE Goto(p, "commit") /\ UNCHANGED <<dirs, files>>
    /\ UNCHANGED <<docVars, bin, writers, owner, requests, txVars, seenVars>>

RenameFails(p) ==
    /\ at[p] = "rename"
    /\ job[p].dir \in dirs /\ job[p].dir # Renamed(p) /\ FilesIn(Renamed(p)) # {}
    /\ strayed' = strayed \cup {job[p].doc}
    /\ TxAbort(p) /\ Leave(p)
    /\ UNCHANGED <<docVars, diskVars, owner, requests, offered, deleted, shared>>

RemoveDoc(p, d) ==
    /\ Exists(d)
    /\ Begin(p, [Idle EXCEPT !.op = "remove", !.doc = d], "delete")
    /\ UNCHANGED <<docVars, diskVars, owner, txVars, offered, deleted>>

DeleteDoc(p) ==
    /\ at[p] = "delete"
    /\ Exists(job[p].doc)
    /\ SessionWrite(p, job[p].doc)
    /\ Goto(p, IF job[p].doc = Car THEN "controllers" ELSE "rmdir")
    /\ UNCHANGED <<docVars, diskVars, owner, requests, seenVars>>

\* The controllers that name the car are deleted without the session.
DeleteControllers(p) ==
    LET named == {d \in Controllers : Exists(d) /\ "car" \notin place[d]} IN
    /\ at[p] = "controllers"
    /\ PlainWriteAll(named)
    /\ removed' = removed \cup named
    /\ name' = [d \in Docs |-> IF d \in named THEN NoName ELSE name[d]]
    /\ Goto(p, "rmdir")
    /\ UNCHANGED <<place, scripts, diskVars, owner, requests, seenVars>>

\* The directory goes before the transaction commits, the one the document names.
RemoveDir(p) ==
    LET d == job[p].doc  w == IF d = Car THEN {} ELSE place[d] IN
    /\ at[p] = "rmdir"
    /\ "car" \in w \/ Exists(Car)
    /\ RemoveDirs({x \in dirs : /\ w = {} /\ x[1] = "portal" /\ x[2] = name[Car]
                                /\ d = Car \/ x[3] = name[d]})
    /\ Goto(p, "commit")
    /\ UNCHANGED <<docVars, bin, writers, owner, requests, txVars, seenVars>>

\* A controller's update wrote without the session and has nothing to commit.
CommitDoc(p) ==
    LET d == job[p].doc IN
    /\ at[p] = "commit"
    /\ IF d \in locks[p]
       THEN /\ name' = [name EXCEPT ![d] = IF job[p].op = "remove" THEN NoName ELSE job[p].name]
            /\ removed' = IF job[p].op = "remove" THEN removed \cup {d} ELSE removed
       ELSE UNCHANGED <<name, removed>>
    /\ TxCommit(p) /\ Leave(p)
    /\ UNCHANGED <<place, scripts, diskVars, owner, requests, seenVars>>

\* The catch blocks: what was made is removed, what was renamed is renamed back.
FailDoc(p) ==
    /\ at[p] \in {"save", "mkdir", "writeCar", "writeController", "delete",
                  "controllers", "rmdir", "commit"}
    /\ IF ~job[p].made THEN UNCHANGED <<dirs, files>>
       ELSE IF job[p].op = "create" THEN RemoveDirs({job[p].dir})
       ELSE IF FilesIn(job[p].dir) = {} /\ Renamed(p) \in dirs
            THEN MoveDir(Renamed(p), job[p].dir)
       ELSE UNCHANGED <<dirs, files>>
    /\ strayed' = IF job[p].made THEN strayed \cup {job[p].doc} ELSE strayed
    /\ TxAbort(p) /\ Leave(p)
    /\ UNCHANGED <<docVars, bin, writers, owner, requests, offered, deleted, shared>>

-----------------------------------------------------------------------------
(* create and replaceScript: the original is found or downloaded, compared     *)
(* with the modified file, and what differs is written as a script.            *)

Service(p) == job[p].service
OnDisk(f) == f \in Services /\ bin[f] # Absent

CreateScript(p, s, d, f, m) ==
    /\ Exists(Car) /\ Exists(d)
    /\ \A t \in scripts : t.id # s
    /\ \A x \in files : x.id # s
    /\ s \notin deleted /\ \A q \in Procs : job[q].script # s
    /\ Begin(p, [Idle EXCEPT !.op = "script", !.doc = d, !.script = s, !.service = f,
                             !.mod = m, !.dir = ScriptDir(d)],
             IF f = Upload THEN "check" ELSE "find")
    /\ UNCHANGED <<docVars, diskVars, owner, txVars, offered, deleted>>

ReplaceScript(p, d, f, m) ==
    /\ Exists(Car) /\ Exists(d)
    /\ Begin(p, [Idle EXCEPT !.op = "replace", !.doc = d, !.service = f, !.mod = m,
                             !.dir = ScriptDir(d)],
             "match")
    /\ UNCHANGED <<docVars, diskVars, owner, txVars, offered, deleted>>

\* The script to replace is the first file whose name has the name it was given.
MatchFile(p) ==
    /\ at[p] = "match"
    /\ \E x \in FilesIn(job[p].dir) :
          /\ job' = [job EXCEPT ![p].script = x.id]
          /\ shared' = IF \E q \in Procs \ {p} : job[q].script = x.id
                       THEN shared \cup {x.id} ELSE shared
    /\ at' = [at EXCEPT ![p] = "find"]
    /\ UNCHANGED <<docVars, diskVars, owner, requests, txVars, offered, deleted, strayed>>

\* A file that is there is taken for the original.
FindOriginal(p) ==
    /\ at[p] = "find"
    /\ Goto(p, IF OnDisk(Service(p)) THEN "check" ELSE "download")
    /\ UNCHANGED <<docVars, diskVars, owner, requests, txVars, seenVars>>

\* What storage answered is written, from an empty file on.
OpenOriginal(p) ==
    /\ at[p] = "download"
    /\ bin' = [bin EXCEPT ![Service(p)] = {}]
    /\ writers' = writers \cup {p}
    /\ Goto(p, "store")
    /\ UNCHANGED <<docVars, dirs, files, owner, requests, txVars, seenVars>>

\* A file removed while it is written takes what is written with it.
StoreBlock(p) ==
    LET n == job[p].stored + 1 IN
    /\ at[p] = "store"
    /\ bin' = IF p \in writers THEN [bin EXCEPT ![Service(p)] = @ \cup {n}] ELSE bin
    /\ job' = [job EXCEPT ![p].stored = n]
    /\ IF n \in Whole /\ n + 1 \in Whole THEN UNCHANGED <<at, writers>>
       ELSE at' = [at EXCEPT ![p] = "check"] /\ writers' = writers \ {p}
    /\ UNCHANGED <<docVars, dirs, files, owner, requests, txVars, seenVars>>

\* An original sent with the request is taken to have the size of the other file.
SameSize(p) ==
    \/ Service(p) = Upload
    \/ OnDisk(Service(p)) /\ Size(bin[Service(p)]) = job[p].mod

\* Variant: the sizes are not compared.
CheckSize_Any(p) ==
    /\ at[p] = "check"
    /\ Service(p) = Upload \/ OnDisk(Service(p))
    /\ dirs' = IF job[p].op = "script" THEN dirs \cup {job[p].dir} ELSE dirs
    /\ Goto(p, "read")
    /\ UNCHANGED <<docVars, files, bin, writers, owner, requests, txVars, seenVars>>

\* create makes the directory if it is not there.
CheckSize(p) ==
    /\ at[p] = "check"
    /\ SameSize(p)
    /\ dirs' = IF job[p].op = "script" THEN dirs \cup {job[p].dir} ELSE dirs
    /\ Goto(p, "read")
    /\ UNCHANGED <<docVars, files, bin, writers, owner, requests, txVars, seenVars>>

ReadOriginal(p) ==
    /\ at[p] = "read"
    /\ Service(p) = Upload \/ OnDisk(Service(p))
    /\ job' = [job EXCEPT ![p].orig =
                  IF Service(p) = Upload THEN 1..job[p].mod ELSE bin[Service(p)]]
    /\ at' = [at EXCEPT ![p] = "write"]
    /\ UNCHANGED <<docVars, diskVars, owner, requests, txVars, seenVars>>

\* Opened for writing a script is empty, and no JSON.
OpenScript(p) ==
    LET others == {x \in files : x.dir # job[p].dir \/ x.id # job[p].script} IN
    /\ at[p] = "write"
    /\ job[p].dir \in dirs
    /\ files' = others \cup {[dir |-> job[p].dir, id |-> job[p].script, valid |-> FALSE,
                              orig |-> job[p].orig, mod |-> job[p].mod]}
    /\ Goto(p, "writing")
    /\ UNCHANGED <<docVars, dirs, bin, writers, owner, requests, txVars, seenVars>>

\* The open file goes where its directory is renamed to.
WriteScript(p) ==
    /\ at[p] = "writing"
    /\ files' = {IF x.id = job[p].script /\ x.orig = job[p].orig /\ x.mod = job[p].mod
                 THEN [x EXCEPT !.valid = TRUE] ELSE x : x \in files}
    /\ IF job[p].op = "script" THEN Goto(p, "insert") ELSE Leave(p)
    /\ UNCHANGED <<docVars, dirs, bin, writers, owner, requests, txVars, seenVars>>

\* Variant: who writes the file goes on writing where others look.
RemoveOriginal_KeepsWriters(p) ==
    IF job[p].op = "script" /\ Service(p) \in Services
    THEN /\ bin' = [bin EXCEPT ![Service(p)] = Absent]
         /\ writers' = writers \ {p}
    ELSE UNCHANGED bin /\ writers' = writers \ {p}

\* The finally block of create: whatever stands at the path is removed.
RemoveOriginal(p) ==
    IF job[p].op = "script" /\ Service(p) \in Services
    THEN /\ bin' = [bin EXCEPT ![Service(p)] = Absent]
         /\ writers' = {q \in writers : Service(q) # Service(p)}
    ELSE UNCHANGED bin /\ writers' = writers \ {p}

InsertScript(p) ==
    /\ at[p] = "insert"
    /\ scripts' = scripts \cup {[id |-> job[p].script, doc |-> job[p].doc]}
    /\ RemoveOriginal(p)
    /\ Leave(p)
    /\ UNCHANGED <<name, place, removed, dirs, files, owner, requests, txVars, seenVars>>

\* A download, a read or a write fails, the sizes differ, or a file is not there.
FailScript(p) ==
    /\ at[p] \in {"match", "find", "download", "store", "check", "read", "write", "insert"}
    /\ RemoveOriginal(p)
    /\ Leave(p)
    /\ UNCHANGED <<docVars, dirs, files, owner, requests, txVars, seenVars>>

-----------------------------------------------------------------------------
(* deleteScript: the document, then the file.                                  *)

DeleteScript(p, t) ==
    /\ t \in scripts
    /\ Begin(p, [Idle EXCEPT !.op = "drop", !.doc = t.doc, !.script = t.id], "drop")
    /\ UNCHANGED <<docVars, diskVars, owner, txVars, offered, deleted>>

\* The names are those of the moment; without them the path cannot be built.
DropScript(p) ==
    LET s == job[p].script  d == job[p].doc IN
    /\ at[p] = "drop"
    /\ \E t \in scripts : t.id = s
    /\ scripts' = {t \in scripts : t.id # s}
    /\ IF Exists(Car) /\ Exists(d)
       THEN /\ job' = [job EXCEPT ![p].dir = CompletePath(name[Car], name[d])]
            /\ at' = [at EXCEPT ![p] = "unlink"]
       ELSE Leave(p)
    /\ UNCHANGED <<name, place, removed, diskVars, owner, requests, txVars, seenVars>>

UnlinkScript(p) ==
    /\ at[p] = "unlink"
    /\ files' = {x \in files : x.dir # job[p].dir \/ x.id # job[p].script}
    /\ deleted' = deleted \cup {job[p].script}
    /\ Leave(p)
    /\ UNCHANGED <<docVars, dirs, bin, writers, owner, requests, txVars, offered, strayed, shared>>

NotFound(p) ==
    /\ at[p] = "drop"
    /\ \A t \in scripts : t.id # job[p].script
    /\ Leave(p)
    /\ UNCHANGED <<docVars, diskVars, owner, requests, txVars, seenVars>>

-----------------------------------------------------------------------------
(* automatisation: the scripts a customer is offered for an upload.            *)

\* A portal with aiAssist offers the super admin's scripts.
Automatisation(p, d, assist) ==
    /\ Exists(Car) /\ Exists(d)
    /\ Begin(p, [Idle EXCEPT !.op = "offer", !.doc = d,
                             !.dir = IF assist THEN <<"ai", name[Car], name[d]>> ELSE ScriptDir(d)],
             "list")
    /\ UNCHANGED <<docVars, diskVars, owner, txVars, offered, deleted>>

ListScripts(p) ==
    /\ at[p] = "list"
    /\ dirs' = dirs \cup {job[p].dir}
    /\ job' = [job EXCEPT ![p].list = {x.id : x \in FilesIn(job[p].dir)}]
    /\ at' = [at EXCEPT ![p] = "offer"]
    /\ UNCHANGED <<docVars, files, bin, writers, owner, requests, txVars, seenVars>>

\* Every byte a script compares with is one of the original and there is one: what
\* was not read when the script was made is written ?? and is equal to no byte.
MatchContent(x) == x.valid /\ 1..x.mod \subseteq x.orig

\* Of the scripts listed those that match and name a solution; all must be there.
MatchScripts(p) ==
    LET found == {x \in FilesIn(job[p].dir) : x.id \in job[p].list} IN
    /\ at[p] = "offer"
    /\ {x.id : x \in found} = job[p].list
    /\ \E O \in SUBSET {x \in found : MatchContent(x)} :
          offered' = {[script |-> x.id, orig |-> x.orig, mod |-> x.mod,
                       deleted |-> x.id \in deleted] : x \in O}
    /\ Leave(p)
    /\ UNCHANGED <<docVars, diskVars, owner, requests, txVars, deleted, strayed, shared>>

OfferFails(p) ==
    /\ at[p] \in {"list", "offer"}
    /\ Leave(p)
    /\ UNCHANGED <<docVars, diskVars, owner, requests, txVars, seenVars>>

-----------------------------------------------------------------------------

\* A restart: the disk stays as it is.
Crash ==
    /\ TxCrash
    /\ at' = [p \in Procs |-> "idle"]
    /\ job' = [p \in Procs |-> Idle]
    /\ writers' = {}
    /\ strayed' = strayed \cup {job[p].doc : p \in {q \in Procs : at[q] = "rename"}}
    /\ UNCHANGED <<docVars, dirs, files, bin, owner, requests, offered, deleted, shared>>

DocStep(p) ==
    \/ Save(p) \/ MakeDir(p) \/ WriteCar(p) \/ WriteController(p)
    \/ RenameDir(p) \/ RenameFails(p)
    \/ DeleteDoc(p) \/ DeleteControllers(p) \/ RemoveDir(p)
    \/ CommitDoc(p) \/ FailDoc(p)

ScriptStep(p) ==
    \/ MatchFile(p) \/ FindOriginal(p) \/ OpenOriginal(p) \/ StoreBlock(p)
    \/ CheckSize(p) \/ ReadOriginal(p) \/ OpenScript(p) \/ WriteScript(p)
    \/ InsertScript(p) \/ FailScript(p)
    \/ DropScript(p) \/ UnlinkScript(p) \/ NotFound(p)
    \/ ListScripts(p) \/ MatchScripts(p) \/ OfferFails(p)

Next ==
    \/ \E p \in Procs, d \in Docs :
          \/ \E n \in Names : \/ CreateDoc(p, d, n)
                             \/ \E w \in SUBSET Fields : UpdateDoc(p, d, n, w)
          \/ RemoveDoc(p, d)
    \/ \E p \in Procs, d \in Controllers, m \in Blocks :
          \/ \E s \in ScriptIds, f \in Services \cup {Upload} : CreateScript(p, s, d, f, m)
          \/ \E f \in Services : ReplaceScript(p, d, f, m)
    \/ \E p \in Procs : \E t \in scripts : DeleteScript(p, t)
    \/ \E p \in Procs, d \in Controllers, assist \in BOOLEAN : Automatisation(p, d, assist)
    \/ \E p \in Procs : DocStep(p) \/ ScriptStep(p)
    \/ Crash

Spec == Init /\ [][Next]_vars

-----------------------------------------------------------------------------

\* A script that has a document has its file in the directory its car and its
\* controller name now, through renames of the controller, its move to another car
\* and back, restarts and requests that fail.  Not so once the directory need not
\* follow: the car was renamed (update looks in a path without scripts), something was
\* removed, a rename failed or was interrupted, the super admin renamed (his tree is
\* not looked at), the controller was moved and renamed by one request (the directory
\* is looked for in the other car), it was moved to another portal, where create lets
\* its name be taken again, or it took such a name, or another handler worked on the
\* controller meanwhile.
NamedIsStored ==
    \A t \in scripts :
        t.doc \notin strayed
            => \/ \E x \in files : x.id = t.id /\ x.dir = ScriptDir(t.doc)
               \/ \E p \in Procs : /\ at[p] = "rename" /\ job[p].doc = t.doc
                                    /\ job[p].place = {}

\* A script that is offered is not one whose deletion was answered, and its original
\* was compared to the last byte of the modified file.  The first does not hold for
\* the super admin (deleteScript looks in the portals' tree) nor where the directory
\* strayed; neither holds if two handlers worked on the script, or on the original
\* (one removes or writes what the other reads).
OffersAreSound ==
    \A o \in offered :
        /\ o.deleted => owner = "super" \/ o.script \in shared \/ strayed # {}
        /\ o.orig = 1..o.mod \/ shared # {}
=============================================================================
