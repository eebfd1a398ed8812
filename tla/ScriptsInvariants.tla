------------------------- MODULE ScriptsInvariants -------------------------
(***************************************************************************)
(* The inductive invariant behind the theorems about Scripts: what a       *)
(* handler holds at each of its steps, who makes and drops a script, what  *)
(* is on the disk of an original, where the files of a script are, and     *)
(* what is left of one that was deleted.  Each part rests on the ones      *)
(* before.                                                                 *)
(***************************************************************************)
EXTENDS Scripts

(* Types. *)

DocOps == {"create", "update", "remove"}
FileOps == {"script", "replace"}
WorkOps == DocOps \cup FileOps \cup {"none", "drop", "offer"}

WorkSteps(o) ==
    CASE o = "none" -> {"idle"}
      [] o = "create" -> {"save", "mkdir", "commit"}
      [] o = "update" -> {"writeCar", "writeController", "rename", "commit"}
      [] o = "remove" -> {"delete", "controllers", "rmdir", "commit"}
      [] o = "script" -> {"find", "download", "store", "check", "read",
                           "write", "writing", "insert"}
      [] o = "replace" -> {"match", "find", "download", "store", "check", "read",
                            "write", "writing"}
      [] o = "drop" -> {"drop", "unlink"}
      [] o = "offer" -> {"list", "offer"}

Steps ==
    {"idle", "save", "mkdir", "writeCar", "writeController", "rename", "delete", "controllers",
     "rmdir", "commit", "match", "find", "download", "store", "check", "read", "write",
     "writing", "insert", "drop", "unlink", "list", "offer"}

Jobs == [op : WorkOps,
         doc : Docs \cup {NoDoc}, name : Names \cup {NoName}, dir : Dirs \cup {NoDir},
         made : BOOLEAN, script : ScriptIds \cup {NoScript},
         service : Services \cup {Upload, NoService}, mod : 0..2,
         orig : SUBSET Blocks, stored : 0..2, list : SUBSET ScriptIds, place : SUBSET Fields]

\* What the job of a handler holds at its step.
JobOK(p) ==
    LET j == job[p] IN
    /\ at[p] \in WorkSteps(j.op)
    /\ j.op = "none" => j.doc = NoDoc
    /\ j.op \in DocOps => j.doc \in Docs
    /\ j.op \notin DocOps \cup {"none"} => j.doc \in Controllers
    /\ (j.name \in Names) <=> j.op \in {"create", "update"}
    /\ j.op = "create" => (j.dir \in Dirs <=> j.doc # Car)
    /\ j.op = "update" => j.dir \in Dirs
    /\ j.op # "update" \/ j.doc = Car => j.place = {}
    /\ j.op = "remove" => ~j.made
    /\ j.op \in FileOps \cup {"offer"} => j.dir \in Dirs
    /\ at[p] = "unlink" => j.dir \in Dirs
    /\ j.op \in {"none", "remove"} \/ at[p] = "drop" => j.dir = NoDir
    /\ j.op = "create" /\ j.doc # Car => j.dir[1] = "portal" /\ j.dir[3] = j.name
    /\ at[p] = "writeController" => j.doc \in Controllers
    /\ at[p] = "rename" => j.doc \in Controllers
    /\ at[p] = "controllers" => j.doc = Car
    /\ j.op \in {"script", "drop"} => j.script \in ScriptIds
    /\ j.op = "replace" => (j.script \in ScriptIds <=> at[p] # "match")
    /\ j.op \in DocOps \cup {"none", "offer"} => j.script = NoScript
    /\ j.op \in FileOps <=> j.mod # 0
    /\ j.op = "script" => j.service # NoService
    /\ j.op = "replace" => j.service \in Services
    /\ j.op \notin FileOps => j.service = NoService
    /\ at[p] \in {"find", "download", "store"} => j.service \in Services
    /\ at[p] \in {"match", "find", "download"} => j.stored = 0
    /\ at[p] = "store" => j.stored \in 0..1

WorkInv ==
    /\ TypeOK
    /\ at \in [Procs -> Steps]
    /\ job \in [Procs -> Jobs]
    /\ \A p \in Procs : JobOK(p)
    /\ \A p \in writers : at[p] = "store"
    /\ strayed \subseteq Controllers \cup {Car}

-----------------------------------------------------------------------------
(* Scripts in the making. *)

BeforeWriting == {"find", "download", "store", "check", "read", "write"}

\* A script is made by one handler, and has no document before it has a file.
MakesOne(p) ==
    job[p].op = "script" =>
        /\ \A t \in scripts : t.id # job[p].script
        /\ \A q \in Procs \ {p} : job[q].script = job[p].script
              => job[q].op = "replace" /\ at[p] \notin BeforeWriting
        /\ at[p] \in BeforeWriting => \A x \in files : x.id # job[p].script

\* A script whose file is about to go has no document.
DropsOne(p) == at[p] = "unlink" => \A t \in scripts : t.id # job[p].script

MakingInv == \A p \in Procs : MakesOne(p) /\ DropsOne(p)

-----------------------------------------------------------------------------
(* The originals. *)

\* Two handlers at one script or one original have been noticed.
SharedInv ==
    \A p, q \in Procs :
        p # q => \A r \in ScriptIds \cup Services :
                    /\ r \in {job[p].script, job[p].service}
                    /\ r \in {job[q].script, job[q].service}
                    => r \in shared

\* Alone at its original a handler finds it whole or not at all.
OriginalOf(p) ==
    /\ at[p] = "store" => p \in writers /\ bin[Service(p)] = 1..job[p].stored
    /\ at[p] = "read" /\ Service(p) # Upload => bin[Service(p)] = 1..job[p].mod
    /\ at[p] \in {"write", "writing"} => job[p].orig = 1..job[p].mod

OrigInv ==
    shared = {} =>
        /\ \A x \in files : x.orig = 1..x.mod
        /\ \A f \in Services : bin[f] = Absent \/ \E n \in 0..2 : bin[f] = 1..n
        /\ \A p \in Procs : OriginalOf(p)

-----------------------------------------------------------------------------
(* The directories. *)

\* A handler that changes a controller that is followed is alone at it and at the car.
AloneInv ==
    \A d \in Controllers \ strayed : \A p, q \in Procs :
        p # q /\ Meets(job[p], d) /\ Meets(job[q], d) => ~Changes(job[p])

\* d has, had or will have the name n in this handler.
Claims(d, n) ==
    \/ name[d] = n
    \/ \E p \in Procs : job[p].doc = d /\ n \in Uses(job[p])

\* The names that a handler may look for a directory by, until it unlinks what it dropped.
Seeks(j) == IF j.op = "drop" THEN {} ELSE Uses(j)

\* No other controller of the portal has the names of one that is followed, and nobody
\* works with them for another.
NamesInv ==
    \A d \in Controllers \ strayed : \A n \in Names :
        Claims(d, n) =>
            /\ \A e \in Controllers \ {d} : "portal" \in place[e] \/ name[e] # n
            /\ \A q \in Procs : job[q].doc # d => n \notin Seeks(job[q])

\* A controller that is followed is one of a car that does not change.
CarInv ==
    \A d \in Controllers \ strayed :
        /\ Exists(d) => Exists(Car)
        /\ \A p \in Procs : job[p].doc = Car => job[p].op = "create" /\ ~Exists(Car)

\* What a handler knows of a controller that is followed.
Knows(p) ==
    LET j == job[p]  d == job[p].doc IN
    d \in Controllers \ strayed =>
        /\ j.op # "remove"
        /\ Exists(Car)
        /\ Exists(d) <=> j.op # "create"
        /\ j.op = "update" =>
              /\ owner # "super"
              /\ j.place = {} => j.dir = CompletePath(name[Car], j.dir[3])
              /\ j.place # {} => j.dir = PathElsewhere(j.name)
              /\ name[d] = IF at[p] = "writeController" THEN j.dir[3] ELSE j.name
        /\ j.op \in FileOps => j.dir = ScriptDir(d)
        /\ j.op = "offer" => j.dir[3] = name[d]
        /\ at[p] = "unlink" => j.dir = CompletePath(name[Car], name[d])

\* The files of a script are all in one directory.
Placed(s, dir) ==
    /\ \E x \in files : x.id = s
    /\ \A x \in files : x.id = s => x.dir = dir

\* p is about to rename the directory of d in this car.
Renames(p, d) == at[p] = "rename" /\ job[p].doc = d /\ job[p].place = {}

\* They are where the controller is, or where it is renamed from.
PlacesInv ==
    /\ \A t \in scripts : t.doc \notin strayed =>
          /\ Exists(t.doc)
          /\ \/ Placed(t.id, ScriptDir(t.doc))
             \/ \E p \in Procs : Renames(p, t.doc)
          /\ \A p \in Procs : Renames(p, t.doc) => Placed(t.id, job[p].dir)
    /\ \A p \in Procs :
          job[p].op = "script" /\ at[p] \notin BeforeWriting /\ job[p].doc \notin strayed
              => Placed(job[p].script, job[p].dir)

\* A script that is replaced is one of the controller whose directory was searched.
ReplacesInv ==
    \A q \in Procs : job[q].op = "replace" =>
        /\ \A t \in scripts : t.id = job[q].script /\ t.doc \notin strayed
              => job[q].doc = t.doc
        /\ \A p \in Procs :
              /\ job[p].op = "script" /\ job[p].script = job[q].script
              /\ job[p].doc \notin strayed
              => job[q].doc = job[p].doc

DirInv ==
    /\ AloneInv /\ NamesInv /\ CarInv
    /\ \A p \in Procs : Knows(p)
    /\ PlacesInv /\ ReplacesInv

-----------------------------------------------------------------------------
(* Deleted scripts. *)

\* Where a script that was deleted need not be gone.
Excused(s) == owner = "super" \/ s \in shared \/ strayed # {}

DeletedInv ==
    /\ deleted \subseteq ScriptIds
    /\ \A p \in Procs : \A t \in scripts :
          job[p].op = "drop" /\ t.id = job[p].script => t.doc = job[p].doc
    /\ \A x \in files : x.id \in deleted => Excused(x.id)
    /\ \A p \in Procs :
          job[p].op \in FileOps /\ job[p].script \in deleted => Excused(job[p].script)
    /\ \A p \in Procs : at[p] = "unlink" =>
          \/ Excused(job[p].script)
          \/ \A x \in files : x.id = job[p].script => x.dir = job[p].dir

ScriptsInv == WorkInv /\ MakingInv /\ SharedInv /\ OrigInv /\ DirInv /\ DeletedInv
=============================================================================
