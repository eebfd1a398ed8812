------------------------------ MODULE Decoders ------------------------------
(***************************************************************************)
(* The tools that decode and encode a file (kess3, auto-tuner,             *)
(* auto-flasher, flex-slave) under the decoding service of a portal        *)
(* (decode-encode).  Kess3 is a remote service with file slots, tokens     *)
(* that expire and operations that are polled; the other tools answer one  *)
(* request.  The remote services may answer anything at any time: none of  *)
(* their refusals is bounded.                                              *)
(***************************************************************************)
EXTENDS Naturals, FiniteSets

CONSTANTS
    Procs,      \* requests that may be handled at once
    Docs,       \* decodings; each is new when its decoding starts
    NoDoc,      \* target of an idle handler
    Timeout     \* polls until an operation has timed out

\* Requests have names of their own: no upload is called as Kess3 calls its files.
ASSUME DecodersAssumption ==
    NoDoc \notin Docs /\ Timeout \in Nat /\ "remote" \notin Procs

VARIABLES
    doc,            \* the saved decodings
    objects,        \* objects in the store: a decoding and a name
    partial,        \* objects stored from a file that was still being written
    slot,           \* Kess3: the slot of a decoding
    token,          \* Kess3: is the token in the portal's credentials good
    pc, op, target, tool,  \* handlers
    held,           \* handlers whose token, read at the start, is good
    knows,          \* decoding handlers that know their slot
    polls,          \* polls of a handler's operation
    unreturned      \* observation: slots left open by a failure named below

handlerVars == <<pc, op, target, tool, held, knows, polls>>
decodersVars == <<doc, objects, partial, slot, token, handlerVars, unreturned>>

Tools == {"KESS3", "AUTO_TUNER", "AUTO_FLASHER", "FLEX_SLAVE"}

\* Kess3 names an encoded file itself; the other tools name it after the
\* uploaded file, whose name is the handler's own.
EncodedNames == Procs \cup {"remote"}
Names == {"original", "decoded"} \cup EncodedNames

NoDecoding == [tool |-> "none", named |-> {}]

Points == {"idle", "upload", "poll", "download", "close", "giveBack", "convert",
           "store", "save", "reopen", "modify", "encode"}

DecodersTypeOK ==
    /\ doc \in [Docs -> {NoDecoding} \cup [tool : Tools, named : SUBSET Names]]
    /\ objects \subseteq Docs \X Names
    /\ partial \subseteq objects \cap (Docs \X {"remote"})
    /\ slot \in [Docs -> {"none", "open", "closed"}]
    /\ token \in BOOLEAN
    /\ pc \in [Procs -> Points]
    /\ op \in [Procs -> {"none", "decode", "encode"}]
    /\ target \in [Procs -> Docs \cup {NoDoc}]
    /\ tool \in [Procs -> Tools \cup {"none"}]
    /\ held \subseteq Procs /\ knows \subseteq Procs
    /\ polls \in [Procs -> 0 .. Timeout]
    /\ unreturned \subseteq Docs
    /\ \A p \in Procs : pc[p] # "idle" => target[p] \in Docs /\ tool[p] \in Tools

DecodersInit ==
    /\ doc = [d \in Docs |-> NoDecoding]
    /\ objects = {} /\ partial = {}
    /\ slot = [d \in Docs |-> "none"]
    /\ token = TRUE
    /\ pc = [p \in Procs |-> "idle"]
    /\ op = [p \in Procs |-> "none"]
    /\ target = [p \in Procs |-> NoDoc]
    /\ tool = [p \in Procs |-> "none"]
    /\ held = {} /\ knows = {}
    /\ polls = [p \in Procs |-> 0]
    /\ unreturned = {}

-----------------------------------------------------------------------------
(* How a handler moves on. *)

Take(p, o, d, t, s) ==
    /\ pc[p] = "idle"
    /\ pc' = [pc EXCEPT ![p] = s]
    /\ op' = [op EXCEPT ![p] = o]
    /\ target' = [target EXCEPT ![p] = d]
    /\ tool' = [tool EXCEPT ![p] = t]
    /\ held' = IF token THEN held \cup {p} ELSE held
    /\ UNCHANGED <<knows, polls>>

Goto(p, s) ==
    /\ pc' = [pc EXCEPT ![p] = s]
    /\ polls' = [polls EXCEPT ![p] = 0]
    /\ UNCHANGED <<op, target, tool, held, knows>>

Leave(p) ==
    /\ pc' = [pc EXCEPT ![p] = "idle"]
    /\ op' = [op EXCEPT ![p] = "none"]
    /\ target' = [target EXCEPT ![p] = NoDoc]
    /\ tool' = [tool EXCEPT ![p] = "none"]
    /\ held' = held \ {p}
    /\ knows' = knows \ {p}
    /\ polls' = [polls EXCEPT ![p] = 0]

\* Every request of Kess3 goes through apiService: one that is refused because
\* the token is no longer good is repeated once with a new token, which is saved
\* for later handlers; this handler keeps the token it read.
Answered(p) == token' = (token \/ p \notin held)

\* The last answer is an error.  A new token may have been acquired all the same.
Refused(p) == token' \in IF p \in held THEN {token} ELSE {token, TRUE}

\* What is open when a handler gives up on its slot, it leaves open.
LeaveOpen(d) ==
    unreturned' = IF slot'[d] = "open" THEN unreturned \cup {d} ELSE unreturned

-----------------------------------------------------------------------------
(* decodeSlave. *)

\* A new decoding.  Kess3 is used with a token read from the credentials.
DecodeSlave(p, d, t) ==
    /\ doc[d] = NoDecoding /\ slot[d] = "none"
    /\ ({d} \X Names) \cap objects = {}
    /\ \A q \in Procs : target[q] # d
    /\ Take(p, "decode", d, t, IF t = "KESS3" THEN "upload" ELSE "convert")
    /\ UNCHANGED <<doc, objects, partial, slot, token, unreturned>>

\* The file is uploaded to a slot.  Without an answer the handler knows no slot,
\* though the service may have opened one.
UploadEncodedFile(p) ==
    /\ pc[p] = "upload"
    /\ \/ /\ Answered(p)
          /\ slot' = [slot EXCEPT ![target[p]] = "open"]
          /\ pc' = [pc EXCEPT ![p] = "poll"]
          /\ knows' = knows \cup {p}
          /\ UNCHANGED <<op, target, tool, held, polls, unreturned>>
       \/ /\ Refused(p)
          /\ \E s \in {"none", "open"} : slot' = [slot EXCEPT ![target[p]] = s]
          /\ LeaveOpen(target[p])
          /\ Leave(p)
    /\ UNCHANGED <<doc, objects, partial>>

\* Variant: a decoding that fails just ends, too.
Abandon_NoClose(p) ==
    /\ UNCHANGED slot
    /\ Leave(p)
    /\ IF op[p] = "decode" THEN UNCHANGED unreturned ELSE LeaveOpen(target[p])

\* A decoding that fails closes the slot it knows (the catch of decodeFile); an
\* encoding that fails just ends, and leaves open what it had opened.
Abandon(p) ==
    /\ UNCHANGED slot
    /\ IF op[p] = "decode" /\ p \in knows
       THEN Goto(p, "giveBack") /\ UNCHANGED unreturned
       ELSE Leave(p) /\ LeaveOpen(target[p])

\* Variant: an operation is asked for until it is done.
PollAgain_Forever(p) ==
    /\ polls' = [polls EXCEPT ![p] = IF @ < Timeout THEN @ + 1 ELSE @]
    /\ UNCHANGED <<pc, op, target, tool, held, knows, slot, unreturned>>

\* Variant: the last poll is not the one that reaches the limit.
PollAgain_OffByOne(p) ==
    IF polls[p] > Timeout THEN Abandon(p)
    ELSE /\ polls' = [polls EXCEPT ![p] = @ + 1]
         /\ UNCHANGED <<pc, op, target, tool, held, knows, slot, unreturned>>

\* One more poll, unless the time is over.
PollAgain(p) ==
    IF polls[p] = Timeout THEN Abandon(p)
    ELSE /\ polls' = [polls EXCEPT ![p] = @ + 1]
         /\ UNCHANGED <<pc, op, target, tool, held, knows, slot, unreturned>>

\* The operation is asked for: it is done, has failed, still runs, or the
\* question fails.
ResolveAsyncOperation(p) ==
    /\ pc[p] = "poll"
    /\ \/ /\ Answered(p)
          /\ \/ /\ Goto(p, IF op[p] = "decode" THEN "download" ELSE "close")
                /\ UNCHANGED <<slot, unreturned>>
             \/ Abandon(p)
             \/ PollAgain(p)
       \/ Refused(p) /\ PollAgain(p)
    /\ UNCHANGED <<doc, objects, partial>>

\* The file is fetched: before the slot is closed when decoding, after that when
\* encoding.
Download(p) ==
    /\ pc[p] = "download"
    /\ \/ /\ Answered(p)
          /\ Goto(p, IF op[p] = "decode" THEN "close" ELSE "store")
          /\ UNCHANGED <<slot, unreturned>>
       \/ Refused(p) /\ Abandon(p)
    /\ UNCHANGED <<doc, objects, partial>>

\* The slot is closed.  A refused request may have closed it.
Closed(p) ==
    /\ slot' = [slot EXCEPT ![target[p]] = "closed"]
    /\ unreturned' = unreturned \ {target[p]}

CloseFileSlot(p) ==
    /\ pc[p] = "close"
    /\ \/ /\ Answered(p) /\ Closed(p)
          /\ Goto(p, IF op[p] = "decode" THEN "store" ELSE "download")
       \/ Refused(p) /\ Abandon(p)
    /\ UNCHANGED <<doc, objects, partial>>

\* The catch of decodeFile closes the slot; the error is passed on in any case.
GiveBack(p) ==
    /\ pc[p] = "giveBack"
    /\ \/ Answered(p) /\ Closed(p)
       \/ Refused(p) /\ UNCHANGED slot /\ LeaveOpen(target[p])
    /\ Leave(p)
    /\ UNCHANGED <<doc, objects, partial>>

-----------------------------------------------------------------------------
(* encodeMod: the modified file of a saved decoding. *)

\* The tool that decoded the file encodes it.
EncodeModifiedFile(t) == IF t = "KESS3" THEN "reopen" ELSE "convert"

EncodeMod(p, d) ==
    /\ doc[d] # NoDecoding
    /\ Take(p, "encode", d, doc[d].tool, EncodeModifiedFile(doc[d].tool))
    /\ UNCHANGED <<doc, objects, partial, slot, token, unreturned>>

ReOpenFileSlot(p) ==
    /\ pc[p] = "reopen"
    /\ \/ /\ Answered(p)
          /\ slot' = [slot EXCEPT ![target[p]] = "open"]
          /\ Goto(p, "modify")
          /\ UNCHANGED unreturned
       \/ /\ Refused(p)
          /\ \E s \in {slot[target[p]], "open"} : slot' = [slot EXCEPT ![target[p]] = s]
          /\ LeaveOpen(target[p])
          /\ Leave(p)
    /\ UNCHANGED <<doc, objects, partial>>

\* A closed slot takes no file.
UploadModifiedFile(p) ==
    /\ pc[p] = "modify"
    /\ \/ /\ slot[target[p]] = "open"
          /\ Answered(p)
          /\ Goto(p, "encode")
          /\ UNCHANGED <<slot, unreturned>>
       \/ Refused(p) /\ Abandon(p)
    /\ UNCHANGED <<doc, objects, partial>>

\* The encoding is asked for in the decoding's mode; for a mode that is neither
\* OBD nor BootBench nothing is asked, no file is returned and the caller fails.
StartEncoding(p) ==
    /\ pc[p] = "encode"
    /\ \/ Answered(p) /\ Goto(p, "poll") /\ UNCHANGED <<slot, unreturned>>
       \/ Refused(p) /\ Abandon(p)
    /\ UNCHANGED <<doc, objects, partial>>

\* The other tools answer one request; the file is checked, unpacked and written
\* before the handler goes on, and what a failure leaves of it is removed.
AutoTuner(p) ==
    /\ pc[p] = "convert" /\ tool[p] = "AUTO_TUNER"
    /\ Goto(p, "store") \/ Leave(p)
    /\ UNCHANGED <<doc, objects, partial, slot, token, unreturned>>

FlexSlave(p) ==
    /\ pc[p] = "convert" /\ tool[p] = "FLEX_SLAVE"
    /\ Goto(p, "store") \/ Leave(p)
    /\ UNCHANGED <<doc, objects, partial, slot, token, unreturned>>

\* Its apiService reads the section autoFlasher of the credentials and then asks
\* for the section autoTuner, which is not among what was read: every request
\* fails.  decode swallows the error, and its caller fails on the missing result.
AutoFlasher(p) ==
    /\ pc[p] = "convert" /\ tool[p] = "AUTO_FLASHER"
    /\ Leave(p)
    /\ UNCHANGED <<doc, objects, partial, slot, token, unreturned>>

-----------------------------------------------------------------------------
(* What was made is stored, then named in the document.  Nothing that was      *)
(* stored is deleted when a later step fails: decodeSlave keeps no keys, and   *)
(* encodeMod deletes under a key with the directory twice in it.               *)

EncodedName(p) == IF tool[p] = "KESS3" THEN "remote" ELSE p

MadeNames(p) ==
    IF op[p] = "decode" THEN {"original", "decoded"} ELSE {EncodedName(p)}

\* Variant: the uploads are started and not awaited.
Store_NotAwaited(p) ==
    /\ pc[p] = "store"
    /\ \E some \in SUBSET MadeNames(p) :
          objects' = objects \cup ({target[p]} \X some)
    /\ Goto(p, "save")
    /\ UNCHANGED <<doc, partial, slot, token, unreturned>>

\* Both files of a decoding are uploaded at once, and one may fail.  Kess3's
\* encoded file is written without being awaited: what is uploaded may be a part.
Store(p) ==
    /\ pc[p] = "store"
    /\ \/ /\ objects' = objects \cup ({target[p]} \X MadeNames(p))
          /\ \/ partial' = partial \ ({target[p]} \X MadeNames(p))
             \/ /\ EncodedName(p) = "remote" /\ op[p] = "encode"
                /\ partial' = partial \cup {<<target[p], "remote">>}
          /\ Goto(p, "save")
       \/ /\ \E n \in MadeNames(p) :
                objects' \in {objects, objects \cup {<<target[p], n>>}}
          /\ op[p] = "encode" => objects' = objects
          /\ Leave(p)
          /\ UNCHANGED partial
    /\ UNCHANGED <<doc, slot, token, unreturned>>

Save(p) ==
    /\ pc[p] = "save"
    /\ \/ doc' = [doc EXCEPT ![target[p]] =
                     [tool |-> tool[p],
                      named |-> (@.named \ EncodedNames) \cup MadeNames(p)]]
       \/ UNCHANGED doc
    /\ Leave(p)
    /\ UNCHANGED <<objects, partial, slot, token, unreturned>>

-----------------------------------------------------------------------------
(* The world around. *)

\* The service no longer takes the tokens it gave.
TokenExpires ==
    /\ token' = FALSE /\ held' = {}
    /\ UNCHANGED <<doc, objects, partial, slot, pc, op, target, tool, knows, polls, unreturned>>

\* The portal saves its credentials again: the section is replaced, and the
\* token in it is gone.
UpdateCredential ==
    /\ token' = FALSE
    /\ UNCHANGED <<doc, objects, partial, slot, handlerVars, unreturned>>

ServerRestarts ==
    /\ unreturned' = unreturned \cup
          {d \in Docs : slot[d] = "open" /\ \E p \in Procs : target[p] = d}
    /\ pc' = [p \in Procs |-> "idle"]
    /\ op' = [p \in Procs |-> "none"]
    /\ target' = [p \in Procs |-> NoDoc]
    /\ tool' = [p \in Procs |-> "none"]
    /\ held' = {} /\ knows' = {}
    /\ polls' = [p \in Procs |-> 0]
    /\ UNCHANGED <<doc, objects, partial, slot, token>>

Step(p) ==
    \/ UploadEncodedFile(p) \/ ResolveAsyncOperation(p) \/ Download(p)
    \/ CloseFileSlot(p) \/ GiveBack(p)
    \/ ReOpenFileSlot(p) \/ UploadModifiedFile(p) \/ StartEncoding(p)
    \/ AutoTuner(p) \/ FlexSlave(p) \/ AutoFlasher(p)
    \/ Store(p) \/ Save(p)

DecodersNext ==
    \/ \E p \in Procs : Step(p)
    \/ \E p \in Procs, d \in Docs, t \in Tools : DecodeSlave(p, d, t)
    \/ \E p \in Procs, d \in Docs : EncodeMod(p, d)
    \/ TokenExpires \/ UpdateCredential
    \/ ServerRestarts

\* A handler goes on: every request is answered or fails.
DecodersSpec ==
    DecodersInit /\ [][DecodersNext]_decodersVars /\ \A p \in Procs : WF_decodersVars(Step(p))

-----------------------------------------------------------------------------

\* Slots are few: one that is open while no handler works on its decoding was
\* left by a request of the service that failed, by a restart or by an encoding
\* that failed, and by nothing since; a decoding, timed out ones included, and
\* an encoding that goes well, among concurrent ones of the same file, give the
\* slot back (decodeFile and encodeFile, kess3.service.ts).
SlotsReturned ==
    \A d \in Docs :
        slot[d] = "open" /\ (\A p \in Procs : target[p] # d) => d \in unreturned

\* What a saved decoding names is in the store, and it was stored whole, unless
\* it is an encoded file of Kess3, which is uploaded while it is being written
\* (decodeSlave, encodeMod and downloadEncodeFile).
NamedIsStored ==
    \A d \in Docs : \A n \in doc[d].named :
        /\ <<d, n>> \in objects
        /\ <<d, n>> \in partial => doc[d].tool = "KESS3" /\ n \in EncodedNames

\* However the remote services answer, every decoding and every encoding comes
\* to an end: polling an operation that is never done, or whose state cannot be
\* asked for, times out (resolveAsyncOperation).
WorkEnds == \A p \in Procs : pc[p] # "idle" ~> pc[p] = "idle"
=============================================================================
