------------------------------ MODULE VaultSync ------------------------------
(***************************************************************************)
(* Several clients that have one vault open, and the server they save it   *)
(* to: the autosave queue (frontend/src/lib/vaultSave.ts), opening and     *)
(* reloading the vault (App.tsx), rolling it back (HistoryModal.tsx).      *)
(*                                                                         *)
(* A vault is the set of edits it contains.  The server is VersionedVault, *)
(* one request at a time; requests and answers travel separately and each  *)
(* can be lost.  A client runs one callback at a time: its actions are the *)
(* stretches of code between two awaits.                                   *)
(***************************************************************************)
EXTENDS Integers, Sequences, FiniteSets

CONSTANTS
  Clients,      \* browser tabs, each with its own queue
  Nobody,       \* stands for a client that no longer waits for an answer
  Names,        \* names of rejected uploads on the server
  MaxEdits,     \* bound: edits made in all
  MaxVersion,   \* bound: no rollback once this many versions exist
  MaxFaults,    \* bound: requests, answers and exports that fail
  MaxCloses     \* bound: vaults closed, rolled back and loads given up

ASSUME SyncAssumption ==
  /\ Nobody \notin Clients
  /\ MaxEdits \in Nat
  /\ MaxVersion \in Nat \ {0}
  /\ MaxFaults \in Nat
  /\ MaxCloses \in Nat

VARIABLES
  versions, kept, request,  \* the server: VersionedVault's variables
  caller,   \* who sent the request being served
  wire,     \* requests on their way to the server
  answers,  \* answers on their way back
  queue,    \* client -> the open vault and its VaultSaveQueue, or Closed
  stale,    \* client -> discarded queues whose save() is still suspended
  loading,  \* client -> the initVault under way
  draft,    \* client -> the recovery copy of an automatic lock
  \* What happened so far; the program keeps none of it.
  made,     \* edits made
  late,     \* edits made, or recovered from a copy, while a rollback or the
            \* reload after it was under way
  givenUp,  \* edits the user agreed to lose
  gone,     \* edits discarded before any request carried them
  faults,   \* how often something failed, up to MaxFaults
  closes    \* how often something was closed, up to MaxCloses

server == <<versions, kept, request, caller>>
network == <<wire, answers>>
client == <<queue, stale, loading, draft>>
past == <<made, late, givenUp, gone>>
bounds == <<faults, closes>>
vars == <<server, network, client, past, bounds>>

Edits == 1..MaxEdits
Vaults == SUBSET Edits

Server == INSTANCE VersionedVault WITH Contents <- Vaults

Closed == [open |-> FALSE]

\* savedRevision = revision means that nothing is unsaved.  step is where
\* save() is suspended, captured the revision it is saving.
Queues ==
  [open : {TRUE}, edits : Vaults, version : Nat \ {0},
   state : {"saved", "saving", "error"}, revision : Nat, savedRevision : Nat,
   timer : BOOLEAN, step : {"idle", "export", "upload"}, captured : Nat]

NoLoad == [step |-> "none"]
Loads == [step : {"metadata", "creating", "download"}, version : Nat]

NoDraft == [version |-> 0]
Drafts == [version : Nat \ {0}, edits : Vaults]

Purposes == {"save", "rollback", "create"}

Messages == [from : Clients \cup {Nobody}, for : Purposes, base : Nat,
             content : Vaults]

Answers == [to : Clients, for : Purposes, result : {"ok", "conflict", "lost"},
            version : Nat \ {0}]

NoCaller == [from |-> Nobody, for |-> "save"]

TypeOK ==
  /\ Server!TypeOK
  /\ caller \in [from : Clients \cup {Nobody}, for : Purposes]
  /\ wire \subseteq Messages
  /\ answers \subseteq Answers
  /\ queue \in [Clients -> Queues \cup {Closed}]
  /\ stale \in [Clients -> SUBSET Queues]
  /\ loading \in [Clients -> Loads \cup {NoLoad}]
  /\ draft \in [Clients -> Drafts \cup {NoDraft}]
  /\ late \cup givenUp \cup gone \subseteq made /\ made \subseteq Edits
  /\ faults \in 0..MaxFaults /\ closes \in 0..MaxCloses

Init ==
  /\ Server!Init
  /\ caller = NoCaller
  /\ wire = {} /\ answers = {}
  /\ queue = [c \in Clients |-> Closed]
  /\ stale = [c \in Clients |-> {}]
  /\ loading = [c \in Clients |-> NoLoad]
  /\ draft = [c \in Clients |-> NoDraft]
  /\ made = {} /\ late = {} /\ givenUp = {} /\ gone = {}
  /\ faults = 0 /\ closes = 0
-----------------------------------------------------------------------------
(* Requests and answers *)

MayFail == faults < MaxFaults /\ faults' = faults + 1

MayClose == closes < MaxCloses /\ closes' = closes + 1

Send(c, purpose, base, content) ==
  wire' = wire \cup
    {[from |-> c, for |-> purpose, base |-> base, content |-> content]}

\* The server starts on a request; the handlers below hold Store.mu.
Take(m) ==
  /\ m \in wire
  /\ request' = [kind |-> IF m.for = "rollback" THEN "rollback" ELSE "save",
                 base |-> m.base, content |-> m.content]
  /\ Server!Receive
  /\ caller' = [from |-> m.from, for |-> m.for]
  /\ wire' = wire \ {m}
  /\ UNCHANGED <<answers, client, past, bounds>>

AnswerTo(sender, result) ==
  answers' = answers \cup
    (IF sender.from = Nobody THEN {}
     ELSE {[to |-> sender.from, for |-> sender.for, result |-> result,
            version |-> Server!Latest + 1]})

Reply(result) ==
  /\ AnswerTo(caller, result)
  /\ caller' = NoCaller
  /\ UNCHANGED <<wire, client, past, closes>>

\* The handler returns; its answer may be lost on the way.
Respond(result) ==
  \/ Reply(result) /\ UNCHANGED faults
  \/ Reply("lost") /\ MayFail

Accept == Server!Commit /\ Respond("ok")

Reject == Server!Refuse /\ Respond("conflict")

\* The server answers an error; so it does where the bound on Names leaves no
\* name for a conflict.
Break ==
  /\ Server!Fail
  /\ Reply("lost")
  /\ \/ MayFail
     \/ Names \subseteq DOMAIN kept /\ UNCHANGED faults

\* A request is lost before the server sees it.
Lose(m) ==
  /\ m \in wire
  /\ wire' = wire \ {m}
  /\ AnswerTo(m, "lost")
  /\ MayFail
  /\ UNCHANGED <<server, client, past, closes>>
-----------------------------------------------------------------------------
(* VaultSaveQueue: what its methods make of the queue q *)

IsOpen(c) == queue[c].open

Running(q) == q.step # "idle"

\* A queue of edits based on a version; recoverUnsaved marks a recovery copy.
NewQueue(edits, version, unsaved) ==
  [open |-> TRUE, edits |-> edits, version |-> version,
   state |-> IF unsaved THEN "error" ELSE "saved",
   revision |-> IF unsaved THEN 1 ELSE 0, savedRevision |-> 0,
   timer |-> FALSE, step |-> "idle", captured |-> 0]

\* changed(): failed uploads stop the automatic saves.
Changed(q) ==
  LET counted == [q EXCEPT !.revision = @ + 1]
  IN  IF q.state = "error" \/ Running(q) THEN counted
      ELSE [counted EXCEPT !.state = "saving", !.timer = TRUE]

\* The next turn of save()'s loop captures the revision before it exports.
NextTurn(q) ==
  [q EXCEPT !.state = "saving", !.step = "export", !.captured = q.revision]

\* save(), from the timer or from Retry.
Saving(q) ==
  LET calm == [q EXCEPT !.timer = FALSE]
  IN  IF Running(q) \/ q.revision = q.savedRevision THEN calm ELSE NextTurn(calm)

\* Mutant: the acknowledged revision is the one at the time of the answer.
Acknowledged_Latest(q, version) ==
  [q EXCEPT !.version = version, !.savedRevision = q.revision,
            !.state = "saved", !.step = "idle"]

\* Mutant: one turn only.
Acknowledged_Once(q, version) ==
  [q EXCEPT !.version = version, !.savedRevision = q.captured, !.step = "idle",
            !.state = IF q.captured = q.revision THEN "saved" ELSE "saving"]

\* The server confirmed a version for the captured revision.
Acknowledged(q, version) ==
  LET acked == [q EXCEPT !.version = version, !.savedRevision = q.captured]
  IN  IF q.captured = q.revision
      THEN [acked EXCEPT !.state = "saved", !.step = "idle"]
      ELSE NextTurn(acked)

Failed(q) == [q EXCEPT !.state = "error", !.step = "idle"]
-----------------------------------------------------------------------------
(* Editing and saving *)

Stored == UNION ({versions[n] : n \in DOMAIN versions} \cup
                 {kept[k] : k \in DOMAIN kept})

InRequests == UNION ({m.content : m \in wire} \cup
                     (IF request = Server!NoRequest THEN {} ELSE {request.content}))

RollingBack(c) ==
  \/ \E m \in wire : m.from = c /\ m.for = "rollback"
  \/ caller.from = c /\ caller.for = "rollback"
  \/ \E a \in answers : a.to = c /\ a.for = "rollback"

\* The user's rollback, or the reload that follows it, is under way.
Reloading(c) == RollingBack(c) \/ loading[c] # NoLoad

\* The user changes the open vault.
Edit(c) ==
  LET e == Cardinality(made) + 1
      edited == [queue[c] EXCEPT !.edits = @ \cup {e}]
  IN  /\ IsOpen(c)
      /\ e <= MaxEdits
      /\ queue' = [queue EXCEPT ![c] = Changed(edited)]
      /\ made' = made \cup {e}
      /\ late' = IF Reloading(c) THEN late \cup {e} ELSE late
      /\ UNCHANGED <<server, network, stale, loading, draft, givenUp, gone, bounds>>

TimerFires(c) ==
  /\ IsOpen(c) /\ queue[c].timer
  /\ queue' = [queue EXCEPT ![c] = Saving(@)]
  /\ UNCHANGED <<server, network, stale, loading, draft, past, bounds>>

\* "Retry Save", offered while the state is an error.
Retry(c) ==
  /\ IsOpen(c) /\ queue[c].state = "error"
  /\ queue' = [queue EXCEPT ![c] = Saving(@)]
  /\ UNCHANGED <<server, network, stale, loading, draft, past, bounds>>

\* The serializer has finished, with the edits made until then, or failed.
Exported(c) ==
  /\ IsOpen(c) /\ queue[c].step = "export"
  /\ \/ /\ Send(c, "save", queue[c].version, queue[c].edits)
        /\ queue' = [queue EXCEPT ![c].step = "upload"]
        /\ UNCHANGED faults
     \/ /\ queue' = [queue EXCEPT ![c] = Failed(@)]
        /\ MayFail
        /\ UNCHANGED wire
  /\ UNCHANGED <<server, answers, stale, loading, draft, past, closes>>

\* Mutant: the queue goes on after it was discarded.
StaleResumes_Uploads(c) ==
  \E q \in stale[c] :
    /\ wire' = wire \cup {[from |-> Nobody, for |-> "save", base |-> q.version,
                           content |-> q.edits]}
    /\ stale' = [stale EXCEPT ![c] = @ \ {q}]
    /\ UNCHANGED <<server, answers, queue, loading, draft, past, bounds>>

\* A discarded queue's save() comes back from its export and returns.
StaleResumes(c) ==
  \E q \in stale[c] :
    /\ stale' = [stale EXCEPT ![c] = @ \ {q}]
    /\ UNCHANGED <<server, network, queue, loading, draft, past, bounds>>

\* The upload is answered, or its failure noticed.
Answered(c) ==
  \E a \in answers :
    /\ a.to = c /\ a.for = "save"
    /\ answers' = answers \ {a}
    /\ queue' = [queue EXCEPT ![c] = IF a.result = "ok"
                                     THEN Acknowledged(@, a.version)
                                     ELSE Failed(@)]
    /\ UNCHANGED <<server, wire, stale, loading, draft, past, bounds>>
-----------------------------------------------------------------------------
(* Opening, reloading and closing *)

\* Nobody waits any more for what c sent for these purposes; requests already
\* sent may still be served.
Abort(c, purposes) ==
  /\ wire' = {IF m.from = c /\ m.for \in purposes
              THEN [m EXCEPT !.from = Nobody] ELSE m : m \in wire}
  /\ caller' = IF caller.from = c /\ caller.for \in purposes
               THEN [caller EXCEPT !.from = Nobody] ELSE caller
  /\ answers' = {a \in answers : a.to # c \/ a.for \notin purposes}

\* discard(): the timer is cleared, transport aborted, a save() suspended in
\* its export stays suspended.
Suspended(c) ==
  IF IsOpen(c) /\ queue[c].step = "export" THEN stale[c] \cup {queue[c]}
  ELSE stale[c]

\* Edits that c's vault holds and that no request, nor next, has.
Unsent(c, next) ==
  IF IsOpen(c) THEN queue[c].edits \ (Stored \cup InRequests \cup next) ELSE {}

Install(c, q) ==
  /\ queue' = [queue EXCEPT ![c] = q]
  /\ stale' = [stale EXCEPT ![c] = Suspended(c)]
  /\ loading' = [loading EXCEPT ![c] = NoLoad]
  /\ UNCHANGED <<versions, kept, request>>

\* initVault from a closed vault; from an open one after a rollback.
BeginOpen(c) ==
  /\ ~ IsOpen(c) /\ loading[c] = NoLoad
  /\ loading' = [loading EXCEPT ![c] = [step |-> "metadata", version |-> 0]]
  /\ UNCHANGED <<server, network, queue, stale, draft, past, bounds>>

\* The metadata names the version; without one a new vault is uploaded.
Metadata(c) ==
  /\ loading[c].step = "metadata"
  /\ \/ /\ Server!Latest = 0
        /\ Send(c, "create", 0, {})
        /\ loading' = [loading EXCEPT ![c].step = "creating"]
     \/ /\ Server!Latest > 0
        /\ loading' = [loading EXCEPT ![c] = [step |-> "download",
                                              version |-> Server!Latest]]
        /\ UNCHANGED wire
  /\ UNCHANGED <<server, answers, queue, stale, draft, past, bounds>>

Created(c) ==
  \E a \in answers :
    /\ a.to = c /\ a.for = "create"
    /\ answers' = answers \ {a}
    /\ IF a.result = "ok" THEN Install(c, NewQueue({}, a.version, FALSE))
       ELSE /\ loading' = [loading EXCEPT ![c] = NoLoad]
            /\ UNCHANGED <<versions, kept, request, queue, stale>>
    /\ UNCHANGED <<caller, wire, draft, past, bounds>>

\* Mutant: the version is that of the content, not the one read before it.
LoadedQueue_Renumbered(c) ==
  IF draft[c] # NoDraft THEN NewQueue(draft[c].edits, Server!Latest, TRUE)
  ELSE NewQueue(versions[loading[c].version], Server!Latest, FALSE)

\* The vault a download yields: its content may be newer than the version.  A
\* recovery copy takes its place, on the version it was based on.
LoadedQueue(c) ==
  IF draft[c] # NoDraft THEN NewQueue(draft[c].edits, draft[c].version, TRUE)
  ELSE NewQueue(versions[Server!Latest], loading[c].version, FALSE)

\* The new queue replaces the old one, which is discarded without a question.
Download(c) ==
  LET q == LoadedQueue(c)
  IN  /\ loading[c].step = "download"
      /\ Install(c, q)
      /\ Abort(c, {"save"})
      /\ draft' = [draft EXCEPT ![c] = NoDraft]
      /\ gone' = gone \cup Unsent(c, q.edits)
      /\ late' = IF RollingBack(c) /\ draft[c] # NoDraft THEN late \cup q.edits ELSE late
      /\ UNCHANGED <<made, givenUp, bounds>>

\* A request of initVault fails, or the user leaves: its result is dropped.
LoadFails(c) ==
  /\ loading[c] # NoLoad
  /\ loading' = [loading EXCEPT ![c] = NoLoad]
  /\ Abort(c, {"create"})
  /\ MayClose
  /\ UNCHANGED <<versions, kept, request, queue, stale, draft, past, faults>>

CloseVault(c) ==
  /\ Install(c, Closed)
  /\ Abort(c, {"save", "create"})
  /\ MayClose
  /\ UNCHANGED faults

\* Locking, signing out or leaving the page, after the user's confirmation
\* where something is unsaved.
GiveUp(c) ==
  /\ IsOpen(c)
  /\ CloseVault(c)
  /\ givenUp' = givenUp \cup (queue[c].edits \ Stored)
  /\ gone' = gone \cup Unsent(c, {})
  /\ UNCHANGED <<draft, made, late>>

\* Mutant: what is being saved is taken for saved.
RecoveryCopy_OnError(q) ==
  IF q.state # "error" THEN NoDraft ELSE [version |-> q.version, edits |-> q.edits]

\* What an automatic lock keeps: unsaved edits, with the version they are based on.
RecoveryCopy(q) ==
  IF q.state = "saved" THEN NoDraft ELSE [version |-> q.version, edits |-> q.edits]

\* The idle deadline passes; nobody is asked.
AutoLock(c) ==
  /\ IsOpen(c)
  /\ CloseVault(c)
  /\ draft' = [draft EXCEPT ![c] = RecoveryCopy(queue[c])]
  /\ UNCHANGED past

\* The history dialog offers its changes while all edits are saved, and where
\* the vault is locked; one of a tab's at a time.
HistoryOffered(c) ==
  /\ IsOpen(c) => queue[c].state = "saved"
  /\ ~ RollingBack(c)

Rollback(c) ==
  /\ HistoryOffered(c)
  /\ Server!Latest < MaxVersion
  /\ \E n \in 1..(Server!Latest - 1) : Send(c, "rollback", 0, versions[n])
  /\ MayClose
  /\ UNCHANGED <<server, answers, client, past, faults>>

\* Its answer starts initVault anew, which supersedes one under way.  Where the
\* vault is not open that may only ask for the password.
RolledBack(c) ==
  \E a \in answers :
    /\ a.to = c /\ a.for = "rollback"
    /\ IF a.result # "ok"
       THEN answers' = answers \ {a} /\ UNCHANGED <<loading, caller, wire>>
       ELSE /\ \E again \in {TRUE, IsOpen(c)} :
                 loading' = [loading EXCEPT ![c] =
                   IF again THEN [step |-> "metadata", version |-> 0] ELSE NoLoad]
            /\ Abort(c, {"rollback", "create"})
    /\ UNCHANGED <<versions, kept, request, queue, stale, draft, past, bounds>>

\* A rejected upload is discarded in the same dialog.
DiscardConflict(k) ==
  /\ \E c \in Clients : HistoryOffered(c)
  /\ Server!Discard(k)
  /\ givenUp' = givenUp \cup kept[k]
  /\ UNCHANGED <<caller, network, client, made, late, gone, bounds>>
-----------------------------------------------------------------------------
Step(c) ==
  \/ Edit(c)
  \/ TimerFires(c)
  \/ Retry(c)
  \/ Exported(c)
  \/ StaleResumes(c)
  \/ Answered(c)
  \/ BeginOpen(c)
  \/ Metadata(c)
  \/ Created(c)
  \/ Download(c)
  \/ LoadFails(c)
  \/ GiveUp(c)
  \/ AutoLock(c)
  \/ Rollback(c)
  \/ RolledBack(c)

Serve == Accept \/ Reject \/ Break

Next ==
  \/ \E c \in Clients : Step(c)
  \/ \E m \in wire : Take(m) \/ Lose(m)
  \/ Serve
  \/ \E k \in DOMAIN kept : DiscardConflict(k)

TakeFrom(c) == \E m \in wire : m.from = c /\ m.for = "save" /\ (Take(m) \/ Lose(m))

Fairness ==
  /\ WF_vars(Serve)
  /\ \A c \in Clients :
       /\ WF_vars(TimerFires(c))
       /\ WF_vars(Exported(c))
       /\ WF_vars(Answered(c))
       /\ SF_vars(TakeFrom(c))

Spec == Init /\ [][Next]_vars /\ Fairness
-----------------------------------------------------------------------------
(* Properties *)

\* "All changes saved": everything the user sees is in a version the server
\* holds, whatever was edited while an upload was under way.
SavedMeansStored ==
  \A c \in Clients :
    IsOpen(c) /\ queue[c].state = "saved" =>
      \E n \in queue[c].version..Len(versions) : versions[n] = queue[c].edits

\* A client never overwrites what it has not seen: an accepted upload contains
\* every edit of the version it replaces.  Only a rollback takes edits out.
NoLostUpdate ==
  [][versions' # versions /\ versions # << >> /\ caller.for # "rollback" =>
       versions[Len(versions)] \subseteq versions'[Len(versions')]]_vars

Held ==
  Stored \cup (UNION {queue[c].edits : c \in {d \in Clients : IsOpen(d)}})
         \cup (UNION {draft[c].edits : c \in {d \in Clients : draft[d] # NoDraft}})

\* An edit the user has not agreed to lose is in an open vault, in a recovery
\* copy, in a version or in a rejected upload: through conflicts, lost answers,
\* automatic locks and reloads.  Not so the edits made or recovered while a
\* rollback is under way, which the reloaded vault replaces without a question.
EditsSurvive == made \ (givenUp \cup late) \subseteq Held

\* Explicitly discarding prevents later revisions from uploading: what no
\* request carried when its queue was discarded never reaches the server.
DiscardedStaysOut == gone \cap (Stored \cup InRequests) = {}

\* An edit in a vault that stays open is saved in the end, or the user is told
\* that it is not.
EditsSettle ==
  \A c \in Clients :
    (IsOpen(c) /\ queue[c].revision # queue[c].savedRevision)
      ~> (IsOpen(c) => queue[c].state \in {"saved", "error"})
=============================================================================
