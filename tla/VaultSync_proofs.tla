--------------------------- MODULE VaultSync_proofs ---------------------------
(***************************************************************************)
(* Proofs about VaultSync, for any number of tabs, edits, closes, lost     *)
(* messages and rejected uploads.                                          *)
(*                                                                         *)
(* The argument has two layers.  What is in flight for a tab: at most one  *)
(* message for each purpose, and the queue waits for exactly the content   *)
(* it carries.  Where edits are: two tabs share only what some version     *)
(* has, so what one of them discards unsent no other can send.             *)
(***************************************************************************)
EXTENDS VaultSync, SequenceTheorems, FiniteSetTheorems, TLAPS
-----------------------------------------------------------------------------
(* Types *)

\* A download was started for a version the server has.
LoadsExist ==
  \A c \in Clients :
    loading[c].step = "download" => loading[c].version \in 1..Len(versions)

\* Edits are numbered as they are made.
Numbered == made = 1..Cardinality(made)

\* A handler knows who called it and for what.
CallerKnown ==
  /\ request = Server!NoRequest => caller = NoCaller
  /\ request # Server!NoRequest =>
       request.kind = IF caller.for = "rollback" THEN "rollback" ELSE "save"

TInv == TypeOK /\ LoadsExist /\ Numbered /\ CallerKnown
-----------------------------------------------------------------------------
(* What is in flight *)

\* The request being served, as the message it came in.
InHand ==
  IF request = Server!NoRequest THEN {}
  ELSE {[from |-> caller.from, for |-> caller.for,
         base |-> request.base, content |-> request.content]}

Sent == wire \cup InHand

\* A vault that names the latest version has all its edits.
Based(version, content) ==
  /\ version \in 1..Len(versions)
  /\ version = Len(versions) => versions[version] \subseteq content

\* Tab c waits for this upload, which has all that was edited up to the
\* revision captured for it.
Uploads(c, content) ==
  /\ IsOpen(c) /\ queue[c].step = "upload"
  /\ content \subseteq queue[c].edits
  /\ queue[c].captured = queue[c].revision => content = queue[c].edits

\* Only the latest sender's own content can be acknowledged to it.
MessagesMatch ==
  \A m \in Sent :
    /\ m.for = "save" =>
         Based(m.base, m.content) /\ (m.from \in Clients => Uploads(m.from, m.content))
    /\ m.for = "create" =>
         /\ m.base = 0 /\ m.content = {}
         /\ m.from \in Clients => loading[m.from].step = "creating"

AnswersMatch ==
  \A a \in answers :
    /\ a.result = "ok" => a.version \in 1..Len(versions)
    /\ a.for = "save" =>
         /\ IsOpen(a.to) /\ queue[a.to].step = "upload"
         /\ a.result = "ok" => Uploads(a.to, versions[a.version])
    /\ a.for = "create" =>
         /\ loading[a.to].step = "creating"
         /\ a.result = "ok" => versions[a.version] = {}

\* A tab has at most one request for a purpose: sent, served or answered.
OneInFlight ==
  /\ \A m \in wire :
       m.from \in Clients =>
         /\ ~ (caller.from = m.from /\ caller.for = m.for)
         /\ \A n \in wire : n.from = m.from /\ n.for = m.for => n = m
         /\ \A a \in answers : ~ (a.to = m.from /\ a.for = m.for)
  /\ \A a \in answers :
       /\ ~ (caller.from = a.to /\ caller.for = a.for)
       /\ \A b \in answers : b.to = a.to /\ b.for = a.for => b = a

QueuesBased ==
  \A c \in Clients :
    IsOpen(c) =>
      /\ Based(queue[c].version, queue[c].edits)
      /\ queue[c].captured <= queue[c].revision
      /\ queue[c].state = "saved" => queue[c].step = "idle"
      /\ draft[c] = NoDraft
      /\ loading[c].step # "creating"

DraftsBased ==
  \A c \in Clients :
    draft[c] # NoDraft =>
      Based(draft[c].version, draft[c].edits) /\ loading[c].step # "creating"

Protocol ==
  /\ MessagesMatch
  /\ AnswersMatch
  /\ OneInFlight
  /\ QueuesBased
  /\ DraftsBased
  /\ SavedMeansStored
-----------------------------------------------------------------------------
(* Where edits are *)

InVersions == UNION {versions[n] : n \in DOMAIN versions}

\* What a tab has: its open vault, or the recovery copy of it.
Holding(c) ==
  (IF IsOpen(c) THEN queue[c].edits ELSE {}) \cup
  (IF draft[c] # NoDraft THEN draft[c].edits ELSE {})

Everywhere == Stored \cup InRequests \cup UNION {Holding(c) : c \in Clients}

\* Two tabs have in common only what one of them can have loaded.
Private ==
  \A c, d \in Clients : c # d => Holding(c) \cap Holding(d) \subseteq InVersions

\* A vault that is about to be replaced by a reload holds nothing but what the
\* server has, but for the edits made meanwhile.
Replaceable ==
  \A c \in Clients :
    IsOpen(c) /\ Reloading(c) => queue[c].edits \subseteq Stored \cup late \cup givenUp

Whereabouts ==
  /\ Everywhere \subseteq made
  /\ gone \cap Everywhere = {}
  /\ Private
  /\ Replaceable
  /\ EditsSurvive
-----------------------------------------------------------------------------
(* Helpers *)

\* What changed() makes of a queue.
LEMMA ChangedFacts ==
  ASSUME NEW q \in Queues
  PROVE  /\ Changed(q) \in Queues
         /\ Changed(q).edits = q.edits /\ Changed(q).version = q.version
         /\ Changed(q).step = q.step /\ Changed(q).captured = q.captured
         /\ Changed(q).revision = q.revision + 1
         /\ Changed(q).state \in {"saving", "error"} \/ (Changed(q).state = q.state /\ Running(q))
<1> DEFINE counted == [q EXCEPT !.revision = @ + 1]
<1>1. /\ counted \in Queues /\ counted.edits = q.edits /\ counted.version = q.version
      /\ counted.step = q.step /\ counted.captured = q.captured /\ counted.state = q.state
      /\ counted.revision = q.revision + 1
  <2>1. q.revision + 1 \in Nat
    BY DEF Queues
  <2>2. \A n \in Nat : [q EXCEPT !.revision = n] \in Queues
    BY DEF Queues
  <2> QED
    BY <2>1, <2>2 DEF Queues
<1>2. CASE q.state = "error" \/ Running(q)
  BY <1>1, <1>2 DEF Changed
<1>3. CASE ~ (q.state = "error" \/ Running(q))
  <2>1. Changed(q) = [counted EXCEPT !.state = "saving", !.timer = TRUE]
    BY <1>3 DEF Changed
  <2> HIDE DEF counted
  <2> QED
    BY <1>1, <2>1 DEF Queues
<1> QED
  BY <1>2, <1>3

\* What starting save() makes of a queue: nothing while one is running.
LEMMA SavingFacts ==
  ASSUME NEW q \in Queues
  PROVE  /\ Saving(q) \in Queues
         /\ Saving(q).edits = q.edits /\ Saving(q).version = q.version
         /\ Saving(q).revision = q.revision
         /\ \/ /\ Saving(q).step = q.step /\ Saving(q).captured = q.captured
               /\ Saving(q).state = q.state
            \/ /\ q.step = "idle" /\ Saving(q).step = "export"
               /\ Saving(q).captured = q.revision /\ Saving(q).state = "saving"
BY DEF Saving, NextTurn, Queues, Running

\* What an acknowledged upload makes of a queue.
LEMMA AcknowledgedFacts ==
  ASSUME NEW q \in Queues, NEW v \in Nat \ {0}
  PROVE  /\ Acknowledged(q, v) \in Queues
         /\ Acknowledged(q, v).edits = q.edits /\ Acknowledged(q, v).version = v
         /\ Acknowledged(q, v).revision = q.revision
         /\ \/ /\ q.captured = q.revision
               /\ Acknowledged(q, v).step = "idle" /\ Acknowledged(q, v).captured = q.captured
               /\ Acknowledged(q, v).state = "saved"
            \/ /\ Acknowledged(q, v).step = "export"
               /\ Acknowledged(q, v).captured = q.revision
               /\ Acknowledged(q, v).state = "saving"
BY DEF Acknowledged, NextTurn, Queues

\* What a failure makes of a queue.
LEMMA FailedFacts ==
  ASSUME NEW q \in Queues
  PROVE  /\ Failed(q) \in Queues
         /\ Failed(q).edits = q.edits /\ Failed(q).version = q.version
         /\ Failed(q).revision = q.revision /\ Failed(q).captured = q.captured
         /\ Failed(q).step = "idle" /\ Failed(q).state = "error"
BY DEF Failed, Queues

\* A fresh queue waits for nothing.
LEMMA NewQueueFacts ==
  ASSUME NEW edits \in Vaults, NEW v \in Nat \ {0}, NEW unsaved \in BOOLEAN
  PROVE  /\ NewQueue(edits, v, unsaved) \in Queues
         /\ NewQueue(edits, v, unsaved).edits = edits
         /\ NewQueue(edits, v, unsaved).version = v
         /\ NewQueue(edits, v, unsaved).step = "idle"
         /\ NewQueue(edits, v, unsaved).captured <= NewQueue(edits, v, unsaved).revision
         /\ NewQueue(edits, v, unsaved).state = IF unsaved THEN "error" ELSE "saved"
BY DEF NewQueue, Queues

\* An open vault has a queue, a closed one none.
LEMMA OpenFacts ==
  ASSUME TypeOK
  PROVE  /\ \A c \in Clients : IsOpen(c) <=> queue[c] \in Queues
         /\ \A c \in Clients : ~ IsOpen(c) <=> queue[c] = Closed
         /\ \A q \in Queues : q.open = TRUE
         /\ Closed \notin Queues
<1>1. \A q \in Queues : q.open = TRUE
  BY DEF Queues
<1>2. Closed.open = FALSE
  BY DEF Closed
<1>3. \A c \in Clients : queue[c] \in Queues \/ queue[c] = Closed
  BY DEF TypeOK
<1> QED
  BY <1>1, <1>2, <1>3 DEF IsOpen

\* A load that is under way is at one of three steps.
LEMMA LoadFacts ==
  ASSUME TypeOK, NEW c \in Clients
  PROVE  /\ loading[c] = NoLoad <=> loading[c].step \notin {"metadata", "creating", "download"}
         /\ loading[c].step # "none" => loading[c] \in Loads
         /\ loading[c] \in Loads \/ loading[c] = NoLoad
BY DEF TypeOK, Loads, NoLoad

\* The versions the server has, and the next one.
LEMMA VersionFacts ==
  ASSUME TypeOK
  PROVE  /\ versions \in Seq(Vaults) /\ Len(versions) \in Nat /\ DOMAIN versions = 1..Len(versions)
         /\ \A n \in 1..Len(versions) : versions[n] \in Vaults
         /\ Server!Latest = Len(versions)
BY LenProperties, ElementOfSeq DEF TypeOK, Server!TypeOK, Server!Latest

\* A message on the wire, the request being served, and who waits for it.
LEMMA NetworkFacts ==
  ASSUME TypeOK
  PROVE  /\ \A m \in wire : /\ m.from \in Clients \cup {Nobody} /\ m.for \in Purposes
                            /\ m.base \in Nat /\ m.content \in Vaults
                            /\ m = [from |-> m.from, for |-> m.for, base |-> m.base,
                                    content |-> m.content]
         /\ \A a \in answers : /\ a.to \in Clients /\ a.for \in Purposes
                               /\ a.result \in {"ok", "conflict", "lost"} /\ a.version \in Nat \ {0}
         /\ caller.from \in Clients \cup {Nobody} /\ caller.for \in Purposes
         /\ request # Server!NoRequest =>
              /\ request.kind \in {"save", "rollback"}
              /\ request.base \in Nat /\ request.content \in Vaults
BY DEF TypeOK, Messages, Answers, Server!TypeOK, Server!Requests

\* Aborted requests keep their content and lose their sender; aborted answers
\* are dropped.
LEMMA AbortFacts ==
  ASSUME TypeOK, NEW c \in Clients, NEW P, Abort(c, P)
  PROVE  /\ wire' \subseteq Messages /\ answers' \subseteq answers
         /\ caller' \in [from : Clients \cup {Nobody}, for : Purposes]
         /\ caller'.for = caller.for
         /\ caller'.from = IF caller.from = c /\ caller.for \in P THEN Nobody ELSE caller.from
         /\ \A a \in answers' : a.to # c \/ a.for \notin P
         /\ \A a \in answers : a.to # c \/ a.for \notin P => a \in answers'
         /\ \A n \in wire' : \E m \in wire :
              /\ n.for = m.for /\ n.base = m.base /\ n.content = m.content
              /\ IF m.from = c /\ m.for \in P THEN n.from = Nobody ELSE n = m
         /\ \A m \in wire : \E n \in wire' :
              /\ n.for = m.for /\ n.base = m.base /\ n.content = m.content
              /\ IF m.from = c /\ m.for \in P THEN n.from = Nobody ELSE n = m
<1> DEFINE f(m) == IF m.from = c /\ m.for \in P THEN [m EXCEPT !.from = Nobody] ELSE m
<1>1. wire' = {f(m) : m \in wire}
  BY DEF Abort
<1>2. ASSUME NEW m \in Messages
      PROVE  /\ f(m) \in Messages
             /\ f(m).for = m.for /\ f(m).base = m.base /\ f(m).content = m.content
             /\ IF m.from = c /\ m.for \in P THEN f(m).from = Nobody ELSE f(m) = m
  BY DEF Messages
<1>3. wire \subseteq Messages /\ caller \in [from : Clients \cup {Nobody}, for : Purposes]
  BY DEF TypeOK
<1> HIDE DEF f
<1>4. /\ wire' \subseteq Messages
      /\ \A n \in wire' : \E m \in wire :
              /\ n.for = m.for /\ n.base = m.base /\ n.content = m.content
              /\ IF m.from = c /\ m.for \in P THEN n.from = Nobody ELSE n = m
      /\ \A m \in wire : \E n \in wire' :
              /\ n.for = m.for /\ n.base = m.base /\ n.content = m.content
              /\ IF m.from = c /\ m.for \in P THEN n.from = Nobody ELSE n = m
  BY <1>1, <1>2, <1>3
<1>5. /\ caller' \in [from : Clients \cup {Nobody}, for : Purposes]
      /\ caller'.for = caller.for
      /\ caller'.from = IF caller.from = c /\ caller.for \in P THEN Nobody ELSE caller.from
  BY <1>3 DEF Abort
<1> QED
  BY <1>4, <1>5 DEF Abort
-----------------------------------------------------------------------------
(* Every step keeps the types *)

\* Nobody has opened the vault yet.
LEMMA TInvInit == Init => TInv
<1> SUFFICES ASSUME Init PROVE TInv
  OBVIOUS
<1>1. Server!TypeOK
  BY DEF Init, Server!Init, Server!TypeOK, Server!NoRequest
<1>2. TypeOK
  BY <1>1, SyncAssumption DEF Init, TypeOK, NoCaller, Purposes, Edits
<1>3. LoadsExist /\ CallerKnown
  BY DEF Init, LoadsExist, CallerKnown, NoLoad, Server!Init
<1>4. Numbered
  BY FS_EmptySet DEF Init, Numbered
<1> QED
  BY <1>2, <1>3, <1>4 DEF TInv

\* What the server and the network have the types of, apart.
ServerTyped == Server!TypeOK /\ caller \in [from : Clients \cup {Nobody}, for : Purposes]
ClientTyped ==
  /\ queue \in [Clients -> Queues \cup {Closed}]
  /\ stale \in [Clients -> SUBSET Queues]
  /\ loading \in [Clients -> Loads \cup {NoLoad}]
  /\ draft \in [Clients -> Drafts \cup {NoDraft}]
PastTyped ==
  /\ late \cup givenUp \cup gone \subseteq made /\ made \subseteq Edits
  /\ faults \in 0..MaxFaults /\ closes \in 0..MaxCloses

\* The types, taken apart and put together.
LEMMA TypeParts ==
  /\ TypeOK <=> /\ ServerTyped /\ ClientTyped /\ PastTyped
                /\ wire \subseteq Messages /\ answers \subseteq Answers
  /\ TypeOK' <=> /\ ServerTyped' /\ ClientTyped' /\ PastTyped'
                 /\ wire' \subseteq Messages /\ answers' \subseteq Answers
BY DEF TypeOK, ServerTyped, ClientTyped, PastTyped

\* A counter below its bound may be counted up.
LEMMA BoundFacts ==
  ASSUME PastTyped
  PROVE  /\ MayFail => faults' \in 0..MaxFaults
         /\ MayClose => closes' \in 0..MaxCloses
BY SyncAssumption DEF PastTyped, MayFail, MayClose

\* A message sent is one.
LEMMA SendFacts ==
  ASSUME TypeOK, NEW c \in Clients, NEW p \in Purposes, NEW b \in Nat, NEW content \in Vaults,
         Send(c, p, b, content)
  PROVE  wire' \subseteq Messages
BY DEF Send, TypeOK, Messages

\* Of an edit, of a save under way and of its answer.
LEMMA SavingKeepsT ==
  ASSUME TInv, AnswersMatch, NEW c \in Clients,
         Edit(c) \/ TimerFires(c) \/ Retry(c) \/ Exported(c) \/ StaleResumes(c) \/ Answered(c)
  PROVE  TInv'
<1>1. TypeOK /\ ServerTyped /\ ClientTyped /\ PastTyped /\ wire \subseteq Messages
      /\ answers \subseteq Answers
  BY TypeParts DEF TInv
<1>2. UNCHANGED <<server, loading, draft, closes, gone, givenUp>>
  BY DEF Edit, TimerFires, Retry, Exported, StaleResumes, Answered, server, past, bounds, client,
         network
<1>3. LoadsExist' /\ CallerKnown'
  BY <1>2 DEF TInv, LoadsExist, CallerKnown, server
<1>4. ServerTyped'
  BY <1>1, <1>2 DEF ServerTyped, Server!TypeOK, server
<1>5. IsOpen(c) => queue[c] \in Queues
  BY <1>1, OpenFacts
<1>6. CASE Edit(c)
  <2>1. PICK e : e = Cardinality(made) + 1
    OBVIOUS
  <2>2. /\ e <= MaxEdits /\ IsOpen(c) /\ made' = made \cup {e}
        /\ queue' = [queue EXCEPT ![c] = Changed([queue[c] EXCEPT !.edits = @ \cup {e}])]
        /\ late' \in {late, late \cup {e}}
        /\ UNCHANGED <<wire, answers, stale, faults>>
    BY <1>6, <2>1 DEF Edit, network, bounds
  <2>3. e \in Edits /\ Cardinality(made) \in Nat
    <3>1. IsFiniteSet(Edits)
      BY SyncAssumption, FS_Interval DEF Edits
    <3>2. Cardinality(made) \in Nat
      BY <1>1, <3>1, FS_Subset, FS_CardinalityType DEF PastTyped
    <3> QED
      BY <2>1, <2>2, <3>2, SyncAssumption DEF Edits
  <2>4. Numbered'
    <3>1. made' = 1..e
      BY <2>1, <2>2, <2>3 DEF TInv, Numbered
    <3>2. Cardinality(1..e) = e
      BY <2>1, <2>3, FS_Interval
    <3> QED
      BY <3>1, <3>2 DEF Numbered
  <2>5. ClientTyped'
    <3>1. [queue[c] EXCEPT !.edits = @ \cup {e}] \in Queues
      BY <1>5, <2>2, <2>3 DEF Queues, Vaults
    <3>2. Changed([queue[c] EXCEPT !.edits = @ \cup {e}]) \in Queues
      BY <3>1, ChangedFacts
    <3> QED
      BY <1>1, <1>2, <2>2, <3>2 DEF ClientTyped
  <2>6. PastTyped'
    BY <1>1, <1>2, <2>2, <2>3 DEF PastTyped
  <2> QED
    BY <1>1, <1>3, <1>4, <2>2, <2>4, <2>5, <2>6, TypeParts DEF TInv
<1>7. CASE TimerFires(c) \/ Retry(c)
  <2>1. /\ IsOpen(c) /\ queue' = [queue EXCEPT ![c] = Saving(queue[c])]
        /\ UNCHANGED <<wire, answers, stale, made, late, faults>>
    BY <1>7 DEF TimerFires, Retry, network, past, bounds
  <2>2. ClientTyped'
    BY <1>1, <1>2, <1>5, <2>1, SavingFacts DEF ClientTyped
  <2> QED
    BY <1>1, <1>2, <1>3, <1>4, <2>1, <2>2, TypeParts DEF TInv, PastTyped, Numbered
<1>8. CASE Exported(c)
  <2>1. IsOpen(c) /\ UNCHANGED <<answers, stale, made, late>>
    BY <1>8 DEF Exported, past
  <2>2. wire' \subseteq Messages
    <3>1. queue[c].version \in Nat /\ queue[c].edits \in Vaults
      BY <1>5, <2>1 DEF Queues
    <3> QED
      BY <1>1, <1>8, <3>1, SendFacts DEF Exported, Purposes
  <2>3. faults' \in 0..MaxFaults
    BY <1>1, <1>8, BoundFacts DEF Exported, PastTyped
  <2>4. PICK q \in Queues : queue' = [queue EXCEPT ![c] = q]
    <3>1. CASE queue' = [queue EXCEPT ![c].step = "upload"]
      <4>1. [queue[c] EXCEPT !.step = "upload"] \in Queues
        BY <1>5, <2>1 DEF Queues
      <4>2. queue' = [queue EXCEPT ![c] = [queue[c] EXCEPT !.step = "upload"]]
        BY <3>1
      <4> QED
        BY <4>1, <4>2
    <3>2. CASE queue' = [queue EXCEPT ![c] = Failed(@)]
      BY <1>5, <2>1, <3>2, FailedFacts
    <3> QED
      BY <1>8, <3>1, <3>2 DEF Exported
  <2>5. ClientTyped'
    BY <1>1, <1>2, <2>1, <2>4 DEF ClientTyped
  <2> QED
    BY <1>1, <1>2, <1>3, <1>4, <2>1, <2>2, <2>3, <2>5, TypeParts DEF TInv, PastTyped, Numbered
<1>9. CASE StaleResumes(c)
  <2>1. /\ UNCHANGED <<wire, answers, queue, made, late, faults>>
        /\ \E q \in stale[c] : stale' = [stale EXCEPT ![c] = @ \ {q}]
    BY <1>9 DEF StaleResumes, network, past, bounds
  <2>2. ClientTyped'
    BY <1>1, <1>2, <2>1 DEF ClientTyped
  <2> QED
    BY <1>1, <1>2, <1>3, <1>4, <2>1, <2>2, TypeParts DEF TInv, PastTyped, Numbered
<1>10. CASE Answered(c)
  <2>1. PICK a \in answers :
          /\ a.to = c /\ answers' = answers \ {a}
          /\ a.for = "save"
          /\ IsOpen(c)
          /\ queue' = [queue EXCEPT ![c] = IF a.result = "ok" THEN Acknowledged(@, a.version)
                                           ELSE Failed(@)]
          /\ UNCHANGED <<wire, stale, made, late, faults>>
    BY <1>10 DEF Answered, AnswersMatch, past, bounds
  <2>2. a.version \in Nat \ {0}
    BY <1>1, NetworkFacts
  <2>3. ClientTyped'
    BY <1>1, <1>2, <1>5, <2>1, <2>2, AcknowledgedFacts, FailedFacts DEF ClientTyped
  <2> QED
    BY <1>1, <1>2, <1>3, <1>4, <2>1, <2>3, TypeParts DEF TInv, PastTyped, Numbered
<1> QED
  BY <1>6, <1>7, <1>8, <1>9, <1>10

\* Installing a queue, or none, discards the one before.
LEMMA InstallTyped ==
  ASSUME TypeOK, NEW c \in Clients, NEW q \in Queues \cup {Closed}, Install(c, q),
         draft' \in [Clients -> Drafts \cup {NoDraft}]
  PROVE  ClientTyped'
<1>1. Suspended(c) \in SUBSET Queues
  BY OpenFacts DEF Suspended, TypeOK
<1>2. NoLoad \in Loads \cup {NoLoad}
  OBVIOUS
<1> QED
  BY <1>1, <1>2 DEF Install, ClientTyped, TypeOK

\* A vault that is read back: the content and the version come from the server,
\* or both from a recovery copy.
LEMMA LoadedFacts ==
  ASSUME TInv, NEW c \in Clients, loading[c].step = "download"
  PROVE  /\ LoadedQueue(c) \in Queues
         /\ LoadedQueue(c).step = "idle"
         /\ LoadedQueue(c).captured <= LoadedQueue(c).revision
         /\ draft[c] # NoDraft =>
              /\ draft[c] \in Drafts
              /\ LoadedQueue(c).edits = draft[c].edits
              /\ LoadedQueue(c).version = draft[c].version
              /\ LoadedQueue(c).state = "error"
         /\ draft[c] = NoDraft =>
              /\ Len(versions) \in 1..Len(versions)
              /\ LoadedQueue(c).edits = versions[Len(versions)]
              /\ LoadedQueue(c).version = loading[c].version
              /\ LoadedQueue(c).state = "saved"
<1>1. TypeOK /\ loading[c].version \in 1..Len(versions)
  BY DEF TInv, LoadsExist
<1>2. /\ Len(versions) \in Nat /\ Len(versions) \in 1..Len(versions)
      /\ versions[Len(versions)] \in Vaults /\ Server!Latest = Len(versions)
      /\ loading[c].version \in Nat \ {0}
  BY <1>1, VersionFacts
<1>3. CASE draft[c] # NoDraft
  <2>1. draft[c] \in Drafts /\ draft[c].edits \in Vaults /\ draft[c].version \in Nat \ {0}
    BY <1>1, <1>3 DEF TypeOK, Drafts
  <2>2. LoadedQueue(c) = NewQueue(draft[c].edits, draft[c].version, TRUE)
    BY <1>3 DEF LoadedQueue
  <2>3. PICK e \in Vaults, v \in Nat \ {0} : e = draft[c].edits /\ v = draft[c].version
    BY <2>1
  <2>4. PICK q \in Queues : q = NewQueue(e, v, TRUE)
    BY NewQueueFacts
  <2>5. /\ q.edits = e /\ q.version = v /\ q.step = "idle" /\ q.captured <= q.revision
        /\ q.state = "error"
    BY <2>4, NewQueueFacts
  <2>6. LoadedQueue(c) = q
    BY <2>2, <2>3, <2>4
  <2> QED
    BY <1>3, <2>1, <2>3, <2>5, <2>6
<1>4. CASE draft[c] = NoDraft
  <2>1. LoadedQueue(c) = NewQueue(versions[Len(versions)], loading[c].version, FALSE)
    BY <1>2, <1>4 DEF LoadedQueue
  <2>2. PICK e \in Vaults, v \in Nat \ {0} :
          e = versions[Len(versions)] /\ v = loading[c].version
    BY <1>2
  <2>3. PICK q \in Queues : q = NewQueue(e, v, FALSE)
    BY NewQueueFacts
  <2>4. q.edits = e /\ q.version = v /\ q.step = "idle" /\ q.captured <= q.revision
        /\ q.state = "saved"
    BY <2>3, NewQueueFacts
  <2>5. LoadedQueue(c) = q
    BY <2>1, <2>2, <2>3
  <2> QED
    BY <1>2, <1>4, <2>2, <2>4, <2>5
<1> QED
  BY <1>3, <1>4

\* What a tab does to the network: nothing, a message, an abort, an answer read.
ByClient(c) ==
  \/ UNCHANGED <<caller, wire, answers>>
  \/ /\ \E p \in {"save", "create", "rollback"}, b \in Nat, content \in Vaults :
           Send(c, p, b, content)
     /\ UNCHANGED <<caller, answers>>
  \/ \E P \in SUBSET Purposes : Abort(c, P)
  \/ /\ \E a \in answers : a.to = c /\ answers' = answers \ {a}
     /\ UNCHANGED <<caller, wire>>

\* What a tab sends, and the answers it takes, are messages.
LEMMA NetworkTyped ==
  ASSUME TInv, NEW c \in Clients, ByClient(c), UNCHANGED <<versions, kept, request>>
  PROVE  /\ ServerTyped' /\ CallerKnown'
         /\ wire' \subseteq Messages /\ answers' \subseteq Answers
<1>1. TypeOK /\ ServerTyped /\ CallerKnown /\ wire \subseteq Messages /\ answers \subseteq Answers
  BY TypeParts DEF TInv
<1>2. Server!TypeOK'
  BY <1>1 DEF ServerTyped, Server!TypeOK
<1>3. CASE UNCHANGED <<caller, wire>> /\ answers' \subseteq answers
  BY <1>1, <1>2, <1>3 DEF ServerTyped, CallerKnown
<1>4. CASE /\ \E p \in {"save", "create", "rollback"}, b \in Nat, content \in Vaults :
                 Send(c, p, b, content)
           /\ UNCHANGED <<caller, answers>>
  <2>1. wire' \subseteq Messages
    BY <1>1, <1>4, SendFacts DEF Purposes
  <2> QED
    BY <1>1, <1>2, <1>4, <2>1 DEF ServerTyped, CallerKnown
<1>5. ASSUME NEW P \in SUBSET Purposes, Abort(c, P)
      PROVE  /\ ServerTyped' /\ CallerKnown'
             /\ wire' \subseteq Messages /\ answers' \subseteq Answers
  <2>1. /\ wire' \subseteq Messages /\ answers' \subseteq answers
        /\ caller' \in [from : Clients \cup {Nobody}, for : Purposes]
        /\ caller'.for = caller.for
    BY <1>1, <1>5, AbortFacts
  <2>2. caller = NoCaller => caller' = NoCaller
    BY <1>5, SyncAssumption DEF Abort, NoCaller
  <2>3. CallerKnown'
    BY <1>1, <2>1, <2>2 DEF CallerKnown
  <2> QED
    BY <1>1, <1>2, <2>1, <2>3 DEF ServerTyped
<1>6. CASE \E P \in SUBSET Purposes : Abort(c, P)
  BY <1>5, <1>6
<1> QED
  BY <1>3, <1>4, <1>6 DEF ByClient

\* Opening, reloading, rolling back and closing use the network that way.
LEMMA LoadingByClient ==
  ASSUME TypeOK, NEW c \in Clients,
         \/ BeginOpen(c) \/ Metadata(c) \/ Created(c) \/ Download(c) \/ LoadFails(c)
         \/ GiveUp(c) \/ AutoLock(c) \/ Rollback(c) \/ RolledBack(c)
  PROVE  ByClient(c) /\ UNCHANGED <<versions, kept, request, made>>
<1>1. UNCHANGED <<versions, kept, request, made>>
  BY DEF BeginOpen, Metadata, Created, Download, LoadFails, GiveUp, AutoLock, Rollback,
         RolledBack, CloseVault, Install, server, past
<1>2. CASE BeginOpen(c)
  BY <1>1, <1>2 DEF BeginOpen, ByClient, server, network
<1>3. CASE Metadata(c)
  <2>1. 0 \in Nat /\ {} \in Vaults
    BY DEF Vaults
  <2>2. UNCHANGED <<caller, answers>> /\ (Send(c, "create", 0, {}) \/ UNCHANGED wire)
    BY <1>3 DEF Metadata, server
  <2> QED
    BY <1>1, <2>1, <2>2 DEF ByClient
<1>4. CASE Created(c)
  BY <1>1, <1>4 DEF Created, ByClient
<1>5. CASE Download(c)
  BY <1>1, <1>5 DEF Download, ByClient, Purposes
<1>6. CASE LoadFails(c)
  BY <1>1, <1>6 DEF LoadFails, ByClient, Purposes
<1>7. CASE GiveUp(c) \/ AutoLock(c)
  BY <1>1, <1>7 DEF GiveUp, AutoLock, CloseVault, ByClient, Purposes
<1>8. CASE Rollback(c)
  <2>1. UNCHANGED <<caller, answers>>
    BY <1>8 DEF Rollback, server
  <2>2. \E n \in 1..(Len(versions) - 1) : Send(c, "rollback", 0, versions[n])
    BY <1>8, VersionFacts DEF Rollback
  <2>3. \A n \in 1..(Len(versions) - 1) : versions[n] \in Vaults
    BY VersionFacts
  <2> QED
    BY <1>1, <2>1, <2>2, <2>3 DEF ByClient
<1>9. CASE RolledBack(c)
  <2>1. \/ Abort(c, {"rollback", "create"})
        \/ /\ \E a \in answers : a.to = c /\ answers' = answers \ {a}
           /\ UNCHANGED <<caller, wire>>
    BY <1>9 DEF RolledBack
  <2> QED
    BY <1>1, <2>1 DEF ByClient, Purposes
<1> QED
  BY <1>2, <1>3, <1>4, <1>5, <1>6, <1>7, <1>8, <1>9

\* Of opening, reloading and closing.
LEMMA LoadingKeepsT ==
  ASSUME TInv, Everywhere \subseteq made, NEW c \in Clients,
         \/ BeginOpen(c) \/ Metadata(c) \/ Created(c) \/ Download(c) \/ LoadFails(c)
         \/ GiveUp(c) \/ AutoLock(c) \/ Rollback(c) \/ RolledBack(c)
  PROVE  TInv'
<1>1. /\ TypeOK /\ ServerTyped /\ ClientTyped /\ PastTyped
      /\ wire \subseteq Messages /\ answers \subseteq Answers
      /\ LoadsExist /\ Numbered /\ CallerKnown
  BY TypeParts DEF TInv
<1>2. UNCHANGED <<versions, kept, request, made>> /\ ByClient(c)
  BY <1>1, LoadingByClient
<1>3. Numbered' /\ ServerTyped' /\ CallerKnown' /\ wire' \subseteq Messages /\ answers' \subseteq Answers
  BY <1>1, <1>2, NetworkTyped DEF Numbered
<1>4. Len(versions) \in Nat /\ Server!Latest = Len(versions)
  BY <1>1, VersionFacts
<1>5. CASE BeginOpen(c) \/ Metadata(c) \/ LoadFails(c) \/ RolledBack(c)
  <2>1. UNCHANGED <<queue, stale, draft, late, gone, givenUp, faults>>
        /\ closes' \in 0..MaxCloses
    BY <1>1, <1>5, BoundFacts
    DEF BeginOpen, Metadata, LoadFails, RolledBack, past, bounds, PastTyped
  <2>2. PICK l \in Loads \cup {NoLoad} :
          /\ loading' = [loading EXCEPT ![c] = l]
          /\ l.step = "download" => l.version \in 1..Len(versions)
    <3>1. [step |-> "metadata", version |-> 0] \in Loads
      BY DEF Loads
    <3>2. CASE BeginOpen(c) \/ LoadFails(c) \/ RolledBack(c)
      <4>1. \E l \in {[step |-> "metadata", version |-> 0], NoLoad} \cup {loading[c]} :
              /\ loading' = [loading EXCEPT ![c] = l]
              /\ l.step = "download" => l = loading[c]
        BY <1>1, <3>2 DEF BeginOpen, LoadFails, RolledBack, NoLoad, ClientTyped
      <4> QED
        BY <1>1, <3>1, <4>1 DEF LoadsExist, ClientTyped
    <3>3. CASE Metadata(c)
      <4>1. loading[c].step = "metadata" /\ loading[c] \in Loads
        BY <1>1, <3>3, LoadFacts DEF Metadata
      <4>2. CASE loading' = [loading EXCEPT ![c].step = "creating"]
        <5>1. [loading[c] EXCEPT !.step = "creating"] \in Loads
              /\ [loading[c] EXCEPT !.step = "creating"].step = "creating"
          BY <4>1 DEF Loads
        <5> QED
          BY <4>2, <5>1
      <4>3. CASE Server!Latest > 0 /\ loading' = [loading EXCEPT ![c] = [step |-> "download",
                                                    version |-> Server!Latest]]
        <5>1. PICK n \in Nat : n = Server!Latest /\ n \in 1..Len(versions)
          BY <1>4, <4>3
        <5>2. [step |-> "download", version |-> n] \in Loads
              /\ [step |-> "download", version |-> n].version = n
          BY DEF Loads
        <5> QED
          BY <4>3, <5>1, <5>2
      <4> QED
        BY <3>3, <4>2, <4>3 DEF Metadata
    <3> QED
      BY <1>5, <3>2, <3>3
  <2>3. ClientTyped' /\ PastTyped' /\ LoadsExist'
    BY <1>1, <1>2, <2>1, <2>2 DEF ClientTyped, PastTyped, LoadsExist
  <2> QED
    BY <1>1, <1>3, <2>3, TypeParts DEF TInv
<1>6. CASE Rollback(c)
  <2>1. UNCHANGED <<queue, stale, loading, draft, late, gone, givenUp, faults>>
        /\ closes' \in 0..MaxCloses
    BY <1>1, <1>6, BoundFacts DEF Rollback, past, client, PastTyped
  <2> QED
    BY <1>1, <1>2, <1>3, <2>1, TypeParts DEF ClientTyped, PastTyped, LoadsExist, TInv
<1>7. CASE Created(c)
  <2>1. PICK a \in answers :
          /\ \/ Install(c, NewQueue({}, a.version, FALSE))
             \/ loading' = [loading EXCEPT ![c] = NoLoad] /\ UNCHANGED <<queue, stale>>
          /\ UNCHANGED <<draft, past, bounds>>
    BY <1>7 DEF Created
  <2>2. NewQueue({}, a.version, FALSE) \in Queues
    BY <1>1, NetworkFacts, NewQueueFacts DEF Vaults
  <2>3. ClientTyped'
    <3>1. CASE Install(c, NewQueue({}, a.version, FALSE))
      BY <1>1, <2>1, <2>2, <3>1, InstallTyped DEF ClientTyped
    <3>2. CASE loading' = [loading EXCEPT ![c] = NoLoad] /\ UNCHANGED <<queue, stale>>
      BY <1>1, <2>1, <3>2 DEF ClientTyped
    <3> QED
      BY <2>1, <3>1, <3>2
  <2>4. PastTyped' /\ loading' = [loading EXCEPT ![c] = NoLoad]
    BY <1>1, <2>1 DEF PastTyped, past, bounds, Install
  <2>5. LoadsExist'
    BY <1>1, <1>2, <2>4 DEF LoadsExist, ClientTyped, NoLoad
  <2> QED
    BY <1>1, <1>3, <2>3, <2>4, <2>5, TypeParts DEF TInv
<1>8. CASE Download(c) \/ GiveUp(c) \/ AutoLock(c)
  <2>1. PICK q \in Queues \cup {Closed} : Install(c, q)
    BY <1>1, <1>8, LoadedFacts DEF Download, GiveUp, AutoLock, CloseVault, TInv
  <2>2. draft' \in [Clients -> Drafts \cup {NoDraft}]
    <3>1. IsOpen(c) => RecoveryCopy(queue[c]) \in Drafts \cup {NoDraft}
      <4>1. ASSUME NEW u \in Queues PROVE [version |-> u.version, edits |-> u.edits] \in Drafts
        BY DEF Queues, Drafts
      <4> QED
        BY <1>1, <4>1, OpenFacts DEF RecoveryCopy
    <3> QED
      BY <1>1, <1>8, <3>1 DEF Download, GiveUp, AutoLock, ClientTyped
  <2>3. ClientTyped'
    BY <1>1, <2>1, <2>2, InstallTyped
  <2>4. LoadsExist'
    BY <1>1, <1>2, <2>1 DEF LoadsExist, ClientTyped, NoLoad, Install
  <2>5. PastTyped'
    <3>1. faults' \in 0..MaxFaults /\ closes' \in 0..MaxCloses
      BY <1>1, <1>8, BoundFacts
      DEF Download, GiveUp, AutoLock, CloseVault, PastTyped, bounds
    <3>2. IsOpen(c) => queue[c].edits \subseteq made
      BY DEF Everywhere, Holding
    <3>3. Unsent(c, {}) \subseteq made /\ Unsent(c, LoadedQueue(c).edits) \subseteq made
      BY <3>2 DEF Unsent
    <3>4. loading[c].step = "download" /\ draft[c] # NoDraft => LoadedQueue(c).edits \subseteq made
      <4>1. draft[c] # NoDraft => draft[c].edits \subseteq made
        BY DEF Everywhere, Holding
      <4> QED
        BY <4>1, LoadedFacts
    <3>5. late \cup givenUp \cup gone \subseteq made
      BY <1>1 DEF PastTyped
    <3>6. late' \cup givenUp' \cup gone' \subseteq made
      <4>1. CASE Download(c)
        BY <3>3, <3>4, <3>5, <4>1 DEF Download
      <4>2. CASE GiveUp(c)
        BY <3>2, <3>3, <3>5, <4>2 DEF GiveUp
      <4>3. CASE AutoLock(c)
        BY <3>5, <4>3 DEF AutoLock, past
      <4> QED
        BY <1>8, <4>1, <4>2, <4>3
    <3> QED
      BY <1>1, <1>2, <3>1, <3>6 DEF PastTyped
  <2> QED
    BY <1>1, <1>3, <2>3, <2>4, <2>5, TypeParts DEF TInv
<1> QED
  BY <1>5, <1>6, <1>7, <1>8

\* An answer goes to the tab that still waits for it, or to nobody.
LEMMA AnswerFacts ==
  ASSUME TypeOK, NEW sender, sender.from \in Clients \cup {Nobody}, sender.for \in Purposes,
         NEW result \in {"ok", "conflict", "lost"}, AnswerTo(sender, result)
  PROVE  /\ answers' \subseteq Answers
         /\ \A a \in answers : a \in answers'
         /\ \A a \in answers' :
              \/ a \in answers
              \/ /\ a.to = sender.from /\ a.for = sender.for /\ a.result = result
                 /\ a.version = Len(versions) + 1 /\ sender.from \in Clients
<1> DEFINE new == [to |-> sender.from, for |-> sender.for, result |-> result,
                   version |-> Len(versions) + 1]
<1>1. Server!Latest = Len(versions) /\ Len(versions) + 1 \in Nat \ {0}
  BY VersionFacts
<1>2. answers \subseteq Answers
  BY DEF TypeOK
<1>3. \/ answers' = answers
      \/ answers' = answers \cup {new} /\ sender.from # Nobody
  BY <1>1 DEF AnswerTo
<1>4. sender.from # Nobody => new \in Answers
  BY <1>1 DEF Answers
<1>5. /\ new.to = sender.from /\ new.for = sender.for /\ new.result = result
      /\ new.version = Len(versions) + 1
  OBVIOUS
<1> HIDE DEF new
<1> QED
  BY <1>2, <1>3, <1>4, <1>5

\* The three ways a handler returns.
LEMMA ServeFacts ==
  ASSUME TInv, Serve
  PROVE  /\ request # Server!NoRequest /\ request' = Server!NoRequest
         /\ caller' = NoCaller
         /\ UNCHANGED <<wire, client, past, closes>>
         /\ faults' \in 0..MaxFaults
         /\ \/ /\ Server!Acceptable /\ versions' = Append(versions, request.content)
               /\ kept' = kept /\ (AnswerTo(caller, "ok") \/ AnswerTo(caller, "lost"))
            \/ /\ ~ Server!Acceptable /\ versions' = versions
               /\ \E k \in Names \ DOMAIN kept :
                    kept' = [i \in DOMAIN kept \cup {k} |->
                               IF i = k THEN request.content ELSE kept[i]]
               /\ AnswerTo(caller, "conflict") \/ AnswerTo(caller, "lost")
            \/ versions' = versions /\ kept' = kept /\ AnswerTo(caller, "lost")
<1>1. PastTyped
  BY TypeParts DEF TInv
<1>2. faults \in 0..MaxFaults /\ (MayFail => faults' \in 0..MaxFaults)
  BY <1>1, BoundFacts DEF PastTyped
<1>3. CASE Accept
  BY <1>2, <1>3 DEF Accept, Respond, Reply, Server!Commit
<1>4. CASE Reject
  BY <1>2, <1>4 DEF Reject, Respond, Reply, Server!Refuse
<1>5. CASE Break
  BY <1>2, <1>5 DEF Break, Reply, Server!Fail
<1> QED
  BY <1>3, <1>4, <1>5 DEF Serve

\* Of the server and of what the network loses.
LEMMA ServerKeepsT ==
  ASSUME TInv, Everywhere \subseteq made,
         \/ Serve
         \/ \E m \in wire : Take(m) \/ Lose(m)
         \/ \E k \in DOMAIN kept : DiscardConflict(k)
  PROVE  TInv'
<1>1. /\ TypeOK /\ ServerTyped /\ ClientTyped /\ PastTyped
      /\ wire \subseteq Messages /\ answers \subseteq Answers
      /\ LoadsExist /\ Numbered /\ CallerKnown
      /\ Server!TypeOK
  BY TypeParts DEF TInv, ServerTyped
<1>2. /\ Len(versions) \in Nat /\ versions \in Seq(Vaults)
      /\ caller.from \in Clients \cup {Nobody} /\ caller.for \in Purposes
      /\ request # Server!NoRequest => request.content \in Vaults
  BY <1>1, VersionFacts, NetworkFacts
<1>3. UNCHANGED <<client, made, late, gone>>
  BY ServeFacts DEF Take, Lose, DiscardConflict, past
<1>4. ClientTyped' /\ Numbered'
  BY <1>1, <1>3 DEF ClientTyped, Numbered, client
<1>5. NoCaller \in [from : Clients \cup {Nobody}, for : Purposes]
  BY DEF NoCaller, Purposes
<1>6. CASE Serve
  <2>1. /\ UNCHANGED <<wire, givenUp, closes>> /\ caller' = NoCaller
        /\ request # Server!NoRequest /\ request' = Server!NoRequest
        /\ faults' \in 0..MaxFaults
    BY <1>6, ServeFacts DEF past
  <2>2. \E result \in {"ok", "conflict", "lost"} : AnswerTo(caller, result)
    BY <1>6, ServeFacts
  <2>3. answers' \subseteq Answers
    BY <1>1, <1>2, <2>2, AnswerFacts
  <2>4. /\ versions' \in Seq(Vaults) /\ Len(versions') \in Nat
        /\ Len(versions') >= Len(versions)
    <3>1. CASE versions' = versions
      BY <1>2, <3>1
    <3>2. CASE versions' = Append(versions, request.content)
      BY <1>2, <2>1, <3>2, AppendProperties
    <3> QED
      BY <1>6, <3>1, <3>2, ServeFacts
  <2>5. DOMAIN kept' \subseteq Names /\ \A k \in DOMAIN kept' : kept'[k] \in Vaults
    BY <1>1, <1>2, <1>6, <2>1, ServeFacts DEF Server!TypeOK
  <2>6. ServerTyped' /\ CallerKnown'
    BY <1>5, <2>1, <2>4, <2>5 DEF ServerTyped, CallerKnown, Server!TypeOK
  <2>7. LoadsExist'
    BY <1>1, <1>2, <1>3, <2>4 DEF LoadsExist, client
  <2> QED
    BY <1>1, <1>3, <1>4, <2>1, <2>3, <2>6, <2>7, TypeParts DEF TInv, PastTyped
<1>7. ASSUME NEW m \in wire, Take(m)
      PROVE  TInv'
  <2>1. /\ UNCHANGED <<versions, kept, answers, givenUp, bounds>> /\ wire' \subseteq wire
        /\ request' = [kind |-> IF m.for = "rollback" THEN "rollback" ELSE "save",
                       base |-> m.base, content |-> m.content]
        /\ caller' = [from |-> m.from, for |-> m.for]
    BY <1>7 DEF Take, Server!Receive, past
  <2>2. /\ m.from \in Clients \cup {Nobody} /\ m.for \in Purposes
        /\ m.base \in Nat /\ m.content \in Vaults
    BY <1>1, NetworkFacts
  <2>3. request' \in Server!Requests
    BY <2>1, <2>2 DEF Server!Requests
  <2>4. request'.kind = IF m.for = "rollback" THEN "rollback" ELSE "save"
    BY <2>1
  <2>5. ServerTyped' /\ CallerKnown'
    BY <1>1, <2>1, <2>2, <2>3, <2>4 DEF ServerTyped, CallerKnown, Server!TypeOK, Server!NoRequest
  <2>6. LoadsExist' /\ PastTyped'
    BY <1>1, <1>3, <2>1 DEF LoadsExist, PastTyped, client, bounds
  <2> QED
    BY <1>1, <1>4, <2>1, <2>5, <2>6, TypeParts DEF TInv
<1>8. ASSUME NEW m \in wire, Lose(m)
      PROVE  TInv'
  <2>1. /\ UNCHANGED <<versions, kept, request, caller, givenUp, closes>> /\ wire' \subseteq wire
        /\ AnswerTo(m, "lost") /\ MayFail
    BY <1>8 DEF Lose, past, server
  <2>2. answers' \subseteq Answers
    BY <1>1, <2>1, NetworkFacts, AnswerFacts
  <2>3. ServerTyped' /\ CallerKnown' /\ LoadsExist'
    BY <1>1, <1>3, <2>1 DEF ServerTyped, CallerKnown, Server!TypeOK, LoadsExist, client
  <2>4. PastTyped'
    BY <1>1, <1>3, <2>1, BoundFacts DEF PastTyped
  <2> QED
    BY <1>1, <1>4, <2>1, <2>2, <2>3, <2>4, TypeParts DEF TInv
<1>9. ASSUME NEW k \in DOMAIN kept, DiscardConflict(k)
      PROVE  TInv'
  <2>1. /\ UNCHANGED <<versions, request, caller, network, bounds>>
        /\ kept' = [i \in DOMAIN kept \ {k} |-> kept[i]]
        /\ givenUp' = givenUp \cup kept[k]
    BY <1>9 DEF DiscardConflict, Server!Discard
  <2>2. kept[k] \subseteq made
    BY DEF Everywhere, Stored
  <2>3. PastTyped'
    BY <1>1, <1>3, <2>1, <2>2 DEF PastTyped, bounds
  <2>4. ServerTyped' /\ CallerKnown' /\ LoadsExist'
    BY <1>1, <1>3, <2>1 DEF ServerTyped, CallerKnown, Server!TypeOK, LoadsExist, client
  <2> QED
    BY <1>1, <1>4, <2>1, <2>3, <2>4, TypeParts DEF TInv, network
<1> QED
  BY <1>6, <1>7, <1>8, <1>9
-----------------------------------------------------------------------------
(* Every step keeps to the protocol *)

\* A request of c's for this purpose is sent, served or answered.
Pending(c, p) ==
  \/ \E m \in wire : m.from = c /\ m.for = p
  \/ caller.from = c /\ caller.for = p
  \/ \E a \in answers : a.to = c /\ a.for = p

\* Whoever waits for a handler has sent the request it serves.
LEMMA CallerInHand ==
  ASSUME TInv, caller.from \in Clients
  PROVE  /\ request # Server!NoRequest
         /\ [from |-> caller.from, for |-> caller.for,
             base |-> request.base, content |-> request.content] \in Sent
BY SyncAssumption DEF TInv, CallerKnown, NoCaller, Sent, InHand

\* Only a queue that uploads waits for a save, only a load that creates the
\* vault for its creation.
LEMMA PendingFacts ==
  ASSUME TInv, MessagesMatch, AnswersMatch, NEW c \in Clients
  PROVE  /\ Pending(c, "save") => IsOpen(c) /\ queue[c].step = "upload"
         /\ Pending(c, "create") => loading[c].step = "creating"
<1>1. \A m \in Sent : /\ m.from = c /\ m.for = "save" => IsOpen(c) /\ queue[c].step = "upload"
                      /\ m.from = c /\ m.for = "create" => loading[c].step = "creating"
  BY DEF MessagesMatch, Uploads
<1>2. \A m \in wire : m \in Sent
  BY DEF Sent
<1>3. CASE caller.from = c
  <2>1. PICK m \in Sent : m.from = c /\ m.for = caller.for
    BY <1>3, CallerInHand
  <2> QED
    BY <1>1, <1>2, <2>1 DEF Pending, AnswersMatch
<1>4. CASE caller.from # c
  BY <1>1, <1>2, <1>4 DEF Pending, AnswersMatch
<1> QED
  BY <1>3, <1>4

\* What a tab waits for is in Sent or answered.
LEMMA SentPending ==
  ASSUME TInv, NEW c \in Clients, NEW p, ~ Pending(c, p)
  PROVE  \A m \in Sent : ~ (m.from = c /\ m.for = p)
BY DEF Pending, Sent, InHand

\* After an abort nobody waits for the requests it names, and no other request
\* is touched.
LEMMA AbortSent ==
  ASSUME TInv, OneInFlight, NEW c \in Clients, NEW P, Abort(c, P), UNCHANGED request
  PROVE  /\ OneInFlight'
         /\ \A m \in Sent' :
              /\ ~ (m.from = c /\ m.for \in P)
              /\ \E n \in Sent : /\ m.for = n.for /\ m.base = n.base /\ m.content = n.content
                                 /\ m.from = n.from \/ m.from = Nobody
         /\ \A a \in answers' : a \in answers /\ (a.to # c \/ a.for \notin P)
<1>1. TypeOK /\ Nobody \notin Clients
  BY SyncAssumption DEF TInv
<1>2. /\ answers' \subseteq answers /\ \A a \in answers' : a.to # c \/ a.for \notin P
      /\ caller'.for = caller.for
      /\ caller'.from = IF caller.from = c /\ caller.for \in P THEN Nobody ELSE caller.from
      /\ \A n \in wire' : \E m \in wire :
              /\ n.for = m.for /\ n.base = m.base /\ n.content = m.content
              /\ IF m.from = c /\ m.for \in P THEN n.from = Nobody ELSE n = m
  BY <1>1, AbortFacts
<1>3. \A n \in wire' : n.from \in Clients => n \in wire
  BY <1>1, <1>2
<1>4. caller'.from \in Clients => caller'.from = caller.from
  BY <1>1, <1>2
<1>5. \A a \in answers : a.to \in Clients
  BY <1>1, NetworkFacts
<1>6. OneInFlight'
  <2>1. ASSUME NEW m \in wire', m.from \in Clients
        PROVE  /\ ~ (caller'.from = m.from /\ caller'.for = m.for)
               /\ \A n \in wire' : n.from = m.from /\ n.for = m.for => n = m
               /\ \A a \in answers' : ~ (a.to = m.from /\ a.for = m.for)
    BY <1>2, <1>3, <1>4, <2>1 DEF OneInFlight
  <2>2. ASSUME NEW a \in answers'
        PROVE  /\ ~ (caller'.from = a.to /\ caller'.for = a.for)
               /\ \A b \in answers' : b.to = a.to /\ b.for = a.for => b = a
    BY <1>2, <1>4, <1>5 DEF OneInFlight
  <2> QED
    BY <2>1, <2>2 DEF OneInFlight
<1>7. ASSUME NEW m \in Sent'
      PROVE  /\ ~ (m.from = c /\ m.for \in P)
             /\ \E n \in Sent : /\ m.for = n.for /\ m.base = n.base /\ m.content = n.content
                                /\ m.from = n.from \/ m.from = Nobody
  <2>1. CASE m \in wire'
    BY <1>1, <1>2, <2>1 DEF Sent
  <2>2. CASE m \notin wire'
    <3>1. /\ request # Server!NoRequest
          /\ m = [from |-> caller'.from, for |-> caller'.for,
                  base |-> request.base, content |-> request.content]
      BY <2>2 DEF Sent, InHand
    <3>2. PICK n \in Sent : n = [from |-> caller.from, for |-> caller.for,
                                 base |-> request.base, content |-> request.content]
      BY <3>1 DEF Sent, InHand
    <3> QED
      BY <1>1, <1>2, <3>1, <3>2
  <2> QED
    BY <2>1, <2>2
<1> QED
  BY <1>2, <1>6, <1>7

\* What the protocol says of tab c alone.
ClientOK(c) ==
  /\ IsOpen(c) =>
      /\ Based(queue[c].version, queue[c].edits)
      /\ queue[c].captured <= queue[c].revision
      /\ queue[c].state = "saved" => queue[c].step = "idle"
      /\ draft[c] = NoDraft
      /\ loading[c].step # "creating"
      /\ queue[c].state = "saved" =>
           \E n \in queue[c].version..Len(versions) : versions[n] = queue[c].edits
  /\ draft[c] # NoDraft =>
      Based(draft[c].version, draft[c].edits) /\ loading[c].step # "creating"

\* What the protocol says of the tabs, tab by tab.
LEMMA ClientParts ==
  /\ (\A c \in Clients : ClientOK(c)) <=> QueuesBased /\ DraftsBased /\ SavedMeansStored
  /\ (\A c \in Clients : ClientOK(c)') <=> QueuesBased' /\ DraftsBased' /\ SavedMeansStored'
BY DEF ClientOK, QueuesBased, DraftsBased, SavedMeansStored

\* The step of one tab: what it must see to for the protocol to hold after it.
LEMMA ClientMoves ==
  ASSUME TInv, Protocol, NEW c \in Clients, UNCHANGED <<versions>>,
         \A d \in Clients : d # c => /\ queue'[d] = queue[d] /\ loading'[d] = loading[d]
                                     /\ draft'[d] = draft[d],
         \A m \in Sent' :
           \/ \E n \in Sent : /\ m.for = n.for /\ m.base = n.base /\ m.content = n.content
                              /\ m.from = n.from \/ m.from = Nobody
           \/ /\ m.from = c
              /\ m.for = "save" => Based(m.base, m.content)
              /\ m.for = "create" => m.base = 0 /\ m.content = {},
         answers' \subseteq answers, OneInFlight',
         \A m \in Sent' : m.from = c => /\ m.for = "save" => Uploads(c, m.content)'
                                        /\ m.for = "create" => loading'[c].step = "creating",
         \A a \in answers' : a.to = c =>
           /\ a.for = "save" =>
                /\ IsOpen(c)' /\ queue'[c].step = "upload"
                /\ a.result = "ok" => Uploads(c, versions[a.version])'
           /\ a.for = "create" => loading'[c].step = "creating",
         ClientOK(c)'
  PROVE  Protocol'
<1>1. /\ MessagesMatch /\ AnswersMatch /\ \A d \in Clients : ClientOK(d)
  BY ClientParts DEF Protocol
<1>2. TypeOK /\ Nobody \notin Clients /\ \A a \in answers : a.to \in Clients
  BY SyncAssumption, NetworkFacts DEF TInv
<1>3. \A v, content : Based(v, content)' <=> Based(v, content)
  BY DEF Based
<1>4. ASSUME NEW d \in Clients, d # c
      PROVE  /\ \A content : Uploads(d, content)' <=> Uploads(d, content)
             /\ IsOpen(d)' <=> IsOpen(d)
             /\ queue'[d] = queue[d] /\ loading'[d] = loading[d]
  BY <1>4 DEF Uploads, IsOpen
<1>5. MessagesMatch'
  <2>1. ASSUME NEW m \in Sent'
        PROVE  /\ m.for = "save" =>
                    /\ Based(m.base, m.content)'
                    /\ m.from \in Clients => Uploads(m.from, m.content)'
               /\ m.for = "create" =>
                    /\ m.base = 0 /\ m.content = {}
                    /\ m.from \in Clients => loading'[m.from].step = "creating"
    <3>1. CASE m.from = c
      BY <1>1, <1>3, <3>1 DEF MessagesMatch
    <3>2. CASE m.from # c
      <4>1. PICK n \in Sent : /\ m.for = n.for /\ m.base = n.base /\ m.content = n.content
                              /\ m.from = n.from \/ m.from = Nobody
        BY <3>2
      <4>2. /\ n.for = "save" =>
                 Based(n.base, n.content) /\ (n.from \in Clients => Uploads(n.from, n.content))
            /\ n.for = "create" =>
                 /\ n.base = 0 /\ n.content = {}
                 /\ n.from \in Clients => loading[n.from].step = "creating"
        BY <1>1 DEF MessagesMatch
      <4> QED
        BY <1>2, <1>3, <1>4, <3>2, <4>1, <4>2
    <3> QED
      BY <3>1, <3>2
  <2> QED
    BY <2>1 DEF MessagesMatch
<1>6. AnswersMatch'
  <2>1. ASSUME NEW a \in answers'
        PROVE  /\ a.result = "ok" => a.version \in 1..Len(versions)
               /\ a.for = "save" =>
                    /\ IsOpen(a.to)' /\ queue'[a.to].step = "upload"
                    /\ a.result = "ok" => Uploads(a.to, versions[a.version])'
               /\ a.for = "create" =>
                    /\ loading'[a.to].step = "creating"
                    /\ a.result = "ok" => versions[a.version] = {}
    <3>1. a \in answers /\ a.to \in Clients
      BY <1>2
    <3>2. CASE a.to = c
      BY <1>1, <3>1, <3>2 DEF AnswersMatch
    <3>3. CASE a.to # c
      BY <1>1, <1>4, <3>1, <3>3 DEF AnswersMatch
    <3> QED
      BY <3>2, <3>3
  <2> QED
    BY <2>1 DEF AnswersMatch, Uploads
<1>7. ASSUME NEW d \in Clients
      PROVE  ClientOK(d)'
  <2>1. CASE d # c
    BY <1>1, <1>3, <1>4, <2>1 DEF ClientOK, IsOpen
  <2> QED
    BY <2>1
<1> QED
  BY <1>5, <1>6, <1>7, ClientParts DEF Protocol

\* Nothing is sent, and a tab's queue goes on waiting for what it waits for.
LEMMA QueueMoves ==
  ASSUME TInv, Protocol, NEW c \in Clients, NEW q \in Queues, IsOpen(c),
         UNCHANGED <<versions, request, caller, wire, answers, loading, draft>>,
         queue' = [queue EXCEPT ![c] = q],
         q.version = queue[c].version, queue[c].edits \subseteq q.edits,
         q.captured <= q.revision,
         queue[c].step = "upload" => q.step = "upload",
         queue[c].step = "upload" /\ q.captured = q.revision =>
           q.edits = queue[c].edits /\ queue[c].captured = queue[c].revision,
         q.state = "saved" =>
           queue[c].state = "saved" /\ q.edits = queue[c].edits /\ q.step = "idle"
  PROVE  Protocol'
<1>1. /\ TypeOK /\ MessagesMatch /\ AnswersMatch /\ OneInFlight /\ ClientOK(c)
  BY ClientParts DEF Protocol, TInv
<1>2. /\ queue'[c] = q /\ q.open
      /\ \A d \in Clients : d # c => queue'[d] = queue[d]
  BY <1>1, OpenFacts DEF TypeOK
<1>3. Sent' = Sent /\ OneInFlight'
  BY <1>1 DEF Sent, InHand, OneInFlight
<1>4. \A content : Uploads(c, content) => Uploads(c, content)'
  BY <1>2 DEF Uploads, IsOpen
<1>5. ClientOK(c)'
  BY <1>1, <1>2 DEF ClientOK, IsOpen, Based
<1>6. \A m \in Sent' : m.from = c => /\ m.for = "save" => Uploads(c, m.content)'
                                     /\ m.for = "create" => loading'[c].step = "creating"
  BY <1>1, <1>3, <1>4 DEF MessagesMatch
<1>7. \A a \in answers' : a.to = c =>
           /\ a.for = "save" =>
                /\ IsOpen(c)' /\ queue'[c].step = "upload"
                /\ a.result = "ok" => Uploads(c, versions[a.version])'
           /\ a.for = "create" => loading'[c].step = "creating"
  BY <1>1, <1>2, <1>4 DEF AnswersMatch, IsOpen
<1> QED
  BY <1>2, <1>3, <1>5, <1>6, <1>7, ClientMoves

\* Of an edit, of a save that starts, and of an export that fails.
LEMMA EditKeepsProtocol ==
  ASSUME TInv, Protocol, NEW c \in Clients,
         \/ Edit(c) \/ TimerFires(c) \/ Retry(c) \/ StaleResumes(c)
         \/ Exported(c) /\ UNCHANGED wire
  PROVE  Protocol'
<1>1. /\ TypeOK /\ ClientOK(c) /\ (IsOpen(c) => queue[c] \in Queues)
  BY ClientParts, OpenFacts DEF Protocol, TInv
<1>2. UNCHANGED <<versions, request, caller, wire, answers, loading, draft>>
  BY DEF Edit, TimerFires, Retry, StaleResumes, Exported, server, network
<1>3. CASE Edit(c)
  <2>1. PICK e : /\ e = Cardinality(made) + 1 /\ e <= MaxEdits /\ IsOpen(c)
                 /\ queue' = [queue EXCEPT ![c] = Changed([queue[c] EXCEPT !.edits = @ \cup {e}])]
    BY <1>3 DEF Edit
  <2>2. e \in Edits
    <3>1. IsFiniteSet(Edits) /\ made \subseteq Edits
      BY <1>1, SyncAssumption, FS_Interval DEF Edits, TypeOK
    <3>2. Cardinality(made) \in Nat
      BY <3>1, FS_Subset, FS_CardinalityType
    <3> QED
      BY <2>1, <3>2, SyncAssumption DEF Edits
  <2>3. PICK p \in Queues : p = [queue[c] EXCEPT !.edits = @ \cup {e}]
    BY <1>1, <2>1, <2>2 DEF Queues, Vaults
  <2>4. /\ p.edits = queue[c].edits \cup {e} /\ p.version = queue[c].version
        /\ p.step = queue[c].step /\ p.state = queue[c].state
        /\ p.captured = queue[c].captured /\ p.revision = queue[c].revision
    BY <1>1, <2>1, <2>3 DEF Queues
  <2>5. PICK q \in Queues :
          /\ q = Changed(p) /\ q.edits = p.edits /\ q.version = p.version
          /\ q.step = p.step /\ q.captured = p.captured /\ q.revision = p.revision + 1
          /\ q.state \in {"saving", "error"} \/ (q.state = p.state /\ Running(p))
    BY ChangedFacts
  <2>6. q.captured <= q.revision /\ q.captured # q.revision /\ q.state # "saved"
    BY <1>1, <2>1, <2>4, <2>5 DEF ClientOK, Running, Queues
  <2>7. queue' = [queue EXCEPT ![c] = q]
    BY <2>1, <2>3, <2>5
  <2> QED
    BY <1>2, <2>1, <2>4, <2>5, <2>6, <2>7, QueueMoves
<1>4. CASE TimerFires(c) \/ Retry(c)
  <2>1. IsOpen(c) /\ queue' = [queue EXCEPT ![c] = Saving(queue[c])]
    BY <1>4 DEF TimerFires, Retry
  <2>2. PICK p \in Queues : p = queue[c]
    BY <1>1, <2>1
  <2>3. PICK q \in Queues :
         /\ q = Saving(p)
         /\ q.edits = p.edits /\ q.version = p.version /\ q.revision = p.revision
         /\ \/ /\ q.step = p.step /\ q.captured = p.captured /\ q.state = p.state
            \/ /\ p.step = "idle" /\ q.step = "export"
               /\ q.captured = p.revision /\ q.state = "saving"
    BY SavingFacts
  <2>4. /\ q.captured <= q.revision
        /\ q.state = "saved" => p.state = "saved" /\ q.step = "idle"
    BY <1>1, <2>1, <2>2, <2>3 DEF ClientOK, Queues
  <2>5. queue' = [queue EXCEPT ![c] = q]
    BY <2>1, <2>2, <2>3
  <2> QED
    BY <1>2, <2>1, <2>2, <2>3, <2>4, <2>5, QueueMoves
<1>5. CASE Exported(c) /\ UNCHANGED wire
  <2>1. CASE queue' = [queue EXCEPT ![c] = Failed(queue[c])]
    <3>1. PICK p \in Queues : p = queue[c] /\ IsOpen(c) /\ p.step = "export"
      BY <1>1, <1>5 DEF Exported
    <3>2. PICK q \in Queues :
           /\ q = Failed(p)
           /\ q.edits = p.edits /\ q.version = p.version /\ q.revision = p.revision
           /\ q.captured = p.captured /\ q.step = "idle" /\ q.state = "error"
      BY FailedFacts
    <3>3. q.captured <= q.revision
      BY <1>1, <3>1, <3>2 DEF ClientOK
    <3>4. queue' = [queue EXCEPT ![c] = q]
      BY <2>1, <3>1, <3>2
    <3> QED
      BY <1>2, <3>1, <3>2, <3>3, <3>4, QueueMoves
  <2>2. CASE Send(c, "save", queue[c].version, queue[c].edits)
    <3>1. IsOpen(c) /\ queue[c].step = "export"
      BY <1>5 DEF Exported
    <3>2. PICK m : m = [from |-> c, for |-> "save", base |-> queue[c].version,
                        content |-> queue[c].edits]
      OBVIOUS
    <3>3. m \in wire /\ m.from = c /\ m.for = "save"
      BY <1>5, <2>2, <3>2 DEF Send
    <3> QED
      BY <3>1, <3>3, PendingFacts DEF Pending, Protocol
  <2> QED
    BY <1>5, <2>1, <2>2 DEF Exported
<1>6. CASE StaleResumes(c)
  <2>1. UNCHANGED queue
    BY <1>6 DEF StaleResumes
  <2> QED
    BY <1>2, <2>1 DEF Protocol, MessagesMatch, AnswersMatch, OneInFlight, QueuesBased, DraftsBased,
        SavedMeansStored, Sent, InHand, Based, Uploads, IsOpen
<1> QED
  BY <1>3, <1>4, <1>5, <1>6

\* A tab sends what it does not wait for already.
LEMMA SendSent ==
  ASSUME TInv, OneInFlight, NEW c \in Clients, NEW p, NEW b, NEW content,
         Send(c, p, b, content), ~ Pending(c, p), UNCHANGED <<caller, answers, request>>
  PROVE  /\ OneInFlight'
         /\ \A m \in Sent' : \/ m \in Sent
                             \/ m.from = c /\ m.for = p /\ m.base = b /\ m.content = content
<1>1. PICK s : s = [from |-> c, for |-> p, base |-> b, content |-> content]
  OBVIOUS
<1>2. wire' = wire \cup {s} /\ s.from = c /\ s.for = p /\ s.base = b /\ s.content = content
  BY <1>1 DEF Send
<1>3. Sent' = Sent \cup {s}
  BY <1>2 DEF Sent, InHand
<1>4. OneInFlight'
  BY <1>2 DEF OneInFlight, Pending
<1> QED
  BY <1>2, <1>3, <1>4

\* Of an export that is sent: the queue waits for just that content.
LEMMA ExportKeepsProtocol ==
  ASSUME TInv, Protocol, NEW c \in Clients, Exported(c)
  PROVE  Protocol'
<1>1. /\ TypeOK /\ MessagesMatch /\ AnswersMatch /\ OneInFlight /\ ClientOK(c)
      /\ IsOpen(c) /\ queue[c] \in Queues /\ queue[c].step = "export"
  BY ClientParts, OpenFacts DEF Protocol, TInv, Exported
<1>2. ~ Pending(c, "save")
  BY <1>1, PendingFacts
<1>3. UNCHANGED <<versions, request, caller, answers, loading, draft>>
  BY DEF Exported, server
<1>4. CASE UNCHANGED wire
  BY <1>4, EditKeepsProtocol
<1>5. CASE ~ UNCHANGED wire
  <2>1. Send(c, "save", queue[c].version, queue[c].edits)
        /\ queue' = [queue EXCEPT ![c] = [queue[c] EXCEPT !.step = "upload"]]
    BY <1>5 DEF Exported
  <2>2. PICK p : p = queue[c]
    OBVIOUS
  <2>3. PICK q : q = [p EXCEPT !.step = "upload"]
    OBVIOUS
  <2>4. /\ q.open = TRUE /\ q.edits = p.edits /\ q.version = p.version /\ q.step = "upload"
        /\ q.state = p.state /\ q.captured = p.captured /\ q.revision = p.revision
    BY <1>1, <2>2, <2>3, OpenFacts DEF Queues
  <2>5. queue'[c] = q /\ \A d \in Clients : d # c => queue'[d] = queue[d]
    BY <1>1, <2>1, <2>2, <2>3 DEF TypeOK
  <2>6. /\ OneInFlight'
        /\ \A m \in Sent' : \/ m \in Sent
                            \/ /\ m.from = c /\ m.for = "save" /\ m.base = p.version
                               /\ m.content = p.edits
    BY <1>1, <1>2, <1>3, <2>1, <2>2, SendSent
  <2>7. \A m \in Sent : ~ (m.from = c /\ m.for = "save")
    BY <1>2, SentPending
  <2>8. Based(p.version, p.edits) /\ p.captured <= p.revision /\ p.state # "saved"
        /\ draft[c] = NoDraft /\ loading[c].step # "creating"
    BY <1>1, <2>2 DEF ClientOK
  <2>9. Uploads(c, p.edits)'
    BY <2>4, <2>5 DEF Uploads, IsOpen
  <2>10. \A m \in Sent' : m.from = c => /\ m.for = "save" => Uploads(c, m.content)'
                                        /\ m.for = "create" => loading'[c].step = "creating"
    <3>1. ASSUME NEW m \in Sent', m.from = c, m.for = "save"
          PROVE  Uploads(c, m.content)'
      <4>1. m.content = p.edits
        BY <2>6, <2>7, <3>1
      <4> QED
        BY <2>9, <4>1
    <3>2. ASSUME NEW m \in Sent', m.from = c, m.for = "create"
          PROVE  loading'[c].step = "creating"
      BY <1>1, <1>3, <2>6, <3>2 DEF MessagesMatch
    <3> QED
      BY <3>1, <3>2
  <2>11. \A a \in answers' : a.to = c => a.for # "save" /\ (a.for = "create" => loading'[c].step = "creating")
    BY <1>1, <1>2, <1>3 DEF AnswersMatch, Pending
  <2>12. ClientOK(c)'
    BY <1>3, <2>4, <2>5, <2>8 DEF ClientOK, IsOpen, Based
  <2> QED
    BY <1>1, <1>3, <2>5, <2>6, <2>8, <2>10, <2>11, <2>12, ClientMoves
<1> QED
  BY <1>4, <1>5

\* Of an answer: it is about the content the queue waits for.
LEMMA AnsweredKeepsProtocol ==
  ASSUME TInv, Protocol, NEW c \in Clients, Answered(c)
  PROVE  Protocol'
<1>1. /\ TypeOK /\ MessagesMatch /\ AnswersMatch /\ OneInFlight /\ ClientOK(c)
  BY ClientParts DEF Protocol, TInv
<1>2. PICK a \in answers :
        /\ a.to = c /\ a.for = "save" /\ answers' = answers \ {a}
        /\ queue' = [queue EXCEPT ![c] = IF a.result = "ok" THEN Acknowledged(queue[c], a.version)
                                         ELSE Failed(queue[c])]
        /\ UNCHANGED <<versions, request, caller, wire, loading, draft>>
  BY DEF Answered, server
<1>3. /\ IsOpen(c) /\ queue[c].step = "upload"
      /\ a.result = "ok" => a.version \in 1..Len(versions) /\ Uploads(c, versions[a.version])
  BY <1>1, <1>2 DEF AnswersMatch
<1>4. PICK p \in Queues : p = queue[c]
  BY <1>1, <1>3, OpenFacts
<1>5. Len(versions) \in Nat /\ a.version \in Nat \ {0}
  BY <1>1, VersionFacts, NetworkFacts
<1>6. PICK q \in Queues :
        /\ queue' = [queue EXCEPT ![c] = q]
        /\ q.edits = p.edits /\ q.revision = p.revision /\ q.step # "upload"
        /\ q.captured <= q.revision
        /\ \/ q.version = p.version /\ q.state # "saved"
           \/ /\ a.result = "ok" /\ q.version = a.version
              /\ q.state = "saved" => p.captured = p.revision /\ q.step = "idle"
  <2>1. p.captured <= p.revision /\ p.revision <= p.revision
    <3>1. p.captured <= p.revision
      BY <1>1, <1>3, <1>4 DEF ClientOK
    <3>2. p.revision \in Nat
      BY DEF Queues
    <3> QED
      BY <3>1, <3>2
  <2>2. CASE a.result = "ok"
    <3>1. PICK q \in Queues :
            /\ q = Acknowledged(p, a.version)
            /\ q.edits = p.edits /\ q.version = a.version /\ q.revision = p.revision
            /\ \/ /\ p.captured = p.revision
                  /\ q.step = "idle" /\ q.captured = p.captured /\ q.state = "saved"
               \/ q.step = "export" /\ q.captured = p.revision /\ q.state = "saving"
      BY <1>5, AcknowledgedFacts
    <3> QED
      BY <1>2, <1>4, <2>1, <2>2, <3>1
  <2>3. CASE a.result # "ok"
    <3>1. PICK q \in Queues :
            /\ q = Failed(p)
            /\ q.edits = p.edits /\ q.version = p.version /\ q.revision = p.revision
            /\ q.captured = p.captured /\ q.step = "idle" /\ q.state = "error"
      BY FailedFacts
    <3> QED
      BY <1>2, <1>4, <2>1, <2>3, <3>1
  <2> QED
    BY <2>2, <2>3
<1>7. queue'[c] = q /\ q.open = TRUE /\ \A d \in Clients : d # c => queue'[d] = queue[d]
  BY <1>1, <1>6, OpenFacts DEF TypeOK
<1>8. Sent' = Sent /\ OneInFlight'
  BY <1>1, <1>2 DEF Sent, InHand, OneInFlight
<1>9. \A m \in Sent' : m.from = c => m.for # "save" /\ (m.for = "create" => loading'[c].step = "creating")
  <2>1. ASSUME NEW m \in Sent, m.from = c, m.for = "save" PROVE FALSE
    <3>1. m \notin wire
      BY <1>1, <1>2, <2>1 DEF OneInFlight
    <3>2. ~ (caller.from = c /\ caller.for = "save")
      BY <1>1, <1>2 DEF OneInFlight
    <3> QED
      BY <2>1, <3>1, <3>2 DEF Sent, InHand
  <2> QED
    BY <1>1, <1>2, <1>8, <2>1 DEF MessagesMatch
<1>10. \A b \in answers' : b.to = c => b.for # "save" /\ (b.for = "create" => loading'[c].step = "creating")
  BY <1>1, <1>2 DEF OneInFlight, AnswersMatch
<1>11. ClientOK(c)'
  <2>1. CASE q.version = p.version /\ q.state # "saved"
    BY <1>1, <1>2, <1>3, <1>4, <1>6, <1>7, <2>1 DEF ClientOK, IsOpen, Based
  <2>2. CASE /\ a.result = "ok" /\ q.version = a.version
             /\ q.state = "saved" => p.captured = p.revision /\ q.step = "idle"
    <3>1. /\ a.version \in 1..Len(versions) /\ versions[a.version] \subseteq p.edits
          /\ p.captured = p.revision => versions[a.version] = p.edits
      BY <1>3, <1>4, <2>2 DEF Uploads
    <3>2. q.state = "saved" => \E n \in q.version..Len(versions) : versions[n] = q.edits
      BY <1>5, <1>6, <2>2, <3>1
    <3> QED
      BY <1>1, <1>2, <1>3, <1>4, <1>6, <1>7, <2>2, <3>1, <3>2 DEF ClientOK, IsOpen, Based
  <2> QED
    BY <1>6, <2>1, <2>2
<1> QED
  BY <1>1, <1>2, <1>7, <1>8, <1>9, <1>10, <1>11, ClientMoves

\* Of a load that begins, goes on or is dropped.
LEMMA LoadKeepsProtocol ==
  ASSUME TInv, Protocol, NEW c \in Clients,
         BeginOpen(c) \/ Metadata(c) \/ LoadFails(c) \/ Rollback(c) \/ RolledBack(c)
  PROVE  Protocol'
<1>1. /\ TypeOK /\ MessagesMatch /\ AnswersMatch /\ OneInFlight /\ ClientOK(c)
      /\ Nobody \notin Clients
  BY ClientParts, SyncAssumption DEF Protocol, TInv
<1>2. UNCHANGED <<versions, request, queue, draft>>
  BY DEF BeginOpen, Metadata, LoadFails, Rollback, RolledBack, server, client
<1>3. \A content : Uploads(c, content)' <=> Uploads(c, content)
  BY <1>2 DEF Uploads, IsOpen
\* What is sent or answered for c keeps its place unless c's load moves on.
<1>4. ASSUME NEW l, loading' = [loading EXCEPT ![c] = l] PROVE
        loading'[c] = l /\ \A d \in Clients : d # c => loading'[d] = loading[d]
  BY <1>1, <1>4 DEF TypeOK
<1>5. CASE BeginOpen(c) \/ LoadFails(c) \/ RolledBack(c)
  <2>1. /\ OneInFlight' /\ answers' \subseteq answers
        /\ \A m \in Sent' : \E n \in Sent :
              /\ m.for = n.for /\ m.base = n.base /\ m.content = n.content
              /\ m.from = n.from \/ m.from = Nobody
    <3>1. CASE \E P \in SUBSET Purposes : Abort(c, P)
      BY <1>1, <1>2, <3>1, AbortSent
    <3>2. CASE UNCHANGED <<wire, caller>> /\ answers' \subseteq answers
      <4>1. Sent' = Sent
        BY <1>2, <3>2 DEF Sent, InHand
      <4> QED
        BY <1>1, <3>2, <4>1 DEF OneInFlight
    <3> QED
      BY <1>5, <3>1, <3>2 DEF BeginOpen, LoadFails, RolledBack, server, network, Purposes
  <2>2. \/ UNCHANGED loading
        \/ /\ \E l : loading' = [loading EXCEPT ![c] = l] /\ l.step # "creating"
           /\ \A m \in Sent' : m.from = c => m.for # "create"
           /\ \A a \in answers' : a.to = c => a.for # "create"
    <3>1. CASE BeginOpen(c)
      <4>1. ~ Pending(c, "create")
        BY <1>1, <3>1, PendingFacts DEF BeginOpen, NoLoad
      <4>2. Sent' = Sent /\ UNCHANGED answers
        BY <1>2, <3>1 DEF Sent, InHand, BeginOpen, network, server
      <4>3. PICK l : l = [step |-> "metadata", version |-> 0]
        OBVIOUS
      <4> QED
        <5>1. loading' = [loading EXCEPT ![c] = l] /\ l.step # "creating"
          BY <3>1, <4>3 DEF BeginOpen
        <5>2. \A m \in Sent : m.from = c => m.for # "create"
          BY <4>1, SentPending
        <5> QED
          BY <4>1, <4>2, <5>1, <5>2 DEF Pending
    <3>2. ASSUME Abort(c, {"create"}) \/ Abort(c, {"rollback", "create"})
          PROVE  /\ \A m \in Sent' : m.from = c => m.for # "create"
                 /\ \A a \in answers' : a.to = c => a.for # "create"
      BY <1>1, <1>2, <3>2, AbortSent
    <3>3. CASE LoadFails(c)
      <4>1. loading' = [loading EXCEPT ![c] = NoLoad] /\ Abort(c, {"create"})
        BY <3>3 DEF LoadFails
      <4>2. NoLoad.step # "creating"
        BY DEF NoLoad
      <4> QED
        BY <3>2, <4>1, <4>2
    <3>4. CASE RolledBack(c) /\ ~ UNCHANGED loading
      <4>1. PICK l \in {[step |-> "metadata", version |-> 0], NoLoad} :
              loading' = [loading EXCEPT ![c] = l]
        BY <3>4 DEF RolledBack
      <4>2. l.step # "creating"
        BY <4>1 DEF NoLoad
      <4>3. Abort(c, {"rollback", "create"})
        BY <3>4 DEF RolledBack
      <4> QED
        BY <3>2, <4>1, <4>2, <4>3
    <3> QED
      BY <1>5, <3>1, <3>3, <3>4
  <2>3. /\ \A d \in Clients : d # c => loading'[d] = loading[d]
        /\ loading'[c].step = "creating" => loading[c].step = "creating"
    BY <1>4, <2>2
  <2>4. \A m \in Sent' : m.from = c => /\ m.for = "save" => Uploads(c, m.content)'
                                       /\ m.for = "create" => loading'[c].step = "creating"
    <3>1. ASSUME NEW m \in Sent', m.from = c, m.for = "save"
          PROVE  Uploads(c, m.content)'
      BY <1>1, <1>3, <2>1, <3>1 DEF MessagesMatch
    <3>2. ASSUME NEW m \in Sent', m.from = c, m.for = "create"
          PROVE  loading'[c].step = "creating"
      BY <1>1, <2>1, <2>2, <3>2 DEF MessagesMatch
    <3> QED
      BY <3>1, <3>2
  <2>5. \A a \in answers' : a.to = c =>
           /\ a.for = "save" =>
                /\ IsOpen(c)' /\ queue'[c].step = "upload"
                /\ a.result = "ok" => Uploads(c, versions[a.version])'
           /\ a.for = "create" => loading'[c].step = "creating"
    <3>1. ASSUME NEW a \in answers', a.to = c, a.for = "save"
          PROVE  /\ IsOpen(c)' /\ queue'[c].step = "upload"
                 /\ a.result = "ok" => Uploads(c, versions[a.version])'
      BY <1>1, <1>2, <1>3, <2>1, <3>1 DEF AnswersMatch, IsOpen
    <3>2. ASSUME NEW a \in answers', a.to = c, a.for = "create"
          PROVE  loading'[c].step = "creating"
      BY <1>1, <2>1, <2>2, <3>2 DEF AnswersMatch
    <3> QED
      BY <3>1, <3>2
  <2>6. ClientOK(c)'
    BY <1>1, <1>2, <2>3 DEF ClientOK, IsOpen, Based
  <2> QED
    BY <1>2, <2>1, <2>3, <2>4, <2>5, <2>6, ClientMoves
<1>6. CASE Metadata(c)
  <2>1. /\ UNCHANGED <<caller, answers>>
        /\ loading[c].step = "metadata" /\ ~ Pending(c, "create")
    BY <1>1, <1>6, PendingFacts DEF Metadata, server
  <2>2. Server!Latest = Len(versions) /\ Len(versions) \in Nat
    BY <1>1, VersionFacts
  <2>3. CASE Server!Latest = 0 /\ Send(c, "create", 0, {})
             /\ loading' = [loading EXCEPT ![c] = [loading[c] EXCEPT !.step = "creating"]]
    <3>1. /\ OneInFlight'
          /\ \A m \in Sent' : \/ m \in Sent
                              \/ m.from = c /\ m.for = "create" /\ m.base = 0 /\ m.content = {}
      BY <1>1, <1>2, <2>1, <2>3, SendSent
    <3>2. ~ IsOpen(c) /\ draft[c] = NoDraft
      BY <1>1, <2>2, <2>3 DEF ClientOK, Based
    <3>3. loading'[c].step = "creating"
      <4>1. loading[c] \in Loads
        BY <1>1, <2>1, LoadFacts
      <4>2. [loading[c] EXCEPT !.step = "creating"].step = "creating"
        BY <4>1 DEF Loads
      <4> QED
        BY <1>4, <2>3, <4>2
    <3>4. ClientOK(c)'
      BY <1>2, <3>2 DEF ClientOK, IsOpen
    <3>5. \A m \in Sent : m.from = c => m.for # "save"
      BY <1>1, <3>2 DEF MessagesMatch, Uploads
    <3>6. \A a \in answers : a.to = c => a.for # "save"
      BY <1>1, <3>2 DEF AnswersMatch
    <3> QED
      BY <1>2, <1>4, <2>1, <2>3, <3>1, <3>3, <3>4, <3>5, <3>6, ClientMoves
  <2>4. CASE /\ UNCHANGED wire
             /\ loading' = [loading EXCEPT ![c] = [step |-> "download", version |-> Server!Latest]]
    <3>1. Sent' = Sent /\ OneInFlight'
      BY <1>1, <1>2, <2>1, <2>4 DEF Sent, InHand, OneInFlight
    <3>2. loading'[c].step = "download" /\ \A d \in Clients : d # c => loading'[d] = loading[d]
      BY <1>4, <2>4
    <3>3. ClientOK(c)'
      BY <1>1, <1>2, <3>2 DEF ClientOK, IsOpen, Based
    <3>4. \A m \in Sent' : m.from = c => /\ m.for = "save" => Uploads(c, m.content)'
                                         /\ m.for # "create"
      BY <1>1, <1>3, <2>1, <3>1, SentPending DEF MessagesMatch
    <3>5. \A a \in answers' : a.to = c =>
           /\ a.for = "save" =>
                /\ IsOpen(c)' /\ queue'[c].step = "upload"
                /\ a.result = "ok" => Uploads(c, versions[a.version])'
           /\ a.for # "create"
      BY <1>1, <1>2, <1>3, <2>1 DEF AnswersMatch, IsOpen, Pending
    <3> QED
      BY <1>2, <2>1, <3>1, <3>2, <3>3, <3>4, <3>5, ClientMoves
  <2> QED
    BY <1>6, <2>3, <2>4 DEF Metadata
<1>7. CASE Rollback(c)
  <2>1. /\ UNCHANGED <<caller, answers, loading>> /\ ~ Pending(c, "rollback")
        /\ \E content : Send(c, "rollback", 0, content)
    BY <1>7 DEF Rollback, HistoryOffered, RollingBack, Pending, server, client
  <2>2. /\ OneInFlight'
        /\ \A m \in Sent' : m \in Sent \/ (m.from = c /\ m.for = "rollback")
    BY <1>1, <1>2, <2>1, SendSent
  <2>3. ClientOK(c)'
    BY <1>1, <1>2, <2>1 DEF ClientOK, IsOpen, Based
  <2>4. \A m \in Sent' : m.from = c => /\ m.for = "save" => Uploads(c, m.content)'
                                       /\ m.for = "create" => loading'[c].step = "creating"
    BY <1>1, <1>3, <2>1, <2>2 DEF MessagesMatch
  <2>5. \A a \in answers' : a.to = c =>
           /\ a.for = "save" =>
                /\ IsOpen(c)' /\ queue'[c].step = "upload"
                /\ a.result = "ok" => Uploads(c, versions[a.version])'
           /\ a.for = "create" => loading'[c].step = "creating"
    BY <1>1, <1>2, <1>3, <2>1 DEF AnswersMatch, IsOpen
  <2> QED
    BY <1>2, <2>1, <2>2, <2>3, <2>4, <2>5, ClientMoves
<1> QED
  BY <1>5, <1>6, <1>7

\* A tab that waits for no save and no creation once its queue is replaced.
LEMMA ReplaceKeepsProtocol ==
  ASSUME TInv, Protocol, NEW c \in Clients, UNCHANGED <<versions, request>>,
         \E q : queue' = [queue EXCEPT ![c] = q],
         \E l : loading' = [loading EXCEPT ![c] = l],
         \E d : draft' = [draft EXCEPT ![c] = d],
         OneInFlight', answers' \subseteq answers,
         \A m \in Sent' :
           /\ ~ (m.from = c /\ m.for \in {"save", "create"})
           /\ \E n \in Sent : /\ m.for = n.for /\ m.base = n.base /\ m.content = n.content
                              /\ m.from = n.from \/ m.from = Nobody,
         \A a \in answers' : ~ (a.to = c /\ a.for \in {"save", "create"}),
         ClientOK(c)'
  PROVE  Protocol'
<1>1. \A d \in Clients : d # c => /\ queue'[d] = queue[d] /\ loading'[d] = loading[d]
                                  /\ draft'[d] = draft[d]
  BY DEF TInv, TypeOK
<1> QED
  BY <1>1, ClientMoves

\* Of a vault that is created.
LEMMA CreatedKeepsProtocol ==
  ASSUME TInv, Protocol, NEW c \in Clients, Created(c)
  PROVE  Protocol'
<1>1. /\ TypeOK /\ MessagesMatch /\ AnswersMatch /\ OneInFlight /\ ClientOK(c)
  BY ClientParts DEF Protocol, TInv
<1>2. PICK a \in answers :
        /\ a.to = c /\ a.for = "create" /\ answers' = answers \ {a}
        /\ IF a.result = "ok" THEN Install(c, NewQueue({}, a.version, FALSE))
           ELSE /\ loading' = [loading EXCEPT ![c] = NoLoad]
                /\ UNCHANGED <<versions, kept, request, queue, stale>>
        /\ UNCHANGED <<caller, wire, draft, past, bounds>>
  BY DEF Created
<1>3. UNCHANGED <<versions, request>> /\ loading' = [loading EXCEPT ![c] = NoLoad]
  BY <1>2 DEF Install
<1>4. /\ loading[c].step = "creating" /\ ~ IsOpen(c) /\ draft[c] = NoDraft
      /\ a.result = "ok" => a.version \in 1..Len(versions) /\ versions[a.version] = {}
  BY <1>1, <1>2 DEF AnswersMatch, ClientOK
<1>5. Len(versions) \in Nat /\ a.version \in Nat \ {0} /\ {} \in Vaults
  BY <1>1, VersionFacts, NetworkFacts DEF Vaults
<1>6. loading'[c] = NoLoad /\ draft'[c] = NoDraft
  BY <1>1, <1>2, <1>3, <1>4 DEF TypeOK
<1>7. Sent' = Sent /\ OneInFlight' /\ answers' \subseteq answers
  BY <1>1, <1>2, <1>3 DEF Sent, InHand, OneInFlight
<1>8. \A m \in Sent' : ~ (m.from = c /\ m.for \in {"save", "create"})
  <2>1. ASSUME NEW m \in Sent, m.from = c, m.for = "create" PROVE FALSE
    BY <1>1, <1>2, <2>1 DEF OneInFlight, Sent, InHand
  <2>2. ASSUME NEW m \in Sent, m.from = c, m.for = "save" PROVE FALSE
    BY <1>1, <1>4, <2>2 DEF MessagesMatch, Uploads
  <2> QED
    BY <1>7, <2>1, <2>2
<1>9. \A b \in answers' : ~ (b.to = c /\ b.for \in {"save", "create"})
  BY <1>1, <1>2, <1>4 DEF OneInFlight, AnswersMatch
<1>10. PICK q : /\ queue' = [queue EXCEPT ![c] = q]
                /\ q = Closed \/ q \in Queues
                /\ q.open =>
                     /\ q.version \in 1..Len(versions) /\ versions[q.version] = {} /\ q.edits = {}
                     /\ q.captured <= q.revision /\ q.step = "idle"
  <2>1. CASE a.result = "ok"
    <3>1. PICK q \in Queues :
            /\ q = NewQueue({}, a.version, FALSE) /\ q.edits = {} /\ q.version = a.version
            /\ q.step = "idle" /\ q.captured <= q.revision
      <4>1. PICK e \in Vaults, v \in Nat \ {0} : e = {} /\ v = a.version
        BY <1>5
      <4>2. PICK q \in Queues : q = NewQueue(e, v, FALSE)
        BY NewQueueFacts
      <4>3. q.edits = e /\ q.version = v /\ q.step = "idle" /\ q.captured <= q.revision
        BY <4>2, NewQueueFacts
      <4> QED
        BY <4>1, <4>2, <4>3
    <3>2. queue' = [queue EXCEPT ![c] = q]
      BY <1>2, <2>1, <3>1 DEF Install
    <3> QED
      BY <1>4, <2>1, <3>1, <3>2
  <2>2. CASE a.result # "ok"
    <3>1. queue' = [queue EXCEPT ![c] = Closed]
      BY <1>1, <1>2, <1>4, <2>2, OpenFacts DEF TypeOK
    <3>2. Closed.open = FALSE
      BY DEF Closed
    <3> QED
      BY <3>1, <3>2
  <2> QED
    BY <2>1, <2>2
<1>11. queue'[c] = q
  BY <1>1, <1>10 DEF TypeOK
<1>12. ClientOK(c)'
  <2>1. q.open => \E n \in q.version..Len(versions) : versions[n] = q.edits
    <3>1. \A n \in 1..Len(versions) : n \in n..Len(versions)
      BY <1>5
    <3> QED
      BY <1>10, <3>1
  <2>2. NoLoad.step # "creating"
    BY DEF NoLoad
  <2> QED
    BY <1>3, <1>6, <1>10, <1>11, <2>1, <2>2 DEF ClientOK, IsOpen, Based
<1>13. draft' = [draft EXCEPT ![c] = NoDraft]
  BY <1>1, <1>2, <1>4 DEF TypeOK
<1>14. \A m \in Sent' : \E n \in Sent : /\ m.for = n.for /\ m.base = n.base /\ m.content = n.content
                                        /\ m.from = n.from \/ m.from = Nobody
  BY <1>7
<1> QED
  BY <1>3, <1>7, <1>8, <1>9, <1>10, <1>12, <1>13, <1>14, ReplaceKeepsProtocol

\* Of a vault that is loaded, closed or locked.
LEMMA InstallKeepsProtocol ==
  ASSUME TInv, Protocol, NEW c \in Clients, Download(c) \/ GiveUp(c) \/ AutoLock(c)
  PROVE  Protocol'
<1>1. /\ TypeOK /\ MessagesMatch /\ AnswersMatch /\ OneInFlight /\ ClientOK(c)
  BY ClientParts DEF Protocol, TInv
<1>2. UNCHANGED <<versions, request>> /\ loading' = [loading EXCEPT ![c] = NoLoad]
  BY DEF Download, GiveUp, AutoLock, CloseVault, Install
<1>3. loading'[c].step # "creating"
  BY <1>1, <1>2 DEF TypeOK, NoLoad
<1>4. PICK P : Abort(c, P) /\ "save" \in P /\ ("create" \in P \/ ~ Pending(c, "create"))
  BY PendingFacts, <1>1 DEF Download, GiveUp, AutoLock, CloseVault
<1>5. /\ OneInFlight' /\ answers' \subseteq answers
      /\ \A m \in Sent' :
           /\ ~ (m.from = c /\ m.for \in P)
           /\ \E n \in Sent : /\ m.for = n.for /\ m.base = n.base /\ m.content = n.content
                              /\ m.from = n.from \/ m.from = Nobody
      /\ \A a \in answers' : ~ (a.to = c /\ a.for \in P)
  BY <1>1, <1>2, <1>4, AbortSent
<1>6. ~ Pending(c, "create") =>
        /\ \A m \in Sent' : ~ (m.from = c /\ m.for = "create")
        /\ \A a \in answers' : ~ (a.to = c /\ a.for = "create")
  <2>1. Nobody # c
    BY SyncAssumption
  <2> QED
    BY <1>5, <2>1, SentPending DEF Pending
<1>7. /\ \A m \in Sent' : ~ (m.from = c /\ m.for \in {"save", "create"})
      /\ \A a \in answers' : ~ (a.to = c /\ a.for \in {"save", "create"})
  BY <1>4, <1>5, <1>6
<1>8. CASE Download(c)
  <2>1. PICK q : q = LoadedQueue(c)
    OBVIOUS
  <2>2. /\ queue' = [queue EXCEPT ![c] = q] /\ draft' = [draft EXCEPT ![c] = NoDraft]
        /\ loading[c].step = "download"
    BY <1>8, <2>1 DEF Download, Install
  <2>3. /\ q \in Queues /\ q.step = "idle" /\ q.captured <= q.revision
        /\ draft[c] # NoDraft =>
              /\ q.edits = draft[c].edits /\ q.version = draft[c].version /\ q.state = "error"
        /\ draft[c] = NoDraft =>
              /\ Len(versions) \in 1..Len(versions)
              /\ q.edits = versions[Len(versions)] /\ q.version = loading[c].version
    BY <2>1, <2>2, LoadedFacts
  <2>4. loading[c].version \in 1..Len(versions) /\ Len(versions) \in Nat
    BY <1>1, <2>2, VersionFacts DEF TInv, LoadsExist
  <2>5. Based(q.version, q.edits)
    BY <1>1, <2>3, <2>4 DEF ClientOK, Based
  <2>6. q.state = "saved" => \E n \in q.version..Len(versions) : versions[n] = q.edits
    BY <2>3, <2>4
  <2>7. queue'[c] = q /\ draft'[c] = NoDraft
    BY <1>1, <2>2 DEF TypeOK
  <2>8. ClientOK(c)'
    BY <1>2, <1>3, <2>3, <2>5, <2>6, <2>7 DEF ClientOK, Based
  <2> QED
    BY <1>2, <1>5, <1>7, <2>2, <2>8, ReplaceKeepsProtocol
<1>9. CASE GiveUp(c) \/ AutoLock(c)
  <2>1. PICK d \in {NoDraft, [version |-> queue[c].version, edits |-> queue[c].edits]} :
          draft' = [draft EXCEPT ![c] = d]
    BY <1>1, <1>9 DEF GiveUp, AutoLock, RecoveryCopy, ClientOK, TypeOK
  <2>2. IsOpen(c) /\ queue' = [queue EXCEPT ![c] = Closed]
    BY <1>9 DEF GiveUp, AutoLock, CloseVault, Install
  <2>3. queue'[c] = Closed /\ draft'[c] = d
    BY <1>1, <2>1, <2>2 DEF TypeOK
  <2>4. d = NoDraft \/ (d.version = queue[c].version /\ d.edits = queue[c].edits)
    BY <2>1
  <2>5. ClientOK(c)'
    BY <1>1, <1>2, <1>3, <2>2, <2>3, <2>4 DEF ClientOK, Based, IsOpen, Closed
  <2> QED
    BY <1>2, <1>5, <1>7, <2>1, <2>2, <2>5, ReplaceKeepsProtocol
<1> QED
  BY <1>8, <1>9

\* The server has the versions it had, and may have one more.
Grows == versions' = versions \/ (\E content \in Vaults : versions' = Append(versions, content))

\* Versions that are there stay, so a vault based on one stays based on it.
LEMMA GrowsFacts ==
  ASSUME TypeOK, Grows
  PROVE  /\ Len(versions') \in Nat /\ Len(versions) \in Nat /\ Len(versions) <= Len(versions')
         /\ \A n \in 1..Len(versions) : n \in 1..Len(versions') /\ versions'[n] = versions[n]
         /\ \A v \in Nat \ {0} : \A content : Based(v, content) => Based(v, content)'
<1>1. versions \in Seq(Vaults) /\ Len(versions) \in Nat
  BY VersionFacts
<1>2. /\ Len(versions') \in Nat /\ Len(versions) <= Len(versions')
      /\ versions' # versions => Len(versions') = Len(versions) + 1
      /\ \A n \in 1..Len(versions) : versions'[n] = versions[n]
  BY <1>1, AppendProperties DEF Grows
<1> QED
  BY <1>1, <1>2 DEF Based

\* What the server and the network do to messages, for the tabs that look on.
LEMMA ServerMoves ==
  ASSUME TInv, Protocol, Grows, UNCHANGED <<queue, loading, draft>>,
         \A m \in Sent' : m \in Sent, OneInFlight',
         \A a \in answers' :
           \/ a \in answers
           \/ /\ a.to \in Clients
              /\ \E m \in Sent : /\ m.from = a.to /\ m.for = a.for
                                 /\ a.result = "ok" => /\ a.version \in 1..Len(versions')
                                                       /\ versions'[a.version] = m.content
  PROVE  Protocol'
<1>1. /\ TypeOK /\ MessagesMatch /\ AnswersMatch /\ OneInFlight
      /\ \A c \in Clients : ClientOK(c)
  BY ClientParts DEF Protocol, TInv
<1>2. /\ Len(versions') \in Nat /\ Len(versions) \in Nat /\ Len(versions) <= Len(versions')
      /\ \A n \in 1..Len(versions) : n \in 1..Len(versions') /\ versions'[n] = versions[n]
      /\ \A v \in Nat \ {0} : \A content : Based(v, content) => Based(v, content)'
  BY <1>1, GrowsFacts
<1>3. \A c \in Clients : /\ \A content : Uploads(c, content)' <=> Uploads(c, content)
                         /\ IsOpen(c)' <=> IsOpen(c)
  BY DEF Uploads, IsOpen
<1>4. \A v, content : Based(v, content) => v \in Nat \ {0}
  BY <1>2 DEF Based
<1>5. MessagesMatch'
  <2>1. ASSUME NEW m \in Sent'
        PROVE  /\ m.for = "save" =>
                    /\ Based(m.base, m.content)'
                    /\ m.from \in Clients => Uploads(m.from, m.content)'
               /\ m.for = "create" =>
                    /\ m.base = 0 /\ m.content = {}
                    /\ m.from \in Clients => loading'[m.from].step = "creating"
    BY <1>1, <1>2, <1>3, <1>4 DEF MessagesMatch
  <2> QED
    BY <2>1 DEF MessagesMatch
<1>6. AnswersMatch'
  <2>1. ASSUME NEW a \in answers'
        PROVE  /\ a.result = "ok" => a.version \in 1..Len(versions')
               /\ a.for = "save" =>
                    /\ IsOpen(a.to)' /\ queue'[a.to].step = "upload"
                    /\ a.result = "ok" => Uploads(a.to, versions[a.version])'
               /\ a.for = "create" =>
                    /\ loading'[a.to].step = "creating"
                    /\ a.result = "ok" => versions'[a.version] = {}
    <3>1. CASE a \in answers
      <4>1. a.to \in Clients
        BY <1>1, <3>1, NetworkFacts
      <4>2. /\ a.result = "ok" => a.version \in 1..Len(versions)
            /\ a.for = "save" =>
                 /\ IsOpen(a.to) /\ queue[a.to].step = "upload"
                 /\ a.result = "ok" => Uploads(a.to, versions[a.version])
            /\ a.for = "create" =>
                 /\ loading[a.to].step = "creating"
                 /\ a.result = "ok" => versions[a.version] = {}
        BY <1>1, <3>1 DEF AnswersMatch
      <4>3. a.result = "ok" => /\ a.version \in 1..Len(versions')
                               /\ versions'[a.version] = versions[a.version]
        BY <1>2, <4>2
      <4> QED
        BY <1>3, <4>1, <4>2, <4>3 DEF Uploads, IsOpen
    <3>2. CASE a \notin answers
      <4>1. PICK m \in Sent : /\ a.to \in Clients /\ m.from = a.to /\ m.for = a.for
                              /\ a.result = "ok" => /\ a.version \in 1..Len(versions')
                                                    /\ versions'[a.version] = m.content
        BY <3>2
      <4>2. /\ m.for = "save" => Uploads(a.to, m.content)
            /\ m.for = "create" => m.content = {} /\ loading[a.to].step = "creating"
        BY <1>1, <4>1 DEF MessagesMatch
      <4> QED
        BY <4>1, <4>2 DEF Uploads, IsOpen
    <3> QED
      BY <3>1, <3>2
  <2> QED
    BY <2>1 DEF AnswersMatch, Uploads
<1>7. ASSUME NEW c \in Clients
      PROVE  ClientOK(c)'
  <2>1. IsOpen(c) /\ queue[c].state = "saved" =>
          \E n \in queue[c].version..Len(versions') : versions'[n] = queue[c].edits
    <3>1. SUFFICES ASSUME IsOpen(c), queue[c].state = "saved"
                   PROVE  \E n \in queue[c].version..Len(versions') : versions'[n] = queue[c].edits
      OBVIOUS
    <3>2. PICK n \in queue[c].version..Len(versions) : versions[n] = queue[c].edits
      BY <1>1, <3>1 DEF ClientOK
    <3>3. PICK v \in 1..Len(versions) : v = queue[c].version
      BY <1>1, <3>1 DEF ClientOK, Based
    <3>4. n \in v..Len(versions') /\ n \in 1..Len(versions)
      BY <1>2, <3>2, <3>3
    <3> QED
      BY <1>2, <3>2, <3>3, <3>4
  <2> QED
    BY <1>1, <1>2, <1>4, <2>1 DEF ClientOK, IsOpen
<1> QED
  BY <1>5, <1>6, <1>7, ClientParts DEF Protocol

\* Of a request that is taken up, or lost.
LEMMA TakeKeepsProtocol ==
  ASSUME TInv, Protocol, NEW m \in wire, Take(m) \/ Lose(m)
  PROVE  Protocol'
<1>1. /\ TypeOK /\ OneInFlight /\ Nobody \notin Clients /\ m \in Sent
      /\ m.from \in Clients \cup {Nobody} /\ m.for \in Purposes
      /\ m = [from |-> m.from, for |-> m.for, base |-> m.base, content |-> m.content]
  BY SyncAssumption, NetworkFacts DEF Protocol, TInv, Sent
<1>2. Grows /\ UNCHANGED <<queue, loading, draft>> /\ wire' = wire \ {m}
  BY DEF Take, Lose, Grows, Server!Receive, server, client
<1>3. CASE Take(m)
  <2>1. /\ request = Server!NoRequest /\ caller = NoCaller /\ answers' = answers
        /\ caller' = [from |-> m.from, for |-> m.for]
        /\ request' = [kind |-> IF m.for = "rollback" THEN "rollback" ELSE "save",
                       base |-> m.base, content |-> m.content]
    BY <1>3 DEF Take, Server!Receive, TInv, CallerKnown
  <2>2. InHand' = {m} \/ InHand' = {}
    BY <1>1, <2>1 DEF InHand
  <2>3. OneInFlight'
    <3>1. caller'.from = m.from /\ caller'.for = m.for
      BY <2>1
    <3>2. \A a \in answers : a.to \in Clients
      BY <1>1, NetworkFacts
    <3> QED
      BY <1>1, <1>2, <2>1, <3>1, <3>2 DEF OneInFlight
  <2>4. \A n \in Sent' : n \in Sent
    BY <1>1, <1>2, <2>2 DEF Sent
  <2> QED
    BY <1>2, <2>1, <2>3, <2>4, ServerMoves
<1>4. CASE Lose(m)
  <2>1. UNCHANGED <<caller, request>> /\ AnswerTo(m, "lost")
    BY <1>4 DEF Lose, server
  <2>2. /\ \A a \in answers' : \/ a \in answers
                               \/ /\ a.to = m.from /\ a.for = m.for /\ a.result = "lost"
                                  /\ m.from \in Clients
        /\ \E s : answers' \subseteq answers \cup {s}
    BY <1>1, <2>1, AnswerFacts DEF AnswerTo
  <2>3. \A n \in Sent' : n \in Sent
    BY <1>2, <2>1 DEF Sent, InHand
  <2>4. OneInFlight'
    <3>1. ASSUME NEW n \in wire', n.from \in Clients
          PROVE  /\ ~ (caller'.from = n.from /\ caller'.for = n.for)
                 /\ \A k \in wire' : k.from = n.from /\ k.for = n.for => k = n
                 /\ \A a \in answers' : ~ (a.to = n.from /\ a.for = n.for)
      BY <1>1, <1>2, <2>1, <2>2, <3>1 DEF OneInFlight
    <3>2. ASSUME NEW a \in answers'
          PROVE  /\ ~ (caller'.from = a.to /\ caller'.for = a.for)
                 /\ \A b \in answers' : b.to = a.to /\ b.for = a.for => b = a
      BY <1>1, <1>2, <2>1, <2>2 DEF OneInFlight
    <3> QED
      BY <3>1, <3>2 DEF OneInFlight
  <2> QED
    BY <1>1, <1>2, <2>2, <2>3, <2>4, ServerMoves
<1> QED
  BY <1>3, <1>4

\* Of a handler that returns: an upload it accepted is the latest version.
LEMMA ServeKeepsProtocol ==
  ASSUME TInv, Protocol, Serve
  PROVE  Protocol'
<1>1. /\ TypeOK /\ OneInFlight /\ Nobody \notin Clients
      /\ caller.from \in Clients \cup {Nobody} /\ caller.for \in Purposes
      /\ versions \in Seq(Vaults) /\ Len(versions) \in Nat
  BY SyncAssumption, NetworkFacts, VersionFacts DEF Protocol, TInv
<1>2. /\ request # Server!NoRequest /\ request' = Server!NoRequest /\ caller' = NoCaller
      /\ UNCHANGED <<wire, queue, loading, draft>>
  BY ServeFacts DEF client
<1>3. request.content \in Vaults
  BY <1>1, <1>2, NetworkFacts
<1>4. PICK result \in {"ok", "conflict", "lost"} :
        /\ AnswerTo(caller, result)
        /\ Grows
        /\ result = "ok" => /\ Len(versions) + 1 \in 1..Len(versions')
                            /\ versions'[Len(versions) + 1] = request.content
  <2>1. CASE versions' = Append(versions, request.content)
    <3>1. Len(versions) + 1 \in 1..Len(versions')
          /\ versions'[Len(versions) + 1] = request.content
      BY <1>1, <1>3, <2>1, AppendProperties
    <3> QED
      BY <1>3, <2>1, <3>1, ServeFacts DEF Grows
  <2>2. CASE versions' = versions /\ (AnswerTo(caller, "conflict") \/ AnswerTo(caller, "lost"))
    BY <2>2 DEF Grows
  <2> QED
    BY <2>1, <2>2, ServeFacts
<1>5. /\ \A a \in answers' : \/ a \in answers
                             \/ /\ a.to = caller.from /\ a.for = caller.for /\ a.result = result
                                /\ a.version = Len(versions) + 1 /\ caller.from \in Clients
      /\ \E s : answers' \subseteq answers \cup {s}
  BY <1>1, <1>4, AnswerFacts DEF AnswerTo
<1>6. \A n \in Sent' : n \in Sent
  BY <1>2 DEF Sent, InHand
<1>7. OneInFlight'
  <2>1. ASSUME NEW n \in wire', n.from \in Clients
        PROVE  /\ ~ (caller'.from = n.from /\ caller'.for = n.for)
               /\ \A k \in wire' : k.from = n.from /\ k.for = n.for => k = n
               /\ \A a \in answers' : ~ (a.to = n.from /\ a.for = n.for)
    BY <1>1, <1>2, <1>5, <2>1 DEF OneInFlight, NoCaller
  <2>2. ASSUME NEW a \in answers'
        PROVE  /\ ~ (caller'.from = a.to /\ caller'.for = a.for)
               /\ \A b \in answers' : b.to = a.to /\ b.for = a.for => b = a
    <3>1. a.to \in Clients
      BY <1>1, <1>5, NetworkFacts
    <3> QED
      BY <1>1, <1>2, <1>5, <3>1 DEF OneInFlight, NoCaller
  <2> QED
    BY <2>1, <2>2 DEF OneInFlight
<1>8. ASSUME NEW a \in answers', a \notin answers
      PROVE  /\ a.to \in Clients
             /\ \E m \in Sent : /\ m.from = a.to /\ m.for = a.for
                                /\ a.result = "ok" => /\ a.version \in 1..Len(versions')
                                                      /\ versions'[a.version] = m.content
  <2>1. /\ a.to = caller.from /\ a.for = caller.for /\ a.result = result
        /\ a.version = Len(versions) + 1 /\ caller.from \in Clients
    BY <1>5, <1>8
  <2>2. PICK m \in Sent : m.from = caller.from /\ m.for = caller.for /\ m.content = request.content
    BY <2>1, CallerInHand
  <2> QED
    BY <1>4, <2>1, <2>2
<1> QED
  BY <1>2, <1>4, <1>6, <1>7, <1>8, ServerMoves

\* Of a rejected upload that is discarded.
LEMMA DiscardKeepsProtocol ==
  ASSUME TInv, Protocol, NEW k, DiscardConflict(k)
  PROVE  Protocol'
<1>1. UNCHANGED <<versions, request, caller, wire, answers, queue, loading, draft>>
  BY DEF DiscardConflict, Server!Discard, network, client
<1> QED
  BY <1>1 DEF Protocol, MessagesMatch, AnswersMatch, OneInFlight, QueuesBased, DraftsBased,
     SavedMeansStored, Sent, InHand, Based, Uploads, IsOpen
-----------------------------------------------------------------------------
(* Every step keeps track of the edits *)

\* Where an edit can be.
LEMMA WhereFacts ==
  /\ InVersions \subseteq Stored /\ Stored \subseteq Everywhere /\ InRequests \subseteq Everywhere
  /\ \A c \in Clients : Holding(c) \subseteq Everywhere
  /\ \A x \in Everywhere : x \in Stored \/ x \in InRequests \/ \E c \in Clients : x \in Holding(c)
  /\ Held = Stored \cup UNION {Holding(c) : c \in Clients}
<1>1. InVersions \subseteq Stored /\ Stored \subseteq Everywhere /\ InRequests \subseteq Everywhere
  BY DEF InVersions, Stored, Everywhere
<1>2. /\ \A c \in Clients : Holding(c) \subseteq Everywhere
      /\ \A x \in Everywhere : x \in Stored \/ x \in InRequests \/ \E c \in Clients : x \in Holding(c)
  BY DEF Everywhere
<1>3. Held = Stored \cup UNION {Holding(c) : c \in Clients}
  <2>1. \A x : (\E c \in Clients : x \in Holding(c)) <=>
                 \/ \E c \in {d \in Clients : IsOpen(d)} : x \in queue[c].edits
                 \/ \E c \in {d \in Clients : draft[d] # NoDraft} : x \in draft[c].edits
    BY DEF Holding
  <2> QED
    BY <2>1 DEF Held
<1> QED
  BY <1>1, <1>2, <1>3

\* Where it can be after a step.
LEMMA WhereFactsNext ==
  /\ InVersions' \subseteq Stored' /\ Stored' \subseteq Everywhere' /\ InRequests' \subseteq Everywhere'
  /\ \A c \in Clients : Holding(c)' \subseteq Everywhere'
  /\ \A x \in Everywhere' :
       x \in Stored' \/ x \in InRequests' \/ \E c \in Clients : x \in Holding(c)'
  /\ Held' = Stored' \cup UNION {Holding(c)' : c \in Clients}
<1>1. InVersions' \subseteq Stored' /\ Stored' \subseteq Everywhere' /\ InRequests' \subseteq Everywhere'
  BY DEF InVersions, Stored, Everywhere
<1>2. /\ \A c \in Clients : Holding(c)' \subseteq Everywhere'
      /\ \A x \in Everywhere' :
           x \in Stored' \/ x \in InRequests' \/ \E c \in Clients : x \in Holding(c)'
  BY DEF Everywhere
<1>3. Held' = Stored' \cup UNION {Holding(c)' : c \in Clients}
  <2>1. \A x : (\E c \in Clients : x \in Holding(c)') <=>
                 \/ \E c \in {d \in Clients : IsOpen(d)'} : x \in queue'[c].edits
                 \/ \E c \in {d \in Clients : draft'[d] # NoDraft} : x \in draft'[c].edits
    BY DEF Holding
  <2> QED
    BY <2>1 DEF Held
<1> QED
  BY <1>1, <1>2, <1>3

\* The step of one tab: what it must see to for no edit to be lost by it, and
\* for none it discards to turn up elsewhere.
LEMMA EditsMove ==
  ASSUME TInv, Whereabouts, NEW c \in Clients,
         InVersions' = InVersions, Stored' = Stored,
         made \subseteq made', late \subseteq late', givenUp \subseteq givenUp',
         \A d \in Clients : d # c =>
           /\ Holding(d)' = Holding(d) /\ queue'[d] = queue[d]
           /\ Reloading(d)' => Reloading(d),
         Holding(c)' \subseteq Holding(c) \cup InVersions \cup (made' \ made),
         \/ InRequests' \subseteq Stored \cup InRequests
         \/ InRequests' \subseteq Stored \cup InRequests \cup Holding(c) /\ gone' = gone,
         gone' \subseteq gone \cup (Holding(c) \ (Stored \cup InRequests \cup Holding(c)')),
         Holding(c) \cup (made' \ made) \subseteq Holding(c)' \cup Stored \cup late' \cup givenUp',
         IsOpen(c)' /\ Reloading(c)' => queue'[c].edits \subseteq Stored \cup late' \cup givenUp'
  PROVE  Whereabouts'
<1>1. gone \subseteq made
  BY DEF TInv, TypeOK
<1>2. ASSUME NEW x \in Everywhere' PROVE x \in made' /\ x \notin gone'
  <2>1. CASE x \in Stored' \/ x \in InRequests'
    BY <2>1, WhereFacts DEF Whereabouts
  <2>2. ASSUME NEW d \in Clients, d # c, x \in Holding(d)' PROVE x \in made' /\ x \notin gone'
    <3>1. x \in Holding(d) /\ x \in made /\ x \notin gone
      BY <2>2, WhereFacts DEF Whereabouts
    <3>2. x \in Holding(c) => x \in Stored
      BY <2>2, <3>1, WhereFacts DEF Whereabouts, Private
    <3> QED
      BY <3>1, <3>2
  <2>3. CASE x \in Holding(c)'
    BY <1>1, <2>3, WhereFacts DEF Whereabouts
  <2> QED
    BY <2>1, <2>2, <2>3, WhereFactsNext
<1>3. Private'
  <2>1. ASSUME NEW d \in Clients, NEW e \in Clients, d # e,
               NEW x \in Holding(d)', x \in Holding(e)'
        PROVE  x \in InVersions
    <3>1. ASSUME NEW f \in Clients, f # c, x \in Holding(f), x \in Holding(c)'
          PROVE  x \in InVersions
      <4>1. x \in made
        BY <3>1, WhereFacts DEF Whereabouts
      <4> QED
        BY <3>1, <4>1 DEF Whereabouts, Private
    <3> QED
      BY <2>1, <3>1 DEF Whereabouts, Private
  <2> QED
    BY <2>1 DEF Private
<1>4. Replaceable'
  <2>1. ASSUME NEW d \in Clients, d # c, IsOpen(d)', Reloading(d)'
        PROVE  queue'[d].edits \subseteq Stored' \cup late' \cup givenUp'
    BY <2>1 DEF Whereabouts, Replaceable, IsOpen
  <2> QED
    BY <2>1 DEF Replaceable
<1>5. EditsSurvive'
  <2>1. ASSUME NEW x \in made', x \notin givenUp', x \notin late'
        PROVE  x \in Held'
    <3>1. CASE x \in Stored
      BY <3>1, WhereFactsNext
    <3>2. CASE x \in Holding(c) \/ x \notin made
      BY <2>1, <3>2, WhereFactsNext
    <3>3. ASSUME NEW d \in Clients, d # c, x \in Holding(d) PROVE x \in Held'
      BY <3>3, WhereFactsNext
    <3>4. x \in made => x \in Held
      BY <2>1 DEF Whereabouts, EditsSurvive
    <3> QED
      BY <3>1, <3>2, <3>3, <3>4, WhereFacts
  <2> QED
    BY <2>1 DEF EditsSurvive
<1> QED
  BY <1>2, <1>3, <1>4, <1>5 DEF Whereabouts

\* The server and the network move edits between requests, versions and
\* rejected uploads.
LEMMA StoredMoves ==
  ASSUME TInv, Whereabouts, UNCHANGED <<queue, loading, draft, made, late, gone>>,
         InVersions \subseteq InVersions', givenUp \subseteq givenUp',
         Stored' \cup InRequests' \subseteq Stored \cup InRequests,
         Stored \subseteq Stored' \cup givenUp',
         \A c \in Clients : RollingBack(c)' => RollingBack(c)
  PROVE  Whereabouts'
<1>1. \A c \in Clients : /\ Holding(c)' = Holding(c) /\ (IsOpen(c)' <=> IsOpen(c))
                         /\ Reloading(c)' => Reloading(c)
  BY DEF Holding, IsOpen, Reloading
<1>2. Everywhere' \subseteq Everywhere
  BY <1>1, WhereFacts, WhereFactsNext
<1>3. Private'
  BY <1>1 DEF Whereabouts, Private
<1>4. Replaceable'
  BY <1>1 DEF Whereabouts, Replaceable
<1>5. Held \subseteq Held' \cup givenUp'
  BY <1>1, WhereFacts, WhereFactsNext
<1>6. EditsSurvive'
  BY <1>5 DEF Whereabouts, EditsSurvive
<1> QED
  BY <1>2, <1>3, <1>4, <1>6 DEF Whereabouts

\* A tab that sends nothing adds neither edits nor rollbacks to the network.
Silent(c) ==
  \/ UNCHANGED <<caller, wire>> /\ answers' \subseteq answers
  \/ \E P : Abort(c, P)

\* A step that sends nothing puts no edit on the way.
LEMMA SilentFacts ==
  ASSUME TInv, NEW c \in Clients, Silent(c), UNCHANGED request
  PROVE  /\ InRequests' \subseteq InRequests
         /\ \A d \in Clients : RollingBack(d)' => RollingBack(d)
<1>1. TypeOK /\ Nobody \notin Clients
  BY SyncAssumption DEF TInv
<1>2. CASE UNCHANGED <<caller, wire>> /\ answers' \subseteq answers
  BY <1>2 DEF InRequests, RollingBack
<1>3. ASSUME NEW P, Abort(c, P)
      PROVE  /\ InRequests' \subseteq InRequests
             /\ \A d \in Clients : RollingBack(d)' => RollingBack(d)
  <2>1. /\ answers' \subseteq answers
        /\ caller'.for = caller.for
        /\ caller'.from \in {caller.from, Nobody}
        /\ \A n \in wire' : \E m \in wire :
              /\ n.for = m.for /\ n.content = m.content
              /\ n.from \in {m.from, Nobody}
    BY <1>1, <1>3, AbortFacts
  <2>2. InRequests' \subseteq InRequests
    <3>1. \A x \in InRequests' : \/ \E n \in wire' : x \in n.content
                                 \/ request # Server!NoRequest /\ x \in request.content
      BY DEF InRequests
    <3>2. \A x : \/ \E n \in wire : x \in n.content
                 \/ request # Server!NoRequest /\ x \in request.content
            => x \in InRequests
      BY DEF InRequests
    <3> QED
      BY <2>1, <3>1, <3>2
  <2>3. ASSUME NEW d \in Clients, RollingBack(d)' PROVE RollingBack(d)
    BY <1>1, <2>1, <2>3 DEF RollingBack
  <2> QED
    BY <2>2, <2>3
<1> QED
  BY <1>2, <1>3 DEF Silent

\* A message adds what it carries.
LEMMA SendEdits ==
  ASSUME TInv, NEW c \in Clients, NEW p, NEW b, NEW content, Send(c, p, b, content),
         UNCHANGED <<caller, answers, request>>
  PROVE  /\ InRequests' \subseteq InRequests \cup content
         /\ \A d \in Clients : RollingBack(d)' => RollingBack(d) \/ (d = c /\ p = "rollback")
<1>1. PICK s : /\ s.from = c /\ s.for = p /\ s.content = content
               /\ wire' = wire \cup {s}
  <2>1. PICK s : s = [from |-> c, for |-> p, base |-> b, content |-> content]
    OBVIOUS
  <2> QED
    BY <2>1 DEF Send
<1>2. InRequests' \subseteq InRequests \cup content
  BY <1>1 DEF InRequests
<1>3. ASSUME NEW d \in Clients, RollingBack(d)' PROVE RollingBack(d) \/ (d = c /\ p = "rollback")
  BY <1>1, <1>3 DEF RollingBack
<1> QED
  BY <1>2, <1>3

\* The content of a tab, open or not.
LEMMA HoldingFacts ==
  ASSUME TInv, Protocol, NEW c \in Clients
  PROVE  /\ IsOpen(c) => Holding(c) = queue[c].edits /\ draft[c] = NoDraft
         /\ draft[c] # NoDraft => Holding(c) = draft[c].edits /\ ~ IsOpen(c)
         /\ ~ IsOpen(c) /\ draft[c] = NoDraft => Holding(c) = {}
         /\ Holding(c)' = (IF IsOpen(c)' THEN queue'[c].edits ELSE {}) \cup
                          (IF draft'[c] # NoDraft THEN draft'[c].edits ELSE {})
BY DEF Protocol, QueuesBased, Holding

\* The tabs that a step is not of see nothing of it.
LEMMA OthersFacts ==
  ASSUME TInv, NEW c \in Clients,
         \E q : queue' = [queue EXCEPT ![c] = q],
         \E l : loading' = [loading EXCEPT ![c] = l],
         \E e : draft' = [draft EXCEPT ![c] = e],
         \A d \in Clients : d # c => (RollingBack(d)' => RollingBack(d))
  PROVE  \A d \in Clients : d # c =>
           /\ Holding(d)' = Holding(d) /\ queue'[d] = queue[d]
           /\ Reloading(d)' => Reloading(d)
<1>1. \A d \in Clients : d # c => /\ queue'[d] = queue[d] /\ loading'[d] = loading[d]
                                  /\ draft'[d] = draft[d]
  BY DEF TInv, TypeOK
<1> QED
  BY <1>1 DEF Holding, IsOpen, Reloading

\* Of a step after which a tab holds what it held, and sends no other edits.
LEMMA QuietMoves ==
  ASSUME TInv, Protocol, Whereabouts, NEW c \in Clients,
         UNCHANGED <<versions, kept, request, made, late, givenUp, gone, draft>>,
         \E q : queue' = [queue EXCEPT ![c] = q] /\ (IsOpen(c) => q.open /\ q.edits = queue[c].edits)
                                                 /\ (~ IsOpen(c) => (q.open => q.edits = {})),
         \E l : loading' = [loading EXCEPT ![c] = l],
         InRequests' \subseteq Stored \cup InRequests \cup Holding(c),
         \A d \in Clients : d # c => (RollingBack(d)' => RollingBack(d)),
         IsOpen(c)' /\ Reloading(c)' => Reloading(c) \/ queue'[c].edits \subseteq Stored
  PROVE  Whereabouts'
<1>1. InVersions' = InVersions /\ Stored' = Stored
  BY DEF InVersions, Stored
<1>2. PICK q : /\ queue' = [queue EXCEPT ![c] = q]
               /\ IsOpen(c) => q.open /\ q.edits = queue[c].edits
               /\ ~ IsOpen(c) => (q.open => q.edits = {})
  OBVIOUS
<1>3. queue'[c] = q /\ draft' = [draft EXCEPT ![c] = draft[c]]
  BY <1>2 DEF TInv, TypeOK
<1>4. Holding(c)' = Holding(c)
  BY <1>2, <1>3 DEF Holding, IsOpen
<1>5. IsOpen(c)' /\ Reloading(c)' => queue'[c].edits \subseteq Stored \cup late \cup givenUp
  BY <1>2, <1>3 DEF Whereabouts, Replaceable, IsOpen
<1>6. \A d \in Clients : d # c =>
           /\ Holding(d)' = Holding(d) /\ queue'[d] = queue[d]
           /\ Reloading(d)' => Reloading(d)
  BY <1>2, <1>3, OthersFacts
<1> QED
  BY <1>1, <1>4, <1>5, <1>6, EditsMove

\* Of an edit.
LEMMA EditKeepsEdits ==
  ASSUME TInv, Protocol, Whereabouts, NEW c \in Clients, Edit(c)
  PROVE  Whereabouts'
<1>1. PICK e : /\ e = Cardinality(made) + 1 /\ IsOpen(c) /\ e <= MaxEdits
               /\ queue' = [queue EXCEPT ![c] = Changed([queue[c] EXCEPT !.edits = @ \cup {e}])]
               /\ made' = made \cup {e}
               /\ late' = (IF Reloading(c) THEN late \cup {e} ELSE late)
               /\ UNCHANGED <<versions, kept, request, caller, wire, answers, loading, draft,
                              givenUp, gone>>
  BY DEF Edit, server, network
<1>2. e \notin made /\ e \in Edits
  <2>1. IsFiniteSet(Edits) /\ made \subseteq Edits
    BY SyncAssumption, FS_Interval DEF Edits, TInv, TypeOK
  <2>2. Cardinality(made) \in Nat
    BY <2>1, FS_Subset, FS_CardinalityType
  <2> QED
    BY <1>1, <2>2, SyncAssumption DEF TInv, Numbered, Edits
<1>3. PICK q : queue' = [queue EXCEPT ![c] = q] /\ q.open /\ q.edits = queue[c].edits \cup {e}
  <2>1. queue[c] \in Queues
    BY <1>1, OpenFacts DEF TInv
  <2>2. PICK p \in Queues : p = [queue[c] EXCEPT !.edits = @ \cup {e}]
    BY <1>2, <2>1 DEF Queues, Vaults
  <2>3. p.edits = queue[c].edits \cup {e}
    BY <2>1, <2>2 DEF Queues
  <2>4. Changed(p) \in Queues /\ Changed(p).edits = p.edits
    BY ChangedFacts
  <2>5. Changed(p).open
    BY <2>4, OpenFacts DEF TInv
  <2> QED
    BY <1>1, <2>2, <2>3, <2>4, <2>5
<1>4. queue'[c] = q
  BY <1>3 DEF TInv, TypeOK
<1>5. /\ InVersions' = InVersions /\ Stored' = Stored /\ InRequests' = InRequests
      /\ \A d \in Clients : RollingBack(d)' <=> RollingBack(d)
  BY <1>1 DEF InVersions, Stored, InRequests, RollingBack
<1>6. Holding(c)' = Holding(c) \cup {e} /\ Holding(c) = queue[c].edits
  BY <1>1, <1>3, <1>4, HoldingFacts DEF IsOpen
<1>7. Reloading(c)' => queue'[c].edits \subseteq Stored \cup late' \cup givenUp
  BY <1>1, <1>3, <1>4, <1>5 DEF Reloading, Whereabouts, Replaceable
<1>8. loading' = [loading EXCEPT ![c] = loading[c]] /\ draft' = [draft EXCEPT ![c] = draft[c]]
  BY <1>1 DEF TInv, TypeOK
<1>9. \A d \in Clients : d # c =>
           /\ Holding(d)' = Holding(d) /\ queue'[d] = queue[d]
           /\ Reloading(d)' => Reloading(d)
  BY <1>3, <1>5, <1>8, OthersFacts
<1> QED
  BY <1>1, <1>2, <1>5, <1>6, <1>7, <1>9, EditsMove

\* Of a save under way and of its answer.
LEMMA SavingKeepsEdits ==
  ASSUME TInv, Protocol, Whereabouts, NEW c \in Clients,
         TimerFires(c) \/ Retry(c) \/ Exported(c) \/ StaleResumes(c) \/ Answered(c)
  PROVE  Whereabouts'
<1>1. /\ TypeOK /\ (IsOpen(c) => queue[c] \in Queues)
      /\ UNCHANGED <<versions, kept, request, caller, made, late, givenUp, gone, loading, draft>>
  BY OpenFacts DEF TInv, TimerFires, Retry, Exported, StaleResumes, Answered, server, past
<1>2. \A u \in Queues : u.open
  BY <1>1, OpenFacts
<1>3. \/ UNCHANGED queue
      \/ IsOpen(c) /\ \E q : queue' = [queue EXCEPT ![c] = q] /\ q.open /\ q.edits = queue[c].edits
  <2>1. CASE TimerFires(c) \/ Retry(c)
    <3>1. IsOpen(c) /\ queue' = [queue EXCEPT ![c] = Saving(queue[c])]
      BY <2>1 DEF TimerFires, Retry
    <3>2. Saving(queue[c]) \in Queues /\ Saving(queue[c]).edits = queue[c].edits
      BY <1>1, <3>1, SavingFacts
    <3> QED
      BY <1>2, <3>1, <3>2
  <2>2. CASE Exported(c)
    <3>1. IsOpen(c)
      BY <2>2 DEF Exported
    <3>2. CASE queue' = [queue EXCEPT ![c] = Failed(queue[c])]
      BY <1>1, <1>2, <3>1, <3>2, FailedFacts
    <3>3. CASE queue' = [queue EXCEPT ![c] = [queue[c] EXCEPT !.step = "upload"]]
      <4>1. /\ [queue[c] EXCEPT !.step = "upload"].open = queue[c].open
            /\ [queue[c] EXCEPT !.step = "upload"].edits = queue[c].edits
        BY <1>1, <3>1 DEF Queues
      <4> QED
        BY <1>1, <1>2, <3>1, <3>3, <4>1
    <3> QED
      BY <2>2, <3>2, <3>3 DEF Exported
  <2>3. CASE StaleResumes(c)
    BY <2>3 DEF StaleResumes
  <2>4. CASE Answered(c)
    <3>1. PICK a \in answers :
            /\ a.to = c /\ a.for = "save"
            /\ queue' = [queue EXCEPT ![c] = IF a.result = "ok" THEN Acknowledged(queue[c], a.version)
                                             ELSE Failed(queue[c])]
      BY <2>4 DEF Answered
    <3>2. IsOpen(c) /\ a.version \in Nat \ {0}
      BY <1>1, <3>1, NetworkFacts DEF Protocol, AnswersMatch
    <3>3. PICK v \in Nat \ {0} : v = a.version
      BY <3>2
    <3>4. /\ Acknowledged(queue[c], v) \in Queues /\ Acknowledged(queue[c], v).edits = queue[c].edits
          /\ Failed(queue[c]) \in Queues /\ Failed(queue[c]).edits = queue[c].edits
      BY <1>1, <3>2, AcknowledgedFacts, FailedFacts
    <3> QED
      BY <1>2, <3>1, <3>2, <3>3, <3>4
  <2> QED
    BY <2>1, <2>2, <2>3, <2>4
<1>4. \E q : queue' = [queue EXCEPT ![c] = q] /\ (IsOpen(c) => q.open /\ q.edits = queue[c].edits)
                                              /\ (~ IsOpen(c) => (q.open => q.edits = {}))
  <2>1. CASE UNCHANGED queue
    <3>1. queue' = [queue EXCEPT ![c] = queue[c]]
      BY <1>1, <2>1 DEF TypeOK
    <3> QED
      BY <3>1 DEF IsOpen
  <2> QED
    BY <1>3, <2>1
<1>5. InRequests' \subseteq Stored \cup InRequests \cup Holding(c)
      /\ \A d \in Clients : RollingBack(d)' => RollingBack(d)
  <2>1. CASE Send(c, "save", queue[c].version, queue[c].edits) /\ Exported(c)
    <3>1. IsOpen(c) /\ UNCHANGED answers
      BY <2>1 DEF Exported
    <3>2. queue[c].edits = Holding(c)
      BY <3>1, HoldingFacts
    <3> QED
      BY <1>1, <2>1, <3>1, <3>2, SendEdits
  <2>2. CASE UNCHANGED wire /\ answers' \subseteq answers
    BY <1>1, <2>2, SilentFacts DEF Silent
  <2> QED
    BY <2>1, <2>2 DEF TimerFires, Retry, Exported, StaleResumes, Answered, network
<1>6. IsOpen(c)' /\ Reloading(c)' => Reloading(c)
  BY <1>1, <1>5 DEF Reloading
<1>7. loading' = [loading EXCEPT ![c] = loading[c]]
  BY <1>1 DEF TypeOK
<1> QED
  BY <1>1, <1>4, <1>5, <1>6, <1>7, QuietMoves

\* Of a load, of a rollback, and of a vault that is created.
LEMMA LoadKeepsEdits ==
  ASSUME TInv, Protocol, Whereabouts, NEW c \in Clients,
         \/ BeginOpen(c) \/ Metadata(c) \/ LoadFails(c) \/ Created(c)
         \/ Rollback(c) \/ RolledBack(c)
  PROVE  Whereabouts'
<1>1. /\ TypeOK /\ UNCHANGED <<versions, kept, request, made, late, givenUp, gone, draft>>
  BY DEF TInv, BeginOpen, Metadata, LoadFails, Created, Rollback, RolledBack, Install,
         server, past, client
<1>2. \E l : loading' = [loading EXCEPT ![c] = l]
  <2>1. CASE Rollback(c)
    <3>1. loading' = [loading EXCEPT ![c] = loading[c]]
      BY <1>1, <2>1 DEF Rollback, client, TypeOK
    <3> QED
      BY <3>1
  <2>2. CASE Metadata(c)
    <3>1. loading' = [loading EXCEPT ![c].step = "creating"] =>
            loading' = [loading EXCEPT ![c] = [loading[c] EXCEPT !.step = "creating"]]
      OBVIOUS
    <3> QED
      BY <2>2, <3>1 DEF Metadata
  <2>3. CASE RolledBack(c) /\ UNCHANGED loading
    <3>1. loading' = [loading EXCEPT ![c] = loading[c]]
      BY <1>1, <2>3 DEF TypeOK
    <3> QED
      BY <3>1
  <2>4. CASE RolledBack(c) /\ ~ UNCHANGED loading
    <3>1. \E again \in {TRUE, IsOpen(c)} : loading' = [loading EXCEPT ![c] =
                     IF again THEN [step |-> "metadata", version |-> 0] ELSE NoLoad]
      BY <2>4 DEF RolledBack
    <3> QED
      BY <3>1
  <2>5. CASE BeginOpen(c) \/ LoadFails(c) \/ Created(c)
    BY <2>5 DEF BeginOpen, LoadFails, Created, Install
  <2> QED
    BY <2>1, <2>2, <2>3, <2>4, <2>5
<1>3. /\ InRequests' \subseteq Stored \cup InRequests
      /\ \A d \in Clients : RollingBack(d)' => RollingBack(d) \/ (d = c /\ Rollback(c))
  <2>1. CASE Silent(c)
    BY <1>1, <2>1, SilentFacts
  <2>2. CASE Metadata(c) /\ Send(c, "create", 0, {})
    <3>1. UNCHANGED <<caller, answers>>
      BY <2>2 DEF Metadata, server
    <3>2. InRequests' \subseteq InRequests \cup {}
          /\ \A d \in Clients : RollingBack(d)' => RollingBack(d)
      BY <1>1, <2>2, <3>1, SendEdits
    <3> QED
      BY <3>2
  <2>3. CASE Rollback(c)
    <3>1. UNCHANGED <<caller, answers>> /\ Server!Latest = Len(versions)
          /\ Len(versions) \in Nat /\ DOMAIN versions = 1..Len(versions)
      BY <1>1, <2>3, VersionFacts DEF Rollback, server
    <3>2. PICK n \in 1..(Len(versions) - 1) : Send(c, "rollback", 0, versions[n])
      BY <2>3, <3>1 DEF Rollback
    <3>3. n \in DOMAIN versions
      BY <3>1
    <3>4. versions[n] \subseteq Stored
      BY <3>3 DEF Stored
    <3>5. InRequests' \subseteq InRequests \cup versions[n]
          /\ \A d \in Clients : RollingBack(d)' => RollingBack(d) \/ d = c
      BY <1>1, <3>1, <3>2, SendEdits
    <3> QED
      BY <2>3, <3>4, <3>5
  <2> QED
    <3>1. BeginOpen(c) \/ LoadFails(c) \/ Created(c) \/ RolledBack(c) => Silent(c)
      BY DEF Silent, BeginOpen, LoadFails, Created, RolledBack, server, network
    <3>2. Metadata(c) => Silent(c) \/ Send(c, "create", 0, {})
      BY DEF Silent, Metadata, server
    <3> QED
      BY <2>1, <2>2, <2>3, <3>1, <3>2
<1>4. PICK q : /\ queue' = [queue EXCEPT ![c] = q]
               /\ q = queue[c] \/ (~ IsOpen(c) /\ q.open /\ q.edits = {})
  <2>1. CASE UNCHANGED queue
    <3>1. queue' = [queue EXCEPT ![c] = queue[c]]
      BY <1>1, <2>1 DEF TypeOK
    <3> QED
      BY <3>1
  <2>2. CASE Created(c)
    <3>1. PICK a \in answers :
            /\ a.to = c /\ a.for = "create"
            /\ IF a.result = "ok" THEN Install(c, NewQueue({}, a.version, FALSE))
               ELSE UNCHANGED queue
      BY <2>2 DEF Created
    <3>2. ~ IsOpen(c)
      BY <3>1 DEF Protocol, AnswersMatch, QueuesBased
    <3>3. PICK e \in Vaults, v \in Nat \ {0} : e = {} /\ v = a.version
      BY <1>1, NetworkFacts DEF Vaults
    <3>4. NewQueue(e, v, FALSE) \in Queues /\ NewQueue(e, v, FALSE).edits = e
      BY NewQueueFacts
    <3>5. NewQueue(e, v, FALSE).open
      BY <1>1, <3>4, OpenFacts
    <3>6. Install(c, NewQueue(e, v, FALSE)) => queue' = [queue EXCEPT ![c] = NewQueue(e, v, FALSE)]
      BY DEF Install
    <3> QED
      BY <2>1, <3>1, <3>2, <3>3, <3>4, <3>5, <3>6
  <2> QED
    BY <2>1, <2>2 DEF BeginOpen, Metadata, LoadFails, Rollback, RolledBack, client
<1>5. queue'[c] = q
  BY <1>1, <1>4 DEF TypeOK
<1>6. IsOpen(c)' /\ Reloading(c)' => Reloading(c) \/ queue'[c].edits \subseteq Stored
  <2>1. SUFFICES ASSUME IsOpen(c)', Reloading(c)', ~ Reloading(c)
                 PROVE  queue'[c].edits \subseteq Stored
    OBVIOUS
  <2>2. CASE q # queue[c]
    BY <1>4, <1>5, <2>2
  <2>3. CASE q = queue[c]
    <3>1. IsOpen(c) /\ loading[c] = NoLoad /\ ~ RollingBack(c)
      BY <1>5, <2>1, <2>3 DEF IsOpen, Reloading
    <3>2. CASE Rollback(c)
      <4>1. queue[c].state = "saved"
        BY <3>1, <3>2 DEF Rollback, HistoryOffered
      <4>2. PICK n \in queue[c].version..Len(versions) : versions[n] = queue[c].edits
        BY <3>1, <4>1 DEF Protocol, SavedMeansStored
      <4>3. n \in DOMAIN versions
        <5>1. PICK v \in 1..Len(versions) : v = queue[c].version
          BY <3>1 DEF Protocol, QueuesBased, Based
        <5>2. n \in v..Len(versions)
          BY <4>2, <5>1
        <5> QED
          BY <1>1, <5>1, <5>2, VersionFacts
      <4> QED
        BY <1>5, <2>3, <4>2, <4>3 DEF Stored
    <3>3. CASE ~ Rollback(c)
      <4>1. loading'[c] # NoLoad /\ ~ RollingBack(c)'
        BY <1>3, <2>1, <3>1, <3>3 DEF Reloading
      <4>2. NoLoad.step = "none"
        BY DEF NoLoad
      <4>3. ~ BeginOpen(c) /\ ~ Metadata(c) /\ ~ LoadFails(c) /\ ~ RolledBack(c)
        BY <3>1, <4>2 DEF BeginOpen, Metadata, LoadFails, RolledBack, RollingBack
      <4>4. CASE Created(c)
        <5>1. PICK a \in answers : a.to = c /\ a.for = "create"
          BY <4>4 DEF Created
        <5> QED
          BY <3>1, <5>1, <4>2 DEF Protocol, AnswersMatch
      <4> QED
        BY <3>3, <4>3, <4>4
    <3> QED
      BY <3>2, <3>3
  <2> QED
    BY <2>2, <2>3
<1>7. /\ IsOpen(c) => q.open /\ q.edits = queue[c].edits
      /\ ~ IsOpen(c) => (q.open => q.edits = {})
  BY <1>4 DEF IsOpen
<1> QED
  BY <1>1, <1>2, <1>3, <1>4, <1>6, <1>7, QuietMoves

\* Of a vault that is loaded: the one it replaces has nothing unsaved, but for
\* the edits made while a rollback was under way.
LEMMA DownloadKeepsEdits ==
  ASSUME TInv, Protocol, Whereabouts, NEW c \in Clients, Download(c)
  PROVE  Whereabouts'
<1>1. PICK q : q = LoadedQueue(c)
  OBVIOUS
<1>2. /\ loading[c].step = "download" /\ queue' = [queue EXCEPT ![c] = q]
      /\ loading' = [loading EXCEPT ![c] = NoLoad] /\ draft' = [draft EXCEPT ![c] = NoDraft]
      /\ UNCHANGED <<versions, kept, request, made, givenUp>> /\ Abort(c, {"save"})
      /\ gone' = gone \cup Unsent(c, q.edits)
      /\ late' = (IF RollingBack(c) /\ draft[c] # NoDraft THEN late \cup q.edits ELSE late)
  BY <1>1 DEF Download, Install
<1>3. /\ q \in Queues /\ q.open
      /\ draft[c] # NoDraft => q.edits = draft[c].edits
      /\ draft[c] = NoDraft => q.edits = versions[Len(versions)] /\ Len(versions) \in 1..Len(versions)
  BY <1>1, <1>2, LoadedFacts, OpenFacts DEF TInv
<1>4. queue'[c] = q /\ draft'[c] = NoDraft /\ loading'[c] = NoLoad /\ loading[c] # NoLoad
  BY <1>2 DEF TInv, TypeOK, NoLoad
<1>5. InVersions' = InVersions /\ Stored' = Stored
  BY <1>2 DEF InVersions, Stored
<1>6. Holding(c)' = q.edits
  BY <1>3, <1>4 DEF Holding, IsOpen
<1>7. draft[c] = NoDraft => q.edits \subseteq InVersions
  <2>1. Len(versions) \in 1..Len(versions) => Len(versions) \in DOMAIN versions
    BY VersionFacts DEF TInv
  <2> QED
    BY <1>3, <2>1 DEF InVersions
<1>8. /\ InRequests' \subseteq InRequests
      /\ \A d \in Clients : RollingBack(d)' => RollingBack(d)
  BY <1>2, SilentFacts DEF Silent
<1>9. \A d \in Clients : d # c =>
           /\ Holding(d)' = Holding(d) /\ queue'[d] = queue[d]
           /\ Reloading(d)' => Reloading(d)
  BY <1>2, <1>8, OthersFacts
<1>10. CASE draft[c] # NoDraft
  <2>1. ~ IsOpen(c) /\ Holding(c) = q.edits
    BY <1>3, <1>10, HoldingFacts
  <2>2. gone' = gone
    BY <1>2, <2>1 DEF Unsent
  <2>3. Reloading(c)' => q.edits \subseteq late'
    BY <1>2, <1>4, <1>8, <1>10 DEF Reloading
  <2>4. late \subseteq late'
    BY <1>2
  <2> QED
    BY <1>2, <1>4, <1>5, <1>6, <1>8, <1>9, <2>1, <2>2, <2>3, <2>4, EditsMove
<1>11. CASE draft[c] = NoDraft
  <2>1. /\ late' = late /\ Holding(c)' \subseteq InVersions /\ Holding(c)' \subseteq Stored
    BY <1>2, <1>6, <1>7, <1>11, WhereFacts
  <2>2. IsOpen(c) => Holding(c) = queue[c].edits
    BY HoldingFacts
  <2>3. Holding(c) \subseteq Stored \cup late \cup givenUp
    <3>1. CASE IsOpen(c)
      BY <1>4, <2>2, <3>1 DEF Whereabouts, Replaceable, Reloading
    <3>2. CASE ~ IsOpen(c)
      BY <1>11, <3>2, HoldingFacts
    <3> QED
      BY <3>1, <3>2
  <2>4. gone' \subseteq gone \cup (Holding(c) \ (Stored \cup InRequests \cup Holding(c)'))
    BY <1>2, <1>6, <2>2 DEF Unsent
  <2>5. queue'[c].edits \subseteq Stored
    BY <1>4, <1>6, <2>1
  <2> QED
    BY <1>2, <1>5, <1>8, <1>9, <2>1, <2>3, <2>4, <2>5, EditsMove
<1> QED
  BY <1>10, <1>11

\* Of a vault that is closed: what is not saved is given up, or kept as a
\* recovery copy.
LEMMA CloseKeepsEdits ==
  ASSUME TInv, Protocol, Whereabouts, NEW c \in Clients, GiveUp(c) \/ AutoLock(c)
  PROVE  Whereabouts'
<1>1. /\ IsOpen(c) /\ queue' = [queue EXCEPT ![c] = Closed]
      /\ loading' = [loading EXCEPT ![c] = NoLoad]
      /\ UNCHANGED <<versions, kept, request, made, late>> /\ Abort(c, {"save", "create"})
  BY DEF GiveUp, AutoLock, CloseVault, Install, past
<1>2. Holding(c) = queue[c].edits /\ draft[c] = NoDraft
  BY <1>1, HoldingFacts
<1>3. PICK d : /\ draft' = [draft EXCEPT ![c] = d]
               /\ \/ GiveUp(c) /\ d = NoDraft
                  \/ AutoLock(c) /\ d = RecoveryCopy(queue[c])
  <2>1. CASE GiveUp(c)
    <3>1. draft' = [draft EXCEPT ![c] = NoDraft]
      BY <1>2, <2>1 DEF GiveUp, TInv, TypeOK
    <3> QED
      BY <2>1, <3>1
  <2>2. CASE AutoLock(c)
    BY <2>2 DEF AutoLock
  <2> QED
    BY <2>1, <2>2
<1>4. ~ IsOpen(c)' /\ draft'[c] = d
  BY <1>1, <1>3 DEF TInv, TypeOK, IsOpen, Closed
<1>5. Holding(c)' = IF d # NoDraft THEN d.edits ELSE {}
  BY <1>4 DEF Holding
<1>6. InVersions' = InVersions /\ Stored' = Stored
  BY <1>1 DEF InVersions, Stored
<1>7. /\ InRequests' \subseteq InRequests
      /\ \A e \in Clients : RollingBack(e)' => RollingBack(e)
  BY <1>1, SilentFacts DEF Silent
<1>8. \A e \in Clients : e # c =>
           /\ Holding(e)' = Holding(e) /\ queue'[e] = queue[e]
           /\ Reloading(e)' => Reloading(e)
  BY <1>1, <1>3, <1>7, OthersFacts
<1>9. CASE GiveUp(c) /\ d = NoDraft
  <2>1. /\ givenUp' = givenUp \cup (Holding(c) \ Stored) /\ Holding(c)' = {}
        /\ gone' = gone \cup (Holding(c) \ (Stored \cup InRequests))
    BY <1>1, <1>2, <1>5, <1>9 DEF GiveUp, Unsent
  <2> QED
    BY <1>1, <1>4, <1>6, <1>7, <1>8, <2>1, EditsMove
<1>10. CASE AutoLock(c) /\ d = RecoveryCopy(queue[c])
  <2>1. UNCHANGED <<gone, givenUp>>
    BY <1>10 DEF AutoLock, past
  <2>2. Holding(c)' \subseteq Holding(c) /\ Holding(c) \subseteq Holding(c)' \cup Stored
    <3>1. CASE queue[c].state = "saved"
      <4>1. PICK n \in queue[c].version..Len(versions) : versions[n] = queue[c].edits
        BY <1>1, <3>1 DEF Protocol, SavedMeansStored
      <4>2. n \in DOMAIN versions
        <5>1. PICK v \in 1..Len(versions) : v = queue[c].version
          BY <1>1 DEF Protocol, QueuesBased, Based
        <5>2. n \in v..Len(versions)
          BY <4>1, <5>1
        <5> QED
          BY <5>1, <5>2, VersionFacts DEF TInv
      <4> QED
        BY <1>2, <1>5, <1>10, <3>1, <4>1, <4>2 DEF RecoveryCopy, Stored
    <3>2. CASE queue[c].state # "saved"
      <4>1. d = [version |-> queue[c].version, edits |-> queue[c].edits]
        BY <1>10, <3>2 DEF RecoveryCopy
      <4>2. d.version # 0
        BY <1>1, <4>1, OpenFacts DEF TInv, Queues
      <4>3. d # NoDraft /\ d.edits = queue[c].edits
        BY <4>1, <4>2 DEF NoDraft
      <4> QED
        BY <1>2, <1>5, <4>3
    <3> QED
      BY <3>1, <3>2
  <2> QED
    BY <1>1, <1>4, <1>6, <1>7, <1>8, <2>1, <2>2, EditsMove
<1> QED
  BY <1>3, <1>9, <1>10

\* Of the server and of what the network loses.
LEMMA ServerKeepsEdits ==
  ASSUME TInv, Protocol, Whereabouts,
         \/ Serve
         \/ \E m \in wire : Take(m) \/ Lose(m)
         \/ \E k \in DOMAIN kept : DiscardConflict(k)
  PROVE  Whereabouts'
<1>1. /\ TypeOK /\ versions \in Seq(Vaults) /\ Len(versions) \in Nat
      /\ DOMAIN versions = 1..Len(versions) /\ Nobody \notin Clients
      /\ caller.from \in Clients \cup {Nobody} /\ caller.for \in Purposes
  BY VersionFacts, NetworkFacts, SyncAssumption DEF TInv
<1>2. UNCHANGED <<queue, loading, draft, made, late, gone>>
  BY ServeFacts DEF Take, Lose, DiscardConflict, client, past
<1>3. \A x : /\ x \in Stored <=> \/ \E n \in DOMAIN versions : x \in versions[n]
                                 \/ \E k \in DOMAIN kept : x \in kept[k]
             /\ x \in InRequests <=> \/ \E m \in wire : x \in m.content
                                     \/ request # Server!NoRequest /\ x \in request.content
  BY DEF Stored, InRequests
<1>4. \A x : /\ x \in Stored' <=> \/ \E n \in DOMAIN versions' : x \in versions'[n]
                                  \/ \E k \in DOMAIN kept' : x \in kept'[k]
             /\ x \in InRequests' <=> \/ \E m \in wire' : x \in m.content
                                      \/ request' # Server!NoRequest /\ x \in request'.content
  BY DEF Stored, InRequests
<1>5. CASE Serve
  <2>1. /\ UNCHANGED <<wire, givenUp>> /\ caller' = NoCaller
        /\ request # Server!NoRequest /\ request' = Server!NoRequest
    BY <1>5, ServeFacts DEF past
  <2>2. \A d \in Clients : RollingBack(d)' => RollingBack(d)
    <3>1. \E result \in {"ok", "conflict", "lost"} : AnswerTo(caller, result)
      BY <1>5, ServeFacts
    <3>2. \A a \in answers' : a \in answers \/ (a.to = caller.from /\ a.for = caller.for)
      BY <1>1, <3>1, AnswerFacts
    <3> QED
      BY <1>1, <2>1, <3>2 DEF RollingBack, NoCaller
  <2>3. CASE versions' = Append(versions, request.content) /\ kept' = kept
    <3>1. request.content \in Vaults
      BY <1>1, <2>1, NetworkFacts
    <3>2. /\ DOMAIN versions' = DOMAIN versions \cup {Len(versions) + 1}
          /\ \A n \in DOMAIN versions : versions'[n] = versions[n]
          /\ versions'[Len(versions) + 1] = request.content
      BY <1>1, <2>3, <3>1, AppendProperties
    <3>3. InVersions \subseteq InVersions'
      BY <3>2 DEF InVersions
    <3>4. /\ Stored' \cup InRequests' \subseteq Stored \cup InRequests
          /\ Stored \subseteq Stored'
      BY <1>3, <1>4, <2>1, <2>3, <3>2
    <3> QED
      BY <1>2, <2>1, <2>2, <3>3, <3>4, StoredMoves
  <2>4. ASSUME versions' = versions, NEW k \in Names \ DOMAIN kept,
               kept' = [i \in DOMAIN kept \cup {k} |-> IF i = k THEN request.content ELSE kept[i]]
        PROVE  Whereabouts'
    <3>1. InVersions \subseteq InVersions'
      BY <2>4 DEF InVersions
    <3>2. /\ Stored' \cup InRequests' \subseteq Stored \cup InRequests
          /\ Stored \subseteq Stored'
      BY <1>3, <1>4, <2>1, <2>4
    <3> QED
      BY <1>2, <2>1, <2>2, <3>1, <3>2, StoredMoves
  <2>5. CASE versions' = versions /\ kept' = kept
    <3>1. InVersions' = InVersions /\ Stored' = Stored
      BY <2>5 DEF InVersions, Stored
    <3>2. InRequests' \subseteq InRequests
      BY <1>3, <1>4, <2>1
    <3> QED
      BY <1>2, <2>1, <2>2, <3>1, <3>2, StoredMoves
  <2> QED
    BY <1>5, <2>3, <2>4, <2>5, ServeFacts
<1>6. ASSUME NEW m \in wire, Take(m) \/ Lose(m)
      PROVE  Whereabouts'
  <2>1. /\ UNCHANGED <<versions, kept, givenUp>> /\ wire' = wire \ {m}
        /\ \/ UNCHANGED request
           \/ request = Server!NoRequest /\ request'.content = m.content
    BY <1>6 DEF Take, Lose, Server!Receive, server, past
  <2>2. InVersions' = InVersions /\ Stored' = Stored
    BY <2>1 DEF InVersions, Stored
  <2>3. InRequests' \subseteq InRequests
    BY <1>3, <1>4, <2>1
  <2>4. \A d \in Clients : RollingBack(d)' => RollingBack(d)
    <3>1. CASE Take(m)
      <4>1. caller'.from = m.from /\ caller'.for = m.for /\ answers' = answers
        BY <3>1 DEF Take
      <4> QED
        BY <2>1, <4>1 DEF RollingBack
    <3>2. CASE Lose(m)
      <4>1. caller' = caller /\ AnswerTo(m, "lost")
        BY <3>2 DEF Lose, server
      <4>2. m.from \in Clients \cup {Nobody} /\ m.for \in Purposes
        BY <1>1, NetworkFacts
      <4>3. \A a \in answers' : a \in answers \/ (a.to = m.from /\ a.for = m.for)
        BY <1>1, <4>1, <4>2, AnswerFacts
      <4> QED
        BY <2>1, <4>1, <4>3 DEF RollingBack
    <3> QED
      BY <1>6, <3>1, <3>2
  <2> QED
    BY <1>2, <2>1, <2>2, <2>3, <2>4, StoredMoves
<1>7. ASSUME NEW k \in DOMAIN kept, DiscardConflict(k)
      PROVE  Whereabouts'
  <2>1. /\ UNCHANGED <<versions, request, caller, wire, answers>>
        /\ kept' = [i \in DOMAIN kept \ {k} |-> kept[i]]
        /\ givenUp' = givenUp \cup kept[k]
    BY <1>7 DEF DiscardConflict, Server!Discard, network
  <2>2. InVersions' = InVersions
    BY <2>1 DEF InVersions
  <2>3. /\ Stored' \cup InRequests' \subseteq Stored \cup InRequests
        /\ Stored \subseteq Stored' \cup givenUp'
    BY <1>3, <1>4, <2>1
  <2>4. \A d \in Clients : RollingBack(d)' => RollingBack(d)
    BY <2>1 DEF RollingBack
  <2> QED
    BY <1>2, <2>1, <2>2, <2>3, <2>4, StoredMoves
<1> QED
  BY <1>5, <1>6, <1>7
-----------------------------------------------------------------------------
(* What holds in every state *)

IInv == TInv /\ Protocol /\ Whereabouts

\* Nobody has sent or edited anything yet.
LEMMA IInvInit == Init => IInv
<1> SUFFICES ASSUME Init PROVE IInv
  OBVIOUS
<1>1. TInv
  BY TInvInit
<1>2. /\ \A c \in Clients : ~ IsOpen(c) /\ queue[c] = Closed /\ draft[c] = NoDraft
      /\ wire = {} /\ answers = {} /\ request = Server!NoRequest /\ Sent = {}
      /\ versions = << >> /\ kept = << >> /\ made = {} /\ gone = {}
  BY DEF Init, IsOpen, Closed, Server!Init, Sent, InHand
<1>3. Protocol
  BY <1>2 DEF Protocol, MessagesMatch, AnswersMatch, OneInFlight, QueuesBased, DraftsBased,
     SavedMeansStored
<1>4. \A c \in Clients : Holding(c) = {}
  BY <1>2 DEF Holding
<1>5. Stored = {} /\ InRequests = {}
  BY <1>2 DEF Stored, InRequests
<1>6. Everywhere = {}
  BY <1>4, <1>5 DEF Everywhere
<1>7. Whereabouts
  BY <1>2, <1>4, <1>6 DEF Whereabouts, Private, Replaceable, EditsSurvive
<1> QED
  BY <1>1, <1>3, <1>7 DEF IInv

\* Every step keeps all three.
LEMMA IInvNext == IInv /\ [Next]_vars => IInv'
<1> SUFFICES ASSUME IInv, [Next]_vars PROVE IInv'
  OBVIOUS
<1>1. TInv /\ Protocol /\ Whereabouts /\ AnswersMatch /\ Everywhere \subseteq made
  BY DEF IInv, Protocol, Whereabouts
<1>2. ASSUME NEW c \in Clients, Step(c) PROVE IInv'
  <2>1. CASE Edit(c)
    BY <1>1, <2>1, SavingKeepsT, EditKeepsProtocol, EditKeepsEdits DEF IInv
  <2>2. CASE TimerFires(c) \/ Retry(c) \/ StaleResumes(c)
    BY <1>1, <2>2, SavingKeepsT, EditKeepsProtocol, SavingKeepsEdits DEF IInv
  <2>3. CASE Exported(c)
    BY <1>1, <2>3, SavingKeepsT, ExportKeepsProtocol, SavingKeepsEdits DEF IInv
  <2>4. CASE Answered(c)
    BY <1>1, <2>4, SavingKeepsT, AnsweredKeepsProtocol, SavingKeepsEdits DEF IInv
  <2>5. CASE BeginOpen(c) \/ Metadata(c) \/ LoadFails(c) \/ Rollback(c) \/ RolledBack(c)
    BY <1>1, <2>5, LoadingKeepsT, LoadKeepsProtocol, LoadKeepsEdits DEF IInv
  <2>6. CASE Created(c)
    BY <1>1, <2>6, LoadingKeepsT, CreatedKeepsProtocol, LoadKeepsEdits DEF IInv
  <2>7. CASE Download(c)
    BY <1>1, <2>7, LoadingKeepsT, InstallKeepsProtocol, DownloadKeepsEdits DEF IInv
  <2>8. CASE GiveUp(c) \/ AutoLock(c)
    BY <1>1, <2>8, LoadingKeepsT, InstallKeepsProtocol, CloseKeepsEdits DEF IInv
  <2> QED
    BY <1>2, <2>1, <2>2, <2>3, <2>4, <2>5, <2>6, <2>7, <2>8 DEF Step
<1>3. CASE Serve
  BY <1>1, <1>3, ServerKeepsT, ServeKeepsProtocol, ServerKeepsEdits DEF IInv
<1>4. CASE \E m \in wire : Take(m) \/ Lose(m)
  BY <1>1, <1>4, ServerKeepsT, TakeKeepsProtocol, ServerKeepsEdits DEF IInv
<1>5. CASE \E k \in DOMAIN kept : DiscardConflict(k)
  BY <1>1, <1>5, ServerKeepsT, DiscardKeepsProtocol, ServerKeepsEdits DEF IInv
<1>6. CASE UNCHANGED vars
  <2>1. UNCHANGED <<versions, kept, request, caller, wire, answers, queue, stale, loading, draft,
                    made, late, givenUp, gone, faults, closes>>
    BY <1>6 DEF vars, server, network, client, past, bounds
  <2>2. TInv'
    BY <1>1, <2>1 DEF TInv, TypeOK, Server!TypeOK, LoadsExist, Numbered, CallerKnown
  <2>3. Protocol'
    BY <1>1, <2>1 DEF Protocol, MessagesMatch, AnswersMatch, OneInFlight, QueuesBased, DraftsBased,
       SavedMeansStored, Sent, InHand, Based, Uploads, IsOpen
  <2>4. Whereabouts'
    BY <1>1, <2>1 DEF Whereabouts, Everywhere, Stored, InRequests, Holding, IsOpen, Private,
       InVersions, Replaceable, Reloading, RollingBack, EditsSurvive, Held
  <2> QED
    BY <2>2, <2>3, <2>4 DEF IInv
<1> QED
  BY <1>2, <1>3, <1>4, <1>5, <1>6 DEF Next
-----------------------------------------------------------------------------
(* Theorems *)

\* The types, who waits for what, and where every edit is, at any time.
THEOREM SyncInvariant == Spec => []IInv
BY IInvInit, IInvNext, PTL DEF Spec

\* The variables stay in their types.
THEOREM TypeCorrect == Spec => []TypeOK
<1>1. IInv => TypeOK
  BY DEF IInv, TInv
<1> QED
  BY <1>1, SyncInvariant, PTL

\* "All changes saved" is never shown while an edit the user sees is in no
\* version: edits made during an upload keep the state from "saved"
\* (vaultSave.ts, save).
THEOREM SavedSafe == Spec => []SavedMeansStored
<1>1. IInv => SavedMeansStored
  BY DEF IInv, Protocol
<1> QED
  BY <1>1, SyncInvariant, PTL

\* An edit that is nowhere has been given up by the user, or was made or
\* recovered around a rollback.
THEOREM EditsSafe == Spec => []EditsSurvive
<1>1. IInv => EditsSurvive
  BY DEF IInv, Whereabouts
<1> QED
  BY <1>1, SyncInvariant, PTL

\* What a queue was discarded with, unsent, reaches no request and no version:
\* neither from its save() that is still suspended nor from another tab.
THEOREM DiscardedSafe == Spec => []DiscardedStaysOut
<1>1. IInv => DiscardedStaysOut
  BY WhereFacts DEF IInv, Whereabouts, DiscardedStaysOut
<1> QED
  BY <1>1, SyncInvariant, PTL

\* The version an upload names and the 409 it gets otherwise suffice: no upload
\* takes an edit out of the latest version, whatever was lost, aborted or
\* reordered on the way.
THEOREM NoLostUpdateSafe == Spec => NoLostUpdate
<1> DEFINE Contains == versions' # versions /\ versions # << >> /\ caller.for # "rollback" =>
                         versions[Len(versions)] \subseteq versions'[Len(versions')]
<1>1. IInv /\ [Next]_vars => [Contains]_vars
  <2> SUFFICES ASSUME IInv, [Next]_vars, versions' # versions, versions # << >>,
                      caller.for # "rollback"
               PROVE  versions[Len(versions)] \subseteq versions'[Len(versions')]
    OBVIOUS
  <2>1. /\ TInv /\ MessagesMatch /\ TypeOK /\ CallerKnown
        /\ versions \in Seq(Vaults) /\ Len(versions) \in Nat /\ Server!Latest = Len(versions)
    BY VersionFacts DEF IInv, Protocol, TInv
  <2>2. Serve
    BY DEF vars, server, Next, Step, Edit, TimerFires, Retry, Exported, StaleResumes, Answered,
       BeginOpen, Metadata, Created, Download, LoadFails, GiveUp, AutoLock, CloseVault, Rollback,
       RolledBack, Install, Take, Lose, DiscardConflict, Server!Receive, Server!Discard
  <2>3. /\ request # Server!NoRequest /\ Server!Acceptable
        /\ versions' = Append(versions, request.content)
    BY <2>1, <2>2, ServeFacts
  <2>4. /\ request.content \in Vaults /\ caller.for \in Purposes
        /\ Len(versions) # 0
    BY <2>1, <2>3, NetworkFacts, EmptySeq
  <2>5. versions'[Len(versions')] = request.content
    BY <2>1, <2>3, <2>4, AppendProperties
  <2>6. request.base = Len(versions)
    BY <2>1, <2>3 DEF Server!Acceptable, CallerKnown
  <2>7. PICK m \in Sent : /\ m.for = caller.for /\ m.base = request.base
                          /\ m.content = request.content
    <3>1. PICK m : m = [from |-> caller.from, for |-> caller.for,
                        base |-> request.base, content |-> request.content]
      OBVIOUS
    <3>2. m \in Sent
      BY <2>3, <3>1 DEF Sent, InHand
    <3> QED
      BY <3>1, <3>2
  <2>8. m.for = "save" /\ Based(m.base, m.content)
    BY <2>1, <2>4, <2>6, <2>7 DEF MessagesMatch, Purposes
  <2> QED
    BY <2>5, <2>6, <2>7, <2>8 DEF Based
<1>2. Spec => [][Contains]_vars
  BY <1>1, SyncInvariant, PTL DEF Spec
<1> QED
  BY <1>2 DEF NoLostUpdate
=============================================================================
