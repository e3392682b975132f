------------------------------ MODULE VaultLock ------------------------------
(***************************************************************************)
(* Who waits for whom on Store.mu of the vault store                       *)
(* (internal/vault/vault.go).  A download (OpenVault) holds the read lock  *)
(* and calls GetMetadata, which takes it again; a lookup is a GetMetadata  *)
(* of its own; every other operation is a save, which takes the lock for   *)
(* writing.  What they do inside is VaultStore's.                          *)
(*                                                                         *)
(* The lock is Go's sync.RWMutex: a writer first announces itself, which   *)
(* makes later readers wait, then waits for the read locks already held;   *)
(* its Unlock lets the waiting readers in before the next writer.          *)
(***************************************************************************)
EXTENDS Integers, FiniteSets

CONSTANTS
  Downloads, Lookups, Saves,  \* requests, each repeated for ever
  None                        \* not a request

Readers == Downloads \cup Lookups
Requests == Readers \cup Saves

ASSUME RequestsAssumption ==
  /\ IsFiniteSet(Requests)
  /\ None \notin Requests
  /\ Downloads \cap Lookups = {}
  /\ Saves \cap Readers = {}

VARIABLES
  pc,      \* where each request is
  owner,   \* the writer that has announced itself, or None
  awaited  \* how many read locks it still waits for (readerWait)

vars == <<pc, owner, awaited>>

TypeOK ==
  /\ pc \in [Requests -> {"idle", "outerWait", "outer", "innerWait", "inner",
                          "opening", "locking", "announced", "writing"}]
  /\ owner \in Saves \cup {None}
  /\ awaited \in 0 .. Cardinality(Readers) + Cardinality(Downloads)

Init ==
  /\ pc = [r \in Requests |-> "idle"]
  /\ owner = None
  /\ awaited = 0
-----------------------------------------------------------------------------
(* sync.RWMutex *)

\* The read locks r holds.
Held(r) ==
  CASE r \in Downloads /\ pc[r] = "inner" -> 2
    [] r \in Downloads /\ pc[r] \in {"outer", "innerWait", "opening"} -> 1
    [] r \in Lookups /\ pc[r] = "inner" -> 1
    [] OTHER -> 0

Holding == {r \in Readers : Held(r) > 0}
HoldingTwice == {r \in Downloads : Held(r) = 2}

RLock(r, waiting, holding) ==
  /\ pc' = [pc EXCEPT ![r] = IF owner = None THEN holding ELSE waiting]
  /\ UNCHANGED <<owner, awaited>>

RUnlock(r, next) ==
  /\ pc' = [pc EXCEPT ![r] = next]
  /\ awaited' = IF owner = None THEN awaited ELSE awaited - 1
  /\ UNCHANGED owner

Announce(w) ==
  /\ pc[w] = "locking"
  /\ owner = None
  /\ owner' = w
  /\ awaited' = Cardinality(Holding) + Cardinality(HoldingTwice)
  /\ pc' = [pc EXCEPT ![w] = "announced"]

Enter(w) ==
  /\ pc[w] = "announced"
  /\ awaited = 0
  /\ pc' = [pc EXCEPT ![w] = "writing"]
  /\ UNCHANGED <<owner, awaited>>

Unlock(w) ==
  /\ pc[w] = "writing"
  /\ owner' = None
  /\ pc' = [r \in Requests |->
              CASE r = w -> "idle"
                [] pc[r] = "outerWait" -> "outer"
                [] pc[r] = "innerWait" -> "inner"
                [] OTHER -> pc[r]]
  /\ UNCHANGED awaited
-----------------------------------------------------------------------------
(* The store's operations *)

StartDownload(r) ==
  /\ r \in Downloads /\ pc[r] = "idle"
  /\ RLock(r, "outerWait", "outer")

\* Mutant: GetMetadata does not take the lock.
StartLookup_NoLock(r) ==
  /\ r \in Lookups /\ pc[r] = "idle"
  /\ pc' = [pc EXCEPT ![r] = "inner"]
  /\ UNCHANGED <<owner, awaited>>

StartLookup(r) ==
  /\ r \in Lookups /\ pc[r] = "idle"
  /\ RLock(r, "innerWait", "inner")

\* OpenVault calls GetMetadata with the lock held.
ReadMetadata(r) ==
  /\ r \in Downloads /\ pc[r] = "outer"
  /\ RLock(r, "innerWait", "inner")

ReturnMetadata(r) ==
  /\ pc[r] = "inner"
  /\ RUnlock(r, IF r \in Downloads THEN "opening" ELSE "idle")

\* Mutant: an early return keeps the lock.
ReturnVault_Leaks(r) ==
  /\ pc[r] = "opening"
  /\ pc' = [pc EXCEPT ![r] = "idle"]
  /\ UNCHANGED <<owner, awaited>>

ReturnVault(r) ==
  /\ pc[r] = "opening"
  /\ RUnlock(r, "idle")

StartSave(r) ==
  /\ r \in Saves /\ pc[r] = "idle"
  /\ pc' = [pc EXCEPT ![r] = "locking"]
  /\ UNCHANGED <<owner, awaited>>

\* A step of a request that holds or has been given what it waits for.
Continue(r) ==
  ReadMetadata(r) \/ ReturnMetadata(r) \/ ReturnVault(r) \/ Enter(r) \/ Unlock(r)

Next ==
  \E r \in Requests :
    \/ StartDownload(r) \/ StartLookup(r) \/ StartSave(r)
    \/ ReadMetadata(r) \/ ReturnMetadata(r) \/ ReturnVault(r)
    \/ Announce(r) \/ Enter(r) \/ Unlock(r)

\* A request that can go on does, and Go hands a mutex to the writer that has
\* waited for it long enough (starvation mode).  No request has to start.
Fairness == \A r \in Requests : WF_vars(Continue(r)) /\ SF_vars(Announce(r))

Spec == Init /\ [][Next]_vars /\ Fairness
-----------------------------------------------------------------------------
(* Properties *)

\* No operation reads meta.json or opens the KDBX while another rewrites them:
\* what lets VaultStore treat a read as one step.
WritesExclude ==
  \A w \in Saves : pc[w] = "writing" =>
    \A r \in Requests \ {w} : Held(r) = 0 /\ pc[r] # "writing"

\* A writer waits for a download that waits, in GetMetadata, for that writer.
Wedged ==
  /\ owner # None
  /\ \E r \in Downloads : pc[r] = "innerWait"

CanGoOn(r) ==
  \/ pc[r] \in {"outer", "inner", "opening", "writing"}
  \/ pc[r] = "locking" /\ owner = None
  \/ pc[r] = "announced" /\ awaited = 0

\* A writer only ever waits for read locks somebody holds, and a reader for a
\* writer: requests that have not returned do not all wait, unless wedged.
SomeoneGoesOn ==
  (\E r \in Requests : pc[r] # "idle") => Wedged \/ \E r \in Requests : CanGoOn(r)

\* The nested read lock is the only way to get stuck: every request returns,
\* or the store is wedged.
OnlyWedgeStops ==
  \A r \in Requests : pc[r] # "idle" ~> (pc[r] = "idle" \/ Wedged)

\* PROMPT.md: "Users can download the latest encrypted KDBX at any time".
DownloadsReturn == \A r \in Downloads : pc[r] # "idle" ~> pc[r] = "idle"
=============================================================================
