------------------------------ MODULE AppVault ------------------------------
(***************************************************************************)
(* Unlocking, locking and recovering a vault in the tabs of one browser    *)
(* (frontend/src/App.tsx with autoLock.ts, lockedDraft.ts, storage.ts and  *)
(* the envelopes of SecuritySettings.tsx).                                 *)
(*                                                                         *)
(* The tabs share localStorage, the cached device key and the store of     *)
(* recovery copies (IndexedDB); each has a sessionStorage, which survives  *)
(* its reload, and memory, which does not.  A tab runs one callback at a   *)
(* time; initVault and the checkpoint of an automatic lock are cut at      *)
(* their awaits.  A piece of unsaved work stands for edits of the vault or *)
(* of the entry in the editor; how work is saved is VaultSync's matter.    *)
(***************************************************************************)
EXTENDS Integers, FiniteSets

CONSTANTS
  Tabs,
  Codes,        \* what the user may choose as password or draw as paper code
  None,         \* no envelope
  NoId,         \* no reference to a recovery copy
  Faults,       \* which of AllFaults the browser may produce
  MaxWork,      \* bound: pieces of unsaved work, in all
  Ids,          \* names of recovery copies; one nobody refers to is as good as new
  MaxLoads      \* bound: initVault calls of one tab under way at a time

(***************************************************************************)
(* "keyStore":  writing or clearing the cached key fails.                  *)
(* "put", "read", "delete": that operation on the recovery copies fails.   *)
(* "reference": sessionStorage refuses the reference to a recovery copy.   *)
(* "slow":      an initVault that was superseded is still waiting for the  *)
(*              browser's storage when its tab locks again after a whole   *)
(*              idle period.                                               *)
(***************************************************************************)
AllFaults == {"keyStore", "put", "read", "delete", "reference", "slow"}

ASSUME BrowserAssumption ==
  /\ None \notin Codes
  /\ Faults \subseteq AllFaults
  /\ NoId \notin Ids
  /\ MaxWork \in Nat /\ MaxLoads \in Nat \ {0}

VARIABLES
  envelopes,  \* what unwraps the vault key: the server's two envelopes
  keyCached,  \* the device key is in IndexedDB
  local,      \* localStorage: the lock flag and the last activity
  drafts,     \* recovery copies in IndexedDB: id -> work, or {} where absent
  session,    \* tab -> sessionStorage: lock flag, last activity, reference
  app,        \* tab -> App's state and refs
  check,      \* tab -> the checkpoint promise of the last automatic lock
  loads,      \* tab -> the initVault calls under way
  \* What happened so far; the program keeps none of it.
  made, settled,  \* work: done; saved, or lost with the user's consent
  mustAsk,    \* tabs closed since the master password was last entered in them
  forgotten   \* the cached key was removed, and nothing has excused its return

shared == <<keyCached, local, drafts>>
work == <<made, settled>>
told == <<mustAsk, forgotten>>
vars == <<envelopes, shared, session, app, check, loads, work, told>>

Works == 1..MaxWork

Activities == {"none", "fresh", "expired"}

Sessions == [locked : BOOLEAN, activity : Activities, ref : Ids \cup {NoId}]

\* memory is memoryDraft, pending is recoveryPending.
Apps == [open : BOOLEAN, edits : SUBSET Works, memory : SUBSET Works,
         pending : BOOLEAN]

NoCheck == [step |-> "none"]
Checks == [step : {"seal", "put", "clear"}, copy : SUBSET Works,
           id : Ids \cup {NoId}, durable : BOOLEAN]

\* password: initVault was given one.  current: unlockGeneration is still its
\* own.  stored, available and id: the recovery copy it has read.
Loads == [step : {"start", "read", "open", "store", "remove", "clear"},
          password : BOOLEAN, current : BOOLEAN, stored : SUBSET Works,
          available : BOOLEAN, id : Ids \cup {NoId}]

TypeOK ==
  /\ envelopes \in [password : Codes \cup {None}, recovery : Codes \cup {None}]
  /\ keyCached \in BOOLEAN
  /\ local \in [locked : BOOLEAN, activity : Activities]
  /\ drafts \in [Ids -> SUBSET Works]
  /\ session \in [Tabs -> Sessions]
  /\ app \in [Tabs -> Apps]
  /\ \A t \in Tabs :
       /\ check[t] \in Checks \cup {NoCheck}
       /\ loads[t] \subseteq Loads
       /\ Cardinality({l \in loads[t] : l.current}) <= 1
  /\ settled \subseteq made /\ made \subseteq Works
  /\ mustAsk \subseteq Tabs
  /\ forgotten \in BOOLEAN

NewSession == [locked |-> FALSE, activity |-> "none", ref |-> NoId]

NewApp == [open |-> FALSE, edits |-> {}, memory |-> {}, pending |-> FALSE]

NewLoad(password) ==
  [step |-> "start", password |-> password, current |-> TRUE, stored |-> {},
   available |-> TRUE, id |-> NoId]

\* The account has a vault, created elsewhere; every tab runs checkAuth first.
Init ==
  /\ envelopes \in [password : Codes, recovery : {None}]
  /\ keyCached = FALSE
  /\ local = [locked |-> FALSE, activity |-> "none"]
  /\ drafts = [i \in Ids |-> {}]
  /\ session = [t \in Tabs |-> NewSession]
  /\ app = [t \in Tabs |-> NewApp]
  /\ check = [t \in Tabs |-> NoCheck]
  /\ loads = [t \in Tabs |-> {NewLoad(FALSE)}]
  /\ made = {} /\ settled = {}
  /\ mustAsk = {}
  /\ forgotten = FALSE
-----------------------------------------------------------------------------
(* The browser's storage *)

\* The values a write of the cached key may leave.
KeyWritten(value) ==
  {value} \cup (IF "keyStore" \in Faults THEN {keyCached} ELSE {})

Stored(id) == IF id = NoId THEN {} ELSE drafts[id]

\* The store after a copy was deleted, or not.
DraftsWithout(id) ==
  IF id = NoId THEN {drafts}
  ELSE {[drafts EXCEPT ![id] = {}]} \cup
       (IF "delete" \in Faults THEN {drafts} ELSE {})

\* cachedKeyExpired: no activity known is as old as can be; the tab's own
\* record counts before the browser's.
Expired(t) ==
  LET last == IF session[t].activity = "none" THEN local.activity
              ELSE session[t].activity
  IN  last # "fresh"

\* Every await of a superseded initVault is answered before a tab can have
\* been idle for a whole period, unless the storage is that slow.
StorageAnswers(t) == "slow" \in Faults \/ \A l \in loads[t] : l.current
-----------------------------------------------------------------------------
(* Unlocking: initVault *)

\* Mutant: an unlock does not supersede the one before it.
Superseded_Not(t) == loads[t]

\* A superseded initVault returns at its next look at unlockGeneration; only
\* what it has asked of the storage by then still happens.
Superseded(t) ==
  {[l EXCEPT !.current = FALSE] :
     l \in {k \in loads[t] : k.step \in {"store", "remove", "clear"}}}

Becomes(t, l, next) == loads' = [loads EXCEPT ![t] = (@ \ {l}) \cup {next}]

Ends(t, l) == loads' = [loads EXCEPT ![t] = @ \ {l}]

\* Only the password's envelope is tried where there is one.
Unwraps(code) ==
  IF envelopes.password # None THEN code = envelopes.password
  ELSE code = envelopes.recovery

\* The user submits the unlock form; the form waits for the answer.
Unlock(t, code) ==
  /\ ~ app[t].open
  /\ Cardinality(loads[t]) < MaxLoads
  /\ \A l \in loads[t] : l.current => ~ l.password
  /\ IF Unwraps(code)
     THEN /\ loads' = [loads EXCEPT ![t] = Superseded(t) \cup {NewLoad(TRUE)}]
          /\ mustAsk' = mustAsk \ {t}
     ELSE /\ loads' = [loads EXCEPT ![t] = Superseded(t)]
          /\ UNCHANGED mustAsk
  /\ UNCHANGED <<envelopes, shared, session, app, check, work, forgotten>>

\* The cached key may not be used.
Barred(t) == session[t].locked \/ local.locked \/ Expired(t)

\* The trusted key is removed and the password asked for.
TurnAway(t, l) ==
  /\ Ends(t, l)
  /\ keyCached' \in KeyWritten(FALSE)

\* After the checkpoint and the metadata: which key to use.
Start(t, l) ==
  /\ l.step = "start"
  /\ check[t] = NoCheck
  /\ IF ~ l.password /\ Barred(t) THEN TurnAway(t, l)
     ELSE /\ IF l.password \/ keyCached
             THEN Becomes(t, l, [l EXCEPT !.step = "read"])
             ELSE Ends(t, l)
          /\ UNCHANGED keyCached
  /\ UNCHANGED <<envelopes, local, drafts, session, app, check, work, told>>

\* After the download: the recovery copy in memory, or the one referred to.
ReadCopy(t, l) ==
  /\ l.step = "read"
  /\ LET id == session[t].ref
         found == IF app[t].memory # {} THEN app[t].memory ELSE Stored(id)
     IN  \/ Becomes(t, l, [l EXCEPT !.step = "open", !.stored = found, !.id = id])
         \/ /\ "read" \in Faults /\ app[t].memory = {} /\ id # NoId
            /\ Becomes(t, l, [l EXCEPT !.step = "open", !.available = FALSE, !.id = id])
  /\ UNCHANGED <<envelopes, shared, session, app, check, work, told>>

\* The session after initVault dropped the reference to what it has read.
Unreferenced(t, l) ==
  IF l.available THEN [session[t] EXCEPT !.ref = NoId] ELSE session[t]

\* The vault is shown.  A password lifts the locks; the idle deadline starts.
Install(t, l) ==
  /\ Ends(t, l)
  /\ app' = [app EXCEPT ![t] = [open |-> TRUE, edits |-> l.stored,
                                memory |-> {}, pending |-> ~ l.available]]
  /\ session' = [session EXCEPT ![t] =
       [Unreferenced(t, l) EXCEPT !.locked = IF l.password THEN FALSE ELSE @,
                                  !.activity = "fresh"]]
  /\ local' = [locked |-> IF l.password THEN FALSE ELSE local.locked,
               activity |-> "fresh"]

\* Mutant: the copy is not kept in memory while it is being removed.
Recover_Unkept(t, l) ==
  IF l.stored = {} THEN Install(t, l)
  ELSE /\ Becomes(t, l, [l EXCEPT !.step = "remove"])
       /\ app' = [app EXCEPT ![t].pending = TRUE, ![t].memory = {}]
       /\ UNCHANGED <<local, session>>

\* A recovery copy is taken into memory before it is removed from the store.
Recover(t, l) ==
  IF l.stored = {} THEN Install(t, l)
  ELSE /\ app' = [app EXCEPT ![t].memory = l.stored, ![t].pending = TRUE]
       /\ Becomes(t, l, [l EXCEPT !.step = "remove"])
       /\ UNCHANGED <<local, session>>

\* Mutant: a lock in another tab during the download goes unnoticed.
BarredNow_Missing(t) == FALSE

\* The check is repeated after the download.
BarredNow(t) == local.locked \/ Expired(t)

\* The vault has been decrypted.
Opened(t, l) ==
  /\ l.step = "open"
  /\ IF l.password
     THEN /\ Becomes(t, l, [l EXCEPT !.step = "store"])
          /\ UNCHANGED <<keyCached, local, session, app>>
     ELSE IF BarredNow(t)
     THEN TurnAway(t, l) /\ UNCHANGED <<local, session, app>>
     ELSE Recover(t, l) /\ UNCHANGED keyCached
  /\ UNCHANGED <<envelopes, drafts, check, work, told>>

\* Mutant: an unlock that was superseded leaves the key it stored.
StoreKey_Leaves(t, l) ==
  /\ l.step = "store"
  /\ keyCached' = TRUE
  /\ IF l.current THEN Recover(t, l) /\ forgotten' = FALSE
     ELSE Ends(t, l) /\ UNCHANGED <<local, session, app, forgotten>>
  /\ UNCHANGED <<envelopes, drafts, check, work, mustAsk>>

\* The key is cached; an unlock that was superseded removes it again.
StoreKey(t, l) ==
  /\ l.step = "store"
  /\ keyCached' \in KeyWritten(TRUE)
  /\ IF l.current THEN Recover(t, l) /\ forgotten' = FALSE
     ELSE /\ Becomes(t, l, [l EXCEPT !.step = "clear"])
          /\ UNCHANGED <<local, session, app, forgotten>>
  /\ UNCHANGED <<envelopes, drafts, check, work, mustAsk>>

ClearKey(t, l) ==
  /\ l.step = "clear"
  /\ keyCached' \in KeyWritten(FALSE)
  /\ forgotten' = (forgotten /\ ~ keyCached')
  /\ Ends(t, l)
  /\ UNCHANGED <<envelopes, local, drafts, session, app, check, work, mustAsk>>

\* Mutant: the unlock goes on although the vault was locked meanwhile.
Removed_Stale(t, l) ==
  /\ l.step = "remove"
  /\ drafts' \in DraftsWithout(l.id)
  /\ Install(t, l)
  /\ UNCHANGED <<envelopes, keyCached, check, work, told>>

\* The copy is removed from the store, and the reference to it dropped, before
\* the unlock looks whether it was superseded.
Removed(t, l) ==
  /\ l.step = "remove"
  /\ drafts' \in DraftsWithout(l.id)
  /\ IF l.current THEN Install(t, l)
     ELSE /\ Ends(t, l)
          /\ session' = [session EXCEPT ![t] = Unreferenced(t, l)]
          /\ UNCHANGED <<local, app>>
  /\ UNCHANGED <<envelopes, keyCached, check, work, told>>
-----------------------------------------------------------------------------
(* Using and locking an open vault *)

\* Mutant: activity is recorded without a look at the deadline.
Activity_Unchecked(t) == app[t].open

\* An event of the user counts only before the deadline.
Activity(t) == app[t].open /\ session[t].activity = "fresh"

Use(t) ==
  /\ Activity(t)
  /\ session' = [session EXCEPT ![t].activity = "fresh"]
  /\ local' = [local EXCEPT !.activity = "fresh"]
  /\ \/ /\ Cardinality(made) < MaxWork
        /\ LET w == Cardinality(made) + 1
           IN  /\ app' = [app EXCEPT ![t].edits = @ \cup {w}]
               /\ made' = made \cup {w}
        /\ UNCHANGED settled
     \/ /\ settled' = settled \cup app[t].edits
        /\ app' = [app EXCEPT ![t].edits = {}]
        /\ UNCHANGED made
  /\ UNCHANGED <<envelopes, keyCached, drafts, check, loads, told>>

\* A whole idle period passes in one tab, or in every tab.
TimePasses ==
  /\ \/ \E t \in Tabs :
          /\ session[t].activity = "fresh"
          /\ session' = [session EXCEPT ![t].activity = "expired"]
          /\ UNCHANGED local
     \/ /\ local.activity = "fresh"
        /\ local' = [local EXCEPT !.activity = "expired"]
        /\ session' = [t \in Tabs |->
             [session[t] EXCEPT !.activity = IF @ = "none" THEN @ ELSE "expired"]]
  /\ UNCHANGED <<envelopes, keyCached, drafts, app, check, loads, work, told>>

\* closeVault: unlocks under way are superseded, both lock flags set.
CloseVault(t, ref) ==
  /\ loads' = [loads EXCEPT ![t] = Superseded(t)]
  /\ session' = [session EXCEPT ![t].locked = TRUE, ![t].ref = ref]
  /\ local' = [local EXCEPT !.locked = TRUE]
  /\ mustAsk' = mustAsk \cup {t}

\* Lock, or sign out, after a confirmation where something is unsaved.  The
\* copy of an earlier lock stays where it is, and so does the cached key.
Lock(t) ==
  /\ Activity(t) \/ (~ app[t].open /\ loads[t] # {})
  /\ CloseVault(t, session[t].ref)
  /\ app' = [app EXCEPT ![t].open = FALSE, ![t].edits = {}]
  /\ settled' = settled \cup app[t].edits
  /\ UNCHANGED <<envelopes, keyCached, drafts, check, made, forgotten>>

InUse ==
  {session[t].ref : t \in Tabs} \cup
  {check[t].id : t \in {u \in Tabs : check[u] # NoCheck}} \cup
  {l.id : l \in UNION {loads[t] : t \in Tabs}}

\* Whether sessionStorage takes the reference.
References == {TRUE} \cup (IF "reference" \in Faults THEN {FALSE} ELSE {})

\* crypto.randomUUID for each lock: a duplicated tab has the same reference.  No
\* copy has a new name, so one left by a closed tab under that name is gone.
NewIds(t) == Ids \ InUse

\* The deadline has passed.  Unsaved work gets a reference of its own, then the
\* vault is closed and the copy made in the background.
AutoLock(t) ==
  /\ app[t].open /\ session[t].activity # "fresh"
  /\ StorageAnswers(t)
  /\ IF app[t].edits = {}
     THEN /\ CloseVault(t, session[t].ref)
          /\ check' = [check EXCEPT ![t] = [step |-> "clear", copy |-> {},
                                            id |-> NoId, durable |-> TRUE]]
          /\ app' = [app EXCEPT ![t] = NewApp]
          /\ UNCHANGED drafts
     ELSE /\ \E id \in NewIds(t), durable \in References :
               /\ CloseVault(t, IF durable THEN id ELSE session[t].ref)
               /\ drafts' = [drafts EXCEPT ![id] = {}]
               /\ check' = [check EXCEPT ![t] =
                    [step |-> "seal", copy |-> app[t].edits, id |-> id,
                     durable |-> durable]]
          /\ app' = [app EXCEPT ![t] =
               [@ EXCEPT !.open = FALSE, !.edits = {}, !.pending = TRUE]]
  /\ UNCHANGED <<envelopes, keyCached, work, forgotten>>

\* The copy is encrypted and kept in memory.
Seal(t) ==
  /\ check[t].step = "seal"
  /\ app' = [app EXCEPT ![t].memory = check[t].copy]
  /\ check' = [check EXCEPT ![t].step = "put"]
  /\ UNCHANGED <<envelopes, shared, session, loads, work, told>>

\* Mutant: leaving the page is thought safe although no reference was stored.
Pending_Optimistic(t) == FALSE

\* A warning remains where the copy could not be found again.
Pending(t) == ~ check[t].durable

\* It is stored as well, so that it survives a reload of the page.
PutDraft(t) ==
  /\ check[t].step = "put"
  /\ \/ /\ drafts' = [drafts EXCEPT ![check[t].id] = check[t].copy]
        /\ app' = [app EXCEPT ![t].pending = Pending(t)]
     \/ "put" \in Faults /\ UNCHANGED <<drafts, app>>
  /\ check' = [check EXCEPT ![t].step = "clear"]
  /\ UNCHANGED <<envelopes, keyCached, local, session, loads, work, told>>

\* The cached key is removed; the next unlock of this tab waits for that.
CheckDone(t) ==
  /\ check[t].step = "clear"
  /\ keyCached' \in KeyWritten(FALSE)
  /\ forgotten' = (forgotten \/ ~ keyCached')
  /\ check' = [check EXCEPT ![t] = NoCheck]
  /\ UNCHANGED <<envelopes, local, drafts, session, app, loads, work, mustAsk>>

\* "Forget this device": the vault is closed, key and recovery copy removed.
Forget(t) ==
  /\ Activity(t)
  /\ CloseVault(t, NoId)
  /\ keyCached' \in KeyWritten(FALSE)
  /\ forgotten' = (forgotten \/ ~ keyCached')
  /\ drafts' \in DraftsWithout(session[t].ref)
  /\ app' = [app EXCEPT ![t] = [NewApp EXCEPT !.pending = app[t].pending]]
  /\ settled' = settled \cup app[t].edits \cup Stored(session[t].ref)
  /\ UNCHANGED <<envelopes, check, made>>

\* The work that only the memory of a tab holds.
InMemory(t) ==
  app[t].edits \cup app[t].memory \cup
  (IF check[t] = NoCheck THEN {} ELSE check[t].copy)

\* The browser warns before the page of t is left.
Warns(t) == app[t].pending \/ app[t].edits # {}

\* The page is reloaded, or the tab closed and another opened in its place, with
\* the sessionStorage of none or a copy of another's.  Memory is lost; what a
\* closed tab referred to is lost with it.
LeavePage(t, s, lost) ==
  /\ session' = [session EXCEPT ![t] = s]
  /\ app' = [app EXCEPT ![t] = NewApp]
  /\ check' = [check EXCEPT ![t] = NoCheck]
  /\ loads' = [loads EXCEPT ![t] = {NewLoad(FALSE)}]
  /\ settled' = settled \cup lost \cup (IF Warns(t) THEN InMemory(t) ELSE {})
  /\ forgotten' = (forgotten /\ \A l \in loads[t] : l.step # "clear")
  /\ UNCHANGED <<envelopes, shared, made>>

Reload(t) == LeavePage(t, session[t], {}) /\ UNCHANGED mustAsk

NewTab(t) ==
  /\ \E s \in {NewSession} \cup {session[u] : u \in Tabs \ {t}} :
       LeavePage(t, s, Stored(session[t].ref))
  /\ mustAsk' = mustAsk \ {t}
-----------------------------------------------------------------------------
(* SecuritySettings: each envelope wraps the vault key for one secret; an     *)
(* upload of one keeps the other.                                            *)

ChangePassword(t, code) ==
  /\ Activity(t)
  /\ envelopes' = [envelopes EXCEPT !.password = code]
  /\ UNCHANGED <<shared, session, app, check, loads, work, told>>

GeneratePaperRecovery(t, code) ==
  /\ Activity(t)
  /\ code # envelopes.password
  /\ envelopes' = [envelopes EXCEPT !.recovery = code]
  /\ UNCHANGED <<shared, session, app, check, loads, work, told>>
-----------------------------------------------------------------------------
LoadStep(t) ==
  \E l \in loads[t] :
    \/ Start(t, l)
    \/ ReadCopy(t, l)
    \/ Opened(t, l)
    \/ StoreKey(t, l)
    \/ ClearKey(t, l)
    \/ Removed(t, l)

CheckStep(t) == Seal(t) \/ PutDraft(t) \/ CheckDone(t)

Settings(t) ==
  \E code \in Codes : ChangePassword(t, code) \/ GeneratePaperRecovery(t, code)

Next ==
  \/ TimePasses
  \/ \E t \in Tabs :
       \/ \E code \in Codes : Unlock(t, code)
       \/ LoadStep(t)
       \/ Use(t)
       \/ Lock(t)
       \/ AutoLock(t)
       \/ CheckStep(t)
       \/ Forget(t)
       \/ Reload(t)
       \/ NewTab(t)
       \/ Settings(t)

\* The deadline is checked every second, and the browser's storage answers.
Fairness == \A t \in Tabs : WF_vars(AutoLock(t)) /\ WF_vars(LoadStep(t))

Spec == Init /\ [][Next]_vars /\ Fairness
-----------------------------------------------------------------------------
(* Properties *)

\* A tab that was locked -- by its user, its deadline or Forget -- shows the
\* vault only after the master password is entered in it, even if its page is
\* reloaded, another tab caches the key again, or an older unlock comes back.
LockedNeedsPassword == \A t \in Tabs : app[t].open => t \notin mustAsk

\* Unsaved work is in an open vault or can be recovered by unlocking a tab, in
\* memory or by the reference to its copy, unless the user was warned.
UnsavedRecoverable ==
  made \ settled \subseteq
    UNION {InMemory(t) \cup Stored(session[t].ref) : t \in Tabs}

\* Once a lock or Forget has removed the device key, only an unlock that is
\* still in force stores it again; one that was superseded takes it back, unless
\* the storage refuses or the page is left in that moment.
KeyStaysForgotten ==
  forgotten =>
    \/ ~ keyCached
    \/ \E t \in Tabs : \E l \in loads[t] : l.step = "clear"

\* While one tab is locked no other opens with the cached key.
OpensWithPassword(t) == \E l \in loads[t] : l.password /\ l \notin loads'[t]

CachedKeyRespectsLock ==
  [][\A t \in Tabs :
       ~ app[t].open /\ app'[t].open /\ local.locked => OpensWithPassword(t)]_vars

\* Whatever the user does after the deadline, the tab locks.
IdleLocks ==
  \A t \in Tabs :
    (app[t].open /\ session[t].activity = "expired") ~> ~ app[t].open

\* "Enter your master password or paper recovery code": once generated, the
\* paper code unlocks the vault.
RecoveryCodeUnlocks == envelopes.recovery # None => Unwraps(envelopes.recovery)
=============================================================================
