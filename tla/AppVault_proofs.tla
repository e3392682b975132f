--------------------------- MODULE AppVault_proofs ---------------------------
(***************************************************************************)
(* Theorems about AppVault, for any number of tabs, loads, passwords and   *)
(* pieces of work.  Most lemmas come one for each action, named after it;  *)
(* the heading of a section says what those of the section state.          *)
(***************************************************************************)
EXTENDS AppVault, FiniteSetTheorems, TLAPS

\* At most one unlock of a tab is in force.
OneCurrent(t) == \A l, k \in loads[t] : l.current /\ k.current => l = k

\* What may be under way in a tab that is open, and in one that is not.
Phases(t) ==
  /\ app[t].open =>
       /\ \A l \in loads[t] : ~ l.current
       /\ check[t] = NoCheck /\ app[t].memory = {}
  /\ ~ app[t].open => app[t].edits = {}
  /\ check[t] # NoCheck => \A l \in loads[t] : l.current => l.step = "start"

\* How far a superseded unlock and one in force may be.
Steps(l) ==
  IF l.current THEN l.step # "clear" ELSE l.step \in {"store", "remove", "clear"}

\* A tab that must ask is locked, and no unlock of it got past the first check.
Asking(t) ==
  t \in mustAsk =>
    /\ session[t].locked /\ ~ app[t].open
    /\ \A l \in loads[t] : l.current => l.step = "start" /\ ~ l.password

KTab(t) ==
  /\ OneCurrent(t) /\ Phases(t) /\ Asking(t)
  /\ \A l \in loads[t] : Steps(l)

KInv == \A t \in Tabs : KTab(t)

-----------------------------------------------------------------------------
(* Types.  The lemma named after an action, or after a part several share,   *)
(* says that it keeps TInv.                                                  *)

TInv ==
  /\ envelopes \in [password : Codes \cup {None}, recovery : Codes \cup {None}]
  /\ keyCached \in BOOLEAN
  /\ local \in [locked : BOOLEAN, activity : Activities]
  /\ drafts \in [Ids -> SUBSET Works]
  /\ session \in [Tabs -> Sessions]
  /\ app \in [Tabs -> Apps]
  /\ check \in [Tabs -> Checks \cup {NoCheck}]
  /\ loads \in [Tabs -> SUBSET Loads]
  /\ settled \subseteq Works /\ made \subseteq Works
  /\ mustAsk \subseteq Tabs
  /\ forgotten \in BOOLEAN

\* A superseded unlock is one of those before, no longer in force.
LEMMA SupersededFacts ==
  ASSUME TInv, NEW t \in Tabs, NEW k \in Superseded(t)
  PROVE  \E l \in loads[t] :
           /\ k = [l EXCEPT !.current = FALSE]
           /\ k \in Loads /\ ~ k.current
           /\ l.step \in {"store", "remove", "clear"} /\ k.step = l.step
           /\ k.password = l.password /\ k.stored = l.stored
           /\ k.available = l.available /\ k.id = l.id
<1>1. PICK l \in loads[t] : /\ l.step \in {"store", "remove", "clear"}
                            /\ k = [l EXCEPT !.current = FALSE]
  BY DEF Superseded
<1>2. l \in Loads
  BY DEF TInv
<1> QED
  BY <1>1, <1>2 DEF Loads

\* The unlocks that end, begin or go on are unlocks.
LEMMA SupersededTyped ==
  ASSUME TInv, NEW t \in Tabs
  PROVE  Superseded(t) \subseteq Loads
BY SupersededFacts

LEMMA NewLoadTyped ==
  ASSUME NEW p \in BOOLEAN
  PROVE  /\ NewLoad(p) \in Loads
         /\ NewLoad(p).step = "start" /\ NewLoad(p).password = p
         /\ NewLoad(p).current /\ NewLoad(p).stored = {}
         /\ NewLoad(p).available /\ NewLoad(p).id = NoId
BY DEF NewLoad, Loads

\* A tab that was closed or locked holds nothing of the vault.
LEMMA NewAppTyped ==
  NewApp \in Apps /\ NewSession \in Sessions
BY DEF NewApp, Apps, NewSession, Sessions, Activities

LEMMA StoredTyped ==
  ASSUME TInv, NEW i \in Ids \cup {NoId}
  PROVE  /\ Stored(i) \subseteq Works
         /\ \A d \in DraftsWithout(i) : d \in [Ids -> SUBSET Works]
<1>1. CASE i = NoId
  BY <1>1 DEF TInv, Stored, DraftsWithout
<1>2. CASE i # NoId
  BY <1>2 DEF TInv, Stored, DraftsWithout
<1> QED
  BY <1>1, <1>2

LEMMA KeyTyped ==
  ASSUME TInv, NEW v \in BOOLEAN
  PROVE  KeyWritten(v) \subseteq BOOLEAN
BY DEF KeyWritten, TInv

LEMMA TypeInit == Init => TInv
<1> SUFFICES ASSUME Init PROVE TInv
  OBVIOUS
<1>1. envelopes \in [password : Codes \cup {None}, recovery : Codes \cup {None}]
  BY DEF Init
<1>2. loads \in [Tabs -> SUBSET Loads] /\ app \in [Tabs -> Apps] /\ session \in [Tabs -> Sessions]
  BY NewLoadTyped, NewAppTyped DEF Init
<1>3. /\ keyCached \in BOOLEAN /\ local \in [locked : BOOLEAN, activity : Activities]
      /\ drafts \in [Ids -> SUBSET Works] /\ check \in [Tabs -> Checks \cup {NoCheck}]
      /\ settled \subseteq Works /\ made \subseteq Works
      /\ mustAsk \subseteq Tabs
      /\ forgotten \in BOOLEAN
  BY DEF Init, Activities
<1> QED
  BY <1>1, <1>2, <1>3 DEF TInv

LEMMA StutterTyped == TInv /\ UNCHANGED vars => TInv'
BY DEF TInv, vars, shared, work, told

\* What an unlock does to its own call.
LEMMA BecomesTyped ==
  ASSUME TInv, NEW t \in Tabs, NEW l \in loads[t], NEW n \in Loads, Becomes(t, l, n)
  PROVE  /\ loads' \in [Tabs -> SUBSET Loads]
         /\ loads'[t] = (loads[t] \ {l}) \cup {n}
         /\ \A u \in Tabs \ {t} : loads'[u] = loads[u]
BY DEF TInv, Becomes

LEMMA EndsTyped ==
  ASSUME TInv, NEW t \in Tabs, NEW l \in loads[t], Ends(t, l)
  PROVE  /\ loads' \in [Tabs -> SUBSET Loads]
         /\ loads'[t] = loads[t] \ {l}
         /\ \A u \in Tabs \ {t} : loads'[u] = loads[u]
BY DEF TInv, Ends

\* An unlock that goes on keeps who asked for it, and what it has read.
LEMMA StepTyped ==
  ASSUME NEW l \in Loads,
         NEW s \in {"start", "read", "open", "store", "remove", "clear"}
  PROVE  LET n == [l EXCEPT !.step = s] IN
         /\ n \in Loads
         /\ n.step = s /\ n.current = l.current /\ n.password = l.password
         /\ n.stored = l.stored /\ n.available = l.available /\ n.id = l.id
BY DEF Loads

FoundLoad(l, f, i) == [l EXCEPT !.step = "open", !.stored = f, !.id = i]

UnreadLoad(l, i) == [l EXCEPT !.step = "open", !.available = FALSE, !.id = i]

LEMMA FoundTyped ==
  ASSUME NEW l \in Loads, NEW f \in SUBSET Works, NEW i \in Ids \cup {NoId}
  PROVE  /\ FoundLoad(l, f, i) \in Loads
         /\ FoundLoad(l, f, i).step = "open"
         /\ FoundLoad(l, f, i).current = l.current
         /\ FoundLoad(l, f, i).password = l.password
         /\ FoundLoad(l, f, i).stored = f
         /\ FoundLoad(l, f, i).available = l.available
         /\ FoundLoad(l, f, i).id = i
<1>1. PICK n : n = FoundLoad(l, f, i)
  OBVIOUS
<1>2. n = [step |-> "open", password |-> l.password, current |-> l.current,
           stored |-> f, available |-> l.available, id |-> i]
  BY <1>1 DEF Loads, FoundLoad
<1>3. /\ n \in Loads
      /\ n.step = "open" /\ n.current = l.current /\ n.password = l.password
      /\ n.stored = f /\ n.available = l.available /\ n.id = i
  BY <1>2 DEF Loads
<1> QED
  BY <1>1, <1>3

LEMMA UnreadTyped ==
  ASSUME NEW l \in Loads, NEW i \in Ids \cup {NoId}
  PROVE  /\ UnreadLoad(l, i) \in Loads
         /\ UnreadLoad(l, i).step = "open"
         /\ UnreadLoad(l, i).current = l.current
         /\ UnreadLoad(l, i).password = l.password
         /\ UnreadLoad(l, i).stored = l.stored
<1>1. PICK n : n = UnreadLoad(l, i)
  OBVIOUS
<1>2. n = [step |-> "open", password |-> l.password, current |-> l.current,
           stored |-> l.stored, available |-> FALSE, id |-> i]
  BY <1>1 DEF Loads, UnreadLoad
<1>3. /\ n \in Loads /\ n.stored = l.stored
      /\ n.step = "open" /\ n.current = l.current /\ n.password = l.password
  BY <1>2 DEF Loads
<1> QED
  BY <1>1, <1>3

\* What reading the recovery copy does, said with these.
LEMMA ReadCopyBecomes ==
  ASSUME NEW t, NEW l, ReadCopy(t, l)
  PROVE  LET i == session[t].ref
             f == IF app[t].memory # {} THEN app[t].memory ELSE Stored(i)
         IN  \/ Becomes(t, l, FoundLoad(l, f, i))
             \/ "read" \in Faults /\ Becomes(t, l, UnreadLoad(l, i))
BY Zenon DEF ReadCopy, FoundLoad, UnreadLoad

LEMMA InstallTyped ==
  ASSUME TInv, NEW t \in Tabs, NEW l \in loads[t], Install(t, l)
  PROVE  /\ loads' \in [Tabs -> SUBSET Loads] /\ app' \in [Tabs -> Apps]
         /\ session' \in [Tabs -> Sessions]
         /\ local' \in [locked : BOOLEAN, activity : Activities]
<1>1. l \in Loads /\ session[t] \in Sessions
  BY DEF TInv
<1>2. loads' \in [Tabs -> SUBSET Loads]
  BY EndsTyped DEF Install
<1>3. [open |-> TRUE, edits |-> l.stored, memory |-> {}, pending |-> ~ l.available] \in Apps
  BY <1>1 DEF Apps, Loads
<1>4. PICK s : s = Unreferenced(t, l)
  OBVIOUS
<1>5. s \in Sessions
  BY <1>1, <1>4 DEF Unreferenced, Sessions
<1>6. [s EXCEPT !.locked = IF l.password THEN FALSE ELSE @, !.activity = "fresh"] \in Sessions
  BY <1>5, <1>1 DEF Sessions, Activities
<1>7. local' \in [locked : BOOLEAN, activity : Activities]
  <2>1. local'  = [locked |-> IF l.password THEN FALSE ELSE local.locked, activity |-> "fresh"]
    BY DEF Install
  <2> QED
    BY <2>1 DEF TInv, Activities
<1>8. app' = [app EXCEPT ![t] = [open |-> TRUE, edits |-> l.stored,
                                memory |-> {}, pending |-> ~ l.available]]
  BY DEF Install
<1>9. session' = [session EXCEPT ![t] = [s EXCEPT !.locked = IF l.password THEN FALSE ELSE @,
                                                 !.activity = "fresh"]]
  BY <1>4 DEF Install
<1>10. app' \in [Tabs -> Apps]
  BY <1>3, <1>8 DEF TInv
<1>11. session' \in [Tabs -> Sessions]
  BY <1>6, <1>9 DEF TInv
<1> QED
  BY <1>2, <1>7, <1>10, <1>11

LEMMA RecoverTyped ==
  ASSUME TInv, NEW t \in Tabs, NEW l \in loads[t], Recover(t, l)
  PROVE  /\ loads' \in [Tabs -> SUBSET Loads] /\ app' \in [Tabs -> Apps]
         /\ session' \in [Tabs -> Sessions]
         /\ local' \in [locked : BOOLEAN, activity : Activities]
<1>1. CASE l.stored = {}
  BY <1>1, InstallTyped DEF Recover
<1>2. CASE l.stored # {}
  <2>1. l \in Loads /\ app[t] \in Apps
    BY DEF TInv
  <2>2. [l EXCEPT !.step = "remove"] \in Loads
    BY <2>1, StepTyped
  <2>3. loads' \in [Tabs -> SUBSET Loads]
    BY <1>2, <2>2, BecomesTyped DEF Recover
  <2>4. app' = [app EXCEPT ![t].memory = l.stored, ![t].pending = TRUE]
    BY <1>2 DEF Recover
  <2>5. app' \in [Tabs -> Apps]
    BY <2>1, <2>4 DEF TInv, Apps, Loads
  <2> QED
    BY <1>2, <2>3, <2>5 DEF Recover, TInv
<1> QED
  BY <1>1, <1>2

LEMMA TurnAwayTyped ==
  ASSUME TInv, NEW t \in Tabs, NEW l \in loads[t], TurnAway(t, l)
  PROVE  loads' \in [Tabs -> SUBSET Loads] /\ keyCached' \in BOOLEAN
BY EndsTyped, KeyTyped DEF TurnAway

\* The steps of an unlock keep the types.
LEMMA StartTyped ==
  ASSUME TInv, NEW t \in Tabs, NEW l \in loads[t], Start(t, l)
  PROVE  TInv'
<1>1. l \in Loads
  BY DEF TInv
<1>2. loads' \in [Tabs -> SUBSET Loads] /\ keyCached' \in BOOLEAN
  <2>1. CASE ~ l.password /\ Barred(t)
    BY <2>1, TurnAwayTyped DEF Start
  <2>2. CASE ~ (~ l.password /\ Barred(t)) /\ (l.password \/ keyCached)
    <3>1. Becomes(t, l, [l EXCEPT !.step = "read"]) /\ UNCHANGED keyCached
      BY <2>2 DEF Start
    <3> QED
      BY <3>1, <1>1, StepTyped, BecomesTyped DEF TInv
  <2>3. CASE ~ (~ l.password /\ Barred(t)) /\ ~ (l.password \/ keyCached)
    <3>1. Ends(t, l) /\ UNCHANGED keyCached
      BY <2>3 DEF Start
    <3> QED
      BY <3>1, EndsTyped DEF TInv
  <2> QED
    BY <2>1, <2>2, <2>3
<1> QED
  BY <1>2 DEF TInv, Start, work, told

LEMMA ReadCopyTyped ==
  ASSUME TInv, NEW t \in Tabs, NEW l \in loads[t], ReadCopy(t, l)
  PROVE  TInv'
<1>1. l \in Loads
  BY DEF TInv
<1>2. PICK i : i = session[t].ref
  OBVIOUS
<1>3. i \in Ids \cup {NoId} /\ app[t].memory \subseteq Works
  BY <1>2 DEF TInv, Sessions, Apps
<1>4. PICK f : f = IF app[t].memory # {} THEN app[t].memory ELSE Stored(i)
  OBVIOUS
<1>5. f \in SUBSET Works
  BY <1>3, <1>4, StoredTyped
<1>6. loads' \in [Tabs -> SUBSET Loads]
  <2>1. CASE Becomes(t, l, FoundLoad(l, f, i))
    BY <1>1, <1>3, <1>5, <2>1, FoundTyped, BecomesTyped
  <2>2. CASE Becomes(t, l, UnreadLoad(l, i))
    BY <1>1, <1>3, <2>2, UnreadTyped, BecomesTyped
  <2> QED
    BY <2>1, <2>2, <1>2, <1>4, ReadCopyBecomes
<1> QED
  BY <1>6 DEF TInv, ReadCopy, shared, work, told

LEMMA OpenedTyped ==
  ASSUME TInv, NEW t \in Tabs, NEW l \in loads[t], Opened(t, l)
  PROVE  TInv'
<1>1. l \in Loads
  BY DEF TInv
<1>2. /\ loads' \in [Tabs -> SUBSET Loads] /\ app' \in [Tabs -> Apps]
      /\ session' \in [Tabs -> Sessions] /\ keyCached' \in BOOLEAN
      /\ local' \in [locked : BOOLEAN, activity : Activities]
  <2>1. CASE l.password
    <3>1. Becomes(t, l, [l EXCEPT !.step = "store"]) /\ UNCHANGED <<keyCached, local, session, app>>
      BY <2>1 DEF Opened
    <3> QED
      BY <3>1, <1>1, StepTyped, BecomesTyped DEF TInv
  <2>2. CASE ~ l.password /\ BarredNow(t)
    <3>1. TurnAway(t, l) /\ UNCHANGED <<local, session, app>>
      BY <2>2 DEF Opened
    <3> QED
      BY <3>1, TurnAwayTyped DEF TInv
  <2>3. CASE ~ l.password /\ ~ BarredNow(t)
    <3>1. Recover(t, l) /\ UNCHANGED keyCached
      BY <2>3 DEF Opened
    <3> QED
      BY <3>1, RecoverTyped DEF TInv
  <2> QED
    BY <2>1, <2>2, <2>3
<1> QED
  BY <1>2 DEF TInv, Opened, work, told

LEMMA StoreKeyTyped ==
  ASSUME TInv, NEW t \in Tabs, NEW l \in loads[t], StoreKey(t, l)
  PROVE  TInv'
<1>1. l \in Loads
  BY DEF TInv
<1>2. keyCached' \in BOOLEAN
  BY KeyTyped DEF StoreKey
<1>3. /\ loads' \in [Tabs -> SUBSET Loads] /\ app' \in [Tabs -> Apps]
      /\ session' \in [Tabs -> Sessions] /\ forgotten' \in BOOLEAN
      /\ local' \in [locked : BOOLEAN, activity : Activities]
  <2>1. CASE l.current
    BY <2>1, RecoverTyped DEF StoreKey
  <2>2. CASE ~ l.current
    <3>1. /\ Becomes(t, l, [l EXCEPT !.step = "clear"])
          /\ UNCHANGED <<local, session, app, forgotten>>
      BY <2>2 DEF StoreKey
    <3> QED
      BY <3>1, <1>1, StepTyped, BecomesTyped DEF TInv
  <2> QED
    BY <2>1, <2>2
<1> QED
  BY <1>2, <1>3 DEF TInv, StoreKey, work

LEMMA ClearKeyTyped ==
  ASSUME TInv, NEW t \in Tabs, NEW l \in loads[t], ClearKey(t, l)
  PROVE  TInv'
<1>1. keyCached' \in BOOLEAN
  BY KeyTyped DEF ClearKey
<1>2. loads' \in [Tabs -> SUBSET Loads]
  BY EndsTyped DEF ClearKey
<1> QED
  BY <1>1, <1>2 DEF TInv, ClearKey, work

LEMMA RemovedTyped ==
  ASSUME TInv, NEW t \in Tabs, NEW l \in loads[t], Removed(t, l)
  PROVE  TInv'
<1>1. l \in Loads
  BY DEF TInv
<1>2. drafts' \in [Ids -> SUBSET Works]
  <2>1. PICK i : i = l.id
    OBVIOUS
  <2>2. i \in Ids \cup {NoId} /\ drafts' \in DraftsWithout(i)
    BY <1>1, <2>1 DEF Loads, Removed
  <2> QED
    BY <2>2, StoredTyped
<1>3. /\ loads' \in [Tabs -> SUBSET Loads] /\ app' \in [Tabs -> Apps]
      /\ session' \in [Tabs -> Sessions]
      /\ local' \in [locked : BOOLEAN, activity : Activities]
  <2>1. CASE l.current
    BY <2>1, InstallTyped DEF Removed
  <2>2. CASE ~ l.current
    <3>1. /\ Ends(t, l) /\ session' = [session EXCEPT ![t] = Unreferenced(t, l)]
          /\ UNCHANGED <<local, app>>
      BY <2>2 DEF Removed
    <3>2. PICK s : s = Unreferenced(t, l)
      OBVIOUS
    <3>3. s \in Sessions
      BY <3>2 DEF Unreferenced, Sessions, TInv
    <3>4. session' \in [Tabs -> Sessions]
      BY <3>1, <3>2, <3>3 DEF TInv
    <3> QED
      BY <3>1, <3>4, EndsTyped DEF TInv
  <2> QED
    BY <2>1, <2>2
<1> QED
  BY <1>2, <1>3 DEF TInv, Removed, work, told

\* The form, the clock and the settings keep the types.
LEMMA UnlockTyped ==
  ASSUME TInv, NEW t \in Tabs, NEW code \in Codes, Unlock(t, code)
  PROVE  TInv'
<1>1. loads' \in [Tabs -> SUBSET Loads] /\ mustAsk' \subseteq Tabs
  <2>1. Superseded(t) \subseteq Loads /\ NewLoad(TRUE) \in Loads
    BY SupersededTyped, NewLoadTyped
  <2>2. /\ Superseded(t) \in SUBSET Loads
        /\ Superseded(t) \cup {NewLoad(TRUE)} \in SUBSET Loads
    BY <2>1
  <2>3. PICK S \in SUBSET Loads : loads' = [loads EXCEPT ![t] = S]
    BY <2>2 DEF Unlock
  <2>4. loads' \in [Tabs -> SUBSET Loads]
    BY <2>3 DEF TInv
  <2> QED
    BY <2>4 DEF Unlock, TInv
<1> QED
  BY <1>1 DEF TInv, Unlock, shared, work

LEMMA TimePassesTyped ==
  ASSUME TInv, TimePasses
  PROVE  TInv'
<1>1. session' \in [Tabs -> Sessions] /\ local' \in [locked : BOOLEAN, activity : Activities]
  <2>1. ASSUME NEW t \in Tabs, session' = [session EXCEPT ![t].activity = "expired"],
               UNCHANGED local
        PROVE  session' \in [Tabs -> Sessions] /\ local' \in [locked : BOOLEAN, activity : Activities]
    BY <2>1 DEF TInv, Sessions, Activities
  <2>2. ASSUME local' = [local EXCEPT !.activity = "expired"],
               session' = [t \in Tabs |->
                 [session[t] EXCEPT !.activity = IF @ = "none" THEN @ ELSE "expired"]]
        PROVE  session' \in [Tabs -> Sessions] /\ local' \in [locked : BOOLEAN, activity : Activities]
    <3>1. local' \in [locked : BOOLEAN, activity : Activities]
      BY <2>2 DEF TInv, Activities
    <3>2. ASSUME NEW t \in Tabs
          PROVE  [session[t] EXCEPT !.activity = IF @ = "none" THEN @ ELSE "expired"] \in Sessions
      BY DEF TInv, Sessions, Activities
    <3> QED
      BY <2>2, <3>1, <3>2
  <2> QED
    BY <2>1, <2>2 DEF TimePasses
<1> QED
  BY <1>1 DEF TInv, TimePasses, work, told

LEMMA SettingsTyped ==
  ASSUME TInv, NEW t \in Tabs, Settings(t)
  PROVE  TInv'
<1>1. envelopes' \in [password : Codes \cup {None}, recovery : Codes \cup {None}]
  BY DEF TInv, Settings, ChangePassword, GeneratePaperRecovery
<1>2. UNCHANGED <<shared, session, app, check, loads, work, told>>
  BY DEF Settings, ChangePassword, GeneratePaperRecovery
<1> QED
  BY <1>1, <1>2 DEF TInv, shared, work, told

\* The next piece of work is one of those there may be.
LEMMA NextWork ==
  ASSUME made \subseteq Works, Cardinality(made) < MaxWork
  PROVE  Cardinality(made) + 1 \in Works
<1>1. MaxWork \in Nat
  BY BrowserAssumption
<1>2. IsFiniteSet(Works)
  BY <1>1, FS_Interval DEF Works
<1>3. IsFiniteSet(made)
  BY <1>2, FS_Subset
<1>4. Cardinality(made) \in Nat
  BY <1>3, FS_CardinalityType
<1> QED
  BY <1>1, <1>4 DEF Works

LEMMA UseTyped ==
  ASSUME TInv, NEW t \in Tabs, Use(t)
  PROVE  TInv'
<1>1. session' \in [Tabs -> Sessions] /\ local' \in [locked : BOOLEAN, activity : Activities]
  BY DEF TInv, Sessions, Activities, Use
<1>2. app[t] \in Apps
  BY DEF TInv
<1>3. /\ app' \in [Tabs -> Apps] /\ settled' \subseteq Works /\ made' \subseteq Works
  <2>1. ASSUME NEW w \in Works, app' = [app EXCEPT ![t].edits = @ \cup {w}],
               made' = made \cup {w}, UNCHANGED settled
        PROVE  app' \in [Tabs -> Apps] /\ settled' \subseteq Works /\ made' \subseteq Works
    BY <2>1, <1>2 DEF TInv, Apps
  <2>2. ASSUME settled' = settled \cup app[t].edits,
               app' = [app EXCEPT ![t].edits = {}], UNCHANGED made
        PROVE  app' \in [Tabs -> Apps] /\ settled' \subseteq Works /\ made' \subseteq Works
    BY <2>2, <1>2 DEF TInv, Apps
  <2> QED
    BY <2>1, <2>2, NextWork DEF Use, TInv
<1> QED
  BY <1>1, <1>3 DEF TInv, Use, told

\* Closing and leaving a tab keep the types.
LEMMA CloseVaultTyped ==
  ASSUME TInv, NEW t \in Tabs, NEW ref \in Ids \cup {NoId}, CloseVault(t, ref)
  PROVE  /\ loads' \in [Tabs -> SUBSET Loads] /\ session' \in [Tabs -> Sessions]
         /\ local' \in [locked : BOOLEAN, activity : Activities]
         /\ mustAsk' \subseteq Tabs
<1>1. PICK S : S = Superseded(t)
  OBVIOUS
<1>2. S \subseteq Loads
  BY <1>1, SupersededTyped
<1>3. loads' = [loads EXCEPT ![t] = S]
  BY <1>1 DEF CloseVault
<1>4. loads' \in [Tabs -> SUBSET Loads]
  BY <1>2, <1>3 DEF TInv
<1>5. session' \in [Tabs -> Sessions]
  <2>1. session[t] \in Sessions
    BY DEF TInv
  <2>2. session' = [session EXCEPT ![t] = [session[t] EXCEPT !.locked = TRUE, !.ref = ref]]
    BY DEF CloseVault
  <2>3. [session[t] EXCEPT !.locked = TRUE, !.ref = ref] \in Sessions
    BY <2>1 DEF Sessions
  <2> QED
    BY <2>2, <2>3 DEF TInv
<1> QED
  BY <1>4, <1>5 DEF CloseVault, TInv

LEMMA LockTyped ==
  ASSUME TInv, NEW t \in Tabs, Lock(t)
  PROVE  TInv'
<1>1. /\ loads' \in [Tabs -> SUBSET Loads] /\ session' \in [Tabs -> Sessions]
      /\ local' \in [locked : BOOLEAN, activity : Activities]
      /\ mustAsk' \subseteq Tabs
  <2>1. PICK r \in Ids \cup {NoId} : r = session[t].ref
    BY DEF TInv, Sessions
  <2> QED
    BY <2>1, CloseVaultTyped DEF Lock
<1>2. app[t] \in Apps
  BY DEF TInv
<1>3. app' \in [Tabs -> Apps] /\ settled' \subseteq Works
  BY <1>2 DEF Lock, TInv, Apps
<1> QED
  BY <1>1, <1>3 DEF Lock, TInv

LEMMA AutoLockTyped ==
  ASSUME TInv, NEW t \in Tabs, AutoLock(t)
  PROVE  TInv'
<1> DEFINE Typed ==
      /\ loads' \in [Tabs -> SUBSET Loads] /\ session' \in [Tabs -> Sessions]
      /\ local' \in [locked : BOOLEAN, activity : Activities]
      /\ mustAsk' \subseteq Tabs
      /\ app' \in [Tabs -> Apps] /\ drafts' \in [Ids -> SUBSET Works]
      /\ check' \in [Tabs -> Checks \cup {NoCheck}]
<1>1. app[t] \in Apps /\ session[t].ref \in Ids \cup {NoId}
  BY DEF TInv, Sessions
<1>2. ASSUME app[t].edits = {} PROVE Typed
  <2>1. /\ CloseVault(t, session[t].ref)
        /\ check' = [check EXCEPT ![t] = [step |-> "clear", copy |-> {},
                                          id |-> NoId, durable |-> TRUE]]
        /\ app' = [app EXCEPT ![t] = NewApp] /\ UNCHANGED drafts
    BY <1>2 DEF AutoLock
  <2>2. [step |-> "clear", copy |-> {}, id |-> NoId, durable |-> TRUE] \in Checks
    BY DEF Checks
  <2>3. check' \in [Tabs -> Checks \cup {NoCheck}]
    BY <2>1, <2>2 DEF TInv
  <2>4. app' \in [Tabs -> Apps] /\ drafts' \in [Ids -> SUBSET Works]
    BY <2>1, NewAppTyped DEF TInv
  <2>5. /\ loads' \in [Tabs -> SUBSET Loads] /\ session' \in [Tabs -> Sessions]
        /\ local' \in [locked : BOOLEAN, activity : Activities]
        /\ mustAsk' \subseteq Tabs
    BY <1>1, <2>1, CloseVaultTyped
  <2> QED
    BY <2>3, <2>4, <2>5
<1>3. ASSUME app[t].edits # {} PROVE Typed
  <2>1. PICK id \in NewIds(t), durable \in References :
          /\ CloseVault(t, IF durable THEN id ELSE session[t].ref)
          /\ drafts' = [drafts EXCEPT ![id] = {}]
          /\ check' = [check EXCEPT ![t] =
               [step |-> "seal", copy |-> app[t].edits, id |-> id, durable |-> durable]]
    BY <1>3 DEF AutoLock
  <2>2. PICK a : a = [app[t] EXCEPT !.open = FALSE, !.edits = {}, !.pending = TRUE]
    OBVIOUS
  <2>3. id \in Ids /\ durable \in BOOLEAN
    BY DEF NewIds, References
  <2>4. PICK c : c = [step |-> "seal", copy |-> app[t].edits, id |-> id, durable |-> durable]
    OBVIOUS
  <2>5. c \in Checks
    BY <1>1, <2>3, <2>4 DEF Checks, Apps
  <2>6. check' \in [Tabs -> Checks \cup {NoCheck}]
    BY <2>1, <2>4, <2>5 DEF TInv
  <2>7. PICK r : r = IF durable THEN id ELSE session[t].ref
    OBVIOUS
  <2>8. r \in Ids \cup {NoId} /\ CloseVault(t, r)
    BY <1>1, <2>1, <2>3, <2>7
  <2>9. /\ loads' \in [Tabs -> SUBSET Loads] /\ session' \in [Tabs -> Sessions]
        /\ local' \in [locked : BOOLEAN, activity : Activities]
        /\ mustAsk' \subseteq Tabs
    BY <2>8, CloseVaultTyped
  <2>10. a = [open |-> FALSE, edits |-> {}, memory |-> app[t].memory, pending |-> TRUE]
    BY <1>1, <2>2 DEF Apps
  <2>11. app' \in [Tabs -> Apps]
    <3>1. app' = [app EXCEPT ![t] = a]
      BY <1>3, <2>2 DEF AutoLock
    <3>2. a \in Apps
      BY <1>1, <2>10 DEF Apps
    <3> QED
      BY <3>1, <3>2 DEF TInv
  <2>12. drafts' \in [Ids -> SUBSET Works]
    BY <2>1, <2>3 DEF TInv
  <2> QED
    BY <2>6, <2>9, <2>11, <2>12
<1>4. Typed
  BY <1>2, <1>3
<1> QED
  BY <1>4 DEF TInv, AutoLock, work

LEMMA SealTyped ==
  ASSUME TInv, NEW t \in Tabs, Seal(t)
  PROVE  TInv'
<1>1. check[t] \in Checks /\ app[t] \in Apps
  BY DEF TInv, Seal, NoCheck
<1>2. app' \in [Tabs -> Apps] /\ check' \in [Tabs -> Checks \cup {NoCheck}]
  BY <1>1 DEF TInv, Seal, Apps, Checks
<1> QED
  BY <1>2 DEF TInv, Seal, shared, work, told

LEMMA PutDraftTyped ==
  ASSUME TInv, NEW t \in Tabs, PutDraft(t)
  PROVE  TInv'
<1>1. check[t] \in Checks /\ app[t] \in Apps
  BY DEF TInv, PutDraft, NoCheck
<1>2. check' \in [Tabs -> Checks \cup {NoCheck}]
  BY <1>1 DEF TInv, PutDraft, Checks
<1>3. app' \in [Tabs -> Apps]
  <2>1. PICK p \in BOOLEAN : p = Pending(t)
    BY <1>1 DEF Pending, Checks
  <2>2. app' = [app EXCEPT ![t].pending = p] \/ UNCHANGED app
    BY <2>1 DEF PutDraft
  <2> QED
    BY <1>1, <2>2 DEF TInv, Apps
<1>4. drafts' \in [Ids -> SUBSET Works]
  BY <1>1 DEF TInv, PutDraft, Checks
<1> QED
  BY <1>2, <1>3, <1>4 DEF TInv, PutDraft, work, told

LEMMA CheckDoneTyped ==
  ASSUME TInv, NEW t \in Tabs, CheckDone(t)
  PROVE  TInv'
<1>1. keyCached' \in BOOLEAN /\ forgotten' \in BOOLEAN
  BY KeyTyped DEF CheckDone, TInv
<1>2. check' \in [Tabs -> Checks \cup {NoCheck}]
  BY DEF TInv, CheckDone
<1> QED
  BY <1>1, <1>2 DEF TInv, CheckDone, work

LEMMA ForgetTyped ==
  ASSUME TInv, NEW t \in Tabs, Forget(t)
  PROVE  TInv'
<1>1. keyCached' \in BOOLEAN /\ forgotten' \in BOOLEAN
  BY KeyTyped DEF Forget, TInv
<1>2. PICK r \in Ids \cup {NoId} : r = session[t].ref
  BY DEF TInv, Sessions
<1>3. drafts' \in [Ids -> SUBSET Works] /\ Stored(r) \subseteq Works
  BY <1>2, StoredTyped DEF Forget
<1>4. app[t] \in Apps
  BY DEF TInv
<1>5. app' \in [Tabs -> Apps]
  BY <1>4 DEF TInv, Forget, NewApp, Apps
<1>6. settled' \subseteq Works
  BY <1>2, <1>3, <1>4 DEF TInv, Forget, Apps
<1>7. /\ loads' \in [Tabs -> SUBSET Loads] /\ session' \in [Tabs -> Sessions]
      /\ local' \in [locked : BOOLEAN, activity : Activities]
      /\ mustAsk' \subseteq Tabs
  BY CloseVaultTyped DEF Forget
<1> QED
  BY <1>1, <1>3, <1>5, <1>6, <1>7 DEF TInv, Forget

LEMMA LeavePageTyped ==
  ASSUME TInv, NEW t \in Tabs, NEW s \in Sessions, NEW lost \in SUBSET Works,
         LeavePage(t, s, lost), mustAsk' \subseteq mustAsk
  PROVE  TInv'
<1>1. session' \in [Tabs -> Sessions]
  BY DEF LeavePage, TInv
<1>2. app' \in [Tabs -> Apps] /\ check' \in [Tabs -> Checks \cup {NoCheck}]
  BY NewAppTyped DEF LeavePage, TInv
<1>3. loads' \in [Tabs -> SUBSET Loads]
  BY NewLoadTyped DEF LeavePage, TInv
<1>4. InMemory(t) \subseteq Works
  <2>1. app[t] \in Apps /\ check[t] \in Checks \cup {NoCheck}
    BY DEF TInv
  <2>2. app[t].edits \subseteq Works /\ app[t].memory \subseteq Works
    BY <2>1 DEF Apps
  <2>3. check[t] # NoCheck => check[t].copy \subseteq Works
    BY <2>1 DEF Checks
  <2> QED
    BY <2>2, <2>3 DEF InMemory
<1>5. settled' \subseteq Works
  BY <1>4 DEF LeavePage, TInv
<1>6. forgotten' \in BOOLEAN
  BY DEF LeavePage, TInv
<1> QED
  BY <1>1, <1>2, <1>3, <1>5, <1>6 DEF TInv, LeavePage, shared

LEMMA ReloadTyped ==
  ASSUME TInv, NEW t \in Tabs, Reload(t)
  PROVE  TInv'
<1>1. session[t] \in Sessions
  BY DEF TInv
<1> QED
  BY <1>1, LeavePageTyped DEF Reload

LEMMA NewTabTyped ==
  ASSUME TInv, NEW t \in Tabs, NewTab(t)
  PROVE  TInv'
<1>1. PICK s \in {NewSession} \cup {session[u] : u \in Tabs \ {t}} :
        LeavePage(t, s, Stored(session[t].ref))
  BY DEF NewTab
<1>2. s \in Sessions
  BY NewAppTyped DEF TInv
<1>3. PICK r \in Ids \cup {NoId} : r = session[t].ref
  BY DEF TInv, Sessions
<1>4. PICK lost \in SUBSET Works : lost = Stored(r)
  BY <1>3, StoredTyped
<1>5. LeavePage(t, s, lost)
  BY <1>1, <1>3, <1>4
<1> QED
  BY <1>2, <1>5, LeavePageTyped DEF NewTab
-----------------------------------------------------------------------------
(* What each step does to the tabs: lemma XEffect is what the invariants need *)
(* to know of action X.  When the user was last active does not matter.       *)

SameTab(u) ==
  /\ app'[u] = app[u] /\ check'[u] = check[u] /\ loads'[u] = loads[u]
  /\ session'[u].locked = session[u].locked /\ session'[u].ref = session[u].ref

Others(t) == \A u \in Tabs \ {t} : SameTab(u)

\* Call l of t returns, or goes on as n.
Returns(t, l) == loads'[t] = loads[t] \ {l}

GoesOn(t, l, n) ==
  /\ n \in Loads /\ loads'[t] = (loads[t] \ {l}) \cup {n}
  /\ n.current = l.current /\ n.password = l.password

\* With the copy it has read.
Keeping(t, l, n) ==
  /\ GoesOn(t, l, n)
  /\ n.stored = l.stored /\ n.available = l.available /\ n.id = l.id

SameView(t) ==
  /\ app'[t] = app[t] /\ check'[t] = check[t]
  /\ session'[t].locked = session[t].locked /\ session'[t].ref = session[t].ref

Dropped(t, l) == IF l.available THEN NoId ELSE session[t].ref

Shows(t, l) ==
  /\ Returns(t, l) /\ check'[t] = check[t]
  /\ app'[t].open /\ app'[t].edits = l.stored
  /\ app'[t].memory = {} /\ app'[t].pending = ~ l.available
  /\ session'[t].ref = Dropped(t, l)
  /\ session'[t].locked = (session[t].locked /\ ~ l.password)

KeepsCopy(t, l) ==
  /\ \E n \in Loads : Keeping(t, l, n) /\ n.step = "remove"
  /\ app'[t].open = app[t].open /\ app'[t].edits = app[t].edits
  /\ app'[t].memory = l.stored /\ app'[t].pending
  /\ check'[t] = check[t]
  /\ session'[t].locked = session[t].locked /\ session'[t].ref = session[t].ref

Recovers(t, l) == IF l.stored = {} THEN Shows(t, l) ELSE KeepsCopy(t, l)

LEMMA InstallEffect ==
  ASSUME TInv, NEW t \in Tabs, NEW l \in loads[t], Install(t, l), UNCHANGED check
  PROVE  Others(t) /\ Shows(t, l)
<1>1. l \in Loads /\ session[t] \in Sessions
  BY DEF TInv
<1>2. Returns(t, l) /\ \A u \in Tabs \ {t} : loads'[u] = loads[u]
  BY EndsTyped DEF Install, Returns
<1>3. PICK a : a = [open |-> TRUE, edits |-> l.stored, memory |-> {}, pending |-> ~ l.available]
  OBVIOUS
<1>4. app' = [app EXCEPT ![t] = a]
  BY <1>3 DEF Install
<1>5. app'[t] = a /\ \A u \in Tabs \ {t} : app'[u] = app[u]
  BY <1>4 DEF TInv
<1>6. PICK s : s = Unreferenced(t, l)
  OBVIOUS
<1>7. s \in Sessions /\ s.ref = Dropped(t, l) /\ s.locked = session[t].locked
  BY <1>1, <1>6 DEF Unreferenced, Sessions, Dropped
<1>8. PICK q : q = [s EXCEPT !.locked = IF l.password THEN FALSE ELSE @, !.activity = "fresh"]
  OBVIOUS
<1>9. q.ref = s.ref /\ q.locked = (s.locked /\ ~ l.password)
  BY <1>1, <1>7, <1>8 DEF Sessions, Loads
<1>10. session' = [session EXCEPT ![t] = q]
  BY <1>6, <1>8 DEF Install
<1>11. session'[t] = q /\ \A u \in Tabs \ {t} : session'[u] = session[u]
  BY <1>10 DEF TInv
<1>12. Others(t)
  BY <1>2, <1>5, <1>11 DEF Others, SameTab
<1>13. /\ app'[t].open /\ app'[t].edits = l.stored
       /\ app'[t].memory = {} /\ app'[t].pending = ~ l.available
  BY <1>3, <1>5
<1> QED
  BY <1>2, <1>7, <1>9, <1>11, <1>12, <1>13 DEF Shows

LEMMA RecoverEffect ==
  ASSUME TInv, NEW t \in Tabs, NEW l \in loads[t], Recover(t, l), UNCHANGED check
  PROVE  Others(t) /\ Recovers(t, l)
<1>1. CASE l.stored = {}
  BY <1>1, InstallEffect DEF Recover, Recovers
<1>2. CASE l.stored # {}
  <2>1. l \in Loads /\ app[t] \in Apps
    BY DEF TInv
  <2>2. PICK n \in Loads : /\ n = [l EXCEPT !.step = "remove"] /\ n.step = "remove"
                           /\ n.current = l.current /\ n.password = l.password
                           /\ n.stored = l.stored /\ n.available = l.available /\ n.id = l.id
    BY <2>1, StepTyped
  <2>3. /\ loads'[t] = (loads[t] \ {l}) \cup {n}
        /\ \A u \in Tabs \ {t} : loads'[u] = loads[u]
    BY <1>2, <2>2, BecomesTyped DEF Recover
  <2>4. Keeping(t, l, n)
    BY <2>2, <2>3 DEF Keeping, GoesOn
  <2>5. app' = [app EXCEPT ![t].memory = l.stored, ![t].pending = TRUE]
    BY <1>2 DEF Recover
  <2>6. /\ app'[t].open = app[t].open /\ app'[t].edits = app[t].edits
        /\ app'[t].memory = l.stored /\ app'[t].pending
        /\ \A u \in Tabs \ {t} : app'[u] = app[u]
    BY <2>1, <2>5 DEF TInv, Apps
  <2>7. UNCHANGED session
    BY <1>2 DEF Recover
  <2> QED
    BY <1>2, <2>2, <2>3, <2>4, <2>6, <2>7 DEF Recovers, KeepsCopy, Others, SameTab
<1> QED
  BY <1>1, <1>2

LEMMA StartEffect ==
  ASSUME TInv, NEW t \in Tabs, NEW l \in loads[t], Start(t, l)
  PROVE  /\ l.step = "start" /\ check[t] = NoCheck
         /\ Others(t) /\ SameView(t)
         /\ \/ Returns(t, l)
            \/ /\ \E n \in Loads : Keeping(t, l, n) /\ n.step = "read"
               /\ l.password \/ ~ session[t].locked
<1>1. l \in Loads
  BY DEF TInv
<1>2. \/ /\ Ends(t, l)
      \/ /\ Becomes(t, l, [l EXCEPT !.step = "read"])
         /\ l.password \/ ~ session[t].locked
  BY DEF Start, TurnAway, Barred
<1>3. CASE Ends(t, l)
  BY <1>3, EndsTyped DEF Start, Returns, Others, SameTab, SameView
<1>4. CASE Becomes(t, l, [l EXCEPT !.step = "read"]) /\ (l.password \/ ~ session[t].locked)
  <2>1. PICK n \in Loads : /\ n = [l EXCEPT !.step = "read"] /\ n.step = "read"
                           /\ n.current = l.current /\ n.password = l.password
                           /\ n.stored = l.stored /\ n.available = l.available /\ n.id = l.id
    BY <1>1, StepTyped
  <2>2. /\ loads'[t] = (loads[t] \ {l}) \cup {n}
        /\ \A u \in Tabs \ {t} : loads'[u] = loads[u]
    BY <1>4, <2>1, BecomesTyped
  <2>3. Keeping(t, l, n)
    BY <2>1, <2>2 DEF Keeping, GoesOn
  <2> QED
    BY <1>4, <2>1, <2>2, <2>3 DEF Start, Others, SameTab, SameView
<1> QED
  BY <1>2, <1>3, <1>4

Finds(t) == IF app[t].memory # {} THEN app[t].memory ELSE Stored(session[t].ref)

LEMMA ReadCopyEffect ==
  ASSUME TInv, NEW t \in Tabs, NEW l \in loads[t], ReadCopy(t, l)
  PROVE  /\ l.step = "read"
         /\ Others(t) /\ SameView(t)
         /\ \E n \in Loads :
              /\ GoesOn(t, l, n) /\ n.step = "open"
              /\ n.stored \in {l.stored, Finds(t)}
              /\ "read" \notin Faults =>
                   n.available = l.available /\ n.stored = Finds(t) /\ n.id = session[t].ref
<1>1. l \in Loads
  BY DEF TInv
<1>2. PICK i \in Ids \cup {NoId} : i = session[t].ref
  BY DEF TInv, Sessions
<1>3. PICK f \in SUBSET Works : f = Finds(t)
  BY <1>2, StoredTyped DEF TInv, Apps, Finds
<1>4. CASE Becomes(t, l, FoundLoad(l, f, i))
  <2>1. PICK n \in Loads : /\ n = FoundLoad(l, f, i)
                           /\ n.step = "open" /\ n.current = l.current /\ n.password = l.password
                           /\ n.stored = f /\ n.available = l.available /\ n.id = i
    BY <1>1, FoundTyped
  <2>2. /\ loads'[t] = (loads[t] \ {l}) \cup {n}
        /\ \A u \in Tabs \ {t} : loads'[u] = loads[u]
    BY <1>4, <2>1, BecomesTyped
  <2> QED
    BY <1>2, <1>3, <2>1, <2>2 DEF ReadCopy, Others, SameTab, SameView, GoesOn
<1>5. CASE "read" \in Faults /\ Becomes(t, l, UnreadLoad(l, i))
  <2>1. PICK n \in Loads : /\ n = UnreadLoad(l, i) /\ n.stored = l.stored
                           /\ n.step = "open" /\ n.current = l.current /\ n.password = l.password
    BY <1>1, <1>2, UnreadTyped
  <2>2. /\ loads'[t] = (loads[t] \ {l}) \cup {n}
        /\ \A u \in Tabs \ {t} : loads'[u] = loads[u]
    BY <1>5, <2>1, BecomesTyped
  <2> QED
    BY <1>5, <2>1, <2>2 DEF ReadCopy, Others, SameTab, SameView, GoesOn
<1> QED
  BY <1>2, <1>3, <1>4, <1>5, ReadCopyBecomes DEF Finds

LEMMA OpenedEffect ==
  ASSUME TInv, NEW t \in Tabs, NEW l \in loads[t], Opened(t, l)
  PROVE  /\ l.step = "open" /\ Others(t)
         /\ \/ /\ l.password /\ SameView(t)
               /\ \E n \in Loads : Keeping(t, l, n) /\ n.step = "store"
            \/ ~ l.password /\ SameView(t) /\ Returns(t, l)
            \/ ~ l.password /\ ~ local.locked /\ Recovers(t, l)
<1>1. l \in Loads
  BY DEF TInv
<1>2. CASE l.password
  <2>1. Becomes(t, l, [l EXCEPT !.step = "store"]) /\ UNCHANGED <<keyCached, local, session, app>>
    BY <1>2 DEF Opened
  <2>2. PICK n \in Loads : /\ n = [l EXCEPT !.step = "store"] /\ n.step = "store"
                           /\ n.current = l.current /\ n.password = l.password
                           /\ n.stored = l.stored /\ n.available = l.available /\ n.id = l.id
    BY <1>1, StepTyped
  <2>3. /\ loads'[t] = (loads[t] \ {l}) \cup {n}
        /\ \A u \in Tabs \ {t} : loads'[u] = loads[u]
    BY <2>1, <2>2, BecomesTyped
  <2>4. Keeping(t, l, n)
    BY <2>2, <2>3 DEF Keeping, GoesOn
  <2> QED
    BY <1>2, <2>1, <2>2, <2>3, <2>4 DEF Opened, Others, SameTab, SameView
<1>3. CASE ~ l.password /\ BarredNow(t)
  <2>1. Ends(t, l) /\ UNCHANGED <<local, session, app, check>> /\ l.step = "open"
    BY <1>3 DEF Opened, TurnAway
  <2> QED
    BY <1>3, <2>1, EndsTyped DEF Returns, Others, SameTab, SameView
<1>4. CASE ~ l.password /\ ~ BarredNow(t)
  <2>1. Recover(t, l) /\ UNCHANGED check /\ l.step = "open"
    BY <1>4 DEF Opened
  <2>2. Others(t) /\ Recovers(t, l)
    BY <2>1, RecoverEffect
  <2> QED
    BY <1>4, <2>1, <2>2 DEF BarredNow
<1> QED
  BY <1>2, <1>3, <1>4

LEMMA StoreKeyEffect ==
  ASSUME TInv, NEW t \in Tabs, NEW l \in loads[t], StoreKey(t, l)
  PROVE  /\ l.step = "store" /\ Others(t)
         /\ \/ l.current /\ Recovers(t, l)
            \/ /\ ~ l.current /\ SameView(t)
               /\ \E n \in Loads : Keeping(t, l, n) /\ n.step = "clear"
<1>1. l \in Loads
  BY DEF TInv
<1>2. CASE l.current
  <2>1. Recover(t, l) /\ UNCHANGED check /\ l.step = "store"
    BY <1>2 DEF StoreKey
  <2>2. Others(t) /\ Recovers(t, l)
    BY <2>1, RecoverEffect
  <2> QED
    BY <1>2, <2>1, <2>2
<1>3. CASE ~ l.current
  <2>1. Becomes(t, l, [l EXCEPT !.step = "clear"]) /\ UNCHANGED <<local, session, app, forgotten>>
    BY <1>3 DEF StoreKey
  <2>2. PICK n \in Loads : /\ n = [l EXCEPT !.step = "clear"] /\ n.step = "clear"
                           /\ n.current = l.current /\ n.password = l.password
                           /\ n.stored = l.stored /\ n.available = l.available /\ n.id = l.id
    BY <1>1, StepTyped
  <2>3. /\ loads'[t] = (loads[t] \ {l}) \cup {n}
        /\ \A u \in Tabs \ {t} : loads'[u] = loads[u]
    BY <2>1, <2>2, BecomesTyped
  <2>4. Keeping(t, l, n)
    BY <2>2, <2>3 DEF Keeping, GoesOn
  <2> QED
    BY <1>3, <2>1, <2>2, <2>3, <2>4 DEF StoreKey, Others, SameTab, SameView
<1> QED
  BY <1>2, <1>3

LEMMA ClearKeyEffect ==
  ASSUME TInv, NEW t \in Tabs, NEW l \in loads[t], ClearKey(t, l)
  PROVE  l.step = "clear" /\ Others(t) /\ SameView(t) /\ Returns(t, l)
BY EndsTyped DEF ClearKey, Returns, Others, SameTab, SameView

LEMMA RemovedEffect ==
  ASSUME TInv, NEW t \in Tabs, NEW l \in loads[t], Removed(t, l)
  PROVE  /\ l.step = "remove" /\ Others(t)
         /\ \/ l.current /\ Shows(t, l)
            \/ /\ ~ l.current /\ Returns(t, l)
               /\ app'[t] = app[t] /\ check'[t] = check[t]
               /\ session'[t].locked = session[t].locked
               /\ session'[t].ref = Dropped(t, l)
<1>1. l \in Loads /\ session[t] \in Sessions
  BY DEF TInv
<1>2. CASE l.current
  <2>1. Install(t, l) /\ UNCHANGED check /\ l.step = "remove"
    BY <1>2 DEF Removed
  <2> QED
    BY <1>2, <2>1, InstallEffect
<1>3. CASE ~ l.current
  <2>1. /\ Ends(t, l) /\ UNCHANGED <<local, app>> /\ l.step = "remove" /\ UNCHANGED check
        /\ session' = [session EXCEPT ![t] = Unreferenced(t, l)]
    BY <1>3 DEF Removed
  <2>2. PICK s : s = Unreferenced(t, l)
    OBVIOUS
  <2>3. s \in Sessions /\ s.ref = Dropped(t, l) /\ s.locked = session[t].locked
    BY <1>1, <2>2 DEF Unreferenced, Sessions, Dropped
  <2>4. session'[t] = s /\ \A u \in Tabs \ {t} : session'[u] = session[u]
    BY <2>1, <2>2 DEF TInv
  <2>5. Returns(t, l) /\ \A u \in Tabs \ {t} : loads'[u] = loads[u]
    BY <2>1, EndsTyped DEF Returns
  <2> QED
    BY <1>3, <2>1, <2>3, <2>4, <2>5 DEF Others, SameTab
<1> QED
  BY <1>2, <1>3

\* What locking does to the tab, besides to its view.
Closes(t, ref) ==
  /\ loads'[t] = Superseded(t)
  /\ session'[t].locked /\ session'[t].ref = ref
  /\ mustAsk' = mustAsk \cup {t}

LEMMA CloseVaultEffect ==
  ASSUME TInv, NEW t \in Tabs, NEW ref \in Ids \cup {NoId}, CloseVault(t, ref)
  PROVE  /\ Closes(t, ref)
         /\ \A u \in Tabs \ {t} : loads'[u] = loads[u] /\ session'[u] = session[u]
<1>1. PICK s : s = [session[t] EXCEPT !.locked = TRUE, !.ref = ref]
  OBVIOUS
<1>2. s.locked /\ s.ref = ref
  BY <1>1 DEF TInv, Sessions
<1>3. session' = [session EXCEPT ![t] = s]
  BY <1>1 DEF CloseVault
<1>4. session'[t] = s /\ \A u \in Tabs \ {t} : session'[u] = session[u]
  BY <1>3 DEF TInv
<1>5. loads'[t] = Superseded(t) /\ \A u \in Tabs \ {t} : loads'[u] = loads[u]
  BY DEF CloseVault, TInv
<1> QED
  BY <1>2, <1>4, <1>5 DEF CloseVault, Closes

LEMMA LockEffect ==
  ASSUME TInv, NEW t \in Tabs, Lock(t)
  PROVE  /\ Others(t) /\ Closes(t, session[t].ref) /\ check'[t] = check[t]
         /\ ~ app'[t].open /\ app'[t].edits = {}
         /\ app'[t].memory = app[t].memory /\ app'[t].pending = app[t].pending
<1>1. PICK r \in Ids \cup {NoId} : r = session[t].ref
  BY DEF TInv, Sessions
<1>2. /\ Closes(t, r)
      /\ \A u \in Tabs \ {t} : loads'[u] = loads[u] /\ session'[u] = session[u]
  BY <1>1, CloseVaultEffect DEF Lock
<1>3. /\ ~ app'[t].open /\ app'[t].edits = {}
      /\ app'[t].memory = app[t].memory /\ app'[t].pending = app[t].pending
      /\ \A u \in Tabs \ {t} : app'[u] = app[u]
  <2>1. app[t] \in Apps
    BY DEF TInv
  <2> QED
    BY <2>1 DEF Lock, TInv, Apps
<1> QED
  BY <1>1, <1>2, <1>3 DEF Lock, Others, SameTab

LEMMA ForgetEffect ==
  ASSUME TInv, NEW t \in Tabs, Forget(t)
  PROVE  /\ app[t].open /\ Others(t) /\ Closes(t, NoId) /\ check'[t] = check[t]
         /\ ~ app'[t].open /\ app'[t].edits = {}
         /\ app'[t].memory = {} /\ app'[t].pending = app[t].pending
<1>1. /\ Closes(t, NoId)
      /\ \A u \in Tabs \ {t} : loads'[u] = loads[u] /\ session'[u] = session[u]
  BY CloseVaultEffect DEF Forget
<1>2. /\ ~ app'[t].open /\ app'[t].edits = {}
      /\ app'[t].memory = {} /\ app'[t].pending = app[t].pending
      /\ \A u \in Tabs \ {t} : app'[u] = app[u]
  BY DEF Forget, TInv, NewApp
<1> QED
  BY <1>1, <1>2 DEF Forget, Activity, Others, SameTab

\* The checkpoint of an automatic lock with nothing to keep, and with work.
EmptyCheck == [step |-> "clear", copy |-> {}, id |-> NoId, durable |-> TRUE]

AutoLocks(t) ==
  \/ /\ app[t].edits = {} /\ Closes(t, session[t].ref) /\ check'[t] = EmptyCheck
     /\ app'[t] = NewApp /\ UNCHANGED drafts
  \/ /\ app[t].edits # {}
     /\ \E id \in NewIds(t), durable \in References :
          /\ Closes(t, IF durable THEN id ELSE session[t].ref)
          /\ drafts' = [drafts EXCEPT ![id] = {}]
          /\ check'[t].step = "seal" /\ check'[t].copy = app[t].edits
          /\ check'[t].id = id /\ check'[t].durable = durable /\ check'[t] \in Checks
     /\ ~ app'[t].open /\ app'[t].edits = {} /\ app'[t].pending
     /\ app'[t].memory = app[t].memory

LEMMA AutoLockEffect ==
  ASSUME TInv, NEW t \in Tabs, AutoLock(t)
  PROVE  app[t].open /\ StorageAnswers(t) /\ Others(t) /\ AutoLocks(t)
<1>1. app[t] \in Apps /\ session[t].ref \in Ids \cup {NoId}
  BY DEF TInv, Sessions
<1>2. app[t].open /\ StorageAnswers(t)
  BY DEF AutoLock
<1>3. ASSUME app[t].edits = {} PROVE Others(t) /\ AutoLocks(t)
  <2>1. /\ CloseVault(t, session[t].ref)
        /\ check' = [check EXCEPT ![t] = EmptyCheck]
        /\ app' = [app EXCEPT ![t] = NewApp] /\ UNCHANGED drafts
    BY <1>3 DEF AutoLock, EmptyCheck
  <2>2. PICK r \in Ids \cup {NoId} : r = session[t].ref
    BY <1>1
  <2>3. /\ Closes(t, r)
        /\ \A u \in Tabs \ {t} : loads'[u] = loads[u] /\ session'[u] = session[u]
    BY <2>1, <2>2, CloseVaultEffect
  <2>4. /\ check'[t] = EmptyCheck /\ app'[t] = NewApp
        /\ \A u \in Tabs \ {t} : check'[u] = check[u] /\ app'[u] = app[u]
    BY <2>1 DEF TInv
  <2> QED
    BY <1>3, <2>1, <2>2, <2>3, <2>4 DEF AutoLocks, Others, SameTab
<1>4. ASSUME app[t].edits # {} PROVE Others(t) /\ AutoLocks(t)
  <2>1. PICK id \in NewIds(t), durable \in References :
          /\ CloseVault(t, IF durable THEN id ELSE session[t].ref)
          /\ drafts' = [drafts EXCEPT ![id] = {}]
          /\ check' = [check EXCEPT ![t] =
               [step |-> "seal", copy |-> app[t].edits, id |-> id, durable |-> durable]]
    BY <1>4 DEF AutoLock
  <2>2. PICK a : a = [app[t] EXCEPT !.open = FALSE, !.edits = {}, !.pending = TRUE]
    OBVIOUS
  <2>3. id \in Ids /\ durable \in BOOLEAN
    BY DEF NewIds, References
  <2>4. PICK c : c = [step |-> "seal", copy |-> app[t].edits, id |-> id, durable |-> durable]
    OBVIOUS
  <2>5. c \in Checks /\ c.step = "seal" /\ c.copy = app[t].edits /\ c.id = id /\ c.durable = durable
    BY <1>1, <2>3, <2>4 DEF Checks, Apps
  <2>6. check'[t] = c /\ \A u \in Tabs \ {t} : check'[u] = check[u]
    BY <2>1, <2>4 DEF TInv
  <2>7. a = [open |-> FALSE, edits |-> {}, memory |-> app[t].memory, pending |-> TRUE]
    BY <1>1, <2>2 DEF Apps
  <2>8. app' = [app EXCEPT ![t] = a]
    BY <1>4, <2>2 DEF AutoLock
  <2>9. app'[t] = a /\ \A u \in Tabs \ {t} : app'[u] = app[u]
    BY <2>8 DEF TInv
  <2>10. PICK r : r = IF durable THEN id ELSE session[t].ref
    OBVIOUS
  <2>11. /\ Closes(t, r)
         /\ \A u \in Tabs \ {t} : loads'[u] = loads[u] /\ session'[u] = session[u]
    BY <1>1, <2>1, <2>3, <2>10, CloseVaultEffect
  <2>12. /\ ~ app'[t].open /\ app'[t].edits = {} /\ app'[t].pending
         /\ app'[t].memory = app[t].memory
    BY <2>7, <2>9
  <2>13. Others(t)
    BY <2>6, <2>9, <2>11 DEF Others, SameTab
  <2>14. \E i \in NewIds(t), d \in References :
          /\ Closes(t, IF d THEN i ELSE session[t].ref)
          /\ drafts' = [drafts EXCEPT ![i] = {}]
          /\ check'[t].step = "seal" /\ check'[t].copy = app[t].edits
          /\ check'[t].id = i /\ check'[t].durable = d /\ check'[t] \in Checks
    BY <2>1, <2>5, <2>6, <2>10, <2>11
  <2> QED
    BY <1>4, <2>12, <2>13, <2>14 DEF AutoLocks
<1> QED
  BY <1>2, <1>3, <1>4

\* The checkpoint goes on to step s.
CheckGoesOn(t, s) ==
  /\ check[t] \in Checks /\ check'[t] \in Checks /\ check'[t].step = s
  /\ check'[t].copy = check[t].copy /\ check'[t].id = check[t].id
  /\ check'[t].durable = check[t].durable
  /\ loads'[t] = loads[t] /\ session'[t] = session[t]
  /\ app'[t].open = app[t].open /\ app'[t].edits = app[t].edits

LEMMA SealEffect ==
  ASSUME TInv, NEW t \in Tabs, Seal(t)
  PROVE  /\ Others(t) /\ check[t].step = "seal" /\ CheckGoesOn(t, "put")
         /\ app'[t].memory = check[t].copy /\ app'[t].pending = app[t].pending
<1>1. check[t] \in Checks /\ app[t] \in Apps /\ check[t].step = "seal"
  BY DEF TInv, Seal, NoCheck
<1>2. PICK c : c = [check[t] EXCEPT !.step = "put"]
  OBVIOUS
<1>3. c \in Checks /\ c.step = "put" /\ c.copy = check[t].copy /\ c.id = check[t].id
      /\ c.durable = check[t].durable
  BY <1>1, <1>2 DEF Checks
<1>4. check'[t] = c /\ \A u \in Tabs \ {t} : check'[u] = check[u]
  BY <1>2 DEF Seal, TInv
<1>5. /\ app'[t].open = app[t].open /\ app'[t].edits = app[t].edits
      /\ app'[t].memory = check[t].copy /\ app'[t].pending = app[t].pending
      /\ \A u \in Tabs \ {t} : app'[u] = app[u]
  BY <1>1 DEF Seal, TInv, Apps
<1> QED
  BY <1>1, <1>3, <1>4, <1>5 DEF Seal, Others, SameTab, CheckGoesOn

LEMMA PutDraftEffect ==
  ASSUME TInv, NEW t \in Tabs, PutDraft(t)
  PROVE  /\ Others(t) /\ check[t].step = "put" /\ CheckGoesOn(t, "clear")
         /\ app'[t].memory = app[t].memory
         /\ \/ /\ drafts' = [drafts EXCEPT ![check[t].id] = check[t].copy]
               /\ app'[t].pending = ~ check[t].durable
            \/ UNCHANGED drafts /\ app'[t].pending = app[t].pending
<1>1. check[t] \in Checks /\ app[t] \in Apps /\ check[t].step = "put"
  BY DEF TInv, PutDraft, NoCheck
<1>2. PICK c : c = [check[t] EXCEPT !.step = "clear"]
  OBVIOUS
<1>3. c \in Checks /\ c.step = "clear" /\ c.copy = check[t].copy /\ c.id = check[t].id
      /\ c.durable = check[t].durable
  BY <1>1, <1>2 DEF Checks
<1>4. check'[t] = c /\ \A u \in Tabs \ {t} : check'[u] = check[u]
  BY <1>2 DEF PutDraft, TInv
<1>5. /\ app'[t].open = app[t].open /\ app'[t].edits = app[t].edits
      /\ app'[t].memory = app[t].memory
      /\ \/ /\ drafts' = [drafts EXCEPT ![check[t].id] = check[t].copy]
            /\ app'[t].pending = ~ check[t].durable
         \/ UNCHANGED drafts /\ app'[t].pending = app[t].pending
      /\ \A u \in Tabs \ {t} : app'[u] = app[u]
  <2>1. PICK p : p = Pending(t)
    OBVIOUS
  <2>2. CASE /\ drafts' = [drafts EXCEPT ![check[t].id] = check[t].copy]
             /\ app' = [app EXCEPT ![t].pending = p]
    <3>1. /\ app'[t].open = app[t].open /\ app'[t].edits = app[t].edits
          /\ app'[t].memory = app[t].memory /\ app'[t].pending = p
          /\ \A u \in Tabs \ {t} : app'[u] = app[u]
      BY <1>1, <2>2 DEF TInv, Apps
    <3> QED
      BY <2>1, <2>2, <3>1 DEF Pending
  <2>3. CASE UNCHANGED <<drafts, app>>
    BY <2>3
  <2> QED
    BY <2>1, <2>2, <2>3 DEF PutDraft
<1> QED
  BY <1>1, <1>3, <1>4, <1>5 DEF PutDraft, Others, SameTab, CheckGoesOn

LEMMA CheckDoneEffect ==
  ASSUME TInv, NEW t \in Tabs, CheckDone(t)
  PROVE  /\ Others(t) /\ check[t].step = "clear" /\ check'[t] = NoCheck
         /\ check[t] \in Checks
         /\ app'[t] = app[t] /\ loads'[t] = loads[t] /\ session'[t] = session[t]
BY DEF TInv, CheckDone, NoCheck, Others, SameTab

LEMMA UnlockEffect ==
  ASSUME TInv, NEW t \in Tabs, NEW code \in Codes, Unlock(t, code)
  PROVE  /\ ~ app[t].open /\ Others(t) /\ SameView(t)
         /\ \/ loads'[t] = Superseded(t) \cup {NewLoad(TRUE)} /\ mustAsk' = mustAsk \ {t}
            \/ loads'[t] = Superseded(t) /\ UNCHANGED mustAsk
BY DEF TInv, Unlock, Others, SameTab, SameView

LEMMA UseEffect ==
  ASSUME TInv, NEW t \in Tabs, Use(t)
  PROVE  /\ app[t].open /\ Others(t) /\ check'[t] = check[t] /\ loads'[t] = loads[t]
         /\ session'[t].locked = session[t].locked /\ session'[t].ref = session[t].ref
         /\ app'[t].open /\ app'[t].memory = app[t].memory
         /\ app'[t].pending = app[t].pending
         /\ \/ \E w \in Works : /\ app'[t].edits = app[t].edits \cup {w}
                                /\ made' = made \cup {w} /\ UNCHANGED settled
            \/ /\ app'[t].edits = {}
               /\ settled' = settled \cup app[t].edits /\ UNCHANGED made
<1>1. app[t] \in Apps /\ session[t] \in Sessions
  BY DEF TInv
<1>2. /\ session'[t].locked = session[t].locked /\ session'[t].ref = session[t].ref
      /\ \A u \in Tabs \ {t} : session'[u] = session[u]
  BY <1>1 DEF TInv, Sessions, Use
<1>3. ASSUME NEW w \in Works, app' = [app EXCEPT ![t].edits = @ \cup {w}]
      PROVE  /\ app'[t].open = app[t].open /\ app'[t].memory = app[t].memory
             /\ app'[t].pending = app[t].pending /\ app'[t].edits = app[t].edits \cup {w}
             /\ \A u \in Tabs \ {t} : app'[u] = app[u]
  BY <1>1, <1>3 DEF TInv, Apps
<1>4. ASSUME app' = [app EXCEPT ![t].edits = {}]
      PROVE  /\ app'[t].open = app[t].open /\ app'[t].memory = app[t].memory
             /\ app'[t].pending = app[t].pending /\ app'[t].edits = {}
             /\ \A u \in Tabs \ {t} : app'[u] = app[u]
  BY <1>1, <1>4 DEF TInv, Apps
<1>5. app[t].open /\ check' = check /\ loads' = loads
  BY DEF Use, Activity
<1>6. CASE \E w \in Works : app' = [app EXCEPT ![t].edits = @ \cup {w}]
                            /\ made' = made \cup {w} /\ UNCHANGED settled
  BY <1>2, <1>3, <1>5, <1>6 DEF Others, SameTab
<1>7. CASE settled' = settled \cup app[t].edits /\ app' = [app EXCEPT ![t].edits = {}]
           /\ UNCHANGED made
  BY <1>2, <1>4, <1>5, <1>7 DEF Others, SameTab
<1> QED
  BY <1>6, <1>7, NextWork DEF Use, TInv

LEMMA TimePassesEffect ==
  ASSUME TInv, TimePasses
  PROVE  \A t \in Tabs : SameTab(t)
<1>1. ASSUME NEW u \in Tabs
      PROVE  session'[u].locked = session[u].locked /\ session'[u].ref = session[u].ref
  <2>1. session[u] \in Sessions
    BY DEF TInv
  <2>2. ASSUME NEW t \in Tabs, session' = [session EXCEPT ![t].activity = "expired"]
        PROVE  session'[u].locked = session[u].locked /\ session'[u].ref = session[u].ref
    BY <2>1, <2>2 DEF TInv, Sessions
  <2>3. ASSUME session' = [t \in Tabs |->
                 [session[t] EXCEPT !.activity = IF @ = "none" THEN @ ELSE "expired"]]
        PROVE  session'[u].locked = session[u].locked /\ session'[u].ref = session[u].ref
    <3>1. session'[u] = [session[u] EXCEPT !.activity = IF @ = "none" THEN @ ELSE "expired"]
      BY <2>3
    <3> QED
      BY <2>1, <3>1 DEF Sessions
  <2> QED
    BY <2>2, <2>3 DEF TimePasses
<1> QED
  BY <1>1 DEF TimePasses, SameTab

LEMMA SettingsEffect ==
  ASSUME TInv, NEW t \in Tabs, Settings(t)
  PROVE  (\A u \in Tabs : SameTab(u)) /\ UNCHANGED <<shared, work, told>>
BY DEF Settings, ChangePassword, GeneratePaperRecovery, SameTab

LEMMA LeavePageEffect ==
  ASSUME TInv, NEW t \in Tabs, NEW s, NEW lost, LeavePage(t, s, lost)
  PROVE  /\ Others(t) /\ session'[t] = s /\ app'[t] = NewApp /\ check'[t] = NoCheck
         /\ loads'[t] = {NewLoad(FALSE)}
BY DEF TInv, LeavePage, Others, SameTab
-----------------------------------------------------------------------------
(* A tab that was locked asks for the password: XKept says that X keeps KInv, *)
(* or KTab of the tab whose step it is.                                       *)

LEMMA KeepsTab ==
  ASSUME NEW u \in Tabs, SameTab(u), KTab(u), u \in mustAsk' => u \in mustAsk
  PROVE  KTab(u)'
BY DEF SameTab, KTab, OneCurrent, Phases, Asking

\* All tabs but t are as before: what is left to show of a step.
LEMMA KeepsTabs ==
  ASSUME KInv, NEW t \in Tabs, Others(t), mustAsk' \subseteq mustAsk \cup {t}, KTab(t)'
  PROVE  KInv'
<1> SUFFICES ASSUME NEW u \in Tabs PROVE KTab(u)'
  BY DEF KInv
<1>1. CASE u # t
  <2>1. SameTab(u) /\ KTab(u)
    BY <1>1 DEF Others, KInv
  <2>2. u \in mustAsk' => u \in mustAsk
    BY <1>1
  <2> QED
    BY <2>1, <2>2, KeepsTab
<1> QED
  BY <1>1

\* A call that returns or goes on, in a tab whose view does not change.
LEMMA ReturnsKept ==
  ASSUME TInv, NEW t \in Tabs, NEW l \in loads[t], KTab(t), Returns(t, l),
         app'[t] = app[t], check'[t] = check[t], session'[t].locked = session[t].locked,
         mustAsk' = mustAsk
  PROVE  KTab(t)'
BY DEF Returns, KTab, OneCurrent, Phases, Asking

LEMMA GoesOnKept ==
  ASSUME TInv, NEW t \in Tabs, NEW l \in loads[t], NEW n, KTab(t), GoesOn(t, l, n),
         app'[t] = app[t], check'[t] = check[t], session'[t].locked = session[t].locked,
         mustAsk' = mustAsk, Steps(n),
         l.current => check[t] = NoCheck /\ t \notin mustAsk
  PROVE  KTab(t)'
<1>1. loads'[t] = (loads[t] \ {l}) \cup {n} /\ n.current = l.current
  BY DEF GoesOn
<1>2. OneCurrent(t)'
  BY <1>1 DEF KTab, OneCurrent
<1>3. Phases(t)'
  BY <1>1 DEF KTab, Phases
<1>4. Asking(t)'
  BY <1>1 DEF KTab, Asking
<1>5. \A k \in loads'[t] : Steps(k)
  BY <1>1 DEF KTab
<1> QED
  BY <1>2, <1>3, <1>4, <1>5 DEF KTab, Steps

LEMMA ShowsKept ==
  ASSUME TInv, NEW t \in Tabs, NEW l \in loads[t], KTab(t), Shows(t, l), l.current,
         mustAsk' = mustAsk, check[t] = NoCheck, t \notin mustAsk
  PROVE  KTab(t)'
<1>1. /\ loads'[t] = loads[t] \ {l} /\ check'[t] = NoCheck
      /\ app'[t].open /\ app'[t].memory = {}
  BY DEF Shows, Returns
<1>2. OneCurrent(t)'
  BY <1>1 DEF KTab, OneCurrent
<1>3. Phases(t)'
  BY <1>1 DEF KTab, Phases, OneCurrent
<1>4. Asking(t)'
  BY DEF Asking
<1> QED
  BY <1>1, <1>2, <1>3, <1>4 DEF KTab

LEMMA RecoversKept ==
  ASSUME TInv, NEW t \in Tabs, NEW l \in loads[t], KTab(t), Recovers(t, l), l.current,
         mustAsk' = mustAsk, check[t] = NoCheck, t \notin mustAsk
  PROVE  KTab(t)'
<1>1. CASE l.stored = {}
  BY <1>1, ShowsKept DEF Recovers
<1>2. CASE l.stored # {}
  <2>1. KeepsCopy(t, l)
    BY <1>2 DEF Recovers
  <2>2. PICK n \in Loads : Keeping(t, l, n) /\ n.step = "remove"
    BY <2>1 DEF KeepsCopy
  <2>3. loads'[t] = (loads[t] \ {l}) \cup {n} /\ n.current = l.current
    BY <2>2 DEF Keeping, GoesOn
  <2>4. ~ app'[t].open /\ app'[t].edits = {} /\ check'[t] = NoCheck
    BY <2>1 DEF KeepsCopy, KTab, Phases
  <2>5. OneCurrent(t)'
    BY <2>3 DEF KTab, OneCurrent
  <2>6. Phases(t)'
    BY <2>4 DEF Phases
  <2>7. Asking(t)'
    BY DEF Asking
  <2>8. Steps(n)
    BY <2>2, <2>3 DEF Steps
  <2> QED
    BY <2>3, <2>5, <2>6, <2>7, <2>8 DEF KTab, Steps
<1> QED
  BY <1>1, <1>2

LEMMA LoadStepKept ==
  ASSUME TInv, KInv, NEW t \in Tabs, LoadStep(t)
  PROVE  KInv'
<1> PICK l \in loads[t] : \/ Start(t, l) \/ ReadCopy(t, l) \/ Opened(t, l)
                          \/ StoreKey(t, l) \/ ClearKey(t, l) \/ Removed(t, l)
  BY DEF LoadStep
<1>1. KTab(t) /\ l \in Loads
  BY DEF KInv, TInv
<1>2. UNCHANGED mustAsk
  BY DEF Start, ReadCopy, Opened, StoreKey, ClearKey, Removed, told
<1>3. l.current /\ l.step # "start" => check[t] = NoCheck /\ t \notin mustAsk
  BY <1>1 DEF KTab, Phases, Asking
<1>4. CASE Start(t, l)
  <2>1. /\ l.step = "start" /\ check[t] = NoCheck /\ Others(t) /\ SameView(t)
        /\ \/ Returns(t, l)
           \/ /\ \E n \in Loads : Keeping(t, l, n) /\ n.step = "read"
              /\ l.password \/ ~ session[t].locked
    BY <1>4, StartEffect
  <2>2. CASE Returns(t, l)
    BY <1>1, <1>2, <2>1, <2>2, ReturnsKept, KeepsTabs DEF SameView
  <2>3. CASE /\ \E n \in Loads : Keeping(t, l, n) /\ n.step = "read"
             /\ l.password \/ ~ session[t].locked
    <3>1. PICK n \in Loads : Keeping(t, l, n) /\ n.step = "read"
      BY <2>3
    <3>2. l.current
      BY <1>1, <2>1 DEF KTab, Steps
    <3>3. t \notin mustAsk
      BY <1>1, <2>3, <3>2 DEF KTab, Asking
    <3>4. GoesOn(t, l, n) /\ Steps(n)
      BY <3>1, <3>2 DEF Keeping, GoesOn, Steps
    <3> QED
      BY <1>1, <1>2, <2>1, <3>3, <3>4, GoesOnKept, KeepsTabs DEF SameView
  <2> QED
    BY <2>1, <2>2, <2>3
<1>5. CASE ReadCopy(t, l)
  <2>1. l.step = "read" /\ Others(t) /\ SameView(t)
    BY <1>5, ReadCopyEffect
  <2>2. PICK n \in Loads : GoesOn(t, l, n) /\ n.step = "open"
    BY <1>5, ReadCopyEffect
  <2>3. l.current /\ Steps(n)
    BY <1>1, <2>1, <2>2 DEF KTab, Steps, GoesOn
  <2> QED
    BY <1>1, <1>2, <1>3, <2>1, <2>2, <2>3, GoesOnKept, KeepsTabs DEF SameView
<1>6. CASE Opened(t, l)
  <2>1. /\ l.step = "open" /\ Others(t)
        /\ \/ /\ l.password /\ SameView(t)
              /\ \E n \in Loads : Keeping(t, l, n) /\ n.step = "store"
           \/ ~ l.password /\ SameView(t) /\ Returns(t, l)
           \/ ~ l.password /\ ~ local.locked /\ Recovers(t, l)
    BY <1>6, OpenedEffect
  <2>2. l.current
    BY <1>1, <2>1 DEF KTab, Steps
  <2>3. CASE SameView(t) /\ \E n \in Loads : Keeping(t, l, n) /\ n.step = "store"
    <3>1. PICK n \in Loads : GoesOn(t, l, n) /\ Steps(n)
      BY <2>2, <2>3 DEF Keeping, GoesOn, Steps
    <3> QED
      BY <1>1, <1>2, <1>3, <2>1, <2>2, <2>3, <3>1, GoesOnKept, KeepsTabs DEF SameView
  <2>4. CASE SameView(t) /\ Returns(t, l)
    BY <1>1, <1>2, <2>1, <2>4, ReturnsKept, KeepsTabs DEF SameView
  <2>5. CASE Recovers(t, l)
    BY <1>1, <1>2, <1>3, <2>1, <2>2, <2>5, RecoversKept, KeepsTabs
  <2> QED
    BY <2>1, <2>3, <2>4, <2>5
<1>7. CASE StoreKey(t, l)
  <2>1. /\ l.step = "store" /\ Others(t)
        /\ \/ l.current /\ Recovers(t, l)
           \/ /\ ~ l.current /\ SameView(t)
              /\ \E n \in Loads : Keeping(t, l, n) /\ n.step = "clear"
    BY <1>7, StoreKeyEffect
  <2>2. CASE l.current /\ Recovers(t, l)
    BY <1>1, <1>2, <1>3, <2>1, <2>2, RecoversKept, KeepsTabs
  <2>3. CASE ~ l.current /\ SameView(t) /\ \E n \in Loads : Keeping(t, l, n) /\ n.step = "clear"
    <3>1. PICK n \in Loads : GoesOn(t, l, n) /\ Steps(n)
      BY <2>3 DEF Keeping, GoesOn, Steps
    <3> QED
      BY <1>1, <1>2, <2>1, <2>3, <3>1, GoesOnKept, KeepsTabs DEF SameView
  <2> QED
    BY <2>1, <2>2, <2>3
<1>8. CASE ClearKey(t, l)
  <2>1. Others(t) /\ SameView(t) /\ Returns(t, l)
    BY <1>8, ClearKeyEffect
  <2> QED
    BY <1>1, <1>2, <2>1, ReturnsKept, KeepsTabs DEF SameView
<1>9. CASE Removed(t, l)
  <2>1. /\ l.step = "remove" /\ Others(t)
        /\ \/ l.current /\ Shows(t, l)
           \/ /\ ~ l.current /\ Returns(t, l)
              /\ app'[t] = app[t] /\ check'[t] = check[t]
              /\ session'[t].locked = session[t].locked
              /\ session'[t].ref = Dropped(t, l)
    BY <1>9, RemovedEffect
  <2>2. CASE l.current /\ Shows(t, l)
    BY <1>1, <1>2, <1>3, <2>1, <2>2, ShowsKept, KeepsTabs
  <2>3. CASE /\ ~ l.current /\ Returns(t, l)
             /\ app'[t] = app[t] /\ check'[t] = check[t]
             /\ session'[t].locked = session[t].locked
    BY <1>1, <1>2, <2>1, <2>3, ReturnsKept, KeepsTabs
  <2> QED
    BY <2>1, <2>2, <2>3
<1> QED
  BY <1>4, <1>5, <1>6, <1>7, <1>8, <1>9

LEMMA ClosesKept ==
  ASSUME TInv, KInv, NEW t \in Tabs, NEW ref, Closes(t, ref), Others(t),
         ~ app'[t].open, app'[t].edits = {}
  PROVE  KInv'
<1>1. \A l \in loads'[t] : ~ l.current /\ l.step \in {"store", "remove", "clear"}
  <2>1. ASSUME NEW k \in Superseded(t)
        PROVE  ~ k.current /\ k.step \in {"store", "remove", "clear"}
    BY <2>1, SupersededFacts
  <2> QED
    BY <2>1 DEF Closes
<1>2. KTab(t)'
  BY <1>1 DEF Closes, KTab, OneCurrent, Phases, Asking, Steps
<1> QED
  BY <1>2, KeepsTabs DEF Closes

\* The form, and everything the user does in an open tab.
LEMMA UnlockKept ==
  ASSUME TInv, KInv, NEW t \in Tabs, NEW code \in Codes, Unlock(t, code)
  PROVE  KInv'
<1>1. /\ ~ app[t].open /\ Others(t) /\ SameView(t)
      /\ \/ loads'[t] = Superseded(t) \cup {NewLoad(TRUE)} /\ mustAsk' = mustAsk \ {t}
         \/ loads'[t] = Superseded(t) /\ UNCHANGED mustAsk
  BY UnlockEffect
<1>2. \A k \in Superseded(t) : ~ k.current /\ k.step \in {"store", "remove", "clear"}
  BY SupersededFacts
<1>3. NewLoad(TRUE).current /\ NewLoad(TRUE).step = "start"
  BY NewLoadTyped
<1>4. \A l, k \in loads'[t] : l.current /\ k.current => l = k
  BY <1>1, <1>2
<1>5. \A l \in loads'[t] : Steps(l) /\ (l.current => l.step = "start")
  BY <1>1, <1>2, <1>3 DEF Steps
<1>6. KTab(t)
  BY DEF KInv
<1>7. Phases(t)'
  BY <1>1, <1>5, <1>6 DEF Phases, KTab, SameView
<1>8. Asking(t)'
  BY <1>1, <1>2, <1>6 DEF Asking, KTab, SameView
<1>9. KTab(t)'
  BY <1>4, <1>5, <1>7, <1>8 DEF KTab, OneCurrent
<1> QED
  BY <1>1, <1>9, KeepsTabs

LEMMA UseKept ==
  ASSUME TInv, KInv, NEW t \in Tabs, Use(t)
  PROVE  KInv'
<1>1. /\ app[t].open /\ Others(t) /\ check'[t] = check[t] /\ loads'[t] = loads[t]
      /\ session'[t].locked = session[t].locked
      /\ app'[t].open /\ app'[t].memory = app[t].memory
  BY UseEffect
<1>2. KTab(t) /\ UNCHANGED mustAsk
  BY DEF KInv, Use, told
<1>3. KTab(t)'
  BY <1>1, <1>2 DEF KTab, OneCurrent, Phases, Asking
<1> QED
  BY <1>1, <1>2, <1>3, KeepsTabs

LEMMA LockKept ==
  ASSUME TInv, KInv, NEW t \in Tabs, Lock(t)
  PROVE  KInv'
BY LockEffect, ClosesKept

LEMMA ForgetKept ==
  ASSUME TInv, KInv, NEW t \in Tabs, Forget(t)
  PROVE  KInv'
BY ForgetEffect, ClosesKept

LEMMA AutoLockKept ==
  ASSUME TInv, KInv, NEW t \in Tabs, AutoLock(t)
  PROVE  KInv'
<1>1. Others(t) /\ AutoLocks(t)
  BY AutoLockEffect
<1>2. ~ app'[t].open /\ app'[t].edits = {}
  BY <1>1 DEF AutoLocks, NewApp
<1> QED
  BY <1>1, <1>2, ClosesKept DEF AutoLocks

LEMMA CheckStepKept ==
  ASSUME TInv, KInv, NEW t \in Tabs, CheckStep(t)
  PROVE  KInv'
<1>1. KTab(t) /\ UNCHANGED mustAsk
  BY DEF KInv, CheckStep, Seal, PutDraft, CheckDone, told
<1>2. /\ check[t] # NoCheck /\ Others(t) /\ loads'[t] = loads[t] /\ session'[t] = session[t]
      /\ app'[t].open = app[t].open /\ app'[t].edits = app[t].edits
  BY SealEffect, PutDraftEffect, CheckDoneEffect DEF CheckStep, CheckGoesOn, NoCheck
<1>3. KTab(t)'
  BY <1>1, <1>2 DEF KTab, OneCurrent, Phases, Asking
<1> QED
  BY <1>1, <1>2, <1>3, KeepsTabs

LEMMA LeavePageKept ==
  ASSUME TInv, KInv, NEW t \in Tabs, NEW s, NEW lost, LeavePage(t, s, lost),
         mustAsk' \subseteq mustAsk, t \in mustAsk' => s.locked
  PROVE  KInv'
<1>1. /\ Others(t) /\ session'[t] = s /\ app'[t] = NewApp /\ check'[t] = NoCheck
      /\ loads'[t] = {NewLoad(FALSE)}
  BY LeavePageEffect
<1>2. /\ NewLoad(FALSE).step = "start" /\ NewLoad(FALSE).current
      /\ ~ NewLoad(FALSE).password
  BY NewLoadTyped
<1>3. ~ NewApp.open /\ NewApp.edits = {}
  BY DEF NewApp
<1>4. KTab(t)'
  BY <1>1, <1>2, <1>3 DEF KTab, OneCurrent, Phases, Asking, Steps
<1> QED
  BY <1>1, <1>4, KeepsTabs

LEMMA ReloadKept ==
  ASSUME TInv, KInv, NEW t \in Tabs, Reload(t)
  PROVE  KInv'
<1>1. t \in mustAsk => session[t].locked
  BY DEF KInv, KTab, Asking
<1> QED
  BY <1>1, LeavePageKept DEF Reload

LEMMA NewTabKept ==
  ASSUME TInv, KInv, NEW t \in Tabs, NewTab(t)
  PROVE  KInv'
BY LeavePageKept DEF NewTab

LEMMA UnchangedKept ==
  ASSUME KInv, \A t \in Tabs : SameTab(t), mustAsk' = mustAsk
  PROVE  KInv'
BY KeepsTab DEF KInv

LEMMA KInit == Init => KInv
<1> SUFFICES ASSUME Init, NEW t \in Tabs PROVE KTab(t)
  BY DEF KInv
<1>1. /\ loads[t] = {NewLoad(FALSE)} /\ app[t] = NewApp /\ check[t] = NoCheck
      /\ mustAsk = {}
  BY DEF Init
<1>2. NewLoad(FALSE).step = "start" /\ NewLoad(FALSE).current
  BY NewLoadTyped
<1>3. ~ NewApp.open /\ NewApp.edits = {}
  BY DEF NewApp
<1> QED
  BY <1>1, <1>2, <1>3 DEF KTab, OneCurrent, Phases, Asking, Steps

LEMMA KNext ==
  ASSUME TInv, KInv, [Next]_vars
  PROVE  KInv'
<1>1. CASE UNCHANGED vars
  BY <1>1, UnchangedKept DEF vars, told, SameTab
<1>2. CASE TimePasses
  BY <1>2, TimePassesEffect, UnchangedKept DEF TimePasses, told
<1>3. ASSUME NEW t \in Tabs, NEW code \in Codes, Unlock(t, code) PROVE KInv'
  BY <1>3, UnlockKept
<1>4. ASSUME NEW t \in Tabs, LoadStep(t) PROVE KInv'
  BY <1>4, LoadStepKept
<1>5. ASSUME NEW t \in Tabs, Use(t) PROVE KInv'
  BY <1>5, UseKept
<1>6. ASSUME NEW t \in Tabs, Lock(t) PROVE KInv'
  BY <1>6, LockKept
<1>7. ASSUME NEW t \in Tabs, AutoLock(t) PROVE KInv'
  BY <1>7, AutoLockKept
<1>8. ASSUME NEW t \in Tabs, CheckStep(t) PROVE KInv'
  BY <1>8, CheckStepKept
<1>9. ASSUME NEW t \in Tabs, Forget(t) PROVE KInv'
  BY <1>9, ForgetKept
<1>10. ASSUME NEW t \in Tabs, Reload(t) PROVE KInv'
  BY <1>10, ReloadKept
<1>11. ASSUME NEW t \in Tabs, NewTab(t) PROVE KInv'
  BY <1>11, NewTabKept
<1>12. ASSUME NEW t \in Tabs, Settings(t) PROVE KInv'
  BY <1>12, SettingsEffect, UnchangedKept DEF told
<1> QED
  BY <1>1, <1>2, <1>3, <1>4, <1>5, <1>6, <1>7, <1>8, <1>9, <1>10, <1>11, <1>12 DEF Next

LEMMA TypeNext ==
  ASSUME TInv, [Next]_vars
  PROVE  TInv'
<1>1. CASE UNCHANGED vars
  BY <1>1, StutterTyped
<1>2. CASE TimePasses
  BY <1>2, TimePassesTyped
<1>3. ASSUME NEW t \in Tabs, NEW code \in Codes, Unlock(t, code) PROVE TInv'
  BY <1>3, UnlockTyped
<1>4. ASSUME NEW t \in Tabs, LoadStep(t) PROVE TInv'
  BY <1>4, StartTyped, ReadCopyTyped, OpenedTyped, StoreKeyTyped, ClearKeyTyped,
     RemovedTyped DEF LoadStep
<1>5. ASSUME NEW t \in Tabs, Use(t) PROVE TInv'
  BY <1>5, UseTyped
<1>6. ASSUME NEW t \in Tabs, Lock(t) PROVE TInv'
  BY <1>6, LockTyped
<1>7. ASSUME NEW t \in Tabs, AutoLock(t) PROVE TInv'
  BY <1>7, AutoLockTyped
<1>8. ASSUME NEW t \in Tabs, CheckStep(t) PROVE TInv'
  BY <1>8, SealTyped, PutDraftTyped, CheckDoneTyped DEF CheckStep
<1>9. ASSUME NEW t \in Tabs, Forget(t) PROVE TInv'
  BY <1>9, ForgetTyped
<1>10. ASSUME NEW t \in Tabs, Reload(t) PROVE TInv'
  BY <1>10, ReloadTyped
<1>11. ASSUME NEW t \in Tabs, NewTab(t) PROVE TInv'
  BY <1>11, NewTabTyped
<1>12. ASSUME NEW t \in Tabs, Settings(t) PROVE TInv'
  BY <1>12, SettingsTyped
<1> QED
  BY <1>1, <1>2, <1>3, <1>4, <1>5, <1>6, <1>7, <1>8, <1>9, <1>10, <1>11, <1>12 DEF Next
-----------------------------------------------------------------------------
(* A forgotten key comes back only with an unlock that is in force:           *)
(* XForgotten says that X keeps KeyStaysForgotten.                            *)

Clearing(t) == \E l \in loads[t] : l.step = "clear"

LEMMA ClearingSuperseded ==
  ASSUME TInv, NEW t \in Tabs, Clearing(t)
  PROVE  \E l \in Superseded(t) : l.step = "clear"
<1>1. PICK l \in loads[t] : l.step = "clear"
  BY DEF Clearing
<1>2. PICK k : k = [l EXCEPT !.current = FALSE]
  OBVIOUS
<1>3. l \in Loads
  BY DEF TInv
<1>4. k.step = "clear"
  BY <1>1, <1>2, <1>3 DEF Loads
<1>5. k \in Superseded(t)
  BY <1>1, <1>2 DEF Superseded
<1> QED
  BY <1>4, <1>5

\* A step that does not store the key, nor ends a call that takes it back.
LEMMA ForgottenKept ==
  ASSUME TInv, KeyStaysForgotten, NEW t \in Tabs, Others(t),
         forgotten' => forgotten, keyCached' => keyCached,
         Clearing(t) => \E l \in loads'[t] : l.step = "clear"
  PROVE  KeyStaysForgotten'
<1> SUFFICES ASSUME forgotten', keyCached'
             PROVE  \E u \in Tabs : \E l \in loads'[u] : l.step = "clear"
  BY DEF KeyStaysForgotten
<1>1. PICK u \in Tabs : Clearing(u)
  BY DEF KeyStaysForgotten, Clearing
<1> QED
  BY <1>1 DEF Others, SameTab, Clearing

LEMMA RecoversKeepsClearing ==
  ASSUME TInv, NEW t \in Tabs, NEW l \in loads[t], Recovers(t, l), Clearing(t),
         l.step # "clear"
  PROVE  \E k \in loads'[t] : k.step = "clear"
BY DEF Clearing, Recovers, Shows, Returns, KeepsCopy, Keeping, GoesOn

LEMMA LoadStepForgotten ==
  ASSUME TInv, KeyStaysForgotten, NEW t \in Tabs, LoadStep(t)
  PROVE  KeyStaysForgotten'
<1> PICK l \in loads[t] : \/ Start(t, l) \/ ReadCopy(t, l) \/ Opened(t, l)
                          \/ StoreKey(t, l) \/ ClearKey(t, l) \/ Removed(t, l)
  BY DEF LoadStep
<1>1. CASE Start(t, l)
  <2>1. (forgotten' => forgotten) /\ (keyCached' => keyCached)
    BY <1>1 DEF Start, TurnAway, KeyWritten, told
  <2>2. Clearing(t) => \E k \in loads'[t] : k.step = "clear"
    BY <1>1, StartEffect DEF Clearing, Returns, Keeping, GoesOn
  <2> QED
    BY <1>1, <2>1, <2>2, StartEffect, ForgottenKept
<1>2. CASE ReadCopy(t, l)
  <2>1. (forgotten' => forgotten) /\ (keyCached' => keyCached)
    BY <1>2 DEF ReadCopy, told, shared
  <2>2. Clearing(t) => \E k \in loads'[t] : k.step = "clear"
    BY <1>2, ReadCopyEffect DEF Clearing, GoesOn
  <2> QED
    BY <1>2, <2>1, <2>2, ReadCopyEffect, ForgottenKept
<1>3. CASE Opened(t, l)
  <2>1. (forgotten' => forgotten) /\ (keyCached' => keyCached)
    BY <1>3 DEF Opened, TurnAway, KeyWritten, told
  <2>2. Clearing(t) => \E k \in loads'[t] : k.step = "clear"
    BY <1>3, OpenedEffect, RecoversKeepsClearing DEF Clearing, Returns, Keeping, GoesOn
  <2> QED
    BY <1>3, <2>1, <2>2, OpenedEffect, ForgottenKept
<1>4. CASE StoreKey(t, l)
  <2>1. CASE l.current
    BY <1>4, <2>1 DEF StoreKey, KeyStaysForgotten
  <2>2. CASE ~ l.current
    <3>1. \E n \in Loads : Keeping(t, l, n) /\ n.step = "clear"
      BY <1>4, <2>2, StoreKeyEffect
    <3>2. \E k \in loads'[t] : k.step = "clear"
      BY <3>1 DEF Keeping, GoesOn
    <3> QED
      BY <3>2 DEF KeyStaysForgotten
  <2> QED
    BY <2>1, <2>2
<1>5. CASE ClearKey(t, l)
  BY <1>5 DEF ClearKey, KeyStaysForgotten
<1>6. CASE Removed(t, l)
  <2>1. (forgotten' => forgotten) /\ (keyCached' => keyCached)
    BY <1>6 DEF Removed, told
  <2>2. Clearing(t) => \E k \in loads'[t] : k.step = "clear"
    BY <1>6, RemovedEffect DEF Clearing, Shows, Returns
  <2> QED
    BY <1>6, <2>1, <2>2, RemovedEffect, ForgottenKept
<1> QED
  BY <1>1, <1>2, <1>3, <1>4, <1>5, <1>6

LEMMA ClosesForgotten ==
  ASSUME TInv, KeyStaysForgotten, NEW t \in Tabs, NEW ref, Closes(t, ref), Others(t),
         keyCached' => keyCached, forgotten' => forgotten
  PROVE  KeyStaysForgotten'
<1>1. Clearing(t) => \E l \in loads'[t] : l.step = "clear"
  BY ClearingSuperseded DEF Closes
<1> QED
  BY <1>1, ForgottenKept

LEMMA ForgetForgotten ==
  ASSUME TInv, KeyStaysForgotten, NEW t \in Tabs, Forget(t)
  PROVE  KeyStaysForgotten'
<1>1. Others(t) /\ Closes(t, NoId)
  BY ForgetEffect
<1>2. /\ keyCached' => keyCached
      /\ forgotten' => forgotten \/ ~ keyCached'
  BY DEF Forget, KeyWritten
<1>3. CASE keyCached'
  BY <1>1, <1>2, <1>3, ClosesForgotten
<1>4. CASE ~ keyCached'
  BY <1>4 DEF KeyStaysForgotten
<1> QED
  BY <1>3, <1>4

LEMMA CheckStepForgotten ==
  ASSUME TInv, KeyStaysForgotten, NEW t \in Tabs, CheckStep(t)
  PROVE  KeyStaysForgotten'
<1>1. Others(t) /\ loads'[t] = loads[t]
  BY SealEffect, PutDraftEffect, CheckDoneEffect DEF CheckStep, CheckGoesOn
<1>2. CASE keyCached'
  <2>1. (keyCached' => keyCached) /\ (forgotten' => forgotten)
    <3>1. CASE Seal(t)
      BY <3>1 DEF Seal, shared, told
    <3>2. CASE PutDraft(t)
      BY <3>2 DEF PutDraft, told
    <3>3. CASE CheckDone(t)
      <4>1. forgotten' = (forgotten \/ ~ keyCached') /\ keyCached' \in KeyWritten(FALSE)
        BY <3>3 DEF CheckDone
      <4>2. forgotten' => forgotten
        BY <4>1, <1>2 DEF TInv
      <4>3. keyCached' => keyCached
        BY <4>1 DEF KeyWritten, TInv
      <4> QED
        BY <4>2, <4>3
    <3> QED
      BY <3>1, <3>2, <3>3 DEF CheckStep
  <2> QED
    BY <1>1, <2>1, ForgottenKept DEF Clearing
<1>3. CASE ~ keyCached'
  BY <1>3 DEF KeyStaysForgotten
<1> QED
  BY <1>2, <1>3

LEMMA LeavePageForgotten ==
  ASSUME TInv, KeyStaysForgotten, NEW t \in Tabs, NEW s, NEW lost, LeavePage(t, s, lost)
  PROVE  KeyStaysForgotten'
<1>1. CASE forgotten'
  <2>1. forgotten /\ ~ Clearing(t)
    BY <1>1 DEF LeavePage, Clearing
  <2>2. UNCHANGED keyCached
    BY DEF LeavePage, shared
  <2>3. Others(t)
    BY LeavePageEffect
  <2> QED
    BY <2>1, <2>2, <2>3, ForgottenKept
<1>2. CASE ~ forgotten'
  BY <1>2 DEF KeyStaysForgotten
<1> QED
  BY <1>1, <1>2

LEMMA SameForgotten ==
  ASSUME KeyStaysForgotten, \A t \in Tabs : SameTab(t), UNCHANGED <<keyCached, forgotten>>
  PROVE  KeyStaysForgotten'
BY DEF KeyStaysForgotten, SameTab

LEMMA ForgottenNext ==
  ASSUME TInv, KeyStaysForgotten, [Next]_vars
  PROVE  KeyStaysForgotten'
<1>1. CASE UNCHANGED vars
  BY <1>1, SameForgotten DEF vars, shared, told, SameTab
<1>2. CASE TimePasses
  BY <1>2, TimePassesEffect, SameForgotten DEF TimePasses, told
<1>3. ASSUME NEW t \in Tabs, NEW code \in Codes, Unlock(t, code) PROVE KeyStaysForgotten'
  <2>1. UNCHANGED <<keyCached, forgotten>> /\ Others(t)
    BY <1>3, UnlockEffect DEF Unlock, shared
  <2>2. Clearing(t) => \E l \in loads'[t] : l.step = "clear"
    BY <1>3, UnlockEffect, ClearingSuperseded
  <2> QED
    BY <2>1, <2>2, ForgottenKept
<1>4. ASSUME NEW t \in Tabs, LoadStep(t) PROVE KeyStaysForgotten'
  BY <1>4, LoadStepForgotten
<1>5. ASSUME NEW t \in Tabs, Use(t) PROVE KeyStaysForgotten'
  <2>1. UNCHANGED <<keyCached, forgotten, loads>> /\ Others(t)
    BY <1>5, UseEffect DEF Use, told
  <2> QED
    BY <2>1, ForgottenKept DEF Clearing
<1>6. ASSUME NEW t \in Tabs, Lock(t) PROVE KeyStaysForgotten'
  BY <1>6, LockEffect, ClosesForgotten DEF Lock
<1>7. ASSUME NEW t \in Tabs, AutoLock(t) PROVE KeyStaysForgotten'
  BY <1>7, AutoLockEffect, ClosesForgotten DEF AutoLock, AutoLocks
<1>8. ASSUME NEW t \in Tabs, CheckStep(t) PROVE KeyStaysForgotten'
  BY <1>8, CheckStepForgotten
<1>9. ASSUME NEW t \in Tabs, Forget(t) PROVE KeyStaysForgotten'
  BY <1>9, ForgetForgotten
<1>10. ASSUME NEW t \in Tabs, Reload(t) PROVE KeyStaysForgotten'
  BY <1>10, LeavePageForgotten DEF Reload
<1>11. ASSUME NEW t \in Tabs, NewTab(t) PROVE KeyStaysForgotten'
  BY <1>11, LeavePageForgotten DEF NewTab
<1>12. ASSUME NEW t \in Tabs, Settings(t) PROVE KeyStaysForgotten'
  BY <1>12, SettingsEffect, SameForgotten DEF shared, told
<1> QED
  BY <1>1, <1>2, <1>3, <1>4, <1>5, <1>6, <1>7, <1>8, <1>9, <1>10, <1>11, <1>12 DEF Next
-----------------------------------------------------------------------------
(* Every piece of work that is kept anywhere was made: XKnown says that X     *)
(* keeps Known.                                                               *)

KnownApp(t) == app[t].edits \subseteq made /\ app[t].memory \subseteq made

KnownTab(t) ==
  /\ KnownApp(t)
  /\ check[t] # NoCheck => check[t].copy \subseteq made
  /\ \A l \in loads[t] : l.stored \subseteq made

Known ==
  /\ settled \subseteq made
  /\ \A i \in Ids : drafts[i] \subseteq made
  /\ \A t \in Tabs : KnownTab(t)

LEMMA KnownTabs ==
  ASSUME Known, NEW t \in Tabs, Others(t), made \subseteq made',
         settled' \subseteq made', \A i \in Ids : drafts'[i] \subseteq made', KnownTab(t)'
  PROVE  Known'
<1>1. ASSUME NEW u \in Tabs PROVE KnownTab(u)'
  <2>1. CASE u # t
    <3>1. SameTab(u) /\ KnownTab(u)
      BY <2>1 DEF Others, Known
    <3> QED
      BY <3>1 DEF SameTab, KnownTab, KnownApp
  <2> QED
    BY <2>1
<1> QED
  BY <1>1 DEF Known

LEMMA KnownStored ==
  ASSUME TInv, Known, NEW t \in Tabs
  PROVE  /\ Stored(session[t].ref) \subseteq made /\ Finds(t) \subseteq made
         /\ InMemory(t) \subseteq made
<1>1. session[t].ref \in Ids \cup {NoId} /\ KnownTab(t)
  BY DEF TInv, Sessions, Known
<1>2. Stored(session[t].ref) \subseteq made
  BY <1>1 DEF Stored, Known
<1> QED
  BY <1>1, <1>2 DEF Finds, KnownTab, KnownApp, InMemory

LEMMA KnownDrafts ==
  ASSUME TInv, Known, NEW i \in Ids \cup {NoId}, drafts' \in DraftsWithout(i)
  PROVE  \A j \in Ids : drafts'[j] \subseteq made
BY DEF DraftsWithout, Known, TInv

LEMMA RecoversKnown ==
  ASSUME TInv, Known, NEW t \in Tabs, NEW l \in loads[t], Recovers(t, l), made' = made
  PROVE  KnownTab(t)'
<1>1. KnownTab(t)
  BY DEF Known
<1>2. CASE l.stored = {}
  BY <1>1, <1>2 DEF Recovers, Shows, Returns, KnownTab, KnownApp
<1>3. CASE l.stored # {}
  BY <1>1, <1>3 DEF Recovers, KeepsCopy, Keeping, GoesOn, KnownTab, KnownApp
<1> QED
  BY <1>2, <1>3

LEMMA LoadStepKnown ==
  ASSUME TInv, Known, NEW t \in Tabs, LoadStep(t)
  PROVE  Known'
<1> PICK l \in loads[t] : \/ Start(t, l) \/ ReadCopy(t, l) \/ Opened(t, l)
                          \/ StoreKey(t, l) \/ ClearKey(t, l) \/ Removed(t, l)
  BY DEF LoadStep
<1>1. UNCHANGED <<made, settled>> /\ KnownTab(t)
  BY DEF Start, ReadCopy, Opened, StoreKey, ClearKey, Removed, work, Known
<1>2. \A i \in Ids : drafts'[i] \subseteq made
  <2>1. CASE Removed(t, l)
    <3>1. PICK i \in Ids \cup {NoId} : i = l.id
      BY DEF TInv, Loads
    <3>2. drafts' \in DraftsWithout(i)
      BY <2>1, <3>1 DEF Removed
    <3> QED
      BY <3>2, KnownDrafts
  <2>2. CASE UNCHANGED drafts
    BY <2>2 DEF Known
  <2> QED
    BY <2>1, <2>2 DEF Start, ReadCopy, Opened, StoreKey, ClearKey, shared
<1>3. Others(t) /\ KnownTab(t)'
  <2>1. CASE Start(t, l)
    BY <1>1, <2>1, StartEffect DEF SameView, Returns, Keeping, GoesOn, KnownTab, KnownApp
  <2>2. CASE ReadCopy(t, l)
    <3>1. Others(t) /\ SameView(t)
      BY <2>2, ReadCopyEffect
    <3>2. PICK n \in Loads : GoesOn(t, l, n) /\ n.stored \in {l.stored, Finds(t)}
      BY <2>2, ReadCopyEffect
    <3>3. n.stored \subseteq made
      BY <1>1, <3>2, KnownStored DEF KnownTab
    <3> QED
      BY <1>1, <3>1, <3>2, <3>3 DEF SameView, GoesOn, KnownTab, KnownApp
  <2>3. CASE Opened(t, l)
    <3>1. /\ Others(t)
          /\ \/ SameView(t) /\ \E n \in Loads : Keeping(t, l, n)
             \/ SameView(t) /\ Returns(t, l)
             \/ Recovers(t, l)
      BY <2>3, OpenedEffect
    <3> QED
      BY <1>1, <3>1, RecoversKnown DEF SameView, Returns, Keeping, GoesOn, KnownTab, KnownApp
  <2>4. CASE StoreKey(t, l)
    <3>1. /\ Others(t)
          /\ \/ SameView(t) /\ \E n \in Loads : Keeping(t, l, n)
             \/ Recovers(t, l)
      BY <2>4, StoreKeyEffect
    <3> QED
      BY <1>1, <3>1, RecoversKnown DEF SameView, Keeping, GoesOn, KnownTab, KnownApp
  <2>5. CASE ClearKey(t, l)
    BY <1>1, <2>5, ClearKeyEffect DEF SameView, Returns, KnownTab, KnownApp
  <2>6. CASE Removed(t, l)
    BY <1>1, <2>6, RemovedEffect DEF Shows, Returns, KnownTab, KnownApp
  <2> QED
    BY <2>1, <2>2, <2>3, <2>4, <2>5, <2>6
<1> QED
  BY <1>1, <1>2, <1>3, KnownTabs DEF Known

LEMMA SupersededKnown ==
  ASSUME TInv, Known, NEW t \in Tabs
  PROVE  \A l \in Superseded(t) : l.stored \subseteq made
<1> SUFFICES ASSUME NEW k \in Superseded(t) PROVE k.stored \subseteq made
  OBVIOUS
<1>1. PICK l \in loads[t] : k.stored = l.stored
  BY SupersededFacts
<1> QED
  BY <1>1 DEF Known, KnownTab

LEMMA LockKnown ==
  ASSUME TInv, Known, NEW t \in Tabs, Lock(t)
  PROVE  Known'
<1>1. /\ UNCHANGED <<drafts, made>> /\ settled' = settled \cup app[t].edits /\ KnownTab(t)
  BY DEF Lock, Known
<1>2. KnownTab(t)'
  BY <1>1, LockEffect, SupersededKnown DEF Closes, KnownTab, KnownApp
<1> QED
  BY <1>1, <1>2, LockEffect, KnownTabs DEF Known, KnownTab, KnownApp

LEMMA AutoLockKnown ==
  ASSUME TInv, Known, NEW t \in Tabs, AutoLock(t)
  PROVE  Known'
<1>1. UNCHANGED <<made, settled>> /\ KnownTab(t)
  BY DEF AutoLock, work, Known
<1>2. Others(t) /\ AutoLocks(t)
  BY AutoLockEffect
<1>3. loads'[t] = Superseded(t)
  BY <1>2 DEF AutoLocks, Closes
<1>4. KnownTab(t)'
  BY <1>1, <1>2, <1>3, SupersededKnown DEF AutoLocks, EmptyCheck, NewApp, KnownTab, KnownApp
<1>5. \A i \in Ids : drafts'[i] \subseteq made
  BY <1>2 DEF AutoLocks, Known, NewIds, TInv
<1> QED
  BY <1>1, <1>2, <1>4, <1>5, KnownTabs DEF Known

LEMMA ForgetKnown ==
  ASSUME TInv, Known, NEW t \in Tabs, Forget(t)
  PROVE  Known'
<1>1. /\ UNCHANGED made /\ KnownTab(t)
      /\ settled' = settled \cup app[t].edits \cup Stored(session[t].ref)
  BY DEF Forget, Known
<1>2. settled' \subseteq made
  BY <1>1, KnownStored DEF Known, KnownTab, KnownApp
<1>3. \A i \in Ids : drafts'[i] \subseteq made
  <2>1. PICK i \in Ids \cup {NoId} : i = session[t].ref
    BY DEF TInv, Sessions
  <2> QED
    BY <2>1, KnownDrafts DEF Forget
<1>4. KnownTab(t)'
  BY <1>1, ForgetEffect, SupersededKnown DEF Closes, KnownTab, KnownApp
<1> QED
  BY <1>1, <1>2, <1>3, <1>4, ForgetEffect, KnownTabs

LEMMA CheckStepKnown ==
  ASSUME TInv, Known, NEW t \in Tabs, CheckStep(t)
  PROVE  Known'
<1>1. UNCHANGED <<made, settled>> /\ KnownTab(t)
  BY DEF CheckStep, Seal, PutDraft, CheckDone, work, Known
<1>2. CASE Seal(t)
  <2>1. Others(t) /\ CheckGoesOn(t, "put") /\ app'[t].memory = check[t].copy /\ UNCHANGED drafts
    BY <1>2, SealEffect DEF Seal, shared
  <2>2. check[t] # NoCheck
    BY <1>2 DEF Seal, NoCheck
  <2>3. KnownTab(t)'
    BY <1>1, <2>1, <2>2 DEF CheckGoesOn, KnownTab, KnownApp
  <2> QED
    BY <1>1, <2>1, <2>3, KnownTabs DEF Known
<1>3. CASE PutDraft(t)
  <2>1. /\ Others(t) /\ CheckGoesOn(t, "clear") /\ app'[t].memory = app[t].memory
        /\ \/ drafts' = [drafts EXCEPT ![check[t].id] = check[t].copy]
           \/ UNCHANGED drafts
    BY <1>3, PutDraftEffect
  <2>2. check[t] # NoCheck
    BY <1>3 DEF PutDraft, NoCheck
  <2>3. KnownTab(t)'
    BY <1>1, <2>1, <2>2 DEF CheckGoesOn, KnownTab, KnownApp
  <2>4. \A i \in Ids : drafts'[i] \subseteq made
    BY <1>1, <2>1, <2>2 DEF Known, KnownTab, TInv
  <2> QED
    BY <1>1, <2>1, <2>3, <2>4, KnownTabs DEF Known
<1>4. CASE CheckDone(t)
  BY <1>1, <1>4, CheckDoneEffect, KnownTabs DEF CheckDone, Known, KnownTab, KnownApp
<1> QED
  BY <1>2, <1>3, <1>4 DEF CheckStep

LEMMA LeavePageKnown ==
  ASSUME TInv, Known, NEW t \in Tabs, NEW s, NEW lost, LeavePage(t, s, lost),
         lost \subseteq made
  PROVE  Known'
<1>1. UNCHANGED <<drafts, made>>
  BY DEF LeavePage, shared
<1>2. settled' \subseteq made
  BY KnownStored DEF LeavePage, Known
<1>3. KnownTab(t)'
  <2>1. /\ app'[t] = NewApp /\ check'[t] = NoCheck /\ loads'[t] = {NewLoad(FALSE)}
    BY LeavePageEffect
  <2>2. NewLoad(FALSE).stored = {} /\ NewApp.edits = {} /\ NewApp.memory = {}
    BY NewLoadTyped DEF NewApp
  <2> QED
    BY <2>1, <2>2 DEF KnownTab, KnownApp
<1> QED
  BY <1>1, <1>2, <1>3, LeavePageEffect, KnownTabs DEF Known

LEMMA SameKnown ==
  ASSUME Known, \A t \in Tabs : SameTab(t), UNCHANGED <<drafts, made, settled>>
  PROVE  Known'
BY DEF Known, SameTab, KnownTab, KnownApp

LEMMA KnownInit == Init => Known
<1> SUFFICES ASSUME Init PROVE Known
  OBVIOUS
<1>1. ASSUME NEW t \in Tabs PROVE KnownTab(t)
  <2>1. app[t] = NewApp /\ check[t] = NoCheck /\ loads[t] = {NewLoad(FALSE)}
    BY DEF Init
  <2>2. NewLoad(FALSE).stored = {} /\ NewApp.edits = {} /\ NewApp.memory = {}
    BY NewLoadTyped DEF NewApp
  <2> QED
    BY <2>1, <2>2 DEF KnownTab, KnownApp
<1> QED
  BY <1>1 DEF Init, Known

LEMMA KnownNext ==
  ASSUME TInv, Known, [Next]_vars
  PROVE  Known'
<1>1. CASE UNCHANGED vars
  BY <1>1, SameKnown DEF vars, shared, work, SameTab
<1>2. CASE TimePasses
  BY <1>2, TimePassesEffect, SameKnown DEF TimePasses, work
<1>3. ASSUME NEW t \in Tabs, NEW code \in Codes, Unlock(t, code) PROVE Known'
  <2>1. UNCHANGED <<made, settled, drafts>> /\ KnownTab(t)
    BY <1>3 DEF Unlock, work, shared, Known
  <2>2. KnownTab(t)'
    BY <1>3, <2>1, UnlockEffect, SupersededKnown, NewLoadTyped DEF SameView, KnownTab, KnownApp
  <2> QED
    BY <1>3, <2>1, <2>2, UnlockEffect, KnownTabs DEF Known
<1>4. ASSUME NEW t \in Tabs, LoadStep(t) PROVE Known'
  BY <1>4, LoadStepKnown
<1>5. ASSUME NEW t \in Tabs, Use(t) PROVE Known'
  <2>1. UNCHANGED drafts /\ KnownTab(t)
    BY <1>5 DEF Use, Known
  <2>2. KnownTab(t)' /\ made \subseteq made' /\ settled' \subseteq made'
    BY <1>5, <2>1, UseEffect DEF Known, KnownTab, KnownApp
  <2> QED
    BY <1>5, <2>1, <2>2, UseEffect, KnownTabs DEF Known
<1>6. ASSUME NEW t \in Tabs, Lock(t) PROVE Known'
  BY <1>6, LockKnown
<1>7. ASSUME NEW t \in Tabs, AutoLock(t) PROVE Known'
  BY <1>7, AutoLockKnown
<1>8. ASSUME NEW t \in Tabs, CheckStep(t) PROVE Known'
  BY <1>8, CheckStepKnown
<1>9. ASSUME NEW t \in Tabs, Forget(t) PROVE Known'
  BY <1>9, ForgetKnown
<1>10. ASSUME NEW t \in Tabs, Reload(t) PROVE Known'
  BY <1>10, LeavePageKnown DEF Reload
<1>11. ASSUME NEW t \in Tabs, NewTab(t) PROVE Known'
  BY <1>11, LeavePageKnown, KnownStored DEF NewTab
<1>12. ASSUME NEW t \in Tabs, Settings(t) PROVE Known'
  BY <1>12, SettingsEffect, SameKnown DEF shared, work
<1> QED
  BY <1>1, <1>2, <1>3, <1>4, <1>5, <1>6, <1>7, <1>8, <1>9, <1>10, <1>11, <1>12 DEF Next
-----------------------------------------------------------------------------
(* The theorems that hold whatever the browser's storage does *)

IInv == TInv /\ Known /\ KInv

\* The inductive invariant of AppVault: types, all work kept anywhere was made,
\* and what may be under way in a tab that is open, locked or asking.
THEOREM AppInvariant == Spec => []IInv
<1>1. Init => IInv
  BY TypeInit, KnownInit, KInit DEF IInv
<1>2. IInv /\ [Next]_vars => IInv'
  BY TypeNext, KnownNext, KNext DEF IInv
<1> QED
  BY <1>1, <1>2, PTL DEF Spec

\* Every state is well formed; no tab ever has two unlocks in force.
THEOREM TypeCorrect == Spec => []TypeOK
<1>1. IInv => TypeOK
  <2> SUFFICES ASSUME IInv PROVE TypeOK
    OBVIOUS
  <2>1. ASSUME NEW t \in Tabs
        PROVE  Cardinality({l \in loads[t] : l.current}) <= 1
    <3> DEFINE C == {l \in loads[t] : l.current}
    <3>1. \A l, k \in C : l = k
      BY DEF IInv, KInv, KTab, OneCurrent
    <3>2. CASE C = {}
      BY <3>2, FS_EmptySet
    <3>3. CASE C # {}
      <4>1. PICK l \in C : TRUE
        BY <3>3
      <4>2. C = {l}
        BY <3>1, <4>1
      <4>3. Cardinality({l}) = 1
        BY FS_Singleton
      <4> QED
        BY <4>2, <4>3
    <3> QED
      BY <3>2, <3>3
  <2> QED
    BY <2>1 DEF IInv, TInv, Known, TypeOK
<1> QED
  BY <1>1, AppInvariant, PTL

\* A tab that was locked, by its user, its deadline or Forget, shows the vault
\* only after the master password was entered in it (initVault, closeVault).
THEOREM LockedSafe == Spec => []LockedNeedsPassword
<1>1. IInv => LockedNeedsPassword
  BY DEF IInv, KInv, KTab, Asking, LockedNeedsPassword
<1> QED
  BY <1>1, AppInvariant, PTL

\* A device key that was removed comes back only with an unlock in force: one
\* that was superseded while it stored the key still has to take it back.
THEOREM ForgottenSafe == Spec => []KeyStaysForgotten
<1>1. Init => KeyStaysForgotten
  BY DEF Init, KeyStaysForgotten
<1>2. IInv /\ KeyStaysForgotten /\ [Next]_vars => KeyStaysForgotten'
  BY ForgottenNext DEF IInv
<1> QED
  BY <1>1, <1>2, AppInvariant, PTL DEF Spec
-----------------------------------------------------------------------------
(* No tab opens with the cached key while another is locked, where recovery  *)
(* copies can be read: XLocked says that X keeps LInv, or LTab of the tab    *)
(* whose step it is.                                                         *)

CopiesRead == "read" \notin Faults

\* A tab with something to recover is locked.
Locked(t) ==
  session[t].ref # NoId \/ app[t].memory # {} \/ check[t] # NoCheck =>
    session[t].locked

\* So an unlock with the cached key finds nothing to recover, and shows the
\* vault as soon as it looked at the locks for the second time.
Cached(t, l) ==
  /\ l.available
  /\ l.current /\ l.stored # {} => session[t].locked
  /\ ~ l.password =>
       /\ l.current /\ l.step \in {"start", "read", "open"} /\ l.stored = {}
       /\ l.step # "start" => ~ session[t].locked

LTab(t) ==
  /\ Locked(t)
  /\ app[t].open => session[t].ref = NoId
  /\ \A l \in loads[t] : Cached(t, l)

LInv == \A t \in Tabs : LTab(t)

LEMMA KeepsLocked ==
  ASSUME NEW u \in Tabs, SameTab(u), LTab(u)
  PROVE  LTab(u)'
BY DEF SameTab, LTab, Locked, Cached

LEMMA KeepsAllLocked ==
  ASSUME LInv, NEW t \in Tabs, Others(t), LTab(t)'
  PROVE  LInv'
BY KeepsLocked DEF LInv, Others

\* Nothing changes for the tab but that a call returns.
LEMMA ReturnsLocked ==
  ASSUME NEW t \in Tabs, NEW l \in loads[t], LTab(t), SameView(t), Returns(t, l)
  PROVE  LTab(t)'
BY DEF SameView, Returns, LTab, Locked, Cached

LEMMA GoesOnLocked ==
  ASSUME NEW t \in Tabs, NEW l \in loads[t], NEW n \in Loads, LTab(t), SameView(t),
         GoesOn(t, l, n), Cached(t, n)
  PROVE  LTab(t)'
BY DEF SameView, GoesOn, LTab, Locked, Cached

LEMMA ShowsLocked ==
  ASSUME TInv, KInv, NEW t \in Tabs, NEW l \in loads[t], LTab(t), Shows(t, l), l.current,
         l.step # "start"
  PROVE  LTab(t)'
<1>1. KTab(t)
  BY DEF KInv
<1>2. check'[t] = NoCheck
  BY <1>1 DEF Shows, KTab, Phases
<1>3. session'[t].ref = NoId /\ app'[t].memory = {}
  BY DEF Shows, Dropped, LTab, Cached
<1>4. ASSUME NEW k \in loads'[t] PROVE Cached(t, k)'
  <2>1. k \in loads[t] /\ k # l
    BY <1>4 DEF Shows, Returns
  <2>2. ~ k.current
    BY <1>1, <2>1 DEF KTab, OneCurrent
  <2> QED
    BY <2>1, <2>2 DEF LTab, Cached
<1> QED
  BY <1>2, <1>3, <1>4 DEF LTab, Locked

LEMMA KeepsCopyLocked ==
  ASSUME TInv, NEW t \in Tabs, NEW l \in loads[t], LTab(t), KeepsCopy(t, l), l.current,
         l.stored # {}, l.password
  PROVE  LTab(t)'
<1>1. session'[t].locked /\ session[t].locked
  BY DEF LTab, Cached, KeepsCopy
<1>2. PICK n \in Loads : Keeping(t, l, n)
  BY DEF KeepsCopy
<1>3. n.password /\ n.available
  BY <1>2 DEF Keeping, GoesOn, LTab, Cached
<1>4. ASSUME NEW k \in loads'[t] PROVE Cached(t, k)'
  BY <1>1, <1>2, <1>3, <1>4 DEF LTab, Cached, Keeping, GoesOn
<1>5. app'[t].open => session'[t].ref = NoId
  BY DEF KeepsCopy, LTab
<1> QED
  BY <1>1, <1>4, <1>5 DEF LTab, Locked

LEMMA LoadStepLocked ==
  ASSUME CopiesRead, TInv, KInv, LInv, NEW t \in Tabs, LoadStep(t)
  PROVE  LInv'
<1> PICK l \in loads[t] : \/ Start(t, l) \/ ReadCopy(t, l) \/ Opened(t, l)
                          \/ StoreKey(t, l) \/ ClearKey(t, l) \/ Removed(t, l)
  BY DEF LoadStep
<1>1. KTab(t) /\ LTab(t) /\ l \in Loads /\ Cached(t, l) /\ Steps(l)
  BY DEF KInv, KTab, TInv, LInv, LTab
<1>2. CASE Start(t, l)
  <2>1. /\ l.step = "start" /\ Others(t) /\ SameView(t)
        /\ \/ Returns(t, l)
           \/ /\ \E n \in Loads : Keeping(t, l, n) /\ n.step = "read"
              /\ l.password \/ ~ session[t].locked
    BY <1>2, StartEffect
  <2>2. CASE Returns(t, l)
    BY <1>1, <2>1, <2>2, ReturnsLocked, KeepsAllLocked
  <2>3. CASE /\ \E n \in Loads : Keeping(t, l, n) /\ n.step = "read"
             /\ l.password \/ ~ session[t].locked
    <3>1. PICK n \in Loads : Keeping(t, l, n) /\ n.step = "read"
      BY <2>3
    <3>2. Cached(t, n) /\ GoesOn(t, l, n)
      BY <1>1, <2>3, <3>1 DEF Keeping, GoesOn, Cached
    <3> QED
      BY <1>1, <2>1, <3>2, GoesOnLocked, KeepsAllLocked
  <2> QED
    BY <2>1, <2>2, <2>3
<1>3. CASE ReadCopy(t, l)
  <2>1. l.step = "read" /\ Others(t) /\ SameView(t)
    BY <1>3, ReadCopyEffect
  <2>2. PICK n \in Loads : /\ GoesOn(t, l, n) /\ n.step = "open"
                           /\ n.available = l.available /\ n.stored = Finds(t)
    BY <1>3, ReadCopyEffect DEF CopiesRead
  <2>3. Finds(t) # {} => session[t].locked
    BY <1>1 DEF LTab, Locked, Finds, Stored
  <2>4. Cached(t, n)
    BY <1>1, <2>1, <2>2, <2>3 DEF Cached, GoesOn
  <2> QED
    BY <1>1, <2>1, <2>2, <2>4, GoesOnLocked, KeepsAllLocked
<1>4. CASE Opened(t, l)
  <2>1. /\ l.step = "open" /\ Others(t)
        /\ \/ /\ l.password /\ SameView(t)
              /\ \E n \in Loads : Keeping(t, l, n) /\ n.step = "store"
           \/ ~ l.password /\ SameView(t) /\ Returns(t, l)
           \/ ~ l.password /\ ~ local.locked /\ Recovers(t, l)
    BY <1>4, OpenedEffect
  <2>2. CASE l.password /\ SameView(t) /\ \E n \in Loads : Keeping(t, l, n) /\ n.step = "store"
    <3>1. PICK n \in Loads : Keeping(t, l, n)
      BY <2>2
    <3>2. Cached(t, n) /\ GoesOn(t, l, n)
      BY <1>1, <2>2, <3>1 DEF Keeping, GoesOn, Cached
    <3> QED
      BY <1>1, <2>1, <2>2, <3>2, GoesOnLocked, KeepsAllLocked
  <2>3. CASE SameView(t) /\ Returns(t, l)
    BY <1>1, <2>1, <2>3, ReturnsLocked, KeepsAllLocked
  <2>4. CASE ~ l.password /\ Recovers(t, l)
    <3>1. Shows(t, l) /\ l.current
      BY <1>1, <2>1, <2>4 DEF Recovers, Cached
    <3> QED
      BY <1>1, <2>1, <3>1, ShowsLocked, KeepsAllLocked
  <2> QED
    BY <2>1, <2>2, <2>3, <2>4
<1>5. CASE StoreKey(t, l)
  <2>1. /\ l.step = "store" /\ Others(t)
        /\ \/ l.current /\ Recovers(t, l)
           \/ /\ ~ l.current /\ SameView(t)
              /\ \E n \in Loads : Keeping(t, l, n) /\ n.step = "clear"
    BY <1>5, StoreKeyEffect
  <2>2. l.password
    BY <1>1, <2>1 DEF Cached
  <2>3. CASE l.current /\ Recovers(t, l)
    <3>1. CASE l.stored = {}
      BY <1>1, <2>1, <2>3, <3>1, ShowsLocked, KeepsAllLocked DEF Recovers
    <3>2. CASE l.stored # {}
      BY <1>1, <2>1, <2>2, <2>3, <3>2, KeepsCopyLocked, KeepsAllLocked DEF Recovers
    <3> QED
      BY <3>1, <3>2
  <2>4. CASE ~ l.current /\ SameView(t) /\ \E n \in Loads : Keeping(t, l, n) /\ n.step = "clear"
    <3>1. PICK n \in Loads : Keeping(t, l, n)
      BY <2>4
    <3>2. Cached(t, n) /\ GoesOn(t, l, n)
      BY <1>1, <2>2, <2>4, <3>1 DEF Keeping, GoesOn, Cached
    <3> QED
      BY <1>1, <2>1, <2>4, <3>2, GoesOnLocked, KeepsAllLocked
  <2> QED
    BY <2>1, <2>3, <2>4
<1>6. CASE ClearKey(t, l)
  BY <1>1, <1>6, ClearKeyEffect, ReturnsLocked, KeepsAllLocked
<1>7. CASE Removed(t, l)
  <2>1. /\ l.step = "remove" /\ Others(t)
        /\ \/ l.current /\ Shows(t, l)
           \/ /\ ~ l.current /\ Returns(t, l)
              /\ app'[t] = app[t] /\ check'[t] = check[t]
              /\ session'[t].locked = session[t].locked
              /\ session'[t].ref = Dropped(t, l)
    BY <1>7, RemovedEffect
  <2>2. CASE l.current /\ Shows(t, l)
    BY <1>1, <2>1, <2>2, ShowsLocked, KeepsAllLocked
  <2>3. CASE /\ ~ l.current /\ Returns(t, l)
             /\ app'[t] = app[t] /\ check'[t] = check[t]
             /\ session'[t].locked = session[t].locked
             /\ session'[t].ref = Dropped(t, l)
    <3>1. session'[t].ref = NoId
      BY <1>1, <2>3 DEF Dropped, Cached
    <3>2. LTab(t)'
      BY <1>1, <2>3, <3>1 DEF Returns, LTab, Locked, Cached
    <3> QED
      BY <2>1, <3>2, KeepsAllLocked
  <2> QED
    BY <2>1, <2>2, <2>3
<1> QED
  BY <1>2, <1>3, <1>4, <1>5, <1>6, <1>7

LEMMA SupersededLocked ==
  ASSUME TInv, NEW t \in Tabs, LTab(t)
  PROVE  \A k \in Superseded(t) : ~ k.current /\ k.available /\ k.password
<1> SUFFICES ASSUME NEW k \in Superseded(t)
             PROVE  ~ k.current /\ k.available /\ k.password
  OBVIOUS
<1>1. PICK l \in loads[t] : /\ ~ k.current /\ k.available = l.available
                            /\ k.password = l.password
                            /\ l.step \in {"store", "remove", "clear"}
  BY SupersededFacts
<1> QED
  BY <1>1 DEF LTab, Cached

LEMMA ClosesLocked ==
  ASSUME TInv, LInv, NEW t \in Tabs, NEW ref, Closes(t, ref), Others(t), ~ app'[t].open
  PROVE  LInv'
<1>1. LTab(t)
  BY DEF LInv
<1>2. LTab(t)'
  BY <1>1, SupersededLocked DEF Closes, LTab, Locked, Cached
<1> QED
  BY <1>2, KeepsAllLocked

LEMMA LeavePageLocked ==
  ASSUME TInv, LInv, NEW t \in Tabs, NEW s, NEW lost, LeavePage(t, s, lost),
         s.ref # NoId => s.locked
  PROVE  LInv'
<1>1. /\ Others(t) /\ session'[t] = s /\ app'[t] = NewApp /\ check'[t] = NoCheck
      /\ loads'[t] = {NewLoad(FALSE)}
  BY LeavePageEffect
<1>2. /\ NewLoad(FALSE).step = "start" /\ NewLoad(FALSE).current
      /\ NewLoad(FALSE).stored = {} /\ NewLoad(FALSE).available
  BY NewLoadTyped
<1>3. ~ NewApp.open /\ NewApp.memory = {}
  BY DEF NewApp
<1>4. LTab(t)'
  BY <1>1, <1>2, <1>3 DEF LTab, Locked, Cached
<1> QED
  BY <1>1, <1>4, KeepsAllLocked

LEMMA NewTabLocked ==
  ASSUME TInv, LInv, NEW t \in Tabs, NewTab(t)
  PROVE  LInv'
<1>1. PICK s \in {NewSession} \cup {session[u] : u \in Tabs \ {t}} :
        LeavePage(t, s, Stored(session[t].ref))
  BY DEF NewTab
<1>2. s.ref # NoId => s.locked
  <2>1. NewSession.ref = NoId
    BY DEF NewSession
  <2>2. \A u \in Tabs : session[u].ref # NoId => session[u].locked
    BY DEF LInv, LTab, Locked
  <2> QED
    BY <2>1, <2>2
<1> QED
  BY <1>1, <1>2, LeavePageLocked

LEMMA ReloadLocked ==
  ASSUME TInv, LInv, NEW t \in Tabs, Reload(t)
  PROVE  LInv'
<1>1. session[t].ref # NoId => session[t].locked
  BY DEF LInv, LTab, Locked
<1> QED
  BY <1>1, LeavePageLocked DEF Reload

LEMMA CheckStepLocked ==
  ASSUME TInv, LInv, NEW t \in Tabs, CheckStep(t)
  PROVE  LInv'
<1>1. LTab(t)
  BY DEF LInv
<1>2. /\ check[t] # NoCheck /\ Others(t) /\ loads'[t] = loads[t] /\ session'[t] = session[t]
      /\ app'[t].open = app[t].open
  BY SealEffect, PutDraftEffect, CheckDoneEffect DEF CheckStep, CheckGoesOn, NoCheck
<1>3. session[t].locked
  BY <1>1, <1>2 DEF LTab, Locked
<1>4. LTab(t)'
  BY <1>1, <1>2, <1>3 DEF LTab, Locked, Cached
<1> QED
  BY <1>2, <1>4, KeepsAllLocked

LEMMA LInit == Init => LInv
<1> SUFFICES ASSUME Init, NEW t \in Tabs PROVE LTab(t)
  BY DEF LInv
<1>1. /\ loads[t] = {NewLoad(FALSE)} /\ app[t] = NewApp /\ check[t] = NoCheck
      /\ session[t] = NewSession
  BY DEF Init
<1>2. /\ NewLoad(FALSE).step = "start" /\ NewLoad(FALSE).current
      /\ NewLoad(FALSE).stored = {} /\ NewLoad(FALSE).available
  BY NewLoadTyped
<1>3. ~ NewApp.open /\ NewApp.memory = {} /\ NewSession.ref = NoId
  BY DEF NewApp, NewSession
<1> QED
  BY <1>1, <1>2, <1>3 DEF LTab, Locked, Cached

LEMMA SameLocked ==
  ASSUME LInv, \A t \in Tabs : SameTab(t)
  PROVE  LInv'
BY KeepsLocked DEF LInv

LEMMA LNext ==
  ASSUME CopiesRead, IInv, LInv, [Next]_vars
  PROVE  LInv'
<1> USE DEF IInv
<1>1. CASE UNCHANGED vars
  BY <1>1, SameLocked DEF vars, SameTab
<1>2. CASE TimePasses
  BY <1>2, TimePassesEffect, SameLocked
<1>3. ASSUME NEW t \in Tabs, NEW code \in Codes, Unlock(t, code) PROVE LInv'
  <2>1. /\ ~ app[t].open /\ Others(t) /\ SameView(t)
        /\ \/ loads'[t] = Superseded(t) \cup {NewLoad(TRUE)}
           \/ loads'[t] = Superseded(t)
    BY <1>3, UnlockEffect
  <2>2. /\ NewLoad(TRUE).password /\ NewLoad(TRUE).stored = {} /\ NewLoad(TRUE).available
    BY NewLoadTyped
  <2>3. LTab(t)
    BY DEF LInv
  <2>4. LTab(t)'
    BY <2>1, <2>2, <2>3, SupersededLocked DEF SameView, LTab, Locked, Cached
  <2> QED
    BY <2>1, <2>4, KeepsAllLocked
<1>4. ASSUME NEW t \in Tabs, LoadStep(t) PROVE LInv'
  BY <1>4, LoadStepLocked
<1>5. ASSUME NEW t \in Tabs, Use(t) PROVE LInv'
  <2>1. LTab(t)
    BY DEF LInv
  <2>2. LTab(t)'
    BY <1>5, <2>1, UseEffect DEF LTab, Locked, Cached
  <2> QED
    BY <1>5, <2>2, UseEffect, KeepsAllLocked
<1>6. ASSUME NEW t \in Tabs, Lock(t) PROVE LInv'
  BY <1>6, LockEffect, ClosesLocked
<1>7. ASSUME NEW t \in Tabs, AutoLock(t) PROVE LInv'
  BY <1>7, AutoLockEffect, ClosesLocked DEF AutoLocks, NewApp
<1>8. ASSUME NEW t \in Tabs, CheckStep(t) PROVE LInv'
  BY <1>8, CheckStepLocked
<1>9. ASSUME NEW t \in Tabs, Forget(t) PROVE LInv'
  BY <1>9, ForgetEffect, ClosesLocked
<1>10. ASSUME NEW t \in Tabs, Reload(t) PROVE LInv'
  BY <1>10, ReloadLocked
<1>11. ASSUME NEW t \in Tabs, NewTab(t) PROVE LInv'
  BY <1>11, NewTabLocked
<1>12. ASSUME NEW t \in Tabs, Settings(t) PROVE LInv'
  BY <1>12, SettingsEffect, SameLocked
<1> QED
  BY <1>1, <1>2, <1>3, <1>4, <1>5, <1>6, <1>7, <1>8, <1>9, <1>10, <1>11, <1>12 DEF Next

\* What a step of an unlock that shows the vault without a password has seen.
LEMMA LoadStepRespectsLock ==
  ASSUME IInv, LInv, NEW t \in Tabs, LoadStep(t), ~ app[t].open, app'[t].open, local.locked
  PROVE  OpensWithPassword(t)
<1> USE DEF IInv
<1> PICK l \in loads[t] : \/ Start(t, l) \/ ReadCopy(t, l) \/ Opened(t, l)
                          \/ StoreKey(t, l) \/ ClearKey(t, l) \/ Removed(t, l)
  BY DEF LoadStep
<1>1. Cached(t, l)
  BY DEF LInv, LTab
<1>2. ASSUME Recovers(t, l) PROVE Returns(t, l)
  <2>1. l.stored = {}
    BY <1>2 DEF Recovers, KeepsCopy
  <2> QED
    BY <1>2, <2>1 DEF Recovers, Shows
<1>3. l.password /\ Returns(t, l)
  <2>1. CASE Start(t, l)
    BY <2>1, StartEffect DEF SameView
  <2>2. CASE ReadCopy(t, l)
    BY <2>2, ReadCopyEffect DEF SameView
  <2>3. CASE Opened(t, l)
    BY <2>3, OpenedEffect DEF SameView
  <2>4. CASE StoreKey(t, l)
    BY <1>1, <1>2, <2>4, StoreKeyEffect DEF SameView, Cached
  <2>5. CASE ClearKey(t, l)
    BY <2>5, ClearKeyEffect DEF SameView
  <2>6. CASE Removed(t, l)
    BY <1>1, <2>6, RemovedEffect DEF Shows, Cached
  <2> QED
    BY <2>1, <2>2, <2>3, <2>4, <2>5, <2>6
<1> QED
  BY <1>3 DEF OpensWithPassword, Returns

\* Only an unlock shows the vault.
LEMMA OnlyUnlockOpens ==
  ASSUME IInv, LInv, [Next]_vars, NEW t \in Tabs, ~ app[t].open, app'[t].open, local.locked
  PROVE  OpensWithPassword(t)
<1> USE DEF IInv
<1>1. ASSUME NEW u \in Tabs, Others(u), u # t PROVE FALSE
  BY <1>1 DEF Others, SameTab
<1>2. CASE UNCHANGED vars
  BY <1>2 DEF vars
<1>3. CASE TimePasses
  BY <1>3, TimePassesEffect DEF SameTab
<1>4. ASSUME NEW u \in Tabs, NEW code \in Codes, Unlock(u, code) PROVE FALSE
  BY <1>1, <1>4, UnlockEffect DEF SameView
<1>5. ASSUME NEW u \in Tabs, LoadStep(u) PROVE OpensWithPassword(t)
  <2>1. PICK l \in loads[u] : \/ Start(u, l) \/ ReadCopy(u, l) \/ Opened(u, l)
                              \/ StoreKey(u, l) \/ ClearKey(u, l) \/ Removed(u, l)
    BY <1>5 DEF LoadStep
  <2>2. Others(u)
    BY <2>1, StartEffect, ReadCopyEffect, OpenedEffect, StoreKeyEffect, ClearKeyEffect,
       RemovedEffect
  <2>3. u = t
    BY <1>1, <2>2
  <2> QED
    BY <1>5, <2>3, LoadStepRespectsLock
<1>6. ASSUME NEW u \in Tabs, Use(u) PROVE FALSE
  BY <1>1, <1>6, UseEffect
<1>7. ASSUME NEW u \in Tabs, Lock(u) PROVE FALSE
  BY <1>1, <1>7, LockEffect
<1>8. ASSUME NEW u \in Tabs, AutoLock(u) PROVE FALSE
  BY <1>1, <1>8, AutoLockEffect DEF AutoLocks, NewApp
<1>9. ASSUME NEW u \in Tabs, CheckStep(u) PROVE FALSE
  BY <1>1, <1>9, SealEffect, PutDraftEffect, CheckDoneEffect DEF CheckStep, CheckGoesOn
<1>10. ASSUME NEW u \in Tabs, Forget(u) PROVE FALSE
  BY <1>1, <1>10, ForgetEffect
<1>11. ASSUME NEW u \in Tabs, Reload(u) \/ NewTab(u) PROVE FALSE
  <2>1. Others(u) /\ app'[u] = NewApp
    BY <1>11, LeavePageEffect DEF Reload, NewTab
  <2> QED
    BY <1>1, <2>1 DEF NewApp
<1>12. ASSUME NEW u \in Tabs, Settings(u) PROVE FALSE
  BY <1>12, SettingsEffect DEF SameTab
<1> QED
  BY <1>2, <1>3, <1>4, <1>5, <1>6, <1>7, <1>8, <1>9, <1>10, <1>11, <1>12 DEF Next

\* While one tab is locked no other opens with the cached key: initVault looks
\* at the locks before and after the download, and has nothing to wait for then.
THEOREM CachedKeySafe ==
  ASSUME CopiesRead
  PROVE  Spec => CachedKeyRespectsLock
<1>1. Init => LInv
  BY LInit
<1>2. IInv /\ LInv /\ [Next]_vars => LInv'
  BY LNext
<1>3. IInv /\ LInv /\ [Next]_vars =>
        [\A t \in Tabs :
           ~ app[t].open /\ app'[t].open /\ local.locked => OpensWithPassword(t)]_vars
  BY OnlyUnlockOpens
<1> QED
  BY <1>1, <1>2, <1>3, AppInvariant, PTL DEF Spec, CachedKeyRespectsLock

-----------------------------------------------------------------------------
(* Unsaved work can be recovered, or its user was warned: UnsavedRecoverable, *)
(* where recovery copies can be read and the browser's storage answers within *)
(* an idle period.  It may refuse to write or delete a copy, to keep a        *)
(* reference, and to write the cached key.                                    *)

StorageInTime == "slow" \notin Faults

\* What the checkpoint of an automatic lock has kept so far: the copy in
\* memory, a warning until it is stored, and the reference to it.
Checking(t) ==
  check[t] # NoCheck =>
    /\ \A l \in loads[t] : l.step = "start"
    /\ check[t].step = "seal" => app[t].memory = {}
    /\ check[t].step # "clear" => check[t].copy # {} /\ app[t].pending
    /\ check[t].step # "seal" =>
         check[t].copy = {} \/ app[t].memory = check[t].copy
    /\ check[t].copy # {} =>
         /\ check[t].id # NoId
         /\ session[t].ref = IF check[t].durable THEN check[t].id ELSE NoId

\* An unlock that has read a copy has read the one its tab still refers to, or
\* the one in memory.
Reading(t, l) ==
  /\ l.step \in {"start", "read"} => l.stored = {} /\ l.id = NoId
  /\ l.step \in {"open", "store", "remove"} =>
       /\ session[t].ref \in {NoId, l.id}
       /\ l.current /\ app[t].memory # {} => l.stored = app[t].memory

\* A copy that is being removed is in memory, and so long as any of it is
\* unsaved the browser warns -- even if the unlock was superseded.
Removing(t, l) ==
  l.step = "remove" =>
    /\ l.stored # {}
    /\ l.stored \ settled \subseteq InMemory(t)
    /\ l.stored \subseteq settled \/ Warns(t)
    /\ l.current => app[t].memory = l.stored

CTab(t) ==
  /\ Checking(t)
  /\ \A l \in loads[t] : Reading(t, l) /\ Removing(t, l)

\* Every copy kept under a name, wherever it is kept, is the same.
NamesTab(t, c) ==
  /\ session[t].ref # NoId => app[t].memory \in {{}, c[session[t].ref]}
  /\ check[t] # NoCheck /\ check[t].id # NoId =>
       check[t].copy \in {{}, c[check[t].id]}
  /\ \A l \in loads[t] : l.id # NoId => l.stored \in {{}, c[l.id]}

Names(c) ==
  /\ \A i \in Ids : drafts[i] \in {{}, c[i]}
  /\ \A t \in Tabs : NamesTab(t, c)

Agree == \E c \in [Ids -> SUBSET Works] : Names(c)

\* An unlock in force that found nothing drops the reference of its tab.
Ignorant(t) ==
  \E l \in loads[t] :
    l.current /\ l.step \in {"open", "store"} /\ l.stored = {}

Safe(t, w) ==
  \/ w \in InMemory(t) /\ Warns(t)
  \/ w \in Stored(session[t].ref) /\ ~ Ignorant(t)

AllSafe == \A w \in made \ settled : \E t \in Tabs : Safe(t, w)

CInv == (\A t \in Tabs : CTab(t)) /\ Agree /\ AllSafe
-----------------------------------------------------------------------------
(* What the steps keep of CTab: lemma XC is about action X, or the part of an *)
(* action several share.                                                      *)

LEMMA KeepsCTab ==
  ASSUME NEW u \in Tabs, SameTab(u), CTab(u), settled \subseteq settled'
  PROVE  CTab(u)'
<1>1. InMemory(u)' = InMemory(u) /\ Warns(u)' = Warns(u)
  BY DEF SameTab, InMemory, Warns
<1>2. Checking(u)'
  BY DEF CTab, SameTab, Checking
<1>3. ASSUME NEW l \in loads[u] PROVE Reading(u, l)' /\ Removing(u, l)'
  BY <1>1 DEF CTab, SameTab, Reading, Removing
<1> QED
  BY <1>2, <1>3 DEF CTab, SameTab

LEMMA KeepsCTabs ==
  ASSUME \A u \in Tabs : CTab(u), NEW t \in Tabs, Others(t), settled \subseteq settled',
         CTab(t)'
  PROVE  \A u \in Tabs : CTab(u)'
BY KeepsCTab DEF Others

\* A tab that is locked, or unlocking past the first step, has nothing else in
\* memory than its recovery copy.
LEMMA OnlyMemory ==
  ASSUME KInv, NEW t \in Tabs, ~ app[t].open, check[t] = NoCheck
  PROVE  InMemory(t) = app[t].memory /\ app[t].edits = {}
BY DEF KInv, KTab, Phases, InMemory

\* An open tab has its edits.
LEMMA OnlyEdits ==
  ASSUME KInv, NEW t \in Tabs, app[t].open
  PROVE  /\ InMemory(t) = app[t].edits /\ app[t].memory = {} /\ check[t] = NoCheck
         /\ \A l \in loads[t] : ~ l.current
BY DEF KInv, KTab, Phases, InMemory

LEMMA PastStart ==
  ASSUME KInv, NEW t \in Tabs, CTab(t), NEW l \in loads[t],
         l.step # "start" \/ check[t] = NoCheck
  PROVE  check[t] = NoCheck /\ (l.current => ~ app[t].open)
BY DEF KInv, KTab, Phases, CTab, Checking

LEMMA ReturnsC ==
  ASSUME NEW t \in Tabs, NEW l \in loads[t], CTab(t), Returns(t, l), settled' = settled,
         app'[t] = app[t], check'[t] = check[t], check[t] = NoCheck,
         session'[t].ref \in {NoId, session[t].ref}
  PROVE  CTab(t)'
<1>1. InMemory(t)' = InMemory(t) /\ Warns(t)' = Warns(t)
  BY DEF InMemory, Warns
<1>2. Checking(t)'
  BY DEF Checking
<1>3. ASSUME NEW k \in loads'[t] PROVE Reading(t, k)' /\ Removing(t, k)'
  BY <1>1, <1>3 DEF CTab, Returns, Reading, Removing
<1> QED
  BY <1>2, <1>3 DEF CTab

LEMMA GoesOnC ==
  ASSUME NEW t \in Tabs, NEW l \in loads[t], NEW n, CTab(t), GoesOn(t, l, n),
         settled' = settled, SameView(t), check[t] = NoCheck,
         Reading(t, n), n.step # "remove"
  PROVE  CTab(t)'
<1>1. InMemory(t)' = InMemory(t) /\ Warns(t)' = Warns(t)
  BY DEF InMemory, Warns, SameView
<1>2. Checking(t)'
  BY DEF Checking, SameView
<1>3. ASSUME NEW k \in loads[t] PROVE Reading(t, k)' /\ Removing(t, k)'
  BY <1>1, <1>3 DEF CTab, SameView, Reading, Removing
<1>4. Reading(t, n)' /\ Removing(t, n)'
  BY DEF SameView, Reading, Removing
<1> QED
  BY <1>2, <1>3, <1>4 DEF CTab, GoesOn

\* Another unlock of the tab, superseded, may still be removing its copy.
LEMMA OthersRemove ==
  ASSUME TInv, KInv, NEW t \in Tabs, NEW l \in loads[t], CTab(t), l.current,
         l.step \in {"open", "store", "remove"},
         NEW k \in loads[t], k # l, k.step = "remove"
  PROVE  /\ ~ k.current /\ k.stored # {}
         /\ k.stored \ settled \subseteq l.stored
<1>1. ~ k.current
  BY DEF KInv, KTab, OneCurrent
<1>2. InMemory(t) = app[t].memory
  BY PastStart, OnlyMemory
<1>3. k.stored # {} /\ k.stored \ settled \subseteq app[t].memory
  BY <1>2 DEF CTab, Removing
<1>4. app[t].memory # {} => l.stored = app[t].memory
  BY DEF CTab, Reading
<1> QED
  BY <1>1, <1>3, <1>4

LEMMA ShowsC ==
  ASSUME CopiesRead, TInv, KInv, LInv, NEW t \in Tabs, NEW l \in loads[t], CTab(t),
         Shows(t, l), l.current, l.step \in {"open", "store", "remove"}, settled' = settled
  PROVE  CTab(t)'
<1>1. /\ loads'[t] = loads[t] \ {l} /\ check'[t] = NoCheck
      /\ app'[t].edits = l.stored /\ app'[t].memory = {}
      /\ session'[t].ref = NoId
  BY PastStart DEF Shows, Returns, Dropped, LInv, LTab, Cached
<1>2. InMemory(t)' = l.stored /\ (Warns(t)' <=> app'[t].pending \/ l.stored # {})
  BY <1>1 DEF InMemory, Warns
<1>3. ASSUME NEW k \in loads'[t] PROVE Reading(t, k)' /\ Removing(t, k)'
  <2>1. k \in loads[t] /\ k # l /\ ~ k.current
    BY <1>1, <1>3 DEF KInv, KTab, OneCurrent
  <2>2. Reading(t, k)'
    BY <1>1, <2>1 DEF CTab, Reading
  <2>3. CASE k.step = "remove"
    <3>1. k.stored # {} /\ k.stored \ settled \subseteq l.stored
      BY <2>1, <2>3, OthersRemove
    <3>2. k.stored \subseteq settled \/ l.stored # {}
      BY <3>1
    <3> QED
      BY <1>2, <2>1, <2>2, <3>1, <3>2 DEF Removing
  <2> QED
    BY <2>2, <2>3 DEF Removing
<1> QED
  BY <1>1, <1>3 DEF CTab, Checking

LEMMA KeepsCopyC ==
  ASSUME TInv, KInv, NEW t \in Tabs, NEW l \in loads[t], CTab(t),
         KeepsCopy(t, l), l.current, l.stored # {}, l.step \in {"open", "store"},
         settled' = settled
  PROVE  CTab(t)'
<1>1. PICK n \in Loads : Keeping(t, l, n) /\ n.step = "remove"
  BY DEF KeepsCopy
<1>2. /\ loads'[t] = (loads[t] \ {l}) \cup {n} /\ n.stored = l.stored /\ n.id = l.id
  BY <1>1 DEF Keeping, GoesOn
<1>3. /\ check'[t] = NoCheck /\ app'[t].memory = l.stored /\ app'[t].pending
      /\ app'[t].edits = {} /\ session'[t].ref = session[t].ref
  BY PastStart, OnlyMemory DEF KeepsCopy
<1>4. InMemory(t)' = l.stored /\ Warns(t)'
  BY <1>3 DEF InMemory, Warns
<1>5. Reading(t, n)' /\ Removing(t, n)'
  BY <1>1, <1>2, <1>3, <1>4 DEF CTab, Reading, Removing
<1>6. ASSUME NEW k \in loads[t], k # l PROVE Reading(t, k)' /\ Removing(t, k)'
  <2>1. ~ k.current
    BY <1>6 DEF KInv, KTab, OneCurrent
  <2>2. Reading(t, k)'
    BY <1>3, <2>1 DEF CTab, Reading
  <2>3. Removing(t, k)'
    BY <1>3, <1>4, <1>6, <2>1, OthersRemove DEF Removing
  <2> QED
    BY <2>2, <2>3
<1> QED
  BY <1>2, <1>3, <1>5, <1>6 DEF CTab, Checking

LEMMA RecoversC ==
  ASSUME CopiesRead, TInv, KInv, LInv, NEW t \in Tabs, NEW l \in loads[t], CTab(t),
         Recovers(t, l), l.current, l.step \in {"open", "store"}, settled' = settled
  PROVE  CTab(t)'
BY ShowsC, KeepsCopyC DEF Recovers

LEMMA LoadStepC ==
  ASSUME CopiesRead, TInv, KInv, LInv, NEW t \in Tabs, CTab(t), LoadStep(t)
  PROVE  Others(t) /\ settled' = settled /\ CTab(t)'
<1> PICK l \in loads[t] : \/ Start(t, l) \/ ReadCopy(t, l) \/ Opened(t, l)
                          \/ StoreKey(t, l) \/ ClearKey(t, l) \/ Removed(t, l)
  BY DEF LoadStep
<1>1. l \in Loads /\ Steps(l) /\ Reading(t, l)
  BY DEF KInv, KTab, TInv, CTab
<1>2. settled' = settled
  BY DEF Start, ReadCopy, Opened, StoreKey, ClearKey, Removed, work
<1>3. CASE Start(t, l)
  <2>1. /\ l.step = "start" /\ Others(t) /\ SameView(t) /\ check[t] = NoCheck
        /\ \/ Returns(t, l)
           \/ \E n \in Loads : Keeping(t, l, n) /\ n.step = "read"
    BY <1>3, StartEffect
  <2>2. CASE Returns(t, l)
    BY <1>2, <2>1, <2>2, ReturnsC DEF SameView
  <2>3. CASE \E n \in Loads : Keeping(t, l, n) /\ n.step = "read"
    <3>1. PICK n \in Loads : Keeping(t, l, n) /\ n.step = "read"
      BY <2>3
    <3>2. GoesOn(t, l, n) /\ Reading(t, n)
      BY <1>1, <2>1, <3>1 DEF Keeping, Reading
    <3> QED
      BY <1>2, <2>1, <3>1, <3>2, GoesOnC
  <2> QED
    BY <1>2, <2>1, <2>2, <2>3
<1>4. CASE ReadCopy(t, l)
  <2>1. l.step = "read" /\ Others(t) /\ SameView(t) /\ check[t] = NoCheck
    BY <1>4, ReadCopyEffect, PastStart
  <2>2. PICK n \in Loads : /\ GoesOn(t, l, n) /\ n.step = "open"
                           /\ n.stored = Finds(t) /\ n.id = session[t].ref
    BY <1>4, ReadCopyEffect DEF CopiesRead
  <2>3. Reading(t, n)
    BY <2>2 DEF Reading, Finds
  <2> QED
    BY <1>2, <2>1, <2>2, <2>3, GoesOnC
<1>5. CASE Opened(t, l)
  <2>1. /\ l.step = "open" /\ Others(t) /\ l.current
        /\ \/ SameView(t) /\ \E n \in Loads : Keeping(t, l, n) /\ n.step = "store"
           \/ SameView(t) /\ Returns(t, l)
           \/ Recovers(t, l)
    BY <1>1, <1>5, OpenedEffect DEF Steps
  <2>2. check[t] = NoCheck
    BY <2>1, PastStart
  <2>3. CASE SameView(t) /\ \E n \in Loads : Keeping(t, l, n) /\ n.step = "store"
    <3>1. PICK n \in Loads : Keeping(t, l, n) /\ n.step = "store"
      BY <2>3
    <3>2. GoesOn(t, l, n) /\ Reading(t, n)
      BY <1>1, <2>1, <3>1 DEF Keeping, GoesOn, Reading
    <3> QED
      BY <1>2, <2>1, <2>2, <2>3, <3>1, <3>2, GoesOnC
  <2>4. CASE SameView(t) /\ Returns(t, l)
    BY <1>2, <2>1, <2>2, <2>4, ReturnsC DEF SameView
  <2>5. CASE Recovers(t, l)
    BY <1>2, <2>1, <2>5, RecoversC
  <2> QED
    BY <1>2, <2>1, <2>3, <2>4, <2>5
<1>6. CASE StoreKey(t, l)
  <2>1. /\ l.step = "store" /\ Others(t)
        /\ \/ l.current /\ Recovers(t, l)
           \/ /\ ~ l.current /\ SameView(t)
              /\ \E n \in Loads : Keeping(t, l, n) /\ n.step = "clear"
    BY <1>6, StoreKeyEffect
  <2>2. CASE l.current /\ Recovers(t, l)
    BY <1>2, <2>1, <2>2, RecoversC
  <2>3. CASE SameView(t) /\ \E n \in Loads : Keeping(t, l, n) /\ n.step = "clear"
    <3>1. PICK n \in Loads : Keeping(t, l, n) /\ n.step = "clear"
      BY <2>3
    <3>2. GoesOn(t, l, n) /\ Reading(t, n)
      BY <3>1 DEF Keeping, Reading
    <3>3. check[t] = NoCheck
      BY <2>1, PastStart
    <3> QED
      BY <1>2, <2>1, <2>3, <3>1, <3>2, <3>3, GoesOnC
  <2> QED
    BY <1>2, <2>1, <2>2, <2>3
<1>7. CASE ClearKey(t, l)
  <2>1. l.step = "clear" /\ Others(t) /\ SameView(t) /\ Returns(t, l)
    BY <1>7, ClearKeyEffect
  <2>2. check[t] = NoCheck
    BY <2>1, PastStart
  <2> QED
    BY <1>2, <2>1, <2>2, ReturnsC DEF SameView
<1>8. CASE Removed(t, l)
  <2>1. /\ l.step = "remove" /\ Others(t)
        /\ \/ l.current /\ Shows(t, l)
           \/ /\ ~ l.current /\ Returns(t, l)
              /\ app'[t] = app[t] /\ check'[t] = check[t]
              /\ session'[t].ref = Dropped(t, l)
    BY <1>8, RemovedEffect
  <2>2. CASE l.current /\ Shows(t, l)
    BY <1>2, <2>1, <2>2, ShowsC
  <2>3. CASE /\ ~ l.current /\ Returns(t, l)
             /\ app'[t] = app[t] /\ check'[t] = check[t]
             /\ session'[t].ref = Dropped(t, l)
    <3>1. check[t] = NoCheck
      BY <2>1, PastStart
    <3> QED
      BY <1>2, <2>1, <2>3, <3>1, ReturnsC DEF Dropped
  <2> QED
    BY <1>2, <2>1, <2>2, <2>3
<1> QED
  BY <1>3, <1>4, <1>5, <1>6, <1>7, <1>8

\* What is left of the unlocks of a tab that is locked, or unlocked again.
LEMMA SupersededC ==
  ASSUME TInv, NEW t \in Tabs, CTab(t), NEW k \in Superseded(t)
  PROVE  /\ ~ k.current /\ k.step \in {"store", "remove", "clear"} /\ check[t] = NoCheck
         /\ k.step \in {"store", "remove"} => session[t].ref \in {NoId, k.id}
         /\ k.step = "remove" =>
              /\ k.stored # {} /\ k.stored \ settled \subseteq InMemory(t)
              /\ k.stored \subseteq settled \/ Warns(t)
<1>1. PICK l \in loads[t] : /\ ~ k.current /\ k.step = l.step
                            /\ l.step \in {"store", "remove", "clear"}
                            /\ k.stored = l.stored /\ k.id = l.id
  BY SupersededFacts
<1>2. Reading(t, l) /\ Removing(t, l)
  BY DEF CTab
<1>3. check[t] = NoCheck
  BY <1>1 DEF CTab, Checking
<1> QED
  BY <1>1, <1>2, <1>3 DEF Reading, Removing

LEMMA UnlockC ==
  ASSUME TInv, NEW t \in Tabs, CTab(t), NEW code \in Codes, Unlock(t, code)
  PROVE  Others(t) /\ settled' = settled /\ CTab(t)'
<1>1. /\ Others(t) /\ SameView(t)
      /\ \/ loads'[t] = Superseded(t) \cup {NewLoad(TRUE)}
         \/ loads'[t] = Superseded(t)
  BY UnlockEffect
<1>2. settled' = settled
  BY DEF Unlock, work
<1>3. NewLoad(TRUE).step = "start" /\ NewLoad(TRUE).stored = {} /\ NewLoad(TRUE).id = NoId
  BY NewLoadTyped
<1>4. InMemory(t)' = InMemory(t) /\ Warns(t)' = Warns(t)
  BY <1>1 DEF SameView, InMemory, Warns
<1>5. ASSUME NEW k \in Superseded(t)
      PROVE  Reading(t, k)' /\ Removing(t, k)' /\ check[t] = NoCheck
  BY <1>1, <1>2, <1>4, SupersededC DEF Reading, Removing, SameView
<1>6. Reading(t, NewLoad(TRUE))' /\ Removing(t, NewLoad(TRUE))'
  BY <1>3 DEF Reading, Removing
<1>7. Checking(t)'
  <2>1. check[t] # NoCheck => \A k \in loads'[t] : k.step = "start"
    BY <1>1, <1>3, <1>5
  <2> QED
    BY <1>1, <2>1 DEF CTab, Checking, SameView
<1> QED
  BY <1>1, <1>2, <1>5, <1>6, <1>7 DEF CTab

LEMMA UseC ==
  ASSUME TInv, KInv, NEW t \in Tabs, CTab(t), Use(t)
  PROVE  Others(t) /\ settled \subseteq settled' /\ CTab(t)'
<1>1. /\ app[t].open /\ Others(t) /\ check'[t] = check[t] /\ loads'[t] = loads[t]
      /\ session'[t].ref = session[t].ref
      /\ app'[t].memory = app[t].memory
      /\ app'[t].pending = app[t].pending
      /\ \/ \E w \in Works : app'[t].edits = app[t].edits \cup {w} /\ UNCHANGED settled
         \/ app'[t].edits = {} /\ settled' = settled \cup app[t].edits
  BY UseEffect
<1>2. /\ InMemory(t) = app[t].edits /\ app[t].memory = {} /\ check[t] = NoCheck
      /\ \A l \in loads[t] : ~ l.current
  BY <1>1, OnlyEdits
<1>3. InMemory(t)' = app'[t].edits
  BY <1>1, <1>2 DEF InMemory
<1>4. ASSUME NEW k \in loads[t] PROVE Reading(t, k)' /\ Removing(t, k)'
  <2>1. Reading(t, k)'
    BY <1>1, <1>2 DEF CTab, Reading
  <2>2. Removing(t, k)'
    BY <1>1, <1>2, <1>3 DEF CTab, Removing, Warns
  <2> QED
    BY <2>1, <2>2
<1> QED
  BY <1>1, <1>2, <1>4 DEF CTab, Checking

\* A tab that is locked, by its user or Forget: its edits are settled.
LEMMA ClosesC ==
  ASSUME TInv, KInv, NEW t \in Tabs, CTab(t), NEW ref, Closes(t, ref),
         ref \in {NoId, session[t].ref}, ref = NoId => check[t] = NoCheck \/ ref = session[t].ref,
         check'[t] = check[t], app'[t].edits = {}, app'[t].memory = app[t].memory,
         app'[t].pending = app[t].pending, settled \cup app[t].edits \subseteq settled'
  PROVE  CTab(t)'
<1>1. loads'[t] = Superseded(t) /\ session'[t].ref = ref
  BY DEF Closes
<1>2. InMemory(t) = InMemory(t)' \cup app[t].edits
  BY DEF InMemory
<1>3. Warns(t) => Warns(t)' \/ app[t].edits # {}
  BY DEF Warns
<1>4. app[t].edits # {} => InMemory(t) = app[t].edits
  BY OnlyEdits DEF KInv, KTab, Phases
<1>5. ASSUME NEW k \in Superseded(t)
      PROVE  Reading(t, k)' /\ Removing(t, k)' /\ check[t] = NoCheck
  <2>1. /\ ~ k.current /\ k.step \in {"store", "remove", "clear"} /\ check[t] = NoCheck
        /\ k.step \in {"store", "remove"} => session[t].ref \in {NoId, k.id}
        /\ k.step = "remove" =>
             /\ k.stored # {} /\ k.stored \ settled \subseteq InMemory(t)
             /\ k.stored \subseteq settled \/ Warns(t)
    BY SupersededC
  <2>2. Reading(t, k)'
    BY <1>1, <2>1 DEF Reading
  <2>3. Removing(t, k)'
    BY <1>2, <1>3, <1>4, <2>1 DEF Removing
  <2> QED
    BY <2>1, <2>2, <2>3
<1>6. Checking(t)'
  BY <1>1, <1>5 DEF CTab, Checking
<1> QED
  BY <1>1, <1>5, <1>6 DEF CTab

LEMMA LockC ==
  ASSUME TInv, KInv, NEW t \in Tabs, CTab(t), Lock(t)
  PROVE  Others(t) /\ settled \subseteq settled' /\ CTab(t)'
<1>1. settled' = settled \cup app[t].edits
  BY DEF Lock
<1> QED
  BY <1>1, LockEffect, ClosesC

LEMMA ForgetC ==
  ASSUME TInv, KInv, NEW t \in Tabs, CTab(t), Forget(t)
  PROVE  Others(t) /\ settled \subseteq settled' /\ CTab(t)'
<1>1. settled \cup app[t].edits \subseteq settled'
  BY DEF Forget
<1>2. app[t].open
  BY ForgetEffect
<1>3. app[t].memory = {} /\ check[t] = NoCheck
  BY <1>2, OnlyEdits
<1> QED
  BY <1>1, <1>3, ForgetEffect, ClosesC

\* The automatic lock waits for what it superseded.
LEMMA NothingLeft ==
  ASSUME StorageInTime, TInv, KInv, NEW t \in Tabs, AutoLock(t)
  PROVE  loads[t] = {} /\ loads'[t] = {}
<1>1. app[t].open /\ StorageAnswers(t) /\ AutoLocks(t)
  BY AutoLockEffect
<1>2. loads[t] = {}
  BY <1>1, OnlyEdits DEF StorageAnswers, StorageInTime
<1>3. Superseded(t) = {}
  BY <1>2 DEF Superseded
<1> QED
  BY <1>1, <1>2, <1>3 DEF AutoLocks, Closes

LEMMA AutoLockC ==
  ASSUME StorageInTime, TInv, KInv, LInv, NEW t \in Tabs, CTab(t), AutoLock(t)
  PROVE  Others(t) /\ settled' = settled /\ CTab(t)'
<1>1. app[t].open /\ Others(t) /\ AutoLocks(t) /\ settled' = settled
  BY AutoLockEffect DEF AutoLock, work
<1>2. loads'[t] = {} /\ app[t].memory = {} /\ session[t].ref = NoId
  BY <1>1, NothingLeft, OnlyEdits DEF LInv, LTab
<1>3. CASE check'[t] = EmptyCheck
  BY <1>1, <1>2, <1>3 DEF CTab, Checking, EmptyCheck
<1>4. CASE check'[t] # EmptyCheck
  <2>1. app[t].edits # {} /\ app'[t].pending /\ app'[t].memory = {}
    BY <1>1, <1>2, <1>4 DEF AutoLocks
  <2>2. PICK id \in NewIds(t), durable \in References :
          /\ Closes(t, IF durable THEN id ELSE session[t].ref)
          /\ check'[t].step = "seal" /\ check'[t].copy = app[t].edits
          /\ check'[t].id = id /\ check'[t].durable = durable
    BY <1>1, <1>4 DEF AutoLocks
  <2>3. id # NoId
    BY BrowserAssumption DEF NewIds
  <2>4. session'[t].ref = IF check'[t].durable THEN check'[t].id ELSE NoId
    BY <1>2, <2>2 DEF Closes
  <2> QED
    BY <1>1, <1>2, <2>1, <2>2, <2>3, <2>4 DEF CTab, Checking
<1> QED
  BY <1>3, <1>4

LEMMA CheckStepC ==
  ASSUME TInv, KInv, NEW t \in Tabs, CTab(t), CheckStep(t)
  PROVE  Others(t) /\ settled' = settled /\ CTab(t)'
<1>1. settled' = settled
  BY DEF CheckStep, Seal, PutDraft, CheckDone, work
<1>2. /\ check[t] # NoCheck /\ Others(t) /\ loads'[t] = loads[t] /\ session'[t] = session[t]
  BY SealEffect, PutDraftEffect, CheckDoneEffect DEF CheckStep, CheckGoesOn, NoCheck
<1>3. \A l \in loads'[t] : Reading(t, l)' /\ Removing(t, l)' /\ l.step = "start"
  BY <1>2 DEF CTab, Checking, Reading, Removing
<1>4. Checking(t)'
  <2>1. CASE Seal(t)
    BY <1>2, <1>3, <2>1, SealEffect DEF CTab, Checking, CheckGoesOn
  <2>2. CASE PutDraft(t)
    BY <1>2, <1>3, <2>2, PutDraftEffect DEF CTab, Checking, CheckGoesOn
  <2>3. CASE CheckDone(t)
    BY <2>3, CheckDoneEffect DEF Checking
  <2> QED
    BY <2>1, <2>2, <2>3 DEF CheckStep
<1> QED
  BY <1>1, <1>2, <1>3, <1>4 DEF CTab

LEMMA LeavePageC ==
  ASSUME TInv, NEW t \in Tabs, NEW s, NEW lost, LeavePage(t, s, lost)
  PROVE  Others(t) /\ settled \subseteq settled' /\ CTab(t)'
<1>1. /\ Others(t) /\ check'[t] = NoCheck /\ loads'[t] = {NewLoad(FALSE)}
  BY LeavePageEffect
<1>2. NewLoad(FALSE).step = "start" /\ NewLoad(FALSE).stored = {} /\ NewLoad(FALSE).id = NoId
  BY NewLoadTyped
<1>3. settled \subseteq settled'
  BY DEF LeavePage
<1> QED
  BY <1>1, <1>2, <1>3 DEF CTab, Checking, Reading, Removing

LEMMA CTabInit == Init => \A t \in Tabs : CTab(t)
<1> SUFFICES ASSUME Init, NEW t \in Tabs PROVE CTab(t)
  OBVIOUS
<1>1. check[t] = NoCheck /\ loads[t] = {NewLoad(FALSE)}
  BY DEF Init
<1>2. NewLoad(FALSE).step = "start" /\ NewLoad(FALSE).stored = {} /\ NewLoad(FALSE).id = NoId
  BY NewLoadTyped
<1> QED
  BY <1>1, <1>2 DEF CTab, Checking, Reading, Removing

LEMMA CTabNext ==
  ASSUME CopiesRead, StorageInTime, IInv, LInv, \A u \in Tabs : CTab(u), [Next]_vars
  PROVE  (\A u \in Tabs : CTab(u)') /\ settled \subseteq settled'
<1> USE DEF IInv
<1>1. ASSUME \A t \in Tabs : SameTab(t), settled' = settled
      PROVE  (\A u \in Tabs : CTab(u)') /\ settled \subseteq settled'
  BY <1>1, KeepsCTab
<1>2. CASE UNCHANGED vars
  BY <1>1, <1>2 DEF vars, work, SameTab
<1>3. CASE TimePasses
  BY <1>1, <1>3, TimePassesEffect DEF TimePasses, work
<1>4. ASSUME NEW t \in Tabs, Settings(t)
      PROVE  (\A u \in Tabs : CTab(u)') /\ settled \subseteq settled'
  BY <1>1, <1>4, SettingsEffect DEF work
<1>5. ASSUME NEW t \in Tabs, Others(t), settled \subseteq settled', CTab(t)'
      PROVE  (\A u \in Tabs : CTab(u)') /\ settled \subseteq settled'
  BY <1>5, KeepsCTabs
<1>6. ASSUME NEW t \in Tabs,
             \/ \E code \in Codes : Unlock(t, code)
             \/ LoadStep(t) \/ Use(t) \/ Lock(t) \/ AutoLock(t) \/ CheckStep(t) \/ Forget(t)
             \/ Reload(t) \/ NewTab(t)
      PROVE  Others(t) /\ settled \subseteq settled' /\ CTab(t)'
  BY <1>6, UnlockC, LoadStepC, UseC, LockC, AutoLockC, CheckStepC, ForgetC, LeavePageC
     DEF Reload, NewTab
<1> QED
  BY <1>2, <1>3, <1>4, <1>5, <1>6 DEF Next
-----------------------------------------------------------------------------
(* What the steps keep of Agree: lemma XNames is about X.                     *)

LEMMA KeepsNames ==
  ASSUME NEW c, NEW u \in Tabs, SameTab(u), NamesTab(u, c)
  PROVE  NamesTab(u, c)'
BY DEF SameTab, NamesTab

\* All tabs but t are as before, and no copy is stored.
LEMMA KeepsAgree ==
  ASSUME NEW c \in [Ids -> SUBSET Works], Names(c), NEW t \in Tabs, Others(t),
         \A i \in Ids : drafts'[i] \in {{}, drafts[i]}, NamesTab(t, c)'
  PROVE  Agree'
<1>1. \A u \in Tabs : NamesTab(u, c)'
  BY KeepsNames DEF Names, Others
<1>2. \A i \in Ids : drafts'[i] \in {{}, c[i]}
  BY DEF Names
<1> QED
  BY <1>1, <1>2 DEF Agree, Names

LEMMA DraftsLeft ==
  ASSUME TInv, NEW i \in Ids \cup {NoId}, drafts' \in DraftsWithout(i)
  PROVE  \A j \in Ids : drafts'[j] \in {{}, drafts[j]} /\ (j # i => drafts'[j] = drafts[j])
BY DEF DraftsWithout, TInv

LEMMA ReturnsNames ==
  ASSUME NEW c, NEW t \in Tabs, NEW l \in loads[t], NamesTab(t, c), Returns(t, l),
         app'[t] = app[t], check'[t] = check[t], session'[t].ref \in {NoId, session[t].ref}
  PROVE  NamesTab(t, c)'
BY DEF NamesTab, Returns

LEMMA GoesOnNames ==
  ASSUME NEW c, NEW t \in Tabs, NEW l \in loads[t], NEW n, NamesTab(t, c), GoesOn(t, l, n),
         SameView(t), n.id # NoId => n.stored \in {{}, c[n.id]}
  PROVE  NamesTab(t, c)'
BY DEF NamesTab, GoesOn, SameView

LEMMA KeepingNames ==
  ASSUME NEW c, NEW t \in Tabs, NEW l \in loads[t], NEW n, NamesTab(t, c), Keeping(t, l, n),
         SameView(t)
  PROVE  NamesTab(t, c)'
<1>1. GoesOn(t, l, n) /\ n.stored = l.stored /\ n.id = l.id
  BY DEF Keeping
<1>2. n.id # NoId => n.stored \in {{}, c[n.id]}
  BY <1>1 DEF NamesTab
<1> QED
  BY <1>1, <1>2, GoesOnNames

LEMMA ShowsNames ==
  ASSUME NEW c, NEW t \in Tabs, NEW l \in loads[t], NamesTab(t, c), Shows(t, l)
  PROVE  NamesTab(t, c)'
BY DEF NamesTab, Shows, Returns

LEMMA RecoversNames ==
  ASSUME NEW c, NEW t \in Tabs, NEW l \in loads[t], NamesTab(t, c), CTab(t), Recovers(t, l),
         l.step \in {"open", "store"}
  PROVE  NamesTab(t, c)'
<1>1. CASE l.stored = {}
  BY <1>1, ShowsNames DEF Recovers
<1>2. CASE l.stored # {}
  <2>1. KeepsCopy(t, l) /\ session[t].ref \in {NoId, l.id}
    BY <1>2 DEF Recovers, CTab, Reading
  <2>2. PICK n \in Loads : Keeping(t, l, n)
    BY <2>1 DEF KeepsCopy
  <2>3. loads'[t] = (loads[t] \ {l}) \cup {n} /\ n.stored = l.stored /\ n.id = l.id
    BY <2>2 DEF Keeping, GoesOn
  <2>4. /\ app'[t].memory = l.stored /\ check'[t] = check[t]
        /\ session'[t].ref = session[t].ref
    BY <2>1 DEF KeepsCopy
  <2> QED
    BY <2>1, <2>3, <2>4 DEF NamesTab
<1> QED
  BY <1>1, <1>2

LEMMA LoadStepNames ==
  ASSUME CopiesRead, TInv, NEW c \in [Ids -> SUBSET Works], Names(c), NEW t \in Tabs, CTab(t),
         LoadStep(t)
  PROVE  Agree'
<1> PICK l \in loads[t] : \/ Start(t, l) \/ ReadCopy(t, l) \/ Opened(t, l)
                          \/ StoreKey(t, l) \/ ClearKey(t, l) \/ Removed(t, l)
  BY DEF LoadStep
<1>1. l \in Loads /\ NamesTab(t, c)
  BY DEF TInv, Names
<1>2. \A i \in Ids : drafts'[i] \in {{}, drafts[i]}
  <2>1. CASE Removed(t, l)
    <3>1. PICK i \in Ids \cup {NoId} : i = l.id
      BY <1>1 DEF Loads
    <3>2. drafts' \in DraftsWithout(i)
      BY <2>1, <3>1 DEF Removed
    <3> QED
      BY <3>2, DraftsLeft
  <2>2. CASE UNCHANGED drafts
    BY <2>2
  <2> QED
    BY <2>1, <2>2 DEF Start, ReadCopy, Opened, StoreKey, ClearKey, shared
<1>3. Others(t) /\ NamesTab(t, c)'
  <2>1. CASE Start(t, l)
    BY <1>1, <2>1, StartEffect, ReturnsNames, KeepingNames DEF SameView
  <2>2. CASE ReadCopy(t, l)
    <3>1. Others(t) /\ SameView(t)
      BY <2>2, ReadCopyEffect
    <3>2. PICK n \in Loads : /\ GoesOn(t, l, n)
                             /\ n.stored = Finds(t) /\ n.id = session[t].ref
      BY <2>2, ReadCopyEffect DEF CopiesRead
    <3>3. session[t].ref # NoId => session[t].ref \in Ids
      BY DEF TInv, Sessions
    <3>4. n.id # NoId => n.stored \in {{}, c[n.id]}
      BY <1>1, <3>2, <3>3 DEF Finds, Stored, Names, NamesTab
    <3> QED
      BY <1>1, <3>1, <3>2, <3>4, GoesOnNames
  <2>3. CASE Opened(t, l)
    <3>1. /\ Others(t) /\ l.step = "open"
          /\ \/ SameView(t) /\ \E n \in Loads : Keeping(t, l, n)
             \/ SameView(t) /\ Returns(t, l)
             \/ Recovers(t, l)
      BY <2>3, OpenedEffect
    <3> QED
      BY <1>1, <3>1, RecoversNames, ReturnsNames, KeepingNames DEF SameView
  <2>4. CASE StoreKey(t, l)
    <3>1. /\ Others(t) /\ l.step = "store"
          /\ \/ SameView(t) /\ \E n \in Loads : Keeping(t, l, n)
             \/ Recovers(t, l)
      BY <2>4, StoreKeyEffect
    <3> QED
      BY <1>1, <3>1, RecoversNames, KeepingNames
  <2>5. CASE ClearKey(t, l)
    BY <1>1, <2>5, ClearKeyEffect, ReturnsNames DEF SameView
  <2>6. CASE Removed(t, l)
    BY <1>1, <2>6, RemovedEffect, ReturnsNames, ShowsNames DEF Dropped
  <2> QED
    BY <2>1, <2>2, <2>3, <2>4, <2>5, <2>6
<1> QED
  BY <1>2, <1>3, KeepsAgree

LEMMA SupersededNames ==
  ASSUME TInv, NEW c, NEW t \in Tabs, NamesTab(t, c)
  PROVE  \A k \in Superseded(t) : k.id # NoId => k.stored \in {{}, c[k.id]}
<1> SUFFICES ASSUME NEW k \in Superseded(t), k.id # NoId PROVE k.stored \in {{}, c[k.id]}
  OBVIOUS
<1>1. PICK l \in loads[t] : k.stored = l.stored /\ k.id = l.id
  BY SupersededFacts
<1> QED
  BY <1>1 DEF NamesTab

\* A new name: nobody has a copy under it yet.
LEMMA FreshName ==
  ASSUME NEW t \in Tabs, NEW id \in NewIds(t), NEW u \in Tabs
  PROVE  /\ session[u].ref # id
         /\ check[u] # NoCheck => check[u].id # id
         /\ \A l \in loads[u] : l.id # id
BY DEF NewIds, InUse

LEMMA AutoLockNames ==
  ASSUME TInv, KInv, NEW c \in [Ids -> SUBSET Works], Names(c), NEW t \in Tabs, AutoLock(t)
  PROVE  Agree'
<1>1. app[t].open /\ Others(t) /\ AutoLocks(t) /\ NamesTab(t, c)
  BY AutoLockEffect DEF Names
<1>2. app[t].memory = {} /\ app[t] \in Apps
  BY <1>1, OnlyEdits DEF TInv
<1>3. CASE app[t].edits = {}
  <2>1. /\ loads'[t] = Superseded(t) /\ check'[t] = EmptyCheck /\ app'[t].memory = {}
        /\ drafts' = drafts
    BY <1>1, <1>3 DEF AutoLocks, Closes, NewApp
  <2>2. NamesTab(t, c)'
    BY <1>1, <2>1, SupersededNames DEF NamesTab, EmptyCheck
  <2> QED
    BY <1>1, <2>1, <2>2, KeepsAgree
<1>4. CASE app[t].edits # {}
  <2>1. PICK id \in NewIds(t), durable \in References :
          /\ loads'[t] = Superseded(t)
          /\ drafts' = [drafts EXCEPT ![id] = {}]
          /\ check'[t].copy = app[t].edits /\ check'[t].id = id
    BY <1>1, <1>4 DEF AutoLocks, Closes
  <2>2. app'[t].memory = {}
    BY <1>1, <1>2, <1>4 DEF AutoLocks
  <2>3. id \in Ids
    BY DEF NewIds
  <2>4. PICK d \in [Ids -> SUBSET Works] :
          d[id] = app[t].edits /\ \A i \in Ids : i # id => d[i] = c[i]
    <3>1. [c EXCEPT ![id] = app[t].edits] \in [Ids -> SUBSET Works]
      BY <1>2, <2>3 DEF Apps
    <3> QED
      BY <2>3, <3>1
  <2>5. ASSUME NEW u \in Tabs PROVE NamesTab(u, d)
    <3>1. NamesTab(u, c)
      BY DEF Names
    <3>2. session[u].ref # NoId => session[u].ref \in Ids /\ session[u].ref # id
      BY FreshName DEF TInv, Sessions
    <3>3. check[u] # NoCheck /\ check[u].id # NoId => check[u].id \in Ids /\ check[u].id # id
      BY FreshName DEF TInv, Checks
    <3>4. \A l \in loads[u] : l.id # NoId => l.id \in Ids /\ l.id # id
      BY FreshName DEF TInv, Loads
    <3> QED
      BY <2>4, <3>1, <3>2, <3>3, <3>4 DEF NamesTab
  <2>6. NamesTab(t, d)'
    <3>1. NamesTab(t, d)
      BY <2>5
    <3>2. \A k \in loads'[t] : k.id # NoId => k.stored \in {{}, d[k.id]}
      BY <2>1, <3>1, SupersededNames
    <3> QED
      BY <2>1, <2>2, <2>4, <3>2 DEF NamesTab
  <2>7. \A u \in Tabs : NamesTab(u, d)'
    BY <1>1, <2>5, <2>6, KeepsNames DEF Others
  <2>8. \A i \in Ids : drafts'[i] \in {{}, d[i]}
    BY <2>1, <2>3, <2>4 DEF Names, TInv
  <2> QED
    BY <2>7, <2>8 DEF Agree, Names
<1> QED
  BY <1>3, <1>4

LEMMA CheckStepNames ==
  ASSUME TInv, NEW c \in [Ids -> SUBSET Works], Names(c), NEW t \in Tabs, CTab(t), CheckStep(t)
  PROVE  Agree'
<1>1. /\ check[t] # NoCheck /\ Others(t) /\ loads'[t] = loads[t] /\ session'[t] = session[t]
  BY SealEffect, PutDraftEffect, CheckDoneEffect DEF CheckStep, CheckGoesOn, NoCheck
<1>2. NamesTab(t, c)
  BY DEF Names
<1>3. CASE Seal(t)
  <2>1. /\ CheckGoesOn(t, "put") /\ app'[t].memory = check[t].copy /\ drafts' = drafts
        /\ check[t].step = "seal"
    BY <1>3, SealEffect DEF Seal, shared
  <2>2. session[t].ref # NoId => session[t].ref = check[t].id
    BY <1>1, <2>1 DEF CTab, Checking
  <2>3. NamesTab(t, c)'
    BY <1>1, <1>2, <2>1, <2>2 DEF NamesTab, CheckGoesOn
  <2> QED
    BY <1>1, <2>1, <2>3, KeepsAgree
<1>4. CASE PutDraft(t)
  <2>1. /\ CheckGoesOn(t, "clear") /\ app'[t].memory = app[t].memory
        /\ \/ drafts' = [drafts EXCEPT ![check[t].id] = check[t].copy]
           \/ UNCHANGED drafts
        /\ check[t].step = "put"
    BY <1>4, PutDraftEffect
  <2>2. check[t].id \in Ids /\ check[t].copy \in {{}, c[check[t].id]}
    BY <1>1, <1>2, <2>1 DEF NamesTab, CTab, Checking, CheckGoesOn, Checks
  <2>3. NamesTab(t, c)'
    BY <1>1, <1>2, <2>1 DEF NamesTab, CheckGoesOn
  <2>4. \A u \in Tabs : NamesTab(u, c)'
    BY <1>1, <2>3, KeepsNames DEF Others, Names
  <2>5. \A i \in Ids : drafts'[i] \in {{}, c[i]}
    BY <2>1, <2>2 DEF Names, TInv
  <2> QED
    BY <2>4, <2>5 DEF Agree, Names
<1>5. CASE CheckDone(t)
  <2>1. NamesTab(t, c)' /\ drafts' = drafts
    BY <1>1, <1>2, <1>5, CheckDoneEffect DEF NamesTab, CheckDone
  <2> QED
    BY <1>1, <2>1, KeepsAgree
<1> QED
  BY <1>3, <1>4, <1>5 DEF CheckStep

LEMMA AgreeInit == Init => Agree
<1> SUFFICES ASSUME Init PROVE Agree
  OBVIOUS
<1>1. PICK c \in [Ids -> SUBSET Works] : c = drafts
  BY DEF Init
<1>2. NewLoad(FALSE).id = NoId /\ NewApp.memory = {}
  BY NewLoadTyped DEF NewApp
<1>3. ASSUME NEW t \in Tabs PROVE NamesTab(t, c)
  <2>1. app[t] = NewApp /\ check[t] = NoCheck /\ loads[t] = {NewLoad(FALSE)}
    BY DEF Init
  <2> QED
    BY <1>2, <2>1 DEF NamesTab
<1> QED
  BY <1>1, <1>3 DEF Agree, Names

LEMMA AgreeNext ==
  ASSUME CopiesRead, IInv, LInv, \A u \in Tabs : CTab(u), Agree, [Next]_vars
  PROVE  Agree'
<1> USE DEF IInv
<1>1. PICK c \in [Ids -> SUBSET Works] : Names(c)
  BY DEF Agree
<1>2. ASSUME \A t \in Tabs : SameTab(t), drafts' = drafts PROVE Agree'
  BY <1>1, <1>2, KeepsNames DEF Names, Agree
<1>3. CASE UNCHANGED vars
  BY <1>2, <1>3 DEF vars, shared, SameTab
<1>4. CASE TimePasses
  BY <1>2, <1>4, TimePassesEffect DEF TimePasses
<1>5. ASSUME NEW t \in Tabs, Settings(t) PROVE Agree'
  BY <1>2, <1>5, SettingsEffect DEF shared
<1>6. ASSUME NEW t \in Tabs, Others(t), drafts' = drafts, NamesTab(t, c)' PROVE Agree'
  BY <1>1, <1>6, KeepsAgree
<1>7. ASSUME NEW t \in Tabs, NEW code \in Codes, Unlock(t, code) PROVE Agree'
  <2>1. /\ Others(t) /\ SameView(t) /\ drafts' = drafts
        /\ \/ loads'[t] = Superseded(t) \cup {NewLoad(TRUE)}
           \/ loads'[t] = Superseded(t)
    BY <1>7, UnlockEffect DEF Unlock, shared
  <2>2. NewLoad(TRUE).id = NoId
    BY NewLoadTyped
  <2>3. NamesTab(t, c)
    BY <1>1 DEF Names
  <2>4. NamesTab(t, c)'
    BY <2>1, <2>2, <2>3, SupersededNames DEF NamesTab, SameView
  <2> QED
    BY <1>6, <2>1, <2>4
<1>8. ASSUME NEW t \in Tabs, LoadStep(t) PROVE Agree'
  BY <1>1, <1>8, LoadStepNames
<1>9. ASSUME NEW t \in Tabs, Use(t) PROVE Agree'
  <2>1. NamesTab(t, c) /\ drafts' = drafts
    BY <1>1, <1>9 DEF Names, Use
  <2>2. Others(t) /\ NamesTab(t, c)'
    BY <1>9, <2>1, UseEffect DEF NamesTab
  <2> QED
    BY <1>6, <2>1, <2>2
<1>10. ASSUME NEW t \in Tabs, Lock(t) PROVE Agree'
  <2>1. NamesTab(t, c) /\ drafts' = drafts
    BY <1>1, <1>10 DEF Names, Lock
  <2>2. Others(t) /\ NamesTab(t, c)'
    BY <1>10, <2>1, LockEffect, SupersededNames DEF NamesTab, Closes
  <2> QED
    BY <1>6, <2>1, <2>2
<1>11. ASSUME NEW t \in Tabs, AutoLock(t) PROVE Agree'
  BY <1>1, <1>11, AutoLockNames
<1>12. ASSUME NEW t \in Tabs, CheckStep(t) PROVE Agree'
  BY <1>1, <1>12, CheckStepNames
<1>13. ASSUME NEW t \in Tabs, Forget(t) PROVE Agree'
  <2>1. NamesTab(t, c)
    BY <1>1 DEF Names
  <2>2. Others(t) /\ NamesTab(t, c)'
    BY <1>13, <2>1, ForgetEffect, SupersededNames DEF NamesTab, Closes
  <2>3. PICK i \in Ids \cup {NoId} : i = session[t].ref
    BY DEF TInv, Sessions
  <2>4. \A j \in Ids : drafts'[j] \in {{}, drafts[j]}
    BY <1>13, <2>3, DraftsLeft DEF Forget
  <2> QED
    BY <1>1, <2>2, <2>4, KeepsAgree
<1>14. ASSUME NEW t \in Tabs, NEW s, NEW lost, LeavePage(t, s, lost) PROVE Agree'
  <2>1. /\ Others(t) /\ app'[t] = NewApp /\ check'[t] = NoCheck
        /\ loads'[t] = {NewLoad(FALSE)}
    BY <1>14, LeavePageEffect
  <2>2. NewLoad(FALSE).id = NoId /\ NewApp.memory = {}
    BY NewLoadTyped DEF NewApp
  <2>3. NamesTab(t, c)' /\ drafts' = drafts
    BY <1>14, <2>1, <2>2 DEF NamesTab, LeavePage, shared
  <2> QED
    BY <1>6, <2>1, <2>3
<1>15. ASSUME NEW t \in Tabs, Reload(t) \/ NewTab(t) PROVE Agree'
  BY <1>14, <1>15 DEF Reload, NewTab
<1> QED
  BY <1>3, <1>4, <1>5, <1>7, <1>8, <1>9, <1>10, <1>11, <1>12, <1>13, <1>15 DEF Next
-----------------------------------------------------------------------------
(* What the steps keep of AllSafe: lemma XSafe is about X.                    *)

\* What is safe in tab t stays there.
Holds(t) == \A w \in Works : w \notin settled' /\ Safe(t, w) => Safe(t, w)'

\* Where another tab refers to a copy that goes, its work is safe in t.
Spares(t) ==
  \A u \in Tabs \ {t} : \A w \in Works :
    w \in Stored(session[u].ref) /\ w \notin settled' =>
      w \in Stored(session[u].ref)' \/ Safe(t, w)'

LEMMA KeepsAllSafe ==
  ASSUME TInv, AllSafe, NEW t \in Tabs, Others(t), Holds(t), Spares(t),
         settled \subseteq settled', \A w \in made' \ made : Safe(t, w)'
  PROVE  AllSafe'
<1> SUFFICES ASSUME NEW w \in made \ settled' PROVE \E u \in Tabs : Safe(u, w)'
  BY DEF AllSafe
<1>1. PICK u \in Tabs : Safe(u, w)
  BY DEF AllSafe
<1>2. w \in Works
  BY DEF TInv
<1>3. CASE u = t
  BY <1>1, <1>2, <1>3 DEF Holds
<1>4. CASE u # t
  <2>1. SameTab(u)
    BY <1>4 DEF Others
  <2>2. InMemory(u)' = InMemory(u) /\ Warns(u)' = Warns(u) /\ Ignorant(u)' = Ignorant(u)
    BY <2>1 DEF SameTab, InMemory, Warns, Ignorant
  <2>3. w \in Stored(session[u].ref) => w \in Stored(session[u].ref)' \/ Safe(t, w)'
    BY <1>2, <1>4 DEF Spares
  <2> QED
    BY <1>1, <2>2, <2>3 DEF Safe
<1> QED
  BY <1>3, <1>4

LEMMA SparesAll ==
  ASSUME NEW t \in Tabs, Others(t), drafts' = drafts
  PROVE  Spares(t)
<1> SUFFICES ASSUME NEW u \in Tabs \ {t} PROVE Stored(session[u].ref)' = Stored(session[u].ref)
  BY DEF Spares
<1> QED
  BY DEF Others, SameTab, Stored

\* Nothing changes for the tab but how far its unlocks are.
LEMMA ViewSafe ==
  ASSUME NEW t \in Tabs, SameView(t), drafts' = drafts,
         Ignorant(t)' => Ignorant(t) \/ Stored(session[t].ref) = {}
  PROVE  Holds(t)
<1>1. InMemory(t)' = InMemory(t) /\ Warns(t)' = Warns(t)
  BY DEF SameView, InMemory, Warns
<1>2. Stored(session[t].ref)' = Stored(session[t].ref)
  BY DEF SameView, Stored
<1> QED
  BY <1>1, <1>2 DEF Holds, Safe

LEMMA ReturnsSafe ==
  ASSUME NEW t \in Tabs, NEW l \in loads[t], SameView(t), drafts' = drafts, Returns(t, l)
  PROVE  Holds(t)
BY ViewSafe DEF Returns, Ignorant

LEMMA GoesOnSafe ==
  ASSUME NEW t \in Tabs, NEW l \in loads[t], SameView(t), drafts' = drafts,
         NEW n, GoesOn(t, l, n),
         n.current /\ n.step \in {"open", "store"} /\ n.stored = {} =>
           Ignorant(t) \/ Stored(session[t].ref) = {}
  PROVE  Holds(t)
BY ViewSafe DEF GoesOn, Ignorant

\* The vault is shown with the copy that was read.
LEMMA ShowsSafe ==
  ASSUME CopiesRead, TInv, KInv, LInv, NEW t \in Tabs, NEW l \in loads[t], CTab(t),
         Shows(t, l), l.current, l.step \in {"open", "store"}, l.stored = {}
  PROVE  Holds(t)
<1>1. InMemory(t) = {}
  <2>1. check[t] = NoCheck /\ ~ app[t].open /\ app[t].memory = {}
    BY PastStart DEF CTab, Reading
  <2> QED
    BY <2>1, OnlyMemory
<1>2. Ignorant(t)
  BY DEF Ignorant
<1> QED
  BY <1>1, <1>2 DEF Holds, Safe

\* The copy that was read is in memory, and the browser warns.
LEMMA KeepsCopySafe ==
  ASSUME TInv, KInv, NEW c, Names(c), NEW t \in Tabs, NEW l \in loads[t], CTab(t),
         KeepsCopy(t, l), l.current, l.step \in {"open", "store"}, l.stored # {}
  PROVE  Holds(t)
<1>1. check[t] = NoCheck /\ InMemory(t) = app[t].memory
  BY PastStart, OnlyMemory
<1>2. InMemory(t) \subseteq l.stored /\ session[t].ref \in {NoId, l.id}
  BY <1>1 DEF CTab, Reading
<1>3. Stored(session[t].ref) \subseteq l.stored
  <2>1. CASE session[t].ref = NoId
    BY <2>1 DEF Stored
  <2>2. CASE session[t].ref # NoId
    <3>1. session[t].ref = l.id /\ session[t].ref \in Ids
      BY <1>2, <2>2 DEF TInv, Sessions
    <3>2. l.stored = c[l.id] /\ drafts[l.id] \in {{}, c[l.id]}
      BY <2>2, <3>1 DEF Names, NamesTab
    <3> QED
      BY <2>2, <3>1, <3>2 DEF Stored
  <2> QED
    BY <2>1, <2>2
<1>4. l.stored \subseteq InMemory(t)' /\ Warns(t)'
  BY DEF KeepsCopy, InMemory, Warns
<1> QED
  BY <1>2, <1>3, <1>4 DEF Holds, Safe

LEMMA RecoversSafe ==
  ASSUME CopiesRead, TInv, KInv, LInv, NEW c, Names(c), NEW t \in Tabs, NEW l \in loads[t],
         CTab(t), Recovers(t, l), l.current, l.step \in {"open", "store"}
  PROVE  Holds(t)
BY ShowsSafe, KeepsCopySafe DEF Recovers

\* A copy is removed from the store: its work is shown, or still in memory.
LEMMA RemovedSafe ==
  ASSUME CopiesRead, TInv, KInv, LInv, NEW c, Names(c), NEW t \in Tabs, NEW l \in loads[t],
         CTab(t), Removed(t, l)
  PROVE  Holds(t) /\ Spares(t)
<1>1. l \in Loads /\ l.step = "remove" /\ settled' = settled /\ Others(t)
  BY RemovedEffect DEF TInv, Removed, work
<1>2. check[t] = NoCheck /\ (l.current => InMemory(t) = app[t].memory)
  BY <1>1, PastStart, OnlyMemory
<1>3. /\ l.stored # {} /\ l.stored \ settled \subseteq InMemory(t)
      /\ l.stored \subseteq settled \/ Warns(t)
      /\ l.current => InMemory(t) = l.stored
      /\ session[t].ref \in {NoId, l.id}
  BY <1>1, <1>2 DEF CTab, Reading, Removing
<1>4. InMemory(t) \ settled \subseteq InMemory(t)' /\ (Warns(t) => Warns(t)')
  <2>1. CASE l.current
    <3>1. app'[t].edits = l.stored /\ check'[t] = NoCheck
      BY <1>2, <2>1, RemovedEffect DEF Shows
    <3> QED
      BY <1>3, <2>1, <3>1 DEF InMemory, Warns
  <2>2. CASE ~ l.current
    <3>1. app'[t] = app[t] /\ check'[t] = check[t]
      BY <2>2, RemovedEffect
    <3> QED
      BY <3>1 DEF InMemory, Warns
  <2> QED
    BY <2>1, <2>2
<1>5. ASSUME NEW w \in l.stored, w \notin settled PROVE Safe(t, w)'
  BY <1>3, <1>4, <1>5 DEF Safe
<1>6. ASSUME NEW i \in Ids, NEW w \in drafts[i], w \notin settled
      PROVE  w \in drafts'[i] \/ Safe(t, w)'
  <2>1. CASE i = l.id
    <3>1. w \in l.stored
      BY <1>3, <1>6, <2>1, BrowserAssumption DEF Names, NamesTab
    <3> QED
      BY <1>5, <1>6, <3>1
  <2>2. CASE i # l.id
    <3>1. PICK j \in Ids \cup {NoId} : j = l.id
      BY <1>1 DEF Loads
    <3>2. drafts' \in DraftsWithout(j)
      BY <3>1 DEF Removed
    <3>3. drafts'[i] = drafts[i]
      BY <2>2, <3>1, <3>2, DraftsLeft
    <3> QED
      BY <1>6, <3>3
  <2> QED
    BY <2>1, <2>2
<1>7. Spares(t)
  <2> SUFFICES ASSUME NEW u \in Tabs \ {t}, NEW w \in Stored(session[u].ref), w \notin settled
               PROVE  w \in Stored(session[u].ref)' \/ Safe(t, w)'
    BY <1>1 DEF Spares
  <2>1. session[u].ref \in Ids /\ w \in drafts[session[u].ref]
    BY DEF Stored, TInv, Sessions
  <2>2. session'[u].ref = session[u].ref
    BY <1>1 DEF Others, SameTab
  <2>3. session[u].ref # NoId
    BY DEF Stored
  <2> QED
    BY <1>6, <2>1, <2>2, <2>3 DEF Stored
<1>8. ASSUME NEW w, w \notin settled, Safe(t, w) PROVE Safe(t, w)'
  <2>1. CASE w \in InMemory(t) /\ Warns(t)
    BY <1>4, <1>8, <2>1 DEF Safe
  <2>2. CASE w \in Stored(session[t].ref)
    <3>1. session[t].ref \in Ids /\ session[t].ref = l.id /\ w \in drafts[l.id]
      BY <1>3, <2>2 DEF Stored, TInv, Sessions
    <3>2. w \in l.stored
      BY <1>3, <3>1, BrowserAssumption DEF Names, NamesTab
    <3> QED
      BY <1>5, <1>8, <3>2
  <2> QED
    BY <1>8, <2>1, <2>2 DEF Safe
<1> QED
  BY <1>1, <1>7, <1>8 DEF Holds

LEMMA LoadStepSafe ==
  ASSUME CopiesRead, TInv, KInv, LInv, NEW c, Names(c), NEW t \in Tabs, CTab(t), LoadStep(t)
  PROVE  Others(t) /\ UNCHANGED work /\ Holds(t) /\ Spares(t)
<1> PICK l \in loads[t] : \/ Start(t, l) \/ ReadCopy(t, l) \/ Opened(t, l)
                          \/ StoreKey(t, l) \/ ClearKey(t, l) \/ Removed(t, l)
  BY DEF LoadStep
<1>1. Steps(l) /\ Reading(t, l) /\ UNCHANGED work
  BY DEF KInv, KTab, CTab, Start, ReadCopy, Opened, StoreKey, ClearKey, Removed
<1>2. ASSUME Others(t), drafts' = drafts PROVE Spares(t)
  BY <1>2, SparesAll
<1>3. CASE Start(t, l)
  <2>1. drafts' = drafts /\ Others(t) /\ SameView(t)
        /\ (Returns(t, l) \/ \E n \in Loads : Keeping(t, l, n) /\ n.step = "read")
    BY <1>3, StartEffect DEF Start
  <2> QED
    BY <1>1, <1>2, <2>1, ReturnsSafe, GoesOnSafe DEF Keeping
<1>4. CASE ReadCopy(t, l)
  <2>1. drafts' = drafts /\ Others(t) /\ SameView(t)
    BY <1>4, ReadCopyEffect DEF ReadCopy, shared
  <2>2. PICK n \in Loads : GoesOn(t, l, n) /\ n.stored = Finds(t)
    BY <1>4, ReadCopyEffect DEF CopiesRead
  <2>3. n.stored = {} => Stored(session[t].ref) = {}
    BY <2>2 DEF Finds
  <2> QED
    BY <1>1, <1>2, <2>1, <2>2, <2>3, GoesOnSafe
<1>5. CASE Opened(t, l)
  <2>1. /\ l.step = "open" /\ l.current /\ drafts' = drafts /\ Others(t)
        /\ \/ SameView(t) /\ \E n \in Loads : Keeping(t, l, n) /\ n.step = "store"
           \/ SameView(t) /\ Returns(t, l)
           \/ Recovers(t, l)
    BY <1>1, <1>5, OpenedEffect DEF Opened, Steps
  <2>2. ASSUME SameView(t), NEW n \in Loads, Keeping(t, l, n) PROVE Holds(t)
    <3>1. GoesOn(t, l, n) /\ (n.stored = {} => Ignorant(t))
      BY <2>1, <2>2 DEF Keeping, Ignorant
    <3> QED
      BY <2>1, <2>2, <3>1, GoesOnSafe
  <2> QED
    BY <1>1, <1>2, <2>1, <2>2, ReturnsSafe, RecoversSafe
<1>6. CASE StoreKey(t, l)
  <2>1. /\ l.step = "store" /\ drafts' = drafts /\ Others(t)
        /\ \/ l.current /\ Recovers(t, l)
           \/ SameView(t) /\ \E n \in Loads : Keeping(t, l, n) /\ n.step = "clear"
    BY <1>6, StoreKeyEffect DEF StoreKey
  <2> QED
    BY <1>1, <1>2, <2>1, RecoversSafe, GoesOnSafe DEF Keeping
<1>7. CASE ClearKey(t, l)
  <2>1. drafts' = drafts /\ Others(t) /\ SameView(t) /\ Returns(t, l)
    BY <1>7, ClearKeyEffect DEF ClearKey
  <2> QED
    BY <1>1, <1>2, <2>1, ReturnsSafe
<1>8. CASE Removed(t, l)
  BY <1>1, <1>8, RemovedSafe, RemovedEffect
<1> QED
  BY <1>3, <1>4, <1>5, <1>6, <1>7, <1>8

\* A tab whose unlocks are superseded, or before their first step, knows what
\* it refers to.
LEMMA NotIgnorant ==
  ASSUME TInv, NEW t \in Tabs, NEW p \in BOOLEAN,
         loads'[t] \subseteq Superseded(t) \cup {NewLoad(p)}
  PROVE  ~ Ignorant(t)'
<1>1. \A l \in Superseded(t) : ~ l.current
  BY SupersededFacts
<1>2. NewLoad(p).step = "start"
  BY NewLoadTyped
<1> QED
  BY <1>1, <1>2 DEF Ignorant

LEMMA UnlockSafe ==
  ASSUME TInv, NEW t \in Tabs, NEW code \in Codes, Unlock(t, code)
  PROVE  Others(t) /\ UNCHANGED work /\ Holds(t) /\ Spares(t)
<1>1. /\ Others(t) /\ SameView(t) /\ drafts' = drafts /\ UNCHANGED work
      /\ loads'[t] \subseteq Superseded(t) \cup {NewLoad(TRUE)}
  BY UnlockEffect DEF Unlock, shared
<1>2. ~ Ignorant(t)'
  BY <1>1, NotIgnorant
<1> QED
  BY <1>1, <1>2, ViewSafe, SparesAll

\* An open vault refers to no copy: its work is what is being edited.
LEMMA OpenSafe ==
  ASSUME KInv, LInv, NEW t \in Tabs, app[t].open, NEW w, Safe(t, w)
  PROVE  w \in app[t].edits
BY OnlyEdits DEF Safe, Stored, LInv, LTab

LEMMA UseSafe ==
  ASSUME TInv, KInv, LInv, NEW t \in Tabs, Use(t)
  PROVE  /\ Others(t) /\ settled \subseteq settled' /\ Holds(t) /\ Spares(t)
         /\ \A w \in made' \ made : Safe(t, w)'
<1>1. /\ app[t].open /\ Others(t) /\ check'[t] = check[t]
      /\ app'[t].memory = app[t].memory
      /\ \/ \E w \in Works : /\ app'[t].edits = app[t].edits \cup {w}
                             /\ made' = made \cup {w} /\ UNCHANGED settled
         \/ /\ app'[t].edits = {}
            /\ settled' = settled \cup app[t].edits /\ UNCHANGED made
  BY UseEffect
<1>2. ASSUME NEW w \in app'[t].edits PROVE Safe(t, w)'
  BY <1>1, <1>2 DEF Safe, InMemory, Warns
<1>3. Holds(t)
  BY <1>1, <1>2, OpenSafe DEF Holds
<1>4. Spares(t)
  BY <1>1, SparesAll DEF Use
<1> QED
  BY <1>1, <1>2, <1>3, <1>4

LEMMA LockSafe ==
  ASSUME TInv, KInv, LInv, NEW t \in Tabs, Lock(t)
  PROVE  /\ Others(t) /\ settled \subseteq settled' /\ made' = made /\ Holds(t) /\ Spares(t)
<1>1. /\ Others(t) /\ Closes(t, session[t].ref) /\ check'[t] = check[t]
      /\ app'[t].edits = {} /\ app'[t].memory = app[t].memory
      /\ app'[t].pending = app[t].pending
  BY LockEffect
<1>2. drafts' = drafts /\ made' = made /\ settled' = settled \cup app[t].edits
  BY DEF Lock
<1>3. ASSUME app[t].open PROVE Holds(t)
  BY <1>2, <1>3, OpenSafe DEF Holds
<1>4. ASSUME ~ app[t].open PROVE Holds(t)
  <2>1. app[t].edits = {}
    BY <1>4 DEF KInv, KTab, Phases
  <2>2. InMemory(t)' = InMemory(t) /\ Warns(t)' = Warns(t)
    BY <1>1, <2>1 DEF InMemory, Warns
  <2>3. Stored(session[t].ref)' = Stored(session[t].ref)
    BY <1>1, <1>2 DEF Stored, Closes
  <2>4. ~ Ignorant(t)'
    BY <1>1, NotIgnorant DEF Closes
  <2> QED
    BY <2>2, <2>3, <2>4 DEF Holds, Safe
<1> QED
  BY <1>1, <1>2, <1>3, <1>4, SparesAll

LEMMA ForgetSafe ==
  ASSUME TInv, KInv, LInv, NEW t \in Tabs, Forget(t)
  PROVE  /\ Others(t) /\ settled \subseteq settled' /\ made' = made /\ Holds(t) /\ Spares(t)
<1>1. app[t].open /\ Others(t)
  BY ForgetEffect
<1>2. made' = made /\ settled \cup app[t].edits \subseteq settled'
  BY DEF Forget
<1>3. drafts' = drafts
  BY <1>1 DEF Forget, LInv, LTab, DraftsWithout
<1>4. Holds(t)
  BY <1>1, <1>2, OpenSafe DEF Holds
<1> QED
  BY <1>1, <1>2, <1>3, <1>4, SparesAll

\* The edits become the copy that is being made, with a warning.
LEMMA AutoLockSafe ==
  ASSUME TInv, KInv, LInv, NEW t \in Tabs, AutoLock(t)
  PROVE  Others(t) /\ UNCHANGED work /\ Holds(t) /\ Spares(t)
<1>1. app[t].open /\ Others(t) /\ AutoLocks(t) /\ UNCHANGED work
  BY AutoLockEffect DEF AutoLock
<1>2. ASSUME app[t].edits = {} PROVE Holds(t) /\ Spares(t)
  BY <1>1, <1>2, OpenSafe, SparesAll DEF AutoLocks, Holds
<1>3. ASSUME app[t].edits # {} PROVE Holds(t) /\ Spares(t)
  <2>1. PICK id \in NewIds(t) :
          /\ drafts' = [drafts EXCEPT ![id] = {}] /\ check'[t].copy = app[t].edits
          /\ check'[t] \in Checks /\ check'[t].step = "seal"
    BY <1>1, <1>3 DEF AutoLocks
  <2>2. check'[t] # NoCheck
    BY <2>1 DEF NoCheck
  <2>3. app'[t].pending
    BY <1>1, <1>3 DEF AutoLocks
  <2>4. ASSUME NEW w \in app[t].edits PROVE Safe(t, w)'
    BY <2>1, <2>2, <2>3 DEF Safe, InMemory, Warns
  <2>5. Spares(t)
    <3> SUFFICES ASSUME NEW u \in Tabs \ {t}
                 PROVE  Stored(session[u].ref)' = Stored(session[u].ref)
      BY DEF Spares
    <3>1. session'[u].ref = session[u].ref /\ session[u].ref # id
      BY <1>1, FreshName DEF Others, SameTab
    <3>2. session[u].ref # NoId => session[u].ref \in Ids
      BY DEF TInv, Sessions
    <3> QED
      BY <2>1, <3>1, <3>2 DEF Stored, TInv
  <2> QED
    BY <1>1, <2>4, <2>5, OpenSafe DEF Holds
<1> QED
  BY <1>1, <1>2, <1>3

\* The copy goes into memory, then into the store under the name the tab refers
\* to; until it can be found there the browser warns.
LEMMA CheckStepSafe ==
  ASSUME TInv, KInv, NEW c, Names(c), NEW t \in Tabs, CTab(t), CheckStep(t)
  PROVE  Others(t) /\ UNCHANGED work /\ Holds(t) /\ Spares(t)
<1>1. UNCHANGED work
  BY DEF CheckStep, Seal, PutDraft, CheckDone
<1>2. /\ check[t] # NoCheck /\ check[t] \in Checks /\ Others(t)
      /\ loads'[t] = loads[t] /\ session'[t] = session[t]
      /\ app'[t].edits = app[t].edits
  BY SealEffect, PutDraftEffect, CheckDoneEffect DEF CheckStep, CheckGoesOn, NoCheck
<1>3. app[t].edits = {} /\ ~ Ignorant(t)'
  BY <1>2 DEF KInv, KTab, Phases, CTab, Checking, Ignorant
<1>4. ASSUME drafts' = drafts, InMemory(t) \subseteq InMemory(t)', Warns(t) => Warns(t)'
      PROVE  Holds(t) /\ Spares(t)
  <2>1. Stored(session[t].ref)' = Stored(session[t].ref)
    BY <1>2, <1>4 DEF Stored
  <2> QED
    BY <1>2, <1>3, <1>4, <2>1, SparesAll DEF Holds, Safe
<1>5. CASE Seal(t)
  <2>1. /\ CheckGoesOn(t, "put") /\ app'[t].memory = check[t].copy /\ drafts' = drafts
        /\ check[t].step = "seal" /\ app'[t].pending = app[t].pending
    BY <1>5, SealEffect DEF Seal, shared
  <2>2. app[t].memory = {}
    BY <1>2, <2>1 DEF CTab, Checking
  <2>3. InMemory(t) \subseteq InMemory(t)' /\ (Warns(t) => Warns(t)')
    BY <1>2, <2>1, <2>2 DEF InMemory, Warns, CheckGoesOn
  <2> QED
    BY <1>1, <1>2, <1>4, <2>1, <2>3
<1>6. CASE PutDraft(t)
  <2>1. /\ check[t].step = "put" /\ CheckGoesOn(t, "clear")
        /\ app'[t].memory = app[t].memory
        /\ \/ /\ drafts' = [drafts EXCEPT ![check[t].id] = check[t].copy]
              /\ app'[t].pending = ~ check[t].durable
           \/ UNCHANGED drafts /\ app'[t].pending = app[t].pending
    BY <1>6, PutDraftEffect
  <2>2. check'[t] # NoCheck /\ check'[t].copy = check[t].copy
    BY <2>1 DEF CheckGoesOn, Checks, NoCheck
  <2>3. InMemory(t)' = InMemory(t)
    BY <1>2, <2>1, <2>2 DEF InMemory
  <2>4. CASE UNCHANGED drafts /\ app'[t].pending = app[t].pending
    BY <1>1, <1>2, <1>4, <2>3, <2>4 DEF Warns
  <2>5. CASE /\ drafts' = [drafts EXCEPT ![check[t].id] = check[t].copy]
             /\ app'[t].pending = ~ check[t].durable
    <3>1. /\ check[t].copy # {} /\ check[t].id \in Ids /\ app[t].memory = check[t].copy
          /\ session[t].ref = IF check[t].durable THEN check[t].id ELSE NoId
      BY <1>2, <2>1 DEF CTab, Checking, Checks
    <3>2. InMemory(t) = check[t].copy
      BY <1>2, <1>3, <3>1 DEF InMemory
    <3>3. PICK i \in Ids : i = check[t].id
      BY <3>1
    <3>4. PICK d : d = check[t].copy
      OBVIOUS
    <3>5. drafts' = [drafts EXCEPT ![i] = d] /\ drafts[i] \subseteq d
      BY <1>2, <2>5, <3>1, <3>3, <3>4, BrowserAssumption DEF Names, NamesTab
    <3>6. \A j \in Ids : drafts[j] \subseteq drafts'[j]
      BY <3>5 DEF TInv
    <3>7. Spares(t)
      BY <1>2, <3>6 DEF Spares, Stored, Others, SameTab, TInv, Sessions
    <3>8. Stored(session[t].ref) \subseteq Stored(session[t].ref)'
      BY <1>2, <3>6 DEF Stored, TInv, Sessions
    <3>9. CASE check[t].durable
      <4>1. session[t].ref = i /\ i # NoId
        BY <3>1, <3>3, <3>9, BrowserAssumption
      <4>2. Stored(session[t].ref)' = d
        BY <1>2, <3>5, <4>1 DEF Stored, TInv
      <4>3. \A w : Safe(t, w) => w \in d
        BY <3>2, <3>4, <3>8, <4>2 DEF Safe
      <4> QED
        BY <1>1, <1>2, <1>3, <3>7, <4>2, <4>3 DEF Holds, Safe
    <3>10. CASE ~ check[t].durable
      <4>1. Warns(t)'
        BY <2>5, <3>10 DEF Warns
      <4> QED
        BY <1>1, <1>2, <1>3, <2>3, <3>7, <3>8, <4>1 DEF Holds, Safe
    <3> QED
      BY <3>9, <3>10
  <2> QED
    BY <2>1, <2>4, <2>5
<1>7. CASE CheckDone(t)
  <2>1. /\ check[t].step = "clear" /\ check'[t] = NoCheck /\ app'[t] = app[t]
        /\ drafts' = drafts
    BY <1>7, CheckDoneEffect DEF CheckDone
  <2>2. check[t].copy \subseteq app[t].memory
    BY <1>2, <2>1 DEF CTab, Checking
  <2>3. InMemory(t) \subseteq InMemory(t)' /\ Warns(t)' = Warns(t)
    BY <1>2, <2>1, <2>2 DEF InMemory, Warns
  <2> QED
    BY <1>1, <1>2, <1>4, <2>1, <2>3
<1> QED
  BY <1>5, <1>6, <1>7 DEF CheckStep

\* What the page alone holds is lost only after a warning; a tab that is closed
\* is the end of what it refers to.
LEMMA LeavePageSafe ==
  ASSUME TInv, NEW t \in Tabs, NEW s, NEW lost, LeavePage(t, s, lost),
         s = session[t] \/ lost = Stored(session[t].ref)
  PROVE  /\ Others(t) /\ settled \subseteq settled' /\ made' = made /\ Holds(t) /\ Spares(t)
<1>1. /\ Others(t) /\ session'[t] = s /\ loads'[t] = {NewLoad(FALSE)}
  BY LeavePageEffect
<1>2. /\ drafts' = drafts /\ made' = made
      /\ settled' = settled \cup lost \cup (IF Warns(t) THEN InMemory(t) ELSE {})
  BY DEF LeavePage, shared
<1>3. ~ Ignorant(t)'
  BY <1>1, NotIgnorant
<1>4. ASSUME NEW w, w \notin settled', Safe(t, w) PROVE Safe(t, w)'
  <2>1. w \in Stored(session[t].ref) /\ w \notin lost
    BY <1>2, <1>4 DEF Safe
  <2>2. Stored(session[t].ref)' = Stored(session[t].ref)
    BY <1>1, <1>2, <2>1 DEF Stored
  <2> QED
    BY <1>3, <2>1, <2>2 DEF Safe
<1> QED
  BY <1>1, <1>2, <1>4, SparesAll DEF Holds

LEMMA AllSafeNext ==
  ASSUME CopiesRead, IInv, LInv, \A u \in Tabs : CTab(u), Agree, AllSafe, [Next]_vars,
         settled \subseteq settled'
  PROVE  AllSafe'
<1> USE DEF IInv
<1>1. PICK c \in [Ids -> SUBSET Works] : Names(c)
  BY DEF Agree
<1>2. ASSUME \A t \in Tabs : SameTab(t), drafts' = drafts, UNCHANGED work PROVE AllSafe'
  <2>1. \A t \in Tabs : /\ InMemory(t)' = InMemory(t) /\ Warns(t)' = Warns(t)
                        /\ Ignorant(t)' = Ignorant(t)
                        /\ Stored(session[t].ref)' = Stored(session[t].ref)
    BY <1>2 DEF SameTab, InMemory, Warns, Ignorant, Stored
  <2> QED
    BY <1>2, <2>1 DEF AllSafe, Safe, work
<1>3. CASE UNCHANGED vars
  BY <1>2, <1>3 DEF vars, shared, SameTab
<1>4. CASE TimePasses
  BY <1>2, <1>4, TimePassesEffect DEF TimePasses
<1>5. ASSUME NEW t \in Tabs, Settings(t) PROVE AllSafe'
  BY <1>2, <1>5, SettingsEffect DEF shared
<1>6. ASSUME NEW t \in Tabs, Use(t) PROVE AllSafe'
  BY <1>6, UseSafe, KeepsAllSafe
<1>7. ASSUME NEW t \in Tabs, Others(t), made' = made, Holds(t), Spares(t) PROVE AllSafe'
  BY <1>7, KeepsAllSafe
<1>8. ASSUME NEW t \in Tabs,
             \/ \E code \in Codes : Unlock(t, code)
             \/ LoadStep(t) \/ Lock(t) \/ AutoLock(t) \/ CheckStep(t) \/ Forget(t)
             \/ Reload(t) \/ NewTab(t)
      PROVE  Others(t) /\ made' = made /\ Holds(t) /\ Spares(t)
  BY <1>1, <1>8, UnlockSafe, LoadStepSafe, LockSafe, AutoLockSafe, CheckStepSafe, ForgetSafe,
     LeavePageSafe DEF Reload, NewTab, work
<1> QED
  BY <1>3, <1>4, <1>5, <1>6, <1>7, <1>8 DEF Next

\* Unsaved work can be recovered: by the warning, by what is in memory or by the
\* copy a tab still refers to, whatever the order of locks, unlocks, reloads and
\* failures of the browser's storage -- where it can read a copy it holds, and
\* answers what a superseded unlock asked before the next lock.
THEOREM RecoverableSafe ==
  ASSUME CopiesRead, StorageInTime
  PROVE  Spec => []UnsavedRecoverable
<1>1. Init => LInv /\ CInv
  BY LInit, CTabInit, AgreeInit DEF CInv, AllSafe, Init
<1>2. IInv /\ LInv /\ CInv /\ [Next]_vars => LInv' /\ CInv'
  BY LNext, CTabNext, AgreeNext, AllSafeNext DEF CInv
<1>3. CInv => UnsavedRecoverable
  BY DEF CInv, AllSafe, Safe, UnsavedRecoverable
<1> QED
  BY <1>1, <1>2, <1>3, AppInvariant, PTL DEF Spec
=============================================================================
