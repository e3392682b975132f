-------------------------- MODULE VaultStore_proofs --------------------------
(***************************************************************************)
(* Proofs about VaultStore, for every value of its constants.  The types   *)
(* hold under all faults; the safety properties where no dropped error     *)
(* hides a failed read or copy, so only stops are left.                    *)
(***************************************************************************)
EXTENDS VaultStore, TLAPS

NoDroppedErrors == Faults \subseteq {"crash"}
-----------------------------------------------------------------------------
(* The inductive invariant *)

\* There is a file wherever one is archived or becomes a version.
FilePresent ==
  /\ meta.version > 0 => kdbx \in Contents
  /\ op.pc = "archive" => meta.version > 0
  /\ op.pc = "meta" => kdbx \in Contents

BeforeCommit == {"conflict", "archive", "kdbx", "meta"}
AfterArchive == {"kdbx", "meta", "prune"}

\* The lock: a writer works on the metadata that is on the disk, and a save
\* that passed the check was given its version.
Serial ==
  /\ op.pc \in BeforeCommit => op.cur = meta
  /\ op.pc \in BeforeCommit \ {"conflict"} /\ op.kind = "save" =>
       op.expected = op.cur.version
  /\ op.pc = "archive" => op.cur.version > 0
  /\ op.pc = "prune" => op.cur.version = meta.version - 1

\* vault.kdbx is the current version, except between the KDBX and the metadata,
\* and after a writer stopped there.
FileIsCurrent ==
  /\ op.pc = "meta" => kdbx = op.data
  /\ op.pc = "prune" => kdbx = committed[meta.version]
  /\ meta.version > 0 /\ op.pc # "meta" /\ meta.version \notin torn =>
       kdbx = committed[meta.version]

\* The copy a writer has taken is the newest snapshot until the writer ends.
ArchiveTaken ==
  op.pc \in AfterArchive /\ op.cur.version > 0 =>
    /\ ArchiveId \in DOMAIN history
    /\ history[ArchiveId].mtime = clock
    /\ \A i \in DOMAIN history \ {ArchiveId} : history[i].mtime < clock
    /\ op.cur.version \notin overwritten =>
         history[ArchiveId].content = committed[op.cur.version]

NoFutureSnapshot == \A i \in DOMAIN history : history[i].mtime <= clock

\* What the writer under way relies on, and what every promise rests on.
Core ==
  /\ TypeOK
  /\ FilePresent
  /\ Serial
  /\ FileIsCurrent
  /\ ArchiveTaken
  /\ NoFutureSnapshot
  /\ LatestNamed
  /\ EnvelopesKept

\* What history and conflicts hold, and what a reader was given.
Promises ==
  /\ HistoryFaithful
  /\ FirstStopRecoverable
  /\ PreviousVersionKept
  /\ RejectedKept
  /\ ReadsCommitted

-----------------------------------------------------------------------------
(* Helpers *)

\* Put changes one entry of a function and keeps the others.
LEMMA PutFacts ==
  ASSUME NEW f, NEW k, NEW v
  PROVE  /\ DOMAIN Put(f, k, v) = DOMAIN f \cup {k}
         /\ Put(f, k, v)[k] = v
         /\ \A i \in DOMAIN f \ {k} : Put(f, k, v)[i] = f[i]
  BY DEF Put

\* Keep drops entries of a function and changes none.
LEMMA KeepFacts ==
  ASSUME NEW f, NEW S
  PROVE  /\ DOMAIN Keep(f, S) = DOMAIN f \cap S
         /\ \A i \in DOMAIN f \cap S : Keep(f, S)[i] = f[i]
  BY DEF Keep

\* Neither takes a typed function out of its type.
LEMMA PutTyped ==
  ASSUME NEW f, NEW D, NEW R, NEW k \in D, NEW v \in R,
         DOMAIN f \subseteq D, \A i \in DOMAIN f : f[i] \in R
  PROVE  /\ DOMAIN Put(f, k, v) \subseteq D
         /\ \A i \in DOMAIN Put(f, k, v) : Put(f, k, v)[i] \in R
  BY DEF Put

\* Dropping entries keeps what is left within the same type.
LEMMA KeepTyped ==
  ASSUME NEW f, NEW D, NEW R, NEW S,
         DOMAIN f \subseteq D, \A i \in DOMAIN f : f[i] \in R
  PROVE  /\ DOMAIN Keep(f, S) \subseteq D
         /\ \A i \in DOMAIN Keep(f, S) : Keep(f, S)[i] \in R
  BY DEF Keep

\* UpdatedAt.Unix() of a time stamp is a number of seconds.
LEMMA SecondsAreNat ==
  ASSUME NEW t \in Nat
  PROVE  t \div Second \in Nat
  BY BoundsAssumption

\* The name of an archive copy is a snapshot name.
LEMMA ArchiveIdType ==
  ASSUME op \in Writers
  PROVE  ArchiveId \in HistoryIds
<1>1. op.cur \in Metas /\ op.kind \in {"save", "rollback"}
  BY DEF Writers
<1>2. op.cur.stamp \in Nat /\ op.cur.version \in Nat
  BY <1>1 DEF Metas
<1>3. op.cur.stamp \div Second \in Nat
  BY <1>2, SecondsAreNat
<1> QED
  BY <1>1, <1>2, <1>3 DEF ArchiveId, HistoryIds

\* A writer at one of its steps is not Idle.
LEMMA WriterAtWork ==
  ASSUME op \in Writers \cup {Idle}, op.pc # "idle"
  PROVE  op \in Writers /\ op # Idle
  BY DEF Idle

\* Moving a writer to another step changes nothing else of it.
LEMMA NextStep ==
  ASSUME NEW w \in Writers, NEW s \in Steps
  PROVE  /\ [w EXCEPT !.pc = s] \in Writers
         /\ [w EXCEPT !.pc = s].pc = s
         /\ [w EXCEPT !.pc = s].kind = w.kind
         /\ [w EXCEPT !.pc = s].expected = w.expected
         /\ [w EXCEPT !.pc = s].data = w.data
         /\ [w EXCEPT !.pc = s].cur = w.cur
  BY DEF Writers

-----------------------------------------------------------------------------
(* Types *)

TInv == TypeOK /\ FilePresent

\* A snapshot of well-typed content keeps history well-typed.
LEMMA ArchiveTyped ==
  ASSUME TypeOK, op \in Writers, NEW x \in Contents
  PROVE  LET h == Put(history, ArchiveId, [content |-> x, mtime |-> clock + 1])
         IN  DOMAIN h \subseteq HistoryIds /\ \A i \in DOMAIN h : h[i] \in Snapshots
<1>1. [content |-> x, mtime |-> clock + 1] \in Snapshots
  BY DEF TypeOK, Snapshots
<1>2. ArchiveId \in HistoryIds
  BY ArchiveIdType
<1>3. DOMAIN history \subseteq HistoryIds /\ \A i \in DOMAIN history : history[i] \in Snapshots
  BY DEF TypeOK
<1> QED
  BY <1>1, <1>2, <1>3, PutTyped

\* What a writer reads as the current metadata is metadata of the disk, or the
\* zero value.
LEMMA ReadMetaTyped ==
  ASSUME TypeOK, NEW cur \in ReadMeta
  PROVE  /\ cur \in Metas
         /\ cur = meta \/ cur = NoMeta
         /\ cur.version > 0 => meta.version > 0
<1>1. NoMeta \in Metas /\ NoMeta.version = 0
  BY DEF NoMeta, Metas
<1>2. cur = meta \/ cur = NoMeta
  BY DEF ReadMeta
<1> QED
  BY <1>1, <1>2 DEF TypeOK

\* A store never used is well-typed, and no file of it is missing.
LEMMA TInvInit == Init => TInv
<1> SUFFICES ASSUME Init PROVE TInv
  OBVIOUS
<1>1. DOMAIN history = {} /\ DOMAIN conflicts = {} /\ DOMAIN rejected = {}
  BY DEF Init
<1>2. NoMeta \in Metas /\ NoMeta.version = 0
  BY DEF NoMeta, Metas
<1>3. << >> \in Seq(Contents)
  OBVIOUS
<1>4. NoRead \in [by : {"nobody", "OpenVault", "Snapshot"}, version : Nat,
                  content : Contents \cup {None}]
  BY DEF NoRead
<1>5. Idle.pc = "idle"
  BY DEF Idle
<1> QED
  BY <1>1, <1>2, <1>3, <1>4, <1>5 DEF Init, TInv, TypeOK, FilePresent

\* A rewrite of the envelopes keeps the types.
LEMMA RewriteTyped ==
  ASSUME TInv, LockFree, NEW cur \in ReadMeta, NEW devs \in SUBSET Devices,
         RewriteEnvelopes(cur, devs), granted' \subseteq Devices
  PROVE  TInv'
<1>1. cur \in Metas /\ (cur.version > 0 => meta.version > 0)
  BY ReadMetaTyped DEF TInv
<1>2. meta' = [cur EXCEPT !.devs = devs, !.stamp = clock] /\ clock \in Nat
  BY DEF RewriteEnvelopes, TInv, TypeOK
<1>3. meta' \in Metas /\ meta'.version = cur.version
  BY <1>1, <1>2 DEF Metas
<1>4. TypeOK'
  BY <1>3 DEF TInv, TypeOK, RewriteEnvelopes
<1>5. op' = op /\ op.pc = "idle"
  BY DEF RewriteEnvelopes, LockFree, Idle
<1> QED
  BY <1>1, <1>3, <1>4, <1>5 DEF TInv, FilePresent, RewriteEnvelopes

\* Every step keeps the types and never takes a file away that a later
\* step of the same writer relies on.
LEMMA TInvNext == TInv /\ [Next]_vars => TInv'
<1> SUFFICES ASSUME TInv, [Next]_vars PROVE TInv'
  OBVIOUS
<1> USE DEF TInv
<1>1. ASSUME NEW b \in Blobs, NEW e \in 0..MaxVersion, BeginSave(b, e)
      PROVE  TInv'
  <2>1. PICK cur \in ReadMeta :
          op' = [pc |-> IF Conflicting(e, cur) THEN "conflict" ELSE AfterCheck(cur),
                 kind |-> "save", expected |-> e, data |-> b, cur |-> cur]
    BY <1>1 DEF BeginSave
  <2>2. cur \in Metas /\ (cur.version > 0 => meta.version > 0)
    BY ReadMetaTyped
  <2>3. op'.pc \in {"conflict", "archive", "kdbx"}
        /\ (op'.pc = "archive" => cur.version > 0)
    BY <2>1 DEF AfterCheck, HasArchive
  <2>4. op' \in Writers
    BY <2>1, <2>2, <2>3 DEF Writers, Steps, Contents
  <2>5. TypeOK'
    BY <1>1, <2>4 DEF TypeOK, BeginSave, disk, told
  <2> QED
    BY <1>1, <2>2, <2>3, <2>5 DEF FilePresent, BeginSave, disk, told
<1>2. ASSUME NEW id \in DOMAIN history, BeginRestore(id)
      PROVE  TInv'
  <2>1. PICK cur \in ReadMeta :
          op' = [pc |-> AfterCheck(cur), kind |-> "rollback",
                 expected |-> cur.version, data |-> RestoredData(id), cur |-> cur]
    BY <1>2 DEF BeginRestore
  <2>2. cur \in Metas /\ (cur.version > 0 => meta.version > 0)
    BY ReadMetaTyped
  <2>3. op'.pc \in {"archive", "kdbx"} /\ (op'.pc = "archive" => cur.version > 0)
    BY <2>1 DEF AfterCheck, HasArchive
  <2>4. RestoredData(id) \in Contents
    BY DEF RestoredData, TypeOK, Snapshots
  <2>5. op' \in Writers
    BY <2>1, <2>2, <2>3, <2>4 DEF Writers, Steps, Metas
  <2>6. TypeOK'
    BY <1>2, <2>5 DEF TypeOK, BeginRestore, disk, told
  <2> QED
    BY <1>2, <2>2, <2>3, <2>6 DEF FilePresent, BeginRestore, disk, told
<1>3. CASE WriteConflict
  <2>1. op \in Writers
    BY <1>3, WriterAtWork DEF WriteConflict, TypeOK
  <2>2. op.data \in Contents
    BY <2>1 DEF Writers
  <2>3. PICK id \in FreeConflictIds :
          /\ rejected' = Put(rejected, id, op.data)
          /\ conflicts' = Put(conflicts, id, op.data) \/ conflicts' = conflicts
    BY <1>3 DEF WriteConflict
  <2>4. id \in ConflictIds
    BY DEF FreeConflictIds
  <2>5. DOMAIN rejected' \subseteq ConflictIds
        /\ \A i \in DOMAIN rejected' : rejected'[i] \in Contents
    BY <2>2, <2>3, <2>4, PutTyped DEF TypeOK
  <2>6. DOMAIN conflicts' \subseteq ConflictIds
        /\ \A i \in DOMAIN conflicts' : conflicts'[i] \in Contents
    <3>1. CASE conflicts' = conflicts
      BY <3>1 DEF TypeOK
    <3>2. CASE conflicts' = Put(conflicts, id, op.data)
      BY <2>2, <2>4, <3>2, PutTyped DEF TypeOK
    <3> QED
      BY <2>3, <3>1, <3>2
  <2>7. TypeOK'
    BY <1>3, <2>5, <2>6 DEF TypeOK, WriteConflict
  <2> QED
    BY <1>3, <2>7 DEF FilePresent, WriteConflict, Idle
<1>4. CASE Archive
  <2>1. op \in Writers /\ kdbx \in Contents
    BY <1>4, WriterAtWork DEF Archive, TypeOK, FilePresent
  <2>2. DOMAIN history' \subseteq HistoryIds
        /\ \A i \in DOMAIN history' : history'[i] \in Snapshots
    BY <1>4, <2>1, ArchiveTyped DEF Archive, TypeOK
  <2>3. op.cur.version \in Nat
    BY <2>1 DEF Writers, Metas
  <2>4. overwritten' \subseteq Nat
    BY <1>4, <2>3 DEF Archive, NotedOverwrite, TypeOK
  <2>5. op' \in Writers /\ op'.pc = "kdbx"
    BY <1>4, <2>1, NextStep DEF Archive, Steps
  <2>6. TypeOK'
    BY <1>4, <2>2, <2>4, <2>5 DEF TypeOK, Archive
  <2> QED
    BY <1>4, <2>5, <2>6 DEF FilePresent, Archive
<1>5. CASE WriteKdbx
  <2>1. op \in Writers
    BY <1>5, WriterAtWork DEF WriteKdbx, TypeOK
  <2>2. op' \in Writers /\ op'.pc = "meta" /\ kdbx' \in Contents
    BY <1>5, <2>1, NextStep DEF WriteKdbx, Steps, Writers
  <2>3. TypeOK'
    BY <1>5, <2>2 DEF TypeOK, WriteKdbx, told
  <2> QED
    BY <1>5, <2>2, <2>3 DEF FilePresent, WriteKdbx
<1>6. CASE SaveMetadata
  <2>1. op \in Writers
    BY <1>6, WriterAtWork DEF SaveMetadata, TypeOK
  <2>2. op.cur \in Metas /\ op.data \in Contents
    BY <2>1 DEF Writers
  <2>3. meta' \in Metas
    BY <1>6, <2>2 DEF SaveMetadata, NewVersion, Metas, TypeOK
  <2>4. op' \in Writers /\ op'.pc = "prune"
    BY <1>6, <2>1, NextStep DEF SaveMetadata, Steps
  <2>5. committed' \in Seq(Contents)
    BY <1>6, <2>2 DEF SaveMetadata, TypeOK
  <2>6. TypeOK'
    BY <1>6, <2>3, <2>4, <2>5 DEF TypeOK, SaveMetadata
  <2> QED
    BY <1>6, <2>4, <2>6 DEF FilePresent, SaveMetadata
<1>7. CASE Prune
  <2>1. PICK S : history' = Keep(history, S)
    BY <1>7 DEF Prune
  <2>2. DOMAIN history' \subseteq HistoryIds
        /\ \A i \in DOMAIN history' : history'[i] \in Snapshots
    BY <2>1, KeepTyped DEF TypeOK
  <2>3. op' = op \/ op' = Idle
    BY <1>7 DEF Prune
  <2>4. TypeOK'
    BY <1>7, <2>2, <2>3 DEF TypeOK, Prune, told
  <2> QED
    BY <1>7, <2>3, <2>4 DEF FilePresent, Prune, Idle
<1>8. CASE Stop
  <2>1. torn' \subseteq Nat
    BY <1>8 DEF Stop, TypeOK, Metas
  <2>2. TypeOK'
    BY <1>8, <2>1 DEF TypeOK, Stop, disk
  <2> QED
    BY <1>8, <2>2 DEF FilePresent, Stop, disk, Idle
<1>9. CASE StopInCopy
  <2>1. op' = Idle /\ op'.pc = "idle" /\ kdbx' = kdbx /\ meta' = meta
    BY <1>9 DEF StopInCopy, Idle
  <2>2. CASE op.pc = "archive"
    <3>1. op \in Writers /\ Partial \in Contents
      BY <2>2, WriterAtWork DEF TypeOK, Contents
    <3>2. DOMAIN history' \subseteq HistoryIds
          /\ \A i \in DOMAIN history' : history'[i] \in Snapshots
      BY <1>9, <2>2, <3>1, ArchiveTyped DEF StopInCopy
    <3>3. op.cur.version \in Nat
      BY <3>1 DEF Writers, Metas
    <3>4. overwritten' \subseteq Nat
      BY <1>9, <2>2, <3>3 DEF StopInCopy, NotedOverwrite, TypeOK
    <3>5. TypeOK'
      BY <1>9, <2>1, <2>2, <3>2, <3>4 DEF TypeOK, StopInCopy
    <3> QED
      BY <2>1, <3>5 DEF FilePresent
  <2>3. CASE op.pc = "conflict"
    <3>1. PICK id \in FreeConflictIds : conflicts' = Put(conflicts, id, Partial)
      BY <1>9, <2>3 DEF StopInCopy
    <3>2. id \in ConflictIds /\ Partial \in Contents
      BY DEF FreeConflictIds, Contents
    <3>3. DOMAIN conflicts' \subseteq ConflictIds
          /\ \A i \in DOMAIN conflicts' : conflicts'[i] \in Contents
      BY <3>1, <3>2, PutTyped DEF TypeOK
    <3>4. TypeOK'
      BY <1>9, <2>1, <2>3, <3>3 DEF TypeOK, StopInCopy
    <3> QED
      BY <2>1, <3>4 DEF FilePresent
  <2> QED
    BY <1>9, <2>2, <2>3 DEF StopInCopy
<1>10. ASSUME NEW d \in Devices, SetDeviceEnvelope(d) \/ RemoveDeviceEnvelope(d)
       PROVE  TInv'
  <2>1. CASE SetDeviceEnvelope(d)
    <3>1. PICK cur \in ReadMeta : RewriteEnvelopes(cur, cur.devs \cup {d})
      BY <2>1 DEF SetDeviceEnvelope
    <3>2. cur.devs \cup {d} \in SUBSET Devices
      BY ReadMetaTyped DEF Metas
    <3>3. LockFree /\ granted' \subseteq Devices
      BY <2>1 DEF SetDeviceEnvelope, TypeOK
    <3> QED
      BY <3>1, <3>2, <3>3, RewriteTyped
  <2>2. CASE RemoveDeviceEnvelope(d)
    <3>1. meta \in ReadMeta /\ meta.devs \ {d} \in SUBSET Devices
      BY DEF ReadMeta, TypeOK, Metas
    <3>2. LockFree /\ granted' \subseteq Devices
      BY <2>2 DEF RemoveDeviceEnvelope, TypeOK
    <3>3. RewriteEnvelopes(meta, meta.devs \ {d})
      BY <2>2 DEF RemoveDeviceEnvelope
    <3> QED
      BY <3>1, <3>2, <3>3, RewriteTyped
  <2> QED
    BY <1>10, <2>1, <2>2
<1>11. CASE SaveEnvelopes
  <2>1. PICK cur \in ReadMeta, devs \in SUBSET Devices :
          RewriteEnvelopes(cur, devs) /\ granted' \in {granted, devs}
    <3>1. \A cur \in ReadMeta : cur.devs \in SUBSET Devices
      BY ReadMetaTyped DEF Metas
    <3> QED
      BY <1>11, <3>1 DEF SaveEnvelopes
  <2>2. LockFree /\ granted' \subseteq Devices
    BY <1>11, <2>1 DEF SaveEnvelopes, TypeOK
  <2> QED
    BY <2>1, <2>2, RewriteTyped
<1>12. ASSUME NEW id \in ConflictIds, DiscardConflict(id)
       PROVE  TInv'
  <2>1. /\ DOMAIN conflicts' \subseteq ConflictIds
        /\ \A i \in DOMAIN conflicts' : conflicts'[i] \in Contents
    BY <1>12, KeepTyped DEF DiscardConflict, TypeOK
  <2>2. /\ DOMAIN rejected' \subseteq ConflictIds
        /\ \A i \in DOMAIN rejected' : rejected'[i] \in Contents
    BY <1>12, KeepTyped DEF DiscardConflict, TypeOK
  <2>3. TypeOK'
    BY <1>12, <2>1, <2>2 DEF TypeOK, DiscardConflict
  <2> QED
    BY <1>12, <2>3 DEF FilePresent, DiscardConflict
<1>13. CASE OpenVault \/ Snapshot
  <2>1. PICK by \in {"OpenVault", "Snapshot"} : Read(by)
    BY <1>13 DEF OpenVault, Snapshot
  <2>2. seen' \in [by : {"nobody", "OpenVault", "Snapshot"}, version : Nat,
                   content : Contents \cup {None}]
    BY <2>1 DEF Read, TypeOK, Metas
  <2>3. TypeOK'
    BY <2>1, <2>2 DEF TypeOK, Read, disk
  <2> QED
    BY <2>1, <2>3 DEF FilePresent, Read, disk
<1>14. CASE Tick
  <2>1. clock' \in Nat
    BY <1>14 DEF Tick, TypeOK
  <2>2. TypeOK'
    BY <1>14, <2>1 DEF TypeOK, Tick, disk, told
  <2> QED
    BY <1>14, <2>2 DEF FilePresent, Tick, disk
<1>15. CASE UNCHANGED vars
  <2>1. TypeOK'
    BY <1>15 DEF vars, disk, told, TypeOK
  <2> QED
    BY <1>15, <2>1 DEF vars, disk, FilePresent
<1> QED
  BY <1>1, <1>2, <1>3, <1>4, <1>5, <1>6, <1>7, <1>8, <1>9, <1>10, <1>11,
     <1>12, <1>13, <1>14, <1>15 DEF Next

\* The files and the book-keeping are well-formed in every reachable state,
\* dropped errors included: no step archives or commits a file that is absent.
THEOREM TypeCorrect == Spec => []TypeOK
<1>1. TInv => TypeOK
  BY DEF TInv
<1> QED
  BY <1>1, TInvInit, TInvNext, PTL DEF Spec
-----------------------------------------------------------------------------
(* The writer under way *)

Begin ==
  \/ \E b \in Blobs, e \in 0..MaxVersion : BeginSave(b, e)
  \/ \E id \in DOMAIN history : BeginRestore(id)

ChangeEnvelopes ==
  \/ \E d \in Devices : SetDeviceEnvelope(d) \/ RemoveDeviceEnvelope(d)
  \/ SaveEnvelopes

\* A writer starts from the metadata on the disk; it archives the version it
\* finds, and goes on without archiving only where there is none.
LEMMA BeginStep ==
  ASSUME NoDroppedErrors, TypeOK, Begin
  PROVE  /\ UNCHANGED <<kdbx, meta, history, conflicts, clock, committed, torn,
                        overwritten, rejected, granted, seen>>
         /\ op'.cur = meta
         /\ op'.pc \in {"conflict", "archive", "kdbx"}
         /\ op'.pc = "archive" => meta.version > 0
         /\ op'.pc = "kdbx" => meta.version = 0
         /\ op'.pc # "conflict" /\ op'.kind = "save" => op'.expected = meta.version
<1>1. \A cur \in ReadMeta : cur = meta
  BY DEF NoDroppedErrors, ReadMeta
<1>2. meta.version \in Nat
  BY DEF TypeOK, Metas
<1>3. ASSUME NEW b \in Blobs, NEW e \in 0..MaxVersion, BeginSave(b, e)
      PROVE  /\ op' = [pc |-> IF e # meta.version THEN "conflict" ELSE AfterCheck(meta),
                       kind |-> "save", expected |-> e, data |-> b, cur |-> meta]
             /\ UNCHANGED <<disk, clock, told>>
  BY <1>1, <1>3 DEF BeginSave, Conflicting
<1>4. ASSUME NEW id \in DOMAIN history, BeginRestore(id)
      PROVE  /\ op' = [pc |-> AfterCheck(meta), kind |-> "rollback",
                       expected |-> meta.version, data |-> RestoredData(id), cur |-> meta]
             /\ UNCHANGED <<disk, clock, told>>
  BY <1>1, <1>4 DEF BeginRestore
<1>5. CASE \E b \in Blobs, e \in 0..MaxVersion : BeginSave(b, e)
  BY <1>2, <1>3, <1>5 DEF AfterCheck, HasArchive, disk, told
<1>6. CASE \E id \in DOMAIN history : BeginRestore(id)
  BY <1>2, <1>4, <1>6 DEF AfterCheck, HasArchive, disk, told
<1> QED
  BY <1>5, <1>6 DEF Begin

\* Changing envelopes touches nothing of the metadata but the envelopes and the
\* time stamp, and nothing else on the disk.
LEMMA EnvelopeStep ==
  ASSUME NoDroppedErrors, TypeOK, EnvelopesKept, ChangeEnvelopes
  PROVE  /\ op.pc = "idle"
         /\ UNCHANGED <<kdbx, history, conflicts, clock, op, committed, torn,
                        overwritten, rejected, seen>>
         /\ meta'.version = meta.version
         /\ meta'.sum = meta.sum
         /\ meta'.devs = granted'
<1>1. \A cur \in ReadMeta : cur = meta
  BY DEF NoDroppedErrors, ReadMeta
<1>2. \E devs : /\ RewriteEnvelopes(meta, devs)
                /\ granted' = devs
                /\ LockFree
  BY <1>1 DEF ChangeEnvelopes, SetDeviceEnvelope, RemoveDeviceEnvelope,
              SaveEnvelopes, EnvelopesKept
<1>3. PICK devs : RewriteEnvelopes(meta, devs) /\ granted' = devs
  BY <1>2
<1>4. /\ meta'.version = meta.version /\ meta'.sum = meta.sum /\ meta'.devs = devs
  BY <1>3 DEF RewriteEnvelopes, TypeOK, Metas
<1> QED
  BY <1>2, <1>3, <1>4 DEF RewriteEnvelopes, LockFree, Idle

\* A commit appends one version and leaves the earlier ones as they are.
LEMMA CommitStep ==
  ASSUME Core, SaveMetadata
  PROVE  /\ meta'.version = meta.version + 1
         /\ meta'.sum = op.data
         /\ meta'.devs = meta.devs
         /\ meta.version \in Nat
         /\ Len(committed') = meta'.version
         /\ committed'[meta'.version] = op.data
         /\ \A v \in 1..meta.version : committed'[v] = committed[v]
         /\ kdbx = op.data
         /\ op.cur = meta
<1>1. op.cur = meta /\ kdbx = op.data
  BY DEF Core, Serial, FileIsCurrent, SaveMetadata, BeforeCommit
<1>2. meta.version \in Nat /\ committed \in Seq(Contents) /\ Len(committed) = meta.version
  BY DEF Core, TypeOK, Metas, LatestNamed
<1>3. op.data \in Contents
  BY <1>1 DEF Core, FilePresent, SaveMetadata
<1>4. /\ meta' = [version |-> meta.version + 1, sum |-> op.data, stamp |-> clock,
                  devs |-> meta.devs]
      /\ committed' = Append(committed, op.data)
  BY <1>1 DEF SaveMetadata, NewVersion
<1> QED
  BY <1>1, <1>2, <1>3, <1>4

\* The copy taken by Archive, and what the books then say of the version.
LEMMA ArchiveStep ==
  ASSUME NoDroppedErrors, Core, Archive
  PROVE  /\ op.cur = meta
         /\ meta.version \in Nat /\ meta.version > 0
         /\ clock \in Nat /\ clock' = clock + 1
         /\ DOMAIN history' = DOMAIN history \cup {ArchiveId}
         /\ history'[ArchiveId] = [content |-> kdbx, mtime |-> clock']
         /\ \A i \in DOMAIN history \ {ArchiveId} : history'[i] = history[i]
         /\ ArchiveId.version = meta.version
         /\ ArchiveId' = ArchiveId
         /\ overwritten \subseteq overwritten'
         /\ meta.version \notin overwritten' => kdbx = committed[meta.version]
<1>1. op.cur = meta /\ op.cur.version > 0
  BY DEF Core, Serial, Archive, BeforeCommit
<1>2. meta.version \in Nat /\ clock \in Nat
  BY DEF Core, TypeOK, Metas
<1>3. op \in Writers
  BY WriterAtWork DEF Core, TypeOK, Archive
<1>4. history' = Put(history, ArchiveId, [content |-> kdbx, mtime |-> clock + 1])
  BY DEF NoDroppedErrors, Archive
<1>5. op'.cur = op.cur /\ op'.kind = op.kind
  BY <1>3, NextStep DEF Archive, Steps
<1>6. ArchiveId' = ArchiveId /\ ArchiveId.version = meta.version
  BY <1>1, <1>5 DEF ArchiveId
<1>7. /\ overwritten \subseteq overwritten'
      /\ meta.version \notin overwritten' => kdbx = committed[meta.version]
  BY <1>1 DEF Archive, NotedOverwrite
<1>8. /\ DOMAIN history' = DOMAIN history \cup {ArchiveId}
      /\ history'[ArchiveId] = [content |-> kdbx, mtime |-> clock + 1]
      /\ \A i \in DOMAIN history \ {ArchiveId} : history'[i] = history[i]
  BY <1>4 DEF Put
<1> QED
  BY <1>1, <1>2, <1>6, <1>7, <1>8 DEF Archive

\* Pruning removes snapshots and changes none; the newest one stays.
LEMMA PruneStep ==
  ASSUME Core, Prune
  PROVE  /\ UNCHANGED <<kdbx, meta, conflicts, clock, committed, torn,
                        overwritten, rejected, granted, seen>>
         /\ op' = op \/ op' = Idle
         /\ DOMAIN history' \subseteq DOMAIN history
         /\ \A i \in DOMAIN history' : history'[i] = history[i]
         /\ op.cur.version > 0 =>
              ArchiveId \in DOMAIN history' /\ ArchiveId \in DOMAIN history
<1>1. /\ DOMAIN history' \subseteq DOMAIN history
      /\ \A i \in DOMAIN history' : history'[i] = history[i]
  BY DEF Prune, Keep
<1>2. ASSUME op.cur.version > 0
      PROVE  ArchiveId \in DOMAIN history' /\ ArchiveId \in DOMAIN history
  <2>1. /\ ArchiveId \in DOMAIN history
        /\ history[ArchiveId].mtime = clock
        /\ \A i \in DOMAIN history \ {ArchiveId} : history[i].mtime < clock
    BY <1>2 DEF Core, ArchiveTaken, AfterArchive, Prune
  <2>2. clock \in Nat /\ Retention \in Nat
    BY BoundsAssumption DEF Core, TypeOK
  <2>3. ArchiveId \in Fresh
    BY <2>1, <2>2 DEF Fresh
  <2>4. ArchiveId \notin Interior(Fresh)
    <3>1. Newer(ArchiveId, Fresh) = {}
      BY <2>1, <2>2 DEF Newer, Fresh, Core, TypeOK, Snapshots
    <3> QED
      BY <3>1 DEF Interior
  <2>5. ArchiveId \notin Thinnable(Fresh)
    BY <2>4 DEF Thinnable
  <2>6. \/ history' = Keep(history, Fresh)
        \/ \E i \in Thinnable(Fresh) : history' = Keep(history, Fresh \ {i})
    BY DEF Prune
  <2>7. CASE history' = Keep(history, Fresh)
    BY <2>1, <2>3, <2>7 DEF Keep
  <2>8. CASE \E i \in Thinnable(Fresh) : history' = Keep(history, Fresh \ {i})
    BY <2>1, <2>3, <2>5, <2>8 DEF Keep
  <2> QED
    BY <2>1, <2>6, <2>7, <2>8
<1> QED
  BY <1>1, <1>2 DEF Prune, told

\* What the books say of a store never used: no version, no file.
LEMMA CoreInit == Init => Core
<1> SUFFICES ASSUME Init PROVE Core
  OBVIOUS
<1>1. Idle.pc = "idle" /\ op = Idle
  BY DEF Idle, Init
<1>2. meta.version = 0 /\ meta.devs = {} /\ Len(committed) = 0
  BY DEF Init, NoMeta
<1>3. DOMAIN history = {}
  BY DEF Init
<1>4. Serial /\ FileIsCurrent /\ ArchiveTaken /\ NoFutureSnapshot
  BY <1>1, <1>2, <1>3 DEF Serial, FileIsCurrent, ArchiveTaken, NoFutureSnapshot,
                          BeforeCommit, AfterArchive
<1>5. LatestNamed /\ EnvelopesKept
  BY <1>2 DEF Init, LatestNamed, EnvelopesKept
<1> QED
  BY <1>4, <1>5, TInvInit DEF Core, TInv

\* Every step keeps the core: who holds the lock, which version the files
\* are, and that the file about to be replaced has been copied.
LEMMA CoreNext ==
  ASSUME NoDroppedErrors, Core, [Next]_vars
  PROVE  Core'
<1>1. TInv'
  BY TInvNext DEF Core, TInv
<1>2. ASSUME Serial', FileIsCurrent', ArchiveTaken', NoFutureSnapshot', LatestNamed',
             EnvelopesKept'
      PROVE  Core'
  BY <1>1, <1>2 DEF Core, TInv
<1>3. /\ TypeOK /\ FilePresent /\ Serial /\ FileIsCurrent /\ ArchiveTaken
      /\ NoFutureSnapshot /\ LatestNamed /\ EnvelopesKept
  BY DEF Core
<1>4. /\ meta.version \in Nat /\ clock \in Nat
      /\ \A i \in DOMAIN history : history[i].mtime \in Nat
  BY <1>3 DEF TypeOK, Metas, Snapshots
<1> DEFINE MetaSame == UNCHANGED <<kdbx, meta, committed, granted>>
<1>5. MetaSame => LatestNamed' /\ EnvelopesKept'
  BY <1>3 DEF LatestNamed, EnvelopesKept
<1>6. ASSUME op' = Idle, kdbx' = kdbx, committed' = committed, torn \subseteq torn',
             meta'.version = meta.version, op.pc = "meta" => meta.version \in torn'
      PROVE  Serial' /\ FileIsCurrent' /\ ArchiveTaken'
  <2>1. op'.pc = "idle"
    BY <1>6 DEF Idle
  <2>2. Serial' /\ ArchiveTaken'
    BY <2>1 DEF Serial, ArchiveTaken, BeforeCommit, AfterArchive
  <2>3. FileIsCurrent'
    BY <1>3, <1>6, <2>1 DEF FileIsCurrent
  <2> QED
    BY <2>2, <2>3
<1>7. CASE Begin
  <2>1. Serial'
    BY <1>3, <1>7, BeginStep DEF Serial, BeforeCommit
  <2>2. FileIsCurrent'
    <3>1. op.pc = "idle"
      BY <1>7 DEF Begin, BeginSave, BeginRestore, LockFree, Idle
    <3> QED
      BY <1>3, <1>7, <3>1, BeginStep DEF FileIsCurrent
  <2>3. ArchiveTaken'
    BY <1>3, <1>7, BeginStep DEF ArchiveTaken, AfterArchive
  <2>4. NoFutureSnapshot'
    BY <1>3, <1>7, BeginStep DEF NoFutureSnapshot
  <2> QED
    BY <1>2, <1>3, <1>5, <1>7, <2>1, <2>2, <2>3, <2>4, BeginStep
<1>8. CASE WriteConflict
  <2>1. NoFutureSnapshot'
    BY <1>3, <1>8 DEF NoFutureSnapshot, WriteConflict
  <2> QED
    BY <1>2, <1>5, <1>6, <1>8, <2>1 DEF WriteConflict
<1>9. CASE Archive
  <2>1. op \in Writers
    BY <1>3, <1>9, WriterAtWork DEF TypeOK, Archive
  <2>2. /\ op'.pc = "kdbx" /\ op'.cur = op.cur /\ op'.kind = op.kind
        /\ op'.expected = op.expected
    BY <1>9, <2>1, NextStep DEF Archive, Steps
  <2>3. UNCHANGED <<kdbx, meta, committed, torn, granted>>
    BY <1>9 DEF Archive
  <2>4. Serial'
    BY <1>3, <1>9, <2>2, <2>3 DEF Serial, BeforeCommit, Archive
  <2>5. FileIsCurrent'
    BY <1>3, <1>9, <2>2, <2>3 DEF FileIsCurrent, Archive
  <2>6. ArchiveTaken'
    <3>1. \A i \in DOMAIN history' \ {ArchiveId} : history'[i].mtime < clock'
      BY <1>3, <1>4, <1>9, ArchiveStep DEF NoFutureSnapshot
    <3>2. op'.cur.version \notin overwritten' =>
            history'[ArchiveId].content = committed[op'.cur.version]
      BY <1>9, <2>2, ArchiveStep
    <3> QED
      BY <1>9, <2>3, <3>1, <3>2, ArchiveStep DEF ArchiveTaken
  <2>7. NoFutureSnapshot'
    BY <1>3, <1>4, <1>9, ArchiveStep DEF NoFutureSnapshot
  <2> QED
    BY <1>2, <1>5, <2>3, <2>4, <2>5, <2>6, <2>7
<1>10. CASE WriteKdbx
  <2>1. op \in Writers
    BY <1>3, <1>10, WriterAtWork DEF TypeOK, WriteKdbx
  <2>2. /\ op'.pc = "meta" /\ op'.cur = op.cur /\ op'.kind = op.kind
        /\ op'.expected = op.expected /\ op'.data = op.data /\ kdbx' = op.data
        /\ UNCHANGED <<meta, history, clock, committed, torn, overwritten, granted>>
    BY <1>10, <2>1, NextStep DEF WriteKdbx, Steps, told
  <2>3. Serial'
    BY <1>3, <1>10, <2>2 DEF Serial, BeforeCommit, WriteKdbx
  <2>4. FileIsCurrent'
    BY <2>2 DEF FileIsCurrent
  <2>5. ArchiveId' = ArchiveId
    BY <2>2 DEF ArchiveId
  <2>6. ArchiveTaken'
    BY <1>3, <1>10, <2>2, <2>5 DEF ArchiveTaken, AfterArchive, WriteKdbx
  <2>7. NoFutureSnapshot'
    BY <1>3, <2>2 DEF NoFutureSnapshot
  <2>8. LatestNamed' /\ EnvelopesKept'
    BY <1>3, <2>2 DEF LatestNamed, EnvelopesKept
  <2> QED
    BY <1>2, <2>3, <2>4, <2>6, <2>7, <2>8
<1>11. CASE SaveMetadata
  <2>1. op \in Writers
    BY <1>3, <1>11, WriterAtWork DEF TypeOK, SaveMetadata
  <2>2. /\ op'.pc = "prune" /\ op'.cur = op.cur /\ op'.kind = op.kind
        /\ UNCHANGED <<kdbx, history, clock, torn, overwritten, granted>>
    BY <1>11, <2>1, NextStep DEF SaveMetadata, Steps
  <2>3. Serial'
    BY <1>11, <2>2, CommitStep DEF Serial, BeforeCommit
  <2>4. FileIsCurrent'
    BY <1>11, <2>2, CommitStep DEF FileIsCurrent
  <2>5. ArchiveId' = ArchiveId
    BY <2>2 DEF ArchiveId
  <2>6. ArchiveTaken'
    <3>1. op.cur.version > 0 => committed'[op.cur.version] = committed[op.cur.version]
      BY <1>11, CommitStep
    <3> QED
      BY <1>3, <1>11, <2>2, <2>5, <3>1 DEF ArchiveTaken, AfterArchive, SaveMetadata
  <2>7. NoFutureSnapshot'
    BY <1>3, <2>2 DEF NoFutureSnapshot
  <2>8. LatestNamed' /\ EnvelopesKept'
    BY <1>3, <1>11, <2>2, CommitStep DEF LatestNamed, EnvelopesKept
  <2> QED
    BY <1>2, <2>3, <2>4, <2>6, <2>7, <2>8
<1>12. CASE Prune
  <2>1. NoFutureSnapshot'
    BY <1>3, <1>12, PruneStep DEF NoFutureSnapshot
  <2>2. CASE op' = Idle
    BY <1>2, <1>5, <1>6, <1>12, <2>1, <2>2, PruneStep DEF Prune
  <2>3. CASE op' = op
    <3>1. Serial' /\ FileIsCurrent'
      BY <1>3, <1>12, <2>3, PruneStep DEF Serial, FileIsCurrent
    <3>2. ArchiveId' = ArchiveId
      BY <2>3 DEF ArchiveId
    <3>3. ArchiveTaken'
      BY <1>3, <1>12, <2>3, <3>2, PruneStep DEF ArchiveTaken
    <3> QED
      BY <1>2, <1>5, <1>12, <2>1, <3>1, <3>3, PruneStep
  <2> QED
    BY <1>12, <2>2, <2>3, PruneStep
<1>13. CASE Stop
  <2>1. NoFutureSnapshot' /\ LatestNamed' /\ EnvelopesKept'
    BY <1>3, <1>13 DEF NoFutureSnapshot, LatestNamed, EnvelopesKept, Stop, disk
  <2> QED
    BY <1>2, <1>6, <1>13, <2>1 DEF Stop, disk
<1>14. CASE StopInCopy
  <2>1. NoFutureSnapshot'
    <3>1. CASE op.pc = "archive"
      BY <1>3, <1>4, <1>14, <3>1 DEF NoFutureSnapshot, StopInCopy, Put
    <3>2. CASE op.pc = "conflict"
      BY <1>3, <1>14, <3>2 DEF NoFutureSnapshot, StopInCopy
    <3> QED
      BY <1>14, <3>1, <3>2 DEF StopInCopy
  <2> QED
    BY <1>2, <1>5, <1>6, <1>14, <2>1 DEF StopInCopy
<1>15. CASE ChangeEnvelopes
  <2>1. Serial' /\ ArchiveTaken'
    BY <1>3, <1>15, EnvelopeStep DEF Serial, ArchiveTaken, BeforeCommit, AfterArchive
  <2>2. FileIsCurrent' /\ NoFutureSnapshot'
    BY <1>3, <1>15, EnvelopeStep DEF FileIsCurrent, NoFutureSnapshot
  <2>3. LatestNamed' /\ EnvelopesKept'
    BY <1>3, <1>15, EnvelopeStep DEF LatestNamed, EnvelopesKept
  <2> QED
    BY <1>2, <2>1, <2>2, <2>3
<1>16. CASE \/ \E id \in ConflictIds : DiscardConflict(id)
            \/ OpenVault \/ Snapshot \/ Tick
            \/ UNCHANGED vars
  <2>1. /\ UNCHANGED <<kdbx, meta, history, op, committed, torn, overwritten, granted>>
        /\ clock' = clock \/ (clock' = clock + 1 /\ op.pc = "idle")
    <3>1. CASE \E id \in ConflictIds : DiscardConflict(id)
      BY <3>1 DEF DiscardConflict
    <3>2. CASE OpenVault \/ Snapshot
      BY <3>2 DEF OpenVault, Snapshot, Read, disk
    <3>3. CASE Tick
      BY <3>3 DEF Tick, disk, told, LockFree, Idle
    <3>4. CASE UNCHANGED vars
      BY <3>4 DEF vars, disk, told
    <3> QED
      BY <1>16, <3>1, <3>2, <3>3, <3>4
  <2>2. Serial' /\ FileIsCurrent'
    BY <1>3, <2>1 DEF Serial, FileIsCurrent
  <2>3. ArchiveId' = ArchiveId
    BY <2>1 DEF ArchiveId
  <2>4. ArchiveTaken'
    BY <1>3, <2>1, <2>3 DEF ArchiveTaken, AfterArchive
  <2>5. NoFutureSnapshot'
    BY <1>3, <1>4, <2>1 DEF NoFutureSnapshot
  <2> QED
    BY <1>2, <1>5, <2>1, <2>2, <2>4, <2>5
<1> QED
  BY <1>7, <1>8, <1>9, <1>10, <1>11, <1>12, <1>13, <1>14, <1>15, <1>16
  DEF Next, Begin, ChangeEnvelopes
-----------------------------------------------------------------------------
(* The promises *)

\* A stop in the middle of a copy leaves that one file short, under a name that
\* holds no other version and no upload a client was told of.
LEMMA CutCopyStep ==
  ASSUME Core, StopInCopy
  PROVE  /\ UNCHANGED <<kdbx, meta, committed, rejected, granted, seen, torn>>
         /\ \/ /\ UNCHANGED <<history, overwritten>>
               /\ \A i \in DOMAIN rejected : i \in DOMAIN conflicts =>
                    i \in DOMAIN conflicts' /\ conflicts'[i] = conflicts[i]
            \/ /\ UNCHANGED conflicts
               /\ meta.version \in Nat /\ meta.version > 0
               /\ ArchiveId.version = meta.version
               /\ DOMAIN history' = DOMAIN history \cup {ArchiveId}
               /\ history'[ArchiveId].content = Partial
               /\ \A i \in DOMAIN history \ {ArchiveId} : history'[i] = history[i]
               /\ overwritten \subseteq overwritten'
               /\ meta.version \notin overwritten' => kdbx = committed[meta.version]
<1>1. CASE op.pc = "archive"
  <2>1. op.cur = meta /\ meta.version > 0 /\ meta.version \in Nat
    BY <1>1 DEF Core, Serial, BeforeCommit, TypeOK, Metas
  <2>2. /\ history' = Put(history, ArchiveId, [content |-> Partial, mtime |-> clock + 1])
        /\ overwritten' = NotedOverwrite
        /\ UNCHANGED <<conflicts, kdbx, meta, committed, rejected, granted, seen, torn>>
    BY <1>1 DEF StopInCopy
  <2>3. /\ DOMAIN history' = DOMAIN history \cup {ArchiveId}
        /\ history'[ArchiveId].content = Partial
        /\ \A i \in DOMAIN history \ {ArchiveId} : history'[i] = history[i]
    BY <2>2 DEF Put
  <2>4. ArchiveId.version = meta.version
    BY <2>1 DEF ArchiveId
  <2>5. /\ overwritten \subseteq overwritten'
        /\ meta.version \notin overwritten' => kdbx = committed[meta.version]
    BY <2>1, <2>2 DEF NotedOverwrite
  <2> QED
    BY <2>1, <2>2, <2>3, <2>4, <2>5
<1>2. CASE op.pc = "conflict"
  <2>1. PICK id \in FreeConflictIds : conflicts' = Put(conflicts, id, Partial)
    BY <1>2 DEF StopInCopy
  <2>2. id \notin DOMAIN rejected
    BY DEF FreeConflictIds
  <2>3. \A i \in DOMAIN rejected : i \in DOMAIN conflicts =>
          i \in DOMAIN conflicts' /\ conflicts'[i] = conflicts[i]
    BY <2>1, <2>2 DEF Put
  <2> QED
    BY <1>2, <2>3 DEF StopInCopy
<1> QED
  BY <1>1, <1>2 DEF StopInCopy

\* Only these steps touch the files, the versions or what is said of them.
LEMMA QuietSteps ==
  ASSUME NoDroppedErrors, Core, [Next]_vars
  PROVE  \/ Archive \/ WriteKdbx \/ SaveMetadata \/ Prune \/ StopInCopy
         \/ /\ UNCHANGED <<kdbx, history, committed, overwritten>>
            /\ meta'.version = meta.version
<1> DEFINE Quiet == /\ UNCHANGED <<kdbx, history, committed, overwritten>>
                    /\ meta'.version = meta.version
<1>1. CASE Begin
  BY <1>1, BeginStep DEF Core
<1>2. CASE ChangeEnvelopes
  BY <1>2, EnvelopeStep DEF Core
<1>3. CASE WriteConflict \/ \E id \in ConflictIds : DiscardConflict(id)
  BY <1>3 DEF WriteConflict, DiscardConflict
<1>4. CASE Stop
  BY <1>4 DEF Stop, disk
<1>5. CASE OpenVault \/ Snapshot
  BY <1>5 DEF OpenVault, Snapshot, Read, disk
<1>6. CASE Tick
  BY <1>6 DEF Tick, disk, told
<1>7. CASE UNCHANGED vars
  BY <1>7 DEF vars, disk, told
<1> QED
  BY <1>1, <1>2, <1>3, <1>4, <1>5, <1>6, <1>7 DEF Next, Begin, ChangeEnvelopes

\* No step puts a snapshot under the name of another version, or changes one.
LEMMA HistoryFaithfulNext ==
  ASSUME NoDroppedErrors, Core, [Next]_vars, HistoryFaithful
  PROVE  HistoryFaithful'
<1>1. meta.version \in Nat /\ Len(committed) = meta.version
  BY DEF Core, TypeOK, Metas, LatestNamed
<1>2. CASE Archive
  <2>1. committed' = committed
    BY <1>2 DEF Archive
  <2> QED
    BY <1>1, <1>2, <2>1, ArchiveStep DEF HistoryFaithful
<1>3. CASE SaveMetadata
  <2>1. history' = history /\ overwritten' = overwritten
    BY <1>3 DEF SaveMetadata
  <2> QED
    BY <1>1, <1>3, <2>1, CommitStep DEF HistoryFaithful
<1>4. CASE Prune
  BY <1>4, PruneStep DEF HistoryFaithful
<1>5. CASE StopInCopy
  BY <1>1, <1>5, CutCopyStep DEF HistoryFaithful
<1>6. CASE UNCHANGED <<history, committed, overwritten>>
  BY <1>6 DEF HistoryFaithful
<1> QED
  BY <1>2, <1>3, <1>4, <1>5, <1>6, QuietSteps DEF WriteKdbx, told

\* No step takes away the last copy of the version the metadata names.
LEMMA FirstStopNext ==
  ASSUME NoDroppedErrors, Core, [Next]_vars, FirstStopRecoverable
  PROVE  FirstStopRecoverable'
<1> USE DEF FirstStopRecoverable, CurrentVersionOnDisk, IsCopyOf
<1>1. CASE Archive
  <2>1. UNCHANGED <<kdbx, meta, committed>>
    BY <1>1 DEF Archive
  <2> QED
    BY <1>1, <2>1, ArchiveStep
<1>2. CASE WriteKdbx
  <2>1. UNCHANGED <<meta, history, committed, overwritten>>
    BY <1>2 DEF WriteKdbx, told
  <2>2. op.cur = meta
    BY <1>2 DEF Core, Serial, BeforeCommit, WriteKdbx
  <2>3. meta.version > 0 /\ meta.version \notin overwritten =>
          /\ ArchiveId \in DOMAIN history
          /\ history[ArchiveId].content = committed[meta.version]
    BY <1>2, <2>2 DEF Core, ArchiveTaken, AfterArchive, WriteKdbx
  <2>4. ArchiveId.version = meta.version
    BY <2>2 DEF ArchiveId
  <2> QED
    BY <2>1, <2>3, <2>4
<1>3. CASE SaveMetadata
  <2>1. kdbx' = kdbx
    BY <1>3 DEF SaveMetadata
  <2> QED
    BY <1>3, <2>1, CommitStep
<1>4. CASE Prune
  BY <1>4, PruneStep DEF Core, FileIsCurrent, Prune
<1>5. CASE StopInCopy
  BY <1>5, CutCopyStep
<1>6. CASE UNCHANGED <<kdbx, history, committed, overwritten>> /\ meta'.version = meta.version
  BY <1>6
<1> QED
  BY <1>1, <1>2, <1>3, <1>4, <1>5, <1>6, QuietSteps

\* No step prunes the version just replaced.
LEMMA PreviousVersionNext ==
  ASSUME NoDroppedErrors, Core, [Next]_vars, PreviousVersionKept
  PROVE  PreviousVersionKept'
<1> USE DEF PreviousVersionKept, IsCopyOf
<1>1. meta.version \in Nat
  BY DEF Core, TypeOK, Metas
<1>2. CASE Archive
  <2>1. UNCHANGED <<meta, committed>>
    BY <1>2 DEF Archive
  <2>2. ArchiveId.version # meta.version - 1
    BY <1>1, <1>2, ArchiveStep
  <2> QED
    BY <1>2, <2>1, <2>2, ArchiveStep
<1>3. CASE SaveMetadata
  <2>1. history' = history /\ overwritten' = overwritten
    BY <1>3 DEF SaveMetadata
  <2>2. meta'.version - 1 = meta.version /\ op.cur = meta
    BY <1>1, <1>3, CommitStep
  <2>3. ASSUME meta.version > 0, meta.version \notin overwritten
        PROVE  /\ ArchiveId \in DOMAIN history
               /\ history[ArchiveId].content = committed[meta.version]
    BY <1>3, <2>2, <2>3 DEF Core, ArchiveTaken, AfterArchive, SaveMetadata
  <2>4. ArchiveId.version = meta.version
    BY <2>2 DEF ArchiveId
  <2>5. meta.version > 0 => committed'[meta.version] = committed[meta.version]
    BY <1>1, <1>3, CommitStep
  <2> QED
    BY <1>1, <1>3, <2>1, <2>2, <2>3, <2>4, <2>5, CommitStep
<1>4. CASE Prune
  <2>1. op.cur.version = meta.version - 1
    BY <1>4 DEF Core, Serial, Prune
  <2>2. ASSUME meta.version >= 2, meta.version - 1 \notin overwritten
        PROVE  /\ ArchiveId \in DOMAIN history'
               /\ history'[ArchiveId].content = committed[meta.version - 1]
    <3>1. history[ArchiveId].content = committed[meta.version - 1]
      BY <1>1, <1>4, <2>1, <2>2 DEF Core, ArchiveTaken, AfterArchive, Prune
    <3> QED
      BY <1>1, <1>4, <2>1, <2>2, <3>1, PruneStep
  <2>3. ArchiveId.version = meta.version - 1
    BY <2>1 DEF ArchiveId
  <2> QED
    BY <1>4, <2>2, <2>3, PruneStep
<1>5. CASE StopInCopy
  <2>1. ArchiveId.version = meta.version => ArchiveId.version # meta.version - 1
    BY <1>1
  <2> QED
    BY <1>5, <2>1, CutCopyStep
<1>6. CASE UNCHANGED <<history, committed, overwritten>> /\ meta'.version = meta.version
  BY <1>6
<1> QED
  BY <1>2, <1>3, <1>4, <1>5, <1>6, QuietSteps DEF WriteKdbx, told

\* No step writes over a kept conflict copy; only Discard removes one.
LEMMA RejectedNext ==
  ASSUME NoDroppedErrors, Core, [Next]_vars, RejectedKept
  PROVE  RejectedKept'
<1> USE DEF RejectedKept
<1>1. CASE WriteConflict
  <2>1. PICK id \in FreeConflictIds :
          /\ rejected' = Put(rejected, id, op.data)
          /\ conflicts' = Put(conflicts, id, op.data)
    BY <1>1 DEF WriteConflict, NoDroppedErrors
  <2> QED
    BY <2>1 DEF Put
<1>2. CASE StopInCopy
  BY <1>2, CutCopyStep
<1>3. CASE \E id \in ConflictIds : DiscardConflict(id)
  BY <1>3 DEF DiscardConflict, Keep
<1>4. CASE UNCHANGED <<conflicts, rejected>>
  BY <1>4
<1>5. CASE Begin \/ ChangeEnvelopes \/ Prune
  BY <1>4, <1>5, BeginStep, EnvelopeStep, PruneStep DEF Core
<1>6. CASE Archive \/ WriteKdbx \/ SaveMetadata
  BY <1>4, <1>6 DEF Archive, WriteKdbx, SaveMetadata, told
<1>7. CASE Stop
  BY <1>4, <1>7 DEF Stop, disk
<1>8. CASE OpenVault \/ Snapshot
  BY <1>4, <1>8 DEF OpenVault, Snapshot, Read, disk
<1>9. CASE Tick
  BY <1>4, <1>9 DEF Tick, disk, told
<1>10. CASE UNCHANGED vars
  BY <1>4, <1>10 DEF vars, disk, told
<1> QED
  BY <1>1, <1>2, <1>3, <1>5, <1>6, <1>7, <1>8, <1>9, <1>10 DEF Next, Begin, ChangeEnvelopes

\* A download that waited for the lock returns one committed version.
LEMMA ReadsNext ==
  ASSUME NoDroppedErrors, Core, [Next]_vars, ReadsCommitted
  PROVE  ReadsCommitted'
<1> USE DEF ReadsCommitted
<1>1. meta.version \in Nat /\ Len(committed) = meta.version
  BY DEF Core, TypeOK, Metas, LatestNamed
<1>2. CASE SaveMetadata
  <2>1. seen' = seen /\ torn' = torn
    BY <1>2 DEF SaveMetadata
  <2> QED
    BY <1>1, <1>2, <2>1, CommitStep
<1>3. CASE OpenVault
  <2>1. op.pc = "idle" /\ meta.version > 0
    BY <1>3 DEF OpenVault, LockFree, Idle
  <2>2. meta.version \notin torn => kdbx = committed[meta.version]
    BY <2>1 DEF Core, FileIsCurrent
  <2>3. /\ seen' = [by |-> "OpenVault", version |-> meta.version, content |-> kdbx]
        /\ torn' = torn /\ committed' = committed
    BY <1>3 DEF OpenVault, Read
  <2> QED
    BY <1>1, <2>1, <2>2, <2>3
<1>4. CASE Snapshot
  <2>1. meta.version > 0 /\ kdbx = committed[meta.version]
    BY <1>4 DEF Snapshot, Core, LatestNamed
  <2>2. /\ seen' = [by |-> "Snapshot", version |-> meta.version, content |-> kdbx]
        /\ committed' = committed
    BY <1>4 DEF Snapshot, Read
  <2> QED
    BY <1>1, <2>1, <2>2
<1>5. CASE Stop
  BY <1>5 DEF Stop
<1>6. CASE UNCHANGED <<seen, torn, committed>>
  BY <1>6
<1>7. CASE Begin \/ ChangeEnvelopes \/ Prune \/ StopInCopy
  BY <1>6, <1>7, BeginStep, EnvelopeStep, PruneStep, CutCopyStep DEF Core
<1>8. CASE Archive \/ WriteKdbx \/ WriteConflict \/ \E id \in ConflictIds : DiscardConflict(id)
  BY <1>6, <1>8 DEF Archive, WriteKdbx, WriteConflict, DiscardConflict, told
<1>9. CASE Tick
  BY <1>6, <1>9 DEF Tick, told
<1>10. CASE UNCHANGED vars
  BY <1>6, <1>10 DEF vars, told
<1> QED
  BY <1>2, <1>3, <1>4, <1>5, <1>7, <1>8, <1>9, <1>10 DEF Next, Begin, ChangeEnvelopes

\* A store never used has promised nothing yet.
LEMMA PromisesInit == Init => Promises
<1> SUFFICES ASSUME Init PROVE Promises
  OBVIOUS
<1>1. meta.version = 0 /\ DOMAIN history = {} /\ DOMAIN rejected = {} /\ seen.by = "nobody"
  BY DEF Init, NoMeta, NoRead
<1> QED
  BY <1>1 DEF Promises, HistoryFaithful, FirstStopRecoverable, CurrentVersionOnDisk,
              PreviousVersionKept, RejectedKept, ReadsCommitted

\* Every step from a state of the core keeps every promise.
LEMMA PromisesNext ==
  ASSUME NoDroppedErrors, Core, Promises, [Next]_vars
  PROVE  Promises'
BY HistoryFaithfulNext, FirstStopNext, PreviousVersionNext, RejectedNext, ReadsNext
DEF Promises
-----------------------------------------------------------------------------
(* Theorems *)

\* The inductive invariant, as an invariant of the specification.
LEMMA StoreInvariant == ASSUME NoDroppedErrors PROVE Spec => [](Core /\ Promises)
<1>1. Init => Core /\ Promises
  BY CoreInit, PromisesInit
<1>2. Core /\ Promises /\ [Next]_vars => (Core /\ Promises)'
  BY CoreNext, PromisesNext
<1> QED
  BY <1>1, <1>2, PTL DEF Spec

\* What history keeps under version n is what version n was, whatever stops,
\* retries, rollbacks and pruning it went through.
THEOREM HistorySafe == ASSUME NoDroppedErrors PROVE Spec => []HistoryFaithful
<1>1. Core /\ Promises => HistoryFaithful
  BY DEF Promises
<1> QED
  BY <1>1, StoreInvariant, PTL

\* A writer that stops anywhere leaves the current version readable, from
\* vault.kdbx or from history, until a retry archives over its copy.
THEOREM CurrentSafe == ASSUME NoDroppedErrors PROVE Spec => []FirstStopRecoverable
<1>1. Core /\ Promises => FirstStopRecoverable
  BY DEF Promises
<1> QED
  BY <1>1, StoreInvariant, PTL

\* Neither retention nor the cap ever removes the version just replaced.
THEOREM PreviousSafe == ASSUME NoDroppedErrors PROVE Spec => []PreviousVersionKept
<1>1. Core /\ Promises => PreviousVersionKept
  BY DEF Promises
<1> QED
  BY <1>1, StoreInvariant, PTL

\* Every upload answered with a conflict is kept until it is discarded.
THEOREM ConflictsSafe == ASSUME NoDroppedErrors PROVE Spec => []RejectedKept
<1>1. Core /\ Promises => RejectedKept
  BY DEF Promises
<1> QED
  BY <1>1, StoreInvariant, PTL

\* No save or rollback loses or revives a device envelope.
THEOREM EnvelopesSafe == ASSUME NoDroppedErrors PROVE Spec => []EnvelopesKept
<1>1. Core /\ Promises => EnvelopesKept
  BY DEF Core
<1> QED
  BY <1>1, StoreInvariant, PTL

\* A reader gets one version's metadata and ciphertext together, except for a
\* download where a writer stopped half-way.
THEOREM ReadsSafe == ASSUME NoDroppedErrors PROVE Spec => []ReadsCommitted
<1>1. Core /\ Promises => ReadsCommitted
  BY DEF Promises
<1> QED
  BY <1>1, StoreInvariant, PTL

\* The metadata names the latest version, and versions have no gaps.
THEOREM LatestSafe == ASSUME NoDroppedErrors PROVE Spec => []LatestNamed
<1>1. Core /\ Promises => LatestNamed
  BY DEF Core
<1> QED
  BY <1>1, StoreInvariant, PTL

\* An accepted upload replaces exactly the version its client named.
THEOREM SavesSafe == ASSUME NoDroppedErrors PROVE Spec => SaveBuildsOnNamed
<1> DEFINE A == committed' # committed /\ op.kind = "save" => op.expected = Len(committed)
<1>1. ASSUME Core, [Next]_vars PROVE A
  <2>1. CASE SaveMetadata
    BY <1>1, <2>1 DEF Core, Serial, LatestNamed, BeforeCommit, SaveMetadata
  <2>2. CASE UNCHANGED committed
    BY <2>2
  <2>3. CASE Begin \/ ChangeEnvelopes \/ Prune \/ StopInCopy
    BY <1>1, <2>2, <2>3, BeginStep, EnvelopeStep, PruneStep, CutCopyStep DEF Core
  <2>4. CASE Archive \/ WriteKdbx \/ WriteConflict \/ Stop
             \/ \E id \in ConflictIds : DiscardConflict(id)
    BY <2>2, <2>4 DEF Archive, WriteKdbx, WriteConflict, Stop, DiscardConflict, told
  <2>5. CASE OpenVault \/ Snapshot
    BY <2>2, <2>5 DEF OpenVault, Snapshot, Read
  <2>6. CASE Tick
    BY <2>2, <2>6 DEF Tick, told
  <2>7. CASE UNCHANGED vars
    BY <2>2, <2>7 DEF vars, told
  <2> QED
    BY <1>1, <2>1, <2>3, <2>4, <2>5, <2>6, <2>7 DEF Next, Begin, ChangeEnvelopes
<1>2. Core /\ [Next]_vars => [A]_vars
  BY <1>1
<1>3. (Core /\ Promises) => Core
  OBVIOUS
<1> QED
  BY <1>2, <1>3, StoreInvariant, PTL DEF Spec, SaveBuildsOnNamed

\* The cap removes only snapshots between two that stay.
THEOREM CapSafe == Spec => CapKeepsWindow
<1> DEFINE Kept(i) ==
      \/ history[i].mtime + Retention < clock
      \/ \E j, k \in DOMAIN history' :
           /\ history'[j].mtime < history[i].mtime
           /\ history'[k].mtime > history[i].mtime
           A == \A i \in DOMAIN history \ DOMAIN history' : Kept(i)
<1>1. ASSUME TInv, [Next]_vars PROVE A
  <2>1. CASE DOMAIN history \subseteq DOMAIN history'
    BY <2>1
  <2>2. CASE Prune
    <3>1. /\ clock \in Nat /\ Retention \in Nat
          /\ \A i \in DOMAIN history : history[i].mtime \in Nat
      BY <1>1, BoundsAssumption DEF TInv, TypeOK, Snapshots
    <3>2. \A i \in DOMAIN history \ Fresh : history[i].mtime + Retention < clock
      BY <3>1 DEF Fresh
    <3>3. CASE history' = Keep(history, Fresh)
      BY <3>2, <3>3 DEF Keep
    <3>4. ASSUME NEW t \in Thinnable(Fresh), history' = Keep(history, Fresh \ {t})
          PROVE  A
      <4>1. PICK j \in Older(t, Fresh), k \in Newer(t, Fresh) : TRUE
        BY DEF Thinnable, Interior
      <4>2. /\ j \in Fresh \ {t} /\ k \in Fresh \ {t}
            /\ j \in DOMAIN history /\ k \in DOMAIN history /\ t \in Fresh
            /\ history[j].mtime < history[t].mtime
            /\ history[k].mtime > history[t].mtime
        BY <3>1 DEF Older, Newer, Fresh, Thinnable, Interior
      <4>3. DOMAIN history' = DOMAIN history \cap (Fresh \ {t})
            /\ history'[j] = history[j] /\ history'[k] = history[k]
        BY <3>4, <4>2 DEF Keep
      <4>4. ASSUME NEW i \in DOMAIN history \ DOMAIN history'
            PROVE  Kept(i)
        <5>1. i = t \/ i \notin Fresh
          BY <4>3, <4>4
        <5> QED
          BY <3>2, <4>2, <4>3, <4>4, <5>1
      <4> QED
        BY <4>4
    <3> QED
      BY <2>2, <3>3, <3>4 DEF Prune
  <2>3. CASE Archive \/ StopInCopy
    BY <2>1, <2>3 DEF Archive, StopInCopy, Put
  <2>4. CASE \/ Begin \/ ChangeEnvelopes \/ WriteConflict \/ WriteKdbx \/ SaveMetadata \/ Stop
             \/ \E id \in ConflictIds : DiscardConflict(id)
    <3>1. history' = history
      BY <2>4 DEF Begin, BeginSave, BeginRestore, ChangeEnvelopes, SetDeviceEnvelope,
                  RemoveDeviceEnvelope, SaveEnvelopes, RewriteEnvelopes, WriteConflict,
                  WriteKdbx, SaveMetadata, Stop, DiscardConflict, disk
    <3> QED
      BY <2>1, <3>1
  <2>5. CASE OpenVault \/ Snapshot \/ Tick
    BY <2>1, <2>5 DEF OpenVault, Snapshot, Read, Tick, disk
  <2>6. CASE UNCHANGED vars
    BY <2>1, <2>6 DEF vars, disk
  <2> QED
    BY <1>1, <2>2, <2>3, <2>4, <2>5, <2>6 DEF Next, Begin, ChangeEnvelopes
<1>2. TInv /\ [Next]_vars => [A]_vars
  BY <1>1
<1> QED
  BY <1>2, TInvInit, TInvNext, PTL DEF Spec, CapKeepsWindow
-----------------------------------------------------------------------------
(* VaultStore implements VersionedVault: the files, the steps between them   *)
(* and the places where a writer may stop are invisible to clients, who see  *)
(* requests that append a version, are kept aside or leave nothing behind.   *)

\* A writer sent to the conflict step is a save that named another version
\* than the latest.
ConflictIsReal ==
  op.pc = "conflict" => op.kind = "save" /\ op.expected # Len(committed)

\* The answered conflicts are a function, so dropping a name that is not there
\* leaves them as they are.
RejectedIsFunction == rejected = [i \in DOMAIN rejected |-> rejected[i]]

\* What the mapping needs beyond the invariant of the store.
RInv ==
  /\ Core
  /\ ConflictIsReal
  /\ RejectedIsFunction
-----------------------------------------------------------------------------
\* Who is being served while a writer is at work.
LEMMA ServingWriter ==
  ASSUME op \in Writers, op.pc # "prune"
  PROVE  /\ Serving = [kind |-> op.kind, base |-> op.expected, content |-> op.data]
         /\ Serving \in Clients!Requests
         /\ Serving # Clients!NoRequest
         /\ Serving.kind = op.kind /\ Serving.base = op.expected
         /\ Serving.content = op.data
<1>1. op # Idle /\ op.kind \in {"save", "rollback"} /\ op.expected \in Nat
      /\ op.data \in Contents /\ op.kind # "none"
  BY DEF Writers, Steps, Idle
<1>2. Serving = [kind |-> op.kind, base |-> op.expected, content |-> op.data]
  BY <1>1 DEF Serving
<1> QED
  BY <1>1, <1>2 DEF Clients!Requests, Clients!NoRequest

\* Nobody is being served otherwise.
LEMMA ServingNobody ==
  ASSUME op = Idle \/ op.pc = "prune"
  PROVE  Serving = Clients!NoRequest
BY DEF Serving, Clients!NoRequest

\* The same two, of the state after a step.
LEMMA ServingWriterNext ==
  ASSUME op' \in Writers, op'.pc # "prune"
  PROVE  /\ Serving' = [kind |-> op'.kind, base |-> op'.expected, content |-> op'.data]
         /\ Serving' \in Clients!Requests
<1>1. op' # Idle /\ op'.kind \in {"save", "rollback"} /\ op'.expected \in Nat
      /\ op'.data \in Contents
  BY DEF Writers, Steps, Idle
<1>2. Serving' = [kind |-> op'.kind, base |-> op'.expected, content |-> op'.data]
  BY <1>1 DEF Serving
<1> QED
  BY <1>1, <1>2 DEF Clients!Requests

\* And of the other.
LEMMA ServingNobodyNext ==
  ASSUME op' = Idle \/ op'.pc = "prune"
  PROVE  Serving' = Clients!NoRequest
BY DEF Serving, Clients!NoRequest
-----------------------------------------------------------------------------
\* A save or rollback that takes the lock is a request received.
LEMMA BeginRefines ==
  ASSUME NoDroppedErrors, RInv, TypeOK', Begin
  PROVE  Clients!Receive
<1>1. op = Idle
  BY DEF Begin, BeginSave, BeginRestore, LockFree
<1>2. op'.pc \in {"conflict", "archive", "kdbx"} /\ UNCHANGED <<committed, rejected>>
  BY BeginStep DEF RInv, Core
<1>3. op' \in Writers /\ op'.pc # "prune"
  BY <1>2 DEF TypeOK, Idle
<1> QED
  BY <1>1, <1>2, <1>3, ServingNobody, ServingWriterNext DEF Clients!Receive

\* The rename of the metadata is the moment the request takes effect.
LEMMA CommitRefines ==
  ASSUME RInv, SaveMetadata
  PROVE  Clients!Commit
<1>1. op \in Writers /\ op.pc = "meta" /\ op'.pc = "prune"
  BY WriterAtWork, NextStep DEF RInv, Core, TypeOK, SaveMetadata, Steps
<1>2. op.cur = meta /\ meta.version = Len(committed)
  BY <1>1 DEF RInv, Core, Serial, LatestNamed, BeforeCommit
<1>3. op.kind = "rollback" \/ op.expected = Len(committed)
  BY <1>1, <1>2 DEF RInv, Core, Serial, BeforeCommit, Writers
<1>4. Clients!Acceptable
  BY <1>1, <1>3, ServingWriter DEF Clients!Acceptable, Clients!Latest
<1>5. committed' = Append(committed, op.data) /\ UNCHANGED rejected
  BY DEF SaveMetadata
<1> QED
  BY <1>1, <1>4, <1>5, ServingWriter, ServingNobodyNext DEF Clients!Commit

\* An upload that lost the conflict is refused and kept.
LEMMA ConflictRefines ==
  ASSUME RInv, WriteConflict
  PROVE  Clients!Refuse
<1>1. op \in Writers /\ op.pc = "conflict" /\ op' = Idle
  BY WriterAtWork DEF RInv, Core, TypeOK, WriteConflict
<1>2. ~ Clients!Acceptable
  BY <1>1, ServingWriter DEF RInv, ConflictIsReal, Clients!Acceptable, Clients!Latest
<1>3. PICK id \in FreeConflictIds : rejected' = Put(rejected, id, op.data)
  BY DEF WriteConflict
<1>4. id \in ConflictIds \ DOMAIN rejected
  BY DEF FreeConflictIds
<1> QED
  BY <1>1, <1>2, <1>3, <1>4, ServingWriter, ServingNobodyNext
  DEF Clients!Refuse, Put, WriteConflict

\* A writer that stops before the rename leaves nothing a client could see.
LEMMA StopRefines ==
  ASSUME RInv, Stop \/ StopInCopy
  PROVE  Clients!Fail \/ UNCHANGED Clients!vars
<1>1. op' = Idle /\ UNCHANGED <<committed, rejected>>
  BY DEF Stop, StopInCopy
<1>2. CASE op = Idle \/ op.pc = "prune"
  BY <1>1, <1>2, ServingNobody, ServingNobodyNext DEF Clients!vars
<1>3. CASE op # Idle /\ op.pc # "prune"
  <2>1. op \in Writers
    BY <1>3 DEF RInv, Core, TypeOK
  <2> QED
    BY <1>1, <1>3, <2>1, ServingWriter, ServingNobodyNext DEF Clients!Fail
<1> QED
  BY <1>2, <1>3

\* Discarding a conflict nobody was told of changes nothing for clients.
LEMMA DiscardRefines ==
  ASSUME RInv, NEW id \in ConflictIds, DiscardConflict(id)
  PROVE  Clients!Discard(id) \/ UNCHANGED Clients!vars
<1>1. /\ rejected' = [i \in DOMAIN rejected \cap (ConflictIds \ {id}) |-> rejected[i]]
      /\ UNCHANGED <<op, committed>>
  BY DEF DiscardConflict, Keep
<1>2. DOMAIN rejected \subseteq ConflictIds
  BY DEF RInv, Core, TypeOK
<1>3. Serving' = Serving
  BY <1>1 DEF Serving
<1>4. CASE id \in DOMAIN rejected
  <2>1. DOMAIN rejected \cap (ConflictIds \ {id}) = DOMAIN rejected \ {id}
    BY <1>2
  <2> QED
    BY <1>1, <1>3, <1>4, <2>1 DEF Clients!Discard
<1>5. CASE id \notin DOMAIN rejected
  <2>1. DOMAIN rejected \cap (ConflictIds \ {id}) = DOMAIN rejected
    BY <1>2, <1>5
  <2> QED
    BY <1>1, <1>3, <2>1 DEF RInv, RejectedIsFunction, Clients!vars
<1> QED
  BY <1>4, <1>5

\* What happens between the check and the rename, in the history or in the
\* envelopes, and what readers do, clients cannot tell.
LEMMA HiddenRefines ==
  ASSUME NoDroppedErrors, RInv, TypeOK',
         \/ Archive \/ WriteKdbx \/ Prune \/ ChangeEnvelopes
         \/ OpenVault \/ Snapshot \/ Tick \/ UNCHANGED vars
  PROVE  UNCHANGED Clients!vars
<1>1. CASE Archive \/ WriteKdbx
  <2>1. op \in Writers /\ op.pc # "prune" /\ UNCHANGED <<committed, rejected>>
    BY <1>1, WriterAtWork DEF RInv, Core, TypeOK, Archive, WriteKdbx, told
  <2>2. PICK s \in {"kdbx", "meta"} : op' = [op EXCEPT !.pc = s]
    BY <1>1 DEF Archive, WriteKdbx
  <2>3. s \in Steps
    BY DEF Steps
  <2>4. /\ op' \in Writers /\ op'.pc # "prune" /\ op'.kind = op.kind
        /\ op'.expected = op.expected /\ op'.data = op.data
    BY <2>1, <2>2, <2>3, NextStep
  <2> QED
    BY <2>1, <2>4, ServingWriter, ServingWriterNext DEF Clients!vars
<1>2. CASE Prune
  BY <1>2, ServingNobody, ServingNobodyNext DEF Prune, Clients!vars, told
<1>3. CASE ChangeEnvelopes
  <2>1. UNCHANGED <<op, committed, rejected>>
    BY <1>3, EnvelopeStep DEF RInv, Core
  <2> QED
    BY <2>1 DEF Clients!vars, Serving
<1>4. CASE OpenVault \/ Snapshot \/ Tick \/ UNCHANGED vars
  <2>1. UNCHANGED <<op, committed, rejected>>
    BY <1>4 DEF OpenVault, Snapshot, Read, Tick, vars, told
  <2> QED
    BY <2>1 DEF Clients!vars, Serving
<1> QED
  BY <1>1, <1>2, <1>3, <1>4
-----------------------------------------------------------------------------
\* The store starts without versions, conflicts or writers.
LEMMA RefinesInit == Init => Clients!Init
<1>1. Init => op = Idle
  BY DEF Init
<1> QED
  BY <1>1, ServingNobody DEF Init, Clients!Init

\* Nothing has been refused yet.
LEMMA RInvInit == Init => ConflictIsReal /\ RejectedIsFunction
<1>1. << >> = [i \in DOMAIN << >> |-> << >>[i]]
  OBVIOUS
<1> QED
  BY <1>1 DEF Init, ConflictIsReal, RejectedIsFunction, Idle

\* What the mapping needs is kept by every step.
LEMMA RInvNext ==
  ASSUME NoDroppedErrors, RInv, Core', [Next]_vars
  PROVE  RInv'
<1>1. CASE Begin
  <2>1. UNCHANGED <<committed, rejected>>
    BY <1>1, BeginStep DEF RInv, Core
  <2>2. ConflictIsReal'
    <3>1. \A cur \in ReadMeta : cur = meta
      BY DEF NoDroppedErrors, ReadMeta
    <3>2. meta.version = Len(committed)
      BY DEF RInv, Core, LatestNamed
    <3> QED
      BY <1>1, <2>1, <3>1, <3>2
      DEF Begin, BeginSave, BeginRestore, ConflictIsReal, Conflicting, AfterCheck
  <2> QED
    BY <2>1, <2>2 DEF RInv, RejectedIsFunction
<1>2. CASE ChangeEnvelopes
  BY <1>2, EnvelopeStep DEF RInv, Core, ConflictIsReal, RejectedIsFunction
<1>3. CASE WriteConflict
  BY <1>3 DEF RInv, WriteConflict, Put, ConflictIsReal, RejectedIsFunction, Idle
<1>4. CASE Archive \/ WriteKdbx \/ SaveMetadata \/ Prune \/ Stop \/ StopInCopy
  <2>1. UNCHANGED rejected
    BY <1>4 DEF Archive, WriteKdbx, SaveMetadata, Prune, Stop, StopInCopy, told
  <2>2. op'.pc # "conflict"
    <3>1. CASE Archive \/ WriteKdbx \/ SaveMetadata
      BY <3>1, WriterAtWork, NextStep
      DEF RInv, Core, TypeOK, Archive, WriteKdbx, SaveMetadata, Steps
    <3>2. CASE Prune \/ Stop \/ StopInCopy
      BY <3>2 DEF Prune, Stop, StopInCopy, Idle
    <3> QED
      BY <1>4, <3>1, <3>2
  <2> QED
    BY <2>1, <2>2 DEF RInv, ConflictIsReal, RejectedIsFunction
<1>5. CASE \E id \in ConflictIds : DiscardConflict(id)
  <2>1. PICK id \in ConflictIds : DiscardConflict(id)
    BY <1>5
  <2>2. /\ UNCHANGED <<op, committed>>
        /\ rejected' = [i \in DOMAIN rejected \cap (ConflictIds \ {id}) |-> rejected[i]]
    BY <2>1 DEF DiscardConflict, Keep
  <2> QED
    BY <2>2 DEF RInv, ConflictIsReal, RejectedIsFunction
<1>6. CASE OpenVault \/ Snapshot \/ Tick \/ UNCHANGED vars
  BY <1>6 DEF RInv, OpenVault, Snapshot, Read, Tick, vars, told, ConflictIsReal,
              RejectedIsFunction
<1> QED
  BY <1>1, <1>2, <1>3, <1>4, <1>5, <1>6 DEF Next, Begin, ChangeEnvelopes

\* Every step of the store is a step of VersionedVault, or changes nothing that
\* a client sees.
LEMMA StepRefines ==
  ASSUME NoDroppedErrors, RInv, TypeOK', [Next]_vars
  PROVE  [Clients!Next]_(Clients!vars)
<1>1. CASE Begin
  BY <1>1, BeginRefines DEF Clients!Next
<1>2. CASE SaveMetadata
  BY <1>2, CommitRefines DEF Clients!Next
<1>3. CASE WriteConflict
  BY <1>3, ConflictRefines DEF Clients!Next
<1>4. CASE Stop \/ StopInCopy
  BY <1>4, StopRefines DEF Clients!Next
<1>5. CASE \E id \in ConflictIds : DiscardConflict(id)
  BY <1>5, DiscardRefines DEF Clients!Next
<1>6. CASE \/ Archive \/ WriteKdbx \/ Prune \/ ChangeEnvelopes
           \/ OpenVault \/ Snapshot \/ Tick \/ UNCHANGED vars
  BY <1>6, HiddenRefines
<1> QED
  BY <1>1, <1>2, <1>3, <1>4, <1>5, <1>6 DEF Next, Begin, ChangeEnvelopes

\* Whatever a writer's file operations are and wherever it stops, its clients
\* see VersionedVault, provided that no failed read of the metadata is dropped.
THEOREM StoreImplementsVersions ==
  ASSUME NoDroppedErrors PROVE Spec => ImplementsVersions
<1>1. Init => Core /\ RInv
  BY CoreInit, RInvInit DEF RInv
<1>2. Core /\ RInv /\ [Next]_vars => (Core /\ RInv)'
  BY CoreNext, RInvNext DEF RInv
<1>3. Core' => TypeOK'
  BY DEF Core
<1>4. Core /\ RInv /\ (Core /\ RInv)' /\ [Next]_vars => [Clients!Next]_(Clients!vars)
  BY <1>3, StepRefines
<1> QED
  BY <1>1, <1>2, <1>4, RefinesInit, PTL DEF Spec, ImplementsVersions, Clients!Spec
=============================================================================
