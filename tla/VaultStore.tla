----------------------------- MODULE VaultStore -----------------------------
(***************************************************************************)
(* One user's vault on disk (internal/vault/vault.go): the encrypted KDBX  *)
(* file, the metadata beside it, the history of replaced versions and the  *)
(* uploads that lost a version conflict.                                   *)
(*                                                                         *)
(* Every writer holds Store.mu for its whole body, so at most one is under *)
(* way; it is cut into the file operations it performs, because the        *)
(* process can stop, or an error return leave the disk as it is, between   *)
(* any two of them.  The variable op is that writer.  Readers take the     *)
(* read lock: they run only while op is Idle.                              *)
(***************************************************************************)
EXTENDS Integers, Sequences, FiniteSets

CONSTANTS
  Blobs,        \* encrypted vault files a client may upload
  Partial,      \* what a direct WriteFile leaves when it is cut short
  None,         \* no vault.kdbx yet
  Devices,      \* device ids that may hold a key envelope
  ConflictIds,  \* names a rejected upload may be kept under
  MaxHistory,   \* maxHistorySnapshots (100 in the code)
  Retention,    \* the retention period, in instants
  Second,       \* instants per second: UpdatedAt.Unix() drops the rest
  Faults,       \* which of AllFaults the environment may produce
  MaxVersion,   \* bound: no writer starts once this many versions are committed
  MaxClock      \* bound: no writer starts, and no time passes, at this instant

(***************************************************************************)
(* "crash":    a writer stops between two steps, by a crash or an error    *)
(*             return.                                                     *)
(* "metaRead": reading metadata.json fails and the error is dropped.       *)
(* "copy":     writing the archive or conflict copy fails and the error is *)
(*             dropped.                                                    *)
(***************************************************************************)
AllFaults == {"crash", "metaRead", "copy"}

ASSUME BoundsAssumption ==
  /\ MaxHistory \in Nat /\ MaxHistory >= 2
  /\ Retention \in Nat
  /\ Second \in Nat \ {0}
  /\ MaxVersion \in Nat
  /\ MaxClock \in Nat

ASSUME ContentAssumption ==
  /\ Partial \notin Blobs
  /\ None \notin Blobs \cup {Partial}
  /\ Faults \subseteq AllFaults

VARIABLES
  kdbx,        \* content of vault.kdbx
  meta,        \* metadata.json; version 0 also stands for an absent file
  history,     \* history/: snapshot name -> content and modification time
  conflicts,   \* conflicts/: name -> content
  clock,       \* time.Now, in instants
  op,          \* the writer holding Store.mu, or Idle
  \* What a client or an operator has been told; the program keeps none of it.
  committed,   \* the contents that became versions 1, 2, ...
  torn,        \* versions at which a writer stopped between KDBX and metadata
  overwritten, \* versions whose archive copy was taken from other content
  rejected,    \* uploads answered 409 and not discarded since
  granted,     \* devices whose envelope was stored and not removed since
  seen         \* what the latest download or recovery snapshot returned

disk == <<kdbx, meta, history, conflicts>>
told == <<committed, torn, overwritten, rejected, granted, seen>>
vars == <<disk, clock, op, told>>

Contents == Blobs \cup {Partial}

NoMeta == [version |-> 0, sum |-> None, stamp |-> 0, devs |-> {}]

Metas == [version : Nat, sum : Contents \cup {None}, stamp : Nat,
          devs : SUBSET Devices]

\* A snapshot is named after the second and version of the metadata that
\* described it; a rollback adds the suffix _before_rollback.
HistoryIds == [second : Nat, version : Nat, by : {"save", "rollback"}]

Snapshots == [content : Contents, mtime : Nat]

Steps == {"conflict", "archive", "kdbx", "meta", "prune"}

Idle == [pc |-> "idle"]

Writers == [pc : Steps, kind : {"save", "rollback"}, expected : Nat,
            data : Contents, cur : Metas]

NoRead == [by |-> "nobody", version |-> 0, content |-> None]

TypeOK ==
  /\ kdbx \in Contents \cup {None}
  /\ meta \in Metas
  /\ DOMAIN history \subseteq HistoryIds
  /\ \A i \in DOMAIN history : history[i] \in Snapshots
  /\ DOMAIN conflicts \subseteq ConflictIds
  /\ \A i \in DOMAIN conflicts : conflicts[i] \in Contents
  /\ clock \in Nat
  /\ op \in Writers \cup {Idle}
  /\ committed \in Seq(Contents)
  /\ torn \subseteq Nat
  /\ overwritten \subseteq Nat
  /\ DOMAIN rejected \subseteq ConflictIds
  /\ \A i \in DOMAIN rejected : rejected[i] \in Contents
  /\ granted \subseteq Devices
  /\ seen \in [by : {"nobody", "OpenVault", "Snapshot"}, version : Nat,
              content : Contents \cup {None}]

Init ==
  /\ kdbx = None
  /\ meta = NoMeta
  /\ history = << >>
  /\ conflicts = << >>
  /\ clock = 0
  /\ op = Idle
  /\ committed = << >>
  /\ torn = {}
  /\ overwritten = {}
  /\ rejected = << >>
  /\ granted = {}
  /\ seen = NoRead
-----------------------------------------------------------------------------
(* Helpers *)

Put(f, k, v) == [i \in DOMAIN f \cup {k} |-> IF i = k THEN v ELSE f[i]]

Keep(f, S) == [i \in DOMAIN f \cap S |-> f[i]]

\* Store.mu is free of writers.
LockFree == op = Idle

\* current, _ := getMetadataLocked(user): a failed read yields the zero value.
ReadMeta == {meta} \cup (IF "metaRead" \in Faults THEN {NoMeta} ELSE {})

\* Mutant: conflict names are not unique.
FreeConflictIds_Reused == ConflictIds

FreeConflictIds == ConflictIds \ (DOMAIN conflicts \cup DOMAIN rejected)

\* Mutant: the archive is named after the version about to be written.
ArchiveId_Next ==
  [second |-> op.cur.stamp \div Second, version |-> op.cur.version + 1,
   by |-> op.kind]

ArchiveId ==
  [second |-> op.cur.stamp \div Second, version |-> op.cur.version, by |-> op.kind]

\* Snapshots not older than the retention cutoff.
Fresh == {i \in DOMAIN history : history[i].mtime + Retention >= clock}

Newer(i, S) == {j \in S : history[j].mtime > history[i].mtime}
Older(i, S) == {j \in S : history[j].mtime < history[i].mtime}

\* Distance between the two snapshots next to i.
Separation(i, S) ==
  LET next == CHOOSE j \in Newer(i, S) :
                \A k \in Newer(i, S) : history[j].mtime <= history[k].mtime
      prev == CHOOSE j \in Older(i, S) :
                \A k \in Older(i, S) : history[j].mtime >= history[k].mtime
  IN  history[next].mtime - history[prev].mtime

Interior(S) == {i \in S : Newer(i, S) # {} /\ Older(i, S) # {}}

\* Mutants: the cap drops the newest, or the oldest, snapshot.
Thinnable_Newest(S) == {i \in S : Newer(i, S) = {}}
Thinnable_Oldest(S) == {i \in S : Older(i, S) = {}}

\* The interior snapshot whose neighbours are closest; the newest on a tie.
Thinnable(S) ==
  {i \in Interior(S) : \A j \in Interior(S) :
     \/ Separation(i, S) < Separation(j, S)
     \/ /\ Separation(i, S) = Separation(j, S)
        /\ history[i].mtime >= history[j].mtime}

-----------------------------------------------------------------------------
(* SaveVault and RestoreHistory *)

\* Mutant: only an older version is a conflict.
Conflicting_Older(e, cur) == e < cur.version

\* The optimistic concurrency check.
Conflicting(e, cur) == e # cur.version

\* Mutant: version 1 is not archived.
HasArchive_NotFirst(cur) == cur.version > 1

\* Version 0 has nothing to archive.
HasArchive(cur) == cur.version > 0

AfterCheck(cur) == IF HasArchive(cur) THEN "archive" ELSE "kdbx"

\* Mutant: the error of reading the snapshot is dropped.
RestoredData_Lost(id) == None

RestoredData(id) == history[id].content

NewVersion == op.cur.version + 1

\* SaveVault takes the lock, reads the metadata and checks the version the
\* client named.
BeginSave(b, e) ==
  /\ LockFree
  /\ clock < MaxClock
  /\ Len(committed) < MaxVersion
  /\ \E cur \in ReadMeta :
       /\ Conflicting(e, cur) => FreeConflictIds # {}
       /\ op' = [pc |-> IF Conflicting(e, cur) THEN "conflict" ELSE AfterCheck(cur),
                 kind |-> "save", expected |-> e, data |-> b, cur |-> cur]
  /\ UNCHANGED <<disk, clock, told>>

\* A rejected upload is kept under a name of its own, then answered 409.
WriteConflict ==
  /\ op.pc = "conflict"
  /\ \E id \in FreeConflictIds :
       /\ rejected' = Put(rejected, id, op.data)
       /\ \/ conflicts' = Put(conflicts, id, op.data)
          \/ "copy" \in Faults /\ UNCHANGED conflicts
  /\ op' = Idle
  /\ UNCHANGED <<kdbx, meta, history, clock, committed, torn, overwritten,
                 granted, seen>>

\* RestoreHistory reads the chosen snapshot, then the metadata.
BeginRestore(id) ==
  /\ LockFree
  /\ clock < MaxClock
  /\ Len(committed) < MaxVersion
  /\ id \in DOMAIN history
  /\ \E cur \in ReadMeta :
       op' = [pc |-> AfterCheck(cur), kind |-> "rollback",
              expected |-> cur.version, data |-> RestoredData(id), cur |-> cur]
  /\ UNCHANGED <<disk, clock, told>>

\* The version whose archive copy is being taken from other content, if it is.
NotedOverwrite ==
  IF kdbx = committed[op.cur.version] THEN overwritten
  ELSE overwritten \cup {op.cur.version}

\* The current file is copied into history before it is replaced.
Archive ==
  /\ op.pc = "archive"
  /\ clock' = clock + 1
  /\ \/ history' = Put(history, ArchiveId, [content |-> kdbx, mtime |-> clock + 1])
     \/ "copy" \in Faults /\ UNCHANGED history
  /\ overwritten' = NotedOverwrite
  /\ op' = [op EXCEPT !.pc = "kdbx"]
  /\ UNCHANGED <<kdbx, meta, conflicts, committed, torn, rejected, granted, seen>>

\* vault.kdbx.tmp is written and renamed over vault.kdbx.
WriteKdbx ==
  /\ op.pc = "kdbx"
  /\ kdbx' = op.data
  /\ op' = [op EXCEPT !.pc = "meta"]
  /\ UNCHANGED <<meta, history, conflicts, clock, told>>

\* metadata.json.tmp is written and renamed: the version is committed here.
SaveMetadata ==
  /\ op.pc = "meta"
  /\ meta' = [version |-> NewVersion, sum |-> op.data, stamp |-> clock,
              devs |-> op.cur.devs]
  /\ committed' = Append(committed, op.data)
  /\ op' = [op EXCEPT !.pc = "prune"]
  /\ UNCHANGED <<kdbx, history, conflicts, clock, torn, overwritten, rejected,
                 granted, seen>>

\* pruneOldHistoryLocked drops what is past retention; above the cap it drops
\* one interior snapshot at a time, keeping the newest and the oldest.
Prune ==
  /\ op.pc = "prune"
  /\ IF Cardinality(Fresh) > MaxHistory
     THEN /\ \E i \in Thinnable(Fresh) : history' = Keep(history, Fresh \ {i})
          /\ UNCHANGED op
     ELSE /\ history' = Keep(history, Fresh)
          /\ op' = Idle
  /\ UNCHANGED <<kdbx, meta, conflicts, clock, told>>

\* The process stops, or the handler returns an error: the lock is released
\* and the disk stays as the last finished step left it.
Stop ==
  /\ "crash" \in Faults
  /\ op # Idle
  /\ op' = Idle
  /\ torn' = IF op.pc = "meta" THEN torn \cup {meta.version} ELSE torn
  /\ UNCHANGED <<disk, clock, committed, overwritten, rejected, granted, seen>>

\* The copies into history and conflicts are written in place, not renamed: a
\* crash in the middle leaves a shorter file under the final name.
StopInCopy ==
  /\ "crash" \in Faults
  /\ \/ /\ op.pc = "archive"
        /\ clock' = clock + 1
        /\ history' = Put(history, ArchiveId,
                          [content |-> Partial, mtime |-> clock + 1])
        /\ overwritten' = NotedOverwrite
        /\ UNCHANGED conflicts
     \/ /\ op.pc = "conflict"
        /\ \E id \in FreeConflictIds : conflicts' = Put(conflicts, id, Partial)
        /\ UNCHANGED <<clock, history, overwritten>>
  /\ op' = Idle
  /\ UNCHANGED <<kdbx, meta, committed, torn, rejected, granted, seen>>
-----------------------------------------------------------------------------
(* Envelopes: the metadata is read, changed and renamed into place whole,   *)
(* with a new UpdatedAt; vault.kdbx is left alone.                           *)

RewriteEnvelopes(cur, devs) ==
  /\ meta' = [cur EXCEPT !.devs = devs, !.stamp = clock]
  /\ UNCHANGED <<kdbx, history, conflicts, clock, op, committed, torn,
                 overwritten, rejected, seen>>

\* Mutant: the lock is not taken.
SetDeviceEnvelope_NoLock(d) ==
  /\ \E cur \in ReadMeta : RewriteEnvelopes(cur, cur.devs \cup {d})
  /\ granted' = granted \cup {d}

SetDeviceEnvelope(d) ==
  /\ LockFree
  /\ \E cur \in ReadMeta : RewriteEnvelopes(cur, cur.devs \cup {d})
  /\ granted' = granted \cup {d}

\* A request without a device map keeps the devices; with one, it replaces them.
SaveEnvelopes ==
  /\ LockFree
  /\ \E cur \in ReadMeta :
       \/ /\ RewriteEnvelopes(cur, cur.devs)
          /\ UNCHANGED granted
       \/ \E devs \in SUBSET Devices :
            /\ RewriteEnvelopes(cur, devs)
            /\ granted' = devs

\* Here a failed metadata read is returned to the caller.
RemoveDeviceEnvelope(d) ==
  /\ LockFree
  /\ RewriteEnvelopes(meta, meta.devs \ {d})
  /\ granted' = granted \ {d}

DiscardConflict(id) ==
  /\ LockFree
  /\ id \in DOMAIN conflicts
  /\ conflicts' = Keep(conflicts, ConflictIds \ {id})
  /\ rejected' = Keep(rejected, ConflictIds \ {id})
  /\ UNCHANGED <<kdbx, meta, history, clock, op, committed, torn, overwritten,
                 granted, seen>>
-----------------------------------------------------------------------------
(* Reads *)

Read(by) ==
  /\ seen' = [by |-> by, version |-> meta.version, content |-> kdbx]
  /\ UNCHANGED <<disk, clock, op, committed, torn, overwritten, rejected, granted>>

\* Mutant: the read lock is not taken.
OpenVault_NoLock ==
  /\ meta.version > 0
  /\ Read("OpenVault")

\* OpenVault: the metadata's version with whatever vault.kdbx holds.
OpenVault ==
  /\ LockFree
  /\ meta.version > 0
  /\ Read("OpenVault")

\* Snapshot returns the pair for a recovery capsule, unless the checksum in
\* the metadata is not that of vault.kdbx.
Snapshot ==
  /\ LockFree
  /\ meta.version > 0
  /\ meta.sum = kdbx
  /\ Read("Snapshot")

\* Time passes between requests.
Tick ==
  /\ LockFree
  /\ clock < MaxClock
  /\ clock' = clock + 1
  /\ UNCHANGED <<disk, op, told>>

Next ==
  \/ \E b \in Blobs, e \in 0..MaxVersion : BeginSave(b, e)
  \/ \E id \in DOMAIN history : BeginRestore(id)
  \/ WriteConflict
  \/ Archive
  \/ WriteKdbx
  \/ SaveMetadata
  \/ Prune
  \/ Stop
  \/ StopInCopy
  \/ \E d \in Devices : SetDeviceEnvelope(d) \/ RemoveDeviceEnvelope(d)
  \/ SaveEnvelopes
  \/ \E id \in ConflictIds : DiscardConflict(id)
  \/ OpenVault
  \/ Snapshot
  \/ Tick

Spec == Init /\ [][Next]_vars
-----------------------------------------------------------------------------
(* Properties *)

IsCopyOf(i, v) == i.version = v /\ history[i].content = committed[v]

\* A snapshot named after version n holds what version n was, or is a copy cut
\* short, unless the archive of n was taken after a writer stopped half-way.
HistoryFaithful ==
  \A i \in DOMAIN history :
    i.version \notin overwritten =>
      /\ i.version \in 1..Len(committed)
      /\ history[i].content \in {committed[i.version], Partial}

\* At every point of every writer, and after it stops anywhere, the content of
\* the current version can still be read: from vault.kdbx, or from history.
CurrentVersionOnDisk ==
  meta.version > 0 =>
    \/ kdbx = committed[meta.version]
    \/ \E i \in DOMAIN history : IsCopyOf(i, meta.version)

\* The same, for a version no interrupted writer has been retried at: the
\* archive step comes before the rename it protects against.
FirstStopRecoverable == meta.version \notin overwritten => CurrentVersionOnDisk

\* The version a save or a rollback has just replaced is in history when it
\* returns, whatever retention and the cap removed (pruneOldHistoryLocked).
PreviousVersionKept ==
  meta.version >= 2 /\ meta.version - 1 \notin overwritten =>
    \E i \in DOMAIN history : IsCopyOf(i, meta.version - 1)

\* "The rejected encrypted upload is preserved": every upload answered with a
\* ConflictError is in conflicts/, whole, until the user discards it.
RejectedKept ==
  \A i \in DOMAIN rejected : i \in DOMAIN conflicts /\ conflicts[i] = rejected[i]

\* No stored device envelope is lost, and no removed one returns, because a
\* save or a rollback writes back metadata read before the change.
EnvelopesKept == meta.devs = granted

\* A recovery snapshot never pairs one version's metadata with another's
\* ciphertext; a download does so only where a writer stopped half-way.
ReadsCommitted ==
  \/ seen.by = "nobody"
  \/ seen.by = "OpenVault" /\ seen.version \in torn
  \/ seen.version \in 1..Len(committed) /\ seen.content = committed[seen.version]

\* The metadata names the latest version committed, and every commit took the
\* next number: the latest vault can be downloaded at any time.
LatestNamed ==
  /\ meta.version = Len(committed)
  /\ meta.version > 0 => meta.sum = committed[meta.version]

\* Optimistic concurrency: an accepted upload replaces exactly the latest
\* version ever committed, and that is the one its client named.
SaveBuildsOnNamed ==
  [][committed' # committed /\ op.kind = "save" => op.expected = Len(committed)]_vars

\* The cap thins a burst of saves: what it removes lies between two snapshots
\* that stay, so the window history reaches back to shrinks only with age.
CapKeepsWindow ==
  [][\A i \in DOMAIN history \ DOMAIN history' :
       \/ history[i].mtime + Retention < clock
       \/ \E j, k \in DOMAIN history' :
            /\ history'[j].mtime < history[i].mtime
            /\ history'[k].mtime > history[i].mtime]_vars
-----------------------------------------------------------------------------
(* What the clients see *)

\* A writer that has not saved its metadata yet is a request being served; it
\* takes effect at that one rename, or not at all.
Serving ==
  IF op = Idle \/ op.pc = "prune" THEN [kind |-> "none"]
  ELSE [kind |-> op.kind, base |-> op.expected, content |-> op.data]

Clients == INSTANCE VersionedVault WITH
  Contents <- Contents, Names <- ConflictIds,
  versions <- committed, kept <- rejected, request <- Serving

\* Whatever a writer's file operations are and wherever it stops, clients see a
\* store that takes one upload at a time, appends it if it names the latest
\* version, keeps it if it does not, and otherwise drops it without a trace.
ImplementsVersions == Clients!Spec
=============================================================================
