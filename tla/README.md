# TLA+ models of KyPassword Server

KyPassword Server keeps users' encrypted KeePass vaults, the wrapped keys that open
them, and an audit log of what was done; its browser client opens, edits and saves
the vaults. The server never sees a password. What can go wrong is therefore loss and
disorder: a version overwritten, an upload dropped, an edit that a lock or a reload
swallows, a vault shown again after it was locked, a record missing from the log.
These modules model that, check it with TLC on small instances and prove most of the
safety properties with TLAPS for every value of the constants.

Paths below are relative to the repository's root; `lib/`, `pages/` and `components/`
are those of `frontend/src`.

## The system

One Go process (`cmd/server`) serves an HTTP API (`internal/api`) and a browser
client (`frontend`). Everything is in memory or in files of two directories; there
is no database. Requests run concurrently; each store has one mutex. The client is
one page per tab: its code runs one callback at a time and is interleaved at awaits.

| Component | State | Operations | Hard parts | Model |
|---|---|---|---|---|
| Vault store, `internal/vault` | per user: `vault.kdbx`, `metadata.json`, `history/`, `conflicts/`; one RWMutex | SaveVault, RestoreHistory, envelopes, DiscardConflict, OpenVault, Snapshot, pruning | a stop between two files; conflicts; names reused; the cap of 100 | `VaultStore`, `VaultLock`, `VersionedVault` |
| Audit log, `internal/audit` | `audit.jsonl`, `audit.state`, the chain in memory | Log, NewStore (placeTail, trimTornTail, converge) | crashes, power losses, short writes, format conversion | `AuditChain` |
| Audit budget, `internal/api/audit_budget.go` | a table of counters by source | take, sweep, drain, Close | counts folded once; shutdown; a full table | `AuditBudget` |
| Save queue, `lib/vaultSave.ts` | revision, saved revision, timer, version | changed, save, discard | edits during a save; lost answers; other clients | `VaultSync` |
| Unlocking and autolock, `App.tsx`, `lib/autoLock.ts`, `lib/lockedDraft.ts` | unlock generation, lock flags, recovery copies, the cached key | unlock, lock, recover, forget | unlocks overtaken by locks; other tabs; storage that fails | `AppVault` |
| Vault contents, `lib/kdbx.ts`, `pages/VaultPage.tsx` and its dialogs | entries, history, attachments, the recycle bin; listing, selection and editor | edit, create, delete, restore, attach, recover, roll back | stale listings; late file additions; pruned versions; the budget | `VaultDocument` |
| CSV import, `lib/csvImport.ts`, `CsvImportModal.tsx` | preview and selection | parse, detect, map, import | quoting and line ends; duplicates; folders of one path; half an import | `CsvImport` |
| Sessions and sign-in, `server.go`, `auth_handlers.go`, `sso_logout.go`, `internal/sso` | sessions, pending sign-ins, logout log | sign in, link, sign out, logout event | a logout racing a sign-in; replays | none |
| Devices and pairing, `internal/devices` | devices, pairing codes and PINs | start, redeem, revoke, cancel | revoke racing redeem; PIN collisions | none |
| User directory and its replication, `internal/users`, `internal/sync`, `sync_*.go`, `cmd/server/link.go` | accounts, receipts | create, link, role; webhook, SCIM | failed saves; redelivery; two processes on one file | none |
| Backup service, `internal/backup` | pairing, run state | pair, run, schedule, drill | try-locks, snapshots of five stores | none |
| Instance lock, startup | a lock file | flock | | none |

How they interact. A handler authenticates, calls one store and then the audit log.
Browser clients meet in the vault store, by version numbers: an upload names the
version it was made from, and the server answers 409 and preserves the upload if that
is not the latest. A tab's `App` makes a save queue for each vault it opens and discards
it when the vault is locked, reloaded or rolled back; unsaved edits then become a
recovery copy, which the next unlock reads. The vault page changes the open document
and calls the queue's `changed`. Tabs of one browser share `localStorage`, the cached
device key and the recovery copies.

What makes each of them correct:

- vault store: no committed version, rejected upload or envelope is lost; a read
  returns a committed version; pruning is bounded and keeps the window history
  reaches back to; nobody waits for ever;
- audit log: the server never refuses a log only it has written; an acknowledged
  record stays, and the log up to it only grows;
- audit budget: a rejection is recorded once, alone or in a count, at the latest by
  Close; the table is bounded;
- save queue: what is reported saved is what a version holds; no client overwrites
  what it has not seen; every edit is saved, reported, or recoverable;
- unlocking: a locked vault is shown again only for a password; unsaved work outlives
  the lock; an idle tab locks;
- contents: an editor never puts back older fields; nothing is deleted or replaced
  without the copy the program promises; a late addition never lands;
- import: rows are read as written, chosen entries are added once and in their
  folders, and a failed import changes nothing.

## Modules

### VaultStore

One user's directory. Constants are the contents a client may upload, the devices,
the names for rejected uploads, the history cap, the retention period and which
faults the environment may produce.

`kdbx`, `meta`, `history` and `conflicts` are the files; `clock` is time in instants,
of which `Second` make the whole second that `UpdatedAt.Unix()` keeps in a snapshot's
name. Every writer holds `Store.mu` for its whole body, so one variable `op` is the
writer under way, and it is cut at its file operations:

| Code (`vault.go`) | Actions |
|---|---|
| SaveVault | `BeginSave`, then `WriteConflict`, or `Archive`, `WriteKdbx`, `SaveMetadata`, `Prune` |
| RestoreHistory | `BeginRestore`, then the same from `Archive` on |
| pruneOldHistoryLocked | `Prune`: one snapshot a step while above the cap |
| SetDeviceEnvelope, SaveEnvelopes, RemoveDeviceEnvelope, DiscardConflict | one action each: their only effect on the disk is one rename or one removal |
| OpenVault, Snapshot | one action each, under the read lock |
| a crash, or an error return with the disk as it is | `Stop` between two steps, `StopInCopy` inside a copy written in place |

The code drops two kinds of errors: of reading `metadata.json` (`vault.go:251`, `276`,
`352`, `477`) and of writing a copy (`359`, `373`, `484`). `ReadMeta` and the second
alternative of `Archive` and `WriteConflict` are those, enabled by `Faults`.

The variables after `op` record what clients were told and exist only for the
properties: `committed` lists the contents that became versions; `torn` the versions
at which a writer stopped between the two renames; `overwritten` the versions
whose archive was then taken from other content; `rejected` and `granted` the
uploads and envelopes the store answers for; `seen` the latest read.

Data left out: contents are values that are only compared; names keep only the fields
they are made of; the checksum is the content itself. Time advances at each archive
copy and between requests, so modification times are distinct.

### VersionedVault

What the vault store promises its clients, as an abstract specification: a sequence
of versions, the rejected uploads that are kept, and the request being served.
`Commit` adds a version if the request is acceptable, `Refuse` keeps the upload and
answers with a conflict, `Fail` changes nothing, `Discard` removes a rejected upload.

It is used twice. `VaultStore!ImplementsVersions` states that the files implement it
under the mapping `versions <- committed`, `kept <- rejected`: each commit of the
abstract server is one file operation of the real one, and everything before and after
it, stops included, is a stutter or a `Fail`. And `VaultSync` takes it as its server,
so that what is shown of the clients rests on what is shown of the store.

### VaultLock

`VaultStore` treats the lock as free of hazards. `VaultLock` models the lock itself:
downloads (OpenVault, which calls GetMetadata with the read lock held), lookups
(GetMetadata) and saves (every writer), each repeated. The actions named after
`sync.RWMutex` are Go's: a writer announces itself, which makes later readers wait,
then waits for the readers it found (`awaited`), and its Unlock lets waiting readers
in. `Holding` and `HoldingTwice` are the requests with at least one and with two read
locks. `WritesExclude` is what allows `VaultStore` to take a read as one step;
`SomeoneGoesOn` says that the requests never all wait unless `Wedged`, which is how
the nested read lock of OpenVault can stop everybody.

### AuditChain

`log` and `mark` are the two files as the process reads them; `synced` and `marks`
are what a power loss may leave: any prefix of the log from the flushed part on, and
any mark whose rename was issued (its bytes are flushed before, the rename is not).
`Log`, `WriteFails`, `Sync`, `SaveAnchor` and `SaveAnchorFails` are the steps of
Store.Log; `Boot`, `Adopt`, `Convert` and `SaveConverted` those of NewStore. A record
is its position, its predecessor's digest, its format and the entry it carries; a
digest is injective. A line without its newline is `Fragment`, one that does not
decode `Junk`. The library `auditchain` (its Append, Replay, Resume, VerifyRecord) is
not in the repository and is modelled by how `audit.go` uses it.

A `Scenario` says which faults a behaviour may have and what the first boot finds,
because the code tolerates them only in some combinations, and the runs say which.

### AuditBudget

`take` is one step under the budget's mutex (`Reject`); the records it leads to are
kept in `todo` until the request writes them (`Write`), the summary before the single
record. Where the code has a count the model has the set of the rejections that were
counted, so that one counted twice, or in no record, can be told; the code's count is
the size of that set. `Sweep` is the flush goroutine's tick, `Stop`, `FlushStops`, `Drain` and
`CloseReturns` are `main`'s shutdown; `timedOut` says that Shutdown gave up on
handlers. A window's age is exact up to `Window`. The audit store may refuse any
record; that is counted in `failed`, as `auditFailures` does.

### VaultSync

Several tabs on one vault. `queue[c]` is the open vault of a tab with its
`VaultSaveQueue`, `stale[c]` the discarded queues whose `save()` is still suspended,
`loading[c]` the `initVault` under way, `draft[c]` the recovery copy of an automatic
lock. `wire` and `answers` are messages in flight; each may be lost, answers to an aborted
request are not delivered, and the request may still be served.

| Code | Actions |
|---|---|
| VaultSaveQueue.changed, its timer, save, Retry Save | `Edit`, `TimerFires`, `Retry` |
| save after its awaits | `Exported` (the export), `Answered` (the upload), `StaleResumes` (after discard) |
| initVault | `BeginOpen`, `Metadata`, `Created`, `Download`, `LoadFails` |
| locking, signing out, giving up edits | `CloseVault`, `GiveUp`, `AutoLock` |
| HistoryModal: rollback and discarding a conflict | `Rollback`, `RolledBack`, `DiscardConflict` |
| handleVaultUpload, handleVaultHistoryRestore | `Take`, then `Accept`, `Reject` or `Break` |

A vault is the set of edits it contains, so that a lost update is an edit missing from
a later version. `made`, `givenUp`, `late` and `gone` exist for the properties:
`givenUp` are edits the user agreed to lose, `gone` those discarded before any request
carried them, `late` those made or recovered while a rollback was under way, which
the reload after it replaces without asking. Which tab may open with which key is left
to `AppVault`.

### AppVault

The tabs of one browser. `local`, `keyCached` and `drafts` are `localStorage`, the
device key and the recovery copies in IndexedDB; `session[t]` is the tab's
`sessionStorage` and survives a reload; `app[t]` is the state and refs of `App`;
`loads[t]` are its `initVault` calls, each cut at its awaits: `Start`, `ReadCopy`,
`Opened`, `StoreKey`, `ClearKey`, `Removed`. `current` in a load is `current()` of the
code: a later load or a lock supersedes it. `AutoLock`, `Seal`, `PutDraft` and
`CheckDone` are `autoLock.current` and the checkpoint it starts; `Forget` waits for
that checkpoint, as `checkpoint.current.then` does. Time is two values, before and
after the idle deadline.

A new copy gets a name that no copy has, the code's random identifier. Browser
storage fails by `Faults`. Saving is `Use`'s matter only so far that work
becomes settled; `ChangePassword` and `GeneratePaperRecovery` change the envelopes, of
which `Unwraps` says what opens the vault.

### VaultDocument

An open vault and its page. `doc` gives each entry its folder, fields, files and
history; `limit`, `recycling` and `hasBin` are the file's history limit and recycle-bin
settings, all values of which an imported file may have. `listed` is the page's last listing, `selected`,
`editing`, `draft` the editor, `dialog` the dialog on top, `adding` the file additions
suspended at reading (`FileRead`) or hashing (`FileHashed`). `Render` is what React does
after any of these changes: it reloads the editor when the selection changes and aborts the additions of
a panel that is taken down. The actions are the page's handlers, each whole: for
instance `HandleDeleteEntry` makes the bin, removes, refreshes and selects.

Fields are one value, files are names with a size of one; an inline file (from another
client) costs its size in every version, a shared one once. `AttachmentUsage` counts
both as sets: `Hashed` the shared files, `InlineCopies` the inline ones together with
the entry and the version each copy is in.

### CsvImport

The parser, `parseCsvRecords`, works token by token (`ScanQuoted`, `ScanField`,
`ScanLineEnd`, `ScanEnd`) over texts that a table `Writes`: the external program that
exported a table, with each delimiter, line end, quoting and with or without a byte
order mark. A token is a letter sequence or a special character, so header names stay
whole. `Detect` and `Columns` are the provider tables of the code. The dialog is
`HandleProcessCsv`, the toggles and `HandleExecuteImport` (`Import` in either mode), which
is `applyImportToVault`: duplicates, validation, folders, entries. `Reopen` opens the
dialog again, so a file can be imported twice. The loops of the code (filtering, reading a
path, descending to a folder, the rows of an import) are recursive functions with a value
for each turn, which the proofs can unfold.

## Runs

| Run | Shows | Instance |
|---|---|---|
| `vault` | history, conflicts, envelopes and reads under stops at every step; refinement of `VersionedVault` | 2 contents, 1 device, 1 conflict name, cap 2, 3 versions, 4 instants of half a second |
| `vault_errors` | with dropped errors too: no absent file is used, the cap keeps the window | the same with 2 versions, 3 instants |
| `vault_lock` | exclusion; somebody can always go on, and every request returns, unless the store is wedged | 2 downloads, 1 lookup, 2 writers |
| `lock_wedge` | **violated**: a download need not return | the same |
| `audit` | reconciliation after crashes, or power losses, with write and mark errors, and that the log only grows, in every kind of environment the theorems allow | up to 2 records at boot, 5 in all |
| `budget` | conservation, bounds, shutdown, and that every rejection is recorded in the end | 4 requests, 3 sources, table of 1, 1 record a window |
| `sync` | no edit is lost, overwritten unseen or wrongly reported saved; edits settle | 2 tabs, 2 edits, rollback up to 3 versions, 1 fault, 1 close |
| `app` | locks hold against older unlocks and other tabs; work stays recoverable | 2 tabs, 1 password, 1 piece of work, 2 copies, 2 loads a tab; the key store may fail |
| `app_tab` | recovery where copies or references cannot be kept; idle tabs lock | 1 tab, 2 codes, 2 pieces of work |
| `app_paper` | **violated**: the paper code does not unlock | the same without faults |
| `document` | editor, attachments, recycle bin and history of the page | 2 entries, 2 contents, 2 files, budget 2, limits 0 and 1, 3 changes, 2 additions |
| `csv` | parser, duplicates, folders, and failure before any change | tables of `MC_CsvImport`, 2 imports, paths up to 2 deep |

Why the bounds are enough. In `vault` three versions give two snapshots besides the
one being taken, which exceeds the cap of two; with instants of half a second both
equal and different names occur, and a retention of three instants lets snapshots
expire. A stop and a retry at one version, a restore of a snapshot and a third save
all fit. In `audit` five records leave room for a mark two behind, a fragment
and an append after each repair. In `budget` four requests are the least that fill
the table, use up the overflow bucket's allowance, suppress one rejection in it and fold
it from another request. In `sync` two edits are one before and one during an upload,
or one in each tab; three versions let a rollback follow a version the other tab made;
one fault gives a lost request, a lost answer or a failed export, each followed by a
retry. In `app` two loads a tab let an unlock be overtaken by another, and a lock
between them; in `app_tab` two pieces of work put one into a copy and one into the
vault that is opened from it. In `document` three changes and a limit of one reach a
pruned version and its restoration, two additions compete for the budget. In `csv` the tables
have quoted delimiters, quotes and line ends, blank rows, equal rows, nested and
invalid folders.

Symmetry is declared where no liveness property is checked. `CHECK_DEADLOCK FALSE` is
set where the system may stop: after Close, where the lock is wedged (which
`OnlyWedgeStops` states separately), at the bounds of edits and closes, and when the
dialog was used twice.

`NoLostUpdate`, `CachedKeyRespectsLock`, `AppendOnly` and the properties of
`VaultDocument` and `CsvImport` that compare two states are action properties;
`ImplementsVersions` is the refinement.

### Fairness

Safety is checked without relying on fairness. `VaultLock` assumes that a request that
can go on does (weak fairness of its steps: goroutines are scheduled) and that a writer
trying for the inner mutex in the end gets it (strong fairness of `Announce`: Go's mutex
has a starvation mode). `AuditBudget` assumes that handlers, the flush goroutine and
Close run and that time passes; nobody is assumed to send another request, which is
the case the flush goroutine is there for, nor to stop the server. `VaultSync` assumes
that the server answers what it has taken, that it does not pass over a tab's request
for ever (strong fairness of `TakeFrom`, since several requests compete), and that
timers fire and promises settle; nobody is assumed to edit, retry or close. `AppVault`
assumes that the interval that checks the deadline runs (weak fairness of `AutoLock`)
and that loads under way go on; the user may keep moving the pointer, which is the
case `IdleLocks` is about.

### Where code and text disagree

Two runs end in a violation, with the lines they contradict under `findings`: the
nested read lock of OpenVault, and the paper recovery code. Some properties hold only
with exceptions that are stated in them or in the instance, because the code does
otherwise; each is listed under `hazards` with its line:

- a save that stopped between its two renames, retried within the same second, leaves
  the current version on disk nowhere (`FirstStopRecoverable` speaks of the first stop);
- a rollback's snapshot is listed as version 0;
- the audit log is refused after a crash between its first record and the first mark,
  after a crash, a start and a power loss, and after an error of Sync or Close;
- a summary of the overflow bucket names the source that happened to fold it;
- edits made while a rollback is under way, or recovered by an unlock that overlaps
  it, are replaced by the reload after it (`late`);
- a recovery copy that could not be read loses its reference to the next lock
  (fault `read`), or to a superseded unlock where storage is slow (fault `slow`); and
  a later unlock that can read it again, with the cached key, shows the vault although
  another tab was locked in between: the look at the locks after the download comes
  before the copy is removed and the vault shown;
- a rollback confirmed while the editor is open leaves the older fields in it
  (`EditorMayBeOpen`).

## Proofs

Each `_proofs` module EXTENDS the module it is about; the theorems hold for every
value of the constants: any number of tabs, requests, sources, versions, edits and
stops. The table lists the results, most of them properties of a run. Where a theorem
assumes something of its constants, the code does not keep the property otherwise; the
assumption is a definition of the proof module, and runs within it exist.

| Module | Theorems | Assumes |
|---|---|---|
| `VaultStore_proofs` | `TypeCorrect`, `CapSafe` | nothing |
| | `HistorySafe`, `CurrentSafe`, `PreviousSafe`, `ConflictsSafe`, `EnvelopesSafe`, `ReadsSafe`; `LatestSafe`, `SavesSafe` | `NoDroppedErrors` |
| | `StoreImplementsVersions` | `NoDroppedErrors` |
| `VaultLock_proofs` | `WritesExcludeSafe`, `SomeoneGoesOnSafe`, `TypeCorrect` | nothing |
| `AuditChain_proofs` | `AcknowledgedSafe`, `AppendOnlySafe` | `AllDurable` |
| | `NeverRefusesSafe`, `LogVerifiesSafe` | `AllReconciled` |
| `AuditBudget_proofs` | `FoldedSafe`, `CloseSafe`, `TypeCorrect` | nothing |
| `VaultSync_proofs` | `SavedSafe`, `EditsSafe`, `DiscardedSafe`, `NoLostUpdateSafe`, `TypeCorrect` | nothing |
| `AppVault_proofs` | `LockedSafe`, `ForgottenSafe`, `TypeCorrect` | nothing |
| | `CachedKeySafe` | `CopiesRead` |
| | `RecoverableSafe` | `CopiesRead`, `StorageInTime` |
| `VaultDocument_proofs` | `RecycledSafe`, `ReplacedSafe`, `AdditionsSafe`, `TypeCorrect` | nothing |
| | `EditorSafe` | `~EditorMayBeOpen` |
| `CsvImport_proofs` | `ImportFailsWhole`, `ImportedOnce`, `ImportLands`, `ImportTyped` | nothing |
| | `RowsReadAsWritten` | `Readable` of every table |

The properties are seldom inductive: each argument is in what has to be added.

### VaultStore

The type invariant and `CapKeepsWindow` hold whatever errors are dropped; the rest
assumes `NoDroppedErrors`: faults are stops only. (A dropped error of reading
`metadata.json` lets a writer start from version 0; `vault_errors` is where those
faults are checked.) Nothing in the properties says why the content about to be
overwritten is already in history, or that a writer's copy of the metadata is still
the one on disk. `Core` adds it:

- `Serial`: a writer under way holds the lock, and the metadata it read (`op.cur`) is
  still `metadata.json`; this is where the envelopes and version numbers come from;
- `FileIsCurrent`: outside of the window between the two renames, and unless a
  writer stopped there, `vault.kdbx` is the content of the metadata's version;
- `ArchiveTaken`: a writer past its archive step has that content in history, as the
  newest snapshot, which is the one the cap never removes;
- `NoFutureSnapshot`: no modification time is in the future, so the next copy taken
  will be the newest too;
- `FilePresent`: no writer reaches a step whose file is absent;
- `LatestNamed` and `EnvelopesKept`, which are properties of their own.

`CoreNext` has one step per action; the properties themselves are each preserved from a
state of `Core` (`HistoryFaithfulNext` to `ReadsNext`). `StoreInvariant` combines them,
and the theorems follow. `TypeCorrect` and `CapSafe` rest on `TInv` alone (`TypeOK` with
`FilePresent`), which every step preserves whatever errors are dropped.

`StoreImplementsVersions`: the files implement `VersionedVault`. The mapping
reads what clients were told (`committed`, `rejected`) and who is being served;
`RInv` adds to `Core` that a writer sent to the conflict step is a save that named
another version than the latest. `BeginRefines` and the lemmas after it take the
actions one by one: a rename of `metadata.json` is a `Commit`, a finished copy of a
rejected upload a `Refuse`, a stop a `Fail`, and the archive, the KDBX and the pruning
are steps nobody sees.

### VaultLock

`Places` says which program counters a kind of request goes through, `Ownership` that
the owner is the one writer past its announcement, that `awaited` counts exactly the
read locks that are left (`Holding` and `HoldingTwice`, so that a writer enters when
the last is gone, not before), and that readers wait only while there is an owner. From
it, `SomeoneGoesOnSafe`: when nobody can go on, somebody owns the lock, is only
announced, and so waits for a reader; a reader that holds a lock and cannot go on is
in OpenVault's inner RLock, which is `Wedged`.

### AuditChain

A run gives behaviours a set of `Scenarios`; the theorems are about every set of
`Durable`, and of `Reconciled`, ones (`AllDurable`, `AllReconciled`). The two
predicates list what the code does not survive: a short write that cannot be cut off,
a conversion that is not flushed, a failed flush, a process crash followed by a power
loss, and a stop between the first record and its mark. The scenarios of the run
`audit` are all the kinds they leave. `AInv` says that a recorded entry is in
the part no fault takes (`AckedIsSafe`), which needs to know that the record of the
call under way is the last line and flushed when Log says so (`CallUnderWay`), and that a
log is rewritten only where power does not fail (`NotRewritten`). `AppendOnly` (what the
source calls the trail: a reported entry and all before it keep their places) takes in
addition `Reported`: no entry is reported before it is minted, and where power may fail
each record of a reported entry, and so all before it, is flushed; `PrefixKeeps` says
which prefixes a step has to leave alone. `CInv` is that a start
never refuses: the log is an older one as found (`Untouched`) or it is `Sound`:
chained, its anchor that of the last record, and the mark, with every mark a power
loss may bring back, that of a record which is in the flushed part.

### AuditBudget

`FoldedNeverDropped`, that every rejection is in exactly one place (a single record, a
folded count, a window, a record yet to be written, or a failed one), is inductive
together with the types, `Room` (the table's cap, by cardinalities) and `Orderly`: who
may still write in which phase of the shutdown. `Orderly` is what `CloseSafe`
needs: the drain is the last to empty the table, after the flush goroutine stopped
and, unless Shutdown gave up on them, all handlers.

### VaultSync

`Protocol` relates a queue to what is in flight for it. A tab has at most one request for
a purpose, sent, served or answered (`OneInFlight`); a save waits for exactly the
content its request or answer carries, unless it was edited since (`MessagesMatch`,
`AnswersMatch`); and whoever names the latest version holds all its edits
(`QueuesBased`, `DraftsBased`). The last is why a 409 suffices for `NoLostUpdate`;
the first two are why an answer makes only the right revision "saved".
`Whereabouts` says where edits are: two tabs share only what some version has
(`Private`), so what one of them discards unsent no other can send
(`DiscardedStaysOut`), and what a reload replaces is stored, or made around the
rollback (`Replaceable`).

### AppVault

`KInv` bounds what may be under way in a tab: at most one unlock in force, none while
the vault is open, only one at its beginning while a checkpoint runs, and a superseded
one only in its last awaits. It gives `LockedSafe` and `ForgottenSafe` whatever the
storage does. `CachedKeySafe` needs `CopiesRead`: a tab with something to recover is locked
(`Locked`), so an unlock with the cached key finds nothing to recover and shows the
vault as soon as it looked at the locks for the second time. If a copy could not be
read at first and can be later, that fails (see above).

`RecoverableSafe` needs `StorageInTime` too: an unlock superseded while it reads a copy
drops the reference to it, and only if the storage takes longer than the idle
deadline can that be a reference a later lock relies on. Its invariant follows the
copy: what a checkpoint has kept so far (`Checking`), that an unlock which read a copy
has the one its tab refers to or holds in memory (`Reading`), that a copy being removed
is in memory with the browser's warning set (`Removing`), and that all copies under one
name are the same (`Agree`).

### VaultDocument

`DocumentInvariant` is what every handler leaves behind: the listing is the document's
(`VaultOK`), an editor or a history dialog is open only where the page allows it
(`Editor`, `Dialog`), and an addition that was not aborted is of the entry whose panel
is shown for change (`InView`). `RenderFacts` to `ChangeRender` say once what the page
does after a change; then there is one lemma per handler, which shows that it keeps
the invariant and makes an allowed `DocStep`: one entry at most changes, no entry
leaves while recycling is on, a recycled entry changes only by being restored, and
what replaces fields or files pushes them as the newest version (`Allowed`, `Pushed`).
`RecycledSafe` and `ReplacedSafe` are read off `DocStep`. `EditorSafe` needs the
listing to be current when the editor is loaded, and `~EditorMayBeOpen`: a rollback is
not confirmed over an open editor (see above).

`AdditionsSafe` needs `InView` for the entry, and for the budget that the check made
before the change covers what the change does. `FitsBudget` looks at the vault with
the file added, plus a copy of the entry's inline files; `AddAttachment` in addition
prunes the history. `AdditionCost`: the shared files are no more than in that vault,
and the inline copies go into those of that vault and the checkpoint, one to one
(the versions that are left shift by the number of pruned ones).

### CsvImport

The handlers are loops over the data, so these proofs are inductions over the turns of a
loop. The library's induction theorems cannot be instantiated; `Induction` gets the same
from well-foundedness, which takes a set. `Loop` gives a recursive function its
equations, `Determined` says that two loops with the same equations end alike, and
`Chain` that a loop whose k-th turn leads from `D[k - 1]` to `D[k]` ends in `D[n]`.

`Typed` is the types, and that folders are a tree with parents before their children
(`TreeFacts` to `MapsFacts` rest on it: a folder's path is well defined, and a new folder
changes no other's). An import then goes through these:

- `Sound`, the loop invariant over rows: every path in the map leads to a live folder of
  that path and every live folder's path is in the map (`MapKnows`), and no folder made
  by this import shares its path with a live one (`Fresh`). Each segment of a path keeps
  it (`Descended`), so `GetOrCreateGroup` does (`Walked`);
- `Done` and `Placed`: the rows so far have their entries, in order, in the folder
  of their path; the entries before the import are as they were;
- `Imported`: an import was refused and nothing changed, or the pending
  rows, chosen and not skipped as duplicates, were all entered (`FoldersImported`,
  `SingleImported`).

`ImportFailsWhole` and `ImportLands` are read off `Imported`. `ImportedOnce` also takes
what the duplicate filter keeps: of the rows with one content the one of least index,
unless a live entry has that content already.

`RowsReadAsWritten` is an induction along the text that is written, for any tables,
delimiter, line end, style of quoting and cells (quotes, delimiters and line ends in
them included). `OccursFlatten`, `OccursJoin` and `Layouts` give every field its place
in it, as written plain or between quotes with the quotes in it doubled.
`DelimiterFound` is that the first line gives away the delimiter; this needs
`Readable`: each row has a cell, and the names of the first row are two or more and
hold no delimiter, line end or byte order mark. (With one column, or another delimiter in
a name, the code cannot know the delimiter and may take the wrong one.) `AsWritten` is
the invariant: the parser is in
field j of row i, its `rows` are those kept of the first i - 1, its `row` the first j - 1
cells, its `field` the first k characters of the cell; it is before the field, in plain
text, in a quotation or just behind it. What makes it inductive is that each place is
unambiguous: the character behind a field is never a quote (`BehindCell`), no line
starts with LF, so CR is taken for CRLF only where it is one (`FirstOfLine`,
`WidthFound`), and a last row that is one empty cell is blank, written or not (`NothingIsBlank`).

### Only model-checked

- Liveness under fairness (`OnlyWedgeStops`, `EventuallyAccounted`, `EditsSettle`,
  `IdleLocks`), which the prover does not do.

## Not modelled

- Sessions, sign-in, devices and pairing, the user directory and its replication, the
  backup service: their protocols end in services and libraries outside the
  repository. `PROJECT.json` lists each with its reason.
- Power losses in the vault store: nothing there is flushed, so a rename may reach
  the disk without its bytes. `VaultStore` stops the process, not the machine.
- Several users: the stores of two users share nothing but the lock, which
  `VaultLock` has; Snapshot fails for all users because of one.
- Request parsing, size limits, authentication of requests, file modes.
- Cryptography: which secret opens which envelope is kept, how is not.
- In the client: creating and renaming folders, search, the password generator, TOTP
  codes, the clipboard, a file read by FileReader, the pages for administrators.

## Plan

1. Done: `VaultStore`, `VersionedVault`, `VaultLock`, `VaultSync`, `AppVault`,
   `VaultDocument`, `CsvImport`, `AuditChain`, `AuditBudget` are modelled and checked,
   and every safety property of a passing run is proved, as far as said above.
2. To model next: sessions with the logout fence and pairing, then the directory
   with webhook, SCIM and administrators.
