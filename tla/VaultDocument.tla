---------------------------- MODULE VaultDocument ----------------------------
(***************************************************************************)
(* The open vault (KeePassVault, frontend/src/lib/kdbx.ts) and the page    *)
(* that edits it: VaultPage with its attachment panel, entry history       *)
(* dialog and conflict comparison.                                         *)
(*                                                                         *)
(* An entry is its text fields, taken together as one of Contents, its     *)
(* attached files, its folder and its history.  The page keeps a listing   *)
(* of the entries as of the last refreshVaultData and an editor whose      *)
(* fields are loaded from that listing.  An action is one event handler    *)
(* with the render and the effects that follow it; adding an attachment    *)
(* is three, because it awaits the file and its hash.                      *)
(***************************************************************************)
EXTENDS Integers, Sequences, FiniteSets

CONSTANTS
  Entries,      \* entry UUIDs
  None,         \* no entry
  Root, Folder, Bin,
  Contents,     \* values of an entry's text fields
  Blank,        \* the fields of a new entry
  Files,        \* attachments: a name and its bytes, each of size one
  Inline,       \* those an imported file holds unhashed in every version
  Budget,       \* MAX_VAULT_ATTACHMENT_BYTES
  Limits,       \* values of historyMaxItems; a negative one is unlimited
  FirstVault,   \* the entries when the vault is opened
  Conflict,     \* the preserved conflict's entries, by UUID
  EditorMayBeOpen, \* may the user roll back with an unchanged editor open?
  MaxChanges,   \* bound: changes to the document
  MaxAdding     \* bound: attachments being added, the aborted ones included

VARIABLES
  doc,        \* entry -> the entry, or Absent
  limit,      \* meta.historyMaxItems
  recycling,  \* meta.recycleBinEnabled
  hasBin,     \* is there a recycle bin group?
  listed,     \* VaultPage's entries and recycledIds
  selected,   \* selectedEntryUuid
  editing,    \* isEditing
  draft,      \* the editor's fields and folder
  touched,    \* has the user typed since the editor was loaded?
  hidden,     \* another tab of the application is shown
  dialog,     \* which dialog is open
  picked,     \* EntryHistoryModal's selectedIndex
  adding,     \* attachments being added
  recovered,  \* entries recovered since the comparison was opened
  changes     \* changes so far, up to MaxChanges

vault == <<doc, limit, recycling, hasBin>>
page == <<listed, selected, editing, draft, touched>>
dialogs == <<hidden, dialog, picked, recovered>>
vars == <<vault, page, dialogs, adding, changes>>

Absent == [folder |-> None]

Versions == [fields : Contents, files : SUBSET Files]
Drafts == [fields : Contents, folder : {Root, Folder}]

EntryType ==
  [folder : {Root, Folder, Bin}, fields : Contents, files : SUBSET Files,
   history : Seq(Versions)]

ASSUME DocumentAssumption ==
  /\ IsFiniteSet(Entries) /\ None \notin Entries
  /\ Bin \notin {Root, Folder} /\ None \notin {Root, Folder, Bin}
  /\ Blank \in Contents
  /\ IsFiniteSet(Files) /\ Inline \subseteq Files
  /\ Limits \subseteq Int
  /\ FirstVault \in [Entries -> EntryType \cup {Absent}]
  /\ DOMAIN Conflict \subseteq Entries /\ Conflict \in [DOMAIN Conflict -> EntryType]
  /\ Budget \in Nat /\ MaxChanges \in Nat /\ MaxAdding \in Nat
  /\ EditorMayBeOpen \in BOOLEAN

Dialogs == {"none", "history", "versions", "opening", "failed", "comparing"}

TypeOK ==
  /\ doc \in [Entries -> EntryType \cup {Absent}]
  /\ limit \in Limits
  /\ recycling \in {"on", "off", "unset"} /\ hasBin \in BOOLEAN
  /\ \A e \in Entries : doc[e].folder = Bin => hasBin
  /\ listed \in [Entries -> [folder : {Root, Folder, Bin}, fields : Contents]
                              \cup {Absent}]
  /\ selected \in Entries \cup {None}
  /\ editing \in BOOLEAN /\ touched \in BOOLEAN
  /\ draft.fields \in Contents
  /\ hidden \in BOOLEAN /\ dialog \in Dialogs /\ picked \in Nat
  /\ adding \subseteq [entry : Entries, file : Files, aborted : BOOLEAN,
                       step : {"read", "hash"}]
  /\ recovered \subseteq Entries
  /\ recovered # {} => dialog = "comparing"
  /\ changes \in 0..MaxChanges
-----------------------------------------------------------------------------
(* The document *)

Present(d) == {e \in Entries : d[e] # Absent}

\* findEntry found the entry and its folder is not in the recycle bin.
Live(d, e) == d[e].folder \in {Root, Folder}

VersionsOf(entry) ==
  {[fields |-> entry.fields, files |-> entry.files]} \cup
  {entry.history[i] : i \in DOMAIN entry.history}

\* A hashed file is kept once.
Hashed(d) ==
  (UNION {UNION {v.files : v \in VersionsOf(d[e])} : e \in Present(d)}) \ Inline

\* An inline one is kept in every version that has it; version 0 is the entry.
FilesIn(entry, i) == IF i = 0 THEN entry.files ELSE entry.history[i].files

InlineCopies(d) ==
  UNION {UNION {{<<e, i, f>> : f \in FilesIn(d[e], i) \cap Inline} :
                  i \in 0..Len(d[e].history)} :
           e \in Present(d)}

AttachmentUsage(d) == Cardinality(Hashed(d)) + Cardinality(InlineCopies(d))

HistoryEnabled == limit # 0

Current(entry) == [fields |-> entry.fields, files |-> entry.files]

\* Mutant: the newest version is dropped when the history is full.
Pruned_Newest(history) ==
  IF limit >= 0 /\ Len(history) > limit
  THEN SubSeq(history, 1, limit) ELSE history

Pruned(history) ==
  IF limit >= 0 /\ Len(history) > limit
  THEN SubSeq(history, Len(history) - limit + 1, Len(history)) ELSE history

PushEntryHistory(entry) ==
  IF HistoryEnabled
  THEN [entry EXCEPT !.history = Pruned(Append(@, Current(entry)))]
  ELSE entry

UpdateEntry(d, e, new) ==
  [d EXCEPT ![e] = [PushEntryHistory(d[e]) EXCEPT !.fields = new.fields,
                                                  !.folder = new.folder]]

\* The version is taken before the history is pruned.
RestoreEntryVersion(d, e, i) ==
  LET version == d[e].history[i] IN
  [d EXCEPT ![e] = [PushEntryHistory(d[e]) EXCEPT !.fields = version.fields,
                                                  !.files = version.files]]

\* kdbxweb's remove moves to the bin if there is one and it is enabled.
Remove(d, e, enabled, bin) ==
  [d EXCEPT ![e] = IF enabled /\ bin THEN [d[e] EXCEPT !.folder = Bin]
                   ELSE Absent]

RecyclingEnabled == recycling # "off"

AddAttachment(d, e, f) ==
  [d EXCEPT ![e] = [PushEntryHistory(d[e]) EXCEPT !.files = @ \cup {f}]]

FitsBudget(e, f) ==
  LET checkpoint == IF HistoryEnabled
                    THEN Cardinality(doc[e].files \cap Inline) ELSE 0
  IN  AttachmentUsage([doc EXCEPT ![e].files = @ \cup {f}]) + checkpoint
        <= Budget

Without(history, files) ==
  [i \in DOMAIN history |-> [history[i] EXCEPT !.files = @ \ files]]

\* The current files are checkpointed first, so fromHistory takes f out of
\* that version too.
RemoveFile(d, e, f, fromHistory) ==
  LET kept == PushEntryHistory(d[e]) IN
  [d EXCEPT ![e] = [kept EXCEPT
     !.files = @ \ {f},
     !.history = IF fromHistory THEN Without(@, {f}) ELSE @]]

HasAttachmentHistory(e) ==
  \E i \in DOMAIN doc[e].history : doc[e].history[i].files # {}
-----------------------------------------------------------------------------
(* The page after a handler: what it shows, loads and aborts *)

View(d) ==
  [e \in Entries |->
     IF d[e] = Absent THEN Absent
     ELSE [folder |-> d[e].folder, fields |-> d[e].fields]]

\* selectedEntry's uuid
Shown(list, e) == IF e # None /\ list[e] # Absent THEN e ELSE None

SelectedEntry == Shown(listed, selected)
Recycled == SelectedEntry # None /\ listed[SelectedEntry].folder = Bin

DraftDirty ==
  /\ editing
  /\ SelectedEntry # None
  /\ draft # listed[SelectedEntry]

\* EntryAttachments is mounted for this entry, read-only or not.
Panel(list, e, edit, hide) ==
  IF ~edit /\ ~hide /\ Shown(list, e) # None
  THEN [entry |-> e, readOnly |-> list[e].folder = Bin]
  ELSE [entry |-> None]

Attachments == Panel(listed, selected, editing, hidden)

\* Mutant: leaving the panel does not abort the addition in progress.
Abort_Never(pending) == pending

Abort(pending) == {[a EXCEPT !.aborted = TRUE] : a \in pending}

\* The page renders list with e selected.  The editor is loaded when another
\* entry appears; unmounting the attachment panel aborts what it was adding.
Render(list, e, edit, fields, typed, pending) ==
  LET loads == Shown(list, e) \notin {None, SelectedEntry} IN
  /\ listed' = list
  /\ selected' = e
  /\ editing' = edit
  /\ draft' = IF loads THEN list[e] ELSE fields
  /\ touched' = (typed /\ ~loads)
  /\ adding' = IF Panel(list, e, edit, hidden') = Attachments THEN pending
               ELSE Abort(pending)

\* refreshVaultData selects a live entry when nothing is selected.
Refresh(d, edit) ==
  \E e \in IF selected # None THEN {selected}
           ELSE IF \E x \in Entries : Live(d, x)
           THEN {x \in Entries : Live(d, x)} ELSE {None} :
    Render(View(d), e, edit, draft, touched, adding)

Changed == changes < MaxChanges /\ changes' = changes + 1

NoDialog == dialog = "none" /\ ~hidden
-----------------------------------------------------------------------------
(* Browsing and editing *)

\* A click on an entry of the list or on Recycle Bin.  With unapplied edits
\* it asks first, and a user who declines has done nothing.
Select(e) ==
  /\ NoDialog
  /\ e # None => listed[e] # Absent
  /\ UNCHANGED <<vault, dialogs, changes>>
  /\ Render(listed, e, FALSE, draft, touched, adding)

\* Mutant: the editor opens with whatever it last loaded.
Loaded_Stale == draft

Loaded == listed[SelectedEntry]

Edit ==
  /\ NoDialog
  /\ ~editing /\ SelectedEntry # None /\ ~Recycled
  /\ UNCHANGED <<vault, dialogs, changes>>
  /\ Render(listed, selected, TRUE, Loaded, FALSE, adding)

Type(new) ==
  /\ NoDialog
  /\ editing /\ SelectedEntry # None
  /\ UNCHANGED <<vault, dialogs, changes>>
  /\ Render(listed, selected, editing, new, TRUE, adding)

Cancel ==
  /\ NoDialog
  /\ editing /\ SelectedEntry # None /\ ~Recycled
  /\ UNCHANGED <<vault, dialogs, changes>>
  /\ Render(listed, selected, FALSE, Loaded, FALSE, adding)

HandleSaveEntry ==
  /\ NoDialog
  /\ editing /\ SelectedEntry # None /\ ~Recycled
  /\ IF draft = View(doc)[selected]
     THEN UNCHANGED <<doc, changes>>
     ELSE doc' = UpdateEntry(doc, selected, draft) /\ Changed
  /\ UNCHANGED <<limit, recycling, hasBin, dialogs>>
  /\ Refresh(doc', FALSE)

NewEntry(folder, fields, files, history) ==
  [folder |-> folder, fields |-> fields, files |-> files, history |-> history]

HandleCreateNewEntry(e, folder) ==
  /\ NoDialog
  /\ doc[e] = Absent
  /\ Changed
  /\ doc' = [doc EXCEPT ![e] = NewEntry(folder, Blank, {}, <<>>)]
  /\ UNCHANGED <<limit, recycling, hasBin, dialogs>>
  /\ Render(View(doc'), e, TRUE, draft, touched, adding)

\* Mutant: kdbxweb is left to recycle, which it does only into a bin that is
\* already there.
BinMade_Never == hasBin

BinMade == hasBin \/ RecyclingEnabled

HandleDeleteEntry ==
  /\ NoDialog
  /\ ~editing /\ SelectedEntry # None /\ ~Recycled
  /\ Changed
  /\ IF Live(doc, selected)
     THEN /\ hasBin' = BinMade
          /\ recycling' = IF RecyclingEnabled THEN "on" ELSE "off"
          /\ doc' = Remove(doc, selected, RecyclingEnabled, hasBin')
     ELSE UNCHANGED <<doc, hasBin, recycling>>
  /\ UNCHANGED <<limit, dialogs>>
  /\ Render(View(doc'), None, editing, draft, touched, adding)

HandleRestoreEntry ==
  /\ NoDialog
  /\ Recycled
  /\ doc[selected].folder = Bin
  /\ Changed
  /\ doc' = [doc EXCEPT ![selected].folder = Root]
  /\ UNCHANGED <<limit, recycling, hasBin, dialogs>>
  /\ Refresh(doc', editing)

\* The user goes to another tab of the application, or comes back.
Navigate ==
  /\ dialog = "none"
  /\ hidden' = ~hidden
  /\ UNCHANGED <<vault, dialog, picked, recovered, changes>>
  /\ Render(listed, selected, editing, draft, touched, adding)
-----------------------------------------------------------------------------
(* Attachments *)

CanChangeFiles ==
  /\ NoDialog
  /\ Attachments.entry # None /\ ~Attachments.readOnly
  /\ \A a \in adding : a.aborted    \* not busy

StartAdding(f) ==
  /\ CanChangeFiles
  /\ Cardinality(adding) < MaxAdding
  /\ adding' = adding \cup
       {[entry |-> selected, file |-> f, aborted |-> FALSE, step |-> "read"]}
  /\ UNCHANGED <<vault, page, dialogs, changes>>

\* The file's bytes arrive, or the signal was aborted meanwhile.
FileRead(a) ==
  /\ a \in adding /\ a.step = "read"
  /\ adding' = (adding \ {a}) \cup
                 (IF a.aborted THEN {} ELSE {[a EXCEPT !.step = "hash"]})
  /\ UNCHANGED <<vault, page, dialogs, changes>>

MayAdd(a) ==
  /\ ~a.aborted
  /\ Live(doc, a.entry)
  /\ a.file \notin doc[a.entry].files
  /\ FitsBudget(a.entry, a.file)

\* addAttachment after its hash.  The page renders as onChanged asks.
FileHashed(a) ==
  /\ a \in adding /\ a.step = "hash"
  /\ IF MayAdd(a)
     THEN /\ Changed
          /\ doc' = AddAttachment(doc, a.entry, a.file)
     ELSE UNCHANGED <<doc, changes>>
  /\ UNCHANGED <<limit, recycling, hasBin, dialogs>>
  /\ Render(IF doc' = doc THEN listed ELSE View(doc'), selected, editing,
            draft, touched, adding \ {a})

RemoveAttachment(f, fromHistory) ==
  /\ CanChangeFiles
  /\ Live(doc, selected) /\ f \in doc[selected].files
  /\ Changed
  /\ doc' = RemoveFile(doc, selected, f, fromHistory)
  /\ UNCHANGED <<limit, recycling, hasBin, dialogs>>
  /\ Refresh(doc', editing)

ClearAttachmentHistory ==
  /\ CanChangeFiles
  /\ Live(doc, selected) /\ HasAttachmentHistory(selected)
  /\ Changed
  /\ doc' = [doc EXCEPT ![selected].history = Without(@, Files)]
  /\ UNCHANGED <<limit, recycling, hasBin, dialogs>>
  /\ Refresh(doc', editing)
-----------------------------------------------------------------------------
(* Entry history *)

OpenEntryHistory ==
  /\ NoDialog
  /\ ~editing /\ SelectedEntry # None
  /\ dialog' = "history"
  /\ picked' = Len(doc[selected].history)
  /\ UNCHANGED <<vault, page, hidden, recovered, adding, changes>>

PickVersion(i) ==
  /\ dialog = "history"
  /\ i \in DOMAIN doc[selected].history
  /\ picked' = i
  /\ UNCHANGED <<vault, page, hidden, dialog, recovered, adding, changes>>

RestoreVersion ==
  /\ dialog = "history"
  /\ ~Recycled /\ Live(doc, selected)
  /\ picked \in DOMAIN doc[selected].history
  /\ HistoryEnabled
  /\ Changed
  /\ doc' = RestoreEntryVersion(doc, selected, picked)
  /\ dialog' = "none" /\ picked' = 0
  /\ UNCHANGED <<limit, recycling, hasBin, hidden, recovered>>
  /\ Refresh(doc', editing)

CloseDialog ==
  /\ dialog # "none"
  /\ dialog' = "none" /\ picked' = 0 /\ recovered' = {}
  /\ UNCHANGED <<vault, page, hidden, adding, changes>>
-----------------------------------------------------------------------------
(* Version History: conflicts and rollback *)

OpenVersions ==
  /\ NoDialog
  /\ ~DraftDirty
  /\ dialog' = "versions"
  /\ UNCHANGED <<vault, page, hidden, picked, recovered, adding, changes>>

Compare ==
  /\ dialog = "versions"
  /\ dialog' = "opening"
  /\ UNCHANGED <<vault, page, hidden, picked, recovered, adding, changes>>

ConflictOpened ==
  /\ dialog = "opening"
  /\ dialog' \in {"comparing", "failed"}
  /\ UNCHANGED <<vault, page, hidden, picked, recovered, adding, changes>>

Back ==
  /\ dialog \in {"opening", "comparing", "failed"}
  /\ dialog' = "versions" /\ recovered' = {}
  /\ UNCHANGED <<vault, page, hidden, picked, adding, changes>>

\* A copy under a new UUID, with files and history, in the top folder.
Recover(source, e) ==
  /\ dialog = "comparing"
  /\ source \in DOMAIN Conflict \ recovered
  /\ Conflict[source].folder # Bin
  /\ doc[e] = Absent
  /\ Changed
  /\ doc' = [doc EXCEPT ![e] = [Conflict[source] EXCEPT !.folder = Root]]
  /\ recovered' = recovered \cup {source}
  /\ UNCHANGED <<limit, recycling, hasBin, hidden, dialog, picked>>
  /\ Render(View(doc'), e, editing, draft, touched, adding)

\* The server went back to the first vault and initVault opened it.  The
\* effects of the new vault read the listing of the old one: refreshVaultData
\* replaces the listing, loadEditor the editor's fields by the old entry's.
Rollback ==
  /\ dialog = "versions"
  /\ ~DraftDirty
  /\ editing => EditorMayBeOpen
  /\ Changed
  /\ doc' = FirstVault
  /\ dialog' = "none"
  /\ listed' = View(FirstVault)
  /\ draft' = IF Shown(listed', selected) \notin {None, SelectedEntry}
              THEN listed'[selected]
              ELSE IF SelectedEntry # None THEN Loaded ELSE draft
  /\ adding' = Abort(adding)
  /\ hasBin' = \E e \in Entries : FirstVault[e].folder = Bin
  /\ UNCHANGED <<limit, recycling, selected, editing, touched, hidden, picked,
                 recovered>>
-----------------------------------------------------------------------------
Init ==
  /\ doc = FirstVault
  /\ limit \in Limits
  /\ recycling \in {"on", "off", "unset"}
  /\ hasBin = \E e \in Entries : doc[e].folder = Bin
  /\ listed = View(doc)
  /\ \E e \in Entries, new \in Drafts, restored \in BOOLEAN :
       \* restored: initialDraft reopens the editor a lock had closed.
       /\ Live(doc, e)
       /\ restored \/ new = View(doc)[e]
       /\ selected = e /\ editing = restored /\ touched = restored
       /\ draft = new
  /\ hidden = FALSE /\ dialog = "none" /\ picked = 0
  /\ adding = {} /\ recovered = {}
  /\ changes = 0

Next ==
  \/ \E e \in Entries \cup {None} : Select(e)
  \/ \E new \in Drafts : Type(new)
  \/ Edit \/ Cancel \/ HandleSaveEntry
  \/ \E e \in Entries, folder \in {Root, Folder} :
       HandleCreateNewEntry(e, folder)
  \/ HandleDeleteEntry \/ HandleRestoreEntry \/ Navigate
  \/ \E f \in Files \ Inline : StartAdding(f)
  \/ \E a \in adding : FileRead(a) \/ FileHashed(a)
  \/ \E f \in Files, fromHistory \in BOOLEAN : RemoveAttachment(f, fromHistory)
  \/ ClearAttachmentHistory
  \/ OpenEntryHistory \/ RestoreVersion \/ CloseDialog
  \/ \E i \in 1..MaxChanges : PickVersion(i)
  \/ OpenVersions \/ Compare \/ ConflictOpened \/ Back \/ Rollback
  \/ \E source, e \in Entries : Recover(source, e)

Spec == Init /\ [][Next]_vars
-----------------------------------------------------------------------------
(* What the page promises *)

\* An open editor in which nothing was typed holds what its entry holds, so
\* applying it cannot undo what another part of the page has done to the
\* entry meanwhile (VaultPage.tsx: loadEditor, EntryHistoryModal's
\* onRestored, HistoryModal's onRecovered and onReload).
EditorShowsEntry ==
  editing /\ ~touched /\ Shown(View(doc), selected) # None
    => draft = View(doc)[selected]

\* A file is added only to the entry whose attachments are on the screen: an
\* addition that was under way when the user went elsewhere, edited, deleted
\* or rolled back never lands.  One that lands leaves the vault within its
\* attachment budget, counting history, recycled entries and the version the
\* addition itself retains (EntryAttachments.tsx, addAttachment).
AddsLandInView ==
  [][\A a \in adding :
       FileHashed(a) /\ doc' # doc
         => /\ Attachments = [entry |-> a.entry, readOnly |-> FALSE]
            /\ AttachmentUsage(doc') <= Budget]_vars

\* With recycling on, deleting keeps an entry whole in the recycle bin: no
\* entry leaves the vault, and the contents of a recycled one do not change
\* until it is restored (deleteEntry; the readOnly forms of VaultPage.tsx).
\* A rollback replaces the whole vault.
RecycledFrozen ==
  [][dialog # "versions" => \A e \in Entries :
       /\ RecyclingEnabled /\ doc[e] # Absent => doc'[e] # Absent
       /\ doc[e].folder = Bin =>
            doc'[e] \in {doc[e], [doc[e] EXCEPT !.folder = Root]}]_vars

\* Whatever replaces an entry's fields or files keeps what it replaces as the
\* newest version and drops the oldest ones only, as many as the limit asks
\* (README.md, Entry history; pushEntryHistory, restoreEntryVersion).
FieldsOf(history) == [i \in DOMAIN history |-> history[i].fields]

LastN(s, n) == SubSeq(s, Len(s) - n + 1, Len(s))

ReplacedKept ==
  [][dialog # "versions" /\ HistoryEnabled => \A e \in Entries :
       LET old == doc[e]
           new == doc'[e]
           all == Append(FieldsOf(old.history), old.fields)
       IN  Absent \notin {old, new} /\ Current(new) # Current(old)
           => FieldsOf(new.history) =
                IF limit > 0 /\ Len(all) > limit THEN LastN(all, limit)
                ELSE all]_vars
=============================================================================
