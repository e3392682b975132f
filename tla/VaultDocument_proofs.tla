------------------------ MODULE VaultDocument_proofs ------------------------
(***************************************************************************)
(* Theorems about VaultDocument, for any entries, contents, files, limits  *)
(* and number of changes.  The argument is one lemma per handler: a step   *)
(* that is no rollback changes one entry at most, and only in the ways of  *)
(* Allowed, and renders a page in which listing, editor and attachment     *)
(* panel belong together.                                                  *)
(***************************************************************************)
EXTENDS VaultDocument, SequenceTheorems, FiniteSetTheorems, TLAPS

Docs == [Entries -> EntryType \cup {Absent}]
Lines == [folder : {Root, Folder, Bin}, fields : Contents]
Listings == [Entries -> Lines \cup {Absent}]
Additions ==
  [entry : Entries, file : Files, aborted : BOOLEAN, step : {"read", "hash"}]

\* The listing is never behind the document when a handler is done.
VaultOK ==
  /\ doc \in Docs
  /\ limit \in Limits
  /\ recycling \in {"on", "off", "unset"} /\ hasBin \in BOOLEAN
  /\ \A e \in Entries : doc[e].folder = Bin => hasBin
  /\ listed = View(doc)

FirstHasBin == \E e \in Entries : FirstVault[e].folder = Bin

\* An editor is open on a recycled entry, or with a recycled entry's folder in
\* it, only after a rollback under it; and the fields in it are those of its
\* entry until the user types.
PageOK(list, e, edit, fields, typed, bin) ==
  /\ e \in Entries \cup {None}
  /\ edit \in BOOLEAN /\ typed \in BOOLEAN
  /\ fields \in Lines
  /\ edit /\ Shown(list, e) # None =>
       /\ list[e].folder = Bin => EditorMayBeOpen /\ FirstHasBin
       /\ fields.folder = Bin => bin /\ FirstHasBin
       /\ ~EditorMayBeOpen /\ ~typed => fields = list[e]

Editor == PageOK(listed, selected, editing, draft, touched, hasBin)

\* An entry's history is not opened over its editor.
Dialog ==
  /\ hidden \in BOOLEAN /\ dialog \in Dialogs /\ picked \in Nat
  /\ dialog = "history" => ~editing /\ selected # None
  /\ recovered \subseteq Entries
  /\ recovered # {} => dialog = "comparing"
  /\ changes \in 0..MaxChanges

\* An addition that is not aborted is of the entry whose panel is shown.
InView ==
  /\ adding \subseteq Additions
  /\ \A a \in adding :
       ~a.aborted => Attachments = [entry |-> a.entry, readOnly |-> FALSE]

IInv == VaultOK /\ Editor /\ Dialog /\ InView
-----------------------------------------------------------------------------
(* Entries and their history *)

\* What an entry's history becomes when a version is pushed, as to fields.
Pushed(entry) ==
  LET all == Append(FieldsOf(entry.history), entry.fields) IN
  IF limit > 0 /\ Len(all) > limit THEN LastN(all, limit) ELSE all

\* An absent entry is in no folder.
LEMMA AbsentFacts ==
  /\ Absent \notin EntryType /\ Absent \notin Lines
  /\ Absent.folder = None
  /\ \A d \in Docs : \A e \in Entries :
       /\ d[e] = Absent \/ d[e] \in EntryType
       /\ d[e] = Absent <=> d[e].folder = None
       /\ Live(d, e) <=> d[e] # Absent /\ d[e].folder # Bin
BY DocumentAssumption DEF Absent, EntryType, Lines, Docs, Live

\* The listing shows what is there.
LEMMA ViewFacts ==
  ASSUME NEW d \in Docs
  PROVE  /\ View(d) \in Listings
         /\ \A e \in Entries :
              /\ View(d)[e] = Absent <=> d[e] = Absent
              /\ d[e] # Absent => View(d)[e] = [folder |-> d[e].folder, fields |-> d[e].fields]
              /\ d[e] # Absent => View(d)[e].folder = d[e].folder
<1>1. ASSUME NEW e \in Entries, d[e] # Absent
      PROVE  /\ [folder |-> d[e].folder, fields |-> d[e].fields] \in Lines
             /\ [folder |-> d[e].folder, fields |-> d[e].fields] # Absent
  <2>1. PICK x \in EntryType : x = d[e]
    BY <1>1 DEF Docs
  <2>2. [folder |-> x.folder, fields |-> x.fields] \in Lines
    BY DEF EntryType, Lines
  <2> QED
    BY <2>1, <2>2, AbsentFacts
<1> QED
  BY <1>1, AbsentFacts DEF View, Listings

LEMMA FieldsOfFacts ==
  ASSUME NEW h \in Seq(Versions)
  PROVE  /\ FieldsOf(h) \in Seq(Contents) /\ Len(FieldsOf(h)) = Len(h)
         /\ \A i \in 1..Len(h) : FieldsOf(h)[i] = h[i].fields
<1>1. /\ Len(h) \in Nat /\ DOMAIN h = 1..Len(h)
      /\ \A i \in 1..Len(h) : h[i] \in Versions
  BY LenProperties, ElementOfSeq
<1>2. \A i \in 1..Len(h) : h[i].fields \in Contents
  BY <1>1 DEF Versions
<1>3. FieldsOf(h) = [i \in 1..Len(h) |-> h[i].fields]
  BY <1>1 DEF FieldsOf
<1>4. FieldsOf(h) \in [1..Len(h) -> Contents]
  BY <1>2, <1>3
<1>5. FieldsOf(h) \in Seq(Contents) /\ Len(FieldsOf(h)) = Len(h)
  BY <1>1, <1>4, SeqDef, LenProperties
<1> QED
  BY <1>3, <1>5

\* Two histories with the same fields, version by version.
LEMMA SameFields ==
  ASSUME NEW h \in Seq(Versions), NEW s \in Seq(Contents), Len(h) = Len(s),
         \A i \in 1..Len(h) : h[i].fields = s[i]
  PROVE  FieldsOf(h) = s
<1>1. FieldsOf(h) \in Seq(Contents) /\ Len(FieldsOf(h)) = Len(s)
  BY FieldsOfFacts
<1>2. \A i \in 1..Len(s) : FieldsOf(h)[i] = s[i]
  BY FieldsOfFacts
<1> QED
  BY <1>1, <1>2, SeqEqual

\* The end of a sequence.
LEMMA LastFacts ==
  ASSUME NEW S, NEW q \in Seq(S), NEW n \in 1..Len(q)
  PROVE  /\ LastN(q, n) \in Seq(S) /\ Len(LastN(q, n)) = n
         /\ \A i \in 1..n : /\ Len(q) - n + i \in 1..Len(q)
                            /\ LastN(q, n)[i] = q[Len(q) - n + i]
<1>1. PICK k \in Nat : k = Len(q)
  BY LenProperties
<1>2. PICK m \in 1..k : m = k - n + 1
  BY <1>1
<1>3. \A i \in m..k : q[i] \in S
  BY <1>1, <1>2, ElementOfSeq
<1>4. PICK s : s = SubSeq(q, m, k)
  OBVIOUS
<1>5. /\ s \in Seq(S) /\ Len(s) = k - m + 1
      /\ \A i \in 1..k - m + 1 : s[i] = q[m + i - 1]
  BY <1>2, <1>3, <1>4, SubSeqProperties
<1>6. k - m + 1 = n /\ \A i \in 1..n : m + i - 1 = k - n + i /\ k - n + i \in 1..k
  BY <1>1, <1>2
<1>7. LastN(q, n) = s
  BY <1>1, <1>2, <1>4 DEF LastN
<1> QED
  BY <1>1, <1>5, <1>6, <1>7

\* The newest of a history, as to fields.
LEMMA LastFields ==
  ASSUME NEW full \in Seq(Versions), NEW all \in Seq(Contents), Len(full) = Len(all),
         \A i \in 1..Len(full) : full[i].fields = all[i],
         NEW n \in 1..Len(full)
  PROVE  LastN(full, n) \in Seq(Versions) /\ FieldsOf(LastN(full, n)) = LastN(all, n)
<1>1. PICK s : s = LastN(full, n)
  OBVIOUS
<1>2. PICK t : t = LastN(all, n)
  OBVIOUS
<1>3. /\ s \in Seq(Versions) /\ Len(s) = n
      /\ \A i \in 1..n : Len(full) - n + i \in 1..Len(full) /\ s[i] = full[Len(full) - n + i]
  BY <1>1, LastFacts
<1>4. /\ t \in Seq(Contents) /\ Len(t) = n
      /\ \A i \in 1..n : t[i] = all[Len(all) - n + i]
  <2>1. n \in 1..Len(all)
    OBVIOUS
  <2> QED
    BY <1>2, <2>1, LastFacts
<1>5. \A i \in 1..Len(s) : s[i].fields = t[i]
  BY <1>3, <1>4
<1> QED
  BY <1>1, <1>2, <1>3, <1>4, <1>5, SameFields

\* What a push keeps, and what becomes of the history.
LEMMA PushFacts ==
  ASSUME NEW x \in EntryType, limit \in Limits
  PROVE  /\ PushEntryHistory(x) \in EntryType
         /\ PushEntryHistory(x).folder = x.folder
         /\ PushEntryHistory(x).fields = x.fields
         /\ PushEntryHistory(x).files = x.files
         /\ HistoryEnabled => FieldsOf(PushEntryHistory(x).history) = Pushed(x)
<1>1. CASE ~HistoryEnabled
  BY <1>1 DEF PushEntryHistory
<1>2. CASE HistoryEnabled
  <2> DEFINE h == x.history
             full == Append(h, Current(x))
             all == Append(FieldsOf(h), x.fields)
  <2>1. h \in Seq(Versions) /\ Current(x) \in Versions /\ x.fields \in Contents
    BY DEF EntryType, Current, Versions
  <2>2. /\ full \in Seq(Versions) /\ Len(full) = Len(h) + 1 /\ Len(h) \in Nat
        /\ \A i \in 1..Len(h) : full[i] = h[i]
        /\ full[Len(h) + 1] = Current(x)
    BY <2>1, AppendProperties, LenProperties
  <2>3. /\ FieldsOf(h) \in Seq(Contents) /\ Len(FieldsOf(h)) = Len(h)
        /\ \A i \in 1..Len(h) : FieldsOf(h)[i] = h[i].fields
    BY <2>1, FieldsOfFacts
  <2>4. /\ all \in Seq(Contents) /\ Len(all) = Len(h) + 1
        /\ \A i \in 1..Len(h) : all[i] = FieldsOf(h)[i]
        /\ all[Len(h) + 1] = x.fields
    BY <2>1, <2>2, <2>3, AppendProperties
  <2>5. \A i \in 1..Len(full) : full[i] \in Versions /\ full[i].fields = all[i]
    BY <2>1, <2>2, <2>3, <2>4, ElementOfSeq DEF Current
  <2>6. limit \in Int /\ limit # 0
    BY <1>2, DocumentAssumption DEF HistoryEnabled
  <2>7. Pruned(full) \in Seq(Versions) /\ FieldsOf(Pruned(full)) = Pushed(x)
    <3>1. CASE limit > 0 /\ Len(full) > limit
      <4>1. limit \in 1..Len(full) /\ Len(all) = Len(full)
        BY <2>2, <2>4, <2>6, <3>1
      <4>2. Pruned(full) = LastN(full, limit)
        BY <2>6, <3>1 DEF Pruned, LastN
      <4>3. Pushed(x) = LastN(all, limit)
        BY <3>1, <4>1 DEF Pushed
      <4> QED
        BY <2>2, <2>4, <2>5, <4>1, <4>2, <4>3, LastFields
    <3>2. CASE ~(limit > 0 /\ Len(full) > limit)
      <4>1. Pruned(full) = full
        BY <2>6, <3>2 DEF Pruned
      <4>2. Pushed(x) = all
        BY <2>2, <2>4, <3>2 DEF Pushed
      <4>3. FieldsOf(full) = all
        BY <2>2, <2>4, <2>5, SameFields
      <4> QED
        BY <2>2, <4>1, <4>2, <4>3
    <3> QED
      BY <3>1, <3>2
  <2>8. PushEntryHistory(x) = [folder |-> x.folder, fields |-> x.fields, files |-> x.files,
                               history |-> Pruned(full)]
    BY <1>2 DEF PushEntryHistory, EntryType
  <2> QED
    BY <2>7, <2>8 DEF EntryType
<1> QED
  BY <1>1, <1>2

\* Removing files from a history leaves its fields.
LEMMA WithoutFacts ==
  ASSUME NEW h \in Seq(Versions), NEW F
  PROVE  Without(h, F) \in Seq(Versions) /\ FieldsOf(Without(h, F)) = FieldsOf(h)
<1>1. /\ Len(h) \in Nat /\ DOMAIN h = 1..Len(h)
      /\ \A i \in 1..Len(h) : h[i] \in Versions
  BY LenProperties, ElementOfSeq
<1>2. ASSUME NEW v \in Versions
      PROVE  /\ [v EXCEPT !.files = @ \ F] \in Versions
             /\ [v EXCEPT !.files = @ \ F].fields = v.fields
  BY DEF Versions
<1>3. /\ Without(h, F) \in [1..Len(h) -> Versions]
      /\ \A i \in 1..Len(h) : Without(h, F)[i].fields = h[i].fields
  BY <1>1, <1>2 DEF Without
<1>4. Without(h, F) \in Seq(Versions) /\ Len(Without(h, F)) = Len(h)
  BY <1>1, <1>3, SeqDef, LenProperties
<1>5. FieldsOf(h) \in Seq(Contents) /\ Len(FieldsOf(h)) = Len(h)
      /\ \A i \in 1..Len(h) : FieldsOf(h)[i] = h[i].fields
  BY FieldsOfFacts
<1> QED
  BY <1>3, <1>4, <1>5, SameFields
-----------------------------------------------------------------------------
(* What attachments cost *)

LEMMA CopyFacts ==
  ASSUME NEW d \in Docs
  PROVE  \A c : c \in InlineCopies(d) <=>
           \E e \in Entries, i \in Nat, f \in Inline :
             /\ d[e] # Absent /\ i <= Len(d[e].history)
             /\ f \in FilesIn(d[e], i) /\ c = <<e, i, f>>
<1> SUFFICES ASSUME NEW c
             PROVE  c \in InlineCopies(d) <=>
                      \E e \in Entries, i \in Nat, f \in Inline :
                        /\ d[e] # Absent /\ i <= Len(d[e].history)
                        /\ f \in FilesIn(d[e], i) /\ c = <<e, i, f>>
  OBVIOUS
<1>1. \A e \in Entries : d[e] # Absent => Len(d[e].history) \in Nat
  <2> SUFFICES ASSUME NEW e \in Entries, d[e] # Absent PROVE Len(d[e].history) \in Nat
    OBVIOUS
  <2>1. d[e].history \in Seq(Versions)
    BY DEF Docs, EntryType
  <2> QED
    BY <2>1, LenProperties
<1>2. c \in InlineCopies(d) <=>
        \E e \in Entries : d[e] # Absent /\
          \E i \in 0..Len(d[e].history) :
            \E f \in FilesIn(d[e], i) \cap Inline : c = <<e, i, f>>
  BY DEF InlineCopies, Present
<1>3. \A e \in Entries : d[e] # Absent =>
        0..Len(d[e].history) = {i \in Nat : i <= Len(d[e].history)}
  BY <1>1
<1> QED
  BY <1>2, <1>3

LEMMA UsageFinite ==
  ASSUME NEW d \in Docs
  PROVE  IsFiniteSet(Hashed(d)) /\ IsFiniteSet(InlineCopies(d))
<1>1. Hashed(d) \in SUBSET Files
  <2>1. \A e \in Entries : d[e] # Absent => \A v \in VersionsOf(d[e]) : v.files \subseteq Files
    <3> SUFFICES ASSUME NEW e \in Entries, d[e] # Absent, NEW v \in VersionsOf(d[e])
                 PROVE  v.files \subseteq Files
      OBVIOUS
    <3>1. PICK o \in EntryType : o = d[e]
      BY DEF Docs
    <3>2. /\ o.files \subseteq Files
          /\ \A i \in DOMAIN o.history : o.history[i] \in Versions
      <4>1. o.history \in Seq(Versions) /\ o.files \subseteq Files
        BY DEF EntryType
      <4> QED
        BY <4>1, LenProperties, ElementOfSeq
    <3>3. v = [fields |-> o.fields, files |-> o.files] \/ \E i \in DOMAIN o.history : v = o.history[i]
      BY <3>1 DEF VersionsOf
    <3> QED
      BY <3>2, <3>3 DEF Versions
  <2> QED
    BY <2>1 DEF Hashed, Present
<1>2. IsFiniteSet(Inline)
  BY DocumentAssumption, FS_Subset
<1>3. ASSUME NEW e \in Entries, d[e] # Absent
      PROVE  IsFiniteSet({c \in InlineCopies(d) : c[1] = e})
  <2>1. Len(d[e].history) \in Nat
    <3>1. d[e].history \in Seq(Versions)
      BY <1>3 DEF Docs, EntryType
    <3> QED
      BY <3>1, LenProperties
  <2>2. IsFiniteSet(0..Len(d[e].history))
    BY <2>1, FS_Interval
  <2>3. IsFiniteSet((0..Len(d[e].history)) \X Inline)
    BY <1>2, <2>2, FS_Product
  <2> DEFINE T == {c \in InlineCopies(d) : c[1] = e}
             S == (0..Len(d[e].history)) \X Inline
             g == [c \in T |-> <<c[2], c[3]>>]
  <2>4. \A c \in T : \E i \in 0..Len(d[e].history), f \in Inline : c = <<e, i, f>>
    BY <2>1, CopyFacts
  <2>5. g \in [T -> S] /\ \A a, b \in T : g[a] = g[b] => a = b
    BY <2>4
  <2>6. g \in Injection(T, S)
    BY <2>5 DEF Injection, IsInjective
  <2> QED
    BY <2>3, <2>6, FS_Injection
<1>4. IsFiniteSet(InlineCopies(d))
  <2> DEFINE P == {e \in Entries : d[e] # Absent}
             g == [e \in P |-> {c \in InlineCopies(d) : c[1] = e}]
             R == {g[e] : e \in P}
  <2>1. IsFiniteSet(P)
    BY DocumentAssumption, FS_Subset
  <2>2. g \in Surjection(P, R)
    BY DEF Surjection
  <2>3. IsFiniteSet(R)
    BY <2>1, <2>2, FS_Surjection
  <2>4. \A T \in R : IsFiniteSet(T)
    BY <1>3
  <2>5. IsFiniteSet(UNION R)
    BY <2>3, <2>4, FS_UNION
  <2>6. InlineCopies(d) \subseteq UNION R
    <3> SUFFICES ASSUME NEW c \in InlineCopies(d) PROVE c \in UNION R
      OBVIOUS
    <3>1. PICK e \in Entries : d[e] # Absent /\ c[1] = e
      BY CopyFacts
    <3>2. c \in g[e] /\ g[e] \in R
      BY <3>1
    <3> QED
      BY <3>2
  <2> QED
    BY <2>5, <2>6, FS_Subset
<1> QED
  BY <1>1, <1>4, DocumentAssumption, FS_Subset

\* A pruned history is the end of the one before.
LEMMA PrunedFacts ==
  ASSUME NEW h \in Seq(Versions), limit \in Limits, limit # 0
  PROVE  /\ Pruned(h) \in Seq(Versions)
         /\ \E k \in Nat :
              /\ Len(Pruned(h)) + k = Len(h)
              /\ \A i \in 1..Len(Pruned(h)) : Pruned(h)[i] = h[i + k]
<1>1. limit \in Int /\ Len(h) \in Nat
  BY DocumentAssumption, LenProperties
<1>2. CASE limit > 0 /\ Len(h) > limit
  <2>1. limit \in 1..Len(h)
    BY <1>1, <1>2
  <2>2. PICK q : q = LastN(h, limit)
    OBVIOUS
  <2>3. /\ q \in Seq(Versions) /\ Len(q) = limit
        /\ \A i \in 1..limit : q[i] = h[Len(h) - limit + i]
    BY <2>1, <2>2, LastFacts
  <2>4. Pruned(h) = q
    BY <1>1, <1>2, <2>2 DEF Pruned, LastN
  <2>5. PICK k \in Nat : k = Len(h) - limit
    BY <1>1, <1>2
  <2>6. /\ Len(q) + k = Len(h)
        /\ \A i \in 1..Len(q) : i + k = Len(h) - limit + i
    BY <1>1, <2>1, <2>3, <2>5
  <2>7. \A i \in 1..Len(q) : q[i] = h[i + k]
    BY <2>3, <2>6
  <2> QED
    BY <2>3, <2>4, <2>6, <2>7
<1>3. CASE ~(limit > 0 /\ Len(h) > limit)
  <2>1. Pruned(h) = h
    BY <1>1, <1>3 DEF Pruned
  <2>2. 0 \in Nat /\ Len(h) + 0 = Len(h) /\ \A i \in 1..Len(h) : i + 0 = i
    BY <1>1
  <2>3. \A i \in 1..Len(h) : h[i] = h[i + 0]
    BY <2>2
  <2> QED
    BY <2>1, <2>2, <2>3
<1> QED
  BY <1>2, <1>3

LEMMA HashedFacts ==
  ASSUME NEW d \in Docs
  PROVE  \A f : f \in Hashed(d) <=>
           /\ f \notin Inline
           /\ \E e \in Entries, i \in Nat :
                d[e] # Absent /\ i <= Len(d[e].history) /\ f \in FilesIn(d[e], i)
<1> SUFFICES ASSUME NEW f
             PROVE  f \in Hashed(d) <=>
                      /\ f \notin Inline
                      /\ \E e \in Entries, i \in Nat :
                           d[e] # Absent /\ i <= Len(d[e].history) /\ f \in FilesIn(d[e], i)
  OBVIOUS
<1>1. f \in Hashed(d) <=>
        /\ f \notin Inline
        /\ \E e \in Entries : d[e] # Absent /\ \E v \in VersionsOf(d[e]) : f \in v.files
  <2> DEFINE S(e) == UNION {v.files : v \in VersionsOf(d[e])}
  <2>1. f \in Hashed(d) <=> f \notin Inline /\ \E e \in Entries : d[e] # Absent /\ f \in S(e)
    BY DEF Hashed, Present
  <2>2. \A e : f \in S(e) <=> \E v \in VersionsOf(d[e]) : f \in v.files
    OBVIOUS
  <2> QED
    BY <2>1, <2>2
<1>2. ASSUME NEW e \in Entries, d[e] # Absent
      PROVE  (\E v \in VersionsOf(d[e]) : f \in v.files) <=>
             (\E i \in Nat : i <= Len(d[e].history) /\ f \in FilesIn(d[e], i))
  <2>1. PICK o : o = d[e]
    OBVIOUS
  <2>2. Len(o.history) \in Nat /\ DOMAIN o.history = 1..Len(o.history)
    <3>1. o.history \in Seq(Versions)
      BY <1>2, <2>1 DEF Docs, EntryType
    <3> QED
      BY <3>1, LenProperties
  <2>3. (\E v \in VersionsOf(o) : f \in v.files) <=>
        (f \in o.files \/ \E i \in 1..Len(o.history) : f \in o.history[i].files)
    <3> DEFINE now == [fields |-> o.fields, files |-> o.files]
               then == {o.history[i] : i \in DOMAIN o.history}
    <3>1. VersionsOf(o) = {now} \cup then
      BY DEF VersionsOf
    <3>2. now.files = o.files
      OBVIOUS
    <3>3. (\E v \in then : f \in v.files) <=> \E i \in 1..Len(o.history) : f \in o.history[i].files
      BY <2>2
    <3> HIDE DEF now, then
    <3> QED
      BY <3>1, <3>2, <3>3
  <2>4. (\E i \in Nat : i <= Len(o.history) /\ f \in FilesIn(o, i)) <=>
        (f \in o.files \/ \E i \in 1..Len(o.history) : f \in o.history[i].files)
    <3>1. \A i \in Nat : i <= Len(o.history) <=> (i = 0 \/ i \in 1..Len(o.history))
      BY <2>2
    <3>2. \A i \in 1..Len(o.history) : i \in Nat /\ i # 0
      BY <2>2
    <3>3. f \in FilesIn(o, 0) <=> f \in o.files
      BY DEF FilesIn
    <3>4. \A i \in 1..Len(o.history) : f \in FilesIn(o, i) <=> f \in o.history[i].files
      BY <3>2 DEF FilesIn
    <3> QED
      BY <3>1, <3>2, <3>3, <3>4
  <2> QED
    BY <2>1, <2>3, <2>4
<1> QED
  BY <1>1, <1>2

\* An added file costs what FitsBudget adds for it, however much is pruned: the
\* file once, and the inline files of the version the addition retains again.
LEMMA AdditionCost ==
  ASSUME NEW d \in Docs, NEW e \in Entries, NEW o \in EntryType, d[e] = o,
         NEW f \in Files, limit \in Limits
  PROVE  AttachmentUsage(AddAttachment(d, e, f)) <=
           AttachmentUsage([d EXCEPT ![e].files = @ \cup {f}]) +
             (IF HistoryEnabled THEN Cardinality(o.files \cap Inline) ELSE 0)
<1>1. PICK g \in SUBSET Files : g = o.files \cup {f}
  BY DEF EntryType
<1>2. PICK p \in EntryType : p = PushEntryHistory(o)
  BY PushFacts
<1>3. p.folder = o.folder /\ p.fields = o.fields /\ p.files = o.files
  BY <1>2, PushFacts
<1>4. PICK y : y = [folder |-> o.folder, fields |-> o.fields, files |-> g, history |-> o.history]
  OBVIOUS
<1>5. PICK x : x = [folder |-> o.folder, fields |-> o.fields, files |-> g, history |-> p.history]
  OBVIOUS
<1>6. /\ [o EXCEPT !.files = g] = y /\ [p EXCEPT !.files = g] = x
      /\ x \in EntryType /\ y \in EntryType
      /\ o.history \in Seq(Versions) /\ p.history \in Seq(Versions)
  BY <1>3, <1>4, <1>5 DEF EntryType
<1>7. PICK d1 \in Docs : d1 = [d EXCEPT ![e] = y]
  BY <1>6 DEF Docs
<1>8. PICK d2 \in Docs : d2 = [d EXCEPT ![e] = x]
  BY <1>6 DEF Docs
<1>9. AddAttachment(d, e, f) = d2
  <2>1. [p EXCEPT !.files = @ \cup {f}] = [p EXCEPT !.files = g]
    BY <1>1, <1>3
  <2> QED
    BY <1>2, <1>6, <1>8, <2>1 DEF AddAttachment
<1>10. [d EXCEPT ![e].files = @ \cup {f}] = d1
  BY <1>1, <1>6, <1>7
<1>11. /\ d1[e] = y /\ d2[e] = x /\ x # Absent /\ y # Absent
       /\ \A a \in Entries \ {e} : d1[a] = d[a] /\ d2[a] = d[a]
  BY <1>6, <1>7, <1>8, AbsentFacts DEF Docs
<1>12. /\ IsFiniteSet(Hashed(d1)) /\ IsFiniteSet(InlineCopies(d1))
       /\ IsFiniteSet(Hashed(d2)) /\ IsFiniteSet(InlineCopies(d2))
       /\ Cardinality(Hashed(d1)) \in Nat /\ Cardinality(InlineCopies(d1)) \in Nat
       /\ Cardinality(Hashed(d2)) \in Nat /\ Cardinality(InlineCopies(d2)) \in Nat
  BY UsageFinite, FS_CardinalityType
<1>13. CASE ~HistoryEnabled
  <2>1. p = o
    BY <1>2, <1>13 DEF PushEntryHistory
  <2>2. d1 = d2
    BY <1>4, <1>5, <1>7, <1>8, <2>1
  <2>3. AttachmentUsage(d1) \in Nat
    BY <1>12 DEF AttachmentUsage
  <2>4. PICK u \in Nat : u = AttachmentUsage(d1)
    BY <2>3
  <2>5. u <= u + 0
    OBVIOUS
  <2>6. /\ AttachmentUsage(AddAttachment(d, e, f)) = u
        /\ AttachmentUsage([d EXCEPT ![e].files = @ \cup {f}]) = u
    BY <1>9, <1>10, <2>2, <2>4
  <2> QED
    BY <1>13, <2>5, <2>6
<1>14. CASE HistoryEnabled
  <2> DEFINE n == Len(o.history)
             h == p.history
  <2>1. PICK full \in Seq(Versions) :
          /\ full = Append(o.history, Current(o))
          /\ n \in Nat /\ Len(full) = n + 1
          /\ \A i \in 1..n : full[i] = o.history[i]
          /\ full[n + 1].files = o.files
    <3>1. Current(o) \in Versions /\ Current(o).files = o.files
      BY DEF Current, Versions, EntryType
    <3>2. PICK c \in Versions : c = Current(o)
      BY <3>1
    <3>3. PICK s \in Seq(Versions) : s = o.history
      BY <1>6
    <3>4. /\ Append(s, c) \in Seq(Versions) /\ Len(s) \in Nat
          /\ Len(Append(s, c)) = Len(s) + 1
          /\ \A i \in 1..Len(s) : Append(s, c)[i] = s[i]
          /\ Append(s, c)[Len(s) + 1] = c
      BY AppendProperties, LenProperties
    <3> QED
      BY <3>1, <3>2, <3>3, <3>4
  <2>2. h = Pruned(full)
    BY <1>2, <1>14, <2>1 DEF PushEntryHistory, EntryType
  <2>3. PICK k \in Nat :
          /\ Len(h) + k = n + 1 /\ Len(h) \in Nat
          /\ \A i \in 1..Len(h) : h[i] = full[i + k]
    <3>1. limit # 0
      BY <1>14 DEF HistoryEnabled
    <3>2. \E k \in Nat :
            /\ Len(Pruned(full)) + k = Len(full)
            /\ \A i \in 1..Len(Pruned(full)) : Pruned(full)[i] = full[i + k]
      BY <3>1, PrunedFacts
    <3>3. Len(h) \in Nat
      BY <1>6, LenProperties
    <3>4. PICK q : q = Pruned(full)
      OBVIOUS
    <3>5. PICK k \in Nat :
            Len(q) + k = Len(full) /\ \A i \in 1..Len(q) : q[i] = full[i + k]
      BY <3>2, <3>4
    <3>6. q = h /\ Len(full) = n + 1
      BY <2>1, <2>2, <3>4
    <3> HIDE DEF h, n
    <3> QED
      BY <3>3, <3>5, <3>6
  <2>4. ASSUME NEW i \in Nat, i <= Len(h), i # 0
        PROVE  /\ i + k \in 1..n + 1
               /\ i + k <= n => FilesIn(x, i) = FilesIn(y, i + k)
               /\ i + k = n + 1 => FilesIn(x, i) = o.files
    <3>1. i \in 1..Len(h) /\ i + k \in 1..n + 1 /\ i + k # 0
      BY <2>1, <2>3, <2>4
    <3>2. FilesIn(x, i) = full[i + k].files
      BY <1>5, <2>3, <2>4, <3>1 DEF FilesIn
    <3>3. i + k <= n => i + k \in 1..n /\ FilesIn(y, i + k) = full[i + k].files
      BY <1>4, <2>1, <3>1 DEF FilesIn
    <3> QED
      BY <2>1, <3>1, <3>2, <3>3
  <2>5. FilesIn(x, 0) = g /\ FilesIn(y, 0) = g /\ o.files \subseteq g
    BY <1>1, <1>4, <1>5 DEF FilesIn
  <2>6. Len(x.history) = Len(h) /\ Len(y.history) = n
    BY <1>4, <1>5
  <2>7. Hashed(d2) \subseteq Hashed(d1)
    <3> SUFFICES ASSUME NEW t \in Hashed(d2) PROVE t \in Hashed(d1)
      OBVIOUS
    <3>1. PICK a \in Entries, i \in Nat :
            /\ t \notin Inline
            /\ d2[a] # Absent /\ i <= Len(d2[a].history) /\ t \in FilesIn(d2[a], i)
      BY HashedFacts
    <3>2. CASE a # e
      BY <1>11, <3>1, <3>2, HashedFacts
    <3>3. CASE a = e /\ i # 0 /\ i + k <= n
      <4>1. t \in FilesIn(d1[e], i + k) /\ i + k <= Len(d1[e].history) /\ i + k \in Nat
        BY <1>11, <2>4, <2>6, <3>1, <3>3
      <4> QED
        BY <1>11, <3>1, <4>1, HashedFacts
    <3>4. CASE a = e /\ (i = 0 \/ ~(i + k <= n))
      <4>1. t \in g
        <5>1. CASE i = 0
          BY <1>11, <2>5, <3>1, <3>4, <5>1
        <5>2. CASE i # 0
          <6>1. i <= Len(h) /\ i + k = n + 1
            <7>1. i <= Len(h)
              BY <1>11, <2>6, <3>1, <3>4
            <7>2. i + k \in 1..n + 1
              BY <2>4, <5>2, <7>1
            <7>3. n \in Nat /\ ~(i + k <= n)
              BY <2>1, <3>4, <5>2
            <7> HIDE DEF n
            <7> QED
              BY <7>1, <7>2, <7>3
          <6>2. FilesIn(x, i) = o.files
            BY <2>4, <5>2, <6>1
          <6> QED
            BY <1>11, <2>5, <3>1, <3>4, <6>2
        <5> QED
          BY <5>1, <5>2
      <4>2. t \in FilesIn(d1[e], 0) /\ 0 <= Len(d1[e].history) /\ 0 \in Nat
        BY <1>11, <2>1, <2>5, <2>6, <4>1
      <4> QED
        BY <1>11, <3>1, <4>2, HashedFacts
    <3> QED
      BY <3>2, <3>3, <3>4
  <2>8. Cardinality(Hashed(d2)) <= Cardinality(Hashed(d1))
    BY <1>12, <2>7, FS_Subset
  <2> DEFINE X == o.files \cap Inline
             Extra == {<<e, n + 1, t>> : t \in X}
  <2>9. IsFiniteSet(X) /\ IsFiniteSet(Extra) /\ Cardinality(Extra) <= Cardinality(X)
        /\ Cardinality(X) \in Nat /\ Cardinality(Extra) \in Nat
    <3>1. IsFiniteSet(X)
      BY DocumentAssumption, FS_Subset
    <3> DEFINE m == [t \in X |-> <<e, n + 1, t>>]
    <3>2. m \in Surjection(X, Extra)
      BY DEF Surjection
    <3> HIDE DEF m, X, Extra
    <3> QED
      BY <3>1, <3>2, FS_Surjection, FS_CardinalityType
  <2> DEFINE D == InlineCopies(d2)
             C == InlineCopies(d1) \cup Extra
             shift == [c \in D |-> IF c[1] = e /\ c[2] # 0 THEN <<e, c[2] + k, c[3]>> ELSE c]
  <2>10. ASSUME NEW c \in D
         PROVE  \E a \in Entries, i \in Nat, t \in Inline :
                  /\ c = <<a, i, t>>
                  /\ d2[a] # Absent /\ i <= Len(d2[a].history) /\ t \in FilesIn(d2[a], i)
    BY <2>10, CopyFacts
  <2>11. ASSUME NEW c \in D
         PROVE  shift[c] \in C
    <3>1. PICK a \in Entries, i \in Nat, t \in Inline :
            /\ c = <<a, i, t>>
            /\ d2[a] # Absent /\ i <= Len(d2[a].history) /\ t \in FilesIn(d2[a], i)
      BY <2>10
    <3>2. CASE a # e
      <4>1. shift[c] = c
        BY <3>1, <3>2
      <4>2. c \in InlineCopies(d1)
        BY <1>11, <3>1, <3>2, CopyFacts
      <4> QED
        BY <4>1, <4>2
    <3>3. CASE a = e /\ i = 0
      <4>1. shift[c] = c
        BY <3>1, <3>3
      <4>2. t \in FilesIn(d1[e], 0) /\ 0 <= Len(d1[e].history) /\ 0 \in Nat
        BY <1>11, <2>1, <2>5, <2>6, <3>1, <3>3
      <4>3. c \in InlineCopies(d1)
        BY <1>11, <3>1, <3>3, <4>2, CopyFacts
      <4> QED
        BY <4>1, <4>3
    <3>4. CASE a = e /\ i # 0
      <4>1. shift[c] = <<e, i + k, t>> /\ i <= Len(h)
        BY <1>11, <2>6, <3>1, <3>4
      <4>2. CASE i + k <= n
        <5>1. t \in FilesIn(d1[e], i + k) /\ i + k <= Len(d1[e].history) /\ i + k \in Nat
          BY <1>11, <2>4, <2>6, <3>1, <3>4, <4>1, <4>2
        <5>2. <<e, i + k, t>> \in InlineCopies(d1)
          BY <1>11, <3>1, <5>1, CopyFacts
        <5> QED
          BY <4>1, <5>2
      <4>3. CASE ~(i + k <= n)
        <5>1. i + k = n + 1
          BY <2>1, <2>4, <3>4, <4>1, <4>3
        <5>2. t \in X
          BY <1>11, <2>4, <3>1, <3>4, <4>1, <5>1
        <5> QED
          BY <4>1, <5>1, <5>2
      <4> QED
        BY <4>2, <4>3
    <3> QED
      BY <3>2, <3>3, <3>4
  <2>12. ASSUME NEW b \in D, NEW c \in D, shift[b] = shift[c]
         PROVE  b = c
    <3>1. PICK a1 \in Entries, i1 \in Nat, t1 \in Inline : b = <<a1, i1, t1>>
      BY <2>10
    <3>2. PICK a2 \in Entries, i2 \in Nat, t2 \in Inline : c = <<a2, i2, t2>>
      BY <2>10
    <3>3. shift[b] = IF a1 = e /\ i1 # 0 THEN <<e, i1 + k, t1>> ELSE <<a1, i1, t1>>
      BY <3>1
    <3>4. shift[c] = IF a2 = e /\ i2 # 0 THEN <<e, i2 + k, t2>> ELSE <<a2, i2, t2>>
      BY <3>2
    <3>5. /\ a1 = a2 /\ t1 = t2
          /\ (IF a1 = e /\ i1 # 0 THEN i1 + k ELSE i1) =
               (IF a2 = e /\ i2 # 0 THEN i2 + k ELSE i2)
      BY <2>12, <3>3, <3>4
    <3>6. i1 = i2
      BY <2>3, <3>5
    <3> QED
      BY <3>1, <3>2, <3>5, <3>6
  <2>13. shift \in Injection(D, C)
    BY <2>11, <2>12 DEF Injection, IsInjective
  <2>14. IsFiniteSet(C) /\ Cardinality(C) <= Cardinality(InlineCopies(d1)) + Cardinality(Extra)
    <3> DEFINE A == InlineCopies(d1)
    <3> HIDE DEF A, Extra
    <3>1. IsFiniteSet(A) /\ Cardinality(A) \in Nat /\ A = InlineCopies(d1)
      BY <1>12 DEF A
    <3>2. /\ IsFiniteSet(A \cup Extra)
          /\ Cardinality(A \cup Extra) = Cardinality(A) + Cardinality(Extra) - Cardinality(A \cap Extra)
      BY <2>9, <3>1, FS_Union
    <3>3. Cardinality(A \cap Extra) \in Nat
      BY <3>1, FS_Intersection, FS_CardinalityType
    <3>4. /\ IsFiniteSet(A \cup Extra)
          /\ Cardinality(A \cup Extra) <= Cardinality(A) + Cardinality(Extra)
      BY <2>9, <3>1, <3>2, <3>3
    <3> QED
      BY <3>1, <3>4
  <2>15. Cardinality(D) <= Cardinality(C) /\ Cardinality(C) \in Nat
    <3> HIDE DEF C, D, shift
    <3> QED
      BY <2>13, <2>14, FS_Injection, FS_CardinalityType
  <2>16. Cardinality(InlineCopies(d2)) <= Cardinality(InlineCopies(d1)) + Cardinality(X)
    <3>1. PICK u1, u2 \in Nat : u1 = Cardinality(InlineCopies(d1)) /\ u2 = Cardinality(InlineCopies(d2))
      BY <1>12
    <3>2. PICK v1, v2 \in Nat : v1 = Cardinality(X) /\ v2 = Cardinality(Extra)
      BY <2>9
    <3>3. PICK w \in Nat : w = Cardinality(C)
      BY <2>15
    <3>4. u2 <= w /\ w <= u1 + v2 /\ v2 <= v1
      BY <2>9, <2>14, <2>15, <3>1, <3>2, <3>3
    <3>5. u2 <= u1 + v1
      BY <3>4
    <3> QED
      BY <3>1, <3>2, <3>5
  <2>17. AttachmentUsage(d2) <= AttachmentUsage(d1) + Cardinality(X)
    <3> HIDE DEF X
    <3> QED
      BY <1>12, <2>8, <2>9, <2>16 DEF AttachmentUsage
  <2> QED
    BY <1>9, <1>10, <1>14, <2>17
<1> QED
  BY <1>13, <1>14

-----------------------------------------------------------------------------
(* What the page renders *)

\* A handler that renders list with e selected leaves the page in order, if it
\* had the fields of e in the editor or the editor will load them, and shows
\* the panel of what is still being added.
LEMMA RenderFacts ==
  ASSUME NEW list \in Listings, NEW e \in Entries \cup {None},
         NEW edit \in BOOLEAN, NEW fields \in Lines, NEW typed \in BOOLEAN,
         NEW pending \in SUBSET Additions, NEW bin \in BOOLEAN,
         Render(list, e, edit, fields, typed, pending),
         \A x \in Entries : list[x].folder = Bin => bin,
         edit /\ Shown(list, e) # None =>
           /\ list[e].folder = Bin => EditorMayBeOpen /\ FirstHasBin
           /\ e = SelectedEntry =>
                /\ fields.folder = Bin => bin /\ FirstHasBin
                /\ ~EditorMayBeOpen /\ ~typed => fields = list[e],
         \A a \in pending :
           ~a.aborted => Attachments = [entry |-> a.entry, readOnly |-> FALSE]
  PROVE  /\ listed' = list /\ selected' = e /\ editing' = edit
         /\ PageOK(listed', selected', editing', draft', touched', bin)
         /\ InView'
<1> DEFINE shown == Shown(list, e)
           loads == shown \notin {None, SelectedEntry}
<1>1. /\ listed' = list /\ selected' = e /\ editing' = edit
      /\ draft' = IF loads THEN list[e] ELSE fields
      /\ touched' = (typed /\ ~loads)
      /\ adding' = IF Panel(list, e, edit, hidden') = Attachments THEN pending
                   ELSE Abort(pending)
  BY DEF Render
<1>2. shown # None => e \in Entries /\ shown = e /\ list[e] \in Lines
  BY DEF Shown, Listings
<1>3. ASSUME loads PROVE PageOK(listed', selected', editing', draft', touched', bin)
  <2>1. /\ draft' = list[e] /\ touched' = FALSE /\ list[e] \in Lines
        /\ shown # None /\ e \in Entries
    BY <1>1, <1>2, <1>3
  <2>2. PageOK(list, e, edit, list[e], FALSE, bin)
    BY <2>1 DEF PageOK
  <2> QED
    BY <1>1, <2>1, <2>2
<1>4. ASSUME ~loads PROVE PageOK(listed', selected', editing', draft', touched', bin)
  <2>1. draft' = fields /\ touched' = typed
    BY <1>1, <1>4
  <2>2. shown # None => e = SelectedEntry
    BY <1>2, <1>4
  <2>3. PageOK(list, e, edit, fields, typed, bin)
    BY <2>2 DEF PageOK
  <2> QED
    BY <1>1, <2>1, <2>3
<1>5. PageOK(listed', selected', editing', draft', touched', bin)
  BY <1>3, <1>4
<1>6. InView'
  <2>1. Attachments' = Panel(list, e, edit, hidden')
    BY <1>1 DEF Attachments
  <2>2. CASE Panel(list, e, edit, hidden') = Attachments
    BY <1>1, <2>1, <2>2 DEF InView
  <2>3. CASE Panel(list, e, edit, hidden') # Attachments
    <3>1. adding' = Abort(pending)
      BY <1>1, <2>3
    <3>2. \A a \in Additions : [a EXCEPT !.aborted = TRUE] \in Additions
      BY DEF Additions
    <3>3. \A a \in Abort(pending) : a \in Additions /\ a.aborted
      BY <3>2 DEF Abort, Additions
    <3> QED
      BY <3>1, <3>3 DEF InView
  <2> QED
    BY <2>2, <2>3
<1> QED
  BY <1>1, <1>5, <1>6

\* What an entry may become, in a vault that stays open: nothing leaves a vault
\* that recycles, an entry in the bin only leaves the bin, and what replaces
\* fields or files has pushed a version.
Allowed(e, x) ==
  /\ RecyclingEnabled /\ doc[e] # Absent => x # Absent
  /\ doc[e].folder = Bin => x \in {doc[e], [doc[e] EXCEPT !.folder = Root]}
  /\ HistoryEnabled /\ doc[e] # Absent /\ x # Absent /\ Current(x) # Current(doc[e])
       => FieldsOf(x.history) = Pushed(doc[e])

\* No handler does more to the document than this to one entry.
DocStep ==
  \/ doc' = doc
  \/ \E e \in Entries : \E x \in EntryType \cup {Absent} :
       doc' = [doc EXCEPT ![e] = x] /\ Allowed(e, x)

\* A change of one entry, and of the listing of it.
LEMMA ChangeFacts ==
  ASSUME VaultOK, NEW e \in Entries, NEW x \in EntryType \cup {Absent},
         doc' = [doc EXCEPT ![e] = x], hasBin' \in BOOLEAN,
         x.folder = Bin => hasBin', hasBin => hasBin'
  PROVE  /\ doc' \in Docs /\ View(doc') \in Listings
         /\ doc'[e] = x
         /\ \A y \in Entries : doc'[y].folder = Bin => hasBin'
         /\ \A y \in Entries : View(doc')[y].folder = Bin => hasBin'
         /\ View(doc')[e] # Absent => View(doc')[e].folder = x.folder
         /\ View(doc')[e] # Absent <=> x # Absent
<1>1. doc' \in Docs /\ doc'[e] = x /\ \A y \in Entries \ {e} : doc'[y] = doc[y]
  BY DEF VaultOK, Docs
<1>2. \A y \in Entries : doc'[y].folder = Bin => hasBin'
  BY <1>1 DEF VaultOK
<1>3. PICK d \in Docs : d = doc'
  BY <1>1
<1>4. /\ View(d) \in Listings
      /\ \A y \in Entries :
           /\ View(d)[y] = Absent <=> d[y] = Absent
           /\ d[y] # Absent => View(d)[y].folder = d[y].folder
  BY ViewFacts
<1>5. Absent.folder # Bin
  BY DocumentAssumption DEF Absent
<1>6. \A y \in Entries : View(d)[y].folder = Bin => hasBin'
  BY <1>2, <1>3, <1>4, <1>5
<1> QED
  BY <1>1, <1>2, <1>3, <1>4, <1>6

\* A handler that leaves the document.
LEMMA QuietRender ==
  ASSUME VaultOK, NEW e \in Entries \cup {None}, NEW edit \in BOOLEAN,
         NEW fields \in Lines, NEW typed \in BOOLEAN, NEW pending \in SUBSET adding,
         InView, UNCHANGED vault, Render(listed, e, edit, fields, typed, pending),
         edit /\ Shown(listed, e) # None =>
           /\ listed[e].folder = Bin => EditorMayBeOpen /\ FirstHasBin
           /\ e = SelectedEntry =>
                /\ fields.folder = Bin => hasBin /\ FirstHasBin
                /\ ~EditorMayBeOpen /\ ~typed => fields = listed[e]
  PROVE  /\ selected' = e /\ editing' = edit /\ doc' = doc
         /\ VaultOK' /\ Editor' /\ InView'
<1>1. listed \in Listings /\ \A x \in Entries : listed[x].folder = Bin => hasBin
  <2>1. PICK d \in Docs : d = doc
    BY DEF VaultOK
  <2>2. /\ View(d) \in Listings
        /\ \A y \in Entries :
             /\ View(d)[y] = Absent <=> d[y] = Absent
             /\ d[y] # Absent => View(d)[y].folder = d[y].folder
    BY ViewFacts
  <2>3. Absent.folder # Bin
    BY DocumentAssumption DEF Absent
  <2> QED
    BY <2>1, <2>2, <2>3 DEF VaultOK
<1>2. /\ hasBin \in BOOLEAN /\ hasBin' = hasBin /\ doc' = doc
      /\ pending \in SUBSET Additions
      /\ \A a \in pending :
           ~a.aborted => Attachments = [entry |-> a.entry, readOnly |-> FALSE]
  BY DEF VaultOK, InView, vault
<1>3. /\ listed' = listed /\ selected' = e /\ editing' = edit
      /\ PageOK(listed', selected', editing', draft', touched', hasBin)
      /\ InView'
  BY <1>1, <1>2, RenderFacts
<1>4. VaultOK'
  BY <1>3 DEF VaultOK, vault, View
<1> QED
  BY <1>2, <1>3, <1>4 DEF Editor

\* A handler that changes one entry.
LEMMA ChangeRender ==
  ASSUME VaultOK, Editor, InView,
         NEW e \in Entries, NEW x \in EntryType \cup {Absent},
         doc' = [doc EXCEPT ![e] = x],
         limit' = limit, recycling' \in {"on", "off", "unset"}, hasBin' \in BOOLEAN,
         x.folder = Bin => hasBin', hasBin => hasBin',
         NEW y \in Entries \cup {None}, NEW edit \in BOOLEAN,
         NEW pending \in SUBSET adding,
         Render(View(doc'), y, edit, draft, touched, pending),
         edit => /\ y = e /\ x.folder # Bin
                 /\ doc[e] = Absent \/ (editing /\ Recycled)
  PROVE  /\ selected' = y /\ editing' = edit
         /\ VaultOK' /\ Editor' /\ InView'
<1>1. /\ doc' \in Docs /\ View(doc') \in Listings
      /\ \A z \in Entries : doc'[z].folder = Bin => hasBin'
      /\ \A z \in Entries : View(doc')[z].folder = Bin => hasBin'
      /\ View(doc')[e] # Absent => View(doc')[e].folder = x.folder
  BY ChangeFacts
<1>2. PICK list \in Listings : list = View(doc')
  BY <1>1
<1>3. /\ draft \in Lines /\ touched \in BOOLEAN
      /\ editing /\ SelectedEntry # None =>
           /\ listed[selected].folder = Bin => EditorMayBeOpen
           /\ draft.folder = Bin => hasBin /\ FirstHasBin
  BY DEF Editor, PageOK, SelectedEntry
<1>4. /\ pending \in SUBSET Additions
      /\ \A a \in pending :
           ~a.aborted => Attachments = [entry |-> a.entry, readOnly |-> FALSE]
  BY DEF InView
<1>5. ASSUME edit, Shown(list, y) # None
      PROVE  list[y].folder # Bin
  BY <1>1, <1>2, <1>5 DEF Shown
<1>6. ASSUME edit, Shown(list, y) # None, y = SelectedEntry
      PROVE  /\ draft.folder = Bin => hasBin' /\ FirstHasBin
             /\ EditorMayBeOpen
  <2>1. y = selected /\ y # None /\ listed[y] # Absent
    BY <1>6 DEF SelectedEntry, Shown
  <2>2. doc[e] # Absent
    <3>1. y = e
      BY <1>6
    <3>2. PICK d \in Docs : d = doc
      BY DEF VaultOK
    <3>3. View(d)[e] = Absent <=> d[e] = Absent
      BY ViewFacts
    <3> QED
      BY <2>1, <3>1, <3>2, <3>3 DEF VaultOK
  <2>3. editing /\ Recycled
    BY <1>6, <2>2
  <2>4. SelectedEntry # None /\ listed[selected].folder = Bin
    BY <2>1, <2>3, <1>6 DEF Recycled
  <2> QED
    BY <1>3, <2>3, <2>4
<1>7. /\ listed' = list /\ selected' = y /\ editing' = edit
      /\ PageOK(listed', selected', editing', draft', touched', hasBin')
      /\ InView'
  <2>1. PICK bin \in BOOLEAN : bin = hasBin'
    OBVIOUS
  <2>2. PICK fields \in Lines, typed \in BOOLEAN : fields = draft /\ typed = touched
    BY <1>3
  <2>3. edit /\ Shown(list, y) # None =>
          /\ list[y].folder = Bin => EditorMayBeOpen /\ FirstHasBin
          /\ y = SelectedEntry =>
               /\ fields.folder = Bin => bin /\ FirstHasBin
               /\ ~EditorMayBeOpen /\ ~typed => fields = list[y]
    BY <1>5, <1>6, <2>1, <2>2
  <2>4. /\ Render(list, y, edit, fields, typed, pending)
        /\ \A z \in Entries : list[z].folder = Bin => bin
    BY <1>1, <1>2, <2>1, <2>2
  <2> QED
    BY <1>4, <2>1, <2>3, <2>4, RenderFacts
<1>8. VaultOK'
  BY <1>1, <1>2, <1>7 DEF VaultOK, View
<1> QED
  BY <1>7, <1>8 DEF Editor

\* refreshVaultData with an entry selected keeps it.
LEMMA RefreshFacts ==
  ASSUME NEW edit, selected # None, Refresh(doc', edit)
  PROVE  Render(View(doc'), selected, edit, draft, touched, adding)
BY DEF Refresh
-----------------------------------------------------------------------------
(* The handlers: lemma XKeeps says that X keeps the invariant and does no    *)
(* more to the document than DocStep.                                        *)

\* What the page's handlers know of it.
LEMMA PageFacts ==
  ASSUME VaultOK, Editor
  PROVE  /\ selected \in Entries \cup {None}
         /\ SelectedEntry # None =>
              /\ selected # None /\ SelectedEntry = selected
              /\ doc[selected] \in EntryType
              /\ listed[selected] \in Lines
              /\ listed[selected] = [folder |-> doc[selected].folder, fields |-> doc[selected].fields]
         /\ SelectedEntry = None /\ selected # None => doc[selected] = Absent
         /\ draft \in Lines /\ editing \in BOOLEAN /\ touched \in BOOLEAN
         /\ Drafts \subseteq Lines
         /\ editing /\ SelectedEntry # None =>
              /\ Recycled => EditorMayBeOpen /\ FirstHasBin
              /\ draft.folder = Bin => hasBin /\ FirstHasBin
              /\ ~EditorMayBeOpen /\ ~touched => draft = listed[selected]
<1>1. PICK d \in Docs : d = doc
  BY DEF VaultOK
<1>2. /\ View(d) \in Listings
      /\ \A e \in Entries :
           /\ View(d)[e] = Absent <=> d[e] = Absent
           /\ d[e] # Absent => View(d)[e] = [folder |-> d[e].folder, fields |-> d[e].fields]
  BY ViewFacts
<1>3. listed = View(d)
  BY <1>1 DEF VaultOK
<1>4. selected \in Entries \cup {None}
  BY DEF Editor, PageOK
<1>5. SelectedEntry # None =>
        selected \in Entries /\ SelectedEntry = selected /\ listed[selected] # Absent
  BY <1>4 DEF SelectedEntry, Shown
<1>6. SelectedEntry = None /\ selected # None => selected \in Entries /\ listed[selected] = Absent
  BY <1>4 DEF SelectedEntry, Shown
<1>7. SelectedEntry # None => d[selected] \in EntryType /\ listed[selected] \in Lines
  BY <1>2, <1>3, <1>5 DEF Docs, Listings
<1>8. /\ draft \in Lines /\ editing \in BOOLEAN /\ touched \in BOOLEAN
      /\ editing /\ SelectedEntry # None =>
           /\ listed[selected].folder = Bin => EditorMayBeOpen /\ FirstHasBin
           /\ draft.folder = Bin => hasBin /\ FirstHasBin
           /\ ~EditorMayBeOpen /\ ~touched => draft = listed[selected]
  BY DEF Editor, PageOK, SelectedEntry
<1>9. Drafts \subseteq Lines
  BY DEF Drafts, Lines
<1>10. Recycled => listed[selected].folder = Bin
  BY <1>5 DEF Recycled
<1> QED
  BY <1>1, <1>2, <1>3, <1>4, <1>5, <1>6, <1>7, <1>8, <1>9, <1>10, DocumentAssumption

LEMMA SelectKeeps ==
  ASSUME IInv, NEW e \in Entries \cup {None}, Select(e)
  PROVE  IInv' /\ DocStep
<1>1. Render(listed, e, FALSE, draft, touched, adding) /\ UNCHANGED vault
  BY DEF Select
<1>2. draft \in Lines /\ touched \in BOOLEAN
  BY PageFacts DEF IInv
<1>3. /\ selected' = e /\ editing' = FALSE /\ doc' = doc
      /\ VaultOK' /\ Editor' /\ InView'
  BY <1>1, <1>2, QuietRender DEF IInv
<1>4. Dialog'
  BY <1>3 DEF IInv, Dialog, Select, dialogs, NoDialog
<1> QED
  BY <1>3, <1>4 DEF IInv, DocStep

LEMMA EditKeeps ==
  ASSUME IInv, Edit
  PROVE  IInv' /\ DocStep
<1>1. /\ Render(listed, selected, TRUE, Loaded, FALSE, adding) /\ UNCHANGED vault
      /\ SelectedEntry # None /\ ~Recycled
  BY DEF Edit
<1>2. /\ selected \in Entries \cup {None} /\ SelectedEntry = selected
      /\ listed[selected] \in Lines
  BY <1>1, PageFacts DEF IInv
<1>3. PICK fields \in Lines : fields = Loaded
  BY <1>2 DEF Loaded
<1>4. fields = listed[selected] /\ listed[selected].folder # Bin
  BY <1>1, <1>2, <1>3 DEF Loaded, Recycled
<1>5. /\ selected' = selected /\ editing' = TRUE /\ doc' = doc
      /\ VaultOK' /\ Editor' /\ InView'
  BY <1>1, <1>2, <1>3, <1>4, QuietRender DEF IInv
<1>6. Dialog'
  BY <1>5 DEF IInv, Dialog, Edit, dialogs, NoDialog
<1> QED
  BY <1>5, <1>6 DEF IInv, DocStep

LEMMA TypeKeeps ==
  ASSUME IInv, NEW new \in Drafts, Type(new)
  PROVE  IInv' /\ DocStep
<1>1. /\ Render(listed, selected, editing, new, TRUE, adding) /\ UNCHANGED vault
      /\ SelectedEntry # None /\ editing
  BY DEF Type
<1>2. /\ selected \in Entries \cup {None} /\ SelectedEntry = selected
      /\ editing \in BOOLEAN /\ new \in Lines
      /\ Recycled => EditorMayBeOpen /\ FirstHasBin
  BY <1>1, PageFacts DEF IInv
<1>3. new.folder # Bin
  BY DocumentAssumption DEF Drafts
<1>4. listed[selected].folder = Bin => EditorMayBeOpen /\ FirstHasBin
  BY <1>1, <1>2 DEF Recycled
<1>5. /\ selected' = selected /\ editing' = editing /\ doc' = doc
      /\ VaultOK' /\ Editor' /\ InView'
  BY <1>1, <1>2, <1>3, <1>4, QuietRender DEF IInv
<1>6. Dialog'
  BY <1>5 DEF IInv, Dialog, Type, dialogs, NoDialog
<1> QED
  BY <1>5, <1>6 DEF IInv, DocStep

LEMMA CancelKeeps ==
  ASSUME IInv, Cancel
  PROVE  IInv' /\ DocStep
<1>1. /\ Render(listed, selected, FALSE, Loaded, FALSE, adding) /\ UNCHANGED vault
      /\ SelectedEntry # None
  BY DEF Cancel
<1>2. /\ selected \in Entries \cup {None} /\ SelectedEntry = selected
      /\ listed[selected] \in Lines
  BY <1>1, PageFacts DEF IInv
<1>3. PICK fields \in Lines : fields = Loaded
  BY <1>2 DEF Loaded
<1>4. /\ selected' = selected /\ editing' = FALSE /\ doc' = doc
      /\ VaultOK' /\ Editor' /\ InView'
  BY <1>1, <1>2, <1>3, QuietRender DEF IInv
<1>5. Dialog'
  BY <1>4 DEF IInv, Dialog, Cancel, dialogs, NoDialog
<1> QED
  BY <1>4, <1>5 DEF IInv, DocStep

LEMMA NavigateKeeps ==
  ASSUME IInv, Navigate
  PROVE  IInv' /\ DocStep
<1>1. Render(listed, selected, editing, draft, touched, adding) /\ UNCHANGED vault
  BY DEF Navigate
<1>2. /\ selected \in Entries \cup {None} /\ draft \in Lines
      /\ editing \in BOOLEAN /\ touched \in BOOLEAN
  BY PageFacts DEF IInv
<1>3. editing /\ Shown(listed, selected) # None =>
        /\ listed[selected].folder = Bin => EditorMayBeOpen /\ FirstHasBin
        /\ draft.folder = Bin => hasBin /\ FirstHasBin
        /\ ~EditorMayBeOpen /\ ~touched => draft = listed[selected]
  BY DEF IInv, Editor, PageOK
<1>4. /\ selected' = selected /\ editing' = editing /\ doc' = doc
      /\ VaultOK' /\ Editor' /\ InView'
  BY <1>1, <1>2, <1>3, QuietRender DEF IInv
<1>5. Dialog'
  BY <1>4 DEF IInv, Dialog, Navigate
<1> QED
  BY <1>4, <1>5 DEF IInv, DocStep

\* Handlers that leave the vault and the page.
LEMMA PageStays ==
  ASSUME IInv, UNCHANGED <<vault, page, hidden>>, adding' \in SUBSET Additions,
         \A a \in adding' :
           ~a.aborted => Attachments = [entry |-> a.entry, readOnly |-> FALSE]
  PROVE  VaultOK' /\ Editor' /\ InView' /\ DocStep
<1>1. VaultOK' /\ Editor'
  BY DEF IInv, VaultOK, Editor, vault, page
<1>2. Attachments' = Attachments
  BY DEF Attachments, page
<1> QED
  BY <1>1, <1>2 DEF InView, DocStep, vault

LEMMA StartAddingKeeps ==
  ASSUME IInv, NEW f \in Files, StartAdding(f)
  PROVE  IInv' /\ DocStep
<1>1. /\ UNCHANGED <<vault, page, dialogs, changes>>
      /\ Attachments.entry # None /\ ~Attachments.readOnly
      /\ adding' = adding \cup
           {[entry |-> selected, file |-> f, aborted |-> FALSE, step |-> "read"]}
  BY DEF StartAdding, CanChangeFiles
<1>2. Attachments = [entry |-> selected, readOnly |-> FALSE] /\ selected # None
  <2>1. ~editing /\ ~hidden /\ SelectedEntry # None
    BY <1>1 DEF Attachments, Panel, SelectedEntry
  <2>2. Attachments = [entry |-> selected, readOnly |-> listed[selected].folder = Bin]
    BY <2>1 DEF Attachments, Panel, SelectedEntry
  <2> QED
    BY <1>1, <2>2
<1>3. selected \in Entries
  BY <1>2, PageFacts DEF IInv
<1>4. /\ adding' \in SUBSET Additions
      /\ \A a \in adding' :
           ~a.aborted => Attachments = [entry |-> a.entry, readOnly |-> FALSE]
  <2>1. PICK n \in Additions :
          n = [entry |-> selected, file |-> f, aborted |-> FALSE, step |-> "read"]
    BY <1>3 DEF Additions
  <2>2. n.entry = selected
    BY <2>1
  <2> QED
    BY <1>1, <1>2, <2>1, <2>2 DEF IInv, InView
<1>5. VaultOK' /\ Editor' /\ InView' /\ DocStep
  BY <1>1, <1>4, PageStays DEF dialogs
<1>6. Dialog'
  BY <1>1 DEF IInv, Dialog, dialogs, page
<1> QED
  BY <1>5, <1>6 DEF IInv

LEMMA FileReadKeeps ==
  ASSUME IInv, NEW a \in adding, FileRead(a)
  PROVE  IInv' /\ DocStep
<1>1. /\ UNCHANGED <<vault, page, dialogs, changes>>
      /\ adding' = (adding \ {a}) \cup
           (IF a.aborted THEN {} ELSE {[a EXCEPT !.step = "hash"]})
  BY DEF FileRead
<1>2. /\ a \in Additions /\ [a EXCEPT !.step = "hash"] \in Additions
      /\ [a EXCEPT !.step = "hash"].entry = a.entry
      /\ [a EXCEPT !.step = "hash"].aborted = a.aborted
  BY DEF IInv, InView, Additions
<1>3. /\ adding' \in SUBSET Additions
      /\ \A b \in adding' :
           ~b.aborted => Attachments = [entry |-> b.entry, readOnly |-> FALSE]
  BY <1>1, <1>2 DEF IInv, InView
<1>4. VaultOK' /\ Editor' /\ InView' /\ DocStep
  BY <1>1, <1>3, PageStays DEF dialogs
<1>5. Dialog'
  BY <1>1 DEF IInv, Dialog, dialogs, page
<1> QED
  BY <1>4, <1>5 DEF IInv

\* Dialogs that are opened, turned over and closed.
LEMMA DialogsKeep ==
  ASSUME IInv,
         \/ OpenEntryHistory \/ CloseDialog
         \/ \E i \in 1..MaxChanges : PickVersion(i)
         \/ OpenVersions \/ Compare \/ ConflictOpened \/ Back
  PROVE  IInv' /\ DocStep
<1>1. UNCHANGED <<vault, page, hidden, adding, changes>>
  BY DEF OpenEntryHistory, CloseDialog, PickVersion, OpenVersions, Compare,
         ConflictOpened, Back
<1>2. VaultOK' /\ Editor' /\ InView' /\ DocStep
  BY <1>1, PageStays DEF IInv, InView
<1>3. Dialog'
  <2>1. CASE OpenEntryHistory
    <3>1. selected # None /\ doc[selected] \in EntryType /\ recovered = {}
      BY <2>1, PageFacts DEF OpenEntryHistory, NoDialog, IInv, Dialog
    <3>2. Len(doc[selected].history) \in Nat
      BY <3>1, LenProperties DEF EntryType
    <3> QED
      BY <2>1, <3>1, <3>2 DEF OpenEntryHistory, IInv, Dialog, Dialogs, page
  <2>2. CASE \E i \in 1..MaxChanges : PickVersion(i)
    BY <2>2 DEF PickVersion, IInv, Dialog, page
  <2>3. CASE CloseDialog
    BY <2>3 DEF CloseDialog, IInv, Dialog, Dialogs, page
  <2>4. CASE OpenVersions \/ Compare \/ ConflictOpened \/ Back
    BY <2>4 DEF OpenVersions, Compare, ConflictOpened, Back, NoDialog, IInv, Dialog,
                Dialogs, page
  <2> QED
    BY <2>1, <2>2, <2>3, <2>4
<1> QED
  BY <1>2, <1>3 DEF IInv

\* Editing is over when the panel is shown or a history is open.
LEMMA NotEditing ==
  ASSUME IInv,
         \/ Attachments.entry # None
         \/ dialog = "history"
  PROVE  ~editing /\ selected # None
BY DEF IInv, Dialog, Attachments, Panel, Shown

\* What pushes a version may replace fields and files of an entry outside the
\* bin.
LEMMA PushAllowed ==
  ASSUME VaultOK, NEW e \in Entries, Live(doc, e),
         NEW fields \in Contents, NEW files \in SUBSET Files,
         NEW folder \in {Root, Folder, Bin},
         NEW h \in Seq(Versions),
         HistoryEnabled => FieldsOf(h) = Pushed(doc[e]),
         NEW x, x = [folder |-> folder, fields |-> fields, files |-> files, history |-> h]
  PROVE  x \in EntryType /\ Allowed(e, x)
<1>1. x \in EntryType /\ x # Absent /\ x.history = h
  BY AbsentFacts DEF EntryType
<1>2. doc[e].folder # Bin
  BY DocumentAssumption DEF Live
<1> QED
  BY <1>1, <1>2 DEF Allowed

LEMMA HandleSaveEntryKeeps ==
  ASSUME IInv, HandleSaveEntry
  PROVE  IInv' /\ DocStep
<1>1. /\ SelectedEntry # None /\ ~Recycled /\ editing
      /\ limit' = limit /\ recycling' = recycling /\ hasBin' = hasBin
      /\ UNCHANGED dialogs /\ Refresh(doc', FALSE)
  BY DEF HandleSaveEntry
<1>2. /\ selected \in Entries /\ selected # None /\ SelectedEntry = selected
      /\ doc[selected] \in EntryType
      /\ listed[selected] = [folder |-> doc[selected].folder, fields |-> doc[selected].fields]
      /\ draft \in Lines /\ touched \in BOOLEAN
      /\ draft.folder = Bin => hasBin
  BY <1>1, PageFacts DEF IInv
<1>3. Render(View(doc'), selected, FALSE, draft, touched, adding)
  BY <1>1, <1>2, RefreshFacts
<1>4. CASE doc' = doc /\ changes' = changes
  <2>1. listed = View(doc') /\ UNCHANGED vault
    BY <1>1, <1>4 DEF IInv, VaultOK, vault
  <2>2. Render(listed, selected, FALSE, draft, touched, adding)
    BY <1>3, <2>1
  <2>3. /\ selected' = selected /\ editing' = FALSE
        /\ VaultOK' /\ Editor' /\ InView'
    BY <1>2, <2>1, <2>2, QuietRender DEF IInv
  <2>4. Dialog'
    BY <1>1, <1>4, <2>3 DEF IInv, Dialog, dialogs
  <2> QED
    BY <1>4, <2>3, <2>4 DEF IInv, DocStep
<1>5. CASE doc' = UpdateEntry(doc, selected, draft) /\ Changed
  <2>1. PICK o \in EntryType : o = doc[selected]
    BY <1>2
  <2>2. PICK p \in EntryType : p = PushEntryHistory(o)
    BY <2>1, PushFacts DEF IInv, VaultOK
  <2>3. HistoryEnabled => FieldsOf(p.history) = Pushed(o)
    BY <2>2, PushFacts DEF IInv, VaultOK
  <2>4. PICK x : x = [folder |-> draft.folder, fields |-> draft.fields,
                      files |-> p.files, history |-> p.history]
    OBVIOUS
  <2>5. [p EXCEPT !.fields = draft.fields, !.folder = draft.folder] = x
    <3>1. PICK a, b : a = draft.fields /\ b = draft.folder
      OBVIOUS
    <3>2. [p EXCEPT !.fields = a, !.folder = b] =
            [folder |-> b, fields |-> a, files |-> p.files, history |-> p.history]
      <4>1. PICK q : q = [p EXCEPT !.fields = a]
        OBVIOUS
      <4>2. q = [folder |-> p.folder, fields |-> a, files |-> p.files, history |-> p.history]
        BY <4>1 DEF EntryType
      <4>3. [q EXCEPT !.folder = b] =
              [folder |-> b, fields |-> a, files |-> p.files, history |-> p.history]
        BY <4>2
      <4> QED
        BY <4>1, <4>3
    <3> QED
      BY <2>4, <3>1, <3>2
  <2>6. doc' = [doc EXCEPT ![selected] = x]
    BY <1>5, <2>1, <2>2, <2>5 DEF UpdateEntry
  <2>7. Live(doc, selected)
    BY <1>1, <1>2, <2>1 DEF Live, Recycled, EntryType
  <2>8. /\ draft.folder \in {Root, Folder, Bin} /\ draft.fields \in Contents
        /\ p.files \in SUBSET Files /\ p.history \in Seq(Versions)
    BY <1>2 DEF Lines, EntryType
  <2>9. x \in EntryType /\ Allowed(selected, x)
    BY <1>2, <2>1, <2>3, <2>4, <2>7, <2>8, PushAllowed DEF IInv
  <2>10. x.folder = Bin => hasBin'
    BY <1>1, <1>2, <2>4
  <2>11. /\ selected' = selected /\ editing' = FALSE
         /\ VaultOK' /\ Editor' /\ InView'
    BY <1>1, <1>2, <1>3, <2>6, <2>9, <2>10, ChangeRender DEF IInv, VaultOK
  <2>12. Dialog'
    BY <1>1, <1>5, <2>11, DocumentAssumption DEF IInv, Dialog, dialogs, Changed
  <2> QED
    BY <1>2, <2>6, <2>9, <2>11, <2>12 DEF IInv, DocStep
<1> QED
  BY <1>4, <1>5 DEF HandleSaveEntry

LEMMA HandleCreateNewEntryKeeps ==
  ASSUME IInv, NEW e \in Entries, NEW folder \in {Root, Folder},
         HandleCreateNewEntry(e, folder)
  PROVE  IInv' /\ DocStep
<1>1. /\ doc[e] = Absent /\ Changed
      /\ limit' = limit /\ recycling' = recycling /\ hasBin' = hasBin
      /\ UNCHANGED dialogs /\ NoDialog
      /\ Render(View(doc'), e, TRUE, draft, touched, adding)
  BY DEF HandleCreateNewEntry
<1>2. PICK x : x = [folder |-> folder, fields |-> Blank, files |-> {}, history |-> <<>>]
  OBVIOUS
<1>3. doc' = [doc EXCEPT ![e] = x]
  BY <1>2 DEF HandleCreateNewEntry, NewEntry
<1>4. <<>> \in Seq(Versions)
  BY EmptySeq
<1>5. x \in EntryType /\ x.folder # Bin
  BY <1>2, <1>4, DocumentAssumption DEF EntryType
<1>6. Allowed(e, x)
  BY <1>1, DocumentAssumption DEF Allowed, Absent
<1>7. /\ selected' = e /\ editing' = TRUE
      /\ VaultOK' /\ Editor' /\ InView'
  <2>1. recycling' \in {"on", "off", "unset"} /\ hasBin' \in BOOLEAN /\ hasBin' = hasBin
    BY <1>1 DEF IInv, VaultOK
  <2>2. PICK edit \in BOOLEAN : edit = TRUE
    OBVIOUS
  <2>3. Render(View(doc'), e, edit, draft, touched, adding)
    BY <1>1, <2>2
  <2>4. VaultOK /\ Editor /\ InView
    BY DEF IInv
  <2>5. x \in EntryType \cup {Absent} /\ e \in Entries \cup {None} /\ limit' = limit
    BY <1>1, <1>5
  <2>6. /\ edit => x.folder # Bin /\ (doc[e] = Absent \/ (editing /\ Recycled))
        /\ x.folder = Bin => hasBin'
        /\ hasBin => hasBin'
    BY <1>1, <1>5, <2>1
  <2> QED
    BY <1>3, <2>1, <2>2, <2>3, <2>4, <2>5, <2>6, ChangeRender
<1>8. Dialog'
  BY <1>1, <1>7, DocumentAssumption DEF IInv, Dialog, dialogs, Changed, NoDialog
<1> QED
  BY <1>3, <1>5, <1>6, <1>7, <1>8 DEF IInv, DocStep

LEMMA HandleDeleteEntryKeeps ==
  ASSUME IInv, HandleDeleteEntry
  PROVE  IInv' /\ DocStep
<1>1. /\ ~editing /\ SelectedEntry # None /\ ~Recycled /\ Changed
      /\ limit' = limit /\ UNCHANGED dialogs
      /\ Render(View(doc'), None, editing, draft, touched, adding)
  BY DEF HandleDeleteEntry
<1>2. /\ selected \in Entries /\ selected # None /\ SelectedEntry = selected
      /\ doc[selected] \in EntryType
      /\ listed[selected].folder = doc[selected].folder
      /\ draft \in Lines /\ touched \in BOOLEAN /\ editing \in BOOLEAN
  BY <1>1, PageFacts DEF IInv
<1>3. doc[selected].folder # Bin /\ Live(doc, selected)
  BY <1>1, <1>2 DEF Live, Recycled, EntryType
<1>4. /\ hasBin' = BinMade
      /\ recycling' = IF RecyclingEnabled THEN "on" ELSE "off"
      /\ doc' = Remove(doc, selected, RecyclingEnabled, hasBin')
  BY <1>3 DEF HandleDeleteEntry
<1>5. /\ hasBin' \in BOOLEAN /\ (hasBin => hasBin')
      /\ RecyclingEnabled => hasBin'
      /\ recycling' \in {"on", "off", "unset"}
  BY <1>4 DEF BinMade, IInv, VaultOK, RecyclingEnabled
<1>6. PICK o \in EntryType : o = doc[selected]
  BY <1>2
<1>7. PICK x : x = IF RecyclingEnabled /\ hasBin' THEN [o EXCEPT !.folder = Bin] ELSE Absent
  OBVIOUS
<1>8. doc' = [doc EXCEPT ![selected] = x]
  BY <1>4, <1>6, <1>7 DEF Remove
<1>9. /\ [o EXCEPT !.folder = Bin] \in EntryType
      /\ Current([o EXCEPT !.folder = Bin]) = Current(o)
  BY DEF EntryType, Current
<1>10. x \in EntryType \cup {Absent} /\ (x.folder = Bin => hasBin')
  BY <1>5, <1>7, <1>9, DocumentAssumption DEF Absent
<1>11. Allowed(selected, x)
  BY <1>3, <1>5, <1>6, <1>7, <1>9, AbsentFacts DEF Allowed
<1>12. /\ selected' = None /\ editing' = editing
       /\ VaultOK' /\ Editor' /\ InView'
  BY <1>1, <1>2, <1>5, <1>8, <1>10, ChangeRender DEF IInv
<1>13. Dialog'
  BY <1>1, <1>12, DocumentAssumption DEF IInv, Dialog, dialogs, Changed, HandleDeleteEntry, NoDialog
<1> QED
  BY <1>2, <1>8, <1>10, <1>11, <1>12, <1>13 DEF IInv, DocStep

LEMMA HandleRestoreEntryKeeps ==
  ASSUME IInv, HandleRestoreEntry
  PROVE  IInv' /\ DocStep
<1>1. /\ Recycled /\ Changed
      /\ limit' = limit /\ recycling' = recycling /\ hasBin' = hasBin
      /\ UNCHANGED dialogs /\ NoDialog
      /\ Refresh(doc', editing)
  BY DEF HandleRestoreEntry
<1>2. /\ selected \in Entries /\ selected # None /\ SelectedEntry = selected
      /\ doc[selected] \in EntryType
      /\ draft \in Lines /\ touched \in BOOLEAN /\ editing \in BOOLEAN
  BY <1>1, PageFacts DEF IInv, Recycled
<1>3. Render(View(doc'), selected, editing, draft, touched, adding)
  BY <1>1, <1>2, RefreshFacts
<1>4. PICK o \in EntryType : o = doc[selected]
  BY <1>2
<1>5. PICK x : x = [o EXCEPT !.folder = Root]
  OBVIOUS
<1>6. doc' = [doc EXCEPT ![selected] = x]
  BY <1>4, <1>5 DEF HandleRestoreEntry
<1>7. x \in EntryType /\ x.folder # Bin /\ x # Absent /\ Current(x) = Current(o)
  BY <1>5, DocumentAssumption, AbsentFacts DEF EntryType, Current
<1>8. Allowed(selected, x)
  BY <1>4, <1>5, <1>7 DEF Allowed
<1>9. /\ selected' = selected /\ editing' = editing
      /\ VaultOK' /\ Editor' /\ InView'
  BY <1>1, <1>2, <1>3, <1>6, <1>7, ChangeRender DEF IInv, VaultOK
<1>10. Dialog'
  BY <1>1, <1>9, DocumentAssumption DEF IInv, Dialog, dialogs, Changed, NoDialog
<1> QED
  BY <1>2, <1>6, <1>7, <1>8, <1>9, <1>10 DEF IInv, DocStep

\* An attachment's panel and history dialog change an entry that is not being
\* edited, and what is shown stays.
LEMMA EntryChanged ==
  ASSUME IInv, NEW e \in Entries, NEW x \in EntryType, Allowed(e, x), x.folder # Bin,
         doc' = [doc EXCEPT ![e] = x], ~editing,
         UNCHANGED <<limit, recycling, hasBin>>,
         NEW pending \in SUBSET adding,
         Render(View(doc'), selected, editing, draft, touched, pending)
  PROVE  /\ selected' = selected /\ editing' = FALSE
         /\ VaultOK' /\ Editor' /\ InView' /\ DocStep
<1>1. /\ VaultOK /\ Editor /\ InView
      /\ selected \in Entries \cup {None} /\ editing = FALSE
  BY PageFacts DEF IInv
<1>2. /\ limit' = limit
      /\ recycling' \in {"on", "off", "unset"} /\ hasBin' \in BOOLEAN
      /\ hasBin => hasBin'
      /\ x.folder = Bin => hasBin'
      /\ x \in EntryType \cup {Absent}
  BY <1>1 DEF VaultOK
<1>3. Render(View(doc'), selected, FALSE, draft, touched, pending)
  BY <1>1
<1>4. PICK edit \in BOOLEAN : edit = FALSE
  OBVIOUS
<1>5. /\ selected' = selected /\ editing' = edit
      /\ VaultOK' /\ Editor' /\ InView'
  BY <1>1, <1>2, <1>3, <1>4, ChangeRender
<1> QED
  BY <1>4, <1>5 DEF DocStep

LEMMA FileHashedKeeps ==
  ASSUME IInv, NEW a \in adding, FileHashed(a)
  PROVE  /\ IInv' /\ DocStep
         /\ doc' # doc => Attachments = [entry |-> a.entry, readOnly |-> FALSE]
<1>1. /\ UNCHANGED <<limit, recycling, hasBin, dialogs>>
      /\ IF MayAdd(a)
         THEN Changed /\ doc' = AddAttachment(doc, a.entry, a.file)
         ELSE UNCHANGED <<doc, changes>>
      /\ Render(IF doc' = doc THEN listed ELSE View(doc'), selected, editing,
                draft, touched, adding \ {a})
  BY DEF FileHashed
<1>2. /\ selected \in Entries \cup {None} /\ draft \in Lines
      /\ editing \in BOOLEAN /\ touched \in BOOLEAN
  BY PageFacts DEF IInv
<1>3. Render(View(doc'), selected, editing, draft, touched, adding \ {a})
  BY <1>1 DEF IInv, VaultOK
<1>4. CASE ~MayAdd(a)
  <2>1. UNCHANGED vault /\ changes' = changes /\ doc' = doc
    BY <1>1, <1>4 DEF vault
  <2>2. Render(listed, selected, editing, draft, touched, adding \ {a})
    BY <1>1, <2>1
  <2>3. editing /\ Shown(listed, selected) # None =>
          /\ listed[selected].folder = Bin => EditorMayBeOpen /\ FirstHasBin
          /\ draft.folder = Bin => hasBin /\ FirstHasBin
          /\ ~EditorMayBeOpen /\ ~touched => draft = listed[selected]
    BY DEF IInv, Editor, PageOK
  <2>4. /\ selected' = selected /\ editing' = editing
        /\ VaultOK' /\ Editor' /\ InView'
    BY <1>2, <2>1, <2>2, <2>3, QuietRender DEF IInv
  <2>5. Dialog'
    BY <1>1, <2>1, <2>4 DEF IInv, Dialog, dialogs
  <2> QED
    BY <2>1, <2>4, <2>5 DEF IInv, DocStep
<1>5. CASE MayAdd(a)
  <2>1. /\ ~a.aborted /\ Live(doc, a.entry) /\ a \in Additions
    BY <1>5 DEF MayAdd, IInv, InView
  <2>2. Attachments = [entry |-> a.entry, readOnly |-> FALSE]
    BY <2>1 DEF IInv, InView
  <2>3. a.entry \in Entries /\ a.file \in Files
    BY <2>1 DEF Additions
  <2>4. ~editing
    <3>1. Attachments.entry # None
      BY <2>2, <2>3, DocumentAssumption
    <3> QED
      BY <3>1, NotEditing
  <2>5. PICK e \in Entries, f \in Files : e = a.entry /\ f = a.file
    BY <2>3
  <2>6. PICK o \in EntryType : o = doc[e]
    BY <2>1, <2>5, DocumentAssumption DEF Live, IInv, VaultOK, Docs, Absent
  <2>7. PICK p \in EntryType : p = PushEntryHistory(o)
    BY PushFacts DEF IInv, VaultOK
  <2>8. /\ HistoryEnabled => FieldsOf(p.history) = Pushed(o)
        /\ p.folder = o.folder
    BY <2>7, PushFacts DEF IInv, VaultOK
  <2>9. PICK x : x = [folder |-> p.folder, fields |-> p.fields,
                      files |-> p.files \cup {f}, history |-> p.history]
    OBVIOUS
  <2>10. doc' = [doc EXCEPT ![e] = x]
    <3>1. [p EXCEPT !.files = @ \cup {f}] = x
      <4>1. PICK g : g = p.files \cup {f}
        OBVIOUS
      <4>2. [p EXCEPT !.files = g] =
              [folder |-> p.folder, fields |-> p.fields, files |-> g, history |-> p.history]
        BY DEF EntryType
      <4> QED
        BY <2>9, <4>1, <4>2
    <3> QED
      BY <1>1, <1>5, <2>5, <2>6, <2>7, <3>1 DEF AddAttachment
  <2>11. /\ p.folder \in {Root, Folder, Bin} /\ p.fields \in Contents
         /\ p.files \cup {f} \in SUBSET Files /\ p.history \in Seq(Versions)
    BY DEF EntryType
  <2>12. x \in EntryType /\ Allowed(e, x)
    BY <2>1, <2>5, <2>6, <2>8, <2>9, <2>11, PushAllowed DEF IInv
  <2>13. x.folder # Bin
    BY <2>1, <2>5, <2>6, <2>8, <2>9, DocumentAssumption DEF Live
  <2>14. /\ UNCHANGED <<limit, recycling, hasBin>>
         /\ adding \ {a} \in SUBSET adding
    BY <1>1
  <2>15. /\ selected' = selected /\ editing' = FALSE
         /\ VaultOK' /\ Editor' /\ InView' /\ DocStep
    BY <1>3, <2>4, <2>10, <2>12, <2>13, <2>14, EntryChanged
  <2>16. Dialog'
    BY <1>1, <1>5, <2>15, DocumentAssumption DEF IInv, Dialog, dialogs, Changed
  <2> QED
    BY <2>2, <2>15, <2>16 DEF IInv
<1> QED
  BY <1>4, <1>5

LEMMA RemoveAttachmentKeeps ==
  ASSUME IInv, NEW f \in Files, NEW fromHistory \in BOOLEAN,
         RemoveAttachment(f, fromHistory)
  PROVE  IInv' /\ DocStep
<1>1. /\ Attachments.entry # None /\ Live(doc, selected) /\ Changed /\ NoDialog
      /\ UNCHANGED <<limit, recycling, hasBin>> /\ UNCHANGED dialogs
      /\ doc' = RemoveFile(doc, selected, f, fromHistory)
      /\ Refresh(doc', editing)
  BY DEF RemoveAttachment, CanChangeFiles
<1>2. ~editing /\ selected # None
  BY <1>1, NotEditing
<1>3. PICK e \in Entries : e = selected
  BY <1>2, PageFacts DEF IInv
<1>4. Render(View(doc'), selected, editing, draft, touched, adding)
  BY <1>1, <1>2, RefreshFacts
<1>5. PICK o \in EntryType : o = doc[e]
  BY <1>1, <1>3, DocumentAssumption DEF Live, IInv, VaultOK, Docs, Absent
<1>6. PICK p \in EntryType : p = PushEntryHistory(o)
  BY PushFacts DEF IInv, VaultOK
<1>7. /\ HistoryEnabled => FieldsOf(p.history) = Pushed(o)
      /\ p.folder = o.folder
  BY <1>6, PushFacts DEF IInv, VaultOK
<1>8. p.history \in Seq(Versions)
  BY DEF EntryType
<1>9. PICK h \in Seq(Versions) : h = IF fromHistory THEN Without(p.history, {f}) ELSE p.history
  BY <1>8, WithoutFacts
<1>10. FieldsOf(h) = FieldsOf(p.history)
  BY <1>8, <1>9, WithoutFacts
<1>11. PICK x : x = [folder |-> p.folder, fields |-> p.fields,
                     files |-> p.files \ {f}, history |-> h]
  OBVIOUS
<1>12. doc' = [doc EXCEPT ![e] = x]
  <2>1. PICK g : g = p.files \ {f}
    OBVIOUS
  <2>2. [p EXCEPT !.files = g, !.history = h] =
          [folder |-> p.folder, fields |-> p.fields, files |-> g, history |-> h]
    <3>1. PICK q : q = [p EXCEPT !.files = g]
      OBVIOUS
    <3>2. q = [folder |-> p.folder, fields |-> p.fields, files |-> g, history |-> p.history]
      BY <3>1 DEF EntryType
    <3>3. [q EXCEPT !.history = h] =
            [folder |-> p.folder, fields |-> p.fields, files |-> g, history |-> h]
      BY <3>2
    <3> QED
      BY <3>1, <3>3
  <2>3. [p EXCEPT !.files = @ \ {f},
                  !.history = IF fromHistory THEN Without(@, {f}) ELSE @] = x
    BY <1>9, <1>11, <2>1, <2>2
  <2> QED
    BY <1>1, <1>3, <1>5, <1>6, <2>3 DEF RemoveFile
<1>13. /\ p.folder \in {Root, Folder, Bin} /\ p.fields \in Contents
       /\ p.files \ {f} \in SUBSET Files
  BY DEF EntryType
<1>14. x \in EntryType /\ Allowed(e, x)
  BY <1>1, <1>3, <1>5, <1>7, <1>10, <1>11, <1>13, PushAllowed DEF IInv
<1>15. x.folder # Bin
  BY <1>1, <1>3, <1>5, <1>7, <1>11, DocumentAssumption DEF Live
<1>16. /\ selected' = selected /\ editing' = FALSE
       /\ VaultOK' /\ Editor' /\ InView' /\ DocStep
  BY <1>1, <1>2, <1>4, <1>12, <1>14, <1>15, EntryChanged
<1>17. Dialog'
  BY <1>1, <1>16, DocumentAssumption DEF IInv, Dialog, dialogs, Changed, NoDialog
<1> QED
  BY <1>16, <1>17 DEF IInv

LEMMA ClearAttachmentHistoryKeeps ==
  ASSUME IInv, ClearAttachmentHistory
  PROVE  IInv' /\ DocStep
<1>1. /\ Attachments.entry # None /\ Live(doc, selected) /\ Changed /\ NoDialog
      /\ UNCHANGED <<limit, recycling, hasBin>> /\ UNCHANGED dialogs
      /\ Refresh(doc', editing)
  BY DEF ClearAttachmentHistory, CanChangeFiles
<1>2. ~editing /\ selected # None
  BY <1>1, NotEditing
<1>3. PICK e \in Entries : e = selected
  BY <1>2, PageFacts DEF IInv
<1>4. Render(View(doc'), selected, editing, draft, touched, adding)
  BY <1>1, <1>2, RefreshFacts
<1>5. PICK o \in EntryType : o = doc[e]
  BY <1>1, <1>3, DocumentAssumption DEF Live, IInv, VaultOK, Docs, Absent
<1>6. o.history \in Seq(Versions) /\ o.folder # Bin
  BY <1>1, <1>3, <1>5, DocumentAssumption DEF EntryType, Live
<1>7. PICK h \in Seq(Versions) : h = Without(o.history, Files)
  BY <1>6, WithoutFacts
<1>8. PICK x : x = [o EXCEPT !.history = h]
  OBVIOUS
<1>9. x \in EntryType /\ x.folder = o.folder /\ Current(x) = Current(o)
  BY <1>8 DEF EntryType, Current
<1>10. doc' = [doc EXCEPT ![e] = x]
  BY <1>3, <1>5, <1>7, <1>8 DEF ClearAttachmentHistory
<1>11. Allowed(e, x)
  BY <1>5, <1>6, <1>9, AbsentFacts DEF Allowed
<1>12. /\ selected' = selected /\ editing' = FALSE
       /\ VaultOK' /\ Editor' /\ InView' /\ DocStep
  BY <1>1, <1>2, <1>4, <1>6, <1>9, <1>10, <1>11, EntryChanged
<1>13. Dialog'
  BY <1>1, <1>12, DocumentAssumption DEF IInv, Dialog, dialogs, Changed, NoDialog
<1> QED
  BY <1>12, <1>13 DEF IInv

LEMMA RestoreVersionKeeps ==
  ASSUME IInv, RestoreVersion
  PROVE  IInv' /\ DocStep
<1>1. /\ dialog = "history" /\ Live(doc, selected) /\ Changed
      /\ picked \in DOMAIN doc[selected].history
      /\ UNCHANGED <<limit, recycling, hasBin>>
      /\ UNCHANGED <<hidden, recovered>> /\ dialog' = "none" /\ picked' = 0
      /\ doc' = RestoreEntryVersion(doc, selected, picked)
      /\ Refresh(doc', editing)
  BY DEF RestoreVersion
<1>2. ~editing /\ selected # None
  BY <1>1, NotEditing
<1>3. PICK e \in Entries : e = selected
  BY <1>2, PageFacts DEF IInv
<1>4. Render(View(doc'), selected, editing, draft, touched, adding)
  BY <1>1, <1>2, RefreshFacts
<1>5. PICK o \in EntryType : o = doc[e]
  BY <1>1, <1>3, DocumentAssumption DEF Live, IInv, VaultOK, Docs, Absent
<1>6. PICK v \in Versions : v = o.history[picked]
  <2>1. o.history \in Seq(Versions) /\ picked \in DOMAIN o.history
    BY <1>1, <1>3, <1>5 DEF EntryType
  <2> QED
    BY <2>1, LenProperties, ElementOfSeq
<1>7. PICK p \in EntryType : p = PushEntryHistory(o)
  BY PushFacts DEF IInv, VaultOK
<1>8. /\ HistoryEnabled => FieldsOf(p.history) = Pushed(o)
      /\ p.folder = o.folder
  BY <1>7, PushFacts DEF IInv, VaultOK
<1>9. PICK x : x = [folder |-> p.folder, fields |-> v.fields,
                    files |-> v.files, history |-> p.history]
  OBVIOUS
<1>10. doc' = [doc EXCEPT ![e] = x]
  <2>1. PICK a, g : a = v.fields /\ g = v.files
    OBVIOUS
  <2>2. [p EXCEPT !.fields = a, !.files = g] =
          [folder |-> p.folder, fields |-> a, files |-> g, history |-> p.history]
    <3>1. PICK q : q = [p EXCEPT !.fields = a]
      OBVIOUS
    <3>2. q = [folder |-> p.folder, fields |-> a, files |-> p.files, history |-> p.history]
      BY <3>1 DEF EntryType
    <3>3. [q EXCEPT !.files = g] =
            [folder |-> p.folder, fields |-> a, files |-> g, history |-> p.history]
      BY <3>2
    <3> QED
      BY <3>1, <3>3
  <2>3. [p EXCEPT !.fields = v.fields, !.files = v.files] = x
    BY <1>9, <2>1, <2>2
  <2> QED
    BY <1>1, <1>3, <1>5, <1>6, <1>7, <2>3 DEF RestoreEntryVersion
<1>11. /\ p.folder \in {Root, Folder, Bin} /\ v.fields \in Contents
       /\ v.files \in SUBSET Files /\ p.history \in Seq(Versions)
  BY DEF EntryType, Versions
<1>12. x \in EntryType /\ Allowed(e, x)
  BY <1>1, <1>3, <1>5, <1>8, <1>9, <1>11, PushAllowed DEF IInv
<1>13. x.folder # Bin
  BY <1>1, <1>3, <1>5, <1>8, <1>9, DocumentAssumption DEF Live
<1>14. /\ selected' = selected /\ editing' = FALSE
       /\ VaultOK' /\ Editor' /\ InView' /\ DocStep
  BY <1>1, <1>2, <1>4, <1>10, <1>12, <1>13, EntryChanged
<1>15. Dialog'
  BY <1>1, <1>14, DocumentAssumption DEF IInv, Dialog, Changed, Dialogs
<1> QED
  BY <1>14, <1>15 DEF IInv

LEMMA RecoverKeeps ==
  ASSUME IInv, NEW source \in Entries, NEW e \in Entries, Recover(source, e)
  PROVE  IInv' /\ DocStep
<1>1. /\ source \in DOMAIN Conflict /\ doc[e] = Absent /\ Changed
      /\ dialog = "comparing" /\ dialog' = dialog
      /\ limit' = limit /\ recycling' = recycling /\ hasBin' = hasBin
      /\ UNCHANGED <<hidden, picked>> /\ recovered' = recovered \cup {source}
      /\ Render(View(doc'), e, editing, draft, touched, adding)
  BY DEF Recover
<1>2. PICK o \in EntryType : o = Conflict[source]
  BY <1>1, DocumentAssumption
<1>3. PICK x : x = [o EXCEPT !.folder = Root]
  OBVIOUS
<1>4. doc' = [doc EXCEPT ![e] = x]
  BY <1>2, <1>3 DEF Recover
<1>5. x \in EntryType /\ x.folder # Bin
  BY <1>3, DocumentAssumption DEF EntryType
<1>6. Allowed(e, x)
  BY <1>1, DocumentAssumption DEF Allowed, Absent
<1>7. /\ selected' = e /\ editing' = editing
      /\ VaultOK' /\ Editor' /\ InView'
  <2>1. /\ VaultOK /\ Editor /\ InView
        /\ editing \in BOOLEAN
    BY PageFacts DEF IInv
  <2>2. recycling' \in {"on", "off", "unset"} /\ hasBin' \in BOOLEAN /\ (hasBin => hasBin')
    BY <1>1, <2>1 DEF VaultOK
  <2>3. x \in EntryType \cup {Absent} /\ (x.folder = Bin => hasBin')
    BY <1>5
  <2>4. editing => x.folder # Bin /\ (doc[e] = Absent \/ (editing /\ Recycled))
    BY <1>1, <1>5
  <2> QED
    BY <1>1, <1>4, <2>1, <2>2, <2>3, <2>4, ChangeRender
<1>8. Dialog'
  BY <1>1, <1>7, DocumentAssumption DEF IInv, Dialog, Changed
<1> QED
  BY <1>4, <1>5, <1>6, <1>7, <1>8 DEF IInv, DocStep

\* The vault of a rollback is another one, and so is its listing; what is kept
\* in an open editor is of the old one.
LEMMA RollbackKeeps ==
  ASSUME IInv, Rollback
  PROVE  IInv'
<1>1. /\ dialog = "versions" /\ dialog' = "none" /\ Changed
      /\ editing => EditorMayBeOpen
      /\ doc' = FirstVault /\ listed' = View(FirstVault)
      /\ draft' = IF Shown(listed', selected) \notin {None, SelectedEntry}
                  THEN listed'[selected]
                  ELSE IF SelectedEntry # None THEN Loaded ELSE draft
      /\ adding' = Abort(adding)
      /\ hasBin' = FirstHasBin
      /\ UNCHANGED <<limit, recycling, selected, editing, touched, hidden, picked,
                     recovered>>
  BY DEF Rollback, FirstHasBin
<1>2. PICK d \in Docs : d = FirstVault
  BY DocumentAssumption DEF Docs
<1>3. PICK list \in Listings : list = View(d)
  BY ViewFacts
<1>4. \A e \in Entries :
        /\ list[e] = Absent <=> d[e] = Absent
        /\ list[e].folder = Bin => d[e].folder = Bin
  <2>1. Absent.folder # Bin
    BY DocumentAssumption DEF Absent
  <2>2. \A e \in Entries :
          /\ View(d)[e] = Absent <=> d[e] = Absent
          /\ d[e] # Absent => View(d)[e].folder = d[e].folder
    BY ViewFacts
  <2> QED
    BY <1>3, <2>1, <2>2
<1>5. \A e \in Entries : list[e].folder = Bin => FirstHasBin
  BY <1>2, <1>4 DEF FirstHasBin
<1>6. VaultOK'
  <2>1. doc' \in Docs /\ listed' = View(doc')
    BY <1>1, <1>2
  <2>2. FirstHasBin \in BOOLEAN /\ \A e \in Entries : doc'[e].folder = Bin => hasBin'
    BY <1>1, <1>2 DEF FirstHasBin
  <2> QED
    BY <1>1, <2>1, <2>2 DEF IInv, VaultOK, View
<1>7. /\ selected \in Entries \cup {None}
      /\ editing \in BOOLEAN /\ touched \in BOOLEAN /\ draft \in Lines
      /\ SelectedEntry # None => SelectedEntry = selected /\ Loaded \in Lines
      /\ SelectedEntry # None /\ editing /\ Loaded.folder = Bin => FirstHasBin
  BY PageFacts DEF IInv, Loaded, Recycled
<1>8. /\ listed' = list /\ selected' = selected /\ editing' = editing
      /\ touched' = touched
      /\ draft' = IF Shown(list, selected) \notin {None, SelectedEntry}
                  THEN list[selected]
                  ELSE IF SelectedEntry # None THEN Loaded ELSE draft
  BY <1>1, <1>2, <1>3
<1>9. PICK fields : fields = draft'
  OBVIOUS
<1>10. /\ fields \in Lines
       /\ editing /\ Shown(list, selected) # None /\ fields.folder = Bin => FirstHasBin
  <2>1. Shown(list, selected) # None => selected \in Entries /\ list[selected] \in Lines
    BY <1>7 DEF Shown, Listings
  <2>2. CASE Shown(list, selected) \notin {None, SelectedEntry}
    BY <1>5, <1>8, <1>9, <2>1, <2>2
  <2>3. CASE Shown(list, selected) \in {None, SelectedEntry} /\ SelectedEntry # None
    BY <1>7, <1>8, <1>9, <2>3
  <2>4. CASE Shown(list, selected) \in {None, SelectedEntry} /\ SelectedEntry = None
    BY <1>7, <1>8, <1>9, <2>4
  <2> QED
    BY <2>2, <2>3, <2>4
<1>11. PageOK(list, selected, editing, fields, touched, hasBin')
  <2>1. Shown(list, selected) # None => selected \in Entries
    BY <1>7 DEF Shown
  <2> QED
    BY <1>1, <1>5, <1>7, <1>10, <2>1 DEF PageOK
<1>12. Editor'
  BY <1>8, <1>9, <1>11 DEF Editor
<1>13. Dialog'
  BY <1>1, DocumentAssumption DEF IInv, Dialog, Dialogs, Changed
<1>14. InView'
  <2>1. \A a \in adding : [a EXCEPT !.aborted = TRUE] \in Additions
                          /\ [a EXCEPT !.aborted = TRUE].aborted
    BY DEF IInv, InView, Additions
  <2> QED
    BY <1>1, <2>1 DEF InView, Abort
<1> QED
  BY <1>6, <1>12, <1>13, <1>14 DEF IInv
-----------------------------------------------------------------------------
(* The theorems *)

LEMMA IInvInit == Init => IInv
<1> SUFFICES ASSUME Init PROVE IInv
  OBVIOUS
<1>1. /\ doc = FirstVault /\ limit \in Limits
      /\ recycling \in {"on", "off", "unset"}
      /\ hasBin = FirstHasBin
      /\ listed = View(doc)
      /\ hidden = FALSE /\ dialog = "none" /\ picked = 0
      /\ adding = {} /\ recovered = {} /\ changes = 0
  BY DEF Init, FirstHasBin
<1>2. VaultOK
  BY <1>1, DocumentAssumption DEF VaultOK, Docs, FirstHasBin
<1>3. PICK e \in Entries, new \in Drafts, restored \in BOOLEAN :
        /\ Live(doc, e)
        /\ restored \/ new = View(doc)[e]
        /\ selected = e /\ editing = restored /\ touched = restored
        /\ draft = new
  BY DEF Init
<1>4. PICK d \in Docs : d = doc
  BY <1>2 DEF VaultOK
<1>5. d[e] # Absent /\ View(d)[e].folder # Bin
  <2>1. d[e] # Absent /\ d[e].folder # Bin
    BY <1>3, <1>4, DocumentAssumption DEF Live, Absent
  <2>2. d[e] # Absent => View(d)[e].folder = d[e].folder
    BY ViewFacts
  <2> QED
    BY <2>1, <2>2
<1>6. new \in Lines /\ new.folder # Bin
  BY DocumentAssumption DEF Drafts, Lines
<1>7. PageOK(View(d), e, restored, new, restored, hasBin)
  BY <1>5, <1>6 DEF PageOK
<1>8. Editor
  <2>1. listed = View(d) /\ selected = e /\ editing = restored /\ draft = new /\ touched = restored
    BY <1>1, <1>3, <1>4
  <2>2. PageOK(listed, selected, editing, draft, touched, hasBin)
    BY <1>7, <2>1
  <2> QED
    BY <2>2 DEF Editor
<1>9. Dialog
  <2>1. dialog # "history" /\ dialog \in Dialogs
    BY <1>1 DEF Dialogs
  <2>2. changes \in 0..MaxChanges /\ picked \in Nat
    BY <1>1, DocumentAssumption
  <2>3. hidden \in BOOLEAN /\ recovered \subseteq Entries /\ ~(recovered # {})
    BY <1>1
  <2> QED
    BY <2>1, <2>2, <2>3 DEF Dialog
<1>10. InView
  BY <1>1 DEF InView
<1> QED
  BY <1>2, <1>8, <1>9, <1>10 DEF IInv

\* Every step but a rollback keeps the invariant and changes one entry at most.
LEMMA HandlersKeep ==
  ASSUME IInv, [Next]_vars
  PROVE  IInv' /\ (Rollback \/ DocStep)
<1>1. CASE UNCHANGED vars
  <2>1. UNCHANGED <<vault, page, hidden, dialog, picked, recovered, adding, changes>>
    BY <1>1 DEF vars, dialogs
  <2>2. VaultOK' /\ Editor' /\ InView' /\ DocStep
    BY <2>1, PageStays DEF IInv, InView
  <2>3. Dialog'
    BY <2>1 DEF IInv, Dialog, page
  <2> QED
    BY <2>2, <2>3 DEF IInv
<1>2. CASE Next
  BY <1>2, SelectKeeps, EditKeeps, TypeKeeps, CancelKeeps, NavigateKeeps,
     StartAddingKeeps, FileReadKeeps, FileHashedKeeps, DialogsKeep,
     HandleSaveEntryKeeps, HandleCreateNewEntryKeeps, HandleDeleteEntryKeeps,
     HandleRestoreEntryKeeps, RemoveAttachmentKeeps, ClearAttachmentHistoryKeeps,
     RestoreVersionKeeps, RecoverKeeps, RollbackKeeps DEF Next
<1> QED
  BY <1>1, <1>2

\* The listing is the document's, the editor its entry's, and additions are of
\* what is shown.
THEOREM DocumentInvariant == Spec => []IInv
<1>1. IInv /\ [Next]_vars => IInv'
  BY HandlersKeep
<1> QED
  BY <1>1, IInvInit, PTL DEF Spec

\* Every state is well formed; in particular nothing is in a recycle bin that
\* is not there.
THEOREM TypeCorrect == Spec => []TypeOK
<1>1. IInv => TypeOK
  <2> SUFFICES ASSUME IInv PROVE TypeOK
    OBVIOUS
  <2>1. listed \in Listings
    <3>1. PICK d \in Docs : d = doc
      BY DEF IInv, VaultOK
    <3> QED
      BY <3>1, ViewFacts DEF IInv, VaultOK
  <2>2. draft.fields \in Contents
    BY PageFacts DEF IInv, Lines
  <2> QED
    BY <2>1, <2>2 DEF TypeOK, IInv, VaultOK, Editor, PageOK, Dialog, InView, Docs,
                      Listings, Lines, Additions
<1> QED
  BY <1>1, DocumentInvariant, PTL

\* An editor in which nothing was typed holds what its entry holds, whatever
\* the rest of the page did, if no rollback is confirmed over an open editor.
THEOREM EditorSafe ==
  ASSUME ~EditorMayBeOpen PROVE Spec => []EditorShowsEntry
<1>1. IInv => EditorShowsEntry
  BY DEF IInv, VaultOK, Editor, PageOK, EditorShowsEntry
<1> QED
  BY <1>1, DocumentInvariant, PTL

\* Deleted entries stay whole in the bin until they are restored.
THEOREM RecycledSafe == Spec => RecycledFrozen
<1> DEFINE Frozen ==
             dialog # "versions" => \A e \in Entries :
               /\ RecyclingEnabled /\ doc[e] # Absent => doc'[e] # Absent
               /\ doc[e].folder = Bin =>
                    doc'[e] \in {doc[e], [doc[e] EXCEPT !.folder = Root]}
<1>1. IInv /\ [Next]_vars => [Frozen]_vars
  <2> SUFFICES ASSUME IInv, [Next]_vars, dialog # "versions", NEW e \in Entries
               PROVE  /\ RecyclingEnabled /\ doc[e] # Absent => doc'[e] # Absent
                      /\ doc[e].folder = Bin =>
                           doc'[e] \in {doc[e], [doc[e] EXCEPT !.folder = Root]}
    OBVIOUS
  <2>1. DocStep
    BY HandlersKeep DEF Rollback
  <2>2. CASE doc' = doc
    BY <2>2
  <2>3. CASE \E y \in Entries : \E x \in EntryType \cup {Absent} :
               doc' = [doc EXCEPT ![y] = x] /\ Allowed(y, x)
    <3>1. PICK y \in Entries, x \in EntryType \cup {Absent} :
                 doc' = [doc EXCEPT ![y] = x] /\ Allowed(y, x)
      BY <2>3
    <3>2. doc \in Docs
      BY DEF IInv, VaultOK
    <3>3. doc'[e] = IF y = e THEN x ELSE doc[e]
      BY <3>1, <3>2 DEF Docs
    <3> QED
      BY <3>1, <3>3 DEF Allowed
  <2> QED
    BY <2>1, <2>2, <2>3 DEF DocStep
<1> QED
  BY <1>1, DocumentInvariant, PTL DEF Spec, RecycledFrozen

\* What replaces an entry's fields or files keeps them as the newest version,
\* and only the oldest ones are pruned, for every limit.
THEOREM ReplacedSafe == Spec => ReplacedKept
<1> DEFINE Kept ==
             dialog # "versions" /\ HistoryEnabled => \A e \in Entries :
               LET old == doc[e]
                   new == doc'[e]
                   all == Append(FieldsOf(old.history), old.fields)
               IN  Absent \notin {old, new} /\ Current(new) # Current(old)
                   => FieldsOf(new.history) =
                        IF limit > 0 /\ Len(all) > limit THEN LastN(all, limit)
                        ELSE all
<1>1. IInv /\ [Next]_vars => [Kept]_vars
  <2> SUFFICES ASSUME IInv, [Next]_vars, dialog # "versions", HistoryEnabled,
                      NEW e \in Entries, doc[e] # Absent, doc'[e] # Absent,
                      Current(doc'[e]) # Current(doc[e])
               PROVE  FieldsOf(doc'[e].history) = Pushed(doc[e])
    BY DEF Pushed
  <2>1. DocStep /\ doc' # doc
    BY HandlersKeep DEF Rollback
  <2>2. PICK y \in Entries, x \in EntryType \cup {Absent} :
               doc' = [doc EXCEPT ![y] = x] /\ Allowed(y, x)
    BY <2>1 DEF DocStep
  <2>3. doc \in Docs
    BY DEF IInv, VaultOK
  <2>4. doc'[e] = IF y = e THEN x ELSE doc[e]
    BY <2>2, <2>3 DEF Docs
  <2> QED
    BY <2>2, <2>4 DEF Allowed
<1> QED
  BY <1>1, DocumentInvariant, PTL DEF Spec, ReplacedKept

\* An addition that passed the check leaves the vault within the budget.
LEMMA AdditionFits ==
  ASSUME IInv, NEW a \in adding, FileHashed(a), MayAdd(a)
  PROVE  AttachmentUsage(doc') <= Budget
<1>1. a \in Additions /\ Live(doc, a.entry) /\ FitsBudget(a.entry, a.file)
  BY DEF MayAdd, IInv, InView
<1>2. PICK e \in Entries, f \in Files : e = a.entry /\ f = a.file
  BY <1>1 DEF Additions
<1>3. PICK o \in EntryType : o = doc[e]
  BY <1>1, <1>2, DocumentAssumption DEF Live, IInv, VaultOK, Docs, Absent
<1>4. doc \in Docs /\ limit \in Limits
  BY DEF IInv, VaultOK
<1>5. PICK d1 : d1 = [doc EXCEPT ![e].files = @ \cup {f}]
  OBVIOUS
<1>6. PICK c : c = IF HistoryEnabled THEN Cardinality(o.files \cap Inline) ELSE 0
  OBVIOUS
<1>7. AttachmentUsage(d1) + c <= Budget
  BY <1>1, <1>2, <1>3, <1>5, <1>6 DEF FitsBudget
<1>8. AttachmentUsage(AddAttachment(doc, e, f)) <= AttachmentUsage(d1) + c
  BY <1>3, <1>4, <1>5, <1>6, AdditionCost
<1>9. doc' = AddAttachment(doc, e, f)
  BY <1>2 DEF FileHashed
<1>10. /\ AttachmentUsage(d1) \in Nat /\ c \in Nat
       /\ AttachmentUsage(AddAttachment(doc, e, f)) \in Nat
  <2>1. d1 \in Docs
    <3>1. PICK g \in SUBSET Files : g = o.files \cup {f}
      BY DEF EntryType
    <3>2. [o EXCEPT !.files = g] \in EntryType
      BY DEF EntryType
    <3>3. d1 = [doc EXCEPT ![e] = [o EXCEPT !.files = g]]
      BY <1>3, <1>5, <3>1
    <3> QED
      BY <1>4, <3>2, <3>3 DEF Docs
  <2>2. AddAttachment(doc, e, f) \in Docs
    <3>1. PICK p \in EntryType : p = PushEntryHistory(o)
      BY <1>4, PushFacts
    <3>2. PICK g \in SUBSET Files : g = p.files \cup {f}
      BY DEF EntryType
    <3>3. [p EXCEPT !.files = g] \in EntryType
      BY DEF EntryType
    <3>4. AddAttachment(doc, e, f) = [doc EXCEPT ![e] = [p EXCEPT !.files = g]]
      BY <1>3, <3>1, <3>2 DEF AddAttachment
    <3> QED
      BY <1>4, <3>3, <3>4 DEF Docs
  <2>3. \A d \in Docs : AttachmentUsage(d) \in Nat
    BY UsageFinite, FS_CardinalityType DEF AttachmentUsage
  <2>4. c \in Nat
    <3>1. IsFiniteSet(o.files \cap Inline)
      BY DocumentAssumption, FS_Subset
    <3> QED
      BY <1>6, <3>1, FS_CardinalityType
  <2> QED
    BY <2>1, <2>2, <2>3, <2>4
<1>11. PICK u1, u2 \in Nat : u1 = AttachmentUsage(d1) /\ u2 = AttachmentUsage(AddAttachment(doc, e, f))
  BY <1>10
<1>12. u2 <= u1 + c /\ u1 + c <= Budget
  BY <1>7, <1>8, <1>11
<1>13. u2 <= Budget
  BY <1>10, <1>12, DocumentAssumption
<1> QED
  BY <1>9, <1>11, <1>13

\* A file is added only to the entry whose attachments are shown for change,
\* and the vault stays within its budget for attachments.
THEOREM AdditionsSafe == Spec => AddsLandInView
<1> DEFINE Lands ==
             \A a \in adding :
               FileHashed(a) /\ doc' # doc
                 => /\ Attachments = [entry |-> a.entry, readOnly |-> FALSE]
                    /\ AttachmentUsage(doc') <= Budget
<1>1. IInv /\ [Next]_vars => [Lands]_vars
  <2> SUFFICES ASSUME IInv, NEW a \in adding, FileHashed(a), doc' # doc
               PROVE  /\ Attachments = [entry |-> a.entry, readOnly |-> FALSE]
                      /\ AttachmentUsage(doc') <= Budget
    OBVIOUS
  <2>1. MayAdd(a)
    BY DEF FileHashed
  <2> QED
    BY <2>1, FileHashedKeeps, AdditionFits
<1> QED
  BY <1>1, DocumentInvariant, PTL DEF Spec, AddsLandInView
=============================================================================
