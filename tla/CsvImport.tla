------------------------------ MODULE CsvImport ------------------------------
(***************************************************************************)
(* Importing another password manager's CSV export: reading the text,      *)
(* recognising the provider, mapping rows to entries, previewing them and  *)
(* adding them to the vault (frontend/src/lib/csvImport.ts,                *)
(* CsvImportModal.tsx).                                                    *)
(*                                                                         *)
(* Text is a sequence of tokens: a word, or one of the characters the code *)
(* looks at.  The text that is read is one some program wrote from a table *)
(* by RFC 4180, so that what the parser finds can be compared with what    *)
(* was written.  Reading takes a step per token; every other handler runs  *)
(* to its end in one.                                                      *)
(***************************************************************************)
EXTENDS Integers, FiniteSets, SequencesExt

CONSTANTS
  Tokens,       \* words and characters of a text
  Tables,       \* tables a program exports; the first row names the columns
  Preferred,    \* providers the user may choose, "auto" among them
  NewNames,     \* names the user may type for a new folder
  FirstGroups,  \* the vault's folders before the import, the top one first
  FirstEntries, \* its entries
  MaxDepth,     \* MAX_FOLDER_DEPTH
  MaxImports    \* bound: imports of one file

Quote == "quote"
LF == "LF"
CR == "CR"
BOM == "BOM"
Delimiters == {"comma", "semicolon", "tab"}

Text == Seq(Tokens)

\* The title an entry without one gets has a number in it.
Contents == [title : Seq(Tokens \cup Nat), username : Text, password : Text,
             url : Text, notes : Text, totpSeed : Text]

ASSUME ImportAssumption ==
  /\ {Quote, LF, CR, BOM, "CustomFields", "site", "Account",
       "ImportedPasswords"} \cup Delimiters \subseteq Tokens
  /\ Tables \subseteq Seq(Seq(Text))
  /\ "auto" \in Preferred /\ NewNames \subseteq Text
  /\ FirstGroups \in Seq([name : Text, parent : Nat, live : BOOLEAN])
  /\ FirstGroups # <<>> /\ FirstGroups[1].live
  /\ \A g \in DOMAIN FirstGroups \ {1} : FirstGroups[g].parent \in 1..g - 1
  /\ FirstEntries \in Seq([content : Contents, group : DOMAIN FirstGroups])
  /\ MaxDepth \in Nat \ {0} /\ MaxImports \in Nat

VARIABLES
  phase,        \* "scan", "rows", "preview" or "closed"
  table,        \* the table that was written
  text,         \* what is being read
  pos, rows, row, field, inQuotes,  \* parseCsvRecords' variables
  records,      \* the rows it found
  previewEntries,
  groups,       \* the vault's folders, in getGroups' order of creation
  entries,      \* its entries
  failed,       \* did the last import report an error?
  imports       \* imports so far, up to MaxImports

scanner == <<table, text, pos, rows, row, field, inQuotes>>
vault == <<groups, entries>>
vars == <<phase, scanner, records, previewEntries, vault, failed, imports>>
-----------------------------------------------------------------------------
(* Tokens *)

\* What is left of s when only the places in keep are.  Loops are recursive
\* functions, which the proofs can unfold; they cannot unfold a SelectSeq.
Filtered(s, keep) ==
  LET upTo[n \in 0..Len(s)] ==
        IF n = 0 THEN <<>>
        ELSE IF n \in keep THEN Append(upTo[n - 1], s[n]) ELSE upTo[n - 1]
  IN  upTo[Len(s)]

Space == {"space", LF, CR, "tab"}
Forbidden == {"control", LF, CR, "tab"}   \* in a folder's name
PathSeparators == {"slash", "backslash"}

Lower(token) == CASE token = "Work" -> "work"
                  [] token = "Title" -> "title"
                  [] OTHER -> token

LowerCase(s) == [i \in DOMAIN s |-> Lower(s[i])]

\* A column's name in lower case without other signs than letters and digits.
Letters(token) == CASE token = "login_password" -> "loginpassword"
                    [] token = "login_uri" -> "loginuri"
                    [] OTHER -> Lower(token)

Trim(s) ==
  LET kept == {i \in DOMAIN s : s[i] \notin Space}
  IN  IF kept = {} THEN <<>> ELSE SubSeq(s, Min(kept), Max(kept))

NormalizeHeader(s) ==
  LET IsPlain(token) == token \notin Space \cup {Quote, BOM}
      kept == SelectSeq(s, IsPlain)
  IN  [i \in DOMAIN kept |-> Letters(kept[i])]

IsBlank(r) == \A i \in DOMAIN r : Trim(r[i]) = <<>>
-----------------------------------------------------------------------------
(* What the exporting program writes *)

Join(s, sep) ==
  FlattenSeq([i \in DOMAIN s |-> IF i = 1 THEN s[i] ELSE sep \o s[i]])

Escaped(s) ==
  FlattenSeq([i \in DOMAIN s |-> IF s[i] = Quote THEN <<Quote, Quote>>
                                 ELSE <<s[i]>>])

WriteField(s, delimiter, always) ==
  IF always \/ \E i \in DOMAIN s : s[i] \in {Quote, LF, CR, delimiter}
  THEN <<Quote>> \o Escaped(s) \o <<Quote>> ELSE s

WriteTable(t, delimiter, always, eol, lastEol) ==
  LET line(r) == Join([i \in DOMAIN r |-> WriteField(r[i], delimiter, always)],
                      <<delimiter>>)
  IN  Join([i \in DOMAIN t |-> line(t[i])], eol) \o
        (IF lastEol THEN eol ELSE <<>>)

Writes(w, t) ==
  \E bom \in {<<>>, <<BOM>>}, delimiter \in Delimiters,
    always \in BOOLEAN, lastEol \in BOOLEAN,
    eol \in {<<LF>>, <<CR>>, <<CR, LF>>} :
    w = bom \o WriteTable(t, delimiter, always, eol, lastEol)
-----------------------------------------------------------------------------
(* parseCsvRecords *)

Start == IF text # <<>> /\ text[1] = BOM THEN 2 ELSE 1

\* Mutant: commas first, whatever the others.
Delimiter_Comma == "comma"

Delimiter ==
  LET ends == {i \in DOMAIN text : text[i] \in {CR, LF}}
      first == SubSeq(text, Start,
                      IF ends = {} THEN Len(text) ELSE Min(ends) - 1)
      count(d) == Cardinality({i \in DOMAIN first : first[i] = d})
      most(d) == \A other \in Delimiters \ {d} : count(d) > count(other)
  IN  IF most("semicolon") THEN "semicolon"
      ELSE IF most("tab") THEN "tab" ELSE "comma"

AtEnd == pos > Len(text)
Char == text[pos]
NextIs(token) == pos < Len(text) /\ text[pos + 1] = token

Scanning == phase = "scan" /\ ~AtEnd

Kept(r) == IF IsBlank(r) THEN rows ELSE Append(rows, r)

\* Read n tokens and do nothing else with them than f and quoted say.
Read(n, f, quoted) ==
  /\ pos' = pos + n /\ field' = f /\ inQuotes' = quoted

ScanQuoted ==
  /\ Scanning /\ inQuotes
  /\ IF Char # Quote THEN Read(1, Append(field, Char), TRUE)
     ELSE IF NextIs(Quote) THEN Read(2, Append(field, Quote), TRUE)
     ELSE Read(1, field, FALSE)
  /\ UNCHANGED <<phase, table, text, rows, row, records, previewEntries, vault,
                 failed, imports>>

ScanField ==
  /\ Scanning /\ ~inQuotes /\ Char \notin {CR, LF}
  /\ IF Char = Quote THEN Read(1, field, TRUE) /\ UNCHANGED row
     ELSE IF Char = Delimiter
     THEN Read(1, <<>>, FALSE) /\ row' = Append(row, field)
     ELSE Read(1, Append(field, Char), FALSE) /\ UNCHANGED row
  /\ UNCHANGED <<phase, table, text, rows, records, previewEntries, vault,
                 failed, imports>>

LineEndWidth == IF Char = CR /\ NextIs(LF) THEN 2 ELSE 1

ScanLineEnd ==
  /\ Scanning /\ ~inQuotes /\ Char \in {CR, LF}
  /\ Read(LineEndWidth, <<>>, FALSE)
  /\ rows' = Kept(Append(row, field))
  /\ row' = <<>>
  /\ UNCHANGED <<phase, table, text, records, previewEntries, vault, failed,
                 imports>>

ScanEnd ==
  /\ phase = "scan" /\ AtEnd
  /\ records' = IF field # <<>> \/ row # <<>> THEN Kept(Append(row, field))
                ELSE rows
  /\ phase' = "rows"
  /\ text' = <<>> /\ pos' = 1 /\ rows' = <<>> /\ row' = <<>> /\ field' = <<>>
  /\ inQuotes' = FALSE
  /\ UNCHANGED <<table, previewEntries, vault, failed, imports>>
-----------------------------------------------------------------------------
(* detectCsvProvider, mapRowToEntry, parseAndPreviewCsv *)

Words(r) == [i \in DOMAIN r |-> NormalizeHeader(r[i])]

Detect(header) ==
  LET names == {Words(header)[i] : i \in DOMAIN header}
      Has(s) == \E word \in s : <<word>> \in names
      HasAll(s) == \A word \in s : <<word>> \in names
  IN  IF Has({"loginuri", "loginusername", "loginpassword", "logintotp"})
      THEN "bitwarden"
      ELSE IF \/ Has({"grouping"})
              \/ HasAll({"extra", "url"}) /\ Has({"fav", "username"})
      THEN "lastpass"
      ELSE IF \/ Has({"otpsecret", "secondaryotpsecret"})
              \/ HasAll({"category"}) /\ Has({"username2", "username3"})
      THEN "dashlane"
      ELSE IF \/ Has({"otpauth", "onetimepassword", "authcode"})
              \/ /\ HasAll({"title"})
                 /\ Has({"notes", "folder", "section", "type"})
                 /\ Has({"otp", "password", "username"})
      THEN "onepassword"
      ELSE IF HasAll({"name", "url", "username", "password"}) THEN "chrome"
      ELSE "generic"

\* The columns each part of an entry is looked for in, in this order.
Columns(provider) ==
  CASE provider = "chrome" ->
         [title |-> <<"name", "title", "url">>, url |-> <<"url">>,
          username |-> <<"username", "user", "login">>,
          password |-> <<"password", "pass">>,
          notes |-> <<"note", "notes">>, totpSeed |-> <<>>, folder |-> <<>>]
    [] provider = "onepassword" ->
         [title |-> <<"title", "name", "url", "website">>,
          url |-> <<"url", "website", "loginurl">>,
          username |-> <<"username", "user", "login", "email">>,
          password |-> <<"password", "pass">>,
          notes |-> <<"notes", "note", "description">>,
          totpSeed |-> <<"otpauth", "onetimepassword", "otp", "authcode">>,
          folder |-> <<"folder", "section", "vault", "category">>]
    [] provider = "bitwarden" ->
         [title |-> <<"name", "title">>,
          url |-> <<"loginuri", "uri", "url">>,
          username |-> <<"loginusername", "username">>,
          password |-> <<"loginpassword", "password">>,
          notes |-> <<"notes", "note">>,
          totpSeed |-> <<"logintotp", "totp", "otp">>,
          folder |-> <<"folder", "group">>]
    [] provider = "lastpass" ->
         [title |-> <<"name", "title">>, url |-> <<"url">>,
          username |-> <<"username", "login">>, password |-> <<"password">>,
          notes |-> <<"extra", "note", "notes">>,
          totpSeed |-> <<"totp", "otp">>,
          folder |-> <<"grouping", "group", "folder">>]
    [] provider = "dashlane" ->
         [title |-> <<"title", "name">>, url |-> <<"url", "website">>,
          username |-> <<"username", "login", "username2", "username3",
                         "email">>,
          password |-> <<"password">>, notes |-> <<"note", "notes">>,
          totpSeed |-> <<"otpsecret", "secondaryotpsecret", "otp">>,
          folder |-> <<"category", "folder", "group">>]
    [] OTHER ->
         [title |-> <<"title", "name", "sitename", "site", "account", "label",
                      "service", "system">>,
          url |-> <<"url", "website", "uri", "loginuri", "link", "webpage",
                    "host">>,
          username |-> <<"username", "login", "user", "email",
                         "loginusername", "accountname">>,
          password |-> <<"password", "pass", "loginpassword", "secret",
                         "pwd">>,
          notes |-> <<"notes", "note", "extra", "comments", "description",
                      "memo">>,
          totpSeed |-> <<"totp", "logintotp", "otp", "otpauth",
                         "onetimepassword", "otpsecret">>,
          folder |-> <<"folder", "group", "grouping", "category", "section",
                       "collection">>]

\* The first of the columns that has something in this row.
GetField(r, header, keys, trim) ==
  LET names == Words(header)
      at(key) == {i \in DOMAIN names : names[i] = <<key>>}
      value(key) ==
        LET i == Min(at(key)) IN
        IF at(key) = {} \/ i \notin DOMAIN r THEN <<>>
        ELSE IF trim THEN Trim(r[i]) ELSE r[i]
      found == {k \in DOMAIN keys : value(keys[k]) # <<>>}
  IN  IF found = {} THEN <<>> ELSE value(keys[Min(found)])

\* new URL(url).hostname without www; the tokens name it.
Host(url) == IF url = <<"siteURL">> THEN <<"site">> ELSE url

NoTitle == <<>>

MapRowToEntry(r, header, provider, index) ==
  LET columns == Columns(provider)
      part(name) == GetField(r, header, columns[name], name # "password")
      url == IF provider = "lastpass" /\ part("url") = <<"snURL">>
             THEN <<>> ELSE part("url")
      fields == GetField(r, header, <<"fields">>, TRUE)
      notes == IF provider = "bitwarden" /\ fields # <<>>
               THEN part("notes") \o <<"CustomFields">> \o fields
               ELSE part("notes")
      title ==
        CASE part("title") # <<>> -> part("title")
          [] url # <<>> -> Host(url)
          [] part("username") # <<>> -> part("username")
          [] part("password") # <<>> \/ notes # <<>> -> <<"Account", index>>
          [] OTHER -> NoTitle
  IN  [id |-> index, folder |-> part("folder"), selected |-> TRUE,
       content |-> [title |-> title, username |-> part("username"),
                    password |-> part("password"), url |-> url,
                    notes |-> notes, totpSeed |-> part("totpSeed")]]

ParseAndPreview(found, provider) ==
  IF found = <<>> THEN <<>>
  ELSE LET effective ==
             IF provider = "auto" THEN Detect(found[1]) ELSE provider
           mapped == [i \in 1..Len(found) - 1 |->
                        MapRowToEntry(found[i + 1], found[1], effective, i)]
           titled == {i \in DOMAIN mapped : mapped[i].content.title # NoTitle}
       IN  Filtered(mapped, titled)

\* The file is read, or another provider chosen, and everything reselected.
HandleProcessCsv(provider) ==
  /\ phase \in {"rows", "preview"}
  /\ previewEntries' = ParseAndPreview(records, provider)
  /\ phase' = "preview" /\ table' = <<>> /\ failed' = FALSE
  /\ UNCHANGED <<text, pos, rows, row, field, inQuotes, records, vault,
                 imports>>

ToggleSelectEntry(i) ==
  /\ phase = "preview"
  /\ i \in DOMAIN previewEntries
  /\ previewEntries' = [previewEntries EXCEPT ![i].selected = ~@]
  /\ UNCHANGED <<phase, scanner, records, vault, failed, imports>>

ToggleSelectAll(checked) ==
  /\ phase = "preview"
  /\ previewEntries' = [i \in DOMAIN previewEntries |->
                          [previewEntries[i] EXCEPT !.selected = checked]]
  /\ UNCHANGED <<phase, scanner, records, vault, failed, imports>>
-----------------------------------------------------------------------------
(* findDuplicateImports, applyImportToVault *)

LiveContents ==
  {entries[i].content : i \in {j \in DOMAIN entries :
                                 groups[entries[j].group].live}}

\* Mutant: a deselected row hides a later one with the same content.
Earlier_Any(i) == {previewEntries[j].content : j \in 1..i - 1}

Earlier(i) == {previewEntries[j].content :
                 j \in {k \in 1..i - 1 : previewEntries[k].selected}}

FindDuplicates ==
  {i \in DOMAIN previewEntries :
     previewEntries[i].content \in LiveContents \cup Earlier(i)}

Pending(skipDuplicates) ==
  LET chosen == {i \in DOMAIN previewEntries : previewEntries[i].selected}
      wanted == IF skipDuplicates THEN chosen \ FindDuplicates ELSE chosen
  IN  Filtered([i \in DOMAIN previewEntries |-> i], wanted)

SplitAt(before, token) ==
  IF token \in PathSeparators THEN Append(before, <<>>)
  ELSE [before EXCEPT ![Len(before)] = Append(@, token)]

SplitFolderPath(s) ==
  LET split[n \in 0..Len(s)] ==
        IF n = 0 THEN <<<<>>>> ELSE SplitAt(split[n - 1], s[n])
      trimmed == [i \in DOMAIN split[Len(s)] |-> Trim(split[Len(s)][i])]
  IN  Filtered(trimmed, {i \in DOMAIN trimmed : trimmed[i] # <<>>})

DefaultFolder == <<"ImportedPasswords">>

PathOf(entry) ==
  SplitFolderPath(IF entry.folder # <<>> THEN entry.folder ELSE DefaultFolder)

ValidName(name) ==
  LET trimmed == Trim(name) IN
  trimmed # <<>> /\ \A i \in DOMAIN trimmed : trimmed[i] \notin Forbidden

\* Mutant: every path's first folder is checked, as a flat name would be.
ValidPath_First(path) == path # <<>> => ValidName(path[1])

ValidPath(path) ==
  /\ Len(path) <= MaxDepth
  /\ \A i \in DOMAIN path : ValidName(path[i])

ValidBefore(pending, single, newName) ==
  IF single THEN Trim(newName) # <<>> => ValidName(newName)
  ELSE \A k \in DOMAIN pending : ValidPath(PathOf(previewEntries[pending[k]]))

RootGroup == 1

\* A folder's names from the top one down, in lower case; parents come first.
FoldedPaths(gs) ==
  LET path[g \in DOMAIN gs] ==
        IF g = RootGroup THEN <<>>
        ELSE Append(path[gs[g].parent], LowerCase(Trim(gs[g].name)))
  IN  path

\* groupMap: of folders with the same path the last one.
GroupMap(gs) ==
  LET paths == FoldedPaths(gs)
      live == {g \in DOMAIN gs : gs[g].live /\ g # RootGroup}
  IN  [p \in {paths[g] : g \in live} |-> Max({g \in live : paths[g] = p})]

CreateGroup(gs, name, parent) ==
  Append(gs, [name |-> Trim(name), parent |-> parent,
              live |-> gs[parent].live])

Entered(map, path, g) ==
  [p \in {path} \cup DOMAIN map |-> IF p = path THEN g ELSE map[p]]

\* One segment of getOrCreateGroup.  A name that createGroup refuses ends the
\* import where it is.
\* Mutant: a folder the import has created is not entered in the map.
Descend_Forgets(at, segment) ==
  LET path == Append(at.path, LowerCase(segment)) IN
  IF at.error THEN at
  ELSE IF path \in DOMAIN at.map
  THEN [at EXCEPT !.path = path, !.parent = at.map[path]]
  ELSE [at EXCEPT !.groups = CreateGroup(@, segment, at.parent),
                  !.path = path, !.parent = Len(at.groups) + 1,
                  !.error = ~ValidName(segment)]

Descend(at, segment) ==
  LET path == Append(at.path, LowerCase(segment)) IN
  IF at.error THEN at
  ELSE IF path \in DOMAIN at.map
  THEN [at EXCEPT !.path = path, !.parent = at.map[path]]
  ELSE IF ~ValidName(segment) THEN [at EXCEPT !.error = TRUE]
  ELSE LET new == Len(at.groups) + 1 IN
       [at EXCEPT !.groups = CreateGroup(@, segment, at.parent),
                  !.map = Entered(@, path, new),
                  !.path = path, !.parent = new]

GetOrCreateGroup(at, path) ==
  LET walk[n \in 0..Len(path)] ==
        IF n = 0 THEN [at EXCEPT !.path = <<>>, !.parent = RootGroup]
        ELSE Descend(walk[n - 1], path[n])
  IN  walk[Len(path)]

CreateEntry(es, content, group) ==
  Append(es, [content |-> content, group |-> group])

\* The body of the loop over the chosen rows.
ImportRow(at, entry, single) ==
  LET there == IF single THEN at ELSE GetOrCreateGroup(at, PathOf(entry)) IN
  IF there.error THEN there
  ELSE [there EXCEPT !.entries = CreateEntry(@, entry.content, there.parent)]

\* What applying leaves: folders, entries and whether it threw.
ApplyImport(pending, single, target, newName) ==
  LET named == single /\ Trim(newName) # <<>>
      start == [groups |-> IF named THEN CreateGroup(groups, newName, RootGroup)
                           ELSE groups,
                entries |-> entries, map |-> GroupMap(groups), path |-> <<>>,
                parent |-> IF named THEN Len(groups) + 1 ELSE target,
                error |-> FALSE]
      done[n \in 0..Len(pending)] ==
        IF n = 0 THEN start
        ELSE IF done[n - 1].error THEN done[n - 1]
        ELSE ImportRow(done[n - 1], previewEntries[pending[n]], single)
  IN  done[Len(pending)]

HandleExecuteImport(single, target, newName, skipDuplicates) ==
  LET pending == Pending(skipDuplicates)
      applied == ApplyImport(pending, single, target, newName)
  IN  /\ phase = "preview"
      /\ imports < MaxImports
      /\ pending # <<>>
      /\ target \in DOMAIN groups /\ groups[target].live
      /\ imports' = imports + 1
      /\ UNCHANGED <<scanner, records, previewEntries>>
      /\ IF ValidBefore(pending, single, newName)
         THEN /\ groups' = applied.groups
              /\ entries' = applied.entries
              /\ failed' = applied.error
         ELSE failed' = TRUE /\ UNCHANGED vault
      /\ phase' = IF failed' THEN "preview" ELSE "closed"

\* One folder, or a name for a new one, is looked at only in that mode.
Import(skipDuplicates) ==
  \/ HandleExecuteImport(FALSE, RootGroup, <<>>, skipDuplicates)
  \/ \E target \in DOMAIN groups, newName \in NewNames :
       HandleExecuteImport(TRUE, target, newName, skipDuplicates)

\* The user imports the same file again.
Reopen ==
  /\ phase = "closed"
  /\ imports < MaxImports
  /\ phase' = "rows" /\ previewEntries' = <<>>
  /\ UNCHANGED <<scanner, records, vault, failed, imports>>
-----------------------------------------------------------------------------
Init ==
  /\ phase = "scan"
  /\ table \in Tables
  /\ Writes(text, table)
  /\ pos = Start /\ rows = <<>> /\ row = <<>> /\ field = <<>>
  /\ inQuotes = FALSE
  /\ records = <<>> /\ previewEntries = <<>>
  /\ groups = FirstGroups /\ entries = FirstEntries
  /\ failed = FALSE /\ imports = 0

Next ==
  \/ ScanQuoted \/ ScanField \/ ScanLineEnd \/ ScanEnd
  \/ \E p \in Preferred : HandleProcessCsv(p)
  \/ \E i \in DOMAIN previewEntries : ToggleSelectEntry(i)
  \/ \E checked \in BOOLEAN : ToggleSelectAll(checked)
  \/ \E skipDuplicates \in BOOLEAN : Import(skipDuplicates)
  \/ Reopen

Spec == Init /\ [][Next]_vars
-----------------------------------------------------------------------------
(* What an import promises *)

\* The parser finds the rows that were written, whatever the delimiter, the
\* line ends and the quoting, without those that are blank ("Robust RFC 4180
\* CSV parser", parseCsvRecords).
ParsesWritten ==
  phase = "rows" /\ table # <<>>
    => records = Filtered(table, {i \in DOMAIN table : ~IsBlank(table[i])})

Chosen == {previewEntries[i].content :
             i \in {j \in DOMAIN previewEntries : previewEntries[j].selected}}

Added == {i \in DOMAIN entries' : i > Len(entries)}

\* After an import everything the user selected is in the live vault, and one
\* that skips duplicates has added nothing twice, nor what was there already:
\* importing a file again adds nothing (findDuplicateImports).
SelectedImportedOnce ==
  [][/\ phase = "preview" /\ phase' = "closed" => Chosen \subseteq LiveContents'
     /\ Import(TRUE) =>
          /\ \A i \in Added : entries'[i].content \notin LiveContents
          /\ \A i, j \in Added :
               entries'[i].content = entries'[j].content => i = j]_vars

\* Importing into the folders the file names puts every entry into a live
\* folder with that path, and makes no second folder where one differing at
\* most in case was there or was made by an earlier row (getOrCreateGroup).
LandsInItsFolder ==
  [][\A skip \in BOOLEAN :
       HandleExecuteImport(FALSE, RootGroup, <<>>, skip) /\ ~failed' =>
         LET paths == FoldedPaths(groups')
             new == DOMAIN groups' \ DOMAIN groups
             pending == Pending(skip)
         IN  /\ \A k \in DOMAIN pending :
                  LET made == entries'[Len(entries) + k] IN
                  /\ groups'[made.group].live
                  /\ paths[made.group] =
                       [i \in DOMAIN PathOf(previewEntries[pending[k]]) |->
                          LowerCase(PathOf(previewEntries[pending[k]])[i])]
             /\ \A g \in new, h \in DOMAIN groups' :
                  g # h /\ groups'[h].live => paths[g] # paths[h]]_vars

\* An import that reports an error has changed nothing: its caller does not
\* mark the vault changed ("Validate every prospective name before creating
\* any folders or entries", applyImportToVault; handleExecuteImport).
FailsWhole == [][failed' => UNCHANGED vault]_vars
=============================================================================
