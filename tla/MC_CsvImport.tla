---------------------------- MODULE MC_CsvImport ----------------------------
(* Files with the columns of each provider.  The cells hold what the parser *)
(* or the import treats specially; the vault has a folder the files name in *)
(* another case, a recycled folder, a live entry and a recycled one.        *)
EXTENDS CsvImport

SomeTokens ==
  {Quote, LF, CR, BOM, "CustomFields", "site", "Account",
   "ImportedPasswords", "space", "slash", "backslash", "control", "x", "p",
   "a", "b", "c", "pwd", "new", "sub", "Work", "work", "Title", "title",
   "name", "url", "username", "username2", "password", "login_password",
   "login_uri", "fields", "extra", "grouping", "category", "folder",
   "siteURL", "snURL", "Vault", "RecycleBin"}
    \cup Delimiters

x == <<"x">>
p == <<"p">>
Tricky == <<"space", Quote, "comma", LF, "p">>

Row(title, password, folder) == <<title, password, folder>>

\* Whatever the cells, in a file of two rows and two columns.
Cells == {<<>>, x, <<"space">>, <<Quote>>, Tricky, <<"semicolon", "tab">>}

Plain == {<<<<<<"Title">>, <<"pwd">>>>, <<a, b>>, <<c>>>> :
            a, b, c \in Cells}

Exports ==
  {<<<<<<"name">>, <<"url">>, <<"username">>, <<"password">>>>,
     <<<<>>, <<"siteURL">>, <<>>, p>>>>,
   <<<<<<"name">>, <<"login_password">>, <<"login_uri">>,
        <<"fields">>>>,
     <<<<>>, p, <<"siteURL">>, x>>, <<x, p, <<>>, <<>>>>>>,
   <<<<<<"url">>, <<"username">>, <<"password">>, <<"extra">>,
        <<"grouping">>>>,
     <<<<"snURL">>, <<>>, <<>>, x, <<"Work">>>>>>,
   <<<<<<"Title">>, <<"category">>, <<"username2">>, <<"password">>>>,
     <<<<>>, <<"work">>, x, p>>>>}

Folders == {<<>>, <<"Work">>, <<"Work", "slash", "sub">>,
            <<"new", "backslash", "sub">>,
            <<"new", "slash", "control">>, <<"a", "slash", "b", "slash", "c">>}

Nested == {<<<<<<"title">>, <<"password">>, <<"folder">>>>,
             Row(x, p, f), Row(x, q, g)>> :
             f, g \in Folders, q \in {p, x}}

\* The same entry twice, and another after it.
Repeated == {<<<<<<"title">>, <<"password">>, <<"folder">>>>,
               Row(x, p, <<>>), Row(x, p, <<"Work">>), Row(p, x, <<>>)>>}

AllTables == Plain \cup Exports \cup Nested \cup Repeated

SomeProviders == {"auto", "generic"}

SomeNames == {<<>>, <<"new", "space">>, <<"control">>}

Groups ==
  <<[name |-> <<"Vault">>, parent |-> 1, live |-> TRUE],
    [name |-> <<"work">>, parent |-> 1, live |-> TRUE],
    [name |-> <<"RecycleBin">>, parent |-> 1, live |-> FALSE],
    [name |-> <<"new">>, parent |-> 3, live |-> FALSE]>>

Content(title, password) ==
  [title |-> title, username |-> <<>>, password |-> password, url |-> <<>>,
   notes |-> <<>>, totpSeed |-> <<>>]

SomeEntries == <<[content |-> Content(x, x), group |-> 2],
                 [content |-> Content(x, p), group |-> 4]>>
=============================================================================
