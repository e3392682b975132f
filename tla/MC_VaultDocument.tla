-------------------------- MODULE MC_VaultDocument --------------------------
(* Two entries, one of them not created yet, and a conflict with another    *)
(* state of the first.  The first entry's attachment i came from another    *)
(* client, which does not share its bytes between versions.                 *)
EXTENDS VaultDocument

CONSTANTS e1, e2, c1, c2, f, i

MCEntries == {e1, e2}
MCContents == {c1, c2}
MCFiles == {f, i}
MCInline == {i}

First ==
  [e \in MCEntries |->
     IF e = e1 THEN [folder |-> Folder, fields |-> c1, files |-> {i},
                     history |-> <<>>]
     ELSE Absent]

Preserved ==
  [e \in {e1} |-> [folder |-> Folder, fields |-> c2, files |-> {f},
                   history |-> <<[fields |-> c1, files |-> {}]>>]]

SomeLimits == {0, 1}
=============================================================================
