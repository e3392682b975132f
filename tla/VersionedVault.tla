--------------------------- MODULE VersionedVault ---------------------------
(***************************************************************************)
(* What the server promises the clients of one vault, whatever happens on  *)
(* its disk: a numbered sequence of versions that only grows, and the      *)
(* uploads it turned down.  A request is taken in, and then either appends *)
(* one version, or is kept aside, or leaves nothing behind.  An upload     *)
(* appends only if it names the latest version at that very moment.        *)
(*                                                                         *)
(* VaultStore implements this module with files, VaultSync is built on it. *)
(***************************************************************************)
EXTENDS Naturals, Sequences

CONSTANTS
  Contents,   \* encrypted vaults
  Names       \* names a rejected upload may be kept under

VARIABLES
  versions,   \* versions[n] is the content of version n
  kept,       \* rejected uploads: name -> content
  request     \* the request being served, or NoRequest

vars == <<versions, kept, request>>

NoRequest == [kind |-> "none"]

Requests == [kind : {"save", "rollback"}, base : Nat, content : Contents]

TypeOK ==
  /\ versions \in Seq(Contents)
  /\ DOMAIN kept \subseteq Names
  /\ \A k \in DOMAIN kept : kept[k] \in Contents
  /\ request \in Requests \cup {NoRequest}

Init ==
  /\ versions = << >>
  /\ kept = << >>
  /\ request = NoRequest
-----------------------------------------------------------------------------
Latest == Len(versions)

\* A request starts being served; a rollback is not bound to a version.
Receive ==
  /\ request = NoRequest
  /\ request' \in Requests
  /\ UNCHANGED <<versions, kept>>

\* An upload must name the latest version at the moment it takes effect.
Acceptable == request.kind = "rollback" \/ request.base = Latest

\* The content becomes the next version.
Commit ==
  /\ request # NoRequest
  /\ Acceptable
  /\ versions' = Append(versions, request.content)
  /\ request' = NoRequest
  /\ UNCHANGED kept

\* An upload that names another version is kept under a free name.
Refuse ==
  /\ request # NoRequest
  /\ ~ Acceptable
  /\ \E k \in Names \ DOMAIN kept :
       kept' = [i \in DOMAIN kept \cup {k} |->
                  IF i = k THEN request.content ELSE kept[i]]
  /\ request' = NoRequest
  /\ UNCHANGED versions

\* The server stops, or answers an error: nothing has happened.
Fail ==
  /\ request # NoRequest
  /\ request' = NoRequest
  /\ UNCHANGED <<versions, kept>>

\* The user discards a rejected upload.
Discard(k) ==
  /\ k \in DOMAIN kept
  /\ kept' = [i \in DOMAIN kept \ {k} |-> kept[i]]
  /\ UNCHANGED <<versions, request>>

Next ==
  \/ Receive
  \/ Commit
  \/ Refuse
  \/ Fail
  \/ \E k \in Names : Discard(k)

Spec == Init /\ [][Next]_vars
=============================================================================
