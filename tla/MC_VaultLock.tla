---------------------------- MODULE MC_VaultLock ----------------------------
(* Two downloads, a metadata lookup and two writers.                         *)
EXTENDS VaultLock

CONSTANTS d1, d2, l1, s1, s2

TwoDownloads == {d1, d2}
OneLookup == {l1}
TwoSaves == {s1, s2}
=============================================================================
