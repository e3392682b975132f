---------------------------- MODULE MC_VaultSync ----------------------------
(* Two tabs on one vault, two edits, and one name for a rejected upload. *)
EXTENDS VaultSync

CONSTANTS t1, t2, k1

TwoTabs == {t1, t2}
OneName == {k1}
=============================================================================
