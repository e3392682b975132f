----------------------------- MODULE MC_AppVault -----------------------------
(* One or two tabs of one browser. *)
EXTENDS AppVault, TLC

CONSTANTS t1, t2, pw, paper, i1, i2

OneTab == {t1}
TwoTabs == {t1, t2}
TwoIds == {i1, i2}
OneCode == {pw}
TwoCodes == {pw, paper}
NoFaults == {}
KeyFaults == {"keyStore"}
DraftFaults == {"put", "reference"}

TabSymmetry == Permutations(TwoTabs) \cup Permutations(TwoIds)
=============================================================================
