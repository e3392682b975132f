---------------------------- MODULE MC_VaultStore ----------------------------
(* A small vault: two contents, one device, one name for a rejected upload,  *)
(* and a history cap of two snapshots, which the third version exceeds.      *)
EXTENDS VaultStore, TLC

CONSTANTS a, b, d, c

TwoBlobs == {a, b}
OneDevice == {d}
OneConflict == {c}
CrashOnly == {"crash"}

BlobSymmetry == Permutations(TwoBlobs)
=============================================================================
