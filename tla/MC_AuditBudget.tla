--------------------------- MODULE MC_AuditBudget ---------------------------
(* More sources than the table has room for, and an allowance of one record. *)
EXTENDS AuditBudget

CONSTANTS s1, s2, s3

ThreeSources == {s1, s2, s3}
=============================================================================
