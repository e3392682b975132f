---------------------------- MODULE MC_AuditChain ----------------------------
(* Short logs: up to two records at the first boot and three more minted, in *)
(* every environment for which the properties are proved.                    *)
EXTENDS AuditChain

Reconcilable ==
  {sc \in [faults : SUBSET AllFaults, start : 0..2, legacy : BOOLEAN] :
     Durable(sc) /\ Reconciled(sc)}
=============================================================================
