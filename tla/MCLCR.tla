-------------------------------- MODULE MCLCR -------------------------------
(* The ring of ho16/lcr.c: five nodes with the identifiers of node_uids.   *)
EXTENDS LCR

ProgramUids == <<12, 5, 23, 8, 15>>
ProgramUid == [n \in 0..4 |-> ProgramUids[n + 1]]
=============================================================================
