------------------------- MODULE MCSealingHistory ---------------------------
(* The encrypted fields of the whole system, for TLC.                       *)
EXTENDS MCFidoSystem, SealingHistory
=============================================================================
