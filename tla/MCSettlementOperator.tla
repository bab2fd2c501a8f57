------------------------ MODULE MCSettlementOperator ------------------------
(***************************************************************************)
(* Small instances of SettlementOperator for TLC.                          *)
(***************************************************************************)
EXTENDS SettlementOperator
=============================================================================
