---------------------------- MODULE MCSettlementEngine ----------------------------
(* Instances of SettlementEngine for TLC.                                  *)
EXTENDS SettlementEngine
===================================================================================
