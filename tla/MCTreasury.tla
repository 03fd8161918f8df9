-------------------------------- MODULE MCTreasury --------------------------------
(* Instances of Treasury for TLC.                                          *)
EXTENDS Treasury, TLC

(* Callers, settlements and transaction ids are interchangeable.           *)
Symmetry == Permutations(Callers) \cup Permutations(Settlements) \cup Permutations(TxIds)
===================================================================================
