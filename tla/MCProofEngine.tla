------------------------------ MODULE MCProofEngine ------------------------------
EXTENDS ProofEngine, TLC

(* Callers, proof ids and settlements are each treated alike, and handlers *)
(* too except for those that may throw.                                    *)
Symmetry == Permutations(Callers) \cup Permutations(ProofIds) \cup Permutations(Settlements)

(* All settlements share the characters of their ids that a hash keeps.    *)
SameStart == [s \in Settlements |-> "7c9e6679-7425-40de-944b-e07fc1f"]
===================================================================================
