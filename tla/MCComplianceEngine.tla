---------------------------- MODULE MCComplianceEngine ----------------------------
EXTENDS ComplianceEngine, TLC

(* A rule that is never violated, one that everything violates, and one    *)
(* whose name speaks of blocking.                                          *)
MCRules == {[name |-> "unlimited", limit |-> 0], [name |-> "small", limit |-> 100],
            [name |-> "blocked", limit |-> 5000]}

Symmetry == Permutations(Callers) \cup Permutations(Countries)
===================================================================================
