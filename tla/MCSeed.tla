---------------------------------- MODULE MCSeed ----------------------------------
EXTENDS Seed, TLC

Symmetry == Permutations(SeedRuns) \cup Permutations(Organizations)
===================================================================================
