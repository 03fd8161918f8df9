------------------------------- MODULE MCOnboarding -------------------------------
EXTENDS Onboarding, TLC

Symmetry == Permutations(Callers) \cup Permutations(Organizations)
            \cup Permutations(Users) \cup Permutations(Roles)
===================================================================================
