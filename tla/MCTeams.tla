------------------------------ MODULE MCTeams ------------------------------
EXTENDS TeamMembership, TLC
Symmetry == Permutations(Users) \cup Permutations(Slots)
=============================================================================
