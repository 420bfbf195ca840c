--------------------------- MODULE MCOrchestrator ---------------------------
EXTENDS OrchestratorSafety, TLC
CONSTANTS e1, t1, c1, c2
MCSymmetry == Permutations(Slots) \cup Permutations(Ids)
MCKeys == {<<e1, t1, c1>>, <<e1, t1, c2>>}
=============================================================================
