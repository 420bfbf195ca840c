------------------------------ MODULE MCEvent ------------------------------
EXTENDS SubmissionSafety, TLC
CONSTANTS u1, t1, t2, c1
MCRequires == c1 :> {}
MCMaxAttempts == c1 :> 0
MCInputs == {u1} \X {t1, t2, NoTeam} \X {c1} \X {TRUE}
Symmetry == Permutations(Slots)
=============================================================================
