------------------------------ MODULE MCEngine ------------------------------
EXTENDS EngineSafety, TLC
CONSTANTS e1, t1, t2, c1, c2
MCRequires == c1 :> {} @@ c2 :> {c1}
MCSolves == {<<e1, t1, c1>>, <<e1, t1, c2>>, <<e1, t2, c1>>}
=============================================================================
