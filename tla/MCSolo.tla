------------------------------ MODULE MCSolo ------------------------------
EXTENDS SubmissionSafety, TLC
CONSTANTS u1, u2, t1, c1, c2, c3
MCRequires == c1 :> {} @@ c2 :> {c1} @@ c3 :> {}
MCMaxAttempts == c1 :> 0 @@ c2 :> 0 @@ c3 :> 1
MCInputs == {u1, u2} \X {t1, NoTeam} \X {c1, c2} \X {TRUE}
            \cup {u1} \X {t1, NoTeam} \X {c1, c3} \X {FALSE}
=============================================================================
