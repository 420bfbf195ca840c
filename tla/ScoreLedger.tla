---------------------------- MODULE ScoreLedger ----------------------------
(***************************************************************************)
(* What the engine's scores promise, without the calls that compute them.  *)
(* A challenge of an event has one winner, for ever: the first team to     *)
(* claim it.  A solve, once recorded, stays recorded, and only the winner  *)
(* of a challenge is ever paid the first-blood bonus for it.               *)
(***************************************************************************)
CONSTANTS Events, Teams, Challenges, NoTeam

VARIABLES
    solved,  \* the <<event, team, challenge>> recorded
    paid,    \* those recorded with the first-blood bonus
    winner   \* winner[e][c]: who drew first blood on c in e, or NoTeam

ledgerVars == <<solved, paid, winner>>

Init ==
    /\ solved = {}
    /\ paid = {}
    /\ winner = [e \in Events |-> [c \in Challenges |-> NoTeam]]

Win(e, t, c) ==
    /\ winner[e][c] = NoTeam
    /\ winner' = [winner EXCEPT ![e][c] = t]
    /\ UNCHANGED <<solved, paid>>

RecordPaid(e, t, c) ==
    /\ winner[e][c] = t
    /\ solved' = solved \cup {<<e, t, c>>}
    /\ paid' = paid \cup {<<e, t, c>>}
    /\ UNCHANGED winner

\* Recording a solve again without the bonus takes the bonus away.
RecordUnpaid(e, t, c) ==
    /\ solved' = solved \cup {<<e, t, c>>}
    /\ paid' = paid \ {<<e, t, c>>}
    /\ UNCHANGED winner

Next ==
    \E e \in Events, t \in Teams, c \in Challenges :
        \/ Win(e, t, c)
        \/ RecordPaid(e, t, c)
        \/ RecordUnpaid(e, t, c)

Spec == Init /\ [][Next]_ledgerVars
=============================================================================
