---------------------------- MODULE EngineSafety ----------------------------
(***************************************************************************)
(* What the engine's scores and boards guarantee, whatever calls overlap   *)
(* and wherever one of them fails.                                         *)
(***************************************************************************)
EXTENDS EngineScoring

SolveOf(r) == <<r.event, r.team, r.chal>>
Solved == {SolveOf(r) : r \in scores}

Ledger == INSTANCE ScoreLedger
    WITH solved <- Solved,
         paid   <- {SolveOf(r) : r \in {x \in scores : x.blood}},
         winner <- firstBlood

\* The engine implements the ledger: first blood goes to one team and stays with
\* it, no score is ever removed, and the bonus is paid to the winner alone, though
\* the claim (SETNX) and the score (HSET) are two commands (calculateScore).
LedgerSpec == Ledger!Spec

\* The chain bonus rests on recorded solves: the chain holds only challenges whose
\* score was stored, and no score counts more prerequisites than its team has
\* (calculateScore, "Chain depth"; handleSubmission, "Track solved challenges").
ChainBacked ==
    /\ chain \subseteq Solved
    /\ \A r \in scores :
          r.depth <= Cardinality({c \in Requires[r.chal] : <<r.event, r.team, c>> \in Solved})

Boards == {board[e] : e \in Events} \cup {call[s].snap : s \in {x \in Slots : at[x] = "publish"}}

\* A board, cached or about to be published, counts a challenge at most once per
\* team and only solves that are stored, though it was read key by key while others
\* wrote (recalculateLeaderboard).
BoardCountsStored ==
    \A b \in Boards :
        /\ \A r \in b : SolveOf(r) \in Solved
        /\ \A r, q \in b : SameField(r, q) => r = q

\* The board handleSubmission computes shows the solve it handles, which the SCAN
\* and the HGETALLs that follow the HSET cannot miss.
OwnSolveOnBoard ==
    \A s \in Slots :
        at[s] = "set" /\ call[s].team # NoTeam => \E r \in call[s].snap : SameField(r, call[s])

\* Every call returns: no loop over prerequisites or keys is left turning.
EveryCallReturns == \A s \in Slots : at[s] # "idle" ~> at[s] = "idle"
=============================================================================
