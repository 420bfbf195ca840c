--------------------------- MODULE EngineScoring ---------------------------
(***************************************************************************)
(* The ctf-engine's own scores and leaderboards (scoring.ts), kept in      *)
(* Redis: the hash of scores of a team, the set of its solves (the chain), *)
(* the first-blood key of a challenge and the cached board of an event.    *)
(*                                                                         *)
(* Each call runs in a slot, an async function of the engine.  An await of *)
(* a Redis command ends a step, so the calls interleave between commands;  *)
(* the commands themselves are atomic.  A command that fails ends the call *)
(* and leaves what the earlier ones wrote.                                 *)
(*                                                                         *)
(* A score is kept as the factors calculateScore multiplies (the chain     *)
(* depth and the first-blood bonus), a board as the set of scores it ranks.*)
(***************************************************************************)
EXTENDS Integers, FiniteSets

CONSTANTS
    Events, Teams, Challenges,
    Requires,   \* Requires[c]: the prerequisites of challenge c
    Slots,      \* the calls that may be in flight together
    NoTeam, NoChallenge, NoCall,
    Solves,     \* the <<event, team, challenge>> callers pass to handleSubmission
    MaxCalls    \* bound: the submissions handled in a behaviour

VARIABLES
    scores,      \* the fields of every ctf:scores:{event}:{team}
    chain,       \* the <<event, team, challenge>> of every ctf:chain:{event}:{team}
    firstBlood,  \* firstBlood[e][c]: ctf:first-blood:{e}:{c}
    board,       \* board[e]: ctf:leaderboard:{e}; {} when it is missing or empty
    at,          \* at[s]: the next command of slot s
    call,        \* call[s]: the call slot s runs
    calls        \* the number of submissions handled

vars == <<scores, chain, firstBlood, board, at, call, calls>>

Score == [event : Events, team : Teams, chal : Challenges, depth : Nat, blood : BOOLEAN]
Call == [event : Events, team : Teams \cup {NoTeam}, chal : Challenges \cup {NoChallenge},
         todo : SUBSET Challenges, depth : Nat, blood : BOOLEAN, keys : SUBSET Teams, snap : SUBSET Score]

ASSUME ScoringAssumption ==
    /\ IsFiniteSet(Slots)
    /\ Requires \in [Challenges -> SUBSET Challenges]
    /\ \A c \in Challenges : IsFiniteSet(Requires[c])
    /\ NoTeam \notin Teams
    /\ NoChallenge \notin Challenges
    /\ NoCall \notin Call
    /\ Solves \subseteq Events \X Teams \X Challenges
    /\ MaxCalls \in Nat

Commands == {"idle", "sismember", "setnx", "hset", "sadd", "scan", "hgetall", "set", "publish"}
InScore == {"sismember", "setnx", "hset", "sadd"}

(* The types of the stored scores, the boards and the calls in flight.     *)
TypeOK ==
    /\ scores \subseteq Score
    /\ chain \subseteq Events \X Teams \X Challenges
    /\ firstBlood \in [Events -> [Challenges -> Teams \cup {NoTeam}]]
    /\ board \in [Events -> SUBSET Score]
    /\ at \in [Slots -> Commands]
    /\ call \in [Slots -> Call \cup {NoCall}]
    /\ calls \in Nat
    /\ \A s \in Slots : at[s] # "idle" => call[s] # NoCall
    /\ \A s \in Slots : at[s] \in InScore => /\ call[s].team # NoTeam
                                            /\ call[s].chal # NoChallenge

Init ==
    /\ scores = {}
    /\ chain = {}
    /\ firstBlood = [e \in Events |-> [c \in Challenges |-> NoTeam]]
    /\ board = [e \in Events |-> {}]
    /\ at = [s \in Slots |-> "idle"]
    /\ call = [s \in Slots |-> NoCall]
    /\ calls = 0
-----------------------------------------------------------------------------
Await(s, command) == at' = [at EXCEPT ![s] = command]

Return(s) ==
    /\ Await(s, "idle")
    /\ call' = [call EXCEPT ![s] = NoCall]

NewCall(e, t, c, requires) ==
    [event |-> e, team |-> t, chal |-> c, todo |-> requires, depth |-> 0,
     blood |-> FALSE, keys |-> {}, snap |-> {}]

\* handleSubmission of a right flag; for a wrong one it returns at once.
HandleSubmission(s) ==
    /\ at[s] = "idle"
    /\ calls < MaxCalls
    /\ \E v \in Solves :
          /\ call' = [call EXCEPT ![s] = NewCall(v[1], v[2], v[3], Requires[v[3]])]
          /\ Await(s, IF Requires[v[3]] = {} THEN "setnx" ELSE "sismember")
    /\ calls' = calls + 1
    /\ UNCHANGED <<scores, chain, firstBlood, board>>

\* Mutant of CountPrerequisite: every prerequisite counts, solved or not.
CountEveryPrerequisite(s) ==
    /\ at[s] = "sismember"
    /\ \E c \in call[s].todo :
          /\ call' = [call EXCEPT ![s].todo = @ \ {c}, ![s].depth = @ + 1]
          /\ Await(s, IF call[s].todo = {c} THEN "setnx" ELSE "sismember")
    /\ UNCHANGED <<scores, chain, firstBlood, board, calls>>

\* Mutant of CountPrerequisite: the loop does not advance.
CountSamePrerequisite(s) ==
    /\ at[s] = "sismember"
    /\ call' = [call EXCEPT ![s].depth = IF @ = 0 THEN 1 ELSE 0]
    /\ UNCHANGED <<scores, chain, firstBlood, board, at, calls>>

\* One SISMEMBER per prerequisite; the list's order does not matter.
CountPrerequisite(s) ==
    /\ at[s] = "sismember"
    /\ \E c \in call[s].todo :
          /\ LET solved == <<call[s].event, call[s].team, c>> \in chain
             IN  call' = [call EXCEPT ![s].todo = @ \ {c},
                                      ![s].depth = @ + (IF solved THEN 1 ELSE 0)]
          /\ Await(s, IF call[s].todo = {c} THEN "setnx" ELSE "sismember")
    /\ UNCHANGED <<scores, chain, firstBlood, board, calls>>

\* Mutant of ClaimFirstBlood: a SET that overwrites, after a look at the scores.
ClaimFirstBloodBySet(s) ==
    /\ at[s] = "setnx"
    /\ LET e == call[s].event
           c == call[s].chal
           free == ~\E r \in scores : r.event = e /\ r.chal = c
       IN  /\ call' = [call EXCEPT ![s].blood = free]
           /\ firstBlood' = IF free THEN [firstBlood EXCEPT ![e][c] = call[s].team] ELSE firstBlood
    /\ Await(s, "hset")
    /\ UNCHANGED <<scores, chain, board, calls>>

\* SETNX: the team that finds the key missing writes it and takes the bonus.
ClaimFirstBlood(s) ==
    /\ at[s] = "setnx"
    /\ LET e == call[s].event
           c == call[s].chal
           free == firstBlood[e][c] = NoTeam
       IN  /\ call' = [call EXCEPT ![s].blood = free]
           /\ firstBlood' = IF free THEN [firstBlood EXCEPT ![e][c] = call[s].team] ELSE firstBlood
    /\ Await(s, "hset")
    /\ UNCHANGED <<scores, chain, board, calls>>

ScoreOf(q) == [event |-> q.event, team |-> q.team, chal |-> q.chal, depth |-> q.depth,
               blood |-> q.blood]
SameField(r, q) == r.event = q.event /\ r.team = q.team /\ r.chal = q.chal

\* Mutant of StoreScore: a second score next to the first.
StoreScoreAgain(s) ==
    /\ at[s] = "hset"
    /\ scores' = scores \cup {ScoreOf(call[s])}
    /\ Await(s, "sadd")
    /\ UNCHANGED <<chain, firstBlood, board, call, calls>>

\* HSET replaces the score of a challenge the team had scored already.
StoreScore(s) ==
    /\ at[s] = "hset"
    /\ scores' = {r \in scores : ~SameField(r, call[s])} \cup {ScoreOf(call[s])}
    /\ Await(s, "sadd")
    /\ UNCHANGED <<chain, firstBlood, board, call, calls>>

RecordSolve(s) ==
    /\ at[s] = "sadd"
    /\ chain' = chain \cup {<<call[s].event, call[s].team, call[s].chal>>}
    /\ Await(s, "scan")
    /\ UNCHANGED <<scores, firstBlood, board, call, calls>>
-----------------------------------------------------------------------------
(* recalculateLeaderboard *)

\* broadcastLeaderboardUpdate recalculates, then publishes.
BroadcastLeaderboardUpdate(s) ==
    /\ at[s] = "idle"
    /\ \E e \in Events : call' = [call EXCEPT ![s] = NewCall(e, NoTeam, NoChallenge, {})]
    /\ Await(s, "scan")
    /\ UNCHANGED <<scores, chain, firstBlood, board, calls>>

\* Mutant of TeamsScored: the teams of the cached board, when there is one.
TeamsOnBoard(e) == {r.team : r \in IF board[e] = {} THEN {x \in scores : x.event = e} ELSE board[e]}

TeamsScored(e) == {r.team : r \in {x \in scores : x.event = e}}

\* The teams with a score hash when the SCAN ran.
ScanScores(s) ==
    /\ at[s] = "scan"
    /\ LET found == TeamsScored(call[s].event)
       IN  /\ call' = [call EXCEPT ![s].keys = found]
           /\ Await(s, IF found = {} THEN "set" ELSE "hgetall")
    /\ UNCHANGED <<scores, chain, firstBlood, board, calls>>

\* One HGETALL per key found, in the order SCAN returned them: any order.
ReadScores(s) ==
    /\ at[s] = "hgetall"
    /\ \E t \in call[s].keys :
          /\ call' = [call EXCEPT ![s].keys = @ \ {t},
                                  ![s].snap = @ \cup {r \in scores : r.event = call[s].event
                                                                     /\ r.team = t}]
          /\ Await(s, IF call[s].keys = {t} THEN "set" ELSE "hgetall")
    /\ UNCHANGED <<scores, chain, firstBlood, board, calls>>

\* Mutant of StoreBoard: the call returns before it publishes.
StoreBoardReturning(s) ==
    /\ at[s] = "set"
    /\ board' = [board EXCEPT ![call[s].event] = call[s].snap]
    /\ Await(s, IF call[s].team = NoTeam THEN "publish" ELSE "idle")
    /\ call' = [call EXCEPT ![s] = NoCall]
    /\ UNCHANGED <<scores, chain, firstBlood, calls>>

\* The names come from the backend, or are "Unknown" when it does not answer.
StoreBoard(s) ==
    /\ at[s] = "set"
    /\ board' = [board EXCEPT ![call[s].event] = call[s].snap]
    /\ IF call[s].team = NoTeam
       THEN Await(s, "publish") /\ UNCHANGED call
       ELSE Return(s)
    /\ UNCHANGED <<scores, chain, firstBlood, calls>>

\* PUBLISH sends the board to the leaderboard server; the POST to the backend that
\* follows is best effort.
PublishBoard(s) ==
    /\ at[s] = "publish"
    /\ Return(s)
    /\ UNCHANGED <<scores, chain, firstBlood, board, calls>>

\* A command fails, or the engine restarts.
Throw(s) ==
    /\ at[s] # "idle"
    /\ Return(s)
    /\ UNCHANGED <<scores, chain, firstBlood, board, calls>>

Step(s) ==
    \/ CountPrerequisite(s)
    \/ ClaimFirstBlood(s)
    \/ StoreScore(s)
    \/ RecordSolve(s)
    \/ ScanScores(s)
    \/ ReadScores(s)
    \/ StoreBoard(s)
    \/ PublishBoard(s)

Next ==
    \E s \in Slots :
        \/ HandleSubmission(s)
        \/ BroadcastLeaderboardUpdate(s)
        \/ Step(s)
        \/ Throw(s)

Spec == Init /\ [][Next]_vars

\* Redis answers or fails every command.
FairSpec == Spec /\ \A s \in Slots : WF_vars(Step(s))
=============================================================================
