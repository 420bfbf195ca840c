---------------------------- MODULE EngineProofs ----------------------------
(***************************************************************************)
(* Proofs about EngineScoring, for any events, teams, challenges,          *)
(* prerequisites and number of calls that overlap or fail.                 *)
(***************************************************************************)
EXTENDS EngineSafety, CheckThenAct

\* A call that is starting is well formed.
LEMMA NewCallType ==
    ASSUME NEW e \in Events, NEW t \in Teams \cup {NoTeam},
           NEW c \in Challenges \cup {NoChallenge}, NEW requires \in SUBSET Challenges
    PROVE  NewCall(e, t, c, requires) \in Call
BY DEF NewCall, Call, Score

\* A submission handled is of an event, a team and a challenge.
LEMMA SolveFields ==
    ASSUME NEW v \in Solves
    PROVE  v[1] \in Events /\ v[2] \in Teams /\ v[3] \in Challenges
BY ScoringAssumption

\* What a call in flight stores is a score.
LEMMA ScoreOfType ==
    ASSUME TypeOK, NEW s \in Slots, at[s] \in InScore
    PROVE  ScoreOf(call[s]) \in Score
<1>1. call[s] \in Call
    BY DEF TypeOK, InScore
<1>2. call[s].team \in Teams /\ call[s].chal \in Challenges
    BY <1>1 DEF TypeOK, Call
<1> QED
    BY <1>1, <1>2 DEF ScoreOf, Score, Call

\* The type invariant of the scores, the boards and the calls in flight
\* (scoring.ts, handleSubmission, calculateScore and recalculateLeaderboard).
THEOREM EngineTypeCorrect == Spec => []TypeOK
<1> USE ScoringAssumption
<1>1. Init => TypeOK
    BY DEF Init, TypeOK, Commands, InScore
<1>2. TypeOK /\ [Next]_vars => TypeOK'
  <2> SUFFICES ASSUME TypeOK, [Next]_vars
               PROVE  TypeOK'
      OBVIOUS
  <2> USE DEF Commands, InScore
  <2>1. ASSUME NEW s \in Slots, HandleSubmission(s)
        PROVE  TypeOK'
    <3>1. PICK v \in Solves :
              /\ call' = [call EXCEPT ![s] = NewCall(v[1], v[2], v[3], Requires[v[3]])]
              /\ at' = [at EXCEPT ![s] = IF Requires[v[3]] = {} THEN "setnx" ELSE "sismember"]
        BY <2>1 DEF HandleSubmission, Await
    <3>2. v[1] \in Events /\ v[2] \in Teams /\ v[3] \in Challenges
        BY SolveFields
    <3> DEFINE new == NewCall(v[1], v[2], v[3], Requires[v[3]])
    <3>3. new \in Call /\ new.team = v[2] /\ new.chal = v[3]
        BY <3>2, NewCallType DEF NewCall
    <3>4. new # NoCall /\ new.team # NoTeam /\ new.chal # NoChallenge
        BY <3>2, <3>3
    <3> HIDE DEF new
    <3>5. call' = [call EXCEPT ![s] = new]
        BY <3>1 DEF new
    <3> QED
        BY <2>1, <3>1, <3>3, <3>4, <3>5 DEF HandleSubmission, TypeOK
  <2>2. ASSUME NEW s \in Slots, BroadcastLeaderboardUpdate(s)
        PROVE  TypeOK'
    <3>1. PICK e \in Events : call' = [call EXCEPT ![s] = NewCall(e, NoTeam, NoChallenge, {})]
        BY <2>2 DEF BroadcastLeaderboardUpdate
    <3> DEFINE new == NewCall(e, NoTeam, NoChallenge, {})
    <3>2. new \in Call
        BY NewCallType
    <3> HIDE DEF new
    <3>3. call' = [call EXCEPT ![s] = new]
        BY <3>1 DEF new
    <3> QED
        BY <2>2, <3>2, <3>3 DEF BroadcastLeaderboardUpdate, Await, TypeOK
  <2>3. ASSUME NEW s \in Slots, Step(s)
        PROVE  TypeOK'
    <3> USE DEF Await, Return
    <3>0. at[s] # "idle" => call[s] \in Call
        BY DEF TypeOK
    <3>1. CASE CountPrerequisite(s)
      <4>1. PICK c \in call[s].todo :
                /\ call' = [call EXCEPT ![s].todo = @ \ {c},
                                        ![s].depth = @ + (IF <<call[s].event, call[s].team, c>> \in chain
                                                          THEN 1 ELSE 0)]
                /\ at' = [at EXCEPT ![s] = IF call[s].todo = {c} THEN "setnx" ELSE "sismember"]
          BY <3>1 DEF CountPrerequisite
      <4> DEFINE depth == call[s].depth + (IF <<call[s].event, call[s].team, c>> \in chain
                                           THEN 1 ELSE 0)
                 new == [call[s] EXCEPT !.todo = @ \ {c}, !.depth = depth]
      <4>2. call' = [call EXCEPT ![s] = new]
          BY <4>1 DEF TypeOK
      <4>3. call[s] \in Call /\ at[s] = "sismember"
          BY <3>0, <3>1 DEF CountPrerequisite
      <4>4. depth \in Nat
          BY <4>3 DEF Call
      <4> HIDE DEF depth
      <4>5. new \in Call /\ new.team = call[s].team /\ new.chal = call[s].chal
          BY <4>3, <4>4 DEF Call
      <4> HIDE DEF new
      <4>6. UNCHANGED <<scores, chain, firstBlood, board, calls>>
          BY <3>1 DEF CountPrerequisite
      <4>7. new # NoCall
          BY <4>5
      <4>8. call[s].team # NoTeam /\ call[s].chal # NoChallenge
          BY <4>3 DEF TypeOK
      <4> QED
          BY <4>1, <4>2, <4>3, <4>5, <4>6, <4>7, <4>8 DEF TypeOK
    <3>2. CASE ClaimFirstBlood(s)
      <4> DEFINE e == call[s].event
                 c == call[s].chal
                 new == [call[s] EXCEPT !.blood = (firstBlood[e][c] = NoTeam)]
      <4>1. call' = [call EXCEPT ![s] = new]
          BY <3>2 DEF ClaimFirstBlood, TypeOK
      <4>2. new \in Call /\ new.team = call[s].team /\ new.chal = call[s].chal
          BY <3>0, <3>2 DEF ClaimFirstBlood, Call
      <4>3. e \in Events /\ c \in Challenges /\ call[s].team \in Teams
          BY <3>0, <3>2 DEF ClaimFirstBlood, Call, TypeOK
      <4>4. firstBlood' \in [Events -> [Challenges -> Teams \cup {NoTeam}]]
          BY <3>2, <4>3 DEF ClaimFirstBlood, TypeOK
      <4>5. /\ at[s] = "setnx" /\ at' = [at EXCEPT ![s] = "hset"]
            /\ UNCHANGED <<scores, chain, board, calls>>
          BY <3>2 DEF ClaimFirstBlood
      <4> HIDE DEF new
      <4> QED
          BY <4>1, <4>2, <4>4, <4>5 DEF TypeOK
    <3>3. CASE StoreScore(s)
      <4>1. ScoreOf(call[s]) \in Score
          BY <3>3, ScoreOfType DEF StoreScore
      <4> QED
          BY <3>3, <4>1 DEF StoreScore, TypeOK
    <3>4. CASE RecordSolve(s)
      <4>1. call[s].event \in Events /\ call[s].team \in Teams /\ call[s].chal \in Challenges
          BY <3>0, <3>4 DEF RecordSolve, Call, TypeOK
      <4> QED
          BY <3>4, <4>1 DEF RecordSolve, TypeOK
    <3>5. CASE ScanScores(s)
      <4> DEFINE new == [call[s] EXCEPT !.keys = TeamsScored(call[s].event)]
      <4>1. call' = [call EXCEPT ![s] = new]
          BY <3>5 DEF ScanScores, TypeOK
      <4>2. TeamsScored(call[s].event) \subseteq Teams
          BY DEF TeamsScored, TypeOK, Score
      <4>3. new \in Call
          BY <3>0, <3>5, <4>2 DEF ScanScores, Call
      <4> HIDE DEF new
      <4> QED
          BY <3>5, <4>1, <4>3 DEF ScanScores, TypeOK
    <3>6. CASE ReadScores(s)
      <4>1. PICK t \in call[s].keys :
                /\ call' = [call EXCEPT ![s].keys = @ \ {t},
                                        ![s].snap = @ \cup {r \in scores : r.event = call[s].event
                                                                           /\ r.team = t}]
                /\ at' = [at EXCEPT ![s] = IF call[s].keys = {t} THEN "set" ELSE "hgetall"]
          BY <3>6 DEF ReadScores
      <4> DEFINE read == {r \in scores : r.event = call[s].event /\ r.team = t}
                 new == [call[s] EXCEPT !.keys = @ \ {t}, !.snap = @ \cup read]
      <4>2. call' = [call EXCEPT ![s] = new]
          BY <4>1 DEF TypeOK
      <4>3. read \subseteq Score
          BY DEF TypeOK
      <4> HIDE DEF read
      <4>4. new \in Call
          BY <3>0, <3>6, <4>3 DEF ReadScores, Call
      <4> HIDE DEF new
      <4>5. UNCHANGED <<scores, chain, firstBlood, board, calls>> /\ at[s] = "hgetall"
          BY <3>6 DEF ReadScores
      <4> QED
          BY <4>1, <4>2, <4>4, <4>5 DEF TypeOK
    <3>7. CASE StoreBoard(s)
      <4>1. call[s].event \in Events /\ call[s].snap \in SUBSET Score
          BY <3>0, <3>7 DEF StoreBoard, Call
      <4> QED
          BY <3>7, <4>1 DEF StoreBoard, TypeOK
    <3>8. CASE PublishBoard(s)
        BY <3>8 DEF PublishBoard, TypeOK
    <3> QED
        BY <2>3, <3>1, <3>2, <3>3, <3>4, <3>5, <3>6, <3>7, <3>8 DEF Step
  <2>4. ASSUME NEW s \in Slots, Throw(s)
        PROVE  TypeOK'
      BY <2>4 DEF Throw, Return, Await, TypeOK
  <2>5. CASE UNCHANGED vars
      BY <2>5 DEF vars, TypeOK
  <2> QED
      BY <2>1, <2>2, <2>3, <2>4, <2>5 DEF Next
<1> QED
    BY <1>1, <1>2, PTL DEF Spec
-----------------------------------------------------------------------------
(* What each step does to the slot that takes it, and to the other slots. *)

\* The fields of a call that never change once it has started.
SameSolve(q, r) == q.event = r.event /\ q.team = r.team /\ q.chal = r.chal

Acts(s) == HandleSubmission(s) \/ BroadcastLeaderboardUpdate(s) \/ Step(s) \/ Throw(s)

LEMMA OthersWait ==
    ASSUME TypeOK, NEW s \in Slots, Acts(s), NEW p \in Slots, p # s
    PROVE  at'[p] = at[p] /\ call'[p] = call[p]
<1> USE DEF TypeOK, Await, Return
<1>1. CASE HandleSubmission(s)
    BY <1>1 DEF HandleSubmission
<1>2. CASE BroadcastLeaderboardUpdate(s)
    BY <1>2 DEF BroadcastLeaderboardUpdate
<1>3. CASE CountPrerequisite(s)
    BY <1>3 DEF CountPrerequisite
<1>4. CASE ClaimFirstBlood(s)
    BY <1>4 DEF ClaimFirstBlood
<1>5. CASE StoreScore(s) \/ RecordSolve(s)
    BY <1>5 DEF StoreScore, RecordSolve
<1>6. CASE ScanScores(s)
    BY <1>6 DEF ScanScores
<1>7. CASE ReadScores(s)
    BY <1>7 DEF ReadScores
<1>8. CASE StoreBoard(s) \/ PublishBoard(s) \/ Throw(s)
    BY <1>8 DEF StoreBoard, PublishBoard, Throw
<1> QED
    BY <1>1, <1>2, <1>3, <1>4, <1>5, <1>6, <1>7, <1>8 DEF Acts, Step

LEMMA AfterHandle ==
    ASSUME TypeOK, NEW s \in Slots, HandleSubmission(s)
    PROVE  \E e \in Events, t \in Teams, c \in Challenges :
              /\ call'[s] = NewCall(e, t, c, Requires[c])
              /\ at'[s] = IF Requires[c] = {} THEN "setnx" ELSE "sismember"
<1>1. PICK v \in Solves :
          /\ call' = [call EXCEPT ![s] = NewCall(v[1], v[2], v[3], Requires[v[3]])]
          /\ at' = [at EXCEPT ![s] = IF Requires[v[3]] = {} THEN "setnx" ELSE "sismember"]
    BY DEF HandleSubmission, Await
<1>2. v[1] \in Events /\ v[2] \in Teams /\ v[3] \in Challenges
    BY SolveFields
<1> QED
    BY <1>1, <1>2 DEF TypeOK

LEMMA AfterBroadcast ==
    ASSUME TypeOK, NEW s \in Slots, BroadcastLeaderboardUpdate(s)
    PROVE  /\ at'[s] = "scan"
           /\ call'[s].team = NoTeam /\ call'[s].snap = {}
BY DEF BroadcastLeaderboardUpdate, Await, NewCall, TypeOK

LEMMA AfterCount ==
    ASSUME TypeOK, NEW s \in Slots, CountPrerequisite(s)
    PROVE  /\ at'[s] \in {"setnx", "sismember"}
           /\ \E c \in call[s].todo :
                 /\ call'[s].todo = call[s].todo \ {c}
                 /\ call'[s].depth = call[s].depth
                        + (IF <<call[s].event, call[s].team, c>> \in chain THEN 1 ELSE 0)
           /\ SameSolve(call'[s], call[s])
           /\ call'[s].snap = call[s].snap
<1>1. PICK c \in call[s].todo :
          /\ call' = [call EXCEPT ![s].todo = @ \ {c},
                                  ![s].depth = @ + (IF <<call[s].event, call[s].team, c>> \in chain
                                                    THEN 1 ELSE 0)]
          /\ at' = [at EXCEPT ![s] = IF call[s].todo = {c} THEN "setnx" ELSE "sismember"]
    BY DEF CountPrerequisite, Await
<1>2. call[s] \in Call
    BY DEF CountPrerequisite, TypeOK
<1> DEFINE depth == call[s].depth + (IF <<call[s].event, call[s].team, c>> \in chain
                                     THEN 1 ELSE 0)
           new == [call[s] EXCEPT !.todo = @ \ {c}, !.depth = depth]
<1>3. call'[s] = new
    BY <1>1 DEF TypeOK
<1> HIDE DEF depth
<1>4. new.todo = call[s].todo \ {c} /\ new.depth = depth /\ new.snap = call[s].snap
    BY <1>2 DEF Call
<1>5. SameSolve(new, call[s])
    BY <1>2 DEF Call, SameSolve
<1> HIDE DEF new
<1>6. at'[s] \in {"setnx", "sismember"}
    BY <1>1 DEF TypeOK
<1> QED
    BY <1>3, <1>4, <1>5, <1>6 DEF depth

LEMMA AfterClaim ==
    ASSUME TypeOK, NEW s \in Slots, ClaimFirstBlood(s)
    PROVE  /\ at[s] = "setnx" /\ at'[s] = "hset"
           /\ call'[s].blood = (firstBlood[call[s].event][call[s].chal] = NoTeam)
           /\ call'[s].depth = call[s].depth /\ call'[s].todo = call[s].todo
           /\ call'[s].snap = call[s].snap
           /\ SameSolve(call'[s], call[s])
<1>1. call[s] \in Call
    BY DEF ClaimFirstBlood, TypeOK
<1> DEFINE free == firstBlood[call[s].event][call[s].chal] = NoTeam
<1>2. call'[s] = [call[s] EXCEPT !.blood = free]
    BY DEF ClaimFirstBlood, TypeOK
<1>3. at[s] = "setnx" /\ at'[s] = "hset"
    BY DEF ClaimFirstBlood, Await, TypeOK
<1>4. call'[s].blood = free
    BY <1>1, <1>2 DEF Call
<1> HIDE DEF free
<1> QED
    BY <1>1, <1>2, <1>3, <1>4 DEF Call, SameSolve, free

LEMMA AfterStore ==
    ASSUME TypeOK, NEW s \in Slots, StoreScore(s)
    PROVE  at[s] = "hset" /\ at'[s] = "sadd" /\ call' = call
BY DEF StoreScore, Await, TypeOK

LEMMA AfterRecord ==
    ASSUME TypeOK, NEW s \in Slots, RecordSolve(s)
    PROVE  at[s] = "sadd" /\ at'[s] = "scan" /\ call' = call
BY DEF RecordSolve, Await, TypeOK

LEMMA AfterScan ==
    ASSUME TypeOK, NEW s \in Slots, ScanScores(s)
    PROVE  /\ at[s] = "scan"
           /\ at'[s] = IF TeamsScored(call[s].event) = {} THEN "set" ELSE "hgetall"
           /\ call'[s].keys = TeamsScored(call[s].event)
           /\ call'[s].snap = call[s].snap
           /\ SameSolve(call'[s], call[s])
<1>1. call[s] \in Call
    BY DEF ScanScores, TypeOK
<1> DEFINE found == TeamsScored(call[s].event)
<1>2. /\ call'[s] = [call[s] EXCEPT !.keys = found]
      /\ at'[s] = IF found = {} THEN "set" ELSE "hgetall"
      /\ at[s] = "scan"
    BY DEF ScanScores, Await, TypeOK
<1> HIDE DEF found
<1>3. /\ call'[s].keys = found
      /\ call'[s].snap = call[s].snap
      /\ SameSolve(call'[s], call[s])
    BY <1>1, <1>2 DEF Call, SameSolve
<1> QED
    BY <1>2, <1>3 DEF found

LEMMA AfterRead ==
    ASSUME TypeOK, NEW s \in Slots, ReadScores(s)
    PROVE  /\ at[s] = "hgetall"
           /\ SameSolve(call'[s], call[s])
           /\ \E t \in call[s].keys :
                 /\ at'[s] = IF call[s].keys = {t} THEN "set" ELSE "hgetall"
                 /\ call'[s].keys = call[s].keys \ {t}
                 /\ call'[s].snap = call[s].snap
                        \cup {r \in scores : r.event = call[s].event /\ r.team = t}
<1>1. PICK t \in call[s].keys :
          /\ call' = [call EXCEPT ![s].keys = @ \ {t},
                                  ![s].snap = @ \cup {r \in scores : r.event = call[s].event
                                                                     /\ r.team = t}]
          /\ at' = [at EXCEPT ![s] = IF call[s].keys = {t} THEN "set" ELSE "hgetall"]
    BY DEF ReadScores, Await
<1>2. call[s] \in Call /\ at[s] = "hgetall"
    BY DEF ReadScores, TypeOK
<1> DEFINE read == {r \in scores : r.event = call[s].event /\ r.team = t}
           new == [call[s] EXCEPT !.keys = @ \ {t}, !.snap = @ \cup read]
<1>3. call'[s] = new
    BY <1>1 DEF TypeOK
<1> HIDE DEF read
<1>4. new.keys = call[s].keys \ {t} /\ new.snap = call[s].snap \cup read
    BY <1>2 DEF Call
<1>5. SameSolve(new, call[s])
    BY <1>2 DEF Call, SameSolve
<1> HIDE DEF new
<1>6. at'[s] = IF call[s].keys = {t} THEN "set" ELSE "hgetall"
    BY <1>1 DEF TypeOK
<1> QED
    BY <1>2, <1>3, <1>4, <1>5, <1>6 DEF read

LEMMA AfterStoreBoard ==
    ASSUME TypeOK, NEW s \in Slots, StoreBoard(s)
    PROVE  /\ at[s] = "set" /\ at'[s] \in {"publish", "idle"}
           /\ at'[s] = "publish" => call'[s] = call[s]
BY DEF StoreBoard, Await, Return, TypeOK

LEMMA AfterReturn ==
    ASSUME TypeOK, NEW s \in Slots, PublishBoard(s) \/ Throw(s)
    PROVE  at'[s] = "idle"
BY DEF PublishBoard, Throw, Return, Await, TypeOK
-----------------------------------------------------------------------------
(* The ledger. *)

\* A solve stored stays stored: HSET replaces a score by one of the same solve.
LEMMA SolvedGrows ==
    ASSUME TypeOK, [Next]_vars
    PROVE  Solved \subseteq Solved'
<1>1. CASE scores' = scores
    BY <1>1 DEF Solved, SolveOf
<1>2. ASSUME NEW s \in Slots, StoreScore(s)
      PROVE  Solved \subseteq Solved'
  <2> SUFFICES ASSUME NEW r \in scores
               PROVE  \E q \in scores' : SolveOf(q) = SolveOf(r)
      BY DEF Solved, SolveOf
  <2>1. CASE SameField(r, call[s])
    <3>1. ScoreOf(call[s]) \in scores'
        BY <1>2 DEF StoreScore
    <3>2. SolveOf(ScoreOf(call[s])) = SolveOf(r)
        BY <2>1 DEF SolveOf, ScoreOf, SameField
    <3> QED
        BY <3>1, <3>2
  <2>2. CASE ~SameField(r, call[s])
      BY <1>2, <2>2 DEF StoreScore
  <2> QED
      BY <2>1, <2>2
<1>3. scores' = scores \/ \E s \in Slots : StoreScore(s)
    BY DEF Next, vars, HandleSubmission, BroadcastLeaderboardUpdate, Step, Throw,
           CountPrerequisite, ClaimFirstBlood, RecordSolve, ScanScores, ReadScores,
           StoreBoard, PublishBoard
<1> QED
    BY <1>1, <1>2, <1>3

\* First blood, once claimed, keeps its winner: SETNX writes a missing key only.
LEMMA WinnerStays ==
    ASSUME TypeOK, [Next]_vars, NEW e \in Events, NEW c \in Challenges,
           firstBlood[e][c] # NoTeam
    PROVE  firstBlood'[e][c] = firstBlood[e][c]
<1>1. CASE firstBlood' = firstBlood
    BY <1>1
<1>2. ASSUME NEW s \in Slots, ClaimFirstBlood(s)
      PROVE  firstBlood'[e][c] = firstBlood[e][c]
  <2>1. call[s].event \in Events /\ call[s].chal \in Challenges
      BY <1>2 DEF ClaimFirstBlood, TypeOK, Call, InScore
  <2> QED
      BY <1>2, <2>1 DEF ClaimFirstBlood, TypeOK
<1>3. firstBlood' = firstBlood \/ \E s \in Slots : ClaimFirstBlood(s)
    BY DEF Next, vars, HandleSubmission, BroadcastLeaderboardUpdate, Step, Throw,
           CountPrerequisite, StoreScore, RecordSolve, ScanScores, ReadScores,
           StoreBoard, PublishBoard
<1> QED
    BY <1>1, <1>2, <1>3

\* Between the claim and the store, a call that will pay the bonus has the claim.
ClaimHeld ==
    \A s \in Slots :
        at[s] = "hset" /\ call[s].blood
            => firstBlood[call[s].event][call[s].chal] = call[s].team

LEMMA ClaimHeldStep ==
    ASSUME TypeOK, ClaimHeld, [Next]_vars
    PROVE  ClaimHeld'
<1> USE ScoringAssumption
<1> SUFFICES ASSUME NEW p \in Slots, at'[p] = "hset", call'[p].blood
             PROVE  firstBlood'[call'[p].event][call'[p].chal] = call'[p].team
    BY DEF ClaimHeld
<1>1. ASSUME at[p] = "hset", call'[p] = call[p]
      PROVE  firstBlood'[call'[p].event][call'[p].chal] = call'[p].team
  <2>1. call[p].event \in Events /\ call[p].chal \in Challenges /\ call[p].team \in Teams
      BY <1>1 DEF TypeOK, Call, InScore
  <2>2. firstBlood[call[p].event][call[p].chal] = call[p].team
      BY <1>1 DEF ClaimHeld
  <2> QED
      BY <1>1, <2>1, <2>2, WinnerStays
<1>2. ASSUME NEW s \in Slots, Acts(s), s = p
      PROVE  firstBlood'[call'[p].event][call'[p].chal] = call'[p].team
  <2>1. CASE ClaimFirstBlood(s)
    <3>1. /\ SameSolve(call'[s], call[s])
          /\ firstBlood[call[s].event][call[s].chal] = NoTeam
        BY <1>2, <2>1, AfterClaim
    <3>2. call[s].event \in Events /\ call[s].chal \in Challenges
        BY <2>1 DEF ClaimFirstBlood, TypeOK, Call, InScore
    <3>3. firstBlood'[call[s].event][call[s].chal] = call[s].team
        BY <2>1, <3>1, <3>2 DEF ClaimFirstBlood, TypeOK
    <3> QED
        BY <1>2, <3>1, <3>3 DEF SameSolve
  <2>2. CASE HandleSubmission(s)
      BY <1>2, <2>2, AfterHandle
  <2>3. CASE BroadcastLeaderboardUpdate(s)
      BY <1>2, <2>3, AfterBroadcast
  <2>4. CASE CountPrerequisite(s)
      BY <1>2, <2>4, AfterCount
  <2>5. CASE StoreScore(s) \/ RecordSolve(s)
      BY <1>2, <2>5, AfterStore, AfterRecord
  <2>6. CASE ScanScores(s)
      BY <1>2, <2>6, AfterScan
  <2>7. CASE ReadScores(s)
      BY <1>2, <2>7, AfterRead
  <2>8. CASE StoreBoard(s)
      BY <1>2, <2>8, AfterStoreBoard
  <2>9. CASE PublishBoard(s) \/ Throw(s)
      BY <1>2, <2>9, AfterReturn
  <2> QED
      BY <1>2, <2>1, <2>2, <2>3, <2>4, <2>5, <2>6, <2>7, <2>8, <2>9 DEF Acts, Step
<1>3. ASSUME NEW s \in Slots, Acts(s), s # p
      PROVE  at'[p] = at[p] /\ call'[p] = call[p]
    BY <1>3, OthersWait
<1>4. UNCHANGED vars => at'[p] = at[p] /\ call'[p] = call[p]
    BY DEF vars
<1> QED
    BY <1>1, <1>2, <1>3, <1>4 DEF Next, Acts

Paid == {SolveOf(r) : r \in {x \in scores : x.blood}}

\* The HSET of a score with the bonus records a solve that is paid, one without it
\* a solve that is not, whatever was stored for that challenge before.
LEMMA StoreRecords ==
    ASSUME TypeOK, NEW s \in Slots, StoreScore(s)
    PROVE  LET own == SolveOf(call[s])
           IN  /\ Solved' = Solved \cup {own}
               /\ Paid' = IF call[s].blood THEN Paid \cup {own} ELSE Paid \ {own}
<1> DEFINE new == ScoreOf(call[s])
           own == SolveOf(call[s])
<1>1. scores' = {r \in scores : ~SameField(r, call[s])} \cup {new}
    BY DEF StoreScore
<1>2. SolveOf(new) = own /\ new.blood = call[s].blood
    BY DEF SolveOf, ScoreOf
<1>3. \A r \in scores : SameField(r, call[s]) <=> SolveOf(r) = own
    BY DEF SameField, SolveOf
<1> HIDE DEF new, own
<1>4. scores' = {r \in scores : SolveOf(r) # own} \cup {new}
    BY <1>1, <1>3
<1>5. Solved' = {SolveOf(r) : r \in scores'}
    BY DEF Solved, SolveOf
<1>6. Paid' = {SolveOf(r) : r \in {x \in scores' : x.blood}}
    BY DEF Paid, SolveOf
<1>7. Solved' = Solved \cup {own}
    BY <1>2, <1>4, <1>5 DEF Solved
<1>8. CASE call[s].blood
  <2>1. {x \in scores' : x.blood} = {x \in scores : x.blood /\ SolveOf(x) # own} \cup {new}
      BY <1>2, <1>4, <1>8
  <2>2. Paid' = Paid \cup {own}
      BY <1>2, <1>6, <2>1 DEF Paid
  <2> QED
      BY <1>7, <1>8, <2>2 DEF own
<1>9. CASE ~call[s].blood
  <2>1. {x \in scores' : x.blood} = {x \in scores : x.blood /\ SolveOf(x) # own}
      BY <1>2, <1>4, <1>9
  <2>2. Paid' = Paid \ {own}
      BY <1>6, <2>1 DEF Paid
  <2> QED
      BY <1>7, <1>9, <2>2 DEF own
<1> QED
    BY <1>8, <1>9

\* The engine implements the ledger, for any number of overlapping calls: each of
\* its steps claims a first blood, records a solve or leaves the ledger alone
\* (scoring.ts, calculateScore and handleSubmission).
THEOREM EngineImplementsLedger == Spec => LedgerSpec
<1>1. Init => Ledger!Init
    BY DEF Init, Ledger!Init, Solved
<1>2. Init => ClaimHeld
    BY DEF Init, ClaimHeld
<1>3. TypeOK /\ ClaimHeld /\ [Next]_vars => ClaimHeld'
    BY ClaimHeldStep
<1>4. TypeOK /\ ClaimHeld /\ [Next]_vars => [Ledger!Next]_(Ledger!ledgerVars)
  <2> SUFFICES ASSUME TypeOK, ClaimHeld, [Next]_vars
               PROVE  Ledger!Next \/ UNCHANGED <<Solved, Paid, firstBlood>>
      BY DEF Ledger!ledgerVars, Paid
  <2>1. ASSUME scores' = scores, firstBlood' = firstBlood
        PROVE  UNCHANGED <<Solved, Paid, firstBlood>>
      BY <2>1 DEF Solved, Paid, SolveOf
  <2>2. ASSUME NEW s \in Slots, ClaimFirstBlood(s)
        PROVE  Ledger!Next \/ UNCHANGED <<Solved, Paid, firstBlood>>
    <3> DEFINE e == call[s].event
               t == call[s].team
               c == call[s].chal
    <3>1. e \in Events /\ t \in Teams /\ c \in Challenges
        BY <2>2, ScoringAssumption DEF ClaimFirstBlood, TypeOK, Call, InScore
    <3>2. CASE firstBlood[e][c] = NoTeam
      <4>1. firstBlood' = [firstBlood EXCEPT ![e][c] = t] /\ scores' = scores
          BY <2>2, <3>2 DEF ClaimFirstBlood
      <4>2. Solved' = Solved /\ Paid' = Paid
          BY <4>1 DEF Solved, Paid, SolveOf
      <4>3. Ledger!Win(e, t, c)
          BY <3>2, <4>1, <4>2 DEF Ledger!Win, Paid
      <4> QED
          BY <3>1, <4>3 DEF Ledger!Next
    <3>3. CASE firstBlood[e][c] # NoTeam
        BY <2>1, <2>2, <3>3 DEF ClaimFirstBlood
    <3> QED
        BY <3>2, <3>3
  <2>3. ASSUME NEW s \in Slots, StoreScore(s)
        PROVE  Ledger!Next
    <3> DEFINE e == call[s].event
               t == call[s].team
               c == call[s].chal
    <3>1. e \in Events /\ t \in Teams /\ c \in Challenges
        BY <2>3, ScoringAssumption DEF StoreScore, TypeOK, Call, InScore
    <3>2. /\ Solved' = Solved \cup {<<e, t, c>>}
          /\ Paid' = IF call[s].blood THEN Paid \cup {<<e, t, c>>} ELSE Paid \ {<<e, t, c>>}
          /\ UNCHANGED firstBlood
        BY <2>3, StoreRecords DEF SolveOf, StoreScore
    <3>3. CASE call[s].blood
      <4>1. firstBlood[e][c] = t
          BY <2>3, <3>3 DEF ClaimHeld, StoreScore
      <4>2. Ledger!RecordPaid(e, t, c)
          BY <3>2, <3>3, <4>1 DEF Ledger!RecordPaid, Paid
      <4> QED
          BY <3>1, <4>2 DEF Ledger!Next, Ledger!RecordPaid
    <3>4. CASE ~call[s].blood
      <4>1. Ledger!RecordUnpaid(e, t, c)
          BY <3>2, <3>4 DEF Ledger!RecordUnpaid, Paid
      <4> QED
          BY <3>1, <4>1 DEF Ledger!Next, Ledger!RecordUnpaid
    <3> QED
        BY <3>3, <3>4
  <2>4. \/ scores' = scores /\ firstBlood' = firstBlood
        \/ \E s \in Slots : ClaimFirstBlood(s)
        \/ \E s \in Slots : StoreScore(s)
      BY DEF Next, vars, HandleSubmission, BroadcastLeaderboardUpdate, Step, Throw,
             CountPrerequisite, RecordSolve, ScanScores, ReadScores, StoreBoard, PublishBoard
  <2> QED
      BY <2>1, <2>2, <2>3, <2>4
<1> QED
    BY <1>1, <1>2, <1>3, <1>4, EngineTypeCorrect, PTL DEF Spec, LedgerSpec, Ledger!Spec
-----------------------------------------------------------------------------
(* The chain bonus. *)

\* The challenges of S that, by the record D of solves, team t solved in event e.
SolvedOf(S, e, t, D) == {c \in S : <<e, t, c>> \in D}

\* The depth counted so far is backed by the prerequisites looked at so far.
Backed(q, D) ==
    /\ q.todo \subseteq Requires[q.chal]
    /\ q.depth <= Cardinality(SolvedOf(Requires[q.chal] \ q.todo, q.event, q.team, D))

ChainInv ==
    /\ ChainBacked
    /\ \A s \in Slots : at[s] = "sadd" => SolveOf(call[s]) \in Solved
    /\ \A s \in Slots : at[s] \in {"sismember", "setnx", "hset"} => Backed(call[s], Solved)

\* Counting solved prerequisites in a larger set, or later, counts no fewer.
LEMMA SolvedOfGrows ==
    ASSUME NEW D1, NEW D2, D1 \subseteq D2, NEW S, IsFiniteSet(S), NEW R \in SUBSET S, NEW e, NEW t
    PROVE  /\ Cardinality(SolvedOf(R, e, t, D1)) \in Nat
           /\ Cardinality(SolvedOf(S, e, t, D2)) \in Nat
           /\ Cardinality(SolvedOf(R, e, t, D1)) <= Cardinality(SolvedOf(S, e, t, D2))
<1>1. SolvedOf(S, e, t, D2) \in SUBSET S
    BY DEF SolvedOf
<1>2. IsFiniteSet(SolvedOf(S, e, t, D2))
    BY <1>1, FS_Subset
<1>3. SolvedOf(R, e, t, D1) \in SUBSET (SolvedOf(S, e, t, D2))
    BY DEF SolvedOf
<1> QED
    BY <1>2, <1>3, SubsetCardinality

\* A later look, at the same call, is still backed.
LEMMA BackedStays ==
    ASSUME NEW D1, NEW D2, D1 \subseteq D2, NEW q \in Call, NEW r, q.chal \in Challenges, Backed(q, D1),
           SameSolve(r, q), r.todo = q.todo, r.depth = q.depth
    PROVE  Backed(r, D2)
<1>1. IsFiniteSet(Requires[q.chal] \ q.todo)
    BY ScoringAssumption, FS_Difference
<1> DEFINE left == Requires[q.chal] \ q.todo
<1>2. Cardinality(SolvedOf(left, q.event, q.team, D1)) \in Nat
      /\ Cardinality(SolvedOf(left, q.event, q.team, D2)) \in Nat
      /\ Cardinality(SolvedOf(left, q.event, q.team, D1))
             <= Cardinality(SolvedOf(left, q.event, q.team, D2))
    BY <1>1, SolvedOfGrows
<1>3. q.depth <= Cardinality(SolvedOf(left, q.event, q.team, D1)) /\ q.depth \in Nat
    BY DEF Backed, Call
<1>4. q.depth <= Cardinality(SolvedOf(left, q.event, q.team, D2))
    BY <1>2, <1>3
<1> QED
    BY <1>4 DEF Backed, SameSolve, SolvedOf

\* One more prerequisite looked at: the depth grows by one only when the chain, and
\* so the scores, hold it.
LEMMA CountBacked ==
    ASSUME NEW D1, NEW D2, D1 \subseteq D2, chain \subseteq D1,
           NEW q \in Call, NEW r, q.chal \in Challenges, Backed(q, D1), SameSolve(r, q),
           NEW c \in q.todo, r.todo = q.todo \ {c},
           r.depth = q.depth + (IF <<q.event, q.team, c>> \in chain THEN 1 ELSE 0)
    PROVE  Backed(r, D2)
<1> DEFINE R == Requires[q.chal]
           old == SolvedOf(R \ q.todo, q.event, q.team, D1)
           new == SolvedOf(R \ r.todo, q.event, q.team, D2)
<1>1. IsFiniteSet(R) /\ q.todo \subseteq R
    BY ScoringAssumption DEF Backed
<1>2. IsFiniteSet(R \ r.todo) /\ R \ q.todo \in SUBSET (R \ r.todo)
    BY <1>1, FS_Difference
<1>3. Cardinality(old) \in Nat /\ Cardinality(new) \in Nat /\ Cardinality(old) <= Cardinality(new)
    BY <1>2, SolvedOfGrows
<1>4. q.depth \in Nat /\ q.depth <= Cardinality(old)
    BY DEF Backed, Call
<1>5. CASE <<q.event, q.team, c>> \in chain
  <2>1. c \in new /\ c \notin old
      BY <1>1, <1>5 DEF SolvedOf
  <2>2. old \in SUBSET new
      BY <1>1 DEF SolvedOf
  <2>3. new \in SUBSET (R \ r.todo)
      BY DEF SolvedOf
  <2>4. IsFiniteSet(new)
      BY <1>2, <2>3, FS_Subset
  <2> HIDE DEF new, old
  <2>5. IsFiniteSet(old)
      BY <2>2, <2>4, FS_Subset
  <2>6. IsFiniteSet(old \cup {c}) /\ Cardinality(old \cup {c}) = Cardinality(old) + 1
      BY <2>1, <2>5, FS_AddElement
  <2>7. old \cup {c} \in SUBSET new
      BY <2>1, <2>2
  <2>8. Cardinality(old \cup {c}) <= Cardinality(new)
      BY <2>4, <2>7, SubsetCardinality
  <2>9. r.depth = q.depth + 1
      BY <1>5
  <2>10. r.depth <= Cardinality(new)
      BY <1>3, <1>4, <2>6, <2>8, <2>9
  <2>11. r.todo \subseteq R
      BY <1>1
  <2> QED
      BY <2>10, <2>11 DEF Backed, SameSolve, new
<1>6. CASE <<q.event, q.team, c>> \notin chain
  <2>1. r.depth = q.depth
      BY <1>4, <1>6
  <2>2. r.depth <= Cardinality(new)
      BY <1>3, <1>4, <2>1
  <2>3. r.todo \subseteq R
      BY <1>1
  <2> QED
      BY <2>2, <2>3 DEF Backed, SameSolve
<1> QED
    BY <1>5, <1>6

LEMMA ChainInvStep ==
    ASSUME TypeOK, ChainInv, [Next]_vars
    PROVE  ChainInv'
<1> USE ScoringAssumption
<1>0. Solved \subseteq Solved'
    BY SolvedGrows
<1>1. chain' \subseteq Solved'
  <2>1. ASSUME NEW s \in Slots, RecordSolve(s)
        PROVE  chain' \subseteq Solved'
    <3>1. <<call[s].event, call[s].team, call[s].chal>> \in Solved
        BY <2>1 DEF ChainInv, RecordSolve, SolveOf
    <3> QED
        BY <1>0, <2>1, <3>1 DEF ChainInv, ChainBacked, RecordSolve
  <2>2. CASE chain' = chain
      BY <1>0, <2>2 DEF ChainInv, ChainBacked
  <2>3. chain' = chain \/ \E s \in Slots : RecordSolve(s)
      BY DEF Next, vars, HandleSubmission, BroadcastLeaderboardUpdate, Step, Throw,
             CountPrerequisite, ClaimFirstBlood, StoreScore, ScanScores, ReadScores,
             StoreBoard, PublishBoard
  <2> QED
      BY <2>1, <2>2, <2>3
<1>2. ASSUME NEW r \in scores'
      PROVE  r.depth <= Cardinality({c \in Requires[r.chal] : <<r.event, r.team, c>> \in Solved'})
  <2> DEFINE now == Cardinality(SolvedOf(Requires[r.chal], r.event, r.team, Solved'))
  <2>1. ASSUME r \in scores
        PROVE  r.depth <= now
    <3> DEFINE was == Cardinality(SolvedOf(Requires[r.chal], r.event, r.team, Solved))
    <3>1. r.chal \in Challenges /\ r.depth \in Nat
        BY <2>1 DEF TypeOK, Score
    <3>2. was \in Nat /\ now \in Nat /\ was <= now
        BY <1>0, <3>1, SolvedOfGrows
    <3>3. r.depth <= was
        BY <2>1 DEF ChainInv, ChainBacked, SolvedOf
    <3> HIDE DEF was, now
    <3> QED
        BY <3>1, <3>2, <3>3
  <2>2. ASSUME NEW s \in Slots, StoreScore(s), r = ScoreOf(call[s])
        PROVE  r.depth <= now
    <3> DEFINE q == call[s]
               was == Cardinality(SolvedOf(Requires[q.chal] \ q.todo, q.event, q.team, Solved))
    <3>1. q \in Call /\ q.chal \in Challenges /\ q.depth \in Nat
        BY <2>2 DEF TypeOK, StoreScore, InScore, Call
    <3>2. r.chal = q.chal /\ r.event = q.event /\ r.team = q.team /\ r.depth = q.depth
        BY <2>2 DEF ScoreOf
    <3>3. q.depth <= was
        BY <2>2 DEF ChainInv, Backed, StoreScore
    <3>4. IsFiniteSet(Requires[r.chal])
        BY <3>1, <3>2
    <3>5. was \in Nat /\ now \in Nat /\ was <= now
        BY <1>0, <3>2, <3>4, SolvedOfGrows
    <3> HIDE DEF was, now
    <3> QED
        BY <3>1, <3>2, <3>3, <3>5
  <2>3. r \in scores \/ \E s \in Slots : StoreScore(s) /\ r = ScoreOf(call[s])
      BY <1>2 DEF Next, vars, HandleSubmission, BroadcastLeaderboardUpdate, Step, Throw,
             CountPrerequisite, ClaimFirstBlood, StoreScore, RecordSolve, ScanScores,
             ReadScores, StoreBoard, PublishBoard
  <2>4. r.depth <= now
      BY <2>1, <2>2, <2>3
  <2> QED
      BY <2>4 DEF SolvedOf
<1>3. ASSUME NEW p \in Slots
      PROVE  /\ at'[p] = "sadd" => SolveOf(call'[p]) \in Solved'
             /\ at'[p] \in {"sismember", "setnx", "hset"} => Backed(call'[p], Solved')
  <2> DEFINE PartOK == /\ at'[p] = "sadd" => SolveOf(call'[p]) \in Solved'
                       /\ at'[p] \in {"sismember", "setnx", "hset"} => Backed(call'[p], Solved')
  <2>1. ASSUME at[p] \in {"sismember", "setnx", "hset"}
        PROVE  call[p] \in Call /\ call[p].chal \in Challenges /\ Backed(call[p], Solved)
      BY <2>1 DEF ChainInv, TypeOK, InScore, Call
  <2>2. ASSUME at'[p] = at[p], call'[p] = call[p]
        PROVE  PartOK
    <3>1. at'[p] = "sadd" => SolveOf(call'[p]) \in Solved'
        BY <1>0, <2>2 DEF ChainInv
    <3>2. ASSUME at'[p] \in {"sismember", "setnx", "hset"}
          PROVE  Backed(call'[p], Solved')
      <4>1. SameSolve(call'[p], call[p]) /\ call'[p].todo = call[p].todo
            /\ call'[p].depth = call[p].depth
          BY <2>2 DEF SameSolve
      <4>2. call[p] \in Call /\ call[p].chal \in Challenges /\ Backed(call[p], Solved)
          BY <2>1, <2>2, <3>2
      <4> QED
          BY <1>0, <4>1, <4>2, BackedStays
    <3> QED
        BY <3>1, <3>2
  <2>3. ASSUME NEW s \in Slots, Acts(s), s = p
        PROVE  PartOK
    <3>1. CASE CountPrerequisite(s)
      <4>1. at[p] = "sismember" /\ at'[p] \in {"sismember", "setnx"}
            /\ SameSolve(call'[p], call[p])
          BY <2>3, <3>1, AfterCount DEF CountPrerequisite
      <4>2. call[p] \in Call /\ call[p].chal \in Challenges /\ Backed(call[p], Solved)
          BY <2>1, <4>1
      <4>3. PICK c \in call[p].todo :
                /\ call'[p].todo = call[p].todo \ {c}
                /\ call'[p].depth = call[p].depth
                       + (IF <<call[p].event, call[p].team, c>> \in chain THEN 1 ELSE 0)
          BY <2>3, <3>1, AfterCount
      <4>4. Backed(call'[p], Solved')
          BY <1>0, <4>1, <4>2, <4>3, CountBacked DEF ChainInv, ChainBacked
      <4> QED
          BY <4>1, <4>4
    <3>2. CASE ClaimFirstBlood(s)
      <4>1. /\ at[p] = "setnx" /\ at'[p] = "hset"
            /\ SameSolve(call'[p], call[p])
            /\ call'[p].depth = call[p].depth /\ call'[p].todo = call[p].todo
          BY <2>3, <3>2, AfterClaim
      <4>2. call[p] \in Call /\ call[p].chal \in Challenges /\ Backed(call[p], Solved)
          BY <2>1, <4>1
      <4>3. Backed(call'[p], Solved')
          BY <1>0, <4>1, <4>2, BackedStays
      <4> QED
          BY <4>1, <4>3
    <3>3. CASE StoreScore(s)
      <4>1. at'[p] = "sadd" /\ call' = call
          BY <2>3, <3>3, AfterStore
      <4>2. SolveOf(call[p]) \in Solved'
          BY <2>3, <3>3, StoreRecords
      <4>3. SolveOf(call'[p]) \in Solved'
          BY <4>1, <4>2
      <4> QED
          BY <4>1, <4>3
    <3>4. CASE HandleSubmission(s)
      <4>1. PICK e \in Events, t \in Teams, c \in Challenges :
                /\ call'[p] = NewCall(e, t, c, Requires[c])
                /\ at'[p] \in {"setnx", "sismember"}
          BY <2>3, <3>4, AfterHandle
      <4>2. call'[p].todo = Requires[c] /\ call'[p].chal = c /\ call'[p].depth = 0
          BY <4>1 DEF NewCall
      <4>3. SolvedOf(Requires[c] \ Requires[c], call'[p].event, call'[p].team, Solved') = {}
          BY DEF SolvedOf
      <4>4. Cardinality({}) = 0
          BY FS_EmptySet
      <4>5. /\ call'[p].todo \subseteq Requires[call'[p].chal]
            /\ Cardinality(SolvedOf(Requires[call'[p].chal] \ call'[p].todo,
                                    call'[p].event, call'[p].team, Solved')) = 0
          BY <4>2, <4>3, <4>4
      <4>6. Backed(call'[p], Solved')
          BY <4>2, <4>5 DEF Backed
      <4> QED
          BY <4>1, <4>6
    <3>5. CASE BroadcastLeaderboardUpdate(s)
        BY <2>3, <3>5, AfterBroadcast
    <3>6. CASE RecordSolve(s)
        BY <2>3, <3>6, AfterRecord
    <3>7. CASE ScanScores(s)
        BY <2>3, <3>7, AfterScan
    <3>8. CASE ReadScores(s)
        BY <2>3, <3>8, AfterRead
    <3>9. CASE StoreBoard(s)
        BY <2>3, <3>9, AfterStoreBoard
    <3>10. CASE PublishBoard(s) \/ Throw(s)
        BY <2>3, <3>10, AfterReturn
    <3> QED
        BY <2>3, <3>1, <3>2, <3>3, <3>4, <3>5, <3>6, <3>7, <3>8, <3>9, <3>10 DEF Acts, Step
  <2>4. ASSUME NEW s \in Slots, Acts(s), s # p
        PROVE  at'[p] = at[p] /\ call'[p] = call[p]
      BY <2>4, OthersWait
  <2>5. UNCHANGED vars => at'[p] = at[p] /\ call'[p] = call[p]
      BY DEF vars
  <2>6. UNCHANGED vars \/ \E s \in Slots : Acts(s)
      BY DEF Next, Acts
  <2> QED
      BY <2>2, <2>3, <2>4, <2>5, <2>6
<1> QED
    BY <1>1, <1>2, <1>3 DEF ChainInv, ChainBacked

\* No chain bonus without the solves that earn it, whatever calls overlap or fail
\* between their commands (scoring.ts, calculateScore and handleSubmission).
THEOREM EngineChainBacked == Spec => []ChainBacked
<1>1. Init => ChainInv
    BY DEF Init, ChainInv, ChainBacked, Solved
<1>2. TypeOK /\ ChainInv /\ [Next]_vars => ChainInv'
    BY ChainInvStep
<1>3. ChainInv => ChainBacked
    BY DEF ChainInv
<1> QED
    BY <1>1, <1>2, <1>3, EngineTypeCorrect, PTL DEF Spec
-----------------------------------------------------------------------------
(* The boards. *)

\* At most one score of a team for a challenge.
OneScore(b) == \A r, q \in b : SameField(r, q) => r = q

\* A board, or what is read of it so far, of the solves D.
Shows(b, D) == OneScore(b) /\ \A r \in b : SolveOf(r) \in D

\* The teams still to be read are not on what is read so far, so reading one of them
\* cannot add a second score.
BoardInv ==
    /\ OneScore(scores)
    /\ \A e \in Events : Shows(board[e], Solved)
    /\ \A s \in Slots : at[s] \in InScore \cup {"scan"} => call[s].snap = {}
    /\ \A s \in Slots : at[s] \in {"hgetall", "set", "publish"} => Shows(call[s].snap, Solved)
    /\ \A s \in Slots : at[s] = "hgetall" => \A r \in call[s].snap : r.team \notin call[s].keys

LEMMA ShowsLater ==
    ASSUME NEW D1, NEW D2, D1 \subseteq D2, NEW b, Shows(b, D1)
    PROVE  Shows(b, D2)
BY DEF Shows

\* What one HGETALL reads.
ScoresOf(e, t) == {r \in scores : r.event = e /\ r.team = t}

\* Reading the scores of one more team.
LEMMA ReadShows ==
    ASSUME OneScore(scores), NEW b, Shows(b, Solved), NEW t, NEW e, \A r \in b : r.team # t
    PROVE  Shows(b \cup ScoresOf(e, t), Solved)
<1> DEFINE read == ScoresOf(e, t)
<1>1. OneScore(b) /\ \A r \in b : SolveOf(r) \in Solved
    BY DEF Shows
<1>2. \A r \in read : SolveOf(r) \in Solved
    BY DEF Solved, ScoresOf
<1>3. \A r \in b, q \in read : ~SameField(r, q) /\ ~SameField(q, r)
    BY DEF SameField, ScoresOf
<1>4. OneScore(read)
    BY DEF OneScore, ScoresOf
<1> HIDE DEF read
<1>5. OneScore(b \cup read)
    BY <1>1, <1>3, <1>4 DEF OneScore
<1> QED
    BY <1>1, <1>2, <1>5 DEF Shows, read

LEMMA BoardInvStep ==
    ASSUME TypeOK, BoardInv, [Next]_vars
    PROVE  BoardInv'
<1> USE ScoringAssumption
<1>0. Solved \subseteq Solved'
    BY SolvedGrows
<1>1. OneScore(scores')
  <2>1. ASSUME NEW s \in Slots, StoreScore(s)
        PROVE  OneScore(scores')
    <3>1. scores' = {r \in scores : ~SameField(r, call[s])} \cup {ScoreOf(call[s])}
        BY <2>1 DEF StoreScore
    <3>2. \A r : SameField(r, ScoreOf(call[s])) <=> SameField(r, call[s])
        BY DEF SameField, ScoreOf
    <3>3. \A r : SameField(ScoreOf(call[s]), r) => SameField(r, call[s])
        BY DEF SameField, ScoreOf
    <3> QED
        BY <3>1, <3>2, <3>3 DEF OneScore, BoardInv
  <2>2. CASE scores' = scores
      BY <2>2 DEF BoardInv
  <2>3. scores' = scores \/ \E s \in Slots : StoreScore(s)
      BY DEF Next, vars, HandleSubmission, BroadcastLeaderboardUpdate, Step, Throw,
             CountPrerequisite, ClaimFirstBlood, RecordSolve, ScanScores, ReadScores,
             StoreBoard, PublishBoard
  <2> QED
      BY <2>1, <2>2, <2>3
<1>2. ASSUME NEW e \in Events
      PROVE  Shows(board'[e], Solved')
  <2>1. Shows(board[e], Solved')
      BY <1>0, ShowsLater DEF BoardInv
  <2>2. ASSUME NEW s \in Slots, StoreBoard(s)
        PROVE  Shows(board'[e], Solved')
    <3>1. Shows(call[s].snap, Solved')
        BY <1>0, <2>2, ShowsLater DEF BoardInv, StoreBoard
    <3>2. board'[e] = board[e] \/ board'[e] = call[s].snap
        BY <2>2 DEF StoreBoard, TypeOK
    <3> QED
        BY <2>1, <3>1, <3>2
  <2>3. board' = board \/ \E s \in Slots : StoreBoard(s)
      BY DEF Next, vars, HandleSubmission, BroadcastLeaderboardUpdate, Step, Throw,
             CountPrerequisite, ClaimFirstBlood, StoreScore, RecordSolve, ScanScores,
             ReadScores, PublishBoard
  <2> QED
      BY <2>1, <2>2, <2>3
<1>3. ASSUME NEW p \in Slots
      PROVE  /\ at'[p] \in InScore \cup {"scan"} => call'[p].snap = {}
             /\ at'[p] \in {"hgetall", "set", "publish"} => Shows(call'[p].snap, Solved')
             /\ at'[p] = "hgetall" => \A r \in call'[p].snap : r.team \notin call'[p].keys
  <2> DEFINE SlotOK ==
        /\ at'[p] \in InScore \cup {"scan"} => call'[p].snap = {}
        /\ at'[p] \in {"hgetall", "set", "publish"} => Shows(call'[p].snap, Solved')
        /\ at'[p] = "hgetall" => \A r \in call'[p].snap : r.team \notin call'[p].keys
  <2>1. ASSUME at'[p] = at[p], call'[p] = call[p]
        PROVE  SlotOK
      BY <1>0, <2>1, ShowsLater DEF BoardInv
  <2>2. ASSUME NEW s \in Slots, Acts(s), s = p
        PROVE  SlotOK
    <3> USE DEF InScore
    <3>1. CASE HandleSubmission(s)
      <4>1. PICK e \in Events, t \in Teams, c \in Challenges :
                /\ call'[p] = NewCall(e, t, c, Requires[c])
                /\ at'[p] \in {"setnx", "sismember"}
          BY <2>2, <3>1, AfterHandle
      <4>2. call'[p].snap = {}
          BY <4>1 DEF NewCall
      <4> QED
          BY <4>1, <4>2
    <3>2. CASE BroadcastLeaderboardUpdate(s)
        BY <2>2, <3>2, AfterBroadcast
    <3>3. CASE CountPrerequisite(s)
        BY <2>2, <3>3, AfterCount DEF CountPrerequisite, BoardInv
    <3>4. CASE ClaimFirstBlood(s)
        BY <2>2, <3>4, AfterClaim DEF BoardInv
    <3>5. CASE StoreScore(s)
        BY <2>2, <3>5, AfterStore DEF BoardInv
    <3>6. CASE RecordSolve(s)
        BY <2>2, <3>6, AfterRecord DEF BoardInv
    <3>7. CASE ScanScores(s)
      <4>1. at[p] = "scan" /\ at'[p] \in {"set", "hgetall"} /\ call'[p].snap = call[p].snap
          BY <2>2, <3>7, AfterScan
      <4>2. call'[p].snap = {}
          BY <4>1 DEF BoardInv
      <4> QED
          BY <4>1, <4>2 DEF Shows, OneScore
    <3>8. CASE ReadScores(s)
      <4>1. PICK t \in call[p].keys :
                /\ at'[p] = IF call[p].keys = {t} THEN "set" ELSE "hgetall"
                /\ call'[p].keys = call[p].keys \ {t}
                /\ call'[p].snap = call[p].snap
                       \cup {r \in scores : r.event = call[p].event /\ r.team = t}
          BY <2>2, <3>8, AfterRead
      <4>2. /\ Shows(call[p].snap, Solved)
            /\ \A r \in call[p].snap : r.team \notin call[p].keys
            /\ OneScore(scores)
          BY <2>2, <3>8, AfterRead DEF BoardInv
      <4>3. Shows(call[p].snap \cup ScoresOf(call[p].event, t), Solved)
        <5>1. \A r \in call[p].snap : r.team # t
            BY <4>2
        <5> QED
            BY <4>2, <5>1, ReadShows
      <4>4. Shows(call'[p].snap, Solved')
          BY <1>0, <4>1, <4>3, ShowsLater DEF ScoresOf
      <4>5. \A r \in call'[p].snap : r.team \notin call'[p].keys
          BY <4>1, <4>2
      <4> QED
          BY <4>1, <4>4, <4>5
    <3>9. CASE StoreBoard(s)
      <4>1. /\ at[p] = "set" /\ at'[p] \in {"publish", "idle"}
            /\ at'[p] = "publish" => call'[p] = call[p]
          BY <2>2, <3>9, AfterStoreBoard
      <4>2. Shows(call[p].snap, Solved')
          BY <1>0, <4>1, ShowsLater DEF BoardInv
      <4> QED
          BY <4>1, <4>2
    <3>10. CASE PublishBoard(s) \/ Throw(s)
        BY <2>2, <3>10, AfterReturn
    <3> QED
        BY <2>2, <3>1, <3>2, <3>3, <3>4, <3>5, <3>6, <3>7, <3>8, <3>9, <3>10 DEF Acts, Step
  <2>3. ASSUME NEW s \in Slots, Acts(s), s # p
        PROVE  at'[p] = at[p] /\ call'[p] = call[p]
      BY <2>3, OthersWait
  <2>4. UNCHANGED vars => at'[p] = at[p] /\ call'[p] = call[p]
      BY DEF vars
  <2>5. UNCHANGED vars \/ \E s \in Slots : Acts(s)
      BY DEF Next, Acts
  <2> QED
      BY <2>1, <2>2, <2>3, <2>4, <2>5
<1> QED
    BY <1>1, <1>2, <1>3 DEF BoardInv

\* A board read key by key while others write shows nothing that is not stored and
\* nothing twice (scoring.ts, recalculateLeaderboard).
THEOREM EngineBoardCountsStored == Spec => []BoardCountsStored
<1>1. Init => BoardInv
    BY DEF Init, BoardInv, Shows, OneScore, InScore
<1>2. TypeOK /\ BoardInv /\ [Next]_vars => BoardInv'
    BY BoardInvStep
<1>3. BoardInv => BoardCountsStored
  <2> SUFFICES ASSUME BoardInv, NEW b \in Boards
               PROVE  Shows(b, Solved)
      BY DEF BoardCountsStored, Shows, OneScore
  <2> QED
      BY DEF BoardInv, Boards
<1> QED
    BY <1>1, <1>2, <1>3, EngineTypeCorrect, PTL DEF Spec
-----------------------------------------------------------------------------
(* The board a submission leaves. *)

\* The solve a submission handles is stored, then its team is on the list of keys or
\* its score is read.
OwnInv ==
    \A s \in Slots :
        call[s].team # NoTeam =>
            /\ at[s] \in {"sadd", "scan", "hgetall"} => SolveOf(call[s]) \in Solved
            /\ at[s] = "hgetall" => \/ call[s].team \in call[s].keys
                                    \/ \E r \in call[s].snap : SameField(r, call[s])
            /\ at[s] = "set" => \E r \in call[s].snap : SameField(r, call[s])

\* A stored solve is found by whoever reads the scores of its team.
LEMMA StoredIsRead ==
    ASSUME NEW q, SolveOf(q) \in Solved
    PROVE  \E r \in scores : SameField(r, q)
BY DEF Solved, SolveOf, SameField

LEMMA OwnInvStep ==
    ASSUME TypeOK, OwnInv, [Next]_vars
    PROVE  OwnInv'
<1> USE ScoringAssumption
<1>0. Solved \subseteq Solved'
    BY SolvedGrows
<1> SUFFICES ASSUME NEW p \in Slots, call'[p].team # NoTeam
             PROVE  /\ at'[p] \in {"sadd", "scan", "hgetall"} => SolveOf(call'[p]) \in Solved'
                    /\ at'[p] = "hgetall" => \/ call'[p].team \in call'[p].keys
                                             \/ \E r \in call'[p].snap : SameField(r, call'[p])
                    /\ at'[p] = "set" => \E r \in call'[p].snap : SameField(r, call'[p])
    BY DEF OwnInv
<1> DEFINE OwnOK ==
        /\ at'[p] \in {"sadd", "scan", "hgetall"} => SolveOf(call'[p]) \in Solved'
        /\ at'[p] = "hgetall" => \/ call'[p].team \in call'[p].keys
                                 \/ \E r \in call'[p].snap : SameField(r, call'[p])
        /\ at'[p] = "set" => \E r \in call'[p].snap : SameField(r, call'[p])
<1>1. ASSUME at'[p] = at[p], call'[p] = call[p]
      PROVE  OwnOK
    BY <1>0, <1>1 DEF OwnInv
<1>2. ASSUME NEW s \in Slots, Acts(s), s = p
      PROVE  OwnOK
  <2>1. CASE HandleSubmission(s)
      BY <1>2, <2>1, AfterHandle
  <2>2. CASE BroadcastLeaderboardUpdate(s)
      BY <1>2, <2>2, AfterBroadcast
  <2>3. CASE CountPrerequisite(s)
      BY <1>2, <2>3, AfterCount
  <2>4. CASE ClaimFirstBlood(s)
      BY <1>2, <2>4, AfterClaim
  <2>5. CASE StoreScore(s)
    <3>1. at'[p] = "sadd" /\ call'[p] = call[p]
        BY <1>2, <2>5, AfterStore
    <3>2. SolveOf(call[p]) \in Solved'
        BY <1>2, <2>5, StoreRecords
    <3>3. SolveOf(call'[p]) = SolveOf(call[p])
        BY <3>1
    <3> QED
        BY <3>1, <3>2, <3>3
  <2>6. CASE RecordSolve(s)
      BY <1>0, <1>2, <2>6, AfterRecord DEF OwnInv
  <2>7. CASE ScanScores(s)
    <3>1. /\ at[p] = "scan"
          /\ at'[p] = IF TeamsScored(call[p].event) = {} THEN "set" ELSE "hgetall"
          /\ call'[p].keys = TeamsScored(call[p].event)
          /\ SameSolve(call'[p], call[p])
        BY <1>2, <2>7, AfterScan
    <3>2. SolveOf(call[p]) \in Solved /\ SolveOf(call'[p]) = SolveOf(call[p])
          /\ call'[p].team = call[p].team
        BY <3>1 DEF OwnInv, SameSolve, SolveOf
    <3>3. call[p].team \in TeamsScored(call[p].event)
        BY <3>2, StoredIsRead DEF TeamsScored, SameField
    <3>4. at'[p] = "hgetall" /\ call'[p].team \in call'[p].keys
        BY <3>1, <3>2, <3>3
    <3>5. SolveOf(call'[p]) \in Solved'
        BY <1>0, <3>2
    <3> QED
        BY <3>4, <3>5
  <2>8. CASE ReadScores(s)
    <3>1. PICK t \in call[p].keys :
              /\ at'[p] = IF call[p].keys = {t} THEN "set" ELSE "hgetall"
              /\ call'[p].keys = call[p].keys \ {t}
              /\ call'[p].snap = call[p].snap
                     \cup {r \in scores : r.event = call[p].event /\ r.team = t}
        BY <1>2, <2>8, AfterRead
    <3>2. at[p] = "hgetall" /\ SameSolve(call'[p], call[p])
        BY <1>2, <2>8, AfterRead
    <3>3. /\ SolveOf(call[p]) \in Solved /\ SolveOf(call'[p]) = SolveOf(call[p])
          /\ call'[p].team = call[p].team
          /\ \A r : SameField(r, call[p]) => SameField(r, call'[p])
        BY <3>2 DEF OwnInv, SameSolve, SolveOf, SameField
    <3>4. \/ call'[p].team \in call'[p].keys
          \/ \E r \in call'[p].snap : SameField(r, call'[p])
      <4>1. CASE \E r \in call[p].snap : SameField(r, call[p])
        <5>1. PICK r \in call[p].snap : SameField(r, call[p])
            BY <4>1
        <5>2. r \in call'[p].snap /\ SameField(r, call'[p])
            BY <3>1, <3>3, <5>1
        <5> QED
            BY <5>2
      <4>2. CASE call[p].team \in call[p].keys /\ call[p].team # t
          BY <3>1, <3>3, <4>2
      <4>3. CASE call[p].team = t
        <5>1. PICK r \in scores : SameField(r, call[p])
            BY <3>3, StoredIsRead
        <5>2. r \in call'[p].snap
            BY <3>1, <4>3, <5>1 DEF SameField
        <5> QED
            BY <3>3, <5>1, <5>2
      <4> QED
          BY <3>2, <3>3, <4>1, <4>2, <4>3 DEF OwnInv
    <3>5. at'[p] = "set" => call'[p].keys = {}
        BY <3>1
    <3>6. SolveOf(call'[p]) \in Solved'
        BY <1>0, <3>3
    <3> QED
        BY <3>1, <3>4, <3>5, <3>6
  <2>9. CASE StoreBoard(s)
      BY <1>2, <2>9, AfterStoreBoard
  <2>10. CASE PublishBoard(s) \/ Throw(s)
      BY <1>2, <2>10, AfterReturn
  <2> QED
      BY <1>2, <2>1, <2>2, <2>3, <2>4, <2>5, <2>6, <2>7, <2>8, <2>9, <2>10 DEF Acts, Step
<1>3. ASSUME NEW s \in Slots, Acts(s), s # p
      PROVE  at'[p] = at[p] /\ call'[p] = call[p]
    BY <1>3, OthersWait
<1>4. UNCHANGED vars => at'[p] = at[p] /\ call'[p] = call[p]
    BY DEF vars
<1>5. UNCHANGED vars \/ \E s \in Slots : Acts(s)
    BY DEF Next, Acts
<1> QED
    BY <1>1, <1>2, <1>3, <1>4, <1>5

\* A submission's own solve is on the board it leaves (scoring.ts, handleSubmission).
THEOREM EngineOwnSolveOnBoard == Spec => []OwnSolveOnBoard
<1>1. Init => OwnInv
    BY DEF Init, OwnInv
<1>2. TypeOK /\ OwnInv /\ [Next]_vars => OwnInv'
    BY OwnInvStep
<1>3. OwnInv => OwnSolveOnBoard
    BY DEF OwnInv, OwnSolveOnBoard
<1> QED
    BY <1>1, <1>2, <1>3, EngineTypeCorrect, PTL DEF Spec
=============================================================================
