-------------------------- MODULE SubmissionProofs --------------------------
(***************************************************************************)
(* Proofs about SubmissionService for every value of its constants, in     *)
(* particular any number of slots, requests, users, teams and challenges.  *)
(***************************************************************************)
EXTENDS SubmissionSafety, CheckThenAct, WellFoundedInduction

\* Which part of a step touches what: an event step leaves the slots alone, and
\* every other step leaves the events alone.
LEMMA SubVarsUnchanged ==
    ASSUME TypeOK, EventsNext, UNCHANGED subVars
    PROVE  TypeOK'
<1>1. EventsTypeOK'
  <2> USE DEF TypeOK, EventsTypeOK, SetStatus, Status
  <2>1. PICK e \in Events :
            \/ CreateEvent(e) \/ StartEvent(e) \/ EndEvent(e) \/ DeleteEvent(e)
            \/ \E t \in Teams : \/ BeginRegistration(e, t)
                                \/ CommitRegistration(e, t)
                                \/ GiveUpRegistration(e, t)
      BY DEF EventsNext
  <2>2. CASE CreateEvent(e) \/ StartEvent(e) \/ EndEvent(e) \/ DeleteEvent(e)
      BY <2>2 DEF CreateEvent, StartEvent, EndEvent, DeleteEvent
  <2>3. ASSUME NEW t \in Teams,
               BeginRegistration(e, t) \/ CommitRegistration(e, t) \/ GiveUpRegistration(e, t)
        PROVE  EventsTypeOK'
      BY <2>3 DEF BeginRegistration, CommitRegistration, GiveUpRegistration
  <2> QED
      BY <2>1, <2>2, <2>3
<1> QED
    BY <1>1 DEF TypeOK, subVars

\* Ending a request restores the idle slot.
LEMMA FinishType ==
    ASSUME TypeOK, NEW s \in Slots, Finish(s), UNCHANGED <<clock, rows, eventVars>>,
           cache' \subseteq Row
    PROVE  TypeOK'
<1>1. /\ pc' \in [Slots -> PC]
      /\ req' \in [Slots -> Request \cup {NoRequest}]
      /\ snap' \in [Slots -> SUBSET Row]
    BY DEF TypeOK, Finish, Goto, PC
<1>2. EventsTypeOK'
    BY DEF TypeOK, EventsTypeOK, eventVars
<1>3. \A i \in Slots : pc'[i] \in {"event", "cap"} \cup PastCap => req'[i] # NoRequest
    BY DEF TypeOK, Finish, Goto, PastCap
<1>4. \A i \in Slots : pc'[i] # "publish" => snap'[i] = {}
    BY DEF TypeOK, Finish, Goto
<1> QED
    BY <1>1, <1>2, <1>3, <1>4 DEF TypeOK

\* So does moving a slot on inside its request, which may update its fields.
LEMMA MoveType ==
    ASSUME TypeOK, NEW s \in Slots, NEW label \in PC, Goto(s, label),
           pc[s] # "publish", label # "publish", req[s] # NoRequest,
           NEW q \in Request, req' = [req EXCEPT ![s] = q],
           UNCHANGED <<clock, rows, snap, cache, eventVars>>
    PROVE  TypeOK'
<1>1. /\ pc' \in [Slots -> PC]
      /\ req' \in [Slots -> Request \cup {NoRequest}]
    BY DEF TypeOK, Goto
<1>2. EventsTypeOK'
    BY DEF TypeOK, EventsTypeOK, eventVars
<1>3. \A i \in Slots : pc'[i] \in {"event", "cap"} \cup PastCap => req'[i] # NoRequest
    BY ConstantsAssumption DEF TypeOK, Goto, PastCap
<1>4. \A i \in Slots : pc'[i] # "publish" => snap'[i] = {}
    BY DEF TypeOK, Goto
<1> QED
    BY <1>1, <1>2, <1>3, <1>4 DEF TypeOK

LEMMA TypeStep ==
    ASSUME TypeOK, [Next]_vars
    PROVE  TypeOK'
<1>1. CASE UNCHANGED vars
    BY <1>1 DEF TypeOK, EventsTypeOK, vars
<1>2. CASE EventsNext /\ UNCHANGED subVars
    BY <1>2, SubVarsUnchanged
<1>3. ASSUME NEW s \in Slots, Begin(s)
      PROVE  TypeOK'
  <2>1. PICK i \in Inputs : req' = [req EXCEPT ![s] = NewRequest(i)]
      BY <1>3 DEF Begin
  <2>2. NewRequest(i) \in Request
      BY ConstantsAssumption DEF NewRequest, Request, TypeOK
  <2>3. pc' \in [Slots -> PC] /\ req' \in [Slots -> Request \cup {NoRequest}]
      BY <1>3, <2>1, <2>2 DEF TypeOK, Begin, Goto, PC
  <2>4. \A j \in Slots : pc'[j] \in {"event", "cap"} \cup PastCap => req'[j] # NoRequest
      BY <1>3, <2>1, <2>2, ConstantsAssumption DEF TypeOK, Begin, Goto
  <2>5. \A j \in Slots : pc'[j] # "publish" => snap'[j] = {}
      BY <1>3 DEF TypeOK, Begin, Goto
  <2> QED
      BY <1>3, <2>3, <2>4, <2>5 DEF TypeOK, EventsTypeOK, Begin, eventVars
<1>4. ASSUME NEW s \in Slots, ReadActiveEvent(s)
      PROVE  TypeOK'
  <2>1. CASE Finish(s)
      BY <1>4, <2>1, FinishType DEF ReadActiveEvent, TypeOK
  <2>2. CASE Goto(s, "cap") /\ UNCHANGED <<req, snap>>
    <3>1. req[s] \in Request /\ req' = [req EXCEPT ![s] = req[s]]
        BY <1>4, <2>2 DEF ReadActiveEvent, TypeOK, PastCap
    <3> QED
        BY <1>4, <2>2, <3>1, MoveType, ConstantsAssumption DEF ReadActiveEvent, PC
  <2>3. ASSUME NEW e \in Events, req' = [req EXCEPT ![s].event = e], Goto(s, "cap"),
               UNCHANGED snap
        PROVE  TypeOK'
    <3>1. req[s] \in Request
        BY <1>4 DEF ReadActiveEvent, TypeOK, PastCap
    <3> DEFINE q == [req[s] EXCEPT !.event = e]
    <3>2. q \in Request /\ req' = [req EXCEPT ![s] = q]
        BY <2>3, <3>1 DEF Request
    <3> QED
        BY <1>4, <2>3, <3>1, <3>2, MoveType, ConstantsAssumption DEF ReadActiveEvent, PC
  <2> QED
      BY <1>4, <2>1, <2>2, <2>3 DEF ReadActiveEvent
<1>5. ASSUME NEW s \in Slots, CheckAttempts(s)
      PROVE  TypeOK'
  <2>1. CASE Finish(s)
      BY <1>5, <2>1, FinishType DEF CheckAttempts, TypeOK
  <2>2. CASE Goto(s, "solved") /\ UNCHANGED <<req, snap>>
    <3>1. req[s] \in Request /\ req' = [req EXCEPT ![s] = req[s]]
        BY <1>5, <2>2 DEF CheckAttempts, TypeOK, PastCap
    <3> QED
        BY <1>5, <2>2, <3>1, MoveType, ConstantsAssumption DEF CheckAttempts, PC
  <2> QED
      BY <1>5, <2>1, <2>2 DEF CheckAttempts
<1>6. ASSUME NEW s \in Slots, CheckSolved(s)
      PROVE  TypeOK'
  <2>1. CASE Finish(s)
      BY <1>6, <2>1, FinishType DEF CheckSolved, TypeOK
  <2>2. ASSUME NEW label \in {"blood", "insert", "deps"}, Goto(s, label),
               UNCHANGED <<req, snap>>
        PROVE  TypeOK'
    <3>1. req[s] \in Request /\ req' = [req EXCEPT ![s] = req[s]]
        BY <1>6, <2>2 DEF CheckSolved, TypeOK, PastCap
    <3> QED
        BY <1>6, <2>2, <3>1, MoveType, ConstantsAssumption DEF CheckSolved, PC
  <2> QED
      BY <1>6, <2>1, <2>2 DEF CheckSolved, AfterDependencies
<1>7. ASSUME NEW s \in Slots, CheckDependency(s)
      PROVE  TypeOK'
  <2>1. CASE Finish(s)
      BY <1>7, <2>1, FinishType DEF CheckDependency, TypeOK
  <2>2. ASSUME NEW c \in req[s].todo, NEW label \in {"deps", "blood", "insert"},
               Goto(s, label), req' = [req EXCEPT ![s].todo = @ \ {c}], UNCHANGED snap
        PROVE  TypeOK'
    <3>1. req[s] \in Request
        BY <1>7 DEF CheckDependency, TypeOK, PastCap
    <3> DEFINE q == [req[s] EXCEPT !.todo = @ \ {c}]
    <3>2. q \in Request /\ req' = [req EXCEPT ![s] = q]
        BY <2>2, <3>1 DEF Request
    <3> QED
        BY <1>7, <2>2, <3>1, <3>2, MoveType, ConstantsAssumption DEF CheckDependency, PC
  <2>3. UNCHANGED pc => Goto(s, "deps")
      BY <1>7 DEF CheckDependency, Goto, TypeOK
  <2> QED
      BY <1>7, <2>1, <2>2, <2>3 DEF CheckDependency, AfterDependencies
<1>8. ASSUME NEW s \in Slots, ReadFirstBlood(s)
      PROVE  TypeOK'
  <2>1. req[s] \in Request
      BY <1>8 DEF ReadFirstBlood, TypeOK, PastCap
  <2> DEFINE q == [req[s] EXCEPT !.blood = IsFirstBlood(req[s])]
  <2>2. q \in Request /\ req' = [req EXCEPT ![s] = q]
      BY <1>8, <2>1 DEF Request, ReadFirstBlood, IsFirstBlood
  <2> QED
      BY <1>8, <2>1, <2>2, MoveType, ConstantsAssumption DEF ReadFirstBlood, PC
<1>9. ASSUME NEW s \in Slots, Insert(s)
      PROVE  TypeOK'
  <2>1. req[s] \in Request
      BY <1>9 DEF Insert, TypeOK, PastCap
  <2>2. rows' \subseteq Row
      BY <1>9, <2>1 DEF Insert, TypeOK, NewRow, Row, Request
  <2>3. CASE Goto(s, "recalc") /\ UNCHANGED <<req, snap>>
      BY <1>9, <2>2, <2>3 DEF Insert, TypeOK, EventsTypeOK, eventVars, Goto, PC, PastCap
  <2>4. CASE Finish(s)
    <3>1. /\ pc' \in [Slots -> PC]
          /\ req' \in [Slots -> Request \cup {NoRequest}]
          /\ snap' \in [Slots -> SUBSET Row]
        BY <2>4 DEF TypeOK, Finish, Goto, PC
    <3>2. \A i \in Slots : pc'[i] \in {"event", "cap"} \cup PastCap => req'[i] # NoRequest
        BY <2>4 DEF TypeOK, Finish, Goto, PastCap
    <3>3. \A i \in Slots : pc'[i] # "publish" => snap'[i] = {}
        BY <2>4 DEF TypeOK, Finish, Goto
    <3> QED
        BY <1>9, <2>2, <3>1, <3>2, <3>3 DEF Insert, TypeOK, EventsTypeOK, eventVars
  <2> QED
      BY <1>9, <2>3, <2>4 DEF Insert
<1>10. ASSUME NEW s \in Slots, Recalculate(s)
       PROVE  TypeOK'
  <2>1. Board(BoardEvent(s)) \in SUBSET Row
      BY DEF Board, FirstSolves, Counted, TypeOK
  <2>2. pc' \in [Slots -> PC] /\ snap' \in [Slots -> SUBSET Row]
      BY <1>10, <2>1 DEF Recalculate, TypeOK, Goto, PC
  <2>3. \A i \in Slots : pc'[i] \in {"event", "cap"} \cup PastCap => req'[i] # NoRequest
      BY <1>10 DEF TypeOK, Recalculate, Goto, PastCap
  <2>4. \A i \in Slots : pc'[i] # "publish" => snap'[i] = {}
      BY <1>10 DEF TypeOK, Recalculate, Goto
  <2> QED
      BY <1>10, <2>2, <2>3, <2>4 DEF Recalculate, TypeOK, EventsTypeOK, eventVars
<1>11. ASSUME NEW s \in Slots, Publish(s)
       PROVE  TypeOK'
    BY <1>11, FinishType DEF Publish, TypeOK
<1>12. ASSUME NEW s \in Slots, Abort(s)
       PROVE  TypeOK'
    BY <1>12, FinishType DEF Abort, TypeOK
<1>13. ASSUME NEW s \in Slots, StartRecalculation(s)
       PROVE  TypeOK'
    BY <1>13 DEF StartRecalculation, TypeOK, EventsTypeOK, eventVars, Goto, PC, PastCap
<1> QED
    BY <1>1, <1>2, <1>3, <1>4, <1>5, <1>6, <1>7, <1>8, <1>9, <1>10, <1>11, <1>12, <1>13
    DEF Next, SlotStep, GetLeaderboard, GetTeamLeaderboard

\* The types of the variables are an invariant: requests, rows and boards stay
\* well formed whatever the slots and the administrators do.
THEOREM TypeCorrect == Spec => []TypeOK
<1>1. Init => TypeOK
    BY DEF Init, EventsInit, TypeOK, EventsTypeOK, PC, PastCap, Status
<1>2. TypeOK /\ [Next]_vars => TypeOK'
    BY TypeStep
<1> QED
    BY <1>1, <1>2, PTL DEF Spec
-----------------------------------------------------------------------------
(* What one step does to a request and to the table *)

\* A request that is not answered by a step keeps what was submitted.
SameSubmission(s) ==
    /\ req'[s].user = req[s].user
    /\ req'[s].team = req[s].team
    /\ req'[s].chal = req[s].chal
    /\ req'[s].correct = req[s].correct
    /\ req'[s].at = req[s].at

LEMMA RequestStable ==
    ASSUME TypeOK, [Next]_vars, NEW s \in Slots, pc[s] # "idle", pc'[s] # "idle"
    PROVE  SameSubmission(s)
<1> USE DEF SameSubmission
<1>1. CASE UNCHANGED req
    BY <1>1
<1>2. ASSUME NEW i \in Slots, Finish(i)
      PROVE  SameSubmission(s)
    BY <1>2 DEF Finish, Goto, TypeOK
<1>3. ASSUME NEW i \in Slots, Begin(i)
      PROVE  SameSubmission(s)
    BY <1>3 DEF Begin, TypeOK
<1>4. ASSUME NEW i \in Slots, NEW e \in Events, pc[i] = "event",
             req' = [req EXCEPT ![i].event = e]
      PROVE  SameSubmission(s)
    BY <1>4 DEF TypeOK, PastCap, Request
<1>5. ASSUME NEW i \in Slots, NEW c, pc[i] = "deps", req' = [req EXCEPT ![i].todo = @ \ {c}]
      PROVE  SameSubmission(s)
    BY <1>5 DEF TypeOK, PastCap, Request
<1>6. ASSUME NEW i \in Slots, ReadFirstBlood(i)
      PROVE  SameSubmission(s)
    BY <1>6 DEF ReadFirstBlood, TypeOK, PastCap, Request
<1> QED
    BY <1>1, <1>2, <1>3, <1>4, <1>5, <1>6
    DEF Next, SlotStep, vars, subVars, ReadActiveEvent, CheckAttempts, CheckSolved,
        CheckDependency, Insert, Recalculate, Publish, Abort, StartRecalculation,
        GetLeaderboard, GetTeamLeaderboard

\* Rows are only ever added, and only by the INSERT of a slot.
LEMMA RowsStep ==
    ASSUME TypeOK, [Next]_vars
    PROVE  \/ rows' = rows
           \/ \E s \in Slots : Insert(s)
BY DEF Next, SlotStep, vars, subVars, Begin, ReadActiveEvent, CheckAttempts, CheckSolved,
       CheckDependency, ReadFirstBlood, Recalculate, Publish, Abort, StartRecalculation,
       GetLeaderboard, GetTeamLeaderboard

\* How a slot gets to each of the later statements of its request.
PcReached(s) ==
    /\ pc'[s] = "event" => pc[s] = "event" \/ Begin(s)
    /\ pc'[s] = "cap" => pc[s] = "cap" \/ ReadActiveEvent(s)
    /\ pc'[s] = "solved" => pc[s] = "solved" \/ (CheckAttempts(s) /\ ~AtCap(req[s]))
    /\ pc'[s] = "deps" => pc[s] = "deps" \/ (CheckSolved(s) /\ ~AlreadySolved(req[s]))
    /\ pc'[s] = "blood" =>
          \/ pc[s] = "blood"
          \/ CheckSolved(s) /\ ~AlreadySolved(req[s])
          \/ CheckDependency(s)
    /\ pc'[s] = "insert" =>
          \/ pc[s] = "insert"
          \/ CheckSolved(s) /\ ~AlreadySolved(req[s])
          \/ CheckDependency(s)
          \/ ReadFirstBlood(s)

LEMMA PcStep ==
    ASSUME TypeOK, [Next]_vars, NEW s \in Slots
    PROVE  PcReached(s)
<1>1. CASE UNCHANGED pc
    BY <1>1 DEF PcReached
<1>2. ASSUME NEW i \in Slots, NEW label, Goto(i, label)
      PROVE  pc'[s] = IF i = s THEN label ELSE pc[s]
    BY <1>2 DEF Goto, TypeOK
<1>3. ASSUME NEW i \in Slots, Finish(i)
      PROVE  PcReached(s)
    BY <1>2, <1>3 DEF Finish, PcReached
<1>4. ASSUME NEW i \in Slots, Begin(i)
      PROVE  PcReached(s)
  <2>1. Goto(i, "event")
      BY <1>4 DEF Begin
  <2> QED
      BY <1>2, <1>4, <2>1 DEF PcReached
<1>5. ASSUME NEW i \in Slots, ReadActiveEvent(i), Goto(i, "cap")
      PROVE  PcReached(s)
    BY <1>2, <1>5 DEF PcReached
<1>6. ASSUME NEW i \in Slots, CheckAttempts(i), Goto(i, "solved"), ~AtCap(req[i])
      PROVE  PcReached(s)
    BY <1>2, <1>6 DEF PcReached
<1>7. ASSUME NEW i \in Slots, NEW label \in {"deps", "blood", "insert"},
             CheckSolved(i), Goto(i, label), ~AlreadySolved(req[i])
      PROVE  PcReached(s)
    BY <1>2, <1>7 DEF PcReached
<1>8. ASSUME NEW i \in Slots, NEW label \in {"blood", "insert"},
             CheckDependency(i), Goto(i, label)
      PROVE  PcReached(s)
    BY <1>2, <1>8 DEF PcReached
<1>9. ASSUME NEW i \in Slots, ReadFirstBlood(i)
      PROVE  PcReached(s)
  <2>1. Goto(i, "insert")
      BY <1>9 DEF ReadFirstBlood
  <2> QED
      BY <1>2, <1>9, <2>1 DEF PcReached
<1>10. ASSUME NEW i \in Slots, NEW label \in {"recalc", "publish"}, Goto(i, label)
       PROVE  PcReached(s)
    BY <1>2, <1>10 DEF PcReached
<1>11. ASSUME NEW i \in Slots, CheckAttempts(i)
       PROVE  PcReached(s)
    BY <1>3, <1>6, <1>11 DEF CheckAttempts
<1>12. ASSUME NEW i \in Slots, CheckSolved(i)
       PROVE  PcReached(s)
  <2>1. CASE Finish(i)
      BY <2>1, <1>3
  <2>2. CASE ~AlreadySolved(req[i]) /\ \E label \in {"deps", "blood", "insert"} : Goto(i, label)
      BY <2>2, <1>12, <1>7
  <2> QED
      BY <2>1, <2>2, <1>12 DEF CheckSolved, AfterDependencies
<1>13. ASSUME NEW i \in Slots, CheckDependency(i)
       PROVE  PcReached(s)
  <2>1. CASE Finish(i)
      BY <2>1, <1>3
  <2>2. CASE \E label \in {"blood", "insert"} : Goto(i, label)
      BY <2>2, <1>13, <1>8
  <2> QED
      BY <2>1, <2>2, <1>1, <1>13 DEF CheckDependency, AfterDependencies
<1>14. ASSUME NEW i \in Slots, SlotStep(i)
       PROVE  PcReached(s)
    BY <1>3, <1>5, <1>9, <1>10, <1>11, <1>12, <1>13, <1>14
    DEF SlotStep, ReadActiveEvent, Insert, Recalculate, Publish
<1> QED
    BY <1>1, <1>3, <1>4, <1>10, <1>14
    DEF Next, vars, subVars, Abort, StartRecalculation, GetLeaderboard, GetTeamLeaderboard

InFlight == {"event", "cap"} \cup PastCap

LEMMA InFlightStep ==
    ASSUME TypeOK, [Next]_vars, NEW s \in Slots, pc'[s] \in InFlight, ~Begin(s)
    PROVE  /\ pc[s] \in InFlight
           /\ SameSubmission(s)
<1>1. pc[s] \in InFlight
    BY PcStep DEF PcReached, InFlight, PastCap, ReadActiveEvent, CheckAttempts, CheckSolved,
                  CheckDependency, ReadFirstBlood
<1> QED
    BY <1>1, RequestStable DEF InFlight, PastCap
-----------------------------------------------------------------------------
(* Chain discipline *)

Supported(c, q) == \E r \in rows : r.chal = c /\ r.correct /\ Matches(r, q)

\* The prerequisites left to check only change at a dependency check.
LEMMA TodoStep ==
    ASSUME TypeOK, [Next]_vars, NEW s \in Slots, pc[s] \in InFlight, pc'[s] \in InFlight,
           req'[s].todo # req[s].todo
    PROVE  \E d \in req[s].todo :
              /\ Cardinality(SolvesSeen(req[s], d)) = 1
              /\ req' = [req EXCEPT ![s].todo = @ \ {d}]
<1> DEFINE Goal == \E d \in req[s].todo :
                      /\ Cardinality(SolvesSeen(req[s], d)) = 1
                      /\ req' = [req EXCEPT ![s].todo = @ \ {d}]
<1>1. CASE UNCHANGED req
    BY <1>1
<1>2. ASSUME NEW i \in Slots, Finish(i)
      PROVE  Goal
    BY <1>2 DEF Finish, Goto, TypeOK, InFlight, PastCap
<1>3. ASSUME NEW i \in Slots, Begin(i)
      PROVE  Goal
    BY <1>3 DEF Begin, TypeOK, InFlight, PastCap
<1>4. ASSUME NEW i \in Slots, NEW e \in Events, pc[i] = "event",
             req' = [req EXCEPT ![i].event = e]
      PROVE  Goal
    BY <1>4 DEF TypeOK, PastCap, Request
<1>5. ASSUME NEW i \in Slots, ReadFirstBlood(i)
      PROVE  Goal
    BY <1>5 DEF ReadFirstBlood, TypeOK, PastCap, Request
<1>6. ASSUME NEW i \in Slots, CheckDependency(i)
      PROVE  Goal
  <2>1. CASE Finish(i)
      BY <2>1, <1>2
  <2>2. ASSUME NEW d \in req[i].todo, Cardinality(SolvesSeen(req[i], d)) = 1,
               req' = [req EXCEPT ![i].todo = @ \ {d}]
        PROVE  Goal
    <3>1. i = s
        BY <2>2, <1>6 DEF TypeOK
    <3> QED
        BY <2>2, <3>1
  <2> QED
      BY <1>6, <2>1, <2>2 DEF CheckDependency
<1> QED
    BY <1>1, <1>2, <1>3, <1>4, <1>5, <1>6
    DEF Next, SlotStep, vars, subVars, ReadActiveEvent, CheckAttempts, CheckSolved,
        Insert, Recalculate, Publish, Abort, StartRecalculation,
        GetLeaderboard, GetTeamLeaderboard

\* A request past the dependency checks has none left.
LEMMA TodoDone ==
    ASSUME TypeOK, [Next]_vars, NEW s \in Slots, pc'[s] \in {"blood", "insert"},
           pc[s] \in {"blood", "insert"} => req[s].todo = {}
    PROVE  req'[s].todo = {}
<1>1. CASE pc[s] \in {"blood", "insert"}
    BY <1>1, TodoStep DEF InFlight, PastCap
<1>2. CASE CheckSolved(s) /\ pc[s] = "solved"
  <2>1. req[s].todo = {} /\ UNCHANGED req
      BY <1>2 DEF CheckSolved, Finish, Goto, TypeOK
  <2> QED
      BY <2>1
<1>3. CASE CheckDependency(s) /\ pc[s] = "deps"
  <2>1. PICK d \in req[s].todo :
            /\ req' = [req EXCEPT ![s].todo = @ \ {d}]
            /\ IF req[s].todo = {d} THEN AfterDependencies(s) ELSE UNCHANGED pc
      BY <1>3 DEF CheckDependency, Finish, Goto, TypeOK
  <2>2. req[s].todo = {d} /\ req[s] \in Request
      BY <1>3, <2>1 DEF TypeOK, PastCap
  <2> QED
      BY <2>1, <2>2 DEF TypeOK, Request
<1> QED
    BY <1>1, <1>2, <1>3, PcStep
    DEF PcReached, CheckSolved, CheckDependency, ReadFirstBlood

\* A request has a solve for every prerequisite it has ticked off, and has ticked
\* off all of them when it gets past the dependency checks.
ChainInv ==
    /\ ChainDiscipline
    /\ \A s \in Slots : pc[s] \in InFlight =>
          \A c \in Requires[req[s].chal] \ req[s].todo : Supported(c, req[s])
    /\ \A s \in Slots : pc[s] \in {"blood", "insert"} => req[s].todo = {}

LEMMA ChainStep ==
    ASSUME TypeOK, ChainInv, [Next]_vars
    PROVE  ChainInv'
<1>1. rows \subseteq rows'
    BY RowsStep DEF Insert
<1>2. ASSUME NEW c, NEW q, Supported(c, q)
      PROVE  \E r \in rows' : r.chal = c /\ r.correct /\ Matches(r, q)
    BY <1>1, <1>2 DEF Supported
<1>3. ChainDiscipline'
  <2>1. CASE rows' = rows
      BY <2>1 DEF ChainInv, ChainDiscipline, Matches
  <2>2. ASSUME NEW s \in Slots, Insert(s)
        PROVE  ChainDiscipline'
    <3>1. \A c \in Requires[req[s].chal] : Supported(c, req[s])
        BY <2>2 DEF ChainInv, Insert, InFlight, PastCap
    <3>2. \A c \in Requires[NewRow(req[s]).chal] :
              \E r \in rows' : r.chal = c /\ r.correct /\ Matches(r, NewRow(req[s]))
        BY <3>1, <1>1 DEF NewRow, Supported, Matches
    <3>3. rows' = rows \cup {NewRow(req[s])}
        BY <2>2 DEF Insert
    <3>4. \A r \in rows : \A c \in Requires[r.chal] :
              \E q \in rows' : q.chal = c /\ q.correct /\ Matches(q, r)
        BY <1>1 DEF ChainInv, ChainDiscipline
    <3> QED
        BY <3>2, <3>3, <3>4 DEF ChainDiscipline, Matches
  <2> QED
      BY <2>1, <2>2, RowsStep
<1>4. ASSUME NEW s \in Slots, pc'[s] \in InFlight, NEW c \in Requires[req'[s].chal] \ req'[s].todo
      PROVE  Supported(c, req[s])'
  <2>1. CASE Begin(s)
      BY <2>1, <1>4 DEF Begin, NewRequest, TypeOK
  <2>2. CASE ~Begin(s)
    <3>1. pc[s] \in InFlight /\ SameSubmission(s)
        BY <2>2, <1>4, InFlightStep
    <3>2. CASE c \notin req[s].todo
      <4>1. Supported(c, req[s])
          BY <3>1, <3>2, <1>4 DEF ChainInv, SameSubmission
      <4> QED
          BY <4>1, <1>2, <3>1 DEF Supported, Matches, SameSubmission
    <3>3. CASE c \in req[s].todo
      <4>1. SolvesSeen(req[s], c) # {}
        <5>1. req'[s].todo # req[s].todo
            BY <3>3, <1>4
        <5>2. PICK d \in req[s].todo :
                  /\ Cardinality(SolvesSeen(req[s], d)) = 1
                  /\ req' = [req EXCEPT ![s].todo = @ \ {d}]
            BY <5>1, TodoStep, <2>2, <1>4, <3>1
        <5>3. c = d
            BY <5>2, <3>3, <1>4, <3>1 DEF TypeOK, InFlight, Request
        <5> QED
            BY <5>2, <5>3, FS_EmptySet
      <4> QED
          BY <4>1, <1>1, <3>1 DEF SolvesSeen, Supported, Matches, SameSubmission
    <3> QED
        BY <3>2, <3>3
  <2> QED
      BY <2>1, <2>2
<1>5. ASSUME NEW s \in Slots, pc'[s] \in {"blood", "insert"}
      PROVE  req'[s].todo = {}
    BY <1>5, TodoDone DEF ChainInv
<1> QED
    BY <1>3, <1>4, <1>5 DEF ChainInv

\* No attempt is recorded before the prerequisites of its challenge are solved in
\* its own scope, for any interleaving of any number of requests.
THEOREM ChainDisciplineHolds == Spec => []ChainDiscipline
<1>1. Init => ChainInv
    BY DEF Init, ChainInv, ChainDiscipline, InFlight, PastCap
<1>2. TypeOK /\ ChainInv /\ [Next]_vars => ChainInv'
    BY ChainStep
<1>3. ChainInv => ChainDiscipline
    BY DEF ChainInv
<1> QED
    BY <1>1, <1>2, <1>3, TypeCorrect, PTL DEF Spec
-----------------------------------------------------------------------------
(* First blood *)

\* As long as a challenge is unsolved, whoever is about to insert a solve of it has
\* been told that it is the first.
FirstBloodInv ==
    /\ FirstBloodAwarded
    /\ \A s \in Slots : pc[s] = "insert" /\ req[s].correct /\ SolvesOf(req[s].chal) = {}
          => req[s].blood

LEMMA BloodStep ==
    ASSUME TypeOK, [Next]_vars, NEW s \in Slots, pc'[s] = "insert", req'[s].correct
    PROVE  \/ pc[s] = "insert" /\ req'[s] = req[s]
           \/ ReadFirstBlood(s)
<1>1. CASE pc[s] = "insert" /\ ~(\E i \in Slots : Begin(i))
  <2>2. ASSUME NEW i \in Slots, Finish(i)
        PROVE  req'[s] = req[s]
      BY <1>1, <2>2 DEF Finish, Goto, TypeOK
  <2>3. ASSUME NEW i \in Slots, NEW e, pc[i] = "event", req' = [req EXCEPT ![i].event = e]
        PROVE  req'[s] = req[s]
      BY <1>1, <2>3 DEF TypeOK
  <2>4. ASSUME NEW i \in Slots, NEW c, pc[i] = "deps", req' = [req EXCEPT ![i].todo = @ \ {c}]
        PROVE  req'[s] = req[s]
      BY <1>1, <2>4 DEF TypeOK
  <2>5. ASSUME NEW i \in Slots, ReadFirstBlood(i)
        PROVE  req'[s] = req[s]
      BY <1>1, <2>5 DEF ReadFirstBlood, TypeOK
  <2>6. req'[s] = req[s]
      BY <1>1, <2>2, <2>3, <2>4, <2>5
      DEF Next, SlotStep, vars, subVars, ReadActiveEvent, CheckAttempts, CheckSolved,
          CheckDependency, Insert, Recalculate, Publish, Abort, StartRecalculation,
          GetLeaderboard, GetTeamLeaderboard
  <2> QED
      BY <1>1, <2>6
<1>2. CASE pc[s] = "insert" /\ \E i \in Slots : Begin(i)
  <2>1. PICK i \in Slots : Begin(i)
      BY <1>2
  <2>2. i # s
      BY <1>2, <2>1 DEF Begin
  <2> QED
      BY <1>2, <2>1, <2>2 DEF Begin, TypeOK
<1>3. CASE CheckSolved(s) /\ pc[s] # "insert"
  <2>1. UNCHANGED req /\ AfterDependencies(s)
      BY <1>3 DEF CheckSolved, Finish, Goto, TypeOK
  <2> QED
      BY <2>1 DEF AfterDependencies, Goto, TypeOK
<1>4. CASE CheckDependency(s) /\ pc[s] # "insert"
  <2>1. PICK d \in req[s].todo :
            /\ req' = [req EXCEPT ![s].todo = @ \ {d}]
            /\ IF req[s].todo = {d} THEN AfterDependencies(s) ELSE UNCHANGED pc
      BY <1>4 DEF CheckDependency, Finish, Goto, TypeOK
  <2>2. AfterDependencies(s)
      BY <1>4, <2>1
  <2>3. req'[s].correct = req[s].correct
      BY <1>4, <2>1 DEF CheckDependency, TypeOK, PastCap, Request
  <2> QED
      BY <2>2, <2>3 DEF AfterDependencies, Goto, TypeOK
<1> QED
    BY <1>1, <1>2, <1>3, <1>4, PcStep DEF PcReached

LEMMA FirstBloodStep ==
    ASSUME TypeOK, FirstBloodInv, [Next]_vars
    PROVE  FirstBloodInv'
<1>1. rows \subseteq rows'
    BY RowsStep DEF Insert
<1>2. FirstBloodAwarded'
  <2>1. CASE rows' = rows
      BY <2>1 DEF FirstBloodInv, FirstBloodAwarded, SolvesOf
  <2>2. ASSUME NEW s \in Slots, Insert(s), NEW c \in Challenges, SolvesOf(c)' # {}
        PROVE  \E r \in SolvesOf(c)' : r.blood
    <3>1. CASE SolvesOf(c) # {}
        BY <3>1, <1>1 DEF FirstBloodInv, FirstBloodAwarded, SolvesOf
    <3>2. CASE SolvesOf(c) = {}
      <4> DEFINE n == NewRow(req[s])
      <4>1. rows' = rows \cup {n} /\ pc[s] = "insert"
          BY <2>2 DEF Insert
      <4>2. n.chal = c /\ n.correct
          BY <4>1, <3>2, <2>2 DEF SolvesOf
      <4>3. req[s].chal = c /\ req[s].correct
          BY <4>2 DEF NewRow
      <4>4. n.blood
          BY <4>1, <4>3, <3>2 DEF FirstBloodInv, NewRow
      <4> QED
          BY <4>1, <4>2, <4>4 DEF SolvesOf
    <3> QED
        BY <3>1, <3>2
  <2> QED
      BY <2>1, <2>2, RowsStep DEF FirstBloodAwarded
<1>3. ASSUME NEW s \in Slots, pc'[s] = "insert", req'[s].correct,
             SolvesOf(req[s].chal)' = {}
      PROVE  req'[s].blood
  <2>1. ASSUME NEW c, SolvesOf(c)' = {}
        PROVE  SolvesOf(c) = {}
      BY <2>1, <1>1 DEF SolvesOf
  <2>2. CASE pc[s] = "insert" /\ req'[s] = req[s]
      BY <2>1, <2>2, <1>3 DEF FirstBloodInv, SolvesOf
  <2>3. CASE ReadFirstBlood(s)
    <3>1. req[s] \in Request
        BY <2>3 DEF ReadFirstBlood, TypeOK, PastCap
    <3>2. req' = [req EXCEPT ![s].blood = IsFirstBlood(req[s])]
        BY <2>3 DEF ReadFirstBlood
    <3>3. req'[s].chal = req[s].chal /\ req'[s].blood = IsFirstBlood(req[s])
        BY <3>1, <3>2 DEF TypeOK, Request
    <3> QED
        BY <3>3, <2>1, <1>3 DEF IsFirstBlood, SolvesOf
  <2> QED
      BY <1>3, <2>2, <2>3, BloodStep
<1> QED
    BY <1>2, <1>3 DEF FirstBloodInv, SolvesOf

\* A solved challenge never loses its first-blood bonus.
THEOREM FirstBloodAwardedHolds == Spec => []FirstBloodAwarded
<1>1. Init => FirstBloodInv
    BY DEF Init, FirstBloodInv, FirstBloodAwarded, SolvesOf
<1>2. TypeOK /\ FirstBloodInv /\ [Next]_vars => FirstBloodInv'
    BY FirstBloodStep
<1>3. FirstBloodInv => FirstBloodAwarded
    BY DEF FirstBloodInv
<1> QED
    BY <1>1, <1>2, <1>3, TypeCorrect, PTL DEF Spec
-----------------------------------------------------------------------------
(* No double counting *)

\* Rows and requests in flight have creation times of their own.
TimeInv ==
    /\ \A r \in rows : r.at < clock
    /\ \A r, q \in rows : r.at = q.at => r = q
    /\ \A s \in Slots : pc[s] \in InFlight =>
          req[s].at < clock /\ \A r \in rows : r.at # req[s].at
    /\ \A s, i \in Slots : pc[s] \in InFlight /\ pc[i] \in InFlight /\ s # i
          => req[s].at # req[i].at

LEMMA TimeStepBegin ==
    ASSUME TypeOK, TimeInv, NEW s \in Slots, Begin(s)
    PROVE  TimeInv'
<1>1. PICK n \in Inputs : req' = [req EXCEPT ![s] = NewRequest(n)]
    BY DEF Begin
<1>2. req'[s].at = clock /\ clock' = clock + 1 /\ rows' = rows
    BY <1>1 DEF Begin, NewRequest, TypeOK
<1>3. ASSUME NEW i \in Slots, i # s
      PROVE  pc'[i] = pc[i] /\ req'[i] = req[i]
    BY <1>1, <1>3 DEF Begin, Goto, TypeOK
<1>4. \A r \in rows : r.at \in Nat
    BY DEF TypeOK, Row
<1>5. \A i \in Slots : pc[i] \in InFlight => req[i].at \in Nat
    BY DEF TypeOK, InFlight, Request
<1>6. \A r \in rows' : r.at < clock'
    BY <1>2, <1>4 DEF TimeInv, TypeOK
<1>7. \A i \in Slots : pc'[i] \in InFlight =>
          req'[i].at < clock' /\ \A r \in rows' : r.at # req'[i].at
    BY <1>2, <1>3, <1>4, <1>5 DEF TimeInv, TypeOK
<1>8. \A i, j \in Slots : pc'[i] \in InFlight /\ pc'[j] \in InFlight /\ i # j
          => req'[i].at # req'[j].at
    BY <1>2, <1>3, <1>5 DEF TimeInv, TypeOK
<1> QED
    BY <1>2, <1>6, <1>7, <1>8 DEF TimeInv

LEMMA TimeStep ==
    ASSUME TypeOK, TimeInv, [Next]_vars
    PROVE  TimeInv'
<1>1. CASE \E s \in Slots : Begin(s)
    BY <1>1, TimeStepBegin
<1>2. CASE ~\E s \in Slots : Begin(s)
  <2>1. clock' = clock
      BY <1>2 DEF Next, SlotStep, vars, subVars, ReadActiveEvent, CheckAttempts, CheckSolved,
                  CheckDependency, ReadFirstBlood, Insert, Recalculate, Publish, Abort,
                  StartRecalculation, GetLeaderboard, GetTeamLeaderboard
  <2>2. \A i \in Slots : pc'[i] \in InFlight => pc[i] \in InFlight /\ req'[i].at = req[i].at
      BY <1>2, InFlightStep DEF SameSubmission
  <2>3. \A i, j \in Slots : pc'[i] \in InFlight /\ pc'[j] \in InFlight /\ i # j
            => req'[i].at # req'[j].at
      BY <2>2 DEF TimeInv
  <2>4. CASE rows' = rows
      BY <2>1, <2>2, <2>3, <2>4 DEF TimeInv
  <2>5. ASSUME NEW s \in Slots, Insert(s)
        PROVE  TimeInv'
    <3> DEFINE n == NewRow(req[s])
    <3>1. rows' = rows \cup {n} /\ n.at = req[s].at /\ pc[s] \in InFlight
        BY <2>5 DEF Insert, NewRow, InFlight, PastCap
    <3>2. pc'[s] \notin InFlight
        BY <2>5 DEF Insert, Finish, Goto, TypeOK, InFlight, PastCap
    <3>3. n.at < clock /\ \A r \in rows : r.at # n.at
        BY <3>1 DEF TimeInv
    <3>4. \A i \in Slots : pc'[i] \in InFlight => req'[i].at # n.at
        BY <2>2, <3>1, <3>2 DEF TimeInv
    <3>5. \A r \in rows' : r.at < clock'
        BY <3>1, <3>3, <2>1 DEF TimeInv
    <3>6. \A r, q \in rows' : r.at = q.at => r = q
        BY <3>1, <3>3 DEF TimeInv
    <3>7. \A i \in Slots : pc'[i] \in InFlight =>
              req'[i].at < clock' /\ \A r \in rows' : r.at # req'[i].at
        BY <2>1, <2>2, <3>1, <3>4 DEF TimeInv
    <3> QED
        BY <2>3, <3>5, <3>6, <3>7 DEF TimeInv
  <2> QED
      BY <2>4, <2>5, RowsStep
<1> QED
    BY <1>1, <1>2

OnePerPair(board) == \A r, q \in board : r.team = q.team /\ r.chal = q.chal => r = q

\* Every board that is computed, in flight or cached counts committed rows, one per
\* team and challenge.
BoardInv ==
    /\ NoDoubleCount
    /\ \A s \in Slots : snap[s] \subseteq rows /\ OnePerPair(snap[s])

\* DISTINCT ON (team, challenge) keeps one row of each pair.
LEMMA BoardOnePerPair ==
    ASSUME TypeOK, TimeInv, NEW e
    PROVE  Board(e) \subseteq rows /\ OnePerPair(Board(e))
<1>1. Board(e) \subseteq rows
    BY DEF Board, FirstSolves, Counted
<1>2. ASSUME NEW r \in Board(e), NEW q \in Board(e), r.team = q.team, r.chal = q.chal
      PROVE  r = q
  <2>1. r.at <= q.at /\ q.at <= r.at
      BY <1>2 DEF Board, FirstSolves
  <2>2. r.at \in Nat /\ q.at \in Nat
      BY <1>1 DEF TypeOK, Row
  <2> QED
      BY <1>1, <2>1, <2>2 DEF TimeInv
<1> QED
    BY <1>1, <1>2 DEF OnePerPair

LEMMA BoardStep ==
    ASSUME TypeOK, TimeInv, BoardInv, [Next]_vars
    PROVE  BoardInv'
<1>1. rows \subseteq rows'
    BY RowsStep DEF Insert
<1>2. \/ cache' = cache
      \/ \E s \in Slots : cache' = snap[s]
    BY DEF Next, SlotStep, vars, subVars, Begin, ReadActiveEvent, CheckAttempts, CheckSolved,
           CheckDependency, ReadFirstBlood, Insert, Recalculate, Publish, Abort,
           StartRecalculation, GetLeaderboard, GetTeamLeaderboard
<1>3. cache' \subseteq rows' /\ OnePerPair(cache')
    BY <1>1, <1>2 DEF BoardInv, NoDoubleCount, OnePerPair
<1>4. ASSUME NEW s \in Slots
      PROVE  snap'[s] \subseteq rows' /\ OnePerPair(snap'[s])
  <2>1. ASSUME NEW i \in Slots, Finish(i)
        PROVE  snap'[s] \in {snap[s], {}}
      BY <2>1 DEF Finish, TypeOK
  <2>2. ASSUME NEW i \in Slots, Recalculate(i)
        PROVE  snap'[s] \in {snap[s], Board(BoardEvent(i))}
      BY <2>2 DEF Recalculate, TypeOK
  <2>3. \/ snap'[s] \in {snap[s], {}}
        \/ \E i \in Slots : snap'[s] = Board(BoardEvent(i))
      BY <2>1, <2>2
      DEF Next, SlotStep, vars, subVars, Begin, ReadActiveEvent, CheckAttempts, CheckSolved,
          CheckDependency, ReadFirstBlood, Insert, Publish, Abort,
          StartRecalculation, GetLeaderboard, GetTeamLeaderboard
  <2> QED
      BY <1>1, <2>3, BoardOnePerPair DEF BoardInv, OnePerPair
<1> QED
    BY <1>3, <1>4 DEF BoardInv, NoDoubleCount, OnePerPair

\* The cached leaderboard never counts a challenge twice for a team, even though the
\* table may hold duplicate solves.
THEOREM NoDoubleCountHolds == Spec => []NoDoubleCount
<1>1. Init => TimeInv /\ BoardInv
    BY DEF Init, TimeInv, BoardInv, NoDoubleCount, OnePerPair, InFlight, PastCap
<1>2. TypeOK /\ TimeInv /\ BoardInv /\ [Next]_vars => (TimeInv /\ BoardInv)'
    BY TimeStep, BoardStep
<1>3. BoardInv => NoDoubleCount
    BY DEF BoardInv
<1> QED
    BY <1>1, <1>2, <1>3, TypeCorrect, PTL DEF Spec
-----------------------------------------------------------------------------
(* No participant without an event *)

\* Rows of event_participants are added under an existing event and go with it.
LEMMA OrphanStep ==
    ASSUME TypeOK, NoOrphanParticipants, [Next]_vars
    PROVE  NoOrphanParticipants'
<1>1. CASE UNCHANGED eventVars
    BY <1>1 DEF eventVars, NoOrphanParticipants, Existing
<1>2. ASSUME NEW e \in Events, NEW l \in {"pending", "active", "ended"}, SetStatus(e, l),
             UNCHANGED participants
      PROVE  NoOrphanParticipants'
    BY <1>2 DEF SetStatus, NoOrphanParticipants, Existing, TypeOK, EventsTypeOK
<1>3. ASSUME NEW e \in Events, DeleteEvent(e)
      PROVE  NoOrphanParticipants'
    BY <1>3 DEF DeleteEvent, SetStatus, NoOrphanParticipants, Existing, TypeOK, EventsTypeOK
<1>4. ASSUME NEW e \in Events, NEW t \in Teams,
             BeginRegistration(e, t) \/ CommitRegistration(e, t) \/ GiveUpRegistration(e, t)
      PROVE  NoOrphanParticipants'
    BY <1>4 DEF BeginRegistration, CommitRegistration, GiveUpRegistration,
                NoOrphanParticipants, Existing
<1>5. CASE EventsNext
  <2>1. ASSUME NEW e \in Events, CreateEvent(e) \/ StartEvent(e) \/ EndEvent(e)
        PROVE  NoOrphanParticipants'
      BY <1>2, <2>1 DEF CreateEvent, StartEvent, EndEvent
  <2> QED
      BY <1>3, <1>4, <1>5, <2>1 DEF EventsNext
<1>6. CASE ~EventsNext
  <2>1. UNCHANGED eventVars
      BY <1>6 DEF Next, SlotStep, vars, subVars, eventVars, Begin, ReadActiveEvent,
                  CheckAttempts, CheckSolved, CheckDependency, ReadFirstBlood, Insert,
                  Recalculate, Publish, Abort, StartRecalculation, GetLeaderboard,
                  GetTeamLeaderboard
  <2> QED
      BY <1>1, <2>1
<1> QED
    BY <1>5, <1>6

\* A registration that was in flight when its event was deleted leaves no row.
THEOREM NoOrphanHolds == Spec => []NoOrphanParticipants
<1>1. Init => NoOrphanParticipants
    BY DEF Init, EventsInit, NoOrphanParticipants
<1>2. TypeOK /\ NoOrphanParticipants /\ [Next]_vars => NoOrphanParticipants'
    BY OrphanStep
<1> QED
    BY <1>1, <1>2, TypeCorrect, PTL DEF Spec
-----------------------------------------------------------------------------
(* The solver's own board *)

LEMMA LeastTime ==
    ASSUME NEW S \in SUBSET Nat, S # {}
    PROVE  \E x \in S : \A y \in S : x <= y
<1>1. PICK x \in S : \A y \in S : <<y, x>> \notin OpToRel(<, Nat)
    BY WFMin, NatLessThanWellFounded, Zenon
<1>2. \A y \in S : ~(y < x)
    BY <1>1 DEF OpToRel
<1> QED
    BY <1>2

\* A counted solve is on the board, or an older one of its team and challenge is.
LEMMA CountedIsShown ==
    ASSUME TypeOK, NEW e, NEW r \in Counted(e)
    PROVE  \E q \in Board(e) : q.team = r.team /\ q.chal = r.chal
<1> DEFINE Same == {q \in Counted(e) : q.team = r.team /\ q.chal = r.chal}
           Times == {q.at : q \in Same}
<1>1. Same \subseteq Row
    BY DEF Counted, TypeOK
<1>2. Times \in SUBSET Nat /\ Times # {}
    BY <1>1 DEF Row
<1>3. PICK x \in Times : \A y \in Times : x <= y
  <2> HIDE DEF Times
  <2> QED
      BY <1>2, LeastTime
<1>4. PICK q \in Same : q.at = x
    BY <1>3
<1>5. \A p \in Same : q.at <= p.at
    BY <1>3, <1>4
<1>6. q \in Board(e)
    BY <1>4, <1>5 DEF Board, FirstSolves
<1> QED
    BY <1>4, <1>6

OwnSolve(s) == \E r \in rows : r.correct /\ r.team = req[s].team /\ r.chal = req[s].chal

\* A refresh of a submission has the submission's committed solve behind it; a
\* refresh without a request is one of the routes'.
OwnRowInv ==
    \A s \in Slots :
        /\ pc[s] = "idle" => req[s] = NoRequest
        /\ pc[s] = "recalc" /\ req[s] # NoRequest => OwnSolve(s)

LEMMA OwnRowStep ==
    ASSUME TypeOK, OwnRowInv, [Next]_vars
    PROVE  OwnRowInv'
<1> SUFFICES ASSUME NEW s \in Slots
             PROVE  /\ pc'[s] = "idle" => req'[s] = NoRequest
                    /\ pc'[s] = "recalc" /\ req'[s] # NoRequest => OwnSolve(s)'
    BY DEF OwnRowInv
<1>1. rows \subseteq rows'
    BY RowsStep DEF Insert
<1>2. ASSUME pc'[s] = pc[s], req'[s] = req[s]
      PROVE  /\ pc'[s] = "idle" => req'[s] = NoRequest
             /\ pc'[s] = "recalc" /\ req'[s] # NoRequest => OwnSolve(s)'
    BY <1>1, <1>2 DEF OwnRowInv, OwnSolve
<1>3. CASE UNCHANGED <<pc, req>>
    BY <1>2, <1>3
<1>4. ASSUME NEW i \in Slots, NEW label \in {"event", "cap", "solved", "deps", "blood", "insert", "publish"},
             Goto(i, label), NEW q, req' = [req EXCEPT ![i] = q]
      PROVE  /\ pc'[s] = "idle" => req'[s] = NoRequest
             /\ pc'[s] = "recalc" /\ req'[s] # NoRequest => OwnSolve(s)'
  <2>1. CASE i = s
      BY <1>4, <2>1 DEF Goto, TypeOK
  <2>2. CASE i # s
      BY <1>2, <1>4, <2>2 DEF Goto, TypeOK
  <2> QED
      BY <2>1, <2>2
<1>5. ASSUME NEW i \in Slots, Finish(i)
      PROVE  /\ pc'[s] = "idle" => req'[s] = NoRequest
             /\ pc'[s] = "recalc" /\ req'[s] # NoRequest => OwnSolve(s)'
  <2>1. CASE i = s
      BY <1>5, <2>1 DEF Finish, Goto, TypeOK
  <2>2. CASE i # s
      BY <1>2, <1>5, <2>2 DEF Finish, Goto, TypeOK
  <2> QED
      BY <2>1, <2>2
<1>6. ASSUME NEW i \in Slots, Insert(i)
      PROVE  /\ pc'[s] = "idle" => req'[s] = NoRequest
             /\ pc'[s] = "recalc" /\ req'[s] # NoRequest => OwnSolve(s)'
  <2>1. CASE Finish(i)
      BY <1>5, <2>1
  <2>2. CASE i = s /\ Goto(i, "recalc") /\ req[i].correct /\ UNCHANGED req
    <3>1. NewRow(req[s]) \in rows'
        BY <1>6, <2>2 DEF Insert
    <3>2. OwnSolve(s)'
        BY <2>2, <3>1 DEF OwnSolve, NewRow
    <3> QED
        BY <2>2, <3>2 DEF Goto, TypeOK
  <2>3. CASE i # s /\ Goto(i, "recalc") /\ UNCHANGED req
      BY <1>2, <2>3 DEF Goto, TypeOK
  <2> QED
      BY <1>6, <2>1, <2>2, <2>3 DEF Insert
<1>7. ASSUME NEW i \in Slots, StartRecalculation(i)
      PROVE  /\ pc'[s] = "idle" => req'[s] = NoRequest
             /\ pc'[s] = "recalc" /\ req'[s] # NoRequest => OwnSolve(s)'
  <2>1. CASE i = s
      BY <1>7, <2>1 DEF StartRecalculation, Goto, TypeOK, OwnRowInv
  <2>2. CASE i # s
      BY <1>2, <1>7, <2>2 DEF StartRecalculation, Goto, TypeOK
  <2> QED
      BY <2>1, <2>2
<1>8. ASSUME NEW i \in Slots, NEW label \in {"cap", "solved", "deps", "blood", "insert", "publish"},
             Goto(i, label), UNCHANGED req
      PROVE  /\ pc'[s] = "idle" => req'[s] = NoRequest
             /\ pc'[s] = "recalc" /\ req'[s] # NoRequest => OwnSolve(s)'
  <2>1. req' = [req EXCEPT ![i] = req[i]]
      BY <1>8 DEF TypeOK
  <2> QED
      BY <1>4, <1>8, <2>1
<1>9. ASSUME NEW i \in Slots, CheckDependency(i)
      PROVE  /\ pc'[s] = "idle" => req'[s] = NoRequest
             /\ pc'[s] = "recalc" /\ req'[s] # NoRequest => OwnSolve(s)'
  <2>1. CASE Finish(i)
      BY <1>5, <2>1
  <2>2. ASSUME NEW c, req' = [req EXCEPT ![i].todo = @ \ {c}],
               NEW label \in {"deps", "blood", "insert"}, Goto(i, label)
        PROVE  /\ pc'[s] = "idle" => req'[s] = NoRequest
               /\ pc'[s] = "recalc" /\ req'[s] # NoRequest => OwnSolve(s)'
    <3>1. req' = [req EXCEPT ![i] = [req[i] EXCEPT !.todo = @ \ {c}]]
        BY <2>2
    <3> QED
        BY <1>4, <2>2, <3>1
  <2>3. UNCHANGED pc => Goto(i, "deps")
      BY <1>9 DEF CheckDependency, Goto, TypeOK
  <2> QED
      BY <1>9, <2>1, <2>2, <2>3 DEF CheckDependency, AfterDependencies
<1>10. ASSUME NEW i \in Slots, ReadActiveEvent(i)
       PROVE  /\ pc'[s] = "idle" => req'[s] = NoRequest
              /\ pc'[s] = "recalc" /\ req'[s] # NoRequest => OwnSolve(s)'
  <2>1. ASSUME NEW e, req' = [req EXCEPT ![i].event = e], Goto(i, "cap")
        PROVE  /\ pc'[s] = "idle" => req'[s] = NoRequest
               /\ pc'[s] = "recalc" /\ req'[s] # NoRequest => OwnSolve(s)'
    <3>1. req' = [req EXCEPT ![i] = [req[i] EXCEPT !.event = e]]
        BY <2>1
    <3> QED
        BY <1>4, <2>1, <3>1
  <2> QED
      BY <1>5, <1>8, <1>10, <2>1 DEF ReadActiveEvent
<1>11. ASSUME NEW i \in Slots, ReadFirstBlood(i)
       PROVE  /\ pc'[s] = "idle" => req'[s] = NoRequest
              /\ pc'[s] = "recalc" /\ req'[s] # NoRequest => OwnSolve(s)'
  <2>1. Goto(i, "insert")
        /\ req' = [req EXCEPT ![i] = [req[i] EXCEPT !.blood = IsFirstBlood(req[i])]]
      BY <1>11 DEF ReadFirstBlood
  <2> QED
      BY <1>4, <2>1
<1>12. ASSUME NEW i \in Slots, Begin(i)
       PROVE  /\ pc'[s] = "idle" => req'[s] = NoRequest
              /\ pc'[s] = "recalc" /\ req'[s] # NoRequest => OwnSolve(s)'
    BY <1>4, <1>12 DEF Begin
<1>13. ASSUME NEW i \in Slots, SlotStep(i)
       PROVE  /\ pc'[s] = "idle" => req'[s] = NoRequest
              /\ pc'[s] = "recalc" /\ req'[s] # NoRequest => OwnSolve(s)'
    BY <1>5, <1>6, <1>8, <1>9, <1>10, <1>11, <1>13
    DEF SlotStep, CheckAttempts, CheckSolved, AfterDependencies, Recalculate, Publish
<1> QED
    BY <1>3, <1>5, <1>7, <1>12, <1>13
    DEF Next, vars, subVars, Abort, GetLeaderboard, GetTeamLeaderboard

\* The board that is computed after a COMMIT shows the solve.
LEMMA OwnBoardStep ==
    ASSUME TypeOK, OwnRowInv, [Next]_vars, NEW s \in Slots,
           pc[s] = "recalc", pc'[s] = "publish", req[s] # NoRequest,
           req[s].team \in ParticipantsOf(req[s].event)
    PROVE  \E r \in snap'[s] : r.team = req[s].team /\ r.chal = req[s].chal
<1>1. Recalculate(s)
  <2>1. ASSUME NEW i \in Slots, NEW label, label # "publish", Goto(i, label)
        PROVE  FALSE
      BY <2>1 DEF Goto, TypeOK
  <2>2. pc' # pc
      OBVIOUS
  <2>3. ASSUME NEW i \in Slots, Recalculate(i)
        PROVE  i = s
      BY <2>3 DEF Recalculate, Goto, TypeOK
  <2>4. ASSUME NEW i \in Slots, Finish(i)
        PROVE  FALSE
      BY <2>4, <2>1 DEF Finish
  <2> QED
      BY <2>1, <2>2, <2>3, <2>4
      DEF Next, SlotStep, vars, subVars, Begin, ReadActiveEvent, CheckAttempts, CheckSolved,
          CheckDependency, AfterDependencies, ReadFirstBlood, Insert, Publish, Abort,
          StartRecalculation, GetLeaderboard, GetTeamLeaderboard
<1>2. snap'[s] = Board(req[s].event)
    BY <1>1 DEF Recalculate, BoardEvent, TypeOK
<1>3. PICK r \in rows : r.correct /\ r.team = req[s].team /\ r.chal = req[s].chal
    BY DEF OwnRowInv, OwnSolve
<1>4. r \in Counted(req[s].event)
    BY <1>3, ConstantsAssumption DEF Counted, ParticipantsOf, Owners
<1> QED
    BY <1>2, <1>3, <1>4, CountedIsShown

\* A correct submission of a participant computes a board with its own team's row of
\* the challenge, whatever was committed before, between and after.
THEOREM SolveOnOwnBoardHolds == Spec => SolveOnOwnBoard
<1>1. Init => OwnRowInv
    BY DEF Init, OwnRowInv
<1>2. TypeOK /\ OwnRowInv /\ [Next]_vars => OwnRowInv'
    BY OwnRowStep
<1>3. TypeOK /\ OwnRowInv /\ [Next]_vars =>
          [\A s \in Slots :
              pc[s] = "recalc" /\ pc'[s] = "publish" /\ req[s] # NoRequest
                  /\ req[s].team \in ParticipantsOf(req[s].event) =>
                \E r \in snap'[s] : r.team = req[s].team /\ r.chal = req[s].chal]_vars
    BY OwnBoardStep
<1> QED
    BY <1>1, <1>2, <1>3, TypeCorrect, PTL DEF Spec, SolveOnOwnBoard
-----------------------------------------------------------------------------
(***************************************************************************)
(* How far overlapping requests can push the attempt cap, the idempotent   *)
(* solve and the first-blood bonus: the three bounds by Slots, each by the *)
(* argument of CheckThenAct.                                               *)
(***************************************************************************)

\* A set of slots is finite and no larger than Slots.
LEMMA SlotSets ==
    ASSUME NEW S \in SUBSET Slots
    PROVE  IsFiniteSet(S) /\ Cardinality(S) \in Nat /\ Cardinality(S) <= Cardinality(Slots)
BY ConstantsAssumption, FS_Subset, FS_CardinalityType

\* The table stays finite.
FiniteRows == IsFiniteSet(rows)

LEMMA FiniteRowsStep ==
    ASSUME TypeOK, FiniteRows, [Next]_vars
    PROVE  FiniteRows'
BY RowsStep, FS_AddElement DEF FiniteRows, Insert

\* The owner of a request or a row.
LEMMA OwnerStable ==
    ASSUME NEW s \in Slots, SameSubmission(s)
    PROVE  /\ Owner(req'[s]) = Owner(req[s])
           /\ req'[s].chal = req[s].chal
           /\ req'[s].correct = req[s].correct
BY DEF Owner, SameSubmission

\* A row of the same owner matches the WHERE clause of a request.
LEMMA OwnerMatches ==
    ASSUME NEW q \in Request, NEW r \in Row, Owner(r) = Owner(q)
    PROVE  Matches(r, q)
BY ConstantsAssumption DEF Owner, Owners, Matches, Request, Row
-----------------------------------------------------------------------------
(* The attempt cap *)

PastCapOf(o, c) == {s \in Slots : pc[s] \in PastCap /\ Owner(req[s]) = o /\ req[s].chal = c}

AttemptInv ==
    \A o \in Owners, c \in Challenges : MaxAttempts[c] > 0 =>
        Cardinality(Attempts(o, c)) + Cardinality(PastCapOf(o, c))
            <= (MaxAttempts[c] - 1) + Cardinality(Slots)

\* A request the cap check lets through has fewer than MaxAttempts rows behind it.
LEMMA CapCheck ==
    ASSUME TypeOK, FiniteRows, NEW s \in Slots, pc[s] = "cap", ~AtCap(req[s]),
           MaxAttempts[req[s].chal] > 0
    PROVE  Cardinality(Attempts(Owner(req[s]), req[s].chal)) < MaxAttempts[req[s].chal]
<1>1. req[s] \in Request
    BY DEF TypeOK
<1>2. Attempts(Owner(req[s]), req[s].chal) \subseteq AttemptsSeen(req[s])
    BY <1>1, OwnerMatches DEF Attempts, AttemptsSeen, TypeOK
<1>3. IsFiniteSet(AttemptsSeen(req[s]))
    BY SubsetCardinality DEF AttemptsSeen, FiniteRows
<1>4. Cardinality(AttemptsSeen(req[s])) < MaxAttempts[req[s].chal]
    BY <1>1, <1>3, FS_CardinalityType, ConstantsAssumption DEF AtCap, Request
<1> QED
    BY <1>1, <1>2, <1>3, <1>4, SubsetCardinality, ConstantsAssumption DEF Request

LEMMA AttemptStep ==
    ASSUME TypeOK, FiniteRows, AttemptInv, [Next]_vars
    PROVE  AttemptInv'
<1> SUFFICES ASSUME NEW o \in Owners, NEW c \in Challenges, MaxAttempts[c] > 0
             PROVE  Cardinality(Attempts(o, c)') + Cardinality(PastCapOf(o, c)')
                        <= (MaxAttempts[c] - 1) + Cardinality(Slots)
    BY DEF AttemptInv
<1>1. /\ MaxAttempts[c] - 1 \in Nat /\ IsFiniteSet(Slots)
      /\ IsFiniteSet(Attempts(o, c)) /\ Cardinality(Attempts(o, c)) \in Nat
      /\ PastCapOf(o, c) \in SUBSET Slots /\ PastCapOf(o, c)' \in SUBSET Slots
      /\ Cardinality(Attempts(o, c)) + Cardinality(PastCapOf(o, c))
             <= (MaxAttempts[c] - 1) + Cardinality(Slots)
  <2>1. MaxAttempts[c] \in Nat
      BY ConstantsAssumption
  <2>2. IsFiniteSet(Attempts(o, c)) /\ Cardinality(Attempts(o, c)) \in Nat
      BY SubsetCardinality DEF FiniteRows, Attempts
  <2> QED
      BY <2>1, <2>2, ConstantsAssumption DEF PastCapOf, AttemptInv
<1>2. ASSUME NEW s \in Slots, s \in PastCapOf(o, c)', s \notin PastCapOf(o, c)
      PROVE  /\ Attempts(o, c)' = Attempts(o, c)
             /\ Cardinality(Attempts(o, c)) <= MaxAttempts[c] - 1
  <2>1. pc'[s] \in PastCap /\ pc'[s] \in InFlight /\ ~Begin(s)
      BY <1>2 DEF PastCapOf, PastCap, InFlight, Begin, Goto, TypeOK
  <2>2. pc[s] \in InFlight /\ Owner(req[s]) = o /\ req[s].chal = c
      BY <1>2, <2>1, InFlightStep, OwnerStable DEF PastCapOf
  <2>3. pc[s] \notin PastCap
      BY <1>2, <2>2 DEF PastCapOf
  <2>4. CheckAttempts(s) /\ ~AtCap(req[s])
      BY <2>1, <2>2, <2>3, PcStep
      DEF PcReached, PastCap, CheckSolved, CheckDependency, ReadFirstBlood
  <2>5. Cardinality(Attempts(o, c)) < MaxAttempts[c]
      BY <2>2, <2>4, CapCheck DEF CheckAttempts
  <2>6. MaxAttempts[c] \in Nat
      BY ConstantsAssumption
  <2> QED
      BY <1>1, <2>4, <2>5, <2>6 DEF CheckAttempts, Attempts
<1>3. ASSUME NEW r \in Attempts(o, c)', r \notin Attempts(o, c)
      PROVE  \E s \in PastCapOf(o, c) \ PastCapOf(o, c)' :
                Attempts(o, c)' \subseteq Attempts(o, c) \cup {r}
  <2>1. PICK s \in Slots : Insert(s)
      BY <1>3, RowsStep DEF Attempts
  <2>2. rows' = rows \cup {NewRow(req[s])} /\ r = NewRow(req[s])
      BY <1>3, <2>1 DEF Insert, Attempts
  <2>3. s \in PastCapOf(o, c)
      BY <1>3, <2>1, <2>2 DEF PastCapOf, Insert, PastCap, NewRow, Owner, Attempts
  <2>4. s \notin PastCapOf(o, c)'
      BY <2>1 DEF PastCapOf, Insert, Finish, Goto, PastCap, TypeOK
  <2> QED
      BY <2>2, <2>3, <2>4 DEF Attempts
<1>4. Attempts(o, c) \subseteq Attempts(o, c)'
    BY RowsStep DEF Attempts, Insert
<1> QED
    BY <1>1, <1>2, <1>3, <1>4, BoundKept

\* With any number of slots, a team or a lone user makes fewer than
\* MaxAttempts + Slots attempts on a capped challenge.
THEOREM AttemptBoundHolds == Spec => []AttemptBound
<1>1. Init => FiniteRows /\ AttemptInv
  <2>1. Init => FiniteRows
      BY FS_EmptySet DEF Init, FiniteRows
  <2>2. ASSUME Init, NEW o \in Owners, NEW c \in Challenges, MaxAttempts[c] > 0
        PROVE  Cardinality(Attempts(o, c)) + Cardinality(PastCapOf(o, c))
                   <= (MaxAttempts[c] - 1) + Cardinality(Slots)
    <3>1. Attempts(o, c) = {} /\ PastCapOf(o, c) = {}
        BY <2>2 DEF Init, Attempts, PastCapOf, PastCap
    <3> QED
        BY <2>2, <3>1, FS_EmptySet, FS_CardinalityType, ConstantsAssumption
  <2> QED
      BY <2>1, <2>2 DEF AttemptInv
<1>2. TypeOK /\ FiniteRows /\ AttemptInv /\ [Next]_vars => (FiniteRows /\ AttemptInv)'
    BY FiniteRowsStep, AttemptStep
<1>3. FiniteRows /\ AttemptInv => AttemptBound
  <2> SUFFICES ASSUME FiniteRows, AttemptInv, NEW o \in Owners, NEW c \in Challenges,
                      MaxAttempts[c] > 0
               PROVE  Cardinality(Attempts(o, c)) < MaxAttempts[c] + Cardinality(Slots)
      BY DEF AttemptBound
  <2>1. Cardinality(PastCapOf(o, c)) \in Nat
      BY SlotSets DEF PastCapOf
  <2>2. Cardinality(Attempts(o, c)) \in Nat
      BY SubsetCardinality DEF FiniteRows, Attempts
  <2>3. Cardinality(Attempts(o, c)) + Cardinality(PastCapOf(o, c))
            <= (MaxAttempts[c] - 1) + Cardinality(Slots)
      BY DEF AttemptInv
  <2> QED
      BY <2>1, <2>2, <2>3, ConstantsAssumption, FS_CardinalityType
<1> QED
    BY <1>1, <1>2, <1>3, TypeCorrect, PTL DEF Spec
-----------------------------------------------------------------------------
(* The idempotent solve *)

PastSolvedOf(o, c) ==
    {s \in Slots : /\ pc[s] \in PastSolved
                   /\ req[s].correct
                   /\ Owner(req[s]) = o
                   /\ req[s].chal = c}

SolveInv ==
    \A o \in Owners, c \in Challenges :
        Cardinality(Solves(o, c)) + Cardinality(PastSolvedOf(o, c)) <= 0 + Cardinality(Slots)

LEMMA SolveStep ==
    ASSUME TypeOK, FiniteRows, SolveInv, [Next]_vars
    PROVE  SolveInv'
<1> SUFFICES ASSUME NEW o \in Owners, NEW c \in Challenges
             PROVE  Cardinality(Solves(o, c)') + Cardinality(PastSolvedOf(o, c)')
                        <= 0 + Cardinality(Slots)
    BY DEF SolveInv
<1>1. /\ IsFiniteSet(Solves(o, c)) /\ 0 \in Nat /\ IsFiniteSet(Slots)
      /\ PastSolvedOf(o, c) \in SUBSET Slots /\ PastSolvedOf(o, c)' \in SUBSET Slots
      /\ Cardinality(Solves(o, c)) + Cardinality(PastSolvedOf(o, c)) <= 0 + Cardinality(Slots)
  <2>1. Solves(o, c) \in SUBSET rows
      BY DEF Solves, Attempts
  <2> QED
      BY <2>1, SubsetCardinality, ConstantsAssumption DEF FiniteRows, PastSolvedOf, SolveInv
<1>2. ASSUME NEW s \in Slots, s \in PastSolvedOf(o, c)', s \notin PastSolvedOf(o, c)
      PROVE  Solves(o, c)' = Solves(o, c) /\ Cardinality(Solves(o, c)) <= 0
  <2>1. pc'[s] \in PastSolved /\ pc'[s] \in InFlight /\ ~Begin(s)
      BY <1>2 DEF PastSolvedOf, PastSolved, PastCap, InFlight, Begin, Goto, TypeOK
  <2>2. /\ pc[s] \in InFlight /\ req[s] \in Request
        /\ Owner(req[s]) = o /\ req[s].chal = c /\ req[s].correct
      BY <1>2, <2>1, InFlightStep, OwnerStable DEF PastSolvedOf, TypeOK, InFlight
  <2>3. pc[s] \notin PastSolved
      BY <1>2, <2>2 DEF PastSolvedOf
  <2>4. CheckSolved(s) /\ ~AlreadySolved(req[s])
      BY <2>1, <2>3, PcStep DEF PcReached, PastSolved, CheckDependency, ReadFirstBlood
  <2>5. Solves(o, c) = {}
      BY <2>2, <2>4, OwnerMatches DEF Solves, Attempts, AlreadySolved, SolvesSeen, TypeOK
  <2>6. rows' = rows
      BY <2>4 DEF CheckSolved
  <2>7. Solves(o, c)' = Solves(o, c)
      BY <2>6 DEF Solves, Attempts
  <2> QED
      BY <2>5, <2>7, FS_EmptySet
<1>3. ASSUME NEW r \in Solves(o, c)', r \notin Solves(o, c)
      PROVE  \E s \in PastSolvedOf(o, c) \ PastSolvedOf(o, c)' :
                Solves(o, c)' \subseteq Solves(o, c) \cup {r}
  <2>1. PICK s \in Slots : Insert(s)
      BY <1>3, RowsStep DEF Solves, Attempts
  <2>2. rows' = rows \cup {NewRow(req[s])} /\ r = NewRow(req[s])
      BY <1>3, <2>1 DEF Insert, Solves, Attempts
  <2>3. s \in PastSolvedOf(o, c)
      BY <1>3, <2>1, <2>2 DEF PastSolvedOf, Insert, PastSolved, NewRow, Owner, Solves, Attempts
  <2>4. s \notin PastSolvedOf(o, c)'
      BY <2>1 DEF PastSolvedOf, Insert, Finish, Goto, PastSolved, TypeOK
  <2> QED
      BY <2>2, <2>3, <2>4 DEF Solves, Attempts
<1>4. Solves(o, c) \subseteq Solves(o, c)'
    BY RowsStep DEF Solves, Attempts, Insert
<1> QED
    BY <1>1, <1>2, <1>3, <1>4, BoundKept

\* With any number of slots, a team or a lone user has at most Slots correct rows
\* of a challenge.
THEOREM SolveBoundHolds == Spec => []SolveBound
<1>1. Init => FiniteRows /\ SolveInv
  <2>1. Init => FiniteRows
      BY FS_EmptySet DEF Init, FiniteRows
  <2>2. ASSUME Init, NEW o \in Owners, NEW c \in Challenges
        PROVE  Cardinality(Solves(o, c)) + Cardinality(PastSolvedOf(o, c))
                   <= 0 + Cardinality(Slots)
    <3>1. Solves(o, c) = {} /\ PastSolvedOf(o, c) = {}
        BY <2>2 DEF Init, Solves, Attempts, PastSolvedOf, PastSolved
    <3> QED
        BY <3>1, FS_EmptySet, FS_CardinalityType, ConstantsAssumption
  <2> QED
      BY <2>1, <2>2 DEF SolveInv
<1>2. TypeOK /\ FiniteRows /\ SolveInv /\ [Next]_vars => (FiniteRows /\ SolveInv)'
    BY FiniteRowsStep, SolveStep
<1>3. FiniteRows /\ SolveInv => SolveBound
  <2> SUFFICES ASSUME FiniteRows, SolveInv, NEW o \in Owners, NEW c \in Challenges
               PROVE  Cardinality(Solves(o, c)) <= Cardinality(Slots)
      BY DEF SolveBound
  <2>1. Cardinality(PastSolvedOf(o, c)) \in Nat
      BY SlotSets DEF PastSolvedOf
  <2>2. Solves(o, c) \in SUBSET rows
      BY DEF Solves, Attempts
  <2>3. Cardinality(Solves(o, c)) \in Nat
      BY <2>2, SubsetCardinality DEF FiniteRows
  <2>4. Cardinality(Solves(o, c)) + Cardinality(PastSolvedOf(o, c)) <= 0 + Cardinality(Slots)
      BY DEF SolveInv
  <2> QED
      BY <2>1, <2>3, <2>4, ConstantsAssumption, FS_CardinalityType
<1> QED
    BY <1>1, <1>2, <1>3, TypeCorrect, PTL DEF Spec
-----------------------------------------------------------------------------
(* The first-blood bonus *)

BloodRows(c) == {r \in SolvesOf(c) : r.blood}
ToldFirst(c) == {s \in Slots : /\ pc[s] = "insert"
                               /\ req[s].correct
                               /\ req[s].blood
                               /\ req[s].chal = c}

BloodInv ==
    \A c \in Challenges :
        Cardinality(BloodRows(c)) + Cardinality(ToldFirst(c)) <= 0 + Cardinality(Slots)

LEMMA BloodBoundStep ==
    ASSUME TypeOK, FiniteRows, BloodInv, [Next]_vars
    PROVE  BloodInv'
<1> SUFFICES ASSUME NEW c \in Challenges
             PROVE  Cardinality(BloodRows(c)') + Cardinality(ToldFirst(c)')
                        <= 0 + Cardinality(Slots)
    BY DEF BloodInv
<1>1. /\ IsFiniteSet(BloodRows(c)) /\ 0 \in Nat /\ IsFiniteSet(Slots)
      /\ ToldFirst(c) \in SUBSET Slots /\ ToldFirst(c)' \in SUBSET Slots
      /\ Cardinality(BloodRows(c)) + Cardinality(ToldFirst(c)) <= 0 + Cardinality(Slots)
  <2>1. BloodRows(c) \in SUBSET rows
      BY DEF BloodRows, SolvesOf
  <2> QED
      BY <2>1, SubsetCardinality, ConstantsAssumption DEF FiniteRows, ToldFirst, BloodInv
<1>2. ASSUME NEW s \in Slots, s \in ToldFirst(c)', s \notin ToldFirst(c)
      PROVE  BloodRows(c)' = BloodRows(c) /\ Cardinality(BloodRows(c)) <= 0
  <2>1. ReadFirstBlood(s)
      BY <1>2, BloodStep DEF ToldFirst
  <2>2. req[s] \in Request
      BY <2>1 DEF ReadFirstBlood, TypeOK, PastCap
  <2>3. req'[s] = [req[s] EXCEPT !.blood = IsFirstBlood(req[s])]
      BY <2>1 DEF ReadFirstBlood, TypeOK
  <2>4. IsFirstBlood(req[s]) /\ req[s].chal = c
    <3>1. req'[s].blood /\ req'[s].chal = c
        BY <1>2 DEF ToldFirst
    <3>2. req'[s].chal = req[s].chal
        BY <2>2, <2>3 DEF Request
    <3>3. req'[s].blood = IsFirstBlood(req[s])
        BY <2>2, <2>3 DEF Request
    <3> QED
        BY <3>1, <3>2, <3>3
  <2>5. BloodRows(c) = {}
      BY <2>4 DEF IsFirstBlood, BloodRows
  <2>6. rows' = rows
      BY <2>1 DEF ReadFirstBlood
  <2>7. BloodRows(c)' = BloodRows(c)
      BY <2>6 DEF BloodRows, SolvesOf
  <2> QED
      BY <2>5, <2>7, FS_EmptySet
<1>3. ASSUME NEW r \in BloodRows(c)', r \notin BloodRows(c)
      PROVE  \E s \in ToldFirst(c) \ ToldFirst(c)' :
                BloodRows(c)' \subseteq BloodRows(c) \cup {r}
  <2>1. PICK s \in Slots : Insert(s)
      BY <1>3, RowsStep DEF BloodRows, SolvesOf
  <2>2. rows' = rows \cup {NewRow(req[s])} /\ r = NewRow(req[s])
      BY <1>3, <2>1 DEF Insert, BloodRows, SolvesOf
  <2>3. s \in ToldFirst(c)
      BY <1>3, <2>1, <2>2 DEF ToldFirst, Insert, NewRow, BloodRows, SolvesOf
  <2>4. s \notin ToldFirst(c)'
      BY <2>1 DEF ToldFirst, Insert, Finish, Goto, TypeOK
  <2> QED
      BY <2>2, <2>3, <2>4 DEF BloodRows, SolvesOf
<1>4. BloodRows(c) \subseteq BloodRows(c)'
    BY RowsStep DEF BloodRows, SolvesOf, Insert
<1> QED
    BY <1>1, <1>2, <1>3, <1>4, BoundKept

\* With any number of slots, at most Slots solves of a challenge carry the
\* first-blood bonus.
THEOREM FirstBloodBoundHolds == Spec => []FirstBloodBound
<1>1. Init => FiniteRows /\ BloodInv
  <2>1. Init => FiniteRows
      BY FS_EmptySet DEF Init, FiniteRows
  <2>2. ASSUME Init, NEW c \in Challenges
        PROVE  Cardinality(BloodRows(c)) + Cardinality(ToldFirst(c)) <= 0 + Cardinality(Slots)
    <3>1. BloodRows(c) = {} /\ ToldFirst(c) = {}
        BY <2>2 DEF Init, BloodRows, SolvesOf, ToldFirst
    <3> QED
        BY <3>1, FS_EmptySet, FS_CardinalityType, ConstantsAssumption
  <2> QED
      BY <2>1, <2>2 DEF BloodInv
<1>2. TypeOK /\ FiniteRows /\ BloodInv /\ [Next]_vars => (FiniteRows /\ BloodInv)'
    BY FiniteRowsStep, BloodBoundStep
<1>3. FiniteRows /\ BloodInv => FirstBloodBound
  <2> SUFFICES ASSUME FiniteRows, BloodInv, NEW c \in Challenges
               PROVE  Cardinality(BloodRows(c)) <= Cardinality(Slots)
      BY DEF FirstBloodBound, BloodRows
  <2>1. Cardinality(ToldFirst(c)) \in Nat
      BY SlotSets DEF ToldFirst
  <2>2. BloodRows(c) \in SUBSET rows
      BY DEF BloodRows, SolvesOf
  <2>3. Cardinality(BloodRows(c)) \in Nat
      BY <2>2, SubsetCardinality DEF FiniteRows
  <2>4. Cardinality(BloodRows(c)) + Cardinality(ToldFirst(c)) <= 0 + Cardinality(Slots)
      BY DEF BloodInv
  <2> QED
      BY <2>1, <2>3, <2>4, ConstantsAssumption, FS_CardinalityType
<1> QED
    BY <1>1, <1>2, <1>3, TypeCorrect, PTL DEF Spec
=============================================================================
