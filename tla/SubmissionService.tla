------------------------- MODULE SubmissionService -------------------------
(***************************************************************************)
(* Flag submission and the backend leaderboard: SubmissionService.submit,  *)
(* ScoringService.recalculate_leaderboard and the leaderboard routes,      *)
(* running next to the CTF events.                                         *)
(*                                                                         *)
(* Every request runs in a slot, the database connection its session holds *)
(* from the first SELECT to the COMMIT.  PostgreSQL runs at READ           *)
(* COMMITTED, so each statement sees the rows committed when it starts and *)
(* is one action here; the slots interleave between the statements.  A row *)
(* carries the time its transaction began (created_at DEFAULT now()),      *)
(* which is not the time it becomes visible.                               *)
(*                                                                         *)
(* The reads of the challenge, the team and the roster come first and      *)
(* decide only whether the request goes on.  Any user may be a member of   *)
(* any team, and any challenge enabled, at that moment, so Begin takes any *)
(* request; one that is refused leaves no trace.                           *)
(***************************************************************************)
EXTENDS CTFEvents, Integers, FiniteSets

CONSTANTS
    Users, NoTeam, NoEvent,
    Challenges,
    Requires,     \* Requires[c]: the prerequisites of challenge c
    MaxAttempts,  \* MaxAttempts[c]: 0 when the challenge has no cap
    Slots,        \* the connections of the pools of all workers
    Inputs,       \* the <<user, team, challenge, correct>> clients submit
    NoRequest,
    MaxRequests   \* bound: the submissions begun in a behaviour

VARIABLES
    clock,  \* the number of submissions begun so far
    rows,   \* the committed rows of submissions
    pc,     \* pc[s]: the next statement of slot s
    req,    \* req[s]: the submission slot s runs
    snap,   \* snap[s]: the leaderboard slot s computed and has not cached yet
    cache   \* leaderboard:data in Redis; {} when it is missing or an empty list

subVars == <<clock, rows, pc, req, snap, cache>>
vars == <<clock, rows, pc, req, snap, cache, status, participants, registering>>

Owners == Users \cup Teams
Request == [user : Users, team : Teams \cup {NoTeam}, chal : Challenges, correct : BOOLEAN,
            at : Nat, event : Events \cup {NoEvent}, todo : SUBSET Challenges, blood : BOOLEAN]
Row == [user : Users, team : Teams \cup {NoTeam}, chal : Challenges, correct : BOOLEAN,
        blood : BOOLEAN, at : Nat]

ASSUME ConstantsAssumption ==
    /\ IsFiniteSet(Slots)
    /\ Users \cap Teams = {}
    /\ NoTeam \notin Owners
    /\ NoEvent \notin Events
    /\ Requires \in [Challenges -> SUBSET Challenges]
    /\ MaxAttempts \in [Challenges -> Nat]
    /\ Inputs \subseteq Users \X (Teams \cup {NoTeam}) \X Challenges \X BOOLEAN
    /\ NoRequest \notin Request
    /\ MaxRequests \in Nat

PC == {"idle", "event", "cap", "solved", "deps", "blood", "insert", "recalc", "publish"}
PastCap == {"solved", "deps", "blood", "insert"}
PastSolved == {"deps", "blood", "insert"}

(* The types of the rows, the slots and the cache, on top of the events'.  *)
TypeOK ==
    /\ EventsTypeOK
    /\ clock \in Nat
    /\ rows \subseteq Row
    /\ pc \in [Slots -> PC]
    /\ req \in [Slots -> Request \cup {NoRequest}]
    /\ snap \in [Slots -> SUBSET Row]
    /\ cache \subseteq Row
    /\ \A s \in Slots : pc[s] \in {"event", "cap"} \cup PastCap => req[s] # NoRequest
    /\ \A s \in Slots : pc[s] # "publish" => snap[s] = {}

Init ==
    /\ EventsInit
    /\ clock = 0
    /\ rows = {}
    /\ pc = [s \in Slots |-> "idle"]
    /\ req = [s \in Slots |-> NoRequest]
    /\ snap = [s \in Slots |-> {}]
    /\ cache = {}
-----------------------------------------------------------------------------
(* The queries *)

\* The team a row or request counts for, or its user when it has no team.
Owner(r) == IF r.team = NoTeam THEN r.user ELSE r.team

\* WHERE team_id = :team when the request has a team, WHERE user_id = :user when
\* it has none (and then the rows the user submitted under a team match too).
Matches(r, q) == IF q.team = NoTeam THEN r.user = q.user ELSE r.team = q.team

\* Mutant of SolvesSeen: somebody else's solve counts as one's own.
SolvesSeenOfAnyone(q, c) == {r \in rows : r.chal = c /\ r.correct}

AttemptsSeen(q) == {r \in rows : r.chal = q.chal /\ Matches(r, q)}
SolvesSeen(q, c) == {r \in rows : r.chal = c /\ r.correct /\ Matches(r, q)}
SolvesOf(c) == {r \in rows : r.chal = c /\ r.correct}

\* Mutant of FirstSolves: no DISTINCT ON, as the aggregate before it.
FirstSolvesOfAll(candidates) == candidates

\* The solves that DISTINCT ON (team, challenge) ORDER BY created_at may keep;
\* creation times of two rows differ, so it keeps one per pair.
FirstSolves(candidates) ==
    {r \in candidates : \A q \in candidates :
        q.team = r.team /\ q.chal = r.chal => r.at <= q.at}

\* The correct team rows a leaderboard is computed from: all of them, or those of
\* the participants of the event.
Counted(e) ==
    {r \in rows : /\ r.correct
                  /\ r.team # NoTeam
                  /\ e # NoEvent => <<e, r.team>> \in participants}

\* A leaderboard is a function of the solves it counts.
Board(e) == FirstSolves(Counted(e))
-----------------------------------------------------------------------------
(* The statements of SubmissionService.submit *)

Goto(s, label) == pc' = [pc EXCEPT ![s] = label]

\* Mutant of Finish: the computed board is not dropped.
FinishKeepingBoard(s) ==
    /\ Goto(s, "idle")
    /\ req' = [req EXCEPT ![s] = NoRequest]
    /\ UNCHANGED snap

\* The request of slot s is answered: a verdict or an error status.
Finish(s) ==
    /\ Goto(s, "idle")
    /\ req' = [req EXCEPT ![s] = NoRequest]
    /\ snap' = [snap EXCEPT ![s] = {}]

NewRequest(i) == [user |-> i[1], team |-> i[2], chal |-> i[3], correct |-> i[4], at |-> clock,
                  event |-> NoEvent, todo |-> Requires[i[3]], blood |-> FALSE]

Begin(s) ==
    /\ pc[s] = "idle"
    /\ clock < MaxRequests
    /\ \E i \in Inputs : req' = [req EXCEPT ![s] = NewRequest(i)]
    /\ clock' = clock + 1
    /\ Goto(s, "event")
    /\ UNCHANGED <<rows, snap, cache, eventVars>>

\* scalar_one_or_none raises when two events are active; a submission without a
\* team is refused when one is.
ReadActiveEvent(s) ==
    /\ pc[s] = "event"
    /\ \/ /\ ActiveEvents = {}
          /\ Goto(s, "cap")
          /\ UNCHANGED <<req, snap>>
       \/ \E e \in Events :
             /\ ActiveEvents = {e}
             /\ req[s].team # NoTeam
             /\ req' = [req EXCEPT ![s].event = e]
             /\ Goto(s, "cap")
             /\ UNCHANGED snap
       \/ /\ \/ Cardinality(ActiveEvents) > 1
             \/ ActiveEvents # {} /\ req[s].team = NoTeam
          /\ Finish(s)
    /\ UNCHANGED <<clock, rows, cache, eventVars>>

\* Mutant of AtCap: one attempt too many.
AtCapLate(q) == MaxAttempts[q.chal] > 0 /\ Cardinality(AttemptsSeen(q)) > MaxAttempts[q.chal]

AtCap(q) == MaxAttempts[q.chal] > 0 /\ Cardinality(AttemptsSeen(q)) >= MaxAttempts[q.chal]

CheckAttempts(s) ==
    /\ pc[s] = "cap"
    /\ IF AtCap(req[s])
       THEN Finish(s)
       ELSE Goto(s, "solved") /\ UNCHANGED <<req, snap>>
    /\ UNCHANGED <<clock, rows, cache, eventVars>>

\* verify_flag needs no statement; a wrong flag goes straight to the INSERT.
AfterDependencies(s) == Goto(s, IF req[s].correct THEN "blood" ELSE "insert")

\* Mutant of AlreadySolved: only solo solves are idempotent.
AlreadySolvedSolo(q) == q.team = NoTeam /\ SolvesSeen(q, q.chal) # {}

AlreadySolved(q) == SolvesSeen(q, q.chal) # {}

CheckSolved(s) ==
    /\ pc[s] = "solved"
    /\ \/ /\ AlreadySolved(req[s])
          /\ Finish(s)
       \/ /\ ~AlreadySolved(req[s])
          /\ IF req[s].todo = {} THEN AfterDependencies(s) ELSE Goto(s, "deps")
          /\ UNCHANGED <<req, snap>>
    /\ UNCHANGED <<clock, rows, cache, eventVars>>

\* Mutant of CheckDependency: a missing solve does not end the request.
CheckDependencyNoRefusal(s) ==
    /\ pc[s] = "deps"
    /\ \E c \in req[s].todo :
          /\ Cardinality(SolvesSeen(req[s], c)) = 1
          /\ req' = [req EXCEPT ![s].todo = @ \ {c}]
          /\ IF req[s].todo = {c} THEN AfterDependencies(s) ELSE UNCHANGED pc
          /\ UNCHANGED snap
    /\ UNCHANGED <<clock, rows, cache, eventVars>>

\* One prerequisite: no matching row is a refusal, two or more an exception of
\* scalar_one_or_none.
CheckDependency(s) ==
    /\ pc[s] = "deps"
    /\ \E c \in req[s].todo :
          \/ /\ Cardinality(SolvesSeen(req[s], c)) = 1
             /\ req' = [req EXCEPT ![s].todo = @ \ {c}]
             /\ IF req[s].todo = {c} THEN AfterDependencies(s) ELSE UNCHANGED pc
             /\ UNCHANGED snap
          \/ /\ Cardinality(SolvesSeen(req[s], c)) # 1
             /\ Finish(s)
    /\ UNCHANGED <<clock, rows, cache, eventVars>>

\* Mutants of IsFirstBlood: wrong attempts count too; only the team's or user's own
\* solves count.
IsFirstAttempt(q) == {r \in rows : r.chal = q.chal} = {}
IsFirstOwnSolve(q) == SolvesSeen(q, q.chal) = {}

IsFirstBlood(q) == SolvesOf(q.chal) = {}

ReadFirstBlood(s) ==
    /\ pc[s] = "blood"
    /\ req' = [req EXCEPT ![s].blood = IsFirstBlood(req[s])]
    /\ Goto(s, "insert")
    /\ UNCHANGED <<clock, rows, snap, cache, eventVars>>

\* The score column is calculate_score(challenge, len(requires), blood) for a
\* correct row and 0 for another, so the row keeps blood in its place.
NewRow(q) == [user |-> q.user, team |-> q.team, chal |-> q.chal, correct |-> q.correct,
              blood |-> q.blood, at |-> q.at]

Insert(s) ==
    /\ pc[s] = "insert"
    /\ rows' = rows \cup {NewRow(req[s])}
    /\ IF req[s].correct /\ req[s].event # NoEvent
       THEN Goto(s, "recalc") /\ UNCHANGED <<req, snap>>
       ELSE Finish(s)
    /\ UNCHANGED <<clock, cache, eventVars>>

\* A connection is lost, Redis or a statement fails, or the worker dies: the
\* open transaction is rolled back, what was committed stays.
Abort(s) ==
    /\ pc[s] # "idle"
    /\ Finish(s)
    /\ UNCHANGED <<clock, rows, cache, eventVars>>
-----------------------------------------------------------------------------
(* recalculate_leaderboard: the aggregate query, then SET leaderboard:data *)

\* The event of the board slot s computes; the routes compute the global one.
BoardEvent(s) == IF req[s] = NoRequest THEN NoEvent ELSE req[s].event

\* Mutant of Recalculate: the cached board, when there is one, is taken for current.
RecalculateIfMissing(s) ==
    /\ pc[s] = "recalc"
    /\ snap' = [snap EXCEPT ![s] = IF cache = {} THEN Board(BoardEvent(s)) ELSE cache]
    /\ Goto(s, "publish")
    /\ UNCHANGED <<clock, rows, req, cache, eventVars>>

Recalculate(s) ==
    /\ pc[s] = "recalc"
    /\ snap' = [snap EXCEPT ![s] = Board(BoardEvent(s))]
    /\ Goto(s, "publish")
    /\ UNCHANGED <<clock, rows, req, cache, eventVars>>

Publish(s) ==
    /\ pc[s] = "publish"
    /\ cache' = snap[s]
    /\ Finish(s)
    /\ UNCHANGED <<clock, rows, eventVars>>

StartRecalculation(s) ==
    /\ pc[s] = "idle"
    /\ Goto(s, "recalc")
    /\ UNCHANGED <<clock, rows, req, snap, cache, eventVars>>

\* GET /leaderboard/ serves the cached board unless it is missing or empty.
GetLeaderboard(s) == cache = {} /\ StartRecalculation(s)

\* GET /leaderboard/team/{id} always recalculates.
GetTeamLeaderboard(s) == StartRecalculation(s)
-----------------------------------------------------------------------------
SlotStep(s) ==
    \/ ReadActiveEvent(s)
    \/ CheckAttempts(s)
    \/ CheckSolved(s)
    \/ CheckDependency(s)
    \/ ReadFirstBlood(s)
    \/ Insert(s)
    \/ Recalculate(s)
    \/ Publish(s)

Next ==
    \/ \E s \in Slots :
          \/ Begin(s)
          \/ SlotStep(s)
          \/ Abort(s)
          \/ GetLeaderboard(s)
          \/ GetTeamLeaderboard(s)
    \/ EventsNext /\ UNCHANGED subVars

Spec == Init /\ [][Next]_vars

\* A statement sent to PostgreSQL or Redis completes or fails: none of them waits
\* for another request, as rows are only inserted.
FairSpec == Spec /\ \A s \in Slots : WF_vars(SlotStep(s))
=============================================================================
