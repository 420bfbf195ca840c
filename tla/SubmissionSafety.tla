-------------------------- MODULE SubmissionSafety --------------------------
(***************************************************************************)
(* What flag submission and the cached leaderboard guarantee, and what     *)
(* their comments, tests and documents promise.  The first part holds with *)
(* any number of concurrent requests: it is proved in SubmissionProofs but *)
(* for EveryRequestAnswered, which is model-checked.  The second part      *)
(* holds only as long as requests do not overlap, or not at all.           *)
(***************************************************************************)
EXTENDS SubmissionService

Attempts(o, c) == {r \in rows : Owner(r) = o /\ r.chal = c}
Solves(o, c) == {r \in Attempts(o, c) : r.correct}

\* The cap is read before the row is written, so requests that overlap can pass
\* it together, but never more of them than there are slots: a team, or a user on
\* his own, makes fewer than MaxAttempts + Slots attempts on a capped challenge
\* (submission_service.py, "Brute-force cap").
AttemptBound ==
    \A o \in Owners, c \in Challenges :
        MaxAttempts[c] > 0 => Cardinality(Attempts(o, c)) < MaxAttempts[c] + Cardinality(Slots)

\* Likewise for the idempotent-solve check: a team or user has at most one correct
\* row of a challenge per slot, however often the flag is sent again.
SolveBound ==
    \A o \in Owners, c \in Challenges : Cardinality(Solves(o, c)) <= Cardinality(Slots)

\* Nobody attempts a challenge before its prerequisites: behind every row there is
\* a correct row of each required challenge by the same team, or by the same user
\* for a row without a team, whatever overlaps (submit, "Chain dependencies").
ChainDiscipline ==
    \A r \in rows : \A c \in Requires[r.chal] :
        \E q \in rows : q.chal = c /\ q.correct /\ Matches(q, r)

\* A challenge that somebody solved has its first blood: the bonus may be given
\* twice, it is never lost between two overlapping solves (submit, "First blood").
FirstBloodAwarded ==
    \A c \in Challenges : SolvesOf(c) # {} => \E r \in SolvesOf(c) : r.blood

\* The bonus goes to at most one solve per slot.
FirstBloodBound ==
    \A c \in Challenges : Cardinality({r \in SolvesOf(c) : r.blood}) <= Cardinality(Slots)

\* The cached leaderboard counts a challenge at most once per team, also when the
\* table holds several correct rows of the pair, and only solves that are
\* committed (recalculate_leaderboard: "can never double-count").
NoDoubleCount ==
    /\ cache \subseteq rows
    /\ \A r, q \in cache : r.team = q.team /\ r.chal = q.chal => r = q

\* The board a submission computes after its COMMIT shows its solve, or a row the
\* team already had, when the team takes part in the event (submit: commit, then
\* recalculate_leaderboard, then broadcast).
SolveOnOwnBoard ==
    [][\A s \in Slots :
          pc[s] = "recalc" /\ pc'[s] = "publish" /\ req[s] # NoRequest
              /\ req[s].team \in ParticipantsOf(req[s].event) =>
            \E r \in snap'[s] : r.team = req[s].team /\ r.chal = req[s].chal]_vars

\* Every submission is answered: no request waits for a row that never comes
\* (submit has an early return or an exception for each failed check).
EveryRequestAnswered == \A s \in Slots : pc[s] # "idle" ~> pc[s] = "idle"
-----------------------------------------------------------------------------
(* Promises that overlapping requests, or long sequences of them, can break *)

\* "Idempotent solve: if this team/user already solved this challenge, don't
\* accept another scoring submission" (submission_service.py): a team or user has
\* at most one correct row of a challenge.
IdempotentSolve ==
    \A o \in Owners, c \in Challenges : Cardinality(Solves(o, c)) <= 1

\* "Chain dependencies. Applies to BOTH routes.": a player who solved a
\* prerequisite passes its check, so the lookup of the solve finds at most one row
\* (scalar_one_or_none raises when it finds two).
DependencyLookupUnambiguous ==
    \A s \in Slots : pc[s] = "deps" =>
        \A c \in req[s].todo : Cardinality(SolvesSeen(req[s], c)) <= 1

\* routers/stats.py treats "ctf_active" as "at least one event whose status is
\* active"; submit looks the active event up with scalar_one_or_none, which raises
\* when there are two.
ActiveEventLookupUnambiguous ==
    \A s \in Slots : pc[s] = "event" => Cardinality(ActiveEvents) <= 1

\* "CTF-mode enforcement: if a CTF event is active, every submission must be under
\* a team.": no row without a team is committed while an event is active.
TeamOnlyDuringEvent ==
    [][ActiveEvents # {} => \A r \in rows' \ rows : r.team # NoTeam]_vars

\* A team that was awarded first blood has that solve on the leaderboard
\* (tests/test_submit_flow.py: "only the first-blood solve counted").
FirstBloodCounted ==
    \A r \in rows : r.blood /\ r.team # NoTeam =>
        \E q \in Board(NoEvent) : q.team = r.team /\ q.chal = r.chal /\ q.blood

\* "Active: Competition is running, live leaderboard" (docs/ADMIN.md): while an
\* event runs, a solve of a participant that the cached board has shown stays on
\* it, or a row of the same team and challenge takes its place.
ShownSolveStays ==
    [][\A e \in Events : ActiveEvents = {e} /\ UNCHANGED ActiveEvents =>
           \A r \in cache : r.team \in ParticipantsOf(e)' =>
               \E q \in cache' : q.team = r.team /\ q.chal = r.chal]_vars

\* "Completed: Scoring frozen, results final" (docs/ADMIN.md): when the event has
\* ended, the leaderboard on display does not change.
ScoringFrozen ==
    [][\A e \in Events : status[e] = "ended" /\ cache # {} => cache' = cache]_vars
=============================================================================
