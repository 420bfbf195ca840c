---------------------------- MODULE ChallengeGate ----------------------------
(***************************************************************************)
(* The challenge gate of the vulnerable application: challengeChecker in   *)
(* front of every challenge (middleware/state_checker.ts), over            *)
(* getChallengeState (services/internal_api.ts), which asks the route      *)
(* /challenges/{id}/state of the backend (routers/internal.py) and caches  *)
(* its answer in Redis (services/redis.ts) for TTL ticks.                  *)
(*                                                                         *)
(* Time is a tick counter.  A call to the backend is given up after        *)
(* Timeout ticks; Redis is taken to answer or fail within the tick.  One   *)
(* challenge is enough: the keys of two have nothing in common.            *)
(***************************************************************************)
EXTENDS Integers, FiniteSets

CONSTANTS
    Callers,        \* the requests that may be in flight together
    TTL, Timeout, \* the lifetime of a cache entry, the patience of axios
    MaxTime       \* bound: the ticks of a behaviour

VARIABLES
    time,
    state,        \* the challenge is enabled in the backend
    changed,      \* when state last changed
    entry,        \* the cache entry: whether it is held, its value, its expiry
    gateAt,       \* gateAt[r]: what request r waits for
    fetch,        \* fetch[r]: when r asked the backend, and the answer
    passed,       \* the last request let through: when, and whether on an answer
    refused       \* history: some request was refused

gateVars == <<time, state, changed, entry, gateAt, fetch, passed, refused>>

ASSUME GateAssumption ==
    /\ IsFiniteSet(Callers)
    /\ TTL \in Nat \ {0} /\ Timeout \in Nat /\ MaxTime \in Nat

NoEntry == [held |-> FALSE, enabled |-> FALSE, until |-> 0]
NoAnswer == [status |-> 0, enabled |-> FALSE]
NoFetch == [asked |-> 0, answer |-> NoAnswer]

GateTypeOK ==
    /\ time \in 0 .. MaxTime /\ changed \in 0 .. time
    /\ state \in BOOLEAN /\ refused \in BOOLEAN
    /\ entry.held => entry.until \in time + 1 .. time + TTL
    /\ gateAt \in [Callers -> {"idle", "cache", "backend"}]
    /\ \A r \in Callers : gateAt[r] = "backend" =>
           fetch[r].asked \in 0 .. time /\ fetch[r].answer.status \in {0, 200, 401, 404, 422}

GateInit ==
    /\ time = 0 /\ state = TRUE /\ changed = 0
    /\ entry = NoEntry
    /\ gateAt = [r \in Callers |-> "idle"]
    /\ fetch = [r \in Callers |-> NoFetch]
    /\ passed = [at |-> 0, answered |-> FALSE]
    /\ refused = FALSE
-----------------------------------------------------------------------------
(* What axios.get sends: a timeout and no header, and the name the routes  *)
(* of the application give the challenge ('sqli-01').                      *)
StateRequest == [key |-> "none", id |-> "slug"]

(* The route: the key is a dependency and is tested before the path is     *)
(* parsed as a UUID.  A challenge that does not exist reads as disabled.   *)
StateAnswer(request) ==
    CASE request.key # "API_KEY" -> [NoAnswer EXCEPT !.status = 401]
      [] request.key = "API_KEY" /\ request.id # "uuid" -> [NoAnswer EXCEPT !.status = 422]
      [] OTHER -> [status |-> 200, enabled |-> state]
-----------------------------------------------------------------------------
Arrive(r) ==
    /\ gateAt[r] = "idle"
    /\ gateAt' = [gateAt EXCEPT ![r] = "cache"]
    /\ UNCHANGED <<time, state, changed, entry, fetch, passed, refused>>

(* next() or a 404; a checker that throws lets the request through.        *)
Decide(r, enabled) ==
    /\ gateAt' = [gateAt EXCEPT ![r] = "idle"]
    /\ fetch' = [fetch EXCEPT ![r] = NoFetch]
    /\ passed' = IF enabled THEN [at |-> time, answered |-> fetch[r].answer # NoAnswer] ELSE passed
    /\ refused' = (refused \/ ~enabled)

(* A hit decides; a miss, or a Redis that fails, asks the backend.         *)
LookUp(r, redisUp) ==
    /\ gateAt[r] = "cache"
    /\ IF redisUp /\ entry.held
       THEN Decide(r, entry.enabled)
       ELSE /\ gateAt' = [gateAt EXCEPT ![r] = "backend"]
            /\ fetch' = [fetch EXCEPT ![r] = [asked |-> time, answer |-> NoAnswer]]
            /\ UNCHANGED <<passed, refused>>
    /\ UNCHANGED <<time, state, changed, entry>>

BackendAnswers(r) ==
    /\ gateAt[r] = "backend" /\ fetch[r].answer = NoAnswer
    /\ fetch' = [fetch EXCEPT ![r].answer = StateAnswer(StateRequest)]
    /\ UNCHANGED <<time, state, changed, entry, gateAt, passed, refused>>

(* A state is cached, unless Redis fails, and decides; a 404 refuses; any  *)
(* other status lets the request through.                                  *)
Learn(r, redisUp) ==
    LET answer == fetch[r].answer IN
    /\ gateAt[r] = "backend" /\ answer # NoAnswer
    /\ IF answer.status = 200
       THEN /\ entry' = IF redisUp
                        THEN [held |-> TRUE, enabled |-> answer.enabled, until |-> time + TTL]
                        ELSE entry
            /\ Decide(r, answer.enabled)
       ELSE entry' = entry /\ Decide(r, answer.status # 404)
    /\ UNCHANGED <<time, state, changed>>

(* No connection, or no answer in time: the request is let through.        *)
FailOpen(r) ==
    /\ gateAt[r] = "backend" /\ fetch[r].answer = NoAnswer
    /\ Decide(r, TRUE)
    /\ UNCHANGED <<time, state, changed, entry>>

(* update_challenge, toggle_category or a pass of the schedule.            *)
Toggle ==
    /\ state' = ~state
    /\ changed' = time
    /\ UNCHANGED <<time, entry, gateAt, fetch, passed, refused>>

Tick ==
    /\ time < MaxTime
    /\ \A r \in Callers : gateAt[r] = "backend" => time < fetch[r].asked + Timeout
    /\ time' = time + 1
    /\ entry' = IF entry.held /\ entry.until = time + 1 THEN NoEntry ELSE entry
    /\ UNCHANGED <<state, changed, gateAt, fetch, passed, refused>>

GateNext ==
    \/ \E r \in Callers : Arrive(r) \/ BackendAnswers(r) \/ FailOpen(r)
    \/ \E r \in Callers, redisUp \in BOOLEAN : LookUp(r, redisUp) \/ Learn(r, redisUp)
    \/ Toggle
    \/ Tick

GateSpec == GateInit /\ [][GateNext]_gateVars
-----------------------------------------------------------------------------
(* ADMIN.md:41-45 says that a disabled challenge is hidden and that a      *)
(* toggle takes effect at once; the gate grants itself a cache lifetime    *)
(* and a timeout.  A request that is let through on an answer of the       *)
(* backend, and not for want of one, is to a challenge that is enabled or  *)
(* was, that long ago (state_checker.ts:8, internal_api.ts:14-18).         *)
DisabledIsRefused ==
    [][passed' # passed /\ passed'.answered /\ ~state => time < changed + TTL + Timeout]_gateVars

(* What the gate does instead: it sends no key, so that it never learns a  *)
(* state, caches nothing and refuses nobody.                               *)
GateStaysOpen == ~refused /\ ~entry.held
=============================================================================
