# bheda in TLA+

bheda is a capture-the-flag platform: a FastAPI backend (`backend/`, four uvicorn workers over one
PostgreSQL and one Redis), a TypeScript `ctf-engine/` that keeps its own scores in Redis and runs team
instances in Docker, a deliberately vulnerable application (`vuln-app/`), two services of decoys and staged
exercises (`rabbit-holes/`, `zero-days/`), and a Next.js frontend. This directory models the parts that keep
state: who gets points, what the boards show, which containers run, what a gate lets through, and what the
browser believes of all that.

Contents: Inventory; Modules (one section per component); Runs; Proofs; Disagreements; Not modelled.

## Inventory

"Hard" names what a test would hardly reach. Components in **bold** are modelled.

| Component | State | Operations | Hard | Correct when |
|---|---|---|---|---|
| **Flag submission** (`services/submission_service.py`) | rows of `submissions` | `submit` | every check is its own statement, the INSERT comes last; no lock, no unique index | caps and idempotence hold up to the overlap; no solve before its prerequisites; first blood is never lost |
| **Backend leaderboard** (`services/scoring_service.py`, `routers/leaderboard.py`) | Redis key `leaderboard:data` | recalculate and SET, cached read, fresh team read | computed and cached in two steps by any worker | counts committed solves once per team and challenge; the solver sees the solve |
| **CTF events** (`routers/events.py`, `services/ctf_service.py`) | `ctf_events`, `event_participants` | create, start, end, delete, register | registration reads the status and commits later | no participant without an event |
| **Teams** (`routers/teams.py`, `routers/ctf_compat.py`) | `teams`, `team_members` | create, join by id or code, leave | the count and the insert of a join are two statements | one captain, no duplicate member, bounded size |
| **Engine scoring** (`ctf-engine/src/scoring.ts`) | Redis score hash, first-blood key, chain set, cached board | `handleSubmission`, `recalculateLeaderboard` | SETNX before the score is stored; an overwriting HSET; keys scanned one by one; failures in between | it implements a ledger of solves with one winner per challenge; chain bonuses are earned |
| **Anti-cheat** (`ctf-engine/src/anti-cheat.ts`) | sorted set per team and challenge, address keys, alert list | `validateSubmission` | trim, count and add are three commands; the wait is computed from an entry others trim | limit kept up to the overlap; the wait told is exact |
| **Instance orchestration** (`ctf-engine/src/orchestrator.ts`) | Docker containers, instance map, metadata, nonces | spawn, teardown, teardown-all, notices | overlapping requests, containers that are started but not recorded, that exit by themselves, lost notices | one container per team; the map names a team's own; teardown-all also ends what the map lost |
| **Leaderboard server** (`ctf-engine/src/leaderboard.ts`) | subscription, rooms, event streams | fan-out of published boards, cached read | writers publish in another order than they stored; clients come and go | all browsers see one order; streams carry their event |
| **Rabbit holes** (`rabbit-holes/src/app.ts`) | the route table, the role of the process | registration, visits | the first registered route wins; honeypot roles run the same script | every declared route is reachable and served as its kind; the port is bound once |
| **Zero days** (`zero-days/src/app.ts`) | Redis flags, caches, unlock keys, a shared prototype | eight exploits, unlock, flag | a crash between two awaits; the backend's answer | nothing before an answer that unlocks; writes in an order that makes sense after a crash |
| **Vulnerable application** (`state_checker.ts`, `internal_api.ts`, `redis.ts`, `db.ts`) | a 30 s cache of challenge states, tables filled at start | gate, start | slow answers stored late; every failure lets through; a start that fails half-way | what is disabled is refused (it is not); flags are the current secret's |
| **Session and socket** (`store/auth.ts`, `admin/layout.tsx`, `lib/socket.ts`) | store of each tab, shared token, socket, timer | sign in and out, `/auth/me`, guard, connect | late answers; two tabs on one token; a replaced socket's close | a tab shows its token's user; one live socket |
| **CTF pages** (`store/ctf.ts`, `app/ctf`) | event, team, lists, one loading flag | visits, join, create, leave, timer, another user's login | answers that overtake each other; a store that outlives its user | the team shown is the user's; the end announced is the event's |
| **Practice pages** (`store/challenges.ts`, `app/practice`) | list, filters, player, hints, flag form | visits, Back and Forward, filters, flags | calls share a flag; a form is mounted again with an older one's flag on its way | skeleton and button tell the truth |
| **Admin pages** (`store/admin.ts`, `app/admin`) | lists, fields, panels | edits, toggles, polls | handlers edit the list their render drew; fields have other names in the backend | once quiet, what is drawn is what is stored, as far as it is sent |
| Connection pool (`database.py`) | 20 + 10 connections per worker | checkout, return, 30 s timeout | a submission may ask for a second connection while it holds one | every request is answered |
| **Rate limiting** (`middleware/rate_limit_middleware.py`) | sorted set per client and path | trim, count, add, expire | four commands; equal clock values collapse; a key that expires | limit kept up to the overlap; nobody refused for an earlier window |
| Challenge schedule (`services/schedule_service.py`) | `schedules`, enabled flags | a pass per minute in each worker | late passes, passes against toggles | enabled, then disabled |
| Challenge catalogue, profiles, accounts, seeding | rows of the database | CRUD, toggles, start-up inserts | read-and-invert toggles; four workers insert the same rows | the toggle asked for is the one stored |
| Backend instance records, web socket, telemetry | rows; connection lists per process | notices, broadcast | a broadcast reaches one worker's clients | |
| Monitoring, statistics, landing page | none | reads | | |
| Other challenges (the race exercises included), TLS lab, WAF, deployment files | challenge content | | | no correctness claim |

How they interact. `submit` reads the active event, writes a submission and, for a correct one in an event,
calls `recalculate_leaderboard` and then the WebSocket broadcast. Teams reach a submission through the
membership check, and the board through `event_participants`. The engine does not touch `submissions`: it
scores into Redis, stores a board and publishes it, and the leaderboard server fans it out. In this
repository nothing calls the engine's `handleSubmission` and `validateSubmission`; they are modelled as the
functions they are, for any callers. The orchestrator is called by the backend and tells it what it did
through `routers/internal.py`. The vulnerable application and the zero-days service ask the backend over
HTTP for the state of a challenge. The frontend talks to the backend's routes, and a tab shares nothing
with another but `localStorage`.

`PROJECT.json` lists the components with what is modelled of each, and under `hazards` every place known
to be hard to test, with the properties that watch it.

## Modules

| Module | Models |
|---|---|
| `CTFEvents` | events, participants, registrations in flight |
| `SubmissionService` (extends `CTFEvents`) | `submit` statement by statement, the leaderboard and its cache |
| `SubmissionSafety` | the properties of submissions and boards |
| `TeamMembership` | teams, members, joins in flight, and their properties |
| `EngineScoring`, `EngineSafety` | the engine's scores command by command; their properties and the mapping to `ScoreLedger` |
| `ScoreLedger` | abstract: one winner per challenge, solves that stay, the bonus to the winner alone |
| `AntiCheat` | `validateSubmission` over a clock |
| `Orchestrator`, `OrchestratorSafety` | spawn, teardown, teardown-all call by call; their properties and the mapping to `InstanceLifecycle` |
| `InstanceLifecycle` | abstract: the life of a container and who may know of it |
| `LeaderboardServer`, `RabbitHoles`, `ZeroDays` | the three services |
| `ChallengeGate`, `VulnDatabase` | the vulnerable application |
| `RateLimiter` | the backend's rate limit |
| `ClientSession`, `ClientSocket`, `CTFPages`, `PracticePages`, `AdminLists`, `AdminStore`, `AdminPanels` | the frontend |
| `CheckThenAct` | lemmas on a count that is read before the insert it guards |
| `SubmissionProofs`, `TeamProofs`, `EngineProofs`, `OrchestratorProofs`, `ServiceProofs`, `PageProofs`, `AdminProofs` | theorems |
| `MCSolo`, `MCEvent`, `MCTeams`, `MCEngine`, `MCOrchestrator`, `MCServices`, `MCPages` | values of the constants, and the two compositions |

A convention of all of them: a step ends where the code awaits (a statement, a command, a call, an answer).
Everything between two awaits runs in one step, which is what Node's event loop, the browser's and a
coroutine of the backend guarantee. Where a call can fail the failure is an action, with the code's
`catch` in it. Definitions marked as mutants are not part of the system: each is a plausible slip in the
definition below it, and shows that some property would notice.

### Submissions and boards

A *slot* is a database connection with the request that holds it; the code has 4 x (20 + 10) of them,
the model any finite set `Slots`. `pc[s]` is the next statement of slot `s` and `req[s]` its locals.
PostgreSQL runs at READ COMMITTED, so each statement sees what is committed when it starts: one statement
is one action, and slots interleave between statements.

| Action | Code (`submission_service.py` unless named) |
|---|---|
| `Begin` | the challenge, team and membership reads, lines 39-79 |
| `ReadActiveEvent` | lines 81-92 |
| `CheckAttempts` | the attempt cap, 94-111 |
| `CheckSolved` | the idempotent-solve check, then the verdict, 113-136 |
| `CheckDependency` | one prerequisite of the chain, 132-152, in any order of the set |
| `ReadFirstBlood` | 158-170 |
| `Insert` | INSERT and COMMIT, 172-186 |
| `Recalculate`, `Publish` | `recalculate_leaderboard`: the query, then the SET |
| `GetLeaderboard`, `GetTeamLeaderboard` | `routers/leaderboard.py`: a recalculation when the cache is missing or empty; always |
| `Abort` | any failure or the death of the worker: the open transaction is rolled back |
| `EventsNext` | the admin operations and registrations of `CTFEvents` |

What is abstracted, and why it is sound:

- `Begin` merges the reads of the challenge, team and roster. They only decide whether the request goes on,
  and any user may be a member of any team and any challenge enabled at that moment, so any request may go on;
  a refused one leaves no trace.
- A flag is its verdict. Hashing is a pure function of the challenge and the flag.
- `created_at` is `DEFAULT now()`, the start of the transaction; `clock` numbers the starts, so no two rows
  have the same time. Rows become visible in the order of their commits, which is another order.
- The score column of a row is a function of challenge, verdict and first blood, so a row keeps `blood`.
- A board is the set of solves it counts. Points, ranks and ties are functions of that set.
- Rows are only inserted: no route deletes a submission. Deleting a challenge that has some violates their
  foreign key; deleting a user that has some, or a membership, fails because the ORM first sets the rows'
  `user_id` to NULL, which the column refuses. Teams are never deleted.
- An empty cached board and a missing one are the same value `{}`: the code treats both as a miss.
- `start_event` and `end_event` write a status whatever it was, so their SELECT and UPDATE are one step.
- UNIQUE(event_id, team_id) of `event_participants` comes from `scripts/init-db.sh` and is not in the ORM model.

### Teams

Joins run in slots as well: look for a membership, count, insert. `CreateTeam` commits team and captain
together. Rows carry an id, so the table could hold the same user twice; that it never does is part of
`Roster`. A leave deletes a row by a role that never changes, so it is one step. There is no route that
transfers ownership, and a captain cannot leave.

### Engine scoring

A *slot* is a call of `handleSubmission` or `broadcastLeaderboardUpdate`; `at[s]` is the Redis command it is
waiting for, `call[s]` its locals. Each action is one command and the code up to the next.

| Action | Code (`scoring.ts`) |
|---|---|
| `HandleSubmission` | entry of `handleSubmission` for a right flag |
| `CountPrerequisite` | one SISMEMBER of the chain depth |
| `ClaimFirstBlood` | SETNX of the first-blood key |
| `StoreScore`, `RecordSolve` | HSET of the score, SADD of the solve |
| `BroadcastLeaderboardUpdate` | entry of the function of that name |
| `ScanScores`, `ReadScores`, `StoreBoard` | `recalculateLeaderboard`: SCAN of the score keys, HGETALL of each, SET of the board |
| `PublishBoard` | PUBLISH to the leaderboard server |
| `Throw` | a command fails or the engine restarts: the call ends, what it wrote stays |

A score is kept as the factors the formula multiplies (depth and bonus); the number follows from them and the
challenge. `EngineSafety` maps `solved`, `paid` and `winner` of `ScoreLedger` to the stored scores and keys
(`Ledger == INSTANCE ScoreLedger WITH ...`). The ledger is honest about what overlaps do: recording a solve
again without the bonus takes the bonus away (the HSET overwrites), and a call that dies between SETNX and
HSET leaves a winner who is never paid. What it excludes is a second winner, a bonus paid to another, and a
solve that disappears.

### Instance orchestration

Slots again, one per HTTP request; `pc[s]` is the call to Redis, Docker or the backend in progress.

| Action | Code (`orchestrator.ts`) |
|---|---|
| `Spawn`, `Teardown`, `TeardownAll` | a request of the three routes arrives |
| `ConsumeNonce`, `NonceExpires` | the nonce is set for a minute if it is not there |
| `ReadMap`, `Inspect`, `Replace` | the lookup of a running instance, and the removal of a stale one |
| `Create`, `Start` | the two calls to Docker |
| `StoreMap`, `StoreMeta`, `NotifySpawned` | the writes to Redis and the notice, which may be lost |
| `FindInstance`, `Stop`, `DeleteMap`, `DeleteMeta`, `NotifyTeardown` | teardown |
| `ReadKeys`, `ReadKey`, `StopKey`, `DeleteKey`, `DeleteKeyMeta` | teardown-all over the map |
| `ListRemaining`, `StopListed`, `AnswerTeardownAll` | teardown-all over what Docker still lists |
| `Exit`, `AutoRemove` | a container ends by itself; an ended one disappears |
| `Fail` | a call throws, or the orchestrator restarts |

Containers have a phase, a label (event, team, challenge) and a name made of event and team only, which Docker
gives to one container at a time. One that was created and never started stays, and Docker's stop refuses it.
Notices overtake each other because each is its own call.
`OrchestratorSafety` maps the containers to `InstanceLifecycle`: nobody is told of a container before it was
started, a team of an event has one at a time, and what is gone does not come back. `TeardownAllStopsLost`
speaks of one sweep: a container that was running when teardown-all last listed has ended when it answers,
unless Docker failed to stop it.

### The services

- `AntiCheat`: the clock ticks `PerSecond` times a second; a call reads it once, when it trims. Entries are
  trimmed, counted and added in three steps. The keys of an address expire by an action of their own.
- `RateLimiter`: one address and path. A request reads the clock once and sends trim, count, add and expire as four
  steps, any of which may fail after it was applied or before. The member of the sorted set is the reading itself
  (`str(now)`), so that requests of one instant leave one entry. The key takes its members with it when it expires
  one second after its window, which a set extended just before may do too early (`lapsed`). The workers and Redis
  are taken to share one clock that does not go back.
- `ChallengeGate`: entry, expiry and requests over a tick counter; `Timeout` is the patience of the code's call.
  `StateRequest` is what the code sends and `StateAnswer` what the backend's route answers to any request; the two
  together give a 401 every time. The rest of the gate (cache hit, stored state, 404) is modelled as it is written
  and never reached, which `GateNeverRefuses` proves. One challenge is enough, as keys of two have nothing in common.
- `VulnDatabase`: the start writes the sample rows in one batch and one INSERT per flag, and may fail between
  any two; it may be restarted under another secret. The SQL-injection exercises run a player's SQL on the same
  database and may change the table of the flags; `FlagsCurrent` speaks of what the starts do.
- `ZeroDays`: one step per await. A body is the set of facts its handler tests. A crash ends the process and
  the requests in flight; Redis keeps what was written. `Statuses` holds the backend's answers: the backend of
  this repository never says `unlocked` (`routers/internal.py:124-131`), so the run includes it to say what
  the service promises to a backend that does. `userId` goes unencoded into the query, so an answer may be about
  another challenge than the request's: the properties speak of the answers each request was given. An expression
  that solves nothing is evaluated (`app.ts:367`) with the Redis client, the prototypes and the process in reach; after
  `Evaluate` the model claims nothing more, and `WritesInOrder` is about the time before it.
- `RabbitHoles`: routes in the order they are registered, for the service and each honeypot role, and the kind of page
  each answers with; a circle's page depends on a depth that is a number or not. Where a visitor goes from there is
  his own affair.
- `LeaderboardServer`: one subscription, per-connection queues in publication order, rooms, event streams.

### The frontend

Calls in flight are a set of records, so answers arrive in any order or are lost. A persisted store writes its
token to `localStorage` at every `set`, and no tab hears of another's. A handler of the admin lists keeps the
rows its render drew (its closure) until the answer comes. A document outlives its pages: Back and Forward mount the
challenge page again with the calls of its earlier mounts in flight (`EnterPlayer`), and another user may sign in without
a page load (`ChangeUser`), which `store/ctf.ts` does not notice. What a part needs of another one, such as the token,
is an input of its own model.

## Runs

All runs of requests use two slots: two is the least with overlap, and every check-then-write of the code
involves one reader and one writer.

| Run | Instance | Shows |
|---|---|---|
| `MCSolo` | 2 users, 1 team, 3 challenges (`c2` requires `c1`, `c3` has a cap of 1), 3 submissions, no event | `AttemptBound`, `SolveBound`, `ChainDiscipline`, `FirstBloodAwarded`, `FirstBloodBound`, and `EveryRequestAnswered` under `FairSpec` |
| `MCEvent` | 1 user, 2 teams, 1 challenge, 1 event, 3 submissions | `TypeOK`, `NoDoubleCount`, `NoOrphanParticipants`, `SolveOnOwnBoard` while an event is created, started, ended and deleted |
| `MCTeams` | 4 users, 2 teams of size 2 | `TypeOK`, `SizeBound`, `Roster` |
| `MCEngine` | 1 event, 2 teams, `c2` requires `c1`, three submissions, 3 calls | `TypeOK`, `ChainBacked`, `BoardCountsStored`, `OwnSolveOnBoard`, the refinement `LedgerSpec`, and `EveryCallReturns` under `FairSpec` |
| `MCOrchestrator` | 1 team, 2 challenges, 2 containers, 1 nonce, 3 requests | `TypeOK`, `MapNamesOwn`, `TeardownAllStopsLost`, the refinement `LifecycleSpec` |
| `MCServices` | seven services, each on its own instance | `WindowBound`, `RetryIsExact`, `NothingBeforeUnlock`, `WritesInOrder`, `RoutesSound`, `BoardsInOrder`, `FlagsCurrent`, `LimitBound`, `RefusedForCause`, and all type invariants |
| `MCPages` | seven parts of the frontend, each on its own instance | `SessionSound`, `SocketSound`, `CTFSound`, `LabSound`, `AdminSound`, and all type invariants |
| `MCSolo_DependencyLookup`, `MCEvent_ScoringFrozen`, `MCPages_CatalogIsShown`, `MCServices_LocalUnlockDecides`, `MCServices_DisabledIsRefused` | as their namesakes | a disagreement each, see below |

Compositions. `SubmissionService` really interleaves with `CTFEvents`, which it reads. `MCServices` and
`MCPages` put parts side by side that share no state: one of them runs in a behaviour (`service`, `part`) and
the others rest in a first state. Interleaving parts without common state reaches no combination a property of
one part could see, so nothing is lost. Both state the type invariants of all parts at once.

Bounds, and why they are enough:

- `MaxRequests`, `MaxCalls`, `MaxStarts`, `MaxSession`, `MaxChanges`, `MaxClicks`, `MaxLab`,
  `MaxEdits`, `MaxActs`, `MaxLooks`, `MaxUnlocks`, `MaxBoards`: how many operations begin in a behaviour. Three is the
  case that matters: two that overlap and one that meets what they left. The frontend takes up to five, since a
  visit, a call and a second visit come before anything interesting.
- `Clock`, `MaxTime`, `MaxClock`: `AntiCheat` needs readings within, at the edge of and past the window; the gate needs
  a lifetime and a timeout to pass after a toggle (2 + 1 + 1 ticks); the limiter needs a window and the second its key
  outlives it to pass after the entry at 1 (to 1 + 4 + 1), so that an entry lapses with its key.
- `RateMax = 1`, a `Limit` of 2 for two guests and a cap of 1 make two overlapping calls exceed the limit, so the bounds
  are met with equality.
- `Ids` bounds the containers ever created: two for one team are the least that lets the name be taken and be
  free again; two challenges let the map be confused.
- Symmetry is used in `MCEvent`, `MCTeams`, `MCOrchestrator` (slots, containers) and `MCPages` (teams), whose
  properties are safety properties: the code compares these values for equality only.
- `CHECK_DEADLOCK FALSE` stands in `MCOrchestrator`, `MCServices` and `MCPages`: there the bound on operations ends
  a behaviour once all calls have returned. The other runs check deadlock.

The bounds with `Slots` in the properties are stated that way because the plain claims are false: a cap of `n` is
exceeded, a challenge is solved twice, two first bloods are given and a team outgrows its limit as soon as two
requests overlap. `AttemptBound`, `SolveBound`, `FirstBloodBound`, `SizeBound`, `WindowBound` and `LimitBound` say by
how much; without the entries that lapse with their key the last one is violated on the instance of its run.

Fairness, only where a liveness property needs it:

- `SubmissionService!FairSpec`: weak fairness of the next statement of every slot. A statement completes or fails;
  rows are only inserted, so no statement of `submit` waits for a lock of another request. No fairness is assumed
  of clients, administrators or failures. The wait for a connection of the pool is left out.
- `EngineScoring!FairSpec`: weak fairness of the next command of every call. Redis answers or the client rejects.
Nothing else is assumed to go on: the services, the pages and the people who use them may stop at any time.

## Proofs

TLAPS proves the following for every value of the constants, from the named assumptions only
(`ConstantsAssumption`, `TeamConstants`, `ScoringAssumption`, `AntiCheatAssumption` and their like; they say that
sentinels are not members, that slots are finite, that lists of prerequisites are finite, that bounds are numbers).

| Module | Theorems |
|---|---|
| `SubmissionProofs` | `TypeCorrect`, `ChainDisciplineHolds`, `FirstBloodAwardedHolds`, `NoDoubleCountHolds`, `NoOrphanHolds`, `SolveOnOwnBoardHolds`, `AttemptBoundHolds`, `SolveBoundHolds`, `FirstBloodBoundHolds` |
| `TeamProofs` | `TypeCorrect`, `RosterHolds`, `SizeBoundHolds` |
| `EngineProofs` | `EngineTypeCorrect`, `EngineImplementsLedger`, `EngineChainBacked`, `EngineBoardCountsStored`, `EngineOwnSolveOnBoard` |
| `OrchestratorProofs` | `OrchestratorTypeCorrect`, `MapNamesOwnHolds`, `OrchestratorImplementsLifecycle`, `TeardownAllStopsLostHolds` |
| `ServiceProofs` | `GateNeverRefuses`, `LimitBoundHolds`, `LimitRefusesForCause`, `VulnFlagsCurrent`, `ZeroDayNothingBeforeUnlock`, `ZeroDayWritesInOrder`, `CheatWindowBound`, `CheatRetryIsExact`, `CheatNoFalseAlert`, `RoutesHold`, `BoardsHold`, `ServicesTyped`, `ServicesHold` |
| `PageProofs` | `SocketHolds`, `LabHolds`, `SessionHolds`, `CTFHolds` |
| `AdminProofs` | `ListHolds`, `StoreHolds`, `PanelsHold`, `AdminHolds`, `PagesHold`, `PagesTyped` |

Every safety property a passing run checks is stated by a theorem. `ServicesHold` and `PagesHold` carry the
theorems about the parts over to the compositions the runs check: a behaviour of `ServicesSpec` or `PagesSpec` is
a behaviour of each part's specification.

None of these properties is inductive by itself. The invariants, and why they are needed:

- `ChainDiscipline` speaks of rows only; `ChainInv` adds the requests: once past the chain check a correct row
  exists for every prerequisite a request does not have to look up any more. Rows are never deleted, so what a
  request saw stays true until its INSERT.
- `FirstBloodAwarded`: `FirstBloodInv` carries in the request that, as long as its challenge is unsolved, it was
  told to be first.
- `NoDoubleCount`: `BoardInv` says of every computed board what the property says of the cached one, and
  `TimeInv` that creation times are distinct, so that DISTINCT ON keeps one row.
- `SolveOnOwnBoard`: `OwnRowInv` keeps, from the INSERT to the recalculation, that the request's row is there, and
  that a recalculation without a request is a route's. The board's row is the oldest of the team and challenge,
  which exists because times are natural numbers.
- The bounds: the count and the insert are two steps, so the count alone is no invariant. What is invariant is
  what was written *plus* the slots let through and not yet done, at most the limit plus the number of slots
  (`AttemptInv`, `SolveInv`, `BloodInv`, `SizeInv`, and `RoomLeft` of the window). `CheckThenAct` proves the
  step once for the first four (`BoundKept`); the window also shrinks, so it has its own argument.
- `Roster` needs `TeamExists`: a team without an owner has no rows and no joins.
- `LedgerSpec` needs `ClaimHeld`: between SETNX and HSET, a call that will pay the bonus still holds the claim.
  Every command then maps to a ledger step or a stutter.
- `ChainBacked`: `ChainInv` bounds the depth counted so far by the prerequisites looked at so far that are stored.
- `BoardCountsStored`, `OwnSolveOnBoard`: `BoardInv` and `OwnInv` follow a board while it is read key by key:
  the teams still to be read are not on it, and the solver's team is still to be read or on it.
- `LifecycleSpec`, `MapNamesOwn`, `TeardownAllStopsLost`: `RequestOK` gives every call its key, nonce or
  instance; `LifeInv` says that an id a slot holds belongs to its key and was started before it is told;
  `SweepInv` that what a sweep found is still to be stopped, or ended, or its stop failed.
- `GateStaysOpen`: `GateInv` says that no answer on its way is a state, so that nothing is cached and no request is
  decided by one.
- `LimitBound`: `LimitInv` keeps that the entries and the requests about to add one are at most the limit and the
  number of requests (`RoomForAdders`), and that an instant entered within the window is in the set or has lapsed.
- `RefusedForCause`: `FewStale` counts, for a request about to look, the entries older than its window that others
  may still have left for it.
- `NoFalseAlert`: `AddressInv` says that an address key names a team that submitted from the address, and that a
  slot about to raise an alert has seen another one, which stays true when the key expires.
- `FlagsCurrent`: `FlagsSoFar` covers the flags a start has already inserted.
- `NothingBeforeUnlock`, `WritesInOrder`: `ZeroInv` says per request which commands it has still to send and that
  they come in order; Redis only grows until an expression is evaluated, which only an admitted `zd-007` does.
- `RetryIsExact`: the oldest entry exists by well-foundedness of the naturals, and rounding up to whole seconds
  is exact (`RoundedUp`).
- `SocketSound`: the timer belongs to an open socket. `LabSound`: every mount gets a number no
  earlier call carries (`LabNumbers`), so that an answer to a form that was left finds another one.
  `SessionSound`: per tab, that a layout which asked waits for a call, and what a late answer may change.
- `RoutesSound`: which route answers is the least that matches, found by cases on the path (`ServingIs`); the
  invariant says that the routes of the script are in place before a request is answered.
- `BoardsInOrder`: some rank of the updates never falls along what waits for the server, nor along what any
  browser has been sent, and what was sent ranks no higher than what waits. That such a rank exists is the invariant
  (`InOrder`); an update that is published gets the next rank, and a delivery moves the head of what waits to the
  ends of lists. `AnswerNotOlder` needs `LbCached`: what is published was stored before.
- `CTFSound`, `AdminSound`: calls carry the moment at which the backend served them. `CTFInv`, `ListInv`, `StoreInv`
  and `PanelInv` say that what is shown, or is in an answer that still counts, is what the database holds, or an
  answer to a later write is still to come, or the history has noted why not (an answer lost, overtaken, or for a
  page that was left).
- `ServicesTyped`, `PagesTyped`: the conjunction of the parts' invariants; a step of the whole is a step of each
  part or leaves it alone (`StepOfEach`).

What proving changed in the models:

- `AdminPanels`: the claim that the switch of the rabbit holes stands as it does for some worker was true on the
  instance of the run and false beyond it. With one worker and four looks TLC shows the page left and opened again
  while a flip is on its way: the backend serves the fetch of the new opening before the flip, and what the flip's
  answer sets off is a fetch for the page that was left, which nobody draws. The history now notes such an answer
  (`doubted` in `ToggleArrives`), as it did a lost or overtaken one.
- `CTFPages`: the assumption that `"refused"` is no team, which the answers of a join rely on.
- Forms the provers can work with, of the same meaning: the routes of `RabbitHoles` are one sequence of records,
  and strings have no blanks where proofs compare them.

Only model-checked: liveness (`EveryRequestAnswered`, `EveryCallReturns`), which is out of the
prover's reach, and the runs that find violations. What the models abstract (formulas, wording, payloads) is neither
checked nor proved.

## Disagreements

Five runs find what a comment, message or document says violated by what the code does; the quotes are under
`findings` in `PROJECT.json`:

| Run | Finding |
|---|---|
| `MCSolo_DependencyLookup` | a user with two correct rows of a prerequisite gets an exception where one row is expected; one slot is enough |
| `MCEvent_ScoringFrozen` | the cached board changes after the event has ended |
| `MCPages_CatalogIsShown` | the practice list reads fields `GET /challenges` does not send, and throws as soon as it is answered |
| `MCServices_DisabledIsRefused` | the gate sends the backend no key and no UUID, is refused each time, and lets everything through: a disabled challenge stays open (`docs/ADMIN.md:43-45`) |
| `MCServices_LocalUnlockDecides` | a zero-day whose unlock key is stored is refused as locked: no exploit reads the key |

More are stated as definitions that no run names; each is one line in a `.cfg` away. TLC finds all of these violated:
in `SubmissionSafety` `IdempotentSolve` (two overlapping correct submissions are both scored),
`FirstBloodCounted` (of two overlapping solves the one that began first hides the one with the bonus),
`TeamOnlyDuringEvent` (a solo submission in flight when an event starts), `ShownSolveStays` (an older board over a
newer one) and `ActiveEventLookupUnambiguous` (two active events); in `CTFEvents` `RegistrationClosed`; in `AdminLists`
`CategorySwitchFlips` (the page calls POST, the route is PATCH, and the 405 is ignored); in `AdminPanels`
`SwitchIsInSync` (the flag is per worker). `GateStaysOpen` of `ChallengeGate` and `NoFalseAlert` of `AntiCheat` are in
no run either, but are proved.

Deviations a property names as its exception, because the code has them:

- `FieldsSettle` (`AdminStore`): `GET /challenges` sends `enabled` and `hint_enabled` where the page reads `is_active` and
  `hints_enabled`. After every fetch both are undefined, and a switch without a value draws a state of its own, off
  when it is mounted (`ChallengeToggle.tsx:52-53`): the admin sees off for what the database has on, until an update of
  that field succeeds. `ownSwitch` is that state; it is lost when the group is closed.
- `ListSettles` (`AdminLists`): of two overlapping deletes the second puts the row of the first back, since each filters
  the list it was drawn with. The history `stale` excuses the list until it is fetched.
- `TeamShownIsOurs` (`CTFPages`): an answer that overtakes a write, one that is lost, and another user in the tab leave a
  team on the page that is not the user's (`auth.ts:75-77` resets nothing of `store/ctf.ts`), for good when the fetch
  fails (`ctf.ts:91`). The history `doubt` excuses them until the team is fetched.
- `EndIsAnnounced` (`CTFPages`): an event without an end is shown as ended from its start, because `new Date(null)` is the
  epoch (`EventTimer.tsx:31-42`); the property speaks of events that have one.
- `UserOwnsToken` (`ClientSession`): an answer of `/auth/me` that overtakes a login or logout is stored (`crossed`).
- `NoTimerLeaks` (`ClientSocket`) forbids a timer too many, not the one that is missing after the late close event of a
  replaced socket.

Met while modelling, and visible in the models without a property: nothing reconnects a socket whose server closed it;
a restart of the vulnerable application inserts its sample products and comments again; `GET /challenges/{id}` sends no
hints and the page throws on them; `POST /auth/register` returns the user without a token; a crash between the engine's
SETNX and HSET leaves the first-blood bonus with nobody. Seen in documents: `docs/ADMIN.md:201` speaks of infinite redirect
loops where the pages of a circle carry links that stop at depth 5 (a very negative depth, to which adding one changes
nothing, goes on for ever), and `docs/SECURITY.md:83` of 5 attempts a minute where the code allows 10.

## Not modelled

- How the rate limiter reads the address of a client from the headers.
- Challenge schedule: a pass compares wall-clock times with a window of a minute once a minute; what happens
  depends on timer drift the code does not bound.
- Connection pool: a counter next to every statement of a submission, with a timeout; the liveness properties
  here assume a connection is had.
- Challenge catalogue, profiles, accounts, seeding: single-row updates and start-up inserts. Their toggles appear as
  actions of `ChallengeGate`, `AdminStore` and `AdminLists`.
- The backend's instance records and web socket: the records follow the notices `Orchestrator` sends; no delivery
  is promised on the socket.
- Of the admin pages `BulkActionBar.tsx`, the import and search fields and the YAML export.
- Monitoring, statistics, landing page, presentation, token handling: they only read or are stateless.
- The race exercises (`routes/race`): they lose their limits to races on purpose and take any body. An amount that is
  a string is subtracted from one balance and appended to the other (`race-02.ts:13-14`), so that not even the money is
  conserved, and no invariant of theirs is worth stating.
- The other challenges of the vulnerable application, the decoys' payloads, TLS lab, WAF rules, challenge and
  deployment files: content without a correctness claim.

Which HTTP status a refused request gets, and wording, are left out everywhere unless a property is about them.
