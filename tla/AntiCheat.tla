----------------------------- MODULE AntiCheat -----------------------------
(***************************************************************************)
(* validateSubmission of the ctf-engine (anti-cheat.ts): the checks a flag *)
(* passes before it is scored.  The already-solved check, the flag's       *)
(* shape, the attempt window of a team and a challenge, and the address    *)
(* two teams share.                                                        *)
(*                                                                         *)
(* As in EngineScoring, a step ends at the await of a Redis command.  Time *)
(* is counted in ticks, PerSecond of them a second; a call reads the clock *)
(* once, when it sends the command that trims the window, and nothing else *)
(* depends on the time.                                                    *)
(***************************************************************************)
EXTENDS Integers, FiniteSets

CONSTANTS
    Teams, Challenges, Addresses, Slots,
    Attempts,    \* the <<team, challenge, address>> clients submit
    NoTeam,
    RateWindow,  \* RATE_LIMIT_WINDOW, in seconds
    RateMax,     \* RATE_LIMIT_MAX
    PerSecond,   \* the resolution of the clock
    NoAttempt, NoRefusal,
    MaxCalls,    \* bound: the calls begun in a behaviour
    Clock        \* bound: the ticks at which the clock is read

VARIABLES
    now,      \* the last reading of the clock
    window,   \* window[k]: the members of anti-cheat:ratelimit:{team}:{challenge}
    ipTeam,   \* ipTeam[a]: anti-cheat:ip:{a}
    alerts,   \* the entries of anti-cheat:alerts
    step,     \* step[s]: the next command of validateSubmission in slot s
    attempt,  \* attempt[s]: the attempt slot s validates
    refusal,  \* refusal[s]: what checkRateLimit last refused in slot s
    calls     \* the number of calls begun

cheatVars == <<now, window, ipTeam, alerts, step, attempt, refusal, calls>>

Keys == Teams \X Challenges
Member == [time : Nat, id : Nat]
Attempt == [team : Teams, chal : Challenges, ip : Addresses, now : Nat, id : Nat]
Alert == [team : Teams, ip : Addresses]
Refusal == [now : Nat, oldest : Nat, retry : Nat]

ASSUME AntiCheatAssumption ==
    /\ IsFiniteSet(Slots)
    /\ NoTeam \notin Teams
    /\ Attempts \subseteq Teams \X Challenges \X Addresses
    /\ RateWindow \in Nat \ {0}
    /\ RateMax \in Nat \ {0}
    /\ PerSecond \in Nat \ {0}
    /\ MaxCalls \in Nat
    /\ Clock \subseteq Nat
    /\ NoAttempt \notin Attempt
    /\ NoRefusal \notin Refusal

CheckSteps == {"idle", "trim", "zcard", "zrange", "zadd", "get", "setex", "lpush", "allowed"}

CheatTypeOK ==
    /\ now \in Nat
    /\ window \in [Keys -> SUBSET Member]
    /\ ipTeam \in [Addresses -> Teams \cup {NoTeam}]
    /\ alerts \subseteq Alert
    /\ step \in [Slots -> CheckSteps]
    /\ attempt \in [Slots -> Attempt \cup {NoAttempt}]
    /\ refusal \in [Slots -> Refusal \cup {NoRefusal}]
    /\ calls \in Nat
    /\ \A s \in Slots : step[s] # "idle" => attempt[s] # NoAttempt

CheatInit ==
    /\ now = 0
    /\ window = [k \in Keys |-> {}]
    /\ ipTeam = [a \in Addresses |-> NoTeam]
    /\ alerts = {}
    /\ step = [s \in Slots |-> "idle"]
    /\ attempt = [s \in Slots |-> NoAttempt]
    /\ refusal = [s \in Slots |-> NoRefusal]
    /\ calls = 0
-----------------------------------------------------------------------------
Goto(s, command) == step' = [step EXCEPT ![s] = command]

Finish(s) ==
    /\ Goto(s, "idle")
    /\ attempt' = [attempt EXCEPT ![s] = NoAttempt]

Key(s) == <<attempt[s].team, attempt[s].chal>>

\* The first command, HEXISTS, may find the challenge solved; then the flag may have
\* the wrong shape or look like a test value, a matter of its characters (a generated
\* flag may hold "1234").  Any attempt may be refused here.
ValidateSubmission(s) ==
    /\ step[s] = "idle"
    /\ calls < MaxCalls
    /\ \/ \E v \in Attempts :
             /\ attempt' = [attempt EXCEPT ![s] =
                               [team |-> v[1], chal |-> v[2], ip |-> v[3], now |-> 0, id |-> calls]]
             /\ Goto(s, "trim")
       \/ UNCHANGED <<attempt, step>>
    /\ refusal' = [refusal EXCEPT ![s] = NoRefusal]
    /\ calls' = calls + 1
    /\ UNCHANGED <<now, window, ipTeam, alerts>>
-----------------------------------------------------------------------------
(* checkRateLimit *)

InWindow(members, t) == {m \in members : m.time > t - RateWindow * PerSecond}

\* ZREMRANGEBYSCORE up to the start of the window, by the clock read just before.
TrimWindow(s) ==
    /\ step[s] = "trim"
    /\ now' \in {t \in Clock : t >= now}
    /\ attempt' = [attempt EXCEPT ![s].now = now']
    /\ window' = [window EXCEPT ![Key(s)] = InWindow(@, now')]
    /\ Goto(s, "zcard")
    /\ UNCHANGED <<ipTeam, alerts, refusal, calls>>

\* Mutant of TooMany: one attempt too many.
TooManyLate(n) == n > RateMax

TooMany(n) == n >= RateMax

CountAttempts(s) ==
    /\ step[s] = "zcard"
    /\ Goto(s, IF TooMany(Cardinality(window[Key(s)])) THEN "zrange" ELSE "zadd")
    /\ UNCHANGED <<now, window, ipTeam, alerts, attempt, refusal, calls>>

\* Mutant of SecondsUntil: rounded down.
SecondsUntilFloor(ticks) == IF ticks < PerSecond THEN 1 ELSE ticks \div PerSecond

\* Math.max(Math.ceil(ticks / PerSecond), 1)
SecondsUntil(ticks) ==
    IF ticks <= PerSecond THEN 1 ELSE (ticks + PerSecond - 1) \div PerSecond

\* The oldest member, or the caller's clock when the window has emptied meanwhile.
OldestOf(members, t) ==
    IF members = {} THEN t
    ELSE (CHOOSE m \in members : \A n \in members : m.time <= n.time).time

RefuseRate(s) ==
    /\ step[s] = "zrange"
    /\ LET t == attempt[s].now
           oldest == OldestOf(window[Key(s)], t)
       IN  refusal' = [refusal EXCEPT ![s] =
              [now |-> t, oldest |-> oldest,
               retry |-> SecondsUntil(oldest + RateWindow * PerSecond - t)]]
    /\ Finish(s)
    /\ UNCHANGED <<now, window, ipTeam, alerts, calls>>

\* The member carries a random suffix, so two at one clock reading are two.  The
\* EXPIRE that follows never drops a member before the window does.
AddAttempt(s) ==
    /\ step[s] = "zadd"
    /\ window' = [window EXCEPT ![Key(s)] = @ \cup {[time |-> attempt[s].now,
                                                     id |-> attempt[s].id]}]
    /\ Goto(s, "get")
    /\ UNCHANGED <<now, ipTeam, alerts, attempt, refusal, calls>>
-----------------------------------------------------------------------------
(* checkDuplicateIP *)

\* Mutant of IsShared: the team itself counts as another one.
IsSharedWithAny(a, t) == ipTeam[a] # NoTeam

IsShared(a, t) == ipTeam[a] # NoTeam /\ ipTeam[a] # t

ReadAddress(s) ==
    /\ step[s] = "get"
    /\ Goto(s, IF IsShared(attempt[s].ip, attempt[s].team) THEN "lpush" ELSE "setex")
    /\ UNCHANGED <<now, window, ipTeam, alerts, attempt, refusal, calls>>

\* The SADD and EXPIRE that follow keep the list of teams an alert names, which is
\* left out here.
ClaimAddress(s) ==
    /\ step[s] = "setex"
    /\ ipTeam' = [ipTeam EXCEPT ![attempt[s].ip] = attempt[s].team]
    /\ Goto(s, "allowed")
    /\ UNCHANGED <<now, window, alerts, attempt, refusal, calls>>

\* The attempt is flagged for review and allowed all the same.
RaiseAlert(s) ==
    /\ step[s] = "lpush"
    /\ alerts' = alerts \cup {[team |-> attempt[s].team, ip |-> attempt[s].ip]}
    /\ Goto(s, "allowed")
    /\ UNCHANGED <<now, window, ipTeam, attempt, refusal, calls>>

\* The key of an address reaches its TTL of an hour, which is out of the reach of
\* the clock here: at any time.
AddressExpires(a) ==
    /\ ipTeam' = [ipTeam EXCEPT ![a] = NoTeam]
    /\ UNCHANGED <<now, window, alerts, step, attempt, refusal, calls>>

ClearAlerts ==
    /\ alerts' = {}
    /\ UNCHANGED <<now, window, ipTeam, step, attempt, refusal, calls>>
-----------------------------------------------------------------------------
\* validateSubmission answers that the attempt is allowed.
Allow(s) ==
    /\ step[s] = "allowed"
    /\ Finish(s)
    /\ UNCHANGED <<now, window, ipTeam, alerts, refusal, calls>>

\* A command fails, or the engine restarts.
ThrowCheck(s) ==
    /\ step[s] # "idle"
    /\ Finish(s)
    /\ UNCHANGED <<now, window, ipTeam, alerts, refusal, calls>>

CheckStep(s) ==
    \/ TrimWindow(s)
    \/ CountAttempts(s)
    \/ RefuseRate(s)
    \/ AddAttempt(s)
    \/ ReadAddress(s)
    \/ ClaimAddress(s)
    \/ RaiseAlert(s)
    \/ Allow(s)

CheatNext ==
    \/ \E s \in Slots :
          \/ ValidateSubmission(s)
          \/ CheckStep(s)
          \/ ThrowCheck(s)
    \/ \E a \in Addresses : AddressExpires(a)
    \/ ClearAlerts

CheatSpec == CheatInit /\ [][CheatNext]_cheatVars
-----------------------------------------------------------------------------
\* The window is counted in one command and extended in a later one, so attempts
\* that overlap pass the limit together, but never as many beyond it as there are
\* slots (checkRateLimit).
WindowBound == \A k \in Keys : Cardinality(window[k]) < RateMax + Cardinality(Slots)

\* The wait a refused team is told is long enough for the oldest attempt to leave
\* the window, and one second less would not be, unless it is the least wait of a
\* second (checkRateLimit, "retry_after").
RetryIsExact ==
    \A s \in Slots : refusal[s] # NoRefusal =>
        LET oldest == {[time |-> refusal[s].oldest]}
            after(seconds) == InWindow(oldest, refusal[s].now + seconds * PerSecond)
        IN  /\ after(refusal[s].retry) = {}
            /\ refusal[s].retry > 1 => after(refusal[s].retry - 1) # {}

\* Nobody is reported for sharing an address with himself: an alert is raised only
\* for an address that another team submits from (checkDuplicateIP), whatever the
\* two keys of the address lost in between.
NoFalseAlert ==
    \A l \in alerts : \E v \in Attempts : v[3] = l.ip /\ v[1] # l.team
=============================================================================
