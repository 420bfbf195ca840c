---------------------------- MODULE RateLimiter ----------------------------
(***************************************************************************)
(* The rate limit of the backend (middleware/rate_limit_middleware.py):    *)
(* in front of every route, the requests of one address to one path are    *)
(* kept in a sorted set of Redis, trimmed, counted and extended by three   *)
(* commands, and a fourth one renews the lifetime of the set.              *)
(*                                                                         *)
(* The member of a request is its reading of the clock and nothing else,   *)
(* so that the set is one of instants: requests of several workers that    *)
(* read the same instant leave one entry.  One address and one path stand  *)
(* for all: the keys of two have nothing in common.                        *)
(***************************************************************************)
EXTENDS Integers, FiniteSets

CONSTANTS
    Guests,        \* the requests that may be in the middleware together
    Limit,         \* the requests of a window: 100, or 10 for login and register
    LimitWindow,   \* its length
    MaxClock       \* bound: the instants of a behaviour

VARIABLES
    clock,
    limitAt,       \* limitAt[g]: the command request g is about to send
    readAt,        \* readAt[g]: its reading of the clock
    entries,       \* the sorted set: a member is its own score
    expiry,        \* when the key expires, 0 when it has no expiry
    entered,       \* history: the instants entered, by every request let through and
                   \* by those that failed after their entry
    lapsed,        \* history: the instants that left with the key before their time
    turnedAway     \* the last refusal: when its request read the clock, and how many
                   \* instants of the window before had been entered

limitVars == <<clock, limitAt, readAt, entries, expiry, entered, lapsed, turnedAway>>

ASSUME LimitAssumption ==
    /\ IsFiniteSet(Guests) /\ Guests # {}
    /\ Limit \in Nat \ {0} /\ LimitWindow \in Nat \ {0} /\ MaxClock \in Nat

Young(t) == t > clock - LimitWindow
After(set, t) == {i \in set : i > t - LimitWindow}

LimitTypeOK ==
    /\ clock \in 1 .. MaxClock + 1
    /\ limitAt \in [Guests -> {"idle", "trim", "count", "add", "expire"}]
    /\ readAt \in [Guests -> 0 .. clock]
    /\ entries \subseteq entered /\ lapsed \subseteq entered
    /\ entered \subseteq 1 .. clock
    /\ expiry \in 0 .. clock + LimitWindow + 1
    /\ entries = {} => expiry = 0

LimitInit ==
    /\ clock = 1
    /\ limitAt = [g \in Guests |-> "idle"] /\ readAt = [g \in Guests |-> 0]
    /\ entries = {} /\ expiry = 0
    /\ entered = {} /\ lapsed = {}
    /\ turnedAway = [at |-> 0, seen |-> Limit]
-----------------------------------------------------------------------------
Proceed(g, command) == limitAt' = [limitAt EXCEPT ![g] = command]

(* The clock is read once, before the first command.                       *)
Enter(g) ==
    /\ limitAt[g] = "idle"
    /\ Proceed(g, "trim")
    /\ readAt' = [readAt EXCEPT ![g] = clock]
    /\ UNCHANGED <<clock, entries, expiry, entered, lapsed, turnedAway>>

\* Mutant of Outdated: entries are dropped after two windows.
OutdatedTwice(g) == {t \in entries : t <= readAt[g] - 2 * LimitWindow}

Outdated(g) == {t \in entries : t <= readAt[g] - LimitWindow}

(* A sorted set without a member is no key, and has no expiry.             *)
Trim(g) ==
    /\ limitAt[g] = "trim"
    /\ entries' = entries \ Outdated(g)
    /\ expiry' = IF entries' = {} THEN 0 ELSE expiry
    /\ Proceed(g, "count")
    /\ UNCHANGED <<clock, readAt, entered, lapsed, turnedAway>>

\* Mutant of Full: one request too many.
FullBeyond(n) == n > Limit

Full(n) == n >= Limit

(* A full window is a 429; its Retry-After is the window.                  *)
Count(g) ==
    /\ limitAt[g] = "count"
    /\ IF Full(Cardinality(entries))
       THEN /\ Proceed(g, "idle")
            /\ turnedAway' = [at |-> readAt[g], seen |-> Cardinality(After(entered, readAt[g]))]
       ELSE Proceed(g, "add") /\ UNCHANGED turnedAway
    /\ UNCHANGED <<clock, readAt, entries, expiry, entered, lapsed>>

Add(g) ==
    /\ limitAt[g] = "add"
    /\ entries' = entries \cup {readAt[g]}
    /\ entered' = entered \cup {readAt[g]}
    /\ Proceed(g, "expire")
    /\ UNCHANGED <<clock, readAt, expiry, lapsed, turnedAway>>

\* Mutant of Expire: a lifetime of two windows.
ExpireTwice(g) ==
    /\ limitAt[g] = "expire"
    /\ expiry' = IF entries = {} THEN 0 ELSE clock + 2 * LimitWindow + 1
    /\ Proceed(g, "idle")
    /\ UNCHANGED <<clock, readAt, entries, entered, lapsed, turnedAway>>

(* The request goes on to its route.                                       *)
Expire(g) ==
    /\ limitAt[g] = "expire"
    /\ expiry' = IF entries = {} THEN 0 ELSE clock + LimitWindow + 1
    /\ Proceed(g, "idle")
    /\ UNCHANGED <<clock, readAt, entries, entered, lapsed, turnedAway>>

(* Redis fails, with the last command applied or not, and the request ends *)
(* with a 500.                                                             *)
LimitFails(g) ==
    /\ limitAt[g] # "idle"
    /\ Proceed(g, "idle")
    /\ UNCHANGED <<clock, readAt, entries, expiry, entered, lapsed, turnedAway>>

(* Time passes; a key whose time has come is gone with all its members.    *)
Pass ==
    /\ clock <= MaxClock
    /\ clock' = clock + 1
    /\ IF expiry # 0 /\ expiry <= clock + 1
       THEN /\ lapsed' = lapsed \cup {t \in entries : t > clock + 1 - LimitWindow}
            /\ entries' = {} /\ expiry' = 0
       ELSE UNCHANGED <<entries, expiry, lapsed>>
    /\ UNCHANGED <<limitAt, readAt, entered, turnedAway>>

LimitNext ==
    \/ \E g \in Guests : \/ Enter(g) \/ Trim(g) \/ Count(g) \/ Add(g) \/ Expire(g)
                         \/ LimitFails(g)
    \/ Pass

LimitSpec == LimitInit /\ [][LimitNext]_limitVars
-----------------------------------------------------------------------------
(* The count and the entry are two commands, so that overlapping requests  *)
(* pass together, but never as many as there are of them beyond the limit, *)
(* one more for each instant that left with its key, between an entry and  *)
(* the EXPIRE that was to renew it, and with the requests that read the    *)
(* same instant as one (rate_limit_middleware.py:104-115).                 *)
LimitBound ==
    Cardinality({t \in entered : Young(t)})
        < Limit + Cardinality(Guests) + Cardinality({t \in lapsed : Young(t)})

(* Nobody is turned away for requests of an earlier window, except for     *)
(* those that overtook it: one for each of the others in the middleware    *)
(* (rate_limit_middleware.py:101-107).                                     *)
RefusedForCause == turnedAway.seen + Cardinality(Guests) > Limit
=============================================================================
