------------------------------ MODULE ZeroDays ------------------------------
(***************************************************************************)
(* The zero-days service (zero-days/src/app.ts): eight endpoints that ask  *)
(* the backend whether the challenge is unlocked, judge the request and,   *)
(* when it solves the challenge, store a new flag in Redis and return it.  *)
(*                                                                         *)
(* The body of a request is kept as the set of facts the handler tests.    *)
(* Every await is a step of its own.  A handler that throws rejects its    *)
(* promise with nobody listening, so the process exits and is restarted:   *)
(* what the requests in flight had written stays in Redis.                 *)
(***************************************************************************)
EXTENDS Integers, FiniteSets

CONSTANTS
    Solvers,      \* the requests that may be in flight together
    Statuses,   \* what the status endpoint of the backend may answer
    MaxRequests,  \* bound: the exploit requests of a behaviour
    MaxUnlocks    \* bound: the unlock keys of a behaviour

VARIABLES
    zdAt,        \* zdAt[s]: what request s waits for
    zdReq,       \* zdReq[s]: the challenge, and the commands still to send
    flags,       \* the challenges with a key flag:{zd}
    unlockKeys,  \* the challenges with a key zero-day:unlock:{zd}
    cached,      \* the build-cache entries: "plain" ones and "system" ones
    poisoned,    \* the members of build-cache:poisoned
    polluted,    \* the tested properties Object.prototype carries in this process
    requests,    \* the exploit requests so far
    evaluated,   \* an expression of a caller was evaluated in this process
    admitted,    \* history: the challenges a request of which was answered "unlocked"
    handed,      \* history: the challenges whose flag was returned to a solver
    refusedLate  \* history: the challenges refused as locked after their unlock

zdVars == <<zdAt, zdReq, flags, unlockKeys, cached, poisoned, polluted,
            requests, evaluated, admitted, handed, refusedLate>>

Ids == {"zd-001", "zd-002", "zd-003", "zd-004", "zd-005", "zd-006", "zd-007", "zd-008"}
Entries == {"plain", "system"}
Inherited == {"isAdmin", "role"}
Commands == {"publish", "cache plain", "cache system", "poison", "flag", "answer"}

ASSUME ZeroDayAssumption ==
    /\ IsFiniteSet(Solvers)
    /\ Statuses \subseteq {"unlocked", "locked"}
    /\ MaxRequests \in Nat /\ MaxUnlocks \in Nat

ZeroDayTypeOK ==
    /\ zdAt \in [Solvers -> {"idle", "status", "commands"}]
    /\ \A s \in Solvers : zdAt[s] # "idle" => zdReq[s].zd \in Ids
    /\ \A s \in Solvers : zdAt[s] = "commands" => zdReq[s].todo \in (SUBSET Commands) \ {{}}
    /\ flags \subseteq Ids /\ unlockKeys \subseteq Ids /\ admitted \subseteq Ids
    /\ handed \subseteq Ids /\ refusedLate \subseteq Ids
    /\ cached \subseteq Entries /\ poisoned \subseteq Entries
    /\ polluted \subseteq Inherited /\ evaluated \in BOOLEAN
    /\ requests \in 0 .. MaxRequests

Nobody == [zd |-> "none", todo |-> {}]

ZeroDayInit ==
    /\ zdAt = [s \in Solvers |-> "idle"]
    /\ zdReq = [s \in Solvers |-> Nobody]
    /\ flags = {} /\ unlockKeys = {} /\ cached = {} /\ poisoned = {}
    /\ polluted = {}
    /\ requests = 0 /\ evaluated = FALSE
    /\ admitted = {} /\ handed = {} /\ refusedLate = {}
-----------------------------------------------------------------------------
(* The handlers: what a body that is let through makes of the request.     *)
Judge(accepted, solves, otherwise) ==
    IF ~accepted THEN "refused" ELSE IF solves THEN "solved" ELSE otherwise

Zd001(b) == Judge("input" \in b /\ "blocked" \notin b, "second field" \in b, "refused")
Zd002(b) == Judge({"channel", "message", "internal"} \subseteq b, "many lines" \in b, "partial")
Zd003(b) == Judge("payload" \in b /\ "unmergeable" \notin b,
                  polluted \cup (b \cap Inherited) # {}, "partial")
Zd004(b) ==
    Judge({"build", "path", "content"} \subseteq b, {"upward", "system file"} \subseteq b, "partial")
Zd005(b) == Judge({"token", "target", "decodes", "user"} \subseteq b /\ "role" \in b \cup polluted,
                  "other user" \in b, "partial")
Zd006(b) == Judge("path" \in b, {"rsc", "internal path"} \subseteq b, "partial")
Zd007(b) == Judge("expression" \in b,
                  {"plugin", "loaded code"} \subseteq b \/ "global" \in b, "partial")
Zd008(b) == Judge("name" \in b, {"first link", "second link"} \subseteq b, "partial")

Verdict(zd, b) ==
    CASE zd = "zd-001" -> Zd001(b) [] zd = "zd-002" -> Zd002(b)
      [] zd = "zd-003" -> Zd003(b) [] zd = "zd-004" -> Zd004(b)
      [] zd = "zd-005" -> Zd005(b) [] zd = "zd-006" -> Zd006(b)
      [] zd = "zd-007" -> Zd007(b) [] zd = "zd-008" -> Zd008(b)

Facts(zd) ==
    CASE zd = "zd-001" -> {"input", "blocked", "second field"}
      [] zd = "zd-002" -> {"channel", "message", "internal", "many lines"}
      [] zd = "zd-003" -> {"payload", "unmergeable"} \cup Inherited
      [] zd = "zd-004" -> {"build", "path", "content", "upward", "system file"}
      [] zd = "zd-005" -> {"token", "target", "decodes", "user", "role", "other user"}
      [] zd = "zd-006" -> {"path", "rsc", "internal path"}
      [] zd = "zd-007" -> {"expression", "plugin", "loaded code", "global"}
      [] zd = "zd-008" -> {"name", "first link", "second link"}
      [] OTHER -> {}

(* The Redis commands a verdict leads to, sent in the order of Rank.       *)
CommandsOf(zd, verdict) ==
    (IF zd = "zd-002" THEN {"publish"} ELSE {})
    \cup (IF zd # "zd-004" THEN {}
          ELSE IF verdict = "solved" THEN {"cache system", "poison"} ELSE {"cache plain"})
    \cup (IF verdict = "solved" THEN {"flag", "answer"} ELSE {})

\* Mutant of Rank: the flag and the list are sent side by side.
RankAside(c) == IF c = "answer" THEN Commands \ {"answer"} ELSE {}

Rank(c) == CASE c \in {"publish", "cache plain", "cache system"} -> {}
             [] c = "poison" -> {"cache system"}
             [] c = "flag" -> {"publish", "cache system", "poison"}
             [] c = "answer" -> Commands \ {"answer"}
-----------------------------------------------------------------------------
Free(s) == /\ zdAt' = [zdAt EXCEPT ![s] = "idle"]
           /\ zdReq' = [zdReq EXCEPT ![s] = Nobody]

Exploit(s, zd) ==
    /\ zdAt[s] = "idle"
    /\ requests < MaxRequests
    /\ requests' = requests + 1
    /\ zdAt' = [zdAt EXCEPT ![s] = "status"]
    /\ zdReq' = [zdReq EXCEPT ![s] = [zd |-> zd, todo |-> {}]]
    /\ UNCHANGED <<flags, unlockKeys, cached, poisoned, polluted, evaluated, admitted, handed, refusedLate>>

\* Mutant of Locked: a failed call reads as unlocked.
LockedFailingOpen(status) == status = "locked"

(* ensureUnlocked catches every failure of the backend and answers false. *)
Locked(status) == status # "unlocked"

RefuseLocked(s, status) ==
    /\ zdAt[s] = "status"
    /\ Locked(status)
    /\ refusedLate' = refusedLate \cup ({zdReq[s].zd} \cap unlockKeys)
    /\ Free(s)
    /\ UNCHANGED <<requests, flags, unlockKeys, cached, poisoned, polluted, evaluated, admitted, handed>>

(* deepAssign writes through to the shared prototype; a merge that throws *)
(* may have done so before.                                               *)
Merge(zd, b) ==
    \/ polluted' = IF zd = "zd-003" /\ "payload" \in b THEN polluted \cup (b \cap Inherited)
                   ELSE polluted
    \/ zd = "zd-003" /\ "unmergeable" \in b /\ polluted' = polluted

(* An answer that lets a request in.  userId is put into the query as it   *)
(* is, so that the id the backend answers for may be another than zd.      *)
Admit(s, status) ==
    /\ zdAt[s] = "status"
    /\ ~Locked(status)
    /\ admitted' = IF status = "unlocked" THEN admitted \cup {zdReq[s].zd} ELSE admitted

(* An expression that does not solve zd-007 is evaluated.                  *)
Evaluated(zd, b) == zd = "zd-007" /\ Zd007(b) = "partial"

HandleExploit(s, status, b) ==
    LET zd == zdReq[s].zd
        todo == IF Verdict(zd, b) = "refused" THEN {} ELSE CommandsOf(zd, Verdict(zd, b)) IN
    /\ Admit(s, status)
    /\ ~Evaluated(zd, b)
    /\ Merge(zd, b)
    /\ IF todo = {} THEN Free(s)
       ELSE /\ zdAt' = [zdAt EXCEPT ![s] = "commands"]
            /\ zdReq' = [zdReq EXCEPT ![s].todo = todo]
    /\ UNCHANGED <<requests, flags, unlockKeys, cached, poisoned, evaluated, handed, refusedLate>>

(* eval runs the expression in the module: with its Redis client, its      *)
(* prototypes and its process in reach, any value may follow in any of     *)
(* them, then or later.  The model goes no further.                        *)
Evaluate(s, status, b) ==
    /\ Admit(s, status)
    /\ Evaluated(zdReq[s].zd, b)
    /\ evaluated' = TRUE
    /\ Free(s)
    /\ UNCHANGED <<requests, flags, unlockKeys, cached, poisoned, polluted, handed, refusedLate>>

Send(s, c) ==
    LET todo == zdReq[s].todo IN
    /\ zdAt[s] = "commands"
    /\ c \in todo /\ Rank(c) \cap todo = {}
    /\ flags' = IF c = "flag" THEN flags \cup {zdReq[s].zd} ELSE flags
    /\ cached' = cached \cup (CASE c = "cache plain" -> {"plain"}
                                [] c = "cache system" -> {"system"} [] OTHER -> {})
    /\ poisoned' = IF c = "poison" THEN poisoned \cup {"system"} ELSE poisoned
    /\ handed' = IF c = "answer" THEN handed \cup {zdReq[s].zd} ELSE handed
    /\ IF todo = {c} THEN Free(s)
       ELSE /\ zdReq' = [zdReq EXCEPT ![s].todo = todo \ {c}]
            /\ UNCHANGED zdAt
    /\ UNCHANGED <<requests, unlockKeys, polluted, evaluated, admitted, refusedLate>>

(* A command fails, or a field is not of the type the handler assumes.    *)
Exit(s) ==
    /\ zdAt[s] # "idle"
    /\ zdAt' = [r \in Solvers |-> "idle"]
    /\ zdReq' = [r \in Solvers |-> Nobody]
    /\ polluted' = {}
    /\ UNCHANGED <<requests, flags, unlockKeys, cached, poisoned, evaluated, admitted, handed, refusedLate>>

(* POST /zero-day/unlock with the API key: 401 and 400 change nothing.    *)
Unlock(zd) ==
    /\ Cardinality(unlockKeys \cup {zd}) <= MaxUnlocks
    /\ unlockKeys' = unlockKeys \cup {zd}
    /\ UNCHANGED <<requests, zdAt, zdReq, flags, cached, poisoned, polluted, evaluated, admitted, handed, refusedLate>>

(* GET /zero-day/flag/:zdId with the API key.                             *)
FlagRoute(zd) == IF zd \in flags THEN "flag" ELSE "not_found"

ZeroDayStep ==
    \/ \E s \in Solvers, zd \in Ids : Exploit(s, zd)
    \/ \E s \in Solvers, status \in Statuses \cup {"failed"} : RefuseLocked(s, status)
    \/ \E s \in Solvers, status \in Statuses \cup {"failed"} :
           \E b \in SUBSET Facts(zdReq[s].zd) :
               HandleExploit(s, status, b) \/ Evaluate(s, status, b)
    \/ \E s \in Solvers, c \in Commands : Send(s, c)
    \/ \E s \in Solvers : Exit(s)
    \/ \E zd \in Ids : Unlock(zd)

ZeroDayNext == ~evaluated /\ ZeroDayStep
-----------------------------------------------------------------------------
OnlyAdmitted ==
    /\ flags \cup handed \subseteq admitted
    /\ cached # {} => "zd-004" \in admitted
    /\ polluted # {} => "zd-003" \in admitted

(* Whatever is written for a challenge, in Redis or in the process, a      *)
(* request for that challenge was answered "unlocked" before: a backend    *)
(* that fails or is slow reads as locked (ensureUnlocked's catch), and no  *)
(* request writes for another's challenge.  The one way round it is an     *)
(* expression evaluated for zd-007 (app.ts:367), which takes such an       *)
(* answer itself.                                                          *)
NothingBeforeUnlock == IF evaluated THEN "zd-007" \in admitted ELSE OnlyAdmitted

(* A solver who was given a flag finds one under the flag route, through   *)
(* every crash of the service: the key is written before the answer, and   *)
(* no handler removes it (an evaluated expression may).                    *)
SolvedIsServed == \A zd \in handed : FlagRoute(zd) = "flag"

(* The list of poisoned builds names only entries that are in the cache,   *)
(* and a flag for zd-004 exists only after its entry was listed, wherever  *)
(* a crash cuts the three writes.                                          *)
PoisonListed ==
    /\ poisoned \subseteq cached
    /\ "zd-004" \in flags => poisoned # {}

(* As long as no expression was evaluated, whatever is visible of an       *)
(* exploit has behind it what its handler wrote before, also after a crash *)
(* and a restart (the handlers' order of awaits).                          *)
WritesInOrder == ~evaluated => SolvedIsServed /\ PoisonListed

(* What the backend's comment says (internal.py:126-130): the unlocks the  *)
(* service keeps in Redis decide.  No challenge is refused as locked once  *)
(* POST /zero-day/unlock stored its key.                                   *)
LocalUnlockDecides == refusedLate = {}
-----------------------------------------------------------------------------
ZeroDaySpec == ZeroDayInit /\ [][ZeroDayNext]_zdVars
=============================================================================
