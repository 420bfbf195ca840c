---------------------------- MODULE ServiceProofs ----------------------------
(***************************************************************************)
(* Proofs about the services around the backend, for any number of         *)
(* requests, challenges, secrets and any lifetime and timeout: the gate of *)
(* the vulnerable application, its database, the zero-days service, the    *)
(* engine's anti-cheat checks, the rabbit holes, the leaderboard server,   *)
(* the rate limit of the backend, and what all of them have in common.     *)
(***************************************************************************)
EXTENDS MCServices, FiniteSetTheorems, WellFoundedInduction, TLAPS

(***************************************************************************)
(* The challenge gate.                                                     *)
(*                                                                         *)
(* That it stays open is not inductive: what a request was answered is     *)
(* what it caches and decides on.  Every answer is the refusal of a call   *)
(* without a key.                                                          *)
(***************************************************************************)
Unauthorized == [status |-> 401, enabled |-> FALSE]

GateTyped ==
    /\ time \in Nat /\ time <= MaxTime
    /\ changed \in Nat /\ changed <= time
    /\ state \in BOOLEAN
    /\ entry = NoEntry
    /\ gateAt \in [Callers -> {"idle", "cache", "backend"}]
    /\ fetch \in [Callers -> [asked : Nat, answer : {NoAnswer, Unauthorized}]]

AskedBefore == \A r \in Callers : gateAt[r] = "backend" => fetch[r].asked <= time

GateInv == GateTyped /\ AskedBefore /\ refused = FALSE

LEMMA GateInitInv == GateInit => GateInv
<1> SUFFICES ASSUME GateInit PROVE GateInv
  OBVIOUS
<1>1. time = 0 /\ changed = 0 /\ MaxTime \in Nat
  BY GateAssumption DEF GateInit
<1>2. GateTyped
  BY <1>1 DEF GateInit, GateTyped, NoFetch
<1> QED BY <1>2 DEF GateInit, GateInv, AskedBefore

(* A caller without a key is refused, whatever the state.                  *)
LEMMA NoKeyNoState == StateAnswer(StateRequest) = Unauthorized
BY DEF StateAnswer, StateRequest, NoAnswer, Unauthorized

LEMMA GateNextInv == GateInv /\ [GateNext]_gateVars => GateInv'
<1> SUFFICES ASSUME GateInv, [GateNext]_gateVars PROVE GateInv'
  OBVIOUS
<1>1. GateTyped /\ AskedBefore /\ ~refused /\ MaxTime \in Nat
  BY GateAssumption DEF GateInv
<1>2. ASSUME NEW r \in Callers, Decide(r, TRUE), UNCHANGED <<time, state, changed, entry>>
      PROVE  GateInv'
  <2>1. GateTyped' /\ AskedBefore'
    BY <1>1, <1>2 DEF Decide, GateTyped, AskedBefore, NoFetch
  <2> QED BY <1>1, <1>2, <2>1 DEF Decide, GateInv
<1>3. ASSUME NEW r \in Callers, Arrive(r) PROVE GateInv'
  BY <1>1, <1>3 DEF Arrive, GateInv, GateTyped, AskedBefore
<1>4. ASSUME NEW r \in Callers, NEW redisUp \in BOOLEAN, LookUp(r, redisUp) PROVE GateInv'
  <2>1. /\ gateAt' = [gateAt EXCEPT ![r] = "backend"]
        /\ fetch' = [fetch EXCEPT ![r] = [asked |-> time, answer |-> NoAnswer]]
        /\ UNCHANGED <<time, state, changed, entry, refused>>
    BY <1>1, <1>4 DEF LookUp, GateTyped, NoEntry
  <2>2. GateTyped' /\ AskedBefore'
    BY <1>1, <2>1 DEF GateTyped, AskedBefore
  <2> QED BY <1>1, <2>1, <2>2 DEF GateInv
<1>5. ASSUME NEW r \in Callers, BackendAnswers(r) PROVE GateInv'
  <2>1. fetch' = [fetch EXCEPT ![r].answer = Unauthorized]
    BY <1>5, NoKeyNoState DEF BackendAnswers
  <2>2. UNCHANGED <<time, state, changed, entry, gateAt, refused>>
    BY <1>5 DEF BackendAnswers
  <2>3. GateTyped' /\ AskedBefore'
    BY <1>1, <2>1, <2>2 DEF GateTyped, AskedBefore
  <2> QED BY <1>1, <2>2, <2>3 DEF GateInv
<1>6. ASSUME NEW r \in Callers, NEW redisUp \in BOOLEAN, Learn(r, redisUp) PROVE GateInv'
  <2>1. fetch[r].answer = Unauthorized
    BY <1>1, <1>6 DEF Learn, GateTyped
  <2>2. fetch[r].answer.status = 401
    BY <2>1 DEF Unauthorized
  <2>3. Decide(r, TRUE) /\ UNCHANGED <<time, state, changed, entry>>
    <3>1. ~(fetch[r].answer.status = 200) /\ fetch[r].answer.status # 404
      BY <2>2
    <3> QED BY <1>6, <3>1 DEF Learn, Decide
  <2> QED BY <1>2, <2>3
<1>7. ASSUME NEW r \in Callers, FailOpen(r) PROVE GateInv'
  BY <1>2, <1>7 DEF FailOpen
<1>8. CASE Toggle
  BY <1>1, <1>8 DEF Toggle, GateInv, GateTyped, AskedBefore
<1>9. CASE Tick
  <2>1. /\ time < MaxTime /\ time' = time + 1 /\ entry' = entry
        /\ UNCHANGED <<state, changed, gateAt, fetch, refused>>
    BY <1>1, <1>9 DEF Tick, GateTyped, NoEntry
  <2>2. GateTyped'
    BY <1>1, <2>1 DEF GateTyped
  <2>3. AskedBefore'
    BY <1>1, <2>1 DEF GateTyped, AskedBefore
  <2> QED BY <1>1, <2>1, <2>2, <2>3 DEF GateInv
<1>10. CASE UNCHANGED gateVars
  BY <1>1, <1>10 DEF gateVars, GateInv, GateTyped, AskedBefore
<1> QED BY <1>3, <1>4, <1>5, <1>6, <1>7, <1>8, <1>9, <1>10 DEF GateNext

(* The gate refuses no request and caches no state, whatever is enabled    *)
(* and however many requests, for any lifetime and timeout: it is answered *)
(* 401 and lets everything through (internal_api.ts:14, internal.py:31).   *)
THEOREM GateNeverRefuses == GateSpec => []GateStaysOpen
<1>1. GateInv => GateStaysOpen BY DEF GateInv, GateTyped, GateStaysOpen, NoEntry
<1> QED BY GateInitInv, GateNextInv, <1>1, PTL DEF GateSpec

-----------------------------------------------------------------------------
(***************************************************************************)
(* The database of the vulnerable application.                             *)
(*                                                                         *)
(* FlagsCurrent speaks of a start that went through; the invariant adds    *)
(* what a start has already done while it inserts.                         *)
(***************************************************************************)
FlagsSoFar == \A c \in Flagged \ left : flagRows[c] = secret

VulnInv ==
    /\ boot \in {"down", "batch", "flags", "up"}
    /\ whole \in BOOLEAN
    /\ secret \in Secrets \cup {NoSecret}
    /\ flagRows \in [Flagged -> Secrets \cup {NoSecret}]
    /\ boot = "flags" => FlagsSoFar
    /\ whole => boot = "up"
    /\ FlagsCurrent

LEMMA VulnNextInv == VulnInv /\ [VulnNext]_vulnVars => VulnInv'
<1> SUFFICES ASSUME VulnInv, [VulnNext]_vulnVars PROVE VulnInv'
  OBVIOUS
<1>1. ASSUME NEW k \in Secrets, Start(k) PROVE VulnInv'
  BY <1>1 DEF VulnInv, Start, FlagsSoFar, FlagsCurrent
<1>2. CASE CreateTables
  BY <1>2 DEF VulnInv, CreateTables, FlagsSoFar, FlagsCurrent
<1>3. CASE Listen
  BY <1>3 DEF VulnInv, Listen, FlagsSoFar, FlagsCurrent
<1>4. CASE InitFails
  BY <1>4 DEF VulnInv, InitFails, FlagsSoFar, FlagsCurrent
<1>5. CASE Stop
  BY <1>5 DEF VulnInv, Stop, FlagsSoFar, FlagsCurrent
<1>6. ASSUME NEW c \in Flagged, InsertFlag(c) PROVE VulnInv'
  <2>1. /\ boot = "flags" /\ boot' = boot /\ whole' = whole /\ secret' = secret /\ ~whole
        /\ left' = left \ {c} /\ flagRows' = [flagRows EXCEPT ![c] = secret]
    BY <1>6 DEF VulnInv, InsertFlag, Upsert
  <2>2. \A d \in Flagged \ left' : flagRows'[d] = secret
    BY <2>1 DEF VulnInv, FlagsSoFar
  <2>3. flagRows' \in [Flagged -> Secrets \cup {NoSecret}]
    BY <2>1 DEF VulnInv
  <2> QED BY <2>1, <2>2, <2>3 DEF VulnInv, FlagsSoFar, FlagsCurrent
<1>7. CASE UNCHANGED vulnVars
  BY <1>7 DEF VulnInv, FlagsSoFar, FlagsCurrent, vulnVars
<1> QED BY <1>1, <1>2, <1>3, <1>4, <1>5, <1>6, <1>7 DEF VulnNext

(* After a start of the vulnerable application that went through, every    *)
(* stored flag is the current secret's, for any number of challenges,      *)
(* secrets, restarts and failures half way (initDb).                       *)
THEOREM VulnFlagsCurrent == VulnSpec => []FlagsCurrent
<1>1. VulnInit => VulnInv
  BY DEF VulnInit, VulnInv, FlagsSoFar, FlagsCurrent
<1>2. VulnInv => FlagsCurrent
  BY DEF VulnInv
<1> QED BY <1>1, <1>2, VulnNextInv, PTL DEF VulnSpec

-----------------------------------------------------------------------------
(***************************************************************************)
(* The zero-days service.                                                  *)
(*                                                                         *)
(* What the writes of a request rely on is what it still has to send: a    *)
(* command that another one must follow is either to be sent or in Redis.  *)
(* Redis keeps what it has, so a request that waits stays right whatever   *)
(* the others do.                                                          *)
(***************************************************************************)
RequestRecords == [zd : Ids \cup {"none"}, todo : SUBSET Commands]

Ordered(q, fl, ca, po) ==
    /\ "answer" \in q.todo => "flag" \in q.todo \/ q.zd \in fl
    /\ "poison" \in q.todo => "cache system" \in q.todo \/ "system" \in ca
    /\ q.zd = "zd-004" /\ "flag" \in q.todo => "poison" \in q.todo \/ "system" \in po
    /\ q.todo \cap {"cache plain", "cache system", "poison"} # {} => q.zd = "zd-004"

RequestSound(at, q, fl, ca, po, co) ==
    /\ at # "idle" => q.zd \in Ids
    /\ at = "commands" => q.zd \in co /\ Ordered(q, fl, ca, po)

ZeroTyped ==
    /\ zdAt \in [Solvers -> {"idle", "status", "commands"}]
    /\ zdReq \in [Solvers -> RequestRecords]

RequestsSound ==
    \A s \in Solvers : RequestSound(zdAt[s], zdReq[s], flags, cached, poisoned, admitted)

WritesDone == SolvedIsServed /\ PoisonListed
EvalAdmitted == evaluated => "zd-007" \in admitted
ZeroInv == ZeroTyped /\ RequestsSound /\ OnlyAdmitted /\ WritesDone /\ EvalAdmitted

(* A waiting request is right about a Redis that only gained entries.      *)
LEMMA SoundGrows ==
    ASSUME NEW at, NEW q, NEW fl, NEW ca, NEW po, NEW co,
           NEW fl2, NEW ca2, NEW po2, NEW co2,
           RequestSound(at, q, fl, ca, po, co),
           fl \subseteq fl2, ca \subseteq ca2, po \subseteq po2, co \subseteq co2
    PROVE  RequestSound(at, q, fl2, ca2, po2, co2)
BY DEF RequestSound, Ordered

(* A request that moves on alone: the others are right when it is.         *)
LEMMA OneMoves ==
    ASSUME ZeroInv, NEW s \in Solvers, NEW at \in {"idle", "status", "commands"},
           NEW q \in RequestRecords,
           zdAt' = [zdAt EXCEPT ![s] = at], zdReq' = [zdReq EXCEPT ![s] = q],
           flags \subseteq flags', cached \subseteq cached', poisoned \subseteq poisoned',
           admitted \subseteq admitted',
           RequestSound(at, q, flags', cached', poisoned', admitted')
    PROVE  ZeroTyped' /\ RequestsSound'
<1>1. ZeroTyped'
  BY DEF ZeroInv, ZeroTyped
<1>2. ASSUME NEW r \in Solvers
      PROVE  RequestSound(zdAt'[r], zdReq'[r], flags', cached', poisoned', admitted')
  <2>1. CASE r = s
    BY <2>1 DEF ZeroInv, ZeroTyped
  <2>2. CASE r # s
    <3>1. zdAt'[r] = zdAt[r] /\ zdReq'[r] = zdReq[r]
      BY <2>2 DEF ZeroInv, ZeroTyped
    <3>2. RequestSound(zdAt[r], zdReq[r], flags, cached, poisoned, admitted)
      BY DEF ZeroInv, RequestsSound
    <3> QED BY <3>1, <3>2, SoundGrows
  <2> QED BY <2>1, <2>2
<1> QED BY <1>1, <1>2 DEF RequestsSound

LEMMA NobodySound ==
    /\ Nobody \in RequestRecords
    /\ \A fl, ca, po, co : RequestSound("idle", Nobody, fl, ca, po, co)
BY DEF Nobody, RequestRecords, RequestSound, Ids

(* What a verdict asks to be sent is in order: nothing is required of      *)
(* Redis that is not among the commands themselves.                        *)
LEMMA CommandsOrdered ==
    ASSUME NEW zd \in Ids, NEW verdict, NEW fl, NEW ca, NEW po, NEW q \in RequestRecords,
           q.zd = zd, q.todo = CommandsOf(zd, verdict)
    PROVE  Ordered(q, fl, ca, po)
BY DEF Ordered, CommandsOf

LEMMA ExploitKeeps ==
    ASSUME ZeroInv, NEW s \in Solvers, NEW zd \in Ids, Exploit(s, zd)
    PROVE  ZeroInv'
<1> DEFINE q == [zd |-> zd, todo |-> {}]
<1>1. q \in RequestRecords
  BY DEF RequestRecords
<1>2. RequestSound("status", q, flags', cached', poisoned', admitted')
  BY DEF RequestSound
<1>3. ZeroTyped' /\ RequestsSound'
  BY <1>1, <1>2, OneMoves DEF Exploit
<1>4. OnlyAdmitted' /\ WritesDone' /\ EvalAdmitted'
  BY DEF ZeroInv, Exploit, OnlyAdmitted, WritesDone, SolvedIsServed, PoisonListed, FlagRoute,
         EvalAdmitted
<1> QED BY <1>3, <1>4 DEF ZeroInv

LEMMA RefuseKeeps ==
    ASSUME ZeroInv, NEW s \in Solvers, NEW status, RefuseLocked(s, status)
    PROVE  ZeroInv'
<1>1. ZeroTyped' /\ RequestsSound'
  BY NobodySound, OneMoves DEF RefuseLocked, Free
<1>2. OnlyAdmitted' /\ WritesDone' /\ EvalAdmitted'
  BY DEF ZeroInv, RefuseLocked, OnlyAdmitted, WritesDone, SolvedIsServed, PoisonListed,
         FlagRoute, EvalAdmitted
<1> QED BY <1>1, <1>2 DEF ZeroInv

LEMMA HandleKeeps ==
    ASSUME ZeroInv, NEW s \in Solvers, NEW status, NEW b, HandleExploit(s, status, b)
    PROVE  ZeroInv'
<1> DEFINE zd == zdReq[s].zd
           verdict == Verdict(zd, b)
           todo == IF verdict = "refused" THEN {} ELSE CommandsOf(zd, verdict)
           q == [zdReq[s] EXCEPT !.todo = todo]
<1>1. zdReq[s] \in RequestRecords /\ zd \in Ids /\ zdAt[s] = "status"
  BY DEF ZeroInv, ZeroTyped, RequestsSound, RequestSound, HandleExploit, Admit
<1>2. admitted' = admitted \cup {zd}
  BY DEF HandleExploit, Admit, Locked
<1>3. UNCHANGED <<flags, cached, poisoned, evaluated, handed>>
  BY DEF HandleExploit
<1>4. CommandsOf(zd, verdict) \subseteq Commands
  BY DEF CommandsOf, Commands
<1>5. q \in RequestRecords /\ q.zd = zd /\ q.todo = todo
  BY <1>1, <1>4 DEF RequestRecords
<1>6. todo # {} => Ordered(q, flags', cached', poisoned')
  <2>1. todo # {} => q.todo = CommandsOf(zd, verdict)
    BY <1>5
  <2> HIDE DEF q, todo, verdict, zd
  <2> QED BY <1>1, <1>5, <2>1, CommandsOrdered
<1>7. ZeroTyped' /\ RequestsSound'
  <2>1. CASE todo = {}
    <3>1. Free(s)
      BY <2>1 DEF HandleExploit
    <3> QED BY <1>2, <1>3, <3>1, NobodySound, OneMoves DEF Free
  <2>2. CASE todo # {}
    <3>1. zdAt' = [zdAt EXCEPT ![s] = "commands"] /\ zdReq' = [zdReq EXCEPT ![s] = q]
      BY <2>2 DEF HandleExploit
    <3>2. RequestSound("commands", q, flags', cached', poisoned', admitted')
      BY <1>1, <1>2, <1>5, <1>6, <2>2 DEF RequestSound
    <3> HIDE DEF q, todo
    <3> QED BY <1>2, <1>3, <1>5, <3>1, <3>2, OneMoves
  <2> QED BY <2>1, <2>2
<1>8. OnlyAdmitted'
  <2>1. polluted' # {} => polluted # {} \/ zd = "zd-003"
    BY DEF HandleExploit, Merge
  <2> QED BY <1>2, <1>3, <2>1 DEF ZeroInv, OnlyAdmitted
<1>9. WritesDone'
  BY <1>3 DEF ZeroInv, WritesDone, SolvedIsServed, PoisonListed, FlagRoute
<1>10. EvalAdmitted'
  BY <1>2, <1>3 DEF ZeroInv, EvalAdmitted
<1> QED BY <1>7, <1>8, <1>9, <1>10 DEF ZeroInv

LEMMA EvaluateKeeps ==
    ASSUME ZeroInv, NEW s \in Solvers, NEW status, NEW b, Evaluate(s, status, b)
    PROVE  ZeroInv'
<1>1. admitted' = admitted \cup {zdReq[s].zd} /\ zdReq[s].zd = "zd-007"
  BY DEF Evaluate, Admit, Locked, Evaluated
<1>2. UNCHANGED <<flags, cached, poisoned, polluted, handed>>
  BY DEF Evaluate
<1>3. ZeroTyped' /\ RequestsSound'
  BY <1>1, <1>2, NobodySound, OneMoves DEF Evaluate, Free
<1>4. OnlyAdmitted' /\ WritesDone' /\ EvalAdmitted'
  BY <1>1, <1>2 DEF ZeroInv, OnlyAdmitted, WritesDone, SolvedIsServed, PoisonListed, FlagRoute,
                    EvalAdmitted
<1> QED BY <1>3, <1>4 DEF ZeroInv

LEMMA SendKeeps ==
    ASSUME ZeroInv, NEW s \in Solvers, NEW c \in Commands, Send(s, c)
    PROVE  ZeroInv'
<1> DEFINE zd == zdReq[s].zd
           todo == zdReq[s].todo
           q == [zdReq[s] EXCEPT !.todo = todo \ {c}]
<1>1. zdReq[s] \in RequestRecords /\ zdAt[s] = "commands" /\ c \in todo
  BY DEF ZeroInv, ZeroTyped, Send
<1>2. zd \in Ids /\ zd \in admitted /\ Ordered(zdReq[s], flags, cached, poisoned)
  BY <1>1 DEF ZeroInv, RequestsSound, RequestSound
<1>3. /\ flags' = IF c = "flag" THEN flags \cup {zd} ELSE flags
      /\ handed' = IF c = "answer" THEN handed \cup {zd} ELSE handed
      /\ poisoned' = IF c = "poison" THEN poisoned \cup {"system"} ELSE poisoned
      /\ admitted' = admitted /\ polluted' = polluted /\ evaluated' = evaluated
  BY DEF Send
<1>4. /\ cached \subseteq cached'
      /\ c = "cache system" => "system" \in cached'
      /\ cached' # cached => c \in {"cache plain", "cache system"}
  BY DEF Send
<1>5. q \in RequestRecords /\ q.zd = zd /\ q.todo = todo \ {c}
  BY <1>1 DEF RequestRecords
<1>6. Ordered(q, flags', cached', poisoned')
  <2> HIDE DEF q, todo
  <2>1. "answer" \in q.todo => "flag" \in q.todo \/ q.zd \in flags'
    BY <1>2, <1>3, <1>5 DEF Ordered, todo
  <2>2. "poison" \in q.todo => "cache system" \in q.todo \/ "system" \in cached'
    BY <1>2, <1>4, <1>5 DEF Ordered, todo
  <2>3. q.zd = "zd-004" /\ "flag" \in q.todo => "poison" \in q.todo \/ "system" \in poisoned'
    BY <1>2, <1>3, <1>5 DEF Ordered, todo
  <2>4. q.todo \cap {"cache plain", "cache system", "poison"} # {} => q.zd = "zd-004"
    BY <1>2, <1>5 DEF Ordered, todo
  <2> QED BY <2>1, <2>2, <2>3, <2>4 DEF Ordered
<1>7. ZeroTyped' /\ RequestsSound'
  <2>1. CASE todo = {c}
    <3>1. Free(s)
      BY <2>1 DEF Send
    <3> QED BY <1>3, <1>4, <3>1, NobodySound, OneMoves DEF Free
  <2>2. CASE todo # {c}
    <3>1. zdAt' = [zdAt EXCEPT ![s] = "commands"] /\ zdReq' = [zdReq EXCEPT ![s] = q]
      BY <1>1, <2>2 DEF Send, ZeroInv, ZeroTyped
    <3>2. RequestSound("commands", q, flags', cached', poisoned', admitted')
      BY <1>2, <1>3, <1>5, <1>6 DEF RequestSound
    <3> HIDE DEF q
    <3> QED BY <1>3, <1>4, <1>5, <3>1, <3>2, OneMoves
  <2> QED BY <2>1, <2>2
<1>8. OnlyAdmitted'
  <2>1. cached' # cached => zd = "zd-004"
    BY <1>1, <1>2, <1>4 DEF Ordered
  <2> QED BY <1>2, <1>3, <2>1 DEF ZeroInv, OnlyAdmitted
<1>9. SolvedIsServed'
  <2>1. c = "answer" => zd \in flags
    <3>1. c = "answer" => "flag" \notin todo
      BY DEF Send, Rank, Commands
    <3> QED BY <1>1, <1>2, <3>1 DEF Ordered
  <2>2. handed \subseteq flags
    BY DEF ZeroInv, WritesDone, SolvedIsServed, FlagRoute
  <2>3. handed' \subseteq flags'
    BY <1>3, <2>1, <2>2
  <2> QED BY <2>3 DEF SolvedIsServed, FlagRoute
<1>10. PoisonListed'
  <2>1. c = "poison" => "system" \in cached
    <3>1. c = "poison" => "cache system" \notin todo
      BY DEF Send, Rank
    <3> QED BY <1>1, <1>2, <3>1 DEF Ordered
  <2>2. c = "flag" /\ zd = "zd-004" => "system" \in poisoned
    <3>1. c = "flag" => "poison" \notin todo
      BY DEF Send, Rank
    <3> QED BY <1>1, <1>2, <3>1 DEF Ordered
  <2> QED BY <1>3, <1>4, <2>1, <2>2 DEF ZeroInv, WritesDone, PoisonListed
<1>11. EvalAdmitted'
  BY <1>3 DEF ZeroInv, EvalAdmitted
<1> QED BY <1>7, <1>8, <1>9, <1>10, <1>11 DEF ZeroInv, WritesDone

LEMMA ExitKeeps ==
    ASSUME ZeroInv, NEW s \in Solvers, Exit(s)
    PROVE  ZeroInv'
<1>1. ZeroTyped' /\ RequestsSound'
  BY NobodySound DEF Exit, ZeroTyped, RequestsSound
<1>2. OnlyAdmitted' /\ WritesDone' /\ EvalAdmitted'
  BY DEF ZeroInv, Exit, OnlyAdmitted, WritesDone, SolvedIsServed, PoisonListed, FlagRoute,
         EvalAdmitted
<1> QED BY <1>1, <1>2 DEF ZeroInv

LEMMA ZeroNextInv == ZeroInv /\ [ZeroDayNext]_zdVars => ZeroInv'
<1> SUFFICES ASSUME ZeroInv, [ZeroDayNext]_zdVars PROVE ZeroInv'
  OBVIOUS
<1>1. ASSUME NEW zd \in Ids, Unlock(zd) PROVE ZeroInv'
  BY <1>1 DEF ZeroInv, Unlock, ZeroTyped, RequestsSound, OnlyAdmitted, WritesDone,
              SolvedIsServed, PoisonListed, FlagRoute, EvalAdmitted
<1>2. CASE UNCHANGED zdVars
  BY <1>2 DEF ZeroInv, zdVars, ZeroTyped, RequestsSound, OnlyAdmitted, WritesDone,
              SolvedIsServed, PoisonListed, FlagRoute, EvalAdmitted
<1>3. ASSUME NEW s \in Solvers, NEW status \in Statuses \cup {"failed"},
             \E b \in SUBSET Facts(zdReq[s].zd) :
                 HandleExploit(s, status, b) \/ Evaluate(s, status, b)
      PROVE  ZeroInv'
  BY <1>3, HandleKeeps, EvaluateKeeps
<1>4. ASSUME NEW s \in Solvers, NEW c \in Commands, Send(s, c) PROVE ZeroInv'
  BY <1>4, SendKeeps
<1>5. ASSUME NEW s \in Solvers, NEW status \in Statuses \cup {"failed"}, RefuseLocked(s, status)
      PROVE  ZeroInv'
  BY <1>5, RefuseKeeps
<1>6. ASSUME NEW s \in Solvers, NEW zd \in Ids, Exploit(s, zd) PROVE ZeroInv'
  BY <1>6, ExploitKeeps
<1>7. ASSUME NEW s \in Solvers, Exit(s) PROVE ZeroInv'
  BY <1>7, ExitKeeps
<1> QED BY <1>1, <1>2, <1>3, <1>4, <1>5, <1>6, <1>7 DEF ZeroDayNext, ZeroDayStep

LEMMA ZeroInitInv == ZeroDayInit => ZeroInv
<1> SUFFICES ASSUME ZeroDayInit PROVE ZeroInv
  OBVIOUS
<1>1. ZeroTyped /\ RequestsSound
  BY NobodySound DEF ZeroDayInit, ZeroTyped, RequestsSound
<1>2. OnlyAdmitted /\ WritesDone /\ EvalAdmitted
  BY DEF ZeroDayInit, OnlyAdmitted, WritesDone, SolvedIsServed, PoisonListed, EvalAdmitted
<1> QED BY <1>1, <1>2 DEF ZeroInv

(* No flag, no build entry and no property of the shared prototype before  *)
(* a request for the challenge was answered "unlocked", and no expression  *)
(* evaluated before one for zd-007 was, for any number of requests in      *)
(* flight and any crashes between their awaits (ensureUnlocked).           *)
THEOREM ZeroDayNothingBeforeUnlock == ZeroDaySpec => []NothingBeforeUnlock
<1>1. ZeroInv => NothingBeforeUnlock BY DEF ZeroInv, EvalAdmitted, NothingBeforeUnlock
<1> QED BY ZeroInitInv, ZeroNextInv, <1>1, PTL DEF ZeroDaySpec

(* Until an expression of a caller is evaluated, a flag that was handed    *)
(* out is served by the flag route, and the list of poisoned builds names  *)
(* stored ones, wherever crashes cut the writes of however many requests   *)
(* (the handlers' order of awaits).                                        *)
THEOREM ZeroDayWritesInOrder == ZeroDaySpec => []WritesInOrder
<1>1. ZeroInv => WritesInOrder BY DEF ZeroInv, WritesDone, WritesInOrder
<1> QED BY ZeroInitInv, ZeroNextInv, <1>1, PTL DEF ZeroDaySpec

-----------------------------------------------------------------------------
(***************************************************************************)
(* The attempt window of the anti-cheat checks.                            *)
(*                                                                         *)
(* WindowBound is not inductive: a slot that counted the window before     *)
(* others extended it extends it all the same.  The invariant counts such  *)
(* slots as members to come.                                               *)
(***************************************************************************)
Adding(st, att, k) ==
    {s \in Slots : st[s] = "zadd" /\ <<att[s].team, att[s].chal>> = k}

CheatTyped ==
    /\ now \in Nat /\ calls \in Nat
    /\ window \in [Keys -> SUBSET Member]
    /\ step \in [Slots -> CheckSteps]
    /\ attempt \in [Slots -> Attempt \cup {NoAttempt}]
    /\ refusal \in [Slots -> Refusal \cup {NoRefusal}]
    /\ \A s \in Slots : step[s] # "idle" => attempt[s] \in Attempt

FiniteWindows == \A k \in Keys : IsFiniteSet(window[k])

RoomLeft ==
    \A k \in Keys :
        Cardinality(window[k]) + Cardinality(Adding(step, attempt, k)) < RateMax + Cardinality(Slots)

CheatInv == CheatTyped /\ FiniteWindows /\ RoomLeft /\ RetryIsExact

LEMMA AddingFinite ==
    ASSUME NEW st, NEW att, NEW k
    PROVE  /\ IsFiniteSet(Adding(st, att, k))
           /\ Cardinality(Adding(st, att, k)) \in Nat
           /\ Cardinality(Adding(st, att, k)) <= Cardinality(Slots)
           /\ Cardinality(Slots) \in Nat
<1>1. IsFiniteSet(Slots) /\ Adding(st, att, k) \in SUBSET Slots
  BY AntiCheatAssumption DEF Adding
<1> QED BY <1>1, FS_Subset, FS_CardinalityType

(* A window that did not grow, with no more slots about to extend it.      *)
LEMMA NoMore ==
    ASSUME NEW w, IsFiniteSet(w), NEW w2 \in SUBSET w, NEW a, IsFiniteSet(a), NEW late \in SUBSET a,
           NEW n \in Nat, Cardinality(w) + Cardinality(a) < n
    PROVE  IsFiniteSet(w2) /\ Cardinality(w2) + Cardinality(late) < n
<1>1. /\ IsFiniteSet(w2) /\ Cardinality(w2) <= Cardinality(w)
      /\ IsFiniteSet(late) /\ Cardinality(late) <= Cardinality(a)
  BY FS_Subset
<1>2. Cardinality(w) \in Nat /\ Cardinality(w2) \in Nat /\ Cardinality(a) \in Nat
      /\ Cardinality(late) \in Nat
  BY <1>1, FS_CardinalityType
<1> QED BY <1>1, <1>2

LEMMA LimitNat == RateMax \in Nat /\ Cardinality(Slots) \in Nat /\ RateMax + Cardinality(Slots) \in Nat
BY AntiCheatAssumption, FS_CardinalityType

(* A slot that moves to another command than ZADD leaves room, when no     *)
(* window gained a member.                                                 *)
LEMMA RoomStays ==
    ASSUME CheatInv, NEW s \in Slots, NEW command \in CheckSteps, command # "zadd",
           NEW v \in Attempt \cup {NoAttempt}, command # "idle" => v \in Attempt,
           step' = [step EXCEPT ![s] = command], attempt' = [attempt EXCEPT ![s] = v],
           window' \in [Keys -> SUBSET Member], \A k \in Keys : window'[k] \subseteq window[k]
    PROVE  /\ step' \in [Slots -> CheckSteps]
           /\ attempt' \in [Slots -> Attempt \cup {NoAttempt}]
           /\ \A r \in Slots : step'[r] # "idle" => attempt'[r] \in Attempt
           /\ FiniteWindows' /\ RoomLeft'
<1>1. /\ step' \in [Slots -> CheckSteps]
      /\ attempt' \in [Slots -> Attempt \cup {NoAttempt}]
      /\ \A r \in Slots : step'[r] # "idle" => attempt'[r] \in Attempt
  BY DEF CheatInv, CheatTyped
<1>2. ASSUME NEW k \in Keys
      PROVE  /\ IsFiniteSet(window'[k])
             /\ Cardinality(window'[k]) + Cardinality(Adding(step', attempt', k))
                    < RateMax + Cardinality(Slots)
  <2>1. Adding(step', attempt', k) \in SUBSET Adding(step, attempt, k)
    BY DEF CheatInv, CheatTyped, Adding
  <2>2. /\ IsFiniteSet(window[k]) /\ window'[k] \in SUBSET window[k]
        /\ Cardinality(window[k]) + Cardinality(Adding(step, attempt, k))
               < RateMax + Cardinality(Slots)
    BY DEF CheatInv, FiniteWindows, RoomLeft
  <2> QED BY <2>1, <2>2, AddingFinite, NoMore, LimitNat
<1>3. FiniteWindows' /\ RoomLeft'
  BY <1>2 DEF FiniteWindows, RoomLeft
<1> QED BY <1>1, <1>3

(* The wait a refusal names, as RetryIsExact asks it of each slot.         *)
Exact(q) ==
    LET oldest == {[time |-> q.oldest]}
        after(seconds) == InWindow(oldest, q.now + seconds * PerSecond)
    IN  /\ after(q.retry) = {}
        /\ q.retry > 1 => after(q.retry - 1) # {}

LEMMA LeastNatural ==
    ASSUME NEW S \in SUBSET Nat, S # {}
    PROVE  \E x \in S : \A y \in S : x <= y
<1>1. PICK x \in S : \A y \in S : <<y, x>> \notin OpToRel(<, Nat)
  BY WFMin, NatLessThanWellFounded, Zenon
<1>2. \A y \in S : ~(y < x)
  BY <1>1 DEF OpToRel
<1> QED BY <1>2

LEMMA OldestTyped ==
    ASSUME NEW members \in SUBSET Member, NEW t \in Nat
    PROVE  OldestOf(members, t) \in Nat
<1>1. CASE members = {}
  BY <1>1 DEF OldestOf
<1>2. CASE members # {}
  <2> DEFINE Times == {m.time : m \in members}
  <2>1. Times \in SUBSET Nat /\ Times # {}
    BY <1>2 DEF Member
  <2>2. PICK x \in Times : \A y \in Times : x <= y
    <3> HIDE DEF Times
    <3> QED BY <2>1, LeastNatural
  <2>3. \E m \in members : \A n \in members : m.time <= n.time
    BY <2>2
  <2> QED BY <1>2, <2>3 DEF OldestOf, Member
<1> QED BY <1>1, <1>2

(* Rounding up: the quotient's multiple reaches d, the one before does not. *)
LEMMA RoundedUp ==
    ASSUME NEW p \in Nat, p # 0, NEW d \in Nat, d > p, NEW q, q = (d + p - 1) \div p
    PROVE  q \in Nat /\ d <= q * p /\ (q - 1) * p < d
OBVIOUS

LEMMA SecondsReach ==
    ASSUME NEW d \in Int
    PROVE  /\ SecondsUntil(d) \in Nat /\ SecondsUntil(d) >= 1
           /\ d <= SecondsUntil(d) * PerSecond
           /\ SecondsUntil(d) > 1 => (SecondsUntil(d) - 1) * PerSecond < d
<1>1. PerSecond \in Nat /\ PerSecond # 0
  BY AntiCheatAssumption
<1>2. CASE d <= PerSecond
  BY <1>1, <1>2 DEF SecondsUntil
<1>3. CASE d > PerSecond
  <2>1. SecondsUntil(d) = (d + PerSecond - 1) \div PerSecond /\ d \in Nat
    BY <1>1, <1>3 DEF SecondsUntil
  <2>2. /\ SecondsUntil(d) \in Nat /\ d <= SecondsUntil(d) * PerSecond
        /\ (SecondsUntil(d) - 1) * PerSecond < d
    BY <1>1, <1>3, <2>1, RoundedUp
  <2>3. SecondsUntil(d) # 0
    BY <1>1, <1>3, <2>2
  <2> QED BY <2>2, <2>3
<1> QED BY <1>1, <1>2, <1>3

LEMMA RefusalExact ==
    ASSUME NEW t \in Nat, NEW o \in Nat, NEW q,
           q = [now |-> t, oldest |-> o,
                retry |-> SecondsUntil(o + RateWindow * PerSecond - t)]
    PROVE  Exact(q) /\ q \in Refusal
<1> DEFINE w == RateWindow * PerSecond
           d == o + w - t
           n == SecondsUntil(d)
<1>1. PerSecond \in Nat /\ RateWindow \in Nat
  BY AntiCheatAssumption
<1>2. w \in Nat
  BY <1>1
<1>3. d \in Int
  BY <1>2
<1>4. /\ n \in Nat /\ n >= 1 /\ d <= n * PerSecond
      /\ n > 1 => (n - 1) * PerSecond < d
  <2> HIDE DEF d
  <2> QED BY <1>3, SecondsReach
<1>5. n * PerSecond \in Int /\ (n - 1) * PerSecond \in Int
  BY <1>1, <1>4
<1>6. q.now = t /\ q.oldest = o /\ q.retry = n /\ q \in Refusal
  BY <1>4 DEF Refusal
<1>7. o <= t + n * PerSecond - w
  <2> HIDE DEF n, w
  <2> QED BY <1>2, <1>4, <1>5
<1>8. n > 1 => o > t + (n - 1) * PerSecond - w
  <2> DEFINE m == (n - 1) * PerSecond
  <2>1. m \in Int /\ (n > 1 => m < d)
    BY <1>4, <1>5
  <2>2. n > 1 => o > t + m - w
    <3> HIDE DEF n, w, m
    <3> QED BY <1>2, <2>1
  <2> QED BY <2>2
<1>9. InWindow({[time |-> o]}, t + n * PerSecond) = {}
  <2> HIDE DEF n
  <2> QED BY <1>2, <1>5, <1>7 DEF InWindow
<1>10. n > 1 => InWindow({[time |-> o]}, t + (n - 1) * PerSecond) # {}
  <2> DEFINE x == [time |-> o]
             late == t + (n - 1) * PerSecond
             b == late - w
  <2>1. x \in {x} /\ (n > 1 => x.time > b)
    <3>1. n > 1 => o > b
      <4> HIDE DEF n, w
      <4> QED BY <1>2, <1>5, <1>8
    <3>2. x.time = o
      OBVIOUS
    <3>3. b \in Int
      BY <1>2, <1>5
    <3> HIDE DEF n, x, b
    <3> QED BY <3>1, <3>2, <3>3
  <2>2. InWindow({x}, late) = {y \in {x} : y.time > b}
    <3> HIDE DEF n, x, late
    <3> QED BY DEF InWindow
  <2>3. n > 1 => x \in {y \in {x} : y.time > b}
    <3> HIDE DEF n, x, b
    <3> QED BY <2>1
  <2> QED BY <2>2, <2>3
<1> HIDE DEF n
<1> QED BY <1>6, <1>9, <1>10 DEF Exact

LEMMA ValidateKeeps ==
    ASSUME CheatInv, NEW s \in Slots, ValidateSubmission(s)
    PROVE  CheatInv'
<1>1. window' = window /\ now' = now /\ calls' = calls + 1
      /\ refusal' = [refusal EXCEPT ![s] = NoRefusal] /\ calls \in Nat
  BY DEF ValidateSubmission, CheatInv, CheatTyped
<1>2. /\ refusal' \in [Slots -> Refusal \cup {NoRefusal}] /\ RetryIsExact'
  BY <1>1 DEF CheatInv, CheatTyped, RetryIsExact
<1>3. CASE UNCHANGED <<attempt, step>>
  BY <1>1, <1>2, <1>3 DEF CheatInv, CheatTyped, FiniteWindows, RoomLeft
<1>4. ASSUME NEW v \in Attempts,
             attempt' = [attempt EXCEPT ![s] =
                            [team |-> v[1], chal |-> v[2], ip |-> v[3], now |-> 0, id |-> calls]],
             Goto(s, "trim")
      PROVE  CheatInv'
  <2> DEFINE new == [team |-> v[1], chal |-> v[2], ip |-> v[3], now |-> 0, id |-> calls]
  <2>1. new \in Attempt
    BY <1>1, AntiCheatAssumption DEF Attempt
  <2>2. step' = [step EXCEPT ![s] = "trim"] /\ attempt' = [attempt EXCEPT ![s] = new]
    BY <1>4 DEF Goto
  <2>3. window' \in [Keys -> SUBSET Member] /\ \A k \in Keys : window'[k] \subseteq window[k]
    BY <1>1 DEF CheatInv, CheatTyped
  <2> HIDE DEF new
  <2>4. /\ step' \in [Slots -> CheckSteps]
        /\ attempt' \in [Slots -> Attempt \cup {NoAttempt}]
        /\ \A r \in Slots : step'[r] # "idle" => attempt'[r] \in Attempt
        /\ FiniteWindows' /\ RoomLeft'
    BY <2>1, <2>2, <2>3, RoomStays DEF CheckSteps
  <2> QED BY <1>1, <1>2, <2>3, <2>4 DEF CheatInv, CheatTyped
<1> QED BY <1>3, <1>4 DEF ValidateSubmission

(* What stays when a step touches neither the refusals nor the calls.      *)
LEMMA CheatRest ==
    ASSUME CheatInv, UNCHANGED <<refusal, calls>>
    PROVE  /\ calls' \in Nat /\ refusal' \in [Slots -> Refusal \cup {NoRefusal}]
           /\ RetryIsExact'
BY DEF CheatInv, CheatTyped, RetryIsExact

LEMMA KeyTyped ==
    ASSUME CheatInv, NEW s \in Slots, step[s] # "idle"
    PROVE  /\ attempt[s] \in Attempt /\ Key(s) \in Keys
           /\ attempt[s].now \in Nat /\ attempt[s].id \in Nat
BY DEF CheatInv, CheatTyped, Key, Keys, Attempt

LEMMA TrimKeeps ==
    ASSUME CheatInv, NEW s \in Slots, TrimWindow(s)
    PROVE  CheatInv'
<1> DEFINE new == [attempt[s] EXCEPT !.now = now']
<1>1. now' \in Nat
  BY AntiCheatAssumption DEF TrimWindow
<1>2. attempt[s] \in Attempt /\ Key(s) \in Keys
  BY KeyTyped DEF TrimWindow
<1>3. new \in Attempt
  BY <1>1, <1>2 DEF Attempt
<1>4. step' = [step EXCEPT ![s] = "zcard"] /\ attempt' = [attempt EXCEPT ![s] = new]
  BY DEF TrimWindow, Goto
<1>5. window' \in [Keys -> SUBSET Member] /\ \A k \in Keys : window'[k] \subseteq window[k]
  <2>1. window' = [window EXCEPT ![Key(s)] = {m \in window[Key(s)] :
                                                 m.time > now' - RateWindow * PerSecond}]
    BY DEF TrimWindow, InWindow
  <2> QED BY <1>2, <2>1 DEF CheatInv, CheatTyped
<1> HIDE DEF new
<1>6. /\ step' \in [Slots -> CheckSteps]
      /\ attempt' \in [Slots -> Attempt \cup {NoAttempt}]
      /\ \A r \in Slots : step'[r] # "idle" => attempt'[r] \in Attempt
      /\ FiniteWindows' /\ RoomLeft'
  BY <1>3, <1>4, <1>5, RoomStays DEF CheckSteps
<1> QED BY <1>1, <1>5, <1>6, CheatRest DEF TrimWindow, CheatInv, CheatTyped

(* The steps that neither count nor extend the window: the slot moves on   *)
(* to a command that is not ZADD, or comes to rest.                        *)
LEMMA MovesOn ==
    ASSUME CheatInv, NEW s \in Slots, NEW command \in CheckSteps, command # "zadd",
           NEW v \in Attempt \cup {NoAttempt}, command # "idle" => v \in Attempt,
           step' = [step EXCEPT ![s] = command], attempt' = [attempt EXCEPT ![s] = v],
           UNCHANGED <<now, window, refusal, calls>>
    PROVE  CheatInv'
<1>1. window' \in [Keys -> SUBSET Member] /\ \A k \in Keys : window'[k] \subseteq window[k]
  BY DEF CheatInv, CheatTyped
<1>2. /\ step' \in [Slots -> CheckSteps]
      /\ attempt' \in [Slots -> Attempt \cup {NoAttempt}]
      /\ \A r \in Slots : step'[r] # "idle" => attempt'[r] \in Attempt
      /\ FiniteWindows' /\ RoomLeft'
  BY <1>1, RoomStays
<1> QED BY <1>1, <1>2, CheatRest DEF CheatInv, CheatTyped

(* A slot that goes on without changing its attempt.                       *)
LEMMA GoesOn ==
    ASSUME CheatInv, NEW s \in Slots, step[s] # "idle", NEW command \in CheckSteps,
           command # "zadd", Goto(s, command), UNCHANGED <<now, window, attempt, refusal, calls>>
    PROVE  CheatInv'
<1>1. attempt[s] \in Attempt
  BY KeyTyped
<1>2. attempt' = [attempt EXCEPT ![s] = attempt[s]] /\ step' = [step EXCEPT ![s] = command]
  BY DEF CheatInv, CheatTyped, Goto
<1> QED BY <1>1, <1>2, MovesOn

LEMMA CountKeeps ==
    ASSUME CheatInv, NEW s \in Slots, CountAttempts(s)
    PROVE  CheatInv'
<1>1. step[s] = "zcard" /\ UNCHANGED <<now, window, attempt, refusal, calls>>
  BY DEF CountAttempts
<1>2. CASE TooMany(Cardinality(window[Key(s)]))
  BY <1>1, <1>2, GoesOn DEF CountAttempts, CheckSteps
<1>3. CASE ~TooMany(Cardinality(window[Key(s)]))
  <2>1. step' = [step EXCEPT ![s] = "zadd"]
    BY <1>3 DEF CountAttempts, Goto
  <2>2. attempt[s] \in Attempt /\ Key(s) \in Keys
    BY <1>1, KeyTyped
  <2>3. ASSUME NEW k \in Keys
        PROVE  Cardinality(window[k]) + Cardinality(Adding(step', attempt, k))
                   < RateMax + Cardinality(Slots)
    <3>1. IsFiniteSet(window[k]) /\ Cardinality(window[k]) \in Nat
      BY FS_CardinalityType DEF CheatInv, FiniteWindows
    <3>2. CASE k = Key(s)
      <4>1. Cardinality(window[k]) < RateMax
        BY <1>3, <3>1, <3>2, LimitNat DEF TooMany
      <4> QED BY <3>1, <4>1, AddingFinite, LimitNat
    <3>3. CASE k # Key(s)
      <4>1. Adding(step', attempt, k) \in SUBSET Adding(step, attempt, k)
        BY <2>1, <3>3 DEF Adding, Key, CheatInv, CheatTyped
      <4>2. Cardinality(window[k]) + Cardinality(Adding(step, attempt, k))
                < RateMax + Cardinality(Slots)
        BY DEF CheatInv, RoomLeft
      <4> QED BY <3>1, <4>1, <4>2, AddingFinite, NoMore, LimitNat
    <3> QED BY <3>2, <3>3
  <2>4. RoomLeft' /\ FiniteWindows'
    BY <1>1, <2>3 DEF RoomLeft, FiniteWindows, CheatInv
  <2>5. CheatTyped'
    BY <1>1, <2>1, <2>2 DEF CheatInv, CheatTyped, CheckSteps
  <2> QED BY <1>1, <2>4, <2>5, CheatRest DEF CheatInv
<1> QED BY <1>2, <1>3

LEMMA RefuseRateKeeps ==
    ASSUME CheatInv, NEW s \in Slots, RefuseRate(s)
    PROVE  CheatInv'
<1> DEFINE t == attempt[s].now
           o == OldestOf(window[Key(s)], t)
           q == [now |-> t, oldest |-> o,
                 retry |-> SecondsUntil(o + RateWindow * PerSecond - t)]
<1>1. attempt[s] \in Attempt /\ Key(s) \in Keys /\ t \in Nat
  BY KeyTyped DEF RefuseRate
<1>2. o \in Nat
  <2>1. window[Key(s)] \in SUBSET Member
    BY <1>1 DEF CheatInv, CheatTyped
  <2> QED BY <1>1, <2>1, OldestTyped
<1>3. Exact(q) /\ q \in Refusal
  <2> HIDE DEF t, o
  <2> QED BY <1>1, <1>2, RefusalExact
<1>4. refusal' = [refusal EXCEPT ![s] = q]
  BY DEF RefuseRate
<1>5. /\ step' = [step EXCEPT ![s] = "idle"] /\ attempt' = [attempt EXCEPT ![s] = NoAttempt]
      /\ UNCHANGED <<now, window, calls>>
  BY DEF RefuseRate, Finish, Goto
<1> HIDE DEF q
<1>6. refusal' \in [Slots -> Refusal \cup {NoRefusal}]
  BY <1>3, <1>4 DEF CheatInv, CheatTyped
<1>7. RetryIsExact'
  <2>1. ASSUME NEW r \in Slots, refusal'[r] # NoRefusal
        PROVE  Exact(refusal'[r])
    BY <1>3, <1>4, <2>1 DEF CheatInv, CheatTyped, RetryIsExact, Exact
  <2> QED BY <2>1 DEF RetryIsExact, Exact
<1>8. window' \in [Keys -> SUBSET Member] /\ \A k \in Keys : window'[k] \subseteq window[k]
  BY <1>5 DEF CheatInv, CheatTyped
<1>9. /\ step' \in [Slots -> CheckSteps]
      /\ attempt' \in [Slots -> Attempt \cup {NoAttempt}]
      /\ \A r \in Slots : step'[r] # "idle" => attempt'[r] \in Attempt
      /\ FiniteWindows' /\ RoomLeft'
  BY <1>5, <1>8, RoomStays DEF CheckSteps
<1> QED BY <1>5, <1>6, <1>7, <1>8, <1>9 DEF CheatInv, CheatTyped

LEMMA AddKeeps ==
    ASSUME CheatInv, NEW s \in Slots, AddAttempt(s)
    PROVE  CheatInv'
<1> DEFINE m == [time |-> attempt[s].now, id |-> attempt[s].id]
<1>1. /\ attempt[s] \in Attempt /\ Key(s) \in Keys
      /\ attempt[s].now \in Nat /\ attempt[s].id \in Nat /\ step[s] = "zadd"
  BY KeyTyped DEF AddAttempt
<1>2. m \in Member
  BY <1>1 DEF Member
<1>3. /\ window' = [window EXCEPT ![Key(s)] = window[Key(s)] \cup {m}]
      /\ step' = [step EXCEPT ![s] = "get"]
      /\ UNCHANGED <<now, attempt, refusal, calls>>
  BY DEF AddAttempt, Goto
<1> HIDE DEF m
<1>4. ASSUME NEW k \in Keys
      PROVE  /\ IsFiniteSet(window'[k])
             /\ Cardinality(window'[k]) + Cardinality(Adding(step', attempt, k))
                    < RateMax + Cardinality(Slots)
  <2>1. /\ IsFiniteSet(window[k]) /\ Cardinality(window[k]) \in Nat
        /\ Cardinality(window[k]) + Cardinality(Adding(step, attempt, k))
               < RateMax + Cardinality(Slots)
    BY FS_CardinalityType DEF CheatInv, FiniteWindows, RoomLeft
  <2>2. CASE k = Key(s)
    <3>1. window'[k] = window[k] \cup {m}
      BY <1>3, <2>2 DEF CheatInv, CheatTyped
    <3>2. s \in Adding(step, attempt, k)
      BY <1>1, <2>2 DEF Adding, Key
    <3>3. Adding(step', attempt, k) = Adding(step, attempt, k) \ {s}
      BY <1>3 DEF Adding, CheatInv, CheatTyped
    <3>4. Cardinality(Adding(step', attempt, k)) = Cardinality(Adding(step, attempt, k)) - 1
      BY <3>2, <3>3, AddingFinite, FS_RemoveElement
    <3>5. /\ IsFiniteSet(window'[k])
          /\ Cardinality(window'[k]) \in {Cardinality(window[k]), Cardinality(window[k]) + 1}
      BY <2>1, <3>1, FS_AddElement
    <3> QED BY <2>1, <3>4, <3>5, AddingFinite, LimitNat
  <2>3. CASE k # Key(s)
    <3>1. window'[k] = window[k]
      BY <1>3, <2>3 DEF CheatInv, CheatTyped
    <3>2. Adding(step', attempt, k) \in SUBSET Adding(step, attempt, k)
      BY <1>3 DEF Adding, CheatInv, CheatTyped
    <3> QED BY <2>1, <3>1, <3>2, AddingFinite, NoMore, LimitNat
  <2> QED BY <2>2, <2>3
<1>5. FiniteWindows' /\ RoomLeft'
  BY <1>3, <1>4 DEF FiniteWindows, RoomLeft
<1>6. CheatTyped'
  BY <1>1, <1>2, <1>3 DEF CheatInv, CheatTyped, CheckSteps
<1> QED BY <1>3, <1>5, <1>6, CheatRest DEF CheatInv

LEMMA FinishKeeps ==
    ASSUME CheatInv, NEW s \in Slots, Finish(s), UNCHANGED <<now, window, refusal, calls>>
    PROVE  CheatInv'
BY MovesOn DEF Finish, Goto, CheckSteps

LEMMA CheatNextInv == CheatInv /\ [CheatNext]_cheatVars => CheatInv'
<1> SUFFICES ASSUME CheatInv, [CheatNext]_cheatVars PROVE CheatInv'
  OBVIOUS
<1>1. ASSUME NEW s \in Slots, ValidateSubmission(s) PROVE CheatInv'
  BY <1>1, ValidateKeeps
<1>2. ASSUME NEW s \in Slots, CheckStep(s) PROVE CheatInv'
  <2>1. CASE TrimWindow(s)
    BY <2>1, TrimKeeps
  <2>2. CASE CountAttempts(s)
    BY <2>2, CountKeeps
  <2>3. CASE RefuseRate(s)
    BY <2>3, RefuseRateKeeps
  <2>4. CASE AddAttempt(s)
    BY <2>4, AddKeeps
  <2>5. CASE ReadAddress(s)
    <3>1. (IF IsShared(attempt[s].ip, attempt[s].team) THEN "lpush" ELSE "setex") \in CheckSteps \ {"zadd"}
      BY DEF CheckSteps
    <3> QED BY <2>5, <3>1, GoesOn DEF ReadAddress
  <2>6. CASE ClaimAddress(s)
    BY <2>6, GoesOn DEF ClaimAddress, CheckSteps
  <2>7. CASE RaiseAlert(s)
    BY <2>7, GoesOn DEF RaiseAlert, CheckSteps
  <2>8. CASE Allow(s)
    BY <2>8, FinishKeeps DEF Allow
  <2> QED BY <1>2, <2>1, <2>2, <2>3, <2>4, <2>5, <2>6, <2>7, <2>8 DEF CheckStep
<1>3. ASSUME NEW s \in Slots, ThrowCheck(s) PROVE CheatInv'
  BY <1>3, FinishKeeps DEF ThrowCheck
<1>4. ASSUME UNCHANGED <<now, window, step, attempt, refusal, calls>> PROVE CheatInv'
  BY <1>4 DEF CheatInv, CheatTyped, FiniteWindows, RoomLeft, RetryIsExact
<1>5. ASSUME NEW a \in Addresses, AddressExpires(a) PROVE CheatInv'
  BY <1>4, <1>5 DEF AddressExpires
<1>6. CASE ClearAlerts
  BY <1>4, <1>6 DEF ClearAlerts
<1>7. CASE UNCHANGED cheatVars
  BY <1>4, <1>7 DEF cheatVars
<1> QED BY <1>1, <1>2, <1>3, <1>5, <1>6, <1>7 DEF CheatNext

LEMMA CheatInitInv == CheatInit => CheatInv
<1> SUFFICES ASSUME CheatInit PROVE CheatInv
  OBVIOUS
<1>1. CheatTyped
  BY DEF CheatInit, CheatTyped, CheckSteps
<1>2. FiniteWindows /\ RoomLeft
  <2>1. ASSUME NEW k \in Keys
        PROVE  /\ IsFiniteSet(window[k])
               /\ Cardinality(window[k]) + Cardinality(Adding(step, attempt, k))
                      < RateMax + Cardinality(Slots)
    <3>1. window[k] = {} /\ Adding(step, attempt, k) = {}
      BY DEF CheatInit, Adding
    <3>2. RateMax > 0
      BY AntiCheatAssumption
    <3>3. Cardinality(Slots) >= 0
      BY LimitNat
    <3> QED BY <3>1, <3>2, <3>3, FS_EmptySet, LimitNat
  <2> QED BY <2>1 DEF FiniteWindows, RoomLeft
<1>3. RetryIsExact
  BY DEF CheatInit, RetryIsExact
<1> QED BY <1>1, <1>2, <1>3 DEF CheatInv

(* However many validations overlap, the attempts in a team's window never *)
(* exceed the limit by as many as there are validations (checkRateLimit).  *)
THEOREM CheatWindowBound == CheatSpec => []WindowBound
<1>1. CheatInv => WindowBound
  <2> SUFFICES ASSUME CheatInv, NEW k \in Keys
               PROVE  Cardinality(window[k]) < RateMax + Cardinality(Slots)
    BY DEF WindowBound
  <2>1. /\ Cardinality(window[k]) \in Nat
        /\ Cardinality(window[k]) + Cardinality(Adding(step, attempt, k))
               < RateMax + Cardinality(Slots)
    BY FS_CardinalityType DEF CheatInv, FiniteWindows, RoomLeft
  <2> QED BY <2>1, AddingFinite, LimitNat
<1> QED BY CheatInitInv, CheatNextInv, <1>1, PTL DEF CheatSpec

(* The wait a refusal names is the least whole number of seconds, at least *)
(* one, after which the oldest attempt has left the window, for every      *)
(* limit, window and resolution of the clock (checkRateLimit).             *)
THEOREM CheatRetryIsExact == CheatSpec => []RetryIsExact
<1>1. CheatInv => RetryIsExact BY DEF CheatInv
<1> QED BY CheatInitInv, CheatNextInv, <1>1, PTL DEF CheatSpec
-----------------------------------------------------------------------------
(***************************************************************************)
(* The rabbit-holes service.                                               *)
(*                                                                         *)
(* Which route answers is a CHOOSE over the routes that match; with the    *)
(* routes of the script in place it is found by cases on the path.         *)
(***************************************************************************)
Paths == [at : PlainNames \cup Circles, depth : Int \cup {NaN, NoDepth}]

RoutesBuilt ==
    \/ routes = <<>> /\ listeners = 0
    \/ role # "" /\ routes = HoneypotRoutes(role) /\ listeners = 1
    \/ routes = HoneypotRoutes(role) \o ServiceRoutes /\ listeners = 1

RabbitInv ==
    /\ role \in Roles
    /\ RoutesBuilt
    /\ \/ asked = Nowhere /\ page = "none"
       \/ asked \in Paths /\ page \in Declared(asked)

\* The steps of the dead-end chains, written out.
LEMMA ChainStepsAre ==
    ChainSteps \subseteq
      {"/vault/hint", "/vault/key/alpha-omega", "/vault/decode/decode_me",
       "/pipeline/env", "/pipeline/artifacts/42", "/pipeline/deploy/token",
       "/oracle/riddle", "/oracle/answer/42",
       "/backup/list", "/backup/db_latest.sql.gz", "/flag/f4k3",
       "/tunnel/config", "/tunnel/key", "/tunnel/connect",
       "/dropzone/upload", "/dropzone/files", "/dropzone/files/flag.txt",
       "/mirror/me", "/mirror/truth",
       "/echo/request", "/echo/debug", "/echo/secret"}
<1>1. \A a, b : LinksOf(<<a, b>>) = {a, b}
  BY DEF LinksOf
<1>2. \A a, b, c : LinksOf(<<a, b, c>>) = {a, b, c}
  BY DEF LinksOf
<1> QED BY <1>1, <1>2 DEF ChainSteps, DeadEndChains

\* No path is declared twice.
LEMMA PathsDisjoint ==
    /\ \A n \in Decoys \cup MoreDecoys : n \notin ChainSteps /\ n \notin Circles /\ n \notin Deceptive
    /\ \A n \in ChainSteps : n \notin Circles /\ n \notin Deceptive
    /\ \A n \in Circles : n \notin Deceptive
    /\ \A n \in Decoys \cup MoreDecoys \cup ChainSteps \cup Circles \cup Deceptive : n \notin {"/health", ""}
<1>1. \A n \in ChainSteps : n \notin Decoys
  BY ChainStepsAre DEF Decoys
<1>2. \A n \in ChainSteps : n \notin MoreDecoys
  BY ChainStepsAre DEF MoreDecoys
<1>3. \A n \in ChainSteps : n \notin Circles /\ n \notin {"/health", ""}
  BY ChainStepsAre DEF Circles
<1>4. \A n \in ChainSteps : n \notin Deceptive
  BY ChainStepsAre DEF Deceptive
<1>5. /\ \A n \in Decoys \cup MoreDecoys : n \notin Circles /\ n \notin Deceptive
      /\ \A n \in Circles : n \notin Deceptive
      /\ \A n \in Decoys \cup MoreDecoys \cup Circles \cup Deceptive : n \notin {"/health", ""}
  BY DEF Decoys, MoreDecoys, Circles, Deceptive
<1> QED BY <1>1, <1>2, <1>3, <1>4, <1>5

LEMMA FirstServes ==
    ASSUME NEW p, NEW i \in Matching(p), \A j \in Matching(p) : i <= j
    PROVE  Serving(p) = routes[i].kind
<1>1. Matching(p) \subseteq Int
  BY DEF Matching
<1> DEFINE first == CHOOSE k \in Matching(p) : \A j \in Matching(p) : k <= j
<1>2. first \in Matching(p) /\ \A j \in Matching(p) : first <= j
  OBVIOUS
<1>3. first = i
  BY <1>1, <1>2
<1> QED BY <1>3 DEF Serving


\* One list of routes after another, and lists written out.
LEMMA JoinIs ==
    ASSUME NEW S, NEW x \in Seq(S), NEW y \in Seq(S)
    PROVE  /\ x \o y \in Seq(S) /\ Len(x) \in Nat /\ Len(y) \in Nat /\ Len(x \o y) = Len(x) + Len(y)
           /\ \A i \in 1 .. Len(x) : (x \o y)[i] = x[i] /\ x[i] \in S
           /\ \A i \in 1 .. Len(y) : (x \o y)[Len(x) + i] = y[i] /\ y[i] \in S
OBVIOUS

LEMMA ListOfTwo ==
    ASSUME NEW S, NEW a \in S, NEW b \in S
    PROVE  <<a, b>> \in Seq(S) /\ Len(<<a, b>>) = 2 /\ <<a, b>>[1] = a /\ <<a, b>>[2] = b
OBVIOUS

LEMMA ListOfSix ==
    ASSUME NEW S, NEW a \in S, NEW b \in S, NEW c \in S, NEW d \in S, NEW e \in S, NEW f \in S
    PROVE  /\ <<a, b, c, d, e, f>> \in Seq(S) /\ Len(<<a, b, c, d, e, f>>) = 6
           /\ <<>> \o <<a, b, c, d, e, f>> = <<a, b, c, d, e, f>>
OBVIOUS

\* Once booted, a honeypot's own routes come first, and the service is all
\* there is otherwise.
LEMMA RoutesAre ==
    ASSUME RoutesBuilt
    PROVE  /\ Booted <=> routes = HoneypotRoutes(role) \o ServiceRoutes
           /\ Booted => listeners = 1
           /\ Booted /\ role = "" => routes = ServiceRoutes
           /\ Booted /\ role # "" =>
                 /\ Len(routes) \in Nat /\ Len(routes) >= 2
                 /\ routes[1] = Route("health", {"/health"})
                 /\ routes[2] = AllOf(IF role \in HoneypotRoles THEN "honeypot" ELSE "not_found")
           /\ role # "" => HoneypotRoutes(role) # <<>>
           /\ routes = HoneypotRoutes(role) => ~Booted
<1> DEFINE nil == <<>>
           own == HoneypotRoutes(role)
           one == Route("health", {"/health"})
           two == AllOf(IF role \in HoneypotRoles THEN "honeypot" ELSE "not_found")
           rest == AllOf("not_found")
           any == {one, two, rest, DecoyRoutes, ChainRoutes, CircleRoutes, DeceptiveRoutes}
<1>1. ServiceRoutes = <<one, DecoyRoutes, ChainRoutes, CircleRoutes, DeceptiveRoutes, rest>>
  BY DEF ServiceRoutes
<1>2. /\ one \in any /\ two \in any /\ rest \in any /\ DecoyRoutes \in any /\ ChainRoutes \in any
      /\ CircleRoutes \in any /\ DeceptiveRoutes \in any
  OBVIOUS
<1>3. role = "" => own = nil
  BY DEF HoneypotRoutes
<1>4. role # "" => own = <<one, two>>
  BY DEF HoneypotRoutes
<1>5. routes = nil \/ (role # "" /\ routes = own) \/ (routes = own \o ServiceRoutes /\ listeners = 1)
  BY DEF RoutesBuilt
<1> SUFFICES /\ Booted <=> routes = own \o ServiceRoutes
             /\ Booted => listeners = 1
             /\ Booted /\ role = "" => routes = ServiceRoutes
             /\ Booted /\ role # "" =>
                   /\ Len(routes) \in Nat /\ Len(routes) >= 2
                   /\ routes[1] = one /\ routes[2] = two
             /\ role # "" => own # nil
             /\ routes = own => ~Booted
  OBVIOUS
<1> HIDE DEF nil, own, one, two, rest, any
<1>6. Len(ServiceRoutes) = 6 /\ ServiceRoutes \in Seq(any) /\ nil \o ServiceRoutes = ServiceRoutes
  BY <1>1, <1>2, ListOfSix DEF nil
<1>7. Len(nil) = 0
  BY DEF nil
<1>8. CASE role = ""
  <2>1. own \o ServiceRoutes = ServiceRoutes
    BY <1>3, <1>6, <1>8
  <2>2. (routes = nil \/ (routes = ServiceRoutes /\ listeners = 1)) /\ own = nil
    BY <1>3, <1>5, <1>8, <2>1
  <2>3. /\ routes = nil => Len(routes) = 0
        /\ routes = ServiceRoutes => Len(routes) = 6
    BY <1>6, <1>7, Zenon
  <2>4. /\ Len(routes) = 0 => ~Booted
        /\ Len(routes) = 6 => Booted
    BY DEF Booted
  <2> QED BY <1>8, <2>1, <2>2, <2>3, <2>4, Zenon
<1>9. CASE role # ""
  <2>1. own \in Seq(any) /\ Len(own) = 2 /\ own[1] = one /\ own[2] = two
    <3>1. own = <<one, two>>
      BY <1>4, <1>9
    <3>2. /\ <<one, two>> \in Seq(any) /\ Len(<<one, two>>) = 2
          /\ <<one, two>>[1] = one /\ <<one, two>>[2] = two
      BY <1>2, ListOfTwo, Zenon
    <3> QED BY <3>1, <3>2, Zenon
  <2>2. /\ Len(own \o ServiceRoutes) = 8 /\ (own \o ServiceRoutes)[1] = one
        /\ (own \o ServiceRoutes)[2] = two
    <3>1. /\ Len(own \o ServiceRoutes) = Len(own) + Len(ServiceRoutes)
          /\ \A i \in 1 .. Len(own) : (own \o ServiceRoutes)[i] = own[i]
      <4>1. own \in Seq(any) /\ ServiceRoutes \in Seq(any)
        BY <1>6, <2>1, Zenon
      <4>2. /\ Len(own \o ServiceRoutes) = Len(own) + Len(ServiceRoutes)
            /\ \A i \in 1 .. Len(own) : (own \o ServiceRoutes)[i] = own[i] /\ own[i] \in any
        BY <4>1, JoinIs, Zenon
      <4> QED BY <4>2, Zenon
    <3> QED BY <1>6, <2>1, <3>1
  <2>3. (routes = nil \/ routes = own \/ (routes = own \o ServiceRoutes /\ listeners = 1)) /\ own # nil
    <3>1. own = nil => Len(own) = 0
      BY <1>7
    <3>2. own # nil
      BY <2>1, <3>1
    <3> QED BY <1>5, <3>2, Zenon
  <2>4. routes = nil => Len(routes) = 0
    BY <1>7
  <2>5. /\ routes = nil => Len(routes) = 0
        /\ routes = own => Len(routes) = 2
        /\ routes = own \o ServiceRoutes => Len(routes) = 8
    BY <2>1, <2>2, <2>4, Zenon
  <2>6. /\ Len(routes) = 0 => ~Booted
        /\ Len(routes) = 2 => ~Booted
        /\ Len(routes) = 8 => Booted
        /\ Len(routes) = 8 => Len(routes) \in Nat /\ Len(routes) >= 2
    <3>1. \A n \in Nat : n = 8 => n >= 2
      OBVIOUS
    <3>2. 8 \in Nat
      OBVIOUS
    <3>3. Len(routes) = 8 => Len(routes) \in Nat /\ Len(routes) >= 2
      BY <3>1, <3>2, Zenon
    <3>4. Len(routes) = 8 => Booted
      BY DEF Booted
    <3>5. Len(routes) = 2 => ~Booted
      BY DEF Booted
    <3>6. Len(routes) = 0 => ~Booted
      BY DEF Booted
    <3> QED BY <3>3, <3>4, <3>5, <3>6, Zenon
  <2>7. /\ routes = own \o ServiceRoutes => routes[1] = one /\ routes[2] = two
        /\ role # ""
    BY <1>9, <2>2, Zenon
  <2> QED BY <2>3, <2>5, <2>6, <2>7, Zenon
<1> QED BY <1>8, <1>9

LEMMA ServingIs ==
    ASSUME RoutesBuilt, Booted, NEW p \in Paths
    PROVE  /\ Serving(p) \in Declared(p)
           /\ Serving(p) = "circle" => p.at \in Circles /\ role = ""
<1> USE DEF Route, AllOf
<1>1. CASE role # ""
  <2>1. /\ Len(routes) >= 2 /\ Len(routes) \in Nat /\ routes[1] = Route("health", {"/health"})
        /\ routes[2] = AllOf(IF role \in HoneypotRoles THEN "honeypot" ELSE "not_found")
    BY <1>1, RoutesAre
  <2>2. Matching(p) \subseteq Nat /\ \A j \in Matching(p) : j >= 1
    BY <2>1 DEF Matching
  <2>3. CASE p.at = "/health"
    <3>1. 1 \in Matching(p)
      BY <2>1, <2>3 DEF Matching
    <3>2. Serving(p) = "health"
      BY <2>1, <2>2, <3>1, FirstServes
    <3> QED BY <2>3, <3>2 DEF Declared
  <2>4. CASE p.at # "/health"
    <3>1. 2 \in Matching(p) /\ 1 \notin Matching(p)
      BY <2>1, <2>4 DEF Matching
    <3>2. \A j \in Matching(p) : 2 <= j
      BY <2>2, <3>1
    <3>3. Serving(p) = routes[2].kind
      BY <3>1, <3>2, FirstServes
    <3>4. Serving(p) = IF role \in HoneypotRoles THEN "honeypot" ELSE "not_found"
      BY <2>1, <3>3
    <3> QED BY <1>1, <2>4, <3>4 DEF Declared
  <2> QED BY <2>3, <2>4
<1>2. CASE role = ""
  <2>1. /\ Len(routes) = 6
        /\ routes[1] = Route("health", {"/health"}) /\ routes[2] = Route("decoy", Decoys \cup MoreDecoys)
        /\ routes[3] = Route("chain", ChainSteps) /\ routes[4] = Route("circle", Circles)
        /\ routes[5] = Route("deceptive", Deceptive) /\ routes[6] = AllOf("not_found")
    <3>1. routes = ServiceRoutes
      BY <1>2, RoutesAre
    <3> QED BY <3>1 DEF ServiceRoutes, DecoyRoutes, ChainRoutes, CircleRoutes, DeceptiveRoutes
  <2>2. /\ Matching(p) \subseteq 1 .. 6 /\ 6 \in Matching(p)
        /\ 1 \in Matching(p) <=> p.at = "/health"
        /\ 2 \in Matching(p) <=> p.at \in Decoys \cup MoreDecoys
        /\ 3 \in Matching(p) <=> p.at \in ChainSteps
        /\ 4 \in Matching(p) <=> p.at \in Circles
        /\ 5 \in Matching(p) <=> p.at \in Deceptive
    BY <2>1 DEF Matching
  <2>3. CASE p.at = "/health"
    <3>1. 1 \in Matching(p) /\ \A j \in Matching(p) : 1 <= j
      BY <2>2, <2>3
    <3>2. Serving(p) = "health"
      BY <2>1, <3>1, FirstServes
    <3> QED BY <2>3, <3>2 DEF Declared
  <2>4. CASE p.at # "/health" /\ p.at \in Decoys \cup MoreDecoys
    <3>1. 2 \in Matching(p) /\ \A j \in Matching(p) : 2 <= j
      BY <2>2, <2>4
    <3>2. Serving(p) = "decoy"
      BY <2>1, <3>1, FirstServes
    <3>3. Declared(p) = {"decoy"}
      BY <1>2, <2>4, PathsDisjoint DEF Declared
    <3> QED BY <3>2, <3>3
  <2>5. CASE p.at # "/health" /\ p.at \notin Decoys \cup MoreDecoys /\ p.at \in ChainSteps
    <3>1. 3 \in Matching(p) /\ \A j \in Matching(p) : 3 <= j
      BY <2>2, <2>5
    <3>2. Serving(p) = "chain"
      BY <2>1, <3>1, FirstServes
    <3>3. Declared(p) = {"chain"}
      BY <1>2, <2>5, PathsDisjoint DEF Declared
    <3> QED BY <3>2, <3>3
  <2>6. CASE p.at # "/health" /\ p.at \notin Decoys \cup MoreDecoys \cup ChainSteps /\ p.at \in Circles
    <3>1. 4 \in Matching(p) /\ \A j \in Matching(p) : 4 <= j
      BY <2>2, <2>6
    <3>2. Serving(p) = "circle"
      BY <2>1, <3>1, FirstServes
    <3>3. Declared(p) = {"circle", "centre"}
      BY <1>2, <2>6, PathsDisjoint DEF Declared
    <3> QED BY <1>2, <2>6, <3>2, <3>3
  <2>7. CASE /\ p.at # "/health" /\ p.at \notin Decoys \cup MoreDecoys \cup ChainSteps \cup Circles
             /\ p.at \in Deceptive
    <3>1. 5 \in Matching(p) /\ \A j \in Matching(p) : 5 <= j
      BY <2>2, <2>7
    <3>2. Serving(p) = "deceptive"
      BY <2>1, <3>1, FirstServes
    <3>3. Declared(p) = {"deceptive"}
      BY <1>2, <2>7 DEF Declared
    <3> QED BY <3>2, <3>3
  <2>8. CASE /\ p.at # "/health" /\ p.at \notin Decoys \cup MoreDecoys \cup ChainSteps \cup Circles
             /\ p.at \notin Deceptive
    <3>1. \A j \in Matching(p) : 6 <= j
      BY <2>2, <2>8
    <3>2. Serving(p) = "not_found"
      BY <2>1, <2>2, <3>1, FirstServes
    <3>3. Declared(p) = {"not_found"}
      BY <1>2, <2>8 DEF Declared
    <3> QED BY <3>2, <3>3
  <2> QED BY <2>3, <2>4, <2>5, <2>6, <2>7, <2>8
<1> QED BY <1>1, <1>2

LEMMA RabbitTypes ==
    ASSUME RabbitInv
    PROVE  RoutesSound /\ RabbitTypeOK
<1>1. "" \notin PlainNames \cup Circles
  BY PathsDisjoint DEF PlainNames
<1>2. asked \in Paths => asked # Nowhere
  <2>1. asked \in Paths => asked.at \in PlainNames \cup Circles
    BY DEF Paths
  <2>2. Nowhere.at = ""
    BY DEF Nowhere
  <2> QED BY <1>1, <2>1, <2>2, Zenon
<1>3. "none" \notin Declared(asked)
  BY DEF Declared
<1>4. listeners \in 0 .. 2 /\ (Booted => listeners = 1)
  <2>1. RoutesBuilt
    BY DEF RabbitInv
  <2>2. Booted => listeners = 1
    BY <2>1, RoutesAre
  <2>3. listeners = 0 \/ listeners = 1
    BY <2>1, Zenon DEF RoutesBuilt
  <2> QED BY <2>2, <2>3
<1>5. RoutesSound
  BY <1>4 DEF RabbitInv, RoutesSound, ListensOnce, NoRouteHidden
<1>6. page = "none" <=> asked = Nowhere
  BY <1>2, <1>3 DEF RabbitInv
<1>7. page \in {"none", "health", "honeypot", "decoy", "chain", "circle", "centre", "deceptive",
               "not_found"}
  BY DEF RabbitInv, Declared
<1> QED BY <1>4, <1>5, <1>6, <1>7 DEF RabbitInv, RabbitTypeOK

LEMMA RabbitInitInv ==
    RabbitInit => RabbitInv
BY DEF RabbitInit, RabbitInv, RoutesBuilt

\* An answer is of a kind the path is declared as.
LEMMA AnswerIs ==
    ASSUME RoutesBuilt, Booted, NEW p \in Paths
    PROVE  Answer(p) \in Declared(p)
<1>1. /\ Serving(p) \in Declared(p)
      /\ Serving(p) = "circle" => p.at \in Circles /\ role = ""
  BY ServingIs
<1>2. p.at \in Circles /\ role = "" => Declared(p) = {"circle", "centre"}
  BY PathsDisjoint DEF Declared
<1>3. CASE Serving(p) # "circle"
  BY <1>1, <1>3 DEF Answer
<1>4. CASE Serving(p) = "circle"
  <2>1. Answer(p) \in {"circle", "centre"}
    BY <1>4 DEF Answer
  <2> QED BY <1>1, <1>2, <1>4, <2>1
<1> QED BY <1>3, <1>4

LEMMA RequestKeeps ==
    ASSUME RabbitInv, NEW p \in Paths, Request(p)
    PROVE  RabbitInv'
<1>1. /\ page' = Answer(p) /\ asked' = p
      /\ role' = role /\ routes' = routes /\ listeners' = listeners
      /\ Booted
  BY DEF Request
<1>2. RoutesBuilt /\ role \in Roles
  BY DEF RabbitInv
<1>3. Answer(p) \in Declared(p)
  BY <1>1, <1>2, AnswerIs
<1>4. RoutesBuilt'
  BY <1>1, <1>2 DEF RoutesBuilt
<1>5. Declared(asked)' = Declared(p)
  BY <1>1 DEF Declared
<1>6. asked' \in Paths /\ page' \in Declared(asked)'
  BY <1>1, <1>3, <1>5
<1> QED BY <1>1, <1>2, <1>4, <1>6 DEF RabbitInv

LEMMA SameDeclared ==
    ASSUME role' = role, asked' = asked
    PROVE  Declared(asked)' = Declared(asked)
BY DEF Declared

LEMMA RabbitNextInv ==
    ASSUME RabbitInv, [RabbitNext]_rabbitVars
    PROVE  RabbitInv'
<1>1. RoutesBuilt /\ role \in Roles
  BY DEF RabbitInv
<1>2. CASE RegisterHoneypot
  <2>1. /\ routes = <<>> /\ role # "" /\ routes' = HoneypotRoutes(role) /\ listeners' = listeners + 1
        /\ role' = role /\ page' = page /\ asked' = asked
    BY <1>2 DEF RegisterHoneypot
  <2>2. HoneypotRoutes(role) # <<>> /\ ~Booted
    <3>1. Len(routes) = 0
      BY <2>1
    <3>2. ~Booted
      BY <3>1 DEF Booted
    <3> QED BY <1>1, <2>1, <3>2, RoutesAre
  <2>3. listeners = 0
    BY <1>1, <2>1, <2>2, RoutesAre DEF RoutesBuilt
  <2>4. RoutesBuilt'
    <3>1. listeners' = listeners + 1
      BY <2>1, Zenon
    <3>2. listeners' = 1
      BY <2>3, <3>1
    <3>3. role' # "" /\ routes' = HoneypotRoutes(role')
      BY <2>1, Zenon
    <3> QED BY <3>2, <3>3, Zenon DEF RoutesBuilt
  <2> QED BY <1>1, <2>1, <2>4, SameDeclared DEF RabbitInv
<1>3. CASE RegisterService
  <2>1. /\ routes = HoneypotRoutes(role) /\ routes' = HoneypotRoutes(role) \o ServiceRoutes
        /\ listeners' = (IF role = "" THEN listeners + 1 ELSE listeners)
        /\ role' = role /\ page' = page /\ asked' = asked
    BY <1>3 DEF RegisterService, MayListen
  <2>2. ~Booted /\ routes # HoneypotRoutes(role) \o ServiceRoutes
        /\ (role # "" => HoneypotRoutes(role) # <<>>)
    BY <1>1, <2>1, RoutesAre
  <2>3. listeners = IF role = "" THEN 0 ELSE 1
    BY <1>1, <2>1, <2>2 DEF RoutesBuilt
  <2>4. RoutesBuilt'
    <3>1. ASSUME role = "" PROVE listeners' = 1
      <4>1. listeners' = listeners + 1 /\ listeners = 0
        BY <2>1, <2>3, <3>1, Zenon
      <4>2. listeners' = 1
        BY <4>1
      <4> QED BY <4>2
    <3>2. ASSUME role # "" PROVE listeners' = 1
      BY <2>1, <2>3, <3>2, Zenon
    <3>3. routes' = HoneypotRoutes(role') \o ServiceRoutes
      BY <2>1, Zenon
    <3>4. listeners' = 1
      BY <3>1, <3>2
    <3> QED BY <3>3, <3>4, Zenon DEF RoutesBuilt
  <2> QED BY <1>1, <2>1, <2>4, SameDeclared DEF RabbitInv
<1>4. CASE \E p \in AllPaths : Request(p)
  <2>1. PICK p \in AllPaths : Request(p)
    BY <1>4
  <2>2. p \in Paths
    <3>1. /\ \A n \in PlainNames : [at |-> n, depth |-> NoDepth] \in Paths
          /\ \A c \in Circles : \A d \in Numbers \cup {NaN, NoDepth} :
                [at |-> c, depth |-> d] \in Paths
      BY RabbitAssumption DEF Paths
    <3>2. \/ \E n \in PlainNames : p = [at |-> n, depth |-> NoDepth]
          \/ \E c \in Circles, d \in Numbers \cup {NaN, NoDepth} : p = [at |-> c, depth |-> d]
      BY DEF AllPaths
    <3> QED BY <3>1, <3>2, Zenon
  <2> QED BY <2>1, <2>2, RequestKeeps
<1>6. CASE UNCHANGED rabbitVars
  <2>1. role' = role /\ routes' = routes /\ listeners' = listeners /\ page' = page /\ asked' = asked
    BY <1>6 DEF rabbitVars
  <2>2. RoutesBuilt'
    BY <1>1, <2>1, Zenon DEF RoutesBuilt
  <2> QED BY <1>1, <2>1, <2>2, SameDeclared DEF RabbitInv
<1> QED BY <1>2, <1>3, <1>4, <1>6 DEF RabbitNext

(* For every role and every depth a visitor writes: a process binds its    *)
(* port once, and a path answers as what it is declared as.  No route is   *)
(* hidden by one registered earlier, save that a honeypot plays its role   *)
(* on every path but /health (app.ts from the honeypot branch to listen).  *)
THEOREM RoutesHold == RabbitSpec => []RoutesSound
<1>1. RabbitInv => RoutesSound BY RabbitTypes
<1> QED BY RabbitInitInv, RabbitNextInv, <1>1, PTL DEF RabbitSpec
-----------------------------------------------------------------------------
(***************************************************************************)
(* The leaderboard server.                                                 *)
(*                                                                         *)
(* Redis hands every subscriber the updates in the order of publication.   *)
(* The proof names that order: a rank of the published updates exists in   *)
(* which every inbox, every stream and the pending queue are sorted, and   *)
(* what a client holds comes before what is still to be delivered.         *)
(***************************************************************************)
Line(rank, x) ==
    /\ \A i \in 1 .. Len(x) : rank[x[i]] > 0
    /\ \A i, j \in 1 .. Len(x) : i < j => rank[x[i]] <= rank[x[j]]

Ahead(rank, x, y) == \A i \in 1 .. Len(x) : \A j \in 1 .. Len(y) : rank[x[i]] <= rank[y[j]]

Ranked(rank, n) ==
    /\ \A u \in Update : rank[u] <= n /\ (rank[u] > 0 => u.board <= boards)
    /\ \A u, v \in Update : rank[u] > 0 /\ rank[u] = rank[v] => u = v
    /\ \A w \in Writers : writing[w] # Resting =>
          rank[writing[w]] = 0 /\ writing[w].board <= boards
    /\ \A w, z \in Writers : w # z /\ writing[w] # Resting => writing[w] # writing[z]
    /\ \A c \in Clients : Line(rank, inbox[c]) /\ Ahead(rank, inbox[c], pending)
    /\ \A s \in Streams : Line(rank, sent[s])
    /\ Line(rank, pending)

LEMMA EmptyLine ==
    ASSUME NEW rank, NEW x
    PROVE  /\ <<>> \in Seq(Update) /\ Line(rank, <<>>)
           /\ Ahead(rank, <<>>, x) /\ Ahead(rank, x, <<>>)
BY DEF Line, Ahead

LEMMA AppendIs ==
    ASSUME NEW S, NEW x \in Seq(S), NEW u \in S
    PROVE  /\ Append(x, u) \in Seq(S) /\ Len(x) \in Nat /\ Len(Append(x, u)) = Len(x) + 1
           /\ \A i \in 1 .. Len(x) : x[i] \in S /\ Append(x, u)[i] = x[i]
           /\ Append(x, u)[Len(x) + 1] = u
OBVIOUS

LEMMA TailIs ==
    ASSUME NEW S, NEW x \in Seq(S), x # <<>>
    PROVE  /\ Tail(x) \in Seq(S) /\ Len(x) \in Nat /\ Len(Tail(x)) = Len(x) - 1 /\ Len(x) >= 1
           /\ \A i \in 1 .. Len(Tail(x)) : Tail(x)[i] = x[i + 1]
           /\ Head(x) = x[1] /\ x[1] \in S
           /\ \A i \in 1 .. Len(x) : x[i] \in S
OBVIOUS

LEMMA LineAppend ==
    ASSUME NEW S, NEW rank \in [S -> Nat], NEW x \in Seq(S), NEW u \in S, rank[u] > 0,
           \A v \in S : rank[v] <= rank[u], Line(rank, x)
    PROVE  Line(rank, Append(x, u))
<1>1. \A i \in 1 .. Len(Append(x, u)) :
        (i \in 1 .. Len(x) /\ Append(x, u)[i] = x[i] /\ x[i] \in S) \/ (i = Len(x) + 1 /\ Append(x, u)[i] = u)
  BY AppendIs
<1>2. \A i \in 1 .. Len(Append(x, u)) : Append(x, u)[i] \in S /\ rank[Append(x, u)[i]] > 0
  BY <1>1 DEF Line
<1>3. ASSUME NEW i \in 1 .. Len(Append(x, u)), NEW j \in 1 .. Len(Append(x, u)), i < j
      PROVE  rank[Append(x, u)[i]] <= rank[Append(x, u)[j]]
  <2>1. CASE j = Len(x) + 1
    BY <1>1, <1>2, <2>1
  <2>2. CASE j \in 1 .. Len(x)
    <3>1. i \in 1 .. Len(x)
      BY <1>3, <2>2, AppendIs
    <3> QED BY <1>1, <1>3, <2>2, <3>1, AppendIs DEF Line
  <2> QED BY <1>1, <2>1, <2>2
<1> QED BY <1>2, <1>3 DEF Line

LEMMA AheadAppend ==
    ASSUME NEW S, NEW rank \in [S -> Nat], NEW x \in Seq(S), NEW y \in Seq(S), NEW u \in S,
           \A v \in S : rank[v] <= rank[u], Ahead(rank, x, y)
    PROVE  Ahead(rank, x, Append(y, u))
<1>1. \A i \in 1 .. Len(Append(y, u)) :
        (i \in 1 .. Len(y) /\ Append(y, u)[i] = y[i]) \/ (i = Len(y) + 1 /\ Append(y, u)[i] = u)
  BY AppendIs
<1>2. \A i \in 1 .. Len(x) : x[i] \in S
  OBVIOUS
<1>3. ASSUME NEW i \in 1 .. Len(x), NEW j \in 1 .. Len(Append(y, u))
      PROVE  rank[x[i]] <= rank[Append(y, u)[j]]
  BY <1>1, <1>2 DEF Ahead
<1> QED BY <1>3 DEF Ahead

LEMMA Reranked ==
    ASSUME NEW S, NEW rank \in [S -> Nat], NEW new \in [S -> Nat], NEW x \in Seq(S), NEW y \in Seq(S),
           \A v \in S : rank[v] > 0 => new[v] = rank[v]
    PROVE  /\ Line(rank, x) => Line(new, x)
           /\ Line(rank, x) /\ Line(rank, y) /\ Ahead(rank, x, y) => Ahead(new, x, y)
<1>1. /\ \A i \in 1 .. Len(x) : x[i] \in S
      /\ \A i \in 1 .. Len(y) : y[i] \in S
  OBVIOUS
<1>2. Line(rank, x) => Line(new, x)
  BY <1>1 DEF Line
<1>3. Line(rank, x) /\ Line(rank, y) /\ Ahead(rank, x, y) => Ahead(new, x, y)
  BY <1>1 DEF Line, Ahead
<1> QED BY <1>2, <1>3

LEMMA FanLine ==
    ASSUME NEW S, NEW rank \in [S -> Nat], NEW x \in Seq(S), NEW y \in Seq(S), y # <<>>,
           NEW z \in Seq({Head(y)}),
           Line(rank, x), Line(rank, y), Ahead(rank, x, y)
    PROVE  /\ x \o z \in Seq(S) /\ Tail(y) \in Seq(S)
           /\ Line(rank, x \o z) /\ Line(rank, Tail(y)) /\ Ahead(rank, x \o z, Tail(y))
           /\ Ahead(rank, x, Tail(y))
<1> DEFINE u == Head(y)
<1>1. /\ Tail(y) \in Seq(S) /\ Len(y) \in Nat /\ Len(Tail(y)) = Len(y) - 1 /\ Len(y) >= 1
      /\ \A i \in 1 .. Len(Tail(y)) : Tail(y)[i] = y[i + 1]
      /\ u = y[1] /\ u \in S
      /\ \A i \in 1 .. Len(y) : y[i] \in S
  BY TailIs
<1>2. /\ \A i \in 1 .. Len(z) : z[i] = u
      /\ z \in Seq(S)
  BY <1>1
<1> HIDE DEF u
<1>3. /\ x \o z \in Seq(S) /\ Len(x) \in Nat /\ Len(z) \in Nat /\ Len(x \o z) = Len(x) + Len(z)
      /\ \A i \in 1 .. Len(x) : (x \o z)[i] = x[i] /\ x[i] \in S
      /\ \A i \in 1 .. Len(z) : (x \o z)[Len(x) + i] = z[i] /\ z[i] \in S
  BY <1>2, JoinIs
<1>4. \A i \in 1 .. Len(x \o z) :
        (i \in 1 .. Len(x) /\ (x \o z)[i] = x[i] /\ x[i] \in S) \/ (i > Len(x) /\ (x \o z)[i] = u)
  <2> SUFFICES ASSUME NEW i \in 1 .. Len(x \o z)
               PROVE  (i \in 1 .. Len(x) /\ (x \o z)[i] = x[i] /\ x[i] \in S) \/ (i > Len(x) /\ (x \o z)[i] = u)
    OBVIOUS
  <2>1. CASE i \in 1 .. Len(x)
    BY <1>3, <2>1
  <2>2. CASE i \notin 1 .. Len(x)
    <3>1. i - Len(x) \in 1 .. Len(z) /\ i = Len(x) + (i - Len(x)) /\ i > Len(x)
      BY <1>3, <2>2
    <3> QED BY <1>2, <1>3, <3>1
  <2> QED BY <2>1, <2>2
<1>5. \A i \in 1 .. Len(x) : rank[x[i]] <= rank[u]
  BY <1>1 DEF Ahead
<1>6. rank[u] > 0 /\ rank[u] \in Nat /\ \A j \in 1 .. Len(y) : rank[u] <= rank[y[j]]
  BY <1>1 DEF Line
<1>7. Line(rank, x \o z)
  <2>1. \A i \in 1 .. Len(x \o z) : rank[(x \o z)[i]] > 0
    BY <1>4, <1>6 DEF Line
  <2>2. ASSUME NEW i \in 1 .. Len(x \o z), NEW j \in 1 .. Len(x \o z), i < j
        PROVE  rank[(x \o z)[i]] <= rank[(x \o z)[j]]
    <3>1. CASE j \in 1 .. Len(x) /\ (x \o z)[j] = x[j]
      <4>1. i \in 1 .. Len(x) /\ (x \o z)[i] = x[i]
        BY <1>3, <2>2, <3>1
      <4> QED BY <2>2, <3>1, <4>1 DEF Line
    <3>2. CASE (x \o z)[j] = u
      <4>1. ((x \o z)[i] = x[i] /\ i \in 1 .. Len(x)) \/ (x \o z)[i] = u
        BY <1>4
      <4> QED BY <1>5, <1>6, <3>2, <4>1
    <3> QED BY <1>4, <3>1, <3>2
  <2> QED BY <2>1, <2>2 DEF Line
<1>8. \A i \in 1 .. Len(Tail(y)) : i + 1 \in 1 .. Len(y) /\ Tail(y)[i] = y[i + 1]
  BY <1>1
<1>9. Line(rank, Tail(y))
  <2>1. \A i \in 1 .. Len(Tail(y)) : rank[Tail(y)[i]] > 0
    BY <1>8 DEF Line
  <2>2. ASSUME NEW i \in 1 .. Len(Tail(y)), NEW j \in 1 .. Len(Tail(y)), i < j
        PROVE  rank[Tail(y)[i]] <= rank[Tail(y)[j]]
    <3>1. i + 1 < j + 1
      BY <2>2
    <3> QED BY <1>8, <3>1 DEF Line
  <2> QED BY <2>1, <2>2 DEF Line
<1>10. Ahead(rank, x \o z, Tail(y)) /\ Ahead(rank, x, Tail(y))
  <2>1. ASSUME NEW i \in 1 .. Len(x \o z), NEW j \in 1 .. Len(Tail(y))
        PROVE  rank[(x \o z)[i]] <= rank[Tail(y)[j]]
    <3>1. ((x \o z)[i] = x[i] /\ i \in 1 .. Len(x)) \/ (x \o z)[i] = u
      BY <1>4
    <3> QED BY <1>6, <1>8, <3>1 DEF Ahead
  <2>2. ASSUME NEW i \in 1 .. Len(x), NEW j \in 1 .. Len(Tail(y))
        PROVE  rank[x[i]] <= rank[Tail(y)[j]]
    BY <1>8 DEF Ahead
  <2> QED BY <2>1, <2>2 DEF Ahead
<1> QED BY <1>1, <1>3, <1>7, <1>9, <1>10

LbTypes ==
    /\ boards \in Nat /\ boards <= MaxBoards
    /\ cachedBoard \in [Events -> Nat]
    /\ \A e \in Events : cachedBoard[e] <= boards
    /\ writing \in [Writers -> Update \cup {Resting}]
    /\ psubscribed \in BOOLEAN
    /\ pending \in Seq(Update)
    /\ connected \subseteq Clients
    /\ rooms \in [Clients -> SUBSET Events]
    /\ inbox \in [Clients -> Seq(Update)]
    /\ \A c \in Clients : c \notin connected => rooms[c] = {} /\ inbox[c] = <<>>
    /\ stream \in [Streams -> [event : Events \cup {NoEvent}, live : BOOLEAN]]
    /\ sent \in [Streams -> Seq(Update)]
    /\ \A s \in Streams : stream[s].event = NoEvent => stream[s] = Closed /\ sent[s] = <<>>

Cached(cache, x) == \A i \in 1 .. Len(x) : x[i].board <= cache[x[i].event]

LbCached ==
    /\ \A w \in Writers : writing[w] # Resting =>
          writing[w].board <= cachedBoard[writing[w].event]
    /\ Cached(cachedBoard, pending)
    /\ \A c \in Clients : Cached(cachedBoard, inbox[c])
    /\ \A s \in Streams : Cached(cachedBoard, sent[s])

OwnEvents == \A s \in Streams : \A i \in 1 .. Len(sent[s]) : sent[s][i].event = stream[s].event

\* The order in which the updates were published.
InOrder == \E rank \in [Update -> Nat] : \E n \in Nat : Ranked(rank, n)

LbInv == LbTypes /\ LbCached /\ OwnEvents /\ InOrder /\ answer.seen <= answer.board

\* Nothing of the fan-out changed.
LEMMA LbTypesMean == LbTypes => LeaderboardTypeOK
<1> SUFFICES ASSUME LbTypes PROVE LeaderboardTypeOK
  OBVIOUS
<1>1. boards \in 0 .. MaxBoards
  BY LeaderboardServerAssumption DEF LbTypes
<1>2. cachedBoard \in [Events -> 0 .. boards]
  BY DEF LbTypes
<1>3. \A w \in Writers : writing[w] = Resting \/ writing[w] \in Update
  BY DEF LbTypes
<1> QED BY <1>1, <1>2, <1>3 DEF LbTypes, LeaderboardTypeOK

LEMMA NoResting == Resting \notin Update
BY LeaderboardServerAssumption DEF Resting, Update

LEMMA LbInitInv ==
    LeaderboardInit => LbInv
<1> SUFFICES ASSUME LeaderboardInit PROVE LbInv
  OBVIOUS
<1>1. <<>> \in Seq(Update) /\ Len(<<>>) = 0
  OBVIOUS
<1>2. LbTypes
  <2>1. boards \in Nat /\ boards <= MaxBoards /\ cachedBoard \in [Events -> Nat]
        /\ \A e \in Events : cachedBoard[e] <= boards
    BY LeaderboardServerAssumption DEF LeaderboardInit
  <2>2. stream \in [Streams -> [event : Events \cup {NoEvent}, live : BOOLEAN]]
        /\ \A s \in Streams : stream[s] = Closed
    BY DEF LeaderboardInit, Closed
  <2> QED BY <1>1, <2>1, <2>2 DEF LeaderboardInit, LbTypes
<1>3. /\ writing = [w \in Writers |-> Resting] /\ pending = <<>>
      /\ \A c \in Clients : inbox[c] = <<>>
      /\ \A s \in Streams : sent[s] = <<>>
  BY DEF LeaderboardInit
<1>4. LbCached
  BY <1>3, <1>1 DEF LbCached, Cached
<1>5. OwnEvents
  BY <1>3, <1>1 DEF OwnEvents
<1>6. InOrder
  <2> DEFINE rank == [u \in Update |-> 0]
  <2>1. rank \in [Update -> Nat] /\ \A u \in Update : rank[u] = 0
    OBVIOUS
  <2>2. /\ \A c \in Clients : Line(rank, inbox[c]) /\ Ahead(rank, inbox[c], pending)
        /\ \A s \in Streams : Line(rank, sent[s])
        /\ Line(rank, pending)
    BY <1>3, EmptyLine
  <2>3. \A w \in Writers : writing[w] = Resting
    BY <1>3
  <2> HIDE DEF rank
  <2>4. Ranked(rank, 0)
    BY <2>1, <2>2, <2>3 DEF Ranked
  <2> QED BY <2>1, <2>4 DEF InOrder
<1>7. answer.seen <= answer.board
  BY DEF LeaderboardInit
<1> QED BY <1>2, <1>4, <1>5, <1>6, <1>7 DEF LbInv

LEMMA LbStore ==
    ASSUME LbInv, NEW w \in Writers, NEW e \in Events, Store(w, e)
    PROVE  LbInv'
<1> DEFINE u == [event |-> e, board |-> boards + 1]
<1>1. /\ writing[w] = Resting /\ boards < MaxBoards /\ boards' = boards + 1
      /\ cachedBoard' = [cachedBoard EXCEPT ![e] = boards + 1]
      /\ writing' = [writing EXCEPT ![w] = u]
      /\ psubscribed' = psubscribed /\ pending' = pending /\ connected' = connected
      /\ rooms' = rooms /\ inbox' = inbox /\ stream' = stream /\ sent' = sent /\ answer' = answer
  BY DEF Store
<1>2. LbTypes /\ boards \in Nat /\ MaxBoards \in Nat
  BY LeaderboardServerAssumption DEF LbInv, LbTypes
<1>3. u \in Update /\ u.board = boards + 1 /\ u.event = e
  BY <1>1, <1>2 DEF Update
<1> HIDE DEF u
<1>4. /\ cachedBoard' \in [Events -> Nat]
      /\ \A f \in Events : cachedBoard[f] <= cachedBoard'[f] /\ cachedBoard'[f] <= boards'
      /\ cachedBoard'[e] = boards + 1
  BY <1>1, <1>2 DEF LbTypes
<1>5. writing' \in [Writers -> Update \cup {Resting}] /\ writing'[w] = u
      /\ \A z \in Writers \ {w} : writing'[z] = writing[z]
  BY <1>1, <1>2, <1>3 DEF LbTypes
<1>6. LbTypes'
  <2>1. boards' \in Nat /\ boards' <= MaxBoards
    BY <1>1, <1>2
  <2> QED BY <1>1, <1>2, <1>4, <1>5, <2>1 DEF LbTypes
<1>7. LbCached'
  <2>1. \A x \in Seq(Update) : Cached(cachedBoard, x) => Cached(cachedBoard', x)
    <3> SUFFICES ASSUME NEW x \in Seq(Update), Cached(cachedBoard, x), NEW i \in 1 .. Len(x)
                 PROVE  x[i].board <= cachedBoard'[x[i].event]
      BY DEF Cached
    <3>1. x[i] \in Update /\ x[i].board <= cachedBoard[x[i].event]
      BY DEF Cached
    <3>2. x[i].board \in Int /\ x[i].event \in Events
      BY <3>1 DEF Update
    <3>3. cachedBoard[x[i].event] \in Nat /\ cachedBoard'[x[i].event] \in Nat
          /\ cachedBoard[x[i].event] <= cachedBoard'[x[i].event]
      BY <1>2, <1>4, <3>2 DEF LbTypes
    <3> QED BY <3>1, <3>2, <3>3
  <2>2. \A z \in Writers : writing'[z] # Resting => writing'[z].board <= cachedBoard'[writing'[z].event]
    <3> SUFFICES ASSUME NEW z \in Writers, writing'[z] # Resting
                 PROVE  writing'[z].board <= cachedBoard'[writing'[z].event]
      OBVIOUS
    <3>1. CASE z = w
      BY <1>2, <1>3, <1>4, <1>5, <3>1
    <3>2. CASE z # w
      <4>1. writing'[z] = writing[z] /\ writing[z] \in Update
            /\ writing[z].board <= cachedBoard[writing[z].event]
        BY <1>2, <1>5, <3>2 DEF LbInv, LbTypes, LbCached
      <4>2. writing[z].board \in Int /\ writing[z].event \in Events
        BY <4>1 DEF Update
      <4>3. cachedBoard[writing[z].event] \in Nat /\ cachedBoard'[writing[z].event] \in Nat
            /\ cachedBoard[writing[z].event] <= cachedBoard'[writing[z].event]
        BY <1>2, <1>4, <4>2 DEF LbTypes
      <4> QED BY <4>1, <4>2, <4>3
    <3> QED BY <3>1, <3>2
  <2>3. /\ Cached(cachedBoard', pending')
        /\ \A c \in Clients : Cached(cachedBoard', inbox'[c])
        /\ \A s \in Streams : Cached(cachedBoard', sent'[s])
    BY <1>1, <1>2, <2>1 DEF LbInv, LbTypes, LbCached
  <2> QED BY <2>2, <2>3 DEF LbCached
<1>8. OwnEvents'
  BY <1>1 DEF LbInv, OwnEvents
<1>9. InOrder'
  <2>1. PICK rank \in [Update -> Nat] : \E n \in Nat : Ranked(rank, n)
    BY DEF LbInv, InOrder
  <2>2. PICK n \in Nat : Ranked(rank, n)
    BY <2>1
  <2>3. /\ \A v \in Update : rank[v] <= n /\ (rank[v] > 0 => v.board <= boards')
        /\ \A v, x \in Update : rank[v] > 0 /\ rank[v] = rank[x] => v = x
    <3>1. \A v \in Update : v.board \in Int
      BY DEF Update
    <3> QED BY <1>1, <1>2, <2>2, <3>1 DEF Ranked
  <2>4. rank[u] = 0
    <3>1. rank[u] \in Nat /\ ~(u.board <= boards)
      BY <1>2, <1>3
    <3> QED BY <1>3, <2>2, <3>1 DEF Ranked
  <2>5. \A z \in Writers : writing'[z] # Resting => rank[writing'[z]] = 0 /\ writing'[z].board <= boards'
    <3> SUFFICES ASSUME NEW z \in Writers, writing'[z] # Resting
                 PROVE  rank[writing'[z]] = 0 /\ writing'[z].board <= boards'
      OBVIOUS
    <3>1. CASE z = w
      BY <1>1, <1>2, <1>3, <1>5, <2>4, <3>1
    <3>2. CASE z # w
      <4>1. writing'[z] = writing[z] /\ writing[z] \in Update
            /\ rank[writing[z]] = 0 /\ writing[z].board <= boards
        BY <1>2, <1>5, <2>2, <3>2 DEF LbTypes, Ranked
      <4>2. writing[z].board \in Int
        BY <4>1 DEF Update
      <4> QED BY <1>1, <1>2, <4>1, <4>2
    <3> QED BY <3>1, <3>2
  <2>6. \A y, z \in Writers : y # z /\ writing'[y] # Resting => writing'[y] # writing'[z]
    <3>1. \A z \in Writers : writing[z] # u
      <4> SUFFICES ASSUME NEW z \in Writers, writing[z] = u PROVE FALSE
        OBVIOUS
      <4>1. u # Resting
        BY <1>3, NoResting
      <4>2. u.board <= boards
        BY <2>2, <4>1 DEF Ranked
      <4> QED BY <1>2, <1>3, <4>2
    <3>2. \A y, z \in Writers : y # z /\ writing[y] # Resting => writing[y] # writing[z]
      BY <2>2 DEF Ranked
    <3> QED BY <1>5, <3>1, <3>2
  <2>7. Ranked(rank, n)'
    BY <1>1, <2>2, <2>3, <2>5, <2>6 DEF Ranked
  <2> QED BY <2>7 DEF InOrder
<1>10. (answer.seen <= answer.board)'
  BY <1>1 DEF LbInv
<1> QED BY <1>6, <1>7, <1>8, <1>9, <1>10 DEF LbInv

LEMMA LbPublish ==
    ASSUME LbInv, NEW w \in Writers, Publish(w)
    PROVE  LbInv'
<1> DEFINE u == writing[w]
<1>1. /\ u # Resting
      /\ writing' = [writing EXCEPT ![w] = Resting]
      /\ pending' = IF psubscribed THEN Append(pending, u) ELSE pending
      /\ sent' = [s \in Streams |-> IF OfChannel(s, u) THEN Append(sent[s], u) ELSE sent[s]]
      /\ boards' = boards /\ cachedBoard' = cachedBoard /\ psubscribed' = psubscribed
      /\ connected' = connected /\ rooms' = rooms /\ inbox' = inbox /\ stream' = stream
      /\ answer' = answer
  BY DEF Publish
<1>2. LbTypes /\ LbCached
  BY DEF LbInv
<1>3. u \in Update /\ u.board <= cachedBoard[u.event]
  BY <1>1, <1>2 DEF LbTypes, LbCached
<1> HIDE DEF u
<1>4. /\ \A x \in Seq(Update) : Append(x, u) \in Seq(Update)
      /\ \A x \in Seq(Update) : Cached(cachedBoard, x) => Cached(cachedBoard, Append(x, u))
  <2>1. \A x \in Seq(Update) : Append(x, u) \in Seq(Update)
    BY <1>3
  <2>2. ASSUME NEW x \in Seq(Update), Cached(cachedBoard, x), NEW i \in 1 .. Len(Append(x, u))
        PROVE  Append(x, u)[i].board <= cachedBoard[Append(x, u)[i].event]
    <3>1. (i \in 1 .. Len(x) /\ Append(x, u)[i] = x[i]) \/ Append(x, u)[i] = u
      BY <1>3, AppendIs
    <3> QED BY <1>3, <2>2, <3>1 DEF Cached
  <2> QED BY <2>1, <2>2 DEF Cached
<1>5. /\ pending \in Seq(Update) /\ \A s \in Streams : sent[s] \in Seq(Update)
      /\ \A s \in Streams : sent'[s] = sent[s] \/ (sent'[s] = Append(sent[s], u) /\ OfChannel(s, u))
      /\ pending' = pending \/ pending' = Append(pending, u)
  BY <1>1, <1>2 DEF LbTypes
<1>6. LbTypes'
  <2>1. /\ pending' \in Seq(Update)
        /\ sent' \in [Streams -> Seq(Update)]
        /\ writing' \in [Writers -> Update \cup {Resting}]
    BY <1>1, <1>2, <1>4, <1>5 DEF LbTypes
  <2>2. \A s \in Streams : stream'[s].event = NoEvent => stream'[s] = Closed /\ sent'[s] = <<>>
    <3> SUFFICES ASSUME NEW s \in Streams, stream[s].event = NoEvent
                 PROVE  stream[s] = Closed /\ sent'[s] = <<>>
      BY <1>1
    <3>1. ~OfChannel(s, u)
      BY <1>3, LeaderboardServerAssumption DEF OfChannel, Update
    <3> QED BY <1>2, <1>5, <3>1 DEF LbTypes
  <2> QED BY <1>1, <1>2, <2>1, <2>2 DEF LbTypes
<1>7. LbCached'
  <2>1. Cached(cachedBoard', pending') /\ \A s \in Streams : Cached(cachedBoard', sent'[s])
    BY <1>1, <1>2, <1>4, <1>5 DEF LbCached
  <2>2. \A z \in Writers : writing'[z] # Resting => writing'[z] = writing[z]
    BY <1>1, <1>2 DEF LbTypes
  <2> QED BY <1>1, <1>2, <2>1, <2>2 DEF LbCached
<1>8. OwnEvents'
  <2> SUFFICES ASSUME NEW s \in Streams, NEW i \in 1 .. Len(sent'[s])
               PROVE  sent'[s][i].event = stream[s].event
    BY <1>1 DEF OwnEvents
  <2>1. CASE sent'[s] = sent[s]
    BY <2>1 DEF LbInv, OwnEvents
  <2>2. CASE sent'[s] = Append(sent[s], u) /\ OfChannel(s, u)
    <3>1. (i \in 1 .. Len(sent[s]) /\ sent'[s][i] = sent[s][i]) \/ sent'[s][i] = u
      BY <1>3, <1>5, <2>2, AppendIs
    <3> QED BY <2>2, <3>1 DEF LbInv, OwnEvents, OfChannel
  <2> QED BY <1>5, <2>1, <2>2
<1>9. InOrder'
  <2>1. PICK rank \in [Update -> Nat] : \E n \in Nat : Ranked(rank, n)
    BY DEF LbInv, InOrder
  <2>2. PICK n \in Nat : Ranked(rank, n)
    BY <2>1
  <2>3. PICK up \in Update : up = u
    BY <1>3
  <2> DEFINE new == [rank EXCEPT ![up] = n + 1]
  <2>4. rank[up] = 0 /\ up.board <= boards
    BY <1>1, <2>2, <2>3 DEF Ranked, u
  <2>5. /\ new \in [Update -> Nat] /\ new[up] = n + 1
        /\ \A v \in Update : v # up => new[v] = rank[v]
        /\ \A v \in Update : rank[v] \in Nat /\ rank[v] <= n
    BY <2>2 DEF Ranked
  <2> HIDE DEF new
  <2>6. /\ \A v \in Update : rank[v] > 0 => new[v] = rank[v]
        /\ \A v \in Update : new[v] <= new[up]
        /\ new[up] > 0
    BY <2>4, <2>5
  <2>7. /\ \A v \in Update : new[v] <= n + 1 /\ (new[v] > 0 => v.board <= boards')
        /\ \A v, x \in Update : new[v] > 0 /\ new[v] = new[x] => v = x
    <3>1. \A v \in Update : rank[v] > 0 => v.board <= boards
      BY <2>2 DEF Ranked
    <3>2. \A v, x \in Update : rank[v] > 0 /\ rank[v] = rank[x] => v = x
      BY <2>2 DEF Ranked
    <3>3. \A v \in Update : new[v] <= n + 1
      BY <2>5
    <3>4. \A v \in Update : new[v] > 0 => v.board <= boards'
      BY <1>1, <2>4, <2>5, <3>1
    <3>5. \A v \in Update : v # up => new[v] < n + 1
      BY <2>5
    <3>6. \A v, x \in Update : new[v] > 0 /\ new[v] = new[x] => v = x
      BY <2>5, <3>2, <3>5
    <3> QED BY <3>3, <3>4, <3>6
  <2>8. /\ \A z \in Writers : writing'[z] # Resting => new[writing'[z]] = 0 /\ writing'[z].board <= boards'
        /\ \A y, z \in Writers : y # z /\ writing'[y] # Resting => writing'[y] # writing'[z]
    <3>1. \A z \in Writers : writing'[z] # Resting => writing'[z] = writing[z] /\ z # w
      BY <1>1, <1>2 DEF LbTypes
    <3>2. \A y, z \in Writers : y # z /\ writing[y] # Resting => writing[y] # writing[z]
      BY <2>2 DEF Ranked
    <3>3. ASSUME NEW z \in Writers, writing'[z] # Resting
          PROVE  new[writing'[z]] = 0 /\ writing'[z].board <= boards'
      <4>1. writing'[z] = writing[z] /\ z # w /\ writing[z] # up
        BY <1>1, <2>3, <3>1, <3>2, <3>3 DEF u
      <4>2. writing[z] \in Update /\ rank[writing[z]] = 0 /\ writing[z].board <= boards
        BY <1>2, <2>2, <3>3, <4>1 DEF LbTypes, Ranked
      <4> QED BY <1>1, <2>5, <4>1, <4>2
    <3>4. ASSUME NEW y \in Writers, NEW z \in Writers, y # z, writing'[y] # Resting
          PROVE  writing'[y] # writing'[z]
      BY <3>1, <3>2, <3>4
    <3> QED BY <3>3, <3>4
  <2>9. /\ \A x \in Seq(Update) : Line(rank, x) => Line(new, x) /\ Line(new, Append(x, up))
        /\ \A x, y \in Seq(Update) : Line(rank, x) /\ Line(rank, y) /\ Ahead(rank, x, y)
              => Ahead(new, x, y) /\ Ahead(new, x, Append(y, up))
    <3>1. ASSUME NEW x \in Seq(Update), Line(rank, x)
          PROVE  Line(new, x) /\ Line(new, Append(x, up))
      <4>1. Line(new, x)
        BY <2>5, <2>6, <3>1, Reranked
      <4> QED BY <2>5, <2>6, <4>1, LineAppend
    <3>2. ASSUME NEW x \in Seq(Update), NEW y \in Seq(Update), Line(rank, x), Line(rank, y),
                 Ahead(rank, x, y)
          PROVE  Ahead(new, x, y) /\ Ahead(new, x, Append(y, up))
      <4>1. Ahead(new, x, y)
        BY <2>5, <2>6, <3>2, Reranked
      <4> QED BY <2>5, <2>6, <4>1, AheadAppend
    <3> QED BY <3>1, <3>2
  <2>10. /\ \A c \in Clients : Line(new, inbox'[c]) /\ Ahead(new, inbox'[c], pending')
         /\ \A s \in Streams : Line(new, sent'[s])
         /\ Line(new, pending')
    <3>1. /\ \A c \in Clients : inbox[c] \in Seq(Update) /\ Line(rank, inbox[c]) /\ Ahead(rank, inbox[c], pending)
          /\ \A s \in Streams : Line(rank, sent[s])
          /\ Line(rank, pending)
      BY <1>2, <2>2 DEF LbTypes, Ranked
    <3> QED BY <1>1, <1>5, <2>3, <2>9, <3>1
  <2>11. Ranked(new, n + 1)'
    BY <2>7, <2>8, <2>10 DEF Ranked
  <2>12. n + 1 \in Nat
    OBVIOUS
  <2> QED BY <2>5, <2>11, <2>12 DEF InOrder
<1>10. (answer.seen <= answer.board)'
  BY <1>1 DEF LbInv
<1> QED BY <1>6, <1>7, <1>8, <1>9, <1>10 DEF LbInv

LEMMA LbFan ==
    ASSUME LbInv, Fan
    PROVE  LbInv'
<1> DEFINE u == Head(pending)
<1>1. /\ pending # <<>> /\ pending' = Tail(pending)
      /\ inbox' = [c \in Clients |-> IF c \in connected THEN inbox[c] \o Copies(c, u) ELSE inbox[c]]
      /\ boards' = boards /\ cachedBoard' = cachedBoard /\ writing' = writing
      /\ psubscribed' = psubscribed /\ connected' = connected /\ rooms' = rooms
      /\ stream' = stream /\ sent' = sent /\ answer' = answer
  BY DEF Fan
<1>2. LbTypes /\ LbCached
  BY DEF LbInv
<1>3. /\ pending \in Seq(Update) /\ u \in Update /\ Tail(pending) \in Seq(Update)
      /\ Len(pending) \in Nat /\ Len(pending) >= 1 /\ Len(Tail(pending)) = Len(pending) - 1
      /\ u = pending[1] /\ \A i \in 1 .. Len(Tail(pending)) : Tail(pending)[i] = pending[i + 1]
  BY <1>1, <1>2, TailIs DEF LbTypes
<1> HIDE DEF u
<1>4. \A c \in Clients : Copies(c, u) \in Seq({u})
  <2>1. <<>> \in Seq({u}) /\ <<u>> \in Seq({u})
    OBVIOUS
  <2> QED BY <2>1, JoinIs DEF Copies
<1>5. \A c \in Clients : inbox'[c] = inbox[c] \/
        \E z \in Seq({u}) : inbox'[c] = inbox[c] \o z
  BY <1>1, <1>4
<1>6. LbTypes'
  <2>1. \A c \in Clients : inbox[c] \o Copies(c, u) \in Seq(Update)
    <3>1. Seq({u}) \subseteq Seq(Update)
      BY <1>3
    <3> QED BY <1>2, <1>4, <3>1, JoinIs DEF LbTypes
  <2>2. inbox' \in [Clients -> Seq(Update)]
        /\ \A c \in Clients : c \notin connected => inbox'[c] = inbox[c]
    BY <1>1, <1>2, <2>1 DEF LbTypes
  <2> QED BY <1>1, <1>2, <1>3, <2>2 DEF LbTypes
<1>7. LbCached'
  <2>1. Cached(cachedBoard, Tail(pending)) /\ u.board <= cachedBoard[u.event]
    <3>1. \A i \in 1 .. Len(Tail(pending)) : i + 1 \in 1 .. Len(pending)
      BY <1>3
    <3>2. 1 \in 1 .. Len(pending)
      BY <1>3
    <3> QED BY <1>2, <1>3, <3>1, <3>2 DEF LbCached, Cached
  <2>2. ASSUME NEW x \in Seq(Update), Cached(cachedBoard, x), NEW z \in Seq({u})
        PROVE  Cached(cachedBoard, x \o z)
    <3>1. z \in Seq(Update) /\ \A i \in 1 .. Len(z) : z[i] = u
      BY <1>3
    <3>2. /\ Len(x) \in Nat /\ Len(z) \in Nat /\ Len(x \o z) = Len(x) + Len(z)
          /\ \A i \in 1 .. Len(x) : (x \o z)[i] = x[i]
          /\ \A i \in 1 .. Len(z) : (x \o z)[Len(x) + i] = z[i]
      BY <3>1, JoinIs
    <3>3. ASSUME NEW i \in 1 .. Len(x \o z)
          PROVE  (x \o z)[i].board <= cachedBoard[(x \o z)[i].event]
      <4>1. CASE i \in 1 .. Len(x)
        BY <2>2, <3>2, <4>1 DEF Cached
      <4>2. CASE i \notin 1 .. Len(x)
        <5>1. i - Len(x) \in 1 .. Len(z) /\ i = Len(x) + (i - Len(x))
          BY <3>2, <4>2
        <5>2. (x \o z)[i] = u
          BY <3>1, <3>2, <5>1
        <5> QED BY <2>1, <5>2
      <4> QED BY <4>1, <4>2
    <3> QED BY <3>3 DEF Cached
  <2>3. \A c \in Clients : Cached(cachedBoard, inbox'[c])
    <3> SUFFICES ASSUME NEW c \in Clients PROVE Cached(cachedBoard, inbox'[c])
      OBVIOUS
    <3>1. inbox[c] \in Seq(Update) /\ Cached(cachedBoard, inbox[c])
      BY <1>2 DEF LbTypes, LbCached
    <3> QED BY <1>5, <2>2, <3>1
  <2> QED BY <1>1, <1>2, <2>1, <2>3 DEF LbCached
<1>8. OwnEvents'
  BY <1>1 DEF LbInv, OwnEvents
<1>9. InOrder'
  <2>1. PICK rank \in [Update -> Nat] : \E n \in Nat : Ranked(rank, n)
    BY DEF LbInv, InOrder
  <2>2. PICK n \in Nat : Ranked(rank, n)
    BY <2>1
  <2>3. /\ Line(rank, pending) /\ Line(rank, <<>>) /\ Ahead(rank, <<>>, pending)
        /\ <<>> \in Seq(Update) /\ <<>> \in Seq({u})
    BY <2>2, EmptyLine DEF Ranked
  <2>4. ASSUME NEW x \in Seq(Update), NEW z \in Seq({u}), Line(rank, x), Ahead(rank, x, pending)
        PROVE  /\ Line(rank, x \o z) /\ Line(rank, Tail(pending))
               /\ Ahead(rank, x \o z, Tail(pending)) /\ Ahead(rank, x, Tail(pending))
    BY <1>1, <1>3, <2>3, <2>4, FanLine DEF u
  <2>5. Line(rank, Tail(pending))
    BY <2>3, <2>4
  <2>6. \A c \in Clients : Line(rank, inbox'[c]) /\ Ahead(rank, inbox'[c], Tail(pending))
    <3> SUFFICES ASSUME NEW c \in Clients
                 PROVE  Line(rank, inbox'[c]) /\ Ahead(rank, inbox'[c], Tail(pending))
      OBVIOUS
    <3>1. inbox[c] \in Seq(Update) /\ Line(rank, inbox[c]) /\ Ahead(rank, inbox[c], pending)
      BY <1>2, <2>2 DEF LbTypes, Ranked
    <3> QED BY <1>5, <2>3, <2>4, <3>1
  <2>7. Ranked(rank, n)'
    BY <1>1, <2>2, <2>5, <2>6 DEF Ranked
  <2> QED BY <2>7 DEF InOrder
<1>10. (answer.seen <= answer.board)'
  BY <1>1 DEF LbInv
<1> QED BY <1>6, <1>7, <1>8, <1>9, <1>10 DEF LbInv

\* A set of naturals under a bound has a greatest member.
LEMMA GreatestNatural ==
    ASSUME NEW S \in SUBSET Nat, S # {}, NEW b \in Nat, \A x \in S : x <= b
    PROVE  \E x \in S : \A y \in S : y <= x
<1> DEFINE gaps == {b - x : x \in S}
<1>1. gaps \in SUBSET Nat /\ gaps # {}
  <2>1. \A x \in S : x \in Nat /\ x <= b /\ b - x \in Nat
    OBVIOUS
  <2>2. PICK x \in S : TRUE
    OBVIOUS
  <2>3. b - x \in gaps
    OBVIOUS
  <2> QED BY <2>1, <2>3
<1>2. PICK g \in gaps : \A h \in gaps : g <= h
  BY <1>1, LeastNatural
<1>3. PICK x \in S : g = b - x
  BY <1>2
<1>4. ASSUME NEW y \in S PROVE y <= x
  <2>1. b - y \in gaps
    OBVIOUS
  <2>2. b - x <= b - y
    BY <1>2, <1>3, <2>1
  <2> QED BY <2>2
<1> QED BY <1>4

LEMMA NewestIs ==
    ASSUME LbTypes, LbCached, NEW e \in Events
    PROVE  Newest(e) <= cachedBoard[e]
<1> DEFINE shown == UNION {SentOf(inbox[c], e) : c \in Clients}
           written == UNION {SentOf(sent[s], e) : s \in Streams}
           seen == {0} \cup shown \cup written
<1>1. ASSUME NEW x \in Seq(Update), Cached(cachedBoard, x), NEW b \in SentOf(x, e)
      PROVE  b \in Nat /\ b <= cachedBoard[e]
  <2>1. PICK i \in DOMAIN x : x[i].event = e /\ b = x[i].board
    BY DEF SentOf
  <2>2. i \in 1 .. Len(x) /\ x[i] \in Update
    BY <2>1
  <2>3. x[i].board \in Nat
    BY <2>2 DEF Update
  <2> QED BY <1>1, <2>1, <2>2, <2>3 DEF Cached
<1>2. cachedBoard[e] \in Nat
  BY DEF LbTypes
<1>3. \A b \in seen : b \in Nat /\ b <= cachedBoard[e]
  <2>1. \A c \in Clients : \A b \in SentOf(inbox[c], e) : b \in Nat /\ b <= cachedBoard[e]
    BY <1>1 DEF LbTypes, LbCached
  <2>2. \A s \in Streams : \A b \in SentOf(sent[s], e) : b \in Nat /\ b <= cachedBoard[e]
    BY <1>1 DEF LbTypes, LbCached
  <2>3. 0 \in Nat /\ 0 <= cachedBoard[e]
    BY <1>2
  <2>4. \A b \in seen :
          \/ b = 0
          \/ \E c \in Clients : b \in SentOf(inbox[c], e)
          \/ \E s \in Streams : b \in SentOf(sent[s], e)
    <3>1. /\ \A b \in shown : \E c \in Clients : b \in SentOf(inbox[c], e)
          /\ \A b \in written : \E s \in Streams : b \in SentOf(sent[s], e)
      OBVIOUS
    <3> HIDE DEF shown, written
    <3>2. \A b \in seen : b = 0 \/ b \in shown \/ b \in written
      OBVIOUS
    <3> HIDE DEF seen
    <3> QED BY <3>1, <3>2
  <2> HIDE DEF seen
  <2> QED BY <2>1, <2>2, <2>3, <2>4
<1>4. seen # {}
  OBVIOUS
<1>5. Newest(e) = CHOOSE n \in seen : \A m \in seen : m <= n
  BY DEF Newest
<1> HIDE DEF seen
<1>6. \E x \in seen : \A y \in seen : y <= x
  BY <1>2, <1>3, <1>4, GreatestNatural
<1>7. Newest(e) \in seen
  BY <1>5, <1>6
<1> QED BY <1>3, <1>7

\* What the browsers hold is kept or emptied.
LEMMA LbShrinks ==
    ASSUME LbInv, boards' = boards, cachedBoard' = cachedBoard, writing' = writing,
           pending' = pending \/ pending' = <<>>,
           \A c \in Clients : inbox'[c] = inbox[c] \/ inbox'[c] = <<>>,
           \A s \in Streams : sent'[s] = sent[s] \/ sent'[s] = <<>>
    PROVE  LbCached' /\ InOrder'
<1>1. \A x : x = <<>> => Cached(cachedBoard, x)
  BY DEF Cached
<1>2. LbCached'
  BY <1>1 DEF LbInv, LbCached
<1>3. InOrder'
  <2>1. PICK rank \in [Update -> Nat] : \E n \in Nat : Ranked(rank, n)
    BY DEF LbInv, InOrder
  <2>2. PICK n \in Nat : Ranked(rank, n)
    BY <2>1
  <2>3. \A x : Line(rank, <<>>) /\ Ahead(rank, <<>>, x) /\ Ahead(rank, x, <<>>)
    BY EmptyLine
  <2>4. Line(rank, pending') /\ \A s \in Streams : Line(rank, sent'[s])
    BY <2>2, <2>3 DEF Ranked
  <2>5. \A c \in Clients : Line(rank, inbox'[c]) /\ Ahead(rank, inbox'[c], pending')
    BY <2>2, <2>3 DEF Ranked
  <2>6. Ranked(rank, n)'
    BY <2>2, <2>4, <2>5 DEF Ranked
  <2> QED BY <2>6 DEF InOrder
<1> QED BY <1>2, <1>3

LEMMA LbConnection ==
    ASSUME LbInv, Psubscribe \/ LoseRedis
    PROVE  LbInv'
<1>1. /\ boards' = boards /\ cachedBoard' = cachedBoard /\ writing' = writing
      /\ psubscribed' \in BOOLEAN /\ (pending' = pending \/ pending' = <<>>)
      /\ connected' = connected /\ rooms' = rooms /\ inbox' = inbox
      /\ stream' = stream /\ sent' = sent /\ answer' = answer
  BY DEF Psubscribe, LoseRedis
<1>2. <<>> \in Seq(Update)
  OBVIOUS
<1>3. LbTypes'
  BY <1>1, <1>2 DEF LbInv, LbTypes
<1>4. LbCached' /\ InOrder'
  BY <1>1, LbShrinks
<1>5. OwnEvents' /\ (answer.seen <= answer.board)'
  BY <1>1 DEF LbInv, OwnEvents
<1> QED BY <1>3, <1>4, <1>5 DEF LbInv

LEMMA LbClient ==
    ASSUME LbInv, NEW c \in Clients,
           \/ Connect(c) \/ Disconnect(c)
           \/ \E e \in Events : Subscribe(c, e) \/ Unsubscribe(c, e)
    PROVE  LbInv'
<1>1. /\ boards' = boards /\ cachedBoard' = cachedBoard /\ writing' = writing
      /\ psubscribed' = psubscribed /\ pending' = pending
      /\ stream' = stream /\ sent' = sent /\ answer' = answer
  BY DEF Connect, Disconnect, Subscribe, Unsubscribe
<1>2. LbTypes
  BY DEF LbInv
<1>3. LbTypes'
  <2>1. CASE Connect(c)
    BY <1>1, <1>2, <2>1 DEF LbTypes, Connect
  <2>2. CASE Disconnect(c)
    <3>1. <<>> \in Seq(Update)
      OBVIOUS
    <3>2. /\ connected' = connected \ {c}
          /\ rooms' = [rooms EXCEPT ![c] = {}]
          /\ inbox' = [inbox EXCEPT ![c] = <<>>]
      BY <2>2 DEF Disconnect
    <3>3. /\ rooms' \in [Clients -> SUBSET Events] /\ inbox' \in [Clients -> Seq(Update)]
          /\ connected' \subseteq Clients
      BY <1>2, <3>1, <3>2 DEF LbTypes
    <3>4. \A d \in Clients : d \notin connected' => rooms'[d] = {} /\ inbox'[d] = <<>>
      BY <1>2, <3>2 DEF LbTypes
    <3> QED BY <1>1, <1>2, <3>3, <3>4 DEF LbTypes
  <2>3. CASE \E e \in Events : Subscribe(c, e) \/ Unsubscribe(c, e)
    <3>1. /\ c \in connected /\ connected' = connected /\ inbox' = inbox
          /\ \E chosen \in SUBSET Events : rooms' = [rooms EXCEPT ![c] = chosen]
      BY <1>2, <2>3 DEF LbTypes, Subscribe, Unsubscribe
    <3> QED BY <1>1, <1>2, <3>1 DEF LbTypes
  <2> QED BY <2>1, <2>2, <2>3
<1>4. \A d \in Clients : inbox'[d] = inbox[d] \/ inbox'[d] = <<>>
  BY <1>2 DEF LbTypes, Connect, Disconnect, Subscribe, Unsubscribe
<1>5. LbCached' /\ InOrder'
  BY <1>1, <1>4, LbShrinks
<1>6. OwnEvents' /\ (answer.seen <= answer.board)'
  BY <1>1 DEF LbInv, OwnEvents
<1> QED BY <1>3, <1>5, <1>6 DEF LbInv

LEMMA LbStream ==
    ASSUME LbInv, NEW s \in Streams,
           (\E e \in Events : OpenStream(s, e)) \/ StreamSubscribed(s) \/ CloseStream(s)
    PROVE  LbInv'
<1>1. /\ boards' = boards /\ cachedBoard' = cachedBoard /\ writing' = writing
      /\ psubscribed' = psubscribed /\ pending' = pending
      /\ connected' = connected /\ rooms' = rooms /\ inbox' = inbox /\ answer' = answer
  BY DEF OpenStream, StreamSubscribed, CloseStream
<1>2. LbTypes /\ OwnEvents
  BY DEF LbInv
<1>3. <<>> \in Seq(Update) /\ \A x : x = <<>> => Len(x) = 0
  OBVIOUS
<1>4. CASE \E e \in Events : OpenStream(s, e)
  <2>1. PICK e \in Events : OpenStream(s, e)
    BY <1>4
  <2>2. stream[s] = Closed /\ sent' = sent /\ stream' = [stream EXCEPT ![s] = [event |-> e, live |-> FALSE]]
    BY <2>1 DEF OpenStream
  <2>3. sent[s] = <<>>
    BY <1>2, <2>2 DEF LbTypes, Closed
  <2>4. stream' \in [Streams -> [event : Events \cup {NoEvent}, live : BOOLEAN]]
        /\ stream'[s].event # NoEvent /\ \A z \in Streams \ {s} : stream'[z] = stream[z]
    BY <1>2, <2>2, LeaderboardServerAssumption DEF LbTypes
  <2>5. LbTypes'
    BY <1>1, <1>2, <2>2, <2>4 DEF LbTypes
  <2>6. OwnEvents'
    BY <1>2, <1>3, <2>2, <2>3, <2>4 DEF OwnEvents
  <2> QED BY <1>1, <2>2, <2>5, <2>6, LbShrinks DEF LbInv
<1>5. CASE StreamSubscribed(s)
  <2>1. stream[s].event # NoEvent /\ sent' = sent /\ stream' = [stream EXCEPT ![s].live = TRUE]
    BY <1>5 DEF StreamSubscribed
  <2>2. stream' \in [Streams -> [event : Events \cup {NoEvent}, live : BOOLEAN]]
        /\ stream'[s].event = stream[s].event /\ \A z \in Streams \ {s} : stream'[z] = stream[z]
    BY <1>2, <2>1 DEF LbTypes
  <2>3. LbTypes'
    BY <1>1, <1>2, <2>1, <2>2 DEF LbTypes
  <2>4. OwnEvents'
    BY <1>2, <2>1, <2>2 DEF OwnEvents
  <2> QED BY <1>1, <2>1, <2>3, <2>4, LbShrinks DEF LbInv
<1>6. CASE CloseStream(s)
  <2>1. sent' = [sent EXCEPT ![s] = <<>>] /\ stream' = [stream EXCEPT ![s] = Closed]
    BY <1>6 DEF CloseStream
  <2>2. /\ stream' \in [Streams -> [event : Events \cup {NoEvent}, live : BOOLEAN]]
        /\ stream'[s] = Closed /\ \A z \in Streams \ {s} : stream'[z] = stream[z]
    BY <1>2, <2>1 DEF LbTypes, Closed
  <2>3. sent' \in [Streams -> Seq(Update)] /\ sent'[s] = <<>> /\ \A z \in Streams \ {s} : sent'[z] = sent[z]
    BY <1>2, <1>3, <2>1 DEF LbTypes
  <2>4. LbTypes'
    BY <1>1, <1>2, <2>2, <2>3 DEF LbTypes
  <2>5. OwnEvents'
    <3> SUFFICES ASSUME NEW z \in Streams, NEW i \in 1 .. Len(sent'[z])
                 PROVE  sent'[z][i].event = stream'[z].event
      BY DEF OwnEvents
    <3>1. z # s
      BY <1>3, <2>3
    <3> QED BY <1>2, <2>2, <2>3, <3>1 DEF OwnEvents
  <2>6. LbCached' /\ InOrder'
    BY <1>1, <2>3, LbShrinks
  <2> QED BY <1>1, <2>4, <2>5, <2>6 DEF LbInv
<1> QED BY <1>4, <1>5, <1>6

LEMMA LbGet ==
    ASSUME LbInv, NEW e \in Events, NEW up \in BOOLEAN, Get(e, up)
    PROVE  LbInv'
<1>1. /\ answer' = [source |-> Source(e, up), board |-> cachedBoard[e], seen |-> Newest(e)]
      /\ boards' = boards /\ cachedBoard' = cachedBoard /\ writing' = writing
      /\ psubscribed' = psubscribed /\ pending' = pending
      /\ connected' = connected /\ rooms' = rooms /\ inbox' = inbox
      /\ stream' = stream /\ sent' = sent
  BY DEF Get
<1>2. LbTypes'
  BY <1>1 DEF LbInv, LbTypes
<1>3. LbCached' /\ InOrder'
  BY <1>1, LbShrinks
<1>4. OwnEvents'
  BY <1>1 DEF LbInv, OwnEvents
<1>5. (answer.seen <= answer.board)'
  <2>1. answer'.seen = Newest(e) /\ answer'.board = cachedBoard[e]
    BY <1>1
  <2> QED BY <2>1, NewestIs DEF LbInv
<1> QED BY <1>2, <1>3, <1>4, <1>5 DEF LbInv

LEMMA LbNextInv ==
    ASSUME LbInv, [LeaderboardNext]_lbVars
    PROVE  LbInv'
<1>1. CASE UNCHANGED lbVars
  <2>1. /\ answer' = answer
        /\ boards' = boards /\ cachedBoard' = cachedBoard /\ writing' = writing
        /\ psubscribed' = psubscribed /\ pending' = pending
        /\ connected' = connected /\ rooms' = rooms /\ inbox' = inbox
        /\ stream' = stream /\ sent' = sent
    BY <1>1 DEF lbVars
  <2>2. LbTypes'
    BY <2>1 DEF LbInv, LbTypes
  <2>3. LbCached' /\ InOrder'
    BY <2>1, LbShrinks
  <2>4. OwnEvents' /\ (answer.seen <= answer.board)'
    BY <2>1 DEF LbInv, OwnEvents
  <2> QED BY <2>2, <2>3, <2>4 DEF LbInv
<1>2. CASE LeaderboardNext
  BY <1>2, LbStore, LbPublish, LbConnection, LbFan, LbClient, LbStream, LbGet DEF LeaderboardNext
<1> QED BY <1>1, <1>2

LEMMA LbInvMeans ==
    LbInv => BoardsInOrder
<1> SUFFICES ASSUME LbInv PROVE BoardsInOrder
  OBVIOUS
<1>1. StreamOwnEvent
  <2>1. \A s \in Streams : \A i \in DOMAIN sent[s] : i \in 1 .. Len(sent[s])
    BY DEF LbInv, LbTypes
  <2> QED BY <2>1 DEF LbInv, OwnEvents, StreamOwnEvent
<1>2. AnswerNotOlder
  BY DEF LbInv, AnswerNotOlder
<1>3. SameOrder
  <2>1. PICK rank \in [Update -> Nat] : \E n \in Nat : Ranked(rank, n)
    BY DEF LbInv, InOrder
  <2>2. PICK n \in Nat : Ranked(rank, n)
    BY <2>1
  <2>3. \A b \in Clients \cup Streams : Received[b] \in Seq(Update) /\ Line(rank, Received[b])
    BY <2>2 DEF LbInv, LbTypes, Received, Ranked
  <2>4. \A b \in Clients \cup Streams : \A i \in DOMAIN Received[b] :
           i \in 1 .. Len(Received[b]) /\ Received[b][i] \in Update
    BY <2>3
  <2> SUFFICES ASSUME NEW b \in Clients \cup Streams, NEW d \in Clients \cup Streams,
                      NEW i \in DOMAIN Received[b], NEW j \in DOMAIN Received[b], i < j,
                      Received[b][i] # Received[b][j], Before(d, Received[b][j], Received[b][i])
               PROVE  FALSE
    BY DEF SameOrder
  <2> DEFINE u == Received[b][i]
             v == Received[b][j]
  <2>5. u \in Update /\ v \in Update /\ rank[u] <= rank[v] /\ rank[u] > 0
    BY <2>3, <2>4 DEF Line
  <2>6. PICK k \in DOMAIN Received[d], l \in DOMAIN Received[d] :
           k < l /\ Received[d][k] = v /\ Received[d][l] = u
    BY DEF Before
  <2>7. rank[v] <= rank[u]
    BY <2>3, <2>4, <2>6 DEF Line
  <2>8. rank[u] = rank[v]
    BY <2>5, <2>7
  <2> QED BY <2>2, <2>5, <2>8 DEF Ranked
<1> QED BY <1>1, <1>2, <1>3 DEF BoardsInOrder

(* For any number of events, engine calls and browsers: whatever order the *)
(* engine's calls publish in, no two browsers are shown two boards of an   *)
(* event in opposite orders, a stream carries its own event only, and a    *)
(* read is not older than what a browser was shown (leaderboard.ts).       *)
THEOREM BoardsHold == LeaderboardSpec => []BoardsInOrder
BY LbInitInv, LbNextInv, LbInvMeans, PTL DEF LeaderboardSpec
-----------------------------------------------------------------------------
(***************************************************************************)
(* The rate limit of the backend.                                          *)
(*                                                                         *)
(* The bound counts the requests between their count and their entry with  *)
(* the entries: they passed a window with room.  What young instants were  *)
(* entered and are no longer there left with the key.                      *)
(*                                                                         *)
(* A request that counts has trimmed, so that an outdated entry it meets   *)
(* was put there since, by a request that read the clock a window earlier  *)
(* and is now done: the others that may still do so are counted with it.   *)
(***************************************************************************)
Adders == {g \in Guests : limitAt[g] = "add"}
Stale(g) == {t \in entries : t <= readAt[g] - LimitWindow}
Late(g) ==
    {q \in Guests \ {g} :
        limitAt[q] \in {"trim", "count", "add"} /\ readAt[q] <= readAt[g] - LimitWindow}

LimitTyped ==
    /\ clock \in Nat \ {0} /\ clock <= MaxClock + 1
    /\ limitAt \in [Guests -> {"idle", "trim", "count", "add", "expire"}]
    /\ readAt \in [Guests -> Nat]
    /\ \A g \in Guests : readAt[g] <= clock
    /\ \A g \in Guests : limitAt[g] # "idle" => readAt[g] # 0
    /\ entries \subseteq entered /\ lapsed \subseteq entered
    /\ entered \subseteq 1 .. clock
    /\ expiry \in Nat /\ expiry <= clock + LimitWindow + 1
    /\ entries = {} => expiry = 0

RoomForAdders == Cardinality(entries) + Cardinality(Adders) < Limit + Cardinality(Guests)
YoungKept == \A t \in entered : Young(t) => t \in entries \/ t \in lapsed
FewStale ==
    \A g \in Guests : limitAt[g] = "count" =>
        Cardinality(Stale(g)) + Cardinality(Late(g)) < Cardinality(Guests)

LimitInv == LimitTyped /\ RoomForAdders /\ YoungKept /\ FewStale /\ RefusedForCause

LEMMA LimitConstants ==
    /\ IsFiniteSet(Guests) /\ Cardinality(Guests) \in Nat \ {0}
    /\ Limit \in Nat \ {0} /\ LimitWindow \in Nat \ {0} /\ MaxClock \in Nat
BY LimitAssumption, FS_CardinalityType, FS_EmptySet

\* Sets of instants and of requests are finite.
LEMMA LimitFinite ==
    ASSUME LimitTyped
    PROVE  /\ IsFiniteSet(entered) /\ IsFiniteSet(entries) /\ IsFiniteSet(Adders)
           /\ Cardinality(entries) \in Nat /\ Cardinality(Adders) \in Nat
<1>1. clock \in Int /\ entered \subseteq 1 .. clock /\ entries \subseteq entered
  BY DEF LimitTyped
<1>2. IsFiniteSet(1 .. clock)
  BY <1>1, FS_Interval
<1>3. IsFiniteSet(entered)
  BY <1>1, <1>2, FS_Subset
<1>4. IsFiniteSet(entries)
  BY <1>1, <1>3, FS_Subset
<1>5. IsFiniteSet(Adders)
  BY LimitConstants, FS_Subset DEF Adders
<1> QED BY <1>3, <1>4, <1>5, FS_CardinalityType

\* Two sets that shrink, or of which one gives the other a member.
LEMMA SumKept ==
    ASSUME NEW E, NEW A, NEW F, NEW B, IsFiniteSet(E), IsFiniteSet(A), F \subseteq E, B \subseteq A
    PROVE  /\ IsFiniteSet(F) /\ IsFiniteSet(B)
           /\ Cardinality(F) \in Nat /\ Cardinality(B) \in Nat
           /\ Cardinality(E) \in Nat /\ Cardinality(A) \in Nat
           /\ Cardinality(F) + Cardinality(B) <= Cardinality(E) + Cardinality(A)
<1>1. IsFiniteSet(F) /\ Cardinality(F) <= Cardinality(E)
  BY FS_Subset
<1>2. IsFiniteSet(B) /\ Cardinality(B) <= Cardinality(A)
  BY FS_Subset
<1>3. /\ Cardinality(F) \in Nat /\ Cardinality(B) \in Nat
      /\ Cardinality(E) \in Nat /\ Cardinality(A) \in Nat
  BY <1>1, <1>2, FS_CardinalityType
<1> QED BY <1>1, <1>2, <1>3

LEMMA SumMoved ==
    ASSUME NEW E, NEW A, NEW F, NEW B, NEW x, NEW a, IsFiniteSet(E), IsFiniteSet(A),
           F \subseteq E \cup {x}, a \in A, B \subseteq A \ {a}
    PROVE  /\ Cardinality(F) \in Nat /\ Cardinality(B) \in Nat
           /\ Cardinality(E) \in Nat /\ Cardinality(A) \in Nat
           /\ Cardinality(F) + Cardinality(B) <= Cardinality(E) + Cardinality(A)
<1>1. IsFiniteSet(E \cup {x}) /\ Cardinality(E \cup {x}) <= Cardinality(E) + 1
  <2>1. Cardinality(E) \in Nat
    BY FS_CardinalityType
  <2>2. /\ IsFiniteSet(E \cup {x})
        /\ Cardinality(E \cup {x}) = IF x \in E THEN Cardinality(E) ELSE Cardinality(E) + 1
    BY FS_AddElement
  <2> QED BY <2>1, <2>2
<1>2. IsFiniteSet(A \ {a}) /\ Cardinality(A \ {a}) = Cardinality(A) - 1
  BY FS_RemoveElement
<1>3. /\ Cardinality(F) \in Nat /\ Cardinality(B) \in Nat
      /\ Cardinality(F) + Cardinality(B) <= Cardinality(E \cup {x}) + Cardinality(A \ {a})
  BY <1>1, <1>2, SumKept
<1>4. Cardinality(E) \in Nat /\ Cardinality(A) \in Nat
  BY FS_CardinalityType
<1>5. Cardinality(E \cup {x}) \in Nat /\ Cardinality(A \ {a}) \in Nat
  BY <1>1, <1>2, FS_CardinalityType
<1> QED BY <1>1, <1>2, <1>3, <1>4, <1>5

LEMMA LimitInitInv == LimitInit => LimitInv
<1> SUFFICES ASSUME LimitInit PROVE LimitInv
  OBVIOUS
<1>1. LimitTyped
  BY LimitConstants DEF LimitInit, LimitTyped
<1>2. entries = {} /\ Adders = {} /\ Cardinality({}) = 0
  BY FS_EmptySet DEF LimitInit, Adders
<1>3. RoomForAdders
  BY <1>2, LimitConstants DEF RoomForAdders
<1>4. YoungKept /\ FewStale
  BY DEF LimitInit, YoungKept, FewStale
<1>5. RefusedForCause
  BY LimitConstants DEF LimitInit, RefusedForCause
<1> QED BY <1>1, <1>3, <1>4, <1>5 DEF LimitInv

\* A step that adds no entry, lets nobody into the commands and leaves who counts
\* and who adds alone, or frees them.
LEMMA LimitShrinks ==
    ASSUME LimitTyped, RoomForAdders, FewStale,
           entries' \subseteq entries, readAt' = readAt,
           \A g \in Guests : limitAt'[g] \in {"count", "add"} => limitAt[g] = limitAt'[g],
           \A g \in Guests : limitAt'[g] = "trim" => limitAt[g] = "trim"
    PROVE  RoomForAdders' /\ FewStale'
<1>1. Adders' \subseteq Adders
  BY DEF Adders
<1>2. RoomForAdders'
  BY <1>1, LimitFinite, LimitConstants, SumKept DEF RoomForAdders
<1>3. ASSUME NEW g \in Guests, limitAt'[g] = "count"
      PROVE  Cardinality(Stale(g)') + Cardinality(Late(g)') < Cardinality(Guests)
  <2>1. Stale(g)' \subseteq Stale(g) /\ Late(g)' \subseteq Late(g)
    BY DEF Stale, Late
  <2>2. IsFiniteSet(Stale(g)) /\ IsFiniteSet(Late(g))
    BY LimitFinite, LimitConstants, FS_Subset DEF Stale, Late
  <2>3. Cardinality(Stale(g)) + Cardinality(Late(g)) < Cardinality(Guests)
    BY <1>3 DEF FewStale
  <2> HIDE DEF Stale, Late
  <2> QED BY <2>1, <2>2, <2>3, LimitConstants, SumKept
<1> QED BY <1>2, <1>3 DEF FewStale

\* What a refusal saw: the entries, but for those that were outdated.
LEMMA SeenEnough ==
    ASSUME LimitTyped, FewStale, NEW g \in Guests, limitAt[g] = "count",
           Cardinality(entries) >= Limit
    PROVE  Cardinality(After(entered, readAt[g])) + Cardinality(Guests) > Limit
<1> DEFINE seen == After(entered, readAt[g])
           old == Stale(g)
<1>1. IsFiniteSet(seen) /\ IsFiniteSet(old)
  BY LimitFinite, FS_Subset DEF After, Stale
<1>2. Cardinality(seen) \in Nat /\ Cardinality(old) \in Nat /\ Cardinality(seen \cap old) \in Nat
  BY <1>1, FS_CardinalityType, FS_Subset
<1>3. entries \subseteq seen \cup old
  <2>1. LimitWindow \in Nat /\ readAt[g] \in Nat /\ \A t \in entries : t \in Nat /\ t \in entered
    BY LimitConstants DEF LimitTyped
  <2> QED BY <2>1 DEF After, Stale
<1>4. Cardinality(old) < Cardinality(Guests)
  <2>1. Cardinality(Late(g)) \in Nat
    BY LimitConstants, FS_Subset, FS_CardinalityType DEF Late
  <2> QED BY <1>2, <2>1, LimitConstants DEF FewStale
<1> HIDE DEF seen, old
<1>5. IsFiniteSet(seen \cup old)
      /\ Cardinality(seen \cup old) = Cardinality(seen) + Cardinality(old) - Cardinality(seen \cap old)
  BY <1>1, FS_Union
<1>6. Cardinality(entries) <= Cardinality(seen \cup old)
  BY <1>3, <1>5, FS_Subset
<1>7. Cardinality(entries) \in Nat /\ Cardinality(seen \cup old) \in Nat
  BY <1>5, LimitFinite, FS_CardinalityType
<1>8. Cardinality(seen) + Cardinality(Guests) > Limit
  BY <1>2, <1>4, <1>5, <1>6, <1>7, LimitConstants
<1> QED BY <1>8 DEF seen

LEMMA LimitNextInv ==
    ASSUME LimitInv, [LimitNext]_limitVars
    PROVE  LimitInv'
<1>1. LimitTyped /\ RoomForAdders /\ YoungKept /\ FewStale /\ RefusedForCause
  BY DEF LimitInv
<1>2. /\ clock \in Nat \ {0} /\ limitAt \in [Guests -> {"idle", "trim", "count", "add", "expire"}]
      /\ readAt \in [Guests -> Nat] /\ \A g \in Guests : readAt[g] <= clock
      /\ entries \subseteq entered /\ \A t \in entered : t \in Nat /\ t <= clock
  BY <1>1 DEF LimitTyped
<1>3. ASSUME UNCHANGED <<clock, entries, entered, lapsed>> PROVE YoungKept'
  BY <1>1, <1>3 DEF YoungKept, Young
<1>4. ASSUME UNCHANGED turnedAway PROVE RefusedForCause'
  BY <1>1, <1>4 DEF RefusedForCause
<1>5. ASSUME NEW g \in Guests, Enter(g) PROVE LimitInv'
  <2>1. /\ limitAt[g] = "idle" /\ limitAt' = [limitAt EXCEPT ![g] = "trim"]
        /\ readAt' = [readAt EXCEPT ![g] = clock]
        /\ UNCHANGED <<clock, entries, expiry, entered, lapsed, turnedAway>>
    BY <1>5 DEF Enter, Proceed
  <2>2. LimitTyped'
    BY <1>1, <2>1 DEF LimitTyped
  <2>3. Adders' \subseteq Adders
    BY <1>2, <2>1 DEF Adders
  <2>4. RoomForAdders'
    BY <1>1, <2>1, <2>3, LimitFinite, LimitConstants, SumKept DEF RoomForAdders
  <2>5. ASSUME NEW h \in Guests, limitAt'[h] = "count"
        PROVE  Cardinality(Stale(h)') + Cardinality(Late(h)') < Cardinality(Guests)
    <3>1. h # g /\ limitAt[h] = "count" /\ readAt'[h] = readAt[h]
      BY <1>2, <2>1, <2>5
    <3>2. Stale(h)' \subseteq Stale(h)
      BY <2>1, <3>1 DEF Stale
    <3>3. ~(clock <= readAt[h] - LimitWindow)
      BY <1>2, LimitConstants
    <3>4. Late(h)' \subseteq Late(h)
      BY <1>2, <2>1, <3>1, <3>3 DEF Late
    <3>5. IsFiniteSet(Stale(h)) /\ IsFiniteSet(Late(h))
      BY <1>1, LimitFinite, LimitConstants, FS_Subset DEF Stale, Late
    <3>6. Cardinality(Stale(h)) + Cardinality(Late(h)) < Cardinality(Guests)
      BY <1>1, <3>1 DEF FewStale
    <3> HIDE DEF Stale, Late
    <3> QED BY <3>2, <3>4, <3>5, <3>6, LimitConstants, SumKept
  <2>6. FewStale'
    BY <2>5 DEF FewStale
  <2> QED BY <1>3, <1>4, <2>1, <2>2, <2>4, <2>6 DEF LimitInv
<1>6. ASSUME NEW g \in Guests, Trim(g) PROVE LimitInv'
  <2>1. /\ limitAt[g] = "trim" /\ limitAt' = [limitAt EXCEPT ![g] = "count"]
        /\ entries' = entries \ {t \in entries : t <= readAt[g] - LimitWindow}
        /\ expiry' = IF entries' = {} THEN 0 ELSE expiry
        /\ UNCHANGED <<clock, readAt, entered, lapsed, turnedAway>>
    BY <1>6 DEF Trim, Proceed, Outdated
  <2>2. LimitTyped'
    <3>1. entries' \subseteq entries /\ (entries' = {} => expiry' = 0)
      BY <2>1
    <3>2. expiry' \in Nat /\ expiry' <= clock + LimitWindow + 1
      BY <1>1, <2>1, LimitConstants DEF LimitTyped
    <3>3. limitAt' \in [Guests -> {"idle", "trim", "count", "add", "expire"}]
          /\ \A h \in Guests : limitAt'[h] # "idle" => readAt'[h] # 0
      BY <1>1, <2>1 DEF LimitTyped
    <3> QED BY <1>1, <2>1, <3>1, <3>2, <3>3 DEF LimitTyped
  <2>3. Adders' \subseteq Adders /\ entries' \subseteq entries
    BY <1>2, <2>1 DEF Adders
  <2>4. RoomForAdders'
    BY <1>1, <2>3, LimitFinite, LimitConstants, SumKept DEF RoomForAdders
  <2>5. ASSUME NEW t \in entered', Young(t)' PROVE t \in entries' \/ t \in lapsed'
    <3>1. t \in entries \/ t \in lapsed
      BY <1>1, <2>1, <2>5 DEF YoungKept, Young
    <3>2. ~(t <= readAt[g] - LimitWindow)
      BY <1>2, <2>1, <2>5, LimitConstants DEF Young
    <3> QED BY <2>1, <3>1, <3>2
  <2>6. ASSUME NEW h \in Guests, limitAt'[h] = "count"
        PROVE  Cardinality(Stale(h)') + Cardinality(Late(h)') < Cardinality(Guests)
    <3>1. CASE h # g
      <4>1. limitAt[h] = "count" /\ readAt'[h] = readAt[h]
        BY <1>2, <2>1, <2>6, <3>1
      <4>2. Stale(h)' \subseteq Stale(h) /\ Late(h)' \subseteq Late(h)
        BY <1>2, <2>1, <2>3, <4>1 DEF Stale, Late
      <4>3. IsFiniteSet(Stale(h)) /\ IsFiniteSet(Late(h))
        BY <1>1, LimitFinite, LimitConstants, FS_Subset DEF Stale, Late
      <4>4. Cardinality(Stale(h)) + Cardinality(Late(h)) < Cardinality(Guests)
        BY <1>1, <4>1 DEF FewStale
      <4> HIDE DEF Stale, Late
      <4> QED BY <4>2, <4>3, <4>4, LimitConstants, SumKept
    <3>2. CASE h = g
      <4>1. Stale(g)' = {}
        BY <2>1 DEF Stale
      <4>2. Late(g)' \subseteq Guests \ {g}
        BY DEF Late
      <4>3. IsFiniteSet(Guests \ {g}) /\ Cardinality(Guests \ {g}) = Cardinality(Guests) - 1
        BY LimitConstants, FS_RemoveElement
      <4>4. IsFiniteSet({}) /\ Cardinality({}) = 0
        BY FS_EmptySet
      <4> HIDE DEF Stale, Late
      <4>5. Cardinality(Stale(g)') + Cardinality(Late(g)') <= 0 + (Cardinality(Guests) - 1)
        BY <4>1, <4>2, <4>3, <4>4, SumKept
      <4>6. Cardinality(Stale(g)') \in Nat /\ Cardinality(Late(g)') \in Nat
        BY <4>1, <4>2, <4>3, <4>4, SumKept
      <4> QED BY <3>2, <4>5, <4>6, LimitConstants
    <3> QED BY <3>1, <3>2
  <2>7. YoungKept' /\ FewStale'
    BY <2>5, <2>6 DEF YoungKept, FewStale
  <2> QED BY <1>4, <2>1, <2>2, <2>4, <2>7 DEF LimitInv
<1>7. ASSUME NEW g \in Guests, Count(g) PROVE LimitInv'
  <2>1. /\ limitAt[g] = "count" /\ UNCHANGED <<clock, readAt, entries, expiry, entered, lapsed>>
        /\ IF Cardinality(entries) >= Limit
           THEN /\ limitAt' = [limitAt EXCEPT ![g] = "idle"]
                /\ turnedAway' = [at |-> readAt[g], seen |-> Cardinality(After(entered, readAt[g]))]
           ELSE limitAt' = [limitAt EXCEPT ![g] = "add"] /\ UNCHANGED turnedAway
    BY <1>7 DEF Count, Proceed, Full
  <2>2. LimitTyped'
    BY <1>1, <2>1 DEF LimitTyped
  <2>3. CASE Cardinality(entries) >= Limit
    <3>1. RefusedForCause'
      BY <1>1, <2>1, <2>3, SeenEnough DEF RefusedForCause
    <3>2. RoomForAdders' /\ FewStale'
      BY <1>1, <1>2, <2>1, <2>3, LimitShrinks
    <3> QED BY <1>3, <2>1, <2>2, <3>1, <3>2 DEF LimitInv
  <2>4. CASE ~(Cardinality(entries) >= Limit)
    <3>1. limitAt' = [limitAt EXCEPT ![g] = "add"] /\ UNCHANGED turnedAway
      BY <2>1, <2>4
    <3>2. RoomForAdders'
      <4>1. Adders' \subseteq Guests
        BY DEF Adders
      <4>2. Cardinality(Adders') <= Cardinality(Guests) /\ Cardinality(Adders') \in Nat
        BY <4>1, LimitConstants, FS_Subset, FS_CardinalityType
      <4>3. Cardinality(entries) \in Nat /\ Cardinality(entries) < Limit
        BY <1>1, <2>4, LimitFinite, LimitConstants
      <4>4. Cardinality(entries) + Cardinality(Adders') < Limit + Cardinality(Guests)
        BY <4>2, <4>3, LimitConstants
      <4> QED BY <2>1, <4>4 DEF RoomForAdders
    <3>3. ASSUME NEW h \in Guests, limitAt'[h] = "count"
          PROVE  Cardinality(Stale(h)') + Cardinality(Late(h)') < Cardinality(Guests)
      <4>1. h # g /\ limitAt[h] = "count"
        BY <1>2, <3>1, <3>3
      <4>2. Stale(h)' = Stale(h) /\ Late(h)' = Late(h)
        BY <1>2, <2>1, <3>1, <4>1 DEF Stale, Late
      <4> QED BY <1>1, <4>1, <4>2 DEF FewStale
    <3>4. FewStale'
      BY <3>3 DEF FewStale
    <3> QED BY <1>3, <1>4, <2>1, <2>2, <3>1, <3>2, <3>4 DEF LimitInv
  <2> QED BY <2>3, <2>4
<1>8. ASSUME NEW g \in Guests, Add(g) PROVE LimitInv'
  <2>1. /\ limitAt[g] = "add" /\ limitAt' = [limitAt EXCEPT ![g] = "expire"]
        /\ entries' = entries \cup {readAt[g]} /\ entered' = entered \cup {readAt[g]}
        /\ UNCHANGED <<clock, readAt, expiry, lapsed, turnedAway>>
    BY <1>8 DEF Add, Proceed
  <2>2. LimitTyped'
    <3>1. readAt[g] \in 1 .. clock
      BY <1>1, <1>2, <2>1 DEF LimitTyped
    <3> QED BY <1>1, <2>1, <3>1 DEF LimitTyped
  <2>3. g \in Adders /\ Adders' \subseteq Adders \ {g}
    BY <1>2, <2>1 DEF Adders
  <2>4. RoomForAdders'
    <3>1. entries' \subseteq entries \cup {readAt[g]}
      BY <2>1
    <3>2. IsFiniteSet(entries) /\ IsFiniteSet(Adders)
      BY <1>1, LimitFinite
    <3> HIDE DEF Adders
    <3>3. /\ Cardinality(entries') \in Nat /\ Cardinality(Adders') \in Nat
          /\ Cardinality(entries) \in Nat /\ Cardinality(Adders) \in Nat
          /\ Cardinality(entries') + Cardinality(Adders') <= Cardinality(entries) + Cardinality(Adders)
      BY <2>3, <3>1, <3>2, SumMoved
    <3> QED BY <1>1, <3>3, LimitConstants DEF RoomForAdders
  <2>5. YoungKept'
    BY <1>1, <2>1 DEF YoungKept, Young
  <2>6. ASSUME NEW h \in Guests, limitAt'[h] = "count"
        PROVE  Cardinality(Stale(h)') + Cardinality(Late(h)') < Cardinality(Guests)
    <3>1. h # g /\ limitAt[h] = "count" /\ readAt'[h] = readAt[h]
      BY <1>2, <2>1, <2>6
    <3>2. IsFiniteSet(Stale(h)) /\ IsFiniteSet(Late(h))
      BY <1>1, LimitFinite, LimitConstants, FS_Subset DEF Stale, Late
    <3>3. Cardinality(Stale(h)) + Cardinality(Late(h)) < Cardinality(Guests)
      BY <1>1, <3>1 DEF FewStale
    <3>4. CASE readAt[g] <= readAt[h] - LimitWindow
      <4>1. Stale(h)' \subseteq Stale(h) \cup {readAt[g]}
        BY <2>1 DEF Stale
      <4>2. g \in Late(h) /\ Late(h)' \subseteq Late(h) \ {g}
        BY <1>2, <2>1, <3>1, <3>4 DEF Late
      <4> HIDE DEF Stale, Late
      <4>3. /\ Cardinality(Stale(h)') \in Nat /\ Cardinality(Late(h)') \in Nat
            /\ Cardinality(Stale(h)) \in Nat /\ Cardinality(Late(h)) \in Nat
            /\ Cardinality(Stale(h)') + Cardinality(Late(h)')
                   <= Cardinality(Stale(h)) + Cardinality(Late(h))
        BY <3>2, <4>1, <4>2, SumMoved
      <4> QED BY <3>3, <4>3, LimitConstants
    <3>5. CASE ~(readAt[g] <= readAt[h] - LimitWindow)
      <4>1. Stale(h)' \subseteq Stale(h) /\ Late(h)' \subseteq Late(h)
        BY <1>2, <2>1, <3>5 DEF Stale, Late
      <4> HIDE DEF Stale, Late
      <4> QED BY <3>2, <3>3, <4>1, LimitConstants, SumKept
    <3> QED BY <3>4, <3>5
  <2>7. FewStale'
    BY <2>6 DEF FewStale
  <2> QED BY <1>4, <2>1, <2>2, <2>4, <2>5, <2>7 DEF LimitInv
<1>9. ASSUME NEW g \in Guests, Expire(g) PROVE LimitInv'
  <2>1. /\ limitAt' = [limitAt EXCEPT ![g] = "idle"]
        /\ expiry' = IF entries = {} THEN 0 ELSE clock + LimitWindow + 1
        /\ UNCHANGED <<clock, readAt, entries, entered, lapsed, turnedAway>>
    BY <1>9 DEF Expire, Proceed
  <2>2. LimitTyped'
    BY <1>1, <2>1, LimitConstants DEF LimitTyped
  <2>3. RoomForAdders' /\ FewStale'
    BY <1>1, <1>2, <2>1, LimitShrinks
  <2> QED BY <1>3, <1>4, <2>1, <2>2, <2>3 DEF LimitInv
<1>10. ASSUME NEW g \in Guests, LimitFails(g) PROVE LimitInv'
  <2>1. /\ limitAt' = [limitAt EXCEPT ![g] = "idle"]
        /\ UNCHANGED <<clock, readAt, entries, expiry, entered, lapsed, turnedAway>>
    BY <1>10 DEF LimitFails, Proceed
  <2>2. LimitTyped'
    BY <1>1, <2>1 DEF LimitTyped
  <2>3. RoomForAdders' /\ FewStale'
    BY <1>1, <1>2, <2>1, LimitShrinks
  <2> QED BY <1>3, <1>4, <2>1, <2>2, <2>3 DEF LimitInv
<1>11. ASSUME Pass PROVE LimitInv'
  <2>1. /\ clock <= MaxClock /\ clock' = clock + 1
        /\ UNCHANGED <<limitAt, readAt, entered, turnedAway>>
        /\ IF expiry # 0 /\ expiry <= clock + 1
           THEN /\ lapsed' = lapsed \cup {t \in entries : t > clock + 1 - LimitWindow}
                /\ entries' = {} /\ expiry' = 0
           ELSE UNCHANGED <<entries, expiry, lapsed>>
    BY <1>11 DEF Pass
  <2>2. entries' \subseteq entries /\ lapsed' \subseteq lapsed \cup entries
    BY <2>1
  <2>3. LimitTyped'
    <3>1. clock' \in Nat \ {0} /\ clock' <= MaxClock + 1 /\ entered' \subseteq 1 .. clock'
      BY <1>1, <1>2, <2>1, LimitConstants DEF LimitTyped
    <3>2. \A g \in Guests : readAt'[g] <= clock'
      BY <1>2, <2>1
    <3>3. expiry' \in Nat /\ expiry' <= clock' + LimitWindow + 1 /\ (entries' = {} => expiry' = 0)
      BY <1>1, <1>2, <2>1, LimitConstants DEF LimitTyped
    <3> QED BY <1>1, <2>1, <2>2, <3>1, <3>2, <3>3 DEF LimitTyped
  <2>4. RoomForAdders' /\ FewStale'
    BY <1>1, <1>2, <2>1, <2>2, LimitShrinks
  <2>5. ASSUME NEW t \in entered', Young(t)' PROVE t \in entries' \/ t \in lapsed'
    <3>1. t \in entered /\ clock' = clock + 1 /\ t > clock' - LimitWindow
      <4>1. t > clock' - LimitWindow
        BY <2>5 DEF Young
      <4> QED BY <2>1, <4>1
    <3>2. Young(t)
      BY <1>2, <3>1, LimitConstants DEF Young
    <3>3. t \in entries \/ t \in lapsed
      BY <1>1, <3>1, <3>2 DEF YoungKept
    <3>4. CASE expiry # 0 /\ expiry <= clock + 1
      <4>1. t > clock + 1 - LimitWindow
        BY <1>2, <3>1, LimitConstants
      <4> QED BY <2>1, <3>3, <3>4, <4>1
    <3>5. CASE ~(expiry # 0 /\ expiry <= clock + 1)
      BY <2>1, <3>3, <3>5
    <3> QED BY <3>4, <3>5
  <2>6. YoungKept'
    BY <2>5 DEF YoungKept
  <2> QED BY <1>4, <2>1, <2>3, <2>4, <2>6 DEF LimitInv
<1>12. CASE UNCHANGED limitVars
  <2>1. UNCHANGED <<clock, limitAt, readAt, entries, expiry, entered, lapsed, turnedAway>>
    BY <1>12 DEF limitVars
  <2>2. LimitTyped'
    BY <1>1, <2>1 DEF LimitTyped
  <2>3. RoomForAdders' /\ FewStale'
    BY <1>1, <1>2, <2>1, LimitShrinks
  <2> QED BY <1>3, <1>4, <2>1, <2>2, <2>3 DEF LimitInv
<1> QED BY <1>5, <1>6, <1>7, <1>8, <1>9, <1>10, <1>11, <1>12 DEF LimitNext

LEMMA LimitTypesMean == LimitInv => LimitTypeOK
<1> SUFFICES ASSUME LimitInv PROVE LimitTypeOK
  OBVIOUS
<1>1. LimitTyped
  BY DEF LimitInv
<1>2. clock \in 1 .. MaxClock + 1 /\ expiry \in 0 .. clock + LimitWindow + 1
  BY <1>1, LimitConstants DEF LimitTyped
<1>3. readAt \in [Guests -> 0 .. clock]
  BY <1>1 DEF LimitTyped
<1> QED BY <1>1, <1>2, <1>3 DEF LimitTyped, LimitTypeOK

(* However many requests are in the middleware together, and whichever of  *)
(* its commands fail, fewer instants of a window are entered than the      *)
(* limit and the requests in flight, but for those that a key took with it *)
(* when it lapsed before its renewal (rate_limit_middleware.py:104-115).   *)
THEOREM LimitBoundHolds == LimitSpec => []LimitBound
<1>1. LimitInv => LimitBound
  <2> SUFFICES ASSUME LimitInv PROVE LimitBound
    OBVIOUS
  <2> DEFINE young == {t \in entered : Young(t)}
             gone == {t \in lapsed : Young(t)}
  <2>1. LimitTyped /\ RoomForAdders /\ YoungKept
    BY DEF LimitInv
  <2>2. IsFiniteSet(entries) /\ IsFiniteSet(young) /\ IsFiniteSet(gone)
    BY <2>1, LimitFinite, FS_Subset DEF LimitTyped
  <2>3. young \subseteq entries \cup gone
    BY <2>1 DEF YoungKept
  <2> HIDE DEF young, gone
  <2>4. /\ IsFiniteSet(entries \cup gone)
        /\ Cardinality(entries \cup gone)
               = Cardinality(entries) + Cardinality(gone) - Cardinality(entries \cap gone)
    BY <2>2, FS_Union
  <2>5. Cardinality(young) <= Cardinality(entries \cup gone)
    BY <2>3, <2>4, FS_Subset
  <2>6. /\ Cardinality(entries) \in Nat /\ Cardinality(gone) \in Nat /\ Cardinality(young) \in Nat
        /\ Cardinality(entries \cup gone) \in Nat
    BY <2>2, <2>4, FS_CardinalityType
  <2>7. Cardinality(entries \cap gone) \in Nat
    BY <2>2, FS_Subset, FS_CardinalityType
  <2>8. Cardinality(Adders) \in Nat
    BY <2>1, LimitFinite
  <2>9. Cardinality(young) < Limit + Cardinality(Guests) + Cardinality(gone)
    BY <2>1, <2>4, <2>5, <2>6, <2>7, <2>8, LimitConstants DEF RoomForAdders
  <2> QED BY <2>9 DEF LimitBound, young, gone
<1> QED BY LimitInitInv, LimitNextInv, <1>1, PTL DEF LimitSpec

(* Whoever is turned away met requests of its own window, but for one of   *)
(* each of the others in the middleware, whatever fails and however long   *)
(* the commands wait (rate_limit_middleware.py:101-112).                   *)
THEOREM LimitRefusesForCause == LimitSpec => []RefusedForCause
<1>1. LimitInv => RefusedForCause
  BY DEF LimitInv
<1> QED BY LimitInitInv, LimitNextInv, <1>1, PTL DEF LimitSpec

-----------------------------------------------------------------------------
(***************************************************************************)
(* All the services.                                                       *)
(*                                                                         *)
(* The invariants above say most of what the type invariants do; the rest  *)
(* is what nothing else rests on: the bounds of the counters and the types *)
(* of the histories.                                                       *)
(***************************************************************************)
LEMMA GateTypesMean == GateInv => GateTypeOK
<1> SUFFICES ASSUME GateInv PROVE GateTypeOK
  OBVIOUS
<1>1. GateTyped /\ AskedBefore /\ MaxTime \in Nat
  BY GateAssumption DEF GateInv
<1>2. time \in 0 .. MaxTime /\ changed \in 0 .. time
  BY <1>1 DEF GateTyped
<1>3. ASSUME NEW r \in Callers, gateAt[r] = "backend"
      PROVE  fetch[r].asked \in 0 .. time /\ fetch[r].answer.status \in {0, 200, 401, 404, 422}
  BY <1>1, <1>3 DEF GateTyped, AskedBefore, NoAnswer, Unauthorized
<1>4. state \in BOOLEAN /\ refused \in BOOLEAN
  BY <1>1 DEF GateInv, GateTyped
<1>5. entry.held = FALSE
  BY <1>1 DEF GateTyped, NoEntry
<1> QED BY <1>1, <1>2, <1>3, <1>4, <1>5 DEF GateTyped, GateTypeOK

VulnCounts ==
    /\ boot # "flags" => left = {}
    /\ users \in 0 .. 1
    /\ products \in Nat /\ starts \in Nat /\ starts <= MaxStarts
    /\ products + (IF boot = "batch" THEN 1 ELSE 0) <= starts

LEMMA VulnTypesMean == VulnInv /\ VulnCounts => VulnTypeOK
<1> SUFFICES ASSUME VulnInv, VulnCounts PROVE VulnTypeOK
  OBVIOUS
<1>1. products \in 0 .. starts /\ starts \in 0 .. MaxStarts
  BY VulnAssumption DEF VulnCounts
<1> QED BY <1>1 DEF VulnInv, VulnCounts, VulnTypeOK

LEMMA VulnCountsNext ==
    ASSUME VulnCounts, [VulnNext]_vulnVars
    PROVE  VulnCounts'
<1>1. MaxStarts \in Nat
  BY VulnAssumption
<1>2. ASSUME NEW k \in Secrets, Start(k) PROVE VulnCounts'
  BY <1>1, <1>2 DEF VulnCounts, Start
<1>3. CASE CreateTables
  BY <1>3 DEF VulnCounts, CreateTables
<1>4. CASE Listen
  BY <1>4 DEF VulnCounts, Listen
<1>5. CASE InitFails
  BY <1>5 DEF VulnCounts, InitFails
<1>6. CASE Stop
  BY <1>6 DEF VulnCounts, Stop
<1>7. ASSUME NEW c \in Flagged, InsertFlag(c) PROVE VulnCounts'
  BY <1>7 DEF VulnCounts, InsertFlag
<1>8. CASE UNCHANGED vulnVars
  BY <1>8 DEF VulnCounts, vulnVars
<1> QED BY <1>2, <1>3, <1>4, <1>5, <1>6, <1>7, <1>8 DEF VulnNext

ZeroSets ==
    /\ flags \subseteq Ids /\ unlockKeys \subseteq Ids /\ admitted \subseteq Ids
    /\ handed \subseteq Ids /\ refusedLate \subseteq Ids
    /\ cached \subseteq Entries /\ poisoned \subseteq Entries
    /\ polluted \subseteq Inherited /\ evaluated \in BOOLEAN
    /\ requests \in 0 .. MaxRequests
    /\ \A s \in Solvers : zdAt[s] = "commands" => zdReq[s].todo # {}

LEMMA ZeroTypesMean == ZeroInv /\ ZeroSets => ZeroDayTypeOK
<1> SUFFICES ASSUME ZeroInv, ZeroSets PROVE ZeroDayTypeOK
  OBVIOUS
<1>1. \A s \in Solvers : zdAt[s] # "idle" => zdReq[s].zd \in Ids
  BY DEF ZeroInv, RequestsSound, RequestSound
<1>2. ASSUME NEW s \in Solvers, zdAt[s] = "commands" PROVE zdReq[s].todo \in (SUBSET Commands) \ {{}}
  <2>1. zdReq[s] \in RequestRecords
    BY DEF ZeroInv, ZeroTyped
  <2>2. zdReq[s].todo \subseteq Commands
    BY <2>1 DEF RequestRecords
  <2>3. zdReq[s].todo # {}
    BY <1>2 DEF ZeroSets
  <2> QED BY <2>2, <2>3
<1> QED BY <1>1, <1>2 DEF ZeroInv, ZeroTyped, ZeroSets, ZeroDayTypeOK

LEMMA ZeroSetsNext ==
    ASSUME ZeroInv, ZeroSets, [ZeroDayNext]_zdVars
    PROVE  ZeroSets'
<1>1. /\ zdAt \in [Solvers -> {"idle", "status", "commands"}]
      /\ zdReq \in [Solvers -> RequestRecords]
      /\ \A s \in Solvers : zdAt[s] # "idle" => zdReq[s].zd \in Ids
  BY DEF ZeroInv, ZeroTyped, RequestsSound, RequestSound
<1>2. MaxRequests \in Nat
  BY ZeroDayAssumption
<1>3. ASSUME NEW s \in Solvers, NEW zd \in Ids, Exploit(s, zd) PROVE ZeroSets'
  <2>1. requests' \in 0 .. MaxRequests
    BY <1>2, <1>3 DEF Exploit, ZeroSets
  <2>2. ASSUME NEW r \in Solvers, zdAt'[r] = "commands" PROVE zdReq'[r].todo # {}
    BY <1>1, <1>3, <2>2 DEF Exploit, ZeroSets
  <2> QED BY <1>3, <2>1, <2>2 DEF Exploit, ZeroSets
<1>4. ASSUME NEW s \in Solvers, NEW status, RefuseLocked(s, status) PROVE ZeroSets'
  <2>1. ASSUME NEW r \in Solvers, zdAt'[r] = "commands" PROVE zdReq'[r].todo # {}
    BY <1>1, <1>4, <2>1 DEF RefuseLocked, Free, ZeroSets
  <2> QED BY <1>1, <1>4, <2>1 DEF RefuseLocked, ZeroSets
<1>5. ASSUME NEW s \in Solvers, NEW status, NEW b, HandleExploit(s, status, b) PROVE ZeroSets'
  <2> DEFINE zd == zdReq[s].zd
             todo == IF Verdict(zd, b) = "refused" THEN {} ELSE CommandsOf(zd, Verdict(zd, b))
  <2>1. /\ zdAt[s] = "status"
        /\ admitted' = admitted \/ admitted' = admitted \cup {zd}
        /\ Merge(zd, b)
        /\ UNCHANGED <<requests, flags, unlockKeys, cached, poisoned, evaluated, handed, refusedLate>>
        /\ IF todo = {} THEN Free(s)
           ELSE /\ zdAt' = [zdAt EXCEPT ![s] = "commands"]
                /\ zdReq' = [zdReq EXCEPT ![s].todo = todo]
    BY <1>5 DEF HandleExploit, Admit
  <2>2. zd \in Ids
    BY <1>1, <2>1
  <2>3. polluted' \subseteq Inherited
    BY <2>1 DEF Merge, ZeroSets
  <2> HIDE DEF zd, todo
  <2>4. ASSUME NEW r \in Solvers, zdAt'[r] = "commands" PROVE zdReq'[r].todo # {}
    <3>1. CASE todo = {}
      BY <1>1, <2>1, <2>4, <3>1 DEF Free, ZeroSets
    <3>2. CASE todo # {} /\ r = s
      BY <1>1, <2>1, <3>2 DEF RequestRecords
    <3>3. CASE todo # {} /\ r # s
      BY <1>1, <2>1, <2>4, <3>3 DEF ZeroSets
    <3> QED BY <3>1, <3>2, <3>3
  <2> QED BY <2>1, <2>2, <2>3, <2>4 DEF ZeroSets
<1>6. ASSUME NEW s \in Solvers, NEW c \in Commands, Send(s, c) PROVE ZeroSets'
  <2>1. /\ zdReq[s].zd \in Ids
        /\ UNCHANGED <<requests, unlockKeys, polluted, evaluated, admitted, refusedLate>>
        /\ flags' \subseteq flags \cup {zdReq[s].zd} /\ handed' \subseteq handed \cup {zdReq[s].zd}
        /\ poisoned' \subseteq poisoned \cup {"system"}
    BY <1>1, <1>6 DEF Send
  <2>2. cached' \subseteq cached \cup {"plain", "system"}
    BY <1>6 DEF Send
  <2>3. ASSUME NEW r \in Solvers, zdAt'[r] = "commands" PROVE zdReq'[r].todo # {}
    <3>1. CASE zdReq[s].todo = {c}
      BY <1>1, <1>6, <2>3, <3>1 DEF Send, Free, ZeroSets
    <3>2. CASE zdReq[s].todo # {c} /\ r = s
      <4>1. zdReq'[r].todo = zdReq[s].todo \ {c} /\ c \in zdReq[s].todo
        BY <1>1, <1>6, <3>2 DEF Send, RequestRecords
      <4> QED BY <3>2, <4>1
    <3>3. CASE zdReq[s].todo # {c} /\ r # s
      BY <1>1, <1>6, <2>3, <3>3 DEF Send, ZeroSets
    <3> QED BY <3>1, <3>2, <3>3
  <2> QED BY <2>1, <2>2, <2>3 DEF ZeroSets, Entries
<1>7. ASSUME NEW s \in Solvers, Exit(s) PROVE ZeroSets'
  BY <1>7 DEF Exit, ZeroSets
<1>8. ASSUME NEW zd \in Ids, Unlock(zd) PROVE ZeroSets'
  BY <1>8 DEF Unlock, ZeroSets
<1>9. CASE UNCHANGED zdVars
  BY <1>9 DEF zdVars, ZeroSets
<1>10. ASSUME NEW s \in Solvers, NEW status, NEW b, Evaluate(s, status, b) PROVE ZeroSets'
  <2>1. /\ evaluated' = TRUE
        /\ admitted' = admitted \/ admitted' = admitted \cup {zdReq[s].zd}
        /\ zdReq[s].zd \in Ids
        /\ UNCHANGED <<requests, flags, unlockKeys, cached, poisoned, polluted, handed, refusedLate>>
    BY <1>1, <1>10 DEF Evaluate, Admit
  <2>2. ASSUME NEW r \in Solvers, zdAt'[r] = "commands" PROVE zdReq'[r].todo # {}
    BY <1>1, <1>10, <2>2 DEF Evaluate, Free, ZeroSets
  <2> QED BY <2>1, <2>2 DEF ZeroSets
<1> QED BY <1>3, <1>4, <1>5, <1>6, <1>7, <1>8, <1>9, <1>10 DEF ZeroDayNext, ZeroDayStep

CheatTables ==
    /\ ipTeam \in [Addresses -> Teams \cup {NoTeam}]
    /\ alerts \subseteq Alert

LEMMA CheatTypesMean == CheatInv /\ CheatTables => CheatTypeOK
<1> SUFFICES ASSUME CheatInv, CheatTables PROVE CheatTypeOK
  OBVIOUS
<1>1. \A s \in Slots : step[s] # "idle" => attempt[s] # NoAttempt
  BY AntiCheatAssumption DEF CheatInv, CheatTyped
<1> QED BY <1>1 DEF CheatInv, CheatTyped, CheatTables, CheatTypeOK

LEMMA CheatTablesNext ==
    ASSUME CheatInv, CheatTables, [CheatNext]_cheatVars
    PROVE  CheatTables'
<1>1. CASE UNCHANGED <<ipTeam, alerts>>
  BY <1>1 DEF CheatTables
<1>2. ASSUME NEW s \in Slots, step[s] # "idle" PROVE attempt[s].team \in Teams /\ attempt[s].ip \in Addresses
  BY <1>2 DEF CheatInv, CheatTyped, Attempt
<1>3. ASSUME NEW s \in Slots, ClaimAddress(s) PROVE CheatTables'
  BY <1>2, <1>3 DEF ClaimAddress, CheatTables
<1>4. ASSUME NEW s \in Slots, RaiseAlert(s) PROVE CheatTables'
  BY <1>2, <1>4 DEF RaiseAlert, CheatTables, Alert
<1>5. ASSUME NEW a \in Addresses, AddressExpires(a) PROVE CheatTables'
  BY <1>5 DEF AddressExpires, CheatTables
<1>6. CASE ClearAlerts
  BY <1>6 DEF ClearAlerts, CheatTables
<1>7. ASSUME NEW s \in Slots, ValidateSubmission(s) \/ TrimWindow(s) \/ CountAttempts(s) \/ RefuseRate(s)
      PROVE  CheatTables'
  BY <1>1, <1>7 DEF ValidateSubmission, TrimWindow, CountAttempts, RefuseRate
<1>8. ASSUME NEW s \in Slots, AddAttempt(s) \/ ReadAddress(s) \/ Allow(s) \/ ThrowCheck(s)
      PROVE  CheatTables'
  BY <1>1, <1>8 DEF AddAttempt, ReadAddress, Allow, ThrowCheck
<1> QED BY <1>1, <1>3, <1>4, <1>5, <1>6, <1>7, <1>8 DEF CheatNext, CheckStep, cheatVars

(* One service runs and the others rest, so that a step of the whole is a  *)
(* step of each or leaves it alone.                                        *)
ServicesInv ==
    /\ service \in Running
    /\ CheatInv /\ CheatTables
    /\ GateInv
    /\ VulnInv /\ VulnCounts
    /\ ZeroInv /\ ZeroSets
    /\ LbInv /\ RabbitInv /\ LimitInv

LEMMA StepOfEach ==
    ASSUME [ServicesNext]_servicesVars
    PROVE  /\ service' = service
           /\ [CheatNext]_cheatVars /\ [GateNext]_gateVars /\ [VulnNext]_vulnVars
           /\ [ZeroDayNext]_zdVars /\ [LeaderboardNext]_lbVars /\ [RabbitNext]_rabbitVars
           /\ [LimitNext]_limitVars
<1>1. CASE UNCHANGED servicesVars
  BY <1>1 DEF servicesVars
<1>2. CASE ServicesNext
  BY <1>2 DEF ServicesNext, Rest
<1> QED BY <1>1, <1>2

LEMMA ServicesInitInv ==
    ServicesInit => ServicesInv
<1> SUFFICES ASSUME ServicesInit PROVE ServicesInv
  OBVIOUS
<1>1. /\ service \in Running
      /\ CheatInit /\ GateInit /\ LeaderboardInit /\ RabbitInit /\ LimitInit /\ VulnInit
      /\ ZeroDayInit
  BY DEF ServicesInit
<1>2. CheatInv /\ GateInv /\ ZeroInv /\ LbInv /\ RabbitInv /\ LimitInv
  BY <1>1, CheatInitInv, GateInitInv, ZeroInitInv, LbInitInv, RabbitInitInv, LimitInitInv
<1>3. VulnInv
  BY <1>1 DEF VulnInit, VulnInv, FlagsSoFar, FlagsCurrent
<1>4. CheatTables
  BY <1>1 DEF CheatInit, CheatTables
<1>6. VulnCounts
  BY <1>1, VulnAssumption DEF VulnInit, VulnCounts
<1>7. ZeroSets
  <2>1. requests \in 0 .. MaxRequests
    <3>1. requests = 0 /\ MaxRequests \in Nat
      BY <1>1, ZeroDayAssumption DEF ZeroDayInit
    <3> QED BY <3>1
  <2>4. evaluated \in BOOLEAN
    BY <1>1 DEF ZeroDayInit
  <2>2. \A s \in Solvers : zdAt[s] = "idle"
    BY <1>1 DEF ZeroDayInit
  <2>3. /\ flags = {} /\ unlockKeys = {} /\ cached = {} /\ poisoned = {} /\ polluted = {}
        /\ admitted = {} /\ handed = {} /\ refusedLate = {}
    BY <1>1 DEF ZeroDayInit
  <2> QED BY <2>1, <2>2, <2>3, <2>4 DEF ZeroSets
<1> QED BY <1>1, <1>2, <1>3, <1>4, <1>6, <1>7 DEF ServicesInv

LEMMA ServicesNextInv ==
    ASSUME ServicesInv, [ServicesNext]_servicesVars
    PROVE  ServicesInv'
<1>1. /\ service \in Running /\ CheatInv /\ CheatTables /\ GateInv
      /\ VulnInv /\ VulnCounts /\ ZeroInv /\ ZeroSets /\ LbInv /\ RabbitInv /\ LimitInv
  BY DEF ServicesInv
<1>2. CheatInv' /\ CheatTables'
  BY <1>1, StepOfEach, CheatNextInv, CheatTablesNext
<1>3. GateInv'
  BY <1>1, StepOfEach, GateNextInv
<1>4. VulnInv' /\ VulnCounts'
  BY <1>1, StepOfEach, VulnNextInv, VulnCountsNext
<1>5. ZeroInv' /\ ZeroSets'
  BY <1>1, StepOfEach, ZeroNextInv, ZeroSetsNext
<1>6. LbInv' /\ RabbitInv' /\ LimitInv'
  BY <1>1, StepOfEach, LbNextInv, RabbitNextInv, LimitNextInv
<1>7. service' \in Running
  BY <1>1, StepOfEach
<1> QED BY <1>2, <1>3, <1>4, <1>5, <1>6, <1>7 DEF ServicesInv

(* Whatever each service is asked, and wherever it is interrupted, its     *)
(* state has its type and its counters stay within their bounds, for every *)
(* value of the constants of the seven services.                           *)
THEOREM ServicesTyped == ServicesSpec => []ServicesTypeOK
<1>1. ServicesInv => ServicesTypeOK
  <2> SUFFICES ASSUME ServicesInv PROVE ServicesTypeOK
    OBVIOUS
  <2>1. CheatTypeOK /\ GateTypeOK /\ VulnTypeOK /\ ZeroDayTypeOK
    BY CheatTypesMean, GateTypesMean, VulnTypesMean, ZeroTypesMean DEF ServicesInv
  <2>2. LeaderboardTypeOK /\ RabbitTypeOK /\ LimitTypeOK
    BY LbTypesMean, RabbitTypes, LimitTypesMean DEF ServicesInv, LbInv
  <2> QED BY <2>1, <2>2 DEF ServicesInv, ServicesTypeOK
<1> QED BY ServicesInitInv, ServicesNextInv, <1>1, PTL DEF ServicesSpec

-----------------------------------------------------------------------------
(***************************************************************************)
(* What a reported address is owed: a fact about what its key goes back    *)
(* to.                                                                     *)
(***************************************************************************)
FromAddress(a, t) == \E v \in Attempts : v[3] = a /\ v[1] = t
OthersFrom(a, t) == \E v \in Attempts : v[3] = a /\ v[1] # t

AddressInv ==
    /\ \A a \in Addresses : ipTeam[a] # NoTeam => FromAddress(a, ipTeam[a])
    /\ \A s \in Slots : step[s] # "idle" => FromAddress(attempt[s].ip, attempt[s].team)
    /\ \A s \in Slots : step[s] = "lpush" => OthersFrom(attempt[s].ip, attempt[s].team)

AlertInv == CheatInv /\ CheatTables /\ AddressInv /\ NoFalseAlert

LEMMA AlertTypes ==
    ASSUME AlertInv
    PROVE  /\ ipTeam \in [Addresses -> Teams \cup {NoTeam}]
           /\ step \in [Slots -> CheckSteps]
           /\ attempt \in [Slots -> Attempt \cup {NoAttempt}]
           /\ \A s \in Slots : step[s] # "idle" => attempt[s] \in Attempt
           /\ \A s \in Slots : step[s] # "idle" =>
                  attempt[s].ip \in Addresses /\ attempt[s].team \in Teams
BY DEF AlertInv, CheatInv, CheatTyped, CheatTables, Attempt

\* A slot that goes on with its attempt, to another command than the alert.
LEMMA GoesOnFrom ==
    ASSUME AlertInv, NEW s \in Slots, step[s] # "idle", NEW c \in CheckSteps \ {"lpush"}, Goto(s, c),
           \A r \in Slots : r # s => attempt'[r] = attempt[r],
           c # "idle" => attempt'[s].ip = attempt[s].ip /\ attempt'[s].team = attempt[s].team,
           ipTeam' = ipTeam
    PROVE  AddressInv'
<1>1. \A r \in Slots : r # s => step'[r] = step[r]
  BY AlertTypes DEF Goto
<1>2. step'[s] = c
  BY AlertTypes DEF Goto
<1> QED BY <1>1, <1>2 DEF AlertInv, AddressInv

LEMMA AlertNext ==
    ASSUME AlertInv, [CheatNext]_cheatVars
    PROVE  AlertInv'
<1>1. CheatInv' /\ CheatTables'
  BY CheatNextInv, CheatTablesNext DEF AlertInv
<1>2. AddressInv /\ NoFalseAlert
  BY DEF AlertInv
<1>3. ASSUME NEW s \in Slots, ValidateSubmission(s) PROVE AddressInv' /\ NoFalseAlert'
  <2>1. alerts' = alerts /\ ipTeam' = ipTeam /\ step[s] = "idle"
    BY <1>3 DEF ValidateSubmission
  <2>2. CASE UNCHANGED <<attempt, step>>
    BY <1>2, <2>1, <2>2 DEF AddressInv, NoFalseAlert
  <2>3. ASSUME NEW v \in Attempts,
               attempt' = [attempt EXCEPT ![s] =
                             [team |-> v[1], chal |-> v[2], ip |-> v[3], now |-> 0, id |-> calls]],
               Goto(s, "trim")
        PROVE  AddressInv' /\ NoFalseAlert'
    <3>1. attempt'[s].ip = v[3] /\ attempt'[s].team = v[1] /\ step'[s] = "trim"
      BY <2>3, AlertTypes DEF Goto
    <3>2. \A r \in Slots : r # s => attempt'[r] = attempt[r] /\ step'[r] = step[r]
      BY <2>3, AlertTypes DEF Goto
    <3>3. FromAddress(attempt'[s].ip, attempt'[s].team)
      BY <3>1 DEF FromAddress
    <3>4. AddressInv'
      BY <1>2, <2>1, <3>1, <3>2, <3>3 DEF AddressInv
    <3> QED BY <1>2, <2>1, <3>4 DEF NoFalseAlert
  <2> QED BY <1>3, <2>2, <2>3 DEF ValidateSubmission
<1>4. ASSUME NEW s \in Slots, TrimWindow(s) PROVE AddressInv' /\ NoFalseAlert'
  <2>1. attempt[s] \in Attempt /\ step[s] # "idle"
    BY <1>4, AlertTypes DEF TrimWindow
  <2>2. attempt'[s].ip = attempt[s].ip /\ attempt'[s].team = attempt[s].team
    BY <1>4, <2>1, AlertTypes DEF TrimWindow, Attempt
  <2>3. \A r \in Slots : r # s => attempt'[r] = attempt[r]
    BY <1>4, AlertTypes DEF TrimWindow
  <2>4. AddressInv'
    BY <1>4, <2>1, <2>2, <2>3, GoesOnFrom DEF TrimWindow, CheckSteps
  <2> QED BY <1>2, <1>4, <2>4 DEF TrimWindow, NoFalseAlert
<1>5. ASSUME NEW s \in Slots, CountAttempts(s) \/ AddAttempt(s) PROVE AddressInv' /\ NoFalseAlert'
  <2>1. /\ step[s] # "idle" /\ attempt' = attempt /\ ipTeam' = ipTeam /\ alerts' = alerts
        /\ \E c \in {"zrange", "zadd", "get"} : Goto(s, c)
    BY <1>5 DEF CountAttempts, AddAttempt
  <2>2. AddressInv'
    BY <2>1, GoesOnFrom DEF CheckSteps
  <2> QED BY <1>2, <2>1, <2>2 DEF NoFalseAlert
<1>6. ASSUME NEW s \in Slots, RefuseRate(s) \/ Allow(s) \/ ThrowCheck(s)
      PROVE  AddressInv' /\ NoFalseAlert'
  <2>1. step[s] # "idle" /\ Finish(s) /\ ipTeam' = ipTeam /\ alerts' = alerts
    BY <1>6 DEF RefuseRate, Allow, ThrowCheck
  <2>2. \A r \in Slots : r # s => attempt'[r] = attempt[r]
    BY <2>1, AlertTypes DEF Finish
  <2>3. AddressInv'
    BY <2>1, <2>2, GoesOnFrom DEF Finish, CheckSteps
  <2> QED BY <1>2, <2>1, <2>3 DEF NoFalseAlert
<1>7. ASSUME NEW s \in Slots, ReadAddress(s) PROVE AddressInv' /\ NoFalseAlert'
  <2> DEFINE a == attempt[s].ip
             t == attempt[s].team
  <2>1. step[s] = "get" /\ attempt' = attempt /\ ipTeam' = ipTeam /\ alerts' = alerts
    BY <1>7 DEF ReadAddress
  <2>2. a \in Addresses
    BY <2>1, AlertTypes
  <2>3. CASE IsShared(a, t)
    <3>1. step' = [step EXCEPT ![s] = "lpush"]
      BY <1>7, <2>3 DEF ReadAddress, Goto
    <3>2. OthersFrom(a, t)
      BY <1>2, <2>2, <2>3 DEF IsShared, AddressInv, FromAddress, OthersFrom
    <3>3. \A r \in Slots : r # s => step'[r] = step[r]
      BY <3>1, AlertTypes
    <3> QED BY <1>2, <2>1, <3>2, <3>3 DEF AddressInv, NoFalseAlert
  <2>4. CASE ~IsShared(a, t)
    <3>1. Goto(s, "setex")
      BY <1>7, <2>4 DEF ReadAddress
    <3>2. AddressInv'
      BY <2>1, <3>1, GoesOnFrom DEF CheckSteps
    <3> QED BY <1>2, <2>1, <3>2 DEF NoFalseAlert
  <2> QED BY <2>3, <2>4
<1>8. ASSUME NEW s \in Slots, ClaimAddress(s) PROVE AddressInv' /\ NoFalseAlert'
  <2>1. /\ step[s] = "setex" /\ attempt' = attempt /\ alerts' = alerts
        /\ ipTeam' = [ipTeam EXCEPT ![attempt[s].ip] = attempt[s].team]
        /\ step' = [step EXCEPT ![s] = "allowed"]
    BY <1>8 DEF ClaimAddress, Goto
  <2>2. FromAddress(attempt[s].ip, attempt[s].team)
    BY <1>2, <2>1 DEF AddressInv
  <2>3. \A a \in Addresses : ipTeam'[a] # NoTeam => FromAddress(a, ipTeam'[a])
    BY <1>2, <2>1, <2>2, AlertTypes DEF AddressInv
  <2>4. \A r \in Slots : step'[r] = step[r] \/ (r = s /\ step'[r] = "allowed")
    BY <2>1, AlertTypes
  <2> QED BY <1>2, <2>1, <2>2, <2>3, <2>4 DEF AddressInv, NoFalseAlert
<1>9. ASSUME NEW s \in Slots, RaiseAlert(s) PROVE AddressInv' /\ NoFalseAlert'
  <2>1. /\ step[s] = "lpush" /\ attempt' = attempt /\ ipTeam' = ipTeam /\ Goto(s, "allowed")
        /\ alerts' = alerts \cup {[team |-> attempt[s].team, ip |-> attempt[s].ip]}
    BY <1>9 DEF RaiseAlert
  <2>2. AddressInv'
    BY <2>1, GoesOnFrom DEF CheckSteps
  <2>3. OthersFrom(attempt[s].ip, attempt[s].team)
    BY <1>2, <2>1 DEF AddressInv
  <2>4. NoFalseAlert'
    BY <1>2, <2>1, <2>3 DEF OthersFrom, NoFalseAlert
  <2> QED BY <2>2, <2>4
<1>10. ASSUME NEW a \in Addresses, AddressExpires(a) PROVE AddressInv' /\ NoFalseAlert'
  <2>1. ipTeam' = [ipTeam EXCEPT ![a] = NoTeam] /\ UNCHANGED <<step, attempt, alerts>>
    BY <1>10 DEF AddressExpires
  <2>2. \A b \in Addresses : ipTeam'[b] # NoTeam => ipTeam'[b] = ipTeam[b]
    BY <2>1, AlertTypes
  <2> QED BY <1>2, <2>1, <2>2 DEF AddressInv, NoFalseAlert
<1>11. ASSUME ClearAlerts PROVE AddressInv' /\ NoFalseAlert'
  BY <1>2, <1>11 DEF ClearAlerts, AddressInv, NoFalseAlert
<1>12. ASSUME UNCHANGED cheatVars PROVE AddressInv' /\ NoFalseAlert'
  BY <1>2, <1>12 DEF cheatVars, AddressInv, NoFalseAlert
<1>13. AddressInv' /\ NoFalseAlert'
  BY <1>3, <1>4, <1>5, <1>6, <1>7, <1>8, <1>9, <1>10, <1>11, <1>12 DEF CheatNext, CheckStep
<1> QED BY <1>1, <1>13 DEF AlertInv

(* Whoever is reported for sharing an address shares it with another team, *)
(* whatever keys expire between the commands of overlapping validations    *)
(* (checkDuplicateIP).                                                     *)
THEOREM CheatNoFalseAlert == CheatSpec => []NoFalseAlert
<1>1. CheatInit => AlertInv
  <2> SUFFICES ASSUME CheatInit PROVE AlertInv
    OBVIOUS
  <2>1. CheatTables /\ AddressInv /\ NoFalseAlert
    BY DEF CheatInit, CheatTables, AddressInv, NoFalseAlert
  <2> QED BY <2>1, CheatInitInv DEF AlertInv
<1>2. AlertInv /\ [CheatNext]_cheatVars => AlertInv'
  BY AlertNext
<1>3. AlertInv => NoFalseAlert
  BY DEF AlertInv
<1> QED BY <1>1, <1>2, <1>3, PTL DEF CheatSpec

(* Each service keeps its properties next to the others: a behaviour of    *)
(* the whole is one of every service, which the theorems above are about.  *)
THEOREM ServicesHold ==
    ServicesSpec =>
        /\ [](WindowBound /\ RetryIsExact /\ NoFalseAlert)
        /\ [](GateStaysOpen /\ FlagsCurrent /\ NothingBeforeUnlock /\ WritesInOrder)
        /\ [](BoardsInOrder /\ RoutesSound /\ LimitBound /\ RefusedForCause)
<1>1. ServicesInit => /\ CheatInit /\ GateInit /\ LeaderboardInit /\ RabbitInit /\ LimitInit
                      /\ VulnInit /\ ZeroDayInit
  BY DEF ServicesInit
<1>2. [ServicesNext]_servicesVars =>
          /\ [CheatNext]_cheatVars /\ [GateNext]_gateVars /\ [VulnNext]_vulnVars
          /\ [ZeroDayNext]_zdVars /\ [LeaderboardNext]_lbVars /\ [RabbitNext]_rabbitVars
          /\ [LimitNext]_limitVars
  BY StepOfEach
<1>3. ServicesSpec => CheatSpec /\ GateSpec
  BY <1>1, <1>2, PTL DEF ServicesSpec, CheatSpec, GateSpec
<1>4. ServicesSpec => VulnSpec /\ ZeroDaySpec
  BY <1>1, <1>2, PTL DEF ServicesSpec, VulnSpec, ZeroDaySpec
<1>5. ServicesSpec => LeaderboardSpec /\ LimitSpec /\ RabbitSpec
  BY <1>1, <1>2, PTL DEF ServicesSpec, LeaderboardSpec, LimitSpec, RabbitSpec
<1> QED
  BY <1>3, <1>4, <1>5, CheatWindowBound, CheatRetryIsExact, CheatNoFalseAlert,
     GateNeverRefuses, VulnFlagsCurrent, ZeroDayNothingBeforeUnlock,
     ZeroDayWritesInOrder, BoardsHold, LimitBoundHolds, LimitRefusesForCause, RoutesHold, PTL
=============================================================================
