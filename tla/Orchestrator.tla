---------------------------- MODULE Orchestrator ----------------------------
(***************************************************************************)
(* The ctf-engine's orchestrator (orchestrator.ts): it spawns and tears    *)
(* down one container per team through the Docker daemon, keeps the        *)
(* instance map and the metadata of instances in Redis, and tells the      *)
(* backend.                                                                *)
(*                                                                         *)
(* Every request runs in a slot; a call to Redis or Docker ends a step.    *)
(* Any call may fail.  Containers run with AutoRemove: one that has        *)
(* stopped, by itself or on request, disappears a little later.  One that  *)
(* was created and never started stays, and Docker's stop refuses it.  The *)
(* daemon gives a name to one container at a time; the name is made of the *)
(* event and the team, not of the challenge.                               *)
(***************************************************************************)
EXTENDS Integers, FiniteSets

CONSTANTS
    Ids,         \* the containers the daemon may create (a bound, too)
    Keys,        \* the <<event, team, challenge>> of requests
    Nonces, Slots,
    NoId, NoKey, NoNonce, NoRequest,
    MaxRequests  \* bound: the requests begun in a behaviour

VARIABLES
    phase,   \* phase[i]: "none", "created", "running", "stopped" or "gone"
    labels,  \* labels[i]: the key container i was created for
    map,     \* map[k]: the field k of ctf:instance-map
    meta,    \* the i with a hash ctf:instance:{i}
    shown,   \* shown[t]: the instance the backend's participants of team t name
    used,    \* the nonces held in Redis
    pc,      \* pc[s]: the next call of slot s
    req,     \* req[s]: the request slot s runs
    begun    \* the number of requests begun

vars == <<phase, labels, map, meta, shown, used, pc, req, begun>>

EventOf(k) == k[1]
TeamOf(k) == k[2]
HolderOf(k) == <<k[1], k[2]>>
Teams == {TeamOf(k) : k \in Keys}
Events == {EventOf(k) : k \in Keys}

\* todo are the keys, then the containers, teardown-all still has to go through;
\* listed the running containers it found by their label; failed the containers
\* whose stop failed on it.
Request == [key : Keys \cup {NoKey}, nonce : Nonces \cup {NoNonce}, id : Ids \cup {NoId},
            keys : SUBSET Keys, todo : SUBSET Ids, listed : SUBSET Ids, failed : SUBSET Ids]

ASSUME OrchestratorAssumption ==
    /\ NoId \notin Ids
    /\ NoKey \notin Keys
    /\ NoRequest \notin Request
    /\ MaxRequests \in Nat

Phases == {"none", "created", "running", "stopped", "gone"}
Exists(i) == phase[i] \in {"created", "running", "stopped"}

PC == {"idle",
       "spawn nonce", "spawn hget", "inspect", "replace", "create", "start", "hset", "meta",
       "notify spawned",
       "teardown nonce", "teardown hget", "stop", "hdel", "del", "notify teardown",
       "hkeys", "all hget", "all stop", "all hdel", "all del", "list", "stop listed"}

(* The types of the containers, the map, the metadata and the calls in     *)
(* flight.                                                                 *)
TypeOK ==
    /\ phase \in [Ids -> Phases]
    /\ labels \in [Ids -> Keys \cup {NoKey}]
    /\ map \in [Keys -> Ids \cup {NoId}]
    /\ meta \subseteq Ids
    /\ shown \in [Teams -> Ids \cup {NoId}]
    /\ used \subseteq Nonces
    /\ pc \in [Slots -> PC]
    /\ req \in [Slots -> Request \cup {NoRequest}]
    /\ begun \in Nat
    /\ \A s \in Slots : pc[s] # "idle" => req[s] # NoRequest

Init ==
    /\ phase = [i \in Ids |-> "none"]
    /\ labels = [i \in Ids |-> NoKey]
    /\ map = [k \in Keys |-> NoId]
    /\ meta = {}
    /\ shown = [t \in Teams |-> NoId]
    /\ used = {}
    /\ pc = [s \in Slots |-> "idle"]
    /\ req = [s \in Slots |-> NoRequest]
    /\ begun = 0
-----------------------------------------------------------------------------
Goto(s, label) == pc' = [pc EXCEPT ![s] = label]

Answer(s) ==
    /\ Goto(s, "idle")
    /\ req' = [req EXCEPT ![s] = NoRequest]

NewRequest(k, n, i) == [key |-> k, nonce |-> n, id |-> i, keys |-> {}, todo |-> {},
                        listed |-> {}, failed |-> {}]

Begin(s, label, r) ==
    /\ pc[s] = "idle"
    /\ begun < MaxRequests
    /\ begun' = begun + 1
    /\ Goto(s, label)
    /\ req' = [req EXCEPT ![s] = r]
    /\ UNCHANGED <<phase, labels, map, meta, shown, used>>

\* A request without its parameters is refused at once.
Spawn(s) == \E k \in Keys, n \in Nonces : Begin(s, "spawn nonce", NewRequest(k, n, NoId))

\* By its key, by an instance_id, or by both.  Without a challenge_id the key is
\* looked up under "*", where nothing is ever stored: as without a key.
Teardown(s) ==
    \E k \in Keys \cup {NoKey}, n \in Nonces, i \in Ids \cup {NoId} :
        Begin(s, "teardown nonce", NewRequest(k, n, i))

TeardownAll(s) == \E k \in Keys : Begin(s, "hkeys", NewRequest(k, NoNonce, NoId))

\* SET NX with a TTL: the first request with a nonce goes on.
ConsumeNonce(s, label, next) ==
    /\ pc[s] = label
    /\ IF req[s].nonce \in used
       THEN Answer(s) /\ UNCHANGED used
       ELSE /\ used' = used \cup {req[s].nonce}
            /\ Goto(s, next)
            /\ UNCHANGED req
    /\ UNCHANGED <<phase, labels, map, meta, shown, begun>>

\* The TTL of a nonce is a minute.
NonceExpires ==
    /\ \E n \in used : used' = used \ {n}
    /\ UNCHANGED <<phase, labels, map, meta, shown, pc, req, begun>>

\* The program in a container ends.
Exit(i) ==
    /\ phase[i] = "running"
    /\ phase' = [phase EXCEPT ![i] = "stopped"]
    /\ UNCHANGED <<labels, map, meta, shown, used, pc, req, begun>>

AutoRemove(i) ==
    /\ phase[i] = "stopped"
    /\ phase' = [phase EXCEPT ![i] = "gone"]
    /\ UNCHANGED <<labels, map, meta, shown, used, pc, req, begun>>
-----------------------------------------------------------------------------
(* POST /api/ctf/spawn *)

ReadMap(s) ==
    /\ pc[s] = "spawn hget"
    /\ req' = [req EXCEPT ![s].id = map[req[s].key]]
    /\ Goto(s, IF map[req[s].key] = NoId THEN "create" ELSE "inspect")
    /\ UNCHANGED <<phase, labels, map, meta, shown, used, begun>>

\* A container that runs is the answer; one that is missing, or an inspect that
\* fails, is passed over.
Inspect(s) ==
    /\ pc[s] = "inspect"
    /\ \/ phase[req[s].id] = "running" /\ Answer(s)
       \/ phase[req[s].id] = "stopped" /\ Goto(s, "replace") /\ UNCHANGED req
       \/ Goto(s, "create") /\ UNCHANGED req
    /\ UNCHANGED <<phase, labels, map, meta, shown, used, begun>>

Replace(s) ==
    /\ pc[s] = "replace"
    /\ phase' = IF Exists(req[s].id) THEN [phase EXCEPT ![req[s].id] = "gone"] ELSE phase
    /\ Goto(s, "create")
    /\ UNCHANGED <<labels, map, meta, shown, used, req, begun>>

\* Mutant of NameTaken: a container that is not running gives its name away.
NameRunning(k) == \E i \in Ids : phase[i] = "running" /\ HolderOf(labels[i]) = HolderOf(k)

\* The daemon refuses a name in use, whatever the state of the container.
NameTaken(k) == \E i \in Ids : Exists(i) /\ HolderOf(labels[i]) = HolderOf(k)

Create(s) ==
    /\ pc[s] = "create"
    /\ IF NameTaken(req[s].key) \/ ~\E i \in Ids : phase[i] = "none"
       THEN Answer(s) /\ UNCHANGED <<phase, labels>>
       ELSE \E i \in Ids :
               /\ phase[i] = "none"
               /\ phase' = [phase EXCEPT ![i] = "created"]
               /\ labels' = [labels EXCEPT ![i] = req[s].key]
               /\ req' = [req EXCEPT ![s].id = i]
               /\ Goto(s, "start")
    /\ UNCHANGED <<map, meta, shown, used, begun>>

Start(s) ==
    /\ pc[s] = "start"
    /\ IF phase[req[s].id] = "created"
       THEN /\ phase' = [phase EXCEPT ![req[s].id] = "running"]
            /\ Goto(s, "hset")
            /\ UNCHANGED req
       ELSE Answer(s) /\ UNCHANGED phase
    /\ UNCHANGED <<labels, map, meta, shown, used, begun>>

\* Mutant of StoreMap: the instance is stored for all challenges of the team.
StoreMapForTeam(s) ==
    /\ pc[s] = "hset"
    /\ map' = [k \in Keys |-> IF HolderOf(k) = HolderOf(req[s].key) THEN req[s].id ELSE map[k]]
    /\ Goto(s, "meta")
    /\ UNCHANGED <<phase, labels, meta, shown, used, req, begun>>

StoreMap(s) ==
    /\ pc[s] = "hset"
    /\ map' = [map EXCEPT ![req[s].key] = req[s].id]
    /\ Goto(s, "meta")
    /\ UNCHANGED <<phase, labels, meta, shown, used, req, begun>>

\* Mutant of StoreMeta: the request is answered before its notification.
StoreMetaAnswering(s) ==
    /\ pc[s] = "meta"
    /\ meta' = meta \cup {req[s].id}
    /\ Goto(s, "notify spawned")
    /\ req' = [req EXCEPT ![s] = NoRequest]
    /\ UNCHANGED <<phase, labels, map, shown, used, begun>>

StoreMeta(s) ==
    /\ pc[s] = "meta"
    /\ meta' = meta \cup {req[s].id}
    /\ Goto(s, "notify spawned")
    /\ UNCHANGED <<phase, labels, map, shown, used, req, begun>>

\* Best effort; the backend names the instance in every participation of the team.
NotifySpawned(s) ==
    /\ pc[s] = "notify spawned"
    /\ shown' \in {shown, [shown EXCEPT ![TeamOf(req[s].key)] = req[s].id]}
    /\ Answer(s)
    /\ UNCHANGED <<phase, labels, map, meta, used, begun>>
-----------------------------------------------------------------------------
(* POST /api/ctf/teardown *)

FindInstance(s) ==
    /\ pc[s] = "teardown hget"
    /\ LET k == req[s].key
           i == IF req[s].id = NoId /\ k # NoKey THEN map[k] ELSE req[s].id
       IN  IF i = NoId
           THEN Answer(s)
           ELSE Goto(s, "stop") /\ req' = [req EXCEPT ![s].id = i]
    /\ UNCHANGED <<phase, labels, map, meta, shown, used, begun>>

\* stop, then remove, which may find AutoRemove at work already; a container that
\* does not run makes stop throw, and is not removed.  Or the daemon fails at once.
Stopped(i) == IF phase[i] = "running"
              THEN {[phase EXCEPT ![i] = p] : p \in {"stopped", "gone"}} ELSE {phase}

Stop(s) ==
    /\ pc[s] = "stop"
    /\ phase' \in {phase} \cup Stopped(req[s].id)
    /\ Goto(s, IF req[s].key # NoKey THEN "hdel" ELSE "del")
    /\ UNCHANGED <<labels, map, meta, shown, used, req, begun>>

DeleteMap(s) ==
    /\ pc[s] = "hdel"
    /\ map' = [map EXCEPT ![req[s].key] = NoId]
    /\ Goto(s, "del")
    /\ UNCHANGED <<phase, labels, meta, shown, used, req, begun>>

DeleteMeta(s) ==
    /\ pc[s] = "del"
    /\ meta' = meta \ {req[s].id}
    /\ Goto(s, "notify teardown")
    /\ UNCHANGED <<phase, labels, map, shown, used, req, begun>>

(* The notification names the event and the team of the request and no     *)
(* challenge.  A teardown by id may name a team without naming a key, or   *)
(* no team, and then the backend refuses the notification.                 *)
NotifyTeardown(s) ==
    /\ pc[s] = "notify teardown"
    /\ \/ UNCHANGED shown
       \/ \E t \in Teams :
            /\ req[s].key # NoKey => t = TeamOf(req[s].key)
            /\ shown' = [shown EXCEPT ![t] = NoId]
    /\ Answer(s)
    /\ UNCHANGED <<phase, labels, map, meta, used, begun>>
-----------------------------------------------------------------------------
(* POST /api/ctf/event/{eventId}/teardown-all *)

ReadKeys(s) ==
    /\ pc[s] = "hkeys"
    /\ LET found == {k \in Keys : map[k] # NoId /\ EventOf(k) = EventOf(req[s].key)}
       IN  /\ req' = [req EXCEPT ![s].keys = found]
           /\ Goto(s, IF found = {} THEN "list" ELSE "all hget")
    /\ UNCHANGED <<phase, labels, map, meta, shown, used, begun>>

\* The next key; one that has lost its instance meanwhile is skipped.
ReadKey(s) ==
    /\ pc[s] = "all hget"
    /\ \E k \in req[s].keys :
          LET rest == req[s].keys \ {k}
          IN  /\ req' = [req EXCEPT ![s].keys = rest, ![s].key = k, ![s].id = map[k]]
              /\ Goto(s, IF map[k] # NoId THEN "all stop"
                         ELSE IF rest = {} THEN "list" ELSE "all hget")
    /\ UNCHANGED <<phase, labels, map, meta, shown, used, begun>>

StopKey(s) ==
    /\ pc[s] = "all stop"
    /\ phase' \in {phase} \cup Stopped(req[s].id)
    /\ Goto(s, "all hdel")
    /\ UNCHANGED <<labels, map, meta, shown, used, req, begun>>

DeleteKey(s) ==
    /\ pc[s] = "all hdel"
    /\ map' = [map EXCEPT ![req[s].key] = NoId]
    /\ Goto(s, "all del")
    /\ UNCHANGED <<phase, labels, meta, shown, used, req, begun>>

DeleteKeyMeta(s) ==
    /\ pc[s] = "all del"
    /\ meta' = meta \ {req[s].id}
    /\ Goto(s, IF req[s].keys = {} THEN "list" ELSE "all hget")
    /\ UNCHANGED <<phase, labels, map, shown, used, req, begun>>

\* Mutant of Remaining: only the containers the map names.
RemainingMapped(e) == {i \in Ids : Exists(i) /\ map[labels[i]] = i /\ EventOf(labels[i]) = e}

\* The containers with the event's label, running or not.
Remaining(e) == {i \in Ids : Exists(i) /\ EventOf(labels[i]) = e}

ListRemaining(s) ==
    /\ pc[s] = "list"
    /\ LET found == Remaining(EventOf(req[s].key))
       IN  /\ req' = [req EXCEPT ![s].todo = found,
                                 ![s].listed = {i \in Ids : phase[i] = "running"
                                                   /\ EventOf(labels[i]) = EventOf(req[s].key)}]
           /\ Goto(s, "stop listed")
    /\ UNCHANGED <<phase, labels, map, meta, shown, used, begun>>

StopListed(s) ==
    /\ pc[s] = "stop listed"
    /\ \E i \in req[s].todo :
          \/ /\ phase' \in Stopped(i)
             /\ req' = [req EXCEPT ![s].todo = @ \ {i}]
          \/ /\ req' = [req EXCEPT ![s].todo = @ \ {i}, ![s].failed = @ \cup {i}]
             /\ UNCHANGED phase
    /\ UNCHANGED <<labels, map, meta, shown, used, pc, begun>>

AnswerTeardownAll(s) ==
    /\ pc[s] = "stop listed"
    /\ req[s].todo = {}
    /\ Answer(s)
    /\ UNCHANGED <<phase, labels, map, meta, shown, used, begun>>
-----------------------------------------------------------------------------
\* A call to Redis or Docker throws (500), or the orchestrator restarts.
Fail(s) ==
    /\ pc[s] # "idle"
    /\ Answer(s)
    /\ UNCHANGED <<phase, labels, map, meta, shown, used, begun>>

Step(s) ==
    \/ ConsumeNonce(s, "spawn nonce", "spawn hget")
    \/ ReadMap(s) \/ Inspect(s) \/ Replace(s) \/ Create(s) \/ Start(s)
    \/ StoreMap(s) \/ StoreMeta(s) \/ NotifySpawned(s)
    \/ ConsumeNonce(s, "teardown nonce", "teardown hget")
    \/ FindInstance(s) \/ Stop(s) \/ DeleteMap(s) \/ DeleteMeta(s) \/ NotifyTeardown(s)
    \/ ReadKeys(s) \/ ReadKey(s) \/ StopKey(s) \/ DeleteKey(s) \/ DeleteKeyMeta(s)
    \/ ListRemaining(s) \/ StopListed(s) \/ AnswerTeardownAll(s)

Next ==
    \/ \E s \in Slots :
          \/ Spawn(s)
          \/ Teardown(s)
          \/ TeardownAll(s)
          \/ Step(s)
          \/ Fail(s)
    \/ \E i \in Ids : Exit(i) \/ AutoRemove(i)
    \/ NonceExpires

Spec == Init /\ [][Next]_vars
=============================================================================
