------------------------- MODULE OrchestratorProofs -------------------------
(***************************************************************************)
(* Proofs about Orchestrator, for any containers, events, teams and        *)
(* challenges, any number of requests that overlap, and any calls to Redis *)
(* and Docker that fail.                                                   *)
(***************************************************************************)
EXTENDS OrchestratorSafety, TLAPS

\* The steps at which a request has a key, a nonce and an instance: what a slot
\* writes later rests on what it read when it entered them.
HasKey == {"spawn nonce", "spawn hget", "inspect", "replace", "create", "start", "hset", "meta",
           "notify spawned", "hdel", "hkeys", "all hget", "all stop", "all hdel", "all del",
           "list", "stop listed"}
HasNonce == {"spawn nonce", "teardown nonce"}
HasId == {"inspect", "replace", "start", "hset", "meta", "notify spawned",
          "stop", "hdel", "del", "notify teardown", "all stop", "all hdel", "all del"}

RequestOK(s) ==
    /\ pc[s] # "idle" => req[s] \in Request
    /\ pc[s] \in HasKey => req[s].key \in Keys
    /\ pc[s] \in HasNonce => req[s].nonce \in Nonces
    /\ pc[s] \in HasId => req[s].id \in Ids

TypeInv == TypeOK /\ \A s \in Slots : RequestOK(s)

\* Everything about a step but the request of the slot that takes it: the request it
\* writes is well formed for the call that comes next.
LEMMA NextCall ==
    ASSUME TypeInv, NEW s \in Slots, NEW label \in PC, NEW r,
           pc' = [pc EXCEPT ![s] = label], req' = [req EXCEPT ![s] = r],
           IF label = "idle" THEN r \in Request \cup {NoRequest} ELSE r \in Request,
           label \in HasKey => r.key \in Keys,
           label \in HasNonce => r.nonce \in Nonces,
           label \in HasId => r.id \in Ids
    PROVE  /\ pc' \in [Slots -> PC]
           /\ req' \in [Slots -> Request \cup {NoRequest}]
           /\ \A p \in Slots : pc'[p] # "idle" => req'[p] # NoRequest
           /\ \A p \in Slots : RequestOK(p)'
<1>1. r \in Request \cup {NoRequest}
    OBVIOUS
<1>2. pc' \in [Slots -> PC] /\ req' \in [Slots -> Request \cup {NoRequest}]
    BY <1>1 DEF TypeInv, TypeOK
<1>3. ASSUME NEW p \in Slots
      PROVE  RequestOK(p)' /\ (pc'[p] # "idle" => req'[p] # NoRequest)
  <2>1. CASE p = s
    <3>1. pc'[p] = label /\ req'[p] = r
        BY <2>1 DEF TypeInv, TypeOK
    <3>2. label # "idle" => r \in Request /\ r # NoRequest
        BY OrchestratorAssumption
    <3> QED
        BY <3>1, <3>2 DEF RequestOK
  <2>2. CASE p # s
    <3>1. pc'[p] = pc[p] /\ req'[p] = req[p]
        BY <2>2 DEF TypeInv, TypeOK
    <3>2. RequestOK(p) /\ (pc[p] # "idle" => req[p] # NoRequest)
        BY DEF TypeInv, TypeOK
    <3> QED
        BY <3>1, <3>2 DEF RequestOK
  <2> QED
      BY <2>1, <2>2
<1> QED
    BY <1>2, <1>3

\* The same for a step that leaves the request alone, and for one that answers it.
LEMMA NextLabel ==
    ASSUME TypeInv, NEW s \in Slots, NEW label \in PC, pc[s] # "idle",
           pc' = [pc EXCEPT ![s] = label], req' = req,
           label \in HasKey => req[s].key \in Keys,
           label \in HasNonce => req[s].nonce \in Nonces,
           label \in HasId => req[s].id \in Ids
    PROVE  /\ pc' \in [Slots -> PC]
           /\ req' \in [Slots -> Request \cup {NoRequest}]
           /\ \A p \in Slots : pc'[p] # "idle" => req'[p] # NoRequest
           /\ \A p \in Slots : RequestOK(p)'
<1>1. req[s] \in Request
    BY DEF TypeInv, RequestOK
<1>2. req' = [req EXCEPT ![s] = req[s]]
    BY DEF TypeInv, TypeOK
<1> QED
    BY <1>1, <1>2, NextCall

LEMMA Answered ==
    ASSUME TypeInv, NEW s \in Slots, Answer(s)
    PROVE  /\ pc' \in [Slots -> PC]
           /\ req' \in [Slots -> Request \cup {NoRequest}]
           /\ \A p \in Slots : pc'[p] # "idle" => req'[p] # NoRequest
           /\ \A p \in Slots : RequestOK(p)'
<1>1. "idle" \in PC /\ "idle" \notin HasKey /\ "idle" \notin HasNonce /\ "idle" \notin HasId
    BY DEF PC, HasKey, HasNonce, HasId
<1>2. pc' = [pc EXCEPT ![s] = "idle"] /\ req' = [req EXCEPT ![s] = NoRequest]
    BY DEF Answer, Goto
<1> QED
    BY <1>1, <1>2, NextCall

LEMMA SetId ==
    ASSUME TypeInv, NEW s \in Slots, req[s] \in Request, NEW i \in Ids \cup {NoId}
    PROVE  LET r == [req[s] EXCEPT !.id = i]
           IN  /\ r \in Request /\ r.id = i /\ r.key = req[s].key
               /\ [req EXCEPT ![s].id = i] = [req EXCEPT ![s] = r]
<1> DEFINE r == [req[s] EXCEPT !.id = i]
<1>1. r \in Request /\ r.id = i /\ r.key = req[s].key
    BY DEF Request
<1>2. [req EXCEPT ![s].id = i] = [req EXCEPT ![s] = r]
    BY DEF TypeInv, TypeOK
<1> QED
    BY <1>1, <1>2

\* The requests that teardown-all goes on with.
LEMMA AfterReadKeys ==
    ASSUME TypeInv, NEW s \in Slots, ReadKeys(s)
    PROVE  \E r \in Request : /\ req' = [req EXCEPT ![s] = r] /\ r.key = req[s].key
<1>1. req[s] \in Request
    BY DEF TypeInv, RequestOK, ReadKeys
<1> DEFINE found == {k \in Keys : map[k] # NoId /\ EventOf(k) = EventOf(req[s].key)}
           r == [req[s] EXCEPT !.keys = found]
<1>2. found \subseteq Keys /\ req' = [req EXCEPT ![s] = r]
    BY DEF TypeInv, TypeOK, ReadKeys
<1> HIDE DEF found
<1>3. r \in Request /\ r.key = req[s].key
    BY <1>1, <1>2 DEF Request
<1> HIDE DEF r
<1> QED
    BY <1>2, <1>3

LEMMA AfterReadKey ==
    ASSUME TypeInv, NEW s \in Slots, ReadKey(s)
    PROVE  \E r \in Request :
              /\ req' = [req EXCEPT ![s] = r] /\ r.key \in Keys /\ r.id = map[r.key]
              /\ pc' = [pc EXCEPT ![s] = IF r.id # NoId THEN "all stop"
                                         ELSE IF r.keys = {} THEN "list" ELSE "all hget"]
<1>1. req[s] \in Request
    BY DEF TypeInv, RequestOK, ReadKey
<1>2. PICK k \in req[s].keys :
          LET rest == req[s].keys \ {k}
          IN  /\ req' = [req EXCEPT ![s].keys = rest, ![s].key = k, ![s].id = map[k]]
              /\ pc' = [pc EXCEPT ![s] = IF map[k] # NoId THEN "all stop"
                                         ELSE IF rest = {} THEN "list" ELSE "all hget"]
    BY DEF ReadKey, Goto
<1>3. k \in Keys /\ map[k] \in Ids \cup {NoId} /\ req[s].keys \ {k} \subseteq Keys
    BY <1>1 DEF Request, TypeInv, TypeOK
<1> DEFINE i == map[k]
           r == [req[s] EXCEPT !.keys = req[s].keys \ {k}, !.key = k, !.id = i]
<1>4. req' = [req EXCEPT ![s] = r]
    BY <1>2 DEF TypeInv, TypeOK
<1> HIDE DEF i
<1>5. r \in Request /\ r.key = k /\ r.id = i /\ r.keys = req[s].keys \ {k}
    BY <1>1, <1>3 DEF Request, i
<1> HIDE DEF r
<1> QED
    BY <1>2, <1>3, <1>4, <1>5 DEF i

LEMMA AfterListRemaining ==
    ASSUME TypeInv, NEW s \in Slots, ListRemaining(s)
    PROVE  \E r \in Request :
              /\ req' = [req EXCEPT ![s] = r] /\ r.key = req[s].key
              /\ r.todo = Remaining(EventOf(req[s].key))
              /\ r.listed = {i \in Ids : phase[i] = "running"
                                         /\ EventOf(labels[i]) = EventOf(req[s].key)}
<1>1. req[s] \in Request
    BY DEF TypeInv, RequestOK, ListRemaining
<1> DEFINE found == Remaining(EventOf(req[s].key))
           listed == {i \in Ids : phase[i] = "running" /\ EventOf(labels[i]) = EventOf(req[s].key)}
           r == [req[s] EXCEPT !.todo = found, !.listed = listed]
<1>2. req' = [req EXCEPT ![s] = r]
    BY DEF TypeInv, TypeOK, ListRemaining
<1>3. found \subseteq Ids /\ listed \subseteq Ids
    BY DEF Remaining
<1> HIDE DEF found, listed
<1>4. r \in Request /\ r.key = req[s].key /\ r.todo = found /\ r.listed = listed
    BY <1>1, <1>3 DEF Request
<1> HIDE DEF r
<1> QED
    BY <1>2, <1>4 DEF found, listed

LEMMA AfterStopListed ==
    ASSUME TypeInv, NEW s \in Slots, StopListed(s)
    PROVE  \E r \in Request, i \in req[s].todo :
              /\ req' = [req EXCEPT ![s] = r] /\ r.key = req[s].key
              /\ r.todo = req[s].todo \ {i} /\ r.listed = req[s].listed /\ i \in Ids
              /\ \/ phase' \in Stopped(i) /\ r.failed = req[s].failed
                 \/ phase' = phase /\ r.failed = req[s].failed \cup {i}
<1>1. req[s] \in Request
    BY DEF TypeInv, RequestOK, StopListed
<1>2. PICK i \in req[s].todo :
          \/ /\ phase' \in Stopped(i)
             /\ req' = [req EXCEPT ![s].todo = @ \ {i}]
          \/ /\ req' = [req EXCEPT ![s].todo = @ \ {i}, ![s].failed = @ \cup {i}]
             /\ UNCHANGED phase
    BY DEF StopListed
<1>3. i \in Ids
    BY <1>1 DEF Request
<1>4. CASE phase' \in Stopped(i) /\ req' = [req EXCEPT ![s].todo = @ \ {i}]
  <2> DEFINE r == [req[s] EXCEPT !.todo = @ \ {i}]
  <2>1. req' = [req EXCEPT ![s] = r]
      BY <1>4 DEF TypeInv, TypeOK
  <2>2. /\ r \in Request /\ r.key = req[s].key /\ r.todo = req[s].todo \ {i}
        /\ r.listed = req[s].listed /\ r.failed = req[s].failed
      BY <1>1 DEF Request
  <2> HIDE DEF r
  <2> QED
      BY <1>3, <1>4, <2>1, <2>2
<1>5. CASE phase' = phase /\ req' = [req EXCEPT ![s].todo = @ \ {i}, ![s].failed = @ \cup {i}]
  <2> DEFINE r == [req[s] EXCEPT !.todo = @ \ {i}, !.failed = @ \cup {i}]
  <2>1. req' = [req EXCEPT ![s] = r]
      BY <1>5 DEF TypeInv, TypeOK
  <2>2. /\ r \in Request /\ r.key = req[s].key /\ r.todo = req[s].todo \ {i}
        /\ r.listed = req[s].listed /\ r.failed = req[s].failed \cup {i}
      BY <1>1, <1>3 DEF Request
  <2> HIDE DEF r
  <2> QED
      BY <1>3, <1>5, <2>1, <2>2
<1> QED
    BY <1>2, <1>4, <1>5
-----------------------------------------------------------------------------
\* The part of the type invariant that is about Docker, Redis and the backend.
StoreType ==
    /\ phase \in [Ids -> Phases]
    /\ labels \in [Ids -> Keys \cup {NoKey}]
    /\ map \in [Keys -> Ids \cup {NoId}]
    /\ meta \subseteq Ids
    /\ shown \in [Teams -> Ids \cup {NoId}]
    /\ used \subseteq Nonces
    /\ begun \in Nat

LEMMA StopType ==
    ASSUME TypeInv, NEW i, phase' \in {phase} \cup Stopped(i)
    PROVE  phase' \in [Ids -> Phases]
BY DEF TypeInv, TypeOK, Stopped, Phases

LEMMA StoreTypeStep ==
    ASSUME TypeInv, [Next]_vars
    PROVE  StoreType'
<1> USE DEF TypeInv, StoreType
<1>0. StoreType
    BY DEF TypeOK
<1>1. ASSUME NEW s \in Slots, Spawn(s) \/ Teardown(s) \/ TeardownAll(s)
      PROVE  StoreType'
  <2>1. ASSUME NEW label, NEW r, Begin(s, label, r)
        PROVE  StoreType'
      BY <1>0, <2>1 DEF Begin
  <2>2. \E label, r : Begin(s, label, r)
      BY <1>1, Zenon DEF Spawn, Teardown, TeardownAll
  <2> QED
      BY <2>1, <2>2
<1>2. ASSUME NEW s \in Slots, ConsumeNonce(s, "spawn nonce", "spawn hget")
                              \/ ConsumeNonce(s, "teardown nonce", "teardown hget")
      PROVE  StoreType'
  <2>1. req[s].nonce \in Nonces
      BY <1>2 DEF ConsumeNonce, RequestOK, HasNonce
  <2> QED
      BY <1>0, <1>2, <2>1 DEF ConsumeNonce
<1>3. ASSUME NEW s \in Slots, ReadMap(s) \/ Inspect(s) \/ FindInstance(s) \/ ReadKeys(s)
                              \/ ReadKey(s) \/ ListRemaining(s) \/ AnswerTeardownAll(s) \/ Fail(s)
      PROVE  StoreType'
    BY <1>0, <1>3 DEF ReadMap, Inspect, FindInstance, ReadKeys, ReadKey, ListRemaining,
                      AnswerTeardownAll, Fail
<1>4. ASSUME NEW s \in Slots, Replace(s) \/ Start(s)
      PROVE  StoreType'
  <2>1. phase' \in [Ids -> Phases]
    <3>1. CASE Replace(s)
        BY <1>0, <3>1 DEF Replace, Phases
    <3>2. CASE Start(s)
        BY <1>0, <3>2 DEF Start, Phases
    <3> QED
        BY <1>4, <3>1, <3>2
  <2> QED
      BY <1>0, <1>4, <2>1 DEF Replace, Start
<1>5. ASSUME NEW s \in Slots, Create(s)
      PROVE  StoreType'
  <2>1. req[s].key \in Keys
      BY <1>5 DEF Create, RequestOK, HasKey
  <2> QED
      BY <1>0, <1>5, <2>1 DEF Create, Phases
<1>6. ASSUME NEW s \in Slots, StoreMap(s) \/ StoreMeta(s) \/ NotifySpawned(s)
      PROVE  StoreType'
  <2>1. req[s].id \in Ids
      BY <1>6 DEF StoreMap, StoreMeta, NotifySpawned, RequestOK, HasId
  <2> QED
      BY <1>0, <1>6, <2>1 DEF StoreMap, StoreMeta, NotifySpawned
<1>7. ASSUME NEW s \in Slots, Stop(s) \/ StopKey(s) \/ StopListed(s)
      PROVE  StoreType'
  <2>1. \E i \in Ids : phase' \in {phase} \cup Stopped(i)
    <3>1. CASE Stop(s) \/ StopKey(s)
      <4>1. req[s].id \in Ids
          BY <3>1 DEF Stop, StopKey, RequestOK, HasId
      <4> QED
          BY <3>1, <4>1 DEF Stop, StopKey
    <3>2. CASE StopListed(s)
        BY <3>2, AfterStopListed
    <3> QED
        BY <1>7, <3>1, <3>2
  <2>2. phase' \in [Ids -> Phases]
      BY <2>1, StopType
  <2> QED
      BY <1>0, <1>7, <2>2 DEF Stop, StopKey, StopListed
<1>8. ASSUME NEW s \in Slots, DeleteMap(s) \/ DeleteMeta(s) \/ NotifyTeardown(s)
                              \/ DeleteKey(s) \/ DeleteKeyMeta(s)
      PROVE  StoreType'
    BY <1>0, <1>8 DEF DeleteMap, DeleteMeta, NotifyTeardown, DeleteKey, DeleteKeyMeta
<1>9. ASSUME NEW i \in Ids, Exit(i) \/ AutoRemove(i)
      PROVE  StoreType'
    BY <1>0, <1>9 DEF Exit, AutoRemove, Phases
<1>10. CASE NonceExpires
    BY <1>0, <1>10 DEF NonceExpires
<1>11. CASE UNCHANGED vars
    BY <1>0, <1>11 DEF vars
<1> QED
    BY <1>1, <1>2, <1>3, <1>4, <1>5, <1>6, <1>7, <1>8, <1>9, <1>10, <1>11 DEF Next, Step

LEMMA RequestsStep ==
    ASSUME TypeInv, [Next]_vars
    PROVE  /\ pc' \in [Slots -> PC]
           /\ req' \in [Slots -> Request \cup {NoRequest}]
           /\ \A p \in Slots : pc'[p] # "idle" => req'[p] # NoRequest
           /\ \A p \in Slots : RequestOK(p)'
<1> DEFINE Good == /\ pc' \in [Slots -> PC]
                   /\ req' \in [Slots -> Request \cup {NoRequest}]
                   /\ \A p \in Slots : pc'[p] # "idle" => req'[p] # NoRequest
                   /\ \A p \in Slots : RequestOK(p)'
<1>1. ASSUME NEW s \in Slots, Spawn(s) \/ Teardown(s) \/ TeardownAll(s)
      PROVE  Good
  <2>1. PICK label \in {"spawn nonce", "teardown nonce", "hkeys"}, k \in Keys \cup {NoKey},
             n \in Nonces \cup {NoNonce}, i \in Ids \cup {NoId} :
                 /\ label # "teardown nonce" => k \in Keys
                 /\ label # "hkeys" => n \in Nonces
                 /\ Begin(s, label, NewRequest(k, n, i))
    <3>1. CASE Spawn(s)
        BY <3>1 DEF Spawn
    <3>2. CASE Teardown(s)
        BY <3>2 DEF Teardown
    <3>3. CASE TeardownAll(s)
        BY <3>3 DEF TeardownAll
    <3> QED
        BY <1>1, <3>1, <3>2, <3>3
  <2> DEFINE r == NewRequest(k, n, i)
  <2>2. r \in Request /\ r.key = k /\ r.nonce = n
      BY <2>1 DEF NewRequest, Request
  <2>3. pc' = [pc EXCEPT ![s] = label] /\ req' = [req EXCEPT ![s] = r]
      BY <2>1 DEF Begin, Goto
  <2>4. /\ label \in PC /\ label # "idle" /\ label \notin HasId
        /\ label \in HasKey => label # "teardown nonce"
        /\ label \in HasNonce => label # "hkeys"
      BY DEF PC, HasKey, HasNonce, HasId
  <2> HIDE DEF r
  <2> QED
      BY <2>1, <2>2, <2>3, <2>4, NextCall
<1>2. ASSUME NEW s \in Slots, NEW label, NEW next \in PC, ConsumeNonce(s, label, next),
             label # "idle", next \in HasKey => label \in HasKey,
             next \notin HasNonce, next \notin HasId
      PROVE  Good
  <2>1. CASE Answer(s)
      BY <2>1, Answered
  <2>2. CASE pc' = [pc EXCEPT ![s] = next] /\ req' = req
    <3>1. pc[s] = label /\ (label \in HasKey => req[s].key \in Keys)
        BY <1>2 DEF ConsumeNonce, TypeInv, RequestOK
    <3> QED
        BY <1>2, <2>2, <3>1, NextLabel
  <2> QED
      BY <1>2, <2>1, <2>2 DEF ConsumeNonce, Goto
<1>3. ASSUME NEW s \in Slots, ReadMap(s)
      PROVE  Good
  <2>1. pc[s] = "spawn hget" /\ req[s].key \in Keys
      BY <1>3 DEF ReadMap, TypeInv, RequestOK, HasKey
  <2> DEFINE i == map[req[s].key]
             label == IF i = NoId THEN "create" ELSE "inspect"
  <2>2. i \in Ids \cup {NoId}
      BY <2>1 DEF TypeInv, TypeOK
  <2>3. pc' = [pc EXCEPT ![s] = label] /\ req' = [req EXCEPT ![s].id = i]
      BY <1>3 DEF ReadMap, Goto
  <2> HIDE DEF i
  <2> DEFINE r == [req[s] EXCEPT !.id = i]
  <2>4. r \in Request /\ req' = [req EXCEPT ![s] = r] /\ r.id = i /\ r.key = req[s].key
    <3>1. req[s] \in Request
        BY <2>1 DEF TypeInv, RequestOK
    <3> QED
        BY <2>2, <2>3, <3>1, SetId
  <2> HIDE DEF r
  <2>5. label \in PC /\ label # "idle" /\ label \notin HasNonce /\ (label \in HasId => i \in Ids)
      BY <2>2 DEF PC, HasNonce, HasId
  <2> HIDE DEF label
  <2> QED
      BY <2>1, <2>3, <2>4, <2>5, NextCall
<1>4. ASSUME NEW s \in Slots, NEW label \in PC, pc[s] # "idle",
             pc' = [pc EXCEPT ![s] = label], req' = req, label \notin HasNonce,
             label \in HasKey => pc[s] \in HasKey \/ req[s].key \in Keys,
             label \in HasId => pc[s] \in HasId
      PROVE  Good
  <2>1. /\ pc[s] \in HasKey => req[s].key \in Keys
        /\ pc[s] \in HasId => req[s].id \in Ids
      BY DEF TypeInv, RequestOK
  <2> QED
      BY <1>4, <2>1, NextLabel
<1>5. ASSUME NEW s \in Slots, Answer(s)
      PROVE  Good
    BY <1>5, Answered
<1>6. ASSUME NEW s \in Slots, Create(s)
      PROVE  Good
  <2>1. CASE Answer(s)
      BY <2>1, <1>5
  <2>2. ASSUME NEW i \in Ids, req' = [req EXCEPT ![s].id = i], Goto(s, "start")
        PROVE  Good
    <3>1. pc[s] # "idle" /\ req[s].key \in Keys
        BY <1>6 DEF Create, TypeInv, RequestOK, HasKey
    <3> DEFINE r == [req[s] EXCEPT !.id = i]
    <3>2. r \in Request /\ req' = [req EXCEPT ![s] = r] /\ r.id = i /\ r.key = req[s].key
      <4>1. req[s] \in Request
          BY <3>1 DEF TypeInv, RequestOK
      <4> QED
          BY <2>2, <4>1, SetId
    <3> HIDE DEF r
    <3>3. "start" \in PC /\ "start" \notin HasNonce
        BY DEF PC, HasNonce
    <3> QED
        BY <2>2, <3>1, <3>2, <3>3, NextCall DEF Goto
  <2> QED
      BY <1>6, <2>1, <2>2 DEF Create
<1>7. ASSUME NEW s \in Slots, FindInstance(s)
      PROVE  Good
  <2>1. CASE Answer(s)
      BY <2>1, <1>5
  <2>2. CASE ~Answer(s)
    <3> DEFINE k == req[s].key
               i == IF req[s].id = NoId /\ k # NoKey THEN map[k] ELSE req[s].id
    <3>1. i # NoId /\ pc' = [pc EXCEPT ![s] = "stop"] /\ req' = [req EXCEPT ![s].id = i]
          /\ pc[s] # "idle"
        BY <1>7, <2>2 DEF FindInstance, Goto
    <3>2. req[s] \in Request
        BY <3>1 DEF TypeInv, RequestOK
    <3>3. i \in Ids
        BY <3>1, <3>2 DEF Request, TypeInv, TypeOK
    <3> HIDE DEF i
    <3> DEFINE r == [req[s] EXCEPT !.id = i]
    <3>4. r \in Request /\ req' = [req EXCEPT ![s] = r] /\ r.id = i
        BY <3>1, <3>2, <3>3, SetId
    <3> HIDE DEF r
    <3>5. "stop" \in PC /\ "stop" \notin HasNonce /\ "stop" \notin HasKey
        BY DEF PC, HasNonce, HasKey
    <3> QED
        BY <3>1, <3>3, <3>4, <3>5, NextCall
  <2> QED
      BY <2>1, <2>2
<1>8. ASSUME NEW s \in Slots, ReadKeys(s)
      PROVE  Good
  <2>1. req[s].key \in Keys
      BY <1>8 DEF ReadKeys, TypeInv, RequestOK, HasKey
  <2>2. PICK r \in Request : req' = [req EXCEPT ![s] = r] /\ r.key = req[s].key
      BY <1>8, AfterReadKeys
  <2>3. PICK label \in {"list", "all hget"} : pc' = [pc EXCEPT ![s] = label]
      BY <1>8 DEF ReadKeys, Goto
  <2>4. label \in PC /\ label \notin HasNonce /\ label \notin HasId
      BY DEF PC, HasNonce, HasId
  <2> QED
      BY <2>1, <2>2, <2>3, <2>4, NextCall
<1>9. ASSUME NEW s \in Slots, ReadKey(s)
      PROVE  Good
  <2>1. PICK r \in Request :
            /\ req' = [req EXCEPT ![s] = r] /\ r.key \in Keys /\ r.id = map[r.key]
            /\ pc' = [pc EXCEPT ![s] = IF r.id # NoId THEN "all stop"
                                       ELSE IF r.keys = {} THEN "list" ELSE "all hget"]
      BY <1>9, AfterReadKey
  <2> DEFINE label == IF r.id # NoId THEN "all stop" ELSE IF r.keys = {} THEN "list" ELSE "all hget"
  <2>2. r.id \in Ids \cup {NoId}
      BY <2>1 DEF TypeInv, TypeOK
  <2>3. label \in PC /\ label \notin HasNonce /\ (label \in HasId => r.id \in Ids)
      BY <2>2 DEF PC, HasNonce, HasId
  <2>4. pc' = [pc EXCEPT ![s] = label]
      BY <2>1
  <2> HIDE DEF label
  <2> QED
      BY <2>1, <2>3, <2>4, NextCall
<1>10. ASSUME NEW s \in Slots, ListRemaining(s)
       PROVE  Good
  <2>1. req[s].key \in Keys
      BY <1>10 DEF ListRemaining, TypeInv, RequestOK, HasKey
  <2>2. PICK r \in Request : req' = [req EXCEPT ![s] = r] /\ r.key = req[s].key
      BY <1>10, AfterListRemaining
  <2>3. pc' = [pc EXCEPT ![s] = "stop listed"]
      BY <1>10 DEF ListRemaining, Goto
  <2>4. "stop listed" \in PC /\ "stop listed" \notin HasNonce /\ "stop listed" \notin HasId
      BY DEF PC, HasNonce, HasId
  <2> QED
      BY <2>1, <2>2, <2>3, <2>4, NextCall
<1>11. ASSUME NEW s \in Slots, StopListed(s)
       PROVE  Good
  <2>1. pc[s] = "stop listed" /\ req[s].key \in Keys
      BY <1>11 DEF StopListed, TypeInv, RequestOK, HasKey
  <2>2. PICK r \in Request : req' = [req EXCEPT ![s] = r] /\ r.key = req[s].key
      BY <1>11, AfterStopListed
  <2>3. pc' = [pc EXCEPT ![s] = "stop listed"]
      BY <1>11, <2>1 DEF StopListed, TypeInv, TypeOK
  <2>4. "stop listed" \in PC /\ "stop listed" \notin HasNonce /\ "stop listed" \notin HasId
      BY DEF PC, HasNonce, HasId
  <2> QED
      BY <2>1, <2>2, <2>3, <2>4, NextCall
<1>12. ASSUME NEW s \in Slots, Inspect(s) \/ Replace(s) \/ Start(s) \/ StoreMap(s) \/ StoreMeta(s)
       PROVE  Good
  <2>1. \/ Answer(s)
        \/ /\ req' = req
           /\ \E label \in {"replace", "create", "hset", "meta", "notify spawned"} :
                 pc' = [pc EXCEPT ![s] = label]
      BY <1>12 DEF Inspect, Replace, Start, StoreMap, StoreMeta, Goto
  <2>2. pc[s] \in {"inspect", "replace", "start", "hset", "meta"}
      BY <1>12 DEF Inspect, Replace, Start, StoreMap, StoreMeta
  <2>3. pc[s] # "idle" /\ pc[s] \in HasKey /\ pc[s] \in HasId
      BY <2>2 DEF HasKey, HasId
  <2>4. \A label \in {"replace", "create", "hset", "meta", "notify spawned"} :
            label \in PC /\ label \notin HasNonce
      BY DEF PC, HasNonce
  <2> QED
      BY <2>1, <2>3, <2>4, <1>4, <1>5
<1>13. ASSUME NEW s \in Slots, Stop(s) \/ DeleteMap(s) \/ DeleteMeta(s)
       PROVE  Good
  <2>1. req' = req /\ pc[s] \in {"stop", "hdel", "del"} /\ req[s] \in Request
      BY <1>13 DEF Stop, DeleteMap, DeleteMeta, TypeInv, RequestOK
  <2>2. PICK label \in {"hdel", "del", "notify teardown"} :
            /\ pc' = [pc EXCEPT ![s] = label]
            /\ label = "hdel" => req[s].key # NoKey
      BY <1>13 DEF Stop, DeleteMap, DeleteMeta, Goto
  <2>3. pc[s] \in HasId /\ pc[s] # "idle"
      BY <2>1 DEF HasId
  <2>4. label \in PC /\ label \notin HasNonce /\ (label \in HasKey => label = "hdel")
      BY DEF PC, HasNonce, HasKey
  <2>5. req[s].key # NoKey => req[s].key \in Keys
      BY <2>1 DEF Request
  <2> QED
      BY <2>1, <2>2, <2>3, <2>4, <2>5, <1>4
<1>14. ASSUME NEW s \in Slots, StopKey(s) \/ DeleteKey(s) \/ DeleteKeyMeta(s)
       PROVE  Good
  <2>1. req' = req /\ pc[s] \in {"all stop", "all hdel", "all del"}
      BY <1>14 DEF StopKey, DeleteKey, DeleteKeyMeta
  <2>2. PICK label \in {"all hdel", "all del", "list", "all hget"} : pc' = [pc EXCEPT ![s] = label]
      BY <1>14 DEF StopKey, DeleteKey, DeleteKeyMeta, Goto
  <2>3. pc[s] \in HasId /\ pc[s] \in HasKey /\ pc[s] # "idle"
      BY <2>1 DEF HasId, HasKey
  <2>4. label \in PC /\ label \notin HasNonce
      BY DEF PC, HasNonce
  <2> QED
      BY <2>1, <2>2, <2>3, <2>4, <1>4
<1>15. ASSUME NEW s \in Slots,
              NotifySpawned(s) \/ NotifyTeardown(s) \/ AnswerTeardownAll(s) \/ Fail(s)
       PROVE  Good
    BY <1>15, <1>5 DEF NotifySpawned, NotifyTeardown, AnswerTeardownAll, Fail
<1>16. ASSUME pc' = pc, req' = req
       PROVE  Good
    BY <1>16 DEF TypeInv, TypeOK, RequestOK
<1>17. ASSUME NEW s \in Slots, ConsumeNonce(s, "spawn nonce", "spawn hget")
                               \/ ConsumeNonce(s, "teardown nonce", "teardown hget")
       PROVE  Good
  <2>1. /\ "spawn hget" \in PC \ (HasNonce \cup HasId) /\ "teardown hget" \in PC \ (HasNonce \cup HasId)
        /\ "spawn nonce" \in HasKey /\ "teardown hget" \notin HasKey
      BY DEF PC, HasKey, HasNonce, HasId
  <2> QED
      BY <1>17, <2>1, <1>2
<1>18. ASSUME NEW s \in Slots, Step(s)
       PROVE  Good
    BY <1>18, <1>3, <1>6, <1>7, <1>8, <1>9, <1>10, <1>11, <1>12, <1>13, <1>14, <1>15, <1>17
       DEF Step
<1>19. ((\E i \in Ids : Exit(i) \/ AutoRemove(i)) \/ NonceExpires \/ UNCHANGED vars)
           => pc' = pc /\ req' = req
    BY DEF Exit, AutoRemove, NonceExpires, vars
<1> HIDE DEF Good
<1>20. Good
    BY <1>1, <1>15, <1>16, <1>18, <1>19 DEF Next
<1> QED
    BY <1>20 DEF Good

LEMMA TypeInvStep ==
    ASSUME TypeInv, [Next]_vars
    PROVE  TypeInv'
<1>1. StoreType'
    BY StoreTypeStep
<1> QED
    BY <1>1, RequestsStep DEF TypeInv, TypeOK, StoreType

LEMMA TypeInvHolds == Spec => []TypeInv
<1>1. Init => TypeInv
    BY DEF Init, TypeInv, TypeOK, RequestOK, Phases, PC, HasKey, HasNonce, HasId
<1>2. TypeInv /\ [Next]_vars => TypeInv'
    BY TypeInvStep
<1> QED
    BY <1>1, <1>2, PTL DEF Spec

\* The type invariant of the containers, the instance map, the metadata and the
\* requests in flight (orchestrator.ts, the spawn, teardown and teardown-all handlers).
THEOREM OrchestratorTypeCorrect == Spec => []TypeOK
<1>1. TypeInv => TypeOK
    BY DEF TypeInv
<1> QED
    BY <1>1, TypeInvHolds, PTL
-----------------------------------------------------------------------------
(* The life of a container. *)

Started == {"running", "stopped", "gone"}
Ended == {"stopped", "gone"}

\* What a step does to the containers: Docker creates one under a name that is free,
\* starts one it created, or stops or removes one.
CreateFor(i, k) ==
    /\ phase[i] = "none"
    /\ ~NameTaken(k)
    /\ phase' = [phase EXCEPT ![i] = "created"]
    /\ labels' = [labels EXCEPT ![i] = k]

StartOne(i) ==
    /\ phase[i] = "created"
    /\ phase' = [phase EXCEPT ![i] = "running"]
    /\ labels' = labels

EndOne(i) ==
    /\ \/ phase[i] = "running" /\ phase' = [phase EXCEPT ![i] = "stopped"]
       \/ Exists(i) /\ phase' = [phase EXCEPT ![i] = "gone"]
    /\ labels' = labels

\* Stopping a container ends it or leaves it alone.
LEMMA StoppedEnds ==
    ASSUME TypeInv, NEW i \in Ids, phase' \in {phase} \cup Stopped(i), labels' = labels
    PROVE  phase' = phase \/ EndOne(i)
BY DEF Stopped, EndOne, Exists

LEMMA DockerSteps ==
    ASSUME TypeInv, [Next]_vars
    PROVE  \/ phase' = phase /\ labels' = labels
           \/ \E i \in Ids, k \in Keys :
                 CreateFor(i, k) /\ UNCHANGED <<map, meta, shown>>
           \/ \E i \in Ids : (StartOne(i) \/ EndOne(i)) /\ UNCHANGED <<map, meta, shown>>
<1> DEFINE Docker == \/ phase' = phase /\ labels' = labels
                     \/ \E i \in Ids, k \in Keys :
                           CreateFor(i, k) /\ UNCHANGED <<map, meta, shown>>
                     \/ \E i \in Ids : (StartOne(i) \/ EndOne(i)) /\ UNCHANGED <<map, meta, shown>>
<1>1. ASSUME NEW s \in Slots, Create(s)
      PROVE  Docker
  <2>1. req[s].key \in Keys
      BY <1>1 DEF Create, TypeInv, RequestOK, HasKey
  <2>2. CASE phase' = phase /\ labels' = labels
      BY <2>2
  <2>3. ASSUME ~NameTaken(req[s].key), NEW i \in Ids, phase[i] = "none",
               phase' = [phase EXCEPT ![i] = "created"],
               labels' = [labels EXCEPT ![i] = req[s].key]
        PROVE  Docker
    <3>1. CreateFor(i, req[s].key) /\ UNCHANGED <<map, meta, shown>>
        BY <1>1, <2>3 DEF CreateFor, Create
    <3> QED
        BY <2>1, <3>1
  <2> QED
      BY <1>1, <2>2, <2>3 DEF Create
<1>2. ASSUME NEW s \in Slots, Start(s)
      PROVE  Docker
  <2>1. req[s].id \in Ids
      BY <1>2 DEF Start, TypeInv, RequestOK, HasId
  <2> QED
      BY <1>2, <2>1 DEF Start, StartOne
<1>3. ASSUME NEW s \in Slots, Replace(s)
      PROVE  Docker
  <2>1. req[s].id \in Ids
      BY <1>3 DEF Replace, TypeInv, RequestOK, HasId
  <2> QED
      BY <1>3, <2>1 DEF Replace, EndOne
<1>4. ASSUME NEW s \in Slots, Stop(s) \/ StopKey(s)
      PROVE  Docker
  <2>1. req[s].id \in Ids
      BY <1>4 DEF Stop, StopKey, TypeInv, RequestOK, HasId
  <2>2. phase' = phase \/ EndOne(req[s].id)
      BY <1>4, <2>1, StoppedEnds DEF Stop, StopKey
  <2> QED
      BY <1>4, <2>1, <2>2 DEF Stop, StopKey
<1>5. ASSUME NEW s \in Slots, StopListed(s)
      PROVE  Docker
  <2>1. PICK i \in Ids : phase' \in {phase} \cup Stopped(i)
      BY <1>5, AfterStopListed
  <2>2. phase' = phase \/ EndOne(i)
      BY <1>5, <2>1, StoppedEnds DEF StopListed
  <2> QED
      BY <1>5, <2>2 DEF StopListed
<1>6. ASSUME NEW i \in Ids, Exit(i) \/ AutoRemove(i)
      PROVE  Docker
    BY <1>6 DEF Exit, AutoRemove, EndOne, Exists
<1>7. ASSUME NEW s \in Slots, NEW label, NEW next, ConsumeNonce(s, label, next)
      PROVE  Docker
    BY <1>7 DEF ConsumeNonce
<1>8. ASSUME NEW s \in Slots, \/ Spawn(s) \/ Teardown(s) \/ TeardownAll(s) \/ ReadMap(s) \/ Inspect(s)
                              \/ StoreMap(s) \/ StoreMeta(s) \/ NotifySpawned(s)
                              \/ FindInstance(s) \/ DeleteMap(s) \/ DeleteMeta(s)
                              \/ NotifyTeardown(s) \/ ReadKeys(s) \/ ReadKey(s) \/ DeleteKey(s)
                              \/ DeleteKeyMeta(s) \/ ListRemaining(s) \/ AnswerTeardownAll(s)
                              \/ Fail(s)
      PROVE  phase' = phase /\ labels' = labels
    BY <1>8 DEF Spawn, Teardown, TeardownAll, Begin, ReadMap, Inspect, StoreMap, StoreMeta,
                NotifySpawned, FindInstance, DeleteMap, DeleteMeta, NotifyTeardown, ReadKeys,
                ReadKey, DeleteKey, DeleteKeyMeta, ListRemaining, AnswerTeardownAll, Fail
<1>9. NonceExpires \/ UNCHANGED vars => phase' = phase /\ labels' = labels
    BY DEF NonceExpires, vars
<1>10. phase' = phase /\ labels' = labels => Docker
    OBVIOUS
<1> HIDE DEF Docker
<1>11. Docker
    BY <1>1, <1>2, <1>3, <1>4, <1>5, <1>6, <1>7, <1>8, <1>9, <1>10 DEF Next, Step
<1> QED
    BY <1>11 DEF Docker

\* A container keeps the labels it was created with, and its phase only moves on.
LEMMA PhaseForward ==
    ASSUME TypeInv, [Next]_vars, NEW i \in Ids, phase[i] # "none"
    PROVE  /\ phase'[i] # "none" /\ labels'[i] = labels[i]
           /\ phase[i] \in Started => phase'[i] \in Started
           /\ phase[i] \in Ended => phase'[i] \in Ended
<1>1. ASSUME NEW j \in Ids, NEW k \in Keys, CreateFor(j, k)
      PROVE  phase'[i] = phase[i] /\ labels'[i] = labels[i]
    BY <1>1 DEF CreateFor, TypeInv, TypeOK
<1>2. ASSUME NEW j \in Ids, StartOne(j) \/ EndOne(j)
      PROVE  /\ labels'[i] = labels[i]
             /\ phase'[i] = phase[i] \/ (phase[i] = "created" /\ phase'[i] = "running")
                                     \/ phase'[i] \in {"stopped", "gone"}
    BY <1>2 DEF StartOne, EndOne, TypeInv, TypeOK
<1> QED
    BY <1>1, <1>2, DockerSteps DEF Started, Ended, TypeInv, TypeOK, Phases
-----------------------------------------------------------------------------
(* What the map, the metadata and the backend name. *)

LifeInv ==
    /\ \A i \in Ids : phase[i] # "none" => labels[i] \in Keys
    /\ \A k \in Keys : map[k] # NoId => phase[map[k]] # "none" /\ labels[map[k]] = k
    /\ \A s \in Slots :
          pc[s] \in {"start", "hset", "meta", "notify spawned"} =>
              phase[req[s].id] # "none" /\ labels[req[s].id] = req[s].key
    /\ \A s \in Slots :
          pc[s] \in {"hset", "meta", "notify spawned"} => phase[req[s].id] \in Started

\* The slots that stand before a store: they have just created or started the
\* container, or stood there before.
LEMMA BeforeStore ==
    ASSUME TypeInv, [Next]_vars, NEW p \in Slots,
           pc'[p] \in {"start", "hset", "meta", "notify spawned"}
    PROVE  \/ /\ pc'[p] = "start" /\ req'[p].key \in Keys /\ req'[p].id \in Ids
              /\ phase'[req'[p].id] = "created" /\ labels'[req'[p].id] = req'[p].key
           \/ /\ pc'[p] = "hset" /\ pc[p] = "start" /\ req'[p] = req[p]
              /\ phase'[req[p].id] = "running"
           \/ /\ pc'[p] \in {"meta", "notify spawned"} /\ pc[p] \in {"hset", "meta"} /\ req'[p] = req[p]
           \/ pc'[p] = pc[p] /\ req'[p] = req[p]
<1> DEFINE Arrives ==
        \/ /\ pc'[p] = "start" /\ req'[p].key \in Keys /\ req'[p].id \in Ids
           /\ phase'[req'[p].id] = "created" /\ labels'[req'[p].id] = req'[p].key
        \/ /\ pc'[p] = "hset" /\ pc[p] = "start" /\ req'[p] = req[p]
           /\ phase'[req[p].id] = "running"
        \/ /\ pc'[p] \in {"meta", "notify spawned"} /\ pc[p] \in {"hset", "meta"} /\ req'[p] = req[p]
        \/ pc'[p] = pc[p] /\ req'[p] = req[p]
<1>1. ASSUME NEW s \in Slots, Create(s)
      PROVE  Arrives
  <2>1. CASE Answer(s)
      BY <2>1 DEF Answer, Goto, TypeInv, TypeOK
  <2>2. ASSUME NEW i \in Ids, req' = [req EXCEPT ![s].id = i], Goto(s, "start"),
               phase' = [phase EXCEPT ![i] = "created"],
               labels' = [labels EXCEPT ![i] = req[s].key]
        PROVE  Arrives
    <3>1. req[s] \in Request /\ req[s].key \in Keys
        BY <1>1 DEF Create, TypeInv, RequestOK, HasKey
    <3> DEFINE r == [req[s] EXCEPT !.id = i]
    <3>2. r.id = i /\ r.key = req[s].key /\ req' = [req EXCEPT ![s] = r]
        BY <2>2, <3>1, SetId
    <3> HIDE DEF r
    <3>3. pc' = [pc EXCEPT ![s] = "start"]
        BY <2>2 DEF Goto
    <3>4. CASE p = s
      <4>1. req'[p] = r
          BY <3>2, <3>4 DEF TypeInv, TypeOK
      <4>2. phase'[i] = "created" /\ labels'[i] = req[s].key
          BY <2>2 DEF TypeInv, TypeOK
      <4> QED
          BY <3>1, <3>2, <3>3, <3>4, <4>1, <4>2 DEF TypeInv, TypeOK
    <3>5. CASE p # s
        BY <3>2, <3>3, <3>5 DEF TypeInv, TypeOK
    <3> QED
        BY <3>4, <3>5
  <2> QED
      BY <1>1, <2>1, <2>2 DEF Create
<1>2. ASSUME NEW s \in Slots, Start(s)
      PROVE  Arrives
  <2>1. req[s].id \in Ids /\ pc[s] = "start"
      BY <1>2 DEF Start, TypeInv, RequestOK, HasId
  <2> QED
      BY <1>2, <2>1 DEF Start, Answer, Goto, TypeInv, TypeOK
<1>3. ASSUME NEW s \in Slots, StoreMap(s) \/ StoreMeta(s)
      PROVE  Arrives
    BY <1>3 DEF StoreMap, StoreMeta, Goto, TypeInv, TypeOK
<1>4. ASSUME NEW s \in Slots, NEW label, NEW r, Begin(s, label, r),
             label \in {"spawn nonce", "teardown nonce", "hkeys"}
      PROVE  Arrives
    BY <1>4 DEF Begin, Goto, TypeInv, TypeOK
<1>5. ASSUME NEW s \in Slots, Answer(s)
      PROVE  Arrives
    BY <1>5 DEF Answer, Goto, TypeInv, TypeOK
<1>6. ASSUME NEW s \in Slots, NEW label, NEW next, ConsumeNonce(s, label, next),
             next \in {"spawn hget", "teardown hget"}
      PROVE  Arrives
    BY <1>6, <1>5 DEF ConsumeNonce, Goto, TypeInv, TypeOK
<1>7. ASSUME NEW s \in Slots, ReadMap(s)
      PROVE  Arrives
    BY <1>7 DEF ReadMap, Goto, TypeInv, TypeOK
<1>8. ASSUME NEW s \in Slots, Inspect(s) \/ Replace(s) \/ Stop(s) \/ DeleteMap(s) \/ DeleteMeta(s)
                              \/ StopKey(s) \/ DeleteKey(s) \/ DeleteKeyMeta(s)
      PROVE  Arrives
  <2>1. Answer(s) \/ (req' = req /\ \E label \in {"replace", "create", "hdel", "del", "notify teardown",
                                                  "all hdel", "all del", "list", "all hget"} :
                                       pc' = [pc EXCEPT ![s] = label])
      BY <1>8 DEF Inspect, Replace, Stop, DeleteMap, DeleteMeta, StopKey, DeleteKey,
                  DeleteKeyMeta, Goto
  <2> QED
      BY <1>5, <2>1 DEF TypeInv, TypeOK
<1>9. ASSUME NEW s \in Slots, FindInstance(s)
       PROVE  Arrives
  <2>1. Answer(s) \/ \E i : pc' = [pc EXCEPT ![s] = "stop"] /\ req' = [req EXCEPT ![s].id = i]
      BY <1>9 DEF FindInstance, Goto
  <2> QED
      BY <1>5, <2>1 DEF TypeInv, TypeOK
<1>10. ASSUME NEW s \in Slots, ReadKeys(s) \/ ReadKey(s) \/ ListRemaining(s) \/ StopListed(s)
       PROVE  Arrives
  <2>1. \E r : req' = [req EXCEPT ![s] = r]
    <3>1. CASE ReadKeys(s)
        BY <3>1, AfterReadKeys
    <3>2. CASE ReadKey(s)
        BY <3>2, AfterReadKey
    <3>3. CASE ListRemaining(s)
        BY <3>3, AfterListRemaining
    <3>4. CASE StopListed(s)
        BY <3>4, AfterStopListed
    <3> QED
        BY <1>10, <3>1, <3>2, <3>3, <3>4
  <2>2. CASE StopListed(s)
    <3>1. pc[s] = "stop listed" /\ pc' = pc
        BY <2>2 DEF StopListed
    <3> QED
        BY <2>1, <3>1 DEF TypeInv, TypeOK
  <2>3. CASE ReadKeys(s) \/ ReadKey(s) \/ ListRemaining(s)
    <3>1. \E label \in {"list", "all hget", "all stop", "stop listed"} :
              pc' = [pc EXCEPT ![s] = label]
      <4>1. CASE ReadKeys(s)
          BY <4>1 DEF ReadKeys, Goto
      <4>2. CASE ReadKey(s)
          BY <4>2, AfterReadKey
      <4>3. CASE ListRemaining(s)
          BY <4>3 DEF ListRemaining, Goto
      <4> QED
          BY <2>3, <4>1, <4>2, <4>3
    <3> QED
        BY <2>1, <3>1 DEF TypeInv, TypeOK
  <2> QED
      BY <1>10, <2>2, <2>3
<1>11. ASSUME NEW s \in Slots,
              NotifySpawned(s) \/ NotifyTeardown(s) \/ AnswerTeardownAll(s) \/ Fail(s)
       PROVE  Arrives
    BY <1>11, <1>5 DEF NotifySpawned, NotifyTeardown, AnswerTeardownAll, Fail
<1>12. ASSUME NEW s \in Slots, Spawn(s) \/ Teardown(s) \/ TeardownAll(s)
       PROVE  Arrives
    BY <1>12, <1>4 DEF Spawn, Teardown, TeardownAll
<1>13. ASSUME NEW s \in Slots, Step(s)
       PROVE  Arrives
    BY <1>13, <1>1, <1>2, <1>3, <1>6, <1>7, <1>8, <1>9, <1>10, <1>11 DEF Step
<1>14. ((\E i \in Ids : Exit(i) \/ AutoRemove(i)) \/ NonceExpires \/ UNCHANGED vars)
           => pc' = pc /\ req' = req
    BY DEF Exit, AutoRemove, NonceExpires, vars
<1>15. pc' = pc /\ req' = req => Arrives
    OBVIOUS
<1> HIDE DEF Arrives
<1>16. Arrives
    BY <1>11, <1>12, <1>13, <1>14, <1>15 DEF Next
<1> QED
    BY <1>16 DEF Arrives

LEMMA LifeInvStep ==
    ASSUME TypeInv, LifeInv, [Next]_vars
    PROVE  LifeInv'
<1>1. ASSUME NEW i \in Ids, phase'[i] # "none"
      PROVE  labels'[i] \in Keys
  <2>1. CASE phase[i] # "none"
      BY <2>1, PhaseForward DEF LifeInv
  <2>2. CASE phase[i] = "none"
    <3>1. PICK j \in Ids, k \in Keys : CreateFor(j, k)
        BY <1>1, <2>2, DockerSteps DEF StartOne, EndOne, Exists, TypeInv, TypeOK
    <3> QED
        BY <1>1, <2>2, <3>1 DEF CreateFor, TypeInv, TypeOK
  <2> QED
      BY <2>1, <2>2
<1>2. ASSUME NEW k \in Keys, map'[k] # NoId
      PROVE  phase'[map'[k]] # "none" /\ labels'[map'[k]] = k
  <2>1. CASE map'[k] = map[k]
    <3>1. map[k] \in Ids /\ phase[map[k]] # "none" /\ labels[map[k]] = k
        BY <1>2, <2>1 DEF LifeInv, TypeInv, TypeOK
    <3> QED
        BY <2>1, <3>1, PhaseForward
  <2>2. ASSUME NEW s \in Slots, StoreMap(s)
        PROVE  phase'[map'[k]] # "none" /\ labels'[map'[k]] = k
    <3>1. req[s].id \in Ids /\ req[s].key \in Keys
        BY <2>2 DEF StoreMap, TypeInv, RequestOK, HasKey, HasId
    <3>2. phase[req[s].id] # "none" /\ labels[req[s].id] = req[s].key
        BY <2>2 DEF StoreMap, LifeInv
    <3>3. CASE k = req[s].key
      <4>1. map'[k] = req[s].id
          BY <2>2, <3>1, <3>3 DEF StoreMap, TypeInv, TypeOK
      <4> QED
          BY <3>1, <3>2, <3>3, <4>1, PhaseForward
    <3>4. CASE k # req[s].key
        BY <2>1, <2>2, <3>4 DEF StoreMap, TypeInv, TypeOK
    <3> QED
        BY <3>3, <3>4
  <2>3. map' = map \/ (\E s \in Slots : StoreMap(s))
        \/ \E s \in Slots : DeleteMap(s) \/ DeleteKey(s)
      BY DEF Next, Step, vars, Spawn, Teardown, TeardownAll, Begin, ConsumeNonce, ReadMap, Inspect,
             Replace, Create, Start, StoreMeta, NotifySpawned, FindInstance, Stop, DeleteMeta,
             NotifyTeardown, ReadKeys, ReadKey, StopKey, DeleteKeyMeta, ListRemaining, StopListed,
             AnswerTeardownAll, Fail, Exit, AutoRemove, NonceExpires
  <2>4. ASSUME NEW s \in Slots, DeleteMap(s) \/ DeleteKey(s)
        PROVE  map'[k] = map[k]
      BY <1>2, <2>4 DEF DeleteMap, DeleteKey, TypeInv, TypeOK
  <2> QED
      BY <2>1, <2>2, <2>3, <2>4
<1>3. ASSUME NEW p \in Slots, pc'[p] \in {"start", "hset", "meta", "notify spawned"}
      PROVE  /\ phase'[req'[p].id] # "none" /\ labels'[req'[p].id] = req'[p].key
             /\ pc'[p] \in {"hset", "meta", "notify spawned"} => phase'[req'[p].id] \in Started
  <2>1. CASE /\ pc'[p] = "start" /\ req'[p].key \in Keys /\ req'[p].id \in Ids
             /\ phase'[req'[p].id] = "created" /\ labels'[req'[p].id] = req'[p].key
      BY <2>1
  <2>2. ASSUME req'[p] = req[p], pc[p] \in {"start", "hset", "meta", "notify spawned"}
        PROVE  /\ phase'[req'[p].id] # "none" /\ labels'[req'[p].id] = req'[p].key
               /\ pc[p] # "start" => phase'[req'[p].id] \in Started
    <3>1. req[p].id \in Ids
        BY <2>2 DEF TypeInv, RequestOK, HasId
    <3>2. /\ phase[req[p].id] # "none" /\ labels[req[p].id] = req[p].key
          /\ pc[p] # "start" => phase[req[p].id] \in Started
        BY <2>2 DEF LifeInv
    <3> QED
        BY <2>2, <3>1, <3>2, PhaseForward
  <2> QED
      BY <1>3, <2>1, <2>2, BeforeStore DEF Started
<1> QED
    BY <1>1, <1>2, <1>3 DEF LifeInv

LEMMA LifeInvHolds == Spec => []LifeInv
<1>1. Init => LifeInv
    BY DEF Init, LifeInv
<1>2. TypeInv /\ LifeInv /\ [Next]_vars => LifeInv'
    BY LifeInvStep
<1> QED
    BY <1>1, <1>2, TypeInvHolds, PTL DEF Spec

\* The instance map gives a team only the container created for it and for that
\* challenge, however old the id a request stores (orchestrator.ts, spawn).
THEOREM MapNamesOwnHolds == Spec => []MapNamesOwn
<1>1. LifeInv => MapNamesOwn
    BY DEF LifeInv, MapNamesOwn
<1> QED
    BY <1>1, LifeInvHolds, PTL
-----------------------------------------------------------------------------
(* The refinement. *)

Holder == [i \in Ids |-> IF labels[i] = NoKey THEN NoKey ELSE HolderOf(labels[i])]

\* Only a store names a container, and it has been started by then.
LEMMA KnownSteps ==
    ASSUME TypeInv, LifeInv, [Next]_vars
    PROVE  \/ Known' \subseteq Known
           \/ \E i \in Ids : phase[i] \in Started /\ Known' \subseteq Known \cup {i}
<1>1. ASSUME NEW s \in Slots, StoreMap(s) \/ StoreMeta(s) \/ NotifySpawned(s)
      PROVE  \E i \in Ids : phase[i] \in Started /\ Known' \subseteq Known \cup {i}
  <2>1. req[s].id \in Ids /\ phase[req[s].id] \in Started
      BY <1>1 DEF StoreMap, StoreMeta, NotifySpawned, TypeInv, RequestOK, HasId, LifeInv
  <2>2. \/ map' = [map EXCEPT ![req[s].key] = req[s].id] /\ UNCHANGED <<meta, shown>>
        \/ meta' = meta \cup {req[s].id} /\ UNCHANGED <<map, shown>>
        \/ shown' = [shown EXCEPT ![TeamOf(req[s].key)] = req[s].id] /\ UNCHANGED <<map, meta>>
        \/ UNCHANGED <<map, meta, shown>>
      BY <1>1 DEF StoreMap, StoreMeta, NotifySpawned
  <2>3. Known' \subseteq Known \cup {req[s].id}
      BY <2>2 DEF Known, TypeInv, TypeOK
  <2> QED
      BY <2>1, <2>3
<1>2. ASSUME NEW s \in Slots, DeleteMap(s) \/ DeleteKey(s) \/ DeleteMeta(s) \/ DeleteKeyMeta(s)
                              \/ NotifyTeardown(s)
      PROVE  Known' \subseteq Known
  <2>1. \/ map' = [map EXCEPT ![req[s].key] = NoId] /\ UNCHANGED <<meta, shown>>
        \/ meta' = meta \ {req[s].id} /\ UNCHANGED <<map, shown>>
        \/ (\E t \in Teams : shown' = [shown EXCEPT ![t] = NoId]) /\ UNCHANGED <<map, meta>>
        \/ UNCHANGED <<map, meta, shown>>
      BY <1>2 DEF DeleteMap, DeleteKey, DeleteMeta, DeleteKeyMeta, NotifyTeardown
  <2>2. \A k \in Keys : map'[k] = map[k] \/ map'[k] = NoId
      BY <2>1 DEF TypeInv, TypeOK
  <2>3. \A t \in Teams : shown'[t] = shown[t] \/ shown'[t] = NoId
      BY <2>1 DEF TypeInv, TypeOK
  <2>4. meta' \subseteq meta
      BY <2>1
  <2> QED
      BY <2>2, <2>3, <2>4, OrchestratorAssumption DEF Known
<1>3. ASSUME NEW s \in Slots, NEW label, NEW next, ConsumeNonce(s, label, next)
      PROVE  UNCHANGED <<map, meta, shown>>
    BY <1>3 DEF ConsumeNonce
<1>4. ASSUME NEW s \in Slots, \/ Spawn(s) \/ Teardown(s) \/ TeardownAll(s) \/ Fail(s) \/ ReadMap(s)
                              \/ Inspect(s) \/ Replace(s) \/ Create(s) \/ Start(s)
                              \/ FindInstance(s) \/ Stop(s) \/ ReadKeys(s) \/ ReadKey(s)
                              \/ StopKey(s) \/ ListRemaining(s) \/ StopListed(s)
                              \/ AnswerTeardownAll(s)
      PROVE  UNCHANGED <<map, meta, shown>>
    BY <1>4 DEF Spawn, Teardown, TeardownAll, Begin, Fail, ReadMap, Inspect, Replace, Create, Start,
                FindInstance, Stop, ReadKeys, ReadKey, StopKey, ListRemaining, StopListed,
                AnswerTeardownAll
<1>5. ASSUME (\E i \in Ids : Exit(i) \/ AutoRemove(i)) \/ NonceExpires \/ UNCHANGED vars
      PROVE  UNCHANGED <<map, meta, shown>>
    BY <1>5 DEF Exit, AutoRemove, NonceExpires, vars
<1>6. ASSUME UNCHANGED <<map, meta, shown>>
      PROVE  Known' \subseteq Known
    BY <1>6 DEF Known
<1> QED
    BY <1>1, <1>2, <1>3, <1>4, <1>5, <1>6 DEF Next, Step

\* The orchestrator implements the life of an instance: a container is named by the
\* map, the metadata or the backend only once it has been started, and a team of an
\* event has one container at a time (orchestrator.ts, spawn and teardown).
THEOREM OrchestratorImplementsLifecycle == Spec => LifecycleSpec
<1>1. Init => Lifecycle!Init
    BY OrchestratorAssumption DEF Init, Lifecycle!Init, Known
<1>2. TypeInv /\ LifeInv /\ [Next]_vars => [Lifecycle!Next]_(Lifecycle!lifeVars)
  <2> SUFFICES ASSUME TypeInv, LifeInv, [Next]_vars
               PROVE  Lifecycle!Next \/ UNCHANGED <<phase, Holder, Known>>
      BY DEF Lifecycle!lifeVars, Holder
  <2>1. ASSUME NEW i \in Ids, NEW k \in Keys, CreateFor(i, k), UNCHANGED <<map, meta, shown>>
        PROVE  Lifecycle!Next
    <3>1. Known' = Known
        BY <2>1 DEF Known
    <3>2. k # NoKey
        BY OrchestratorAssumption
    <3>3. Holder' = [Holder EXCEPT ![i] = HolderOf(k)]
        BY <2>1, <3>2 DEF Holder, CreateFor, TypeInv, TypeOK
    <3>4. ASSUME NEW j \in Ids, Lifecycle!Exists(j)
          PROVE  Holder[j] # HolderOf(k)
      <4>1. Exists(j) /\ labels[j] \in Keys
          BY <3>4 DEF Lifecycle!Exists, Exists, LifeInv
      <4>2. Holder[j] = HolderOf(labels[j])
          BY <4>1, OrchestratorAssumption DEF Holder
      <4> QED
          BY <2>1, <4>1, <4>2 DEF CreateFor, NameTaken
    <3>5. Lifecycle!Create(i, HolderOf(k))
        BY <2>1, <3>1, <3>3, <3>4 DEF Lifecycle!Create, CreateFor, Holder
    <3> QED
        BY <3>5 DEF Lifecycle!Next
  <2>2. ASSUME NEW i \in Ids, StartOne(i), UNCHANGED <<map, meta, shown>>
        PROVE  Lifecycle!Next
    <3>1. Known' = Known /\ Holder' = Holder
        BY <2>2 DEF Known, Holder, StartOne
    <3>2. Lifecycle!Start(i)
        BY <2>2, <3>1 DEF Lifecycle!Start, StartOne, Holder
    <3> QED
        BY <3>2 DEF Lifecycle!Next
  <2>3. ASSUME NEW i \in Ids, EndOne(i), UNCHANGED <<map, meta, shown>>
        PROVE  Lifecycle!Next
    <3>1. Known' = Known /\ Holder' = Holder
        BY <2>3 DEF Known, Holder, EndOne
    <3>2. Lifecycle!Stop(i) \/ Lifecycle!Remove(i)
        BY <2>3, <3>1 DEF Lifecycle!Stop, Lifecycle!Remove, Lifecycle!Exists, Exists, EndOne, Holder
    <3> QED
        BY <3>2 DEF Lifecycle!Next
  <2>4. ASSUME phase' = phase, labels' = labels
        PROVE  Lifecycle!Next
    <3>1. Holder' = Holder
        BY <2>4 DEF Holder
    <3>2. CASE Known' \subseteq Known
      <4>1. Lifecycle!Forget
          BY <2>4, <3>1, <3>2 DEF Lifecycle!Forget, Holder
      <4> QED
          BY <4>1 DEF Lifecycle!Next
    <3>3. ASSUME NEW i \in Ids, phase[i] \in Started, Known' \subseteq Known \cup {i}
          PROVE  Lifecycle!Next
      <4>1. Lifecycle!Tell(i)
          BY <2>4, <3>1, <3>3 DEF Lifecycle!Tell, Holder, Started
      <4> QED
          BY <4>1 DEF Lifecycle!Next
    <3> QED
        BY <3>2, <3>3, KnownSteps
  <2> QED
      BY <2>1, <2>2, <2>3, <2>4, DockerSteps
<1> QED
    BY <1>1, <1>2, TypeInvHolds, LifeInvHolds, PTL DEF Spec, LifecycleSpec, Lifecycle!Spec
-----------------------------------------------------------------------------
(* teardown-all. *)

\* A container found running is still to be stopped, or has ended, or its stop failed.
SweepInv ==
    \A s \in Slots : pc[s] = "stop listed" =>
        \A i \in req[s].listed :
            /\ i \in Ids /\ phase[i] \in Started
            /\ i \in req[s].todo \cup req[s].failed \/ phase[i] \in Ended

LEMMA SweepStays ==
    ASSUME TypeInv, [Next]_vars, NEW q,
           \A i \in q.listed : /\ i \in Ids /\ phase[i] \in Started
                               /\ i \in q.todo \cup q.failed \/ phase[i] \in Ended
    PROVE  \A i \in q.listed : /\ i \in Ids /\ phase'[i] \in Started
                               /\ i \in q.todo \cup q.failed \/ phase'[i] \in Ended
<1>1. \A i \in q.listed : phase[i] # "none"
    BY DEF Started
<1> QED
    BY <1>1, PhaseForward

LEMMA SweepInvStep ==
    ASSUME TypeInv, SweepInv, [Next]_vars
    PROVE  SweepInv'
<1> SUFFICES ASSUME NEW p \in Slots, pc'[p] = "stop listed"
             PROVE  \A i \in req'[p].listed :
                       /\ i \in Ids /\ phase'[i] \in Started
                       /\ i \in req'[p].todo \cup req'[p].failed \/ phase'[i] \in Ended
    BY DEF SweepInv
<1> DEFINE Swept == \A i \in req'[p].listed :
                       /\ i \in Ids /\ phase'[i] \in Started
                       /\ i \in req'[p].todo \cup req'[p].failed \/ phase'[i] \in Ended
<1>1. ASSUME pc[p] = "stop listed", req'[p] = req[p]
      PROVE  Swept
    BY <1>1, SweepStays DEF SweepInv
<1>2. ASSUME NEW s \in Slots, ListRemaining(s)
      PROVE  Swept
  <2>1. PICK r \in Request :
            /\ req' = [req EXCEPT ![s] = r]
            /\ r.todo = Remaining(EventOf(req[s].key))
            /\ r.listed = {i \in Ids : phase[i] = "running"
                                       /\ EventOf(labels[i]) = EventOf(req[s].key)}
      BY <1>2, AfterListRemaining
  <2>2. CASE p = s
    <3>1. req'[p] = r /\ phase' = phase
        BY <1>2, <2>1, <2>2 DEF TypeInv, TypeOK, ListRemaining
    <3> QED
        BY <2>1, <3>1 DEF Remaining, Exists, Started
  <2>3. CASE p # s
      BY <1>1, <1>2, <2>1, <2>3 DEF ListRemaining, Goto, TypeInv, TypeOK
  <2> QED
      BY <2>2, <2>3
<1>3. ASSUME NEW s \in Slots, StopListed(s)
      PROVE  Swept
  <2>1. PICK r \in Request, i \in req[s].todo :
            /\ req' = [req EXCEPT ![s] = r]
            /\ r.todo = req[s].todo \ {i} /\ r.listed = req[s].listed /\ i \in Ids
            /\ \/ phase' \in Stopped(i) /\ r.failed = req[s].failed
               \/ phase' = phase /\ r.failed = req[s].failed \cup {i}
      BY <1>3, AfterStopListed
  <2>2. CASE p = s
    <3>1. req'[p] = r /\ pc[p] = "stop listed"
        BY <1>3, <2>1, <2>2 DEF TypeInv, TypeOK, StopListed
    <3>2. \A j \in req[p].listed : /\ j \in Ids /\ phase'[j] \in Started
                                   /\ j \in req[p].todo \cup req[p].failed \/ phase'[j] \in Ended
        BY <3>1, SweepStays DEF SweepInv
    <3>3. CASE phase' = phase /\ r.failed = req[s].failed \cup {i}
        BY <2>1, <2>2, <3>1, <3>2, <3>3
    <3>4. CASE phase' \in Stopped(i) /\ r.failed = req[s].failed
      <4>1. i \in req[p].listed => phase[i] \in Started
          BY <3>1 DEF SweepInv
      <4>2. i \in req[p].listed => phase'[i] \in Ended
          BY <2>1, <3>4, <4>1 DEF Stopped, Started, Ended, TypeInv, TypeOK
      <4> QED
          BY <2>1, <2>2, <3>1, <3>2, <3>4, <4>2
    <3> QED
        BY <2>1, <3>3, <3>4
  <2>3. CASE p # s
      BY <1>1, <1>3, <2>1, <2>3 DEF StopListed, TypeInv, TypeOK
  <2> QED
      BY <2>2, <2>3
<1>4. ASSUME NEW s \in Slots, Answer(s)
      PROVE  Swept
    BY <1>1, <1>4 DEF Answer, Goto, TypeInv, TypeOK
<1>5. ASSUME NEW s \in Slots, NEW label, NEW r, Begin(s, label, r),
             label \in {"spawn nonce", "teardown nonce", "hkeys"}
      PROVE  Swept
    BY <1>1, <1>5 DEF Begin, Goto, TypeInv, TypeOK
<1>6. ASSUME NEW s \in Slots, NEW label, NEW next, ConsumeNonce(s, label, next),
             next \in {"spawn hget", "teardown hget"}
      PROVE  Swept
    BY <1>1, <1>4, <1>6 DEF ConsumeNonce, Goto, TypeInv, TypeOK
<1>7. ASSUME NEW s \in Slots, NEW label \in PC, label # "stop listed",
             pc' = [pc EXCEPT ![s] = label], \E r : req' = [req EXCEPT ![s] = r]
      PROVE  Swept
    BY <1>1, <1>7 DEF TypeInv, TypeOK
<1>8. ASSUME NEW s \in Slots, NEW label \in PC, label # "stop listed",
             pc' = [pc EXCEPT ![s] = label], req' = req
      PROVE  Swept
    BY <1>1, <1>8 DEF TypeInv, TypeOK
<1>9. ASSUME NEW s \in Slots, ReadMap(s)
      PROVE  Swept
    BY <1>1, <1>9 DEF ReadMap, Goto, TypeInv, TypeOK
<1>10. ASSUME NEW s \in Slots, Create(s)
       PROVE  Swept
  <2>1. Answer(s) \/ \E i : pc' = [pc EXCEPT ![s] = "start"] /\ req' = [req EXCEPT ![s].id = i]
      BY <1>10 DEF Create, Goto
  <2> QED
      BY <1>1, <1>4, <2>1 DEF TypeInv, TypeOK
<1>11. ASSUME NEW s \in Slots, FindInstance(s)
       PROVE  Swept
  <2>1. Answer(s) \/ \E i : pc' = [pc EXCEPT ![s] = "stop"] /\ req' = [req EXCEPT ![s].id = i]
      BY <1>11 DEF FindInstance, Goto
  <2> QED
      BY <1>1, <1>4, <2>1 DEF TypeInv, TypeOK
<1>12. ASSUME NEW s \in Slots, ReadKeys(s)
       PROVE  Swept
  <2>1. PICK label \in {"list", "all hget"} : pc' = [pc EXCEPT ![s] = label]
      BY <1>12 DEF ReadKeys, Goto
  <2>2. label \in PC /\ label # "stop listed" /\ \E r : req' = [req EXCEPT ![s] = r]
      BY <1>12, AfterReadKeys DEF PC
  <2> QED
      BY <1>7, <2>1, <2>2
<1>13. ASSUME NEW s \in Slots, ReadKey(s)
       PROVE  Swept
  <2>1. PICK label \in {"list", "all hget", "all stop"} : pc' = [pc EXCEPT ![s] = label]
      BY <1>13, AfterReadKey
  <2>2. label \in PC /\ label # "stop listed" /\ \E r : req' = [req EXCEPT ![s] = r]
      BY <1>13, AfterReadKey DEF PC
  <2> QED
      BY <1>7, <2>1, <2>2
<1>14. ASSUME NEW s \in Slots,
              \/ Inspect(s) \/ Replace(s) \/ Start(s) \/ StoreMap(s) \/ StoreMeta(s)
              \/ Stop(s) \/ DeleteMap(s) \/ DeleteMeta(s)
              \/ StopKey(s) \/ DeleteKey(s) \/ DeleteKeyMeta(s)
       PROVE  Swept
  <2>1. \/ Answer(s)
        \/ req' = req /\ \E label \in {"replace", "create", "hset", "meta", "notify spawned", "hdel",
                                       "del", "notify teardown", "all hdel", "all del", "list",
                                       "all hget"} : pc' = [pc EXCEPT ![s] = label]
      BY <1>14 DEF Inspect, Replace, Start, StoreMap, StoreMeta, Stop, DeleteMap, DeleteMeta,
                   StopKey, DeleteKey, DeleteKeyMeta, Goto
  <2> QED
      BY <1>4, <1>8, <2>1 DEF PC
<1>15. ASSUME NEW s \in Slots,
              NotifySpawned(s) \/ NotifyTeardown(s) \/ AnswerTeardownAll(s) \/ Fail(s)
       PROVE  Swept
    BY <1>15, <1>4 DEF NotifySpawned, NotifyTeardown, AnswerTeardownAll, Fail
<1>16. ASSUME NEW s \in Slots, Spawn(s) \/ Teardown(s) \/ TeardownAll(s)
       PROVE  Swept
    BY <1>16, <1>5 DEF Spawn, Teardown, TeardownAll
<1>17. ASSUME NEW s \in Slots, Step(s)
       PROVE  Swept
    BY <1>17, <1>2, <1>3, <1>6, <1>9, <1>10, <1>11, <1>12, <1>13, <1>14, <1>15 DEF Step
<1>18. ((\E i \in Ids : Exit(i) \/ AutoRemove(i)) \/ NonceExpires \/ UNCHANGED vars)
           => pc' = pc /\ req' = req
    BY DEF Exit, AutoRemove, NonceExpires, vars
<1>19. pc' = pc /\ req' = req => Swept
    BY <1>1
<1> HIDE DEF Swept
<1>20. Swept
    BY <1>15, <1>16, <1>17, <1>18, <1>19 DEF Next
<1> QED
    BY <1>20 DEF Swept

\* When teardown-all answers, what it found running has ended, unless its stop
\* failed: also the containers the map had lost (orchestrator.ts, teardown-all).
THEOREM TeardownAllStopsLostHolds == Spec => []TeardownAllStopsLost
<1>1. Init => SweepInv
    BY DEF Init, SweepInv
<1>2. TypeInv /\ SweepInv /\ [Next]_vars => SweepInv'
    BY SweepInvStep
<1>3. SweepInv => TeardownAllStopsLost
    BY DEF SweepInv, TeardownAllStopsLost, Ended
<1> QED
    BY <1>1, <1>2, <1>3, TypeInvHolds, PTL DEF Spec
=============================================================================
