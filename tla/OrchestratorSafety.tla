------------------------- MODULE OrchestratorSafety -------------------------
(***************************************************************************)
(* What the orchestrator guarantees, whatever requests overlap and         *)
(* whichever calls to Redis, Docker or the backend fail.                   *)
(***************************************************************************)
EXTENDS Orchestrator

Known == {i \in Ids : (\E k \in Keys : map[k] = i) \/ (\E t \in Teams : shown[t] = i)} \cup meta

Lifecycle == INSTANCE InstanceLifecycle
    WITH Teams  <- {HolderOf(k) : k \in Keys},
         NoTeam <- NoKey,
         holder <- [i \in Ids |-> IF labels[i] = NoKey THEN NoKey ELSE HolderOf(labels[i])],
         known  <- Known

\* The orchestrator implements the life of an instance: the map, the metadata and
\* the backend name a container only once it has been started, a team of an event
\* has one container at a time, and what is gone stays gone (spawn: create, start,
\* then the two HSETs and the notification).
LifecycleSpec == Lifecycle!Spec

\* The map never gives a team the container of another team or challenge, though a
\* slot stores an id it got several calls earlier (spawn).
MapNamesOwn == \A k \in Keys : map[k] # NoId => labels[map[k]] = k

\* When teardown-all answers, every container of the event that was running at its
\* last look is stopped, also those the map had lost, unless Docker failed to stop
\* it (teardown-all, "Also find any remaining containers").
TeardownAllStopsLost ==
    \A s \in Slots : pc[s] = "stop listed" /\ req[s].todo = {} =>
        \A i \in req[s].listed \ req[s].failed : phase[i] # "running"
=============================================================================
