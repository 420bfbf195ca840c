------------------------- MODULE InstanceLifecycle -------------------------
(***************************************************************************)
(* What the orchestrator promises of the instances it runs.  A container   *)
(* is created, may be started, and is gone for good when it stops or is    *)
(* removed; nobody is told of a container before it runs; and an event's   *)
(* team has one container at a time, whatever challenge it is for.         *)
(***************************************************************************)
CONSTANTS Ids, Teams, NoTeam

VARIABLES
    phase,  \* phase[i]: "none", "created", "running", "stopped" or "gone"
    holder, \* holder[i]: the <<event, team>> container i was created for, or NoTeam
    known   \* the containers the instance map, the metadata or the backend name

lifeVars == <<phase, holder, known>>

Init ==
    /\ phase = [i \in Ids |-> "none"]
    /\ holder = [i \in Ids |-> NoTeam]
    /\ known = {}

Exists(i) == phase[i] \in {"created", "running", "stopped"}

Create(i, t) ==
    /\ phase[i] = "none"
    /\ ~\E j \in Ids : Exists(j) /\ holder[j] = t
    /\ phase' = [phase EXCEPT ![i] = "created"]
    /\ holder' = [holder EXCEPT ![i] = t]
    /\ UNCHANGED known

Start(i) ==
    /\ phase[i] = "created"
    /\ phase' = [phase EXCEPT ![i] = "running"]
    /\ UNCHANGED <<holder, known>>

Stop(i) ==
    /\ phase[i] = "running"
    /\ phase' = [phase EXCEPT ![i] = "stopped"]
    /\ UNCHANGED <<holder, known>>

Remove(i) ==
    /\ Exists(i)
    /\ phase' = [phase EXCEPT ![i] = "gone"]
    /\ UNCHANGED <<holder, known>>

Tell(i) ==
    /\ phase[i] \in {"running", "stopped", "gone"}
    /\ known' \subseteq known \cup {i}
    /\ UNCHANGED <<phase, holder>>

Forget ==
    /\ known' \subseteq known
    /\ UNCHANGED <<phase, holder>>

Next ==
    \/ \E i \in Ids :
          \/ \E t \in Teams : Create(i, t)
          \/ Start(i)
          \/ Stop(i)
          \/ Remove(i)
          \/ Tell(i)
    \/ Forget

Spec == Init /\ [][Next]_lifeVars
=============================================================================
