----------------------------- MODULE CTFEvents -----------------------------
(***************************************************************************)
(* CTF events: the rows of ctf_events and event_participants, the admin    *)
(* operations of CTFService and routers/events.py, and team registration.  *)
(*                                                                         *)
(* A registration reads the status of the event (the first SELECT of       *)
(* register_for_event) and inserts the participant row in a later          *)
(* statement; registering holds the requests between the two.  The checks  *)
(* in between read the team and the roster, which this module leaves free: *)
(* a registration they refuse is one that gives up.                        *)
(***************************************************************************)
CONSTANTS Events, Teams

VARIABLES
    status,        \* status[e]: "none" before the row exists, "deleted" after
    participants,  \* the <<event, team>> pairs of event_participants
    registering    \* the <<event, team>> pairs whose registration is in flight

eventVars == <<status, participants, registering>>

Status == {"none", "pending", "active", "ended", "deleted"}
Existing(e) == status[e] \in {"pending", "active", "ended"}
ActiveEvents == {e \in Events : status[e] = "active"}
ParticipantsOf(e) == {t \in Teams : <<e, t>> \in participants}

EventsTypeOK ==
    /\ status \in [Events -> Status]
    /\ participants \subseteq Events \X Teams
    /\ registering \subseteq Events \X Teams

EventsInit ==
    /\ status = [e \in Events |-> "none"]
    /\ participants = {}
    /\ registering = {}
-----------------------------------------------------------------------------
SetStatus(e, s) == status' = [status EXCEPT ![e] = s]

CreateEvent(e) ==
    /\ status[e] = "none"
    /\ SetStatus(e, "pending")
    /\ UNCHANGED <<participants, registering>>

\* start_event looks at nothing but the existence of the row.
StartEvent(e) ==
    /\ Existing(e)
    /\ SetStatus(e, "active")
    /\ UNCHANGED <<participants, registering>>

EndEvent(e) ==
    /\ Existing(e)
    /\ SetStatus(e, "ended")
    /\ UNCHANGED <<participants, registering>>

\* The participant rows go with the event (ORM cascade, ON DELETE CASCADE).
DeleteEvent(e) ==
    /\ Existing(e)
    /\ SetStatus(e, "deleted")
    /\ participants' = {p \in participants : p[1] # e}
    /\ UNCHANGED registering

BeginRegistration(e, t) ==
    /\ status[e] = "pending"
    /\ registering' = registering \cup {<<e, t>>}
    /\ UNCHANGED <<status, participants>>

\* Mutant of CommitRegistration: no foreign key behind the INSERT.
CommitRegistrationUnchecked(e, t) ==
    /\ <<e, t>> \in registering
    /\ registering' = registering \ {<<e, t>>}
    /\ participants' = participants \cup {<<e, t>>}
    /\ UNCHANGED status

\* INSERT: the foreign key refuses an event that is gone; a second row for the
\* same pair is refused by the 409 check or by UNIQUE(event_id, team_id).
CommitRegistration(e, t) ==
    /\ <<e, t>> \in registering
    /\ Existing(e)
    /\ registering' = registering \ {<<e, t>>}
    /\ participants' = participants \cup {<<e, t>>}
    /\ UNCHANGED status

GiveUpRegistration(e, t) ==
    /\ <<e, t>> \in registering
    /\ registering' = registering \ {<<e, t>>}
    /\ UNCHANGED <<status, participants>>

EventsNext ==
    \E e \in Events :
        \/ CreateEvent(e)
        \/ StartEvent(e)
        \/ EndEvent(e)
        \/ DeleteEvent(e)
        \/ \E t \in Teams :
              \/ BeginRegistration(e, t)
              \/ CommitRegistration(e, t)
              \/ GiveUpRegistration(e, t)

EventsSpec == EventsInit /\ [][EventsNext]_eventVars
-----------------------------------------------------------------------------
(* Properties *)

\* Only an event that still exists has participants: a registration that was in
\* flight when the event was deleted leaves no row behind (delete_event against
\* register_for_event, routers/events.py).
NoOrphanParticipants == \A p \in participants : Existing(p[1])

\* Registration closes when the event leaves "pending" ("Event is not open for
\* registration", routers/events.py): the participants of an event that is
\* running or over do not grow.
RegistrationClosed ==
    [][\A e \in Events :
           status[e] \in {"active", "ended"} => ParticipantsOf(e)' \subseteq ParticipantsOf(e)]_eventVars
=============================================================================
