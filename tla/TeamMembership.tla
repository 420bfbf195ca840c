--------------------------- MODULE TeamMembership ---------------------------
(***************************************************************************)
(* Teams and their members: routers/teams.py and its twins in              *)
(* routers/ctf_compat.py.  A join looks for an existing membership, counts *)
(* the members, and inserts, in three statements of one READ COMMITTED     *)
(* transaction; joins run in slots and interleave.  A team is named by its *)
(* unique name; the captain row is committed together with the team.       *)
(***************************************************************************)
EXTENDS Integers, FiniteSets

CONSTANTS Users, Teams, NoUser, MaxTeamSize, Slots, NoJoin

VARIABLES
    owner,    \* owner[t]: the owner_id of team t, NoUser when there is no team t
    members,  \* the <<team, user, role, id>> rows of team_members
    pc,       \* pc[s]: the next statement of the join in slot s
    join      \* join[s]: the <<team, user>> of that join

vars == <<owner, members, pc, join>>

ASSUME TeamConstants ==
    /\ IsFiniteSet(Users)
    /\ IsFiniteSet(Slots)
    /\ Slots # {}
    /\ NoUser \notin Users
    /\ NoJoin \notin Teams \X Users
    /\ MaxTeamSize \in Nat \ {0}

Role == {"captain", "member"}
MembersOf(t) == {m \in members : m[1] = t}
IsMember(t, u) == \E m \in members : m[1] = t /\ m[2] = u

\* The id tells rows of the same user in the same team apart, should there be two.
NewRow(t, u, role) ==
    <<t, u, role, Cardinality({m \in members : m[1] = t /\ m[2] = u})>>

(* The types of teams, memberships and joins in flight.                    *)
TypeOK ==
    /\ owner \in [Teams -> Users \cup {NoUser}]
    /\ IsFiniteSet(members)
    /\ members \subseteq Teams \X Users \X Role \X Nat
    /\ pc \in [Slots -> {"idle", "member", "count", "insert"}]
    /\ join \in [Slots -> (Teams \X Users) \cup {NoJoin}]
    /\ \A s \in Slots : pc[s] # "idle" => join[s] # NoJoin

Init ==
    /\ owner = [t \in Teams |-> NoUser]
    /\ members = {}
    /\ pc = [s \in Slots |-> "idle"]
    /\ join = [s \in Slots |-> NoJoin]
-----------------------------------------------------------------------------
\* Both create routes: the name check, or the unique name, admits one of two.
CreateTeam(t, u) ==
    /\ owner[t] = NoUser
    /\ owner' = [owner EXCEPT ![t] = u]
    /\ members' = members \cup {NewRow(t, u, "captain")}
    /\ UNCHANGED <<pc, join>>

Goto(s, label) == pc' = [pc EXCEPT ![s] = label]

\* Mutant of Finish: the join is dropped and its slot goes on.
FinishGoingOn(s) == UNCHANGED pc /\ join' = [join EXCEPT ![s] = NoJoin]

Finish(s) == Goto(s, "idle") /\ join' = [join EXCEPT ![s] = NoJoin]

\* The team is looked up by its id or by its invite code.
BeginJoin(s, t, u) ==
    /\ pc[s] = "idle"
    /\ owner[t] # NoUser
    /\ join' = [join EXCEPT ![s] = <<t, u>>]
    /\ Goto(s, "member")
    /\ UNCHANGED <<owner, members>>

CheckMember(s) ==
    /\ pc[s] = "member"
    /\ IF IsMember(join[s][1], join[s][2])
       THEN Finish(s)
       ELSE Goto(s, "count") /\ UNCHANGED join
    /\ UNCHANGED <<owner, members>>

\* Mutant of Full: the captain is not counted.
FullOfMembers(t) == Cardinality({m \in MembersOf(t) : m[3] = "member"}) >= MaxTeamSize

Full(t) == Cardinality(MembersOf(t)) >= MaxTeamSize

CountMembers(s) ==
    /\ pc[s] = "count"
    /\ IF Full(join[s][1])
       THEN Finish(s)
       ELSE Goto(s, "insert") /\ UNCHANGED join
    /\ UNCHANGED <<owner, members>>

\* Mutant of InsertMember: no UNIQUE(team_id, user_id) behind the check.
InsertMemberUnchecked(s) ==
    /\ pc[s] = "insert"
    /\ members' = members \cup {NewRow(join[s][1], join[s][2], "member")}
    /\ Finish(s)
    /\ UNCHANGED owner

\* UNIQUE(team_id, user_id) turns a second row into a 409.
InsertMember(s) ==
    /\ pc[s] = "insert"
    /\ members' = IF IsMember(join[s][1], join[s][2])
                  THEN members
                  ELSE members \cup {NewRow(join[s][1], join[s][2], "member")}
    /\ Finish(s)
    /\ UNCHANGED owner

AbortJoin(s) ==
    /\ pc[s] # "idle"
    /\ Finish(s)
    /\ UNCHANGED <<owner, members>>

\* leave_team, and leave_ctf_team for one of the user's teams.  The role never
\* changes, so reading it and deleting the row are one step; of two overlapping
\* leaves the second deletes nothing and fails.
LeaveTeam(t, u) ==
    /\ \E m \in MembersOf(t) :
          /\ m[2] = u
          /\ m[3] = "member"
          /\ members' = members \ {m}
    /\ UNCHANGED <<owner, pc, join>>

Next ==
    \/ \E t \in Teams, u \in Users : CreateTeam(t, u) \/ LeaveTeam(t, u)
    \/ \E s \in Slots :
          \/ \E t \in Teams, u \in Users : BeginJoin(s, t, u)
          \/ CheckMember(s)
          \/ CountMembers(s)
          \/ InsertMember(s)
          \/ AbortJoin(s)

Spec == Init /\ [][Next]_vars
-----------------------------------------------------------------------------
(* Properties *)

\* Joins that overlap can all see room for one more, so a team can outgrow
\* MAX_TEAM_SIZE, but by fewer members than there are slots (teams.py and
\* ctf_compat.py, the member_count check).
SizeBound == \A t \in Teams : Cardinality(MembersOf(t)) < MaxTeamSize + Cardinality(Slots)

\* A team has exactly one captain, its owner, however its members come and go;
\* and no user has two rows in a team (UniqueConstraint of team_members).
Roster ==
    /\ \A t \in Teams : {m[2] : m \in {n \in MembersOf(t) : n[3] = "captain"}}
                            = {owner[t]} \ {NoUser}
    /\ \A m, n \in members : m[1] = n[1] /\ m[2] = n[2] => m = n
=============================================================================
