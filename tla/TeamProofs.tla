----------------------------- MODULE TeamProofs -----------------------------
(***************************************************************************)
(* Proofs about TeamMembership, for any users, teams, limit and number of  *)
(* overlapping joins: type correctness, the roster and the size bound.     *)
(***************************************************************************)
EXTENDS TeamMembership, CheckThenAct

\* A new row is a row of team_members.
LEMMA NewRowType ==
    ASSUME TypeOK, NEW t \in Teams, NEW u \in Users, NEW role \in Role
    PROVE  NewRow(t, u, role) \in Teams \X Users \X Role \X Nat
<1> DEFINE same == {m \in members : m[1] = t /\ m[2] = u}
<1>1. Cardinality(same) \in Nat
  <2>1. same \in SUBSET members
      OBVIOUS
  <2> QED
      BY <2>1, SubsetCardinality DEF TypeOK
<1> QED
    BY <1>1 DEF NewRow

LEMMA NewRowFields ==
    ASSUME NEW t, NEW u, NEW role
    PROVE  /\ NewRow(t, u, role)[1] = t
           /\ NewRow(t, u, role)[2] = u
           /\ NewRow(t, u, role)[3] = role
BY DEF NewRow

\* The type invariant of teams, their members and the joins in flight
\* (routers/teams.py, create_team, join_team and leave_team).
THEOREM TypeCorrect == Spec => []TypeOK
<1> USE TeamConstants
<1>1. Init => TypeOK
    BY FS_EmptySet DEF Init, TypeOK
<1>2. TypeOK /\ [Next]_vars => TypeOK'
  <2> SUFFICES ASSUME TypeOK, [Next]_vars
               PROVE  TypeOK'
      OBVIOUS
  <2>1. ASSUME NEW t \in Teams, NEW u \in Users, CreateTeam(t, u)
        PROVE  TypeOK'
    <3>1. NewRow(t, u, "captain") \in Teams \X Users \X Role \X Nat
        BY NewRowType DEF Role
    <3>2. IsFiniteSet(members')
        BY <2>1, FS_AddElement DEF TypeOK, CreateTeam
    <3> QED
        BY <2>1, <3>1, <3>2 DEF TypeOK, CreateTeam
  <2>2. ASSUME NEW t \in Teams, NEW u \in Users, LeaveTeam(t, u)
        PROVE  TypeOK'
    <3>1. members' \in SUBSET members
        BY <2>2 DEF LeaveTeam
    <3>2. IsFiniteSet(members')
        BY <3>1, FS_Subset DEF TypeOK
    <3> QED
        BY <2>2, <3>1, <3>2 DEF TypeOK, LeaveTeam
  <2>3. ASSUME NEW s \in Slots, NEW t \in Teams, NEW u \in Users, BeginJoin(s, t, u)
        PROVE  TypeOK'
      BY <2>3 DEF TypeOK, BeginJoin, Goto
  <2>4. ASSUME NEW s \in Slots, CheckMember(s)
        PROVE  TypeOK'
      BY <2>4 DEF TypeOK, CheckMember, Goto, Finish
  <2>5. ASSUME NEW s \in Slots, CountMembers(s)
        PROVE  TypeOK'
      BY <2>5 DEF TypeOK, CountMembers, Goto, Finish
  <2>6. ASSUME NEW s \in Slots, InsertMember(s)
        PROVE  TypeOK'
    <3>1. join[s] \in Teams \X Users
        BY <2>6 DEF TypeOK, InsertMember
    <3>2. NewRow(join[s][1], join[s][2], "member") \in Teams \X Users \X Role \X Nat
        BY <3>1, NewRowType DEF Role
    <3>3. members' \subseteq Teams \X Users \X Role \X Nat
        BY <2>6, <3>2 DEF TypeOK, InsertMember
    <3>4. IsFiniteSet(members')
        BY <2>6, FS_AddElement DEF TypeOK, InsertMember
    <3> QED
        BY <2>6, <3>3, <3>4 DEF TypeOK, InsertMember, Goto, Finish
  <2>7. ASSUME NEW s \in Slots, AbortJoin(s)
        PROVE  TypeOK'
      BY <2>7 DEF TypeOK, AbortJoin, Goto, Finish
  <2>8. CASE UNCHANGED vars
      BY <2>8 DEF TypeOK, vars
  <2> QED
      BY <2>1, <2>2, <2>3, <2>4, <2>5, <2>6, <2>7, <2>8 DEF Next
<1> QED
    BY <1>1, <1>2, PTL DEF Spec
-----------------------------------------------------------------------------
(* How the variables move *)

\* Rows appear with a new team or at the end of a join, and go when a member
\* leaves; a team never loses its owner.
LEMMA MembersStep ==
    ASSUME [Next]_vars
    PROVE  \/ \E t \in Teams, u \in Users : CreateTeam(t, u)
           \/ \E t \in Teams, u \in Users : LeaveTeam(t, u)
           \/ \E s \in Slots : InsertMember(s)
           \/ members' = members /\ owner' = owner
BY DEF Next, vars, BeginJoin, CheckMember, CountMembers, AbortJoin

\* A join keeps its team and user until it ends, and is let into the INSERT by a
\* count below the limit only.
LEMMA JoinStep ==
    ASSUME TypeOK, [Next]_vars, NEW s \in Slots, pc'[s] # "idle"
    PROVE  \/ /\ pc[s] # "idle" /\ join'[s] = join[s]
              /\ \/ pc'[s] = pc[s]
                 \/ CheckMember(s) /\ pc'[s] = "count"
                 \/ CountMembers(s) /\ pc'[s] = "insert" /\ ~Full(join[s][1])
           \/ \E t \in Teams, u \in Users : BeginJoin(s, t, u) /\ pc'[s] = "member"
<1>1. ASSUME NEW t \in Teams, NEW u \in Users, CreateTeam(t, u) \/ LeaveTeam(t, u)
      PROVE  pc' = pc /\ join' = join
    BY <1>1 DEF CreateTeam, LeaveTeam
<1>2. ASSUME NEW z \in Slots, NEW t \in Teams, NEW u \in Users, BeginJoin(z, t, u)
      PROVE  \/ z = s /\ pc'[s] = "member"
             \/ pc'[s] = pc[s] /\ join'[s] = join[s]
    BY <1>2 DEF BeginJoin, Goto, TypeOK
<1>3. ASSUME NEW z \in Slots, CheckMember(z)
      PROVE  \/ z = s /\ pc[s] # "idle" /\ pc'[s] = "count" /\ join'[s] = join[s]
             \/ pc'[s] = pc[s] /\ join'[s] = join[s]
    BY <1>3 DEF CheckMember, Goto, Finish, TypeOK
<1>4. ASSUME NEW z \in Slots, CountMembers(z)
      PROVE  \/ z = s /\ pc[s] # "idle" /\ pc'[s] = "insert" /\ join'[s] = join[s]
                /\ ~Full(join[s][1])
             \/ pc'[s] = pc[s] /\ join'[s] = join[s]
    BY <1>4 DEF CountMembers, Goto, Finish, TypeOK
<1>5. ASSUME NEW z \in Slots, InsertMember(z) \/ AbortJoin(z)
      PROVE  pc'[s] = pc[s] /\ join'[s] = join[s]
    BY <1>5 DEF InsertMember, AbortJoin, Goto, Finish, TypeOK
<1>6. CASE UNCHANGED vars
    BY <1>6 DEF vars
<1> QED
    BY <1>1, <1>2, <1>3, <1>4, <1>5, <1>6 DEF Next
-----------------------------------------------------------------------------
(* The roster *)

\* Roster alone is not inductive: that a new team starts without rows, and a join
\* only adds to a team that exists, is what TeamExists keeps.
TeamExists ==
    /\ \A m \in members : owner[m[1]] # NoUser
    /\ \A s \in Slots : pc[s] # "idle" => owner[join[s][1]] # NoUser

LEMMA TeamExistsStep ==
    ASSUME TypeOK, TeamExists, [Next]_vars
    PROVE  TeamExists'
<1>1. \A t \in Teams : owner[t] # NoUser => owner'[t] # NoUser
    BY MembersStep, TeamConstants DEF CreateTeam, LeaveTeam, InsertMember, TypeOK
<1>2. ASSUME NEW m \in members'
      PROVE  owner'[m[1]] # NoUser
  <2>1. CASE m \in members
      BY <1>1, <2>1 DEF TeamExists, TypeOK
  <2>2. ASSUME NEW t \in Teams, NEW u \in Users, CreateTeam(t, u), m \notin members
        PROVE  owner'[m[1]] # NoUser
      BY <2>2, NewRowFields, TeamConstants DEF CreateTeam, TypeOK
  <2>3. ASSUME NEW s \in Slots, InsertMember(s), m \notin members
        PROVE  owner'[m[1]] # NoUser
      BY <2>3, NewRowFields DEF InsertMember, TeamExists
  <2> QED
      BY <2>1, <2>2, <2>3, MembersStep DEF LeaveTeam
<1>3. ASSUME NEW s \in Slots, pc'[s] # "idle"
      PROVE  owner'[join'[s][1]] # NoUser
  <2>1. CASE pc[s] # "idle" /\ join'[s] = join[s]
      BY <1>1, <2>1 DEF TeamExists, TypeOK
  <2>2. ASSUME NEW t \in Teams, NEW u \in Users, BeginJoin(s, t, u)
        PROVE  owner'[join'[s][1]] # NoUser
      BY <2>2 DEF BeginJoin, TypeOK
  <2> QED
      BY <1>3, <2>1, <2>2, JoinStep
<1> QED
    BY <1>2, <1>3 DEF TeamExists

\* A team has exactly one captain, its owner, and no user twice, whatever joins,
\* leaves and creations overlap (routers/teams.py, models/team.py).
THEOREM RosterHolds == Spec => []Roster
<1>1. Init => TeamExists /\ Roster
    BY TeamConstants DEF Init, TeamExists, Roster, MembersOf
<1>2. TypeOK /\ TeamExists /\ Roster /\ [Next]_vars => TeamExists' /\ Roster'
  <2> SUFFICES ASSUME TypeOK, TeamExists, Roster, [Next]_vars
               PROVE  Roster'
      BY TeamExistsStep
  <2> DEFINE Captains(t) == {m[2] : m \in {n \in MembersOf(t) : n[3] = "captain"}}
  <2>1. ASSUME NEW t \in Teams, NEW u \in Users, CreateTeam(t, u)
        PROVE  Roster'
    <3>1. \A m \in members : m[1] # t
        BY <2>1 DEF CreateTeam, TeamExists
    <3>2. ASSUME NEW x \in Teams
          PROVE  Captains(x)' = {owner'[x]} \ {NoUser}
      <4>1. CASE x = t
        <5>1. {n \in MembersOf(x)' : n[3] = "captain"} = {NewRow(t, u, "captain")}
            BY <2>1, <3>1, <4>1, NewRowFields DEF CreateTeam, MembersOf
        <5>2. owner'[x] = u /\ u # NoUser
            BY <2>1, <4>1, TeamConstants DEF CreateTeam, TypeOK
        <5>3. {m[2] : m \in {NewRow(t, u, "captain")}} = {u}
            BY NewRowFields
        <5> QED
            BY <5>1, <5>2, <5>3
      <4>2. CASE x # t
        <5>1. MembersOf(x)' = MembersOf(x) /\ owner'[x] = owner[x]
            BY <2>1, <4>2, NewRowFields DEF CreateTeam, MembersOf, TypeOK
        <5> QED
            BY <5>1 DEF Roster
      <4> QED
          BY <4>1, <4>2
    <3>3. \A m, n \in members' : m[1] = n[1] /\ m[2] = n[2] => m = n
        BY <2>1, <3>1, NewRowFields DEF CreateTeam, Roster
    <3> QED
        BY <3>2, <3>3 DEF Roster
  <2>2. ASSUME NEW t \in Teams, NEW u \in Users, LeaveTeam(t, u)
        PROVE  Roster'
    <3>1. \A x \in Teams : {n \in MembersOf(x)' : n[3] = "captain"}
                            = {n \in MembersOf(x) : n[3] = "captain"}
        BY <2>2 DEF LeaveTeam, MembersOf
    <3>2. \A x \in Teams : Captains(x)' = Captains(x)
        BY <3>1
    <3> QED
        BY <2>2, <3>2 DEF LeaveTeam, Roster
  <2>3. ASSUME NEW s \in Slots, InsertMember(s)
        PROVE  Roster'
    <3>1. \A x \in Teams : {n \in MembersOf(x)' : n[3] = "captain"}
                            = {n \in MembersOf(x) : n[3] = "captain"}
        BY <2>3, NewRowFields DEF InsertMember, MembersOf
    <3>2. \A x \in Teams : Captains(x)' = Captains(x)
        BY <3>1
    <3>3. \A m, n \in members' : m[1] = n[1] /\ m[2] = n[2] => m = n
        BY <2>3, NewRowFields DEF InsertMember, IsMember, Roster
    <3> QED
        BY <2>3, <3>2, <3>3 DEF InsertMember, Roster
  <2>4. CASE members' = members /\ owner' = owner
      BY <2>4 DEF Roster, MembersOf
  <2> QED
      BY <2>1, <2>2, <2>3, <2>4, MembersStep
<1> QED
    BY <1>1, <1>2, TypeCorrect, PTL DEF Spec
-----------------------------------------------------------------------------
(* The size of a team *)

\* The joins that counted and have not inserted yet.
Counted(t) == {s \in Slots : pc[s] = "insert" /\ join[s][1] = t}

SizeInv ==
    \A t \in Teams :
        Cardinality(MembersOf(t)) + Cardinality(Counted(t))
            <= (MaxTeamSize - 1) + Cardinality(Slots)

LEMMA SizeStep ==
    ASSUME TypeOK, TeamExists, SizeInv, [Next]_vars
    PROVE  SizeInv'
<1> SUFFICES ASSUME NEW t \in Teams
             PROVE  Cardinality(MembersOf(t)') + Cardinality(Counted(t)')
                        <= (MaxTeamSize - 1) + Cardinality(Slots)
    BY DEF SizeInv
<1>1. /\ IsFiniteSet(MembersOf(t)) /\ IsFiniteSet(Slots) /\ MaxTeamSize - 1 \in Nat
      /\ Cardinality(MembersOf(t)) \in Nat /\ Cardinality(Slots) \in Nat
      /\ Counted(t) \in SUBSET Slots /\ Counted(t)' \in SUBSET Slots
      /\ Cardinality(Counted(t)) \in Nat
      /\ Cardinality(MembersOf(t)) + Cardinality(Counted(t))
            <= (MaxTeamSize - 1) + Cardinality(Slots)
  <2>1. MembersOf(t) \in SUBSET members /\ Counted(t) \in SUBSET Slots
      BY DEF MembersOf, Counted
  <2>2. Counted(t)' \in SUBSET Slots
      BY DEF Counted
  <2> QED
      BY <2>1, <2>2, SubsetCardinality, TeamConstants DEF TypeOK, SizeInv
<1>2. ASSUME NEW s \in Counted(t)', s \notin Counted(t)
      PROVE  MembersOf(t)' = MembersOf(t) /\ Cardinality(MembersOf(t)) <= MaxTeamSize - 1
  <2>1. CountMembers(s) /\ ~Full(join[s][1]) /\ join[s][1] = t
      BY <1>2, JoinStep DEF Counted
  <2>2. members' = members
      BY <2>1 DEF CountMembers
  <2>3. MembersOf(t)' = MembersOf(t)
      BY <2>2 DEF MembersOf
  <2> QED
      BY <1>1, <2>1, <2>3, TeamConstants DEF Full
<1>3. ASSUME NEW x \in Teams, NEW u \in Users, CreateTeam(x, u)
      PROVE  Cardinality(MembersOf(t)') + Cardinality(Counted(t)')
                 <= (MaxTeamSize - 1) + Cardinality(Slots)
  <2>1. Counted(t)' = Counted(t)
      BY <1>3 DEF CreateTeam, Counted
  <2>2. CASE x = t
    <3>1. Counted(t) = {}
        BY <1>3, <2>2 DEF CreateTeam, TeamExists, Counted
    <3>2. MembersOf(t)' = {NewRow(t, u, "captain")}
        BY <1>3, <2>2, NewRowFields DEF CreateTeam, TeamExists, MembersOf
    <3>3. Cardinality(MembersOf(t)') = 1 /\ Cardinality(Counted(t)') = 0
        BY <2>1, <3>1, <3>2, FS_EmptySet, FS_Singleton
    <3>4. Cardinality(Slots) # 0
        BY <1>1, FS_EmptySet, TeamConstants
    <3> QED
        BY <1>1, <3>3, <3>4
  <2>3. CASE x # t
    <3>1. MembersOf(t)' = MembersOf(t)
        BY <1>3, <2>3, NewRowFields DEF CreateTeam, MembersOf
    <3> QED
        BY <1>1, <2>1, <3>1
  <2> QED
      BY <2>2, <2>3
<1>4. ASSUME NEW x \in Teams, NEW u \in Users, LeaveTeam(x, u)
      PROVE  Cardinality(MembersOf(t)') + Cardinality(Counted(t)')
                 <= (MaxTeamSize - 1) + Cardinality(Slots)
  <2>1. Counted(t)' = Counted(t)
      BY <1>4 DEF LeaveTeam, Counted
  <2>2. MembersOf(t)' \in SUBSET MembersOf(t)
      BY <1>4 DEF LeaveTeam, MembersOf
  <2>3. Cardinality(MembersOf(t)') \in Nat
        /\ Cardinality(MembersOf(t)') <= Cardinality(MembersOf(t))
      BY <1>1, <2>2, SubsetCardinality
  <2> QED
      BY <1>1, <2>1, <2>3
<1>5. ASSUME NEW s \in Slots, InsertMember(s)
      PROVE  Cardinality(MembersOf(t)') + Cardinality(Counted(t)')
                 <= (MaxTeamSize - 1) + Cardinality(Slots)
  <2>1. MembersOf(t) \subseteq MembersOf(t)'
      BY <1>5 DEF InsertMember, MembersOf
  <2>2. ASSUME NEW m \in MembersOf(t)', m \notin MembersOf(t)
        PROVE  \E z \in Counted(t) \ Counted(t)' :
                   MembersOf(t)' \subseteq MembersOf(t) \cup {m}
    <3>1. /\ members' = members \cup {m}
          /\ join[s][1] = t
        BY <1>5, <2>2, NewRowFields DEF InsertMember, MembersOf
    <3>2. s \in Counted(t) /\ s \notin Counted(t)'
        BY <1>5, <3>1 DEF InsertMember, Finish, Goto, Counted, TypeOK
    <3> QED
        BY <3>1, <3>2 DEF MembersOf
  <2> QED
      BY <1>1, <1>2, <2>1, <2>2, BoundKept
<1>6. CASE members' = members /\ owner' = owner
  <2>1. MembersOf(t)' = MembersOf(t)
      BY <1>6 DEF MembersOf
  <2> QED
      BY <1>1, <1>2, <2>1, BoundKept
<1> QED
    BY <1>3, <1>4, <1>5, <1>6, MembersStep

\* A team never has MaxTeamSize + Slots members or more, however many joins
\* overlap (routers/teams.py, the member count of join_team).
THEOREM SizeBoundHolds == Spec => []SizeBound
<1>1. Init => TeamExists /\ SizeInv
  <2> SUFFICES ASSUME Init
               PROVE  TeamExists /\ SizeInv
      OBVIOUS
  <2>1. members = {} /\ \A t \in Teams : MembersOf(t) = {} /\ Counted(t) = {}
      BY DEF Init, MembersOf, Counted
  <2>2. Cardinality({}) = 0
      BY FS_EmptySet
  <2>3. TeamExists
      BY DEF Init, TeamExists
  <2>4. Cardinality(Slots) \in Nat
      BY FS_CardinalityType, TeamConstants
  <2>5. SizeInv
    <3>1. ASSUME NEW t \in Teams
          PROVE  Cardinality(MembersOf(t)) = 0 /\ Cardinality(Counted(t)) = 0
        BY <2>1, <2>2
    <3>2. 0 + 0 <= (MaxTeamSize - 1) + Cardinality(Slots)
        BY <2>4, TeamConstants
    <3> QED
        BY <3>1, <3>2 DEF SizeInv
  <2> QED
      BY <2>3, <2>5
<1>2. TypeOK /\ TeamExists /\ SizeInv /\ [Next]_vars => TeamExists' /\ SizeInv'
    BY TeamExistsStep, SizeStep
<1>3. TypeOK /\ SizeInv => SizeBound
  <2> SUFFICES ASSUME TypeOK, SizeInv, NEW t \in Teams
               PROVE  Cardinality(MembersOf(t)) < MaxTeamSize + Cardinality(Slots)
      BY DEF SizeBound
  <2>1. MembersOf(t) \in SUBSET members /\ Counted(t) \in SUBSET Slots
      BY DEF MembersOf, Counted
  <2>2. Cardinality(MembersOf(t)) \in Nat /\ Cardinality(Counted(t)) \in Nat
        /\ Cardinality(Slots) \in Nat
      BY <2>1, SubsetCardinality, TeamConstants DEF TypeOK
  <2> QED
      BY <2>2, TeamConstants DEF SizeInv
<1> QED
    BY <1>1, <1>2, <1>3, TypeCorrect, PTL DEF Spec
=============================================================================
