------------------------------ MODULE AdminStore ------------------------------
(***************************************************************************)
(* The users and challenges of the admin area: store/admin.ts and the two  *)
(* pages over it.  A switch or a menu entry sends one field of one row; on *)
(* success the field is set in the list the store holds by then.  One user *)
(* and one challenge stand for all: an update touches its own row only.    *)
(* isLoading and error of the store are read by no page and left out.      *)
(***************************************************************************)
EXTENDS Integers, FiniteSets

CONSTANT MaxActs   \* bound: the visits and clicks of a behaviour

VARIABLES
    adminPage,
    inDb,         \* inDb[f]: field f in the database
    shownField,   \* shownField[f]: in the store, "absent" before the row was fetched
    ownSwitch,    \* ownSwitch[f]: what the switch of f was last clicked to while it was on its own
    storeCalls,   \* the calls that are not answered yet
    done,         \* history: the calls the backend has handled
    taken2,       \* history: taken2[p]: the latest of them on the list of p that was taken
    unsure,       \* history: the lists that an answer was lost or overtaken for
    acts

storeVars == <<adminPage, inDb, shownField, ownSwitch, storeCalls, done, taken2, unsure, acts>>

ASSUME AdminStoreAssumption == MaxActs \in Nat

UserFields == {"role", "is_banned"}
ChallengeFields == {"is_active", "waf_enabled", "hints_enabled"}
Fields == UserFields \cup ChallengeFields
ListOf(f) == IF f \in UserFields THEN "users" ELSE "challenges"
FieldsOf(p) == {f \in Fields : ListOf(f) = p}
Shown == {"absent", "undefined", "on", "off"}
AllOff == [f \in Fields |-> "off"]
Flip(v) == IF v = "on" THEN "off" ELSE "on"

StoreTypeOK ==
    /\ adminPage \in {"users", "challenges", "dashboard"}
    /\ inDb \in [Fields -> {"on", "off"}] /\ shownField \in [Fields -> Shown]
    /\ ownSwitch \in [Fields -> {"on", "off"}]
    /\ \A c \in storeCalls : c.list \in {"users", "challenges"} /\ c.at \in 0 .. done
    /\ done \in Nat /\ unsure \subseteq {"users", "challenges"}
    /\ \A p \in {"users", "challenges"} : taken2[p] \in 0 .. done
    /\ acts \in 0 .. MaxActs

StoreInit ==
    /\ adminPage = "dashboard"
    /\ inDb \in [Fields -> {"on", "off"}]
    /\ shownField = [f \in Fields |-> "absent"] /\ ownSwitch = AllOff
    /\ storeCalls = {} /\ done = 0
    /\ taken2 = [p \in {"users", "challenges"} |-> 0]
    /\ unsure = {} /\ acts = 0
-----------------------------------------------------------------------------
Acted == acts < MaxActs /\ acts' = acts + 1
StoreCall(p, field, value) ==
    [list |-> p, field |-> field, value |-> value, n |-> acts', at |-> 0, ok |-> FALSE,
     rows |-> shownField]

(* What the page draws: a Radix switch whose value is undefined keeps a    *)
(* state of its own, which is off when it is mounted.                      *)
DrawnField(f) == IF shownField[f] = "undefined" THEN ownSwitch[f] ELSE shownField[f]

(* The effect of either page, and the Refresh button of the challenges.    *)
OpenAdmin(p) ==
    /\ p # adminPage \/ p = "challenges"
    /\ Acted
    /\ adminPage' = p
    /\ ownSwitch' = IF p = adminPage THEN ownSwitch ELSE AllOff
    /\ storeCalls' = storeCalls \cup (IF p = "dashboard" THEN {} ELSE {StoreCall(p, "all", "on")})
    /\ UNCHANGED <<inDb, shownField, done, taken2, unsure>>

(* Closing the group of a category and opening it mounts its switches.     *)
ReopenGroup ==
    /\ adminPage = "challenges" /\ ownSwitch # AllOff
    /\ ownSwitch' = AllOff
    /\ UNCHANGED <<adminPage, inDb, shownField, storeCalls, done, taken2, unsure, acts>>

(* A menu of UserTable offers the other value, a switch the other position. *)
ClickField(f) ==
    /\ adminPage = ListOf(f) /\ shownField[f] # "absent"
    /\ Acted
    /\ storeCalls' = storeCalls \cup {StoreCall(ListOf(f), f, Flip(DrawnField(f)))}
    /\ ownSwitch' = IF shownField[f] = "undefined"
                    THEN [ownSwitch EXCEPT ![f] = Flip(DrawnField(f))] ELSE ownSwitch
    /\ UNCHANGED <<adminPage, inDb, shownField, done, taken2, unsure>>

\* Mutant of BackendField: the names of the page are sent as they are.
PageField(f) == f

(* FIELD_MAP, for the challenges.                                          *)
BackendField(f) ==
    CASE f = "is_active" -> "enabled" [] f = "hints_enabled" -> "hint_enabled" [] OTHER -> f

(* PATCH ignores a field it does not know.                                 *)
Column(name) ==
    CASE name = "enabled" -> {"is_active"} [] name = "hint_enabled" -> {"hints_enabled"}
      [] name \in {"is_active", "hints_enabled"} -> {}
      [] OTHER -> {name}

(* A row as GET sends it: the challenges carry enabled and hint_enabled,   *)
(* so that the fields the page reads are undefined.                        *)
SentAsRead(f) == f \in Column(f)
Fetched(f) == IF SentAsRead(f) THEN inDb[f] ELSE "undefined"

Serves(c) ==
    /\ c \in storeCalls /\ c.at = 0
    /\ done' = done + 1
    /\ inDb' = [f \in Fields |-> IF c.field # "all" /\ f \in Column(BackendField(c.field))
                                 THEN c.value ELSE inDb[f]]
    /\ storeCalls' = (storeCalls \ {c}) \cup
         {[c EXCEPT !.at = done', !.ok = TRUE,
                    !.rows = [f \in Fields |-> IF f \in FieldsOf(c.list) THEN Fetched(f) ELSE "absent"]]}
    /\ UNCHANGED <<adminPage, shownField, ownSwitch, taken2, unsure, acts>>

Prompt(c) == c.at > taken2[c.list]

Succeeds(c) ==
    /\ c \in storeCalls /\ c.ok
    /\ storeCalls' = storeCalls \ {c}
    /\ shownField' = [f \in Fields |->
         IF f \notin FieldsOf(c.list) THEN shownField[f]
         ELSE IF c.field = "all" THEN c.rows[f]
         ELSE IF f = c.field /\ shownField[f] # "absent" THEN c.value ELSE shownField[f]]
    /\ taken2' = IF Prompt(c) THEN [taken2 EXCEPT ![c.list] = c.at] ELSE taken2
    /\ unsure' = IF ~Prompt(c) THEN unsure \cup {c.list}
                 ELSE IF c.field = "all" THEN unsure \ {c.list} ELSE unsure
    /\ UNCHANGED <<adminPage, inDb, ownSwitch, done, acts>>

(* Refused, never sent, or handled and its answer lost.                    *)
Fails(c) ==
    /\ c \in storeCalls
    /\ storeCalls' = storeCalls \ {c}
    /\ taken2' = IF c.ok /\ Prompt(c) THEN [taken2 EXCEPT ![c.list] = c.at] ELSE taken2
    /\ unsure' = IF c.ok /\ c.field # "all" THEN unsure \cup {c.list} ELSE unsure
    /\ UNCHANGED <<adminPage, inDb, shownField, ownSwitch, done, acts>>

StoreNext ==
    \/ \E p \in {"users", "challenges", "dashboard"} : OpenAdmin(p)
    \/ ReopenGroup
    \/ \E f \in Fields : ClickField(f)
    \/ \E c \in storeCalls : Serves(c) \/ Succeeds(c) \/ Fails(c)

StoreSpec == StoreInit /\ [][StoreNext]_storeVars
-----------------------------------------------------------------------------
(* A field of the admin pages is drawn as the database holds it, once the  *)
(* calls of its list are answered: updates of one list may overlap each    *)
(* other and a fetch, unless an answer was lost or overtaken and the list  *)
(* not fetched since.  Excepted are is_active and hints_enabled from a     *)
(* fetch to the next update that succeeds: the backend sends them under    *)
(* other names, and the page draws off, or what was clicked, for what the  *)
(* database has on (ChallengeToggle.tsx:52-53).                            *)
FieldsSettle == \A f \in Fields :
    /\ shownField[f] # "absent" /\ ListOf(f) \notin unsure
    /\ \A c \in storeCalls : c.list = ListOf(f) => ~c.ok
    /\ SentAsRead(f) \/ shownField[f] # "undefined"
    => DrawnField(f) = inDb[f]
=============================================================================
