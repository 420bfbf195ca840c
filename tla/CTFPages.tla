------------------------------ MODULE CTFPages ------------------------------
(***************************************************************************)
(* The pages of the CTF area in one browser tab (app/ctf) over their store *)
(* (store/ctf.ts).  One store serves four pages: an answer finds whatever  *)
(* page the user has gone to, one flag stands for three kinds of call, and *)
(* answers arrive in any order.  A call goes out under the token of the    *)
(* moment (lib/api.ts), and signing out and in as another user, here or in *)
(* a second tab, leaves the store as it was.  The memberships are the rows *)
(* routers/ctf_compat.py reads and writes; every route there answers from  *)
(* one transaction, a step of its own here.                                *)
(***************************************************************************)
EXTENDS Integers, FiniteSets

CONSTANTS
    CTFUsers, NoUser,
    CTFTeams, NoTeam,
    CTFEvents, NoEvent,
    StartOf, EndOf,   \* the dates of an event; the end 0 is that of an open one, null
    MaxClicks,     \* bound: the visits and clicks of a behaviour
    MaxNow         \* bound: the seconds of a behaviour

VARIABLES
    ctfPage,
    who,           \* the user whose token the calls of the tab carry
    event, team,   \* the store: the event and the team,
    roster,        \* whether the team came with its members,
    filled,        \* and which of leaderboard and challenges have entries
    ctfBusy,       \* isLoading
    timer,         \* what EventTimer last computed
    now,
    joined,        \* the rows <<user, team, role>> of team_members
    asked,         \* the calls of event and team that are not answered yet
    lists,         \* the lists that were asked for, and whose answers may arrive
    serial,        \* history: the calls the backend has handled
    taken,         \* history: the latest of them whose answer was taken
    doubt,         \* history: an answer was lost or overtaken, or the user changed, and
                   \* the team was not fetched since
    clicks

ctfVars == <<ctfPage, who, event, team, roster, filled, ctfBusy, timer, now, joined,
             asked, lists, serial, taken, doubt, clicks>>

ASSUME CTFPagesAssumption ==
    /\ NoTeam \notin CTFTeams /\ NoEvent \notin CTFEvents /\ NoUser \notin CTFUsers
    /\ "refused" \notin CTFTeams \cup {NoTeam}
    /\ StartOf \in [CTFEvents -> Nat] /\ EndOf \in [CTFEvents -> Nat]
    /\ MaxClicks \in Nat /\ MaxNow \in Nat \ {0}

CTFRoutes == {"ctf", "team", "challenges", "leaderboard"}
Writes == {"create", "join", "leave"}
Lists == {"board", "challenges"}
Anybody == CTFUsers \cup {NoUser}
TeamRoles == {"captain", "member"}
TeamsOf(u) == {t \in CTFTeams : \E role \in TeamRoles : <<u, t, role>> \in joined}

CTFTypeOK ==
    /\ ctfPage \in CTFRoutes \cup {"elsewhere"} /\ who \in Anybody
    /\ event \in CTFEvents \cup {NoEvent} /\ team \in CTFTeams \cup {NoTeam} /\ roster \in BOOLEAN
    /\ filled \subseteq Lists /\ lists \subseteq Lists
    /\ ctfBusy \in BOOLEAN /\ timer \in {"upcoming", "active", "ended"}
    /\ now \in 1 .. MaxNow
    /\ joined \subseteq CTFUsers \X CTFTeams \X TeamRoles
    /\ \A c \in asked : c.kind \in Writes \cup {"event", "team"} /\ c.at \in 0 .. serial
    /\ serial \in Nat /\ taken \in 0 .. serial /\ doubt \in BOOLEAN
    /\ clicks \in 0 .. MaxClicks

CTFInit ==
    /\ ctfPage = "elsewhere" /\ who \in CTFUsers
    /\ event = NoEvent /\ team = NoTeam /\ roster = FALSE
    /\ filled = {} /\ ctfBusy = FALSE
    /\ timer = "upcoming" /\ now = 1
    /\ joined = {} \/ \E row \in CTFUsers \X CTFTeams \X TeamRoles : joined = {row}
    /\ asked = {} /\ lists = {}
    /\ serial = 0 /\ taken = 0 /\ doubt = FALSE /\ clicks = 0
-----------------------------------------------------------------------------
(* What each page draws.                                                   *)
CTFView ==
    IF ctfBusy /\ event = NoEvent THEN "spinner"
    ELSE IF event # NoEvent THEN "event" ELSE "no event"
TeamView == IF team # NoTeam THEN "team" ELSE "forms"
ChallengesView ==
    IF ctfBusy THEN "skeleton" ELSE IF "challenges" \in filled THEN "groups" ELSE "empty"
\* The overview passes no isLoading to the table.
ScoreboardView ==
    IF ctfPage = "leaderboard" /\ ctfBusy THEN "skeleton"
    ELSE IF "board" \in filled THEN "table" ELSE "no scores"

(* The links of the overview: to the team from the card of the team or the *)
(* card that offers one, to all challenges when there are several.         *)
OverviewLinks ==
    IF CTFView # "event" THEN {}
    ELSE {"team", "leaderboard"} \cup (filled \cap {"challenges"})

\* A typed address is a page load, and finds the store as it is at first.
CTFLinks ==
    {"ctf", "elsewhere"} \cup (IF ctfPage = "ctf" THEN OverviewLinks ELSE {})
                         \cup (IF clicks = 0 THEN CTFRoutes ELSE {})

(* EventTimer: new Date(null) is the epoch, so that an event without an    *)
(* end reads as over from its start on.                                    *)
TimerAt(e, t) ==
    IF e = NoEvent THEN "upcoming"
    ELSE IF t < StartOf[e] THEN "upcoming" ELSE IF t > EndOf[e] THEN "ended" ELSE "active"

\* Mutant of Retimed: the effect of the timer does not depend on the dates.
RetimedOnTick(e) == timer

(* The effect of the timer runs again when the dates change.               *)
Retimed(e) == TimerAt(e, now)

CTFCall(kind, t) == [kind |-> kind, by |-> who, team |-> t, n |-> clicks', at |-> 0, got |-> "nothing"]

(* What the effect of each page asks for.                                  *)
CTFEffect(p) ==
    (IF p = "ctf" THEN {CTFCall("event", NoTeam)} ELSE {})
        \cup (IF p \in {"ctf", "team"} THEN {CTFCall("team", NoTeam)} ELSE {})
ListEffect(p) ==
    (IF p \in {"ctf", "leaderboard"} THEN {"board"} ELSE {})
        \cup (IF p \in {"ctf", "challenges"} THEN {"challenges"} ELSE {})

Clicked == clicks < MaxClicks /\ clicks' = clicks + 1

VisitCTF(p) ==
    /\ p \in CTFLinks \ {ctfPage}
    /\ Clicked
    /\ ctfPage' = p
    /\ asked' = asked \cup CTFEffect(p)
    /\ lists' = lists \cup ListEffect(p)
    /\ ctfBusy' = (ctfBusy \/ p = "ctf")
    /\ timer' = Retimed(event)
    /\ UNCHANGED <<who, event, team, roster, filled, now, joined, serial, taken, doubt>>

(* Log out in the menu, a sign-in, which leads to the practice pages, or   *)
(* either of them in a second tab: the token changes, and no store but the *)
(* session's.                                                              *)
ChangeUser(u) ==
    /\ u \in Anybody \ {who}
    /\ Clicked
    /\ who' = u
    /\ ctfPage' \in {ctfPage, "elsewhere"}
    /\ doubt' = TRUE
    /\ UNCHANGED <<event, team, roster, filled, ctfBusy, timer, now, joined, asked, lists,
                   serial, taken>>

(* The two forms, whose buttons are disabled while the store is loading.   *)
Enrol(kind, t) ==
    /\ ctfPage = "team" /\ TeamView = "forms" /\ ~ctfBusy
    /\ kind \in {"create", "join"}
    /\ Clicked
    /\ ctfBusy' = TRUE
    /\ asked' = asked \cup {CTFCall(kind, t)}
    /\ UNCHANGED <<ctfPage, who, event, team, roster, filled, timer, now, joined, lists,
                   serial, taken, doubt>>

(* The Leave button of the team card is never disabled.                    *)
ClickLeave ==
    /\ ctfPage = "team" /\ TeamView = "team"
    /\ Clicked
    /\ asked' = asked \cup {CTFCall("leave", NoTeam)}
    /\ UNCHANGED <<ctfPage, who, event, team, roster, filled, ctfBusy, timer, now, joined,
                   lists, serial, taken, doubt>>

(* The backend handles a call: it may refuse it, as it does without a      *)
(* token, and answers /ctf/team and /ctf/teams/leave by any one of the     *)
(* memberships of the caller.                                              *)
Answer(c, got) ==
    /\ serial' = serial + 1
    /\ asked' = (asked \ {c}) \cup {[c EXCEPT !.at = serial', !.got = got]}
    /\ UNCHANGED <<ctfPage, who, event, team, roster, filled, ctfBusy, timer, now, lists,
                   taken, doubt, clicks>>

ServeRead(c) ==
    /\ c.kind = "team" /\ UNCHANGED joined
    /\ \/ TeamsOf(c.by) = {} /\ Answer(c, NoTeam)
       \/ \E t \in TeamsOf(c.by) : Answer(c, t)

ServeWrite(c) ==
    \/ /\ c.kind = "create" /\ c.team \notin TeamsOf(c.by)
       /\ joined' = joined \cup {<<c.by, c.team, "captain">>}
       /\ Answer(c, c.team)
    \/ /\ c.kind = "join" /\ c.team \notin TeamsOf(c.by)
       /\ joined' = joined \cup {<<c.by, c.team, "member">>}
       /\ Answer(c, c.team)
    \/ /\ c.kind = "leave"
       /\ \E row \in joined :
            /\ row[1] = c.by /\ row[3] = "member"
            /\ joined' = joined \ {row}
       /\ Answer(c, NoTeam)

Refuse(c) == Answer(c, "refused") /\ UNCHANGED joined

Serve(c) ==
    /\ c \in asked /\ c.kind # "event" /\ c.at = 0
    /\ (c.by # NoUser /\ (ServeRead(c) \/ ServeWrite(c))) \/ Refuse(c)

-----------------------------------------------------------------------------
InOrder(c) == c.at > taken /\ c.by = who
Later(c) == IF c.at > taken THEN c.at ELSE taken

\* Mutant of ShownAfter: a null answer of /ctf/team is ignored.
ShownAfterTeam(c) == IF c.kind = "team" /\ c.got = NoTeam THEN team ELSE c.got

(* Whatever the answer holds is shown, the null of a user without a team   *)
(* included.                                                               *)
ShownAfter(c) == c.got

\* Mutant of BusyAfter: a failed create or join leaves the flag up.
BusyAfterSuccess(c, ok) ==
    IF c.kind \in {"event", "create", "join"} /\ ok THEN FALSE ELSE ctfBusy

(* The answers that lower the flag, whichever call raised it.              *)
BusyAfter(c, ok) == IF c.kind \in {"event", "create", "join"} THEN FALSE ELSE ctfBusy

(* The answer of a call about the team that succeeded.                     *)
Take(c) ==
    /\ c \in asked /\ c.at > 0 /\ c.got # "refused"
    /\ asked' = asked \ {c}
    /\ ctfBusy' = BusyAfter(c, TRUE)
    /\ team' = ShownAfter(c)
    /\ roster' = (c.kind = "team")
    /\ taken' = Later(c)
    /\ doubt' = IF InOrder(c) THEN doubt /\ c.kind # "team" ELSE TRUE
    /\ UNCHANGED <<ctfPage, who, event, filled, timer, now, joined, lists, serial, clicks>>

(* /ctf/event answers the active event of the moment, or null.             *)
TakeEvent(c) ==
    /\ c \in asked /\ c.kind = "event"
    /\ asked' = asked \ {c}
    /\ ctfBusy' = BusyAfter(c, TRUE)
    /\ event' \in CTFEvents \cup {NoEvent}
    /\ timer' = Retimed(event')
    /\ UNCHANGED <<ctfPage, who, team, roster, filled, now, joined, lists, serial, taken, doubt, clicks>>

(* A call that failed: it was refused, did not arrive, or was handled and  *)
(* its answer lost.  The catch of a fetch or of leaveTeam does nothing.    *)
Miss(c) ==
    /\ c \in asked
    /\ asked' = asked \ {c}
    /\ ctfBusy' = BusyAfter(c, FALSE)
    /\ taken' = IF c.at > 0 THEN Later(c) ELSE taken
    /\ doubt' = (doubt \/ (c.kind \in Writes /\ c.at > 0 /\ c.got # "refused"))
    /\ UNCHANGED <<ctfPage, who, event, team, roster, filled, timer, now, joined, lists,
                   serial, clicks>>

(* fetchLeaderboard and fetchChallenges keep the old list when they fail.  *)
TakeList(kind) ==
    /\ kind \in lists
    /\ filled' \in {filled \cup {kind}, filled \ {kind}}
    /\ UNCHANGED <<ctfPage, who, event, team, roster, ctfBusy, timer, now, joined, asked, lists,
                   serial, taken, doubt, clicks>>

(* The interval of the timer, which runs while the overview draws it.      *)
TickTimer ==
    /\ now < MaxNow /\ now' = now + 1
    /\ timer' = IF ctfPage = "ctf" THEN TimerAt(event, now') ELSE timer
    /\ UNCHANGED <<ctfPage, who, event, team, roster, filled, ctfBusy, joined, asked,
                   lists, serial, taken, doubt, clicks>>

CTFNext ==
    \/ \E p \in CTFRoutes \cup {"elsewhere"} : VisitCTF(p)
    \/ \E kind \in {"create", "join"}, t \in CTFTeams : Enrol(kind, t)
    \/ \E u \in Anybody : ChangeUser(u)
    \/ ClickLeave \/ TickTimer
    \/ \E c \in asked : Serve(c) \/ Take(c) \/ TakeEvent(c) \/ Miss(c)
    \/ \E kind \in Lists : TakeList(kind)

CTFSpec == CTFInit /\ [][CTFNext]_ctfVars
-----------------------------------------------------------------------------
(* The team a tab shows is one its user is in, however visits, joins and   *)
(* leaves overlap and fail, once the writes are answered: unless an answer *)
(* was lost or overtaken, or another user signed in, and the team was not  *)
(* fetched since.  Of itself the store recovers from none of the three.    *)
TeamShownIsOurs ==
    ~doubt /\ (\A c \in asked : c.by = who /\ c.kind \in Writes => c.at = 0)
        => team \in TeamsOf(who) \cup {NoTeam}

(* No page is left on its skeleton when nothing is on its way, though one  *)
(* flag stands for the event and for both forms.                           *)
SkeletonsEnd ==
    asked = {} => CTFView # "spinner" /\ ChallengesView # "skeleton" /\ ScoreboardView # "skeleton"

(* The overview announces the end of an event that has one when it is over *)
(* and not before, by the clock of the browser, also when another event    *)
(* was fetched under the timer.  An open event it calls ended from the     *)
(* start (EventTimer.tsx:31-42).                                           *)
EndIsAnnounced ==
    ctfPage = "ctf" /\ CTFView = "event" /\ EndOf[event] # 0 =>
        (timer = "ended" <=> now >= StartOf[event] /\ now > EndOf[event])

(* What the CTF pages show is the user's team, loads only while something  *)
(* is on its way, and ends when the event does (store/ctf.ts, app/ctf).    *)
CTFSound == TeamShownIsOurs /\ SkeletonsEnd /\ EndIsAnnounced
=============================================================================
