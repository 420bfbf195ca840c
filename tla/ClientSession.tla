--------------------------- MODULE ClientSession ---------------------------
(***************************************************************************)
(* Who a browser takes its user to be: the auth store (store/auth.ts) of   *)
(* each tab, the token the tabs share in localStorage, the forms that sign *)
(* in, and the guard of the admin area (app/admin/layout.tsx).             *)
(*                                                                         *)
(* A token is represented by the account it was issued to.  Every set() of *)
(* the persisted store writes the token of its tab to localStorage, also   *)
(* one that changes another field, and nothing tells the other tabs.       *)
(***************************************************************************)
EXTENDS Integers, FiniteSets

CONSTANTS
    Tabs,
    Accounts, Admins,
    Nobody,
    MaxSession   \* bound: the calls, page loads and logouts of a behaviour

VARIABLES
    at,          \* at[t]: the page tab t is on
    shownUser,   \* shownUser[t], token[t], busy[t], failed[t]: the store of tab t
    token,
    busy,
    failed,
    invalid,     \* invalid[t]: the register page shows its own error
    guarded,     \* guarded[t]: what the effect of the admin layout last ran on
    stored,      \* the token in localStorage
    flight,      \* the calls that are not answered yet
    crossed,     \* history: a /auth/me of another token than the tab's was taken
    sessionCount

sessionVars == <<at, shownUser, token, busy, failed, invalid, guarded, stored, flight,
                 crossed, sessionCount>>

ASSUME SessionAssumption ==
    /\ Admins \subseteq Accounts
    /\ Nobody \notin Accounts
    /\ MaxSession \in Nat

AuthPages == {"login", "register"}
Pages == AuthPages \cup {"practice", "admin"}
Anyone == Accounts \cup {Nobody}
Call == [tab : Tabs, kind : AuthPages \cup {"me"}, who : Accounts, n : 1 .. MaxSession]
NotRun == <<>>

SessionTypeOK ==
    /\ at \in [Tabs -> Pages \cup {"closed"}]
    /\ shownUser \in [Tabs -> Anyone] /\ token \in [Tabs -> Anyone] /\ stored \in Anyone
    /\ busy \in [Tabs -> BOOLEAN] /\ failed \in [Tabs -> BOOLEAN]
    /\ invalid \in [Tabs -> BOOLEAN]
    /\ \A t \in Tabs : guarded[t] # NotRun => at[t] = "admin"
    /\ flight \subseteq Call
    /\ crossed \subseteq Tabs
    /\ sessionCount \in 0 .. MaxSession

SessionInit ==
    /\ at = [t \in Tabs |-> "closed"]
    /\ shownUser = [t \in Tabs |-> Nobody] /\ token = [t \in Tabs |-> Nobody]
    /\ stored \in Anyone
    /\ busy = [t \in Tabs |-> FALSE] /\ failed = [t \in Tabs |-> FALSE]
    /\ invalid = [t \in Tabs |-> FALSE]
    /\ guarded = [t \in Tabs |-> NotRun]
    /\ flight = {} /\ crossed = {} /\ sessionCount = 0
-----------------------------------------------------------------------------
Counted == sessionCount < MaxSession /\ sessionCount' = sessionCount + 1
CallsOf(t) == {c \in flight : c.tab = t}

\* Mutant of GoToPage: the layout keeps its effect when it is left.
GoToPageGuarded(t, p) ==
    /\ at' = [at EXCEPT ![t] = p]
    /\ invalid' = [invalid EXCEPT ![t] = FALSE]
    /\ UNCHANGED guarded

(* Another page: the layout and the form of the old one are unmounted.     *)
GoToPage(t, p) ==
    /\ at' = [at EXCEPT ![t] = p]
    /\ guarded' = [guarded EXCEPT ![t] = NotRun]
    /\ invalid' = [invalid EXCEPT ![t] = FALSE]

(* set(): the fields named, and the token once more to localStorage.       *)
Keep(t, user, tok, isBusy, hasFailed) ==
    /\ shownUser' = [shownUser EXCEPT ![t] = user]
    /\ token' = [token EXCEPT ![t] = tok]
    /\ busy' = [busy EXCEPT ![t] = isBusy]
    /\ failed' = [failed EXCEPT ![t] = hasFailed]
    /\ stored' = tok

\* Mutant of MustCheck: isLoading is set before checkAuth returns early.
MustCheckAlways(tok) == TRUE

(* checkAuth asks nothing without a token.                                 *)
MustCheck(tok) == tok # Nobody

CheckCall(t, tok) ==
    IF tok = Nobody THEN {} ELSE {[tab |-> t, kind |-> "me", who |-> tok, n |-> sessionCount']}

(* A page load: the store starts afresh with the stored token, and the     *)
(* effect of the providers calls checkAuth.                                *)
OpenPage(t, p) ==
    /\ Counted
    /\ GoToPage(t, p)
    /\ shownUser' = [shownUser EXCEPT ![t] = Nobody]
    /\ token' = [token EXCEPT ![t] = stored]
    /\ busy' = [busy EXCEPT ![t] = MustCheck(stored)]
    /\ failed' = [failed EXCEPT ![t] = FALSE]
    /\ flight' = (flight \ CallsOf(t)) \cup CheckCall(t, stored)
    /\ crossed' = crossed \ {t}
    /\ UNCHANGED stored

(* The links of the navigation bar and of the two forms.                   *)
Links(t) ==
    IF at[t] \in AuthPages THEN AuthPages
    ELSE {"practice"} \cup (IF shownUser[t] \in Admins THEN {"admin"} ELSE {})
                      \cup (IF shownUser[t] = Nobody THEN AuthPages ELSE {})

FollowLink(t, p) ==
    /\ at[t] # "closed" /\ p \in Links(t) \ {at[t]}
    /\ GoToPage(t, p)
    /\ UNCHANGED <<shownUser, token, busy, failed, stored, flight, crossed, sessionCount>>

(* The submit button of a form is disabled while the store is loading.     *)
SignIn(t, who) ==
    /\ at[t] \in AuthPages /\ ~busy[t]
    /\ Counted
    /\ Keep(t, shownUser[t], token[t], TRUE, FALSE)
    /\ invalid' = [invalid EXCEPT ![t] = FALSE]
    /\ flight' = flight \cup {[tab |-> t, kind |-> at[t], who |-> who, n |-> sessionCount']}
    /\ UNCHANGED <<at, guarded, crossed>>

(* Passwords that differ or are short never leave the page.                *)
RefuseForm(t) ==
    /\ at[t] = "register" /\ ~busy[t]
    /\ Keep(t, shownUser[t], token[t], FALSE, FALSE)
    /\ invalid' = [invalid EXCEPT ![t] = TRUE]
    /\ UNCHANGED <<at, guarded, flight, crossed, sessionCount>>

(* Both forms read user and token from the answer.  Only /auth/login sends *)
(* them: /auth/register answers the bare user, and both fields come out    *)
(* undefined.                                                              *)
Granted(c) == IF c.kind = "login" THEN c.who ELSE Nobody

(* router.push runs wherever the user has gone meanwhile.                  *)
SignedIn(c) ==
    /\ c \in flight /\ c.kind \in AuthPages
    /\ Keep(c.tab, Granted(c), Granted(c), FALSE, failed[c.tab])
    /\ GoToPage(c.tab, "practice")
    /\ flight' = flight \ {c}
    /\ crossed' = crossed \ {c.tab}
    /\ UNCHANGED sessionCount

SignInFails(c) ==
    /\ c \in flight /\ c.kind \in AuthPages
    /\ Keep(c.tab, shownUser[c.tab], token[c.tab], FALSE, TRUE)
    /\ flight' = flight \ {c}
    /\ UNCHANGED <<at, guarded, invalid, crossed, sessionCount>>

Logout(t) ==
    /\ at[t] \in Pages \ AuthPages /\ shownUser[t] # Nobody
    /\ Counted
    /\ Keep(t, Nobody, Nobody, busy[t], failed[t])
    /\ crossed' = crossed \ {t}
    /\ UNCHANGED <<at, guarded, invalid, flight>>

StartCheck(t) ==
    /\ Keep(t, shownUser[t], token[t], MustCheck(token[t]), failed[t])
    /\ flight' = flight \cup CheckCall(t, token[t])

(* The effect of the admin layout, run when the user or the token is       *)
(* another one than it last ran on.                                        *)
Seen(t) == <<shownUser[t], token[t]>>
Due(t) == at[t] = "admin" /\ guarded[t] # Seen(t)

GuardBounces(t) ==
    /\ Due(t)
    /\ \/ token[t] = Nobody /\ GoToPage(t, "login")
       \/ /\ token[t] # Nobody /\ shownUser[t] \in Accounts \ Admins
          /\ GoToPage(t, "practice")
    /\ UNCHANGED <<shownUser, token, busy, failed, stored, flight, crossed, sessionCount>>

GuardAsks(t) ==
    /\ Due(t)
    /\ token[t] # Nobody /\ shownUser[t] = Nobody
    /\ Counted
    /\ StartCheck(t)
    /\ guarded' = [guarded EXCEPT ![t] = Seen(t)]
    /\ UNCHANGED <<at, invalid, crossed>>

GuardAdmits(t) ==
    /\ Due(t)
    /\ token[t] # Nobody /\ shownUser[t] \in Admins
    /\ guarded' = [guarded EXCEPT ![t] = Seen(t)]
    /\ UNCHANGED <<at, shownUser, token, busy, failed, invalid, stored, flight, crossed,
                   sessionCount>>

(* The answers of /auth/me; any failure forgets the token.                 *)
Recognised(c) ==
    /\ c \in flight /\ c.kind = "me"
    /\ Keep(c.tab, c.who, token[c.tab], FALSE, failed[c.tab])
    /\ flight' = flight \ {c}
    /\ crossed' = IF token[c.tab] = c.who THEN crossed \ {c.tab} ELSE crossed \cup {c.tab}
    /\ UNCHANGED <<at, guarded, invalid, sessionCount>>

NotRecognised(c) ==
    /\ c \in flight /\ c.kind = "me"
    /\ Keep(c.tab, Nobody, Nobody, FALSE, failed[c.tab])
    /\ flight' = flight \ {c}
    /\ crossed' = crossed \ {c.tab}
    /\ UNCHANGED <<at, guarded, invalid, sessionCount>>

(* The children of the admin layout are on the screen.                     *)
AdminShown(t) ==
    at[t] = "admin" /\ token[t] # Nobody /\ (shownUser[t] # Nobody => shownUser[t] \in Admins)

Answered == \E c \in flight : SignedIn(c) \/ SignInFails(c) \/ Recognised(c) \/ NotRecognised(c)
GuardRuns(t) == GuardBounces(t) \/ GuardAsks(t) \/ GuardAdmits(t)

SessionNext ==
    \/ \E t \in Tabs, p \in Pages : OpenPage(t, p) \/ FollowLink(t, p)
    \/ \E t \in Tabs, who \in Accounts : SignIn(t, who)
    \/ \E t \in Tabs : RefuseForm(t) \/ Logout(t) \/ GuardRuns(t)
    \/ Answered

SessionSpec == SessionInit /\ [][SessionNext]_sessionVars
-----------------------------------------------------------------------------
(* The spinner has a reason: a store that is loading waits for a call that *)
(* is in flight, though several calls share the one flag (checkAuth's      *)
(* early return, and every catch, lower or never raise it).                *)
BusyHasCall == \A t \in Tabs : busy[t] => CallsOf(t) # {}

(* A tab shows the user its token was issued to, and shows none without a  *)
(* token, unless an answer of /auth/me overtook a login or a logout.       *)
UserOwnsToken == \A t \in Tabs \ crossed : shownUser[t] \in {Nobody, token[t]}

(* What a tab shows in the admin area, once the calls are answered, is     *)
(* shown to an admin.                                                      *)
AdminSettled == \A t \in Tabs :
    AdminShown(t) /\ ~Due(t) /\ CallsOf(t) = {} => shownUser[t] \in Admins

(* The session of every tab: a spinner waits for a call, a user goes with  *)
(* his token, the admin area is an admin's (store/auth.ts,                 *)
(* admin/layout.tsx).                                                      *)
SessionSound == BusyHasCall /\ UserOwnsToken /\ AdminSettled
=============================================================================
