----------------------------- MODULE AdminPanels -----------------------------
(***************************************************************************)
(* The admin pages that watch: rabbit holes with their switch, schedule,   *)
(* dashboard and monitor.  The switch of the rabbit holes is a variable of *)
(* each backend worker (routers/rabbit_holes.py): a request reads or flips *)
(* that of the worker it reaches.                                          *)
(***************************************************************************)
EXTENDS Integers, FiniteSets

CONSTANTS
    Workers,
    MaxRows,    \* bound: the submissions and events of the database
    MaxLooks    \* bound: the visits and clicks of a behaviour

VARIABLES
    panel,
    opening,      \* which opening of the page this is
    holes,        \* holes[w]: rabbit_holes_enabled of worker w
    holesShown,   \* the switch of the page
    panelBusy,    \* isLoading of the page
    hasStats,     \* the panels whose last fetch brought something to draw
    shownCount,   \* the submissions the dashboard counts
    rowsInDb,
    polls,        \* the intervals that run
    panelCalls,   \* the calls that are not answered yet
    reached,      \* history: the calls the backend has handled
    newest,       \* history: the latest of them whose answer was taken
    doubted,      \* history: an answer was lost, overtaken, a failure, or a flip of a page
                  \* that was left, and no fetch followed
    looks

panelVars == <<panel, opening, holes, holesShown, panelBusy, hasStats, shownCount, rowsInDb,
               polls, panelCalls, reached, newest, doubted, looks>>

ASSUME PanelsAssumption == Workers # {} /\ MaxRows \in Nat /\ MaxLooks \in Nat

Watching == {"rabbit-holes", "schedule", "dashboard", "monitor"}
Intervals == {"health", "events"}

PanelTypeOK ==
    /\ panel \in Watching \cup {"none"} /\ opening \in 0 .. MaxLooks
    /\ holes \in [Workers -> BOOLEAN] /\ holesShown \in BOOLEAN
    /\ panelBusy \in BOOLEAN /\ hasStats \subseteq Watching
    /\ shownCount \in 0 .. MaxRows /\ rowsInDb \in 0 .. MaxRows
    /\ polls \subseteq Intervals \X (0 .. MaxLooks)
    /\ \A c \in panelCalls : c.of \in Watching /\ c.at \in 0 .. reached
    /\ reached \in Nat /\ newest \in 0 .. reached /\ doubted \in BOOLEAN
    /\ looks \in 0 .. MaxLooks

PanelInit ==
    /\ panel = "none" /\ opening = 0
    /\ \E on \in BOOLEAN : holes = [w \in Workers |-> on]
    /\ holesShown = FALSE /\ panelBusy = FALSE /\ hasStats = {} /\ shownCount = 0
    /\ rowsInDb \in 0 .. MaxRows
    /\ polls = {} /\ panelCalls = {}
    /\ reached = 0 /\ newest = 0 /\ doubted = TRUE /\ looks = 0
-----------------------------------------------------------------------------
Looked == looks < MaxLooks /\ looks' = looks + 1
PanelCall(kind, p, next) ==
    [kind |-> kind, of |-> p, mount |-> opening', n |-> looks', next |-> next, at |-> 0, on |-> FALSE]

(* The pages that keep an isLoading raise it for every fetch.              *)
HasSkeleton(p) == p \in {"rabbit-holes", "schedule"}

\* Mutant of PollsOf: leaving the page clears no interval.
PollsOfMonitorKept(p) ==
    polls \cup (IF p = "monitor" THEN Intervals \X {opening'} ELSE {})

(* The effect of the monitor starts two intervals, and its cleanup clears  *)
(* the two it started.                                                     *)
PollsOf(p) == IF p = "monitor" THEN Intervals \X {opening'} ELSE {}

(* Opening a page mounts it afresh; the dashboard's numbers are a store's. *)
OpenPanel(p) ==
    /\ p # panel
    /\ Looked
    /\ panel' = p /\ opening' = looks'
    /\ holesShown' = FALSE /\ panelBusy' = HasSkeleton(p)
    /\ hasStats' = hasStats \cap {"dashboard"}
    /\ polls' = PollsOf(p)
    /\ panelCalls' = panelCalls \cup (IF p = "none" THEN {} ELSE {PanelCall("fetch", p, FALSE)})
    /\ doubted' = TRUE
    /\ UNCHANGED <<holes, shownCount, rowsInDb, reached, newest>>

RefreshPanel ==
    /\ panel # "none"
    /\ Looked
    /\ opening' = opening
    /\ panelBusy' = HasSkeleton(panel)
    /\ panelCalls' = panelCalls \cup {PanelCall("fetch", panel, FALSE)}
    /\ UNCHANGED <<panel, holes, holesShown, hasStats, shownCount, rowsInDb, polls, reached,
                   newest, doubted>>

\* Every 15 and 30 seconds; a poll of the event log only asks for the health.
Poll(i) ==
    /\ <<i, opening>> \in polls
    /\ Looked
    /\ opening' = opening
    /\ panelCalls' = panelCalls \cup {PanelCall("fetch", "monitor", FALSE)}
    /\ UNCHANGED <<panel, holes, holesShown, panelBusy, hasStats, shownCount, rowsInDb, polls,
                   reached, newest, doubted>>

(* The switch is drawn, and works, while the page loads as well.           *)
FlipSwitch ==
    /\ panel = "rabbit-holes"
    /\ Looked
    /\ opening' = opening
    /\ panelCalls' = panelCalls \cup {PanelCall("toggle", panel, ~holesShown)}
    /\ UNCHANGED <<panel, holes, holesShown, panelBusy, hasStats, shownCount, rowsInDb, polls,
                   reached, newest, doubted>>

AtWorker(c, w) ==
    /\ c \in panelCalls /\ c.at = 0
    /\ reached' = reached + 1
    /\ holes' = IF c.kind = "toggle" THEN [holes EXCEPT ![w] = ~@] ELSE holes
    /\ panelCalls' = (panelCalls \ {c}) \cup {[c EXCEPT !.at = reached', !.on = holes'[w]]}
    /\ UNCHANGED <<panel, opening, holesShown, panelBusy, hasStats, shownCount, rowsInDb, polls,
                   newest, doubted, looks>>
-----------------------------------------------------------------------------
Shows(c) == panel = c.of /\ opening = c.mount
Newer(c) == c.at > newest
Latest(c) == IF Newer(c) THEN c.at ELSE newest

\* The list is asked for with limit=1, and its length is the number shown.
LengthAtMostOne(k) == IF k = 0 THEN 0 ELSE 1

FetchArrives(c) ==
    /\ c \in panelCalls /\ c.kind = "fetch" /\ c.at > 0
    /\ panelCalls' = panelCalls \ {c}
    /\ panelBusy' = (panelBusy /\ ~Shows(c))
    /\ hasStats' = IF Shows(c) \/ c.of = "dashboard" THEN hasStats \cup {c.of} ELSE hasStats
    /\ shownCount' \in IF c.of = "dashboard" THEN {0, LengthAtMostOne(rowsInDb)} ELSE {shownCount}
    /\ holesShown' = IF Shows(c) /\ c.of = "rabbit-holes" THEN c.on ELSE holesShown
    /\ newest' = Latest(c)
    /\ doubted' = IF Shows(c) THEN ~Newer(c) ELSE doubted
    /\ UNCHANGED <<panel, opening, holes, rowsInDb, polls, reached, looks>>

\* Mutant of AfterToggle: the list is not fetched again.
AfterToggleNothing(c) == {}

(* After the flip the page fetches again; a page that was left asks too,   *)
(* and nobody draws its answer: the page opened since may be out of date.  *)
AfterToggle(c) == {[c EXCEPT !.kind = "fetch", !.at = 0]}

ToggleArrives(c) ==
    /\ c \in panelCalls /\ c.kind = "toggle" /\ c.at > 0
    /\ panelCalls' = (panelCalls \ {c}) \cup AfterToggle(c)
    /\ panelBusy' = (panelBusy \/ (Shows(c) /\ AfterToggle(c) # {}))
    /\ newest' = Latest(c)
    /\ doubted' = (doubted \/ ~Shows(c))
    /\ UNCHANGED <<panel, opening, holes, holesShown, hasStats, shownCount, rowsInDb, polls,
                   reached, looks>>

(* A fetch that fails keeps what is shown; a flip that fails, or whose     *)
(* answer is lost, is taken back on the page.                              *)
PanelCallFails(c) ==
    /\ c \in panelCalls
    /\ panelCalls' = panelCalls \ {c}
    /\ panelBusy' = (panelBusy /\ ~(Shows(c) /\ c.kind = "fetch"))
    /\ holesShown' = IF Shows(c) /\ c.kind = "toggle" THEN ~c.next ELSE holesShown
    /\ newest' = IF c.at > 0 THEN Latest(c) ELSE newest
    /\ doubted' = TRUE
    /\ UNCHANGED <<panel, opening, holes, hasStats, shownCount, rowsInDb, polls, reached, looks>>

PanelNext ==
    \/ \E p \in Watching \cup {"none"} : OpenPanel(p)
    \/ RefreshPanel \/ FlipSwitch
    \/ \E i \in Intervals : Poll(i)
    \/ \E c \in panelCalls, w \in Workers : AtWorker(c, w)
    \/ \E c \in panelCalls : FetchArrives(c) \/ ToggleArrives(c) \/ PanelCallFails(c)

PanelSpec == PanelInit /\ [][PanelNext]_panelVars
-----------------------------------------------------------------------------
(* The switch of the rabbit holes, once the calls of the page are          *)
(* answered, stands as it does for some worker, unless an answer was lost  *)
(* or overtaken, or the flip was clicked before the page was opened again, *)
(* and no fetch followed.                                                  *)
SwitchIsSomeWorkers ==
    panel = "rabbit-holes" /\ panelCalls = {} /\ ~doubted
        => \E w \in Workers : holesShown = holes[w]

(* The intervals that run are those of the monitor page that is open.      *)
PollsAreOfThePage ==
    polls = IF panel = "monitor" THEN Intervals \X {opening} ELSE {}

(* A page that loads waits for a fetch of its own.                         *)
PanelLoads == panelBusy => \E c \in panelCalls : c.kind = "fetch" /\ Shows(c)

PanelsSound == SwitchIsSomeWorkers /\ PollsAreOfThePage /\ PanelLoads

(* app/admin/rabbit-holes/page.tsx: "Backend flips the current value;      *)
(* refetch to sync."  After the flip and the fetch, the switch stands as   *)
(* it does for every worker.                                               *)
SwitchIsInSync ==
    panel = "rabbit-holes" /\ panelCalls = {} /\ ~doubted
        => \A w \in Workers : holesShown = holes[w]
=============================================================================
