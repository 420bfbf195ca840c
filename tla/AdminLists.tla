------------------------------ MODULE AdminLists ------------------------------
(***************************************************************************)
(* The admin pages that keep a list of their own and edit it: categories,  *)
(* events and profiles (app/admin/*/page.tsx).  A handler answers its call *)
(* either by fetching the list again or by editing the list the page drew  *)
(* when the button was clicked: its closure, which later answers have left *)
(* behind.  Nothing disables a button while a call is on its way.          *)
(***************************************************************************)
EXTENDS Integers, FiniteSets

CONSTANTS
    Rows,      \* the identities of the rows of a page
    MaxEdits   \* bound: the clicks of a behaviour

VARIABLES
    listPage,
    rowsNow,     \* rowsNow[r]: the state of row r in the database, or "absent"
    shownRows,   \* the list of the page
    listBusy,    \* isLoading
    drafted,     \* the form of the page is filled in (and, for events, open)
    rowCalls,    \* the calls that are not answered yet
    handled,     \* history: the calls the backend has handled
    seen,        \* history: the latest of them whose answer was taken
    stale,       \* history: why the list may be wrong and no fetch has mended it
    edits

listVars == <<listPage, rowsNow, shownRows, listBusy, drafted, rowCalls, handled, seen, stale,
              edits>>

ASSUME AdminListsAssumption == Rows # {} /\ MaxEdits \in Nat

ListPages == {"categories", "events", "profiles"}
Absent == [r \in Rows |-> "absent"]
Statuses(p) ==
    CASE p = "categories" -> {"enabled", "disabled"}
      [] p = "events" -> {"pending", "active", "ended"}
      [] p = "profiles" -> {"kept"}
Fresh0(p) == CASE p = "categories" -> "enabled" [] p = "events" -> "pending" [] p = "profiles" -> "kept"

ListTypeOK ==
    LET Lists0 == [Rows -> Statuses(listPage) \cup {"absent"}] IN
    /\ listPage \in ListPages
    /\ rowsNow \in Lists0 /\ shownRows \in Lists0
    /\ listBusy \in BOOLEAN /\ drafted \in BOOLEAN /\ stale \in BOOLEAN
    /\ \A c \in rowCalls : c.drawn \in Lists0 /\ c.got \in Lists0 /\ c.at \in 0 .. handled
    /\ handled \in Nat /\ seen \in 0 .. handled /\ edits \in 0 .. MaxEdits

(* Every handler calls the route its comment names.  The toggle of a       *)
(* category is a PATCH in routers/categories.py, and the page sends POST.  *)
Method == [fetch |-> "GET", create |-> "POST", delete |-> "DELETE", toggle |-> "POST",
           start |-> "POST", end |-> "POST", apply |-> "POST"]
Route == [Method EXCEPT !.toggle = "PATCH"]

\* A fetch is about no row.
AnyRow == CHOOSE r \in Rows : TRUE

RowCall(op, r) ==
    [op |-> op, row |-> r, drawn |-> shownRows, n |-> edits', at |-> 0, reply |-> "none",
     got |-> Absent]

ListInit ==
    /\ listPage \in ListPages
    /\ rowsNow \in [Rows -> Statuses(listPage) \cup {"absent"}]
    /\ shownRows = Absent
    /\ listBusy = TRUE /\ drafted = FALSE
    /\ rowCalls = {[op |-> "fetch", row |-> AnyRow, drawn |-> Absent, n |-> 0, at |-> 0,
                    reply |-> "none", got |-> Absent]}
    /\ handled = 0 /\ seen = 0 /\ stale = TRUE /\ edits = 0
-----------------------------------------------------------------------------
(* What a page offers.  The pages draw no row while they load, and the     *)
(* categories draw nothing else either.                                    *)
RowsDrawn == ~listBusy
FormDrawn == listPage # "categories" \/ ~listBusy
Offers(op, r) ==
    CASE op = "toggle" -> listPage = "categories" /\ RowsDrawn /\ shownRows[r] # "absent"
      [] op = "delete" -> listPage # "events" /\ RowsDrawn /\ shownRows[r] # "absent"
      [] op = "apply" -> listPage = "profiles" /\ RowsDrawn /\ shownRows[r] # "absent"
      [] op = "start" -> listPage = "events" /\ RowsDrawn /\ shownRows[r] = "pending"
      [] op = "end" -> listPage = "events" /\ RowsDrawn /\ shownRows[r] = "active"
      [] op = "create" -> FormDrawn /\ drafted
      [] OTHER -> FALSE

FillForm ==
    /\ FormDrawn /\ ~drafted
    /\ drafted' = TRUE
    /\ UNCHANGED <<listPage, rowsNow, shownRows, listBusy, rowCalls, handled, seen, stale, edits>>

Edited == edits < MaxEdits /\ edits' = edits + 1

ClickRow(op, r) ==
    /\ Offers(op, r)
    /\ Edited
    /\ rowCalls' = rowCalls \cup {RowCall(op, r)}
    /\ UNCHANGED <<listPage, rowsNow, shownRows, listBusy, drafted, handled, seen, stale>>

\* Only fetchCategories does not raise the flag again.
Raises == listPage # "categories"

\* The categories have no such button.
ClickRefresh ==
    /\ listPage # "categories"
    /\ Edited
    /\ listBusy' = TRUE
    /\ rowCalls' = rowCalls \cup {RowCall("fetch", AnyRow)}
    /\ UNCHANGED <<listPage, rowsNow, shownRows, drafted, handled, seen, stale>>

-----------------------------------------------------------------------------
(* The routers of the backend: the row after an edit.                      *)
Edit(op, r) ==
    CASE op = "create" -> IF rowsNow[r] = "absent" THEN Fresh0(listPage) ELSE rowsNow[r]
      [] op = "delete" -> "absent"
      [] op = "start" -> "active"
      [] op = "end" -> "ended"
      [] OTHER -> rowsNow[r]

Accepts(c) ==
    /\ Method[c.op] = Route[c.op]
    /\ c.op = "create" => rowsNow[c.row] = "absent"
    /\ c.op \in {"delete", "start", "end", "apply", "toggle"} => rowsNow[c.row] # "absent"

Handle(c) ==
    /\ c \in rowCalls /\ c.at = 0
    /\ handled' = handled + 1
    /\ rowsNow' = IF Accepts(c) THEN [rowsNow EXCEPT ![c.row] = Edit(c.op, c.row)] ELSE rowsNow
    /\ rowCalls' = (rowCalls \ {c}) \cup
         {[c EXCEPT !.at = handled', !.got = rowsNow',
                    !.reply = IF Accepts(c) THEN "ok"
                              ELSE IF Method[c.op] # Route[c.op] THEN "method not allowed" ELSE "refused"]}
    /\ UNCHANGED <<listPage, shownRows, listBusy, drafted, seen, stale, edits>>
-----------------------------------------------------------------------------
OnTime(c) == c.at > seen
Ahead(c) == IF c.at > seen THEN c.at ELSE seen

(* setX(x.filter(...)) and setX([...x, created]), on the list the page     *)
(* drew at the click.                                                      *)
EditsOwnList(c) == c.op = "delete" \/ (c.op = "create" /\ listPage = "profiles")

\* Mutant of Drawn: the filter keeps the row it should drop.
DrawnKeeping(c) ==
    [c.drawn EXCEPT ![c.row] = IF c.op = "delete" THEN c.drawn[c.row] ELSE Fresh0(listPage)]

Drawn(c) == [c.drawn EXCEPT ![c.row] = IF c.op = "delete" THEN "absent" ELSE Fresh0(listPage)]

\* Mutant of FetchesAgain: starting an event does not fetch the list.
FetchesAgainButStart(c) == ~EditsOwnList(c) /\ c.op # "start"

FetchesAgain(c) == ~EditsOwnList(c)

FetchDone(c) ==
    /\ c \in rowCalls /\ c.op = "fetch" /\ c.reply = "ok"
    /\ rowCalls' = rowCalls \ {c}
    /\ shownRows' = c.got /\ listBusy' = FALSE
    /\ seen' = Ahead(c)
    /\ stale' = ~OnTime(c)
    /\ UNCHANGED <<listPage, rowsNow, drafted, handled, edits>>

EditDone(c) ==
    /\ c \in rowCalls /\ c.op # "fetch" /\ c.reply = "ok"
    /\ drafted' = (drafted /\ c.op # "create")
    /\ shownRows' = IF EditsOwnList(c) THEN Drawn(c) ELSE shownRows
    /\ IF FetchesAgain(c)
       THEN /\ rowCalls' = (rowCalls \ {c}) \cup {[c EXCEPT !.op = "fetch", !.at = 0, !.reply = "none"]}
            /\ listBusy' = (listBusy \/ Raises)
       ELSE rowCalls' = rowCalls \ {c} /\ UNCHANGED listBusy
    /\ seen' = Ahead(c)
    /\ stale' = (stale \/ ~OnTime(c) \/ (EditsOwnList(c) /\ c.drawn # shownRows))
    /\ UNCHANGED <<listPage, rowsNow, handled, edits>>

(* Every catch does nothing: a call refused, not sent, or handled and its  *)
(* answer lost.                                                            *)
CallFails(c) ==
    /\ c \in rowCalls
    /\ rowCalls' = rowCalls \ {c}
    /\ listBusy' = (listBusy /\ c.op # "fetch")
    /\ seen' = IF c.at > 0 THEN Ahead(c) ELSE seen
    /\ stale' = (stale \/ c.op = "fetch" \/ c.reply = "ok")
    /\ UNCHANGED <<listPage, rowsNow, shownRows, drafted, handled, edits>>

ListNext ==
    \/ FillForm \/ ClickRefresh
    \/ \E op \in DOMAIN Method, r \in Rows : ClickRow(op, r)
    \/ \E c \in rowCalls : Handle(c) \/ FetchDone(c) \/ EditDone(c) \/ CallFails(c)

ListSpec == ListInit /\ [][ListNext]_listVars
-----------------------------------------------------------------------------
(* Once nothing is on its way, a page shows what the database holds: the   *)
(* handlers that edit the list in place agree with the backend as those    *)
(* that fetch it, unless an answer was lost or overtaken, or two edits     *)
(* overlapped, and no fetch followed.                                      *)
ListSettles == rowCalls = {} /\ ~stale => shownRows = rowsNow

(* A page is never left loading.                                           *)
ListLoads == listBusy => \E c \in rowCalls : c.op = "fetch"

ListSound == ListSettles /\ ListLoads

(* app/admin/categories/page.tsx, of the switch of a category: "Backend    *)
(* uses POST /categories/{id}/toggle (no body, flips the bit)".            *)
CategorySwitchFlips == \A c \in rowCalls : c.op = "toggle" => c.reply # "method not allowed"
=============================================================================
