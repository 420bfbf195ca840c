----------------------------- MODULE AdminProofs -----------------------------
(***************************************************************************)
(* Proofs about the admin area of the frontend, for any number of rows,    *)
(* workers, clicks and calls in flight: what its pages show is what the    *)
(* backend holds once its calls are answered.  The three models share one  *)
(* argument.  While answers are on their way the pages may be wrong, so    *)
(* the invariant says what is: whatever is shown, or stands in an answer   *)
(* that will still count, is right, or a later change is still to be       *)
(* answered.                                                               *)
(***************************************************************************)
EXTENDS MCPages, PageProofs

(***************************************************************************)
(* The pages that keep a list.                                             *)
(***************************************************************************)
RowLists == [Rows -> Statuses(listPage) \cup {"absent"}]

RowCalls == [op : DOMAIN Method, row : Rows, drawn : RowLists, n : Nat, at : Nat,
             reply : {"none", "ok", "method not allowed", "refused"}, got : RowLists]

\* The edits of a row whose answers are to come, later than moment k.
Applied(r, k) == {c \in rowCalls : c.op # "fetch" /\ c.reply = "ok" /\ c.row = r /\ c.at > k}

RowRight(r, value, k) == value = rowsNow[r] \/ Applied(r, k) # {}

RowCallSound(c) ==
    /\ c \in RowCalls /\ c.at \in 0 .. handled
    /\ c.reply = "ok" => c.at > 0
    /\ c.op \in {"start", "end"} => listPage = "events"
    /\ c.at > seen /\ c.op = "fetch" => \A r \in Rows : RowRight(r, c.got[r], c.at)
    /\ c.at > seen /\ c.reply = "ok" /\ EditsOwnList(c) => RowRight(c.row, Drawn(c)[c.row], c.at)

RowCallsSound == \A c \in rowCalls : RowCallSound(c)

ShownRight ==
    \/ stale
    \/ \E c \in rowCalls : c.op = "fetch"
    \/ \A r \in Rows : RowRight(r, shownRows[r], 0)

ListTyped ==
    /\ listPage \in ListPages
    /\ rowsNow \in RowLists /\ shownRows \in RowLists
    /\ listBusy \in BOOLEAN /\ drafted \in BOOLEAN /\ stale \in BOOLEAN
    /\ handled \in Nat /\ seen \in 0 .. handled /\ edits \in 0 .. MaxEdits

ListInv == ListTyped /\ RowCallsSound /\ ShownRight /\ ListLoads

LEMMA RowCallsStable == listPage' = listPage => RowLists' = RowLists /\ RowCalls' = RowCalls
<1>1. listPage' = listPage => RowLists' = RowLists
  BY DEF RowLists
<1> QED BY <1>1 DEF RowCalls

LEMMA ListInitInv == ListInit => ListInv
<1> SUFFICES ASSUME ListInit PROVE ListInv
  OBVIOUS
<1>1. AnyRow \in Rows /\ Absent \in RowLists
  BY AdminListsAssumption DEF AnyRow, Absent, RowLists
<1>2. PICK c \in RowCalls : c.op = "fetch" /\ c.at = 0 /\ c.reply = "none" /\ rowCalls = {c}
  BY <1>1 DEF ListInit, RowCalls, Method
<1>3. ListTyped
  <2>1. rowsNow \in RowLists /\ shownRows \in RowLists
    BY <1>1 DEF ListInit, RowLists
  <2>2. edits \in 0 .. MaxEdits /\ seen \in 0 .. handled /\ handled \in Nat
    BY AdminListsAssumption DEF ListInit
  <2>3. listBusy \in BOOLEAN /\ drafted \in BOOLEAN /\ stale \in BOOLEAN
    BY DEF ListInit
  <2>4. listPage \in ListPages
    BY DEF ListInit
  <2> QED BY <2>1, <2>2, <2>3, <2>4 DEF ListTyped
<1>4. RowCallsSound
  BY <1>2 DEF ListInit, RowCallsSound, RowCallSound
<1>5. ShownRight /\ ListLoads
  BY <1>2 DEF ShownRight, ListLoads
<1> QED BY <1>3, <1>4, <1>5 DEF ListInv
(* A call that is new, and has not been handled, excuses nothing and       *)
(* invalidates nothing.                                                    *)
LEMMA RowAskingKeeps ==
    ASSUME ListInv, NEW new, rowCalls' = rowCalls \cup new,
           \A c \in new : /\ c \in RowCalls /\ c.at = 0 /\ c.reply = "none"
                          /\ c.op \in {"start", "end"} => listPage = "events",
           UNCHANGED <<listPage, rowsNow, shownRows, handled, seen, stale>>
    PROVE  RowCallsSound' /\ ShownRight'
<1>1. \A r, v, k : RowRight(r, v, k) => RowRight(r, v, k)'
  BY DEF RowRight, Applied
<1>2. RowCalls' = RowCalls /\ seen \in Nat /\ handled \in Nat
  BY RowCallsStable DEF ListInv, ListTyped
<1>3. ASSUME NEW c \in rowCalls PROVE RowCallSound(c)'
  <2>1. RowCallSound(c)
    BY DEF ListInv, RowCallsSound
  <2>2. Drawn(c)' = Drawn(c) /\ EditsOwnList(c)' = EditsOwnList(c)
    BY DEF Drawn, EditsOwnList
  <2> QED BY <1>1, <1>2, <2>1, <2>2 DEF RowCallSound
<1>4. ASSUME NEW c \in new PROVE RowCallSound(c)'
  BY <1>2, <1>4 DEF RowCallSound
<1>5. ShownRight'
  BY <1>1 DEF ListInv, ShownRight
<1> QED BY <1>3, <1>4, <1>5 DEF RowCallsSound

(* A call is answered or lost: the answers that still count are younger,   *)
(* and what excuses them is younger still.                                 *)
LEMMA RowGoneKeeps ==
    ASSUME ListInv, NEW c \in rowCalls, UNCHANGED <<listPage, rowsNow, handled>>,
           NEW new \in SUBSET RowCalls, \A d \in new : d.op = "fetch" /\ d.at = 0 /\ d.reply = "none",
           rowCalls' = (rowCalls \ {c}) \cup new,
           seen' \in 0 .. handled, seen <= seen', c.at <= seen'
    PROVE  RowCallsSound'
<1>1. RowCalls' = RowCalls /\ seen \in Nat /\ handled \in Nat /\ seen' \in Nat
  BY RowCallsStable DEF ListInv, ListTyped
<1>2. c.at \in Nat
  BY DEF ListInv, RowCallsSound, RowCallSound, RowCalls
<1>3. \A r, v : \A k \in Nat : k > seen' /\ RowRight(r, v, k) => RowRight(r, v, k)'
  <2>1. \A r : \A k \in Nat : k > seen' => Applied(r, k) \subseteq Applied(r, k)'
    <3> SUFFICES ASSUME NEW r, NEW k \in Nat, k > seen', NEW d \in Applied(r, k)
                 PROVE  d \in Applied(r, k)'
      OBVIOUS
    <3>1. d \in rowCalls /\ d.at > k /\ d.at \in Nat
      BY DEF Applied, ListInv, RowCallsSound, RowCallSound, RowCalls
    <3>2. d # c
      BY <1>1, <1>2, <3>1
    <3> QED BY <3>1, <3>2 DEF Applied
  <2> QED BY <2>1 DEF RowRight
<1>4. ASSUME NEW d \in rowCalls \ {c} PROVE RowCallSound(d)'
  <2>1. RowCallSound(d) /\ d.at \in Nat
    BY DEF ListInv, RowCallsSound, RowCallSound, RowCalls
  <2>2. Drawn(d)' = Drawn(d) /\ EditsOwnList(d)' = EditsOwnList(d)
    BY DEF Drawn, EditsOwnList
  <2> QED BY <1>1, <1>3, <2>1, <2>2 DEF RowCallSound
<1>5. ASSUME NEW d \in new PROVE RowCallSound(d)'
  BY <1>1, <1>5 DEF RowCallSound
<1> QED BY <1>4, <1>5 DEF RowCallsSound

LEMMA AheadBounds ==
    ASSUME ListInv, NEW c \in rowCalls
    PROVE  Ahead(c) \in 0 .. handled /\ seen <= Ahead(c) /\ c.at <= Ahead(c)
<1>1. c.at \in 0 .. handled /\ seen \in 0 .. handled /\ handled \in Nat
  BY DEF ListInv, ListTyped, RowCallsSound, RowCallSound
<1> QED BY <1>1 DEF Ahead
\* What an accepted edit makes of its row is what its page draws.
LEMMA EditedRow ==
    ASSUME ListInv, NEW c \in rowCalls
    PROVE  /\ [rowsNow EXCEPT ![c.row] = Edit(c.op, c.row)] \in RowLists
           /\ c.op = "fetch" => [rowsNow EXCEPT ![c.row] = Edit(c.op, c.row)] = rowsNow
           /\ Accepts(c) /\ EditsOwnList(c) => Edit(c.op, c.row) = Drawn(c)[c.row]
<1>1. /\ c.op \in DOMAIN Method /\ c.row \in Rows /\ c.drawn \in RowLists
      /\ c.op \in {"start", "end"} => listPage = "events"
  BY DEF ListInv, RowCallsSound, RowCallSound, RowCalls
<1>2. listPage \in ListPages /\ rowsNow \in RowLists
  BY DEF ListInv, ListTyped
<1>3. Fresh0(listPage) \in Statuses(listPage)
  BY <1>2 DEF ListPages, Fresh0, Statuses
<1>4. Edit(c.op, c.row) \in Statuses(listPage) \cup {"absent"}
  BY <1>1, <1>2, <1>3 DEF Edit, RowLists, Statuses
<1>5. [rowsNow EXCEPT ![c.row] = Edit(c.op, c.row)] \in RowLists
  BY <1>1, <1>2, <1>4 DEF RowLists
<1>6. c.op = "fetch" => Edit(c.op, c.row) = rowsNow[c.row]
  BY DEF Edit
<1>7. c.op = "fetch" => [rowsNow EXCEPT ![c.row] = Edit(c.op, c.row)] = rowsNow
  BY <1>1, <1>2, <1>6 DEF RowLists
<1>8. Accepts(c) /\ EditsOwnList(c) => Edit(c.op, c.row) = Drawn(c)[c.row]
  BY <1>1 DEF Accepts, EditsOwnList, Edit, Drawn, RowLists
<1> QED BY <1>5, <1>7, <1>8

LEMMA HandleKeeps ==
    ASSUME ListInv, NEW c, Handle(c)
    PROVE  ListInv'
<1>1. /\ c \in rowCalls /\ c.at = 0 /\ handled' = handled + 1
      /\ rowsNow' = IF Accepts(c) THEN [rowsNow EXCEPT ![c.row] = Edit(c.op, c.row)] ELSE rowsNow
      /\ UNCHANGED <<listPage, shownRows, listBusy, drafted, seen, stale, edits>>
  BY DEF Handle
<1>2. /\ RowCallSound(c) /\ c \in RowCalls /\ rowsNow \in RowLists /\ rowsNow' \in RowLists
      /\ handled \in Nat /\ handled' \in Nat /\ seen \in 0 .. handled
  BY <1>1, EditedRow DEF ListInv, ListTyped, RowCallsSound, RowCallSound
<1>3. PICK d \in RowCalls :
        /\ d.op = c.op /\ d.row = c.row /\ d.drawn = c.drawn /\ d.at = handled' /\ d.got = rowsNow'
        /\ d.reply = "ok" <=> Accepts(c)
        /\ rowCalls' = (rowCalls \ {c}) \cup {d}
  <2> DEFINE word == IF Accepts(c) THEN "ok"
                     ELSE IF Method[c.op] # Route[c.op] THEN "method not allowed" ELSE "refused"
             e == [c EXCEPT !.at = handled', !.got = rowsNow', !.reply = word]
  <2>1. rowCalls' = (rowCalls \ {c}) \cup {e}
    BY DEF Handle
  <2>2. word \in {"none", "ok", "method not allowed", "refused"} /\ (word = "ok" <=> Accepts(c))
    OBVIOUS
  <2> HIDE DEF word
  <2>3. /\ e \in RowCalls /\ e.op = c.op /\ e.row = c.row /\ e.drawn = c.drawn /\ e.at = handled'
        /\ e.got = rowsNow' /\ e.reply = word
    BY <1>2, <2>2 DEF RowCalls
  <2> HIDE DEF e
  <2> QED BY <2>1, <2>2, <2>3
<1>4. RowCalls' = RowCalls /\ RowLists' = RowLists
  BY <1>1, RowCallsStable
<1>5. \A r \in Rows : \A v : \A k \in 0 .. handled : RowRight(r, v, k) => RowRight(r, v, k)'
  <2> SUFFICES ASSUME NEW r \in Rows, NEW v, NEW k \in 0 .. handled, RowRight(r, v, k)
               PROVE  RowRight(r, v, k)'
    OBVIOUS
  <2>1. Applied(r, k) \subseteq Applied(r, k)'
    BY <1>1, <1>2, <1>3 DEF Applied
  <2>2. CASE rowsNow'[r] = rowsNow[r]
    BY <2>1, <2>2 DEF RowRight
  <2>3. CASE rowsNow'[r] # rowsNow[r]
    <3>1. Accepts(c) /\ r = c.row /\ c.op # "fetch"
      BY <1>1, <1>2, <2>3, EditedRow DEF RowLists
    <3>2. d.at > k
      BY <1>1, <1>2, <1>3
    <3>3. d \in Applied(r, k)'
      BY <1>3, <3>1, <3>2 DEF Applied
    <3> QED BY <3>3 DEF RowRight
  <2> QED BY <2>2, <2>3
<1>6. RowCallSound(d)'
  <2>1. d.op = "fetch" => \A r \in Rows : RowRight(r, d.got[r], d.at)'
    BY <1>3 DEF RowRight
  <2>2. d.reply = "ok" /\ EditsOwnList(d)' => RowRight(d.row, Drawn(d)[d.row], d.at)'
    <3> SUFFICES ASSUME d.reply = "ok", EditsOwnList(d)'
                 PROVE  RowRight(d.row, Drawn(d)[d.row], d.at)'
      OBVIOUS
    <3>1. EditsOwnList(c) /\ Accepts(c)
      BY <1>1, <1>3 DEF EditsOwnList
    <3>2. Drawn(d)' = Drawn(c)
      BY <1>1, <1>3 DEF Drawn
    <3>3. rowsNow'[c.row] = Edit(c.op, c.row)
      BY <1>1, <1>2, <3>1 DEF RowLists, RowCalls
    <3> QED BY <1>3, <3>1, <3>2, <3>3, <1>1, EditedRow DEF RowRight
  <2> QED BY <1>1, <1>2, <1>3, <1>4, <2>1, <2>2 DEF RowCallSound
<1>7. ASSUME NEW e \in rowCalls PROVE RowCallSound(e)'
  <2>1. RowCallSound(e) /\ e.at \in 0 .. handled /\ e.row \in Rows
    BY DEF ListInv, RowCallsSound, RowCallSound, RowCalls
  <2>2. e.at \in 0 .. handled'
    BY <1>1, <1>2, <2>1
  <2>3. Drawn(e)' = Drawn(e) /\ EditsOwnList(e)' = EditsOwnList(e)
    BY <1>1 DEF Drawn, EditsOwnList
  <2> QED BY <1>1, <1>4, <1>5, <2>1, <2>2, <2>3 DEF RowCallSound
<1>8. RowCallsSound'
  BY <1>3, <1>6, <1>7 DEF RowCallsSound
<1>9. ShownRight'
  <2>1. CASE \A r \in Rows : RowRight(r, shownRows[r], 0)
    <3>1. shownRows' = shownRows /\ 0 \in 0 .. handled
      BY <1>1, <1>2
    <3>2. \A r \in Rows : RowRight(r, shownRows[r], 0)'
      BY <1>5, <2>1, <3>1
    <3> QED BY <3>2 DEF ShownRight
  <2> QED BY <1>1, <1>3, <2>1 DEF ListInv, ShownRight
<1>10. ListTyped' /\ ListLoads'
  <2>1. seen' \in 0 .. handled'
    BY <1>1, <1>2
  <2> QED BY <1>1, <1>2, <1>3, <1>4, <2>1 DEF ListInv, ListTyped, ListLoads
<1> QED BY <1>8, <1>9, <1>10 DEF ListInv
LEMMA FetchDoneKeeps ==
    ASSUME ListInv, NEW c, FetchDone(c)
    PROVE  ListInv'
<1>1. /\ c \in rowCalls /\ c.op = "fetch" /\ rowCalls' = (rowCalls \ {c}) \cup {}
      /\ shownRows' = c.got /\ listBusy' = FALSE /\ seen' = Ahead(c) /\ stale' = ~OnTime(c)
      /\ UNCHANGED <<listPage, rowsNow, drafted, handled, edits>>
  BY DEF FetchDone
<1>2. RowCallSound(c) /\ c \in RowCalls /\ c.at \in 0 .. handled /\ seen \in 0 .. handled /\ handled \in Nat
  BY <1>1 DEF ListInv, ListTyped, RowCallsSound, RowCallSound
<1>3. RowCallsSound'
  <2> DEFINE new == {}
  <2>1. new \in SUBSET RowCalls /\ rowCalls' = (rowCalls \ {c}) \cup new
    BY <1>1
  <2>2. \A d \in new : d.op = "fetch" /\ d.at = 0 /\ d.reply = "none"
    OBVIOUS
  <2>3. seen' \in 0 .. handled /\ seen <= seen' /\ c.at <= seen'
    BY <1>1, AheadBounds
  <2> HIDE DEF new
  <2> QED BY <1>1, <2>1, <2>2, <2>3, RowGoneKeeps
<1>4. ShownRight'
  <2>1. SUFFICES ASSUME OnTime(c) PROVE \A r \in Rows : RowRight(r, c.got[r], 0)'
    BY <1>1 DEF ShownRight
  <2>2. \A r \in Rows : RowRight(r, c.got[r], c.at)
    BY <1>1, <1>2, <2>1 DEF RowCallSound, OnTime
  <2>3. \A r : Applied(r, c.at) \subseteq Applied(r, 0)'
    <3> SUFFICES ASSUME NEW r, NEW d \in Applied(r, c.at) PROVE d \in Applied(r, 0)'
      OBVIOUS
    <3>1. d \in rowCalls /\ d.op # "fetch" /\ d.at > c.at /\ d.at \in Nat
      BY DEF Applied, ListInv, RowCallsSound, RowCallSound, RowCalls
    <3> QED BY <1>1, <1>2, <3>1 DEF Applied
  <2> QED BY <1>1, <2>2, <2>3 DEF RowRight
<1>5. ListTyped'
  <2>1. RowLists' = RowLists /\ seen' \in 0 .. handled
    BY <1>1, RowCallsStable, AheadBounds
  <2>2. stale' \in BOOLEAN /\ listBusy' \in BOOLEAN
    BY <1>1
  <2>3. c.got \in RowLists
    BY <1>2 DEF RowCalls
  <2> QED BY <1>1, <2>1, <2>2, <2>3 DEF ListInv, ListTyped
<1>6. ListLoads'
  BY <1>1 DEF ListLoads
<1> QED BY <1>3, <1>4, <1>5, <1>6 DEF ListInv

LEMMA CallFailsKeeps ==
    ASSUME ListInv, NEW c, CallFails(c)
    PROVE  ListInv'
<1>1. /\ c \in rowCalls /\ rowCalls' = (rowCalls \ {c}) \cup {}
      /\ listBusy' = (listBusy /\ c.op # "fetch")
      /\ seen' = IF c.at > 0 THEN Ahead(c) ELSE seen
      /\ stale' = (stale \/ c.op = "fetch" \/ c.reply = "ok")
      /\ UNCHANGED <<listPage, rowsNow, shownRows, drafted, handled, edits>>
  BY DEF CallFails
<1>2. seen' \in 0 .. handled /\ seen <= seen' /\ c.at <= seen'
  <2>1. c.at \in 0 .. handled /\ seen \in 0 .. handled /\ handled \in Nat
    BY <1>1 DEF ListInv, ListTyped, RowCallsSound, RowCallSound
  <2> QED BY <1>1, <2>1, AheadBounds
<1>3. RowCallsSound'
  <2> DEFINE new == {}
  <2>1. new \in SUBSET RowCalls /\ rowCalls' = (rowCalls \ {c}) \cup new
    BY <1>1
  <2>2. \A d \in new : d.op = "fetch" /\ d.at = 0 /\ d.reply = "none"
    OBVIOUS
  <2> HIDE DEF new
  <2> QED BY <1>1, <1>2, <2>1, <2>2, RowGoneKeeps
<1>4. ShownRight'
  <2>1. SUFFICES ASSUME ~stale, c.op # "fetch", c.reply # "ok" PROVE ShownRight'
    BY <1>1 DEF ShownRight
  <2>2. \A r : Applied(r, 0) \subseteq Applied(r, 0)'
    BY <1>1, <2>1 DEF Applied
  <2>3. \A r, v : RowRight(r, v, 0) => RowRight(r, v, 0)'
    BY <1>1, <2>2 DEF RowRight
  <2> QED BY <1>1, <2>1, <2>3 DEF ListInv, ShownRight
<1>5. ListTyped'
  <2>1. RowLists' = RowLists
    BY <1>1, RowCallsStable
  <2>2. stale' \in BOOLEAN /\ listBusy' \in BOOLEAN
    BY <1>1 DEF ListInv, ListTyped
  <2> QED BY <1>1, <1>2, <2>1, <2>2 DEF ListInv, ListTyped
<1>6. ListLoads'
  BY <1>1 DEF ListInv, ListLoads
<1> QED BY <1>3, <1>4, <1>5, <1>6 DEF ListInv

LEMMA EditDoneKeeps ==
    ASSUME ListInv, NEW c, EditDone(c)
    PROVE  ListInv'
<1>1. /\ c \in rowCalls /\ c.op # "fetch" /\ c.reply = "ok"
      /\ drafted' = (drafted /\ c.op # "create")
      /\ shownRows' = IF EditsOwnList(c) THEN Drawn(c) ELSE shownRows
      /\ seen' = Ahead(c)
      /\ stale' = (stale \/ ~OnTime(c) \/ (EditsOwnList(c) /\ c.drawn # shownRows))
      /\ UNCHANGED <<listPage, rowsNow, handled, edits>>
  BY DEF EditDone
<1>2. PICK new \in SUBSET RowCalls :
        /\ rowCalls' = (rowCalls \ {c}) \cup new
        /\ \A d \in new : d.op = "fetch" /\ d.at = 0 /\ d.reply = "none"
        /\ listBusy' = (listBusy \/ (new # {} /\ Raises))
        /\ ~EditsOwnList(c) => new # {}
  <2>1. CASE FetchesAgain(c)
    <3> DEFINE d == [c EXCEPT !.op = "fetch", !.at = 0, !.reply = "none"]
    <3>1. d \in RowCalls /\ d.op = "fetch" /\ d.at = 0 /\ d.reply = "none"
      BY <1>1 DEF ListInv, RowCallsSound, RowCallSound, RowCalls, Method
    <3>2. rowCalls' = (rowCalls \ {c}) \cup {d} /\ listBusy' = (listBusy \/ Raises)
      BY <2>1 DEF EditDone
    <3> HIDE DEF d
    <3> QED BY <3>1, <3>2
  <2>2. CASE ~FetchesAgain(c)
    <3> DEFINE none == {}
    <3>1. /\ rowCalls' = (rowCalls \ {c}) \cup none /\ listBusy' = (listBusy \/ (none # {} /\ Raises))
          /\ EditsOwnList(c) /\ none \in SUBSET RowCalls
      BY <2>2 DEF EditDone, FetchesAgain, ListInv, ListTyped
    <3>2. \A d \in none : d.op = "fetch" /\ d.at = 0 /\ d.reply = "none"
      OBVIOUS
    <3> HIDE DEF none
    <3> QED BY <3>1, <3>2
  <2> QED BY <2>1, <2>2
<1>3. /\ RowCallSound(c) /\ c \in RowCalls /\ c.at \in 0 .. handled /\ c.at > 0
      /\ seen \in 0 .. handled /\ handled \in Nat /\ rowsNow \in RowLists /\ shownRows \in RowLists
  BY <1>1 DEF ListInv, ListTyped, RowCallsSound, RowCallSound
<1>4. RowCallsSound'
  BY <1>1, <1>2, AheadBounds, RowGoneKeeps
<1>5. ShownRight'
  <2>1. SUFFICES ASSUME ~stale, OnTime(c), EditsOwnList(c), c.drawn = shownRows
                 PROVE  ShownRight'
    BY <1>1, <1>2 DEF ShownRight
  <2>2. CASE \E d \in rowCalls : d.op = "fetch"
    BY <1>1, <1>2, <2>2 DEF ShownRight
  <2>3. CASE \A r \in Rows : RowRight(r, shownRows[r], 0)
    <3>1. SUFFICES ASSUME NEW r \in Rows PROVE RowRight(r, shownRows[r], 0)'
      BY DEF ShownRight
    <3>2. CASE r = c.row
      <4>1. RowRight(r, shownRows'[r], c.at)
        BY <1>1, <1>3, <2>1, <3>2 DEF RowCallSound, OnTime
      <4>2. Applied(r, c.at) \subseteq Applied(r, 0)'
        <5> SUFFICES ASSUME NEW d \in Applied(r, c.at) PROVE d \in Applied(r, 0)'
          OBVIOUS
        <5>1. d \in rowCalls /\ d.at > c.at /\ d.at \in Nat
          BY DEF Applied, ListInv, RowCallsSound, RowCallSound, RowCalls
        <5>2. d # c /\ d.at > 0
          BY <1>3, <5>1
        <5> QED BY <1>2, <5>2 DEF Applied
      <4> QED BY <1>1, <4>1, <4>2 DEF RowRight
    <3>3. CASE r # c.row
      <4>1. shownRows'[r] = shownRows[r]
        BY <1>1, <1>3, <2>1, <3>3 DEF Drawn, RowCalls, RowLists
      <4>2. Applied(r, 0) \subseteq Applied(r, 0)'
        BY <1>2, <3>3 DEF Applied
      <4> QED BY <1>1, <2>3, <4>1, <4>2 DEF RowRight
    <3> QED BY <3>2, <3>3
  <2> QED BY <2>1, <2>2, <2>3 DEF ListInv, ShownRight
<1>6. ListTyped'
  <2>1. RowLists' = RowLists /\ seen' \in 0 .. handled
    BY <1>1, RowCallsStable, AheadBounds
  <2>2. stale' \in BOOLEAN /\ listBusy' \in BOOLEAN /\ drafted' \in BOOLEAN
    BY <1>1, <1>2 DEF ListInv, ListTyped
  <2>3. Fresh0(listPage) \in Statuses(listPage)
    BY DEF ListInv, ListTyped, ListPages, Fresh0, Statuses
  <2>4. Drawn(c) \in RowLists
    BY <1>3, <2>3 DEF RowCalls, RowLists, Drawn
  <2> QED BY <1>1, <1>3, <2>1, <2>2, <2>4 DEF ListInv, ListTyped
<1>7. ListLoads'
  BY <1>1, <1>2 DEF ListInv, ListLoads
<1> QED BY <1>4, <1>5, <1>6, <1>7 DEF ListInv

LEMMA ClickKeeps ==
    ASSUME ListInv, NEW op \in DOMAIN Method, NEW r \in Rows,
           op \in {"start", "end"} => listPage = "events",
           rowCalls' = rowCalls \cup {RowCall(op, r)}, Edited,
           UNCHANGED <<listPage, rowsNow, shownRows, drafted, handled, seen, stale>>,
           listBusy' = listBusy \/ (listBusy' = TRUE /\ op = "fetch")
    PROVE  ListInv'
<1> DEFINE new == {RowCall(op, r)}
<1>1. Absent \in RowLists /\ edits' \in 0 .. MaxEdits /\ edits' \in Nat /\ shownRows \in RowLists
  <2>1. Absent \in RowLists
    BY DEF Absent, RowLists
  <2> QED BY <2>1, AdminListsAssumption DEF Edited, ListInv, ListTyped
<1>2. \A c \in new : /\ c \in RowCalls /\ c.at = 0 /\ c.reply = "none"
                     /\ c.op \in {"start", "end"} => listPage = "events"
  <2>1. /\ RowCall(op, r) \in RowCalls /\ RowCall(op, r).at = 0
        /\ RowCall(op, r).reply = "none" /\ RowCall(op, r).op = op
    BY <1>1 DEF RowCall, RowCalls
  <2> QED BY <2>1
<1>3. rowCalls' = rowCalls \cup new /\ (op = "fetch" => \E c \in rowCalls' : c.op = "fetch")
  <2>1. RowCall(op, r).op = op
    BY DEF RowCall
  <2> QED BY <2>1
<1> HIDE DEF new
<1>4. RowCallsSound' /\ ShownRight'
  BY <1>2, <1>3, RowAskingKeeps
<1>5. RowLists' = RowLists
  BY RowCallsStable
<1>6. ListTyped'
  BY <1>1, <1>5 DEF ListInv, ListTyped
<1>7. ListLoads'
  BY <1>3 DEF ListInv, ListLoads
<1> QED BY <1>4, <1>6, <1>7 DEF ListInv

LEMMA ListNextInv == ListInv /\ [ListNext]_listVars => ListInv'
<1> SUFFICES ASSUME ListInv, [ListNext]_listVars PROVE ListInv'
  OBVIOUS
<1>1. ASSUME UNCHANGED <<listPage, rowsNow, shownRows, listBusy, rowCalls, handled, seen, stale, edits>>,
             drafted' \in BOOLEAN
      PROVE  ListInv'
  <2> DEFINE new == {}
  <2>1. rowCalls' = rowCalls \cup new
    BY <1>1
  <2>2. \A c \in new : /\ c \in RowCalls /\ c.at = 0 /\ c.reply = "none"
                       /\ c.op \in {"start", "end"} => listPage = "events"
    OBVIOUS
  <2> HIDE DEF new
  <2>3. RowCallsSound' /\ ShownRight'
    BY <1>1, <2>1, <2>2, RowAskingKeeps
  <2>4. RowLists' = RowLists
    BY <1>1, RowCallsStable
  <2> QED BY <1>1, <2>3, <2>4 DEF ListInv, ListTyped, ListLoads
<1>2. CASE FillForm
  BY <1>1, <1>2 DEF FillForm
<1>3. CASE ClickRefresh
  <2>1. AnyRow \in Rows /\ "fetch" \in DOMAIN Method
    BY AdminListsAssumption DEF AnyRow, Method
  <2> QED BY <1>3, <2>1, ClickKeeps DEF ClickRefresh
<1>4. ASSUME NEW op \in DOMAIN Method, NEW r \in Rows, ClickRow(op, r) PROVE ListInv'
  <2>1. op \in {"start", "end"} => listPage = "events"
    BY <1>4 DEF ClickRow, Offers
  <2> QED BY <1>4, <2>1, ClickKeeps DEF ClickRow
<1>5. ASSUME NEW c \in rowCalls, Handle(c) \/ FetchDone(c) \/ EditDone(c) \/ CallFails(c)
      PROVE  ListInv'
  BY <1>5, HandleKeeps, FetchDoneKeeps, EditDoneKeeps, CallFailsKeeps
<1>6. CASE UNCHANGED listVars
  BY <1>1, <1>6 DEF listVars, ListInv, ListTyped
<1> QED BY <1>2, <1>3, <1>4, <1>5, <1>6 DEF ListNext

LEMMA ListInvSound == ListInv => ListSound /\ ListTypeOK
<1> SUFFICES ASSUME ListInv PROVE ListSound /\ ListTypeOK
  OBVIOUS
<1>1. ListTypeOK
  BY DEF ListInv, ListTyped, RowCallsSound, RowCallSound, RowCalls, RowLists, ListTypeOK
<1>2. ASSUME rowCalls = {}, ~stale PROVE shownRows = rowsNow
  <2>1. \A r \in Rows : shownRows[r] = rowsNow[r]
    BY <1>2 DEF ListInv, ShownRight, RowRight, Applied
  <2> QED BY <2>1 DEF ListInv, ListTyped, RowLists
<1> QED BY <1>1, <1>2 DEF ListSound, ListSettles, ListInv

(* A page that keeps a list shows what the database holds once nothing is  *)
(* on its way, unless an answer was lost or overtaken, or two edits        *)
(* overlapped, and no fetch followed; and it is never left loading.        *)
THEOREM ListHolds == ListSpec => []ListSound
<1>1. ListInv => ListSound
  BY ListInvSound
<1> QED BY <1>1, ListInitInv, ListNextInv, PTL DEF ListSpec
-----------------------------------------------------------------------------
(***************************************************************************)
(* The store of the users and challenges.                                  *)
(***************************************************************************)
StoreLists == {"users", "challenges"}

StoreCalls == [list : StoreLists, field : Fields \cup {"all"}, value : {"on", "off"}, n : Nat,
               at : Nat, ok : BOOLEAN, rows : [Fields -> Shown]]

\* The updates of a field whose answers are to come, later than moment k.
Updates(f, k) == {c \in storeCalls : c.ok /\ c.field = f /\ c.at > k}

FieldRight(f, value, k) == value \notin {"on", "off"} \/ value = inDb[f] \/ Updates(f, k) # {}

\* What the answer to a call will show of a field.
Brings(c, f) == IF c.field = "all" THEN c.rows[f] ELSE c.value

StoreCallSound(c) ==
    /\ c \in StoreCalls /\ c.at \in 0 .. done
    /\ c.ok <=> c.at > 0
    /\ c.field # "all" => c.list = ListOf(c.field)
    /\ c.at > taken2[c.list] =>
         \A f \in Fields : c.list = ListOf(f) /\ c.field \in {f, "all"} => FieldRight(f, Brings(c, f), c.at)

StoreCallsSound == \A c \in storeCalls : StoreCallSound(c)

FieldsShown == \A f \in Fields : ListOf(f) \notin unsure => FieldRight(f, shownField[f], 0)

\* What GET sends under the name the page reads is never undefined.
SentIsDefined ==
    /\ \A f \in Fields : SentAsRead(f) => shownField[f] # "undefined"
    /\ \A c \in storeCalls : \A f \in Fields : SentAsRead(f) => c.rows[f] # "undefined"

StoreTyped ==
    /\ adminPage \in StoreLists \cup {"dashboard"}
    /\ inDb \in [Fields -> {"on", "off"}] /\ shownField \in [Fields -> Shown]
    /\ ownSwitch \in [Fields -> {"on", "off"}]
    /\ done \in Nat /\ unsure \subseteq StoreLists
    /\ taken2 \in [StoreLists -> 0 .. done]
    /\ acts \in 0 .. MaxActs

StoreInv == StoreTyped /\ StoreCallsSound /\ FieldsShown /\ SentIsDefined

\* The names that FIELD_MAP sends are those of the columns.
LEMMA ColumnOf == \A f, g \in Fields : f \in Column(BackendField(g)) <=> f = g
  BY DEF Fields, UserFields, ChallengeFields, Column, BackendField

LEMMA FieldFacts == "all" \notin Fields /\ \A f \in Fields : ListOf(f) \in StoreLists
  BY DEF Fields, UserFields, ChallengeFields, ListOf, StoreLists

LEMMA StoreInitInv == StoreInit => StoreInv
<1> SUFFICES ASSUME StoreInit PROVE StoreInv
  OBVIOUS
<1>1. StoreTyped
  <2>1. shownField \in [Fields -> Shown] /\ ownSwitch \in [Fields -> {"on", "off"}]
    BY DEF StoreInit, Shown, AllOff
  <2>2. taken2 \in [StoreLists -> 0 .. done] /\ acts \in 0 .. MaxActs /\ done \in Nat
    BY AdminStoreAssumption DEF StoreInit, StoreLists
  <2> QED BY <2>1, <2>2 DEF StoreInit, StoreTyped
<1>2. StoreCallsSound /\ FieldsShown /\ SentIsDefined
  BY DEF StoreInit, StoreCallsSound, FieldsShown, FieldRight, SentIsDefined
<1> QED BY <1>1, <1>2 DEF StoreInv

(* A call that is new, and has not been handled, excuses nothing and       *)
(* invalidates nothing.                                                    *)
LEMMA StoreAskingKeeps ==
    ASSUME StoreInv, NEW new, storeCalls' = storeCalls \cup new,
           \A c \in new : /\ c \in StoreCalls /\ c.at = 0 /\ c.ok = FALSE /\ c.rows = shownField
                          /\ c.field # "all" => c.list = ListOf(c.field),
           UNCHANGED <<inDb, shownField, done, taken2, unsure>>
    PROVE  StoreCallsSound' /\ FieldsShown' /\ SentIsDefined'
<1>1. \A f, v, k : FieldRight(f, v, k) => FieldRight(f, v, k)'
  BY DEF FieldRight, Updates
<1>2. taken2 \in [StoreLists -> 0 .. done] /\ done \in Nat
  BY DEF StoreInv, StoreTyped
<1>3. ASSUME NEW c \in storeCalls PROVE StoreCallSound(c)'
  <2>1. StoreCallSound(c)
    BY DEF StoreInv, StoreCallsSound
  <2> QED BY <1>1, <2>1 DEF StoreCallSound, Brings
<1>4. ASSUME NEW c \in new PROVE StoreCallSound(c)'
  <2>1. /\ c \in StoreCalls /\ c.at = 0 /\ c.ok = FALSE /\ c.list \in StoreLists
        /\ c.field # "all" => c.list = ListOf(c.field)
    BY <1>4 DEF StoreCalls
  <2>2. c.at \in 0 .. done /\ ~(c.at > taken2[c.list]) /\ ~(c.at > 0)
    BY <1>2, <2>1
  <2> QED BY <2>1, <2>2 DEF StoreCallSound
<1>5. FieldsShown'
  BY <1>1 DEF StoreInv, FieldsShown
<1>6. SentIsDefined'
  BY DEF StoreInv, SentIsDefined
<1> QED BY <1>3, <1>4, <1>5, <1>6 DEF StoreCallsSound

(* A call is answered or lost: the answers that still count are younger,   *)
(* and what excuses them is younger still.                                 *)
LEMMA StoreGoneKeeps ==
    ASSUME StoreInv, NEW c \in storeCalls, storeCalls' = storeCalls \ {c},
           UNCHANGED <<inDb, done>>,
           taken2' \in [StoreLists -> 0 .. done],
           \A p \in StoreLists : taken2[p] <= taken2'[p],
           c.ok => c.at <= taken2'[c.list]
    PROVE  StoreCallsSound'
<1>1. /\ done \in Nat /\ taken2 \in [StoreLists -> 0 .. done]
      /\ StoreCallSound(c) /\ c \in StoreCalls /\ c.list \in StoreLists
  BY DEF StoreInv, StoreTyped, StoreCallsSound, StoreCallSound, StoreCalls
<1> SUFFICES ASSUME NEW d \in storeCalls, d # c PROVE StoreCallSound(d)'
  BY DEF StoreCallsSound
<1>2. StoreCallSound(d) /\ d \in StoreCalls /\ d.at \in Nat /\ d.list \in StoreLists
  BY DEF StoreInv, StoreCallsSound, StoreCallSound, StoreCalls
<1>3. ASSUME d.at > taken2'[d.list], NEW f \in Fields, d.list = ListOf(f), d.field \in {f, "all"}
      PROVE  FieldRight(f, Brings(d, f), d.at)'
  <2>1. taken2[d.list] \in Nat /\ taken2'[d.list] \in Nat
    BY <1>1, <1>2
  <2>2. d.at > taken2[d.list]
    BY <1>2, <1>3, <2>1
  <2>3. FieldRight(f, Brings(d, f), d.at)
    BY <1>2, <1>3, <2>2 DEF StoreCallSound
  <2>4. Updates(f, d.at) \subseteq Updates(f, d.at)'
    <3> SUFFICES ASSUME NEW e \in Updates(f, d.at), e = c PROVE FALSE
      BY DEF Updates
    <3>1. c.ok /\ c.field = f /\ c.at > d.at /\ c.at \in Nat
      BY <1>1 DEF Updates, StoreCalls
    <3>2. c.list = d.list
      BY <1>1, <1>3, <3>1, FieldFacts DEF StoreCallSound
    <3> QED BY <1>2, <1>3, <2>1, <3>1, <3>2
  <2> QED BY <2>3, <2>4 DEF FieldRight, Brings
<1> QED BY <1>2, <1>3 DEF StoreCallSound

LEMMA ServesKeeps ==
    ASSUME StoreInv, NEW c, Serves(c)
    PROVE  StoreInv'
<1> DEFINE set(f) == c.field # "all" /\ f \in Column(BackendField(c.field))
           read == [f \in Fields |-> IF f \in FieldsOf(c.list) THEN Fetched(f) ELSE "absent"]
<1>1. /\ c \in storeCalls /\ c.at = 0 /\ done' = done + 1
      /\ inDb' = [f \in Fields |-> IF set(f) THEN c.value ELSE inDb[f]]
      /\ UNCHANGED <<adminPage, shownField, ownSwitch, taken2, unsure, acts>>
  BY DEF Serves
<1>2. /\ StoreCallSound(c) /\ c \in StoreCalls /\ done \in Nat /\ done' \in Nat
      /\ inDb \in [Fields -> {"on", "off"}] /\ taken2 \in [StoreLists -> 0 .. done]
      /\ c.list \in StoreLists /\ c.value \in {"on", "off"} /\ c.field \in Fields \cup {"all"}
  <2>1. c \in StoreCalls
    BY <1>1 DEF StoreInv, StoreCallsSound, StoreCallSound
  <2>2. c.list \in StoreLists /\ c.value \in {"on", "off"} /\ c.field \in Fields \cup {"all"}
    BY <2>1 DEF StoreCalls
  <2>3. done \in Nat /\ done' \in Nat
    BY <1>1 DEF StoreInv, StoreTyped
  <2> QED BY <1>1, <2>1, <2>2, <2>3 DEF StoreInv, StoreTyped, StoreCallsSound
<1>3. \A f \in Fields : set(f) <=> f = c.field
  BY <1>2, ColumnOf, FieldFacts
<1>13. \A f \in Fields : SentAsRead(f) => read[f] # "undefined"
  BY <1>2 DEF Fetched
<1>4. read \in [Fields -> Shown] /\ \A f \in Fields : c.list = ListOf(f) => read[f] = "undefined" \/ read[f] = inDb[f]
  BY <1>2 DEF Fetched, Shown, FieldsOf
<1>5. PICK e \in StoreCalls :
        /\ storeCalls' = (storeCalls \ {c}) \cup {e}
        /\ e.at = done' /\ e.ok = TRUE /\ e.rows = read
        /\ e.list = c.list /\ e.field = c.field /\ e.value = c.value
  <2> DEFINE d == [c EXCEPT !.at = done', !.ok = TRUE, !.rows = read]
  <2>1. storeCalls' = (storeCalls \ {c}) \cup {d}
    BY DEF Serves
  <2> HIDE DEF read
  <2>2. /\ d \in StoreCalls /\ d.at = done' /\ d.ok = TRUE /\ d.rows = read
        /\ d.list = c.list /\ d.field = c.field /\ d.value = c.value
    BY <1>2, <1>4 DEF StoreCalls
  <2> HIDE DEF d
  <2> QED BY <2>1, <2>2
<1> HIDE DEF set, read
<1>6. \A f \in Fields : inDb'[f] = IF f = c.field THEN c.value ELSE inDb[f]
  BY <1>1, <1>3
<1>7. \A f \in Fields : \A v : \A k \in 0 .. done : FieldRight(f, v, k) => FieldRight(f, v, k)'
  <2> SUFFICES ASSUME NEW f \in Fields, NEW v, NEW k \in 0 .. done, FieldRight(f, v, k)
               PROVE  FieldRight(f, v, k)'
    OBVIOUS
  <2>1. Updates(f, k) \subseteq Updates(f, k)'
    <3>1. c.at = 0 /\ \A d \in Updates(f, k) : d # c
      BY <1>1, <1>2 DEF Updates, StoreCallSound
    <3> QED BY <1>5, <3>1 DEF Updates
  <2>2. CASE f # c.field
    BY <1>6, <2>1, <2>2 DEF FieldRight
  <2>3. CASE f = c.field
    <3>1. e.at > k
      BY <1>1, <1>2, <1>5
    <3>2. e \in Updates(f, k)'
      BY <1>5, <2>3, <3>1 DEF Updates
    <3> QED BY <3>2 DEF FieldRight
  <2> QED BY <2>2, <2>3
<1>8. StoreCallSound(e)'
  <2>1. ASSUME NEW f \in Fields, e.list = ListOf(f), e.field \in {f, "all"}
        PROVE  FieldRight(f, Brings(e, f), e.at)'
    <3>1. CASE e.field = "all"
      <4>1. inDb'[f] = inDb[f] /\ Brings(e, f)' = read[f]
        BY <1>5, <1>6, <3>1, FieldFacts DEF Brings
      <4>2. read[f] = "undefined" \/ read[f] = inDb[f]
        BY <1>4, <1>5, <2>1
      <4> QED BY <4>1, <4>2 DEF FieldRight
    <3>2. CASE e.field = f
      <4>1. inDb'[f] = e.value /\ Brings(e, f)' = e.value
        BY <1>5, <1>6, <3>2, FieldFacts DEF Brings
      <4> QED BY <4>1 DEF FieldRight
    <3> QED BY <2>1, <3>1, <3>2
  <2>2. e.at \in 0 .. done' /\ e.at > 0
    BY <1>1, <1>2, <1>5
  <2>3. e.field # "all" => e.list = ListOf(e.field)
    BY <1>2, <1>5 DEF StoreCallSound
  <2> QED BY <1>5, <2>1, <2>2, <2>3 DEF StoreCallSound
<1>9. ASSUME NEW d \in storeCalls PROVE StoreCallSound(d)'
  <2>1. StoreCallSound(d)
    BY DEF StoreInv, StoreCallsSound
  <2>2. d.at \in 0 .. done' /\ d.at \in 0 .. done
    BY <1>1, <1>2, <2>1 DEF StoreCallSound
  <2>3. ASSUME d.at > taken2[d.list], NEW f \in Fields, d.list = ListOf(f), d.field \in {f, "all"}
        PROVE  FieldRight(f, Brings(d, f), d.at)'
    BY <1>7, <2>1, <2>2, <2>3 DEF StoreCallSound, Brings
  <2> QED BY <1>1, <2>1, <2>2, <2>3 DEF StoreCallSound
<1>10. StoreCallsSound'
  BY <1>5, <1>8, <1>9 DEF StoreCallsSound
<1>11. FieldsShown'
  <2>1. 0 \in 0 .. done
    BY <1>2
  <2> QED BY <1>1, <1>7, <2>1 DEF StoreInv, FieldsShown
<1>12. StoreTyped'
  <2>1. \A f \in Fields : inDb'[f] \in {"on", "off"}
    BY <1>2, <1>6
  <2>2. inDb' \in [Fields -> {"on", "off"}]
    BY <1>1, <2>1
  <2>3. taken2' \in [StoreLists -> 0 .. done']
    BY <1>1, <1>2
  <2> QED BY <1>1, <1>2, <2>2, <2>3 DEF StoreInv, StoreTyped
<1>14. SentIsDefined'
  BY <1>1, <1>5, <1>13 DEF StoreInv, SentIsDefined
<1> QED BY <1>10, <1>11, <1>12, <1>14 DEF StoreInv

\* Taking an answer moves the moment of its list forward, and no other.
LEMMA TakenBounds ==
    ASSUME StoreInv, NEW c \in storeCalls,
           taken2' = IF c.ok /\ Prompt(c) THEN [taken2 EXCEPT ![c.list] = c.at] ELSE taken2
    PROVE  /\ taken2' \in [StoreLists -> 0 .. done]
           /\ \A p \in StoreLists : taken2[p] <= taken2'[p]
           /\ c.ok => c.at <= taken2'[c.list]
<1>1. /\ taken2 \in [StoreLists -> 0 .. done] /\ done \in Nat /\ c.list \in StoreLists
      /\ c.at \in 0 .. done
  BY DEF StoreInv, StoreTyped, StoreCallsSound, StoreCallSound, StoreCalls
<1> QED BY <1>1 DEF Prompt

LEMMA SucceedsKeeps ==
    ASSUME StoreInv, NEW c, Succeeds(c)
    PROVE  StoreInv'
<1>1. /\ c \in storeCalls /\ c.ok /\ storeCalls' = storeCalls \ {c}
      /\ shownField' = [f \in Fields |->
           IF f \notin FieldsOf(c.list) THEN shownField[f]
           ELSE IF c.field = "all" THEN c.rows[f]
           ELSE IF f = c.field /\ shownField[f] # "absent" THEN c.value ELSE shownField[f]]
      /\ taken2' = IF c.ok /\ Prompt(c) THEN [taken2 EXCEPT ![c.list] = c.at] ELSE taken2
      /\ unsure' = IF ~Prompt(c) THEN unsure \cup {c.list}
                   ELSE IF c.field = "all" THEN unsure \ {c.list} ELSE unsure
      /\ UNCHANGED <<adminPage, inDb, ownSwitch, done, acts>>
  BY DEF Succeeds
<1>2. /\ StoreCallSound(c) /\ c \in StoreCalls /\ c.list \in StoreLists /\ c.value \in {"on", "off"}
      /\ c.rows \in [Fields -> Shown] /\ shownField \in [Fields -> Shown] /\ unsure \subseteq StoreLists
      /\ c.at \in 0 .. done /\ done \in Nat
  BY <1>1 DEF StoreInv, StoreTyped, StoreCallsSound, StoreCallSound, StoreCalls
<1>3. /\ taken2' \in [StoreLists -> 0 .. done] /\ StoreCallsSound'
  BY <1>1, TakenBounds, StoreGoneKeeps
<1>4. ASSUME NEW f \in Fields, ListOf(f) \notin unsure' PROVE FieldRight(f, shownField[f], 0)'
  <2>1. c.field = f => c.list = ListOf(f)
    BY <1>2, FieldFacts DEF StoreCallSound
  <2>2. CASE shownField'[f] = shownField[f] /\ c.field # f /\ ListOf(f) \notin unsure
    <3>1. Updates(f, 0) \subseteq Updates(f, 0)'
      BY <1>1, <2>2 DEF Updates
    <3>2. FieldRight(f, shownField[f], 0)
      BY <2>2 DEF StoreInv, FieldsShown
    <3> QED BY <1>1, <2>2, <3>1, <3>2 DEF FieldRight
  <2>3. CASE c.list = ListOf(f) /\ c.field \in {f, "all"} /\ Prompt(c)
    <3>1. FieldRight(f, Brings(c, f), c.at)
      BY <1>2, <2>3 DEF StoreCallSound, Prompt
    <3>2. Updates(f, c.at) \subseteq Updates(f, 0)'
      <4> SUFFICES ASSUME NEW d \in Updates(f, c.at) PROVE d \in Updates(f, 0)'
        OBVIOUS
      <4>1. d \in storeCalls /\ d.ok /\ d.field = f /\ d.at > c.at /\ d.at \in Nat
        BY DEF Updates, StoreInv, StoreCallsSound, StoreCallSound, StoreCalls
      <4>2. d # c /\ d.at > 0
        BY <1>2, <4>1
      <4> QED BY <1>1, <4>1, <4>2 DEF Updates
    <3>3. shownField'[f] = Brings(c, f) \/ shownField'[f] = "absent"
      BY <1>1, <2>3, FieldFacts DEF FieldsOf, Brings
    <3> QED BY <1>1, <3>1, <3>2, <3>3 DEF FieldRight
  <2>4. shownField'[f] = shownField[f] \/ (c.list = ListOf(f) /\ c.field \in {f, "all"})
    BY <1>1 DEF FieldsOf
  <2>5. c.list = ListOf(f) => Prompt(c)
    BY <1>1, <1>4
  <2>6. ListOf(f) \in unsure => c.list = ListOf(f) /\ c.field = "all"
    BY <1>1, <1>4
  <2> QED BY <2>1, <2>2, <2>3, <2>4, <2>5, <2>6
<1>5. StoreTyped'
  <2>1. shownField' \in [Fields -> Shown]
    BY <1>1, <1>2 DEF Shown
  <2>2. unsure' \subseteq StoreLists
    BY <1>1, <1>2
  <2> QED BY <1>1, <1>3, <2>1, <2>2 DEF StoreInv, StoreTyped
<1>6. SentIsDefined'
  BY <1>1, <1>2 DEF StoreInv, SentIsDefined
<1> QED BY <1>3, <1>4, <1>5, <1>6 DEF StoreInv, FieldsShown

LEMMA FailsKeeps ==
    ASSUME StoreInv, NEW c, Fails(c)
    PROVE  StoreInv'
<1>1. /\ c \in storeCalls /\ storeCalls' = storeCalls \ {c}
      /\ taken2' = IF c.ok /\ Prompt(c) THEN [taken2 EXCEPT ![c.list] = c.at] ELSE taken2
      /\ unsure' = IF c.ok /\ c.field # "all" THEN unsure \cup {c.list} ELSE unsure
      /\ UNCHANGED <<adminPage, inDb, shownField, ownSwitch, done, acts>>
  BY DEF Fails
<1>2. /\ StoreCallSound(c) /\ c.list \in StoreLists /\ unsure \subseteq StoreLists
  BY <1>1 DEF StoreInv, StoreTyped, StoreCallsSound, StoreCallSound, StoreCalls
<1>3. taken2' \in [StoreLists -> 0 .. done] /\ StoreCallsSound'
  BY <1>1, TakenBounds, StoreGoneKeeps
<1>4. ASSUME NEW f \in Fields, ListOf(f) \notin unsure' PROVE FieldRight(f, shownField[f], 0)'
  <2>1. ListOf(f) \notin unsure /\ ~(c.ok /\ c.field = f)
    BY <1>1, <1>2, <1>4, FieldFacts DEF StoreCallSound
  <2>2. Updates(f, 0) \subseteq Updates(f, 0)'
    BY <1>1, <2>1 DEF Updates
  <2> QED BY <1>1, <2>1, <2>2 DEF StoreInv, FieldsShown, FieldRight
<1>5. StoreTyped'
  <2>1. unsure' \subseteq StoreLists
    BY <1>1, <1>2
  <2> QED BY <1>1, <1>3, <2>1 DEF StoreInv, StoreTyped
<1>6. SentIsDefined'
  BY <1>1 DEF StoreInv, SentIsDefined
<1> QED BY <1>3, <1>4, <1>5, <1>6 DEF StoreInv, FieldsShown

LEMMA StoreNextInv == StoreInv /\ [StoreNext]_storeVars => StoreInv'
<1> SUFFICES ASSUME StoreInv, [StoreNext]_storeVars PROVE StoreInv'
  OBVIOUS
<1>1. ASSUME NEW new, storeCalls' = storeCalls \cup new,
             \A c \in new : /\ c \in StoreCalls /\ c.at = 0 /\ c.ok = FALSE /\ c.rows = shownField
                            /\ c.field # "all" => c.list = ListOf(c.field),
             UNCHANGED <<inDb, shownField, done, taken2, unsure>>,
             adminPage' \in StoreLists \cup {"dashboard"}, acts' \in 0 .. MaxActs,
             ownSwitch' \in [Fields -> {"on", "off"}]
      PROVE  StoreInv'
  BY <1>1, StoreAskingKeeps DEF StoreInv, StoreTyped
<1>2. /\ Acted => acts' \in 0 .. MaxActs /\ acts' \in Nat
      /\ shownField \in [Fields -> Shown] /\ ownSwitch \in [Fields -> {"on", "off"}]
      /\ AllOff \in [Fields -> {"on", "off"}] /\ \A v : Flip(v) \in {"on", "off"}
  BY AdminStoreAssumption DEF Acted, StoreInv, StoreTyped, AllOff, Flip
<1>3. ASSUME NEW p \in StoreLists \cup {"dashboard"}, OpenAdmin(p) PROVE StoreInv'
  <2> DEFINE new == IF p = "dashboard" THEN {} ELSE {StoreCall(p, "all", "on")}
  <2>1. \A c \in new : /\ c \in StoreCalls /\ c.at = 0 /\ c.ok = FALSE /\ c.rows = shownField
                       /\ c.field # "all" => c.list = ListOf(c.field)
    <3> SUFFICES ASSUME p # "dashboard"
                 PROVE  /\ StoreCall(p, "all", "on") \in StoreCalls /\ StoreCall(p, "all", "on").at = 0
                        /\ StoreCall(p, "all", "on").ok = FALSE /\ StoreCall(p, "all", "on").field = "all"
                        /\ StoreCall(p, "all", "on").rows = shownField
      OBVIOUS
    <3> QED BY <1>2, <1>3 DEF StoreCall, StoreCalls, OpenAdmin
  <2>2. storeCalls' = storeCalls \cup new /\ UNCHANGED <<inDb, shownField, done, taken2, unsure>>
        /\ adminPage' = p /\ Acted /\ ownSwitch' \in {ownSwitch, AllOff}
    BY <1>3 DEF OpenAdmin
  <2> HIDE DEF new
  <2> QED BY <1>1, <1>2, <2>1, <2>2
<1>4. ASSUME NEW f \in Fields, ClickField(f) PROVE StoreInv'
  <2> DEFINE v == Flip(DrawnField(f))
             new == {StoreCall(ListOf(f), f, v)}
  <2>0. v \in {"on", "off"}
    BY <1>2
  <2>3. /\ storeCalls' = storeCalls \cup new /\ UNCHANGED <<inDb, shownField, done, taken2, unsure>>
        /\ adminPage' = adminPage /\ Acted /\ adminPage \in StoreLists \cup {"dashboard"}
        /\ ownSwitch' = IF shownField[f] = "undefined" THEN [ownSwitch EXCEPT ![f] = v] ELSE ownSwitch
    BY <1>4 DEF ClickField, StoreInv, StoreTyped
  <2> HIDE DEF v
  <2>1. \A c \in new : /\ c \in StoreCalls /\ c.at = 0 /\ c.ok = FALSE /\ c.rows = shownField
                       /\ c.field # "all" => c.list = ListOf(c.field)
    <3>1. /\ StoreCall(ListOf(f), f, v) \in StoreCalls /\ StoreCall(ListOf(f), f, v).at = 0
          /\ StoreCall(ListOf(f), f, v).ok = FALSE /\ StoreCall(ListOf(f), f, v).field = f
          /\ StoreCall(ListOf(f), f, v).list = ListOf(f) /\ StoreCall(ListOf(f), f, v).rows = shownField
      BY <1>2, <2>0, <2>3, FieldFacts DEF StoreCall, StoreCalls
    <3> QED BY <3>1
  <2>2. ownSwitch' \in [Fields -> {"on", "off"}]
    BY <1>2, <2>0, <2>3
  <2> HIDE DEF new
  <2> QED BY <1>1, <1>2, <2>1, <2>2, <2>3
<1>5. ASSUME NEW c \in storeCalls, Serves(c) \/ Succeeds(c) \/ Fails(c) PROVE StoreInv'
  BY <1>5, ServesKeeps, SucceedsKeeps, FailsKeeps
<1>7. CASE ReopenGroup
  <2>1. /\ ownSwitch' = AllOff
        /\ UNCHANGED <<adminPage, inDb, shownField, storeCalls, done, taken2, unsure, acts>>
    BY <1>7 DEF ReopenGroup
  <2>2. StoreTyped' /\ SentIsDefined'
    BY <1>2, <2>1 DEF StoreInv, StoreTyped, SentIsDefined
  <2>3. \A f, x, k : FieldRight(f, x, k)' <=> FieldRight(f, x, k)
    BY <2>1 DEF FieldRight, Updates
  <2>4. StoreCallsSound'
    BY <2>1, <2>3 DEF StoreInv, StoreCallsSound, StoreCallSound, Brings
  <2> QED BY <2>1, <2>2, <2>3, <2>4 DEF StoreInv, FieldsShown
<1>6. CASE UNCHANGED storeVars
  <2> DEFINE new == {}
  <2>1. storeCalls' = storeCalls \cup new /\ UNCHANGED <<inDb, shownField, done, taken2, unsure>>
        /\ adminPage' = adminPage /\ acts' = acts /\ ownSwitch' = ownSwitch
    BY <1>6 DEF storeVars
  <2>2. \A c \in new : /\ c \in StoreCalls /\ c.at = 0 /\ c.ok = FALSE /\ c.rows = shownField
                       /\ c.field # "all" => c.list = ListOf(c.field)
    OBVIOUS
  <2> HIDE DEF new
  <2> QED BY <1>1, <2>1, <2>2 DEF StoreInv, StoreTyped
<1> QED BY <1>3, <1>4, <1>5, <1>6, <1>7 DEF StoreNext, StoreLists

LEMMA StoreInvSound == StoreInv => FieldsSettle /\ StoreTypeOK
<1> SUFFICES ASSUME StoreInv PROVE FieldsSettle /\ StoreTypeOK
  OBVIOUS
<1>1. ASSUME NEW f \in Fields, shownField[f] # "absent", ListOf(f) \notin unsure,
             \A c \in storeCalls : c.list = ListOf(f) => ~c.ok,
             SentAsRead(f) \/ shownField[f] # "undefined"
      PROVE  DrawnField(f) = inDb[f]
  <2>2. shownField[f] \in {"on", "off"} /\ DrawnField(f) = shownField[f]
    BY <1>1 DEF StoreInv, StoreTyped, SentIsDefined, Shown, DrawnField
  <2>1. Updates(f, 0) = {}
    BY <1>1, FieldFacts DEF Updates, StoreInv, StoreCallsSound, StoreCallSound
  <2> QED BY <1>1, <2>1, <2>2 DEF StoreInv, FieldsShown, FieldRight
<1>2. StoreTypeOK
  BY DEF StoreInv, StoreTyped, StoreCallsSound, StoreCallSound, StoreCalls, StoreTypeOK, StoreLists
<1> QED BY <1>1, <1>2 DEF FieldsSettle

(* A field is drawn as the database holds it once the calls of its list    *)
(* are answered, however updates and fetches overlapped, unless an answer  *)
(* was lost or overtaken and the list not fetched since, or the field came *)
(* with a fetch that sends it under another name (store/admin.ts).         *)
THEOREM StoreHolds == StoreSpec => []FieldsSettle
<1>1. StoreInv => FieldsSettle
  BY StoreInvSound
<1> QED BY <1>1, StoreInitInv, StoreNextInv, PTL DEF StoreSpec
-----------------------------------------------------------------------------
(***************************************************************************)
(* The panels that watch, and the switch of the rabbit holes.              *)
(***************************************************************************)
PanelCalls == [kind : {"fetch", "toggle"}, of : Watching, mount : 0 .. MaxLooks, n : Nat,
               next : BOOLEAN, at : Nat, on : BOOLEAN]

\* The flips whose answers are to come, later than moment k.
Flips(k) == {d \in panelCalls : d.kind = "toggle" /\ d.at > k}

SwitchRight(on, k) == (\E w \in Workers : on = holes[w]) \/ Flips(k) # {}

PanelCallSound(c) ==
    /\ c \in PanelCalls /\ c.at \in 0 .. reached
    /\ c.kind = "fetch" /\ c.at > newest => SwitchRight(c.on, c.at)

PanelCallsSound == \A c \in panelCalls : PanelCallSound(c)

SwitchShown ==
    panel = "rabbit-holes" /\ ~doubted
        => SwitchRight(holesShown, 0) \/ \E c \in panelCalls : c.kind = "fetch" /\ Shows(c)

PanelTyped ==
    /\ panel \in Watching \cup {"none"} /\ opening \in 0 .. MaxLooks
    /\ holes \in [Workers -> BOOLEAN] /\ holesShown \in BOOLEAN
    /\ panelBusy \in BOOLEAN /\ hasStats \subseteq Watching
    /\ shownCount \in 0 .. MaxRows /\ rowsInDb \in 0 .. MaxRows
    /\ reached \in Nat /\ newest \in 0 .. reached /\ doubted \in BOOLEAN
    /\ looks \in 0 .. MaxLooks

PanelInv ==
    /\ PanelTyped /\ PanelCallsSound /\ SwitchShown
    /\ PollsAreOfThePage /\ PanelLoads

LEMMA PanelInitInv == PanelInit => PanelInv
<1> SUFFICES ASSUME PanelInit PROVE PanelInv
  OBVIOUS
<1>1. PanelTyped
  <2>1. holes \in [Workers -> BOOLEAN]
    BY DEF PanelInit
  <2>2. panel \in Watching \cup {"none"} /\ hasStats \subseteq Watching /\ shownCount \in 0 .. MaxRows
        /\ rowsInDb \in 0 .. MaxRows /\ reached \in Nat /\ newest \in 0 .. reached
        /\ looks \in 0 .. MaxLooks /\ opening \in 0 .. MaxLooks
    BY PanelsAssumption DEF PanelInit
  <2>3. holesShown \in BOOLEAN /\ panelBusy \in BOOLEAN /\ doubted \in BOOLEAN
    BY DEF PanelInit
  <2> QED BY <2>1, <2>2, <2>3 DEF PanelTyped
<1> QED BY <1>1 DEF PanelInit, PanelInv, PanelCallsSound, SwitchShown, PollsAreOfThePage, PanelLoads

LEMMA LookedBounds == PanelInv /\ Looked => looks' \in 0 .. MaxLooks /\ looks' \in Nat
  BY PanelsAssumption DEF PanelInv, PanelTyped, Looked

\* A call that a page sends is typed, and is shown by the page that sent it.
LEMMA PanelCallTyped ==
    ASSUME NEW kind \in {"fetch", "toggle"}, NEW p \in Watching, NEW next \in BOOLEAN,
           looks' \in Nat, opening' \in 0 .. MaxLooks
    PROVE  /\ PanelCall(kind, p, next) \in PanelCalls
           /\ PanelCall(kind, p, next).kind = kind /\ PanelCall(kind, p, next).at = 0
           /\ PanelCall(kind, p, next).of = p /\ PanelCall(kind, p, next).mount = opening'
  BY DEF PanelCall, PanelCalls

(* A call that is new, and has not been handled, excuses nothing and       *)
(* invalidates nothing.                                                    *)
LEMMA PanelAskingKeeps ==
    ASSUME PanelInv, NEW new, panelCalls' = panelCalls \cup new,
           \A c \in new : c \in PanelCalls /\ c.at = 0,
           UNCHANGED <<holes, reached, newest>>
    PROVE  /\ PanelCallsSound'
           /\ \A on, k : SwitchRight(on, k) => SwitchRight(on, k)'
<1>1. \A on, k : SwitchRight(on, k) => SwitchRight(on, k)'
  BY DEF SwitchRight, Flips
<1>2. newest \in 0 .. reached /\ reached \in Nat
  BY DEF PanelInv, PanelTyped
<1>3. ASSUME NEW c \in panelCalls PROVE PanelCallSound(c)'
  BY <1>1 DEF PanelInv, PanelCallsSound, PanelCallSound
<1>4. ASSUME NEW c \in new PROVE PanelCallSound(c)'
  BY <1>2, <1>4 DEF PanelCallSound
<1> QED BY <1>1, <1>3, <1>4 DEF PanelCallsSound

(* A call is answered or lost: the answers that still count are younger,   *)
(* and what excuses them is younger still.                                 *)
LEMMA PanelGoneKeeps ==
    ASSUME PanelInv, NEW c \in panelCalls, UNCHANGED <<holes, reached>>,
           NEW new \in SUBSET PanelCalls, \A d \in new : d.kind = "fetch" /\ d.at = 0,
           panelCalls' = (panelCalls \ {c}) \cup new,
           newest' \in 0 .. reached, newest <= newest', c.at <= newest'
    PROVE  PanelCallsSound'
<1>1. reached \in Nat /\ newest \in Nat /\ newest' \in Nat /\ c.at \in Nat
  BY DEF PanelInv, PanelTyped, PanelCallsSound, PanelCallSound, PanelCalls
<1>2. ASSUME NEW d \in panelCalls \ {c} PROVE PanelCallSound(d)'
  <2>1. PanelCallSound(d) /\ d.at \in Nat
    BY DEF PanelInv, PanelCallsSound, PanelCallSound, PanelCalls
  <2>2. ASSUME d.kind = "fetch", d.at > newest' PROVE SwitchRight(d.on, d.at)'
    <3>1. SwitchRight(d.on, d.at)
      BY <1>1, <2>1, <2>2 DEF PanelCallSound
    <3>2. Flips(d.at) \subseteq Flips(d.at)'
      <4> SUFFICES ASSUME NEW e \in Flips(d.at), e = c PROVE FALSE
        BY DEF Flips
      <4> QED BY <1>1, <2>1, <2>2 DEF Flips
    <3> QED BY <3>1, <3>2 DEF SwitchRight
  <2> QED BY <2>1, <2>2 DEF PanelCallSound
<1>3. ASSUME NEW d \in new PROVE PanelCallSound(d)'
  BY <1>1, <1>3 DEF PanelCallSound
<1> QED BY <1>2, <1>3 DEF PanelCallsSound

LEMMA LatestBounds ==
    ASSUME PanelInv, NEW c \in panelCalls
    PROVE  Latest(c) \in 0 .. reached /\ newest <= Latest(c) /\ c.at <= Latest(c)
<1>1. c.at \in 0 .. reached /\ newest \in 0 .. reached /\ reached \in Nat
  BY DEF PanelInv, PanelTyped, PanelCallsSound, PanelCallSound
<1> QED BY <1>1 DEF Latest, Newer

LEMMA OpenPanelKeeps ==
    ASSUME PanelInv, NEW p \in Watching \cup {"none"}, OpenPanel(p)
    PROVE  PanelInv'
<1> DEFINE new == IF p = "none" THEN {} ELSE {PanelCall("fetch", p, FALSE)}
<1>1. /\ panel' = p /\ opening' = looks' /\ Looked /\ holesShown' = FALSE /\ panelBusy' = HasSkeleton(p)
      /\ hasStats' = hasStats \cap {"dashboard"} /\ polls' = PollsOf(p) /\ doubted' = TRUE
      /\ panelCalls' = panelCalls \cup new
      /\ UNCHANGED <<holes, shownCount, rowsInDb, reached, newest>>
  BY DEF OpenPanel
<1>2. looks' \in 0 .. MaxLooks /\ looks' \in Nat
  BY <1>1, LookedBounds
<1>3. /\ \A c \in new : c \in PanelCalls /\ c.at = 0
      /\ p # "none" => \E c \in new : c.kind = "fetch" /\ c.of = p /\ c.mount = opening'
  <2>1. CASE p # "none"
    <3>1. /\ PanelCall("fetch", p, FALSE) \in PanelCalls /\ PanelCall("fetch", p, FALSE).at = 0
          /\ PanelCall("fetch", p, FALSE).kind = "fetch" /\ PanelCall("fetch", p, FALSE).of = p
          /\ PanelCall("fetch", p, FALSE).mount = opening'
      <4>1. p \in Watching /\ opening' \in 0 .. MaxLooks /\ FALSE \in BOOLEAN
        BY <1>1, <1>2, <2>1
      <4> QED BY <1>2, <4>1, PanelCallTyped
    <3> QED BY <2>1, <3>1
  <2> QED BY <2>1
<1> HIDE DEF new
<1>4. PanelCallsSound'
  BY <1>1, <1>3, PanelAskingKeeps
<1>5. PanelTyped'
  <2>1. panelBusy' \in BOOLEAN /\ hasStats' \subseteq Watching
    BY <1>1 DEF HasSkeleton, PanelInv, PanelTyped
  <2> QED BY <1>1, <1>2, <2>1 DEF PanelInv, PanelTyped
<1>6. SwitchShown' /\ PollsAreOfThePage'
  BY <1>1 DEF SwitchShown, PollsAreOfThePage, PollsOf
<1>7. PanelLoads'
  BY <1>1, <1>3 DEF PanelLoads, HasSkeleton, Shows
<1> QED BY <1>4, <1>5, <1>6, <1>7 DEF PanelInv

\* The clicks and polls of a page that stays open.
LEMMA PanelClickKeeps ==
    ASSUME PanelInv, NEW kind \in {"fetch", "toggle"}, NEW p \in Watching, NEW next \in BOOLEAN,
           Looked, panelCalls' = panelCalls \cup {PanelCall(kind, p, next)},
           panelBusy' \in BOOLEAN, panelBusy' => panelBusy \/ (kind = "fetch" /\ p = panel),
           UNCHANGED <<panel, opening, holes, holesShown, hasStats, shownCount, rowsInDb, polls,
                       reached, newest, doubted>>
    PROVE  PanelInv'
<1> DEFINE call == PanelCall(kind, p, next)
           new == {call}
<1>1. looks' \in 0 .. MaxLooks /\ looks' \in Nat /\ opening' \in 0 .. MaxLooks
  BY LookedBounds DEF PanelInv, PanelTyped
<1>2. /\ \A c \in new : c \in PanelCalls /\ c.at = 0
      /\ call \in new /\ call.kind = kind /\ call.of = p /\ call.mount = opening
  BY <1>1, PanelCallTyped
<1>3. panelCalls' = panelCalls \cup new
  OBVIOUS
<1> HIDE DEF call, new
<1>4. PanelCallsSound' /\ \A on, k : SwitchRight(on, k) => SwitchRight(on, k)'
  BY <1>2, <1>3, PanelAskingKeeps
<1>5. SwitchShown'
  BY <1>3, <1>4 DEF PanelInv, SwitchShown, Shows
<1>6. PanelLoads'
  BY <1>2, <1>3 DEF PanelInv, PanelLoads, Shows
<1> QED BY <1>1, <1>4, <1>5, <1>6 DEF PanelInv, PanelTyped, PollsAreOfThePage

LEMMA AtWorkerKeeps ==
    ASSUME PanelInv, NEW c, NEW w \in Workers, AtWorker(c, w)
    PROVE  PanelInv'
<1>1. /\ c \in panelCalls /\ c.at = 0 /\ reached' = reached + 1
      /\ holes' = IF c.kind = "toggle" THEN [holes EXCEPT ![w] = ~@] ELSE holes
      /\ UNCHANGED <<panel, opening, holesShown, panelBusy, hasStats, shownCount, rowsInDb, polls,
                     newest, doubted, looks>>
  BY DEF AtWorker
<1>2. /\ c \in PanelCalls /\ reached \in Nat /\ reached' \in Nat /\ newest \in 0 .. reached
      /\ holes \in [Workers -> BOOLEAN] /\ holes' \in [Workers -> BOOLEAN]
  <2>1. c \in PanelCalls /\ reached \in Nat /\ newest \in 0 .. reached /\ holes \in [Workers -> BOOLEAN]
    BY <1>1 DEF PanelInv, PanelTyped, PanelCallsSound, PanelCallSound
  <2>2. holes' \in [Workers -> BOOLEAN]
    BY <1>1, <2>1
  <2> QED BY <1>1, <2>1, <2>2
<1>3. PICK d \in PanelCalls :
        /\ panelCalls' = (panelCalls \ {c}) \cup {d}
        /\ d.kind = c.kind /\ d.of = c.of /\ d.mount = c.mount
        /\ d.at = reached' /\ d.on = holes'[w]
  <2> DEFINE e == [c EXCEPT !.at = reached', !.on = holes'[w]]
  <2>1. panelCalls' = (panelCalls \ {c}) \cup {e}
    BY DEF AtWorker
  <2>2. holes'[w] \in BOOLEAN
    BY <1>2
  <2>3. /\ e \in PanelCalls /\ e.kind = c.kind /\ e.of = c.of /\ e.mount = c.mount
        /\ e.at = reached' /\ e.on = holes'[w]
    BY <1>2, <2>2 DEF PanelCalls
  <2> HIDE DEF e
  <2> QED BY <2>1, <2>3
<1>4. \A on : \A k \in 0 .. reached : SwitchRight(on, k) => SwitchRight(on, k)'
  <2> SUFFICES ASSUME NEW on, NEW k \in 0 .. reached, SwitchRight(on, k) PROVE SwitchRight(on, k)'
    OBVIOUS
  <2>1. CASE c.kind = "toggle"
    <3>1. d.at > k
      BY <1>1, <1>2, <1>3
    <3>2. d \in Flips(k)'
      BY <1>3, <2>1, <3>1 DEF Flips
    <3> QED BY <3>2 DEF SwitchRight
  <2>2. CASE c.kind # "toggle"
    BY <1>1, <1>3, <2>2 DEF SwitchRight, Flips
  <2> QED BY <2>1, <2>2
<1>5. PanelCallSound(d)'
  <2>1. SwitchRight(d.on, d.at)'
    BY <1>3 DEF SwitchRight
  <2>2. d.at \in 0 .. reached'
    BY <1>2, <1>3
  <2> QED BY <1>3, <2>1, <2>2 DEF PanelCallSound
<1>6. ASSUME NEW e \in panelCalls PROVE PanelCallSound(e)'
  <2>1. PanelCallSound(e) /\ e.at \in 0 .. reached
    BY DEF PanelInv, PanelCallsSound, PanelCallSound
  <2>2. e.at \in 0 .. reached'
    BY <1>1, <1>2, <2>1
  <2> QED BY <1>1, <1>4, <2>1, <2>2 DEF PanelCallSound
<1>7. PanelCallsSound'
  BY <1>3, <1>5, <1>6 DEF PanelCallsSound
<1>8. SwitchShown'
  <2>1. 0 \in 0 .. reached
    BY <1>2
  <2> QED BY <1>1, <1>3, <1>4, <2>1 DEF PanelInv, SwitchShown, Shows
<1>9. PanelLoads' /\ PollsAreOfThePage'
  BY <1>1, <1>3 DEF PanelInv, PanelLoads, PollsAreOfThePage, Shows
<1>10. PanelTyped'
  <2>1. newest' \in 0 .. reached'
    BY <1>1, <1>2
  <2> QED BY <1>1, <1>2, <2>1 DEF PanelInv, PanelTyped
<1> QED BY <1>7, <1>8, <1>9, <1>10 DEF PanelInv

LEMMA FetchArrivesKeeps ==
    ASSUME PanelInv, NEW c, FetchArrives(c)
    PROVE  PanelInv'
<1>1. /\ c \in panelCalls /\ c.kind = "fetch" /\ panelCalls' = (panelCalls \ {c}) \cup {}
      /\ panelBusy' = (panelBusy /\ ~Shows(c))
      /\ hasStats' = IF Shows(c) \/ c.of = "dashboard" THEN hasStats \cup {c.of} ELSE hasStats
      /\ shownCount' \in IF c.of = "dashboard" THEN {0, LengthAtMostOne(rowsInDb)} ELSE {shownCount}
      /\ holesShown' = IF Shows(c) /\ c.of = "rabbit-holes" THEN c.on ELSE holesShown
      /\ newest' = Latest(c)
      /\ doubted' = IF Shows(c) THEN ~Newer(c) ELSE doubted
      /\ UNCHANGED <<panel, opening, holes, rowsInDb, polls, reached, looks>>
  BY DEF FetchArrives
<1>2. /\ PanelCallSound(c) /\ c \in PanelCalls /\ c.of \in Watching /\ c.on \in BOOLEAN
      /\ c.at \in 0 .. reached /\ reached \in Nat
  BY <1>1 DEF PanelInv, PanelTyped, PanelCallsSound, PanelCallSound, PanelCalls
<1>3. newest' \in 0 .. reached /\ newest <= newest' /\ c.at <= newest'
  BY <1>1, LatestBounds
<1>4. PanelCallsSound'
  <2> DEFINE new == {}
  <2>1. new \in SUBSET PanelCalls /\ panelCalls' = (panelCalls \ {c}) \cup new
        /\ \A d \in new : d.kind = "fetch" /\ d.at = 0
    BY <1>1
  <2> HIDE DEF new
  <2> QED BY <1>1, <1>3, <2>1, PanelGoneKeeps
<1>5. SwitchShown'
  <2>1. \A k \in Nat : Flips(k) \subseteq Flips(0)'
    <3> SUFFICES ASSUME NEW k \in Nat, NEW d \in Flips(k) PROVE d \in Flips(0)'
      OBVIOUS
    <3>1. d \in panelCalls /\ d.kind = "toggle" /\ d.at > k /\ d.at \in Nat
      BY DEF Flips, PanelInv, PanelCallsSound, PanelCallSound, PanelCalls
    <3> QED BY <1>1, <3>1 DEF Flips
  <2>2. CASE Shows(c)
    <3> SUFFICES ASSUME panel = "rabbit-holes", Newer(c) PROVE SwitchRight(holesShown, 0)'
      BY <1>1, <2>2 DEF SwitchShown
    <3>1. holesShown' = c.on /\ SwitchRight(c.on, c.at)
      BY <1>1, <1>2, <2>2 DEF Shows, PanelCallSound, Newer
    <3> QED BY <1>1, <1>2, <2>1, <3>1 DEF SwitchRight
  <2>3. CASE ~Shows(c)
    <3> SUFFICES ASSUME panel = "rabbit-holes", ~doubted PROVE SwitchShown'
      BY <1>1, <2>3 DEF SwitchShown
    <3>1. CASE SwitchRight(holesShown, 0)
      BY <1>1, <2>1, <2>3, <3>1 DEF SwitchShown, SwitchRight
    <3>2. CASE \E d \in panelCalls : d.kind = "fetch" /\ Shows(d)
      BY <1>1, <2>3, <3>2 DEF SwitchShown, Shows
    <3> QED BY <3>1, <3>2 DEF PanelInv, SwitchShown
  <2> QED BY <2>2, <2>3
<1>6. PanelLoads' /\ PollsAreOfThePage'
  BY <1>1 DEF PanelInv, PanelLoads, PollsAreOfThePage, Shows
<1>7. PanelTyped'
  <2>1. panelBusy' \in BOOLEAN /\ doubted' \in BOOLEAN /\ holesShown' \in BOOLEAN
    BY <1>1, <1>2 DEF PanelInv, PanelTyped
  <2>2. shownCount' \in 0 .. MaxRows
    BY <1>1, PanelsAssumption DEF PanelInv, PanelTyped, LengthAtMostOne
  <2>3. hasStats' \subseteq Watching
    BY <1>1, <1>2 DEF PanelInv, PanelTyped
  <2> QED BY <1>1, <1>3, <2>1, <2>2, <2>3 DEF PanelInv, PanelTyped
<1> QED BY <1>4, <1>5, <1>6, <1>7 DEF PanelInv

LEMMA ToggleArrivesKeeps ==
    ASSUME PanelInv, NEW c, ToggleArrives(c)
    PROVE  PanelInv'
<1>1. /\ c \in panelCalls /\ c.kind = "toggle" /\ newest' = Latest(c)
      /\ panelBusy' = (panelBusy \/ (Shows(c) /\ AfterToggle(c) # {}))
      /\ doubted' = (doubted \/ ~Shows(c))
      /\ UNCHANGED <<panel, opening, holes, holesShown, hasStats, shownCount, rowsInDb, polls,
                     reached, looks>>
  BY DEF ToggleArrives
<1>2. newest' \in 0 .. reached /\ newest <= newest' /\ c.at <= newest'
  BY <1>1, LatestBounds
<1>3. PICK d \in PanelCalls :
        /\ panelCalls' = (panelCalls \ {c}) \cup {d}
        /\ d.kind = "fetch" /\ d.at = 0 /\ d.of = c.of /\ d.mount = c.mount
  <2> DEFINE e == [c EXCEPT !.kind = "fetch", !.at = 0]
  <2>1. panelCalls' = (panelCalls \ {c}) \cup {e}
    BY DEF ToggleArrives, AfterToggle
  <2>2. c \in PanelCalls
    BY <1>1 DEF PanelInv, PanelCallsSound, PanelCallSound
  <2>3. e \in PanelCalls /\ e.kind = "fetch" /\ e.at = 0 /\ e.of = c.of /\ e.mount = c.mount
    BY <2>2 DEF PanelCalls
  <2> HIDE DEF e
  <2> QED BY <2>1, <2>3
<1>4. PanelCallsSound'
  <2> DEFINE new == {d}
  <2>1. new \in SUBSET PanelCalls /\ panelCalls' = (panelCalls \ {c}) \cup new
        /\ \A e \in new : e.kind = "fetch" /\ e.at = 0
    BY <1>3
  <2> HIDE DEF new
  <2> QED BY <1>1, <1>2, <2>1, PanelGoneKeeps
<1>5. SwitchShown'
  BY <1>1, <1>3 DEF SwitchShown, Shows
<1>6. PanelLoads' /\ PollsAreOfThePage'
  BY <1>1, <1>3 DEF PanelInv, PanelLoads, PollsAreOfThePage, Shows
<1>7. PanelTyped'
  <2>1. panelBusy' \in BOOLEAN /\ doubted' \in BOOLEAN
    BY <1>1 DEF PanelInv, PanelTyped
  <2> QED BY <1>1, <1>2, <2>1 DEF PanelInv, PanelTyped
<1> QED BY <1>4, <1>5, <1>6, <1>7 DEF PanelInv

LEMMA PanelCallFailsKeeps ==
    ASSUME PanelInv, NEW c, PanelCallFails(c)
    PROVE  PanelInv'
<1>1. /\ c \in panelCalls /\ panelCalls' = (panelCalls \ {c}) \cup {}
      /\ panelBusy' = (panelBusy /\ ~(Shows(c) /\ c.kind = "fetch"))
      /\ holesShown' = IF Shows(c) /\ c.kind = "toggle" THEN ~c.next ELSE holesShown
      /\ newest' = IF c.at > 0 THEN Latest(c) ELSE newest
      /\ doubted' = TRUE
      /\ UNCHANGED <<panel, opening, holes, hasStats, shownCount, rowsInDb, polls, reached, looks>>
  BY DEF PanelCallFails
<1>2. newest' \in 0 .. reached /\ newest <= newest' /\ c.at <= newest'
  <2>1. c.at \in 0 .. reached /\ newest \in 0 .. reached /\ reached \in Nat
    BY <1>1 DEF PanelInv, PanelTyped, PanelCallsSound, PanelCallSound
  <2> QED BY <1>1, <2>1, LatestBounds
<1>3. PanelCallsSound'
  <2> DEFINE new == {}
  <2>1. new \in SUBSET PanelCalls /\ panelCalls' = (panelCalls \ {c}) \cup new
        /\ \A d \in new : d.kind = "fetch" /\ d.at = 0
    BY <1>1
  <2> HIDE DEF new
  <2> QED BY <1>1, <1>2, <2>1, PanelGoneKeeps
<1>4. SwitchShown' /\ PanelLoads' /\ PollsAreOfThePage'
  BY <1>1 DEF PanelInv, SwitchShown, PanelLoads, PollsAreOfThePage, Shows
<1>5. PanelTyped'
  <2>1. panelBusy' \in BOOLEAN /\ holesShown' \in BOOLEAN
    BY <1>1 DEF PanelInv, PanelTyped
  <2> QED BY <1>1, <1>2, <2>1 DEF PanelInv, PanelTyped
<1> QED BY <1>3, <1>4, <1>5 DEF PanelInv

LEMMA PanelNextInv == PanelInv /\ [PanelNext]_panelVars => PanelInv'
<1> SUFFICES ASSUME PanelInv, [PanelNext]_panelVars PROVE PanelInv'
  OBVIOUS
<1>1. ASSUME NEW p \in Watching \cup {"none"}, OpenPanel(p) PROVE PanelInv'
  BY <1>1, OpenPanelKeeps
<1>2. CASE RefreshPanel
  <2>1. panel \in Watching /\ HasSkeleton(panel) \in BOOLEAN
    BY <1>2 DEF RefreshPanel, PanelInv, PanelTyped, HasSkeleton
  <2> QED BY <1>2, <2>1, PanelClickKeeps DEF RefreshPanel
<1>3. CASE FlipSwitch
  <2>1. "rabbit-holes" \in Watching /\ panelBusy \in BOOLEAN /\ (~holesShown) \in BOOLEAN
    BY DEF Watching, PanelInv, PanelTyped
  <2> QED BY <1>3, <2>1, PanelClickKeeps DEF FlipSwitch
<1>4. ASSUME NEW i \in Intervals, Poll(i) PROVE PanelInv'
  <2>1. "monitor" \in Watching /\ panelBusy \in BOOLEAN
    BY DEF Watching, PanelInv, PanelTyped
  <2> QED BY <1>4, <2>1, PanelClickKeeps DEF Poll
<1>5. ASSUME NEW c \in panelCalls, NEW w \in Workers, AtWorker(c, w) PROVE PanelInv'
  BY <1>5, AtWorkerKeeps
<1>6. ASSUME NEW c \in panelCalls, FetchArrives(c) \/ ToggleArrives(c) \/ PanelCallFails(c)
      PROVE  PanelInv'
  BY <1>6, FetchArrivesKeeps, ToggleArrivesKeeps, PanelCallFailsKeeps
<1>7. CASE UNCHANGED panelVars
  BY <1>7 DEF panelVars, PanelInv, PanelTyped, PanelCallsSound, PanelCallSound, SwitchShown, SwitchRight,
              Flips, Shows, PollsAreOfThePage, PanelLoads
<1> QED BY <1>1, <1>2, <1>3, <1>4, <1>5, <1>6, <1>7 DEF PanelNext

LEMMA PanelInvSound == PanelInv => PanelsSound /\ PanelTypeOK
<1> SUFFICES ASSUME PanelInv PROVE PanelsSound /\ PanelTypeOK
  OBVIOUS
<1>1. SwitchIsSomeWorkers
  BY DEF SwitchIsSomeWorkers, PanelInv, SwitchShown, SwitchRight, Flips
<1>2. polls \subseteq Intervals \X (0 .. MaxLooks)
  BY DEF PanelInv, PanelTyped, PollsAreOfThePage
<1>3. PanelTypeOK
  BY <1>2 DEF PanelInv, PanelTyped, PanelCallsSound, PanelCallSound, PanelCalls, PanelTypeOK
<1> QED BY <1>1, <1>3 DEF PanelInv, PanelsSound

(* Once the calls of its page are answered, the switch of the rabbit holes *)
(* stands as it does for some worker, unless an answer was lost, overtaken *)
(* or of a page that was left, and no fetch followed; the intervals that   *)
(* run are those of the page that is open, and a page that loads waits for *)
(* a fetch of its own.                                                     *)
THEOREM PanelsHold == PanelSpec => []PanelsSound
<1>1. PanelInv => PanelsSound
  BY PanelInvSound
<1> QED BY <1>1, PanelInitInv, PanelNextInv, PTL DEF PanelSpec
-----------------------------------------------------------------------------
(***************************************************************************)
(* The parts of a tab together.  A part that does not run rests, so that   *)
(* each keeps its own invariant.                                           *)
(***************************************************************************)
PagesInv ==
    /\ part \in Visited
    /\ SessionTypes /\ SocketTypeOK /\ CTFInv /\ PracticeTypeOK
    /\ ListInv /\ StoreInv /\ PanelInv

LEMMA PagesInitInv == PagesInit => PagesInv
  BY SessionTypesInit, SocketTypesInit, CTFInitInv, LabTypesInit, ListInitInv, StoreInitInv, PanelInitInv
  DEF PagesInit, PagesInv

LEMMA PagesNextInv == PagesInv /\ [PagesNext]_pagesVars => PagesInv'
<1> SUFFICES ASSUME PagesInv, [PagesNext]_pagesVars PROVE PagesInv'
  OBVIOUS
<1>1. /\ part' = part
      /\ [SessionNext]_sessionVars /\ [SocketNext]_socketVars /\ [CTFNext]_ctfVars
      /\ [PracticeNext]_labVars /\ [ListNext]_listVars /\ [StoreNext]_storeVars
      /\ [PanelNext]_panelVars
  BY DEF PagesNext, RestPages, pagesVars
<1> QED
  BY <1>1, SessionTypesNext, SocketTypesNext, CTFNextInv, LabTypesNext, ListNextInv, StoreNextInv,
     PanelNextInv
  DEF PagesInv

(* What the admin area shows is what the backend holds once its calls are  *)
(* answered, and none of its pages loads for ever, whatever the other      *)
(* parts of the tab do (app/admin, store/admin.ts).                        *)
THEOREM AdminHolds == PagesSpec => []AdminSound
<1>1. PagesInv => AdminSound
  BY ListInvSound, StoreInvSound, PanelInvSound DEF PagesInv, AdminSound
<1> QED BY <1>1, PagesInitInv, PagesNextInv, PTL DEF PagesSpec

(* Every part of a tab keeps its fields, and its calls, of their kinds     *)
(* (src/frontend), for any number of rows, clicks, tabs and sockets.       *)
THEOREM PagesTyped == PagesSpec => []PagesTypeOK
<1>1. PagesInv => PagesTypeOK
  BY ListInvSound, StoreInvSound, PanelInvSound DEF PagesInv, PagesTypeOK, SessionTypes, CTFInv
<1> QED BY <1>1, PagesInitInv, PagesNextInv, PTL DEF PagesSpec

(* Each part of a tab keeps its promises next to the others: a behaviour   *)
(* of the whole is one of every part, which the theorems above and those   *)
(* of PageProofs are about.                                                *)
THEOREM PagesHold == PagesSpec => [](SessionSound /\ SocketSound /\ CTFSound /\ LabSound)
<1>1. PagesInit => SessionInit /\ SocketInit /\ CTFInit /\ PracticeInit
  BY DEF PagesInit
<1>2. [PagesNext]_pagesVars =>
          [SessionNext]_sessionVars /\ [SocketNext]_socketVars /\ [CTFNext]_ctfVars
          /\ [PracticeNext]_labVars
  BY DEF PagesNext, RestPages, pagesVars
<1>3. PagesSpec => SessionSpec /\ SocketSpec
  BY <1>1, <1>2, PTL DEF PagesSpec, SessionSpec, SocketSpec
<1>4. PagesSpec => CTFSpec /\ PracticeSpec
  BY <1>1, <1>2, PTL DEF PagesSpec, CTFSpec, PracticeSpec
<1> QED BY <1>3, <1>4, SessionHolds, SocketHolds, CTFHolds, LabHolds, PTL
=============================================================================
