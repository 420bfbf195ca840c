---------------------------- MODULE PracticePages ----------------------------
(***************************************************************************)
(* The practice lab in one browser tab: the catalogue (app/practice) over  *)
(* store/challenges.ts, the page of one challenge (app/practice/[id]) and  *)
(* its flag form.                                                          *)
(*                                                                         *)
(* The store reads challenges, total_pages and page from the answer of     *)
(* GET /challenges, and the backend sends items, total, skip and limit:    *)
(* after an answer the list of the store is undefined, and drawing it      *)
(* throws.  GET /challenges/{id} sends no hints, and drawing them throws   *)
(* too.  There is no error boundary: the tab is dead until it is reloaded. *)
(***************************************************************************)
EXTENDS Integers, FiniteSets

CONSTANT MaxLab   \* bound: the page loads, visits and clicks of a behaviour

VARIABLES
    labPage,      \* "away", "list", "player"
    crashedOn,    \* what the tab threw on: "nothing", "list", "hints"
    labList,      \* challenges of the store: "initial" (empty) or "undefined"
    labBusy,      \* isLoading of the store
    detail,       \* the challenge page: "loading", "shown", "error"
    typed,        \* the flag form holds a text
    submitting,   \* isSubmitting of the form
    mount,        \* the latest opening of the challenge page in this document, or 0
    labCalls,     \* the calls that are not answered yet
    labCount

labVars == <<labPage, crashedOn, labList, labBusy, detail, typed, submitting, mount, labCalls,
             labCount>>

ASSUME PracticeAssumption == MaxLab \in Nat

LabCall == [kind : {"list", "detail", "flag"}, mount : 0 .. MaxLab, n : 1 .. MaxLab]
Fetches == {c \in labCalls : c.kind = "list"}

PracticeTypeOK ==
    /\ labPage \in {"away", "list", "player"}
    /\ crashedOn \in {"nothing", "list", "hints"}
    /\ labList \in {"initial", "undefined"} /\ labBusy \in BOOLEAN
    /\ detail \in {"loading", "shown", "error"}
    /\ typed \in BOOLEAN /\ submitting \in BOOLEAN
    /\ labCalls \subseteq LabCall
    /\ mount \in 0 .. MaxLab /\ labCount \in 0 .. MaxLab

PracticeInit ==
    /\ labPage = "away" /\ crashedOn = "nothing"
    /\ labList = "initial" /\ labBusy = FALSE
    /\ detail = "loading" /\ typed = FALSE /\ submitting = FALSE /\ mount = 0
    /\ labCalls = {} /\ labCount = 0
-----------------------------------------------------------------------------
LabCounted == labCount < MaxLab /\ labCount' = labCount + 1
AskLab(kind, m) == [kind |-> kind, mount |-> m, n |-> labCount']
Alive == crashedOn = "nothing"

(* What the catalogue draws.                                               *)
ListView == IF labBusy THEN "skeleton" ELSE IF labList = "undefined" THEN "throws" ELSE "empty"

(* Opening the challenge page mounts it and its form afresh.               *)
MountPlayer ==
    /\ labPage' = "player" /\ mount' = labCount'
    /\ detail' = "loading" /\ typed' = FALSE /\ submitting' = FALSE

(* A page load: a fresh store, and the calls of the old page are gone.     *)
LoadLab(p) ==
    /\ LabCounted
    /\ crashedOn' = "nothing" /\ labList' = "initial"
    /\ labBusy' = (p = "list")
    /\ \/ /\ p = "list"
          /\ labPage' = p /\ mount' = 0
          /\ labCalls' = {AskLab("list", 0)}
          /\ UNCHANGED <<detail, typed, submitting>>
       \/ p = "player" /\ MountPlayer /\ labCalls' = {AskLab("detail", mount')}

(* Back and Forward to the challenge page the document was loaded at: the  *)
(* page is mounted again, and the calls of its earlier mounts are still on *)
(* their way.  The catalogue has no card to reach another challenge by.    *)
EnterPlayer ==
    /\ Alive /\ labPage # "player" /\ mount # 0
    /\ LabCounted
    /\ MountPlayer
    /\ labCalls' = labCalls \cup {AskLab("detail", mount')}
    /\ UNCHANGED <<crashedOn, labList, labBusy>>

(* A link inside the tab.  A list that is undefined already is drawn       *)
(* before the effect could ask for another.                                *)
EnterList ==
    /\ Alive /\ labPage # "list"
    /\ LabCounted
    /\ labPage' = "list"
    /\ IF ListView = "throws"
       THEN crashedOn' = "list" /\ UNCHANGED <<labBusy, labCalls>>
       ELSE /\ labBusy' = TRUE /\ labCalls' = labCalls \cup {AskLab("list", 0)}
            /\ UNCHANGED crashedOn
    /\ UNCHANGED <<labList, detail, typed, submitting, mount>>

\* The other links of the bar above every page, and Back to another page.
LeaveLab ==
    /\ Alive /\ labPage # "away"
    /\ labPage' = "away"
    /\ UNCHANGED <<crashedOn, labList, labBusy, detail, typed, submitting, mount, labCalls, labCount>>

(* A filter, a sort order, a category of the address: the effect fetches   *)
(* again.  A search fetches by itself.                                     *)
Refilter ==
    /\ Alive /\ labPage = "list"
    /\ LabCounted
    /\ labBusy' = TRUE
    /\ labCalls' = labCalls \cup {AskLab("list", 0)}
    /\ UNCHANGED <<labPage, crashedOn, labList, detail, typed, submitting, mount>>

\* Mutant of Lowered: the catch of fetchChallenges forgets the flag.
LoweredOnSuccess(ok) == labBusy /\ ~ok

(* The first answer lowers the flag, whichever fetch it is of.             *)
Lowered(ok) == FALSE

ListAnswered(c, ok) ==
    /\ c \in Fetches
    /\ labCalls' = labCalls \ {c}
    /\ labBusy' = Lowered(ok)
    /\ labList' = IF ok THEN "undefined" ELSE labList
    /\ crashedOn' = IF labPage = "list" /\ Alive /\ labList' = "undefined" THEN "list" ELSE crashedOn
    /\ UNCHANGED <<labPage, detail, typed, submitting, mount, labCount>>

-----------------------------------------------------------------------------
\* Mutant of Mounted: an answer acts on whichever form is mounted.
MountedAny(c) == Alive /\ labPage = "player"

(* React drops what an answer sets of a component that was unmounted.      *)
Mounted(c) == Alive /\ labPage = "player" /\ c.mount = mount

DetailAnswered(c, ok) ==
    /\ c \in labCalls /\ c.kind = "detail"
    /\ labCalls' = labCalls \ {c}
    /\ detail' = IF ~Mounted(c) THEN detail ELSE IF ok THEN "shown" ELSE "error"
    /\ UNCHANGED <<labPage, crashedOn, labList, labBusy, typed, submitting, mount, labCount>>

OnPlayer == Alive /\ labPage = "player" /\ detail = "shown"

(* The hints tab draws challenge.hints, which the backend never sends.     *)
OpenHints ==
    /\ OnPlayer
    /\ crashedOn' = "hints"
    /\ UNCHANGED <<labPage, labList, labBusy, detail, typed, submitting, mount, labCalls, labCount>>

\* The text field is disabled while a flag is on its way.
TypeFlag ==
    /\ OnPlayer /\ ~submitting /\ ~typed
    /\ typed' = TRUE
    /\ UNCHANGED <<labPage, crashedOn, labList, labBusy, detail, submitting, mount, labCalls, labCount>>

\* Mutant of MaySubmit: the button stays enabled.
MaySubmitAgain == typed

MaySubmit == typed /\ ~submitting

SendFlag ==
    /\ OnPlayer /\ MaySubmit
    /\ LabCounted
    /\ submitting' = TRUE
    /\ labCalls' = labCalls \cup {AskLab("flag", mount)}
    /\ UNCHANGED <<labPage, crashedOn, labList, labBusy, detail, typed, mount>>

(* A correct flag clears the text; a wrong one and a failure keep it.      *)
FlagAnswered(c, correct) ==
    /\ c \in labCalls /\ c.kind = "flag"
    /\ labCalls' = labCalls \ {c}
    /\ submitting' = (submitting /\ ~Mounted(c))
    /\ typed' = (typed /\ ~(Mounted(c) /\ correct))
    /\ UNCHANGED <<labPage, crashedOn, labList, labBusy, detail, mount, labCount>>

PracticeNext ==
    \/ \E p \in {"list", "player"} : LoadLab(p)
    \/ EnterList \/ EnterPlayer \/ LeaveLab \/ Refilter \/ OpenHints \/ TypeFlag \/ SendFlag
    \/ \E c \in labCalls, ok \in BOOLEAN :
            ListAnswered(c, ok) \/ DetailAnswered(c, ok) \/ FlagAnswered(c, ok)

PracticeSpec == PracticeInit /\ [][PracticeNext]_labVars
-----------------------------------------------------------------------------
(* The skeleton of the catalogue stands for a fetch that is on its way,    *)
(* though the fetches of several filters share the flag.                   *)
SkeletonHasFetch == labBusy => Fetches # {}

(* A form has one flag on its way at most, and is disabled exactly while   *)
(* it has one: the flags of a form that was left, and whose answers arrive *)
(* after the page was mounted again, do not touch the next.                *)
OneFlagPerForm ==
    LET flags == {c \in labCalls : c.kind = "flag" /\ c.mount = mount} IN
    /\ Cardinality(flags) <= 1
    /\ Alive /\ labPage = "player" => (submitting <=> flags # {})

(* The practice pages' flags for what is loading and what is submitted     *)
(* tell the truth (store/challenges.ts, FlagSubmit).                       *)
LabSound == SkeletonHasFetch /\ OneFlagPerForm

(* docs/QUICKSTART.md: "Browse the practice lab catalog".  The catalogue   *)
(* never throws instead of being drawn.                                    *)
CatalogIsShown == crashedOn # "list"
=============================================================================
