------------------------------- MODULE MCPages -------------------------------
(***************************************************************************)
(* The parts of the frontend in a browser tab, each on its own small       *)
(* instance: one of them runs in a behaviour, the others rest in one of    *)
(* their first states.  They keep separate stores; what a part does need   *)
(* of another (the token, who is signed in) is an input of its own model.  *)
(***************************************************************************)
EXTENDS AdminLists, AdminPanels, AdminStore, ClientSession, ClientSocket, CTFPages,
        PracticePages, TLC

CONSTANT Visited   \* the parts under check

\* The teams and the users are told apart by nothing but equality.
Symmetry == Permutations(CTFTeams) \cup Permutations(CTFUsers)

MCStart == [e \in CTFEvents |-> IF e = "open" THEN 2 ELSE 1]
MCEnd == [e \in CTFEvents |-> IF e = "open" THEN 0 ELSE 1]

VARIABLE part      \* the part that runs

pagesVars == <<part, sessionVars, socketVars, ctfVars, labVars, listVars, storeVars, panelVars>>

Parts == {"session", "socket", "ctf", "practice", "lists", "store", "panels"}

ASSUME VisitedAssumption == Visited \subseteq Parts

(* The type invariants of all the parts.                                   *)
PagesTypeOK ==
    /\ part \in Visited
    /\ SessionTypeOK /\ SocketTypeOK /\ CTFTypeOK /\ PracticeTypeOK
    /\ ListTypeOK /\ StoreTypeOK /\ PanelTypeOK

PagesInit ==
    /\ part \in Visited
    /\ SocketInit /\ PracticeInit
    /\ SessionInit /\ (part # "session" => stored = Nobody)
    /\ CTFInit /\ (part # "ctf" => joined = {})
    /\ ListInit /\ (part # "lists" => listPage = "events" /\ rowsNow = Absent)
    /\ StoreInit /\ (part # "store" => inDb = [f \in Fields |-> "off"])
    /\ PanelInit /\ (part # "panels" => holes = [w \in Workers |-> FALSE] /\ rowsInDb = 0)

RestPages(p) ==
    /\ part' = part
    /\ p # "session" => UNCHANGED sessionVars
    /\ p # "socket" => UNCHANGED socketVars
    /\ p # "ctf" => UNCHANGED ctfVars
    /\ p # "practice" => UNCHANGED labVars
    /\ p # "lists" => UNCHANGED listVars
    /\ p # "store" => UNCHANGED storeVars
    /\ p # "panels" => UNCHANGED panelVars

PagesNext ==
    \/ part = "session" /\ SessionNext /\ RestPages("session")
    \/ part = "socket" /\ SocketNext /\ RestPages("socket")
    \/ part = "ctf" /\ CTFNext /\ RestPages("ctf")
    \/ part = "practice" /\ PracticeNext /\ RestPages("practice")
    \/ part = "lists" /\ ListNext /\ RestPages("lists")
    \/ part = "store" /\ StoreNext /\ RestPages("store")
    \/ part = "panels" /\ PanelNext /\ RestPages("panels")

PagesSpec == PagesInit /\ [][PagesNext]_pagesVars
-----------------------------------------------------------------------------
(* What the admin area shows is what the backend holds once its calls are  *)
(* answered, and none of its pages loads for ever (app/admin): the three   *)
(* invariants of its three models.                                         *)
AdminSound == ListSound /\ FieldsSettle /\ PanelsSound
=============================================================================
