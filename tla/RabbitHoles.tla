----------------------------- MODULE RabbitHoles -----------------------------
(***************************************************************************)
(* The rabbit-holes service (rabbit-holes/src/app.ts) and its visitors.    *)
(*                                                                         *)
(* Express answers a request with the first route that was registered and  *)
(* matches, so the order of registration is part of the program: the same  *)
(* script runs as one of the honeypots, whose catch-all comes first, or as *)
(* the service itself.  A route is kept as its kind and the paths it       *)
(* matches, an answer as the kind of the route.                            *)
(***************************************************************************)
EXTENDS Integers, Sequences, FiniteSets

CONSTANTS
    Roles,      \* the values of HONEYPOT_ROLE; "" is the service itself
    Numbers,    \* the depths a visitor writes in a URL
    NaN,        \* what parseInt makes of a depth that is no number
    NoDepth     \* a path without a depth

VARIABLES
    role,       \* HONEYPOT_ROLE of this process
    routes,     \* the routes registered so far, in order
    listeners,  \* how often the process bound its port
    page,       \* the last answer
    asked       \* the path that was asked for

rabbitVars == <<role, routes, listeners, page, asked>>

HoneypotRoles == {"payment", "user-sync", "dashboard", "legacy-api"}

ASSUME RabbitAssumption ==
    /\ Roles \subseteq HoneypotRoles \cup {"", "unknown"}
    /\ Numbers \subseteq Int
    /\ NaN \notin Int /\ NoDepth \notin Int /\ NaN # NoDepth
-----------------------------------------------------------------------------
Decoys ==
    {"/admin", "/api/debug/env", "/backup/users.sql", "/api/v1/debug", "/.env",
     "/api/internal/sync", "/webhook/stripe", "/api/v1/admin/panel", "/api/v1/users",
     "/config/credentials.json"}
MoreDecoys ==
    {"/api/v1/internal/health", "/api/v1/audit/log", "/logs/access.log",
     "/api/v1/debug/stacktrace", "/api/v1/.git/config", "/api/v1/swagger", "/api/v1/graphql",
     "/api/v1/redis/info", "/api/v1/k8s/dashboard", "/api/v1/cloud/metadata"}

DeadEndChains ==
    {<<"/vault/hint", "/vault/key/alpha-omega", "/vault/decode/decode_me">>,
     <<"/pipeline/env", "/pipeline/artifacts/42", "/pipeline/deploy/token">>,
     <<"/oracle/riddle", "/oracle/answer/42">>,
     <<"/backup/list", "/backup/db_latest.sql.gz", "/flag/f4k3">>,
     <<"/tunnel/config", "/tunnel/key", "/tunnel/connect">>,
     <<"/dropzone/upload", "/dropzone/files", "/dropzone/files/flag.txt">>,
     <<"/mirror/me", "/mirror/truth">>,
     <<"/echo/request", "/echo/debug", "/echo/secret">>}

Circles == {"/circular/ouroboros", "/circular/recursive", "/circular/labyrinth"}
MaxDepth == 5

Deceptive ==
    {"/deceptive/redirect", "/deceptive/redirect-302", "/deceptive/cors", "/deceptive/cookie",
     "/decessive/reflected-xss", "/deceptive/leaked-headers", "/deceptive/source-map",
     "/deceptive/php-info", "/deceptive/ssl-error", "/deceptive/basic-auth",
     "/deceptive/rate-limited", "/deceptive/server-error", "/deceptive/xml-rpc",
     "/deceptive/xxe-test", "/deceptive/websocket-config", "/deceptive/graphql-playground"}
-----------------------------------------------------------------------------
LinksOf(chain) == {chain[i] : i \in 1 .. Len(chain)}
ChainSteps == UNION {LinksOf(c) : c \in DeadEndChains}

Route(kind, names) == [kind |-> kind, names |-> names, all |-> FALSE]
AllOf(kind) == [kind |-> kind, names |-> {}, all |-> TRUE]

(* The routes of the honeypot block: its catch-all answers every later     *)
(* route's paths.                                                          *)
HoneypotRoutes(r) ==
    IF r = "" THEN <<>>
    ELSE <<Route("health", {"/health"}),
           AllOf(IF r \in HoneypotRoles THEN "honeypot" ELSE "not_found")>>

\* The routes of one kind differ in their paths only, and stand as one.
DecoyRoutes == Route("decoy", Decoys \cup MoreDecoys)
ChainRoutes == Route("chain", ChainSteps)
CircleRoutes == Route("circle", Circles)
DeceptiveRoutes == Route("deceptive", Deceptive)

ServiceRoutes ==
    <<Route("health", {"/health"}), DecoyRoutes, ChainRoutes, CircleRoutes, DeceptiveRoutes,
      AllOf("not_found")>>

Matching(p) == {i \in 1 .. Len(routes) : routes[i].all \/ p.at \in routes[i].names}
Serving(p) == routes[CHOOSE i \in Matching(p) : \A j \in Matching(p) : i <= j].kind

(* parseInt(req.params.depth || "0", 10), then the centre or one deeper.   *)
DepthOf(p) == IF p.depth = NoDepth THEN 0 ELSE p.depth

AtCentre(p) == DepthOf(p) # NaN /\ DepthOf(p) >= MaxDepth

Answer(p) ==
    IF Serving(p) # "circle" THEN Serving(p) ELSE IF AtCentre(p) THEN "centre" ELSE "circle"
-----------------------------------------------------------------------------
Nowhere == [at |-> "", depth |-> NoDepth]
PlainNames == {"/health", "/nowhere"} \cup Decoys \cup MoreDecoys \cup Deceptive \cup ChainSteps
AllPaths == {[at |-> n, depth |-> NoDepth] : n \in PlainNames}
            \cup {[at |-> c, depth |-> d] : c \in Circles, d \in Numbers \cup {NaN, NoDepth}}

RabbitTypeOK ==
    /\ role \in Roles
    /\ listeners \in 0 .. 2
    /\ page \in {"none", "health", "honeypot", "decoy", "chain", "circle", "centre", "deceptive",
                "not_found"}
    /\ page = "none" <=> asked = Nowhere

RabbitInit ==
    /\ role \in Roles
    /\ routes = <<>>
    /\ listeners = 0
    /\ page = "none"
    /\ asked = Nowhere

(* if (HONEYPOT_ROLE) {...}: two routes, and the port is bound.            *)
RegisterHoneypot ==
    /\ routes = <<>>
    /\ role # ""
    /\ routes' = HoneypotRoutes(role)
    /\ listeners' = listeners + 1
    /\ UNCHANGED <<role, page, asked>>

\* Mutant of MayListen: the second listen is not guarded.
MayAlwaysListen == TRUE

MayListen == role = ""

(* The rest of the script, up to the guarded second listen.                *)
RegisterService ==
    /\ routes = HoneypotRoutes(role)
    /\ routes' = routes \o ServiceRoutes
    /\ listeners' = IF MayListen THEN listeners + 1 ELSE listeners
    /\ UNCHANGED <<role, page, asked>>

Booted == Len(routes) > 2

Request(p) ==
    /\ Booted
    /\ asked' = p
    /\ page' = Answer(p)
    /\ UNCHANGED <<role, routes, listeners>>

RabbitNext ==
    \/ RegisterHoneypot
    \/ RegisterService
    \/ \E p \in AllPaths : Request(p)

RabbitSpec == RabbitInit /\ [][RabbitNext]_rabbitVars
-----------------------------------------------------------------------------
(* One process binds its port once, whichever role it plays: the second    *)
(* listen at the end of the script is skipped for a honeypot (app.ts:      *)
(* 466-468).                                                               *)
ListensOnce == Booted => listeners = 1

(* What a path is declared as is what it answers: no route is hidden by    *)
(* one registered earlier, except that a honeypot plays its role on every  *)
(* path but /health.                                                       *)
Declared(p) ==
    IF p.at = "/health" THEN {"health"}
    ELSE IF role # "" THEN {"honeypot", "not_found"}
    ELSE CASE p.at \in Decoys \cup MoreDecoys -> {"decoy"}
           [] p.at \in Deceptive -> {"deceptive"}
           [] p.at \in Circles -> {"circle", "centre"}
           [] p.at \in ChainSteps -> {"chain"}
           [] OTHER -> {"not_found"}
NoRouteHidden == asked # Nowhere => page \in Declared(asked)

(* Every role of the process binds its port once and serves every route it *)
(* declares (app.ts, from the honeypot branch to listen).                  *)
RoutesSound == ListensOnce /\ NoRouteHidden
=============================================================================
