----------------------------- MODULE MCServices -----------------------------
(***************************************************************************)
(* The services around the backend, each on its own small instance: one    *)
(* of them runs in a behaviour, the others rest in their first state.      *)
(* They share no state, so that nothing is lost by not interleaving them.  *)
(***************************************************************************)
EXTENDS AntiCheat, ChallengeGate, LeaderboardServer, RabbitHoles, RateLimiter, VulnDatabase,
        ZeroDays

CONSTANTS
    Running,         \* the services under check
    t1, t2, c1, a1, a2

MCAttempts == {<<t1, c1, a1>>, <<t1, c1, a2>>, <<t2, c1, a1>>}

VARIABLE service     \* the service that runs

servicesVars == <<service, cheatVars, gateVars, lbVars, rabbitVars, limitVars, vulnVars, zdVars>>

Services == {"anti-cheat", "gate", "leaderboard", "rabbit-holes", "rate-limit", "database", "zero-days"}

ASSUME RunningAssumption == Running \subseteq Services

(* The type invariants of all the services.                                *)
ServicesTypeOK ==
    /\ service \in Running
    /\ CheatTypeOK /\ GateTypeOK /\ LeaderboardTypeOK /\ RabbitTypeOK /\ LimitTypeOK
    /\ VulnTypeOK /\ ZeroDayTypeOK

ServicesInit ==
    /\ service \in Running
    /\ CheatInit /\ GateInit /\ LeaderboardInit /\ RabbitInit /\ LimitInit /\ VulnInit /\ ZeroDayInit
    /\ service # "rabbit-holes" => role = ""

Rest(s) ==
    /\ service' = service
    /\ s # "anti-cheat" => UNCHANGED cheatVars
    /\ s # "gate" => UNCHANGED gateVars
    /\ s # "leaderboard" => UNCHANGED lbVars
    /\ s # "rabbit-holes" => UNCHANGED rabbitVars
    /\ s # "rate-limit" => UNCHANGED limitVars
    /\ s # "database" => UNCHANGED vulnVars
    /\ s # "zero-days" => UNCHANGED zdVars

ServicesNext ==
    \/ service = "anti-cheat" /\ CheatNext /\ Rest("anti-cheat")
    \/ service = "gate" /\ GateNext /\ Rest("gate")
    \/ service = "leaderboard" /\ LeaderboardNext /\ Rest("leaderboard")
    \/ service = "rabbit-holes" /\ RabbitNext /\ Rest("rabbit-holes")
    \/ service = "rate-limit" /\ LimitNext /\ Rest("rate-limit")
    \/ service = "database" /\ VulnNext /\ Rest("database")
    \/ service = "zero-days" /\ ZeroDayNext /\ Rest("zero-days")

ServicesSpec == ServicesInit /\ [][ServicesNext]_servicesVars
=============================================================================
