---------------------------- MODULE EngineHealth ----------------------------
(***************************************************************************)
(* GET /health: what checkCppEngineHealth says of the engine, beside the   *)
(* way a call would go if the server treated it as it did the probe.       *)
(***************************************************************************)
EXTENDS EngineCall

\* The end of a probe: status 200, another one of success, one of an error, or a
\* failure of the request.
Probes == {"ok", "success", "errorStatus"} \cup Failures

\* remote: a server is configured; exists: the program's file does.
CheckCppEngineHealth(remote, probe, exists) ==
  CASE ~remote -> IF exists THEN "available" ELSE "missing"
    [] remote /\ probe = "ok" -> "available"
    [] remote /\ probe = "success" -> "error"
    [] remote /\ probe \notin {"ok", "success"} -> IF exists THEN "available" ELSE "error"

\* Answered with status 200 in either case.
GetHealth(database, engineHealth) ==
  IF database = "connected" /\ engineHealth = "available" THEN "ok" ELSE "degraded"

\* Readiness leaves the engine out.
GetReadiness(database) == IF database = "connected" THEN 200 ELSE 503

CallGoes(remote, probe, exists) ==
  CASE remote /\ probe \in {"ok", "success"} -> "http"
    [] remote /\ probe \in Failures \ FallBackCodes -> "error"
    [] remote /\ probe = "errorStatus" -> "error"
    [] ~remote \/ probe \in FallBackCodes -> IF exists THEN "cli" ELSE "error"

-----------------------------------------------------------------------------

\* Where a call is answered the health is not reported as degraded ...
AnsweredIsHealthy(remote, probe, exists) ==
  CallGoes(remote, probe, exists) # "error" /\ probe # "success" =>
    GetHealth("connected", CheckCppEngineHealth(remote, probe, exists)) = "ok"

\* ... but not the other way round: any failed probe counts the program in, and
\* a call uses it after three failures only.
HealthyIsAnswered(remote, probe, exists) ==
  GetHealth("connected", CheckCppEngineHealth(remote, probe, exists)) = "ok" =>
    CallGoes(remote, probe, exists) # "error"
=============================================================================
