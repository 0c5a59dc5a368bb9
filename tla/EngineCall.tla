---------------------------- MODULE EngineCall ----------------------------
(***************************************************************************)
(* runMarketAnalysis of the backend (QuantEngineClient.ts): an analysis by *)
(* the engine's HTTP server, or by its command-line program when no server *)
(* is configured or the server cannot be reached.                          *)
(***************************************************************************)
EXTENDS Naturals

CONSTANTS
  Calls,   \* calls of runMarketAnalysis
  Remote   \* those made on a backend whose environment names an engine server

ASSUME EngineAssumption == Remote \subseteq Calls

VARIABLES
  stage,   \* "idle", "http", "cli" or "settled": where a call stands
  server,  \* the server's end: "none", "sent", "running", "done", "invalid"
  child,   \* the program: "none", "starting", "missing", "reported",
           \* "running", "printed", "failed", "closed" or "gone"
  answer   \* the promise: "none", "pending", "http", "cli" or "error"

engine == <<stage, server, child, answer>>

EngineInit ==
  /\ stage = [c \in Calls |-> "idle"]
  /\ server = [c \in Calls |-> "none"]
  /\ child = [c \in Calls |-> "none"]
  /\ answer = [c \in Calls |-> "none"]

-----------------------------------------------------------------------------

\* The promise of a call is settled once; a later event is ignored.
Settle(c, result) ==
  /\ stage' = [stage EXCEPT ![c] = "settled"]
  /\ answer' = [answer EXCEPT ![c] = IF @ = "pending" THEN result ELSE @]

Spawn(c) ==
  /\ stage' = [stage EXCEPT ![c] = "cli"]
  /\ child' = [child EXCEPT ![c] = "starting"]

RunMarketAnalysis(c) ==
  /\ stage[c] = "idle"
  /\ answer' = [answer EXCEPT ![c] = "pending"]
  /\ \/ /\ c \in Remote
        /\ stage' = [stage EXCEPT ![c] = "http"]
        /\ server' = [server EXCEPT ![c] = "sent"]
        /\ UNCHANGED child
     \/ /\ c \notin Remote
        /\ Spawn(c)
        /\ UNCHANGED server

\* The server takes a request up and computes, whether or not anyone waits.
ServerTakes(c) ==
  /\ server[c] = "sent"
  /\ server' = [server EXCEPT ![c] = "running"]
  /\ UNCHANGED <<stage, child, answer>>

ServerComputes(c) ==
  /\ server[c] = "running"
  /\ \E outcome \in {"done", "invalid"} : server' = [server EXCEPT ![c] = outcome]
  /\ UNCHANGED <<stage, child, answer>>

\* An error status or a malformed result is an error.
ResultOfResponse(c) == IF server[c] = "done" THEN "http" ELSE "error"

\* The response arrives.
HttpResponse(c) ==
  /\ stage[c] = "http" /\ server[c] \in {"done", "invalid"}
  /\ Settle(c, ResultOfResponse(c))
  /\ UNCHANGED <<server, child>>

\* How the request itself can fail, and the failures in which it never reached
\* the server.  ECONNABORTED is the client's time-out of 10 s.
Unreached == {"ECONNREFUSED", "ENOTFOUND", "ETIMEDOUT"}
Failures == Unreached \cup {"ECONNABORTED", "ECONNRESET"}

FallBackOnTimeOut == Unreached \cup {"ECONNABORTED"}

\* The failures after which the program is used instead.
FallBackCodes == {"ECONNREFUSED", "ENOTFOUND", "ETIMEDOUT"}

HttpFailure(c) ==
  /\ stage[c] = "http"
  /\ \E code \in Failures :
       /\ code \in Unreached => server[c] = "sent"
       /\ server' = IF code \in Unreached THEN [server EXCEPT ![c] = "none"] ELSE server
       /\ \/ code \in FallBackCodes /\ Spawn(c) /\ UNCHANGED answer
          \/ code \notin FallBackCodes /\ Settle(c, "error") /\ UNCHANGED child

\* The program is started, or it cannot be.
ChildStarts(c) ==
  /\ child[c] = "starting"
  /\ \E outcome \in {"running", "missing"} : child' = [child EXCEPT ![c] = outcome]
  /\ UNCHANGED <<stage, server, answer>>

\* It exits with code 0 and a well-formed result, or not.
ChildExits(c) ==
  /\ child[c] = "running"
  /\ \E outcome \in {"printed", "failed"} : child' = [child EXCEPT ![c] = outcome]
  /\ UNCHANGED <<stage, server, answer>>

\* The events of the child process: error, and close also after an error.
ChildError(c) ==
  /\ child[c] = "missing"
  /\ child' = [child EXCEPT ![c] = "reported"]
  /\ Settle(c, "error")
  /\ UNCHANGED server

ExitIgnored(c) == IF child[c] = "printed" THEN "cli" ELSE "pending"

ResultOfExit(c) == IF child[c] = "printed" THEN "cli" ELSE "error"

ChildClose(c) ==
  /\ child[c] \in {"reported", "printed", "failed"}
  /\ child' = [child EXCEPT ![c] = IF @ = "reported" THEN "gone" ELSE "closed"]
  /\ Settle(c, ResultOfExit(c))
  /\ UNCHANGED server

-----------------------------------------------------------------------------

EngineStep(c) ==
  \/ ServerTakes(c) \/ ServerComputes(c) \/ HttpResponse(c) \/ HttpFailure(c)
  \/ ChildStarts(c) \/ ChildExits(c) \/ ChildError(c) \/ ChildClose(c)

EngineNext == \E c \in Calls : RunMarketAnalysis(c) \/ EngineStep(c)

EngineSpec == EngineInit /\ [][EngineNext]_engine

EngineTypeOK ==
  /\ stage \in [Calls -> {"idle", "http", "cli", "settled"}]
  /\ server \in [Calls -> {"none", "sent", "running", "done", "invalid"}]
  /\ child \in [Calls -> {"none", "starting", "missing", "reported",
                          "running", "printed", "failed", "closed", "gone"}]
  /\ answer \in [Calls -> {"none", "pending", "http", "cli", "error"}]

\* The engine that has taken a call up.
Ran(c) ==
  IF server[c] \in {"running", "done", "invalid"} THEN "http"
  ELSE IF child[c] \in {"running", "printed", "failed", "closed"} THEN "cli" ELSE "nobody"

Abstract ==
  INSTANCE OneEngine WITH Engines <- {"http", "cli"}, Nobody <- "nobody",
                          ran <- [c \in Calls |-> Ran(c)]

\* Whatever fails or comes late, an analysis is computed by at most one engine
\* and its caller gets one answer, that engine's or an error: the program is
\* used only after failures in which the server never got the request.
OneEngineAnswers == Abstract!Spec
=============================================================================
