----------------------------- MODULE MCTerminal -----------------------------
(***************************************************************************)
(* A small instance of Terminal.  The scanner lists a setup whose strategy *)
(* no backtest offers, as all of its own are.  The three rows of an upload *)
(* are not in order, and two of them are equal by volume.                  *)
(***************************************************************************)
EXTENDS Terminal, EngineHealth

CONSTANTS Squeeze, Reversion, Compression, Reliance, Tcs, Find1

MCOpportunities == {[strategy |-> Compression, symbol |-> Tcs]}

RowOf(found, time, volume) ==
  [found |-> found, rank |-> [timestamp |-> time, volume |-> volume]]

MCFields == {"timestamp", "volume"}
MCRows == <<RowOf({}, 2, 1), RowOf({Find1}, 3, 2), RowOf({Find1}, 1, 1)>>

ASSUME HealthOfEngine ==
  /\ \A remote, exists \in BOOLEAN, probe \in Probes : AnsweredIsHealthy(remote, probe, exists)
  /\ \A remote, exists \in BOOLEAN, probe \in Probes :
       HealthyIsAnswered(remote, probe, exists) <=>
         ~(remote /\ exists /\ probe \in {"errorStatus"} \cup (Failures \ FallBackCodes))
=============================================================================
