----------------------------- MODULE ActiveFeed -----------------------------
(***************************************************************************)
(* What the provider registry promises of the market data feed, without    *)
(* configurations, connections or the order in which vendors answer: the   *)
(* feed moves only when a request is answered, once for each request, and  *)
(* only to the provider that request names or, when a request disables the *)
(* current feed, to the built-in simulator.                                *)
(***************************************************************************)
CONSTANTS
  Providers,   \* the registered market data providers
  Simulated,   \* the built-in simulator
  Requests     \* the requests that may ask for a feed

VARIABLES
  feed,        \* the active provider
  asked        \* pairs of a request not yet answered and the provider it names

feedVars == <<feed, asked>>

Init == feed \in Providers /\ asked = {}

Ask(r, p) ==
  /\ \A q \in asked : q[1] # r
  /\ asked' = asked \cup {<<r, p>>}
  /\ UNCHANGED feed

Grant(q) ==
  /\ feed' = q[2]
  /\ asked' = asked \ {q}

FallBack(q) ==
  /\ feed = q[2]
  /\ feed' = Simulated
  /\ asked' = asked \ {q}

Refuse(q) ==
  /\ asked' = asked \ {q}
  /\ UNCHANGED feed

Next ==
  \/ \E r \in Requests, p \in Providers : Ask(r, p)
  \/ \E q \in asked : Grant(q) \/ FallBack(q) \/ Refuse(q)

Spec == Init /\ [][Next]_feedVars
=============================================================================
