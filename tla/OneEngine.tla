----------------------------- MODULE OneEngine -----------------------------
(***************************************************************************)
(* What the backend promises of an analysis: it is computed by at most one *)
(* engine, and its caller gets one answer, that engine's or an error.      *)
(***************************************************************************)
EXTENDS Naturals

CONSTANTS
  Calls,    \* calls of runMarketAnalysis
  Engines,  \* who can compute an analysis
  Nobody    \* no engine

VARIABLES
  ran,      \* the engine that has taken a call up
  answer    \* "none" before the call, "pending", an engine, or "error"

Init ==
  /\ ran = [c \in Calls |-> Nobody]
  /\ answer = [c \in Calls |-> "none"]

Ask(c) ==
  /\ answer[c] = "none"
  /\ answer' = [answer EXCEPT ![c] = "pending"]
  /\ UNCHANGED ran

\* An engine may take a call up even after it was given up.
Run(c, e) ==
  /\ answer[c] # "none" /\ ran[c] = Nobody
  /\ ran' = [ran EXCEPT ![c] = e]
  /\ UNCHANGED answer

Answer(c) ==
  /\ answer[c] = "pending" /\ ran[c] # Nobody
  /\ answer' = [answer EXCEPT ![c] = ran[c]]
  /\ UNCHANGED ran

Fail(c) ==
  /\ answer[c] = "pending"
  /\ answer' = [answer EXCEPT ![c] = "error"]
  /\ UNCHANGED ran

Next == \E c \in Calls : Ask(c) \/ Answer(c) \/ Fail(c) \/ (\E e \in Engines : Run(c, e))

Spec == Init /\ [][Next]_<<ran, answer>>
=============================================================================
