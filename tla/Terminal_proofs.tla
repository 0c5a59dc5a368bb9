--------------------------- MODULE Terminal_proofs ---------------------------
(***************************************************************************)
(* A call of the engine keeps the promise of OneEngine, for every number   *)
(* of calls in progress at once, and so does the terminal that makes the   *)
(* calls; the figures of its pages are of what their headings say, and an  *)
(* upload opens as itself, for any number of pages, requests and datasets. *)
(***************************************************************************)
EXTENDS Terminal, FiniteSetTheorems, TLAPS

-----------------------------------------------------------------------------
(* The engine.  The inductive invariant says which events can still come:  *)
(* a call that is with the program was never taken up by the server, and a *)
(* program that has output belongs to a call that still waits for it.      *)

\* What can be seen of a call at each of its stages.
StageOK(c) ==
  /\ stage[c] = "idle" => server[c] = "none" /\ child[c] = "none" /\ answer[c] = "none"
  /\ stage[c] = "http" => server[c] # "none" /\ child[c] = "none" /\ answer[c] = "pending"
  /\ stage[c] = "cli"  => server[c] = "none" /\ answer[c] = "pending"
  /\ stage[c] = "settled" => answer[c] \notin {"none", "pending"}
  /\ server[c] # "none" => child[c] = "none"
  /\ child[c] \in {"starting", "missing", "running", "printed", "failed"} => stage[c] = "cli"
  /\ child[c] \in {"reported", "closed", "gone"} => stage[c] = "settled"

EngineInv == EngineTypeOK /\ \A c \in Calls : StageOK(c)

\* Everything a step of call c leaves of the other calls.
OtherCallsKept(c) ==
  \A d \in Calls \ {c} : /\ stage'[d] = stage[d] /\ server'[d] = server[d]
                         /\ child'[d] = child[d] /\ answer'[d] = answer[d]

\* A step of one call disturbs no other.
LEMMA OthersKept ==
  ASSUME EngineTypeOK, NEW c \in Calls, RunMarketAnalysis(c) \/ EngineStep(c)
  PROVE  OtherCallsKept(c)
<1> USE DEF EngineTypeOK, OtherCallsKept
<1>1. CASE RunMarketAnalysis(c) BY <1>1 DEF RunMarketAnalysis, Spawn
<1>2. CASE ServerTakes(c) BY <1>2 DEF ServerTakes
<1>3. CASE ServerComputes(c) BY <1>3 DEF ServerComputes
<1>4. CASE HttpResponse(c) BY <1>4 DEF HttpResponse, ResultOfResponse, Settle
<1>5. CASE HttpFailure(c) BY <1>5 DEF HttpFailure, Settle, Spawn
<1>6. CASE ChildStarts(c) BY <1>6 DEF ChildStarts
<1>7. CASE ChildExits(c) BY <1>7 DEF ChildExits
<1>8. CASE ChildError(c) BY <1>8 DEF ChildError, Settle
<1>9. CASE ChildClose(c) BY <1>9 DEF ChildClose, Settle
<1>10. QED
  BY <1>1, <1>2, <1>3, <1>4, <1>5, <1>6, <1>7, <1>8, <1>9 DEF EngineStep

\* Types are kept by every step.
LEMMA TypeKept ==
  ASSUME EngineTypeOK, NEW c \in Calls, RunMarketAnalysis(c) \/ EngineStep(c)
  PROVE  EngineTypeOK'
<1> USE DEF EngineTypeOK
<1>1. CASE RunMarketAnalysis(c) BY <1>1 DEF RunMarketAnalysis, Spawn
<1>2. CASE ServerTakes(c) BY <1>2 DEF ServerTakes
<1>3. CASE ServerComputes(c) BY <1>3 DEF ServerComputes
<1>4. CASE HttpResponse(c) BY <1>4 DEF HttpResponse, ResultOfResponse, Settle
<1>5. CASE HttpFailure(c) BY <1>5 DEF HttpFailure, Settle, Spawn
<1>6. CASE ChildStarts(c) BY <1>6 DEF ChildStarts
<1>7. CASE ChildExits(c) BY <1>7 DEF ChildExits
<1>8. CASE ChildError(c) BY <1>8 DEF ChildError, Settle
<1>9. CASE ChildClose(c) BY <1>9 DEF ChildClose, Settle, ResultOfExit
<1>10. QED
  BY <1>1, <1>2, <1>3, <1>4, <1>5, <1>6, <1>7, <1>8, <1>9 DEF EngineStep

\* The stage of the call that moves stays in accord with what can be seen of it.
LEMMA StageKept ==
  ASSUME EngineInv, NEW c \in Calls, RunMarketAnalysis(c) \/ EngineStep(c)
  PROVE  StageOK(c)'
<1> USE DEF EngineInv, EngineTypeOK, StageOK
<1>1. CASE RunMarketAnalysis(c) BY <1>1 DEF RunMarketAnalysis, Spawn
<1>2. CASE ServerTakes(c) BY <1>2 DEF ServerTakes
<1>3. CASE ServerComputes(c) BY <1>3 DEF ServerComputes
<1>4. CASE HttpResponse(c) BY <1>4 DEF HttpResponse, ResultOfResponse, Settle
<1>5. CASE HttpFailure(c)
  BY <1>5 DEF HttpFailure, Settle, Spawn, Failures, Unreached, FallBackCodes
<1>6. CASE ChildStarts(c) BY <1>6 DEF ChildStarts
<1>7. CASE ChildExits(c) BY <1>7 DEF ChildExits
<1>8. CASE ChildError(c) BY <1>8 DEF ChildError, Settle
<1>9. CASE ChildClose(c) BY <1>9 DEF ChildClose, Settle, ResultOfExit
<1>10. QED
  BY <1>1, <1>2, <1>3, <1>4, <1>5, <1>6, <1>7, <1>8, <1>9 DEF EngineStep

\* The inductive invariant holds in every state of every behaviour.
THEOREM EngineInvariant == EngineSpec => []EngineInv
<1>1. EngineInit => EngineInv
  BY DEF EngineInit, EngineInv, EngineTypeOK, StageOK
<1>2. EngineInv /\ [EngineNext]_engine => EngineInv'
  <2> SUFFICES ASSUME EngineInv, [EngineNext]_engine PROVE EngineInv'
    OBVIOUS
  <2>1. CASE UNCHANGED engine
    BY <2>1 DEF EngineInv, EngineTypeOK, StageOK, engine
  <2>2. ASSUME NEW c \in Calls, RunMarketAnalysis(c) \/ EngineStep(c)
        PROVE  EngineInv'
    <3>1. EngineTypeOK' BY <2>2, TypeKept DEF EngineInv
    <3>2. StageOK(c)' BY <2>2, StageKept
    <3>3. ASSUME NEW d \in Calls \ {c} PROVE StageOK(d)'
      <4>1. OtherCallsKept(c) BY <2>2, OthersKept DEF EngineInv
      <4>2. QED BY <4>1, <3>3 DEF EngineInv, StageOK, OtherCallsKept
    <3>4. QED BY <3>1, <3>2, <3>3 DEF EngineInv
  <2>3. QED BY <2>1, <2>2 DEF EngineNext
<1>3. QED BY <1>1, <1>2, PTL DEF EngineSpec

\* Every variable of a call keeps a value it can have.
THEOREM EngineTypes == EngineSpec => []EngineTypeOK
<1>1. EngineInv => EngineTypeOK BY DEF EngineInv
<1>2. QED BY <1>1, EngineInvariant, PTL

-----------------------------------------------------------------------------

RanOf == [c \in Calls |-> Ran(c)]

\* The engine of the other calls is the same after a step.
LEMMA RanKept ==
  ASSUME NEW c \in Calls, OtherCallsKept(c)
  PROVE  \A d \in Calls \ {c} : Ran(d)' = Ran(d)
BY DEF OtherCallsKept, Ran

\* A step that changes neither the engine nor the answer of its call stutters.
LEMMA Stutter ==
  ASSUME NEW c \in Calls, OtherCallsKept(c), Ran(c)' = Ran(c), UNCHANGED answer
  PROVE  UNCHANGED <<RanOf, answer>>
BY RanKept DEF RanOf

\* A step that only answers its call is an abstract Answer or Fail.
LEMMA AnswerStep ==
  ASSUME EngineInv, NEW c \in Calls, OtherCallsKept(c), Ran(c)' = Ran(c), answer[c] = "pending",
         NEW result, answer' = [answer EXCEPT ![c] = result],
         result = "error" \/ (result = Ran(c) /\ Ran(c) # "nobody")
  PROVE  Abstract!Answer(c) \/ Abstract!Fail(c)
<1>1. UNCHANGED RanOf BY RanKept DEF RanOf
<1>2. CASE result = "error" BY <1>1, <1>2 DEF Abstract!Fail, RanOf
<1>3. CASE result = Ran(c) /\ Ran(c) # "nobody"
  BY <1>1, <1>3 DEF Abstract!Answer, RanOf
<1>4. QED BY <1>2, <1>3

\* A step in which an engine takes its call up is an abstract Run.
LEMMA RunStep ==
  ASSUME NEW c \in Calls, OtherCallsKept(c), Ran(c) = "nobody", answer[c] # "none",
         NEW e \in {"http", "cli"}, Ran(c)' = e, UNCHANGED answer
  PROVE  Abstract!Run(c, e)
<1>1. RanOf' = [RanOf EXCEPT ![c] = e] BY RanKept DEF RanOf
<1>2. QED BY <1>1 DEF Abstract!Run, RanOf

\* Every step of a call is a step of OneEngine or leaves its state alone.
LEMMA StepRefines ==
  ASSUME EngineInv, NEW c \in Calls, RunMarketAnalysis(c) \/ EngineStep(c)
  PROVE  Abstract!Next \/ UNCHANGED <<RanOf, answer>>
<1> DEFINE Moves == \/ Abstract!Ask(c) \/ Abstract!Answer(c) \/ Abstract!Fail(c)
                    \/ \E e \in {"http", "cli"} : Abstract!Run(c, e)
<1> USE DEF EngineInv, EngineTypeOK
<1>0. OtherCallsKept(c) BY OthersKept
<1>s. StageOK(c) OBVIOUS
<1>1. CASE RunMarketAnalysis(c)
  <2>1. Ran(c) = "nobody" /\ Ran(c)' = "nobody" /\ answer[c] = "none"
    BY <1>1, <1>s DEF RunMarketAnalysis, Spawn, StageOK, Ran
  <2>2. UNCHANGED RanOf BY <2>1, <1>0, RanKept DEF RanOf
  <2>3. Abstract!Ask(c) BY <1>1, <2>1, <2>2 DEF RunMarketAnalysis, Abstract!Ask, RanOf
  <2>4. QED BY <2>3 DEF Abstract!Next
<1>2. CASE ServerTakes(c)
  <2>1. Ran(c) = "nobody" /\ Ran(c)' = "http" /\ answer[c] # "none" /\ UNCHANGED answer
    BY <1>2, <1>s DEF ServerTakes, StageOK, Ran
  <2>2. Abstract!Run(c, "http") BY <2>1, <1>0, RunStep
  <2>3. QED BY <2>2 DEF Abstract!Next
<1>3. CASE ServerComputes(c)
  <2>1. Ran(c)' = Ran(c) /\ UNCHANGED answer BY <1>3 DEF ServerComputes, Ran
  <2>2. QED BY <2>1, <1>0, Stutter
<1>4. CASE HttpResponse(c)
  <2> DEFINE result == IF server[c] = "done" THEN "http" ELSE "error"
  <2>1. Ran(c) = "http" /\ Ran(c)' = Ran(c) BY <1>4 DEF HttpResponse, Ran
  <2>2. answer[c] = "pending" /\ answer' = [answer EXCEPT ![c] = result]
    BY <1>4, <1>s DEF HttpResponse, ResultOfResponse, Settle, StageOK
  <2>3. Abstract!Answer(c) \/ Abstract!Fail(c) BY <2>1, <2>2, <1>0, AnswerStep
  <2>4. QED BY <2>3 DEF Abstract!Next
<1>5. CASE HttpFailure(c)
  <2>1. PICK code \in Failures :
          /\ code \in Unreached => server[c] = "sent"
          /\ server' = IF code \in Unreached THEN [server EXCEPT ![c] = "none"] ELSE server
          /\ \/ code \in FallBackCodes /\ Spawn(c) /\ UNCHANGED answer
             \/ code \notin FallBackCodes /\ Settle(c, "error") /\ UNCHANGED child
    BY <1>5 DEF HttpFailure
  <2>2. stage[c] = "http" /\ child[c] = "none" /\ answer[c] = "pending"
    BY <1>5, <1>s DEF HttpFailure, StageOK
  <2>3. CASE code \in FallBackCodes
    <3>1. code \in Unreached BY <2>3 DEF FallBackCodes, Unreached
    <3>2. Ran(c) = "nobody" /\ Ran(c)' = "nobody" /\ UNCHANGED answer
      BY <2>1, <2>2, <2>3, <3>1 DEF Ran, Spawn
    <3>3. QED BY <3>2, <1>0, Stutter
  <2>4. CASE code \notin FallBackCodes
    <3>1. code \notin Unreached BY <2>4 DEF FallBackCodes, Unreached
    <3>2. Ran(c)' = Ran(c) BY <2>1, <2>4, <3>1 DEF Ran
    <3>3. answer' = [answer EXCEPT ![c] = "error"] BY <2>1, <2>2, <2>4 DEF Settle
    <3>4. Abstract!Answer(c) \/ Abstract!Fail(c) BY <3>2, <3>3, <2>2, <1>0, AnswerStep
    <3>5. QED BY <3>4 DEF Abstract!Next
  <2>5. QED BY <2>3, <2>4
<1>6. CASE ChildStarts(c)
  <2>1. server[c] = "none" /\ answer[c] = "pending" /\ child[c] = "starting"
    BY <1>6, <1>s DEF ChildStarts, StageOK
  <2>2. UNCHANGED answer /\ server' = server /\ child'[c] \in {"running", "missing"}
    BY <1>6 DEF ChildStarts
  <2>3. CASE child'[c] = "running"
    <3>1. Ran(c) = "nobody" /\ Ran(c)' = "cli" BY <2>1, <2>2, <2>3 DEF Ran
    <3>2. Abstract!Run(c, "cli") BY <3>1, <2>1, <2>2, <1>0, RunStep
    <3>3. QED BY <3>2 DEF Abstract!Next
  <2>4. CASE child'[c] = "missing"
    <3>1. Ran(c)' = Ran(c) BY <2>1, <2>2, <2>4 DEF Ran
    <3>2. QED BY <3>1, <2>2, <1>0, Stutter
  <2>5. QED BY <2>2, <2>3, <2>4
<1>7. CASE ChildExits(c)
  <2>1. Ran(c)' = Ran(c) /\ UNCHANGED answer BY <1>7 DEF ChildExits, Ran
  <2>2. QED BY <2>1, <1>0, Stutter
<1>8. CASE ChildError(c)
  <2>1. Ran(c)' = Ran(c) BY <1>8 DEF ChildError, Ran
  <2>2. answer[c] = "pending" /\ answer' = [answer EXCEPT ![c] = "error"]
    BY <1>8, <1>s DEF ChildError, Settle, StageOK
  <2>3. Abstract!Answer(c) \/ Abstract!Fail(c) BY <2>1, <2>2, <1>0, AnswerStep
  <2>4. QED BY <2>3 DEF Abstract!Next
<1>9. CASE ChildClose(c)
  <2>1. CASE child[c] = "reported"
    <3>1. answer[c] # "pending" BY <2>1, <1>s DEF StageOK
    <3>2. Ran(c)' = Ran(c) BY <1>9, <2>1 DEF ChildClose, Ran
    <3>3. UNCHANGED answer BY <1>9, <3>1 DEF ChildClose, Settle
    <3>4. QED BY <3>2, <3>3, <1>0, Stutter
  <2>2. CASE child[c] \in {"printed", "failed"}
    <3>1. answer[c] = "pending" /\ server[c] = "none" BY <2>2, <1>s DEF StageOK
    <3>2. Ran(c) = "cli" /\ Ran(c)' = Ran(c) BY <1>9, <2>2, <3>1 DEF ChildClose, Ran
    <3>3. answer' = [answer EXCEPT ![c] = ResultOfExit(c)]
      BY <1>9, <3>1 DEF ChildClose, Settle
    <3>4. ResultOfExit(c) \in {"cli", "error"} BY DEF ResultOfExit
    <3>5. Abstract!Answer(c) \/ Abstract!Fail(c)
      BY <3>1, <3>2, <3>3, <3>4, <1>0, AnswerStep
    <3>6. QED BY <3>5 DEF Abstract!Next
  <2>3. QED BY <1>9, <2>1, <2>2 DEF ChildClose
<1>10. QED
  BY <1>1, <1>2, <1>3, <1>4, <1>5, <1>6, <1>7, <1>8, <1>9 DEF EngineStep

\* Whatever fails or comes late, an analysis is computed by at most one engine
\* and its caller gets one answer, that engine's or an error.
THEOREM EngineKeepsPromise == EngineSpec => OneEngineAnswers
<1>1. EngineInit => Abstract!Init
  BY DEF EngineInit, Abstract!Init, Ran
<1>2. EngineInv /\ [EngineNext]_engine => [Abstract!Next]_<<RanOf, answer>>
  <2> SUFFICES ASSUME EngineInv, [EngineNext]_engine
               PROVE  Abstract!Next \/ UNCHANGED <<RanOf, answer>>
    OBVIOUS
  <2>1. CASE UNCHANGED engine BY <2>1 DEF engine, RanOf, Ran
  <2>2. CASE EngineNext BY <2>2, StepRefines DEF EngineNext
  <2>3. QED BY <2>1, <2>2
<1>3. QED
  BY <1>1, <1>2, EngineInvariant, PTL
  DEF EngineSpec, OneEngineAnswers, Abstract!Spec, RanOf

-----------------------------------------------------------------------------
(* The terminal and the engine                                             *)

\* The requests of the pages are the only calls, and nothing else moves one.
THEOREM TerminalUsesEngine == Spec => EngineSpec
<1>1. Init => EngineInit
  BY DEF Init
<1>2. [Next]_vars => [EngineNext]_engine
  <2> SUFFICES ASSUME [Next]_vars PROVE EngineNext \/ UNCHANGED engine
    OBVIOUS
  <2>1. CASE UNCHANGED vars
    BY <2>1 DEF vars
  <2>2. CASE User
    BY <2>2 DEF User, NavigateTo, PopState, BacktestSetup, SelectDataset, Refresh, LoadSample,
                RunAgain, SelectStrategy, SelectSymbol, RunBacktest, Upload, ImportAnother,
                ViewInTerminal, BrowseRows
  <2>3. ASSUME NEW k \in Calls, Succeeds(k) \/ Fails(k) \/ StoreUpload(k)
        PROVE  UNCHANGED engine
    BY <2>3 DEF Succeeds, Fails, Answered, StoreUpload
  <2>4. ASSUME NEW k \in Calls, AnalyzeDataset(k) \/ EngineStep(k)
        PROVE  EngineNext
    BY <2>4 DEF AnalyzeDataset, EngineNext
  <2>5. ASSUME NEW d \in Others, UploadElsewhere(d)
        PROVE  UNCHANGED engine
    BY <2>5 DEF UploadElsewhere
  <2>6. ASSUME NEW i, DeleteElsewhere(i)
        PROVE  UNCHANGED engine
    BY <2>6 DEF DeleteElsewhere
  <2> QED
    BY <2>1, <2>2, <2>3, <2>4, <2>5, <2>6 DEF Next
<1> QED
  BY <1>1, <1>2, PTL DEF Spec, EngineSpec

\* Whatever pages are opened and left, each of their analyses is computed by one
\* engine at most and answered once.
THEOREM TerminalKeepsPromise == Spec => OneEngineAnswers
BY TerminalUsesEngine, EngineKeepsPromise

-----------------------------------------------------------------------------
(* What the pages hold                                                     *)

USE DEF datasets

Datasets == {Seeded, Sample} \cup Others \cup Calls

Setup == [strategy : Strategies \cup {o.strategy : o \in Opportunities},
          symbol   : Symbols \cup {o.symbol : o \in Opportunities}]

Subject == Datasets \cup Setup \cup {None}

Kinds == {"list", "analysis", "file", "backtest", "upload"}

Requested == [kind : Kinds, visit : Nat, of : Subject, reply : {"pending", "ok", "failed"}]

Page == [tab : Tabs, selected : Subject, data : Subject, loading : BOOLEAN, error : BOOLEAN,
         listed : SUBSET Datasets, latest : Nat, overtaken : BOOLEAN]

TerminalTypeOK ==
  /\ page \in Page /\ visit \in Nat
  /\ launched \in Datasets \cup {None} /\ handed \in Setup
  /\ history \in Seq(Tabs) /\ address \in 1..Len(history)
  /\ sent \in Seq(Requested)
  /\ stored \in Seq(Datasets) /\ deleted \in SUBSET Datasets

\* What a page asks for.
KindsOf(tab) ==
  IF tab = "stocks" THEN {"list", "analysis", "file"}
  ELSE IF tab = "backtest" THEN {"backtest"}
  ELSE IF tab = "data-lab" THEN {"upload"} ELSE {}

\* The requests of the open page.
Own == {k \in DOMAIN sent : sent[k].visit = visit}

RequestsInv ==
  /\ \A k \in DOMAIN sent : sent[k].visit <= visit
  /\ \A k \in DOMAIN sent : sent[k].kind = "upload" => sent[k].of = k
  /\ \A k \in Own : sent[k].kind \in KindsOf(page.tab)

\* What "View in Terminal" has handed over, or may, is a dataset that is stored
\* or was, and the list is asked for it.
LaunchInv ==
  /\ launched \in Known \cup {None}
  /\ page.tab = "data-lab" => page.data \in Known \cup {None}
  /\ page.tab = "stocks" => \A k \in Own : sent[k].kind = "list" => sent[k].of = launched

ListPending == \E k \in Own : sent[k].kind = "list" /\ sent[k].reply = "pending"

\* The last of the page's requests is for what its heading says.
LastAsked ==
  \E k \in Own : /\ \A j \in Own : j <= k
                 /\ sent[k].kind # "list" /\ sent[k].of = page.selected

AskedInv ==
  /\ page.tab = "stocks" =>
       /\ page.selected \in Datasets \cup {None}
       /\ ListPending \/ (page.selected # None /\ LastAsked)
  /\ page.tab = "backtest" => page.selected \in Setup /\ LastAsked

ResultIn(k) == sent[k].kind # "list" /\ sent[k].reply # "pending"

\* The page shows the last answer it was given, and an error after a failure,
\* until something else is asked for.
ShownInv ==
  page.tab \in {"stocks", "backtest"} =>
    /\ page.latest # 0 => page.latest \in Own /\ ResultIn(page.latest)
    /\ ~page.overtaken => \A k \in Own : ResultIn(k) => k <= page.latest
    /\ ~page.overtaken /\ page.latest # 0 =>
         \/ page.data = sent[page.latest].of
         \/ /\ sent[page.latest].reply = "failed"
            /\ page.tab = "stocks" => page.error \/ \E k \in Own : k > page.latest

PagesInv == TerminalTypeOK /\ RequestsInv /\ LaunchInv /\ AskedInv /\ ShownInv

-----------------------------------------------------------------------------

LEMMA SubjectsTyped ==
  /\ Seeded \in Datasets /\ Sample \in Datasets /\ Others \subseteq Datasets
  /\ Calls \subseteq Datasets /\ None \notin Datasets /\ Datasets \subseteq Subject
  /\ Setup \subseteq Subject /\ None \in Subject
  /\ DefaultSetup \in Setup /\ Opportunities \subseteq Setup
  /\ MaxRequests \in Nat /\ Calls = 1..MaxRequests
<1>1. Opportunities \subseteq Setup
  BY TerminalAssumption DEF Setup
<1>2. DefaultSetup \in Setup
  BY TerminalAssumption DEF Setup, DefaultSetup
<1> QED
  BY <1>1, <1>2, TerminalAssumption DEF Datasets, Subject

LEMMA RequestTyped ==
  ASSUME NEW kind \in Kinds, NEW v \in Nat, NEW of \in Subject
  PROVE  Request(kind, v, of) \in Requested
BY DEF Request, Requested

\* One more request at the end.
LEMMA Appended ==
  ASSUME NEW s \in Seq(Requested), NEW r \in Requested
  PROVE  /\ Append(s, r) \in Seq(Requested)
         /\ Len(s) + 1 \in DOMAIN Append(s, r) /\ Append(s, r)[Len(s) + 1] = r
         /\ \A k \in DOMAIN s : k \in DOMAIN Append(s, r) /\ Append(s, r)[k] = s[k]
         /\ \A k \in DOMAIN Append(s, r) : k \in DOMAIN s \/ k = Len(s) + 1
         /\ s \o <<r>> = Append(s, r)
OBVIOUS

\* A request is numbered by its place.
LEMMA Numbered ==
  ASSUME NEW s \in Seq(Requested)
  PROVE  /\ Len(s) + 1 \in Nat \ {0} /\ s \o <<>> = s
         /\ \A k \in DOMAIN s : k \in Nat \ {0} /\ k < Len(s) + 1 /\ s[k] \in Requested
OBVIOUS

\* A page as it is opened.
LEMMA Opened ==
  ASSUME NEW tab \in Tabs, NEW dataset \in Datasets \cup {None}, NEW setup \in Setup
  PROVE  /\ PageOpened(tab, dataset, setup) \in Page
         /\ PageOpened(tab, dataset, setup).tab = tab
         /\ PageOpened(tab, dataset, setup).latest = 0
         /\ PageOpened(tab, dataset, setup).data = None
         /\ tab = "stocks" => PageOpened(tab, dataset, setup).selected = dataset
         /\ tab = "backtest" => PageOpened(tab, dataset, setup).selected = setup
<1> USE SubjectsTyped
<1>1. CASE tab = "stocks"
  BY <1>1 DEF PageOpened, NewPage, Page, Tabs
<1>2. CASE tab = "backtest"
  BY <1>2 DEF PageOpened, NewPage, Waiting, Page, Tabs
<1>3. CASE tab \notin {"stocks", "backtest"}
  BY <1>3 DEF PageOpened, NewPage, Page, Tabs
<1> QED
  BY <1>1, <1>2, <1>3

\* The requests it begins with.
First(tab, v, dataset, setup) ==
  IF tab = "stocks" THEN Request("list", v, dataset) ELSE Request("backtest", v, setup)

LEMMA OpenedAsks ==
  ASSUME NEW tab \in Tabs, NEW v \in Nat,
         NEW dataset \in Datasets \cup {None}, NEW setup \in Setup
  PROVE  /\ First(tab, v, dataset, setup) \in Requested
         /\ First(tab, v, dataset, setup).visit = v
         /\ First(tab, v, dataset, setup).reply = "pending"
         /\ tab = "stocks" => /\ First(tab, v, dataset, setup).kind = "list"
                              /\ First(tab, v, dataset, setup).of = dataset
         /\ tab # "stocks" => /\ First(tab, v, dataset, setup).kind = "backtest"
                              /\ First(tab, v, dataset, setup).of = setup
         /\ FirstRequests(tab, v, dataset, setup) =
              IF tab \in {"stocks", "backtest"} THEN <<First(tab, v, dataset, setup)>> ELSE <<>>
<1>1. dataset \in Subject /\ setup \in Subject
  BY SubjectsTyped
<1>2. FirstRequests(tab, v, dataset, setup) =
        IF tab \in {"stocks", "backtest"} THEN <<First(tab, v, dataset, setup)>> ELSE <<>>
  <2>1. CASE tab = "stocks"
    BY <2>1 DEF First, FirstRequests
  <2>2. CASE tab = "backtest"
    BY <2>2 DEF First, FirstRequests
  <2>3. CASE tab \notin {"stocks", "backtest"}
    BY <2>3 DEF FirstRequests
  <2> QED
    BY <2>1, <2>2, <2>3
<1> QED
  BY <1>1, <1>2, RequestTyped DEF First, Request, Kinds

LEMMA PagesInit == Init => PagesInv
<1> SUFFICES ASSUME Init PROVE PagesInv
  OBVIOUS
<1> USE SubjectsTyped
<1>1. PICK tab \in FirstTabs : history = <<tab>>
  BY DEF Init
<1>2. /\ tab \in Tabs /\ history[1] = tab /\ visit = 0 /\ visit \in Nat
      /\ launched = None /\ handed = DefaultSetup /\ stored = <<Seeded>> /\ deleted = {}
      /\ page = PageOpened(tab, None, DefaultSetup)
      /\ sent = FirstRequests(tab, visit, None, DefaultSetup)
  BY <1>1, TerminalAssumption DEF Init
<1> DEFINE r == First(tab, visit, None, DefaultSetup)
<1>3. /\ r \in Requested /\ r.visit = visit /\ r.reply = "pending"
      /\ tab = "stocks" => r.kind = "list" /\ r.of = None
      /\ tab # "stocks" => r.kind = "backtest" /\ r.of = DefaultSetup
      /\ sent = IF tab \in {"stocks", "backtest"} THEN <<r>> ELSE <<>>
  <2>1. tab \in Tabs /\ None \in Datasets \cup {None} /\ DefaultSetup \in Setup
    BY <1>2
  <2> QED
    BY <1>2, <2>1, OpenedAsks
<1> HIDE DEF r
<1>5. /\ sent \in Seq(Requested) /\ DOMAIN sent \subseteq {1}
      /\ \A k \in DOMAIN sent : k = 1 /\ sent[k] = r /\ tab \in {"stocks", "backtest"}
      /\ tab \in {"stocks", "backtest"} => 1 \in DOMAIN sent /\ sent[1] = r
  <2>1. CASE tab \in {"stocks", "backtest"}
    <3>1. sent = <<r>>
      BY <1>3, <2>1
    <3> QED
      BY <1>3, <2>1, <3>1
  <2>2. CASE tab \notin {"stocks", "backtest"}
    <3>1. sent = <<>>
      BY <1>3, <2>2
    <3> QED
      BY <2>2, <3>1
  <2> QED
    BY <2>1, <2>2
<1>6. /\ page \in Page /\ page.tab = tab /\ page.latest = 0 /\ page.data = None
      /\ tab = "stocks" => page.selected = None
      /\ tab = "backtest" => page.selected = DefaultSetup
  BY <1>2, Opened
<1>7. TerminalTypeOK
  <2>1. history \in Seq(Tabs) /\ Len(history) = 1 /\ address = 1
    BY <1>1, <1>2 DEF Init
  <2> QED
    BY <1>2, <1>5, <1>6, <2>1 DEF TerminalTypeOK
<1>8. \A k \in DOMAIN sent : /\ sent[k].visit = visit /\ k = 1
                             /\ sent[k].reply = "pending"
                             /\ tab \in {"stocks", "backtest"}
                             /\ tab = "stocks" => sent[k].kind = "list" /\ sent[k].of = None
                             /\ tab # "stocks" => /\ sent[k].kind = "backtest"
                                                  /\ sent[k].of = DefaultSetup
  BY <1>3, <1>5
<1>9. tab \in {"stocks", "backtest"} => 1 \in Own
  BY <1>5, <1>8 DEF Own
<1>10. RequestsInv
  BY <1>2, <1>6, <1>8 DEF RequestsInv, Own, KindsOf
<1>11. LaunchInv
  BY <1>2, <1>6, <1>8 DEF LaunchInv, Own
<1>12. AskedInv
  <2>1. tab = "stocks" => ListPending
    BY <1>8, <1>9 DEF ListPending, Own
  <2>2. tab = "backtest" => LastAsked
    BY <1>6, <1>8, <1>9 DEF LastAsked, Own
  <2> QED
    BY <1>6, <2>1, <2>2 DEF AskedInv
<1>13. ShownInv
  BY <1>6, <1>8 DEF ShownInv, Own, ResultIn
<1> QED
  BY <1>7, <1>10, <1>11, <1>12, <1>13 DEF PagesInv

\* Every dataset that is stored or was is one.
LEMMA KnownTyped ==
  ASSUME PagesInv
  PROVE  Known \subseteq Datasets
<1>1. stored \in Seq(Datasets) /\ deleted \in SUBSET Datasets
  BY DEF PagesInv, TerminalTypeOK
<1>2. Stored \subseteq Datasets
  BY <1>1 DEF Stored
<1> QED
  BY <1>1, <1>2 DEF Known

\* A page is opened: none of the earlier requests is its own.
LEMMA OpenKeeps ==
  ASSUME PagesInv, NEW tab \in Tabs, NEW dataset \in Known \cup {None}, NEW setup \in Setup,
         Open(tab, dataset, setup), launched' = dataset, handed' \in Setup,
         history' \in Seq(Tabs), address' \in 1..Len(history'), UNCHANGED datasets
  PROVE  PagesInv'
<1> USE SubjectsTyped
<1>1. /\ visit \in Nat /\ visit' = visit + 1 /\ visit' \in Nat
      /\ page' = PageOpened(tab, dataset, setup)
      /\ sent' = sent \o FirstRequests(tab, visit', dataset, setup)
      /\ sent \in Seq(Requested) /\ Known \subseteq Datasets /\ Known' = Known
      /\ dataset \in Datasets \cup {None}
  <2>1. visit \in Nat /\ sent \in Seq(Requested) /\ Known \subseteq Datasets
    BY KnownTyped DEF PagesInv, TerminalTypeOK
  <2>2. visit' = visit + 1 /\ page' = PageOpened(tab, dataset, setup)
        /\ sent' = sent \o FirstRequests(tab, visit', dataset, setup)
    BY DEF Open
  <2> QED
    BY <2>1, <2>2 DEF Known, Stored
<1>2. /\ page' \in Page /\ page'.tab = tab /\ page'.latest = 0 /\ page'.data = None
      /\ tab = "stocks" => page'.selected = dataset
      /\ tab = "backtest" => page'.selected = setup
  BY <1>1, Opened
<1> DEFINE r == First(tab, visit', dataset, setup)
<1>3. /\ r \in Requested /\ r.visit = visit' /\ r.reply = "pending"
      /\ tab = "stocks" => r.kind = "list" /\ r.of = dataset
      /\ tab # "stocks" => r.kind = "backtest" /\ r.of = setup
      /\ sent' = sent \o (IF tab \in {"stocks", "backtest"} THEN <<r>> ELSE <<>>)
  <2>1. visit' \in Nat /\ dataset \in Datasets \cup {None}
    BY <1>1
  <2>2. /\ r \in Requested /\ r.visit = visit' /\ r.reply = "pending"
        /\ tab = "stocks" => r.kind = "list" /\ r.of = dataset
        /\ tab # "stocks" => r.kind = "backtest" /\ r.of = setup
        /\ FirstRequests(tab, visit', dataset, setup) =
             IF tab \in {"stocks", "backtest"} THEN <<r>> ELSE <<>>
    <3>1. r \in Requested /\ r.visit = visit' /\ r.reply = "pending"
      BY <2>1, OpenedAsks, SMTT(20)
    <3>2. /\ tab = "stocks" => r.kind = "list" /\ r.of = dataset
          /\ tab # "stocks" => r.kind = "backtest" /\ r.of = setup
      <4>1. tab = "stocks" => r.kind = "list" /\ r.of = dataset
        BY DEF First, Request
      <4>2. tab # "stocks" => r.kind = "backtest" /\ r.of = setup
        BY DEF First, Request
      <4> QED
        BY <4>1, <4>2
    <3>3. FirstRequests(tab, visit', dataset, setup) =
            IF tab \in {"stocks", "backtest"} THEN <<r>> ELSE <<>>
      BY <2>1, OpenedAsks, SMTT(20)
    <3> QED
      BY <3>1, <3>2, <3>3
  <2> HIDE DEF r
  <2> QED
    BY <1>1, <2>2
<1> HIDE DEF r
<1>4. \/ tab \in {"stocks", "backtest"} /\ sent' = Append(sent, r)
      \/ tab \notin {"stocks", "backtest"} /\ sent' = sent
  BY <1>1, <1>3, Appended, Numbered
<1> DEFINE n == Len(sent) + 1
<1>5. /\ sent' \in Seq(Requested) /\ n \in Nat \ {0}
      /\ \A k \in DOMAIN sent : sent'[k] = sent[k] /\ k < n
      /\ \A k \in DOMAIN sent' :
           k \in DOMAIN sent \/ (k = n /\ sent'[k] = r /\ tab \in {"stocks", "backtest"})
      /\ tab \in {"stocks", "backtest"} => n \in DOMAIN sent' /\ sent'[n] = r
  <2>1. n \in Nat \ {0} /\ \A k \in DOMAIN sent : k < n
    BY <1>1, Numbered
  <2>2. CASE tab \in {"stocks", "backtest"} /\ sent' = Append(sent, r)
    <3>1. /\ sent' \in Seq(Requested)
          /\ n \in DOMAIN sent' /\ sent'[n] = r
          /\ \A k \in DOMAIN sent : k \in DOMAIN sent' /\ sent'[k] = sent[k]
          /\ \A k \in DOMAIN sent' : k \in DOMAIN sent \/ k = n
      <4>1. sent \in Seq(Requested) /\ r \in Requested /\ sent' = Append(sent, r)
        BY <1>1, <1>3, <2>2
      <4> QED
        BY <4>1, Appended, Zenon
    <3> HIDE DEF n
    <3> QED
      BY <2>1, <2>2, <3>1
  <2>3. CASE tab \notin {"stocks", "backtest"} /\ sent' = sent
    BY <1>1, <2>1, <2>3
  <2> QED
    BY <1>4, <2>2, <2>3
<1>6. \A k \in DOMAIN sent : sent[k].visit \in Nat /\ sent[k].visit < visit'
  <2>1. \A k \in DOMAIN sent : sent[k] \in Requested /\ sent[k].visit <= visit
    BY <1>1, Numbered DEF PagesInv, RequestsInv
  <2> QED
    BY <1>1, <2>1 DEF Requested
<1> HIDE DEF n
<1>7. \A k \in DOMAIN sent' : sent'[k].visit = visit' => k = n /\ sent'[k] = r
  <2> SUFFICES ASSUME NEW k \in DOMAIN sent', sent'[k].visit = visit', k \in DOMAIN sent
               PROVE  FALSE
    BY <1>5
  <2>1. sent'[k].visit \in Nat /\ sent'[k].visit < visit'
    BY <1>5, <1>6
  <2> QED
    BY <1>1, <2>1
<1>8. TerminalTypeOK'
  BY <1>1, <1>2, <1>5 DEF PagesInv, TerminalTypeOK
<1>9. RequestsInv'
  <2>1. \A k \in DOMAIN sent' : sent'[k].visit <= visit'
    <3> SUFFICES ASSUME NEW k \in DOMAIN sent' PROVE sent'[k].visit <= visit'
      OBVIOUS
    <3>1. CASE k \in DOMAIN sent
      <4>1. sent'[k].visit \in Nat /\ sent'[k].visit < visit'
        BY <1>5, <1>6, <3>1
      <4>2. visit' \in Nat
        BY <1>1
      <4> QED
        BY <4>1, <4>2
    <3>2. CASE sent'[k] = r
      <4>1. sent'[k].visit = visit'
        BY <1>3, <3>2, Zenon
      <4>2. visit' \in Nat
        BY <1>1
      <4> QED
        BY <4>1, <4>2
    <3> QED
      BY <1>5, <3>1, <3>2
  <2>2. \A k \in DOMAIN sent' : sent'[k].kind = "upload" => sent'[k].of = k
    BY <1>3, <1>5 DEF PagesInv, RequestsInv
  <2>3. \A k \in DOMAIN sent' : sent'[k].visit = visit' => sent'[k].kind \in KindsOf(tab)
    <3> SUFFICES ASSUME NEW k \in DOMAIN sent', sent'[k].visit = visit'
                 PROVE  sent'[k].kind \in KindsOf(tab)
      OBVIOUS
    <3>1. k = n /\ sent'[k] = r
      BY <1>7
    <3>2. tab \in {"stocks", "backtest"}
      <4>1. k \notin DOMAIN sent
        BY <1>5, <3>1
      <4> QED
        BY <1>5, <4>1
    <3> QED
      BY <1>3, <3>1, <3>2 DEF KindsOf
  <2> QED
    BY <1>2, <2>1, <2>2, <2>3 DEF RequestsInv, Own
<1>10. LaunchInv'
  <2>1. tab = "stocks" =>
          \A k \in DOMAIN sent' : sent'[k].visit = visit' => sent'[k].of = dataset
    BY <1>3, <1>7
  <2> QED
    BY <1>1, <1>2, <2>1 DEF LaunchInv, Own
<1>11. AskedInv'
  <2>1. CASE tab = "stocks"
    <3>1. ListPending'
      BY <1>3, <1>5, <2>1 DEF ListPending, Own
    <3> QED
      BY <1>1, <1>2, <2>1, <3>1 DEF AskedInv
  <2>2. CASE tab = "backtest"
    <3>1. n \in Own' /\ \A j \in Own' : j = n
      BY <1>3, <1>5, <1>7, <2>2 DEF Own
    <3>2. n <= n /\ sent'[n].kind # "list" /\ sent'[n].of = page'.selected
      BY <1>2, <1>3, <1>5, <2>2
    <3>3. LastAsked'
      BY <3>1, <3>2 DEF LastAsked
    <3> QED
      BY <1>2, <2>2, <3>3 DEF AskedInv
  <2>3. CASE tab \notin {"stocks", "backtest"}
    BY <1>2, <2>3 DEF AskedInv
  <2> QED
    BY <2>1, <2>2, <2>3
<1>12. ShownInv'
  <2>1. \A k \in Own' : ~ResultIn(k)'
    BY <1>3, <1>7 DEF Own, ResultIn
  <2> QED
    BY <1>2, <2>1 DEF ShownInv
<1> QED
  BY <1>8, <1>9, <1>10, <1>11, <1>12 DEF PagesInv

-----------------------------------------------------------------------------
(* Steps on the open page                                                  *)

\* The page stays as it is: what changes is the database, or a request of a page
\* that is open no more.
LEMMA PageKept ==
  ASSUME PagesInv, UNCHANGED <<page, visit, launched, handed, history, address>>,
         sent' \in Seq(Requested), stored' \in Seq(Datasets), deleted' \in SUBSET Datasets,
         Known \subseteq Known',
         \A k \in DOMAIN sent' : /\ sent'[k].visit <= visit
                                 /\ sent'[k].kind = "upload" => sent'[k].of = k,
         Own' = Own, \A k \in Own : sent'[k] = sent[k]
  PROVE  PagesInv'
<1>1. TerminalTypeOK'
  BY DEF PagesInv, TerminalTypeOK
<1>2. RequestsInv'
  <2>1. \A k \in Own' : sent'[k].kind \in KindsOf(page'.tab)
    BY DEF PagesInv, RequestsInv
  <2> QED
    BY <2>1 DEF RequestsInv
<1>3. LaunchInv'
  BY DEF PagesInv, LaunchInv
<1>4. \A k \in Own : ResultIn(k)' = ResultIn(k)
  BY DEF ResultIn
<1>5. AskedInv'
  BY DEF PagesInv, AskedInv, ListPending, LastAsked
<1>6. ShownInv'
  BY <1>4 DEF PagesInv, ShownInv
<1> QED
  BY <1>1, <1>2, <1>3, <1>5, <1>6 DEF PagesInv

\* Requests that keep what they ask for and for whom.  (A list may be answered.)
SameRequests(s) ==
  /\ DOMAIN s = DOMAIN sent
  /\ \A k \in DOMAIN sent :
       /\ s[k].visit = sent[k].visit /\ s[k].kind = sent[k].kind /\ s[k].of = sent[k].of
       /\ sent[k].kind # "list" => s[k] = sent[k]

\* The open page asks for something else.
Asks(s, kind, of, sel, listed) ==
  /\ sent' = Append(s, Request(kind, visit, of))
  /\ page' = Waiting([page EXCEPT !.selected = sel, !.listed = listed])
  /\ UNCHANGED <<visit, launched, handed, history, address, datasets>>

\* It may be asked for: the request is of the page, and it is for what the
\* heading says, or the list is still to come.
MayAsk(s, kind, of, sel) ==
  /\ kind \in KindsOf(page.tab) \ {"list"}
  /\ kind = "upload" => of = Len(sent) + 1
  /\ page.tab = "stocks" => /\ sel \in Datasets \cup {None}
                            /\ (s = sent /\ ListPending) \/ (of = sel /\ sel # None)
  /\ page.tab = "backtest" => sel \in Setup /\ of = sel

LEMMA Asked ==
  ASSUME PagesInv, NEW s \in Seq(Requested), SameRequests(s),
         NEW kind, NEW of \in Subject, NEW sel \in Subject, NEW listed \in SUBSET Datasets,
         MayAsk(s, kind, of, sel), Asks(s, kind, of, sel, listed)
  PROVE  PagesInv'
<1> DEFINE r == Request(kind, visit, of)
           n == Len(s) + 1
<1>1. visit \in Nat /\ page \in Page /\ sent \in Seq(Requested)
  BY DEF PagesInv, TerminalTypeOK
<1>2. kind \in Kinds /\ kind # "list"
  BY DEF MayAsk, KindsOf, Kinds
<1>3. /\ r \in Requested /\ r.visit = visit /\ r.kind = kind /\ r.of = of
      /\ r.reply = "pending"
  BY <1>1, <1>2, RequestTyped DEF Request
<1>4. sent' = Append(s, r)
  BY DEF Asks
<1>5. Len(s) = Len(sent)
  BY <1>1 DEF SameRequests
<1> HIDE DEF r
<1>6. /\ sent' \in Seq(Requested) /\ n \in DOMAIN sent' /\ sent'[n] = r
      /\ \A k \in DOMAIN s : k \in DOMAIN sent' /\ sent'[k] = s[k]
      /\ \A k \in DOMAIN sent' : k \in DOMAIN s \/ k = n
  BY <1>3, <1>4, Appended, Zenon
<1>7. n \in Nat /\ \A k \in DOMAIN sent : k \in Nat /\ k < n
  BY <1>1, <1>5, Numbered
<1>8. n = Len(sent) + 1
  BY <1>5
<1> HIDE DEF n
<1>9. /\ page' \in Page /\ page'.tab = page.tab /\ page'.selected = sel
      /\ page'.data = page.data /\ page'.latest = page.latest
      /\ page'.overtaken = page.overtaken
  BY <1>1 DEF Asks, Waiting, Page
<1>10. UNCHANGED <<visit, launched, handed, history, address, datasets>>
  BY DEF Asks
<1>11. Own' = Own \cup {n}
  BY <1>3, <1>6, <1>10 DEF Own, SameRequests
<1>12. TerminalTypeOK'
  BY <1>6, <1>9, <1>10 DEF PagesInv, TerminalTypeOK
<1>13. RequestsInv'
  <2>1. \A k \in DOMAIN sent' : sent'[k].visit <= visit'
    <3>1. \A k \in DOMAIN sent : sent[k].visit <= visit
      BY DEF PagesInv, RequestsInv
    <3>2. \A k \in DOMAIN s : k \in DOMAIN sent /\ s[k].visit = sent[k].visit
      BY DEF SameRequests
    <3>3. \A k \in DOMAIN sent' : sent'[k].visit = visit \/ sent'[k].visit <= visit
      BY <1>3, <1>6, <3>1, <3>2
    <3>4. visit <= visit /\ visit' = visit
      BY <1>1, <1>10
    <3> QED
      BY <3>3, <3>4
  <2>2. \A k \in DOMAIN sent' : sent'[k].kind = "upload" => sent'[k].of = k
    BY <1>3, <1>6, <1>8 DEF PagesInv, RequestsInv, SameRequests, MayAsk
  <2>3. \A k \in Own' : sent'[k].kind \in KindsOf(page'.tab)
    BY <1>3, <1>6, <1>9, <1>11 DEF PagesInv, RequestsInv, SameRequests, MayAsk, Own
  <2> QED
    BY <2>1, <2>2, <2>3 DEF RequestsInv
<1>14. LaunchInv'
  <2>1. Known' = Known
    BY <1>10 DEF Known, Stored
  <2>2. page.tab = "stocks" => \A k \in Own' : sent'[k].kind = "list" => sent'[k].of = launched
    BY <1>2, <1>3, <1>6, <1>11 DEF PagesInv, LaunchInv, SameRequests, Own
  <2> QED
    BY <1>9, <1>10, <2>1, <2>2 DEF PagesInv, LaunchInv
<1>15. AskedInv'
  <2>1. \A j \in Own' : j <= n
    BY <1>7, <1>11 DEF Own
  <2>2. of = sel => LastAsked'
    <3>1. n \in Own' /\ sent'[n].kind # "list" /\ sent'[n].of = of
      BY <1>2, <1>3, <1>6, <1>11
    <3> QED
      BY <1>9, <2>1, <3>1 DEF LastAsked
  <2>3. s = sent /\ ListPending => ListPending'
    BY <1>6, <1>11 DEF ListPending, Own
  <2> QED
    BY <1>9, <2>2, <2>3 DEF MayAsk, AskedInv
<1>16. ShownInv'
  <2> SUFFICES ASSUME page.tab \in {"stocks", "backtest"} PROVE ShownInv'
    BY <1>9 DEF ShownInv
  <2>1. \A k \in Own : ResultIn(k)' = ResultIn(k) /\ (ResultIn(k) => sent'[k] = sent[k])
    BY <1>6 DEF ResultIn, SameRequests, Own
  <2>2. ~ResultIn(n)'
    BY <1>3, <1>6 DEF ResultIn
  <2>3. page.latest # 0 => page.latest \in Own /\ ResultIn(page.latest)
    BY DEF PagesInv, ShownInv
  <2>4. page.latest # 0 => page.latest \in Own' /\ ResultIn(page.latest)'
    BY <1>9, <1>11, <2>1, <2>3
  <2>5. ~page.overtaken => \A k \in Own' : ResultIn(k)' => k <= page.latest
    BY <1>11, <2>1, <2>2 DEF PagesInv, ShownInv
  <2>6. ~page.overtaken /\ page.latest # 0 =>
          \/ page.data = sent'[page.latest].of
          \/ /\ sent'[page.latest].reply = "failed"
             /\ \E k \in Own' : k > page.latest
    <3>1. page.latest # 0 => sent'[page.latest] = sent[page.latest]
      BY <2>1, <2>3
    <3>2. page.latest # 0 => n \in Own' /\ n > page.latest
      BY <1>7, <1>11, <2>3 DEF Own
    <3> QED
      BY <3>1, <3>2 DEF PagesInv, ShownInv
  <2> QED
    BY <1>9, <2>4, <2>5, <2>6 DEF ShownInv
<1> QED
  BY <1>12, <1>13, <1>14, <1>15, <1>16 DEF PagesInv

\* The page that stays as it is but for what it asks for.
LEMMA AskedBy ==
  ASSUME PagesInv, NEW kind, NEW of \in Subject, NEW sel \in Subject,
         MayAsk(sent, kind, of, sel), Send(kind, visit, of),
         page' = Waiting([page EXCEPT !.selected = sel]),
         UNCHANGED <<route, datasets>>
  PROVE  PagesInv'
<1>1. page \in Page /\ sent \in Seq(Requested)
  BY DEF PagesInv, TerminalTypeOK
<1>2. page.listed \in SUBSET Datasets
  BY <1>1 DEF Page
<1>3. [page EXCEPT !.selected = sel] = [page EXCEPT !.selected = sel, !.listed = page.listed]
  BY <1>1 DEF Page
<1>4. SameRequests(sent)
  BY DEF SameRequests
<1>5. Asks(sent, kind, of, sel, page.listed)
  BY <1>3 DEF Asks, Send, route
<1> QED
  BY <1>1, <1>2, <1>4, <1>5, Asked

\* A load, whatever is chosen meanwhile.
LEMMA Loaded ==
  ASSUME PagesInv, page.tab = "stocks", NEW d \in Datasets, NEW sel \in Datasets \cup {None},
         d = sel \/ ListPending, Load([page EXCEPT !.selected = sel], d),
         UNCHANGED <<route, datasets>>
  PROVE  PagesInv'
<1>1. d \in Subject /\ sel \in Subject /\ (d = sel => sel # None)
  BY SubjectsTyped
<1>2. Send(Analysis(d), visit, d) /\ page' = Waiting([page EXCEPT !.selected = sel])
  BY DEF Load
<1>3. MayAsk(sent, Analysis(d), d, sel)
  BY <1>1 DEF MayAsk, Analysis, KindsOf
<1> QED
  BY <1>1, <1>2, <1>3, AskedBy

\* The controls of the market page.
LEMMA StocksKeep ==
  ASSUME PagesInv,
         (\E d \in Known \cup {Sample} : SelectDataset(d)) \/ Refresh \/ LoadSample
  PROVE  PagesInv'
<1> USE SubjectsTyped
<1>1. page \in Page /\ Known \subseteq Datasets
  BY KnownTyped DEF PagesInv, TerminalTypeOK
<1>2. ASSUME NEW d \in Known \cup {Sample}, SelectDataset(d) PROVE PagesInv'
  <2>1. d \in Datasets
    BY <1>1
  <2>2. page.tab = "stocks" /\ Load([page EXCEPT !.selected = d], d) /\ UNCHANGED <<route, datasets>>
    BY <1>2 DEF SelectDataset
  <2> QED
    BY <2>1, <2>2, Loaded
<1>3. CASE LoadSample
  <2>1. /\ page.tab = "stocks" /\ Load([page EXCEPT !.selected = Sample], Sample)
        /\ UNCHANGED <<route, datasets>>
    BY <1>3 DEF LoadSample
  <2> QED
    BY <2>1, Loaded
<1>4. CASE Refresh
  <2> DEFINE d == IF page.selected = None THEN Sample ELSE page.selected
  <2>1. page.tab = "stocks" /\ Load(page, d) /\ UNCHANGED <<route, datasets>>
    BY <1>4 DEF Refresh
  <2>2. page = [page EXCEPT !.selected = page.selected]
    BY <1>1 DEF Page
  <2>3. page.selected \in Datasets \cup {None} /\ (page.selected = None => ListPending)
    BY <2>1 DEF PagesInv, AskedInv
  <2>4. d \in Datasets /\ (d = page.selected \/ ListPending)
    BY <2>3
  <2> HIDE DEF d
  <2>5. Load([page EXCEPT !.selected = page.selected], d)
    BY <2>1, <2>2
  <2> QED
    BY <2>1, <2>3, <2>4, <2>5, Loaded
<1> QED
  BY <1>2, <1>3, <1>4

\* The controls of the backtest page.
LEMMA BacktestKeeps ==
  ASSUME PagesInv,
         \/ RunAgain
         \/ \E strategy \in Strategies : SelectStrategy(strategy)
         \/ \E symbol \in Symbols : SelectSymbol(symbol)
  PROVE  PagesInv'
<1>1. page.tab = "backtest" /\ page.selected \in Setup
  BY DEF RunAgain, SelectStrategy, SelectSymbol, PagesInv, AskedInv
<1>2. PICK setup \in Setup : RunBacktest(setup)
  <2>1. CASE RunAgain
    BY <1>1, <2>1 DEF RunAgain
  <2>2. ASSUME NEW strategy \in Strategies, SelectStrategy(strategy)
        PROVE  \E setup \in Setup : RunBacktest(setup)
    <3>1. [page.selected EXCEPT !.strategy = strategy] \in Setup
      BY <1>1 DEF Setup
    <3> QED
      BY <2>2, <3>1 DEF SelectStrategy
  <2>3. ASSUME NEW symbol \in Symbols, SelectSymbol(symbol)
        PROVE  \E setup \in Setup : RunBacktest(setup)
    <3>1. [page.selected EXCEPT !.symbol = symbol] \in Setup
      BY <1>1 DEF Setup
    <3> QED
      BY <2>3, <3>1 DEF SelectSymbol
  <2> QED
    BY <2>1, <2>2, <2>3
<1>3. /\ Send("backtest", visit, setup) /\ page' = Waiting([page EXCEPT !.selected = setup])
      /\ UNCHANGED <<route, datasets>>
  BY <1>2 DEF RunBacktest
<1>4. MayAsk(sent, "backtest", setup, setup)
  BY <1>1 DEF MayAsk, KindsOf
<1>5. setup \in Subject
  BY SubjectsTyped
<1> QED
  BY <1>3, <1>4, <1>5, AskedBy

\* The form of the data lab, and its reset.
LEMMA UploadKeeps ==
  ASSUME PagesInv, Upload
  PROVE  PagesInv'
<1> DEFINE n == Len(sent) + 1
<1>1. page \in Page /\ sent \in Seq(Requested) /\ page.tab = "data-lab"
  BY DEF PagesInv, TerminalTypeOK, Upload
<1>2. Send("upload", visit, n) /\ page' = Waiting(page) /\ UNCHANGED <<route, datasets>>
  BY DEF Upload
<1>3. n \in Subject
  <2>1. n \in 1..MaxRequests
    BY <1>1, <1>2, SubjectsTyped DEF Send
  <2> QED
    BY <2>1, SubjectsTyped
<1>4. page = [page EXCEPT !.selected = page.selected] /\ page.selected \in Subject
  BY <1>1 DEF Page
<1>5. MayAsk(sent, "upload", n, page.selected)
  BY <1>1 DEF MayAsk, KindsOf
<1> HIDE DEF n
<1>6. page' = Waiting([page EXCEPT !.selected = page.selected])
  BY <1>2, <1>4
<1> QED
  BY <1>2, <1>3, <1>4, <1>5, <1>6, AskedBy

LEMMA ImportKeeps ==
  ASSUME PagesInv, ImportAnother
  PROVE  PagesInv'
<1>1. page \in Page /\ page.tab = "data-lab" /\ UNCHANGED <<route, sent, datasets>>
  BY DEF PagesInv, TerminalTypeOK, ImportAnother
<1>2. page' \in Page /\ page'.tab = "data-lab" /\ page'.data = None
  BY <1>1, SubjectsTyped DEF ImportAnother, Page
<1>3. TerminalTypeOK'
  BY <1>1, <1>2 DEF PagesInv, TerminalTypeOK, route
<1>4. Own' = Own /\ Known' = Known
  BY <1>1 DEF Own, Known, Stored, route
<1>5. RequestsInv' /\ LaunchInv'
  BY <1>1, <1>2, <1>4 DEF PagesInv, RequestsInv, LaunchInv, route
<1>6. AskedInv' /\ ShownInv'
  BY <1>2 DEF AskedInv, ShownInv
<1> QED
  BY <1>3, <1>5, <1>6 DEF PagesInv

-----------------------------------------------------------------------------
(* Answers                                                                 *)

\* A reply changes a request only in that it is answered.
LEMMA RepliedTyped ==
  ASSUME PagesInv, NEW k \in DOMAIN sent, NEW reply \in {"ok", "failed"}
  PROVE  /\ Replied(k, reply) \in Seq(Requested) /\ DOMAIN Replied(k, reply) = DOMAIN sent
         /\ Len(Replied(k, reply)) = Len(sent)
         /\ \A j \in DOMAIN sent :
              /\ Replied(k, reply)[j].visit = sent[j].visit
              /\ Replied(k, reply)[j].kind = sent[j].kind
              /\ Replied(k, reply)[j].of = sent[j].of
              /\ j # k => Replied(k, reply)[j] = sent[j]
         /\ Replied(k, reply)[k].reply = reply
<1>1. sent \in Seq(Requested) /\ \A j \in DOMAIN sent : sent[j] \in Requested
  BY DEF PagesInv, TerminalTypeOK
<1>2. \A j \in DOMAIN sent : Replied(k, reply)[j] =
        IF j = k THEN [sent[j] EXCEPT !.reply = reply] ELSE sent[j]
  BY <1>1 DEF Replied
<1>3. \A j \in DOMAIN sent : Replied(k, reply)[j] \in Requested
  BY <1>1, <1>2 DEF Requested
<1>4. Replied(k, reply) \in Seq(Requested) /\ DOMAIN Replied(k, reply) = DOMAIN sent
      /\ Len(Replied(k, reply)) = Len(sent)
  BY <1>1, <1>3 DEF Replied
<1> QED
  BY <1>1, <1>2, <1>4 DEF Requested

\* The dataset the market page begins with is one, that of the list, if it has
\* one, and the launched one when that is listed.
LEMMA FirstDatasetTyped ==
  ASSUME PagesInv, NEW d, NEW ok \in BOOLEAN
  PROVE  /\ FirstDataset(d, ok) \in Datasets
         /\ ok /\ d \in Stored => FirstDataset(d, ok) = d
         /\ ok => FirstDataset(d, ok) \in (IF Stored = {} THEN {Sample} ELSE Stored)
<1>1. stored \in Seq(Datasets) /\ Stored \subseteq Datasets
  BY DEF PagesInv, TerminalTypeOK, Stored
<1>2. IF stored = <<>> THEN Stored = {}
      ELSE stored[1] \in Datasets /\ stored[1] \in Stored
  BY <1>1 DEF Stored
<1> QED
  BY <1>1, <1>2, SubjectsTyped DEF FirstDataset, ListedFirst

\* The answer of a list is followed by a load, of the page that asked.
LEMMA ListKeeps ==
  ASSUME PagesInv, NEW k \in DOMAIN sent, NEW ok \in BOOLEAN,
         sent[k].reply = "pending", sent[k].kind = "list", ListAnswered(k, ok),
         UNCHANGED <<route, datasets>>
  PROVE  PagesInv'
<1> DEFINE reply == IF ok THEN "ok" ELSE "failed"
           s == Replied(k, reply)
           d == FirstDataset(sent[k].of, ok)
           r == Request(Analysis(d), sent[k].visit, d)
           n == Len(sent) + 1
<1>1. /\ visit \in Nat /\ page \in Page /\ sent \in Seq(Requested)
      /\ Stored \subseteq Datasets /\ stored \in Seq(Datasets)
  BY DEF PagesInv, TerminalTypeOK, Stored
<1>2. reply \in {"ok", "failed"}
  OBVIOUS
<1>3. d \in Datasets
  BY FirstDatasetTyped
<1>4. sent' = Append(s, r)
  BY DEF ListAnswered
<1>5. page' = IF sent[k].visit # visit THEN page
              ELSE Waiting([page EXCEPT !.selected = d, !.listed = IF ok THEN Stored ELSE {}])
  BY DEF ListAnswered
<1> HIDE DEF reply
<1>6. /\ s \in Seq(Requested) /\ DOMAIN s = DOMAIN sent /\ Len(s) = Len(sent)
      /\ \A j \in DOMAIN sent : /\ s[j].visit = sent[j].visit /\ s[j].kind = sent[j].kind
                                /\ s[j].of = sent[j].of /\ (j # k => s[j] = sent[j])
  BY <1>2, RepliedTyped
<1> HIDE DEF s, d
<1>7. Analysis(d) \in {"file", "analysis"}
  BY DEF Analysis
<1>8. CASE sent[k].visit = visit
  <2>1. k \in Own /\ page.tab = "stocks"
    <3>1. k \in Own
      BY <1>8 DEF Own
    <3>2. "list" \in KindsOf(page.tab)
      BY <3>1 DEF PagesInv, RequestsInv
    <3> QED
      BY <3>1, <3>2 DEF KindsOf
  <2>2. SameRequests(s)
    BY <1>6 DEF SameRequests
  <2>3. d \in Subject /\ d # None /\ (IF ok THEN Stored ELSE {}) \in SUBSET Datasets
    BY <1>1, <1>3, SubjectsTyped
  <2>4. MayAsk(s, Analysis(d), d, d)
    BY <1>3, <1>7, <2>1, <2>3 DEF MayAsk, KindsOf
  <2>5. Asks(s, Analysis(d), d, d, IF ok THEN Stored ELSE {})
    BY <1>4, <1>5, <1>8 DEF Asks, route
  <2> QED
    BY <1>6, <2>2, <2>3, <2>4, <2>5, Asked
<1>9. CASE sent[k].visit # visit
  <2>1. r \in Requested /\ r.visit = sent[k].visit /\ r.kind = Analysis(d)
    <3>1. sent[k].visit \in Nat
      <4>1. sent[k] \in Requested
        BY <1>1
      <4> QED
        BY <4>1 DEF Requested
    <3>2. d \in Subject /\ Analysis(d) \in Kinds
      BY <1>3, <1>7, SubjectsTyped DEF Kinds
    <3> QED
      BY <3>1, <3>2, RequestTyped DEF Request
  <2> HIDE DEF r
  <2>2. /\ sent' \in Seq(Requested) /\ n \in DOMAIN sent' /\ sent'[n] = r
        /\ \A j \in DOMAIN s : j \in DOMAIN sent' /\ sent'[j] = s[j]
        /\ \A j \in DOMAIN sent' : j \in DOMAIN s \/ j = n
    <3>1. n = Len(s) + 1 /\ s \in Seq(Requested) /\ sent' = Append(s, r)
      BY <1>4, <1>6
    <3> HIDE DEF n
    <3> QED
      BY <2>1, <3>1, Appended, Zenon
  <2> HIDE DEF n
  <2>3. UNCHANGED <<page, visit, launched, handed, history, address, datasets>>
    BY <1>5, <1>9 DEF route
  <2>4. \A j \in DOMAIN sent' : /\ sent'[j].visit <= visit
                                /\ sent'[j].kind = "upload" => sent'[j].of = j
    <3>1. ASSUME NEW j \in DOMAIN sent
          PROVE  sent[j].visit <= visit /\ (sent[j].kind = "upload" => sent[j].of = j)
      BY DEF PagesInv, RequestsInv
    <3>2. ASSUME NEW j \in DOMAIN s
          PROVE  j \in DOMAIN sent /\ s[j].visit = sent[j].visit
                 /\ s[j].kind = sent[j].kind /\ s[j].of = sent[j].of
      BY <1>6
    <3>3. r.visit <= visit /\ r.kind # "upload"
      BY <1>7, <2>1, <3>1
    <3> QED
      BY <2>2, <3>1, <3>2, <3>3
  <2>5. Own' = Own /\ \A j \in Own : sent'[j] = sent[j]
    BY <1>6, <1>9, <2>1, <2>2, <2>3 DEF Own
  <2>6. Known \subseteq Known' /\ deleted' \in SUBSET Datasets
    BY <2>3 DEF Known, Stored, PagesInv, TerminalTypeOK
  <2> QED
    BY <1>1, <2>2, <2>3, <2>4, <2>5, <2>6, PageKept
<1> QED
  BY <1>8, <1>9

\* What an answer leaves on its page.
LEMMA ShownFields ==
  ASSUME page \in Page, NEW k \in Nat, sent[k].of \in Subject, NEW ok \in BOOLEAN
  PROVE  /\ Shown(k, ok) \in Page /\ Shown(k, ok).tab = page.tab
         /\ Shown(k, ok).selected = page.selected
         /\ Shown(k, ok).data = IF ok THEN sent[k].of ELSE page.data
         /\ ~ok /\ page.tab # "backtest" => Shown(k, ok).error
         /\ Shown(k, ok).overtaken = (page.overtaken \/ k < page.latest)
         /\ Shown(k, ok).latest = IF k < page.latest THEN page.latest ELSE k
<1>1. /\ page.latest \in Nat /\ page.overtaken \in BOOLEAN /\ page.error \in BOOLEAN
      /\ page.data \in Subject
  BY DEF Page
<1>2. (k < page.latest) \in BOOLEAN /\ (page.overtaken \/ k < page.latest) \in BOOLEAN
  BY <1>1
<1> QED
  BY <1>1, <1>2 DEF Shown, Told, Page

\* A result or an error is shown by the page that asked, if it is still open.
LEMMA ResultKeeps ==
  ASSUME PagesInv, NEW k \in DOMAIN sent, NEW ok \in BOOLEAN,
         sent[k].reply = "pending", sent[k].kind # "list", ResultAnswered(k, ok),
         ok => Available(k), UNCHANGED <<route, datasets>>
  PROVE  PagesInv'
<1> DEFINE reply == IF ok THEN "ok" ELSE "failed"
<1>1. /\ visit \in Nat /\ page \in Page /\ sent \in Seq(Requested)
      /\ stored \in Seq(Datasets) /\ deleted \in SUBSET Datasets
  BY DEF PagesInv, TerminalTypeOK
<1>2. sent' = Replied(k, reply) /\ page' = IF sent[k].visit = visit THEN Shown(k, ok) ELSE page
  BY DEF ResultAnswered
<1>3. reply \in {"ok", "failed"} /\ (~ok => reply = "failed")
  OBVIOUS
<1> HIDE DEF reply
<1>4. /\ sent' \in Seq(Requested) /\ DOMAIN sent' = DOMAIN sent
      /\ \A j \in DOMAIN sent : /\ sent'[j].visit = sent[j].visit /\ sent'[j].kind = sent[j].kind
                                /\ sent'[j].of = sent[j].of /\ (j # k => sent'[j] = sent[j])
      /\ sent'[k].reply = reply
  BY <1>2, <1>3, RepliedTyped
<1>5. UNCHANGED <<visit, launched, handed, history, address, datasets>>
  BY DEF route
<1>6. Own' = Own /\ Known' = Known
  BY <1>4, <1>5 DEF Own, Known, Stored
<1>7. \A j \in DOMAIN sent' : /\ sent'[j].visit <= visit
                              /\ sent'[j].kind = "upload" => sent'[j].of = j
  BY <1>4 DEF PagesInv, RequestsInv
<1>8. CASE sent[k].visit # visit
  <2>1. page' = page
    BY <1>2, <1>8
  <2>2. \A j \in Own : sent'[j] = sent[j]
    BY <1>4, <1>8 DEF Own
  <2> QED
    BY <1>1, <1>4, <1>5, <1>6, <1>7, <2>1, <2>2, PageKept
<1>9. CASE sent[k].visit = visit
  <2>1. k \in Own /\ k \in Nat \ {0} /\ sent[k].of \in Subject /\ sent[k].kind \in KindsOf(page.tab)
    <3>1. k \in Own
      BY <1>9 DEF Own
    <3>2. k \in Nat \ {0} /\ sent[k] \in Requested
      BY <1>1
    <3>3. sent[k].kind \in KindsOf(page.tab)
      BY <3>1 DEF PagesInv, RequestsInv
    <3> QED
      BY <3>1, <3>2, <3>3 DEF Requested
  <2>2. /\ page' \in Page /\ page'.tab = page.tab
        /\ page'.selected = page.selected
        /\ page'.data = IF ok THEN sent[k].of ELSE page.data
        /\ ~ok /\ page.tab # "backtest" => page'.error
        /\ page'.overtaken = (page.overtaken \/ k < page.latest)
        /\ page'.latest = IF k < page.latest THEN page.latest ELSE k
    <3>1. page' = Shown(k, ok)
      BY <1>2, <1>9
    <3> QED
      BY <1>1, <2>1, <3>1, ShownFields
  <2>3. TerminalTypeOK'
    BY <1>4, <1>5, <2>2 DEF PagesInv, TerminalTypeOK
  <2>4. RequestsInv'
    <3>1. \A j \in Own' : sent'[j].kind \in KindsOf(page'.tab)
      BY <1>4, <1>6, <2>2 DEF PagesInv, RequestsInv, Own
    <3> QED
      BY <1>5, <1>7, <3>1 DEF RequestsInv
  <2>5. LaunchInv'
    <3>1. page.tab = "data-lab" => page'.data \in Known \cup {None}
      <4> SUFFICES ASSUME page.tab = "data-lab", ok PROVE sent[k].of \in Known
        BY <2>2 DEF PagesInv, LaunchInv
      <4>1. sent[k].kind = "upload"
        BY <2>1 DEF KindsOf
      <4>2. sent[k].of = k
        BY <4>1 DEF PagesInv, RequestsInv
      <4> QED
        BY <4>1, <4>2 DEF Available
    <3>2. page.tab = "stocks" => \A j \in Own' : sent'[j].kind = "list" => sent'[j].of = launched
      BY <1>4, <1>6 DEF PagesInv, LaunchInv, Own
    <3> QED
      BY <1>5, <1>6, <2>2, <3>1, <3>2 DEF PagesInv, LaunchInv
  <2>6. AskedInv'
    <3>1. ListPending => ListPending'
      BY <1>4, <1>6 DEF ListPending, Own
    <3>2. LastAsked => LastAsked'
      BY <1>4, <1>6, <2>2 DEF LastAsked, Own
    <3> QED
      BY <2>2, <3>1, <3>2 DEF PagesInv, AskedInv
  <2>7. ShownInv'
    <3> SUFFICES ASSUME page.tab \in {"stocks", "backtest"} PROVE ShownInv'
      BY <2>2 DEF ShownInv
    <3> DEFINE In(j) == sent'[j].kind # "list" /\ sent'[j].reply # "pending"
    <3>1. In(k) /\ ~ResultIn(k) /\ \A j \in Own : j # k => In(j) = ResultIn(j)
      BY <1>3, <1>4 DEF ResultIn, Own
    <3>2. /\ page.latest \in Nat
          /\ page.latest # 0 => page.latest \in Own /\ ResultIn(page.latest)
          /\ ~page.overtaken => \A j \in Own : ResultIn(j) => j <= page.latest
      BY <1>1 DEF PagesInv, ShownInv, Page
    <3>3. page.latest # k
      BY <2>1, <3>1, <3>2
    <3>4. Own \subseteq Nat
      BY <1>1 DEF Own
    <3> HIDE DEF In
    <3>5. CASE k < page.latest
      <4>1. page'.overtaken /\ page'.latest = page.latest /\ page.latest # 0
        <5>1. page.latest # 0
          BY <2>1, <3>2, <3>5
        <5>2. page'.latest = page.latest
          BY <2>2, <3>5
        <5>3. page'.overtaken
          BY <2>2, <3>5, Zenon
        <5> QED
          BY <5>1, <5>2, <5>3
      <4>2. page'.latest \in Own' /\ In(page'.latest)
        BY <1>6, <3>1, <3>2, <3>3, <4>1
      <4> QED
        BY <4>1, <4>2 DEF ShownInv, ResultIn, In
    <3>6. CASE ~(k < page.latest)
      <4>1. page'.latest = k /\ page'.overtaken = page.overtaken
        BY <2>2, <3>6, <1>1 DEF Page
      <4>2. ~page.overtaken => \A j \in Own' : In(j) => j <= k
        BY <1>6, <2>1, <3>1, <3>2, <3>4, <3>6
      <4>3. k \in Own'
        BY <1>6, <2>1
      <4>4. \/ page'.data = sent'[k].of
            \/ sent'[k].reply = "failed" /\ (page.tab = "stocks" => page'.error)
        BY <1>3, <1>4, <2>2
      <4> QED
        BY <2>2, <3>1, <4>1, <4>2, <4>3, <4>4 DEF ShownInv, ResultIn, In
    <3> QED
      BY <3>5, <3>6
  <2> QED
    BY <2>3, <2>4, <2>5, <2>6, <2>7 DEF PagesInv
<1> QED
  BY <1>8, <1>9

LEMMA AnswersKeep ==
  ASSUME PagesInv, NEW k, Succeeds(k) \/ Fails(k)
  PROVE  PagesInv'
<1>1. PICK ok \in BOOLEAN : k \in DOMAIN sent /\ (ok => Available(k)) /\ Answered(k, ok)
  BY DEF Succeeds, Fails
<1>2. sent[k].reply = "pending" /\ UNCHANGED <<route, datasets>>
  BY <1>1 DEF Answered
<1>3. CASE sent[k].kind = "list"
  BY <1>1, <1>2, <1>3, ListKeeps DEF Answered
<1>4. CASE sent[k].kind # "list"
  BY <1>1, <1>2, <1>4, ResultKeeps DEF Answered
<1> QED
  BY <1>3, <1>4

-----------------------------------------------------------------------------
(* The browser's addresses, and the database                               *)

LEMMA Pushed ==
  ASSUME PagesInv, NEW tab \in Tabs, Push(tab)
  PROVE  history' \in Seq(Tabs) /\ address' \in 1..Len(history')
<1>1. history \in Seq(Tabs) /\ address \in 1..Len(history)
  BY DEF PagesInv, TerminalTypeOK
<1>2. SubSeq(history, 1, address) \in Seq(Tabs) /\ Len(SubSeq(history, 1, address)) = address
  BY <1>1
<1> QED
  BY <1>1, <1>2 DEF Push

LEMMA RouteKeeps ==
  ASSUME PagesInv,
         \/ \E tab \in Tabs : NavigateTo(tab)
         \/ \E to \in {address - 1, address + 1} : PopState(to)
         \/ \E setup \in Opportunities : BacktestSetup(setup)
         \/ ViewInTerminal
  PROVE  PagesInv'
<1>1. /\ history \in Seq(Tabs) /\ handed \in Setup
      /\ launched \in Known \cup {None}
  BY DEF PagesInv, TerminalTypeOK, LaunchInv
<1>2. ASSUME NEW tab \in Tabs, NavigateTo(tab) PROVE PagesInv'
  <2>1. Push(tab) /\ Open(tab, launched, handed) /\ UNCHANGED <<launched, handed, datasets>>
    BY <1>2 DEF NavigateTo
  <2>2. history' \in Seq(Tabs) /\ address' \in 1..Len(history')
    BY <2>1, Pushed
  <2>3. launched' = launched /\ handed' \in Setup /\ UNCHANGED datasets
    BY <1>1, <2>1
  <2> QED
    BY <1>1, <2>1, <2>2, <2>3, OpenKeeps
<1>3. ASSUME NEW to, PopState(to) PROVE PagesInv'
  <2>1. /\ to \in DOMAIN history /\ address' = to /\ Open(history[to], launched, handed)
        /\ UNCHANGED <<launched, handed, history, datasets>>
    BY <1>3 DEF PopState
  <2>2. history[to] \in Tabs /\ to \in 1..Len(history)
    BY <1>1, <2>1
  <2>3. history' \in Seq(Tabs) /\ address' \in 1..Len(history')
    BY <1>1, <2>1, <2>2
  <2>4. launched' = launched /\ handed' \in Setup /\ UNCHANGED datasets
    BY <1>1, <2>1
  <2> QED
    BY <1>1, <2>1, <2>2, <2>3, <2>4, OpenKeeps
<1>4. ASSUME NEW setup \in Opportunities, BacktestSetup(setup) PROVE PagesInv'
  <2>1. /\ handed' = setup /\ Push("backtest") /\ Open("backtest", launched, setup)
        /\ UNCHANGED <<launched, datasets>>
    BY <1>4 DEF BacktestSetup
  <2>2. "backtest" \in Tabs /\ setup \in Setup
    BY SubjectsTyped DEF Tabs
  <2>3. history' \in Seq(Tabs) /\ address' \in 1..Len(history')
    BY <2>1, <2>2, Pushed
  <2>4. launched' = launched /\ handed' \in Setup /\ UNCHANGED datasets
    BY <2>1, <2>2
  <2> QED
    BY <1>1, <2>1, <2>2, <2>3, <2>4, OpenKeeps
<1>5. CASE ViewInTerminal
  <2>1. /\ launched' = page.data /\ Push("stocks") /\ Open("stocks", page.data, handed)
        /\ UNCHANGED <<handed, datasets>> /\ page.tab = "data-lab"
    BY <1>5 DEF ViewInTerminal
  <2>2. "stocks" \in Tabs /\ page.data \in Known \cup {None}
    BY <2>1 DEF Tabs, PagesInv, LaunchInv
  <2>3. history' \in Seq(Tabs) /\ address' \in 1..Len(history')
    BY <2>1, <2>2, Pushed
  <2>4. handed' \in Setup /\ UNCHANGED datasets
    BY <1>1, <2>1
  <2> QED
    BY <1>1, <2>1, <2>2, <2>3, <2>4, OpenKeeps
<1> QED
  BY <1>2, <1>3, <1>4, <1>5

\* The datasets change while the pages do not.
LEMMA DatasetsKeep ==
  ASSUME PagesInv, stored' \in Seq(Datasets), deleted' \in SUBSET Datasets,
         Known \subseteq Known', UNCHANGED <<page, route, sent>>
  PROVE  PagesInv'
<1>1. sent \in Seq(Requested)
  BY DEF PagesInv, TerminalTypeOK
<1>2. Own' = Own /\ sent' = sent /\ \A k \in Own : sent'[k] = sent[k]
  BY DEF Own, route
<1>3. \A k \in DOMAIN sent' : /\ sent'[k].visit <= visit
                              /\ sent'[k].kind = "upload" => sent'[k].of = k
  BY <1>2 DEF PagesInv, RequestsInv
<1>4. UNCHANGED <<page, visit, launched, handed, history, address>>
  BY DEF route
<1> QED
  BY <1>1, <1>2, <1>3, <1>4, PageKept

\* A dataset is stored, by an upload of the page or of somebody else.
LEMMA StoreKeeps ==
  ASSUME PagesInv, NEW d \in Datasets, stored' = <<d>> \o stored,
         UNCHANGED <<page, route, sent, deleted>>
  PROVE  PagesInv'
<1>1. stored \in Seq(Datasets) /\ deleted' \in SUBSET Datasets
  BY DEF PagesInv, TerminalTypeOK
<1>2. stored' \in Seq(Datasets) /\ \A i \in DOMAIN stored : /\ i + 1 \in DOMAIN stored'
                                                            /\ stored'[i + 1] = stored[i]
  BY <1>1
<1>3. Stored \subseteq Stored'
  BY <1>2 DEF Stored
<1> QED
  BY <1>1, <1>2, <1>3, DatasetsKeep DEF Known

\* Without one of its elements, a sequence has the others.
LEMMA Removed ==
  ASSUME NEW S, NEW s \in Seq(S), NEW i \in DOMAIN s
  PROVE  /\ RemoveAt(s, i) \in Seq(S)
         /\ \A j \in DOMAIN s : j # i =>
              \E l \in DOMAIN RemoveAt(s, i) : RemoveAt(s, i)[l] = s[j]
<1> DEFINE before == SubSeq(s, 1, i - 1)
           after == SubSeq(s, i + 1, Len(s))
<1>1. i \in 1..Len(s) /\ DOMAIN s = 1..Len(s) /\ Len(s) \in Nat
  OBVIOUS
<1>2. /\ before \in Seq(S) /\ Len(before) = i - 1
      /\ \A l \in 1..(i - 1) : before[l] = s[l]
  BY <1>1
<1>3. after \in Seq(S) /\ Len(after) = Len(s) - i
  BY <1>1
<1>4. \A l \in 1..(Len(s) - i) : after[l] = s[(i + 1) + l - 1]
  BY <1>1
<1>5. RemoveAt(s, i) = before \o after
  BY DEF RemoveAt
<1> HIDE DEF before, after
<1>6. /\ RemoveAt(s, i) \in Seq(S) /\ Len(RemoveAt(s, i)) = Len(s) - 1
      /\ \A l \in 1..(i - 1) : RemoveAt(s, i)[l] = before[l]
      /\ \A l \in 1..(Len(s) - i) : RemoveAt(s, i)[(i - 1) + l] = after[l]
  <2>1. (i - 1) + (Len(s) - i) = Len(s) - 1
    BY <1>1
  <2>2. /\ before \o after \in Seq(S) /\ Len(before \o after) = (i - 1) + (Len(s) - i)
        /\ \A l \in 1..(i - 1) : (before \o after)[l] = before[l]
        /\ \A l \in 1..(Len(s) - i) : (before \o after)[(i - 1) + l] = after[l]
    <3>1. /\ before \o after \in Seq(S) /\ Len(before \o after) = Len(before) + Len(after)
          /\ \A l \in 1..Len(before) : (before \o after)[l] = before[l]
          /\ \A l \in 1..Len(after) : (before \o after)[Len(before) + l] = after[l]
      <4>1. before \in Seq(S) /\ after \in Seq(S)
        BY <1>2, <1>3
      <4> QED
        BY <4>1
    <3>2. Len(before) = i - 1 /\ Len(after) = Len(s) - i
      BY <1>2, <1>3
    <3> QED
      BY <3>1, <3>2, Zenon
  <2> QED
    BY <1>5, <2>1, <2>2, Zenon
<1>7. DOMAIN RemoveAt(s, i) = 1..(Len(s) - 1)
  BY <1>6
<1>8. ASSUME NEW j \in DOMAIN s, j # i
      PROVE  \E l \in DOMAIN RemoveAt(s, i) : RemoveAt(s, i)[l] = s[j]
  <2>1. CASE j < i
    <3>1. j \in 1..(i - 1) /\ j \in 1..(Len(s) - 1)
      BY <1>1, <2>1
    <3> QED
      BY <1>2, <1>6, <1>7, <3>1
  <2>2. CASE j > i
    <3>1. /\ j - i \in 1..(Len(s) - i) /\ (i - 1) + (j - i) \in 1..(Len(s) - 1)
          /\ (i + 1) + (j - i) - 1 = j
      BY <1>1, <2>2
    <3>2. RemoveAt(s, i)[(i - 1) + (j - i)] = after[j - i]
      BY <1>6, <3>1
    <3>3. after[j - i] = s[(i + 1) + (j - i) - 1]
      BY <1>4, <3>1
    <3>4. after[j - i] = s[j]
      BY <3>1, <3>3
    <3> QED
      BY <1>7, <3>1, <3>2, <3>4
  <2> QED
    BY <1>1, <1>8, <2>1, <2>2
<1> QED
  BY <1>6, <1>8

\* A dataset is deleted: it is known still, and so are the others.
LEMMA DeletionKeeps ==
  ASSUME PagesInv, NEW i \in DOMAIN stored, DeleteElsewhere(i)
  PROVE  PagesInv'
<1>1. stored \in Seq(Datasets) /\ deleted \in SUBSET Datasets
  BY DEF PagesInv, TerminalTypeOK
<1>2. /\ stored' = RemoveAt(stored, i) /\ deleted' = deleted \cup {stored[i]}
      /\ UNCHANGED <<page, route, sent>>
  BY DEF DeleteElsewhere
<1>3. stored' \in Seq(Datasets) /\ deleted' \in SUBSET Datasets
  BY <1>1, <1>2, Removed
<1>4. \A j \in DOMAIN stored : j # i => \E l \in DOMAIN stored' : stored'[l] = stored[j]
  BY <1>1, <1>2, Removed
<1>5. \A j \in DOMAIN stored : stored[j] \in Known'
  BY <1>2, <1>4 DEF Known, Stored
<1>6. Known \subseteq Known'
  BY <1>2, <1>5 DEF Known, Stored
<1> QED
  BY <1>2, <1>3, <1>6, DatasetsKeep

\* The rows of an upload are browsed, or an engine works.
LEMMA NothingMoves ==
  ASSUME PagesInv, UNCHANGED <<page, route, sent, datasets>>
  PROVE  PagesInv'
<1>1. stored' \in Seq(Datasets) /\ deleted' \in SUBSET Datasets
  BY DEF PagesInv, TerminalTypeOK
<1>2. Known \subseteq Known'
  BY DEF Known, Stored
<1> QED
  BY <1>1, <1>2, DatasetsKeep

LEMMA PagesStep == PagesInv /\ [Next]_vars => PagesInv'
<1> SUFFICES ASSUME PagesInv, [Next]_vars PROVE PagesInv'
  OBVIOUS
<1>1. CASE UNCHANGED vars
  BY <1>1, NothingMoves DEF vars, terminal
<1>2. CASE User
  <2>1. CASE BrowseRows
    BY <2>1, NothingMoves DEF BrowseRows
  <2> QED
    BY <1>2, <2>1, RouteKeeps, StocksKeep, BacktestKeeps, UploadKeeps, ImportKeeps DEF User
<1>3. ASSUME NEW k \in Calls, Succeeds(k) \/ Fails(k)
      PROVE  PagesInv'
  BY <1>3, AnswersKeep
<1>4. ASSUME NEW k \in Calls, AnalyzeDataset(k) \/ (EngineStep(k) /\ UNCHANGED terminal)
      PROVE  PagesInv'
  BY <1>4, NothingMoves DEF AnalyzeDataset, terminal
<1>5. ASSUME NEW k \in Calls, StoreUpload(k)
      PROVE  PagesInv'
  BY <1>5, SubjectsTyped, StoreKeeps DEF StoreUpload
<1>6. ASSUME NEW d \in Others, UploadElsewhere(d)
      PROVE  PagesInv'
  BY <1>6, SubjectsTyped, StoreKeeps DEF UploadElsewhere
<1>7. ASSUME NEW i \in DOMAIN stored, DeleteElsewhere(i)
      PROVE  PagesInv'
  BY <1>7, DeletionKeeps
<1> QED
  BY <1>1, <1>2, <1>3, <1>4, <1>5, <1>6, <1>7 DEF Next

-----------------------------------------------------------------------------
(* Theorems                                                                *)

\* The inductive invariant of the pages holds however they are used and however
\* late, and in whatever order, their requests are answered.
THEOREM PagesCorrect == Spec => []PagesInv
BY PagesInit, PagesStep, PTL DEF Spec

\* Once all its answers have come, and in the order of the requests, a page of
\* figures shows those of what its heading says, or its last request failed and
\* the market page says so: for any number of pages opened and left, of requests
\* and of changes of mind.
THEOREM FiguresRight == Spec => []FiguresMatchHeading
<1>1. PagesInv => FiguresMatchHeading
  <2> SUFFICES ASSUME PagesInv, Quiet, ~page.overtaken, page.tab \in {"stocks", "backtest"}
               PROVE  \/ page.data = page.selected
                      \/ /\ sent[page.latest].reply = "failed"
                         /\ page.tab = "stocks" => page.error
    BY DEF FiguresMatchHeading
  <2>1. page.latest \in Nat /\ Own \subseteq Nat \ {0}
    BY DEF PagesInv, TerminalTypeOK, Page, Own
  <2>2. LastAsked
    BY DEF PagesInv, AskedInv, ListPending, Quiet, Own
  <2>3. PICK k \in Own : /\ \A j \in Own : j <= k
                         /\ sent[k].kind # "list" /\ sent[k].of = page.selected
    BY <2>2 DEF LastAsked
  <2>4. ResultIn(k)
    BY <2>3 DEF ResultIn, Quiet, Own
  <2>5. k <= page.latest
    BY <2>3, <2>4 DEF PagesInv, ShownInv
  <2>6. page.latest # 0
    BY <2>1, <2>3, <2>5
  <2>7. page.latest \in Own
    BY <2>6 DEF PagesInv, ShownInv
  <2>8. page.latest = k
    BY <2>1, <2>3, <2>5, <2>7
  <2>9. ~\E j \in Own : j > page.latest
    BY <2>1, <2>3, <2>8
  <2> QED
    BY <2>3, <2>6, <2>8, <2>9 DEF PagesInv, ShownInv
<1> QED
  BY <1>1, PagesCorrect, PTL

\* Only an answer changes a request, and only from "pending".
LEMMA ListOnlyAnswered ==
  ASSUME PagesInv, [Next]_vars, NEW k \in DOMAIN sent,
         sent[k].reply = "pending", sent'[k].reply = "ok"
  PROVE  \E ok \in BOOLEAN : Answered(k, ok) /\ ok
<1>1. sent \in Seq(Requested)
  BY DEF PagesInv, TerminalTypeOK
<1>2. ASSUME sent' = sent PROVE FALSE
  BY <1>2
<1>3. ASSUME NEW r, sent' = Append(sent, r) PROVE FALSE
  BY <1>1, <1>3
<1>4. ASSUME NEW kind, NEW v, NEW of, Send(kind, v, of) PROVE FALSE
  BY <1>3, <1>4 DEF Send
<1>5. ASSUME NEW tab, NEW dataset, NEW setup, Open(tab, dataset, setup) PROVE FALSE
  <2>1. sent' = sent \o FirstRequests(tab, visit', dataset, setup)
    BY <1>5 DEF Open
  <2>2. \/ FirstRequests(tab, visit', dataset, setup) = <<>>
        \/ \E r : FirstRequests(tab, visit', dataset, setup) = <<r>>
    BY DEF FirstRequests
  <2>3. sent'[k] = sent[k]
    BY <1>1, <2>1, <2>2
  <2> QED
    BY <2>3
<1>6. CASE User
  BY <1>2, <1>4, <1>5, <1>6
  DEF User, NavigateTo, PopState, BacktestSetup, SelectDataset, Refresh, LoadSample, Load,
      RunAgain, SelectStrategy, SelectSymbol, RunBacktest, Upload, ImportAnother,
      ViewInTerminal, BrowseRows
<1>7. ASSUME NEW j \in Calls, Succeeds(j) \/ Fails(j)
      PROVE  \E ok \in BOOLEAN : Answered(k, ok) /\ ok
  <2>1. PICK ok \in BOOLEAN : j \in DOMAIN sent /\ Answered(j, ok)
    BY <1>7 DEF Succeeds, Fails
  <2> DEFINE reply == IF ok THEN "ok" ELSE "failed"
  <2>2. \/ sent' = Replied(j, reply)
        \/ \E r : sent' = Append(Replied(j, reply), r)
    BY <2>1 DEF Answered, ListAnswered, ResultAnswered
  <2>3. /\ Replied(j, reply) \in Seq(Requested) /\ DOMAIN Replied(j, reply) = DOMAIN sent
        /\ j # k => Replied(j, reply)[k] = sent[k]
        /\ Replied(j, reply)[j].reply = reply
    BY <2>1, RepliedTyped
  <2> HIDE DEF reply
  <2>4. sent'[k] = Replied(j, reply)[k]
    BY <2>2, <2>3
  <2>5. j = k /\ reply = "ok"
    BY <2>3, <2>4
  <2> QED
    BY <2>1, <2>5 DEF reply
<1>8. ASSUME NEW j \in Calls, \/ AnalyzeDataset(j) \/ StoreUpload(j)
                              \/ EngineStep(j) /\ UNCHANGED terminal
      PROVE  FALSE
  BY <1>2, <1>8 DEF AnalyzeDataset, StoreUpload, terminal
<1>9. ASSUME NEW d, UploadElsewhere(d) \/ DeleteElsewhere(d)
      PROVE  FALSE
  BY <1>2, <1>9 DEF UploadElsewhere, DeleteElsewhere
<1>10. ~UNCHANGED vars
  BY <1>2 DEF vars, terminal
<1> QED
  BY <1>6, <1>7, <1>8, <1>9, <1>10 DEF Next

\* "View in Terminal" opens the dataset it was pressed on, however late the list
\* comes and whatever is stored meanwhile, unless this dataset was deleted, and
\* then one that was not.
THEOREM LaunchedOpens == Spec => OpensLaunched
<1> DEFINE Begins ==
             /\ launched \notin deleted \cup {None} => page'.selected = launched
             /\ page'.selected \in (IF page'.listed = {} THEN {Sample} ELSE page'.listed)
<1>1. PagesInv /\ [Next]_vars => [ListComes => Begins]_vars
  <2> SUFFICES ASSUME PagesInv, [Next]_vars, ListComes PROVE Begins
    OBVIOUS
  <2>1. PICK k \in DOMAIN sent : /\ sent[k].visit = visit /\ sent[k].kind = "list"
                                 /\ sent[k].reply = "pending" /\ sent'[k].reply = "ok"
    BY DEF ListComes
  <2>2. ListAnswered(k, TRUE)
    <3>1. PICK ok \in BOOLEAN : Answered(k, ok) /\ ok
      BY <2>1, ListOnlyAnswered
    <3> QED
      BY <2>1, <3>1 DEF Answered
  <2>3. page \in Page
    BY DEF PagesInv, TerminalTypeOK
  <2>4. page' = Waiting([page EXCEPT !.selected = FirstDataset(sent[k].of, TRUE),
                                     !.listed = Stored])
    BY <2>1, <2>2 DEF ListAnswered
  <2>5. page'.selected = FirstDataset(sent[k].of, TRUE) /\ page'.listed = Stored
    BY <2>3, <2>4 DEF Waiting, Page
  <2>6. sent[k].of = launched /\ launched \in Known \cup {None}
    <3>1. k \in Own
      BY <2>1 DEF Own
    <3>2. page.tab = "stocks"
      BY <2>1, <3>1 DEF PagesInv, RequestsInv, KindsOf
    <3> QED
      BY <2>1, <3>1, <3>2 DEF PagesInv, LaunchInv
  <2> QED
    BY <2>5, <2>6, FirstDatasetTyped DEF Known
<1> QED
  BY <1>1, PagesCorrect, PTL DEF Spec, OpensLaunched

-----------------------------------------------------------------------------
(* The table of an upload.  The order of a column is total on the matches  *)
(* of a search, so that each match has a place of its own and every place  *)
(* is taken; a page shows the places that belong to it.                    *)

\* The states of the table.
View == [size : Sizes \cup {AllRows}, page : Nat \ {0}, term : Terms \cup {NoTerm},
         field : Fields, ascending : BOOLEAN]

\* The matches of a search are finitely many rows, each with a rank.
LEMMA MatchesTyped ==
  ASSUME NEW v \in View
  PROVE  /\ IsFiniteSet(Matches(v)) /\ Matches(v) \subseteq Nat
         /\ \A i \in Matches(v) : RankOf(v, i) \in Nat
         /\ Count(v) \in Nat /\ (Count(v) = 0 <=> Matches(v) = {})
<1> DEFINE Row == [found : SUBSET Terms, rank : [Fields -> Nat]]
<1>1. Rows \in Seq(Row)
  BY PreviewAssumption
<1> HIDE DEF Row
<1>2. DOMAIN Rows = 1..Len(Rows) /\ Len(Rows) \in Nat
  BY <1>1
<1>3. \A i \in DOMAIN Rows : Rows[i] \in Row
  BY <1>1
<1>4. IsFiniteSet(1..Len(Rows))
  BY <1>2, FS_Interval
<1>5. Matches(v) \subseteq 1..Len(Rows)
  BY <1>2 DEF Matches
<1>6. IsFiniteSet(Matches(v))
  BY <1>4, <1>5, FS_Subset
<1>7. \A i \in Matches(v) : RankOf(v, i) \in Nat
  BY <1>3 DEF Matches, RankOf, View, Row
<1>8. Count(v) \in Nat /\ (Count(v) = 0 <=> Matches(v) = {})
  BY <1>6, FS_CardinalityType, FS_EmptySet DEF Count
<1> QED
  BY <1>2, <1>5, <1>6, <1>7, <1>8

\* The order of a column, and of the rows where it says nothing, is total.
LEMMA BeforeTotal ==
  ASSUME NEW v \in View
  PROVE  \A i, j \in Matches(v) :
           /\ ~Before(v, i, i)
           /\ i = j \/ Before(v, i, j) \/ Before(v, j, i)
           /\ \A k \in Matches(v) : Before(v, i, j) /\ Before(v, j, k) => Before(v, i, k)
<1>1. v.ascending \in BOOLEAN
  BY DEF View
<1> QED
  BY <1>1, MatchesTyped DEF Before

\* The rows that come before a row, and its place among the matches.
Earlier(v, i) == {j \in Matches(v) : Before(v, j, i)}

PlaceOf(v, i) == Cardinality(Earlier(v, i)) + 1

LEMMA Places ==
  ASSUME NEW v \in View
  PROVE  /\ \A i \in Matches(v) : PlaceOf(v, i) \in 1..Count(v)
         /\ \A i, j \in Matches(v) : Before(v, i, j) => PlaceOf(v, i) < PlaceOf(v, j)
<1>1. \A i \in Matches(v) : IsFiniteSet(Earlier(v, i)) /\ Cardinality(Earlier(v, i)) \in Nat
  BY MatchesTyped, FS_Subset, FS_CardinalityType DEF Earlier
<1>2. ASSUME NEW i \in Matches(v)
      PROVE  Cardinality(Earlier(v, i)) < Count(v)
  <2>1. Earlier(v, i) \subseteq Matches(v) /\ i \notin Earlier(v, i)
    BY BeforeTotal DEF Earlier
  <2>2. Cardinality(Earlier(v, i)) <= Count(v) /\ Cardinality(Earlier(v, i)) # Count(v)
    BY <2>1, MatchesTyped, FS_Subset DEF Count
  <2> QED
    BY <1>1, <2>2, MatchesTyped
<1>3. ASSUME NEW i \in Matches(v), NEW j \in Matches(v), Before(v, i, j)
      PROVE  Cardinality(Earlier(v, i)) < Cardinality(Earlier(v, j))
  <2>1. Earlier(v, i) \subseteq Earlier(v, j) /\ i \in Earlier(v, j) /\ i \notin Earlier(v, i)
    BY <1>3, BeforeTotal DEF Earlier
  <2>2. /\ Cardinality(Earlier(v, i)) <= Cardinality(Earlier(v, j))
        /\ Cardinality(Earlier(v, i)) # Cardinality(Earlier(v, j))
    BY <1>1, <2>1, FS_Subset
  <2> QED
    BY <1>1, <2>2
<1> QED
  BY <1>1, <1>2, <1>3, MatchesTyped DEF PlaceOf

\* Every place is some row's: rows of different places are as many as places.
LEMMA PlacesTaken ==
  ASSUME NEW v \in View, NEW k \in 1..Count(v)
  PROVE  \E i \in Matches(v) : PlaceOf(v, i) = k
<1> DEFINE place == [i \in Matches(v) |-> PlaceOf(v, i)]
<1>1. IsFiniteSet(1..Count(v)) /\ Cardinality(1..Count(v)) = Count(v)
  BY MatchesTyped, FS_Interval
<1>2. place \in Injection(Matches(v), 1..Count(v))
  <2>1. place \in [Matches(v) -> 1..Count(v)]
    BY Places
  <2>2. \A i, j \in Matches(v) : place[i] = place[j] => i = j
    BY Places, BeforeTotal, MatchesTyped
  <2> QED
    BY <2>1, <2>2 DEF Injection, IsInjective
<1>3. place \in Surjection(Matches(v), 1..Count(v))
  BY <1>1, <1>2, FS_Injection DEF Count
<1> QED
  BY <1>3 DEF Surjection

\* The sorted table holds every match once, each after those before it.
LEMMA SortedInOrder ==
  ASSUME NEW v \in View
  PROVE  /\ Sorted(v) \in [1..Count(v) -> Matches(v)]
         /\ Matches(v) = {Sorted(v)[k] : k \in 1..Count(v)}
         /\ \A k, l \in 1..Count(v) : k < l => Before(v, Sorted(v)[k], Sorted(v)[l])
<1>1. Sorted(v) = [k \in 1..Count(v) |-> CHOOSE i \in Matches(v) : PlaceOf(v, i) = k]
  BY DEF Sorted, Count, PlaceOf, Earlier
<1>2. \A k \in 1..Count(v) : Sorted(v)[k] \in Matches(v) /\ PlaceOf(v, Sorted(v)[k]) = k
  BY <1>1, PlacesTaken
<1>3. \A i, j \in Matches(v) : PlaceOf(v, i) = PlaceOf(v, j) => i = j
  BY Places, BeforeTotal, MatchesTyped
<1>4. \A i \in Matches(v) : Sorted(v)[PlaceOf(v, i)] = i
  BY <1>2, <1>3, Places
<1>5. Matches(v) = {Sorted(v)[k] : k \in 1..Count(v)}
  BY <1>2, <1>4, Places
<1>6. ASSUME NEW k \in 1..Count(v), NEW l \in 1..Count(v), k < l
      PROVE  Before(v, Sorted(v)[k], Sorted(v)[l])
  BY <1>2, <1>6, BeforeTotal, Places, MatchesTyped
<1> QED
  BY <1>1, <1>2, <1>5, <1>6

-----------------------------------------------------------------------------

\* The greater and the lesser of two numbers.
LEMMA MaxOfTwo ==
  ASSUME NEW a \in Int, NEW b \in Int
  PROVE  Max({a, b}) = IF a >= b THEN a ELSE b
BY DEF Max

LEMMA MinOfTwo ==
  ASSUME NEW a \in Int, NEW b \in Int
  PROVE  Min({a, b}) = IF a <= b THEN a ELSE b
BY DEF Min

\* n rows on pages of s rows, n of them or none: the last row is on the page
\* that ceil(n / s) says, and not before.
LEMMA PagesNeeded ==
  ASSUME NEW n \in Nat, NEW s \in Nat \ {0}
  PROVE  LET pages == (n + s - 1) \div s
         IN /\ pages \in Nat /\ pages * s >= n
            /\ n > 0 => pages > 0 /\ (pages - 1) * s < n
<1>1. (n + s - 1) \div s \in Nat
  OBVIOUS
<1>2. ((n + s - 1) \div s) * s >= n
  OBVIOUS
<1>3. ASSUME n > 0
      PROVE  ((n + s - 1) \div s) > 0 /\ (((n + s - 1) \div s) - 1) * s < n
  BY <1>1, <1>2, <1>3
<1> QED
  BY <1>1, <1>2, <1>3

\* The pages there are, as numbers.
LEMMA TotalPagesTyped ==
  ASSUME NEW v \in View
  PROVE  /\ PageSize(v) \in Nat \ {0} /\ TotalPages(v) \in Nat \ {0}
         /\ TotalPages(v) * PageSize(v) >= Count(v)
         /\ Count(v) > 0 => (TotalPages(v) - 1) * PageSize(v) < Count(v)
<1>1. v.size \in Nat \ {0} \/ v.size = AllRows
  BY PreviewAssumption DEF View
<1>2. Count(v) \in Nat
  BY MatchesTyped
<1>3. PageSize(v) \in Nat \ {0}
  BY <1>1, <1>2, MaxOfTwo DEF PageSize
<1> DEFINE pages == (Count(v) + PageSize(v) - 1) \div PageSize(v)
<1>4. /\ pages \in Nat /\ pages * PageSize(v) >= Count(v)
      /\ Count(v) > 0 => pages > 0 /\ (pages - 1) * PageSize(v) < Count(v)
  BY <1>2, <1>3, PagesNeeded
<1>5. TotalPages(v) = Max({1, pages})
  BY DEF TotalPages
<1> HIDE DEF pages
<1>6. TotalPages(v) = IF 1 >= pages THEN 1 ELSE pages
  BY <1>4, <1>5, MaxOfTwo
<1>7. CASE pages = 0
  <2>1. Count(v) = 0
    BY <1>2, <1>3, <1>4, <1>7
  <2> QED
    BY <1>3, <1>6, <1>7, <2>1
<1>8. CASE pages > 0
  <2>1. TotalPages(v) = pages
    BY <1>4, <1>6, <1>8
  <2> QED
    BY <1>3, <1>4, <1>8, <2>1
<1> QED
  BY <1>4, <1>7, <1>8

\* What a page shows: a part of the sorted table that no other page shows and
\* that is not empty, unless the table is.
LEMMA PageShows ==
  ASSUME NEW v \in View, NEW p \in 1..TotalPages(v)
  PROVE  LET w == [v EXCEPT !.page = p]
             first == (p - 1) * PageSize(v)
             last == IF p * PageSize(v) <= Count(v) THEN p * PageSize(v) ELSE Count(v)
         IN /\ first \in Nat /\ last \in Nat /\ last <= Count(v)
            /\ Count(v) > 0 => first < last
            /\ Count(v) = 0 => first = 0
            /\ SafePage(w) = p /\ EndRow(w) = last
            /\ StartRow(w) = IF Count(v) = 0 THEN 0 ELSE first + 1
            /\ PageRows(w) = [i \in 1..(last - first) |-> Sorted(v)[first + i]]
<1> DEFINE w == [v EXCEPT !.page = p]
           first == (p - 1) * PageSize(v)
           last == IF p * PageSize(v) <= Count(v) THEN p * PageSize(v) ELSE Count(v)
<1>1. /\ w \in View /\ w.page = p
      /\ w.size = v.size /\ w.term = v.term /\ w.field = v.field /\ w.ascending = v.ascending
  BY TotalPagesTyped DEF View
<1> HIDE DEF w
<1>2. Matches(w) = Matches(v) /\ Count(w) = Count(v)
  BY <1>1 DEF Matches, Count
<1>3. PageSize(w) = PageSize(v) /\ TotalPages(w) = TotalPages(v)
  BY <1>1, <1>2 DEF PageSize, TotalPages
<1>4. Sorted(w) = Sorted(v)
  BY <1>1, <1>2 DEF Sorted, Before, RankOf
<1>5. p \in Nat \ {0} /\ TotalPages(v) \in Nat \ {0} /\ PageSize(v) \in Nat \ {0}
      /\ Count(v) \in Nat /\ p <= TotalPages(v)
  BY TotalPagesTyped, MatchesTyped
<1>6. SafePage(w) = p
  BY <1>1, <1>3, <1>5, MinOfTwo DEF SafePage
<1>7. p * PageSize(v) \in Nat /\ first \in Nat /\ p * PageSize(v) = first + PageSize(v)
  BY <1>5
<1>8. EndRow(w) = last
  BY <1>2, <1>3, <1>5, <1>6, <1>7, MinOfTwo DEF EndRow
<1>9. StartRow(w) = IF Count(v) = 0 THEN 0 ELSE first + 1
  BY <1>2, <1>3, <1>6 DEF StartRow
<1>10. first <= (TotalPages(v) - 1) * PageSize(v)
  BY <1>5
<1>11. Count(v) > 0 => first < last
  BY <1>5, <1>7, <1>10, TotalPagesTyped
<1>12. Count(v) = 0 => first = 0
  <2> SUFFICES ASSUME Count(v) = 0 PROVE p = 1
    BY <1>5
  <2>1. PageSize(v) \in Nat \ {0} /\ (Count(v) + PageSize(v) - 1) \div PageSize(v) = 0
    BY <1>5
  <2>2. TotalPages(v) = 1
    BY <2>1, MaxOfTwo DEF TotalPages
  <2> QED
    BY <1>5, <2>2
<1>13. PageRows(w) = [i \in 1..(last - first) |-> Sorted(v)[first + i]]
  <2>1. PageRows(w) = SubSeq(Sorted(v), first + 1, last)
    BY <1>3, <1>4, <1>6, <1>8 DEF PageRows
  <2>2. last \in Nat
    BY <1>5, <1>7
  <2> HIDE DEF first, last
  <2> QED
    BY <1>7, <2>1, <2>2
<1> QED
  BY <1>5, <1>6, <1>7, <1>8, <1>9, <1>11, <1>12, <1>13 DEF w

\* The table at page p of a view: it exists, and it is what a button leads to.
ViewOK(v) == v \in View /\ v.page \in 1..TotalPages(v)

\* A view of an existing page covers the matches.
LEMMA PagesCover ==
  ASSUME view # Closed => ViewOK(view)
  PROVE  PagesCoverMatches
<1> SUFFICES ASSUME view # Closed, view \in View, view.page \in 1..TotalPages(view)
             PROVE  PagesCoverMatches
  BY DEF ViewOK, PagesCoverMatches
<1> DEFINE n == Count(view)
           s == PageSize(view)
           T == TotalPages(view)
           sorted == Sorted(view)
           first(p) == (p - 1) * s
           last(p) == IF p * s <= n THEN p * s ELSE n
<1>1. n \in Nat /\ s \in Nat \ {0} /\ T \in Nat \ {0} /\ T * s >= n
  BY MatchesTyped, TotalPagesTyped
<1>2. ASSUME NEW p \in 1..T
      PROVE  /\ first(p) \in Nat /\ last(p) \in Nat /\ last(p) <= n
             /\ n > 0 => first(p) < last(p)
             /\ n = 0 => first(p) = 0
             /\ OnPage(p) = [i \in 1..(last(p) - first(p)) |-> sorted[first(p) + i]]
  BY PageShows DEF OnPage
<1>3. /\ [view EXCEPT !.page = view.page] = view
  BY DEF View
<1>4. /\ SafePage(view) = view.page /\ EndRow(view) = last(view.page)
      /\ StartRow(view) = IF n = 0 THEN 0 ELSE first(view.page) + 1
      /\ PageRows(view) = OnPage(view.page)
  BY <1>3, PageShows DEF OnPage
<1>5. /\ sorted \in [1..n -> Matches(view)]
      /\ Matches(view) = {sorted[k] : k \in 1..n}
      /\ \A k, l \in 1..n : k < l => Before(view, sorted[k], sorted[l])
  BY SortedInOrder
<1>6. n = 0 <=> Matches(view) = {}
  BY MatchesTyped
<1>7. ASSUME NEW p \in 1..T
      PROVE  /\ DOMAIN OnPage(p) = 1..(last(p) - first(p))
             /\ \A k \in DOMAIN OnPage(p) :
                  /\ k \in Nat \ {0} /\ k <= last(p) - first(p)
                  /\ first(p) + k \in 1..n /\ first(p) + k <= p * s
                  /\ OnPage(p)[k] = sorted[first(p) + k]
  <2> DEFINE f == first(p)
             e == last(p)
  <2>1. e <= p * s /\ p * s \in Nat
    BY <1>1
  <2>2. f \in Nat /\ e \in Nat /\ e <= n /\ OnPage(p) = [i \in 1..(e - f) |-> sorted[f + i]]
    BY <1>2
  <2> HIDE DEF f, e, sorted, n, s
  <2> SUFFICES /\ DOMAIN OnPage(p) = 1..(e - f)
               /\ \A k \in DOMAIN OnPage(p) :
                    /\ k \in Nat \ {0} /\ k <= e - f
                    /\ f + k \in 1..n /\ f + k <= p * s
                    /\ OnPage(p)[k] = sorted[f + k]
    BY DEF f, e
  <2>3. DOMAIN OnPage(p) = 1..(e - f) /\ \A k \in 1..(e - f) : OnPage(p)[k] = sorted[f + k]
    BY <2>2
  <2>4. \A k \in 1..(e - f) : /\ k \in Nat \ {0} /\ k <= e - f
                              /\ f + k \in 1..n /\ f + k <= p * s
    BY <1>1, <2>1, <2>2
  <2> QED
    BY <2>3, <2>4
<1>8. Matches(view) = UNION {ToSet(OnPage(p)) : p \in 1..T}
  <2>1. ASSUME NEW k \in 1..n
        PROVE  \E p \in 1..T : sorted[k] \in ToSet(OnPage(p))
    <3> DEFINE p == (k + s - 1) \div s
    <3>1. p \in Nat /\ p * s >= k /\ p > 0 /\ (p - 1) * s < k
      <4>1. k \in Nat /\ k > 0 /\ s \in Nat \ {0}
        BY <1>1
      <4> HIDE DEF s, n
      <4> QED
        BY <4>1, PagesNeeded, Zenon
    <3> HIDE DEF p
    <3>2. p <= T
      <4> SUFFICES ASSUME p > T PROVE FALSE
        BY <1>1, <3>1
      <4>1. (p - 1) * s >= T * s
        BY <1>1, <3>1
      <4> QED
        BY <1>1, <3>1, <4>1
    <3>3. p \in 1..T
      BY <1>1, <3>1, <3>2
    <3>4. k - first(p) \in 1..(last(p) - first(p)) /\ first(p) + (k - first(p)) = k
      BY <1>1, <3>1
    <3>5. OnPage(p)[k - first(p)] = sorted[k] /\ k - first(p) \in DOMAIN OnPage(p)
      <4> HIDE DEF first, last
      <4> QED
        BY <1>2, <1>7, <3>3, <3>4
    <3> QED
      BY <3>3, <3>5 DEF ToSet
  <2>2. ASSUME NEW p \in 1..T, NEW i \in ToSet(OnPage(p))
        PROVE  i \in Matches(view)
    <3>1. PICK k \in DOMAIN OnPage(p) : i = OnPage(p)[k]
      BY DEF ToSet
    <3> QED
      BY <1>5, <1>7, <3>1
  <2> QED
    BY <1>5, <2>1, <2>2
<1>9. ASSUME NEW q \in 1..T, NEW p \in 1..q,
             NEW k \in DOMAIN OnPage(p), NEW l \in DOMAIN OnPage(q), p < q \/ k < l
      PROVE  Before(view, OnPage(p)[k], OnPage(q)[l])
  <2> DEFINE f == first(p)
             g == first(q)
  <2>1. p \in 1..T
    BY <1>1
  <2>2. /\ k \in Nat /\ f + k \in 1..n /\ f + k <= p * s /\ OnPage(p)[k] = sorted[f + k]
    BY <1>7, <2>1
  <2>3. /\ l \in Nat \ {0} /\ g + l \in 1..n /\ OnPage(q)[l] = sorted[g + l]
    BY <1>7
  <2>4. f \in Nat /\ g \in Nat
    BY <1>2, <2>1
  <2>5. p = q => f = g
    OBVIOUS
  <2>6. p < q => p * s <= g
    BY <1>1
  <2>7. p * s \in Nat
    BY <1>1
  <2> HIDE DEF f, g, sorted, n, s, T
  <2>8. f + k \in Int /\ g + l \in Int /\ (p < q \/ p = q)
    BY <1>1, <2>2, <2>3
  <2>9. ASSUME p < q PROVE f + k < g + l
    BY <2>2, <2>3, <2>4, <2>6, <2>7, <2>9
  <2>10. ASSUME p = q PROVE f + k < g + l
    BY <1>9, <2>2, <2>3, <2>4, <2>5, <2>10
  <2> QED
    BY <1>5, <2>2, <2>3, <2>8, <2>9, <2>10
<1>10. /\ Len(PageRows(view)) = (IF StartRow(view) = 0 THEN 0 ELSE EndRow(view) - StartRow(view) + 1)
       /\ Matches(view) # {} => PageRows(view) # <<>>
  <2> DEFINE f == first(view.page)
             e == last(view.page)
  <2>1. /\ f \in Nat /\ e \in Nat /\ e <= n
        /\ n > 0 => f < e
        /\ n = 0 => f = 0
        /\ PageRows(view) = [i \in 1..(e - f) |-> sorted[f + i]]
    BY <1>2, <1>4
  <2>2. EndRow(view) = e /\ StartRow(view) = IF n = 0 THEN 0 ELSE f + 1
    BY <1>4
  <2> HIDE DEF f, e, n, T, sorted
  <2>3. e - f \in Nat
    BY <1>1, <2>1
  <2>4. Len(PageRows(view)) = e - f
    BY <2>1, <2>3
  <2>5. Len(PageRows(view)) = IF StartRow(view) = 0 THEN 0 ELSE EndRow(view) - StartRow(view) + 1
    BY <1>1, <2>1, <2>2, <2>4
  <2>6. PageRows(view) = <<>> => Len(PageRows(view)) = 0
    OBVIOUS
  <2>7. n > 0 => PageRows(view) # <<>>
    BY <1>1, <2>1, <2>4, <2>6
  <2> QED
    BY <1>1, <1>6, <2>5, <2>7
<1> HIDE DEF n, s, sorted, first, last
<1> DEFINE lines == UNION {LinesOf(p) : p \in 1..T}
<1>11. ASSUME NEW line \in lines
       PROVE  \E p \in 1..T : \E k \in DOMAIN OnPage(p) :
                line = [page |-> p, place |-> k, row |-> OnPage(p)[k]]
  BY DEF LinesOf
<1>12. ASSUME NEW p \in 1..T, NEW k \in DOMAIN OnPage(p)
       PROVE  [page |-> p, place |-> k, row |-> OnPage(p)[k]] \in lines
  BY DEF LinesOf
<1> HIDE DEF lines
<1>13. Matches(view) = {line.row : line \in lines}
  <2>1. ASSUME NEW line \in lines
        PROVE  line.row \in Matches(view)
    <3>1. PICK p \in 1..T : \E k \in DOMAIN OnPage(p) :
            line = [page |-> p, place |-> k, row |-> OnPage(p)[k]]
      BY <1>11
    <3>2. line.row \in ToSet(OnPage(p))
      BY <3>1 DEF ToSet
    <3> QED
      BY <1>8, <3>2
  <2>2. ASSUME NEW i \in Matches(view)
        PROVE  \E line \in lines : i = line.row
    <3>1. PICK p \in 1..T : i \in ToSet(OnPage(p))
      BY <1>8
    <3>2. PICK k \in DOMAIN OnPage(p) : i = OnPage(p)[k]
      BY <3>1 DEF ToSet
    <3>3. [page |-> p, place |-> k, row |-> OnPage(p)[k]] \in lines
      BY <1>12
    <3> QED
      BY <3>2, <3>3
  <2> QED
    BY <2>1, <2>2
<1>14. ASSUME NEW line \in lines, NEW other \in lines, Above(line, other)
       PROVE  Before(view, line.row, other.row)
  <2> PICK p \in 1..T : \E k \in DOMAIN OnPage(p) :
         line = [page |-> p, place |-> k, row |-> OnPage(p)[k]]
    BY <1>11
  <2>1. PICK k \in DOMAIN OnPage(p) : line = [page |-> p, place |-> k, row |-> OnPage(p)[k]]
    OBVIOUS
  <2> PICK q \in 1..T : \E l \in DOMAIN OnPage(q) :
         other = [page |-> q, place |-> l, row |-> OnPage(q)[l]]
    BY <1>11
  <2>2. PICK l \in DOMAIN OnPage(q) : other = [page |-> q, place |-> l, row |-> OnPage(q)[l]]
    OBVIOUS
  <2>3. p < q \/ (p = q /\ k < l)
    BY <1>14, <2>1, <2>2 DEF Above
  <2>4. p \in 1..q
    BY <1>1, <2>3
  <2>5. Before(view, OnPage(p)[k], OnPage(q)[l])
    BY <1>9, <2>3, <2>4
  <2> QED
    BY <2>1, <2>2, <2>5
<1> QED
  BY <1>4, <1>10, <1>13, <1>14 DEF PagesCoverMatches, lines

\* The first page of a table exists, however few rows match.
LEMMA FirstPageOK ==
  ASSUME NEW v \in View, v.page = 1
  PROVE  ViewOK(v)
BY TotalPagesTyped DEF ViewOK

ViewInv == view # Closed => ViewOK(view)

\* The controls lead to pages that exist: a search or a size to the first, a
\* column to the same, for it finds as many rows, and a button to a neighbour.
LEMMA BrowseKeeps ==
  ASSUME ViewInv, Browse
  PROVE  ViewInv'
<1> USE DEF ViewInv, View
<1>1. view \in View /\ view.page \in 1..TotalPages(view)
  BY DEF Browse, ViewOK
<1>2. /\ TotalPages(view) \in Nat \ {0} /\ SafePage(view) = view.page
      /\ \A p \in 1..TotalPages(view) :
           ViewOK([view EXCEPT !.page = p])
  <2>1. TotalPages(view) \in Nat \ {0}
    BY <1>1, TotalPagesTyped
  <2>2. SafePage(view) = view.page
    BY <1>1, <2>1, MinOfTwo DEF SafePage
  <2>3. ASSUME NEW p \in 1..TotalPages(view)
        PROVE  ViewOK([view EXCEPT !.page = p])
    <3> DEFINE w == [view EXCEPT !.page = p]
    <3>1. w \in View /\ w.page = p /\ w.size = view.size /\ w.term = view.term
      BY <1>1, <2>1
    <3> HIDE DEF w
    <3>2. TotalPages(w) = TotalPages(view)
      BY <3>1 DEF TotalPages, PageSize, Count, Matches
    <3> QED
      BY <3>1, <3>2 DEF ViewOK, w
  <2> QED
    BY <2>1, <2>2, <2>3
<1>3. ASSUME NEW term \in Terms \cup {NoTerm}, Search(term)
      PROVE  ViewInv'
  <2>1. view' = [size |-> view.size, page |-> 1, term |-> term, field |-> view.field,
                 ascending |-> view.ascending]
    BY <1>1, <1>3 DEF Search
  <2> QED
    BY <1>1, <2>1, FirstPageOK
<1>4. ASSUME NEW size \in Sizes \cup {AllRows}, SetPageSize(size)
      PROVE  ViewInv'
  <2>1. view' = [size |-> size, page |-> 1, term |-> view.term, field |-> view.field,
                 ascending |-> view.ascending]
    BY <1>1, <1>4 DEF SetPageSize
  <2> QED
    BY <1>1, <2>1, FirstPageOK
<1>5. ASSUME NEW field \in Fields, HandleSort(field)
      PROVE  ViewInv'
  <2>1. view' \in View /\ view'.page = view.page /\ view'.size = view.size /\ view'.term = view.term
    BY <1>1, <1>5 DEF HandleSort
  <2>2. TotalPages(view') = TotalPages(view)
    BY <2>1 DEF TotalPages, PageSize, Count, Matches
  <2> QED
    BY <1>1, <2>1, <2>2 DEF ViewOK
<1>6. CASE FirstPage
  BY <1>1, <1>2, <1>6 DEF FirstPage
<1>7. CASE PreviousPage
  <2>1. view.page - 1 \in Int /\ Max({1, view.page - 1}) \in 1..TotalPages(view)
    BY <1>1, <1>2, MaxOfTwo
  <2> QED
    BY <1>1, <1>2, <1>7, <2>1 DEF PreviousPage
<1>8. CASE NextPage
  <2>1. view.page + 1 \in Int /\ Min({TotalPages(view), view.page + 1}) \in 1..TotalPages(view)
    BY <1>1, <1>2, MinOfTwo
  <2> QED
    BY <1>1, <1>2, <1>8, <2>1 DEF NextPage
<1>9. CASE LastPage
  BY <1>1, <1>2, <1>9 DEF LastPage
<1> QED
  BY <1>3, <1>4, <1>5, <1>6, <1>7, <1>8, <1>9 DEF Browse

\* A step that is not one of the table's leaves it, closes it or opens it anew.
LEMMA ViewMoves ==
  ASSUME [Next]_vars
  PROVE  Browse \/ view' = view \/ view' = Closed \/ view' = FirstView
<1> USE DEF terminal, route
<1>1. CASE User
  BY <1>1 DEF User, NavigateTo, PopState, BacktestSetup, SelectDataset, Refresh, LoadSample,
     RunAgain, SelectStrategy, SelectSymbol, RunBacktest, Upload, ImportAnother, ViewInTerminal,
     BrowseRows, Open
<1>2. ASSUME NEW k \in Calls, Succeeds(k) \/ Fails(k)
      PROVE  view' = view \/ view' = FirstView
  BY <1>2 DEF Succeeds, Fails, Answered, ListAnswered, ResultAnswered, ViewAfter
<1>3. ASSUME NEW k \in Calls,
             AnalyzeDataset(k) \/ StoreUpload(k) \/ (EngineStep(k) /\ UNCHANGED terminal)
      PROVE  view' = view
  BY <1>3 DEF AnalyzeDataset, StoreUpload
<1>4. ASSUME NEW d \in Others, UploadElsewhere(d)
      PROVE  view' = view
  BY <1>4 DEF UploadElsewhere
<1>5. ASSUME NEW i, DeleteElsewhere(i)
      PROVE  view' = view
  BY <1>5 DEF DeleteElsewhere
<1>6. CASE UNCHANGED vars
  BY <1>6 DEF vars
<1> QED
  BY <1>1, <1>2, <1>3, <1>4, <1>5, <1>6 DEF Next

\* PagesCoverMatches: for any rows, columns and sizes of a page, whatever was
\* searched, sorted and leafed through, the pages of the table show every match
\* once and in order, and the page kept is one of them (DatasetPreview.tsx).
THEOREM PagesCorrectlyCut == Spec => []PagesCoverMatches
<1>1. Init => ViewInv
  BY DEF Init, ViewInv
<1>2. ViewInv /\ [Next]_vars => ViewInv'
  <2> SUFFICES ASSUME ViewInv, [Next]_vars PROVE ViewInv'
    OBVIOUS
  <2>1. CASE view' = FirstView
    <3>1. FirstView \in View /\ FirstView.page = 1
      BY PreviewAssumption DEF FirstView, View
    <3> QED
      BY <2>1, <3>1, FirstPageOK DEF ViewInv
  <2>2. CASE view' = view
    BY <2>2 DEF ViewInv
  <2> QED
    BY <2>1, <2>2, ViewMoves, BrowseKeeps DEF ViewInv
<1>3. ViewInv => PagesCoverMatches
  BY PagesCover DEF ViewInv
<1> QED
  BY <1>1, <1>2, <1>3, PTL DEF Spec
=============================================================================
