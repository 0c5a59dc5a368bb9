------------------------------ MODULE Terminal ------------------------------
(***************************************************************************)
(* The pages of the terminal that show what the backend computes: market   *)
(* analysis ("stocks"), backtest and data lab, of which one is open at a   *)
(* time (App.tsx), and their requests: answered, failed, or given up after *)
(* the 15 s of the client.  An analysis is a call of the engine            *)
(* (EngineCall); request k is call k.  The rows of an upload are browsed   *)
(* in a table (DatasetPreview).                                            *)
(*                                                                         *)
(* Pages are opened from the sidebar, from one another and by the browser  *)
(* going back and forward.  Answers come in any order, also for a page     *)
(* that is open no more.                                                   *)
(***************************************************************************)
EXTENDS EngineCall, DatasetPreview

CONSTANTS
  Strategies, FirstStrategy,  \* the list of strategies of a backtest
  Symbols, FirstSymbol,       \* ... and of symbols
  Opportunities, \* what the scanner lists: setups, each a strategy and a symbol
  Seeded,        \* the dataset the database holds from the start
  Others,        \* bound: datasets that are uploaded from elsewhere
  MaxElsewhere,  \* bound: uploads and deletions from elsewhere
  Sample,        \* the built-in sample
  None,          \* no dataset, no result
  FirstTabs,     \* bound: the addresses the app is opened at
  MaxRequests,   \* bound: requests of the browser
  MaxVisits,     \* bound: pages opened
  MaxHistory     \* bound: addresses the browser remembers

Tabs == {"landing", "overview", "scanner", "stocks", "backtest", "data-lab"}

ASSUME TerminalAssumption ==
  /\ MaxRequests \in Nat /\ Calls = 1..MaxRequests
  /\ FirstTabs \subseteq Tabs
  /\ FirstStrategy \in Strategies /\ FirstSymbol \in Symbols
  /\ \A o \in Opportunities : o = [strategy |-> o.strategy, symbol |-> o.symbol]
  /\ None \notin {Seeded, Sample} \cup Others \cup Calls
  /\ {MaxVisits, MaxHistory, MaxElsewhere} \subseteq Nat

VARIABLES
  page,      \* the open page: what its heading says and what its figures are of
  visit,     \* its number: a page that is opened again is another
  launched,  \* selectedDatasetId of the app
  handed,    \* backtestSetup and backtestSymbol of the app
  history,   \* the addresses the browser remembers
  address,   \* which of them is the current one
  sent,      \* the requests in the order they were sent
  stored,    \* the datasets of the database, the newest first
  deleted    \* history: those it has no more

datasets == <<stored, deleted>>
route == <<visit, launched, handed, history, address>>
terminal == <<page, view, route, sent, datasets>>
vars == <<terminal, engine>>

\* selected, data (or the result), loading (or isRunning, isProcessing), error
\* and datasets of the page; history: the request whose answer it showed last,
\* and whether it showed an answer after that of a later request.
NewPage(tab, selected) ==
  [tab |-> tab, selected |-> selected, data |-> None, loading |-> FALSE,
   error |-> FALSE, listed |-> {}, latest |-> 0, overtaken |-> FALSE]

DefaultSetup == [strategy |-> FirstStrategy, symbol |-> FirstSymbol]

Stored == {stored[i] : i \in DOMAIN stored}

\* The datasets that are stored or were.
Known == Stored \cup deleted

\* A page that waits; its old figures stay.
Waiting(p) == [p EXCEPT !.loading = TRUE, !.error = FALSE]

Request(kind, v, of) == [kind |-> kind, visit |-> v, of |-> of, reply |-> "pending"]

\* A page that is opened begins anew, with what the app keeps: the market page
\* asks for the list of datasets, and no load is on; a backtest runs at once.
PageOpened(tab, dataset, setup) ==
  CASE tab = "stocks"   -> NewPage(tab, dataset)
    [] tab = "backtest" -> Waiting(NewPage(tab, setup))
    [] OTHER            -> NewPage(tab, None)

FirstRequests(tab, v, dataset, setup) ==
  CASE tab = "stocks"   -> <<Request("list", v, dataset)>>
    [] tab = "backtest" -> <<Request("backtest", v, setup)>>
    [] OTHER            -> <<>>

\* The app begins with the page of its address.
Init ==
  /\ EngineInit
  /\ visit = 0 /\ address = 1 /\ history \in {<<tab>> : tab \in FirstTabs}
  /\ launched = None /\ handed = DefaultSetup
  /\ page = PageOpened(history[1], launched, handed) /\ view = Closed
  /\ sent = FirstRequests(history[1], visit, launched, handed)
  /\ stored = <<Seeded>> /\ deleted = {}

-----------------------------------------------------------------------------
\* The browser.

Send(kind, v, of) ==
  /\ Len(sent) < MaxRequests
  /\ sent' = Append(sent, Request(kind, v, of))

Analysis(d) == IF d = Sample THEN "file" ELSE "analysis"

\* loadAnalysisForDataset, loadSampleAnalysis.
Load(p, d) ==
  /\ Send(Analysis(d), visit, d)
  /\ page' = Waiting(p)

\* pushState: what was ahead is forgotten.
Push(tab) ==
  /\ address < MaxHistory
  /\ history' = Append(SubSeq(history, 1, address), tab)
  /\ address' = address + 1

Open(tab, dataset, setup) ==
  /\ visit < MaxVisits /\ visit' = visit + 1
  /\ page' = PageOpened(tab, dataset, setup) /\ view' = Closed
  /\ sent' = sent \o FirstRequests(tab, visit', dataset, setup)
  /\ Len(sent') <= MaxRequests

\* What can be reached from the open page: from the landing page the overview,
\* from the others, by the sidebar, all.
Reachable == IF page.tab = "landing" THEN {"overview"} ELSE Tabs

\* handleSelectTab, handleViewLanding, and handleNavigateToStocks, which drops
\* the symbol it is given.  (Bound: of another page; that of the open page adds
\* its address once more and changes nothing else.)
NavigateTo(tab) ==
  /\ tab \in Reachable \ {page.tab}
  /\ Push(tab) /\ Open(tab, launched, handed)
  /\ UNCHANGED <<launched, handed, datasets, engine>>

\* handlePopState: back and forward.
PopState(to) ==
  /\ to \in DOMAIN history \ {address}
  /\ address' = to /\ Open(history[to], launched, handed)
  /\ UNCHANGED <<launched, handed, history, datasets, engine>>

\* The cards of the scanner: no filter of its hides one for good.
CardsShown == IF page.tab = "scanner" THEN Opportunities ELSE {}

\* handleNavigateToBacktest, "Backtest Setup" on a card.
BacktestSetup(setup) ==
  /\ setup \in CardsShown
  /\ handed' = setup
  /\ Push("backtest") /\ Open("backtest", launched, setup)
  /\ UNCHANGED <<launched, datasets, engine>>

\* The options of the list of datasets but the chosen one.
Selectable == (page.listed \cup {Sample}) \ {page.selected}

\* handleDatasetChange: not blocked while a load is on.
SelectDataset(d) ==
  /\ page.tab = "stocks" /\ d \in Selectable
  /\ Load([page EXCEPT !.selected = d], d)
  /\ UNCHANGED <<route, view, datasets, engine>>

\* handleRefresh, the "Re-Analyze" button.
Refresh ==
  /\ page.tab = "stocks" /\ ~page.loading
  /\ Load(page, IF page.selected = None THEN Sample ELSE page.selected)
  /\ UNCHANGED <<route, view, datasets, engine>>

\* The button next to an error.
LoadSample ==
  /\ page.tab = "stocks" /\ page.error
  /\ Load([page EXCEPT !.selected = Sample], Sample)
  /\ UNCHANGED <<route, view, datasets, engine>>

RunBacktest(setup) ==
  /\ Send("backtest", visit, setup)
  /\ page' = Waiting([page EXCEPT !.selected = setup])
  /\ UNCHANGED <<route, view, datasets, engine>>

\* The button, when none is running.
RunAgain ==
  /\ page.tab = "backtest" /\ ~page.loading
  /\ RunBacktest(page.selected)

\* What a list shows: a strategy that is not among its options, as none of the
\* scanner's is, appears as the first, which then cannot be chosen.
ShownIn(options, first, chosen) == IF chosen \in options THEN chosen ELSE first

\* Another strategy or symbol runs at once.
SelectStrategy(strategy) ==
  /\ page.tab = "backtest"
  /\ strategy # ShownIn(Strategies, FirstStrategy, page.selected.strategy)
  /\ RunBacktest([page.selected EXCEPT !.strategy = strategy])

SelectSymbol(symbol) ==
  /\ page.tab = "backtest"
  /\ symbol # ShownIn(Symbols, FirstSymbol, page.selected.symbol)
  /\ RunBacktest([page.selected EXCEPT !.symbol = symbol])

\* handleProcess: the form is shown until there is a result.
Upload ==
  /\ page.tab = "data-lab" /\ page.data = None /\ ~page.loading
  /\ Send("upload", visit, Len(sent) + 1)
  /\ page' = Waiting(page)
  /\ UNCHANGED <<route, view, datasets, engine>>

\* handleReset, "Import Another".
ImportAnother ==
  /\ page.tab = "data-lab" /\ page.data # None
  /\ page' = [page EXCEPT !.data = None, !.error = FALSE] /\ view' = Closed
  /\ UNCHANGED <<route, sent, datasets, engine>>

\* handleLaunchTerminal, "View in Terminal".
ViewInTerminal ==
  /\ page.tab = "data-lab" /\ page.data # None
  /\ launched' = page.data
  /\ Push("stocks") /\ Open("stocks", page.data, handed)
  /\ UNCHANGED <<handed, datasets, engine>>

\* The table of the result's rows.
BrowseRows == Browse /\ UNCHANGED <<page, route, sent, datasets, engine>>

-----------------------------------------------------------------------------
\* Answers.

Replied(k, reply) == [sent EXCEPT ![k].reply = reply]

ListedFirst(d, ok) == IF ok /\ stored # <<>> THEN stored[1] ELSE Sample

\* The dataset the market page begins with: the one it was opened for, if it is
\* in the list.
FirstDataset(d, ok) ==
  IF ok /\ d \in Stored THEN d ELSE ListedFirst(d, ok)

\* The list is answered, a failed one as an empty one, and the page goes on to
\* load, even when it is open no more.
ListAnswered(k, ok) ==
  LET d == FirstDataset(sent[k].of, ok)
  IN /\ Len(sent) < MaxRequests
     /\ sent' = Append(Replied(k, IF ok THEN "ok" ELSE "failed"),
                       Request(Analysis(d), sent[k].visit, d))
     /\ page' = IF sent[k].visit # visit THEN page
                ELSE Waiting([page EXCEPT !.selected = d,
                                          !.listed = IF ok THEN Stored ELSE {}])
     /\ UNCHANGED view

\* What an answer does to its page: a result or an error, and the page no
\* longer waits.  (A backtest that failed leaves no trace.)
ToldNoError(k, ok) ==
  [page EXCEPT !.data = IF ok THEN sent[k].of ELSE @,
               !.overtaken = @ \/ k < page.latest,
               !.latest = IF k < @ THEN @ ELSE k]

Told(k, ok) ==
  [page EXCEPT !.data = IF ok THEN sent[k].of ELSE @,
               !.error = IF ok \/ page.tab = "backtest" THEN @ ELSE TRUE,
               !.overtaken = @ \/ k < page.latest,
               !.latest = IF k < @ THEN @ ELSE k]

ShownWaiting(k, ok) == IF ok THEN [Told(k, ok) EXCEPT !.loading = FALSE] ELSE Told(k, ok)

Shown(k, ok) == [Told(k, ok) EXCEPT !.loading = FALSE]

\* An upload's rows are shown, from their first page.
ViewAfter(k, ok) == IF ok /\ sent[k].kind = "upload" THEN FirstView ELSE view

ResultAnswered(k, ok) ==
  /\ sent' = Replied(k, IF ok THEN "ok" ELSE "failed")
  /\ page' = IF sent[k].visit = visit THEN Shown(k, ok) ELSE page
  /\ view' = IF sent[k].visit = visit THEN ViewAfter(k, ok) ELSE view

Answered(k, ok) ==
  /\ sent[k].reply = "pending"
  /\ \/ sent[k].kind = "list" /\ ListAnswered(k, ok)
     \/ sent[k].kind # "list" /\ ResultAnswered(k, ok)
  /\ UNCHANGED <<route, datasets, engine>>

\* The backend has what the request asks for: a list and a backtest at once, an
\* analysis from an engine, an upload when its dataset is stored, whatever
\* becomes of it then.
Available(k) ==
  CASE sent[k].kind \in {"list", "backtest"} -> TRUE
    [] sent[k].kind \in {"analysis", "file"} -> answer[k] \in {"http", "cli"}
    [] sent[k].kind = "upload"               -> k \in Known

Succeeds(k) == k \in DOMAIN sent /\ Available(k) /\ Answered(k, TRUE)

\* An error of the backend or the engine, of the network, or the time-out.
Fails(k) == k \in DOMAIN sent /\ Answered(k, FALSE)

-----------------------------------------------------------------------------
\* The backend.  It works on whether or not the browser still waits.

\* A dataset that is not there is answered 404 and no engine is called.
AnalyzeDataset(k) ==
  /\ k \in DOMAIN sent /\ sent[k].kind \in {"analysis", "file"}
  /\ sent[k].kind = "analysis" => sent[k].of \in Stored
  /\ RunMarketAnalysis(k)
  /\ UNCHANGED terminal

StoreUpload(k) ==
  /\ k \in DOMAIN sent /\ sent[k].kind = "upload" /\ k \notin Known
  /\ stored' = <<k>> \o stored
  /\ UNCHANGED <<page, view, route, sent, deleted, engine>>

ChangesElsewhere == Cardinality(Others \cap Known) + Cardinality(deleted)

UploadElsewhere(d) ==
  /\ d \in Others \ Known /\ ChangesElsewhere < MaxElsewhere
  /\ stored' = <<d>> \o stored
  /\ UNCHANGED <<page, view, route, sent, deleted, engine>>

\* DELETE /datasets/:id, of any dataset.  No page of the terminal sends it.
DeleteElsewhere(i) ==
  /\ i \in DOMAIN stored /\ ChangesElsewhere < MaxElsewhere
  /\ stored' = RemoveAt(stored, i) /\ deleted' = deleted \cup {stored[i]}
  /\ UNCHANGED <<page, view, route, sent, engine>>

-----------------------------------------------------------------------------

User ==
  \/ \E tab \in Tabs : NavigateTo(tab)
  \/ \E to \in {address - 1, address + 1} : PopState(to)
  \/ \E setup \in Opportunities : BacktestSetup(setup)
  \/ \E d \in Known \cup {Sample} : SelectDataset(d)
  \/ Refresh \/ LoadSample
  \/ RunAgain
  \/ \E strategy \in Strategies : SelectStrategy(strategy)
  \/ \E symbol \in Symbols : SelectSymbol(symbol)
  \/ Upload \/ ImportAnother \/ ViewInTerminal \/ BrowseRows

Next ==
  \/ User
  \/ \E k \in Calls : \/ Succeeds(k) \/ Fails(k) \/ AnalyzeDataset(k) \/ StoreUpload(k)
                      \/ EngineStep(k) /\ UNCHANGED terminal
  \/ \E d \in Others : UploadElsewhere(d)
  \/ \E i \in DOMAIN stored : DeleteElsewhere(i)

\* The client's time-out answers every request, and a call of the engine goes
\* on: the server's client has a time-out, and a program ends.
Fairness ==
  \A k \in Calls : /\ WF_vars(Succeeds(k) \/ Fails(k))
                   /\ WF_vars(EngineStep(k) /\ UNCHANGED terminal)

Spec == Init /\ [][Next]_vars /\ Fairness

-----------------------------------------------------------------------------

Quiet == \A k \in DOMAIN sent : sent[k].visit = visit => sent[k].reply # "pending"

\* When every answer of a page has come, and in the order of the requests, its
\* figures are of what its heading says, or the last request failed, which the
\* market page says.  This holds although users may change their minds while
\* the list or a load is on, and pages are left and opened again; it is the
\* order of the answers alone that the pages take on trust.
FiguresMatchHeading ==
  (Quiet /\ ~page.overtaken /\ page.tab \in {"stocks", "backtest"}) =>
    \/ page.data = page.selected
    \/ sent[page.latest].reply = "failed" /\ (page.tab = "stocks" => page.error)

\* The list of the open market page comes.
ListComes ==
  \E k \in DOMAIN sent : /\ sent[k].visit = visit /\ sent[k].kind = "list"
                          /\ sent[k].reply = "pending" /\ sent'[k].reply = "ok"

\* "View in Terminal" opens the dataset the data lab has shown as ready, however
\* late the upload was stored and whatever others have uploaded or deleted since,
\* unless it is this one that was deleted: only then does the page begin with
\* another, and never with one that is not in its list.
OpensLaunched ==
  [][ListComes => /\ launched \notin deleted \cup {None} => page'.selected = launched
                  /\ page'.selected \in (IF page'.listed = {} THEN {Sample} ELSE page'.listed)
    ]_vars

\* A page that waits, with its button disabled, waits no longer at last.
LoadingEnds == []<>~page.loading

\* Every call of the engine is answered, though the program has no time-out and
\* its error and close events may both come.
CallsSettle == \A c \in Calls : []<>(answer[c] # "pending")
=============================================================================
