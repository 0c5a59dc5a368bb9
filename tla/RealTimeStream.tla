--------------------------- MODULE RealTimeStream ---------------------------
(***************************************************************************)
(* The stream of market events: the service that broadcasts to all clients *)
(* every 500 ms (modules/realtime), and the hook with which a page of the  *)
(* browser keeps one EventSource open (useRealTimeMarketStream).           *)
(*                                                                         *)
(* A step of the service is what it does between two awaits of a provider; *)
(* the interval does not wait for its callback, so that callbacks overlap. *)
(* The network keeps the events of one connection in order, and so an      *)
(* event is shown in the step that writes it.                              *)
(***************************************************************************)
EXTENDS Naturals, FiniteSets

CONSTANTS
  Pages,          \* how many pages use the hook; one opened again is another page
  Symbols,        \* the symbols a page can show
  DefaultSymbol,  \* the focus of the service before anyone connects
  Disturbances,   \* bound: how often a symbol is changed, a connection breaks,
                  \* or a request other than for the stream arrives
  None            \* no connection, no order book, nothing asked

ASSUME StreamAssumption ==
  /\ Pages \in Nat \ {0}
  /\ DefaultSymbol \in Symbols /\ None \notin Symbols
  /\ Disturbances \in Nat
  /\ None \notin Nat

\* Pages and connections are numbered in the order they are opened.
Hooks == 1..Pages
Connections == 1..(Pages + Disturbances)

VARIABLES
  \* The browser.
  page,           \* "unopened", "mounted" or "left"
  symbol,         \* the symbol each page shows
  source,         \* eventSourceRef: the connection of a page
  status,         \* connectionStatus
  retry,          \* pages whose retry timer is set
  book,           \* the symbol of the order book a page shows
  link,           \* the browser's end of each connection
  asked,          \* the symbol each connection was opened with
  \* The service.
  clients,        \* clients: the connections that are written to
  accepted,       \* connections whose request has reached the service
  activeSymbol,   \* the one focus of all clients
  latest,         \* history: the connection accepted last
  snapshot,       \* what an initial snapshot waits for: quotes, or whose book
  callback,       \* whose books callbacks wait for (bound: one for each symbol)
  others,         \* other HTTP requests in flight
  gauge,          \* activeHttpRequests
  disturbances    \* bounded

browser == <<page, symbol, source, status, retry, book, link, asked>>
service == <<clients, accepted, activeSymbol, latest, snapshot, callback, others, gauge>>
vars == <<browser, service, disturbances>>

NextConnection == Cardinality({k \in Connections : link[k] # "unused"}) + 1

Init ==
  /\ page = [h \in Hooks |-> "unopened"]
  /\ symbol = [h \in Hooks |-> DefaultSymbol]
  /\ source = [h \in Hooks |-> None]
  /\ status = [h \in Hooks |-> "connecting"]
  /\ retry = {}
  /\ book = [h \in Hooks |-> None]
  /\ link = [k \in Connections |-> "unused"]
  /\ asked = [k \in Connections |-> DefaultSymbol]
  /\ clients = {}
  /\ accepted = {}
  /\ activeSymbol = DefaultSymbol
  /\ latest = None
  /\ snapshot = [k \in Connections |-> None]
  /\ callback = {}
  /\ others = 0
  /\ gauge = 0
  /\ disturbances = 0

-----------------------------------------------------------------------------
\* The hook.

Disturbed == disturbances < Disturbances /\ disturbances' = disturbances + 1

Live(k) == link[k] \in {"connecting", "open"}

NothingClosed(h) == link

Closing(h) == [k \in Connections |-> IF k = source[h] THEN "closed" ELSE link[k]]

\* connect: closes the connection there is, clears the timer, opens another.
Connect(h, s) ==
  LET k == NextConnection
  IN /\ link' = [Closing(h) EXCEPT ![k] = "connecting"]
     /\ asked' = [asked EXCEPT ![k] = s]
     /\ source' = [source EXCEPT ![h] = k]
     /\ status' = [status EXCEPT ![h] = "connecting"]
     /\ retry' = retry \ {h}

Mount(h) ==
  /\ page[h] = "unopened" /\ \A g \in 1..(h - 1) : page[g] # "unopened"
  /\ page' = [page EXCEPT ![h] = "mounted"]
  /\ Connect(h, symbol[h])
  /\ UNCHANGED <<symbol, book, service, disturbances>>

\* Another symbol, with every key typed into the input: the effect's cleanup
\* and connect.  The order book on display stays until the next one.
ChangeSymbol(h, s) ==
  /\ page[h] = "mounted" /\ s # symbol[h]
  /\ Disturbed
  /\ symbol' = [symbol EXCEPT ![h] = s]
  /\ Connect(h, s)
  /\ UNCHANGED <<page, book, service>>

\* The cleanup alone: the timer is cleared and the connection closed; the
\* state of the page is gone.
Unmount(h) ==
  /\ page[h] = "mounted"
  /\ page' = [page EXCEPT ![h] = "left"]
  /\ link' = Closing(h)
  /\ source' = [source EXCEPT ![h] = None]
  /\ retry' = retry \ {h}
  /\ symbol' = [symbol EXCEPT ![h] = DefaultSymbol]
  /\ status' = [status EXCEPT ![h] = "connecting"]
  /\ book' = [book EXCEPT ![h] = None]
  /\ UNCHANGED <<asked, service, disturbances>>

OnOpen(h) ==
  LET k == source[h]
  IN /\ k # None /\ k \in accepted /\ link[k] = "connecting"
     /\ link' = [link EXCEPT ![k] = "open"]
     /\ status' = [status EXCEPT ![h] = "connected"]
     /\ UNCHANGED <<page, symbol, source, retry, book, asked, service, disturbances>>

TimerOfLostOnly(h) == IF status[h] = "connected" THEN retry \cup {h} ELSE retry

RetryTimers(h) == retry \cup {h}

\* The connection breaks or cannot be made: retry in three seconds.
OnError(h) ==
  LET k == source[h]
  IN /\ k # None /\ Live(k)
     /\ Disturbed
     /\ link' = [link EXCEPT ![k] = "closed"]
     /\ status' = [status EXCEPT ![h] = "disconnected"]
     /\ retry' = RetryTimers(h)
     /\ UNCHANGED <<page, symbol, source, book, asked, service>>

Retry(h) ==
  /\ h \in retry
  /\ Connect(h, symbol[h])
  /\ UNCHANGED <<page, symbol, book, service, disturbances>>

\* An order book event of s: shown by the receivers whose symbol it is.
Shown(receivers, s) ==
  [h \in Hooks |->
     IF source[h] \in receivers /\ Live(source[h]) /\ asked[source[h]] = s
       THEN s ELSE book[h]]

-----------------------------------------------------------------------------
\* The service.

\* The gauge counts a request when it arrives and when its response ends.
IncActiveRequests == gauge + 1

DecActiveRequests == IF gauge > 0 THEN gauge - 1 ELSE gauge

\* addClient: the request moves the focus of all clients, and its snapshot begins.
FocusOfFirst(k) == IF clients = {} THEN asked[k] ELSE activeSymbol

Focus(k) == asked[k]

AddClient(k) ==
  /\ link[k] # "unused" /\ k \notin accepted
  /\ accepted' = accepted \cup {k}
  /\ clients' = clients \cup {k}
  /\ activeSymbol' = Focus(k)
  /\ latest' = k
  /\ snapshot' = [snapshot EXCEPT ![k] = "quotes"]
  /\ gauge' = IncActiveRequests
  /\ UNCHANGED <<browser, callback, others, disturbances>>

\* The close event of a connection the browser has given up: its response is
\* forgotten, but never ended, and only the end of a response counts.  What is
\* left of its snapshot is written to no one.
ForgetClient(k) ==
  /\ k \in clients /\ link[k] = "closed"
  /\ clients' = clients \ {k}
  /\ snapshot' = [snapshot EXCEPT ![k] = None]
  /\ UNCHANGED <<browser, accepted, activeSymbol, latest, callback,
                 others, gauge, disturbances>>

\* A provider answers a snapshot.  The symbol of the book is read from the focus
\* when it is asked for, after the quotes.  (The question for trades that
\* follows, and a callback's for quotes and trades, are left out: any answer may
\* come arbitrarily late as it is.)
SnapshotStep(k) ==
  /\ \/ /\ snapshot[k] = "quotes"
        /\ snapshot' = [snapshot EXCEPT ![k] = activeSymbol]
        /\ UNCHANGED book
     \/ /\ snapshot[k] \in Symbols
        /\ snapshot' = [snapshot EXCEPT ![k] = None]
        /\ book' = Shown({k}, snapshot[k])
  /\ UNCHANGED <<page, symbol, source, status, retry, link, asked, clients, accepted,
                 activeSymbol, latest, callback, others, gauge, disturbances>>

\* The interval fires, every second time of those with clients: the callback
\* asks for the book of the focus.
Interval ==
  /\ clients # {}
  /\ activeSymbol \notin callback
  /\ callback' = callback \cup {activeSymbol}
  /\ UNCHANGED <<browser, clients, accepted, activeSymbol, latest, snapshot,
                 others, gauge, disturbances>>

\* A provider answers a callback: the book goes to all clients of that moment.
CallbackStep(s) ==
  /\ s \in callback
  /\ callback' = callback \ {s}
  /\ book' = Shown(clients, s)
  /\ UNCHANGED <<page, symbol, source, status, retry, link, asked, clients, accepted,
                 activeSymbol, latest, snapshot, others, gauge, disturbances>>

\* Requests that are not streams are counted when they arrive and when they end.
OtherRequest ==
  /\ \/ Disturbed /\ others' = others + 1 /\ gauge' = IncActiveRequests
     \/ /\ others > 0 /\ others' = others - 1 /\ gauge' = DecActiveRequests
        /\ UNCHANGED disturbances
  /\ UNCHANGED <<browser, clients, accepted, activeSymbol, latest, snapshot,
                 callback>>

User(h) == Mount(h) \/ Unmount(h) \/ (\E s \in Symbols : ChangeSymbol(h, s))

Next ==
  \/ \E h \in Hooks : User(h) \/ OnOpen(h) \/ OnError(h) \/ Retry(h)
  \/ \E k \in Connections : AddClient(k) \/ ForgetClient(k) \/ SnapshotStep(k)
  \/ \E s \in Symbols : CallbackStep(s)
  \/ Interval
  \/ OtherRequest

\* Requests arrive, providers answer (every call has a time-out), timers fire;
\* users and faults owe nothing.
Fairness ==
  /\ \A h \in Hooks : WF_vars(OnOpen(h)) /\ WF_vars(Retry(h))
  /\ \A k \in Connections : WF_vars(AddClient(k)) /\ WF_vars(SnapshotStep(k))
  /\ \A s \in Symbols : WF_vars(CallbackStep(s))
  /\ WF_vars(Interval)

Spec == Init /\ [][Next]_vars /\ Fairness

-----------------------------------------------------------------------------

\* Every connection a browser keeps open is the one an open page refers to, and
\* is for the symbol that page shows; a page with a retry timer has none open.
\* (connect and the cleanup close the old source, and the timer is cleared: a
\* page left or a symbol changed between an error and its retry leaks nothing.)
SourceFollowsHook ==
  /\ \A k \in Connections : Live(k) =>
       \E h \in Hooks : page[h] = "mounted" /\ source[h] = k /\ asked[k] = symbol[h]
  /\ \A h \in retry : page[h] = "mounted" /\ ~Live(source[h])

\* A page whose stream is lost is connected again, or is left, or its
\* symbol is changed and connected: it does not stay disconnected for good.
HookReconnects ==
  \A h \in Hooks :
    (page[h] = "mounted" /\ status[h] = "disconnected")
      ~> (status[h] = "connected" \/ page[h] = "left")

\* The page whose connection was accepted last sees the order book of its
\* symbol, whatever the other pages asked for and the callbacks that overlap.
Newest(h) == source[h] = latest /\ source[h] \in clients /\ Live(source[h])

NewestPageFed ==
  \A h \in Hooks : Newest(h) ~> (book[h] = symbol[h] \/ ~Newest(h))

\* "Current active in-flight HTTP requests", the help text of the gauge.
GaugeCountsInFlight == gauge = others + Cardinality(clients)
=============================================================================
