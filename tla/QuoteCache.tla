----------------------------- MODULE QuoteCache -----------------------------
(***************************************************************************)
(* The quotes of an external provider (modules/providers/external.provider *)
(* getQuotes): a cache of the last quote of each symbol, filled by calls   *)
(* that await the vendor one symbol after another.  Calls overlap: the     *)
(* stream's interval and the snapshots of new clients start them without   *)
(* waiting for earlier ones, and nothing marks a fetch as in flight.       *)
(*                                                                         *)
(* Time is counted in steps; a quote is known by the time at which the     *)
(* vendor read it, or as the one the provider makes up when it gets none.  *)
(***************************************************************************)
EXTENDS Integers, Sequences, FiniteSets

CONSTANTS
  Symbols,     \* the symbols that are asked for
  Lists,       \* the lists of symbols calls are made with
  Callers,     \* calls in progress at once
  TTL,         \* CACHE_TTL_MS
  TimeOut,     \* time-out of a fetch
  MadeUp,      \* the fallback quote
  Never,       \* no quote, no fetch
  MaxTime      \* bound of the clock

ASSUME CacheAssumption ==
  /\ TTL \in Nat \ {0} /\ TimeOut \in Nat /\ MaxTime \in Nat
  /\ MadeUp \notin Nat /\ Never \notin Nat /\ MadeUp # Never
  /\ Never \notin Symbols
  /\ \A list \in Lists :
       /\ list \in Seq(Symbols)
       /\ \A i, j \in 1..Len(list) : list[i] = list[j] => i = j
  /\ \E longest \in Lists : \A list \in Lists : Len(list) <= Len(longest)

VARIABLES
  now,         \* the clock
  keyed,       \* whether the provider may call the vendor (this.config.apiKey)
  quote,       \* quoteCache: the quote of each symbol ...
  cachedAt,    \* ... and when it was cached
  left,        \* the symbols a call has not reached
  awaited,     \* the symbol whose fetch a call awaits
  since,       \* when that fetch began
  read,        \* when the vendor read the quote it answers with
  oldest,      \* the oldest vendor quote among the results of a call
  lastFetch,   \* history: when a caller last fetched a symbol
  worst        \* history: the greatest age of a vendor quote that was returned

callVars == <<left, awaited, since, read, oldest, lastFetch, worst>>
vars == <<now, keyed, quote, cachedAt, callVars>>

Time == 0..MaxTime

Init ==
  /\ now = 0
  /\ keyed \in BOOLEAN
  /\ quote = [s \in Symbols |-> Never]
  /\ cachedAt = [s \in Symbols |-> 0]
  /\ left = [c \in Callers |-> <<>>]
  /\ awaited = [c \in Callers |-> Never]
  /\ since = [c \in Callers |-> 0]
  /\ read = [c \in Callers |-> Never]
  /\ oldest = [c \in Callers |-> Never]
  /\ lastFetch = [c \in Callers |-> [s \in Symbols |-> Never]]
  /\ worst = 0

FreshLonger(s) == quote[s] # Never /\ now - cachedAt[s] <= TTL + TimeOut

Fresh(s) == quote[s] # Never /\ now - cachedAt[s] < TTL

\* The first symbol of a list that has to be fetched, or one past its end.
FirstFetched(list) ==
  CHOOSE i \in 1..Len(list) + 1 :
    /\ \A j \in 1..i - 1 : keyed => Fresh(list[j])
    /\ i <= Len(list) => keyed /\ ~Fresh(list[i])

OldestOf(times) == IF times = {} THEN Never ELSE CHOOSE t \in times : \A u \in times : t <= u

\* The vendor quotes a loop has put into its results: those before, and those
\* of the cached symbols it comes to.
Served(list, before) ==
  LET hits == {j \in 1..FirstFetched(list) - 1 : Fresh(list[j])}
  IN OldestOf((before \cup {quote[list[j]] : j \in hits}) \cap Nat)

\* The loop of getQuotes from a symbol on, up to the next await: cached quotes
\* are served, and without a vendor missing ones are made up and cached.
Loop(c, list, before) ==
  LET i == FirstFetched(list)
      seen == Served(list, before)
  IN IF i <= Len(list)
       THEN /\ left' = [left EXCEPT ![c] = SubSeq(list, i + 1, Len(list))]
            /\ awaited' = [awaited EXCEPT ![c] = list[i]]
            /\ since' = [since EXCEPT ![c] = now]
            /\ oldest' = [oldest EXCEPT ![c] = seen]
            /\ lastFetch' = [lastFetch EXCEPT ![c] = [@ EXCEPT ![list[i]] = now]]
            /\ UNCHANGED worst
       ELSE /\ left' = [left EXCEPT ![c] = <<>>]
            /\ awaited' = [awaited EXCEPT ![c] = Never]
            /\ since' = [since EXCEPT ![c] = 0]
            /\ oldest' = [oldest EXCEPT ![c] = Never]
            /\ worst' = IF seen # Never /\ now - seen > worst THEN now - seen ELSE worst
            /\ UNCHANGED lastFetch

\* The symbols a loop comes to without a vendor: those not cached.
Missing(list) == {s \in Symbols : ~keyed /\ ~Fresh(s) /\ \E i \in 1..Len(list) : list[i] = s}

Cache(s, q, list) ==
  /\ quote' = [t \in Symbols |-> IF t = s THEN q ELSE IF t \in Missing(list) THEN MadeUp ELSE quote[t]]
  /\ cachedAt' = [t \in Symbols |-> IF t = s \/ t \in Missing(list) THEN now ELSE cachedAt[t]]

GetQuotes(c) ==
  /\ awaited[c] = Never
  /\ \E list \in Lists : Loop(c, list, {}) /\ Cache(Never, MadeUp, list)
  /\ UNCHANGED <<now, keyed, read>>

VendorReads(c) ==
  /\ awaited[c] # Never /\ read[c] = Never
  /\ read' = [read EXCEPT ![c] = now]
  /\ UNCHANGED <<now, keyed, quote, cachedAt, left, awaited, since, oldest, lastFetch, worst>>

\* The answer arrives: it is cached over whatever is there, as new.
ReceiveQuote(c) ==
  /\ awaited[c] # Never /\ read[c] # Never
  /\ Cache(awaited[c], read[c], left[c])
  /\ Loop(c, left[c], {oldest[c], read[c]})
  /\ read' = [read EXCEPT ![c] = Never]
  /\ UNCHANGED <<now, keyed>>

FallBackUncached(c) == UNCHANGED <<quote, cachedAt>>

FallBack(c) == Cache(awaited[c], MadeUp, left[c])

\* An error, the time-out or a notice of the vendor's limit: a quote is made up.
FetchFails(c) ==
  /\ awaited[c] # Never
  /\ FallBack(c)
  /\ Loop(c, left[c], {oldest[c]})
  /\ read' = [read EXCEPT ![c] = Never]
  /\ UNCHANGED <<now, keyed>>

\* connect with another configuration.
Reconfigure ==
  /\ keyed' = ~keyed
  /\ UNCHANGED <<now, quote, cachedAt, callVars>>

TickUnbounded ==
  /\ now < MaxTime
  /\ now' = now + 1
  /\ UNCHANGED <<keyed, quote, cachedAt, callVars>>

\* Time passes; axios ends a fetch at the latest when its time-out has passed.
Tick ==
  /\ now < MaxTime
  /\ \A c \in Callers : awaited[c] # Never => now - since[c] < TimeOut
  /\ now' = now + 1
  /\ UNCHANGED <<keyed, quote, cachedAt, callVars>>

Next ==
  \/ Tick \/ Reconfigure
  \/ \E c \in Callers : GetQuotes(c) \/ VendorReads(c) \/ ReceiveQuote(c) \/ FetchFails(c)

Spec == Init /\ [][Next]_vars

TypeOK ==
  /\ now \in Time /\ keyed \in BOOLEAN
  /\ quote \in [Symbols -> Nat \cup {MadeUp, Never}]
  /\ cachedAt \in [Symbols -> Time]
  /\ left \in [Callers -> Seq(Symbols)]
  /\ awaited \in [Callers -> Symbols \cup {Never}]
  /\ since \in [Callers -> Time]
  /\ read \in [Callers -> Time \cup {Never}]
  /\ oldest \in [Callers -> Nat \cup {Never}]
  /\ lastFetch \in [Callers -> [Symbols -> Time \cup {Never}]]
  /\ worst \in Nat

LongestList == CHOOSE n \in {Len(list) : list \in Lists} : \A list \in Lists : Len(list) <= n

\* A caller awaits the symbols of a list one after another, so that the first
\* quote it was given ages while it waits for the others.  No vendor quote is
\* older, when getQuotes returns, than the expiry and a time-out per symbol.
ReturnedAgeBounded == worst < TTL + LongestList * TimeOut

\* Overlapping fetches may put an older quote over a newer one; it is never
\* older by more than the time-out of a fetch.
QuotesRegressAtMostTimeOut ==
  [][\A s \in Symbols :
       quote[s] \in Nat /\ quote'[s] \in Nat => quote'[s] >= quote[s] - TimeOut]_vars

\* What the cache does for the vendor's limit: whatever fails, expires or is
\* fetched by others at the same time, one caller fetches a symbol at most
\* once in a period of expiry (and all of them at most once each).
OneFetchPerPeriod ==
  [][\A c \in Callers, s \in Symbols :
       lastFetch[c][s] # Never /\ lastFetch'[c][s] # lastFetch[c][s]
         => lastFetch'[c][s] - lastFetch[c][s] >= TTL]_vars

Minute == 12
VendorLimit == 5

\* The comment above the cache: 5 requests a minute are the vendor's limit,
\* which the cache is there not to exceed.
VendorLimitKept ==
  Cardinality({call \in Callers \X Symbols :
                 LET fetched == lastFetch[call[1]][call[2]]
                 IN  fetched # Never /\ now - fetched < Minute}) <= VendorLimit
=============================================================================
