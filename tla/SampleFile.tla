----------------------------- MODULE SampleFile -----------------------------
(***************************************************************************)
(* GET /api/market/analyze: a CSV file of the repository's sample folders, *)
(* read by runMarketAnalysisFromFile of QuantEngineClient.ts.  Unlike the  *)
(* stages of an upload, which refuse a file for one bad row, it passes     *)
(* over the rows it cannot read and repairs the others; it neither sorts   *)
(* nor removes repetitions.                                                *)
(***************************************************************************)
EXTENDS UploadStages, FiniteSetsExt

CONSTANTS
  SampleDirs,    \* TRUSTED_SAMPLE_DIRS: of each, the rows of its files by name
  CsvNames,      \* the names that end in .csv and climb to no other folder
  FirstTicker,   \* the ticker before a row names one
  BuiltIn        \* the symbol and the bars of sample-data.ts

ASSUME NotFiniteAssumption == NotFinite \notin Int

\* A row as its cells say: a number that is none, or missing, is NotFinite.
SampleRow ==
  [timestamp : Int \cup {InvalidTime}, symbol : Symbols \cup {NoSymbol},
   open : Int \cup {NotFinite}, high : Int \cup {NotFinite}, low : Int \cup {NotFinite},
   close : Int \cup {NotFinite}, volume : Int \cup {NotFinite}]

Dated(row) == row.timestamp # InvalidTime

IsPrice(n) == n # NotFinite /\ n > 0

Usable(row) == Dated(row) /\ IsPrice(row.open) /\ IsPrice(row.close)

\* A missing or narrow band becomes the one of open and close.
RepairedQuote(row) ==
  LET top == Larger(row.open, row.close)
      bottom == Smaller(row.open, row.close)
  IN [open |-> row.open, close |-> row.close,
      high |-> IF row.high # NotFinite /\ row.high >= top THEN row.high ELSE top,
      low |-> IF IsPrice(row.low) /\ row.low <= bottom THEN row.low ELSE bottom,
      volume |-> IF row.volume # NotFinite /\ row.volume >= 0 THEN row.volume ELSE 0]

\* The ticker at a row: the last one a dated row has named, used or not.
TickerAt(rows, i) ==
  LET naming == {j \in 1..i : Dated(rows[j]) /\ rows[j].symbol # NoSymbol}
  IN IF naming = {} THEN FirstTicker ELSE rows[Max(naming)].symbol

UsableRows(rows) == {i \in DOMAIN rows : Usable(rows[i])}

\* The bars, by row, and the ticker they are all sent under, whatever theirs:
\* the request to the engine has one symbol.
ParseMarketCsv(rows) ==
  [symbol |-> TickerAt(rows, Len(rows)),
   bars |-> [i \in UsableRows(rows) |->
               [timestamp |-> rows[i].timestamp, quote |-> RepairedQuote(rows[i])]]]

\* The first folder that has a file of the name, 0 for none.
ResolveFilePath(name) ==
  LET holding == {d \in DOMAIN SampleDirs : name \in DOMAIN SampleDirs[d]}
  IN IF name \notin CsvNames \/ holding = {} THEN 0 ELSE Min(holding)

\* What the engine is sent: a name that is not found stands for the built-in
\* sample, one that is no CSV file is answered 400.
AnalyzeMarket(name) ==
  CASE name \notin CsvNames -> "refused"
    [] name \in CsvNames /\ ResolveFilePath(name) = 0 -> BuiltIn
    [] name \in CsvNames /\ ResolveFilePath(name) # 0 ->
         ParseMarketCsv(SampleDirs[ResolveFilePath(name)][name])

-----------------------------------------------------------------------------

\* What MarketDataAnalytics::analyze demands of a series.
EngineAcceptsSeries(bars) ==
  /\ DOMAIN bars # {}
  /\ \A i \in DOMAIN bars : EngineAcceptsQuote(bars[i].quote)
  /\ \A i, j \in DOMAIN bars : i < j => bars[i].timestamp < bars[j].timestamp

InTimeOrder(rows) ==
  \A i, j \in UsableRows(rows) : i < j => rows[i].timestamp < rows[j].timestamp

\* Whatever is wrong with a sample file, the engine refuses it for one of two
\* reasons: it has no usable row, or its usable rows are not in the order of
\* their times (parseMarketCsv, MarketDataAnalytics::analyze).
RefusedForOrderOnly(rows) ==
  EngineAcceptsSeries(ParseMarketCsv(rows).bars) <=>
    UsableRows(rows) # {} /\ InTimeOrder(rows)
=============================================================================
