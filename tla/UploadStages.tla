---------------------------- MODULE UploadStages ----------------------------
(***************************************************************************)
(* The synchronous stages of an upload (backend/src/modules/data-pipeline):*)
(* ingestion, validation, normalisation and deduplication, as functions    *)
(* from an uploaded file to the list of bars the persistence stage writes. *)
(* They run in one turn of the event loop, before the first await.         *)
(*                                                                         *)
(* A file is abstracted to what the stages tell apart: its format, the     *)
(* three places a ticker can come from, and its rows.  A ticker spelling   *)
(* and a time spelling are members of small sets; upper-casing and date    *)
(* parsing are the functions UpperCase and ParseDate.                      *)
(***************************************************************************)
EXTENDS Integers, Sequences, FiniteSets

CONSTANTS
  RawSymbols,   \* spellings of tickers, upper case included
  UpperCase,    \* trim().toUpperCase()
  NoSymbol,     \* a ticker that is absent or blank
  RawTimes,     \* spellings of timestamps (ISO text, epoch seconds or ms ...)
  ParseDate,    \* parseMarketDate: milliseconds, or InvalidTime for null
  InvalidTime,
  NotFinite     \* a row with an OHLCV value that is not a finite number

ASSUME SpellingsAssumption ==
  /\ UpperCase \in [RawSymbols -> RawSymbols]
  /\ \A s \in RawSymbols : UpperCase[UpperCase[s]] = UpperCase[s]
  /\ NoSymbol \notin RawSymbols
  /\ ParseDate \in [RawTimes -> Int \cup {InvalidTime}]
  /\ InvalidTime \notin Int

Symbols == {UpperCase[s] : s \in RawSymbols}

Quote == [open : Int, high : Int, low : Int, close : Int, volume : Int]

(* A parsed line of a CSV or an element of the JSON array.  "short" is a   *)
(* line with too few columns (or a record that misses a field),            *)
(* "annotation" one to pass over: short and naming a dividend, split or    *)
(* bonus, or of a single blank cell.                                       *)
Row == [kind : {"complete", "short", "annotation"},
        symbol : RawSymbols \cup {NoSymbol},
        timestamp : RawTimes,
        quote : Quote \cup {NotFinite}]

(* hasColumns: the CSV header names every required column, or the JSON is  *)
(* an array or an object with one.  nameSymbol is the ticker inferred from *)
(* the file name, metaSymbol the form's, rootSymbol the JSON object's.     *)
File == [format : {"csv", "json"},
         hasColumns : BOOLEAN,
         nameSymbol : RawSymbols,
         metaSymbol : RawSymbols \cup {NoSymbol},
         rootSymbol : RawSymbols \cup {NoSymbol},
         rows : Seq(Row)]

Bar == [symbol : Symbols, timestamp : Int, quote : Quote]

-----------------------------------------------------------------------------
(* Ingestion                                                               *)

DefaultSymbol(f) ==
  IF f.metaSymbol # NoSymbol THEN f.metaSymbol ELSE f.nameSymbol

(* The parsers start inferredSymbol at the default, so that the symbol     *)
(* column of a CSV never replaces it; only a JSON root symbol does.        *)
InferredSymbol(f) ==
  IF f.format = "json" /\ f.rootSymbol # NoSymbol
    THEN f.rootSymbol ELSE DefaultSymbol(f)

Skipped(f, row) == f.format = "csv" /\ row.kind = "annotation"

(* The lines that make it into parsedData.rows                             *)
Lines(f) == {i \in DOMAIN f.rows : ~Skipped(f, f.rows[i])}

IngestionFails(f) ==
  \/ ~f.hasColumns
  \/ \E i \in Lines(f) : f.rows[i].kind # "complete"
  \/ Lines(f) = {}

-----------------------------------------------------------------------------
(* Validation                                                              *)

Larger(a, b) == IF a >= b THEN a ELSE b
Smaller(a, b) == IF a <= b THEN a ELSE b

Highest(q) == Larger(q.high, Larger(q.open, q.close))
Lowest(q) == Smaller(q.low, Smaller(q.open, q.close))

QuoteInBounds(q) ==
  /\ q.low <= q.open /\ q.open <= q.high
  /\ q.low <= q.close /\ q.close <= q.high

QuotePositive(q) ==
  /\ q.open > 0 /\ q.high > 0 /\ q.low > 0 /\ q.close > 0
  /\ q.volume >= 0
  /\ q.high >= q.low

(* Open or close outside the band is tolerated up to 1% of the bound.      *)
QuoteAccepted(q) ==
  /\ q # NotFinite
  /\ QuotePositive(q)
  /\ \/ QuoteInBounds(q)
     \/ /\ 100 * Highest(q) <= 101 * q.high
        /\ 100 * Lowest(q) >= 99 * q.low

AdjustedQuoteUnwidened(q) == q

(* ... and the band is widened to include them.                            *)
AdjustedQuote(q) ==
  [open |-> q.open, high |-> Highest(q), low |-> Lowest(q), close |-> q.close,
   volume |-> q.volume]

RowAccepted(row) ==
  /\ ParseDate[row.timestamp] # InvalidTime
  /\ QuoteAccepted(row.quote)

(* One rejected row rejects the whole upload.                              *)
ValidationFails(f) == \E i \in Lines(f) : ~RowAccepted(f.rows[i])

-----------------------------------------------------------------------------
(* Normalisation: validation has produced upper-case tickers and ISO       *)
(* times; normalising them again changes nothing.                          *)

RowSymbol(f, row) ==
  IF row.symbol # NoSymbol THEN row.symbol ELSE InferredSymbol(f)

NormalizedBar(f, row) ==
  [symbol    |-> UpperCase[RowSymbol(f, row)],
   timestamp |-> ParseDate[row.timestamp],
   quote     |-> AdjustedQuote(row.quote)]

(* The normalised bars, by line of the file                                *)
NormalizedBars(f) == [i \in Lines(f) |-> NormalizedBar(f, f.rows[i])]

-----------------------------------------------------------------------------
(* Deduplication keeps the first bar of each (symbol, timestamp) and sorts *)
(* what is left by time; the sort is stable.                               *)

SameKey(a, b) == a.symbol = b.symbol /\ a.timestamp = b.timestamp

Kept(bars) ==
  {i \in DOMAIN bars : \A j \in DOMAIN bars : j < i => ~SameKey(bars[j], bars[i])}

FileOrder(bars, i, j) == i < j

Precedes(bars, i, j) ==
  \/ bars[i].timestamp < bars[j].timestamp
  \/ bars[i].timestamp = bars[j].timestamp /\ i < j

Rank(bars, i) == Cardinality({j \in Kept(bars) : Precedes(bars, j, i)}) + 1

Deduplicate(bars) ==
  [n \in 1..Cardinality(Kept(bars)) |->
     bars[CHOOSE i \in Kept(bars) : Rank(bars, i) = n]]

-----------------------------------------------------------------------------
(* What the synchronous stages hand to persistence                         *)

StagesFail(f) == IngestionFails(f) \/ ValidationFails(f)

FailedStage(f) == IF IngestionFails(f) THEN "ingestion" ELSE "validation"

CleanBars(f) == Deduplicate(NormalizedBars(f))

(* The ticker of the dataset document, chosen apart from those of its bars *)
DatasetSymbol(f) ==
  UpperCase[IF f.metaSymbol # NoSymbol THEN f.metaSymbol ELSE InferredSymbol(f)]

(* What MarketDataAnalytics::analyze of the C++ engine demands of a bar    *)
EngineAcceptsQuote(q) ==
  q.high >= q.low /\ QuoteInBounds(q) /\ q.volume >= 0 /\ q.close # 0
=============================================================================
