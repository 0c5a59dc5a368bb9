------------------------ MODULE UploadStages_proofs -------------------------
(***************************************************************************)
(* What the stages of an upload compute, for every file.  The argument     *)
(* about deduplication: Rank numbers the kept lines 1, 2, ... along        *)
(* Precedes, a strict total order on them; it is injective and bounded by  *)
(* their number, hence onto, so that the CHOOSE in Deduplicate is always   *)
(* of an existing line.                                                    *)
(*                                                                         *)
(* Then the rows of a sample file, which take no stages, the queries of    *)
(* what was stored, and the table of a CSV file: however it is spelt, it   *)
(* gives the same rows.                                                    *)
(***************************************************************************)
EXTENDS SampleFile, MarketDataApi, UploadRequest, TLAPS, FiniteSetTheorems

(* Bars indexed by their lines in the file                                 *)
BarList(bars) ==
  /\ IsFiniteSet(DOMAIN bars)
  /\ DOMAIN bars \subseteq Nat
  /\ bars \in [DOMAIN bars -> Bar]

Before(bars, i) == {j \in Kept(bars) : Precedes(bars, j, i)}

(* The kept lines are finitely many.                                       *)
LEMMA KeptFinite ==
  ASSUME NEW bars, BarList(bars)
  PROVE  /\ Kept(bars) \subseteq DOMAIN bars
         /\ IsFiniteSet(Kept(bars))
         /\ Cardinality(Kept(bars)) \in Nat
<1>1. Kept(bars) \subseteq DOMAIN bars
  BY DEF Kept
<1>2. IsFiniteSet(Kept(bars))
  BY <1>1, FS_Subset DEF BarList
<1> QED
  BY <1>1, <1>2, FS_CardinalityType

(* Precedes is a strict total order on the lines.                          *)
LEMMA PrecedesIsOrder ==
  ASSUME NEW bars, BarList(bars)
  PROVE  /\ \A i \in DOMAIN bars : ~Precedes(bars, i, i)
         /\ \A i, j \in DOMAIN bars : i # j => Precedes(bars, i, j) \/ Precedes(bars, j, i)
         /\ \A i, j, k \in DOMAIN bars :
              Precedes(bars, i, j) /\ Precedes(bars, j, k) => Precedes(bars, i, k)
<1>1. \A i \in DOMAIN bars : i \in Nat /\ bars[i].timestamp \in Int
  BY DEF BarList, Bar
<1> QED
  BY <1>1 DEF Precedes

(* A line that precedes another has the smaller rank.                      *)
LEMMA RankGrows ==
  ASSUME NEW bars, BarList(bars),
         NEW i \in Kept(bars), NEW j \in Kept(bars), Precedes(bars, i, j)
  PROVE  Rank(bars, i) < Rank(bars, j)
<1>1. Before(bars, i) \subseteq Before(bars, j)
  BY KeptFinite, PrecedesIsOrder DEF Before
<1>2. i \in Before(bars, j) /\ i \notin Before(bars, i)
  BY KeptFinite, PrecedesIsOrder DEF Before
<1>3. IsFiniteSet(Before(bars, j))
  BY KeptFinite, FS_Subset DEF Before
<1>4. /\ IsFiniteSet(Before(bars, i))
      /\ Cardinality(Before(bars, i)) <= Cardinality(Before(bars, j))
      /\ Cardinality(Before(bars, i)) # Cardinality(Before(bars, j))
  BY <1>1, <1>2, <1>3, FS_Subset
<1>5. Cardinality(Before(bars, i)) \in Nat /\ Cardinality(Before(bars, j)) \in Nat
  BY <1>3, <1>4, FS_CardinalityType
<1> QED
  BY <1>4, <1>5 DEF Rank, Before

(* The rank of a kept line is at most their number.                        *)
LEMMA RankBounded ==
  ASSUME NEW bars, BarList(bars), NEW i \in Kept(bars)
  PROVE  Rank(bars, i) \in 1..Cardinality(Kept(bars))
<1>1. Before(bars, i) \subseteq Kept(bars) /\ i \notin Before(bars, i)
  BY KeptFinite, PrecedesIsOrder DEF Before
<1>2. /\ IsFiniteSet(Before(bars, i))
      /\ Cardinality(Before(bars, i)) <= Cardinality(Kept(bars))
      /\ Cardinality(Before(bars, i)) # Cardinality(Kept(bars))
  BY <1>1, KeptFinite, FS_Subset
<1>3. Cardinality(Before(bars, i)) \in Nat
  BY <1>2, FS_CardinalityType
<1> QED
  BY <1>2, <1>3, KeptFinite DEF Rank, Before

(* Every rank is taken by a kept line.                                     *)
LEMMA RankOnto ==
  ASSUME NEW bars, BarList(bars), NEW n \in 1..Cardinality(Kept(bars))
  PROVE  \E i \in Kept(bars) : Rank(bars, i) = n
<1> DEFINE K == Kept(bars)
           rank == [i \in K |-> Rank(bars, i)]
<1>1. rank \in [K -> 1..Cardinality(K)]
  BY RankBounded
<1>2. ASSUME NEW i \in K, NEW j \in K, i # j
      PROVE  rank[i] # rank[j]
  <2>1. rank[i] \in Int /\ rank[j] \in Int
    BY <1>1, KeptFinite
  <2>2. rank[i] < rank[j] \/ rank[j] < rank[i]
    BY <1>2, KeptFinite, PrecedesIsOrder, RankGrows
  <2> QED
    BY <2>1, <2>2
<1>3. rank \in Injection(K, 1..Cardinality(K))
  BY <1>1, <1>2 DEF Injection, IsInjective
<1>4. IsFiniteSet(1..Cardinality(K)) /\ Cardinality(1..Cardinality(K)) = Cardinality(K)
  BY KeptFinite, FS_Interval
<1>5. rank \in Surjection(K, 1..Cardinality(K))
  <2> HIDE DEF rank, K
  <2> QED BY <1>3, <1>4, FS_Injection
<1> QED
  BY <1>5 DEF Surjection

LineOf(bars, n) == CHOOSE i \in Kept(bars) : Rank(bars, i) = n

(* Every line shares its key with a kept one: the first of that key.       *)
LEMMA FirstIsKept ==
  ASSUME NEW bars, BarList(bars), NEW i \in DOMAIN bars
  PROVE  \E k \in Kept(bars) : SameKey(bars[k], bars[i])
<1> DEFINE Twins == {j \in DOMAIN bars : SameKey(bars[j], bars[i])}
<1>1. Twins \subseteq Nat /\ Twins # {}
  BY DEF BarList, SameKey
<1>2. PICK k \in Twins : \A j \in Twins : <<j, k>> \notin OpToRel(<, Nat)
  <2> HIDE DEF Twins
  <2> QED BY <1>1, NatLessThanWellFounded, WFMin
<1>3. \A j \in Twins : ~(j < k)
  BY <1>1, <1>2 DEF OpToRel
<1>4. k \in Kept(bars)
  BY <1>3 DEF Kept, SameKey
<1> QED
  BY <1>4

(* runDeduplicationStage, for every list of bars: the result consists of   *)
(* bars of the list, in ascending time, no two with one (symbol,           *)
(* timestamp), and no (symbol, timestamp) of the list is missing.          *)
THEOREM DeduplicateCorrect ==
  ASSUME NEW bars, BarList(bars)
  PROVE  /\ Deduplicate(bars) \in Seq(Bar)
         /\ Len(Deduplicate(bars)) = Cardinality(Kept(bars))
         /\ \A n \in DOMAIN Deduplicate(bars) :
              \E i \in DOMAIN bars : Deduplicate(bars)[n] = bars[i]
         /\ \A m, n \in DOMAIN Deduplicate(bars) :
              m < n => /\ Deduplicate(bars)[m].timestamp <= Deduplicate(bars)[n].timestamp
                       /\ ~SameKey(Deduplicate(bars)[m], Deduplicate(bars)[n])
         /\ \A i \in DOMAIN bars :
              \E n \in DOMAIN Deduplicate(bars) : SameKey(Deduplicate(bars)[n], bars[i])
<1> DEFINE N == Cardinality(Kept(bars))
           D == Deduplicate(bars)
<1>1. N \in Nat /\ Kept(bars) \subseteq DOMAIN bars
  BY KeptFinite
<1>2. \A n \in 1..N : LineOf(bars, n) \in Kept(bars) /\ Rank(bars, LineOf(bars, n)) = n
  BY RankOnto DEF LineOf
<1>3. D = [n \in 1..N |-> bars[LineOf(bars, n)]]
  BY DEF Deduplicate, LineOf
<1>4. \A i \in DOMAIN bars : i \in Nat /\ bars[i] \in Bar
  BY DEF BarList
<1>5. \A n \in 1..N : D[n] = bars[LineOf(bars, n)] /\ D[n] \in Bar
  BY <1>1, <1>2, <1>3, <1>4
<1>6. D \in Seq(Bar) /\ Len(D) = N /\ DOMAIN D = 1..N
  <2>1. D \in [1..N -> Bar]
    BY <1>3, <1>5
  <2> QED
    BY <1>1, <2>1
<1>7. ASSUME NEW m \in 1..N, NEW n \in 1..N, m < n
      PROVE  D[m].timestamp <= D[n].timestamp /\ ~SameKey(D[m], D[n])
  <2> DEFINE i == LineOf(bars, m)
             j == LineOf(bars, n)
  <2>1. i \in Kept(bars) /\ j \in Kept(bars) /\ Rank(bars, i) = m /\ Rank(bars, j) = n
    BY <1>2
  <2> HIDE DEF i, j
  <2>2. i # j
    BY <1>7, <2>1
  <2>3. ~Precedes(bars, j, i)
    BY <1>1, <1>7, <2>1, RankGrows
  <2>4. Precedes(bars, i, j)
    BY <1>1, <2>1, <2>2, <2>3, PrecedesIsOrder
  <2>5. bars[i].timestamp <= bars[j].timestamp
    <3>1. bars[i].timestamp \in Int /\ bars[j].timestamp \in Int
      BY <1>1, <1>4, <2>1 DEF Bar
    <3> QED
      BY <2>4, <3>1 DEF Precedes
  <2>6. ~SameKey(bars[i], bars[j])
    <3>1. i \in Nat /\ j \in Nat
      BY <1>1, <1>4, <2>1
    <3>2. i < j \/ j < i
      BY <2>2, <3>1
    <3> QED
      BY <1>1, <2>1, <3>2 DEF Kept, SameKey
  <2> QED
    BY <1>5, <2>5, <2>6 DEF i, j
<1>8. ASSUME NEW i \in DOMAIN bars
      PROVE  \E n \in 1..N : SameKey(D[n], bars[i])
  <2>1. PICK k \in Kept(bars) : SameKey(bars[k], bars[i])
    BY FirstIsKept
  <2>2. Rank(bars, k) \in 1..N
    BY RankBounded
  <2>3. LineOf(bars, Rank(bars, k)) = k
    <3> DEFINE j == LineOf(bars, Rank(bars, k))
    <3>1. j \in Kept(bars) /\ Rank(bars, j) = Rank(bars, k)
      BY <1>2, <2>2
    <3> HIDE DEF j
    <3>2. ~Precedes(bars, j, k) /\ ~Precedes(bars, k, j)
      BY <1>1, <2>2, <3>1, RankGrows
    <3>3. j = k
      BY <1>1, <3>1, <3>2, PrecedesIsOrder
    <3> QED
      BY <3>3 DEF j
  <2> QED
    BY <1>5, <2>1, <2>2, <2>3
<1> HIDE DEF D, N
<1>9. \A n \in 1..N : \E i \in DOMAIN bars : D[n] = bars[i]
  BY <1>1, <1>2, <1>5
<1> QED
  BY <1>6, <1>7, <1>8, <1>9 DEF D, N

-----------------------------------------------------------------------------
(* What an accepted file becomes                                           *)

(* Widening an accepted quote's band makes it one the engine accepts.      *)
LEMMA AdjustedQuoteInBounds ==
  ASSUME NEW q \in Quote, QuoteAccepted(q)
  PROVE  AdjustedQuote(q) \in Quote /\ EngineAcceptsQuote(AdjustedQuote(q))
<1>1. /\ q.open \in Int /\ q.high \in Int /\ q.low \in Int /\ q.close \in Int
      /\ q.volume \in Int
  BY DEF Quote
<1>2. q.open > 0 /\ q.close > 0 /\ q.high >= q.low /\ q.volume >= 0
  BY DEF QuoteAccepted, QuotePositive
<1>3. /\ Highest(q) \in Int /\ Highest(q) >= q.high
      /\ Highest(q) >= q.open /\ Highest(q) >= q.close
  BY <1>1 DEF Highest, Larger
<1>4. /\ Lowest(q) \in Int /\ Lowest(q) <= q.low
      /\ Lowest(q) <= q.open /\ Lowest(q) <= q.close
  BY <1>1 DEF Lowest, Smaller
<1>5. AdjustedQuote(q) = [open |-> q.open, high |-> Highest(q), low |-> Lowest(q),
                          close |-> q.close, volume |-> q.volume]
  BY DEF AdjustedQuote
<1>6. AdjustedQuote(q) \in Quote
  BY <1>1, <1>3, <1>4, <1>5 DEF Quote
<1>7. EngineAcceptsQuote(AdjustedQuote(q))
  BY <1>1, <1>2, <1>3, <1>4, <1>5 DEF EngineAcceptsQuote, QuoteInBounds
<1> QED
  BY <1>6, <1>7

(* Normalisation turns the lines of an accepted file into bars.            *)
LEMMA NormalizedBarsTyped ==
  ASSUME NEW f \in File, ~StagesFail(f)
  PROVE  /\ BarList(NormalizedBars(f))
         /\ DOMAIN NormalizedBars(f) = Lines(f)
         /\ Lines(f) # {}
         /\ \A i \in Lines(f) : EngineAcceptsQuote(NormalizedBars(f)[i].quote)
<1>1. /\ f.rows \in Seq(Row) /\ f.nameSymbol \in RawSymbols
      /\ f.metaSymbol \in RawSymbols \cup {NoSymbol}
      /\ f.rootSymbol \in RawSymbols \cup {NoSymbol}
  BY DEF File
<1>2. Lines(f) \subseteq 1..Len(f.rows) /\ Len(f.rows) \in Nat
  BY <1>1 DEF Lines
<1>3. IsFiniteSet(Lines(f)) /\ Lines(f) \subseteq Nat
  <2>1. IsFiniteSet(1..Len(f.rows))
    BY <1>2, FS_Interval
  <2> QED
    BY <1>2, <2>1, FS_Subset
<1>4. ASSUME NEW i \in Lines(f)
      PROVE  /\ NormalizedBar(f, f.rows[i]) \in Bar
             /\ EngineAcceptsQuote(NormalizedBar(f, f.rows[i]).quote)
  <2> DEFINE row == f.rows[i]
  <2>1. row \in Row
    BY <1>1, <1>2, <1>4
  <2>2. RowAccepted(row)
    BY <1>4 DEF StagesFail, ValidationFails
  <2> HIDE DEF row
  <2>3. row.quote \in Quote /\ QuoteAccepted(row.quote)
    BY <2>1, <2>2 DEF Row, RowAccepted, QuoteAccepted
  <2>4. ParseDate[row.timestamp] \in Int
    BY <2>1, <2>2, SpellingsAssumption DEF Row, RowAccepted
  <2>5. UpperCase[RowSymbol(f, row)] \in Symbols
    <3>1. RowSymbol(f, row) \in RawSymbols
      BY <1>1, <2>1 DEF RowSymbol, InferredSymbol, DefaultSymbol, Row
    <3> QED
      BY <3>1 DEF Symbols
  <2>6. AdjustedQuote(row.quote) \in Quote /\ EngineAcceptsQuote(AdjustedQuote(row.quote))
    BY <2>3, AdjustedQuoteInBounds
  <2>7. /\ NormalizedBar(f, row) \in Bar
        /\ NormalizedBar(f, row).quote = AdjustedQuote(row.quote)
    BY <2>4, <2>5, <2>6 DEF NormalizedBar, Bar
  <2> QED
    BY <2>6, <2>7 DEF row
<1>5. /\ DOMAIN NormalizedBars(f) = Lines(f)
      /\ NormalizedBars(f) \in [Lines(f) -> Bar]
      /\ \A i \in Lines(f) : EngineAcceptsQuote(NormalizedBars(f)[i].quote)
  BY <1>4 DEF NormalizedBars
<1>6. Lines(f) # {}
  BY DEF StagesFail, IngestionFails
<1> QED
  BY <1>3, <1>5, <1>6 DEF BarList

(* Every bar of an accepted file that reaches persistence satisfies what   *)
(* MarketDataAnalytics::analyze demands of it, for every file.             *)
THEOREM CleanBarsAccepted ==
  ASSUME NEW f \in File, ~StagesFail(f)
  PROVE  /\ CleanBars(f) \in Seq(Bar)
         /\ \A n \in DOMAIN CleanBars(f) : EngineAcceptsQuote(CleanBars(f)[n].quote)
<1> DEFINE bars == NormalizedBars(f)
<1>1. /\ BarList(bars)
      /\ \A i \in DOMAIN bars : EngineAcceptsQuote(bars[i].quote)
  BY NormalizedBarsTyped
<1> HIDE DEF bars
<1>2. /\ Deduplicate(bars) \in Seq(Bar)
      /\ \A n \in DOMAIN Deduplicate(bars) :
           EngineAcceptsQuote(Deduplicate(bars)[n].quote)
  BY <1>1, DeduplicateCorrect
<1> QED
  BY <1>2 DEF CleanBars, bars

(* The ticker of the dataset an accepted file creates is a known one.      *)
LEMMA DatasetSymbolTyped ==
  ASSUME NEW f \in File
  PROVE  DatasetSymbol(f) \in Symbols
BY DEF DatasetSymbol, InferredSymbol, DefaultSymbol, Symbols, File

-----------------------------------------------------------------------------
(* What parseMarketCsv does to the rows it uses: every repaired quote is   *)
(* one the engine accepts, so that a file fails by its order alone.        *)

\* The band of a repaired quote holds its open and its close.
LEMMA RepairedQuoteAccepted ==
  ASSUME NEW row \in SampleRow, Usable(row)
  PROVE  RepairedQuote(row) \in Quote /\ EngineAcceptsQuote(RepairedQuote(row))
<1> DEFINE top == Larger(row.open, row.close)
           bottom == Smaller(row.open, row.close)
           quote == RepairedQuote(row)
<1>1. /\ row.open \in Int /\ row.open > 0
      /\ row.close \in Int /\ row.close > 0
  BY NotFiniteAssumption DEF SampleRow, Usable, IsPrice
<1>2. /\ top \in Int /\ top >= row.open /\ top >= row.close
      /\ bottom \in Int /\ bottom <= row.open /\ bottom <= row.close
  BY <1>1 DEF Larger, Smaller
<1>3. quote.open = row.open /\ quote.close = row.close
  BY DEF RepairedQuote
<1>4. quote.high \in Int /\ quote.high >= top
  BY <1>2, NotFiniteAssumption DEF RepairedQuote, SampleRow
<1>5. quote.low \in Int /\ quote.low <= bottom
  BY <1>2, NotFiniteAssumption DEF RepairedQuote, SampleRow, IsPrice
<1>6. quote.volume \in Int /\ quote.volume >= 0
  BY NotFiniteAssumption DEF RepairedQuote, SampleRow
<1>7. quote \in Quote
  BY <1>1, <1>3, <1>4, <1>5, <1>6 DEF RepairedQuote, Quote
<1> HIDE DEF top, bottom, quote
<1>8. EngineAcceptsQuote(quote)
  BY <1>1, <1>2, <1>3, <1>4, <1>5, <1>6 DEF EngineAcceptsQuote, QuoteInBounds
<1> QED
  BY <1>7, <1>8 DEF quote

\* RefusedForOrderOnly, for a file of any length: the repair of
\* runMarketAnalysisFromFile leaves the engine nothing to refuse but the order.
THEOREM SampleRefusedForOrderOnly ==
  ASSUME NEW rows \in Seq(SampleRow)
  PROVE  RefusedForOrderOnly(rows)
<1> DEFINE bars == ParseMarketCsv(rows).bars
<1>1. /\ DOMAIN bars = UsableRows(rows)
      /\ \A i \in UsableRows(rows) : /\ bars[i].timestamp = rows[i].timestamp
                                     /\ bars[i].quote = RepairedQuote(rows[i])
  BY DEF ParseMarketCsv
<1>2. \A i \in UsableRows(rows) : rows[i] \in SampleRow /\ Usable(rows[i])
  BY DEF UsableRows
<1>3. \A i \in UsableRows(rows) : EngineAcceptsQuote(bars[i].quote)
  BY <1>1, <1>2, RepairedQuoteAccepted
<1> HIDE DEF bars
<1> QED
  BY <1>1, <1>3 DEF RefusedForOrderOnly, EngineAcceptsSeries, InTimeOrder, bars

-----------------------------------------------------------------------------
(* Spellings agree across the handlers, and a limited query loses no bar.  *)

\* FoundHoweverSpelt, for any dataset, bar and query of its ticker that the
\* handlers accept.
THEOREM SpellingsAgree ==
  ASSUME NEW body, ValidateCreateDatasetInput(body),
         NEW item, BarAccepted(item),
         NEW query, Named(query, "symbol"), Bounds \cap DOMAIN query = {}
  PROVE  FoundHoweverSpelt(body, item, query)
<1>1. /\ body.symbol \in RawSymbols /\ item.symbol \in RawSymbols
      /\ query.symbol \in RawSymbols
  BY DEF ValidateCreateDatasetInput, BarAccepted, Named, DatasetFields
<1>2. \A s \in RawSymbols : UpperCase[s] \in RawSymbols /\ UpperCase[UpperCase[s]] = UpperCase[s]
  BY SpellingsAssumption
<1>3. PostedBar(item).symbol = UpperCase[item.symbol]
  BY <1>1, <1>2 DEF PostedBar
<1>4. UpperCase[item.symbol] = UpperCase[query.symbol] =>
        PostedBar(item) \in Found(query, {PostedBar(item)})
  BY <1>1, <1>2, <1>3 DEF Found, Bounds
<1> QED
  BY <1>3, <1>4 DEF FoundHoweverSpelt, CreatedTicker

\* PagesLoseNothing, for any bars the unique index allows and any query of one
\* ticker: a bar left out of an answer is later than its last.
THEOREM TickerPagesComplete ==
  ASSUME NEW stored, KeysUnique(stored), \A bar \in stored : bar.timestamp \in Int,
         NEW query, Narrowed(query), QueryServed(query),
         "startTime" \in DOMAIN query => query.startTime \in Int,
         NEW answer, IsAnswer(answer, query, stored),
         NEW last \in answer, \A bar \in answer : bar.timestamp <= last.timestamp
  PROVE  PagesLoseNothing(query, stored, answer, last)
<1> DEFINE found == Found(query, stored)
           next == Onward(query, last)
<1>1. answer \subseteq found /\ found \subseteq stored
  BY DEF IsAnswer, Found
<1>2. /\ DOMAIN next = DOMAIN query \cup {"startTime"}
      /\ next.startTime = last.timestamp + 1
      /\ \A field \in DOMAIN query \ {"startTime"} : next[field] = query[field]
  BY DEF Onward
<1>3. Narrowed(next) /\ next.symbol = query.symbol
  BY <1>2 DEF Narrowed
<1>4. last.timestamp \in Int /\ last \in found
  BY <1>1
<1> HIDE DEF next
<1>5. ASSUME NEW bar \in found PROVE bar \in answer \cup Found(next, stored)
  <2>1. CASE bar \in answer
    BY <2>1
  <2>2. CASE bar \notin answer
    <3>1. last.timestamp <= bar.timestamp
      BY <2>2 DEF IsAnswer
    <3>2. bar.symbol = last.symbol
      BY <1>4, <1>5 DEF Found
    <3>3. bar.timestamp # last.timestamp
      BY <1>1, <1>4, <2>2, <3>2 DEF KeysUnique
    <3>4. bar \in stored /\ bar.timestamp \in Int
      BY <1>1
    <3>5. bar.timestamp >= last.timestamp + 1
      BY <1>4, <3>1, <3>3, <3>4
    <3>6. bar.symbol = UpperCase[UpperCase[next.symbol]]
      BY <1>3, <1>5 DEF Found
    <3>7. "endTime" \in DOMAIN next => bar.timestamp <= next.endTime
      BY <1>2 DEF Found
    <3> QED
      BY <1>2, <3>4, <3>5, <3>6, <3>7 DEF Found
  <2> QED
    BY <2>1, <2>2
<1>6. ASSUME NEW bar \in Found(next, stored) PROVE bar \in found
  <2>1. /\ bar \in stored /\ bar.timestamp \in Int
        /\ bar.symbol = UpperCase[UpperCase[query.symbol]]
        /\ bar.timestamp >= last.timestamp + 1
    BY <1>2, <1>3 DEF Found
  <2>2. "startTime" \in DOMAIN query => bar.timestamp >= query.startTime
    <3>1. "startTime" \in DOMAIN query => last.timestamp >= query.startTime
      BY <1>4 DEF Found
    <3> QED
      BY <1>4, <2>1, <3>1
  <2>3. "endTime" \in DOMAIN query => bar.timestamp <= query.endTime
    BY <1>2 DEF Found
  <2> QED
    BY <2>1, <2>2, <2>3 DEF Found
<1> QED
  BY <1>1, <1>5, <1>6 DEF PagesLoseNothing, next

-----------------------------------------------------------------------------
(* The table of a CSV file.  Writing is described by the places at which a *)
(* line is cut, reading (Cells) counts quotation marks and delimiters; the *)
(* first argument is about counting along a stretch of numbers.            *)

(* Sets of natural numbers have a least element.                           *)
LEMMA LeastNumber ==
  ASSUME NEW T, T \subseteq Nat, T # {}
  PROVE  \E x \in T : \A y \in T : x <= y
<1>1. PICK x \in T : \A y \in T : ~(<<y, x>> \in OpToRel(<, Nat))
  BY NatLessThanWellFounded, WFMin
<1>2. \A y \in T : ~(y < x)
  BY <1>1 DEF OpToRel
<1> QED
  BY <1>2

(* The numbers of a stretch have what the first has, if each hands it on.  *)
LEMMA AlongStretch ==
  ASSUME NEW a \in Nat, NEW b \in Nat, NEW S, a \in S,
         \A i \in a..b : i \in S /\ i < b => i + 1 \in S
  PROVE  \A i \in a..b : i \in S
<1> DEFINE T == {i \in a..b : i \notin S}
<1> SUFFICES ASSUME T # {} PROVE FALSE
  OBVIOUS
<1>1. T \subseteq Nat
  OBVIOUS
<1>2. PICK x \in T : \A y \in T : x <= y
  <2> HIDE DEF T
  <2> QED
    BY <1>1, LeastNumber
<1>3. x \in a..b /\ x \notin S /\ x # a
  OBVIOUS
<1>4. x - 1 \in a..b /\ x - 1 \notin T /\ x - 1 < b /\ (x - 1) + 1 = x
  BY <1>2, <1>3
<1> QED
  BY <1>3, <1>4

(* The places of a set that a list names in their order are as many as the *)
(* list is long, and the n-th of them is the n-th of the list.             *)
LEMMA NthOfList ==
  ASSUME NEW m \in Nat, NEW f \in [1..m -> Int],
         \A k, l \in 1..m : k < l => f[k] < f[l]
  PROVE  LET S == {f[k] : k \in 1..m}
         IN Cardinality(S) = m /\ \A n \in 1..m : Nth(S, n) = f[n]
<1> DEFINE S == {f[k] : k \in 1..m}
           P(n) == {f[k] : k \in 1..n}
<1>1. \A k, l \in 1..m : (k < l <=> f[k] < f[l]) /\ (f[k] = f[l] => k = l)
  OBVIOUS
<1>2. ASSUME NEW n \in 0..m
      PROVE  Cardinality(P(n)) = n
  <2> DEFINE g == [k \in 1..n |-> f[k]]
  <2>1. g \in Bijection(1..n, P(n))
    BY <1>1 DEF Bijection, Injection, IsInjective, Surjection
  <2>2. ExistsBijection(1..n, P(n))
    BY <2>1 DEF ExistsBijection
  <2> HIDE DEF P
  <2> QED
    BY <2>2, FS_CountingElements
<1>3. Cardinality(S) = m
  <2>1. m \in 0..m /\ P(m) = S
    OBVIOUS
  <2> HIDE DEF P, S
  <2> QED
    BY <1>2, <2>1
<1>4. ASSUME NEW n \in 1..m
      PROVE  Cardinality({j \in S : j < f[n]}) = n - 1
  <2>1. {j \in S : j < f[n]} = P(n - 1)
    BY <1>1
  <2>2. n - 1 \in 0..m
    OBVIOUS
  <2> HIDE DEF P, S
  <2> QED
    BY <1>2, <2>1, <2>2
<1>5. ASSUME NEW n \in 1..m
      PROVE  Nth(S, n) = f[n]
  <2>1. f[n] \in S /\ Cardinality({j \in S : j < f[n]}) = n - 1
    BY <1>4
  <2>2. \A i \in S : Cardinality({j \in S : j < i}) = n - 1 => i = f[n]
    BY <1>4
  <2> HIDE DEF S
  <2> QED
    BY <2>1, <2>2 DEF Nth
<1> QED
  BY <1>3, <1>5

(* The words at a stretch of places are those that stand there.            *)
LEMMA StretchOfWords ==
  ASSUME NEW words, NEW s \in Nat, NEW n \in Nat, NEW part, part = [k \in 1..n |-> words[s + k]]
  PROVE  WordsAt(words, (s + 1)..(s + n)) = part
<1> DEFINE f == [k \in 1..n |-> s + k]
           places == (s + 1)..(s + n)
<1>1. f \in [1..n -> Int] /\ \A k, l \in 1..n : k < l => f[k] < f[l]
  OBVIOUS
<1>2. places = {f[k] : k \in 1..n}
  <2>1. \A i \in places : i - s \in 1..n /\ f[i - s] = i
    OBVIOUS
  <2>2. \A k \in 1..n : f[k] \in places
    OBVIOUS
  <2> HIDE DEF f, places
  <2> QED
    BY <2>1, <2>2
<1>3. Cardinality(places) = n /\ \A k \in 1..n : Nth(places, k) = f[k]
  <2> HIDE DEF f, places
  <2> QED
    BY <1>1, <1>2, NthOfList
<1>4. \A k \in 1..n : words[f[k]] = words[s + k]
  OBVIOUS
<1> HIDE DEF f, places
<1>5. WordsAt(words, places) = [k \in 1..n |-> words[s + k]]
  BY <1>3, <1>4 DEF WordsAt
<1> QED
  BY <1>5 DEF places

(* Words that neither begin nor end with a blank.                          *)
Tight(words) ==
  words = <<>> \/ (words[1] \notin Blanks /\ words[Len(words)] \notin Blanks)

(* Words with blanks before and after them.                                *)
Pads(padded, words) ==
  \E s \in Nat :
    /\ s + Len(words) <= Len(padded)
    /\ \A k \in 1..Len(words) : padded[s + k] = words[k]
    /\ \A i \in 1..Len(padded) : i <= s \/ i > s + Len(words) => padded[i] \in Blanks

(* Trimming takes the blanks around words and no word.                     *)
LEMMA TrimmedOfPadded ==
  ASSUME NEW W, NEW padded \in Seq(W), NEW words \in Seq(W), Tight(words), Pads(padded, words)
  PROVE  Trimmed(padded) = words
<1> DEFINE n == Len(words)
           solid == {i \in DOMAIN padded : padded[i] \notin Blanks}
           kept == {i \in DOMAIN padded : (\E j \in solid : j <= i) /\ (\E k \in solid : i <= k)}
<1>1. PICK s \in Nat :
        /\ s + n <= Len(padded)
        /\ \A k \in 1..n : padded[s + k] = words[k]
        /\ \A i \in 1..Len(padded) : i <= s \/ i > s + n => padded[i] \in Blanks
  BY DEF Pads
<1>2. n \in Nat /\ DOMAIN padded = 1..Len(padded) /\ Len(padded) \in Nat
      /\ words = [k \in 1..n |-> words[k]]
  OBVIOUS
<1>3. solid \subseteq (s + 1)..(s + n)
  BY <1>1, <1>2
<1>4. kept = (s + 1)..(s + n)
  <2>1. CASE n = 0
    <3>1. (s + 1)..(s + n) = {}
      BY <1>2, <2>1
    <3> HIDE DEF n, solid
    <3> QED
      BY <1>3, <3>1
  <2>2. CASE n # 0
    <3>1. words[1] \notin Blanks /\ words[n] \notin Blanks
      BY <2>2 DEF Tight
    <3>2. 1 \in 1..n /\ n \in 1..n
      BY <1>2, <2>2
    <3>3. padded[s + 1] = words[1] /\ padded[s + n] = words[n]
      BY <1>1, <3>2
    <3>4. s + 1 \in 1..Len(padded) /\ s + n \in 1..Len(padded)
      BY <1>1, <1>2, <2>2
    <3>5. s + 1 \in solid /\ s + n \in solid
      BY <1>2, <3>1, <3>3, <3>4
    <3> HIDE DEF n, solid
    <3>6. \A i \in (s + 1)..(s + n) : i \in DOMAIN padded /\ s + 1 <= i /\ i <= s + n
      BY <1>1, <1>2
    <3>7. \A i, j, k \in Nat : /\ j \in (s + 1)..(s + n) /\ j <= i
                              /\ k \in (s + 1)..(s + n) /\ i <= k => i \in (s + 1)..(s + n)
      BY <1>2
    <3>8. \A i \in kept : i \in (s + 1)..(s + n)
      <4> SUFFICES ASSUME NEW i \in kept PROVE i \in (s + 1)..(s + n)
        OBVIOUS
      <4>1. PICK j \in solid : j <= i
        OBVIOUS
      <4>2. PICK k \in solid : i <= k
        OBVIOUS
      <4>3. i \in Nat /\ j \in Nat /\ k \in Nat
        BY <1>2, <1>3
      <4> QED
        BY <1>3, <3>7, <4>1, <4>2, <4>3
    <3>9. \A i \in (s + 1)..(s + n) : i \in kept
      BY <3>5, <3>6
    <3> HIDE DEF kept
    <3> QED
      BY <3>8, <3>9
  <2> QED
    BY <2>1, <2>2
<1>5. words = [k \in 1..n |-> padded[s + k]]
  BY <1>1, <1>2
<1>6. WordsAt(padded, kept) = words
  <2> HIDE DEF kept, n
  <2> QED
    BY <1>2, <1>4, <1>5, StretchOfWords
<1> QED
  BY <1>6 DEF Trimmed

(* A place is in quotes as the one before it is, or not, if that is a      *)
(* quotation mark.                                                         *)
LEMMA QuotesTurn ==
  ASSUME NEW W, NEW line \in Seq(W)
  PROVE  /\ ~InQuotes(line, 1)
         /\ \A i \in DOMAIN line :
              InQuotes(line, i + 1)
                <=> IF line[i] = Mark THEN ~InQuotes(line, i) ELSE InQuotes(line, i)
<1> DEFINE M(i) == {j \in 1..(i - 1) : line[j] = Mark}
<1>1. M(1) = {} /\ Cardinality({}) = 0
  BY FS_EmptySet
<1>2. ~InQuotes(line, 1)
  BY <1>1 DEF InQuotes
<1>3. ASSUME NEW i \in DOMAIN line
      PROVE  InQuotes(line, i + 1)
               <=> IF line[i] = Mark THEN ~InQuotes(line, i) ELSE InQuotes(line, i)
  <2>1. i \in Nat \ {0} /\ i - 1 \in Int
    OBVIOUS
  <2>2. IsFiniteSet(M(i))
    <3>1. IsFiniteSet(1..(i - 1))
      BY <2>1, FS_Interval
    <3>2. M(i) \subseteq 1..(i - 1)
      OBVIOUS
    <3> HIDE DEF M
    <3> QED
      BY <3>1, <3>2, FS_Subset
  <2>3. Cardinality(M(i)) \in Nat
    <3> HIDE DEF M
    <3> QED
      BY <2>2, FS_CardinalityType
  <2>4. M(i + 1) = IF line[i] = Mark THEN M(i) \cup {i} ELSE M(i)
    BY <2>1
  <2>5. i \notin M(i)
    BY <2>1
  <2>6. /\ InQuotes(line, i) <=> Cardinality(M(i)) % 2 = 1
        /\ InQuotes(line, i + 1) <=> Cardinality(M(i + 1)) % 2 = 1
    BY DEF InQuotes
  <2> HIDE DEF M
  <2>7. Cardinality(M(i + 1)) = IF line[i] = Mark THEN Cardinality(M(i)) + 1 ELSE Cardinality(M(i))
    BY <2>2, <2>4, <2>5, FS_AddElement
  <2>8. \A x \in Nat : (x + 1) % 2 = 1 <=> x % 2 # 1
    OBVIOUS
  <2>9. CASE line[i] = Mark
    BY <2>3, <2>6, <2>7, <2>8, <2>9
  <2>10. CASE line[i] # Mark
    BY <2>6, <2>7, <2>10
  <2> QED
    BY <2>9, <2>10
<1> QED
  BY <1>2, <1>3

(* A line spells a cell between two places: as it is, when none of some    *)
(* signs is in it, or in quotation marks.                                  *)
Spells(line, a, b, cell, signs) ==
  \/ /\ b = a + Len(cell) + 1
     /\ \A k \in 1..Len(cell) : line[a + k] = cell[k] /\ cell[k] \notin signs \cup {Mark}
  \/ /\ b = a + Len(cell) + 3
     /\ line[a + 1] = Mark /\ line[b - 1] = Mark
     /\ \A k \in 1..Len(cell) : line[a + 1 + k] = cell[k] /\ cell[k] # Mark

(* The places between two others that hold a word of the cell.             *)
Inside(line, a, b) == {i \in (a + 1)..(b - 1) : Literal(line, i)}

(* Such a stretch begins and ends outside of quotes, nothing in it cuts,   *)
(* and its words are those of the cell.                                    *)
LEMMA SpelledCell ==
  ASSUME NEW W, NEW line \in Seq(W), NEW cell \in Seq(W), NEW signs, Mark \notin signs,
         NEW a \in Nat, NEW b \in Nat, b <= Len(line) + 1, b <= Len(line) => line[b] # Mark,
         Spells(line, a, b, cell, signs), ~InQuotes(line, a + 1)
  PROVE  /\ ~InQuotes(line, b)
         /\ \A i \in (a + 1)..(b - 1) : line[i] \in signs => InQuotes(line, i)
         /\ WordsAt(line, Inside(line, a, b)) = cell
<1> DEFINE n == Len(cell)
           in == Inside(line, a, b)
<1>1. n \in Nat /\ cell \in [1..n -> W]
  OBVIOUS
<1>2. \A i \in (a + 1)..(b - 1) : i \in DOMAIN line
  OBVIOUS
<1>3. ASSUME NEW s \in Nat, in = (a + s + 1)..(a + s + n),
             \A k \in 1..n : line[a + s + k] = cell[k]
      PROVE  WordsAt(line, in) = cell
  <2> DEFINE t == a + s
  <2>1. cell = [k \in 1..n |-> line[t + k]]
    BY <1>1, <1>3
  <2>2. t \in Nat /\ in = (t + 1)..(t + n)
    BY <1>3
  <2> HIDE DEF in, n, t
  <2>3. WordsAt(line, (t + 1)..(t + n)) = cell
    BY <1>1, <2>1, <2>2, StretchOfWords
  <2> QED
    BY <2>2, <2>3
<1>4. CASE /\ b = a + n + 1
           /\ \A k \in 1..n : line[a + k] = cell[k] /\ cell[k] \notin signs \cup {Mark}
  <2> DEFINE S == {i \in Nat : ~InQuotes(line, i)}
  <2>1. \A i \in (a + 1)..(b - 1) : line[i] \notin signs \cup {Mark}
    <3>1. \A i \in (a + 1)..(b - 1) : i - a \in 1..n /\ a + (i - a) = i
      BY <1>1, <1>4
    <3> QED
      BY <1>4, <3>1
  <2>2. \A i \in (a + 1)..b : i \in S /\ i < b => i + 1 \in S
    <3> SUFFICES ASSUME NEW i \in (a + 1)..b, i \in S, i < b
                 PROVE  i + 1 \in S
      OBVIOUS
    <3>1. i \in (a + 1)..(b - 1) /\ i + 1 \in Nat
      OBVIOUS
    <3> QED
      BY <1>2, <2>1, <3>1, QuotesTurn
  <2>3. a + 1 \in S /\ a + 1 \in Nat /\ b \in (a + 1)..b
    BY <1>1, <1>4
  <2>4. b \in S
    <3> HIDE DEF S
    <3> QED
      BY <2>2, <2>3, AlongStretch
  <2>5. in = (a + 0 + 1)..(a + 0 + n)
    <3>1. \A i \in (a + 1)..(b - 1) : Literal(line, i)
      BY <2>1 DEF Literal
    <3>2. (a + 1)..(b - 1) = (a + 0 + 1)..(a + 0 + n)
      BY <1>1, <1>4
    <3> QED
      BY <3>1, <3>2 DEF Inside
  <2>6. \A k \in 1..n : line[a + 0 + k] = cell[k]
    BY <1>4
  <2>7. WordsAt(line, in) = cell
    <3> HIDE DEF in, n
    <3> QED
      BY <1>3, <2>5, <2>6
  <2> QED
    BY <2>1, <2>4, <2>7
<1>5. CASE /\ b = a + n + 3
           /\ line[a + 1] = Mark /\ line[b - 1] = Mark
           /\ \A k \in 1..n : line[a + 1 + k] = cell[k] /\ cell[k] # Mark
  <2> DEFINE S == {i \in Nat : InQuotes(line, i)}
  <2>1. \A i \in (a + 2)..(b - 2) : line[i] # Mark
    <3>1. \A i \in (a + 2)..(b - 2) : i - (a + 1) \in 1..n /\ a + 1 + (i - (a + 1)) = i
      BY <1>1, <1>5
    <3> SUFFICES ASSUME NEW i \in (a + 2)..(b - 2) PROVE line[i] # Mark
      OBVIOUS
    <3>2. i - (a + 1) \in 1..n /\ a + 1 + (i - (a + 1)) = i
      BY <3>1
    <3>3. line[a + 1 + (i - (a + 1))] # Mark
      BY <1>5, <3>2
    <3> QED
      BY <3>2, <3>3
  <2>2. \A i \in (a + 2)..(b - 1) : i \in S /\ i < b - 1 => i + 1 \in S
    <3> SUFFICES ASSUME NEW i \in (a + 2)..(b - 1), i \in S, i < b - 1
                 PROVE  i + 1 \in S
      OBVIOUS
    <3>1. i \in (a + 2)..(b - 2) /\ i \in (a + 1)..(b - 1) /\ i + 1 \in Nat
      OBVIOUS
    <3> QED
      BY <1>2, <2>1, <3>1, QuotesTurn
  <2>3. a + 2 \in S /\ a + 2 \in Nat /\ b - 1 \in Nat
    <3>1. a + 1 \in DOMAIN line /\ (a + 1) + 1 = a + 2
      BY <1>1, <1>5
    <3> QED
      BY <1>1, <1>5, <3>1, QuotesTurn
  <2>4. \A i \in (a + 2)..(b - 1) : i \in S
    <3> HIDE DEF S
    <3> QED
      BY <2>2, <2>3, AlongStretch
  <2>5. ~InQuotes(line, b)
    <3>1. b - 1 \in (a + 2)..(b - 1) /\ b - 1 \in DOMAIN line /\ (b - 1) + 1 = b
      BY <1>1, <1>5
    <3> QED
      BY <1>5, <2>4, <3>1, QuotesTurn
  <2>6. \A i \in (a + 1)..(b - 1) : line[i] \in signs => InQuotes(line, i)
    <3>1. \A i \in (a + 1)..(b - 1) : i = a + 1 \/ i \in (a + 2)..(b - 1)
      OBVIOUS
    <3>2. line[a + 1] \notin signs
      BY <1>5
    <3>3. \A i \in (a + 2)..(b - 1) : InQuotes(line, i)
      BY <2>4
    <3> QED
      BY <3>1, <3>2, <3>3
  <2>7. in = (a + 1 + 1)..(a + 1 + n)
    <3>1. \A i \in (a + 1)..(b - 1) : i = a + 1 \/ i = b - 1 \/ i \in (a + 2)..(b - 2)
      OBVIOUS
    <3>2. (a + 1 + 1)..(a + 1 + n) = (a + 2)..(b - 2) /\ (a + 2)..(b - 2) \subseteq (a + 1)..(b - 1)
      BY <1>1, <1>5
    <3>3. ~Literal(line, a + 1)
      BY <1>5 DEF Literal
    <3>4. ~Literal(line, b - 1)
      <4>1. (b - 1) + 1 = b /\ (b - 1 < Len(line) => b <= Len(line))
        OBVIOUS
      <4> QED
        BY <1>5, <4>1 DEF Literal
    <3>5. \A i \in (a + 2)..(b - 2) : Literal(line, i)
      BY <2>1 DEF Literal
    <3>6. \A i \in in : i \in (a + 2)..(b - 2)
      BY <3>1, <3>3, <3>4 DEF Inside
    <3>7. \A i \in (a + 2)..(b - 2) : i \in in
      BY <3>2, <3>5 DEF Inside
    <3> HIDE DEF in
    <3> QED
      BY <3>2, <3>6, <3>7
  <2>8. \A k \in 1..n : line[a + 1 + k] = cell[k]
    BY <1>5
  <2>9. WordsAt(line, in) = cell
    <3> HIDE DEF in, n
    <3> QED
      BY <1>3, <2>7, <2>8
  <2> QED
    BY <2>5, <2>6, <2>9
<1> QED
  BY <1>4, <1>5 DEF Spells

(* A line is cut into contents: it spells them one after the other, with a *)
(* delimiter, one of the signs, between them.                              *)
Cut(W, line, signs, d, cells, at) ==
  /\ line \in Seq(W) /\ cells \in Seq(Seq(W)) /\ cells # <<>>
  /\ d \in signs /\ Mark \notin signs
  /\ at \in [0..Len(cells) -> Nat]
  /\ at[0] = 0 /\ at[Len(cells)] = Len(line) + 1
  /\ \A c \in 1..Len(cells) : Spells(line, at[c - 1], at[c], cells[c], signs)
  /\ \A c \in 1..(Len(cells) - 1) : line[at[c]] = d

(* It writes cells if these are the contents but for blanks around them.   *)
Writes(W, line, signs, d, cells) ==
  /\ cells \in Seq(Seq(W))
  /\ \E contents \in Seq(Seq(W)) : \E at \in [0..Len(contents) -> Nat] :
       /\ Cut(W, line, signs, d, contents, at)
       /\ Len(contents) = Len(cells)
       /\ \A c \in 1..Len(cells) : Tight(cells[c]) /\ Pads(contents[c], cells[c])

(* The places between which the cells are spelt come in their order.       *)
LEMMA PlacesInOrder ==
  ASSUME NEW W, NEW line, NEW signs, NEW d, NEW cells, NEW at,
         Cut(W, line, signs, d, cells, at)
  PROVE  /\ \A b, c \in 0..Len(cells) : b < c => at[b] < at[c]
         /\ \A c \in 0..Len(cells) : at[c] <= Len(line) + 1
         /\ \A c \in 1..(Len(cells) - 1) : at[c] \in 1..Len(line)
<1> DEFINE n == Len(cells)
<1>1. n \in Nat /\ n > 0 /\ \A c \in 1..n : Len(cells[c]) \in Nat
  BY DEF Cut
<1>2. \A c \in 0..n : at[c] \in Nat
  BY DEF Cut
<1>3. ASSUME NEW c \in 1..n
      PROVE  at[c - 1] < at[c]
  <2>1. c - 1 \in 0..n /\ c \in 0..n /\ Len(cells[c]) \in Nat
    BY <1>1
  <2>2. Spells(line, at[c - 1], at[c], cells[c], signs)
    BY DEF Cut
  <2>3. at[c - 1] \in Nat
    BY <1>2, <2>1
  <2> QED
    BY <2>1, <2>2, <2>3 DEF Spells
<1> HIDE DEF n
<1>4. \A b, c \in 0..n : b < c => at[b] < at[c]
  <2> SUFFICES ASSUME NEW b \in 0..n PROVE \A c \in (b + 1)..n : at[b] < at[c]
    BY <1>1
  <2> DEFINE S == {c \in (b + 1)..n : at[b] < at[c]}
  <2>1. CASE b < n
    <3>1. b + 1 \in S /\ b + 1 \in Nat
      <4>1. b + 1 \in 1..n /\ (b + 1) - 1 = b
        BY <1>1, <2>1
      <4>2. at[b] < at[b + 1]
        BY <1>3, <4>1
      <4> QED
        BY <1>1, <2>1, <4>2
    <3>2. ASSUME NEW i \in (b + 1)..n, i \in S, i < n
          PROVE  i + 1 \in S
      <4>1. /\ i + 1 \in 1..n /\ (i + 1) - 1 = i /\ i \in 0..n
            /\ i + 1 \in 0..n /\ i + 1 \in (b + 1)..n
        BY <1>1, <3>2
      <4>2. at[i] < at[i + 1] /\ at[b] < at[i]
        BY <1>3, <3>2, <4>1
      <4>3. at[b] \in Nat /\ at[i] \in Nat /\ at[i + 1] \in Nat
        BY <1>2, <4>1
      <4> QED
        BY <4>1, <4>2, <4>3
    <3>3. \A c \in (b + 1)..n : c \in S
      <4> HIDE DEF S
      <4> QED
        BY <1>1, <3>1, <3>2, AlongStretch
    <3> QED
      BY <3>3
  <2>2. CASE b = n
    BY <1>1, <2>2
  <2> QED
    BY <1>1, <2>1, <2>2
<1>5. 0 \in 0..n /\ n \in 0..n /\ at[0] = 0 /\ at[n] = Len(line) + 1 /\ Len(line) \in Nat
  BY <1>1 DEF Cut, n
<1>6. ASSUME NEW c \in 0..n
      PROVE  at[c] <= Len(line) + 1
  <2>1. CASE c = n
    BY <1>5, <2>1
  <2>2. CASE c # n
    <3>1. c < n
      BY <1>1, <2>2
    <3> QED
      BY <1>2, <1>4, <1>5, <3>1
  <2> QED
    BY <2>1, <2>2
<1>7. ASSUME NEW c \in 1..(n - 1)
      PROVE  at[c] \in 1..Len(line)
  <2>1. c \in 0..n /\ 0 < c /\ c < n
    BY <1>1
  <2>2. at[0] < at[c] /\ at[c] < at[n] /\ at[c] \in Nat
    BY <1>2, <1>4, <1>5, <2>1
  <2> QED
    BY <1>5, <2>2
<1> QED
  BY <1>4, <1>6, <1>7 DEF n

(* Every place of the line is in a cell or ends one.                       *)
LEMMA PlaceInCell ==
  ASSUME NEW W, NEW line, NEW signs, NEW d, NEW cells, NEW at,
         Cut(W, line, signs, d, cells, at), NEW i \in DOMAIN line
  PROVE  \E c \in 1..Len(cells) :
           i \in (at[c - 1] + 1)..(at[c] - 1) \/ (c < Len(cells) /\ i = at[c])
<1> DEFINE n == Len(cells)
           T == {c \in 0..n : i <= at[c]}
<1>1. n \in Nat /\ n > 0 /\ n \in 0..n /\ 0 \in 0..n
  BY DEF Cut
<1>2. i \in Nat /\ i > 0 /\ i <= Len(line) /\ Len(line) \in Nat
  BY DEF Cut
<1>3. n \in T /\ 0 \notin T /\ T \subseteq Nat
  BY <1>1, <1>2 DEF Cut
<1>4. PICK c \in T : \A y \in T : c <= y
  <2> HIDE DEF T
  <2> QED
    BY <1>3, LeastNumber
<1>5. c \in 1..n /\ c - 1 \in 0..n /\ c - 1 \notin T
  BY <1>1, <1>3, <1>4
<1>6. at[c] \in Nat /\ at[c - 1] \in Nat
  BY <1>5 DEF Cut
<1>7. i <= at[c] /\ ~(i <= at[c - 1])
  BY <1>5
<1>8. c = n => i # at[c]
  BY <1>2 DEF Cut
<1>9. i \in (at[c - 1] + 1)..(at[c] - 1) \/ (c < n /\ i = at[c])
  BY <1>1, <1>2, <1>5, <1>6, <1>7, <1>8
<1> QED
  BY <1>5, <1>9

(* Every cell ends outside of quotes, nothing cuts within it, and its      *)
(* words are those between its ends.                                       *)
LEMMA CellsApart ==
  ASSUME NEW W, NEW line, NEW signs, NEW d, NEW cells, NEW at,
         Cut(W, line, signs, d, cells, at)
  PROVE  \A c \in 1..Len(cells) :
           /\ ~InQuotes(line, at[c])
           /\ \A i \in (at[c - 1] + 1)..(at[c] - 1) : line[i] \in signs => InQuotes(line, i)
           /\ WordsAt(line, Inside(line, at[c - 1], at[c])) = cells[c]
<1> DEFINE n == Len(cells)
           Apart(c) ==
             /\ ~InQuotes(line, at[c])
             /\ \A i \in (at[c - 1] + 1)..(at[c] - 1) : line[i] \in signs => InQuotes(line, i)
             /\ WordsAt(line, Inside(line, at[c - 1], at[c])) = cells[c]
           S == {c \in 1..n : ~InQuotes(line, at[c - 1] + 1)}
<1>1. n \in Nat /\ n > 0 /\ line \in Seq(W) /\ Mark \notin signs /\ d # Mark
  BY DEF Cut
<1>2. ASSUME NEW c \in 1..n, ~InQuotes(line, at[c - 1] + 1)
      PROVE  Apart(c)
  <2>1. c - 1 \in 0..n /\ c \in 0..n
    BY <1>1
  <2>2. at[c - 1] \in Nat /\ at[c] \in Nat
    BY <2>1 DEF Cut
  <2>3. at[c] <= Len(line) + 1
    BY <2>1, PlacesInOrder
  <2>4. Spells(line, at[c - 1], at[c], cells[c], signs)
    BY DEF Cut
  <2>5. cells[c] \in Seq(W)
    BY DEF Cut
  <2>6. at[c] <= Len(line) => line[at[c]] # Mark
    <3>1. c = n => at[c] = Len(line) + 1
      BY DEF Cut
    <3>2. c # n => c \in 1..(n - 1)
      BY <1>1
    <3>3. \A x \in 1..(n - 1) : line[at[x]] = d
      BY DEF Cut
    <3>4. Len(line) \in Nat
      BY <1>1
    <3> QED
      BY <1>1, <3>1, <3>2, <3>3, <3>4
  <2> QED
    BY <1>1, <1>2, <2>2, <2>3, <2>4, <2>5, <2>6, SpelledCell
<1>3. 1 \in S
  <2>1. at[1 - 1] + 1 = 1
    BY DEF Cut
  <2> QED
    BY <1>1, <2>1, QuotesTurn
<1>4. ASSUME NEW c \in 1..n, c \in S, c < n
      PROVE  c + 1 \in S
  <2>1. ~InQuotes(line, at[c])
    <3> HIDE DEF n
    <3> QED
      BY <1>2, <1>4
  <2>2. c \in 1..(n - 1) /\ c + 1 \in 1..n /\ (c + 1) - 1 = c
    BY <1>1, <1>4
  <2>3. line[at[c]] = d
    BY <2>2 DEF Cut
  <2>4. at[c] \in DOMAIN line
    BY <1>1, <2>2, PlacesInOrder
  <2>5. ~InQuotes(line, at[c] + 1)
    BY <1>1, <2>1, <2>3, <2>4, QuotesTurn
  <2> QED
    BY <2>2, <2>5
<1>5. \A c \in 1..n : c \in S
  <2> HIDE DEF S
  <2> QED
    BY <1>1, <1>3, <1>4, AlongStretch
<1>6. \A c \in 1..n : Apart(c)
  <2>1. \A c \in 1..n : ~InQuotes(line, at[c - 1] + 1)
    BY <1>5
  <2> HIDE DEF Apart
  <2> QED
    BY <1>2, <2>1
<1> QED
  BY <1>6

(* What is written with a delimiter is cut at the ends of its cells and    *)
(* nowhere else, whichever of the signs one cuts at.                       *)
LEMMA CutsAtEnds ==
  ASSUME NEW W, NEW line, NEW signs, NEW d, NEW cells, NEW at,
         Cut(W, line, signs, d, cells, at)
  PROVE  /\ Cuts(line, d) = {at[c] : c \in 1..(Len(cells) - 1)}
         /\ \A e \in signs \ {d} : Cuts(line, e) = {}
<1> DEFINE n == Len(cells)
<1>1. n \in Nat /\ n > 0 /\ line \in Seq(W) /\ d \in signs
  BY DEF Cut
<1>2. ASSUME NEW c \in 1..(n - 1)
      PROVE  at[c] \in DOMAIN line /\ line[at[c]] = d /\ ~InQuotes(line, at[c])
  <2>1. c \in 1..n
    BY <1>1
  <2>2. line[at[c]] = d
    BY DEF Cut
  <2>3. at[c] \in DOMAIN line
    BY <1>1, PlacesInOrder
  <2>4. ~InQuotes(line, at[c])
    BY <2>1, CellsApart
  <2> QED
    BY <2>2, <2>3, <2>4
<1>3. ASSUME NEW i \in DOMAIN line, line[i] \in signs, ~InQuotes(line, i)
      PROVE  \E c \in 1..(n - 1) : i = at[c]
  <2>1. PICK c \in 1..n : i \in (at[c - 1] + 1)..(at[c] - 1) \/ (c < n /\ i = at[c])
    BY PlaceInCell
  <2>2. i \notin (at[c - 1] + 1)..(at[c] - 1)
    BY <1>3, CellsApart
  <2> QED
    BY <1>1, <2>1, <2>2
<1>4. ASSUME NEW e \in signs, NEW i \in Cuts(line, e)
      PROVE  e = d /\ \E c \in 1..(n - 1) : i = at[c]
  <2>1. i \in DOMAIN line /\ line[i] = e /\ ~InQuotes(line, i)
    BY DEF Cuts
  <2>2. PICK c \in 1..(n - 1) : i = at[c]
    BY <1>3, <2>1
  <2> QED
    BY <1>2, <2>1, <2>2
<1>5. \A c \in 1..(n - 1) : at[c] \in Cuts(line, d)
  BY <1>2 DEF Cuts
<1>6. Cuts(line, d) = {at[c] : c \in 1..(n - 1)}
  BY <1>1, <1>4, <1>5
<1>7. \A e \in signs \ {d} : Cuts(line, e) = {}
  BY <1>4
<1> QED
  BY <1>6, <1>7

(* Parsing undoes writing.                                                 *)
LEMMA CellsAsWritten ==
  ASSUME NEW W, NEW line, NEW signs, NEW d, NEW cells, Writes(W, line, signs, d, cells)
  PROVE  /\ Cells(line, d) = cells
         /\ \A e \in signs \ {d} : Width(line, e) = 1
<1> DEFINE n == Len(cells)
<1>1. PICK contents, at :
        /\ Cut(W, line, signs, d, contents, at)
        /\ Len(contents) = n
        /\ \A c \in 1..n : Tight(cells[c]) /\ Pads(contents[c], cells[c])
  BY DEF Writes
<1>2. n \in Nat /\ n > 0 /\ cells = [c \in 1..n |-> cells[c]]
  <2>1. contents \in Seq(Seq(W)) /\ contents # <<>> /\ Len(contents) = n
    BY <1>1 DEF Cut
  <2>2. cells \in Seq(Seq(W))
    BY DEF Writes
  <2> QED
    BY <2>1, <2>2
<1>3. at[0] = 0 /\ at[n] = Len(line) + 1
  BY <1>1 DEF Cut
<1> DEFINE f == [c \in 1..n |-> at[c - 1]]
           cuts == Cuts(line, d) \cup {0}
           end(c) == IF c = Cardinality(cuts) THEN Len(line) + 1 ELSE Nth(cuts, c + 1)
           inside(c) == {i \in (Nth(cuts, c) + 1)..(end(c) - 1) : Literal(line, i)}
<1>4. f \in [1..n -> Int] /\ \A b, c \in 1..n : b < c => f[b] < f[c]
  <2>1. \A c \in 1..n : c - 1 \in 0..n /\ at[c - 1] \in Nat
    <3>1. at \in [0..n -> Nat]
      BY <1>1 DEF Cut
    <3> HIDE DEF n
    <3> QED
      BY <1>2, <3>1
  <2>2. \A b, c \in 0..n : b < c => at[b] < at[c]
    BY <1>1, PlacesInOrder
  <2>3. ASSUME NEW b \in 1..n, NEW c \in 1..n, b < c
        PROVE  f[b] < f[c]
    <3>1. b - 1 < c - 1
      BY <2>3
    <3> QED
      BY <2>1, <2>2, <3>1
  <2> QED
    BY <2>1, <2>3
<1>5. cuts = {f[c] : c \in 1..n}
  <2>1. Cuts(line, d) = {at[c] : c \in 1..(n - 1)}
    <3>1. Cuts(line, d) = {at[c] : c \in 1..(Len(contents) - 1)}
      BY <1>1, CutsAtEnds
    <3>2. Len(contents) = n
      BY <1>1
    <3> HIDE DEF n
    <3> QED
      BY <3>1, <3>2, Zenon
  <2>2. \A c \in 1..n : f[c] = at[c - 1] /\ (c = 1 \/ c - 1 \in 1..(n - 1))
    OBVIOUS
  <2>3. \A c \in 1..(n - 1) : c + 1 \in 1..n /\ f[c + 1] = at[c]
    BY <1>2
  <2>4. 1 \in 1..n /\ f[1] = 0
    BY <1>2, <1>3
  <2> HIDE DEF f
  <2>5. ASSUME NEW x \in cuts PROVE \E c \in 1..n : x = f[c]
    BY <2>1, <2>3, <2>4
  <2>6. ASSUME NEW c \in 1..n PROVE f[c] \in cuts
    <3>1. CASE c = 1
      BY <2>4, <3>1
    <3>2. CASE c # 1
      BY <2>1, <2>2, <3>2
    <3> QED
      BY <3>1, <3>2
  <2> QED
    BY <2>5, <2>6
<1>6. Cardinality(cuts) = n /\ \A c \in 1..n : Nth(cuts, c) = f[c]
  <2> HIDE DEF f, cuts, n
  <2> QED
    BY <1>2, <1>4, <1>5, NthOfList
<1>7. ASSUME NEW c \in 1..n
      PROVE  Nth(cuts, c) = at[c - 1] /\ end(c) = at[c]
  <2>1. Nth(cuts, c) = at[c - 1]
    BY <1>6
  <2>2. CASE c = n
    BY <1>3, <1>6, <2>1, <2>2
  <2>3. CASE c # n
    <3>1. c + 1 \in 1..n /\ f[c + 1] = at[c]
      BY <1>2, <2>3
    <3> HIDE DEF cuts, f, n
    <3> QED
      BY <1>6, <2>1, <2>3, <3>1
  <2> HIDE DEF end
  <2> QED
    BY <2>1, <2>2, <2>3
<1>8. ASSUME NEW c \in 1..n
      PROVE  Trimmed(WordsAt(line, inside(c))) = cells[c]
  <2>1. WordsAt(line, Inside(line, at[c - 1], at[c])) = contents[c]
    <3>1. c \in 1..Len(contents)
      BY <1>1
    <3> QED
      BY <1>1, <3>1, CellsApart
  <2>2. inside(c) = Inside(line, at[c - 1], at[c])
    <3> HIDE DEF end, cuts
    <3> QED
      BY <1>7 DEF Inside
  <2>3. Trimmed(contents[c]) = cells[c]
    <3>1. contents[c] \in Seq(W) /\ cells[c] \in Seq(W)
      BY <1>1 DEF Writes, Cut
    <3> QED
      BY <1>1, <3>1, TrimmedOfPadded
  <2> HIDE DEF inside
  <2> QED
    BY <2>1, <2>2, <2>3
<1>9. Cells(line, d) = [c \in 1..Cardinality(cuts) |-> Trimmed(WordsAt(line, inside(c)))]
  BY DEF Cells
<1>10. Cells(line, d) = cells
  <2> HIDE DEF cuts, inside
  <2> QED
    BY <1>2, <1>6, <1>8, <1>9
<1>11. ASSUME NEW e \in signs \ {d}
       PROVE  Width(line, e) = 1
  <2> DEFINE C == Cells(line, e)
  <2>1. Cuts(line, e) \cup {0} = {0}
    BY <1>1, CutsAtEnds
  <2>2. Cardinality({0}) = 1
    BY FS_Singleton
  <2>3. DOMAIN C = 1..1 /\ C = [c \in 1..1 |-> C[c]]
    BY <2>1, <2>2 DEF Cells
  <2> HIDE DEF C
  <2>4. \A c \in 1..1 : C[c] \in {C[1]}
    OBVIOUS
  <2>5. C = <<C[1]>>
    BY <2>3, <2>4
  <2>6. Len(C) = 1
    BY <2>5
  <2> QED
    BY <2>6 DEF Width, C
<1> QED
  BY <1>10, <1>11

Holds(words, w) == \E i \in DOMAIN words : words[i] = w

SomeHolds(cells, w) == \E c \in DOMAIN cells : Holds(cells[c], w)

(* A word that is neither a quotation mark nor the delimiter is in a line  *)
(* as it is in one of its contents.                                        *)
LEMMA WordsAsCut ==
  ASSUME NEW W, NEW line, NEW signs, NEW d, NEW cells, NEW at,
         Cut(W, line, signs, d, cells, at),
         NEW w, w \notin {Mark, d}
  PROVE  Holds(line, w) <=> SomeHolds(cells, w)
<1> DEFINE n == Len(cells)
<1>1. at \in [0..n -> Nat] /\ Cut(W, line, signs, d, cells, at)
  BY DEF Cut
<1>2. n \in Nat /\ n > 0 /\ DOMAIN cells = 1..n
  BY <1>1 DEF Cut
<1>3. ASSUME NEW c \in 1..n
      PROVE  /\ at[c - 1] \in Nat /\ at[c] \in Nat /\ at[c] <= Len(line) + 1
             /\ Len(cells[c]) \in Nat /\ DOMAIN cells[c] = 1..Len(cells[c])
             /\ Spells(line, at[c - 1], at[c], cells[c], signs)
  <2>1. c - 1 \in 0..n /\ c \in 0..n
    BY <1>2
  <2>2. at[c] <= Len(line) + 1
    BY <1>1, <2>1, PlacesInOrder
  <2>3. cells[c] \in Seq(W) /\ Spells(line, at[c - 1], at[c], cells[c], signs)
    BY <1>1 DEF Cut
  <2>4. at[c - 1] \in Nat /\ at[c] \in Nat
    BY <1>1, <2>1
  <2>5. Len(cells[c]) \in Nat /\ DOMAIN cells[c] = 1..Len(cells[c])
    BY <2>3
  <2> QED
    BY <2>2, <2>3, <2>4, <2>5
<1>4. line \in Seq(W) /\ Len(line) \in Nat /\ DOMAIN line = 1..Len(line)
  BY <1>1 DEF Cut
<1>5. ASSUME NEW i \in DOMAIN line, line[i] = w
      PROVE  \E c \in DOMAIN cells : \E k \in DOMAIN cells[c] : cells[c][k] = w
  <2>1. PICK c \in 1..n : i \in (at[c - 1] + 1)..(at[c] - 1) \/ (c < n /\ i = at[c])
    BY <1>1, PlaceInCell
  <2>2. c < n => line[at[c]] = d
    <3>1. c < n => c \in 1..(n - 1)
      BY <1>2, <2>1
    <3>2. \A x \in 1..(n - 1) : line[at[x]] = d
      BY <1>1 DEF Cut
    <3> QED
      BY <3>1, <3>2
  <2>3. i \in (at[c - 1] + 1)..(at[c] - 1)
    BY <1>5, <2>1, <2>2
  <2>4. \E k \in 1..Len(cells[c]) : line[i] = cells[c][k]
    <3> DEFINE a == at[c - 1]
               b == at[c]
               m == Len(cells[c])
    <3>1. a \in Nat /\ b \in Nat /\ m \in Nat /\ i \in (a + 1)..(b - 1)
      BY <1>3, <2>3
    <3>2. CASE b = a + m + 1 /\ \A k \in 1..m : line[a + k] = cells[c][k]
      <4>1. i - a \in 1..m /\ a + (i - a) = i
        <5>1. b = a + m + 1 /\ i \in Int /\ a + 1 <= i /\ i <= b - 1
          BY <3>1, <3>2
        <5> HIDE DEF a, b, m
        <5> QED
          BY <3>1, <5>1
      <4>2. line[a + (i - a)] = cells[c][i - a]
        BY <3>2, <4>1
      <4> QED
        BY <4>1, <4>2
    <3>3. CASE /\ b = a + m + 3 /\ line[a + 1] = Mark /\ line[b - 1] = Mark
               /\ \A k \in 1..m : line[a + 1 + k] = cells[c][k]
      <4>1. i # a + 1 /\ i # b - 1
        BY <1>5, <3>3
      <4>2. i - (a + 1) \in 1..m /\ a + 1 + (i - (a + 1)) = i
        <5>1. i \in Int /\ a + 2 <= i /\ i <= b - 2
          <6> HIDE DEF a, b, m
          <6> QED
            BY <3>1, <4>1
        <5>2. b = a + m + 3
          BY <3>3
        <5> HIDE DEF a, b, m
        <5> QED
          BY <3>1, <5>1, <5>2
      <4>3. line[a + 1 + (i - (a + 1))] = cells[c][i - (a + 1)]
        BY <3>3, <4>2
      <4> QED
        BY <4>2, <4>3
    <3> QED
      BY <1>3, <3>2, <3>3 DEF Spells
  <2> QED
    BY <1>2, <1>3, <1>5, <2>4
<1>6. ASSUME NEW c \in DOMAIN cells, NEW k \in DOMAIN cells[c]
      PROVE  \E i \in DOMAIN line : line[i] = cells[c][k]
  <2> DEFINE a == at[c - 1]
             b == at[c]
             m == Len(cells[c])
  <2>1. /\ a \in Nat /\ b \in Nat /\ m \in Nat /\ k \in 1..m
        /\ b <= Len(line) + 1 /\ Spells(line, a, b, cells[c], signs)
    BY <1>2, <1>3
  <2>2. CASE b = a + m + 1 /\ \A l \in 1..m : line[a + l] = cells[c][l]
    <3>1. line[a + k] = cells[c][k]
      BY <2>1, <2>2
    <3>2. a + k \in 1..Len(line)
      <4>1. b = a + m + 1
        BY <2>2
      <4> HIDE DEF a, b, m
      <4> QED
        BY <1>4, <2>1, <4>1
    <3> QED
      BY <1>4, <3>1, <3>2
  <2>3. CASE b = a + m + 3 /\ \A l \in 1..m : line[a + 1 + l] = cells[c][l]
    <3>1. line[a + 1 + k] = cells[c][k]
      BY <2>1, <2>3
    <3>2. a + 1 + k \in 1..Len(line)
      <4>1. b = a + m + 3
        BY <2>3
      <4> HIDE DEF a, b, m
      <4> QED
        BY <1>4, <2>1, <4>1
    <3> QED
      BY <1>4, <3>1, <3>2
  <2> QED
    BY <2>1, <2>2, <2>3 DEF Spells
<1> QED
  BY <1>5, <1>6 DEF Holds, SomeHolds

(* ... and, if it is no blank, as it is in one of its cells.               *)
LEMMA WordsAsWritten ==
  ASSUME NEW W, NEW line, NEW signs, NEW d, NEW cells, Writes(W, line, signs, d, cells),
         NEW w, w \notin {Mark, d}, w \notin Blanks
  PROVE  Holds(line, w) <=> SomeHolds(cells, w)
<1>1. PICK contents \in Seq(Seq(W)) : \E at \in [0..Len(contents) -> Nat] :
        /\ Cut(W, line, signs, d, contents, at)
        /\ Len(contents) = Len(cells)
        /\ \A c \in 1..Len(cells) : Tight(cells[c]) /\ Pads(contents[c], cells[c])
  BY DEF Writes
<1>2. Holds(line, w) <=> SomeHolds(contents, w)
  BY <1>1, WordsAsCut
<1>3. cells \in Seq(Seq(W)) /\ DOMAIN cells = DOMAIN contents /\ DOMAIN cells = 1..Len(cells)
  <2>1. cells \in Seq(Seq(W))
    BY DEF Writes
  <2> QED
    BY <1>1, <2>1
<1>4. ASSUME NEW c \in DOMAIN cells
      PROVE  Holds(contents[c], w) <=> Holds(cells[c], w)
  <2> DEFINE padded == contents[c]
             cell == cells[c]
             n == Len(cell)
  <2>1. padded \in Seq(W) /\ cell \in Seq(W)
    <3>1. c \in DOMAIN contents /\ cells \in Seq(Seq(W))
      BY <1>3
    <3>2. \A s \in Seq(Seq(W)) : \A i \in DOMAIN s : s[i] \in Seq(W)
      OBVIOUS
    <3> QED
      BY <3>1, <3>2
  <2>2. Pads(padded, cell)
    BY <1>1, <1>3
  <2> HIDE DEF padded, cell
  <2>3. PICK s \in Nat :
          /\ s + n <= Len(padded)
          /\ \A k \in 1..n : padded[s + k] = cell[k]
          /\ \A i \in 1..Len(padded) : i <= s \/ i > s + n => padded[i] \in Blanks
    BY <2>2 DEF Pads
  <2>4. /\ DOMAIN padded = 1..Len(padded) /\ DOMAIN cell = 1..n
        /\ Len(padded) \in Nat /\ n \in Nat
    BY <2>1
  <2>5. ASSUME NEW i \in DOMAIN padded, padded[i] = w
        PROVE  \E k \in DOMAIN cell : cell[k] = w
    <3>1. ~(i <= s \/ i > s + n)
      BY <2>3, <2>4, <2>5
    <3>2. i - s \in 1..n /\ s + (i - s) = i
      BY <2>4, <3>1
    <3>3. padded[s + (i - s)] = cell[i - s]
      BY <2>3, <3>2
    <3> QED
      BY <2>4, <2>5, <3>2, <3>3
  <2>6. ASSUME NEW k \in DOMAIN cell, cell[k] = w
        PROVE  \E i \in DOMAIN padded : padded[i] = w
    <3>1. padded[s + k] = w
      BY <2>3, <2>4, <2>6
    <3>2. s + k \in 1..Len(padded)
      BY <2>3, <2>4
    <3> QED
      BY <2>4, <3>1, <3>2
  <2> QED
    BY <2>5, <2>6 DEF Holds, padded, cell
<1> QED
  BY <1>2, <1>3, <1>4 DEF SomeHolds

(* Lines write the rows of a table with a delimiter.  A delimiter of any   *)
(* kind is in a cell of the first row, that of this table in a cell of any *)
(* other, only if the cell is in quotation marks.                          *)
SomeDelimiter == {Delimiters[k] : k \in 1..4}

WritesLines(W, lines, d, rows) ==
  /\ Len(lines) = Len(rows)
  /\ \A i \in 1..Len(rows) :
       Writes(W, lines[i], IF i = 1 THEN SomeDelimiter ELSE {d}, d, rows[i])

(* A text shows lines: in their order, each with blanks around it, among   *)
(* lines of blanks or of nothing.                                          *)
Shows(W, text, lines) ==
  /\ text \in Seq(Seq(W)) /\ lines \in Seq(Seq(W))
  /\ \E at \in [1..Len(lines) -> 1..Len(text)] :
       /\ \A k, l \in 1..Len(lines) : k < l => at[k] < at[l]
       /\ \A k \in 1..Len(lines) :
            lines[k] # <<>> /\ Tight(lines[k]) /\ Pads(text[at[k]], lines[k])
       /\ \A i \in 1..Len(text) :
            (\A k \in 1..Len(lines) : i # at[k]) => Pads(text[i], <<>>)

(* A text writes a table.  Its lines do not begin or end with a blank: one *)
(* whose first or last cell is blank and which is cut by tabs would, and   *)
(* loses that tab; no text of this kind writes such a row.                 *)
WritesTable(W, text, d, rows) ==
  \E lines \in Seq(Seq(W)) : Shows(W, text, lines) /\ WritesLines(W, lines, d, rows)

(* The lines that a text shows are those that are read.                    *)
LEMMA LinesAsShown ==
  ASSUME NEW W, NEW text, NEW lines, Shows(W, text, lines)
  PROVE  NonblankLines(text) = lines
<1> DEFINE m == Len(lines)
           trimmed == TrimmedLines(text)
           places == {i \in DOMAIN trimmed : trimmed[i] # <<>>}
<1>1. PICK at \in [1..m -> 1..Len(text)] :
        /\ \A k, l \in 1..m : k < l => at[k] < at[l]
        /\ \A k \in 1..m : lines[k] # <<>> /\ Tight(lines[k]) /\ Pads(text[at[k]], lines[k])
        /\ \A i \in 1..Len(text) : (\A k \in 1..m : i # at[k]) => Pads(text[i], <<>>)
  BY DEF Shows
<1>2. /\ text \in Seq(Seq(W)) /\ lines \in Seq(Seq(W))
      /\ m \in Nat /\ lines = [k \in 1..m |-> lines[k]]
      /\ DOMAIN text = 1..Len(text)
  BY DEF Shows
<1>3. DOMAIN trimmed = 1..Len(text) /\ \A i \in 1..Len(text) : trimmed[i] = Trimmed(text[i])
  BY <1>2 DEF TrimmedLines
<1>4. ASSUME NEW k \in 1..m
      PROVE  at[k] \in 1..Len(text) /\ trimmed[at[k]] = lines[k] /\ lines[k] # <<>>
  <2>1. at[k] \in 1..Len(text)
    OBVIOUS
  <2>2. text[at[k]] \in Seq(W) /\ lines[k] \in Seq(W)
    BY <1>2, <2>1
  <2>3. Trimmed(text[at[k]]) = lines[k]
    BY <1>1, <2>2, TrimmedOfPadded
  <2> QED
    BY <1>1, <1>3, <2>1, <2>3
<1>5. ASSUME NEW i \in 1..Len(text), \A k \in 1..m : i # at[k]
      PROVE  trimmed[i] = <<>>
  <2>1. Pads(text[i], <<>>) /\ text[i] \in Seq(W) /\ <<>> \in Seq(W)
    BY <1>1, <1>2, <1>5
  <2>2. Tight(<<>>)
    BY DEF Tight
  <2>3. Trimmed(text[i]) = <<>>
    BY <2>1, <2>2, TrimmedOfPadded
  <2> QED
    BY <1>3, <2>3
<1> HIDE DEF trimmed
<1>6. places = {at[k] : k \in 1..m}
  <2>1. \A k \in 1..m : at[k] \in places
    BY <1>3, <1>4
  <2>2. \A i \in places : i \in 1..Len(text) /\ trimmed[i] # <<>>
    BY <1>3
  <2>3. \A i \in places : \E k \in 1..m : i = at[k]
    BY <1>5, <2>2
  <2> HIDE DEF places, m
  <2> QED
    BY <2>1, <2>3
<1> HIDE DEF places, m
<1>7. at \in [1..m -> Int]
  OBVIOUS
<1>8. Cardinality(places) = m /\ \A k \in 1..m : Nth(places, k) = at[k]
  BY <1>1, <1>2, <1>6, <1>7, NthOfList
<1>9. WordsAt(trimmed, places) = [k \in 1..m |-> lines[k]]
  BY <1>4, <1>8 DEF WordsAt
<1> QED
  BY <1>2, <1>9 DEF NonblankLines, places, trimmed

(* The delimiters are four signs, none of them a quotation mark or a word  *)
(* that annotates.                                                         *)
LEMMA DelimitersApart ==
  /\ DOMAIN Delimiters = 1..4
  /\ \A k, l \in 1..4 : k # l => Delimiters[k] # Delimiters[l]
  /\ \A w \in {"dividend", "split", "bonus", "capital gain"} :
       w # Mark /\ w \notin SomeDelimiter /\ w \notin Blanks
<1>1. /\ DOMAIN Delimiters = 1..4 /\ Delimiters[1] = "," /\ Delimiters[2] = "\t"
      /\ Delimiters[3] = ";" /\ Delimiters[4] = "|"
  BY DEF Delimiters
<1>2. \A k \in 1..4 : k = 1 \/ k = 2 \/ k = 3 \/ k = 4
  OBVIOUS
<1>3. \A k, l \in 1..4 : k # l => Delimiters[k] # Delimiters[l]
  BY <1>1, <1>2
<1>4. \A d \in SomeDelimiter : d = "," \/ d = "\t" \/ d = ";" \/ d = "|"
  BY <1>1, <1>2 DEF SomeDelimiter
<1>5. \A w \in {"dividend", "split", "bonus", "capital gain"} :
        w # Mark /\ w \notin SomeDelimiter /\ w \notin Blanks
  BY <1>4 DEF Mark, Blanks
<1> QED
  BY <1>1, <1>3, <1>5

(* The delimiter of such a table is found, if its first row has two cells. *)
LEMMA DelimiterFound ==
  ASSUME NEW W, NEW text, NEW rows, NEW kd \in 1..4, Len(rows) \in Nat \ {0}, Len(rows[1]) > 1,
         WritesLines(W, text, Delimiters[kd], rows)
  PROVE  DetectDelimiter(text) = Delimiters[kd]
<1> DEFINE width(k) == Width(text[1], Delimiters[k])
           cutting == {k \in DOMAIN Delimiters : width(k) > 1}
<1>1. DOMAIN Delimiters = 1..4 /\ \A k \in 1..4 : k # kd => Delimiters[k] # Delimiters[kd]
  BY DelimitersApart
<1>2. Writes(W, text[1], SomeDelimiter, Delimiters[kd], rows[1])
  <2>1. 1 \in 1..Len(rows)
    OBVIOUS
  <2> QED
    BY <2>1 DEF WritesLines
<1>3. width(kd) = Len(rows[1])
  BY <1>2, CellsAsWritten DEF Width
<1>4. ASSUME NEW k \in 1..4, k # kd
      PROVE  width(k) = 1
  <2>1. Delimiters[k] \in SomeDelimiter \ {Delimiters[kd]}
    BY <1>1, <1>4 DEF SomeDelimiter
  <2> QED
    BY <1>2, <2>1, CellsAsWritten
<1>5. cutting = {kd}
  <2> HIDE DEF width
  <2> QED
    BY <1>1, <1>3, <1>4
<1> DEFINE sample == SubSeq(text, 1, Min({10, Len(text)}))
           regular == {k \in cutting : \A i \in DOMAIN sample :
                                         Width(sample[i], Delimiters[k]) = width(k)}
           widest(ks) == CHOOSE k \in ks :
                           \A j \in ks : width(j) < width(k) \/ (width(j) = width(k) /\ k <= j)
<1>6. widest({kd}) = kd
  <2> HIDE DEF width
  <2> QED
    OBVIOUS
<1>7. regular = {} \/ regular = {kd}
  <2> HIDE DEF cutting, sample
  <2> QED
    BY <1>5
<1>8. DetectDelimiter(text)
        = CASE regular # {} -> Delimiters[widest(regular)]
            [] regular = {} /\ cutting # {} -> Delimiters[widest(cutting)]
            [] cutting = {} -> ","
  BY DEF DetectDelimiter
<1> HIDE DEF regular, cutting, widest
<1> QED
  BY <1>5, <1>6, <1>7, <1>8

(* csv.parser.ts: lines that write one table give one table, whichever of  *)
(* the four delimiters writes them.                                        *)
LEMMA LinesReadAlike ==
  ASSUME NEW W, NEW rows, Len(rows) \in Nat \ {0}, Len(rows[1]) > 1,
         NEW text, NEW other, NEW d, NEW e,
         d \in SomeDelimiter, e \in SomeDelimiter,
         WritesLines(W, text, d, rows), WritesLines(W, other, e, rows)
  PROVE  TableOf(text) = TableOf(other)
<1> DEFINE signs(i, s) == IF i = 1 THEN SomeDelimiter ELSE {s}
<1>1. DetectDelimiter(text) = d /\ DetectDelimiter(other) = e
  BY DelimiterFound DEF SomeDelimiter
<1>2. Len(text) = Len(rows) /\ Len(other) = Len(rows) /\ text # <<>> /\ other # <<>>
  BY DEF WritesLines
<1>3. ASSUME NEW i \in 1..Len(rows)
      PROVE  /\ Cells(text[i], d) = rows[i] /\ Cells(other[i], e) = rows[i]
             /\ Annotated(text[i]) <=> Annotated(other[i])
  <2>1. /\ Writes(W, text[i], signs(i, d), d, rows[i])
        /\ Writes(W, other[i], signs(i, e), e, rows[i])
    BY DEF WritesLines
  <2> HIDE DEF signs
  <2>2. Cells(text[i], d) = rows[i] /\ Cells(other[i], e) = rows[i]
    BY <2>1, CellsAsWritten
  <2>3. \A w \in {"dividend", "split", "bonus", "capital gain"} : 
            w # Mark /\ w # d /\ w # e /\ w \notin Blanks
    BY DelimitersApart
  <2>4. ASSUME NEW w \in {"dividend", "split", "bonus", "capital gain"}
        PROVE  Holds(text[i], w) <=> Holds(other[i], w)
    <3>1. w \notin {Mark, d} /\ w \notin {Mark, e} /\ w \notin Blanks
      BY <2>3
    <3>2. Holds(text[i], w) <=> SomeHolds(rows[i], w)
      BY <2>1, <3>1, WordsAsWritten
    <3>3. Holds(other[i], w) <=> SomeHolds(rows[i], w)
      BY <2>1, <3>1, WordsAsWritten
    <3> QED
      BY <3>2, <3>3
  <2> QED
    BY <2>2, <2>4 DEF Annotated, Holds
<1> DEFINE headers == [c \in DOMAIN rows[1] |-> NormalHeader[rows[1][c]]]
           place == [column \in Columns |-> FindColumn(headers, column)]
           complete == \A column \in Columns \ {"symbol"} : place[column] # 0
<1>4. \A i \in 1..Len(rows) : CsvRow(text[i], d, place) = CsvRow(other[i], e, place)
  <2> HIDE DEF place
  <2> QED
    BY <1>3 DEF CsvRow
<1>5. Cells(text[1], d) = rows[1] /\ Cells(other[1], e) = rows[1]
  BY <1>3
<1> DEFINE Table(t, s) ==
             IF ~complete THEN [hasColumns |-> FALSE, rows |-> <<>>]
             ELSE [hasColumns |-> TRUE,
                   rows |-> [i \in 1..(Len(t) - 1) |-> CsvRow(t[i + 1], s, place)]]
<1>6. TableOf(text) = Table(text, d) /\ TableOf(other) = Table(other, e)
  BY <1>1, <1>2, <1>5 DEF TableOf
<1>7. \A i \in 1..(Len(rows) - 1) : i + 1 \in 1..Len(rows)
  OBVIOUS
<1>8. [i \in 1..(Len(text) - 1) |-> CsvRow(text[i + 1], d, place)]
        = [i \in 1..(Len(other) - 1) |-> CsvRow(other[i + 1], e, place)]
  <2> HIDE DEF place
  <2> QED
    BY <1>2, <1>4, <1>7
<1>9. Table(text, d) = Table(other, e)
  BY <1>8
<1> HIDE DEF Table
<1> QED
  BY <1>6, <1>9

(* csv.parser.ts: a table reads alike, column by column and row by row,    *)
(* whichever of the four delimiters a text writes it with, whichever of    *)
(* its cells are in quotation marks, and whatever blanks are around its    *)
(* cells, around its lines and, as lines of their own, between these.      *)
THEOREM TablesReadAlike ==
  ASSUME NEW W, NEW rows, Len(rows) \in Nat \ {0}, Len(rows[1]) > 1,
         NEW text, NEW other, NEW d, NEW e,
         d \in SomeDelimiter, e \in SomeDelimiter,
         WritesTable(W, text, d, rows), WritesTable(W, other, e, rows)
  PROVE  CsvTable(text) = CsvTable(other)
<1>1. PICK lines \in Seq(Seq(W)) : Shows(W, text, lines) /\ WritesLines(W, lines, d, rows)
  BY DEF WritesTable
<1>2. PICK others \in Seq(Seq(W)) : Shows(W, other, others) /\ WritesLines(W, others, e, rows)
  BY DEF WritesTable
<1>3. CsvTable(text) = TableOf(lines) /\ CsvTable(other) = TableOf(others)
  BY <1>1, <1>2, LinesAsShown DEF CsvTable
<1> QED
  BY <1>1, <1>2, <1>3, LinesReadAlike
=============================================================================
