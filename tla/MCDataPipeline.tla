--------------------------- MODULE MCDataPipeline ---------------------------
(***************************************************************************)
(* A small instance of DataPipeline: replicas that start on an empty       *)
(* database, one upload, one insertion and one analysis.  The files are    *)
(* picked so that every stage has something to do, and one table is sent   *)
(* in the several ways a request may carry it.                             *)
(***************************************************************************)
EXTENDS DataPipeline, UploadRequest, SampleFile, MarketDataApi

CONSTANTS r1, r2, r3, u1, c1, i1, a1

(* Two tickers, one of them also spelt in lower case                       *)
MCRawSymbols == {"ACME", "acme", "ZED", "DATASET"}
MCUpperCase == [s \in MCRawSymbols |-> IF s = "acme" THEN "ACME" ELSE s]

(* Two spellings of day 1, one of day 2, one that does not parse           *)
MCRawTimes == {"day1", "1 Jan", "day2", "soon"}
MCParseDate ==
  [t \in MCRawTimes |->
     CASE t \in {"day1", "1 Jan"} -> 1 [] t = "day2" -> 2 [] t = "soon" -> InvalidTime]

QuoteOf(h, l, c) == [open |-> 1000, high |-> h, low |-> l, close |-> c, volume |-> 1]
InBand == QuoteOf(1010, 990, 1000)
Rounded == QuoteOf(1000, 990, 1010)   \* close 1% above high: the band is widened
OutOfBand == QuoteOf(1000, 990, 1011)
Inverted == QuoteOf(990, 1010, 1000)

RowOf(s, t, q) == [kind |-> "complete", symbol |-> s, timestamp |-> t, quote |-> q]
Annotation == [RowOf(NoSymbol, "day1", InBand) EXCEPT !.kind = "annotation"]
ShortRow == [RowOf(NoSymbol, "day1", InBand) EXCEPT !.kind = "short"]

Csv(rows) == [format |-> "csv", hasColumns |-> TRUE, nameSymbol |-> "ACME",
              metaSymbol |-> NoSymbol, rootSymbol |-> NoSymbol, rows |-> rows]
Json(root, meta, rows) ==
  [Csv(rows) EXCEPT !.format = "json", !.rootSymbol = root, !.metaSymbol = meta]

Unsorted == <<RowOf(NoSymbol, "day2", InBand), Annotation,
              RowOf("acme", "day1", Rounded), RowOf("ACME", "1 Jan", InBand)>>
TwoTickers == <<RowOf("ZED", "day1", InBand), RowOf("ACME", "day1", Rounded),
                RowOf("ZED", "day2", InBand)>>
OtherTicker == <<RowOf("ZED", "day1", InBand), RowOf("ZED", "day2", InBand)>>

FilesAnalysable ==
  {Csv(Unsorted), Csv(TwoTickers), Json("ZED", NoSymbol, Unsorted),
   Csv(<<RowOf(NoSymbol, "day1", OutOfBand)>>),
   Csv(<<RowOf(NoSymbol, "soon", InBand)>>),
   Csv(<<RowOf(NoSymbol, "day1", NotFinite)>>),
   Csv(<<RowOf(NoSymbol, "day1", InBand), ShortRow>>),
   Csv(<<Annotation>>), [Csv(Unsorted) EXCEPT !.hasColumns = FALSE]}

(* ... a CSV whose symbol column is not the ticker of its name, and a JSON *)
(* whose root symbol the form overrides.                                   *)
FilesMismatched ==
  {Csv(OtherTicker), Json("ZED", "ACME", <<RowOf("ZED", "day1", InBand)>>)}

-----------------------------------------------------------------------------
(* The table of TwoTickers, as text.  Its words and names:                 *)

MCNormalHeader ==
  (<<"Date">> :> "date" @@ <<"Trading Symbol">> :> "tradingsymbol" @@ <<"Open">> :> "open" @@
   <<"High">> :> "high" @@ <<"Low">> :> "low" @@ <<"Close">> :> "close" @@
   <<"Adj Close">> :> "adjclose" @@ <<"Shares Traded">> :> "sharestraded" @@
   <<"Volume Lots">> :> "volumelots" @@ <<"Volume">> :> "volume" @@
   <<"Remarks">> :> "remarks" @@ <<"{">> :> "" @@ <<>> :> "")
MCBegins ==
  {<<h, h>> : h \in {"date", "tradingsymbol", "open", "high", "low", "close", "adjclose",
                    "sharestraded", "volume"}}
    \cup {<<"sharestraded", "shares">>, <<"volumelots", "volume">>, <<"volumelots", "vol">>,
          <<"volumelots", "v">>, <<"volume", "vol">>, <<"volume", "v">>}
MCNumberOf ==
  (<<"1000">> :> 1000 @@ <<"1">> :> 1 @@ <<"2">> :> 2 @@ <<"990">> :> 990 @@
   <<"1010">> :> 1010 @@ <<"1", "000">> :> 1000 @@ <<"1", "010">> :> 1010)
MCTickerOf ==
  ("acme_1d.csv" :> "ACME" @@ "acme" :> "ACME" @@ "dataset.csv" :> "DATASET" @@
   "dataset.json" :> "DATASET")
MCExtensionOf ==
  ("acme_1d.csv" :> "csv" @@ "acme" :> "none" @@ "dataset.csv" :> "csv" @@
   "dataset.json" :> "json")

(* Cells with a sign between them, and lines of such cells.                *)
Joined(cells, d) == FoldLeft(LAMBDA l, cell : l \o <<d>> \o cell, cells[1], Tail(cells))
Text(lines, d) == [i \in DOMAIN lines |-> Joined(lines[i], d)]

One(w) == <<w>>
Words(ws) == [i \in DOMAIN ws |-> <<ws[i]>>]
Thousand == <<"1", ",", "000">>
Thousand10 == <<"1", ",", "010">>
Quoted(cell) == <<"\"">> \o cell \o <<"\"">>

Plain ==
  <<Words(<<"Date", "Trading Symbol", "Open", "High", "Low", "Close", "Volume">>),
    Words(<<"day1", "ZED", "1000", "1010", "990", "1000", "1">>),
    Words(<<"day1", "ACME", "1000", "1000", "990", "1010", "1">>),
    Words(<<"day2", "ZED", "1000", "1010", "990", "1000", "1">>)>>

(* Other columns, in another order, thousands marked.                      *)
Wide(Cell(_)) ==
  <<Words(<<"Trading Symbol", "Date", "Volume Lots", "Volume", "Adj Close", "Close", "Low",
            "High", "Open">>),
    <<One("ZED"), One("day1"), One("2"), One("1"), One("990"), Cell(Thousand), One("990"),
      Cell(Thousand10), Cell(Thousand)>>,
    <<One("ACME"), One("day1"), One("2"), One("1"), One("990"), Cell(Thousand10), One("990"),
      Cell(Thousand), Cell(Thousand)>>,
    <<One("ZED"), One("day2"), One("2"), One("1"), One("990"), Cell(Thousand), One("990"),
      Cell(Thousand10), Cell(Thousand)>>>>

(* No cell but a note on a day of a dividend; shares for volume.           *)
Noted ==
  <<[Plain[1] EXCEPT ![7] = One("Shares Traded")], Plain[2],
    Words(<<"day1", "dividend">>), Plain[3], Plain[4]>>

(* A column of remarks, first or last, that no row uses but the first.     *)
Remark == Quoted(<<"a", Mark, Mark, "b", ",", "c">>)
RemarkedFirst ==
  [i \in 1..4 |-> <<CASE i = 1 -> One("Remarks") [] i = 2 -> Remark [] i > 2 -> <<>>>> \o Plain[i]]
RemarkedLast ==
  [i \in 1..4 |-> Append(Plain[i], CASE i = 1 -> One("Remarks") [] i = 2 -> Remark
                                      [] i > 2 -> <<>>)]

(* The ticker first, and left blank where it is that of the file's name.   *)
SymbolFirst ==
  [i \in 1..4 |-> <<IF i = 3 THEN <<>> ELSE Plain[i][2], Plain[i][1]>> \o SubSeq(Plain[i], 3, 7)]

(* Blank lines, and blanks around lines and in cells.                      *)
Spaced(lines, d) ==
  LET pad(cell) == <<" ">> \o cell \o <<" ", " ">>
      line == Text([i \in DOMAIN lines |-> [c \in DOMAIN lines[i] |-> pad(lines[i][c])]], d)
  IN <<<<>>, line[1], <<"\t", " ">>, Quoted(<<>>), <<"\t">> \o line[2], line[3], <<>>>>
       \o SubSeq(line, 4, Len(line))

NoJson == [kind |-> "none", key |-> "none", symbol |-> NoSymbol, records |-> <<>>]
TextContent(text) == [lines |-> text, json |-> NoJson]
Csv_(lines, d) == TextContent(Text(lines, d))
Keys == <<"timestamp", "symbol", "open", "high", "low", "close", "volume">>
Records ==
  [i \in 1..3 |->
     [column \in Columns |-> Plain[i + 1][CHOOSE k \in DOMAIN Keys : Keys[k] = column]]]
JsonContent(kind, key, symbol) ==
  [lines |-> <<<<"{">>>>,
   json |-> [kind |-> kind, key |-> key, symbol |-> symbol, records |-> Records]]

ValuePart(value) == [header |-> TRUE, name |-> "symbol", fileName |-> NoFile, value |-> value,
                     type |-> "none", content |-> NoFile]
FilePartOf(name, type, content) ==
  [ValuePart(NoSymbol) EXCEPT !.name = "file", !.fileName = name, !.type = type,
                              !.content = content]
Form(parts) == [type |-> "form", boundary |-> TRUE, parts |-> parts]
JsonBody(text, content) ==
  [type |-> "json", body |-> [text |-> text, fileName |-> NoFile, content |-> content]]

(* Requests that all send the table of TwoTickers, ...                     *)
RequestsAlike ==
  {Form(<<ValuePart(NoSymbol), FilePartOf("acme_1d.csv", "csv", Csv_(Plain, ","))>>),
   Form(<<FilePartOf("acme", "none", Csv_(Wide(LAMBDA c : c), ";")), ValuePart("acme")>>),
   Form(<<FilePartOf("acme_1d.csv", "csv", Csv_(Wide(Quoted), ","))>>),
   Form(<<FilePartOf("acme_1d.csv", "csv", Csv_(Noted, "|"))>>),
   Form(<<FilePartOf("acme_1d.csv", "csv", TextContent(Spaced(RemarkedFirst, ",")))>>),
   Form(<<FilePartOf("acme_1d.csv", "csv", Csv_(RemarkedLast, "\t"))>>),
   Form(<<FilePartOf("acme_1d.csv", "csv", Csv_(SymbolFirst, ","))>>),
   Form(<<[ValuePart("ZED") EXCEPT !.header = FALSE],
          FilePartOf("dataset.json", "json", JsonContent("object", "data", "ZED")),
          FilePartOf("acme", "none", JsonContent("array", "none", NoSymbol))>>),
   [type |-> "csv", content |-> Csv_(Plain, "\t")],
   JsonBody(NoFile, JsonContent("object", "bars", "ZED")),
   JsonBody(JsonContent("object", "data", NoSymbol), JsonContent("object", "none", "acme"))}

(* ... and those that do not: a CSV called JSON, a form without boundary,  *)
(* a JSON body without bars, another type, and the table whose first cell  *)
(* is blank, cut by tabs: the cell is trimmed away with its tab.           *)
OtherRequests ==
  {Form(<<FilePartOf("acme_1d.csv", "json", Csv_(Plain, ","))>>),
   Form(<<FilePartOf("acme_1d.csv", "csv", Csv_(SymbolFirst, "\t"))>>),
   [Form(<<>>) EXCEPT !.boundary = FALSE],
   JsonBody(NoFile, JsonContent("object", "data", "ZED")),
   [type |-> "other"]}

FilesAlike == {Received(q) : q \in RequestsAlike}
FilesReceived == FilesAlike \cup {Received(q) : q \in {q \in OtherRequests : Accepted(q)}}

ASSUME RequestsReceived ==
  /\ \A q \in RequestsAlike : Accepted(q)
  /\ \A q \in {q \in OtherRequests : Accepted(q)} : StagesFail(Received(q))

AllFiles == FilesAnalysable \cup FilesMismatched \cup FilesReceived

-----------------------------------------------------------------------------
(* Sample files of up to two rows: with and without a band, a volume, a    *)
(* price, a day; and what parseMarketCsv makes of them.                    *)

CellsOf(time, symbol, o, h, l, c, v) ==
  [timestamp |-> time, symbol |-> symbol, open |-> o, high |-> h, low |-> l, close |-> c,
   volume |-> v]

MCSampleRows ==
  {CellsOf(time, symbol, 3, h, l, c, v) :
     time \in {1, 2, InvalidTime}, symbol \in {"ZED", NoSymbol},
     h \in {2, 5, NotFinite}, l \in {0, 2, 4, NotFinite}, c \in {0, 4}, v \in {-1, 1}}

MCSampleDirs ==
  <<[zed |-> <<CellsOf(1, "ZED", 3, NotFinite, 0, 4, -1), CellsOf(2, NoSymbol, 3, 5, 2, 4, 1)>>],
    [zed |-> <<>>,
     latest |-> <<CellsOf(2, "ACME", 3, 5, 2, 4, 1), CellsOf(1, "ACME", 3, 5, 2, 4, 1)>>]>>
MCBuiltIn == [symbol |-> "ACME", bars |-> <<[timestamp |-> 1, quote |-> InBand]>>]

ASSUME SampleFilesRead ==
  /\ \A first, second \in MCSampleRows : RefusedForOrderOnly(<<first, second>>)
  /\ \A name \in CsvNames : EngineAcceptsSeries(AnalyzeMarket(name).bars) <=> name # "latest"
  /\ AnalyzeMarket("zed").symbol = "ZED"

BarOf(s, t) == [symbol |-> s, timestamp |-> t, quote |-> InBand]

-----------------------------------------------------------------------------
(* Bodies, queries and stored bars of the market data API.                 *)

Spelt == RawSymbols \cup {NoSymbol, NotText}
Filled == [name |-> "ACME", symbol |-> "ACME", timeframe |-> "ACME", source |-> "ACME"]
MCBodies == {NotText, [name |-> "ACME"]} \cup {[Filled EXCEPT !.symbol = s] : s \in Spelt}
MCItems ==
  {NotText} \cup
  {[symbol |-> s, timestamp |-> t, quote |-> q] :
     s \in Spelt, t \in {1, InvalidTime}, q \in {InBand, Rounded, NotFinite}}
MCQueries ==
  {[symbol |-> s, limit |-> n] : s \in Spelt, n \in {0, 1, 2, MaxLimit + 1}} \cup
  {[symbol |-> s, startTime |-> t, endTime |-> 3, limit |-> 1] : s \in Spelt, t \in {2, InvalidTime}} \cup
  {[symbol |-> s] : s \in Spelt} \cup {[limit |-> 1]}
MCStored == {BarOf("ACME", t) : t \in 1..3} \cup {BarOf("ZED", t) : t \in 2..3}

\* The pages of a query that come with a next one.
Pages(query) ==
  {page \in (SUBSET MCStored) \X MCStored :
     /\ page[2] \in page[1] /\ IsAnswer(page[1], query, MCStored)
     /\ \A bar \in page[1] : bar.timestamp <= page[2].timestamp}

ASSUME SpelledAnyhow ==
  \A body \in MCBodies, item \in MCItems, query \in MCQueries :
    ValidateCreateDatasetInput(body) /\ BarAccepted(item) /\ Named(query, "symbol")
      /\ Bounds \cap DOMAIN query = {} => FoundHoweverSpelt(body, item, query)

(* ... and a query of every ticker may lose the bars its limit cuts off.   *)
ASSUME PagedThrough ==
  /\ KeysUnique(MCStored)
  /\ \A query \in MCQueries :
       QueryServed(query) /\ Narrowed(query) =>
         \A page \in Pages(query) : PagesLoseNothing(query, MCStored, page[1], page[2])
  /\ \E query \in MCQueries :
       QueryServed(query) /\ ~Narrowed(query) /\
         \E page \in Pages(query) : ~PagesLoseNothing(query, MCStored, page[1], page[2])
  /\ \A query \in {query \in MCQueries : QueryServed(query)} :
       \E answer \in SUBSET MCStored : IsAnswer(answer, query, MCStored)

MCPayloads ==
  {<<BarOf("ACME", 2)>>, <<BarOf("ACME", 1), BarOf("ACME", 1)>>,
   <<BarOf("ZED", 1)>>, <<[BarOf("ACME", 1) EXCEPT !.quote = Inverted]>>}

(* What may be posted while replicas seed: a batch that stores the second  *)
(* bar of the sample and is then refused by the index.                     *)
MCSeedingPayloads == {<<BarOf("ACME", 2), BarOf("ACME", 2)>>}

BarsAlike == CleanBars(Csv(TwoTickers))

(* However a table is sent, by form or as a body, its columns in whatever  *)
(* order, among others, cut by whatever sign, with thousands marked, with  *)
(* blank lines, blanks around its lines and cells and blank cells at their *)
(* ends, an upload goes on to store the bars it says and is never refused  *)
(* (parseIncomingUpload, parseCsvContent, parseJsonContent).               *)
ReadAsWritten ==
  [][\A u \in Uploads, r \in Replicas, f \in FilesAlike :
       BeginUpload(u, r, f) => plan'[u] = Addressed(u, BarsAlike)]_vars

MCSampleSeries == <<BarOf("ACME", 1), BarOf("ACME", 2)>>
=============================================================================
