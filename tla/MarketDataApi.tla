--------------------------- MODULE MarketDataApi ---------------------------
(***************************************************************************)
(* What POST /datasets and POST and GET /market-data/:datasetId accept of  *)
(* what a client sends, the ticker they store and look up, and the bars a  *)
(* query is answered (dataset.controller.ts, market-data.controller.ts and *)
(* what they call).  DataPipeline has their steps.                         *)
(*                                                                         *)
(* An object is a function of the fields it has.  UpperCase is             *)
(* trim().toUpperCase(), and so toUpperCase() of what was trimmed; a blank *)
(* text is NoSymbol.                                                       *)
(***************************************************************************)
EXTENDS UploadStages, FiniteSetsExt

CONSTANT NotText   \* a value that is no text: null, a number, an array, ...

ASSUME NotTextAssumption == NotText \notin RawSymbols

Named(object, field) == field \in DOMAIN object /\ object[field] \in RawSymbols

DatasetFields == {"name", "symbol", "timeframe", "source"}

\* The body of POST /datasets.
ValidateCreateDatasetInput(body) ==
  /\ body # NotText
  /\ \A field \in DatasetFields : Named(body, field)
  /\ "description" \in DOMAIN body => body.description # NotText

CreatedTicker(body) == UpperCase[body.symbol]

\* An element of the body of POST /market-data/:datasetId.
BarAccepted(item) ==
  /\ item # NotText
  /\ Named(item, "symbol")
  /\ item.timestamp # InvalidTime
  /\ item.quote # NotFinite /\ QuotePositive(item.quote) /\ QuoteInBounds(item.quote)

ValidateMarketBars(body) ==
  body \notin {NotText, <<>>} /\ \A i \in DOMAIN body : BarAccepted(body[i])

\* ... as it is stored: the validation, the service and the repository each
\* have the ticker in upper case.
PostedBar(item) ==
  [symbol |-> UpperCase[UpperCase[UpperCase[item.symbol]]],
   timestamp |-> item.timestamp, quote |-> item.quote]

-----------------------------------------------------------------------------
(* GET /market-data/:datasetId                                             *)

MaxLimit == 10000

Bounds == {"startTime", "endTime"}

\* 400: a date that does not parse, or a limit out of its range.
QueryRefused(query) ==
  \/ \E bound \in Bounds \cap DOMAIN query : query[bound] = InvalidTime
  \/ "limit" \in DOMAIN query /\ query.limit \notin 1..MaxLimit

\* A ticker given twice reaches the handler as an array and is passed over.
Narrowed(query) == "symbol" \in DOMAIN query /\ query.symbol # NotText

\* 500: a blank ticker.
QueryFails(query) == Narrowed(query) /\ query.symbol = NoSymbol

QueryServed(query) == ~QueryRefused(query) /\ ~QueryFails(query)

\* The filter of getBars; stored is what the collection has of the dataset.
Found(query, stored) ==
  {bar \in stored :
     /\ Narrowed(query) => bar.symbol = UpperCase[UpperCase[query.symbol]]
     /\ "startTime" \in DOMAIN query => bar.timestamp >= query.startTime
     /\ "endTime" \in DOMAIN query => bar.timestamp <= query.endTime}

\* The earliest bars up to the limit, which may cut through the bars of one time.
IsAnswer(answer, query, stored) ==
  LET found == Found(query, stored)
  IN /\ answer \subseteq found
     /\ \/ answer = found
        \/ "limit" \in DOMAIN query /\ Cardinality(answer) = query.limit
     /\ "limit" \in DOMAIN query => Cardinality(answer) <= query.limit
     /\ \A bar \in answer, left \in found \ answer : bar.timestamp <= left.timestamp

\* The query for the bars after the last of an answer.
Onward(query, last) ==
  [field \in DOMAIN query \cup {"startTime"} |->
     IF field = "startTime" THEN last.timestamp + 1 ELSE query[field]]

-----------------------------------------------------------------------------

\* The unique index of the collection, within a dataset.
KeysUnique(stored) ==
  \A bar, other \in stored :
    bar.symbol = other.symbol /\ bar.timestamp = other.timestamp => bar = other

\* A bar is found by whoever asks for its ticker, and analysed with the dataset
\* of that ticker, however each of the three spelt it (validateMarketBars,
\* DatasetService.create, MarketDataService.getBars).
FoundHoweverSpelt(body, item, query) ==
  /\ UpperCase[item.symbol] = UpperCase[body.symbol] => PostedBar(item).symbol = CreatedTicker(body)
  /\ UpperCase[item.symbol] = UpperCase[query.symbol] =>
       PostedBar(item) \in Found(query, {PostedBar(item)})

\* A reader who asks for a ticker page by page, from after the last time of a
\* page, is given every bar (getBars with a limit).
PagesLoseNothing(query, stored, answer, last) ==
  Found(query, stored) = answer \cup Found(Onward(query, last), stored)
=============================================================================
