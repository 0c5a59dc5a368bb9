---------------------------- MODULE UploadRequest ----------------------------
(***************************************************************************)
(* From the body of POST /data-pipeline/upload to the file of UploadStages:*)
(* the file and the fields of the request (multipart.parser.ts), its       *)
(* format (ingestion.stage.ts), and its rows, found in a table of unknown  *)
(* delimiter and column names (csv.parser.ts) or in JSON (json.parser.ts). *)
(*                                                                         *)
(* Text is a sequence of lines, a line a sequence of words and signs: the  *)
(* delimiters, the quotation mark, blanks, currency signs.  How a header   *)
(* is normalised, which names begin with which and what number a text      *)
(* denotes are given by tables.                                            *)
(***************************************************************************)
EXTENDS UploadStages, SequencesExt

CONSTANTS
  NormalHeader,  \* the normalised name of a header's words
  Begins,        \* the pairs of a normalised name and an alias it begins with
  NumberOf,      \* the numbers, by their words without commas and currency
  TickerOf,      \* inferSymbolFromFileName
  ExtensionOf,   \* the extension of a file name
  NoFile

(* A date left blank is one that parseMarketDate cannot parse.             *)
ASSUME BlankTimeAssumption == \E t \in RawTimes : ParseDate[t] = InvalidTime

Columns == {"timestamp", "symbol", "open", "high", "low", "close", "volume"}
Prices == {"open", "high", "low", "close"}

\* The aliases, normalised as the headers are.
Aliases ==
  [timestamp |-> <<"timestamp", "time", "date", "datetime", "tradedate", "dt", "epoch",
                   "timestamputc">>,
   symbol |-> <<"symbol", "ticker", "stock", "instrument", "name", "scrip", "code",
                "tradingsymbol">>,
   open |-> <<"open", "openprice", "op">>,
   high |-> <<"high", "highprice", "hi">>,
   low |-> <<"low", "lowprice", "lo">>,
   close |-> <<"close", "closeprice", "last", "lastprice", "settle", "settlement",
               "adjclose", "adjustedclose">>,
   volume |-> <<"volume", "vol", "v", "qty", "quantity", "shares", "sharestraded",
                "totaltradedqty", "tradeqty", "volumetraded">>]

Delimiters == <<",", "\t", ";", "|">>
Mark == "\""
Blanks == {" ", "\t"}

-----------------------------------------------------------------------------
\* CSV

\* The n-th of a set of places, and the words at these places in their order.
Nth(places, n) == CHOOSE i \in places : Cardinality({j \in places : j < i}) = n - 1

WordsAt(words, places) == [n \in 1..Cardinality(places) |-> words[Nth(places, n)]]

\* Words without the blanks before the first and after the last that is none.
Trimmed(words) ==
  LET solid == {i \in DOMAIN words : words[i] \notin Blanks}
  IN WordsAt(words, {i \in DOMAIN words : (\E j \in solid : j <= i) /\ (\E k \in solid : i <= k)})

TrimmedLines(text) == [i \in DOMAIN text |-> Trimmed(text[i])]

AllLines(text) == TrimmedLines(text)

NonblankLines(text) ==
  LET lines == TrimmedLines(text)
  IN WordsAt(lines, {i \in DOMAIN lines : lines[i] # <<>>})

InQuotes(line, i) == Cardinality({j \in 1..(i - 1) : line[j] = Mark}) % 2 = 1

Cuts(line, d) == {i \in DOMAIN line : line[i] = d /\ ~InQuotes(line, i)}

\* A word of the cell it is in: not a quotation mark, or the first of two that
\* stand for one within quotes.
Literal(line, i) ==
  line[i] # Mark \/ (InQuotes(line, i) /\ i < Len(line) /\ line[i + 1] = Mark)

\* The cells between the delimiters, trimmed once the quotes are gone.
Cells(line, d) ==
  LET cuts == Cuts(line, d) \cup {0}
      end(c) == IF c = Cardinality(cuts) THEN Len(line) + 1 ELSE Nth(cuts, c + 1)
      inside(c) == {i \in (Nth(cuts, c) + 1)..(end(c) - 1) : Literal(line, i)}
  IN [c \in 1..Cardinality(cuts) |-> Trimmed(WordsAt(line, inside(c)))]

Width(line, d) == Len(Cells(line, d))

\* Of the delimiters that cut the first ten lines into equally many cells, two
\* at least, the one that makes the most cells; else the one that makes the most
\* of the header; the comma when none cuts anything.  The first of equals.
DetectDelimiter(text) ==
  LET sample == SubSeq(text, 1, Min({10, Len(text)}))
      width(k) == Width(text[1], Delimiters[k])
      cutting == {k \in DOMAIN Delimiters : width(k) > 1}
      regular == {k \in cutting : \A i \in DOMAIN sample :
                                    Width(sample[i], Delimiters[k]) = width(k)}
      widest(ks) == CHOOSE k \in ks :
                      \A j \in ks : width(j) < width(k) \/ (width(j) = width(k) /\ k <= j)
  IN CASE regular # {} -> Delimiters[widest(regular)]
       [] regular = {} /\ cutting # {} -> Delimiters[widest(cutting)]
       [] cutting = {} -> ","

\* The place of a column, 0 for none: the first alias a header is equal to, else
\* the first that a header begins with.
FindColumn(headers, column) ==
  LET place(alias) == {c \in DOMAIN headers : headers[c] = alias}
      found == {a \in DOMAIN Aliases[column] : place(Aliases[column][a]) # {}}
      begun(alias) == {c \in DOMAIN headers : <<headers[c], alias>> \in Begins}
      near == {a \in DOMAIN Aliases[column] : begun(Aliases[column][a]) # {}}
  IN CASE found # {} -> Min(place(Aliases[column][Min(found)]))
       [] found = {} /\ near # {} -> Min(begun(Aliases[column][Min(near)]))
       [] near = {} /\ found = {} -> 0

\* sanitizeNumericString, then Number: a blank volume is 0, and a blank price
\* too, for Number("") is 0.
NumberIn(cell) ==
  LET digits == WordsAt(cell, {i \in DOMAIN cell : cell[i] \notin Blanks \cup {",", "$", "INR"}})
  IN IF cell \in {<<>>, <<"-">>, <<"N/A">>, <<"NA">>, <<"null">>} THEN 0
     ELSE IF digits \in DOMAIN NumberOf THEN NumberOf[digits] ELSE NotFinite

\* The quote of five cells.
QuoteIn(cell) ==
  LET number == [column \in Prices \cup {"volume"} |-> NumberIn(cell[column])]
  IN IF \E column \in DOMAIN number : number[column] = NotFinite THEN NotFinite ELSE number

NoRow(kind) == [kind |-> kind, symbol |-> NoSymbol,
                timestamp |-> CHOOSE t \in RawTimes : TRUE, quote |-> NotFinite]

SymbolIn(words) == IF words = <<>> THEN NoSymbol ELSE words[1]

TimeIn(words) ==
  IF words = <<>> THEN CHOOSE t \in RawTimes : ParseDate[t] = InvalidTime ELSE words[1]

CompleteRow(cell) ==
  [kind |-> "complete", symbol |-> SymbolIn(cell.symbol),
   timestamp |-> TimeIn(cell.timestamp), quote |-> QuoteIn(cell)]

\* isCorporateAction
Annotated(line) ==
  \E i \in DOMAIN line : line[i] \in {"dividend", "split", "bonus", "capital gain"}

\* A line of one blank cell, a pair of quotation marks say, is passed over as a
\* note is.
CsvRow(line, d, place) ==
  LET cells == Cells(line, d)
      short == Len(cells) < Max({place[column] : column \in Columns})
  IN IF cells = <<<<>>>> \/ (short /\ Annotated(line)) THEN NoRow("annotation")
     ELSE IF short THEN NoRow("short")
     ELSE CompleteRow([column \in Columns |->
            IF place[column] = 0 THEN <<>> ELSE cells[place[column]]])

\* What the lines of a table say: whether it has the columns, and its rows.
TableOf(text) ==
  LET d == DetectDelimiter(text)
      header == Cells(text[1], d)
      headers == [c \in DOMAIN header |-> NormalHeader[header[c]]]
      place == [column \in Columns |-> FindColumn(headers, column)]
      complete == \A column \in Columns \ {"symbol"} : place[column] # 0
  IN IF text = <<>> \/ ~complete THEN [hasColumns |-> FALSE, rows |-> <<>>]
     ELSE [hasColumns |-> TRUE,
           rows |-> [i \in 1..(Len(text) - 1) |-> CsvRow(text[i + 1], d, place)]]

CsvTable(text) == TableOf(NonblankLines(text))

-----------------------------------------------------------------------------
\* JSON: an array, an object with the symbol and one of the arrays "bars" and
\* "data", or something else.  A record gives the words of the columns it has.

JsonRow(record) ==
  IF \E column \in Columns \ {"symbol"} : column \notin DOMAIN record
    THEN NoRow("short")
    ELSE CompleteRow([column \in Columns |->
           IF column \in DOMAIN record THEN record[column] ELSE <<>>])

JsonTable(json) ==
  [hasColumns |-> \/ json.kind = "array"
                  \/ json.kind = "object" /\ json.key \in {"bars", "data"},
   rows |-> [i \in DOMAIN json.records |-> JsonRow(json.records[i])]]

-----------------------------------------------------------------------------
\* The request.

\* The last of the parts at these places.  Parts without a header are passed over.
LastPart(parts, places) ==
  LET wanted == {i \in places : parts[i].header}
  IN IF wanted = {} THEN NoFile ELSE parts[Max(wanted)]

\* Of files the last counts, in whatever field it is; of fields of one name the last.
FilePart(parts) == LastPart(parts, {i \in DOMAIN parts : parts[i].fileName # NoFile})

SymbolPart(parts) ==
  LastPart(parts, {i \in DOMAIN parts : parts[i].fileName = NoFile /\ parts[i].name = "symbol"})

FileOf(name, type, content) == [fileName |-> name, type |-> type, content |-> content]

\* The file of a request.  A JSON body is one when it has the text of a file or
\* bars; whatever name it gives that text, it counts as JSON.
Attachment(q) ==
  CASE q.type = "form" ->
         IF q.boundary THEN FilePart(q.parts) ELSE NoFile
    [] q.type = "json" ->
         IF q.body.text # NoFile
           THEN FileOf(IF q.body.fileName = NoFile THEN "dataset.json" ELSE q.body.fileName,
                       "json", q.body.text)
         ELSE IF q.body.content.json.kind = "array" \/ q.body.content.json.key = "bars"
           THEN FileOf("dataset.json", "json", q.body.content)
         ELSE NoFile
    [] q.type = "csv" -> FileOf("dataset.csv", "csv", q.content)
    [] q.type = "other" -> NoFile

\* metadata.symbol: the field of a form, or that of a JSON object.
MetaSymbol(q) ==
  CASE q.type = "form" /\ SymbolPart(q.parts) # NoFile -> SymbolPart(q.parts).value
    [] q.type = "json" -> q.body.content.json.symbol
    [] OTHER -> NoSymbol

\* The name decides, then the type, then how the content begins.  (Text that is
\* neither JSON nor cut by anything is refused here, a table without columns in
\* the same stage.)
Format(file) ==
  CASE ExtensionOf[file.fileName] = "json" \/ file.type = "json" -> "json"
    [] ExtensionOf[file.fileName] \in {"csv", "tsv", "txt"} \/ file.type = "csv" -> "csv"
    [] OTHER -> IF file.content.json.kind # "none" THEN "json" ELSE "csv"

\* A request without a file is answered 400 before the pipeline begins.
Accepted(q) == Attachment(q) # NoFile

Received(q) ==
  LET file == Attachment(q)
      table == IF Format(file) = "csv" THEN CsvTable(file.content.lines)
               ELSE JsonTable(file.content.json)
  IN [format |-> Format(file),
      hasColumns |-> table.hasColumns,
      nameSymbol |-> TickerOf[file.fileName],
      metaSymbol |-> MetaSymbol(q),
      rootSymbol |-> IF Format(file) = "json" THEN file.content.json.symbol ELSE NoSymbol,
      rows |-> table.rows]
=============================================================================
