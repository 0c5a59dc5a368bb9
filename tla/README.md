# QuantPulse in TLA+

QuantPulse is a quantitative market-analysis platform in three tiers: a React
frontend (`frontend`), a TypeScript backend (`backend/src`) and a C++20 engine
(`cpp-engine/src`), with MongoDB between the backend's replicas. This directory
models the parts of it that keep state or coordinate, model-checks them with
TLC on small instances and proves the results that matter most with TLAPS for
every instance.

## 1. Inventory

| Part | State | Operations | Talks to |
| --- | --- | --- | --- |
| Upload request (`data-pipeline.controller.ts`, `parsers`) | none | find the file of a form or body, its format, delimiter and columns | called by the upload's handler |
| Upload stages (`modules/data-pipeline/pipeline`) | none | ingest, validate, normalise, deduplicate a file | called by the pipeline in one turn of the event loop |
| Data pipeline (`data-pipeline.service.ts`, `persistence.stage.ts`) | `pipelineRuns`, a map in memory | `processUpload`, status and result | two awaited writes to MongoDB |
| MongoDB (`infrastructure/database`) | `datasets`, `market_bars`, unique indexes | `insertOne`, `insertMany`, `find`, `deleteOne`; seeding at start-up | shared by all replicas |
| Datasets and market data API (`modules/market-data`) | none | create and delete a dataset, insert and query bars, analyse a sample file | a look-up and a write, each awaited |
| Analytics service (`modules/analytics`) | none | analyse a dataset | look-up, read, engine call |
| Engine client (`infrastructure/cpp-engine`) | none | HTTP call with time-out, fallback to the program, health check | engine server, child process |
| Engine server and program (`cpp-engine/src/adapter`, `main.cpp`) | the running flag, one thread per connection | accept, answer, stop on a signal | engine client |
| Provider registry (`modules/providers/provider.service.ts`) | the saved configurations, the active provider | configure, switch, test | providers |
| External providers (`external.provider.ts`), simulator | configuration, connection, quote cache | connect, quotes, order book, trades | vendor APIs |
| Provider pages (`features/providers`, settings dialog) | selection, list, loading flag | test, save and activate, switch | registry |
| Real-time stream (`modules/realtime`, `useRealTimeMarketStream.ts`) | clients, the focused symbol, a cycle counter; per page an EventSource and a retry timer | connect, snapshot, broadcast every 500 ms, reconnect | registry, browsers |
| Terminal pages (market analysis, backtest, data lab, scanner, navigation) | tab and history, selection, figures, loading flag; search, order and page of a table | open, go back, select, refresh, run, upload, browse | datasets, analytics, backtest, upload |
| Health and metrics | counters, gauges | count, report | MongoDB, engine client |
| Start-up and shutdown (`server.ts`) | listening socket | connect, seed, listen, close on a signal | MongoDB |
| Order book, matching, orders, position, portfolio (`cpp-engine/src/domain`) | price levels; order, position and portfolio values | update levels, match, order life cycle, buy, sell | composed by the end-to-end tests |
| Trading decision (strategy, sizing, risk management, execution) | none | evaluate a signal | feeds order management |
| Market data buffer, rolling window, event bus | bounded queues, handler lists | push, publish, subscribe | their own tests |
| Backtest, transaction costs | cash, shares inside one call | run | backtesting application |
| Formulas (statistics, risk, microstructure, ...) | none | floating-point functions | analytics |
| Dashboards of the backend, landing, overview and risk pages, logging | counters, views | read only | |

What each part promises, and what makes it hard:

| Part | Properties that make it correct | Hard behaviour |
| --- | --- | --- |
| Upload request and stages | one table is read alike however it is sent; accepted bars satisfy the engine; deduplication loses no key and keeps time order | columns found by name and prefix; rounding of prices at the edge of the band; two spellings of one date; ties in the sort |
| Data pipeline, MongoDB, market data API | a completed upload is stored; a refused one leaves nothing; outcomes are final; bars follow their dataset and are found however spelt | `insertMany` is neither atomic nor isolated; look-up and write are two awaits; replicas share the database but not `pipelineRuns`; crashes and errors in between |
| Seeding | the sample is complete; seeding never keeps a replica from serving | replicas that start together race |
| Analytics service | the engine accepts what it is given; a concurrent upload is seen without gaps | two reads separated by an await |
| Engine client and server | an analysis is computed by one engine at most, and answered once | time-outs against late answers; a program whose error and close events both come |
| Order book, matching | sides best first, no price twice, quotes kept; best execution | order of levels after long sequences of updates; matching on a book that moves |
| Orders, position, portfolio, decision | position and portfolio agree; no fill lost or booked twice; money conserved; only expected calls throw; a refused purchase leaves position and portfolio apart by that fill alone | partial fills and re-matching; slippage between sizing and fill; a purchase that throws halfway |
| Provider registry and its pages | the feed moves only as requests ask; the saved configuration is in use; the page shows the feed that is served | requests whose `connect` resolves out of order; lost answers |
| Quote cache | how old a quote can be; how often a symbol is fetched | concurrent misses, slow answers, key changes |
| Real-time stream | one connection per page, reconnected; the newest page is fed its symbol | shared focus, overlapping interval callbacks, retry timers |
| Terminal pages | figures are of what the heading says; waiting ends; an upload opens as itself; tables show every row | answers out of order and for pages that were left |

## 2. Modules

| Module | Stands for | Extends / instantiates |
| --- | --- | --- |
| `UploadStages` | ingestion to deduplication, as operators on a file | |
| `UploadRequest` | from the body of a request to such a file | `UploadStages` |
| `SampleFile` | the files of `GET /market/analyze`, read without the stages | `UploadStages` |
| `MarketDataApi` | what the dataset and bar endpoints accept, store and answer | `UploadStages` |
| `DatasetStore` | abstract store: documents that appear once and may go, bars that stay | |
| `DataPipeline` | the two collections, start-up, uploads, datasets, direct insertion, analysis | `UploadStages`; instance of `DatasetStore` |
| `MCDataPipeline` | files, payloads, bodies and queries of the small instances | `DataPipeline`, `UploadRequest`, `SampleFile`, `MarketDataApi` |
| `PriceLevels` | abstract order book: a quantity for each price | |
| `OrderBook` | two sorted vectors of levels | instance of `PriceLevels` |
| `Matching` | a market order walking one side | `OrderBook` |
| `Orders` | transitions of an order and when they throw | |
| `Accounts` | position and portfolio arithmetic, exact fractions | |
| `TradingSession` | decision, order, matching and accounts composed | `Matching`, `Orders`, `Accounts` |
| `ActiveFeed` | abstract registry: a feed that requests move | |
| `ProviderRegistry` | configurations, connections, requests and their probes | instance of `ActiveFeed` |
| `ProviderPages` | the page and dialog that choose the feed, composed with the registry | `ProviderRegistry` |
| `QuoteCache` | `getQuotes` of an external provider, in time | |
| `DepthBook` | quotes and order books made up around a price | |
| `RealTimeStream` | the broadcasting service and the hook of the pages | |
| `OneEngine` | abstract engine client: one engine at most, one answer | |
| `EngineCall` | `runMarketAnalysis`: HTTP, then the program | instance of `OneEngine` |
| `EngineHealth` | the health check beside the way a call goes | `EngineCall` |
| `DatasetPreview` | the table of an upload's rows: search, order, pages | |
| `Terminal` | the pages, their history and requests, composed with the engine | `EngineCall`, `DatasetPreview` |
| `MCProviders`, `MCQuotes`, `MCTerminal` | values of the small instances | `ProviderPages`; `QuoteCache`, `DepthBook`; `Terminal`, `EngineHealth` |
| `UploadStages_proofs` | theorems about the stages, CSV texts, the sample files and the market data API | `UploadRequest`, `SampleFile`, `MarketDataApi` |
| `DataPipeline_proofs` | theorems | `DataPipeline`, `UploadStages_proofs` |
| `OrderBook_proofs`, `ProviderPages_proofs`, `RealTimeStream_proofs` | theorems | the module of the name |
| `TradingSession_proofs` | theorems | `TradingSession`, `OrderBook_proofs` |
| `QuoteCache_proofs` | theorems about the cache and the made-up books | `QuoteCache`, `DepthBook` |
| `Terminal_proofs` | theorems about the engine call, the terminal and its table | `Terminal` |

In each module an operator that no definition uses and whose name says what is
wrong with it (`AllWrittenButLast`, `RefusalRetried`, `AllLines`,
`FallBackOnTimeOut`, `NothingClosed`, ...) is a plausible bug in the definition
after it. `PROJECT.json` pairs each with the property that catches it.

A step everywhere is what runs without interruption. In the backend and in the
browser that is what a process does between two awaits (or two events), since
the event loop runs nothing else meanwhile; other requests, pages, replicas,
time and faults come in between steps.

### The data pipeline

A *replica* is one backend process. `BeginUpload` is all of `processUpload` from
ingestion to the call of `datasetRepository.create`; `CreateDataset` is the
document appearing and the code up to `insertMany`; `WriteBar` is the database
storing one document of an `insertMany`; `FinishUpload` and `UploadRefused` are
its two answers. Insertion, analysis and start-up are cut at their awaits in
the same way.

| Variable | In the code |
| --- | --- |
| `datasets`, `marketBars` | the two collections, with the unique index as the guard `Indexed` |
| `runs` | `pipelineRuns`, one map per replica, lost by `Crash` |
| `pc`, `host`, `target`, `ticker`, `plan`, `written`, `input` | program counter and locals of the requests in flight |
| `deleted`, `faults` | history of deletions; budget of crashes and database errors |

MongoDB is external and modelled by how the code relies on it: ordered
`insertMany` stops at the first refused document and keeps what it stored; an
error answer may hide a write that was applied (`PersistenceFails`). Prices are
integers in cents; a timestamp is a raw spelling with the day `parseMarketDate`
makes of it.

`DatasetStore` says what the collections look like from outside, with no program
counter in it: a document appears under an id that was never used (the sample's
may come back), and may be deleted; a bar is stored when its dataset has been
created, its quote is one the engine accepts and its key is free; a bar never
goes.

`UploadRequest` gives the file of a request. Text is a sequence of lines, a line
a sequence of words and signs; the tables `NormalHeader`, `Begins`, `NumberOf`,
`TickerOf` and `ExtensionOf` say what the code's string functions make of the
words, so that what is modelled is the trimming of the text, its lines and its
cells, the blank lines passed over, the choice of delimiter, the cells between
quotation marks with a doubled one for a mark inside, the column found under one
of its names or a prefix, rows that are short or notes of a dividend, and which
part of a form is the file. A tab is a blank as well as a delimiter: a line cut by
tabs whose first or last cell is blank loses that tab to the trimming, as in the
code, and its cells shift or its row is too short. A CSV
text sent as `fileContent` in a JSON body is parsed as JSON, and a body with a
`data` array is no file: both are refused, as in the code.

`SampleFile` and `MarketDataApi` are operators too. `SampleFile` reads the
repository's own CSV files as `runMarketAnalysisFromFile` does: a row is passed
over or repaired where the upload would refuse the file, all bars are sent under
the last ticker named, and a file of tab-separated rows
(`*-range-data.csv`) has no usable row at all. `MarketDataApi` has the
validations, the spellings of a ticker and the answer to a query with a limit.

### The trading engines

The engines are libraries, composed only in `EndToEndTradingTest.cpp`;
`TradingSession` composes them the same way, with what that test leaves out:
several orders one after another, an order that is matched again after a partial
fill or cancelled, and a book that market data changes between any two calls.
Each engine call is a step, `stage` says which call is next. An exception ends
the session (`Throw`), since nothing in the composition catches one. Four calls may
throw: sizing, an order of nothing, the matching engine when the side to take from
has been emptied since the decision (`std::out_of_range`), and the portfolio when a
purchase exceeds its cash. At the last the position has booked the fill already:
`ApartByTheRefusedFill` says that the two are then apart by exactly that fill.

`OrderBook` has one action for the bid and the ask version of an operation, whose
code differs only in the comparison (`Better`). `std::find_if` is `FindLevel`,
`std::sort` is `Sort`, by rank. Doubles become integers (prices, quantities,
cash) or exact fractions (averages, profit), so that equalities such as
`filledQuantity == quantity` mean what the code intends; what rounding does to
them is not modelled. `bought`, `sold` and `slipped` are history.

### Providers

`ProviderRegistry` has the state of `provider.service.ts`: `configs` is its
`configs`, `active` its `activeProviderType`; `held` and `connected` are
`config` and `isConnected` of each provider. The test of a remote vendor is the
one await that ends in a later turn, so a request is two steps: `BeginRequest`
(the handler up to the probe, or all of it when there is none) and `EndProbe`
(the vendor's answer and the rest). The connect of the constructor, which nobody
awaits, is one more request, `StartUp`.

`ProviderPages` adds a page. A *flow* is what one click starts: the request, its
answer, and the list fetched after an activation; the list of a flow carries the
active provider of the moment it was made, and arrives later, out of order or
not at all (`ShowFailure`). `careful` is the history of a user who waits for
each answer and loses none. The refinement `FeedMovesAsAsked` maps the registry,
alone or with the page, to `ActiveFeed`: a request moves the feed once, and to
nothing but what it names or the simulator.

`QuoteCache` is the loop of `getQuotes`. A caller goes through its list and stops
at each symbol it must fetch; `read` is when the vendor read the quote it will
answer with, and a quote *is* that time, so that ages and regressions can be
stated. `FetchFails` is an error, a time-out or a notice of the limit; all end in a
made-up quote that is cached like a real one. Callers overlap as the stream's
interval and snapshots do. `DepthBook` says which books the providers may make
up around a price, with the rounding to hundredths as the set `Nearest`.

### The stream

`RealTimeStream` has both ends. The browser's: `page`, `symbol`, `source`
(`eventSourceRef`), `status`, `retry` (the timer), `book` (on display) and, for
each connection ever opened, `link` and `asked`. The service's: `clients`,
`activeSymbol`, the snapshots and callbacks that wait for a provider
(`snapshot`, `callback`) and the gauge of `http-logger.middleware.ts`. The
callback captures the focus when the interval fires; the snapshot reads it again
after the quotes. Of the events only order books are kept.

### The engine and the terminal

`EngineCall` follows a call through `stage`: the HTTP request with the server's
end of it (`server`), the child process (`child`) and the promise (`answer`).
`Failures` are the errors of the HTTP client that the code tells apart;
`FallBackCodes` are the three after which the program is started. A server keeps
computing after its client has given up. `OneEngine` is what this must look like:
`ran`, the engine that took the call up, and the answer.

`Terminal` is the browser around it. `page` is the open tab with what its heading
says (`selected`), what its figures are of (`data`) and its loading and error
flags; `visit` numbers the openings, so that answers to a page left behind can be
told from those to the open one; `history` and `address` are the browser's;
`launched` and `handed` are what the app hands from the data lab to the market
page and from the scanner to the backtest; `sent` holds the requests, answered in
any order (`Succeeds`, `Fails`); `stored` is the database's list of datasets,
newest first, `deleted` what was once in it. Others may upload a dataset, or delete
any with `DELETE /datasets/:id`, which no page of the terminal sends; an analysis of a
deleted dataset is answered 404. Request `k` that needs an analysis is call `k` of `EngineCall`.
The scanner's setups have strategies that no backtest offers, as in the code: the
list then shows its first option, which cannot be chosen until another is.
`DatasetPreview` is the table in the data lab; its `view` is kept by the page. The
place of a row is one more than the number of rows before it, which is what a stable
sort gives, and a page is a stretch of places.

## 3. Runs

| Run | Instance | What it shows |
| --- | --- | --- |
| `data_pipeline` | one replica, one upload, one insertion, one analysis, one fault; eleven files, one table sent in several ways, four payloads | the safety properties and, under `FairSpec`, that every request is answered or lost with its replica; that a table is read alike however it is sent |
| `seeding` | three replicas, one creation, one insertion of one payload, one fault | seeding races: the sample is complete after a quiet start and, under `FairSpec`, a replica that starts serves whoever wins |
| `upload_not_analysable` | one upload, no fault | finding 1 |
| `order_book` | three prices, two quantities: all 729 books | order, refinement of `PriceLevels`, best execution of every order size |
| `trading_session` | two prices, one quantity per level, capital 10, four orders | the accounts, the exceptions and what the one of the portfolio leaves behind |
| `match_takes_liquidity` | the same, one order | finding 2 |
| `providers` | the simulator, a remote vendor, a broker whose key is not tested; two requests, the start-up's connect, the page's first list | the registry and its page, and the refinement of `ActiveFeed` |
| `quotes` | two symbols, two callers (symmetric), expiry 2, time-out 1, clock to 4 | ages, regressions and fetches of the cache |
| `vendor_limit` | the six symbols of the stream, one caller | finding 3 |
| `stream` | two pages, two symbols, one disturbance | connections, retries and what the newest page is shown |
| `gauge` | the same | finding 4 |
| `terminal` | three requests, two pages opened after the first, two addresses, two of three calls on a backend with a server; one upload or deletion from elsewhere; three rows | what the pages show, one engine per call, and that calls and pages are answered |

TLC evaluates five statements about operators with these runs, as assumptions:
`SampleFilesRead`, `SpelledAnyhow` and `PagedThrough` (`MCDataPipeline`),
`BooksAreInOrder` (`MCQuotes`) and `HealthOfEngine` (`MCTerminal`). The last says
exactly when the health check and a call disagree; `PagedThrough` also says
that pages of a query without a ticker do lose bars.

Why the bounds are enough.

- *Pipeline.* Every race is between a writer and a reader of one dataset; one
  upload, one insertion and one analysis with deletions have all pairs of them,
  and the files are picked so that each stage has something to drop, widen,
  reorder or refuse. One fault places a crash or an error answer between any two
  steps. Two uploads never meet: each has a dataset id of its own. Three replicas
  let one win the seeding race, one lose it and one come late; the payload,
  posted through a replica that serves already, stores a bar of the sample ahead of one
  that is still seeding it, which is then refused.
- *Book and session.* Three prices have a middle level to erase or insert. Capital
  and limits are chosen so that sizing gives orders within the limits, above them
  (refused), large enough to be filled in parts and to spend all cash (a later
  exit makes sizing throw), and large enough to be filled beyond the cash; four
  orders are an entry, an exit in part, the rest and a new entry.
- *Providers.* Requests meet in pairs at the await of a probe, and the start-up's
  connect is a third that may still be on its way. The three providers are the
  three ways a probe can go: none, over HTTP, or a look at the key.
- *Quotes.* Two callers are needed for a fetch to overtake another; with a time-out
  shorter than the expiry and a clock to twice the expiry, an entry is filled, expires
  and is filled again while another fetch of it is pending. Two symbols make one
  wait for the other.
- *Stream.* Two pages are what it takes for one to move the other's focus; the
  disturbance is a change of symbol, a broken connection (at any point, also while
  connecting) or another request. A page opened again is the second page.
- *Terminal.* Three requests are the list, the load that follows it and one the user
  asks for meanwhile, whose answer may come before either; two openings leave a page
  and come back to one like it. `NavigateTo` leaves out the button of the page that is open already,
  which changes nothing but the history. The one change from elsewhere
  (`MaxElsewhere`) is an upload that becomes the newest dataset, the deletion of the
  seeded one, which may leave the list empty, or of what the page has uploaded itself.
  `FirstTabs` are the addresses from which
  the others are reached; those that would only add the same pages with other
  numbers are left out.

`CHECK_DEADLOCK FALSE` stands where a run really stops: a session that threw or
used its orders up, requests, visits or disturbances used up, the clock at its
end, all replicas down, all pages left.

Fairness. Arrivals, users, vendors, deletions and faults owe nothing anywhere.
The trading modules, the registry alone and the quote cache state safety only.

- `DataPipeline`: weak fairness of the steps that continue a request already
  accepted, and of a replica's start-up. The event loop runs a continuation once
  its promise settles, and the driver settles it.
- `ProviderPages`: weak fairness of a flow's steps. `apiClient.ts` gives every
  request up after 15 s, so that a flow goes on or fails, whatever the vendor does.
- `RealTimeStream`: weak fairness of requests reaching the service, of the
  browser's open event and retry timer, of provider answers (each with a time-out)
  and of the interval. The network may fail, but only `Disturbances` times: that a
  page reconnects is said of a network that comes back.
- `Terminal`: weak fairness of an answer or a failure of each request (the same
  15 s), and of each call's next step. The engine's program has no time-out in
  the client; that it ends is an assumption on the program, whose work on one
  file is a finite loop.

Findings, each a run in which TLC reaches a state that contradicts a document:

1. A CSV whose symbol column names another ticker than its file name (or the
   form) is stored under that ticker in bars of the other; the upload completes
   and no analysis of it can succeed (`docs/dataPipelineGuide.md:115`).
2. Matching takes the book as `const`; what it took remains
   (`docs/QUANTITATIVE_AND_MATHEMATICAL_MODELS.md:1439`).
3. The cache is there to keep within five calls a minute
   (`external.provider.ts:29`); the first tick of the stream makes six
   (`external.provider.ts:309`, `realtime.service.ts:111`).
4. The gauge of requests in flight (`metrics.ts:62`) is decremented where a
   response is ended; an event stream is dropped without an end and stays counted
   (`http-logger.middleware.ts:43`, `realtime.service.ts:41`).

## 4. Proofs

All theorems hold for every value of the constants that satisfies the named
assumptions. Most of these only say that names of different kinds differ and that
inputs have their types (`SpellingsAssumption`, `SetsAssumption`,
`QuotesAssumption`, `ProvidersAssumption`, `PagesAssumption`, `StreamAssumption`,
`EngineAssumption`, `TerminalAssumption`, `NotFiniteAssumption`,
`NotTextAssumption`). Three say more:

- `InputsAssumption`: the bars of the built-in sample are acceptable to the engine
  and have distinct times, as `SAMPLE_BARS` has.
- `SessionAssumption`: percentages lie between 0 and 100 and the allocation does
  not exceed the largest one, as in the configuration of the end-to-end test.
- `CacheAssumption`: a list names no symbol twice and lists have a longest, as those
  of the stream and of the pages; the expiry is not zero.

| Property of a run | Theorem | Inductive invariant |
| --- | --- | --- |
| `TypeOK`, `EngineInputAccepted`, `CompletedUploadStored`, `CollectionsKeepPromise`, `RejectedUploadLeavesNothing`, `OutcomeIsFinal` | `TypeCorrect`, `EngineNeverRefuses`, `CompletedIsStored`, `CollectionsAreAStore`, `RejectionIsClean`, `OutcomesAreFinal` | `IInv` of `DataPipeline_proofs` |
| `AnalysisHasNoGaps` | `PartsWithoutGaps` | `GapsInv` |
| `SeededAfterQuietStart` | `SeedingCompletes` | `SeedingInv` |
| `BookTypeOK`, `BestFirst`, `QuotesKept`, `EachCallQuotes` | `BookTypeCorrect`, `BookSorted`, `BookImplementsPriceLevels`, `CallsQuote` | `Ladders` |
| `TypeOK`, `AccountsAgree`, `FillsBookedOnce`, `MoneyConserved`, `OnlyExpectedExceptions`, `ShortOfCashOnlyBySlippage`, `ApartByTheRefusedFill` | `SessionTypes`, `RecordsAgree`, `EachFillBookedOnce`, `MoneyIsConserved`, `CallsAreLegal`, `SizedWithinCash`, `RefusedPurchaseApart` | `SessionInv` |
| `BestExecution` | `MatchesBestFirst` | `Ladders` |
| `SavedConfigInUse`, `StatusOfKeyInUse`, `FeedMovesAsAsked` | `SavedIsUsed`, `StatusIsTrue`, `FeedIsAsked` | `RegistryInv` |
| `QuietPageShowsFeed` | `FeedIsShown` | `PagesInv` of `ProviderPages_proofs` |
| `ReturnedAgeBounded`, `QuotesRegressAtMostTimeOut`, `OneFetchPerPeriod` | `AgeBounded`, `QuotesHardlyRegress`, `FetchesSpaced` | `IInv` of `QuoteCache_proofs` |
| `SourceFollowsHook` | `NoConnectionLeaks` | `StreamInv` |
| `OneEngineAnswers` | `EngineKeepsPromise`, `TerminalKeepsPromise` | `EngineInv` |
| `FiguresMatchHeading`, `OpensLaunched` | `FiguresRight`, `LaunchedOpens` | `PagesInv` of `Terminal_proofs` |
| `PagesCoverMatches` | `PagesCorrectlyCut` | `ViewInv` of `Terminal_proofs` |

*Upload stages.* `Rank` numbers the kept lines along `Precedes`, a strict total
order; it is injective and bounded by their number, hence onto, so every place of
the result is taken by exactly one line (`DeduplicateCorrect`). With
`AdjustedQuoteInBounds` follows `CleanBarsAccepted`: what the stages let
through, the engine accepts.

*Data pipeline.* `TypeOK` is inductive. The safety properties are not: that an analysis
sees acceptable bars depends on what every writer still plans to write, that a
completed upload is stored on where each writer's plan stands. `IInv` adds
to `TypeOK` what holds of every plan (addressed to its dataset, accepted by the
engine, its first `written` bars stored), of every stored bar (its quote, its
dataset known, no two of one key), of requests in flight (an upload that has not
begun has no dataset; a refused one never will) and of what an analysis has
read. The proof has one lemma per group of actions and per part of `IInv`.

`CollectionsAreAStore` is the refinement of `DatasetStore`. Most steps are
stutters; a document that appears needs a fresh id, which an upload has because
nothing is known under its dataset until its document is there (a part of
`LifecycleInv`), and each bar written needs the whole of a writer's plan:
addressed to a dataset that was created, accepted by the engine, and let through
by the index. From the same invariant follows `OrphansComeFromDeletions`: a bar
without a document is one whose dataset was deleted.

`GapsInv` adds that the plan of an upload ascends in time, that a bar of a dataset
no insertion aims at comes from the first `written` bars of its upload's plan, and
that an analysis has read nothing but stored bars: a read of the first few bars of
an ascending plan is then a part without gaps. `SeedingInv` finds a leader among
the replicas that insert the sample: as long as it is there but not complete, one
of them has written every bar of it there is (`Leads`). Each inserts from the first bar on
and stops at one it finds, and distinct keys mean that the leader finds none
ahead of it; so the last to insert leaves the sample complete.

*CSV texts.* `TablesReadAlike` says of any table, with `WritesTable` for what it is to
write one: the text shows lines, each with any blanks around it and blank lines in
between (`Shows`); a line spells its cells one after the other, each as it is
or in quotation marks, with blanks around and a delimiter between them (`Writes`,
`Cut`, `Pads`). Trimming takes the blanks and no word (`TrimmedOfPadded`), so the lines
that are read are those shown (`LinesAsShown`). `QuotesTurn` counts the marks:
they are even in number at each end of a cell, odd inside a quoted one
(`SpelledCell`). So a line is cut at the ends of its cells and nowhere else
(`CutsAtEnds`), and as these places come in order, the n-th of the set of cuts is
the n-th end (`NthOfList`) and parsing undoes writing (`CellsAsWritten`). Only
the delimiter used cuts the header, so it is the one detected (`DelimiterFound`),
and two sets of lines with the same cells give one table (`LinesReadAlike`).
The inductions along a line are `AlongStretch`, by the least place that fails.
The hypotheses are what a writer of CSV does: two columns at least, and
quotation marks around a cell that holds the delimiter, around a header that holds
any of the four. Two things are outside of the theorem, though not of the model: a
quotation mark within a cell, and a line cut by tabs whose first or last cell is
blank, of which the statement would be false.

*Order book.* A `Ladder` is a side with strictly worsening prices. Each vector
operation maps a ladder to a ladder and changes the quantity at one price
(`WithoutCorrect`, `SetQuantityCorrect`, `InsertCorrect`, the last on
`SortCorrect`); `QuantityFound` links what `find_if` returns to the level. Hence
`BookTypeCorrect`, `BookSorted` and `BookImplementsPriceLevels`: every step is
a step or a stutter of `PriceLevels`. A refinement alone would allow a call to
quote at the wrong price; that each call is the abstract step of the same name
and arguments is `CallsQuote`.

*Trading session.* Three layers. Arithmetic: `Fraction` is the one pair in lowest
terms of its value, so that equal averages are equal records (`FractionIs`,
`FractionUnique`). Matching: what is left after the first levels never grows, the
weighted price is at most the filled quantity at a price no fill exceeds, and
something is filled whenever the side holds anything. These are about recursive
functions along the levels; `Recursion` justifies their equations, and the facts follow from the
least place where one would fail (`LeastOf`, from `WFMin`), an induction that
needs no operator as a parameter. Session: `SessionInv` says call by call
(`stage`) which fills of the order are in the position, which in the portfolio,
and that what remains of an exit is still held, of an entry still affordable
unless a fill came above the price it was sized at. The last is what makes
`ShortOfCashOnlyBySlippage` and `OnlyExpectedExceptions` invariant: neither says
anything of an order that is yet to be matched again. `RefusedPurchaseApart` needs
that the two accounts agreed before the fill that only the position has booked.

*Best execution.* Of a side that is a `Ladder`: what is left after some levels is the
order less all they hold (`LeftOfDepth`), and a level gives all it holds before
the next gives anything (`WalkExhausts`), so prices are exhausted from the best on.
The totals over prices are `SumFunction`, a fold whose recursion is not available
to the provers as it is: `SumIs` shows that it is the value of a function on the subsets,
`SumSplits` that any element may be summed first, `SumAlong` that a sum is where a
running total along a list of the nonzero places ends. `OverSubsets`, an
induction over the subsets of a finite set that is stated of a set, carries
these. `MatchesBestFirst` assumes that the prices are finitely many, without
which the depth of a side as a sum over all of them means nothing; the doubles are.

*Providers.* A configuration is saved and handed over in one turn, so
`SavedConfigInUse` needs little; `StatusOfKeyInUse` needs to know of every probe
on its way which configuration it was sent with (`ProbeInv`), which is what the
provider holds unless two connects of it meet. The page's `ShownInv`: while a
careful user waits, one flow runs at most, it alone has a request in the
registry, and what is shown is the feed unless that flow will show it.
`PagesUseRegistry` carries the registry's theorems over to the pages.

*Quote cache.* A fetch lasts at most a time-out (the clock waits for it), so a
quote is cached at most a time-out after it was read, and a call with `k` symbols
behind it is at most `k` time-outs old. `OneFetchPerPeriod` needs in addition that
what a call has fetched is cached no earlier than the fetch began, or still
awaited. `Nearest` is monotone up to its ties: a number between two whole numbers
is rounded to one between them (`NearestBetween`). Hence `BookInOrder` for every
price and any quantities; `LevelsDistinct` above 37.50, where the step between
levels exceeds a hundredth; `QuoteInRange`.

*Stream.* `SourceFollowsHook` is about pages and connections together: a page that
is open refers to a connection it opened, with its symbol (`HooksInv`), and a
connection is opened under a number nobody has used. That such a number is left
is a count: connections used and retries pending are together at most the pages
opened and the disturbances so far (`NumbersInv`).

*Engine call.* `EngineKeepsPromise` is the refinement of `OneEngine` for any number
of calls. It needs to know which events can still come: `StageOK` says that a
call with the program was never taken up by the server, that a program with
output belongs to a call that waits for it, and that a settled call has its
answer (`EngineInvariant`). Each step of a call then maps to asking, running,
answering, failing or a stutter (`StepRefines`), and disturbs no other call.

*Terminal.* `TerminalUsesEngine`: every step of the terminal is a step of the engine
calls or leaves them alone. For the pages, `FiguresMatchHeading` speaks of a
quiet page only; its invariant, of every page: the last of its requests is for
what its heading says, or its list has yet to come, after which one will be
(`AskedInv`); it has shown the latest answer it was given, and after a failure
says so until it asks again (`ShownInv`). `OpensLaunched` needs what has been
handed over: the dataset of a finished upload was stored before its page shows it,
and the list is asked for that very dataset (`LaunchInv`). What was once stored and is
not deleted is still stored (`StoreKeeps`, `DeletionKeeps`), so it is found in whatever the list
holds by then, after any number of uploads and deletions from elsewhere; when it was
deleted, the page begins with one that its list has, or with the sample when there
is none.

*Table of the data lab.* `PagesCoverMatches` needs no more of the state than that the
page kept is the page shown and the view has its types (`ViewInv`); `BrowseKeeps`
has one step per control. The rest is about operators. `Before` is a strict total
order (`BeforeTotal`), so every place is taken by one row (`Places`,
`PlacesTaken`) and the sorted rows are in order (`SortedInOrder`); the pages are
consecutive stretches of places, none of them empty, that reach the last place
(`PagesNeeded`, `PageShows`), and together hold every match (`PagesCover`).

*Sample files.* Every repaired row is a quote the engine accepts
(`RepairedQuoteAccepted`); so the engine refuses a sample file only because
nothing of it is usable or its rows are not in order (`SampleRefusedForOrderOnly`).

*Market data API.* `SpellingsAgree` rests on `UpperCase` being idempotent: it is
applied once when a dataset is created, three times to a stored bar and twice to
a query. `TickerPagesComplete`: within one ticker the unique index leaves one bar
per time, so a limit never cuts through a time and the query after the last bar
returns the rest.

Only model-checked:

- the liveness properties (`RequestsAnswered`, `StartingReplicaServes`,
  `PageUnblocks`, `HookReconnects`, `NewestPageFed`, `LoadingEnds`, `CallsSettle`):
  fairness is out of the prover's reach;
- `ReadAsWritten`, which follows the few tables of one instance through the whole of
  a request (the parts of a form, a JSON body, the columns under their other
  names) to the plan of its upload. What it says of delimiters, quotation marks,
  blanks and blank lines is proved of every table, `TablesReadAlike`.

## 5. Not modelled

- Formulas of statistics, risk, microstructure, indicators: stateless and in
  floating point. Rounding there and in the accounts: exact numbers.
- Market data buffer, rolling window and event bus of the engine: nothing but
  their own tests and benchmarks calls them, and no code connects them to anything.
  The backtest is a loop over doubles in one call; the backtest the terminal
  shows is the backend's, a random walk.
- The characters of text: cutting a multipart body at its boundary, formats of
  dates and numbers. Tables give their meaning. (A date
  written DD/MM/YYYY is read by `Date` as MM/DD first, a hazard in `PROJECT.json`.)
- A program of the engine that ends before it has read its input: nothing listens
  for an error of `child.stdin` (`QuantEngineClient.ts:612`) and `server.ts` handles no
  uncaught exception, so a broken pipe may end the backend. `EngineCall` assumes a
  program that takes its input; the case is listed as a hazard.
- Backend dashboards, and the landing, overview and risk pages: views over constants, random numbers or
  what is fetched once when the page opens.
- Layout, charts, and formatting of what is shown; the placeholders that replace a
  figure of 0 in `BacktestingDashboard.tsx:89` are listed as a hazard.
- The stop of a process on a signal (hazard at `server.ts:57`), routing,
  logging, status codes, deployment and data scripts.
- Code without a caller: `enrichMarketAnalytics` and `enrich-analytics.ts`,
  `quant-engine.service.ts`, the collection of `MongoAnalyticsRepository`, which is
  never written, `PositionEngine::reset`.

## 6. Plan

Done, in this order: the pipeline and its database, the order book and the
trading session; the provider registry and its pages, the quote cache, the
stream; the engine call, the terminal around it; the request, the sample
files and the market data API around the pipeline.

Proved: every safety and action property of a passing run but `ReadAsWritten`, and
each of the four refinements (`PriceLevels`, `ActiveFeed`, `OneEngine`,
`DatasetStore`).

What could be added, by what it would say:

1. The columns of a table: that a header found by an alias or by a prefix is the same
   whatever the order of the columns, as long as no two headers claim one alias.
2. The start-up and stop of the backend, with the signals that end a request in
   flight (now a hazard at `server.ts:57`).
