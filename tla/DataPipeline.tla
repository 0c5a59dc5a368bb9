---------------------------- MODULE DataPipeline ----------------------------
(***************************************************************************)
(* The two MongoDB collections and everything in the backend that writes   *)
(* or analyses them: start-up seeding, uploads, direct insertion of bars,  *)
(* creation and deletion of datasets, and analysis requests, on one or     *)
(* more backend replicas that may crash between any two steps.             *)
(*                                                                         *)
(* Each await is a step of its own.  insertMany stores one document after  *)
(* another: it is neither atomic nor isolated, it stops at the first       *)
(* document the unique index (datasetId, symbol, timestamp) refuses, and   *)
(* what it stored stays.  A dataset id is a fresh UUID, so the id a        *)
(* request would generate is named after the request.                      *)
(***************************************************************************)
EXTENDS UploadStages

CONSTANTS
  Replicas,      \* backend processes sharing the database
  Uploads,       \* POST /data-pipeline/upload requests
  Creations,     \* POST /datasets requests
  Insertions,    \* POST /market-data/:id requests
  Analyses,      \* GET /analytics/:id requests
  Files,         \* files that may be uploaded
  Payloads,      \* bar arrays that may be posted
  SampleId,      \* SAMPLE_DATASET.id
  SampleSymbol,
  SampleSeries,  \* SAMPLE_BARS
  Absent,        \* no document / no value
  MaxFaults      \* bound on crashes and database errors together

DatasetIds == Uploads \cup Creations \cup {SampleId}
Writers == Uploads \cup Insertions \cup Replicas
Processes == Writers \cup Analyses
Requests == Uploads \cup Insertions \cup Analyses

Outcome(s, at) == [status |-> s, failedAt |-> at]
Outcomes == {Outcome("completed", "none")} \cup
            {Outcome("failed", s) : s \in {"ingestion", "validation", "persistence"}}

ASSUME SetsAssumption ==
  /\ Uploads \cap (Insertions \cup Replicas \cup Analyses \cup Creations \cup {SampleId}) = {}
  /\ Insertions \cap (Replicas \cup Analyses) = {}
  /\ Replicas \cap Analyses = {}
  /\ SampleId \notin Creations
  /\ Absent \notin Symbols /\ Absent \notin Outcomes
  /\ MaxFaults \in Nat

ASSUME InputsAssumption ==
  /\ Files \subseteq File
  /\ Payloads \subseteq Seq(Bar)
  /\ SampleSymbol \in Symbols
  /\ SampleSeries \in Seq(Bar)
  /\ \A i \in DOMAIN SampleSeries : EngineAcceptsQuote(SampleSeries[i].quote)
  /\ \A i, j \in DOMAIN SampleSeries : SameKey(SampleSeries[i], SampleSeries[j]) => i = j

StoredBar == [dataset : DatasetIds, symbol : Symbols, timestamp : Int, quote : Quote]

VARIABLES
  datasets,    \* the datasets collection: ticker of each document, or Absent
  deleted,     \* history: ids of documents that were deleted
  marketBars,  \* the market_bars collection
  pc,          \* where each request, and each replica's start-up, is
  host,        \* the replica that runs a request
  target,      \* the dataset id an insertion or analysis names
  ticker,      \* the ticker a create carries, or findById returned
  plan,        \* the documents of an insertMany
  written,     \* how many of them are stored
  input,       \* the bars an analysis read and passed to the engine
  runs,        \* pipelineRuns of each replica: outcome of each upload
  faults       \* crashes and database errors so far

database == <<datasets, deleted, marketBars>>
locals == <<host, target, ticker, plan, written, input>>
vars == <<datasets, deleted, marketBars, pc, host, target, ticker, plan, written,
          input, runs, faults>>

Addressed(d, bars) ==
  [i \in DOMAIN bars |-> [dataset |-> d, symbol |-> bars[i].symbol,
                          timestamp |-> bars[i].timestamp, quote |-> bars[i].quote]]

Init ==
  /\ datasets = [d \in DatasetIds |-> Absent]
  /\ deleted = {}
  /\ marketBars = {}
  /\ pc = [p \in Processes |-> IF p \in Replicas THEN "down" ELSE "idle"]
  /\ host = [p \in Requests |-> Absent]
  /\ target = [p \in Insertions \cup Analyses |-> SampleId]
  /\ ticker = [p \in Uploads \cup Analyses |-> Absent]
  /\ plan = [w \in Writers |-> <<>>]
  /\ written = [w \in Writers |-> 0]
  /\ input = [a \in Analyses |-> {}]
  /\ runs = [r \in Replicas |-> [u \in Uploads |-> Absent]]
  /\ faults = 0

-----------------------------------------------------------------------------
(* insertMany, shared by uploads, insertions and seeding                   *)

Indexed(b) ==
  \E x \in marketBars : x.dataset = b.dataset /\ SameKey(x, b)

AllWrittenButLast(w) == written[w] + 1 >= Len(plan[w])

AllWritten(w) == written[w] >= Len(plan[w])

NextBar(w) == plan[w][written[w] + 1]

Inserting(w) == pc[w] = "inserting"

(* E11000 duplicate key: the ordered insertMany stops here.                *)
Refused(w) == ~AllWritten(w) /\ Indexed(NextBar(w))

WriteBar(w) ==
  /\ Inserting(w)
  /\ ~AllWritten(w) /\ ~Refused(w)
  /\ marketBars' = marketBars \cup {NextBar(w)}
  /\ written' = [written EXCEPT ![w] = @ + 1]
  /\ UNCHANGED <<datasets, deleted, pc, host, target, ticker, plan, input, runs, faults>>

(* The database, or the connection to it, fails: one fault of the budget.  *)
Fault == faults < MaxFaults /\ faults' = faults + 1

-----------------------------------------------------------------------------
(* Start-up of a replica: connect and ensure the indexes, then             *)
(* ensureDefaultDatasetSeeded, then listen.                                *)

Connect(r) ==
  /\ pc[r] = "down"
  /\ pc' = [pc EXCEPT ![r] = "counting"]
  /\ UNCHANGED <<database, locals, runs, faults>>

CountDatasets(r) ==
  /\ pc[r] = "counting"
  /\ pc' = [pc EXCEPT ![r] =
              IF \A d \in DatasetIds : datasets[d] = Absent THEN "seeding" ELSE "serving"]
  /\ UNCHANGED <<database, locals, runs, faults>>

SeedDataset(r) ==
  /\ pc[r] = "seeding"
  /\ datasets[SampleId] = Absent
  /\ datasets' = [datasets EXCEPT ![SampleId] = SampleSymbol]
  /\ plan' = [plan EXCEPT ![r] = Addressed(SampleId, SampleSeries)]
  /\ written' = [written EXCEPT ![r] = 0]
  /\ pc' = [pc EXCEPT ![r] = "inserting"]
  /\ UNCHANGED <<deleted, marketBars, host, target, ticker, input, runs, faults>>

RefusalRetried(r) == pc[r] = "seeding" /\ datasets[SampleId] # Absent /\ UNCHANGED vars

(* The unique index on datasets.id refuses a second sample document; the   *)
(* error is caught and the replica serves all the same.                    *)
SeedRefused(r) ==
  /\ pc[r] = "seeding"
  /\ datasets[SampleId] # Absent
  /\ pc' = [pc EXCEPT ![r] = "serving"]
  /\ UNCHANGED <<database, locals, runs, faults>>

(* The sample is stored, or a bar left from a deleted sample refuses it.   *)
FinishSeeding(r) ==
  /\ Inserting(r)
  /\ AllWritten(r) \/ Refused(r)
  /\ pc' = [pc EXCEPT ![r] = "serving"]
  /\ UNCHANGED <<database, locals, runs, faults>>

(* A database error while seeding is not fatal either.                     *)
SeedingFails(r) ==
  /\ pc[r] \in {"counting", "seeding", "inserting"}
  /\ Fault
  /\ pc' = [pc EXCEPT ![r] = "serving"]
  /\ UNCHANGED <<database, locals, runs>>

(* A crash loses pipelineRuns and every request the replica was handling.  *)
Crash(r) ==
  /\ pc[r] # "down"
  /\ Fault
  /\ pc' = [p \in Processes |->
              IF p = r THEN "down"
              ELSE IF p \in Requests /\ host[p] = r
                      /\ pc[p] \in {"creating", "inserting", "finding", "querying"}
                   THEN "lost" ELSE pc[p]]
  /\ runs' = [runs EXCEPT ![r] = [u \in Uploads |-> Absent]]
  /\ UNCHANGED <<database, locals>>

-----------------------------------------------------------------------------
(* DataPipelineService.processUpload                                       *)

StartUnaddressed(u, f) ==
  /\ pc' = [pc EXCEPT ![u] = "creating"]
  /\ ticker' = [ticker EXCEPT ![u] = DatasetSymbol(f)]
  /\ plan' = [plan EXCEPT ![u] = CleanBars(f)]

StartPersistence(u, f) ==
  /\ pc' = [pc EXCEPT ![u] = "creating"]
  /\ ticker' = [ticker EXCEPT ![u] = DatasetSymbol(f)]
  /\ plan' = [plan EXCEPT ![u] = Addressed(u, CleanBars(f))]

RecordRejection(u, r, f) ==
  runs' = [runs EXCEPT ![r][u] = Outcome("failed", FailedStage(f))]

RejectWithoutReturn(u, r, f) ==
  /\ RecordRejection(u, r, f)
  /\ pc' = [pc EXCEPT ![u] = "creating"]
  /\ ticker' = [ticker EXCEPT ![u] = DatasetSymbol(f)]
  /\ UNCHANGED plan

Reject(u, r, f) ==
  /\ RecordRejection(u, r, f)
  /\ pc' = [pc EXCEPT ![u] = "failed"]
  /\ UNCHANGED <<ticker, plan>>

(* Ingestion to deduplication, and the call of datasetRepository.create    *)
BeginUpload(u, r, f) ==
  /\ pc[u] = "idle" /\ pc[r] = "serving"
  /\ host' = [host EXCEPT ![u] = r]
  /\ IF StagesFail(f) THEN Reject(u, r, f)
     ELSE StartPersistence(u, f) /\ UNCHANGED runs
  /\ UNCHANGED <<database, target, written, input, faults>>

(* create resolves and runPersistenceStage calls insertBars in the same    *)
(* turn; clean bars are never empty, so insertMany is always issued.       *)
CreateDataset(u) ==
  /\ pc[u] = "creating"
  /\ datasets' = [datasets EXCEPT ![u] = ticker[u]]
  /\ pc' = [pc EXCEPT ![u] = "inserting"]
  /\ UNCHANGED <<deleted, marketBars, locals, runs, faults>>

RecordPersistence(u, outcome) ==
  /\ runs' = [runs EXCEPT ![host[u]][u] = outcome]
  /\ UNCHANGED <<deleted, marketBars, locals>>

UploadFails(u) ==
  /\ pc' = [pc EXCEPT ![u] = "failed"]
  /\ RecordPersistence(u, Outcome("failed", "persistence"))

(* The pipeline has no clean-up: a dataset created before a failed         *)
(* insertMany stays, with the bars stored so far.                          *)
NeverReported(u) == FALSE

InsertRefused(u) == Inserting(u) /\ Refused(u)

UploadRefused(u) ==
  /\ InsertRefused(u)
  /\ UploadFails(u)
  /\ UNCHANGED <<datasets, faults>>

(* An error answer may hide a write that was applied: after any number of  *)
(* bars (WriteBar comes first), or after the dataset document.             *)
PersistenceFails(u) ==
  /\ pc[u] \in {"creating", "inserting"}
  /\ Fault
  /\ UploadFails(u)
  /\ \/ UNCHANGED datasets
     \/ /\ pc[u] = "creating"
        /\ datasets' = [datasets EXCEPT ![u] = ticker[u]]

FinishUpload(u) ==
  /\ Inserting(u) /\ AllWritten(u)
  /\ pc' = [pc EXCEPT ![u] = "completed"]
  /\ RecordPersistence(u, Outcome("completed", "none"))
  /\ UNCHANGED <<datasets, faults>>

-----------------------------------------------------------------------------
(* Datasets: POST /datasets and DELETE /datasets/:id.  Deleting a dataset  *)
(* leaves its bars where they are.                                         *)

Serving == \E r \in Replicas : pc[r] = "serving"

CreateEmptyDataset(c, s) ==
  /\ Serving
  /\ datasets[c] = Absent /\ c \notin deleted
  /\ datasets' = [datasets EXCEPT ![c] = s]
  /\ UNCHANGED <<deleted, marketBars, pc, locals, runs, faults>>

DeleteDataset(d) ==
  /\ Serving
  /\ datasets[d] # Absent
  /\ datasets' = [datasets EXCEPT ![d] = Absent]
  /\ deleted' = deleted \cup {d}
  /\ UNCHANGED <<marketBars, pc, locals, runs, faults>>

-----------------------------------------------------------------------------
(* The controller validates the posted bars; MarketDataService.insertBars  *)
(* looks the dataset up, then inserts.                                     *)

PostedQuoteAccepted(q) == QuotePositive(q) /\ QuoteInBounds(q)

PayloadAccepted(p) ==
  p # <<>> /\ \A i \in DOMAIN p : PostedQuoteAccepted(p[i].quote)

BeginInsertion(i, r, d, p) ==
  /\ pc[i] = "idle" /\ pc[r] = "serving"
  /\ host' = [host EXCEPT ![i] = r]
  /\ target' = [target EXCEPT ![i] = d]
  /\ IF PayloadAccepted(p)
       THEN /\ plan' = [plan EXCEPT ![i] = Addressed(d, p)]
            /\ pc' = [pc EXCEPT ![i] = "finding"]
       ELSE /\ pc' = [pc EXCEPT ![i] = "rejected"]
            /\ UNCHANGED plan
  /\ UNCHANGED <<database, ticker, written, input, runs, faults>>

AnyDataset(i) == TRUE

DatasetFound(i) == datasets[target[i]] # Absent

FindForInsertion(i) ==
  /\ pc[i] = "finding"
  /\ pc' = [pc EXCEPT ![i] = IF DatasetFound(i) THEN "inserting" ELSE "notFound"]
  /\ UNCHANGED <<database, locals, runs, faults>>

EndInsertion(i) ==
  \/ /\ Inserting(i) /\ AllWritten(i)
     /\ pc' = [pc EXCEPT ![i] = "completed"]
     /\ UNCHANGED <<database, locals, runs, faults>>
  \/ /\ InsertRefused(i)
     /\ pc' = [pc EXCEPT ![i] = "failed"]
     /\ UNCHANGED <<database, locals, runs, faults>>

InsertionFails(i) ==
  /\ pc[i] \in {"finding", "inserting"}
  /\ Fault
  /\ pc' = [pc EXCEPT ![i] = "failed"]
  /\ UNCHANGED <<database, locals, runs>>

-----------------------------------------------------------------------------
(* AnalyticsService.analyzeDataset: look the dataset up, read its bars,    *)
(* hand them to the engine.  A missing sample dataset is answered from the *)
(* built-in bars.                                                          *)

SeriesOf(d, s) == {b \in marketBars : b.dataset = d /\ b.symbol = s}

BeginAnalysis(a, r, d) ==
  /\ pc[a] = "idle" /\ pc[r] = "serving"
  /\ host' = [host EXCEPT ![a] = r]
  /\ target' = [target EXCEPT ![a] = d]
  /\ pc' = [pc EXCEPT ![a] = "finding"]
  /\ UNCHANGED <<database, ticker, plan, written, input, runs, faults>>

FindForAnalysis(a) ==
  /\ pc[a] = "finding"
  /\ ticker' = [ticker EXCEPT ![a] = datasets[target[a]]]
  /\ pc' = [pc EXCEPT ![a] =
              IF datasets[target[a]] # Absent THEN "querying"
              ELSE IF target[a] = SampleId THEN "analysedBuiltIn" ELSE "notFound"]
  /\ UNCHANGED <<database, host, target, plan, written, input, runs, faults>>

QueriedBars(a) == SeriesOf(target[a], ticker[a])

QueryBars(a) ==
  /\ pc[a] = "querying"
  /\ input' = [input EXCEPT ![a] = QueriedBars(a)]
  /\ pc' = [pc EXCEPT ![a] = IF QueriedBars(a) = {} THEN "noData" ELSE "analysed"]
  /\ UNCHANGED <<database, host, target, ticker, plan, written, runs, faults>>

AnalysisFails(a) ==
  /\ pc[a] \in {"finding", "querying"}
  /\ Fault
  /\ pc' = [pc EXCEPT ![a] = "failed"]
  /\ UNCHANGED <<database, locals, runs>>

-----------------------------------------------------------------------------
ReplicaStep(r) ==
  CountDatasets(r) \/ SeedDataset(r) \/ SeedRefused(r) \/ WriteBar(r) \/ FinishSeeding(r)

UploadStep(u) == CreateDataset(u) \/ WriteBar(u) \/ UploadRefused(u) \/ FinishUpload(u)

InsertionStep(i) == FindForInsertion(i) \/ WriteBar(i) \/ EndInsertion(i)

AnalysisStep(a) == FindForAnalysis(a) \/ QueryBars(a)

ReplicaNext ==
  \E r \in Replicas : ReplicaStep(r) \/ Connect(r) \/ SeedingFails(r) \/ Crash(r)

UploadNext ==
  \E u \in Uploads :
    \/ \E r \in Replicas, f \in Files : BeginUpload(u, r, f)
    \/ UploadStep(u)
    \/ PersistenceFails(u)

DatasetNext ==
  \/ \E c \in Creations, s \in Symbols : CreateEmptyDataset(c, s)
  \/ \E d \in DatasetIds : DeleteDataset(d)

InsertionNext ==
  \E i \in Insertions :
    \/ \E r \in Replicas, d \in DatasetIds, p \in Payloads : BeginInsertion(i, r, d, p)
    \/ InsertionStep(i)
    \/ InsertionFails(i)

AnalysisNext ==
  \E a \in Analyses :
    \/ \E r \in Replicas, d \in DatasetIds : BeginAnalysis(a, r, d)
    \/ AnalysisStep(a)
    \/ AnalysisFails(a)

Next == ReplicaNext \/ UploadNext \/ DatasetNext \/ InsertionNext \/ AnalysisNext

Spec == Init /\ [][Next]_vars

(* Once a request is accepted, the event loop and the database carry it on *)
(* until it is answered; nobody is obliged to connect or to send requests. *)
Fairness ==
  /\ \A r \in Replicas : WF_vars(ReplicaStep(r))
  /\ \A u \in Uploads : WF_vars(UploadStep(u))
  /\ \A i \in Insertions : WF_vars(InsertionStep(i))
  /\ \A a \in Analyses : WF_vars(AnalysisStep(a))

FairSpec == Spec /\ Fairness

-----------------------------------------------------------------------------
(* Properties                                                              *)

Stages == {"down", "counting", "seeding", "serving", "idle", "creating", "finding",
           "querying", "inserting", "completed", "failed", "rejected", "notFound",
           "noData", "analysed", "analysedBuiltIn", "lost"}

(* The shape of the state: what a document, a request in flight and a      *)
(* recorded pipeline outcome can be (processUpload, the two repositories). *)
TypeOK ==
  /\ datasets \in [DatasetIds -> Symbols \cup {Absent}]
  /\ deleted \subseteq DatasetIds
  /\ marketBars \subseteq StoredBar
  /\ pc \in [Processes -> Stages]
  /\ host \in [Requests -> Replicas \cup {Absent}]
  /\ target \in [Insertions \cup Analyses -> DatasetIds]
  /\ ticker \in [Uploads \cup Analyses -> Symbols \cup {Absent}]
  /\ plan \in [Writers -> Seq(StoredBar)]
  /\ written \in [Writers -> Nat]
  /\ input \in [Analyses -> SUBSET StoredBar]
  /\ runs \in [Replicas -> [Uploads -> Outcomes \cup {Absent}]]
  /\ faults \in 0..MaxFaults

PlannedBars(w) == {plan[w][k] : k \in DOMAIN plan[w]}

(* Whatever uploads, insertions, deletions and crashes interleave with an  *)
(* analysis, the bars it hands the engine are ones the engine accepts:     *)
(* one ticker, strictly increasing times once sorted, every quote in band  *)
(* (analyzeDataset against MarketDataAnalytics::analyze).                  *)
EngineInputAccepted ==
  \A a \in Analyses :
    \A b \in input[a] :
      /\ b.symbol = ticker[a]
      /\ EngineAcceptsQuote(b.quote)
      /\ \A c \in input[a] : c.timestamp = b.timestamp => c = b

(* An analysis racing an upload may see a part of it, but a part without   *)
(* gaps: no bar older than one it saw is still to come.  This is what the  *)
(* sort in runDeduplicationStage and the ordered insertMany give.          *)
AnalysisHasNoGaps ==
  \A a \in Analyses, u \in Uploads :
    (target[a] = u /\ \A i \in Insertions : target[i] # u) =>
      \A b \in input[a], c \in PlannedBars(u) :
        c.symbol = ticker[a] /\ c.timestamp < b.timestamp => c \in input[a]

(* An upload reported as completed has stored every clean bar of its file, *)
(* even when other requests inserted into its dataset or deleted it.       *)
CompletedUploadStored ==
  \A u \in Uploads : pc[u] = "completed" => PlannedBars(u) \subseteq marketBars

(* A file refused by ingestion or validation leaves nothing behind: no     *)
(* dataset document and no bar, now or later (the catch of processUpload). *)
RejectedUploadLeavesNothing ==
  \A u \in Uploads, r \in Replicas :
    runs[r][u] \in {Outcome("failed", s) : s \in {"ingestion", "validation"}} =>
      /\ datasets[u] = Absent /\ u \notin deleted
      /\ \A b \in marketBars : b.dataset # u

(* Whatever requests, replicas and crashes interleave, the two collections *)
(* change as DatasetStore allows: no id is used again, every stored bar    *)
(* has a quote the engine accepts, a key of its own and a dataset that     *)
(* exists or was deleted, and no bar goes.  (The service checks a dataset  *)
(* before it inserts; only the unique index keeps the keys apart.)         *)
Promise == INSTANCE DatasetStore
  WITH Ids <- DatasetIds, Sample <- SampleId, Tickers <- Symbols, None <- Absent,
       Bars <- {b \in StoredBar : EngineAcceptsQuote(b.quote)},
       documents <- datasets, removed <- deleted, bars <- marketBars

CollectionsKeepPromise == Promise!Spec

(* Replicas that start together on an empty database race to seed it; if   *)
(* no fault strikes and no one posts into the sample dataset, then however *)
(* they interleave, the sample is complete once no replica is seeding.     *)
SeededAfterQuietStart ==
  /\ faults = 0
  /\ \A i \in Insertions : target[i] # SampleId \/ pc[i] = "idle"
  /\ \A r \in Replicas : pc[r] \notin {"seeding", "inserting"}
  /\ datasets[SampleId] # Absent
  => \A k \in DOMAIN SampleSeries : Addressed(SampleId, SampleSeries)[k] \in marketBars

(* A recorded pipeline outcome is final: only the crash of the replica     *)
(* that holds it changes what getPipelineStatus answers.                   *)
OutcomeIsFinal ==
  [][\A r \in Replicas, u \in Uploads :
       runs[r][u] # Absent => runs'[r][u] = runs[r][u] \/ pc'[r] = "down"]_vars

Answered == {"completed", "failed", "rejected", "notFound", "noData", "analysed",
             "analysedBuiltIn", "lost"}

InFlight == {p \in Requests : pc[p] \notin Answered \cup {"idle"}}

(* Every accepted request is answered or lost with its replica: again and  *)
(* again a time comes when none is in flight.                              *)
RequestsAnswered == []<>(InFlight = {})

(* A replica that starts ends up serving or crashes: neither a database    *)
(* error nor a race with replicas that seed, with deletions of the sample  *)
(* or with bars posted into it keeps it from serving (the catch of         *)
(* ensureDefaultDatasetSeeded).                                            *)
StartingReplicaServes ==
  \A r \in Replicas : (pc[r] = "counting") ~> (pc[r] \in {"serving", "down"})

(* docs/dataPipelineGuide.md:115: once a dataset is persisted, the engine  *)
(* is run on it.  An analysis asks for the bars of the dataset's ticker;   *)
(* a completed upload whose bars all have another one cannot be analysed.  *)
UploadedDatasetAnalysable ==
  \A u \in Uploads :
    pc[u] = "completed" /\ datasets[u] # Absent => SeriesOf(u, datasets[u]) # {}
=============================================================================
