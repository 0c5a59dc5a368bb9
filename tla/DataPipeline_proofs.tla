------------------------ MODULE DataPipeline_proofs -------------------------
(***************************************************************************)
(* Invariance proofs for DataPipeline, for any number of replicas and      *)
(* requests, any files and payloads, and any number of faults.             *)
(***************************************************************************)
EXTENDS DataPipeline, UploadStages_proofs

-----------------------------------------------------------------------------
(* Type correctness                                                        *)

(* Addressing bars to a dataset keeps their number and quotes.             *)
LEMMA AddressedTyped ==
  ASSUME NEW d \in DatasetIds, NEW bars \in Seq(Bar)
  PROVE  /\ Addressed(d, bars) \in Seq(StoredBar)
         /\ DOMAIN Addressed(d, bars) = DOMAIN bars
         /\ \A k \in DOMAIN bars : /\ Addressed(d, bars)[k].dataset = d
                                   /\ Addressed(d, bars)[k].symbol = bars[k].symbol
                                   /\ Addressed(d, bars)[k].quote = bars[k].quote
<1>1. DOMAIN bars = 1..Len(bars) /\ Len(bars) \in Nat
  OBVIOUS
<1>2. \A k \in DOMAIN bars : bars[k] \in Bar
  OBVIOUS
<1>3. Addressed(d, bars) \in [1..Len(bars) -> StoredBar]
  BY <1>1, <1>2 DEF Addressed, StoredBar, Bar
<1> QED
  BY <1>1, <1>3 DEF Addressed

LEMMA FilePlan ==
  ASSUME NEW u \in Uploads, NEW f \in Files, ~StagesFail(f)
  PROVE  /\ Addressed(u, CleanBars(f)) \in Seq(StoredBar)
         /\ DatasetSymbol(f) \in Symbols
<1>1. f \in File /\ u \in DatasetIds
  BY InputsAssumption DEF DatasetIds
<1> QED
  BY <1>1, CleanBarsAccepted, AddressedTyped, DatasetSymbolTyped

(* The processes of the system are of four distinct kinds.                 *)
LEMMA Kinds ==
  /\ Uploads \subseteq DatasetIds /\ SampleId \in DatasetIds
  /\ Uploads \subseteq Writers /\ Insertions \subseteq Writers /\ Replicas \subseteq Writers
  /\ Writers \subseteq Processes /\ Analyses \subseteq Processes
  /\ Requests \subseteq Processes
  /\ Requests = Uploads \cup Insertions \cup Analyses
BY DEF DatasetIds, Writers, Processes, Requests

(* The value standing for no outcome is none of the recorded ones.         *)
LEMMA OutcomesAreNotAbsent == Absent \notin Outcomes
BY SetsAssumption

LEMMA OutcomesTyped ==
  /\ Outcome("completed", "none") \in Outcomes
  /\ Outcome("failed", "persistence") \in Outcomes
  /\ \A f : Outcome("failed", FailedStage(f)) \in Outcomes
BY DEF Outcomes, FailedStage

LEMMA RejectionTyped ==
  ASSUME TypeOK, NEW u \in Uploads, NEW r \in Replicas, NEW f, RecordRejection(u, r, f)
  PROVE  runs' \in [Replicas -> [Uploads -> Outcomes \cup {Absent}]]
<1> DEFINE outcome == Outcome("failed", FailedStage(f))
<1>1. outcome \in Outcomes
  BY OutcomesTyped
<1>2. runs' = [runs EXCEPT ![r][u] = outcome]
  BY DEF RecordRejection
<1> HIDE DEF outcome
<1> QED
  BY <1>1, <1>2 DEF TypeOK

LEMMA FaultTyped ==
  ASSUME TypeOK, Fault
  PROVE  faults' \in 0..MaxFaults
BY SetsAssumption DEF TypeOK, Fault

LEMMA InitTyped == Init => TypeOK
<1> SUFFICES ASSUME Init PROVE TypeOK
  OBVIOUS
<1>1. <<>> \in Seq(StoredBar) /\ Len(<<>>) = 0
  OBVIOUS
<1> QED
  BY <1>1, Kinds, SetsAssumption DEF Init, TypeOK, Stages

LEMMA WriteBarTyped ==
  ASSUME TypeOK, NEW w \in Writers, WriteBar(w)
  PROVE  TypeOK'
<1>1. plan[w] \in Seq(StoredBar) /\ written[w] \in Nat
  BY DEF TypeOK
<1>2. written[w] + 1 \in 1..Len(plan[w])
  BY <1>1 DEF WriteBar, AllWritten
<1>3. NextBar(w) \in StoredBar
  BY <1>1, <1>2 DEF NextBar
<1>4. marketBars' \subseteq StoredBar
  BY <1>3 DEF TypeOK, WriteBar
<1>5. written' \in [Writers -> Nat]
  BY <1>1 DEF TypeOK, WriteBar
<1> QED
  BY <1>4, <1>5 DEF TypeOK, WriteBar

LEMMA ReplicaTyped ==
  ASSUME TypeOK, ReplicaNext
  PROVE  TypeOK'
<1> PICK r \in Replicas : ReplicaStep(r) \/ Connect(r) \/ SeedingFails(r) \/ Crash(r)
  BY DEF ReplicaNext
<1> USE Kinds DEF database, locals
<1>1. CASE Connect(r)
  BY <1>1 DEF TypeOK, Connect, Stages
<1>2. CASE CountDatasets(r)
  BY <1>2 DEF TypeOK, CountDatasets, Stages
<1>3. CASE SeedDataset(r)
  <2>1. Addressed(SampleId, SampleSeries) \in Seq(StoredBar) /\ SampleSymbol \in Symbols
    BY AddressedTyped, InputsAssumption
  <2> QED
    BY <1>3, <2>1 DEF TypeOK, SeedDataset, Stages
<1>8. CASE SeedRefused(r)
  BY <1>8 DEF TypeOK, SeedRefused, Stages
<1>4. CASE WriteBar(r)
  BY <1>4, WriteBarTyped
<1>5. CASE FinishSeeding(r)
  BY <1>5 DEF TypeOK, FinishSeeding, Stages
<1>6. CASE SeedingFails(r)
  BY <1>6, FaultTyped DEF TypeOK, SeedingFails, Stages
<1>7. CASE Crash(r)
  BY <1>7, FaultTyped DEF TypeOK, Crash, Stages
<1> QED
  BY <1>1, <1>2, <1>3, <1>4, <1>5, <1>6, <1>7, <1>8 DEF ReplicaStep

LEMMA UploadTyped ==
  ASSUME TypeOK, UploadNext
  PROVE  TypeOK'
<1> PICK u \in Uploads : \/ \E r \in Replicas, f \in Files : BeginUpload(u, r, f)
                         \/ UploadStep(u)
                         \/ PersistenceFails(u)
  BY DEF UploadNext
<1> USE Kinds DEF database, locals
<1>1. ASSUME NEW r \in Replicas, NEW f \in Files, BeginUpload(u, r, f)
      PROVE  TypeOK'
  <2>1. CASE StagesFail(f)
    BY <1>1, <2>1, RejectionTyped DEF TypeOK, BeginUpload, Reject, Stages
  <2>2. CASE ~StagesFail(f)
    <3>1. /\ Addressed(u, CleanBars(f)) \in Seq(StoredBar)
          /\ DatasetSymbol(f) \in Symbols
      BY <2>2, FilePlan
    <3>2. StartPersistence(u, f) /\ host' = [host EXCEPT ![u] = r]
          /\ UNCHANGED <<datasets, deleted, marketBars, target, written, input, runs, faults>>
      BY <1>1, <2>2 DEF BeginUpload
    <3>3. plan' \in [Writers -> Seq(StoredBar)]
      BY <3>1, <3>2 DEF TypeOK, StartPersistence
    <3>4. ticker' \in [Uploads \cup Analyses -> Symbols \cup {Absent}]
      BY <3>1, <3>2 DEF TypeOK, StartPersistence
    <3>5. pc' \in [Processes -> Stages] /\ host' \in [Requests -> Replicas \cup {Absent}]
      BY <3>2 DEF TypeOK, StartPersistence, Stages
    <3> QED
      BY <3>2, <3>3, <3>4, <3>5 DEF TypeOK
  <2> QED
    BY <2>1, <2>2
<1>2. CASE CreateDataset(u)
  BY <1>2 DEF TypeOK, CreateDataset, Stages
<1>3. CASE WriteBar(u)
  BY <1>3, WriteBarTyped
<1>4. CASE UploadRefused(u)
  BY <1>4, OutcomesTyped
  DEF TypeOK, UploadRefused, InsertRefused, UploadFails, RecordPersistence, Stages
<1>5. CASE FinishUpload(u)
  BY <1>5, OutcomesTyped DEF TypeOK, FinishUpload, RecordPersistence, Stages
<1>6. CASE PersistenceFails(u)
  BY <1>6, OutcomesTyped, FaultTyped
     DEF TypeOK, PersistenceFails, UploadFails, RecordPersistence, Stages
<1> QED
  BY <1>1, <1>2, <1>3, <1>4, <1>5, <1>6 DEF UploadStep

LEMMA DatasetTyped ==
  ASSUME TypeOK, DatasetNext
  PROVE  TypeOK'
<1>1. ASSUME NEW c \in Creations, NEW s \in Symbols, CreateEmptyDataset(c, s)
      PROVE  TypeOK'
  BY <1>1 DEF TypeOK, CreateEmptyDataset, locals
<1>2. ASSUME NEW d \in DatasetIds, DeleteDataset(d)
      PROVE  TypeOK'
  BY <1>2 DEF TypeOK, DeleteDataset, locals
<1> QED
  BY <1>1, <1>2 DEF DatasetNext

LEMMA InsertionTyped ==
  ASSUME TypeOK, InsertionNext
  PROVE  TypeOK'
<1> PICK i \in Insertions :
      \/ \E r \in Replicas, d \in DatasetIds, p \in Payloads : BeginInsertion(i, r, d, p)
      \/ InsertionStep(i)
      \/ InsertionFails(i)
  BY DEF InsertionNext
<1> USE Kinds DEF database, locals
<1>1. ASSUME NEW r \in Replicas, NEW d \in DatasetIds, NEW p \in Payloads,
             BeginInsertion(i, r, d, p)
      PROVE  TypeOK'
  <2>1. Addressed(d, p) \in Seq(StoredBar)
    BY AddressedTyped, InputsAssumption
  <2>2. CASE PayloadAccepted(p)
    <3>1. /\ plan' = [plan EXCEPT ![i] = Addressed(d, p)]
          /\ pc' = [pc EXCEPT ![i] = "finding"]
          /\ host' = [host EXCEPT ![i] = r]
          /\ target' = [target EXCEPT ![i] = d]
          /\ UNCHANGED <<datasets, deleted, marketBars, ticker, written, input, runs, faults>>
      BY <1>1, <2>2 DEF BeginInsertion
    <3>2. plan' \in [Writers -> Seq(StoredBar)]
      BY <2>1, <3>1 DEF TypeOK
    <3>3. /\ pc' \in [Processes -> Stages] /\ host' \in [Requests -> Replicas \cup {Absent}]
          /\ target' \in [Insertions \cup Analyses -> DatasetIds]
      BY <3>1 DEF TypeOK, Stages
    <3> QED
      BY <3>1, <3>2, <3>3 DEF TypeOK
  <2>3. CASE ~PayloadAccepted(p)
    BY <1>1, <2>3 DEF TypeOK, BeginInsertion, Stages
  <2> QED
    BY <2>2, <2>3
<1>2. CASE FindForInsertion(i)
  BY <1>2 DEF TypeOK, FindForInsertion, Stages
<1>3. CASE WriteBar(i)
  BY <1>3, WriteBarTyped
<1>4. CASE EndInsertion(i)
  BY <1>4 DEF TypeOK, EndInsertion, InsertRefused, Stages
<1>5. CASE InsertionFails(i)
  BY <1>5, FaultTyped DEF TypeOK, InsertionFails, Stages
<1> QED
  BY <1>1, <1>2, <1>3, <1>4, <1>5 DEF InsertionStep

LEMMA AnalysisTyped ==
  ASSUME TypeOK, AnalysisNext
  PROVE  TypeOK'
<1> PICK a \in Analyses : \/ \E r \in Replicas, d \in DatasetIds : BeginAnalysis(a, r, d)
                          \/ AnalysisStep(a)
                          \/ AnalysisFails(a)
  BY DEF AnalysisNext
<1> USE Kinds DEF database, locals
<1>1. CASE \E r \in Replicas, d \in DatasetIds : BeginAnalysis(a, r, d)
  BY <1>1 DEF TypeOK, BeginAnalysis, Stages
<1>2. CASE FindForAnalysis(a)
  BY <1>2 DEF TypeOK, FindForAnalysis, Stages
<1>3. CASE QueryBars(a)
  BY <1>3 DEF TypeOK, QueryBars, QueriedBars, SeriesOf, Stages
<1>4. CASE AnalysisFails(a)
  BY <1>4, FaultTyped DEF TypeOK, AnalysisFails, Stages
<1> QED
  BY <1>1, <1>2, <1>3, <1>4 DEF AnalysisStep

-----------------------------------------------------------------------------
(* The inductive invariant.  A dataset is known once its document has been *)
(* created, deleted or not: what can be inserted belongs to known datasets *)
(* only, and a dataset never becomes unknown again.                        *)

Known(d) == datasets[d] # Absent \/ d \in deleted

(* The dataset a writer's documents are addressed to                       *)
Owner(w) ==
  IF w \in Uploads THEN w ELSE IF w \in Insertions THEN target[w] ELSE SampleId

(* A writer's documents go to one dataset, known before the first is       *)
(* written, and are bars the engine accepts.                               *)
PlansOwned ==
  \A w \in Writers : \A k \in DOMAIN plan[w] :
    plan[w][k].dataset = Owner(w) /\ EngineAcceptsQuote(plan[w][k].quote)

WritersKnown == \A w \in Writers : Inserting(w) => Known(Owner(w))

(* The first written[w] documents of a plan are stored, all of them once   *)
(* the writer reports success; a request that has not begun has none.      *)
PrefixStored ==
  \A w \in Writers :
    /\ written[w] <= Len(plan[w])
    /\ \A k \in 1..written[w] : plan[w][k] \in marketBars
    /\ pc[w] = "completed" => AllWritten(w)
    /\ pc[w] = "idle" => plan[w] = <<>> /\ written[w] = 0

WritersInv == PlansOwned /\ WritersKnown /\ PrefixStored

(* The collection: one bar per key, only bars the engine accepts, and each *)
(* of a dataset that exists or has been deleted                            *)
BarsFollowDataset == \A b \in marketBars : Known(b.dataset)

BarsUnique ==
  \A b, c \in marketBars : b.dataset = c.dataset /\ SameKey(b, c) => b = c

BarsAccepted == \A b \in marketBars : EngineAcceptsQuote(b.quote)

DocumentsInv == BarsUnique /\ BarsAccepted /\ BarsFollowDataset

(* An upload's outcome is recorded when it ends, and only then.            *)
Rejections == {Outcome("failed", s) : s \in {"ingestion", "validation"}}

LifecycleInv ==
  \A u \in Uploads :
    /\ pc[u] \in {"idle", "creating"} => ~Known(u)
    /\ pc[u] = "creating" => ticker[u] \in Symbols
    /\ pc[u] \in {"idle", "creating", "inserting"} =>
         \A r \in Replicas : runs[r][u] = Absent
    /\ \A r \in Replicas :
         runs[r][u] \in Rejections => pc[u] = "failed" /\ ~Known(u)

AnalysesInv ==
  /\ EngineInputAccepted
  /\ \A a \in Analyses : pc[a] \in {"idle", "finding", "querying"} => input[a] = {}

IInv == TypeOK /\ WritersInv /\ DocumentsInv /\ LifecycleInv /\ AnalysesInv

LEMMA InitInvariant == Init => IInv
<1> SUFFICES ASSUME Init PROVE IInv
  OBVIOUS
<1>1. TypeOK
  BY InitTyped
<1>2. \A w \in Writers : plan[w] = <<>> /\ written[w] = 0 /\ pc[w] \in {"down", "idle"}
  BY Kinds DEF Init
<1>3. Len(<<>>) = 0 /\ DOMAIN <<>> = {} /\ 1..0 = {}
  OBVIOUS
<1>4. WritersInv
  <2>1. PlansOwned
    BY <1>2, <1>3 DEF PlansOwned
  <2>2. WritersKnown
    BY <1>2 DEF WritersKnown, Inserting
  <2>3. PrefixStored
    BY <1>2, <1>3 DEF PrefixStored
  <2> QED
    BY <2>1, <2>2, <2>3 DEF WritersInv
<1>5. DocumentsInv
  BY DEF Init, DocumentsInv, BarsUnique, BarsAccepted, BarsFollowDataset
<1>6. LifecycleInv
  <2>1. \A u \in Uploads : pc[u] = "idle" /\ ~Known(u)
    BY Kinds, SetsAssumption DEF Init, Known
  <2>2. \A u \in Uploads, r \in Replicas : runs[r][u] = Absent
    BY DEF Init
  <2>3. Absent \notin Rejections
    BY OutcomesAreNotAbsent DEF Rejections, Outcomes
  <2> QED
    BY <2>1, <2>2, <2>3 DEF LifecycleInv
<1>7. AnalysesInv
  BY DEF Init, AnalysesInv, EngineInputAccepted
<1> QED
  BY <1>1, <1>4, <1>5, <1>6, <1>7 DEF IInv

(* A dataset that was created stays known, whatever happens to it.         *)
LEMMA KnownStays ==
  ASSUME TypeOK, LifecycleInv, [Next]_vars, NEW d \in DatasetIds, Known(d)
  PROVE  Known(d)'
<1> USE Kinds, SetsAssumption DEF TypeOK, Known, database, locals
<1>1. ASSUME NEW r \in Replicas, SeedDataset(r)
      PROVE  Known(d)'
  BY <1>1, InputsAssumption DEF SeedDataset
<1>2. ASSUME NEW u \in Uploads, CreateDataset(u) \/ PersistenceFails(u)
      PROVE  Known(d)'
  BY <1>2
     DEF CreateDataset, PersistenceFails, UploadFails, RecordPersistence, LifecycleInv
<1>3. CASE DatasetNext
  BY <1>3 DEF DatasetNext, CreateEmptyDataset, DeleteDataset
<1>4. CASE UNCHANGED <<datasets, deleted>>
  BY <1>4
<1>5. ASSUME ReplicaNext, \A r \in Replicas : ~SeedDataset(r)
      PROVE  UNCHANGED <<datasets, deleted>>
  BY <1>5 DEF ReplicaNext, ReplicaStep, Connect, CountDatasets, SeedRefused, WriteBar,
              FinishSeeding, SeedingFails, Crash
<1>6. ASSUME UploadNext, \A u \in Uploads : ~CreateDataset(u) /\ ~PersistenceFails(u)
      PROVE  UNCHANGED <<datasets, deleted>>
  BY <1>6 DEF UploadNext, UploadStep, BeginUpload, WriteBar, UploadRefused, UploadFails,
              FinishUpload, RecordPersistence
<1>7. ASSUME InsertionNext \/ AnalysisNext \/ UNCHANGED vars
      PROVE  UNCHANGED <<datasets, deleted>>
  BY <1>7 DEF InsertionNext, InsertionStep, BeginInsertion, FindForInsertion, WriteBar,
              EndInsertion, InsertionFails, AnalysisNext, AnalysisStep, BeginAnalysis,
              FindForAnalysis, QueryBars, AnalysisFails, vars
<1> QED
  BY <1>1, <1>2, <1>3, <1>4, <1>5, <1>6, <1>7 DEF Next

(* Only WriteBar touches the collection of bars.                           *)
LEMMA BarsWritten ==
  ASSUME [Next]_vars
  PROVE  marketBars' = marketBars \/ \E w \in Writers : WriteBar(w)
<1> USE Kinds DEF database, locals
<1>1. ASSUME ReplicaNext, \A w \in Writers : ~WriteBar(w)
      PROVE  marketBars' = marketBars
  BY <1>1 DEF ReplicaNext, ReplicaStep, Connect, CountDatasets, SeedDataset, SeedRefused,
              FinishSeeding, SeedingFails, Crash
<1>2. ASSUME UploadNext, \A w \in Writers : ~WriteBar(w)
      PROVE  marketBars' = marketBars
  BY <1>2 DEF UploadNext, UploadStep, BeginUpload, CreateDataset, UploadRefused,
              UploadFails, FinishUpload, PersistenceFails, RecordPersistence
<1>3. ASSUME InsertionNext, \A w \in Writers : ~WriteBar(w)
      PROVE  marketBars' = marketBars
  BY <1>3 DEF InsertionNext, InsertionStep, BeginInsertion, FindForInsertion,
              EndInsertion, InsertionFails
<1>4. ASSUME DatasetNext \/ AnalysisNext \/ UNCHANGED vars
      PROVE  marketBars' = marketBars
  BY <1>4 DEF DatasetNext, CreateEmptyDataset, DeleteDataset, AnalysisNext, AnalysisStep,
              BeginAnalysis, FindForAnalysis, QueryBars, AnalysisFails, vars
<1> QED
  BY <1>1, <1>2, <1>3, <1>4 DEF Next

(* The collection keeps its invariant: the unique index refuses a second   *)
(* bar of a key, and the dataset of a bar being written is known.          *)
LEMMA DocumentsStep ==
  ASSUME TypeOK, WritersInv, LifecycleInv, DocumentsInv, [Next]_vars
  PROVE  DocumentsInv'
<1>1. \A b \in marketBars : b.dataset \in DatasetIds
  BY DEF TypeOK, StoredBar
<1>2. CASE marketBars' = marketBars
  <2>1. BarsUnique' /\ BarsAccepted'
    BY <1>2 DEF DocumentsInv, BarsUnique, BarsAccepted
  <2>2. BarsFollowDataset'
    BY <1>1, <1>2, KnownStays DEF DocumentsInv, BarsFollowDataset, Known
  <2> QED
    BY <2>1, <2>2 DEF DocumentsInv
<1>3. ASSUME NEW w \in Writers, WriteBar(w)
      PROVE  DocumentsInv'
  <2> DEFINE b == NextBar(w)
  <2>1. /\ written[w] \in Nat /\ Len(plan[w]) \in Nat
        /\ DOMAIN plan[w] = 1..Len(plan[w])
    BY DEF TypeOK
  <2>2. written[w] + 1 \in DOMAIN plan[w]
    BY <1>3, <2>1 DEF WriteBar, AllWritten
  <2>3. b.dataset = Owner(w) /\ EngineAcceptsQuote(b.quote)
    BY <2>2 DEF WritersInv, PlansOwned, NextBar
  <2>4. Known(Owner(w))
    BY <1>3 DEF WriteBar, WritersInv, WritersKnown
  <2>5. ~Indexed(b)
    BY <1>3 DEF WriteBar, Refused
  <2>6. marketBars' = marketBars \cup {b} /\ UNCHANGED <<datasets, deleted>>
    BY <1>3 DEF WriteBar
  <2> HIDE DEF b
  <2>7. BarsUnique'
    BY <2>5, <2>6 DEF DocumentsInv, BarsUnique, Indexed, SameKey
  <2>8. BarsAccepted'
    BY <2>3, <2>6 DEF DocumentsInv, BarsAccepted
  <2>9. BarsFollowDataset'
    BY <2>3, <2>4, <2>6 DEF DocumentsInv, BarsFollowDataset, Known
  <2> QED
    BY <2>7, <2>8, <2>9 DEF DocumentsInv
<1> QED
  BY <1>2, <1>3, BarsWritten

(* A step that leaves plans alone, lets writers insert into known datasets *)
(* only and declares them completed only when they are.                    *)
LEMMA WritersFrame ==
  ASSUME TypeOK, WritersInv, LifecycleInv, [Next]_vars,
         UNCHANGED <<plan, written>>,
         marketBars \subseteq marketBars',
         \A i \in Insertions : target'[i] = target[i],
         \A w \in Writers : pc'[w] = "idle" => pc[w] = "idle",
         \A w \in Writers : pc'[w] = "inserting" /\ pc[w] # "inserting" => Known(Owner(w))',
         \A w \in Writers : pc'[w] = "completed" /\ pc[w] # "completed" => AllWritten(w)
  PROVE  WritersInv'
<1>1. \A w \in Writers : Owner(w)' = Owner(w) /\ Owner(w) \in DatasetIds
  BY Kinds DEF Owner, TypeOK
<1>2. PlansOwned'
  BY <1>1 DEF WritersInv, PlansOwned
<1>3. WritersKnown'
  BY <1>1, KnownStays DEF WritersInv, WritersKnown, Inserting, Known
<1>4. PrefixStored'
  BY DEF WritersInv, PrefixStored, AllWritten
<1> QED
  BY <1>2, <1>3, <1>4 DEF WritersInv

(* The step that stores one more document                                  *)
LEMMA WritersWriteBar ==
  ASSUME TypeOK, WritersInv, NEW w \in Writers, WriteBar(w)
  PROVE  WritersInv'
<1>1. /\ written[w] \in Nat /\ Len(plan[w]) \in Nat /\ written[w] < Len(plan[w])
  BY DEF TypeOK, WriteBar, AllWritten
<1>2. /\ marketBars' = marketBars \cup {plan[w][written[w] + 1]}
      /\ written' = [written EXCEPT ![w] = @ + 1]
      /\ UNCHANGED <<datasets, deleted, pc, target, plan>>
  BY DEF WriteBar, NextBar
<1>3. PlansOwned' /\ WritersKnown'
  BY <1>2 DEF WritersInv, PlansOwned, WritersKnown, Owner, Known, Inserting
<1>4. pc[w] = "inserting"
  BY DEF WriteBar, Inserting
<1>5. ASSUME NEW v \in Writers
      PROVE  /\ written'[v] <= Len(plan'[v])
             /\ \A k \in 1..written'[v] : plan'[v][k] \in marketBars'
             /\ pc'[v] = "completed" => AllWritten(v)'
             /\ pc'[v] = "idle" => plan'[v] = <<>> /\ written'[v] = 0
  <2>1. CASE v # w
    BY <1>2, <2>1 DEF TypeOK, WritersInv, PrefixStored, AllWritten
  <2>2. CASE v = w
    <3>1. written'[w] = written[w] + 1
      BY <1>2 DEF TypeOK
    <3>2. \A k \in 1..(written[w] + 1) : k \in 1..written[w] \/ k = written[w] + 1
      BY <1>1
    <3>3. \A k \in 1..written'[w] : plan[w][k] \in marketBars'
      BY <1>2, <3>1, <3>2 DEF WritersInv, PrefixStored
    <3> QED
      BY <1>1, <1>2, <1>4, <2>2, <3>1, <3>3
  <2> QED
    BY <2>1, <2>2
<1>6. PrefixStored'
  BY <1>5 DEF PrefixStored
<1> QED
  BY <1>3, <1>6 DEF WritersInv

(* A step that gives one writer a new plan, addressed to its own dataset   *)
LEMMA WritersPlan ==
  ASSUME TypeOK, WritersInv, NEW w \in Writers, NEW p \in Seq(StoredBar),
         plan' = [plan EXCEPT ![w] = p],
         written'[w] = 0,
         \A v \in Writers : v # w => written'[v] = written[v],
         \A v \in Writers : v # w => pc'[v] = pc[v],
         \A i \in Insertions : i # w => target'[i] = target[i],
         \A d \in DatasetIds : Known(d) => Known(d)',
         UNCHANGED marketBars,
         pc'[w] \notin {"idle", "completed"},
         pc'[w] = "inserting" => Known(Owner(w))',
         \A k \in DOMAIN p : p[k].dataset = Owner(w)',
         \A k \in DOMAIN p : EngineAcceptsQuote(p[k].quote)
  PROVE  WritersInv'
<1>1. ASSUME NEW v \in Writers, v # w
      PROVE  Owner(v)' = Owner(v) /\ Owner(v) \in DatasetIds
  BY <1>1, Kinds DEF Owner, TypeOK
<1>2. plan'[w] = p
  BY DEF TypeOK
<1>3. ASSUME NEW v \in Writers, v # w
      PROVE  plan'[v] = plan[v]
  BY <1>3 DEF TypeOK
<1>4. PlansOwned'
  BY <1>1, <1>2, <1>3 DEF WritersInv, PlansOwned
<1>5. WritersKnown'
  <2>1. ASSUME NEW v \in Writers, pc'[v] = "inserting"
        PROVE  Known(Owner(v))'
    <3>1. CASE v = w
      BY <2>1, <3>1
    <3>2. CASE v # w
      <4>1. Known(Owner(v)) /\ Owner(v) \in DatasetIds
        BY <1>1, <2>1, <3>2 DEF WritersInv, WritersKnown, Inserting
      <4>2. Known(Owner(v))'
        BY <1>1, <3>2, <4>1 DEF Known
      <4> QED
        BY <4>2
    <3> QED
      BY <3>1, <3>2
  <2> QED
    BY <2>1 DEF WritersKnown, Inserting
<1>6. PrefixStored'
  <2>1. Len(p) \in Nat
    OBVIOUS
  <2>2. ASSUME NEW v \in Writers, v # w
        PROVE  /\ written'[v] <= Len(plan'[v])
               /\ \A k \in 1..written'[v] : plan'[v][k] \in marketBars'
               /\ pc'[v] = "completed" => AllWritten(v)'
               /\ pc'[v] = "idle" => plan'[v] = <<>> /\ written'[v] = 0
    BY <1>3, <2>2 DEF WritersInv, PrefixStored, AllWritten
  <2>3. /\ written'[w] <= Len(plan'[w]) /\ 1..written'[w] = {}
    BY <1>2, <2>1
  <2> QED
    BY <2>2, <2>3 DEF PrefixStored
<1> QED
  BY <1>4, <1>5, <1>6 DEF WritersInv

LEMMA WritersReplica ==
  ASSUME IInv, ReplicaNext, ~\E w \in Writers : WriteBar(w)
  PROVE  WritersInv'
<1> PICK r \in Replicas : ReplicaStep(r) \/ Connect(r) \/ SeedingFails(r) \/ Crash(r)
  BY DEF ReplicaNext
<1> USE Kinds DEF database, locals, IInv
<1>0. [Next]_vars
  BY DEF Next
<1>1. CASE SeedDataset(r)
  <2> DEFINE p == Addressed(SampleId, SampleSeries)
  <2>1. p \in Seq(StoredBar) /\ SampleSymbol \in Symbols
    BY AddressedTyped, InputsAssumption
  <2>2. \A k \in DOMAIN p : p[k].dataset = SampleId /\ EngineAcceptsQuote(p[k].quote)
    BY AddressedTyped, InputsAssumption
  <2>3. r \notin Uploads /\ r \notin Insertions
    BY SetsAssumption
  <2>4. Owner(r)' = SampleId
    BY <2>3 DEF Owner
  <2>5. plan' = [plan EXCEPT ![r] = p]
    BY <1>1 DEF SeedDataset
  <2>6. Known(SampleId)'
    BY <1>1, <2>1, SetsAssumption DEF SeedDataset, Known, TypeOK
  <2>7. \A d \in DatasetIds : Known(d) => Known(d)'
    BY <1>0, KnownStays
  <2>8. written'[r] = 0 /\ pc'[r] = "inserting" /\ UNCHANGED <<marketBars, target>>
    BY <1>1 DEF SeedDataset, TypeOK
  <2>9. \A v \in Writers : v # r => written'[v] = written[v] /\ pc'[v] = pc[v]
    BY <1>1 DEF SeedDataset, TypeOK
  <2> HIDE DEF p
  <2> QED
    BY <2>1, <2>2, <2>4, <2>5, <2>6, <2>7, <2>8, <2>9, WritersPlan
<1>2. CASE ~SeedDataset(r)
  <2>1. UNCHANGED <<plan, written, marketBars, target>>
    BY <1>2 DEF ReplicaStep, Connect, CountDatasets, SeedRefused, FinishSeeding,
                SeedingFails, Crash
  <2>2. \A w \in Writers : pc'[w] = pc[w] \/ pc'[w] \notin {"idle", "inserting", "completed"}
    BY <1>2 DEF ReplicaStep, Connect, CountDatasets, SeedRefused, FinishSeeding,
                SeedingFails, Crash, TypeOK
  <2> QED
    BY <1>0, <2>1, <2>2, WritersFrame
<1> QED
  BY <1>1, <1>2

LEMMA WritersUpload ==
  ASSUME IInv, UploadNext, ~\E w \in Writers : WriteBar(w)
  PROVE  WritersInv'
<1> PICK u \in Uploads : \/ \E r \in Replicas, f \in Files : BeginUpload(u, r, f)
                         \/ UploadStep(u)
                         \/ PersistenceFails(u)
  BY DEF UploadNext
<1> USE Kinds DEF database, locals, IInv
<1>0. [Next]_vars
  BY DEF Next
<1>1. ASSUME NEW r \in Replicas, NEW f \in Files, BeginUpload(u, r, f), StagesFail(f)
      PROVE  WritersInv'
  <2>1. UNCHANGED <<plan, written, marketBars, target>>
    BY <1>1 DEF BeginUpload, Reject
  <2>2. \A w \in Writers : pc'[w] = pc[w] \/ pc'[w] \notin {"idle", "inserting", "completed"}
    BY <1>1 DEF BeginUpload, Reject, TypeOK
  <2> QED
    BY <1>0, <2>1, <2>2, WritersFrame
<1>2. ASSUME NEW r \in Replicas, NEW f \in Files, BeginUpload(u, r, f), ~StagesFail(f)
      PROVE  WritersInv'
  <2> DEFINE p == Addressed(u, CleanBars(f))
  <2>1. p \in Seq(StoredBar)
    BY <1>2, FilePlan
  <2>2. \A k \in DOMAIN p : p[k].dataset = u /\ EngineAcceptsQuote(p[k].quote)
    BY <1>2, AddressedTyped, CleanBarsAccepted, InputsAssumption
  <2>3. Owner(u)' = u
    BY DEF Owner
  <2>4. plan' = [plan EXCEPT ![u] = p]
    BY <1>2 DEF BeginUpload, StartPersistence
  <2>5. \A d \in DatasetIds : Known(d) => Known(d)'
    BY <1>0, KnownStays
  <2>6. pc[u] = "idle" /\ pc' = [pc EXCEPT ![u] = "creating"]
        /\ UNCHANGED <<marketBars, target, written>>
    BY <1>2 DEF BeginUpload, StartPersistence
  <2>7. written'[u] = 0
    BY <2>6 DEF WritersInv, PrefixStored
  <2>8. pc'[u] = "creating" /\ \A v \in Writers : v # u => pc'[v] = pc[v]
    BY <2>6 DEF TypeOK
  <2> HIDE DEF p
  <2> QED
    BY <2>1, <2>2, <2>3, <2>4, <2>5, <2>6, <2>7, <2>8, WritersPlan
<1>3. CASE CreateDataset(u)
  <2>1. UNCHANGED <<plan, written, marketBars, target>>
    BY <1>3 DEF CreateDataset
  <2>2. Known(Owner(u))'
    BY <1>3, SetsAssumption DEF CreateDataset, Owner, Known, LifecycleInv, TypeOK
  <2>3. \A w \in Writers : pc'[w] = pc[w] \/ (w = u /\ pc'[w] = "inserting")
    BY <1>3 DEF CreateDataset, TypeOK
  <2> QED
    BY <1>0, <2>1, <2>2, <2>3, WritersFrame
<1>4. CASE UploadRefused(u) \/ PersistenceFails(u)
  <2>1. UNCHANGED <<plan, written, marketBars, target>>
    BY <1>4 DEF UploadRefused, PersistenceFails, UploadFails, RecordPersistence
  <2>2. \A w \in Writers : pc'[w] = pc[w] \/ pc'[w] \notin {"idle", "inserting", "completed"}
    BY <1>4 DEF UploadRefused, PersistenceFails, UploadFails, TypeOK
  <2> QED
    BY <1>0, <2>1, <2>2, WritersFrame
<1>5. CASE FinishUpload(u)
  <2>1. UNCHANGED <<plan, written, marketBars, target>> /\ AllWritten(u)
    BY <1>5 DEF FinishUpload, RecordPersistence
  <2>2. \A w \in Writers : pc'[w] = pc[w] \/ (w = u /\ pc'[w] = "completed")
    BY <1>5 DEF FinishUpload, TypeOK
  <2> QED
    BY <1>0, <2>1, <2>2, WritersFrame
<1> QED
  BY <1>1, <1>2, <1>3, <1>4, <1>5 DEF UploadStep

LEMMA WritersInsertion ==
  ASSUME IInv, InsertionNext, ~\E w \in Writers : WriteBar(w)
  PROVE  WritersInv'
<1> PICK i \in Insertions :
      \/ \E r \in Replicas, d \in DatasetIds, p \in Payloads : BeginInsertion(i, r, d, p)
      \/ InsertionStep(i)
      \/ InsertionFails(i)
  BY DEF InsertionNext
<1> USE Kinds DEF database, locals, IInv
<1>0. [Next]_vars
  BY DEF Next
<1>1. ASSUME NEW r \in Replicas, NEW d \in DatasetIds, NEW p \in Payloads,
             BeginInsertion(i, r, d, p)
      PROVE  WritersInv'
  <2> DEFINE q == IF PayloadAccepted(p) THEN Addressed(d, p) ELSE <<>>
  <2>1. p \in Seq(Bar)
    BY InputsAssumption
  <2>2. q \in Seq(StoredBar)
    BY <2>1, AddressedTyped
  <2>3. ASSUME NEW k \in DOMAIN q
        PROVE  q[k].dataset = d /\ EngineAcceptsQuote(q[k].quote)
    <3>1. PayloadAccepted(p) /\ k \in DOMAIN p
      BY <2>1, <2>3, AddressedTyped
    <3>2. q[k].dataset = d /\ q[k].quote = p[k].quote
      BY <2>1, <3>1, AddressedTyped
    <3>3. p[k] \in Bar /\ PostedQuoteAccepted(p[k].quote)
      BY <2>1, <3>1 DEF PayloadAccepted
    <3>4. EngineAcceptsQuote(p[k].quote)
      BY <3>3 DEF PostedQuoteAccepted, QuotePositive, EngineAcceptsQuote, Bar, Quote
    <3> QED
      BY <3>2, <3>4
  <2>4. pc[i] = "idle" /\ plan[i] = <<>> /\ written[i] = 0
    BY <1>1 DEF BeginInsertion, WritersInv, PrefixStored
  <2>5. plan' = [plan EXCEPT ![i] = q]
    BY <1>1, <2>4 DEF BeginInsertion, TypeOK
  <2>6. /\ target' = [target EXCEPT ![i] = d]
        /\ UNCHANGED <<marketBars, written>>
        /\ \/ pc' = [pc EXCEPT ![i] = "finding"]
           \/ pc' = [pc EXCEPT ![i] = "rejected"]
    BY <1>1 DEF BeginInsertion
  <2>7. Owner(i)' = d
    BY <2>6, SetsAssumption DEF Owner, TypeOK
  <2>8. \A e \in DatasetIds : Known(e) => Known(e)'
    BY <1>0, KnownStays
  <2>9. pc'[i] \in {"finding", "rejected"} /\ \A v \in Writers : v # i => pc'[v] = pc[v]
    BY <2>6 DEF TypeOK
  <2>10. written'[i] = 0 /\ \A j \in Insertions : j # i => target'[j] = target[j]
    BY <2>4, <2>6 DEF TypeOK
  <2> HIDE DEF q
  <2> QED
    BY <2>2, <2>3, <2>5, <2>6, <2>7, <2>8, <2>9, <2>10, WritersPlan
<1>2. CASE FindForInsertion(i)
  <2>1. UNCHANGED <<plan, written, marketBars, target>>
    BY <1>2 DEF FindForInsertion
  <2>2. DatasetFound(i) => Known(Owner(i))'
    BY <1>2, SetsAssumption DEF FindForInsertion, DatasetFound, Owner, Known
  <2>3. \A w \in Writers : \/ pc'[w] = pc[w] \/ pc'[w] = "notFound"
                           \/ w = i /\ pc'[w] = "inserting" /\ DatasetFound(i)
    BY <1>2 DEF FindForInsertion, TypeOK
  <2> QED
    BY <1>0, <2>1, <2>2, <2>3, WritersFrame
<1>3. CASE EndInsertion(i) \/ InsertionFails(i)
  <2>1. UNCHANGED <<plan, written, marketBars, target>>
    BY <1>3 DEF EndInsertion, InsertionFails
  <2>2. \A w \in Writers : \/ pc'[w] = pc[w] \/ pc'[w] = "failed"
                           \/ pc'[w] = "completed" /\ AllWritten(w)
    BY <1>3 DEF EndInsertion, InsertionFails, TypeOK
  <2> QED
    BY <1>0, <2>1, <2>2, WritersFrame
<1> QED
  BY <1>1, <1>2, <1>3 DEF InsertionStep

LEMMA WritersStep ==
  ASSUME IInv, [Next]_vars
  PROVE  WritersInv'
<1>1. ASSUME NEW w \in Writers, WriteBar(w)
      PROVE  WritersInv'
  BY <1>1, WritersWriteBar DEF IInv
<1>2. CASE DatasetNext \/ AnalysisNext \/ UNCHANGED vars
  <2> USE Kinds DEF database, locals, IInv
  <2>1. UNCHANGED <<plan, written, marketBars>>
    BY <1>2 DEF DatasetNext, CreateEmptyDataset, DeleteDataset, AnalysisNext, AnalysisStep,
                BeginAnalysis, FindForAnalysis, QueryBars, AnalysisFails, vars
  <2>2. \A i \in Insertions : target'[i] = target[i]
    BY <1>2, SetsAssumption
       DEF DatasetNext, CreateEmptyDataset, DeleteDataset, AnalysisNext, AnalysisStep,
           BeginAnalysis, FindForAnalysis, QueryBars, AnalysisFails, vars, TypeOK
  <2>3. \A w \in Writers : pc'[w] = pc[w]
    BY <1>2, SetsAssumption
       DEF DatasetNext, CreateEmptyDataset, DeleteDataset, AnalysisNext, AnalysisStep,
           BeginAnalysis, FindForAnalysis, QueryBars, AnalysisFails, vars, TypeOK, Writers
  <2> QED
    BY <2>1, <2>2, <2>3, WritersFrame
<1> QED
  BY <1>1, <1>2, WritersReplica, WritersUpload, WritersInsertion DEF Next

(* Steps other than an upload's own leave its life cycle alone: they       *)
(* neither create its dataset nor record an outcome for it.                *)
LEMMA LifecycleFrame ==
  ASSUME TypeOK, LifecycleInv,
         \A u \in Uploads : ticker'[u] = ticker[u],
         \A u \in Uploads : Known(u)' => Known(u),
         \A u \in Uploads : pc[u] = "failed" => pc'[u] = "failed",
         \A u \in Uploads : pc'[u] \in {"idle", "creating", "inserting"} => pc[u] = pc'[u],
         \A u \in Uploads : \A r \in Replicas :
           runs'[r][u] # runs[r][u] => runs'[r][u] = Absent
  PROVE  LifecycleInv'
<1>1. Absent \notin Rejections
  BY OutcomesAreNotAbsent DEF Rejections, Outcomes
<1>2. ASSUME NEW u \in Uploads
      PROVE  /\ pc'[u] = "idle" => ~Known(u)'
             /\ pc'[u] = "creating" => ticker'[u] \in Symbols
             /\ pc'[u] \in {"idle", "creating", "inserting"} =>
                  \A r \in Replicas : runs'[r][u] = Absent
             /\ \A r \in Replicas :
                  runs'[r][u] \in Rejections => pc'[u] = "failed" /\ ~Known(u)'
  BY <1>1 DEF LifecycleInv
<1> QED
  BY <1>2 DEF LifecycleInv

LEMMA LifecycleOthers ==
  ASSUME IInv, ReplicaNext \/ DatasetNext \/ InsertionNext \/ AnalysisNext
  PROVE  LifecycleInv'
<1> USE Kinds, SetsAssumption DEF database, locals
<1> TypeOK /\ LifecycleInv
  BY DEF IInv
<1>1. ASSUME ReplicaNext, \A r \in Replicas : ~Crash(r)
      PROVE  LifecycleInv'
  <2> PICK r \in Replicas : ReplicaStep(r) \/ Connect(r) \/ SeedingFails(r)
    BY <1>1 DEF ReplicaNext
  <2>1. UNCHANGED <<ticker, deleted, runs>>
    BY DEF ReplicaStep, Connect, CountDatasets, SeedDataset, SeedRefused, WriteBar,
           FinishSeeding, SeedingFails
  <2>2. \A u \in Uploads : datasets'[u] = datasets[u]
    BY DEF ReplicaStep, Connect, CountDatasets, SeedDataset, SeedRefused, WriteBar,
           FinishSeeding, SeedingFails, TypeOK
  <2>3. \A u \in Uploads : pc'[u] = pc[u]
    BY DEF ReplicaStep, Connect, CountDatasets, SeedDataset, SeedRefused, WriteBar,
           FinishSeeding, SeedingFails, TypeOK
  <2>4. \A u \in Uploads : Known(u)' => Known(u)
    BY <2>1, <2>2 DEF Known
  <2> QED
    BY <2>1, <2>3, <2>4, LifecycleFrame
<1>2. ASSUME NEW r \in Replicas, Crash(r)
      PROVE  LifecycleInv'
  <2>1. UNCHANGED <<ticker, deleted, datasets>>
    BY <1>2 DEF Crash
  <2>2. \A u \in Uploads : pc[u] = "failed" => pc'[u] = "failed"
    BY <1>2 DEF Crash, TypeOK
  <2>5. \A u \in Uploads :
          pc'[u] \in {"idle", "creating", "inserting"} => pc[u] = pc'[u]
    BY <1>2 DEF Crash, TypeOK
  <2>3. \A u \in Uploads : \A q \in Replicas :
          runs'[q][u] # runs[q][u] => runs'[q][u] = Absent
    BY <1>2 DEF Crash, TypeOK
  <2>4. \A u \in Uploads : Known(u)' => Known(u)
    BY <2>1 DEF Known
  <2> QED
    BY <2>1, <2>2, <2>3, <2>4, <2>5, LifecycleFrame
<1>3. CASE DatasetNext
  <2>1. UNCHANGED <<ticker, pc, runs>>
    BY <1>3 DEF DatasetNext, CreateEmptyDataset, DeleteDataset
  <2>2. \A u \in Uploads : Known(u)' => Known(u)
    BY <1>3 DEF DatasetNext, CreateEmptyDataset, DeleteDataset, Known, TypeOK
  <2> QED
    BY <2>1, <2>2, LifecycleFrame
<1>4. CASE InsertionNext \/ AnalysisNext
  <2>1. UNCHANGED <<deleted, datasets, runs>>
    BY <1>4 DEF InsertionNext, InsertionStep, BeginInsertion, FindForInsertion, WriteBar,
                EndInsertion, InsertionFails, AnalysisNext, AnalysisStep, BeginAnalysis,
                FindForAnalysis, QueryBars, AnalysisFails
  <2>2. \A u \in Uploads : ticker'[u] = ticker[u]
    BY <1>4 DEF InsertionNext, InsertionStep, BeginInsertion, FindForInsertion, WriteBar,
                EndInsertion, InsertionFails, AnalysisNext, AnalysisStep, BeginAnalysis,
                FindForAnalysis, QueryBars, AnalysisFails, TypeOK
  <2>3. \A u \in Uploads : pc'[u] = pc[u]
    BY <1>4 DEF InsertionNext, InsertionStep, BeginInsertion, FindForInsertion, WriteBar,
                EndInsertion, InsertionFails, AnalysisNext, AnalysisStep, BeginAnalysis,
                FindForAnalysis, QueryBars, AnalysisFails, TypeOK
  <2>4. \A u \in Uploads : Known(u)' => Known(u)
    BY <2>1 DEF Known
  <2> QED
    BY <2>1, <2>2, <2>3, <2>4, LifecycleFrame
<1> QED
  BY <1>1, <1>2, <1>3, <1>4

(* The upload's own steps: its dataset is created once, after the stages   *)
(* have accepted the file, and its outcome is recorded once, at the end.   *)
LEMMA LifecycleUpload ==
  ASSUME IInv, UploadNext
  PROVE  LifecycleInv'
<1> PICK u \in Uploads : \/ \E r \in Replicas, f \in Files : BeginUpload(u, r, f)
                         \/ UploadStep(u)
                         \/ PersistenceFails(u)
  BY DEF UploadNext
<1> USE Kinds, SetsAssumption DEF database, locals
<1> TypeOK /\ LifecycleInv
  BY DEF IInv
<1> DEFINE Good(v) ==
      /\ pc'[v] \in {"idle", "creating"} => ~Known(v)'
      /\ pc'[v] = "creating" => ticker'[v] \in Symbols
      /\ pc'[v] \in {"idle", "creating", "inserting"} =>
           \A r \in Replicas : runs'[r][v] = Absent
      /\ \A r \in Replicas :
           runs'[r][v] \in Rejections => pc'[v] = "failed" /\ ~Known(v)'
<1>1. ASSUME NEW v \in Uploads, v # u
      PROVE  Good(v)
  <2>1. datasets'[v] = datasets[v] /\ ticker'[v] = ticker[v] /\ UNCHANGED deleted
    BY <1>1 DEF UploadStep, BeginUpload, Reject, StartPersistence, CreateDataset, WriteBar,
                UploadRefused, UploadFails, RecordPersistence, FinishUpload,
                PersistenceFails, TypeOK
  <2>2. pc'[v] = pc[v]
    BY <1>1 DEF UploadStep, BeginUpload, Reject, StartPersistence, CreateDataset, WriteBar,
                UploadRefused, UploadFails, FinishUpload, PersistenceFails, TypeOK
  <2>3. \A r \in Replicas : runs'[r][v] = runs[r][v]
    <3>1. runs' = runs \/ \E x, o : runs' = [runs EXCEPT ![x][u] = o]
      BY DEF UploadStep, BeginUpload, Reject, RecordRejection, CreateDataset, WriteBar,
             UploadRefused, UploadFails, RecordPersistence, FinishUpload, PersistenceFails
    <3>2. ASSUME NEW x, NEW o, runs' = [runs EXCEPT ![x][u] = o], NEW r \in Replicas
          PROVE  runs'[r][v] = runs[r][v]
      <4>1. /\ runs \in [Replicas -> [Uploads -> Outcomes \cup {Absent}]]
            /\ runs[r] \in [Uploads -> Outcomes \cup {Absent}]
        BY DEF TypeOK
      <4>2. runs'[r] = IF r = x THEN [runs[r] EXCEPT ![u] = o] ELSE runs[r]
        BY <3>2, <4>1
      <4> QED
        BY <1>1, <4>1, <4>2
    <3> QED
      BY <3>1, <3>2
  <2> QED
    BY <2>1, <2>2, <2>3 DEF LifecycleInv, Known
<1>2. Good(u)
  <2>1. ASSUME NEW r \in Replicas, NEW f \in Files, BeginUpload(u, r, f)
        PROVE  Good(u)
    <3>1. /\ pc[u] = "idle" /\ ~Known(u) /\ UNCHANGED <<datasets, deleted>>
          /\ \A q \in Replicas : runs[q][u] = Absent
      BY <2>1 DEF BeginUpload, LifecycleInv
    <3>2. CASE StagesFail(f)
      <4>1. pc'[u] = "failed"
        BY <2>1, <3>2 DEF BeginUpload, Reject, TypeOK
      <4> QED
        BY <3>1, <4>1 DEF Known
    <3>3. CASE ~StagesFail(f)
      <4>1. pc'[u] = "creating" /\ ticker'[u] = DatasetSymbol(f) /\ UNCHANGED runs
        BY <2>1, <3>3 DEF BeginUpload, StartPersistence, TypeOK
      <4>2. DatasetSymbol(f) \in Symbols
        BY <3>3, FilePlan
      <4>3. Absent \notin Rejections
        BY OutcomesAreNotAbsent DEF Rejections, Outcomes
      <4>4. ~Known(u)'
        BY <3>1 DEF Known
      <4> QED
        BY <3>1, <4>1, <4>2, <4>3, <4>4
    <3> QED
      BY <3>2, <3>3
  <2>2. CASE CreateDataset(u) \/ WriteBar(u)
    <3>1. pc'[u] = "inserting" /\ UNCHANGED runs
      BY <2>2 DEF CreateDataset, WriteBar, Inserting, TypeOK
    <3>2. \A r \in Replicas : runs[r][u] = Absent
      BY <2>2 DEF CreateDataset, WriteBar, Inserting, LifecycleInv
    <3>3. Absent \notin Rejections
      BY OutcomesAreNotAbsent DEF Rejections, Outcomes
    <3> QED
      BY <3>1, <3>2, <3>3
  <2>3. CASE UploadRefused(u) \/ FinishUpload(u) \/ PersistenceFails(u)
    <3>1. pc'[u] \in {"failed", "completed"} /\ pc[u] \in {"creating", "inserting"}
      BY <2>3 DEF UploadRefused, InsertRefused, UploadFails, FinishUpload, PersistenceFails,
                  Inserting, TypeOK
    <3>2. PICK o \in {Outcome("completed", "none"), Outcome("failed", "persistence")} :
            runs' = [runs EXCEPT ![host[u]][u] = o]
      BY <2>3 DEF UploadRefused, UploadFails, FinishUpload, PersistenceFails,
                  RecordPersistence
    <3>3. \A r \in Replicas : runs'[r][u] \in {o, Absent}
      BY <3>1, <3>2 DEF LifecycleInv, TypeOK
    <3>4. o \notin Rejections
      BY DEF Outcome, Rejections
    <3>5. Absent \notin Rejections
      BY OutcomesAreNotAbsent DEF Rejections, Outcomes
    <3> QED
      BY <3>1, <3>3, <3>4, <3>5
  <2> QED
    BY <2>1, <2>2, <2>3 DEF UploadStep
<1> QED
  BY <1>1, <1>2 DEF LifecycleInv

(* An analysis reads one dataset and one ticker of a collection without    *)
(* duplicate keys, and never again.                                        *)
LEMMA AnalysesStep ==
  ASSUME IInv, [Next]_vars
  PROVE  AnalysesInv'
<1> USE Kinds, SetsAssumption DEF database, locals
<1> TypeOK /\ AnalysesInv /\ DocumentsInv
  BY DEF IInv
<1>1. ASSUME NEW a \in Analyses, QueryBars(a)
      PROVE  AnalysesInv'
  <2>1. /\ input' = [input EXCEPT ![a] = QueriedBars(a)] /\ ticker' = ticker
        /\ pc' = [pc EXCEPT ![a] = IF QueriedBars(a) = {} THEN "noData" ELSE "analysed"]
    BY <1>1 DEF QueryBars
  <2>2. ASSUME NEW b \in QueriedBars(a)
        PROVE  /\ b.symbol = ticker[a] /\ EngineAcceptsQuote(b.quote)
               /\ \A c \in QueriedBars(a) : c.timestamp = b.timestamp => c = b
    BY <2>2 DEF QueriedBars, SeriesOf, DocumentsInv, BarsAccepted, BarsUnique, SameKey
  <2>3. input'[a] = QueriedBars(a) /\ \A x \in Analyses : x # a => input'[x] = input[x]
    BY <2>1 DEF TypeOK
  <2>4. EngineInputAccepted'
    BY <2>1, <2>2, <2>3 DEF AnalysesInv, EngineInputAccepted
  <2>5. \A x \in Analyses : pc'[x] \in {"idle", "finding", "querying"} => input'[x] = {}
    BY <2>1, <2>3 DEF AnalysesInv, TypeOK
  <2> QED
    BY <2>4, <2>5 DEF AnalysesInv
<1>2. ASSUME NEW a \in Analyses, FindForAnalysis(a)
      PROVE  AnalysesInv'
  <2>1. pc[a] = "finding" /\ UNCHANGED input /\ input[a] = {}
    BY <1>2 DEF FindForAnalysis, AnalysesInv
  <2>2. \A x \in Analyses : x # a => ticker'[x] = ticker[x] /\ pc'[x] = pc[x]
    BY <1>2 DEF FindForAnalysis, TypeOK
  <2>3. EngineInputAccepted'
    BY <2>1, <2>2 DEF AnalysesInv, EngineInputAccepted
  <2>4. \A x \in Analyses : pc'[x] \in {"idle", "finding", "querying"} => input'[x] = {}
    BY <2>1, <2>2 DEF AnalysesInv
  <2> QED
    BY <2>3, <2>4 DEF AnalysesInv
<1>3. ASSUME UNCHANGED input,
             \A a \in Analyses : ticker'[a] = ticker[a],
             \A a \in Analyses : pc'[a] \in {"idle", "finding", "querying"} =>
                                 pc[a] \in {"idle", "finding", "querying"}
      PROVE  AnalysesInv'
  BY <1>3 DEF AnalysesInv, EngineInputAccepted
<1>4. CASE ReplicaNext
  <2>1. UNCHANGED <<input, ticker>>
    BY <1>4 DEF ReplicaNext, ReplicaStep, Connect, CountDatasets, SeedDataset, SeedRefused,
                WriteBar, FinishSeeding, SeedingFails, Crash
  <2>2. \A a \in Analyses : pc'[a] \in {"idle", "finding", "querying"} =>
                            pc[a] \in {"idle", "finding", "querying"}
    BY <1>4 DEF ReplicaNext, ReplicaStep, Connect, CountDatasets, SeedDataset, SeedRefused,
                WriteBar, FinishSeeding, SeedingFails, Crash, TypeOK
  <2> QED
    BY <1>3, <2>1, <2>2
<1>5. CASE UploadNext
  <2>1. UNCHANGED input /\ \A a \in Analyses : ticker'[a] = ticker[a]
    BY <1>5 DEF UploadNext, UploadStep, BeginUpload, Reject, StartPersistence, CreateDataset,
                WriteBar, UploadRefused, UploadFails, RecordPersistence, FinishUpload,
                PersistenceFails, TypeOK
  <2>2. \A a \in Analyses : pc'[a] = pc[a]
    BY <1>5 DEF UploadNext, UploadStep, BeginUpload, Reject, StartPersistence, CreateDataset,
                WriteBar, UploadRefused, UploadFails, FinishUpload, PersistenceFails, TypeOK
  <2> QED
    BY <1>3, <2>1, <2>2
<1>6. CASE DatasetNext \/ InsertionNext \/ UNCHANGED vars
  <2>1. UNCHANGED <<input, ticker>>
    BY <1>6 DEF DatasetNext, CreateEmptyDataset, DeleteDataset, InsertionNext, InsertionStep,
                BeginInsertion, FindForInsertion, WriteBar, EndInsertion, InsertionFails, vars
  <2>2. \A a \in Analyses : pc'[a] = pc[a]
    BY <1>6 DEF DatasetNext, CreateEmptyDataset, DeleteDataset, InsertionNext, InsertionStep,
                BeginInsertion, FindForInsertion, WriteBar, EndInsertion, InsertionFails,
                vars, TypeOK
  <2> QED
    BY <1>3, <2>1, <2>2
<1>7. ASSUME NEW a \in Analyses,
             AnalysisFails(a) \/ \E r \in Replicas, d \in DatasetIds : BeginAnalysis(a, r, d)
      PROVE  AnalysesInv'
  <2>1. UNCHANGED <<input, ticker>>
    BY <1>7 DEF AnalysisFails, BeginAnalysis
  <2>2. \A x \in Analyses : pc'[x] \in {"idle", "finding", "querying"} =>
                            pc[x] \in {"idle", "finding", "querying"}
    BY <1>7 DEF AnalysisFails, BeginAnalysis, TypeOK
  <2> QED
    BY <1>3, <2>1, <2>2
<1> QED
  BY <1>1, <1>2, <1>4, <1>5, <1>6, <1>7 DEF Next, AnalysisNext, AnalysisStep

LEMMA LifecycleStep ==
  ASSUME IInv, [Next]_vars
  PROVE  LifecycleInv'
<1>1. CASE UNCHANGED vars
  BY <1>1 DEF vars, IInv, LifecycleInv, Known
<1> QED
  BY <1>1, LifecycleOthers, LifecycleUpload DEF Next

LEMMA TypeStep == TypeOK /\ [Next]_vars => TypeOK'
<1> SUFFICES ASSUME TypeOK, [Next]_vars PROVE TypeOK'
  OBVIOUS
<1>1. CASE UNCHANGED vars
  BY <1>1 DEF vars, TypeOK
<1> QED
  BY <1>1, ReplicaTyped, UploadTyped, DatasetTyped, InsertionTyped, AnalysisTyped DEF Next

LEMMA InvariantStep == IInv /\ [Next]_vars => IInv'
<1> SUFFICES ASSUME IInv, [Next]_vars PROVE IInv'
  OBVIOUS
<1>1. TypeOK'
  BY TypeStep DEF IInv
<1>2. DocumentsInv'
  BY DocumentsStep DEF IInv
<1> QED
  BY <1>1, <1>2, WritersStep, LifecycleStep, AnalysesStep DEF IInv

-----------------------------------------------------------------------------
(* What moves: an upload's plan is made when it begins, an insertion is    *)
(* told its dataset when it begins, and an analysis reads once.            *)

LEMMA UploadsMove ==
  ASSUME TypeOK, [Next]_vars, NEW u \in Uploads
  PROVE  \/ plan'[u] = plan[u] /\ written'[u] = written[u]
         \/ WriteBar(u)
         \/ \E r \in Replicas, f \in Files : BeginUpload(u, r, f)
<1> USE Kinds, SetsAssumption DEF database, locals, TypeOK
<1>1. CASE ReplicaNext
  BY <1>1 DEF ReplicaNext, ReplicaStep, Connect, CountDatasets, SeedDataset, SeedRefused,
              WriteBar, FinishSeeding, SeedingFails, Crash
<1>2. CASE UploadNext
  <2> PICK v \in Uploads : \/ \E r \in Replicas, f \in Files : BeginUpload(v, r, f)
                           \/ UploadStep(v)
                           \/ PersistenceFails(v)
    BY <1>2 DEF UploadNext
  <2>1. ASSUME NEW r \in Replicas, NEW f \in Files, BeginUpload(v, r, f), v # u
        PROVE  plan'[u] = plan[u] /\ written'[u] = written[u]
    BY <2>1 DEF BeginUpload, Reject, StartPersistence
  <2>2. CASE WriteBar(v)
    BY <2>2 DEF WriteBar
  <2>3. CASE CreateDataset(v) \/ UploadRefused(v) \/ FinishUpload(v) \/ PersistenceFails(v)
    BY <2>3 DEF CreateDataset, UploadRefused, UploadFails, RecordPersistence, FinishUpload,
                PersistenceFails
  <2> QED
    BY <2>1, <2>2, <2>3 DEF UploadStep
<1>3. CASE InsertionNext
  BY <1>3 DEF InsertionNext, InsertionStep, BeginInsertion, FindForInsertion, WriteBar,
              EndInsertion, InsertionFails
<1>4. CASE DatasetNext \/ AnalysisNext \/ UNCHANGED vars
  BY <1>4 DEF DatasetNext, CreateEmptyDataset, DeleteDataset, AnalysisNext, AnalysisStep,
              BeginAnalysis, FindForAnalysis, QueryBars, AnalysisFails, vars
<1> QED
  BY <1>1, <1>2, <1>3, <1>4 DEF Next

LEMMA InsertionsMove ==
  ASSUME TypeOK, [Next]_vars, NEW i \in Insertions
  PROVE  /\ target'[i] = target[i] \/ pc[i] = "idle"
         /\ pc'[i] = "idle" => pc[i] = "idle" /\ target'[i] = target[i]
<1> USE Kinds, SetsAssumption DEF database, locals, TypeOK
<1>1. CASE ReplicaNext
  <2>1. UNCHANGED target
    BY <1>1 DEF ReplicaNext, ReplicaStep, Connect, CountDatasets, SeedDataset, SeedRefused,
                WriteBar, FinishSeeding, SeedingFails, Crash
  <2>2. pc'[i] = "idle" => pc[i] = "idle"
    BY <1>1 DEF ReplicaNext, ReplicaStep, Connect, CountDatasets, SeedDataset, SeedRefused,
                WriteBar, FinishSeeding, SeedingFails, Crash
  <2> QED
    BY <2>1, <2>2
<1>2. CASE UploadNext
  <2>1. UNCHANGED target
    BY <1>2 DEF UploadNext, UploadStep, BeginUpload, Reject, StartPersistence,
                CreateDataset, WriteBar, UploadRefused, UploadFails, RecordPersistence,
                FinishUpload, PersistenceFails
  <2>2. pc'[i] = pc[i]
    BY <1>2 DEF UploadNext, UploadStep, BeginUpload, Reject, StartPersistence,
                CreateDataset, WriteBar, UploadRefused, UploadFails, FinishUpload,
                PersistenceFails
  <2> QED
    BY <2>1, <2>2
<1>3. CASE InsertionNext
  <2> PICK j \in Insertions :
        \/ \E r \in Replicas, d \in DatasetIds, p \in Payloads : BeginInsertion(j, r, d, p)
        \/ InsertionStep(j)
        \/ InsertionFails(j)
    BY <1>3 DEF InsertionNext
  <2>1. ASSUME NEW r \in Replicas, NEW d \in DatasetIds, NEW p \in Payloads,
               BeginInsertion(j, r, d, p)
        PROVE  /\ target'[i] = target[i] \/ pc[i] = "idle"
               /\ pc'[i] = "idle" => pc[i] = "idle" /\ target'[i] = target[i]
    BY <2>1 DEF BeginInsertion
  <2>2. CASE InsertionStep(j) \/ InsertionFails(j)
    BY <2>2 DEF InsertionStep, FindForInsertion, WriteBar, EndInsertion, InsertionFails
  <2> QED
    BY <2>1, <2>2
<1>4. CASE DatasetNext \/ AnalysisNext \/ UNCHANGED vars
  BY <1>4 DEF DatasetNext, CreateEmptyDataset, DeleteDataset, AnalysisNext, AnalysisStep,
              BeginAnalysis, FindForAnalysis, QueryBars, AnalysisFails, vars
<1> QED
  BY <1>1, <1>2, <1>3, <1>4 DEF Next

LEMMA AnalysesMove ==
  ASSUME TypeOK, [Next]_vars, NEW a \in Analyses
  PROVE  \/ QueryBars(a)
         \/ /\ input'[a] = input[a]
            /\ \/ pc[a] \in {"idle", "finding"}
               \/ target'[a] = target[a] /\ ticker'[a] = ticker[a]
<1> USE Kinds, SetsAssumption DEF database, locals, TypeOK
<1>1. CASE ReplicaNext
  BY <1>1 DEF ReplicaNext, ReplicaStep, Connect, CountDatasets, SeedDataset, SeedRefused,
              WriteBar, FinishSeeding, SeedingFails, Crash
<1>2. CASE UploadNext
  BY <1>2 DEF UploadNext, UploadStep, BeginUpload, Reject, StartPersistence, CreateDataset,
              WriteBar, UploadRefused, UploadFails, RecordPersistence, FinishUpload,
              PersistenceFails
<1>3. CASE InsertionNext
  BY <1>3 DEF InsertionNext, InsertionStep, BeginInsertion, FindForInsertion, WriteBar,
              EndInsertion, InsertionFails
<1>4. CASE AnalysisNext
  BY <1>4 DEF AnalysisNext, AnalysisStep, BeginAnalysis, FindForAnalysis, QueryBars,
              AnalysisFails
<1>5. CASE DatasetNext \/ UNCHANGED vars
  BY <1>5 DEF DatasetNext, CreateEmptyDataset, DeleteDataset, vars
<1> QED
  BY <1>1, <1>2, <1>3, <1>4, <1>5 DEF Next

-----------------------------------------------------------------------------
(* No gaps.  Into a dataset no insertion names, only its own upload        *)
(* writes, its bars in ascending time, so that whatever is stored of it at *)
(* any moment is the beginning of its plan.                                *)

Untouched(u) == \A i \in Insertions : target[i] # u

IdleTargets == \A i \in Insertions : pc[i] = "idle" => target[i] = SampleId

PlansSorted ==
  \A u \in Uploads : \A j, k \in DOMAIN plan[u] :
    j < k => plan[u][j].timestamp <= plan[u][k].timestamp

StoredByUpload ==
  \A u \in Uploads : Untouched(u) =>
    \A b \in marketBars : b.dataset = u =>
      \E k \in DOMAIN plan[u] : k <= written[u] /\ b = plan[u][k]

InputsRead ==
  \A a \in Analyses : \A b \in input[a] : b \in marketBars /\ b.dataset = target[a]

GapsInv == IdleTargets /\ PlansSorted /\ StoredByUpload /\ InputsRead /\ AnalysisHasNoGaps

LEMMA GapsInit == Init => GapsInv
<1> SUFFICES ASSUME Init PROVE GapsInv
  OBVIOUS
<1>1. \A u \in Uploads : plan[u] = <<>>
  BY Kinds DEF Init
<1>2. PlansSorted
  BY <1>1 DEF PlansSorted
<1>3. IdleTargets /\ StoredByUpload /\ InputsRead /\ AnalysisHasNoGaps
  BY DEF Init, IdleTargets, StoredByUpload, InputsRead, AnalysisHasNoGaps
<1> QED
  BY <1>2, <1>3 DEF GapsInv

(* A dataset that no insertion names now was named by none before.         *)
LEMMA UntouchedBefore ==
  ASSUME TypeOK, IdleTargets, [Next]_vars, NEW u \in Uploads, Untouched(u)'
  PROVE  Untouched(u)
<1> SUFFICES ASSUME NEW i \in Insertions PROVE target[i] # u
  BY DEF Untouched
<1>1. target'[i] # u
  BY DEF Untouched
<1>2. u # SampleId
  BY SetsAssumption
<1> QED
  BY <1>1, <1>2, InsertionsMove DEF IdleTargets

LEMMA SortedStep ==
  ASSUME IInv, PlansSorted, [Next]_vars
  PROVE  PlansSorted'
<1> SUFFICES ASSUME NEW u \in Uploads, NEW j \in DOMAIN plan'[u], NEW k \in DOMAIN plan'[u],
                    j < k
             PROVE  plan'[u][j].timestamp <= plan'[u][k].timestamp
  BY DEF PlansSorted
<1>1. CASE plan'[u] = plan[u]
  BY <1>1 DEF PlansSorted
<1>2. ASSUME NEW r \in Replicas, NEW f \in Files, BeginUpload(u, r, f)
      PROVE  plan'[u][j].timestamp <= plan'[u][k].timestamp
  <2>1. CASE StagesFail(f)
    BY <1>1, <1>2, <2>1 DEF BeginUpload, Reject
  <2>2. CASE ~StagesFail(f)
    <3>1. plan' = [plan EXCEPT ![u] = Addressed(u, CleanBars(f))]
      BY <1>2, <2>2 DEF BeginUpload, StartPersistence
    <3>2. plan'[u] = Addressed(u, CleanBars(f))
      BY <3>1, Kinds DEF IInv, TypeOK
    <3>3. BarList(NormalizedBars(f))
      BY <2>2, InputsAssumption, NormalizedBarsTyped
    <3>4. \A m, n \in DOMAIN CleanBars(f) :
            m < n => CleanBars(f)[m].timestamp <= CleanBars(f)[n].timestamp
      BY <3>3, DeduplicateCorrect DEF CleanBars
    <3>5. /\ j \in DOMAIN CleanBars(f) /\ k \in DOMAIN CleanBars(f)
          /\ plan'[u][j].timestamp = CleanBars(f)[j].timestamp
          /\ plan'[u][k].timestamp = CleanBars(f)[k].timestamp
      BY <3>2 DEF Addressed
    <3> QED
      BY <3>4, <3>5
  <2> QED
    BY <2>1, <2>2
<1>3. CASE WriteBar(u)
  BY <1>1, <1>3 DEF WriteBar
<1> QED
  BY <1>1, <1>2, <1>3, UploadsMove DEF IInv

LEMMA StoredStep ==
  ASSUME IInv, IdleTargets, StoredByUpload, [Next]_vars
  PROVE  StoredByUpload'
<1> SUFFICES ASSUME NEW u \in Uploads, Untouched(u)', NEW b \in marketBars', b.dataset = u
             PROVE  \E k \in DOMAIN plan'[u] : k <= written'[u] /\ b = plan'[u][k]
  BY DEF StoredByUpload
<1> TypeOK /\ u \in Writers
  BY Kinds DEF IInv
<1>1. Untouched(u)
  BY UntouchedBefore
<1>2. CASE b \in marketBars
  <2>1. PICK k \in DOMAIN plan[u] : k <= written[u] /\ b = plan[u][k]
    BY <1>1, <1>2 DEF StoredByUpload
  <2>2. CASE plan'[u] = plan[u] /\ written'[u] = written[u]
    BY <2>1, <2>2
  <2>3. CASE WriteBar(u)
    <3>1. plan' = plan /\ written'[u] = written[u] + 1 /\ written[u] \in Nat
      BY <2>3 DEF WriteBar, TypeOK
    <3>2. k \in Nat
      BY DEF TypeOK
    <3>3. k <= written'[u]
      BY <2>1, <3>1, <3>2
    <3> QED
      BY <2>1, <3>1, <3>3
  <2>4. ASSUME NEW r \in Replicas, NEW f \in Files, BeginUpload(u, r, f)
        PROVE  FALSE
    <3>1. ~Known(u)
      BY <2>4 DEF BeginUpload, IInv, LifecycleInv
    <3>2. Known(u)
      BY <1>2 DEF IInv, DocumentsInv, BarsFollowDataset, Known
    <3> QED
      BY <3>1, <3>2
  <2> QED
    BY <2>2, <2>3, <2>4, UploadsMove
<1>3. CASE b \notin marketBars
  <2>1. PICK w \in Writers : WriteBar(w)
    BY <1>3, BarsWritten
  <2>2. /\ written[w] \in Nat /\ Len(plan[w]) \in Nat
        /\ DOMAIN plan[w] = 1..Len(plan[w])
    BY DEF TypeOK
  <2>3. written[w] + 1 \in DOMAIN plan[w] /\ b = plan[w][written[w] + 1]
    BY <1>3, <2>1, <2>2 DEF WriteBar, AllWritten, NextBar
  <2>4. Owner(w) = u
    BY <2>3 DEF IInv, WritersInv, PlansOwned
  <2>5. w = u
    <3>1. w \notin Insertions
      BY <1>1, <2>4, SetsAssumption DEF Owner, Untouched
    <3>2. u # SampleId
      BY SetsAssumption
    <3> QED
      BY <2>4, <3>1, <3>2 DEF Owner
  <2>6. plan'[u] = plan[u] /\ written'[u] = written[u] + 1
    BY <2>1, <2>5 DEF WriteBar, TypeOK
  <2>7. written[u] + 1 <= written'[u]
    BY <2>2, <2>5, <2>6
  <2> QED
    BY <2>3, <2>5, <2>6, <2>7
<1> QED
  BY <1>2, <1>3

LEMMA InputsStep ==
  ASSUME IInv, InputsRead, [Next]_vars
  PROVE  InputsRead'
<1> SUFFICES ASSUME NEW a \in Analyses, NEW b \in input'[a]
             PROVE  b \in marketBars' /\ b.dataset = target'[a]
  BY DEF InputsRead
<1> TypeOK
  BY DEF IInv
<1>1. marketBars \subseteq marketBars'
  BY BarsWritten DEF WriteBar
<1>2. CASE QueryBars(a)
  <2>1. input'[a] = QueriedBars(a) /\ UNCHANGED <<marketBars, target>>
    BY <1>2 DEF QueryBars, TypeOK, database
  <2> QED
    BY <2>1 DEF QueriedBars, SeriesOf
<1>3. CASE /\ input'[a] = input[a]
           /\ \/ pc[a] \in {"idle", "finding"}
              \/ target'[a] = target[a] /\ ticker'[a] = ticker[a]
  <2>1. pc[a] \notin {"idle", "finding"}
    BY <1>3 DEF IInv, AnalysesInv
  <2>2. b \in marketBars /\ b.dataset = target[a]
    BY <1>3 DEF InputsRead
  <2> QED
    BY <1>1, <1>3, <2>1, <2>2
<1> QED
  BY <1>2, <1>3, AnalysesMove

LEMMA NoGapsStep ==
  ASSUME IInv, GapsInv, [Next]_vars
  PROVE  AnalysisHasNoGaps'
<1> SUFFICES ASSUME NEW a \in Analyses, NEW u \in Uploads,
                    target'[a] = u, Untouched(u)',
                    NEW b \in input'[a], NEW c \in PlannedBars(u)',
                    c.symbol = ticker'[a], c.timestamp < b.timestamp
             PROVE  c \in input'[a]
  BY DEF AnalysisHasNoGaps, Untouched
<1> TypeOK /\ u \in Writers
  BY Kinds DEF IInv
<1>1. Untouched(u)
  BY UntouchedBefore DEF GapsInv
<1>2. PICK m \in DOMAIN plan'[u] : c = plan'[u][m]
  BY DEF PlannedBars
<1>3. CASE QueryBars(a)
  <2>1. /\ input'[a] = SeriesOf(u, ticker[a]) /\ ticker' = ticker
        /\ UNCHANGED <<marketBars, plan, written, target>>
    BY <1>3 DEF QueryBars, QueriedBars, TypeOK, database
  <2>2. b \in marketBars /\ b.dataset = u /\ b.symbol = ticker[a]
    BY <2>1 DEF SeriesOf
  <2>3. PICK k \in DOMAIN plan[u] : k <= written[u] /\ b = plan[u][k]
    BY <1>1, <2>2 DEF GapsInv, StoredByUpload
  <2>4. /\ k \in Nat /\ m \in Nat /\ m >= 1 /\ written[u] \in Nat
        /\ plan[u][k].timestamp \in Int /\ plan[u][m].timestamp \in Int
    <3>1. plan[u] \in Seq(StoredBar) /\ m \in DOMAIN plan[u] /\ written[u] \in Nat
      BY <2>1 DEF TypeOK
    <3>2. plan[u][k] \in StoredBar /\ plan[u][m] \in StoredBar
      BY <3>1
    <3> QED
      BY <3>1, <3>2 DEF StoredBar
  <2>5. ~(k < m) /\ k # m
    BY <1>2, <2>1, <2>3, <2>4 DEF GapsInv, PlansSorted
  <2>6. m \in 1..written[u]
    BY <2>3, <2>4, <2>5
  <2>7. c \in marketBars
    BY <1>2, <2>1, <2>6 DEF IInv, WritersInv, PrefixStored
  <2>8. c.dataset = u
    BY <1>2, <2>1 DEF IInv, WritersInv, PlansOwned, Owner
  <2> QED
    BY <2>1, <2>7, <2>8 DEF SeriesOf
<1>4. CASE /\ input'[a] = input[a]
           /\ \/ pc[a] \in {"idle", "finding"}
              \/ target'[a] = target[a] /\ ticker'[a] = ticker[a]
  <2>1. pc[a] \notin {"idle", "finding"}
    BY <1>4 DEF IInv, AnalysesInv
  <2>2. target[a] = u /\ ticker[a] = ticker'[a] /\ b \in input[a]
    BY <1>4, <2>1
  <2>3. plan'[u] = plan[u]
    <3>1. ASSUME NEW r \in Replicas, NEW f \in Files, BeginUpload(u, r, f)
          PROVE  FALSE
      <4>1. ~Known(u)
        BY <3>1 DEF BeginUpload, IInv, LifecycleInv
      <4>2. b \in marketBars /\ b.dataset = u
        BY <2>2 DEF GapsInv, InputsRead
      <4>3. Known(u)
        BY <4>2 DEF IInv, DocumentsInv, BarsFollowDataset, Known
      <4> QED
        BY <4>1, <4>3
    <3>2. WriteBar(u) => plan'[u] = plan[u]
      BY DEF WriteBar
    <3> QED
      BY <3>1, <3>2, UploadsMove
  <2>4. c \in PlannedBars(u)
    BY <1>2, <2>3 DEF PlannedBars
  <2> QED
    BY <1>1, <1>4, <2>2, <2>4 DEF GapsInv, AnalysisHasNoGaps, Untouched
<1> QED
  BY <1>3, <1>4, AnalysesMove

LEMMA GapsStep == IInv /\ GapsInv /\ [Next]_vars => GapsInv'
<1> SUFFICES ASSUME IInv, GapsInv, [Next]_vars PROVE GapsInv'
  OBVIOUS
<1>1. IdleTargets'
  BY InsertionsMove DEF GapsInv, IdleTargets, IInv
<1> QED
  BY <1>1, SortedStep, StoredStep, InputsStep, NoGapsStep DEF GapsInv

-----------------------------------------------------------------------------
(* Seeding.  Every replica writes the sample from its first bar and stops  *)
(* at the first one it finds, so that of the replicas seeding at once one  *)
(* is ahead: it has written all there is, and what is missing is before it. *)

Quiet ==
  /\ faults = 0
  /\ \A i \in Insertions : target[i] # SampleId \/ pc[i] = "idle"

SampleBar(k) == Addressed(SampleId, SampleSeries)[k]

SampleStored == \A k \in DOMAIN SampleSeries : SampleBar(k) \in marketBars

Unseeded == datasets[SampleId] = Absent /\ \A b \in marketBars : b.dataset # SampleId

\* All of the sample there is was written by r.
Leads(r) ==
  /\ Inserting(r)
  /\ \A b \in marketBars : b.dataset = SampleId =>
       \E k \in DOMAIN SampleSeries : k <= written[r] /\ b = SampleBar(k)

SeedersPlan ==
  \A r \in Replicas : Inserting(r) => plan[r] = Addressed(SampleId, SampleSeries)

SeedingInv ==
  /\ SeedersPlan
  /\ Quiet => SampleStored \/ Unseeded \/ \E r \in Replicas : Leads(r)

LEMMA SampleTyped ==
  /\ Addressed(SampleId, SampleSeries) \in Seq(StoredBar)
  /\ DOMAIN Addressed(SampleId, SampleSeries) = DOMAIN SampleSeries
  /\ DOMAIN SampleSeries = 1..Len(SampleSeries) /\ Len(SampleSeries) \in Nat
  /\ Len(Addressed(SampleId, SampleSeries)) = Len(SampleSeries)
  /\ \A k \in DOMAIN SampleSeries : SampleBar(k).dataset = SampleId
  /\ \A j, k \in DOMAIN SampleSeries : SameKey(SampleBar(j), SampleBar(k)) => j = k
<1>1. SampleSeries \in Seq(Bar) /\ SampleId \in DatasetIds
  BY InputsAssumption, Kinds
<1>2. /\ Addressed(SampleId, SampleSeries) \in Seq(StoredBar)
      /\ DOMAIN Addressed(SampleId, SampleSeries) = DOMAIN SampleSeries
      /\ \A k \in DOMAIN SampleSeries : SampleBar(k).dataset = SampleId
  BY <1>1, AddressedTyped DEF SampleBar
<1>3. DOMAIN SampleSeries = 1..Len(SampleSeries) /\ Len(SampleSeries) \in Nat
  BY <1>1
<1>4. Len(Addressed(SampleId, SampleSeries)) = Len(SampleSeries)
  BY <1>2, <1>3
<1>5. \A k \in DOMAIN SampleSeries : /\ SampleBar(k).symbol = SampleSeries[k].symbol
                                     /\ SampleBar(k).timestamp = SampleSeries[k].timestamp
  BY DEF SampleBar, Addressed
<1>6. \A j, k \in DOMAIN SampleSeries : SameKey(SampleBar(j), SampleBar(k)) => j = k
  BY <1>5, InputsAssumption DEF SameKey
<1> QED
  BY <1>2, <1>3, <1>4, <1>6

LEMMA SeedingInit == Init => SeedingInv
<1> SUFFICES ASSUME Init PROVE SeedingInv
  OBVIOUS
<1>1. SeedersPlan
  BY Kinds DEF Init, SeedersPlan, Inserting
<1>2. Unseeded
  BY Kinds DEF Init, Unseeded
<1> QED
  BY <1>1, <1>2 DEF SeedingInv

\* What a replica does, as far as the sample is concerned.
LEMMA ReplicasMove ==
  ASSUME TypeOK, [Next]_vars, NEW r \in Replicas
  PROVE  \/ SeedDataset(r)
         \/ WriteBar(r)
         \/ FinishSeeding(r)
         \/ faults' # 0
         \/ /\ plan'[r] = plan[r] /\ written'[r] = written[r]
            /\ Inserting(r)' <=> Inserting(r)
<1> USE Kinds, SetsAssumption DEF database, locals, TypeOK, Inserting
<1>1. CASE ReplicaNext
  <2> PICK q \in Replicas : ReplicaStep(q) \/ Connect(q) \/ SeedingFails(q) \/ Crash(q)
    BY <1>1 DEF ReplicaNext
  <2>1. CASE SeedDataset(q)
    BY <2>1 DEF SeedDataset
  <2>2. CASE WriteBar(q)
    BY <2>2 DEF WriteBar
  <2>3. CASE FinishSeeding(q)
    BY <2>3 DEF FinishSeeding
  <2>4. CASE SeedingFails(q) \/ Crash(q)
    <3>1. faults' = faults + 1 /\ faults \in Nat
      BY <2>4 DEF SeedingFails, Crash, Fault
    <3> QED
      BY <3>1
  <2>5. CASE Connect(q) \/ CountDatasets(q) \/ SeedRefused(q)
    BY <2>5 DEF Connect, CountDatasets, SeedRefused
  <2> QED
    BY <2>1, <2>2, <2>3, <2>4, <2>5 DEF ReplicaStep
<1>2. CASE UploadNext
  <2>1. plan'[r] = plan[r] /\ written'[r] = written[r]
    BY <1>2 DEF UploadNext, UploadStep, BeginUpload, Reject, StartPersistence,
                CreateDataset, WriteBar, UploadRefused, UploadFails, RecordPersistence,
                FinishUpload, PersistenceFails
  <2>2. pc'[r] = pc[r]
    BY <1>2 DEF UploadNext, UploadStep, BeginUpload, Reject, StartPersistence,
                CreateDataset, WriteBar, UploadRefused, UploadFails, FinishUpload,
                PersistenceFails
  <2> QED
    BY <2>1, <2>2
<1>3. CASE InsertionNext
  <2>1. plan'[r] = plan[r] /\ written'[r] = written[r]
    BY <1>3 DEF InsertionNext, InsertionStep, BeginInsertion, FindForInsertion, WriteBar,
                EndInsertion, InsertionFails
  <2>2. pc'[r] = pc[r]
    BY <1>3 DEF InsertionNext, InsertionStep, BeginInsertion, FindForInsertion, WriteBar,
                EndInsertion, InsertionFails
  <2> QED
    BY <2>1, <2>2
<1>4. CASE DatasetNext \/ AnalysisNext \/ UNCHANGED vars
  BY <1>4 DEF DatasetNext, CreateEmptyDataset, DeleteDataset, AnalysisNext, AnalysisStep,
              BeginAnalysis, FindForAnalysis, QueryBars, AnalysisFails, vars
<1> QED
  BY <1>1, <1>2, <1>3, <1>4 DEF Next

\* The sample's document appears by seeding only.
LEMMA SampleDocument ==
  ASSUME TypeOK, [Next]_vars, datasets[SampleId] = Absent
  PROVE  datasets'[SampleId] = Absent \/ \E r \in Replicas : SeedDataset(r)
<1> USE Kinds, SetsAssumption DEF database, locals, TypeOK
<1>1. CASE ReplicaNext
  BY <1>1 DEF ReplicaNext, ReplicaStep, Connect, CountDatasets, SeedRefused,
              WriteBar, FinishSeeding, SeedingFails, Crash
<1>2. CASE UploadNext
  BY <1>2 DEF UploadNext, UploadStep, BeginUpload, CreateDataset, WriteBar, UploadRefused,
              UploadFails, RecordPersistence, FinishUpload, PersistenceFails
<1>3. CASE DatasetNext
  BY <1>3 DEF DatasetNext, CreateEmptyDataset, DeleteDataset
<1>4. CASE InsertionNext \/ AnalysisNext \/ UNCHANGED vars
  BY <1>4 DEF InsertionNext, InsertionStep, BeginInsertion, FindForInsertion, WriteBar,
              EndInsertion, InsertionFails, AnalysisNext, AnalysisStep,
              BeginAnalysis, FindForAnalysis, QueryBars, AnalysisFails, vars
<1> QED
  BY <1>1, <1>2, <1>3, <1>4 DEF Next

LEMMA FaultsGrow ==
  ASSUME TypeOK, [Next]_vars
  PROVE  faults' = faults \/ faults' = faults + 1
<1> USE DEF database, locals, Fault
<1>1. CASE ReplicaNext
  BY <1>1 DEF ReplicaNext, ReplicaStep, Connect, CountDatasets, SeedDataset, SeedRefused,
              WriteBar, FinishSeeding, SeedingFails, Crash
<1>2. CASE UploadNext
  BY <1>2 DEF UploadNext, UploadStep, BeginUpload, CreateDataset, WriteBar, UploadRefused,
              FinishUpload, PersistenceFails
<1>3. CASE InsertionNext
  BY <1>3 DEF InsertionNext, InsertionStep, BeginInsertion, FindForInsertion, WriteBar,
              EndInsertion, InsertionFails
<1>4. CASE DatasetNext \/ AnalysisNext \/ UNCHANGED vars
  BY <1>4 DEF DatasetNext, CreateEmptyDataset, DeleteDataset, AnalysisNext, AnalysisStep,
              BeginAnalysis, FindForAnalysis, QueryBars, AnalysisFails, vars
<1> QED
  BY <1>1, <1>2, <1>3, <1>4 DEF Next

LEMMA QuietBefore ==
  ASSUME TypeOK, [Next]_vars, Quiet'
  PROVE  Quiet
<1>1. faults = 0
  <2>1. faults \in Nat /\ faults' = 0
    BY SetsAssumption DEF TypeOK, Quiet
  <2> QED
    BY <2>1, FaultsGrow
<1>2. ASSUME NEW i \in Insertions
      PROVE  target[i] # SampleId \/ pc[i] = "idle"
  BY InsertionsMove DEF Quiet
<1> QED
  BY <1>1, <1>2 DEF Quiet

LEMMA SeedersStep ==
  ASSUME IInv, SeedersPlan, [Next]_vars
  PROVE  SeedersPlan'
<1> TypeOK
  BY DEF IInv
<1> USE Kinds, SetsAssumption DEF database, locals, TypeOK, Inserting, SeedersPlan
<1>1. CASE ReplicaNext
  BY <1>1 DEF ReplicaNext, ReplicaStep, Connect, CountDatasets, SeedDataset, SeedRefused,
              WriteBar, FinishSeeding, SeedingFails, Crash
<1>2. CASE UploadNext
  <2>1. \A r \in Replicas : plan'[r] = plan[r]
    BY <1>2 DEF UploadNext, UploadStep, BeginUpload, Reject, StartPersistence,
                CreateDataset, WriteBar, UploadRefused, UploadFails, RecordPersistence,
                FinishUpload, PersistenceFails
  <2>2. \A r \in Replicas : pc'[r] = pc[r]
    BY <1>2 DEF UploadNext, UploadStep, BeginUpload, Reject, StartPersistence,
                CreateDataset, WriteBar, UploadRefused, UploadFails, FinishUpload,
                PersistenceFails
  <2> QED
    BY <2>1, <2>2
<1>3. CASE InsertionNext
  BY <1>3 DEF InsertionNext, InsertionStep, BeginInsertion, FindForInsertion, WriteBar,
              EndInsertion, InsertionFails
<1>4. CASE DatasetNext \/ AnalysisNext \/ UNCHANGED vars
  BY <1>4 DEF DatasetNext, CreateEmptyDataset, DeleteDataset, AnalysisNext, AnalysisStep,
              BeginAnalysis, FindForAnalysis, QueryBars, AnalysisFails, vars
<1> QED
  BY <1>1, <1>2, <1>3, <1>4 DEF Next

\* Only a seeding replica writes into the sample.
LEMMA SampleWriters ==
  ASSUME IInv, Quiet, SeedersPlan, NEW w \in Writers, WriteBar(w)
  PROVE  \/ marketBars' = marketBars \cup {NextBar(w)} /\ NextBar(w).dataset # SampleId
         \/ /\ w \in Replicas /\ Inserting(w)
            /\ written[w] + 1 \in DOMAIN SampleSeries
            /\ written[w] \in Nat /\ written'[w] = written[w] + 1 /\ pc' = pc
            /\ marketBars' = marketBars \cup {SampleBar(written[w] + 1)}
            /\ SampleBar(written[w] + 1) \notin marketBars
<1>1. /\ written[w] \in Nat /\ Len(plan[w]) \in Nat /\ DOMAIN plan[w] = 1..Len(plan[w])
      /\ written'[w] = written[w] + 1
  BY DEF IInv, TypeOK, WriteBar
<1>2. /\ Inserting(w) /\ pc' = pc /\ marketBars' = marketBars \cup {NextBar(w)}
      /\ NextBar(w) \notin marketBars
  BY DEF WriteBar, Refused, Indexed, SameKey
<1>3. written[w] + 1 \in DOMAIN plan[w]
  BY <1>1 DEF WriteBar, AllWritten
<1>4. NextBar(w).dataset = Owner(w)
  BY <1>3 DEF NextBar, IInv, WritersInv, PlansOwned
<1>5. CASE w \in Replicas
  <2>1. plan[w] = Addressed(SampleId, SampleSeries)
    BY <1>2, <1>5 DEF SeedersPlan
  <2>2. NextBar(w) = SampleBar(written[w] + 1) /\ written[w] + 1 \in DOMAIN SampleSeries
    BY <1>3, <2>1, SampleTyped DEF NextBar, SampleBar
  <2> QED
    BY <1>1, <1>2, <1>5, <2>2
<1>6. CASE w \notin Replicas
  <2>1. Owner(w) # SampleId
    BY <1>2, <1>6, SetsAssumption DEF Owner, Writers, Quiet, Inserting
  <2> QED
    BY <1>2, <1>4, <2>1
<1> QED
  BY <1>5, <1>6

LEMMA LeaderStep ==
  ASSUME IInv, SeedingInv, [Next]_vars, Quiet', NEW r \in Replicas, Leads(r)
  PROVE  SampleStored' \/ \E q \in Replicas : Leads(q)'
<1> TypeOK /\ SeedersPlan
  BY DEF IInv, SeedingInv
<1> DEFINE n == written[r]
<1>1. Quiet
  BY QuietBefore
<1>2. /\ plan[r] = Addressed(SampleId, SampleSeries) /\ Inserting(r)
      /\ n \in Nat /\ n <= Len(SampleSeries)
      /\ \A k \in 1..n : SampleBar(k) \in marketBars
  <2>1. plan[r] = Addressed(SampleId, SampleSeries) /\ Inserting(r) /\ r \in Writers
    BY Kinds DEF Leads, SeedersPlan
  <2>2. n \in Nat /\ n <= Len(plan[r]) /\ \A k \in 1..n : plan[r][k] \in marketBars
    BY <2>1 DEF IInv, TypeOK, WritersInv, PrefixStored
  <2> QED
    BY <2>1, <2>2, SampleTyped DEF SampleBar
<1>3. \A b \in marketBars : b.dataset = SampleId =>
        \E k \in DOMAIN SampleSeries : k <= n /\ b = SampleBar(k)
  BY DEF Leads
<1>4. ASSUME NEW k \in DOMAIN SampleSeries, SampleBar(k) \in marketBars
      PROVE  k <= n
  <2>1. PICK j \in DOMAIN SampleSeries : j <= n /\ SampleBar(k) = SampleBar(j)
    BY <1>3, <1>4, SampleTyped
  <2>2. j = k
    BY <2>1, SampleTyped DEF SameKey
  <2> QED
    BY <2>1, <2>2
<1>5. CASE marketBars' = marketBars
  <2>1. CASE /\ plan'[r] = plan[r] /\ written'[r] = written[r]
             /\ Inserting(r)' <=> Inserting(r)
    <3>1. Leads(r)'
      BY <1>2, <1>3, <1>5, <2>1 DEF Leads
    <3> QED
      BY <3>1
  <2>2. CASE FinishSeeding(r)
    <3>1. CASE AllWritten(r)
      <4>1. n >= Len(SampleSeries)
        BY <1>2, <3>1, SampleTyped DEF AllWritten
      <4>2. \A k \in DOMAIN SampleSeries : k \in 1..n
        BY <1>2, <4>1, SampleTyped
      <4>3. SampleStored'
        BY <1>2, <1>5, <4>2 DEF SampleStored, SampleBar
      <4> QED
        BY <4>3
    <3>2. CASE Refused(r)
      <4>1. n + 1 \in DOMAIN SampleSeries
        BY <1>2, <3>2, SampleTyped DEF Refused, AllWritten
      <4>2. NextBar(r) = SampleBar(n + 1)
        BY <1>2 DEF NextBar, SampleBar
      <4>3. PICK x \in marketBars : x.dataset = SampleId /\ SameKey(x, SampleBar(n + 1))
        BY <3>2, <4>1, <4>2, SampleTyped DEF Refused, Indexed
      <4>4. PICK j \in DOMAIN SampleSeries : j <= n /\ x = SampleBar(j)
        BY <1>3, <4>3
      <4>5. j = n + 1
        BY <4>1, <4>3, <4>4, SampleTyped
      <4> QED
        BY <1>2, <4>4, <4>5
    <3> QED
      BY <2>2, <3>1, <3>2 DEF FinishSeeding
  <2>3. ~SeedDataset(r)
    BY <1>2 DEF SeedDataset, Inserting
  <2>4. ~WriteBar(r)
    <3>1. SUFFICES ASSUME WriteBar(r) PROVE FALSE
      OBVIOUS
    <3>2. NextBar(r) \in marketBars
      BY <1>5, <3>1 DEF WriteBar
    <3> QED
      BY <3>1, <3>2 DEF WriteBar, Refused, Indexed, SameKey
  <2>5. faults' = 0
    BY DEF Quiet
  <2> QED
    BY <2>1, <2>2, <2>3, <2>4, <2>5, ReplicasMove
<1>6. ASSUME NEW w \in Writers, WriteBar(w)
      PROVE  SampleStored' \/ \E q \in Replicas : Leads(q)'
  <2>1. CASE marketBars' = marketBars \cup {NextBar(w)} /\ NextBar(w).dataset # SampleId
    <3>1. Inserting(r)' /\ (w # r => written'[r] = written[r])
      BY <1>2, <1>6, Kinds DEF WriteBar, Inserting, TypeOK
    <3>2. w # r
      <4>1. SUFFICES ASSUME w = r PROVE FALSE
        OBVIOUS
      <4>2. n + 1 \in DOMAIN SampleSeries
        BY <1>2, <1>6, <4>1, SampleTyped DEF WriteBar, AllWritten
      <4>3. NextBar(r) = SampleBar(n + 1)
        BY <1>2 DEF NextBar, SampleBar
      <4> QED
        BY <2>1, <4>1, <4>2, <4>3, SampleTyped
    <3>3. Leads(r)'
      BY <1>3, <2>1, <3>1, <3>2 DEF Leads, SampleBar
    <3> QED
      BY <3>3
  <2>2. CASE /\ w \in Replicas /\ Inserting(w)
             /\ written[w] + 1 \in DOMAIN SampleSeries
             /\ written[w] \in Nat /\ written'[w] = written[w] + 1 /\ pc' = pc
             /\ marketBars' = marketBars \cup {SampleBar(written[w] + 1)}
             /\ SampleBar(written[w] + 1) \notin marketBars
    <3>1. n <= written[w]
      <4>1. \A k \in 1..n : k # written[w] + 1
        BY <1>2, <2>2
      <4> QED
        BY <1>2, <2>2, <4>1, SampleTyped
    <3>2. ASSUME NEW b \in marketBars', b.dataset = SampleId
          PROVE  \E k \in DOMAIN SampleSeries : k <= written'[w] /\ b = SampleBar(k)
      <4>1. CASE b \in marketBars
        <5>1. PICK k \in DOMAIN SampleSeries : k <= n /\ b = SampleBar(k)
          BY <1>3, <3>2, <4>1
        <5>2. k \in Nat /\ k <= written'[w]
          BY <1>2, <2>2, <3>1, <5>1, SampleTyped
        <5> QED
          BY <5>1, <5>2
      <4>2. CASE b = SampleBar(written[w] + 1)
        BY <2>2, <4>2
      <4> QED
        BY <2>2, <4>1, <4>2
    <3>3. Leads(w)'
      BY <2>2, <3>2 DEF Leads, Inserting, SampleBar
    <3> QED
      BY <2>2, <3>3
  <2> QED
    BY <1>1, <1>6, <2>1, <2>2, SampleWriters
<1> QED
  BY <1>5, <1>6, BarsWritten

LEMMA SeedingStep == IInv /\ SeedingInv /\ [Next]_vars => SeedingInv'
<1> SUFFICES ASSUME IInv, SeedingInv, [Next]_vars PROVE SeedingInv'
  OBVIOUS
<1> TypeOK
  BY DEF IInv
<1>1. SeedersPlan'
  BY SeedersStep DEF SeedingInv
<1>2. ASSUME Quiet'
      PROVE  SampleStored' \/ Unseeded' \/ \E r \in Replicas : Leads(r)'
  <2>1. Quiet /\ faults' = 0
    BY <1>2, QuietBefore DEF Quiet
  <2>2. CASE SampleStored
    <3>1. marketBars \subseteq marketBars'
      BY BarsWritten DEF WriteBar
    <3> QED
      BY <2>2, <3>1 DEF SampleStored, SampleBar
  <2>3. CASE \E r \in Replicas : Leads(r)
    BY <1>2, <2>3, LeaderStep
  <2>4. CASE Unseeded
    <3>1. \A r \in Replicas : ~Inserting(r) \/ Leads(r)
      BY <2>4 DEF Unseeded, Leads
    <3>2. CASE \E r \in Replicas : Inserting(r)
      BY <1>2, <3>1, <3>2, LeaderStep
    <3>3. ASSUME NEW r \in Replicas, SeedDataset(r)
          PROVE  Leads(r)'
      <4>1. Inserting(r)' /\ marketBars' = marketBars
        BY <3>3, Kinds DEF SeedDataset, Inserting, TypeOK
      <4> QED
        BY <2>4, <4>1 DEF Leads, Unseeded
    <3>4. CASE /\ \A r \in Replicas : ~Inserting(r)
               /\ \A r \in Replicas : ~SeedDataset(r)
      <4>1. datasets'[SampleId] = Absent
        BY <2>4, <3>4, SampleDocument DEF Unseeded
      <4>2. \A b \in marketBars' : b.dataset # SampleId
        <5>1. CASE marketBars' = marketBars
          BY <2>4, <5>1 DEF Unseeded
        <5>2. ASSUME NEW w \in Writers, WriteBar(w)
              PROVE  \A b \in marketBars' : b.dataset # SampleId
          <6>1. marketBars' = marketBars \cup {NextBar(w)} /\ NextBar(w).dataset # SampleId
            BY <2>1, <3>4, <5>2, SampleWriters DEF SeedingInv
          <6> QED
            BY <2>4, <6>1 DEF Unseeded
        <5> QED
          BY <5>1, <5>2, BarsWritten
      <4>3. Unseeded'
        BY <4>1, <4>2 DEF Unseeded
      <4> QED
        BY <4>3
    <3> QED
      BY <3>2, <3>3, <3>4
  <2> QED
    BY <2>1, <2>2, <2>3, <2>4 DEF SeedingInv
<1> QED
  BY <1>1, <1>2 DEF SeedingInv

-----------------------------------------------------------------------------
(* The abstract store.  A document appears under an id that was never used *)
(* or is the sample's; the next bar of an insertMany has a dataset and the *)
(* index has let it pass.                                                  *)

LEMMA WritingStores ==
  ASSUME IInv, NEW w \in Writers, WriteBar(w)
  PROVE  Promise!Next
<1> DEFINE b == NextBar(w)
<1>1. /\ written[w] \in Nat /\ Len(plan[w]) \in Nat /\ plan[w] \in Seq(StoredBar)
      /\ DOMAIN plan[w] = 1..Len(plan[w])
  BY DEF IInv, TypeOK
<1>2. written[w] + 1 \in DOMAIN plan[w]
  BY <1>1 DEF WriteBar, AllWritten
<1>3. b \in StoredBar /\ b.dataset = Owner(w) /\ EngineAcceptsQuote(b.quote)
  BY <1>1, <1>2 DEF IInv, WritersInv, PlansOwned, NextBar
<1>4. Known(b.dataset)
  BY <1>3 DEF WriteBar, IInv, WritersInv, WritersKnown
<1>5. \A x \in marketBars : ~(x.dataset = b.dataset /\ SameKey(x, b))
  BY DEF WriteBar, Refused, Indexed
<1>6. marketBars' = marketBars \cup {b} /\ UNCHANGED <<datasets, deleted>>
  BY DEF WriteBar
<1>7. b \notin marketBars
  BY <1>5 DEF SameKey
<1> HIDE DEF b
<1>8. Promise!Store(b)
  BY <1>3, <1>4, <1>5, <1>6 DEF Promise!Store, Promise!Created, Promise!Key, Known, SameKey
<1>9. b \in marketBars' \ marketBars
  BY <1>6, <1>7
<1> QED
  BY <1>8, <1>9 DEF Promise!Next

LEMMA StoreStep ==
  ASSUME IInv, [Next]_vars
  PROVE  Promise!Next \/ UNCHANGED <<datasets, deleted, marketBars>>
<1> USE Kinds, SetsAssumption DEF database, locals
<1> TypeOK /\ LifecycleInv
  BY DEF IInv
<1>1. ASSUME NEW d \in DatasetIds, NEW s \in Symbols, datasets[d] = Absent,
             d \in deleted => d = SampleId, datasets' = [datasets EXCEPT ![d] = s],
             UNCHANGED <<deleted, marketBars>>
      PROVE  Promise!Next
  BY <1>1 DEF Promise!Next, Promise!Create
<1>2. CASE ReplicaNext
  <2> PICK r \in Replicas : ReplicaStep(r) \/ Connect(r) \/ SeedingFails(r) \/ Crash(r)
    BY <1>2 DEF ReplicaNext
  <2>1. CASE SeedDataset(r)
    BY <1>1, <2>1, InputsAssumption DEF SeedDataset
  <2>2. CASE WriteBar(r)
    BY <2>2, WritingStores
  <2>3. CASE ~SeedDataset(r) /\ ~WriteBar(r)
    BY <2>3 DEF ReplicaStep, Connect, CountDatasets, SeedRefused, FinishSeeding, SeedingFails,
                Crash
  <2> QED
    BY <2>1, <2>2, <2>3
<1>3. CASE UploadNext
  <2> PICK u \in Uploads : \/ \E r \in Replicas, f \in Files : BeginUpload(u, r, f)
                           \/ UploadStep(u)
                           \/ PersistenceFails(u)
    BY <1>3 DEF UploadNext
  <2>1. ASSUME pc[u] = "creating", datasets' = [datasets EXCEPT ![u] = ticker[u]],
               UNCHANGED <<deleted, marketBars>>
        PROVE  Promise!Next
    <3>1. ticker[u] \in Symbols /\ datasets[u] = Absent /\ u \notin deleted
      BY <2>1 DEF LifecycleInv, Known
    <3> QED
      BY <1>1, <2>1, <3>1
  <2>2. CASE CreateDataset(u)
    BY <2>1, <2>2 DEF CreateDataset
  <2>3. CASE PersistenceFails(u)
    BY <2>1, <2>3 DEF PersistenceFails, UploadFails, RecordPersistence
  <2>4. CASE WriteBar(u)
    BY <2>4, WritingStores
  <2>5. CASE UploadRefused(u) \/ FinishUpload(u) \/ \E r \in Replicas, f \in Files : BeginUpload(u, r, f)
    BY <2>5 DEF UploadRefused, UploadFails, FinishUpload, RecordPersistence, BeginUpload
  <2> QED
    BY <2>2, <2>3, <2>4, <2>5 DEF UploadStep
<1>4. CASE DatasetNext
  <2>1. ASSUME NEW c \in Creations, NEW s \in Symbols, CreateEmptyDataset(c, s)
        PROVE  Promise!Next
    BY <1>1, <2>1 DEF CreateEmptyDataset, DatasetIds
  <2>2. ASSUME NEW d \in DatasetIds, DeleteDataset(d)
        PROVE  Promise!Next
    BY <2>2 DEF DeleteDataset, Promise!Next, Promise!Remove
  <2> QED
    BY <1>4, <2>1, <2>2 DEF DatasetNext
<1>5. CASE InsertionNext
  <2> PICK i \in Insertions :
        \/ \E r \in Replicas, d \in DatasetIds, p \in Payloads : BeginInsertion(i, r, d, p)
        \/ InsertionStep(i)
        \/ InsertionFails(i)
    BY <1>5 DEF InsertionNext
  <2>1. CASE WriteBar(i)
    BY <2>1, WritingStores
  <2>2. CASE ~WriteBar(i)
    BY <2>2 DEF InsertionStep, BeginInsertion, FindForInsertion, EndInsertion, InsertionFails
  <2> QED
    BY <2>1, <2>2
<1>6. CASE AnalysisNext \/ UNCHANGED vars
  BY <1>6 DEF AnalysisNext, AnalysisStep, BeginAnalysis, FindForAnalysis, QueryBars,
              AnalysisFails, vars
<1> QED
  BY <1>2, <1>3, <1>4, <1>5, <1>6 DEF Next

-----------------------------------------------------------------------------
(* The theorems                                                            *)

(* Every reachable state has the declared shape.                           *)
THEOREM TypeCorrect == Spec => []TypeOK
BY InitTyped, TypeStep, PTL DEF Spec

(* The strengthening of all the safety properties below is an invariant.   *)
THEOREM Invariance == Spec => []IInv
BY InitInvariant, InvariantStep, PTL DEF Spec

(* What an analysis hands the C++ engine is always what it accepts.        *)
THEOREM EngineNeverRefuses == Spec => []EngineInputAccepted
<1>1. IInv => EngineInputAccepted
  BY DEF IInv, AnalysesInv
<1> QED
  BY <1>1, Invariance, PTL

(* An upload reported as completed has stored all its bars.                *)
THEOREM CompletedIsStored == Spec => []CompletedUploadStored
<1>1. IInv => CompletedUploadStored
  <2> SUFFICES ASSUME IInv, NEW u \in Uploads, pc[u] = "completed", NEW k \in DOMAIN plan[u]
               PROVE  plan[u][k] \in marketBars
    BY DEF CompletedUploadStored, PlannedBars
  <2>1. written[u] \in Nat /\ Len(plan[u]) \in Nat /\ DOMAIN plan[u] = 1..Len(plan[u])
    BY Kinds DEF IInv, TypeOK
  <2>2. written[u] >= Len(plan[u]) /\ \A j \in 1..written[u] : plan[u][j] \in marketBars
    BY Kinds DEF IInv, WritersInv, PrefixStored, AllWritten
  <2> QED
    BY <2>1, <2>2
<1> QED
  BY <1>1, Invariance, PTL

(* Bars are orphaned by deletions of datasets only.                        *)
THEOREM OrphansComeFromDeletions == Spec => []BarsFollowDataset
<1>1. IInv => BarsFollowDataset
  BY DEF IInv, DocumentsInv
<1> QED
  BY <1>1, Invariance, PTL

(* The two collections change as the abstract store allows, whatever       *)
(* replicas and requests do, and wherever they crash.                      *)
THEOREM CollectionsAreAStore == Spec => CollectionsKeepPromise
<1>1. Init => Promise!Init
  BY DEF Init, Promise!Init
<1>2. IInv /\ [Next]_vars => [Promise!Next]_(Promise!store)
  BY StoreStep DEF Promise!store
<1> QED
  BY <1>1, <1>2, Invariance, PTL DEF Spec, CollectionsKeepPromise, Promise!Spec

(* A file the stages refuse leaves neither dataset nor bars.               *)
THEOREM RejectionIsClean == Spec => []RejectedUploadLeavesNothing
<1>1. IInv => RejectedUploadLeavesNothing
  BY DEF IInv, LifecycleInv, Rejections, Known, DocumentsInv, BarsFollowDataset,
         RejectedUploadLeavesNothing
<1> QED
  BY <1>1, Invariance, PTL

(* A recorded outcome is final, but for crashes.                           *)
THEOREM OutcomesAreFinal == Spec => OutcomeIsFinal
<1> DEFINE Final == \A r \in Replicas, u \in Uploads :
              runs[r][u] # Absent => runs'[r][u] = runs[r][u] \/ pc'[r] = "down"
<1>1. IInv /\ [Next]_vars => [Final]_vars
  <2> SUFFICES ASSUME IInv, Next, NEW r \in Replicas, NEW u \in Uploads,
                      runs[r][u] # Absent
               PROVE  runs'[r][u] = runs[r][u] \/ pc'[r] = "down"
    OBVIOUS
  <2> USE Kinds DEF database, locals
  <2> TypeOK /\ LifecycleInv
    BY DEF IInv
  <2>1. ASSUME NEW q \in Replicas, Crash(q)
        PROVE  runs'[r][u] = runs[r][u] \/ pc'[r] = "down"
    BY <2>1 DEF Crash, TypeOK
  <2>2. ASSUME NEW v \in Uploads, NEW x, NEW o, runs' = [runs EXCEPT ![x][v] = o],
               pc[v] \in {"idle", "creating", "inserting"}
        PROVE  runs'[r][u] = runs[r][u]
    <3>1. u # v
      BY <2>2 DEF LifecycleInv
    <3>2. /\ runs \in [Replicas -> [Uploads -> Outcomes \cup {Absent}]]
          /\ runs[r] \in [Uploads -> Outcomes \cup {Absent}]
      BY DEF TypeOK
    <3>3. runs'[r] = IF r = x THEN [runs[r] EXCEPT ![v] = o] ELSE runs[r]
      BY <2>2, <3>2
    <3> QED
      BY <3>1, <3>2, <3>3
  <2>3. CASE UploadNext
    <3>1. PICK v \in Uploads : \/ \E q \in Replicas, f \in Files : BeginUpload(v, q, f)
                             \/ UploadStep(v)
                             \/ PersistenceFails(v)
      BY <2>3 DEF UploadNext
    <3>2. \/ runs' = runs
          \/ /\ pc[v] \in {"idle", "creating", "inserting"}
             /\ \E x, o : runs' = [runs EXCEPT ![x][v] = o]
      BY <3>1 DEF UploadStep, BeginUpload, Reject, RecordRejection, CreateDataset, WriteBar,
             UploadRefused, InsertRefused, Inserting, UploadFails, RecordPersistence,
             FinishUpload, PersistenceFails
    <3> QED
      BY <2>2, <3>2
  <2>4. CASE ReplicaNext /\ \A q \in Replicas : ~Crash(q)
    BY <2>4 DEF ReplicaNext, ReplicaStep, Connect, CountDatasets, SeedDataset, SeedRefused,
                WriteBar, FinishSeeding, SeedingFails
  <2>5. CASE DatasetNext \/ InsertionNext \/ AnalysisNext
    BY <2>5 DEF DatasetNext, CreateEmptyDataset, DeleteDataset, InsertionNext, InsertionStep,
                BeginInsertion, FindForInsertion, WriteBar, EndInsertion, InsertionFails,
                AnalysisNext, AnalysisStep, BeginAnalysis, FindForAnalysis, QueryBars,
                AnalysisFails
  <2> QED
    BY <2>1, <2>3, <2>4, <2>5 DEF Next
<1> QED
  BY <1>1, Invariance, PTL DEF Spec, OutcomeIsFinal

(* An analysis that races an upload sees a part of it without gaps.        *)
THEOREM PartsWithoutGaps == Spec => []AnalysisHasNoGaps
<1>1. Spec => []GapsInv
  BY GapsInit, GapsStep, Invariance, PTL DEF Spec
<1>2. GapsInv => AnalysisHasNoGaps
  BY DEF GapsInv
<1> QED
  BY <1>1, <1>2, PTL

(* Replicas that start together leave the sample complete, if no fault     *)
(* strikes and no one posts into it.                                       *)
THEOREM SeedingCompletes == Spec => []SeededAfterQuietStart
<1>1. Spec => []SeedingInv
  BY SeedingInit, SeedingStep, Invariance, PTL DEF Spec
<1>2. SeedingInv => SeededAfterQuietStart
  BY DEF SeedingInv, SeededAfterQuietStart, Quiet, SampleStored, SampleBar, Unseeded, Leads,
         Inserting
<1> QED
  BY <1>1, <1>2, PTL
=============================================================================
