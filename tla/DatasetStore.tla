---------------------------- MODULE DatasetStore ----------------------------
(***************************************************************************)
(* What the two MongoDB collections promise the rest of the backend, as if *)
(* each change were one step of one client: a dataset is created once and  *)
(* its id is not used again, only the built-in sample may come back; a bar *)
(* is stored once for a dataset that has been created, and stays.          *)
(* DataPipeline implements it with several processes, non-atomic           *)
(* insertMany and crashes.                                                 *)
(***************************************************************************)
CONSTANTS
  Ids,       \* datasets there may be
  Sample,    \* the built-in sample
  Tickers,
  None,      \* no document
  Bars       \* the bars that may be stored, each with its dataset and its key

VARIABLES
  documents,   \* the ticker of each dataset, or None
  removed,     \* the datasets that were deleted
  bars         \* the stored bars

store == <<documents, removed, bars>>

Created(d) == documents[d] # None \/ d \in removed

Key(b) == <<b.dataset, b.symbol, b.timestamp>>

Init ==
  /\ documents = [d \in Ids |-> None]
  /\ removed = {} /\ bars = {}

Create(d, ticker) ==
  /\ documents[d] = None
  /\ d \in removed => d = Sample
  /\ documents' = [documents EXCEPT ![d] = ticker]
  /\ UNCHANGED <<removed, bars>>

\* Deleting a dataset leaves its bars.
Remove(d) ==
  /\ documents[d] # None
  /\ documents' = [documents EXCEPT ![d] = None]
  /\ removed' = removed \cup {d}
  /\ UNCHANGED bars

Store(b) ==
  /\ b \in Bars /\ Created(b.dataset)
  /\ \A other \in bars : Key(other) # Key(b)
  /\ bars' = bars \cup {b}
  /\ UNCHANGED <<documents, removed>>

Next ==
  \/ \E d \in Ids, ticker \in Tickers : Create(d, ticker)
  \/ \E d \in Ids : Remove(d)
  \/ \E b \in bars' \ bars : Store(b)

Spec == Init /\ [][Next]_store
=============================================================================
