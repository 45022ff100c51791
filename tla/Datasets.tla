------------------------------- MODULE Datasets -------------------------------
(***************************************************************************)
(* Datasets and their examples: datasets.py over two ClickHouse tables.    *)
(* An ALTER ... DELETE returns at once; ClickHouse removes the rows that   *)
(* were there when it was given, one part after another, some time later.  *)
(***************************************************************************)
EXTENDS Naturals, FiniteSets

CONSTANTS
  Dataset,    \* dataset ids
  Example,    \* example ids
  Adder,      \* requests that add examples
  MaxRows,    \* rows of the largest bulk import
  Gone        \* not a dataset

ASSUME DatasetConstants ==
  /\ Gone \notin Dataset \cup Example
  /\ Dataset \cap Example = {}
  /\ MaxRows \in Nat \ {0}

VARIABLES
  datasets,   \* rows of table datasets
  home,       \* home[e]: the dataset_id of row e of dataset_examples, or Gone
  used,       \* ids that have been given out
  doomed,     \* datasets and examples a DELETE has been given for
  removing,   \* datasets between the two commands of delete_dataset
  adder,      \* adder[k]: [pc, ds, left]: an import, its target, rows to go
  late        \* history: examples inserted while their dataset was leaving

datasetVars == <<datasets, home, used, doomed, removing, adder, late>>

(* The rows of list_examples. *)
ExamplesOf(d) == {e \in Example : home[e] = d}

Leaving(d) == d \in removing \cup doomed \/ d \notin datasets

DatasetInit ==
  /\ datasets = {}
  /\ home = [e \in Example |-> Gone]
  /\ used = {}
  /\ doomed = {}
  /\ removing = {}
  /\ adder = [k \in Adder |-> [pc |-> "idle", ds |-> Gone, left |-> 0]]
  /\ late = {}

CreateDataset(d) ==
  /\ d \notin used
  /\ used' = used \cup {d}
  /\ datasets' = datasets \cup {d}
  /\ UNCHANGED <<home, doomed, removing, adder, late>>

(***************************************************************************)
(* add_example, trace_to_example and import_examples_bulk: for each row,   *)
(* look the dataset up, then insert.  A row that fails ends a single       *)
(* request and is passed over in an import, which is the same for n = 1.   *)
(***************************************************************************)
AddRequest(k, d, n) ==
  /\ adder[k].pc = "idle"
  /\ d \in used
  /\ adder' = [adder EXCEPT ![k] = [pc |-> "check", ds |-> d, left |-> n]]
  /\ UNCHANGED <<datasets, home, used, doomed, removing, late>>

NextRow(k) ==
  adder' = [adder EXCEPT ![k] = IF @.left = 1
              THEN [pc |-> "idle", ds |-> Gone, left |-> 0]
              ELSE [pc |-> "check", ds |-> @.ds, left |-> @.left - 1]]

DatasetFound(k) == adder[k].ds \in datasets

AddCheck(k) ==
  /\ adder[k].pc = "check"
  /\ \/ DatasetFound(k) /\ adder' = [adder EXCEPT ![k].pc = "insert"]
     \/ ~DatasetFound(k) /\ NextRow(k)
  /\ UNCHANGED <<datasets, home, used, doomed, removing, late>>

AddInsert(k, e) ==
  /\ adder[k].pc = "insert"
  /\ e \notin used
  /\ used' = used \cup {e}
  /\ home' = [home EXCEPT ![e] = adder[k].ds]
  /\ late' = IF Leaving(adder[k].ds) THEN late \cup {e} ELSE late
  /\ NextRow(k)
  /\ UNCHANGED <<datasets, doomed, removing>>

(* The row cannot be inserted, or the process ends. *)
AddFails(k) ==
  /\ adder[k].pc # "idle"
  /\ \/ NextRow(k)
     \/ adder' = [adder EXCEPT ![k] = [pc |-> "idle", ds |-> Gone, left |-> 0]]
  /\ UNCHANGED <<datasets, home, used, doomed, removing, late>>

(***************************************************************************)
(* delete_dataset: look it up, DELETE its examples, DELETE it.  Between    *)
(* the commands the request may fail.                                      *)
(***************************************************************************)
RemoveExamples(d) ==
  /\ d \in datasets \ removing
  /\ doomed' = doomed \cup ExamplesOf(d)
  /\ removing' = removing \cup {d}
  /\ UNCHANGED <<datasets, home, used, adder, late>>

RemoveDataset(d) ==
  /\ d \in removing
  /\ doomed' = doomed \cup ({d} \cap datasets)
  /\ removing' = removing \ {d}
  /\ UNCHANGED <<datasets, home, used, adder, late>>

RemoveFails(d) ==
  /\ d \in removing
  /\ removing' = removing \ {d}
  /\ UNCHANGED <<datasets, home, used, doomed, adder, late>>

(* delete_example: the dataset and the row must be there. *)
DeleteExample(e) ==
  /\ home[e] \in datasets
  /\ doomed' = doomed \cup {e}
  /\ UNCHANGED <<datasets, home, used, removing, adder, late>>

(* ClickHouse gets to a row that a DELETE was given for. *)
MutateDatasets(x) ==
  /\ x \in doomed
  /\ doomed' = doomed \ {x}
  /\ datasets' = datasets \ {x}
  /\ home' = [e \in Example |-> IF e = x THEN Gone ELSE home[e]]
  /\ UNCHANGED <<used, removing, adder, late>>

DatasetNext ==
  \/ \E d \in Dataset : \/ CreateDataset(d) \/ RemoveExamples(d)
                        \/ RemoveDataset(d) \/ RemoveFails(d)
  \/ \E k \in Adder : \/ AddCheck(k) \/ AddFails(k)
                      \/ \E e \in Example : AddInsert(k, e)
                      \/ \E d \in Dataset, n \in 1..MaxRows : AddRequest(k, d, n)
  \/ \E e \in Example : DeleteExample(e)
  \/ \E x \in doomed : MutateDatasets(x)
=============================================================================
