---------------------------- MODULE BackendProofs ----------------------------
(***************************************************************************)
(* Proofs about the backend beside the traces.  First datasets, evaluation *)
(* runs, online rules and the CI gate, for any datasets, examples,         *)
(* evaluations, rules, tasks and scores; then the API keys, the rate limit *)
(* of the playground and the prompt versions, for any number of workers,   *)
(* requests and versions, any TTL, any limit and any window.               *)
(***************************************************************************)
EXTENDS EvaluationProps, ControlProps, SequenceTheorems, WellFoundedInduction, TLAPS

(***************************************************************************)
(* Datasets.  An example of a dataset that is leaving is itself given a    *)
(* DELETE for, or was inserted while the dataset was leaving.              *)
(***************************************************************************)
AdderType == [pc : {"idle", "check", "insert"}, ds : Dataset \cup {Gone}, left : Int]

DataTypes ==
  /\ datasets \subseteq Dataset
  /\ home \in [Example -> Dataset \cup {Gone}]
  /\ used \subseteq Dataset \cup Example
  /\ doomed \subseteq Dataset \cup Example
  /\ removing \subseteq Dataset
  /\ adder \in [Adder -> AdderType]

LeavingIsKnown ==
  \A e \in Example : home[e] # Gone /\ Leaving(home[e]) => e \in doomed \cup late

DataInv == DataTypes /\ LeavingIsKnown

LEMMA DataInitially == DatasetInit => DataInv
BY DatasetConstants DEF DatasetInit, DataInv, DataTypes, AdderType, LeavingIsKnown

LEMMA DataIdle == ASSUME DataInv, UNCHANGED datasetVars PROVE DataInv'
BY DEF DataInv, DataTypes, LeavingIsKnown, Leaving, datasetVars

LEMMA NextRowType ==
  ASSUME DataTypes, NEW k \in Adder, NextRow(k) PROVE adder' \in [Adder -> AdderType]
<1> DEFINE next == IF adder[k].left = 1 THEN [pc |-> "idle", ds |-> Gone, left |-> 0]
                   ELSE [pc |-> "check", ds |-> adder[k].ds, left |-> adder[k].left - 1]
<1>1. adder[k] \in AdderType
  BY DEF DataTypes
<1>2. next \in AdderType
  BY <1>1 DEF AdderType
<1>3. adder' = [adder EXCEPT ![k] = next]
  BY DEF NextRow
<1> QED
  BY <1>2, <1>3 DEF DataTypes

(* A step of the adders that writes no row. *)
LEMMA DataOfAdders ==
  ASSUME DataInv, UNCHANGED <<datasets, home, used, doomed, removing, late>>,
         adder' \in [Adder -> AdderType]
  PROVE  DataInv'
BY DEF DataInv, DataTypes, LeavingIsKnown, Leaving

LEMMA DataStep == DataInv /\ DatasetNext => DataInv'
<1> SUFFICES ASSUME DataInv, DatasetNext PROVE DataInv'
  OBVIOUS
<1> USE DatasetConstants DEF DataInv
<1>1. ASSUME NEW d \in Dataset, CreateDataset(d) PROVE DataInv'
  BY <1>1 DEF CreateDataset, DataTypes, LeavingIsKnown, Leaving
<1>2. ASSUME NEW d \in Dataset, RemoveExamples(d) PROVE DataInv'
  BY <1>2 DEF RemoveExamples, DataTypes, LeavingIsKnown, Leaving, ExamplesOf
<1>3. ASSUME NEW d \in Dataset, RemoveDataset(d) \/ RemoveFails(d) PROVE DataInv'
  BY <1>3 DEF RemoveDataset, RemoveFails, DataTypes, LeavingIsKnown, Leaving
<1>4. ASSUME NEW k \in Adder, NEW d \in Dataset, NEW n \in 1..MaxRows, AddRequest(k, d, n)
      PROVE  DataInv'
  <2>1. adder' \in [Adder -> AdderType]
    BY <1>4 DEF AddRequest, DataTypes, AdderType
  <2> QED
    BY <1>4, <2>1, DataOfAdders DEF AddRequest
<1>5. ASSUME NEW k \in Adder, AddCheck(k) \/ AddFails(k) PROVE DataInv'
  <2>1. CASE NextRow(k)
    BY <2>1, <1>5, NextRowType, DataOfAdders DEF AddCheck, AddFails
  <2>2. CASE ~NextRow(k)
    <3>1. [adder[k] EXCEPT !.pc = "insert"] \in AdderType
      BY DEF DataTypes, AdderType
    <3>2. adder' \in [Adder -> AdderType]
      BY <1>5, <2>2, <3>1 DEF AddCheck, AddFails, DataTypes, AdderType
    <3> QED
      BY <1>5, <3>2, DataOfAdders DEF AddCheck, AddFails
  <2> QED
    BY <2>1, <2>2
<1>6. ASSUME NEW k \in Adder, NEW e \in Example, AddInsert(k, e) PROVE DataInv'
  <2>1. adder' \in [Adder -> AdderType]
    BY <1>6, NextRowType DEF AddInsert
  <2>2. /\ home' = [home EXCEPT ![e] = adder[k].ds]
        /\ late' = IF Leaving(adder[k].ds) THEN late \cup {e} ELSE late
        /\ used' = used \cup {e}
        /\ UNCHANGED <<datasets, doomed, removing>>
    BY <1>6 DEF AddInsert
  <2>3. DataTypes'
    BY <2>1, <2>2 DEF DataTypes, AdderType
  <2>4. LeavingIsKnown'
    BY <2>2 DEF DataTypes, LeavingIsKnown, Leaving
  <2> QED
    BY <2>3, <2>4
<1>7. ASSUME NEW e \in Example, DeleteExample(e) PROVE DataInv'
  BY <1>7 DEF DeleteExample, DataTypes, LeavingIsKnown, Leaving
<1>8. ASSUME NEW x \in doomed, MutateDatasets(x) PROVE DataInv'
  BY <1>8 DEF MutateDatasets, DataTypes, LeavingIsKnown, Leaving
<1> QED
  BY <1>1, <1>2, <1>3, <1>4, <1>5, <1>6, <1>7, <1>8 DEF DatasetNext

(***************************************************************************)
(* Evaluations.  EvalOk(v) relates the row of v, the updates that          *)
(* ClickHouse has still to carry out, the request that runs v and its      *)
(* results: a completion that is only submitted counts like one that is    *)
(* done, or CompletedIsFull would not be inductive.                        *)
(***************************************************************************)
Update == {"running", "completed", "failed", "deleted"}
EvalType == [ds : Dataset \cup {Gone}, mode : {Gone, "replay", "live", "online"}, status : Status]
RunType == [pc : {"idle", "list", "start", "score", "answer", "ended"},
            listed : SUBSET Example, todo : SUBSET Example, code : {0, 201, 404, 422, 500}]

EvalTypes ==
  /\ evals \in [Eval -> EvalType]
  /\ updates \in [Eval -> Seq(Update)]
  /\ run \in [Eval -> RunType]
  /\ results \subseteq ResultRow /\ purged \subseteq results
  /\ cleared \subseteq Eval /\ deleting \subseteq cleared

NoUpdates(v) == evals[v].status \in {"none", "deleted"} => updates[v] = <<>>
RunHasRow(v) == run[v].pc # "idle" => evals[v].status # "none" /\ evals[v].mode # "online"
NotCompletedYet(v) ==
  run[v].pc \in {"idle", "list", "start", "score"} =>
    evals[v].status # "completed" /\ ~Pending(v, "completed")
SomeListed(v) ==
  /\ run[v].pc \in {"idle", "list"} => run[v].listed = {}
  /\ run[v].pc \in {"start", "score", "answer"} => run[v].listed # {}
ScoredSoFar(v) ==
  run[v].pc \in {"start", "score"} /\ v \notin cleared =>
    \A e \in run[v].listed \ run[v].todo : \E r \in ResultsOf(v) : r.example = e
FullIfCompleted(v) ==
  (evals[v].status = "completed" \/ Pending(v, "completed")) /\ v \notin cleared =>
    run[v].listed # {} /\ Full(v)
Answered(v) ==
  run[v].pc = "answer" \/ (run[v].pc = "ended" /\ run[v].code = 201) =>
    Final(v) \in {"completed", "deleted"}
Refused(v) ==
  run[v].pc = "list" \/ (run[v].pc = "ended" /\ run[v].code \in {404, 422}) =>
    Final(v) \in {"pending", "deleted"} /\ ResultsOf(v) = {}
DeletedIsCleared(v) == evals[v].status = "deleted" \/ Pending(v, "deleted") => v \in cleared

EvalOk(v) ==
  /\ NoUpdates(v) /\ RunHasRow(v) /\ NotCompletedYet(v) /\ SomeListed(v) /\ ScoredSoFar(v)
  /\ FullIfCompleted(v) /\ Answered(v) /\ Refused(v) /\ DeletedIsCleared(v)

(* A result row belongs to an evaluation; of one that was cleared, it has  *)
(* been given a DELETE for or came late.                                   *)
ResultsOk ==
  /\ \A r \in results : evals[r.eval].status # "none"
  /\ \A r \in purged : r.eval \in cleared
  /\ \A r \in results : r.eval \in cleared => r \in purged \/ r.late

EvalInv == EvalTypes /\ ResultsOk /\ \A v \in Eval : EvalOk(v)

LEMMA EvalInitially == Init => EvalInv
<1> SUFFICES ASSUME Init PROVE EvalInv
  OBVIOUS
<1> USE DEF Init
<1>1. evals \in [Eval -> EvalType]
  BY DEF EvalType, Status
<1>2. updates \in [Eval -> Seq(Update)]
  BY EmptySeq
<1>3. run \in [Eval -> RunType]
  BY DEF RunType
<1>4. EvalTypes
  BY <1>1, <1>2, <1>3 DEF EvalTypes
<1>5. ResultsOk
  BY DEF ResultsOk
<1>6. ASSUME NEW v \in Eval PROVE EvalOk(v)
  <2>1. /\ evals[v].status = "none" /\ updates[v] = <<>>
        /\ run[v].pc = "idle"
    OBVIOUS
  <2>2. \A s : ~Pending(v, s)
    BY <2>1 DEF Pending
  <2> QED
    BY <2>1, <2>2 DEF EvalOk, NoUpdates, RunHasRow, NotCompletedYet, SomeListed, ScoredSoFar,
                      FullIfCompleted, Answered, Refused, DeletedIsCleared
<1> QED
  BY <1>4, <1>5, <1>6 DEF EvalInv

(* An evaluation that a step leaves alone. *)
Alone(u) ==
  /\ evals'[u] = evals[u] /\ updates'[u] = updates[u] /\ run'[u] = run[u]
  /\ ResultsOf(u)' = ResultsOf(u)
  /\ u \in cleared' <=> u \in cleared

LEMMA AloneOk == ASSUME NEW u \in Eval, EvalOk(u), Alone(u) PROVE EvalOk(u)'
BY DEF Alone, EvalOk, NoUpdates, RunHasRow, NotCompletedYet, SomeListed, ScoredSoFar,
       FullIfCompleted, Answered, Refused, DeletedIsCleared, Pending, Full, Final

(* ALTER TABLE evaluations appends to the updates of a row that is there.  *)
LEMMA Submission ==
  ASSUME EvalTypes, NEW v \in Eval, NoUpdates(v), NEW q \in Seq(Update), Len(q) > 0,
         SubmitAll(v, q), evals' = evals
  PROVE  /\ updates' \in [Eval -> Seq(Update)]
         /\ \A u \in Eval \ {v} : updates'[u] = updates[u]
         /\ NoUpdates(v)'
         /\ \A x : Pending(v, x)' => Pending(v, x) \/ \E i \in DOMAIN q : q[i] = x
         /\ Row(v) => Final(v)' = q[Len(q)]
         /\ ~Row(v) => Final(v)' = Final(v) /\ updates' = updates
<1> DEFINE w == updates[v] \o q
<1>1. updates[v] \in Seq(Update)
  BY DEF EvalTypes
<1>2. CASE Row(v)
  <2>1. updates' = [updates EXCEPT ![v] = w]
    BY <1>2 DEF SubmitAll
  <2>2. w \in Seq(Update)
    BY <1>1, ConcatProperties
  <2>3. updates'[v] = w /\ \A u \in Eval \ {v} : updates'[u] = updates[u]
    BY <2>1 DEF EvalTypes
  <2>4. /\ Len(w) = Len(updates[v]) + Len(q)
        /\ \A i \in 1..Len(w) : w[i] = IF i <= Len(updates[v]) THEN updates[v][i]
                                       ELSE q[i - Len(updates[v])]
    BY <1>1, ConcatProperties
  <2>5. Len(updates[v]) \in Nat /\ Len(q) \in Nat /\ DOMAIN w = 1..Len(w)
        /\ DOMAIN updates[v] = 1..Len(updates[v]) /\ DOMAIN q = 1..Len(q)
    BY <1>1, <2>2, LenProperties
  <2>6. w # <<>> /\ w[Len(w)] = q[Len(q)]
    BY <2>4, <2>5
  <2>7. ASSUME NEW x, NEW i \in DOMAIN w, w[i] = x
        PROVE  Pending(v, x) \/ \E j \in DOMAIN q : q[j] = x
    <3>1. CASE i <= Len(updates[v])
      BY <2>4, <2>5, <2>7, <3>1 DEF Pending
    <3>2. CASE i > Len(updates[v])
      <4>1. i - Len(updates[v]) \in DOMAIN q /\ q[i - Len(updates[v])] = x
        BY <2>4, <2>5, <2>7, <3>2
      <4> QED
        BY <4>1
    <3> QED
      BY <2>5, <3>1, <3>2
  <2> HIDE DEF w
  <2>8. updates' \in [Eval -> Seq(Update)]
    BY <2>1, <2>2 DEF EvalTypes
  <2>9. \A x : Pending(v, x)' => Pending(v, x) \/ \E i \in DOMAIN q : q[i] = x
    BY <2>3, <2>7 DEF Pending
  <2>10. NoUpdates(v)' /\ Final(v)' = q[Len(q)]
    BY <1>2, <2>3, <2>6 DEF Final, NoUpdates, Row
  <2> QED
    BY <1>2, <2>3, <2>8, <2>9, <2>10
<1>3. CASE ~Row(v)
  <2>1. updates' = updates
    BY <1>3 DEF SubmitAll
  <2> QED
    BY <1>3, <2>1 DEF EvalTypes, Pending, Final, NoUpdates
<1> QED
  BY <1>2, <1>3

LEMMA OneSubmitted ==
  ASSUME EvalTypes, NEW v \in Eval, NoUpdates(v), NEW x \in Update, SubmitAll(v, <<x>>), evals' = evals
  PROVE  /\ updates' \in [Eval -> Seq(Update)]
         /\ \A u \in Eval \ {v} : updates'[u] = updates[u]
         /\ NoUpdates(v)'
         /\ \A y : Pending(v, y)' => Pending(v, y) \/ y = x
         /\ Row(v) => Final(v)' = x
         /\ ~Row(v) => Final(v)' = Final(v)
<1>1. PICK q \in Seq(Update) : q = <<x>>
  <2>1. <<x>> \in Seq(Update)
    OBVIOUS
  <2> QED
    BY <2>1, Zenon
<1>2. Len(q) = 1 /\ q[1] = x /\ DOMAIN q = {1}
  BY <1>1
<1>3. SubmitAll(v, q)
  BY <1>1
<1>4. Len(q) > 0
  BY <1>2
<1> QED
  BY <1>2, <1>3, <1>4, Submission

LEMMA TwoSubmitted ==
  ASSUME EvalTypes, NEW v \in Eval, NoUpdates(v), NEW x \in Update, NEW y \in Update,
         SubmitAll(v, <<x, y>>), evals' = evals
  PROVE  /\ updates' \in [Eval -> Seq(Update)]
         /\ \A u \in Eval \ {v} : updates'[u] = updates[u]
         /\ NoUpdates(v)'
         /\ \A z : Pending(v, z)' => Pending(v, z) \/ z = x \/ z = y
<1>1. PICK q \in Seq(Update) : q = <<x, y>>
  <2>1. <<x, y>> \in Seq(Update)
    OBVIOUS
  <2> QED
    BY <2>1, Zenon
<1>2. Len(q) > 0 /\ \A i \in DOMAIN q : q[i] = x \/ q[i] = y
  BY <1>1
<1>3. SubmitAll(v, q)
  BY <1>1
<1> QED
  BY <1>2, <1>3, Submission

(* INSERT INTO evaluation_results. *)
LEMMA Insertion ==
  ASSUME EvalInv, NEW v \in Eval, evals[v].status # "none", NEW e \in Example, NEW s \in 0..2,
         Insert(v, e, s), UNCHANGED <<evals, purged, cleared>>
  PROVE  /\ results' \subseteq ResultRow /\ purged' \subseteq results' /\ ResultsOk'
         /\ \A u \in Eval \ {v} : ResultsOf(u)' = ResultsOf(u)
         /\ ResultsOf(v) \subseteq ResultsOf(v)'
         /\ \E r \in ResultsOf(v)' : r.example = e
<1> DEFINE new == [eval |-> v, example |-> e, score |-> s, late |-> v \in cleared]
<1>1. results' = results \cup {new}
  BY DEF Insert
<1>2. new \in ResultRow
  BY DEF ResultRow
<1>3. new.eval = v /\ new.example = e /\ (new.late <=> v \in cleared)
  OBVIOUS
<1> HIDE DEF new
<1>4. results' \subseteq ResultRow /\ purged' \subseteq results'
  BY <1>1, <1>2 DEF EvalInv, EvalTypes
<1>5. ResultsOk'
  BY <1>1, <1>3 DEF EvalInv, ResultsOk
<1>6. /\ \A u \in Eval \ {v} : ResultsOf(u)' = ResultsOf(u)
      /\ ResultsOf(v)' = ResultsOf(v) \cup {new}
  BY <1>1, <1>3 DEF ResultsOf
<1> QED
  BY <1>3, <1>4, <1>5, <1>6

(* More results of v than before. *)
LEMMA GrownResults ==
  ASSUME EvalInv, NEW v \in Eval, ResultsOf(v) \subseteq ResultsOf(v)',
         UNCHANGED <<evals, updates, run, cleared>>,
         run[v].pc = "list" \/ (run[v].pc = "ended" /\ run[v].code \in {404, 422}) =>
           ResultsOf(v)' = ResultsOf(v)
  PROVE  EvalOk(v)'
<1>1. EvalOk(v)
  BY DEF EvalInv
<1>2. (Full(v) => Full(v)') /\ (ScoredSoFar(v) => ScoredSoFar(v)')
  BY DEF Full, ScoredSoFar
<1> QED
  BY <1>1, <1>2 DEF EvalOk, NoUpdates, RunHasRow, NotCompletedYet, SomeListed, FullIfCompleted,
                    Answered, Refused, DeletedIsCleared, Pending, Final

LEMMA StepOf ==
  ASSUME EvalInv, NEW v \in Eval, EvalTypes', ResultsOk', EvalOk(v)', \A u \in Eval \ {v} : Alone(u)
  PROVE  EvalInv'
BY AloneOk DEF EvalInv

LEMMA Ending ==
  ASSUME EvalTypes, NEW v \in Eval, NEW code \in {0, 201, 404, 422, 500}, End(v, code)
  PROVE  /\ run' \in [Eval -> RunType]
         /\ \A u \in Eval \ {v} : run'[u] = run[u]
         /\ run'[v].pc = "ended" /\ run'[v].code = code /\ run'[v].listed = run[v].listed
<1> DEFINE new == [pc |-> "ended", listed |-> run[v].listed, todo |-> run[v].todo, code |-> code]
<1>1. run[v] \in RunType
  BY DEF EvalTypes
<1>2. new \in RunType
  BY <1>1 DEF RunType
<1>3. new.pc = "ended" /\ new.code = code /\ new.listed = run[v].listed
  BY <1>1 DEF RunType
<1>4. run' = [run EXCEPT ![v] = new]
  BY DEF End
<1> HIDE DEF new
<1> QED
  BY <1>2, <1>3, <1>4 DEF EvalTypes

LEMMA Moving ==
  ASSUME EvalTypes, NEW v \in Eval, NEW x \in {"list", "score", "answer"},
         run' = [run EXCEPT ![v].pc = x]
  PROVE  /\ run' \in [Eval -> RunType]
         /\ \A u \in Eval \ {v} : run'[u] = run[u]
         /\ run'[v].pc = x /\ run'[v].listed = run[v].listed /\ run'[v].todo = run[v].todo
<1> DEFINE new == [run[v] EXCEPT !.pc = x]
<1>1. run[v] \in RunType
  BY DEF EvalTypes
<1>2. /\ new \in RunType /\ new.pc = x /\ new.listed = run[v].listed /\ new.todo = run[v].todo
  BY <1>1 DEF RunType
<1>3. run' = [run EXCEPT ![v] = new]
  OBVIOUS
<1> HIDE DEF new
<1> QED
  BY <1>2, <1>3 DEF EvalTypes

LEMMA RowCreated ==
  ASSUME EvalInv, NEW v \in Eval, NEW d \in Dataset, NEW m \in {"replay", "live", "online"},
         NewRow(v, d, m)
  PROVE  /\ evals' \in [Eval -> EvalType]
         /\ \A u \in Eval \ {v} : evals'[u] = evals[u]
         /\ evals'[v].status = "pending" /\ evals'[v].mode = m /\ evals'[v].ds = d
         /\ evals[v].status = "none" /\ run[v].pc = "idle" /\ run[v].listed = {}
         /\ updates[v] = <<>> /\ ResultsOf(v) = {}
<1>1. evals' \in [Eval -> EvalType]
  BY DEF NewRow, EvalInv, EvalTypes, EvalType, Status
<1>2. evals[v].status = "none" /\ run[v].pc = "idle" /\ run[v].listed = {} /\ updates[v] = <<>>
  BY DEF NewRow, EvalInv, EvalOk, NoUpdates, RunHasRow, SomeListed, EvalTypes, RunType
<1>3. ResultsOf(v) = {}
  BY <1>2 DEF EvalInv, ResultsOk, ResultsOf
<1>4. /\ \A u \in Eval \ {v} : evals'[u] = evals[u]
      /\ evals'[v].status = "pending" /\ evals'[v].mode = m /\ evals'[v].ds = d
  BY DEF NewRow, EvalInv, EvalTypes
<1> QED
  BY <1>1, <1>2, <1>3, <1>4

(* A new row is in order, with a request that is to list its examples or   *)
(* with none.                                                              *)
LEMMA NewRowOk ==
  ASSUME EvalInv, NEW v \in Eval, NEW d \in Dataset, NEW m \in {"replay", "live", "online"},
         NewRow(v, d, m), run' \in [Eval -> RunType],
         \A u \in Eval \ {v} : run'[u] = run[u],
         \/ run'[v].pc = "list" /\ m # "online"
         \/ run'[v].pc = "idle",
         run'[v].listed = run[v].listed,
         UNCHANGED <<updates, results, purged, deleting, cleared>>
  PROVE  EvalInv'
<1>1. EvalTypes'
  BY RowCreated DEF EvalInv, EvalTypes
<1>2. ResultsOk'
  <2>1. \A r \in results : r.eval \in Eval
    BY DEF EvalInv, EvalTypes, ResultRow
  <2>2. \A u \in Eval : evals[u].status # "none" => evals'[u].status # "none"
    BY RowCreated
  <2> QED
    BY <2>1, <2>2 DEF EvalInv, ResultsOk
<1>3. EvalOk(v)'
  <2>1. \A x : ~Pending(v, x)'
    BY RowCreated DEF Pending
  <2>2. Final(v)' = "pending" /\ ResultsOf(v)' = {}
    BY RowCreated DEF Final, ResultsOf
  <2> QED
    BY <2>1, <2>2, RowCreated
       DEF EvalOk, NoUpdates, RunHasRow, NotCompletedYet, SomeListed, ScoredSoFar,
           FullIfCompleted, Answered, Refused, DeletedIsCleared
<1>4. \A u \in Eval \ {v} : Alone(u)
  BY RowCreated DEF Alone, ResultsOf
<1> QED
  BY <1>1, <1>2, <1>3, <1>4, StepOf

LEMMA EvalCreated ==
  ASSUME EvalInv, NEW v \in Eval, NEW d \in Dataset,
         NEW m \in {"replay", "live"}, NEW sdk \in BOOLEAN, Create(v, d, m, sdk)
  PROVE  EvalInv'
<1>1. NewRow(v, d, m) /\ run' = [run EXCEPT ![v].pc = "list"]
      /\ UNCHANGED <<updates, results, purged, deleting, cleared>>
  BY DEF Create
<1>2. /\ run' \in [Eval -> RunType] /\ run'[v].pc = "list" /\ run'[v].listed = run[v].listed
      /\ \A u \in Eval \ {v} : run'[u] = run[u]
  BY <1>1, Moving DEF EvalInv
<1> QED
  BY <1>1, <1>2, NewRowOk

(* A step of the request that runs v, which leaves the rows alone. *)
LEMMA RunStep ==
  ASSUME EvalInv, NEW v \in Eval, run' \in [Eval -> RunType],
         \A u \in Eval \ {v} : run'[u] = run[u],
         UNCHANGED <<evals, updates, results, purged, deleting, cleared>>, EvalOk(v)'
  PROVE  EvalInv'
<1>1. EvalTypes' /\ ResultsOk'
  BY DEF EvalInv, EvalTypes, ResultsOk
<1>2. \A u \in Eval \ {v} : Alone(u)
  BY DEF Alone, ResultsOf
<1> QED
  BY <1>1, <1>2, StepOf

LEMMA EvalListed ==
  ASSUME EvalInv, NEW v \in Eval, ListExamples(v) PROVE EvalInv'
<1> DEFINE E == ExamplesOf(evals[v].ds)
<1>1. /\ UNCHANGED <<evals, updates, results, purged, deleting, cleared>>
      /\ run[v].pc = "list" /\ EvalOk(v)
  BY DEF ListExamples, OnlyRun, EvalInv
<1>2. CASE End(v, 404) \/ End(v, 422)
  <2>1. /\ run' \in [Eval -> RunType] /\ \A u \in Eval \ {v} : run'[u] = run[u]
        /\ run'[v].pc = "ended" /\ run'[v].code \in {404, 422}
        /\ run'[v].listed = run[v].listed
    BY <1>2, Ending DEF EvalInv
  <2>2. EvalOk(v)'
    BY <1>1, <2>1 DEF EvalOk, NoUpdates, RunHasRow, NotCompletedYet, SomeListed, ScoredSoFar,
       FullIfCompleted, Answered, Refused, DeletedIsCleared, Pending, Full, Final, ResultsOf
  <2> QED
    BY <1>1, <2>1, <2>2, RunStep
<1>3. CASE E # {} /\ run' = [run EXCEPT ![v] = [pc |-> "start", listed |-> E, todo |-> E, code |-> 0]]
  <2>1. E \subseteq Example
    BY DEF ExamplesOf
  <2>2. /\ run' \in [Eval -> RunType] /\ \A u \in Eval \ {v} : run'[u] = run[u]
        /\ run'[v].pc = "start" /\ run'[v].listed = E /\ run'[v].todo = E
    BY <1>3, <2>1 DEF EvalInv, EvalTypes, RunType
  <2> HIDE DEF E
  <2>3. EvalOk(v)'
    BY <1>1, <1>3, <2>2 DEF EvalOk, NoUpdates, RunHasRow, NotCompletedYet, SomeListed, ScoredSoFar,
       FullIfCompleted, Answered, Refused, DeletedIsCleared, Pending, Full, Final, ResultsOf
  <2> QED
    BY <1>1, <2>2, <2>3, RunStep
<1> QED
  BY <1>2, <1>3 DEF ListExamples

LEMMA EvalEnded ==
  ASSUME EvalInv, NEW v \in Eval, AnswerRun(v) \/ CutRun(v), UNCHANGED updates PROVE EvalInv'
<1>1. /\ UNCHANGED <<evals, updates, results, purged, deleting, cleared>>
      /\ EvalOk(v) /\ run[v].pc \in {"list", "start", "score", "answer"}
      /\ End(v, 0) \/ End(v, 500) \/ (run[v].pc = "answer" /\ End(v, 201))
  BY DEF AnswerRun, CutRun, OnlyRun, EvalInv
<1>2. /\ run' \in [Eval -> RunType] /\ \A u \in Eval \ {v} : run'[u] = run[u]
      /\ run'[v].pc = "ended" /\ run'[v].listed = run[v].listed
      /\ run'[v].code \in {0, 500} \/ (run[v].pc = "answer" /\ run'[v].code = 201)
  BY <1>1, Ending DEF EvalInv
<1>3. EvalOk(v)'
  BY <1>1, <1>2 DEF EvalOk, NoUpdates, RunHasRow, NotCompletedYet, SomeListed, ScoredSoFar,
     FullIfCompleted, Answered, Refused, DeletedIsCleared, Pending, Full, Final, ResultsOf
<1> QED
  BY <1>1, <1>2, <1>3, RunStep

(* The first update raises, and ClickHouse has taken it. *)
LEMMA EvalCutAtStart ==
  ASSUME EvalInv, NEW v \in Eval, CutRun(v), run[v].pc = "start", End(v, 500), Submit(v, "running")
  PROVE  EvalInv'
<1>1. /\ UNCHANGED <<evals, results, purged, deleting, cleared>>
      /\ EvalOk(v) /\ EvalTypes /\ SubmitAll(v, <<"running">>)
  BY DEF CutRun, OnlyRun, Submit, EvalInv
<1>2. /\ run' \in [Eval -> RunType] /\ \A u \in Eval \ {v} : run'[u] = run[u]
      /\ run'[v].pc = "ended" /\ run'[v].code = 500 /\ run'[v].listed = run[v].listed
  BY <1>1, Ending
<1>3. /\ updates' \in [Eval -> Seq(Update)] /\ \A u \in Eval \ {v} : updates'[u] = updates[u]
      /\ NoUpdates(v)' /\ \A x : Pending(v, x)' => Pending(v, x) \/ x = "running"
  BY <1>1, OneSubmitted DEF EvalOk, Update
<1>4. EvalTypes' /\ ResultsOk' /\ \A u \in Eval \ {v} : Alone(u)
  BY <1>1, <1>2, <1>3 DEF EvalInv, EvalTypes, ResultsOk, Alone, ResultsOf
<1>5. EvalOk(v)'
  BY <1>1, <1>2, <1>3 DEF EvalOk, RunHasRow, NotCompletedYet, SomeListed, ScoredSoFar,
     FullIfCompleted, Answered, Refused, DeletedIsCleared, Full, ResultsOf
<1> QED
  BY <1>4, <1>5, StepOf


LEMMA EvalStarted ==
  ASSUME EvalInv, NEW v \in Eval, StartRun(v) PROVE EvalInv'
<1>1. /\ UNCHANGED <<evals, results, purged, deleting, cleared>>
      /\ run[v].pc = "start" /\ EvalOk(v) /\ EvalTypes
      /\ SubmitAll(v, <<"running">>) /\ run' = [run EXCEPT ![v].pc = "score"]
  BY DEF StartRun, OnlyRun, Submit, EvalInv
<1>2. /\ run' \in [Eval -> RunType] /\ \A u \in Eval \ {v} : run'[u] = run[u]
      /\ run'[v].pc = "score" /\ run'[v].listed = run[v].listed /\ run'[v].todo = run[v].todo
  BY <1>1, Moving
<1>3. /\ updates' \in [Eval -> Seq(Update)] /\ \A u \in Eval \ {v} : updates'[u] = updates[u]
      /\ NoUpdates(v)' /\ \A x : Pending(v, x)' => Pending(v, x) \/ x = "running"
  BY <1>1, OneSubmitted DEF EvalOk, Update
<1>4. EvalTypes' /\ ResultsOk' /\ \A u \in Eval \ {v} : Alone(u)
  BY <1>1, <1>2, <1>3 DEF EvalInv, EvalTypes, ResultsOk, Alone, ResultsOf
<1>5. EvalOk(v)'
  BY <1>1, <1>2, <1>3 DEF EvalOk, RunHasRow, NotCompletedYet, SomeListed, ScoredSoFar,
     FullIfCompleted, Answered, Refused, DeletedIsCleared, Full, ResultsOf
<1> QED
  BY <1>4, <1>5, StepOf

LEMMA EvalScored ==
  ASSUME EvalInv, NEW v \in Eval, NEW e \in Example, NEW s \in 0..2, ScoreExample(v, e, s)
  PROVE  EvalInv'
<1>1. /\ UNCHANGED <<evals, updates, purged, deleting, cleared>>
      /\ run[v].pc = "score" /\ EvalOk(v) /\ EvalTypes
      /\ Insert(v, e, s) /\ run' = [run EXCEPT ![v].todo = @ \ {e}]
  BY DEF ScoreExample, OnlyRun, EvalInv
<1>2. evals[v].status # "none"
  BY <1>1 DEF EvalOk, RunHasRow
<1>3. /\ run' \in [Eval -> RunType] /\ \A u \in Eval \ {v} : run'[u] = run[u]
      /\ run'[v].pc = "score" /\ run'[v].listed = run[v].listed /\ run'[v].todo = run[v].todo \ {e}
  <2> DEFINE new == [run[v] EXCEPT !.todo = run[v].todo \ {e}]
  <2>1. run[v] \in RunType
    BY <1>1 DEF EvalTypes
  <2>2. new \in RunType /\ new.pc = run[v].pc /\ new.listed = run[v].listed /\ new.todo = run[v].todo \ {e}
    BY <2>1 DEF RunType
  <2>3. run' = [run EXCEPT ![v] = new]
    BY <1>1
  <2> HIDE DEF new
  <2> QED
    BY <1>1, <2>2, <2>3 DEF EvalTypes
<1>4. /\ results' \subseteq ResultRow /\ purged' \subseteq results' /\ ResultsOk'
      /\ \A u \in Eval \ {v} : ResultsOf(u)' = ResultsOf(u)
      /\ ResultsOf(v) \subseteq ResultsOf(v)'
      /\ \E r \in ResultsOf(v)' : r.example = e
  BY <1>1, <1>2, Insertion
<1>5. EvalTypes' /\ \A u \in Eval \ {v} : Alone(u)
  BY <1>1, <1>3, <1>4 DEF EvalTypes, Alone
<1>6. ScoredSoFar(v)'
  BY <1>1, <1>3, <1>4 DEF EvalOk, ScoredSoFar
<1>7. EvalOk(v)'
  BY <1>1, <1>3, <1>6 DEF EvalOk, NoUpdates, RunHasRow, NotCompletedYet, SomeListed,
     FullIfCompleted, Answered, Refused, DeletedIsCleared, Pending
<1> QED
  BY <1>4, <1>5, <1>7, StepOf

(* When all is scored and the results are still there, they are full. *)
LEMMA ScoredIsFull ==
  ASSUME NEW v \in Eval, EvalOk(v), run[v].pc = "score", AllScored(v)
  PROVE  run[v].listed # {} /\ (v \notin cleared => Full(v))
BY DEF EvalOk, SomeListed, ScoredSoFar, AllScored, Full

LEMMA EvalCompleted ==
  ASSUME EvalInv, NEW v \in Eval, CompleteRun(v) PROVE EvalInv'
<1>1. /\ UNCHANGED <<evals, results, purged, deleting, cleared>>
      /\ run[v].pc = "score" /\ AllScored(v) /\ EvalOk(v) /\ EvalTypes
      /\ SubmitAll(v, <<"completed">>) /\ run' = [run EXCEPT ![v].pc = "answer"]
  BY DEF CompleteRun, OnlyRun, Completion, EvalInv
<1>2. /\ run' \in [Eval -> RunType] /\ \A u \in Eval \ {v} : run'[u] = run[u]
      /\ run'[v].pc = "answer" /\ run'[v].listed = run[v].listed
  BY <1>1, Moving
<1>3. /\ updates' \in [Eval -> Seq(Update)] /\ \A u \in Eval \ {v} : updates'[u] = updates[u]
      /\ NoUpdates(v)' /\ \A x : Pending(v, x)' => Pending(v, x) \/ x = "completed"
      /\ Row(v) => Final(v)' = "completed"
      /\ ~Row(v) => Final(v)' = Final(v)
  BY <1>1, OneSubmitted DEF EvalOk, Update
<1>4. EvalTypes' /\ ResultsOk' /\ \A u \in Eval \ {v} : Alone(u)
  BY <1>1, <1>2, <1>3 DEF EvalInv, EvalTypes, ResultsOk, Alone, ResultsOf
<1>5. Final(v)' \in {"completed", "deleted"}
  BY <1>1, <1>3 DEF EvalOk, RunHasRow, NoUpdates, Row, Final
<1>6. FullIfCompleted(v)'
  BY <1>1, <1>2, ScoredIsFull DEF FullIfCompleted, Full, ResultsOf
<1>7. EvalOk(v)'
  BY <1>1, <1>2, <1>3, <1>5, <1>6 DEF EvalOk, RunHasRow, NotCompletedYet, SomeListed, ScoredSoFar,
     Answered, Refused, DeletedIsCleared
<1> QED
  BY <1>4, <1>7, StepOf

LEMMA EvalFailed ==
  ASSUME EvalInv, NEW v \in Eval, RunFails(v) PROVE EvalInv'
<1>1. /\ UNCHANGED <<evals, results, purged, deleting, cleared>>
      /\ run[v].pc = "score" /\ EvalOk(v) /\ EvalTypes /\ End(v, 500)
  BY DEF RunFails, OnlyRun, EvalInv
<1>2. /\ run' \in [Eval -> RunType] /\ \A u \in Eval \ {v} : run'[u] = run[u]
      /\ run'[v].pc = "ended" /\ run'[v].code = 500 /\ run'[v].listed = run[v].listed
  BY <1>1, Ending
<1>3. /\ updates' \in [Eval -> Seq(Update)] /\ \A u \in Eval \ {v} : updates'[u] = updates[u]
      /\ NoUpdates(v)'
      /\ \A x : Pending(v, x)' => \/ Pending(v, x) \/ x = "failed"
                                  \/ x = "completed" /\ AllScored(v)
  <2>1. CASE UNCHANGED updates
    BY <1>1, <2>1 DEF EvalTypes, EvalOk, NoUpdates, Pending
  <2>2. CASE Submit(v, "failed")
    BY <1>1, <2>2, OneSubmitted DEF EvalOk, Update, Submit
  <2>3. CASE AllScored(v) /\ Submit(v, "completed")
    BY <1>1, <2>3, OneSubmitted DEF EvalOk, Update, Submit
  <2>4. CASE AllScored(v) /\ SubmitAll(v, <<"completed", "failed">>)
    BY <1>1, <2>4, TwoSubmitted DEF EvalOk, Update
  <2> QED
    BY <2>1, <2>2, <2>3, <2>4 DEF RunFails
<1>4. EvalTypes' /\ ResultsOk' /\ \A u \in Eval \ {v} : Alone(u)
  BY <1>1, <1>2, <1>3 DEF EvalInv, EvalTypes, ResultsOk, Alone, ResultsOf
<1>5. FullIfCompleted(v)'
  BY <1>1, <1>2, <1>3, ScoredIsFull DEF EvalOk, NotCompletedYet, FullIfCompleted, Full, ResultsOf
<1>6. EvalOk(v)'
  BY <1>1, <1>2, <1>3, <1>5 DEF EvalOk, RunHasRow, NotCompletedYet, SomeListed, ScoredSoFar,
     Answered, Refused, DeletedIsCleared
<1> QED
  BY <1>4, <1>6, StepOf

LEMMA EvalCleared ==
  ASSUME EvalInv, NEW v \in Eval, DeleteResults(v) PROVE EvalInv'
<1>1. /\ UNCHANGED <<evals, updates, results, run>> /\ EvalOk(v) /\ EvalTypes
      /\ purged' = purged \cup ResultsOf(v) /\ deleting' = deleting \cup {v}
      /\ cleared' = cleared \cup {v}
  BY DEF DeleteResults, Cleared, EvalInv
<1>2. EvalTypes' /\ ResultsOk' /\ \A u \in Eval \ {v} : Alone(u)
  BY <1>1 DEF EvalInv, EvalTypes, ResultsOk, Alone, ResultsOf
<1>3. EvalOk(v)'
  BY <1>1 DEF EvalOk, NoUpdates, RunHasRow, NotCompletedYet, SomeListed, ScoredSoFar,
     FullIfCompleted, Answered, Refused, DeletedIsCleared, Pending, Final, ResultsOf
<1> QED
  BY <1>2, <1>3, StepOf

LEMMA EvalDeleted ==
  ASSUME EvalInv, NEW v \in Eval, DeleteRow(v) \/ DeleteFails(v) PROVE EvalInv'
<1>1. /\ UNCHANGED <<evals, results, purged, run, cleared>> /\ EvalOk(v) /\ EvalTypes
      /\ v \in cleared /\ deleting' = deleting \ {v}
      /\ SubmitAll(v, <<"deleted">>) \/ UNCHANGED updates
  BY DEF DeleteRow, DeleteFails, EndDelete, Submit, EvalInv, EvalTypes
<1>2. /\ updates' \in [Eval -> Seq(Update)] /\ \A u \in Eval \ {v} : updates'[u] = updates[u]
      /\ NoUpdates(v)' /\ \A x : Pending(v, x)' => Pending(v, x) \/ x = "deleted"
      /\ Final(v)' \in {Final(v), "deleted"}
  <2>1. CASE SubmitAll(v, <<"deleted">>)
    BY <1>1, <2>1, OneSubmitted DEF EvalOk, Update
  <2>2. CASE UNCHANGED updates
    BY <1>1, <2>2 DEF EvalTypes, EvalOk, NoUpdates, Pending, Final
  <2> QED
    BY <1>1, <2>1, <2>2
<1>3. EvalTypes' /\ ResultsOk' /\ \A u \in Eval \ {v} : Alone(u)
  BY <1>1, <1>2 DEF EvalInv, EvalTypes, ResultsOk, Alone, ResultsOf
<1>4. EvalOk(v)'
  BY <1>1, <1>2 DEF EvalOk, RunHasRow, NotCompletedYet, SomeListed, ScoredSoFar,
     FullIfCompleted, Answered, Refused, DeletedIsCleared, ResultsOf
<1> QED
  BY <1>3, <1>4, StepOf

LEMMA EvalMutated ==
  ASSUME EvalInv, NEW v \in Eval, MutateEval(v) PROVE EvalInv'
<1> DEFINE s == Head(updates[v])
<1>1. /\ UNCHANGED <<results, purged, run, deleting, cleared>> /\ EvalOk(v) /\ EvalTypes
      /\ updates[v] # <<>> /\ updates[v] \in Seq(Update)
      /\ evals' = [evals EXCEPT ![v].status = s]
      /\ updates' = [updates EXCEPT ![v] = IF s = "deleted" THEN <<>> ELSE Tail(updates[v])]
  BY DEF MutateEval, EvalInv, EvalTypes
<1>2. PICK w \in Seq(Update) : w = updates[v]
  BY <1>1
<1>3. /\ Len(w) \in Nat /\ Len(w) > 0 /\ DOMAIN w = 1..Len(w)
      /\ s = w[1] /\ s \in Update
      /\ Tail(w) \in Seq(Update) /\ Len(Tail(w)) = Len(w) - 1
      /\ DOMAIN Tail(w) = 1..(Len(w) - 1)
      /\ \A i \in 1..(Len(w) - 1) : Tail(w)[i] = w[i + 1]
  <2>1. w # <<>>
    BY <1>1, <1>2
  <2>2. Len(w) \in Nat /\ Len(w) > 0 /\ DOMAIN w = 1..Len(w)
    BY <2>1, LenProperties
  <2>3. Head(w) = w[1] /\ Head(w) \in Update
    BY <2>1, HeadTailProperties
  <2>4. /\ Tail(w) \in Seq(Update) /\ Len(Tail(w)) = Len(w) - 1
        /\ \A i \in 1..Len(Tail(w)) : Tail(w)[i] = w[i + 1]
    BY <2>1, HeadTailProperties
  <2>5. DOMAIN Tail(w) = 1..(Len(w) - 1)
    BY <2>4, LenProperties
  <2> QED
    BY <1>2, <2>2, <2>3, <2>4, <2>5
<1>4. /\ evals' \in [Eval -> EvalType] /\ \A u \in Eval \ {v} : evals'[u] = evals[u]
      /\ evals'[v].status = s /\ evals'[v].mode = evals[v].mode
  <2> DEFINE new == [evals[v] EXCEPT !.status = s]
  <2>1. evals[v] \in EvalType /\ s \in Status
    BY <1>1, <1>3 DEF EvalTypes, Update, Status
  <2>2. new \in EvalType /\ new.status = s /\ new.mode = evals[v].mode
    BY <2>1 DEF EvalType
  <2>3. evals' = [evals EXCEPT ![v] = new]
    BY <1>1
  <2> HIDE DEF new, s
  <2> QED
    BY <1>1, <2>2, <2>3 DEF EvalTypes
<1>5. /\ updates' \in [Eval -> Seq(Update)] /\ \A u \in Eval \ {v} : updates'[u] = updates[u]
      /\ updates'[v] = IF s = "deleted" THEN <<>> ELSE Tail(w)
  BY <1>1, <1>2, <1>3 DEF EvalTypes
<1> HIDE DEF s
<1>6. Pending(v, s) /\ \A x : Pending(v, x)' => Pending(v, x)
  <2>1. Pending(v, s)
    BY <1>2, <1>3 DEF Pending
  <2>2. ASSUME NEW x, Pending(v, x)' PROVE Pending(v, x)
    <3>1. s # "deleted" /\ \E i \in 1..(Len(w) - 1) : w[i + 1] = x
      BY <1>3, <1>5, <2>2 DEF Pending
    <3> QED
      BY <1>2, <1>3, <3>1 DEF Pending
  <2> QED
    BY <2>1, <2>2
<1>7. Final(v)' = IF s = "deleted" THEN "deleted" ELSE Final(v)
  <2>1. CASE s = "deleted"
    BY <1>4, <1>5, <2>1 DEF Final
  <2>2. CASE s # "deleted" /\ Len(w) = 1
    <3>1. Tail(w) = <<>>
      BY <1>3, <2>2, EmptySeq
    <3>2. Final(v) = s
      BY <1>1, <1>2, <1>3, <2>2 DEF Final
    <3> QED
      BY <1>4, <1>5, <2>2, <3>1, <3>2 DEF Final
  <2>3. CASE s # "deleted" /\ Len(w) > 1
    <3>1. Tail(w) # <<>> /\ Tail(w)[Len(Tail(w))] = w[Len(w)]
      BY <1>3, <2>3
    <3> QED
      BY <1>1, <1>2, <1>5, <2>3, <3>1 DEF Final
  <2> QED
    BY <1>3, <2>1, <2>2, <2>3
<1>8. NoUpdates(v)' /\ s # "none"
  BY <1>3, <1>4, <1>5 DEF NoUpdates, Update
<1>9. EvalTypes' /\ \A u \in Eval \ {v} : Alone(u)
  BY <1>1, <1>4, <1>5 DEF EvalTypes, Alone, ResultsOf
<1>10. ResultsOk'
  <2>1. \A u \in Eval : evals[u].status # "none" => evals'[u].status # "none"
    BY <1>4, <1>8
  <2> QED
    BY <1>1, <2>1 DEF EvalInv, EvalTypes, ResultRow, ResultsOk
<1>11. EvalOk(v)'
  BY <1>1, <1>4, <1>6, <1>7, <1>8 DEF EvalOk, RunHasRow, NotCompletedYet, SomeListed, ScoredSoFar,
     FullIfCompleted, Full, Answered, Refused, DeletedIsCleared, ResultsOf
<1> QED
  BY <1>9, <1>10, <1>11, StepOf

LEMMA EvalResultDropped ==
  ASSUME EvalInv, NEW r \in purged, MutateResult(r) PROVE EvalInv'
<1>1. /\ UNCHANGED <<evals, updates, run, deleting, cleared>>
      /\ results' = results \ {r} /\ purged' = purged \ {r}
  BY DEF MutateResult
<1>2. r.eval \in Eval /\ r.eval \in cleared
  BY DEF EvalInv, EvalTypes, ResultsOk, ResultRow
<1>3. EvalTypes' /\ ResultsOk'
  BY <1>1 DEF EvalInv, EvalTypes, ResultsOk
<1>4. PICK v \in Eval : v = r.eval
  BY <1>2
<1>5. \A u \in Eval \ {v} : Alone(u)
  BY <1>1, <1>4 DEF Alone, ResultsOf
<1>6. EvalOk(v) /\ v \in cleared /\ ResultsOf(v)' \subseteq ResultsOf(v)
  BY <1>1, <1>2, <1>4 DEF EvalInv, ResultsOf
<1>7. EvalOk(v)'
  BY <1>1, <1>6 DEF EvalOk, NoUpdates, RunHasRow, NotCompletedYet, SomeListed, ScoredSoFar,
     FullIfCompleted, Answered, Refused, DeletedIsCleared, Pending, Final
<1> QED
  BY <1>3, <1>5, <1>7, StepOf

LEMMA EvalIdle ==
  ASSUME EvalInv, UNCHANGED evalVars PROVE EvalInv'
<1>1. \A u \in Eval : Alone(u)
  BY DEF evalVars, Alone, ResultsOf
<1> QED
  BY <1>1, AloneOk DEF EvalInv, EvalTypes, ResultsOk, evalVars

(***************************************************************************)
(* What no step takes back: what a row was created as, what a run listed,  *)
(* a result before its DELETE was asked for, that this was asked for.      *)
(***************************************************************************)
RowsKept ==
  \A v \in Eval :
    /\ evals[v].status # "none" =>
         evals'[v].status # "none" /\ evals'[v].mode = evals[v].mode /\ evals'[v].ds = evals[v].ds
    /\ evals'[v].status = "none" => evals'[v] = evals[v]
ListsKept == \A v \in Eval : run[v].listed # {} => run'[v].listed = run[v].listed
ResultsKept ==
  /\ cleared \subseteq cleared'
  /\ \A r \in results : r \in results' \/ r.eval \in cleared'

Preserved == RowsKept /\ ListsKept /\ ResultsKept

LEMMA PreservedByRunner ==
  ASSUME EvalInv, NEW v \in Eval,
         \/ Runner(v) \/ RunFaults(v)
         \/ \E d \in Dataset, m \in {"replay", "live"}, sdk \in BOOLEAN : Create(v, d, m, sdk)
  PROVE  Preserved
<1>1. CASE ListExamples(v)
  <2>1. UNCHANGED <<evals, results, cleared>> /\ run[v].listed = {}
    BY <1>1 DEF ListExamples, OnlyRun, EvalInv, EvalOk, SomeListed
  <2>2. \A u \in Eval \ {v} : run'[u] = run[u]
    BY <1>1 DEF ListExamples, End, EvalInv, EvalTypes
  <2> QED
    BY <2>1, <2>2 DEF Preserved, RowsKept, ListsKept, ResultsKept
<1>2. CASE StartRun(v) \/ CompleteRun(v)
  <2>1. UNCHANGED <<evals, results, cleared>>
    BY <1>2 DEF StartRun, CompleteRun, OnlyRun
  <2>2. \A u \in Eval : run'[u].listed = run[u].listed
    BY <1>2, Moving DEF StartRun, CompleteRun, EvalInv
  <2> QED
    BY <2>1, <2>2 DEF Preserved, RowsKept, ListsKept, ResultsKept
<1>3. CASE \E e \in Example, s \in 0..2 : ScoreExample(v, e, s)
  <2>1. UNCHANGED <<evals, cleared>> /\ results \subseteq results'
    BY <1>3 DEF ScoreExample, OnlyRun, Insert
  <2>2. PICK e \in Example : run' = [run EXCEPT ![v].todo = @ \ {e}]
    BY <1>3 DEF ScoreExample
  <2>3. \A u \in Eval : run'[u].listed = run[u].listed
    BY <2>2 DEF EvalInv, EvalTypes, RunType
  <2> QED
    BY <2>1, <2>3 DEF Preserved, RowsKept, ListsKept, ResultsKept
<1>4. CASE AnswerRun(v) \/ RunFaults(v)
  <2>1. UNCHANGED <<evals, results, cleared>>
    BY <1>4 DEF AnswerRun, RunFaults, RunFails, CutRun, OnlyRun
  <2>2. \A u \in Eval : run'[u].listed = run[u].listed
    BY <1>4, Ending DEF AnswerRun, RunFaults, RunFails, CutRun, EvalInv
  <2> QED
    BY <2>1, <2>2 DEF Preserved, RowsKept, ListsKept, ResultsKept
<1>5. ASSUME NEW d \in Dataset, NEW m \in {"replay", "live"}, NEW sdk \in BOOLEAN,
             Create(v, d, m, sdk)
      PROVE  Preserved
  <2>1. NewRow(v, d, m) /\ run' = [run EXCEPT ![v].pc = "list"] /\ UNCHANGED <<results, cleared>>
    BY <1>5 DEF Create
  <2>2. \A u \in Eval : run'[u].listed = run[u].listed
    BY <2>1, Moving DEF EvalInv
  <2>3. RowsKept
    BY <2>1, RowCreated DEF RowsKept
  <2> QED
    BY <2>1, <2>2, <2>3 DEF Preserved, ListsKept, ResultsKept
<1> QED
  BY <1>1, <1>2, <1>3, <1>4, <1>5 DEF Runner

LEMMA PreservedByRemoval ==
  ASSUME EvalInv, (\E v \in Eval : Remove(v)) \/ Mutation \/ UNCHANGED evalVars
  PROVE  Preserved
<1>1. ASSUME NEW v \in Eval, Remove(v) PROVE Preserved
  BY <1>1 DEF Remove, DeleteResults, DeleteRow, DeleteFails, EndDelete, Preserved, RowsKept,
     ListsKept, ResultsKept
<1>2. ASSUME NEW v \in Eval, MutateEval(v) PROVE Preserved
  <2>1. UNCHANGED <<results, run, cleared>>
    BY <1>2 DEF MutateEval
  <2>2. updates[v] \in Seq(Update) /\ updates[v] # <<>>
    BY <1>2 DEF MutateEval, EvalInv, EvalTypes
  <2>3. Head(updates[v]) \in Update
    BY <2>2, HeadTailProperties
  <2>4. RowsKept
    <3> DEFINE s == Head(updates[v])
               new == [evals[v] EXCEPT !.status = s]
    <3>1. evals' = [evals EXCEPT ![v] = new]
      BY <1>2 DEF MutateEval
    <3>2. new.status # "none" /\ new.mode = evals[v].mode /\ new.ds = evals[v].ds
      BY <2>3 DEF Update, EvalInv, EvalTypes, EvalType
    <3> HIDE DEF new
    <3> QED
      BY <3>1, <3>2 DEF RowsKept, EvalInv, EvalTypes
  <2> QED
    BY <2>1, <2>4 DEF Preserved, ListsKept, ResultsKept
<1>3. ASSUME NEW r \in purged, MutateResult(r) PROVE Preserved
  BY <1>3 DEF MutateResult, EvalInv, ResultsOk, Preserved, RowsKept, ListsKept, ResultsKept
<1>4. CASE UNCHANGED evalVars
  BY <1>4 DEF evalVars, Preserved, RowsKept, ListsKept, ResultsKept
<1> QED
  BY <1>1, <1>2, <1>3, <1>4 DEF Mutation

(***************************************************************************)
(* Online rules.  A task that is to set last_fired has an evaluation of    *)
(* the rule's dataset with a result, unless its results were cleared.      *)
(***************************************************************************)
TaskType == [pc : {"idle", "next", "create", "insert", "mark", "done"}, todo : SUBSET Rule,
             rule : Rule \cup {Gone}, ref : Example \cup {Gone}, eval : Eval \cup {Gone}]

OnlineTypes ==
  /\ rules \in [Rule -> {"new", "on", "gone"}]
  /\ task \in [Task -> TaskType]
  /\ fired \subseteq {r \in Rule : rules[r] = "on"}

OnlineOf(v, r) == evals[v].status # "none" /\ evals[v].mode = "online" /\ evals[v].ds = RuleSet[r]

Served(r) == \E v \in Eval : OnlineOf(v, r) /\ (ResultsOf(v) # {} \/ v \in cleared)

TaskOk(t) ==
  /\ task[t].pc \in {"create", "insert", "mark"} => task[t].rule \in Rule /\ task[t].ref \in Example
  /\ task[t].pc = "insert" => task[t].eval \in Eval /\ OnlineOf(task[t].eval, task[t].rule)
  /\ task[t].pc = "mark" => Served(task[t].rule)

OnlineInv ==
  /\ OnlineTypes
  /\ \A t \in Task : TaskOk(t)
  /\ \A r \in fired : Served(r)
  /\ \A v \in Eval : evals[v].status = "none" => evals[v].mode = Gone

LEMMA OnlineInitially == Init => OnlineInv
BY DEF Init, NoTask, OnlineInv, OnlineTypes, TaskType, TaskOk

LEMMA StillServed ==
  ASSUME Preserved, EvalInv
  PROVE  /\ \A r \in Rule : Served(r) => Served(r)'
         /\ \A v \in Eval, r \in Rule : OnlineOf(v, r) => OnlineOf(v, r)'
         /\ (\A v \in Eval : evals[v].status = "none" => evals[v].mode = Gone) =>
              \A v \in Eval : evals'[v].status = "none" => evals'[v].mode = Gone
<1>1. \A v \in Eval, r \in Rule : OnlineOf(v, r) => OnlineOf(v, r)'
  BY DEF Preserved, RowsKept, OnlineOf
<1>2. \A v \in Eval : ResultsOf(v) # {} \/ v \in cleared => ResultsOf(v)' # {} \/ v \in cleared'
  BY DEF Preserved, ResultsKept, ResultsOf
<1>3. \A r \in Rule : Served(r) => Served(r)'
  BY <1>1, <1>2 DEF Served
<1> QED
  BY <1>1, <1>3 DEF Preserved, RowsKept

(* What one task does, or another actor to the rules, leaves the rest.     *)
LEMMA OnlineStep ==
  ASSUME OnlineInv, EvalInv, Preserved, OnlineTypes',
         \A t \in Task : task'[t] = task[t] \/ TaskOk(t)',
         \A r \in fired' : r \in fired \/ Served(r)'
  PROVE  OnlineInv'
<1>1. ASSUME NEW t \in Task PROVE TaskOk(t)'
  <2>1. CASE task'[t] = task[t]
    <3>1. TaskOk(t)
      BY DEF OnlineInv
    <3>2. PICK k : k = task[t]
      OBVIOUS
    <3> QED
      BY <2>1, <3>1, <3>2, StillServed DEF TaskOk
  <2> QED
    BY <2>1
<1>2. ASSUME NEW r \in fired' PROVE Served(r)'
  <2>1. r \in Rule
    BY DEF OnlineTypes
  <2> QED
    BY <1>2, <2>1, StillServed DEF OnlineInv
<1> QED
  BY <1>1, <1>2, StillServed DEF OnlineInv

LEMMA OnlineIdle ==
  ASSUME OnlineInv, EvalInv, Preserved, UNCHANGED onlineVars PROVE OnlineInv'
BY OnlineStep DEF onlineVars, OnlineInv, OnlineTypes

LEMMA TaskMoved ==
  ASSUME OnlineTypes, NEW t \in Task, NEW x \in TaskType, task' = [task EXCEPT ![t] = x]
  PROVE  /\ task' \in [Task -> TaskType] /\ task'[t] = x
         /\ \A k \in Task \ {t} : task'[k] = task[k]
BY DEF OnlineTypes

LEMMA TaskBecame ==
  ASSUME OnlineTypes, NEW t \in Task, NEW p \in {"mark", "done"}, Become(t, p)
  PROVE  /\ task' \in [Task -> TaskType]
         /\ task'[t].pc = p /\ task'[t].rule = task[t].rule /\ task'[t].ref = task[t].ref
         /\ task'[t].eval = task[t].eval
         /\ \A k \in Task \ {t} : task'[k] = task[k]
<1> DEFINE new == [task[t] EXCEPT !.pc = p]
<1>1. task[t] \in TaskType
  BY DEF OnlineTypes
<1>2. /\ new \in TaskType /\ new.pc = p /\ new.rule = task[t].rule /\ new.ref = task[t].ref
      /\ new.eval = task[t].eval
  BY <1>1 DEF TaskType
<1>3. task' = [task EXCEPT ![t] = new]
  BY DEF Become
<1> HIDE DEF new
<1> QED
  BY <1>2, <1>3, TaskMoved

LEMMA TaskStepped ==
  ASSUME OnlineTypes, NEW t \in Task, Step(t)
  PROVE  /\ task' \in [Task -> TaskType] /\ task'[t].pc = "next"
         /\ \A k \in Task \ {t} : task'[k] = task[k]
<1> DEFINE new == [task[t] EXCEPT !.pc = "next", !.rule = Gone, !.ref = Gone]
<1>1. task[t] \in TaskType
  BY DEF OnlineTypes
<1>2. new \in TaskType /\ new.pc = "next"
  BY <1>1 DEF TaskType
<1>3. task' = [task EXCEPT ![t] = new]
  BY DEF Step
<1> HIDE DEF new
<1> QED
  BY <1>2, <1>3, TaskMoved

(* A step of task t that leaves the evaluations alone.                     *)
LEMMA FiresQuietly ==
  ASSUME EvalInv, OnlineInv, NEW t \in Task,
         \/ TraceStored(t) \/ FireMark(t) \/ FireFails(t) \/ EndTask(t)
         \/ \E r \in Rule : FireSkip(t, r) \/ \E e \in Example : FireList(t, r, e)
  PROVE  EvalInv' /\ Preserved /\ OnlineInv'
<1>1. UNCHANGED evalVars /\ UNCHANGED rules
  BY DEF TraceStored, FireMark, FireFails, EndTask, FireSkip, FireList, OnlyOnline, evalVars
<1>2. EvalInv' /\ Preserved
  BY <1>1, EvalIdle, PreservedByRemoval
<1>3. OnlineTypes /\ task[t] \in TaskType /\ TaskOk(t)
  BY DEF OnlineInv, OnlineTypes
<1>4. CASE TraceStored(t)
  <2> DEFINE new == [task[t] EXCEPT !.pc = "next", !.todo = {r \in Rule : rules[r] = "on"}]
  <2>1. new \in TaskType /\ new.pc = "next"
    BY <1>3 DEF TaskType
  <2>2. task' = [task EXCEPT ![t] = new] /\ fired' = fired
    BY <1>4 DEF TraceStored
  <2> HIDE DEF new
  <2>3. OnlineTypes' /\ TaskOk(t)' /\ \A k \in Task \ {t} : task'[k] = task[k]
    BY <1>1, <1>3, <2>1, <2>2, TaskMoved DEF OnlineTypes, TaskOk
  <2> QED
    BY <1>2, <2>2, <2>3, OnlineStep
<1>5. CASE FireMark(t)
  <2>1. /\ fired' = IF rules[task[t].rule] = "on" THEN fired \cup {task[t].rule} ELSE fired
        /\ Step(t) /\ task[t].pc = "mark"
    BY <1>5 DEF FireMark
  <2>2. task[t].rule \in Rule /\ Served(task[t].rule)
    BY <1>3, <2>1 DEF TaskOk
  <2>3. PICK r \in Rule : r = task[t].rule
    BY <2>2
  <2>4. Served(r)'
    BY <1>2, <2>2, <2>3, StillServed
  <2>5. OnlineTypes' /\ TaskOk(t)' /\ \A k \in Task \ {t} : task'[k] = task[k]
    BY <1>1, <1>3, <2>1, <2>2, TaskStepped DEF OnlineTypes, TaskOk
  <2>6. \A q \in fired' : q \in fired \/ Served(q)'
    BY <2>1, <2>3, <2>4
  <2> QED
    BY <1>2, <2>5, <2>6, OnlineStep
<1>6. CASE FireFails(t)
  <2>1. fired' = fired /\ Step(t)
    BY <1>6 DEF FireFails, FiredOnError
  <2>2. OnlineTypes' /\ TaskOk(t)' /\ \A k \in Task \ {t} : task'[k] = task[k]
    BY <1>1, <1>3, <2>1, TaskStepped DEF OnlineTypes, TaskOk
  <2> QED
    BY <1>2, <2>1, <2>2, OnlineStep
<1>7. CASE EndTask(t)
  <2>1. fired' = fired /\ Become(t, "done")
    BY <1>7 DEF EndTask
  <2>2. OnlineTypes' /\ TaskOk(t)' /\ \A k \in Task \ {t} : task'[k] = task[k]
    BY <1>1, <1>3, <2>1, TaskBecame DEF OnlineTypes, TaskOk
  <2> QED
    BY <1>2, <2>1, <2>2, OnlineStep
<1>8. ASSUME NEW r \in Rule, FireSkip(t, r)
      PROVE  OnlineInv'
  <2> DEFINE new == [task[t] EXCEPT !.todo = task[t].todo \ {r}]
  <2>1. new \in TaskType /\ new.pc = "next"
    BY <1>3, <1>8 DEF TaskType, FireSkip
  <2>2. task' = [task EXCEPT ![t] = new] /\ fired' = fired
    BY <1>8 DEF FireSkip
  <2> HIDE DEF new
  <2>3. OnlineTypes' /\ TaskOk(t)' /\ \A k \in Task \ {t} : task'[k] = task[k]
    BY <1>1, <1>3, <2>1, <2>2, TaskMoved DEF OnlineTypes, TaskOk
  <2> QED
    BY <1>2, <2>2, <2>3, OnlineStep
<1>9. ASSUME NEW r \in Rule, NEW e \in Example, FireList(t, r, e)
      PROVE  OnlineInv'
  <2> DEFINE new == [task[t] EXCEPT !.pc = "create", !.rule = r, !.ref = e,
                                    !.todo = task[t].todo \ {r}]
  <2>1. new \in TaskType /\ new.pc = "create" /\ new.rule = r /\ new.ref = e
    BY <1>3 DEF TaskType
  <2>2. task' = [task EXCEPT ![t] = new] /\ fired' = fired
    BY <1>9 DEF FireList
  <2> HIDE DEF new
  <2>3. OnlineTypes' /\ TaskOk(t)' /\ \A k \in Task \ {t} : task'[k] = task[k]
    BY <1>1, <1>3, <2>1, <2>2, TaskMoved DEF OnlineTypes, TaskOk
  <2> QED
    BY <1>2, <2>2, <2>3, OnlineStep
<1> QED
  BY <1>2, <1>4, <1>5, <1>6, <1>7, <1>8, <1>9

LEMMA FireCreates ==
  ASSUME EvalInv, OnlineInv, NEW t \in Task, NEW v \in Eval, FireCreate(t, v)
  PROVE  EvalInv' /\ Preserved /\ OnlineInv'
<1>1. /\ UNCHANGED <<updates, results, purged, run, deleting, cleared, rules, fired>>
      /\ task[t].pc = "create" /\ NewRow(v, RuleSet[task[t].rule], "online")
  BY DEF FireCreate, OnlyOnline
<1>2. OnlineTypes /\ task[t] \in TaskType /\ task[t].rule \in Rule /\ task[t].ref \in Example
  BY <1>1 DEF OnlineInv, OnlineTypes, TaskOk
<1>3. PICK d \in Dataset : d = RuleSet[task[t].rule]
  BY <1>2, EvaluationConstants
<1>4. EvalInv'
  BY <1>1, <1>3, RowCreated, NewRowOk DEF EvalInv, EvalTypes
<1>5. Preserved
  BY <1>1, <1>3, RowCreated DEF Preserved, RowsKept, ListsKept, ResultsKept
<1>6. /\ task' \in [Task -> TaskType] /\ task'[t].pc = "insert" /\ task'[t].eval = v
      /\ task'[t].rule = task[t].rule /\ task'[t].ref = task[t].ref
      /\ \A k \in Task \ {t} : task'[k] = task[k]
  <2> DEFINE new == [task[t] EXCEPT !.pc = "insert", !.eval = v]
  <2>1. /\ new \in TaskType /\ new.pc = "insert" /\ new.eval = v
        /\ new.rule = task[t].rule /\ new.ref = task[t].ref
    BY <1>2 DEF TaskType
  <2>2. task' = [task EXCEPT ![t] = new]
    BY DEF FireCreate
  <2> HIDE DEF new
  <2> QED
    BY <1>2, <2>1, <2>2, TaskMoved
<1>7. evals'[v].status # "none" /\ evals'[v].mode = "online" /\ evals'[v].ds = RuleSet[task[t].rule]
  BY <1>1, <1>3, RowCreated
<1>8. TaskOk(t)'
  BY <1>2, <1>6, <1>7 DEF TaskOk, OnlineOf
<1>9. OnlineTypes'
  BY <1>1, <1>2, <1>6 DEF OnlineTypes
<1> QED
  BY <1>1, <1>4, <1>5, <1>6, <1>8, <1>9, OnlineStep

LEMMA FireInserts ==
  ASSUME EvalInv, OnlineInv, NEW t \in Task, NEW s \in 0..2, FireInsert(t, s)
  PROVE  EvalInv' /\ Preserved /\ OnlineInv'
<1>1. /\ UNCHANGED <<evals, updates, purged, run, deleting, cleared, rules, fired>>
      /\ task[t].pc = "insert" /\ Insert(task[t].eval, task[t].ref, s) /\ Become(t, "mark")
  BY DEF FireInsert, OnlyOnline
<1>2. /\ OnlineTypes /\ task[t].rule \in Rule /\ task[t].ref \in Example /\ task[t].eval \in Eval
      /\ OnlineOf(task[t].eval, task[t].rule)
  BY <1>1 DEF OnlineInv, TaskOk
<1>3. PICK v \in Eval, e \in Example, r \in Rule : v = task[t].eval /\ e = task[t].ref /\ r = task[t].rule
  BY <1>2
<1>4. evals[v].status # "none" /\ evals[v].mode = "online" /\ Insert(v, e, s)
  BY <1>1, <1>2, <1>3 DEF OnlineOf
<1>5. /\ results' \subseteq ResultRow /\ purged' \subseteq results' /\ ResultsOk'
      /\ \A u \in Eval \ {v} : ResultsOf(u)' = ResultsOf(u)
      /\ ResultsOf(v) \subseteq ResultsOf(v)' /\ ResultsOf(v)' # {}
  BY <1>1, <1>4, Insertion
<1>6. run[v].pc = "idle"
  BY <1>4 DEF EvalInv, EvalOk, RunHasRow, EvalTypes, RunType
<1>7. EvalOk(v)' /\ EvalTypes' /\ \A u \in Eval \ {v} : Alone(u)
  BY <1>1, <1>5, <1>6, GrownResults DEF EvalInv, EvalTypes, Alone
<1>8. EvalInv'
  BY <1>5, <1>7, StepOf
<1>9. Preserved
  BY <1>1, <1>4 DEF Insert, Preserved, RowsKept, ListsKept, ResultsKept
<1>10. Served(r)'
  BY <1>1, <1>2, <1>3, <1>5 DEF Served, OnlineOf
<1>11. /\ task' \in [Task -> TaskType] /\ task'[t].pc = "mark"
       /\ task'[t].rule = r /\ task'[t].ref = e
       /\ \A k \in Task \ {t} : task'[k] = task[k]
  BY <1>1, <1>2, <1>3, TaskBecame
<1>12. TaskOk(t)' /\ OnlineTypes'
  BY <1>1, <1>2, <1>10, <1>11 DEF TaskOk, OnlineTypes
<1> QED
  BY <1>1, <1>8, <1>9, <1>11, <1>12, OnlineStep

LEMMA RulesStep ==
  ASSUME EvalInv, OnlineInv, NEW r \in Rule, CreateRule(r) \/ DeleteRule(r)
  PROVE  EvalInv' /\ Preserved /\ OnlineInv'
<1>1. UNCHANGED evalVars /\ task' = task
  BY DEF CreateRule, DeleteRule, OnlyOnline, evalVars
<1>2. EvalInv' /\ Preserved
  BY <1>1, EvalIdle, PreservedByRemoval
<1>3. OnlineTypes' /\ fired' \subseteq fired
  BY <1>1 DEF CreateRule, DeleteRule, OnlineInv, OnlineTypes
<1> QED
  BY <1>1, <1>2, <1>3, OnlineStep

(***************************************************************************)
(* The CI gate.  Between its two reads the row may change as it likes: if  *)
(* it read completed, the results are full until they are cleared.         *)
(***************************************************************************)
GateInv ==
  gate.pc = "half" =>
    /\ gate.eval \in Eval
    /\ gate.status = "completed" /\ gate.eval \notin cleared =>
         run[gate.eval].listed # {} /\ Full(gate.eval)

LEMMA StillFull ==
  ASSUME EvalInv, Preserved, NEW v \in Eval, v \notin cleared', run[v].listed # {}, Full(v)
  PROVE  run'[v].listed = run[v].listed /\ Full(v)'
<1>1. run'[v].listed = run[v].listed
  BY DEF Preserved, ListsKept
<1>2. ResultsOf(v) \subseteq ResultsOf(v)'
  BY DEF Preserved, ResultsKept, ResultsOf
<1> QED
  BY <1>1, <1>2 DEF Full

LEMMA GateIdle ==
  ASSUME EvalInv, GateInv, Preserved, gate' = gate PROVE GateInv'
<1> SUFFICES ASSUME gate.pc = "half"
             PROVE  GateInv'
  BY DEF GateInv
<1>1. PICK v \in Eval : v = gate.eval
  BY DEF GateInv
<1> QED
  BY <1>1, StillFull DEF GateInv, Preserved, ResultsKept

LEMMA GateReads ==
  ASSUME EvalInv, GateInv, Reading PROVE GateInv' /\ UNCHANGED evalVars
<1>1. CASE GateEnd
  BY <1>1 DEF GateEnd, Read, GateOrder, GateInv
<1>2. ASSUME NEW v \in Eval, GateStart(v) PROVE GateInv' /\ UNCHANGED evalVars
  <2>1. /\ gate' = [pc |-> "half", eval |-> v, status |-> evals[v].status, counted |-> {}]
        /\ UNCHANGED <<evals, updates, results, purged, run, deleting, cleared>>
    BY <1>2 DEF GateStart, Read, GateOrder, evalVars
  <2>2. EvalOk(v)
    BY DEF EvalInv
  <2> QED
    BY <2>1, <2>2 DEF GateInv, EvalOk, FullIfCompleted, Full, ResultsOf, evalVars
<1> QED
  BY <1>1, <1>2 DEF Reading

BackendInv == DataInv /\ EvalInv /\ OnlineInv /\ GateInv

LEMMA BackendInitially == Init => BackendInv
BY DataInitially, EvalInitially, OnlineInitially DEF Init, BackendInv, GateInv

LEMMA Running ==
  ASSUME EvalInv, NEW v \in Eval, Runner(v) \/ RunFaults(v) PROVE EvalInv'
<1>1. AnswerRun(v) => UNCHANGED updates
  BY DEF AnswerRun
<1>2. CutRun(v) => UNCHANGED updates \/ (run[v].pc = "start" /\ End(v, 500) /\ Submit(v, "running"))
  BY DEF CutRun
<1> QED
  BY <1>1, <1>2, EvalListed, EvalStarted, EvalScored, EvalCompleted, EvalEnded, EvalCutAtStart,
     EvalFailed DEF Runner, RunFaults

LEMMA Removing ==
  ASSUME EvalInv, (\E v \in Eval : Remove(v)) \/ Mutation PROVE EvalInv'
BY EvalCleared, EvalDeleted, EvalMutated, EvalResultDropped DEF Remove, Mutation

LEMMA BackendStep == BackendInv /\ [Next]_vars => BackendInv' /\ Preserved
<1> SUFFICES ASSUME BackendInv, [Next]_vars PROVE BackendInv' /\ Preserved
  OBVIOUS
<1> USE DEF BackendInv
<1>1. CASE DatasetNext /\ UNCHANGED <<evalVars, onlineVars, gate, local>>
  BY <1>1, DataStep, EvalIdle, PreservedByRemoval, OnlineIdle, GateIdle
<1>2. ASSUME NEW v \in Eval,
             \/ Runner(v) \/ RunFaults(v)
             \/ \E d \in Dataset, m \in {"replay", "live"}, sdk \in BOOLEAN : Create(v, d, m, sdk)
      PROVE  BackendInv' /\ Preserved
  <2>1. UNCHANGED <<datasetVars, onlineVars, gate>>
    BY <1>2 DEF Runner, RunFaults, ListExamples, StartRun, ScoreExample, CompleteRun, AnswerRun,
       RunFails, CutRun, OnlyRun, Create
  <2>2. EvalInv'
    BY <1>2, Running, EvalCreated
  <2>3. Preserved
    BY <1>2, PreservedByRunner
  <2> QED
    BY <2>1, <2>2, <2>3, DataIdle, OnlineIdle, GateIdle
<1>3. CASE (\E v \in Eval : Remove(v)) \/ Mutation
  <2>1. UNCHANGED <<datasetVars, onlineVars, gate>>
    BY <1>3 DEF Remove, DeleteResults, DeleteRow, DeleteFails, EndDelete, Mutation, MutateEval,
       MutateResult
  <2>2. EvalInv' /\ Preserved
    BY <1>3, Removing, PreservedByRemoval
  <2> QED
    BY <2>1, <2>2, DataIdle, OnlineIdle, GateIdle
<1>4. ASSUME NEW v \in Eval, Local(v) PROVE BackendInv' /\ Preserved
  <2>1. UNCHANGED <<datasetVars, evalVars, onlineVars, gate>>
    BY <1>4 DEF Local, LocalFetch, LocalScore, LocalReturn
  <2> QED
    BY <2>1, DataIdle, EvalIdle, PreservedByRemoval, OnlineIdle, GateIdle
<1>5. ASSUME NEW r \in Rule, CreateRule(r) \/ DeleteRule(r) PROVE BackendInv' /\ Preserved
  <2>1. UNCHANGED <<datasetVars, gate>>
    BY <1>5 DEF CreateRule, DeleteRule, OnlyOnline
  <2> QED
    BY <1>5, <2>1, RulesStep, DataIdle, GateIdle
<1>6. ASSUME NEW t \in Task, Firing(t) PROVE BackendInv' /\ Preserved
  <2>1. UNCHANGED <<datasetVars, gate>>
    BY <1>6 DEF Firing, TraceStored, FireMark, FireFails, EndTask, FireSkip, FireList, FireCreate,
       FireInsert, OnlyOnline
  <2>2. EvalInv' /\ Preserved /\ OnlineInv'
    BY <1>6, FiresQuietly, FireCreates, FireInserts DEF Firing
  <2> QED
    BY <2>1, <2>2, DataIdle, GateIdle
<1>7. CASE Reading
  <2>1. GateInv' /\ UNCHANGED evalVars
    BY <1>7, GateReads
  <2>2. UNCHANGED <<datasetVars, onlineVars>>
    BY <1>7 DEF Reading, GateStart, GateEnd
  <2> QED
    BY <2>1, <2>2, DataIdle, EvalIdle, PreservedByRemoval, OnlineIdle
<1>8. CASE UNCHANGED vars
  <2>1. UNCHANGED <<datasetVars, evalVars, onlineVars, gate>>
    BY <1>8 DEF vars
  <2> QED
    BY <2>1, DataIdle, EvalIdle, PreservedByRemoval, OnlineIdle, GateIdle
<1> QED
  BY <1>1, <1>2, <1>3, <1>4, <1>5, <1>6, <1>7, <1>8 DEF Next

LEMMA OnlyGate == [Next]_vars => gate' = gate \/ Reading
<1> SUFFICES ASSUME [Next]_vars, ~Reading PROVE gate' = gate
  OBVIOUS
<1>1. ASSUME NEW v \in Eval, Runner(v) \/ RunFaults(v) PROVE gate' = gate
  BY <1>1 DEF Runner, RunFaults, ListExamples, StartRun, ScoreExample, CompleteRun, AnswerRun,
     RunFails, CutRun, OnlyRun
<1>2. ASSUME NEW v \in Eval, Remove(v) PROVE gate' = gate
  BY <1>2 DEF Remove, DeleteResults, DeleteRow, DeleteFails, EndDelete
<1>3. ASSUME NEW v \in Eval, Local(v) PROVE gate' = gate
  BY <1>3 DEF Local, LocalFetch, LocalScore, LocalReturn
<1>4. ASSUME NEW v \in Eval, NEW d \in Dataset, NEW m \in {"replay", "live"},
             NEW sdk \in BOOLEAN, Create(v, d, m, sdk)
      PROVE  gate' = gate
  BY <1>4 DEF Create
<1>5. ASSUME NEW r \in Rule, CreateRule(r) \/ DeleteRule(r) PROVE gate' = gate
  BY <1>5 DEF CreateRule, DeleteRule, OnlyOnline
<1>6. ASSUME NEW t \in Task, Firing(t) PROVE gate' = gate
  BY <1>6 DEF Firing, TraceStored, FireMark, FireFails, EndTask, FireSkip, FireList, FireCreate,
     FireInsert, OnlyOnline
<1>7. CASE Mutation
  BY <1>7 DEF Mutation, MutateEval, MutateResult
<1>8. CASE UNCHANGED vars
  BY <1>8 DEF vars
<1> QED
  BY <1>1, <1>2, <1>3, <1>4, <1>5, <1>6, <1>7, <1>8 DEF Next

LEMMA BackendAlways == Spec => []BackendInv
BY BackendInitially, BackendStep, PTL DEF Spec

(***************************************************************************)
(* Every variable of the evaluation tables keeps its type, and results     *)
(* belong to evaluations that were created (evaluator.py:206).             *)
(***************************************************************************)
THEOREM EvaluationsTyped == Spec => []TypeOK
<1>1. BackendInv => TypeOK
  BY DEF BackendInv, DataInv, DataTypes, EvalInv, EvalTypes, EvalType, RunType, Update, ResultsOk,
     OnlineInv, OnlineTypes, TypeOK
<1> QED
  BY <1>1, BackendAlways, PTL

(***************************************************************************)
(* An evaluation that reads "completed" has a result for each example it   *)
(* listed, until its deletion is asked for (routes.py:1072,                *)
(* evaluator.py:504).                                                      *)
(***************************************************************************)
THEOREM CompletedAreFull == Spec => []CompletedIsFull
<1>1. BackendInv => CompletedIsFull
  BY DEF BackendInv, EvalInv, EvalOk, FullIfCompleted, CompletedIsFull
<1> QED
  BY <1>1, BackendAlways, PTL

(***************************************************************************)
(* The answer of the POST tells how the row ends (routes.py:1058).         *)
(***************************************************************************)
THEOREM AnswersTellOutcomes == Spec => []AnswerTellsOutcome
<1>1. BackendInv => AnswerTellsOutcome
  BY DEF BackendInv, EvalInv, EvalOk, Answered, Refused, AnswerTellsOutcome
<1> QED
  BY <1>1, BackendAlways, PTL

(***************************************************************************)
(* A result outlives its evaluation, and an example its dataset, only if   *)
(* it came while that was being deleted or after (evaluator.py:284,        *)
(* datasets.py:172).                                                       *)
(***************************************************************************)
THEOREM OrphansCameLate == Spec => []OrphansAreLate
<1>1. BackendInv => OrphansAreLate
  <2> SUFFICES ASSUME BackendInv PROVE OrphansAreLate
    OBVIOUS
  <2>1. ASSUME NEW r \in results, evals[r.eval].status = "deleted", r \notin purged PROVE r.late
    <3>1. r.eval \in Eval
      BY DEF BackendInv, EvalInv, EvalTypes, ResultRow
    <3>2. r.eval \in cleared
      BY <2>1, <3>1 DEF BackendInv, EvalInv, EvalOk, DeletedIsCleared
    <3> QED
      BY <2>1, <3>2 DEF BackendInv, EvalInv, ResultsOk
  <2>2. ASSUME NEW e \in Example, home[e] \in used \ datasets, home[e] # Gone
        PROVE  e \in doomed \cup late
    BY <2>2 DEF BackendInv, DataInv, LeavingIsKnown, Leaving
  <2>3. Gone \notin used
    BY DatasetConstants DEF BackendInv, DataInv, DataTypes
  <2> QED
    BY <2>1, <2>2, <2>3 DEF OrphansAreLate
<1> QED
  BY <1>1, BackendAlways, PTL

(***************************************************************************)
(* last_fired is set only for a rule whose online evaluation got a result  *)
(* (evaluator.py:685).                                                     *)
(***************************************************************************)
THEOREM FiredHaveResults == Spec => []FiredHasResult
<1>1. BackendInv => FiredHasResult
  BY DEF BackendInv, OnlineInv, Served, OnlineOf, FiredHasResult
<1> QED
  BY <1>1, BackendAlways, PTL

(***************************************************************************)
(* A gate that passes and reports "completed" has counted every example    *)
(* that was listed, whatever happened between its two reads                *)
(* (evaluator.py:185, routes.py:1236).                                     *)
(***************************************************************************)
THEOREM GateIsWhole == Spec => GateCountsAll
<1>1. BackendInv /\ [Next]_vars =>
        [GatePass' /\ gate'.status = "completed" /\ gate.pc = "half" =>
           \/ \A e \in run[gate.eval].listed : \E r \in gate'.counted : r.example = e
           \/ gate.eval \in cleared]_gate
  <2> SUFFICES ASSUME BackendInv, [Next]_vars, gate' # gate, gate'.status = "completed",
                      gate.pc = "half"
               PROVE  \/ \A e \in run[gate.eval].listed : \E r \in gate'.counted : r.example = e
                      \/ gate.eval \in cleared
    OBVIOUS
  <2>1. GateEnd
    BY OnlyGate DEF Reading, GateStart
  <2>2. gate' = [gate EXCEPT !.pc = "read", !.counted = ResultsOf(gate.eval)]
    BY <2>1 DEF GateEnd, Read, GateOrder
  <2> QED
    BY <2>2 DEF BackendInv, GateInv, Full
<1> QED
  BY <1>1, BackendAlways, PTL DEF Spec, GateCountsAll

(***************************************************************************)
(* API keys.  KeyFresh says nothing of the entries of a key that is still  *)
(* valid, so it is not inductive: those are bounded by the time that has   *)
(* passed, which the commit then freezes as deletion[k].at.                *)
(***************************************************************************)
KeyTypes ==
  /\ keyRow \in [Key -> {"none", "valid", "deleted"}]
  /\ cache \in [Worker -> [Key -> Nat]]
  /\ lookup \in [Worker -> SUBSET Key]
  /\ deletion \in [Key -> [step : 0..3, by : Worker, at : Nat]]
  /\ monotonic \in Nat

DeletedByCommit == \A k \in Key : deletion[k].step >= 2 <=> keyRow[k] = "deleted"
CachedForTtl == \A w \in Worker, k \in Key : cache[w][k] <= monotonic + Ttl
FrozenByCommit ==
  \A w \in Worker, k \in Key :
    deletion[k].step >= 2 /\ <<w, k>> \notin straggler => cache[w][k] <= deletion[k].at + Ttl
DroppedByDeleter ==
  \A w \in Worker, k \in Key :
    deletion[k].step = 3 /\ w = deletion[k].by /\ <<w, k>> \notin straggler => cache[w][k] = 0

KeyInv == KeyTypes /\ DeletedByCommit /\ CachedForTtl /\ FrozenByCommit /\ DroppedByDeleter

LEMMA KeyInitially == KeyInit => KeyInv
<1> SUFFICES ASSUME KeyInit PROVE KeyInv
  OBVIOUS
<1> USE KeyConstants
<1>1. (CHOOSE w \in Worker : TRUE) \in Worker
  OBVIOUS
<1>2. KeyTypes
  BY <1>1 DEF KeyInit, KeyTypes
<1> QED
  BY <1>1, <1>2 DEF KeyInit, KeyInv, DeletedByCommit, CachedForTtl, FrozenByCommit, DroppedByDeleter

LEMMA KeyCreated ==
  ASSUME KeyInv, NEW k \in Key, CreateKey(k) PROVE KeyInv'
<1> USE DEF KeyInv, KeyTypes, CreateKey
<1>1. KeyTypes'
  OBVIOUS
<1>2. DeletedByCommit'
  BY DEF DeletedByCommit
<1>3. CachedForTtl' /\ FrozenByCommit' /\ DroppedByDeleter'
  BY DEF CachedForTtl, FrozenByCommit, DroppedByDeleter
<1> QED
  BY <1>1, <1>2, <1>3

LEMMA KeyRead ==
  ASSUME KeyInv, NEW w \in Worker, NEW k \in Key, ReadKey(w, k) PROVE KeyInv'
<1> USE KeyConstants DEF KeyInv, KeyTypes, ReadKey
<1>1. lookup' \in [Worker -> SUBSET Key]
  OBVIOUS
<1>2. cache' \in [Worker -> [Key -> Nat]]
  OBVIOUS
<1>3. \A v \in Worker, j \in Key : cache'[v][j] \in {0, cache[v][j]}
  OBVIOUS
<1>4. CachedForTtl' /\ FrozenByCommit' /\ DroppedByDeleter'
  BY <1>2, <1>3 DEF CachedForTtl, FrozenByCommit, DroppedByDeleter
<1> QED
  BY <1>1, <1>2, <1>4 DEF DeletedByCommit

LEMMA KeyCached ==
  ASSUME KeyInv, NEW w \in Worker, NEW k \in Key, CacheKey(w, k) PROVE KeyInv'
<1> USE KeyConstants DEF KeyInv, KeyTypes, CacheKey
<1>1. lookup' \in [Worker -> SUBSET Key]
  OBVIOUS
<1>2. cache' \in [Worker -> [Key -> Nat]]
  OBVIOUS
<1>3. \A v \in Worker, j \in Key :
        cache'[v][j] = IF v = w /\ j = k THEN monotonic + Ttl ELSE cache[v][j]
  OBVIOUS
<1>4. straggler \subseteq straggler'
  OBVIOUS
<1>5. CachedForTtl'
  BY <1>3 DEF CachedForTtl
<1>6. ASSUME NEW v \in Worker, NEW j \in Key, deletion[j].step >= 2, <<v, j>> \notin straggler'
      PROVE ~(v = w /\ j = k)
  BY <1>6 DEF DeletedByCommit
<1>7. FrozenByCommit'
  BY <1>3, <1>4, <1>6 DEF FrozenByCommit
<1>8. DroppedByDeleter'
  BY <1>3, <1>4, <1>6 DEF DroppedByDeleter
<1> QED
  BY <1>1, <1>2, <1>5, <1>7, <1>8 DEF DeletedByCommit

LEMMA KeyDeleted ==
  ASSUME KeyInv, NEW w \in Worker, NEW k \in Key, DeleteKey(w, k) PROVE KeyInv'
<1> USE DEF KeyInv, KeyTypes, DeleteKey
<1>1. deletion' \in [Key -> [step : 0..3, by : Worker, at : Nat]]
  OBVIOUS
<1>2. \A j \in Key : j # k => deletion'[j] = deletion[j]
  OBVIOUS
<1>3. deletion'[k].step = 1 /\ keyRow[k] # "deleted"
  OBVIOUS
<1>4. DeletedByCommit'
  BY <1>2, <1>3 DEF DeletedByCommit
<1>5. CachedForTtl' /\ FrozenByCommit' /\ DroppedByDeleter'
  BY <1>2, <1>3 DEF CachedForTtl, FrozenByCommit, DroppedByDeleter
<1> QED
  BY <1>1, <1>4, <1>5

LEMMA DeletionTypes ==
  ASSUME NEW f \in [Key -> [step : 0..3, by : Worker, at : Nat]], NEW k \in Key, NEW n \in 0..3
  PROVE  [f EXCEPT ![k].step = n] \in [Key -> [step : 0..3, by : Worker, at : Nat]]
<1>1. [f[k] EXCEPT !.step = n] \in [step : 0..3, by : Worker, at : Nat]
  OBVIOUS
<1>2. [f EXCEPT ![k].step = n] = [f EXCEPT ![k] = [f[k] EXCEPT !.step = n]]
  BY Zenon
<1> QED
  BY <1>1, <1>2

LEMMA KeyDeletionStepped ==
  ASSUME KeyInv, NEW k \in Key, StepDelete(k) PROVE KeyInv'
<1> USE KeyConstants DEF KeyInv, KeyTypes
<1>1. deletion[k].step \in {1, 2}
  BY DEF StepDelete
<1>2. CASE deletion[k].step = 1
  <2>1. /\ keyRow' = [keyRow EXCEPT ![k] = "deleted"]
        /\ deletion' = [deletion EXCEPT ![k] = [step |-> 2, by |-> deletion[k].by,
                                                at |-> monotonic]]
        /\ UNCHANGED <<cache, lookup, straggler, monotonic>>
    BY <1>2 DEF StepDelete, DeleteOrder
  <2>2. /\ deletion'[k].step = 2 /\ deletion'[k].at = monotonic
        /\ \A j \in Key : j # k => deletion'[j] = deletion[j]
    BY <2>1
  <2>3. KeyTypes'
    <3>1. keyRow' \in [Key -> {"none", "valid", "deleted"}]
      BY <2>1
    <3>2. deletion' \in [Key -> [step : 0..3, by : Worker, at : Nat]]
      BY <2>1
    <3> QED
      BY <2>1, <3>1, <3>2
  <2>4. DeletedByCommit'
    BY <2>1, <2>2 DEF DeletedByCommit
  <2>5. FrozenByCommit'
    BY <2>1, <2>2 DEF FrozenByCommit, CachedForTtl
  <2>6. CachedForTtl' /\ DroppedByDeleter'
    BY <2>1, <2>2 DEF CachedForTtl, DroppedByDeleter
  <2> QED
    BY <2>3, <2>4, <2>5, <2>6
<1>3. CASE deletion[k].step = 2
  <2>1. /\ cache' = [cache EXCEPT ![deletion[k].by][k] = 0]
        /\ deletion' = [deletion EXCEPT ![k].step = 3]
        /\ UNCHANGED <<keyRow, lookup, straggler, monotonic>>
    BY <1>3 DEF StepDelete, DeleteOrder
  <2>2. /\ deletion'[k].step = 3 /\ deletion'[k].at = deletion[k].at
        /\ deletion'[k].by = deletion[k].by
        /\ \A j \in Key : j # k => deletion'[j] = deletion[j]
    BY <2>1
  <2>3. \A v \in Worker, j \in Key :
          cache'[v][j] = IF v = deletion[k].by /\ j = k THEN 0 ELSE cache[v][j]
    BY <2>1
  <2>4. cache' \in [Worker -> [Key -> Nat]]
    BY <2>1
  <2>5. KeyTypes'
    <3>1. deletion' \in [Key -> [step : 0..3, by : Worker, at : Nat]]
      <4>1. deletion' = [deletion EXCEPT ![k].step = 3]
        BY <2>1
      <4>2. 3 \in 0..3 /\ deletion \in [Key -> [step : 0..3, by : Worker, at : Nat]]
        OBVIOUS
      <4>3. [deletion EXCEPT ![k].step = 3] \in [Key -> [step : 0..3, by : Worker, at : Nat]]
        BY <4>2, DeletionTypes
      <4> QED
        BY <4>1, <4>3, Zenon
    <3> QED
      BY <2>1, <2>4, <3>1
  <2>6. DeletedByCommit'
    BY <1>3, <2>1, <2>2 DEF DeletedByCommit
  <2>7. FrozenByCommit'
    <3> SUFFICES ASSUME NEW v \in Worker, NEW j \in Key,
                        deletion'[j].step >= 2, <<v, j>> \notin straggler
                 PROVE  cache'[v][j] <= deletion'[j].at + Ttl
      BY <2>1 DEF FrozenByCommit
    <3>1. deletion'[j].at = deletion[j].at /\ deletion[j].step >= 2
      BY <1>3, <2>2
    <3>2. cache[v][j] <= deletion[j].at + Ttl /\ cache'[v][j] <= cache[v][j]
      BY <2>3, <3>1 DEF FrozenByCommit
    <3>3. cache[v][j] \in Nat /\ cache'[v][j] \in Nat /\ deletion[j].at \in Nat
      BY <2>4
    <3> QED
      BY <3>1, <3>2, <3>3
  <2>8. CachedForTtl' /\ DroppedByDeleter'
    BY <2>1, <2>2, <2>3 DEF CachedForTtl, DroppedByDeleter
  <2> QED
    BY <2>5, <2>6, <2>7, <2>8
<1> QED
  BY <1>1, <1>2, <1>3

LEMMA KeyAged ==
  ASSUME KeyInv, Later PROVE KeyInv'
BY KeyConstants DEF KeyInv, KeyTypes, Later, DeletedByCommit, CachedForTtl, FrozenByCommit, DroppedByDeleter

LEMMA KeyIdle ==
  ASSUME KeyInv, UNCHANGED keyVars PROVE KeyInv'
BY DEF KeyInv, KeyTypes, keyVars, DeletedByCommit, CachedForTtl, FrozenByCommit, DroppedByDeleter

(***************************************************************************)
(* The worker that deleted a key refuses it at once, the others one TTL    *)
(* after the commit (auth.py:117, auth.py:285): for any set of workers and *)
(* keys and any TTL.                                                       *)
(***************************************************************************)
THEOREM KeysFresh == KeySpec => []KeyFresh
<1>1. KeyInv /\ [KeyNext]_keyVars => KeyInv'
  BY KeyCreated, KeyRead, KeyCached, KeyDeleted, KeyDeletionStepped, KeyAged, KeyIdle DEF KeyNext
<1>2. KeyInv => KeyFresh
  BY DEF KeyInv, KeyTypes, FrozenByCommit, DroppedByDeleter, KeyFresh, Usable
<1> QED
  BY KeyInitially, <1>1, <1>2, PTL DEF KeySpec

(***************************************************************************)
(* The rate limit.  As long as no two workers have been at the counter     *)
(* together, at most one of them is between reading and writing it, and    *)
(* what it will write follows from the row as it still is; so the row has  *)
(* counted every run that was granted.                                     *)
(***************************************************************************)
LimitTypes ==
  /\ limiter \in [count : Nat, start : Nat]
  /\ player \in [Player -> [pc : {"idle", "first", "reset", "count"}, count : Nat, start : Nat]]
  /\ clock \in Nat
  /\ granted \in Nat
  /\ collided \in BOOLEAN

Allowed == IF Limit < 1 THEN 1 ELSE Limit

CountBounded ==
  /\ limiter.count <= Allowed
  /\ \A w \in Player :
       /\ player[w].count <= Allowed
       /\ player[w].pc = "count" => player[w].count >= 1
       /\ player[w].pc = "reset" => limiter.count >= 1 /\ player[w].count <= 1

OneAtATime == \A w, x \in Player : player[w].pc # "idle" /\ player[x].pc # "idle" => w = x

AgreesWithRow(w) ==
  /\ player[w].pc = "count" => player[w].count = limiter.count + 1
  /\ player[w].pc = "first" => limiter.count = 0 /\ player[w].count = 1

Uncollided ==
  ~collided => OneAtATime /\ (\A w \in Player : AgreesWithRow(w)) /\ granted <= limiter.count

LimitInv == LimitTypes /\ CountBounded /\ Uncollided

LEMMA LimitInitially == PlaygroundInit => LimitInv
<1> SUFFICES ASSUME PlaygroundInit PROVE LimitInv
  OBVIOUS
<1> USE PlaygroundConstants DEF PlaygroundInit, Allowed
<1>1. /\ limiter.count = 0 /\ granted = 0
      /\ \A w \in Player : player[w].pc = "idle" /\ player[w].count = 0
  BY DEF Waiting
<1>2. player \in [Player -> [pc : {"idle", "first", "reset", "count"}, count : Nat, start : Nat]]
  BY DEF Waiting
<1>3. LimitTypes
  BY <1>2 DEF LimitTypes
<1>4. CountBounded /\ Uncollided
  BY <1>1 DEF CountBounded, Uncollided, OneAtATime, AgreesWithRow
<1> QED
  BY <1>3, <1>4 DEF LimitInv

LEMMA LimitChecked ==
  ASSUME LimitInv, NEW w \in Player, CheckLimit(w) PROVE LimitInv'
<1> USE PlaygroundConstants DEF LimitInv, LimitTypes, Allowed
<1> DEFINE new == player'[w]
<1>1. /\ UNCHANGED <<limiter, clock, granted>>
      /\ player[w].pc = "idle"
      /\ collided' = (collided \/ \E x \in Player \ {w} : player[x].pc # "idle")
  BY DEF CheckLimit
<1>2. /\ \A x \in Player \ {w} : player'[x] = player[x]
      /\ player' \in [Player -> [pc : {"idle", "first", "reset", "count"}, count : Nat, start : Nat]]
  BY DEF CheckLimit, Waiting
<1>3. /\ new.pc \in {"idle", "first", "reset", "count"}
      /\ new.pc = "idle" => new.count = 0
      /\ new.pc = "first" => limiter.count = 0 /\ new.count = 1
      /\ new.pc = "reset" => limiter.count # 0 /\ new.count \in {0, 1}
      /\ new.pc = "count" => limiter.count < Limit /\ new.count = limiter.count + 1
  BY DEF CheckLimit, Waiting, AtLimit
<1>4. LimitTypes'
  BY <1>1, <1>2
<1>5. CountBounded'
  BY <1>1, <1>2, <1>3 DEF CountBounded
<1>6. Uncollided'
  <2> SUFFICES ASSUME ~collided' PROVE OneAtATime' /\ (\A x \in Player : AgreesWithRow(x))' /\ (granted <= limiter.count)'
    BY DEF Uncollided
  <2>1. ~collided /\ \A x \in Player \ {w} : player[x].pc = "idle"
    BY <1>1
  <2>2. OneAtATime'
    BY <1>2, <2>1 DEF OneAtATime
  <2>3. \A x \in Player : AgreesWithRow(x)'
    BY <1>1, <1>2, <1>3, <2>1 DEF AgreesWithRow
  <2> QED
    BY <1>1, <2>1, <2>2, <2>3 DEF Uncollided
<1> QED
  BY <1>4, <1>5, <1>6

LEMMA LimitCommitted ==
  ASSUME LimitInv, NEW w \in Player, CommitLimit(w) PROVE LimitInv'
<1> USE PlaygroundConstants DEF LimitInv, LimitTypes, Allowed
<1>1. /\ player' = [player EXCEPT ![w] = Waiting]
      /\ player[w].pc \in {"first", "reset", "count"}
      /\ UNCHANGED clock
      /\ collided' = IF player[w].pc = "reset"
                     THEN \E x \in Player \ {w} : player[x].pc # "idle" ELSE collided
  BY DEF CommitLimit
<1>2. /\ \A x \in Player \ {w} : player'[x] = player[x]
      /\ player'[w].pc = "idle" /\ player'[w].count = 0
      /\ player' \in [Player -> [pc : {"idle", "first", "reset", "count"}, count : Nat, start : Nat]]
  BY <1>1 DEF Waiting
<1>3. CASE player[w].pc = "count"
  <2>1. /\ limiter' = [limiter EXCEPT !.count = player[w].count]
        /\ granted' = granted + 1 /\ collided' = collided
    BY <1>1, <1>3 DEF CommitLimit
  <2>2. limiter' \in [count : Nat, start : Nat] /\ limiter'.count = player[w].count
    BY <2>1
  <2>3. LimitTypes'
    <3>1. granted' \in Nat /\ clock' \in Nat
      BY <1>1, <2>1
    <3>2. collided' \in BOOLEAN
      BY <2>1
    <3> QED
      BY <1>2, <2>2, <3>1, <3>2
  <2>4. CountBounded'
    BY <1>2, <1>3, <2>2 DEF CountBounded
  <2>5. Uncollided'
    BY <1>2, <1>3, <2>1, <2>2 DEF Uncollided, OneAtATime, AgreesWithRow
  <2> QED
    BY <2>3, <2>4, <2>5
<1>4. CASE player[w].pc = "first" /\ limiter.count # 0
  <2>1. UNCHANGED <<limiter, granted, collided>>
    BY <1>1, <1>4 DEF CommitLimit
  <2>2. LimitTypes'
    BY <1>1, <1>2, <2>1
  <2>3. CountBounded'
    BY <1>2, <2>1 DEF CountBounded
  <2>4. Uncollided'
    BY <1>2, <1>4, <2>1 DEF Uncollided, OneAtATime, AgreesWithRow
  <2> QED
    BY <2>2, <2>3, <2>4
<1>5. CASE (player[w].pc = "first" /\ limiter.count = 0) \/ player[w].pc = "reset"
  <2>1. /\ limiter' = [count |-> IF player[w].count = 0 THEN limiter.count ELSE player[w].count,
                       start |-> player[w].start]
        /\ granted' = 1
    BY <1>1, <1>5 DEF CommitLimit
  <2>2. LimitTypes'
    BY <1>1, <1>2, <2>1
  <2>3. /\ limiter'.count = IF player[w].count = 0 THEN limiter.count ELSE player[w].count
        /\ limiter'.count <= Allowed
        /\ limiter.count >= 1 => limiter'.count >= 1
    BY <2>1 DEF CountBounded
  <2>4. CountBounded'
    BY <1>2, <2>2, <2>3 DEF CountBounded
  <2>5. ~collided' => /\ \A x \in Player \ {w} : player[x].pc = "idle"
                      /\ limiter'.count >= 1
    BY <1>1, <1>5, <2>3 DEF Uncollided, OneAtATime, AgreesWithRow, CountBounded
  <2>6. Uncollided'
    BY <1>2, <2>1, <2>2, <2>5 DEF Uncollided, OneAtATime, AgreesWithRow
  <2> QED
    BY <2>2, <2>4, <2>6
<1> QED
  BY <1>1, <1>3, <1>4, <1>5

LEMMA LimitOtherwise ==
  ASSUME LimitInv, UNCHANGED <<limiter, player, granted, collided>>, clock' \in {clock, clock + 1}
  PROVE  LimitInv'
BY DEF LimitInv, LimitTypes, CountBounded, Uncollided, OneAtATime, AgreesWithRow

LEMMA LimitLeftAlone ==
  ASSUME LimitInv, UNCHANGED limitVars PROVE LimitInv'
BY LimitOtherwise DEF limitVars

(***************************************************************************)
(* Runs above the limit of a window, and above the one that opens it, are  *)
(* granted only where two workers were at the counter together             *)
(* (playground.py:98): for any number of workers, any limit, zero and less *)
(* included, and any window.                                               *)
(***************************************************************************)
THEOREM GrantsAreBounded == PlaySpec => []GrantsBounded
<1>1. LimitInv /\ [PlaygroundNext]_playVars => LimitInv'
  <2> SUFFICES ASSUME LimitInv, [PlaygroundNext]_playVars PROVE LimitInv'
    OBVIOUS
  <2>1. ASSUME NEW k \in Saver, NEW n \in Name, NEW p \in Version \cup {Nobody}, Save(k, n, p)
        PROVE  LimitInv'
    BY <2>1, LimitLeftAlone DEF Save
  <2>2. ASSUME NEW k \in Saver, NEW i \in Version, Promote(k, i) \/ InsertVersion(k, i)
        PROVE  LimitInv'
    BY <2>2, LimitLeftAlone DEF Promote, Save, InsertVersion
  <2>3. ASSUME NEW k \in Saver, NumberVersion(k) \/ SaveFails(k)
        PROVE  LimitInv'
    BY <2>3, LimitLeftAlone DEF NumberVersion, SaveFails
  <2>4. ASSUME NEW i \in Version, DeleteVersion(i) \/ \E b \in BOOLEAN : Publish(i, b)
        PROVE  LimitInv'
    BY <2>4, LimitLeftAlone DEF DeleteVersion, Publish
  <2>5. CASE Tick
    BY <2>5, LimitOtherwise DEF Tick
  <2>6. CASE UNCHANGED playVars
    BY <2>6, LimitOtherwise DEF playVars
  <2> QED
    BY <2>1, <2>2, <2>3, <2>4, <2>5, <2>6, LimitChecked, LimitCommitted DEF PlaygroundNext
<1>2. LimitInv => GrantsBounded
  BY PlaygroundConstants DEF LimitInv, LimitTypes, CountBounded, Allowed, Uncollided, GrantsBounded
<1> QED
  BY LimitInitially, <1>1, <1>2, PTL DEF PlaySpec
(***************************************************************************)
(* Prompt versions.  The number of a save is one more than the greatest of *)
(* those it read.  That a bounded set of numbers has a greatest is the     *)
(* well-foundedness of < applied to its upper bounds; that the numbers     *)
(* handed out so far are bounded is an invariant of its own, since nothing *)
(* says that Version is finite.                                            *)
(***************************************************************************)
LEMMA BoundedHasMax ==
  ASSUME NEW S \in SUBSET Nat, S # {}, NEW b \in Nat, \A n \in S : n <= b
  PROVE  Max(S) \in S /\ \A n \in S : n <= Max(S)
<1> DEFINE Bounds == {c \in Nat : \A n \in S : n <= c}
<1>1. Bounds \subseteq Nat /\ b \in Bounds
  OBVIOUS
<1>2. PICK c \in Bounds : \A d \in Bounds : ~ (<<d, c>> \in OpToRel(<, Nat))
  <2> HIDE DEF Bounds
  <2> QED
    BY <1>1, NatLessThanWellFounded, WFMin
<1>3. c \in Nat /\ \A n \in S : n <= c
  BY <1>2
<1>4. \A d \in Bounds : ~ (d < c)
  BY <1>1, <1>2, <1>3 DEF OpToRel
<1>5. c \in S
  <2> SUFFICES ASSUME c \notin S PROVE FALSE
    OBVIOUS
  <2>1. \A n \in S : n < c
    BY <1>3
  <2>2. c - 1 \in Nat
    <3>1. PICK n \in S : n \in Nat /\ n < c
      BY <2>1
    <3> QED
      BY <1>3, <3>1
  <2>3. c - 1 \in Bounds
    BY <1>3, <2>1, <2>2
  <2> QED
    BY <1>3, <1>4, <2>3
<1>6. \E m \in S : \A n \in S : m >= n
  BY <1>3, <1>5
<1>7. Max(S) \in S /\ \A n \in S : Max(S) >= n
  BY <1>6 DEF Max
<1> QED
  BY <1>7

VersionTypes ==
  /\ prompt \in [Version -> [st : {"new", "saved", "deleted"}, name : Name \cup {Nobody},
                             number : Nat, published : BOOLEAN]]
  /\ saver \in [Saver -> [pc : {"idle", "number", "insert"}, name : Name \cup {Nobody},
                          parent : Version \cup {Nobody}, number : Nat, seen : SUBSET Version]]

NumbersBounded == \E b \in Nat : \A i \in Version : prompt[i].number <= b

(* Nothing numbers a version again, and a version that a save has seen is *)
(* no longer new.                                                         *)
AheadOfSeen ==
  \A k \in Saver : saver[k].pc = "insert" /\ saver[k].parent # Nobody =>
    \A j \in saver[k].seen : prompt[j].st # "new" /\ prompt[j].number < saver[k].number

VersionInv == VersionTypes /\ NumbersBounded /\ AheadOfSeen

LEMMA VersionsInitially == PlaygroundInit => VersionInv
BY DEF PlaygroundInit, Free, VersionInv, VersionTypes, NumbersBounded, AheadOfSeen

LEMMA VersionsAsked ==
  ASSUME VersionInv, NEW k \in Saver, NEW n \in Name \cup {Nobody}, NEW p \in Version \cup {Nobody},
         Save(k, n, p)
  PROVE  VersionInv'
<1> USE DEF VersionInv, VersionTypes, Save, Free
<1>1. VersionTypes' /\ NumbersBounded'
  BY DEF NumbersBounded
<1>2. AheadOfSeen'
  <2> SUFFICES ASSUME NEW l \in Saver, saver'[l].pc = "insert", saver'[l].parent # Nobody,
                      NEW j \in saver'[l].seen
               PROVE  prompt'[j].st # "new" /\ prompt'[j].number < saver'[l].number
    BY DEF AheadOfSeen
  <2> QED
    BY DEF AheadOfSeen
<1> QED
  BY <1>1, <1>2

LEMMA VersionsNumbered ==
  ASSUME VersionInv, NEW k \in Saver, NumberVersion(k) PROVE VersionInv'
<1> USE DEF VersionInv, VersionTypes
<1> DEFINE seen == VersionsOf(saver[k].name)
           all == {0} \cup Numbers(k)
<1>1. seen \subseteq Version /\ \A j \in seen : prompt[j].st = "saved" /\ prompt[j].number \in all
  BY DEF VersionsOf, Numbers
<1>2. all \in SUBSET Nat /\ all # {}
  BY DEF VersionsOf, Numbers
<1>3. PICK b \in Nat : \A i \in Version : prompt[i].number <= b
  BY DEF NumbersBounded
<1>4. \A n \in all : n <= b
  BY <1>3 DEF VersionsOf, Numbers
<1>5. Max(all) \in Nat /\ \A n \in all : n <= Max(all)
  <2> HIDE DEF all
  <2> QED
    BY <1>2, <1>4, BoundedHasMax
<1>6. /\ UNCHANGED prompt
      /\ saver' = [saver EXCEPT ![k].pc = "insert", ![k].number = Max(all) + 1, ![k].seen = seen]
  BY DEF NumberVersion
<1> HIDE DEF seen, all
<1>7. VersionTypes' /\ NumbersBounded'
  <2>1. Max(all) + 1 \in Nat /\ seen \in SUBSET Version
    BY <1>1, <1>5
  <2>2. saver' \in [Saver -> [pc : {"idle", "number", "insert"}, name : Name \cup {Nobody},
                              parent : Version \cup {Nobody}, number : Nat, seen : SUBSET Version]]
    <3> DEFINE new == [saver[k] EXCEPT !.pc = "insert", !.number = Max(all) + 1, !.seen = seen]
    <3>1. new \in [pc : {"idle", "number", "insert"}, name : Name \cup {Nobody},
                   parent : Version \cup {Nobody}, number : Nat, seen : SUBSET Version]
      BY <2>1
    <3>2. saver' = [saver EXCEPT ![k] = new]
      BY <1>6
    <3> HIDE DEF new
    <3> QED
      BY <3>1, <3>2
  <2>3. NumbersBounded'
    BY <1>6 DEF NumbersBounded
  <2> QED
    BY <1>6, <2>2, <2>3
<1>8. \A j \in seen : prompt[j].st # "new" /\ prompt[j].number < Max(all) + 1
  <2> SUFFICES ASSUME NEW j \in seen PROVE prompt[j].st # "new" /\ prompt[j].number < Max(all) + 1
    OBVIOUS
  <2>1. prompt[j].number \in Nat /\ prompt[j].number <= Max(all) /\ prompt[j].st = "saved"
    BY <1>1, <1>5
  <2> QED
    BY <1>5, <2>1
<1>9. AheadOfSeen'
  BY <1>6, <1>8 DEF AheadOfSeen
<1> QED
  BY <1>7, <1>9

LEMMA VersionInserted ==
  ASSUME VersionInv, NEW k \in Saver, NEW i \in Version, InsertVersion(k, i) PROVE VersionInv'
<1> USE DEF VersionInv, VersionTypes
<1>1. /\ prompt[i].st = "new"
      /\ prompt' = [prompt EXCEPT ![i] = [st |-> "saved", name |-> saver[k].name,
                                          number |-> saver[k].number, published |-> FALSE]]
      /\ saver' = [saver EXCEPT ![k] = Free]
  BY DEF InsertVersion
<1>2. VersionTypes'
  BY <1>1 DEF Free
<1>3. NumbersBounded'
  <2>1. PICK b \in Nat : \A j \in Version : prompt[j].number <= b
    BY DEF NumbersBounded
  <2>2. b + saver[k].number \in Nat /\ \A j \in Version : prompt'[j].number <= b + saver[k].number
    BY <1>1, <2>1
  <2> QED
    BY <2>2 DEF NumbersBounded
<1>4. AheadOfSeen'
  BY <1>1 DEF AheadOfSeen, Free
<1> QED
  BY <1>2, <1>3, <1>4

LEMMA SaveFailed ==
  ASSUME VersionInv, NEW k \in Saver, SaveFails(k) PROVE VersionInv'
BY DEF SaveFails, Free, VersionInv, VersionTypes, NumbersBounded, AheadOfSeen

LEMMA VersionMarked ==
  ASSUME VersionInv, NEW i \in Version, DeleteVersion(i) \/ \E b \in BOOLEAN : Publish(i, b)
  PROVE  VersionInv'
<1> USE DEF VersionInv, VersionTypes, DeleteVersion, Publish
<1>1. VersionTypes' /\ UNCHANGED saver
  OBVIOUS
<1>2. \A j \in Version : prompt'[j].number = prompt[j].number /\ (prompt[j].st # "new" => prompt'[j].st # "new")
  OBVIOUS
<1>3. NumbersBounded'
  BY <1>2 DEF NumbersBounded
<1>4. AheadOfSeen'
  BY <1>1, <1>2 DEF AheadOfSeen
<1> QED
  BY <1>1, <1>3, <1>4

LEMMA VersionsLeftAlone ==
  ASSUME VersionInv, UNCHANGED <<prompt, saver>> PROVE VersionInv'
BY DEF VersionInv, VersionTypes, NumbersBounded, AheadOfSeen

LEMMA VersionsKept == PlaySpec => []VersionInv
<1>1. VersionInv /\ [PlaygroundNext]_playVars => VersionInv'
  <2> SUFFICES ASSUME VersionInv, [PlaygroundNext]_playVars PROVE VersionInv'
    OBVIOUS
  <2>1. ASSUME NEW k \in Saver, NEW i \in Version, Promote(k, i)
        PROVE  VersionInv'
    <3>1. prompt[i].name \in Name \cup {Nobody}
      BY DEF VersionInv, VersionTypes
    <3> QED
      BY <2>1, <3>1, VersionsAsked DEF Promote
  <2>2. ASSUME NEW w \in Player, CheckLimit(w) \/ CommitLimit(w)
        PROVE  VersionInv'
    BY <2>2, VersionsLeftAlone DEF CheckLimit, CommitLimit, promptVars
  <2>3. CASE Tick
    BY <2>3, VersionsLeftAlone DEF Tick, promptVars
  <2>4. CASE UNCHANGED playVars
    BY <2>4, VersionsLeftAlone DEF playVars
  <2> QED
    BY <2>1, <2>2, <2>3, <2>4, VersionsAsked, VersionsNumbered, VersionInserted, SaveFailed, VersionMarked
       DEF PlaygroundNext
<1> QED
  BY VersionsInitially, <1>1, PTL DEF PlaySpec

(***************************************************************************)
(* A save with a parent and a promotion make the highest version of the    *)
(* name, unless another save got in between (playground.py:227): for any   *)
(* number of requests and versions, deleted ones included.                 *)
(***************************************************************************)
THEOREM VersionsAlwaysGrow == PlaySpec => VersionsGrow
<1>1. ASSUME VersionInv, NEW k \in Saver, NEW i \in Version, InsertVersion(k, i),
             saver[k].parent # Nobody, i \notin overtaken'
      PROVE  Latest(prompt[i].name)' = {i}
  <2> USE DEF VersionInv, VersionTypes
  <2> DEFINE Same == VersionsOf(prompt[i].name)
  <2>1. VersionsOf(saver[k].name) \subseteq saver[k].seen
    BY <1>1 DEF InsertVersion
  <2>2. /\ prompt' = [prompt EXCEPT ![i] = [st |-> "saved", name |-> saver[k].name,
                                            number |-> saver[k].number, published |-> FALSE]]
        /\ prompt[i].st = "new"
        /\ saver[k].pc = "insert"
    BY <1>1 DEF InsertVersion
  <2>3. prompt'[i].name = saver[k].name /\ prompt'[i].number = saver[k].number /\ prompt'[i].st = "saved"
    BY <1>1, <2>2
  <2>4. \A j \in Version \ {i} : prompt'[j] = prompt[j]
    BY <1>1, <2>2
  <2>5. \A j \in Same' \ {i} : j \in Version /\ prompt'[j].number < prompt'[i].number
    <3> SUFFICES ASSUME NEW j \in Same', j # i
                 PROVE  j \in Version /\ prompt'[j].number < prompt'[i].number
      OBVIOUS
    <3>1. j \in VersionsOf(saver[k].name)
      BY <1>1, <2>3, <2>4 DEF VersionsOf
    <3> QED
      BY <1>1, <2>1, <2>2, <2>3, <2>4, <3>1 DEF AheadOfSeen, VersionsOf
  <2>6. i \in Same'
    BY <2>3 DEF VersionsOf
  <2>7. \A j \in Version : prompt'[j].number \in Nat
    BY <1>1, <2>2
  <2>8. Latest(prompt[i].name)' = {i}
    BY <2>5, <2>6, <2>7 DEF Latest
  <2> QED
    BY <2>8
<1>2. VersionInv /\ [PlaygroundNext]_playVars =>
        [\A k \in Saver, i \in Version :
           InsertVersion(k, i) /\ saver[k].parent # Nobody =>
             i \in overtaken' \/ Latest(prompt[i].name)' = {i}]_playVars
  BY <1>1
<1> QED
  BY <1>2, VersionsKept, PTL DEF PlaySpec, VersionsGrow
=============================================================================
