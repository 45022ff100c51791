------------------------------ MODULE Evaluation ------------------------------
(***************************************************************************)
(* Evaluation runs: evaluator.py and its routes, the online rules that an  *)
(* ingested trace fires, the CI gate, and evaluate() of the SDK, over the  *)
(* datasets.  A score is a level 0..2; the average is compared by sums.    *)
(***************************************************************************)
EXTENDS Datasets, Sequences, FiniteSetsExt

CONSTANTS
  Eval,       \* evaluation ids
  Rule,       \* online evaluation rules
  RuleSet,    \* RuleSet[r]: the dataset of rule r
  Task,       \* background tasks, one per ingested trace
  Stored,     \* Stored[e]: what the scorers may give the stored output of e:
              \* one score, or several where one of them asks a model
  Live,       \* scores an output obtained from a model may get
  Threshold,  \* a result passes from this score on
  GateAt      \* the CI gate passes from this average on

ASSUME EvaluationConstants ==
  /\ RuleSet \in [Rule -> Dataset]
  /\ Stored \in [Example -> SUBSET (0..2)]
  /\ Live \subseteq 0..2
  /\ Threshold \in 0..2
  /\ GateAt \in 0..2

VARIABLES
  evals,      \* evals[v]: [ds, mode, status]; "none" and "deleted": no row
  updates,    \* updates[v]: what ALTER TABLE evaluations has still to do to v
  results,    \* rows of evaluation_results; late: written after the DELETE
  purged,     \* results a DELETE has been given for
  run,        \* run[v]: [pc, listed, todo, code]: the request that runs v
  deleting,   \* evaluations between the two commands of delete_evaluation
  cleared,    \* history: evaluations whose results a DELETE was given for
  rules,      \* rules[r]: "new", "on" or "gone"
  fired,      \* rules whose last_fired is set
  task,       \* task[t]: [pc, todo, rule, ref, eval]
  gate,       \* [pc, eval, status, counted]: a reader of the CI gate
  local       \* local[v]: [pc, todo, got]: evaluate(mode="live", pipeline_fn)

evalVars == <<evals, updates, results, purged, run, deleting, cleared>>
onlineVars == <<rules, fired, task>>
vars == <<datasetVars, evalVars, onlineVars, gate, local>>

Row(v) == evals[v].status \notin {"none", "deleted"}
Pending(v, s) == \E i \in DOMAIN updates[v] : updates[v][i] = s
ResultsOf(v) == {r \in results : r.eval = v}
Passed(r) == r.score >= Threshold
Total(R) == MapThenSumSet(LAMBDA r : r.score, R)

(* average_score >= threshold; an average over nothing is 0. *)
Passes(R) == IF R = {} THEN GateAt = 0 ELSE Total(R) >= GateAt * Cardinality(R)

(* ALTER TABLE evaluations: to a row that is there. *)
SubmitAll(v, q) == updates' = IF Row(v) THEN [updates EXCEPT ![v] = @ \o q] ELSE updates
Submit(v, s) == SubmitAll(v, <<s>>)

Insert(v, e, s) ==
  results' = results \cup {[eval |-> v, example |-> e, score |-> s, late |-> v \in cleared]}

NoTask == [pc |-> "idle", todo |-> {}, rule |-> Gone, ref |-> Gone, eval |-> Gone]

Init ==
  /\ DatasetInit
  /\ evals = [v \in Eval |-> [ds |-> Gone, mode |-> Gone, status |-> "none"]]
  /\ updates = [v \in Eval |-> <<>>]
  /\ results = {} /\ purged = {}
  /\ run = [v \in Eval |-> [pc |-> "idle", listed |-> {}, todo |-> {}, code |-> 0]]
  /\ deleting = {} /\ cleared = {}
  /\ rules = [r \in Rule |-> "new"]
  /\ fired = {}
  /\ task = [t \in Task |-> NoTask]
  /\ gate = [pc |-> "idle", eval |-> Gone, status |-> "none", counted |-> {}]
  /\ local = [v \in Eval |-> [pc |-> "none", todo |-> {}, got |-> {}]]

OnlyRun == UNCHANGED <<datasetVars, purged, deleting, cleared, onlineVars, gate, local>>

(***************************************************************************)
(* create_evaluation_endpoint.  evaluate() of the SDK posts the same body  *)
(* when it is given a pipeline_fn.                                         *)
(***************************************************************************)
NewRow(v, d, m) ==
  /\ evals[v].status = "none"
  /\ evals' = [evals EXCEPT ![v] = [ds |-> d, mode |-> m, status |-> "pending"]]

Create(v, d, m, sdk) ==
  /\ d \in used
  /\ NewRow(v, d, m)
  /\ run' = [run EXCEPT ![v].pc = "list"]
  /\ local' = IF sdk THEN [local EXCEPT ![v].pc = "posted"] ELSE local
  /\ UNCHANGED <<datasetVars, updates, results, purged, deleting, cleared, onlineVars, gate>>

AnswersOk(v, code) ==                                   \* mutated form
  run' = [run EXCEPT ![v] = [@ EXCEPT !.pc = "ended", !.code = 201]]
End(v, code) ==
  run' = [run EXCEPT ![v] = [pc |-> "ended", listed |-> @.listed, todo |-> @.todo, code |-> code]]

(* The dataset is gone: 404.  It has no examples: 422. *)
ListExamples(v) ==
  LET E == ExamplesOf(evals[v].ds) IN
  /\ run[v].pc = "list"
  /\ \/ evals[v].ds \notin datasets /\ End(v, 404)
     \/ evals[v].ds \in datasets /\ E = {} /\ End(v, 422)
     \/ /\ evals[v].ds \in datasets /\ E # {}
        /\ run' = [run EXCEPT ![v] = [pc |-> "start", listed |-> E, todo |-> E, code |-> 0]]
  /\ OnlyRun /\ UNCHANGED <<evals, updates, results>>

(***************************************************************************)
(* run_evaluation_replay and run_evaluation_live: "running", a result for  *)
(* each example, "completed"; an exception in the loop makes it "failed".  *)
(***************************************************************************)
StartRun(v) ==
  /\ run[v].pc = "start"
  /\ Submit(v, "running")
  /\ run' = [run EXCEPT ![v].pc = "score"]
  /\ OnlyRun /\ UNCHANGED <<evals, results>>

Scores(v, e) == IF evals[v].mode = "replay" THEN Stored[e] ELSE Live

ScoreExample(v, e, s) ==
  /\ run[v].pc = "score" /\ e \in run[v].todo
  /\ s \in Scores(v, e)
  /\ Insert(v, e, s)
  /\ run' = [run EXCEPT ![v].todo = @ \ {e}]
  /\ OnlyRun /\ UNCHANGED <<evals, updates>>

AfterFirst(v) == run[v].todo # run[v].listed           \* mutated form
AllScored(v) == run[v].todo = {}

NoCompletion(v) == <<>>                                \* mutated form
Completion(v) == <<"completed">>

CompleteRun(v) ==
  /\ run[v].pc = "score" /\ AllScored(v)
  /\ SubmitAll(v, Completion(v))
  /\ run' = [run EXCEPT ![v].pc = "answer"]
  /\ OnlyRun /\ UNCHANGED <<evals, results>>

(***************************************************************************)
(* Inserting a result or marking the completion raises: 500.  ClickHouse   *)
(* may have taken the update that raised, and refuse the one to "failed".  *)
(***************************************************************************)
RunFails(v) ==
  /\ run[v].pc = "score"
  /\ \/ Submit(v, "failed")
     \/ AllScored(v) /\ SubmitAll(v, <<"completed", "failed">>)
     \/ AllScored(v) /\ Submit(v, "completed")
     \/ UNCHANGED updates
  /\ End(v, 500)
  /\ OnlyRun /\ UNCHANGED <<evals, results>>

AnswerRun(v) ==
  /\ run[v].pc = "answer"
  /\ End(v, 201)
  /\ OnlyRun /\ UNCHANGED <<evals, updates, results>>

(***************************************************************************)
(* The process ends, without an answer; or ClickHouse fails while the      *)
(* examples or the outcome are read, or on the first update, which it may  *)
(* have taken: 500.                                                        *)
(***************************************************************************)
CutRun(v) ==
  /\ run[v].pc \in {"list", "start", "score", "answer"}
  /\ \/ End(v, 0) /\ UNCHANGED updates
     \/ run[v].pc # "score" /\ End(v, 500) /\ UNCHANGED updates
     \/ run[v].pc = "start" /\ End(v, 500) /\ Submit(v, "running")
  /\ OnlyRun /\ UNCHANGED <<evals, results>>

(***************************************************************************)
(* delete_evaluation: look the row up, DELETE its results, DELETE it.      *)
(* Bound: no second request while the first has still to reach the row.    *)
(***************************************************************************)
KeepsPassed(v) == {r \in ResultsOf(v) : ~Passed(r)}    \* mutated form
Cleared(v) == ResultsOf(v)

DeleteResults(v) ==
  /\ Row(v) /\ v \notin deleting /\ ~Pending(v, "deleted")
  /\ purged' = purged \cup Cleared(v)
  /\ deleting' = deleting \cup {v}
  /\ cleared' = cleared \cup {v}
  /\ UNCHANGED <<datasetVars, evals, updates, results, run, onlineVars, gate, local>>

EndDelete(v) ==
  /\ v \in deleting
  /\ deleting' = deleting \ {v}
  /\ UNCHANGED <<datasetVars, evals, results, purged, run, cleared, onlineVars, gate, local>>

DeleteRow(v) == Submit(v, "deleted") /\ EndDelete(v)

DeleteFails(v) == UNCHANGED updates /\ EndDelete(v)

(* ClickHouse carries out the next update of a row, or drops a result. *)
MutateEval(v) ==
  LET s == Head(updates[v]) IN
  /\ updates[v] # <<>>
  /\ evals' = [evals EXCEPT ![v].status = s]
  /\ updates' = [updates EXCEPT ![v] = IF s = "deleted" THEN <<>> ELSE Tail(@)]
  /\ UNCHANGED <<datasetVars, results, purged, run, deleting, cleared, onlineVars, gate, local>>

MutateResult(r) ==
  /\ r \in purged
  /\ results' = results \ {r}
  /\ purged' = purged \ {r}
  /\ UNCHANGED <<datasetVars, evals, updates, run, deleting, cleared, onlineVars, gate, local>>

(***************************************************************************)
(* Online rules: created and deleted in PostgreSQL, fired by a background  *)
(* task that starts after a trace was answered and reads the rules once.   *)
(***************************************************************************)
OnlyOnline == UNCHANGED <<datasetVars, updates, purged, run, deleting, cleared, gate, local>>

CreateRule(r) ==
  /\ rules[r] = "new"
  /\ rules' = [rules EXCEPT ![r] = "on"]
  /\ OnlyOnline /\ UNCHANGED <<evals, results, fired, task>>

DeleteRule(r) ==
  /\ rules[r] = "on"
  /\ rules' = [rules EXCEPT ![r] = "gone"]
  /\ fired' = fired \ {r}
  /\ OnlyOnline /\ UNCHANGED <<evals, results, task>>

TraceStored(t) ==
  /\ task[t] = NoTask
  /\ task' = [task EXCEPT ![t] = [@ EXCEPT !.pc = "next", !.todo = {r \in Rule : rules[r] = "on"}]]
  /\ OnlyOnline /\ UNCHANGED <<evals, results, rules, fired>>

Become(t, pc) == task' = [task EXCEPT ![t].pc = pc]

(* A rule whose name filter or empty scorer list rules the trace out. *)
FireSkip(t, r) ==
  /\ task[t].pc = "next" /\ r \in task[t].todo
  /\ task' = [task EXCEPT ![t].todo = @ \ {r}]
  /\ OnlyOnline /\ UNCHANGED <<evals, results, rules, fired>>

(* The first example is the reference; the order is the database's. *)
FireList(t, r, e) ==
  /\ task[t].pc = "next" /\ r \in task[t].todo
  /\ RuleSet[r] \in datasets /\ e \in ExamplesOf(RuleSet[r])
  /\ task' = [task EXCEPT ![t] = [@ EXCEPT !.pc = "create", !.rule = r, !.ref = e,
                                             !.todo = task[t].todo \ {r}]]
  /\ OnlyOnline /\ UNCHANGED <<evals, results, rules, fired>>

FireCreate(t, v) ==
  /\ task[t].pc = "create"
  /\ NewRow(v, RuleSet[task[t].rule], "online")
  /\ task' = [task EXCEPT ![t] = [@ EXCEPT !.pc = "insert", !.eval = v]]
  /\ OnlyOnline /\ UNCHANGED <<results, rules, fired>>

FireInsert(t, s) ==
  /\ task[t].pc = "insert" /\ s \in Live
  /\ Insert(task[t].eval, task[t].ref, s)
  /\ Become(t, "mark")
  /\ OnlyOnline /\ UNCHANGED <<evals, rules, fired>>

Step(t) == task' = [task EXCEPT ![t] = [@ EXCEPT !.pc = "next", !.rule = Gone, !.ref = Gone]]

FireMark(t) ==
  /\ task[t].pc = "mark"
  /\ fired' = IF rules[task[t].rule] = "on" THEN fired \cup {task[t].rule} ELSE fired
  /\ Step(t)
  /\ OnlyOnline /\ UNCHANGED <<evals, results, rules>>

AlwaysMarked(t) == fired \cup {task[t].rule}           \* mutated form
FiredOnError(t) == fired

(* An exception ends the rule, not the task. *)
FireFails(t) ==
  /\ task[t].pc \in {"create", "insert", "mark"}
  /\ Step(t)
  /\ fired' = FiredOnError(t)
  /\ OnlyOnline /\ UNCHANGED <<evals, results, rules>>

(* The task is done, or the process ends. *)
EndTask(t) ==
  /\ task[t].pc \notin {"idle", "done"}
  /\ Become(t, "done")
  /\ OnlyOnline /\ UNCHANGED <<evals, results, rules, fired>>

(***************************************************************************)
(* The CI gate: get_evaluation reads the row, then the results' average.   *)
(***************************************************************************)
StatsFirst == <<"stats", "row">>                       \* mutated form
GateOrder == <<"row", "stats">>

Read(g, part) ==
  IF part = "row" THEN [g EXCEPT !.status = evals[g.eval].status]
                  ELSE [g EXCEPT !.counted = ResultsOf(g.eval)]

GateStart(v) ==
  /\ gate.pc # "half" /\ Row(v)
  /\ gate' = Read([pc |-> "half", eval |-> v, status |-> "none", counted |-> {}], GateOrder[1])
  /\ UNCHANGED <<datasetVars, evalVars, onlineVars, local>>

GateEnd ==
  /\ gate.pc = "half"
  /\ gate' = Read([gate EXCEPT !.pc = "read"], GateOrder[2])
  /\ UNCHANGED <<datasetVars, evalVars, onlineVars, local>>

(* exit_code 0. *)
GatePass == gate.pc = "read" /\ Passes(gate.counted)

(***************************************************************************)
(* evaluate() with a pipeline_fn: after its post was answered it fetches   *)
(* the examples, scores each here, and returns what it has.                *)
(***************************************************************************)
LocalFetch(v) ==
  /\ local[v].pc = "posted" /\ run[v].pc = "ended" /\ run[v].code = 201
  /\ evals[v].ds \in datasets
  /\ local' = [local EXCEPT ![v].pc = "score", ![v].todo = ExamplesOf(evals[v].ds)]
  /\ UNCHANGED <<datasetVars, evalVars, onlineVars, gate>>

LocalScore(v, e, s) ==
  /\ local[v].pc = "score" /\ e \in local[v].todo
  /\ local' = [local EXCEPT ![v].todo = @ \ {e},
                            ![v].got = @ \cup {[example |-> e, score |-> s]}]
  /\ UNCHANGED <<datasetVars, evalVars, onlineVars, gate>>

LocalReturn(v) ==
  /\ local[v].pc = "score" /\ local[v].todo = {}
  /\ local' = [local EXCEPT ![v].pc = "returned"]
  /\ UNCHANGED <<datasetVars, evalVars, onlineVars, gate>>

Runner(v) ==
  \/ ListExamples(v) \/ StartRun(v) \/ CompleteRun(v) \/ AnswerRun(v)
  \/ \E e \in Example, s \in 0..2 : ScoreExample(v, e, s)

RunFaults(v) == RunFails(v) \/ CutRun(v)

Remove(v) == DeleteResults(v) \/ DeleteRow(v) \/ DeleteFails(v)

Firing(t) ==
  \/ TraceStored(t) \/ FireMark(t) \/ FireFails(t) \/ EndTask(t)
  \/ \E r \in Rule : FireSkip(t, r) \/ (\E e \in Example : FireList(t, r, e))
  \/ \E v \in Eval : FireCreate(t, v)
  \/ \E s \in 0..2 : FireInsert(t, s)

Local(v) ==
  \/ LocalFetch(v) \/ LocalReturn(v)
  \/ \E e \in Example, s \in Live : LocalScore(v, e, s)

Mutation == (\E v \in Eval : MutateEval(v)) \/ (\E r \in purged : MutateResult(r))

Reading == GateEnd \/ \E v \in Eval : GateStart(v)

Next ==
  \/ DatasetNext /\ UNCHANGED <<evalVars, onlineVars, gate, local>>
  \/ \E v \in Eval : \/ Runner(v) \/ RunFaults(v) \/ Remove(v) \/ Local(v)
                     \/ \E d \in Dataset, m \in {"replay", "live"}, sdk \in BOOLEAN :
                          (sdk => m = "live") /\ Create(v, d, m, sdk)
  \/ \E r \in Rule : CreateRule(r) \/ DeleteRule(r)
  \/ \E t \in Task : Firing(t)
  \/ Mutation \/ Reading

Spec == Init /\ [][Next]_vars
=============================================================================
