--------------------------- MODULE EvaluationProps ---------------------------
(***************************************************************************)
(* What evaluation runs, datasets and online rules promise.                *)
(***************************************************************************)
EXTENDS Evaluation

Status == {"none", "pending", "running", "completed", "failed", "deleted"}
ResultRow == [eval : Eval, example : Example, score : 0..2, late : BOOLEAN]

(* Every variable of the evaluation tables has its type; a result row      *)
(* names an evaluation that was created.                                   *)
TypeOK ==
  /\ datasets \subseteq Dataset
  /\ home \in [Example -> Dataset \cup {Gone}]
  /\ evals \in [Eval -> [ds : Dataset \cup {Gone}, mode : {Gone, "replay", "live", "online"},
                         status : Status]]
  /\ updates \in [Eval -> Seq({"running", "completed", "failed", "deleted"})]
  /\ results \subseteq ResultRow /\ purged \subseteq results
  /\ run \in [Eval -> [pc : {"idle", "list", "start", "score", "answer", "ended"},
                       listed : SUBSET Example, todo : SUBSET Example,
                       code : {0, 201, 404, 422, 500}]]
  /\ cleared \subseteq Eval /\ deleting \subseteq cleared
  /\ fired \subseteq {r \in Rule : rules[r] = "on"}
  /\ \A r \in results : evals[r.eval].status # "none"

Full(v) == \A e \in run[v].listed : \E r \in ResultsOf(v) : r.example = e

(* An evaluation that reads "completed" has a result for each example it   *)
(* listed, whatever failed, raced or was retried, until its deletion is    *)
(* asked for (routes.py:1072, evaluator.py:504).                           *)
CompletedIsFull ==
  \A v \in Eval : evals[v].status = "completed" /\ v \notin cleared =>
    run[v].listed # {} /\ Full(v)

(* What the row of v will read when ClickHouse is done. *)
Final(v) == IF updates[v] = <<>> THEN evals[v].status ELSE updates[v][Len(updates[v])]

(* The answer of the POST tells how the row ends: 201 only for a completed *)
(* run; a 404 or 422 leaves a pending row and no result (routes.py:1058).  *)
AnswerTellsOutcome ==
  \A v \in Eval : run[v].pc = "ended" =>
    /\ run[v].code = 201 => Final(v) \in {"completed", "deleted"}
    /\ run[v].code \in {404, 422} => Final(v) \in {"pending", "deleted"} /\ ResultsOf(v) = {}

(* A result outlives its evaluation, and an example its dataset, only if   *)
(* it was written after the deletion had been asked for, or while it was   *)
(* (evaluator.py:284, datasets.py:172, datasets.py:217).                   *)
OrphansAreLate ==
  /\ \A r \in results : evals[r.eval].status = "deleted" /\ r \notin purged => r.late
  /\ \A e \in Example : home[e] \in used \ datasets => e \in doomed \cup late

(* A gate that passes and reports "completed" has counted every example:   *)
(* the row is read before the averages (evaluator.py:185, routes.py:1236). *)
GateCountsAll ==
  [][GatePass' /\ gate'.status = "completed" /\ gate.pc = "half" =>
       \/ \A e \in run[gate.eval].listed : \E r \in gate'.counted : r.example = e
       \/ gate.eval \in cleared]_gate

(* last_fired is set only for a rule whose online evaluation got a result: *)
(* it is there unless that evaluation's deletion was asked for.            *)
FiredHasResult ==
  \A r \in fired : \E v \in Eval :
    /\ evals[v].mode = "online" /\ evals[v].ds = RuleSet[r]
    /\ ResultsOf(v) # {} \/ v \in cleared

(* What evaluate() hands back for a pipeline_fn is what the backend has.   *)
LocalResultsRecorded ==
  \A v \in Eval : local[v].pc = "returned" =>
    \A g \in local[v].got : v \in cleared \/
      \E r \in ResultsOf(v) : r.example = g.example /\ r.score = g.score

(* A run that was started reads completed, failed or deleted in the end,   *)
(* unless its own faults ended it.                                         *)
RunSettles ==
  \A v \in Eval : run[v].pc = "start" ~>
    \/ evals[v].status \in {"completed", "failed", "deleted"}
    \/ run[v].pc = "ended" /\ run[v].code \in {0, 500}
=============================================================================
