------------------------------ MODULE MCBackend ------------------------------
(***************************************************************************)
(* Instances of the evaluations and of the control plane for TLC.  A       *)
(* behaviour exercises one part, its focus: parts that share no row are    *)
(* not interleaved with one another.                                       *)
(***************************************************************************)
EXTENDS EvaluationProps, ControlProps, TLC

CONSTANTS d1, e1, e2, v1, v2, r1, t1, k1, p1, p2, p3, n1, a1, a2, a3, Focus,
  MaxClock    \* bound on the time that passes

VARIABLE focus

(* e1 is scored by exact match, e2 by a judge. *)
OneJudged == [e \in Example |-> IF e = e1 THEN {2} ELSE {0, 2}]
OneSet == [r \in Rule |-> d1]

Fresh == \A v \in Eval : evals[v].status = "none"
Early == \A v \in Eval : run[v].pc \in {"idle", "list"}

(* Bound: outside the focus on datasets, examples come first. *)
Grow ==
  /\ Fresh
  /\ \/ \E d \in Dataset : CreateDataset(d)
     \/ \E k \in Adder : \/ AddCheck(k) \/ \E d \in Dataset : AddRequest(k, d, 1)
                         \/ \E e \in Example : AddInsert(k, e)
  /\ UNCHANGED <<evalVars, onlineVars, gate, local>>

Shrink ==
  /\ \/ \E d \in Dataset : RemoveExamples(d) \/ RemoveDataset(d)
     \/ \E x \in doomed : MutateDatasets(x)
  /\ UNCHANGED <<evalVars, onlineVars, gate, local>>

Ask(modes, sdk) == \E v \in Eval, d \in Dataset, m \in modes : Create(v, d, m, sdk)

(* One evaluation that is deleted at any time. *)
Watched ==
  \/ (Fresh /\ Ask({"replay"}, FALSE)) \/ Mutation
  \/ \E v \in Eval : Runner(v) \/ RunFails(v) \/ Remove(v)

(* One evaluation read by the gate at any time, then deleted.              *)
Gated ==
  \/ (Fresh /\ Ask({"replay"}, FALSE)) \/ Reading \/ Mutation
  \/ \E v \in Eval : Runner(v) \/ RunFails(v) \/ (run[v].pc = "ended" /\ Remove(v))

(* An online rule, fired, deleted, its evaluation deleted. *)
Online ==
  \/ \E r \in Rule : CreateRule(r) \/ DeleteRule(r)
  \/ \E t \in Task : Firing(t)
  \/ (\E v \in Eval : Remove(v)) \/ Mutation

(* An evaluation with a pipeline_fn of the client; the dataset may leave   *)
(* before its examples are listed.                                         *)
Pipeline ==
  \/ (Fresh /\ Ask({"live"}, TRUE)) \/ (Early /\ Shrink) \/ Mutation
  \/ \E v \in Eval : Runner(v) \/ RunFaults(v) \/ Local(v)

controlVars == <<playVars, keyVars, alertVars>>

(* Fresh ids do not differ: they are used in order. *)
InOrder(row) == (row[p3].st # "new" => row[p2].st # "new") /\ (row[p2].st # "new" => row[p1].st # "new")

(* Bound: time passes up to MaxClock. *)
Control ==
  \/ /\ focus = "playground" /\ PlaygroundNext /\ UNCHANGED <<keyVars, alertVars>>
     /\ UNCHANGED limitVars
     /\ InOrder(prompt')
  \/ /\ focus = "limit" /\ PlaygroundNext /\ UNCHANGED <<keyVars, alertVars>>
     /\ clock' <= MaxClock
     /\ UNCHANGED promptVars
  \/ /\ focus = "keys" /\ KeyNext /\ UNCHANGED <<playVars, alertVars>>
     /\ monotonic' <= MaxClock
  \/ focus = "alerts" /\ AlertNext /\ UNCHANGED <<playVars, keyVars>>

MCInit == Init /\ PlaygroundInit /\ KeyInit /\ AlertInit /\ focus \in Focus

Data ==
  \/ focus = "datasets" /\ DatasetNext /\ UNCHANGED <<evalVars, onlineVars, gate, local>>
  \/ focus \notin {"datasets", "playground", "limit", "keys", "alerts"} /\ Grow
  \/ focus = "watched" /\ Watched
  \/ focus = "gated" /\ Gated
  \/ focus = "online" /\ Online
  \/ focus = "pipeline" /\ Pipeline

MCNext ==
  /\ UNCHANGED focus
  /\ \/ Data /\ UNCHANGED controlVars
     \/ Control /\ UNCHANGED vars

MCSpec == MCInit /\ [][MCNext]_<<vars, controlVars, focus>>

(* The executor runs every step of a run, ClickHouse every update, the     *)
(* event loop every step of a round of alerts.                             *)
MCFairSpec ==
  /\ MCSpec
  /\ \A v \in Eval : WF_vars(Runner(v)) /\ WF_vars(MutateEval(v))
  /\ \A w \in Looper : WF_alertVars(focus = "alerts" /\ Looping(w))
=============================================================================
