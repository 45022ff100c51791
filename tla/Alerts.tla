-------------------------------- MODULE Alerts --------------------------------
(***************************************************************************)
(* Alert rules: alerts.py.  Each worker of the backend runs the loop that  *)
(* evaluates all rules once a minute.                                      *)
(***************************************************************************)
EXTENDS FiniteSets

CONSTANTS
  Alert,      \* alert rules
  Looper,     \* worker processes
  Unread,     \* rules whose condition or metric cannot be evaluated
  Hooked      \* rules with a webhook_url

ASSUME AlertConstants == Unread \subseteq Alert /\ Hooked \subseteq Alert

VARIABLES
  alertRows,  \* rows of alert_rules
  spent,      \* rules that have been deleted
  crossed,    \* rules whose metric is over the threshold
  up,         \* PostgreSQL and ClickHouse answer
  loop,       \* loop[w]: [pc, todo, now]: the round of worker w
  lastFired   \* rules whose last_fired is set

alertVars == <<alertRows, spent, crossed, up, loop, lastFired>>

Asleep == [pc |-> "sleep", todo |-> {}, now |-> {}]

AlertInit ==
  /\ alertRows = {} /\ spent = {} /\ crossed = {} /\ lastFired = {}
  /\ up = TRUE
  /\ loop = [w \in Looper |-> Asleep]

OnlyLoop == UNCHANGED <<alertRows, spent, crossed, up>>

CreateAlert(a) ==
  /\ a \notin alertRows \cup spent /\ up
  /\ alertRows' = alertRows \cup {a}
  /\ UNCHANGED <<spent, crossed, up, loop, lastFired>>

DeleteAlert(a) ==
  /\ a \in alertRows /\ up
  /\ alertRows' = alertRows \ {a}
  /\ spent' = spent \cup {a}
  /\ lastFired' = lastFired \ {a}
  /\ UNCHANGED <<crossed, up, loop>>

(* alert_evaluation_loop and list_rules; an error only delays the round. *)
StartRound(w) ==
  /\ loop[w].pc = "sleep"
  /\ loop' = [loop EXCEPT ![w] = IF up THEN [pc |-> "next", todo |-> alertRows, now |-> {}]
                                 ELSE Asleep]
  /\ OnlyLoop /\ UNCHANGED lastFired

(* _evaluate_all_rules: the metric of a rule is fetched and compared. *)
RoundEnds(w, a) == Asleep                              \* mutated form
PassedOver(w, a) == [loop[w] EXCEPT !.todo = @ \ {a}]

EvaluateAlert(w, a) ==
  /\ loop[w].pc = "next" /\ a \in loop[w].todo
  /\ loop' = [loop EXCEPT ![w] =
       IF a \in Unread \/ ~up THEN PassedOver(w, a)
       ELSE IF a \notin crossed THEN [@ EXCEPT !.todo = @ \ {a}]
       ELSE [pc |-> IF a \in Hooked THEN "post" ELSE "mark", todo |-> @.todo \ {a}, now |-> {a}]]
  /\ OnlyLoop /\ UNCHANGED lastFired

(* _fire_webhook: the outcome of the POST is logged only; without a        *)
(* webhook_url nothing is posted, and last_fired is set all the same.      *)
PostWebhook(w) ==
  /\ loop[w].pc = "post"
  /\ loop' = [loop EXCEPT ![w].pc = "mark"]
  /\ OnlyLoop /\ UNCHANGED lastFired

(* _update_last_fired: of a row that is still there. *)
MarkFired(w) ==
  /\ loop[w].pc = "mark"
  /\ lastFired' = IF up THEN lastFired \cup (loop[w].now \cap alertRows) ELSE lastFired
  /\ loop' = [loop EXCEPT ![w].pc = "next", ![w].now = {}]
  /\ OnlyLoop

EndRound(w) ==
  /\ loop[w].pc = "next" /\ loop[w].todo = {}
  /\ loop' = [loop EXCEPT ![w] = Asleep]
  /\ OnlyLoop /\ UNCHANGED lastFired

Looping(w) ==
  \/ StartRound(w) \/ PostWebhook(w) \/ MarkFired(w) \/ EndRound(w)
  \/ \E a \in Alert : EvaluateAlert(w, a)

Surroundings ==
  /\ \/ \E a \in Alert : crossed' \in {crossed \cup {a}, crossed \ {a}} /\ UNCHANGED up
     \/ up' = ~up /\ UNCHANGED crossed
  /\ UNCHANGED <<alertRows, spent, loop, lastFired>>

AlertNext ==
  \/ \E a \in Alert : CreateAlert(a) \/ DeleteAlert(a)
  \/ \E w \in Looper : Looping(w)
  \/ Surroundings
=============================================================================
