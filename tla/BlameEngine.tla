------------------------------ MODULE BlameEngine ------------------------------
(***************************************************************************)
(* The blame engine: blame_engine.py over the spans T of one trace, with   *)
(*   T.ids                   its spans                                     *)
(*   T.parent, T.sources     parent_span_id and source_span_ids            *)
(*   T.name                  names, for the detection of retry storms      *)
(*   T.error, T.null, T.badInput                                           *)
(*                           the spans that _mark_intrinsic marks so       *)
(*   T.kind                  "full", or how an output is empty: a "dict",  *)
(*                           a "text" that is blank or says null, a "list" *)
(*   T.tight                 the <<name, parent>> whose failures fit the   *)
(*                           window of a storm                             *)
(*   T.signals               what inputs, confidence, latency, tokens add  *)
(* Scores are in units of 1/1200, which makes every weight an integer.     *)
(***************************************************************************)
EXTENDS Integers, FiniteSets, FiniteSetsExt

(* Passes 1 and 2. *)
ChildrenOf(T, n) == {c \in T.ids : T.parent[c] = n}
IsRoot(T, n) == T.parent[n] \notin T.ids
Empty(T) == {n \in T.ids : T.kind[n] # "full"}
Bad(T) == T.error \cup T.null \cup Empty(T)

(* Pass 3: the spans whose bad_descendant_count is positive. *)
BadBelow(T) ==
  LET count[n \in T.ids] ==
        MapThenSumSet(LAMBDA c : count[c] + (IF c \in Bad(T) THEN 1 ELSE 0), ChildrenOf(T, n))
  IN  {n \in T.ids : count[n] > 0}

(* Pass 4: what is passed on to the children of a span that was passed a.  *)
PassesAlways(bad, below, n, a) == a \/ n \in bad       \* mutated form
PassesOn(bad, below, n, a) == IF n \in bad /\ n \in below THEN a ELSE a \/ n \in bad

FromAbove(T) ==
  LET bad == Bad(T)
      below == BadBelow(T)
      passed[n \in T.ids] ==
        IF IsRoot(T, n) THEN FALSE ELSE PassesOn(bad, below, T.parent[n], passed[T.parent[n]])
  IN  {n \in T.ids : passed[n]}

(* Pass 4b: the siblings whose bad output n may have been given. *)
Introducers(T, n) ==
  IF n \in (Bad(T) \cap T.badInput) /\ ~IsRoot(T, n) /\ n \notin FromAbove(T)
  THEN {m \in ChildrenOf(T, T.parent[n]) \ {n} : m \in (T.null \cup Empty(T)) \ T.badInput}
  ELSE {}

(* Pass 4c: the bad spans whose output n was given. *)
Feeders(T, n) == T.sources[n] \cap Bad(T)

Givers(T, n) == Introducers(T, n) \cup Feeders(T, n)

(***************************************************************************)
(* Pass 5: the roles.  A bad span with bad spans below it is a propagator, *)
(* one without is a victim or the origin; the others are clean.            *)
(***************************************************************************)
Roles(T) ==
  LET bad == Bad(T)
      bottom == bad \ BadBelow(T)
      upstream == FromAbove(T) \cup {n \in bad : Givers(T, n) # {}}
  IN [originator |-> bottom \ upstream,
      propagator |-> bad \ bottom,
      manifestor |-> bottom \cap upstream]

(***************************************************************************)
(* _detect_retry_storm: three or more failures of one name under one       *)
(* parent, a group, whose latencies fit the window.                        *)
(***************************************************************************)
Retries(T, n) == {m \in T.error : T.name[m] = T.name[n] /\ T.parent[m] = T.parent[n]}
Storms(T) ==
  {n \in T.error : Cardinality(Retries(T, n)) >= 3 /\ <<T.name[n], T.parent[n]>> \in T.tight}

Depth(T) ==
  LET depth[n \in T.ids] == IF IsRoot(T, n) THEN 0 ELSE 1 + depth[T.parent[n]] IN depth

Worth(roles, n) ==
  CASE n \in roles.originator -> 420 [] n \in roles.propagator -> 294
    [] n \in roles.manifestor -> 84 [] OTHER -> 0

(* What an output that is empty adds: nothing for a list or the text "{}". *)
Deviation == [full |-> 0, dict |-> 192, text |-> 240, list |-> 0]

Unsuppressed(T, first) == {}                           \* mutated form
Suppressed(T, first) == Storms(T) \ first

(* first has the first failure of every storm, which keeps its score. *)
Score(T, roles, first) ==
  LET depth == Depth(T)
      deepest == Max({depth[n] : n \in T.ids})
      none == Suppressed(T, first)
  IN [n \in T.ids |->
       IF n \in none THEN 0
       ELSE (IF n \in T.error \cup T.null THEN 240 ELSE Deviation[T.kind[n]])
            + Worth(roles, n)
            + (IF deepest = 0 THEN 42 ELSE (84 * depth[n]) \div deepest)
            + T.signals[n]]

Highest(S, score) == {n \in S : \A m \in S : score[m] <= score[n]}

(* The distance of the first of S to the second of S. *)
Lead(S, score) ==
  LET top == CHOOSE n \in Highest(S, score) : TRUE
      rest == S \ {top}
  IN  score[top] - (IF rest = {} THEN 0 ELSE Max({score[n] : n \in rest}))

Delta(T, roles, score) ==
  IF Cardinality(roles.originator) = 1 THEN 1200
  ELSE Lead(IF roles.originator = {} THEN T.ids ELSE roles.originator, score)

Confidence(T, roles, score) ==
  LET delta == Delta(T, roles, score) IN
  IF delta > 300 THEN "high" ELSE IF delta > 120 THEN "medium" ELSE "ambiguous"

(* The spans named as root causes; t and u are ranked first and second. *)
Named(T, roles, score, t, u) ==
  (IF roles.originator = {} THEN {t} ELSE roles.originator)
  \cup {v \in {u} \cap (roles.originator \cup roles.propagator) :
          Confidence(T, roles, score) = "ambiguous"}

(* _build_full_chain *)
Failing(T, roles) == roles.originator \cup roles.propagator \cup roles.manifestor

FullChain(T, roles) ==
  LET onPath[n \in T.ids] ==
        n \in Failing(T, roles) \/ \E c \in ChildrenOf(T, n) : onPath[c]
  IN  {n \in T.ids : onPath[n]}

(* caused_by of a failure point: its nearest failing ancestor. *)
CausedBy(T, roles) ==
  LET cause[n \in T.ids] ==
        IF IsRoot(T, n) THEN {}
        ELSE IF T.parent[n] \in roles.originator \cup roles.propagator
             THEN {T.parent[n]} ELSE cause[T.parent[n]]
  IN  [n \in roles.manifestor |-> cause[n]]
=============================================================================
