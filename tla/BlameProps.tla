------------------------------ MODULE BlameProps ------------------------------
(***************************************************************************)
(* The blame engine over the traces that the SDK emits.                    *)
(***************************************************************************)
EXTENDS TraceProps, BlameEngine

(***************************************************************************)
(* What compute_blame is given of trace r: kind tells how results are      *)
(* empty, the spans of B were given None by position (by keyword it is no  *)
(* bad input), the spans of S have the anomalies of input, latency and     *)
(* tokens, and all spans have one name.                                    *)
(***************************************************************************)
Emitted(r, kind, B, S, tight) ==
  LET ids == trace[r] IN
  [ids |-> ids,
   parent |-> [s \in ids |-> span[s].parent],
   sources |-> [s \in ids |-> sources[s]],
   name |-> [s \in ids |-> "call"],
   error |-> {s \in ids : span[s].failed},
   null |-> {s \in ids : span[s].out = Null},
   kind |-> [s \in ids |-> IF span[s].out = Null THEN "full" ELSE kind[span[s].out]],
   badInput |-> B,
   signals |-> [s \in ids |-> IF s \in S THEN 360 ELSE 0],
   tight |-> tight]

(* The ancestors of n, n included.                                         *)
Above(T, n) ==
  {m \in T.ids : \E P \in SUBSET T.ids :
     /\ m \in P /\ n \in P
     /\ \A p \in P \ {m} : T.parent[p] \in P}

(* Inheritance through arguments follows time, so a trace with bad spans   *)
(* has an originator, unless a span inherits from a sibling                *)
(* (blame_engine.py:294, blame_engine.py:352).                             *)
Founded(T, roles) ==
  (\A n \in T.ids : Introducers(T, n) = {}) => roles.originator # {}

(* Blame goes to the bottom: an originator has no bad span below it and    *)
(* was given no bad output; a victim has no bad span below it but was; and *)
(* without anomalies or a storm no victim outranks an originator           *)
(* (blame_engine.py:380, blame_engine.py:409).                             *)
Apportioned(T, roles) ==
  LET score == Score(T, roles, {}) IN
  /\ \A m \in Bad(T) : Above(T, m) \cap (roles.originator \cup roles.manifestor) \subseteq {m}
  /\ \A n \in Bad(T) \ roles.propagator : n \in roles.manifestor <=> Givers(T, n) # {}
  /\ \A o \in roles.originator, v \in roles.manifestor : score[o] > score[v]

(* The results other than None; those without lineage are full or a blank  *)
(* text.                                                                   *)
Results == (Object \cup {Nil}) \ {Null}
Kinds == {kind \in [Results -> DOMAIN Deviation] : kind[Nil] \in {"full", "text"}}
AllFull == [o \in Results |-> "full"]
GivenNull(r) == {s \in trace[r] : Null \in span[s].args}

Plain(r) == {Emitted(r, kind, B, {}, {}) : kind \in Kinds, B \in SUBSET GivenNull(r)}

BlameFounded ==
  [][\A r \in Span : trace'[r] # trace[r] =>
       \A T \in Plain(r)' :
         LET roles == Roles(T) IN
         Bad(T) # {} => Founded(T, roles) /\ Apportioned(T, roles)]_vars

(* The chain shown is the failing spans with all that is above them, and a *)
(* victim is said to be caused by the nearest failing span above it        *)
(* (blame_engine.py:653, blame_engine.py:917).                             *)
Chained(T, roles) ==
  /\ FullChain(T, roles) = UNION {Above(T, n) : n \in Bad(T)}
  /\ \A v \in roles.manifestor :
       LET up == (Above(T, v) \cap Bad(T)) \ {v} IN
       CausedBy(T, roles)[v] = {m \in up : up \subseteq Above(T, m)}

(* However the anomalies rank the spans, a trace that has an originator    *)
(* names spans of the chain only, and one storm of retries counts as one   *)
(* failure: when all originators belong to it and its first failure is one *)
(* of them, the answer is not ambiguous (blame_engine.py:511). Two storms  *)
(* leave two failures, and may be.                                         *)
Settled(T, roles, first) ==
  LET score == Score(T, roles, first)
      O == roles.originator
  IN O # {} =>
       /\ \A t \in Highest(T.ids, score) : \A u \in Highest(T.ids \ {t}, score) :
            Named(T, roles, score, t, u) \subseteq FullChain(T, roles)
       /\ (\E n \in O \cap first : O \subseteq Retries(T, n))
            => Confidence(T, roles, score) = "high"

(* One failure of every storm. *)
FirstOf(T) ==
  {first \in SUBSET Storms(T) :
     \A n \in Storms(T) : \E m \in Storms(T) : first \cap Retries(T, n) = {m}}

(* The groups that are large enough for a storm. *)
Groups(r) ==
  {<<"call", p>> : p \in {q \in Span \cup {Nil} :
     Cardinality({s \in trace[r] : span[s].failed /\ span[s].parent = q}) >= 3}}

Anomalous(r) ==
  {Emitted(r, AllFull, B, {a}, tight) :
     a \in trace[r] \cup {Nil}, B \in {{}, GivenNull(r)}, tight \in SUBSET Groups(r)}

BlameNamed ==
  [][\A r \in Span : trace'[r] # trace[r] =>
       \A T \in Anomalous(r)' :
         LET roles == Roles(T) IN
         Bad(T) # {} =>
           Chained(T, roles) /\ \A first \in FirstOf(T) : Settled(T, roles, first)]_vars

(* Two spans never inherit their failure from each other, as the engine    *)
(* says of its sibling pass (blame_engine.py:328).                         *)
NoMutualVictims ==
  [][\A r \in Span : trace'[r] # trace[r] =>
       \A T \in Plain(r)' : \A m, n \in T.ids :
         ~(m \in Givers(T, n) /\ n \in Givers(T, m))]_vars
=============================================================================
