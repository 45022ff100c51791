------------------------------ MODULE TraceProps ------------------------------
(***************************************************************************)
(* What spans, traces and lineage promise.                                 *)
(***************************************************************************)
EXTENDS TraceContext

(* Every variable has its type, and a strand under a span has the registry *)
(* of that span's trace.                                                   *)
TypeOK ==
  /\ strand \in [Strand -> [pc : {"off", "on", "done"}, active : Span \cup {Nil},
                            reg : Span \cup {Nil}]]
  /\ span \in [Span -> [pc : {"unused", "open", "closed"}, parent : Span \cup {Nil},
                        root : Span \cup {Nil}, by : Strand, args : SUBSET Object,
                        failed : BOOLEAN, out : Object \cup {Nil}]]
  /\ children \in [Span -> SUBSET Span]
  /\ sources \in [Span -> SUBSET Span]
  /\ registry \in [Span -> [Object -> Span \cup {Nil}]]
  /\ refs \in [Span -> SUBSET Object]
  /\ trace \in [Span -> SUBSET Span]
  /\ alive \subseteq Object /\ late \subseteq Span
  /\ touched \in [Object -> Seq(Span)]
  /\ \A k \in Strand : Active(k) # Nil => strand[k].reg = span[Active(k)].root

(* No span of an emitted trace refers to a parent that is missing.         *)
TraceIsTree ==
  \A r \in Span : \A s \in trace[r] :
    /\ span[s].pc = "closed" /\ span[s].root = r
    /\ s # r => span[s].parent \in trace[r]

(* Under a parent that is in the trace, a finished span is missing only if *)
(* it finished after that parent had.                                      *)
MissingOnlyLate ==
  \A s \in Span :
    LET p == span[s].parent IN
    span[s].pc = "closed" /\ p # Nil /\ s \notin late =>
      \A r \in Span : p \in trace[r] => s \in trace[r]

(* A trace is a tree of finished spans, whatever strands they ran on, and  *)
(* the spans that it lacks are late or below a late one: no failure and no *)
(* interleaving loses another (trace.py:560, trace.py:706).                *)
TraceIsWhole == TraceIsTree /\ MissingOnlyLate

Holders(o) == {touched[o][i] : i \in DOMAIN touched[o]}

(* Of the spans of trace r that had o, the last to finish is t. *)
LastHolder(t, o, r) ==
  \E i \in DOMAIN touched[o] :
    /\ touched[o][i] = t /\ span[t].root = r
    /\ \A j \in DOMAIN touched[o] : j > i => span[touched[o][j]].root # r

(* A source of a call is a span that returned one of its arguments or      *)
(* failed with it, that very object and not an earlier one at the same     *)
(* identity (trace.py:325-357).                                            *)
LineageSound ==
  [][\A s \in Span : sources'[s] # sources[s] =>
       \A t \in sources'[s] : \E o \in span'[s].args : t \in Holders(o)]_vars

(* A call's sources name, for each argument that a span of its trace has   *)
(* returned, the span of that trace that was the last to finish with it:   *)
(* the one that returned it, or the last that was given it and failed,     *)
(* whatever strands they ran on (trace.py:353, trace.py:357-373).          *)
LineageKept ==
  [][\A s \in Span : span[s].pc = "unused" /\ span'[s].pc = "open" =>
       \A o \in span'[s].args :
         (\E t \in Holders(o) : span[t].root = span'[s].root /\ ~span[t].failed)
         => \E t \in sources'[s] : LastHolder(t, o, span'[s].root)]_vars
=============================================================================
