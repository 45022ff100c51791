----------------------------- MODULE TraceContext -----------------------------
(***************************************************************************)
(* Spans and data-flow lineage in the SDK: trace.py, the patched clients   *)
(* of patchers.py and the instrumented client of integrations/openai.py.   *)
(* A strand is a thread or a task with its own context variables, which    *)
(* refer to span contexts and registries that strands may share.           *)
(***************************************************************************)
EXTENDS Integers, FiniteSets, Sequences

CONSTANTS
  Strand,     \* threads and tasks
  Main,       \* the strand that runs first
  Span,       \* span ids
  Object,     \* identities, id(obj), of objects whose lineage is tracked
  Null,       \* the identity of None
  Nil         \* no span

ASSUME TraceConstants ==
  /\ Main \in Strand
  /\ Null \in Object
  /\ Nil \notin Span \cup Object

VARIABLES
  strand,     \* strand[k]: [pc, active, reg]: _active_span, and the root
              \* whose registry _output_registry and _output_refs refer to
  span,       \* span[s]: [pc, parent, root, by, args, failed, out]
  children,   \* children[s]: spans in the list children of its context
  sources,    \* sources[s]: source_span_ids
  registry,   \* registry[r][o]: the span that object o is attributed to
  refs,       \* refs[r]: objects that trace r keeps alive
  trace,      \* trace[r]: spans of the trace that r emitted
  alive,      \* objects that exist
  touched,    \* history: spans that returned an object or failed with it, in order
  late        \* history: spans recorded after their parent was finished

vars == <<strand, span, children, sources, registry, refs, trace, alive, touched, late>>

Unused == [pc |-> "unused", parent |-> Nil, root |-> Nil, by |-> Main,
           args |-> {}, failed |-> FALSE, out |-> Nil]

Init ==
  /\ strand = [k \in Strand |->
       [pc |-> IF k = Main THEN "on" ELSE "off", active |-> Nil, reg |-> Nil]]
  /\ span = [s \in Span |-> Unused]
  /\ children = [s \in Span |-> {}]
  /\ sources = [s \in Span |-> {}]
  /\ registry = [s \in Span |-> [o \in Object |-> Nil]]
  /\ refs = [s \in Span |-> {}]
  /\ trace = [s \in Span |-> {}]
  /\ alive = {Null}
  /\ touched = [o \in Object |-> <<>>]
  /\ late = {}

Active(k) == strand[k].active

(* k is in the body of the call s, that it made itself. *)
Running(k, s) ==
  strand[k].pc = "on" /\ Active(k) = s /\ span[s].by = k /\ span[s].pc = "open"

(* A task starts with a copy of the context, a thread with an empty one. *)
Spawn(k, j, copied) ==
  /\ strand[k].pc = "on" /\ strand[j].pc = "off"
  /\ strand' = [strand EXCEPT ![j] = IF copied THEN strand[k] ELSE [@ EXCEPT !.pc = "on"]]
  /\ UNCHANGED <<span, children, sources, registry, refs, trace, alive, touched, late>>

(* A strand ends when the calls that it made itself have returned. *)
EndStrand(k) ==
  /\ strand[k].pc = "on"
  /\ \A s \in Span : ~Running(k, s)
  /\ strand' = [strand EXCEPT ![k] = [pc |-> "done", active |-> Nil, reg |-> Nil]]
  /\ UNCHANGED <<span, children, sources, registry, refs, trace, alive, touched, late>>

RootOf(s, p) == IF p = Nil THEN s ELSE span[p].root
PerSpan(k, s) == s                                     \* mutated form
Reg(k, s) == IF Active(k) = Nil THEN s ELSE strand[k].reg

(* _detect_sources *)
Detected(r, A) == {registry[r][o] : o \in A} \ {Nil}

(* The first half of _run_traced_sync and _run_traced_async. *)
Call(k, s, A) ==
  LET p == Active(k) IN
  /\ strand[k].pc = "on" /\ span[s].pc = "unused"
  /\ span' = [span EXCEPT ![s] = [pc |-> "open", parent |-> p, root |-> RootOf(s, p),
                                  by |-> k, args |-> A, failed |-> FALSE, out |-> Nil]]
  /\ strand' = [strand EXCEPT ![k] = [@ EXCEPT !.active = s, !.reg = Reg(k, s)]]
  /\ sources' = [sources EXCEPT ![s] = Detected(Reg(k, s), A)]
  /\ UNCHANGED <<children, registry, refs, trace, alive, touched, late>>

Descendants(s) == children[s]                          \* mutated form
Subtree(s) == {s} \cup children[s]

LateUnder(s, p) == IF p # Nil /\ span[p].pc = "closed" THEN late \cup {s} ELSE late

(***************************************************************************)
(* _finalize_span: a child hands itself and what it was handed to its      *)
(* parent, a root emits.  The context variables are those of before.       *)
(***************************************************************************)
Finalize(k, s, failed, o) ==
  LET p == span[s].parent IN
  /\ span' = [span EXCEPT ![s] = [@ EXCEPT !.pc = "closed", !.failed = failed, !.out = o]]
  /\ strand' = [strand EXCEPT ![k] =
       [@ EXCEPT !.active = p, !.reg = IF p = Nil THEN Nil ELSE strand[k].reg]]
  /\ children' = IF p = Nil THEN children ELSE [children EXCEPT ![p] = @ \cup Subtree(s)]
  /\ trace' = IF p = Nil THEN [trace EXCEPT ![s] = {s} \cup children[s]] ELSE trace
  /\ late' = LateUnder(s, p)

Dropped(r, o) == refs                                  \* mutated form
Kept(r, o) == IF o = Null THEN refs ELSE [refs EXCEPT ![r] = @ \cup {o}]

(* _register_output: o may be new, at an identity that is free. *)
Return(k, s, o) ==
  LET r == strand[k].reg IN
  /\ Running(k, s)
  /\ alive' = alive \cup {o}
  /\ touched' = [touched EXCEPT ![o] = IF o \in alive THEN Append(@, s) ELSE <<s>>]
  /\ registry' = [registry EXCEPT ![r][o] = s]
  /\ refs' = Kept(r, o)
  /\ Finalize(k, s, FALSE, o)
  /\ UNCHANGED sources

(* A result that is a number, a flag or a short string leaves no lineage. *)
ReturnSmall(k, s) ==
  /\ Running(k, s)
  /\ Finalize(k, s, FALSE, Nil)
  /\ UNCHANGED <<sources, registry, refs, alive, touched>>

(* _propagate_bad_inputs: what the trace knows of the arguments of a call  *)
(* that failed is attributed to that call from now on.                     *)
Unpropagated(r, A, s) == registry[r]                   \* mutated form
Propagated(r, A, s) ==
  [o \in Object |-> IF o \in A /\ registry[r][o] # Nil THEN s ELSE registry[r][o]]

Raise(k, s) ==
  LET r == strand[k].reg
      A == span[s].args
  IN
  /\ Running(k, s)
  /\ registry' = [registry EXCEPT ![r] = Propagated(r, A, s)]
  /\ touched' = [o \in Object |-> IF o \in A THEN Append(touched[o], s) ELSE touched[o]]
  /\ Finalize(k, s, TRUE, Null)
  /\ UNCHANGED <<sources, refs, alive>>

Recorded(k, s, p, failed) ==
  span' = [span EXCEPT ![s] = [pc |-> "closed", parent |-> p, root |-> RootOf(s, p),
                               by |-> k, args |-> {}, failed |-> failed,
                               out |-> IF failed THEN Null ELSE Nil]]

(* A patched client traces the calls that are made under a span. *)
Patched(k) == strand[k].pc = "on" /\ Active(k) # Nil

(* record_child_span *)
PatchedCall(k, s, failed) ==
  LET p == Active(k) IN
  /\ Patched(k) /\ span[s].pc = "unused"
  /\ Recorded(k, s, p, failed)
  /\ children' = [children EXCEPT ![p] = @ \cup {s}]
  /\ late' = LateUnder(s, p)
  /\ UNCHANGED <<strand, sources, registry, refs, trace, alive, touched>>

(* A call of an instrumented client is a trace of its own. *)
InstrumentedCall(k, s, failed) ==
  /\ strand[k].pc = "on" /\ span[s].pc = "unused"
  /\ Recorded(k, s, Nil, failed)
  /\ trace' = [trace EXCEPT ![s] = {s}]
  /\ UNCHANGED <<strand, children, sources, registry, refs, alive, touched, late>>

(* Nobody refers to o any more: no open call, no registry in use. *)
Collect(o) ==
  /\ o \in alive \ {Null}
  /\ \A s \in Span : span[s].pc = "open" => o \notin span[s].args
  /\ \A k \in Strand : strand[k].reg # Nil => o \notin refs[strand[k].reg]
  /\ alive' = alive \ {o}
  /\ touched' = [touched EXCEPT ![o] = <<>>]
  /\ UNCHANGED <<strand, span, children, sources, registry, refs, trace, late>>

Next ==
  \/ \E k, j \in Strand, copied \in BOOLEAN : Spawn(k, j, copied)
  \/ \E k \in Strand : EndStrand(k)
  \/ \E k \in Strand, s \in Span :
       \/ \E A \in SUBSET alive : Call(k, s, A)
       \/ \E o \in Object : Return(k, s, o)
       \/ ReturnSmall(k, s) \/ Raise(k, s)
       \/ \E failed \in BOOLEAN : PatchedCall(k, s, failed) \/ InstrumentedCall(k, s, failed)
  \/ \E o \in Object : Collect(o)

Spec == Init /\ [][Next]_vars
=============================================================================
