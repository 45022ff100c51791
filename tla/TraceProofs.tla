----------------------------- MODULE TraceProofs -----------------------------
(***************************************************************************)
(* Proofs about spans, traces and lineage, for any strands, spans and      *)
(* objects.  The variables split in two: the tree of spans (strand, span,  *)
(* children, trace, late) and the lineage of objects (sources, registry,   *)
(* refs, alive, touched), of which the tree never reads.                   *)
(***************************************************************************)
EXTENDS TraceProps, SequenceTheorems, TLAPS

StrandType == [pc : {"off", "on", "done"}, active : Span \cup {Nil}, reg : Span \cup {Nil}]
SpanType == [pc : {"unused", "open", "closed"}, parent : Span \cup {Nil},
             root : Span \cup {Nil}, by : Strand, args : SUBSET Object,
             failed : BOOLEAN, out : Object \cup {Nil}]

TreeTypes ==
  /\ strand \in [Strand -> StrandType]
  /\ span \in [Span -> SpanType]
  /\ children \in [Span -> SUBSET Span]
  /\ trace \in [Span -> SUBSET Span]
  /\ late \subseteq Span

InUse(s) == span[s].pc # "unused"
Closed(s) == span[s].pc = "closed"

(* A strand under a span has the registry of that span's root.             *)
Under == \A k \in Strand : Active(k) # Nil => InUse(Active(k)) /\ strand[k].reg = span[Active(k)].root

(* Roots are inherited from parents; what is unused is empty.              *)
Rooted ==
  \A s \in Span :
    IF InUse(s)
    THEN /\ span[s].root \in Span /\ InUse(span[s].root) /\ span[s].parent # s
         /\ span[s].parent = Nil => span[s].root = s
         /\ span[s].parent # Nil => InUse(span[s].parent) /\ span[s].root = span[span[s].parent].root
    ELSE children[s] = {} /\ trace[s] = {}

(* A list of children holds, for each span, its parent too, if that is not *)
(* the owner of the list itself.                                           *)
HandedUp ==
  \A p \in Span : \A c \in children[p] :
    /\ Closed(c) /\ span[c].root = span[p].root
    /\ span[c].parent \in {p} \cup children[p]

(* A span that is not late is in every list that its parent is in.         *)
NoneLost ==
  \A s, q \in Span :
    Closed(s) /\ s \notin late /\ span[s].parent \in {q} \cup children[q] => s \in children[q]

TreeInv == TreeTypes /\ Under /\ Rooted /\ HandedUp /\ NoneLost /\ TraceIsWhole

LEMMA TreeInitially == Init => TreeInv
<1> SUFFICES ASSUME Init PROVE TreeInv
  OBVIOUS
<1> USE TraceConstants DEF Init, Unused
<1>1. strand \in [Strand -> StrandType]
  BY DEF StrandType
<1>2. span \in [Span -> SpanType]
  BY DEF SpanType
<1>3. TreeTypes
  BY <1>1, <1>2 DEF TreeTypes
<1>4. Under /\ Rooted /\ HandedUp /\ NoneLost
  BY DEF Under, Rooted, HandedUp, NoneLost, InUse, Closed, Active
<1>5. TraceIsWhole
  BY DEF TraceIsWhole, TraceIsTree, MissingOnlyLate
<1> QED
  BY <1>3, <1>4, <1>5 DEF TreeInv

treeVars == <<strand, span, children, trace, late>>

LEMMA TreeIdle == ASSUME TreeInv, UNCHANGED treeVars PROVE TreeInv'
BY DEF TreeInv, TreeTypes, Under, Rooted, HandedUp, NoneLost, TraceIsWhole, TraceIsTree,
       MissingOnlyLate, InUse, Closed, Active, treeVars

(* A step of the strands alone. *)
LEMMA TreeOfStrands ==
  ASSUME TreeInv, UNCHANGED <<span, children, trace, late>>,
         strand' \in [Strand -> StrandType], Under'
  PROVE  TreeInv'
BY DEF TreeInv, TreeTypes, Rooted, HandedUp, NoneLost, TraceIsWhole, TraceIsTree,
       MissingOnlyLate, InUse, Closed

LEMMA TreeSpawn ==
  ASSUME TreeInv, NEW k \in Strand, NEW j \in Strand, NEW copied \in BOOLEAN, Spawn(k, j, copied)
  PROVE  TreeInv'
<1>1. strand' = [strand EXCEPT ![j] = IF copied THEN strand[k] ELSE [@ EXCEPT !.pc = "on"]]
  BY DEF Spawn
<1>2. strand \in [Strand -> StrandType]
  BY DEF TreeInv, TreeTypes
<1>3. strand' \in [Strand -> StrandType]
  BY <1>1, <1>2 DEF StrandType
<1>4. \A i \in Strand : \E h \in Strand :
        strand'[i].active = strand[h].active /\ strand'[i].reg = strand[h].reg
  BY <1>1, <1>2 DEF StrandType
<1>5. Under'
  BY <1>4 DEF TreeInv, Under, Active, Spawn, InUse
<1> QED
  BY <1>3, <1>5, TreeOfStrands DEF Spawn

LEMMA TreeEndStrand ==
  ASSUME TreeInv, NEW k \in Strand, EndStrand(k) PROVE TreeInv'
<1>1. strand' = [strand EXCEPT ![k] = [pc |-> "done", active |-> Nil, reg |-> Nil]]
  BY DEF EndStrand
<1>2. strand' \in [Strand -> StrandType]
  BY <1>1 DEF StrandType, TreeInv, TreeTypes
<1>3. Under'
  BY <1>1 DEF TreeInv, TreeTypes, Under, Active, EndStrand, InUse
<1> QED
  BY <1>2, <1>3, TreeOfStrands DEF EndStrand

(* s, unused until now, becomes a span under p. *)
Fresh(s, p) ==
  /\ span[s].pc = "unused"
  /\ p # Nil => p \in Span /\ InUse(p)
  /\ span' \in [Span -> SpanType]
  /\ \A t \in Span \ {s} : span'[t] = span[t]
  /\ span'[s].parent = p /\ span'[s].root = RootOf(s, p)
  /\ span'[s].pc # "unused"

LEMMA FreshRooted ==
  ASSUME TreeInv, NEW s \in Span, NEW p \in Span \cup {Nil}, Fresh(s, p)
  PROVE  /\ p # s
         /\ \A t \in Span : InUse(t) => t # s /\ span'[t] = span[t]
         /\ \A t \in Span : span[t].parent = s /\ InUse(t) => FALSE
         /\ \A t, q \in Span : t \in children[q] => t # s /\ q # s
         /\ \A t, r \in Span : t \in trace[r] => t # s /\ r # s
         /\ span'[s].root \in Span
<1> USE TraceConstants DEF TreeInv, Fresh
<1>1. p # s
  BY DEF InUse
<1>2. \A t \in Span : InUse(t) => t # s /\ span'[t] = span[t]
  BY DEF InUse
<1>3. \A t \in Span : span[t].parent = s /\ InUse(t) => FALSE
  BY DEF Rooted, InUse
<1>4. \A t, q \in Span : t \in children[q] => t # s /\ q # s
  BY DEF HandedUp, Closed, Rooted, InUse
<1>5. \A t, r \in Span : t \in trace[r] => t # s /\ r # s
  BY DEF TraceIsWhole, TraceIsTree, Rooted, InUse
<1>6. span'[s].root \in Span
  BY DEF RootOf, Rooted
<1> QED
  BY <1>1, <1>2, <1>3, <1>4, <1>5, <1>6

(* The spans that there were keep their roots, and s has one. *)
LEMMA FreshRoots ==
  ASSUME TreeInv, NEW s \in Span, NEW p \in Span \cup {Nil}, Fresh(s, p),
         \A t \in Span \ {s} : children'[t] = {} \/ InUse(t),
         \A t \in Span \ {s} : trace'[t] = trace[t]
  PROVE  Rooted'
<1> USE TraceConstants
<1>1. /\ span'[s].root \in Span /\ span'[s].pc # "unused" /\ span'[s].parent # s
      /\ p = Nil => span'[s].root = s
      /\ p # Nil => span'[p].pc # "unused" /\ span'[s].root = span'[p].root
  BY FreshRooted DEF Fresh, RootOf, InUse
<1>2. span'[span'[s].root].pc # "unused"
  BY <1>1, FreshRooted DEF TreeInv, Rooted, Fresh, RootOf, InUse
<1>3. ASSUME NEW t \in Span \ {s}, InUse(t)
      PROVE  /\ span'[t].root \in Span /\ span'[span'[t].root].pc # "unused"
             /\ span'[t].parent # t
             /\ span'[t].parent = Nil => span'[t].root = t
             /\ span'[t].parent # Nil => /\ span'[span'[t].parent].pc # "unused"
                                         /\ span'[t].root = span'[span'[t].parent].root
  <2>1. span'[t] = span[t]
    BY DEF Fresh
  <2>2. /\ span[t].root \in Span /\ InUse(span[t].root) /\ span[t].parent # t
        /\ span[t].parent = Nil => span[t].root = t
        /\ span[t].parent # Nil => InUse(span[t].parent) /\ span[t].root = span[span[t].parent].root
    BY <1>3 DEF TreeInv, Rooted
  <2>3. span[t].parent \in Span \cup {Nil}
    BY DEF TreeInv, TreeTypes, SpanType
  <2> QED
    BY <2>1, <2>2, <2>3, FreshRooted DEF InUse
<1>4. ASSUME NEW t \in Span \ {s}, ~InUse(t)
      PROVE  children'[t] = {} /\ trace'[t] = {} /\ span'[t].pc = "unused"
  BY <1>4 DEF TreeInv, Rooted, Fresh, InUse
<1> QED
  BY <1>1, <1>2, <1>3, <1>4 DEF Rooted, InUse, Fresh

LEMMA TreeCall ==
  ASSUME TreeInv, NEW k \in Strand, NEW s \in Span, NEW A \in SUBSET alive,
         alive \subseteq Object, Call(k, s, A)
  PROVE  TreeInv'
<1> DEFINE p == Active(k)
<1> USE TraceConstants
<1>1. p \in Span \cup {Nil}
  BY DEF TreeInv, TreeTypes, StrandType, Active
<1>2. Fresh(s, p)
  <2>1. RootOf(s, p) \in Span \cup {Nil}
    BY <1>1 DEF RootOf, TreeInv, TreeTypes, SpanType
  <2>2. span' \in [Span -> SpanType]
    BY <1>1, <2>1 DEF Call, TreeInv, TreeTypes, SpanType
  <2>3. p # Nil => InUse(p)
    BY DEF TreeInv, Under
  <2> QED
    BY <1>1, <2>2, <2>3 DEF Fresh, Call, TreeInv, TreeTypes
<1>3. UNCHANGED <<children, trace, late>> /\ span'[s].pc = "open"
  BY DEF Call, TreeInv, TreeTypes
<1>4. /\ strand' \in [Strand -> StrandType]
      /\ strand'[k].active = s /\ strand'[k].reg = Reg(k, s)
      /\ \A j \in Strand \ {k} : strand'[j] = strand[j]
  <2>1. strand' = [strand EXCEPT ![k] = [strand[k] EXCEPT !.active = s, !.reg = Reg(k, s)]]
    BY DEF Call
  <2>2. Reg(k, s) \in Span \cup {Nil} /\ strand[k] \in StrandType
    BY DEF Reg, TreeInv, TreeTypes, StrandType
  <2>3. [strand[k] EXCEPT !.active = s, !.reg = Reg(k, s)] \in StrandType
    BY <2>2 DEF StrandType
  <2>4. strand'[k] = [strand[k] EXCEPT !.active = s, !.reg = Reg(k, s)]
    BY <2>1 DEF TreeInv, TreeTypes
  <2>5. strand'[k].active = s /\ strand'[k].reg = Reg(k, s)
    BY <2>2, <2>4 DEF StrandType
  <2> QED
    BY <2>1, <2>3, <2>5 DEF TreeInv, TreeTypes
<1>5. Under'
  <2>1. span'[s].root = Reg(k, s)
    BY <1>2 DEF Fresh, RootOf, Reg, TreeInv, Under, Active
  <2>2. ASSUME NEW j \in Strand \ {k}, Active(j) # Nil
        PROVE  span'[Active(j)] = span[Active(j)]
    <3>1. Active(j) \in Span /\ InUse(Active(j))
      BY <2>2 DEF TreeInv, TreeTypes, Under, StrandType, Active
    <3> QED
      BY <1>1, <1>2, <3>1, FreshRooted
  <2> QED
    BY <1>2, <1>4, <2>1, <2>2 DEF Under, Active, InUse, TreeInv, Fresh
<1>6. Rooted'
  BY <1>1, <1>2, <1>3, FreshRoots DEF TreeInv, Rooted
<1>7. /\ \A t \in Span \ {s} : span'[t] = span[t]
      /\ \A t, q \in Span : t \in children[q] \/ t \in trace[q] => t # s /\ q # s
  BY <1>1, <1>2, FreshRooted DEF Fresh
<1>8. HandedUp'
  BY <1>3, <1>7 DEF TreeInv, TreeTypes, HandedUp, Closed
<1>9. NoneLost'
  <2> SUFFICES ASSUME NEW t \in Span, NEW q \in Span, Closed(t)', t \notin late,
                      span'[t].parent \in {q} \cup children[q]
               PROVE  t \in children[q]
    BY <1>3 DEF NoneLost
  <2>1. t # s
    BY <1>3 DEF Closed
  <2> QED
    BY <1>7, <2>1 DEF TreeInv, NoneLost, Closed
<1>10. TraceIsTree'
  BY <1>3, <1>7 DEF TreeInv, TreeTypes, TraceIsWhole, TraceIsTree
<1>11. MissingOnlyLate'
  <2> SUFFICES ASSUME NEW t \in Span, span'[t].pc = "closed", span'[t].parent # Nil, t \notin late,
                      NEW r \in Span, span'[t].parent \in trace[r]
               PROVE  t \in trace[r]
    BY <1>3 DEF MissingOnlyLate
  <2>1. t # s
    BY <1>3
  <2> QED
    BY <1>7, <2>1 DEF TreeInv, TraceIsWhole, MissingOnlyLate
<1> QED
  BY <1>2, <1>3, <1>4, <1>5, <1>6, <1>8, <1>9, <1>10, <1>11 DEF TreeInv, TreeTypes, Fresh, TraceIsWhole

(* s, open or unused until now, is finished. *)
Finished(s, p, r) ==
  /\ ~Closed(s)
  /\ span' \in [Span -> SpanType]
  /\ \A t \in Span \ {s} : span'[t] = span[t]
  /\ span'[s].pc = "closed" /\ span'[s].parent = p /\ span'[s].root = r
  /\ InUse(s) => span[s].root = r

LEMMA TreeHanded ==
  ASSUME TreeInv, NEW s \in Span, NEW p \in Span \ {s}, Finished(s, p, span[p].root),
         children' = [children EXCEPT ![p] = @ \cup Subtree(s)],
         trace' = trace, late' = LateUnder(s, p)
  PROVE  HandedUp' /\ NoneLost' /\ TraceIsWhole'
<1> USE TraceConstants
<1>1. /\ \A t \in Span \ {s} : span'[t] = span[t]
      /\ \A t, q \in Span : t \in children[q] \/ t \in trace[q] => Closed(t) /\ t # s
      /\ Closed(s)' /\ span'[s].parent = p /\ span'[s].root = span[p].root
      /\ children[s] # {} => span[s].root = span[p].root
  BY DEF Finished, TreeInv, HandedUp, TraceIsWhole, TraceIsTree, Closed, Rooted
<1>2. /\ \A q \in Span \ {p} : children'[q] = children[q]
      /\ children'[p] = children[p] \cup {s} \cup children[s]
      /\ \A q \in Span : children[q] \in SUBSET Span
  BY DEF Subtree, TreeInv, TreeTypes
<1>3. /\ late \subseteq late'
      /\ Closed(p) => s \in late'
  BY DEF LateUnder, Closed
<1>4. HandedUp'
  <2> SUFFICES ASSUME NEW q \in Span, NEW c \in children'[q]
               PROVE  /\ Closed(c)' /\ span'[c].root = span'[q].root
                      /\ span'[c].parent \in {q} \cup children'[q]
    BY DEF HandedUp
  <2>1. CASE c \in children[q]
    <3>1. /\ Closed(c) /\ span[c].root = span[q].root
          /\ span[c].parent \in {q} \cup children[q]
      BY <2>1 DEF TreeInv, HandedUp
    <3>2. c \in Span /\ c # s /\ children[q] \subseteq children'[q]
      BY <1>1, <1>2, <2>1
    <3>3. span'[q].root = span[q].root
      BY <1>1, <2>1
    <3> QED
      BY <1>1, <3>1, <3>2, <3>3 DEF Closed
  <2>2. CASE q = p /\ c = s
    BY <1>1, <2>2
  <2>3. CASE q = p /\ c \in children[s]
    <3>1. /\ Closed(c) /\ span[c].root = span[s].root
          /\ span[c].parent \in {s} \cup children[s]
      BY <2>3 DEF TreeInv, HandedUp
    <3> QED
      BY <1>1, <1>2, <2>3, <3>1 DEF Closed
  <2> QED
    BY <1>2, <2>1, <2>2, <2>3
<1>5. NoneLost'
  <2> SUFFICES ASSUME NEW t \in Span, NEW q \in Span, Closed(t)', t \notin late',
                      span'[t].parent \in {q} \cup children'[q]
               PROVE  t \in children'[q]
    BY DEF NoneLost
  <2>1. CASE t = s
    BY <1>1, <1>2, <1>3, <2>1
  <2>2. CASE t # s
    <3>1. Closed(t) /\ t \notin late /\ span[t].parent = span'[t].parent
      BY <1>1, <1>3, <2>2 DEF Closed
    <3> QED
      BY <1>2, <3>1 DEF TreeInv, NoneLost
  <2> QED
    BY <2>1, <2>2
<1>6. TraceIsTree'
  BY <1>1 DEF TreeInv, TreeTypes, TraceIsWhole, TraceIsTree
<1>7. MissingOnlyLate'
  BY <1>1, <1>3 DEF TreeInv, TraceIsWhole, MissingOnlyLate
<1> QED
  BY <1>4, <1>5, <1>6, <1>7 DEF TraceIsWhole

LEMMA TreeSent ==
  ASSUME TreeInv, NEW s \in Span, Finished(s, Nil, s),
         UNCHANGED <<children, late>>, trace' = [trace EXCEPT ![s] = {s} \cup children[s]]
  PROVE  HandedUp' /\ NoneLost' /\ TraceIsWhole'
<1> USE TraceConstants
<1>1. /\ \A t \in Span \ {s} : span'[t] = span[t]
      /\ \A t, q \in Span : t \in children[q] \/ t \in trace[q] => Closed(t) /\ t # s
      /\ Closed(s)' /\ span'[s].parent = Nil /\ span'[s].root = s
      /\ children[s] # {} => span[s].root = s
  BY DEF Finished, TreeInv, HandedUp, TraceIsWhole, TraceIsTree, Closed, Rooted
<1>2. /\ \A q \in Span \ {s} : trace'[q] = trace[q]
      /\ trace'[s] = {s} \cup children[s]
      /\ \A q \in Span : children[q] \in SUBSET Span /\ trace[q] \in SUBSET Span
  BY DEF TreeInv, TreeTypes
<1>3. HandedUp'
  <2> SUFFICES ASSUME NEW q \in Span, NEW c \in children[q]
               PROVE  /\ Closed(c)' /\ span'[c].root = span'[q].root
                      /\ span'[c].parent \in {q} \cup children[q]
    BY DEF HandedUp
  <2>1. span'[c] = span[c] /\ span'[q].root = span[q].root
    BY <1>1, <1>2
  <2> QED
    BY <2>1 DEF TreeInv, HandedUp, Closed
<1>4. NoneLost'
  <2> SUFFICES ASSUME NEW t \in Span, NEW q \in Span, Closed(t)', t \notin late,
                      span'[t].parent \in {q} \cup children[q]
               PROVE  t \in children[q]
    BY DEF NoneLost
  <2>1. t # s
    BY <1>1, <1>2
  <2> QED
    BY <1>1, <2>1 DEF TreeInv, NoneLost, Closed
<1>5. TraceIsTree'
  <2> SUFFICES ASSUME NEW r \in Span, NEW t \in trace'[r]
               PROVE  /\ span'[t].pc = "closed" /\ span'[t].root = r
                      /\ t # r => span'[t].parent \in trace'[r]
    BY DEF TraceIsTree
  <2>1. CASE r # s
    BY <1>1, <1>2, <2>1 DEF TreeInv, TraceIsWhole, TraceIsTree
  <2>2. CASE r = s /\ t = s
    BY <1>1, <2>2 DEF Closed
  <2>3. CASE r = s /\ t \in children[s]
    <3>1. /\ Closed(t) /\ span[t].root = span[s].root
          /\ span[t].parent \in {s} \cup children[s]
      BY <2>3 DEF TreeInv, HandedUp
    <3> QED
      BY <1>1, <1>2, <2>3, <3>1 DEF Closed
  <2> QED
    BY <1>2, <2>1, <2>2, <2>3
<1>6. MissingOnlyLate'
  <2> SUFFICES ASSUME NEW t \in Span, span'[t].pc = "closed", span'[t].parent # Nil, t \notin late,
                      NEW r \in Span, span'[t].parent \in trace'[r]
               PROVE  t \in trace'[r]
    BY DEF MissingOnlyLate
  <2>1. span'[t] = span[t]
    BY <1>1
  <2>2. CASE r # s
    BY <1>2, <2>1, <2>2 DEF TreeInv, TraceIsWhole, MissingOnlyLate
  <2>3. CASE r = s
    BY <1>2, <2>1, <2>3 DEF TreeInv, NoneLost, Closed
  <2> QED
    BY <2>2, <2>3
<1> QED
  BY <1>3, <1>4, <1>5, <1>6 DEF TraceIsWhole

LEMMA TreeFinalize ==
  ASSUME TreeInv, NEW k \in Strand, NEW s \in Span, Running(k, s), NEW failed \in BOOLEAN,
         NEW o \in Object \cup {Nil}, Finalize(k, s, failed, o)
  PROVE  TreeInv'
<1> DEFINE p == span[s].parent
<1> USE TraceConstants
<1>1. /\ span[s].pc = "open" /\ InUse(s) /\ ~Closed(s)
      /\ strand[k].active = s /\ strand[k].reg = span[s].root
      /\ p \in Span \cup {Nil} /\ p # s
      /\ p = Nil => span[s].root = s
      /\ p # Nil => InUse(p) /\ span[s].root = span[p].root
  BY DEF Running, InUse, Closed, TreeInv, TreeTypes, SpanType, Under, Rooted, Active
<1>2. /\ span' \in [Span -> SpanType]
      /\ \A t \in Span \ {s} : span'[t] = span[t]
      /\ span'[s].pc = "closed" /\ span'[s].parent = p /\ span'[s].root = span[s].root
  <2> DEFINE new == [span[s] EXCEPT !.pc = "closed", !.failed = failed, !.out = o]
  <2>1. span[s] \in SpanType
    BY DEF TreeInv, TreeTypes
  <2>2. new \in SpanType
    BY <2>1 DEF SpanType
  <2>3. new.pc = "closed" /\ new.parent = p /\ new.root = span[s].root
    BY <2>1 DEF SpanType
  <2>4. span' = [span EXCEPT ![s] = new]
    BY DEF Finalize
  <2> HIDE DEF new
  <2> QED
    BY <2>2, <2>3, <2>4 DEF TreeInv, TreeTypes
<1>3. Finished(s, p, span[s].root)
  BY <1>1, <1>2 DEF Finished
<1>4. strand' \in [Strand -> StrandType] /\ Under'
  <2> DEFINE new == [strand[k] EXCEPT !.active = p, !.reg = IF p = Nil THEN Nil ELSE strand[k].reg]
  <2>1. strand[k] \in StrandType
    BY DEF TreeInv, TreeTypes
  <2>2. new \in StrandType
    BY <1>1, <2>1 DEF StrandType
  <2>3. new.active = p /\ (p # Nil => new.reg = span[p].root)
    BY <1>1, <2>1 DEF StrandType
  <2>4. strand' = [strand EXCEPT ![k] = new]
    BY DEF Finalize
  <2> HIDE DEF new
  <2>5. /\ strand' \in [Strand -> StrandType] /\ strand'[k] = new
        /\ \A j \in Strand \ {k} : strand'[j] = strand[j]
    BY <2>2, <2>4 DEF TreeInv, TreeTypes
  <2>6. \A t \in Span : InUse(t) => span'[t].pc # "unused" /\ span'[t].root = span[t].root
    BY <1>2 DEF InUse
  <2>7. \A j \in Strand : strand[j].active \in Span \cup {Nil}
    BY DEF TreeInv, TreeTypes, StrandType
  <2>8. Under'
    BY <1>1, <2>3, <2>5, <2>6, <2>7 DEF TreeInv, Under, Active, InUse
  <2> QED
    BY <2>5, <2>8
<1>5. CASE p # Nil
  <2>1. /\ children' = [children EXCEPT ![p] = @ \cup Subtree(s)]
        /\ trace' = trace /\ late' = LateUnder(s, p)
    BY <1>5 DEF Finalize
  <2>2. HandedUp' /\ NoneLost' /\ TraceIsWhole'
    BY <1>1, <1>3, <1>5, <2>1, TreeHanded
  <2>3. children' \in [Span -> SUBSET Span] /\ late' \subseteq Span
    BY <2>1 DEF Subtree, LateUnder, TreeInv, TreeTypes
  <2>4. Rooted'
    <3>1. \A t \in Span : children'[t] = children[t] \/ InUse(t)
      BY <1>1, <2>1 DEF TreeInv, TreeTypes
    <3>2. \A t \in Span : /\ span'[t].root = span[t].root /\ span'[t].parent = span[t].parent
                          /\ InUse(t)' <=> InUse(t)
                          /\ span[t].parent \in Span \cup {Nil}
      BY <1>1, <1>2 DEF InUse, TreeInv, TreeTypes, SpanType
    <3> QED
      BY <2>1, <3>1, <3>2 DEF TreeInv, Rooted
  <2> QED
    BY <1>2, <1>4, <2>1, <2>2, <2>3, <2>4 DEF TreeInv, TreeTypes
<1>6. CASE p = Nil
  <2>1. /\ trace' = [trace EXCEPT ![s] = {s} \cup children[s]]
        /\ children' = children /\ late' = late
    BY <1>6 DEF Finalize, LateUnder
  <2>2. HandedUp' /\ NoneLost' /\ TraceIsWhole'
    BY <1>1, <1>3, <1>6, <2>1, TreeSent
  <2>3. trace' \in [Span -> SUBSET Span]
    BY <2>1 DEF TreeInv, TreeTypes
  <2>4. Rooted'
    <3>1. \A t \in Span : trace'[t] = trace[t] \/ InUse(t)
      BY <1>1, <2>1 DEF TreeInv, TreeTypes
    <3>2. \A t \in Span : /\ span'[t].root = span[t].root /\ span'[t].parent = span[t].parent
                          /\ InUse(t)' <=> InUse(t)
                          /\ span[t].parent \in Span \cup {Nil}
      BY <1>1, <1>2 DEF InUse, TreeInv, TreeTypes, SpanType
    <3> QED
      BY <2>1, <3>1, <3>2 DEF TreeInv, Rooted
  <2> QED
    BY <1>2, <1>4, <2>1, <2>2, <2>3, <2>4 DEF TreeInv, TreeTypes
<1> QED
  BY <1>5, <1>6

(* A span that is recorded at once. *)
LEMMA TreeRecorded ==
  ASSUME TreeInv, NEW k \in Strand, NEW s \in Span, NEW p \in Span \cup {Nil}, p # Nil => InUse(p),
         span[s].pc = "unused", NEW failed \in BOOLEAN, Recorded(k, s, p, failed)
  PROVE  /\ Fresh(s, p) /\ Finished(s, p, RootOf(s, p))
         /\ strand' = strand => Under'
         /\ Subtree(s) = {s}
<1> USE TraceConstants
<1>1. RootOf(s, p) \in Span \cup {Nil}
  BY DEF RootOf, TreeInv, TreeTypes, SpanType
<1>2. /\ span' = [span EXCEPT ![s] = [pc |-> "closed", parent |-> p, root |-> RootOf(s, p),
                       by |-> k, args |-> {}, failed |-> failed,
                       out |-> IF failed THEN Null ELSE Nil]]
  BY DEF Recorded
<1>3. /\ span' \in [Span -> SpanType]
      /\ \A t \in Span \ {s} : span'[t] = span[t]
      /\ span'[s].pc = "closed" /\ span'[s].parent = p /\ span'[s].root = RootOf(s, p)
  BY <1>1, <1>2 DEF SpanType, TreeInv, TreeTypes
<1>4. Fresh(s, p) /\ Finished(s, p, RootOf(s, p))
  BY <1>3 DEF Fresh, Finished, Closed, InUse
<1>5. ASSUME strand' = strand PROVE Under'
  <2>1. \A j \in Strand : Active(j) \in Span \cup {Nil}
    BY DEF TreeInv, TreeTypes, StrandType, Active
  <2>2. \A t \in Span : InUse(t) => InUse(t)' /\ span'[t].root = span[t].root
    BY <1>3 DEF InUse
  <2> QED
    BY <1>5, <2>1, <2>2 DEF TreeInv, Under, Active
<1>6. Subtree(s) = {s}
  BY DEF TreeInv, Rooted, InUse, Subtree
<1> QED
  BY <1>4, <1>5, <1>6

LEMMA TreePatched ==
  ASSUME TreeInv, NEW k \in Strand, NEW s \in Span, NEW failed \in BOOLEAN, PatchedCall(k, s, failed)
  PROVE  TreeInv'
<1> DEFINE p == Active(k)
<1> USE TraceConstants
<1>1. p \in Span /\ InUse(p) /\ p # s /\ span[s].pc = "unused"
  BY DEF PatchedCall, Patched, TreeInv, TreeTypes, StrandType, Under, Active, InUse
<1>2. /\ children' = [children EXCEPT ![p] = @ \cup {s}]
      /\ trace' = trace /\ late' = LateUnder(s, p) /\ strand' = strand
      /\ Recorded(k, s, p, failed)
  BY DEF PatchedCall
<1>3. /\ Fresh(s, p) /\ Finished(s, p, span[p].root) /\ Under' /\ Subtree(s) = {s}
  BY <1>1, <1>2, TreeRecorded DEF RootOf
<1>4. HandedUp' /\ NoneLost' /\ TraceIsWhole'
  BY <1>1, <1>2, <1>3, TreeHanded
<1>5. Rooted'
  <2>1. \A t \in Span \ {s} : children'[t] = {} \/ InUse(t)
    BY <1>1, <1>2 DEF TreeInv, TreeTypes, Rooted
  <2> QED
    BY <1>1, <1>2, <1>3, <2>1, FreshRoots
<1>6. children' \in [Span -> SUBSET Span] /\ late' \subseteq Span
  BY <1>2 DEF LateUnder, TreeInv, TreeTypes
<1> QED
  BY <1>2, <1>3, <1>4, <1>5, <1>6 DEF TreeInv, TreeTypes, Fresh

LEMMA TreeInstrumented ==
  ASSUME TreeInv, NEW k \in Strand, NEW s \in Span, NEW failed \in BOOLEAN,
         InstrumentedCall(k, s, failed)
  PROVE  TreeInv'
<1> USE TraceConstants
<1>1. /\ trace' = [trace EXCEPT ![s] = {s}] /\ span[s].pc = "unused"
      /\ UNCHANGED <<strand, children, late>> /\ Recorded(k, s, Nil, failed)
  BY DEF InstrumentedCall
<1>2. Fresh(s, Nil) /\ Finished(s, Nil, s) /\ Under' /\ Subtree(s) = {s}
  BY <1>1, TreeRecorded DEF RootOf
<1>3. HandedUp' /\ NoneLost' /\ TraceIsWhole'
  BY <1>1, <1>2, TreeSent DEF Subtree
<1>4. trace' \in [Span -> SUBSET Span] /\ \A t \in Span \ {s} : trace'[t] = trace[t]
  BY <1>1 DEF TreeInv, TreeTypes
<1>5. Rooted'
  <2>1. \A t \in Span \ {s} : children'[t] = {} \/ InUse(t)
    BY <1>1 DEF TreeInv, Rooted
  <2> QED
    BY <1>2, <1>4, <2>1, FreshRoots
<1> QED
  BY <1>1, <1>2, <1>3, <1>4, <1>5 DEF TreeInv, TreeTypes, Fresh

LEMMA TreeStep == TreeInv /\ alive \subseteq Object /\ [Next]_vars => TreeInv'
<1> SUFFICES ASSUME TreeInv, alive \subseteq Object, [Next]_vars PROVE TreeInv'
  OBVIOUS
<1>1. ASSUME NEW k \in Strand, NEW s \in Span, NEW o \in Object, Return(k, s, o) PROVE TreeInv'
  BY <1>1, TreeFinalize DEF Return
<1>2. ASSUME NEW k \in Strand, NEW s \in Span, ReturnSmall(k, s) PROVE TreeInv'
  BY <1>2, TreeFinalize DEF ReturnSmall
<1>3. ASSUME NEW k \in Strand, NEW s \in Span, Raise(k, s) PROVE TreeInv'
  BY <1>3, TreeFinalize, TraceConstants DEF Raise
<1>4. ASSUME NEW o \in Object, Collect(o) PROVE TreeInv'
  BY <1>4, TreeIdle DEF Collect, treeVars
<1>5. CASE UNCHANGED vars
  BY <1>5, TreeIdle DEF vars, treeVars
<1> QED
  BY <1>1, <1>2, <1>3, <1>4, <1>5, TreeSpawn, TreeEndStrand, TreeCall, TreePatched, TreeInstrumented
     DEF Next

(***************************************************************************)
(* Lineage.  A registry that some strand still refers to attributes only   *)
(* objects that it keeps alive, each to the span of its trace that was the *)
(* last to finish with it; and it attributes every object that a span of   *)
(* its trace has returned.                                                 *)
(***************************************************************************)
LineageTypes ==
  /\ sources \in [Span -> SUBSET Span]
  /\ registry \in [Span -> [Object -> Span \cup {Nil}]]
  /\ refs \in [Span -> SUBSET Object]
  /\ alive \subseteq Object
  /\ touched \in [Object -> Seq(Span)]

HeldBy(r, o) ==
  registry[r][o] # Nil =>
    LastHolder(registry[r][o], o, r) /\ o \in alive /\ (o = Null \/ o \in refs[r])

Held == \A k \in Strand, o \in Object : strand[k].reg # Nil => HeldBy(strand[k].reg, o)
Blank == \A s \in Span, o \in Object : ~InUse(s) => registry[s][o] = Nil
Known ==
  \A o \in Object : \A t \in Holders(o) :
    Closed(t) /\ (~span[t].failed => registry[span[t].root][o] # Nil)

LineageInv == LineageTypes /\ Held /\ Blank /\ Known

TraceInv == TreeInv /\ LineageInv

LEMMA LineageInitially == Init => LineageInv
<1> SUFFICES ASSUME Init PROVE LineageInv
  OBVIOUS
<1> USE TraceConstants DEF Init
<1>1. LineageTypes
  <2>1. <<>> \in Seq(Span)
    BY EmptySeq
  <2> QED
    BY <2>1 DEF LineageTypes
<1>2. \A o \in Object : Holders(o) = {}
  BY DEF Holders
<1>3. Held /\ Blank /\ Known
  BY <1>2 DEF Held, HeldBy, Blank, Known, Unused, InUse, Closed
<1> QED
  BY <1>1, <1>3 DEF LineageInv

LEMMA HoldersTyped ==
  ASSUME LineageTypes, NEW o \in Object
  PROVE  /\ Holders(o) \subseteq Span
         /\ DOMAIN touched[o] = 1..Len(touched[o]) /\ Len(touched[o]) \in Nat
BY DEF LineageTypes, Holders

(* The same of any history h and spans sp. *)
LastIn(h, sp, t, r) ==
  \E i \in DOMAIN h :
    /\ h[i] = t /\ sp[t].root = r
    /\ \A j \in DOMAIN h : j > i => sp[h[j]].root # r

LEMMA LastHolds ==
  ASSUME NEW t, NEW o, NEW r, LastHolder(t, o, r) PROVE t \in Holders(o)
BY DEF LastHolder, Holders

(* Spans that have finished stay what they are, and so do the holders of   *)
(* an object that a step leaves alone.                                     *)
LEMMA HoldersCarried ==
  ASSUME Known, NEW o \in Object, touched'[o] = touched[o],
         \A t \in Span : Closed(t) => span'[t] = span[t],
         LineageTypes
  PROVE  /\ Holders(o)' = Holders(o)
         /\ \A t, r : LastHolder(t, o, r) => LastIn(touched'[o], span', t, r)
<1>1. Holders(o)' = Holders(o)
  BY DEF Holders
<1>2. \A i \in DOMAIN touched[o] : span'[touched[o][i]] = span[touched[o][i]]
  BY HoldersTyped DEF Known, Holders
<1>3. \A t, r : LastHolder(t, o, r) => LastIn(touched'[o], span', t, r)
  BY <1>2 DEF LastHolder, LastIn
<1> QED
  BY <1>1, <1>3

(* The span that finishes with an object is its trace's last holder; other *)
(* traces keep theirs.                                                     *)
LEMMA HolderAppended ==
  ASSUME Known, LineageTypes, NEW o \in Object, NEW s \in Span,
         touched'[o] = Append(touched[o], s),
         \A t \in Span : Closed(t) => span'[t] = span[t]
  PROVE  /\ Holders(o)' = Holders(o) \cup {s}
         /\ LastIn(touched'[o], span', s, span'[s].root)
         /\ \A t, r : LastHolder(t, o, r) /\ span'[s].root # r => LastIn(touched'[o], span', t, r)
<1> DEFINE n == Len(touched[o])
           q == Append(touched[o], s)
<1>1. /\ n \in Nat /\ DOMAIN touched[o] = 1..n /\ DOMAIN q = 1..(n + 1)
      /\ q[n + 1] = s /\ \A i \in 1..n : q[i] = touched[o][i]
  BY AppendProperties DEF LineageTypes
<1>2. \A i \in 1..n : span'[touched[o][i]] = span[touched[o][i]]
  BY <1>1, HoldersTyped DEF Known, Holders
<1> HIDE DEF q, n
<1>3. DOMAIN touched'[o] = 1..(n + 1) /\ touched'[o][n + 1] = s
      /\ \A i \in 1..n : touched'[o][i] = touched[o][i]
  BY <1>1 DEF q
<1>4. Holders(o)' = Holders(o) \cup {s}
  <2>1. \A i \in 1..(n + 1) : i \in 1..n \/ i = n + 1
    BY <1>1
  <2>2. 1..n \subseteq 1..(n + 1) /\ n + 1 \in 1..(n + 1)
    BY <1>1
  <2> QED
    BY <1>1, <1>3, <2>1, <2>2 DEF Holders
<1>5. LastIn(touched'[o], span', s, span'[s].root)
  <2>1. n + 1 \in 1..(n + 1) /\ \A j \in 1..(n + 1) : ~(j > n + 1)
    BY <1>1
  <2> QED
    BY <1>3, <2>1 DEF LastIn
<1>6. ASSUME NEW t, NEW r, LastHolder(t, o, r), span'[s].root # r PROVE LastIn(touched'[o], span', t, r)
  <2>1. PICK i \in 1..n : /\ touched[o][i] = t /\ span[t].root = r
                          /\ \A j \in 1..n : j > i => span[touched[o][j]].root # r
    BY <1>1, <1>6 DEF LastHolder
  <2>2. i \in 1..(n + 1) /\ touched'[o][i] = t /\ span'[t].root = r
    BY <1>1, <1>2, <1>3, <2>1
  <2>3. ASSUME NEW j \in 1..(n + 1), j > i PROVE span'[touched'[o][j]].root # r
    <3>1. CASE j = n + 1
      BY <1>3, <1>6, <3>1
    <3>2. CASE j \in 1..n
      BY <1>2, <1>3, <2>1, <2>3, <3>2
    <3> QED
      BY <1>1, <3>1, <3>2
  <2> QED
    BY <1>3, <2>2, <2>3 DEF LastIn
<1> QED
  BY <1>4, <1>5, <1>6

(* A step of strands and spans that no registry takes part in. *)
LEMMA LineageCarried ==
  ASSUME TraceInv, UNCHANGED <<registry, refs, alive, touched>>,
         sources' \in [Span -> SUBSET Span],
         \A j \in Strand :
           \/ strand'[j].reg = Nil
           \/ \E h \in Strand : strand'[j].reg = strand[h].reg
           \/ strand'[j].reg \in Span /\ ~InUse(strand'[j].reg),
         \A t \in Span : Closed(t) => span'[t] = span[t],
         \A t \in Span : span'[t].pc = "unused" => span[t].pc = "unused"
  PROVE  LineageInv'
<1>1. LineageTypes'
  BY DEF TraceInv, LineageInv, LineageTypes
<1>2. Held'
  <2> SUFFICES ASSUME NEW j \in Strand, NEW x \in Object, strand'[j].reg # Nil,
                      registry[strand'[j].reg][x] # Nil
               PROVE  LET q == strand'[j].reg IN
                        LastIn(touched'[x], span', registry[q][x], q) /\ x \in alive /\ (x = Null \/ x \in refs[q])
    BY DEF Held, HeldBy, LastHolder, LastIn
  <2> DEFINE q == strand'[j].reg
  <2>1. LastHolder(registry[q][x], x, q) /\ x \in alive /\ (x = Null \/ x \in refs[q])
    BY DEF TraceInv, LineageInv, Held, HeldBy, Blank
  <2>2. LastIn(touched'[x], span', registry[q][x], q)
    BY <2>1, HoldersCarried DEF TraceInv, LineageInv
  <2> QED
    BY <2>1, <2>2
<1>3. Blank'
  BY DEF TraceInv, LineageInv, Blank, InUse
<1>4. Known'
  <2>1. \A o \in Object : Holders(o)' = Holders(o) /\ Holders(o) \subseteq Span
    BY HoldersCarried, HoldersTyped DEF TraceInv, LineageInv
  <2> QED
    BY <2>1 DEF TraceInv, LineageInv, Known, Closed
<1> QED
  BY <1>1, <1>2, <1>3, <1>4 DEF LineageInv

LEMMA LineageSpawn ==
  ASSUME TraceInv, NEW k \in Strand, NEW j \in Strand, NEW copied \in BOOLEAN, Spawn(k, j, copied)
  PROVE  LineageInv'
<1>1. strand' = [strand EXCEPT ![j] = IF copied THEN strand[k] ELSE [@ EXCEPT !.pc = "on"]]
  BY DEF Spawn
<1>2. strand \in [Strand -> StrandType]
  BY DEF TraceInv, TreeInv, TreeTypes
<1>3. \A i \in Strand : \E h \in Strand : strand'[i].reg = strand[h].reg
  BY <1>1, <1>2 DEF StrandType
<1> QED
  BY <1>3, LineageCarried DEF Spawn, TraceInv, LineageInv, LineageTypes

LEMMA LineageEndStrand ==
  ASSUME TraceInv, NEW k \in Strand, EndStrand(k) PROVE LineageInv'
<1>1. strand' = [strand EXCEPT ![k] = [pc |-> "done", active |-> Nil, reg |-> Nil]]
  BY DEF EndStrand
<1>2. \A i \in Strand : strand'[i].reg = Nil \/ strand'[i] = strand[i]
  BY <1>1 DEF TraceInv, TreeInv, TreeTypes
<1> QED
  BY <1>2, LineageCarried DEF EndStrand, TraceInv, LineageInv, LineageTypes

LEMMA LineageIdle ==
  ASSUME TraceInv, UNCHANGED vars PROVE LineageInv'
BY LineageCarried DEF vars, TraceInv, LineageInv, LineageTypes

(* What a call is given of the registry it will use. *)
LEMMA Detection ==
  ASSUME TraceInv, NEW k \in Strand, NEW s \in Span, span[s].pc = "unused", NEW A \in SUBSET alive
  PROVE  /\ Reg(k, s) \in Span /\ Detected(Reg(k, s), A) \subseteq Span
         /\ Active(k) = Nil => Reg(k, s) = s /\ Detected(s, A) = {}
         /\ Active(k) # Nil => Reg(k, s) = strand[k].reg
<1> USE TraceConstants
<1>1. Reg(k, s) \in Span
  BY DEF Reg, TraceInv, TreeInv, TreeTypes, StrandType, Under, Rooted, InUse, Active
<1>2. A \subseteq Object
  BY DEF TraceInv, LineageInv, LineageTypes
<1>3. Detected(Reg(k, s), A) \subseteq Span
  BY <1>1, <1>2 DEF Detected, TraceInv, LineageInv, LineageTypes
<1>4. Active(k) = Nil => Reg(k, s) = s /\ Detected(s, A) = {}
  BY <1>2 DEF Reg, Detected, TraceInv, LineageInv, Blank, InUse
<1>5. Active(k) # Nil => Reg(k, s) = strand[k].reg
  BY DEF Reg
<1> QED
  BY <1>1, <1>3, <1>4, <1>5

LEMMA LineageCall ==
  ASSUME TraceInv, NEW k \in Strand, NEW s \in Span, NEW A \in SUBSET alive, Call(k, s, A)
  PROVE  LineageInv'
<1>1. span[s].pc = "unused"
  BY DEF Call
<1>2. sources' \in [Span -> SUBSET Span]
  BY <1>1, Detection DEF Call, TraceInv, LineageInv, LineageTypes
<1>3. \A j \in Strand : strand'[j].reg \in {strand[j].reg, s}
  <2> DEFINE new == [strand[k] EXCEPT !.active = s, !.reg = Reg(k, s)]
  <2>1. strand' = [strand EXCEPT ![k] = new]
    BY DEF Call
  <2>2. new.reg = Reg(k, s)
    BY DEF TraceInv, TreeInv, TreeTypes, StrandType
  <2> HIDE DEF new
  <2> QED
    BY <2>1, <2>2 DEF Reg, TraceInv, TreeInv, TreeTypes
<1>4. /\ \A t \in Span \ {s} : span'[t] = span[t]
      /\ span'[s].pc = "open"
  BY DEF Call, TraceInv, TreeInv, TreeTypes
<1>5. UNCHANGED <<registry, refs, alive, touched>>
  BY DEF Call
<1> QED
  BY <1>1, <1>2, <1>3, <1>4, <1>5, LineageCarried DEF Closed, InUse

LEMMA LineageRecorded ==
  ASSUME TraceInv, NEW k \in Strand, NEW s \in Span, NEW failed \in BOOLEAN,
         PatchedCall(k, s, failed) \/ InstrumentedCall(k, s, failed)
  PROVE  LineageInv'
<1>1. /\ span[s].pc = "unused"
      /\ \A t \in Span \ {s} : span'[t] = span[t]
      /\ span'[s].pc = "closed"
  BY DEF PatchedCall, InstrumentedCall, Recorded, TraceInv, TreeInv, TreeTypes
<1>2. UNCHANGED <<strand, sources, registry, refs, alive, touched>>
  BY DEF PatchedCall, InstrumentedCall
<1>3. sources' \in [Span -> SUBSET Span]
  BY <1>2 DEF TraceInv, LineageInv, LineageTypes
<1>4. \A t \in Span : Closed(t) => span'[t] = span[t]
  BY <1>1 DEF Closed
<1>5. \A t \in Span : span'[t].pc = "unused" => span[t].pc = "unused"
  BY <1>1
<1> QED
  BY <1>2, <1>3, <1>4, <1>5, LineageCarried

(* The registry of a finished call is its root's, that of its strand after *)
(* it the same or none.                                                    *)
LEMMA Finalized ==
  ASSUME TraceInv, NEW k \in Strand, NEW s \in Span, Running(k, s), NEW failed \in BOOLEAN,
         NEW o \in Object \cup {Nil}, Finalize(k, s, failed, o)
  PROVE  /\ strand[k].reg = span[s].root /\ span[s].root \in Span /\ InUse(span[s].root)
         /\ span[s].pc = "open" /\ span[s].args \subseteq Object
         /\ \A t \in Span : Closed(t) => t # s /\ span'[t] = span[t]
         /\ \A t \in Span : span'[t].pc = "unused" <=> span[t].pc = "unused"
         /\ Closed(s)' /\ span'[s].root = span[s].root /\ span'[s].failed = failed
         /\ \A j \in Strand : strand'[j].reg \in {strand[j].reg, Nil}
<1> DEFINE new == [span[s] EXCEPT !.pc = "closed", !.failed = failed, !.out = o]
           to == [strand[k] EXCEPT !.active = span[s].parent,
                                   !.reg = IF span[s].parent = Nil THEN Nil ELSE strand[k].reg]
<1> USE TraceConstants
<1>1. /\ strand[k].reg = span[s].root /\ span[s].root \in Span /\ InUse(span[s].root)
      /\ span[s].pc = "open" /\ span[s].args \subseteq Object
  BY DEF Running, Active, TraceInv, TreeInv, TreeTypes, SpanType, Under, Rooted, InUse
<1>2. span' = [span EXCEPT ![s] = new] /\ strand' = [strand EXCEPT ![k] = to]
  BY DEF Finalize
<1>3. new.pc = "closed" /\ new.root = span[s].root /\ new.failed = failed
  BY DEF TraceInv, TreeInv, TreeTypes, SpanType
<1>4. to.reg \in {strand[k].reg, Nil}
  BY DEF TraceInv, TreeInv, TreeTypes, StrandType
<1> HIDE DEF new, to
<1>5. \A j \in Strand : strand'[j].reg \in {strand[j].reg, Nil}
  BY <1>2, <1>4 DEF TraceInv, TreeInv, TreeTypes
<1>6. /\ \A t \in Span \ {s} : span'[t] = span[t]
      /\ Closed(s)' /\ span'[s].root = span[s].root /\ span'[s].failed = failed
  BY <1>2, <1>3 DEF TraceInv, TreeInv, TreeTypes, Closed
<1> QED
  BY <1>1, <1>5, <1>6 DEF Closed

LEMMA LineageReturnSmall ==
  ASSUME TraceInv, NEW k \in Strand, NEW s \in Span, ReturnSmall(k, s) PROVE LineageInv'
<1>1. /\ \A t \in Span : Closed(t) => span'[t] = span[t]
      /\ \A t \in Span : span'[t].pc = "unused" => span[t].pc = "unused"
      /\ \A j \in Strand : strand'[j].reg \in {strand[j].reg, Nil}
  BY Finalized DEF ReturnSmall
<1>2. UNCHANGED <<sources, registry, refs, alive, touched>>
  BY DEF ReturnSmall
<1>3. sources' \in [Span -> SUBSET Span]
  BY <1>2 DEF TraceInv, LineageInv, LineageTypes
<1> QED
  BY <1>1, <1>2, <1>3, LineageCarried

LEMMA LineageReturn ==
  ASSUME TraceInv, NEW k \in Strand, NEW s \in Span, NEW o \in Object, Return(k, s, o)
  PROVE  LineageInv'
<1> DEFINE r == span[s].root
<1> USE TraceConstants DEF TraceInv, LineageInv
<1>1. /\ strand[k].reg = r /\ r \in Span /\ InUse(r)
      /\ \A t \in Span : Closed(t) => t # s /\ span'[t] = span[t]
      /\ \A t \in Span : span'[t].pc = "unused" <=> span[t].pc = "unused"
      /\ Closed(s)' /\ span'[s].root = r /\ ~span'[s].failed
      /\ \A j \in Strand : strand'[j].reg \in {strand[j].reg, Nil}
  BY Finalized DEF Return
<1>2. /\ registry' = [registry EXCEPT ![r][o] = s]
      /\ touched' = [touched EXCEPT ![o] = IF o \in alive THEN Append(@, s) ELSE <<s>>]
      /\ alive' = alive \cup {o} /\ refs' = Kept(r, o) /\ sources' = sources
  BY <1>1 DEF Return
<1>3. LineageTypes'
  <2>1. registry' \in [Span -> [Object -> Span \cup {Nil}]]
    BY <1>1, <1>2 DEF LineageTypes
  <2>2. touched' \in [Object -> Seq(Span)] /\ refs' \in [Span -> SUBSET Object]
    <3>1. Append(touched[o], s) \in Seq(Span) /\ <<s>> \in Seq(Span)
      BY AppendProperties DEF LineageTypes
    <3> QED
      BY <1>2, <3>1 DEF LineageTypes, Kept
  <2> QED
    BY <1>2, <2>1, <2>2 DEF LineageTypes
<1>4. /\ \A q \in Span, x \in Object :
           registry'[q][x] = IF q = r /\ x = o THEN s ELSE registry[q][x]
      /\ \A x \in Object \ {o} : touched'[x] = touched[x]
      /\ \A q \in Span : refs[q] \subseteq refs'[q]
      /\ o = Null \/ o \in refs'[r]
  BY <1>1, <1>2 DEF LineageTypes, Kept
<1>8. \A x \in Object \ {o} : /\ Holders(x)' = Holders(x)
                              /\ \A t, q : LastHolder(t, x, q) => LastIn(touched'[x], span', t, q)
  BY <1>1, <1>4, HoldersCarried
<1>9. /\ LastIn(touched'[o], span', s, r)
      /\ o \in alive => \A t, q : LastHolder(t, o, q) /\ q # r => LastIn(touched'[o], span', t, q)
      /\ Holders(o)' \subseteq Holders(o) \cup {s}
  <2>1. CASE o \in alive
    <3>1. touched'[o] = Append(touched[o], s)
      BY <1>2, <2>1 DEF LineageTypes
    <3> QED
      BY <1>1, <3>1, HolderAppended
  <2>2. CASE o \notin alive
    <3>1. touched'[o] = <<s>>
      BY <1>2, <2>2 DEF LineageTypes
    <3>2. DOMAIN touched'[o] = {1} /\ touched'[o][1] = s
      BY <3>1
    <3> QED
      BY <1>1, <2>2, <3>2 DEF LastIn, Holders
  <2> QED
    BY <2>1, <2>2
<1>5. Held'
  <2> SUFFICES ASSUME NEW j \in Strand, NEW x \in Object, strand'[j].reg # Nil,
                      registry'[strand'[j].reg][x] # Nil
               PROVE  LET q == strand'[j].reg IN
                        LastIn(touched'[x], span', registry'[q][x], q) /\ x \in alive' /\ (x = Null \/ x \in refs'[q])
    BY DEF Held, HeldBy, LastHolder, LastIn
  <2> DEFINE q == strand'[j].reg
  <2>1. q = strand[j].reg /\ q \in Span
    BY <1>1 DEF TreeInv, TreeTypes, StrandType
  <2>2. CASE q = r /\ x = o
    <3>1. registry'[q][x] = s
      BY <1>4, <2>1, <2>2
    <3> QED
      BY <1>2, <1>4, <1>9, <2>2, <3>1
  <2>3. CASE ~(q = r /\ x = o)
    <3>1. registry'[q][x] = registry[q][x]
      BY <1>4, <2>1, <2>3
    <3>2. LastHolder(registry[q][x], x, q) /\ x \in alive /\ (x = Null \/ x \in refs[q])
      BY <2>1, <3>1 DEF Held, HeldBy
    <3>3. LastIn(touched'[x], span', registry'[q][x], q)
      BY <1>8, <1>9, <2>3, <3>1, <3>2
    <3> QED
      BY <1>2, <1>4, <2>1, <3>1, <3>2, <3>3
  <2> QED
    BY <2>2, <2>3
<1>6. Blank'
  BY <1>1, <1>4 DEF Blank, InUse
<1>7. Known'
  <2> SUFFICES ASSUME NEW x \in Object, NEW t \in Holders(x)'
               PROVE  Closed(t)' /\ (~span'[t].failed => registry'[span'[t].root][x] # Nil)
    BY DEF Known
  <2>1. CASE t = s /\ x = o
    BY <1>1, <1>4, <2>1
  <2>2. CASE t \in Holders(x)
    <3>1. Closed(t) /\ (~span[t].failed => registry[span[t].root][x] # Nil)
      BY <2>2 DEF Known
    <3>2. t \in Span /\ span'[t] = span[t] /\ span[t].root \in Span
      BY <1>1, <2>2, <3>1, HoldersTyped DEF TreeInv, Rooted, InUse, Closed
    <3> QED
      BY <1>4, <3>1, <3>2 DEF Closed
  <2> QED
    BY <1>8, <1>9, <2>1, <2>2
<1> QED
  BY <1>3, <1>5, <1>6, <1>7

LEMMA LineageRaise ==
  ASSUME TraceInv, NEW k \in Strand, NEW s \in Span, Raise(k, s) PROVE LineageInv'
<1> DEFINE r == span[s].root
           A == span[s].args
<1> USE TraceConstants DEF TraceInv, LineageInv
<1>1. /\ strand[k].reg = r /\ r \in Span /\ InUse(r) /\ A \subseteq Object
      /\ \A t \in Span : Closed(t) => t # s /\ span'[t] = span[t]
      /\ \A t \in Span : span'[t].pc = "unused" <=> span[t].pc = "unused"
      /\ Closed(s)' /\ span'[s].failed /\ span'[s].root = r
      /\ \A j \in Strand : strand'[j].reg \in {strand[j].reg, Nil}
  BY Finalized DEF Raise
<1>2. /\ registry' = [registry EXCEPT ![r] =
           [x \in Object |-> IF x \in A /\ registry[r][x] # Nil THEN s ELSE registry[r][x]]]
      /\ touched' = [x \in Object |-> IF x \in A THEN Append(touched[x], s) ELSE touched[x]]
      /\ UNCHANGED <<sources, refs, alive>>
  BY <1>1 DEF Raise, Propagated
<1>3. LineageTypes'
  <2>1. registry' \in [Span -> [Object -> Span \cup {Nil}]]
    BY <1>1, <1>2 DEF LineageTypes
  <2>2. touched' \in [Object -> Seq(Span)]
    <3>1. \A x \in Object : Append(touched[x], s) \in Seq(Span)
      BY AppendProperties DEF LineageTypes
    <3> QED
      BY <1>2, <3>1 DEF LineageTypes
  <2> QED
    BY <1>2, <2>1, <2>2 DEF LineageTypes
<1>4. /\ \A q \in Span, x \in Object :
           \/ registry'[q][x] = registry[q][x] /\ (x \in A /\ q = r => registry[q][x] = Nil)
           \/ registry[q][x] # Nil /\ x \in A /\ q = r /\ registry'[q][x] = s
  BY <1>1, <1>2 DEF LineageTypes
<1>8. ASSUME NEW x \in Object
      PROVE  /\ Holders(x)' \subseteq Holders(x) \cup {s}
             /\ x \in A => LastIn(touched'[x], span', s, r)
             /\ \A t, q : LastHolder(t, x, q) /\ ~(x \in A /\ q = r) => LastIn(touched'[x], span', t, q)
  <2>1. CASE x \in A
    <3>1. touched'[x] = Append(touched[x], s)
      BY <1>2, <2>1
    <3> QED
      BY <1>1, <2>1, <3>1, HolderAppended
  <2>2. CASE x \notin A
    <3>1. touched'[x] = touched[x]
      BY <1>2, <2>2
    <3> QED
      BY <1>1, <2>2, <3>1, HoldersCarried
  <2> QED
    BY <2>1, <2>2
<1>5. Held'
  <2> SUFFICES ASSUME NEW j \in Strand, NEW x \in Object, strand'[j].reg # Nil,
                      registry'[strand'[j].reg][x] # Nil
               PROVE  LET q == strand'[j].reg IN
                        LastIn(touched'[x], span', registry'[q][x], q) /\ x \in alive' /\ (x = Null \/ x \in refs'[q])
    BY DEF Held, HeldBy, LastHolder, LastIn
  <2> DEFINE q == strand'[j].reg
  <2>1. q = strand[j].reg /\ q \in Span
    BY <1>1 DEF TreeInv, TreeTypes, StrandType
  <2>2. registry[q][x] # Nil
    BY <1>4, <2>1
  <2>3. LastHolder(registry[q][x], x, q) /\ x \in alive /\ (x = Null \/ x \in refs[q])
    BY <2>1, <2>2 DEF Held, HeldBy
  <2>4. LastIn(touched'[x], span', registry'[q][x], q)
    <3>1. CASE x \in A /\ q = r
      <4>1. registry'[q][x] = s
        BY <1>4, <2>1, <2>2, <3>1
      <4> QED
        BY <1>8, <3>1, <4>1
    <3>2. CASE ~(x \in A /\ q = r)
      <4>1. registry'[q][x] = registry[q][x]
        BY <1>4, <2>1, <3>2
      <4> QED
        BY <1>8, <2>3, <3>2, <4>1
    <3> QED
      BY <3>1, <3>2
  <2> QED
    BY <1>2, <2>1, <2>3, <2>4
<1>6. Blank'
  <2> SUFFICES ASSUME NEW t \in Span, NEW x \in Object, span'[t].pc = "unused"
               PROVE  registry'[t][x] = Nil
    BY DEF Blank, InUse
  <2>1. registry[t][x] = Nil
    BY <1>1 DEF Blank, InUse
  <2> QED
    BY <1>4, <2>1
<1>7. Known'
  <2> SUFFICES ASSUME NEW x \in Object, NEW t \in Holders(x)'
               PROVE  Closed(t)' /\ (~span'[t].failed => registry'[span'[t].root][x] # Nil)
    BY DEF Known
  <2>1. CASE t = s
    BY <1>1, <2>1
  <2>2. CASE t \in Holders(x)
    <3>1. Closed(t) /\ (~span[t].failed => registry[span[t].root][x] # Nil)
      BY <2>2 DEF Known
    <3>2. t \in Span /\ span'[t] = span[t] /\ span[t].root \in Span
      BY <1>1, <2>2, <3>1, HoldersTyped DEF TreeInv, Rooted, InUse, Closed
    <3>3. s # Nil
      OBVIOUS
    <3> QED
      BY <1>4, <3>1, <3>2, <3>3 DEF Closed
  <2> QED
    BY <1>8, <2>1, <2>2
<1> QED
  BY <1>3, <1>5, <1>6, <1>7

LEMMA LineageCollect ==
  ASSUME TraceInv, NEW o \in Object, Collect(o) PROVE LineageInv'
<1> USE DEF TraceInv, LineageInv
<1>1. /\ o # Null
      /\ \A k \in Strand : strand[k].reg # Nil => o \notin refs[strand[k].reg]
      /\ alive' = alive \ {o} /\ touched' = [touched EXCEPT ![o] = <<>>]
      /\ UNCHANGED <<strand, span, sources, registry, refs>>
  BY DEF Collect
<1>2. LineageTypes'
  <2>1. <<>> \in Seq(Span)
    BY EmptySeq
  <2> QED
    BY <1>1, <2>1 DEF LineageTypes
<1>5. \A x \in Object \ {o} : /\ Holders(x)' = Holders(x)
                              /\ \A t, q : LastHolder(t, x, q) => LastIn(touched'[x], span', t, q)
  <2>1. \A x \in Object \ {o} : touched'[x] = touched[x]
    BY <1>1 DEF LineageTypes
  <2> QED
    BY <1>1, <2>1, HoldersCarried
<1>6. Holders(o)' = {}
  <2>1. DOMAIN touched'[o] = {}
    BY <1>1 DEF LineageTypes
  <2> QED
    BY <2>1 DEF Holders
<1>3. Held'
  <2> SUFFICES ASSUME NEW j \in Strand, NEW x \in Object, strand[j].reg # Nil,
                      registry[strand[j].reg][x] # Nil
               PROVE  LET q == strand[j].reg IN
                        LastIn(touched'[x], span', registry[q][x], q) /\ x \in alive' /\ (x = Null \/ x \in refs[q])
    BY <1>1 DEF Held, HeldBy, LastHolder, LastIn
  <2>1. LET q == strand[j].reg IN
          LastHolder(registry[q][x], x, q) /\ x \in alive /\ (x = Null \/ x \in refs[q])
    BY DEF Held, HeldBy
  <2>2. x # o
    BY <1>1, <2>1
  <2> QED
    BY <1>1, <1>5, <2>1, <2>2
<1>4. Blank' /\ Known'
  <2>1. Blank'
    BY <1>1 DEF Blank, InUse
  <2>2. \A x \in Object : Holders(x)' \subseteq Holders(x)
    BY <1>5, <1>6
  <2> QED
    BY <1>1, <2>1, <2>2 DEF Known, Closed
<1> QED
  BY <1>2, <1>3, <1>4

LEMMA TraceInitially == Init => TraceInv
BY TreeInitially, LineageInitially DEF TraceInv

LEMMA TraceStep == TraceInv /\ [Next]_vars => TraceInv'
<1> SUFFICES ASSUME TraceInv, [Next]_vars PROVE TraceInv'
  OBVIOUS
<1>1. TreeInv'
  BY TreeStep DEF TraceInv, LineageInv, LineageTypes
<1>2. LineageInv'
  BY LineageSpawn, LineageEndStrand, LineageCall, LineageReturn, LineageReturnSmall, LineageRaise,
     LineageRecorded, LineageCollect, LineageIdle DEF Next
<1> QED
  BY <1>1, <1>2 DEF TraceInv

LEMMA TraceAlways == Spec => []TraceInv
BY TraceInitially, TraceStep, PTL DEF Spec

(***************************************************************************)
(* Every variable keeps its type, and a strand under a span uses the       *)
(* registry of that span's trace (trace.py:403).                           *)
(***************************************************************************)
THEOREM TracesTyped == Spec => []TypeOK
<1>1. TraceInv => TypeOK
  BY DEF TraceInv, TreeInv, TreeTypes, StrandType, SpanType, Under, LineageInv, LineageTypes, TypeOK
<1> QED
  BY <1>1, TraceAlways, PTL

(***************************************************************************)
(* A trace is a tree of finished spans, and a finished span that a trace   *)
(* with its parent lacks is late: however many strands share a trace, and  *)
(* however deep it is (trace.py:560, trace.py:706).                        *)
(***************************************************************************)
THEOREM TracesAreWhole == Spec => []TraceIsWhole
<1>1. TraceInv => TraceIsWhole
  BY DEF TraceInv, TreeInv
<1> QED
  BY <1>1, TraceAlways, PTL

LEMMA SourcesByCall ==
  ASSUME TraceInv, [Next]_vars, NEW s \in Span,
         \A k \in Strand, A \in SUBSET alive : ~Call(k, s, A)
  PROVE  sources'[s] = sources[s] /\ (span'[s].pc = "open" => span[s].pc # "unused")
<1> DEFINE Silent(t) == sources'[t] = sources[t] /\ (span'[t].pc = "open" => span[t].pc # "unused")
<1>1. ASSUME NEW k \in Strand, NEW t \in Span, NEW A \in SUBSET alive, Call(k, t, A)
      PROVE  Silent(s)
  <2>1. t # s
    BY <1>1
  <2>2. sources'[s] = sources[s] /\ span'[s] = span[s]
    BY <1>1, <2>1 DEF Call, TraceInv, LineageInv, LineageTypes, TreeInv, TreeTypes
  <2> QED
    BY <2>2
<1>2. ASSUME NEW k \in Strand, NEW t \in Span, NEW failed \in BOOLEAN,
             PatchedCall(k, t, failed) \/ InstrumentedCall(k, t, failed)
      PROVE  Silent(s)
  <2>1. sources' = sources
    BY <1>2 DEF PatchedCall, InstrumentedCall
  <2>2. span'[s] = span[s] \/ span'[s].pc = "closed"
    BY <1>2 DEF PatchedCall, InstrumentedCall, Recorded, TraceInv, TreeInv, TreeTypes
  <2> QED
    BY <2>1, <2>2
<1>3. ASSUME NEW k \in Strand, NEW t \in Span,
             (\E o \in Object : Return(k, t, o)) \/ ReturnSmall(k, t) \/ Raise(k, t)
      PROVE  Silent(s)
  <2>1. sources' = sources
    BY <1>3 DEF Return, ReturnSmall, Raise
  <2>2. span'[s].pc = "unused" <=> span[s].pc = "unused"
    BY <1>3, Finalized, TraceConstants DEF Return, ReturnSmall, Raise
  <2> QED
    BY <2>1, <2>2
<1>4. ASSUME NEW o \in Object, Collect(o) PROVE Silent(s)
  BY <1>4 DEF Collect
<1>5. ASSUME NEW k \in Strand, NEW j \in Strand, NEW copied \in BOOLEAN,
             Spawn(k, j, copied) \/ EndStrand(k)
      PROVE  Silent(s)
  BY <1>5 DEF Spawn, EndStrand
<1>6. ASSUME UNCHANGED vars PROVE Silent(s)
  BY <1>6 DEF vars
<1> HIDE DEF Silent
<1>7. Silent(s)
  <2>1. CASE Next
    BY <1>1, <1>2, <1>3, <1>4, <1>5, <2>1 DEF Next
  <2> QED
    BY <1>6, <2>1
<1> QED
  BY <1>7 DEF Silent

(* What a call is given: spans that had its arguments, of each argument    *)
(* that is known the last.                                                 *)
LEMMA CallDetects ==
  ASSUME TraceInv, NEW k \in Strand, NEW s \in Span, NEW A \in SUBSET alive, Call(k, s, A)
  PROVE  /\ span'[s].args = A
         /\ \A t \in sources'[s] : \E o \in A : t \in Holders(o)
         /\ \A o \in A : (\E t \in Holders(o) : span[t].root = span'[s].root /\ ~span[t].failed)
              => \E t \in sources'[s] : LastHolder(t, o, span'[s].root)
<1> DEFINE r == Reg(k, s)
<1> USE TraceConstants
<1>1. /\ span[s].pc = "unused" /\ A \subseteq Object
      /\ r \in Span /\ r # Nil
      /\ Active(k) = Nil => r = s
      /\ Active(k) # Nil => r = strand[k].reg
  BY Detection DEF Call, TraceInv, LineageInv, LineageTypes
<1>2. /\ sources'[s] = Detected(r, A)
      /\ span'[s].args = A /\ span'[s].root = RootOf(s, Active(k))
  BY DEF Call, TraceInv, LineageInv, LineageTypes, TreeInv, TreeTypes
<1>3. span'[s].root = r
  BY <1>1, <1>2 DEF RootOf, TraceInv, TreeInv, Under, Active
<1>4. ASSUME NEW o \in A, registry[r][o] # Nil
      PROVE  LastHolder(registry[r][o], o, r)
  <2>1. Active(k) # Nil
    BY <1>1, <1>4 DEF TraceInv, LineageInv, Blank, InUse
  <2> QED
    BY <1>1, <1>4, <2>1 DEF TraceInv, LineageInv, Held, HeldBy
<1>5. \A t \in sources'[s] : \E o \in A : t \in Holders(o)
  BY <1>2, <1>4, LastHolds DEF Detected
<1>6. ASSUME NEW o \in A, NEW t \in Holders(o), span[t].root = r, ~span[t].failed
      PROVE  \E u \in sources'[s] : LastHolder(u, o, r)
  <2>1. registry[r][o] # Nil
    BY <1>1, <1>6 DEF TraceInv, LineageInv, Known
  <2>2. registry[r][o] \in sources'[s]
    BY <1>2, <2>1 DEF Detected
  <2> QED
    BY <1>4, <2>1, <2>2
<1> QED
  BY <1>2, <1>3, <1>5, <1>6

(***************************************************************************)
(* A source of a call has had one of its arguments, that object and        *)
(* not an earlier one at its identity (trace.py:325-357).                  *)
(***************************************************************************)
THEOREM LineageIsSound == Spec => LineageSound
<1>1. TraceInv /\ [Next]_vars =>
        [\A s \in Span : sources'[s] # sources[s] =>
           \A t \in sources'[s] : \E o \in span'[s].args : t \in Holders(o)]_vars
  <2> SUFFICES ASSUME TraceInv, [Next]_vars, NEW s \in Span, sources'[s] # sources[s],
                      NEW t \in sources'[s]
               PROVE  \E o \in span'[s].args : t \in Holders(o)
    OBVIOUS
  <2>1. PICK k \in Strand, A \in SUBSET alive : Call(k, s, A)
    BY SourcesByCall
  <2> QED
    BY <2>1, CallDetects
<1> QED
  BY <1>1, TraceAlways, PTL DEF Spec, LineageSound

(***************************************************************************)
(* A call's sources name the last holder of every argument that a span of  *)
(* its trace has returned, the one that failed with it last if one did     *)
(* (trace.py:353, trace.py:357-373).                                       *)
(***************************************************************************)
THEOREM LineageIsKept == Spec => LineageKept
<1>1. TraceInv /\ [Next]_vars =>
        [\A s \in Span : span[s].pc = "unused" /\ span'[s].pc = "open" =>
           \A o \in span'[s].args :
             (\E t \in Holders(o) : span[t].root = span'[s].root /\ ~span[t].failed)
             => \E t \in sources'[s] : LastHolder(t, o, span'[s].root)]_vars
  <2> SUFFICES ASSUME TraceInv, [Next]_vars, NEW s \in Span,
                      span[s].pc = "unused", span'[s].pc = "open", NEW o \in span'[s].args,
                      \E t \in Holders(o) : span[t].root = span'[s].root /\ ~span[t].failed
               PROVE  \E t \in sources'[s] : LastHolder(t, o, span'[s].root)
    OBVIOUS
  <2>1. PICK k \in Strand, A \in SUBSET alive : Call(k, s, A)
    BY SourcesByCall
  <2> QED
    BY <2>1, CallDetects
<1> QED
  BY <1>1, TraceAlways, PTL DEF Spec, LineageKept
=============================================================================
