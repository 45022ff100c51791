----------------------------- MODULE IngestProofs -----------------------------
(***************************************************************************)
(* In any instance an acknowledged trace is stored completely, and the     *)
(* live feed shows no trace that is not.                                   *)
(***************************************************************************)
EXTENDS IngestProps, SequenceTheorems, FiniteSetTheorems, TLAPS

USE FeedConstants, IngestConstants

feedless == <<request, acked, tables, storeUp>>

LEMMA RequestTrace ==
  ASSUME NEW i \in Request
  PROVE  TraceOf(i) \in Trace
BY DEF Request, TraceOf

ACast == [trace : Trace, todo : SUBSET Socket, stale : SUBSET Socket]

(* A send that is over leaves a broadcast that is still of its type. *)
LEMMA SendType ==
  ASSUME NEW C, ACast \subseteq C, NEW f \in [Broadcaster -> C], NEW b \in Broadcaster,
         f[b] \in ACast, NEW w \in Socket
  PROVE  /\ [f EXCEPT ![b].todo = @ \ {w}] \in [Broadcaster -> C]
         /\ [f EXCEPT ![b].todo = @ \ {w}, ![b].stale = @ \cup {w}] \in [Broadcaster -> C]
         /\ \A x \in Broadcaster :
              /\ [f EXCEPT ![b].todo = @ \ {w}][x].trace = f[x].trace
              /\ [f EXCEPT ![b].todo = @ \ {w}, ![b].stale = @ \cup {w}][x].trace = f[x].trace
<1>1. [f EXCEPT ![b].todo = @ \ {w}] \in [Broadcaster -> C]
  BY DEF ACast
<1>2. [f EXCEPT ![b].todo = @ \ {w}, ![b].stale = @ \cup {w}] \in [Broadcaster -> C]
  BY DEF ACast
<1>3. ASSUME NEW x \in Broadcaster
      PROVE  /\ [f EXCEPT ![b].todo = @ \ {w}][x].trace = f[x].trace
             /\ [f EXCEPT ![b].todo = @ \ {w}, ![b].stale = @ \cup {w}][x].trace = f[x].trace
  <2>1. CASE x = b
    BY <2>1 DEF ACast
  <2>2. CASE x # b
    BY <2>2
  <2>. QED  BY <2>1, <2>2
<1>. QED  BY <1>1, <1>2, <1>3

LEMMA LocalType ==
  ASSUME FeedType, NEW b \in Broadcaster, NEW r \in Replica, NEW t \in Trace, Local(b, r, t)
  PROVE  cast' \in [Broadcaster -> Cast]
BY DEF FeedType, Local, Cast

LEMMA BroadcastType ==
  ASSUME FeedType, NEW i \in Request, NEW r \in Replica, NEW t \in Trace, Broadcast(i, r, t)
  PROVE  FeedType'
<1>1. cast' \in [Broadcaster -> Cast]
  <2>1. CASE UNCHANGED cast
    BY <2>1 DEF FeedType, Cast
  <2>2. CASE Local(i, r, t)
    BY <2>2, LocalType DEF Broadcaster
  <2>. QED  BY <2>1, <2>2 DEF Broadcast, Both, Published
<1>2. inbox' \in [Replica -> Seq(Trace)]
  <2>1. CASE Deliver(t)
    BY <2>1 DEF Deliver, FeedType
  <2>2. CASE UNCHANGED inbox
    BY <2>2 DEF FeedType
  <2>. QED  BY <2>1, <2>2 DEF Broadcast, Both, Published
<1>3. feed' \in [Replica -> Seq(Trace)]
  <2>1. CASE Promise(r, t)
    BY <2>1 DEF Promise, FeedType
  <2>2. CASE Both(i, r, t)
    BY <2>2 DEF Both, FeedType
  <2>. QED  BY <2>1, <2>2 DEF Broadcast
<1>4. doubtful' \subseteq Request
  <2>1. CASE Promise(r, t)
    BY <2>1 DEF Promise, FeedType
  <2>2. CASE Both(i, r, t)
    BY <2>2 DEF Both, FeedType
  <2>. QED  BY <2>1, <2>2 DEF Broadcast
<1>. QED  BY <1>1, <1>2, <1>3, <1>4 DEF Broadcast, FeedType, replicas, sockets

(* Every step of the feed keeps the types of its variables. *)
LEMMA FeedStepType ==
  ASSUME FeedType, Feed
  PROVE  FeedType'
<1>1. ASSUME NEW r \in Replica, Start(r)
      PROVE  FeedType'
  BY <1>1 DEF Start, UseRedis, Listens, FeedType, sockets, history
<1>2. ASSUME NEW r \in Replica, Subscribe(r)
      PROVE  FeedType'
  BY <1>2 DEF Subscribe, FeedType, sockets, history
<1>3. ASSUME NEW r \in Replica, ListenerCrash(r)
      PROVE  FeedType'
  BY <1>3 DEF ListenerCrash, FeedType, sockets, history
<1>4. ASSUME NEW r \in Replica, Relay(r)
      PROVE  FeedType'
  <2>1. inbox[r] \in Seq(Trace) /\ inbox[r] # <<>>
    BY <1>4 DEF FeedType, Relay
  <2>2. Head(inbox[r]) \in Trace /\ Tail(inbox[r]) \in Seq(Trace)
    BY <2>1
  <2>3. cast' \in [Broadcaster -> Cast]
    BY <1>4, <2>2, LocalType DEF Relay, Broadcaster
  <2>4. inbox' \in [Replica -> Seq(Trace)]
    BY <1>4, <2>2 DEF Relay, FeedType
  <2>. QED  BY <1>4, <2>3, <2>4 DEF Relay, FeedType, replicas, sockets, history
<1>5. ASSUME NEW w \in Socket, Connect(w)
      PROVE  FeedType'
  <2>1. feed[HomeOf[w]] \in Seq(Trace)
    BY DEF FeedType
  <2>2. Len(feed[HomeOf[w]]) \in Nat
    BY <2>1
  <2>. QED  BY <1>5, <2>2 DEF Connect, AddConnection, FeedType, replicas
<1>6. ASSUME NEW w \in Socket, Disconnect(w)
      PROVE  FeedType'
  BY <1>6 DEF Disconnect, EndHandler, FeedType, replicas, history
<1>7. ASSUME NEW w \in Socket, PeerLeaves(w)
      PROVE  FeedType'
  BY <1>7 DEF PeerLeaves, FeedType, replicas, history
<1>8. ASSUME NEW b \in Broadcaster, NEW w \in Socket, Send(b, w)
      PROVE  FeedType'
  <2>0. cast[b] \in ACast
    BY <1>8 DEF Send, FeedType, Cast, NoCast, ACast
  <2>1. cast' \in [Broadcaster -> Cast]
    <3>1. ACast \subseteq Cast /\ cast \in [Broadcaster -> Cast]
      BY DEF ACast, Cast, FeedType
    <3>2. /\ [cast EXCEPT ![b].todo = @ \ {w}] \in [Broadcaster -> Cast]
          /\ [cast EXCEPT ![b].todo = @ \ {w}, ![b].stale = @ \cup {w}]
                \in [Broadcaster -> Cast]
      BY <2>0, <3>1, SendType
    <3>. QED  BY <1>8, <3>2 DEF Send, FailureNoted
  <2>2. received' \in [Socket -> Seq(Trace)]
    <3>1. CASE UNCHANGED received
      BY <3>1 DEF FeedType
    <3>2. CASE received' = [received EXCEPT ![w] = Append(@, cast[b].trace)]
      <4>1. Append(received[w], cast[b].trace) \in Seq(Trace)
        BY <2>0 DEF FeedType, ACast
      <4>. QED  BY <3>2, <4>1 DEF FeedType
    <3>. QED  BY <1>8, <3>1, <3>2 DEF Send
  <2>. QED  BY <1>8, <2>1, <2>2 DEF Send, FeedType, replicas, sockets, history
<1>9. ASSUME NEW b \in Broadcaster, EndLocal(b)
      PROVE  FeedType'
  BY <1>9 DEF EndLocal, Cast, FeedType, replicas, history
<1>10. CASE RedisSwitch
  BY <1>10 DEF RedisSwitch, FeedType, replicas, sockets, history
<1>. QED  BY <1>1, <1>2, <1>3, <1>4, <1>5, <1>6, <1>7, <1>8, <1>9, <1>10 DEF Feed

-----------------------------------------------------------------------------
(***************************************************************************)
(* A request that is past an insert has left its rows: the step of every   *)
(* request between its post and its answer says what the tables hold.      *)
(***************************************************************************)
StepsStored ==
  \A i \in Request :
    /\ request[i].pc = "spans" => traceRows[TraceOf(i)] > 0
    /\ request[i].pc \in {"broadcast", "reply"} => Stored(TraceOf(i))

Steps == {"insert", "spans", "broadcast", "reply"} \cup Ended

LEMMA AnswerType ==
  ASSUME NEW f \in [Request -> [pc : Steps, at : Replica \cup {None}, awaited : BOOLEAN]],
         NEW i \in Request, NEW pc \in Steps
  PROVE  /\ [f EXCEPT ![i].pc = pc, ![i].awaited = FALSE]
              \in [Request -> [pc : Steps, at : Replica \cup {None}, awaited : BOOLEAN]]
         /\ [f EXCEPT ![i].awaited = FALSE]
              \in [Request -> [pc : Steps, at : Replica \cup {None}, awaited : BOOLEAN]]
<1>1. [f EXCEPT ![i].pc = pc, ![i].awaited = FALSE]
        \in [Request -> [pc : Steps, at : Replica \cup {None}, awaited : BOOLEAN]]
  OBVIOUS
<1>2. [f EXCEPT ![i].awaited = FALSE]
        \in [Request -> [pc : Steps, at : Replica \cup {None}, awaited : BOOLEAN]]
  OBVIOUS
<1>. QED  BY <1>1, <1>2

(* What Go and Answer do to the requests. *)
LEMMA GoStep ==
  ASSUME IngestType, NEW i \in Request, NEW pc \in Steps, Go(i, pc) \/ Answer(i, pc),
         request[i].pc # "none"
  PROVE  /\ request' \in [Request -> [pc : Steps, at : Replica \cup {None}, awaited : BOOLEAN]]
         /\ request'[i].pc = pc /\ request'[i].at = request[i].at
         /\ \A j \in Request : j # i => request'[j] = request[j]
         /\ \A j \in Request : request'[j].pc # "none" => request'[j].at \in Replica
<1>1. /\ request'[i].pc = pc /\ request'[i].at = request[i].at
      /\ \A j \in Request : j # i => request'[j] = request[j]
  BY DEF IngestType, Go, Answer
<1>2. request' \in [Request -> [pc : Steps, at : Replica \cup {None}, awaited : BOOLEAN]]
  <2>1. CASE Go(i, pc)
    BY <2>1 DEF IngestType, Go, Steps
  <2>2. CASE Answer(i, pc)
    BY <2>2, AnswerType DEF IngestType, Answer, Steps
  <2>. QED  BY <2>1, <2>2
<1>. QED  BY <1>1, <1>2 DEF IngestType

(* Rows are only added. *)
LEMMA TablesGrow ==
  ASSUME IngestType, [Next]_vars
  PROVE  \A t \in Trace : /\ traceRows'[t] >= traceRows[t] /\ traceRows'[t] \in Nat
                          /\ spanRows'[t] >= spanRows[t] /\ spanRows'[t] \in Nat
<1>1. CASE UNCHANGED tables
  BY <1>1 DEF tables, IngestType
<1>2. ASSUME NEW u \in Trace, AddTrace(u) \/ AddSpans(u)
      PROVE  \A t \in Trace : /\ traceRows'[t] >= traceRows[t] /\ traceRows'[t] \in Nat
                              /\ spanRows'[t] >= spanRows[t] /\ spanRows'[t] \in Nat
  BY <1>2 DEF AddTrace, AddSpans, IngestType
<1>3. ASSUME NEW i \in Request, InsertTrace(i) \/ InsertSpans(i)
      PROVE  UNCHANGED tables \/ AddTrace(TraceOf(i)) \/ AddSpans(TraceOf(i))
  BY <1>3 DEF InsertTrace, InsertSpans
<1>4. ASSUME NEW i \in Request, InsertTrace(i) \/ InsertSpans(i)
      PROVE  \A t \in Trace : /\ traceRows'[t] >= traceRows[t] /\ traceRows'[t] \in Nat
                              /\ spanRows'[t] >= spanRows[t] /\ spanRows'[t] \in Nat
  BY <1>1, <1>2, <1>3, <1>4, RequestTrace
<1>5. CASE UNCHANGED vars
  BY <1>1, <1>5 DEF vars
<1>6. ASSUME NEW r \in Replica, NEW i \in Request, Post(r, i)
      PROVE  UNCHANGED tables
  BY <1>6 DEF Post
<1>7. ASSUME NEW i \in Request,
             ClientTimeout(i) \/ BroadcastTrace(i) \/ Reply(i)
      PROVE  UNCHANGED tables
  BY <1>7 DEF ClientTimeout, BroadcastTrace, Reply
<1>8. ASSUME NEW r \in Replica, Crash(r)
      PROVE  UNCHANGED tables
  BY <1>8 DEF Crash
<1>9. CASE StoreSwitch
  BY <1>1, <1>9 DEF StoreSwitch
<1>10. CASE Feed /\ UNCHANGED <<request, acked, tables, storeUp>>
  BY <1>1, <1>10
<1>. QED  BY <1>1, <1>4, <1>5, <1>6, <1>7, <1>8, <1>9, <1>10 DEF Next, Serve

COROLLARY StoredKept ==
  ASSUME IngestType, [Next]_vars, NEW t \in Trace, Stored(t)
  PROVE  Stored(t)'
BY TablesGrow DEF Stored, HasSpans, IngestType

LEMMA IngestInitType == Init => TypeOK
<1>. SUFFICES ASSUME Init PROVE TypeOK
  OBVIOUS
<1>1. FeedType
  BY DEF Init, FeedInit, FeedType, Cast
<1>2. IngestType
  BY DEF Init, IngestType, NoRequest, Ended
<1>. QED  BY <1>1, <1>2 DEF TypeOK

(* Every step keeps the types of the variables of the ingest. *)
LEMMA IngestStepType ==
  ASSUME TypeOK, [Next]_vars
  PROVE  IngestType'
<1>. USE DEF TypeOK
<1>0. traceRows' \in [Trace -> Nat] /\ spanRows' \in [Trace -> Nat]
  <2>1. CASE UNCHANGED tables
    BY <2>1 DEF tables, IngestType
  <2>2. ASSUME NEW t \in Trace, AddTrace(t) \/ AddSpans(t)
        PROVE  traceRows' \in [Trace -> Nat] /\ spanRows' \in [Trace -> Nat]
    BY <2>2 DEF AddTrace, AddSpans, IngestType
  <2>3. ASSUME NEW i \in Request, Serve(i)
        PROVE  UNCHANGED tables \/ \E t \in Trace : AddTrace(t) \/ AddSpans(t)
    BY <2>3, RequestTrace DEF Serve, InsertTrace, InsertSpans, BroadcastTrace, Reply
  <2>4. UNCHANGED tables \/ \E i \in Request : Serve(i)
    BY DEF Next, vars, Post, ClientTimeout, Crash, StoreSwitch
  <2>. QED  BY <2>1, <2>2, <2>3, <2>4
<1>1. ASSUME NEW r \in Replica, NEW i \in Request, Post(r, i)
      PROVE  IngestType'
  BY <1>0, <1>1 DEF Post, IngestType
<1>2. ASSUME NEW i \in Request, ClientTimeout(i)
      PROVE  IngestType'
  <2>1. request' \in [Request -> [pc : Steps, at : Replica \cup {None}, awaited : BOOLEAN]]
    <3>1. request \in [Request -> [pc : Steps, at : Replica \cup {None}, awaited : BOOLEAN]]
      BY DEF IngestType, Steps
    <3>2. "insert" \in Steps
      BY DEF Steps
    <3>. QED  BY <1>2, <3>1, <3>2, AnswerType DEF ClientTimeout
  <2>2. \A j \in Request : request'[j].pc = request[j].pc /\ request'[j].at = request[j].at
    BY <1>2 DEF ClientTimeout, IngestType
  <2>. QED  BY <1>0, <1>2, <2>1, <2>2 DEF ClientTimeout, IngestType, Steps
<1>3. ASSUME NEW i \in Request, InsertTrace(i) \/ InsertSpans(i)
      PROVE  IngestType'
  <2>1. PICK pc \in Steps : Go(i, pc) \/ Answer(i, pc)
    BY <1>3 DEF InsertTrace, InsertSpans, AfterTrace, Steps, Ended
  <2>2. request[i].pc # "none"
    BY <1>3 DEF InsertTrace, InsertSpans
  <2>. QED  BY <1>0, <1>3, <2>1, <2>2, GoStep DEF InsertTrace, InsertSpans, IngestType, Steps
<1>4. ASSUME NEW i \in Request, BroadcastTrace(i)
      PROVE  IngestType'
  <2>1. Go(i, "reply") /\ "reply" \in Steps /\ request[i].pc # "none"
    BY <1>4 DEF BroadcastTrace, Steps
  <2>. QED  BY <1>0, <1>4, <2>1, GoStep DEF BroadcastTrace, IngestType, Steps
<1>5. ASSUME NEW i \in Request, Reply(i)
      PROVE  IngestType'
  <2>1. Answer(i, "done") /\ "done" \in Steps /\ request[i].pc # "none"
    BY <1>5 DEF Reply, Steps, Ended
  <2>2. acked' \subseteq Trace
    BY <1>5, RequestTrace DEF Reply, IngestType
  <2>. QED  BY <1>0, <1>5, <2>1, <2>2, GoStep DEF Reply, IngestType, Steps
<1>6. ASSUME NEW r \in Replica, Crash(r)
      PROVE  IngestType'
  BY <1>0, <1>6 DEF Crash, IngestType, Ended
<1>7. CASE StoreSwitch
  BY <1>0, <1>7 DEF StoreSwitch, IngestType
<1>8. CASE UNCHANGED <<request, acked, tables, storeUp>>
  BY <1>0, <1>8 DEF IngestType
<1>9. CASE UNCHANGED vars
  BY <1>8, <1>9 DEF vars
<1>. QED  BY <1>1, <1>2, <1>3, <1>4, <1>5, <1>6, <1>7, <1>8, <1>9 DEF Next, Serve

LEMMA HaltType ==
  ASSUME FeedType, NEW r \in Replica, NEW Over, Halt(r, Over)
  PROVE  FeedType'
<1>1. cast' \in [Broadcaster -> Cast]
  BY DEF Halt, FeedType, Cast
<1>. QED  BY <1>1 DEF Halt, FeedType, history

LEMMA TypeStep ==
  ASSUME TypeOK, [Next]_vars
  PROVE  TypeOK'
<1>. USE DEF TypeOK
<1>1. CASE UNCHANGED feedVars
  BY <1>1, IngestStepType DEF feedVars, FeedType
<1>2. CASE Feed
  BY <1>2, FeedStepType, IngestStepType
<1>3. ASSUME NEW i \in Request, BroadcastTrace(i)
      PROVE  FeedType'
  <2>1. request[i].at \in Replica
    BY <1>3 DEF BroadcastTrace, IngestType
  <2>. QED  BY <1>3, <2>1, RequestTrace, BroadcastType DEF BroadcastTrace
<1>4. ASSUME NEW r \in Replica, Crash(r)
      PROVE  FeedType'
  BY <1>4, HaltType DEF Crash
<1>. QED  BY <1>1, <1>2, <1>3, <1>4, IngestStepType
          DEF Next, Serve, vars, Post, ClientTimeout, InsertTrace, InsertSpans, Reply,
              StoreSwitch

(***************************************************************************)
(* Every variable keeps its type.                                          *)
(***************************************************************************)
THEOREM IngestTypeCorrect == Spec => []TypeOK
<1>1. Init => TypeOK
  BY IngestInitType
<1>2. TypeOK /\ [Next]_vars => TypeOK'
  BY TypeStep
<1>. QED  BY <1>1, <1>2, PTL DEF Spec

-----------------------------------------------------------------------------
(* A request that does not move keeps what its step says of the tables. *)
LEMMA StepKept ==
  ASSUME IngestType, StepsStored, [Next]_vars, NEW i \in Request,
         request'[i].pc = request[i].pc \/ request'[i].pc \in {"insert"} \cup Ended
  PROVE  /\ request'[i].pc = "spans" => traceRows'[TraceOf(i)] > 0
         /\ request'[i].pc \in {"broadcast", "reply"} => Stored(TraceOf(i))'
<1>1. TraceOf(i) \in Trace
  BY RequestTrace
<1>2. CASE request'[i].pc = request[i].pc
  <2>1. request[i].pc = "spans" => traceRows[TraceOf(i)] > 0
    BY DEF StepsStored
  <2>2. request[i].pc \in {"broadcast", "reply"} => Stored(TraceOf(i))
    BY DEF StepsStored
  <2>3. /\ traceRows'[TraceOf(i)] >= traceRows[TraceOf(i)]
        /\ traceRows'[TraceOf(i)] \in Nat /\ traceRows[TraceOf(i)] \in Nat
    BY <1>1, TablesGrow DEF IngestType
  <2>4. request[i].pc \in {"broadcast", "reply"} => Stored(TraceOf(i))'
    BY <1>1, <2>2, StoredKept
  <2>. QED  BY <1>2, <2>1, <2>3, <2>4
<1>3. CASE request'[i].pc \in {"insert"} \cup Ended
  BY <1>3 DEF Ended
<1>. QED  BY <1>2, <1>3

LEMMA StepsStep ==
  ASSUME TypeOK, StepsStored, [Next]_vars
  PROVE  StepsStored'
<1>. USE DEF TypeOK
<1>. SUFFICES ASSUME NEW i \in Request
              PROVE  /\ request'[i].pc = "spans" => traceRows'[TraceOf(i)] > 0
                     /\ request'[i].pc \in {"broadcast", "reply"} => Stored(TraceOf(i))'
  BY DEF StepsStored
<1>0. TraceOf(i) \in Trace
  BY RequestTrace
<1>1. CASE request'[i].pc = request[i].pc \/ request'[i].pc \in {"insert"} \cup Ended
  BY <1>1, StepKept
<1>2. CASE InsertTrace(i)
  <2>1. CASE Answer(i, "failed")
    BY <1>1, <2>1, <1>2, GoStep DEF InsertTrace, Steps, Ended
  <2>2. CASE AddTrace(TraceOf(i)) /\ Go(i, AfterTrace(i))
    <3>1. request'[i].pc = AfterTrace(i)
      BY <1>2, <2>2, GoStep DEF InsertTrace, Steps, AfterTrace
    <3>2. traceRows'[TraceOf(i)] > 0
      BY <1>0, <2>2 DEF AddTrace, IngestType
    <3>. QED  BY <3>1, <3>2 DEF AfterTrace, Stored, HasSpans
  <2>. QED  BY <1>2, <2>1, <2>2 DEF InsertTrace
<1>3. CASE InsertSpans(i)
  <2>1. CASE Answer(i, "failed")
    BY <1>1, <2>1, <1>3, GoStep DEF InsertSpans, Steps, Ended
  <2>2. CASE AddSpans(TraceOf(i)) /\ Go(i, "broadcast")
    <3>1. request'[i].pc = "broadcast"
      BY <1>3, <2>2, GoStep DEF InsertSpans, Steps
    <3>2. traceRows'[TraceOf(i)] > 0 /\ spanRows'[TraceOf(i)] > 0
      BY <1>0, <1>3, <2>2 DEF InsertSpans, StepsStored, AddSpans, IngestType
    <3>. QED  BY <3>1, <3>2 DEF Stored
  <2>. QED  BY <1>3, <2>1, <2>2 DEF InsertSpans
<1>4. CASE BroadcastTrace(i)
  <2>1. request'[i].pc = "reply"
    BY <1>4, GoStep DEF BroadcastTrace, Steps
  <2>2. Stored(TraceOf(i))'
    BY <1>0, <1>4, StoredKept DEF BroadcastTrace, StepsStored
  <2>. QED  BY <2>1, <2>2
<1>5. CASE Reply(i)
  BY <1>1, <1>5, GoStep DEF Reply, Steps, Ended
<1>6. ASSUME NEW j \in Request, j # i, Serve(j)
      PROVE  request'[i].pc = request[i].pc
  BY <1>6 DEF Serve, InsertTrace, InsertSpans, BroadcastTrace, Reply, Go, Answer, IngestType
<1>7. ASSUME NEW r \in Replica, NEW j \in Request, Post(r, j)
      PROVE  request'[i].pc = request[i].pc \/ request'[i].pc \in {"insert"} \cup Ended
  BY <1>7 DEF Post, IngestType
<1>8. ASSUME NEW j \in Request, ClientTimeout(j)
      PROVE  request'[i].pc = request[i].pc
  BY <1>8 DEF ClientTimeout, IngestType
<1>9. ASSUME NEW r \in Replica, Crash(r)
      PROVE  request'[i].pc = request[i].pc \/ request'[i].pc \in {"insert"} \cup Ended
  BY <1>9 DEF Crash, IngestType, Ended
<1>10. CASE UNCHANGED request
  BY <1>1, <1>10
<1>. QED  BY <1>1, <1>2, <1>3, <1>4, <1>5, <1>6, <1>7, <1>8, <1>9, <1>10
          DEF Next, Serve, vars, StoreSwitch

LEMMA AckedStep ==
  ASSUME TypeOK, StepsStored, AckedComplete, [Next]_vars
  PROVE  AckedComplete'
<1>. USE DEF TypeOK
<1>. SUFFICES ASSUME NEW t \in acked' PROVE Stored(t)'
  BY DEF AckedComplete
<1>1. CASE t \in acked
  BY <1>1, StoredKept DEF AckedComplete, IngestType
<1>2. ASSUME NEW i \in Request, Reply(i), t \notin acked
      PROVE  Stored(t)'
  <2>1. t = TraceOf(i) /\ Stored(t)
    BY <1>2 DEF Reply, StepsStored
  <2>. QED  BY <2>1, RequestTrace, StoredKept
<1>3. t \in acked \/ \E i \in Request : Reply(i)
  BY DEF Next, Serve, vars, Post, ClientTimeout, InsertTrace, InsertSpans, BroadcastTrace,
         Crash, StoreSwitch
<1>. QED  BY <1>1, <1>2, <1>3

(* The three places of a trace on the feed, each with what enters it. *)
LEMMA InboxStep ==
  ASSUME TypeOK, StepsStored, FeedAfterStore, [Next]_vars
  PROVE  (\A r \in Replica : \A k \in DOMAIN inbox[r] : inbox[r][k] \in StoredTraces)'
<1>. USE DEF TypeOK
<1>. SUFFICES ASSUME NEW r \in Replica, NEW k \in DOMAIN inbox'[r]
              PROVE  inbox'[r][k] \in StoredTraces'
  OBVIOUS
<1>0. \A t \in StoredTraces : t \in Trace /\ t \in StoredTraces'
  BY StoredKept DEF StoredTraces
<1>1. inbox[r] \in Seq(Trace) /\ \A j \in DOMAIN inbox[r] : inbox[r][j] \in StoredTraces'
  BY <1>0 DEF FeedType, FeedAfterStore
<1>2. CASE inbox'[r] = inbox[r] \/ inbox'[r] = <<>>
  BY <1>1, <1>2
<1>3. CASE inbox[r] # <<>> /\ inbox'[r] = Tail(inbox[r])
  <2>1. k \in 1..(Len(inbox[r]) - 1)
    BY <1>1, <1>3
  <2>2. inbox'[r][k] = inbox[r][k + 1] /\ k + 1 \in DOMAIN inbox[r]
    BY <1>1, <1>3, <2>1
  <2>. QED  BY <1>1, <2>2
<1>4. ASSUME NEW i \in Request, BroadcastTrace(i)
      PROVE  inbox'[r][k] \in StoredTraces'
  <2>1. TraceOf(i) \in Trace /\ TraceOf(i) \in StoredTraces'
    BY <1>0, <1>4, RequestTrace DEF BroadcastTrace, StepsStored, StoredTraces
  <2>2. inbox'[r] = inbox[r] \/ inbox'[r] = Append(inbox[r], TraceOf(i))
    BY <1>4 DEF BroadcastTrace, Broadcast, Both, Published, Deliver, FeedType
  <2>3. CASE inbox'[r] = Append(inbox[r], TraceOf(i))
    <3>1. k \in 1..(Len(inbox[r]) + 1)
      BY <1>1, <2>1, <2>3
    <3>. QED  BY <1>1, <2>1, <2>3, <3>1
  <2>. QED  BY <1>2, <2>2, <2>3
<1>5. ASSUME NEW q \in Replica, ListenerCrash(q) \/ Crash(q)
      PROVE  inbox'[r] = inbox[r] \/ inbox'[r] = <<>>
  BY <1>5 DEF ListenerCrash, Crash, Halt, FeedType
<1>6. ASSUME NEW q \in Replica, Relay(q)
      PROVE  inbox'[r] = inbox[r] \/ (inbox[r] # <<>> /\ inbox'[r] = Tail(inbox[r]))
  BY <1>6 DEF Relay, FeedType
<1>7. \/ UNCHANGED inbox
      \/ \E i \in Request : BroadcastTrace(i)
      \/ \E q \in Replica : ListenerCrash(q) \/ Crash(q) \/ Relay(q)
  BY DEF Next, Serve, vars, feedVars, Post, ClientTimeout, InsertTrace, InsertSpans, Reply,
         StoreSwitch, Feed, Start, Subscribe, Connect, Disconnect, PeerLeaves, Send, EndLocal,
         RedisSwitch
<1>. QED  BY <1>2, <1>3, <1>4, <1>5, <1>6, <1>7

LEMMA CastStep ==
  ASSUME TypeOK, StepsStored, FeedAfterStore, [Next]_vars
  PROVE  (\A b \in Broadcaster : cast[b].trace # None => cast[b].trace \in StoredTraces)'
<1>. USE DEF TypeOK
<1>. SUFFICES ASSUME NEW b \in Broadcaster, cast'[b].trace # None
              PROVE  cast'[b].trace \in StoredTraces'
  OBVIOUS
<1>0. \A t \in StoredTraces : t \in Trace /\ t \in StoredTraces'
  BY StoredKept DEF StoredTraces
<1>1. CASE cast'[b].trace = cast[b].trace
  <2>1. cast[b].trace \in Trace /\ cast[b].trace \in StoredTraces
    BY <1>1 DEF FeedType, Cast, NoCast, FeedAfterStore
  <2>. QED  BY <1>0, <1>1, <2>1
<1>2. ASSUME NEW c \in Broadcaster, NEW q \in Replica, NEW t \in Trace, Local(c, q, t),
             t \in StoredTraces
      PROVE  cast'[b].trace \in StoredTraces'
  <2>1. cast'[b].trace \in {cast[b].trace, t}
    BY <1>2 DEF Local, FeedType
  <2>. QED  BY <1>0, <1>1, <1>2, <2>1
<1>3. ASSUME NEW q \in Replica, Relay(q)
      PROVE  cast'[b].trace \in StoredTraces'
  <2>1. /\ inbox[q] \in Seq(Trace) /\ inbox[q] # <<>>
        /\ \A k \in DOMAIN inbox[q] : inbox[q][k] \in StoredTraces
    BY <1>3 DEF Relay, FeedType, FeedAfterStore
  <2>2. Head(inbox[q]) \in Trace /\ Head(inbox[q]) \in StoredTraces
    BY <2>1
  <2>. QED  BY <1>2, <1>3, <2>2 DEF Relay, Broadcaster
<1>4. ASSUME NEW i \in Request, BroadcastTrace(i)
      PROVE  cast'[b].trace \in StoredTraces'
  <2>1. TraceOf(i) \in Trace /\ TraceOf(i) \in StoredTraces /\ request[i].at \in Replica
    BY <1>4, RequestTrace DEF BroadcastTrace, StepsStored, StoredTraces, IngestType
  <2>2. UNCHANGED cast \/ Local(i, request[i].at, TraceOf(i))
    BY <1>4 DEF BroadcastTrace, Broadcast, Both, Published
  <2>. QED  BY <1>1, <1>2, <2>1, <2>2 DEF Broadcaster
<1>5. ASSUME NEW c \in Broadcaster, NEW w \in Socket, Send(c, w)
      PROVE  cast'[b].trace = cast[b].trace
  <2>1. cast[c] \in ACast /\ ACast \subseteq Cast /\ cast \in [Broadcaster -> Cast]
    BY <1>5 DEF Send, FeedType, Cast, NoCast, ACast
  <2>2. \/ cast' = [cast EXCEPT ![c].todo = @ \ {w}]
        \/ cast' = [cast EXCEPT ![c].todo = @ \ {w}, ![c].stale = @ \cup {w}]
    BY <1>5 DEF Send, FailureNoted
  <2>3. /\ [cast EXCEPT ![c].todo = @ \ {w}][b].trace = cast[b].trace
        /\ [cast EXCEPT ![c].todo = @ \ {w}, ![c].stale = @ \cup {w}][b].trace
             = cast[b].trace
    BY <2>1, SendType
  <2>. QED  BY <2>2, <2>3
<1>6. ASSUME NEW c \in Broadcaster, EndLocal(c)
      PROVE  cast'[b].trace = cast[b].trace
  BY <1>6 DEF EndLocal, NoCast, FeedType
<1>7. ASSUME NEW q \in Replica, Crash(q)
      PROVE  cast'[b].trace = cast[b].trace
  BY <1>7 DEF Crash, Halt, NoCast, FeedType
<1>8. \/ UNCHANGED cast
      \/ \E i \in Request : BroadcastTrace(i)
      \/ \E q \in Replica : Crash(q) \/ Relay(q)
      \/ \E c \in Broadcaster, w \in Socket : Send(c, w)
      \/ \E c \in Broadcaster : EndLocal(c)
  BY DEF Next, Serve, vars, feedVars, Post, ClientTimeout, InsertTrace, InsertSpans, Reply,
         StoreSwitch, Feed, Start, Subscribe, ListenerCrash, Connect, AddConnection, Disconnect,
         PeerLeaves, RedisSwitch
<1>. QED  BY <1>1, <1>3, <1>4, <1>5, <1>6, <1>7, <1>8

LEMMA ReceivedStep ==
  ASSUME TypeOK, StepsStored, FeedAfterStore, [Next]_vars
  PROVE  (\A w \in Socket : \A k \in DOMAIN received[w] : received[w][k] \in StoredTraces)'
<1>. USE DEF TypeOK
<1>. SUFFICES ASSUME NEW w \in Socket, NEW k \in DOMAIN received'[w]
              PROVE  received'[w][k] \in StoredTraces'
  OBVIOUS
<1>0. \A t \in StoredTraces : t \in Trace /\ t \in StoredTraces'
  BY StoredKept DEF StoredTraces
<1>1. received[w] \in Seq(Trace) /\ \A j \in DOMAIN received[w] : received[w][j] \in StoredTraces'
  BY <1>0 DEF FeedType, FeedAfterStore
<1>2. CASE received'[w] = received[w]
  BY <1>1, <1>2
<1>3. ASSUME NEW b \in Broadcaster, NEW v \in Socket, Send(b, v)
      PROVE  received'[w][k] \in StoredTraces'
  <2>1. cast[b] \in ACast
    BY <1>3 DEF Send, FeedType, Cast, NoCast, ACast
  <2>2. cast[b].trace \in Trace /\ cast[b].trace \in StoredTraces'
    BY <1>0, <2>1 DEF ACast, FeedAfterStore
  <2>3. received'[w] = received[w] \/ received'[w] = Append(received[w], cast[b].trace)
    BY <1>3 DEF Send, FeedType
  <2>4. CASE received'[w] = Append(received[w], cast[b].trace)
    <3>1. k \in 1..(Len(received[w]) + 1)
      BY <1>1, <2>2, <2>4
    <3>. QED  BY <1>1, <2>2, <2>4, <3>1
  <2>. QED  BY <1>2, <2>3, <2>4
<1>4. UNCHANGED received \/ \E b \in Broadcaster, v \in Socket : Send(b, v)
  BY DEF Next, Serve, vars, feedVars, Post, ClientTimeout, InsertTrace, InsertSpans,
         BroadcastTrace, Broadcast, Reply, Crash, Halt, StoreSwitch, Feed, Start, Subscribe,
         ListenerCrash, Relay, Connect, Disconnect, PeerLeaves, EndLocal, RedisSwitch
<1>. QED  BY <1>2, <1>3, <1>4

-----------------------------------------------------------------------------
IngestInv == TypeOK /\ StepsStored /\ AckedComplete /\ FeedAfterStore

LEMMA IngestInvariant == Spec => []IngestInv
<1>1. Init => IngestInv
  <2>. SUFFICES ASSUME Init PROVE IngestInv
    OBVIOUS
  <2>1. TypeOK
    BY IngestInitType
  <2>2. StepsStored
    BY DEF Init, NoRequest, StepsStored
  <2>3. AckedComplete
    BY DEF Init, AckedComplete
  <2>4. FeedAfterStore
    BY DEF Init, FeedInit, NoCast, FeedAfterStore
  <2>. QED  BY <2>1, <2>2, <2>3, <2>4 DEF IngestInv
<1>2. IngestInv /\ [Next]_vars => IngestInv'
  <2>. SUFFICES ASSUME IngestInv, [Next]_vars PROVE IngestInv'
    OBVIOUS
  <2>1. FeedAfterStore'
    BY InboxStep, CastStep, ReceivedStep DEF IngestInv, FeedAfterStore
  <2>. QED  BY <2>1, TypeStep, StepsStep, AckedStep DEF IngestInv
<1>. QED  BY <1>1, <1>2, PTL DEF Spec

(***************************************************************************)
(* The SDK forgets a trace only when both its tables hold it, however the  *)
(* inserts fail, the replicas die and the posts are repeated.              *)
(***************************************************************************)
THEOREM AckedIsComplete == Spec => []AckedComplete
<1>1. IngestInv => AckedComplete
  BY DEF IngestInv
<1>. QED  BY <1>1, IngestInvariant, PTL

(***************************************************************************)
(* Whatever is published, being sent or in a browser is stored completely, *)
(* for any number of replicas, browsers and traces.                        *)
(***************************************************************************)
THEOREM FeedShowsStored == Spec => []FeedAfterStore
<1>1. IngestInv => FeedAfterStore
  BY DEF IngestInv
<1>. QED  BY <1>1, IngestInvariant, PTL

-----------------------------------------------------------------------------
(***************************************************************************)
(* The broadcasts that are still to discard WebSockets have only found     *)
(* WebSockets whose browser has left: what EndLocal takes out of the set   *)
(* is not being watched, however long ago the copy was made.               *)
(***************************************************************************)
StaleGone == \A b \in Broadcaster : cast[b].stale \subseteq gone

LEMMA SendStale ==
  ASSUME NEW f \in [Broadcaster -> Cast], NEW b \in Broadcaster, f[b] \in ACast,
         NEW w \in Socket
  PROVE  \A x \in Broadcaster :
           /\ [f EXCEPT ![b].todo = @ \ {w}][x].stale = f[x].stale
           /\ [f EXCEPT ![b].todo = @ \ {w}, ![b].stale = @ \cup {w}][x].stale
                 \subseteq f[x].stale \cup {w}
<1>. TAKE x \in Broadcaster
<1>1. CASE x = b
  BY <1>1 DEF ACast
<1>2. CASE x # b
  BY <1>2
<1>. QED  BY <1>1, <1>2

(* A step that touches neither the sets of WebSockets nor a broadcast. *)
LEMMA SocketsKept ==
  ASSUME StaleGone, ConnectionsServed, UNCHANGED sockets,
         \A b \in Broadcaster : cast'[b].stale \subseteq cast[b].stale
  PROVE  StaleGone' /\ ConnectionsServed'
BY DEF StaleGone, ConnectionsServed, Watching, sockets

LEMMA SocketsStep ==
  ASSUME TypeOK, StaleGone, ConnectionsServed, [Next]_vars
  PROVE  StaleGone' /\ ConnectionsServed'
<1>. USE DEF TypeOK
<1>1. CASE UNCHANGED <<sockets, cast>>
  BY <1>1, SocketsKept
<1>2. ASSUME NEW b \in Broadcaster, NEW r \in Replica, NEW t \in Trace, Local(b, r, t),
             UNCHANGED sockets
      PROVE  StaleGone' /\ ConnectionsServed'
  <2>1. \A x \in Broadcaster : cast'[x].stale \subseteq cast[x].stale
    BY <1>2 DEF Local, FeedType
  <2>. QED  BY <1>2, <2>1, SocketsKept
<1>3. ASSUME NEW w \in Socket, Connect(w)
      PROVE  StaleGone' /\ ConnectionsServed'
  BY <1>3 DEF Connect, AddConnection, FeedType, StaleGone, ConnectionsServed, Watching
<1>4. ASSUME NEW w \in Socket, Disconnect(w)
      PROVE  StaleGone' /\ ConnectionsServed'
  BY <1>4 DEF Disconnect, EndHandler, FeedType, StaleGone, ConnectionsServed, Watching
<1>5. ASSUME NEW w \in Socket, PeerLeaves(w)
      PROVE  StaleGone' /\ ConnectionsServed'
  BY <1>5 DEF PeerLeaves, FeedType, StaleGone, ConnectionsServed, Watching
<1>6. ASSUME NEW b \in Broadcaster, NEW w \in Socket, Send(b, w)
      PROVE  StaleGone' /\ ConnectionsServed'
  <2>1. cast[b] \in ACast /\ cast \in [Broadcaster -> Cast]
    BY <1>6 DEF Send, FeedType, Cast, NoCast, ACast
  <2>2. CASE cast' = [cast EXCEPT ![b].todo = @ \ {w}]
    <3>1. \A x \in Broadcaster : cast'[x].stale \subseteq cast[x].stale
      BY <2>1, <2>2, SendStale
    <3>. QED  BY <1>6, <3>1, SocketsKept DEF Send
  <2>3. CASE w \in gone /\ FailureNoted(b, w)
    <3>1. \A x \in Broadcaster : cast'[x].stale \subseteq cast[x].stale \cup {w}
      BY <2>1, <2>3, SendStale DEF FailureNoted
    <3>2. UNCHANGED sockets
      BY <1>6 DEF Send
    <3>3. StaleGone'
      BY <2>3, <3>1, <3>2 DEF StaleGone, sockets
    <3>4. ConnectionsServed'
      BY <3>2 DEF ConnectionsServed, Watching, sockets
    <3>. QED  BY <3>3, <3>4
  <2>. QED  BY <1>6, <2>2, <2>3 DEF Send
<1>7. ASSUME NEW b \in Broadcaster, EndLocal(b)
      PROVE  StaleGone' /\ ConnectionsServed'
  <2>1. cast[b].stale \subseteq gone
    BY DEF StaleGone
  <2>2. StaleGone'
    BY <1>7 DEF EndLocal, FeedType, NoCast, StaleGone
  <2>3. ConnectionsServed'
    BY <1>7, <2>1 DEF EndLocal, ConnectionsServed, Watching
  <2>. QED  BY <2>2, <2>3
<1>8. ASSUME NEW r \in Replica, Crash(r)
      PROVE  StaleGone' /\ ConnectionsServed'
  BY <1>8 DEF Crash, Halt, FeedType, NoCast, StaleGone, ConnectionsServed, Watching
<1>9. ASSUME NEW r \in Replica, Relay(r)
      PROVE  StaleGone' /\ ConnectionsServed'
  <2>1. inbox[r] \in Seq(Trace) /\ inbox[r] # <<>>
    BY <1>9 DEF FeedType, Relay
  <2>2. Head(inbox[r]) \in Trace /\ r \in Broadcaster
    BY <2>1 DEF Broadcaster
  <2>. QED  BY <1>2, <1>9, <2>2 DEF Relay
<1>10. ASSUME NEW i \in Request, BroadcastTrace(i)
       PROVE  StaleGone' /\ ConnectionsServed'
  <2>1. /\ TraceOf(i) \in Trace /\ i \in Broadcaster /\ request[i].at \in Replica
    BY <1>10, RequestTrace DEF BroadcastTrace, IngestType, Broadcaster
  <2>2. UNCHANGED sockets /\ (UNCHANGED cast \/ Local(i, request[i].at, TraceOf(i)))
    BY <1>10 DEF BroadcastTrace, Broadcast, Both, Published
  <2>. QED  BY <1>1, <1>2, <2>1, <2>2
<1>11. ASSUME NEW r \in Replica, Start(r) \/ Subscribe(r) \/ ListenerCrash(r)
       PROVE  UNCHANGED <<sockets, cast>>
  BY <1>11 DEF Start, Subscribe, ListenerCrash
<1>12. CASE UNCHANGED feedVars
  BY <1>1, <1>12 DEF feedVars, sockets
<1>13. ASSUME NEW i \in Request, InsertTrace(i) \/ InsertSpans(i) \/ Reply(i) \/ ClientTimeout(i)
       PROVE  UNCHANGED feedVars
  BY <1>13 DEF InsertTrace, InsertSpans, Reply, ClientTimeout
<1>14. CASE RedisSwitch
  BY <1>1, <1>14 DEF RedisSwitch
<1>. QED  BY <1>1, <1>3, <1>4, <1>5, <1>6, <1>7, <1>8, <1>9, <1>10, <1>11, <1>12, <1>13, <1>14
          DEF Next, Serve, Feed, vars, Post, StoreSwitch

(***************************************************************************)
(* Whatever overlaps, the WebSockets of a replica are those it serves: a   *)
(* browser that is still there never drops out of the set of connections,  *)
(* and an ended one never stays in it.                                     *)
(***************************************************************************)
THEOREM ServedAreConnected == Spec => []ConnectionsServed
<1>. DEFINE Inv == TypeOK /\ StaleGone /\ ConnectionsServed
<1>1. Init => Inv
  <2>1. Init => StaleGone /\ ConnectionsServed
    BY DEF Init, FeedInit, NoCast, StaleGone, ConnectionsServed, Watching
  <2>. QED  BY <2>1, IngestInitType
<1>2. Inv /\ [Next]_vars => Inv'
  BY SocketsStep, TypeStep
<1>3. Inv => ConnectionsServed
  OBVIOUS
<1>. QED  BY <1>1, <1>2, <1>3, PTL DEF Spec

-----------------------------------------------------------------------------
(***************************************************************************)
(* Torn traces.  Every request that is about to insert the spans of t has  *)
(* a row of t to itself, and every row without spans has a request that is *)
(* between its inserts or was not answered with a 201.                     *)
(***************************************************************************)
AtSpans(t) == {i \in Request : TraceOf(i) = t /\ request[i].pc = "spans"}
Unfinished(t) == {i \in Request : TraceOf(i) = t /\ MayBeTorn(i)}

Bounded(t) ==
  /\ spanRows[t] + Cardinality(AtSpans(t)) <= traceRows[t]
  /\ traceRows[t] <= spanRows[t] + Cardinality(Unfinished(t))
RowsBounded == \A t \in Trace : HasSpans(t) => Bounded(t)

LEMMA FinitelyManyPosts ==
  ASSUME NEW t \in Trace
  PROVE  IsFiniteSet({i \in Request : TraceOf(i) = t})
<1>1. IsFiniteSet({t} \X (1..Attempts))
  <2>1. IsFiniteSet({t})
    BY FS_Singleton
  <2>2. IsFiniteSet(1..Attempts)
    BY FS_Interval
  <2>. QED  BY <2>1, <2>2, FS_Product
<1>2. {i \in Request : TraceOf(i) = t} \subseteq {t} \X (1..Attempts)
  BY DEF Request, TraceOf
<1>. QED  BY <1>1, <1>2, FS_Subset

LEMMA FinitelyManyAtSpans ==
  ASSUME NEW t \in Trace
  PROVE  /\ IsFiniteSet(AtSpans(t)) /\ Cardinality(AtSpans(t)) \in Nat
         /\ IsFiniteSet(Unfinished(t)) /\ Cardinality(Unfinished(t)) \in Nat
<1>1. /\ AtSpans(t) \subseteq {i \in Request : TraceOf(i) = t}
      /\ Unfinished(t) \subseteq {i \in Request : TraceOf(i) = t}
  BY DEF AtSpans, Unfinished
<1>2. IsFiniteSet(AtSpans(t)) /\ IsFiniteSet(Unfinished(t))
  BY <1>1, FinitelyManyPosts, FS_Subset
<1>. QED  BY <1>2, FS_CardinalityType

COROLLARY FinitelyManyAtSpansNext ==
  ASSUME NEW t \in Trace
  PROVE  /\ IsFiniteSet(AtSpans(t)') /\ Cardinality(AtSpans(t)') \in Nat
         /\ IsFiniteSet(Unfinished(t)') /\ Cardinality(Unfinished(t)') \in Nat
<1>1. /\ AtSpans(t)' \subseteq {i \in Request : TraceOf(i) = t}
      /\ Unfinished(t)' \subseteq {i \in Request : TraceOf(i) = t}
  BY DEF AtSpans, Unfinished
<1>2. IsFiniteSet(AtSpans(t)') /\ IsFiniteSet(Unfinished(t)')
  BY <1>1, FinitelyManyPosts, FS_Subset
<1>. QED  BY <1>2, FS_CardinalityType

(* No request for t reaches its second insert, and none that is unfinished  *)
(* is finished.                                                             *)
LEMMA BoundsKept ==
  ASSUME IngestType, NEW t \in Trace, Bounded(t),
         traceRows'[t] = traceRows[t], spanRows'[t] = spanRows[t],
         AtSpans(t)' \subseteq AtSpans(t), Unfinished(t) \subseteq Unfinished(t)'
  PROVE  Bounded(t)'
<1>1. Cardinality(AtSpans(t)') <= Cardinality(AtSpans(t))
  BY FinitelyManyAtSpans, FS_Subset
<1>2. Cardinality(Unfinished(t)) <= Cardinality(Unfinished(t)')
  BY FinitelyManyAtSpansNext, FS_Subset
<1>3. traceRows[t] \in Nat /\ spanRows[t] \in Nat
  BY DEF IngestType
<1>. QED  BY <1>1, <1>2, <1>3, FinitelyManyAtSpans, FinitelyManyAtSpansNext DEF Bounded

(* What a step must do to one request for BoundsKept to apply. *)
Calm(i) ==
  \/ request'[i].pc = request[i].pc
  \/ request'[i].pc # "spans" /\ (MayBeTorn(i) => MayBeTorn(i)')

LEMMA CalmKeeps ==
  ASSUME IngestType, NEW t \in Trace, Bounded(t),
         traceRows'[t] = traceRows[t], spanRows'[t] = spanRows[t],
         \A i \in Request : TraceOf(i) = t => Calm(i)
  PROVE  Bounded(t)'
<1>1. AtSpans(t)' \subseteq AtSpans(t)
  BY DEF AtSpans, Calm
<1>2. Unfinished(t) \subseteq Unfinished(t)'
  BY DEF Unfinished, Calm, MayBeTorn
<1>. QED  BY <1>1, <1>2, BoundsKept

(* The two inserts of a request whose trace has spans. *)
LEMMA InsertTraceBounds ==
  ASSUME IngestType, NEW i \in Request, InsertTrace(i), HasSpans(TraceOf(i)),
         Bounded(TraceOf(i))
  PROVE  Bounded(TraceOf(i))'
<1>. DEFINE t == TraceOf(i)
<1>0. t \in Trace
  BY RequestTrace
<1>1. CASE ~storeUp
  <2>1. /\ request'[i].pc = "failed" /\ UNCHANGED tables
        /\ \A j \in Request : j # i => request'[j] = request[j]
    BY <1>1, GoStep DEF InsertTrace, Steps, Ended
  <2>2. \A j \in Request : Calm(j)
    BY <2>1 DEF InsertTrace, Calm, MayBeTorn
  <2>. QED  BY <1>0, <2>1, <2>2, CalmKeeps DEF tables
<1>2. CASE AddTrace(t) /\ (Go(i, AfterTrace(i)) \/ Answer(i, "failed"))
  <2>1. PICK pc \in {"spans", "failed"} : Go(i, pc) \/ Answer(i, pc)
    BY <1>2 DEF AfterTrace
  <2>2. /\ request'[i].pc = pc /\ request[i].pc = "insert"
        /\ \A j \in Request : j # i => request'[j] = request[j]
    BY <2>1, GoStep DEF InsertTrace, Steps, Ended
  <2>3. Unfinished(t)' = Unfinished(t) \cup {i} /\ i \notin Unfinished(t)
    BY <2>2 DEF Unfinished, MayBeTorn
  <2>4. AtSpans(t)' \subseteq AtSpans(t) \cup {i} /\ i \notin AtSpans(t)
    BY <2>2 DEF AtSpans
  <2>5. Cardinality(Unfinished(t)') = Cardinality(Unfinished(t)) + 1
    BY <1>0, <2>3, FinitelyManyAtSpans, FS_AddElement
  <2>6. Cardinality(AtSpans(t)') <= Cardinality(AtSpans(t)) + 1
    <3>1. /\ IsFiniteSet(AtSpans(t) \cup {i})
          /\ Cardinality(AtSpans(t) \cup {i}) = Cardinality(AtSpans(t)) + 1
      BY <1>0, <2>4, FinitelyManyAtSpans, FS_AddElement
    <3>. QED  BY <2>4, <3>1, FS_Subset
  <2>7. /\ traceRows'[t] = traceRows[t] + 1 /\ spanRows'[t] = spanRows[t]
        /\ traceRows[t] \in Nat /\ spanRows[t] \in Nat
    BY <1>0, <1>2 DEF AddTrace, IngestType
  <2>. QED  BY <1>0, <2>5, <2>6, <2>7, FinitelyManyAtSpans, FinitelyManyAtSpansNext DEF Bounded
<1>. QED  BY <1>1, <1>2 DEF InsertTrace

LEMMA InsertSpansBounds ==
  ASSUME IngestType, NEW i \in Request, InsertSpans(i), Bounded(TraceOf(i))
  PROVE  Bounded(TraceOf(i))'
<1>. DEFINE t == TraceOf(i)
<1>0. t \in Trace
  BY RequestTrace
<1>1. CASE ~storeUp
  <2>1. /\ request'[i].pc = "failed" /\ UNCHANGED tables
        /\ \A j \in Request : j # i => request'[j] = request[j]
    BY <1>1, GoStep DEF InsertSpans, Steps, Ended
  <2>2. \A j \in Request : Calm(j)
    BY <2>1 DEF Calm, MayBeTorn
  <2>. QED  BY <1>0, <2>1, <2>2, CalmKeeps DEF tables
<1>2. CASE AddSpans(t) /\ (Go(i, "broadcast") \/ Answer(i, "failed"))
  <2>1. PICK pc \in {"broadcast", "failed"} : Go(i, pc) \/ Answer(i, pc)
    BY <1>2
  <2>2. /\ request'[i].pc = pc /\ request[i].pc = "spans"
        /\ \A j \in Request : j # i => request'[j] = request[j]
    BY <2>1, GoStep DEF InsertSpans, Steps, Ended
  <2>3. Unfinished(t) \ {i} \subseteq Unfinished(t)' /\ i \in Unfinished(t)
    BY <2>2 DEF Unfinished, MayBeTorn
  <2>4. AtSpans(t)' = AtSpans(t) \ {i} /\ i \in AtSpans(t)
    BY <2>2 DEF AtSpans
  <2>5. Cardinality(Unfinished(t)) - 1 <= Cardinality(Unfinished(t)')
    <3>1. Cardinality(Unfinished(t) \ {i}) = Cardinality(Unfinished(t)) - 1
      BY <1>0, <2>3, FinitelyManyAtSpans, FS_RemoveElement
    <3>. QED  BY <1>0, <2>3, <3>1, FinitelyManyAtSpansNext, FS_Subset
  <2>6. Cardinality(AtSpans(t)') = Cardinality(AtSpans(t)) - 1
    BY <1>0, <2>4, FinitelyManyAtSpans, FS_RemoveElement
  <2>7. /\ spanRows'[t] = spanRows[t] + 1 /\ traceRows'[t] = traceRows[t]
        /\ traceRows[t] \in Nat /\ spanRows[t] \in Nat
    BY <1>0, <1>2 DEF AddSpans, IngestType
  <2>. QED  BY <1>0, <2>5, <2>6, <2>7, FinitelyManyAtSpans, FinitelyManyAtSpansNext DEF Bounded
<1>. QED  BY <1>1, <1>2 DEF InsertSpans

LEMMA RowsStep ==
  ASSUME TypeOK, RowsBounded, [Next]_vars
  PROVE  RowsBounded'
<1>. USE DEF TypeOK
<1>. SUFFICES ASSUME NEW t \in Trace, HasSpans(t), Bounded(t)
              PROVE  Bounded(t)'
  BY DEF RowsBounded, HasSpans
<1>1. CASE (\A i \in Request : Calm(i)) /\ UNCHANGED tables
  BY <1>1, CalmKeeps DEF tables
<1>2. ASSUME NEW i \in Request, InsertTrace(i) \/ InsertSpans(i)
      PROVE  Bounded(t)'
  <2>1. CASE TraceOf(i) = t
    BY <1>2, <2>1, InsertTraceBounds, InsertSpansBounds
  <2>2. CASE TraceOf(i) # t
    <3>1. traceRows'[t] = traceRows[t] /\ spanRows'[t] = spanRows[t]
      BY <1>2, <2>2, RequestTrace DEF InsertTrace, InsertSpans, AddTrace, AddSpans, tables,
         IngestType
    <3>2. \A j \in Request : j # i => request'[j] = request[j]
      BY <1>2 DEF InsertTrace, InsertSpans, Go, Answer, IngestType
    <3>. QED  BY <2>2, <3>1, <3>2, CalmKeeps DEF Calm
  <2>. QED  BY <2>1, <2>2
<1>3. ASSUME NEW i \in Request, BroadcastTrace(i) \/ Reply(i)
      PROVE  Bounded(t)'
  <2>1. PICK pc \in {"reply", "done"} : Go(i, pc) \/ Answer(i, pc)
    BY <1>3 DEF BroadcastTrace, Reply
  <2>2. /\ request'[i].pc = pc /\ request[i].pc \in {"broadcast", "reply"}
        /\ \A j \in Request : j # i => request'[j] = request[j]
    BY <1>3, <2>1, GoStep DEF BroadcastTrace, Reply, Steps, Ended
  <2>3. UNCHANGED tables
    BY <1>3 DEF BroadcastTrace, Reply
  <2>4. \A j \in Request : Calm(j)
    BY <2>2 DEF Calm, MayBeTorn
  <2>. QED  BY <1>1, <2>3, <2>4
<1>4. ASSUME NEW r \in Replica, NEW i \in Request, Post(r, i)
      PROVE  (\A j \in Request : Calm(j)) /\ UNCHANGED tables
  BY <1>4 DEF Post, Calm, MayBeTorn, IngestType
<1>5. ASSUME NEW i \in Request, ClientTimeout(i)
      PROVE  (\A j \in Request : Calm(j)) /\ UNCHANGED tables
  BY <1>5 DEF ClientTimeout, Calm, IngestType
<1>6. ASSUME NEW r \in Replica, Crash(r)
      PROVE  (\A j \in Request : Calm(j)) /\ UNCHANGED tables
  BY <1>6 DEF Crash, Calm, MayBeTorn, IngestType
<1>7. ASSUME UNCHANGED <<request, tables>>
      PROVE  (\A j \in Request : Calm(j)) /\ UNCHANGED tables
  BY <1>7 DEF Calm
<1>. QED  BY <1>1, <1>2, <1>3, <1>4, <1>5, <1>6, <1>7
          DEF Next, Serve, vars, StoreSwitch

(***************************************************************************)
(* However inserts fail, replicas die and posts are repeated and overlap,  *)
(* a trace has at most one row without spans for each of its requests that *)
(* is between its two inserts or was not answered with a 201.              *)
(***************************************************************************)
THEOREM TornTracesAreUnfinished == Spec => []TornByFailureOnly
<1>. DEFINE Inv == TypeOK /\ RowsBounded
<1>1. Init => Inv
  <2>. SUFFICES ASSUME Init PROVE Inv
    OBVIOUS
  <2>1. ASSUME NEW t \in Trace
        PROVE  Bounded(t)
    <3>1. AtSpans(t) = {} /\ Unfinished(t) = {}
      BY DEF Init, NoRequest, AtSpans, Unfinished, MayBeTorn
    <3>2. traceRows[t] = 0 /\ spanRows[t] = 0
      BY DEF Init
    <3>. QED  BY <3>1, <3>2, FS_EmptySet DEF Bounded
  <2>. QED  BY <2>1, IngestInitType DEF RowsBounded
<1>2. Inv /\ [Next]_vars => Inv'
  BY RowsStep, TypeStep
<1>3. Inv => TornByFailureOnly
  <2>. SUFFICES ASSUME Inv, NEW t \in Trace, HasSpans(t)
                PROVE  /\ spanRows[t] <= traceRows[t]
                       /\ traceRows[t] - spanRows[t] <= Cardinality(Unfinished(t))
    BY DEF TornByFailureOnly, Unfinished
  <2>1. Bounded(t) /\ traceRows[t] \in Nat /\ spanRows[t] \in Nat
    BY DEF RowsBounded, TypeOK, IngestType
  <2>. QED  BY <2>1, FinitelyManyAtSpans DEF Bounded
<1>. QED  BY <1>1, <1>2, <1>3, PTL DEF Spec
=============================================================================
