------------------------------ MODULE FeedProofs ------------------------------
(***************************************************************************)
(* What the browsers get: no trace too often, in any instance; every trace *)
(* they are owed, if Redis stays as it is; in the order of the publishes   *)
(* and without a gap, if no publish fails half way either.                 *)
(***************************************************************************)
EXTENDS IngestProofs

USE FeedConstants, IngestConstants

-----------------------------------------------------------------------------
(***************************************************************************)
(* How often a trace occurs in a sequence.                                 *)
(***************************************************************************)
Is(x, u) == IF x = u THEN 1 ELSE 0

LEMMA CountType ==
  ASSUME NEW s \in Seq(Trace), NEW u
  PROVE  /\ IsFiniteSet({k \in DOMAIN s : s[k] = u})
         /\ Count(s, u) \in Nat
<1>1. DOMAIN s = 1..Len(s) /\ Len(s) \in Nat
  OBVIOUS
<1>2. IsFiniteSet(1..Len(s))
  BY <1>1, FS_Interval
<1>3. IsFiniteSet({k \in DOMAIN s : s[k] = u})
  BY <1>1, <1>2, FS_Subset
<1>. QED  BY <1>3, FS_CardinalityType DEF Count

LEMMA CountEmpty == \A u : Count(<<>>, u) = 0
<1>. SUFFICES ASSUME NEW u PROVE Count(<<>>, u) = 0
  OBVIOUS
<1>1. {k \in DOMAIN <<>> : <<>>[k] = u} = {}
  OBVIOUS
<1>. QED  BY <1>1, FS_EmptySet DEF Count

LEMMA CountAppend ==
  ASSUME NEW s \in Seq(Trace), NEW x \in Trace, NEW u
  PROVE  Count(Append(s, x), u) = Count(s, u) + Is(x, u)
<1>. DEFINE P == {k \in DOMAIN s : s[k] = u}
            Q == {k \in DOMAIN Append(s, x) : Append(s, x)[k] = u}
            n == Len(s) + 1
<1>1. /\ DOMAIN s = 1..Len(s) /\ Len(s) \in Nat
      /\ DOMAIN Append(s, x) = 1..n
      /\ \A k \in 1..Len(s) : Append(s, x)[k] = s[k]
      /\ Append(s, x)[n] = x
  OBVIOUS
<1>2. n \notin P
  BY <1>1
<1>3. Q = IF x = u THEN P \cup {n} ELSE P
  BY <1>1
<1>4. IsFiniteSet(P) /\ Cardinality(P) \in Nat
  BY CountType DEF Count
<1>5. Cardinality(Q) = Cardinality(P) + Is(x, u)
  <2>. HIDE DEF P, Q, n
  <2>1. Cardinality(P \cup {n}) = Cardinality(P) + 1
    BY <1>2, <1>4, FS_AddElement
  <2>. QED  BY <1>3, <1>4, <2>1 DEF Is
<1>. QED  BY <1>5 DEF Count

LEMMA CountTail ==
  ASSUME NEW s \in Seq(Trace), s # <<>>, NEW u
  PROVE  Count(s, u) = Count(Tail(s), u) + Is(Head(s), u)
<1>. DEFINE P == {k \in DOMAIN Tail(s) : Tail(s)[k] = u}
            Q == {k \in DOMAIN s : s[k] = u}
            f == [k \in P |-> k + 1]
<1>1. /\ DOMAIN s = 1..Len(s) /\ Len(s) \in Nat \ {0}
      /\ Tail(s) \in Seq(Trace) /\ DOMAIN Tail(s) = 1..(Len(s) - 1)
      /\ \A k \in 1..(Len(s) - 1) : Tail(s)[k] = s[k + 1]
      /\ Head(s) = s[1]
  OBVIOUS
<1>2. f \in Bijection(P, Q \ {1})
  <2>1. f \in [P -> Q \ {1}]
    BY <1>1
  <2>2. \A j, k \in P : f[j] = f[k] => j = k
    BY <1>1
  <2>3. ASSUME NEW k \in Q \ {1}
        PROVE  \E j \in P : f[j] = k
    <3>1. k - 1 \in P /\ (k - 1) + 1 = k
      BY <1>1
    <3>. QED  BY <3>1
  <2>. QED  BY <2>1, <2>2, <2>3 DEF Bijection, Injection, Surjection, IsInjective
<1>3. IsFiniteSet(P) /\ IsFiniteSet(Q)
  <2>1. Tail(s) \in Seq(Trace)
    BY <1>1
  <2>2. IsFiniteSet(P)
    BY <2>1, CountType, Zenon
  <2>3. IsFiniteSet(Q)
    BY CountType, Zenon
  <2>. QED  BY <2>2, <2>3
<1>4. Cardinality(Q \ {1}) = Cardinality(P) /\ Cardinality(Q) \in Nat
  <2>. HIDE DEF P, Q, f
  <2>. QED  BY <1>2, <1>3, FS_Bijection, FS_CardinalityType DEF ExistsBijection
<1>5. 1 \in Q <=> Head(s) = u
  BY <1>1
<1>6. Cardinality(Q) = Cardinality(P) + Is(Head(s), u)
  <2>. HIDE DEF P, Q, f
  <2>1. Cardinality(Q \ {1}) = IF 1 \in Q THEN Cardinality(Q) - 1 ELSE Cardinality(Q)
    BY <1>3, FS_RemoveElement
  <2>. QED  BY <1>4, <1>5, <2>1 DEF Is
<1>. QED  BY <1>6 DEF Count
-----------------------------------------------------------------------------
(***************************************************************************)
(* Where the broadcasts that are under way are going: a request's to the   *)
(* WebSockets of its own replica, after it has stored its trace, and the   *)
(* listener's to those of its replica.  A browser that has not connected   *)
(* yet is on none of their lists.                                          *)
(***************************************************************************)
PlacedBy(i) ==
  cast[i] # NoCast =>
    /\ request[i].pc = "reply"
    /\ cast[i].trace = TraceOf(i)
    /\ \A w \in cast[i].todo : HomeOf[w] = request[i].at
Placed ==
  /\ \A i \in Request : PlacedBy(i)
  /\ \A r \in Replica : \A w \in cast[r].todo : HomeOf[w] = r
Fresh(w) == received[w] = <<>> /\ \A b \in Broadcaster : w \notin cast[b].todo
Untouched == \A w \in Socket : handler[w] = "none" => Fresh(w)

(* The copy of the set that a broadcast takes. *)
LEMMA LocalCast ==
  ASSUME FeedType, NEW b \in Broadcaster, NEW r, NEW t, Local(b, r, t)
  PROVE  /\ cast'[b].trace = t
         /\ cast'[b].todo = {w \in connections : HomeOf[w] = r}
         /\ \A c \in Broadcaster : c # b => cast'[c] = cast[c]
BY DEF FeedType, Local

(* A send takes one WebSocket off one list. *)
LEMMA SendCast ==
  ASSUME FeedType, NEW b \in Broadcaster, NEW w \in Socket, Send(b, w)
  PROVE  /\ cast[b] # NoCast /\ cast[b].trace \in Trace
         /\ cast'[b].trace = cast[b].trace
         /\ cast'[b].todo = cast[b].todo \ {w}
         /\ \A c \in Broadcaster : c # b => cast'[c] = cast[c]
<1>1. cast[b] # NoCast
  BY DEF Send, NoCast
<1>2. cast[b] \in [trace : Trace, todo : SUBSET Socket, stale : SUBSET Socket]
  BY <1>1 DEF FeedType, Cast
<1>3. cast \in [Broadcaster -> Cast]
  BY DEF FeedType
<1>4. CASE cast' = [cast EXCEPT ![b].todo = @ \ {w}]
  BY <1>1, <1>2, <1>3, <1>4
<1>5. CASE FailureNoted(b, w)
  BY <1>1, <1>2, <1>3, <1>5 DEF FailureNoted
<1>. QED  BY <1>4, <1>5 DEF Send

(* The end of a broadcast, and the broadcasts that a replica takes with it. *)
LEMMA CastDropped ==
  ASSUME TypeOK, [Next]_vars
  PROVE  \/ UNCHANGED cast
         \/ \E i \in Request : BroadcastTrace(i)
         \/ \E r \in Replica : Relay(r)
         \/ \E b \in Broadcaster, w \in Socket : Send(b, w)
         \/ \A b \in Broadcaster : cast'[b] \in {cast[b], NoCast}
<1>1. ASSUME NEW r \in Replica, Crash(r)
      PROVE  \A b \in Broadcaster : cast'[b] \in {cast[b], NoCast}
  BY <1>1 DEF Crash, Halt
<1>2. ASSUME NEW b \in Broadcaster, EndLocal(b)
      PROVE  \A c \in Broadcaster : cast'[c] \in {cast[c], NoCast}
  BY <1>2 DEF EndLocal, TypeOK, FeedType
<1>. QED  BY <1>1, <1>2
          DEF Next, Serve, vars, feedVars, Post, ClientTimeout, InsertTrace, InsertSpans, Reply,
              StoreSwitch, Feed, Start, Subscribe, ListenerCrash, Connect, AddConnection,
              Disconnect, PeerLeaves, RedisSwitch

(* A request that has a broadcast under way stays where it is. *)
LEMMA RequestStep ==
  ASSUME TypeOK, Placed, [Next]_vars, NEW i \in Request
  PROVE  \/ request'[i].pc = request[i].pc /\ request'[i].at = request[i].at
         \/ cast'[i] = NoCast
         \/ BroadcastTrace(i)
<1>. USE DEF TypeOK
<1>1. ASSUME NEW j \in Request, j # i, Serve(j)
      PROVE  request'[i] = request[i]
  BY <1>1 DEF Serve, InsertTrace, InsertSpans, BroadcastTrace, Reply, Go, Answer, IngestType
<1>2. CASE InsertTrace(i) \/ InsertSpans(i) \/ Reply(i)
  <2>1. cast[i] = NoCast
    BY <1>2 DEF InsertTrace, InsertSpans, Reply, Placed, PlacedBy
  <2>2. cast' = cast
    BY <1>2 DEF InsertTrace, InsertSpans, Reply, feedVars
  <2>. QED  BY <2>1, <2>2
<1>3. ASSUME NEW r \in Replica, NEW j \in Request, Post(r, j)
      PROVE  request'[i] = request[i] \/ cast'[i] = NoCast
  <2>1. CASE j = i
    BY <1>3, <2>1 DEF Post, Placed, PlacedBy, feedVars
  <2>2. CASE j # i
    BY <1>3, <2>2 DEF Post, IngestType
  <2>. QED  BY <2>1, <2>2
<1>4. ASSUME NEW r \in Replica, Crash(r)
      PROVE  request'[i] = request[i] \/ cast'[i] = NoCast
  BY <1>4 DEF Crash, Halt, Broadcaster
<1>5. ASSUME NEW j \in Request, ClientTimeout(j)
      PROVE  request'[i].pc = request[i].pc /\ request'[i].at = request[i].at
  BY <1>5 DEF ClientTimeout, IngestType
<1>. QED  BY <1>1, <1>2, <1>3, <1>4, <1>5 DEF Next, Serve, vars, StoreSwitch

LEMMA PlacedStep ==
  ASSUME TypeOK, Placed, [Next]_vars
  PROVE  Placed'
<1>. USE DEF TypeOK
<1>1. ASSUME NEW i \in Request, BroadcastTrace(i)
      PROVE  /\ PlacedBy(i)'
             /\ \A b \in Broadcaster : b # i => cast'[b] = cast[b]
  <2>1. request'[i].pc = "reply" /\ request'[i].at = request[i].at /\ i \in Broadcaster
    BY <1>1, GoStep DEF BroadcastTrace, Steps, Broadcaster
  <2>2. cast[i] = NoCast
    BY <1>1 DEF BroadcastTrace, Placed, PlacedBy
  <2>3. UNCHANGED cast \/ Local(i, request[i].at, TraceOf(i))
    BY <1>1 DEF BroadcastTrace, Broadcast, Both, Published
  <2>. QED  BY <2>1, <2>2, <2>3, LocalCast DEF PlacedBy
<1>2. ASSUME NEW r \in Replica, Relay(r)
      PROVE  /\ r \in Broadcaster /\ cast'[r].todo = {w \in connections : HomeOf[w] = r}
             /\ \A b \in Broadcaster : b # r => cast'[b] = cast[b]
  BY <1>2, LocalCast DEF Relay, Broadcaster
<1>3. ASSUME NEW i \in Request
      PROVE  PlacedBy(i)'
  <2>0. i \in Broadcaster /\ i \notin Replica /\ PlacedBy(i)
    BY DEF Broadcaster, Placed
  <2>1. CASE cast'[i] = NoCast
    BY <2>1 DEF PlacedBy
  <2>2. CASE request'[i].pc = request[i].pc /\ request'[i].at = request[i].at
    <3>1. CASE cast'[i] = cast[i]
      BY <2>0, <2>2, <3>1 DEF PlacedBy
    <3>2. ASSUME NEW b \in Broadcaster, NEW w \in Socket, Send(b, w)
          PROVE  PlacedBy(i)'
      BY <2>0, <2>2, <3>2, SendCast DEF PlacedBy
    <3>. QED  BY <1>1, <1>2, <2>0, <2>1, <3>1, <3>2, CastDropped
  <2>. QED  BY <1>1, <2>1, <2>2, RequestStep
<1>4. ASSUME NEW r \in Replica
      PROVE  (\A w \in cast[r].todo : HomeOf[w] = r)'
  <2>0. r \in Broadcaster /\ r \notin Request /\ \A w \in cast[r].todo : HomeOf[w] = r
    BY DEF Broadcaster, Placed
  <2>1. CASE cast'[r] = cast[r] \/ cast'[r] = NoCast
    BY <2>0, <2>1 DEF NoCast
  <2>2. ASSUME NEW b \in Broadcaster, NEW w \in Socket, Send(b, w)
        PROVE  (\A v \in cast[r].todo : HomeOf[v] = r)'
    BY <2>0, <2>2, SendCast
  <2>3. CASE Relay(r)
    BY <1>2, <2>3
  <2>. QED  BY <1>1, <1>2, <2>0, <2>1, <2>2, <2>3, CastDropped
<1>. QED  BY <1>3, <1>4 DEF Placed

(* A browser that has not connected yet is not in the set the copies are   *)
(* taken of.                                                               *)
LEMMA UntouchedStep ==
  ASSUME TypeOK, ConnectionsServed, Untouched, [Next]_vars
  PROVE  Untouched'
<1>. USE DEF TypeOK
<1>. SUFFICES ASSUME NEW w \in Socket, handler'[w] = "none"
              PROVE  Fresh(w)'
  BY DEF Untouched
<1>1. handler[w] = "none"
  <2>1. ASSUME NEW v \in Socket, Connect(v) \/ Disconnect(v)
        PROVE  handler[w] = "none"
    BY <2>1 DEF Connect, Disconnect, EndHandler, FeedType
  <2>2. ASSUME NEW r \in Replica, Crash(r)
        PROVE  handler[w] = "none"
    BY <2>2 DEF Crash, Halt, FeedType
  <2>. QED  BY <2>1, <2>2
            DEF Next, Serve, vars, feedVars, Post, ClientTimeout, InsertTrace, InsertSpans,
                BroadcastTrace, Broadcast, Reply, StoreSwitch, Feed, Start, Subscribe,
                ListenerCrash, Relay, PeerLeaves, Send, EndLocal, RedisSwitch, sockets
<1>2. Fresh(w) /\ w \notin connections
  BY <1>1 DEF Untouched, ConnectionsServed
<1>3. ASSUME NEW b \in Broadcaster, NEW r, NEW t, Local(b, r, t)
      PROVE  \A c \in Broadcaster : w \notin cast'[c].todo
  <2>. TAKE c \in Broadcaster
  <2>1. w \notin cast[c].todo
    BY <1>2 DEF Fresh
  <2>. QED  BY <1>2, <1>3, <2>1, LocalCast
<1>4. ASSUME NEW b \in Broadcaster, NEW v \in Socket, Send(b, v)
      PROVE  Fresh(w)'
  <2>1. v # w
    BY <1>2, <1>4 DEF Fresh, Send
  <2>2. received'[w] = received[w]
    BY <1>4, <2>1 DEF Send, FeedType
  <2>3. ASSUME NEW c \in Broadcaster
        PROVE  w \notin cast'[c].todo
    BY <1>2, <1>4, SendCast DEF Fresh
  <2>. QED  BY <1>2, <2>2, <2>3 DEF Fresh
<1>5. \A c \in Broadcaster : w \notin cast'[c].todo
  <2>1. ASSUME NEW i \in Request, BroadcastTrace(i)
        PROVE  \A c \in Broadcaster : w \notin cast'[c].todo
    <3>1. UNCHANGED cast \/ Local(i, request[i].at, TraceOf(i))
      BY <2>1 DEF BroadcastTrace, Broadcast, Both, Published
    <3>. QED  BY <1>2, <1>3, <3>1 DEF Broadcaster, Fresh
  <2>2. ASSUME NEW r \in Replica, Relay(r)
        PROVE  \A c \in Broadcaster : w \notin cast'[c].todo
    BY <1>3, <2>2 DEF Relay, Broadcaster
  <2>3. CASE \A c \in Broadcaster : cast'[c] \in {cast[c], NoCast}
    BY <1>2, <2>3 DEF Fresh, NoCast
  <2>4. CASE UNCHANGED cast
    BY <1>2, <2>4 DEF Fresh
  <2>. QED  BY <1>4, <2>1, <2>2, <2>3, <2>4, CastDropped DEF Fresh
<1>6. received' = received \/ \E b \in Broadcaster, v \in Socket : Send(b, v)
  BY DEF Next, Serve, vars, feedVars, Post, ClientTimeout, InsertTrace, InsertSpans,
         BroadcastTrace, Broadcast, Reply, Crash, Halt, StoreSwitch, Feed, Start, Subscribe,
         ListenerCrash, Relay, Connect, Disconnect, PeerLeaves, EndLocal, RedisSwitch
<1>. QED  BY <1>2, <1>4, <1>5, <1>6 DEF Fresh

Headed == TypeOK /\ StaleGone /\ ConnectionsServed /\ Placed /\ Untouched

LEMMA HeadedInit == Init => Headed
<1>. SUFFICES ASSUME Init PROVE Headed
  OBVIOUS
<1>1. StaleGone /\ ConnectionsServed
  BY DEF Init, FeedInit, NoCast, StaleGone, ConnectionsServed, Watching
<1>2. \A b \in Broadcaster : cast[b] = NoCast
  BY DEF Init, FeedInit
<1>3. Placed
  BY <1>2 DEF Placed, PlacedBy, NoCast, Broadcaster
<1>4. Untouched
  BY <1>2 DEF Init, FeedInit, Untouched, Fresh, NoCast
<1>. QED  BY <1>1, <1>3, <1>4, IngestInitType DEF Headed

LEMMA HeadedStep ==
  ASSUME Headed, [Next]_vars
  PROVE  Headed'
BY TypeStep, SocketsStep, PlacedStep, UntouchedStep DEF Headed

-----------------------------------------------------------------------------
(***************************************************************************)
(* How often browser w has been, is being or is still to be sent trace u:  *)
(* what it has received, the broadcasts that carry u and have w before     *)
(* them, and the messages its replica has not relayed.                     *)
(***************************************************************************)
Bearing(w, u) == {b \in Broadcaster : w \in cast[b].todo /\ cast[b].trace = u}
Shown(w, u) ==
  Count(received[w], u) + Cardinality(Bearing(w, u)) + Count(inbox[HomeOf[w]], u)
Due(w, u) == Count(feed[HomeOf[w]], u)

LEMMA BearingFinite ==
  ASSUME Placed, NEW w \in Socket, NEW u \in Trace
  PROVE  IsFiniteSet(Bearing(w, u)) /\ Cardinality(Bearing(w, u)) \in Nat
<1>1. Bearing(w, u) \subseteq {i \in Request : TraceOf(i) = u} \cup {HomeOf[w]}
  BY DEF Bearing, Placed, PlacedBy, NoCast, Broadcaster
<1>2. IsFiniteSet({i \in Request : TraceOf(i) = u} \cup {HomeOf[w]})
  BY FinitelyManyPosts, FS_AddElement
<1>3. IsFiniteSet(Bearing(w, u))
  BY <1>1, <1>2, FS_Subset
<1>. QED  BY <1>3, FS_CardinalityType

COROLLARY BearingFiniteNext ==
  ASSUME Headed, [Next]_vars, NEW w \in Socket, NEW u \in Trace
  PROVE  IsFiniteSet(Bearing(w, u)') /\ Cardinality(Bearing(w, u)') \in Nat
<1>1. Placed'
  BY HeadedStep DEF Headed
<1>2. Bearing(w, u)' \subseteq {i \in Request : TraceOf(i) = u} \cup {HomeOf[w]}
  BY <1>1 DEF Bearing, Placed, PlacedBy, NoCast, Broadcaster
<1>3. IsFiniteSet({i \in Request : TraceOf(i) = u} \cup {HomeOf[w]})
  BY FinitelyManyPosts, FS_AddElement
<1>4. IsFiniteSet(Bearing(w, u)')
  BY <1>2, <1>3, FS_Subset
<1>. QED  BY <1>4, FS_CardinalityType

(* The browsers that a new broadcast has before it. *)
Reached(w, r) == IF w \in connections /\ HomeOf[w] = r THEN 1 ELSE 0

LEMMA LocalBears ==
  ASSUME Headed, NEW b \in Broadcaster, NEW r, NEW t \in Trace, Local(b, r, t),
         cast[b] = NoCast, NEW w \in Socket, NEW u \in Trace
  PROVE  Cardinality(Bearing(w, u)') = Cardinality(Bearing(w, u)) + Reached(w, r) * Is(t, u)
<1>1. b \notin Bearing(w, u)
  BY DEF Bearing, NoCast
<1>2. /\ cast'[b].trace = t
      /\ w \in cast'[b].todo <=> w \in connections /\ HomeOf[w] = r
      /\ \A c \in Broadcaster : c # b => cast'[c] = cast[c]
  BY LocalCast DEF Headed, TypeOK
<1>3. IsFiniteSet(Bearing(w, u)) /\ Cardinality(Bearing(w, u)) \in Nat
  BY BearingFinite DEF Headed
<1>4. CASE w \in connections /\ HomeOf[w] = r /\ t = u
  <2>1. Bearing(w, u)' = Bearing(w, u) \cup {b}
    BY <1>1, <1>2, <1>4 DEF Bearing
  <2>2. Cardinality(Bearing(w, u)') = Cardinality(Bearing(w, u)) + 1
    BY <1>1, <1>3, <2>1, FS_AddElement
  <2>. QED  BY <1>4, <2>2 DEF Reached, Is
<1>5. CASE ~(w \in connections /\ HomeOf[w] = r /\ t = u)
  <2>1. Bearing(w, u)' = Bearing(w, u)
    BY <1>1, <1>2, <1>5 DEF Bearing
  <2>2. Reached(w, r) * Is(t, u) = 0
    BY <1>5 DEF Reached, Is
  <2>. QED  BY <1>3, <2>1, <2>2
<1>. QED  BY <1>4, <1>5

(* One send: the trace goes from the broadcast into the browser, if it is  *)
(* still there.                                                            *)
LEMMA SendShows ==
  ASSUME Headed, [Next]_vars, NEW b \in Broadcaster, NEW v \in Socket, Send(b, v),
         NEW w \in Socket, NEW u \in Trace
  PROVE  /\ Shown(w, u)' <= Shown(w, u)
         /\ w \notin gone => Shown(w, u)' = Shown(w, u)
<1>. USE DEF Headed, TypeOK
<1>0. /\ IsFiniteSet(Bearing(w, u)) /\ Cardinality(Bearing(w, u)) \in Nat
      /\ Cardinality(Bearing(w, u)') \in Nat
      /\ Count(received[w], u) \in Nat
      /\ Count(inbox[HomeOf[w]], u) \in Nat
      /\ inbox' = inbox
  BY BearingFinite, BearingFiniteNext, CountType DEF FeedType, Send
<1>1. /\ cast[b].trace \in Trace /\ cast'[b].trace = cast[b].trace
      /\ cast'[b].todo = cast[b].todo \ {v}
      /\ \A c \in Broadcaster : c # b => cast'[c] = cast[c]
      /\ v \in cast[b].todo
  BY SendCast DEF Send
<1>2. CASE v # w \/ cast[b].trace # u
  <2>1. Bearing(w, u)' = Bearing(w, u)
    BY <1>1, <1>2 DEF Bearing
  <2>2. Count(received'[w], u) = Count(received[w], u)
    <3>1. \/ received'[w] = received[w]
          \/ v = w /\ received'[w] = Append(received[w], cast[b].trace)
      BY DEF Send, FeedType
    <3>2. received[w] \in Seq(Trace)
      BY DEF FeedType
    <3>3. CASE v = w /\ received'[w] = Append(received[w], cast[b].trace)
      <4>1. Is(cast[b].trace, u) = 0
        BY <1>2, <3>3 DEF Is
      <4>. QED  BY <1>0, <1>1, <3>2, <3>3, <4>1, CountAppend
    <3>. QED  BY <3>1, <3>3
  <2>. QED  BY <1>0, <2>1, <2>2 DEF Shown
<1>3. CASE v = w /\ cast[b].trace = u
  <2>1. Bearing(w, u)' = Bearing(w, u) \ {b} /\ b \in Bearing(w, u)
    BY <1>1, <1>3 DEF Bearing
  <2>2. Cardinality(Bearing(w, u)') = Cardinality(Bearing(w, u)) - 1
    BY <1>0, <2>1, FS_RemoveElement
  <2>3. CASE w \notin gone
    <3>1. received'[w] = Append(received[w], u) /\ received[w] \in Seq(Trace)
      BY <1>3, <2>3 DEF Send, FeedType
    <3>2. Count(received'[w], u) = Count(received[w], u) + 1
      BY <3>1, CountAppend DEF Is
    <3>. QED  BY <1>0, <2>2, <3>2 DEF Shown
  <2>4. CASE w \in gone
    <3>1. received' = received
      BY <1>3, <2>4 DEF Send
    <3>. QED  BY <1>0, <2>2, <2>4, <3>1 DEF Shown
  <2>. QED  BY <2>3, <2>4
<1>. QED  BY <1>2, <1>3

(* The listener takes a message out of the inbox into a broadcast. *)
LEMMA RelayShows ==
  ASSUME Headed, NEW r \in Replica, Relay(r), NEW w \in Socket, NEW u \in Trace
  PROVE  /\ Shown(w, u)' <= Shown(w, u)
         /\ w \in connections => Shown(w, u)' = Shown(w, u)
<1>. USE DEF Headed, TypeOK
<1>. DEFINE t == Head(inbox[r])
<1>0. /\ inbox[r] \in Seq(Trace) /\ inbox[r] # <<>> /\ r \in Broadcaster
      /\ cast[r] = NoCast /\ Local(r, r, t)
      /\ received' = received
  BY DEF Relay, FeedType, Broadcaster
<1>1. t \in Trace
  BY <1>0
<1>2. Cardinality(Bearing(w, u)') = Cardinality(Bearing(w, u)) + Reached(w, r) * Is(t, u)
  BY <1>0, <1>1, LocalBears
<1>3. /\ Cardinality(Bearing(w, u)) \in Nat /\ Count(received[w], u) \in Nat
      /\ Count(inbox[HomeOf[w]], u) \in Nat /\ HomeOf[w] \in Replica
  BY BearingFinite, CountType DEF FeedType
<1>4. Is(t, u) \in {0, 1}
  BY DEF Is
<1>5. CASE HomeOf[w] = r
  <2>1. inbox'[r] = Tail(inbox[r])
    BY DEF Relay, FeedType
  <2>2. Count(inbox[r], u) = Count(inbox'[r], u) + Is(t, u)
    BY <1>0, <2>1, CountTail
  <2>3. Tail(inbox[r]) \in Seq(Trace)
    BY <1>0
  <2>4. Count(inbox'[r], u) \in Nat
    BY <2>1, <2>3, CountType
  <2>5. Reached(w, r) * Is(t, u) = IF w \in connections THEN Is(t, u) ELSE 0
    BY <1>4, <1>5 DEF Reached
  <2>. DEFINE seen == Count(received[w], u)
              moved == Is(t, u)
              reached == Reached(w, r) * Is(t, u)
  <2>6. /\ seen \in Nat /\ moved \in Nat /\ reached <= moved /\ reached \in Nat
        /\ w \in connections => reached = moved
    BY <1>3, <1>4, <2>5
  <2>7. /\ Shown(w, u) = seen + Cardinality(Bearing(w, u)) + (Count(inbox'[r], u) + moved)
        /\ Shown(w, u)' = seen + (Cardinality(Bearing(w, u)) + reached) + Count(inbox'[r], u)
    BY <1>0, <1>2, <1>5, <2>2 DEF Shown
  <2>. HIDE DEF seen, moved, reached
  <2>. QED  BY <1>3, <2>4, <2>6, <2>7
<1>6. CASE HomeOf[w] # r
  <2>1. inbox'[HomeOf[w]] = inbox[HomeOf[w]]
    BY <1>3, <1>6 DEF Relay, FeedType
  <2>2. Reached(w, r) * Is(t, u) = 0
    BY <1>4, <1>6 DEF Reached
  <2>. QED  BY <1>0, <1>2, <1>3, <2>1, <2>2 DEF Shown
<1>. QED  BY <1>5, <1>6

(* What a broadcast adds to the feed of a replica. *)
LEMMA OneMore ==
  ASSUME NEW s \in Seq(Trace), NEW x \in Trace, NEW c \in BOOLEAN
  PROVE  s \o (IF c THEN <<x>> ELSE <<>>) = IF c THEN Append(s, x) ELSE s
<1>1. CASE c
  BY <1>1, AppendIsConcat
<1>2. CASE ~c
  BY <1>2, ConcatEmptySeq
<1>. QED  BY <1>1, <1>2

Hears(q) == listener[q] \notin {"none", "starting"}

LEMMA FeedGrows ==
  ASSUME FeedType, NEW i \in Request, NEW r \in Replica, NEW t \in Trace,
         Broadcast(i, r, t), NEW q \in Replica
  PROVE  \/ /\ Deliver(t) /\ UNCHANGED cast
            /\ feed'[q] = IF Hears(q) THEN Append(feed[q], t) ELSE feed[q]
         \/ /\ Deliver(t) /\ Local(i, r, t) /\ "ambiguous" \in FeedEvents
            /\ \E s \in {feed[q], Append(feed[q], t)} :
                 /\ s = IF Hears(q) THEN Append(feed[q], t) ELSE feed[q]
                 /\ feed'[q] = IF q = r THEN Append(s, t) ELSE s
         \/ /\ UNCHANGED inbox /\ Local(i, r, t)
            /\ ~handle[r] \/ ~redisUp
            /\ feed'[q] = IF q = r THEN Append(feed[q], t) ELSE feed[q]
<1>0. feed[q] \in Seq(Trace)
  BY DEF FeedType
<1>1. CASE Both(i, r, t) /\ "ambiguous" \in FeedEvents
  <2>. DEFINE s == IF Hears(q) THEN Append(feed[q], t) ELSE feed[q]
  <2>1. s \in {feed[q], Append(feed[q], t)} /\ s \in Seq(Trace)
    BY <1>0
  <2>2. feed'[q] = feed[q] \o (IF Hears(q) THEN <<t>> ELSE <<>>)
                          \o (IF q = r THEN <<t>> ELSE <<>>)
    BY <1>1 DEF Both, Hears
  <2>3. feed[q] \o (IF Hears(q) THEN <<t>> ELSE <<>>) = s
    BY <1>0, OneMore DEF Hears
  <2>4. s \o (IF q = r THEN <<t>> ELSE <<>>) = IF q = r THEN Append(s, t) ELSE s
    <3>. HIDE DEF s
    <3>. QED  BY <2>1, OneMore
  <2>. QED  BY <1>1, <2>1, <2>2, <2>3, <2>4 DEF Both
<1>2. CASE handle[r] /\ redisUp /\ Published(i, r, t) /\ Promise(r, t)
  BY <1>2 DEF Published, Promise, Hears
<1>3. CASE (~handle[r] \/ ~redisUp) /\ Local(i, r, t) /\ UNCHANGED inbox /\ Promise(r, t)
  BY <1>3 DEF Promise
<1>. QED  BY <1>1, <1>2, <1>3 DEF Broadcast

COROLLARY FeedGains ==
  ASSUME FeedType, NEW i \in Request, NEW r \in Replica, NEW t \in Trace,
         Broadcast(i, r, t), NEW q \in Replica
  PROVE  feed'[q] \in {feed[q], Append(feed[q], t), Append(Append(feed[q], t), t)}
<1>1. CASE \E s \in {feed[q], Append(feed[q], t)} :
             /\ s = IF Hears(q) THEN Append(feed[q], t) ELSE feed[q]
             /\ feed'[q] = IF q = r THEN Append(s, t) ELSE s
  <2>1. PICK s \in {feed[q], Append(feed[q], t)} :
               feed'[q] = IF q = r THEN Append(s, t) ELSE s
    BY <1>1
  <2>2. feed'[q] \in {s, Append(s, t)}
    BY <2>1
  <2>. QED  BY <2>1, <2>2
<1>2. CASE \/ feed'[q] = IF Hears(q) THEN Append(feed[q], t) ELSE feed[q]
           \/ feed'[q] = IF q = r THEN Append(feed[q], t) ELSE feed[q]
  BY <1>2
<1>. QED  BY <1>1, <1>2, FeedGrows

(* What a post adds to what a browser is shown, and to what it is due. *)
LEMMA BroadcastShows ==
  ASSUME Headed, NEW i \in Request, BroadcastTrace(i), NEW w \in Socket, NEW u \in Trace
  PROVE  /\ Shown(w, u)' + Due(w, u) <= Shown(w, u) + Due(w, u)'
         /\ w \in connections /\ listener[HomeOf[w]] # "crashed" =>
              Shown(w, u)' + Due(w, u) = Shown(w, u) + Due(w, u)'
<1>. USE DEF Headed, TypeOK
<1>. DEFINE t == TraceOf(i)
            r == request[i].at
            q == HomeOf[w]
<1>0. /\ t \in Trace /\ r \in Replica /\ q \in Replica /\ i \in Broadcaster
      /\ cast[i] = NoCast /\ received' = received /\ Broadcast(i, r, t)
      /\ inbox[q] \in Seq(Trace) /\ feed[q] \in Seq(Trace)
  BY RequestTrace DEF BroadcastTrace, Broadcast, IngestType, FeedType, Broadcaster, Placed, PlacedBy
<1>1. /\ Cardinality(Bearing(w, u)) \in Nat /\ Count(received[w], u) \in Nat
      /\ Count(inbox[q], u) \in Nat /\ Due(w, u) \in Nat /\ Is(t, u) \in {0, 1}
  BY <1>0, BearingFinite, CountType DEF FeedType, Due, Is
<1>. HIDE DEF t, r
<1>2. ASSUME Deliver(t)
      PROVE  Count(inbox'[q], u)
               = Count(inbox[q], u) + IF listener[q] = "subscribed" THEN Is(t, u) ELSE 0
  BY <1>0, <1>1, <1>2, CountAppend DEF Deliver
<1>3. ASSUME Local(i, r, t)
      PROVE  /\ Cardinality(Bearing(w, u)')
                  = Cardinality(Bearing(w, u)) + Reached(w, r) * Is(t, u)
             /\ Reached(w, r) * Is(t, u) = IF w \in connections /\ q = r THEN Is(t, u) ELSE 0
  BY <1>0, <1>1, <1>3, LocalBears DEF Reached
<1>4. listener[q] = "subscribed" => Hears(q)
  BY DEF Hears
<1>5. Hears(q) /\ listener[q] # "crashed" => listener[q] = "subscribed"
  BY <1>0 DEF Hears, FeedType
<1>6. ASSUME NEW s \in Seq(Trace)
      PROVE  Count(Append(s, t), u) = Count(s, u) + Is(t, u) /\ Count(s, u) \in Nat
  BY <1>0, CountAppend, CountType
<1>7. /\ Shown(w, u) = Count(received[w], u) + Cardinality(Bearing(w, u)) + Count(inbox[q], u)
      /\ Shown(w, u)' = Count(received[w], u) + Cardinality(Bearing(w, u)') + Count(inbox'[q], u)
  BY <1>0 DEF Shown
<1>. DEFINE heard == IF Hears(q) THEN Is(t, u) ELSE 0
            relayed == IF listener[q] = "subscribed" THEN Is(t, u) ELSE 0
            here == IF q = r THEN Is(t, u) ELSE 0
            bears == IF w \in connections /\ q = r THEN Is(t, u) ELSE 0
<1>8. /\ heard \in Nat /\ relayed \in Nat /\ here \in Nat /\ bears \in Nat
      /\ relayed <= heard /\ bears <= here
      /\ w \in connections => bears = here
      /\ listener[q] # "crashed" => relayed = heard
  BY <1>1, <1>4, <1>5
<1>9. CASE /\ Deliver(t) /\ UNCHANGED cast
           /\ feed'[q] = IF Hears(q) THEN Append(feed[q], t) ELSE feed[q]
  <2>1. Bearing(w, u)' = Bearing(w, u)
    BY <1>9 DEF Bearing
  <2>2. Due(w, u)' = Due(w, u) + heard
    BY <1>0, <1>1, <1>6, <1>9 DEF Due
  <2>3. Count(inbox'[q], u) = Count(inbox[q], u) + relayed
    BY <1>2, <1>9
  <2>. HIDE DEF heard, relayed, here, bears, q
  <2>. QED  BY <1>1, <1>7, <1>8, <2>1, <2>2, <2>3 DEF q
<1>10. CASE /\ Deliver(t) /\ Local(i, r, t)
            /\ \E s \in {feed[q], Append(feed[q], t)} :
                 /\ s = IF Hears(q) THEN Append(feed[q], t) ELSE feed[q]
                 /\ feed'[q] = IF q = r THEN Append(s, t) ELSE s
  <2>1. PICK s \in {feed[q], Append(feed[q], t)} :
          /\ s = IF Hears(q) THEN Append(feed[q], t) ELSE feed[q]
          /\ feed'[q] = IF q = r THEN Append(s, t) ELSE s
    BY <1>10
  <2>2. s \in Seq(Trace)
    BY <1>0, <2>1
  <2>3. Count(s, u) = Due(w, u) + heard /\ Count(s, u) \in Nat
    BY <1>0, <1>1, <1>6, <2>1 DEF Due
  <2>4. Count(feed'[q], u) = Count(s, u) + here
    <3>1. CASE q = r
      <4>1. feed'[q] = Append(s, t)
        BY <2>1, <3>1
      <4>. QED  BY <1>6, <2>2, <3>1, <4>1
    <3>2. CASE q # r
      <4>1. feed'[q] = s
        BY <2>1, <3>2
      <4>. QED  BY <2>3, <3>2, <4>1
    <3>. QED  BY <3>1, <3>2
  <2>5. Due(w, u)' = Due(w, u) + heard + here
    BY <2>3, <2>4 DEF Due
  <2>6. Count(inbox'[q], u) = Count(inbox[q], u) + relayed
    BY <1>2, <1>10
  <2>7. Cardinality(Bearing(w, u)') = Cardinality(Bearing(w, u)) + bears
    BY <1>3, <1>10
  <2>. HIDE DEF heard, relayed, here, bears, q
  <2>8. Shown(w, u)' = Shown(w, u) + relayed + bears /\ Shown(w, u) \in Nat
    <3>1. Shown(w, u)' = Count(received[w], u) + (Cardinality(Bearing(w, u)) + bears)
                           + (Count(inbox[q], u) + relayed)
      BY <1>7, <2>6, <2>7
    <3>. QED  BY <1>1, <1>7, <1>8, <3>1
  <2>9. Shown(w, u)' + Due(w, u) <= Shown(w, u) + Due(w, u)'
    BY <1>1, <1>8, <2>5, <2>8
  <2>. QED  BY <1>1, <1>8, <2>5, <2>8, <2>9 DEF q
<1>11. CASE /\ UNCHANGED inbox /\ Local(i, r, t)
            /\ feed'[q] = IF q = r THEN Append(feed[q], t) ELSE feed[q]
  <2>1. Due(w, u)' = Due(w, u) + here
    BY <1>0, <1>1, <1>6, <1>11 DEF Due
  <2>2. Cardinality(Bearing(w, u)') = Cardinality(Bearing(w, u)) + bears
    BY <1>3, <1>11
  <2>. HIDE DEF heard, relayed, here, bears, q
  <2>. QED  BY <1>1, <1>7, <1>8, <1>11, <2>1, <2>2 DEF q
<1>. QED  BY <1>0, <1>9, <1>10, <1>11, FeedGrows

(* The steps that let go of messages or of broadcasts show nothing more;   *)
(* all but those of the browser's own replica show nothing less.           *)
LEMMA DropShows ==
  ASSUME Headed, [Next]_vars, NEW w \in Socket, NEW u \in Trace,
         \A b \in Broadcaster : cast'[b] \in {cast[b], NoCast},
         UNCHANGED received,
         inbox'[HomeOf[w]] \in {inbox[HomeOf[w]], <<>>}
  PROVE  /\ Shown(w, u)' <= Shown(w, u)
         /\ (/\ \A b \in Broadcaster : w \in cast[b].todo => cast'[b] = cast[b]
             /\ inbox'[HomeOf[w]] = inbox[HomeOf[w]])
              => Shown(w, u)' = Shown(w, u)
<1>. USE DEF Headed, TypeOK
<1>0. /\ IsFiniteSet(Bearing(w, u)) /\ Cardinality(Bearing(w, u)) \in Nat
      /\ Cardinality(Bearing(w, u)') \in Nat
      /\ Count(received[w], u) \in Nat
      /\ Count(inbox[HomeOf[w]], u) \in Nat
  BY BearingFinite, BearingFiniteNext, CountType DEF FeedType
<1>1. Bearing(w, u)' \subseteq Bearing(w, u)
  BY DEF Bearing, NoCast
<1>2. Cardinality(Bearing(w, u)') <= Cardinality(Bearing(w, u))
  BY <1>0, <1>1, FS_Subset
<1>3. Count(inbox'[HomeOf[w]], u) \in {Count(inbox[HomeOf[w]], u), 0}
  BY CountEmpty
<1>4. Shown(w, u)' <= Shown(w, u)
  BY <1>0, <1>2, <1>3 DEF Shown
<1>5. ASSUME \A b \in Broadcaster : w \in cast[b].todo => cast'[b] = cast[b],
             inbox'[HomeOf[w]] = inbox[HomeOf[w]]
      PROVE  Shown(w, u)' = Shown(w, u)
  <2>1. Bearing(w, u)' = Bearing(w, u)
    BY <1>1, <1>5 DEF Bearing
  <2>. QED  BY <1>5, <2>1 DEF Shown
<1>. QED  BY <1>4, <1>5

LEMMA EndShows ==
  ASSUME Headed, [Next]_vars, NEW b \in Broadcaster, EndLocal(b), NEW w \in Socket,
         NEW u \in Trace
  PROVE  Shown(w, u)' = Shown(w, u)
<1>1. /\ \A c \in Broadcaster : cast'[c] \in {cast[c], NoCast}
      /\ \A c \in Broadcaster : w \in cast[c].todo => cast'[c] = cast[c]
  BY DEF EndLocal, Headed, TypeOK, FeedType
<1>2. UNCHANGED <<received, inbox>>
  BY DEF EndLocal
<1>. QED  BY <1>1, <1>2, DropShows

LEMMA CrashShows ==
  ASSUME Headed, [Next]_vars, NEW r \in Replica, Crash(r), NEW w \in Socket, NEW u \in Trace
  PROVE  /\ Shown(w, u)' <= Shown(w, u)
         /\ HomeOf[w] # r => Shown(w, u)' = Shown(w, u)
<1>. USE DEF Headed, TypeOK
<1>1. /\ \A b \in Broadcaster : cast'[b] \in {cast[b], NoCast}
      /\ UNCHANGED received
      /\ inbox'[HomeOf[w]] = IF HomeOf[w] = r THEN <<>> ELSE inbox[HomeOf[w]]
  BY DEF Crash, Halt, FeedType
<1>2. ASSUME HomeOf[w] # r, NEW b \in Broadcaster, w \in cast[b].todo
      PROVE  cast'[b] = cast[b]
  <2>1. CASE b \in Request
    BY <1>2, <2>1 DEF Crash, Halt, Placed, PlacedBy, NoCast
  <2>2. CASE b \in Replica
    BY <1>2, <2>2 DEF Crash, Halt, Placed
  <2>. QED  BY <2>1, <2>2 DEF Broadcaster
<1>. QED  BY <1>1, <1>2, DropShows

LEMMA ListenerCrashShows ==
  ASSUME Headed, [Next]_vars, NEW r \in Replica, ListenerCrash(r), NEW w \in Socket,
         NEW u \in Trace
  PROVE  Shown(w, u)' <= Shown(w, u)
<1>1. /\ UNCHANGED <<cast, received>>
      /\ inbox'[HomeOf[w]] \in {inbox[HomeOf[w]], <<>>}
  BY DEF ListenerCrash, Headed, TypeOK, FeedType
<1>. QED  BY <1>1, DropShows

(* No other step touches what browsers have or are to have. *)
LEMMA ShowingSteps ==
  ASSUME [Next]_vars
  PROVE  \/ UNCHANGED <<received, cast, inbox>>
         \/ \E i \in Request : BroadcastTrace(i)
         \/ \E b \in Broadcaster, w \in Socket : Send(b, w)
         \/ \E b \in Broadcaster : EndLocal(b)
         \/ \E r \in Replica : Relay(r) \/ ListenerCrash(r) \/ Crash(r)
BY DEF Next, Serve, vars, feedVars, Post, ClientTimeout, InsertTrace, InsertSpans, Reply,
       StoreSwitch, Feed, Start, Subscribe, Connect, AddConnection, Disconnect, PeerLeaves,
       RedisSwitch

LEMMA FeedKept ==
  ASSUME [Next]_vars
  PROVE  UNCHANGED feed \/ \E i \in Request : BroadcastTrace(i)
BY DEF Next, Serve, vars, feedVars, history, Post, ClientTimeout, InsertTrace, InsertSpans, Reply,
       Crash, Halt, StoreSwitch, Feed, Start, Subscribe, ListenerCrash, Relay, Connect,
       Disconnect, PeerLeaves, Send, EndLocal, RedisSwitch

(***************************************************************************)
(* A browser is never shown a trace more often than its replica is due to  *)
(* show it: what it has, what is being sent and what the listener has not  *)
(* relayed yet, taken together.                                            *)
(***************************************************************************)
ShownAtMost == \A w \in Socket, u \in Trace : Shown(w, u) <= Due(w, u)

LEMMA ShownType ==
  ASSUME Headed, NEW w \in Socket, NEW u \in Trace
  PROVE  /\ Shown(w, u) \in Nat /\ Due(w, u) \in Nat
         /\ Count(received[w], u) \in Nat /\ Count(received[w], u) <= Shown(w, u)
<1>1. /\ Cardinality(Bearing(w, u)) \in Nat
      /\ Count(received[w], u) \in Nat
      /\ Count(inbox[HomeOf[w]], u) \in Nat
      /\ Count(feed[HomeOf[w]], u) \in Nat
  BY BearingFinite, CountType DEF Headed, TypeOK, FeedType
<1>. QED  BY <1>1 DEF Shown, Due

LEMMA ShownTypeNext ==
  ASSUME Headed, [Next]_vars, NEW w \in Socket, NEW u \in Trace
  PROVE  Shown(w, u)' \in Nat /\ Due(w, u)' \in Nat
<1>1. Headed'
  BY HeadedStep
<1>2. /\ Cardinality(Bearing(w, u)') \in Nat
      /\ Count(received'[w], u) \in Nat
      /\ Count(inbox'[HomeOf[w]], u) \in Nat
      /\ Count(feed'[HomeOf[w]], u) \in Nat
  BY <1>1, BearingFiniteNext, CountType DEF Headed, TypeOK, FeedType
<1>. QED  BY <1>2 DEF Shown, Due

LEMMA ShownStep ==
  ASSUME Headed, [Next]_vars, NEW w \in Socket, NEW u \in Trace
  PROVE  Shown(w, u)' + Due(w, u) <= Shown(w, u) + Due(w, u)'
<1>1. CASE \E i \in Request : BroadcastTrace(i)
  BY <1>1, BroadcastShows
<1>2. CASE UNCHANGED feed
  <2>1. Due(w, u)' = Due(w, u)
    BY <1>2 DEF Due
  <2>2. Shown(w, u)' <= Shown(w, u)
    <3>1. CASE UNCHANGED <<received, cast, inbox>>
      <4>1. Shown(w, u)' = Shown(w, u)
        BY <3>1 DEF Shown, Bearing
      <4>. QED  BY <4>1, ShownType
    <3>2. CASE \E i \in Request : BroadcastTrace(i)
      BY <1>1, <2>1, <3>2, BroadcastShows, ShownType, ShownTypeNext
    <3>3. ASSUME NEW b \in Broadcaster, EndLocal(b)
          PROVE  Shown(w, u)' <= Shown(w, u)
      BY <3>3, EndShows, ShownType
    <3>. QED  BY <3>1, <3>2, <3>3, ShowingSteps, SendShows, RelayShows, CrashShows,
                 ListenerCrashShows
  <2>. QED  BY <2>1, <2>2, ShownType, ShownTypeNext
<1>. QED  BY <1>1, <1>2, FeedKept

(***************************************************************************)
(* A replica is never due to show a trace more often than there are posts  *)
(* of it that have been broadcast, and publishes of it that raised after   *)
(* they were taken.  A post is broadcast once: from then on it is counted. *)
(***************************************************************************)
Casting == {"reply", "done", "lost"}
Doubted == \A i \in doubtful : request[i].pc \in Casting
Entitled(u) == Cardinality(Broadcasted(u)) + Cardinality(Doubled(u))
DueAtMost == \A w \in Socket, u \in Trace : Due(w, u) <= Entitled(u)

LEMMA EntitledType ==
  ASSUME FeedType, NEW u \in Trace
  PROVE  /\ IsFiniteSet(Broadcasted(u)) /\ Cardinality(Broadcasted(u)) \in Nat
         /\ IsFiniteSet(Doubled(u)) /\ Cardinality(Doubled(u)) \in Nat
         /\ Entitled(u) \in Nat
<1>1. /\ Broadcasted(u) \subseteq {i \in Request : TraceOf(i) = u}
      /\ Doubled(u) \subseteq {i \in Request : TraceOf(i) = u}
  BY DEF Broadcasted, Doubled, FeedType
<1>2. IsFiniteSet(Broadcasted(u)) /\ IsFiniteSet(Doubled(u))
  BY <1>1, FinitelyManyPosts, FS_Subset
<1>3. Cardinality(Broadcasted(u)) \in Nat /\ Cardinality(Doubled(u)) \in Nat
  BY <1>2, FS_CardinalityType
<1>. QED  BY <1>2, <1>3 DEF Entitled

COROLLARY EntitledTypeNext ==
  ASSUME TypeOK, [Next]_vars, NEW u \in Trace
  PROVE  /\ IsFiniteSet(Broadcasted(u)') /\ Cardinality(Broadcasted(u)') \in Nat
         /\ IsFiniteSet(Doubled(u)') /\ Cardinality(Doubled(u)') \in Nat
         /\ Entitled(u)' \in Nat
<1>1. FeedType'
  BY TypeStep DEF TypeOK
<1>2. /\ Broadcasted(u)' \subseteq {i \in Request : TraceOf(i) = u}
      /\ Doubled(u)' \subseteq {i \in Request : TraceOf(i) = u}
  BY <1>1 DEF Broadcasted, Doubled, FeedType
<1>3. IsFiniteSet(Broadcasted(u)') /\ IsFiniteSet(Doubled(u)')
  BY <1>2, FinitelyManyPosts, FS_Subset
<1>4. Cardinality(Broadcasted(u)') \in Nat /\ Cardinality(Doubled(u)') \in Nat
  BY <1>3, FS_CardinalityType
<1>. QED  BY <1>3, <1>4 DEF Entitled

(* A post that has been broadcast stays one. *)
LEMMA CastingKept ==
  ASSUME TypeOK, [Next]_vars, NEW i \in Request, request[i].pc \in Casting
  PROVE  request'[i].pc \in Casting
<1>. USE DEF TypeOK, Casting
<1>1. ASSUME NEW j \in Request, j # i, Serve(j)
      PROVE  request'[i] = request[i]
  BY <1>1 DEF Serve, InsertTrace, InsertSpans, BroadcastTrace, Reply, Go, Answer, IngestType
<1>2. CASE Reply(i)
  BY <1>2 DEF Reply, Answer, IngestType
<1>3. ~(InsertTrace(i) \/ InsertSpans(i) \/ BroadcastTrace(i))
  BY DEF InsertTrace, InsertSpans, BroadcastTrace
<1>4. ASSUME NEW r \in Replica, NEW j \in Request, Post(r, j)
      PROVE  request'[i] = request[i]
  BY <1>4 DEF Post, IngestType
<1>5. ASSUME NEW r \in Replica, Crash(r)
      PROVE  request'[i].pc \in Casting
  BY <1>5 DEF Crash, IngestType
<1>6. ASSUME NEW j \in Request, ClientTimeout(j)
      PROVE  request'[i].pc = request[i].pc
  BY <1>6 DEF ClientTimeout, IngestType
<1>. QED  BY <1>1, <1>2, <1>3, <1>4, <1>5, <1>6 DEF Next, Serve, vars, StoreSwitch

LEMMA DoubtKept ==
  ASSUME [Next]_vars
  PROVE  UNCHANGED doubtful \/ \E i \in Request : BroadcastTrace(i)
BY DEF Next, Serve, vars, feedVars, history, Post, ClientTimeout, InsertTrace, InsertSpans, Reply,
       Crash, Halt, StoreSwitch, Feed, Start, Subscribe, ListenerCrash, Relay, Connect,
       Disconnect, PeerLeaves, Send, EndLocal, RedisSwitch

LEMMA BroadcastGains ==
  ASSUME FeedType, NEW i \in Request, NEW r \in Replica, NEW t \in Trace,
         Broadcast(i, r, t), NEW q \in Replica
  PROVE  \/ /\ doubtful' = doubtful
            /\ feed'[q] \in {feed[q], Append(feed[q], t)}
         \/ /\ doubtful' = doubtful \cup {i}
            /\ feed'[q] \in {feed[q], Append(feed[q], t), Append(Append(feed[q], t), t)}
<1>1. CASE Promise(r, t)
  BY <1>1 DEF Promise
<1>2. CASE Both(i, r, t)
  BY <1>2, FeedGains DEF Both
<1>. QED  BY <1>1, <1>2 DEF Broadcast

(* What a broadcast adds to a feed, it adds to what the posts stand for. *)
LEMMA BroadcastEntitles ==
  ASSUME TypeOK, Doubted, NEW i \in Request, BroadcastTrace(i), [Next]_vars,
         NEW w \in Socket, NEW u \in Trace
  PROVE  Due(w, u)' + Entitled(u) <= Due(w, u) + Entitled(u)'
<1>. USE DEF TypeOK
<1>. DEFINE t == TraceOf(i)
            q == HomeOf[w]
<1>0. /\ t \in Trace /\ q \in Replica /\ feed[q] \in Seq(Trace)
      /\ request[i].at \in Replica /\ Broadcast(i, request[i].at, t)
  BY RequestTrace DEF BroadcastTrace, IngestType, FeedType
<1>1. /\ request[i].pc = "broadcast" /\ request'[i].pc = "reply"
      /\ \A j \in Request : j # i => request'[j] = request[j]
  BY GoStep DEF BroadcastTrace, Steps
<1>2. i \notin doubtful /\ i \notin Broadcasted(u)
  BY <1>1 DEF Doubted, Casting, Broadcasted
<1>3. Broadcasted(u)' = IF t = u THEN Broadcasted(u) \cup {i} ELSE Broadcasted(u)
  BY <1>1 DEF Broadcasted
<1>4. Cardinality(Broadcasted(u)') = Cardinality(Broadcasted(u)) + Is(t, u)
  <2>1. CASE t = u
    <3>1. Cardinality(Broadcasted(u) \cup {i}) = Cardinality(Broadcasted(u)) + 1
      BY <1>2, EntitledType, FS_AddElement
    <3>. QED  BY <1>3, <2>1, <3>1 DEF Is
  <2>2. CASE t # u
    BY <1>3, <2>2, EntitledType DEF Is
  <2>. QED  BY <2>1, <2>2
<1>5. /\ Cardinality(Broadcasted(u)) \in Nat /\ Cardinality(Doubled(u)) \in Nat
      /\ Due(w, u) \in Nat /\ Is(t, u) \in Nat
  BY <1>0, EntitledType, CountType DEF Due, Is
<1>6. ASSUME NEW s \in Seq(Trace)
      PROVE  Count(Append(s, t), u) = Count(s, u) + Is(t, u) /\ Count(s, u) \in Nat
  BY <1>0, CountAppend, CountType
<1>7. CASE doubtful' = doubtful /\ feed'[q] \in {feed[q], Append(feed[q], t)}
  <2>1. Doubled(u)' = Doubled(u)
    BY <1>7 DEF Doubled
  <2>2. Due(w, u)' \in {Due(w, u), Due(w, u) + Is(t, u)}
    BY <1>0, <1>6, <1>7 DEF Due
  <2>. HIDE DEF t, q
  <2>. QED  BY <1>4, <1>5, <2>1, <2>2 DEF Entitled
<1>8. CASE /\ doubtful' = doubtful \cup {i}
           /\ feed'[q] \in {feed[q], Append(feed[q], t), Append(Append(feed[q], t), t)}
  <2>1. Doubled(u)' = IF t = u THEN Doubled(u) \cup {i} ELSE Doubled(u)
    BY <1>8 DEF Doubled
  <2>2. Cardinality(Doubled(u)') = Cardinality(Doubled(u)) + Is(t, u)
    <3>1. CASE t = u
      <4>1. i \notin Doubled(u)
        BY <1>2 DEF Doubled
      <4>2. Cardinality(Doubled(u) \cup {i}) = Cardinality(Doubled(u)) + 1
        BY <4>1, EntitledType, FS_AddElement
      <4>. QED  BY <2>1, <3>1, <4>2 DEF Is
    <3>2. CASE t # u
      BY <2>1, <3>2, EntitledType DEF Is
    <3>. QED  BY <3>1, <3>2
  <2>3. Append(feed[q], t) \in Seq(Trace)
    BY <1>0
  <2>4. /\ Count(Append(feed[q], t), u) = Due(w, u) + Is(t, u)
        /\ Count(Append(Append(feed[q], t), t), u) = Due(w, u) + Is(t, u) + Is(t, u)
    BY <1>0, <1>6, <2>3 DEF Due
  <2>5. Due(w, u)' \in {Due(w, u), Due(w, u) + Is(t, u), Due(w, u) + Is(t, u) + Is(t, u)}
    BY <1>8, <2>4 DEF Due
  <2>. HIDE DEF t, q
  <2>. QED  BY <1>4, <1>5, <2>2, <2>5 DEF Entitled
<1>. QED  BY <1>0, <1>7, <1>8, BroadcastGains

LEMMA DoubtedStep ==
  ASSUME TypeOK, Doubted, [Next]_vars
  PROVE  Doubted'
<1>. USE DEF TypeOK
<1>1. ASSUME NEW i \in Request, BroadcastTrace(i)
      PROVE  Doubted'
  <2>1. doubtful' \subseteq doubtful \cup {i}
    BY <1>1 DEF BroadcastTrace, Broadcast, Both, Promise
  <2>2. request'[i].pc = "reply"
    BY <1>1, GoStep DEF BroadcastTrace, Steps
  <2>. QED  BY <2>1, <2>2, CastingKept DEF Doubted, Casting, FeedType
<1>2. CASE UNCHANGED doubtful
  BY <1>2, CastingKept DEF Doubted, FeedType
<1>. QED  BY <1>1, <1>2, DoubtKept

LEMMA EntitledStep ==
  ASSUME TypeOK, Doubted, [Next]_vars, NEW w \in Socket, NEW u \in Trace
  PROVE  Due(w, u)' + Entitled(u) <= Due(w, u) + Entitled(u)'
<1>. USE DEF TypeOK
<1>1. CASE UNCHANGED <<doubtful, feed>>
  <2>1. Broadcasted(u) \subseteq Broadcasted(u)' /\ Doubled(u)' = Doubled(u)
    BY <1>1, CastingKept DEF Broadcasted, Doubled, Casting
  <2>2. Cardinality(Broadcasted(u)) <= Cardinality(Broadcasted(u)')
    BY <2>1, EntitledTypeNext, FS_Subset
  <2>3. Due(w, u)' = Due(w, u) /\ Due(w, u) \in Nat
    BY <1>1, CountType DEF Due, FeedType
  <2>. QED  BY <2>1, <2>2, <2>3, EntitledType, EntitledTypeNext DEF Entitled
<1>. QED  BY <1>1, BroadcastEntitles, FeedKept, DoubtKept

(***************************************************************************)
(* No browser is sent a trace more often than it was posted and broadcast, *)
(* but for the publishes that raised after Redis had taken the message:    *)
(* however replicas die, Redis and the browsers come and go, posts are     *)
(* repeated and broadcasts overlap.                                        *)
(***************************************************************************)
THEOREM FeedShowsOnce == Spec => []FeedOnce
<1>. DEFINE Inv == Headed /\ ShownAtMost /\ Doubted /\ DueAtMost
<1>1. Init => Inv
  <2>. SUFFICES ASSUME Init PROVE Inv
    OBVIOUS
  <2>1. Headed
    BY HeadedInit
  <2>2. ASSUME NEW w \in Socket, NEW u \in Trace
        PROVE  Shown(w, u) <= Due(w, u)
    <3>1. Bearing(w, u) = {}
      BY DEF Init, FeedInit, NoCast, Bearing
    <3>2. received[w] = <<>> /\ inbox[HomeOf[w]] = <<>> /\ feed[HomeOf[w]] = <<>>
      BY DEF Init, FeedInit
    <3>. QED  BY <3>1, <3>2, CountEmpty, FS_EmptySet DEF Shown, Due
  <2>3. ASSUME NEW w \in Socket, NEW u \in Trace
        PROVE  Due(w, u) <= Entitled(u)
    <3>1. Due(w, u) = 0
      BY CountEmpty DEF Init, FeedInit, Due
    <3>. QED  BY <2>1, <3>1, EntitledType DEF Headed, TypeOK
  <2>4. Doubted
    BY DEF Init, FeedInit, Doubted
  <2>. QED  BY <2>1, <2>2, <2>3, <2>4 DEF ShownAtMost, DueAtMost
<1>2. Inv /\ [Next]_vars => Inv'
  <2>. SUFFICES ASSUME Inv, [Next]_vars PROVE Inv'
    OBVIOUS
  <2>1. ASSUME NEW w \in Socket, NEW u \in Trace
        PROVE  (Shown(w, u) <= Due(w, u))'
    <3>1. Shown(w, u) <= Due(w, u)
      BY DEF ShownAtMost
    <3>. QED  BY <3>1, ShownStep, ShownType, ShownTypeNext
  <2>2. ASSUME NEW w \in Socket, NEW u \in Trace
        PROVE  (Due(w, u) <= Entitled(u))'
    <3>1. Due(w, u) <= Entitled(u) /\ TypeOK /\ FeedType
      BY DEF DueAtMost, Headed, TypeOK
    <3>2. Due(w, u)' + Entitled(u) <= Due(w, u) + Entitled(u)'
      BY <3>1, EntitledStep
    <3>. QED  BY <3>1, <3>2, ShownType, ShownTypeNext, EntitledType, EntitledTypeNext
  <2>3. Doubted'
    BY DoubtedStep DEF Headed
  <2>. QED  BY <2>1, <2>2, <2>3, HeadedStep DEF ShownAtMost, DueAtMost
<1>3. Inv => FeedOnce
  <2>. SUFFICES ASSUME Inv, NEW w \in Socket, NEW u \in Trace
                PROVE  Count(received[w], u) <= Entitled(u)
    BY DEF FeedOnce, Entitled
  <2>1. Shown(w, u) <= Due(w, u) /\ Due(w, u) <= Entitled(u)
    BY DEF ShownAtMost, DueAtMost
  <2>2. Entitled(u) \in Nat
    BY EntitledType DEF Headed, TypeOK
  <2>. QED  BY <2>1, <2>2, ShownType
<1>. QED  BY <1>1, <1>2, <1>3, PTL DEF Spec

-----------------------------------------------------------------------------
(***************************************************************************)
(* A Redis that neither goes away nor comes back: then no listener has     *)
(* crashed, and a replica has one only if Redis is there.                  *)
(***************************************************************************)
Steadfast == "redis" \notin FeedEvents
Listening == \A r \in Replica : listener[r] # "none" => redisUp /\ listener[r] # "crashed"

LEMMA ListeningStep ==
  ASSUME Steadfast, FeedType, Listening, [Next]_vars
  PROVE  Listening' /\ redisUp' = redisUp /\ ~\E r \in Replica : ListenerCrash(r)
<1>1. redisUp' = redisUp
  BY DEF Steadfast, Next, Serve, vars, feedVars, Post, ClientTimeout, InsertTrace, InsertSpans,
         BroadcastTrace, Broadcast, Reply, Crash, Halt, StoreSwitch, Feed, Start, Subscribe,
         ListenerCrash, Relay, Connect, Disconnect, PeerLeaves, Send, EndLocal, RedisSwitch
<1>2. ASSUME NEW r \in Replica, Start(r) \/ Subscribe(r)
      PROVE  Listening'
  BY <1>1, <1>2 DEF Start, UseRedis, Listens, Subscribe, Listening, FeedType
<1>3. ASSUME NEW r \in Replica, ListenerCrash(r)
      PROVE  FALSE
  BY <1>3 DEF ListenerCrash, Listening
<1>4. ASSUME NEW r \in Replica, Crash(r)
      PROVE  Listening'
  BY <1>1, <1>4 DEF Crash, Halt, Listening, FeedType
<1>5. ASSUME UNCHANGED listener
      PROVE  Listening'
  BY <1>1, <1>5 DEF Listening
<1>6. \/ UNCHANGED listener
      \/ \E r \in Replica : Start(r) \/ Subscribe(r) \/ ListenerCrash(r) \/ Crash(r)
  BY DEF Next, Serve, vars, feedVars, replicas, Post, ClientTimeout, InsertTrace, InsertSpans,
         BroadcastTrace, Broadcast, Reply, StoreSwitch, Feed, Relay, Connect, Disconnect,
         PeerLeaves, Send, EndLocal, RedisSwitch
<1>. QED  BY <1>1, <1>2, <1>3, <1>4, <1>5, <1>6

(* Who watches after a step: who did before, or has just connected.  A     *)
(* replica that crashes loses the browsers it serves.                      *)
LEMMA WatchingStep ==
  ASSUME FeedType, [Next]_vars, NEW w \in Socket, Watching(w)'
  PROVE  \/ Connect(w)
         \/ /\ Watching(w) /\ joined'[w] = joined[w] /\ ~Connect(w)
            /\ ~Crash(HomeOf[w])
<1>1. ASSUME NEW v \in Socket, Connect(v)
      PROVE  Connect(w) \/ (Watching(w) /\ joined'[w] = joined[w])
  BY <1>1 DEF Connect, Watching, FeedType
<1>2. ASSUME NEW v \in Socket, Disconnect(v) \/ PeerLeaves(v)
      PROVE  Watching(w) /\ joined'[w] = joined[w]
  BY <1>2 DEF Disconnect, EndHandler, PeerLeaves, Watching, FeedType, history
<1>3. ASSUME NEW r \in Replica, Crash(r)
      PROVE  Watching(w) /\ joined'[w] = joined[w] /\ HomeOf[w] # r
  BY <1>3 DEF Crash, Halt, Watching, FeedType, history
<1>4. \/ UNCHANGED <<handler, gone, joined>>
      \/ \E v \in Socket : Connect(v) \/ Disconnect(v) \/ PeerLeaves(v)
      \/ \E r \in Replica : Crash(r)
  BY DEF Next, Serve, vars, feedVars, sockets, history, Post, ClientTimeout, InsertTrace,
         InsertSpans, BroadcastTrace, Broadcast, Reply, StoreSwitch, Feed, Start, Subscribe,
         ListenerCrash, Relay, Send, EndLocal, RedisSwitch
<1>5. Watching(w) /\ joined'[w] = joined[w] => ~Connect(w)
  BY DEF Watching, Connect
<1>. QED  BY <1>1, <1>2, <1>3, <1>4, <1>5 DEF Watching

(* With such a Redis a watching browser is shown all that it is due. *)
LEMMA WatchedShows ==
  ASSUME Steadfast, Headed, Listening, [Next]_vars, NEW w \in Socket, NEW u \in Trace,
         Watching(w), ~Crash(HomeOf[w])
  PROVE  Shown(w, u)' + Due(w, u) = Shown(w, u) + Due(w, u)'
<1>0. w \in connections /\ w \notin gone /\ HomeOf[w] \in Replica
  BY DEF Headed, ConnectionsServed, Watching
<1>1. CASE \E i \in Request : BroadcastTrace(i)
  <2>1. listener[HomeOf[w]] # "crashed"
    BY <1>0 DEF Listening
  <2>. QED  BY <1>0, <1>1, <2>1, BroadcastShows
<1>2. CASE UNCHANGED feed /\ ~\E i \in Request : BroadcastTrace(i)
  <2>1. Due(w, u)' = Due(w, u)
    BY <1>2 DEF Due
  <2>2. Shown(w, u)' = Shown(w, u)
    <3>1. CASE UNCHANGED <<received, cast, inbox>>
      BY <3>1 DEF Shown, Bearing
    <3>2. ASSUME NEW b \in Broadcaster, NEW v \in Socket, Send(b, v)
          PROVE  Shown(w, u)' = Shown(w, u)
      BY <1>0, <3>2, SendShows
    <3>3. ASSUME NEW r \in Replica, Relay(r)
          PROVE  Shown(w, u)' = Shown(w, u)
      BY <1>0, <3>3, RelayShows
    <3>4. ASSUME NEW r \in Replica, Crash(r)
          PROVE  Shown(w, u)' = Shown(w, u)
      BY <3>4, CrashShows
    <3>5. ~\E r \in Replica : ListenerCrash(r)
      BY ListeningStep DEF Headed, TypeOK
    <3>. QED  BY <1>2, <3>1, <3>2, <3>3, <3>4, <3>5, ShowingSteps, EndShows
  <2>. QED  BY <2>1, <2>2
<1>. QED  BY <1>1, <1>2, FeedKept

(* What a browser is owed grows with the feed of its replica. *)
LEMMA OwedAppend ==
  ASSUME NEW s \in Seq(Trace), NEW x \in Trace, NEW j \in Nat, j <= Len(s)
  PROVE  /\ SubSeq(Append(s, x), j + 1, Len(Append(s, x)))
               = Append(SubSeq(s, j + 1, Len(s)), x)
         /\ SubSeq(s, j + 1, Len(s)) \in Seq(Trace)
         /\ Append(s, x) \in Seq(Trace) /\ j <= Len(Append(s, x))
<1>. DEFINE p == SubSeq(s, j + 1, Len(s))
            q == SubSeq(Append(s, x), j + 1, Len(s) + 1)
<1>1. /\ Append(s, x) \in Seq(Trace) /\ Len(Append(s, x)) = Len(s) + 1 /\ Len(s) \in Nat
      /\ \A k \in 1..Len(s) : Append(s, x)[k] = s[k] /\ s[k] \in Trace
      /\ Append(s, x)[Len(s) + 1] = x
  OBVIOUS
<1>2. /\ p \in Seq(Trace) /\ Len(p) = Len(s) - j
      /\ \A k \in 1..(Len(s) - j) : p[k] = s[j + k]
  BY <1>1, SubSeqProperties
<1>3. /\ q \in Seq(Trace) /\ Len(q) = Len(s) - j + 1
      /\ \A k \in 1..(Len(s) - j + 1) : q[k] = Append(s, x)[j + k]
  BY <1>1, SubSeqProperties
<1>. HIDE DEF p, q
<1>4. /\ Append(p, x) \in Seq(Trace) /\ Len(Append(p, x)) = Len(s) - j + 1
      /\ \A k \in 1..(Len(s) - j) : Append(p, x)[k] = p[k]
      /\ Append(p, x)[Len(s) - j + 1] = x
  BY <1>2, AppendProperties
<1>5. ASSUME NEW k \in 1..Len(q)
      PROVE  q[k] = Append(p, x)[k]
  <2>1. CASE k = Len(s) - j + 1
    BY <1>1, <1>3, <1>4, <2>1
  <2>2. CASE k # Len(s) - j + 1
    <3>1. k \in 1..(Len(s) - j) /\ j + k \in 1..Len(s)
      BY <1>1, <1>3, <1>5, <2>2
    <3>. QED  BY <1>1, <1>2, <1>3, <1>4, <1>5, <3>1
  <2>. QED  BY <2>1, <2>2
<1>6. q = Append(p, x)
  BY <1>3, <1>4, <1>5, SeqEqual
<1>7. SubSeq(Append(s, x), j + 1, Len(Append(s, x))) = q
  BY <1>1 DEF q
<1>8. SubSeq(s, j + 1, Len(s)) = p
  BY DEF p
<1>9. j <= Len(Append(s, x))
  BY <1>1
<1>. QED  BY <1>1, <1>2, <1>6, <1>7, <1>8, <1>9

Rest(s, j) == SubSeq(s, j + 1, Len(s))

LEMMA RestAppend ==
  ASSUME NEW s \in Seq(Trace), NEW x \in Trace, NEW j \in Nat, j <= Len(s)
  PROVE  /\ Append(s, x) \in Seq(Trace) /\ j <= Len(Append(s, x))
         /\ \A u : Count(Rest(Append(s, x), j), u) = Count(Rest(s, j), u) + Is(x, u)
<1>1. /\ Rest(s, j) \in Seq(Trace)
      /\ Rest(Append(s, x), j) = Append(Rest(s, j), x)
      /\ Append(s, x) \in Seq(Trace) /\ j <= Len(Append(s, x))
  BY OwedAppend DEF Rest
<1>. QED  BY <1>1, CountAppend

LEMMA OwedStep ==
  ASSUME TypeOK, [Next]_vars, NEW w \in Socket, joined'[w] = joined[w],
         joined[w] <= Len(feed[HomeOf[w]]), NEW u
  PROVE  /\ joined'[w] <= Len(feed'[HomeOf[w]])
         /\ Count(Owed(w)', u) + Due(w, u) = Count(Owed(w), u) + Due(w, u)'
         /\ Count(Owed(w), u) \in Nat
<1>. DEFINE q == HomeOf[w]
            j == joined[w]
<1>0. /\ q \in Replica /\ feed[q] \in Seq(Trace) /\ j \in Nat /\ Len(feed[q]) \in Nat
      /\ j <= Len(feed[q])
  BY DEF TypeOK, FeedType
<1>1. Owed(w) = Rest(feed[q], j) /\ Owed(w)' = Rest(feed'[q], j)
  BY DEF Owed, Rest
<1>2. ASSUME NEW s \in Seq(Trace), j <= Len(s)
      PROVE  /\ Count(Rest(s, j), u) \in Nat /\ Count(s, u) \in Nat
             /\ \A t \in Trace :
                  /\ Append(s, t) \in Seq(Trace) /\ j <= Len(Append(s, t))
                  /\ Count(Rest(Append(s, t), j), u) = Count(Rest(s, j), u) + Is(t, u)
                  /\ Count(Append(s, t), u) = Count(s, u) + Is(t, u)
                  /\ Is(t, u) \in Nat
  <2>1. Rest(s, j) \in Seq(Trace)
    BY <1>0, <1>2, SubSeqProperties DEF Rest
  <2>2. Count(Rest(s, j), u) \in Nat /\ Count(s, u) \in Nat
    BY <1>2, <2>1, CountType
  <2>3. ASSUME NEW t \in Trace
        PROVE  /\ Append(s, t) \in Seq(Trace) /\ j <= Len(Append(s, t))
               /\ Count(Rest(Append(s, t), j), u) = Count(Rest(s, j), u) + Is(t, u)
               /\ Count(Append(s, t), u) = Count(s, u) + Is(t, u)
               /\ Is(t, u) \in Nat
    <3>1. j \in Nat
      BY <1>0
    <3>. HIDE DEF j
    <3>2. Is(t, u) \in Nat
      BY DEF Is
    <3>. QED  BY <1>2, <3>1, <3>2, CountAppend, RestAppend
  <2>. QED  BY <2>2, <2>3
<1>. HIDE DEF q, j
<1>3. \/ feed'[q] = feed[q]
      \/ \E t \in Trace : feed'[q] \in {Append(feed[q], t), Append(Append(feed[q], t), t)}
  <2>1. ASSUME NEW i \in Request, BroadcastTrace(i)
        PROVE  \/ feed'[q] = feed[q]
               \/ \E t \in Trace :
                    feed'[q] \in {Append(feed[q], t), Append(Append(feed[q], t), t)}
    <3>1. TraceOf(i) \in Trace /\ request[i].at \in Replica
      BY <2>1, RequestTrace DEF BroadcastTrace, TypeOK, IngestType
    <3>2. Broadcast(i, request[i].at, TraceOf(i))
      BY <2>1 DEF BroadcastTrace
    <3>3. feed'[q] \in {feed[q], Append(feed[q], TraceOf(i)),
                       Append(Append(feed[q], TraceOf(i)), TraceOf(i))}
      BY <1>0, <3>1, <3>2, FeedGains DEF TypeOK
    <3>. QED  BY <3>1, <3>3
  <2>. QED  BY <2>1, FeedKept
<1>4. /\ j <= Len(feed'[q])
      /\ Count(Rest(feed'[q], j), u) + Count(feed[q], u)
           = Count(Rest(feed[q], j), u) + Count(feed'[q], u)
      /\ Count(Rest(feed[q], j), u) \in Nat
  <2>1. CASE feed'[q] = feed[q]
    BY <1>0, <1>2, <2>1
  <2>2. CASE \E t \in Trace : feed'[q] = Append(feed[q], t)
    BY <1>0, <1>2, <2>2
  <2>3. CASE \E t \in Trace : feed'[q] = Append(Append(feed[q], t), t)
    <3>1. PICK t \in Trace : feed'[q] = Append(Append(feed[q], t), t)
      BY <2>3
    <3>. DEFINE s == Append(feed[q], t)
    <3>2. /\ s \in Seq(Trace) /\ j <= Len(s) /\ Is(t, u) \in Nat
          /\ Count(Rest(s, j), u) = Count(Rest(feed[q], j), u) + Is(t, u)
          /\ Count(s, u) = Count(feed[q], u) + Is(t, u)
          /\ Count(Rest(feed[q], j), u) \in Nat /\ Count(feed[q], u) \in Nat
      BY <1>0, <1>2
    <3>. HIDE DEF s
    <3>3. /\ j <= Len(Append(s, t))
          /\ Count(Rest(Append(s, t), j), u) = Count(Rest(s, j), u) + Is(t, u)
          /\ Count(Append(s, t), u) = Count(s, u) + Is(t, u)
      BY <1>2, <3>2
    <3>4. feed'[q] = Append(s, t)
      BY <3>1 DEF s
    <3>. QED  BY <3>2, <3>3, <3>4
  <2>. QED  BY <1>3, <2>1, <2>2, <2>3
<1>. QED  BY <1>1, <1>4 DEF Due, q, j

Delivering(w) ==
  /\ joined[w] <= Len(feed[HomeOf[w]])
  /\ \A u \in Trace : Shown(w, u) >= Count(Owed(w), u)
ShownAtLeast == \A w \in Socket : Watching(w) => Delivering(w)

(* A browser that connects is owed nothing yet. *)
LEMMA ConnectOwes ==
  ASSUME TypeOK, NEW w \in Socket, Connect(w)
  PROVE  joined'[w] = Len(feed'[HomeOf[w]]) /\ Owed(w)' = <<>> /\ UNCHANGED feed
<1>1. /\ feed' = feed /\ joined'[w] = Len(feed[HomeOf[w]])
      /\ feed[HomeOf[w]] \in Seq(Trace)
  BY DEF Connect, TypeOK, FeedType
<1>2. Len(feed[HomeOf[w]]) \in Nat
  BY <1>1
<1>3. SubSeq(feed[HomeOf[w]], Len(feed[HomeOf[w]]) + 1, Len(feed[HomeOf[w]])) = <<>>
  BY <1>2, SubSeqEmpty
<1>. QED  BY <1>1, <1>3 DEF Owed

LEMMA AtLeastStep ==
  ASSUME Steadfast, Headed, Listening, ShownAtLeast, [Next]_vars
  PROVE  ShownAtLeast'
<1>. USE DEF Headed
<1>. SUFFICES ASSUME NEW w \in Socket, Watching(w)' PROVE Delivering(w)'
  BY DEF ShownAtLeast
<1>1. CASE Connect(w)
  <2>1. joined'[w] <= Len(feed'[HomeOf[w]])
    <3>1. feed'[HomeOf[w]] \in Seq(Trace)
      BY <1>1, ConnectOwes DEF TypeOK, FeedType
    <3>. QED  BY <1>1, <3>1, ConnectOwes
  <2>2. ASSUME NEW u \in Trace
        PROVE  Shown(w, u)' >= Count(Owed(w)', u)
    <3>1. Count(Owed(w)', u) = 0
      BY <1>1, ConnectOwes, CountEmpty
    <3>. QED  BY <3>1, ShownTypeNext
  <2>. QED  BY <2>1, <2>2 DEF Delivering
<1>2. CASE ~Connect(w)
  <2>1. Watching(w) /\ joined'[w] = joined[w] /\ ~Crash(HomeOf[w]) /\ Delivering(w)
    BY <1>2, WatchingStep DEF TypeOK, ShownAtLeast
  <2>2. joined[w] <= Len(feed[HomeOf[w]])
    BY <2>1 DEF Delivering
  <2>3. joined'[w] <= Len(feed'[HomeOf[w]])
    BY <2>1, <2>2, OwedStep
  <2>4. ASSUME NEW u \in Trace
        PROVE  Shown(w, u)' >= Count(Owed(w)', u)
    <3>1. Shown(w, u) >= Count(Owed(w), u)
      BY <2>1 DEF Delivering
    <3>2. /\ Count(Owed(w)', u) + Due(w, u) = Count(Owed(w), u) + Due(w, u)'
          /\ Count(Owed(w), u) \in Nat
      BY <2>1, <2>2, OwedStep
    <3>3. Shown(w, u)' + Due(w, u) = Shown(w, u) + Due(w, u)'
      BY <2>1, WatchedShows
    <3>4. Count(Owed(w)', u) \in Nat
      <4>1. joined'[w] \in Nat /\ feed'[HomeOf[w]] \in Seq(Trace)
        BY HeadedStep DEF TypeOK, FeedType
      <4>2. Owed(w)' \in Seq(Trace)
        BY <4>1, SubSeqProperties DEF Owed
      <4>. QED  BY <4>2, CountType, Zenon
    <3>. QED  BY <3>1, <3>2, <3>3, <3>4, ShownType, ShownTypeNext
  <2>. QED  BY <2>3, <2>4 DEF Delivering
<1>. QED  BY <1>1, <1>2

(***************************************************************************)
(* With a Redis that keeps up, or without one, a browser that is there to  *)
(* the end has every trace its replica owed it: no crash of another        *)
(* replica, no browser that leaves, no overlap of broadcasts and no        *)
(* publish that fails after it was taken costs it one.                     *)
(***************************************************************************)
THEOREM FeedDelivers ==
  ASSUME "redis" \notin FeedEvents
  PROVE  Spec => []FeedDelivered
<1>. DEFINE Inv == Headed /\ Listening /\ ShownAtLeast
<1>1. Init => Inv
  <2>. SUFFICES ASSUME Init PROVE Inv
    OBVIOUS
  <2>1. Listening
    BY DEF Init, FeedInit, Listening
  <2>2. ShownAtLeast
    BY DEF Init, FeedInit, ShownAtLeast, Watching
  <2>. QED  BY <2>1, <2>2, HeadedInit
<1>2. Inv /\ [Next]_vars => Inv'
  BY HeadedStep, ListeningStep, AtLeastStep DEF Steadfast, Headed, TypeOK
<1>3. Inv => FeedDelivered
  <2>. SUFFICES ASSUME Inv, NEW w \in Socket, Watching(w), Settled(w), NEW u \in Trace
                PROVE  Count(received[w], u) >= Count(Owed(w), u)
    BY DEF FeedDelivered
  <2>1. Shown(w, u) >= Count(Owed(w), u)
    BY DEF ShownAtLeast, Delivering
  <2>2. Bearing(w, u) = {} /\ inbox[HomeOf[w]] = <<>>
    BY DEF Settled, Bearing
  <2>3. Shown(w, u) = Count(received[w], u)
    BY <2>2, CountEmpty, FS_EmptySet, ShownType DEF Shown
  <2>. QED  BY <2>1, <2>3
<1>. QED  BY <1>1, <1>2, <1>3, PTL DEF Spec

-----------------------------------------------------------------------------
(***************************************************************************)
(* The order of the feed.  What is going on is going on in a replica that  *)
(* is up, and a request broadcasts itself only where there is no Redis.    *)
(***************************************************************************)
Wired == \A r \in Replica :
  IF handle[r] THEN redisUp /\ r \in running ELSE listener[r] = "none" /\ inbox[r] = <<>>
Housed ==
  /\ \A i \in Request : request[i].pc \notin Ended => request[i].at \in running
  /\ \A w \in Socket : handler[w] = "serving" => HomeOf[w] \in running
Direct == \A i \in Request : cast[i] # NoCast => ~handle[request[i].at]

LEMMA WiredStep ==
  ASSUME Steadfast, TypeOK, Listening, Wired, [Next]_vars
  PROVE  Wired'
<1>. USE DEF TypeOK
<1>0. redisUp' = redisUp /\ ~\E r \in Replica : ListenerCrash(r)
  BY ListeningStep
<1>1. ASSUME NEW q \in Replica, Start(q)
      PROVE  Wired'
  <2>1. ASSUME NEW r \in Replica, r # q
        PROVE  /\ handle'[r] = handle[r] /\ listener'[r] = listener[r] /\ inbox'[r] = inbox[r]
               /\ r \in running' <=> r \in running
    BY <1>1, <2>1 DEF Start, UseRedis, Listens
  <2>2. ~handle[q] /\ inbox[q] = <<>>
    BY <1>1 DEF Start, UseRedis, Listens, Wired
  <2>3. /\ handle'[q] = (RedisUrl /\ redisUp) /\ q \in running' /\ inbox'[q] = <<>>
        /\ listener'[q] = IF RedisUrl /\ redisUp THEN "starting" ELSE "none"
    BY <1>1, <2>2 DEF Start, UseRedis, Listens, FeedType
  <2>. QED  BY <1>0, <2>1, <2>3 DEF Wired
<1>2. ASSUME NEW q \in Replica, Subscribe(q)
      PROVE  Wired'
  BY <1>0, <1>2 DEF Subscribe, Wired, FeedType
<1>3. ASSUME NEW q \in Replica, Crash(q)
      PROVE  Wired'
  BY <1>0, <1>3 DEF Crash, Halt, Wired, FeedType
<1>4. ASSUME NEW q \in Replica, Relay(q)
      PROVE  Wired'
  BY <1>0, <1>4 DEF Relay, replicas, Wired, FeedType
<1>5. ASSUME NEW i \in Request, BroadcastTrace(i)
      PROVE  Wired'
  <2>1. UNCHANGED <<running, handle, listener>>
    BY <1>5 DEF BroadcastTrace, Broadcast, replicas
  <2>2. ASSUME NEW q \in Replica, listener[q] = "none"
        PROVE  inbox'[q] = inbox[q]
    BY <1>5, <2>2 DEF BroadcastTrace, Broadcast, Both, Published, Deliver
  <2>. QED  BY <1>0, <2>1, <2>2 DEF Wired
<1>6. CASE UNCHANGED <<running, handle, listener, inbox>>
  BY <1>0, <1>6 DEF Wired
<1>. QED  BY <1>0, <1>1, <1>2, <1>3, <1>4, <1>5, <1>6
          DEF Next, Serve, vars, feedVars, replicas, Post, ClientTimeout, InsertTrace,
              InsertSpans, Reply, StoreSwitch, Feed, Connect, Disconnect, PeerLeaves, Send,
              EndLocal, RedisSwitch

LEMMA HousedStep ==
  ASSUME TypeOK, Housed, [Next]_vars
  PROVE  Housed'
<1>. USE DEF TypeOK
<1>1. ASSUME NEW i \in Request
      PROVE  (request[i].pc \notin Ended => request[i].at \in running)'
  <2>1. ASSUME NEW r \in Replica, NEW j \in Request, Post(r, j)
        PROVE  (request[i].pc \notin Ended => request[i].at \in running)'
    BY <2>1 DEF Post, feedVars, IngestType, Housed
  <2>2. ASSUME NEW j \in Request, ClientTimeout(j)
        PROVE  (request[i].pc \notin Ended => request[i].at \in running)'
    BY <2>2 DEF ClientTimeout, feedVars, IngestType, Housed
  <2>3. ASSUME NEW j \in Request, Serve(j)
        PROVE  (request[i].pc \notin Ended => request[i].at \in running)'
    <3>1. /\ request'[i] = request[i] \/ (i = j /\ request'[i].at = request[i].at)
          /\ request[j].pc \notin Ended
          /\ running' = running
      BY <2>3 DEF Serve, InsertTrace, InsertSpans, BroadcastTrace, Broadcast, Reply, Go, Answer,
                  feedVars, replicas, IngestType, Ended
    <3>. QED  BY <3>1 DEF Housed
  <2>4. ASSUME NEW r \in Replica, Crash(r)
        PROVE  (request[i].pc \notin Ended => request[i].at \in running)'
    BY <2>4 DEF Crash, Halt, IngestType, Housed, Ended
  <2>5. ASSUME running \subseteq running', UNCHANGED request
        PROVE  (request[i].pc \notin Ended => request[i].at \in running)'
    BY <2>5 DEF Housed
  <2>. QED  BY <2>1, <2>2, <2>3, <2>4, <2>5
            DEF Next, vars, feedVars, replicas, StoreSwitch, Feed, Start, Subscribe,
                ListenerCrash, Relay, Connect, Disconnect, PeerLeaves, Send, EndLocal, RedisSwitch
<1>2. ASSUME NEW w \in Socket
      PROVE  (handler[w] = "serving" => HomeOf[w] \in running)'
  <2>1. ASSUME NEW v \in Socket, Connect(v) \/ Disconnect(v)
        PROVE  (handler[w] = "serving" => HomeOf[w] \in running)'
    BY <2>1 DEF Connect, Disconnect, EndHandler, replicas, FeedType, Housed
  <2>2. ASSUME NEW r \in Replica, Crash(r)
        PROVE  (handler[w] = "serving" => HomeOf[w] \in running)'
    BY <2>2 DEF Crash, Halt, FeedType, Housed
  <2>3. ASSUME running \subseteq running', UNCHANGED handler
        PROVE  (handler[w] = "serving" => HomeOf[w] \in running)'
    BY <2>3 DEF Housed
  <2>. QED  BY <2>1, <2>2, <2>3
            DEF Next, Serve, vars, feedVars, replicas, sockets, Post, ClientTimeout, InsertTrace,
                InsertSpans, BroadcastTrace, Broadcast, Reply, StoreSwitch, Feed, Start,
                Subscribe, ListenerCrash, Relay, PeerLeaves, Send, EndLocal, RedisSwitch
<1>. QED  BY <1>1, <1>2 DEF Housed

LEMMA DirectStep ==
  ASSUME "ambiguous" \notin FeedEvents, TypeOK, Placed, Wired, Housed, Direct, [Next]_vars
  PROVE  Direct'
<1>. USE DEF TypeOK
<1>. SUFFICES ASSUME NEW i \in Request, cast'[i] # NoCast
              PROVE  ~handle'[request'[i].at]
  BY DEF Direct
<1>1. CASE BroadcastTrace(i)
  <2>1. /\ UNCHANGED handle /\ request'[i].at = request[i].at
        /\ request[i].at \in Replica /\ cast[i] = NoCast
    BY <1>1 DEF BroadcastTrace, Broadcast, replicas, Go, IngestType, Placed, PlacedBy
  <2>2. ~handle[request[i].at] \/ ~redisUp
    BY <1>1, <2>1 DEF BroadcastTrace, Broadcast, Published
  <2>. QED  BY <2>1, <2>2 DEF Wired
<1>2. CASE ~BroadcastTrace(i)
  <2>1. request'[i].pc = request[i].pc /\ request'[i].at = request[i].at
    BY <1>2, RequestStep
  <2>2. cast[i] # NoCast
    <3>1. ASSUME NEW j \in Request, j # i, BroadcastTrace(j)
          PROVE  cast'[i] = cast[i]
      <4>1. UNCHANGED cast \/ Local(j, request[j].at, TraceOf(j))
        BY <3>1 DEF BroadcastTrace, Broadcast, Both, Published
      <4>. QED  BY <3>1, <4>1, LocalCast DEF Broadcaster
    <3>2. ASSUME NEW r \in Replica, Relay(r)
          PROVE  cast'[i] = cast[i]
      BY <3>2 DEF Relay, Local
    <3>3. ASSUME NEW b \in Broadcaster, NEW w \in Socket, Send(b, w)
          PROVE  cast[i] # NoCast
      BY <3>3, SendCast DEF Broadcaster
    <3>. QED  BY <1>2, <3>1, <3>2, <3>3, CastDropped DEF Broadcaster
  <2>3. request[i].pc = "reply" /\ request[i].at \in running /\ ~handle[request[i].at]
    BY <2>2 DEF Placed, PlacedBy, Housed, Ended, Direct
  <2>4. ASSUME NEW r \in Replica, Start(r)
        PROVE  handle'[request[i].at] = handle[request[i].at]
    BY <2>3, <2>4 DEF Start, UseRedis, Listens, FeedType
  <2>5. ASSUME NEW r \in Replica, Crash(r)
        PROVE  ~handle'[request[i].at]
    BY <2>3, <2>5 DEF Crash, Halt, FeedType
  <2>6. UNCHANGED handle \/ \E r \in Replica : Start(r) \/ Crash(r)
    BY DEF Next, Serve, vars, feedVars, replicas, Post, ClientTimeout, InsertTrace, InsertSpans,
           BroadcastTrace, Broadcast, Reply, StoreSwitch, Feed, Subscribe, ListenerCrash, Relay,
           Connect, Disconnect, PeerLeaves, Send, EndLocal, RedisSwitch
  <2>. QED  BY <2>1, <2>3, <2>4, <2>5, <2>6
<1>. QED  BY <1>1, <1>2

-----------------------------------------------------------------------------
(* What is left in the inbox of a replica is the end of its feed. *)
Rear(q) == \E p \in Seq(Trace) : feed[q] = p \o inbox[q]
RearOfFeed == \A q \in Replica : Rear(q)

LEMMA TailRear ==
  ASSUME NEW p \in Seq(Trace), NEW s \in Seq(Trace), s # <<>>
  PROVE  /\ p \o s = Append(p, Head(s)) \o Tail(s)
         /\ Append(p, Head(s)) \in Seq(Trace) /\ Tail(s) \in Seq(Trace)
<1>1. Head(s) \in Trace /\ Tail(s) \in Seq(Trace) /\ <<Head(s)>> \in Seq(Trace)
  OBVIOUS
<1>2. s = <<Head(s)>> \o Tail(s)
  OBVIOUS
<1>3. p \o (<<Head(s)>> \o Tail(s)) = (p \o <<Head(s)>>) \o Tail(s)
  BY <1>1, ConcatAssociative
<1>4. p \o <<Head(s)>> = Append(p, Head(s))
  BY <1>1, AppendIsConcat
<1>. QED  BY <1>1, <1>2, <1>3, <1>4

LEMMA AppendRear ==
  ASSUME NEW p \in Seq(Trace), NEW s \in Seq(Trace), NEW t \in Trace
  PROVE  Append(p \o s, t) = p \o Append(s, t)
<1>1. <<t>> \in Seq(Trace) /\ p \o s \in Seq(Trace)
  BY ConcatProperties
<1>2. (p \o s) \o <<t>> = p \o (s \o <<t>>)
  BY <1>1, ConcatAssociative
<1>. QED  BY <1>1, <1>2, AppendIsConcat

(* What a broadcast does to a replica that uses Redis, and to one that     *)
(* does not.                                                               *)
LEMMA WiredBroadcast ==
  ASSUME "ambiguous" \notin FeedEvents, TypeOK, Wired, Listening,
         NEW i \in Request, BroadcastTrace(i), NEW q \in Replica
  PROVE  \/ feed'[q] = feed[q] /\ inbox'[q] = inbox[q]
         \/ /\ feed'[q] = Append(feed[q], TraceOf(i))
            /\ inbox'[q] = Append(inbox[q], TraceOf(i))
         \/ ~handle[q] /\ feed'[q] \in Seq(Trace) /\ inbox'[q] = <<>>
<1>. USE DEF TypeOK
<1>1. request[i].at \in Replica /\ TraceOf(i) \in Trace /\ Broadcast(i, request[i].at, TraceOf(i))
  BY RequestTrace DEF BroadcastTrace, IngestType
<1>2. inbox[q] \in Seq(Trace) /\ feed[q] \in Seq(Trace)
  BY DEF FeedType
<1>3. CASE /\ Deliver(TraceOf(i)) /\ UNCHANGED cast
           /\ feed'[q] = IF Hears(q) THEN Append(feed[q], TraceOf(i)) ELSE feed[q]
  <2>1. Hears(q) <=> listener[q] = "subscribed"
    BY DEF Hears, Listening, FeedType
  <2>. QED  BY <1>3, <2>1 DEF Deliver
<1>4. CASE /\ UNCHANGED inbox
           /\ ~handle[request[i].at] \/ ~redisUp
           /\ feed'[q] = IF q = request[i].at THEN Append(feed[q], TraceOf(i)) ELSE feed[q]
  <2>1. ~handle[request[i].at]
    BY <1>1, <1>4 DEF Wired
  <2>2. CASE q = request[i].at
    <3>1. Append(feed[q], TraceOf(i)) \in Seq(Trace)
      BY <1>1, <1>2
    <3>. QED  BY <1>4, <2>1, <2>2, <3>1 DEF Wired
  <2>3. CASE q # request[i].at
    BY <1>4, <2>3
  <2>. QED  BY <2>2, <2>3
<1>. QED  BY <1>1, <1>3, <1>4, FeedGrows

LEMMA RearStep ==
  ASSUME "ambiguous" \notin FeedEvents, Steadfast, TypeOK, Wired, Listening, RearOfFeed,
         [Next]_vars
  PROVE  RearOfFeed'
<1>. USE DEF TypeOK
<1>. SUFFICES ASSUME NEW q \in Replica PROVE Rear(q)'
  BY DEF RearOfFeed
<1>0. feed[q] \in Seq(Trace) /\ inbox[q] \in Seq(Trace)
  BY DEF FeedType
<1>1. PICK p \in Seq(Trace) : feed[q] = p \o inbox[q]
  BY DEF RearOfFeed, Rear
<1>2. CASE feed'[q] = feed[q] /\ inbox'[q] = inbox[q]
  BY <1>1, <1>2 DEF Rear
<1>3. CASE feed'[q] \in Seq(Trace) /\ inbox'[q] = <<>>
  BY <1>3, ConcatEmptySeq DEF Rear
<1>4. ASSUME NEW i \in Request, BroadcastTrace(i)
      PROVE  Rear(q)'
  <2>1. CASE /\ feed'[q] = Append(feed[q], TraceOf(i))
             /\ inbox'[q] = Append(inbox[q], TraceOf(i))
    <3>1. Append(p \o inbox[q], TraceOf(i)) = p \o Append(inbox[q], TraceOf(i))
      BY <1>0, RequestTrace, AppendRear
    <3>. QED  BY <1>1, <2>1, <3>1 DEF Rear
  <2>. QED  BY <1>2, <1>3, <1>4, <2>1, WiredBroadcast
<1>5. ASSUME NEW r \in Replica, Relay(r)
      PROVE  Rear(q)'
  <2>1. feed'[q] = feed[q]
    BY <1>5 DEF Relay, history
  <2>2. CASE q = r
    <3>1. inbox[q] # <<>> /\ inbox'[q] = Tail(inbox[q])
      BY <1>5, <2>2 DEF Relay, FeedType
    <3>2. feed'[q] = Append(p, Head(inbox[q])) \o inbox'[q]
      BY <1>0, <1>1, <2>1, <3>1, TailRear
    <3>. QED  BY <1>0, <3>1, <3>2, TailRear DEF Rear
  <2>3. CASE q # r
    BY <1>2, <1>5, <2>1, <2>3 DEF Relay, FeedType
  <2>. QED  BY <2>2, <2>3
<1>6. ASSUME NEW r \in Replica, Crash(r)
      PROVE  Rear(q)'
  <2>1. feed'[q] = feed[q] /\ inbox'[q] \in {<<>>, inbox[q]}
    BY <1>6 DEF Crash, Halt, history, FeedType
  <2>. QED  BY <1>0, <1>2, <1>3, <2>1
<1>7. ~\E r \in Replica : ListenerCrash(r)
  BY ListeningStep
<1>8. \/ UNCHANGED inbox
      \/ \E i \in Request : BroadcastTrace(i)
      \/ \E r \in Replica : Relay(r) \/ Crash(r)
  <2>1. ASSUME NEW b \in Broadcaster, EndLocal(b) \/ \E w \in Socket : Send(b, w)
        PROVE  UNCHANGED inbox
    BY <2>1 DEF Send, EndLocal
  <2>. QED  BY <1>7, <2>1, ShowingSteps
<1>. QED  BY <1>2, <1>4, <1>5, <1>6, <1>8, FeedKept

(* A browser that watches through Redis has, is being sent and will be     *)
(* relayed the end of the feed of its replica, from before it connected.   *)
Behind(w) ==
  \E p \in Seq(Trace) :
    Len(p) <= joined[w] /\ feed[HomeOf[w]] = p \o Coming(w)
NoGap == \A w \in Socket : Watching(w) /\ handle[HomeOf[w]] => Behind(w)

LEMMA SendingType ==
  ASSUME FeedType, NEW w \in Socket
  PROVE  /\ Sending(w) \in Seq(Trace) /\ received[w] \in Seq(Trace)
         /\ inbox[HomeOf[w]] \in Seq(Trace) /\ feed[HomeOf[w]] \in Seq(Trace)
         /\ Coming(w) \in Seq(Trace) /\ HomeOf[w] \in Replica
         /\ joined[w] \in Nat
<1>1. HomeOf[w] \in Broadcaster /\ HomeOf[w] \in Replica
  BY DEF Broadcaster
<1>2. w \in cast[HomeOf[w]].todo => cast[HomeOf[w]].trace \in Trace
  BY <1>1 DEF FeedType, Cast, NoCast
<1>3. Sending(w) \in Seq(Trace)
  BY <1>2 DEF Sending
<1>4. received[w] \in Seq(Trace) /\ inbox[HomeOf[w]] \in Seq(Trace)
      /\ feed[HomeOf[w]] \in Seq(Trace) /\ joined[w] \in Nat
  BY <1>1 DEF FeedType
<1>. QED  BY <1>1, <1>3, <1>4, ConcatProperties DEF Coming

(* The steps that move a trace nearer to the browser keep the line. *)
LEMMA RelayLine ==
  ASSUME FeedType, NEW w \in Socket, w \in connections, Relay(HomeOf[w])
  PROVE  Coming(w)' = Coming(w)
<1>. DEFINE r == HomeOf[w]
<1>1. inbox[r] # <<>> /\ cast[r] = NoCast /\ r \in Broadcaster /\ inbox[r] \in Seq(Trace)
      /\ received' = received
  BY SendingType DEF Relay, Broadcaster
<1>2. Sending(w) = <<>>
  BY <1>1 DEF Sending, NoCast
<1>3. cast'[r].trace = Head(inbox[r]) /\ w \in cast'[r].todo /\ inbox'[r] = Tail(inbox[r])
  BY <1>1, SendingType, LocalCast DEF Relay, FeedType
<1>4. Sending(w)' = <<Head(inbox[r])>>
  BY <1>3 DEF Sending
<1>5. received[w] \in Seq(Trace) /\ Head(inbox[r]) \in Trace
  BY <1>1, SendingType
<1>6. received[w] \o inbox[r] = Append(received[w], Head(inbox[r])) \o Tail(inbox[r])
  BY <1>1, <1>5, TailRear
<1>7. received[w] \o <<Head(inbox[r])>> = Append(received[w], Head(inbox[r]))
  BY <1>5, AppendIsConcat
<1>8. received[w] \o <<>> = received[w]
  BY <1>5, ConcatEmptySeq
<1>. QED  BY <1>1, <1>2, <1>3, <1>4, <1>6, <1>7, <1>8 DEF Coming

LEMMA SendLine ==
  ASSUME FeedType, NEW w \in Socket, w \notin gone, Send(HomeOf[w], w)
  PROVE  Coming(w)' = Coming(w)
<1>. DEFINE r == HomeOf[w]
<1>1. r \in Broadcaster /\ received[w] \in Seq(Trace) /\ inbox' = inbox
  BY SendingType DEF Send, Broadcaster
<1>2. /\ w \in cast[r].todo /\ cast[r].trace \in Trace /\ w \notin cast'[r].todo
      /\ received'[w] = Append(received[w], cast[r].trace)
  <2>1. w \in cast[r].todo /\ received' = [received EXCEPT ![w] = Append(@, cast[r].trace)]
    BY DEF Send
  <2>2. cast[r].trace \in Trace /\ cast'[r].todo = cast[r].todo \ {w}
    BY <1>1, SendCast
  <2>. QED  BY <2>1, <2>2 DEF FeedType
<1>3. Sending(w) = <<cast[r].trace>> /\ Sending(w)' = <<>>
  BY <1>2 DEF Sending
<1>4. received[w] \o <<cast[r].trace>> = received'[w]
  BY <1>1, <1>2, AppendIsConcat
<1>5. received'[w] \o <<>> = received'[w]
  BY <1>1, <1>2, ConcatEmptySeq
<1>. QED  BY <1>1, <1>3, <1>4, <1>5 DEF Coming

LEMMA BroadcastLine ==
  ASSUME FeedType, NEW w \in Socket, NEW t \in Trace, Behind(w),
         received'[w] = received[w], Sending(w)' = Sending(w), joined'[w] = joined[w],
         inbox'[HomeOf[w]] = Append(inbox[HomeOf[w]], t),
         feed'[HomeOf[w]] = Append(feed[HomeOf[w]], t)
  PROVE  Behind(w)'
<1>1. PICK p \in Seq(Trace) : Len(p) <= joined[w] /\ feed[HomeOf[w]] = p \o Coming(w)
  BY DEF Behind
<1>2. /\ Sending(w) \in Seq(Trace) /\ received[w] \in Seq(Trace)
      /\ inbox[HomeOf[w]] \in Seq(Trace) /\ Coming(w) \in Seq(Trace)
      /\ received[w] \o Sending(w) \in Seq(Trace)
  BY SendingType, ConcatProperties
<1>3. Coming(w)' = Append(Coming(w), t)
  <2>. DEFINE front == received[w] \o Sending(w)
  <2>1. Coming(w) = front \o inbox[HomeOf[w]] /\ Coming(w)' = front \o inbox'[HomeOf[w]]
    BY DEF Coming
  <2>2. front \in Seq(Trace)
    BY <1>2
  <2>. HIDE DEF front
  <2>3. Append(front \o inbox[HomeOf[w]], t) = front \o Append(inbox[HomeOf[w]], t)
    BY <1>2, <2>2, AppendRear
  <2>. QED  BY <2>1, <2>3
<1>4. feed'[HomeOf[w]] = p \o Coming(w)'
  <2>1. Append(p \o Coming(w), t) = p \o Append(Coming(w), t)
    BY <1>2, AppendRear, Zenon
  <2>. QED  BY <1>1, <1>3, <2>1
<1>. QED  BY <1>1, <1>4 DEF Behind

(* Every other step leaves the line of a browser that goes on watching. *)
LEMMA LineKept ==
  ASSUME "ambiguous" \notin FeedEvents, Steadfast, Headed, Listening, Wired, Direct,
         [Next]_vars, NEW w \in Socket, Watching(w), handle[HomeOf[w]], ~Crash(HomeOf[w])
  PROVE  \/ Coming(w)' = Coming(w) /\ feed'[HomeOf[w]] = feed[HomeOf[w]]
         \/ \E t \in Trace :
              /\ received'[w] = received[w] /\ Sending(w)' = Sending(w)
              /\ inbox'[HomeOf[w]] = Append(inbox[HomeOf[w]], t)
              /\ feed'[HomeOf[w]] = Append(feed[HomeOf[w]], t)
<1>. USE DEF Headed, TypeOK
<1>. DEFINE q == HomeOf[w]
<1>0. /\ q \in Replica /\ q \in Broadcaster /\ q \notin Request
      /\ w \in connections /\ w \notin gone
  BY SendingType DEF Broadcaster, ConnectionsServed, Watching
<1>1. ASSUME NEW i \in Request, BroadcastTrace(i)
      PROVE  /\ received' = received /\ cast'[q] = cast[q]
             /\ \/ feed'[q] = feed[q] /\ inbox'[q] = inbox[q]
                \/ /\ TraceOf(i) \in Trace
                   /\ feed'[q] = Append(feed[q], TraceOf(i))
                   /\ inbox'[q] = Append(inbox[q], TraceOf(i))
  <2>1. UNCHANGED cast \/ Local(i, request[i].at, TraceOf(i))
    BY <1>1 DEF BroadcastTrace, Broadcast, Both, Published
  <2>2. cast'[q] = cast[q]
    BY <1>0, <2>1, LocalCast DEF Broadcaster
  <2>3. received' = received
    BY <1>1 DEF BroadcastTrace, Broadcast
  <2>. QED  BY <1>0, <1>1, <2>2, <2>3, RequestTrace, WiredBroadcast
<1>2. CASE \E i \in Request : BroadcastTrace(i)
  BY <1>1, <1>2 DEF Coming, Sending
<1>3. ASSUME NEW r \in Replica, Relay(r)
      PROVE  Coming(w)' = Coming(w)
  <2>1. CASE r = q
    BY <1>0, <1>3, <2>1, RelayLine
  <2>2. CASE r # q
    <3>1. cast'[q] = cast[q] /\ inbox'[q] = inbox[q] /\ received' = received
      BY <1>0, <1>3, <2>2 DEF Relay, Local, FeedType
    <3>. QED  BY <3>1 DEF Coming, Sending
  <2>. QED  BY <2>1, <2>2
<1>4. ASSUME NEW b \in Broadcaster, NEW v \in Socket, Send(b, v)
      PROVE  Coming(w)' = Coming(w)
  <2>1. CASE v = w
    <3>1. b = q
      <4>1. w \in cast[b].todo /\ cast[b] # NoCast
        BY <1>4, <2>1 DEF Send, NoCast
      <4>2. CASE b \in Request
        BY <4>1, <4>2 DEF Placed, PlacedBy, Direct
      <4>3. CASE b \in Replica
        BY <4>1, <4>3 DEF Placed
      <4>. QED  BY <4>2, <4>3 DEF Broadcaster
    <3>. QED  BY <1>0, <1>4, <2>1, <3>1, SendLine
  <2>2. CASE v # w
    <3>1. received'[w] = received[w] /\ inbox' = inbox
      BY <1>4, <2>2 DEF Send, FeedType
    <3>2. /\ cast'[q].trace = cast[q].trace
          /\ w \in cast'[q].todo <=> w \in cast[q].todo
      BY <1>0, <1>4, <2>2, SendCast
    <3>. QED  BY <3>1, <3>2 DEF Coming, Sending
  <2>. QED  BY <2>1, <2>2
<1>5. ASSUME NEW b \in Broadcaster, EndLocal(b)
      PROVE  Coming(w)' = Coming(w)
  <2>1. received' = received /\ inbox' = inbox
    BY <1>5 DEF EndLocal
  <2>2. cast'[q] = cast[q] \/ (cast'[q] = NoCast /\ cast[q].todo = {})
    BY <1>0, <1>5 DEF EndLocal, FeedType
  <2>3. /\ w \in cast'[q].todo <=> w \in cast[q].todo
        /\ w \in cast[q].todo => cast'[q] = cast[q]
    BY <2>2 DEF NoCast
  <2>. QED  BY <2>1, <2>3 DEF Coming, Sending
<1>6. ASSUME NEW r \in Replica, Crash(r)
      PROVE  Coming(w)' = Coming(w)
  <2>1. received' = received /\ inbox'[q] = inbox[q] /\ cast'[q] = cast[q]
    <3>1. r # q
      BY <1>6
    <3>. QED  BY <1>0, <1>6, <3>1 DEF Crash, Halt, FeedType
  <2>. QED  BY <2>1 DEF Coming, Sending
<1>7. CASE UNCHANGED <<received, cast, inbox>>
  BY <1>2, <1>7, FeedKept DEF Coming, Sending
<1>8. ~\E r \in Replica : ListenerCrash(r)
  BY ListeningStep
<1>. QED  BY <1>2, <1>3, <1>4, <1>5, <1>6, <1>7, <1>8, ShowingSteps, FeedKept

(* A browser that connects has the whole inbox before it. *)
LEMMA ConnectLine ==
  ASSUME Headed, RearOfFeed, NEW w \in Socket, Connect(w)
  PROVE  Behind(w)'
<1>. USE DEF Headed, TypeOK
<1>. DEFINE q == HomeOf[w]
<1>0. q \in Replica /\ q \in Broadcaster /\ inbox[q] \in Seq(Trace)
  BY SendingType DEF Broadcaster
<1>1. PICK p \in Seq(Trace) : feed[q] = p \o inbox[q]
  BY <1>0 DEF RearOfFeed, Rear
<1>2. Fresh(w) /\ UNCHANGED <<received, cast, inbox, feed>>
  BY DEF Connect, AddConnection, Untouched
<1>3. Sending(w)' = <<>> /\ received'[w] = <<>>
  BY <1>0, <1>2 DEF Fresh, Sending
<1>4. Coming(w)' = inbox[q]
  BY <1>0, <1>2, <1>3, ConcatEmptySeq DEF Coming
<1>5. Len(p) <= joined'[w]
  <2>1. joined'[w] = Len(feed[q])
    BY DEF Connect, FeedType
  <2>2. Len(feed[q]) = Len(p) + Len(inbox[q]) /\ Len(p) \in Nat /\ Len(inbox[q]) \in Nat
    BY <1>0, <1>1, ConcatProperties
  <2>. QED  BY <2>1, <2>2
<1>. QED  BY <1>1, <1>2, <1>4, <1>5 DEF Behind

LEMMA NoGapStep ==
  ASSUME "ambiguous" \notin FeedEvents, Steadfast, Headed, Listening, Wired, Housed, Direct,
         RearOfFeed, NoGap, [Next]_vars
  PROVE  NoGap'
<1>. USE DEF Headed, TypeOK
<1>. SUFFICES ASSUME NEW w \in Socket, Watching(w)', handle'[HomeOf[w]]
              PROVE  Behind(w)'
  BY DEF NoGap
<1>1. CASE Connect(w)
  BY <1>1, ConnectLine
<1>2. CASE ~Connect(w)
  <2>1. Watching(w) /\ joined'[w] = joined[w] /\ ~Crash(HomeOf[w])
    BY <1>2, WatchingStep
  <2>2. handle[HomeOf[w]]
    <3>1. HomeOf[w] \in running
      BY <2>1 DEF Watching, Housed
    <3>2. ASSUME NEW r \in Replica, Start(r)
          PROVE  handle'[HomeOf[w]] = handle[HomeOf[w]]
      BY <3>1, <3>2 DEF Start, UseRedis, Listens, FeedType
    <3>3. ASSUME NEW r \in Replica, Crash(r)
          PROVE  handle'[HomeOf[w]] = handle[HomeOf[w]]
      BY <2>1, <3>3 DEF Crash, Halt, FeedType
    <3>4. UNCHANGED handle \/ \E r \in Replica : Start(r) \/ Crash(r)
      BY DEF Next, Serve, vars, feedVars, replicas, Post, ClientTimeout, InsertTrace, InsertSpans,
             BroadcastTrace, Broadcast, Reply, StoreSwitch, Feed, Subscribe, ListenerCrash,
             Relay, Connect, Disconnect, PeerLeaves, Send, EndLocal, RedisSwitch
    <3>. QED  BY <3>2, <3>3, <3>4
  <2>3. Behind(w)
    BY <2>1, <2>2 DEF NoGap
  <2>4. CASE Coming(w)' = Coming(w) /\ feed'[HomeOf[w]] = feed[HomeOf[w]]
    BY <2>1, <2>3, <2>4 DEF Behind
  <2>. QED  BY <2>1, <2>2, <2>3, <2>4, LineKept, BroadcastLine
<1>. QED  BY <1>1, <1>2

(* A sequence behind another is its suffix. *)
LEMMA RearIsSuffix ==
  ASSUME NEW p \in Seq(Trace), NEW s \in Seq(Trace)
  PROVE  IsSuffix(s, p \o s) /\ Len(p \o s) = Len(p) + Len(s)
<1>. DEFINE f == p \o s
<1>1. /\ f \in Seq(Trace) /\ Len(f) = Len(p) + Len(s) /\ Len(p) \in Nat /\ Len(s) \in Nat
      /\ \A k \in 1..Len(p) + Len(s) : f[k] = IF k <= Len(p) THEN p[k] ELSE s[k - Len(p)]
  BY ConcatProperties
<1>. HIDE DEF f
<1>2. ASSUME NEW x \in Seq(Trace)
      PROVE  /\ Reverse(x) \in Seq(Trace) /\ Len(Reverse(x)) = Len(x)
             /\ \A k \in 1..Len(x) : Reverse(x)[k] = x[(Len(x) - k) + 1]
  BY DEF Reverse
<1>3. /\ Reverse(s) \in Seq(Trace) /\ Reverse(f) \in Seq(Trace)
      /\ Len(Reverse(s)) = Len(s) /\ Len(Reverse(f)) = Len(f)
  BY <1>1, <1>2
<1>4. ASSUME NEW k \in 1..Len(s)
      PROVE  Reverse(s)[k] = Reverse(f)[k]
  <2>1. Reverse(s)[k] = s[(Len(s) - k) + 1]
    BY <1>2
  <2>2. Reverse(f)[k] = f[(Len(f) - k) + 1]
    <3>1. k \in 1..Len(f)
      BY <1>1
    <3>. QED  BY <1>1, <1>2, <3>1
  <2>3. f[(Len(f) - k) + 1] = s[(Len(s) - k) + 1]
    <3>1. /\ (Len(f) - k) + 1 \in 1..Len(p) + Len(s) /\ ~((Len(f) - k) + 1 <= Len(p))
          /\ ((Len(f) - k) + 1) - Len(p) = (Len(s) - k) + 1
      BY <1>1
    <3>. QED  BY <1>1, <3>1
  <2>. QED  BY <2>1, <2>2, <2>3
<1>5. /\ SubSeq(Reverse(s), 1, Len(s)) \in Seq(Trace)
      /\ SubSeq(Reverse(f), 1, Len(s)) \in Seq(Trace)
      /\ Len(SubSeq(Reverse(s), 1, Len(s))) = Len(s)
      /\ Len(SubSeq(Reverse(f), 1, Len(s))) = Len(s)
      /\ \A k \in 1..Len(s) : /\ SubSeq(Reverse(s), 1, Len(s))[k] = Reverse(s)[k]
                             /\ SubSeq(Reverse(f), 1, Len(s))[k] = Reverse(f)[k]
  BY <1>1, <1>3
<1>6. SubSeq(Reverse(s), 1, Len(s)) = SubSeq(Reverse(f), 1, Len(s))
  BY <1>4, <1>5, SeqEqual
<1>. QED  BY <1>1, <1>3, <1>6 DEF IsSuffix, IsPrefix, f

(***************************************************************************)
(* While Redis stays reachable and a publish that fails has not been       *)
(* taken, a browser has the traces of its replica in the order of the      *)
(* publishes, once and without a gap, from before it connected on: also    *)
(* while broadcasts overlap, replicas die and browsers come and go.        *)
(***************************************************************************)
THEOREM FeedKeepsOrder ==
  ASSUME FeedEvents \cap {"redis", "ambiguous"} = {}
  PROVE  Spec => []FeedInOrder
<1>. DEFINE Inv == /\ Headed /\ Listening /\ Wired /\ Housed /\ Direct /\ RearOfFeed /\ NoGap
<1>0. Steadfast /\ "ambiguous" \notin FeedEvents
  BY DEF Steadfast
<1>1. Init => Inv
  <2>. SUFFICES ASSUME Init PROVE Inv
    OBVIOUS
  <2>1. Headed /\ TypeOK
    BY HeadedInit DEF Headed
  <2>2. Listening /\ Wired /\ Housed /\ NoGap
    BY DEF Init, FeedInit, NoRequest, Ended, Listening, Wired, Housed, NoGap, Watching
  <2>3. Direct
    BY <2>1 DEF Init, FeedInit, Direct, Broadcaster
  <2>4. RearOfFeed
    BY EmptySeq, ConcatEmptySeq DEF Init, FeedInit, RearOfFeed, Rear
  <2>. QED  BY <2>1, <2>2, <2>3, <2>4
<1>2. Inv /\ [Next]_vars => Inv'
  <2>. SUFFICES ASSUME Inv, [Next]_vars PROVE Inv'
    OBVIOUS
  <2>1. TypeOK /\ FeedType /\ Placed
    BY DEF Headed, TypeOK
  <2>2. Headed' /\ Listening'
    BY <1>0, <2>1, HeadedStep, ListeningStep
  <2>3. Wired' /\ Housed' /\ Direct'
    BY <1>0, <2>1, WiredStep, HousedStep, DirectStep
  <2>4. RearOfFeed' /\ NoGap'
    BY <1>0, <2>1, RearStep, NoGapStep
  <2>. QED  BY <2>2, <2>3, <2>4
<1>3. Inv => FeedInOrder
  <2>. SUFFICES ASSUME Inv, NEW w \in Socket, Watching(w), handle[HomeOf[w]]
                PROVE  /\ IsSuffix(Coming(w), feed[HomeOf[w]])
                       /\ Len(Coming(w)) >= Len(Owed(w))
    BY DEF FeedInOrder
  <2>1. PICK p \in Seq(Trace) : Len(p) <= joined[w] /\ feed[HomeOf[w]] = p \o Coming(w)
    BY DEF NoGap, Behind
  <2>2. /\ Coming(w) \in Seq(Trace) /\ feed[HomeOf[w]] \in Seq(Trace) /\ joined[w] \in Nat
    BY SendingType DEF Headed, TypeOK
  <2>3. /\ IsSuffix(Coming(w), p \o Coming(w))
        /\ Len(p \o Coming(w)) = Len(p) + Len(Coming(w))
    BY <2>2, RearIsSuffix, Zenon
  <2>4. /\ Len(Owed(w)) = IF joined[w] + 1 <= Len(feed[HomeOf[w]])
                           THEN Len(feed[HomeOf[w]]) - joined[w] ELSE 0
    BY <2>2, SubSeqProperties DEF Owed
  <2>5. Len(p) \in Nat /\ Len(Coming(w)) \in Nat /\ Len(feed[HomeOf[w]]) \in Nat
    BY <2>2
  <2>. QED  BY <2>1, <2>2, <2>3, <2>4, <2>5
<1>. QED  BY <1>1, <1>2, <1>3, PTL DEF Spec
=============================================================================
