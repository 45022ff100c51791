------------------------------ MODULE LiveFeed ------------------------------
(***************************************************************************)
(* The live feed of the backend (src/backend/app/live.py): each replica of *)
(* the API keeps the WebSockets of the browsers connected to it, publishes *)
(* traces on a Redis channel, and relays what the channel delivers to its  *)
(* WebSockets.  Without Redis a replica sends to its own WebSockets only.  *)
(*                                                                         *)
(* broadcast_trace and the listener are coroutines: they give way at every *)
(* publish and at every send, so a broadcast to many WebSockets runs       *)
(* interleaved with connects, disconnects and other broadcasts.            *)
(*                                                                         *)
(* Redis (external): a message goes to the replicas subscribed when it is  *)
(* published, in the order of the publishes.                               *)
(***************************************************************************)
EXTENDS Naturals, Sequences

CONSTANTS
  Replica,    \* processes of the API
  Socket,     \* WebSocket connections
  HomeOf,     \* the replica a connection is made to
  Slow,       \* those whose browser may stay without reading: a send to it
              \*   may wait for ever
  Trace,      \* traces
  Attempts,   \* posts of a trace its client makes at most
  None,       \* no trace
  RedisUrl,   \* settings.redis_url is set
  FeedEvents  \* what the environment does to the feed in this instance

(* The posts of the traces, each with its own call of broadcast_trace. *)
Request == Trace \X (1..Attempts)
TraceOf(i) == i[1]

ASSUME FeedConstants ==
  /\ HomeOf \in [Socket -> Replica]
  /\ Slow \subseteq Socket
  /\ Attempts \in Nat \ {0}
  /\ Request \cap Replica = {}
  /\ None \notin Trace \cup Replica
  /\ RedisUrl \in BOOLEAN
  /\ FeedEvents \subseteq {"leave", "redis", "ambiguous"}

VARIABLES
  running,      \* the replicas that are up
  handle,       \* handle[r]: _redis of replica r is set
  listener,     \* listener[r]: "none", "starting", "subscribed", "crashed"
  inbox,        \* inbox[r]: published messages r has not relayed yet
  connections,  \* the WebSockets in _connections of their replica
  handler,      \* handler[w]: the live_feed coroutine of w: "none",
                \*   "serving", "ended"
  gone,         \* the WebSockets whose browser has left
  cast,         \* cast[b]: a _broadcast_local in progress: its trace, the
                \*   WebSockets it has still to send to, those that failed
  received,     \* received[w]: the traces the browser of w has been sent
  redisUp,      \* Redis answers
  feed,         \* history: feed[r]: the traces broadcast that r owes its
                \*   WebSockets
  joined,       \* history: joined[w]: Len(feed[r]) when w connected
  doubtful      \* history: the requests whose publish raised after Redis had
                \*   taken the message

feedVars == <<running, handle, listener, inbox, connections, handler, gone,
              cast, received, redisUp, feed, joined, doubtful>>
replicas == <<running, handle, listener>>
sockets == <<connections, handler, gone>>
history == <<feed, joined, doubtful>>

Broadcaster == Request \cup Replica
NoCast == [trace |-> None, todo |-> {}, stale |-> {}]

FeedInit ==
  /\ running = {}
  /\ handle = [r \in Replica |-> FALSE]
  /\ listener = [r \in Replica |-> "none"]
  /\ inbox = [r \in Replica |-> <<>>]
  /\ connections = {}
  /\ handler = [w \in Socket |-> "none"]
  /\ gone = {}
  /\ cast = [b \in Broadcaster |-> NoCast]
  /\ received = [w \in Socket |-> <<>>]
  /\ redisUp \in IF "redis" \in FeedEvents THEN BOOLEAN ELSE {RedisUrl}
  /\ feed = [r \in Replica |-> <<>>]
  /\ joined = [w \in Socket |-> 0]
  /\ doubtful = {}

(***************************************************************************)
(* start, during the start-up of the process: a ping decides once whether  *)
(* this replica uses Redis at all.                                         *)
(***************************************************************************)
Listens(r, uses) == listener' = [listener EXCEPT ![r] = IF uses THEN "starting" ELSE "none"]

(* Mutated form: _redis is not reset to None when the ping fails. *)
KeepsHandle(r) ==
  /\ handle' = [handle EXCEPT ![r] = RedisUrl]
  /\ Listens(r, RedisUrl /\ redisUp)

UseRedis(r) ==
  /\ handle' = [handle EXCEPT ![r] = RedisUrl /\ redisUp]
  /\ Listens(r, RedisUrl /\ redisUp)

Start(r) ==
  /\ r \notin running
  /\ running' = running \cup {r}
  /\ UseRedis(r)
  /\ UNCHANGED <<inbox, sockets, cast, received, redisUp, history>>

(* _redis_listener: subscribe, or crash for good. *)
Subscribe(r) ==
  /\ listener[r] = "starting" /\ redisUp
  /\ listener' = [listener EXCEPT ![r] = "subscribed"]
  /\ UNCHANGED <<running, handle, inbox, sockets, cast, received, redisUp, history>>

ListenerCrash(r) ==
  /\ listener[r] \in {"starting", "subscribed"} /\ ~redisUp
  /\ cast[r] = NoCast
  /\ listener' = [listener EXCEPT ![r] = "crashed"]
  /\ inbox' = [inbox EXCEPT ![r] = <<>>]
  /\ UNCHANGED <<running, handle, sockets, cast, received, redisUp, history>>

(* Mutated form: broadcasts iterate over the set itself and raise when it grows. *)
Breaks(w) ==
  /\ connections' = connections \cup {w}
  /\ cast' = [b \in Broadcaster |->
       IF \E v \in cast[b].todo : HomeOf[v] = HomeOf[w] THEN NoCast ELSE cast[b]]

(* live_feed: connect, and at the end the finally clause that disconnects. *)
AddConnection(w) == connections' = connections \cup {w} /\ UNCHANGED cast

Connect(w) ==
  /\ HomeOf[w] \in running /\ handler[w] = "none"
  /\ handler' = [handler EXCEPT ![w] = "serving"]
  /\ AddConnection(w)
  /\ joined' = [joined EXCEPT ![w] = Len(feed[HomeOf[w]])]
  /\ UNCHANGED <<replicas, inbox, gone, received, redisUp, feed, doubtful>>

(* Mutated form: without the finally clause. *)
EndsConnected(w) ==
  /\ handler' = [handler EXCEPT ![w] = "ended"]
  /\ UNCHANGED connections

EndHandler(w) ==
  /\ handler' = [handler EXCEPT ![w] = "ended"]
  /\ connections' = connections \ {w}

Disconnect(w) ==
  /\ handler[w] = "serving" /\ w \in gone
  /\ EndHandler(w)
  /\ UNCHANGED <<replicas, inbox, gone, cast, received, redisUp, history>>

PeerLeaves(w) ==
  /\ "leave" \in FeedEvents
  /\ handler[w] = "serving" /\ w \notin gone
  /\ gone' = gone \cup {w}
  /\ UNCHANGED <<replicas, inbox, connections, handler, cast, received, redisUp, history>>

(***************************************************************************)
(* _broadcast_local: over a copy of the set, one send after the other; the *)
(* WebSockets whose send failed are discarded at the end.                  *)
(***************************************************************************)
Local(b, r, t) ==
  cast' = [cast EXCEPT ![b] =
             [trace |-> t, todo |-> {w \in connections : HomeOf[w] = r}, stale |-> {}]]

(* Mutated form: the first failing send ends the broadcast. *)
FailureEnds(b, w) == cast' = [cast EXCEPT ![b].todo = {}, ![b].stale = {w}]

FailureNoted(b, w) ==
  cast' = [cast EXCEPT ![b].todo = @ \ {w}, ![b].stale = @ \cup {w}]

(* Mutated form: a send that fails is tried again. *)
SendAgain(b, w) ==
  /\ w \in cast[b].todo /\ w \notin gone
  /\ received' = [received EXCEPT ![w] = Append(@, cast[b].trace)]
  /\ cast' = [cast EXCEPT ![b].todo = @ \ {w}]
  /\ UNCHANGED <<replicas, inbox, sockets, redisUp, history>>

(* A send to a browser that has left fails, or succeeds and is lost. *)
Send(b, w) ==
  /\ w \in cast[b].todo
  /\ \/ /\ w \notin gone
        /\ received' = [received EXCEPT ![w] = Append(@, cast[b].trace)]
        /\ cast' = [cast EXCEPT ![b].todo = @ \ {w}]
     \/ /\ w \in gone
        /\ FailureNoted(b, w) \/ cast' = [cast EXCEPT ![b].todo = @ \ {w}]
        /\ UNCHANGED received
  /\ UNCHANGED <<replicas, inbox, sockets, redisUp, history>>

EndLocal(b) ==
  /\ cast[b].trace # None /\ cast[b].todo = {}
  /\ connections' = connections \ cast[b].stale
  /\ cast' = [cast EXCEPT ![b] = NoCast]
  /\ UNCHANGED <<replicas, inbox, handler, gone, received, redisUp, history>>

(* The listener takes the next message and broadcasts it. *)
Relay(r) ==
  /\ listener[r] = "subscribed" /\ inbox[r] # <<>> /\ cast[r] = NoCast
  /\ Local(r, r, Head(inbox[r]))
  /\ inbox' = [inbox EXCEPT ![r] = Tail(@)]
  /\ UNCHANGED <<replicas, sockets, received, redisUp, history>>

(***************************************************************************)
(* broadcast_trace by request i on replica r: what has been published is   *)
(* not broadcast locally; what could not be is.  A publish may raise after *)
(* Redis has taken the message ("ambiguous").                              *)
(***************************************************************************)
Deliver(t) ==
  inbox' = [r \in Replica |->
              IF listener[r] = "subscribed" THEN Append(inbox[r], t) ELSE inbox[r]]

(* Mutated form: the return after the publish is missing. *)
AndLocally(i, r, t) == Deliver(t) /\ Local(i, r, t)
Published(i, r, t) == Deliver(t) /\ UNCHANGED cast

(***************************************************************************)
(* live.py:4-7: every trace goes to the connected WebSockets, and to those *)
(* of every replica when Redis is reachable.  A replica that has not yet   *)
(* subscribed since its start is not held to it.                           *)
(***************************************************************************)
Promise(r, t) ==
  LET shared == handle[r] /\ redisUp
      Owes(q) == IF shared THEN listener[q] \notin {"none", "starting"} ELSE q = r
  IN  /\ feed' = [q \in Replica |-> IF Owes(q) THEN Append(feed[q], t) ELSE feed[q]]
      /\ UNCHANGED doubtful

(* After a publish that raises, though Redis has taken the message, the    *)
(* replica relays the trace and broadcasts it as well.                     *)
Both(i, r, t) ==
  /\ Deliver(t) /\ Local(i, r, t)
  /\ feed' = [q \in Replica |->
       feed[q] \o (IF listener[q] \notin {"none", "starting"} THEN <<t>> ELSE <<>>)
               \o (IF q = r THEN <<t>> ELSE <<>>)]
  /\ doubtful' = doubtful \cup {i}

Broadcast(i, r, t) ==
  /\ \/ handle[r] /\ redisUp /\ Published(i, r, t) /\ Promise(r, t)
     \/ handle[r] /\ redisUp /\ "ambiguous" \in FeedEvents /\ Both(i, r, t)
     \/ (~handle[r] \/ ~redisUp) /\ Local(i, r, t) /\ UNCHANGED inbox /\ Promise(r, t)
  /\ UNCHANGED <<replicas, sockets, received, redisUp, joined>>

(* The process ends with everything in it, its requests Ended included. *)
Halt(r, Ended) ==
  /\ r \in running
  /\ running' = running \ {r}
  /\ handle' = [handle EXCEPT ![r] = FALSE]
  /\ listener' = [listener EXCEPT ![r] = "none"]
  /\ inbox' = [inbox EXCEPT ![r] = <<>>]
  /\ connections' = {w \in connections : HomeOf[w] # r}
  /\ handler' = [w \in Socket |->
                   IF HomeOf[w] = r /\ handler[w] = "serving" THEN "ended" ELSE handler[w]]
  /\ cast' = [b \in Broadcaster |-> IF b \in Ended \cup {r} THEN NoCast ELSE cast[b]]
  /\ UNCHANGED <<gone, received, redisUp, history>>

RedisSwitch ==
  /\ "redis" \in FeedEvents
  /\ redisUp' = ~redisUp
  /\ UNCHANGED <<replicas, inbox, sockets, cast, received, history>>

(* What the feed does on its own. *)
Feed ==
  \/ \E r \in Replica : Start(r) \/ Subscribe(r) \/ ListenerCrash(r) \/ Relay(r)
  \/ \E w \in Socket : Connect(w) \/ Disconnect(w) \/ PeerLeaves(w)
  \/ \E b \in Broadcaster, w \in Socket : Send(b, w)
  \/ \E b \in Broadcaster : EndLocal(b)
  \/ RedisSwitch
=============================================================================
