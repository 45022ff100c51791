----------------------------- MODULE IngestProps -----------------------------
(***************************************************************************)
(* What the ingest and the live feed promise.                              *)
(***************************************************************************)
EXTENDS Ingest, SequencesExt

Count(s, t) == Cardinality({k \in DOMAIN s : s[k] = t})

Cast == {NoCast} \cup [trace : Trace, todo : SUBSET Socket, stale : SUBSET Socket]

FeedType ==
  /\ running \subseteq Replica
  /\ handle \in [Replica -> BOOLEAN]
  /\ listener \in [Replica -> {"none", "starting", "subscribed", "crashed"}]
  /\ inbox \in [Replica -> Seq(Trace)]
  /\ connections \subseteq Socket
  /\ handler \in [Socket -> {"none", "serving", "ended"}]
  /\ gone \subseteq Socket
  /\ cast \in [Broadcaster -> Cast]
  /\ received \in [Socket -> Seq(Trace)]
  /\ redisUp \in BOOLEAN
  /\ feed \in [Replica -> Seq(Trace)]
  /\ joined \in [Socket -> Nat]
  /\ doubtful \subseteq Request
  /\ \A r \in Replica : handle[r] <=> listener[r] # "none"

IngestType ==
  /\ request \in [Request -> [pc : {"insert", "spans", "broadcast", "reply"} \cup Ended,
                              at : Replica \cup {None}, awaited : BOOLEAN]]
  /\ \A i \in Request : request[i].pc # "none" => request[i].at \in Replica
  /\ acked \subseteq Trace
  /\ traceRows \in [Trace -> Nat]
  /\ spanRows \in [Trace -> Nat]
  /\ storeUp \in BOOLEAN

(* Every variable keeps its type, and a replica publishes to Redis only if *)
(* it has a listener, be it one that has crashed.                          *)
TypeOK == FeedType /\ IngestType

Stored(t) == traceRows[t] > 0 /\ (HasSpans(t) => spanRows[t] > 0)
StoredTraces == {t \in Trace : Stored(t)}

(***************************************************************************)
(* A trace whose post was answered with 201 is in both tables: the SDK     *)
(* forgets it then.                                                        *)
(***************************************************************************)
AckedComplete == \A t \in acked : Stored(t)

(***************************************************************************)
(* A row of traces without the rows of its spans is the work of a request  *)
(* that is between its two inserts, or was never answered with a 201: the  *)
(* reader of a torn trace sees at most one such row per such request.      *)
(***************************************************************************)
MayBeTorn(i) == request[i].pc \in {"spans", "failed", "lost"}
TornByFailureOnly ==
  \A t \in Trace : HasSpans(t) =>
    /\ spanRows[t] <= traceRows[t]
    /\ traceRows[t] - spanRows[t] <= Cardinality({i \in Request : TraceOf(i) = t /\ MayBeTorn(i)})

(***************************************************************************)
(* Nothing is on its way to a browser, or in it, that is not stored: a     *)
(* click on a trace of the live feed finds it, with its spans.             *)
(***************************************************************************)
FeedAfterStore ==
  /\ \A r \in Replica : \A k \in DOMAIN inbox[r] : inbox[r][k] \in StoredTraces
  /\ \A b \in Broadcaster : cast[b].trace # None => cast[b].trace \in StoredTraces
  /\ \A w \in Socket : \A k \in DOMAIN received[w] : received[w][k] \in StoredTraces

(***************************************************************************)
(* A browser that is still there, and has nothing left on its way to it,   *)
(* has every trace its replica owed it since it connected: a send that     *)
(* fails, a connect or disconnect in the middle of a broadcast and another *)
(* broadcast at the same time take nothing from it.                        *)
(***************************************************************************)
Watching(w) == handler[w] = "serving" /\ w \notin gone
Owed(w) == SubSeq(feed[HomeOf[w]], joined[w] + 1, Len(feed[HomeOf[w]]))
Settled(w) == inbox[HomeOf[w]] = <<>> /\ \A b \in Broadcaster : w \notin cast[b].todo
FeedDelivered ==
  \A w \in Socket : Watching(w) /\ Settled(w) =>
    \A t \in Trace : Count(received[w], t) >= Count(Owed(w), t)

(***************************************************************************)
(* While Redis stays reachable every browser of a replica that uses it has *)
(* what was published, in the order of the publishes, once, and without a  *)
(* gap: what it has been sent, is being sent and is yet to be relayed is   *)
(* the end of its replica's feed, from before it connected on.             *)
(***************************************************************************)
Sending(w) == LET r == HomeOf[w] IN IF w \in cast[r].todo THEN <<cast[r].trace>> ELSE <<>>
Coming(w) == received[w] \o Sending(w) \o inbox[HomeOf[w]]
FeedInOrder ==
  \A w \in Socket : Watching(w) /\ handle[HomeOf[w]] =>
    /\ IsSuffix(Coming(w), feed[HomeOf[w]])
    /\ Len(Coming(w)) >= Len(Owed(w))

(***************************************************************************)
(* A browser has a trace at most once for each post of it that was         *)
(* broadcast, with Redis or without it, and on whichever replica: a post   *)
(* that is repeated while the first one runs on shows again, a publish     *)
(* that failed does not.  Only one that raised after Redis had taken the   *)
(* message shows a second time, to the browsers of its own replica.        *)
(***************************************************************************)
Broadcasted(t) == {i \in Request : TraceOf(i) = t /\ request[i].pc \in {"reply", "done", "lost"}}
Doubled(t) == {i \in doubtful : TraceOf(i) = t}
FeedOnce ==
  \A w \in Socket, t \in Trace :
    Count(received[w], t) <= Cardinality(Broadcasted(t)) + Cardinality(Doubled(t))

(***************************************************************************)
(* Whatever the broadcasts that hold a copy of the set do at their end,    *)
(* the WebSockets of a replica are exactly those being served, but for     *)
(* those a send has found gone.                                            *)
(***************************************************************************)
ConnectionsServed ==
  /\ \A w \in connections : handler[w] = "serving"
  /\ \A w \in Socket : Watching(w) => w \in connections

(***************************************************************************)
(* A client that waits is answered, unless its own request broadcasts to a *)
(* browser that stays without reading: browsers that have left, those that *)
(* hold up the listener or other broadcasts, and a Redis or a ClickHouse   *)
(* that fails do not leave it waiting.                                     *)
(***************************************************************************)
Answered ==
  \A i \in Request : request[i].awaited ~> ~request[i].awaited \/ Waiting(i) # {}

(* A browser that left does not stay in the set of connections. *)
GoneLeaves == \A w \in Socket : w \in gone ~> w \notin connections

=============================================================================
