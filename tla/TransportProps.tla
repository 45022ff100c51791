---------------------------- MODULE TransportProps ----------------------------
(***************************************************************************)
(* What the delivery pipeline of the SDK must and must not do.             *)
(***************************************************************************)
EXTENDS Transport

Steps == {"idle", "send", "spill", "write", "loop", "get", "post", "read",
          "sweep", "clear", "flush", "again", "done"}

(* Every variable has its type, and the in-memory queue keeps its bound.   *)
TypeOK ==
  /\ data \in [Path -> Payload \cup {None, Blank}]
  /\ older \subseteq Path \X Path
  /\ lock \in [Client -> Path \cup {None}]
  /\ queue \in [Client -> Seq(Payload \cup {Stop})]
  /\ \A c \in Client : Len(queue[c]) <= Capacity
  /\ status \in [Client -> {"none", "up", "closed", "dead"}]
  /\ current \in [Proc -> Client \cup {None}]
  /\ disabled \in [Proc -> BOOLEAN]
  /\ thread \in [Client -> [Thread ->
                   [pc : Steps, item : Payload \cup {None}, failed : Nat]]]
  /\ path \in [Client -> Path \cup {None}]
  /\ serverUp \in BOOLEAN
  /\ copies \in [Payload -> 0..2]
  /\ refused \subseteq Payload
  /\ sent \subseteq Payload
  /\ dropped \subseteq Payload

(***************************************************************************)
(* Where a payload is.                                                     *)
(***************************************************************************)
OnDisk(p) == \E f \in Path : data[f] = p
InQueue(p, c) == \E i \in DOMAIN queue[c] : queue[c][i] = p
InHand(p, c) == \E t \in Thread : Held(c, t) = p
Settled(p) == copies[p] > 0 \/ p \in refused

(* Somebody is going to look at it again. *)
Served(c) == Alive(c) /\ thread[c]["worker"].pc # "done"
Live(p) ==
  \/ OnDisk(p)
  \/ \E c \in Client : \/ Alive(c) /\ InHand(p, c)
                       \/ Served(c) /\ InQueue(p, c)

(***************************************************************************)
(* A payload given to emit_trace is never lost track of: it is in some     *)
(* client's memory or on disk, or the backend has answered it, or the SDK  *)
(* has discarded it where the code discards (disabled, over budget, an     *)
(* I/O error, a file unlinked under its writer).                           *)
(***************************************************************************)
Conservation ==
  \A p \in sent : \/ OnDisk(p) \/ Settled(p) \/ p \in dropped
                  \/ \E c \in Client : InQueue(p, c) \/ InHand(p, c)

(***************************************************************************)
(* With one client that is neither closed nor killed, and without a full   *)
(* disk, whatever the backend does a payload is still going to be posted   *)
(* until the backend has answered it (_post_with_retries, enqueue,         *)
(* _flush_disk_once, and the rotation of what could not be flushed).       *)
(***************************************************************************)
NoLoss == \A p \in sent : Live(p) \/ Settled(p)

(***************************************************************************)
(* A payload is lost only where something ends, and only what was in its   *)
(* memory: a worker with the payload in its queue, a process with it in a  *)
(* queue or a hand, or it is put into the queue of a client whose worker   *)
(* has ended.  Closes, restarts, the races of the stop flag with posts and *)
(* segments and the switch of recording lose nothing else, but for what    *)
(* the SDK discards (client.py:107, client.py:282, client.py:311).         *)
(***************************************************************************)
LossesAtEnds ==
  [][\A p \in sent : Live(p) =>
       \/ Live(p)' \/ Settled(p)' \/ p \in dropped'
       \/ \E c \in Client :
            \/ Served(c) /\ ~Served(c)' /\ InQueue(p, c)
            \/ Alive(c) /\ ~Alive(c)' /\ InHand(p, c)
            \/ Alive(c) /\ ~Served(c)' /\ InHand(p, c) /\ InQueue(p, c)']_vars

(***************************************************************************)
(* A backend that stores nothing when it reports an error gets a payload   *)
(* once from a client that has the directory to itself: the hand-overs     *)
(* from queue to worker to disk to flusher and back never leave a second   *)
(* copy behind.                                                            *)
(***************************************************************************)
NoDuplicate == \A p \in Payload : copies[p] <= 1

(***************************************************************************)
(* Whatever the backend stores without saying so, and however often a post *)
(* is repeated, a client that has the directory to itself has a payload in *)
(* one place: in a file, at one turn of its queue, or in the hand of one   *)
(* thread (client.py:187-192 and 305-313).  A segment whose payload the    *)
(* flusher holds is the one it is about to remove.                         *)
(***************************************************************************)
InFlush(f, p) == \E c \in Client : path[c] = f /\ Held(c, "flusher") = p

Places(p) ==
  {<<"file", f>> : f \in {g \in Path : data[g] = p /\ ~InFlush(g, p)}}
  \cup {<<"turn", x[1], x[2]>> : x \in
          {y \in Client \X (1 .. Capacity) :
             /\ Alive(y[1]) /\ y[2] <= Len(queue[y[1]])
             /\ queue[y[1]][y[2]] = p}}
  \cup {<<"hand", x[1], x[2]>> : x \in
          {y \in Client \X Thread : Alive(y[1]) /\ Held(y[1], y[2]) = p}}

OnePlace == \A p \in Payload : \A x, y \in Places(p) : x = y

(***************************************************************************)
(* The directory never holds more than its budget and one payload for each *)
(* client that writes to it (enqueue prunes before it writes).             *)
(***************************************************************************)
DiskBudget ==
  MaxFiles > 0 =>
    Cardinality(Written(Files)) <= MaxFiles + Cardinality(Client)

(***************************************************************************)
(* A written segment leaves the directory only when its payload has been   *)
(* answered, or is in the hands of the flusher that will enqueue it again, *)
(* or is discarded by a prune.                                             *)
(***************************************************************************)
SegmentsLeaveSettled ==
  [][\A f \in Path :
       data[f] \in Payload /\ data'[f] = None =>
         \/ Settled(data[f]) \/ data[f] \in dropped'
         \/ \E c \in Client : Alive(c) /\ Held(c, "flusher")' = data[f]]_vars

(***************************************************************************)
(* The "durable on-disk queue" of queue.py: a payload that was on disk     *)
(* stays on disk, or with the flusher, until the backend has answered it.  *)
(***************************************************************************)
Spooled(p) == OnDisk(p) \/ \E c \in Client : Alive(c) /\ Held(c, "flusher") = p

DurableQueue ==
  [][\A p \in Payload : Spooled(p) => Spooled(p)' \/ Settled(p)']_vars

(***************************************************************************)
(* What flush gives an application with one thread: when it returns before *)
(* its timeout, a payload sent before is answered, on disk, or one of the  *)
(* two that the daemon threads are working on (client.py:86 promises more: *)
(* that the worker has finished).                                          *)
(***************************************************************************)
FlushLeavesInFlight ==
  [][\A c \in Client, t \in App :
       thread[c][t].pc = "again" /\ thread'[c][t].pc = "idle" =>
         \A p \in sent : \/ Settled(p) \/ OnDisk(p)
                         \/ \E d \in Daemon : Held(c, d) = p]_vars

(***************************************************************************)
(* Once the backend stays up, every payload of a client that is not closed *)
(* and that the backend does not choke on is answered, even behind one it  *)
(* always answers with a 5xx: a segment that could not be flushed goes to  *)
(* the end of the line.                                                    *)
(***************************************************************************)
NeverEnded == \A c \in Client : status[c] \in {"none", "up"}

EventuallySettled ==
  <>[]serverUp /\ []NeverEnded =>
    \A p \in Payload \ Poison : p \in sent ~> Settled(p)

(***************************************************************************)
(* After close, reset_client or configure the daemon threads of the client *)
(* end, whatever they were doing and whatever the backend does.            *)
(***************************************************************************)
ClosedStops ==
  \A c \in Client :
    status[c] = "closed" ~>
      \/ status[c] = "dead"
      \/ \A d \in Daemon : thread[c][d].pc = "done"

(***************************************************************************)
(* The pipeline implements Delivery.                                       *)
(***************************************************************************)
Fate(p) ==
  IF p \notin sent THEN "unsent"
  ELSE IF copies[p] > 0 THEN "stored"
  ELSE IF p \in refused THEN "refused"
  ELSE IF Live(p) THEN "pending" ELSE "lost"

Fates == [p \in Payload |-> Fate(p)]

(* Where nothing can be lost: pending until the backend has answered. *)
Promise == INSTANCE Delivery WITH fate <- Fates
KeepsPromise == Promise!DeliverySpec
=============================================================================
