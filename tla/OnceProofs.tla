------------------------------- MODULE OnceProofs -------------------------------
(***************************************************************************)
(* What a client that has the queue directory to itself does with a        *)
(* payload: at any time it is in one place, so the backend gets it once;   *)
(* and what has been spilled stays on disk until it has been answered.     *)
(***************************************************************************)
EXTENDS DeliveryProofs

USE DiskConstants, TransportConstants

(***************************************************************************)
(* A backend that stores nothing when it reports an error; what such a     *)
(* backend has answered is final, as far as the client can know.           *)
(***************************************************************************)
Honest == "ambiguous" \notin Events
Final(p) == Honest /\ Settled(p)

(***************************************************************************)
(* The places of payload p in client c.                                    *)
(***************************************************************************)
OneFile(p) == \A f, g \in Path : data[f] = p /\ data[g] = p => f = g
OneTurn(c, p) ==
  \A i, j \in DOMAIN queue[c] : queue[c][i] = p /\ queue[c][j] = p => i = j
OneHand(c, p) == \A t, u \in Thread : Held(c, t) = p /\ Held(c, u) = p => t = u

(* In the queue it is nowhere else, and the backend has not answered it.   *)
QueuedOnly(c, p) == InQueue(p, c) => ~OnDisk(p) /\ ~InHand(p, c) /\ ~Final(p)

(* What a thread holds has not been answered.                              *)
HeldOpen(c, p) == InHand(p, c) => ~Final(p)

(* It is both held and on disk only while the flusher posts the segment it *)
(* has read, or is about to remove it.                                     *)
ReadOnce(c, p) ==
  \A f \in Path, t \in Thread : data[f] = p /\ Held(c, t) = p =>
    t = "flusher" /\ thread[c][t].pc \in {"post", "clear"} /\ path[c] = f

(* An answered payload is on disk only until the flusher removes it.       *)
SettledGoes(c, p) ==
  \A f \in Path : data[f] = p /\ Final(p) =>
    thread[c]["flusher"].pc = "clear" /\ path[c] = f

Once(c, p) ==
  /\ OneFile(p) /\ OneTurn(c, p) /\ OneHand(c, p)
  /\ QueuedOnly(c, p) /\ HeldOpen(c, p)
  /\ ReadOnce(c, p) /\ SettledGoes(c, p)

FinalStays == \A p \in Payload : Final(p)' <=> Final(p)

(* A killed client is not looked at: it never posts again.                 *)
OncePlaced ==
  \A c \in Client, p \in Payload : status[c] # "dead" => Once(c, p)

(***************************************************************************)
(* A thread moves on, and p stays where it is, or vanishes from the disk   *)
(* or the queue.                                                           *)
(***************************************************************************)
LEMMA MoveOnce ==
  ASSUME ThreadType, NEW c \in Client, NEW t \in Thread,
         NEW pc \in Steps, NEW x \in Payload \cup {None}, NEW n \in Nat,
         Go(c, t, pc, x, n),
         NEW p \in Payload, Once(c, p),
         Held(c, t) = p <=> x = p,
         \A f \in Path : data'[f] = p => data[f] = p,
         OneTurn(c, p)', InQueue(p, c)' => InQueue(p, c),
         Final(p)' <=> Final(p),
         \/ t # "flusher" /\ path'[c] = path[c]
         \/ ReadOnce(c, p)' /\ SettledGoes(c, p)'
  PROVE  Once(c, p)'
<1>1. /\ thread'[c][t] = [pc |-> pc, item |-> x, failed |-> n]
      /\ \A d \in Client, u \in Thread : d # c \/ u # t => thread'[d][u] = thread[d][u]
  BY GoSteps
<1>2. \A u \in Thread : Held(c, u)' = p <=> Held(c, u) = p
  BY <1>1 DEF Held
<1>3. OneFile(p)' /\ OneHand(c, p)'
  BY <1>2 DEF Once, OneFile, OneHand
<1>4. (OnDisk(p)' => OnDisk(p)) /\ (InHand(p, c)' <=> InHand(p, c))
  BY <1>2 DEF OnDisk, InHand
<1>5. QueuedOnly(c, p)' /\ HeldOpen(c, p)'
  BY <1>4 DEF Once, QueuedOnly, HeldOpen
<1>6. CASE t # "flusher" /\ path'[c] = path[c]
  <2>1. thread'[c]["flusher"] = thread[c]["flusher"]
    BY <1>1, <1>6, Daemons
  <2>2. SettledGoes(c, p)'
    BY <1>6, <2>1 DEF Once, SettledGoes
  <2>3. ReadOnce(c, p)'
    BY <1>2, <1>6, <2>1 DEF Once, ReadOnce
  <2>. QED  BY <1>3, <1>5, <2>2, <2>3 DEF Once
<1>. QED  BY <1>3, <1>5, <1>6 DEF Once

(* A payload that no longer is in a hand, on disk or answered, and at most *)
(* once in the queue.                                                      *)
LEMMA QueuedOnce ==
  ASSUME NEW c \in Client, NEW p \in Payload,
         OneTurn(c, p)', ~OnDisk(p)', ~InHand(p, c)', InQueue(p, c)' => ~Final(p)'
  PROVE  Once(c, p)'
BY DEF Once, OneFile, OneHand, OnDisk, InHand, QueuedOnly, HeldOpen, ReadOnce, SettledGoes

(* A payload that is in one hand and nowhere else, and is not answered.    *)
LEMMA HandOnce ==
  ASSUME NEW c \in Client, NEW p \in Payload, NEW t \in Thread,
         \A u \in Thread : Held(c, u)' = p => u = t,
         ~InQueue(p, c)', ~OnDisk(p)', ~Final(p)'
  PROVE  Once(c, p)'
BY DEF Once, OneFile, OneTurn, OneHand, OnDisk, InQueue, InHand, QueuedOnly, HeldOpen,
       ReadOnce, SettledGoes

(* A payload that leaves the hand of a thread that has not got it from a   *)
(* segment is, for the moment, nowhere.                                    *)
LEMMA LeavesHand ==
  ASSUME ThreadType, NEW c \in Client, NEW t \in Thread,
         NEW pc \in Steps, NEW n \in Nat, Go(c, t, pc, None, n),
         NEW p \in Payload, Once(c, p), Held(c, t) = p,
         t # "flusher" \/ thread[c][t].pc \notin {"post", "clear"}
  PROVE  ~InHand(p, c)' /\ ~OnDisk(p) /\ ~InQueue(p, c) /\ ~Final(p)
<1>1. /\ thread'[c][t] = [pc |-> pc, item |-> None, failed |-> n]
      /\ \A d \in Client, u \in Thread : d # c \/ u # t => thread'[d][u] = thread[d][u]
  BY GoSteps
<1>2. Held(c, t)' = None /\ \A u \in Thread \ {t} : Held(c, u)' = Held(c, u)
  BY <1>1 DEF Held
<1>3. ~InHand(p, c)'
  <2>1. p # None
    BY DiskConstants
  <2>. QED  BY <1>2, <2>1 DEF InHand, Once, OneHand
<1>4. InHand(p, c)
  BY DEF InHand
<1>. QED  BY <1>3, <1>4 DEF Once, OnDisk, QueuedOnly, HeldOpen, ReadOnce

LEMMA SameOnce ==
  ASSUME NEW c \in Client, NEW p \in Payload
  PROVE  /\ UNCHANGED queue =>
              (OneTurn(c, p) <=> OneTurn(c, p)') /\ (InQueue(p, c) <=> InQueue(p, c)')
         /\ UNCHANGED <<copies, refused>> => (Final(p) <=> Final(p)')
         /\ UNCHANGED data => \A f \in Path : data'[f] = p => data[f] = p
         /\ UNCHANGED data => (OnDisk(p) <=> OnDisk(p)')
BY DEF OneTurn, InQueue, Final, Settled, OnDisk

LEMMA SameFinal == UNCHANGED <<copies, refused>> => FinalStays
BY DEF FinalStays, Final, Settled

MovesOnce(c) == \A p \in Payload : Once(c, p) => Once(c, p)'

(* A thread that is not the flusher moves on with what it holds, or drops it. *)
LEMMA PlainOnce ==
  ASSUME ThreadType, NEW c \in Client, NEW t \in Thread \ {"flusher"},
         NEW pc \in Steps, NEW n \in Nat, NEW x \in {None, Held(c, t)},
         Go(c, t, pc, x, n), UNCHANGED queue, FinalStays, path'[c] = path[c],
         \A f \in Path, p \in Payload : data'[f] = p => data[f] = p
  PROVE  MovesOnce(c)
<1>. SUFFICES ASSUME NEW p \in Payload, Once(c, p)
              PROVE  Once(c, p)'
  BY DEF MovesOnce
<1>0. Held(c, t) \in Payload \cup {None} /\ p # None
  BY HeldType, DiskConstants
<1>1. CASE Held(c, t) = p <=> x = p
  <2>1. OneTurn(c, p)' /\ (InQueue(p, c)' => InQueue(p, c)) /\ (Final(p)' <=> Final(p))
    BY SameOnce DEF Once, FinalStays
  <2>2. \A f \in Path : data'[f] = p => data[f] = p
    OBVIOUS
  <2>. QED  BY <1>0, <1>1, <2>1, <2>2, MoveOnce
<1>2. CASE Held(c, t) = p /\ x = None
  <2>1. ~InHand(p, c)' /\ ~OnDisk(p) /\ ~InQueue(p, c) /\ ~Final(p)
    BY <1>2, LeavesHand
  <2>2. ~OnDisk(p)' /\ OneTurn(c, p)' /\ ~InQueue(p, c)'
    BY <2>1, SameOnce DEF OnDisk, Once
  <2>. QED  BY <2>1, <2>2, QueuedOnce
<1>. QED  BY <1>0, <1>1, <1>2

LEMMA AppendOnce ==
  ASSUME ClientType, NEW c \in Client, NEW y \in Payload \cup {Stop},
         queue' = [queue EXCEPT ![c] = Append(@, y)],
         NEW p \in Payload, OneTurn(c, p), p = y => ~InQueue(p, c)
  PROVE  OneTurn(c, p)' /\ (InQueue(p, c)' => InQueue(p, c) \/ p = y)
<1>1. queue[c] \in Seq(Payload \cup {Stop}) /\ queue'[c] = Append(queue[c], y)
  BY DEF ClientType
<1>2. \A i \in DOMAIN queue'[c] :
        \/ i \in DOMAIN queue[c] /\ queue'[c][i] = queue[c][i]
        \/ i = Len(queue[c]) + 1 /\ queue'[c][i] = y
  BY <1>1, AppendProperties
<1>. QED  BY <1>2 DEF OneTurn, InQueue

LEMMA TailOnce ==
  ASSUME ClientType, NEW c \in Client, queue[c] # <<>>,
         queue' = [queue EXCEPT ![c] = Tail(@)],
         NEW p \in Payload, OneTurn(c, p)
  PROVE  OneTurn(c, p)' /\ (p = Head(queue[c]) => ~InQueue(p, c)')
<1>1. queue[c] \in Seq(Payload \cup {Stop}) /\ queue'[c] = Tail(queue[c])
  BY DEF ClientType
<1>2. /\ Len(queue[c]) \in Nat /\ DOMAIN queue[c] = 1..Len(queue[c])
      /\ Len(queue[c]) # 0 /\ Head(queue[c]) = queue[c][1]
  BY <1>1
<1>3. /\ Tail(queue[c]) \in Seq(Payload \cup {Stop})
      /\ Len(Tail(queue[c])) = Len(queue[c]) - 1
      /\ \A j \in 1..Len(Tail(queue[c])) : Tail(queue[c])[j] = queue[c][j + 1]
  BY <1>1, HeadTailProperties
<1>4. DOMAIN queue'[c] = 1..Len(queue'[c])
  BY <1>1, <1>3
<1>5. \A i \in DOMAIN queue'[c] :
        i \in Nat /\ i + 1 \in DOMAIN queue[c] /\ i + 1 # 1 /\ queue'[c][i] = queue[c][i + 1]
  <2>1. \A i \in 1..Len(Tail(queue[c])) :
          i \in Nat /\ i + 1 \in 1..Len(queue[c]) /\ i + 1 # 1
    BY <1>2, <1>3
  <2>. QED  BY <1>1, <1>2, <1>3, <1>4, <2>1
<1>6. 1 \in DOMAIN queue[c]
  BY <1>2
<1>7. OneTurn(c, p)'
  <2>. SUFFICES ASSUME NEW i \in DOMAIN queue'[c], NEW j \in DOMAIN queue'[c],
                       queue'[c][i] = p, queue'[c][j] = p
                PROVE  i = j
    BY DEF OneTurn
  <2>1. i + 1 = j + 1 /\ i \in Nat /\ j \in Nat
    BY <1>5 DEF OneTurn
  <2>. QED  BY <2>1
<1>8. p = Head(queue[c]) => ~InQueue(p, c)'
  BY <1>2, <1>5, <1>6 DEF OneTurn, InQueue
<1>. QED  BY <1>7, <1>8

(***************************************************************************)
(* The steps of the application threads and of the worker.                 *)
(***************************************************************************)
LEMMA QuietOnce ==
  ASSUME ThreadType, NEW c \in Client, NEW t \in Thread \ {"flusher"},
         NEW pc \in Steps, Go(c, t, pc, None, 0), OnlyThreads
  PROVE  MovesOnce(c)
<1>1. /\ UNCHANGED queue /\ FinalStays /\ path'[c] = path[c]
      /\ \A f \in Path, p \in Payload : data'[f] = p => data[f] = p
  BY SameFinal DEF OnlyThreads, clientVars, serverVars, diskVars
<1>. QED  BY <1>1, PlainOnce

LEMMA SendTraceOnce ==
  ASSUME Parts, NEW c \in Client, NEW t \in App, SendTrace(c, t)
  PROVE  MovesOnce(c)
<1>0. t \in Thread \ {"flusher"} /\ ClientType /\ ThreadType /\ thread[c][t].pc = "send"
  BY Daemons DEF Parts, SendTrace, At, Daemon
<1>1. Held(c, t) \in Payload
  BY <1>0, HeldType
<1>2. UNCHANGED <<data, copies, refused, path>>
  BY DEF SendTrace, serverVars, diskVars
<1>3. CASE UNCHANGED queue
  <2>1. PICK pc \in {"loop", "idle", "spill"}, x \in {None, Held(c, t)} : Go(c, t, pc, x, 0)
    <3>1. \A pc \in {"loop", "idle"} : pc \in {"loop", "idle", "spill"}
      OBVIOUS
    <3>. QED  BY <3>1 DEF SendTrace, Overflow, Return
  <2>2. pc \in Steps /\ path'[c] = path[c]
    BY <1>2 DEF Steps
  <2>. QED  BY <1>0, <1>2, <1>3, <2>1, <2>2, PlainOnce, SameFinal
<1>4. CASE queue' = [queue EXCEPT ![c] = Append(@, Held(c, t))] /\ Return(c, t)
  <2>1. PICK pc \in {"loop", "idle"} : Go(c, t, pc, None, 0)
    BY <1>4, GoReturn, <1>0
  <2>2. pc \in Steps /\ path'[c] = path[c]
    BY <1>2 DEF Steps
  <2>. SUFFICES ASSUME NEW p \in Payload, Once(c, p)
                PROVE  Once(c, p)'
    BY DEF MovesOnce
  <2>3. (Final(p)' <=> Final(p)) /\ (\A f \in Path : data'[f] = p => data[f] = p) /\ p # None
    BY <1>2, SameOnce, DiskConstants
  <2>4. Held(c, t) = p => ~InQueue(p, c)
    BY <1>0 DEF Once, QueuedOnly, InHand
  <2>5. OneTurn(c, p)' /\ (InQueue(p, c)' => InQueue(p, c) \/ p = Held(c, t))
    BY <1>0, <1>1, <1>4, <2>4, AppendOnce DEF Once
  <2>6. CASE Held(c, t) = p
    <3>1. ~InHand(p, c)' /\ ~OnDisk(p) /\ ~Final(p)
      BY <1>0, <2>1, <2>2, <2>6, LeavesHand
    <3>2. ~OnDisk(p)'
      BY <1>2, <3>1, SameOnce
    <3>. QED  BY <2>3, <2>5, <3>1, <3>2, QueuedOnce
  <2>7. CASE Held(c, t) # p
    BY <1>0, <2>1, <2>2, <2>3, <2>5, <2>7, MoveOnce
  <2>. QED  BY <2>6, <2>7
<1>. QED  BY <1>3, <1>4 DEF SendTrace

LEMMA WorkerGetOnce ==
  ASSUME Parts, IdleEmpty, NEW c \in Client, WorkerGet(c)
  PROVE  MovesOnce(c)
<1>0. /\ "worker" \in Thread \ {"flusher"} /\ ClientType /\ ThreadType
      /\ queue[c] # <<>> /\ queue' = [queue EXCEPT ![c] = Tail(@)]
      /\ UNCHANGED <<data, copies, refused>> /\ path'[c] = path[c]
  BY Daemons DEF Parts, WorkerGet, serverVars, diskVars
<1>1. Held(c, "worker") = None
  BY <1>0 DEF WorkerGet, At, IdleEmpty, Resting
<1>2. PICK pc \in {"done", "loop", "post"}, x \in {None, Head(queue[c])} :
        /\ Go(c, "worker", pc, x, 0)
        /\ x \in Payload \cup {None}
  <2>1. Head(queue[c]) \in Payload \cup {Stop}
    BY <1>0, HeadTailProperties DEF ClientType
  <2>2. Return(c, "worker") => Go(c, "worker", "loop", None, 0)
    BY DEF Return, Daemon
  <2>. QED  BY <2>1, <2>2 DEF WorkerGet
<1>. SUFFICES ASSUME NEW p \in Payload, Once(c, p)
              PROVE  Once(c, p)'
  BY DEF MovesOnce
<1>3. /\ (Final(p)' <=> Final(p)) /\ (\A f \in Path : data'[f] = p => data[f] = p)
      /\ (OnDisk(p)' <=> OnDisk(p)) /\ p # None
  BY <1>0, SameOnce, DiskConstants
<1>4. /\ OneTurn(c, p)' /\ (InQueue(p, c)' => InQueue(p, c))
      /\ (p = Head(queue[c]) => InQueue(p, c) /\ ~InQueue(p, c)')
  BY <1>0, TailFrom, TailOnce DEF Once
<1>5. pc \in Steps
  BY DEF Steps
<1>6. CASE x = p
  <2>1. ~OnDisk(p) /\ ~InHand(p, c) /\ ~Final(p) /\ ~InQueue(p, c)'
    BY <1>3, <1>4, <1>6 DEF Once, QueuedOnly
  <2>2. \A u \in Thread : Held(c, u)' = p => u = "worker"
    <3>1. /\ thread'[c]["worker"] = [pc |-> pc, item |-> x, failed |-> 0]
          /\ \A d \in Client, u \in Thread :
               d # c \/ u # "worker" => thread'[d][u] = thread[d][u]
      BY <1>0, <1>2, <1>5, GoSteps
    <3>. QED  BY <2>1, <3>1 DEF InHand, Held
  <2>. QED  BY <1>0, <1>3, <2>1, <2>2, HandOnce
<1>7. CASE x # p
  BY <1>0, <1>1, <1>2, <1>3, <1>4, <1>5, <1>7, MoveOnce
<1>. QED  BY <1>6, <1>7

(* A payload that is in one file and nowhere else, and is not answered.    *)
LEMMA FileOnce ==
  ASSUME NEW c \in Client, NEW p \in Payload, OneFile(p)',
         ~InHand(p, c)', ~InQueue(p, c)', ~Final(p)'
  PROVE  Once(c, p)'
BY DEF Once, OneTurn, OneHand, InQueue, InHand, QueuedOnly, HeldOpen, ReadOnce, SettledGoes

(* While a thread spills, what it holds is in its hand only.               *)
LEMMA SpillingOnce ==
  ASSUME ThreadType, NEW c \in Client, NEW t \in Thread,
         thread[c][t].pc \in {"spill", "write"},
         NEW pc \in Steps, NEW n \in Nat, NEW x \in {None, Held(c, t)}, Go(c, t, pc, x, n),
         UNCHANGED queue, FinalStays, path'[c] = path[c],
         NEW p \in Payload, Once(c, p), \A f \in Path : data'[f] = p => data[f] = p
  PROVE  Once(c, p)'
<1>0. Held(c, t) \in Payload \cup {None} /\ p # None
  BY HeldType, DiskConstants
<1>1. /\ thread'[c][t] = [pc |-> pc, item |-> x, failed |-> n]
      /\ \A d \in Client, u \in Thread : d # c \/ u # t => thread'[d][u] = thread[d][u]
  BY <1>0, GoSteps
<1>2. OneTurn(c, p)' /\ (InQueue(p, c)' => InQueue(p, c)) /\ (Final(p)' <=> Final(p))
  BY SameOnce DEF Once, FinalStays
<1>3. CASE Held(c, t) = p <=> x = p
  <2>1. ASSUME NEW f \in Path, NEW u \in Thread, data'[f] = p, thread'[c][u].item = p
        PROVE  u = "flusher" /\ thread'[c][u].pc \in {"post", "clear"} /\ path'[c] = f
    <3>1. Held(c, u) = p
      BY <1>1, <1>3, <2>1 DEF Held
    <3>2. u = "flusher" /\ thread[c][u].pc \in {"post", "clear"} /\ path[c] = f
      BY <2>1, <3>1 DEF Once, ReadOnce
    <3>. QED  BY <1>1, <3>2
  <2>2. ASSUME NEW f \in Path, data'[f] = p, Final(p)
        PROVE  thread'[c]["flusher"].pc = "clear" /\ path'[c] = f
    <3>1. thread[c]["flusher"].pc = "clear" /\ path[c] = f
      BY <2>2 DEF Once, SettledGoes
    <3>. QED  BY <1>1, <3>1, Daemons
  <2>3. ReadOnce(c, p)' /\ SettledGoes(c, p)'
    BY <1>2, <2>1, <2>2 DEF ReadOnce, SettledGoes, Held
  <2>. QED  BY <1>0, <1>2, <1>3, <2>3, MoveOnce
<1>4. CASE Held(c, t) = p /\ x = None
  <2>1. ~InHand(p, c)' /\ ~OnDisk(p) /\ ~InQueue(p, c) /\ ~Final(p)
    BY <1>4, LeavesHand
  <2>2. ~OnDisk(p)'
    BY <2>1 DEF OnDisk
  <2>. QED  BY <1>2, <2>1, <2>2, QueuedOnce
<1>. QED  BY <1>0, <1>3, <1>4

LEMMA SpillOnce ==
  ASSUME Parts, NEW c \in Client, NEW t \in Thread, Spill(c, t)
  PROVE  MovesOnce(c)
<1>0. /\ DiskType /\ ThreadType /\ thread[c][t].pc \in {"spill", "write"}
      /\ UNCHANGED queue /\ FinalStays /\ path'[c] = path[c]
  BY SameFinal
     DEF Parts, Spill, SpillOpen, SpillWrite, SpillError, At, clientVars, serverVars
<1>1. Held(c, t) \in Payload
  BY <1>0, HeldType
<1>. SUFFICES ASSUME NEW p \in Payload, Once(c, p)
              PROVE  Once(c, p)'
  BY DEF MovesOnce
<1>2. p # None /\ p # Blank
  BY DiskConstants
<1>3. CASE \E f \in Path, K \in SUBSET Files : SpillOpen(c, t, f, K)
  <2>1. PICK f \in Path, K \in SUBSET Files : SpillOpen(c, t, f, K)
    BY <1>3
  <2>2. \A g \in Path : data'[g] = p => data[g] = p
    BY <1>2, <2>1 DEF SpillOpen, Create, KeepOnly
  <2>3. Go(c, t, "write", Held(c, t), 0) /\ "write" \in Steps
    BY <2>1 DEF SpillOpen, Steps
  <2>. QED  BY <1>0, <2>2, <2>3, SpillingOnce
<1>4. CASE SpillWrite(c, t)
  <2>1. PICK pc \in {"loop", "idle"} : Go(c, t, pc, None, 0)
    BY <1>4, GoReturn DEF SpillWrite
  <2>2. pc \in Steps
    BY DEF Steps
  <2>3. \A g \in Path : data'[g] = data[g] \/ (g = lock[c] /\ data'[g] = Held(c, t))
    <3>1. data \in [Path -> Payload \cup {None, Blank}]
      BY <1>0 DEF DiskType
    <3>2. data' = data \/ data' = [data EXCEPT ![lock[c]] = Held(c, t)]
      BY <1>4 DEF SpillWrite, Fill
    <3>. QED  BY <3>1, <3>2
  <2>4. CASE Held(c, t) # p
    BY <1>0, <2>1, <2>2, <2>3, <2>4, SpillingOnce
  <2>5. CASE Held(c, t) = p
    <3>1. ~InHand(p, c)' /\ ~OnDisk(p) /\ ~InQueue(p, c) /\ ~Final(p)
      BY <1>0, <2>1, <2>2, <2>5, LeavesHand
    <3>2. OneFile(p)'
      BY <2>3, <3>1 DEF OneFile, OnDisk
    <3>3. ~InQueue(p, c)' /\ ~Final(p)'
      BY <1>0, <3>1, SameOnce DEF FinalStays
    <3>. QED  BY <3>1, <3>2, <3>3, FileOnce
  <2>. QED  BY <2>4, <2>5
<1>5. CASE \E K \in SUBSET Files : SpillError(c, t, K)
  <2>1. PICK K \in SUBSET Files : SpillError(c, t, K)
    BY <1>5
  <2>2. PICK pc \in {"loop", "idle"} : Go(c, t, pc, None, 0)
    BY <2>1, GoReturn DEF SpillError
  <2>3. pc \in Steps
    BY DEF Steps
  <2>4. \A g \in Path : data'[g] = p => data[g] = p
    BY <1>2, <2>1 DEF SpillError, CreateError, FillError, KeepOnly
  <2>. QED  BY <1>0, <2>2, <2>3, <2>4, SpillingOnce
<1>. QED  BY <1>3, <1>4, <1>5 DEF Spill

(***************************************************************************)
(* The steps of the flusher.                                               *)
(***************************************************************************)
LEMMA FlusherOnce ==
  ASSUME ThreadType, NEW c \in Client,
         NEW pc \in Steps, NEW x \in Payload \cup {None}, NEW n \in Nat,
         Go(c, "flusher", pc, x, n), UNCHANGED queue, FinalStays,
         NEW p \in Payload, Once(c, p), Held(c, "flusher") = p <=> x = p,
         \A f \in Path : data'[f] = p => data[f] = p,
         \A f \in Path : data'[f] = p /\ x = p => pc \in {"post", "clear"} /\ path'[c] = f,
         \A f \in Path : data'[f] = p /\ Final(p) => pc = "clear" /\ path'[c] = f
  PROVE  Once(c, p)'
<1>0. "flusher" \in Thread
  BY Daemons
<1>1. /\ thread'[c]["flusher"] = [pc |-> pc, item |-> x, failed |-> n]
      /\ \A d \in Client, u \in Thread :
           d # c \/ u # "flusher" => thread'[d][u] = thread[d][u]
  BY <1>0, GoSteps
<1>2. OneTurn(c, p)' /\ (InQueue(p, c)' => InQueue(p, c)) /\ (Final(p)' <=> Final(p))
  BY SameOnce DEF Once, FinalStays
<1>3. ASSUME NEW f \in Path, NEW u \in Thread, data'[f] = p, thread'[c][u].item = p
      PROVE  u = "flusher" /\ thread'[c][u].pc \in {"post", "clear"} /\ path'[c] = f
  <2>1. CASE u = "flusher"
    BY <1>1, <1>3, <2>1
  <2>2. CASE u # "flusher"
    <3>1. Held(c, u) = p
      BY <1>1, <1>3, <2>2 DEF Held
    <3>. QED  BY <1>3, <2>2, <3>1 DEF Once, ReadOnce
  <2>. QED  BY <2>1, <2>2
<1>4. ReadOnce(c, p)' /\ SettledGoes(c, p)'
  BY <1>1, <1>2, <1>3 DEF ReadOnce, SettledGoes, Held
<1>. QED  BY <1>0, <1>2, <1>4, MoveOnce

LEMMA FlusherReadOnce ==
  ASSUME Parts, Aux, NEW c \in Client, FlusherRead(c)
  PROVE  MovesOnce(c)
<1>0. /\ ThreadType /\ "flusher" \in Thread /\ thread[c]["flusher"].pc = "read" /\ Alive(c)
      /\ UNCHANGED <<queue, copies, refused, data>> /\ FinalStays
  BY Daemons, SameFinal DEF Parts, FlusherRead, At, clientVars, serverVars, diskVars
<1>1. Held(c, "flusher") = None /\ path[c] \in Path
  BY <1>0 DEF Aux, IdleEmpty, Resting, SegmentSeen, Seen
<1>. SUFFICES ASSUME NEW p \in Payload, Once(c, p)
              PROVE  Once(c, p)'
  BY DEF MovesOnce
<1>2. p # None /\ (\A f \in Path : data'[f] = p => data[f] = p)
  BY <1>0, DiskConstants
<1>3. \A f \in Path : data[f] = p => ~Final(p)
  BY <1>0 DEF Once, SettledGoes
<1>4. ASSUME NEW pc \in Steps, NEW x \in Payload \cup {None}, x # p,
             Go(c, "flusher", pc, x, 0)
      PROVE  Once(c, p)'
  BY <1>0, <1>1, <1>2, <1>3, <1>4, FlusherOnce
<1>5. CASE Return(c, "flusher") \/ Go(c, "flusher", "sweep", None, 0)
  <2>1. PICK pc \in {"loop", "sweep"} : Go(c, "flusher", pc, None, 0)
    BY <1>5 DEF Return, Daemon
  <2>. QED  BY <1>2, <1>4, <2>1 DEF Steps
<1>6. CASE data[path[c]] \in Payload /\ StartPosting(c, data[path[c]]) /\ UNCHANGED path
  <2>1. PICK pc \in {"clear", "post"} : Go(c, "flusher", pc, data[path[c]], 0)
    BY <1>6 DEF StartPosting
  <2>2. pc \in Steps
    BY DEF Steps
  <2>3. CASE data[path[c]] # p
    BY <1>4, <1>6, <2>1, <2>2, <2>3
  <2>4. CASE data[path[c]] = p
    <3>1. OnDisk(p) /\ ~Final(p)
      BY <1>1, <1>3, <2>4 DEF OnDisk
    <3>2. ~InQueue(p, c) /\ \A u \in Thread : Held(c, u) # p
      BY <1>0, <1>1, <2>4, <3>1 DEF Once, QueuedOnly, ReadOnce
    <3>3. /\ thread'[c]["flusher"] = [pc |-> pc, item |-> p, failed |-> 0]
          /\ \A d \in Client, u \in Thread :
               d # c \/ u # "flusher" => thread'[d][u] = thread[d][u]
      BY <1>0, <2>1, <2>2, <2>4, GoSteps
    <3>4. \A u \in Thread : Held(c, u)' = p => u = "flusher"
      BY <3>2, <3>3 DEF Held
    <3>5. ~InQueue(p, c)' /\ ~Final(p)' /\ OneTurn(c, p)'
      BY <1>0, <3>1, <3>2, SameOnce DEF Once
    <3>6. OneFile(p)' /\ OneHand(c, p)'
      BY <1>0, <3>4 DEF Once, OneFile, OneHand
    <3>7. \A f \in Path : data'[f] = p => f = path'[c]
      BY <1>0, <1>1, <1>6, <2>4 DEF Once, OneFile
    <3>8. ReadOnce(c, p)'
      BY <3>3, <3>4, <3>7 DEF ReadOnce
    <3>. QED  BY <3>5, <3>6, <3>8 DEF Once, QueuedOnly, HeldOpen, SettledGoes
  <2>. QED  BY <2>3, <2>4
<1>. QED  BY <1>5, <1>6 DEF FlusherRead

LEMMA FlusherClearOnce ==
  ASSUME Parts, IdleEmpty, NEW c \in Client, FlusherSweep(c) \/ FlusherClear(c)
  PROVE  MovesOnce(c)
<1>0. /\ ThreadType /\ DiskType /\ "flusher" \in Thread
      /\ thread[c]["flusher"].pc \in {"sweep", "clear"} /\ Clear(c, path[c])
      /\ UNCHANGED queue /\ FinalStays
  BY Daemons, SameFinal DEF Parts, FlusherSweep, FlusherClear, Handled, At, clientVars, serverVars
<1>1. Held(c, "flusher") \in Payload \cup {None}
  BY <1>0, HeldType
<1>2. thread[c]["flusher"].pc = "sweep" => Held(c, "flusher") = None
  BY <1>0 DEF IdleEmpty, Resting
<1>3. PICK pc \in {"loop", "spill"} : Go(c, "flusher", pc, Held(c, "flusher"), 0)
  BY <1>0, <1>2 DEF FlusherSweep, FlusherClear, Handled, Return, Daemon, At
<1>4. pc \in Steps
  BY DEF Steps
<1>. SUFFICES ASSUME NEW p \in Payload, Once(c, p)
              PROVE  Once(c, p)'
  BY DEF MovesOnce
<1>5. p # None
  BY DiskConstants
<1>6. \A f \in Path : data'[f] = p => data[f] = p /\ f # path[c]
  BY <1>0, <1>5 DEF Clear, DiskType
<1>7. \A f \in Path : data'[f] = p => Held(c, "flusher") # p /\ ~Final(p)
  BY <1>0, <1>6 DEF Once, ReadOnce, SettledGoes
<1>. QED  BY <1>0, <1>1, <1>3, <1>4, <1>6, <1>7, FlusherOnce

(* A post that fails leaves the payload with the daemon thread, whatever   *)
(* the backend may have stored.                                            *)
LEMMA FailedOnce ==
  ASSUME Parts, NEW c \in Client, NEW t \in Daemon, PostFailed(c, t)
  PROVE  MovesOnce(c)
<1>0. /\ t \in Thread /\ ThreadType /\ thread[c][t].pc = "post"
      /\ UNCHANGED <<queue, data, path>>
  BY DEF Parts, Thread, PostFailed, At, clientVars, diskVars
<1>1. Held(c, t) \in Payload /\ thread[c][t].failed + 1 \in Nat
  BY <1>0, HeldType
<1>2. PICK pc \in {"clear", "post", "spill"}, n \in Nat :
        Go(c, t, pc, Held(c, t), n) /\ (t = "flusher" => pc # "spill")
  BY <1>1 DEF PostFailed, GiveUp
<1>3. pc \in Steps
  BY DEF Steps
<1>4. FinalStays
  BY DEF PostFailed, FinalStays, Final, Honest, Settled
<1>5. CASE t # "flusher"
  BY <1>0, <1>2, <1>3, <1>4, <1>5, PlainOnce
<1>6. CASE t = "flusher"
  <2>. SUFFICES ASSUME NEW p \in Payload, Once(c, p)
                PROVE  Once(c, p)'
    BY DEF MovesOnce
  <2>1. \A f \in Path : data'[f] = p => data[f] = p /\ ~Final(p)
    BY <1>0, <1>6 DEF Once, SettledGoes
  <2>2. \A f \in Path : data'[f] = p /\ Held(c, "flusher") = p => path'[c] = f
    BY <1>0, <2>1, Daemons DEF Once, ReadOnce
  <2>. QED  BY <1>0, <1>1, <1>2, <1>3, <1>4, <1>6, <2>1, <2>2, FlusherOnce
<1>. QED  BY <1>5, <1>6

LEMMA AnsweredOnce ==
  ASSUME Parts, NEW c \in Client, NEW t \in Daemon, PostAnswered(c, t)
  PROVE  MovesOnce(c)
<1>0. /\ t \in Thread /\ ThreadType /\ OtherType /\ thread[c][t].pc = "post"
      /\ UNCHANGED <<queue, data, path>>
  BY DEF Parts, Thread, PostAnswered, At, clientVars, diskVars
<1>1. PICK y \in Payload : Held(c, t) = y
  BY <1>0, HeldType
<1>2. PICK pc \in {"loop", "clear"} :
        Go(c, t, pc, None, 0) /\ (t = "flusher" <=> pc = "clear")
  BY DEF PostAnswered, Return, Daemon
<1>3. pc \in Steps
  BY DEF Steps
<1>4. \A p \in Payload \ {y} : Final(p)' <=> Final(p)
  BY <1>0, <1>1 DEF PostAnswered, Store, OtherType, Final, Settled
<1>5. /\ thread'[c][t] = [pc |-> pc, item |-> None, failed |-> 0]
      /\ \A d \in Client, u \in Thread : d # c \/ u # t => thread'[d][u] = thread[d][u]
  BY <1>0, <1>2, <1>3, GoSteps
<1>. SUFFICES ASSUME NEW p \in Payload, Once(c, p)
              PROVE  Once(c, p)'
  BY DEF MovesOnce
<1>6. p # None
  BY DiskConstants
<1>7. /\ OneTurn(c, p)' /\ (InQueue(p, c)' => InQueue(p, c)) /\ OneFile(p)'
      /\ \A f \in Path : data'[f] = p => data[f] = p
  BY <1>0, SameOnce DEF Once, OneFile
<1>8. CASE p # y
  <2>1. CASE t # "flusher"
    BY <1>0, <1>1, <1>2, <1>3, <1>4, <1>6, <1>7, <1>8, <2>1, MoveOnce
  <2>2. CASE t = "flusher"
    <3>1. \A f \in Path : data'[f] = p => ~Final(p)
      BY <1>0, <1>7, <2>2 DEF Once, SettledGoes
    <3>2. SettledGoes(c, p)'
      BY <1>4, <1>8, <3>1 DEF SettledGoes
    <3>3. ASSUME NEW f \in Path, NEW u \in Thread, data'[f] = p, thread'[c][u].item = p
          PROVE  FALSE
      <4>1. u # t
        BY <1>5, <1>6, <3>3
      <4>2. data[f] = p /\ Held(c, u) = p
        BY <1>0, <1>5, <3>3, <4>1 DEF Held
      <4>3. u = "flusher"
        BY <4>2 DEF Once, ReadOnce
      <4>. QED  BY <2>2, <4>1, <4>3
    <3>4. ReadOnce(c, p)'
      BY <3>3 DEF ReadOnce, Held
    <3>. QED  BY <1>0, <1>1, <1>2, <1>3, <1>4, <1>6, <1>7, <1>8, <3>2, <3>4, MoveOnce
  <2>. QED  BY <2>1, <2>2
<1>9. CASE p = y
  <2>1. InHand(p, c) /\ ~InQueue(p, c)'
    BY <1>0, <1>1, <1>7, <1>9 DEF Once, QueuedOnly, InHand
  <2>2. ~InHand(p, c)'
    BY <1>0, <1>1, <1>5, <1>6, <1>9 DEF Once, OneHand, InHand, Held
  <2>3. CASE t # "flusher"
    <3>1. ~OnDisk(p)'
      BY <1>0, <1>1, <1>9, <2>3 DEF Once, ReadOnce, OnDisk
    <3>. QED  BY <1>7, <2>1, <2>2, <3>1, QueuedOnce
  <2>4. CASE t = "flusher"
    <3>1. \A f \in Path : data'[f] = p => path'[c] = f
      BY <1>0, <1>1, <1>9, <2>4 DEF Once, ReadOnce
    <3>2. thread'[c]["flusher"].pc = "clear"
      BY <1>2, <1>5, <2>4
    <3>3. SettledGoes(c, p)'
      BY <3>1, <3>2 DEF SettledGoes
    <3>. QED  BY <1>7, <2>1, <2>2, <3>3
              DEF Once, OneHand, QueuedOnly, HeldOpen, ReadOnce, InHand
  <2>. QED  BY <2>3, <2>4
<1>. QED  BY <1>8, <1>9

(***************************************************************************)
(* Every step of the client.                                               *)
(***************************************************************************)
LEMMA ClientOnce ==
  ASSUME Parts, Aux, NEW c \in Client,
         Worker(c) \/ Flusher(c) \/ \E t \in App : Caller(c, t) \/ FlushCall(c, t)
  PROVE  MovesOnce(c)
<1>0. /\ ThreadType /\ IdleEmpty /\ "worker" \in Thread \ {"flusher"} /\ "flusher" \in Thread
      /\ \A t \in App : t \in Thread \ {"flusher"}
      /\ "worker" \in Daemon /\ "flusher" \in Daemon
  BY Daemons DEF Parts, Aux, Daemon
<1>1. CASE \E t \in Thread : Spill(c, t)
  BY <1>1, SpillOnce
<1>2. CASE \E t \in Daemon : PostAnswered(c, t) \/ PostFailed(c, t)
  BY <1>2, AnsweredOnce, FailedOnce
<1>3. CASE WorkerLoop(c) \/ WorkerTimeout(c)
  <2>1. PICK pc \in {"done", "get", "loop"} : Go(c, "worker", pc, None, 0)
    BY <1>0, <1>3 DEF WorkerLoop, WorkerTimeout, Return
  <2>2. pc \in Steps /\ OnlyThreads
    BY <1>3 DEF Steps, WorkerLoop, WorkerTimeout
  <2>. QED  BY <1>0, <2>1, <2>2, QuietOnce
<1>4. CASE WorkerGet(c)
  BY <1>0, <1>4, WorkerGetOnce
<1>5. CASE FlusherRead(c) \/ FlusherSweep(c) \/ FlusherClear(c)
  BY <1>0, <1>5, FlusherReadOnce, FlusherClearOnce
<1>6. CASE FlusherStop(c) \/ \E f \in Path : FlusherPick(c, f)
  <2>1. PICK pc \in {"done", "read"} : Go(c, "flusher", pc, None, 0)
    BY <1>6 DEF FlusherStop, FlusherPick
  <2>2. /\ pc \in Steps /\ thread[c]["flusher"].pc = "loop"
        /\ UNCHANGED <<queue, data>> /\ FinalStays
    BY <1>6, SameFinal DEF Steps, FlusherStop, FlusherPick, OnlyThreads, At, clientVars, serverVars, diskVars
  <2>3. Held(c, "flusher") = None
    BY <1>0, <2>2 DEF IdleEmpty, Resting
  <2>. SUFFICES ASSUME NEW p \in Payload, Once(c, p)
                PROVE  Once(c, p)'
    BY DEF MovesOnce
  <2>4. p # None /\ \A f \in Path : data'[f] = p => data[f] = p /\ ~Final(p)
    BY <2>2, DiskConstants DEF Once, SettledGoes
  <2>. QED  BY <1>0, <2>1, <2>2, <2>3, <2>4, FlusherOnce
<1>7. CASE \E t \in App : FlushPoll(c, t) \/ FlushAgain(c, t) \/ FlushTimeout(c, t)
                          \/ FlushCall(c, t)
  <2>1. PICK t \in App, pc \in {"again", "idle", "flush", "loop"} :
          Go(c, t, pc, None, 0) /\ OnlyThreads
    BY <1>7 DEF FlushPoll, FlushAgain, FlushTimeout, FlushCall, Return
  <2>2. pc \in Steps
    BY DEF Steps
  <2>. QED  BY <1>0, <2>1, <2>2, QuietOnce
<1>8. CASE \E t \in App : SendTrace(c, t)
  BY <1>8, SendTraceOnce
<1>. QED  BY <1>0, <1>1, <1>2, <1>3, <1>4, <1>5, <1>6, <1>7, <1>8
          DEF Worker, Flusher, Caller

(* Nothing moves, but for the None that close() puts into the queue.       *)
LEMMA StillOnce ==
  ASSUME Parts, NEW c \in Client, UNCHANGED <<thread, path, data, copies, refused>>,
         UNCHANGED queue \/ \E d \in Client : queue' = [queue EXCEPT ![d] = Append(@, Stop)]
  PROVE  MovesOnce(c)
<1>. SUFFICES ASSUME NEW p \in Payload, Once(c, p)
              PROVE  Once(c, p)'
  BY DEF MovesOnce
<1>1. OneTurn(c, p)' /\ (InQueue(p, c)' => InQueue(p, c))
  <2>1. CASE UNCHANGED queue
    BY <2>1, SameOnce DEF Once
  <2>2. CASE \E d \in Client : queue' = [queue EXCEPT ![d] = Append(@, Stop)]
    <3>1. PICK d \in Client : queue' = [queue EXCEPT ![d] = Append(@, Stop)]
      BY <2>2
    <3>2. p # Stop /\ ClientType
      BY DEF Parts
    <3>3. CASE d = c
      BY <3>1, <3>2, <3>3, AppendOnce DEF Once
    <3>4. CASE d # c
      <4>1. queue'[c] = queue[c]
        BY <3>1, <3>2, <3>4 DEF ClientType
      <4>. QED  BY <4>1 DEF Once, OneTurn, InQueue
    <3>. QED  BY <3>3, <3>4
  <2>. QED  BY <2>1, <2>2
<1>2. /\ OneFile(p)' /\ OneHand(c, p)' /\ ReadOnce(c, p)' /\ SettledGoes(c, p)'
      /\ (InHand(p, c)' <=> InHand(p, c)) /\ (OnDisk(p)' <=> OnDisk(p))
      /\ (Final(p)' <=> Final(p))
  BY DEF Once, OneFile, OneHand, ReadOnce, SettledGoes, InHand, OnDisk, Final, Settled,
         Held
<1>. QED  BY <1>1, <1>2 DEF Once, QueuedOnly, HeldOpen

LEMMA EmitOnce ==
  ASSUME Parts, Provenance, NEW c \in Client, NEW t \in App, NEW y \in Payload, Emit(c, t, y),
         IdleEmpty
  PROVE  MovesOnce(c)
<1>0. /\ ThreadType /\ t \in Thread \ {"flusher"} /\ Held(c, t) = None /\ "send" \in Steps
      /\ Go(c, t, "send", y, 0) /\ UNCHANGED <<queue, data, copies, refused, path>>
  BY Daemons DEF Parts, Daemon, Emit, IdleEmpty, Resting, serverVars, diskVars, Steps
<1>1. /\ thread'[c][t] = [pc |-> "send", item |-> y, failed |-> 0]
      /\ \A d \in Client, u \in Thread : d # c \/ u # t => thread'[d][u] = thread[d][u]
  BY <1>0, GoSteps
<1>. SUFFICES ASSUME NEW p \in Payload, Once(c, p)
              PROVE  Once(c, p)'
  BY DEF MovesOnce
<1>2. p # None /\ path'[c] = path[c]
  BY <1>0, DiskConstants
<1>3. /\ OneTurn(c, p)' /\ (InQueue(p, c)' <=> InQueue(p, c)) /\ (Final(p)' <=> Final(p))
      /\ (\A f \in Path : data'[f] = p => data[f] = p) /\ (OnDisk(p)' <=> OnDisk(p))
  BY <1>0, SameOnce DEF Once
<1>4. CASE p = y
  <2>1. ~Somewhere(p)
    BY <1>4 DEF Emit, Provenance
  <2>2. ~OnDisk(p) /\ ~Final(p) /\ ~InQueue(p, c) /\ ~InHand(p, c)
    BY <2>1 DEF Somewhere, Final
  <2>3. \A u \in Thread : Held(c, u)' = p => u = t
    BY <1>1, <2>2 DEF InHand, Held
  <2>. QED  BY <1>0, <1>3, <2>2, <2>3, HandOnce
<1>5. CASE p # y
  BY <1>0, <1>2, <1>3, <1>5, MoveOnce
<1>. QED  BY <1>4, <1>5

LEMMA EnvironmentOnce ==
  ASSUME Parts, NEW c \in Client, Client = {c}, status'[c] # "dead",
         \/ \E d \in Client : Close(d)
         \/ \E q \in Proc : ResetClient(q) \/ Configure(q) \/ Exit(q)
         \/ ServerSwitch \/ UNCHANGED vars
  PROVE  MovesOnce(c) /\ status[c] # "dead"
<1>0. status \in [Client -> {"none", "up", "closed", "dead"}]
  BY DEF Parts, ClientType
<1>1. ~ \E q \in Proc : Exit(q)
  <2>. SUFFICES ASSUME NEW q \in Proc, Exit(q) PROVE FALSE
    OBVIOUS
  <2>1. c \in {d \in Client : ProcOf[d] = q /\ Alive(d)}
    BY DEF Exit
  <2>2. status'[c] = "dead"
    BY <2>1 DEF Exit
  <2>. QED  BY <2>2
<1>4. UNCHANGED <<thread, path, data, copies, refused>>
  BY <1>1 DEF Close, ResetClient, Configure, ServerSwitch, vars, serverVars, diskVars
<1>5. /\ UNCHANGED queue \/ \E d \in Client : queue' = [queue EXCEPT ![d] = Append(@, Stop)]
      /\ status[c] # "dead"
  BY <1>1 DEF Close, ResetClient, Configure, ServerSwitch, vars, clientVars
<1>. QED  BY <1>4, <1>5, StillOnce

LEMMA OnceStep ==
  ASSUME NEW c \in Client, Client = {c}, TypeInv, Aux, Provenance, OncePlaced, [Next]_vars
  PROVE  OncePlaced'
<1>0. Parts /\ IdleEmpty /\ status \in [Client -> {"none", "up", "closed", "dead"}]
  BY TypeParts DEF Parts, Aux, ClientType
<1>. SUFFICES ASSUME status'[c] # "dead"
              PROVE  MovesOnce(c) /\ status[c] # "dead"
  BY DEF OncePlaced, MovesOnce
<1>1. CASE Worker(c) \/ Flusher(c) \/ \E t \in App : Caller(c, t) \/ FlushCall(c, t)
  BY <1>0, <1>1, ClientOnce, OwnClient DEF Alive
<1>2. CASE \E t \in App, p \in Payload : Emit(c, t, p)
  <2>1. status[c] # "dead"
    BY <1>0, <1>2 DEF Emit
  <2>. QED  BY <1>0, <1>2, <2>1, EmitOnce
<1>3. CASE \/ \E d \in Client : Close(d)
           \/ \E q \in Proc : ResetClient(q) \/ Configure(q) \/ Exit(q)
           \/ ServerSwitch \/ UNCHANGED vars
  BY <1>0, <1>3, EnvironmentOnce
<1>. QED  BY <1>1, <1>2, <1>3 DEF Next, Environment

(* What is posted is in a hand, so it has not been stored.                 *)
LEMMA StoredOnce ==
  ASSUME Honest, NEW c \in Client, Client = {c}, TypeInv, OncePlaced, NoDuplicate, [Next]_vars
  PROVE  NoDuplicate'
<1>0. ThreadType /\ copies \in [Payload -> 0..2]
  BY TypeParts DEF OtherType
<1>1. CASE UNCHANGED copies
  BY <1>1 DEF NoDuplicate
<1>2. CASE \E t \in Daemon : PostAnswered(c, t)
  <2>1. PICK t \in Daemon : PostAnswered(c, t)
    BY <1>2
  <2>2. /\ t \in Thread /\ thread[c][t].pc = "post" /\ status[c] # "dead"
        /\ UNCHANGED copies \/ Store(Held(c, t))
    BY <2>1 DEF PostAnswered, At, Alive, Thread
  <2>3. PICK y \in Payload : Held(c, t) = y
    BY <1>0, <2>2, HeldType
  <2>4. ~Settled(y)
    BY <2>2, <2>3 DEF OncePlaced, Once, HeldOpen, InHand, Final
  <2>5. copies[y] = 0
    BY <1>0, <2>4 DEF Settled
  <2>. QED  BY <1>0, <2>2, <2>3, <2>5 DEF NoDuplicate, Store
<1>. QED  BY <1>1, <1>2, StepKinds DEF Verdicts, Emit, serverVars, PostFailed, Honest

LEMMA OnceInitially == Init => OncePlaced /\ NoDuplicate
<1>. SUFFICES ASSUME Init PROVE OncePlaced /\ NoDuplicate
  OBVIOUS
<1>1. NoDuplicate
  BY DEF Init, NoDuplicate
<1>2. ASSUME NEW c \in Client, NEW p \in Payload
      PROVE  Once(c, p)
  <2>1. ~Somewhere(p)
    BY FatesInitially DEF Provenance, Init
  <2>. QED  BY <2>1 DEF Somewhere, Once, OneFile, OneTurn, OneHand, OnDisk, InQueue, InHand,
                        QueuedOnly, HeldOpen, ReadOnce, SettledGoes, Final
<1>. QED  BY <1>1, <1>2 DEF OncePlaced

(***************************************************************************)
(* The backend gets a payload at most once from a client that has the      *)
(* directory to itself, if the backend stores nothing when it reports an   *)
(* error: for any number of threads, any capacity, budget and number of    *)
(* attempts, and whatever is closed, reset, switched off, killed or fails. *)
(***************************************************************************)
THEOREM StoredAtMostOnce ==
  ASSUME Honest, \E c : Client = {c}
  PROVE  Spec => []NoDuplicate
<1>1. Init => OncePlaced /\ NoDuplicate
  BY OnceInitially
<1>2. TypeInv /\ Aux /\ Provenance /\ OncePlaced /\ NoDuplicate /\ [Next]_vars
        => OncePlaced' /\ NoDuplicate'
  BY OnceStep, StoredOnce
<1>. QED  BY <1>1, <1>2, FatesHold, PTL DEF Spec

(***************************************************************************)
(* A killed client leaves its files as they are, each with its payload.    *)
(***************************************************************************)
FilesOnce == \A p \in Payload : OneFile(p)

LEMMA FilesStep ==
  ASSUME NEW c \in Client, Client = {c}, TypeInv, FilesOnce, OncePlaced', [Next]_vars
  PROVE  FilesOnce'
<1>1. CASE status'[c] # "dead"
  BY <1>1 DEF OncePlaced, Once, FilesOnce
<1>2. CASE status'[c] = "dead"
  <2>1. \A t \in Thread : ~Spill(c, t)
    BY <1>2 DEF Spill, SpillOpen, SpillWrite, SpillError, At, Alive, clientVars
  <2>2. ~FlusherSweep(c) /\ ~FlusherClear(c)
    BY <1>2 DEF FlusherSweep, FlusherClear, At, Alive, clientVars
  <2>3. UNCHANGED data
    BY <2>1, <2>2, DiskSteps
  <2>. QED  BY <2>3 DEF FilesOnce, OneFile
<1>. QED  BY <1>1, <1>2

LEMMA OncePlaces ==
  ASSUME NEW c \in Client, Client = {c}, FilesOnce, OncePlaced
  PROVE  OnePlace
<1>. SUFFICES ASSUME NEW p \in Payload, NEW x \in Places(p), NEW y \in Places(p)
              PROVE  x = y
  BY DEF OnePlace
<1>. DEFINE File(z) == \E f \in Path : z = <<"file", f>> /\ data[f] = p /\ ~InFlush(f, p)
            Turn(z) == \E i \in DOMAIN queue[c] :
                         z = <<"turn", c, i>> /\ queue[c][i] = p /\ Alive(c)
            Hand(z) == \E t \in Thread : z = <<"hand", c, t>> /\ Held(c, t) = p /\ Alive(c)
<1>1. ASSUME NEW z \in Places(p)
      PROVE  File(z) \/ Turn(z) \/ Hand(z)
  BY <1>1 DEF Places
<1>2. Alive(c) => Once(c, p)
  BY DEF OncePlaced, Alive
<1>3. ASSUME NEW w, NEW z, File(w)
      PROVE  (File(z) => w = z) /\ ~Turn(z) /\ ~Hand(z)
  <2>1. File(z) => w = z
    BY <1>3 DEF FilesOnce, OneFile
  <2>2. ~Turn(z)
    BY <1>2, <1>3 DEF Once, QueuedOnly, InQueue, OnDisk
  <2>3. ~Hand(z)
    BY <1>2, <1>3 DEF Once, ReadOnce, InFlush
  <2>. QED  BY <2>1, <2>2, <2>3
<1>4. ASSUME NEW w, NEW z, Turn(w)
      PROVE  (Turn(z) => w = z) /\ ~Hand(z)
  BY <1>2, <1>4 DEF Once, OneTurn, QueuedOnly, InQueue, InHand
<1>5. ASSUME NEW w, NEW z, Hand(w), Hand(z)
      PROVE  w = z
  BY <1>2, <1>5 DEF Once, OneHand
<1>. HIDE DEF File, Turn, Hand
<1>. QED  BY <1>1, <1>3, <1>4, <1>5

(***************************************************************************)
(* A payload of a client that has the directory to itself is in one place, *)
(* whatever the backend stores without saying so and whatever is closed,   *)
(* reset, switched off, killed or fails.                                   *)
(***************************************************************************)
THEOREM AlwaysOnePlace ==
  ASSUME \E c : Client = {c}
  PROVE  Spec => []OnePlace
<1>1. Init => FilesOnce /\ OncePlaced
  BY OnceInitially, FatesInitially DEF FilesOnce, OneFile, Provenance, Somewhere, OnDisk, Init
<1>2. TypeInv /\ Aux /\ Provenance /\ FilesOnce /\ OncePlaced /\ [Next]_vars
        => FilesOnce' /\ OncePlaced'
  BY OnceStep, FilesStep
<1>3. FilesOnce /\ OncePlaced => OnePlace
  BY OncePlaces
<1>. QED  BY <1>1, <1>2, <1>3, FatesHold, PTL DEF Spec

-----------------------------------------------------------------------------
(***************************************************************************)
(* The on-disk queue of a client that is not killed is durable.  What is   *)
(* on disk leaves it into the hand of the flusher (SegmentStep), and what  *)
(* the flusher holds it posts or writes back.                              *)
(***************************************************************************)
LEMMA FileFixed ==
  ASSUME TypeInv, Aux, [Next]_vars, NEW f \in Path, NEW y \in Payload, data[f] = y
  PROVE  data'[f] \in {y, None}
<1>0. DiskType /\ y # None /\ f \in Files
  BY TypeParts, DiskConstants DEF Files
<1>1. CASE \E c \in Client, t \in Thread : Spill(c, t)
  <2>1. PICK c \in Client, t \in Thread : Spill(c, t)
    BY <1>1
  <2>2. ASSUME SpillWrite(c, t)
        PROVE  data'[f] = data[f]
    <3>1. lock[c] # None
      BY <2>2 DEF SpillWrite, Fill
    <3>2. f # lock[c]
      BY <3>1 DEF Aux, LockBlank
    <3>. QED  BY <1>0, <2>2, <3>2 DEF SpillWrite, Fill, DiskType
  <2>3. ASSUME NEW g \in Path, NEW K \in SUBSET Files, SpillOpen(c, t, g, K)
        PROVE  data'[f] \in {data[f], None}
    BY <1>0, <2>3 DEF SpillOpen, Create, KeepOnly
  <2>4. ASSUME NEW K \in SUBSET Files, SpillError(c, t, K)
        PROVE  data'[f] \in {data[f], None}
    BY <1>0, <2>4 DEF SpillError, CreateError, FillError, KeepOnly
  <2>. QED  BY <2>1, <2>2, <2>3, <2>4 DEF Spill
<1>2. CASE \E c \in Client : FlusherSweep(c) \/ FlusherClear(c)
  BY <1>0, <1>2 DEF FlusherSweep, FlusherClear, Handled, Clear, DiskType
<1>. QED  BY <1>1, <1>2, DiskSteps

(* What the backend has answered stays answered. *)
LEMMA VerdictsStay ==
  ASSUME TypeInv, [Next]_vars
  PROVE  SettledStays
<1>0. ThreadType /\ OtherType
  BY TypeParts
<1>1. CASE \E c \in Client, t \in Daemon : PostAnswered(c, t) \/ PostFailed(c, t)
  <2>1. PICK c \in Client, t \in Daemon : PostAnswered(c, t) \/ PostFailed(c, t)
    BY <1>1
  <2>2. Held(c, t) \in Payload
    BY <1>0, <2>1, HeldType DEF PostAnswered, PostFailed, At, Thread
  <2>. QED  BY <1>0, <2>1, <2>2, PostSettles
<1>2. CASE UNCHANGED <<copies, refused>>
  BY <1>2, SameSettled
<1>. QED  BY <1>1, <1>2, StepKinds DEF Verdicts, Emit, serverVars

LEMMA FlusherKeepsHand ==
  ASSUME Sheltered, TypeInv, Aux, NothingSwept, NEW c \in Client, Flusher(c),
         NEW p \in Payload, Held(c, "flusher") = p
  PROVE  Held(c, "flusher")' = p \/ OnDisk(p)' \/ Settled(p)'
<1>0. /\ ThreadType /\ DiskType /\ OtherType /\ "flusher" \in Thread /\ p # None
      /\ "flusher" \in Daemon
  BY TypeParts, Daemons, DiskConstants DEF Daemon
<1>1. thread[c]["flusher"].pc \notin Resting
  BY <1>0 DEF Aux, IdleEmpty
<1>2. ASSUME NEW pc \in Steps, NEW n \in Nat, Go(c, "flusher", pc, p, n)
      PROVE  Held(c, "flusher")' = p
  <2>1. thread'[c]["flusher"] = [pc |-> pc, item |-> p, failed |-> n]
    BY <1>0, <1>2, GoSteps
  <2>. QED  BY <2>1 DEF Held
<1>3. CASE PostAnswered(c, "flusher")
  BY <1>0, <1>3, PostSettles
<1>4. CASE PostFailed(c, "flusher")
  <2>1. PICK pc \in {"post", "clear"}, n \in Nat : Go(c, "flusher", pc, p, n)
    BY <1>0, <1>4, HeldType DEF PostFailed, GiveUp
  <2>. QED  BY <1>2, <2>1 DEF Steps
<1>5. CASE \E f \in Path, K \in SUBSET Files : SpillOpen(c, "flusher", f, K)
  BY <1>2, <1>5 DEF SpillOpen, Steps
<1>6. CASE SpillWrite(c, "flusher")
  <2>1. lock[c] # None /\ lock[c] \in Path
    BY <1>0, <1>6 DEF SpillWrite, Fill, DiskType
  <2>2. lock[c] \in Files
    BY <2>1, DiskConstants DEF NothingSwept, Files
  <2>3. data'[lock[c]] = p
    BY <1>0, <1>6, <2>1, <2>2 DEF SpillWrite, Fill, DiskType
  <2>. QED  BY <2>1, <2>3 DEF OnDisk
<1>7. CASE FlusherClear(c)
  BY <1>0, <1>2, <1>7 DEF FlusherClear, Handled, Steps
<1>8. ~ \E K \in SUBSET Files : SpillError(c, "flusher", K)
  BY DEF Sheltered, SpillError
<1>9. /\ ~FlusherStop(c) /\ ~FlusherRead(c) /\ ~FlusherSweep(c)
      /\ \A f \in Path : ~FlusherPick(c, f)
  BY <1>1 DEF FlusherStop, FlusherRead, FlusherSweep, FlusherPick, At, Resting
<1>. QED  BY <1>3, <1>4, <1>5, <1>6, <1>7, <1>8, <1>9 DEF Flusher, Spill

(* No other step moves the flusher, and none ends the client.              *)
LEMMA OthersLeaveHand ==
  ASSUME Sheltered, TypeInv, NEW c \in Client, Alive(c), [Next]_vars
  PROVE  /\ Alive(c)'
         /\ Flusher(c) \/ Held(c, "flusher")' = Held(c, "flusher")
<1>0. /\ Parts /\ ThreadType /\ Client = {c} /\ "flusher" \in Thread /\ "worker" \in Thread
      /\ \A t \in App : t \in Thread \ {"flusher"}
      /\ status \in [Client -> {"none", "up", "closed", "dead"}]
  BY TypeParts, Daemons DEF Parts, Sheltered, Daemon, ClientType
<1>2. ASSUME NEW t, NEW pc, NEW x, NEW n, t # "flusher", Go(c, t, pc, x, n)
      PROVE  Held(c, "flusher")' = Held(c, "flusher")
  BY <1>0, <1>2 DEF Go, Held, ThreadType
<1>3. ASSUME NEW t, t # "flusher", Return(c, t)
      PROVE  Held(c, "flusher")' = Held(c, "flusher")
  BY <1>2, <1>3 DEF Return
<1>4. ASSUME NEW t \in Thread \ {"flusher"}, Spill(c, t)
      PROVE  Held(c, "flusher")' = Held(c, "flusher")
  BY <1>2, <1>3, <1>4 DEF Spill, SpillOpen, SpillWrite, SpillError
<1>5. CASE Worker(c)
  <2>1. Held(c, "flusher")' = Held(c, "flusher")
    BY <1>0, <1>2, <1>3, <1>4, <1>5
       DEF Worker, WorkerLoop, WorkerGet, WorkerTimeout, PostAnswered, PostFailed, GiveUp
  <2>. QED  BY <1>0, <1>5, <2>1, OwnClient DEF Alive
<1>6. CASE Flusher(c)
  BY <1>0, <1>6, OwnClient DEF Alive
<1>7. CASE \E t \in App : Caller(c, t) \/ FlushCall(c, t)
  <2>1. Held(c, "flusher")' = Held(c, "flusher")
    BY <1>0, <1>2, <1>3, <1>4, <1>7
       DEF Caller, SendTrace, Overflow, FlushPoll, FlushAgain, FlushTimeout, FlushCall
  <2>. QED  BY <1>0, <1>7, <2>1, OwnClient DEF Alive
<1>8. CASE \E t \in App, p \in Payload : Emit(c, t, p)
  <2>1. Held(c, "flusher")' = Held(c, "flusher")
    BY <1>0, <1>2, <1>8 DEF Emit
  <2>. QED  BY <1>0, <1>8, <2>1 DEF Emit, Alive
<1>9. CASE ServerSwitch \/ UNCHANGED vars
  BY <1>9 DEF ServerSwitch, vars, clientVars, Alive, Held
<1>10. CASE Close(c) \/ \E q \in Proc : ResetClient(q)
  <2>1. Held(c, "flusher")' = Held(c, "flusher")
    BY <1>10 DEF Close, ResetClient, Held
  <2>2. status'[c] = status[c] \/ status'[c] = "closed"
    BY <1>0, <1>10 DEF Close, ResetClient
  <2>. QED  BY <2>1, <2>2 DEF Alive
<1>11. \A q \in Proc : ~Configure(q) /\ ~Exit(q)
  BY DEF Sheltered, Configure, Exit
<1>. QED  BY <1>0, <1>5, <1>6, <1>7, <1>8, <1>9, <1>10, <1>11 DEF Next, Environment

(***************************************************************************)
(* The on-disk queue is durable: from a client that is alone on its        *)
(* directory and not killed, what has been spilled is on disk, or with the *)
(* flusher, until the backend has answered it, whatever the backend does   *)
(* and even when the client is closed or replaced meanwhile.               *)
(***************************************************************************)
THEOREM SpooledUntilAnswered ==
  ASSUME Sheltered
  PROVE  Spec => DurableQueue
<1>1. TypeInv /\ Aux /\ NothingSwept /\ [Next]_vars =>
        [\A p \in Payload : Spooled(p) => Spooled(p)' \/ Settled(p)']_vars
  <2>. SUFFICES ASSUME TypeInv, Aux, NothingSwept, [Next]_vars,
                       NEW p \in Payload, Spooled(p)
                PROVE  Spooled(p)' \/ Settled(p)'
    OBVIOUS
  <2>0. SettledStays /\ NothingSwept'
    BY NextCalm, VerdictsStay
  <2>1. CASE OnDisk(p)
    <3>1. PICK f \in Path : data[f] = p
      BY <2>1 DEF OnDisk
    <3>2. CASE data'[f] = p
      BY <3>2 DEF Spooled, OnDisk
    <3>3. CASE data'[f] = None
      <4>1. \/ Settled(p)
            \/ \E c \in Client : Alive(c) /\ Held(c, "flusher")' = p
        BY <2>0, <3>1, <3>3, SegmentStep DEF NothingSwept
      <4>. QED  BY <2>0, <4>1, OthersLeaveHand DEF SettledStays, Spooled
    <3>. QED  BY <3>1, <3>2, <3>3, FileFixed
  <2>2. CASE \E c \in Client : Alive(c) /\ Held(c, "flusher") = p
    BY <2>2, OthersLeaveHand, FlusherKeepsHand DEF Spooled
  <2>. QED  BY <2>1, <2>2 DEF Spooled
<1>. QED  BY <1>1, ShelterHolds, PTL DEF Spec, DurableQueue

(* flush returns from its second look at the queue only if that is empty. *)
LEMMA AgainReturns ==
  ASSUME Parts, NEW c \in Client, Client = {c}, NEW t \in App, [Next]_vars,
         thread[c][t].pc = "again", thread'[c][t].pc = "idle"
  PROVE  queue[c] = <<>>
<1>0. ThreadType /\ t \notin Daemon /\ Daemon \cap App = {}
  BY DEF Parts, Daemon
<1>1. ASSUME NEW u, u # t \/ thread[c][u].pc # "again",
             NEW pc, NEW x, NEW n, Go(c, u, pc, x, n)
      PROVE  FALSE
  BY <1>0, <1>1 DEF Go, ThreadType
<1>2. ASSUME NEW u, u # t \/ thread[c][u].pc # "again", Return(c, u)
      PROVE  FALSE
  BY <1>1, <1>2 DEF Return
<1>3. thread' # thread
  OBVIOUS
<1>4. ASSUME NEW u, Spill(c, u)
      PROVE  FALSE
  BY <1>1, <1>2, <1>4 DEF Spill, SpillOpen, SpillWrite, SpillError, At
<1>5. ~Worker(c)
  BY <1>0, <1>1, <1>2, <1>4
     DEF Worker, WorkerLoop, WorkerGet, WorkerTimeout, PostAnswered, PostFailed, GiveUp, Daemon
<1>6. ~Flusher(c)
  BY <1>0, <1>1, <1>2, <1>4
     DEF Flusher, FlusherStop, FlusherPick, FlusherRead, StartPosting, FlusherSweep,
         FlusherClear, Handled, PostAnswered, PostFailed, GiveUp, Daemon
<1>7. ASSUME NEW u \in App, Caller(c, u) \/ FlushCall(c, u) \/ \E p \in Payload : Emit(c, u, p)
      PROVE  FlushAgain(c, t)
  BY <1>0, <1>1, <1>2, <1>4, <1>7
     DEF Caller, SendTrace, Overflow, FlushPoll, FlushAgain, FlushTimeout, FlushCall, Emit, At
<1>8. FlushAgain(c, t)
  <2>1. ASSUME \/ \E d \in Client : Close(d)
               \/ \E q \in Proc : ResetClient(q) \/ Configure(q) \/ Exit(q)
               \/ ServerSwitch \/ UNCHANGED vars
        PROVE  FALSE
    BY <1>3, <2>1 DEF Close, ResetClient, Configure, Exit, ServerSwitch, vars
  <2>2. \E u \in App :
          Caller(c, u) \/ FlushCall(c, u) \/ \E p \in Payload : Emit(c, u, p)
    BY <1>5, <1>6, <2>1 DEF Next, Environment
  <2>. QED  BY <1>7, <2>2
<1>9. Go(c, t, "flush", None, 0) => FALSE
  BY <1>0 DEF Go, ThreadType
<1>. QED  BY <1>8, <1>9 DEF FlushAgain

(***************************************************************************)
(* When flush returns before its timeout to the only application thread of *)
(* a client that is alone on its directory and not killed, all that was    *)
(* sent is answered, on disk, or in the hand of a daemon thread, even when *)
(* the client is closed while it waits.                                    *)
(***************************************************************************)
THEOREM FlushLeavesTwo ==
  ASSUME Sheltered, \E s : App = {s}
  PROVE  Spec => FlushLeavesInFlight
<1>1. TypeInv /\ Aux /\ Conservation /\ NothingSwept /\ [Next]_vars =>
        [\A c \in Client, t \in App :
           thread[c][t].pc = "again" /\ thread'[c][t].pc = "idle" =>
             \A p \in sent : \/ Settled(p) \/ OnDisk(p)
                             \/ \E d \in Daemon : Held(c, d) = p]_vars
  <2>. SUFFICES ASSUME TypeInv, Aux, Conservation, NothingSwept, [Next]_vars,
                       NEW c \in Client, NEW t \in App,
                       thread[c][t].pc = "again", thread'[c][t].pc = "idle", NEW p \in sent
                PROVE  Settled(p) \/ OnDisk(p) \/ \E d \in Daemon : Held(c, d) = p
    OBVIOUS
  <2>0. /\ Parts /\ Client = {c} /\ t \in Thread /\ Held(c, t) = None /\ p # None
        /\ dropped = {}
    BY TypeParts, Daemons, DiskConstants
       DEF Parts, Sheltered, OtherType, Aux, IdleEmpty, Resting, NothingSwept
  <2>1. queue[c] = <<>>
    BY <2>0, AgainReturns
  <2>2. ~InQueue(p, c)
    BY <2>1 DEF InQueue
  <2>3. InHand(p, c) => \E d \in Daemon : Held(c, d) = p
    BY <2>0 DEF InHand, Thread
  <2>. QED  BY <2>0, <2>2, <2>3 DEF Conservation
<1>. QED  BY <1>1, ShelterHolds, PTL DEF Spec, FlushLeavesInFlight
=============================================================================
