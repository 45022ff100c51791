---------------------------- MODULE DeliveryProofs ----------------------------
(***************************************************************************)
(* What the SDK promises, from a client that is alone, lives and is left   *)
(* to do its work: it loses nothing, whatever the backend does and however *)
(* many threads call it, and it implements Delivery.                       *)
(***************************************************************************)
EXTENDS TransportProofs

USE DiskConstants, TransportConstants

(* One client, which nobody kills or switches off, though it may be closed *)
(* or replaced; a disk without a budget and without errors.                *)
Sheltered ==
  /\ \E c : Client = {c}
  /\ MaxFiles <= 0
  /\ Events \cap {"configure", "crash", "io"} = {}

(* ... and nobody closes it.                                               *)
Undisturbed == Sheltered /\ Events \cap {"close", "reset"} = {}

(* The client, once built, stays up, and its worker at work.               *)
StaysUp ==
  /\ \A c \in Client : status[c] \in {"none", "up"}
  /\ \A q \in Proc : current[q] # None => status[current[q]] = "up"
  /\ \A c \in Client : thread[c]["worker"].pc # "done"
  /\ \A c \in Client : queue[c] \in Seq(Payload)
  /\ \A c \in Client : status[c] = "none" =>
       queue[c] = <<>> /\ \A t \in Thread : thread[c][t].pc \in {"idle", "loop"}

(* An empty file is one that the client is about to write, so its flusher  *)
(* never takes it for garbage.                                             *)
NothingSwept ==
  /\ dropped = {}
  /\ \A q \in Proc : ~disabled[q]
  /\ \A f \in Path : data[f] = Blank => \E c \in Client : lock[c] = f
  /\ \A c \in Client : lock[c] # None => data[lock[c]] = Blank
  /\ \A c \in Client : thread[c]["flusher"].pc = "read" =>
       path[c] \in Path /\ data[path[c]] \in Payload
  /\ \A c \in Client : thread[c]["flusher"].pc # "sweep"

Parts == DiskType /\ ClientType /\ ThreadType /\ OtherType

LEMMA OwnStep ==
  ASSUME Parts, NEW c \in Client, NEW t \in Thread,
         NEW pc \in Steps, NEW p \in Payload \cup {None}, NEW n \in Nat,
         Go(c, t, pc, p, n)
  PROVE  /\ thread'[c][t].pc = pc /\ thread'[c][t].item = p
         /\ \A u \in Thread : u # t => thread'[c][u] = thread[c][u]
<1>1. ThreadType
  BY DEF Parts
<1>2. /\ thread'[c][t] = [pc |-> pc, item |-> p, failed |-> n]
      /\ \A d \in Client, u \in Thread : d # c \/ u # t => thread'[d][u] = thread[d][u]
  BY <1>1, GoSteps
<1>. QED  BY <1>2

(* A client moves only its own threads and its own queue. *)
LEMMA OwnClient ==
  ASSUME Parts, NEW c \in Client,
         Worker(c) \/ Flusher(c) \/ \E t \in App : Caller(c, t) \/ FlushCall(c, t)
  PROVE  /\ Alive(c) /\ UNCHANGED <<status, current>>
         /\ \A d \in Client \ {c} : queue'[d] = queue[d]
         /\ \A d \in Client \ {c}, u \in Thread : Held(d, u)' = Held(d, u)
<1>1. /\ thread \in [Client -> [Thread -> ThreadState]]
      /\ queue \in [Client -> Seq(Payload \cup {Stop})]
  BY DEF Parts, ThreadType, ClientType
<1>2. ASSUME NEW t, NEW pc, NEW x, NEW n, Go(c, t, pc, x, n)
      PROVE  \A d \in Client \ {c} : thread'[d] = thread[d]
  BY <1>1, <1>2 DEF Go
<1>3. ASSUME NEW t, Return(c, t)
      PROVE  \A d \in Client \ {c} : thread'[d] = thread[d]
  BY <1>2, <1>3 DEF Return
<1>4. ASSUME NEW t \in Thread, Spill(c, t)
      PROVE  /\ Alive(c) /\ UNCHANGED <<status, current, queue>>
             /\ \A d \in Client \ {c} : thread'[d] = thread[d]
  BY <1>2, <1>3, <1>4 DEF Spill, SpillOpen, SpillWrite, SpillError, At, clientVars
<1>5. ASSUME NEW t \in Daemon, PostAnswered(c, t) \/ PostFailed(c, t)
      PROVE  /\ Alive(c) /\ UNCHANGED <<status, current, queue>>
             /\ \A d \in Client \ {c} : thread'[d] = thread[d]
  BY <1>2, <1>3, <1>5 DEF PostAnswered, PostFailed, GiveUp, At, clientVars
<1>6. ASSUME Worker(c)
      PROVE  /\ Alive(c) /\ UNCHANGED <<status, current>>
             /\ \A d \in Client \ {c} : thread'[d] = thread[d] /\ queue'[d] = queue[d]
  BY <1>1, <1>2, <1>3, <1>4, <1>5, <1>6, Daemons
     DEF Worker, WorkerLoop, WorkerGet, WorkerTimeout, OnlyThreads, At, clientVars, Daemon
<1>7. ASSUME Flusher(c)
      PROVE  /\ Alive(c) /\ UNCHANGED <<status, current, queue>>
             /\ \A d \in Client \ {c} : thread'[d] = thread[d]
  BY <1>2, <1>3, <1>4, <1>5, <1>7, Daemons
     DEF Flusher, FlusherStop, FlusherPick, FlusherRead, StartPosting, FlusherSweep,
         FlusherClear, Handled, OnlyThreads, At, clientVars, Daemon
<1>8. ASSUME NEW t \in App, Caller(c, t) \/ FlushCall(c, t)
      PROVE  /\ Alive(c) /\ UNCHANGED <<status, current>>
             /\ \A d \in Client \ {c} : thread'[d] = thread[d] /\ queue'[d] = queue[d]
  BY <1>1, <1>2, <1>3, <1>4, <1>8, Daemons
     DEF Caller, SendTrace, Overflow, FlushPoll, FlushAgain, FlushTimeout, FlushCall,
         OnlyThreads, At, clientVars
<1>. QED  BY <1>6, <1>7, <1>8 DEF Held

(* A thread of the client moves on without touching the disk. *)
LEMMA MoveSweepsNothing ==
  ASSUME Sheltered, Parts, NothingSwept, NEW c \in Client, NEW t \in Thread,
         NEW pc \in Steps, NEW p \in Payload \cup {None}, NEW n \in Nat,
         Go(c, t, pc, p, n), UNCHANGED <<disabled, data, lock, dropped>>,
         t # "flusher" => UNCHANGED path,
         t = "flusher" =>
           /\ pc # "sweep"
           /\ pc = "read" => path'[c] \in Path /\ data[path'[c]] \in Payload
  PROVE  NothingSwept'
<1>1. /\ thread'[c][t].pc = pc
      /\ \A u \in Thread : u # t => thread'[c][u] = thread[c][u]
  BY OwnStep
<1>2. \A d \in Client : d = c
  BY DEF Sheltered
<1>3. CASE t = "flusher"
  BY <1>1, <1>2, <1>3 DEF NothingSwept
<1>4. CASE t # "flusher"
  BY <1>1, <1>2, <1>4, Daemons DEF NothingSwept
<1>. QED  BY <1>3, <1>4

LEMMA SendTraceCalm ==
  ASSUME Sheltered, Parts, NothingSwept, NEW c \in Client, NEW t \in App, SendTrace(c, t)
  PROVE  NothingSwept'
<1>1. /\ t \in Thread /\ t # "flusher" /\ t \notin Daemon /\ ~disabled[ProcOf[c]]
      /\ Held(c, t) \in Payload
  BY Daemons DEF Daemon, NothingSwept, SendTrace, At, Parts, ThreadType, HoldsItem
<1>2. UNCHANGED <<disabled, data, lock, dropped, path>>
  BY <1>1 DEF SendTrace, diskVars
<1>3. PICK pc \in {"idle", "spill"}, x \in {None, Held(c, t)} : Go(c, t, pc, x, 0)
  BY <1>1 DEF SendTrace, Overflow, Return
<1>. QED  BY <1>1, <1>2, <1>3, MoveSweepsNothing DEF Steps

(***************************************************************************)
(* enqueue: nothing is pruned, and the file that is created and then       *)
(* written is the only empty one.                                          *)
(***************************************************************************)
LEMMA SpillOpenCalm ==
  ASSUME Sheltered, Parts, NothingSwept, NEW c \in Client, NEW t \in Thread,
         NEW f \in Path, NEW K \in SUBSET Files, SpillOpen(c, t, f, K)
  PROVE  NothingSwept'
<1>1. Alive(c) /\ Held(c, t) \in Payload /\ "write" \in Steps
  BY DEF SpillOpen, At, Parts, ThreadType, HoldsItem, Steps
<1>2. Go(c, t, "write", Held(c, t), 0) /\ UNCHANGED <<disabled, path>>
  BY DEF SpillOpen, clientVars
<1>3. K = Files
  BY DEF SpillOpen, Create, PruneLeaves, Sheltered
<1>4. /\ data[f] = None /\ data'[f] = Blank
      /\ \A g \in Path : g # f => data'[g] = data[g]
      /\ lock'[c] = f /\ lock[c] = None
  BY <1>3 DEF SpillOpen, Create, KeepOnly, Files, Parts, DiskType
<1>5. dropped' = dropped
  BY <1>3 DEF SpillOpen, Pruned, Written
<1>6. /\ thread'[c][t].pc = "write"
      /\ \A u \in Thread : u # t => thread'[c][u] = thread[c][u]
  BY <1>1, <1>2, OwnStep
<1>7. \A d \in Client : d = c
  BY DEF Sheltered
<1>8. \A g \in Path : data'[g] = Blank => lock'[c] = g
  BY <1>4, <1>7 DEF NothingSwept
<1>9. thread'[c]["flusher"].pc = "read" => path'[c] \in Path /\ data'[path'[c]] \in Payload
  BY <1>2, <1>4, <1>6, Daemons, DiskConstants DEF NothingSwept
<1>10. thread'[c]["flusher"].pc # "sweep"
  BY <1>6, Daemons DEF NothingSwept
<1>. QED  BY <1>2, <1>4, <1>5, <1>7, <1>8, <1>9, <1>10 DEF NothingSwept

LEMMA SpillWriteCalm ==
  ASSUME Sheltered, Parts, NothingSwept, NEW c \in Client, NEW t \in Thread,
         SpillWrite(c, t)
  PROVE  NothingSwept'
<1>1. Alive(c) /\ Held(c, t) \in Payload
  BY DEF SpillWrite, At, Parts, ThreadType, HoldsItem
<1>2. PICK pc \in {"loop", "idle"} : Go(c, t, pc, None, 0)
  BY DEF SpillWrite, Return
<1>3. pc \in Steps /\ UNCHANGED <<disabled, path>>
  BY DEF SpillWrite, clientVars, Steps
<1>4. lock[c] # None /\ lock[c] \in Path /\ data[lock[c]] = Blank
  BY DEF SpillWrite, Fill, NothingSwept, Parts, DiskType
<1>5. lock[c] \in Files
  BY <1>4, DiskConstants DEF Files
<1>6. /\ dropped' = dropped /\ lock'[c] = None
      /\ data'[lock[c]] = Held(c, t)
      /\ \A g \in Path : g # lock[c] => data'[g] = data[g]
  BY <1>4, <1>5 DEF SpillWrite, Fill, Parts, DiskType
<1>7. /\ thread'[c][t].pc = pc
      /\ \A u \in Thread : u # t => thread'[c][u] = thread[c][u]
  BY <1>2, <1>3, OwnStep
<1>8. \A d \in Client : d = c
  BY DEF Sheltered
<1>9. \A g \in Path : data'[g] # Blank
  BY <1>1, <1>6, <1>8, DiskConstants DEF NothingSwept
<1>10. thread'[c]["flusher"].pc = "read" => path'[c] \in Path /\ data'[path'[c]] \in Payload
  BY <1>1, <1>3, <1>6, <1>7, Daemons DEF NothingSwept
<1>11. thread'[c]["flusher"].pc # "sweep"
  BY <1>7, Daemons DEF NothingSwept
<1>. QED  BY <1>3, <1>6, <1>8, <1>9, <1>10, <1>11 DEF NothingSwept

(* SpillError needs an I/O error. *)
LEMMA SpillCalm ==
  ASSUME Sheltered, Parts, NothingSwept, NEW c \in Client, NEW t \in Thread, Spill(c, t)
  PROVE  NothingSwept'
<1>1. "io" \notin Events
  BY DEF Sheltered
<1>. QED  BY <1>1, SpillOpenCalm, SpillWriteCalm DEF Spill, SpillError

LEMMA PostCalm ==
  ASSUME Sheltered, Parts, NothingSwept, NEW c \in Client, NEW t \in Daemon,
         PostAnswered(c, t) \/ PostFailed(c, t)
  PROVE  NothingSwept'
<1>1. t \in Thread /\ UNCHANGED <<disabled, data, lock, dropped, path>>
  BY DEF PostAnswered, PostFailed, Thread, clientVars, diskVars
<1>2. Held(c, t) \in Payload /\ thread[c][t].failed \in Nat
  BY <1>1 DEF PostAnswered, PostFailed, At, Parts, ThreadType, HoldsItem, ThreadState
<1>3. PICK pc \in {"loop", "clear", "post", "spill"}, p \in Payload \cup {None}, n \in Nat :
        Go(c, t, pc, p, n)
  BY <1>2 DEF PostAnswered, PostFailed, GiveUp, Return, Daemon
<1>4. pc \in Steps /\ pc \notin {"read", "sweep"}
  BY DEF Steps
<1>. QED  BY <1>1, <1>3, <1>4, MoveSweepsNothing

LEMMA WorkerCalm ==
  ASSUME Sheltered, Parts, NothingSwept, NEW c \in Client, Worker(c)
  PROVE  NothingSwept'
<1>0. "worker" \in Thread \ {"flusher"} /\ "worker" \in Daemon
  BY Daemons DEF Daemon
<1>1. CASE WorkerLoop(c) \/ WorkerTimeout(c)
  <2>1. PICK pc \in {"done", "get", "loop"} : Go(c, "worker", pc, None, 0)
    BY <1>0, <1>1 DEF WorkerLoop, WorkerTimeout, Return
  <2>2. pc \in Steps /\ UNCHANGED <<disabled, data, lock, dropped, path>>
    BY <1>1 DEF Steps, WorkerLoop, WorkerTimeout, OnlyThreads, clientVars, diskVars
  <2>. QED  BY <1>0, <2>1, <2>2, MoveSweepsNothing
<1>2. CASE WorkerGet(c)
  <2>1. Head(queue[c]) \in Payload \cup {Stop} /\ ~disabled[ProcOf[c]]
    BY <1>2, HeadTailProperties DEF WorkerGet, Parts, ClientType, NothingSwept
  <2>2. PICK pc \in {"done", "post"}, x \in Payload \cup {None} : Go(c, "worker", pc, x, 0)
    BY <1>2, <2>1 DEF WorkerGet
  <2>3. pc \in Steps /\ UNCHANGED <<disabled, data, lock, dropped, path>>
    BY <1>2, <2>1 DEF Steps, WorkerGet, diskVars
  <2>. QED  BY <1>0, <2>2, <2>3, MoveSweepsNothing
<1>. QED  BY <1>0, <1>1, <1>2, PostCalm, SpillCalm DEF Worker

(* What the flusher removes from the disk it holds, or it is delivered. *)
LEMMA FlusherClearCalm ==
  ASSUME Sheltered, Parts, NothingSwept, NEW c \in Client, FlusherClear(c)
  PROVE  NothingSwept'
<1>1. "flusher" \in Thread /\ UNCHANGED <<disabled, dropped, lock>>
  BY Daemons DEF FlusherClear, Handled, Clear, clientVars
<1>2. lock[c] = None /\ \A g \in Path : data'[g] \in {data[g], None}
  BY DEF FlusherClear, Handled, Clear, Parts, DiskType
<1>3. PICK pc \in {"loop", "spill"}, p \in Payload \cup {None} : Go(c, "flusher", pc, p, 0)
  <2>1. Held(c, "flusher") \in Payload \cup {None}
    BY <1>1 DEF Parts, ThreadType, ThreadState, Held
  <2>. QED  BY <2>1 DEF FlusherClear, Handled, Return, Daemon
<1>4. pc \in Steps
  BY DEF Steps
<1>5. thread'[c]["flusher"].pc = pc
  BY <1>1, <1>3, <1>4, OwnStep
<1>6. \A d \in Client : d = c
  BY DEF Sheltered
<1>. QED  BY <1>1, <1>2, <1>5, <1>6, DiskConstants DEF NothingSwept

LEMMA FlusherCalm ==
  ASSUME Sheltered, Parts, NothingSwept, NEW c \in Client, Flusher(c)
  PROVE  NothingSwept'
<1>0. "flusher" \in Thread /\ "flusher" \in Daemon
  BY Daemons DEF Daemon
<1>1. ASSUME NEW f \in Path, FlusherPick(c, f)
      PROVE  NothingSwept'
  <2>1. /\ Go(c, "flusher", "read", None, 0) /\ "read" \in Steps
        /\ UNCHANGED <<disabled, data, lock, dropped>>
    BY <1>1 DEF FlusherPick, Steps, clientVars, diskVars
  <2>2. path'[c] = f /\ lock[c] = None /\ data[f] # None
    BY <1>1 DEF FlusherPick, Oldest, Files, Parts, OtherType
  <2>3. data[f] \in Payload
    <3>1. \A d \in Client : d = c
      BY DEF Sheltered
    <3>2. f # None
      BY DiskConstants
    <3>. QED  BY <2>2, <3>1, <3>2 DEF NothingSwept, Parts, DiskType
  <2>. QED  BY <1>0, <2>1, <2>2, <2>3, MoveSweepsNothing
<1>2. CASE FlusherRead(c)
  <2>1. ~disabled[ProcOf[c]] /\ data[path[c]] \in Payload
    BY <1>2 DEF FlusherRead, At, NothingSwept
  <2>2. PICK pc \in {"clear", "post"} : Go(c, "flusher", pc, data[path[c]], 0)
    BY <1>2, <2>1, DiskConstants DEF FlusherRead, StartPosting
  <2>3. pc \in Steps /\ UNCHANGED <<disabled, data, lock, dropped>>
    BY <1>2 DEF Steps, FlusherRead, clientVars, diskVars
  <2>. QED  BY <1>0, <2>1, <2>2, <2>3, MoveSweepsNothing
<1>3. CASE FlusherStop(c)
  <2>1. /\ Go(c, "flusher", "done", None, 0) /\ "done" \in Steps
        /\ UNCHANGED <<disabled, data, lock, dropped>>
    BY <1>3 DEF FlusherStop, OnlyThreads, Steps, clientVars, diskVars
  <2>. QED  BY <1>0, <2>1, MoveSweepsNothing
<1>4. ~FlusherSweep(c)
  BY DEF FlusherSweep, At, NothingSwept
<1>. QED  BY <1>0, <1>1, <1>2, <1>3, <1>4, FlusherClearCalm, PostCalm, SpillCalm DEF Flusher

LEMMA CallerCalm ==
  ASSUME Sheltered, Parts, NothingSwept, NEW c \in Client, NEW t \in App,
         Caller(c, t) \/ FlushCall(c, t) \/ \E p \in Payload : Emit(c, t, p)
  PROVE  NothingSwept'
<1>0. t \in Thread \ {"flusher"}
  BY Daemons DEF Daemon
<1>1. CASE FlushPoll(c, t) \/ FlushAgain(c, t) \/ FlushTimeout(c, t) \/ FlushCall(c, t)
  <2>1. PICK pc \in {"again", "idle", "flush"} : Go(c, t, pc, None, 0)
    BY <1>0, <1>1 DEF FlushPoll, FlushAgain, FlushTimeout, FlushCall, Return, Daemon
  <2>2. pc \in Steps /\ UNCHANGED <<disabled, data, lock, dropped, path>>
    BY <1>1 DEF Steps, FlushPoll, FlushAgain, FlushTimeout, FlushCall, OnlyThreads, clientVars,
                diskVars
  <2>. QED  BY <1>0, <2>1, <2>2, MoveSweepsNothing
<1>2. CASE \E p \in Payload : Emit(c, t, p)
  <2>1. PICK p \in Payload : Emit(c, t, p)
    BY <1>2
  <2>2. /\ Go(c, t, "send", p, 0) /\ "send" \in Steps
        /\ UNCHANGED <<disabled, data, lock, dropped, path>>
    BY <2>1 DEF Emit, diskVars, Steps
  <2>. QED  BY <1>0, <2>2, MoveSweepsNothing
<1>. QED  BY <1>0, <1>1, <1>2, SendTraceCalm, SpillCalm DEF Caller

LEMMA NextCalm ==
  ASSUME Sheltered, TypeInv, NothingSwept, [Next]_vars
  PROVE  NothingSwept'
<1>0. Parts
  BY TypeParts DEF Parts
<1>1. CASE UNCHANGED <<disabled, thread, path, diskVars, dropped>>
  BY <1>1 DEF NothingSwept, diskVars
<1>2. \A q \in Proc : ~Configure(q) /\ ~Exit(q)
  BY DEF Sheltered, Configure, Exit
<1>3. CASE \/ \E c \in Client : Close(c)
           \/ \E q \in Proc : ResetClient(q)
           \/ ServerSwitch \/ UNCHANGED vars
  BY <1>1, <1>3 DEF Close, ResetClient, ServerSwitch, vars, clientVars
<1>. QED  BY <1>0, <1>2, <1>3, WorkerCalm, FlusherCalm, CallerCalm DEF Next, Environment

(***************************************************************************)
(* A client that nobody closes stays up: only its threads move, and its    *)
(* worker never gets the None that close() puts into the queue.            *)
(***************************************************************************)
LEMMA ThreadsStayUp ==
  ASSUME Undisturbed, Parts, StaysUp, NEW c \in Client,
         Worker(c) \/ Flusher(c) \/ \E t \in App : Caller(c, t) \/ FlushCall(c, t)
  PROVE  thread'[c]["worker"].pc # "done" /\ queue'[c] \in Seq(Payload)
<1>0. /\ ThreadType /\ queue \in [Client -> Seq(Payload \cup {Stop})]
      /\ queue[c] \in Seq(Payload) /\ thread[c]["worker"].pc # "done" /\ status[c] # "closed"
      /\ "worker" \in Thread /\ "worker" \in Daemon /\ "flusher" # "worker"
      /\ \A t \in App : t \in Thread \ {"worker"}
  BY Daemons DEF Parts, ClientType, StaysUp, Daemon
<1>1. ASSUME NEW t, NEW pc, NEW x, NEW n, Go(c, t, pc, x, n), t # "worker" \/ pc # "done"
      PROVE  thread'[c]["worker"].pc # "done"
  BY <1>0, <1>1 DEF Go, ThreadType
<1>2. ASSUME NEW t, Return(c, t)
      PROVE  thread'[c]["worker"].pc # "done"
  BY <1>1, <1>2 DEF Return
<1>3. ASSUME NEW t \in Thread, Spill(c, t)
      PROVE  thread'[c]["worker"].pc # "done" /\ UNCHANGED queue
  BY <1>1, <1>2, <1>3 DEF Spill, SpillOpen, SpillWrite, SpillError, clientVars
<1>4. ASSUME NEW t \in Daemon, PostAnswered(c, t) \/ PostFailed(c, t)
      PROVE  thread'[c]["worker"].pc # "done" /\ UNCHANGED queue
  BY <1>1, <1>2, <1>4 DEF PostAnswered, PostFailed, GiveUp, clientVars
<1>5. CASE WorkerGet(c)
  <2>1. Head(queue[c]) \in Payload /\ Tail(queue[c]) \in Seq(Payload) /\ Stop \notin Payload
    BY <1>0, <1>5, TransportConstants DEF WorkerGet
  <2>2. queue'[c] \in Seq(Payload)
    BY <1>0, <1>5, <2>1 DEF WorkerGet
  <2>. QED  BY <1>1, <1>2, <1>5, <2>1, <2>2 DEF WorkerGet
<1>6. CASE WorkerLoop(c) \/ WorkerTimeout(c)
  BY <1>0, <1>1, <1>2, <1>6 DEF WorkerLoop, WorkerTimeout, StopSeen, OnlyThreads, clientVars
<1>7. CASE Worker(c)
  BY <1>0, <1>3, <1>4, <1>5, <1>6, <1>7 DEF Worker
<1>8. CASE Flusher(c)
  BY <1>0, <1>1, <1>2, <1>3, <1>4, <1>8, Daemons
     DEF Flusher, FlusherStop, FlusherPick, FlusherRead, StartPosting, FlusherSweep,
         FlusherClear, Handled, OnlyThreads, clientVars, Daemon
<1>9. CASE \E t \in App : SendTrace(c, t)
  <2>1. PICK t \in App : SendTrace(c, t)
    BY <1>9
  <2>2. Held(c, t) \in Payload
    BY <1>0, <2>1 DEF SendTrace, At, ThreadType, HoldsItem
  <2>3. queue'[c] \in Seq(Payload)
    <3>1. CASE queue' = [queue EXCEPT ![c] = Append(@, Held(c, t))]
      BY <1>0, <2>2, <3>1
    <3>. QED  BY <1>0, <2>1, <3>1 DEF SendTrace
  <2>. QED  BY <1>0, <1>1, <1>2, <2>1, <2>3 DEF SendTrace, Overflow
<1>10. CASE \E t \in App : FlushPoll(c, t) \/ FlushAgain(c, t) \/ FlushTimeout(c, t)
                           \/ FlushCall(c, t)
  BY <1>0, <1>1, <1>2, <1>10
     DEF FlushPoll, FlushAgain, FlushTimeout, FlushCall, OnlyThreads, clientVars
<1>11. CASE \E t \in App : Spill(c, t)
  BY <1>0, <1>3, <1>11
<1>. QED  BY <1>7, <1>8, <1>9, <1>10, <1>11 DEF Caller

LEMMA NextStaysUp ==
  ASSUME Undisturbed, TypeInv, StaysUp, [Next]_vars
  PROVE  StaysUp'
<1>0. Parts /\ ThreadType
  BY TypeParts DEF Parts
<1>1. ASSUME NEW c \in Client,
             \/ Worker(c) \/ Flusher(c)
             \/ \E t \in App : Caller(c, t) \/ FlushCall(c, t)
      PROVE  StaysUp'
  <2>1. Alive(c) /\ UNCHANGED <<status, current>>
    BY <1>0, <1>1, OwnClient
  <2>2. thread'[c]["worker"].pc # "done" /\ queue'[c] \in Seq(Payload)
    BY <1>0, <1>1, ThreadsStayUp
  <2>3. \A d \in Client : d = c
    BY DEF Undisturbed, Sheltered
  <2>. QED  BY <2>1, <2>2, <2>3 DEF StaysUp, Alive
<1>2. ASSUME NEW c \in Client, NEW t \in App, NEW p \in Payload, Emit(c, t, p)
      PROVE  StaysUp'
  <2>1. t # "worker" /\ UNCHANGED queue
    BY <1>2 DEF Emit, Daemon
  <2>2. thread'[c]["worker"] = thread[c]["worker"]
    BY <1>0, <1>2, <2>1 DEF Emit, Go, ThreadType
  <2>3. \A d \in Client : d = c
    BY DEF Undisturbed, Sheltered
  <2>4. status'[c] = "up" /\ \A q \in Proc : current'[q] # None => current'[q] = c
    BY <1>0, <1>2, <2>3 DEF Emit, StaysUp, Parts, ClientType
  <2>. QED  BY <2>1, <2>2, <2>3, <2>4 DEF StaysUp
<1>3. /\ \A c \in Client : ~Close(c)
      /\ \A q \in Proc : ~ResetClient(q) /\ ~Configure(q) /\ ~Exit(q)
  BY DEF Undisturbed, Sheltered, Close, ResetClient, Configure, Exit
<1>4. CASE ServerSwitch \/ UNCHANGED vars
  BY <1>4 DEF ServerSwitch, vars, clientVars, StaysUp
<1>. QED  BY <1>1, <1>2, <1>3, <1>4 DEF Next, Environment

(***************************************************************************)
(* What is nowhere but in a queue or a hand is with the client that lives. *)
(***************************************************************************)
LEMMA KeptIsLive ==
  ASSUME TypeInv, Aux, Conservation, StaysUp, NothingSwept
  PROVE  NoLoss
<1>. SUFFICES ASSUME NEW p \in sent PROVE Live(p) \/ Settled(p)
  BY DEF NoLoss
<1>0. p \in Payload /\ p # None
  BY TypeParts DEF OtherType
<1>1. ASSUME NEW c \in Client, InQueue(p, c)
      PROVE  Served(c)
  <2>1. queue[c] # <<>>
    BY <1>1 DEF InQueue
  <2>. QED  BY <2>1 DEF StaysUp, Served, Alive
<1>2. ASSUME NEW c \in Client, InHand(p, c)
      PROVE  Alive(c)
  <2>1. PICK t \in Thread : Held(c, t) = p
    BY <1>2 DEF InHand
  <2>2. thread[c][t].pc \notin {"idle", "loop"}
    BY <1>0, <2>1 DEF Aux, IdleEmpty, Resting
  <2>. QED  BY <2>2 DEF StaysUp, Alive
<1>3. dropped = {}
  BY DEF NothingSwept
<1>. QED  BY <1>1, <1>2, <1>3 DEF Conservation, Live

(* The inductive invariant of a client that is alone on its directory, ... *)
LEMMA ShelterHolds ==
  ASSUME Sheltered
  PROVE  Spec => [](TypeInv /\ Aux /\ Conservation /\ NothingSwept)
<1>. DEFINE Inv == TypeInv /\ Aux /\ Conservation /\ NothingSwept
<1>1. Init => Inv
  <2>. SUFFICES ASSUME Init PROVE Inv
    OBVIOUS
  <2>1. disabled \in [Proc -> {FALSE}]
    BY DEF Init, Sheltered
  <2>2. NothingSwept
    BY <2>1, DiskConstants DEF Init, DiskInit, NothingSwept, Thread, Daemon
  <2>3. Conservation
    BY DEF Init, Conservation
  <2>. QED  BY <2>2, <2>3, InitType, InitAux
<1>2. Inv /\ [Next]_vars => Inv'
  BY NextCalm, NextType, ConservationStep
<1>. QED  BY <1>1, <1>2, PTL DEF Spec

(* ... and of one that nobody closes. *)
LEMMA CalmHolds ==
  ASSUME Undisturbed
  PROVE  Spec => [](TypeInv /\ Aux /\ Conservation /\ StaysUp /\ NothingSwept)
<1>0. Sheltered
  BY DEF Undisturbed
<1>1. Init => StaysUp
  <2>. SUFFICES ASSUME Init PROVE StaysUp
    OBVIOUS
  <2>1. \A c \in Client, t \in Thread : thread[c][t].pc \in {"idle", "loop"}
    BY DEF Init
  <2>2. \A c \in Client : queue[c] = <<>> /\ <<>> \in Seq(Payload)
    BY DEF Init
  <2>. QED  BY <2>1, <2>2, Daemons DEF Init, StaysUp
<1>2. TypeInv /\ StaysUp /\ [Next]_vars => StaysUp'
  BY NextStaysUp
<1>3. Spec => [](TypeInv /\ Aux /\ Conservation /\ NothingSwept)
  BY <1>0, ShelterHolds
<1>. QED  BY <1>1, <1>2, <1>3, PTL DEF Spec

(***************************************************************************)
(* No outage, error, refusal or full queue, in whatever order, and no      *)
(* interleaving of callers, worker and flusher makes a client that is left *)
(* alone forget a payload before the backend has answered it: for any      *)
(* number of threads, payloads and attempts, any capacity.                 *)
(***************************************************************************)
THEOREM NothingLost ==
  ASSUME Undisturbed
  PROVE  Spec => []NoLoss
<1>1. TypeInv /\ Aux /\ Conservation /\ StaysUp /\ NothingSwept => NoLoss
  BY KeptIsLive
<1>. QED  BY <1>1, CalmHolds, PTL

-----------------------------------------------------------------------------
(***************************************************************************)
(* In any instance: what is on disk, in a queue or a hand, or has reached  *)
(* the backend is a payload somebody gave to emit_trace; and what nobody   *)
(* is going to look at again stays so.                                     *)
(***************************************************************************)
Somewhere(p) == \/ OnDisk(p) \/ Settled(p)
                \/ \E c \in Client : InQueue(p, c) \/ InHand(p, c)

Provenance == \A p \in Payload : Somewhere(p) => p \in sent

(* A client that has not been built holds nothing; the shared client of a  *)
(* process lives in it.                                                    *)
Built ==
  /\ \A c \in Client : status[c] = "none" =>
       queue[c] = <<>> /\ \A t \in Thread : Held(c, t) = None
  /\ \A q \in Proc : current[q] # None => Alive(current[q]) /\ ProcOf[current[q]] = q

(* No step but Emit makes a payload appear, or come back. *)
NoneAppears ==
  \A p \in Payload : (Somewhere(p)' => Somewhere(p)) /\ (Live(p)' => Live(p))

(* Thread t of a client that lives has code to run. *)
Runs(c, t) == Alive(c) /\ thread[c][t].pc # "done"

LEMMA MoveFrom ==
  ASSUME Parts, NEW c \in Client, NEW t \in Thread, Runs(c, t), UNCHANGED status,
         NEW pc \in Steps, NEW x \in Payload \cup {None}, NEW n \in Nat,
         Go(c, t, pc, x, n),
         NEW p \in Payload,
         x = p => Live(p),
         OnDisk(p)' => Live(p),
         Settled(p)' => Somewhere(p),
         \A d \in Client : InQueue(p, d)' => InQueue(p, d) \/ Live(p)
  PROVE  (Somewhere(p)' => Somewhere(p)) /\ (Live(p)' => Live(p))
<1>0. ThreadType
  BY DEF Parts
<1>1. /\ thread'[c][t] = [pc |-> pc, item |-> x, failed |-> n]
      /\ \A d \in Client, u \in Thread : d # c \/ u # t => thread'[d][u] = thread[d][u]
  BY <1>0, GoSteps
<1>2. \A d \in Client : InHand(p, d)' => InHand(p, d) \/ Live(p)
  <2>. SUFFICES ASSUME NEW d \in Client, NEW u \in Thread, thread'[d][u].item = p
                PROVE  InHand(p, d) \/ Live(p)
    BY DEF InHand, Held
  <2>1. CASE d = c /\ u = t
    BY <1>1, <2>1
  <2>2. CASE d # c \/ u # t
    BY <1>1, <2>2 DEF InHand, Held
  <2>. QED  BY <2>1, <2>2
<1>3. Live(p) => Somewhere(p)
  BY DEF Live, Somewhere
<1>4. \A d \in Client : (Alive(d)' => Alive(d)) /\ (Served(d)' => Served(d))
  BY <1>1, Daemons DEF Alive, Served, Runs
<1>. QED  BY <1>2, <1>3, <1>4 DEF Somewhere, Live

LEMMA SameFrom ==
  ASSUME NEW p \in Payload
  PROVE  /\ (\A f \in Path : data'[f] \in {data[f], None, Blank}) =>
               (OnDisk(p)' => Live(p))
         /\ UNCHANGED queue => \A d \in Client : InQueue(p, d)' => InQueue(p, d)
         /\ UNCHANGED <<copies, refused>> => (Settled(p)' => Somewhere(p))
<1>1. p # None /\ p # Blank
  BY DiskConstants
<1>. QED  BY <1>1 DEF Somewhere, Live, OnDisk, InQueue, Settled

LEMMA HeldLive ==
  ASSUME NEW c \in Client, NEW t \in Thread, Alive(c), Held(c, t) \in Payload
  PROVE  Live(Held(c, t))
BY DEF Live, InHand

LEMMA AppendFrom ==
  ASSUME ClientType, NEW c \in Client, NEW y \in Payload \cup {Stop},
         queue' = [queue EXCEPT ![c] = Append(@, y)],
         NEW p \in Payload, p = y => Live(p)
  PROVE  \A d \in Client : InQueue(p, d)' => InQueue(p, d) \/ Live(p)
<1>1. /\ queue[c] \in Seq(Payload \cup {Stop}) /\ queue'[c] = Append(queue[c], y)
      /\ \A d \in Client \ {c} : queue'[d] = queue[d]
  BY DEF ClientType
<1>2. \A i \in DOMAIN queue'[c] :
        queue'[c][i] = y \/ (i \in DOMAIN queue[c] /\ queue'[c][i] = queue[c][i])
  BY <1>1, AppendProperties
<1>. QED  BY <1>1, <1>2 DEF InQueue

LEMMA TailFrom ==
  ASSUME ClientType, NEW c \in Client, queue[c] # <<>>,
         queue' = [queue EXCEPT ![c] = Tail(@)], NEW p \in Payload
  PROVE  /\ \A d \in Client : InQueue(p, d)' => InQueue(p, d)
         /\ p = Head(queue[c]) => InQueue(p, c)
<1>1. /\ queue[c] \in Seq(Payload \cup {Stop}) /\ queue'[c] = Tail(queue[c])
      /\ \A d \in Client \ {c} : queue'[d] = queue[d]
  BY DEF ClientType
<1>2. /\ Len(queue[c]) \in Nat /\ DOMAIN queue[c] = 1..Len(queue[c])
      /\ Len(queue[c]) # 0 /\ Head(queue[c]) = queue[c][1]
  BY <1>1
<1>3. /\ Tail(queue[c]) \in Seq(Payload \cup {Stop})
      /\ Len(Tail(queue[c])) = Len(queue[c]) - 1
      /\ \A j \in 1..Len(Tail(queue[c])) : Tail(queue[c])[j] = queue[c][j + 1]
  BY <1>1, HeadTailProperties
<1>4. DOMAIN Tail(queue[c]) = 1..Len(Tail(queue[c]))
  BY <1>3
<1>5. ASSUME NEW i \in 1..Len(Tail(queue[c]))
      PROVE  i + 1 \in DOMAIN queue[c] /\ Tail(queue[c])[i] = queue[c][i + 1]
  BY <1>2, <1>3, <1>5
<1>6. 1 \in DOMAIN queue[c]
  BY <1>2
<1>. QED  BY <1>1, <1>2, <1>4, <1>5, <1>6 DEF InQueue

(* A thread moves on, and neither disk nor queues nor backend gain anything. *)
LEMMA PlainMove ==
  ASSUME Parts, NEW c \in Client, NEW t \in Thread, Runs(c, t), UNCHANGED status,
         NEW pc \in Steps, NEW x \in Payload \cup {None}, NEW n \in Nat,
         Go(c, t, pc, x, n),
         x \in Payload => Live(x),
         \A f \in Path : data'[f] \in {data[f], None, Blank},
         UNCHANGED <<queue, copies, refused>>
  PROVE  NoneAppears
BY MoveFrom, SameFrom DEF NoneAppears

LEMMA SendTraceFrom ==
  ASSUME Parts, NEW c \in Client, NEW t \in App, SendTrace(c, t)
  PROVE  NoneAppears
<1>0. t \in Thread /\ ClientType /\ thread[c][t].pc = "send" /\ Alive(c) /\ Runs(c, t)
  BY Daemons DEF Parts, SendTrace, At, Runs
<1>1. Held(c, t) \in Payload /\ Live(Held(c, t))
  BY <1>0, HeldType, HeldLive DEF Parts
<1>2. UNCHANGED <<data, copies, refused, status>>
  BY DEF SendTrace, serverVars, diskVars
<1>3. CASE UNCHANGED queue
  <2>1. PICK pc \in {"loop", "idle", "spill"}, x \in {None, Held(c, t)} : Go(c, t, pc, x, 0)
    <3>1. \A pc \in {"loop", "idle"} : pc \in {"loop", "idle", "spill"}
      OBVIOUS
    <3>. QED  BY <3>1 DEF SendTrace, Overflow, Return
  <2>2. pc \in Steps
    BY DEF Steps
  <2>. QED  BY <1>0, <1>1, <1>2, <1>3, <2>1, <2>2, PlainMove, DiskConstants
<1>4. CASE queue' = [queue EXCEPT ![c] = Append(@, Held(c, t))] /\ Return(c, t)
  <2>1. PICK pc \in {"loop", "idle"} : Go(c, t, pc, None, 0)
    BY <1>4, GoReturn, <1>0
  <2>2. pc \in Steps
    BY DEF Steps
  <2>. SUFFICES ASSUME NEW p \in Payload
                PROVE  (Somewhere(p)' => Somewhere(p)) /\ (Live(p)' => Live(p))
    BY DEF NoneAppears
  <2>3. \A d \in Client : InQueue(p, d)' => InQueue(p, d) \/ Live(p)
    BY <1>0, <1>1, <1>4, AppendFrom
  <2>4. (OnDisk(p)' => Live(p)) /\ (Settled(p)' => Somewhere(p)) /\ p # None
    BY <1>2, SameFrom, DiskConstants
  <2>. QED  BY <1>0, <1>2, <2>1, <2>2, <2>3, <2>4, MoveFrom
<1>. QED  BY <1>3, <1>4 DEF SendTrace

LEMMA SpillFrom ==
  ASSUME Parts, NEW c \in Client, NEW t \in Thread, Spill(c, t)
  PROVE  NoneAppears
<1>0. DiskType /\ ThreadType /\ Held(c, t) \in Payload \cup {None}
  BY HeldType DEF Parts
<1>1. Runs(c, t) /\ UNCHANGED status /\ (Held(c, t) \in Payload => Live(Held(c, t)))
  BY HeldLive DEF Spill, SpillOpen, SpillWrite, SpillError, At, Runs, clientVars
<1>2. CASE \E f \in Path, K \in SUBSET Files : SpillOpen(c, t, f, K)
  <2>1. PICK f \in Path, K \in SUBSET Files : SpillOpen(c, t, f, K)
    BY <1>2
  <2>2. \A g \in Path : data'[g] \in {data[g], None, Blank}
    BY <2>1 DEF SpillOpen, Create, KeepOnly
  <2>3. Go(c, t, "write", Held(c, t), 0) /\ "write" \in Steps
    BY <2>1 DEF SpillOpen, Steps
  <2>4. UNCHANGED <<queue, copies, refused>>
    BY <2>1 DEF SpillOpen, clientVars, serverVars
  <2>. QED  BY <1>0, <1>1, <2>2, <2>3, <2>4, PlainMove
<1>3. CASE SpillWrite(c, t)
  <2>1. PICK pc \in {"loop", "idle"} : Go(c, t, pc, None, 0)
    BY <1>3, GoReturn DEF SpillWrite
  <2>2. pc \in Steps /\ UNCHANGED <<queue, copies, refused>>
    BY <1>3 DEF Steps, SpillWrite, clientVars, serverVars
  <2>3. \A g \in Path : data'[g] \in {data[g], Held(c, t)}
    BY <1>0, <1>3 DEF SpillWrite, Fill, DiskType
  <2>. SUFFICES ASSUME NEW p \in Payload
                PROVE  (Somewhere(p)' => Somewhere(p)) /\ (Live(p)' => Live(p))
    BY DEF NoneAppears
  <2>4. OnDisk(p)' => Live(p)
    BY <1>1, <2>3 DEF OnDisk, Live
  <2>5. /\ \A d \in Client : InQueue(p, d)' => InQueue(p, d)
        /\ Settled(p)' => Somewhere(p)
        /\ p # None
    BY <2>2, SameFrom, DiskConstants
  <2>. QED  BY <1>1, <2>1, <2>2, <2>4, <2>5, MoveFrom
<1>4. CASE \E K \in SUBSET Files : SpillError(c, t, K)
  <2>1. PICK K \in SUBSET Files : SpillError(c, t, K)
    BY <1>4
  <2>2. PICK pc \in {"loop", "idle"} : Go(c, t, pc, None, 0)
    BY <2>1, GoReturn DEF SpillError
  <2>3. pc \in Steps /\ UNCHANGED <<queue, copies, refused>>
    BY <2>1 DEF Steps, SpillError, clientVars, serverVars
  <2>4. \A g \in Path : data'[g] \in {data[g], None, Blank}
    BY <2>1 DEF SpillError, CreateError, FillError, KeepOnly
  <2>. QED  BY <1>1, <2>2, <2>3, <2>4, PlainMove, DiskConstants
<1>. QED  BY <1>2, <1>3, <1>4 DEF Spill

LEMMA PostFrom ==
  ASSUME Parts, NEW c \in Client, NEW t \in Daemon,
         PostAnswered(c, t) \/ PostFailed(c, t)
  PROVE  NoneAppears
<1>0. t \in Thread /\ ThreadType /\ OtherType /\ Alive(c) /\ Runs(c, t)
  BY DEF Parts, Thread, PostAnswered, PostFailed, At, Runs
<1>1. /\ Held(c, t) \in Payload /\ Live(Held(c, t)) /\ Somewhere(Held(c, t))
      /\ thread[c][t].failed + 1 \in Nat
  BY <1>0, HeldType, HeldLive DEF PostAnswered, PostFailed, At, Somewhere, InHand
<1>2. PICK pc \in {"loop", "clear", "post", "spill"}, x \in {None, Held(c, t)}, n \in Nat :
        Go(c, t, pc, x, n)
  BY <1>1 DEF PostAnswered, PostFailed, GiveUp, Return, Daemon
<1>3. pc \in Steps /\ UNCHANGED <<data, queue, status>>
  BY DEF Steps, PostAnswered, PostFailed, clientVars, diskVars
<1>. SUFFICES ASSUME NEW p \in Payload
              PROVE  (Somewhere(p)' => Somewhere(p)) /\ (Live(p)' => Live(p))
  BY DEF NoneAppears
<1>4. Settled(p)' => Somewhere(p)
  <2>1. /\ copies'[p] = copies[p] \/ p = Held(c, t)
        /\ p \in refused' => p \in refused \/ p = Held(c, t)
    BY <1>0, <1>1 DEF PostAnswered, PostFailed, Store, OtherType
  <2>. QED  BY <1>1, <2>1 DEF Settled, Somewhere
<1>5. /\ \A d \in Client : InQueue(p, d)' => InQueue(p, d)
      /\ OnDisk(p)' => Live(p)
      /\ p # None
  BY <1>3, SameFrom, DiskConstants
<1>6. x \in Payload \cup {None} /\ (x = p => Live(p))
  BY <1>1, <1>5
<1>. QED  BY <1>0, <1>2, <1>3, <1>4, <1>5, <1>6, MoveFrom

LEMMA WorkerFrom ==
  ASSUME Parts, NEW c \in Client, Worker(c)
  PROVE  NoneAppears
<1>0. "worker" \in Thread /\ "worker" \in Daemon /\ ClientType
  BY Daemons DEF Daemon, Parts
<1>1. CASE WorkerLoop(c) \/ WorkerTimeout(c)
  <2>1. PICK pc \in {"done", "get", "loop"} : Go(c, "worker", pc, None, 0)
    BY <1>0, <1>1 DEF WorkerLoop, WorkerTimeout, Return
  <2>2. /\ pc \in Steps /\ UNCHANGED <<data, queue, copies, refused, status>>
        /\ Runs(c, "worker")
    BY <1>1 DEF Steps, WorkerLoop, WorkerTimeout, OnlyThreads, clientVars, serverVars, diskVars,
                At, Runs
  <2>. QED  BY <1>0, <2>1, <2>2, PlainMove, DiskConstants
<1>2. CASE WorkerGet(c)
  <2>1. /\ queue[c] # <<>> /\ queue' = [queue EXCEPT ![c] = Tail(@)]
        /\ UNCHANGED <<data, copies, refused, status>>
        /\ Runs(c, "worker") /\ Served(c)
    BY <1>2 DEF WorkerGet, serverVars, diskVars, At, Runs, Served
  <2>2. Head(queue[c]) \in Payload \cup {Stop}
    BY <1>0, <2>1 DEF ClientType
  <2>3. PICK pc \in {"done", "loop", "post"}, x \in (Payload \cap {Head(queue[c])}) \cup {None} :
          Go(c, "worker", pc, x, 0)
    BY <1>0, <1>2, <2>2 DEF WorkerGet, Return
  <2>4. pc \in Steps
    BY DEF Steps
  <2>. SUFFICES ASSUME NEW p \in Payload
                PROVE  (Somewhere(p)' => Somewhere(p)) /\ (Live(p)' => Live(p))
    BY DEF NoneAppears
  <2>5. /\ \A d \in Client : InQueue(p, d)' => InQueue(p, d)
        /\ p = Head(queue[c]) => Live(p)
    BY <1>0, <2>1, TailFrom DEF Live
  <2>6. (OnDisk(p)' => Live(p)) /\ (Settled(p)' => Somewhere(p)) /\ p # None
    BY <2>1, SameFrom, DiskConstants
  <2>. QED  BY <1>0, <2>1, <2>3, <2>4, <2>5, <2>6, MoveFrom
<1>. QED  BY <1>0, <1>1, <1>2, PostFrom, SpillFrom DEF Worker

LEMMA FlusherFrom ==
  ASSUME Parts, Aux, NEW c \in Client, Flusher(c)
  PROVE  NoneAppears
<1>0. /\ "flusher" \in Thread /\ "flusher" \in Daemon /\ DiskType
      /\ Held(c, "flusher") \in Payload \cup {None}
  BY Daemons, HeldType DEF Daemon, Parts
<1>1. CASE FlusherStop(c) \/ \E f \in Path : FlusherPick(c, f)
  <2>1. PICK pc \in {"done", "read"} : Go(c, "flusher", pc, None, 0)
    BY <1>1 DEF FlusherStop, FlusherPick
  <2>2. /\ pc \in Steps /\ UNCHANGED <<data, queue, copies, refused, status>>
        /\ Runs(c, "flusher")
    BY <1>1 DEF Steps, FlusherStop, FlusherPick, OnlyThreads, clientVars, serverVars, diskVars,
                At, Runs
  <2>. QED  BY <1>0, <2>1, <2>2, PlainMove, DiskConstants
<1>2. CASE FlusherRead(c)
  <2>1. path[c] \in Path
    BY <1>2 DEF Aux, SegmentSeen, Seen, FlusherRead, At
  <2>2. PICK pc \in {"loop", "sweep", "clear", "post"},
             x \in (Payload \cap {data[path[c]]}) \cup {None} : Go(c, "flusher", pc, x, 0)
    BY <1>0, <1>2 DEF FlusherRead, Return, StartPosting
  <2>3. /\ pc \in Steps /\ UNCHANGED <<data, queue, copies, refused, status>>
        /\ Runs(c, "flusher")
    BY <1>2 DEF Steps, FlusherRead, clientVars, serverVars, diskVars, At, Runs
  <2>4. x \in Payload => Live(x)
    BY <2>1, DiskConstants DEF Live, OnDisk
  <2>. QED  BY <1>0, <2>2, <2>3, <2>4, PlainMove
<1>3. CASE FlusherSweep(c) \/ FlusherClear(c)
  <2>1. PICK pc \in {"loop", "spill"}, x \in {None, Held(c, "flusher")} :
          Go(c, "flusher", pc, x, 0)
    BY <1>0, <1>3 DEF FlusherSweep, FlusherClear, Handled, Return
  <2>2. /\ pc \in Steps /\ UNCHANGED <<queue, copies, refused, status>>
        /\ Runs(c, "flusher") /\ Alive(c)
    BY <1>3 DEF Steps, FlusherSweep, FlusherClear, clientVars, serverVars, At, Runs
  <2>3. \A g \in Path : data'[g] \in {data[g], None, Blank}
    BY <1>0, <1>3 DEF FlusherSweep, FlusherClear, Handled, Clear, DiskType
  <2>4. x \in Payload => Live(x)
    BY <1>0, <2>2, HeldLive, DiskConstants
  <2>. QED  BY <1>0, <2>1, <2>2, <2>3, <2>4, PlainMove, DiskConstants
<1>. QED  BY <1>0, <1>1, <1>2, <1>3, PostFrom, SpillFrom DEF Flusher

LEMMA CallerFrom ==
  ASSUME Parts, NEW c \in Client, NEW t \in App, Caller(c, t) \/ FlushCall(c, t)
  PROVE  NoneAppears
<1>0. t \in Thread
  BY Daemons
<1>1. CASE FlushPoll(c, t) \/ FlushAgain(c, t) \/ FlushTimeout(c, t) \/ FlushCall(c, t)
  <2>1. PICK pc \in {"again", "idle", "flush", "loop"} : Go(c, t, pc, None, 0)
    BY <1>1 DEF FlushPoll, FlushAgain, FlushTimeout, FlushCall, Return
  <2>2. /\ pc \in Steps /\ UNCHANGED <<data, queue, copies, refused, status>>
        /\ Runs(c, t)
    BY <1>1 DEF Steps, FlushPoll, FlushAgain, FlushTimeout, FlushCall, OnlyThreads,
                clientVars, serverVars, diskVars, At, Runs
  <2>. QED  BY <1>0, <2>1, <2>2, PlainMove, DiskConstants
<1>. QED  BY <1>0, <1>1, SendTraceFrom, SpillFrom DEF Caller

(* Emit puts its own payload, which it adds to sent, into a live hand.     *)
LEMMA EmitFrom ==
  ASSUME Parts, Built, NEW c \in Client, NEW t \in App, NEW y \in Payload, Emit(c, t, y)
  PROVE  /\ \A p \in Payload \ {y} :
              (Somewhere(p)' => Somewhere(p)) /\ (Live(p)' => Live(p))
         /\ Live(y)'
<1>0. /\ t \in Thread /\ t # "worker" /\ ThreadType /\ ClientType
      /\ Go(c, t, "send", y, 0) /\ "send" \in Steps
      /\ UNCHANGED <<data, queue, copies, refused>>
  BY Daemons DEF Emit, Steps, serverVars, diskVars, Parts
<1>1. /\ thread'[c][t] = [pc |-> "send", item |-> y, failed |-> 0]
      /\ \A d \in Client, u \in Thread : d # c \/ u # t => thread'[d][u] = thread[d][u]
  BY <1>0, GoSteps
<1>2. /\ \A d \in Client \ {c} : status'[d] = status[d]
      /\ Alive(c)' /\ (status[c] = "none" \/ status'[c] = status[c])
  <2>1. CASE current[ProcOf[c]] = c /\ UNCHANGED status
    <3>1. Alive(c)
      BY <2>1, TransportConstants DEF Built
    <3>. QED  BY <2>1, <3>1 DEF Alive
  <2>2. CASE status[c] = "none" /\ status' = [status EXCEPT ![c] = "up"]
    BY <1>0, <2>2 DEF ClientType, Alive
  <2>. QED  BY <2>1, <2>2 DEF Emit
<1>3. ASSUME NEW p \in Payload \ {y}, NEW d \in Client
      PROVE  /\ InHand(p, d)' => InHand(p, d)
             /\ InQueue(p, d)' => InQueue(p, d)
             /\ InHand(p, d) \/ InQueue(p, d) => status'[d] = status[d]
  <2>1. InHand(p, d)' => InHand(p, d)
    BY <1>1 DEF InHand, Held
  <2>2. InQueue(p, d)' => InQueue(p, d)
    BY <1>0 DEF InQueue
  <2>3. InHand(p, d) \/ InQueue(p, d) => status[d] # "none"
    BY DiskConstants DEF Built, InHand, InQueue
  <2>. QED  BY <1>2, <2>1, <2>2, <2>3
<1>4. ASSUME NEW p \in Payload \ {y}
      PROVE  (Somewhere(p)' => Somewhere(p)) /\ (Live(p)' => Live(p))
  <2>1. (OnDisk(p)' => OnDisk(p)) /\ (Settled(p)' => Settled(p))
    BY <1>0 DEF OnDisk, Settled
  <2>2. \A d \in Client : status'[d] = status[d] =>
           (Alive(d)' => Alive(d)) /\ (Served(d)' => Served(d))
    BY <1>0, <1>1, Daemons DEF Alive, Served
  <2>. QED  BY <1>3, <2>1, <2>2 DEF Somewhere, Live
<1>5. Live(y)'
  BY <1>0, <1>1, <1>2 DEF Live, InHand, Held
<1>. QED  BY <1>4, <1>5

(* Closing, switching off, ending and outages move no payload. *)
LEMMA StillFrom ==
  ASSUME Parts, UNCHANGED <<thread, data, copies, refused>>,
         \A d \in Client : Alive(d)' => Alive(d),
         \/ UNCHANGED queue
         \/ \E c \in Client : queue' = [queue EXCEPT ![c] = Append(@, Stop)]
  PROVE  NoneAppears
<1>. SUFFICES ASSUME NEW p \in Payload
              PROVE  (Somewhere(p)' => Somewhere(p)) /\ (Live(p)' => Live(p))
  BY DEF NoneAppears
<1>1. \A d \in Client : /\ InHand(p, d)' => InHand(p, d)
                        /\ Served(d)' => Served(d)
  BY DEF InHand, Held, Served
<1>2. \A d \in Client : InQueue(p, d)' => InQueue(p, d) \/ Live(p)
  <2>1. p # Stop /\ ClientType
    BY TransportConstants DEF Parts
  <2>. QED  BY <2>1, AppendFrom, SameFrom
<1>3. (OnDisk(p)' => Live(p)) /\ (Settled(p)' => Somewhere(p))
  BY SameFrom
<1>4. Live(p) => Somewhere(p)
  BY DEF Live, Somewhere
<1>. QED  BY <1>1, <1>2, <1>3, <1>4 DEF Somewhere, Live

LEMMA EnvironmentFrom ==
  ASSUME Parts,
         \/ \E c \in Client : Close(c)
         \/ \E q \in Proc : ResetClient(q) \/ Configure(q) \/ Exit(q)
         \/ ServerSwitch \/ UNCHANGED vars
  PROVE  NoneAppears /\ UNCHANGED sent
<1>0. status \in [Client -> {"none", "up", "closed", "dead"}]
  BY DEF Parts, ClientType
<1>1. ASSUME NEW c \in Client, Close(c)
      PROVE  /\ UNCHANGED queue \/ queue' = [queue EXCEPT ![c] = Append(@, Stop)]
             /\ \A d \in Client : Alive(d)' => Alive(d)
  BY <1>0, <1>1 DEF Close, Alive
<1>2. ASSUME NEW q \in Proc, Exit(q)
      PROVE  UNCHANGED queue /\ \A d \in Client : Alive(d)' => Alive(d)
  BY <1>0, <1>2 DEF Exit, Alive
<1>4. /\ \/ UNCHANGED queue
         \/ \E c \in Client : queue' = [queue EXCEPT ![c] = Append(@, Stop)]
      /\ \A d \in Client : Alive(d)' => Alive(d)
  <2>1. UNCHANGED <<status, queue>> => \A d \in Client : Alive(d)' => Alive(d)
    BY DEF Alive
  <2>. QED  BY <1>1, <1>2, <2>1 DEF ResetClient, Configure, ServerSwitch, vars, clientVars
<1>5. UNCHANGED <<thread, data, copies, refused, sent>>
  BY DEF Close, ResetClient, Configure, Exit, ServerSwitch, vars, serverVars, diskVars
<1>. QED  BY <1>4, <1>5, StillFrom

(* What a step of the SDK does to the three variables the promise is about. *)
Verdicts == <<sent, copies, refused>>

LEMMA StepKinds ==
  ASSUME [Next]_vars
  PROVE  \/ UNCHANGED Verdicts
         \/ \E c \in Client, t \in App, p \in Payload : Emit(c, t, p)
         \/ \E c \in Client, t \in Daemon : PostAnswered(c, t) \/ PostFailed(c, t)
<1>1. ASSUME NEW c \in Client, NEW t \in Thread, Spill(c, t)
      PROVE  UNCHANGED Verdicts
  BY <1>1 DEF Verdicts, Spill, SpillOpen, SpillWrite, SpillError, serverVars
<1>2. ASSUME NEW c \in Client, Worker(c)
      PROVE  UNCHANGED Verdicts \/ PostAnswered(c, "worker") \/ PostFailed(c, "worker")
  BY <1>1, <1>2, Daemons DEF Verdicts, Worker, WorkerLoop, WorkerGet, WorkerTimeout,
                             OnlyThreads, serverVars
<1>3. ASSUME NEW c \in Client, Flusher(c)
      PROVE  UNCHANGED Verdicts \/ PostAnswered(c, "flusher") \/ PostFailed(c, "flusher")
  BY <1>1, <1>3, Daemons DEF Verdicts, Flusher, FlusherStop, FlusherRead, FlusherSweep,
                             FlusherClear, FlusherPick, OnlyThreads, serverVars
<1>4. ASSUME NEW c \in Client, NEW t \in App, Caller(c, t) \/ FlushCall(c, t)
      PROVE  UNCHANGED Verdicts
  BY <1>1, <1>4, Daemons DEF Verdicts, Caller, SendTrace, FlushPoll, FlushAgain,
                             FlushTimeout, FlushCall, OnlyThreads, serverVars
<1>5. ASSUME \/ \E c \in Client : Close(c)
             \/ \E q \in Proc : ResetClient(q) \/ Configure(q) \/ Exit(q)
             \/ ServerSwitch \/ UNCHANGED vars
      PROVE  UNCHANGED Verdicts
  BY <1>5 DEF Verdicts, Close, ResetClient, Configure, Exit, ServerSwitch, vars, serverVars
<1>6. "worker" \in Daemon /\ "flusher" \in Daemon
  BY DEF Daemon
<1>. QED  BY <1>2, <1>3, <1>4, <1>5, <1>6 DEF Next, Environment

LEMMA NextFrom ==
  ASSUME TypeInv, Aux, [Next]_vars
  PROVE  \/ NoneAppears /\ UNCHANGED sent
         \/ \E c \in Client, t \in App, p \in Payload : Emit(c, t, p)
<1>0. Parts
  BY TypeParts DEF Parts
<1>1. CASE ~ \E c \in Client, t \in App, p \in Payload : Emit(c, t, p)
  <2>1. sent' = sent
    BY <1>1, StepKinds DEF Verdicts, PostAnswered, PostFailed
  <2>2. NoneAppears
    BY <1>0, <1>1, WorkerFrom, FlusherFrom, CallerFrom, EnvironmentFrom
       DEF Next, Environment
  <2>. QED  BY <2>1, <2>2
<1>. QED  BY <1>1

LEMMA ProvenanceStep ==
  ASSUME TypeInv, Aux, Built, Provenance, [Next]_vars
  PROVE  Provenance'
<1>0. Parts
  BY TypeParts DEF Parts
<1>1. CASE \E c \in Client, t \in App, p \in Payload : Emit(c, t, p)
  <2>1. PICK c \in Client, t \in App, y \in Payload : Emit(c, t, y)
    BY <1>1
  <2>2. \A p \in Payload \ {y} : Somewhere(p)' => Somewhere(p)
    BY <1>0, <2>1, EmitFrom
  <2>3. sent' = sent \cup {y}
    BY <2>1 DEF Emit
  <2>. QED  BY <2>2, <2>3 DEF Provenance
<1>2. CASE NoneAppears /\ UNCHANGED sent
  BY <1>2 DEF NoneAppears, Provenance
<1>. QED  BY <1>1, <1>2, NextFrom

LEMMA BuiltStep ==
  ASSUME TypeInv, Aux, Built, [Next]_vars
  PROVE  Built'
<1>0. Parts /\ ClientType /\ ThreadType
  BY TypeParts DEF Parts
<1>1. ASSUME NEW c \in Client,
             Worker(c) \/ Flusher(c) \/ \E t \in App : Caller(c, t) \/ FlushCall(c, t)
      PROVE  Built'
  <2>1. /\ Alive(c) /\ UNCHANGED <<status, current>>
        /\ \A d \in Client \ {c} : queue'[d] = queue[d]
        /\ \A d \in Client \ {c}, u \in Thread : Held(d, u)' = Held(d, u)
    BY <1>0, <1>1, OwnClient
  <2>. QED  BY <2>1 DEF Built, Alive
<1>2. ASSUME NEW c \in Client, NEW t \in App, NEW y \in Payload, Emit(c, t, y)
      PROVE  Built'
  <2>1. /\ t \in Thread /\ Go(c, t, "send", y, 0) /\ "send" \in Steps
        /\ UNCHANGED queue
    BY <1>2, Daemons DEF Emit, Steps
  <2>2. \A d \in Client \ {c}, u \in Thread : Held(d, u)' = Held(d, u)
    <3>1. /\ thread'[c][t] = [pc |-> "send", item |-> y, failed |-> 0]
          /\ \A d \in Client, u \in Thread : d # c \/ u # t => thread'[d][u] = thread[d][u]
      BY <1>0, <2>1, GoSteps
    <3>. QED  BY <3>1 DEF Held
  <2>3. CASE current[ProcOf[c]] = c /\ UNCHANGED <<status, current>>
    <3>1. Alive(c)
      BY <2>3, TransportConstants DEF Built
    <3>. QED  BY <2>1, <2>2, <2>3, <3>1 DEF Built, Alive
  <2>4. CASE /\ status' = [status EXCEPT ![c] = "up"]
             /\ current' = [current EXCEPT ![ProcOf[c]] = c]
    <3>1. /\ status'[c] = "up" /\ \A d \in Client \ {c} : status'[d] = status[d]
          /\ \A q \in Proc : \/ current'[q] = current[q]
                             \/ q = ProcOf[c] /\ current'[q] = c
          /\ current \in [Proc -> Client \cup {None}]
      BY <1>0, <2>4 DEF ClientType
    <3>. QED  BY <2>1, <2>2, <3>1 DEF Built, Alive
  <2>. QED  BY <1>2, <2>3, <2>4 DEF Emit
<1>3. ASSUME NEW c \in Client, Close(c)
      PROVE  Built'
  <2>1. /\ status[c] = "up" /\ status'[c] = "closed"
        /\ \A d \in Client \ {c} : status'[d] = status[d] /\ queue'[d] = queue[d]
        /\ UNCHANGED <<thread, current>> /\ current \in [Proc -> Client \cup {None}]
    BY <1>0, <1>3 DEF Close, ClientType
  <2>. QED  BY <2>1 DEF Built, Alive, Held
<1>4. ASSUME UNCHANGED <<thread, status, queue>>,
             \A q \in Proc : current'[q] \in {current[q], None}
      PROVE  Built'
  BY <1>4 DEF Built, Alive, Held
<1>6. ASSUME NEW q \in Proc, ResetClient(q) \/ Configure(q)
      PROVE  Built'
  <2>1. /\ UNCHANGED <<thread, status, queue>>
        /\ \A r \in Proc : current'[r] \in {current[r], None}
    BY <1>0, <1>6 DEF ResetClient, Configure, ClientType
  <2>. QED  BY <1>4, <2>1
<1>7. ASSUME NEW q \in Proc, Exit(q)
      PROVE  Built'
  <2>1. /\ UNCHANGED <<thread, queue>>
        /\ \A c \in Client : \/ status'[c] = status[c]
                             \/ ProcOf[c] = q /\ status'[c] = "dead"
        /\ \A r \in Proc : current'[r] = IF r = q THEN None ELSE current[r]
        /\ current \in [Proc -> Client \cup {None}]
    BY <1>0, <1>7 DEF Exit, ClientType
  <2>. QED  BY <2>1 DEF Built, Alive, Held
<1>8. ASSUME ServerSwitch \/ UNCHANGED vars
      PROVE  Built'
  BY <1>4, <1>8 DEF ServerSwitch, vars, clientVars
<1>. QED  BY <1>1, <1>2, <1>3, <1>6, <1>7, <1>8 DEF Next, Environment

(***************************************************************************)
(* What the backend has said of a payload, and what became of it.          *)
(***************************************************************************)
Verdict(p) ==
  IF p \notin sent THEN "unsent"
  ELSE IF copies[p] > 0 THEN "stored"
  ELSE IF p \in refused THEN "refused" ELSE "pending"

LEMMA FateIsVerdict ==
  ASSUME NEW p \in Payload
  PROVE  /\ Fate(p) = IF Verdict(p) = "pending" /\ ~Live(p) THEN "lost" ELSE Verdict(p)
         /\ Fate(p)' = IF Verdict(p)' = "pending" /\ ~Live(p)' THEN "lost" ELSE Verdict(p)'
         /\ Verdict(p) \in {"unsent", "stored", "refused", "pending"}
BY DEF Fate, Verdict

LEMMA NothingIsLost ==
  ASSUME NoLoss, NEW p \in Payload
  PROVE  Verdict(p) = "pending" => Live(p)
BY DEF NoLoss, Verdict, Settled

(* How a post changes the verdicts. *)
Rules(v, w) == \/ w = "stored" /\ v \in {"pending", "refused"}
               \/ w = "refused" /\ v = "pending"

LEMMA PostVerdict ==
  ASSUME TypeInv, Provenance, NEW c \in Client, NEW t \in Daemon,
         PostAnswered(c, t) \/ PostFailed(c, t)
  PROVE  \E y \in Payload :
           /\ y = Held(c, t) /\ Live(y)
           /\ Verdict(y)' = Verdict(y) \/ Rules(Verdict(y), Verdict(y)')
           /\ \A q \in Payload \ {y} : Verdict(q)' = Verdict(q)
<1>1. /\ t \in Thread /\ ThreadType /\ OtherType /\ Alive(c)
      /\ thread[c][t].pc = "post" /\ sent' = sent
  BY TypeParts DEF Thread, PostAnswered, PostFailed, At
<1>2. PICK y \in Payload : y = Held(c, t)
  BY <1>1, HeldType
<1>3. Live(y) /\ Somewhere(y)
  BY <1>1, <1>2, HeldLive DEF Somewhere, InHand
<1>4. y \in sent /\ copies \in [Payload -> 0..2]
  BY <1>1, <1>3 DEF Provenance, OtherType
<1>5. CASE Store(y) /\ UNCHANGED refused
  BY <1>1, <1>2, <1>3, <1>4, <1>5 DEF Verdict, Store, Rules
<1>6. CASE refused' = refused \cup {y} /\ UNCHANGED copies
  BY <1>1, <1>2, <1>3, <1>4, <1>6 DEF Verdict, Rules
<1>7. CASE UNCHANGED <<copies, refused>>
  BY <1>1, <1>2, <1>3, <1>7 DEF Verdict
<1>. QED  BY <1>2, <1>5, <1>6, <1>7 DEF PostAnswered, PostFailed

LEMMA EmitVerdict ==
  ASSUME TypeInv, Provenance, NEW c \in Client, NEW t \in App, NEW y \in Payload,
         Emit(c, t, y)
  PROVE  /\ Verdict(y) = "unsent" /\ Verdict(y)' = "pending"
         /\ \A q \in Payload \ {y} : Verdict(q)' = Verdict(q)
<1>1. y \notin sent /\ sent' = sent \cup {y} /\ UNCHANGED <<copies, refused>>
  BY DEF Emit, serverVars
<1>2. ~Settled(y)
  BY <1>1 DEF Provenance, Somewhere
<1>3. copies[y] \in 0..2
  BY TypeParts DEF OtherType
<1>. QED  BY <1>1, <1>2, <1>3 DEF Verdict, Settled

(* Where nothing is lost, it is a step of the promise. *)
LEMMA KeepsStep ==
  ASSUME TypeInv, Provenance, NoLoss, NoLoss', [Next]_vars
  PROVE  [Promise!DeliveryNext]_Fates
<1>1. \A p \in Payload : Fate(p) = Verdict(p) /\ Fate(p)' = Verdict(p)'
  <2>1. ASSUME NEW p \in Payload
        PROVE  /\ Verdict(p) = "pending" => Live(p)
               /\ Verdict(p)' = "pending" => Live(p)'
    BY NothingIsLost, <2>1 DEF NoLoss, Verdict, Settled
  <2>. QED  BY <2>1, FateIsVerdict
<1>2. /\ Fates = [p \in Payload |-> Verdict(p)]
      /\ Fates' = [p \in Payload |-> Verdict(p)']
  BY <1>1 DEF Fates
<1>3. ASSUME NEW y \in Payload, \A q \in Payload \ {y} : Verdict(q)' = Verdict(q)
      PROVE  Fates' = [Fates EXCEPT ![y] = Verdict(y)'] /\ Fates[y] = Verdict(y)
  BY <1>2, <1>3
<1>4. CASE UNCHANGED Verdicts
  BY <1>2, <1>4 DEF Verdicts, Verdict
<1>5. CASE \E c \in Client, t \in App, y \in Payload : Emit(c, t, y)
  <2>1. PICK y \in Payload : /\ Verdict(y) = "unsent" /\ Verdict(y)' = "pending"
                             /\ \A q \in Payload \ {y} : Verdict(q)' = Verdict(q)
    BY <1>5, EmitVerdict
  <2>2. Fates[y] = "unsent" /\ Fates' = [Fates EXCEPT ![y] = "pending"]
    BY <1>3, <2>1
  <2>. QED  BY <2>2 DEF Promise!DeliveryNext, Promise!Submit
<1>6. ASSUME NEW c \in Client, NEW t \in Daemon, PostAnswered(c, t) \/ PostFailed(c, t)
      PROVE  [Promise!DeliveryNext]_Fates
  <2>1. PICK y \in Payload :
          /\ Verdict(y)' = Verdict(y) \/ Rules(Verdict(y), Verdict(y)')
          /\ \A q \in Payload \ {y} : Verdict(q)' = Verdict(q)
    BY <1>6, PostVerdict
  <2>2. CASE Verdict(y)' = Verdict(y)
    BY <1>2, <2>1, <2>2
  <2>3. CASE Rules(Verdict(y), Verdict(y)')
    <3>1. Fates' = [Fates EXCEPT ![y] = Verdict(y)'] /\ Fates[y] = Verdict(y)
      BY <1>3, <2>1
    <3>. QED  BY <2>3, <3>1 DEF Rules, Promise!DeliveryNext, Promise!Stored, Promise!Refuse
  <2>. QED  BY <2>1, <2>2, <2>3
<1>. QED  BY <1>4, <1>5, <1>6, StepKinds

LEMMA FatesInitially ==
  ASSUME Init
  PROVE  Fates = [p \in Payload |-> "unsent"] /\ Provenance /\ Built
<1>1. Fates = [p \in Payload |-> "unsent"]
  BY DEF Init, Fates, Fate
<1>2. Provenance
  <2>. SUFFICES ASSUME NEW p \in Payload PROVE ~Somewhere(p)
    BY DEF Provenance
  <2>1. \A c \in Client : ~InQueue(p, c)
    BY DEF Init, InQueue
  <2>2. \A c \in Client : ~InHand(p, c)
    BY DiskConstants DEF Init, InHand, Held
  <2>3. ~OnDisk(p) /\ ~Settled(p)
    BY DiskConstants DEF Init, DiskInit, OnDisk, Settled
  <2>. QED  BY <2>1, <2>2, <2>3 DEF Somewhere
<1>3. Built
  BY DEF Init, Built, Held
<1>. QED  BY <1>1, <1>2, <1>3

LEMMA FatesHold == Spec => [](TypeInv /\ Aux /\ Built /\ Provenance)
<1>1. Init => TypeInv /\ Aux /\ Built /\ Provenance
  BY InitType, InitAux, FatesInitially
<1>2. TypeInv /\ Aux /\ Built /\ Provenance /\ [Next]_vars
        => TypeInv' /\ Aux' /\ Built' /\ Provenance'
  BY NextType, NextKeeps, BuiltStep, ProvenanceStep DEF Preserves
<1>. QED  BY <1>1, <1>2, PTL DEF Spec

(***************************************************************************)
(* The SDK keeps its promise, whatever the backend does: as Delivery says  *)
(* it, a payload is pending from emit_trace until the backend has stored   *)
(* or refused it, and both are final.                                      *)
(***************************************************************************)
THEOREM PromiseKept ==
  ASSUME Undisturbed
  PROVE  Spec => KeepsPromise
<1>1. Init => Promise!DeliveryInit
  BY FatesInitially DEF Promise!DeliveryInit
<1>2. TypeInv /\ Provenance /\ NoLoss /\ NoLoss' /\ [Next]_vars
        => [Promise!DeliveryNext]_Fates
  BY KeepsStep
<1>3. Spec => []NoLoss
  BY NothingLost
<1>. QED  BY <1>1, <1>2, <1>3, FatesHold, PTL
          DEF Spec, KeepsPromise, Promise!DeliverySpec
=============================================================================
