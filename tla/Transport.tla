------------------------------ MODULE Transport ------------------------------
(***************************************************************************)
(* The delivery pipeline of the SDK (src/sdk/verdictlens/client.py).       *)
(*                                                                         *)
(* A VerdictLensClient has a bounded in-memory queue, a worker thread that *)
(* posts what it takes from it and spills to the disk queue what the       *)
(* server does not take, and a flusher thread that posts the segments of   *)
(* the disk queue.  Application threads fetch the client of their process  *)
(* and hand it payloads; configure, reset_client, close, atexit and        *)
(* crashes end clients at any point.                                       *)
(*                                                                         *)
(* One action is the code a thread runs between two points at which other  *)
(* threads or processes can see or change what it uses: a queue operation, *)
(* a directory operation, an HTTP exchange.                                *)
(***************************************************************************)
EXTENDS DiskQueue, Sequences

CONSTANTS
  Proc,       \* processes that share the queue directory
  ProcOf,     \* the process in which a client object lives
  App,        \* application threads, per client
  Stop,       \* the None that close() puts into the in-memory queue
  Capacity,   \* maxsize of the in-memory queue (50000)
  Attempts,   \* posts per payload before it is given up (4)
  Refusable,  \* payloads the server may answer with a 4xx
  Poison,     \* payloads the server always answers with a 5xx
  Events      \* what the environment does in this instance

ASSUME TransportConstants ==
  /\ ProcOf \in [Client -> Proc]
  /\ None \notin Proc \cup Client
  /\ Stop \notin Payload \cup {None}
  /\ App \cap {"worker", "flusher"} = {}
  /\ Capacity \in Nat \ {0}
  /\ Attempts \in Nat \ {0}
  /\ Refusable \subseteq Payload
  /\ Poison \subseteq Payload
  /\ Events \subseteq {"close", "reset", "configure", "crash", "io", "ambiguous",
                       "outage", "flush"}

Daemon == {"worker", "flusher"}
Thread == App \cup Daemon

VARIABLES
  queue,      \* queue[c]: the in-memory queue of client c
  status,     \* status[c]: "none", "up", "closed" (stop is set), "dead"
  current,    \* current[q]: _CLIENT of process q
  disabled,   \* disabled[q]: cfg.disabled of process q
  thread,     \* thread[c][t]: where thread t is, the payload it holds, failed posts
  path,       \* path[c]: the segment the flusher of c has picked
  serverUp,   \* the backend answers
  copies,     \* copies[p]: how often the backend has stored p
  refused,    \* payloads the backend has answered with a 4xx
  sent,       \* payloads emit_trace was called with
  dropped     \* payloads of which the SDK itself has discarded a copy

clientVars == <<queue, status, current, disabled>>
serverVars == <<serverUp, copies, refused>>
vars == <<clientVars, thread, path, serverVars, diskVars, sent, dropped>>

Alive(c) == status[c] \in {"up", "closed"}
Held(c, t) == thread[c][t].item

At(c, t, pc) == Alive(c) /\ thread[c][t].pc = pc

Go(c, t, pc, p, n) ==
  thread' = [thread EXCEPT ![c][t] = [pc |-> pc, item |-> p, failed |-> n]]

(* Back to the top of the daemon's loop, or to the application's code. *)
Return(c, t) == Go(c, t, IF t \in Daemon THEN "loop" ELSE "idle", None, 0)

OnlyThreads == UNCHANGED <<clientVars, path, serverVars, diskVars, sent, dropped>>

Init ==
  /\ DiskInit
  /\ queue = [c \in Client |-> <<>>]
  /\ status = [c \in Client |-> "none"]
  /\ current = [q \in Proc |-> None]
  /\ disabled \in [Proc -> IF "configure" \in Events THEN BOOLEAN ELSE {FALSE}]
  /\ thread = [c \in Client |-> [t \in Thread |->
                 [pc |-> IF t \in Daemon THEN "loop" ELSE "idle",
                  item |-> None, failed |-> 0]]]
  /\ path = [c \in Client |-> None]
  /\ serverUp \in BOOLEAN
  /\ copies = [p \in Payload |-> 0]
  /\ refused = {}
  /\ sent = {}
  /\ dropped = {}

(***************************************************************************)
(* emit_trace and get_client: unless tracing is disabled, the application  *)
(* thread fetches the client of its process, which is built on first use,  *)
(* and is then about to call send_trace on it.                             *)
(***************************************************************************)
Emit(c, t, p) ==
  LET q == ProcOf[c] IN
  /\ t \in App /\ thread[c][t].pc = "idle"
  /\ p \notin sent
  /\ ~disabled[q]
  /\ \/ current[q] = c /\ UNCHANGED <<status, current>>
     \/ /\ current[q] = None /\ status[c] = "none"
        /\ status' = [status EXCEPT ![c] = "up"]
        /\ current' = [current EXCEPT ![q] = c]
  /\ sent' = sent \cup {p}
  /\ Go(c, t, "send", p, 0)
  /\ UNCHANGED <<queue, disabled, path, serverVars, diskVars, dropped>>

HasRoomOffByOne(c) == Len(queue[c]) <= Capacity        \* mutated form
HasRoom(c) == Len(queue[c]) < Capacity

OverflowDiscards(c, t) == Return(c, t)                 \* mutated form
Overflow(c, t) == Go(c, t, "spill", Held(c, t), 0)

(***************************************************************************)
(* send_trace.  The client may have been closed since it was fetched: the  *)
(* queue still takes the payload, but nobody will look at it.              *)
(***************************************************************************)
SendTrace(c, t) ==
  /\ t \in App /\ At(c, t, "send")
  /\ \/ /\ disabled[ProcOf[c]]
        /\ dropped' = dropped \cup {Held(c, t)}
        /\ Return(c, t)
        /\ UNCHANGED queue
     \/ /\ ~disabled[ProcOf[c]] /\ HasRoom(c)
        /\ queue' = [queue EXCEPT ![c] = Append(@, Held(c, t))]
        /\ Return(c, t)
        /\ UNCHANGED dropped
     \/ /\ ~disabled[ProcOf[c]] /\ ~HasRoom(c)
        /\ Overflow(c, t)
        /\ UNCHANGED <<queue, dropped>>
  /\ UNCHANGED <<status, current, disabled, path, serverVars, diskVars, sent>>

(***************************************************************************)
(* enqueue, called by an application thread that found the in-memory queue *)
(* full, by the worker after its last attempt, and by the flusher for what *)
(* it could not deliver.  What the prune deletes is dropped.               *)
(***************************************************************************)
Pruned(K) == {data[g] : g \in Written(Files \ K)}

SpillOpen(c, t, f, K) ==
  /\ At(c, t, "spill")
  /\ \A d \in Client : path[d] # f
  /\ Create(c, f, K)
  /\ dropped' = dropped \cup Pruned(K)
  /\ Go(c, t, "write", Held(c, t), 0)
  /\ UNCHANGED <<clientVars, path, serverVars, sent>>

SpillWrite(c, t) ==
  /\ At(c, t, "write")
  /\ Fill(c, Held(c, t))
  /\ dropped' = IF lock[c] \in Files THEN dropped ELSE dropped \cup {Held(c, t)}
  /\ Return(c, t)
  /\ UNCHANGED <<clientVars, path, serverVars, sent>>

SpillError(c, t, K) ==
  /\ "io" \in Events
  /\ \/ At(c, t, "spill") /\ CreateError(c, K)
     \/ At(c, t, "write") /\ FillError(c) /\ K = Files
  /\ dropped' = dropped \cup Pruned(K) \cup {Held(c, t)}
  /\ Return(c, t)
  /\ UNCHANGED <<clientVars, path, serverVars, sent>>

(***************************************************************************)
(* _async_worker: look at the stop flag, wait for an item, post it.        *)
(***************************************************************************)
StopUnseen(c) == FALSE                                 \* mutated form
StopSeen(c) == status[c] = "closed"

WorkerLoop(c) ==
  /\ At(c, "worker", "loop")
  /\ Go(c, "worker", IF StopSeen(c) THEN "done" ELSE "get", None, 0)
  /\ OnlyThreads

WorkerGet(c) ==
  /\ At(c, "worker", "get") /\ queue[c] # <<>>
  /\ queue' = [queue EXCEPT ![c] = Tail(@)]
  /\ LET x == Head(queue[c]) IN
     \/ /\ x = Stop
        /\ Go(c, "worker", "done", None, 0)
        /\ UNCHANGED dropped
     \/ /\ x # Stop /\ disabled[ProcOf[c]]
        /\ Return(c, "worker")
        /\ dropped' = dropped \cup {x}
     \/ /\ x # Stop /\ ~disabled[ProcOf[c]]
        /\ Go(c, "worker", "post", x, 0)
        /\ UNCHANGED dropped
  /\ UNCHANGED <<status, current, disabled, path, serverVars, diskVars, sent>>

WorkerTimeout(c) ==
  /\ At(c, "worker", "get") /\ queue[c] = <<>>
  /\ Return(c, "worker")
  /\ OnlyThreads

(***************************************************************************)
(* One POST of the payload a daemon thread holds.  Any status below 500    *)
(* ends the attempts; a 4xx is final.  An exception or a 5xx may hide a    *)
(* row that was stored all the same ("ambiguous").                         *)
(***************************************************************************)
Store(p) == copies' = [copies EXCEPT ![p] = IF @ < 2 THEN @ + 1 ELSE @]

PostAnswered(c, t) ==
  LET p == Held(c, t) IN
  /\ t \in Daemon /\ At(c, t, "post")
  /\ serverUp /\ p \notin Poison
  /\ \/ Store(p) /\ UNCHANGED refused
     \/ /\ p \in Refusable
        /\ refused' = refused \cup {p}
        /\ UNCHANGED copies
  /\ \/ t = "worker" /\ Return(c, t)
     \/ t = "flusher" /\ Go(c, t, "clear", None, 0)
  /\ UNCHANGED <<clientVars, path, serverUp, diskVars, sent, dropped>>

(* After the last attempt: the worker spills, the flusher keeps it as     *)
(* "remaining".  Mutated forms: one of them forgets it.                   *)
WorkerForgets(c, t, p) ==
  IF t = "worker" THEN Return(c, t) ELSE Go(c, t, "clear", p, 0)
FlusherForgets(c, t, p) ==
  Go(c, t, IF t = "worker" THEN "spill" ELSE "clear", IF t = "worker" THEN p ELSE None, 0)
GiveUp(c, t, p) == Go(c, t, IF t = "worker" THEN "spill" ELSE "clear", p, 0)

PostFailed(c, t) ==
  LET p == Held(c, t)
      n == thread[c][t].failed + 1 IN
  /\ t \in Daemon /\ At(c, t, "post")
  /\ \/ (~serverUp \/ p \in Poison) /\ UNCHANGED copies
     \/ "ambiguous" \in Events /\ serverUp /\ Store(p)
  /\ \/ n < Attempts /\ Go(c, t, "post", p, n)
     \/ n >= Attempts /\ GiveUp(c, t, p)
  /\ UNCHANGED <<clientVars, path, serverUp, refused, diskVars, sent, dropped>>

(***************************************************************************)
(* _flush_disk_loop and _flush_disk_once.  The segment is read without the *)
(* lock; it is removed before what is left of it is enqueued again.        *)
(***************************************************************************)
FlusherStop(c) ==
  /\ At(c, "flusher", "loop") /\ status[c] = "closed"
  /\ Go(c, "flusher", "done", None, 0)
  /\ OnlyThreads

FlusherPick(c, f) ==
  /\ At(c, "flusher", "loop") /\ status[c] = "up"
  /\ ~disabled[ProcOf[c]]
  /\ lock[c] = None /\ Oldest(f)
  /\ path' = [path EXCEPT ![c] = f]
  /\ Go(c, "flusher", "read", None, 0)
  /\ UNCHANGED <<clientVars, serverVars, diskVars, sent, dropped>>

(* A stop seen before the first post leaves the whole segment "remaining". *)
StopForgets(c, p) ==                                   \* mutated form
  IF status[c] = "closed" THEN Go(c, "flusher", "clear", None, 0)
                          ELSE Go(c, "flusher", "post", p, 0)
StartPosting(c, p) ==
  Go(c, "flusher", IF status[c] = "closed" THEN "clear" ELSE "post", p, 0)

FlusherRead(c) ==
  LET x == data[path[c]] IN
  /\ At(c, "flusher", "read")
  /\ \/ /\ x = None \/ (x # Blank /\ disabled[ProcOf[c]])
        /\ Return(c, "flusher")
        /\ path' = [path EXCEPT ![c] = None]
     \/ /\ x = Blank
        /\ Go(c, "flusher", "sweep", None, 0)
        /\ UNCHANGED path
     \/ /\ x \in Payload /\ ~disabled[ProcOf[c]]
        /\ StartPosting(c, x)
        /\ UNCHANGED path
  /\ UNCHANGED <<clientVars, serverVars, diskVars, sent, dropped>>

(* Removing what was an empty file when it was read. *)
FlusherSweep(c) ==
  /\ At(c, "flusher", "sweep")
  /\ Clear(c, path[c])
  /\ path' = [path EXCEPT ![c] = None]
  /\ dropped' = dropped \cup ({data[path[c]]} \cap Payload)
  /\ Return(c, "flusher")
  /\ UNCHANGED <<clientVars, serverVars, sent>>

(* Mutated forms of Handled: a delivered segment is not removed; what      *)
(* could not be delivered keeps its file and its place in the line, or     *)
(* keeps its file and is enqueued again all the same.                      *)
KeepDelivered(c, p) == UNCHANGED diskVars /\ Return(c, "flusher")
RetryInPlace(c, p) ==
  /\ Return(c, "flusher")
  /\ IF p = None THEN Clear(c, path[c]) ELSE UNCHANGED diskVars
EnqueueUncleared(c, p) ==
  IF p = None THEN Clear(c, path[c]) /\ Return(c, "flusher")
              ELSE UNCHANGED diskVars /\ Go(c, "flusher", "spill", p, 0)
Handled(c, p) ==
  /\ Clear(c, path[c])
  /\ IF p = None THEN Return(c, "flusher") ELSE Go(c, "flusher", "spill", p, 0)

FlusherClear(c) ==
  /\ At(c, "flusher", "clear")
  /\ Handled(c, Held(c, "flusher"))
  /\ path' = [path EXCEPT ![c] = None]
  /\ UNCHANGED <<clientVars, serverVars, sent, dropped>>

(***************************************************************************)
(* flush: returns when it has seen the in-memory queue empty twice, or     *)
(* after its timeout.                                                      *)
(***************************************************************************)
FlushCall(c, t) ==
  /\ "flush" \in Events
  /\ t \in App /\ At(c, t, "idle") /\ current[ProcOf[c]] = c
  /\ Go(c, t, "flush", None, 0)
  /\ OnlyThreads

FlushPoll(c, t) ==
  /\ At(c, t, "flush") /\ queue[c] = <<>>
  /\ Go(c, t, "again", None, 0)
  /\ OnlyThreads

FlushAgain(c, t) ==
  /\ At(c, t, "again")
  /\ Go(c, t, IF queue[c] = <<>> THEN "idle" ELSE "flush", None, 0)
  /\ OnlyThreads

FlushTimeout(c, t) ==
  /\ At(c, t, "flush")
  /\ Return(c, t)
  /\ OnlyThreads

(***************************************************************************)
(* close: set the stop flag, wake the worker if the queue has room.  The   *)
(* joins give up after two seconds, so the caller goes on whatever the     *)
(* daemon threads do.  The application and atexit close any client;        *)
(* set_client closes the one it has dropped, which by then may have a      *)
(* successor.                                                              *)
(***************************************************************************)
Close(c) ==
  /\ \/ "close" \in Events
     \/ "reset" \in Events /\ current[ProcOf[c]] # c
  /\ status[c] = "up"
  /\ status' = [status EXCEPT ![c] = "closed"]
  /\ queue' = IF HasRoom(c)
              THEN [queue EXCEPT ![c] = Append(@, Stop)] ELSE queue
  /\ UNCHANGED <<current, disabled, thread, path, serverVars, diskVars, sent, dropped>>

(* set_client(None), up to where it closes the client it has dropped. *)
ResetClient(q) ==
  /\ "reset" \in Events
  /\ current[q] # None
  /\ current' = [current EXCEPT ![q] = None]
  /\ UNCHANGED <<queue, status, disabled, thread, path, serverVars, diskVars, sent, dropped>>

(* configure(disabled=...), without the reset_client that may follow it. *)
Configure(q) ==
  /\ "configure" \in Events
  /\ disabled' = [disabled EXCEPT ![q] = ~@]
  /\ UNCHANGED <<queue, status, current, thread, path, serverVars, diskVars, sent, dropped>>

(***************************************************************************)
(* The process ends, by a crash or by leaving main with its daemon threads *)
(* still at work.  Its memory and its locks are gone; the directory stays. *)
(***************************************************************************)
Exit(q) ==
  LET ended == {c \in Client : ProcOf[c] = q /\ Alive(c)} IN
  /\ "crash" \in Events
  /\ ended # {}
  /\ status' = [c \in Client |-> IF c \in ended THEN "dead" ELSE status[c]]
  /\ lock' = [c \in Client |-> IF c \in ended THEN None ELSE lock[c]]
  /\ path' = [c \in Client |-> IF c \in ended THEN None ELSE path[c]]
  /\ current' = [current EXCEPT ![q] = None]
  /\ UNCHANGED <<queue, disabled, thread, serverVars, data, older, sent, dropped>>

(* The backend goes down or comes back. *)
ServerSwitch ==
  /\ "outage" \in Events \/ ~serverUp
  /\ serverUp' = ~serverUp
  /\ UNCHANGED <<clientVars, thread, path, copies, refused, diskVars, sent, dropped>>

Spill(c, t) ==
  \/ \E f \in Path, K \in SUBSET Files : SpillOpen(c, t, f, K)
  \/ SpillWrite(c, t)
  \/ \E K \in SUBSET Files : SpillError(c, t, K)

Worker(c) ==
  \/ WorkerLoop(c) \/ WorkerGet(c) \/ WorkerTimeout(c)
  \/ PostAnswered(c, "worker") \/ PostFailed(c, "worker")
  \/ Spill(c, "worker")

Flusher(c) ==
  \/ FlusherStop(c) \/ FlusherRead(c) \/ FlusherSweep(c) \/ FlusherClear(c)
  \/ \E f \in Path : FlusherPick(c, f)
  \/ PostAnswered(c, "flusher") \/ PostFailed(c, "flusher")
  \/ Spill(c, "flusher")

Caller(c, t) ==
  \/ SendTrace(c, t) \/ Spill(c, t)
  \/ FlushPoll(c, t) \/ FlushAgain(c, t) \/ FlushTimeout(c, t)

Environment ==
  \/ \E c \in Client, t \in App : FlushCall(c, t) \/ \E p \in Payload : Emit(c, t, p)
  \/ \E c \in Client : Close(c)
  \/ \E q \in Proc : ResetClient(q) \/ Configure(q) \/ Exit(q)
  \/ ServerSwitch

Next ==
  \/ \E c \in Client : Worker(c) \/ Flusher(c) \/ \E t \in App : Caller(c, t)
  \/ Environment

Spec == Init /\ [][Next]_vars

(***************************************************************************)
(* The operating system schedules every thread; gets, posts and sleeps all *)
(* have timeouts, so a thread that has a step to take takes it.  A holder  *)
(* of a DiskQueue lock keeps it for one file operation and the flusher     *)
(* sleeps for two seconds between rounds, so a thread that waits for the   *)
(* lock is not passed over for ever (strong fairness of Spill).  What the  *)
(* application and the environment do is not fair.                         *)
(***************************************************************************)
Fairness ==
  \A c \in Client :
    /\ WF_vars(Worker(c)) /\ WF_vars(Flusher(c))
    /\ \A t \in App : WF_vars(Caller(c, t))
    /\ \A t \in Thread : SF_vars(Spill(c, t))

FairSpec == Spec /\ Fairness
=============================================================================
