-------------------------------- MODULE Ingest --------------------------------
(***************************************************************************)
(* The ingest of traces: ingest_trace in src/backend/app/routes.py with    *)
(* insert_trace in src/backend/app/clickhouse.py, between the posts of the *)
(* SDK and the live feed.                                                  *)
(*                                                                         *)
(* A request inserts the row of the trace, then the rows of its spans: two *)
(* inserts without a transaction, into tables without uniqueness.  Then it *)
(* broadcasts the trace and answers.  The SDK posts a trace again when the *)
(* answer is an error or late; a request whose client has given up runs on *)
(* to its end.                                                             *)
(***************************************************************************)
EXTENDS LiveFeed, FiniteSets

CONSTANTS
  Spanless,   \* traces without spans
  Events      \* what the environment does to the ingest in this instance

ASSUME IngestConstants ==
  /\ Spanless \subseteq Trace
  /\ Events \subseteq {"outage", "late", "crash", "timeout"}

VARIABLES
  request,    \* request[i]: the step of request i, its replica, whether its
              \*   client still waits for the answer
  acked,      \* the traces whose client has been answered 201
  traceRows,  \* traceRows[t]: rows of t in the table traces
  spanRows,   \* spanRows[t]: how often the rows of t's spans are in spans
  storeUp     \* ClickHouse answers

tables == <<traceRows, spanRows>>
vars == <<feedVars, request, acked, tables, storeUp>>

NoRequest == [pc |-> "none", at |-> None, awaited |-> FALSE]

Init ==
  /\ FeedInit
  /\ request = [i \in Request |-> NoRequest]
  /\ acked = {}
  /\ traceRows = [t \in Trace |-> 0]
  /\ spanRows = [t \in Trace |-> 0]
  /\ storeUp \in IF "outage" \in Events THEN BOOLEAN ELSE {TRUE}

Go(i, pc) == request' = [request EXCEPT ![i].pc = pc]

(* The request ends; its client, if it still waits, has its answer. *)
Answer(i, pc) == request' = [request EXCEPT ![i].pc = pc, ![i].awaited = FALSE]

(***************************************************************************)
(* The SDK (_post_with_retries): the next post of a trace when the last    *)
(* one was answered with an error, or not in time.                         *)
(***************************************************************************)
Post(r, i) ==
  /\ r \in running
  /\ request[i].pc = "none"
  /\ TraceOf(i) \notin acked
  /\ \A n \in 1..(i[2] - 1) :
       LET earlier == request[<<TraceOf(i), n>>] IN earlier.pc # "none" /\ ~earlier.awaited
  /\ request' = [request EXCEPT ![i] = [pc |-> "insert", at |-> r, awaited |-> TRUE]]
  /\ UNCHANGED <<feedVars, acked, tables, storeUp>>

ClientTimeout(i) ==
  /\ "timeout" \in Events
  /\ request[i].awaited
  /\ request' = [request EXCEPT ![i].awaited = FALSE]
  /\ UNCHANGED <<feedVars, acked, tables, storeUp>>

(***************************************************************************)
(* insert_trace, in a thread of the executor.  An insert fails when        *)
(* ClickHouse is away, and may fail after ClickHouse has taken the rows    *)
(* ("late"); either way the request is answered with a 500.                *)
(***************************************************************************)
HasSpans(t) == t \notin Spanless

(* Mutated form: the condition `if trace.spans` inverted. *)
SpansUnlessAny(i) == IF HasSpans(TraceOf(i)) THEN "broadcast" ELSE "spans"
AfterTrace(i) == IF HasSpans(TraceOf(i)) THEN "spans" ELSE "broadcast"
AddTrace(t) == traceRows' = [traceRows EXCEPT ![t] = @ + 1] /\ UNCHANGED spanRows
AddSpans(t) == spanRows' = [spanRows EXCEPT ![t] = @ + 1] /\ UNCHANGED traceRows

InsertTrace(i) ==
  /\ request[i].pc = "insert"
  /\ \/ storeUp /\ AddTrace(TraceOf(i)) /\ Go(i, AfterTrace(i))
     \/ storeUp /\ "late" \in Events /\ AddTrace(TraceOf(i)) /\ Answer(i, "failed")
     \/ ~storeUp /\ UNCHANGED tables /\ Answer(i, "failed")
  /\ UNCHANGED <<feedVars, acked, storeUp>>

(* Mutated form: an insert of spans that fails is logged and no more. *)
SpansAtMost(i) ==
  /\ request[i].pc = "spans"
  /\ IF storeUp THEN AddSpans(TraceOf(i)) ELSE UNCHANGED tables
  /\ Go(i, "broadcast")
  /\ UNCHANGED <<feedVars, acked, storeUp>>

InsertSpans(i) ==
  /\ request[i].pc = "spans"
  /\ \/ storeUp /\ AddSpans(TraceOf(i)) /\ Go(i, "broadcast")
     \/ storeUp /\ "late" \in Events /\ AddSpans(TraceOf(i)) /\ Answer(i, "failed")
     \/ ~storeUp /\ UNCHANGED tables /\ Answer(i, "failed")
  /\ UNCHANGED <<feedVars, acked, storeUp>>

(* manager.broadcast_trace: it is awaited, so the answer waits for the sends. *)
BroadcastTrace(i) ==
  /\ request[i].pc = "broadcast"
  /\ Broadcast(i, request[i].at, TraceOf(i))
  /\ Go(i, "reply")
  /\ UNCHANGED <<acked, tables, storeUp>>

Reply(i) ==
  /\ request[i].pc = "reply" /\ cast[i] = NoCast
  /\ acked' = IF request[i].awaited THEN acked \cup {TraceOf(i)} ELSE acked
  /\ Answer(i, "done")
  /\ UNCHANGED <<feedVars, tables, storeUp>>

(***************************************************************************)
(* The replica dies with its requests, its WebSockets and its listener; it *)
(* may be started again.                                                   *)
(***************************************************************************)
Ended == {"none", "done", "failed", "lost"}

Crash(r) ==
  LET Lost == {i \in Request : request[i].at = r /\ request[i].pc \notin Ended}
  IN  /\ "crash" \in Events
      /\ Halt(r, Lost)
      /\ request' = [i \in Request |->
           IF i \in Lost THEN [pc |-> "lost", at |-> r, awaited |-> FALSE] ELSE request[i]]
      /\ UNCHANGED <<acked, tables, storeUp>>

StoreSwitch ==
  /\ "outage" \in Events
  /\ storeUp' = ~storeUp
  /\ UNCHANGED <<feedVars, request, acked, tables>>

(* What a request does once it is made. *)
Serve(i) == InsertTrace(i) \/ InsertSpans(i) \/ BroadcastTrace(i) \/ Reply(i)

Next ==
  \/ \E r \in Replica, i \in Request : Post(r, i)
  \/ \E i \in Request : ClientTimeout(i) \/ Serve(i)
  \/ \E r \in Replica : Crash(r)
  \/ Feed /\ UNCHANGED <<request, acked, tables, storeUp>>
  \/ StoreSwitch

Spec == Init /\ [][Next]_vars

(***************************************************************************)
(* Requests and coroutines run on, but a broadcast sends to one WebSocket  *)
(* after the other, and waits with all of them for a browser that stays    *)
(* without reading.  Nothing makes an SDK post, a browser connect or leave,*)
(* a service fail or recover.                                              *)
(***************************************************************************)
Waiting(b) == cast[b].todo \cap (Slow \ gone)

Fairness ==
  /\ \A i \in Request : WF_vars(Serve(i))
  /\ \A b \in Broadcaster : WF_vars(EndLocal(b) /\ UNCHANGED <<request, acked, tables, storeUp>>)
  /\ \A b \in Broadcaster :
       WF_vars(/\ Waiting(b) = {}
               /\ \E w \in Socket : Send(b, w)
               /\ UNCHANGED <<request, acked, tables, storeUp>>)
  /\ \A r \in Replica : WF_vars(Relay(r) /\ UNCHANGED <<request, acked, tables, storeUp>>)
  /\ \A w \in Socket : WF_vars(Disconnect(w) /\ UNCHANGED <<request, acked, tables, storeUp>>)

FairSpec == Spec /\ Fairness
=============================================================================
