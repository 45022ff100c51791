---------------------------- MODULE TransportProofs ----------------------------
(***************************************************************************)
(* Theorems about the delivery pipeline, for every number of clients,      *)
(* processes, threads and payloads, every budget and every environment.    *)
(***************************************************************************)
EXTENDS TransportProps, FiniteSetTheorems, SequenceTheorems, TLAPS

USE DiskConstants, TransportConstants

(***************************************************************************)
(* The operations of the disk queue, for every set of clients, files and   *)
(* payloads and every budget.                                              *)
(***************************************************************************)
DiskType ==
  /\ data \in [Path -> Payload \cup {None, Blank}]
  /\ older \subseteq Path \X Path
  /\ lock \in [Client -> Path \cup {None}]

LEMMA KeepType ==
  ASSUME DiskType, NEW K \in SUBSET Files
  PROVE  /\ KeepOnly(K) \in [Path -> Payload \cup {None, Blank}]
         /\ older \cap (K \X K) \subseteq Path \X Path
BY DEF DiskType, KeepOnly, Files

LEMMA CreateType ==
  ASSUME DiskType, NEW c \in Client, NEW f \in Path, NEW K \in SUBSET Files,
         Create(c, f, K)
  PROVE  DiskType'
<1>1. data' \in [Path -> Payload \cup {None, Blank}]
  BY KeepType DEF Create
<1>2. older' \subseteq Path \X Path
  BY DEF Create, DiskType, Files
<1>3. lock' \in [Client -> Path \cup {None}]
  BY DEF Create, DiskType
<1>. QED  BY <1>1, <1>2, <1>3 DEF DiskType

LEMMA FillType ==
  ASSUME DiskType, NEW c \in Client, NEW p \in Payload \cup {None}, Fill(c, p)
  PROVE  DiskType'
BY DEF Fill, DiskType

LEMMA CreateErrorType ==
  ASSUME DiskType, NEW c \in Client, NEW K \in SUBSET Files, CreateError(c, K)
  PROVE  DiskType'
BY KeepType DEF CreateError, DiskType

LEMMA FillErrorType ==
  ASSUME DiskType, NEW c \in Client, FillError(c)
  PROVE  DiskType'
BY DEF FillError, DiskType

LEMMA ClearType ==
  ASSUME DiskType, NEW c \in Client, NEW f, Clear(c, f)
  PROVE  DiskType'
BY DEF Clear, DiskType

(***************************************************************************)
(* The budget.  A client that holds its lock has pruned and may still add  *)
(* one payload; together the written files and the pending writes stay     *)
(* within the budget and one payload per client.                           *)
(***************************************************************************)
Writers == {c \in Client : lock[c] # None}

BudgetInv ==
  /\ IsFiniteSet(Files)
  /\ MaxFiles > 0 => Cardinality(Written(Files)) + Cardinality(Writers)
                       <= MaxFiles + Cardinality(Client)

LEMMA Finiteness ==
  ASSUME BudgetInv
  PROVE  /\ IsFiniteSet(Written(Files)) /\ Cardinality(Written(Files)) \in Nat
         /\ IsFiniteSet(Writers) /\ Cardinality(Writers) \in Nat
         /\ Cardinality(Writers) <= Cardinality(Client)
         /\ Cardinality(Client) \in Nat
<1>1. Written(Files) \in SUBSET Files /\ Writers \in SUBSET Client
  BY DEF Written, Writers
<1>. QED  BY <1>1, FS_Subset, FS_CardinalityType DEF BudgetInv

(* Fewer written files and fewer writers keep the budget. *)
LEMMA ShrinkBudget ==
  ASSUME BudgetInv, Files' \subseteq Files, Written(Files)' \subseteq Written(Files),
         Writers' \subseteq Writers
  PROVE  BudgetInv'
<1>1. IsFiniteSet(Files')
  BY FS_Subset DEF BudgetInv
<1>2. /\ Cardinality(Written(Files)') <= Cardinality(Written(Files))
      /\ Cardinality(Writers') <= Cardinality(Writers)
      /\ Cardinality(Written(Files)') \in Nat /\ Cardinality(Writers') \in Nat
  BY Finiteness, FS_Subset, FS_CardinalityType
<1>3. MaxFiles > 0 => Cardinality(Written(Files)') + Cardinality(Writers')
                       <= MaxFiles + Cardinality(Client)
  BY <1>2, Finiteness DEF BudgetInv
<1>. QED  BY <1>1, <1>3 DEF BudgetInv

LEMMA CreateBudget ==
  ASSUME DiskType, BudgetInv, NEW c \in Client, NEW f \in Path,
         NEW K \in SUBSET Files, Create(c, f, K)
  PROVE  BudgetInv'
<1>1. Files' = K \cup {f} /\ Written(Files)' = Written(K)
  BY DEF Create, KeepOnly, Files, Written, DiskType
<1>2. IsFiniteSet(Files')
  BY <1>1, FS_Subset, FS_AddElement DEF BudgetInv
<1>3. Writers' \in SUBSET Client
  BY DEF Writers
<1>4. /\ Cardinality(Writers') <= Cardinality(Client) /\ Cardinality(Writers') \in Nat
      /\ Cardinality(Client) \in Nat
  BY <1>3, FS_Subset, FS_CardinalityType
<1>5. Written(K) \in SUBSET Written(Files)
  BY DEF Written
<1>6. Cardinality(Written(K)) \in Nat
  BY <1>5, Finiteness, FS_Subset, FS_CardinalityType
<1>7. MaxFiles > 0 => Cardinality(Written(K)) <= MaxFiles
  BY DEF Create, PruneLeaves
<1>8. MaxFiles > 0 => Cardinality(Written(Files)') + Cardinality(Writers')
                       <= MaxFiles + Cardinality(Client)
  BY <1>1, <1>4, <1>6, <1>7
<1>. QED  BY <1>2, <1>8 DEF BudgetInv

LEMMA FillBudget ==
  ASSUME DiskType, BudgetInv, NEW c \in Client, NEW p \in Payload, Fill(c, p)
  PROVE  BudgetInv'
<1>1. Files' = Files
  BY DEF Fill, Files, DiskType
<1>2. Written(Files)' \in SUBSET (Written(Files) \cup {lock[c]})
  BY <1>1 DEF Fill, Written, Files, DiskType
<1>3. /\ Cardinality(Written(Files)') <= Cardinality(Written(Files)) + 1
      /\ Cardinality(Written(Files)') \in Nat
  <2>1. /\ IsFiniteSet(Written(Files) \cup {lock[c]})
        /\ Cardinality(Written(Files) \cup {lock[c]}) <= Cardinality(Written(Files)) + 1
        /\ Cardinality(Written(Files) \cup {lock[c]}) \in Nat
    BY Finiteness, FS_AddElement, FS_CardinalityType
  <2>2. /\ IsFiniteSet(Written(Files)')
        /\ Cardinality(Written(Files)') <= Cardinality(Written(Files) \cup {lock[c]})
    BY <1>2, <2>1, FS_Subset
  <2>. QED  BY <2>1, <2>2, Finiteness, FS_CardinalityType
<1>4. Writers' = Writers \ {c} /\ c \in Writers
  BY DEF Fill, Writers, DiskType
<1>5. Cardinality(Writers') = Cardinality(Writers) - 1
  BY <1>4, Finiteness, FS_RemoveElement
<1>6. MaxFiles > 0 => Cardinality(Written(Files)') + Cardinality(Writers')
                       <= MaxFiles + Cardinality(Client)
  BY <1>3, <1>5, Finiteness DEF BudgetInv
<1>. QED  BY <1>1, <1>6 DEF BudgetInv

LEMMA OtherBudget ==
  ASSUME DiskType, BudgetInv, NEW c \in Client,
         \/ \E K \in SUBSET Files : CreateError(c, K)
         \/ FillError(c)
         \/ \E f : Clear(c, f)
  PROVE  BudgetInv'
<1>1. Files' \subseteq Files /\ Written(Files)' \subseteq Written(Files)
  BY DEF CreateError, FillError, Clear, KeepOnly, Files, Written, DiskType
<1>2. Writers' \subseteq Writers
  BY DEF CreateError, FillError, Clear, Writers, DiskType
<1>. QED  BY <1>1, <1>2, ShrinkBudget

LEMMA InitBudget == DiskInit => BudgetInv
<1>. SUFFICES ASSUME DiskInit PROVE BudgetInv
  OBVIOUS
<1>1. Files = {} /\ Written(Files) = {} /\ Writers = {}
  BY DEF DiskInit, Files, Written, Writers
<1>2. Cardinality(Client) \in Nat
  BY FS_CardinalityType
<1>. QED  BY <1>1, <1>2, FS_EmptySet DEF BudgetInv

(***************************************************************************)
(* The threads of a client.                                                *)
(***************************************************************************)

ThreadState == [pc : Steps, item : Payload \cup {None}, failed : Nat]

(* A thread that is about to hand over a payload holds one. *)
HoldsItem ==
  \A c \in Client, t \in Thread :
    thread[c][t].pc \in {"send", "post", "spill", "write"} => Held(c, t) \in Payload

TypeInv == TypeOK /\ HoldsItem

LEMMA GoThread ==
  ASSUME thread \in [Client -> [Thread -> ThreadState]],
         NEW c \in Client, NEW t \in Thread,
         NEW pc \in Steps, NEW p \in Payload \cup {None}, NEW n \in Nat,
         Go(c, t, pc, p, n)
  PROVE  /\ thread' \in [Client -> [Thread -> ThreadState]]
         /\ thread'[c][t] = [pc |-> pc, item |-> p, failed |-> n]
         /\ \A d \in Client, u \in Thread :
              d # c \/ u # t => thread'[d][u] = thread[d][u]
BY DEF Go, ThreadState

LEMMA GoType ==
  ASSUME thread \in [Client -> [Thread -> ThreadState]], HoldsItem,
         NEW c \in Client, NEW t \in Thread,
         NEW pc \in Steps, NEW p \in Payload \cup {None}, NEW n \in Nat,
         pc \in {"send", "post", "spill", "write"} => p \in Payload,
         Go(c, t, pc, p, n)
  PROVE  /\ thread' \in [Client -> [Thread -> ThreadState]]
         /\ HoldsItem'
<1>1. /\ thread' \in [Client -> [Thread -> ThreadState]]
      /\ thread'[c][t] = [pc |-> pc, item |-> p, failed |-> n]
      /\ \A d \in Client, u \in Thread :
           d # c \/ u # t => thread'[d][u] = thread[d][u]
  BY GoThread
<1>2. ASSUME NEW d \in Client, NEW u \in Thread,
             thread'[d][u].pc \in {"send", "post", "spill", "write"}
      PROVE  thread'[d][u].item \in Payload
  <2>1. CASE d = c /\ u = t
    BY <1>1, <1>2, <2>1
  <2>2. CASE d # c \/ u # t
    BY <1>1, <1>2, <2>2 DEF HoldsItem, Held
  <2>. QED  BY <2>1, <2>2
<1>. QED  BY <1>1, <1>2 DEF HoldsItem, Held

LEMMA ReturnType ==
  ASSUME thread \in [Client -> [Thread -> ThreadState]], HoldsItem,
         NEW c \in Client, NEW t \in Thread,
         Return(c, t)
  PROVE  /\ thread' \in [Client -> [Thread -> ThreadState]]
         /\ HoldsItem'
BY GoType DEF Return, Steps

LEMMA PrunedIsPayload ==
  ASSUME NEW K
  PROVE  Pruned(K) \subseteq Payload
BY DEF Pruned, Written

(***************************************************************************)
(* Type correctness, action by action.                                     *)
(***************************************************************************)
ClientType ==
  /\ queue \in [Client -> Seq(Payload \cup {Stop})]
  /\ \A c \in Client : Len(queue[c]) <= Capacity
  /\ status \in [Client -> {"none", "up", "closed", "dead"}]
  /\ current \in [Proc -> Client \cup {None}]
  /\ disabled \in [Proc -> BOOLEAN]

ThreadType ==
  /\ thread \in [Client -> [Thread -> ThreadState]]
  /\ HoldsItem

OtherType ==
  /\ path \in [Client -> Path \cup {None}]
  /\ serverUp \in BOOLEAN
  /\ copies \in [Payload -> 0..2]
  /\ refused \subseteq Payload
  /\ sent \subseteq Payload
  /\ dropped \subseteq Payload

LEMMA TypeParts == TypeInv <=> DiskType /\ ClientType /\ ThreadType /\ OtherType
BY DEF TypeInv, TypeOK, DiskType, ClientType, ThreadType, OtherType, ThreadState

LEMMA TypePartsNext == TypeInv' <=> DiskType' /\ ClientType' /\ ThreadType' /\ OtherType'
BY DEF TypeInv, TypeOK, DiskType, ClientType, ThreadType, OtherType, ThreadState

LEMMA Frames ==
  /\ DiskType /\ UNCHANGED diskVars => DiskType'
  /\ ClientType /\ UNCHANGED clientVars => ClientType'
  /\ ThreadType /\ UNCHANGED thread => ThreadType'
  /\ OtherType /\ UNCHANGED <<path, serverVars, sent, dropped>> => OtherType'
BY DEF DiskType, ClientType, ThreadType, OtherType, diskVars, clientVars,
       serverVars, HoldsItem, Held

LEMMA HeldType ==
  ASSUME ThreadType, NEW c \in Client, NEW t \in Thread
  PROVE  /\ Held(c, t) \in Payload \cup {None}
         /\ thread[c][t].pc \in {"send", "post", "spill", "write"} => Held(c, t) \in Payload
         /\ thread[c][t].failed \in Nat
BY DEF ThreadType, HoldsItem, Held, ThreadState

LEMMA ReturnThread ==
  ASSUME ThreadType, NEW c \in Client, NEW t \in Thread, Return(c, t)
  PROVE  ThreadType'
BY ReturnType DEF ThreadType

LEMMA GoThreadType ==
  ASSUME ThreadType, NEW c \in Client, NEW t \in Thread,
         NEW pc \in Steps, NEW p \in Payload \cup {None}, NEW n \in Nat,
         pc \in {"send", "post", "spill", "write"} => p \in Payload,
         Go(c, t, pc, p, n)
  PROVE  ThreadType'
BY GoType DEF ThreadType

LEMMA Daemons == "worker" \in Thread /\ "flusher" \in Thread /\ App \subseteq Thread
BY DEF Thread, Daemon

LEMMA EmitType ==
  ASSUME TypeInv, NEW c \in Client, NEW t \in App, NEW p \in Payload, Emit(c, t, p)
  PROVE  TypeInv'
<1>1. ThreadType'
  BY TypeParts, GoThreadType, Daemons DEF Emit, Steps
<1>2. ClientType'
  <2>2. UNCHANGED <<queue, disabled>>
    BY DEF Emit
  <2>3. status' \in [Client -> {"none", "up", "closed", "dead"}]
    BY TypeParts DEF Emit, ClientType
  <2>4. current' \in [Proc -> Client \cup {None}]
    <3>1. current \in [Proc -> Client \cup {None}]
      BY TypeParts DEF ClientType
    <3>2. current' = current \/ current' = [current EXCEPT ![ProcOf[c]] = c]
      BY DEF Emit
    <3>. QED  BY <3>1, <3>2
  <2>. QED  BY <2>2, <2>3, <2>4, TypeParts DEF ClientType
<1>3. DiskType' /\ OtherType'
  BY TypeParts, Frames DEF Emit, OtherType, serverVars
<1>. QED  BY <1>1, <1>2, <1>3, TypePartsNext

LEMMA SendTraceType ==
  ASSUME TypeInv, NEW c \in Client, NEW t \in App, SendTrace(c, t)
  PROVE  TypeInv'
<1>1. Held(c, t) \in Payload /\ t \in Thread
  BY TypeParts, HeldType, Daemons DEF SendTrace, At
<1>2. ThreadType'
  BY <1>1, TypeParts, GoThreadType, ReturnThread DEF SendTrace, Overflow, Steps
<1>3. ClientType'
  <2>1. CASE UNCHANGED queue
    BY <2>1, TypeParts DEF SendTrace, ClientType
  <2>2. CASE HasRoom(c) /\ queue' = [queue EXCEPT ![c] = Append(@, Held(c, t))]
    <3>1. /\ Append(queue[c], Held(c, t)) \in Seq(Payload \cup {Stop})
          /\ Len(Append(queue[c], Held(c, t))) <= Capacity
      BY <1>1, <2>2, TypeParts, AppendProperties DEF ClientType, HasRoom
    <3>. QED  BY <2>2, <3>1, TypeParts DEF SendTrace, ClientType
  <2>. QED  BY <2>1, <2>2 DEF SendTrace
<1>4. DiskType' /\ OtherType'
  BY <1>1, TypeParts, Frames DEF SendTrace, OtherType, serverVars
<1>. QED  BY <1>2, <1>3, <1>4, TypePartsNext

LEMMA SpillType ==
  ASSUME TypeInv, NEW c \in Client, NEW t \in Thread, Spill(c, t)
  PROVE  TypeInv'
<1>1. DiskType /\ ClientType /\ ThreadType /\ OtherType
  BY TypeParts
<1>2. CASE \E f \in Path, K \in SUBSET Files : SpillOpen(c, t, f, K)
  <2>. PICK f \in Path, K \in SUBSET Files : SpillOpen(c, t, f, K)
    BY <1>2
  <2>1. DiskType' /\ ClientType'
    BY <1>1, CreateType, Frames DEF SpillOpen
  <2>2. ThreadType'
    BY <1>1, HeldType, GoThreadType DEF SpillOpen, At, Steps
  <2>3. OtherType'
    BY <1>1, PrunedIsPayload DEF SpillOpen, OtherType, serverVars
  <2>. QED  BY <2>1, <2>2, <2>3, TypePartsNext
<1>3. CASE SpillWrite(c, t)
  <2>1. Held(c, t) \in Payload
    BY <1>1, <1>3, HeldType DEF SpillWrite, At
  <2>2. DiskType' /\ ClientType'
    BY <1>1, <1>3, <2>1, FillType, Frames DEF SpillWrite
  <2>3. ThreadType' /\ OtherType'
    BY <1>1, <1>3, <2>1, ReturnThread DEF SpillWrite, OtherType, serverVars
  <2>. QED  BY <2>2, <2>3, TypePartsNext
<1>4. CASE \E K \in SUBSET Files : SpillError(c, t, K)
  <2>. PICK K \in SUBSET Files : SpillError(c, t, K)
    BY <1>4
  <2>1. Held(c, t) \in Payload
    BY <1>1, HeldType DEF SpillError, At
  <2>2. DiskType' /\ ClientType'
    BY <1>1, CreateErrorType, FillErrorType, Frames DEF SpillError
  <2>3. ThreadType' /\ OtherType'
    BY <1>1, <2>1, ReturnThread, PrunedIsPayload DEF SpillError, OtherType, serverVars
  <2>. QED  BY <2>2, <2>3, TypePartsNext
<1>. QED  BY <1>2, <1>3, <1>4 DEF Spill

LEMMA PostType ==
  ASSUME TypeInv, NEW c \in Client, NEW t \in Daemon,
         PostAnswered(c, t) \/ PostFailed(c, t)
  PROVE  TypeInv'
<1>1. DiskType /\ ClientType /\ ThreadType /\ OtherType /\ t \in Thread
  BY TypeParts DEF Thread
<1>2. Held(c, t) \in Payload /\ thread[c][t].failed + 1 \in Nat
  BY <1>1, HeldType DEF PostAnswered, PostFailed, At
<1>3. DiskType' /\ ClientType'
  BY <1>1, Frames DEF PostAnswered, PostFailed
<1>4. copies' \in [Payload -> 0..2]
  BY <1>1, <1>2 DEF PostAnswered, PostFailed, Store, OtherType
<1>5. OtherType'
  BY <1>1, <1>2, <1>4 DEF PostAnswered, PostFailed, OtherType
<1>6. ThreadType'
  <2>1. CASE PostAnswered(c, t)
    BY <1>1, <2>1, ReturnThread, GoThreadType, Daemons DEF PostAnswered, Steps
  <2>2. CASE PostFailed(c, t)
    BY <1>1, <1>2, <2>2, GoThreadType DEF PostFailed, GiveUp, Steps
  <2>. QED  BY <2>1, <2>2
<1>. QED  BY <1>3, <1>5, <1>6, TypePartsNext

LEMMA OnlyThreadsType ==
  ASSUME TypeInv, OnlyThreads, ThreadType'
  PROVE  TypeInv'
BY TypeParts, TypePartsNext, Frames DEF OnlyThreads, OtherType, serverVars

LEMMA WorkerType ==
  ASSUME TypeInv, NEW c \in Client, Worker(c)
  PROVE  TypeInv'
<1>1. DiskType /\ ClientType /\ ThreadType /\ OtherType
  BY TypeParts
<1>2. CASE WorkerLoop(c) \/ WorkerTimeout(c)
  BY <1>1, <1>2, Daemons, GoThreadType, ReturnThread, OnlyThreadsType
     DEF WorkerLoop, WorkerTimeout, Steps
<1>3. CASE WorkerGet(c)
  <2>1. /\ Head(queue[c]) \in Payload \cup {Stop}
        /\ Tail(queue[c]) \in Seq(Payload \cup {Stop})
        /\ Len(Tail(queue[c])) <= Capacity
    BY <1>1, <1>3, HeadTailProperties, LenProperties DEF WorkerGet, ClientType
  <2>2. ClientType'
    BY <1>1, <1>3, <2>1 DEF WorkerGet, ClientType
  <2>3. ThreadType'
    BY <1>1, <1>3, <2>1, Daemons, GoThreadType, ReturnThread DEF WorkerGet, Steps
  <2>4. DiskType' /\ OtherType'
    BY <1>1, <1>3, <2>1, Frames DEF WorkerGet, OtherType, serverVars
  <2>. QED  BY <2>2, <2>3, <2>4, TypePartsNext
<1>4. CASE PostAnswered(c, "worker") \/ PostFailed(c, "worker") \/ Spill(c, "worker")
  BY <1>4, PostType, SpillType, Daemons DEF Daemon
<1>. QED  BY <1>2, <1>3, <1>4 DEF Worker

LEMMA FlusherType ==
  ASSUME TypeInv, NEW c \in Client, Flusher(c)
  PROVE  TypeInv'
<1>1. DiskType /\ ClientType /\ ThreadType /\ OtherType /\ "flusher" \in Thread
  BY TypeParts, Daemons
<1>2. CASE FlusherStop(c)
  BY <1>1, <1>2, GoThreadType, OnlyThreadsType DEF FlusherStop, Steps
<1>3. CASE \E f \in Path : FlusherPick(c, f)
  <2>1. ThreadType'
    BY <1>1, <1>3, GoThreadType DEF FlusherPick, Steps
  <2>. QED  BY <1>1, <1>3, <2>1, Frames, TypePartsNext DEF FlusherPick, OtherType, serverVars
<1>4. CASE FlusherRead(c)
  <2>1. ThreadType'
    BY <1>1, <1>4, GoThreadType, ReturnThread DEF FlusherRead, StartPosting, Steps
  <2>. QED  BY <1>1, <1>4, <2>1, Frames, TypePartsNext DEF FlusherRead, OtherType, serverVars
<1>5. CASE FlusherSweep(c)
  BY <1>1, <1>5, ReturnThread, ClearType, Frames, TypePartsNext
     DEF FlusherSweep, OtherType, serverVars
<1>6. CASE FlusherClear(c)
  <2>1. ThreadType'
    BY <1>1, <1>6, HeldType, ReturnThread, GoThreadType DEF FlusherClear, Handled, Steps
  <2>. QED  BY <1>1, <1>6, <2>1, ClearType, Frames, TypePartsNext
            DEF FlusherClear, Handled, OtherType, serverVars
<1>7. CASE PostAnswered(c, "flusher") \/ PostFailed(c, "flusher") \/ Spill(c, "flusher")
  BY <1>7, PostType, SpillType, Daemons DEF Daemon
<1>. QED  BY <1>2, <1>3, <1>4, <1>5, <1>6, <1>7 DEF Flusher

LEMMA CallerType ==
  ASSUME TypeInv, NEW c \in Client, NEW t \in App, Caller(c, t)
  PROVE  TypeInv'
<1>1. ThreadType /\ t \in Thread
  BY TypeParts, Daemons
<1>2. CASE FlushPoll(c, t) \/ FlushAgain(c, t) \/ FlushTimeout(c, t)
  <2>1. ThreadType'
    BY <1>1, <1>2, GoThreadType, ReturnThread DEF FlushPoll, FlushAgain, FlushTimeout, Steps
  <2>. QED  BY <1>2, <2>1, OnlyThreadsType DEF FlushPoll, FlushAgain, FlushTimeout
<1>. QED  BY <1>1, <1>2, SendTraceType, SpillType DEF Caller

LEMMA CloseType ==
  ASSUME ClientType, NEW c \in Client, Close(c)
  PROVE  ClientType'
<1>1. CASE HasRoom(c)
  <2>1. /\ Append(queue[c], Stop) \in Seq(Payload \cup {Stop})
        /\ Len(Append(queue[c], Stop)) <= Capacity
    BY <1>1, AppendProperties DEF ClientType, HasRoom
  <2>. QED  BY <1>1, <2>1 DEF Close, ClientType
<1>2. CASE ~HasRoom(c)
  BY <1>2 DEF Close, ClientType
<1>. QED  BY <1>1, <1>2

LEMMA EnvironmentType ==
  ASSUME TypeInv, Environment
  PROVE  TypeInv'
<1>1. DiskType /\ ClientType /\ ThreadType /\ OtherType
  BY TypeParts
<1>2. CASE \E c \in Client, t \in App : FlushCall(c, t)
  <2>1. ThreadType'
    BY <1>1, <1>2, Daemons, GoThreadType DEF FlushCall, Steps
  <2>. QED  BY <1>2, <2>1, OnlyThreadsType DEF FlushCall
<1>3. CASE \E c \in Client, t \in App, p \in Payload : Emit(c, t, p)
  BY <1>3, EmitType
<1>4. CASE \E c \in Client : Close(c)
  <2>1. ClientType'
    BY <1>1, <1>4, CloseType
  <2>. QED  BY <1>1, <1>4, <2>1, Frames, TypePartsNext DEF Close
<1>5. CASE \E q \in Proc : ResetClient(q)
  <2>1. ClientType'
    BY <1>1, <1>5 DEF ResetClient, ClientType
  <2>. QED  BY <1>1, <1>5, <2>1, Frames, TypePartsNext DEF ResetClient
<1>6. CASE \E q \in Proc : Configure(q)
  <2>1. ClientType'
    BY <1>1, <1>6 DEF Configure, ClientType
  <2>. QED  BY <1>1, <1>6, <2>1, Frames, TypePartsNext DEF Configure
<1>7. CASE \E q \in Proc : Exit(q)
  <2>. PICK q \in Proc : Exit(q)
    BY <1>7
  <2>1. ClientType'
    BY <1>1 DEF Exit, ClientType
  <2>2. DiskType'
    BY <1>1 DEF Exit, DiskType
  <2>3. ThreadType' /\ OtherType'
    BY <1>1, Frames DEF Exit, OtherType, serverVars
  <2>. QED  BY <2>1, <2>2, <2>3, TypePartsNext
<1>8. CASE ServerSwitch
  BY <1>1, <1>8, Frames, TypePartsNext DEF ServerSwitch, OtherType
<1>. QED  BY <1>2, <1>3, <1>4, <1>5, <1>6, <1>7, <1>8 DEF Environment

LEMMA InitType == Init => TypeInv
<1>. SUFFICES ASSUME Init PROVE TypeInv
  OBVIOUS
<1>1. DiskType
  BY DEF Init, DiskInit, DiskType
<1>2. ClientType
  <2>1. queue \in [Client -> Seq(Payload \cup {Stop})] /\ \A c \in Client : Len(queue[c]) <= Capacity
    <3>1. <<>> \in Seq(Payload \cup {Stop}) /\ Len(<<>>) = 0
      BY EmptySeq
    <3>. QED  BY <3>1 DEF Init
  <2>2. /\ status \in [Client -> {"none", "up", "closed", "dead"}]
        /\ current \in [Proc -> Client \cup {None}]
    BY DEF Init
  <2>3. disabled \in [Proc -> BOOLEAN]
    BY DEF Init
  <2>. QED  BY <2>1, <2>2, <2>3 DEF ClientType
<1>3. ThreadType
  BY DEF Init, ThreadType, ThreadState, HoldsItem, Held, Steps
<1>4. OtherType
  BY DEF Init, OtherType
<1>. QED  BY <1>1, <1>2, <1>3, <1>4, TypeParts

LEMMA NextType == TypeInv /\ [Next]_vars => TypeInv'
<1>. SUFFICES ASSUME TypeInv, [Next]_vars PROVE TypeInv'
  OBVIOUS
<1>1. CASE UNCHANGED vars
  BY <1>1, TypeParts, TypePartsNext, Frames DEF vars
<1>. QED  BY <1>1, WorkerType, FlusherType, CallerType, EnvironmentType DEF Next

(***************************************************************************)
(* Every behaviour of the pipeline is type correct and keeps the in-memory *)
(* queues within their bound.                                              *)
(***************************************************************************)
THEOREM TypeCorrect == Spec => []TypeOK
<1>1. TypeInv => TypeOK
  BY DEF TypeInv
<1>. QED  BY <1>1, InitType, NextType, PTL DEF Spec

(***************************************************************************)
(* The budget of the directory: every step of the pipeline is an operation *)
(* of the disk queue, leaves it alone, or ends a process and its locks.    *)
(***************************************************************************)
LEMMA SameBudget == BudgetInv /\ UNCHANGED diskVars => BudgetInv'
BY DEF BudgetInv, diskVars, Files, Written, Writers

LEMMA SpillBudget ==
  ASSUME TypeInv, BudgetInv, NEW c \in Client, NEW t \in Thread, Spill(c, t)
  PROVE  BudgetInv'
<1>1. DiskType /\ ThreadType
  BY TypeParts
<1>2. CASE \E f \in Path, K \in SUBSET Files : SpillOpen(c, t, f, K)
  BY <1>1, <1>2, CreateBudget DEF SpillOpen
<1>3. CASE SpillWrite(c, t)
  <2>1. Held(c, t) \in Payload
    BY <1>1, <1>3, HeldType DEF SpillWrite, At
  <2>. QED  BY <1>1, <1>3, <2>1, FillBudget DEF SpillWrite
<1>4. CASE \E K \in SUBSET Files : SpillError(c, t, K)
  BY <1>1, <1>4, OtherBudget DEF SpillError
<1>. QED  BY <1>2, <1>3, <1>4 DEF Spill

LEMMA ClientBudget ==
  ASSUME TypeInv, BudgetInv, NEW c \in Client,
         Worker(c) \/ Flusher(c) \/ \E t \in App : Caller(c, t)
  PROVE  BudgetInv'
<1>1. DiskType
  BY TypeParts
<1>2. CASE \E t \in Thread : Spill(c, t)
  BY <1>2, SpillBudget
<1>3. CASE FlusherSweep(c) \/ FlusherClear(c)
  BY <1>1, <1>3, OtherBudget DEF FlusherSweep, FlusherClear, Handled
<1>4. CASE \E t \in Daemon : PostAnswered(c, t) \/ PostFailed(c, t)
  BY <1>4, SameBudget DEF PostAnswered, PostFailed
<1>5. CASE WorkerLoop(c) \/ WorkerGet(c) \/ WorkerTimeout(c)
  BY <1>5, SameBudget DEF WorkerLoop, WorkerGet, WorkerTimeout, OnlyThreads
<1>6. CASE FlusherStop(c) \/ FlusherRead(c) \/ \E f \in Path : FlusherPick(c, f)
  BY <1>6, SameBudget DEF FlusherStop, FlusherRead, FlusherPick, OnlyThreads
<1>7. CASE \E t \in App : SendTrace(c, t) \/ FlushPoll(c, t) \/ FlushAgain(c, t)
                          \/ FlushTimeout(c, t)
  BY <1>7, SameBudget DEF SendTrace, FlushPoll, FlushAgain, FlushTimeout, OnlyThreads
<1>. QED  BY <1>2, <1>3, <1>4, <1>5, <1>6, <1>7, Daemons
          DEF Worker, Flusher, Caller, Daemon

LEMMA EnvironmentBudget ==
  ASSUME TypeInv, BudgetInv, Environment
  PROVE  BudgetInv'
<1>1. CASE \E q \in Proc : Exit(q)
  <2>1. UNCHANGED data /\ Writers' \subseteq Writers
    BY <1>1, TypeParts DEF Exit, Writers, DiskType
  <2>2. Files' \subseteq Files /\ Written(Files)' \subseteq Written(Files)
    BY <2>1 DEF Files, Written
  <2>. QED  BY <2>1, <2>2, ShrinkBudget
<1>2. CASE ~ \E q \in Proc : Exit(q)
  BY <1>2, SameBudget
     DEF Environment, FlushCall, Emit, Close, ResetClient, Configure, ServerSwitch,
         OnlyThreads
<1>. QED  BY <1>1, <1>2

(***************************************************************************)
(* However many clients and processes share the directory, and whatever    *)
(* happens to them, it never holds more than its budget and one payload    *)
(* for each client.                                                        *)
(***************************************************************************)
THEOREM BudgetKept == Spec => []DiskBudget
<1>1. Init => TypeInv /\ BudgetInv
  BY InitType, InitBudget DEF Init
<1>2. TypeInv /\ BudgetInv /\ [Next]_vars => (TypeInv /\ BudgetInv)'
  <2>. SUFFICES ASSUME TypeInv, BudgetInv, [Next]_vars PROVE BudgetInv'
    BY NextType
  <2>1. CASE UNCHANGED vars
    BY <2>1, SameBudget DEF vars
  <2>. QED  BY <2>1, ClientBudget, EnvironmentBudget DEF Next
<1>3. BudgetInv => DiskBudget
  BY DiskConstants, Finiteness DEF BudgetInv, DiskBudget
<1>. QED  BY <1>1, <1>2, <1>3, PTL DEF Spec

-----------------------------------------------------------------------------
(***************************************************************************)
(* Conservation: no payload disappears from the delivery pipeline without  *)
(* a trace, in any instance.                                               *)
(***************************************************************************)
(* A thread that is not handing a payload over holds none. *)
Resting == {"idle", "loop", "get", "read", "sweep", "flush", "again", "done"}

IdleEmpty ==
  \A c \in Client, t \in Thread : thread[c][t].pc \in Resting => Held(c, t) = None

(* A file somebody is about to write has one writer and no payload yet. *)
LockBlank ==
  \A c \in Client :
    lock[c] # None =>
      /\ data[lock[c]] \notin Payload
      /\ \A d \in Client : d # c => lock[d] # lock[c]

(* The segment a flusher has read holds what the flusher holds, unless it  *)
(* is gone or has been answered.                                           *)
Seen(c) ==
  /\ Alive(c) /\ thread[c]["flusher"].pc \in {"read", "sweep", "post", "clear"}
       => path[c] \in Path
  /\ Alive(c) /\ thread[c]["flusher"].pc \in {"post", "clear"}
       => \/ data[path[c]] \in {None, Held(c, "flusher")}
          \/ data[path[c]] \in Payload /\ Settled(data[path[c]])

SegmentSeen == \A c \in Client : Seen(c)

(* The flusher of a client that has not been built has done nothing. *)
Fresh == \A c \in Client : status[c] = "none" => thread[c]["flusher"].pc = "loop"

Aux == IdleEmpty /\ LockBlank /\ SegmentSeen /\ Fresh

Kept(p) == \/ OnDisk(p) \/ Settled(p) \/ p \in dropped
           \/ \E c \in Client : InQueue(p, c) \/ InHand(p, c)

LEMMA GoSteps ==
  ASSUME ThreadType, NEW c \in Client, NEW t \in Thread,
         NEW pc \in Steps, NEW p \in Payload \cup {None}, NEW n \in Nat,
         Go(c, t, pc, p, n)
  PROVE  /\ thread'[c][t] = [pc |-> pc, item |-> p, failed |-> n]
         /\ thread'[c][t].pc = pc /\ thread'[c][t].item = p
         /\ \A d \in Client, u \in Thread :
              d # c \/ u # t => thread'[d][u] = thread[d][u]
<1>1. thread \in [Client -> [Thread -> ThreadState]]
  BY DEF ThreadType
<1>. QED  BY <1>1, GoThread

LEMMA GoIdle ==
  ASSUME ThreadType, IdleEmpty, NEW c \in Client, NEW t \in Thread,
         NEW pc \in Steps, NEW p \in Payload \cup {None}, NEW n \in Nat,
         Go(c, t, pc, p, n), pc \in Resting => p = None
  PROVE  IdleEmpty'
<1>1. /\ thread'[c][t] = [pc |-> pc, item |-> p, failed |-> n]
      /\ \A d \in Client, u \in Thread :
           d # c \/ u # t => thread'[d][u] = thread[d][u]
  BY GoSteps
<1>2. ASSUME NEW d \in Client, NEW u \in Thread, thread'[d][u].pc \in Resting
      PROVE  thread'[d][u].item = None
  <2>1. CASE d = c /\ u = t
    BY <1>1, <1>2, <2>1
  <2>2. CASE d # c \/ u # t
    BY <1>1, <1>2, <2>2 DEF IdleEmpty, Held
  <2>. QED  BY <2>1, <2>2
<1>. QED  BY <1>2 DEF IdleEmpty, Held

(***************************************************************************)
(* A thread that moves keeps a payload if what the payload lay in does.    *)
(***************************************************************************)
LEMMA GoKept ==
  ASSUME ThreadType, NEW c \in Client, NEW t \in Thread,
         NEW pc \in Steps, NEW x \in Payload \cup {None}, NEW n \in Nat,
         Go(c, t, pc, x, n),
         NEW p \in Payload, Kept(p),
         OnDisk(p) => Kept(p)',
         Settled(p) => Settled(p)',
         dropped \subseteq dropped',
         \A d \in Client : InQueue(p, d) => Kept(p)',
         Held(c, t) = p => Kept(p)'
  PROVE  Kept(p)'
<1>1. /\ thread'[c][t] = [pc |-> pc, item |-> x, failed |-> n]
      /\ \A d \in Client, u \in Thread : d # c \/ u # t => thread'[d][u] = thread[d][u]
  BY GoSteps
<1>2. ASSUME NEW d \in Client, InHand(p, d)
      PROVE  Kept(p)'
  <2>1. PICK u \in Thread : Held(d, u) = p
    BY <1>2 DEF InHand
  <2>2. CASE d = c /\ u = t
    BY <2>1, <2>2
  <2>3. CASE d # c \/ u # t
    <3>1. thread'[d][u].item = p
      BY <1>1, <2>1, <2>3 DEF Held
    <3>2. InHand(p, d)'
      BY <3>1 DEF InHand, Held
    <3>. QED  BY <3>2 DEF Kept
  <2>. QED  BY <2>2, <2>3
<1>. QED  BY <1>2 DEF Kept

LEMMA SameKept ==
  ASSUME NEW p \in Payload
  PROVE  /\ UNCHANGED data => (OnDisk(p) => Kept(p)')
         /\ UNCHANGED queue => \A d \in Client : InQueue(p, d) => Kept(p)'
         /\ UNCHANGED <<copies, refused>> => (Settled(p) => Settled(p)')
BY DEF Kept, OnDisk, InQueue, Settled

LEMMA InHandKept ==
  ASSUME ThreadType, NEW c \in Client, NEW t \in Thread,
         NEW pc \in Steps, NEW p \in Payload, NEW n \in Nat,
         Go(c, t, pc, p, n)
  PROVE  Kept(p)'
<1>1. thread'[c][t] = [pc |-> pc, item |-> p, failed |-> n]
  BY GoSteps
<1>. QED  BY <1>1 DEF Kept, InHand, Held

(***************************************************************************)
(* The auxiliary invariant, action by action.                              *)
(***************************************************************************)
SettledStays == \A p \in Payload : Settled(p) => Settled(p)'

LEMMA SeenStays ==
  ASSUME NEW c \in Client, Seen(c), SettledStays,
         thread'[c]["flusher"] = thread[c]["flusher"], path'[c] = path[c],
         Alive(c)' => Alive(c),
         Alive(c) /\ thread[c]["flusher"].pc \in {"post", "clear"} =>
           data'[path[c]] \in {data[path[c]], None}
  PROVE  Seen(c)'
<1>1. ASSUME Alive(c)', thread'[c]["flusher"].pc \in {"read", "sweep", "post", "clear"}
      PROVE  path'[c] \in Path
  BY <1>1 DEF Seen
<1>2. ASSUME Alive(c)', thread'[c]["flusher"].pc \in {"post", "clear"}
      PROVE  \/ data[path[c]]' \in {None, Held(c, "flusher")'}
             \/ data[path[c]]' \in Payload /\ Settled(data[path[c]])'
  <2>1. Held(c, "flusher")' = Held(c, "flusher")
    BY DEF Held
  <2>2. data[path[c]]' = data[path[c]] \/ data[path[c]]' = None
    BY <1>2
  <2>3. CASE data[path[c]]' = data[path[c]]
    <3>1. CASE data[path[c]] \in {None, Held(c, "flusher")}
      BY <2>1, <2>3, <3>1
    <3>2. CASE data[path[c]] \in Payload /\ Settled(data[path[c]])
      BY <2>3, <3>2 DEF SettledStays, Settled
    <3>. QED  BY <1>2, <3>1, <3>2 DEF Seen
  <2>. QED  BY <2>2, <2>3
<1>. QED  BY <1>1, <1>2 DEF Seen

LEMMA SameSettled == UNCHANGED <<copies, refused>> => SettledStays
BY DEF SettledStays, Settled

LEMMA StoreSettles ==
  ASSUME OtherType, NEW p \in Payload, Store(p), UNCHANGED refused
  PROVE  SettledStays /\ Settled(p)'
<1>1. \A q \in Payload : copies[q] \in 0..2
  BY DEF OtherType
<1>2. copies'[p] > 0
  BY <1>1 DEF Store, OtherType
<1>3. \A q \in Payload : q # p => copies'[q] = copies[q]
  BY DEF Store, OtherType
<1>. QED  BY <1>2, <1>3 DEF SettledStays, Settled

LEMMA PostSettles ==
  ASSUME OtherType, NEW c \in Client, NEW t \in Daemon, NEW p \in Payload,
         Held(c, t) = p
  PROVE  /\ PostAnswered(c, t) => SettledStays /\ Settled(p)'
         /\ PostFailed(c, t) => SettledStays
<1>1. Store(p) /\ UNCHANGED refused => SettledStays /\ Settled(p)'
  BY StoreSettles
<1>2. refused' = refused \cup {p} /\ UNCHANGED copies => SettledStays /\ Settled(p)'
  BY DEF SettledStays, Settled
<1>. QED  BY <1>1, <1>2, SameSettled DEF PostAnswered, PostFailed

(***************************************************************************)
(* What every step does to the auxiliary invariant and to the payloads: a  *)
(* payload that was going to be looked at again still is, unless something *)
(* ended with it (the last clause of LossesAtEnds).                        *)
(***************************************************************************)
EndsWith(p) ==
  \E c \in Client :
    \/ Served(c) /\ ~Served(c)' /\ InQueue(p, c)
    \/ Alive(c) /\ ~Alive(c)' /\ InHand(p, c)
    \/ Alive(c) /\ ~Served(c)' /\ InHand(p, c) /\ InQueue(p, c)'

Outlives(p) == Live(p)' \/ Settled(p)' \/ p \in dropped' \/ EndsWith(p)

Preserves ==
  /\ Aux'
  /\ \A p \in Payload : Kept(p) => Kept(p)'
  /\ \A p \in Payload : Live(p) => Outlives(p)

LEMMA StepKeeps ==
  ASSUME ThreadType, Aux, NEW c \in Client, NEW t \in Thread, Alive(c),
         NEW pc \in Steps, NEW x \in Payload \cup {None}, NEW n \in Nat,
         Go(c, t, pc, x, n), pc \in Resting => x = None,
         LockBlank', UNCHANGED status, SettledStays, dropped \subseteq dropped',
         \A d \in Client : d # c \/ t # "flusher" => path'[d] = path[d],
         t = "flusher" => Seen(c)',
         \A d \in Client :
           Alive(d) /\ thread[d]["flusher"].pc \in {"post", "clear"}
             /\ (d # c \/ t # "flusher")
             => data'[path[d]] \in {data[path[d]], None},
         \A p \in Payload :
           OnDisk(p) => OnDisk(p)' \/ Settled(p)' \/ p \in dropped' \/ x = p,
         \A p \in Payload, d \in Client :
           InQueue(p, d) => InQueue(p, d)' \/ x = p \/ p \in dropped',
         \A p \in Payload :
           Held(c, t) = p => \/ x = p \/ Settled(p)' \/ p \in dropped'
                             \/ OnDisk(p)' \/ InQueue(p, c)'
  PROVE  Preserves
<1>1. ASSUME NEW p \in Payload, Kept(p)
      PROVE  Kept(p)'
  <2>1. Settled(p) => Settled(p)'
    BY DEF SettledStays
  <2>2. x = p => Kept(p)'
    BY InHandKept
  <2>3. /\ OnDisk(p)' \/ Settled(p)' \/ p \in dropped' => Kept(p)'
        /\ \A d \in Client : InQueue(p, d)' => Kept(p)'
    BY DEF Kept
  <2>4. OnDisk(p) => Kept(p)'
    BY <2>2, <2>3
  <2>5. \A d \in Client : InQueue(p, d) => Kept(p)'
    BY <2>2, <2>3
  <2>6. Held(c, t) = p => Kept(p)'
    BY <2>2, <2>3
  <2>. QED  BY <1>1, <2>1, <2>4, <2>5, <2>6, GoKept
<1>2. /\ thread'[c][t] = [pc |-> pc, item |-> x, failed |-> n]
      /\ \A d \in Client, u \in Thread : d # c \/ u # t => thread'[d][u] = thread[d][u]
  BY GoSteps
<1>3. \A d \in Client : d # c \/ t # "flusher" => thread'[d]["flusher"] = thread[d]["flusher"]
  BY <1>2, Daemons
<1>4. IdleEmpty'
  BY GoIdle DEF Aux
<1>5. ASSUME NEW d \in Client
      PROVE  Seen(d)'
  <2>1. CASE d = c /\ t = "flusher"
    BY <2>1
  <2>2. CASE d # c \/ t # "flusher"
    <3>1. Seen(d) /\ (Alive(d)' => Alive(d))
      BY DEF Aux, SegmentSeen, Alive
    <3>. QED  BY <1>3, <2>2, <3>1, SeenStays
  <2>. QED  BY <2>1, <2>2
<1>6. Fresh'
  BY <1>3 DEF Aux, Fresh, Alive
<1>7. ASSUME NEW p \in Payload, Live(p)
      PROVE  Outlives(p)
  <2>0. \A d \in Client : Alive(d)' <=> Alive(d)
    BY DEF Alive
  <2>1. x = p => Live(p)'
    BY <1>2, <2>0 DEF Live, InHand, Held
  <2>2. OnDisk(p)' => Live(p)'
    BY DEF Live
  <2>3. ASSUME NEW d \in Client, Served(d), InQueue(p, d)
        PROVE  Outlives(p)
    <3>1. InQueue(p, d)' => Live(p)' \/ EndsWith(p)
      BY <2>3 DEF Live, EndsWith
    <3>. QED  BY <2>1, <2>3, <3>1 DEF Outlives
  <2>4. ASSUME NEW d \in Client, Alive(d), NEW u \in Thread, Held(d, u) = p
        PROVE  Outlives(p)
    <3>1. CASE d = c /\ u = t
      <4>1. InHand(p, c)
        BY <2>4, <3>1 DEF InHand
      <4>2. InQueue(p, c)' => Live(p)' \/ EndsWith(p)
        BY <4>1 DEF Live, EndsWith
      <4>. QED  BY <2>1, <2>2, <2>4, <3>1, <4>2 DEF Outlives
    <3>2. CASE d # c \/ u # t
      <4>1. thread'[d][u].item = p
        BY <1>2, <2>4, <3>2 DEF Held
      <4>2. InHand(p, d)' /\ Alive(d)'
        BY <2>0, <2>4, <4>1 DEF InHand, Held
      <4>. QED  BY <4>2 DEF Outlives, Live
    <3>. QED  BY <3>1, <3>2
  <2>5. OnDisk(p) => Outlives(p)
    BY <2>1, <2>2 DEF Outlives
  <2>. QED  BY <1>7, <2>3, <2>4, <2>5 DEF Live, InHand
<1>. QED  BY <1>1, <1>4, <1>5, <1>6, <1>7 DEF Preserves, Aux, SegmentSeen

(* The same for a thread that is not the flusher and leaves the disk alone. *)
LEMMA QuietStep ==
  ASSUME ThreadType, Aux, NEW c \in Client, NEW t \in Thread \ {"flusher"}, Alive(c),
         NEW pc \in Steps, NEW x \in Payload \cup {None}, NEW n \in Nat,
         Go(c, t, pc, x, n), pc \in Resting => x = None,
         UNCHANGED <<data, lock, path, status>>, SettledStays,
         dropped \subseteq dropped',
         \A p \in Payload, d \in Client :
           InQueue(p, d) => InQueue(p, d)' \/ x = p \/ p \in dropped',
         \A p \in Payload :
           Held(c, t) = p => x = p \/ Settled(p)' \/ p \in dropped' \/ InQueue(p, c)'
  PROVE  Preserves
<1>1. LockBlank' /\ \A p \in Payload : OnDisk(p) => OnDisk(p)'
  BY DEF Aux, LockBlank, OnDisk
<1>. QED  BY <1>1, StepKeeps

LEMMA GoReturn ==
  ASSUME NEW c \in Client, NEW t \in Thread, Return(c, t)
  PROVE  \E pc \in {"loop", "idle"} : Go(c, t, pc, None, 0)
BY DEF Return

LEMMA ReturnStep ==
  ASSUME ThreadType, Aux, NEW c \in Client, NEW t \in Thread \ {"flusher"}, Alive(c),
         Return(c, t),
         UNCHANGED <<data, lock, path, status>>, SettledStays,
         dropped \subseteq dropped',
         \A p \in Payload, d \in Client :
           InQueue(p, d) => InQueue(p, d)' \/ p \in dropped',
         \A p \in Payload :
           Held(c, t) = p => Settled(p)' \/ p \in dropped' \/ InQueue(p, c)'
  PROVE  Preserves
<1>1. PICK pc \in {"loop", "idle"} : Go(c, t, pc, None, 0)
  BY GoReturn
<1>2. pc \in Steps /\ pc \in Resting
  BY DEF Steps, Resting
<1>. QED  BY <1>1, <1>2, QuietStep

LEMMA AppendKeeps ==
  ASSUME ClientType, NEW c \in Client, NEW y \in Payload \cup {Stop},
         queue' = [queue EXCEPT ![c] = Append(@, y)]
  PROVE  /\ \A p \in Payload, d \in Client : InQueue(p, d) => InQueue(p, d)'
         /\ InQueue(y, c)'
<1>1. /\ queue[c] \in Seq(Payload \cup {Stop}) /\ queue'[c] = Append(queue[c], y)
      /\ \A d \in Client \ {c} : queue'[d] = queue[d]
  BY DEF ClientType
<1>2. /\ DOMAIN queue[c] \subseteq DOMAIN queue'[c]
      /\ \A i \in DOMAIN queue[c] : queue'[c][i] = queue[c][i]
      /\ Len(queue[c]) + 1 \in DOMAIN queue'[c]
      /\ queue'[c][Len(queue[c]) + 1] = y
  BY <1>1, AppendProperties
<1>. QED  BY <1>1, <1>2 DEF InQueue

LEMMA TailKeeps ==
  ASSUME ClientType, NEW c \in Client, queue[c] # <<>>,
         queue' = [queue EXCEPT ![c] = Tail(@)]
  PROVE  \A p \in Payload, d \in Client :
           InQueue(p, d) => InQueue(p, d)' \/ p = Head(queue[c])
<1>1. /\ queue[c] \in Seq(Payload \cup {Stop}) /\ queue'[c] = Tail(queue[c])
      /\ \A d \in Client \ {c} : queue'[d] = queue[d]
  BY DEF ClientType
<1>2. \A i \in DOMAIN queue[c] :
         \/ queue[c][i] = Head(queue[c])
         \/ i - 1 \in DOMAIN queue'[c] /\ queue'[c][i - 1] = queue[c][i]
  <2>1. /\ Len(queue[c]) \in Nat /\ DOMAIN queue[c] = 1..Len(queue[c])
        /\ Head(queue[c]) = queue[c][1]
    BY <1>1
  <2>2. /\ Tail(queue[c]) \in Seq(Payload \cup {Stop})
        /\ Len(Tail(queue[c])) = Len(queue[c]) - 1
        /\ \A j \in 1..Len(Tail(queue[c])) : Tail(queue[c])[j] = queue[c][j + 1]
    BY <1>1, HeadTailProperties
  <2>3. DOMAIN Tail(queue[c]) = 1..Len(Tail(queue[c]))
    BY <2>2
  <2>4. ASSUME NEW i \in 1..Len(queue[c]), i # 1
        PROVE  /\ i - 1 \in 1..Len(Tail(queue[c]))
               /\ Tail(queue[c])[i - 1] = queue[c][i]
    <3>1. i - 1 \in 1..Len(Tail(queue[c])) /\ (i - 1) + 1 = i
      BY <2>1, <2>2, <2>4
    <3>. QED  BY <2>2, <3>1
  <2>. QED  BY <1>1, <2>1, <2>3, <2>4
<1>. QED  BY <1>1, <1>2 DEF InQueue

LEMMA SendTraceKeeps ==
  ASSUME TypeInv, Aux, NEW c \in Client, NEW t \in App, SendTrace(c, t)
  PROVE  Preserves
<1>0. /\ ThreadType /\ t \in Thread \ {"flusher"} /\ ClientType
      /\ thread[c][t].pc = "send" /\ Alive(c)
  BY TypeParts, Daemons DEF SendTrace, At, Thread, Daemon
<1>. PICK y \in Payload : Held(c, t) = y
  BY <1>0, HeldType
<1>2. /\ UNCHANGED <<data, lock, path, status>> /\ SettledStays
      /\ dropped \subseteq dropped'
  BY SameSettled DEF SendTrace, diskVars, serverVars
<1>3. CASE dropped' = dropped \cup {y} /\ UNCHANGED queue /\ Return(c, t)
  <2>1. \A p \in Payload, d \in Client : InQueue(p, d) => InQueue(p, d)'
    BY <1>3 DEF InQueue
  <2>. QED  BY <1>0, <1>2, <1>3, <2>1, ReturnStep
<1>4. CASE queue' = [queue EXCEPT ![c] = Append(@, y)] /\ Return(c, t)
  <2>1. \A p \in Payload, d \in Client : InQueue(p, d) => InQueue(p, d)'
    BY <1>0, <1>4, AppendKeeps
  <2>2. InQueue(y, c)'
    BY <1>0, <1>4, AppendKeeps
  <2>. QED  BY <1>0, <1>2, <1>4, <2>1, <2>2, ReturnStep
<1>5. CASE UNCHANGED queue /\ Go(c, t, "spill", y, 0)
  <2>1. \A p \in Payload, d \in Client : InQueue(p, d) => InQueue(p, d)'
    BY <1>5 DEF InQueue
  <2>2. "spill" \in Steps /\ "spill" \notin Resting
    BY DEF Steps, Resting
  <2>. QED  BY <1>0, <1>2, <1>5, <2>1, <2>2, QuietStep
<1>. QED  BY <1>3, <1>4, <1>5 DEF SendTrace, Overflow

LEMMA RestingHolds ==
  ASSUME Aux, NEW c \in Client, NEW t \in Thread, thread[c][t].pc \in Resting
  PROVE  Held(c, t) = None
BY DEF Aux, IdleEmpty

(* Steps that change nothing but where one thread is. *)
LEMMA PollKeeps ==
  ASSUME TypeInv, Aux, NEW c \in Client, NEW t \in Thread \ {"flusher"},
         Alive(c), thread[c][t].pc \in Resting, NEW pc \in Steps, pc \in Resting,
         Go(c, t, pc, None, 0), OnlyThreads
  PROVE  Preserves
<1>1. Held(c, t) = None
  BY RestingHolds
<1>2. /\ UNCHANGED <<data, lock, path, status, queue>> /\ SettledStays
      /\ dropped \subseteq dropped'
  BY SameSettled DEF OnlyThreads, diskVars, serverVars, clientVars
<1>3. \A p \in Payload, d \in Client : InQueue(p, d) => InQueue(p, d)'
  BY <1>2 DEF InQueue
<1>. QED  BY <1>1, <1>2, <1>3, TypeParts, QuietStep

LEMMA WorkerGetKeeps ==
  ASSUME TypeInv, Aux, NEW c \in Client, WorkerGet(c)
  PROVE  Preserves
<1>0. /\ ThreadType /\ ClientType /\ "worker" \in Thread \ {"flusher"}
      /\ queue[c] # <<>> /\ queue' = [queue EXCEPT ![c] = Tail(@)] /\ Alive(c)
  BY TypeParts, Daemons DEF WorkerGet, At
<1>1. Held(c, "worker") = None
  BY <1>0, RestingHolds DEF WorkerGet, At, Resting
<1>2. /\ UNCHANGED <<data, lock, path, status>> /\ SettledStays
      /\ dropped \subseteq dropped'
  BY SameSettled DEF WorkerGet, diskVars, serverVars
<1>. PICK x : x = Head(queue[c])
  OBVIOUS
<1>3. x \in Payload \cup {Stop}
  BY <1>0, HeadTailProperties DEF ClientType
<1>4. \A p \in Payload, d \in Client : InQueue(p, d) => InQueue(p, d)' \/ p = x
  BY <1>0, TailKeeps
<1>5. CASE x = Stop /\ Go(c, "worker", "done", None, 0)
  <2>1. "done" \in Steps /\ "done" \in Resting
    BY DEF Steps, Resting
  <2>. QED  BY <1>0, <1>1, <1>2, <1>4, <1>5, <2>1, QuietStep
<1>6. CASE dropped' = dropped \cup {x} /\ Return(c, "worker")
  BY <1>0, <1>1, <1>2, <1>4, <1>6, ReturnStep
<1>7. CASE x # Stop /\ Go(c, "worker", "post", x, 0)
  <2>1. "post" \in Steps /\ "post" \notin Resting
    BY DEF Steps, Resting
  <2>. QED  BY <1>0, <1>1, <1>2, <1>3, <1>4, <1>7, <2>1, QuietStep
<1>. QED  BY <1>5, <1>6, <1>7 DEF WorkerGet

LEMMA WorkerPostKeeps ==
  ASSUME TypeInv, Aux, NEW c \in Client,
         PostAnswered(c, "worker") \/ PostFailed(c, "worker")
  PROVE  Preserves
<1>0. /\ ThreadType /\ OtherType /\ "worker" \in Thread \ {"flusher"} /\ Alive(c)
      /\ "worker" \in Daemon /\ thread[c]["worker"].pc = "post"
  BY TypeParts, Daemons DEF PostAnswered, PostFailed, At, Daemon
<1>. PICK y \in Payload : Held(c, "worker") = y
  BY <1>0, HeldType
<1>1. /\ UNCHANGED <<data, lock, path, status, queue>>
      /\ dropped \subseteq dropped'
  BY DEF PostAnswered, PostFailed, diskVars, clientVars
<1>2. \A p \in Payload, d \in Client : InQueue(p, d) => InQueue(p, d)'
  BY <1>1 DEF InQueue
<1>3. CASE PostAnswered(c, "worker")
  <2>1. SettledStays /\ Settled(y)' /\ Return(c, "worker")
    BY <1>0, <1>3, PostSettles DEF PostAnswered
  <2>. QED  BY <1>0, <1>1, <1>2, <2>1, ReturnStep
<1>4. CASE PostFailed(c, "worker")
  <2>1. SettledStays /\ thread[c]["worker"].failed + 1 \in Nat
    BY <1>0, <1>4, PostSettles, HeldType
  <2>2. PICK pc \in {"post", "spill"}, n \in Nat : Go(c, "worker", pc, y, n)
    BY <1>4, <2>1 DEF PostFailed, GiveUp
  <2>3. pc \in Steps /\ pc \notin Resting
    BY DEF Steps, Resting
  <2>. QED  BY <1>0, <1>1, <1>2, <2>1, <2>2, <2>3, QuietStep
<1>. QED  BY <1>3, <1>4

LEMMA CreateKeeps ==
  ASSUME DiskType, LockBlank, NEW c \in Client, NEW f \in Path, NEW K \in SUBSET Files,
         Create(c, f, K)
  PROVE  /\ LockBlank'
         /\ \A g \in Path \ {f} : data'[g] \in {data[g], None}
         /\ \A p \in Payload : OnDisk(p) => OnDisk(p)' \/ p \in Pruned(K)
<1>1. \A g \in Path : data'[g] = IF g = f THEN Blank ELSE IF g \in K THEN data[g] ELSE None
  BY DEF Create, KeepOnly, DiskType
<1>2. \A g \in Path \ {f} : data'[g] \in {data[g], None}
  BY <1>1
<1>3. LockBlank'
  <2>1. ASSUME NEW d \in Client, lock'[d] # None
        PROVE  /\ data'[lock'[d]] \notin Payload
               /\ \A e \in Client : e # d => lock'[e] # lock'[d]
    <3>1. CASE d = c
      BY <1>1, <2>1, <3>1 DEF Create, DiskType
    <3>2. CASE d # c
      <4>1. lock'[d] = lock[d] /\ lock[d] # f /\ lock[d] \in Path
        BY <2>1, <3>2 DEF Create, DiskType
      <4>. QED  BY <1>2, <2>1, <3>2, <4>1 DEF Create, DiskType, LockBlank
    <3>. QED  BY <3>1, <3>2
  <2>. QED  BY <2>1 DEF LockBlank
<1>4. \A p \in Payload : OnDisk(p) => OnDisk(p)' \/ p \in Pruned(K)
  BY <1>1 DEF Create, OnDisk, Pruned, Written, Files
<1>. QED  BY <1>2, <1>3, <1>4

LEMMA SpillOpenKeeps ==
  ASSUME TypeInv, Aux, NEW c \in Client, NEW t \in Thread,
         NEW f \in Path, NEW K \in SUBSET Files, SpillOpen(c, t, f, K)
  PROVE  Preserves
<1>0. /\ ThreadType /\ DiskType /\ LockBlank /\ Alive(c)
      /\ thread[c][t].pc = "spill" /\ Create(c, f, K)
  BY TypeParts DEF SpillOpen, At, Aux
<1>. PICK y \in Payload : Held(c, t) = y
  BY <1>0, HeldType
<1>1. /\ UNCHANGED <<path, status, queue>> /\ SettledStays
      /\ dropped' = dropped \cup Pruned(K) /\ Go(c, t, "write", y, 0)
      /\ \A d \in Client : path[d] # f
  BY SameSettled DEF SpillOpen, clientVars, serverVars
<1>2. /\ "write" \in Steps /\ "write" \notin Resting
      /\ \A p \in Payload, d \in Client : InQueue(p, d) => InQueue(p, d)'
  BY <1>0, <1>1 DEF Steps, Resting, InQueue
<1>3. \A d \in Client :
         Alive(d) /\ thread[d]["flusher"].pc \in {"post", "clear"}
           => data'[path[d]] \in {data[path[d]], None}
  <2>1. \A d \in Client : Alive(d) /\ thread[d]["flusher"].pc \in {"post", "clear"}
          => path[d] \in Path \ {f}
    BY <1>1 DEF Aux, SegmentSeen, Seen
  <2>. QED  BY <1>0, <2>1, CreateKeeps
<1>4. t = "flusher" => Seen(c)'
  <2>1. thread'[c][t] = [pc |-> "write", item |-> y, failed |-> 0]
    BY <1>0, <1>1, <1>2, GoSteps
  <2>. QED  BY <2>1 DEF Seen
<1>5. /\ LockBlank'
      /\ \A p \in Payload : OnDisk(p) => OnDisk(p)' \/ p \in dropped'
  BY <1>0, <1>1, CreateKeeps
<1>. QED  BY <1>0, <1>1, <1>2, <1>3, <1>4, <1>5, StepKeeps

LEMMA SpillWriteKeeps ==
  ASSUME TypeInv, Aux, NEW c \in Client, NEW t \in Thread, SpillWrite(c, t)
  PROVE  Preserves
<1>0. /\ ThreadType /\ DiskType /\ LockBlank /\ Alive(c)
      /\ thread[c][t].pc = "write"
  BY TypeParts DEF SpillWrite, At, Aux
<1>. PICK y \in Payload : Held(c, t) = y
  BY <1>0, HeldType
<1>1. /\ UNCHANGED <<path, status, queue>> /\ SettledStays
      /\ dropped \subseteq dropped' /\ Return(c, t) /\ Fill(c, y)
      /\ lock[c] \notin Files => y \in dropped'
  BY SameSettled DEF SpillWrite, clientVars, serverVars
<1>. PICK pc \in {"loop", "idle"} : Go(c, t, pc, None, 0)
  BY <1>1, GoReturn
<1>2. /\ pc \in Steps /\ pc \in Resting
      /\ \A p \in Payload, d \in Client : InQueue(p, d) => InQueue(p, d)'
  BY <1>1 DEF Steps, Resting, InQueue
<1>3. /\ lock[c] \in Files => data[lock[c]] = Blank /\ data'[lock[c]] = y
      /\ \A g \in Path : g # lock[c] \/ lock[c] \notin Files => data'[g] = data[g]
  BY <1>0, <1>1 DEF Fill, DiskType, Files, LockBlank
<1>4. LockBlank'
  <2>1. ASSUME NEW d \in Client, lock'[d] # None
        PROVE  /\ data'[lock'[d]] \notin Payload
               /\ \A e \in Client : e # d => lock'[e] # lock'[d]
    <3>1. d # c /\ lock'[d] = lock[d] /\ lock[d] \in Path /\ lock[c] # lock[d]
      BY <1>0, <1>1, <2>1 DEF Fill, DiskType, LockBlank
    <3>. QED  BY <1>0, <1>1, <1>3, <2>1, <3>1 DEF Fill, DiskType, LockBlank
  <2>. QED  BY <2>1 DEF LockBlank
<1>5. ASSUME NEW d \in Client, Alive(d), thread[d]["flusher"].pc \in {"post", "clear"}
      PROVE  data'[path[d]] \in {data[path[d]], None}
  <2>1. path[d] \in Path /\ data[path[d]] # Blank
    BY <1>0, <1>5, HeldType, Daemons, DiskConstants DEF Aux, SegmentSeen, Seen
  <2>. QED  BY <1>3, <2>1
<1>6. t = "flusher" => Seen(c)'
  <2>1. thread'[c][t] = [pc |-> pc, item |-> None, failed |-> 0]
    BY <1>0, <1>2, GoSteps
  <2>. QED  BY <2>1 DEF Seen
<1>7. \A p \in Payload : OnDisk(p) => OnDisk(p)'
  BY <1>3, DiskConstants DEF OnDisk
<1>8. OnDisk(y)' \/ y \in dropped'
  BY <1>1, <1>3 DEF OnDisk, Files
<1>. QED  BY <1>0, <1>1, <1>2, <1>4, <1>5, <1>6, <1>7, <1>8, StepKeeps

LEMMA SpillErrorKeeps ==
  ASSUME TypeInv, Aux, NEW c \in Client, NEW t \in Thread, NEW K \in SUBSET Files,
         SpillError(c, t, K)
  PROVE  Preserves
<1>0. /\ ThreadType /\ DiskType /\ LockBlank /\ Alive(c)
      /\ thread[c][t].pc \in {"spill", "write"}
  BY TypeParts DEF SpillError, At, Aux
<1>. PICK y \in Payload : Held(c, t) = y
  BY <1>0, HeldType
<1>1. /\ UNCHANGED <<path, status, queue>> /\ SettledStays
      /\ dropped' = dropped \cup Pruned(K) \cup {y} /\ Return(c, t)
      /\ CreateError(c, K) \/ (FillError(c) /\ K = Files)
  BY SameSettled DEF SpillError, clientVars, serverVars
<1>. PICK pc \in {"loop", "idle"} : Go(c, t, pc, None, 0)
  BY <1>1, GoReturn
<1>2. /\ pc \in Steps /\ pc \in Resting
      /\ \A p \in Payload, d \in Client : InQueue(p, d) => InQueue(p, d)'
  BY <1>1 DEF Steps, Resting, InQueue
<1>3. \A g \in Path : data'[g] = IF g \in K THEN data[g] ELSE None
  BY <1>0, <1>1 DEF CreateError, FillError, KeepOnly, DiskType, Files
<1>4. \A d \in Client : lock'[d] # None => lock'[d] = lock[d] /\ lock[d] \in Path
  BY <1>0, <1>1 DEF CreateError, FillError, DiskType
<1>5. LockBlank'
  BY <1>0, <1>3, <1>4 DEF LockBlank
<1>6. \A d \in Client :
         Alive(d) /\ thread[d]["flusher"].pc \in {"post", "clear"}
           => data'[path[d]] \in {data[path[d]], None}
  BY <1>3 DEF Aux, SegmentSeen, Seen
<1>7. t = "flusher" => Seen(c)'
  <2>1. thread'[c][t] = [pc |-> pc, item |-> None, failed |-> 0]
    BY <1>0, <1>2, GoSteps
  <2>. QED  BY <2>1 DEF Seen
<1>8. \A p \in Payload : OnDisk(p) => OnDisk(p)' \/ p \in dropped'
  BY <1>1, <1>3 DEF OnDisk, Pruned, Written, Files
<1>. QED  BY <1>0, <1>1, <1>2, <1>5, <1>6, <1>7, <1>8, StepKeeps

LEMMA SpillKeeps ==
  ASSUME TypeInv, Aux, NEW c \in Client, NEW t \in Thread, Spill(c, t)
  PROVE  Preserves
BY SpillOpenKeeps, SpillWriteKeeps, SpillErrorKeeps DEF Spill

(***************************************************************************)
(* The flusher.                                                            *)
(***************************************************************************)
LEMMA FlusherStep ==
  ASSUME TypeInv, Aux, NEW c \in Client, Alive(c),
         NEW pc \in Steps, NEW x \in Payload \cup {None}, NEW n \in Nat,
         Go(c, "flusher", pc, x, n), pc \in Resting => x = None,
         UNCHANGED <<data, lock, status, queue>>, SettledStays,
         dropped \subseteq dropped', \A d \in Client \ {c} : path'[d] = path[d],
         pc \in {"read", "sweep", "post", "clear"} => path'[c] \in Path,
         pc \in {"post", "clear"} =>
           \/ data[path'[c]] \in {None, x}
           \/ \E q \in Payload : data[path'[c]] = q /\ Settled(q)',
         \A p \in Payload : Held(c, "flusher") = p => x = p \/ Settled(p)'
  PROVE  Preserves
<1>1. /\ LockBlank' /\ \A p \in Payload : OnDisk(p) => OnDisk(p)'
      /\ \A p \in Payload, d \in Client : InQueue(p, d) => InQueue(p, d)'
  BY DEF Aux, LockBlank, OnDisk, InQueue
<1>2. "flusher" \in Thread /\ ThreadType
  BY TypeParts, Daemons
<1>3. thread'[c]["flusher"] = [pc |-> pc, item |-> x, failed |-> n]
  BY <1>2, GoSteps
<1>4. Seen(c)'
  BY <1>3 DEF Seen, Held, Settled
<1>. QED  BY <1>1, <1>2, <1>4, StepKeeps

LEMMA FlusherReturn ==
  ASSUME NEW c \in Client, Return(c, "flusher")
  PROVE  Go(c, "flusher", "loop", None, 0)
BY DEF Return, Daemon

LEMMA FlusherPostKeeps ==
  ASSUME TypeInv, Aux, NEW c \in Client,
         PostAnswered(c, "flusher") \/ PostFailed(c, "flusher")
  PROVE  Preserves
<1>0. /\ ThreadType /\ OtherType /\ "flusher" \in Thread /\ Alive(c)
      /\ "flusher" \in Daemon /\ thread[c]["flusher"].pc = "post"
  BY TypeParts, Daemons DEF PostAnswered, PostFailed, At, Daemon
<1>. PICK y \in Payload : Held(c, "flusher") = y
  BY <1>0, HeldType
<1>1. /\ UNCHANGED <<data, lock, path, status, queue>>
      /\ dropped \subseteq dropped'
  BY DEF PostAnswered, PostFailed, diskVars, clientVars
<1>2. path[c] \in Path
  BY <1>0 DEF Aux, SegmentSeen, Seen
<1>3. /\ {"post", "clear"} \subseteq Steps /\ "post" \notin Resting /\ "clear" \notin Resting
  BY DEF Steps, Resting
<1>4. \/ data[path[c]] \in {None, y}
      \/ \E q \in Payload : data[path[c]] = q /\ Settled(q)
  BY <1>0 DEF Aux, SegmentSeen, Seen
<1>5. CASE PostAnswered(c, "flusher")
  <2>1. SettledStays /\ Settled(y)' /\ Go(c, "flusher", "clear", None, 0)
    BY <1>0, <1>5, PostSettles DEF PostAnswered
  <2>2. \/ data[path[c]] \in {None}
        \/ \E q \in Payload : data[path[c]] = q /\ Settled(q)'
    BY <1>4, <2>1 DEF SettledStays
  <2>. QED  BY <1>0, <1>1, <1>2, <1>3, <2>1, <2>2, FlusherStep
<1>6. CASE PostFailed(c, "flusher")
  <2>1. SettledStays /\ thread[c]["flusher"].failed + 1 \in Nat
    BY <1>0, <1>6, PostSettles, HeldType
  <2>2. PICK pc \in {"post", "clear"}, n \in Nat : Go(c, "flusher", pc, y, n)
    BY <1>6, <2>1 DEF PostFailed, GiveUp
  <2>3. \/ data[path[c]] \in {None, y}
        \/ \E q \in Payload : data[path[c]] = q /\ Settled(q)'
    BY <1>4, <2>1 DEF SettledStays
  <2>. QED  BY <1>0, <1>1, <1>2, <1>3, <2>1, <2>2, <2>3, FlusherStep
<1>. QED  BY <1>5, <1>6

LEMMA FlusherReadKeeps ==
  ASSUME TypeInv, Aux, NEW c \in Client, FlusherRead(c)
  PROVE  Preserves
<1>0. /\ ThreadType /\ OtherType /\ "flusher" \in Thread /\ Alive(c)
      /\ thread[c]["flusher"].pc = "read"
  BY TypeParts, Daemons DEF FlusherRead, At
<1>1. /\ UNCHANGED <<data, lock, status, queue>> /\ SettledStays
      /\ dropped \subseteq dropped'
  BY SameSettled DEF FlusherRead, diskVars, clientVars, serverVars
<1>2. path[c] \in Path /\ Held(c, "flusher") = None
  BY <1>0, RestingHolds DEF Aux, SegmentSeen, Seen, Resting
<1>3. CASE Return(c, "flusher") /\ path' = [path EXCEPT ![c] = None]
  <2>1. "loop" \in Steps /\ \A d \in Client \ {c} : path'[d] = path[d]
    BY <1>0, <1>3 DEF Steps, OtherType
  <2>. QED  BY <1>0, <1>1, <1>2, <1>3, <2>1, FlusherReturn, FlusherStep
<1>4. CASE Go(c, "flusher", "sweep", None, 0) /\ UNCHANGED path
  <2>1. "sweep" \in Steps
    BY DEF Steps
  <2>. QED  BY <1>0, <1>1, <1>2, <1>4, <2>1, FlusherStep
<1>5. CASE data[path[c]] \in Payload /\ StartPosting(c, data[path[c]]) /\ UNCHANGED path
  <2>1. PICK pc \in {"post", "clear"}, y \in Payload :
           y = data[path[c]] /\ Go(c, "flusher", pc, y, 0)
    BY <1>5 DEF StartPosting
  <2>2. pc \in Steps /\ pc \notin Resting
    BY DEF Steps, Resting
  <2>. QED  BY <1>0, <1>1, <1>2, <1>5, <2>1, <2>2, FlusherStep
<1>. QED  BY <1>3, <1>4, <1>5 DEF FlusherRead

LEMMA ClearKeeps ==
  ASSUME DiskType, LockBlank, NEW c \in Client, NEW f \in Path, Clear(c, f)
  PROVE  /\ LockBlank'
         /\ \A g \in Path : data'[g] \in {data[g], None}
         /\ \A p \in Payload : OnDisk(p) => OnDisk(p)' \/ data[f] = p
<1>1. \A g \in Path : data'[g] = IF g = f THEN None ELSE data[g]
  BY DEF Clear, DiskType
<1>2. LockBlank'
  BY <1>1 DEF Clear, LockBlank, DiskType
<1>. QED  BY <1>1, <1>2 DEF OnDisk

(* A segment leaves the directory: sweep, or the end of a flush. *)
LEMMA FlusherClearStep ==
  ASSUME TypeInv, Aux, NEW c \in Client, Alive(c),
         path[c] \in Path, Clear(c, path[c]), path' = [path EXCEPT ![c] = None],
         NEW pc \in {"loop", "spill"}, NEW x \in Payload \cup {None},
         Go(c, "flusher", pc, x, 0), pc = "loop" => x = None,
         UNCHANGED <<status, queue>>, SettledStays, dropped \subseteq dropped',
         \A p \in Payload : data[path[c]] = p => x = p \/ Settled(p)' \/ p \in dropped',
         \A p \in Payload : Held(c, "flusher") = p => x = p
  PROVE  Preserves
<1>0. /\ ThreadType /\ DiskType /\ LockBlank /\ OtherType /\ "flusher" \in Thread
      /\ pc \in Steps /\ (pc \in Resting => x = None)
  BY TypeParts, Daemons DEF Aux, Steps, Resting
<1>1. /\ LockBlank' /\ \A g \in Path : data'[g] \in {data[g], None}
      /\ \A p \in Payload : OnDisk(p) => OnDisk(p)' \/ data[path[c]] = p
  BY <1>0, ClearKeeps
<1>2. /\ \A d \in Client \ {c} : path'[d] = path[d]
      /\ \A p \in Payload, d \in Client : InQueue(p, d) => InQueue(p, d)'
  BY <1>0 DEF OtherType, InQueue
<1>3. \A d \in Client :
         Alive(d) /\ thread[d]["flusher"].pc \in {"post", "clear"}
           => data'[path[d]] \in {data[path[d]], None}
  BY <1>1 DEF Aux, SegmentSeen, Seen
<1>4. Seen(c)'
  <2>1. thread'[c]["flusher"] = [pc |-> pc, item |-> x, failed |-> 0]
    BY <1>0, GoSteps
  <2>. QED  BY <2>1 DEF Seen
<1>5. \A p \in Payload : OnDisk(p) => OnDisk(p)' \/ Settled(p)' \/ p \in dropped' \/ x = p
  BY <1>1
<1>. QED  BY <1>0, <1>1, <1>2, <1>3, <1>4, <1>5, StepKeeps

LEMMA FlusherSweepKeeps ==
  ASSUME TypeInv, Aux, NEW c \in Client, FlusherSweep(c)
  PROVE  Preserves
<1>0. Alive(c) /\ thread[c]["flusher"].pc = "sweep" /\ "flusher" \in Thread
  BY Daemons DEF FlusherSweep, At
<1>1. path[c] \in Path /\ Held(c, "flusher") = None
  BY <1>0, RestingHolds DEF Aux, SegmentSeen, Seen, Resting
<1>2. /\ UNCHANGED <<status, queue>> /\ SettledStays
      /\ dropped' = dropped \cup ({data[path[c]]} \cap Payload)
      /\ Clear(c, path[c]) /\ path' = [path EXCEPT ![c] = None]
      /\ Go(c, "flusher", "loop", None, 0)
  BY SameSettled, FlusherReturn DEF FlusherSweep, clientVars, serverVars
<1>. QED  BY <1>0, <1>1, <1>2, DiskConstants, FlusherClearStep

LEMMA FlusherClearKeeps ==
  ASSUME TypeInv, Aux, NEW c \in Client, FlusherClear(c)
  PROVE  Preserves
<1>0. /\ Alive(c) /\ thread[c]["flusher"].pc = "clear" /\ "flusher" \in Thread
      /\ ThreadType
  BY TypeParts, Daemons DEF FlusherClear, At
<1>. PICK x \in Payload \cup {None} : Held(c, "flusher") = x
  BY <1>0, HeldType
<1>1. /\ UNCHANGED <<status, queue>> /\ SettledStays /\ dropped \subseteq dropped'
      /\ Clear(c, path[c]) /\ path' = [path EXCEPT ![c] = None]
  BY SameSettled DEF FlusherClear, Handled, clientVars, serverVars
<1>2. path[c] \in Path
  BY <1>0 DEF Aux, SegmentSeen, Seen
<1>3. \A p \in Payload : data[path[c]] = p => x = p \/ Settled(p)'
  BY <1>0, <1>1, DiskConstants DEF Aux, SegmentSeen, Seen, SettledStays
<1>4. PICK pc \in {"loop", "spill"} :
         Go(c, "flusher", pc, x, 0) /\ (pc = "loop" => x = None)
  BY FlusherReturn DEF FlusherClear, Handled
<1>. QED  BY <1>0, <1>1, <1>2, <1>3, <1>4, FlusherClearStep

LEMMA FlusherKeeps ==
  ASSUME TypeInv, Aux, NEW c \in Client, Flusher(c)
  PROVE  Preserves
<1>1. CASE FlusherStop(c)
  <2>1. /\ Alive(c) /\ Held(c, "flusher") = None
        /\ Go(c, "flusher", "done", None, 0) /\ "done" \in Steps
    BY <1>1, RestingHolds, Daemons DEF FlusherStop, At, Resting, Steps
  <2>2. /\ UNCHANGED <<data, lock, status, queue, path, dropped>> /\ SettledStays
    BY <1>1, SameSettled DEF FlusherStop, OnlyThreads, diskVars, clientVars, serverVars
  <2>. QED  BY <2>1, <2>2, DiskConstants, FlusherStep
<1>2. CASE \E f \in Path : FlusherPick(c, f)
  <2>. PICK f \in Path : FlusherPick(c, f)
    BY <1>2
  <2>1. /\ Alive(c) /\ Held(c, "flusher") = None
        /\ Go(c, "flusher", "read", None, 0) /\ "read" \in Steps
    BY RestingHolds, Daemons DEF FlusherPick, At, Resting, Steps
  <2>2. /\ UNCHANGED <<data, lock, status, queue, dropped>> /\ SettledStays
        /\ path'[c] = f /\ \A d \in Client \ {c} : path'[d] = path[d]
    BY TypeParts, SameSettled DEF FlusherPick, OtherType, diskVars, clientVars, serverVars
  <2>. QED  BY <2>1, <2>2, DiskConstants, FlusherStep
<1>3. CASE Spill(c, "flusher")
  BY <1>3, SpillKeeps, Daemons
<1>. QED  BY <1>1, <1>2, <1>3, FlusherReadKeeps, FlusherSweepKeeps, FlusherClearKeeps,
             FlusherPostKeeps DEF Flusher

LEMMA WorkerKeeps ==
  ASSUME TypeInv, Aux, NEW c \in Client, Worker(c)
  PROVE  Preserves
<1>1. CASE WorkerLoop(c)
  <2>. PICK pc \in {"get", "done"} : Go(c, "worker", pc, None, 0)
    BY <1>1 DEF WorkerLoop
  <2>1. pc \in Steps /\ pc \in Resting /\ Alive(c) /\ thread[c]["worker"].pc \in Resting
    BY <1>1 DEF WorkerLoop, At, Steps, Resting
  <2>. QED  BY <1>1, <2>1, Daemons, PollKeeps DEF WorkerLoop
<1>2. CASE WorkerTimeout(c)
  <2>1. Go(c, "worker", "loop", None, 0)
    BY <1>2 DEF WorkerTimeout, Return, Daemon
  <2>2. "loop" \in Steps /\ "loop" \in Resting /\ Alive(c) /\ thread[c]["worker"].pc \in Resting
    BY <1>2 DEF WorkerTimeout, At, Steps, Resting
  <2>. QED  BY <1>2, <2>1, <2>2, Daemons, PollKeeps DEF WorkerTimeout
<1>3. CASE Spill(c, "worker")
  BY <1>3, SpillKeeps, Daemons
<1>. QED  BY <1>1, <1>2, <1>3, WorkerGetKeeps, WorkerPostKeeps DEF Worker

LEMMA CallerKeeps ==
  ASSUME TypeInv, Aux, NEW c \in Client, NEW t \in App, Caller(c, t)
  PROVE  Preserves
<1>0. t \in Thread \ {"flusher"} /\ t \notin Daemon
  BY DEF Thread, Daemon
<1>1. CASE FlushPoll(c, t) \/ FlushAgain(c, t) \/ FlushTimeout(c, t)
  <2>1. PICK pc \in {"idle", "again", "flush"} : Go(c, t, pc, None, 0)
    BY <1>0, <1>1 DEF FlushPoll, FlushAgain, FlushTimeout, Return
  <2>2. pc \in Steps /\ pc \in Resting /\ Alive(c) /\ thread[c][t].pc \in Resting
    BY <1>1 DEF FlushPoll, FlushAgain, FlushTimeout, At, Steps, Resting
  <2>3. OnlyThreads
    BY <1>1 DEF FlushPoll, FlushAgain, FlushTimeout
  <2>. QED  BY <1>0, <2>1, <2>2, <2>3, PollKeeps
<1>. QED  BY <1>0, <1>1, SendTraceKeeps, SpillKeeps DEF Caller

(***************************************************************************)
(* The environment moves no thread but the one that calls emit or flush.   *)
(***************************************************************************)
LEMMA FlushCallKeeps ==
  ASSUME TypeInv, Aux, NEW c \in Client, NEW t \in App, FlushCall(c, t)
  PROVE  Preserves
<1>1. /\ t \in Thread \ {"flusher"} /\ Alive(c) /\ thread[c][t].pc \in Resting
      /\ "flush" \in Steps /\ "flush" \in Resting
  BY DEF FlushCall, At, Thread, Daemon, Steps, Resting
<1>. QED  BY <1>1, PollKeeps DEF FlushCall

LEMMA EmitLive ==
  ASSUME TypeInv, Aux, NEW c \in Client, NEW t \in App, NEW y \in Payload, Emit(c, t, y)
  PROVE  \A p \in Payload : Live(p) => Live(p)'
<1>0. /\ ThreadType /\ ClientType /\ t \in Thread \ {"flusher", "worker"}
      /\ thread[c][t].pc = "idle" /\ Held(c, t) = None
      /\ Go(c, t, "send", y, 0) /\ "send" \in Steps
      /\ UNCHANGED <<data, queue>>
  BY TypeParts, RestingHolds DEF Emit, Thread, Daemon, Steps, Resting, diskVars
<1>1. /\ thread'[c][t] = [pc |-> "send", item |-> y, failed |-> 0]
      /\ \A d \in Client, u \in Thread : d # c \/ u # t => thread'[d][u] = thread[d][u]
  BY <1>0, GoSteps
<1>2. \A d \in Client : Alive(d) => Alive(d)'
  BY <1>0 DEF Emit, Alive, ClientType
<1>3. \A d \in Client : Served(d) => Served(d)'
  BY <1>0, <1>1, <1>2, Daemons DEF Served
<1>4. \A p \in Payload, d \in Client : InHand(p, d) => InHand(p, d)'
  BY <1>0, <1>1, DiskConstants DEF InHand, Held
<1>. QED  BY <1>0, <1>2, <1>3, <1>4 DEF Live, OnDisk, InQueue

LEMMA EmitKeeps ==
  ASSUME TypeInv, Aux, NEW c \in Client, NEW t \in App, NEW y \in Payload, Emit(c, t, y)
  PROVE  /\ Preserves /\ Kept(y)'
         /\ sent' = sent \cup {y}
<1>0. /\ ThreadType /\ ClientType /\ t \in Thread \ {"flusher"} /\ thread[c][t].pc = "idle"
      /\ Go(c, t, "send", y, 0) /\ "send" \in Steps /\ "send" \notin Resting
  BY TypeParts DEF Emit, Thread, Daemon, Steps, Resting
<1>1. Held(c, t) = None
  BY <1>0, RestingHolds DEF Resting
<1>2. /\ UNCHANGED <<data, lock, path, queue, dropped>> /\ SettledStays
      /\ \/ status' = status
         \/ status[c] = "none" /\ status' = [status EXCEPT ![c] = "up"]
  <2>1. UNCHANGED <<data, lock, path, queue, dropped>> /\ SettledStays
    BY SameSettled DEF Emit, diskVars, serverVars
  <2>2. \/ status' = status
        \/ status[c] = "none" /\ status' = [status EXCEPT ![c] = "up"]
    BY DEF Emit
  <2>. QED  BY <2>1, <2>2
<1>3. /\ thread'[c][t] = [pc |-> "send", item |-> y, failed |-> 0]
      /\ \A d \in Client, u \in Thread : d # c \/ u # t => thread'[d][u] = thread[d][u]
  BY <1>0, GoSteps
<1>4. \A d \in Client : thread'[d]["flusher"] = thread[d]["flusher"]
  BY <1>0, <1>3, Daemons
<1>5. IdleEmpty' /\ LockBlank' /\ Fresh'
  BY <1>0, <1>2, <1>4, GoIdle DEF Aux, LockBlank, Fresh, ClientType
<1>6. ASSUME NEW d \in Client
      PROVE  Seen(d)'
  <2>1. CASE status[d] = "none"
    <3>1. thread'[d]["flusher"].pc = "loop"
      BY <1>4, <2>1 DEF Aux, Fresh
    <3>. QED  BY <3>1 DEF Seen
  <2>2. CASE status[d] # "none"
    <3>1. Seen(d) /\ (Alive(d)' => Alive(d))
      BY <1>0, <1>2, <2>2 DEF Aux, SegmentSeen, Alive, ClientType
    <3>. QED  BY <1>2, <1>4, <3>1, SeenStays
  <2>. QED  BY <2>1, <2>2
<1>7. ASSUME NEW p \in Payload, Kept(p)
      PROVE  Kept(p)'
  BY <1>0, <1>1, <1>2, <1>7, SameKept, DiskConstants, GoKept DEF SettledStays
<1>8. Kept(y)'
  BY <1>0, InHandKept
<1>9. \A p \in Payload : Live(p) => Live(p)'
  BY EmitLive
<1>. QED  BY <1>5, <1>6, <1>7, <1>8, <1>9 DEF Preserves, Outlives, Aux, SegmentSeen, Emit

(* Steps that end clients or switch tracing or the backend on or off. *)
LEMMA SwitchKeeps ==
  ASSUME TypeInv, Aux,
         \/ \E c \in Client : Close(c)
         \/ \E q \in Proc : ResetClient(q) \/ Configure(q) \/ Exit(q)
         \/ ServerSwitch
  PROVE  Preserves
<1>0. DiskType /\ ClientType /\ ThreadType /\ OtherType
  BY TypeParts
<1>1. /\ UNCHANGED <<data, thread, dropped>> /\ SettledStays
      /\ \A d \in Client : lock'[d] \in {lock[d], None}
  BY <1>0, SameSettled DEF Close, ResetClient, Configure, Exit, ServerSwitch, diskVars,
                     serverVars, clientVars
<1>2. \A d \in Client : /\ Alive(d)' => Alive(d)
                        /\ status'[d] = "none" => status[d] = "none"
                        /\ Alive(d)' => path'[d] = path[d]
  BY <1>0 DEF Close, ResetClient, Configure, Exit, ServerSwitch, Alive, ClientType,
              OtherType, clientVars
<1>3. \A p \in Payload, d \in Client : InQueue(p, d) => InQueue(p, d)'
  <2>1. CASE UNCHANGED queue
    BY <2>1 DEF InQueue
  <2>2. CASE \E c \in Client : queue' = [queue EXCEPT ![c] = Append(@, Stop)]
    BY <1>0, <2>2, AppendKeeps
  <2>. QED  BY <1>0, <2>1, <2>2
            DEF Close, ResetClient, Configure, Exit, ServerSwitch, ClientType, clientVars
<1>4. IdleEmpty' /\ LockBlank' /\ Fresh'
  BY <1>0, <1>1, <1>2 DEF Aux, IdleEmpty, LockBlank, Fresh, Held, DiskType
<1>5. \A d \in Client : Seen(d)'
  BY <1>1, <1>2, SeenStays DEF Aux, SegmentSeen, Seen
<1>6. \A p \in Payload : Kept(p) => Kept(p)'
  BY <1>1, <1>3 DEF Kept, OnDisk, InHand, Held, SettledStays
<1>7. ASSUME NEW p \in Payload, Live(p)
      PROVE  Outlives(p)
  <2>1. OnDisk(p) => Live(p)'
    BY <1>1 DEF Live, OnDisk
  <2>2. ASSUME NEW d \in Client, Served(d), InQueue(p, d)
        PROVE  Live(p)' \/ EndsWith(p)
    BY <1>3, <2>2 DEF Live, EndsWith
  <2>3. ASSUME NEW d \in Client, Alive(d), InHand(p, d)
        PROVE  Live(p)' \/ EndsWith(p)
    <3>1. InHand(p, d)'
      BY <1>1, <2>3 DEF InHand, Held
    <3>. QED  BY <2>3, <3>1 DEF Live, EndsWith
  <2>. QED  BY <1>7, <2>1, <2>2, <2>3 DEF Live, Outlives
<1>. QED  BY <1>4, <1>5, <1>6, <1>7 DEF Preserves, Aux, SegmentSeen

LEMMA InitAux == Init => Aux
BY DiskConstants DEF Init, DiskInit, Aux, IdleEmpty, LockBlank, SegmentSeen, Seen, Fresh, Held,
                     Resting, Alive, Thread, Daemon

LEMMA SentStays ==
  /\ \A c \in Client, t \in Thread : Spill(c, t) => UNCHANGED sent
  /\ \A c \in Client : Worker(c) \/ Flusher(c) => UNCHANGED sent
  /\ \A c \in Client, t \in App : Caller(c, t) \/ FlushCall(c, t) => UNCHANGED sent
  /\ \A c \in Client : Close(c) => UNCHANGED sent
  /\ \A q \in Proc : ResetClient(q) \/ Configure(q) \/ Exit(q) => UNCHANGED sent
  /\ ServerSwitch => UNCHANGED sent
<1>1. \A c \in Client, t \in Thread : Spill(c, t) => UNCHANGED sent
  BY DEF Spill, SpillOpen, SpillWrite, SpillError
<1>2. \A c \in Client : Worker(c) \/ Flusher(c) => UNCHANGED sent
  BY <1>1, Daemons DEF Worker, Flusher, WorkerLoop, WorkerGet, WorkerTimeout, PostAnswered,
     PostFailed, FlusherStop, FlusherPick, FlusherRead, FlusherSweep, FlusherClear, OnlyThreads
<1>3. \A c \in Client, t \in App : Caller(c, t) \/ FlushCall(c, t) => UNCHANGED sent
  BY <1>1, Daemons DEF Caller, SendTrace, FlushPoll, FlushAgain, FlushTimeout, FlushCall,
     OnlyThreads
<1>. QED  BY <1>1, <1>2, <1>3 DEF Close, ResetClient, Configure, Exit, ServerSwitch

LEMMA StutterKeeps ==
  ASSUME Aux, UNCHANGED vars
  PROVE  Preserves
<1>1. Aux' /\ \A p \in Payload : Kept(p) => Kept(p)'
  BY DEF vars, clientVars, serverVars, diskVars, Aux, IdleEmpty, LockBlank, SegmentSeen,
         Seen, Fresh, Alive, Held, Settled, Kept, OnDisk, InQueue, InHand
<1>2. \A p \in Payload : Live(p) => Live(p)'
  BY DEF vars, clientVars, serverVars, diskVars, Live, Served, Alive, Held, OnDisk, InQueue,
         InHand
<1>. QED  BY <1>1, <1>2 DEF Preserves, Outlives

LEMMA NextKeeps ==
  ASSUME TypeInv, Aux, [Next]_vars
  PROVE  /\ Preserves
         /\ \/ UNCHANGED sent
            \/ \E y \in Payload : sent' = sent \cup {y} /\ Kept(y)'
<1>1. CASE UNCHANGED vars
  BY <1>1, StutterKeeps DEF vars
<1>2. CASE \E c \in Client, t \in App, y \in Payload : Emit(c, t, y)
  BY <1>2, EmitKeeps
<1>3. CASE Next /\ ~ \E c \in Client, t \in App, y \in Payload : Emit(c, t, y)
  <2>1. Preserves
    BY <1>3, WorkerKeeps, FlusherKeeps, CallerKeeps, FlushCallKeeps, SwitchKeeps
       DEF Next, Environment
  <2>2. UNCHANGED sent
    BY <1>3, SentStays DEF Next, Environment
  <2>. QED  BY <2>1, <2>2
<1>. QED  BY <1>1, <1>2, <1>3

LEMMA ConservationStep ==
  ASSUME TypeInv, Aux, Conservation, [Next]_vars
  PROVE  Aux' /\ Conservation'
<1>1. \A p \in sent : p \in Payload /\ Kept(p)
  BY TypeParts DEF Conservation, Kept, OtherType
<1>2. /\ Preserves
      /\ \/ UNCHANGED sent
         \/ \E y \in Payload : sent' = sent \cup {y} /\ Kept(y)'
  BY NextKeeps
<1>. QED  BY <1>1, <1>2 DEF Preserves, Conservation, Kept

(***************************************************************************)
(* In every instance a payload that was given to emit_trace is on disk, in *)
(* a queue or a hand, answered by the backend, or dropped where the code   *)
(* drops.                                                                  *)
(***************************************************************************)
THEOREM NothingVanishes == Spec => []Conservation
<1>. DEFINE IInv == TypeInv /\ Aux /\ Conservation
<1>1. Init => IInv
  BY InitType, InitAux DEF Init, Conservation
<1>2. IInv /\ [Next]_vars => IInv'
  BY NextType, ConservationStep
<1>3. IInv => Conservation
  OBVIOUS
<1>. QED  BY <1>1, <1>2, <1>3, PTL DEF Spec

LEMMA AuxHolds == Spec => [](TypeInv /\ Aux)
<1>1. Init => TypeInv /\ Aux
  BY InitType, InitAux
<1>2. TypeInv /\ Aux /\ [Next]_vars => TypeInv' /\ Aux'
  BY NextType, NextKeeps DEF Preserves
<1>. QED  BY <1>1, <1>2, PTL DEF Spec

(***************************************************************************)
(* In every instance: a payload that somebody was going to look at again   *)
(* stops being so only when its worker, its process or the client whose    *)
(* queue it is put into has ended, when it is answered or when the SDK     *)
(* discards it.  Everything else, the races of the stop flag and of        *)
(* configure with the threads included, keeps it.                          *)
(***************************************************************************)
THEOREM LostAtEndsOnly == Spec => LossesAtEnds
<1>1. TypeInv /\ Aux /\ [Next]_vars =>
        [\A p \in sent : Live(p) =>
           \/ Live(p)' \/ Settled(p)' \/ p \in dropped'
           \/ \E c \in Client :
                \/ Served(c) /\ ~Served(c)' /\ InQueue(p, c)
                \/ Alive(c) /\ ~Alive(c)' /\ InHand(p, c)
                \/ Alive(c) /\ ~Served(c)' /\ InHand(p, c) /\ InQueue(p, c)']_vars
  <2>. SUFFICES ASSUME TypeInv, Aux, [Next]_vars, NEW p \in sent, Live(p)
                PROVE  Outlives(p)
    BY DEF Outlives, EndsWith
  <2>1. p \in Payload
    BY TypeParts DEF OtherType
  <2>. QED  BY <2>1, NextKeeps DEF Preserves
<1>. QED  BY <1>1, AuxHolds, PTL DEF Spec, LossesAtEnds

(***************************************************************************)
(* The steps that change the directory.                                    *)
(***************************************************************************)
LEMMA DiskSteps ==
  ASSUME [Next]_vars
  PROVE  \/ UNCHANGED data
         \/ \E c \in Client, t \in Thread : Spill(c, t)
         \/ \E c \in Client : FlusherSweep(c) \/ FlusherClear(c)
<1>1. ASSUME NEW c \in Client, Worker(c) \/ Flusher(c)
      PROVE  \/ UNCHANGED data \/ FlusherSweep(c) \/ FlusherClear(c)
             \/ \E t \in Thread : Spill(c, t)
  BY <1>1, Daemons DEF Worker, Flusher, WorkerLoop, WorkerGet, WorkerTimeout, PostAnswered,
     PostFailed, FlusherStop, FlusherPick, FlusherRead, OnlyThreads, diskVars
<1>2. ASSUME NEW c \in Client, NEW t \in App, Caller(c, t) \/ FlushCall(c, t)
      PROVE  UNCHANGED data \/ Spill(c, t)
  BY <1>2 DEF Caller, SendTrace, FlushPoll, FlushAgain, FlushTimeout, FlushCall,
     OnlyThreads, diskVars
<1>3. ASSUME \/ \E c \in Client, t \in App, p \in Payload : Emit(c, t, p)
             \/ \E c \in Client : Close(c)
             \/ \E q \in Proc : ResetClient(q) \/ Configure(q) \/ Exit(q)
             \/ ServerSwitch \/ UNCHANGED vars
      PROVE  UNCHANGED data
  BY <1>3 DEF Emit, Close, ResetClient, Configure, Exit, ServerSwitch, vars, diskVars
<1>. QED  BY <1>1, <1>2, <1>3, Daemons DEF Next, Environment

(* A written segment leaves the directory answered, or into a hand, or discarded. *)
LEMMA SegmentStep ==
  ASSUME TypeInv, Aux, [Next]_vars, NEW f \in Path, NEW y \in Payload,
         data[f] = y, data'[f] = None
  PROVE  \/ Settled(y) \/ y \in dropped'
         \/ \E c \in Client : Alive(c) /\ Held(c, "flusher")' = y
<1>0. /\ DiskType /\ ThreadType /\ y # None /\ "flusher" \in Thread
      /\ f \in Files /\ data'[f] # data[f]
  BY TypeParts, Daemons, DiskConstants DEF Files
<1>1. CASE \E c \in Client, t \in Thread : Spill(c, t)
  <2>1. PICK c \in Client, t \in Thread : Spill(c, t)
    BY <1>1
  <2>2. ~SpillWrite(c, t)
    BY <1>0, DiskConstants, HeldType DEF SpillWrite, Fill, DiskType, At
  <2>3. ASSUME NEW g \in Path, NEW K \in SUBSET Files, SpillOpen(c, t, g, K)
        PROVE  f \notin K /\ Pruned(K) \subseteq dropped'
    BY <1>0, <2>3 DEF SpillOpen, Create, KeepOnly, DiskType
  <2>4. ASSUME NEW K \in SUBSET Files, SpillError(c, t, K)
        PROVE  f \notin K /\ Pruned(K) \subseteq dropped'
    BY <1>0, <2>4 DEF SpillError, CreateError, FillError, KeepOnly, DiskType
  <2>5. PICK K \in SUBSET Files : f \notin K /\ Pruned(K) \subseteq dropped'
    BY <2>1, <2>2, <2>3, <2>4 DEF Spill
  <2>6. y \in Pruned(K)
    BY <1>0, <2>5 DEF Pruned, Written
  <2>. QED  BY <2>5, <2>6
<1>2. CASE \E c \in Client : FlusherSweep(c) \/ FlusherClear(c)
  <2>1. PICK c \in Client : FlusherSweep(c) \/ FlusherClear(c)
    BY <1>2
  <2>2. /\ Clear(c, path[c]) /\ Alive(c) /\ path[c] \in Path
        /\ thread[c]["flusher"].pc \in {"sweep", "clear"}
    BY <2>1 DEF FlusherSweep, FlusherClear, Handled, At, Aux, SegmentSeen, Seen
  <2>3. f = path[c]
    BY <1>0, <2>2 DEF Clear, DiskType
  <2>4. CASE FlusherSweep(c)
    BY <2>3, <2>4 DEF FlusherSweep
  <2>5. CASE FlusherClear(c) /\ Held(c, "flusher") = y
    <3>1. Go(c, "flusher", "spill", y, 0) /\ "spill" \in Steps
      BY <1>0, <2>5 DEF FlusherClear, Handled, Steps
    <3>2. thread'[c]["flusher"] = [pc |-> "spill", item |-> y, failed |-> 0]
      BY <1>0, <3>1, GoSteps
    <3>. QED  BY <2>2, <3>2 DEF Held
  <2>6. CASE FlusherClear(c) /\ Held(c, "flusher") # y
    BY <1>0, <2>2, <2>3, <2>6 DEF FlusherClear, At, Aux, SegmentSeen, Seen
  <2>. QED  BY <2>1, <2>4, <2>5, <2>6
<1>. QED  BY <1>0, <1>1, <1>2, DiskSteps

(***************************************************************************)
(* In every instance: a written segment leaves the directory answered, or  *)
(* into the hands of a live flusher, or discarded, however many clients    *)
(* and processes share the directory and whatever was closed meanwhile.    *)
(***************************************************************************)
THEOREM SegmentsAccounted == Spec => SegmentsLeaveSettled
<1>1. TypeInv /\ Aux /\ [Next]_vars =>
        [\A f \in Path :
           data[f] \in Payload /\ data'[f] = None =>
             \/ Settled(data[f]) \/ data[f] \in dropped'
             \/ \E c \in Client : Alive(c) /\ Held(c, "flusher")' = data[f]]_vars
  BY SegmentStep
<1>. QED  BY <1>1, AuxHolds, PTL DEF Spec, SegmentsLeaveSettled
=============================================================================
