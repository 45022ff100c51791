------------------------------- MODULE MCIngest -------------------------------
(***************************************************************************)
(* Instances of Ingest for TLC.                                            *)
(***************************************************************************)
EXTENDS IngestProps

CONSTANTS r1, r2, w1, w2, t1, t2

OneHome == [w \in Socket |-> r1]
Alike == Permutations({w1, w2}) \cup Permutations(Trace)

(***************************************************************************)
(* One run, two instances: the first replica without Redis, with ClickHouse*)
(* and its clients failing; and two replicas that crash, with everything   *)
(* around them healthy and one post for each trace.                        *)
(***************************************************************************)
Healthy ==
  /\ UNCHANGED <<storeUp, gone>>
  /\ \A i \in Request :
       IF i[2] > 1 THEN request'[i] = NoRequest
       ELSE /\ request'[i].pc # "failed"
            /\ request'[i].awaited <=> request'[i].pc \notin Ended

Alone == running' \subseteq {r1} /\ Cardinality({i[1] : i \in {j \in Request : request'[j] # NoRequest}}) <= 1

(***************************************************************************)
(* The posts of a trace one to each replica; only the first has browsers,  *)
(* so the listener of the second does not matter.  ClickHouse fails or     *)
(* recovers where that is noticed, with a request before its insert.       *)
(***************************************************************************)
Apart ==
  /\ r2 \in running' => r1 \in running'
  /\ listener'[r2] # "subscribed"
  /\ \A i \in Request : request'[i].at \in {None, IF i[2] = 1 THEN r1 ELSE r2}
  /\ storeUp' # storeUp => \E i \in Request : request[i].pc = "insert"

MCInit == Init /\ (redisUp => storeUp)
Bounds == UNCHANGED redisUp /\ IF redisUp THEN Healthy ELSE Alone

MCSpec == MCInit /\ [][Next]_vars
=============================================================================
