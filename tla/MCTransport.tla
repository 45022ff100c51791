----------------------------- MODULE MCTransport -----------------------------
(***************************************************************************)
(* Instances of the delivery pipeline for TLC.                             *)
(***************************************************************************)
EXTENDS TransportProps, TLC

CONSTANTS a, b, q1, q2

(* All clients in one process, one after the other. *)
OneProcess == [c \in Client |-> q1]

(* Two processes of one user, each with its client. *)
TwoProcesses == [c \in Client |-> IF c = a THEN q1 ELSE q2]

Outages == {"outage"}
Fair == {"outage", "ambiguous", "close", "reset", "flush"}
Disturbed == {"configure", "crash", "close", "reset"}
DiskErrors == {"io"}

(* Bound: no client is closed while another that was closed is at work. *)
AtRest(c) == \A t \in Thread : thread[c][t].pc \in {"done", "idle"}
OneCloses ==
  \A c, d \in Client :
    status[c] = "up" /\ status'[c] = "closed" /\ c # d =>
      status[d] # "closed" \/ AtRest(d)

(* File names and payloads the constants do not tell apart. *)
PathsAndPayloads == Permutations(Path) \cup Permutations(Payload)
=============================================================================
