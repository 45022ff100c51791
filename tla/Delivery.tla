------------------------------ MODULE Delivery ------------------------------
(***************************************************************************)
(* What the SDK promises the caller of emit_trace: a payload is pending    *)
(* until the backend has stored or refused it, and that answer is final.   *)
(***************************************************************************)
CONSTANT Payload

VARIABLE fate

DeliveryInit == fate = [p \in Payload |-> "unsent"]

Submit(p) ==
  /\ fate[p] = "unsent"
  /\ fate' = [fate EXCEPT ![p] = "pending"]

(* Another copy of a refused payload may be stored later, not conversely. *)
Stored(p) ==
  /\ fate[p] \in {"pending", "refused"}
  /\ fate' = [fate EXCEPT ![p] = "stored"]

Refuse(p) ==
  /\ fate[p] = "pending"
  /\ fate' = [fate EXCEPT ![p] = "refused"]

DeliveryNext == \E p \in Payload : Submit(p) \/ Stored(p) \/ Refuse(p)

DeliverySpec == DeliveryInit /\ [][DeliveryNext]_fate
=============================================================================
