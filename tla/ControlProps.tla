----------------------------- MODULE ControlProps -----------------------------
(***************************************************************************)
(* What the playground, the API keys and the alerts promise.               *)
(***************************************************************************)
EXTENDS Playground, KeyCache, Alerts

(* A save with a parent, and so a promotion, makes the highest version of  *)
(* its name, unless another save of that name got in between its reading   *)
(* of the numbers and its insert (playground.py:227, playground.py:433).      *)
VersionsGrow ==
  [][\A k \in Saver, i \in Version :
       InsertVersion(k, i) /\ saver[k].parent # Nobody =>
         i \in overtaken' \/ Latest(prompt[i].name)' = {i}]_playVars

(* More runs than the limit, and more than the one that opens a window,    *)
(* are granted in it only if two workers were between reading and writing  *)
(* the counter at a time (playground.py:98).                               *)
GrantsBounded == granted > 1 /\ granted > Limit => collided

(* The worker that deleted a key refuses it from its answer on, the other  *)
(* workers one TTL after the commit, unless they had read the row before   *)
(* the commit and cached it after (auth.py:117, auth.py:285).              *)
KeyFresh ==
  \A w \in Worker, k \in Key :
    deletion[k].step = 3 /\ Usable(w, k) /\ <<w, k>> \notin straggler =>
      w # deletion[k].by /\ cache[w][k] <= deletion[k].at + Ttl

(* While the stores answer, a rule with a webhook that stays over its      *)
(* threshold is posted again and again, whatever the other rules of the    *)
(* round do (alerts.py:321).                                               *)
Hot(a) == a \in alertRows /\ a \in (crossed \cap Hooked) \ Unread /\ up

AlertsHeard ==
  \A a \in Alert : []<>(~Hot(a) \/ \E w \in Looper : loop[w].pc = "post" /\ a \in loop[w].now)
=============================================================================
