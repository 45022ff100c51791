------------------------------- MODULE KeyCache -------------------------------
(***************************************************************************)
(* Workspace API keys: auth.py over PostgreSQL.  Each worker process has a *)
(* cache of the keys it has found; its event loop looks keys up while its  *)
(* executor deletes them.                                                  *)
(***************************************************************************)
EXTENDS Integers

CONSTANTS
  Key,        \* API keys
  Worker,     \* processes of the backend
  Ttl         \* _KEY_CACHE_TTL

ASSUME KeyConstants == Ttl \in Nat \ {0} /\ Worker # {}

VARIABLES
  keyRow,     \* keyRow[k]: "none", "valid" or "deleted"
  cache,      \* cache[w][k]: when the entry expires; 0: no entry
  lookup,     \* lookup[w]: keys whose row worker w has read and not cached
  deletion,   \* deletion[k]: [step, by, at]: the delete request for k
  straggler,  \* history: <<w, k>> where w read the row before it was deleted
              \* and cached it afterwards
  monotonic   \* time

keyVars == <<keyRow, cache, lookup, deletion, straggler, monotonic>>

KeyInit ==
  /\ keyRow = [k \in Key |-> "none"]
  /\ cache = [w \in Worker |-> [k \in Key |-> 0]]
  /\ lookup = [w \in Worker |-> {}]
  /\ deletion = [k \in Key |-> [step |-> 0, by |-> CHOOSE w \in Worker : TRUE, at |-> 0]]
  /\ straggler = {}
  /\ monotonic = 0

Usable(w, k) == monotonic < cache[w][k]

CreateKey(k) ==
  /\ keyRow[k] = "none"
  /\ keyRow' = [keyRow EXCEPT ![k] = "valid"]
  /\ UNCHANGED <<cache, lookup, deletion, straggler, monotonic>>

(***************************************************************************)
(* _verify_workspace_key: a hit that has not expired changes nothing; else *)
(* the entry goes, the row is read, and what was read is cached.           *)
(***************************************************************************)
ReadKey(w, k) ==
  /\ ~Usable(w, k) /\ lookup[w] = {}
  /\ lookup' = IF keyRow[k] = "valid" THEN [lookup EXCEPT ![w] = {k}] ELSE lookup
  /\ cache' = [cache EXCEPT ![w][k] = 0]
  /\ UNCHANGED <<keyRow, deletion, straggler, monotonic>>

CacheKey(w, k) ==
  /\ k \in lookup[w]
  /\ lookup' = [lookup EXCEPT ![w] = {}]
  /\ cache' = [cache EXCEPT ![w][k] = monotonic + Ttl]
  /\ straggler' = IF keyRow[k] = "deleted" THEN straggler \cup {<<w, k>>} ELSE straggler
  /\ UNCHANGED <<keyRow, deletion, monotonic>>

(* delete_api_key, in the executor of w: commit, then drop the entry. *)
DropFirst == <<"drop", "commit">>                      \* mutated form
DeleteOrder == <<"commit", "drop">>

DeleteKey(w, k) ==
  /\ keyRow[k] = "valid" /\ deletion[k].step = 0
  /\ deletion' = [deletion EXCEPT ![k] = [step |-> 1, by |-> w, at |-> 0]]
  /\ UNCHANGED <<keyRow, cache, lookup, straggler, monotonic>>

StepDelete(k) ==
  LET step == deletion[k].step
      w == deletion[k].by
  IN
  /\ step \in {1, 2}
  /\ IF DeleteOrder[step] = "commit"
     THEN /\ keyRow' = [keyRow EXCEPT ![k] = "deleted"]
          /\ deletion' = [deletion EXCEPT ![k] = [step |-> step + 1, by |-> w, at |-> monotonic]]
          /\ UNCHANGED cache
     ELSE /\ cache' = [cache EXCEPT ![w][k] = 0]
          /\ deletion' = [deletion EXCEPT ![k].step = step + 1]
          /\ UNCHANGED keyRow
  /\ UNCHANGED <<lookup, straggler, monotonic>>

Later ==
  /\ monotonic' = monotonic + 1
  /\ UNCHANGED <<keyRow, cache, lookup, deletion, straggler>>

KeyNext ==
  \/ \E k \in Key : CreateKey(k) \/ StepDelete(k)
  \/ \E w \in Worker, k \in Key : ReadKey(w, k) \/ CacheKey(w, k) \/ DeleteKey(w, k)
  \/ Later

KeySpec == KeyInit /\ [][KeyNext]_keyVars
=============================================================================
