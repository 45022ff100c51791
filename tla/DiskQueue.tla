------------------------------ MODULE DiskQueue ------------------------------
(***************************************************************************)
(* The on-disk offline queue of the SDK (src/sdk/verdictlens/queue.py).    *)
(*                                                                         *)
(* A queue directory holds one file per payload.  enqueue prunes the       *)
(* directory to its budget, creates a file and writes the payload into it; *)
(* clear_file removes a file.  Each DiskQueue object has a lock of its     *)
(* own, but the directory (~/.verdictlens/queue by default) is shared by   *)
(* every DiskQueue object of every process of the user, so the lock of one *)
(* client says nothing about the others.                                   *)
(*                                                                         *)
(* Abstractions.  A payload is one unit of the byte budget and a file that *)
(* has been created but not written is zero units.  File names sort by     *)
(* creation time in milliseconds, then a uuid; "older" keeps that as a      *)
(* relation.  A uuid is never used twice: Create takes an unused path.      *)
(***************************************************************************)
EXTENDS Integers, FiniteSets

CONSTANTS
  Client,     \* DiskQueue objects, one per VerdictLensClient
  Path,       \* file names
  Payload,    \* trace payloads
  None,       \* no file, no payload, no lock holder
  Blank,      \* contents of a file created and not yet written
  MaxFiles    \* max_bytes, in payloads; 0 or less means no pruning

ASSUME DiskConstants ==
  /\ None \notin Payload \cup Path
  /\ Blank \notin Payload \cup {None}
  /\ MaxFiles \in Int
  /\ IsFiniteSet(Client)

VARIABLES
  data,       \* data[f]: None, Blank, or the payload in file f
  older,      \* <<f, g>>: the name of file f sorts before the name of g
  lock        \* lock[c]: None, or the file c's lock holder is writing

diskVars == <<data, older, lock>>

Files == {f \in Path : data[f] # None}

Written(F) == {f \in F : data[f] \in Payload}

(* The segment that segment_paths lists first. *)
Oldest(f) == f \in Files /\ \A g \in Files \ {f} : <<f, g>> \in older

NoPrune(K) == K = Files                                \* mutated form

(***************************************************************************)
(* _prune_locked: oldest first, a file is deleted while the files not yet  *)
(* deleted exceed the budget.  K is what is left.                          *)
(***************************************************************************)
PruneLeaves(K) ==
  /\ K \subseteq Files
  /\ MaxFiles <= 0 => K = Files
  /\ MaxFiles > 0 => Cardinality(Written(K)) <= MaxFiles
  /\ \A f \in Files \ K :
       /\ \A g \in K : <<f, g>> \in older
       /\ Cardinality(Written({g \in Files : g = f \/ <<f, g>> \in older})) > MaxFiles

KeepOnly(K) == [f \in Path |-> IF f \in K THEN data[f] ELSE None]

DiskInit ==
  /\ data = [f \in Path |-> None]
  /\ older = {}
  /\ lock = [c \in Client |-> None]

(***************************************************************************)
(* enqueue up to open(path, "ab"): take the lock, prune, create the file.  *)
(***************************************************************************)
Create(c, f, K) ==
  /\ lock[c] = None
  /\ f \notin Files /\ \A d \in Client : lock[d] # f
  /\ PruneLeaves(K)
  /\ data' = [KeepOnly(K) EXCEPT ![f] = Blank]
  /\ older' = (older \cap (K \X K)) \cup (K \X {f})
  /\ lock' = [lock EXCEPT ![c] = f]

(***************************************************************************)
(* write, fsync and release.  When the file was unlinked after Create, the *)
(* bytes go to an inode without a name.                                    *)
(***************************************************************************)
Fill(c, p) ==
  /\ lock[c] # None
  /\ data' = IF lock[c] \in Files THEN [data EXCEPT ![lock[c]] = p] ELSE data
  /\ lock' = [lock EXCEPT ![c] = None]
  /\ UNCHANGED older

(***************************************************************************)
(* enqueue gives up: mkdir failed (nothing is touched), or open failed     *)
(* after the prune.                                                        *)
(***************************************************************************)
CreateError(c, K) ==
  /\ lock[c] = None
  /\ K = Files \/ PruneLeaves(K)
  /\ data' = KeepOnly(K)
  /\ older' = older \cap (K \X K)
  /\ UNCHANGED lock

(* enqueue gives up: write raised OSError, the created file stays behind. *)
FillError(c) ==
  /\ lock[c] # None
  /\ lock' = [lock EXCEPT ![c] = None]
  /\ UNCHANGED <<data, older>>

(* clear_file(path), which ignores a file that is already gone. *)
Clear(c, f) ==
  /\ lock[c] = None
  /\ data' = [data EXCEPT ![f] = None]
  /\ older' = {e \in older : e[1] # f /\ e[2] # f}
  /\ UNCHANGED lock
=============================================================================
