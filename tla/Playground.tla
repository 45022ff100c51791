------------------------------ MODULE Playground ------------------------------
(***************************************************************************)
(* Prompt versions and the rate limit of the playground: playground.py,    *)
(* each session of which reads, decides and commits in separate steps.     *)
(***************************************************************************)
EXTENDS Integers, FiniteSets, FiniteSetsExt

CONSTANTS
  Name,       \* names of prompts
  Version,    \* ids of versions
  Saver,      \* requests that save or promote
  Player,     \* workers that answer runs, one at a time each
  Limit,      \* playground_rate_limit
  Window,     \* playground_rate_window
  Nobody      \* no parent, no name

ASSUME PlaygroundConstants ==
  /\ Limit \in Int /\ Window \in Nat
  /\ Nobody \notin Name \cup Version

VARIABLES
  prompt,     \* prompt[i]: [st, name, number, published]
  saver,      \* saver[k]: [pc, name, parent, number, seen]
  overtaken,  \* history: versions inserted after one their save had not seen
  limiter,    \* the row of playground_rate_limits: [count, start]; 0: no row
  player,     \* player[w]: [pc, count, start]: what a worker will write,
              \* count 0: that column has not changed
  clock,
  granted,    \* history: runs granted in the window of the row
  collided    \* history: two workers checked at a time in this window

playVars == <<prompt, saver, overtaken, limiter, player, clock, granted, collided>>
promptVars == <<prompt, saver, overtaken>>
limitVars == <<limiter, player, clock, granted, collided>>

Free == [pc |-> "idle", name |-> Nobody, parent |-> Nobody, number |-> 1, seen |-> {}]
Waiting == [pc |-> "idle", count |-> 0, start |-> 0]

PlaygroundInit ==
  /\ prompt = [i \in Version |-> [st |-> "new", name |-> Nobody, number |-> 0,
                                  published |-> FALSE]]
  /\ saver = [k \in Saver |-> Free]
  /\ overtaken = {}
  /\ limiter = [count |-> 0, start |-> 0]
  /\ player = [w \in Player |-> Waiting]
  /\ clock = 0
  /\ granted = 0 /\ collided = FALSE

VersionsOf(n) == {i \in Version : prompt[i].st = "saved" /\ prompt[i].name = n}

(***************************************************************************)
(* save_prompt_version: without a parent the number is 1, with one of any  *)
(* name it is one more than the highest; promote_version reads its source. *)
(***************************************************************************)
Save(k, n, p) ==
  /\ saver[k].pc = "idle"
  /\ saver' = [saver EXCEPT ![k] = [Free EXCEPT !.pc = IF p = Nobody THEN "insert" ELSE "number",
                                                !.name = n, !.parent = p]]
  /\ UNCHANGED <<prompt, overtaken, limitVars>>

Promote(k, i) ==
  /\ prompt[i].st = "saved"
  /\ Save(k, prompt[i].name, i)

AfterParent(k) == {prompt[i].number : i \in {saver[k].parent} \cap VersionsOf(saver[k].name)}
                                                       \* mutated form
Numbers(k) == {prompt[i].number : i \in VersionsOf(saver[k].name)}

NumberVersion(k) ==
  /\ saver[k].pc = "number"
  /\ saver' = [saver EXCEPT ![k].pc = "insert", ![k].number = Max({0} \cup Numbers(k)) + 1,
                            ![k].seen = VersionsOf(saver[k].name)]
  /\ UNCHANGED <<prompt, overtaken, limitVars>>

InsertVersion(k, i) ==
  /\ saver[k].pc = "insert" /\ prompt[i].st = "new"
  /\ prompt' = [prompt EXCEPT ![i] = [st |-> "saved", name |-> saver[k].name,
                                      number |-> saver[k].number, published |-> FALSE]]
  /\ overtaken' = IF VersionsOf(saver[k].name) \subseteq saver[k].seen
                  THEN overtaken ELSE overtaken \cup {i}
  /\ saver' = [saver EXCEPT ![k] = Free]
  /\ UNCHANGED limitVars

SaveFails(k) ==
  /\ saver[k].pc # "idle"
  /\ saver' = [saver EXCEPT ![k] = Free]
  /\ UNCHANGED <<prompt, overtaken, limitVars>>

DeleteVersion(i) ==
  /\ prompt[i].st = "saved"
  /\ prompt' = [prompt EXCEPT ![i].st = "deleted"]
  /\ UNCHANGED <<saver, overtaken, limitVars>>

Publish(i, b) ==
  /\ prompt[i].st = "saved"
  /\ prompt' = [prompt EXCEPT ![i].published = b]
  /\ UNCHANGED <<saver, overtaken, limitVars>>

(* get_version_history: those that pull_prompt gives as the latest of n. *)
Latest(n) == {i \in VersionsOf(n) : \A j \in VersionsOf(n) : prompt[j].number <= prompt[i].number}

(***************************************************************************)
(* check_rate_limit, before each run that validate_run lets pass.  The     *)
(* first run of a window is granted without a look at the limit.           *)
(***************************************************************************)
AboveLimit(c) == c > Limit                             \* mutated form
AtLimit(c) == c >= Limit

CheckLimit(w) ==
  LET row == limiter IN
  /\ player[w].pc = "idle"
  /\ player' = [player EXCEPT ![w] =
       IF row.count = 0 THEN [pc |-> "first", count |-> 1, start |-> clock]
       ELSE IF clock - row.start > Window THEN [pc |-> "reset", count |-> IF row.count = 1 THEN 0 ELSE 1, start |-> clock]
       ELSE IF AtLimit(row.count) THEN Waiting
       ELSE [pc |-> "count", count |-> row.count + 1, start |-> row.start]]
  /\ collided' = (collided \/ \E x \in Player \ {w} : player[x].pc # "idle")
  /\ UNCHANGED <<promptVars, limiter, clock, granted>>

(* Only columns that change are written; a second first row is refused: 500. *)
CommitLimit(w) ==
  LET new == player[w] IN
  /\ new.pc # "idle"
  /\ player' = [player EXCEPT ![w] = Waiting]
  /\ IF new.pc = "count"
     THEN limiter' = [limiter EXCEPT !.count = new.count] /\ granted' = granted + 1
     ELSE IF new.pc = "first" /\ limiter.count # 0 THEN UNCHANGED <<limiter, granted>>
     ELSE /\ limiter' = [count |-> IF new.count = 0 THEN limiter.count ELSE new.count,
                          start |-> new.start]
          /\ granted' = 1
  /\ collided' = IF new.pc = "reset" THEN \E x \in Player \ {w} : player[x].pc # "idle" ELSE collided
  /\ UNCHANGED <<promptVars, clock>>

Tick ==
  /\ clock' = clock + 1
  /\ UNCHANGED <<promptVars, limiter, player, granted, collided>>

PlaygroundNext ==
  \/ \E k \in Saver :
       \/ \E n \in Name, p \in Version \cup {Nobody} : Save(k, n, p)
       \/ \E i \in Version : Promote(k, i) \/ InsertVersion(k, i)
       \/ NumberVersion(k) \/ SaveFails(k)
  \/ \E i \in Version : DeleteVersion(i) \/ \E b \in BOOLEAN : Publish(i, b)
  \/ \E w \in Player : CheckLimit(w) \/ CommitLimit(w)
  \/ Tick

PlaySpec == PlaygroundInit /\ [][PlaygroundNext]_playVars
=============================================================================
