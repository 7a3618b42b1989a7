----------------------------- MODULE Checkpoints -----------------------------
(***************************************************************************)
(* DECheckpoint (python/train/checkpoint.py) over the processes that train *)
(* a sharded variable together, and restoring into as many processes and   *)
(* devices as there are then (dynamic_embedding_variable.py).  The first   *)
(* process writes its files and the TensorFlow checkpoint; the others      *)
(* learn its path from it and then write theirs; only then is the          *)
(* directory swept.  Between them lie crashes and restarts.                *)
(*                                                                         *)
(* The processes save when they are between two training steps: the        *)
(* all-to-all of every step keeps them together.  A process writes its     *)
(* files in one step here; TableFiles has the tearing of one.  The TensorFlow *)
(* checkpoint, its save counter, its checkpoint state file and the manager *)
(* that deletes old ones are external.                                     *)
(***************************************************************************)
EXTENDS ShardedVariable

VARIABLES
  dirs,       \* [step -> the files in TFRADynamicEmbedding-step]
  index,      \* the steps whose TensorFlow checkpoint is there
  latest,     \* the step that the checkpoint state file names, or 0
  counter,    \* save_counter
  early,      \* the TensorFlow release writes the state file in its own write,
              \* in a callback, and not when DECheckpoint's is done
  save,       \* the save that runs: [pc, step, todo: the processes yet to write]
  (* History.                                                              *)
  saved,      \* [steps whose save is done -> [tables' entries, one save's files only]]
  restored,   \* the step restored into empty tables, until they change; or 0
  torn        \* what was restored was no finished save

ckptVars == <<dirs, index, latest, counter, early, save, saved, restored, torn>>
vars     == <<varVars, ckptVars>>

NoSave == [pc |-> "idle", step |-> 0, todo |-> {}]

Init == /\ VarInit
        /\ dirs = << >> /\ index = {} /\ latest = 0 /\ counter = 0 /\ early \in BOOLEAN
        /\ save = NoSave /\ saved = << >> /\ restored = 0 /\ torn = FALSE

(* A table whose shards are taken together.                                *)
Entries(t) ==
  [k \in UNION {DOMAIN tables[t][s] : s \in Shards(world)} |-> tables[t][Home(world, k)][k]]

FileOf(t, s) == [table |-> t, shard |-> s, world |-> world, items |-> tables[t][s]]

SameName(f, g) == f.table = g.table /\ f.shard = g.shard /\ f.world = g.world

Dir(step) == IF step \in DOMAIN dirs THEN dirs[step] ELSE {}
-----------------------------------------------------------------------------
(* save.                                                                   *)

SaveSame == UNCHANGED <<varVars, early, restored, torn>>

Quiet == ~ Training /\ cuts = << >> /\ save.pc = "idle"

(* The path is made of the counter.  What it names is being overwritten.   *)
SaveStart ==
  /\ Quiet /\ counter < budget.saves
  /\ counter' = counter + 1
  /\ save' = [pc |-> "rank0", step |-> counter', todo |-> {0}]
  /\ saved' = Restrict(saved, DOMAIN saved \ {counter'})
  /\ UNCHANGED <<dirs, index, latest>> /\ SaveSame

(* A process saves; a file of the same name is replaced.  The first saves  *)
(* what is tracked, the others the tables of the trainable wrappers they   *)
(* find: not those of a policy.                                            *)
Files(r) == {FileOf(t, s) : t \in IF r = 0 THEN Table ELSE {"var", "slot"}, s \in ShardsOf(r)}

WriteFiles(r) ==
  /\ save.pc \in {"rank0", "others"} /\ r \in save.todo
  /\ dirs' = With(dirs, save.step,
                  {g \in Dir(save.step) : \A f \in Files(r) : ~ SameName(f, g)} \cup Files(r))
  /\ save' = [save EXCEPT !.todo = @ \ {r}]
  /\ UNCHANGED <<index, latest, counter, saved>> /\ SaveSame

(* The first process's write ends with the index and, in some releases,    *)
(* with the state file; then it broadcasts the path.                       *)
RankZeroEnd ==
  /\ save.pc = "rank0" /\ save.todo = {}
  /\ index' = index \cup {save.step}
  /\ latest' = IF early THEN save.step ELSE latest
  /\ save' = [save EXCEPT !.pc = "others",
                          !.todo = Ranks \ {0}]
  /\ UNCHANGED <<dirs, counter, saved>> /\ SaveSame

(* Mutant of Joined: the first process does not wait for the others.       *)
JoinedEarly == save.pc = "others"

(* join: all the others have saved.                                        *)
Joined == save.pc = "others" /\ save.todo = {}

(* _delete_redundant_de_dir, between the two joins.                        *)
Sweep ==
  /\ Joined
  /\ dirs' = Restrict(dirs, DOMAIN dirs \cap index)
  /\ save' = [save EXCEPT !.pc = "swept"]
  /\ UNCHANGED <<index, latest, counter, saved>> /\ SaveSame

(* save returns.                                                           *)
SaveEnd ==
  /\ save.pc = "swept"
  /\ latest' = save.step
  /\ save' = NoSave
  /\ saved' = With(saved, save.step,
                   [var |-> Entries("var"), slot |-> Entries("slot"),
                    alone |-> \A f, g \in dirs[save.step] : f.world = g.world])
  /\ UNCHANGED <<dirs, index, counter>> /\ SaveSame

(* The manager keeps the newest checkpoint.                                *)
Manage ==
  /\ Quiet /\ latest \in DOMAIN saved /\ index # {latest}
  /\ index' = {latest}
  /\ UNCHANGED <<dirs, latest, counter, save, saved>> /\ SaveSame
-----------------------------------------------------------------------------
(* restore.                                                                *)

now_global_shard_num == world.size * world.devs

FilesOf(t) == {f \in Dir(latest) : f.table = t}

(* The files that a shard loads: its own, if there are as many of this     *)
(* number of processes as there are shards now; else all of them.          *)
Directly(t) ==
  Cardinality({f \in FilesOf(t) : f.world.size = world.size}) = now_global_shard_num

OwnFile(t, s) == {f \in FilesOf(t) : f.shard = s /\ f.world = world}

Source(t, s) == IF Directly(t) THEN OwnFile(t, s) ELSE FilesOf(t)

(* Mutant of Mine: only the process is looked at.                          *)
MineRank(t, s, k) == Directly(t) \/ Home(world, k)[1] = s[1]

(* The entries of its files that a shard inserts.                          *)
Mine(t, s, k) == Directly(t) \/ Home(world, k) = s

(* The table after they are inserted in some order: where files differ any *)
(* may come last.                                                          *)
Loaded(t, s) ==
  LET found == UNION {DOMAIN f.items : f \in Source(t, s)}
      here  == {k \in found : Mine(t, s, k)}
      old   == tables[t][s] IN
  {g \in [here \cup DOMAIN old ->
            UNION {{f.items[k] : k \in DOMAIN f.items} : f \in Source(t, s)}
            \cup {old[k] : k \in DOMAIN old}] :
     \A k \in DOMAIN g :
       IF k \in here THEN \E f \in Source(t, s) : k \in DOMAIN f.items /\ g[k] = f.items[k]
       ELSE g[k] = old[k]}

(* A table of every process.                                               *)
Loads(t) ==
  {ld \in [Shards(world) -> UNION {Loaded(t, s) : s \in Shards(world)}] :
     \A s \in Shards(world) : ld[s] \in Loaded(t, s)}

Zero(t) == IF t = "var" THEN {} ELSE 0

Entry(f, t, k) == LET s == Home(world, k) IN IF k \in DOMAIN f[t][s] THEN f[t][s][k] ELSE Zero(t)

(* Every process restores every table; join.  A shard whose own file is    *)
(* missing fails, and the process with it.                                 *)
Restore ==
  /\ Quiet /\ latest \in index
  /\ \A t \in Table, s \in Shards(world) : Directly(t) => OwnFile(t, s) # {}
  /\ \E v \in Loads("var"), m \in Loads("slot"), u \in Loads("status") :
       tables' = [t \in Table |-> CASE t = "var" -> v [] t = "slot" -> m [] t = "status" -> u]
  /\ counter' = latest
  /\ kept'  = [k \in Keys |-> Entry(tables', "var", k)]
  /\ merit' = [k \in Keys |-> Entry(tables', "status", k)]
  /\ restored' = IF tables = EmptyTables(world) THEN latest ELSE 0
  /\ torn' = (torn \/ tables # EmptyTables(world) \/ latest \notin DOMAIN saved
                   \/ ~ saved[latest].alone)
  /\ UNCHANGED <<world, bp_v2, slot_bp_v2, shadow, policy, call, cuts, now, budget, updates,
                 restricts, trim, raced, beside, dirs, index, latest, early, save, saved>>

(* The processes stop, in the middle of what they do, and start again, in  *)
(* whatever world there is then.                                           *)
Crash ==
  /\ budget.crashes > 0 /\ budget' = [budget EXCEPT !.crashes = @ - 1]
  /\ world' \in budget.worlds /\ tables' = EmptyTables(world')
  /\ call' = [t \in Trainers |-> Idle] /\ cuts' = << >>
  /\ counter' = 0 /\ save' = NoSave /\ restored' = 0
  /\ kept' = [k \in Keys |-> {}] /\ merit' = [k \in Keys |-> 0]
  /\ UNCHANGED <<bp_v2, slot_bp_v2, shadow, policy, now, updates, restricts, trim, raced, beside,
                 dirs, index, latest, early, saved, torn>>

(* Training and restricting go on while nothing is saved.                  *)
Train ==
  /\ save.pc = "idle" /\ VarNext
  /\ restored' = IF tables' = tables THEN restored ELSE 0
  /\ UNCHANGED <<dirs, index, latest, counter, early, save, saved, torn>>

Next ==
  \/ Train
  \/ SaveStart \/ RankZeroEnd \/ Sweep \/ SaveEnd \/ Manage \/ Restore \/ Crash
  \/ \E r \in Ranks : WriteFiles(r)

Spec == Init /\ [][Next]_vars
-----------------------------------------------------------------------------
(* The types; every key lies in the shard that partition_fn gives it, so   *)
(* that what is stored under one number of shards is found under another.  *)
TypeOK ==
  /\ VarTypeOK
  /\ index \subseteq 1 .. budget.saves /\ latest \in 0 .. budget.saves
  /\ save.pc \in {"idle", "rank0", "others", "swept"}
  /\ \A step \in DOMAIN dirs : \A f \in dirs[step] :
       f.world \in Worlds /\ \A k \in DOMAIN f.items : Home(f.world, k) = f.shard

(* A save that returned can be restored, in as many processes and devices  *)
(* as there are then: the variable and its slots have exactly the keys and *)
(* values they had; whatever crashed in between.  Except where a crashed   *)
(* save of the same step, in another world, left files in its directory;   *)
(* and a save stops counting when another of its step begins to overwrite  *)
(* it (SaveStart), as the counter starts again after a crash.              *)
RestoreExact ==
  restored \in DOMAIN saved /\ saved[restored].alone
    => Entries("var") = saved[restored].var /\ Entries("slot") = saved[restored].slot

(* A key that nobody trains or removes has a value exactly if the optimizer*)
(* has a slot for it, in whatever order two who trained it together wrote  *)
(* them, whether the two tables set or accumulate, and whatever else is    *)
(* trained or restricted.  Except a key that was trained while a           *)
(* restriction was removing it, and where an unfinished save was restored. *)
(* With bp_v2 and shadow variables a key with a slot and no value could    *)
(* never be trained again.                                                 *)
SlotsFollow ==
  ~ torn => \A k \in Keys \ beside :
    BeingCut(k) \/ (\E t \in Trainers : call[t].k = k) \/ (Has("var", k) <=> Has("slot", k))
=============================================================================
