------------------------------ MODULE MCTraining ------------------------------
(***************************************************************************)
(* Small instances of Checkpoints: two trainers of a key and restrictions; *)
(* restrictions of keys that one trains; or one trainer, two saves and two *)
(* crashes, with restarts in other worlds.                                 *)
(***************************************************************************)
EXTENDS Checkpoints, Sequences, TLC

CONSTANTS t1, t2

Alone == [size |-> 1, devs |-> 1]
MCWorlds == {Alone, [size |-> 1, devs |-> 2], [size |-> 2, devs |-> 1]}

Training2 ==
  [updates |-> 3, restricts |-> 0, saves |-> 0, crashes |-> 0, trainers |-> 2, keys |-> {0},
   worlds |-> {Alone}, bp_v2 |-> BOOLEAN, slot_bp_v2 |-> BOOLEAN,
   shadow |-> BOOLEAN, policies |-> {"frequency"},
   reserves |-> {0}]
Restricting ==
  [updates |-> 3, restricts |-> 1, saves |-> 0, crashes |-> 0, trainers |-> 1, keys |-> {0, 2},
   worlds |-> {[size |-> 1, devs |-> 2]}, bp_v2 |-> {TRUE}, slot_bp_v2 |-> {TRUE}, shadow |-> {FALSE},
   policies |-> {"timestamp", "frequency"}, reserves |-> {1, 2}]
Saving ==
  [updates |-> 2, restricts |-> 0, saves |-> 2, crashes |-> 1, trainers |-> 1, keys |-> {0, 1},
   worlds |-> MCWorlds, bp_v2 |-> {FALSE}, slot_bp_v2 |-> {FALSE}, shadow |-> {TRUE},
   policies |-> {"frequency"}, reserves |-> {}]

MCBudgets ==
  {Training2, [Training2 EXCEPT !.updates = 2, !.restricts = 1, !.shadow = {TRUE}], Restricting,
   Saving, [Saving EXCEPT !.updates = 1, !.saves = 1, !.crashes = 2]}
MCSymmetry == Permutations({t1, t2})
-----------------------------------------------------------------------------
(* What BatchRouting says of a batch, on batches of up to 4 keys of 2, with*)
(* repeats, routed in every way to up to 3 shards.                         *)
B == INSTANCE BatchRouting
S == INSTANCE SequencesExt

Shard == 0 .. 2
Batches == UNION {[1 .. l -> {"j", "k"}] \X [1 .. l -> Shard] : l \in 0 .. 4}

(* The kernel's loop: outputs[p][output_index[p]++] = data[i].             *)
Loop(data, part) ==
  S!FoldLeft(LAMBDA outputs, i : [outputs EXCEPT ![part[i]] = Append(@, data[i])],
             [p \in Shard |-> << >>], [i \in DOMAIN part |-> i])

(* Any row a shard gives, by its key, and by its place if it lacks the key.*)
ShardTables == [p \in Shard |-> IF p = 1 THEN << >> ELSE [k \in {"j"} |-> <<p, k>>]]
RowDefaults == [p \in Shard |-> [k \in 1 .. 4 |-> <<p, k>>]]

(* make_partition divides a batch, and numbers its rows, as the loop does. *)
ASSUME PartitionIsTheLoop ==
  \A b \in Batches :
    /\ B!make_partition(b[1], b[2], 3) = Loop(b[1], b[2])
    /\ B!make_indices(b[2], 3) = Loop([i \in DOMAIN b[2] |-> i], b[2])

(* A lookup of the batch may return what its keys find one by one, with    *)
(* either stitch: that it returns nothing else is proved.                  *)
ASSUME LookupReturns ==
  \A b \in Batches : \A fast \in BOOLEAN :
    B!IsLookup([i \in DOMAIN b[1] |-> B!Find(ShardTables[b[2][i]], b[1][i],
                                             RowDefaults[b[2][i]][B!Slot(b[2], i)])],
               [i \in DOMAIN b[1] |-> B!Has(ShardTables[b[2][i]], b[1][i])],
               ShardTables, b[1], b[2], 3, RowDefaults, fast)

(* A variable finds a key where default_partition_fn puts it: first the    *)
(* rank, then in it the device.                                            *)
ASSUME HomeIsDefaultPartition ==
  \A w \in MCWorlds : \A k \in 0 .. 3 :
    Home(w, k) = <<B!default_partition_fn(k, w.size, FALSE, 4),
                   B!default_partition_fn(k, w.devs, TRUE, 4)>>
=============================================================================
