----------------------------- MODULE BatchRouting -----------------------------
(***************************************************************************)
(* How a batch of keys reaches the shards of a variable and comes back:    *)
(* make_partition, lookup, upsert and _stitch                              *)
(* (python/ops/dynamic_embedding_variable.py), the kernels                 *)
(* dynamic_partition_op.cc and dynamic_stitch_op.cc under them, their      *)
(* gradient (data_flow_grad.py), the lookups of distinct keys              *)
(* (dynamic_embedding_ops.py, shadow_embedding_ops.py) and the lookup that *)
(* Horovod's ranks do together (HvdVariable, shadow_embedding_ops.py).     *)
(*                                                                         *)
(* A tensor is a sequence of its rows, a row a value.  A routing is the    *)
(* tensor of the shard numbers of a batch, 0 to n - 1; a tuple of tensors, *)
(* one to a shard, is a function of the shard number.  Rows have numbers   *)
(* from 1, in the code from 0.                                             *)
(***************************************************************************)
EXTENDS Integers, Sequences, FiniteSets

(* span is 2^31, what the mask 0x7fffffff leaves: where the build has CUDA *)
(* (gpu_mode) the key's low bits decide.  math_ops.mod is the floored one. *)
default_partition_fn(key, shard_num, gpu_mode, span) ==
  IF shard_num <= 1 THEN 0
  ELSE IF gpu_mode THEN (key % span) % shard_num ELSE key % shard_num

(* What the kernel's FastBoundsCheck lets through.                         *)
IsRouting(part, n) == part \in Seq(0 .. n - 1)
-----------------------------------------------------------------------------
(* TfraDynamicPartitionOp.                                                 *)

(* partition_count[p].                                                     *)
Count(part, p) == Cardinality({j \in DOMAIN part : part[j] = p})

(* output_index[p] when row i is copied, counted from 1.                   *)
Slot(part, i) == Cardinality({j \in 1 .. i : part[j] = part[i]})

(* The row of the batch that lands in row k of output p.                   *)
RowOf(part, p, k) == CHOOSE i \in DOMAIN part : part[i] = p /\ Slot(part, i) = k

dynamic_partition(data, part, n) ==
  [p \in 0 .. n - 1 |-> [k \in 1 .. Count(part, p) |-> data[RowOf(part, p, k)]]]

(* With one shard there is nothing to divide, and no indices.              *)
make_partition(data, part, n) ==
  IF n <= 1 THEN [p \in {0} |-> data] ELSE dynamic_partition(data, part, n)

make_indices(part, n) == dynamic_partition([i \in DOMAIN part |-> i], part, n)
-----------------------------------------------------------------------------
(* TfraDynamicStitchOp.                                                    *)

Inputs(indices) == UNION {{p} \X DOMAIN indices[p] : p \in DOMAIN indices}

(* The rows of the inputs that are copied to row i of merged.              *)
Writes(indices, i) == {w \in Inputs(indices) : indices[w[1]][w[2]] = i}

(* The size of merged: max_index + 1 for the CPU's kernels and the GPU's   *)
(* plain one; as many as there are indices for the GPU's fast one.         *)
UpToMaxIndex(indices) == UNION {1 .. indices[w[1]][w[2]] : w \in Inputs(indices)}
AsManyAsIndices(indices) == 1 .. Cardinality(Inputs(indices))

(* m may be what a stitch returns.  If rows have the same index the inputs *)
(* race for it where the kernel is parallel; a row that has none is left   *)
(* uninitialized: nothing is said of it.                                   *)
IsStitch(m, indices, data, fastOnGPU) ==
  /\ DOMAIN m = IF fastOnGPU THEN AsManyAsIndices(indices) ELSE UpToMaxIndex(indices)
  /\ \A i \in DOMAIN m :
       Writes(indices, i) # {} => \E w \in Writes(indices, i) : m[i] = data[w[1]][w[2]]

(* _stitch.                                                                *)
IsMerged(m, part, n, data, fastOnGPU) ==
  IF n <= 1 THEN m = data[0] ELSE IsStitch(m, make_indices(part, n), data, fastOnGPU)

(* The gradient of a partition: those of its outputs, put back in place.   *)
IsPartitionGrad(g, part, n, grads, fastOnGPU) ==
  IsStitch(g, make_indices(part, n), grads, fastOnGPU)
-----------------------------------------------------------------------------
(* Variable.lookup.  A key that its table lacks is given the default of    *)
(* its row: the initializer draws one for every row of every partition.    *)

Has(table, key) == key \in DOMAIN table
Find(table, key, default) == IF Has(table, key) THEN table[key] ELSE default

FindRows(table, keys, defaults) == [k \in DOMAIN keys |-> Find(table, keys[k], defaults[k])]
ExistRows(table, keys) == [k \in DOMAIN keys |-> Has(table, keys[k])]

(* values and exists may be what lookup returns for keys.                  *)
IsLookup(values, exists, tables, keys, part, n, defaults, fastOnGPU) ==
  LET sent == make_partition(keys, part, n) IN
  /\ IsMerged(values, part, n,
              [p \in DOMAIN sent |-> FindRows(tables[p], sent[p], defaults[p])], fastOnGPU)
  /\ IsMerged(exists, part, n,
              [p \in DOMAIN sent |-> ExistRows(tables[p], sent[p])], fastOnGPU)

(* Variable.upsert: what the insert of each shard's table is given, as     *)
(* triples of the shard, a key and a value.                                *)
Upserts(keys, values, part, n) ==
  LET ks == make_partition(keys, part, n)
      vs == make_partition(values, part, n)
  IN UNION {{<<p, ks[p][k], vs[p][k]>> : k \in DOMAIN ks[p]} : p \in DOMAIN ks}
-----------------------------------------------------------------------------
(* embedding_lookup_unique: the distinct ids are looked up and gathered.   *)

(* tf.unique: y has the distinct ids, idx the place in y of each.          *)
IsUnique(y, idx, ids) ==
  /\ \A a, b \in DOMAIN y : y[a] = y[b] => a = b
  /\ idx \in [DOMAIN ids -> DOMAIN y]
  /\ \A i \in DOMAIN ids : y[idx[i]] = ids[i]

gather(rows, idx) == [i \in DOMAIN idx |-> rows[idx[i]]]
-----------------------------------------------------------------------------
(* HvdVariable: batch[r] and part[r] are the ids of rank r and the ranks   *)
(* they belong to.  hvd.alltoall gives rank q what each rank has for it;   *)
(* the splits tell the senders apart.                                      *)

alltoall(sent, ranks) == [q \in ranks |-> [r \in ranks |-> sent[r][q]]]

(* __relocate_dense_feature__.                                             *)
Relocated(batch, part, n) ==
  alltoall([r \in 0 .. n - 1 |-> make_partition(batch[r], part[r], n)], 0 .. n - 1)

(* What each rank sends back, its lookups with a default to every row.     *)
Answers(tables, batch, part, n, defaults) ==
  LET ids == Relocated(batch, part, n) IN
  alltoall([q \in 0 .. n - 1 |->
              [r \in 0 .. n - 1 |-> FindRows(tables[q], ids[q][r], defaults[q][r])]],
           0 .. n - 1)

(* tf.scatter_nd adds up the rows that have the same index: row i is the   *)
(* sum of these.                                                           *)
Scattered(indices, data, i) ==
  {<<w, data[w[1]][w[2]]>> : w \in Writes(indices, i)}

(* __alltoall_embedding_lookup__: what row i of rank r's answer is the sum *)
(* of.                                                                     *)
HvdLookup(tables, batch, part, n, defaults, r, i) ==
  Scattered(make_indices(part[r], n), Answers(tables, batch, part, n, defaults)[r], i)
=============================================================================
