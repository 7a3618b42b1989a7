-------------------------- MODULE BatchRoutingProofs --------------------------
(***************************************************************************)
(* That a batch divided over the shards, looked up shard by shard and      *)
(* stitched together is what the keys would find one by one: for batches   *)
(* of any length with any repeats, and any routing.                        *)
(*                                                                         *)
(* Rows of a batch that go to one shard get different slots (SlotsDiffer), *)
(* so as there are no more slots than rows each slot is filled             *)
(* (SlotsFilled); hence the indices have every row of the batch once       *)
(* (WrittenOnce), and the rest follows.                                    *)
(***************************************************************************)
EXTENDS BatchRouting, FiniteSetTheorems, TLAPS

(* The rows that are at or before i and go where it goes.                  *)
Before(part, i) == {j \in 1 .. i : part[j] = part[i]}
Going(part, p) == {j \in DOMAIN part : part[j] = p}

LEMMA RoutingDomain ==
  ASSUME NEW n \in Nat, NEW part, IsRouting(part, n)
  PROVE  /\ Len(part) \in Nat /\ DOMAIN part = 1 .. Len(part)
         /\ \A i \in DOMAIN part : i \in Nat /\ i >= 1 /\ 1 .. i \subseteq DOMAIN part
                                   /\ part[i] \in 0 .. n - 1
  BY DEF IsRouting

LEMMA GoingFinite ==
  ASSUME NEW n \in Nat, NEW part, IsRouting(part, n), NEW p
  PROVE  IsFiniteSet(Going(part, p)) /\ Count(part, p) \in Nat
         /\ Count(part, p) = Cardinality(Going(part, p))
<1>1. IsFiniteSet(1 .. Len(part)) BY RoutingDomain, FS_Interval
<1>2. Going(part, p) \in SUBSET (1 .. Len(part)) BY RoutingDomain DEF Going
<1>3. IsFiniteSet(Going(part, p)) BY <1>1, <1>2, FS_Subset
<1> QED BY <1>3, FS_CardinalityType DEF Count, Going

LEMMA BeforeFinite ==
  ASSUME NEW n \in Nat, NEW part, IsRouting(part, n), NEW i \in DOMAIN part
  PROVE  /\ IsFiniteSet(Before(part, i)) /\ Slot(part, i) = Cardinality(Before(part, i))
         /\ Slot(part, i) \in Nat /\ i \in Before(part, i)
         /\ Before(part, i) \subseteq Going(part, part[i])
<1>1. i \in Nat /\ i >= 1 /\ 1 .. i \subseteq DOMAIN part BY RoutingDomain
<1>2. IsFiniteSet(1 .. i) BY <1>1, FS_Interval
<1>3. Before(part, i) \in SUBSET (1 .. i) BY DEF Before
<1>4. IsFiniteSet(Before(part, i)) BY <1>2, <1>3, FS_Subset
<1>5. Before(part, i) \subseteq Going(part, part[i]) BY <1>1 DEF Before, Going
<1> QED BY <1>1, <1>4, <1>5, FS_CardinalityType DEF Slot, Before

(* A row's slot is one of its output's.                                    *)
LEMMA SlotInOutput ==
  ASSUME NEW n \in Nat, NEW part, IsRouting(part, n), NEW i \in DOMAIN part
  PROVE  Slot(part, i) \in 1 .. Count(part, part[i])
<1>1. Slot(part, i) <= Count(part, part[i])
  BY GoingFinite, BeforeFinite, FS_Subset
<1>2. Slot(part, i) # 0 BY BeforeFinite, FS_EmptySet
<1> QED BY <1>1, <1>2, GoingFinite, BeforeFinite

(* Slots are given in the order of the batch.                              *)
LEMMA SlotsAscend ==
  ASSUME NEW n \in Nat, NEW part, IsRouting(part, n),
         NEW i \in DOMAIN part, NEW j \in DOMAIN part, part[i] = part[j], i < j
  PROVE  Slot(part, i) < Slot(part, j)
<1>1. i \in Nat /\ j \in Nat BY RoutingDomain
<1>2. Before(part, i) \in SUBSET (Before(part, j) \ {j}) BY <1>1 DEF Before
<1>3. IsFiniteSet(Before(part, j) \ {j})
      /\ Cardinality(Before(part, j) \ {j}) = Cardinality(Before(part, j)) - 1
  BY BeforeFinite, FS_RemoveElement
<1>4. Cardinality(Before(part, i)) <= Cardinality(Before(part, j) \ {j})
  BY <1>2, <1>3, FS_Subset
<1> QED BY <1>3, <1>4, BeforeFinite

LEMMA SlotsDiffer ==
  ASSUME NEW n \in Nat, NEW part, IsRouting(part, n),
         NEW i \in DOMAIN part, NEW j \in DOMAIN part, part[i] = part[j],
         Slot(part, i) = Slot(part, j)
  PROVE  i = j
<1>1. i \in Nat /\ j \in Nat BY RoutingDomain
<1>2. CASE i < j BY <1>2, SlotsAscend, BeforeFinite
<1>3. CASE j < i BY <1>3, SlotsAscend, BeforeFinite
<1> QED BY <1>1, <1>2, <1>3

(* No row of an output is left empty.                                      *)
LEMMA SlotsFilled ==
  ASSUME NEW n \in Nat, NEW part, IsRouting(part, n), NEW p, NEW k \in 1 .. Count(part, p)
  PROVE  \E i \in DOMAIN part : part[i] = p /\ Slot(part, i) = k
<1> DEFINE S == Going(part, p)
           T == 1 .. Count(part, p)
           f == [i \in S |-> Slot(part, i)]
<1>1. IsFiniteSet(S) /\ Count(part, p) \in Nat /\ Cardinality(S) = Count(part, p)
  BY GoingFinite
<1>2. IsFiniteSet(T) /\ Cardinality(T) = Count(part, p) BY <1>1, FS_Interval
<1>3. f \in [S -> T] BY SlotInOutput DEF Going
<1>4. \A i, j \in S : f[i] = f[j] => i = j BY SlotsDiffer DEF Going
<1>5. f \in Injection(S, T) BY <1>3, <1>4 DEF Injection, IsInjective
<1>6. f \in Surjection(S, T) BY <1>1, <1>2, <1>5, FS_Injection
<1>7. \E i \in S : f[i] = k BY <1>6 DEF Surjection
<1> QED BY <1>7 DEF Going

LEMMA RowOfSlot ==
  ASSUME NEW n \in Nat, NEW part, IsRouting(part, n), NEW i \in DOMAIN part
  PROVE  RowOf(part, part[i], Slot(part, i)) = i
<1> DEFINE r == RowOf(part, part[i], Slot(part, i))
<1>1. r \in DOMAIN part /\ part[r] = part[i] /\ Slot(part, r) = Slot(part, i) BY DEF RowOf
<1> QED BY <1>1, SlotsDiffer

LEMMA RowOfIsRow ==
  ASSUME NEW n \in Nat, NEW part, IsRouting(part, n), NEW p, NEW k \in 1 .. Count(part, p)
  PROVE  /\ RowOf(part, p, k) \in DOMAIN part
         /\ part[RowOf(part, p, k)] = p /\ Slot(part, RowOf(part, p, k)) = k
BY SlotsFilled DEF RowOf
-----------------------------------------------------------------------------
LEMMA IndicesShape ==
  ASSUME NEW n \in Nat, NEW part, IsRouting(part, n)
  PROVE  /\ DOMAIN make_indices(part, n) = 0 .. n - 1
         /\ \A p \in 0 .. n - 1 :
              /\ DOMAIN make_indices(part, n)[p] = 1 .. Count(part, p)
              /\ \A k \in 1 .. Count(part, p) : make_indices(part, n)[p][k] = RowOf(part, p, k)
BY RowOfIsRow DEF make_indices, dynamic_partition

(* Row i of a batch is written by one row of the inputs: that of its shard *)
(* and slot.                                                               *)
LEMMA WrittenOnce ==
  ASSUME NEW n \in Nat, NEW part, IsRouting(part, n), NEW i \in DOMAIN part
  PROVE  Writes(make_indices(part, n), i) = {<<part[i], Slot(part, i)>>}
<1> DEFINE ind == make_indices(part, n)
           w0 == <<part[i], Slot(part, i)>>
<1>1. part[i] \in 0 .. n - 1 /\ Slot(part, i) \in 1 .. Count(part, part[i])
  BY RoutingDomain, SlotInOutput
<1>2. /\ part[i] \in DOMAIN ind /\ Slot(part, i) \in DOMAIN ind[part[i]]
      /\ ind[part[i]][Slot(part, i)] = RowOf(part, part[i], Slot(part, i))
  BY <1>1, IndicesShape
<1>3. w0 \in Inputs(ind)
  <2> HIDE DEF ind
  <2>1. w0 \in {part[i]} \X DOMAIN ind[part[i]] BY <1>2
  <2> QED BY <1>2, <2>1 DEF Inputs
<1>4. ind[w0[1]][w0[2]] = i
  <2> HIDE DEF ind
  <2> QED BY <1>2, RowOfSlot
<1>5. ASSUME NEW w \in Inputs(ind), ind[w[1]][w[2]] = i PROVE w = w0
  <2>1. PICK p \in 0 .. n - 1 : w \in {p} \X (1 .. Count(part, p))
    BY IndicesShape DEF Inputs
  <2>2. w = <<p, w[2]>> /\ w[1] = p /\ w[2] \in 1 .. Count(part, p) BY <2>1
  <2>3. RowOf(part, p, w[2]) = i BY <1>5, <2>2, IndicesShape
  <2> QED BY <2>2, <2>3, RowOfIsRow
<1> QED BY <1>3, <1>4, <1>5 DEF Writes

LEMMA InputsAreRows ==
  ASSUME NEW n \in Nat, NEW part, IsRouting(part, n), NEW w \in Inputs(make_indices(part, n))
  PROVE  /\ w[1] \in 0 .. n - 1 /\ w[2] \in 1 .. Count(part, w[1]) /\ w = <<w[1], w[2]>>
         /\ make_indices(part, n)[w[1]][w[2]] \in DOMAIN part
<1>1. PICK p \in 0 .. n - 1 : w \in {p} \X (1 .. Count(part, p)) BY IndicesShape DEF Inputs
<1>2. w = <<p, w[2]>> /\ w[1] = p /\ w[2] \in 1 .. Count(part, p) BY <1>1
<1> QED BY <1>2, IndicesShape, RowOfIsRow

(* The two ways to size the result agree: neither leaves a row out nor     *)
(* allocates one that no input writes.                                     *)
LEMMA SizesAgree ==
  ASSUME NEW n \in Nat, NEW part, IsRouting(part, n)
  PROVE  /\ UpToMaxIndex(make_indices(part, n)) = DOMAIN part
         /\ AsManyAsIndices(make_indices(part, n)) = DOMAIN part
<1> DEFINE ind == make_indices(part, n)
           D == DOMAIN part
           I == Inputs(ind)
           f == [i \in D |-> <<part[i], Slot(part, i)>>]
<1>1. Len(part) \in Nat /\ D = 1 .. Len(part) BY RoutingDomain
<1>2. \A i \in D : f[i] \in I /\ ind[f[i][1]][f[i][2]] = i
  BY WrittenOnce DEF Writes
<1>3. UpToMaxIndex(ind) = D
  <2>1. ASSUME NEW j \in UpToMaxIndex(ind) PROVE j \in D
    <3>1. PICK w \in I : j \in 1 .. ind[w[1]][w[2]] BY <2>1 DEF UpToMaxIndex
    <3>2. ind[w[1]][w[2]] \in D BY <3>1, InputsAreRows
    <3> QED BY <3>1, <3>2, RoutingDomain
  <2>2. ASSUME NEW i \in D PROVE i \in UpToMaxIndex(ind)
    <3>1. ind[f[i][1]][f[i][2]] = i BY <1>2
    <3>2. i \in 1 .. i BY RoutingDomain
    <3>3. i \in 1 .. ind[f[i][1]][f[i][2]] BY <3>1, <3>2, Zenon
    <3> QED BY <1>2, <3>3 DEF UpToMaxIndex
  <2> QED BY <2>1, <2>2
<1>4. Cardinality(I) = Len(part)
  <2>1. IsFiniteSet(D) /\ Cardinality(D) = Len(part)
    <3>1. \A N \in Nat : IsFiniteSet(1 .. N) /\ Cardinality(1 .. N) = N BY FS_Interval
    <3> QED BY <1>1, <3>1, Zenon
  <2>2. f \in [D -> I] BY <1>2
  <2>3. ASSUME NEW w \in I PROVE \E i \in D : f[i] = w
    <3>1. ind[w[1]][w[2]] \in D BY InputsAreRows
    <3>2. w \in Writes(ind, ind[w[1]][w[2]]) BY DEF Writes
    <3> QED BY <3>1, <3>2, WrittenOnce
  <2>4. f \in Surjection(D, I) BY <2>2, <2>3 DEF Surjection
  <2>5. \A i, j \in D : f[i] = f[j] => i = j BY <1>2
  <2>6. f \in Injection(D, I) BY <2>2, <2>5 DEF Injection, IsInjective
  <2> QED BY <2>1, <2>4, <2>6, FS_Surjection
<1> QED BY <1>1, <1>3, <1>4 DEF AsManyAsIndices
-----------------------------------------------------------------------------
(* default_partition_fn names a shard there is, for negative keys too, so  *)
(* that no kernel refuses a batch; builds with and without CUDA agree on   *)
(* keys of 31 bits.                                                        *)
THEOREM EveryKeyHasAShard ==
  ASSUME NEW key \in Int, NEW n \in Nat \ {0}, NEW gpu_mode \in BOOLEAN,
         NEW span \in Nat \ {0}
  PROVE  /\ default_partition_fn(key, n, gpu_mode, span) \in 0 .. n - 1
         /\ key \in 0 .. span - 1 =>
              default_partition_fn(key, n, TRUE, span) = default_partition_fn(key, n, FALSE, span)
<1>1. key % span \in Int /\ (key \in 0 .. span - 1 => key % span = key) BY SMT
<1>2. \A k \in Int : k % n \in 0 .. n - 1 BY SMT
<1> QED BY <1>1, <1>2 DEF default_partition_fn

(* What was divided by dynamic_partition and stitched by its indices is    *)
(* back in its rows, whatever kernel did it: every row of the result is    *)
(* written, once, and with the row that has its shard and slot.            *)
THEOREM StitchInvertsPartition ==
  ASSUME NEW n \in Nat, NEW part, IsRouting(part, n), NEW fastOnGPU \in BOOLEAN,
         NEW m, NEW data, IsStitch(m, make_indices(part, n), data, fastOnGPU)
  PROVE  /\ DOMAIN m = DOMAIN part
         /\ \A i \in DOMAIN part : m[i] = data[part[i]][Slot(part, i)]
<1>1. DOMAIN m = DOMAIN part BY SizesAgree DEF IsStitch
<1>2. ASSUME NEW i \in DOMAIN part PROVE m[i] = data[part[i]][Slot(part, i)]
  <2>1. Writes(make_indices(part, n), i) = {<<part[i], Slot(part, i)>>} BY WrittenOnce
  <2>2. \E w \in {<<part[i], Slot(part, i)>>} : m[i] = data[w[1]][w[2]]
    BY <1>1, <2>1 DEF IsStitch
  <2> QED BY <2>2
<1> QED BY <1>1, <1>2
(* The gradient of row i of what was divided is that of the row it became. *)
COROLLARY GradientsReturn ==
  ASSUME NEW n \in Nat, NEW part, IsRouting(part, n), NEW fastOnGPU \in BOOLEAN,
         NEW g, NEW grads, IsPartitionGrad(g, part, n, grads, fastOnGPU)
  PROVE  /\ DOMAIN g = DOMAIN part
         /\ \A i \in DOMAIN part : g[i] = grads[part[i]][Slot(part, i)]
BY StitchInvertsPartition DEF IsPartitionGrad
-----------------------------------------------------------------------------
LEMMA OneShard ==
  ASSUME NEW part, IsRouting(part, 1), NEW i \in DOMAIN part
  PROVE  part[i] = 0 /\ Slot(part, i) = i
<1>1. i \in Nat /\ i >= 1 /\ \A j \in 1 .. i : part[j] = 0 BY RoutingDomain
<1>2. Before(part, i) = 1 .. i BY <1>1 DEF Before
<1>3. Cardinality(1 .. i) = i BY <1>1, FS_Interval
<1> QED BY <1>1, <1>2, <1>3, BeforeFinite

(* The divided batch: where row i of it is.                                *)
LEMMA PartitionRow ==
  ASSUME NEW n \in Nat \ {0}, NEW part, IsRouting(part, n),
         NEW data, DOMAIN data = DOMAIN part
  PROVE  LET d == make_partition(data, part, n) IN
         /\ DOMAIN d = 0 .. n - 1
         /\ \A i \in DOMAIN part : /\ Slot(part, i) \in DOMAIN d[part[i]]
                                   /\ d[part[i]][Slot(part, i)] = data[i]
         /\ \A p \in 0 .. n - 1 : \A k \in DOMAIN d[p] :
              \E i \in DOMAIN part : p = part[i] /\ k = Slot(part, i)
<1> DEFINE d == make_partition(data, part, n)
<1>1. CASE n = 1
  <2>1. d = [p \in {0} |-> data] BY <1>1 DEF make_partition
  <2>2. 0 .. n - 1 = {0} BY <1>1
  <2> QED BY <1>1, <2>1, <2>2, OneShard
<1>2. CASE n # 1
  <2>1. d = [p \in 0 .. n - 1 |-> [k \in 1 .. Count(part, p) |-> data[RowOf(part, p, k)]]]
    BY <1>2 DEF make_partition, dynamic_partition
  <2>2. ASSUME NEW i \in DOMAIN part
        PROVE  /\ Slot(part, i) \in DOMAIN d[part[i]]
               /\ d[part[i]][Slot(part, i)] = data[i]
    <3>1. part[i] \in 0 .. n - 1 /\ Slot(part, i) \in 1 .. Count(part, part[i])
      BY RoutingDomain, SlotInOutput
    <3>2. RowOf(part, part[i], Slot(part, i)) = i BY RowOfSlot
    <3> QED BY <2>1, <3>1, <3>2
  <2>3. ASSUME NEW p \in 0 .. n - 1, NEW k \in DOMAIN d[p]
        PROVE  \E i \in DOMAIN part : p = part[i] /\ k = Slot(part, i)
    <3>1. k \in 1 .. Count(part, p) BY <2>1, <2>3
    <3> QED BY <3>1, SlotsFilled
  <2> QED BY <2>1, <2>2, <2>3
<1> QED BY <1>1, <1>2

LEMMA MergedRow ==
  ASSUME NEW n \in Nat \ {0}, NEW part, IsRouting(part, n), NEW fastOnGPU \in BOOLEAN,
         NEW m, NEW data, n = 1 => DOMAIN data[0] = DOMAIN part,
         IsMerged(m, part, n, data, fastOnGPU)
  PROVE  /\ DOMAIN m = DOMAIN part
         /\ \A i \in DOMAIN part : m[i] = data[part[i]][Slot(part, i)]
<1>1. CASE n = 1 BY <1>1, OneShard DEF IsMerged
<1>2. CASE n # 1 BY <1>2, StitchInvertsPartition DEF IsMerged
<1> QED BY <1>1, <1>2

(* A batch finds what each of its keys alone would: the value its shard's  *)
(* table has, or the default of its row; and exists says of each row       *)
(* whether it was found, so that values and flags, stitched by two calls,  *)
(* are of the same key.                                                    *)
THEOREM LookupIsKeyByKey ==
  ASSUME NEW n \in Nat \ {0}, NEW part, IsRouting(part, n), NEW fastOnGPU \in BOOLEAN,
         NEW keys, DOMAIN keys = DOMAIN part, NEW tables, NEW defaults,
         NEW values, NEW exists,
         IsLookup(values, exists, tables, keys, part, n, defaults, fastOnGPU)
  PROVE  /\ DOMAIN values = DOMAIN keys /\ DOMAIN exists = DOMAIN keys
         /\ \A i \in DOMAIN keys :
              /\ values[i] = Find(tables[part[i]], keys[i], defaults[part[i]][Slot(part, i)])
              /\ exists[i] = Has(tables[part[i]], keys[i])
<1> DEFINE d == make_partition(keys, part, n)
           found == [p \in DOMAIN d |-> FindRows(tables[p], d[p], defaults[p])]
           has == [p \in DOMAIN d |-> ExistRows(tables[p], d[p])]
<1>1. IsMerged(values, part, n, found, fastOnGPU) /\ IsMerged(exists, part, n, has, fastOnGPU)
  BY DEF IsLookup
<1>2. DOMAIN d = 0 .. n - 1
      /\ \A i \in DOMAIN part : Slot(part, i) \in DOMAIN d[part[i]]
                                /\ d[part[i]][Slot(part, i)] = keys[i]
  BY PartitionRow
<1>3. n = 1 => DOMAIN found[0] = DOMAIN part /\ DOMAIN has[0] = DOMAIN part
  <2>1. n = 1 => d = [p \in {0} |-> keys] BY DEF make_partition
  <2> QED BY <2>1 DEF FindRows, ExistRows
<1>4. DOMAIN values = DOMAIN part /\ DOMAIN exists = DOMAIN part
      /\ \A i \in DOMAIN part : values[i] = found[part[i]][Slot(part, i)]
                                /\ exists[i] = has[part[i]][Slot(part, i)]
  <2> HIDE DEF found, has
  <2> QED BY <1>1, <1>3, MergedRow
<1>5. ASSUME NEW i \in DOMAIN part
      PROVE  /\ found[part[i]][Slot(part, i)]
                  = Find(tables[part[i]], keys[i], defaults[part[i]][Slot(part, i)])
             /\ has[part[i]][Slot(part, i)] = Has(tables[part[i]], keys[i])
  <2> HIDE DEF d
  <2>1. part[i] \in DOMAIN d /\ Slot(part, i) \in DOMAIN d[part[i]]
        /\ d[part[i]][Slot(part, i)] = keys[i]
    BY <1>2, RoutingDomain
  <2> QED BY <2>1 DEF FindRows, ExistRows
<1> QED BY <1>4, <1>5

(* What a batch upserts are its own keys with their own values, each at    *)
(* its shard: keys and values are divided by two calls and not torn apart. *)
THEOREM UpsertsArePairs ==
  ASSUME NEW n \in Nat \ {0}, NEW part, IsRouting(part, n),
         NEW keys, DOMAIN keys = DOMAIN part, NEW values, DOMAIN values = DOMAIN part
  PROVE  Upserts(keys, values, part, n)
           = {<<part[i], keys[i], values[i]>> : i \in DOMAIN part}
<1> DEFINE ks == make_partition(keys, part, n)
           vs == make_partition(values, part, n)
           row(i) == <<part[i], keys[i], values[i]>>
<1>1. /\ DOMAIN ks = 0 .. n - 1
      /\ \A i \in DOMAIN part : Slot(part, i) \in DOMAIN ks[part[i]]
                                /\ ks[part[i]][Slot(part, i)] = keys[i]
      /\ \A p \in 0 .. n - 1 : \A k \in DOMAIN ks[p] :
           \E i \in DOMAIN part : p = part[i] /\ k = Slot(part, i)
  BY PartitionRow
<1>2. \A i \in DOMAIN part : vs[part[i]][Slot(part, i)] = values[i] BY PartitionRow
<1>3. \A i \in DOMAIN part : part[i] \in 0 .. n - 1 BY RoutingDomain
<1> HIDE DEF ks, vs
<1>4. Upserts(keys, values, part, n)
        = UNION {{<<p, ks[p][k], vs[p][k]>> : k \in DOMAIN ks[p]} : p \in DOMAIN ks}
  BY DEF Upserts, ks, vs
<1>5. ASSUME NEW u \in Upserts(keys, values, part, n)
      PROVE  u \in {row(i) : i \in DOMAIN part}
  <2>1. PICK p \in 0 .. n - 1 : u \in {<<p, ks[p][k], vs[p][k]>> : k \in DOMAIN ks[p]}
    BY <1>1, <1>4
  <2>2. PICK k \in DOMAIN ks[p] : u = <<p, ks[p][k], vs[p][k]>> BY <2>1
  <2>3. PICK i \in DOMAIN part : p = part[i] /\ k = Slot(part, i) BY <1>1
  <2> QED BY <1>1, <1>2, <2>2, <2>3
<1>6. ASSUME NEW i \in DOMAIN part PROVE row(i) \in Upserts(keys, values, part, n)
  <2>1. row(i) \in {<<part[i], ks[part[i]][k], vs[part[i]][k]>> : k \in DOMAIN ks[part[i]]}
    BY <1>1, <1>2
  <2> QED BY <1>1, <1>3, <1>4, <2>1
<1> QED BY <1>5, <1>6

(* The lookup of distinct ids: each row is what its id finds, and rows of  *)
(* the same id are the same, also if it was missing and initialized at     *)
(* random, so that a key is not upserted from two starting values.         *)
THEOREM UniqueLookupAgrees ==
  ASSUME NEW n \in Nat \ {0}, NEW part, NEW fastOnGPU \in BOOLEAN,
         NEW ids, NEW y, NEW idx, IsUnique(y, idx, ids),
         IsRouting(part, n), DOMAIN y = DOMAIN part, NEW tables, NEW defaults,
         NEW values, NEW exists,
         IsLookup(values, exists, tables, y, part, n, defaults, fastOnGPU)
  PROVE  /\ DOMAIN gather(values, idx) = DOMAIN ids
         /\ \A i \in DOMAIN ids :
              gather(values, idx)[i] = Find(tables[part[idx[i]]], ids[i],
                                            defaults[part[idx[i]]][Slot(part, idx[i])])
         /\ \A i, j \in DOMAIN ids :
              ids[i] = ids[j] => gather(values, idx)[i] = gather(values, idx)[j]
<1>1. \A a \in DOMAIN y :
        values[a] = Find(tables[part[a]], y[a], defaults[part[a]][Slot(part, a)])
  BY LookupIsKeyByKey
<1>2. DOMAIN idx = DOMAIN ids
      /\ \A i \in DOMAIN ids : idx[i] \in DOMAIN y /\ y[idx[i]] = ids[i]
  BY DEF IsUnique
<1>3. \A i \in DOMAIN ids : gather(values, idx)[i] = values[idx[i]] BY <1>2 DEF gather
<1>4. \A i, j \in DOMAIN ids : ids[i] = ids[j] => idx[i] = idx[j] BY <1>2 DEF IsUnique
<1>5. DOMAIN gather(values, idx) = DOMAIN ids BY <1>2 DEF gather
<1> QED BY <1>1, <1>2, <1>3, <1>4, <1>5

(* Between Horovod's ranks: every row of a rank's answer is one row, not a *)
(* sum of several nor a zero, and it is what the id finds in the variable  *)
(* of the rank it belongs to.                                              *)
THEOREM HvdLookupIsKeyByKey ==
  ASSUME NEW n \in Nat \ {0, 1}, NEW part, NEW batch,
         \A q \in 0 .. n - 1 : IsRouting(part[q], n) /\ DOMAIN batch[q] = DOMAIN part[q],
         NEW tables, NEW defaults,
         NEW r \in 0 .. n - 1, NEW i \in DOMAIN batch[r]
  PROVE  LET q == part[r][i]
             s == Slot(part[r], i)
         IN  HvdLookup(tables, batch, part, n, defaults, r, i)
               = {<<<<q, s>>, Find(tables[q], batch[r][i], defaults[q][r][s])>>}
<1> DEFINE q == part[r][i]
           s == Slot(part[r], i)
           ids == Relocated(batch, part, n)
           back == Answers(tables, batch, part, n, defaults)
           d == make_partition(batch[r], part[r], n)
<1>1. IsRouting(part[r], n) /\ i \in DOMAIN part[r] /\ q \in 0 .. n - 1 BY RoutingDomain
<1>2. s \in DOMAIN d[q] /\ d[q][s] = batch[r][i] BY <1>1, PartitionRow
<1>3. ids[q][r] = d[q] BY <1>1 DEF Relocated, alltoall
<1>4. back[r][q] = FindRows(tables[q], ids[q][r], defaults[q][r]) BY <1>1 DEF Answers, alltoall
<1>5. back[r][q][s] = Find(tables[q], batch[r][i], defaults[q][r][s])
  <2> HIDE DEF ids, back, d
  <2> QED BY <1>2, <1>3, <1>4 DEF FindRows
<1>6. Writes(make_indices(part[r], n), i) = {<<q, s>>} BY <1>1, WrittenOnce
<1> HIDE DEF q, s, back
<1>7. Scattered(make_indices(part[r], n), back[r], i) = {<<<<q, s>>, back[r][q][s]>>}
  BY <1>6 DEF Scattered
<1> QED BY <1>5, <1>7 DEF HvdLookup, q, s, back
=============================================================================
