--------------------------- MODULE CuckooDataProofs ---------------------------
(***************************************************************************)
(* What the table of CuckooMap holds, for any number of threads, keys and  *)
(* values, any sizes and any workload: no key is there twice, every item   *)
(* is in one of its two buckets, lazy migration neither loses nor          *)
(* overwrites an item, to its callers the table is the map of KvMap, and   *)
(* the counters add up to the number of its items.                         *)
(* It takes that no stale waiter gets its lock in the middle of a swap, and*)
(* holds until an unlocking goes on to an array that another thread has    *)
(* appended.  Neither happens to a table born with all its locks.          *)
(***************************************************************************)
EXTENDS CuckooResizeProofs

-----------------------------------------------------------------------------
(* A table in two parts: new buckets, and old ones not migrated yet.       *)

Full(T, b, s) == T[b][s] # Empty

Placed(T, hp) ==
  \A b \in Bucket, s \in Slot : Full(T, b, s) => b \in Candidates(hp, T[b][s].key)

Once(T) ==
  \A b \in Bucket, s \in Slot, c \in Bucket, r \in Slot :
    Full(T, b, s) /\ Full(T, c, r) /\ T[b][s].key = T[c][r].key => b = c /\ s = r

Apart(N, O) ==
  \A b \in Bucket, s \in Slot, c \in Bucket, r \in Slot :
    Full(N, b, s) /\ Full(O, c, r) => N[b][s].key # O[c][r].key

Absent(T, k) == \A b \in Bucket, s \in Slot : Full(T, b, s) => T[b][s].key # k

Good(N, hp, O, ohp) ==
  /\ Placed(N, hp) /\ Once(N)
  /\ Placed(O, ohp) /\ Once(O)
  /\ Apart(N, O)

LEMMA PutAt ==
  ASSUME NEW T \in Table, NEW b \in Bucket, NEW s \in Slot, NEW x,
         NEW c \in Bucket, NEW r \in Slot
  PROVE  Put(T, b, s, x)[c][r] = IF c = b /\ r = s THEN x ELSE T[c][r]
  BY DEF Table, Put

LEMMA SameTable ==
  ASSUME NEW T \in Table, NEW U \in Table,
         \A b \in Bucket, s \in Slot : T[b][s] = U[b][s]
  PROVE  T = U
  <1>1. ASSUME NEW b \in Bucket
        PROVE  T[b] = U[b]
    BY DEF Table
  <1> QED
    BY <1>1 DEF Table

LEMMA FullItem ==
  ASSUME NEW T \in Table, NEW b \in Bucket, NEW s \in Slot
  PROVE  /\ T[b][s] \in Item \cup {Empty}
         /\ Full(T, b, s) => T[b][s] \in Item /\ T[b][s].key \in Keys
         /\ T[b][s] \in Item => Full(T, b, s)
  BY ValuesAssumption DEF Table, Full, Item

LEMMA ItemsHere ==
  ASSUME NEW T \in Table, NEW x \in Item
  PROVE  x \in ItemsIn(T) <=> \E b \in Bucket, s \in Slot : T[b][s] = x
  BY ValuesAssumption DEF ItemsIn

(* Taking an item out.                                                     *)
LEMMA VacateGood ==
  ASSUME NEW N \in Table, NEW O \in Table, NEW hp, NEW ohp, Good(N, hp, O, ohp),
         NEW b \in Bucket, NEW s \in Slot, Full(N, b, s)
  PROVE  /\ Good(Put(N, b, s, Empty), hp, O, ohp)
         /\ Absent(Put(N, b, s, Empty), N[b][s].key) /\ Absent(O, N[b][s].key)
         /\ ItemsIn(Put(N, b, s, Empty)) = ItemsIn(N) \ {N[b][s]}
  <1> DEFINE V == Put(N, b, s, Empty)
  <1>1. /\ Placed(N, hp) /\ Once(N) /\ Placed(O, ohp) /\ Once(O) /\ Apart(N, O)
    BY DEF Good
  <1>2. \A c \in Bucket, r \in Slot : V[c][r] = IF c = b /\ r = s THEN Empty ELSE N[c][r]
    BY PutAt
  <1>3. V \in Table
    BY PutType
  <1> HIDE DEF V
  <1>4. \A c \in Bucket, r \in Slot :
          Full(V, c, r) => Full(N, c, r) /\ V[c][r] = N[c][r] /\ ~ (c = b /\ r = s)
    BY <1>2 DEF Full
  <1>5. Placed(V, hp)
    BY <1>1, <1>4 DEF Placed
  <1>6. Once(V)
    BY <1>1, <1>4 DEF Once
  <1>7. Apart(V, O)
    BY <1>1, <1>4 DEF Apart
  <1>8. Absent(V, N[b][s].key)
    BY <1>1, <1>4 DEF Absent, Once
  <1>9. Absent(O, N[b][s].key)
    BY <1>1 DEF Absent, Apart
  <1>10. ItemsIn(V) = ItemsIn(N) \ {N[b][s]}
    <2>1. ASSUME NEW x \in ItemsIn(V)
          PROVE  x \in ItemsIn(N) \ {N[b][s]}
      <3>1. PICK c \in Bucket, r \in Slot : V[c][r] = x /\ Full(V, c, r)
        BY DEF ItemsIn, Full
      <3>2. x # N[b][s]
        BY <3>1, <1>8 DEF Absent
      <3> QED
        BY <3>1, <3>2, <1>4 DEF ItemsIn, Full
    <2>2. ASSUME NEW x \in ItemsIn(N) \ {N[b][s]}
          PROVE  x \in ItemsIn(V)
      <3>1. PICK c \in Bucket, r \in Slot : N[c][r] = x
        BY DEF ItemsIn
      <3>2. V[c][r] = x /\ x # Empty
        BY <3>1, <2>2, <1>2 DEF ItemsIn
      <3> QED
        BY <3>2 DEF ItemsIn
    <2> QED
      BY <2>1, <2>2
  <1> QED
    BY <1>1, <1>5, <1>6, <1>7, <1>8, <1>9, <1>10 DEF Good, V

(* Putting one in.                                                         *)
LEMMA FillGood ==
  ASSUME NEW N \in Table, NEW O \in Table, NEW hp, NEW ohp, Good(N, hp, O, ohp),
         NEW b \in Bucket, NEW s \in Slot, ~ Full(N, b, s),
         NEW x \in Item, b \in Candidates(hp, x.key), Absent(N, x.key), Absent(O, x.key)
  PROVE  /\ Good(Put(N, b, s, x), hp, O, ohp)
         /\ ItemsIn(Put(N, b, s, x)) = ItemsIn(N) \cup {x}
  <1> DEFINE V == Put(N, b, s, x)
  <1>1. /\ Placed(N, hp) /\ Once(N) /\ Placed(O, ohp) /\ Once(O) /\ Apart(N, O)
    BY DEF Good
  <1>2. \A c \in Bucket, r \in Slot : V[c][r] = IF c = b /\ r = s THEN x ELSE N[c][r]
    BY PutAt
  <1>3. x # Empty
    BY ValuesAssumption
  <1> HIDE DEF V
  <1>4. \A c \in Bucket, r \in Slot :
          Full(V, c, r) => \/ c = b /\ r = s /\ V[c][r] = x
                           \/ Full(N, c, r) /\ V[c][r] = N[c][r] /\ V[c][r].key # x.key
    BY <1>2 DEF Full, Absent
  <1>5. Placed(V, hp)
    BY <1>1, <1>4 DEF Placed
  <1>6. Once(V)
    BY <1>1, <1>4 DEF Once
  <1>7. Apart(V, O)
    BY <1>1, <1>4 DEF Apart, Absent
  <1>8. ItemsIn(V) = ItemsIn(N) \cup {x}
    <2>1. ASSUME NEW y \in ItemsIn(V)
          PROVE  y \in ItemsIn(N) \cup {x}
      BY <1>2 DEF ItemsIn
    <2>2. ASSUME NEW y \in ItemsIn(N)
          PROVE  y \in ItemsIn(V)
      <3>1. PICK c \in Bucket, r \in Slot : N[c][r] = y /\ Full(N, c, r)
        BY DEF ItemsIn, Full
      <3>2. V[c][r] = y /\ y # Empty
        BY <3>1, <1>2 DEF Full
      <3> QED
        BY <3>2 DEF ItemsIn
    <2>3. x \in ItemsIn(V)
      BY <1>2, <1>3 DEF ItemsIn
    <2> QED
      BY <2>1, <2>2, <2>3
  <1> QED
    BY <1>1, <1>5, <1>6, <1>7, <1>8 DEF Good, V

(* An item for another of the same key.                                    *)
LEMMA ReplaceGood ==
  ASSUME NEW N \in Table, NEW O \in Table, NEW hp, NEW ohp, Good(N, hp, O, ohp),
         NEW b \in Bucket, NEW s \in Slot, Full(N, b, s),
         NEW x \in Item, x.key = N[b][s].key
  PROVE  /\ Good(Put(N, b, s, x), hp, O, ohp)
         /\ ItemsIn(Put(N, b, s, x)) = (ItemsIn(N) \ {N[b][s]}) \cup {x}
  <1> DEFINE V == Put(N, b, s, Empty)
  <1>1. /\ Good(V, hp, O, ohp) /\ Absent(V, x.key) /\ Absent(O, x.key)
        /\ ItemsIn(V) = ItemsIn(N) \ {N[b][s]}
    BY VacateGood
  <1>2. V \in Table /\ ~ Full(V, b, s)
    BY PutType, PutAt DEF Full
  <1>3. b \in Candidates(hp, x.key)
    BY DEF Good, Placed
  <1>4. Put(V, b, s, x) = Put(N, b, s, x)
    BY DEF Put, Table
  <1> HIDE DEF V
  <1> QED
    BY <1>1, <1>2, <1>3, <1>4, FillGood

(* Moving one to an empty place of its other bucket.                       *)
LEMMA MovedGood ==
  ASSUME NEW N \in Table, NEW O \in Table, NEW hp, NEW ohp, Good(N, hp, O, ohp),
         NEW from \in Place, NEW to \in Place,
         Full(N, from.bucket, from.slot), ~ Full(N, to.bucket, to.slot),
         to.bucket \in Candidates(hp, N[from.bucket][from.slot].key)
  PROVE  /\ Good(Moved(N, from, to), hp, O, ohp)
         /\ ItemsIn(Moved(N, from, to)) = ItemsIn(N)
         /\ ~ Full(Moved(N, from, to), from.bucket, from.slot)
  <1> DEFINE x == N[from.bucket][from.slot]
             V == Put(N, from.bucket, from.slot, Empty)
             W == Put(V, to.bucket, to.slot, x)
  <1>1. /\ from.bucket \in Bucket /\ from.slot \in Slot
        /\ to.bucket \in Bucket /\ to.slot \in Slot
    BY DEF Place
  <1>2. x \in Item /\ x \in ItemsIn(N)
    BY <1>1, FullItem DEF ItemsIn, Full
  <1>3. V \in Table /\ ~ Full(V, to.bucket, to.slot)
    BY <1>1, PutType, PutAt DEF Full
  <1>4. /\ Good(V, hp, O, ohp) /\ Absent(V, x.key) /\ Absent(O, x.key)
        /\ ItemsIn(V) = ItemsIn(N) \ {x}
    BY <1>1, VacateGood
  <1>5. Good(W, hp, O, ohp) /\ ItemsIn(W) = ItemsIn(V) \cup {x}
    <2> HIDE DEF V
    <2> QED
      BY <1>1, <1>2, <1>3, <1>4, FillGood
  <1>6. ~ (from.bucket = to.bucket /\ from.slot = to.slot)
    OBVIOUS
  <1>7. Moved(N, from, to) = W
    <2> DEFINE U == Put(N, to.bucket, to.slot, x)
               M == Put(U, from.bucket, from.slot, Empty)
    <2>1. Moved(N, from, to) = M
      BY DEF Moved, Put
    <2>2. U \in Table /\ M \in Table /\ W \in Table
      BY <1>2, <1>3, PutType
    <2>3. ASSUME NEW c \in Bucket, NEW r \in Slot
          PROVE  M[c][r] = W[c][r]
      <3>1. /\ U[c][r] = IF c = to.bucket /\ r = to.slot THEN x ELSE N[c][r]
            /\ V[c][r] = IF c = from.bucket /\ r = from.slot THEN Empty ELSE N[c][r]
        BY <1>1, PutAt
      <3> HIDE DEF U, V, x
      <3>2. /\ M[c][r] = IF c = from.bucket /\ r = from.slot THEN Empty ELSE U[c][r]
            /\ W[c][r] = IF c = to.bucket /\ r = to.slot THEN x ELSE V[c][r]
        BY <1>1, <1>3, <2>2, PutAt
      <3> QED
        BY <3>1, <3>2, <1>6
    <2> HIDE DEF M, W
    <2>4. M = W
      BY <2>2, <2>3, SameTable
    <2> QED
      BY <2>1, <2>4
  <1>8. ~ Full(W, from.bucket, from.slot)
    BY <1>1, <1>3, <1>6, PutAt DEF Full
  <1> HIDE DEF V, W
  <1> QED
    BY <1>2, <1>4, <1>5, <1>7, <1>8
-----------------------------------------------------------------------------
(* Migration.  The item in old place (c, r) goes to the place To(c, r).    *)

Rising(c) == {s \in Slot : oldBuckets[c][s] # Empty /\ GoesUp(c, oldBuckets[c][s].key)}
Rank(c, r) == Cardinality({q \in Rising(c) : q < r})
To(c, r) == IF r \in Rising(c) THEN <<c + HashSize[oldHashpower], Rank(c, r)>> ELSE <<c, r>>

LEMMA RankType ==
  ASSUME NEW c, NEW r \in Slot
  PROVE  Rank(c, r) \in Slot
  <1> DEFINE S == {q \in Rising(c) : q < r}
  <1>1. r \in Nat /\ 0 \in Int /\ r - 1 \in Int
    BY SlotIsNat
  <1>2. /\ IsFiniteSet(0 .. r - 1)
        /\ Cardinality(0 .. r - 1) = IF 0 > r - 1 THEN 0 ELSE (r - 1) - 0 + 1
    BY <1>1, FS_Interval
  <1>3. S \subseteq 0 .. r - 1
    BY SizesAssumption DEF Rising, Slot
  <1>4. Cardinality(S) \in Nat /\ Cardinality(S) <= Cardinality(0 .. r - 1)
    BY <1>2, <1>3, FS_Subset, FS_CardinalityType
  <1> HIDE DEF S
  <1>5. Cardinality(S) \in Nat /\ Cardinality(S) <= r
    BY <1>1, <1>2, <1>4
  <1> QED
    BY <1>5, SizesAssumption DEF Rank, Slot, S

LEMMA RankGrows ==
  ASSUME NEW c, NEW q \in Rising(c), NEW r \in Rising(c), q < r
  PROVE  Rank(c, q) < Rank(c, r)
  <1> DEFINE S == {p \in Rising(c) : p < q}
             R == {p \in Rising(c) : p < r}
  <1>1. Rising(c) \subseteq Slot /\ IsFiniteSet(Slot)
    BY FS_Interval, SizesAssumption DEF Rising, Slot
  <1>2. IsFiniteSet(S) /\ IsFiniteSet(R)
    BY <1>1, FS_Subset
  <1>3. q \notin S /\ S \cup {q} \subseteq R
    <2>1. \A p \in Rising(c) : p \in Int
      BY <1>1, SlotIsInt
    <2> QED
      BY <2>1
  <1> HIDE DEF S, R
  <1>4. Cardinality(S \cup {q}) = Cardinality(S) + 1
    BY <1>2, <1>3, FS_AddElement
  <1>5. Cardinality(S \cup {q}) <= Cardinality(R) /\ Cardinality(R) \in Nat
    BY <1>2, <1>3, FS_Subset, FS_CardinalityType
  <1>6. Cardinality(S) \in Nat
    BY <1>2, FS_CardinalityType
  <1>7. Cardinality(S) < Cardinality(R)
    BY <1>4, <1>5, <1>6
  <1> QED
    BY <1>7 DEF Rank, S, R

LEMMA RankOnce ==
  ASSUME NEW c, NEW q \in Rising(c), NEW r \in Rising(c), Rank(c, q) = Rank(c, r)
  PROVE  q = r
  <1>1. q \in Slot /\ r \in Slot
    BY DEF Rising
  <1>2. q \in Int /\ r \in Int /\ Rank(c, q) \in Int /\ Rank(c, r) \in Int
    BY <1>1, RankType, SlotIsInt
  <1> QED
    BY <1>2, RankGrows

LEMMA RaisedAt ==
  ASSUME NEW c
  PROVE  /\ \A r \in Rising(c) : Raised(c)[Rank(c, r)] = oldBuckets[c][r]
         /\ \A s \in Slot : Raised(c)[s] # Empty => \E r \in Rising(c) : Rank(c, r) = s
  <1>1. Raised(c) = [s \in Slot |-> IF \E r \in Rising(c) : Rank(c, r) = s
                                    THEN oldBuckets[c][CHOOSE r \in Rising(c) : Rank(c, r) = s]
                                    ELSE Empty]
    BY DEF Raised, Rising, Rank
  <1>2. ASSUME NEW r \in Rising(c)
        PROVE  Raised(c)[Rank(c, r)] = oldBuckets[c][r]
    <2> DEFINE s == Rank(c, r)
               q == CHOOSE p \in Rising(c) : Rank(c, p) = s
    <2>1. s \in Slot
      BY RankType DEF Rising
    <2>2. q \in Rising(c) /\ Rank(c, q) = s
      OBVIOUS
    <2>3. q = r
      BY <2>2, RankOnce
    <2>4. Raised(c)[s] = oldBuckets[c][q]
      BY <1>1, <2>1
    <2> QED
      BY <2>3, <2>4
  <1>3. ASSUME NEW s \in Slot, Raised(c)[s] # Empty
        PROVE  \E r \in Rising(c) : Rank(c, r) = s
    BY <1>1, <1>3
  <1> QED
    BY <1>2, <1>3

(* A doubling of the old buckets, moved under the locks U: of the two      *)
(* buckets that an old one is split into, both have their lock in U, or    *)
(* neither has.                                                            *)
Splits(hp, U) ==
  /\ oldHashpower \in 0 .. MaxHashpower - 1 /\ hp = oldHashpower + 1
  /\ \A c \in 0 .. HashSize[oldHashpower] - 1 :
       lock_ind(c + HashSize[oldHashpower]) \in U <=> lock_ind(c) \in U

LEMMA SplitSizes ==
  ASSUME oldHashpower \in 0 .. MaxHashpower - 1
  PROVE  LET n == HashSize[oldHashpower] IN
         /\ n \in Nat \ {0} /\ HashSize[oldHashpower + 1] = 2 * n
         /\ \A c \in 0 .. n - 1 : c \in Bucket /\ c + n \in Bucket
  <1> DEFINE n == HashSize[oldHashpower]
  <1>1. n \in Nat \ {0} /\ HashSize[oldHashpower + 1] = 2 * n
        /\ oldHashpower + 1 \in 0 .. MaxHashpower
    BY SizesAssumption
  <1>2. 0 .. 2 * n - 1 \subseteq Bucket
    BY <1>1, SizesGrow
  <1> HIDE DEF n
  <1>3. ASSUME NEW c \in 0 .. n - 1
        PROVE  c \in Bucket /\ c + n \in Bucket
    BY <1>1, <1>2
  <1> QED
    BY <1>1, <1>3 DEF n

(* Either every lock is in U, or there are as many old buckets as locks.   *)
LEMMA SplitsAll ==
  ASSUME oldHashpower \in 0 .. MaxHashpower - 1
  PROVE  Splits(oldHashpower + 1, AnyLockInd)
  BY SplitSizes, LockIndType DEF Splits

LEMMA SplitsMany ==
  ASSUME oldHashpower \in 0 .. MaxHashpower - 1, HashSize[oldHashpower] >= MaxNumLocks, NEW U
  PROVE  Splits(oldHashpower + 1, U)
  <1>1. oldHashpower \in 0 .. MaxHashpower
    BY SizesAssumption
  <1>2. \A c \in 0 .. HashSize[oldHashpower] - 1 : lock_ind(c + HashSize[oldHashpower]) = lock_ind(c)
    BY <1>1, SplitSizes, LocksAssumption
  <1> QED
    BY <1>2 DEF Splits

(* Where an item goes...                                                   *)
LEMMA Landing ==
  ASSUME NEW hp, NEW U, Splits(hp, U), TablesOK, NEW T \in Table,
         NEW c \in 0 .. HashSize[oldHashpower] - 1, NEW r \in Slot,
         oldBuckets[c][r] # Empty, lock_ind(c) \in U
  PROVE  /\ To(c, r)[1] \in Bucket /\ To(c, r)[2] \in Slot
         /\ lock_ind(To(c, r)[1]) \in U
         /\ Migrate(T, U)[To(c, r)[1]][To(c, r)[2]] = oldBuckets[c][r]
  <1> DEFINE n == HashSize[oldHashpower]
  <1>1. /\ n \in Nat \ {0} /\ c \in Bucket /\ c + n \in Bucket
        /\ lock_ind(c + n) \in U
    BY SplitSizes DEF Splits
  <1> HIDE DEF n
  <1>2. CASE r \in Rising(c)
    <2> DEFINE u == c + n
    <2>1. /\ u \in Bucket /\ lock_ind(u) \in U /\ ~ (u >= 2 * n) /\ ~ (u < n) /\ u - n = c
      BY <1>1 DEF n
    <2>2. To(c, r) = <<u, Rank(c, r)>>
      BY <1>2 DEF To, n
    <2> HIDE DEF u
    <2>3. Migrate(T, U)[u] = Raised(c)
      BY <2>1 DEF Migrate, n
    <2> QED
      BY <1>2, <2>1, <2>2, <2>3, RaisedAt, RankType
  <1>3. CASE r \notin Rising(c)
    <2>1. To(c, r) = <<c, r>>
      BY <1>3 DEF To
    <2>2. ~ (c >= 2 * n) /\ c < n
      BY <1>1 DEF n
    <2>3. Migrate(T, U)[c] = Staying(c)
      BY <1>1, <2>2 DEF Migrate, n
    <2>4. Staying(c)[r] = oldBuckets[c][r]
      BY <1>3 DEF Staying, Rising
    <2> QED
      BY <1>1, <2>1, <2>3, <2>4
  <1> QED
    BY <1>2, <1>3

(* ...and where one that is found came from.                               *)
LEMMA Origin ==
  ASSUME NEW hp, NEW U, Splits(hp, U), TablesOK, NEW T \in Table,
         NEW b \in Bucket, NEW s \in Slot, lock_ind(b) \in U,
         b < 2 * HashSize[oldHashpower], Full(Migrate(T, U), b, s)
  PROVE  \E c \in 0 .. HashSize[oldHashpower] - 1, r \in Slot :
           oldBuckets[c][r] # Empty /\ lock_ind(c) \in U /\ To(c, r) = <<b, s>>
  <1> DEFINE n == HashSize[oldHashpower]
  <1>1. n \in Nat \ {0} /\ b \in Nat
    BY SplitSizes, SizesAssumption DEF Bucket, Splits
  <1>2. CASE b < n
    <2>1. b \in 0 .. n - 1
      BY <1>1, <1>2
    <2>2. Migrate(T, U)[b] = Staying(b)
      BY <1>1, <1>2 DEF Migrate
    <2>3. oldBuckets[b][s] # Empty /\ s \notin Rising(b)
      BY <2>2 DEF Full, Staying, Rising
    <2>4. To(b, s) = <<b, s>>
      BY <2>3 DEF To
    <2> QED
      BY <2>1, <2>3, <2>4
  <1>3. CASE ~ (b < n)
    <2> DEFINE c == b - n
    <2>1. c \in 0 .. n - 1 /\ c + n = b /\ ~ (b >= 2 * n)
      BY <1>1, <1>3
    <2> HIDE DEF c
    <2>2. lock_ind(c) \in U
      BY <2>1 DEF Splits
    <2>3. Migrate(T, U)[b] = Raised(c)
      BY <1>3, <2>1 DEF Migrate, c
    <2>4. PICK r \in Rising(c) : Rank(c, r) = s
      BY <2>3, RaisedAt DEF Full
    <2>5. To(c, r) = <<b, s>>
      BY <2>1, <2>4 DEF To
    <2>6. r \in Slot /\ oldBuckets[c][r] # Empty
      BY DEF Rising
    <2> QED
      BY <2>1, <2>2, <2>5, <2>6
  <1> QED
    BY <1>2, <1>3

(* A key that goes up or stays is in one of its buckets of the new table.  *)
LEMMA StillCandidate ==
  ASSUME oldHashpower \in 0 .. MaxHashpower - 1, NEW k \in Keys,
         NEW c \in 0 .. HashSize[oldHashpower] - 1, c \in Candidates(oldHashpower, k)
  PROVE  (IF GoesUp(c, k) THEN c + HashSize[oldHashpower] ELSE c)
           \in Candidates(oldHashpower + 1, k)
  <1> DEFINE h  == HashOf[k]
             n  == HashSize[oldHashpower]
             oi == IndexHash(oldHashpower, h)
             oa == AltIndex(oldHashpower, h, oi)
             ni == IndexHash(oldHashpower + 1, h)
             na == AltIndex(oldHashpower + 1, h, ni)
  <1>1. oldHashpower \in 0 .. MaxHashpower - 1 /\ oldHashpower \in 0 .. MaxHashpower
    BY SizesAssumption
  <1>2. h \in Hashes
    BY HashTypes
  <1>3. oi \in 0 .. n - 1 /\ ni \in {oi, oi + n}
    BY <1>1, <1>2, HashAssumption
  <1>4. na \in {oa, oa + n}
    BY <1>1, <1>2, <1>3, HashAssumption
  <1>5. Candidates(oldHashpower, k) = {oi, oa} /\ Candidates(oldHashpower + 1, k) = {ni, na}
    BY DEF Candidates
  <1>6. GoesUp(c, k) <=> (c = oi /\ ni = c + n) \/ (c = oa /\ na = c + n)
    BY DEF GoesUp
  <1> HIDE DEF h, n, oi, oa, ni, na
  <1>7. (IF GoesUp(c, k) THEN c + n ELSE c) \in Candidates(oldHashpower + 1, k)
    BY <1>3, <1>4, <1>5, <1>6
  <1> QED
    BY <1>7 DEF n
-----------------------------------------------------------------------------
(* The two parts of the table, and the old one once the buckets under the  *)
(* locks U are moved, or the locks L rehashed.                             *)
NewPart == IF Installing THEN NoBuckets ELSE buckets

OldPart == [b \in Bucket |->
  IF b < HashSize[oldHashpower] /\ (Installing \/ ~ migrated[lock_ind(b)])
  THEN oldBuckets[b] ELSE NoItems]

Left(U) == [b \in Bucket |-> IF lock_ind(b) \in U THEN NoItems ELSE OldPart[b]]
Rest(L) == Left(Unmigrated(L))

Stored == ItemsIn(NewPart) \cup ItemsIn(OldPart)

(* Nothing is in the buckets that wait for items of the old ones.          *)
Waiting == \A b \in Bucket : ~ migrated[lock_ind(b)] => buckets[b] = NoItems

LEMMA PartTypes ==
  ASSUME TablesOK, NEW L
  PROVE  NewPart \in Table /\ OldPart \in Table /\ Left(L) \in Table /\ Rest(L) \in Table
  <1>1. NoItems \in [Slot -> Item \cup {Empty}]
    BY DEF NoItems
  <1>2. NewPart \in Table /\ OldPart \in Table
    BY <1>1, NoBucketsType DEF TablesOK, NewPart, OldPart, Table
  <1>3. \A U : Left(U) \in Table
    BY <1>1, <1>2 DEF Left, Table
  <1> QED
    BY <1>2, <1>3 DEF Rest

LEMMA NothingThere ==
  ASSUME NEW b \in Bucket, NEW s \in Slot
  PROVE  NoItems[s] = Empty /\ NoBuckets[b] = NoItems /\ ~ Full(NoBuckets, b, s)
  BY DEF NoItems, NoBuckets, Full

(* The places of move_bucket: nothing is lost, and nothing appears.        *)
LEMMA MigratePlaces ==
  ASSUME TablesOK, NEW T \in Table, NEW hp, NEW U \in SUBSET AnyLockInd,
         U = {} \/ Splits(hp, U), Installing \/ \A l \in U : ~ migrated[l],
         \A b \in Bucket : lock_ind(b) \in U => T[b] = NoItems,
         Placed(OldPart, oldHashpower)
  PROVE  /\ \A b \in Bucket, s \in Slot : Full(Migrate(T, U), b, s) =>
              \/ Full(T, b, s) /\ Migrate(T, U)[b][s] = T[b][s]
              \/ /\ b \in Candidates(hp, Migrate(T, U)[b][s].key)
                 /\ \E c \in Bucket, r \in Slot :
                      /\ Full(OldPart, c, r) /\ lock_ind(c) \in U
                      /\ To(c, r) = <<b, s>> /\ Migrate(T, U)[b][s] = OldPart[c][r]
         /\ \A b \in Bucket, s \in Slot : Full(Left(U), b, s) =>
              /\ lock_ind(b) \notin U
              /\ Full(OldPart, b, s) /\ Left(U)[b][s] = OldPart[b][s]
         /\ \A b \in Bucket, s \in Slot : Full(T, b, s) =>
              Migrate(T, U)[b][s] = T[b][s]
         /\ \A c \in Bucket, r \in Slot : Full(OldPart, c, r) =>
              \/ Left(U)[c][r] = OldPart[c][r]
              \/ \E b \in Bucket, s \in Slot : Migrate(T, U)[b][s] = OldPart[c][r]
         /\ \A b \in Bucket : lock_ind(b) \notin U => Migrate(T, U)[b] = T[b]
  <1> DEFINE N == Migrate(T, U)
             n == HashSize[oldHashpower]
  <1>1. ASSUME NEW b \in Bucket, lock_ind(b) \notin U \/ b >= 2 * n
        PROVE  N[b] = T[b]
    BY <1>1 DEF Migrate
  <1>2. ASSUME NEW c \in Bucket, NEW r \in Slot, Full(OldPart, c, r)
        PROVE  c \in 0 .. n - 1 /\ oldBuckets[c][r] = OldPart[c][r] /\ oldBuckets[c][r] # Empty
    <2>1. n \in Nat /\ c \in Nat
      BY SizesAssumption DEF TablesOK, Bucket
    <2>2. c < n /\ OldPart[c] = oldBuckets[c]
      BY <1>2, NothingThere DEF Full, OldPart
    <2> QED
      BY <2>1, <2>2, <1>2 DEF Full
  <1>3. ASSUME NEW c \in 0 .. n - 1, NEW r \in Slot, c \in Bucket, lock_ind(c) \in U
        PROVE  OldPart[c] = oldBuckets[c]
    BY <1>3, SizesAssumption DEF OldPart, TablesOK
  <1>4. ASSUME NEW b \in Bucket, NEW s \in Slot, Full(N, b, s)
        PROVE  \/ Full(T, b, s) /\ N[b][s] = T[b][s]
               \/ /\ b \in Candidates(hp, N[b][s].key)
                  /\ \E c \in Bucket, r \in Slot :
                       /\ Full(OldPart, c, r) /\ lock_ind(c) \in U
                       /\ To(c, r) = <<b, s>> /\ N[b][s] = OldPart[c][r]
    <2>1. CASE lock_ind(b) \notin U \/ b >= 2 * n
      <3>1. N[b] = T[b]
        BY <1>1, <2>1
      <3> QED
        BY <3>1, <1>4 DEF Full
    <2>2. CASE lock_ind(b) \in U /\ ~ (b >= 2 * n)
      <3>1. /\ Splits(hp, U) /\ oldHashpower \in 0 .. MaxHashpower - 1 /\ hp = oldHashpower + 1
            /\ n \in Nat /\ b \in Nat /\ b < 2 * n
        BY <2>2, SizesAssumption, SplitSizes DEF Bucket, Splits
      <3>2. PICK c \in 0 .. n - 1, r \in Slot :
              oldBuckets[c][r] # Empty /\ lock_ind(c) \in U /\ To(c, r) = <<b, s>>
        BY <3>1, <2>2, <1>4, Origin
      <3>3. c \in Bucket
        BY <3>1, SplitSizes
      <3>4. N[b][s] = oldBuckets[c][r]
        <4>1. N[To(c, r)[1]][To(c, r)[2]] = oldBuckets[c][r]
          BY <3>1, <3>2, Landing
        <4> QED
          BY <3>2, <4>1
      <3>5. OldPart[c] = oldBuckets[c]
        BY <3>2, <3>3, <1>3
      <3>6. c \in Candidates(oldHashpower, OldPart[c][r].key) /\ OldPart[c][r].key \in Keys
        BY <3>2, <3>3, <3>5, PartTypes, FullItem DEF Placed, Full
      <3>7. b = IF GoesUp(c, OldPart[c][r].key) THEN c + n ELSE c
        BY <3>2, <3>5 DEF To, Rising
      <3>8. b \in Candidates(hp, OldPart[c][r].key)
        BY <3>1, <3>6, <3>7, StillCandidate
      <3>9. Full(OldPart, c, r) /\ N[b][s] = OldPart[c][r]
        BY <3>2, <3>4, <3>5 DEF Full
      <3> QED
        BY <3>2, <3>3, <3>8, <3>9
    <2> QED
      BY <2>1, <2>2
  <1>5. ASSUME NEW b \in Bucket, NEW s \in Slot, Full(Left(U), b, s)
        PROVE  lock_ind(b) \notin U /\ Full(OldPart, b, s) /\ Left(U)[b][s] = OldPart[b][s]
    BY <1>5, NothingThere DEF Full, Left
  <1>6. ASSUME NEW b \in Bucket, NEW s \in Slot, Full(T, b, s)
        PROVE  N[b][s] = T[b][s]
    <2>1. lock_ind(b) \notin U
      BY <1>6, NothingThere DEF Full
    <2> QED
      BY <2>1, <1>1
  <1>7. ASSUME NEW c \in Bucket, NEW r \in Slot, Full(OldPart, c, r)
        PROVE  \/ Left(U)[c][r] = OldPart[c][r]
               \/ \E b \in Bucket, s \in Slot : N[b][s] = OldPart[c][r]
    <2>1. CASE lock_ind(c) \notin U
      BY <2>1 DEF Left
    <2>2. CASE lock_ind(c) \in U
      <3>1. Splits(hp, U) /\ c \in 0 .. n - 1 /\ oldBuckets[c][r] = OldPart[c][r]
            /\ oldBuckets[c][r] # Empty
        BY <2>2, <1>2, <1>7
      <3>2. /\ To(c, r)[1] \in Bucket /\ To(c, r)[2] \in Slot
            /\ N[To(c, r)[1]][To(c, r)[2]] = oldBuckets[c][r]
        BY <3>1, <2>2, Landing
      <3> QED
        BY <3>1, <3>2
    <2> QED
      BY <2>1, <2>2
  <1> QED
    BY <1>1, <1>4, <1>5, <1>6, <1>7

LEMMA MigrateGood ==
  ASSUME TablesOK, NEW T \in Table, NEW hp, NEW U \in SUBSET AnyLockInd,
         U = {} \/ Splits(hp, U), Installing \/ \A l \in U : ~ migrated[l],
         \A b \in Bucket : lock_ind(b) \in U => T[b] = NoItems,
         Good(T, hp, OldPart, oldHashpower)
  PROVE  /\ Good(Migrate(T, U), hp, Left(U), oldHashpower)
         /\ ItemsIn(Migrate(T, U)) \cup ItemsIn(Left(U)) = ItemsIn(T) \cup ItemsIn(OldPart)
         /\ \A b \in Bucket : lock_ind(b) \notin U => Migrate(T, U)[b] = T[b]
  <1> DEFINE N == Migrate(T, U)
             R == Left(U)
  <1>1. /\ Placed(T, hp) /\ Once(T)
        /\ Placed(OldPart, oldHashpower) /\ Once(OldPart) /\ Apart(T, OldPart)
    BY DEF Good
  <1>2. \A b \in Bucket, s \in Slot : Full(N, b, s) =>
          \/ Full(T, b, s) /\ N[b][s] = T[b][s]
          \/ /\ b \in Candidates(hp, N[b][s].key)
             /\ \E c \in Bucket, r \in Slot :
                  /\ Full(OldPart, c, r) /\ lock_ind(c) \in U
                  /\ To(c, r) = <<b, s>> /\ N[b][s] = OldPart[c][r]
    BY <1>1, MigratePlaces
  <1>3. \A b \in Bucket, s \in Slot : Full(R, b, s) =>
          lock_ind(b) \notin U /\ Full(OldPart, b, s) /\ R[b][s] = OldPart[b][s]
    BY NothingThere DEF Full, Left
  <1>4. /\ \A b \in Bucket, s \in Slot : Full(T, b, s) => N[b][s] = T[b][s]
        /\ \A c \in Bucket, r \in Slot : Full(OldPart, c, r) =>
             \/ R[c][r] = OldPart[c][r]
             \/ \E b \in Bucket, s \in Slot : N[b][s] = OldPart[c][r]
        /\ \A b \in Bucket : lock_ind(b) \notin U => N[b] = T[b]
    BY <1>1, MigratePlaces
  <1> HIDE DEF N, R
  <1>5. Placed(N, hp)
    BY <1>1, <1>2 DEF Placed
  <1>6. Once(N)
    <2> SUFFICES ASSUME NEW b \in Bucket, NEW s \in Slot, NEW c \in Bucket, NEW r \in Slot,
                        Full(N, b, s), Full(N, c, r), N[b][s].key = N[c][r].key
                 PROVE  b = c /\ s = r
      BY DEF Once
    <2>1. CASE Full(T, b, s) /\ N[b][s] = T[b][s]
      <3>1. ~ \E d \in Bucket, q \in Slot : Full(OldPart, d, q) /\ N[c][r] = OldPart[d][q]
        BY <2>1, <1>1 DEF Apart
      <3>2. Full(T, c, r) /\ N[c][r] = T[c][r]
        BY <3>1, <1>2
      <3> QED
        BY <2>1, <3>2, <1>1 DEF Once
    <2>2. CASE Full(T, c, r) /\ N[c][r] = T[c][r]
      <3>1. ~ \E d \in Bucket, q \in Slot : Full(OldPart, d, q) /\ N[b][s] = OldPart[d][q]
        BY <2>2, <1>1 DEF Apart
      <3>2. Full(T, b, s) /\ N[b][s] = T[b][s]
        BY <3>1, <1>2
      <3> QED
        BY <2>2, <3>2, <1>1 DEF Once
    <2>3. CASE /\ ~ (Full(T, b, s) /\ N[b][s] = T[b][s])
               /\ ~ (Full(T, c, r) /\ N[c][r] = T[c][r])
      <3>1. PICK d \in Bucket, q \in Slot :
              Full(OldPart, d, q) /\ To(d, q) = <<b, s>> /\ N[b][s] = OldPart[d][q]
        BY <2>3, <1>2
      <3>2. PICK e \in Bucket, p \in Slot :
              Full(OldPart, e, p) /\ To(e, p) = <<c, r>> /\ N[c][r] = OldPart[e][p]
        BY <2>3, <1>2
      <3>3. d = e /\ q = p
        BY <3>1, <3>2, <1>1 DEF Once
      <3>4. <<b, s>> = <<c, r>>
        BY <3>1, <3>2, <3>3
      <3> QED
        BY <3>4
    <2> QED
      BY <2>1, <2>2, <2>3
  <1>7. Placed(R, oldHashpower)
    BY <1>1, <1>3 DEF Placed
  <1>8. Once(R)
    BY <1>1, <1>3 DEF Once
  <1>9. Apart(N, R)
    <2> SUFFICES ASSUME NEW b \in Bucket, NEW s \in Slot, NEW c \in Bucket, NEW r \in Slot,
                        Full(N, b, s), Full(R, c, r), N[b][s].key = R[c][r].key
                 PROVE  FALSE
      BY DEF Apart
    <2>1. lock_ind(c) \notin U /\ Full(OldPart, c, r) /\ R[c][r] = OldPart[c][r]
      BY <1>3
    <2>2. ~ (Full(T, b, s) /\ N[b][s] = T[b][s])
      BY <2>1, <1>1 DEF Apart
    <2>3. PICK d \in Bucket, q \in Slot :
            Full(OldPart, d, q) /\ lock_ind(d) \in U /\ N[b][s] = OldPart[d][q]
      BY <2>2, <1>2
    <2>4. d = c
      BY <2>1, <2>3, <1>1 DEF Once
    <2> QED
      BY <2>1, <2>3, <2>4
  <1>10. ItemsIn(N) \cup ItemsIn(R) = ItemsIn(T) \cup ItemsIn(OldPart)
    <2>1. ASSUME NEW x \in ItemsIn(N)
          PROVE  x \in ItemsIn(T) \cup ItemsIn(OldPart)
      <3>1. PICK b \in Bucket, s \in Slot : N[b][s] = x /\ Full(N, b, s)
        BY DEF ItemsIn, Full
      <3> QED
        BY <3>1, <1>2 DEF ItemsIn, Full
    <2>2. ASSUME NEW x \in ItemsIn(R)
          PROVE  x \in ItemsIn(OldPart)
      <3>1. PICK b \in Bucket, s \in Slot : R[b][s] = x /\ Full(R, b, s)
        BY DEF ItemsIn, Full
      <3> QED
        BY <3>1, <1>3 DEF ItemsIn, Full
    <2>3. ASSUME NEW x \in ItemsIn(T)
          PROVE  x \in ItemsIn(N)
      <3>1. PICK b \in Bucket, s \in Slot : T[b][s] = x /\ Full(T, b, s)
        BY DEF ItemsIn, Full
      <3> QED
        BY <3>1, <1>4 DEF ItemsIn, Full
    <2>4. ASSUME NEW x \in ItemsIn(OldPart)
          PROVE  x \in ItemsIn(N) \cup ItemsIn(R)
      <3>1. PICK b \in Bucket, s \in Slot : OldPart[b][s] = x /\ Full(OldPart, b, s)
        BY DEF ItemsIn, Full
      <3> QED
        BY <3>1, <1>4 DEF ItemsIn, Full
    <2> QED
      BY <2>1, <2>2, <2>3, <2>4
  <1> QED
    BY <1>4, <1>5, <1>6, <1>7, <1>8, <1>9, <1>10 DEF Good, N, R

(* The locks U are those of L that are not migrated yet.                   *)
LEMMA RehashGood ==
  ASSUME TablesOK, ~ Installing, NEW L \in SUBSET AnyLockInd,
         Unmigrated(L) = {} \/ Splits(hashpower, Unmigrated(L)), Waiting,
         Good(buckets, hashpower, OldPart, oldHashpower)
  PROVE  /\ Good(Rehashed(L), hashpower, Rest(L), oldHashpower)
         /\ ItemsIn(Rehashed(L)) \cup ItemsIn(Rest(L)) = ItemsIn(buckets) \cup ItemsIn(OldPart)
         /\ \A b \in Bucket : ~ migrated[lock_ind(b)] /\ lock_ind(b) \notin L
              => Rehashed(L)[b] = NoItems
  <1> DEFINE U == Unmigrated(L)
  <1>1. U \in SUBSET AnyLockInd /\ \A l \in U : ~ migrated[l] /\ l \in L
    BY DEF Unmigrated
  <1>2. buckets \in Table /\ \A b \in Bucket : lock_ind(b) \in U => buckets[b] = NoItems
    BY <1>1 DEF TablesOK, Waiting
  <1> HIDE DEF U
  <1>3. /\ Good(Migrate(buckets, U), hashpower, Left(U), oldHashpower)
        /\ ItemsIn(Migrate(buckets, U)) \cup ItemsIn(Left(U)) = ItemsIn(buckets) \cup ItemsIn(OldPart)
        /\ \A b \in Bucket : lock_ind(b) \notin U => Migrate(buckets, U)[b] = buckets[b]
    BY <1>1, <1>2, MigrateGood DEF U
  <1> QED
    BY <1>1, <1>3 DEF Rehashed, Rest, Waiting, U
-----------------------------------------------------------------------------
(* The course of a doubling and of the migration after it.                 *)

Pending == {l \in AnyLockInd : ~ migrated[l]}

(* What lasts of a lazy doubling: a table that has as many buckets and as  *)
(* many locks as it can have.                                              *)
Doubled ==
  /\ oldHashpower \in InitHashpower .. MaxHashpower - 1
  /\ hashpower = oldHashpower + 1
  /\ HashSize[oldHashpower] >= MaxNumLocks /\ NumLocks(curLocks) = MaxNumLocks

Shape ==
  /\ Installing \/ hashpower >= InitHashpower
  /\ \A t \in Threads : pc[t] = "install" =>
       oldHashpower = frame[t].hp /\ oldHashpower >= InitHashpower
  /\ (\E t \in Threads : pc[t] \in {"swap", "install"}) => Pending = {}
  /\ Pending # {} => Doubled
  /\ Waiting
  /\ remaining = Cardinality(Pending)

Filled == Good(NewPart, hashpower, OldPart, oldHashpower)

DataInv == LockInv /\ Shape /\ Filled

LEMMA NobodyInstalling ==
  /\ NobodyResizing => ~ Installing
  /\ NobodyResizing' => ~ Installing'
  BY DEF NobodyResizing, Resizes, Installing

LEMMA DoubledSplits ==
  ASSUME Doubled, NEW U
  PROVE  Splits(hashpower, U)
  BY SplitsMany, SizesAssumption DEF Doubled

LEMMA PendingType ==
  ASSUME NEW L
  PROVE  /\ IsFiniteSet(Pending) /\ Cardinality(Pending) \in Nat
         /\ IsFiniteSet(Unmigrated(L) \cap AnyLockInd)
         /\ L \subseteq AnyLockInd => Unmigrated(L) \subseteq Pending
  <1>1. IsFiniteSet(AnyLockInd)
    BY FS_Interval, SizesAssumption DEF AnyLockInd
  <1>2. Pending \in SUBSET AnyLockInd /\ Unmigrated(L) \cap AnyLockInd \in SUBSET AnyLockInd
    BY DEF Pending
  <1> QED
    BY <1>1, <1>2, FS_Subset, FS_CardinalityType DEF Unmigrated, Pending

LEMMA FlagsPending ==
  ASSUME TablesOK, NEW L \in SUBSET AnyLockInd, RehashFlags(L)
  PROVE  /\ Pending' = Pending \ Unmigrated(L)
         /\ Cardinality(Pending)' = Cardinality(Pending) - Cardinality(Unmigrated(L))
  <1>1. migrated' = [l \in AnyLockInd |-> migrated[l] \/ l \in Unmigrated(L)]
    BY DEF RehashFlags
  <1>2. Pending' = Pending \ Unmigrated(L)
    BY <1>1 DEF Pending
  <1>3. /\ IsFiniteSet(Pending) /\ Pending \cap Unmigrated(L) = Unmigrated(L)
    BY PendingType
  <1>4. Cardinality(Pending \ Unmigrated(L)) =
          Cardinality(Pending) - Cardinality(Pending \cap Unmigrated(L))
    BY <1>3, FS_Difference
  <1> QED
    BY <1>2, <1>3, <1>4

(* The old part is what rehash_lock leaves, the old buckets freed or not.  *)
LEMMA FlagsOldPart ==
  ASSUME TablesOK, remaining = Cardinality(Pending),
         NEW L \in SUBSET AnyLockInd, RehashFlags(L), ~ Installing, ~ Installing'
  PROVE  OldPart' = Rest(L)
  <1>1. /\ migrated' = [l \in AnyLockInd |-> migrated[l] \/ l \in Unmigrated(L)]
        /\ oldHashpower' = oldHashpower
        /\ \/ oldBuckets' = oldBuckets
           \/ oldBuckets' = NoBuckets /\ remaining = Cardinality(Unmigrated(L))
    BY DEF RehashFlags
  <1>2. \A b \in Bucket : lock_ind(b) \in AnyLockInd
    BY LockIndType
  <1>3. ASSUME NEW b \in Bucket
        PROVE  (IF b < HashSize[oldHashpower'] /\ ~ migrated'[lock_ind(b)]
                THEN oldBuckets'[b] ELSE NoItems)
               = IF lock_ind(b) \in Unmigrated(L) THEN NoItems
                 ELSE IF b < HashSize[oldHashpower] /\ ~ migrated[lock_ind(b)]
                 THEN oldBuckets[b] ELSE NoItems
    <2>1. CASE oldBuckets' = oldBuckets
      BY <1>1, <1>2, <2>1
    <2>2. CASE oldBuckets' = NoBuckets /\ remaining = Cardinality(Unmigrated(L))
      <3>1. Unmigrated(L) = Pending
        BY <2>2, PendingType, FS_Subset
      <3>2. ~ migrated[lock_ind(b)] => lock_ind(b) \in Unmigrated(L)
        BY <1>2, <3>1 DEF Pending
      <3> QED
        BY <1>2, <2>2, <3>2 DEF NoBuckets
    <2> QED
      BY <1>1, <2>1, <2>2
  <1>4. OldPart' = [b \in Bucket |->
          IF b < HashSize[oldHashpower'] /\ ~ migrated'[lock_ind(b)]
          THEN oldBuckets'[b] ELSE NoItems]
    BY DEF OldPart
  <1>5. Rest(L) = [b \in Bucket |->
          IF lock_ind(b) \in Unmigrated(L) THEN NoItems
          ELSE IF b < HashSize[oldHashpower] /\ ~ migrated[lock_ind(b)]
          THEN oldBuckets[b] ELSE NoItems]
    BY DEF Rest, Left, OldPart
  <1> QED
    BY <1>3, <1>4, <1>5

(* The conditions under which a thread at its buckets finds the table.     *)
LEMMA RehashStart ==
  ASSUME DataInv, ~ Installing, NEW L \in SUBSET AnyLockInd
  PROVE  /\ Rehashed(L) \in Table /\ Rest(L) \in Table
         /\ Good(Rehashed(L), hashpower, Rest(L), oldHashpower)
         /\ ItemsIn(Rehashed(L)) \cup ItemsIn(Rest(L)) = Stored
         /\ \A b \in Bucket : ~ migrated[lock_ind(b)] /\ lock_ind(b) \notin L
              => Rehashed(L)[b] = NoItems
  <1>1. TablesOK
    BY LockInvParts DEF DataInv
  <1>2. NewPart = buckets
    BY DEF NewPart
  <1>3. Unmigrated(L) = {} \/ Splits(hashpower, Unmigrated(L))
    BY DoubledSplits DEF DataInv, Shape, Pending, Unmigrated
  <1>4. Good(buckets, hashpower, OldPart, oldHashpower) /\ Waiting
    BY <1>2 DEF DataInv, Filled, Shape
  <1>5. Rehashed(L) \in Table /\ Rest(L) \in Table
    BY <1>1, RehashTypes, PartTypes
  <1> QED
    BY <1>1, <1>2, <1>3, <1>4, <1>5, RehashGood DEF Stored

LEMMA RehashEnd ==
  ASSUME DataInv, NobodyResizing, NobodyResizing',
         curLocks' = curLocks, NEW L \in SUBSET AnyLockInd, RehashFlags(L),
         \A b \in Bucket : lock_ind(b) \notin L => buckets'[b] = Rehashed(L)[b],
         Good(buckets', hashpower, Rest(L), oldHashpower)
  PROVE  /\ Shape' /\ Filled'
         /\ Stored' = ItemsIn(buckets') \cup ItemsIn(Rest(L))
  <1>1. TablesOK /\ Shape
    BY LockInvParts DEF DataInv
  <1>2. ~ Installing /\ ~ Installing' /\ remaining = Cardinality(Pending)
    BY <1>1, NobodyInstalling DEF Shape
  <1>3. hashpower' = hashpower /\ oldHashpower' = oldHashpower
    BY DEF RehashFlags
  <1>4. OldPart' = Rest(L)
    BY <1>1, <1>2, FlagsOldPart
  <1>5. NewPart' = buckets'
    BY <1>2 DEF NewPart
  <1>6. Filled'
    BY <1>3, <1>4, <1>5 DEF Filled
  <1>7. Pending' = Pending \ Unmigrated(L)
        /\ Cardinality(Pending)' = Cardinality(Pending) - Cardinality(Unmigrated(L))
    BY <1>1, FlagsPending
  <1>8. remaining' = Cardinality(Pending)'
    BY <1>2, <1>7 DEF RehashFlags
  <1>9. Pending' # {} => Doubled'
    BY <1>1, <1>3, <1>7 DEF Shape, Doubled, NumLocks
  <1>10. Waiting'
    <2>1. ASSUME NEW b \in Bucket, ~ migrated'[lock_ind(b)]
          PROVE  buckets'[b] = NoItems
      <3>1. lock_ind(b) \in Pending /\ lock_ind(b) \notin Unmigrated(L)
        BY <2>1, <1>7, LockIndType DEF Pending
      <3>2. ~ migrated[lock_ind(b)] /\ lock_ind(b) \notin L
        BY <3>1 DEF Pending, Unmigrated
      <3> QED
        BY <3>2, <1>2, RehashStart
    <2> QED
      BY <2>1 DEF Waiting
  <1>11. Shape'
    BY <1>1, <1>2, <1>3, <1>8, <1>9, <1>10 DEF Shape, NobodyResizing, Resizes
  <1> QED
    BY <1>4, <1>5, <1>6, <1>11 DEF Stored

(* A step that leaves the table alone.                                     *)
LEMMA QuietData ==
  ASSUME DataInv, NEW t \in Threads,
         \A u \in Threads \ {t} : pc'[u] = pc[u] /\ frame'[u] = frame[u],
         UNCHANGED tableVars, curLocks' = curLocks,
         pc[t] \notin {"swap", "install"}, pc'[t] \notin {"swap", "install"}
  PROVE  Shape' /\ Filled' /\ Stored' = Stored
  <1>1. UNCHANGED <<buckets, hashpower, oldBuckets, oldHashpower, migrated, remaining>>
    BY DEF tableVars
  <1>2. Installing' <=> Installing
    BY DEF Installing
  <1>3. NewPart' = NewPart /\ OldPart' = OldPart
    BY <1>1, <1>2 DEF NewPart, OldPart
  <1>4. Filled' /\ Stored' = Stored
    BY <1>1, <1>3 DEF Filled, Stored, DataInv
  <1>5. Pending' = Pending /\ Doubled' = Doubled /\ Waiting' = Waiting
    BY <1>1 DEF Pending, Doubled, NumLocks, Waiting
  <1>6. Shape'
    BY <1>1, <1>2, <1>5 DEF Shape, DataInv
  <1> QED
    BY <1>4, <1>6
-----------------------------------------------------------------------------
(* What a step of t does to the items S of the table, S2 after it.         *)

Has(S, k) == \E x \in S : x.key = k

Answers(t, tag, val) ==
  /\ op'  = [op EXCEPT ![t] = NoOp]
  /\ ans' = [ans EXCEPT ![t] = [tag |-> tag, val |-> val]]

Finds(t, S, S2) ==
  /\ op[t].kind = "find" /\ S2 = S
  /\ \/ \E x \in S : x.key = op[t].key /\ Answers(t, "found", x.val)
     \/ ~ Has(S, op[t].key) /\ Answers(t, "absent", Missing)

Erases(t, S, S2) ==
  /\ op[t].kind = "erase"
  /\ \/ \E x \in S : x.key = op[t].key /\ S2 = S \ {x} /\ Answers(t, "erased", Missing)
     \/ ~ Has(S, op[t].key) /\ S2 = S /\ Answers(t, "absent", Missing)

(* An insert that finds its key, with the value it leaves; or does not.    *)
Upserts(t, S, S2) ==
  LET Mine(v) == [key |-> op[t].key, val |-> v] IN
  /\ op[t].kind \in {"assign", "accum"}
  /\ \/ \E x \in S :
          /\ x.key = op[t].key /\ Answers(t, "duplicate", Missing)
          /\ \/ op[t].kind = "assign" /\ S2 = (S \ {x}) \cup {Mine(op[t].val)}
             \/ /\ op[t].kind = "accum" /\ op[t].exist
                /\ S2 = (S \ {x}) \cup {Mine(Add(x.val, op[t].val))}
             \/ op[t].kind = "accum" /\ ~ op[t].exist /\ S2 = S
     \/ /\ ~ Has(S, op[t].key) /\ Answers(t, "new", Missing)
        /\ \/ op[t].kind = "accum" /\ op[t].exist /\ S2 = S
           \/ ~ (op[t].kind = "accum" /\ op[t].exist) /\ S2 = S \cup {Mine(op[t].val)}

Idles(t, S, S2) == S2 = S /\ op' = op /\ ans' = ans

(* A thread with its locks: nobody resizes, its buckets are those of its   *)
(* key, and nothing of its key is left in the old ones.                    *)
LEMMA AtItsBuckets ==
  ASSUME DataInv, NEW t \in Threads, pc[t] = "body"
  PROVE  /\ NobodyResizing /\ ~ Installing
         /\ op[t] \in KeyOp /\ op[t] # NoOp /\ Candidates(hashpower, op[t].key) = {i1(t), i2(t)}
         /\ i1(t) \in Bucket /\ i2(t) \in Bucket /\ frame[t].hp = hashpower
         /\ Need(t) \in SUBSET AnyLockInd
  <1>1. TablesOK /\ ThreadsOK /\ LockInv /\ Works(t) /\ TypeOK
    BY LockInvParts DEF DataInv
  <1>2. AtWork(t)
    BY DEF AtWork
  <1>3. /\ NobodyResizing /\ frame[t].hp = hashpower /\ frame[t].gen = curLocks
        /\ Need(t) \subseteq LockInd(curLocks)
    BY <1>1, <1>2, WorkInRange
  <1>4. ~ Installing
    BY <1>3, NobodyInstalling
  <1>5. op[t] \in KeyOp /\ frame[t].want = {} /\ op[t] # NoOp
    BY <1>1, ThreadHere, ValuesAssumption DEF Fits
  <1>6. Candidates(hashpower, op[t].key) = {i1(t), i2(t)}
    BY <1>3 DEF Candidates, i1, i2
  <1>7. Need(t) \in SUBSET AnyLockInd
    BY <1>1, NeedTypes
  <1> QED
    BY <1>1, <1>3, <1>4, <1>5, <1>6, <1>7, OwnBuckets

LEMMA NothingLeftBehind ==
  ASSUME DataInv, ~ Installing, NEW k \in Keys,
         NEW L, \A b \in Candidates(hashpower, k) : lock_ind(b) \in L
  PROVE  Absent(Rest(L), k)
  <1> SUFFICES ASSUME NEW c \in Bucket, NEW r \in Slot, Full(Rest(L), c, r),
                      Rest(L)[c][r].key = k
               PROVE  FALSE
    BY DEF Absent
  <1> DEFINE n == HashSize[oldHashpower]
  <1>1. TablesOK
    BY LockInvParts DEF DataInv
  <1>2. lock_ind(c) \notin Unmigrated(L) /\ Rest(L)[c] = OldPart[c] /\ Full(OldPart, c, r)
    BY NothingThere DEF Rest, Left, Full
  <1>3. c < n /\ ~ migrated[lock_ind(c)]
    BY <1>2, NothingThere DEF OldPart, Full
  <1>4. Doubled
    <2>1. lock_ind(c) \in Pending
      BY <1>3, LockIndType DEF Pending
    <2> QED
      BY <2>1 DEF DataInv, Shape
  <1>5. c \in 0 .. n - 1
    BY <1>3, <1>4, SplitSizes, SizesAssumption DEF Bucket, Doubled
  <1>6. c \in Candidates(oldHashpower, k)
    BY <1>2 DEF DataInv, Filled, Good, Placed
  <1>7. (IF GoesUp(c, k) THEN c + n ELSE c) \in Candidates(hashpower, k)
    BY <1>4, <1>5, <1>6, StillCandidate, SizesAssumption DEF Doubled
  <1>8. lock_ind(c + n) \in L <=> lock_ind(c) \in L
    BY <1>4, <1>5, DoubledSplits DEF Splits
  <1>9. lock_ind(c) \in L
    BY <1>7, <1>8
  <1> QED
    BY <1>2, <1>3, <1>9 DEF Unmigrated

(* A key that is in neither of its buckets is not in the table.            *)
LEMMA NotInItsBuckets ==
  ASSUME NEW T, NEW t, Placed(T, hashpower),
         Candidates(hashpower, op[t].key) = {i1(t), i2(t)}, ~ HasKey(T, t)
  PROVE  Absent(T, op[t].key)
  BY DEF Absent, Placed, HasKey, SlotsOf, Full

LEMMA AbsentItems ==
  ASSUME NEW T, NEW k, Absent(T, k)
  PROVE  ~ Has(ItemsIn(T), k)
  BY DEF Absent, Full, Has, ItemsIn

LEMMA UpsertData ==
  ASSUME ThreadsOK, NEW t \in Threads, op[t] \in KeyOp, op[t].kind \in {"assign", "accum"},
         NEW T \in Table, NEW R \in Table, Good(T, hashpower, R, oldHashpower),
         Candidates(hashpower, op[t].key) = {i1(t), i2(t)}, Absent(R, op[t].key),
         NEW p, ~ HasKey(T, t) => /\ p[1] \in {i1(t), i2(t)} /\ p[2] \in Slot
                                  /\ ~ Full(T, p[1], p[2]),
         Upsert(t, T, p)
  PROVE  /\ Good(buckets', hashpower, R, oldHashpower)
         /\ \A b \in Bucket : b \notin {i1(t), i2(t)} => buckets'[b] = T[b]
         /\ Upserts(t, ItemsIn(T) \cup ItemsIn(R), ItemsIn(buckets') \cup ItemsIn(R))
  <1> DEFINE k == op[t].key
             S == ItemsIn(T) \cup ItemsIn(R)
             Mine(v) == [key |-> k, val |-> v]
  <1>1. k \in Keys /\ op[t].val \in Values /\ op[t].exist \in BOOLEAN
        /\ i1(t) \in Bucket /\ i2(t) \in Bucket
    BY OwnBuckets DEF KeyOp
  <1>2. ~ Has(ItemsIn(R), k)
    BY AbsentItems
  <1>3. CASE HasKey(T, t)
    <2> DEFINE q == KeyPlace(T, t)
               x == T[q[1]][q[2]]
    <2>1. q[1] \in Bucket /\ q[2] \in Slot /\ x \in Item /\ x.key = k
      BY <1>3, KeyPlaceType
    <2>2. q[1] \in {i1(t), i2(t)}
      BY DEF KeyPlace
    <2>3. Answers(t, "duplicate", Missing)
      BY <1>3 DEF Upsert, Return, Answer, Answers
    <2>4. buckets' = IF op[t].kind = "assign" THEN Put(T, q[1], q[2], [x EXCEPT !.val = op[t].val])
                     ELSE IF op[t].exist
                     THEN Put(T, q[1], q[2], [x EXCEPT !.val = Add(@, op[t].val)])
                     ELSE T
      BY <1>3, <2>1 DEF Upsert, Table, Put
    <2> HIDE DEF q
    <2>5. /\ [x EXCEPT !.val = op[t].val] = Mine(op[t].val)
          /\ [x EXCEPT !.val = Add(@, op[t].val)] = Mine(Add(x.val, op[t].val))
      BY <2>1 DEF Item
    <2>6. Full(T, q[1], q[2]) /\ x \in ItemsIn(T) /\ x.val \in Values
      BY <2>1, ValuesAssumption DEF Full, ItemsIn, Item
    <2>7. x \notin ItemsIn(R)
      BY <1>2, <2>1 DEF Has
    <2>8. ASSUME NEW v \in Values, buckets' = Put(T, q[1], q[2], Mine(v))
          PROVE  /\ Good(buckets', hashpower, R, oldHashpower)
                 /\ \A b \in Bucket : b \notin {i1(t), i2(t)} => buckets'[b] = T[b]
                 /\ ItemsIn(buckets') \cup ItemsIn(R) = (S \ {x}) \cup {Mine(v)}
      <3>1. Mine(v) \in Item /\ Mine(v).key = x.key
        BY <1>1, <2>1 DEF Item
      <3> HIDE DEF Mine
      <3>2. /\ Good(buckets', hashpower, R, oldHashpower)
            /\ ItemsIn(buckets') = (ItemsIn(T) \ {x}) \cup {Mine(v)}
        BY <2>1, <2>6, <2>8, <3>1, ReplaceGood
      <3>3. \A b \in Bucket : b \notin {i1(t), i2(t)} => buckets'[b] = T[b]
        BY <2>2, <2>8 DEF Put, Table
      <3> HIDE DEF x
      <3> QED
        BY <2>7, <3>2, <3>3
    <2>9. CASE op[t].kind = "assign"
      <3>1. buckets' = Put(T, q[1], q[2], Mine(op[t].val))
        BY <2>4, <2>5, <2>9
      <3> QED
        BY <1>1, <2>1, <2>3, <2>6, <2>8, <2>9, <3>1 DEF Upserts
    <2>10. CASE op[t].kind = "accum" /\ op[t].exist
      <3>1. buckets' = Put(T, q[1], q[2], Mine(Add(x.val, op[t].val)))
        BY <2>4, <2>5, <2>10
      <3>2. Add(x.val, op[t].val) \in Values
        BY <1>1, <2>6, ValuesAssumption
      <3> QED
        BY <1>1, <2>1, <2>3, <2>6, <2>8, <2>10, <3>1, <3>2 DEF Upserts
    <2>11. CASE op[t].kind = "accum" /\ ~ op[t].exist
      <3>1. buckets' = T
        BY <2>4, <2>11
      <3> QED
        BY <2>1, <2>3, <2>6, <2>11, <3>1 DEF Upserts
    <2> QED
      BY <2>9, <2>10, <2>11
  <1>4. CASE ~ HasKey(T, t)
    <2>1. Absent(T, k)
      BY <1>4, NotInItsBuckets DEF Good
    <2>2. ~ Has(S, k)
      BY <1>2, <2>1, AbsentItems DEF Has
    <2>3. Answers(t, "new", Missing)
      BY <1>4 DEF Upsert, Return, Answer, Answers
    <2>4. CASE op[t].kind = "accum" /\ op[t].exist
      <3>1. buckets' = T
        BY <1>4, <2>4 DEF Upsert
      <3> QED
        BY <2>2, <2>3, <2>4, <3>1 DEF Upserts
    <2>5. CASE ~ (op[t].kind = "accum" /\ op[t].exist)
      <3> DEFINE x == Mine(op[t].val)
      <3>1. buckets' = Put(T, p[1], p[2], x)
        BY <1>4, <2>5 DEF Upsert, Put
      <3>2. x \in Item /\ x.key = k
        BY <1>1 DEF Item
      <3>3. /\ p[1] \in Bucket /\ p[2] \in Slot /\ p[1] \in {i1(t), i2(t)} /\ ~ Full(T, p[1], p[2])
        BY <1>1, <1>4
      <3>4. x = [key |-> op[t].key, val |-> op[t].val]
        OBVIOUS
      <3> HIDE DEF x
      <3>5. /\ Good(buckets', hashpower, R, oldHashpower)
            /\ ItemsIn(buckets') = ItemsIn(T) \cup {x}
        BY <2>1, <3>1, <3>2, <3>3, FillGood
      <3>6. \A b \in Bucket : b \notin {i1(t), i2(t)} => buckets'[b] = T[b]
        BY <3>1, <3>3 DEF Put, Table
      <3>7. ItemsIn(buckets') \cup ItemsIn(R) = S \cup {x}
        BY <3>5
      <3> QED
        BY <2>2, <2>3, <2>5, <3>4, <3>5, <3>6, <3>7 DEF Upserts
    <2> QED
      BY <2>4, <2>5
  <1> QED
    BY <1>3, <1>4

(* The table after a step made with the locks of Need(t).                  *)
LEMMA BodyEnd ==
  ASSUME DataInv, ~ strayed', NEW t \in Threads, Step(t), pc[t] = "body",
         pc'[t] \notin {"swap", "install"}, RehashFlags(Need(t)),
         \A b \in Bucket : lock_ind(b) \notin Need(t) => buckets'[b] = Rehashed(Need(t))[b],
         Good(buckets', hashpower, Rest(Need(t)), oldHashpower)
  PROVE  /\ Shape' /\ Filled'
         /\ Stored' = ItemsIn(buckets') \cup ItemsIn(Rest(Need(t)))
  <1>1. NobodyResizing /\ Need(t) \in SUBSET AnyLockInd
    BY AtItsBuckets
  <1>2. OthersStay(t) /\ curLocks' = curLocks
    BY LockInvParts, OrdinarySteps
       DEF DataInv, Ordinary, Stays, GrowLocks, Exclusive, GrowSwap, GrowInstall
  <1>3. NobodyResizing'
    BY <1>1, <1>2 DEF NobodyResizing, Resizes, OthersStay
  <1> QED
    BY <1>1, <1>2, <1>3, RehashEnd

LEMMA FindData ==
  ASSUME DataInv, ~ strayed', NEW t \in Threads, FindBody(t)
  PROVE  Shape' /\ Filled' /\ Finds(t, Stored, Stored')
  <1> DEFINE T == Rehashed(Need(t))
             R == Rest(Need(t))
             q == KeyPlace(T, t)
             k == op[t].key
  <1>1. /\ pc[t] = "body" /\ frame[t].stage = "op" /\ op[t].kind = "find"
        /\ buckets' = T /\ RehashFlags(Need(t)) /\ Step(t)
    BY DEF FindBody, InBody, Step, SimpleStep
  <1>2. /\ ThreadsOK /\ op[t] \in KeyOp /\ ~ Installing /\ Need(t) \in SUBSET AnyLockInd
        /\ Candidates(hashpower, k) = {i1(t), i2(t)} /\ k \in Keys
        /\ lock_ind(i1(t)) \in Need(t) /\ lock_ind(i2(t)) \in Need(t)
    BY <1>1, LockInvParts, AtItsBuckets DEF DataInv, Need, KeyOp
  <1>3. /\ T \in Table /\ Good(T, hashpower, R, oldHashpower)
        /\ ItemsIn(T) \cup ItemsIn(R) = Stored
    BY <1>2, RehashStart
  <1>4. pc'[t] = "idle"
    BY <1>2 DEF FindBody, Return, Goto, ThreadsOK
  <1>5. Shape' /\ Filled' /\ Stored' = Stored
    BY <1>1, <1>3, <1>4, BodyEnd
  <1>6. CASE HasKey(T, t)
    <2>1. q[1] \in Bucket /\ q[2] \in Slot /\ T[q[1]][q[2]] \in Item /\ T[q[1]][q[2]].key = k
      BY <1>2, <1>3, <1>6, KeyPlaceType
    <2>2. Answers(t, "found", T[q[1]][q[2]].val)
      BY <1>6 DEF FindBody, Return, Answer, Answers
    <2> HIDE DEF q, T
    <2>3. T[q[1]][q[2]] \in Stored
      BY <1>3, <2>1, ItemsHere
    <2> QED
      BY <1>1, <1>5, <2>1, <2>2, <2>3 DEF Finds
  <1>7. CASE ~ HasKey(T, t)
    <2>1. Answers(t, "absent", Missing)
      BY <1>7 DEF FindBody, Return, Answer, Answers
    <2>2. Absent(T, k)
      BY <1>2, <1>3, <1>7, NotInItsBuckets DEF Good
    <2>3. Absent(R, k)
      BY <1>2, NothingLeftBehind
    <2>4. ~ Has(Stored, k)
      BY <1>3, <2>2, <2>3, AbsentItems DEF Has
    <2> QED
      BY <1>1, <1>5, <2>1, <2>4 DEF Finds
  <1> QED
    BY <1>6, <1>7

LEMMA EraseData ==
  ASSUME DataInv, ~ strayed', NEW t \in Threads, EraseBody(t)
  PROVE  Shape' /\ Filled' /\ Erases(t, Stored, Stored')
  <1> DEFINE T == Rehashed(Need(t))
             R == Rest(Need(t))
             q == KeyPlace(T, t)
             x == T[q[1]][q[2]]
             k == op[t].key
  <1>1. /\ pc[t] = "body" /\ frame[t].stage = "op" /\ op[t].kind = "erase"
        /\ RehashFlags(Need(t)) /\ Step(t)
    BY DEF EraseBody, InBody, Step, SimpleStep
  <1>2. /\ ThreadsOK /\ op[t] \in KeyOp /\ ~ Installing /\ Need(t) \in SUBSET AnyLockInd
        /\ Candidates(hashpower, k) = {i1(t), i2(t)} /\ k \in Keys
        /\ lock_ind(i1(t)) \in Need(t) /\ lock_ind(i2(t)) \in Need(t)
    BY <1>1, LockInvParts, AtItsBuckets DEF DataInv, Need, KeyOp
  <1>3. /\ T \in Table /\ R \in Table /\ Good(T, hashpower, R, oldHashpower)
        /\ ItemsIn(T) \cup ItemsIn(R) = Stored
    BY <1>2, RehashStart
  <1>4. pc'[t] = "idle"
    BY <1>2 DEF EraseBody, Return, Goto, ThreadsOK
  <1>5. Absent(R, k)
    BY <1>2, NothingLeftBehind
  <1>6. CASE HasKey(T, t)
    <2>1. q[1] \in Bucket /\ q[2] \in Slot /\ x \in Item /\ x.key = k
      BY <1>2, <1>3, <1>6, KeyPlaceType
    <2>2. q[1] \in {i1(t), i2(t)}
      BY DEF KeyPlace
    <2>3. Answers(t, "erased", Missing) /\ buckets' = Put(T, q[1], q[2], Empty)
      BY <1>6 DEF EraseBody, Return, Answer, Answers, Put
    <2> HIDE DEF q
    <2>4. Full(T, q[1], q[2]) /\ x \in ItemsIn(T)
      BY <1>3, <2>1, FullItem, ItemsHere
    <2>5. Good(buckets', hashpower, R, oldHashpower) /\ ItemsIn(buckets') = ItemsIn(T) \ {x}
      BY <1>3, <2>1, <2>3, <2>4, VacateGood
    <2>6. \A b \in Bucket : b \notin {i1(t), i2(t)} => buckets'[b] = T[b]
      BY <1>3, <2>2, <2>3 DEF Put, Table
    <2>7. \A b \in Bucket : lock_ind(b) \notin Need(t) => buckets'[b] = T[b]
      BY <1>2, <2>6
    <2>8. Shape' /\ Filled' /\ Stored' = ItemsIn(buckets') \cup ItemsIn(R)
      BY <1>1, <1>4, <2>5, <2>7, BodyEnd
    <2>9. x \notin ItemsIn(R)
      BY <1>5, <2>1, AbsentItems DEF Has
    <2> HIDE DEF x, T, R
    <2>10. Stored' = Stored \ {x} /\ x \in Stored
      BY <1>3, <2>4, <2>5, <2>8, <2>9
    <2> QED
      BY <1>1, <2>1, <2>3, <2>8, <2>10 DEF Erases
  <1>7. CASE ~ HasKey(T, t)
    <2>1. Answers(t, "absent", Missing) /\ buckets' = T
      BY <1>7 DEF EraseBody, Return, Answer, Answers
    <2>2. Absent(T, k)
      BY <1>2, <1>3, <1>7, NotInItsBuckets DEF Good
    <2>3. ~ Has(Stored, k)
      BY <1>3, <1>5, <2>2, AbsentItems DEF Has
    <2>4. Shape' /\ Filled' /\ Stored' = Stored
      BY <1>1, <1>3, <1>4, <2>1, BodyEnd
    <2> QED
      BY <1>1, <2>1, <2>3, <2>4 DEF Erases
  <1> QED
    BY <1>6, <1>7

(* The end of an insert, and the start of a search when it has no room.    *)
LEMMA UpsertEnd ==
  ASSUME DataInv, ~ strayed', NEW t \in Threads, Step(t), pc[t] = "body",
         op[t].kind \in {"assign", "accum"}, RehashFlags(Need(t)),
         lock_ind(i1(t)) \in Need(t), lock_ind(i2(t)) \in Need(t),
         NEW T \in Table, Good(T, hashpower, Rest(Need(t)), oldHashpower),
         ItemsIn(T) \cup ItemsIn(Rest(Need(t))) = Stored,
         \A b \in Bucket : lock_ind(b) \notin Need(t) => T[b] = Rehashed(Need(t))[b],
         NEW p, ~ HasKey(T, t) => /\ p[1] \in {i1(t), i2(t)} /\ p[2] \in Slot
                                  /\ ~ Full(T, p[1], p[2]),
         Upsert(t, T, p)
  PROVE  Shape' /\ Filled' /\ Upserts(t, Stored, Stored')
  <1> DEFINE R == Rest(Need(t))
  <1>1. /\ ThreadsOK /\ op[t] \in KeyOp /\ ~ Installing /\ Need(t) \in SUBSET AnyLockInd
        /\ Candidates(hashpower, op[t].key) = {i1(t), i2(t)} /\ op[t].key \in Keys
    BY LockInvParts, AtItsBuckets DEF DataInv, KeyOp
  <1>2. R \in Table
    BY <1>1, RehashStart
  <1>3. Absent(R, op[t].key)
    BY <1>1, NothingLeftBehind
  <1>4. pc'[t] = "idle"
    BY <1>1 DEF Upsert, Return, Goto, ThreadsOK
  <1> HIDE DEF R
  <1>5. /\ Good(buckets', hashpower, R, oldHashpower)
        /\ \A b \in Bucket : b \notin {i1(t), i2(t)} => buckets'[b] = T[b]
        /\ Upserts(t, ItemsIn(T) \cup ItemsIn(R), ItemsIn(buckets') \cup ItemsIn(R))
    BY <1>1, <1>2, <1>3, UpsertData DEF R
  <1>6. \A b \in Bucket : lock_ind(b) \notin Need(t) => buckets'[b] = Rehashed(Need(t))[b]
    BY <1>5
  <1>7. Shape' /\ Filled' /\ Stored' = ItemsIn(buckets') \cup ItemsIn(R)
    BY <1>4, <1>5, <1>6, BodyEnd DEF R
  <1> QED
    BY <1>5, <1>7 DEF R

LEMMA SearchStarts ==
  ASSUME DataInv, ~ strayed', NEW t \in Threads, Step(t), pc[t] = "body",
         RehashFlags(Need(t)), buckets' = Rehashed(Need(t)), StartSearch(t)
  PROVE  Shape' /\ Filled' /\ Idles(t, Stored, Stored')
  <1>1. ThreadsOK /\ ~ Installing /\ Need(t) \in SUBSET AnyLockInd
    BY LockInvParts, AtItsBuckets DEF DataInv
  <1>2. /\ Good(Rehashed(Need(t)), hashpower, Rest(Need(t)), oldHashpower)
        /\ ItemsIn(Rehashed(Need(t))) \cup ItemsIn(Rest(Need(t))) = Stored
    BY <1>1, RehashStart
  <1>3. pc'[t] = "search" /\ op' = op /\ ans' = ans
    BY <1>1 DEF StartSearch, Goto, ThreadsOK, callVars
  <1> QED
    BY <1>2, <1>3, BodyEnd DEF Idles

LEMMA FreeSlot ==
  ASSUME NEW T, NEW b, FreeSlots(T, b) # {}
  PROVE  Max(FreeSlots(T, b)) \in Slot /\ ~ Full(T, b, Max(FreeSlots(T, b)))
  <1>1. SlotsPerBucket - 1 \in Nat
    BY SizesAssumption
  <1>2. FreeSlots(T, b) \in SUBSET (0 .. SlotsPerBucket - 1)
    BY DEF FreeSlots, Slot
  <1>3. Max(FreeSlots(T, b)) \in FreeSlots(T, b)
    BY <1>1, <1>2, MaxOfNats
  <1> QED
    BY <1>3 DEF FreeSlots, Full

LEMMA InsertData ==
  ASSUME DataInv, ~ strayed', NEW t \in Threads, InsertBody(t)
  PROVE  Shape' /\ Filled' /\ (Upserts(t, Stored, Stored') \/ Idles(t, Stored, Stored'))
  <1> DEFINE T == Rehashed(Need(t))
             free1 == FreeSlots(T, i1(t))
             free2 == FreeSlots(T, i2(t))
             p == IF free1 # {} THEN <<i1(t), Max(free1)>> ELSE <<i2(t), Max(free2)>>
  <1>1. /\ pc[t] = "body" /\ frame[t].stage = "op" /\ op[t].kind \in {"assign", "accum"}
        /\ RehashFlags(Need(t)) /\ Step(t)
    BY DEF InsertBody, InBody, Step, SimpleStep
  <1>2. /\ ~ Installing /\ Need(t) \in SUBSET AnyLockInd
        /\ lock_ind(i1(t)) \in Need(t) /\ lock_ind(i2(t)) \in Need(t)
    BY <1>1, AtItsBuckets DEF Need
  <1>3. /\ T \in Table /\ Good(T, hashpower, Rest(Need(t)), oldHashpower)
        /\ ItemsIn(T) \cup ItemsIn(Rest(Need(t))) = Stored
    BY <1>2, RehashStart
  <1>4. CASE HasKey(T, t) \/ free1 # {} \/ free2 # {}
    <2>1. Upsert(t, T, p)
      BY <1>4 DEF InsertBody
    <2>2. ~ HasKey(T, t) => /\ p[1] \in {i1(t), i2(t)} /\ p[2] \in Slot
                            /\ ~ Full(T, p[1], p[2])
      BY <1>4, FreeSlot
    <2> HIDE DEF p
    <2> QED
      BY <1>1, <1>2, <1>3, <2>1, <2>2, UpsertEnd
  <1>5. CASE ~ (HasKey(T, t) \/ free1 # {} \/ free2 # {})
    <2>1. StartSearch(t) /\ buckets' = T
      BY <1>5 DEF InsertBody
    <2> QED
      BY <1>1, <2>1, SearchStarts
  <1> QED
    BY <1>4, <1>5

LEMMA PlaceData ==
  ASSUME DataInv, ~ strayed', NEW t \in Threads, PlaceBody(t)
  PROVE  Shape' /\ Filled' /\ (Upserts(t, Stored, Stored') \/ Idles(t, Stored, Stored'))
  <1> DEFINE T == Rehashed(Need(t))
             path == frame[t].path
             p == path[1]
  <1>1. /\ pc[t] = "body" /\ frame[t].stage = "place" /\ InBody(t, "place")
        /\ RehashFlags(Need(t)) /\ Step(t)
    BY DEF PlaceBody, InBody, Step, CuckooStep
  <1>2. /\ ~ Installing /\ Need(t) \in SUBSET AnyLockInd
        /\ ThreadsOK /\ Plans(t)
    BY <1>1, LockInvParts, AtItsBuckets DEF DataInv
  <1>3. /\ op[t] \in InsertOp /\ path \in Seq(Place) /\ path # << >>
        /\ Len(path) = 1
    <2>1. /\ op[t] \in InsertOp /\ path \in Seq(Place) /\ path # << >>
          /\ ~ (Len(path) > 2) /\ Len(path) # 2
      BY <1>1, <1>2, PathHere
    <2> DEFINE n == Len(path)
    <2>2. n \in Nat /\ n # 0
      BY <2>1
    <2>3. ~ (n > 2) /\ n # 2
      BY <2>1
    <2> HIDE DEF n
    <2>4. n = 1
      BY <2>2, <2>3
    <2> QED
      BY <2>1, <2>4 DEF n
  <1>4. lock_ind(i1(t)) \in Need(t) /\ lock_ind(i2(t)) \in Need(t)
    BY <1>1, <1>2, <1>3 DEF Need, PathLocks
  <1>5. p \in Place /\ p.bucket \in {i1(t), i2(t)}
    BY <1>1, <1>2, <1>3 DEF Plans, OnTheWay, Follows
  <1>6. /\ T \in Table /\ Good(T, hashpower, Rest(Need(t)), oldHashpower)
        /\ ItemsIn(T) \cup ItemsIn(Rest(Need(t))) = Stored
    BY <1>2, RehashStart
  <1>7. CASE T[p.bucket][p.slot] = Empty
    <2>1. Upsert(t, T, <<p.bucket, p.slot>>)
      BY <1>7 DEF PlaceBody
    <2>2. p.slot \in Slot /\ ~ Full(T, p.bucket, p.slot)
      BY <1>5, <1>7 DEF Place, Full
    <2> DEFINE here == <<p.bucket, p.slot>>
    <2>3. here[1] = p.bucket /\ here[2] = p.slot
      OBVIOUS
    <2>4. Upsert(t, T, here)
      BY <2>1
    <2> HIDE DEF here, T, p
    <2>5. op[t].kind \in {"assign", "accum"}
      BY <1>3 DEF InsertOp
    <2> QED
      BY <1>1, <1>4, <1>5, <1>6, <2>2, <2>3, <2>4, <2>5, UpsertEnd DEF T
  <1>8. CASE T[p.bucket][p.slot] # Empty
    <2>1. StartSearch(t) /\ buckets' = T
      BY <1>8 DEF PlaceBody
    <2> QED
      BY <1>1, <2>1, SearchStarts
  <1> QED
    BY <1>7, <1>8

(* Moves along the path.                                                   *)
LEMMA OtherBucket ==
  ASSUME NEW hp \in 0 .. MaxHashpower, NEW k \in Keys, NEW b \in Candidates(hp, k)
  PROVE  AltIndex(hp, HashOf[k], b) \in Candidates(hp, k)
  <1> DEFINE h == HashOf[k]
             i == IndexHash(hp, h)
  <1>1. h \in Hashes
    BY HashTypes
  <1>2. i \in 0 .. HashSize[hp] - 1
    BY <1>1, HashAssumption
  <1>3. AltIndex(hp, h, AltIndex(hp, h, i)) = i
    BY <1>1, <1>2, HashAssumption
  <1> QED
    BY <1>3 DEF Candidates

LEMMA MoveData ==
  ASSUME TablesOK, NEW T \in Table, NEW R \in Table, Good(T, hashpower, R, oldHashpower),
         NEW from \in Place, NEW to \in Place, CanMove(T, from, to),
         to.bucket = AltIndex(hashpower, from.hash, from.bucket)
  PROVE  /\ Moved(T, from, to) \in Table
         /\ Good(Moved(T, from, to), hashpower, R, oldHashpower)
         /\ ItemsIn(Moved(T, from, to)) = ItemsIn(T)
         /\ ~ Full(Moved(T, from, to), from.bucket, from.slot)
         /\ \A b \in Bucket : b \notin {from.bucket, to.bucket} => Moved(T, from, to)[b] = T[b]
  <1> DEFINE x == T[from.bucket][from.slot]
  <1>1. /\ from.bucket \in Bucket /\ from.slot \in Slot
        /\ Full(T, from.bucket, from.slot) /\ ~ Full(T, to.bucket, to.slot)
        /\ HashOf[x.key] = from.hash
    BY DEF Place, CanMove, Full
  <1>2. from.bucket \in Candidates(hashpower, x.key) /\ x.key \in Keys
    BY <1>1, FullItem DEF Good, Placed
  <1>3. to.bucket \in Candidates(hashpower, x.key)
    BY <1>1, <1>2, OtherBucket DEF TablesOK
  <1>4. \A b \in Bucket : b \notin {from.bucket, to.bucket} => Moved(T, from, to)[b] = T[b]
    BY DEF Moved, Table
  <1> QED
    BY <1>1, <1>3, <1>4, MovedType, MovedGood

LEMMA LastHopData ==
  ASSUME DataInv, ~ strayed', NEW t \in Threads, LastHopBody(t)
  PROVE  Shape' /\ Filled' /\ (Upserts(t, Stored, Stored') \/ Idles(t, Stored, Stored'))
  <1> DEFINE T == Rehashed(Need(t))
             path == frame[t].path
             from == path[1]
             to   == path[2]
             U == Moved(T, from, to)
  <1>1. /\ pc[t] = "body" /\ frame[t].stage = "last" /\ InBody(t, "last")
        /\ RehashFlags(Need(t)) /\ Step(t)
    BY DEF LastHopBody, InBody, Step, CuckooStep
  <1>2. /\ ~ Installing /\ Need(t) \in SUBSET AnyLockInd
        /\ TablesOK /\ ThreadsOK /\ Plans(t) /\ frame[t].hp = hashpower
    BY <1>1, LockInvParts, AtItsBuckets DEF DataInv
  <1>3. /\ op[t] \in InsertOp /\ path \in Seq(Place) /\ path # << >> /\ Len(path) = 2
    BY <1>1, <1>2, PathHere
  <1>4. /\ lock_ind(i1(t)) \in Need(t) /\ lock_ind(i2(t)) \in Need(t)
        /\ lock_ind(to.bucket) \in Need(t)
    BY <1>1, <1>2, <1>3 DEF Need, PathLocks
  <1>5. from \in Place /\ to \in Place
    BY <1>3
  <1>6. from.bucket \in {i1(t), i2(t)} /\ to.bucket = AltIndex(hashpower, from.hash, from.bucket)
    <2>1. Follows(t, path) /\ 1 \in 1 .. Len(path) - 1
      BY <1>1, <1>2, <1>3 DEF Plans, OnTheWay
    <2> QED
      BY <1>2, <1>3, <2>1 DEF Follows
  <1>7. /\ T \in Table /\ Rest(Need(t)) \in Table
        /\ Good(T, hashpower, Rest(Need(t)), oldHashpower)
        /\ ItemsIn(T) \cup ItemsIn(Rest(Need(t))) = Stored
    BY <1>2, RehashStart
  <1>8. CASE CanMove(T, from, to)
    <2> DEFINE here == <<from.bucket, from.slot>>
    <2>1. Upsert(t, U, here)
      BY <1>8 DEF LastHopBody
    <2>2. here[1] = from.bucket /\ here[2] = from.slot /\ from.slot \in Slot
      BY <1>5 DEF Place
    <2>3. /\ U \in Table /\ Good(U, hashpower, Rest(Need(t)), oldHashpower)
          /\ ItemsIn(U) = ItemsIn(T) /\ ~ Full(U, from.bucket, from.slot)
          /\ \A b \in Bucket : b \notin {from.bucket, to.bucket} => U[b] = T[b]
      BY <1>2, <1>5, <1>6, <1>7, <1>8, MoveData
    <2>4. op[t].kind \in {"assign", "accum"}
      BY <1>3 DEF InsertOp
    <2> HIDE DEF here, U, from, to
    <2>5. \A b \in Bucket : lock_ind(b) \notin Need(t) => U[b] = T[b]
      BY <1>4, <1>6, <2>3
    <2>6. ItemsIn(U) \cup ItemsIn(Rest(Need(t))) = Stored
      BY <1>7, <2>3
    <2> QED
      BY <1>1, <1>4, <1>6, <2>1, <2>2, <2>3, <2>4, <2>5, <2>6, UpsertEnd
  <1>9. CASE ~ CanMove(T, from, to)
    <2>1. StartSearch(t) /\ buckets' = T
      BY <1>9 DEF LastHopBody
    <2> QED
      BY <1>1, <2>1, SearchStarts
  <1> QED
    BY <1>8, <1>9

LEMMA HopData ==
  ASSUME DataInv, ~ strayed', NEW t \in Threads, HopBody(t)
  PROVE  Shape' /\ Filled' /\ Idles(t, Stored, Stored')
  <1> DEFINE T == Rehashed(Need(t))
             path == frame[t].path
             n == Len(path)
             m == n - 1
             from == path[m]
             to   == path[n]
             U == Moved(T, from, to)
  <1>1. /\ pc[t] = "body" /\ frame[t].stage = "hop" /\ InBody(t, "hop")
        /\ RehashFlags(Need(t)) /\ Step(t)
    BY DEF HopBody, InBody, Step, CuckooStep
  <1>2. /\ ~ Installing /\ Need(t) \in SUBSET AnyLockInd
        /\ TablesOK /\ ThreadsOK /\ Plans(t) /\ frame[t].hp = hashpower
    BY <1>1, LockInvParts, AtItsBuckets DEF DataInv
  <1>3. /\ path \in Seq(Place) /\ path # << >> /\ n > 2 /\ n \in Nat
        /\ \A i \in 1 .. n : path[i] \in Place
    BY <1>1, <1>2, PathHere
  <1>4. m \in 1 .. n - 1 /\ m + 1 = n /\ m \in 1 .. n /\ n \in 1 .. n
    <2> HIDE DEF n
    <2> QED
      BY <1>3
  <1>5. from \in Place /\ to \in Place
    BY <1>3, <1>4
  <1>6. lock_ind(from.bucket) \in Need(t) /\ lock_ind(to.bucket) \in Need(t)
    <2>1. PathLocks(t, path) = {lock_ind(path[n - 1].bucket), lock_ind(path[n].bucket)}
      BY <1>3 DEF PathLocks
    <2> QED
      BY <1>1, <1>2, <2>1 DEF Need
  <1>7. to.bucket = AltIndex(hashpower, from.hash, from.bucket)
    <2>1. Follows(t, path)
      BY <1>1, <1>2 DEF Plans, OnTheWay
    <2>2. path[m + 1].bucket = AltIndex(frame[t].hp, path[m].hash, path[m].bucket)
      <3> HIDE DEF m
      <3> QED
        BY <1>4, <2>1 DEF Follows
    <2> HIDE DEF m, n
    <2> QED
      BY <1>2, <1>4, <2>2
  <1>8. /\ T \in Table /\ Rest(Need(t)) \in Table
        /\ Good(T, hashpower, Rest(Need(t)), oldHashpower)
        /\ ItemsIn(T) \cup ItemsIn(Rest(Need(t))) = Stored
    BY <1>2, RehashStart
  <1>9. CASE CanMove(T, from, to)
    <2>1. buckets' = U /\ pc'[t] = "pick" /\ op' = op /\ ans' = ans
      BY <1>2, <1>9 DEF HopBody, Goto, ThreadsOK, callVars
    <2>2. /\ U \in Table /\ Good(U, hashpower, Rest(Need(t)), oldHashpower)
          /\ ItemsIn(U) = ItemsIn(T)
          /\ \A b \in Bucket : b \notin {from.bucket, to.bucket} => U[b] = T[b]
      BY <1>2, <1>5, <1>7, <1>8, <1>9, MoveData
    <2> HIDE DEF U, from, to, n, path
    <2>3. \A b \in Bucket : lock_ind(b) \notin Need(t) => U[b] = T[b]
      BY <1>6, <2>2
    <2>4. Shape' /\ Filled' /\ Stored' = ItemsIn(U) \cup ItemsIn(Rest(Need(t)))
      BY <1>1, <2>1, <2>2, <2>3, BodyEnd
    <2> QED
      BY <1>8, <2>1, <2>2, <2>4 DEF Idles
  <1>10. CASE ~ CanMove(T, from, to)
    <2>1. StartSearch(t) /\ buckets' = T
      BY <1>10 DEF HopBody
    <2> QED
      BY <1>1, <2>1, SearchStarts
  <1> QED
    BY <1>9, <1>10

(* The search: one lock at a time, for one step.                           *)
LEMMA LockIsFree ==
  ASSUME DataInv, NEW t \in Threads, NEW b \in BucketsAt(frame[t].hp), LockOneFree(b)
  PROVE  NobodyResizing
  <1>1. /\ TablesOK /\ ThreadsOK /\ ResizersHold /\ Grown
        /\ \A u \in Threads : Behind(u)
    BY LockInvParts DEF DataInv
  <1>2. ASSUME NEW u \in Threads, Resizes(u)
        PROVE  FALSE
    <2>1. frame[t].hp <= frame[u].hp /\ Covered(frame[u].hp + 1)
      BY <1>1, <1>2 DEF Grown, Behind
    <2>2. /\ frame[t].hp \in 0 .. MaxHashpower /\ frame[t].hp \in Nat
          /\ frame[u].hp \in Nat /\ curLocks \in LockArray /\ curLocks \in Nat
          /\ InitHashpower \in Nat
      BY <1>1, Numbers
    <2>3. NumLocks(curLocks) = MaxNumLocks \/ frame[t].hp <= InitHashpower + curLocks
      BY <2>1, <2>2 DEF Covered
    <2>4. lock_ind(b) \in LockInd(curLocks)
      BY <2>2, <2>3, LocksReach
    <2>5. holder[<<curLocks, lock_ind(b)>>] = u
      BY <1>1, <1>2, <2>4 DEF ResizersHold, Alone, AllTaken, Resizes
    <2> QED
      BY <2>5, ValuesAssumption DEF LockOneFree
  <1> QED
    BY <1>2 DEF NobodyResizing

LEMMA OneLockData ==
  ASSUME DataInv, ~ strayed', NEW t \in Threads, Step(t),
         NEW b \in BucketsAt(frame[t].hp), LockOneFree(b), op' = op, ans' = ans,
         pc[t] \in {"search", "trace"},
         pc'[t] \in {"snapshot", "search", "trace", "grow", "pick"},
         \/ UNCHANGED tableVars
         \/ buckets' = Rehashed({lock_ind(b)}) /\ RehashFlags({lock_ind(b)})
  PROVE  Shape' /\ Filled' /\ Idles(t, Stored, Stored')
  <1> DEFINE L == {lock_ind(b)}
  <1>1. NobodyResizing /\ ~ Installing
    BY LockIsFree, NobodyInstalling
  <1>2. OthersStay(t) /\ curLocks' = curLocks
    BY LockInvParts, OrdinarySteps
       DEF DataInv, Ordinary, Stays, GrowLocks, Exclusive, GrowSwap, GrowInstall
  <1>3. L \in SUBSET AnyLockInd
    <2>1. TablesOK /\ ThreadsOK
      BY LockInvParts DEF DataInv
    <2>2. HashSize[frame[t].hp] \in Nat /\ b \in Bucket
      BY <2>1, Numbers, SizesGrow DEF BucketsAt
    <2> QED
      BY <2>2, LockIndType
  <1>4. CASE UNCHANGED tableVars
    BY <1>2, <1>4, QuietData DEF Idles, OthersStay
  <1>5. CASE buckets' = Rehashed(L) /\ RehashFlags(L)
    <2>1. NobodyResizing'
      BY <1>1, <1>2 DEF NobodyResizing, Resizes, OthersStay
    <2>2. /\ Good(Rehashed(L), hashpower, Rest(L), oldHashpower)
          /\ ItemsIn(Rehashed(L)) \cup ItemsIn(Rest(L)) = Stored
      BY <1>1, <1>3, RehashStart
    <2> HIDE DEF L
    <2>3. Shape' /\ Filled' /\ Stored' = ItemsIn(Rehashed(L)) \cup ItemsIn(Rest(L))
      BY <1>1, <1>2, <1>3, <1>5, <2>1, <2>2, RehashEnd
    <2> QED
      BY <2>2, <2>3 DEF Idles
  <1> QED
    BY <1>4, <1>5

LEMMA SearchData ==
  ASSUME DataInv, ~ strayed', NEW t \in Threads, Search(t) \/ Trace(t)
  PROVE  Shape' /\ Filled' /\ Idles(t, Stored, Stored')
  <1>1. TablesOK /\ ThreadsOK
    BY LockInvParts DEF DataInv
  <1>2. /\ pc[t] \in {"search", "trace"} /\ Step(t)
        /\ op' = op /\ ans' = ans
        /\ \E label \in {"snapshot", "search", "trace", "grow", "pick"} : Goto(t, label)
    BY DEF Search, Trace, Step, CuckooStep, callVars
  <1>3. pc'[t] \in {"snapshot", "search", "trace", "grow", "pick"}
    BY <1>1, <1>2 DEF Goto, ThreadsOK
  <1>4. \E b \in BucketsAt(frame[t].hp) :
          /\ LockOneFree(b)
          /\ \/ UNCHANGED tableVars
             \/ buckets' = Rehashed({lock_ind(b)}) /\ RehashFlags({lock_ind(b)})
    <2>1. CASE Search(t)
      <3> DEFINE queue == frame[t].queue
                 b == Head(queue).bucket
      <3>1. pc[t] = "search" /\ Fits(pc[t], op[t], frame[t]) /\ queue \in Seq(BSlot)
        BY <1>1, <2>1, ThreadHere DEF Search, Frame
      <3>2. queue # << >> /\ Plans(t)
        BY <3>1, LockInvParts DEF Fits, DataInv
      <3>3. b \in BucketsAt(frame[t].hp)
        <4>1. 1 \in 1 .. Len(queue) /\ Head(queue) = queue[1]
          BY <3>1, <3>2
        <4> QED
          BY <3>1, <3>2, <4>1 DEF Plans
      <3>4. /\ LockOneFree(b)
            /\ \/ UNCHANGED tableVars
               \/ buckets' = Rehashed({lock_ind(b)}) /\ RehashFlags({lock_ind(b)})
        BY <2>1 DEF Search
      <3> QED
        BY <3>3, <3>4
    <2>2. CASE Trace(t)
      <3>1. TraceBucket(t) \in BucketsAt(frame[t].hp)
        <4> DEFINE path == frame[t].path
                   n == Len(path)
        <4>1. pc[t] = "trace" /\ Fits(pc[t], op[t], frame[t]) /\ frame[t] \in Frame
          BY <1>1, <2>2, ThreadHere DEF Trace
        <4>2. op[t] \in KeyOp /\ path \in Seq(Place) /\ frame[t].hp \in 0 .. MaxHashpower
          BY <4>1 DEF Fits, Frame, InsertOp, KeyOp
        <4>3. i1(t) \in BucketsAt(frame[t].hp) /\ i2(t) \in BucketsAt(frame[t].hp)
          BY <1>1, <4>2, OwnInRange
        <4>4. CASE n > 0
          <5>1. n \in 1 .. n /\ path[n] \in Place
            BY <4>2, <4>4
          <5> QED
            BY <4>2, <4>4, <5>1, AltInRange DEF TraceBucket, Place
        <4> QED
          BY <4>3, <4>4 DEF TraceBucket
      <3>2. /\ LockOneFree(TraceBucket(t))
            /\ \/ UNCHANGED tableVars
               \/ /\ buckets' = Rehashed({lock_ind(TraceBucket(t))})
                  /\ RehashFlags({lock_ind(TraceBucket(t))})
        BY <2>2 DEF Trace
      <3> QED
        BY <3>1, <3>2
    <2> QED
      BY <2>1, <2>2
  <1> QED
    BY <1>2, <1>3, <1>4, OneLockData

(* The other steps that leave the table alone: an answer to the size of    *)
(* the table, or a call given up, says nothing about its items.            *)
Waves(t, S, S2) ==
  /\ S2 = S
  /\ \/ op' = op /\ ans' = ans
     \/ op[t].kind = "size" /\ \E val \in Int : Answers(t, "size", val)
     \/ op[t].kind \in {"assign", "accum"} /\ Answers(t, "throw", Missing)

LEMMA QuietSteps ==
  ASSUME DataInv, ~ strayed', NEW t \in Threads,
         \/ Invoke(t) \/ LockStep(t) \/ StartGrow(t) \/ GrowThrows(t) \/ GrowTooLate(t)
         \/ LockAll(t) \/ UnlockNext(t) \/ Scan(t)
  PROVE  Shape' /\ Filled' /\ Stored' = Stored /\ (Invoke(t) \/ Waves(t, Stored, Stored'))
  <1>1. TablesOK /\ ThreadsOK
    BY LockInvParts DEF DataInv
  <1>2. \A u \in Threads \ {t} : pc'[u] = pc[u] /\ frame'[u] = frame[u]
    <2>1. IInv /\ (Invoke(t) \/ Step(t))
      BY LockInvParts DEF DataInv, Step, GrowStep, TableStep
    <2> QED
      BY <2>1, StepsKeepToThemselves
  <1>3. UNCHANGED tableVars /\ curLocks' = curLocks
    BY DEF Invoke, LockStep, Snapshot, PickLocks, LockFirst, LockNext, StartGrow,
           GrowThrows, GrowTooLate, LockAll, UnlockNext, Scan, ReturnAll, UnlockAll, lockVars
  <1>4. pc[t] \notin {"swap", "install"}
    BY DEF Invoke, LockStep, Snapshot, PickLocks, LockFirst, LockNext, StartGrow,
           GrowThrows, GrowTooLate, LockAll, UnlockNext, Scan, Exclusive
  <1>5. pc'[t] \notin {"swap", "install"}
    <2>1. ASSUME NEW label, Goto(t, label), label \notin {"swap", "install"}
          PROVE  pc'[t] \notin {"swap", "install"}
      BY <1>1, <2>1 DEF Goto, ThreadsOK
    <2>2. CASE Invoke(t)
      <3>1. PICK o \in Workload[t] :
              Goto(t, CASE o.kind = "size" -> "scan"
                        [] o.kind \in {"clear", "dump"} -> "lock_all"
                        [] OTHER -> "snapshot")
        BY <2>2 DEF Invoke
      <3>2. \E label \in {"scan", "lock_all", "snapshot"} : Goto(t, label)
        <4>1. CASE o.kind = "size"
          BY <3>1, <4>1
        <4>2. CASE o.kind \in {"clear", "dump"}
          BY <3>1, <4>2
        <4>3. CASE o.kind \notin {"size", "clear", "dump"}
          BY <3>1, <4>3
        <4> QED
          BY <4>1, <4>2, <4>3
      <3> QED
        BY <2>1, <3>2
    <2>3. CASE LockStep(t)
      <3>1. \E label \in {"pick", "lock_first", "lock_next", "body", "snapshot"} : Goto(t, label)
        BY <2>3 DEF LockStep, Snapshot, PickLocks, LockFirst, LockNext, TryAgain
      <3> QED
        BY <2>1, <3>1
    <2>4. CASE StartGrow(t) \/ GrowThrows(t) \/ GrowTooLate(t)
      <3>1. \E label \in {"lock_all", "unlock"} : Goto(t, label)
        BY <2>4 DEF StartGrow, GrowThrows, GrowTooLate, ReturnAll, UnlockAll
      <3> QED
        BY <2>1, <3>1
    <2>5. CASE LockAll(t) \/ UnlockNext(t) \/ Scan(t)
      <3>1. pc' = pc \/ \E label \in {"exclusive", "idle", "snapshot"} : Goto(t, label)
        BY <2>5 DEF LockAll, UnlockNext, Scan
      <3> QED
        BY <1>4, <2>1, <3>1
    <2> QED
      BY <2>2, <2>3, <2>4, <2>5
  <1>6. Shape' /\ Filled' /\ Stored' = Stored
    BY <1>2, <1>3, <1>4, <1>5, QuietData
  <1>7. \/ op' = op /\ ans' = ans
        \/ op[t].kind = "size" /\ \E val \in Int : Answers(t, "size", val)
        \/ op[t].kind \in {"assign", "accum"} /\ Answers(t, "throw", Missing)
        \/ Invoke(t)
    <2>1. CASE Invoke(t)
      BY <2>1
    <2>2. CASE LockStep(t) \/ StartGrow(t) \/ GrowTooLate(t) \/ LockAll(t) \/ UnlockNext(t)
      BY <2>2 DEF LockStep, Snapshot, PickLocks, LockFirst, LockNext, StartGrow, GrowTooLate,
                  LockAll, UnlockNext, callVars
    <2>3. CASE GrowThrows(t)
      BY <2>3 DEF GrowThrows, Exclusive, ReturnAll, Answer, Answers
    <2>4. CASE Scan(t)
      <3>1. op[t].kind = "size" /\ frame[t].sum \in Int
        BY <1>1, <2>4, ThreadHere DEF Scan, Fits, Frame
      <3> QED
        BY <2>4, <3>1 DEF Scan, Answer, Answers, callVars
    <2> QED
      BY <2>1, <2>2, <2>3, <2>4
  <1> QED
    BY <1>6, <1>7 DEF Waves

(* The steps of a thread that is alone with the table.                     *)
LEMMA EmptyTable ==
  ASSUME NEW hp
  PROVE  NoBuckets \in Table /\ Placed(NoBuckets, hp) /\ Once(NoBuckets) /\ ItemsIn(NoBuckets) = {}
  <1>1. \A b \in Bucket, s \in Slot : NoBuckets[b][s] = Empty
    BY DEF NoBuckets, NoItems
  <1>2. NoBuckets \in Table
    BY DEF NoBuckets, NoItems, Table
  <1> QED
    BY <1>1, <1>2 DEF Placed, Once, Full, ItemsIn

LEMMA AloneWithTable ==
  ASSUME DataInv, NEW t \in Threads, Alone(t)
  PROVE  /\ \A u \in Threads \ {t} : pc[u] \notin {"swap", "install"}
         /\ pc[t] # "install" => ~ Installing
         /\ Unmigrated(LockInd(curLocks)) = Pending
  <1>1. TablesOK /\ ResizersHold
    BY LockInvParts DEF DataInv
  <1>2. \A u \in Threads \ {t} : pc[u] \notin {"swap", "install"}
    BY <1>1, LastArrayDecides DEF OneResizer, Alone
  <1>3. Unmigrated(LockInd(curLocks)) = Pending
    <2>1. CASE Pending = {}
      <3>1. Unmigrated(LockInd(curLocks)) \subseteq Pending
        BY <1>1, LocksOfArray, PendingType DEF TablesOK
      <3> QED
        BY <2>1, <3>1
    <2>2. CASE NumLocks(curLocks) = MaxNumLocks
      BY <2>2 DEF LockInd, AnyLockInd, Unmigrated, Pending
    <2> QED
      BY <2>1, <2>2 DEF DataInv, Shape, Doubled
  <1> QED
    BY <1>2, <1>3 DEF Installing

Clears(t, S, S2) ==
  /\ op[t].kind = "clear" /\ S2 = {} /\ Answers(t, "done", Missing)

LEMMA ClearData ==
  ASSUME DataInv, NEW t \in Threads, ClearBody(t)
  PROVE  Shape' /\ Filled' /\ Clears(t, Stored, Stored')
  <1>1. /\ op[t].kind = "clear" /\ Answers(t, "done", Missing) /\ Goto(t, "unlock")
        /\ buckets' = NoBuckets /\ remaining' = 0
        /\ migrated' = [l \in AnyLockInd |-> TRUE]
        /\ hashpower' = hashpower /\ oldHashpower' = oldHashpower
        /\ pc[t] = "exclusive"
    BY DEF ClearBody, Exclusive, ReturnAll, UnlockAll, Answer, Answers
  <1>2. /\ \A u \in Threads \ {t} : pc[u] \notin {"swap", "install"}
        /\ ~ Installing
    BY <1>1, AloneWithTable DEF Alone
  <1>3. \A u \in Threads : pc'[u] \notin {"swap", "install"}
    <2>1. ThreadsOK
      BY LockInvParts DEF DataInv
    <2> QED
      BY <1>1, <1>2, <2>1 DEF Goto, ThreadsOK
  <1>4. ~ Installing'
    BY <1>3 DEF Installing
  <1>5. NewPart' = NoBuckets
    BY <1>1, <1>4 DEF NewPart
  <1>6. OldPart' = NoBuckets
    BY <1>1, <1>4, LockIndType DEF OldPart, NoBuckets
  <1>7. Filled'
    BY <1>5, <1>6, EmptyTable DEF Filled, Good, Apart, Full, NoBuckets, NoItems
  <1>8. Stored' = {}
    BY <1>5, <1>6, EmptyTable DEF Stored
  <1>9. Pending' = {}
    BY <1>1 DEF Pending
  <1>10. Waiting'
    BY <1>1, LockIndType DEF Waiting
  <1>11. Shape'
    BY <1>1, <1>2, <1>3, <1>9, <1>10, FS_EmptySet DEF Shape, DataInv
  <1> QED
    BY <1>1, <1>7, <1>8, <1>11 DEF Clears

(* All that is left of the last doubling is migrated.                      *)
LEMMA RehashAllData ==
  ASSUME DataInv, NEW t \in Threads, pc[t] = "exclusive",
         NEW label, Goto(t, label), label # "install", RehashAll
  PROVE  Shape' /\ Filled' /\ Stored' = Stored /\ ItemsIn(buckets') = Stored
  <1>1. /\ \A u \in Threads \ {t} : pc[u] \notin {"swap", "install"}
        /\ ~ Installing /\ Unmigrated(LockInd(curLocks)) = Pending
    BY AloneWithTable DEF Alone
  <1>2. /\ buckets' = Rehashed(AnyLockInd) /\ remaining' = 0
        /\ migrated' = [l \in AnyLockInd |-> TRUE]
        /\ hashpower' = hashpower /\ oldHashpower' = oldHashpower
    <2>1. Unmigrated(LockInd(curLocks)) = Unmigrated(AnyLockInd)
      BY <1>1 DEF Unmigrated, Pending
    <2>2. Rehashed(LockInd(curLocks)) = Rehashed(AnyLockInd)
      BY <2>1 DEF Rehashed
    <2> QED
      BY <2>2 DEF RehashAll
  <1>3. \A u \in Threads : pc'[u] # "install"
    <2>1. ThreadsOK
      BY LockInvParts DEF DataInv
    <2> QED
      BY <1>1, <2>1 DEF Goto, ThreadsOK
  <1>4. ~ Installing'
    BY <1>3 DEF Installing
  <1>5. /\ Good(Rehashed(AnyLockInd), hashpower, Rest(AnyLockInd), oldHashpower)
        /\ ItemsIn(Rehashed(AnyLockInd)) \cup ItemsIn(Rest(AnyLockInd)) = Stored
    BY <1>1, RehashStart
  <1>6. Rest(AnyLockInd) = NoBuckets
    BY <1>1, LockIndType DEF Rest, Left, OldPart, NoBuckets, Unmigrated
  <1>7. OldPart' = NoBuckets
    BY <1>2, <1>4, LockIndType DEF OldPart, NoBuckets
  <1>8. NewPart' = buckets'
    BY <1>4 DEF NewPart
  <1>9. Filled'
    BY <1>2, <1>5, <1>6, <1>7, <1>8 DEF Filled
  <1>10. ItemsIn(buckets') = Stored
    BY <1>2, <1>5, <1>6, EmptyTable
  <1>11. Stored' = Stored
    BY <1>7, <1>8, <1>10, EmptyTable DEF Stored
  <1>12. Pending' = {}
    BY <1>2 DEF Pending
  <1>13. Waiting'
    BY <1>2, LockIndType DEF Waiting
  <1>14. Shape'
    BY <1>1, <1>2, <1>3, <1>12, <1>13, FS_EmptySet DEF Shape, DataInv
  <1> QED
    BY <1>9, <1>10, <1>11, <1>14

(* The value of a key among the items S.                                   *)
Lookup(S, k) ==
  IF Has(S, k) THEN (CHOOSE x \in S : x.key = k).val ELSE Missing

Dumps(t, S, S2) ==
  /\ op[t].kind = "dump" /\ S2 = S
  /\ Answers(t, "table", [k \in Keys |-> Lookup(S, k)])

LEMMA DumpData ==
  ASSUME DataInv, NEW t \in Threads, DumpBody(t)
  PROVE  Shape' /\ Filled' /\ Dumps(t, Stored, Stored')
  <1>1. /\ op[t].kind = "dump" /\ pc[t] = "exclusive" /\ Goto(t, "unlock") /\ RehashAll
        /\ Answers(t, "table", [k \in Keys |-> ValueIn(buckets', k)])
    BY DEF DumpBody, Exclusive, ReturnAll, UnlockAll, Answer, Answers
  <1>2. Shape' /\ Filled' /\ Stored' = Stored /\ ItemsIn(buckets') = Stored
    BY <1>1, RehashAllData
  <1>3. \A k \in Keys : ValueIn(buckets', k) = Lookup(Stored, k)
    BY <1>2 DEF ValueIn, Lookup, Has
  <1>4. [k \in Keys |-> ValueIn(buckets', k)] = [k \in Keys |-> Lookup(Stored, k)]
    BY <1>3
  <1> QED
    BY <1>1, <1>2, <1>4 DEF Dumps

LEMMA GrowLocksData ==
  ASSUME DataInv, NEW t \in Threads, GrowLocks(t)
  PROVE  Shape' /\ Filled' /\ Idles(t, Stored, Stored')
  <1>1. pc[t] = "exclusive" /\ Goto(t, "swap") /\ RehashAll /\ op' = op /\ ans' = ans
    BY DEF GrowLocks, Exclusive, callVars
  <1> QED
    BY <1>1, RehashAllData DEF Idles

(* The new buckets become the old ones...                                  *)
LEMMA GrowSwapData ==
  ASSUME DataInv, NEW t \in Threads, GrowSwap(t)
  PROVE  Shape' /\ Filled' /\ Idles(t, Stored, Stored')
  <1>1. /\ pc[t] = "swap" /\ Goto(t, "install") /\ op' = op /\ ans' = ans
        /\ hashpower' = oldHashpower /\ oldBuckets' = buckets /\ oldHashpower' = hashpower
        /\ migrated' = migrated /\ remaining' = remaining /\ frame' = frame
    BY DEF GrowSwap, callVars
  <1>2. /\ \A u \in Threads \ {t} : pc[u] \notin {"swap", "install"}
        /\ ~ Installing
    BY <1>1, AloneWithTable DEF Alone
  <1>3. TablesOK /\ ThreadsOK /\ hashpower = frame[t].hp
    BY <1>1, LockInvParts DEF DataInv, ResizersHold
  <1>4. pc'[t] = "install" /\ \A u \in Threads \ {t} : pc'[u] = pc[u]
    BY <1>1, <1>3 DEF Goto, ThreadsOK
  <1>5. Installing'
    BY <1>4 DEF Installing
  <1>6. Pending = {} /\ remaining = Cardinality(Pending) /\ hashpower >= InitHashpower
    BY <1>1, <1>2 DEF DataInv, Shape
  <1>7. \A b \in Bucket : migrated[lock_ind(b)]
    BY <1>6, LockIndType DEF Pending
  <1>8. NewPart = buckets /\ OldPart = NoBuckets
    BY <1>2, <1>7 DEF NewPart, OldPart, NoBuckets
  <1>9. Good(buckets, hashpower, NoBuckets, oldHashpower)
    BY <1>8 DEF DataInv, Filled
  <1>10. NewPart' = NoBuckets
    BY <1>5 DEF NewPart
  <1>11. OldPart' = buckets
    <2>1. ASSUME NEW b \in Bucket, ~ (b < HashSize[hashpower])
          PROVE  buckets[b] = NoItems
      <3>1. ASSUME NEW s \in Slot, Full(buckets, b, s)
            PROVE  FALSE
        <4> DEFINE k == buckets[b][s].key
        <4>1. k \in Keys /\ b \in Candidates(hashpower, k)
          BY <1>3, <1>9, <3>1, FullItem DEF TablesOK, Good, Placed
        <4>2. \A c \in Candidates(hashpower, k) : c \in 0 .. HashSize[hashpower] - 1
          <5> HIDE DEF k
          <5>1. HashOf[k] \in Hashes /\ hashpower \in 0 .. MaxHashpower
            BY <1>3, <4>1, HashTypes DEF TablesOK
          <5>2. IndexHash(hashpower, HashOf[k]) \in 0 .. HashSize[hashpower] - 1
            BY <5>1, HashAssumption
          <5>3. IndexHash(hashpower, HashOf[k]) \in Bucket
            BY <5>1, <5>2, SizesGrow
          <5>4. AltIndex(hashpower, HashOf[k], IndexHash(hashpower, HashOf[k]))
                  \in 0 .. HashSize[hashpower] - 1
            BY <5>1, <5>3, HashAssumption
          <5> QED
            BY <5>2, <5>4 DEF Candidates
        <4>3. HashSize[hashpower] \in Nat
          BY <1>3, SizesAssumption DEF TablesOK
        <4> QED
          BY <2>1, <4>1, <4>2, <4>3
      <3>2. \A s \in Slot : buckets[b][s] = Empty
        BY <3>1 DEF Full
      <3>3. buckets[b] \in [Slot -> Item \cup {Empty}]
        BY <1>3 DEF TablesOK, Table
      <3> QED
        BY <3>2, <3>3 DEF NoItems
    <2>2. OldPart' = [b \in Bucket |-> IF b < HashSize[hashpower] THEN buckets[b] ELSE NoItems]
      BY <1>1, <1>5 DEF OldPart
    <2>3. buckets = [b \in Bucket |-> buckets[b]]
      BY <1>3 DEF TablesOK, Table
    <2>4. \A b \in Bucket : (IF b < HashSize[hashpower] THEN buckets[b] ELSE NoItems) = buckets[b]
      BY <2>1
    <2> QED
      BY <2>2, <2>3, <2>4
  <1>12. Filled'
    <2>1. Good(NoBuckets, oldHashpower, buckets, hashpower)
      BY <1>9, EmptyTable DEF Good, Apart
    <2> QED
      BY <1>1, <1>10, <1>11, <2>1 DEF Filled
  <1>13. Stored' = Stored
    BY <1>8, <1>10, <1>11 DEF Stored
  <1>14. Pending' = Pending /\ Waiting'
    BY <1>1, <1>7 DEF Pending, Waiting
  <1>15. Shape'
    <2>1. \A u \in Threads : pc'[u] = "install" =>
            oldHashpower' = frame'[u].hp /\ oldHashpower' >= InitHashpower
      BY <1>1, <1>2, <1>3, <1>4, <1>6
    <2> QED
      BY <1>1, <1>5, <1>6, <1>14, <2>1 DEF Shape
  <1> QED
    BY <1>1, <1>12, <1>13, <1>15 DEF Idles

(* ...and wait to be migrated into twice as many.                          *)
LEMMA GrowInstallData ==
  ASSUME DataInv, NEW t \in Threads, GrowInstall(t)
  PROVE  Shape' /\ Filled' /\ Idles(t, Stored, Stored')
  <1> DEFINE n == HashSize[oldHashpower]
  <1>1. /\ pc[t] = "install" /\ Goto(t, "unlock") /\ op' = op /\ ans' = ans
        /\ hashpower' = frame[t].hp + 1 /\ curLocks' = curLocks
        /\ oldBuckets' = oldBuckets /\ oldHashpower' = oldHashpower
    BY DEF GrowInstall, UnlockAll, lockVars, callVars
  <1>2. /\ \A u \in Threads \ {t} : pc[u] \notin {"swap", "install"}
        /\ Installing
    BY <1>1, AloneWithTable DEF Alone, Installing
  <1>3. /\ TablesOK /\ ThreadsOK /\ Grown
        /\ frame[t] \in Frame /\ frame[t].hp < MaxHashpower
    BY <1>1, LockInvParts, ThreadHere DEF DataInv, Fits
  <1>4. oldHashpower = frame[t].hp /\ oldHashpower \in InitHashpower .. MaxHashpower - 1
    <2>1. oldHashpower = frame[t].hp /\ oldHashpower >= InitHashpower
      BY <1>1 DEF DataInv, Shape
    <2> QED
      BY <1>3, <2>1, SizesAssumption DEF Frame
  <1>5. hashpower' = oldHashpower + 1 /\ hashpower' >= InitHashpower
    BY <1>1, <1>4, SizesAssumption
  <1>6. \A u \in Threads : pc'[u] \notin {"swap", "install"}
    BY <1>1, <1>2, <1>3 DEF Goto, ThreadsOK
  <1>7. ~ Installing'
    BY <1>6 DEF Installing
  <1>8. NewPart = NoBuckets /\ NewPart' = buckets'
    BY <1>2, <1>7 DEF NewPart
  <1>9. Pending = {} /\ remaining = Cardinality(Pending)
    BY <1>1 DEF DataInv, Shape
  <1>10. Good(NoBuckets, oldHashpower + 1, OldPart, oldHashpower)
    <2>1. Good(NoBuckets, hashpower, OldPart, oldHashpower)
      BY <1>8 DEF DataInv, Filled
    <2> QED
      BY <2>1, EmptyTable DEF Good
  <1>11. CASE n < MaxNumLocks
    <2>1. buckets' = Migrate(NoBuckets, AnyLockInd) /\ remaining' = 0 /\ migrated' = migrated
      BY <1>11 DEF GrowInstall
    <2>2. /\ Good(Migrate(NoBuckets, AnyLockInd), oldHashpower + 1, Left(AnyLockInd), oldHashpower)
          /\ ItemsIn(Migrate(NoBuckets, AnyLockInd)) \cup ItemsIn(Left(AnyLockInd))
               = ItemsIn(NoBuckets) \cup ItemsIn(OldPart)
      <3>1. Splits(oldHashpower + 1, AnyLockInd)
        BY <1>4, SplitsAll, SizesAssumption
      <3>2. NoBuckets \in Table /\ \A b \in Bucket : NoBuckets[b] = NoItems
        BY EmptyTable DEF NoBuckets
      <3> QED
        BY <1>2, <1>3, <1>10, <3>1, <3>2, MigrateGood
    <2>3. Left(AnyLockInd) = NoBuckets /\ \A b \in Bucket : migrated[lock_ind(b)]
      BY <1>9, LockIndType DEF Left, NoBuckets, Pending
    <2>4. OldPart' = NoBuckets
      BY <1>7, <2>1, <2>3 DEF OldPart, NoBuckets
    <2>5. Filled'
      BY <1>1, <1>5, <1>8, <2>1, <2>2, <2>3, <2>4 DEF Filled
    <2>6. Stored' = Stored
      BY <1>8, <2>1, <2>2, <2>3, <2>4 DEF Stored
    <2>7. Pending' = Pending /\ Waiting'
      BY <2>1, <2>3 DEF Pending, Waiting
    <2>8. Cardinality(Pending) = 0
      BY <1>9, FS_EmptySet
    <2>9. Shape'
      BY <1>5, <1>6, <1>9, <2>1, <2>7, <2>8 DEF Shape
    <2> QED
      BY <1>1, <2>5, <2>6, <2>9 DEF Idles
  <1>12. CASE ~ (n < MaxNumLocks)
    <2>1. NumLocks(curLocks) = MaxNumLocks
      <3>1. Covered(oldHashpower + 1)
        BY <1>1, <1>3, <1>4 DEF Grown, Resizes
      <3>2. /\ oldHashpower \in 0 .. MaxHashpower /\ oldHashpower + 1 \in 0 .. MaxHashpower
            /\ oldHashpower <= oldHashpower + 1
        <4> HIDE DEF n
        <4>1. InitHashpower \in Nat /\ MaxHashpower \in Nat
          BY SizesAssumption
        <4> QED
          BY <1>4, <4>1
      <3>3. n \in Nat /\ HashSize[oldHashpower + 1] \in Nat /\ n <= HashSize[oldHashpower + 1]
        BY <3>2, SizesMonotone
      <3>4. ~ (HashSize[oldHashpower + 1] < MaxNumLocks)
        BY <1>12, <3>3, SizesAssumption
      <3> QED
        BY <3>1, <3>4 DEF Covered, NumLocks
    <2>2. /\ buckets' = NoBuckets /\ remaining' = MaxNumLocks
          /\ migrated' = [l \in AnyLockInd |-> FALSE]
      BY <1>12, <2>1 DEF GrowInstall
    <2>3. OldPart' = OldPart
      BY <1>1, <1>2, <1>7, <2>2, LockIndType DEF OldPart
    <2>4. Filled'
      BY <1>1, <1>5, <1>8, <1>10, <2>2, <2>3 DEF Filled
    <2>5. Stored' = Stored
      BY <1>8, <2>2, <2>3 DEF Stored
    <2>6. Pending' = AnyLockInd /\ Cardinality(AnyLockInd) = MaxNumLocks
      <3>1. Pending' = AnyLockInd
        BY <2>2 DEF Pending
      <3>2. Cardinality(0 .. MaxNumLocks - 1) = MaxNumLocks
        BY FS_Interval, SizesAssumption
      <3> QED
        BY <3>1, <3>2 DEF AnyLockInd
    <2>7. n >= MaxNumLocks
      <3>1. oldHashpower \in 0 .. MaxHashpower
        <4>1. InitHashpower \in Nat /\ MaxHashpower \in Nat
          BY SizesAssumption
        <4> HIDE DEF n
        <4> QED
          BY <1>4, <4>1
      <3>2. n \in Nat
        BY <3>1, SizesMonotone
      <3> QED
        BY <1>12, <3>2, SizesAssumption
    <2>8. Doubled' /\ Waiting'
      BY <1>1, <1>4, <1>5, <2>1, <2>2, <2>7 DEF Doubled, NumLocks, Waiting, NoBuckets
    <2>9. Shape'
      BY <1>5, <1>6, <2>2, <2>6, <2>8 DEF Shape
    <2> QED
      BY <1>1, <2>4, <2>5, <2>9 DEF Idles
  <1> QED
    BY <1>11, <1>12
-----------------------------------------------------------------------------
(* The invariant.                                                          *)
Effect(t, S, S2) ==
  \/ Finds(t, S, S2) \/ Erases(t, S, S2) \/ Upserts(t, S, S2) \/ Clears(t, S, S2)
  \/ Dumps(t, S, S2) \/ Waves(t, S, S2) \/ Idles(t, S, S2)

LEMMA StepData ==
  ASSUME DataInv, ~ strayed', NEW t \in Threads, Invoke(t) \/ Step(t)
  PROVE  /\ Shape' /\ Filled'
         /\ (Invoke(t) /\ Stored' = Stored) \/ Effect(t, Stored, Stored')
  <1>1. CASE \/ Invoke(t) \/ LockStep(t) \/ StartGrow(t) \/ GrowThrows(t) \/ GrowTooLate(t)
             \/ LockAll(t) \/ UnlockNext(t) \/ Scan(t)
    BY <1>1, QuietSteps DEF Effect
  <1>2. CASE SimpleStep(t)
    BY <1>2, FindData, EraseData, InsertData DEF SimpleStep, Effect
  <1>3. CASE CuckooStep(t)
    BY <1>3, SearchData, HopData, LastHopData, PlaceData DEF CuckooStep, Effect
  <1>4. CASE ClearBody(t) \/ DumpBody(t)
    BY <1>4, ClearData, DumpData DEF Effect
  <1>5. CASE GrowLocks(t) \/ GrowSwap(t) \/ GrowInstall(t)
    BY <1>5, GrowLocksData, GrowSwapData, GrowInstallData DEF Effect
  <1> QED
    BY <1>1, <1>2, <1>3, <1>4, <1>5 DEF Step, GrowStep, TableStep

LEMMA NextDataInv ==
  ASSUME DataInv, NoStaleWaiter, [Next]_vars, ~ strayed'
  PROVE  DataInv'
  <1>1. LockInv'
    BY NextLockInv DEF DataInv
  <1>2. CASE UNCHANGED vars
    <2>1. UNCHANGED <<buckets, hashpower, oldBuckets, oldHashpower, migrated, remaining, curLocks,
                    pc, frame>>
      BY <1>2 DEF vars
    <2>2. /\ Installing' = Installing /\ Pending' = Pending /\ Doubled' = Doubled
          /\ Waiting' = Waiting
      BY <2>1 DEF Installing, Pending, Doubled, NumLocks, Waiting
    <2>3. NewPart' = NewPart /\ OldPart' = OldPart
      BY <2>1, <2>2 DEF NewPart, OldPart
    <2> QED
      BY <1>1, <2>1, <2>2, <2>3 DEF DataInv, Shape, Filled
  <1>3. CASE \E t \in Threads : Invoke(t) \/ Step(t)
    BY <1>1, <1>3, StepData DEF DataInv
  <1> QED
    BY <1>2, <1>3 DEF Next, Finished

LEMMA InitDataInv == Init => DataInv
  <1> SUFFICES ASSUME Init
               PROVE  DataInv
    OBVIOUS
  <1>1. LockInv
    BY InitLockInv
  <1>2. /\ \A t \in Threads : pc[t] = "idle"
        /\ buckets = NoBuckets /\ hashpower = InitHashpower /\ remaining = 0
        /\ oldBuckets = NoBuckets
        /\ migrated = [l \in AnyLockInd |-> TRUE]
    BY DEF Init
  <1>3. ~ Installing /\ Pending = {}
    BY <1>2 DEF Installing, Pending
  <1>4. Waiting
    BY <1>2 DEF Waiting, NoBuckets
  <1>5. Shape
    BY <1>2, <1>3, <1>4, FS_EmptySet, SizesAssumption DEF Shape
  <1>6. NewPart = NoBuckets
    BY <1>2, <1>3 DEF NewPart
  <1>7. OldPart = NoBuckets
    BY <1>2, <1>3, LockIndType DEF OldPart, NoBuckets
  <1>8. Filled
    BY <1>6, <1>7, EmptyTable DEF Filled, Good, Apart, Full, NoBuckets, NoItems
  <1> QED
    BY <1>1, <1>5, <1>8 DEF DataInv

(* The places of the runs' properties are those of the two parts.          *)
LEMMA PlacesOfParts ==
  /\ \A p \in NewPlaces : /\ p[1] \in Bucket /\ p[2] \in Slot /\ p = <<p[1], p[2]>>
                          /\ Full(NewPart, p[1], p[2])
                          /\ NewPart[p[1]][p[2]] = buckets[p[1]][p[2]]
  /\ \A p \in OldPlaces : /\ p[1] \in Bucket /\ p[2] \in Slot /\ p = <<p[1], p[2]>>
                          /\ Full(OldPart, p[1], p[2])
                          /\ OldPart[p[1]][p[2]] = oldBuckets[p[1]][p[2]]
  BY DEF NewPlaces, OldPlaces, NewPart, OldPart, Full

LEMMA NoDuplicates ==
  ASSUME Filled
  PROVE  NoDuplicateKey
  <1> SUFFICES ASSUME NEW k \in Keys
               PROVE  Cardinality(NewPlacesOf(k)) + Cardinality(OldPlacesOf(k)) <= 1
    BY DEF NoDuplicateKey
  <1>1. \A p, q \in NewPlacesOf(k) : p = q
    BY PlacesOfParts DEF NewPlacesOf, Filled, Good, Once
  <1>2. \A p, q \in OldPlacesOf(k) : p = q
    BY PlacesOfParts DEF OldPlacesOf, Filled, Good, Once
  <1>3. NewPlacesOf(k) = {} \/ OldPlacesOf(k) = {}
    BY PlacesOfParts DEF NewPlacesOf, OldPlacesOf, Filled, Good, Apart
  <1>4. ASSUME NEW S, \A p, q \in S : p = q
        PROVE  S = {} \/ \E p : S = {p}
    BY <1>4
  <1>5. Cardinality({}) = 0 /\ \A p : Cardinality({p}) = 1
    BY FS_EmptySet, FS_Singleton
  <1>6. /\ NewPlacesOf(k) = {} \/ \E p : NewPlacesOf(k) = {p}
        /\ OldPlacesOf(k) = {} \/ \E p : OldPlacesOf(k) = {p}
    BY <1>1, <1>2, <1>4
  <1>7. CASE NewPlacesOf(k) = {}
    <2>1. Cardinality(NewPlacesOf(k)) = 0
      BY <1>5, <1>7
    <2>2. Cardinality(OldPlacesOf(k)) = 0 \/ Cardinality(OldPlacesOf(k)) = 1
      BY <1>5, <1>6
    <2> QED
      BY <2>1, <2>2
  <1>8. CASE OldPlacesOf(k) = {}
    <2>1. Cardinality(OldPlacesOf(k)) = 0
      BY <1>5, <1>8
    <2>2. Cardinality(NewPlacesOf(k)) = 0 \/ Cardinality(NewPlacesOf(k)) = 1
      BY <1>5, <1>6
    <2> QED
      BY <2>1, <2>2
  <1> QED
    BY <1>3, <1>7, <1>8

LEMMA InTheirBuckets ==
  ASSUME Filled
  PROVE  EveryItemInItsBucket
  <1>1. ASSUME NEW p \in NewPlaces
        PROVE  p[1] \in Candidates(hashpower, buckets[p[1]][p[2]].key)
    <2>1. /\ p[1] \in Bucket /\ p[2] \in Slot /\ Full(NewPart, p[1], p[2])
          /\ NewPart[p[1]][p[2]] = buckets[p[1]][p[2]]
      BY PlacesOfParts
    <2>2. Placed(NewPart, hashpower)
      BY DEF Filled, Good
    <2>3. p[1] \in Candidates(hashpower, NewPart[p[1]][p[2]].key)
      BY <2>1, <2>2 DEF Placed
    <2> QED
      BY <2>1, <2>3
  <1>2. ASSUME NEW p \in OldPlaces
        PROVE  p[1] \in Candidates(oldHashpower, oldBuckets[p[1]][p[2]].key)
    <2>1. /\ p[1] \in Bucket /\ p[2] \in Slot /\ Full(OldPart, p[1], p[2])
          /\ OldPart[p[1]][p[2]] = oldBuckets[p[1]][p[2]]
      BY PlacesOfParts
    <2>2. Placed(OldPart, oldHashpower)
      BY DEF Filled, Good
    <2>3. p[1] \in Candidates(oldHashpower, OldPart[p[1]][p[2]].key)
      BY <2>1, <2>2 DEF Placed
    <2> QED
      BY <2>1, <2>3
  <1> QED
    BY <1>1, <1>2 DEF EveryItemInItsBucket

(* What becomes of the items until a stray unlock, while no stale waiter   *)
(* gets its lock in the middle of a swap, for any number of doublings and  *)
(* lock arrays.  Every item is in one of the two buckets of its key, at the*)
(* hashpower of the container it is in; no key is in the table twice; and  *)
(* lazy migration moves items into buckets that nothing was put in.        *)
THEOREM TableStaysSoundUnlessStale ==
  Spec /\ [](strayed \/ NoStaleWaiter)
    => [](strayed \/ (EveryItemInItsBucket /\ NoDuplicateKey /\ MigrationIsSafe))
  <1>1. (strayed \/ DataInv) /\ (strayed \/ NoStaleWaiter) /\ [Next]_vars
          => (strayed \/ DataInv)'
    BY NextDataInv, StrayedStays
  <1>2. DataInv => EveryItemInItsBucket /\ NoDuplicateKey
    BY InTheirBuckets, NoDuplicates DEF DataInv
  <1>3. DataInv => MigrationIsSafe
    BY DEF DataInv, Shape, Waiting, Pending, MigrationIsSafe
  <1>4. Init => strayed \/ DataInv
    BY InitDataInv
  <1> QED
    BY <1>1, <1>2, <1>3, <1>4, PTL DEF Spec

(* A table that doubles once has no stale waiter.                          *)
THEOREM TableStaysSoundUntilStray ==
  ASSUME DoublesAtMostOnce
  PROVE  Spec => [](strayed \/ (EveryItemInItsBucket /\ NoDuplicateKey /\ MigrationIsSafe))
  <1> QED
    BY NoStaleWaiters, TableStaysSoundUnlessStale, PTL

LEMMA TableStaysSound ==
  ASSUME AllLocksFromTheStart
  PROVE  Spec => [](EveryItemInItsBucket /\ NoDuplicateKey /\ MigrationIsSafe)
  <1> QED
    BY NoStaleWaiters, NothingStrays, TableStaysSoundUnlessStale, PTL

(* A table born with all its locks has neither of the two.  Every item is  *)
(* in one of the two buckets of its key, at the hashpower of the container *)
(* it is in, however calls, cuckoo moves, doublings and lazy migrations    *)
(* interleave.                                                             *)
THEOREM ItemsStayInTheirBuckets ==
  ASSUME AllLocksFromTheStart
  PROVE  Spec => []EveryItemInItsBucket
  <1> QED
    BY TableStaysSound, PTL

(* No key is in the table twice, nor once in the old buckets and once in   *)
(* the new: two inserts of a key that cuckoo at once do not both add it.   *)
THEOREM KeysStayUnique ==
  ASSUME AllLocksFromTheStart
  PROVE  Spec => []NoDuplicateKey
  <1> QED
    BY TableStaysSound, PTL

(* Lazy migration moves items into buckets that nothing was put in, and    *)
(* counts the locks it has left: the old buckets are freed with the last.  *)
THEOREM MigrationStaysSafe ==
  ASSUME AllLocksFromTheStart
  PROVE  Spec => []MigrationIsSafe
  <1> QED
    BY TableStaysSound, PTL
-----------------------------------------------------------------------------
(* The table implements the map of KvMap.  The items as a map from keys to *)
(* values, and what becomes of it when they change.                        *)
Distinct(S) == S \subseteq Item /\ \A x, y \in S : x.key = y.key => x = y

MapOf(S) == [k \in Keys |-> Lookup(S, k)]

LEMMA LookupItem ==
  ASSUME NEW S, Distinct(S), NEW x \in S
  PROVE  /\ x.key \in Keys /\ x.val \in Values /\ x.val # Missing
         /\ Has(S, x.key) /\ Lookup(S, x.key) = x.val
  <1>1. x \in Item /\ x.key \in Keys /\ x.val \in Values
    BY DEF Distinct, Item
  <1>2. Has(S, x.key)
    BY DEF Has
  <1>3. (CHOOSE y \in S : y.key = x.key) = x
    BY DEF Distinct
  <1> QED
    BY <1>1, <1>2, <1>3, ValuesAssumption DEF Lookup

LEMMA LookupNothing ==
  ASSUME NEW S, NEW k, ~ Has(S, k)
  PROVE  Lookup(S, k) = Missing
  BY DEF Lookup

LEMMA WithoutItem ==
  ASSUME NEW S, Distinct(S), NEW x \in S
  PROVE  /\ Distinct(S \ {x}) /\ ~ Has(S \ {x}, x.key)
         /\ MapOf(S \ {x}) = [MapOf(S) EXCEPT ![x.key] = Missing]
  <1>1. Distinct(S \ {x}) /\ ~ Has(S \ {x}, x.key)
    BY DEF Distinct, Has
  <1>2. ASSUME NEW k \in Keys
        PROVE  Lookup(S \ {x}, k) = IF k = x.key THEN Missing ELSE Lookup(S, k)
    <2>1. CASE k = x.key
      BY <1>1, <2>1, LookupNothing
    <2>2. CASE k # x.key /\ Has(S, k)
      <3>1. PICK y \in S : y.key = k
        BY <2>2 DEF Has
      <3>2. y \in S \ {x}
        BY <2>2, <3>1
      <3> QED
        BY <1>1, <2>2, <3>1, <3>2, LookupItem
    <2>3. CASE k # x.key /\ ~ Has(S, k)
      <3>1. ~ Has(S \ {x}, k)
        BY <2>3 DEF Has
      <3> QED
        BY <2>3, <3>1, LookupNothing
    <2> QED
      BY <2>1, <2>2, <2>3
  <1> QED
    BY <1>1, <1>2 DEF MapOf

LEMMA WithItem ==
  ASSUME NEW S, Distinct(S), NEW x \in Item, ~ Has(S, x.key)
  PROVE  /\ Distinct(S \cup {x})
         /\ MapOf(S \cup {x}) = [MapOf(S) EXCEPT ![x.key] = x.val]
  <1>1. Distinct(S \cup {x})
    BY DEF Distinct, Has
  <1>2. ASSUME NEW k \in Keys
        PROVE  Lookup(S \cup {x}, k) = IF k = x.key THEN x.val ELSE Lookup(S, k)
    <2>1. CASE k = x.key
      BY <1>1, <2>1, LookupItem
    <2>2. CASE k # x.key /\ Has(S, k)
      <3>1. PICK y \in S : y.key = k
        BY <2>2 DEF Has
      <3> QED
        BY <1>1, <2>2, <3>1, LookupItem
    <2>3. CASE k # x.key /\ ~ Has(S, k)
      <3>1. ~ Has(S \cup {x}, k)
        BY <2>3 DEF Has
      <3> QED
        BY <2>3, <3>1, LookupNothing
    <2> QED
      BY <2>1, <2>2, <2>3
  <1> QED
    BY <1>1, <1>2 DEF MapOf

LEMMA OtherItem ==
  ASSUME NEW S, Distinct(S), NEW x \in S, NEW y \in Item, y.key = x.key
  PROVE  MapOf((S \ {x}) \cup {y}) = [MapOf(S) EXCEPT ![x.key] = y.val]
  <1>1. /\ Distinct(S \ {x}) /\ ~ Has(S \ {x}, y.key)
        /\ MapOf(S \ {x}) = [MapOf(S) EXCEPT ![x.key] = Missing]
    BY WithoutItem
  <1>2. MapOf((S \ {x}) \cup {y}) = [MapOf(S \ {x}) EXCEPT ![x.key] = y.val]
    BY <1>1, WithItem
  <1> QED
    BY <1>1, <1>2 DEF MapOf

(* The map the callers see is that of the items stored.                    *)
LEMMA StoredDistinct ==
  ASSUME TablesOK, Filled
  PROVE  Distinct(Stored)
  <1>1. NewPart \in Table /\ OldPart \in Table
    BY PartTypes
  <1>2. ASSUME NEW T \in Table, NEW x \in ItemsIn(T)
        PROVE  x \in Item /\ \E b \in Bucket, s \in Slot : Full(T, b, s) /\ T[b][s] = x
    BY <1>2, FullItem DEF ItemsIn, Full
  <1>3. ASSUME NEW x \in Stored, NEW y \in Stored, x.key = y.key
        PROVE  x = y
    <2>1. CASE x \in ItemsIn(NewPart) /\ y \in ItemsIn(NewPart)
      BY <1>1, <1>2, <1>3, <2>1 DEF Filled, Good, Once
    <2>2. CASE x \in ItemsIn(OldPart) /\ y \in ItemsIn(OldPart)
      BY <1>1, <1>2, <1>3, <2>2 DEF Filled, Good, Once
    <2>3. CASE x \in ItemsIn(NewPart) /\ y \in ItemsIn(OldPart)
      BY <1>1, <1>2, <1>3, <2>3 DEF Filled, Good, Apart
    <2>4. CASE x \in ItemsIn(OldPart) /\ y \in ItemsIn(NewPart)
      BY <1>1, <1>2, <1>3, <2>4 DEF Filled, Good, Apart
    <2> QED
      BY <2>1, <2>2, <2>3, <2>4 DEF Stored
  <1> QED
    BY <1>1, <1>2, <1>3 DEF Distinct, Stored

LEMMA ContentsAreStored ==
  ASSUME TablesOK, Filled
  PROVE  Contents = MapOf(Stored)
  <1>1. NewPart \in Table /\ OldPart \in Table /\ Distinct(Stored)
    BY PartTypes, StoredDistinct
  <1>2. ASSUME NEW p \in NewPlaces
        PROVE  buckets[p[1]][p[2]] \in Stored
    <2>1. /\ p[1] \in Bucket /\ p[2] \in Slot /\ Full(NewPart, p[1], p[2])
          /\ NewPart[p[1]][p[2]] = buckets[p[1]][p[2]]
      BY PlacesOfParts
    <2>2. NewPart[p[1]][p[2]] \in ItemsIn(NewPart)
      BY <1>1, <2>1, FullItem, ItemsHere
    <2> QED
      BY <2>1, <2>2 DEF Stored
  <1>3. ASSUME NEW p \in OldPlaces
        PROVE  oldBuckets[p[1]][p[2]] \in Stored
    <2>1. /\ p[1] \in Bucket /\ p[2] \in Slot /\ Full(OldPart, p[1], p[2])
          /\ OldPart[p[1]][p[2]] = oldBuckets[p[1]][p[2]]
      BY PlacesOfParts
    <2>2. OldPart[p[1]][p[2]] \in ItemsIn(OldPart)
      BY <1>1, <2>1, FullItem, ItemsHere
    <2> QED
      BY <2>1, <2>2 DEF Stored
  <1>4. ASSUME NEW x \in Stored
        PROVE  NewPlacesOf(x.key) # {} \/ OldPlacesOf(x.key) # {}
    <2>1. CASE x \in ItemsIn(NewPart)
      <3>1. PICK b \in Bucket, s \in Slot : NewPart[b][s] = x /\ x # Empty
        BY <2>1 DEF ItemsIn
      <3>2. ~ Installing /\ buckets[b][s] = x
        BY <3>1 DEF NewPart, NoBuckets, NoItems
      <3>3. <<b, s>> \in NewPlacesOf(x.key)
        BY <3>1, <3>2 DEF NewPlacesOf, NewPlaces
      <3> QED
        BY <3>3
    <2>2. CASE x \in ItemsIn(OldPart)
      <3>1. PICK b \in Bucket, s \in Slot : OldPart[b][s] = x /\ x # Empty
        BY <2>2 DEF ItemsIn
      <3>2. /\ b < HashSize[oldHashpower]
            /\ Installing \/ ~ migrated[lock_ind(b)]
            /\ oldBuckets[b][s] = x
        BY <3>1 DEF OldPart, NoItems
      <3>3. <<b, s>> \in OldPlacesOf(x.key)
        BY <3>1, <3>2 DEF OldPlacesOf, OldPlaces
      <3> QED
        BY <3>3
    <2> QED
      BY <2>1, <2>2 DEF Stored
  <1>5. ASSUME NEW k \in Keys
        PROVE  (IF NewPlacesOf(k) # {}
                THEN LET p == CHOOSE p \in NewPlacesOf(k) : TRUE IN buckets[p[1]][p[2]].val
                ELSE IF OldPlacesOf(k) # {}
                THEN LET p == CHOOSE p \in OldPlacesOf(k) : TRUE IN oldBuckets[p[1]][p[2]].val
                ELSE Missing) = Lookup(Stored, k)
    <2>1. CASE NewPlacesOf(k) # {}
      <3> DEFINE p == CHOOSE p \in NewPlacesOf(k) : TRUE
      <3>1. p \in NewPlacesOf(k)
        BY <2>1
      <3> HIDE DEF p
      <3>2. buckets[p[1]][p[2]] \in Stored /\ buckets[p[1]][p[2]].key = k
        BY <1>2, <3>1 DEF NewPlacesOf
      <3>3. Lookup(Stored, k) = buckets[p[1]][p[2]].val
        BY <1>1, <3>2, LookupItem
      <3> QED
        BY <2>1, <3>3 DEF p
    <2>2. CASE NewPlacesOf(k) = {} /\ OldPlacesOf(k) # {}
      <3> DEFINE p == CHOOSE p \in OldPlacesOf(k) : TRUE
      <3>1. p \in OldPlacesOf(k)
        BY <2>2
      <3> HIDE DEF p
      <3>2. oldBuckets[p[1]][p[2]] \in Stored /\ oldBuckets[p[1]][p[2]].key = k
        BY <1>3, <3>1 DEF OldPlacesOf
      <3>3. Lookup(Stored, k) = oldBuckets[p[1]][p[2]].val
        BY <1>1, <3>2, LookupItem
      <3> QED
        BY <2>2, <3>3 DEF p
    <2>3. CASE NewPlacesOf(k) = {} /\ OldPlacesOf(k) = {}
      <3>1. ~ Has(Stored, k)
        BY <1>4, <2>3 DEF Has
      <3> QED
        BY <2>3, <3>1, LookupNothing
    <2> QED
      BY <2>1, <2>2, <2>3
  <1> QED
    BY <1>5 DEF Contents, MapOf

(* A call with an effect on the items is a step of the map.                *)
Effects(t, S, S2) ==
  /\ op[t] \in KeyOp \cup TableOp /\ op[t] # NoOp
  /\ Distinct(S) /\ Contents = MapOf(S) /\ Contents' = MapOf(S2)

LEMMA KeyOfCall ==
  ASSUME NEW t \in Threads, op[t] \in KeyOp \cup TableOp,
         op[t].kind \in {"find", "erase", "assign", "accum"}
  PROVE  op[t].key \in Keys /\ op[t].val \in Values /\ op[t].exist \in BOOLEAN
  BY DEF KeyOp, TableOp

LEMMA InMap ==
  ASSUME NEW S, NEW k \in Keys
  PROVE  /\ \A x \in S : Distinct(S) /\ x.key = k => MapOf(S)[k] = x.val /\ x.val # Missing
         /\ ~ Has(S, k) => MapOf(S)[k] = Missing
  BY LookupItem, LookupNothing DEF MapOf

LEMMA FindsInMap ==
  ASSUME NEW t \in Threads, NEW S, NEW S2, Effects(t, S, S2), Finds(t, S, S2)
  PROVE  KV!Find(t)
  <1> DEFINE k == op[t].key
  <1>1. k \in Keys /\ op[t] # NoOp /\ op[t].kind = "find" /\ Contents' = Contents
    BY KeyOfCall DEF Effects, Finds
  <1>2. CASE \E x \in S : x.key = k /\ Answers(t, "found", x.val)
    <2>1. PICK x \in S : x.key = k /\ Answers(t, "found", x.val)
      BY <1>2
    <2>2. Contents[k] = x.val /\ Contents[k] # Missing
      BY <1>1, <2>1, InMap DEF Effects
    <2> QED
      BY <1>1, <2>1, <2>2 DEF KV!Find, KV!Respond, KV!Present, KV!Answer, Answers
  <1>3. CASE ~ Has(S, k) /\ Answers(t, "absent", Missing)
    <2>1. Contents[k] = Missing
      BY <1>1, <1>3, InMap DEF Effects
    <2> QED
      BY <1>1, <1>3, <2>1 DEF KV!Find, KV!Respond, KV!Present, KV!Answer, Answers
  <1> QED
    BY <1>2, <1>3 DEF Finds

LEMMA ErasesInMap ==
  ASSUME NEW t \in Threads, NEW S, NEW S2, Effects(t, S, S2), Erases(t, S, S2)
  PROVE  KV!Erase(t)
  <1> DEFINE k == op[t].key
  <1>1. /\ k \in Keys /\ op[t] # NoOp /\ op[t].kind = "erase"
        /\ Contents = MapOf(S) /\ Contents' = MapOf(S2)
    BY KeyOfCall DEF Effects, Erases
  <1>2. CASE \E x \in S : x.key = k /\ S2 = S \ {x} /\ Answers(t, "erased", Missing)
    <2>1. PICK x \in S : x.key = k /\ S2 = S \ {x} /\ Answers(t, "erased", Missing)
      BY <1>2
    <2>2. Contents[k] # Missing /\ Contents' = [Contents EXCEPT ![k] = Missing]
      BY <1>1, <2>1, InMap, WithoutItem DEF Effects
    <2> QED
      BY <1>1, <2>1, <2>2 DEF KV!Erase, KV!Respond, KV!Present, KV!Answer, Answers
  <1>3. CASE ~ Has(S, k) /\ S2 = S /\ Answers(t, "absent", Missing)
    <2>1. Contents[k] = Missing
      BY <1>1, <1>3, InMap
    <2>2. Contents' = [Contents EXCEPT ![k] = Missing]
      BY <1>1, <1>3, <2>1 DEF MapOf
    <2> QED
      BY <1>1, <1>3, <2>1, <2>2 DEF KV!Erase, KV!Respond, KV!Present, KV!Answer, Answers
  <1> QED
    BY <1>2, <1>3 DEF Erases

LEMMA AssignsInMap ==
  ASSUME NEW t \in Threads, NEW S, NEW S2, Effects(t, S, S2), Upserts(t, S, S2),
         op[t].kind = "assign"
  PROVE  KV!Assign(t)
  <1> DEFINE k == op[t].key
             y == [key |-> k, val |-> op[t].val]
  <1>1. /\ k \in Keys /\ op[t] # NoOp /\ y \in Item /\ y.key = k /\ y.val = op[t].val
        /\ Contents = MapOf(S) /\ Contents' = MapOf(S2) /\ Distinct(S)
    BY KeyOfCall DEF Effects, Item
  <1>2. CASE Has(S, k) /\ Answers(t, "duplicate", Missing)
    <2>1. PICK x \in S : x.key = k
      BY <1>2 DEF Has
    <2>2. S2 = (S \ {x}) \cup {y}
      BY <1>1, <1>2, <2>1 DEF Upserts, Has, Distinct
    <2>3. Contents[k] # Missing
      BY <1>1, <2>1, InMap
    <2> HIDE DEF y
    <2>4. Contents' = [Contents EXCEPT ![k] = y.val]
      BY <1>1, <2>1, <2>2, OtherItem
    <2> QED
      BY <1>1, <1>2, <2>3, <2>4 DEF KV!Assign, KV!Respond, KV!Present, KV!Answer, Answers
  <1>3. CASE ~ Has(S, k) /\ Answers(t, "new", Missing) /\ S2 = S \cup {y}
    <2>1. Contents[k] = Missing
      BY <1>1, <1>3, InMap
    <2> HIDE DEF y
    <2>2. Contents' = [Contents EXCEPT ![k] = y.val]
      BY <1>1, <1>3, WithItem
    <2> QED
      BY <1>1, <1>3, <2>1, <2>2 DEF KV!Assign, KV!Respond, KV!Present, KV!Answer, Answers
  <1> QED
    BY <1>2, <1>3 DEF Upserts, Has

LEMMA AccumsInMap ==
  ASSUME NEW t \in Threads, NEW S, NEW S2, Effects(t, S, S2), Upserts(t, S, S2),
         op[t].kind = "accum"
  PROVE  KV!Accum(t)
  <1> DEFINE k == op[t].key
             Mine(v) == [key |-> k, val |-> v]
  <1>1. /\ k \in Keys /\ op[t] # NoOp /\ op[t].val \in Values /\ op[t].exist \in BOOLEAN
        /\ Contents = MapOf(S) /\ Contents' = MapOf(S2) /\ Distinct(S)
    BY KeyOfCall DEF Effects
  <1>2. \A v \in Values : Mine(v) \in Item /\ Mine(v).key = k /\ Mine(v).val = v
    BY <1>1 DEF Item
  <1>3. CASE \E x \in S : /\ x.key = k /\ op[t].exist /\ Answers(t, "duplicate", Missing)
                          /\ S2 = (S \ {x}) \cup {Mine(Add(x.val, op[t].val))}
    <2>1. PICK x \in S : /\ x.key = k /\ op[t].exist /\ Answers(t, "duplicate", Missing)
                         /\ S2 = (S \ {x}) \cup {Mine(Add(x.val, op[t].val))}
      BY <1>3
    <2>2. x.val = Contents[k] /\ Contents[k] # Missing /\ x.val \in Values
      BY <1>1, <2>1, InMap, LookupItem
    <2> DEFINE v == Add(x.val, op[t].val)
    <2>3. v \in Values
      BY <1>1, <2>2, ValuesAssumption
    <2>4. Contents' = [Contents EXCEPT ![k] = v]
      <3> DEFINE y == Mine(v)
      <3>1. y \in Item /\ y.key = k /\ y.val = v /\ S2 = (S \ {x}) \cup {y}
        BY <1>2, <2>1, <2>3
      <3> HIDE DEF y, v
      <3> QED
        BY <1>1, <2>1, <3>1, OtherItem
    <2>5. Contents' = [Contents EXCEPT ![k] = Add(@, op[t].val)]
      BY <2>2, <2>4
    <2> QED
      BY <1>1, <2>1, <2>2, <2>5 DEF KV!Accum, KV!Respond, KV!Present, KV!Answer, Answers
  <1>4. CASE Has(S, k) /\ ~ op[t].exist /\ S2 = S /\ Answers(t, "duplicate", Missing)
    <2>1. Contents[k] # Missing
      BY <1>1, <1>4, InMap DEF Has
    <2> QED
      BY <1>1, <1>4, <2>1 DEF KV!Accum, KV!Respond, KV!Present, KV!Answer, Answers
  <1>5. CASE ~ Has(S, k) /\ op[t].exist /\ S2 = S /\ Answers(t, "new", Missing)
    <2>1. Contents[k] = Missing
      BY <1>1, <1>5, InMap
    <2> QED
      BY <1>1, <1>5, <2>1 DEF KV!Accum, KV!Respond, KV!Present, KV!Answer, Answers
  <1>6. CASE /\ ~ Has(S, k) /\ ~ op[t].exist /\ S2 = S \cup {Mine(op[t].val)}
             /\ Answers(t, "new", Missing)
    <2>1. Contents[k] = Missing
      BY <1>1, <1>6, InMap
    <2>2. Contents' = [Contents EXCEPT ![k] = op[t].val]
      <3> DEFINE y == Mine(op[t].val)
      <3>1. y \in Item /\ y.key = k /\ y.val = op[t].val /\ S2 = S \cup {y}
        BY <1>1, <1>2, <1>6
      <3> HIDE DEF y
      <3> QED
        BY <1>1, <1>6, <3>1, WithItem
    <2> QED
      BY <1>1, <1>6, <2>1, <2>2 DEF KV!Accum, KV!Respond, KV!Present, KV!Answer, Answers
  <1> QED
    BY <1>1, <1>3, <1>4, <1>5, <1>6 DEF Upserts, Has

LEMMA ClearsInMap ==
  ASSUME NEW t \in Threads, NEW S, NEW S2, Effects(t, S, S2), Clears(t, S, S2)
  PROVE  KV!Clear(t)
  <1>1. \A k \in Keys : Lookup({}, k) = Missing
    BY DEF Lookup, Has
  <1>2. MapOf({}) = [k \in Keys |-> Missing]
    BY <1>1 DEF MapOf
  <1> QED
    BY <1>2 DEF Effects, Clears, KV!Clear, KV!Respond, KV!Answer, Answers

LEMMA DumpsInMap ==
  ASSUME NEW t \in Threads, NEW S, NEW S2, Effects(t, S, S2), Dumps(t, S, S2)
  PROVE  KV!Dump(t)
  BY DEF Effects, Dumps, MapOf, KV!Dump, KV!Respond, KV!Answer, Answers

LEMMA WavesInMap ==
  ASSUME NEW t \in Threads, NEW S, NEW S2, Effects(t, S, S2), Waves(t, S, S2),
         DOMAIN ans = Threads
  PROVE  KV!Throw(t) \/ KV!Size(t) \/ UNCHANGED KV!kvVars
  <1>1. op[t] # NoOp /\ Contents' = Contents
    BY DEF Effects, Waves
  <1>2. CASE op[t].kind = "size" /\ \E val \in Int : Answers(t, "size", val)
    <2>1. PICK val \in Int : Answers(t, "size", val)
      BY <1>2
    <2>2. ans'[t].val = val
      BY <2>1 DEF Answers
    <2> QED
      BY <1>1, <1>2, <2>1, <2>2 DEF KV!Size, KV!Respond, KV!Answer, Answers
  <1>3. CASE op[t].kind \in {"assign", "accum"} /\ Answers(t, "throw", Missing)
    BY <1>1, <1>3 DEF KV!Throw, KV!Respond, KV!Answer, Answers
  <1>4. CASE op' = op /\ ans' = ans
    BY <1>1, <1>4 DEF KV!kvVars
  <1> QED
    BY <1>2, <1>3, <1>4 DEF Waves

LEMMA EffectsInMap ==
  ASSUME NEW t \in Threads, NEW S, NEW S2, Effects(t, S, S2), Effect(t, S, S2),
         DOMAIN ans = Threads
  PROVE  KV!Step(t) \/ UNCHANGED KV!kvVars
  <1>1. CASE Finds(t, S, S2)
    BY <1>1, FindsInMap DEF KV!Step
  <1>2. CASE Erases(t, S, S2)
    BY <1>2, ErasesInMap DEF KV!Step
  <1>3. CASE Upserts(t, S, S2)
    <2>1. op[t].kind \in {"assign", "accum"}
      BY <1>3 DEF Upserts
    <2> QED
      BY <1>3, <2>1, AssignsInMap, AccumsInMap DEF KV!Step
  <1>4. CASE Clears(t, S, S2)
    BY <1>4, ClearsInMap DEF KV!Step
  <1>5. CASE Dumps(t, S, S2)
    BY <1>5, DumpsInMap DEF KV!Step
  <1>6. CASE Waves(t, S, S2)
    BY <1>6, WavesInMap DEF KV!Step
  <1>7. CASE Idles(t, S, S2)
    BY <1>7 DEF Effects, Idles, KV!kvVars
  <1> QED
    BY <1>1, <1>2, <1>3, <1>4, <1>5, <1>6, <1>7 DEF Effect

KvInv == DataInv /\ DOMAIN ans = Threads
Shows == Contents = MapOf(Stored)

LEMMA KvInvShows == KvInv => Shows
  BY ContentsAreStored, LockInvParts DEF KvInv, DataInv, Shows

LEMMA NextKvInv ==
  ASSUME KvInv, NoStaleWaiter, [Next]_vars, ~ strayed'
  PROVE  KvInv'
  <1>1. DataInv'
    BY NextDataInv DEF KvInv
  <1>2. CASE UNCHANGED vars
    BY <1>1, <1>2 DEF vars, KvInv
  <1>3. CASE \E t \in Threads : Invoke(t) \/ Step(t)
    <2>1. PICK t \in Threads : Invoke(t) \/ Step(t)
      BY <1>3
    <2>2. Invoke(t) \/ Effect(t, Stored, Stored')
      BY <2>1, StepData DEF KvInv
    <2>3. ans' = ans \/ \E a : ans' = [ans EXCEPT ![t] = a]
      BY <2>2 DEF Invoke, Effect, Finds, Erases, Upserts, Clears, Dumps, Waves, Idles, Answers
    <2> QED
      BY <1>1, <2>3 DEF KvInv
  <1> QED
    BY <1>2, <1>3 DEF Next, Finished

LEMMA StepInMap ==
  ASSUME KvInv, Shows, Shows', ~ strayed', NEW t \in Threads, Invoke(t) \/ Step(t)
  PROVE  KV!Invoke(t) \/ KV!Step(t) \/ UNCHANGED KV!kvVars
  <1>1. /\ Shape' /\ Filled'
        /\ (Invoke(t) /\ Stored' = Stored) \/ Effect(t, Stored, Stored')
    BY StepData DEF KvInv
  <1>2. TablesOK /\ ThreadsOK
    BY LockInvParts DEF KvInv, DataInv
  <1>3. Contents = MapOf(Stored) /\ Distinct(Stored)
    BY <1>2, StoredDistinct DEF KvInv, DataInv, Shows
  <1>4. Contents' = MapOf(Stored')
    BY DEF Shows, MapOf, Lookup, Has
  <1>5. CASE Invoke(t) /\ Stored' = Stored
    <2>1. op[t] = NoOp
      BY <1>2, <1>5, ThreadHere DEF Invoke, Fits
    <2>2. Contents' = Contents
      BY <1>3, <1>4, <1>5
    <2> QED
      BY <1>5, <2>1, <2>2 DEF Invoke, KV!Invoke, KV!NoAnswer, NoAnswer
  <1>6. CASE ~ (Invoke(t) /\ Stored' = Stored)
    <2>1. Effect(t, Stored, Stored')
      BY <1>1, <1>6
    <2>2. CASE pc[t] = "idle"
      <3>1. Invoke(t)
        BY <2>2 DEF Step, LockStep, SimpleStep, CuckooStep, GrowStep, TableStep, Snapshot,
               PickLocks, LockFirst, LockNext, FindBody, EraseBody, InsertBody, InBody, Search,
               Trace, HopBody, LastHopBody, PlaceBody, StartGrow, GrowThrows, GrowTooLate,
               GrowLocks, GrowSwap, GrowInstall, LockAll, UnlockNext, ClearBody, DumpBody, Scan,
               Exclusive
      <3> QED
        BY <1>6, <3>1, QuietSteps DEF KvInv
    <2>3. CASE pc[t] = "unlock"
      <3>1. UnlockNext(t)
        BY <2>3 DEF Invoke, Step, LockStep, SimpleStep, CuckooStep, GrowStep, TableStep, Snapshot,
               PickLocks, LockFirst, LockNext, FindBody, EraseBody, InsertBody, InBody, Search,
               Trace, HopBody, LastHopBody, PlaceBody, StartGrow, GrowThrows, GrowTooLate,
               GrowLocks, GrowSwap, GrowInstall, LockAll, ClearBody, DumpBody, Scan, Exclusive
      <3>2. Stored' = Stored /\ op' = op /\ ans' = ans
        BY <3>1, QuietSteps DEF KvInv, UnlockNext, callVars
      <3> QED
        BY <1>3, <1>4, <3>2 DEF KV!kvVars
    <2>4. CASE pc[t] \notin {"idle", "unlock"}
      <3>1. op[t] \in KeyOp \cup TableOp /\ op[t] # NoOp
        BY <1>2, <2>4, ThreadHere DEF Fits, Calls
      <3>2. Effects(t, Stored, Stored')
        BY <1>3, <1>4, <3>1 DEF Effects
      <3> QED
        BY <2>1, <3>2, EffectsInMap DEF KvInv
    <2> QED
      BY <2>2, <2>3, <2>4
  <1> QED
    BY <1>5, <1>6

LEMMA NextInMap ==
  ASSUME KvInv, Shows, Shows', [Next]_vars, ~ strayed'
  PROVE  [KV!Next]_(KV!kvVars)
  <1>1. CASE UNCHANGED vars
    <2>1. op' = op /\ ans' = ans /\ Contents' = Contents
      BY <1>1 DEF vars, Contents, NewPlacesOf, OldPlacesOf, NewPlaces, OldPlaces, Installing
    <2> QED
      BY <2>1 DEF KV!kvVars
  <1>2. CASE \E t \in Threads : Invoke(t) \/ Step(t)
    <2>1. PICK t \in Threads : Invoke(t) \/ Step(t)
      BY <1>2
    <2> QED
      BY <2>1, StepInMap DEF KV!Next
  <1> QED
    BY <1>1, <1>2 DEF Next, Finished

LEMMA InitInMap == Init => KvInv /\ KV!Init
  <1> SUFFICES ASSUME Init
               PROVE  KvInv /\ KV!Init
    OBVIOUS
  <1>1. KvInv
    BY InitDataInv DEF KvInv, Init
  <1>2. TablesOK
    BY <1>1, LockInvParts DEF KvInv, DataInv
  <1>3. NewPart = NoBuckets /\ OldPart = NoBuckets
    <2>1. /\ \A t \in Threads : pc[t] # "install"
          /\ buckets = NoBuckets /\ oldBuckets = NoBuckets
      BY DEF Init
    <2> QED
      BY <2>1 DEF NewPart, OldPart, NoBuckets, Installing
  <1>4. Stored = {}
    BY <1>3, EmptyTable DEF Stored
  <1>5. \A k \in Keys : Lookup({}, k) = Missing
    BY DEF Lookup, Has
  <1>6. Contents = [k \in Keys |-> Missing]
    BY <1>1, <1>2, <1>4, <1>5, ContentsAreStored DEF KvInv, DataInv, MapOf
  <1> QED
    BY <1>1, <1>6 DEF Init, KV!Init, KV!NoAnswer, NoAnswer

(* To its callers the table is a map: every find, insert, accumulate,      *)
(* erase, clear and lock_table takes effect at one instant between its     *)
(* call and its return, and no cuckoo move, doubling or migration shows.   *)
(* So it is until a stray unlock, for any number of doublings, while no    *)
(* stale waiter gets its lock in the middle of a swap...                   *)
THEOREM TableIsAMapUnlessStale ==
  Spec /\ [](strayed \/ NoStaleWaiter) => KvSpecUntilStray
  <1>1. (strayed \/ KvInv) /\ (strayed \/ NoStaleWaiter) /\ [Next]_vars
          => (strayed \/ KvInv)'
    BY NextKvInv, StrayedStays
  <1>2. (strayed \/ KvInv) /\ (strayed \/ KvInv)' /\ [Next]_vars
          => [KV!Next \/ strayed']_<<Contents, op, ans>>
    <2>1. SUFFICES ASSUME strayed \/ KvInv, (strayed \/ KvInv)', [Next]_vars, ~ strayed'
                   PROVE  [KV!Next]_<<Contents, op, ans>>
      OBVIOUS
    <2>2. KvInv /\ KvInv'
      BY <2>1, StrayedStays
    <2>3. Shows /\ Shows'
      BY <2>2, KvInvShows, PTL
    <2>4. [KV!Next]_(KV!kvVars)
      BY <2>1, <2>2, <2>3, NextInMap
    <2> QED
      BY <2>4 DEF KV!kvVars
  <1>3. Init => strayed \/ KvInv
    BY InitInMap
  <1>4. Init => KV!Init
    BY InitInMap
  <1> QED
    BY <1>1, <1>2, <1>3, <1>4, PTL DEF Spec, KvSpecUntilStray

(* ...in a table that doubles once there is none...                        *)
THEOREM TableIsAMapUntilStray ==
  ASSUME DoublesAtMostOnce
  PROVE  Spec => KvSpecUntilStray
  <1> QED
    BY NoStaleWaiters, TableIsAMapUnlessStale, PTL

(* ...and a table born with all its locks is a map, with no more to say.   *)
THEOREM TableIsAMap ==
  ASSUME AllLocksFromTheStart
  PROVE  Spec => KvSpec
  <1>1. Spec => KvSpecUntilStray
    BY NoStaleWaiters, TableIsAMapUnlessStale, PTL
  <1>2. (~ strayed)' /\ [KV!Next \/ strayed']_<<Contents, op, ans>>
          => [KV!Next]_(KV!kvVars)
    BY DEF KV!kvVars
  <1> QED
    BY NothingStrays, <1>1, <1>2, PTL DEF KvSpec, KvSpecUntilStray, KV!Spec
-----------------------------------------------------------------------------
(* A sum over a finite set, as MapThenSumSet defines it: by a function on  *)
(* the subsets that takes their elements one by one.                       *)
First(s) == CHOOSE x \in s : TRUE
Adds(g, f, S) == g = [s \in SUBSET S |-> IF s = {} THEN 0 ELSE f[First(s)] + g[s \ {First(s)}]]
Sum(f, S) == (CHOOSE g : Adds(g, f, S))[S]

(* A set of subsets of a finite set has a smallest one.                    *)
LEMMA SmallestSet ==
  ASSUME NEW S, IsFiniteSet(S), NEW P, P \subseteq SUBSET S, P # {}
  PROVE  \E x \in P : \A y \in P : y \subseteq x => y = x
  <1>1. IsWellFoundedOn(StrictSubsetOrdering(S), SUBSET S)
    BY FS_StrictSubsetOrderingWellFounded, FS_FiniteSubsetsOfFinite
  <1>2. PICK x \in P : \A y \in P : <<y, x>> \notin StrictSubsetOrdering(S)
    BY <1>1, WFMin
  <1> QED
    BY <1>2 DEF StrictSubsetOrdering

LEMMA FirstIn ==
  ASSUME NEW s, s # {}
  PROVE  First(s) \in s /\ s \ {First(s)} # s /\ s \ {First(s)} \subseteq s
  BY DEF First

LEMMA AddsAt ==
  ASSUME NEW f, NEW S, NEW g, Adds(g, f, S), NEW s \in SUBSET S
  PROVE  /\ s = {} => g[s] = 0
         /\ s # {} => g[s] = f[First(s)] + g[s \ {First(s)}]
  BY DEF Adds

LEMMA AddsAgree ==
  ASSUME NEW f, NEW A, NEW B, NEW h, NEW k, Adds(h, f, A), Adds(k, f, B),
         NEW s, s \subseteq A, s \subseteq B, IsFiniteSet(s)
  PROVE  h[s] = k[s]
  <1> DEFINE P == {u \in SUBSET s : h[u] # k[u]}
  <1> SUFFICES ASSUME P # {}
               PROVE  FALSE
    OBVIOUS
  <1>1. PICK u \in P : \A y \in P : y \subseteq u => y = u
    <2>1. P \subseteq SUBSET s
      OBVIOUS
    <2> HIDE DEF P
    <2> QED
      BY <2>1, SmallestSet
  <1>2. u \in SUBSET A /\ u \in SUBSET B /\ u \in SUBSET s /\ h[u] # k[u]
    OBVIOUS
  <1> HIDE DEF P
  <1>3. /\ u = {} => h[u] = 0
        /\ u # {} => h[u] = f[First(u)] + h[u \ {First(u)}]
    BY <1>2, AddsAt
  <1>4. /\ u = {} => k[u] = 0
        /\ u # {} => k[u] = f[First(u)] + k[u \ {First(u)}]
    BY <1>2, AddsAt
  <1>5. u # {} /\ h[u \ {First(u)}] # k[u \ {First(u)}]
    BY <1>2, <1>3, <1>4
  <1>6. u \ {First(u)} \in P
    BY <1>2, <1>5 DEF P
  <1> QED
    BY <1>1, <1>5, <1>6, FirstIn

(* Where there is such a function, there is the sum...                     *)
LEMMA SumOfAdds ==
  ASSUME NEW f, NEW S, NEW g, Adds(g, f, S), NEW s, s \subseteq S, IsFiniteSet(s)
  PROVE  Sum(f, s) = g[s]
  <1> DEFINE h == [u \in SUBSET s |-> g[u]]
  <1>1. Adds(h, f, s)
    <2>1. \A u \in SUBSET s : u \in SUBSET S /\ u \ {First(u)} \in SUBSET s
      OBVIOUS
    <2>2. \A u \in SUBSET s :
            g[u] = IF u = {} THEN 0 ELSE f[First(u)] + g[u \ {First(u)}]
      <3> TAKE u \in SUBSET s
      <3>1. /\ u = {} => g[u] = 0
            /\ u # {} => g[u] = f[First(u)] + g[u \ {First(u)}]
        BY <2>1, AddsAt
      <3> QED
        BY <3>1
    <2>3. \A u \in SUBSET s : h[u] = IF u = {} THEN 0 ELSE f[First(u)] + h[u \ {First(u)}]
      BY <2>1, <2>2
    <2>4. h = [u \in SUBSET s |-> h[u]]
      OBVIOUS
    <2> HIDE DEF h
    <2>5. h = [u \in SUBSET s |-> IF u = {} THEN 0 ELSE f[First(u)] + h[u \ {First(u)}]]
      BY <2>3, <2>4
    <2> QED
      BY <2>5 DEF Adds
  <1>2. Adds(CHOOSE k : Adds(k, f, s), f, s)
    BY <1>1
  <1>3. (CHOOSE k : Adds(k, f, s))[s] = g[s]
    BY <1>2, AddsAgree
  <1> QED
    BY <1>3 DEF Sum

(* ...and there is, for every finite set.                                  *)
LEMMA AddsExists ==
  ASSUME NEW f, NEW S, IsFiniteSet(S)
  PROVE  \E g : Adds(g, f, S)
  <1> DEFINE P == {u \in SUBSET S : ~ \E g : Adds(g, f, u)}
  <1> SUFFICES ASSUME P # {}
               PROVE  FALSE
    OBVIOUS
  <1>1. PICK T \in P : \A y \in P : y \subseteq T => y = T
    <2>1. P \subseteq SUBSET S
      OBVIOUS
    <2> HIDE DEF P
    <2> QED
      BY <2>1, SmallestSet
  <1>2. T \in SUBSET S /\ ~ \E g : Adds(g, f, T)
    OBVIOUS
  <1>3. \A u \in SUBSET T : u # T => \E g : Adds(g, f, u)
    BY <1>1, <1>2
  <1>4. \A u \in SUBSET T : IsFiniteSet(u)
    BY <1>2, FS_Subset
  <1> DEFINE G(u) == IF u = {} THEN 0 ELSE f[First(u)] + Sum(f, u \ {First(u)})
             g == [u \in SUBSET T |-> G(u)]
  <1>5. \A u \in SUBSET T : u # T => Sum(f, u) = G(u)
    <2> SUFFICES ASSUME NEW u \in SUBSET T, u # T
                 PROVE  Sum(f, u) = G(u)
      OBVIOUS
    <2>1. PICK h : Adds(h, f, u)
      BY <1>3
    <2>2. IsFiniteSet(u) /\ IsFiniteSet(u \ {First(u)}) /\ u \ {First(u)} \in SUBSET u
      BY <1>4
    <2>3. Sum(f, u) = h[u] /\ Sum(f, u \ {First(u)}) = h[u \ {First(u)}]
      BY <2>1, <2>2, SumOfAdds
    <2>4. u \in SUBSET u
      OBVIOUS
    <2> QED
      BY <2>1, <2>3, <2>4, AddsAt
  <1>6. \A u \in SUBSET T : g[u] = IF u = {} THEN 0 ELSE f[First(u)] + g[u \ {First(u)}]
    <2> SUFFICES ASSUME NEW u \in SUBSET T, u # {}
                 PROVE  G(u) = f[First(u)] + G(u \ {First(u)})
      OBVIOUS
    <2>1. u \ {First(u)} \in SUBSET T /\ u \ {First(u)} # T
      BY FirstIn
    <2>2. G(u \ {First(u)}) = Sum(f, u \ {First(u)})
      BY <1>5, <2>1
    <2> HIDE DEF G
    <2>3. G(u) = f[First(u)] + Sum(f, u \ {First(u)})
      BY DEF G
    <2> QED
      BY <2>2, <2>3
  <1>7. g = [u \in SUBSET T |-> g[u]]
    OBVIOUS
  <1> HIDE DEF g
  <1>8. g = [u \in SUBSET T |-> IF u = {} THEN 0 ELSE f[First(u)] + g[u \ {First(u)}]]
    BY <1>6, <1>7
  <1> QED
    BY <1>2, <1>8 DEF Adds

LEMMA SumStep ==
  ASSUME NEW f, NEW S, IsFiniteSet(S)
  PROVE  /\ Sum(f, {}) = 0
         /\ S # {} => Sum(f, S) = f[First(S)] + Sum(f, S \ {First(S)})
  <1>1. PICK g : Adds(g, f, S)
    BY AddsExists
  <1>2. /\ IsFiniteSet({}) /\ {} \in SUBSET S /\ S \in SUBSET S
        /\ IsFiniteSet(S \ {First(S)}) /\ S \ {First(S)} \in SUBSET S
    BY FS_Subset, FS_EmptySet
  <1>3. Sum(f, {}) = g[{}] /\ Sum(f, S) = g[S] /\ Sum(f, S \ {First(S)}) = g[S \ {First(S)}]
    BY <1>1, <1>2, SumOfAdds
  <1> QED
    BY <1>1, <1>2, <1>3, AddsAt

LEMMA SumType ==
  ASSUME NEW f, NEW S, IsFiniteSet(S), \A x \in S : f[x] \in Int
  PROVE  Sum(f, S) \in Int
  <1> DEFINE P == {u \in SUBSET S : Sum(f, u) \notin Int}
  <1> SUFFICES ASSUME P # {}
               PROVE  FALSE
    OBVIOUS
  <1>1. PICK u \in P : \A y \in P : y \subseteq u => y = u
    <2>1. P \subseteq SUBSET S
      OBVIOUS
    <2> HIDE DEF P
    <2> QED
      BY <2>1, SmallestSet
  <1>2. u \in SUBSET S /\ Sum(f, u) \notin Int /\ IsFiniteSet(u)
    BY FS_Subset
  <1>3. u # {}
    BY <1>2, SumStep
  <1>4. Sum(f, u \ {First(u)}) \in Int
    BY <1>1, <1>2, <1>3, FirstIn
  <1>5. Sum(f, u) = f[First(u)] + Sum(f, u \ {First(u)})
    BY <1>2, <1>3, SumStep
  <1>6. f[First(u)] \in Int
    BY <1>2, <1>3, FirstIn
  <1> QED
    BY <1>2, <1>4, <1>5, <1>6

(* It does not matter which element is taken.                              *)
LEMMA SumTake ==
  ASSUME NEW f, NEW S, IsFiniteSet(S), \A x \in S : f[x] \in Int, NEW x \in S
  PROVE  Sum(f, S) = f[x] + Sum(f, S \ {x})
  <1> DEFINE P == {u \in SUBSET S : \E y \in u : Sum(f, u) # f[y] + Sum(f, u \ {y})}
  <1> SUFFICES ASSUME P # {}
               PROVE  FALSE
    OBVIOUS
  <1>1. PICK u \in P : \A v \in P : v \subseteq u => v = u
    <2>1. P \subseteq SUBSET S
      OBVIOUS
    <2> HIDE DEF P
    <2> QED
      BY <2>1, SmallestSet
  <1>2. u \in SUBSET S /\ IsFiniteSet(u)
    BY FS_Subset
  <1>3. PICK y \in u : Sum(f, u) # f[y] + Sum(f, u \ {y})
    OBVIOUS
  <1> DEFINE c == First(u)
  <1>4. c \in u /\ Sum(f, u) = f[c] + Sum(f, u \ {c})
    BY <1>2, <1>3, SumStep, FirstIn
  <1> HIDE DEF c
  <1>5. y # c
    BY <1>3, <1>4
  <1>6. Sum(f, u \ {c}) = f[y] + Sum(f, (u \ {c}) \ {y})
    BY <1>1, <1>2, <1>4, <1>5
  <1>7. Sum(f, u \ {y}) = f[c] + Sum(f, (u \ {y}) \ {c})
    BY <1>1, <1>2, <1>3, <1>4, <1>5
  <1>8. Sum(f, (u \ {y}) \ {c}) = Sum(f, (u \ {c}) \ {y})
    <2>1. (u \ {y}) \ {c} = (u \ {c}) \ {y}
      OBVIOUS
    <2> QED
      BY <2>1
  <1> HIDE DEF P
  <1>9. f[c] \in Int /\ f[y] \in Int /\ Sum(f, (u \ {y}) \ {c}) \in Int
    <2>1. IsFiniteSet((u \ {y}) \ {c}) /\ (u \ {y}) \ {c} \subseteq S
      BY <1>2, FS_Subset
    <2> QED
      BY <1>2, <1>4, <2>1, SumType
  <1> QED
    BY <1>3, <1>4, <1>6, <1>7, <1>8, <1>9

LEMMA SumSame ==
  ASSUME NEW f, NEW g, NEW S, IsFiniteSet(S), \A x \in S : f[x] = g[x]
  PROVE  Sum(f, S) = Sum(g, S)
  <1> DEFINE P == {u \in SUBSET S : Sum(f, u) # Sum(g, u)}
  <1> SUFFICES ASSUME P # {}
               PROVE  FALSE
    OBVIOUS
  <1>1. PICK u \in P : \A v \in P : v \subseteq u => v = u
    <2>1. P \subseteq SUBSET S
      OBVIOUS
    <2> HIDE DEF P
    <2> QED
      BY <2>1, SmallestSet
  <1>2. u \in SUBSET S /\ IsFiniteSet(u) /\ Sum(f, u) # Sum(g, u)
    BY FS_Subset
  <1>3. u # {}
    BY <1>2, SumStep
  <1>4. Sum(f, u \ {First(u)}) = Sum(g, u \ {First(u)}) /\ f[First(u)] = g[First(u)]
    BY <1>1, <1>2, <1>3, FirstIn
  <1> QED
    BY <1>2, <1>3, <1>4, SumStep

LEMMA SumWithZeros ==
  ASSUME NEW f, NEW S, IsFiniteSet(S), \A x \in S : f[x] \in Int,
         NEW A, A \subseteq S, \A x \in S \ A : f[x] = 0
  PROVE  Sum(f, S) = Sum(f, A)
  <1> DEFINE P == {u \in SUBSET S : A \subseteq u /\ Sum(f, u) # Sum(f, A)}
  <1> SUFFICES ASSUME P # {}
               PROVE  FALSE
    OBVIOUS
  <1>1. PICK u \in P : \A v \in P : v \subseteq u => v = u
    <2>1. P \subseteq SUBSET S
      OBVIOUS
    <2> HIDE DEF P
    <2> QED
      BY <2>1, SmallestSet
  <1>2. u \in SUBSET S /\ IsFiniteSet(u) /\ A \subseteq u /\ Sum(f, u) # Sum(f, A)
    BY FS_Subset
  <1>3. PICK x \in u : x \notin A
    BY <1>2
  <1>4. Sum(f, u) = f[x] + Sum(f, u \ {x}) /\ f[x] = 0 /\ Sum(f, u \ {x}) \in Int
    <2>1. IsFiniteSet(u \ {x}) /\ \A y \in u : f[y] \in Int
      BY <1>2, FS_Subset
    <2> QED
      BY <1>2, <1>3, <2>1, SumTake, SumType
  <1>5. Sum(f, u \ {x}) = Sum(f, A)
    BY <1>1, <1>2, <1>3
  <1> QED
    BY <1>2, <1>4, <1>5

LEMMA SumChange ==
  ASSUME NEW f, NEW g, NEW S, IsFiniteSet(S), \A x \in S : f[x] \in Int,
         NEW x \in S, NEW d \in Int, g[x] = f[x] + d, \A y \in S \ {x} : g[y] = f[y]
  PROVE  Sum(g, S) = Sum(f, S) + d
  <1>1. \A y \in S : g[y] \in Int
    OBVIOUS
  <1>2. Sum(f, S) = f[x] + Sum(f, S \ {x}) /\ Sum(g, S) = g[x] + Sum(g, S \ {x})
    BY <1>1, SumTake
  <1>3. IsFiniteSet(S \ {x})
    BY FS_Subset
  <1>4. Sum(g, S \ {x}) = Sum(f, S \ {x}) /\ Sum(f, S \ {x}) \in Int
    BY <1>3, SumSame, SumType
  <1> QED
    BY <1>2, <1>4

LEMMA SumOfSet ==
  ASSUME NEW cnt, NEW cur, NEW C
  PROVE  MapThenSumSet(LAMBDA l : cnt[<<cur, l>>], C) = Sum([l \in C |-> cnt[<<cur, l>>]], C)
  <1> DEFINE f == [l \in C |-> cnt[<<cur, l>>]]
             Is(g) == g = [s \in SUBSET C |->
                             IF s = {} THEN 0
                             ELSE cnt[<<cur, CHOOSE x \in s : TRUE>>] + g[s \ {CHOOSE x \in s : TRUE}]]
  <1>1. ASSUME NEW g
        PROVE  Adds(g, f, C) <=> Is(g)
    <2>1. \A s \in SUBSET C :
            s # {} => f[First(s)] = cnt[<<cur, CHOOSE x \in s : TRUE>>]
      BY FirstIn DEF First
    <2> HIDE DEF f
    <2>2. [s \in SUBSET C |-> IF s = {} THEN 0 ELSE f[First(s)] + g[s \ {First(s)}]]
          = [s \in SUBSET C |->
                             IF s = {} THEN 0
                             ELSE cnt[<<cur, CHOOSE x \in s : TRUE>>] + g[s \ {CHOOSE x \in s : TRUE}]]
      BY <2>1 DEF First
    <2> QED
      BY <2>2 DEF Adds
  <1>2. (CHOOSE g : Adds(g, f, C)) = (CHOOSE g : Is(g))
    BY <1>1
  <1>3. MapThenSumSet(LAMBDA l : cnt[<<cur, l>>], C) = (CHOOSE g : Is(g))[C]
    BY Zenon DEF MapThenSumSet, MapThenFoldSet
  <1> QED
    BY <1>2, <1>3 DEF Sum
-----------------------------------------------------------------------------
(* What the counters c of lock array g add up to.                          *)
Tally(c, g) == Sum([l \in LockInd(g) |-> c[<<g, l>>]], LockInd(g))

LEMMA CurrentSizeIsTally == CurrentSize = Tally(counter, curLocks)
  BY SumOfSet DEF CurrentSize, Tally

LEMMA LocksAreFinite ==
  ASSUME NEW g \in LockArray
  PROVE  IsFiniteSet(LockInd(g))
  <1>1. NumLocks(g) - 1 \in Int
    BY LocksOfArray
  <1> QED
    BY <1>1, FS_Interval DEF LockInd

LEMMA TallyType ==
  ASSUME NEW g \in LockArray, NEW c \in [LockId -> Int]
  PROVE  Tally(c, g) \in Int
  <1> DEFINE f == [l \in LockInd(g) |-> c[<<g, l>>]]
  <1>1. \A l \in LockInd(g) : f[l] \in Int
    BY LocksOfArray
  <1> HIDE DEF f
  <1>2. Sum(f, LockInd(g)) \in Int
    BY <1>1, LocksAreFinite, SumType
  <1> QED
    BY <1>2 DEF Tally, f

LEMMA TallyChange ==
  ASSUME NEW g \in LockArray, NEW c \in [LockId -> Int], NEW l \in LockInd(g), NEW d \in Int,
         NEW c2, c2 = [c EXCEPT ![<<g, l>>] = @ + d]
  PROVE  Tally(c2, g) = Tally(c, g) + d
  <1> DEFINE f == [x \in LockInd(g) |-> c[<<g, x>>]]
             h == [x \in LockInd(g) |-> c2[<<g, x>>]]
  <1>1. \A x \in LockInd(g) : <<g, x>> \in LockId
    BY LocksOfArray
  <1>2. \A x \in LockInd(g) : f[x] \in Int
    BY <1>1
  <1>3. c2[<<g, l>>] = c[<<g, l>>] + d
    BY <1>1
  <1>4. \A x \in LockInd(g) \ {l} : c2[<<g, x>>] = c[<<g, x>>]
    BY <1>1
  <1>5. h[l] = f[l] + d /\ \A x \in LockInd(g) \ {l} : h[x] = f[x]
    BY <1>3, <1>4
  <1> HIDE DEF f, h
  <1>6. Sum(h, LockInd(g)) = Sum(f, LockInd(g)) + d
    BY <1>2, <1>5, LocksAreFinite, SumChange
  <1> QED
    BY <1>6 DEF Tally, f, h

LEMMA TallyOfZeros ==
  ASSUME NEW g \in LockArray, NEW c, \A l \in LockInd(g) : c[<<g, l>>] = 0
  PROVE  Tally(c, g) = 0
  <1> DEFINE f == [l \in LockInd(g) |-> c[<<g, l>>]]
  <1>1. \A l \in LockInd(g) : f[l] = 0
    OBVIOUS
  <1> HIDE DEF f
  <1>2. IsFiniteSet(LockInd(g)) /\ {} \subseteq LockInd(g) /\ \A l \in LockInd(g) : f[l] \in Int
    BY <1>1, LocksAreFinite
  <1>3. Sum(f, LockInd(g)) = Sum(f, {})
    BY <1>1, <1>2, SumWithZeros
  <1>4. Sum(f, {}) = 0
    BY <1>2, SumStep
  <1> QED
    BY <1>3, <1>4 DEF Tally, f

(* A lock array has at least the locks of the one before.                  *)
LEMMA MoreLocks ==
  ASSUME NEW g \in LockArray, g + 1 \in LockArray
  PROVE  LockInd(g) \subseteq LockInd(g + 1)
  <1> DEFINE n == HashSize[InitHashpower + g]
             m == HashSize[InitHashpower + (g + 1)]
  <1>1. g \in Nat /\ InitHashpower + g \in 0 .. MaxHashpower - 1
        /\ InitHashpower + (g + 1) = (InitHashpower + g) + 1
    BY SizesAssumption DEF LockArray
  <1>2. n \in Nat /\ m = 2 * n
    BY <1>1, SizesAssumption
  <1> HIDE DEF n, m
  <1>3. MaxNumLocks \in Nat
    BY SizesAssumption
  <1>4. NumLocks(g) = IF n < MaxNumLocks THEN n ELSE MaxNumLocks
    BY DEF NumLocks, n
  <1>5. NumLocks(g + 1) = IF m < MaxNumLocks THEN m ELSE MaxNumLocks
    BY DEF NumLocks, m
  <1>6. NumLocks(g) <= NumLocks(g + 1) /\ NumLocks(g) \in Int /\ NumLocks(g + 1) \in Int
    BY <1>2, <1>3, <1>4, <1>5
  <1> QED
    BY <1>6 DEF LockInd

LEMMA TallyCopied ==
  ASSUME NEW g \in LockArray, g + 1 \in LockArray, NEW c \in [LockId -> Int],
         \A x \in LockId : x[1] > g => c[x] = 0,
         NEW c2, c2 = [x \in LockId |-> IF x[1] = g + 1 /\ x[2] \in LockInd(g)
                                        THEN c[<<g, x[2]>>] ELSE c[x]]
  PROVE  Tally(c2, g + 1) = Tally(c, g)
  <1> DEFINE f == [l \in LockInd(g) |-> c[<<g, l>>]]
             h == [l \in LockInd(g + 1) |-> c2[<<g + 1, l>>]]
  <1>1. /\ LockInd(g) \subseteq LockInd(g + 1) /\ g \in Nat
        /\ \A l \in LockInd(g + 1) : <<g + 1, l>> \in LockId
        /\ \A l \in LockInd(g) : <<g, l>> \in LockId
    BY MoreLocks, LocksOfArray DEF LockArray
  <1>2. \A l \in LockInd(g) : h[l] = f[l] /\ f[l] \in Int
    BY <1>1
  <1>3. \A l \in LockInd(g + 1) \ LockInd(g) : h[l] = 0
    <2> SUFFICES ASSUME NEW l \in LockInd(g + 1), l \notin LockInd(g)
                 PROVE  h[l] = 0
      OBVIOUS
    <2>1. h[l] = c[<<g + 1, l>>]
      BY <1>1
    <2>2. <<g + 1, l>>[1] > g
      BY <1>1
    <2> HIDE DEF h
    <2> QED
      BY <1>1, <2>1, <2>2
  <1> HIDE DEF f, h
  <1>4. \A l \in LockInd(g + 1) : h[l] \in Int
    BY <1>2, <1>3
  <1>5. Sum(h, LockInd(g + 1)) = Sum(h, LockInd(g))
    BY <1>1, <1>3, <1>4, LocksAreFinite, SumWithZeros
  <1>6. Sum(h, LockInd(g)) = Sum(f, LockInd(g))
    BY <1>2, LocksAreFinite, SumSame
  <1> QED
    BY <1>5, <1>6 DEF Tally, f, h
-----------------------------------------------------------------------------
(* As many places are taken as there are items.                            *)
PlacesIn(T) == {p \in Bucket \X Slot : Full(T, p[1], p[2])}

LEMMA OnePlaceEach ==
  ASSUME NEW T \in Table, Once(T)
  PROVE  /\ IsFiniteSet(PlacesIn(T)) /\ IsFiniteSet(ItemsIn(T))
         /\ Cardinality(PlacesIn(T)) = Cardinality(ItemsIn(T))
  <1> DEFINE P == PlacesIn(T)
             f == [p \in P |-> T[p[1]][p[2]]]
  <1>1. IsFiniteSet(Bucket \X Slot)
    <2>1. HashSize[MaxHashpower] - 1 \in Int /\ SlotsPerBucket - 1 \in Int
      BY SizesAssumption
    <2>2. IsFiniteSet(Bucket) /\ IsFiniteSet(Slot)
      BY <2>1, FS_Interval DEF Bucket, Slot
    <2> QED
      BY <2>2, FS_Product
  <1>2. IsFiniteSet(P)
    BY <1>1, FS_Subset DEF PlacesIn
  <1>3. \A p \in P : /\ p[1] \in Bucket /\ p[2] \in Slot /\ p = <<p[1], p[2]>>
                     /\ Full(T, p[1], p[2])
    BY DEF PlacesIn
  <1>4. \A p \in P : f[p] \in ItemsIn(T)
    BY <1>3 DEF Full, ItemsIn
  <1>5. \A x \in ItemsIn(T) : \E p \in P : f[p] = x
    <2> SUFFICES ASSUME NEW x \in ItemsIn(T)
                 PROVE  \E p \in P : f[p] = x
      OBVIOUS
    <2>1. PICK b \in Bucket, s \in Slot : T[b][s] = x /\ x # Empty
      BY DEF ItemsIn
    <2>2. <<b, s>> \in P
      BY <2>1 DEF PlacesIn, Full
    <2> QED
      BY <2>1, <2>2
  <1>6. \A p, q \in P : f[p] = f[q] => p = q
    <2> SUFFICES ASSUME NEW p \in P, NEW q \in P, f[p] = f[q]
                 PROVE  p = q
      OBVIOUS
    <2>1. T[p[1]][p[2]].key = T[q[1]][q[2]].key
      OBVIOUS
    <2>2. p[1] = q[1] /\ p[2] = q[2]
      BY <1>3, <2>1 DEF Once
    <2> QED
      BY <1>3, <2>2
  <1> HIDE DEF P
  <1>7. f \in [P -> ItemsIn(T)]
    BY <1>4
  <1> HIDE DEF f
  <1>8. f \in Bijection(P, ItemsIn(T))
    BY <1>5, <1>6, <1>7 DEF Bijection, Injection, Surjection, IsInjective
  <1>9. ExistsBijection(P, ItemsIn(T))
    BY <1>8 DEF ExistsBijection
  <1> QED
    BY <1>2, <1>9, FS_Bijection DEF P

LEMMA PlacesOfPart ==
  /\ NewPlaces = PlacesIn(NewPart)
  /\ OldPlaces = PlacesIn(OldPart)
  <1>1. NewPlaces \subseteq PlacesIn(NewPart) /\ OldPlaces \subseteq PlacesIn(OldPart)
    BY PlacesOfParts DEF PlacesIn, NewPlaces, OldPlaces
  <1>2. \A p \in PlacesIn(NewPart) : p \in NewPlaces
    BY NothingThere DEF PlacesIn, NewPlaces, NewPart, Full
  <1>3. \A p \in PlacesIn(OldPart) : p \in OldPlaces
    <2> SUFFICES ASSUME NEW p \in PlacesIn(OldPart)
                 PROVE  p \in OldPlaces
      OBVIOUS
    <2>1. p \in Bucket \X Slot /\ OldPart[p[1]][p[2]] # Empty
      BY DEF PlacesIn, Full
    <2>2. /\ p[1] < HashSize[oldHashpower] /\ (Installing \/ ~ migrated[lock_ind(p[1])])
          /\ oldBuckets[p[1]][p[2]] # Empty
      BY <2>1 DEF OldPart, NoItems
    <2> QED
      BY <2>1, <2>2 DEF OldPlaces
  <1> QED
    BY <1>1, <1>2, <1>3

LEMMA StoredCount ==
  ASSUME DataInv
  PROVE  /\ IsFiniteSet(Stored) /\ Cardinality(Stored) \in Nat
         /\ Cardinality(NewPlaces) + Cardinality(OldPlaces) = Cardinality(Stored)
  <1>1. /\ NewPart \in Table /\ OldPart \in Table
        /\ Once(NewPart) /\ Once(OldPart) /\ Apart(NewPart, OldPart)
    BY LockInvParts, PartTypes DEF DataInv, Filled, Good
  <1>2. /\ IsFiniteSet(ItemsIn(NewPart)) /\ Cardinality(NewPlaces) = Cardinality(ItemsIn(NewPart))
        /\ IsFiniteSet(ItemsIn(OldPart)) /\ Cardinality(OldPlaces) = Cardinality(ItemsIn(OldPart))
    BY <1>1, OnePlaceEach, PlacesOfPart
  <1>3. ItemsIn(NewPart) \cap ItemsIn(OldPart) = {}
    <2> SUFFICES ASSUME NEW x \in ItemsIn(NewPart), x \in ItemsIn(OldPart)
                 PROVE  FALSE
      OBVIOUS
    <2>1. PICK b \in Bucket, s \in Slot : NewPart[b][s] = x /\ x # Empty
      BY DEF ItemsIn
    <2>2. PICK c \in Bucket, r \in Slot : OldPart[c][r] = x
      BY DEF ItemsIn
    <2> QED
      BY <1>1, <2>1, <2>2 DEF Apart, Full
  <1>4. /\ IsFiniteSet(Stored)
        /\ Cardinality(Stored) = Cardinality(ItemsIn(NewPart)) + Cardinality(ItemsIn(OldPart))
                                 - Cardinality({})
    BY <1>2, <1>3, FS_Union DEF Stored
  <1>5. Cardinality({}) = 0 /\ Cardinality(Stored) \in Nat
        /\ Cardinality(ItemsIn(NewPart)) \in Nat /\ Cardinality(ItemsIn(OldPart)) \in Nat
    BY <1>2, <1>4, FS_EmptySet, FS_CardinalityType
  <1> QED
    BY <1>2, <1>4, <1>5
-----------------------------------------------------------------------------
(* The counters of the current locks and the items.                        *)
Unused == \A x \in LockId : x[1] > curLocks => counter[x] = 0
Counts == Tally(counter, curLocks) = Cardinality(Stored) /\ Unused
CountInv == KvInv /\ Counts

LEMMA CountInvParts ==
  ASSUME CountInv
  PROVE  /\ DataInv /\ LockInv /\ TablesOK /\ ThreadsOK /\ DOMAIN ans = Threads
         /\ curLocks \in LockArray /\ curLocks \in Nat /\ counter \in [LockId -> Int]
         /\ Tally(counter, curLocks) = Cardinality(Stored) /\ Unused
         /\ IsFiniteSet(Stored) /\ Cardinality(Stored) \in Nat /\ Distinct(Stored)
  <1>1. DataInv /\ LockInv /\ DOMAIN ans = Threads /\ Filled
    BY DEF CountInv, KvInv, DataInv
  <1>2. TypeOK /\ TablesOK /\ ThreadsOK
    BY <1>1, LockInvParts
  <1>3. curLocks \in LockArray /\ curLocks \in Nat /\ counter \in [LockId -> Int]
    BY <1>2 DEF TypeOK, Types, LockArray
  <1> QED
    BY <1>1, <1>2, <1>3, StoredCount, StoredDistinct DEF CountInv, Counts

LEMMA SameCounts ==
  ASSUME CountInv, UNCHANGED <<counter, curLocks>>, Cardinality(Stored') = Cardinality(Stored)
  PROVE  Counts'
  <1>1. Tally(counter', curLocks') = Tally(counter, curLocks)
    OBVIOUS
  <1>2. Unused'
    BY CountInvParts DEF Unused
  <1> QED
    BY <1>1, <1>2, CountInvParts DEF Counts

LEMMA OneCounts ==
  ASSUME CountInv, NEW l, l \in LockInd(curLocks), NEW d, d \in {-1, 1},
         counter' = [counter EXCEPT ![<<curLocks, l>>] = counter[<<curLocks, l>>] + d],
         curLocks' = curLocks, Cardinality(Stored') = Cardinality(Stored) + d
  PROVE  Counts'
  <1>1. curLocks \in LockArray /\ curLocks \in Nat /\ counter \in [LockId -> Int] /\ Unused
    BY CountInvParts
  <1>2. Tally(counter', curLocks) = Tally(counter, curLocks) + d
    <2>1. d \in Int
      OBVIOUS
    <2> QED
      BY <1>1, <2>1, TallyChange
  <1>3. Tally(counter', curLocks') = Cardinality(Stored')
    BY <1>2, CountInvParts
  <1>4. Unused'
    BY <1>1 DEF Unused
  <1> QED
    BY <1>3, <1>4 DEF Counts

(* A call that returns is not one that starts to search.                   *)
LEMMA ReturnsOrNot ==
  ASSUME ThreadsOK, NEW t \in Threads, op[t] \in KeyOp
  PROVE  \A tag, val : Return(t, tag, val) => op' # op
  <1>1. op[t] # NoOp /\ DOMAIN op = Threads
    BY ValuesAssumption DEF ThreadsOK
  <1> QED
    BY <1>1 DEF Return, Answer

LEMMA LockOfItsBuckets ==
  ASSUME CountInv, NEW t \in Threads, pc[t] = "body", NEW b \in {i1(t), i2(t)}
  PROVE  lock_ind(b) \in LockInd(curLocks)
  <1>1. /\ DataInv /\ LockInv /\ TablesOK /\ ThreadsOK /\ curLocks \in LockArray
        /\ AtWork(t) /\ op[t] \in KeyOp
    BY CountInvParts, AtItsBuckets DEF AtWork
  <1>2. Covered(hashpower) /\ frame[t].hp = hashpower /\ hashpower \in 0 .. MaxHashpower
    BY <1>1, WorkInRange DEF TablesOK
  <1>3. b \in BucketsAt(hashpower)
    BY <1>1, <1>2, OwnInRange
  <1>4. InitHashpower + curLocks = hashpower => hashpower <= InitHashpower + curLocks
    BY <1>2
  <1> QED
    BY <1>1, <1>2, <1>3, <1>4, LocksReach DEF Covered

LEMMA EraseCounts ==
  ASSUME CountInv, ~ strayed', NEW t \in Threads, EraseBody(t)
  PROVE  Counts'
  <1> DEFINE T == Rehashed(Need(t))
             q == KeyPlace(T, t)
  <1>1. /\ ThreadsOK /\ DOMAIN ans = Threads /\ counter \in [LockId -> Int] /\ IsFiniteSet(Stored)
        /\ curLocks \in LockArray /\ Cardinality(Stored) \in Nat
    BY CountInvParts
  <1>2. pc[t] = "body" /\ curLocks' = curLocks
    BY DEF EraseBody, InBody, Return
  <1>3. Erases(t, Stored, Stored')
    BY EraseData, CountInvParts
  <1>4. CASE HasKey(T, t)
    <2>1. /\ counter' = [counter EXCEPT ![<<curLocks, lock_ind(q[1])>>] = @ - 1]
          /\ ans' = [ans EXCEPT ![t] = [tag |-> "erased", val |-> Missing]]
      BY <1>4 DEF EraseBody, Return, Answer
    <2>2. PICK x \in Stored : Stored' = Stored \ {x}
      <3>1. ans'[t].tag = "erased"
        BY <1>1, <2>1
      <3>2. ~ Answers(t, "absent", Missing)
        BY <1>1, <3>1 DEF Answers
      <3> QED
        BY <1>3, <3>2 DEF Erases
    <2>3. Cardinality(Stored') = Cardinality(Stored) + (-1)
      BY <1>1, <2>2, FS_RemoveElement
    <2>4. q[1] \in {i1(t), i2(t)}
      BY DEF KeyPlace
    <2> DEFINE l == lock_ind(q[1])
    <2>5. l \in LockInd(curLocks)
      BY <1>2, <2>4, LockOfItsBuckets
    <2> HIDE DEF l, q
    <2>6. counter' = [counter EXCEPT ![<<curLocks, l>>] = @ - 1]
      BY <2>1 DEF l
    <2>7. counter[<<curLocks, l>>] \in Int
      BY <1>1, <2>5, LocksOfArray
    <2> DEFINE d == -1
    <2>8. counter' = [counter EXCEPT ![<<curLocks, l>>] = counter[<<curLocks, l>>] + d]
      BY <2>6, <2>7
    <2>9. d \in {-1, 1} /\ Cardinality(Stored') = Cardinality(Stored) + d
      BY <2>3
    <2> HIDE DEF d
    <2> QED
      BY <1>2, <2>5, <2>8, <2>9, OneCounts
  <1>5. CASE ~ HasKey(T, t)
    <2>1. /\ counter' = counter
          /\ ans' = [ans EXCEPT ![t] = [tag |-> "absent", val |-> Missing]]
      BY <1>5 DEF EraseBody, Return, Answer
    <2>2. Stored' = Stored
      <3>1. ans'[t].tag = "absent"
        BY <1>1, <2>1
      <3>2. ~ Answers(t, "erased", Missing)
        BY <1>1, <3>1 DEF Answers
      <3> QED
        BY <1>3, <3>2 DEF Erases
    <2> QED
      BY <1>2, <2>1, <2>2, SameCounts
  <1> QED
    BY <1>4, <1>5

(* The end of an insert counts the item that it adds, if it adds one.      *)
LEMMA UpsertCounts ==
  ASSUME CountInv, ~ strayed', NEW t \in Threads, pc[t] = "body", NEW T, NEW p,
         p[1] \in {i1(t), i2(t)}, Upsert(t, T, p),
         Upserts(t, Stored, Stored') \/ Idles(t, Stored, Stored')
  PROVE  Counts'
  <1> DEFINE Mine(v) == [key |-> op[t].key, val |-> v]
             New == Mine(op[t].val)
  <1>1. /\ DataInv /\ ThreadsOK /\ DOMAIN ans = Threads /\ IsFiniteSet(Stored)
        /\ Cardinality(Stored) \in Nat /\ Distinct(Stored) /\ op[t] \in KeyOp
    BY CountInvParts, AtItsBuckets
  <1>2. curLocks' = curLocks
    BY DEF Upsert, Return
  <1>3. Upserts(t, Stored, Stored')
    <2>1. op' # op
      BY <1>1, ReturnsOrNot DEF Upsert
    <2> QED
      BY <2>1 DEF Idles
  <1>4. CASE HasKey(T, t)
    <2>1. /\ counter' = counter
          /\ ans' = [ans EXCEPT ![t] = [tag |-> "duplicate", val |-> Missing]]
      BY <1>4 DEF Upsert, Return, Answer
    <2>2. ~ Answers(t, "new", Missing)
      BY <1>1, <2>1 DEF Answers
    <2>3. PICK x \in Stored :
            /\ x.key = op[t].key
            /\ Stored' = Stored \/ \E v : Stored' = (Stored \ {x}) \cup {Mine(v)}
      BY <1>3, <2>2 DEF Upserts
    <2>4. Cardinality(Stored') = Cardinality(Stored)
      <3>1. CASE Stored' = Stored
        BY <3>1
      <3>2. ASSUME NEW v, Stored' = (Stored \ {x}) \cup {Mine(v)}
            PROVE  Cardinality(Stored') = Cardinality(Stored)
        <4>1. Mine(v) \notin Stored \ {x}
          BY <1>1, <2>3 DEF Distinct
        <4> DEFINE y == Mine(v)
        <4> HIDE DEF y
        <4>2. IsFiniteSet(Stored \ {x}) /\ Cardinality(Stored \ {x}) = Cardinality(Stored) - 1
          BY <1>1, FS_RemoveElement
        <4>3. Cardinality((Stored \ {x}) \cup {y}) = Cardinality(Stored \ {x}) + 1
          BY <4>1, <4>2, FS_AddElement DEF y
        <4> QED
          BY <1>1, <3>2, <4>2, <4>3 DEF y
      <3> QED
        BY <2>3, <3>1, <3>2
    <2> QED
      BY <1>2, <2>1, <2>4, SameCounts
  <1>5. CASE ~ HasKey(T, t)
    <2>1. /\ ans' = [ans EXCEPT ![t] = [tag |-> "new", val |-> Missing]]
          /\ IF op[t].kind = "accum" /\ op[t].exist
             THEN counter' = counter
             ELSE counter' = [counter EXCEPT ![<<curLocks, lock_ind(p[1])>>] = @ + 1]
      BY <1>5 DEF Upsert, Return, Answer
    <2>2. ~ Answers(t, "duplicate", Missing)
      BY <1>1, <2>1 DEF Answers
    <2>3. /\ ~ Has(Stored, op[t].key)
          /\ \/ op[t].kind = "accum" /\ op[t].exist /\ Stored' = Stored
             \/ ~ (op[t].kind = "accum" /\ op[t].exist) /\ Stored' = Stored \cup {New}
      BY <1>3, <2>2 DEF Upserts
    <2>4. CASE op[t].kind = "accum" /\ op[t].exist
      BY <1>2, <2>1, <2>3, <2>4, SameCounts
    <2>5. CASE ~ (op[t].kind = "accum" /\ op[t].exist)
      <3>1. New \notin Stored
        BY <2>3 DEF Has
      <3>2. Stored' = Stored \cup {New}
        BY <2>3, <2>5
      <3> HIDE DEF New
      <3>3. Cardinality(Stored') = Cardinality(Stored) + 1
        BY <1>1, <3>1, <3>2, FS_AddElement
      <3> DEFINE l == lock_ind(p[1])
      <3>4. l \in LockInd(curLocks)
        BY LockOfItsBuckets
      <3> DEFINE d == 1
      <3>5. counter' = [counter EXCEPT ![<<curLocks, l>>] = counter[<<curLocks, l>>] + d]
        BY <2>1, <2>5
      <3>6. d \in {-1, 1} /\ Cardinality(Stored') = Cardinality(Stored) + d
        BY <3>3
      <3> HIDE DEF l, d
      <3> QED
        BY <1>2, <3>4, <3>5, <3>6, OneCounts
    <2> QED
      BY <2>4, <2>5
  <1> QED
    BY <1>4, <1>5

LEMMA SearchCounts ==
  ASSUME CountInv, NEW t \in Threads, StartSearch(t), counter' = counter,
         op[t] \in KeyOp,
         Upserts(t, Stored, Stored') \/ Idles(t, Stored, Stored')
  PROVE  Counts'
  <1>1. op' = op /\ curLocks' = curLocks
    BY DEF StartSearch, callVars
  <1>2. op[t] # NoOp /\ DOMAIN op = Threads
    BY CountInvParts, ValuesAssumption DEF ThreadsOK
  <1>3. Stored' = Stored
    BY <1>1, <1>2 DEF Upserts, Answers, Idles
  <1> QED
    BY <1>1, <1>3, SameCounts

(* The inserts: an item is counted where it is put, or a search starts.    *)
LEMMA InsertCounts ==
  ASSUME CountInv, ~ strayed', NEW t \in Threads, InsertBody(t)
  PROVE  Counts'
  <1> DEFINE T == Rehashed(Need(t))
             free1 == FreeSlots(T, i1(t))
             free2 == FreeSlots(T, i2(t))
             p == IF free1 # {} THEN <<i1(t), Max(free1)>> ELSE <<i2(t), Max(free2)>>
  <1>1. /\ pc[t] = "body" /\ op[t] \in KeyOp
        /\ Upserts(t, Stored, Stored') \/ Idles(t, Stored, Stored')
    BY CountInvParts, AtItsBuckets, InsertData DEF InsertBody, InBody
  <1>2. p[1] \in {i1(t), i2(t)}
    OBVIOUS
  <1>3. CASE HasKey(T, t) \/ free1 # {} \/ free2 # {}
    <2>1. Upsert(t, T, p)
      BY <1>3 DEF InsertBody
    <2> HIDE DEF p, T
    <2> QED
      BY <1>1, <1>2, <2>1, UpsertCounts
  <1>4. CASE ~ (HasKey(T, t) \/ free1 # {} \/ free2 # {})
    <2>1. StartSearch(t) /\ counter' = counter
      BY <1>4 DEF InsertBody
    <2> QED
      BY <1>1, <2>1, SearchCounts
  <1> QED
    BY <1>3, <1>4

LEMMA PlaceCounts ==
  ASSUME CountInv, ~ strayed', NEW t \in Threads, PlaceBody(t) \/ LastHopBody(t)
  PROVE  Counts'
  <1> DEFINE T == Rehashed(Need(t))
             path == frame[t].path
             here == <<path[1].bucket, path[1].slot>>
  <1>1. /\ pc[t] = "body" /\ op[t] \in KeyOp
        /\ Upserts(t, Stored, Stored') \/ Idles(t, Stored, Stored')
    BY CountInvParts, AtItsBuckets, PlaceData, LastHopData
       DEF PlaceBody, LastHopBody, InBody
  <1>2. here[1] \in {i1(t), i2(t)}
    <2>1. ThreadsOK /\ Plans(t)
      BY CountInvParts, LockInvParts
    <2>2. path # << >>
      <3>1. InBody(t, "place") \/ InBody(t, "last")
        BY DEF PlaceBody, LastHopBody
      <3> QED
        BY <2>1, <3>1, PathHere
    <2>3. Follows(t, path)
      BY <1>1, <2>1 DEF Plans, OnTheWay
    <2> QED
      BY <2>2, <2>3 DEF Follows
  <1>3. \/ \E U : Upsert(t, U, here)
        \/ StartSearch(t) /\ counter' = counter
    BY DEF PlaceBody, LastHopBody
  <1>4. CASE \E U : Upsert(t, U, here)
    <2> HIDE DEF here
    <2> QED
      BY <1>1, <1>2, <1>4, UpsertCounts
  <1>5. CASE StartSearch(t) /\ counter' = counter
    BY <1>1, <1>5, SearchCounts
  <1> QED
    BY <1>3, <1>4, <1>5

LEMMA ClearCounts ==
  ASSUME CountInv, ~ strayed', NEW t \in Threads, ClearBody(t)
  PROVE  Counts'
  <1>1. /\ counter' = ResetCounters /\ curLocks' = curLocks
    BY DEF ClearBody, ReturnAll, UnlockAll, lockVars
  <1>2. Stored' = {}
    BY CountInvParts, ClearData DEF Clears
  <1>3. Cardinality(Stored') = 0
    BY <1>2, FS_EmptySet
  <1>4. curLocks \in LockArray /\ curLocks \in Nat /\ Unused
    BY CountInvParts
  <1>5. \A l \in LockInd(curLocks) : counter'[<<curLocks, l>>] = 0
    BY <1>1, <1>4, LocksOfArray DEF ResetCounters
  <1>6. Tally(counter', curLocks) = 0
    BY <1>4, <1>5, TallyOfZeros
  <1>7. Unused'
    BY <1>1, <1>4 DEF Unused, ResetCounters
  <1> QED
    BY <1>1, <1>3, <1>6, <1>7 DEF Counts

(* The new lock array starts with the counters of the old one.             *)
LEMMA GrowLocksCounts ==
  ASSUME CountInv, ~ strayed', NEW t \in Threads, GrowLocks(t)
  PROVE  Counts'
  <1>1. Stored' = Stored
    BY CountInvParts, GrowLocksData DEF Idles
  <1> DEFINE grows == /\ NumLocks(curLocks) < MaxNumLocks
                      /\ NumLocks(curLocks) < HashSize[frame[t].hp + 1]
  <1>2. CASE grows
    <2>1. curLocks' = curLocks + 1 /\ counter' = CopiedCounters
      BY <1>2 DEF GrowLocks
    <2>2. curLocks' \in LockArray
      <3>1. IInv'
        BY CountInvParts, LockInvParts, StepIInv DEF Step, GrowStep
      <3> QED
        BY <3>1 DEF IInv, TypeOK, Types
    <2>3. /\ curLocks \in LockArray /\ curLocks \in Nat /\ counter \in [LockId -> Int]
          /\ \A x \in LockId : x[1] > curLocks => counter[x] = 0
          /\ curLocks + 1 \in LockArray
      BY <2>1, <2>2, CountInvParts DEF Unused
    <2>4. counter' = [x \in LockId |-> IF x[1] = curLocks + 1 /\ x[2] \in LockInd(curLocks)
                                       THEN counter[<<curLocks, x[2]>>] ELSE counter[x]]
      BY <2>1 DEF CopiedCounters
    <2>5. Tally(counter', curLocks + 1) = Tally(counter, curLocks)
      BY <2>3, <2>4, TallyCopied
    <2>6. Unused'
      <3> SUFFICES ASSUME NEW x \in LockId, x[1] > curLocks + 1
                   PROVE  counter'[x] = 0
        BY <2>1 DEF Unused
      <3>1. x[1] \in Int /\ x[1] # curLocks + 1 /\ x[1] > curLocks
        BY <2>3 DEF LockId, LockArray
      <3>2. counter'[x] = counter[x]
        BY <2>4, <3>1
      <3> QED
        BY <2>3, <3>1, <3>2
    <2>7. Tally(counter', curLocks') = Cardinality(Stored')
      BY <1>1, <2>1, <2>5, CountInvParts
    <2> QED
      BY <2>6, <2>7 DEF Counts
  <1>3. CASE ~ grows
    <2>1. UNCHANGED <<counter, curLocks>>
      BY <1>3 DEF GrowLocks
    <2> QED
      BY <1>1, <2>1, SameCounts
  <1> QED
    BY <1>2, <1>3

(* No other step changes a counter, or the number of items.                *)
LEMMA OtherCounts ==
  ASSUME CountInv, ~ strayed', NEW t \in Threads,
         \/ Invoke(t) \/ LockStep(t) \/ FindBody(t) \/ Search(t) \/ Trace(t) \/ HopBody(t)
         \/ StartGrow(t) \/ GrowThrows(t) \/ GrowTooLate(t) \/ GrowSwap(t) \/ GrowInstall(t)
         \/ LockAll(t) \/ UnlockNext(t) \/ DumpBody(t) \/ Scan(t)
  PROVE  Counts'
  <1>1. DataInv
    BY CountInvParts
  <1>2. CASE \/ Invoke(t) \/ LockStep(t) \/ StartGrow(t) \/ GrowThrows(t) \/ GrowTooLate(t)
             \/ LockAll(t) \/ UnlockNext(t) \/ Scan(t)
    <2>1. UNCHANGED <<counter, curLocks>>
      BY <1>2 DEF Invoke, LockStep, Snapshot, PickLocks, LockFirst, LockNext, StartGrow,
                  GrowThrows, GrowTooLate, LockAll, UnlockNext, Scan, ReturnAll, UnlockAll,
                  lockVars
    <2>2. Stored' = Stored
      BY <1>1, <1>2, QuietSteps
    <2> QED
      BY <2>1, <2>2, SameCounts
  <1>3. CASE FindBody(t) \/ HopBody(t) \/ DumpBody(t)
    <2>1. UNCHANGED <<counter, curLocks>>
      BY <1>3 DEF FindBody, HopBody, DumpBody, Return, ReturnAll, UnlockAll, StartSearch,
                  lockVars
    <2>2. Stored' = Stored
      BY <1>1, <1>3, FindData, HopData, DumpData DEF Finds, Idles, Dumps
    <2> QED
      BY <2>1, <2>2, SameCounts
  <1>4. CASE Search(t) \/ Trace(t)
    <2>1. UNCHANGED <<counter, curLocks>>
      BY <1>4 DEF Search, Trace, lockVars
    <2>2. Stored' = Stored
      BY <1>1, <1>4, SearchData DEF Idles
    <2> QED
      BY <2>1, <2>2, SameCounts
  <1>5. CASE GrowSwap(t) \/ GrowInstall(t)
    <2>1. UNCHANGED <<counter, curLocks>>
      BY <1>5 DEF GrowSwap, GrowInstall, UnlockAll, lockVars
    <2>2. Stored' = Stored
      BY <1>1, <1>5, GrowSwapData, GrowInstallData DEF Idles
    <2> QED
      BY <2>1, <2>2, SameCounts
  <1> QED
    BY <1>2, <1>3, <1>4, <1>5

LEMMA StepCounts ==
  ASSUME CountInv, ~ strayed', NEW t \in Threads, Invoke(t) \/ Step(t)
  PROVE  Counts'
  BY OtherCounts, EraseCounts, InsertCounts, PlaceCounts, ClearCounts, GrowLocksCounts
     DEF Step, SimpleStep, CuckooStep, GrowStep, TableStep

LEMMA NextCountInv ==
  ASSUME CountInv, NoStaleWaiter, [Next]_vars, ~ strayed'
  PROVE  CountInv'
  <1>1. KvInv'
    BY NextKvInv DEF CountInv
  <1>2. CASE UNCHANGED vars
    <2>1. UNCHANGED <<counter, curLocks>> /\ Stored' = Stored
      BY <1>2 DEF vars, Stored, NewPart, OldPart, Installing
    <2> QED
      BY <1>1, <2>1, SameCounts DEF CountInv
  <1>3. CASE \E t \in Threads : Invoke(t) \/ Step(t)
    BY <1>1, <1>3, StepCounts DEF CountInv
  <1> QED
    BY <1>2, <1>3 DEF Next, Finished

LEMMA InitCountInv == Init => CountInv
  <1> SUFFICES ASSUME Init
               PROVE  CountInv
    OBVIOUS
  <1>1. KvInv
    BY InitInMap
  <1>2. NewPart = NoBuckets /\ OldPart = NoBuckets
    <2>1. /\ \A t \in Threads : pc[t] # "install"
          /\ buckets = NoBuckets /\ oldBuckets = NoBuckets
      BY DEF Init
    <2> QED
      BY <2>1 DEF NewPart, OldPart, NoBuckets, Installing
  <1>3. Stored = {}
    BY <1>2, EmptyTable DEF Stored
  <1>4. counter = [x \in LockId |-> 0] /\ curLocks \in LockArray
    BY SizesAssumption DEF Init, LockArray
  <1>5. Tally(counter, curLocks) = 0
    BY <1>4, LocksOfArray, TallyOfZeros
  <1>6. Cardinality(Stored) = 0
    BY <1>3, FS_EmptySet
  <1> QED
    BY <1>1, <1>4, <1>5, <1>6 DEF CountInv, Counts, Unused

(* The counters of the current locks add up to the number of items: no     *)
(* insert, erase, clear or doubling loses count, though an item's moves    *)
(* leave each single counter wrong.  So it is for any number of doublings  *)
(* until a stray unlock, while no stale waiter gets its lock in the middle *)
(* of a swap...                                                            *)
THEOREM CountersAddUpUnlessStale ==
  Spec /\ [](strayed \/ NoStaleWaiter) => []CountersAddUpUntilStray
  <1>1. (strayed \/ CountInv) /\ (strayed \/ NoStaleWaiter) /\ [Next]_vars
          => (strayed \/ CountInv)'
    BY NextCountInv, StrayedStays
  <1>2. strayed \/ CountInv => CountersAddUpUntilStray
    BY CountInvParts, StoredCount, CurrentSizeIsTally DEF CountersAddUp, CountersAddUpUntilStray
  <1>3. Init => strayed \/ CountInv
    BY InitCountInv
  <1> QED
    BY <1>1, <1>2, <1>3, PTL DEF Spec

(* ...as in a table that doubles once...                                   *)
THEOREM CountersStayExactUntilStray ==
  ASSUME DoublesAtMostOnce
  PROVE  Spec => []CountersAddUpUntilStray
  <1> QED
    BY NoStaleWaiters, CountersAddUpUnlessStale, PTL

(* ...and, with neither, in a table born with all its locks.               *)
THEOREM CountersStayExact ==
  ASSUME AllLocksFromTheStart
  PROVE  Spec => []CountersAddUp
  <1>1. ~ strayed /\ CountersAddUpUntilStray => CountersAddUp
    BY DEF CountersAddUpUntilStray
  <1> QED
    BY NoStaleWaiters, NothingStrays, CountersAddUpUnlessStale, <1>1, PTL
=============================================================================
