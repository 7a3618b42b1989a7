--------------------------- MODULE CuckooMapProofs ---------------------------
(***************************************************************************)
(* Theorems about CuckooMap, for any number of threads, keys and values,   *)
(* any sizes and any workload.                                             *)
(***************************************************************************)
EXTENDS CuckooMap, FiniteSetTheorems, SequenceTheorems, WellFoundedInduction, TLAPS

-----------------------------------------------------------------------------
(* Minima and maxima.                                                      *)

LEMMA SmallestNat ==
  ASSUME NEW S \in SUBSET Nat, S # {}
  PROVE  \E x \in S : \A y \in S : x <= y
  <1>1. PICK x \in S : \A y \in S : ~ (<<y, x>> \in OpToRel(<, Nat))
    BY NatLessThanWellFounded, WFMin
  <1>2. \A y \in S : ~ (y < x)
    BY <1>1 DEF OpToRel
  <1> QED
    BY <1>2

LEMMA MinOfNats ==
  ASSUME NEW S \in SUBSET Nat, S # {}
  PROVE  /\ Min(S) \in S
         /\ \A y \in S : Min(S) <= y
  BY SmallestNat DEF Min

LEMMA MaxOfNats ==
  ASSUME NEW n \in Nat, NEW S \in SUBSET (0 .. n), S # {}
  PROVE  /\ Max(S) \in S
         /\ \A y \in S : Max(S) >= y
  <1> DEFINE T == {z \in Nat : \E y \in S : z = n - y}
  <1>1. \A y \in S : n - y \in T
    OBVIOUS
  <1>2. T \in SUBSET Nat /\ T # {}
    BY <1>1
  <1>3. PICK m \in T : \A y \in T : m <= y
    BY <1>2, SmallestNat
  <1>4. PICK x \in S : m = n - x
    BY <1>3
  <1>5. \A y \in S : n - x <= n - y
    BY <1>1, <1>3, <1>4
  <1>6. \E z \in S : \A y \in S : z >= y
    BY <1>5
  <1> QED
    BY <1>6 DEF Max
-----------------------------------------------------------------------------
(* The number of buckets grows with the hashpower, so that every bucket of *)
(* a table is a Bucket.                                                    *)

LEMMA SizesGrow ==
  ASSUME NEW hp \in 0 .. MaxHashpower
  PROVE  /\ HashSize[hp] \in Nat \ {0}
         /\ HashSize[hp] <= HashSize[MaxHashpower]
         /\ 0 .. HashSize[hp] - 1 \subseteq Bucket
  <1> USE SizesAssumption
  <1>1. HashSize[hp] \in Nat \ {0} /\ HashSize[MaxHashpower] \in Nat \ {0}
    OBVIOUS
  <1>2. HashSize[hp] <= HashSize[MaxHashpower]
    <2> DEFINE S == {i \in 0 .. MaxHashpower : HashSize[hp] <= HashSize[i]}
    <2>1. S \in SUBSET (0 .. MaxHashpower) /\ hp \in S
      BY <1>1
    <2> DEFINE m == Max(S)
    <2>2. m \in S /\ \A y \in S : m >= y
      BY <2>1, MaxOfNats
    <2> HIDE DEF m
    <2>3. CASE m = MaxHashpower
      BY <2>2, <2>3
    <2>4. CASE m # MaxHashpower
      <3>1. m \in 0 .. MaxHashpower - 1 /\ m + 1 \in 0 .. MaxHashpower
        BY <2>2, <2>4
      <3>2. HashSize[m + 1] = 2 * HashSize[m] /\ HashSize[m] \in Nat
        BY <3>1
      <3>3. HashSize[hp] <= HashSize[m + 1]
        BY <3>2, <2>2, <1>1
      <3>4. m + 1 \in S
        BY <3>1, <3>3
      <3> QED
        BY <3>4, <2>2, <3>1
    <2> QED
      BY <2>3, <2>4
  <1> QED
    BY <1>1, <1>2 DEF Bucket

LEMMA SizesMonotone ==
  ASSUME NEW lo \in 0 .. MaxHashpower, NEW hp \in 0 .. MaxHashpower, lo <= hp
  PROVE  HashSize[lo] \in Nat \ {0} /\ HashSize[hp] \in Nat \ {0} /\ HashSize[lo] <= HashSize[hp]
  <1> USE SizesAssumption
  <1> DEFINE S == {i \in 0 .. hp : i >= lo /\ HashSize[lo] <= HashSize[i]}
             m == Max(S)
  <1>1. lo \in S /\ S \in SUBSET (0 .. hp) /\ hp \in Nat
    OBVIOUS
  <1>2. m \in S /\ \A y \in S : m >= y
    BY <1>1, MaxOfNats
  <1> HIDE DEF m
  <1>3. CASE m = hp
    BY <1>2, <1>3
  <1>4. CASE m # hp
    <2>1. m \in 0 .. MaxHashpower - 1 /\ m + 1 \in 0 .. hp /\ m >= lo
      BY <1>2, <1>4
    <2>2. HashSize[m + 1] = 2 * HashSize[m] /\ HashSize[m] \in Nat /\ HashSize[lo] \in Nat
      BY <2>1
    <2>3. HashSize[lo] <= HashSize[m + 1]
      BY <2>2, <1>2
    <2>4. m + 1 \in S
      BY <2>1, <2>3
    <2> QED
      BY <2>4, <1>2, <2>1
  <1> QED
    BY <1>3, <1>4

LEMMA IndexTypes ==
  ASSUME NEW h \in Hashes, NEW hp \in 0 .. MaxHashpower
  PROVE  /\ IndexHash(hp, h) \in Bucket
         /\ \A b \in Bucket : AltIndex(hp, h, b) \in Bucket
  <1>1. /\ IndexHash(hp, h) \in 0 .. HashSize[hp] - 1
        /\ \A b \in Bucket : AltIndex(hp, h, b) \in 0 .. HashSize[hp] - 1
    BY HashAssumption
  <1> QED
    BY <1>1, SizesGrow

LEMMA HashTypes ==
  ASSUME NEW k \in Keys
  PROVE  HashOf[k] \in Hashes
  BY DEF Hashes

LEMMA LockIndType ==
  ASSUME NEW b \in Bucket
  PROVE  lock_ind(b) \in AnyLockInd
  BY SizesAssumption, SizesGrow DEF lock_ind, AnyLockInd, Bucket
-----------------------------------------------------------------------------
(* Migration.                                                              *)

LEMMA MigrateType ==
  ASSUME NEW T \in Table, oldBuckets \in Table,
         oldHashpower \in 0 .. MaxHashpower, NEW L
  PROVE  Migrate(T, L) \in Table
  <1> DEFINE n == HashSize[oldHashpower]
  <1>1. n \in Nat
    BY SizesGrow
  <1>2. ASSUME NEW b \in Bucket
        PROVE  Staying(b) \in [Slot -> Item \cup {Empty}]
    BY DEF Staying, Table
  <1>3. ASSUME NEW b \in Bucket
        PROVE  Raised(b) \in [Slot -> Item \cup {Empty}]
    BY DEF Raised, Table
  <1>4. ASSUME NEW b \in Bucket, b >= n
        PROVE  b - n \in Bucket
    BY <1>1, <1>4, SizesGrow, SizesAssumption DEF Bucket
  <1>5. ASSUME NEW b \in Bucket
        PROVE  (IF lock_ind(b) \notin L \/ b >= 2 * n THEN T[b]
                ELSE IF b < n THEN Staying(b) ELSE Raised(b - n))
               \in [Slot -> Item \cup {Empty}]
    <2>1. T[b] \in [Slot -> Item \cup {Empty}]
      BY DEF Table
    <2>2. CASE b < n
      BY <2>1, <2>2, <1>2
    <2>3. CASE ~ (b < n)
      <3>1. b >= n
        BY <2>3, <1>1, SizesAssumption DEF Bucket
      <3> QED
        BY <3>1, <2>1, <2>3, <1>4, <1>3
    <2> QED
      BY <2>2, <2>3
  <1> QED
    BY <1>5 DEF Migrate, Table
-----------------------------------------------------------------------------
(* Types.  A step of thread t gives it a label, a call and locals that fit *)
(* together, and leaves those of the other threads alone.                  *)

Calls == KeyOp \cup TableOp \cup {NoOp}

TablesOK ==
  /\ buckets \in Table /\ oldBuckets \in Table
  /\ hashpower \in 0 .. MaxHashpower /\ oldHashpower \in 0 .. MaxHashpower
  /\ curLocks \in LockArray
  /\ holder \in [LockId -> Threads \cup {NoThread}]
  /\ counter \in [LockId -> Int]
  /\ migrated \in [AnyLockInd -> BOOLEAN]
  /\ remaining \in Int
  /\ opsLeft \in 0 .. MaxOps
  /\ strayed \in BOOLEAN

ThreadsOK ==
  /\ pc \in [Threads -> Labels]
  /\ op \in [Threads -> Calls]
  /\ frame \in [Threads -> Frame]
  /\ \A u \in Threads : Fits(pc[u], op[u], frame[u])

LEMMA TypeOKParts ==
  /\ TypeOK => TablesOK /\ ThreadsOK
  /\ TablesOK' /\ ThreadsOK' => TypeOK'
  BY DEF TypeOK, Types, TablesOK, ThreadsOK, Calls

LEMMA ThreadMoves ==
  ASSUME ThreadsOK, NEW t \in Threads,
         NEW label \in Labels, NEW o \in Calls, NEW f \in Frame, Fits(label, o, f),
         pc' = [pc EXCEPT ![t] = label],
         op' = [op EXCEPT ![t] = o],
         frame' = [frame EXCEPT ![t] = f]
  PROVE  ThreadsOK'
  <1>1. /\ pc \in [Threads -> Labels] /\ op \in [Threads -> Calls]
        /\ frame \in [Threads -> Frame]
        /\ \A u \in Threads : Fits(pc[u], op[u], frame[u])
    BY DEF ThreadsOK
  <1>2. ASSUME NEW u \in Threads
        PROVE  Fits(pc'[u], op'[u], frame'[u])
    <2>1. CASE u = t
      <3>1. pc'[u] = label /\ op'[u] = o /\ frame'[u] = f
        BY <1>1, <2>1
      <3> QED
        BY <3>1
    <2>2. CASE u # t
      <3>1. pc'[u] = pc[u] /\ op'[u] = op[u] /\ frame'[u] = frame[u]
        BY <1>1, <2>2
      <3> QED
        BY <3>1, <1>1
    <2> QED
      BY <2>1, <2>2
  <1> QED
    BY <1>1, <1>2 DEF ThreadsOK

LEMMA ThreadSteps ==
  ASSUME ThreadsOK, NEW t \in Threads,
         NEW label \in Labels, NEW f \in Frame, Fits(label, op[t], f),
         Goto(t, label), op' = op,
         frame' = [frame EXCEPT ![t] = f]
  PROVE  ThreadsOK'
  <1>1. op[t] \in Calls /\ op' = [op EXCEPT ![t] = op[t]]
    BY DEF ThreadsOK
  <1> QED
    BY <1>1, ThreadMoves DEF Goto

LEMMA ThreadHere ==
  ASSUME ThreadsOK, NEW t \in Threads
  PROVE  /\ pc[t] \in Labels /\ op[t] \in Calls /\ frame[t] \in Frame
         /\ Fits(pc[t], op[t], frame[t])
         /\ frame = [frame EXCEPT ![t] = frame[t]]
         /\ pc = [pc EXCEPT ![t] = pc[t]]
  BY DEF ThreadsOK

LEMMA NoFrameType == NoFrame \in Frame
  BY SizesAssumption DEF NoFrame, Frame, LockArray, BSlot, Place

(* A thread that returns is idle, its call and its locals gone.            *)
LEMMA ReturnTypes ==
  ASSUME ThreadsOK, NEW t \in Threads, NEW tag, NEW val, Return(t, tag, val)
  PROVE  ThreadsOK'
  <1>1. Fits("idle", NoOp, NoFrame)
    BY DEF Fits
  <1>2. "idle" \in Labels /\ NoOp \in Calls
    BY DEF Labels, Calls
  <1>3. /\ pc' = [pc EXCEPT ![t] = "idle"]
        /\ op' = [op EXCEPT ![t] = NoOp]
        /\ frame' = [frame EXCEPT ![t] = NoFrame]
    BY DEF Return, Answer, Goto
  <1> QED
    BY <1>1, <1>2, <1>3, NoFrameType, ThreadMoves

LEMMA UnlockTypes ==
  ASSUME TablesOK, NEW t \in Threads, Unlock(t)
  PROVE  holder' \in [LockId -> Threads \cup {NoThread}]
  BY DEF TablesOK, Unlock

LEMMA RehashTypes ==
  ASSUME TablesOK, NEW L \in SUBSET AnyLockInd
  PROVE  /\ Rehashed(L) \in Table
         /\ RehashFlags(L) =>
              /\ oldBuckets' \in Table
              /\ migrated' \in [AnyLockInd -> BOOLEAN]
              /\ remaining' \in Int
              /\ hashpower' = hashpower /\ oldHashpower' = oldHashpower
  <1>1. Cardinality(Unmigrated(L)) \in Nat
    <2>1. IsFiniteSet(AnyLockInd)
      BY FS_Interval, SizesAssumption DEF AnyLockInd
    <2>2. Unmigrated(L) \subseteq AnyLockInd
      BY DEF Unmigrated
    <2> QED
      BY <2>1, <2>2, FS_Subset, FS_CardinalityType
  <1>2. NoBuckets \in Table
    BY DEF NoBuckets, NoItems, Table
  <1>3. Rehashed(L) \in Table
    BY MigrateType DEF TablesOK, Rehashed
  <1>4. ASSUME RehashFlags(L)
        PROVE  /\ oldBuckets' \in Table
               /\ migrated' \in [AnyLockInd -> BOOLEAN]
               /\ remaining' \in Int
               /\ hashpower' = hashpower /\ oldHashpower' = oldHashpower
    <2>1. /\ migrated' = [l \in AnyLockInd |-> migrated[l] \/ l \in Unmigrated(L)]
          /\ hashpower' = hashpower /\ oldHashpower' = oldHashpower
      BY <1>4 DEF RehashFlags
    <2>2. remaining' = remaining - Cardinality(Unmigrated(L))
      BY <1>4 DEF RehashFlags
    <2>3. oldBuckets' = NoBuckets \/ oldBuckets' = oldBuckets
      BY <1>4 DEF RehashFlags
    <2>4. \A l \in AnyLockInd : (migrated[l] \/ l \in Unmigrated(L)) \in BOOLEAN
      OBVIOUS
    <2> QED
      BY <2>1, <2>2, <2>3, <2>4, <1>1, <1>2 DEF TablesOK
  <1> QED
    BY <1>3, <1>4
-----------------------------------------------------------------------------
(* Every action keeps the types.                                           *)

LEMMA LocksOfArray ==
  ASSUME NEW g \in LockArray
  PROVE  /\ NumLocks(g) \in 1 .. MaxNumLocks
         /\ LockInd(g) \subseteq AnyLockInd
         /\ \A l \in LockInd(g) : <<g, l>> \in LockId
  <1>1. HashSize[InitHashpower + g] \in Nat \ {0}
    BY SizesAssumption DEF LockArray
  <1>2. NumLocks(g) \in 1 .. MaxNumLocks
    BY <1>1, SizesAssumption DEF NumLocks
  <1> QED
    BY <1>2, SizesAssumption DEF LockInd, AnyLockInd, LockId

LEMMA InvokeTypes ==
  ASSUME TablesOK, ThreadsOK, NEW t \in Threads, Invoke(t)
  PROVE  TablesOK' /\ ThreadsOK'
  <1>1. PICK o \in Workload[t] :
          /\ op' = [op EXCEPT ![t] = o]
          /\ Goto(t, CASE o.kind = "size" -> "scan"
                       [] o.kind \in {"clear", "dump"} -> "lock_all"
                       [] OTHER -> "snapshot")
          /\ frame' = IF o.kind \in {"clear", "dump", "size"}
                      THEN [frame EXCEPT ![t].gen = curLocks, ![t].first = curLocks,
                                         ![t].want = LockInd(curLocks)]
                      ELSE frame
    BY DEF Invoke
  <1>2. o \in KeyOp \cup TableOp
    BY ValuesAssumption
  <1>3. frame[t] \in Frame /\ curLocks \in LockArray
    BY DEF TablesOK, ThreadsOK
  <1>4. LockInd(curLocks) \in SUBSET AnyLockInd
    BY <1>3, LocksOfArray
  <1>5. TablesOK'
    BY SizesAssumption DEF Invoke, TablesOK, tableVars, lockVars
  <1>6. CASE o.kind \in {"clear", "dump", "size"}
    <2> DEFINE f == [frame[t] EXCEPT !.gen = curLocks, !.first = curLocks,
                                     !.want = LockInd(curLocks)]
               label == IF o.kind = "size" THEN "scan" ELSE "lock_all"
    <2>1. f \in Frame /\ f.gen = curLocks /\ f.want = LockInd(curLocks)
      BY <1>3, <1>4 DEF Frame
    <2>2. o \in TableOp
      BY <1>2, <1>6 DEF KeyOp
    <2>3. Fits(label, o, f)
      BY <2>1, <2>2, <1>6, ValuesAssumption DEF Fits
    <2>4. pc' = [pc EXCEPT ![t] = label] /\ frame' = [frame EXCEPT ![t] = f]
      BY <1>1, <1>6, <1>3 DEF Goto
    <2>5. label \in Labels /\ o \in Calls
      BY <1>2 DEF Labels, Calls
    <2> QED
      BY <2>1, <2>3, <2>4, <2>5, <1>1, <1>5, ThreadMoves
  <1>7. CASE o.kind \notin {"clear", "dump", "size"}
    <2>1. o \in KeyOp
      BY <1>2, <1>7 DEF TableOp
    <2>2. Fits("snapshot", o, frame[t])
      BY <2>1, ValuesAssumption DEF Fits
    <2>3. /\ pc' = [pc EXCEPT ![t] = "snapshot"]
          /\ frame' = [frame EXCEPT ![t] = frame[t]]
      BY <1>1, <1>7, <1>3 DEF Goto, ThreadsOK
    <2>4. "snapshot" \in Labels /\ o \in Calls
      BY <1>2 DEF Labels, Calls
    <2> QED
      BY <1>3, <2>2, <2>3, <2>4, <1>1, <1>5, ThreadMoves
  <1> QED
    BY <1>6, <1>7

LEMMA SnapshotTypes ==
  ASSUME TablesOK, ThreadsOK, NEW t \in Threads, Snapshot(t)
  PROVE  TablesOK' /\ ThreadsOK'
  <1> DEFINE k == op[t].key
             i == IndexHash(hashpower, HashOf[k])
             a == AltIndex(hashpower, HashOf[k], i)
             f == [frame[t] EXCEPT !.hp = hashpower, !.stage = "op",
                                   !.queue = << >>, !.path = << >>,
                                   !.want = {lock_ind(i), lock_ind(a)}]
  <1>1. pc[t] = "snapshot" /\ op[t] \in KeyOp /\ frame[t] \in Frame
    BY ThreadHere DEF Snapshot, Fits
  <1>2. hashpower \in 0 .. MaxHashpower /\ k \in Keys
    BY <1>1 DEF TablesOK, KeyOp
  <1>3. i \in Bucket /\ a \in Bucket
    BY <1>2, HashTypes, IndexTypes
  <1>4. lock_ind(i) \in AnyLockInd /\ lock_ind(a) \in AnyLockInd
    BY <1>3, LockIndType
  <1>5. /\ f \in Frame
        /\ f.stage = "op" /\ f.want # {}
    <2>1. << >> \in Seq(BSlot) /\ << >> \in Seq(Place)
      OBVIOUS
    <2>2. {lock_ind(i), lock_ind(a)} \in SUBSET AnyLockInd
      BY <1>4
    <2>3. {lock_ind(i), lock_ind(a)} # {}
      OBVIOUS
    <2> DEFINE w == {lock_ind(i), lock_ind(a)}
    <2> HIDE DEF w, i, a
    <2> QED
      BY <1>1, <1>2, <2>1, <2>2, <2>3 DEF Frame, w
  <1>6. Fits("pick", op[t], f)
    BY <1>1, <1>5, ValuesAssumption DEF Fits
  <1>7. Goto(t, "pick") /\ op' = op /\ frame' = [frame EXCEPT ![t] = f]
    BY DEF Snapshot, callVars
  <1>8. TablesOK'
    BY DEF Snapshot, TablesOK, tableVars, lockVars, callVars
  <1>9. "pick" \in Labels
    BY DEF Labels
  <1> HIDE DEF f
  <1> QED
    BY <1>5, <1>6, <1>7, <1>8, <1>9, ThreadSteps

LEMMA PickLocksTypes ==
  ASSUME TablesOK, ThreadsOK, NEW t \in Threads, PickLocks(t)
  PROVE  TablesOK' /\ ThreadsOK'
  <1> DEFINE f == [frame[t] EXCEPT !.gen = curLocks]
  <1>1. /\ pc[t] = "pick" /\ frame[t] \in Frame
        /\ Fits("pick", op[t], frame[t])
    BY ThreadHere DEF PickLocks
  <1>2. /\ f \in Frame
        /\ f.stage = frame[t].stage /\ f.path = frame[t].path /\ f.want = frame[t].want
    BY <1>1 DEF Frame, TablesOK
  <1>3. Fits("lock_first", op[t], f)
    BY <1>1, <1>2 DEF Fits
  <1>4. Goto(t, "lock_first") /\ op' = op /\ frame' = [frame EXCEPT ![t] = f]
    BY DEF PickLocks, callVars
  <1>5. TablesOK'
    BY DEF PickLocks, TablesOK, tableVars, lockVars, callVars
  <1>6. "lock_first" \in Labels
    BY DEF Labels
  <1> HIDE DEF f
  <1> QED
    BY <1>2, <1>3, <1>4, <1>5, <1>6, ThreadSteps

(* Taking a lock.                                                          *)
LEMMA TakeTypes ==
  ASSUME TablesOK, ThreadsOK, NEW t \in Threads, Take(t)
  PROVE  /\ holder' \in [LockId -> Threads \cup {NoThread}]
         /\ \E f \in Frame :
              /\ frame' = [frame EXCEPT ![t] = f]
              /\ f.want = frame[t].want \ {Min(frame[t].want)}
              /\ f.gen = frame[t].gen /\ f.stage = frame[t].stage /\ f.path = frame[t].path
  <1> DEFINE l == Min(frame[t].want)
             f == [frame[t] EXCEPT !.want = @ \ {l}]
  <1>1. frame[t] \in Frame
    BY ThreadHere
  <1>2. f \in Frame
    BY <1>1 DEF Frame
  <1>3. /\ f.want = frame[t].want \ {l}
        /\ f.gen = frame[t].gen /\ f.stage = frame[t].stage /\ f.path = frame[t].path
    BY <1>1 DEF Frame
  <1>4. frame' = [frame EXCEPT ![t] = f]
    BY DEF Take
  <1>5. holder' = [holder EXCEPT ![<<frame[t].gen, l>>] = t]
    BY DEF Take
  <1>6. holder' \in [LockId -> Threads \cup {NoThread}]
    BY <1>5 DEF TablesOK
  <1> QED
    BY <1>2, <1>3, <1>4, <1>6

LEMMA LockLeft ==
  ASSUME NEW t, NEW label \in {"lock_first", "lock_next"}, NEW o, Fits(label, o, frame[t])
  PROVE  IF LastLock(t) THEN frame[t].want \ {Min(frame[t].want)} = {}
                        ELSE frame[t].want \ {Min(frame[t].want)} # {}
  <1>1. frame[t].want # {}
    BY DEF Fits
  <1>2. CASE LastLock(t)
    BY <1>2 DEF LastLock
  <1>3. CASE ~ LastLock(t)
    BY <1>1, <1>3 DEF LastLock
  <1> QED
    BY <1>2, <1>3

LEMMA LockFirstTypes ==
  ASSUME TablesOK, ThreadsOK, NEW t \in Threads, LockFirst(t)
  PROVE  TablesOK' /\ ThreadsOK'
  <1>1. /\ pc[t] = "lock_first" /\ frame[t] \in Frame
        /\ Fits("lock_first", op[t], frame[t])
        /\ op' = op
    BY ThreadHere DEF LockFirst, callVars
  <1>2. CASE check_hashpower(t)
    <2> DEFINE label == IF LastLock(t) THEN "body" ELSE "lock_next"
    <2>1. Take(t) /\ Goto(t, label)
      BY <1>2 DEF LockFirst
    <2>2. PICK f \in Frame :
            /\ frame' = [frame EXCEPT ![t] = f]
            /\ f.want = frame[t].want \ {Min(frame[t].want)}
            /\ f.gen = frame[t].gen /\ f.stage = frame[t].stage /\ f.path = frame[t].path
      BY <2>1, TakeTypes
    <2>3. IF LastLock(t) THEN f.want = {} ELSE f.want # {}
      BY <1>1, <2>2, LockLeft
    <2>4. Fits(label, op[t], f)
      <3>1. LastLock(t) => Fits("body", op[t], f)
        BY <1>1, <2>2, <2>3 DEF Fits
      <3>2. ~ LastLock(t) => Fits("lock_next", op[t], f)
        BY <1>1, <2>2, <2>3 DEF Fits
      <3> QED
        BY <3>1, <3>2
    <2>5. label \in Labels
      BY DEF Labels
    <2>6. TablesOK'
      BY <2>1, TakeTypes DEF LockFirst, TablesOK, tableVars, callVars
    <2> QED
      BY <1>1, <2>1, <2>2, <2>4, <2>5, <2>6, ThreadSteps
  <1>3. CASE ~ check_hashpower(t)
    <2>1. Goto(t, "snapshot") /\ frame' = [frame EXCEPT ![t] = frame[t]] /\ holder' = holder
      BY <1>3, ThreadHere DEF LockFirst, TryAgain
    <2>2. Fits("snapshot", op[t], frame[t]) /\ "snapshot" \in Labels
      BY <1>1 DEF Fits, Labels
    <2>3. TablesOK'
      BY <2>1 DEF LockFirst, TablesOK, tableVars, callVars
    <2> QED
      BY <1>1, <2>1, <2>2, <2>3, ThreadSteps
  <1> QED
    BY <1>2, <1>3

LEMMA LockNextTypes ==
  ASSUME TablesOK, ThreadsOK, NEW t \in Threads, LockNext(t)
  PROVE  TablesOK' /\ ThreadsOK'
  <1> DEFINE label == IF LastLock(t) THEN "body" ELSE "lock_next"
  <1>1. /\ pc[t] = "lock_next" /\ frame[t] \in Frame
        /\ Fits("lock_next", op[t], frame[t])
        /\ op' = op /\ Take(t) /\ Goto(t, label)
    BY ThreadHere DEF LockNext, callVars
  <1>2. PICK f \in Frame :
          /\ frame' = [frame EXCEPT ![t] = f]
          /\ f.want = frame[t].want \ {Min(frame[t].want)}
          /\ f.gen = frame[t].gen /\ f.stage = frame[t].stage /\ f.path = frame[t].path
    BY <1>1, TakeTypes
  <1>3. IF LastLock(t) THEN f.want = {} ELSE f.want # {}
    BY <1>1, <1>2, LockLeft
  <1>4. Fits(label, op[t], f)
    <2>1. LastLock(t) => Fits("body", op[t], f)
      BY <1>1, <1>2, <1>3 DEF Fits
    <2>2. ~ LastLock(t) => Fits("lock_next", op[t], f)
      BY <1>1, <1>2, <1>3 DEF Fits
    <2> QED
      BY <2>1, <2>2
  <1>5. label \in Labels
    BY DEF Labels
  <1>6. TablesOK'
    BY <1>1, TakeTypes DEF LockNext, TablesOK, tableVars, callVars
  <1> QED
    BY <1>1, <1>2, <1>4, <1>5, <1>6, ThreadSteps
-----------------------------------------------------------------------------
(* The operations under the locks.                                         *)

LEMMA OwnBuckets ==
  ASSUME ThreadsOK, NEW t \in Threads, op[t] \in KeyOp
  PROVE  i1(t) \in Bucket /\ i2(t) \in Bucket
  <1>1. op[t].key \in Keys /\ frame[t].hp \in 0 .. MaxHashpower
    BY ThreadHere DEF KeyOp, Frame
  <1> QED
    BY <1>1, HashTypes, IndexTypes DEF i1, i2

(* The locks a move needs are locks of the two buckets of the key and of   *)
(* the places on its path.                                                 *)
LEMMA PathLocksType ==
  ASSUME ThreadsOK, NEW t \in Threads, op[t] \in KeyOp,
         NEW path \in Seq(Place), path # << >>
  PROVE  PathLocks(t, path) \in SUBSET AnyLockInd /\ PathLocks(t, path) # {}
  <1>1. lock_ind(i1(t)) \in AnyLockInd /\ lock_ind(i2(t)) \in AnyLockInd
    BY OwnBuckets, LockIndType
  <1>2. ASSUME NEW i \in 1 .. Len(path)
        PROVE  lock_ind(path[i].bucket) \in AnyLockInd
    <2>1. path[i] \in Place
      OBVIOUS
    <2> QED
      BY <2>1, LockIndType DEF Place
  <1>3. Len(path) \in Nat \ {0}
    OBVIOUS
  <1>4. CASE Len(path) = 1
    BY <1>1, <1>4 DEF PathLocks
  <1>5. CASE Len(path) = 2
    BY <1>1, <1>2, <1>5 DEF PathLocks
  <1>6. CASE Len(path) > 2
    <2>1. Len(path) \in 1 .. Len(path) /\ Len(path) - 1 \in 1 .. Len(path)
      BY <1>3, <1>6
    <2>2. PathLocks(t, path) = {lock_ind(path[Len(path) - 1].bucket),
                                lock_ind(path[Len(path)].bucket)}
      BY <1>6 DEF PathLocks
    <2> QED
      BY <1>2, <2>1, <2>2
  <1>7. Len(path) = 1 \/ Len(path) = 2 \/ Len(path) > 2
    <2> DEFINE n == Len(path)
    <2>1. n \in Nat \ {0}
      BY <1>3
    <2> HIDE DEF n
    <2>2. n = 1 \/ n = 2 \/ n > 2
      BY <2>1
    <2> QED
      BY <2>2 DEF n
  <1> QED
    BY <1>4, <1>5, <1>6, <1>7

LEMMA NeedTypes ==
  ASSUME ThreadsOK, NEW t \in Threads, pc[t] \in {"pick", "lock_first", "lock_next", "body"}
  PROVE  Need(t) \in SUBSET AnyLockInd
  <1>1. /\ op[t] \in KeyOp /\ frame[t].path \in Seq(Place)
        /\ frame[t].stage = "op" \/ frame[t].path # << >>
    BY ThreadHere DEF Fits, Frame
  <1>2. lock_ind(i1(t)) \in AnyLockInd /\ lock_ind(i2(t)) \in AnyLockInd
    BY <1>1, OwnBuckets, LockIndType
  <1> QED
    BY <1>1, <1>2, PathLocksType DEF Need

LEMMA SlotIsInt == \A s \in Slot : s \in Int
  BY SizesAssumption DEF Slot

LEMMA SlotIsNat == Slot \subseteq 0 .. SlotsPerBucket - 1 /\ Slot \subseteq Nat
  BY SizesAssumption DEF Slot

LEMMA KeyPlaceType ==
  ASSUME ThreadsOK, NEW t \in Threads, op[t] \in KeyOp, NEW T \in Table, HasKey(T, t)
  PROVE  /\ KeyPlace(T, t)[1] \in Bucket /\ KeyPlace(T, t)[2] \in Slot
         /\ T[KeyPlace(T, t)[1]][KeyPlace(T, t)[2]] \in Item
         /\ T[KeyPlace(T, t)[1]][KeyPlace(T, t)[2]].key = op[t].key
  <1> DEFINE k == op[t].key
             b == IF SlotsOf(T, i1(t), k) # {} THEN i1(t) ELSE i2(t)
             s == Min(SlotsOf(T, b, k))
  <1>1. b \in Bucket
    BY OwnBuckets
  <1>2. SlotsOf(T, b, k) # {}
    BY DEF HasKey
  <1>3. SlotsOf(T, b, k) \in SUBSET Nat
    BY SlotIsNat DEF SlotsOf
  <1> HIDE DEF b
  <1>4. s \in SlotsOf(T, b, k)
    BY <1>2, <1>3, MinOfNats
  <1>5. s \in Slot /\ T[b][s] # Empty /\ T[b][s].key = k
    BY <1>4 DEF SlotsOf
  <1>6. T[b][s] \in Item
    BY <1>1, <1>5 DEF Table
  <1>7. KeyPlace(T, t) = <<b, s>>
    BY DEF KeyPlace, b
  <1> HIDE DEF s
  <1> QED
    BY <1>1, <1>5, <1>6, <1>7

Put(T, b, s, x) == [T EXCEPT ![b][s] = x]

LEMMA PutType ==
  ASSUME NEW T \in Table, NEW b, NEW s, NEW x \in Item \cup {Empty}
  PROVE  Put(T, b, s, x) \in Table
  <1>1. ASSUME NEW c \in Bucket
        PROVE  [T[c] EXCEPT ![s] = x] \in [Slot -> Item \cup {Empty}]
    BY DEF Table
  <1> QED
    BY <1>1 DEF Table, Put

LEMMA FindTypes ==
  ASSUME TablesOK, ThreadsOK, NEW t \in Threads, FindBody(t)
  PROVE  TablesOK' /\ ThreadsOK'
  <1>0. Need(t) \in SUBSET AnyLockInd
    BY NeedTypes DEF FindBody, InBody
  <1>1. PICK tag, val : Return(t, tag, val)
    BY DEF FindBody
  <1>2. /\ buckets' = Rehashed(Need(t)) /\ RehashFlags(Need(t)) /\ counter' = counter
    BY DEF FindBody
  <1>3. ThreadsOK'
    BY <1>1, ReturnTypes
  <1>4. TablesOK'
    BY <1>1, <1>2, <1>0, RehashTypes, UnlockTypes DEF TablesOK, Return, Answer
  <1> QED
    BY <1>3, <1>4

LEMMA EraseTypes ==
  ASSUME TablesOK, ThreadsOK, NEW t \in Threads, EraseBody(t)
  PROVE  TablesOK' /\ ThreadsOK'
  <1> DEFINE T == Rehashed(Need(t))
             p == KeyPlace(T, t)
  <1>0. Need(t) \in SUBSET AnyLockInd
    BY NeedTypes DEF EraseBody, InBody
  <1>1. PICK tag, val : Return(t, tag, val)
    BY DEF EraseBody
  <1>2. RehashFlags(Need(t))
    BY DEF EraseBody
  <1>3. T \in Table
    BY <1>0, RehashTypes
  <1>4. buckets' = T \/ buckets' = Put(T, p[1], p[2], Empty)
    BY DEF EraseBody, Put
  <1>5. buckets' \in Table
    BY <1>3, <1>4, PutType
  <1>6. \/ counter' = counter
        \/ counter' = [counter EXCEPT ![<<curLocks, lock_ind(p[1])>>] = @ - 1]
    BY DEF EraseBody
  <1>7. counter' \in [LockId -> Int]
    BY <1>6 DEF TablesOK
  <1>8. TablesOK'
    BY <1>1, <1>2, <1>5, <1>7, <1>0, RehashTypes, UnlockTypes DEF TablesOK, Return, Answer
  <1> QED
    BY <1>1, <1>8, ReturnTypes

LEMMA UpsertTypes ==
  ASSUME TablesOK, ThreadsOK, NEW t \in Threads, op[t] \in InsertOp,
         NEW T \in Table, NEW p, Upsert(t, T, p)
  PROVE  /\ buckets' \in Table
         /\ counter' \in [LockId -> Int]
         /\ holder' \in [LockId -> Threads \cup {NoThread}]
         /\ curLocks' = curLocks /\ opsLeft' = opsLeft /\ strayed' = strayed
         /\ ThreadsOK'
  <1> DEFINE q == KeyPlace(T, t)
  <1>1. /\ op[t] \in KeyOp /\ op[t].key \in Keys /\ op[t].val \in Values
    BY DEF InsertOp, KeyOp
  <1>2. PICK tag, val : Return(t, tag, val)
    BY DEF Upsert
  <1>3. CASE HasKey(T, t)
    <2>1. q[1] \in Bucket /\ q[2] \in Slot /\ T[q[1]][q[2]] \in Item
      BY <1>1, <1>3, KeyPlaceType
    <2> DEFINE x == T[q[1]][q[2]]
    <2>2. [x EXCEPT !.val = op[t].val] \in Item
      BY <1>1, <2>1 DEF Item
    <2>3. [x EXCEPT !.val = Add(@, op[t].val)] \in Item
      BY <1>1, <2>1, ValuesAssumption DEF Item
    <2>4. \/ buckets' = T
          \/ buckets' = Put(T, q[1], q[2], [x EXCEPT !.val = op[t].val])
          \/ buckets' = Put(T, q[1], q[2], [x EXCEPT !.val = Add(@, op[t].val)])
      BY <1>3, <2>1 DEF Upsert, Table, Put
    <2>5. buckets' \in Table
      BY <2>2, <2>3, <2>4, PutType
    <2>6. counter' = counter
      BY <1>3 DEF Upsert
    <2> QED
      BY <2>5, <2>6, <1>2, ReturnTypes, UnlockTypes DEF TablesOK, Return, Answer
  <1>4. CASE ~ HasKey(T, t)
    <2>1. [key |-> op[t].key, val |-> op[t].val] \in Item
      BY <1>1 DEF Item
    <2>2. \/ buckets' = T
          \/ buckets' = Put(T, p[1], p[2], [key |-> op[t].key, val |-> op[t].val])
      BY <1>4 DEF Upsert, Put
    <2>3. buckets' \in Table
      BY <2>1, <2>2, PutType
    <2>4. \/ counter' = counter
          \/ counter' = [counter EXCEPT ![<<curLocks, lock_ind(p[1])>>] = @ + 1]
      BY <1>4 DEF Upsert
    <2>5. counter' \in [LockId -> Int]
      BY <2>4 DEF TablesOK
    <2> QED
      BY <2>3, <2>5, <1>2, ReturnTypes, UnlockTypes DEF Return, Answer
  <1> QED
    BY <1>3, <1>4

LEMMA StartSearchTypes ==
  ASSUME TablesOK, ThreadsOK, NEW t \in Threads, op[t] \in InsertOp, StartSearch(t)
  PROVE  /\ holder' \in [LockId -> Threads \cup {NoThread}]
         /\ curLocks' = curLocks /\ opsLeft' = opsLeft /\ strayed' = strayed
         /\ ThreadsOK'
  <1> DEFINE q == <<[bucket |-> i1(t), root |-> 0, slots |-> << >>],
                    [bucket |-> i2(t), root |-> 1, slots |-> << >>]>>
             f == [frame[t] EXCEPT !.queue = q, !.path = << >>]
  <1>1. op[t] \in KeyOp /\ frame[t] \in Frame
    BY ThreadHere DEF InsertOp
  <1>2. i1(t) \in Bucket /\ i2(t) \in Bucket
    BY <1>1, OwnBuckets
  <1>3. << >> \in Seq(Slot) /\ << >> \in Seq(Place)
    OBVIOUS
  <1>4. /\ [bucket |-> i1(t), root |-> 0, slots |-> << >>] \in BSlot
        /\ [bucket |-> i2(t), root |-> 1, slots |-> << >>] \in BSlot
    BY <1>2, <1>3 DEF BSlot
  <1>5. q \in Seq(BSlot) /\ q # << >>
    BY <1>4
  <1> HIDE DEF q
  <1>6. f \in Frame /\ f.queue = q /\ f.path = << >>
    BY <1>1, <1>3, <1>5 DEF Frame
  <1>7. Fits("search", op[t], f) /\ "search" \in Labels
    BY <1>1, <1>5, <1>6, ValuesAssumption DEF Fits, Labels
  <1>8. Goto(t, "search") /\ op' = op /\ frame' = [frame EXCEPT ![t] = f]
    BY DEF StartSearch, callVars, q
  <1>9. ThreadsOK'
    <2> HIDE DEF f
    <2> QED
      BY <1>6, <1>7, <1>8, ThreadSteps
  <1> QED
    BY <1>9, UnlockTypes DEF StartSearch, callVars

LEMMA InsertTypes ==
  ASSUME TablesOK, ThreadsOK, NEW t \in Threads, InsertBody(t)
  PROVE  TablesOK' /\ ThreadsOK'
  <1> DEFINE T == Rehashed(Need(t))
  <1>0. Need(t) \in SUBSET AnyLockInd
    BY NeedTypes DEF InsertBody, InBody
  <1>1. op[t] \in InsertOp
    BY ThreadHere DEF InsertBody, InBody, Fits, InsertOp
  <1>2. T \in Table /\ RehashFlags(Need(t))
    BY <1>0, RehashTypes DEF InsertBody
  <1>3. \/ \E p : Upsert(t, T, p)
        \/ buckets' = T /\ counter' = counter /\ StartSearch(t)
    BY DEF InsertBody
  <1>4. /\ buckets' \in Table /\ counter' \in [LockId -> Int]
        /\ holder' \in [LockId -> Threads \cup {NoThread}]
        /\ curLocks' = curLocks /\ opsLeft' = opsLeft /\ strayed' = strayed
        /\ ThreadsOK'
    BY <1>1, <1>2, <1>3, UpsertTypes, StartSearchTypes DEF TablesOK
  <1> QED
    BY <1>2, <1>4, <1>0, RehashTypes DEF TablesOK
-----------------------------------------------------------------------------
(* Cuckooing.                                                              *)

LEMMA ItemHash ==
  ASSUME NEW T \in Table, NEW b \in Bucket, NEW s \in Slot, T[b][s] # Empty
  PROVE  /\ T[b][s] \in Item /\ HashOf[T[b][s].key] \in Hashes
  <1>1. T[b][s] \in Item
    BY DEF Table
  <1>2. T[b][s].key \in Keys
    BY <1>1 DEF Item
  <1> QED
    BY <1>1, <1>2, HashTypes

LEMMA ModSlot ==
  ASSUME NEW a \in Int
  PROVE  a % SlotsPerBucket \in Slot
  BY SizesAssumption DEF Slot

LEMMA SearchSlotsType ==
  ASSUME NEW x \in BSlot
  PROVE  SearchSlots(x) \in [1 .. SlotsPerBucket -> Slot]
  <1> DEFINE start == IF x.slots = << >> THEN x.root % SlotsPerBucket
                      ELSE x.slots[Len(x.slots)]
  <1>1. x.slots \in Seq(Slot) /\ x.root \in {0, 1}
    BY DEF BSlot
  <1>2. start \in Int
    <2>1. CASE x.slots = << >>
      <3>1. x.root % SlotsPerBucket \in Slot
        BY <1>1, ModSlot
      <3> QED
        BY <2>1, <3>1, SlotIsInt
    <2>2. CASE x.slots # << >>
      <3>1. x.slots[Len(x.slots)] \in Slot
        BY <1>1, <2>2
      <3> QED
        BY <2>2, <3>1, SlotIsInt
    <2> QED
      BY <2>1, <2>2
  <1> HIDE DEF start
  <1>3. ASSUME NEW i \in 1 .. SlotsPerBucket
        PROVE  (start + i - 1) % SlotsPerBucket \in Slot
    <2>1. start + i - 1 \in Int
      BY <1>2, SizesAssumption
    <2> QED
      BY <2>1, ModSlot
  <1>4. SearchSlots(x) = [i \in 1 .. SlotsPerBucket |-> (start + i - 1) % SlotsPerBucket]
    BY DEF SearchSlots, start
  <1> QED
    BY <1>3, <1>4

LEMMA SearchTypes ==
  ASSUME TablesOK, ThreadsOK, NEW t \in Threads, Search(t)
  PROVE  TablesOK' /\ ThreadsOK'
  <1> DEFINE x == Head(frame[t].queue)
             T == Rehashed({lock_ind(x.bucket)})
             order == SearchSlots(x)
             free == {i \in 1 .. SlotsPerBucket : T[x.bucket][order[i]] = Empty}
             Child(i) ==
               [bucket |-> AltIndex(frame[t].hp, HashOf[T[x.bucket][order[i]].key], x.bucket),
                root   |-> x.root,
                slots  |-> Append(x.slots, order[i])]
             rest == Tail(frame[t].queue)
             queue == IF Len(x.slots) < MaxBfsPathLen - 1
                      THEN rest \o [i \in 1 .. SlotsPerBucket |-> Child(i)]
                      ELSE rest
             found == [x EXCEPT !.slots = Append(@, order[Min(free)])]
  <1>1. /\ pc[t] = "search" /\ frame[t] \in Frame /\ Fits("search", op[t], frame[t])
        /\ op' = op
    BY ThreadHere DEF Search, callVars
  <1>2. op[t] \in InsertOp /\ op[t] \in KeyOp /\ frame[t].queue # << >> /\ frame[t].path = << >>
    BY <1>1 DEF Fits, InsertOp
  <1>3. frame[t].queue \in Seq(BSlot) /\ frame[t].hp \in 0 .. MaxHashpower
    BY <1>1 DEF Frame
  <1>4. x \in BSlot /\ rest \in Seq(BSlot)
    BY <1>2, <1>3
  <1>5. x.bucket \in Bucket /\ x.root \in {0, 1} /\ x.slots \in Seq(Slot)
    BY <1>4 DEF BSlot
  <1>6. {lock_ind(x.bucket)} \in SUBSET AnyLockInd
    BY <1>5, LockIndType
  <1>7. T \in Table
    BY <1>6, RehashTypes
  <1>8. order \in [1 .. SlotsPerBucket -> Slot]
    BY <1>4, SearchSlotsType
  <1>9. CASE ~ check_hashpower(t)
    <2>1. Goto(t, "snapshot") /\ frame' = [frame EXCEPT ![t] = frame[t]]
      BY <1>9, ThreadHere DEF Search
    <2>2. Fits("snapshot", op[t], frame[t]) /\ "snapshot" \in Labels
      BY <1>2, ValuesAssumption DEF Fits, Labels
    <2>3. TablesOK'
      BY <1>9 DEF Search, TablesOK, tableVars, lockVars, callVars
    <2> QED
      BY <1>1, <2>1, <2>2, <2>3, ThreadSteps
  <1>10. CASE check_hashpower(t)
    <2>1. buckets' = T /\ RehashFlags({lock_ind(x.bucket)})
      BY <1>10 DEF Search
    <2>2. TablesOK'
      BY <1>6, <1>7, <2>1, RehashTypes DEF Search, TablesOK, lockVars, callVars
    <2>3. CASE free # {}
      <3>1. Min(free) \in 1 .. SlotsPerBucket
        <4>1. free \in SUBSET (1 .. SlotsPerBucket) /\ free \in SUBSET Nat
          OBVIOUS
        <4> HIDE DEF free
        <4> QED
          BY <2>3, <4>1, MinOfNats
      <3> DEFINE next == order[Min(free)]
      <3>2. next \in Slot
        BY <3>1, <1>8
      <3> HIDE DEF next, x
      <3>3. Append(x.slots, next) \in Seq(Slot) /\ Len(Append(x.slots, next)) > 0
        BY <3>2, <1>5
      <3>4. /\ found \in BSlot
            /\ found.slots = Append(x.slots, next) /\ Len(found.slots) > 0
        BY <1>4, <3>3 DEF BSlot, next
      <3> USE DEF x
      <3> DEFINE f == [frame[t] EXCEPT !.queue = <<found>>]
      <3>5. Goto(t, "trace") /\ frame' = [frame EXCEPT ![t] = f]
        BY <1>10, <2>3 DEF Search
      <3> HIDE DEF found, free, order, T, x
      <3>6. <<found>> \in Seq(BSlot) /\ <<found>>[1] = found /\ <<found>> # << >>
        BY <3>4
      <3>7. f \in Frame /\ f.queue = <<found>> /\ f.path = << >>
        BY <1>1, <1>2, <3>6 DEF Frame
      <3>8. Fits("trace", op[t], f) /\ "trace" \in Labels
        BY <1>2, <3>4, <3>6, <3>7, ValuesAssumption DEF Fits, Labels
      <3> HIDE DEF f
      <3> QED
        BY <1>1, <2>2, <3>5, <3>7, <3>8, ThreadSteps
    <2>4. CASE free = {}
      <3> DEFINE label == IF queue = << >> THEN "grow" ELSE "search"
                 f == [frame[t] EXCEPT !.queue = queue]
      <3>1. Goto(t, label) /\ frame' = [frame EXCEPT ![t] = f]
        BY <1>10, <2>4 DEF Search
      <3>2. ASSUME NEW i \in 1 .. SlotsPerBucket
            PROVE  Child(i) \in BSlot
        <4>1. order[i] \in Slot /\ T[x.bucket][order[i]] # Empty
          BY <2>4, <1>8
        <4>2. HashOf[T[x.bucket][order[i]].key] \in Hashes
          BY <4>1, <1>5, <1>7, ItemHash
        <4>3. AltIndex(frame[t].hp, HashOf[T[x.bucket][order[i]].key], x.bucket) \in Bucket
          BY <4>2, <1>3, <1>5, IndexTypes
        <4>4. Append(x.slots, order[i]) \in Seq(Slot)
          BY <4>1, <1>5
        <4> QED
          BY <4>3, <4>4, <1>5 DEF BSlot
      <3> HIDE DEF Child
      <3>3. [i \in 1 .. SlotsPerBucket |-> Child(i)] \in Seq(BSlot)
        BY <3>2, SizesAssumption
      <3>4. queue \in Seq(BSlot)
        BY <3>3, <1>4
      <3> HIDE DEF queue, free, order, T, x, rest
      <3>5. f \in Frame /\ f.queue = queue /\ f.path = << >>
        BY <1>1, <1>2, <3>4 DEF Frame
      <3>6. Fits(label, op[t], f) /\ label \in Labels
        <4>1. CASE queue = << >>
          BY <4>1, <1>2, <3>5, ValuesAssumption DEF Fits, Labels
        <4>2. CASE queue # << >>
          BY <4>2, <1>2, <3>5, ValuesAssumption DEF Fits, Labels
        <4> QED
          BY <4>1, <4>2
      <3> HIDE DEF f, label
      <3> QED
        BY <1>1, <2>2, <3>1, <3>5, <3>6, ThreadSteps
    <2> QED
      BY <2>3, <2>4
  <1> QED
    BY <1>9, <1>10

LEMMA PathStageType ==
  ASSUME NEW path
  PROVE  PathStage(path) \in {"op", "place", "hop", "last"}
  BY DEF PathStage

(* The place a path goes to next.                                          *)
LEMMA TraceStep ==
  ASSUME TablesOK, ThreadsOK, NEW t \in Threads, pc[t] = "trace"
  PROVE  LET b == TraceBucket(t)
             s == frame[t].queue[1].slots[Len(frame[t].path) + 1]
             T == Rehashed({lock_ind(b)})
         IN /\ b \in Bucket /\ s \in Slot
            /\ {lock_ind(b)} \in SUBSET AnyLockInd /\ T \in Table
            /\ [bucket |-> b, slot |-> s,
                hash |-> IF T[b][s] = Empty THEN 0 ELSE HashOf[T[b][s].key]] \in Place
  <1> DEFINE x == frame[t].queue[1]
             path == frame[t].path
             n == Len(path)
             b == TraceBucket(t)
             s == x.slots[n + 1]
             T == Rehashed({lock_ind(b)})
             free == T[b][s] = Empty
             h == IF free THEN 0 ELSE HashOf[T[b][s].key]
  <1>1. frame[t] \in Frame /\ Fits("trace", op[t], frame[t])
    BY ThreadHere
  <1>2. /\ op[t] \in InsertOp /\ op[t] \in KeyOp /\ frame[t].queue # << >>
        /\ n < Len(x.slots)
    BY <1>1 DEF Fits, InsertOp
  <1>3. /\ frame[t].queue \in Seq(BSlot) /\ frame[t].hp \in 0 .. MaxHashpower
        /\ path \in Seq(Place)
    BY <1>1 DEF Frame
  <1>4. x \in BSlot
    BY <1>2, <1>3
  <1>5. x.slots \in Seq(Slot) /\ n \in Nat
    BY <1>3, <1>4 DEF BSlot
  <1>6. s \in Slot
    <2> HIDE DEF x, n
    <2>1. n + 1 \in 1 .. Len(x.slots)
      BY <1>2, <1>5
    <2> QED
      BY <2>1, <1>5
  <1>7. b \in Bucket
    <2>1. CASE n > 0
      <3>1. path[n] \in Place
        BY <2>1, <1>3
      <3>2. path[n].hash \in Hashes /\ path[n].bucket \in Bucket
        BY <3>1 DEF Place
      <3>3. b = AltIndex(frame[t].hp, path[n].hash, path[n].bucket)
        BY <2>1 DEF TraceBucket
      <3> QED
        BY <3>2, <3>3, <1>3, IndexTypes
    <2>2. CASE ~ (n > 0)
      BY <2>2, <1>2, OwnBuckets DEF TraceBucket
    <2> QED
      BY <2>1, <2>2
  <1> HIDE DEF b, s, x
  <1>8. {lock_ind(b)} \in SUBSET AnyLockInd
    BY <1>7, LockIndType
  <1>9. T \in Table
    BY <1>8, RehashTypes
  <1>10. h \in Hashes
    BY <1>6, <1>7, <1>9, ItemHash DEF Hashes
  <1>11. [bucket |-> b, slot |-> s, hash |-> h] \in Place
    BY <1>6, <1>7, <1>10 DEF Place
  <1> QED
    BY <1>6, <1>7, <1>8, <1>9, <1>11 DEF b, s, x

LEMMA TraceTypes ==
  ASSUME TablesOK, ThreadsOK, NEW t \in Threads, Trace(t)
  PROVE  TablesOK' /\ ThreadsOK'
  <1> DEFINE x == frame[t].queue[1]
             path == frame[t].path
             n == Len(path)
             b == TraceBucket(t)
             s == x.slots[n + 1]
             T == Rehashed({lock_ind(b)})
             free == T[b][s] = Empty
             h == IF free THEN 0 ELSE HashOf[T[b][s].key]
             longer == Append(path, [bucket |-> b, slot |-> s, hash |-> h])
  <1>1. /\ pc[t] = "trace" /\ frame[t] \in Frame /\ Fits("trace", op[t], frame[t])
        /\ op' = op
    BY ThreadHere DEF Trace, callVars
  <1>2. /\ op[t] \in InsertOp /\ op[t] \in KeyOp /\ frame[t].queue # << >>
        /\ n < Len(x.slots)
    BY <1>1 DEF Fits, InsertOp
  <1>3. frame[t].queue \in Seq(BSlot) /\ path \in Seq(Place)
    BY <1>1 DEF Frame
  <1>4. x \in BSlot
    BY <1>2, <1>3
  <1>5. x.slots \in Seq(Slot) /\ n \in Nat
    BY <1>3, <1>4 DEF BSlot
  <1>6. /\ {lock_ind(b)} \in SUBSET AnyLockInd /\ T \in Table
        /\ [bucket |-> b, slot |-> s, hash |-> h] \in Place
    BY <1>1, TraceStep
  <1> HIDE DEF b, s, x
  <1>7. longer \in Seq(Place) /\ longer # << >> /\ Len(longer) = n + 1
    <2> DEFINE e == [bucket |-> b, slot |-> s, hash |-> h]
    <2>1. e \in Place /\ path \in Seq(Place)
      BY <1>3, <1>6
    <2> HIDE DEF e, path
    <2>2. /\ Append(path, e) \in Seq(Place) /\ Append(path, e) # << >>
          /\ Len(Append(path, e)) = Len(path) + 1
      BY <2>1, AppendProperties
    <2>3. longer = Append(path, e)
      BY DEF e
    <2> HIDE DEF longer
    <2> QED
      BY <2>2, <2>3
  <1> HIDE DEF h
  <1>8. CASE ~ check_hashpower(t)
    <2>1. Goto(t, "snapshot") /\ frame' = [frame EXCEPT ![t] = frame[t]]
      BY <1>8, ThreadHere DEF Trace
    <2>2. Fits("snapshot", op[t], frame[t]) /\ "snapshot" \in Labels
      BY <1>2, ValuesAssumption DEF Fits, Labels
    <2>3. TablesOK'
      BY <1>8 DEF Trace, TablesOK, tableVars, lockVars, callVars
    <2> QED
      BY <1>1, <2>1, <2>2, <2>3, ThreadSteps
  <1>9. CASE check_hashpower(t)
    <2>1. buckets' = T /\ RehashFlags({lock_ind(b)})
      BY <1>9 DEF Trace, b
    <2>2. TablesOK'
      BY <1>6, <2>1, RehashTypes DEF Trace, TablesOK, lockVars, callVars
    <2>3. CASE free \/ n + 1 = Len(x.slots)
      <3> DEFINE f == [frame[t] EXCEPT !.queue = << >>, !.path = longer,
                                       !.stage = PathStage(longer),
                                       !.want = PathLocks(t, longer)]
      <3>1. Goto(t, "pick") /\ frame' = [frame EXCEPT ![t] = f]
        BY <1>9, <2>3 DEF Trace, b, s, x, h
      <3> HIDE DEF longer
      <3>2. PathLocks(t, longer) \in SUBSET AnyLockInd /\ PathLocks(t, longer) # {}
        BY <1>2, <1>7, PathLocksType
      <3>3. << >> \in Seq(BSlot)
        OBVIOUS
      <3>4. /\ f \in Frame /\ f.path = longer
            /\ f.stage = PathStage(longer) /\ f.want = PathLocks(t, longer)
        BY <1>1, <1>7, <3>2, <3>3, PathStageType DEF Frame
      <3>5. Fits("pick", op[t], f) /\ "pick" \in Labels
        BY <1>2, <1>7, <3>2, <3>4, ValuesAssumption DEF Fits, Labels
      <3> HIDE DEF f
      <3> QED
        BY <1>1, <2>2, <3>1, <3>4, <3>5, ThreadSteps
    <2>4. CASE ~ (free \/ n + 1 = Len(x.slots))
      <3> DEFINE f == [frame[t] EXCEPT !.path = longer]
      <3>1. Goto(t, "trace") /\ frame' = [frame EXCEPT ![t] = f]
        BY <1>9, <2>4 DEF Trace, b, s, x, h
      <3>2. Len(longer) < Len(x.slots)
        BY <2>4, <1>2, <1>5, <1>7
      <3> HIDE DEF longer
      <3>3. f \in Frame /\ f.path = longer /\ f.queue = frame[t].queue
        BY <1>1, <1>7 DEF Frame
      <3>4. Fits("trace", op[t], f) /\ "trace" \in Labels
        BY <1>2, <3>2, <3>3, ValuesAssumption DEF Fits, Labels, x
      <3> HIDE DEF f
      <3> QED
        BY <1>1, <2>2, <3>1, <3>3, <3>4, ThreadSteps
    <2> QED
      BY <2>3, <2>4
  <1> QED
    BY <1>8, <1>9

LEMMA MovedType ==
  ASSUME NEW T \in Table, NEW from \in Place, NEW to \in Place
  PROVE  Moved(T, from, to) \in Table
  <1> DEFINE x == T[from.bucket][from.slot]
             U == Put(T, to.bucket, to.slot, x)
  <1>1. x \in Item \cup {Empty}
    BY DEF Table, Place
  <1>2. U \in Table
    BY <1>1, PutType
  <1>3. Moved(T, from, to) = Put(U, from.bucket, from.slot, Empty)
    BY DEF Moved, Put
  <1> HIDE DEF U
  <1> QED
    BY <1>2, <1>3, PutType

(* A thread about to make a move has a path that says which.               *)
LEMMA PathHere ==
  ASSUME ThreadsOK, NEW t \in Threads, NEW stage \in {"hop", "last", "place"},
         InBody(t, stage)
  PROVE  /\ op[t] \in InsertOp /\ op[t] \in KeyOp
         /\ frame[t].path \in Seq(Place) /\ frame[t].path # << >>
         /\ \A i \in 1 .. Len(frame[t].path) : frame[t].path[i] \in Place
         /\ stage = "hop"  <=> Len(frame[t].path) > 2
         /\ stage = "last" <=> Len(frame[t].path) = 2
  <1>1. /\ Fits("body", op[t], frame[t]) /\ frame[t] \in Frame
        /\ frame[t].stage = stage
    BY ThreadHere DEF InBody
  <1>2. /\ op[t] \in InsertOp /\ frame[t].path # << >>
        /\ stage = PathStage(frame[t].path)
    BY <1>1 DEF Fits
  <1>3. frame[t].path \in Seq(Place) /\ Len(frame[t].path) \in Nat \ {0}
    BY <1>1, <1>2 DEF Frame
  <1> DEFINE path == frame[t].path
             n == Len(path)
  <1>4. PathStage(path) = IF n = 1 THEN "place" ELSE IF n = 2 THEN "last" ELSE "hop"
    BY DEF PathStage
  <1>5. n \in Nat \ {0} /\ \A i \in 1 .. n : path[i] \in Place
    BY <1>3
  <1> HIDE DEF n
  <1>6. /\ PathStage(path) = "hop" <=> n > 2
        /\ PathStage(path) = "last" <=> n = 2
    BY <1>4, <1>5
  <1> QED
    BY <1>2, <1>3, <1>5, <1>6 DEF InsertOp, n

LEMMA HopTypes ==
  ASSUME TablesOK, ThreadsOK, NEW t \in Threads, HopBody(t)
  PROVE  TablesOK' /\ ThreadsOK'
  <1> DEFINE path == frame[t].path
             n == Len(path)
             rest == SubSeq(path, 1, n - 1)
             T == Rehashed(Need(t))
  <1>0. Need(t) \in SUBSET AnyLockInd
    BY NeedTypes DEF HopBody, InBody
  <1>1. /\ op[t] \in InsertOp /\ op[t] \in KeyOp /\ path \in Seq(Place) /\ n > 2
        /\ path[n - 1] \in Place /\ path[n] \in Place
    BY PathHere DEF HopBody
  <1>2. rest \in Seq(Place) /\ rest # << >>
    <2>1. n \in Nat /\ 1 \in 1 .. n /\ n - 1 \in 1 .. n
      BY <1>1
    <2>2. \A i \in 1 .. n : path[i] \in Place
      BY <1>1
    <2> HIDE DEF n, path
    <2>3. /\ rest \in Seq(Place)
          /\ Len(rest) = n - 1
      BY <1>1, <2>1, SubSeqProperties DEF n
    <2> HIDE DEF rest
    <2> QED
      BY <1>1, <2>1, <2>3
  <1>3. T \in Table /\ RehashFlags(Need(t)) /\ counter' = counter
    BY <1>0, RehashTypes DEF HopBody
  <1> HIDE DEF T, n, rest
  <1>4. CASE CanMove(T, path[n - 1], path[n])
    <2> DEFINE f == [frame[t] EXCEPT !.path = rest, !.stage = PathStage(rest),
                                     !.want = PathLocks(t, rest)]
    <2>1. /\ buckets' = Moved(T, path[n - 1], path[n])
          /\ Unlock(t) /\ Goto(t, "pick")
          /\ frame' = [frame EXCEPT ![t] = f]
          /\ curLocks' = curLocks /\ op' = op /\ opsLeft' = opsLeft /\ strayed' = strayed
      BY <1>4 DEF HopBody, callVars, T, n, rest
    <2>2. buckets' \in Table
      BY <1>1, <1>3, <2>1, MovedType
    <2>3. PathLocks(t, rest) \in SUBSET AnyLockInd /\ PathLocks(t, rest) # {}
      BY <1>1, <1>2, PathLocksType
    <2>4. /\ f \in Frame /\ f.path = rest
          /\ f.stage = PathStage(rest) /\ f.want = PathLocks(t, rest)
      BY <1>2, <2>3, ThreadHere, PathStageType DEF Frame
    <2>5. Fits("pick", op[t], f) /\ "pick" \in Labels
      BY <1>1, <1>2, <2>3, <2>4, ValuesAssumption DEF Fits, Labels
    <2> HIDE DEF f
    <2>6. ThreadsOK'
      BY <2>1, <2>4, <2>5, ThreadSteps
    <2> QED
      BY <1>3, <2>1, <2>2, <2>6, <1>0, RehashTypes, UnlockTypes DEF TablesOK
  <1>5. CASE ~ CanMove(T, path[n - 1], path[n])
    <2>1. buckets' = T /\ StartSearch(t)
      BY <1>5 DEF HopBody, T, n
    <2> QED
      BY <1>1, <1>3, <2>1, <1>0, RehashTypes, StartSearchTypes DEF TablesOK
  <1> QED
    BY <1>4, <1>5

LEMMA LastHopTypes ==
  ASSUME TablesOK, ThreadsOK, NEW t \in Threads, LastHopBody(t)
  PROVE  TablesOK' /\ ThreadsOK'
  <1> DEFINE path == frame[t].path
             T == Rehashed(Need(t))
             U == Moved(T, path[1], path[2])
  <1>0. Need(t) \in SUBSET AnyLockInd
    BY NeedTypes DEF LastHopBody, InBody
  <1>1. op[t] \in InsertOp /\ path[1] \in Place /\ path[2] \in Place
    BY PathHere DEF LastHopBody
  <1>2. T \in Table /\ RehashFlags(Need(t))
    BY <1>0, RehashTypes DEF LastHopBody
  <1>3. U \in Table
    BY <1>1, <1>2, MovedType
  <1>4. \/ \E p : Upsert(t, U, p)
        \/ buckets' = T /\ counter' = counter /\ StartSearch(t)
    BY DEF LastHopBody
  <1> HIDE DEF U, T
  <1>5. /\ buckets' \in Table /\ counter' \in [LockId -> Int]
        /\ holder' \in [LockId -> Threads \cup {NoThread}]
        /\ curLocks' = curLocks /\ opsLeft' = opsLeft /\ strayed' = strayed
        /\ ThreadsOK'
    BY <1>1, <1>2, <1>3, <1>4, UpsertTypes, StartSearchTypes DEF TablesOK
  <1> QED
    BY <1>2, <1>5, <1>0, RehashTypes DEF TablesOK

LEMMA PlaceTypes ==
  ASSUME TablesOK, ThreadsOK, NEW t \in Threads, PlaceBody(t)
  PROVE  TablesOK' /\ ThreadsOK'
  <1> DEFINE T == Rehashed(Need(t))
  <1>0. Need(t) \in SUBSET AnyLockInd
    BY NeedTypes DEF PlaceBody, InBody
  <1>1. op[t] \in InsertOp
    BY PathHere DEF PlaceBody
  <1>2. T \in Table /\ RehashFlags(Need(t))
    BY <1>0, RehashTypes DEF PlaceBody
  <1>3. \/ \E p : Upsert(t, T, p)
        \/ buckets' = T /\ counter' = counter /\ StartSearch(t)
    BY DEF PlaceBody
  <1> HIDE DEF T
  <1>4. /\ buckets' \in Table /\ counter' \in [LockId -> Int]
        /\ holder' \in [LockId -> Threads \cup {NoThread}]
        /\ curLocks' = curLocks /\ opsLeft' = opsLeft /\ strayed' = strayed
        /\ ThreadsOK'
    BY <1>1, <1>2, <1>3, UpsertTypes, StartSearchTypes DEF TablesOK
  <1> QED
    BY <1>2, <1>4, <1>0, RehashTypes DEF TablesOK
-----------------------------------------------------------------------------
(* Doubling, and the operations on the whole table.                        *)

LEMMA StartGrowTypes ==
  ASSUME TablesOK, ThreadsOK, NEW t \in Threads, StartGrow(t)
  PROVE  TablesOK' /\ ThreadsOK'
  <1> DEFINE f == [frame[t] EXCEPT !.gen = curLocks, !.first = curLocks,
                                   !.want = LockInd(curLocks),
                                   !.queue = << >>, !.path = << >>]
  <1>1. op[t] \in InsertOp /\ op[t] \in KeyOp /\ frame[t] \in Frame
    BY ThreadHere DEF StartGrow, Fits, InsertOp
  <1>2. curLocks \in LockArray /\ LockInd(curLocks) \in SUBSET AnyLockInd
    BY LocksOfArray DEF TablesOK
  <1>3. << >> \in Seq(BSlot) /\ << >> \in Seq(Place)
    OBVIOUS
  <1>4. f \in Frame /\ f.gen = curLocks /\ f.want = LockInd(curLocks)
    BY <1>1, <1>2, <1>3 DEF Frame
  <1>5. Fits("lock_all", op[t], f) /\ "lock_all" \in Labels
    BY <1>1, <1>4, ValuesAssumption DEF Fits, Labels
  <1>6. Goto(t, "lock_all") /\ op' = op /\ frame' = [frame EXCEPT ![t] = f]
    BY DEF StartGrow, callVars
  <1>7. TablesOK'
    BY DEF StartGrow, TablesOK, tableVars, lockVars, callVars
  <1> HIDE DEF f
  <1> QED
    BY <1>4, <1>5, <1>6, <1>7, ThreadSteps

LEMMA NextArray ==
  ASSUME NEW g \in LockArray, NEW c \in LockArray, g < c
  PROVE  g + 1 \in LockArray /\ g + 1 <= c
  BY SizesAssumption DEF LockArray

LEMMA LockAllTypes ==
  ASSUME TablesOK, ThreadsOK, NEW t \in Threads, LockAll(t)
  PROVE  TablesOK' /\ ThreadsOK'
  <1>1. /\ pc[t] = "lock_all" /\ frame[t] \in Frame
        /\ Fits("lock_all", op[t], frame[t]) /\ op' = op
    BY ThreadHere DEF LockAll, callVars
  <1>2. /\ op[t] \in InsertOp \/ (op[t] \in TableOp /\ op[t].kind # "size")
        /\ op[t] # NoOp
        /\ frame[t].want \subseteq LockInd(frame[t].gen)
    BY <1>1 DEF Fits
  <1>3. {"lock_all", "exclusive"} \subseteq Labels
    BY DEF Labels
  <1>4. CASE frame[t].want # {}
    <2>1. Take(t) /\ pc' = pc
      BY <1>4 DEF LockAll
    <2>2. PICK f \in Frame :
            /\ frame' = [frame EXCEPT ![t] = f]
            /\ f.want = frame[t].want \ {Min(frame[t].want)}
            /\ f.gen = frame[t].gen
      BY <2>1, TakeTypes
    <2>3. Fits("lock_all", op[t], f)
      BY <1>2, <2>2 DEF Fits
    <2>4. Goto(t, "lock_all")
      BY <1>1, <2>1, ThreadHere DEF Goto
    <2>5. TablesOK'
      BY <2>1, TakeTypes DEF LockAll, TablesOK, tableVars, callVars
    <2> QED
      BY <1>1, <1>3, <2>2, <2>3, <2>4, <2>5, ThreadSteps
  <1>5. CASE frame[t].want = {} /\ Appended(t)
    <2> DEFINE f == [frame[t] EXCEPT !.gen = @ + 1, !.want = LockInd(frame[t].gen + 1)]
    <2>1. frame' = [frame EXCEPT ![t] = f] /\ pc' = pc /\ holder' = holder
      BY <1>5 DEF LockAll
    <2>2. frame[t].gen + 1 \in LockArray
      <3>1. frame[t].gen \in LockArray /\ curLocks \in LockArray
        BY <1>1 DEF Frame, TablesOK
      <3>2. frame[t].gen < curLocks
        BY <1>5 DEF Appended
      <3> QED
        BY <3>1, <3>2, NextArray
    <2>3. LockInd(frame[t].gen + 1) \in SUBSET AnyLockInd
      BY <2>2, LocksOfArray
    <2>4. f \in Frame /\ f.gen = frame[t].gen + 1 /\ f.want = LockInd(frame[t].gen + 1)
      BY <1>1, <2>2, <2>3 DEF Frame
    <2>5. Fits("lock_all", op[t], f)
      BY <1>2, <2>4 DEF Fits
    <2>6. Goto(t, "lock_all")
      BY <1>1, <2>1, ThreadHere DEF Goto
    <2>7. TablesOK'
      BY <2>1 DEF LockAll, TablesOK, tableVars, callVars
    <2> HIDE DEF f
    <2> QED
      BY <1>1, <1>3, <2>1, <2>4, <2>5, <2>6, <2>7, ThreadSteps
  <1>6. CASE frame[t].want = {} /\ ~ Appended(t)
    <2>1. /\ Goto(t, "exclusive") /\ frame' = [frame EXCEPT ![t] = frame[t]]
          /\ holder' = holder
      BY <1>6, ThreadHere DEF LockAll
    <2>2. Fits("exclusive", op[t], frame[t])
      BY <1>2 DEF Fits
    <2>3. TablesOK'
      BY <2>1 DEF LockAll, TablesOK, tableVars, callVars
    <2> QED
      BY <1>1, <1>3, <2>1, <2>2, <2>3, ThreadSteps
  <1> QED
    BY <1>4, <1>5, <1>6

LEMMA NoBucketsType == NoBuckets \in Table
  BY DEF NoBuckets, NoItems, Table

(* The locals of a thread that unlocks everything from array g on.         *)
Unlocking(g, L) == [NoFrame EXCEPT !.gen = g, !.want = L]

LEMMA UnlockingType ==
  ASSUME NEW g \in LockArray, NEW L \in SUBSET AnyLockInd
  PROVE  /\ Unlocking(g, L) \in Frame
         /\ Unlocking(g, L).gen = g /\ Unlocking(g, L).want = L
  BY NoFrameType DEF Unlocking, NoFrame, Frame

LEMMA UnlockAllTypes ==
  ASSUME ThreadsOK, NEW t \in Threads, UnlockAll(t),
         NEW o \in Calls, op' = [op EXCEPT ![t] = o],
         o = NoOp \/ o \in InsertOp
  PROVE  ThreadsOK'
  <1> DEFINE g == frame[t].first
             f == Unlocking(g, LockInd(g))
  <1>1. g \in LockArray
    BY ThreadHere DEF Frame
  <1>2. f \in Frame /\ f.gen = g /\ f.want = LockInd(g)
    BY <1>1, LocksOfArray, UnlockingType
  <1>3. pc' = [pc EXCEPT ![t] = "unlock"] /\ frame' = [frame EXCEPT ![t] = f]
    BY DEF UnlockAll, Goto, Unlocking
  <1> HIDE DEF f
  <1>4. Fits("unlock", o, f) /\ "unlock" \in Labels
    BY <1>2 DEF Fits, Labels
  <1> QED
    BY <1>2, <1>3, <1>4, ThreadMoves

(* A call that has its answer, and all locks to release.                   *)
LEMMA ReturnAllTypes ==
  ASSUME ThreadsOK, NEW t \in Threads, NEW tag, NEW val, ReturnAll(t, tag, val)
  PROVE  /\ ThreadsOK'
         /\ UNCHANGED <<curLocks, holder, strayed, opsLeft>>
  <1>1. UnlockAll(t) /\ op' = [op EXCEPT ![t] = NoOp] /\ opsLeft' = opsLeft
    BY DEF ReturnAll, Answer
  <1>2. NoOp \in Calls
    BY DEF Calls
  <1> QED
    BY <1>1, <1>2, UnlockAllTypes DEF UnlockAll, lockVars

LEMMA UnlockNextTypes ==
  ASSUME TablesOK, ThreadsOK, NEW t \in Threads, UnlockNext(t)
  PROVE  TablesOK' /\ ThreadsOK'
  <1>1. /\ pc[t] = "unlock" /\ frame[t] \in Frame
        /\ Fits("unlock", op[t], frame[t]) /\ op' = op
    BY ThreadHere DEF UnlockNext, callVars
  <1>2. /\ frame[t].want \subseteq LockInd(frame[t].gen) /\ frame[t].gen \in LockArray
        /\ "unlock" \in Labels
    BY <1>1 DEF Fits, Frame, Labels
  <1>3. UNCHANGED <<tableVars, curLocks, counter, callVars>>
    BY DEF UnlockNext
  <1>4. op[t] = NoOp \/ op[t] \in InsertOp
    BY <1>1 DEF Fits
  <1>5. CASE frame[t].want # {}
    <2> DEFINE l == Min(frame[t].want)
               f == [frame[t] EXCEPT !.want = @ \ {l}]
    <2>1. /\ holder' = [holder EXCEPT ![<<frame[t].gen, l>>] = NoThread]
          /\ frame' = [frame EXCEPT ![t] = f] /\ pc' = pc /\ strayed' = strayed
      BY <1>5 DEF UnlockNext
    <2>2. f \in Frame /\ f.want \subseteq frame[t].want /\ f.gen = frame[t].gen
      BY <1>1 DEF Frame
    <2>3. Fits("unlock", op[t], f)
      BY <1>2, <1>4, <2>2 DEF Fits
    <2>4. Goto(t, "unlock")
      BY <1>1, <2>1, ThreadHere DEF Goto
    <2>5. holder' \in [LockId -> Threads \cup {NoThread}]
      BY <2>1 DEF TablesOK
    <2>6. TablesOK'
      BY <1>3, <2>1, <2>5 DEF TablesOK, tableVars, callVars
    <2> HIDE DEF f
    <2> QED
      BY <1>1, <1>2, <2>1, <2>2, <2>3, <2>4, <2>6, ThreadSteps
  <1>6. CASE frame[t].want = {} /\ MoreToUnlock(t)
    <2> DEFINE g == frame[t].gen + 1
               f == [frame[t] EXCEPT !.gen = g, !.want = LockInd(g)]
    <2>1. frame' = [frame EXCEPT ![t] = f] /\ pc' = pc /\ holder' = holder
      BY <1>6 DEF UnlockNext
    <2>2. strayed' = (strayed \/ \E l \in LockInd(g) : holder[<<g, l>>] # t)
      BY <1>6 DEF UnlockNext
    <2>3. g \in LockArray
      <3>1. curLocks \in LockArray /\ frame[t].gen < curLocks
        BY <1>6 DEF MoreToUnlock, TablesOK
      <3> QED
        BY <1>2, <3>1, NextArray
    <2> HIDE DEF g
    <2>4. f \in Frame /\ f.gen = g /\ f.want = LockInd(g)
      BY <1>1, <2>3, LocksOfArray DEF Frame
    <2>5. Fits("unlock", op[t], f)
      BY <1>4, <2>4 DEF Fits
    <2>6. Goto(t, "unlock")
      BY <1>1, <2>1, ThreadHere DEF Goto
    <2>7. strayed' \in BOOLEAN
      BY <2>2
    <2>8. TablesOK'
      BY <1>3, <2>1, <2>7 DEF TablesOK, tableVars, callVars
    <2> HIDE DEF f
    <2> QED
      BY <1>1, <1>2, <2>1, <2>4, <2>5, <2>6, <2>8, ThreadSteps
  <1>7. CASE frame[t].want = {} /\ ~ MoreToUnlock(t)
    <2> DEFINE label == IF op[t] = NoOp THEN "idle" ELSE "snapshot"
    <2>1. /\ Goto(t, label) /\ frame' = [frame EXCEPT ![t] = NoFrame]
          /\ holder' = holder /\ strayed' = strayed
      BY <1>7 DEF UnlockNext
    <2>2. Fits(label, op[t], NoFrame) /\ label \in Labels
      BY <1>4, ValuesAssumption DEF Fits, Labels, InsertOp
    <2>3. TablesOK'
      BY <1>3, <2>1 DEF TablesOK, tableVars, callVars
    <2> HIDE DEF label
    <2> QED
      BY <1>1, <2>1, <2>2, <2>3, NoFrameType, ThreadSteps
  <1> QED
    BY <1>5, <1>6, <1>7

LEMMA ClearTypes ==
  ASSUME TablesOK, ThreadsOK, NEW t \in Threads, ClearBody(t)
  PROVE  TablesOK' /\ ThreadsOK'
  <1>1. ReturnAll(t, "done", Missing)
    BY DEF ClearBody
  <1>2. counter' \in [LockId -> Int]
    BY DEF ClearBody, ResetCounters, TablesOK
  <1>3. migrated' \in [AnyLockInd -> BOOLEAN] /\ remaining' \in Int /\ buckets' \in Table
    BY NoBucketsType DEF ClearBody
  <1>4. ThreadsOK' /\ UNCHANGED <<curLocks, holder, strayed, opsLeft>>
    BY <1>1, ReturnAllTypes
  <1> QED
    BY <1>2, <1>3, <1>4 DEF ClearBody, TablesOK

LEMMA RehashAllTypes ==
  ASSUME TablesOK, RehashAll
  PROVE  /\ buckets' \in Table /\ migrated' \in [AnyLockInd -> BOOLEAN]
         /\ remaining' \in Int
         /\ UNCHANGED <<hashpower, oldBuckets, oldHashpower>>
  <1>1. LockInd(curLocks) \in SUBSET AnyLockInd
    BY LocksOfArray DEF TablesOK
  <1> QED
    BY <1>1, RehashTypes DEF RehashAll

LEMMA DumpTypes ==
  ASSUME TablesOK, ThreadsOK, NEW t \in Threads, DumpBody(t)
  PROVE  TablesOK' /\ ThreadsOK'
  <1>1. PICK val : ReturnAll(t, "table", val)
    BY DEF DumpBody
  <1>2. RehashAll /\ counter' = counter
    BY DEF DumpBody
  <1>3. ThreadsOK' /\ UNCHANGED <<curLocks, holder, strayed, opsLeft>>
    BY <1>1, ReturnAllTypes
  <1> QED
    BY <1>2, <1>3, RehashAllTypes DEF TablesOK

LEMMA GrowThrowsTypes ==
  ASSUME TablesOK, ThreadsOK, NEW t \in Threads, GrowThrows(t)
  PROVE  TablesOK' /\ ThreadsOK'
  <1>1. ReturnAll(t, "throw", Missing)
    BY DEF GrowThrows
  <1>2. ThreadsOK' /\ UNCHANGED <<curLocks, holder, strayed, opsLeft>>
    BY <1>1, ReturnAllTypes
  <1> QED
    BY <1>2 DEF GrowThrows, TablesOK, tableVars

(* A call that doubles the table is an insert.                             *)
LEMMA GrowerHere ==
  ASSUME ThreadsOK, NEW t \in Threads,
         Exclusive(t, {"assign", "accum"}) \/ pc[t] \in {"swap", "install"}
  PROVE  op[t] \in InsertOp /\ op[t] \in KeyOp /\ op[t] # NoOp /\ frame[t] \in Frame
  <1>1. Fits(pc[t], op[t], frame[t]) /\ frame[t] \in Frame
    BY ThreadHere
  <1>2. op[t] \in InsertOp
    BY <1>1 DEF Exclusive, Fits, TableOp
  <1> QED
    BY <1>1, <1>2, ValuesAssumption DEF InsertOp

LEMMA GrowTooLateTypes ==
  ASSUME TablesOK, ThreadsOK, NEW t \in Threads, GrowTooLate(t)
  PROVE  TablesOK' /\ ThreadsOK'
  <1>1. /\ UnlockAll(t) /\ op' = op
        /\ UNCHANGED <<tableVars, lockVars, counter, callVars>>
    BY DEF GrowTooLate, callVars, UnlockAll
  <1>2. op[t] \in InsertOp /\ op[t] \in Calls /\ op' = [op EXCEPT ![t] = op[t]]
    BY <1>1, GrowerHere, ThreadHere DEF GrowTooLate, ThreadsOK
  <1>3. ThreadsOK'
    BY <1>1, <1>2, UnlockAllTypes
  <1> QED
    BY <1>1, <1>3 DEF TablesOK, tableVars, lockVars, callVars

(* An array is appended only while there is a larger one to append.        *)
LEMMA AppendFits ==
  ASSUME NEW g \in LockArray, NEW hp \in Nat, hp < MaxHashpower,
         NumLocks(g) < MaxNumLocks, NumLocks(g) < HashSize[hp + 1]
  PROVE  g + 1 \in LockArray
  <1> DEFINE top == InitHashpower + g
  <1>1. /\ g \in Nat /\ top \in 0 .. MaxHashpower /\ hp + 1 \in 0 .. MaxHashpower
        /\ InitHashpower \in Nat /\ MaxHashpower \in Nat
        /\ g \in 0 .. MaxHashpower - InitHashpower
    BY SizesAssumption DEF LockArray
  <1>2. HashSize[top] < HashSize[hp + 1]
    <2>1. HashSize[top] \in Nat /\ MaxNumLocks \in Nat
      BY <1>1, SizesAssumption
    <2> QED
      BY <2>1 DEF NumLocks
  <1>3. CASE hp + 1 <= top
    BY <1>1, <1>2, <1>3, SizesMonotone
  <1>4. CASE ~ (hp + 1 <= top)
    <2>1. top + 1 <= MaxHashpower
      BY <1>1, <1>4
    <2> QED
      BY <1>1, <2>1 DEF LockArray
  <1> QED
    BY <1>3, <1>4

LEMMA GrowLocksTypes ==
  ASSUME TablesOK, ThreadsOK, NEW t \in Threads, GrowLocks(t)
  PROVE  TablesOK' /\ ThreadsOK'
  <1>1. /\ Exclusive(t, {"assign", "accum"}) /\ MayDouble(t) /\ RehashAll
        /\ hashpower = frame[t].hp
        /\ Goto(t, "swap") /\ op' = op /\ opsLeft' = opsLeft /\ strayed' = strayed
        /\ frame' = [frame EXCEPT ![t] = frame[t]]
    BY ThreadHere DEF GrowLocks, callVars
  <1>2. op[t] \in InsertOp /\ op[t] \in KeyOp /\ op[t] # NoOp /\ frame[t] \in Frame
    BY <1>1, GrowerHere
  <1>3. frame[t].hp \in Nat /\ frame[t].hp < MaxHashpower
    BY <1>1, <1>2, SizesAssumption DEF MayDouble, Frame
  <1>4. Fits("swap", op[t], frame[t]) /\ "swap" \in Labels
    BY <1>2, <1>3 DEF Fits, Labels
  <1>5. ThreadsOK'
    BY <1>1, <1>2, <1>4, ThreadSteps
  <1>6. curLocks \in LockArray
    BY DEF TablesOK
  <1> DEFINE grows == NumLocks(curLocks) < MaxNumLocks
                      /\ NumLocks(curLocks) < HashSize[frame[t].hp + 1]
  <1>7. grows => curLocks + 1 \in LockArray
    BY <1>3, <1>6, AppendFits
  <1>8. CASE grows
    <2>1. /\ curLocks' = curLocks + 1 /\ counter' = CopiedCounters
          /\ holder' = [x \in LockId |-> IF x[1] = curLocks + 1 THEN t ELSE holder[x]]
      BY <1>8 DEF GrowLocks
    <2>2. holder' \in [LockId -> Threads \cup {NoThread}]
      BY <2>1 DEF TablesOK
    <2>3. \A l \in LockInd(curLocks) : counter[<<curLocks, l>>] \in Int
      BY LocksOfArray DEF TablesOK
    <2>4. counter' \in [LockId -> Int]
      <3>1. ASSUME NEW x \in LockId
            PROVE  (IF x[1] = curLocks + 1 /\ x[2] \in LockInd(curLocks)
                    THEN counter[<<curLocks, x[2]>>] ELSE counter[x]) \in Int
        BY <2>3 DEF TablesOK
      <3> QED
        BY <2>1, <3>1 DEF CopiedCounters
    <2> QED
      BY <1>1, <1>5, <1>7, <1>8, <2>1, <2>2, <2>4, RehashAllTypes DEF TablesOK
  <1>9. CASE ~ grows
    <2>1. UNCHANGED <<curLocks, counter, holder>>
      BY <1>9 DEF GrowLocks
    <2> QED
      BY <1>1, <1>5, <2>1, RehashAllTypes DEF TablesOK
  <1> QED
    BY <1>8, <1>9

LEMMA GrowSwapTypes ==
  ASSUME TablesOK, ThreadsOK, NEW t \in Threads, GrowSwap(t)
  PROVE  TablesOK' /\ ThreadsOK'
  <1>1. /\ pc[t] = "swap" /\ Goto(t, "install") /\ op' = op
        /\ frame' = [frame EXCEPT ![t] = frame[t]]
    BY ThreadHere DEF GrowSwap, callVars
  <1>2. /\ Fits("swap", op[t], frame[t]) /\ frame[t] \in Frame
    BY <1>1, ThreadHere
  <1>3. Fits("install", op[t], frame[t]) /\ "install" \in Labels
    BY <1>2 DEF Fits, Labels
  <1>4. TablesOK'
    BY DEF GrowSwap, TablesOK, lockVars, callVars
  <1> QED
    BY <1>1, <1>2, <1>3, <1>4, ThreadSteps

LEMMA GrowInstallTypes ==
  ASSUME TablesOK, ThreadsOK, NEW t \in Threads, GrowInstall(t)
  PROVE  TablesOK' /\ ThreadsOK'
  <1>1. /\ pc[t] = "install" /\ UnlockAll(t) /\ op' = op
        /\ UNCHANGED <<lockVars, callVars>>
    BY DEF GrowInstall, callVars, UnlockAll
  <1>2. op[t] \in KeyOp /\ op[t] # NoOp /\ frame[t] \in Frame
    BY <1>1, GrowerHere
  <1>3. frame[t].hp < MaxHashpower
    BY <1>1, ThreadHere DEF Fits
  <1>4. op[t] \in InsertOp /\ op[t] \in Calls /\ op' = [op EXCEPT ![t] = op[t]]
    BY <1>1, GrowerHere, ThreadHere DEF ThreadsOK
  <1>5. hashpower' \in 0 .. MaxHashpower
    BY <1>2, <1>3, SizesAssumption DEF GrowInstall, Frame
  <1>6. buckets' \in Table
    BY NoBucketsType, MigrateType DEF GrowInstall, TablesOK
  <1>7. remaining' \in Int
    BY LocksOfArray, SizesAssumption DEF GrowInstall, TablesOK
  <1>8. migrated' \in [AnyLockInd -> BOOLEAN]
    BY DEF GrowInstall, TablesOK
  <1>9. TablesOK'
    BY <1>1, <1>5, <1>6, <1>7, <1>8 DEF GrowInstall, TablesOK, lockVars, callVars
  <1> QED
    BY <1>1, <1>4, <1>9, UnlockAllTypes

LEMMA ScanTypes ==
  ASSUME TablesOK, ThreadsOK, NEW t \in Threads, Scan(t)
  PROVE  TablesOK' /\ ThreadsOK'
  <1>1. /\ pc[t] = "scan" /\ Fits("scan", op[t], frame[t]) /\ frame[t] \in Frame
    BY ThreadHere DEF Scan
  <1>2. CASE frame[t].want = {}
    <2>1. /\ pc' = [pc EXCEPT ![t] = "idle"] /\ op' = [op EXCEPT ![t] = NoOp]
          /\ frame' = [frame EXCEPT ![t] = NoFrame]
          /\ UNCHANGED <<tableVars, lockVars, counter, opsLeft>>
      BY <1>2 DEF Scan, Goto, Answer
    <2>2. TablesOK'
      BY <2>1 DEF TablesOK, tableVars, lockVars
    <2>3. Fits("idle", NoOp, NoFrame) /\ "idle" \in Labels /\ NoOp \in Calls
      BY DEF Fits, Labels, Calls
    <2> QED
      BY <2>1, <2>2, <2>3, NoFrameType, ThreadMoves
  <1>3. CASE frame[t].want # {}
    <2> DEFINE l == Min(frame[t].want)
               c == counter[<<frame[t].gen, l>>]
               n == frame[t].sum + c
               f == [frame[t] EXCEPT !.want = @ \ {l}, !.sum = n]
    <2>1. /\ pc' = pc /\ op' = op /\ frame' = [frame EXCEPT ![t] = f]
          /\ UNCHANGED <<lockVars, callVars>>
      BY <1>3 DEF Scan, callVars
    <2>2. frame[t].want \subseteq LockInd(frame[t].gen) /\ frame[t].gen \in LockArray
      BY <1>1 DEF Fits, Frame
    <2>3. l \in frame[t].want
      <3>1. frame[t].want \in SUBSET Nat
        BY <2>2 DEF LockInd
      <3> QED
        BY <3>1, <1>3, MinOfNats
    <2>4. c \in Int
      BY <2>2, <2>3, LocksOfArray DEF TablesOK
    <2>5. n \in Int /\ frame[t].want \ {l} \in SUBSET AnyLockInd
      BY <1>1, <2>4 DEF Frame
    <2> HIDE DEF l, c, n
    <2>6. f \in Frame /\ f.want = frame[t].want \ {l} /\ f.gen = frame[t].gen
      BY <1>1, <2>5 DEF Frame
    <2>7. Fits("scan", op[t], f) /\ "scan" \in Labels
      BY <1>1, <2>2, <2>6 DEF Fits, Labels
    <2>8. Goto(t, "scan")
      BY <1>1, <2>1, ThreadHere DEF Goto
    <2>9. TablesOK'
      BY <2>1 DEF Scan, TablesOK, tableVars, lockVars, callVars
    <2> HIDE DEF f
    <2> QED
      BY <2>1, <2>6, <2>7, <2>8, <2>9, ThreadSteps
  <1> QED
    BY <1>2, <1>3
=============================================================================
