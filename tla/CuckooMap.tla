------------------------------ MODULE CuckooMap ------------------------------
(***************************************************************************)
(* The concurrent cuckoo hash table of core/lib/cuckoo/cuckoohash_map.hh,  *)
(* in normal_mode, as TableWrapperOptimized uses it: find, insert_or_assign*)
(* insert_or_accum, erase, clear, size and lock_table, with automatic      *)
(* doubling (cuckoo_fast_double) and lazy migration of the old buckets.    *)
(*                                                                         *)
(* A step of a thread is what it does while it holds its locks, with the   *)
(* release of the locks of its buckets; or the taking of one lock, or one  *)
(* read made without a lock.  Taking a single lock, reading under it and   *)
(* releasing it (lock_one) is one step.  A thread with all the locks of    *)
(* the table takes, and releases, one at a time.                           *)
(***************************************************************************)
EXTENDS Integers, Sequences, FiniteSets, FiniteSetsExt

CONSTANTS
  Threads, Keys, Values,
  Add(_, _),           \* operator+= of the mapped type
  Workload,            \* [Threads -> operations the thread may call]
  MaxOps,              \* bound: calls made in one behaviour
  HashOf,              \* [Keys -> hash]
  HashSize,            \* [0 .. MaxHashpower -> Nat]: hashsize(hp)
  IndexHash(_, _),     \* index_hash(hp, hash)
  AltIndex(_, _, _),   \* alt_index(hp, partial_key(hash), index)
  SlotsPerBucket,
  InitHashpower,       \* hashpower of the constructed table
  MaxHashpower,        \* maximum_hashpower()
  MaxNumLocks,         \* kMaxNumLocks
  MaxBfsPathLen,       \* MAX_BFS_PATH_LEN
  LoadFactorInverse,   \* 1 / minimum_load_factor()
  Empty,               \* an unoccupied slot
  NoThread,            \* the holder of a free lock
  Missing, NoOp

Slot   == 0 .. SlotsPerBucket - 1
Bucket == 0 .. HashSize[MaxHashpower] - 1
Hashpower == InitHashpower .. MaxHashpower
Item   == [key : Keys, val : Values]

(* The lock that protects a bucket.                                        *)
lock_ind(b) == b % MaxNumLocks

(* all_locks_: array g was made when the table had hashpower               *)
(* InitHashpower + g.                                                      *)
LockArray == 0 .. MaxHashpower - InitHashpower
NumLocks(g) == IF HashSize[InitHashpower + g] < MaxNumLocks
               THEN HashSize[InitHashpower + g] ELSE MaxNumLocks
LockInd(g)  == 0 .. NumLocks(g) - 1
AnyLockInd  == 0 .. MaxNumLocks - 1
LockId == {x \in LockArray \X AnyLockInd : x[2] \in LockInd(x[1])}

(* The calls: on one key, or on the whole table.                           *)
KeyOp   == [kind : {"find", "assign", "accum", "erase"},
            key : Keys, val : Values, exist : BOOLEAN]
TableOp == [kind : {"clear", "dump", "size"}]

Hashes == {HashOf[k] : k \in Keys} \cup {0}

ASSUME SizesAssumption ==
  /\ InitHashpower \in Nat /\ MaxHashpower \in Nat /\ InitHashpower <= MaxHashpower
  /\ MaxNumLocks \in Nat \ {0} /\ SlotsPerBucket \in Nat \ {0}
  /\ MaxBfsPathLen \in Nat \ {0} /\ LoadFactorInverse \in Nat /\ MaxOps \in Nat
  /\ HashSize \in [0 .. MaxHashpower -> Nat \ {0}]
  /\ \A hp \in 0 .. MaxHashpower - 1 : HashSize[hp + 1] = 2 * HashSize[hp]

ASSUME ValuesAssumption ==
  /\ HashOf \in [Keys -> Nat]
  /\ \A v, d \in Values : Add(v, d) \in Values
  /\ Empty \notin Item /\ Missing \notin Values
  /\ NoThread \notin Threads /\ NoOp \notin KeyOp \cup TableOp
  /\ Workload \in [Threads -> SUBSET (KeyOp \cup TableOp)]

(* index_hash and alt_index mask their result with hashmask(hp), alt_index *)
(* is its own inverse, and a doubling adds one bit at the top of each      *)
(* ("the alt_index must only grow by one bit at the top").                 *)
ASSUME HashAssumption ==
  \A h \in Hashes :
    /\ \A hp \in 0 .. MaxHashpower :
         /\ IndexHash(hp, h) \in 0 .. HashSize[hp] - 1
         /\ \A i \in Bucket : AltIndex(hp, h, i) \in 0 .. HashSize[hp] - 1
         /\ \A i \in 0 .. HashSize[hp] - 1 : AltIndex(hp, h, AltIndex(hp, h, i)) = i
    /\ \A hp \in 0 .. MaxHashpower - 1 :
         /\ IndexHash(hp + 1, h) \in {IndexHash(hp, h), IndexHash(hp, h) + HashSize[hp]}
         /\ \A i \in 0 .. HashSize[hp] - 1 : \A j \in {i, i + HashSize[hp]} :
              AltIndex(hp + 1, h, j) \in {AltIndex(hp, h, i), AltIndex(hp, h, i) + HashSize[hp]}

(* Both sizes are powers of two: once there are as many buckets as locks,  *)
(* a doubling leaves every item under the lock it had.                     *)
ASSUME LocksAssumption ==
  \A hp \in 0 .. MaxHashpower :
    HashSize[hp] >= MaxNumLocks => \A b \in Bucket : lock_ind(b + HashSize[hp]) = lock_ind(b)

VARIABLES
  buckets, hashpower,        \* buckets_; unallocated buckets are kept Empty
  oldBuckets, oldHashpower,  \* old_buckets_
  curLocks,                  \* the last of all_locks_: get_current_locks()
  holder,                    \* [LockId -> the thread holding the spinlock]
  counter,                   \* [LockId -> elem_counter]
  migrated,                  \* is_migrated of the current lock array
  remaining,                 \* num_remaining_lazy_rehash_locks_
  pc, op, ans,               \* per thread: where it is, its call, its answer
  frame,                     \* per thread: the locals of the call
  opsLeft,
  strayed                    \* history: an unlocking went on to foreign locks

tableVars == <<buckets, hashpower, oldBuckets, oldHashpower, migrated, remaining>>
lockVars  == <<curLocks, holder, strayed>>
callVars  == <<op, ans, opsLeft>>
vars == <<buckets, hashpower, oldBuckets, oldHashpower, curLocks, holder,
          counter, migrated, remaining, pc, op, ans, frame, opsLeft, strayed>>

NoItems  == [s \in Slot |-> Empty]
NoBuckets == [b \in Bucket |-> NoItems]
NoAnswer == [tag |-> "none", val |-> Missing]
NoFrame  == [hp |-> 0, gen |-> 0, first |-> 0, want |-> {}, stage |-> "op",
             queue |-> << >>, path |-> << >>, sum |-> 0]

Init ==
  /\ buckets = NoBuckets /\ hashpower = InitHashpower
  /\ oldBuckets = NoBuckets /\ oldHashpower = 0
  /\ curLocks = 0
  /\ holder    = [x \in LockId |-> NoThread]
  /\ counter   = [x \in LockId |-> 0]
  /\ migrated  = [l \in AnyLockInd |-> TRUE]
  /\ remaining = 0
  /\ pc    = [t \in Threads |-> "idle"]
  /\ op    = [t \in Threads |-> NoOp]
  /\ ans   = [t \in Threads |-> NoAnswer]
  /\ frame = [t \in Threads |-> NoFrame]
  /\ opsLeft = MaxOps
  /\ strayed = FALSE
-----------------------------------------------------------------------------
(* The two buckets of the key of t's call, at the hashpower it has read.   *)
i1(t) == IndexHash(frame[t].hp, HashOf[op[t].key])
i2(t) == AltIndex(frame[t].hp, HashOf[op[t].key], i1(t))

(* A cuckoo path is the sequence of places from the bucket to be freed to  *)
(* the free slot.  The locks that its last move needs, and what that is.   *)
PathLocks(t, path) ==
  LET n == Len(path) IN
  CASE n = 1 -> {lock_ind(i1(t)), lock_ind(i2(t))}
    [] n = 2 -> {lock_ind(i1(t)), lock_ind(i2(t)), lock_ind(path[2].bucket)}
    [] OTHER -> {lock_ind(path[n - 1].bucket), lock_ind(path[n].bucket)}
PathStage(path) ==
  CASE Len(path) = 1 -> "place" [] Len(path) = 2 -> "last" [] OTHER -> "hop"

(* The locks a call takes: those of its two buckets, or of a move.         *)
Need(t) == IF frame[t].stage = "op" THEN {lock_ind(i1(t)), lock_ind(i2(t))}
           ELSE PathLocks(t, frame[t].path)

(* Mutant of GoesUp: as if no key were in its second bucket.               *)
GoesUpByIndexOnly(b, k) ==
  LET h == HashOf[k] IN
  IndexHash(oldHashpower + 1, h) = IndexHash(oldHashpower, h) + HashSize[oldHashpower]

(* Migration of the old buckets (rehash_lock, move_bucket): a key of old   *)
(* bucket b stays at b, or goes up by the old number of buckets, into the  *)
(* first slots of that bucket.                                             *)
GoesUp(b, k) ==
  LET h  == HashOf[k]
      oi == IndexHash(oldHashpower, h)
      ni == IndexHash(oldHashpower + 1, h)
      up == b + HashSize[oldHashpower]
  IN \/ b = oi /\ ni = up
     \/ b = AltIndex(oldHashpower, h, oi) /\ AltIndex(oldHashpower + 1, h, ni) = up

Staying(b) == [s \in Slot |->
  IF oldBuckets[b][s] # Empty /\ ~ GoesUp(b, oldBuckets[b][s].key)
  THEN oldBuckets[b][s] ELSE Empty]

Raised(b) ==
  LET rising == {s \in Slot : /\ oldBuckets[b][s] # Empty
                              /\ GoesUp(b, oldBuckets[b][s].key)}
      Rank(s) == Cardinality({r \in rising : r < s})
  IN [s \in Slot |-> IF \E r \in rising : Rank(r) = s
                     THEN oldBuckets[b][CHOOSE r \in rising : Rank(r) = s]
                     ELSE Empty]

(* table, after the old buckets under the locks L have been moved into it. *)
Migrate(table, L) ==
  LET n == HashSize[oldHashpower] IN
  [b \in Bucket |->
     IF lock_ind(b) \notin L \/ b >= 2 * n THEN table[b]
     ELSE IF b < n THEN Staying(b) ELSE Raised(b - n)]

(* Mutant of Unmigrated: only the first lock taken is looked at.           *)
UnmigratedFirst(L) == {l \in L : ~ migrated[l] /\ l = Min(L)}

Unmigrated(L) == {l \in L : ~ migrated[l]}

(* rehash_lock of every lock in L: the buckets after it, and the flags.    *)
(* The last lazily migrated lock frees the old buckets.                    *)
Rehashed(L) == Migrate(buckets, Unmigrated(L))
RehashFlags(L) ==
  LET n == Cardinality(Unmigrated(L)) IN
  /\ migrated' = [l \in AnyLockInd |-> migrated[l] \/ l \in Unmigrated(L)]
  /\ remaining' = remaining - n
  /\ oldBuckets' = IF n > 0 /\ remaining = n THEN NoBuckets ELSE oldBuckets
  /\ UNCHANGED <<hashpower, oldHashpower>>
-----------------------------------------------------------------------------
Goto(t, label) == pc' = [pc EXCEPT ![t] = label]

(* spinlock::unlock asks nobody whose the lock is.                         *)
Unlock(t) ==
  holder' = [x \in LockId |-> IF x[1] = frame[t].gen /\ x[2] \in Need(t)
                              THEN NoThread ELSE holder[x]]

Answer(t, tag, val) ==
  /\ op'  = [op EXCEPT ![t] = NoOp]
  /\ ans' = [ans EXCEPT ![t] = [tag |-> tag, val |-> val]]
  /\ UNCHANGED opsLeft

(* The call returns, the locks of its buckets released.                    *)
Return(t, tag, val) ==
  /\ Unlock(t)
  /\ Goto(t, "idle")
  /\ Answer(t, tag, val)
  /\ frame' = [frame EXCEPT ![t] = NoFrame]
  /\ UNCHANGED <<curLocks, strayed>>

(* A thread calls the table.  clear, lock_table and size start from the    *)
(* last lock array; the others read the hashpower first.                   *)
Invoke(t) ==
  /\ pc[t] = "idle" /\ opsLeft > 0
  /\ opsLeft' = opsLeft - 1
  /\ \E o \in Workload[t] :
       /\ op' = [op EXCEPT ![t] = o]
       /\ Goto(t, CASE o.kind = "size" -> "scan"
                    [] o.kind \in {"clear", "dump"} -> "lock_all"
                    [] OTHER -> "snapshot")
       /\ frame' = IF o.kind \in {"clear", "dump", "size"}
                   THEN [frame EXCEPT ![t].gen = curLocks, ![t].first = curLocks,
                                      ![t].want = LockInd(curLocks)]
                   ELSE frame
  /\ ans' = [ans EXCEPT ![t] = NoAnswer]
  /\ UNCHANGED <<tableVars, lockVars, counter>>

(* snapshot_and_lock_two: read the hashpower, without a lock.              *)
Snapshot(t) ==
  /\ pc[t] = "snapshot"
  /\ Goto(t, "pick")
  /\ LET i == IndexHash(hashpower, HashOf[op[t].key])
         a == AltIndex(hashpower, HashOf[op[t].key], i)
     IN frame' = [frame EXCEPT ![t].hp = hashpower, ![t].stage = "op",
                               ![t].queue = << >>, ![t].path = << >>,
                               ![t].want = {lock_ind(i), lock_ind(a)}]
  /\ UNCHANGED <<tableVars, lockVars, counter, callVars>>

(* lock_two, lock_three: get_current_locks(), without a lock.              *)
PickLocks(t) ==
  /\ pc[t] = "pick"
  /\ Goto(t, "lock_first")
  /\ frame' = [frame EXCEPT ![t].gen = curLocks]
  /\ UNCHANGED <<tableVars, lockVars, counter, callVars>>

Take(t) ==
  LET l == Min(frame[t].want) IN
  /\ holder[<<frame[t].gen, l>>] = NoThread
  /\ holder' = [holder EXCEPT ![<<frame[t].gen, l>>] = t]
  /\ frame'  = [frame EXCEPT ![t].want = @ \ {l}]

(* Mutant of LastLock: one lock is taken to be enough.                     *)
AnyLock(t) == TRUE

LastLock(t) == frame[t].want = {Min(frame[t].want)}

(* Mutant of check_hashpower: a resize goes unnoticed.                     *)
check_nothing(t) == TRUE

check_hashpower(t) == hashpower = frame[t].hp

(* Mutant of TryAgain: the hashpower is not read again.                    *)
TryOldSizeAgain(t) == Goto(t, "pick")

(* The loop of snapshot_and_lock_two.                                      *)
TryAgain(t) == Goto(t, "snapshot")

(* The lowest lock first.  If check_hashpower finds that the table has been*)
(* resized since, the lock is released and the call starts again, whether  *)
(* it was locking its buckets or cuckooing (failure_under_expansion).      *)
LockFirst(t) ==
  /\ pc[t] = "lock_first"
  /\ IF check_hashpower(t)
     THEN /\ Take(t)
          /\ Goto(t, IF LastLock(t) THEN "body" ELSE "lock_next")
     ELSE /\ holder[<<frame[t].gen, Min(frame[t].want)>>] = NoThread
          /\ TryAgain(t)
          /\ UNCHANGED <<holder, frame>>
  /\ UNCHANGED <<tableVars, curLocks, strayed, counter, callVars>>

LockNext(t) ==
  /\ pc[t] = "lock_next"
  /\ Take(t)
  /\ Goto(t, IF LastLock(t) THEN "body" ELSE "lock_next")
  /\ UNCHANGED <<tableVars, curLocks, strayed, counter, callVars>>

InBody(t, stage) == pc[t] = "body" /\ frame[t].stage = stage
-----------------------------------------------------------------------------
(* cuckoo_find: the places of a key in the two buckets, the first bucket   *)
(* before the second.                                                      *)
SlotsOf(table, b, k) == {s \in Slot : table[b][s] # Empty /\ table[b][s].key = k}
FreeSlots(table, b)  == {s \in Slot : table[b][s] = Empty}

(* Mutant of HasKey: a key inserted by another thread while this one       *)
(* cuckooed is not looked for again.                                       *)
HasKeyAtFirst(table, t) ==
  frame[t].stage = "op" /\ \E b \in {i1(t), i2(t)} : SlotsOf(table, b, op[t].key) # {}

HasKey(table, t) == \E b \in {i1(t), i2(t)} : SlotsOf(table, b, op[t].key) # {}
KeyPlace(table, t) ==
  LET b == IF SlotsOf(table, i1(t), op[t].key) # {} THEN i1(t) ELSE i2(t)
  IN <<b, Min(SlotsOf(table, b, op[t].key))>>

FindBody(t) ==
  /\ InBody(t, "op") /\ op[t].kind = "find"
  /\ LET table == Rehashed(Need(t))
         p == KeyPlace(table, t)
     IN /\ buckets' = table
        /\ RehashFlags(Need(t))
        /\ IF HasKey(table, t) THEN Return(t, "found", table[p[1]][p[2]].val)
                               ELSE Return(t, "absent", Missing)
  /\ UNCHANGED counter

(* erase_fn and del_from_bucket.                                           *)
EraseBody(t) ==
  /\ InBody(t, "op") /\ op[t].kind = "erase"
  /\ LET table == Rehashed(Need(t))
         p == KeyPlace(table, t)
     IN /\ RehashFlags(Need(t))
        /\ IF HasKey(table, t)
           THEN /\ buckets' = [table EXCEPT ![p[1]][p[2]] = Empty]
                /\ counter' = [counter EXCEPT ![<<curLocks, lock_ind(p[1])>>] = @ - 1]
                /\ Return(t, "erased", Missing)
           ELSE /\ buckets' = table
                /\ UNCHANGED counter
                /\ Return(t, "absent", Missing)

(* The end of insert_or_assign and insert_or_accum, both locks held: the   *)
(* key was found, or the free slot p is there for it.  accumrase_fn does   *)
(* nothing when the caller's exist flag is out of date.                    *)
Upsert(t, table, p) ==
  LET k == op[t].key
      q == KeyPlace(table, t)
  IN IF HasKey(table, t)
     THEN /\ buckets' =
               IF op[t].kind = "assign"
               THEN [table EXCEPT ![q[1]][q[2]].val = op[t].val]
               ELSE IF op[t].exist
               THEN [table EXCEPT ![q[1]][q[2]].val = Add(@, op[t].val)]
               ELSE table
          /\ UNCHANGED counter
          /\ Return(t, "duplicate", Missing)
     ELSE /\ IF op[t].kind = "accum" /\ op[t].exist
             THEN buckets' = table /\ UNCHANGED counter
             ELSE /\ buckets' = [table EXCEPT ![p[1]][p[2]] = [key |-> k, val |-> op[t].val]]
                  /\ counter' = [counter EXCEPT ![<<curLocks, lock_ind(p[1])>>] = @ + 1]
          /\ Return(t, "new", Missing)

(* Mutant of StartSearch: a failed move is tried again on the same path.   *)
RetrySamePath(t) ==
  /\ Unlock(t)
  /\ Goto(t, IF frame[t].path = << >> THEN "search" ELSE "pick")
  /\ frame' = [frame EXCEPT
       ![t].queue = <<[bucket |-> i1(t), root |-> 0, slots |-> << >>],
                      [bucket |-> i2(t), root |-> 1, slots |-> << >>]>>,
       ![t].want = IF frame[t].path = << >> THEN @ ELSE PathLocks(t, frame[t].path)]
  /\ UNCHANGED <<curLocks, strayed, callVars>>

(* run_cuckoo releases the locks and searches from both buckets.           *)
StartSearch(t) ==
  /\ Unlock(t)
  /\ Goto(t, "search")
  /\ frame' = [frame EXCEPT
       ![t].queue = <<[bucket |-> i1(t), root |-> 0, slots |-> << >>],
                      [bucket |-> i2(t), root |-> 1, slots |-> << >>]>>,
       ![t].path = << >>]
  /\ UNCHANGED <<curLocks, strayed, callVars>>

(* cuckoo_insert, up to the point where it cuckoos: the last free slot of  *)
(* the first bucket, else of the second.                                   *)
InsertBody(t) ==
  /\ InBody(t, "op") /\ op[t].kind \in {"assign", "accum"}
  /\ LET table == Rehashed(Need(t))
         free1 == FreeSlots(table, i1(t))
         free2 == FreeSlots(table, i2(t))
         p == IF free1 # {} THEN <<i1(t), Max(free1)>> ELSE <<i2(t), Max(free2)>>
     IN /\ RehashFlags(Need(t))
        /\ IF HasKey(table, t) \/ free1 # {} \/ free2 # {}
           THEN Upsert(t, table, p)
           ELSE /\ buckets' = table
                /\ UNCHANGED counter
                /\ StartSearch(t)
-----------------------------------------------------------------------------
(* lock_one on bucket b by t, for one step: free now, and the hashpower    *)
(* still the one t works with; if not, the call starts again.              *)
LockOneFree(b) == holder[<<curLocks, lock_ind(b)>>] = NoThread

(* slot_search: the next bucket of the queue.  A b_slot names the path by  *)
(* the bucket it starts from (root) and the slots along it.                *)
SearchSlots(x) ==
  LET start == IF x.slots = << >> THEN x.root % SlotsPerBucket
               ELSE x.slots[Len(x.slots)]
  IN [i \in 1 .. SlotsPerBucket |-> (start + i - 1) % SlotsPerBucket]

Search(t) ==
  /\ pc[t] = "search"
  /\ LET x     == Head(frame[t].queue)
         locks == {lock_ind(x.bucket)}
         table == Rehashed(locks)
         order == SearchSlots(x)
         free  == {i \in 1 .. SlotsPerBucket : table[x.bucket][order[i]] = Empty}
         Child(i) ==
           [bucket |-> AltIndex(frame[t].hp, HashOf[table[x.bucket][order[i]].key], x.bucket),
            root   |-> x.root,
            slots  |-> Append(x.slots, order[i])]
         queue == IF Len(x.slots) < MaxBfsPathLen - 1
                  THEN Tail(frame[t].queue) \o [i \in 1 .. SlotsPerBucket |-> Child(i)]
                  ELSE Tail(frame[t].queue)
     IN /\ LockOneFree(x.bucket)
        /\ IF ~ check_hashpower(t)
           THEN /\ Goto(t, "snapshot")
                /\ UNCHANGED <<tableVars, frame>>
           ELSE /\ buckets' = table
                /\ RehashFlags(locks)
                /\ IF free # {}
                   THEN /\ Goto(t, "trace")
                        /\ frame' = [frame EXCEPT ![t].queue =
                             <<[x EXCEPT !.slots = Append(@, order[Min(free)])]>>]
                   ELSE /\ Goto(t, IF queue = << >> THEN "grow" ELSE "search")
                        /\ frame' = [frame EXCEPT ![t].queue = queue]
  /\ UNCHANGED <<lockVars, counter, callVars>>

TraceBucket(t) ==
  LET path == frame[t].path
      n    == Len(path)
  IN IF n > 0 THEN AltIndex(frame[t].hp, path[n].hash, path[n].bucket)
     ELSE IF frame[t].queue[1].root = 0 THEN i1(t) ELSE i2(t)

(* cuckoopath_search: read the key at the next place of the path; stop at  *)
(* a free slot or at the end.                                              *)
Trace(t) ==
  /\ pc[t] = "trace"
  /\ LET x    == frame[t].queue[1]
         path == frame[t].path
         n    == Len(path)
         b    == TraceBucket(t)
         s    == x.slots[n + 1]
         table == Rehashed({lock_ind(b)})
         free == table[b][s] = Empty
         longer == Append(path, [bucket |-> b, slot |-> s,
                                 hash |-> IF free THEN 0 ELSE HashOf[table[b][s].key]])
     IN /\ LockOneFree(b)
        /\ IF ~ check_hashpower(t)
           THEN /\ Goto(t, "snapshot")
                /\ UNCHANGED <<tableVars, frame>>
           ELSE /\ buckets' = table
                /\ RehashFlags({lock_ind(b)})
                /\ IF free \/ n + 1 = Len(x.slots)
                   THEN /\ Goto(t, "pick")
                        /\ frame' = [frame EXCEPT ![t].queue = << >>,
                                                  ![t].path = longer,
                                                  ![t].stage = PathStage(longer),
                                                  ![t].want = PathLocks(t, longer)]
                   ELSE /\ Goto(t, "trace")
                        /\ frame' = [frame EXCEPT ![t].path = longer]
  /\ UNCHANGED <<lockVars, counter, callVars>>

(* Mutant of CanMove: the item may not be the one the path was made for.   *)
CanMoveAny(table, from, to) ==
  table[to.bucket][to.slot] = Empty /\ table[from.bucket][from.slot] # Empty

(* cuckoopath_move looks again before it moves: the slots may have changed *)
(* since the path was found.                                               *)
CanMove(table, from, to) ==
  /\ table[to.bucket][to.slot] = Empty
  /\ table[from.bucket][from.slot] # Empty
  /\ HashOf[table[from.bucket][from.slot].key] = from.hash

(* Moves an item.  elem_counter is left alone.                             *)
Moved(table, from, to) ==
  [table EXCEPT ![to.bucket][to.slot] = table[from.bucket][from.slot],
                ![from.bucket][from.slot] = Empty]

(* A move far from the insertion: the path gets shorter by one.            *)
HopBody(t) ==
  /\ InBody(t, "hop")
  /\ LET path  == frame[t].path
         n     == Len(path)
         rest  == SubSeq(path, 1, n - 1)
         table == Rehashed(Need(t))
     IN /\ RehashFlags(Need(t))
        /\ IF CanMove(table, path[n - 1], path[n])
           THEN /\ buckets' = Moved(table, path[n - 1], path[n])
                /\ Unlock(t)
                /\ Goto(t, "pick")
                /\ frame' = [frame EXCEPT ![t].path = rest,
                                          ![t].stage = PathStage(rest),
                                          ![t].want = PathLocks(t, rest)]
                /\ UNCHANGED <<curLocks, strayed, callVars>>
           ELSE buckets' = table /\ StartSearch(t)
  /\ UNCHANGED counter

(* The last move, out of one of the two buckets of the key, which stay     *)
(* locked: the key is looked for again and the call ends.                  *)
LastHopBody(t) ==
  /\ InBody(t, "last")
  /\ LET path  == frame[t].path
         table == Rehashed(Need(t))
     IN /\ RehashFlags(Need(t))
        /\ IF CanMove(table, path[1], path[2])
           THEN Upsert(t, Moved(table, path[1], path[2]), <<path[1].bucket, path[1].slot>>)
           ELSE buckets' = table /\ UNCHANGED counter /\ StartSearch(t)

(* A path of depth 0: the search found one of the two buckets with room.   *)
PlaceBody(t) ==
  /\ InBody(t, "place")
  /\ LET p     == frame[t].path[1]
         table == Rehashed(Need(t))
     IN /\ RehashFlags(Need(t))
        /\ IF table[p.bucket][p.slot] = Empty
           THEN Upsert(t, table, <<p.bucket, p.slot>>)
           ELSE buckets' = table /\ UNCHANGED counter /\ StartSearch(t)
-----------------------------------------------------------------------------
(* cuckoo_fast_double, after failure_table_full: lock_all starts at the    *)
(* array that is last when it begins.                                      *)
StartGrow(t) ==
  /\ pc[t] = "grow"
  /\ Goto(t, "lock_all")
  /\ frame' = [frame EXCEPT ![t].gen = curLocks, ![t].first = curLocks,
                            ![t].want = LockInd(curLocks),
                            ![t].queue = << >>, ![t].path = << >>]
  /\ UNCHANGED <<tableVars, lockVars, counter, callVars>>

(* Mutant of Appended: lock_all takes the locks of one array only.         *)
AppendedIgnored(t) == FALSE

(* Arrays were appended to all_locks_ after the one t has just locked.     *)
Appended(t) == frame[t].gen < curLocks

(* Every lock of the array in order, then of the arrays appended since.    *)
LockAll(t) ==
  /\ pc[t] = "lock_all"
  /\ IF frame[t].want # {}
     THEN Take(t) /\ UNCHANGED pc
     ELSE IF Appended(t)
     THEN /\ frame' = [frame EXCEPT ![t].gen = @ + 1, ![t].want = LockInd(frame[t].gen + 1)]
          /\ UNCHANGED <<pc, holder>>
     ELSE /\ Goto(t, "exclusive")
          /\ UNCHANGED <<holder, frame>>
  /\ UNCHANGED <<tableVars, curLocks, strayed, counter, callVars>>

(* AllUnlocker begins at the array that was last when lock_all began.      *)
UnlockAll(t) ==
  /\ Goto(t, "unlock")
  /\ frame' = [frame EXCEPT ![t] = [NoFrame EXCEPT !.gen = frame[t].first,
                                                  !.want = LockInd(frame[t].first)]]
  /\ UNCHANGED lockVars

(* "++it != all_locks_.end()", asked when the last lock is free already.   *)
MoreToUnlock(t) == frame[t].gen < curLocks

(* AllUnlocker, lock by lock.  The array it goes on to may be one that     *)
(* another thread has appended, and locked, since: it is unlocked as well. *)
UnlockNext(t) ==
  /\ pc[t] = "unlock"
  /\ LET g == frame[t].gen + 1 IN
     IF frame[t].want # {}
     THEN LET l == Min(frame[t].want) IN
          /\ holder' = [holder EXCEPT ![<<frame[t].gen, l>>] = NoThread]
          /\ frame'  = [frame EXCEPT ![t].want = @ \ {l}]
          /\ UNCHANGED <<pc, strayed>>
     ELSE IF MoreToUnlock(t)
     THEN /\ frame' = [frame EXCEPT ![t].gen = g, ![t].want = LockInd(g)]
          /\ strayed' = (strayed \/ \E l \in LockInd(g) : holder[<<g, l>>] # t)
          /\ UNCHANGED <<pc, holder>>
     ELSE /\ Goto(t, IF op[t] = NoOp THEN "idle" ELSE "snapshot")
          /\ frame' = [frame EXCEPT ![t] = NoFrame]
          /\ UNCHANGED <<holder, strayed>>
  /\ UNCHANGED <<tableVars, curLocks, counter, callVars>>

(* A call on the whole table, or an insert that throws, has its answer     *)
(* before the locks are released.                                          *)
ReturnAll(t, tag, val) == Answer(t, tag, val) /\ UnlockAll(t)

Exclusive(t, kinds) == pc[t] = "exclusive" /\ op[t].kind \in kinds

ResetCounters == [x \in LockId |-> IF x[1] = curLocks THEN 0 ELSE counter[x]]

(* clear(): the current array's counters and flags are reset.              *)
ClearBody(t) ==
  /\ Exclusive(t, {"clear"})
  /\ buckets' = NoBuckets
  /\ remaining' = 0
  /\ counter'  = ResetCounters
  /\ migrated' = [l \in AnyLockInd |-> TRUE]
  /\ ReturnAll(t, "done", Missing)
  /\ UNCHANGED <<hashpower, oldBuckets, oldHashpower>>

(* rehash_with_workers and the rehash loop of cuckoo_fast_double: every    *)
(* lock, not lazily, so that the old buckets are not freed.                *)
RehashAll ==
  /\ buckets' = Rehashed(LockInd(curLocks))
  /\ migrated' = [l \in AnyLockInd |-> TRUE]
  /\ remaining' = 0
  /\ UNCHANGED <<hashpower, oldBuckets, oldHashpower>>

ItemsIn(table) == {table[b][s] : b \in Bucket, s \in Slot} \ {Empty}
ValueIn(table, k) ==
  IF \E i \in ItemsIn(table) : i.key = k
  THEN (CHOOSE i \in ItemsIn(table) : i.key = k).val ELSE Missing

(* lock_table(): everything migrated, then read under all the locks.       *)
DumpBody(t) ==
  /\ Exclusive(t, {"dump"})
  /\ RehashAll
  /\ ReturnAll(t, "table", [k \in Keys |-> ValueIn(buckets', k)])
  /\ UNCHANGED counter

(* size(): the sum of the counters of the current lock array.              *)
CurrentSize == MapThenSumSet(LAMBDA l : counter[<<curLocks, l>>], LockInd(curLocks))
LoadFactorTooLow ==
  CurrentSize * LoadFactorInverse < HashSize[hashpower] * SlotsPerBucket

(* check_resize_validity, its three tests in the order of the code.  If    *)
(* another expansion ran first the call simply starts again.               *)
MayDouble(t) == frame[t].hp + 1 <= MaxHashpower

GrowThrows(t) ==
  /\ Exclusive(t, {"assign", "accum"})
  /\ ~ MayDouble(t) \/ LoadFactorTooLow
  /\ ReturnAll(t, "throw", Missing)
  /\ UNCHANGED <<tableVars, counter>>

GrowTooLate(t) ==
  /\ Exclusive(t, {"assign", "accum"})
  /\ MayDouble(t) /\ ~ LoadFactorTooLow
  /\ hashpower # frame[t].hp
  /\ UnlockAll(t)
  /\ UNCHANGED <<tableVars, counter, callVars>>

(* Mutant of CopiedCounters: the new locks count from zero.                *)
FreshCounters == counter

(* maybe_resize_locks: the new array starts with the counters of the old.  *)
CopiedCounters ==
  [x \in LockId |-> IF x[1] = curLocks + 1 /\ x[2] \in LockInd(curLocks)
                    THEN counter[<<curLocks, x[2]>>] ELSE counter[x]]

(* The doubling: what is left of the last one is migrated, the new lock    *)
(* array is appended, locked, with the counters copied...                  *)
GrowLocks(t) ==
  /\ Exclusive(t, {"assign", "accum"})
  /\ MayDouble(t) /\ ~ LoadFactorTooLow
  /\ hashpower = frame[t].hp
  /\ RehashAll
  /\ IF NumLocks(curLocks) < MaxNumLocks /\ NumLocks(curLocks) < HashSize[frame[t].hp + 1]
     THEN /\ curLocks' = curLocks + 1
          /\ counter' = CopiedCounters
          /\ holder' = [x \in LockId |-> IF x[1] = curLocks + 1 THEN t ELSE holder[x]]
     ELSE UNCHANGED <<curLocks, counter, holder>>
  /\ Goto(t, "swap")
  /\ UNCHANGED <<strayed, callVars, frame>>

(* ...the buckets become the old buckets, and for a moment hashpower() is  *)
(* that of the container they are swapped with...                          *)
GrowSwap(t) ==
  /\ pc[t] = "swap"
  /\ buckets' = oldBuckets /\ hashpower' = oldHashpower
  /\ oldBuckets' = buckets /\ oldHashpower' = hashpower
  /\ Goto(t, "install")
  /\ UNCHANGED <<lockVars, counter, migrated, remaining, callVars, frame>>

(* ...and the new container is installed: filled at once while there are   *)
(* fewer buckets than locks, else left to be migrated lock by lock.  The   *)
(* locks are released and the insert starts again.                         *)
GrowInstall(t) ==
  /\ pc[t] = "install"
  /\ hashpower' = frame[t].hp + 1
  /\ IF HashSize[oldHashpower] < MaxNumLocks
     THEN /\ buckets' = Migrate(NoBuckets, AnyLockInd)
          /\ remaining' = 0
          /\ UNCHANGED migrated
     ELSE /\ buckets' = NoBuckets
          /\ remaining' = NumLocks(curLocks)
          /\ migrated' = [l \in AnyLockInd |-> FALSE]
  /\ UnlockAll(t)
  /\ UNCHANGED <<oldBuckets, oldHashpower, counter, callVars>>

(* size(): one counter after the other, without any lock.                  *)
Scan(t) ==
  /\ pc[t] = "scan"
  /\ IF frame[t].want = {}
     THEN /\ Goto(t, "idle")
          /\ Answer(t, "size", frame[t].sum)
          /\ frame' = [frame EXCEPT ![t] = NoFrame]
          /\ UNCHANGED lockVars
     ELSE LET l == Min(frame[t].want) IN
          /\ frame' = [frame EXCEPT ![t].want = @ \ {l},
                                    ![t].sum = @ + counter[<<frame[t].gen, l>>]]
          /\ UNCHANGED <<pc, lockVars, callVars>>
  /\ UNCHANGED <<tableVars, counter>>
-----------------------------------------------------------------------------
LockStep(t)   == Snapshot(t) \/ PickLocks(t) \/ LockFirst(t) \/ LockNext(t)
SimpleStep(t) == FindBody(t) \/ EraseBody(t) \/ InsertBody(t)
CuckooStep(t) == Search(t) \/ Trace(t) \/ HopBody(t) \/ LastHopBody(t) \/ PlaceBody(t)
GrowStep(t)   == StartGrow(t) \/ GrowThrows(t) \/ GrowTooLate(t) \/ GrowLocks(t)
                 \/ GrowSwap(t) \/ GrowInstall(t)
TableStep(t)  == LockAll(t) \/ UnlockNext(t) \/ ClearBody(t) \/ DumpBody(t) \/ Scan(t)

Step(t) == LockStep(t) \/ SimpleStep(t) \/ CuckooStep(t) \/ GrowStep(t) \/ TableStep(t)

(* All calls made and returned: the only place to stop.                    *)
Finished == opsLeft = 0 /\ (\A t \in Threads : pc[t] = "idle") /\ UNCHANGED vars

Next == (\E t \in Threads : Invoke(t) \/ Step(t)) \/ Finished

Spec == Init /\ [][Next]_vars

(* A thread in a call goes on unless another thread holds the lock it      *)
(* spins on: Ready(t) is ENABLED Step(t), and every Step(t) changes pc[t]  *)
(* or frame[t].  Weak fairness of Step(t), spelled out because TLC cannot  *)
(* evaluate ENABLED of so large an action in reasonable time.              *)
Waits(t) ==
  CASE pc[t] \in {"lock_first", "lock_next"} -> {<<frame[t].gen, Min(frame[t].want)>>}
    [] pc[t] = "lock_all" /\ frame[t].want # {} -> {<<frame[t].gen, Min(frame[t].want)>>}
    [] pc[t] = "search" -> {<<curLocks, lock_ind(frame[t].queue[1].bucket)>>}
    [] pc[t] = "trace"  -> {<<curLocks, lock_ind(TraceBucket(t))>>}
    [] OTHER -> {}
Ready(t) == pc[t] # "idle" /\ \A x \in Waits(t) : holder[x] = NoThread
Moves(t) == pc'[t] # pc[t] \/ frame'[t] # frame[t]

Fairness == \A t \in Threads : []<>(~ Ready(t)) \/ []<><<Moves(t)>>_vars
FairSpec == Spec /\ Fairness
-----------------------------------------------------------------------------
(* The items the table holds: those of the current buckets, and those of   *)
(* the old buckets not yet migrated.  While a doubling is between its swap *)
(* and its end, all of them are in the old buckets.                        *)
Installing == \E t \in Threads : pc[t] = "install"
NewPlaces == IF Installing THEN {}
             ELSE {p \in Bucket \X Slot : buckets[p[1]][p[2]] # Empty}
OldPlaces == {p \in Bucket \X Slot :
                /\ p[1] < HashSize[oldHashpower]
                /\ Installing \/ ~ migrated[lock_ind(p[1])]
                /\ oldBuckets[p[1]][p[2]] # Empty}

NewPlacesOf(k) == {p \in NewPlaces : buckets[p[1]][p[2]].key = k}
OldPlacesOf(k) == {p \in OldPlaces : oldBuckets[p[1]][p[2]].key = k}

(* The map the callers see.                                                *)
Contents == [k \in Keys |->
  IF NewPlacesOf(k) # {}
  THEN LET p == CHOOSE p \in NewPlacesOf(k) : TRUE IN buckets[p[1]][p[2]].val
  ELSE IF OldPlacesOf(k) # {}
  THEN LET p == CHOOSE p \in OldPlacesOf(k) : TRUE IN oldBuckets[p[1]][p[2]].val
  ELSE Missing]
-----------------------------------------------------------------------------
Labels == {"idle", "snapshot", "pick", "lock_first", "lock_next", "body", "search",
           "trace", "grow", "lock_all", "exclusive", "swap", "install", "unlock", "scan"}
Table == [Bucket -> [Slot -> Item \cup {Empty}]]
BSlot == [bucket : Bucket, root : {0, 1}, slots : Seq(Slot)]
Place == [bucket : Bucket, slot : Slot, hash : Hashes]
Frame == [hp : 0 .. MaxHashpower, gen : LockArray, first : LockArray,
          want : SUBSET AnyLockInd, stage : {"op", "place", "hop", "last"},
          queue : Seq(BSlot), path : Seq(Place), sum : Int]

Types ==
  /\ buckets \in Table /\ oldBuckets \in Table
  /\ hashpower \in 0 .. MaxHashpower /\ oldHashpower \in 0 .. MaxHashpower
  /\ curLocks \in LockArray
  /\ holder \in [LockId -> Threads \cup {NoThread}]
  /\ counter \in [LockId -> Int]
  /\ migrated \in [AnyLockInd -> BOOLEAN]
  /\ remaining \in Int
  /\ pc \in [Threads -> Labels]
  /\ op \in [Threads -> KeyOp \cup TableOp \cup {NoOp}]
  /\ frame \in [Threads -> Frame]
  /\ opsLeft \in 0 .. MaxOps
  /\ strayed \in BOOLEAN

InsertOp == {o \in KeyOp : o.kind \in {"assign", "accum"}}
Fits(label, o, f) ==
  /\ label = "idle" => o = NoOp
  /\ o = NoOp => label \in {"idle", "unlock"}
  /\ label \in {"snapshot", "pick", "lock_first", "lock_next", "body"} => o \in KeyOp
  /\ label \in {"search", "trace", "grow", "swap", "install"} => o \in InsertOp
  /\ label \in {"lock_all", "exclusive"} =>
       o \in InsertOp \/ (o \in TableOp /\ o.kind # "size")
  /\ label = "unlock" => o = NoOp \/ o \in InsertOp
  /\ label = "scan" => o \in TableOp /\ o.kind = "size"
  /\ label \in {"pick", "lock_first", "lock_next", "body"} =>
       \/ f.stage = "op"
       \/ o \in InsertOp /\ f.path # << >> /\ f.stage = PathStage(f.path)
  /\ label \in {"swap", "install"} => f.hp < MaxHashpower
  /\ label = "search" => f.queue # << >> /\ f.path = << >>
  /\ label = "trace"  => f.queue # << >> /\ Len(f.path) < Len(f.queue[1].slots)
  /\ label \in {"pick", "lock_first", "lock_next"} => f.want # {}
  /\ label = "body" => f.want = {}
  /\ label \in {"lock_all", "unlock", "scan"} => f.want \subseteq LockInd(f.gen)

(* The types, and how a thread's call and locals fit the place it is at.   *)
TypeOK == Types /\ \A t \in Threads : Fits(pc[t], op[t], frame[t])

(* No key is in the table twice, not even once in the old buckets and once *)
(* in the new: cuckoo_insert looks for the key again after cuckooing.      *)
NoDuplicateKey ==
  \A k \in Keys : Cardinality(NewPlacesOf(k)) + Cardinality(OldPlacesOf(k)) <= 1

(* Every item is where cuckoo_find will look for it: in one of the two     *)
(* buckets its hash gives at the hashpower of the container it is in.      *)
Candidates(hp, k) ==
  LET i == IndexHash(hp, HashOf[k]) IN {i, AltIndex(hp, HashOf[k], i)}
EveryItemInItsBucket ==
  /\ \A p \in NewPlaces : p[1] \in Candidates(hashpower, buckets[p[1]][p[2]].key)
  /\ \A p \in OldPlaces : p[1] \in Candidates(oldHashpower, oldBuckets[p[1]][p[2]].key)

(* The counters of the current locks add up to the number of items, though *)
(* an item's move from lock to lock leaves each single counter wrong.      *)
CountersAddUp == CurrentSize = Cardinality(NewPlaces) + Cardinality(OldPlaces)

(* Lazy migration: the buckets under a lock not yet migrated are empty, so *)
(* move_bucket never overwrites; as many locks remain as are counted.      *)
MigrationIsSafe ==
  /\ \A b \in Bucket : ~ migrated[lock_ind(b)] => buckets[b] = NoItems
  /\ (\A t \in Threads : pc[t] # "install") =>
       remaining = Cardinality({l \in AnyLockInd : ~ migrated[l]})

(* A thread at work on its buckets holds locks of the current array and    *)
(* works at the current hashpower; one that holds all the locks is alone   *)
(* ("no other threads should be accessing the buckets").                   *)
AtWork(t) == pc[t] \in {"lock_next", "body"}
Alone(t)  == pc[t] \in {"exclusive", "swap", "install"}
LocksProtect ==
  \A t \in Threads :
    /\ AtWork(t) => frame[t].gen = curLocks /\ frame[t].hp = hashpower
    /\ Alone(t) => \A u \in Threads \ {t} : ~ AtWork(u) /\ ~ Alone(u)

(* Two threads never hold all the locks at once, however often the lock    *)
(* array has been replaced: lock_all goes on to the arrays appended since. *)
OneResizer == \A t, u \in Threads : Alone(t) /\ Alone(u) => t = u

(* Why OneResizer holds: a thread frees no lock but its own, be it of its  *)
(* buckets or of a whole array; a thread that is alone has every lock of   *)
(* the array it began with and of the last, and so the only right to append*)
(* another, while hashpower() is that of the last array or, during a       *)
(* doubling, of the next.                                                  *)
AllTaken(t, g, L) == \A l \in L : holder[<<g, l>>] = t
Owns(t) ==
  /\ pc[t] \in {"pick", "lock_first"} => frame[t].want = Need(t)
  /\ AtWork(t) => \A x \in LockId :
       x[1] = frame[t].gen /\ x[2] \in Need(t) \ frame[t].want => holder[x] = t
  /\ pc[t] = "unlock" => AllTaken(t, frame[t].gen, frame[t].want)
Began(t) ==
  frame[t].first <= curLocks /\ AllTaken(t, frame[t].first, LockInd(frame[t].first))
ResizersHold ==
  /\ \A t \in Threads :
       /\ frame[t].gen <= curLocks /\ Owns(t)
       /\ pc[t] = "lock_all" =>
            /\ AllTaken(t, frame[t].gen, LockInd(frame[t].gen) \ frame[t].want)
            /\ frame[t].first = frame[t].gen \/ Began(t)
       /\ Alone(t) => Began(t) /\ AllTaken(t, curLocks, LockInd(curLocks))
       /\ pc[t] = "swap" => hashpower = frame[t].hp
       /\ pc[t] \in {"swap", "install"} => InitHashpower + curLocks <= frame[t].hp + 1
  /\ \/ \E t \in Threads : pc[t] \in {"swap", "install"}
     \/ InitHashpower + curLocks <= hashpower

(* None of this outlives a stray unlock, that of an array which was        *)
(* appended by another thread after the last lock was released.  These say *)
(* that nothing else ends it, in a table that replaces its lock array.     *)
OneResizerUntilStray   == strayed \/ OneResizer
ResizersHoldUntilStray == strayed \/ ResizersHold

(* Until a stray unlock, size() under all the locks is exact although a    *)
(* doubling copies the counters to other locks.                            *)
CountersAddUpUntilStray == strayed \/ CountersAddUp

(* Why LocksProtect holds, when the table is born with all its locks: a    *)
(* thread at work holds one of them, a thread that is alone all of them.   *)
AllLocksFromTheStart == NumLocks(0) = MaxNumLocks
LocksHeld ==
  \A t \in Threads :
    /\ frame[t].gen = 0
    /\ AtWork(t) => /\ \E l \in AnyLockInd : holder[<<0, l>>] = t
                    /\ frame[t].hp = hashpower
    /\ pc[t] = "lock_all" => \A l \in AnyLockInd \ frame[t].want : holder[<<0, l>>] = t
    /\ pc[t] = "unlock" => \A l \in frame[t].want : holder[<<0, l>>] = t
    /\ Alone(t) => \A l \in AnyLockInd : holder[<<0, l>>] = t

(* What LocksProtect needs once the lock array can be replaced: while a    *)
(* doubling has its containers swapped, no thread waits for a lock of an   *)
(* array older than those the doubling took, with the hashpower that       *)
(* hashpower() shows just then.                                            *)
NoStaleWaiter ==
  \A t, u \in Threads :
    pc[t] = "install" /\ pc[u] = "lock_first" =>
      frame[t].first <= frame[u].gen \/ frame[u].hp # hashpower

(* A table that doubles once, at most, has one array of locks to replace.  *)
DoublesAtMostOnce == MaxHashpower <= InitHashpower + 1

(* The abstract map, of which every operation takes effect at one instant. *)
KV == INSTANCE KvMap WITH map <- Contents
KvSpec == KV!Spec

(* The same, for a table that replaces its lock array: until a stray unlock*)
(* every step is one of the map's.                                         *)
KvSpecUntilStray == KV!Init /\ [][KV!Next \/ strayed']_<<Contents, op, ans>>

(* Every call returns, whatever cuckoos and doublings it runs into.        *)
EveryCallReturns == \A t \in Threads : pc[t] # "idle" ~> pc[t] = "idle"
-----------------------------------------------------------------------------
(* What a comment and an assertion of the code say, and it does not do.     *)

(* lock_all: "Once we have taken all the locks of the "current" container, *)
(* nobody else can do locking operations on the table."  A thread past its *)
(* check_hashpower is doing one, even where no unlocking has gone astray.  *)
NobodyElseLocks ==
  strayed \/ \A t, u \in Threads : Alone(t) /\ u # t => ~ AtWork(u)

(* maybe_resize_locks, of the array it appends, locked: "It is the         *)
(* responsibility of the caller to unlock all locks taken, including the   *)
(* new locks, whenever it is done with them."  A thread that is releasing  *)
(* its own locks unlocks them first, in the middle of the doubling.        *)
NewLocksStayTaken ==
  \A t \in Threads :
    pc[t] \in {"swap", "install"} => AllTaken(t, curLocks, LockInd(curLocks))

(* "assert(s >= 0)" in size().                                             *)
SizeNotNegative == \A t \in Threads : ans[t].tag = "size" => ans[t].val >= 0
=============================================================================
