------------------------- MODULE CuckooResizeProofs -------------------------
(***************************************************************************)
(* Theorems about CuckooMap, for any number of threads, keys and values,   *)
(* any sizes and any workload: its types; and, until an unlocking goes on  *)
(* to an array that another thread has appended, that two threads never    *)
(* hold all the locks at once, that the last lock array always covers the  *)
(* table, and that nobody works on buckets beside one who does unless a    *)
(* stale waiter gets its lock in the middle of a swap.  Neither of the two *)
(* happens to a table born with all its locks.                             *)
(***************************************************************************)
EXTENDS CuckooMapProofs

(* Resizing.  Whoever has all the locks of the last array is alone: two    *)
(* threads cannot both hold its lock 0.                                    *)

LEMMA LastArrayDecides ==
  ASSUME TablesOK, ResizersHold
  PROVE  OneResizer
  <1>1. 0 \in LockInd(curLocks)
    BY LocksOfArray DEF TablesOK, LockInd
  <1> QED
    BY <1>1 DEF ResizersHold, OneResizer, AllTaken

LEMMA NobodyResizes ==
  ASSUME TablesOK, ResizersHold, NEW t \in Threads, Alone(t),
         pc[t] \notin {"swap", "install"}
  PROVE  \A u \in Threads : pc[u] \notin {"swap", "install"}
  BY LastArrayDecides DEF OneResizer, Alone

(* The invariant for one thread, and the part about the table.             *)
Resizing(t) ==
  /\ frame[t].gen <= curLocks /\ Owns(t)
  /\ pc[t] = "lock_all" =>
       /\ AllTaken(t, frame[t].gen, LockInd(frame[t].gen) \ frame[t].want)
       /\ frame[t].first = frame[t].gen \/ Began(t)
  /\ Alone(t) => Began(t) /\ AllTaken(t, curLocks, LockInd(curLocks))
  /\ pc[t] = "swap" => hashpower = frame[t].hp
  /\ pc[t] \in {"swap", "install"} => InitHashpower + curLocks <= frame[t].hp + 1

ArraysFit ==
  \/ \E t \in Threads : pc[t] \in {"swap", "install"}
  \/ InitHashpower + curLocks <= hashpower

LEMMA ResizersHoldParts ==
  /\ ResizersHold => (\A u \in Threads : Resizing(u)) /\ ArraysFit
  /\ (\A u \in Threads : Resizing(u)') /\ ArraysFit' => ResizersHold'
  BY DEF ResizersHold, Resizing, ArraysFit

(* The needs of a thread depend on its call and its locals only.           *)
LEMMA SameNeed ==
  ASSUME NEW t \in Threads, op'[t] = op[t], frame'[t].hp = frame[t].hp, NEW path
  PROVE  /\ i1(t)' = i1(t) /\ i2(t)' = i2(t)
         /\ PathLocks(t, path)' = PathLocks(t, path)
  <1>1. i1(t)' = i1(t)
    BY DEF i1
  <1>2. i2(t)' = i2(t)
    BY <1>1 DEF i2
  <1>3. PathLocks(t, path)' = PathLocks(t, path)
    BY <1>1, <1>2 DEF PathLocks
  <1> QED
    BY <1>1, <1>2, <1>3

LEMMA NeedStays ==
  ASSUME NEW t \in Threads, op'[t] = op[t], frame'[t].hp = frame[t].hp,
         frame'[t].stage = frame[t].stage, frame'[t].path = frame[t].path
  PROVE  Need(t)' = Need(t)
  <1>1. /\ i1(t)' = i1(t) /\ i2(t)' = i2(t)
    BY SameNeed
  <1> QED
    BY <1>1 DEF Need, PathLocks

(* Places where a thread has no lock to its name that is of any use.       *)
Landless == {"idle", "snapshot", "search", "trace", "grow", "lock_all", "exclusive",
             "swap", "install", "scan"}

LEMMA OwnsNothing ==
  ASSUME NEW t \in Threads, pc'[t] \in Landless
  PROVE  Owns(t)'
  BY DEF Owns, AtWork, Landless

(* What every step of t does to the others: nothing but release locks.     *)
OthersStay(t) ==
  \A u \in Threads \ {t} :
    /\ pc'[u] = pc[u] /\ frame'[u] = frame[u] /\ op'[u] = op[u]
    /\ \A x \in LockId : holder[x] = u => holder'[x] = u

(* ...and the hashpower and the arrays of locks stay the same.             *)
Stays(t) == OthersStay(t) /\ curLocks' = curLocks /\ hashpower' = hashpower

(* ...and t does not end up at work on its buckets.                        *)
Leaves(t) == Stays(t) /\ pc'[t] \notin {"lock_next", "body"}

(* A step that neither resizes nor ends up with locks of all arrays.       *)
LEMMA QuietStep ==
  ASSUME TablesOK, ThreadsOK, ResizersHold, NEW t \in Threads, OthersStay(t),
         curLocks' = curLocks, hashpower' = hashpower,
         pc[t] \notin {"swap", "install"}, Resizing(t)'
  PROVE  ResizersHold' /\ Stays(t)
  <1>1. ASSUME NEW u \in Threads \ {t}
        PROVE  Resizing(u)'
    <2>1. Resizing(u)
      BY ResizersHoldParts
    <2>2. /\ pc'[u] = pc[u] /\ frame'[u] = frame[u] /\ op'[u] = op[u]
          /\ \A x \in LockId : holder[x] = u => holder'[x] = u
      BY DEF OthersStay
    <2>3. frame[u].gen \in LockArray /\ curLocks \in LockArray
      BY ThreadHere DEF Frame, TablesOK
    <2>4. ASSUME NEW g \in LockArray, NEW L \in SUBSET LockInd(g), AllTaken(u, g, L)
          PROVE  \A l \in L : holder'[<<g, l>>] = u
      BY <2>2, <2>4, LocksOfArray DEF AllTaken
    <2>5. pc[u] = "lock_all" =>
            AllTaken(u, frame[u].gen, LockInd(frame[u].gen) \ frame[u].want)'
      <3> DEFINE L == LockInd(frame[u].gen) \ frame[u].want
      <3>1. L \in SUBSET LockInd(frame[u].gen)
        OBVIOUS
      <3> HIDE DEF L
      <3>2. pc[u] = "lock_all" => \A l \in L : holder'[<<frame[u].gen, l>>] = u
        BY <2>1, <2>3, <2>4, <3>1 DEF Resizing, L
      <3> QED
        BY <3>2, <2>2 DEF AllTaken, L
    <2>6. Alone(u) => AllTaken(u, curLocks, LockInd(curLocks))'
      BY <2>1, <2>3, <2>4 DEF Resizing, AllTaken
    <2>7. Began(u) => Began(u)'
      <3>1. frame[u].first \in LockArray
        BY ThreadHere DEF Frame
      <3>2. Began(u) => \A l \in LockInd(frame[u].first) : holder'[<<frame[u].first, l>>] = u
        BY <2>4, <3>1 DEF Began
      <3> QED
        BY <2>2, <3>2 DEF Began, AllTaken
    <2>8. Owns(u)'
      <3>1. Need(u)' = Need(u)
        BY <2>2, NeedStays
      <3>2. pc[u] = "unlock" => \A l \in frame[u].want : holder'[<<frame[u].gen, l>>] = u
        <4> DEFINE L == frame[u].want
        <4>1. pc[u] = "unlock" => L \in SUBSET LockInd(frame[u].gen)
          BY ThreadHere DEF Fits
        <4>2. pc[u] = "unlock" => AllTaken(u, frame[u].gen, L)
          BY <2>1 DEF Resizing, Owns
        <4> HIDE DEF L
        <4>3. pc[u] = "unlock" => \A l \in L : holder'[<<frame[u].gen, l>>] = u
          BY <2>3, <2>4, <4>1, <4>2
        <4> QED
          BY <4>3 DEF L
      <3>3. AtWork(u) => \A x \in LockId :
              x[1] = frame[u].gen /\ x[2] \in Need(u) \ frame[u].want => holder'[x] = u
        BY <2>1, <2>2 DEF Resizing, Owns
      <3> QED
        BY <2>1, <2>2, <3>1, <3>2, <3>3 DEF Resizing, Owns, AtWork, AllTaken
    <2> HIDE DEF Owns, Began
    <2> QED
      BY <2>1, <2>2, <2>5, <2>6, <2>7, <2>8 DEF Resizing, Alone
  <1>2. ArraysFit'
    <2>1. ArraysFit
      BY ResizersHoldParts
    <2> QED
      BY <2>1 DEF ArraysFit, OthersStay
  <1> QED
    BY <1>1, <1>2, ResizersHoldParts DEF Stays

(* The usual case: t neither takes all the locks nor holds them.           *)
LEMMA PlainStep ==
  ASSUME TablesOK, ThreadsOK, ResizersHold, NEW t \in Threads, OthersStay(t),
         curLocks' = curLocks, hashpower' = hashpower,
         pc[t] \notin {"swap", "install"},
         pc'[t] \notin {"lock_all", "exclusive", "swap", "install"},
         frame'[t].gen <= curLocks, Owns(t)'
  PROVE  ResizersHold'
  <1>1. Resizing(t)'
    BY DEF Resizing, Alone
  <1> QED
    BY <1>1, QuietStep

(* Ways a step leaves the other threads alone.                             *)
LEMMA FrameSteps ==
  ASSUME ThreadsOK, NEW t \in Threads, NEW label, NEW f,
         Goto(t, label), frame' = [frame EXCEPT ![t] = f]
  PROVE  /\ \A u \in Threads \ {t} : pc'[u] = pc[u] /\ frame'[u] = frame[u]
         /\ pc'[t] = label /\ frame'[t] = f
  BY DEF ThreadsOK, Goto

LEMMA UnlockKeeps ==
  ASSUME ThreadsOK, ResizersHold, NEW t \in Threads, pc[t] = "body", Unlock(t)
  PROVE  \A u \in Threads \ {t} : \A x \in LockId : holder[x] = u => holder'[x] = u
  <1>1. frame[t].want = {} /\ Owns(t)
    BY ThreadHere DEF Fits, ResizersHold
  <1>2. \A x \in LockId : x[1] = frame[t].gen /\ x[2] \in Need(t) => holder[x] = t
    BY <1>1 DEF Owns, AtWork
  <1> QED
    BY <1>2 DEF Unlock

LEMMA TakeKeeps ==
  ASSUME TablesOK, NEW t \in Threads, Take(t)
  PROVE  \A u \in Threads : \A x \in LockId : holder[x] = u => holder'[x] = u
  BY ValuesAssumption DEF Take, TablesOK

LEMMA ReturnIsPlain ==
  ASSUME TablesOK, ThreadsOK, ResizersHold, NEW t \in Threads,
         NEW tag, NEW val, Return(t, tag, val), hashpower' = hashpower,
         pc[t] = "body"
  PROVE  ResizersHold' /\ Leaves(t)
  <1>1. /\ Unlock(t) /\ Goto(t, "idle") /\ frame' = [frame EXCEPT ![t] = NoFrame]
        /\ curLocks' = curLocks /\ \A u \in Threads \ {t} : op'[u] = op[u]
    BY DEF Return, Answer, ThreadsOK
  <1>2. /\ \A u \in Threads \ {t} : pc'[u] = pc[u] /\ frame'[u] = frame[u]
        /\ pc'[t] = "idle" /\ frame'[t] = NoFrame
    BY <1>1, FrameSteps
  <1>3. OthersStay(t)
    BY <1>1, <1>2, UnlockKeeps DEF OthersStay
  <1>4. NoFrame.gen <= curLocks
    BY SizesAssumption DEF NoFrame, TablesOK, LockArray
  <1>5. Owns(t)'
    BY <1>2, OwnsNothing DEF Landless
  <1> QED
    BY <1>1, <1>2, <1>3, <1>4, <1>5, PlainStep DEF Leaves, Stays

(* A step of t that moves to a label where it need hold no lock.           *)
LEMMA PlainMove ==
  ASSUME TablesOK, ThreadsOK, ResizersHold, NEW t \in Threads, NEW label,
         Goto(t, label), label \notin {"lock_all", "exclusive", "swap", "install"},
         \A u \in Threads \ {t} : frame'[u] = frame[u],
         frame'[t].gen <= curLocks, op' = op,
         label \in Landless \/ Owns(t)',
         holder' = holder \/ (Unlock(t) /\ pc[t] = "body") \/ Take(t),
         curLocks' = curLocks, hashpower' = hashpower,
         pc[t] \notin {"swap", "install"}
  PROVE  ResizersHold' /\ Stays(t) /\ pc'[t] = label
  <1>1. pc'[t] = label /\ \A u \in Threads \ {t} : pc'[u] = pc[u]
    BY DEF Goto, ThreadsOK
  <1>2. OthersStay(t)
    BY <1>1, UnlockKeeps, TakeKeeps DEF OthersStay
  <1>3. Owns(t)'
    BY <1>1, OwnsNothing
  <1> QED
    BY <1>1, <1>2, <1>3, PlainStep DEF Stays

LEMMA StaleArray ==
  ASSUME TablesOK, ThreadsOK, ResizersHold, NEW t \in Threads
  PROVE  /\ frame[t].gen <= curLocks /\ curLocks <= curLocks
         /\ frame[t] \in Frame
  <1>1. frame[t].gen <= curLocks /\ frame[t] \in Frame
    BY ThreadHere DEF ResizersHold
  <1>2. curLocks <= curLocks
    BY SizesAssumption DEF TablesOK, LockArray
  <1> QED
    BY <1>1, <1>2

LEMMA SnapshotResizes ==
  ASSUME TablesOK, ThreadsOK, ResizersHold, NEW t \in Threads,
         Snapshot(t) \/ PickLocks(t)
  PROVE  ResizersHold' /\ Leaves(t)
  <1>1. CASE Snapshot(t)
    <2>1. /\ \A u \in Threads \ {t} : frame'[u] = frame[u]
          /\ frame'[t].gen = frame[t].gen
      BY <1>1, ThreadHere DEF Snapshot, ThreadsOK, Frame
    <2>2. /\ Goto(t, "pick") /\ pc[t] = "snapshot"
          /\ UNCHANGED <<hashpower, curLocks, holder, op>>
      BY <1>1 DEF Snapshot, tableVars, lockVars, callVars
    <2>3. /\ frame'[t].hp = hashpower /\ frame'[t].stage = "op"
          /\ frame'[t].want = {lock_ind(IndexHash(hashpower, HashOf[op[t].key])),
                               lock_ind(AltIndex(hashpower, HashOf[op[t].key],
                                                 IndexHash(hashpower, HashOf[op[t].key])))}
      BY <1>1, ThreadHere DEF Snapshot, ThreadsOK, Frame
    <2>4. frame'[t].want = Need(t)'
      BY <2>2, <2>3 DEF Need, i1, i2
    <2>5. pc'[t] = "pick"
      BY <2>2 DEF Goto, ThreadsOK
    <2>6. Owns(t)'
      BY <2>4, <2>5 DEF Owns, AtWork
    <2> QED
      BY <2>1, <2>2, <2>6, StaleArray, PlainMove DEF Leaves
  <1>2. CASE PickLocks(t)
    <2>1. /\ \A u \in Threads \ {t} : frame'[u] = frame[u]
          /\ frame'[t].gen = curLocks
      BY <1>2, ThreadHere DEF PickLocks, ThreadsOK, Frame
    <2>2. /\ Goto(t, "lock_first") /\ pc[t] = "pick"
          /\ UNCHANGED <<hashpower, curLocks, holder, op>>
      BY <1>2 DEF PickLocks, tableVars, lockVars, callVars
    <2>3. /\ frame'[t].hp = frame[t].hp /\ frame'[t].stage = frame[t].stage
          /\ frame'[t].path = frame[t].path /\ frame'[t].want = frame[t].want
      BY <1>2, ThreadHere DEF PickLocks, ThreadsOK, Frame
    <2>4. Need(t)' = Need(t)
      BY <2>2, <2>3, NeedStays
    <2>5. frame[t].want = Need(t)
      BY <2>2 DEF ResizersHold, Owns
    <2>6. pc'[t] = "lock_first"
      BY <2>2 DEF Goto, ThreadsOK
    <2>7. Owns(t)'
      BY <2>3, <2>4, <2>5, <2>6 DEF Owns, AtWork
    <2> QED
      BY <2>1, <2>2, <2>7, StaleArray, PlainMove DEF Leaves
  <1> QED
    BY <1>1, <1>2

LEMMA TakeHere ==
  ASSUME TablesOK, ThreadsOK, NEW t \in Threads, Take(t)
  PROVE  /\ \A u \in Threads \ {t} : frame'[u] = frame[u]
         /\ frame'[t].gen = frame[t].gen
         /\ frame'[t].want = frame[t].want \ {Min(frame[t].want)}
  BY TakeTypes DEF ThreadsOK

(* A lock taken for the buckets is one the thread owns from then on.       *)
LEMMA TakingOwns ==
  ASSUME TablesOK, ThreadsOK, ResizersHold, NEW t \in Threads, Take(t), op' = op,
         pc[t] \in {"lock_first", "lock_next"},
         pc'[t] \in {"lock_next", "body", "snapshot"}
  PROVE  Owns(t)'
  <1> DEFINE l == Min(frame[t].want)
             g == frame[t].gen
  <1>1. /\ frame'[t].hp = frame[t].hp /\ frame'[t].stage = frame[t].stage
        /\ frame'[t].path = frame[t].path /\ frame'[t].want = frame[t].want \ {l}
        /\ frame'[t].gen = g
    BY ThreadHere DEF Take, ThreadsOK, Frame
  <1>2. Need(t)' = Need(t)
    BY <1>1, NeedStays
  <1>3. holder' = [holder EXCEPT ![<<g, l>>] = t]
    BY DEF Take
  <1> HIDE DEF l, g
  <1>4. ASSUME NEW x \in LockId, x[1] = g, x[2] \in Need(t) \ (frame[t].want \ {l})
        PROVE  holder'[x] = t
    <2>1. CASE x = <<g, l>>
      BY <1>3, <2>1 DEF TablesOK
    <2>2. CASE x # <<g, l>>
      <3>1. x[2] # l
        BY <1>4, <2>2 DEF LockId
      <3>2. x[2] \in Need(t) \ frame[t].want
        BY <1>4, <3>1
      <3>3. holder[x] = t
        BY <1>4, <3>2 DEF ResizersHold, Owns, AtWork, g
      <3> QED
        BY <1>3, <2>2, <3>3 DEF TablesOK
    <2> QED
      BY <2>1, <2>2
  <1>5. \A x \in LockId : x[1] = frame'[t].gen /\ x[2] \in Need(t)' \ frame'[t].want => holder'[x] = t
    BY <1>1, <1>2, <1>4
  <1> QED
    BY <1>5 DEF Owns, AtWork

LEMMA LockResizes ==
  ASSUME TablesOK, ThreadsOK, ResizersHold, NEW t \in Threads,
         LockFirst(t) \/ LockNext(t)
  PROVE  ResizersHold' /\ Stays(t)
  <1>1. CASE Take(t)
    <2>1. Goto(t, "body") \/ Goto(t, "lock_next") \/ Goto(t, "snapshot")
      BY DEF LockFirst, LockNext, TryAgain
    <2>2. /\ \A u \in Threads \ {t} : frame'[u] = frame[u]
          /\ frame'[t].gen <= curLocks
      BY <1>1, TakeHere, StaleArray
    <2>3. /\ curLocks' = curLocks /\ hashpower' = hashpower /\ op' = op
          /\ pc[t] \notin {"swap", "install"}
      BY DEF LockFirst, LockNext, tableVars, callVars
    <2>4. pc'[t] \in {"lock_next", "body", "snapshot"}
      BY <2>1 DEF Goto, ThreadsOK
    <2>5. Owns(t)'
      BY <1>1, <2>3, <2>4, TakingOwns DEF LockFirst, LockNext
    <2> QED
      BY <1>1, <2>1, <2>2, <2>3, <2>5, PlainMove
  <1>2. CASE ~ Take(t)
    <2>1. LockFirst(t) /\ Goto(t, "snapshot") /\ UNCHANGED <<holder, frame>>
      BY <1>2 DEF LockFirst, LockNext, TryAgain
    <2>2. /\ curLocks' = curLocks /\ hashpower' = hashpower /\ op' = op
          /\ pc[t] \notin {"swap", "install"}
      BY DEF LockFirst, LockNext, tableVars, callVars
    <2> QED
      BY <2>1, <2>2, StaleArray, PlainMove DEF Landless
  <1> QED
    BY <1>1, <1>2

LEMMA StartSearchResizes ==
  ASSUME TablesOK, ThreadsOK, ResizersHold, NEW t \in Threads, StartSearch(t),
         hashpower' = hashpower, pc[t] = "body"
  PROVE  ResizersHold' /\ Leaves(t)
  <1>1. /\ \A u \in Threads \ {t} : frame'[u] = frame[u]
        /\ frame'[t].gen = frame[t].gen
    BY ThreadHere DEF StartSearch, ThreadsOK, Frame
  <1>2. Goto(t, "search") /\ Unlock(t) /\ curLocks' = curLocks /\ op' = op
    BY DEF StartSearch, callVars
  <1> QED
    BY <1>1, <1>2, StaleArray, PlainMove DEF Leaves, Landless

LEMMA UpsertResizes ==
  ASSUME TablesOK, ThreadsOK, ResizersHold, NEW t \in Threads, NEW T, NEW p,
         Upsert(t, T, p), hashpower' = hashpower, pc[t] = "body"
  PROVE  ResizersHold' /\ Leaves(t)
  <1>1. Return(t, "duplicate", Missing) \/ Return(t, "new", Missing)
    BY DEF Upsert
  <1> QED
    BY <1>1, ReturnIsPlain

(* A step that has locked its buckets keeps the hashpower.                 *)
LEMMA BodyKeepsHashpower ==
  ASSUME NEW L, RehashFlags(L)
  PROVE  hashpower' = hashpower
  BY DEF RehashFlags

(* A path that has been found, or has got shorter, and its locks.          *)
LEMMA PickedOwns ==
  ASSUME NEW t \in Threads, pc'[t] = "pick", NEW path,
         frame'[t].path = path, frame'[t].stage = PathStage(path), frame'[t].hp = frame[t].hp,
         op'[t] = op[t], frame'[t].want = PathLocks(t, path)
  PROVE  Owns(t)'
  <1>1. /\ i1(t)' = i1(t) /\ i2(t)' = i2(t)
    BY SameNeed
  <1>2. frame'[t].want = Need(t)'
    BY <1>1 DEF Need, PathLocks, PathStage
  <1> QED
    BY <1>2 DEF Owns, AtWork

LEMMA BodyResizes ==
  ASSUME TablesOK, ThreadsOK, ResizersHold, NEW t \in Threads,
         FindBody(t) \/ EraseBody(t) \/ InsertBody(t) \/ HopBody(t)
           \/ LastHopBody(t) \/ PlaceBody(t)
  PROVE  ResizersHold' /\ Leaves(t)
  <1>1. RehashFlags(Need(t)) /\ pc[t] = "body"
    BY DEF FindBody, EraseBody, InsertBody, HopBody, LastHopBody, PlaceBody, InBody
  <1>2. hashpower' = hashpower /\ pc[t] = "body"
    BY <1>1, BodyKeepsHashpower
  <1>3. CASE \E tag, val : Return(t, tag, val)
    BY <1>2, <1>3, ReturnIsPlain
  <1>4. CASE \E T, p : Upsert(t, T, p)
    BY <1>2, <1>4, UpsertResizes
  <1>5. CASE StartSearch(t)
    BY <1>2, <1>5, StartSearchResizes
  <1>6. CASE HopBody(t) /\ ~ StartSearch(t)
    <2> DEFINE path == frame[t].path
               rest == SubSeq(path, 1, Len(path) - 1)
    <2>1. /\ Unlock(t) /\ Goto(t, "pick") /\ curLocks' = curLocks /\ op' = op
          /\ \A u \in Threads \ {t} : frame'[u] = frame[u]
          /\ frame'[t].gen = frame[t].gen
      BY <1>6, ThreadHere DEF HopBody, ThreadsOK, Frame, callVars
    <2>2. frame' = [frame EXCEPT ![t].path = rest, ![t].stage = PathStage(rest),
                                 ![t].want = PathLocks(t, rest)]
      BY <1>6 DEF HopBody
    <2> HIDE DEF rest
    <2>3. /\ frame'[t].path = rest /\ frame'[t].stage = PathStage(rest)
          /\ frame'[t].want = PathLocks(t, rest) /\ frame'[t].hp = frame[t].hp
      BY <2>2, ThreadHere DEF ThreadsOK, Frame
    <2>4. pc'[t] = "pick"
      BY <2>1 DEF Goto, ThreadsOK
    <2>5. Owns(t)'
      BY <2>1, <2>3, <2>4, PickedOwns
    <2> QED
      BY <1>2, <2>1, <2>5, StaleArray, PlainMove DEF Leaves
  <1>7. FindBody(t) \/ EraseBody(t) => \E tag, val : Return(t, tag, val)
    BY DEF FindBody, EraseBody
  <1>8. InsertBody(t) \/ LastHopBody(t) \/ PlaceBody(t) =>
          StartSearch(t) \/ \E T, p : Upsert(t, T, p)
    BY DEF InsertBody, LastHopBody, PlaceBody
  <1> QED
    BY <1>3, <1>4, <1>5, <1>6, <1>7, <1>8

LEMMA SearchResizes ==
  ASSUME TablesOK, ThreadsOK, ResizersHold, NEW t \in Threads,
         Search(t) \/ Trace(t)
  PROVE  ResizersHold' /\ Leaves(t)
  <1>1. /\ \E label \in {"snapshot", "search", "trace", "grow", "pick"} : Goto(t, label)
        /\ hashpower' = hashpower /\ holder' = holder /\ curLocks' = curLocks
        /\ pc[t] \in {"search", "trace"} /\ op' = op
    BY DEF Search, Trace, RehashFlags, tableVars, lockVars, callVars
  <1>2. /\ \A u \in Threads \ {t} : frame'[u] = frame[u]
        /\ frame'[t].gen = frame[t].gen
    <2>1. CASE frame' = frame
      BY <2>1
    <2>2. CASE \E q : frame' = [frame EXCEPT ![t].queue = q]
      BY <2>2, ThreadHere DEF ThreadsOK, Frame
    <2>3. CASE \E p : frame' = [frame EXCEPT ![t].path = p]
      BY <2>3, ThreadHere DEF ThreadsOK, Frame
    <2>4. CASE \E p : frame' = [frame EXCEPT ![t].queue = << >>, ![t].path = p,
                                             ![t].stage = PathStage(p),
                                             ![t].want = PathLocks(t, p)]
      BY <2>4, ThreadHere DEF ThreadsOK, Frame
    <2>5. Search(t) => frame' = frame \/ \E q : frame' = [frame EXCEPT ![t].queue = q]
      BY DEF Search
    <2>6. Trace(t) => \/ frame' = frame
                      \/ \E p : frame' = [frame EXCEPT ![t].path = p]
                      \/ \E p : frame' = [frame EXCEPT ![t].queue = << >>, ![t].path = p,
                                                       ![t].stage = PathStage(p),
                                                       ![t].want = PathLocks(t, p)]
      BY DEF Trace
    <2> QED
      BY <2>1, <2>2, <2>3, <2>4, <2>5, <2>6
  <1>3. pc'[t] \in Landless \/ Owns(t)'
    <2>1. CASE \E p : /\ Goto(t, "pick")
                      /\ frame' = [frame EXCEPT ![t].queue = << >>, ![t].path = p,
                                                ![t].stage = PathStage(p),
                                                ![t].want = PathLocks(t, p)]
      <3>1. PICK p : /\ Goto(t, "pick")
                     /\ frame' = [frame EXCEPT ![t].queue = << >>, ![t].path = p,
                                               ![t].stage = PathStage(p),
                                               ![t].want = PathLocks(t, p)]
        BY <2>1
      <3>2. /\ pc'[t] = "pick" /\ frame'[t].path = p
            /\ frame'[t].stage = PathStage(p) /\ frame'[t].want = PathLocks(t, p)
            /\ frame'[t].hp = frame[t].hp
        BY <3>1, ThreadHere DEF Goto, ThreadsOK, Frame
      <3> QED
        BY <1>1, <3>2, PickedOwns
    <2>2. CASE \E label \in Landless : Goto(t, label)
      BY <2>2 DEF Goto, ThreadsOK
    <2>3. Search(t) => \E label \in Landless : Goto(t, label)
      BY DEF Search, Landless
    <2>4. Trace(t) => \/ \E label \in Landless : Goto(t, label)
                      \/ \E p : /\ Goto(t, "pick")
                                /\ frame' = [frame EXCEPT ![t].queue = << >>, ![t].path = p,
                                                          ![t].stage = PathStage(p),
                                                          ![t].want = PathLocks(t, p)]
      BY DEF Trace, Landless
    <2> QED
      BY <2>1, <2>2, <2>3, <2>4
  <1>4. \A label : Goto(t, label) => pc'[t] = label
    BY DEF Goto, ThreadsOK
  <1> QED
    BY <1>1, <1>2, <1>3, <1>4, StaleArray, PlainMove DEF Leaves

LEMMA InvokeResizes ==
  ASSUME TablesOK, ThreadsOK, ResizersHold, NEW t \in Threads, Invoke(t)
  PROVE  ResizersHold' /\ Leaves(t)
  <1>1. PICK o \in Workload[t] :
          /\ Goto(t, CASE o.kind = "size" -> "scan"
                       [] o.kind \in {"clear", "dump"} -> "lock_all"
                       [] OTHER -> "snapshot")
          /\ frame' = IF o.kind \in {"clear", "dump", "size"}
                      THEN [frame EXCEPT ![t].gen = curLocks, ![t].first = curLocks,
                                         ![t].want = LockInd(curLocks)]
                      ELSE frame
    BY DEF Invoke
  <1>2. /\ curLocks' = curLocks /\ hashpower' = hashpower /\ holder' = holder
        /\ pc[t] \notin {"swap", "install"} /\ \A u \in Threads \ {t} : op'[u] = op[u]
    BY DEF Invoke, tableVars, lockVars, ThreadsOK
  <1>3. /\ \A u \in Threads \ {t} : frame'[u] = frame[u] /\ pc'[u] = pc[u]
        /\ pc'[t] \in {"scan", "lock_all", "snapshot"}
    <2>1. \A u \in Threads \ {t} : frame'[u] = frame[u]
      BY <1>1 DEF ThreadsOK
    <2>2. \E label \in {"scan", "lock_all", "snapshot"} : Goto(t, label)
      BY <1>1
    <2> QED
      BY <2>1, <2>2 DEF Goto, ThreadsOK
  <1>4. OthersStay(t)
    BY <1>2, <1>3 DEF OthersStay
  <1>5. /\ frame'[t].gen <= curLocks
        /\ pc'[t] = "lock_all" => /\ frame'[t].gen = curLocks /\ frame'[t].first = curLocks
                                  /\ frame'[t].want = LockInd(curLocks)
    <2>1. CASE o.kind \in {"clear", "dump", "size"}
      <3>1. /\ frame'[t].gen = curLocks /\ frame'[t].want = LockInd(curLocks)
            /\ frame'[t].first = curLocks
        BY <1>1, <2>1, ThreadHere DEF ThreadsOK, Frame
      <3> QED
        BY <3>1, StaleArray
    <2>2. CASE o.kind \notin {"clear", "dump", "size"}
      <3>1. frame' = frame /\ Goto(t, "snapshot")
        BY <1>1, <2>2
      <3> QED
        BY <3>1, StaleArray DEF Goto, ThreadsOK
    <2> QED
      BY <2>1, <2>2
  <1>6. Resizing(t)'
    <2>1. Owns(t)'
      BY <1>3, OwnsNothing DEF Landless
    <2> QED
      BY <1>2, <1>3, <1>5, <2>1 DEF Resizing, Alone, AllTaken
  <1>7. ResizersHold' /\ Stays(t)
    BY <1>2, <1>4, <1>6, QuietStep
  <1> QED
    BY <1>3, <1>7 DEF Leaves

LEMMA StartGrowResizes ==
  ASSUME TablesOK, ThreadsOK, ResizersHold, NEW t \in Threads, StartGrow(t)
  PROVE  ResizersHold' /\ Leaves(t)
  <1>1. /\ curLocks' = curLocks /\ hashpower' = hashpower /\ holder' = holder
        /\ pc[t] \notin {"swap", "install"} /\ op' = op
    BY DEF StartGrow, tableVars, lockVars, callVars
  <1>2. /\ \A u \in Threads \ {t} : frame'[u] = frame[u] /\ pc'[u] = pc[u]
        /\ pc'[t] = "lock_all"
        /\ frame'[t].gen = curLocks /\ frame'[t].want = LockInd(curLocks)
        /\ frame'[t].first = curLocks
    BY ThreadHere DEF StartGrow, Goto, ThreadsOK, Frame
  <1>3. OthersStay(t)
    BY <1>1, <1>2 DEF OthersStay
  <1>4. Resizing(t)'
    <2>1. Owns(t)'
      BY <1>2, OwnsNothing DEF Landless
    <2> QED
      BY <1>1, <1>2, <2>1, StaleArray DEF Resizing, Alone, AllTaken
  <1>5. ResizersHold' /\ Stays(t)
    BY <1>1, <1>3, <1>4, QuietStep
  <1> QED
    BY <1>2, <1>5 DEF Leaves

LEMMA LockAllResizes ==
  ASSUME TablesOK, ThreadsOK, ResizersHold, NEW t \in Threads, LockAll(t)
  PROVE  ResizersHold' /\ Leaves(t)
  <1>1. /\ pc[t] = "lock_all" /\ curLocks' = curLocks /\ hashpower' = hashpower
        /\ pc[t] \notin {"swap", "install"} /\ op' = op
    BY DEF LockAll, tableVars, callVars
  <1>2. /\ frame[t].want \subseteq LockInd(frame[t].gen)
        /\ frame[t].gen \in LockArray /\ curLocks \in LockArray
        /\ frame[t].first \in LockArray
    BY <1>1, ThreadHere DEF Fits, Frame, TablesOK
  <1>3. /\ frame[t].gen <= curLocks
        /\ AllTaken(t, frame[t].gen, LockInd(frame[t].gen) \ frame[t].want)
        /\ frame[t].first = frame[t].gen \/ Began(t)
    BY <1>1 DEF ResizersHold
  <1>0. pc'[t] = "lock_all" \/ pc'[t] = "exclusive" => Owns(t)'
    BY OwnsNothing DEF Landless
  <1>4. CASE frame[t].want # {}
    <2>1. Take(t) /\ pc' = pc
      BY <1>4 DEF LockAll
    <2> DEFINE l == Min(frame[t].want)
               g == frame[t].gen
    <2>2. holder' = [holder EXCEPT ![<<g, l>>] = t]
      BY <2>1 DEF Take
    <2>3. /\ \A u \in Threads \ {t} : frame'[u] = frame[u]
          /\ frame'[t].gen = g
          /\ frame'[t].want = frame[t].want \ {l}
      BY <2>1, TakeHere
    <2>9. frame'[t].first = frame[t].first
      BY <2>1, ThreadHere DEF Take, ThreadsOK, Frame
    <2>10. frame'[t].first = frame'[t].gen \/ Began(t)'
      <3>1. CASE frame[t].first = frame[t].gen
        BY <2>3, <2>9, <3>1
      <3>2. CASE Began(t)
        <4>1. \A x \in LockId : holder[x] = t => holder'[x] = t
          BY <2>1, TakeKeeps
        <4>2. \A m \in LockInd(frame[t].first) : <<frame[t].first, m>> \in LockId
          BY <1>2, LocksOfArray
        <4>3. \A m \in LockInd(frame[t].first) : holder'[<<frame[t].first, m>>] = t
          BY <3>2, <4>1, <4>2 DEF Began, AllTaken
        <4> QED
          BY <1>1, <2>9, <3>2, <4>3 DEF Began, AllTaken
      <3> QED
        BY <1>3, <3>1, <3>2
    <2> HIDE DEF l, g
    <2>4. \A m \in LockInd(g) : <<g, m>> \in LockId
      BY <1>2, LocksOfArray DEF g
    <2>5. \A m \in LockInd(g) \ (frame[t].want \ {l}) : holder'[<<g, m>>] = t
      <3>1. ASSUME NEW m \in LockInd(g) \ (frame[t].want \ {l})
            PROVE  holder'[<<g, m>>] = t
        <4>1. <<g, m>> \in LockId
          BY <2>4
        <4>2. CASE m = l
          BY <2>2, <4>1, <4>2 DEF TablesOK
        <4>3. CASE m # l
          <5>1. holder[<<g, m>>] = t
            BY <1>3, <4>3 DEF AllTaken, g
          <5> QED
            BY <2>2, <4>1, <5>1 DEF TablesOK
        <4> QED
          BY <4>2, <4>3
      <3> QED
        BY <3>1
    <2>6. OthersStay(t)
      BY <1>1, <2>1, <2>3, TakeKeeps DEF OthersStay
    <2>7. Resizing(t)'
      <3> HIDE DEF Owns, Began
      <3> QED
        BY <1>0, <1>1, <1>3, <2>1, <2>3, <2>5, <2>10 DEF Resizing, Alone, AllTaken, g
    <2>8. ResizersHold' /\ Stays(t)
      BY <1>1, <2>6, <2>7, QuietStep
    <2> QED
      BY <1>1, <2>1, <2>8 DEF Leaves
  <1>5. CASE frame[t].want = {} /\ Appended(t)
    <2> DEFINE g == frame[t].gen + 1
    <2>1. /\ frame' = [frame EXCEPT ![t].gen = @ + 1, ![t].want = LockInd(g)]
          /\ pc' = pc /\ holder' = holder
      BY <1>5 DEF LockAll
    <2>2. g <= curLocks
      BY <1>2, <1>5, NextArray DEF Appended
    <2>3. /\ \A u \in Threads \ {t} : frame'[u] = frame[u]
          /\ frame'[t].gen = g /\ frame'[t].first = frame[t].first
          /\ frame'[t].want = LockInd(g)
      BY <2>1, ThreadHere DEF ThreadsOK, Frame
    <2> HIDE DEF g
    <2>4. OthersStay(t)
      BY <1>1, <2>1, <2>3 DEF OthersStay
    <2>7. Began(t)
      BY <1>3, <1>5 DEF Began
    <2>8. Began(t)'
      BY <1>1, <2>1, <2>3, <2>7 DEF Began, AllTaken
    <2>5. Resizing(t)'
      <3> HIDE DEF Owns, Began
      <3> QED
        BY <1>0, <1>1, <2>1, <2>2, <2>3, <2>8 DEF Resizing, Alone, AllTaken
    <2>6. ResizersHold' /\ Stays(t)
      BY <1>1, <2>4, <2>5, QuietStep
    <2> QED
      BY <1>1, <2>1, <2>6 DEF Leaves
  <1>6. CASE frame[t].want = {} /\ ~ Appended(t)
    <2>1. Goto(t, "exclusive") /\ holder' = holder /\ frame' = frame
      BY <1>6 DEF LockAll
    <2>2. pc'[t] = "exclusive" /\ \A u \in Threads \ {t} : pc'[u] = pc[u]
      BY <2>1 DEF Goto, ThreadsOK
    <2>3. frame[t].gen = curLocks
      BY <1>2, <1>3, <1>6, SizesAssumption DEF Appended, LockArray
    <2>4. \A m \in LockInd(curLocks) : holder[<<curLocks, m>>] = t
      BY <1>3, <1>6, <2>3 DEF AllTaken
    <2>5. OthersStay(t)
      BY <1>1, <2>1, <2>2 DEF OthersStay
    <2>8. Began(t)
      BY <1>3, <2>3, <2>4 DEF Began, AllTaken
    <2>9. Began(t)'
      BY <1>1, <2>1, <2>8 DEF Began, AllTaken
    <2>6. Resizing(t)'
      <3> HIDE DEF Owns, Began
      <3> QED
        BY <1>0, <1>1, <1>3, <2>1, <2>2, <2>4, <2>9 DEF Resizing, AllTaken
    <2>7. ResizersHold' /\ Stays(t)
      BY <1>1, <2>5, <2>6, QuietStep
    <2> QED
      BY <2>2, <2>7 DEF Leaves
  <1> QED
    BY <1>4, <1>5, <1>6

(* AllUnlocker begins: no lock is free yet, and the first array is the     *)
(* thread's own.                                                           *)
LEMMA UnlockAllHere ==
  ASSUME ThreadsOK, NEW t \in Threads, UnlockAll(t)
  PROVE  /\ \A u \in Threads \ {t} : pc'[u] = pc[u] /\ frame'[u] = frame[u]
         /\ pc'[t] = "unlock" /\ frame'[t].gen = frame[t].first /\ frame'[t].hp = 0
         /\ frame'[t].want = LockInd(frame[t].first)
         /\ curLocks' = curLocks /\ holder' = holder /\ strayed' = strayed
  <1> DEFINE f == [NoFrame EXCEPT !.gen = frame[t].first, !.want = LockInd(frame[t].first)]
  <1>1. Goto(t, "unlock") /\ frame' = [frame EXCEPT ![t] = f] /\ UNCHANGED lockVars
    BY DEF UnlockAll
  <1>2. f.gen = frame[t].first /\ f.want = LockInd(frame[t].first) /\ f.hp = 0
    BY DEF NoFrame
  <1> HIDE DEF f
  <1> QED
    BY <1>1, <1>2, FrameSteps DEF lockVars

LEMMA UnlockAllResizing ==
  ASSUME ThreadsOK, ResizersHold, NEW t \in Threads, UnlockAll(t), Alone(t)
  PROVE  Resizing(t)'
  <1>1. Began(t)
    BY DEF ResizersHold
  <1>2. Owns(t)'
    BY <1>1, UnlockAllHere DEF Owns, AtWork, Began, AllTaken
  <1> QED
    BY <1>1, <1>2, UnlockAllHere DEF Resizing, Alone, Began

LEMMA UnlockAllResizes ==
  ASSUME TablesOK, ThreadsOK, ResizersHold, NEW t \in Threads, UnlockAll(t),
         hashpower' = hashpower, pc[t] = "exclusive",
         \A u \in Threads \ {t} : op'[u] = op[u]
  PROVE  ResizersHold' /\ Leaves(t)
  <1>1. Resizing(t)'
    BY UnlockAllResizing DEF Alone
  <1>2. OthersStay(t)
    BY UnlockAllHere DEF OthersStay
  <1> QED
    BY <1>1, <1>2, UnlockAllHere, QuietStep DEF Leaves

(* AllUnlocker goes on.  Unless it strays the locks are its own.           *)
LEMMA UnlockNextResizes ==
  ASSUME TablesOK, ThreadsOK, ResizersHold, NEW t \in Threads, UnlockNext(t), ~ strayed'
  PROVE  ResizersHold' /\ Leaves(t)
  <1> DEFINE l == Min(frame[t].want)
             h == frame[t].gen
             g == h + 1
  <1>1. /\ pc[t] = "unlock" /\ curLocks' = curLocks /\ hashpower' = hashpower /\ op' = op
    BY DEF UnlockNext, tableVars, callVars
  <1>2. /\ frame[t] \in Frame /\ h \in LockArray /\ curLocks \in LockArray
        /\ frame[t].want \subseteq LockInd(h) /\ h <= curLocks
        /\ \A m \in frame[t].want : holder[<<h, m>>] = t
    BY <1>1, ThreadHere DEF Fits, Frame, TablesOK, ResizersHold, Owns, AllTaken
  <1>3. CASE frame[t].want # {}
    <2>1. /\ holder' = [holder EXCEPT ![<<h, l>>] = NoThread]
          /\ frame' = [frame EXCEPT ![t].want = @ \ {l}] /\ pc' = pc
      BY <1>3 DEF UnlockNext
    <2>2. /\ \A u \in Threads \ {t} : frame'[u] = frame[u]
          /\ frame'[t].gen = h /\ frame'[t].want = frame[t].want \ {l}
      BY <1>2, <2>1 DEF ThreadsOK, Frame
    <2>3. l \in frame[t].want
      <3>1. frame[t].want \in SUBSET Nat
        BY <1>2, SizesAssumption DEF Frame, AnyLockInd
      <3> QED
        BY <1>3, <3>1, MinOfNats
    <2>4. \A m \in frame[t].want : <<h, m>> \in LockId
      BY <1>2, LocksOfArray
    <2> HIDE DEF l, h
    <2>5. OthersStay(t)
      <3>1. \A x \in LockId : x # <<h, l>> => holder'[x] = holder[x]
        BY <2>1 DEF TablesOK
      <3> QED
        BY <1>1, <1>2, <2>1, <2>2, <2>3, <3>1 DEF OthersStay
    <2>6. \A m \in frame[t].want \ {l} : holder'[<<h, m>>] = t
      BY <1>2, <2>1, <2>4 DEF TablesOK
    <2>7. Resizing(t)'
      <3>1. Owns(t)'
        BY <1>1, <2>1, <2>2, <2>6 DEF Owns, AtWork, AllTaken
      <3> QED
        BY <1>1, <1>2, <2>1, <2>2, <3>1 DEF Resizing, Alone
    <2> QED
      BY <1>1, <2>1, <2>5, <2>7, QuietStep DEF Leaves
  <1>4. CASE frame[t].want = {} /\ MoreToUnlock(t)
    <2>1. /\ frame' = [frame EXCEPT ![t].gen = g, ![t].want = LockInd(g)]
          /\ strayed' = (strayed \/ \E m \in LockInd(g) : holder[<<g, m>>] # t)
          /\ pc' = pc /\ holder' = holder
      BY <1>4 DEF UnlockNext
    <2>2. g <= curLocks
      BY <1>2, <1>4, NextArray DEF MoreToUnlock
    <2> HIDE DEF g, h, l
    <2>3. /\ \A u \in Threads \ {t} : frame'[u] = frame[u]
          /\ frame'[t].gen = g /\ frame'[t].want = LockInd(g)
      BY <1>2, <2>1 DEF ThreadsOK, Frame
    <2>4. \A m \in LockInd(g) : holder[<<g, m>>] = t
      BY <2>1
    <2>5. OthersStay(t)
      BY <1>1, <2>1, <2>3 DEF OthersStay
    <2>6. Resizing(t)'
      <3>1. Owns(t)'
        BY <1>1, <2>1, <2>3, <2>4 DEF Owns, AtWork, AllTaken
      <3> QED
        BY <1>1, <2>1, <2>2, <2>3, <3>1 DEF Resizing, Alone
    <2> QED
      BY <1>1, <2>1, <2>5, <2>6, QuietStep DEF Leaves
  <1>5. CASE frame[t].want = {} /\ ~ MoreToUnlock(t)
    <2> DEFINE label == IF op[t] = NoOp THEN "idle" ELSE "snapshot"
    <2>1. Goto(t, label) /\ frame' = [frame EXCEPT ![t] = NoFrame] /\ holder' = holder
      BY <1>5 DEF UnlockNext
    <2>2. label \in {"idle", "snapshot"}
      OBVIOUS
    <2> HIDE DEF label
    <2>3. /\ \A u \in Threads \ {t} : pc'[u] = pc[u] /\ frame'[u] = frame[u]
          /\ pc'[t] = label /\ frame'[t] = NoFrame
      BY <2>1, FrameSteps
    <2>4. OthersStay(t)
      BY <1>1, <2>1, <2>3 DEF OthersStay
    <2>5. NoFrame.gen <= curLocks
      BY SizesAssumption DEF NoFrame, TablesOK, LockArray
    <2>6. Owns(t)'
      BY <2>2, <2>3, OwnsNothing DEF Landless
    <2>7. Resizing(t)'
      BY <1>1, <2>2, <2>3, <2>5, <2>6 DEF Resizing, Alone
    <2> QED
      BY <1>1, <2>2, <2>3, <2>4, <2>7, QuietStep DEF Leaves
  <1> QED
    BY <1>3, <1>4, <1>5

LEMMA TableStepResizes ==
  ASSUME TablesOK, ThreadsOK, ResizersHold, NEW t \in Threads,
         ClearBody(t) \/ DumpBody(t) \/ GrowThrows(t) \/ GrowTooLate(t)
  PROVE  ResizersHold' /\ Leaves(t)
  <1>1. hashpower' = hashpower /\ pc[t] = "exclusive"
    BY DEF ClearBody, DumpBody, RehashAll, GrowThrows, GrowTooLate, Exclusive, tableVars
  <1>2. \A u \in Threads \ {t} : op'[u] = op[u]
    BY DEF ClearBody, DumpBody, GrowThrows, GrowTooLate, ReturnAll, Answer, callVars, ThreadsOK
  <1>3. UnlockAll(t)
    BY DEF ClearBody, DumpBody, GrowThrows, GrowTooLate, ReturnAll
  <1> QED
    BY <1>1, <1>2, <1>3, UnlockAllResizes

LEMMA ScanResizes ==
  ASSUME TablesOK, ThreadsOK, ResizersHold, NEW t \in Threads, Scan(t)
  PROVE  ResizersHold' /\ Leaves(t)
  <1>1. /\ hashpower' = hashpower /\ pc[t] = "scan"
        /\ curLocks' = curLocks /\ holder' = holder
    BY DEF Scan, tableVars, lockVars
  <1>2. CASE frame[t].want = {}
    <2>0. \A u \in Threads \ {t} : op'[u] = op[u]
      BY <1>2 DEF Scan, Answer, ThreadsOK
    <2>1. Goto(t, "idle") /\ frame' = [frame EXCEPT ![t] = NoFrame]
      BY <1>2 DEF Scan
    <2>2. /\ \A u \in Threads \ {t} : pc'[u] = pc[u] /\ frame'[u] = frame[u]
          /\ pc'[t] = "idle" /\ frame'[t] = NoFrame
      BY <2>1, FrameSteps
    <2>3. OthersStay(t)
      BY <1>1, <2>0, <2>2 DEF OthersStay
    <2>4. NoFrame.gen <= curLocks
      BY SizesAssumption DEF NoFrame, TablesOK, LockArray
    <2>5. Owns(t)'
      BY <2>2, OwnsNothing DEF Landless
    <2> QED
      BY <1>1, <2>2, <2>3, <2>4, <2>5, PlainStep DEF Leaves, Stays
  <1>3. CASE frame[t].want # {}
    <2>1. /\ pc' = pc /\ op' = op
          /\ \A u \in Threads \ {t} : frame'[u] = frame[u]
          /\ frame'[t].gen = frame[t].gen
      BY <1>3, ThreadHere DEF Scan, ThreadsOK, Frame, callVars
    <2>2. Goto(t, "scan")
      BY <1>1, <2>1, ThreadHere DEF Goto
    <2> QED
      BY <1>1, <2>1, <2>2, StaleArray, PlainMove DEF Leaves, Landless
  <1> QED
    BY <1>2, <1>3

(* The thread that doubles the table is the only one that is alone.        *)
LEMMA NobodyElseAlone ==
  ASSUME TablesOK, ResizersHold, NEW t \in Threads, Alone(t)
  PROVE  \A u \in Threads \ {t} : ~ Alone(u)
  BY LastArrayDecides DEF OneResizer

LEMMA GrowLocksResizes ==
  ASSUME TablesOK, ThreadsOK, ResizersHold, NEW t \in Threads, GrowLocks(t)
  PROVE  TablesOK' /\ ThreadsOK' /\ ResizersHold'
  <1>1. /\ pc[t] = "exclusive" /\ hashpower = frame[t].hp /\ hashpower' = hashpower
        /\ Goto(t, "swap") /\ frame' = frame /\ op' = op
    BY DEF GrowLocks, Exclusive, RehashAll, callVars
  <1>2. \A u \in Threads : pc[u] \notin {"swap", "install"}
    BY <1>1, NobodyResizes DEF Alone
  <1>3. \A u \in Threads \ {t} : ~ Alone(u)
    BY <1>1, NobodyElseAlone DEF Alone
  <1>4. TablesOK' /\ ThreadsOK'
    BY <1>2, GrowLocksTypes
  <1>5. pc'[t] = "swap" /\ \A u \in Threads \ {t} : pc'[u] = pc[u]
    BY <1>1 DEF Goto, ThreadsOK
  <1>6. InitHashpower + curLocks <= frame[t].hp
    BY <1>1, <1>2 DEF ResizersHold
  <1>7. /\ curLocks \in Nat /\ InitHashpower \in Nat /\ frame[t].hp \in Nat
        /\ curLocks \in LockArray /\ curLocks' \in LockArray
    <2>1. curLocks \in LockArray /\ curLocks' \in LockArray
      BY <1>4 DEF TablesOK
    <2>2. frame[t].hp \in 0 .. MaxHashpower
      BY ThreadHere DEF Frame
    <2> QED
      BY <2>1, <2>2, SizesAssumption DEF LockArray
  <1>8. /\ curLocks <= curLocks' /\ InitHashpower + curLocks' <= frame[t].hp + 1
        /\ curLocks' \in Nat
    BY <1>6, <1>7 DEF GrowLocks
  <1>9. AllTaken(t, curLocks, LockInd(curLocks))
    BY <1>1 DEF ResizersHold, Alone
  <1>10. \A l \in LockInd(curLocks') : holder'[<<curLocks', l>>] = t
    <2>1. CASE /\ curLocks' = curLocks + 1
               /\ holder' = [x \in LockId |-> IF x[1] = curLocks + 1 THEN t ELSE holder[x]]
      <3>1. \A l \in LockInd(curLocks') : <<curLocks', l>> \in LockId
        BY <1>7, LocksOfArray
      <3> QED
        BY <2>1, <3>1
    <2>2. CASE UNCHANGED <<curLocks, holder>>
      BY <2>2, <1>9 DEF AllTaken
    <2> QED
      BY <2>1, <2>2 DEF GrowLocks
  <1>11. ASSUME NEW g \in LockArray, g <= curLocks, NEW l \in LockInd(g)
         PROVE  holder'[<<g, l>>] = holder[<<g, l>>]
    <2>1. <<g, l>> \in LockId
      BY LocksOfArray
    <2>2. g # curLocks + 1
      BY <1>7, <1>11
    <2> QED
      BY <2>1, <2>2 DEF GrowLocks
  <1>14. ASSUME NEW u \in Threads, Began(u)
         PROVE  Began(u)'
    <2>1. frame[u].first \in LockArray /\ frame[u].first <= curLocks
      BY <1>14, ThreadHere DEF Frame, Began
    <2>2. \A l \in LockInd(frame[u].first) : holder'[<<frame[u].first, l>>] = u
      BY <1>11, <1>14, <2>1 DEF Began, AllTaken
    <2>3. frame[u].first <= curLocks'
      BY <1>7, <1>8, <2>1 DEF LockArray
    <2> QED
      BY <1>1, <2>2, <2>3 DEF Began, AllTaken
  <1>12. Resizing(t)'
    <2>1. frame'[t].gen <= curLocks'
      BY <1>1, <1>7, <1>8, StaleArray DEF Frame, LockArray
    <2>2. Owns(t)'
      BY <1>5, OwnsNothing DEF Landless
    <2>3. Began(t)'
      BY <1>1, <1>14 DEF ResizersHold, Alone
    <2> HIDE DEF Owns, Began
    <2> QED
      BY <1>1, <1>5, <1>8, <1>10, <2>1, <2>2, <2>3 DEF Resizing, Alone, AllTaken
  <1>13. ASSUME NEW u \in Threads \ {t}
         PROVE  Resizing(u)'
    <2>1. Resizing(u) /\ ~ Alone(u)
      BY <1>3, ResizersHoldParts
    <2>2. frame[u].gen \in LockArray /\ frame[u].gen <= curLocks
      BY <2>1, ThreadHere DEF Resizing, Frame
    <2>3. frame'[u].gen <= curLocks'
      BY <1>1, <1>7, <1>8, <2>2 DEF LockArray
    <2>4. pc[u] = "lock_all" =>
            \A l \in LockInd(frame[u].gen) \ frame[u].want : holder'[<<frame[u].gen, l>>] = u
      BY <1>11, <2>1, <2>2 DEF Resizing, AllTaken
    <2>5. Owns(u)'
      <3>1. Owns(u) /\ Need(u)' = Need(u)
        BY <1>1, <2>1, NeedStays DEF Resizing
      <3>2. pc[u] = "unlock" => frame[u].want \subseteq LockInd(frame[u].gen)
        BY ThreadHere DEF Fits
      <3>3. pc[u] = "unlock" => \A l \in frame[u].want : holder'[<<frame[u].gen, l>>] = u
        BY <1>11, <2>2, <3>1, <3>2 DEF Owns, AllTaken
      <3>4. ASSUME NEW x \in LockId, x[1] = frame[u].gen
            PROVE  holder'[x] = holder[x]
        <4>1. x = <<frame[u].gen, x[2]>> /\ x[2] \in LockInd(frame[u].gen)
          BY <3>4 DEF LockId
        <4> QED
          BY <1>11, <2>2, <4>1
      <3> QED
        BY <1>1, <1>5, <3>1, <3>3, <3>4 DEF Owns, AtWork, AllTaken
    <2> HIDE DEF Owns, Began
    <2> QED
      BY <1>1, <1>5, <1>14, <2>1, <2>3, <2>4, <2>5 DEF Resizing, Alone, AllTaken
  <1> QED
    BY <1>4, <1>5, <1>12, <1>13, ResizersHoldParts DEF ArraysFit

LEMMA GrowSwapResizes ==
  ASSUME TablesOK, ThreadsOK, ResizersHold, NEW t \in Threads, GrowSwap(t)
  PROVE  ResizersHold'
  <1>1. /\ pc[t] = "swap" /\ Goto(t, "install")
        /\ UNCHANGED <<curLocks, holder, frame, op>>
    BY DEF GrowSwap, lockVars, callVars
  <1>2. pc'[t] = "install" /\ \A u \in Threads \ {t} : pc'[u] = pc[u]
    BY <1>1 DEF Goto, ThreadsOK
  <1>3. \A u \in Threads \ {t} : ~ Alone(u)
    BY <1>1, NobodyElseAlone DEF Alone
  <1>4. ASSUME NEW u \in Threads
        PROVE  Resizing(u)'
    <2>1. Resizing(u)
      BY ResizersHoldParts
    <2>2. Need(u)' = Need(u)
      BY <1>1, NeedStays
    <2>3. Owns(u)'
      BY <1>1, <1>2, <2>1, <2>2 DEF Resizing, Owns, AtWork, AllTaken
    <2>4. Began(u)' <=> Began(u)
      BY <1>1 DEF Began, AllTaken
    <2> HIDE DEF Owns, Began
    <2> QED
      BY <1>1, <1>2, <1>3, <2>1, <2>3, <2>4 DEF Resizing, Alone, AllTaken
  <1> QED
    BY <1>2, <1>4, ResizersHoldParts DEF ArraysFit

LEMMA GrowInstallResizes ==
  ASSUME TablesOK, ThreadsOK, ResizersHold, NEW t \in Threads, GrowInstall(t)
  PROVE  ResizersHold'
  <1>1. /\ pc[t] = "install" /\ UnlockAll(t) /\ op' = op /\ hashpower' = frame[t].hp + 1
    BY DEF GrowInstall, callVars
  <1>2. /\ \A u \in Threads \ {t} : pc'[u] = pc[u] /\ frame'[u] = frame[u]
        /\ pc'[t] = "unlock" /\ curLocks' = curLocks /\ holder' = holder
    BY <1>1, UnlockAllHere
  <1>3. \A u \in Threads \ {t} : ~ Alone(u)
    BY <1>1, NobodyElseAlone DEF Alone
  <1>4. InitHashpower + curLocks <= frame[t].hp + 1
    BY <1>1 DEF ResizersHold
  <1>5. Resizing(t)'
    BY <1>1, UnlockAllResizing DEF Alone
  <1>6. ASSUME NEW u \in Threads \ {t}
        PROVE  Resizing(u)'
    <2>1. Resizing(u) /\ ~ Alone(u) /\ pc'[u] = pc[u] /\ frame'[u] = frame[u]
      BY <1>2, <1>3, ResizersHoldParts
    <2>2. Need(u)' = Need(u)
      BY <1>1, <2>1, NeedStays
    <2>3. Owns(u)'
      BY <1>2, <2>1, <2>2 DEF Resizing, Owns, AtWork, AllTaken
    <2>4. Began(u)' <=> Began(u)
      BY <1>2, <2>1 DEF Began, AllTaken
    <2> HIDE DEF Owns, Began
    <2> QED
      BY <1>2, <2>1, <2>3, <2>4 DEF Resizing, Alone, AllTaken
  <1> QED
    BY <1>1, <1>2, <1>4, <1>5, <1>6, ResizersHoldParts DEF ArraysFit
-----------------------------------------------------------------------------
(* The theorems.                                                           *)

IInv == TypeOK /\ ResizersHold

LEMMA InitIInv == Init => IInv
  <1> SUFFICES ASSUME Init PROVE IInv
    OBVIOUS
  <1>1. TypeOK
    <2>1. NoFrame \in Frame
      BY NoFrameType
    <2>2. 0 \in LockArray /\ InitHashpower \in 0 .. MaxHashpower /\ 0 \in 0 .. MaxHashpower
          /\ MaxOps \in 0 .. MaxOps
      BY SizesAssumption DEF LockArray
    <2>3. Fits("idle", NoOp, NoFrame)
      BY DEF Fits
    <2>5. strayed \in BOOLEAN
      BY DEF Init
    <2>6. pc \in [Threads -> Labels]
      BY DEF Init, Labels
    <2>4. Types
      <3> HIDE DEF Labels
      <3> QED
        BY <2>1, <2>2, <2>5, <2>6, NoBucketsType DEF Init, Types
    <2> QED
      BY <2>3, <2>4 DEF Init, TypeOK
  <1>2. ResizersHold
    BY SizesAssumption DEF Init, ResizersHold, Owns, AtWork, Alone, NoFrame
  <1> QED
    BY <1>1, <1>2 DEF IInv

(* Types hold whatever is unlocked astray.                                 *)
LEMMA StepTypes ==
  ASSUME TypeOK, NEW t \in Threads, Invoke(t) \/ Step(t)
  PROVE  TypeOK'
  <1>1. TablesOK /\ ThreadsOK
    BY TypeOKParts
  <1>2. CASE Invoke(t)
    BY <1>1, <1>2, TypeOKParts, InvokeTypes
  <1>3. CASE LockStep(t)
    BY <1>1, <1>3, TypeOKParts, SnapshotTypes, PickLocksTypes, LockFirstTypes, LockNextTypes
    DEF LockStep
  <1>4. CASE SimpleStep(t)
    BY <1>1, <1>4, TypeOKParts, FindTypes, EraseTypes, InsertTypes DEF SimpleStep
  <1>5. CASE CuckooStep(t)
    BY <1>1, <1>5, TypeOKParts, SearchTypes, TraceTypes, HopTypes, LastHopTypes, PlaceTypes
    DEF CuckooStep
  <1>6. CASE GrowStep(t)
    BY <1>1, <1>6, TypeOKParts, StartGrowTypes, GrowThrowsTypes, GrowTooLateTypes,
       GrowLocksTypes, GrowSwapTypes, GrowInstallTypes DEF GrowStep
  <1>7. CASE TableStep(t)
    BY <1>1, <1>7, TypeOKParts, LockAllTypes, UnlockNextTypes, ClearTypes, DumpTypes, ScanTypes
    DEF TableStep
  <1> QED
    BY <1>2, <1>3, <1>4, <1>5, <1>6, <1>7 DEF Step

(* Only AllUnlocker goes astray, and that it has is remembered.            *)
LEMMA StrayingSteps ==
  ASSUME [Next]_vars
  PROVE  UNCHANGED strayed \/ \E t \in Threads : UnlockNext(t)
  <1>1. CASE UNCHANGED vars
    BY <1>1 DEF vars
  <1>2. ASSUME NEW t \in Threads, Invoke(t) \/ Step(t), ~ UnlockNext(t)
        PROVE  UNCHANGED strayed
    <2>1. Invoke(t) \/ LockStep(t) => UNCHANGED strayed
      BY DEF Invoke, LockStep, Snapshot, PickLocks, LockFirst, LockNext, lockVars
    <2>2. (\E tag, val : Return(t, tag, val)) \/ StartSearch(t) \/ UnlockAll(t)
            => UNCHANGED strayed
      BY DEF Return, StartSearch, UnlockAll, lockVars
    <2>3. SimpleStep(t) => UNCHANGED strayed
      BY <2>2 DEF SimpleStep, FindBody, EraseBody, InsertBody, Upsert
    <2>4. CuckooStep(t) => UNCHANGED strayed
      BY <2>2 DEF CuckooStep, Search, Trace, HopBody, LastHopBody, PlaceBody, Upsert, lockVars
    <2>5. GrowStep(t) => UNCHANGED strayed
      BY <2>2 DEF GrowStep, StartGrow, GrowThrows, GrowTooLate, GrowLocks, GrowSwap,
                  GrowInstall, ReturnAll, lockVars
    <2>6. ClearBody(t) \/ DumpBody(t) \/ Scan(t) \/ LockAll(t) => UNCHANGED strayed
      BY <2>2 DEF ClearBody, DumpBody, Scan, LockAll, ReturnAll, lockVars
    <2> QED
      BY <1>2, <2>1, <2>3, <2>4, <2>5, <2>6 DEF Step, TableStep
  <1> QED
    BY <1>1, <1>2 DEF Next, Finished, vars

LEMMA StrayedStays ==
  ASSUME [Next]_vars, strayed
  PROVE  strayed'
  BY StrayingSteps DEF UnlockNext

LEMMA StepIInv ==
  ASSUME IInv, NEW t \in Threads, Invoke(t) \/ Step(t), ~ strayed'
  PROVE  IInv'
  <1>1. TablesOK /\ ThreadsOK /\ ResizersHold
    BY TypeOKParts DEF IInv
  <1>0. TypeOK'
    BY StepTypes DEF IInv
  <1>2. CASE Invoke(t)
    BY <1>0, <1>1, <1>2, InvokeResizes DEF IInv
  <1>3. CASE LockStep(t)
    BY <1>0, <1>1, <1>3, SnapshotResizes, LockResizes DEF IInv, LockStep
  <1>4. CASE SimpleStep(t)
    BY <1>0, <1>1, <1>4, BodyResizes DEF IInv, SimpleStep
  <1>5. CASE CuckooStep(t)
    BY <1>0, <1>1, <1>5, SearchResizes, BodyResizes DEF IInv, CuckooStep
  <1>6. CASE GrowStep(t)
    BY <1>0, <1>1, <1>6, StartGrowResizes, TableStepResizes,
       GrowLocksResizes, GrowSwapResizes, GrowInstallResizes DEF IInv, GrowStep
  <1>7. CASE TableStep(t)
    BY <1>0, <1>1, <1>7, LockAllResizes, UnlockNextResizes, TableStepResizes, ScanResizes
    DEF IInv, TableStep
  <1> QED
    BY <1>2, <1>3, <1>4, <1>5, <1>6, <1>7 DEF Step

LEMMA NextTypes ==
  ASSUME TypeOK, [Next]_vars
  PROVE  TypeOK'
  <1>1. CASE UNCHANGED vars
    BY <1>1 DEF vars, TypeOK, Types
  <1>2. CASE \E t \in Threads : Invoke(t) \/ Step(t)
    BY <1>2, StepTypes
  <1> QED
    BY <1>1, <1>2 DEF Next, Finished

LEMMA NextIInv ==
  ASSUME IInv, [Next]_vars, ~ strayed'
  PROVE  IInv'
  <1>1. CASE UNCHANGED vars
    <2>1. UNCHANGED <<buckets, hashpower, oldBuckets, oldHashpower, curLocks, holder,
                      counter, migrated, remaining, pc, op, ans, frame, opsLeft>>
      BY <1>1 DEF vars
    <2>2. TypeOK'
      BY NextTypes DEF IInv
    <2>3. \A u \in Threads : Need(u)' = Need(u)
      BY <2>1, NeedStays
    <2>4. \A u \in Threads : (Owns(u)' <=> Owns(u)) /\ (Began(u)' <=> Began(u))
      BY <2>1, <2>3 DEF Owns, Began, AtWork, AllTaken
    <2>5. ResizersHold
      BY DEF IInv
    <2> HIDE DEF Owns, Began
    <2>6. ResizersHold'
      BY <2>1, <2>4, <2>5 DEF ResizersHold, AllTaken, Alone
    <2> QED
      BY <2>2, <2>6 DEF IInv
  <1>2. CASE \E t \in Threads : Invoke(t) \/ Step(t)
    BY <1>2, StepIInv
  <1> QED
    BY <1>1, <1>2 DEF Next, Finished

(* Every thread's call and locals fit the place it is at, and every index  *)
(* it computes, into buckets, slots, locks and lock arrays, is in range,   *)
(* even after an unlocking of foreign locks.                               *)
THEOREM Typing == Spec => []TypeOK
  <1>1. Init => TypeOK
    BY InitIInv DEF IInv
  <1> QED
    BY <1>1, NextTypes, PTL DEF Spec

(* The invariant behind the next two theorems: until an unlocking goes     *)
(* astray, to an array another thread has appended.                        *)
THEOREM Invariant == Spec => [](strayed \/ IInv)
  <1>1. (strayed \/ IInv) /\ [Next]_vars => (strayed \/ IInv)'
    BY NextIInv, StrayedStays
  <1> QED
    BY InitIInv, <1>1, PTL DEF Spec

(* Until a stray unlock a thread in cuckoo_fast_double, clear or lock_table*)
(* has every lock of the last array, and nobody frees a lock of another's. *)
THEOREM ResizersKeepTheirLocks == Spec => []ResizersHoldUntilStray
  <1>1. strayed \/ IInv => ResizersHoldUntilStray
    BY DEF IInv, ResizersHoldUntilStray
  <1> QED
    BY <1>1, Invariant, PTL

(* Until a stray unlock two doublings, clears or dumps never run at once,  *)
(* whatever arrays of locks were appended while they were taking theirs.   *)
THEOREM ResizesAreExclusive == Spec => []OneResizerUntilStray
  <1>1. strayed \/ IInv => OneResizerUntilStray
    BY TypeOKParts, LastArrayDecides DEF IInv, OneResizerUntilStray
  <1> QED
    BY <1>1, Invariant, PTL
-----------------------------------------------------------------------------
(* What a thread plans that goes for its buckets: its path is one its key  *)
(* can make, and every bucket it goes to is one of a table with the        *)
(* hashpower it has read.                                                  *)

Follows(t, path) ==
  /\ path # << >> => path[1].bucket \in {i1(t), i2(t)}
  /\ \A i \in 1 .. Len(path) - 1 :
       path[i + 1].bucket = AltIndex(frame[t].hp, path[i].hash, path[i].bucket)

OnTheWay == {"trace", "pick", "lock_first", "lock_next", "body"}

BucketsAt(hp) == 0 .. HashSize[hp] - 1

Plans(t) ==
  /\ pc[t] \in OnTheWay => Follows(t, frame[t].path)
  /\ pc[t] = "search" => \A i \in 1 .. Len(frame[t].queue) :
                            frame[t].queue[i].bucket \in BucketsAt(frame[t].hp)

PlanInv == IInv /\ \A t \in Threads : Plans(t)

LEMMA NotOnTheWay ==
  ASSUME NEW t \in Threads, pc'[t] \notin OnTheWay \cup {"search"}
  PROVE  Plans(t)'
  BY DEF Plans, OnTheWay

LEMMA SameWay ==
  ASSUME NEW t \in Threads, op'[t] = op[t], frame'[t].hp = frame[t].hp, NEW path
  PROVE  Follows(t, path)' <=> Follows(t, path)
  BY SameNeed DEF Follows

(* The buckets of a key, and those on its path, at a hashpower.            *)
LEMMA OwnInRange ==
  ASSUME ThreadsOK, NEW t \in Threads, op[t] \in KeyOp
  PROVE  i1(t) \in BucketsAt(frame[t].hp) /\ i2(t) \in BucketsAt(frame[t].hp)
  <1> DEFINE h == HashOf[op[t].key]
             hp == frame[t].hp
  <1>1. op[t].key \in Keys /\ hp \in 0 .. MaxHashpower
    BY ThreadHere DEF KeyOp, Frame
  <1>2. h \in Hashes
    BY <1>1, HashTypes
  <1>3. IndexHash(hp, h) \in BucketsAt(hp)
    BY <1>1, <1>2, HashAssumption DEF BucketsAt
  <1>4. IndexHash(hp, h) \in Bucket
    BY <1>1, <1>2, IndexTypes
  <1>5. AltIndex(hp, h, IndexHash(hp, h)) \in BucketsAt(hp)
    BY <1>1, <1>2, <1>4, HashAssumption DEF BucketsAt
  <1> QED
    BY <1>3, <1>5 DEF i1, i2

LEMMA AltInRange ==
  ASSUME NEW hp \in 0 .. MaxHashpower, NEW h \in Hashes, NEW b \in Bucket
  PROVE  AltIndex(hp, h, b) \in BucketsAt(hp)
  BY HashAssumption DEF BucketsAt

LEMMA PathInRange ==
  ASSUME ThreadsOK, NEW t \in Threads, op[t] \in KeyOp,
         NEW path \in Seq(Place), Follows(t, path)
  PROVE  \A i \in 1 .. Len(path) : path[i].bucket \in BucketsAt(frame[t].hp)
  <1> TAKE i \in 1 .. Len(path)
  <1>1. frame[t].hp \in 0 .. MaxHashpower
    BY ThreadHere DEF Frame
  <1>2. CASE i = 1
    <2>1. path # << >>
      OBVIOUS
    <2> QED
      BY <1>2, <2>1, OwnInRange DEF Follows
  <1>3. CASE i # 1
    <2> DEFINE j == i - 1
    <2>1. j \in 1 .. Len(path) - 1 /\ j \in 1 .. Len(path) /\ j + 1 = i
      BY <1>3
    <2> HIDE DEF j
    <2>2. path[j] \in Place
      BY <2>1
    <2>3. path[i].bucket = AltIndex(frame[t].hp, path[j].hash, path[j].bucket)
      BY <2>1 DEF Follows
    <2> QED
      BY <1>1, <2>2, <2>3, AltInRange DEF Place
  <1> QED
    BY <1>2, <1>3

(* Every lock a thread needs is the lock of a bucket in range.             *)
LEMMA NeedInRange ==
  ASSUME ThreadsOK, NEW t \in Threads, Plans(t),
         pc[t] \in {"pick", "lock_first", "lock_next", "body"}
  PROVE  \A l \in Need(t) : \E b \in BucketsAt(frame[t].hp) : l = lock_ind(b)
  <1> DEFINE path == frame[t].path
             n == Len(path)
  <1>1. /\ op[t] \in KeyOp /\ path \in Seq(Place) /\ Follows(t, path)
        /\ frame[t].stage = "op" \/ path # << >>
    BY ThreadHere DEF Fits, Frame, Plans, OnTheWay
  <1>2. i1(t) \in BucketsAt(frame[t].hp) /\ i2(t) \in BucketsAt(frame[t].hp)
    BY <1>1, OwnInRange
  <1>3. \A i \in 1 .. n : path[i].bucket \in BucketsAt(frame[t].hp)
    BY <1>1, PathInRange
  <1>4. CASE frame[t].stage = "op"
    BY <1>2, <1>4 DEF Need
  <1>5. CASE frame[t].stage # "op"
    <2>1. n \in Nat \ {0} /\ Need(t) = PathLocks(t, path)
      BY <1>1, <1>5 DEF Need
    <2>2. CASE n = 1
      BY <1>2, <2>1, <2>2 DEF PathLocks
    <2>3. CASE n = 2
      BY <1>2, <1>3, <2>1, <2>3 DEF PathLocks
    <2>4. CASE n # 1 /\ n # 2
      <3>1. n \in 1 .. n /\ n - 1 \in 1 .. n
        <4> HIDE DEF n
        <4> QED
          BY <2>1, <2>4
      <3>2. Need(t) = {lock_ind(path[n - 1].bucket), lock_ind(path[n].bucket)}
        BY <2>1, <2>4 DEF PathLocks
      <3> QED
        BY <1>3, <3>1, <3>2
    <2> QED
      BY <2>2, <2>3, <2>4
  <1> QED
    BY <1>4, <1>5

(* Every step but the three of a doubling, and those that do not end at    *)
(* the thread's buckets.                                                   *)
LEMMA StayingSteps ==
  ASSUME TablesOK, ThreadsOK, ResizersHold, NEW t \in Threads, Invoke(t) \/ Step(t), ~ strayed'
  PROVE  \/ Stays(t) /\ (Leaves(t) \/ LockFirst(t) \/ LockNext(t))
         \/ GrowLocks(t) \/ GrowSwap(t) \/ GrowInstall(t)
  <1>1. Invoke(t) => Leaves(t)
    BY InvokeResizes
  <1>2. LockStep(t) => Leaves(t) \/ (Stays(t) /\ (LockFirst(t) \/ LockNext(t)))
    BY SnapshotResizes, LockResizes DEF LockStep
  <1>3. SimpleStep(t) \/ CuckooStep(t) => Leaves(t)
    BY BodyResizes, SearchResizes DEF SimpleStep, CuckooStep
  <1>4. GrowStep(t) => Leaves(t) \/ GrowLocks(t) \/ GrowSwap(t) \/ GrowInstall(t)
    BY StartGrowResizes, TableStepResizes DEF GrowStep
  <1>5. TableStep(t) => Leaves(t)
    BY LockAllResizes, UnlockNextResizes, TableStepResizes, ScanResizes DEF TableStep
  <1>6. Leaves(t) => Stays(t)
    BY DEF Leaves
  <1> QED
    BY <1>1, <1>2, <1>3, <1>4, <1>5, <1>6 DEF Step

(* No step touches the call or the locals of another thread.               *)
LEMMA StepsKeepToThemselves ==
  ASSUME IInv, NEW t \in Threads, Invoke(t) \/ Step(t), ~ strayed'
  PROVE  \A u \in Threads \ {t} : pc'[u] = pc[u] /\ frame'[u] = frame[u] /\ op'[u] = op[u]
  <1>1. TablesOK /\ ThreadsOK /\ ResizersHold
    BY TypeOKParts DEF IInv
  <1> DEFINE Apart == \A u \in Threads \ {t} :
                        pc'[u] = pc[u] /\ frame'[u] = frame[u] /\ op'[u] = op[u]
  <1>2. GrowLocks(t) \/ GrowSwap(t) => Apart
    <2>1. ASSUME GrowLocks(t) \/ GrowSwap(t)
          PROVE  Apart
      <3>1. (\E label : Goto(t, label)) /\ frame' = frame /\ op' = op
        BY <2>1 DEF GrowLocks, GrowSwap, callVars
      <3> QED
        BY <1>1, <3>1 DEF Goto, ThreadsOK
    <2> QED
      BY <2>1
  <1>3. GrowInstall(t) => Apart
    <2>1. GrowInstall(t) => UnlockAll(t) /\ op' = op
      BY DEF GrowInstall, callVars
    <2> QED
      BY <1>1, <2>1, UnlockAllHere
  <1>4. Stays(t) => Apart
    BY DEF Stays, OthersStay
  <1> HIDE DEF Apart
  <1> QED
    BY <1>1, <1>2, <1>3, <1>4, StayingSteps DEF Apart

LEMMA OthersPlan ==
  ASSUME IInv, NEW t \in Threads, Invoke(t) \/ Step(t), ~ strayed',
         NEW u \in Threads \ {t}, Plans(u)
  PROVE  Plans(u)' /\ Need(u)' = Need(u)
  <1>1. pc'[u] = pc[u] /\ frame'[u] = frame[u] /\ op'[u] = op[u]
    BY StepsKeepToThemselves
  <1>2. /\ i1(u)' = i1(u) /\ i2(u)' = i2(u)
        /\ \A path : PathLocks(u, path)' = PathLocks(u, path)
        /\ \A path : Follows(u, path)' <=> Follows(u, path)
    BY <1>1, SameNeed, SameWay
  <1>3. Need(u)' = Need(u)
    BY <1>1, <1>2 DEF Need, PathLocks
  <1>4. Follows(u, frame[u].path)' <=> Follows(u, frame[u].path)
    BY <1>1, <1>2 DEF Follows
  <1> QED
    BY <1>1, <1>3, <1>4 DEF Plans

(* Getting to the buckets.                                                 *)
LEMMA SnapshotPlans ==
  ASSUME ThreadsOK, NEW t \in Threads, Snapshot(t) \/ PickLocks(t), Plans(t)
  PROVE  Plans(t)'
  <1>1. frame[t] \in Frame /\ op'[t] = op[t]
    BY ThreadHere DEF Snapshot, PickLocks, callVars
  <1>2. CASE Snapshot(t)
    <2>1. pc'[t] = "pick"
      BY <1>2 DEF Snapshot, Goto, ThreadsOK
    <2>2. frame'[t].path = << >>
      BY <1>1, <1>2 DEF Snapshot, ThreadsOK, Frame
    <2>3. Follows(t, frame[t].path)'
      BY <2>2 DEF Follows
    <2> QED
      BY <2>1, <2>3 DEF Plans, OnTheWay
  <1>3. CASE PickLocks(t)
    <2>1. pc'[t] = "lock_first" /\ pc[t] = "pick"
      BY <1>3 DEF PickLocks, Goto, ThreadsOK
    <2>2. frame'[t].hp = frame[t].hp /\ frame'[t].path = frame[t].path
      BY <1>1, <1>3 DEF PickLocks, ThreadsOK, Frame
    <2>3. Follows(t, frame[t].path)'
      BY <1>1, <2>1, <2>2, SameWay DEF Follows, Plans, OnTheWay
    <2> QED
      BY <2>1, <2>3 DEF Plans, OnTheWay
  <1> QED
    BY <1>2, <1>3

LEMMA TakingPlans ==
  ASSUME TablesOK, ThreadsOK, NEW t \in Threads, LockFirst(t) \/ LockNext(t), Plans(t)
  PROVE  /\ Plans(t)' /\ pc'[t] \in {"lock_next", "body", "snapshot"}
         /\ Take(t) => /\ frame'[t].hp = frame[t].hp /\ frame'[t].gen = frame[t].gen
                       /\ frame'[t].want = frame[t].want \ {Min(frame[t].want)}
                       /\ Need(t)' = Need(t)
         /\ ~ Take(t) => pc'[t] = "snapshot"
  <1>1. pc'[t] \in {"lock_next", "body", "snapshot"}
    <2>1. Goto(t, "body") \/ Goto(t, "lock_next") \/ Goto(t, "snapshot")
      BY DEF LockFirst, LockNext, TryAgain
    <2> QED
      BY <2>1 DEF Goto, ThreadsOK
  <1>2. CASE ~ Take(t)
    <2>1. Goto(t, "snapshot")
      BY <1>2 DEF LockFirst, LockNext, TryAgain
    <2>2. pc'[t] = "snapshot"
      BY <2>1 DEF Goto, ThreadsOK
    <2> QED
      BY <1>1, <1>2, <2>2, NotOnTheWay DEF OnTheWay
  <1>3. CASE Take(t)
    <2> DEFINE l == Min(frame[t].want)
    <2>1. /\ frame[t] \in Frame /\ op'[t] = op[t]
          /\ pc[t] \in {"lock_first", "lock_next"}
      BY ThreadHere DEF LockFirst, LockNext, callVars
    <2>2. /\ frame'[t].hp = frame[t].hp /\ frame'[t].stage = frame[t].stage
          /\ frame'[t].path = frame[t].path /\ frame'[t].want = frame[t].want \ {l}
          /\ frame'[t].gen = frame[t].gen
      BY <1>3, <2>1 DEF Take, ThreadsOK, Frame
    <2>3. /\ i1(t)' = i1(t) /\ i2(t)' = i2(t)
      BY <2>1, <2>2, SameNeed
    <2>4. Need(t)' = Need(t)
      BY <2>2, <2>3 DEF Need, PathLocks
    <2>5. Follows(t, frame[t].path)'
      BY <2>1, <2>2, <2>3 DEF Follows, Plans, OnTheWay
    <2>6. Plans(t)'
      BY <1>1, <2>5 DEF Plans
    <2> QED
      BY <1>1, <1>3, <2>2, <2>4, <2>6
  <1> QED
    BY <1>2, <1>3

(* Longer and shorter paths.                                               *)
LEMMA FollowsLonger ==
  ASSUME NEW t \in Threads, NEW path \in Seq(Place), Follows(t, path), NEW e \in Place,
         path = << >> => e.bucket \in {i1(t), i2(t)},
         path # << >> => e.bucket = AltIndex(frame[t].hp, path[Len(path)].hash, path[Len(path)].bucket)
  PROVE  Follows(t, Append(path, e))
  <1> DEFINE n == Len(path)
             longer == Append(path, e)
  <1>1. n \in Nat /\ (path = << >> <=> n = 0)
    OBVIOUS
  <1>2. Len(longer) = n + 1 /\ longer[n + 1] = e /\ \A i \in 1 .. n : longer[i] = path[i]
    BY AppendProperties
  <1> HIDE DEF longer, n
  <1>3. longer[1].bucket \in {i1(t), i2(t)}
    <2>1. CASE n = 0
      BY <2>1, <1>1, <1>2
    <2>2. CASE n # 0
      <3>1. 1 \in 1 .. n /\ path # << >>
        BY <2>2, <1>1
      <3> QED
        BY <3>1, <1>2 DEF Follows
    <2> QED
      BY <2>1, <2>2
  <1>4. ASSUME NEW i \in 1 .. Len(longer) - 1
        PROVE  longer[i + 1].bucket = AltIndex(frame[t].hp, longer[i].hash, longer[i].bucket)
    <2>1. i \in 1 .. n /\ path # << >>
      BY <1>1, <1>2
    <2>2. CASE i = n
      BY <2>1, <2>2, <1>2 DEF n
    <2>3. CASE i # n
      <3> DEFINE j == i + 1
      <3>1. i \in 1 .. Len(path) - 1 /\ j \in 1 .. n
        BY <2>1, <2>3, <1>1 DEF n
      <3>2. longer[j] = path[j] /\ longer[i] = path[i]
        BY <3>1, <2>1, <1>2
      <3> QED
        BY <3>1, <3>2 DEF Follows
    <2> QED
      BY <2>2, <2>3
  <1>5. Follows(t, longer)
    BY <1>3, <1>4 DEF Follows
  <1> QED
    BY <1>5 DEF longer

LEMMA FollowsShorter ==
  ASSUME NEW t \in Threads, NEW path \in Seq(Place), Follows(t, path), Len(path) > 1
  PROVE  Follows(t, SubSeq(path, 1, Len(path) - 1))
  <1> DEFINE n == Len(path)
             rest == SubSeq(path, 1, n - 1)
  <1>1. n \in Nat /\ n > 1 /\ path # << >>
    OBVIOUS
  <1>2. /\ 1 \in 1 .. n /\ n - 1 \in 1 .. n
        /\ \A i \in 1 .. n : path[i] \in Place
    BY <1>1
  <1>3. Len(rest) = n - 1 /\ \A i \in 1 .. n - 1 : rest[i] = path[i]
    <2> HIDE DEF n
    <2>1. /\ Len(rest) = n - 1
          /\ \A i \in 1 .. n - 1 : rest[i] = path[1 + i - 1]
      BY <1>1, <1>2, SubSeqProperties DEF n
    <2>2. \A i \in 1 .. n - 1 : 1 + i - 1 = i
      BY <1>1
    <2> HIDE DEF rest
    <2> QED
      BY <2>1, <2>2
  <1> HIDE DEF rest, n
  <1>4. rest[1].bucket \in {i1(t), i2(t)}
    <2>1. 1 \in 1 .. n - 1
      BY <1>1
    <2> QED
      BY <2>1, <1>1, <1>3 DEF Follows
  <1>5. ASSUME NEW i \in 1 .. Len(rest) - 1
        PROVE  rest[i + 1].bucket = AltIndex(frame[t].hp, rest[i].hash, rest[i].bucket)
    <2> DEFINE j == i + 1
    <2>1. i \in 1 .. n - 1 /\ j \in 1 .. n - 1
      BY <1>1, <1>3
    <2>2. rest[j] = path[j] /\ rest[i] = path[i]
      BY <2>1, <1>3
    <2>3. path[j].bucket = AltIndex(frame[t].hp, path[i].hash, path[i].bucket)
      BY <2>1 DEF Follows, n
    <2> QED
      BY <2>2, <2>3
  <1>6. Follows(t, rest)
    BY <1>4, <1>5 DEF Follows
  <1> QED
    BY <1>6 DEF rest, n

(* A path that has been found, or has got shorter.                         *)
LEMMA PickedPlans ==
  ASSUME NEW t \in Threads, pc'[t] = "pick", NEW path,
         frame'[t].path = path, frame'[t].hp = frame[t].hp,
         op'[t] = op[t], Follows(t, path)
  PROVE  Plans(t)'
  <1>1. /\ i1(t)' = i1(t) /\ i2(t)' = i2(t)
    BY SameNeed
  <1>2. Follows(t, frame[t].path)'
    BY <1>1 DEF Follows
  <1> QED
    BY <1>2 DEF Plans, OnTheWay

(* A search starts from the two buckets of the key.                        *)
LEMMA StartsInRange ==
  ASSUME ThreadsOK, NEW t \in Threads, op[t] \in KeyOp, StartSearch(t)
  PROVE  Plans(t)' /\ pc'[t] = "search"
  <1> DEFINE q == <<[bucket |-> i1(t), root |-> 0, slots |-> << >>],
                    [bucket |-> i2(t), root |-> 1, slots |-> << >>]>>
  <1>1. pc'[t] = "search" /\ frame'[t].queue = q /\ frame'[t].hp = frame[t].hp
    BY ThreadHere DEF StartSearch, Goto, ThreadsOK, Frame
  <1>2. i1(t) \in BucketsAt(frame[t].hp) /\ i2(t) \in BucketsAt(frame[t].hp)
    BY OwnInRange
  <1>3. \A i \in 1 .. Len(q) : q[i].bucket \in BucketsAt(frame[t].hp)
    BY <1>2
  <1> HIDE DEF q
  <1> QED
    BY <1>1, <1>3 DEF Plans, OnTheWay

LEMMA SearchPlans ==
  ASSUME TablesOK, ThreadsOK, NEW t \in Threads, Search(t), Plans(t)
  PROVE  Plans(t)'
  <1> DEFINE x == Head(frame[t].queue)
             T == Rehashed({lock_ind(x.bucket)})
             order == SearchSlots(x)
             free == {i \in 1 .. SlotsPerBucket : T[x.bucket][order[i]] = Empty}
             Child(i) ==
               [bucket |-> AltIndex(frame[t].hp, HashOf[T[x.bucket][order[i]].key], x.bucket),
                root   |-> x.root,
                slots  |-> Append(x.slots, order[i])]
             rest == Tail(frame[t].queue)
             children == [i \in 1 .. SlotsPerBucket |-> Child(i)]
             queue == IF Len(x.slots) < MaxBfsPathLen - 1 THEN rest \o children ELSE rest
             InRange(q) == \A i \in 1 .. Len(q) : q[i].bucket \in BucketsAt(frame[t].hp)
  <1>1. /\ frame[t] \in Frame /\ frame[t].path = << >> /\ pc[t] = "search" /\ op'[t] = op[t]
        /\ frame[t].queue # << >> /\ frame[t].queue \in Seq(BSlot)
        /\ frame[t].hp \in 0 .. MaxHashpower /\ InRange(frame[t].queue)
    BY ThreadHere DEF Search, Fits, Frame, callVars, Plans
  <1>2. pc'[t] \in {"snapshot", "trace", "grow", "search"}
    BY DEF Search, Goto, ThreadsOK
  <1>3. frame'[t].path = << >> /\ frame'[t].hp = frame[t].hp
    <2>1. frame' = frame \/ \E q : frame' = [frame EXCEPT ![t].queue = q]
      BY DEF Search
    <2> QED
      BY <1>1, <2>1 DEF ThreadsOK, Frame
  <1>4. Follows(t, frame[t].path)'
    BY <1>3 DEF Follows
  <1>5. ASSUME pc'[t] = "search"
        PROVE  InRange(frame'[t].queue)
    <2>1. check_hashpower(t) /\ free = {} /\ frame' = [frame EXCEPT ![t].queue = queue]
      <3>1. check_hashpower(t)
        <4>1. ~ check_hashpower(t) => Goto(t, "snapshot")
          BY DEF Search
        <4> QED
          BY <1>5, <4>1 DEF Goto, ThreadsOK
      <3>2. free = {}
        <4>1. free # {} => Goto(t, "trace")
          BY <3>1 DEF Search
        <4> HIDE DEF free
        <4> QED
          BY <1>5, <4>1 DEF Goto, ThreadsOK
      <3> QED
        BY <3>1, <3>2 DEF Search
    <2>2. frame'[t].queue = queue
      <3> HIDE DEF queue
      <3> QED
        BY <1>1, <2>1 DEF ThreadsOK, Frame
    <2>3. x \in BSlot /\ rest \in Seq(BSlot) /\ InRange(rest)
      <3>1. x \in BSlot /\ rest \in Seq(BSlot)
        BY <1>1
      <3>2. ASSUME NEW i \in 1 .. Len(rest)
            PROVE  rest[i].bucket \in BucketsAt(frame[t].hp)
        <4> DEFINE q == frame[t].queue
        <4>1. q \in Seq(BSlot) /\ q # << >>
          BY <1>1
        <4> HIDE DEF q
        <4>2. Len(Tail(q)) = Len(q) - 1 /\ \A j \in 1 .. Len(q) - 1 : Tail(q)[j] = q[j + 1]
          BY <4>1, HeadTailProperties
        <4>3. Len(q) \in Nat
          BY <4>1
        <4>4. i \in 1 .. Len(q) - 1 /\ i + 1 \in 1 .. Len(q) /\ rest[i] = q[i + 1]
          BY <3>2, <4>2, <4>3 DEF q
        <4> QED
          BY <1>1, <4>4 DEF q
      <3> QED
        BY <3>1, <3>2
    <2>4. x.bucket \in Bucket
      BY <2>3 DEF BSlot
    <2>5. T \in Table
      BY <2>4, LockIndType, RehashTypes
    <2>6. order \in [1 .. SlotsPerBucket -> Slot]
      BY <2>3, SearchSlotsType
    <2>7. ASSUME NEW i \in 1 .. SlotsPerBucket
          PROVE  Child(i) \in BSlot /\ Child(i).bucket \in BucketsAt(frame[t].hp)
      <3>1. order[i] \in Slot /\ T[x.bucket][order[i]] # Empty
        BY <2>1, <2>6
      <3>2. HashOf[T[x.bucket][order[i]].key] \in Hashes
        BY <2>4, <2>5, <3>1, ItemHash
      <3>3. AltIndex(frame[t].hp, HashOf[T[x.bucket][order[i]].key], x.bucket)
              \in BucketsAt(frame[t].hp)
        BY <1>1, <2>4, <3>2, AltInRange
      <3>4. BucketsAt(frame[t].hp) \subseteq Bucket
        BY <1>1, SizesGrow DEF BucketsAt
      <3>5. Append(x.slots, order[i]) \in Seq(Slot) /\ x.root \in {0, 1}
        BY <2>3, <3>1 DEF BSlot
      <3> QED
        BY <3>3, <3>4, <3>5 DEF BSlot
    <2> HIDE DEF Child, x, T, order, rest
    <2>8. children \in Seq(BSlot) /\ InRange(children)
      <3>1. children \in Seq(BSlot)
        BY <2>7, SizesAssumption
      <3>2. Len(children) = SlotsPerBucket
        BY SizesAssumption
      <3>3. \A i \in 1 .. SlotsPerBucket : children[i] = Child(i)
        OBVIOUS
      <3> HIDE DEF children
      <3> QED
        BY <2>7, <3>1, <3>2, <3>3
    <2>9. InRange(queue)
      <3>1. CASE queue = rest
        BY <2>3, <3>1
      <3>2. CASE queue # rest
        <4>1. rest \in Seq(BSlot) /\ children \in Seq(BSlot) /\ queue = rest \o children
          BY <2>3, <2>8, <3>2
        <4> HIDE DEF children, queue
        <4>2. /\ Len(queue) = Len(rest) + Len(children)
              /\ \A i \in 1 .. Len(rest) + Len(children) :
                   queue[i] = IF i <= Len(rest) THEN rest[i] ELSE children[i - Len(rest)]
          BY <4>1, ConcatProperties
        <4>3. Len(rest) \in Nat /\ Len(children) \in Nat
          BY <4>1
        <4>4. ASSUME NEW i \in 1 .. Len(queue)
              PROVE  queue[i].bucket \in BucketsAt(frame[t].hp)
          <5>1. CASE i <= Len(rest)
            <6>1. i \in 1 .. Len(rest) /\ queue[i] = rest[i]
              BY <4>2, <4>3, <5>1
            <6> QED
              BY <2>3, <6>1
          <5>2. CASE ~ (i <= Len(rest))
            <6> DEFINE j == i - Len(rest)
            <6>1. j \in 1 .. Len(children) /\ queue[i] = children[j]
              BY <4>2, <4>3, <5>2
            <6> HIDE DEF j
            <6> QED
              BY <2>8, <6>1
          <5> QED
            BY <5>1, <5>2
        <4> QED
          BY <4>4
      <3> QED
        BY <3>1, <3>2
    <2> HIDE DEF queue
    <2> QED
      BY <2>2, <2>9
  <1> HIDE DEF x, T, order, free, Child, rest, children, queue
  <1> QED
    BY <1>2, <1>3, <1>4, <1>5 DEF Plans

LEMMA TracePlans ==
  ASSUME TablesOK, ThreadsOK, NEW t \in Threads, Trace(t), Plans(t)
  PROVE  Plans(t)'
  <1> DEFINE x == frame[t].queue[1]
             path == frame[t].path
             n == Len(path)
             b == TraceBucket(t)
             s == x.slots[n + 1]
             T == Rehashed({lock_ind(b)})
             free == T[b][s] = Empty
             h == IF free THEN 0 ELSE HashOf[T[b][s].key]
             e == [bucket |-> b, slot |-> s, hash |-> h]
             longer == Append(path, e)
  <1>1. /\ pc[t] = "trace" /\ frame[t] \in Frame /\ op'[t] = op[t]
        /\ path \in Seq(Place)
        /\ Follows(t, path)
    BY ThreadHere DEF Trace, callVars, Frame, Plans, OnTheWay
  <1>2. CASE ~ check_hashpower(t)
    <2>1. Goto(t, "snapshot")
      BY <1>2 DEF Trace
    <2>2. pc'[t] = "snapshot"
      BY <2>1 DEF Goto, ThreadsOK
    <2> QED
      BY <2>2, NotOnTheWay DEF OnTheWay
  <1>3. CASE check_hashpower(t)
    <2>1. e \in Place
      BY <1>1, TraceStep
    <2>2. Follows(t, longer)
      <3>1. path = << >> => b \in {i1(t), i2(t)}
        BY DEF TraceBucket
      <3>2. path # << >> => b = AltIndex(frame[t].hp, path[Len(path)].hash, path[Len(path)].bucket)
        BY <1>1 DEF TraceBucket
      <3>3. e.bucket = b
        OBVIOUS
      <3> HIDE DEF e, path, b
      <3> QED
        BY <1>1, <2>1, <3>1, <3>2, <3>3, FollowsLonger
    <2>3. CASE free \/ n + 1 = Len(x.slots)
      <3>1. /\ Goto(t, "pick")
            /\ frame' = [frame EXCEPT ![t].queue = << >>, ![t].path = longer,
                                      ![t].stage = PathStage(longer),
                                      ![t].want = PathLocks(t, longer)]
        BY <1>3, <2>3 DEF Trace
      <3> HIDE DEF longer
      <3>2. /\ pc'[t] = "pick" /\ frame'[t].path = longer
            /\ frame'[t].stage = PathStage(longer) /\ frame'[t].want = PathLocks(t, longer)
            /\ frame'[t].hp = frame[t].hp
        BY <1>1, <3>1 DEF Goto, ThreadsOK, Frame
      <3> QED
        BY <1>1, <2>2, <3>2, PickedPlans
    <2>4. CASE ~ (free \/ n + 1 = Len(x.slots))
      <3>1. Goto(t, "trace") /\ frame' = [frame EXCEPT ![t].path = longer]
        BY <1>3, <2>4 DEF Trace
      <3> HIDE DEF longer
      <3>2. /\ pc'[t] = "trace" /\ frame'[t].path = longer /\ frame'[t].hp = frame[t].hp
        BY <1>1, <3>1 DEF Goto, ThreadsOK, Frame
      <3>3. i1(t)' = i1(t) /\ i2(t)' = i2(t)
        BY <1>1, <3>2, SameNeed
      <3>4. Follows(t, frame[t].path)'
        BY <2>2, <3>2, <3>3 DEF Follows
      <3> QED
        BY <3>2, <3>4 DEF Plans, OnTheWay
    <2> QED
      BY <2>3, <2>4
  <1> QED
    BY <1>2, <1>3

LEMMA HopPlans ==
  ASSUME ThreadsOK, NEW t \in Threads, HopBody(t), Plans(t)
  PROVE  Plans(t)'
  <1> DEFINE path == frame[t].path
             n == Len(path)
             rest == SubSeq(path, 1, n - 1)
             T == Rehashed(Need(t))
  <1>1. /\ frame[t] \in Frame /\ path \in Seq(Place) /\ n > 1 /\ pc[t] = "body"
        /\ Follows(t, path)
    <2>1. pc[t] = "body" /\ path \in Seq(Place) /\ n > 2 /\ frame[t] \in Frame
      BY PathHere, ThreadHere DEF HopBody, InBody
    <2> QED
      BY <2>1 DEF Plans, OnTheWay
  <1>2. CASE CanMove(T, path[n - 1], path[n])
    <2>1. /\ Goto(t, "pick") /\ op' = op
          /\ frame' = [frame EXCEPT ![t].path = rest, ![t].stage = PathStage(rest),
                                    ![t].want = PathLocks(t, rest)]
      BY <1>2 DEF HopBody, callVars
    <2>2. Follows(t, rest)
      BY <1>1, FollowsShorter
    <2> HIDE DEF rest
    <2>3. /\ pc'[t] = "pick" /\ frame'[t].path = rest /\ op'[t] = op[t]
          /\ frame'[t].stage = PathStage(rest) /\ frame'[t].want = PathLocks(t, rest)
          /\ frame'[t].hp = frame[t].hp
      BY <1>1, <2>1 DEF Goto, ThreadsOK, Frame
    <2> QED
      BY <2>2, <2>3, PickedPlans
  <1>3. CASE ~ CanMove(T, path[n - 1], path[n])
    <2>1. StartSearch(t)
      BY <1>3 DEF HopBody
    <2>2. op[t] \in KeyOp
      BY PathHere DEF HopBody
    <2> QED
      BY <2>1, <2>2, StartsInRange
  <1> QED
    BY <1>2, <1>3

(* Every other step ends the attempt to lock the buckets, or is no part of *)
(* one.                                                                    *)
LEMMA ElsewherePlans ==
  ASSUME ThreadsOK, NEW t \in Threads,
         \/ Invoke(t) \/ SimpleStep(t) \/ LastHopBody(t) \/ PlaceBody(t)
         \/ GrowStep(t) \/ TableStep(t)
  PROVE  Plans(t)' /\ pc'[t] \notin OnTheWay
  <1> DEFINE Elsewhere == {"idle", "snapshot", "lock_all", "exclusive", "swap",
                           "install", "unlock", "scan"}
  <1>1. \/ (\E label \in Elsewhere : Goto(t, label))
        \/ pc' = pc /\ pc[t] \in Elsewhere
        \/ StartSearch(t) /\ pc[t] = "body"
    <2>1. Invoke(t) => \E label \in Elsewhere : Goto(t, label)
      BY DEF Invoke
    <2>2. SimpleStep(t) \/ LastHopBody(t) \/ PlaceBody(t) =>
            (\E label \in Elsewhere : Goto(t, label)) \/ (StartSearch(t) /\ pc[t] = "body")
      BY DEF SimpleStep, FindBody, EraseBody, InsertBody, LastHopBody, PlaceBody, Upsert,
             Return, InBody
    <2>3. GrowStep(t) => \E label \in Elsewhere : Goto(t, label)
      BY DEF GrowStep, StartGrow, GrowThrows, GrowTooLate, GrowLocks, GrowSwap, GrowInstall,
             ReturnAll, UnlockAll
    <2>4. LockAll(t) => (\E label \in Elsewhere : Goto(t, label)) \/ (pc' = pc /\ pc[t] \in Elsewhere)
      BY DEF LockAll
    <2>5. ClearBody(t) \/ DumpBody(t) => \E label \in Elsewhere : Goto(t, label)
      BY DEF ClearBody, DumpBody, ReturnAll, UnlockAll
    <2>6. Scan(t) => (\E label \in Elsewhere : Goto(t, label)) \/ (pc' = pc /\ pc[t] \in Elsewhere)
      BY DEF Scan
    <2>7. UnlockNext(t) => (\E label \in Elsewhere : Goto(t, label)) \/ (pc' = pc /\ pc[t] \in Elsewhere)
      BY DEF UnlockNext
    <2> QED
      BY <2>1, <2>2, <2>3, <2>4, <2>5, <2>6, <2>7 DEF TableStep
  <1>2. CASE StartSearch(t) /\ pc[t] = "body"
    <2>1. op[t] \in KeyOp
      BY <1>2, ThreadHere DEF Fits
    <2> QED
      BY <1>2, <2>1, StartsInRange DEF OnTheWay
  <1>3. CASE ~ (StartSearch(t) /\ pc[t] = "body")
    <2>1. pc'[t] \in Elsewhere
      BY <1>1, <1>3 DEF Goto, ThreadsOK
    <2> QED
      BY <2>1, NotOnTheWay DEF OnTheWay
  <1> QED
    BY <1>2, <1>3

LEMMA StepPlanInv ==
  ASSUME PlanInv, NEW t \in Threads, Invoke(t) \/ Step(t), ~ strayed'
  PROVE  PlanInv'
  <1>1. IInv /\ TablesOK /\ ThreadsOK /\ Plans(t)
    BY TypeOKParts DEF PlanInv, IInv
  <1>2. IInv'
    BY <1>1, StepIInv
  <1>3. \A u \in Threads \ {t} : Plans(u)'
    BY <1>1, OthersPlan DEF PlanInv
  <1>4. Plans(t)'
    <2>1. LockStep(t) => Plans(t)'
      BY <1>1, SnapshotPlans, TakingPlans DEF LockStep
    <2>2. CuckooStep(t) => Plans(t)'
      BY <1>1, SearchPlans, TracePlans, HopPlans, ElsewherePlans DEF CuckooStep
    <2>3. Invoke(t) \/ SimpleStep(t) \/ GrowStep(t) \/ TableStep(t) => Plans(t)'
      BY <1>1, ElsewherePlans
    <2> QED
      BY <2>1, <2>2, <2>3 DEF Step
  <1> QED
    BY <1>2, <1>3, <1>4 DEF PlanInv

-----------------------------------------------------------------------------
(* How far the lock arrays reach.  The last array covers every bucket of   *)
(* the table; arrays not made yet are nobody's; a thread in lock_all has   *)
(* every array from the one it began with; a thread that waits for a lock  *)
(* of an older array has read a hashpower of before, or a doubling that is *)
(* on its way has that array too.                                          *)

LEMMA LocksReach ==
  ASSUME NEW g \in LockArray, NEW hp \in 0 .. MaxHashpower, NEW b \in BucketsAt(hp),
         NumLocks(g) = MaxNumLocks \/ hp <= InitHashpower + g
  PROVE  lock_ind(b) \in LockInd(g)
  <1> DEFINE n == HashSize[InitHashpower + g]
  <1>1. /\ g \in Nat /\ InitHashpower + g \in 0 .. MaxHashpower
        /\ MaxNumLocks \in Nat \ {0}
    BY SizesAssumption DEF LockArray
  <1>2. HashSize[hp] \in Nat /\ b \in Nat /\ b < HashSize[hp] /\ b \in Bucket
    BY SizesGrow DEF BucketsAt
  <1>3. lock_ind(b) \in 0 .. MaxNumLocks - 1
    BY <1>2, LockIndType DEF AnyLockInd
  <1>4. CASE NumLocks(g) = MaxNumLocks
    BY <1>3, <1>4 DEF LockInd
  <1>5. CASE NumLocks(g) # MaxNumLocks
    <2>1. n < MaxNumLocks /\ NumLocks(g) = n
      BY <1>5 DEF NumLocks
    <2>2. HashSize[hp] <= n /\ n \in Nat
      BY <1>1, <1>5, SizesMonotone
    <2> HIDE DEF n
    <2>3. b \in 0 .. MaxNumLocks - 1 /\ b \in 0 .. n - 1
      BY <1>1, <1>2, <2>1, <2>2
    <2>4. lock_ind(b) = b
      BY <1>1, <2>3 DEF lock_ind
    <2> QED
      BY <2>1, <2>3, <2>4 DEF LockInd
  <1> QED
    BY <1>4, <1>5

Resizes(t) == pc[t] \in {"swap", "install"}
NobodyResizing == \A u \in Threads : ~ Resizes(u)

Covered(hp) == NumLocks(curLocks) = MaxNumLocks \/ InitHashpower + curLocks = hp

Grown ==
  /\ NobodyResizing => Covered(hashpower) /\ oldHashpower <= hashpower
  /\ \A u \in Threads : Resizes(u) =>
       /\ Covered(frame[u].hp + 1)
       /\ oldHashpower <= frame[u].hp /\ hashpower <= frame[u].hp

Unmade == \A x \in LockId : x[1] > curLocks => holder[x] = NoThread

Sweeps(t) ==
  /\ pc[t] = "lock_all" =>
       \A g \in frame[t].first .. frame[t].gen - 1 : AllTaken(t, g, LockInd(g))
  /\ Alone(t) => \A g \in frame[t].first .. curLocks : AllTaken(t, g, LockInd(g))
  /\ pc[t] = "lock_all" \/ Alone(t) => frame[t].first <= curLocks
  /\ Resizes(t) => InitHashpower + frame[t].first <= frame[t].hp

Behind(t) ==
  /\ NobodyResizing => frame[t].hp <= hashpower
  /\ \A u \in Threads : Resizes(u) => frame[t].hp <= frame[u].hp

Late(t) ==
  pc[t] = "lock_first" /\ frame[t].gen < curLocks =>
    /\ NobodyResizing => frame[t].hp < hashpower
    /\ \A u \in Threads : Resizes(u) =>
         \/ frame[t].hp < frame[u].hp
         \/ frame[t].hp = frame[u].hp /\ frame[u].first <= frame[t].gen

Wants(t) ==
  pc[t] \in {"lock_first", "lock_next"} => frame[t].want \subseteq LockInd(frame[t].gen)

Keeps(t) == Sweeps(t) /\ Behind(t) /\ Late(t) /\ Wants(t)

GrowInv == PlanInv /\ Grown /\ Unmade /\ \A t \in Threads : Keeps(t)

(* What is known of the numbers.                                           *)
LEMMA Numbers ==
  ASSUME TablesOK, ThreadsOK, NEW t \in Threads
  PROVE  /\ frame[t].hp \in 0 .. MaxHashpower /\ frame[t].hp \in Nat
         /\ frame[t].gen \in LockArray /\ frame[t].gen \in Nat
         /\ frame[t].first \in LockArray /\ frame[t].first \in Nat
         /\ frame[t].want \in SUBSET AnyLockInd
         /\ curLocks \in LockArray /\ curLocks \in Nat
         /\ hashpower \in 0 .. MaxHashpower /\ hashpower \in Nat
         /\ oldHashpower \in 0 .. MaxHashpower /\ oldHashpower \in Nat
         /\ InitHashpower \in Nat /\ MaxHashpower \in Nat
  <1>1. frame[t] \in Frame
    BY ThreadHere
  <1>2. /\ frame[t].hp \in 0 .. MaxHashpower /\ frame[t].gen \in LockArray
        /\ frame[t].first \in LockArray /\ frame[t].want \in SUBSET AnyLockInd
    BY <1>1 DEF Frame
  <1>3. /\ curLocks \in LockArray /\ hashpower \in 0 .. MaxHashpower
        /\ oldHashpower \in 0 .. MaxHashpower
    BY DEF TablesOK
  <1>4. LockArray \subseteq Nat /\ 0 .. MaxHashpower \subseteq Nat
    BY DEF LockArray
  <1> QED
    BY <1>2, <1>3, <1>4, SizesAssumption

LEMMA GrowInvParts ==
  ASSUME GrowInv
  PROVE  /\ IInv /\ PlanInv /\ TypeOK /\ TablesOK /\ ThreadsOK /\ ResizersHold
         /\ Grown /\ Unmade
         /\ \A u \in Threads : Plans(u) /\ Sweeps(u) /\ Behind(u) /\ Late(u) /\ Wants(u)
  BY TypeOKParts DEF GrowInv, PlanInv, IInv, Keeps

(* Every step but the three of a doubling.                                 *)
Ordinary(t) ==
  /\ Stays(t) /\ oldHashpower' = oldHashpower
  /\ pc[t] \notin {"swap", "install"} /\ pc'[t] \notin {"swap", "install"}
  /\ Take(t) \/ \A x \in LockId : holder'[x] \in {holder[x], NoThread}

LEMMA OrdinarySteps ==
  ASSUME IInv, NEW t \in Threads, Invoke(t) \/ Step(t), ~ strayed'
  PROVE  Ordinary(t) \/ GrowLocks(t) \/ GrowSwap(t) \/ GrowInstall(t)
  <1> SUFFICES ASSUME ~ (GrowLocks(t) \/ GrowSwap(t) \/ GrowInstall(t))
               PROVE  Ordinary(t)
    OBVIOUS
  <1>1. TablesOK /\ ThreadsOK /\ ResizersHold
    BY TypeOKParts DEF IInv
  <1>2. Stays(t)
    BY <1>1, StayingSteps
  <1> DEFINE Others == Labels \ {"swap", "install"}
             Same == oldHashpower' = oldHashpower
             Frees == Take(t) \/ \A x \in LockId : holder'[x] \in {holder[x], NoThread}
             Labelled == pc'[t] \in Others /\ pc[t] \in Others
  <1>3. /\ \A label \in Others : Goto(t, label) => pc'[t] \in Others
        /\ pc' = pc /\ pc[t] \in Others => Labelled
        /\ holder' = holder => Frees
        /\ Unlock(t) => Frees
    BY <1>1 DEF Goto, ThreadsOK, Unlock
  <1>4. /\ \A tag, val : Return(t, tag, val) => Frees /\ pc'[t] \in Others
        /\ UnlockAll(t) => Frees /\ pc'[t] \in Others
        /\ StartSearch(t) => Frees /\ pc'[t] \in Others
    BY <1>3 DEF Return, UnlockAll, StartSearch, lockVars, Labels
  <1>5. Invoke(t) => Same /\ Frees /\ Labelled
    <2>1. Invoke(t) => \E label \in Others : Goto(t, label)
      BY DEF Invoke, Labels
    <2>2. Invoke(t) => Same /\ holder' = holder /\ pc[t] \in Others
      BY DEF Invoke, tableVars, lockVars, Labels
    <2> HIDE DEF Others, Frees
    <2> QED
      BY <1>3, <2>1, <2>2
  <1>6. LockStep(t) => Same /\ Frees /\ Labelled
    <2>1. LockStep(t) => \E label \in Others : Goto(t, label)
      BY DEF LockStep, Snapshot, PickLocks, LockFirst, LockNext, TryAgain, Labels
    <2>2. LockStep(t) => Same /\ pc[t] \in Others
      BY DEF LockStep, Snapshot, PickLocks, LockFirst, LockNext, tableVars, Labels
    <2>3. LockStep(t) => holder' = holder \/ Take(t)
      BY DEF LockStep, Snapshot, PickLocks, LockFirst, LockNext, lockVars
    <2>4. Take(t) => Frees
      OBVIOUS
    <2> HIDE DEF Others, Frees
    <2> QED
      BY <1>3, <2>1, <2>2, <2>3, <2>4
  <1>7. SimpleStep(t) \/ HopBody(t) \/ LastHopBody(t) \/ PlaceBody(t)
          => Same /\ Frees /\ Labelled
    <2>1. ASSUME SimpleStep(t) \/ HopBody(t) \/ LastHopBody(t) \/ PlaceBody(t)
          PROVE  Same /\ Frees /\ Labelled
      <3>1. RehashFlags(Need(t)) /\ pc[t] \in Others
        BY <2>1 DEF SimpleStep, FindBody, EraseBody, InsertBody, HopBody, LastHopBody, PlaceBody,
                    InBody, Labels
      <3>2. Same
        BY <3>1 DEF RehashFlags
      <3>3. \/ \E tag, val : Return(t, tag, val)
            \/ StartSearch(t)
            \/ Unlock(t) /\ Goto(t, "pick")
        BY <2>1 DEF SimpleStep, FindBody, EraseBody, InsertBody, HopBody, LastHopBody, PlaceBody,
                    Upsert
      <3>4. "pick" \in Others
        BY DEF Labels
      <3> HIDE DEF Others, Frees
      <3> QED
        BY <1>3, <1>4, <3>1, <3>2, <3>3, <3>4
    <2> QED
      BY <2>1
  <1>8. Search(t) \/ Trace(t) \/ StartGrow(t) \/ LockAll(t) => Same /\ Frees /\ Labelled
    <2>1. ASSUME Search(t) \/ Trace(t) \/ StartGrow(t) \/ LockAll(t)
          PROVE  Same /\ Frees /\ Labelled
      <3>1. (\E label \in Others : Goto(t, label)) \/ pc' = pc
        BY <2>1 DEF Search, Trace, StartGrow, LockAll, Labels
      <3>2. Same /\ pc[t] \in Others
        BY <2>1 DEF Search, Trace, RehashFlags, StartGrow, LockAll, tableVars, Labels
      <3>3. holder' = holder \/ Take(t)
        BY <2>1 DEF Search, Trace, StartGrow, LockAll, lockVars
      <3>4. Take(t) => Frees
        OBVIOUS
      <3> HIDE DEF Others, Frees
      <3> QED
        BY <1>3, <3>1, <3>2, <3>3, <3>4
    <2> QED
      BY <2>1
  <1>9. ClearBody(t) \/ DumpBody(t) \/ GrowThrows(t) \/ GrowTooLate(t)
          => Same /\ Frees /\ Labelled
    <2>1. ASSUME ClearBody(t) \/ DumpBody(t) \/ GrowThrows(t) \/ GrowTooLate(t)
          PROVE  Same /\ Frees /\ Labelled
      <3>1. UnlockAll(t)
        BY <2>1 DEF ClearBody, DumpBody, GrowThrows, GrowTooLate, ReturnAll
      <3>2. Same /\ pc[t] \in Others
        BY <2>1 DEF ClearBody, DumpBody, RehashAll, GrowThrows, GrowTooLate, Exclusive,
                    tableVars, Labels
      <3> QED
        BY <1>4, <3>1, <3>2
    <2> QED
      BY <2>1
  <1>10. Scan(t) => Same /\ Frees /\ Labelled
    <2>1. ASSUME Scan(t)
          PROVE  Same /\ Frees /\ Labelled
      <3>1. Goto(t, "idle") \/ pc' = pc
        BY <2>1 DEF Scan
      <3>2. Same /\ pc[t] \in Others /\ holder' = holder /\ "idle" \in Others
        BY <2>1 DEF Scan, tableVars, lockVars, Labels
      <3> HIDE DEF Others, Frees
      <3> QED
        BY <1>3, <3>1, <3>2
    <2> QED
      BY <2>1
  <1>11. UnlockNext(t) => Same /\ Frees /\ Labelled
    <2>1. ASSUME UnlockNext(t)
          PROVE  Same /\ Frees /\ Labelled
      <3>1. Goto(t, "idle") \/ Goto(t, "snapshot") \/ pc' = pc
        BY <2>1 DEF UnlockNext
      <3>2. Same /\ pc[t] \in Others /\ "idle" \in Others /\ "snapshot" \in Others
        BY <2>1 DEF UnlockNext, tableVars, Labels
      <3>3. holder' = holder \/ \E y : holder' = [holder EXCEPT ![y] = NoThread]
        BY <2>1 DEF UnlockNext
      <3>4. Frees
        BY <1>1, <3>3 DEF TablesOK
      <3> HIDE DEF Others, Frees
      <3> QED
        BY <1>3, <3>1, <3>2, <3>4
    <2> QED
      BY <2>1
  <1>12. Same /\ Frees /\ Labelled
    <2> HIDE DEF Same, Frees, Labelled
    <2> QED
      BY <1>5, <1>6, <1>7, <1>8, <1>9, <1>10, <1>11
      DEF Step, CuckooStep, GrowStep, TableStep
  <1> QED
    BY <1>2, <1>12 DEF Ordinary

LEMMA SameResizers ==
  ASSUME NEW t \in Threads, Ordinary(t)
  PROVE  /\ \A u \in Threads : Resizes(u)' <=> Resizes(u)
         /\ \A u \in Threads : Resizes(u) => u # t /\ frame'[u] = frame[u]
         /\ NobodyResizing' <=> NobodyResizing
         /\ curLocks' = curLocks /\ hashpower' = hashpower /\ oldHashpower' = oldHashpower
  <1>1. \A u \in Threads : Resizes(u)' <=> Resizes(u)
    BY DEF Ordinary, Stays, OthersStay, Resizes
  <1>2. \A u \in Threads : Resizes(u) => u # t /\ frame'[u] = frame[u]
    BY DEF Ordinary, Stays, OthersStay, Resizes
  <1> QED
    BY <1>1, <1>2 DEF NobodyResizing, Ordinary, Stays

LEMMA OrdinaryTable ==
  ASSUME GrowInv, NEW t \in Threads, Ordinary(t)
  PROVE  Grown' /\ Unmade'
  <1>1. Grown'
    <2>1. \A hp : Covered(hp)' <=> Covered(hp)
      BY SameResizers DEF Covered
    <2>2. NobodyResizing' => Covered(hashpower)' /\ oldHashpower' <= hashpower'
      BY <2>1, SameResizers, GrowInvParts DEF Grown
    <2>3. ASSUME NEW u \in Threads, Resizes(u)'
          PROVE  /\ Covered(frame[u].hp + 1)'
                 /\ oldHashpower' <= frame'[u].hp /\ hashpower' <= frame'[u].hp
      BY <2>1, <2>3, SameResizers, GrowInvParts DEF Grown, Covered
    <2> QED
      BY <2>2, <2>3 DEF Grown
  <1>2. Unmade'
    <2>1. CASE \A x \in LockId : holder'[x] \in {holder[x], NoThread}
      BY <2>1, SameResizers, GrowInvParts DEF Unmade
    <2>3. CASE Take(t)
      <3>1. ~ (frame[t].gen > curLocks)
        <4>1. frame[t].gen <= curLocks
          BY GrowInvParts DEF ResizersHold
        <4>2. frame[t].gen \in Nat /\ curLocks \in Nat
          BY GrowInvParts, Numbers
        <4> QED
          BY <4>1, <4>2
      <3> DEFINE y == <<frame[t].gen, Min(frame[t].want)>>
      <3>2. holder' = [holder EXCEPT ![y] = t] /\ y[1] = frame[t].gen
        BY <2>3 DEF Take
      <3> HIDE DEF y
      <3>3. ASSUME NEW x \in LockId, x[1] > curLocks
            PROVE  holder'[x] = NoThread
        <4>1. x # y
          BY <3>1, <3>2, <3>3
        <4>2. holder'[x] = holder[x]
          BY <3>2, <4>1, GrowInvParts DEF TablesOK
        <4> QED
          BY <3>3, <4>2, GrowInvParts DEF Unmade
      <3> QED
        BY <3>3, SameResizers DEF Unmade
    <2> QED
      BY <2>1, <2>3 DEF Ordinary
  <1> QED
    BY <1>1, <1>2

LEMMA OrdinaryOthers ==
  ASSUME GrowInv, NEW t \in Threads, Ordinary(t), NEW u \in Threads \ {t}
  PROVE  Keeps(u)'
  <1>1. /\ pc'[u] = pc[u] /\ frame'[u] = frame[u]
        /\ \A x \in LockId : holder[x] = u => holder'[x] = u
        /\ curLocks' = curLocks /\ hashpower' = hashpower
    BY DEF Ordinary, Stays, OthersStay
  <1>2. /\ frame[u].first \in LockArray /\ frame[u].gen \in LockArray /\ curLocks \in LockArray
        /\ frame[u].gen <= curLocks
    BY GrowInvParts, Numbers DEF ResizersHold
  <1>3. ASSUME NEW g \in LockArray, AllTaken(u, g, LockInd(g))
        PROVE  \A l \in LockInd(g) : holder'[<<g, l>>] = u
    BY <1>1, <1>3, LocksOfArray DEF AllTaken
  <1>4. \A g \in frame[u].first .. curLocks : g \in LockArray /\ g <= curLocks
    BY <1>2, SizesAssumption DEF LockArray
  <1>5. \A g \in frame[u].first .. frame[u].gen - 1 : g \in LockArray
    BY <1>2, SizesAssumption DEF LockArray
  <1>6. Sweeps(u)'
    <2>1. Sweeps(u)
      BY GrowInvParts
    <2>2. pc[u] = "lock_all" =>
            \A g \in frame[u].first .. frame[u].gen - 1 : \A l \in LockInd(g) : holder'[<<g, l>>] = u
      BY <2>1, <1>3, <1>5 DEF Sweeps
    <2>3. Alone(u) =>
            \A g \in frame[u].first .. curLocks : \A l \in LockInd(g) : holder'[<<g, l>>] = u
      BY <2>1, <1>3, <1>4 DEF Sweeps
    <2> QED
      BY <2>1, <2>2, <2>3, <1>1 DEF Sweeps, AllTaken, Alone, Resizes
  <1>7. Behind(u)' /\ Late(u)'
    BY <1>1, SameResizers, GrowInvParts DEF Behind, Late
  <1>8. Wants(u)'
    BY <1>1, GrowInvParts DEF Wants
  <1> QED
    BY <1>6, <1>7, <1>8 DEF Keeps

(* The thread that makes the step.                                         *)
LEMMA BehindStays ==
  ASSUME GrowInv, NEW t \in Threads, Ordinary(t),
         frame'[t].hp \in {frame[t].hp, hashpower, 0}
  PROVE  Behind(t)'
  <1>1. \A u \in Threads : frame[u].hp \in Nat /\ hashpower \in Nat
    BY GrowInvParts, Numbers
  <1>2. NobodyResizing => frame'[t].hp <= hashpower
    BY <1>1, GrowInvParts DEF Behind
  <1>3. \A u \in Threads : Resizes(u) => frame'[t].hp <= frame[u].hp
    BY <1>1, GrowInvParts DEF Behind, Grown
  <1> QED
    BY <1>2, <1>3, SameResizers DEF Behind

LEMMA QuietKeeps ==
  ASSUME GrowInv, NEW t \in Threads, Ordinary(t),
         frame'[t].hp \in {frame[t].hp, hashpower, 0},
         pc'[t] \notin {"lock_all", "exclusive", "lock_first", "lock_next"}
  PROVE  Keeps(t)'
  <1>1. pc'[t] \notin {"swap", "install"}
    BY DEF Ordinary
  <1>2. Sweeps(t)' /\ Late(t)' /\ Wants(t)'
    BY <1>1 DEF Sweeps, Late, Wants, Alone, Resizes
  <1> QED
    BY <1>2, BehindStays DEF Keeps

LEMMA SnapshotKeeps ==
  ASSUME GrowInv, NEW t \in Threads, Ordinary(t), Snapshot(t) \/ PickLocks(t)
  PROVE  Keeps(t)'
  <1>0. ThreadsOK /\ TablesOK /\ Plans(t)
    BY GrowInvParts
  <1>1. CASE Snapshot(t)
    <2>1. pc'[t] = "pick"
      BY <1>0, <1>1 DEF Snapshot, Goto, ThreadsOK
    <2>2. frame'[t].hp = hashpower
      BY <1>0, <1>1, ThreadHere DEF Snapshot, ThreadsOK, Frame
    <2> QED
      BY <2>1, <2>2, QuietKeeps
  <1>2. CASE PickLocks(t)
    <2>1. pc'[t] = "lock_first" /\ pc[t] = "pick"
      BY <1>0, <1>2 DEF PickLocks, Goto, ThreadsOK
    <2>2. /\ frame'[t].hp = frame[t].hp /\ frame'[t].gen = curLocks
          /\ frame'[t].want = frame[t].want
      BY <1>0, <1>2, ThreadHere DEF PickLocks, ThreadsOK, Frame
    <2>3. frame[t].want = Need(t) /\ \A l \in Need(t) : \E b \in BucketsAt(frame[t].hp) : l = lock_ind(b)
      BY <1>0, <2>1, NeedInRange, GrowInvParts DEF ResizersHold, Owns
    <2>4. /\ curLocks \in LockArray /\ curLocks \in Nat /\ InitHashpower \in Nat
          /\ hashpower \in Nat /\ \A u \in Threads : frame[u].hp \in Nat
          /\ frame[t].hp \in 0 .. MaxHashpower
      BY <1>0, Numbers
    <2>5. NumLocks(curLocks) = MaxNumLocks \/ frame[t].hp <= InitHashpower + curLocks
      <3>1. CASE NobodyResizing
        BY <2>4, <3>1, GrowInvParts DEF Grown, Behind, Covered
      <3>2. CASE ~ NobodyResizing
        <4>1. PICK u \in Threads : Resizes(u)
          BY <3>2 DEF NobodyResizing
        <4> QED
          BY <2>4, <4>1, GrowInvParts DEF Grown, Behind, Covered
      <3> QED
        BY <3>1, <3>2
    <2>6. frame[t].want \subseteq LockInd(curLocks)
      BY <2>3, <2>4, <2>5, LocksReach
    <2>7. Wants(t)'
      BY <2>2, <2>6, SameResizers DEF Wants, LockInd, NumLocks
    <2>8. Late(t)' /\ Sweeps(t)'
      BY <2>1, <2>2, <2>4, SameResizers DEF Late, Sweeps, Alone, Resizes
    <2> QED
      BY <2>2, <2>7, <2>8, BehindStays DEF Keeps
  <1> QED
    BY <1>1, <1>2

LEMMA LockKeeps ==
  ASSUME GrowInv, NEW t \in Threads, Ordinary(t), LockFirst(t) \/ LockNext(t)
  PROVE  Keeps(t)'
  <1>0. ThreadsOK /\ TablesOK /\ Plans(t)
    BY GrowInvParts
  <1>1. CASE Take(t)
    <2>1. /\ frame'[t].hp = frame[t].hp /\ frame'[t].gen = frame[t].gen
          /\ frame'[t].want = frame[t].want \ {Min(frame[t].want)}
          /\ pc'[t] \in {"lock_next", "body", "snapshot"}
      BY <1>0, <1>1, TakingPlans
    <2>2. pc[t] \in {"lock_first", "lock_next"}
      BY DEF LockFirst, LockNext
    <2>3. Wants(t)'
      BY <2>1, <2>2, GrowInvParts DEF Wants
    <2>4. Late(t)' /\ Sweeps(t)'
      BY <2>1 DEF Late, Sweeps, Alone, Resizes
    <2> QED
      BY <2>1, <2>3, <2>4, BehindStays DEF Keeps
  <1>2. CASE ~ Take(t)
    <2>1. pc'[t] = "snapshot"
      BY <1>0, <1>2, TakingPlans
    <2>2. frame' = frame
      BY <1>2 DEF LockFirst, LockNext
    <2> QED
      BY <2>1, <2>2, QuietKeeps
  <1> QED
    BY <1>1, <1>2

(* lock_all begins, with the array that is last then.                      *)
LEMMA SweepBegins ==
  ASSUME GrowInv, NEW t \in Threads, Ordinary(t), pc'[t] = "lock_all",
         frame'[t].hp = frame[t].hp, frame'[t].gen = curLocks, frame'[t].first = curLocks
  PROVE  Keeps(t)'
  <1>1. curLocks \in Nat
    BY GrowInvParts, Numbers
  <1>2. \A g \in curLocks .. curLocks - 1 : FALSE
    BY <1>1
  <1>3. Sweeps(t)'
    BY <1>1, <1>2, SameResizers DEF Sweeps, Alone, Resizes
  <1>4. Late(t)' /\ Wants(t)'
    BY DEF Late, Wants
  <1> QED
    BY <1>3, <1>4, BehindStays DEF Keeps

LEMMA InvokeKeeps ==
  ASSUME GrowInv, NEW t \in Threads, Ordinary(t), Invoke(t)
  PROVE  Keeps(t)'
  <1>0. ThreadsOK
    BY GrowInvParts
  <1>1. PICK o \in Workload[t] :
          /\ Goto(t, CASE o.kind = "size" -> "scan"
                       [] o.kind \in {"clear", "dump"} -> "lock_all"
                       [] OTHER -> "snapshot")
          /\ frame' = IF o.kind \in {"clear", "dump", "size"}
                      THEN [frame EXCEPT ![t].gen = curLocks, ![t].first = curLocks,
                                         ![t].want = LockInd(curLocks)]
                      ELSE frame
    BY DEF Invoke
  <1>2. CASE o.kind \in {"clear", "dump"}
    <2>1. pc'[t] = "lock_all"
      BY <1>0, <1>1, <1>2 DEF Goto, ThreadsOK
    <2>2. frame' = [frame EXCEPT ![t].gen = curLocks, ![t].first = curLocks,
                                 ![t].want = LockInd(curLocks)]
      BY <1>1, <1>2
    <2>3. frame'[t].hp = frame[t].hp /\ frame'[t].gen = curLocks /\ frame'[t].first = curLocks
      BY <1>0, <2>2, ThreadHere DEF ThreadsOK, Frame
    <2> QED
      BY <2>1, <2>3, SweepBegins
  <1>3. CASE o.kind = "size"
    <2>1. pc'[t] = "scan"
      BY <1>0, <1>1, <1>3 DEF Goto, ThreadsOK
    <2>2. frame' = [frame EXCEPT ![t].gen = curLocks, ![t].first = curLocks,
                                 ![t].want = LockInd(curLocks)]
      BY <1>1, <1>3
    <2>3. frame'[t].hp = frame[t].hp
      BY <1>0, <2>2, ThreadHere DEF ThreadsOK, Frame
    <2> QED
      BY <2>1, <2>3, QuietKeeps
  <1>4. CASE o.kind \notin {"clear", "dump", "size"}
    <2>1. Goto(t, "snapshot") /\ frame' = frame
      BY <1>1, <1>4
    <2>2. pc'[t] = "snapshot"
      BY <1>0, <2>1 DEF Goto, ThreadsOK
    <2> QED
      BY <2>1, <2>2, QuietKeeps
  <1> QED
    BY <1>2, <1>3, <1>4

LEMMA StartGrowKeeps ==
  ASSUME GrowInv, NEW t \in Threads, Ordinary(t), StartGrow(t)
  PROVE  Keeps(t)'
  <1>0. ThreadsOK
    BY GrowInvParts
  <1>1. pc'[t] = "lock_all"
    BY <1>0 DEF StartGrow, Goto, ThreadsOK
  <1>2. frame'[t].hp = frame[t].hp /\ frame'[t].gen = curLocks /\ frame'[t].first = curLocks
    BY <1>0, ThreadHere DEF StartGrow, ThreadsOK, Frame
  <1> QED
    BY <1>1, <1>2, SweepBegins

LEMMA LockAllKeeps ==
  ASSUME GrowInv, NEW t \in Threads, Ordinary(t), LockAll(t)
  PROVE  Keeps(t)'
  <1>0. TablesOK /\ ThreadsOK /\ pc[t] = "lock_all"
    BY GrowInvParts DEF LockAll
  <1> DEFINE first == frame[t].first
             gen == frame[t].gen
  <1>1. /\ first \in LockArray /\ first \in Nat /\ gen \in LockArray /\ gen \in Nat
        /\ curLocks \in LockArray /\ curLocks \in Nat
        /\ gen <= curLocks /\ first <= curLocks
    BY <1>0, Numbers, GrowInvParts DEF ResizersHold, Sweeps
  <1>2. /\ \A g \in first .. gen - 1 : \A l \in LockInd(g) : holder[<<g, l>>] = t
        /\ \A l \in LockInd(gen) \ frame[t].want : holder[<<gen, l>>] = t
    BY <1>0, GrowInvParts DEF Sweeps, ResizersHold, AllTaken
  <1>3. /\ curLocks' = curLocks
        /\ pc'[t] \in {"lock_all", "exclusive"} => Late(t)' /\ Wants(t)'
    BY SameResizers DEF Late, Wants
  <1> HIDE DEF first, gen
  <1>4. CASE frame[t].want # {}
    <2>1. Take(t) /\ pc' = pc
      BY <1>4 DEF LockAll
    <2>2. frame'[t].hp = frame[t].hp /\ frame'[t].gen = gen /\ frame'[t].first = first
      BY <1>0, <2>1, ThreadHere DEF Take, ThreadsOK, Frame, gen, first
    <2>3. \A x \in LockId : holder[x] = t => holder'[x] = t
      BY <1>0, <2>1, TakeKeeps
    <2>4. \A g \in first .. gen - 1 : \A l \in LockInd(g) : <<g, l>> \in LockId
      <3>1. \A g \in first .. gen - 1 : g \in LockArray
        BY <1>1, SizesAssumption DEF LockArray
      <3> QED
        BY <3>1, LocksOfArray
    <2>5. Sweeps(t)'
      BY <1>0, <1>1, <1>2, <1>3, <2>1, <2>2, <2>3, <2>4 DEF Sweeps, AllTaken, Alone, Resizes
    <2> QED
      BY <1>0, <1>3, <2>1, <2>2, <2>5, BehindStays DEF Keeps
  <1>5. CASE frame[t].want = {} /\ Appended(t)
    <2>1. /\ frame' = [frame EXCEPT ![t].gen = @ + 1, ![t].want = LockInd(frame[t].gen + 1)]
          /\ pc' = pc /\ holder' = holder
      BY <1>5 DEF LockAll
    <2>2. frame'[t].hp = frame[t].hp /\ frame'[t].gen = gen + 1 /\ frame'[t].first = first
      BY <1>0, <2>1, ThreadHere DEF ThreadsOK, Frame, gen, first
    <2>3. \A g \in first .. gen + 1 - 1 : g = gen \/ g \in first .. gen - 1
      BY <1>1
    <2>4. \A g \in first .. gen + 1 - 1 : \A l \in LockInd(g) : holder[<<g, l>>] = t
      BY <1>2, <1>5, <2>3
    <2>5. Sweeps(t)'
      BY <1>0, <1>1, <1>3, <2>1, <2>2, <2>4 DEF Sweeps, AllTaken, Alone, Resizes
    <2> QED
      BY <1>0, <1>3, <2>1, <2>2, <2>5, BehindStays DEF Keeps
  <1>6. CASE frame[t].want = {} /\ ~ Appended(t)
    <2>1. Goto(t, "exclusive") /\ holder' = holder /\ frame' = frame
      BY <1>6 DEF LockAll
    <2>2. pc'[t] = "exclusive"
      BY <1>0, <2>1 DEF Goto, ThreadsOK
    <2>3. gen = curLocks
      BY <1>1, <1>6 DEF Appended, gen
    <2>4. \A g \in first .. curLocks : g = gen \/ g \in first .. gen - 1
      BY <1>1, <2>3
    <2>5. \A g \in first .. curLocks : \A l \in LockInd(g) : holder[<<g, l>>] = t
      BY <1>2, <1>6, <2>4
    <2>6. Sweeps(t)'
      BY <1>1, <1>3, <2>1, <2>2, <2>5 DEF Sweeps, AllTaken, Resizes, first
    <2>7. frame'[t].hp = frame[t].hp
      BY <2>1
    <2> QED
      BY <1>3, <2>2, <2>6, <2>7, BehindStays DEF Keeps
  <1> QED
    BY <1>4, <1>5, <1>6

LEMMA OtherSteps ==
  ASSUME TablesOK, ThreadsOK, NEW t \in Threads,
         \/ SimpleStep(t) \/ HopBody(t) \/ LastHopBody(t) \/ PlaceBody(t) \/ Search(t) \/ Trace(t)
         \/ GrowThrows(t) \/ GrowTooLate(t) \/ ClearBody(t) \/ DumpBody(t) \/ Scan(t)
         \/ UnlockNext(t)
  PROVE  /\ frame'[t].hp \in {frame[t].hp, 0}
         /\ pc'[t] \notin {"lock_all", "exclusive", "lock_first", "lock_next"}
  <1> DEFINE Quiet == /\ frame'[t].hp \in {frame[t].hp, 0}
                      /\ pc'[t] \notin {"lock_all", "exclusive", "lock_first", "lock_next"}
  <1>1. (\E tag, val : Return(t, tag, val)) => Quiet
    BY DEF Return, Goto, ThreadsOK, NoFrame
  <1>2. StartSearch(t) => Quiet
    BY ThreadHere DEF StartSearch, Goto, ThreadsOK, Frame
  <1>3. UnlockAll(t) => Quiet
    BY UnlockAllHere
  <1>4. Scan(t) => Quiet
    <2>1. ASSUME Scan(t), frame[t].want # {}
          PROVE  Quiet
      <3>1. frame'[t].hp = frame[t].hp
        BY <2>1, ThreadHere DEF Scan, ThreadsOK, Frame
      <3> QED
        BY <2>1, <3>1 DEF Scan
    <2>2. ASSUME Scan(t), frame[t].want = {}
          PROVE  Quiet
      BY <2>2 DEF Scan, Goto, ThreadsOK, NoFrame
    <2> QED
      BY <2>1, <2>2
  <1>9. UnlockNext(t) => Quiet
    <2>1. ASSUME UnlockNext(t)
          PROVE  Quiet
      <3>1. CASE /\ frame[t].want = {} /\ ~ MoreToUnlock(t)
        BY <2>1, <3>1 DEF UnlockNext, Goto, ThreadsOK, NoFrame
      <3>2. CASE ~ (frame[t].want = {} /\ ~ MoreToUnlock(t))
        <4>1. frame'[t].hp = frame[t].hp
          BY <2>1, <3>2, ThreadHere DEF UnlockNext, ThreadsOK, Frame
        <4> QED
          BY <2>1, <3>2, <4>1 DEF UnlockNext
      <3> QED
        BY <3>1, <3>2
    <2> QED
      BY <2>1
  <1>5. HopBody(t) /\ ~ StartSearch(t) => Quiet
    <2>1. ASSUME HopBody(t), ~ StartSearch(t)
          PROVE  Quiet
      <3>1. Goto(t, "pick")
        BY <2>1 DEF HopBody
      <3>2. frame'[t].hp = frame[t].hp
        BY <2>1, ThreadHere DEF HopBody, ThreadsOK, Frame
      <3> QED
        BY <3>1, <3>2 DEF Goto, ThreadsOK
    <2> QED
      BY <2>1
  <1>6. Search(t) \/ Trace(t) => Quiet
    <2>1. ASSUME Search(t) \/ Trace(t)
          PROVE  Quiet
      <3>1. \E label \in {"snapshot", "search", "trace", "grow", "pick"} : Goto(t, label)
        BY <2>1 DEF Search, Trace
      <3>2. frame'[t].hp = frame[t].hp
        <4>1. CASE frame' = frame
          BY <4>1
        <4>2. CASE \E q : frame' = [frame EXCEPT ![t].queue = q]
          BY <4>2, ThreadHere DEF ThreadsOK, Frame
        <4>3. CASE \E p : frame' = [frame EXCEPT ![t].path = p]
          BY <4>3, ThreadHere DEF ThreadsOK, Frame
        <4>4. CASE \E p : frame' = [frame EXCEPT ![t].queue = << >>, ![t].path = p,
                                                 ![t].stage = PathStage(p),
                                                 ![t].want = PathLocks(t, p)]
          BY <4>4, ThreadHere DEF ThreadsOK, Frame
        <4>5. Search(t) => frame' = frame \/ \E q : frame' = [frame EXCEPT ![t].queue = q]
          BY DEF Search
        <4>6. Trace(t) => \/ frame' = frame
                          \/ \E p : frame' = [frame EXCEPT ![t].path = p]
                          \/ \E p : frame' = [frame EXCEPT ![t].queue = << >>, ![t].path = p,
                                                           ![t].stage = PathStage(p),
                                                           ![t].want = PathLocks(t, p)]
          BY DEF Trace
        <4> QED
          BY <2>1, <4>1, <4>2, <4>3, <4>4, <4>5, <4>6
      <3> QED
        BY <3>1, <3>2 DEF Goto, ThreadsOK
    <2> QED
      BY <2>1
  <1>7. SimpleStep(t) \/ LastHopBody(t) \/ PlaceBody(t)
          => (\E tag, val : Return(t, tag, val)) \/ StartSearch(t)
    BY DEF SimpleStep, FindBody, EraseBody, InsertBody, LastHopBody, PlaceBody, Upsert
  <1>8. GrowThrows(t) \/ GrowTooLate(t) \/ ClearBody(t) \/ DumpBody(t) => UnlockAll(t)
    BY DEF GrowThrows, GrowTooLate, ClearBody, DumpBody, ReturnAll
  <1> QED
    BY <1>1, <1>2, <1>3, <1>4, <1>5, <1>6, <1>7, <1>8, <1>9

LEMMA OrdinaryGrowInv ==
  ASSUME GrowInv, NEW t \in Threads, Ordinary(t), Invoke(t) \/ Step(t)
  PROVE  Grown' /\ Unmade' /\ \A u \in Threads : Keeps(u)'
  <1>0. TablesOK /\ ThreadsOK
    BY GrowInvParts
  <1>1. Keeps(t)'
    <2>1. CASE \/ SimpleStep(t) \/ HopBody(t) \/ LastHopBody(t) \/ PlaceBody(t) \/ Search(t) \/ Trace(t)
               \/ GrowThrows(t) \/ GrowTooLate(t) \/ ClearBody(t) \/ DumpBody(t) \/ Scan(t)
               \/ UnlockNext(t)
      <3>1. /\ frame'[t].hp \in {frame[t].hp, 0}
            /\ pc'[t] \notin {"lock_all", "exclusive", "lock_first", "lock_next"}
        BY <1>0, <2>1, OtherSteps
      <3> QED
        BY <3>1, QuietKeeps
    <2>2. ~ (GrowLocks(t) \/ GrowSwap(t) \/ GrowInstall(t))
      <3>1. pc[t] \notin {"swap", "install"} /\ pc'[t] \notin {"swap", "install"}
        BY DEF Ordinary
      <3> QED
        BY <1>0, <3>1 DEF GrowLocks, GrowSwap, GrowInstall, Goto, ThreadsOK
    <2> QED
      BY <2>1, <2>2, SnapshotKeeps, LockKeeps, InvokeKeeps, StartGrowKeeps, LockAllKeeps
      DEF Step, LockStep, CuckooStep, GrowStep, TableStep
  <1> QED
    BY <1>1, OrdinaryTable, OrdinaryOthers

(* The three steps of a doubling, which one thread at a time can make.     *)
LEMMA GrowLocksKeeps ==
  ASSUME GrowInv, NEW t \in Threads, GrowLocks(t)
  PROVE  Grown' /\ Unmade' /\ \A u \in Threads : Keeps(u)'
  <1>0. TablesOK /\ ThreadsOK /\ ResizersHold
    BY GrowInvParts
  <1>1. /\ pc[t] = "exclusive" /\ hashpower = frame[t].hp /\ hashpower' = hashpower
        /\ oldHashpower' = oldHashpower /\ Goto(t, "swap") /\ frame' = frame
    BY DEF GrowLocks, Exclusive, RehashAll
  <1>2. NobodyResizing
    BY <1>0, <1>1, NobodyResizes DEF Alone, NobodyResizing, Resizes
  <1>3. \A u \in Threads \ {t} : ~ Alone(u)
    BY <1>0, <1>1, NobodyElseAlone DEF Alone
  <1>4. pc'[t] = "swap" /\ \A u \in Threads \ {t} : pc'[u] = pc[u]
    BY <1>0, <1>1 DEF Goto, ThreadsOK
  <1>5. Resizes(t)' /\ \A u \in Threads : Resizes(u)' => u = t
    BY <1>2, <1>4 DEF Resizes, NobodyResizing
  <1>6. \A u \in Threads : /\ frame[u].hp \in Nat /\ frame[u].gen \in Nat /\ frame[u].first \in Nat
                           /\ frame[u].first \in LockArray /\ frame[u].gen \in LockArray
                           /\ frame[u].gen <= curLocks
    BY <1>0, Numbers DEF ResizersHold
  <1>7. /\ curLocks \in Nat /\ hashpower \in Nat /\ oldHashpower \in Nat /\ InitHashpower \in Nat
        /\ curLocks \in LockArray /\ NumLocks(curLocks) \in 1 .. MaxNumLocks
        /\ MaxNumLocks \in Nat
    BY <1>0, Numbers, LocksOfArray, SizesAssumption
  <1>8. Covered(hashpower) /\ oldHashpower <= hashpower
    BY <1>2, GrowInvParts DEF Grown
  <1>9. \/ NumLocks(curLocks) = MaxNumLocks /\ UNCHANGED <<curLocks, holder>>
        \/ /\ InitHashpower + curLocks = hashpower /\ curLocks' = curLocks + 1
           /\ holder' = [x \in LockId |-> IF x[1] = curLocks + 1 THEN t ELSE holder[x]]
    <2>1. CASE NumLocks(curLocks) = MaxNumLocks
      BY <1>7, <2>1 DEF GrowLocks
    <2>2. CASE NumLocks(curLocks) # MaxNumLocks
      <3>1. InitHashpower + curLocks = hashpower /\ NumLocks(curLocks) < MaxNumLocks
        BY <1>7, <1>8, <2>2 DEF Covered
      <3>2. NumLocks(curLocks) = HashSize[hashpower]
        BY <3>1, <2>2 DEF NumLocks
      <3>3. NumLocks(curLocks) < HashSize[frame[t].hp + 1]
        <4>1. hashpower \in 0 .. MaxHashpower - 1
          <5>1. frame[t].hp + 1 <= MaxHashpower
            BY DEF GrowLocks, MayDouble
          <5> QED
            BY <1>1, <1>7, <5>1, SizesAssumption
        <4>2. HashSize[hashpower + 1] = 2 * HashSize[hashpower] /\ HashSize[hashpower] \in Nat \ {0}
          BY <4>1, SizesAssumption
        <4> QED
          BY <1>1, <3>2, <4>2
      <3> QED
        BY <3>1, <3>3 DEF GrowLocks
    <2> QED
      BY <2>1, <2>2
  <1>10. curLocks' \in Nat /\ curLocks <= curLocks'
    BY <1>7, <1>9
  <1>11. \A x \in LockId : x[1] # curLocks + 1 \/ curLocks' = curLocks => holder'[x] = holder[x]
    BY <1>7, <1>9
  <1>12. Grown'
    <2>1. \/ NumLocks(curLocks') = MaxNumLocks
          \/ InitHashpower + curLocks' = frame[t].hp + 1
      BY <1>1, <1>7, <1>9
    <2>2. Covered(frame[t].hp + 1)'
      BY <1>1, <2>1 DEF Covered, NumLocks
    <2>3. oldHashpower' <= frame'[t].hp /\ hashpower' <= frame'[t].hp
      BY <1>1, <1>7, <1>8
    <2> QED
      BY <1>5, <2>2, <2>3 DEF Grown, NobodyResizing
  <1>13. Unmade'
    <2>1. \A x \in LockId : x[1] \in LockArray
      BY DEF LockId
    <2>2. \A x \in LockId : x[1] > curLocks' => x[1] > curLocks /\ holder'[x] = holder[x]
      BY <1>7, <1>9, <2>1 DEF LockArray
    <2> QED
      BY <2>2, GrowInvParts DEF Unmade
  <1>14. Sweeps(t)'
    <2>1. /\ \A g \in frame[t].first .. curLocks : \A l \in LockInd(g) : holder[<<g, l>>] = t
          /\ frame[t].first <= curLocks
      BY <1>1, GrowInvParts DEF Sweeps, Alone, AllTaken
    <2>2. ASSUME NEW g \in frame[t].first .. curLocks', NEW l \in LockInd(g)
          PROVE  holder'[<<g, l>>] = t
      <3>1. g \in frame[t].first .. curLocks \/ (g = curLocks + 1 /\ curLocks' = curLocks + 1)
        BY <1>6, <1>7, <1>9, <2>2
      <3>2. g \in LockArray
        <4>1. curLocks' \in LockArray
          BY <1>0, <1>2, GrowLocksTypes DEF TablesOK, NobodyResizing, Resizes
        <4> QED
          BY <1>6, <1>10, <2>2, <4>1, SizesAssumption DEF LockArray
      <3>3. <<g, l>> \in LockId
        BY <2>2, <3>2, LocksOfArray
      <3>4. CASE g = curLocks + 1 /\ curLocks' = curLocks + 1
        BY <1>7, <1>9, <3>3, <3>4
      <3>5. CASE g \in frame[t].first .. curLocks
        <4>1. holder[<<g, l>>] = t /\ g # curLocks + 1
          BY <1>6, <1>7, <2>1, <2>2, <3>5
        <4> QED
          BY <1>11, <3>3, <4>1
      <3> QED
        BY <3>1, <3>4, <3>5
    <2>3. InitHashpower + frame[t].first <= frame[t].hp
      <3>1. InitHashpower + curLocks <= hashpower
        BY <1>0, <1>2 DEF ResizersHold, NobodyResizing, Resizes
      <3> QED
        BY <1>1, <1>6, <1>7, <2>1, <3>1
    <2>4. frame[t].first <= curLocks'
      BY <1>6, <1>7, <1>10, <2>1
    <2> QED
      BY <1>1, <1>4, <2>2, <2>3, <2>4 DEF Sweeps, AllTaken
  <1>15. ASSUME NEW u \in Threads \ {t}
         PROVE  Sweeps(u)'
    <2>1. pc[u] = "lock_all" =>
            /\ \A g \in frame[u].first .. frame[u].gen - 1 : \A l \in LockInd(g) : holder[<<g, l>>] = u
            /\ frame[u].first <= curLocks
      BY GrowInvParts DEF Sweeps, AllTaken
    <2>2. ASSUME NEW g \in frame[u].first .. frame[u].gen - 1, NEW l \in LockInd(g)
          PROVE  holder'[<<g, l>>] = holder[<<g, l>>]
      <3>1. /\ frame[u].first \in Nat /\ frame[u].gen \in Nat /\ frame[u].gen <= curLocks
            /\ curLocks \in LockArray
        BY <1>6, <1>7
      <3>2. g \in Nat /\ g < curLocks
        BY <1>7, <3>1
      <3>3. g \in LockArray /\ g # curLocks + 1
        BY <3>1, <3>2, SizesAssumption DEF LockArray
      <3> QED
        BY <1>11, <2>2, <3>3, LocksOfArray
    <2>3. pc[u] = "lock_all" => frame[u].first <= curLocks'
      BY <1>6, <1>7, <1>10, <2>1
    <2>4. ~ Alone(u)' /\ pc'[u] = pc[u] /\ ~ Resizes(u)' /\ pc'[u] # "exclusive"
      BY <1>3, <1>4 DEF Alone, Resizes
    <2> QED
      BY <1>1, <2>1, <2>2, <2>3, <2>4 DEF Sweeps, AllTaken
  <1>16. ASSUME NEW u \in Threads
         PROVE  Behind(u)' /\ Late(u)' /\ Wants(u)'
    <2>1. frame[u].hp <= frame[t].hp
      BY <1>1, <1>2, GrowInvParts DEF Behind
    <2>2. Behind(u)'
      BY <1>1, <1>5, <2>1 DEF Behind, NobodyResizing
    <2>3. pc'[u] = "lock_first" /\ frame[u].gen < curLocks' =>
            \/ frame[u].hp < frame[t].hp
            \/ frame[u].hp = frame[t].hp /\ frame[t].first <= frame[u].gen
      <3>1. SUFFICES ASSUME pc'[u] = "lock_first", frame[u].gen < curLocks'
                     PROVE  \/ frame[u].hp < frame[t].hp
                            \/ frame[u].hp = frame[t].hp /\ frame[t].first <= frame[u].gen
        OBVIOUS
      <3>2. pc[u] = "lock_first"
        BY <1>4, <3>1
      <3>3. CASE frame[u].gen < curLocks
        BY <1>1, <1>2, <3>2, <3>3, GrowInvParts DEF Late
      <3>4. CASE ~ (frame[u].gen < curLocks)
        <4>1. frame[u].gen = curLocks
          BY <1>6, <1>7, <3>4
        <4>2. frame[t].first <= curLocks
          BY <1>1, GrowInvParts DEF Sweeps, Alone
        <4> QED
          BY <1>6, <2>1, <4>1, <4>2
      <3> QED
        BY <3>3, <3>4
    <2>4. Late(u)'
      BY <1>1, <1>5, <2>3 DEF Late, NobodyResizing
    <2>5. Wants(u)'
      BY <1>1, <1>4, GrowInvParts DEF Wants
    <2> QED
      BY <2>2, <2>4, <2>5
  <1> QED
    BY <1>12, <1>13, <1>14, <1>15, <1>16 DEF Keeps

LEMMA GrowSwapKeeps ==
  ASSUME GrowInv, NEW t \in Threads, GrowSwap(t)
  PROVE  Grown' /\ Unmade' /\ \A u \in Threads : Keeps(u)'
  <1>0. TablesOK /\ ThreadsOK /\ ResizersHold
    BY GrowInvParts
  <1>1. /\ pc[t] = "swap" /\ Goto(t, "install")
        /\ hashpower' = oldHashpower /\ oldHashpower' = hashpower
        /\ UNCHANGED <<curLocks, holder, frame>>
    BY DEF GrowSwap, lockVars
  <1>2. pc'[t] = "install" /\ \A u \in Threads \ {t} : pc'[u] = pc[u]
    BY <1>0, <1>1 DEF Goto, ThreadsOK
  <1>3. /\ \A u \in Threads : Resizes(u)' <=> Resizes(u)
        /\ \A u \in Threads : Alone(u)' <=> Alone(u)
        /\ ~ NobodyResizing /\ ~ NobodyResizing'
    BY <1>1, <1>2 DEF Resizes, Alone, NobodyResizing
  <1>4. Grown'
    BY <1>1, <1>3, GrowInvParts DEF Grown, Covered
  <1>5. Unmade'
    BY <1>1, GrowInvParts DEF Unmade
  <1>6. ASSUME NEW u \in Threads
        PROVE  Keeps(u)'
    <2>1. \A label \in {"lock_all", "exclusive", "lock_first", "lock_next"} :
            pc'[u] = label <=> pc[u] = label
      BY <1>1, <1>2
    <2>2. Sweeps(u)'
      BY <1>1, <1>3, <2>1, GrowInvParts DEF Sweeps, AllTaken
    <2>3. Behind(u)' /\ Late(u)' /\ Wants(u)'
      BY <1>1, <1>3, <2>1, GrowInvParts DEF Behind, Late, Wants
    <2> QED
      BY <2>2, <2>3 DEF Keeps
  <1> QED
    BY <1>4, <1>5, <1>6

LEMMA GrowInstallKeeps ==
  ASSUME GrowInv, NEW t \in Threads, GrowInstall(t)
  PROVE  Grown' /\ Unmade' /\ \A u \in Threads : Keeps(u)'
  <1>0. TablesOK /\ ThreadsOK /\ ResizersHold
    BY GrowInvParts
  <1>1. /\ pc[t] = "install" /\ UnlockAll(t)
        /\ hashpower' = frame[t].hp + 1 /\ UNCHANGED oldHashpower
    BY DEF GrowInstall
  <1>2. /\ pc'[t] = "unlock" /\ frame'[t].hp = 0
        /\ \A u \in Threads \ {t} : pc'[u] = pc[u] /\ frame'[u] = frame[u]
        /\ UNCHANGED <<curLocks, holder>>
    BY <1>0, <1>1, UnlockAllHere
  <1>3. \A u \in Threads \ {t} : ~ Alone(u)
    BY <1>0, <1>1, NobodyElseAlone DEF Alone
  <1>4. Resizes(t) /\ NobodyResizing' /\ \A u \in Threads : ~ Alone(u)' /\ ~ Resizes(u)'
    BY <1>1, <1>2, <1>3 DEF Resizes, NobodyResizing, Alone
  <1>5. /\ \A u \in Threads : /\ frame[u].hp \in Nat /\ frame[u].first \in LockArray
                              /\ frame[u].gen \in LockArray
        /\ oldHashpower \in Nat
    BY <1>0, Numbers
  <1>6. Grown'
    <2>1. Covered(frame[t].hp + 1) /\ oldHashpower <= frame[t].hp
      BY <1>4, GrowInvParts DEF Grown
    <2>2. Covered(hashpower)'
      BY <1>1, <1>2, <2>1 DEF Covered
    <2>3. oldHashpower' <= hashpower'
      BY <1>1, <1>5, <2>1
    <2> QED
      BY <1>4, <2>2, <2>3 DEF Grown
  <1>7. Unmade'
    BY <1>2, GrowInvParts DEF Unmade
  <1>8. ASSUME NEW u \in Threads
        PROVE  Keeps(u)'
    <2>1. frame[u].hp <= frame[t].hp
      BY <1>4, GrowInvParts DEF Behind
    <2>2. frame'[u].hp <= hashpower' /\ frame'[u].hp < hashpower'
      <3>1. frame'[u].hp = frame[u].hp \/ frame'[u].hp = 0
        BY <1>2
      <3> QED
        BY <1>1, <1>5, <2>1, <3>1
    <2>3. Behind(u)' /\ Late(u)'
      BY <1>4, <2>2 DEF Behind, Late
    <2>4. Wants(u)'
      BY <1>2, GrowInvParts DEF Wants
    <2>5. Sweeps(u)'
      <3>1. CASE u = t
        BY <1>2, <1>4, <3>1 DEF Sweeps
      <3>2. CASE u # t
        <4>1. pc[u] = "lock_all" =>
                /\ \A g \in frame[u].first .. frame[u].gen - 1 : AllTaken(u, g, LockInd(g))
                /\ frame[u].first <= curLocks
          BY GrowInvParts DEF Sweeps
        <4>2. pc'[u] = pc[u] /\ pc'[u] # "exclusive"
          BY <1>2, <1>3, <3>2 DEF Alone
        <4> QED
          BY <1>2, <1>4, <3>2, <4>1, <4>2 DEF Sweeps, AllTaken
      <3> QED
        BY <3>1, <3>2
    <2> QED
      BY <2>3, <2>4, <2>5 DEF Keeps
  <1> QED
    BY <1>6, <1>7, <1>8

LEMMA StepGrowInv ==
  ASSUME GrowInv, NEW t \in Threads, Invoke(t) \/ Step(t), ~ strayed'
  PROVE  GrowInv'
  <1>1. IInv /\ PlanInv
    BY GrowInvParts
  <1>2. PlanInv'
    BY <1>1, StepPlanInv
  <1>3. Grown' /\ Unmade' /\ \A u \in Threads : Keeps(u)'
    BY <1>1, OrdinarySteps, OrdinaryGrowInv, GrowLocksKeeps, GrowSwapKeeps, GrowInstallKeeps
  <1> QED
    BY <1>2, <1>3 DEF GrowInv

LEMMA PlansStill ==
  ASSUME UNCHANGED vars, NEW t \in Threads
  PROVE  Plans(t)' <=> Plans(t)
  BY DEF vars, Plans, Need, Follows, PathLocks, i1, i2

LEMMA NextGrowInv ==
  ASSUME GrowInv, [Next]_vars, ~ strayed'
  PROVE  GrowInv'
  <1>1. CASE UNCHANGED vars
    <2>1. UNCHANGED <<buckets, hashpower, oldBuckets, oldHashpower, curLocks, holder,
                      counter, migrated, remaining, pc, op, ans, frame, opsLeft>>
      BY <1>1 DEF vars
    <2>2. PlanInv'
      BY <1>1, PlansStill, NextIInv, GrowInvParts DEF PlanInv
    <2>3. Grown' /\ Unmade'
      BY <2>1, GrowInvParts DEF Grown, Unmade, Covered, NobodyResizing, Resizes
    <2>4. \A u \in Threads : Sweeps(u)'
      BY <2>1, GrowInvParts DEF Sweeps, AllTaken, Alone, Resizes
    <2>5. \A u \in Threads : Behind(u)' /\ Late(u)' /\ Wants(u)'
      BY <2>1, GrowInvParts DEF Behind, Late, Wants, NobodyResizing, Resizes
    <2> QED
      BY <2>2, <2>3, <2>4, <2>5 DEF GrowInv, Keeps
  <1>2. CASE \E t \in Threads : Invoke(t) \/ Step(t)
    BY <1>2, StepGrowInv
  <1> QED
    BY <1>1, <1>2 DEF Next, Finished

LEMMA InitGrowInv == Init => GrowInv
  <1> SUFFICES ASSUME Init PROVE GrowInv
    OBVIOUS
  <1>1. IInv
    BY InitIInv
  <1>2. /\ \A t \in Threads : pc[t] = "idle" /\ frame[t] = NoFrame
        /\ hashpower = InitHashpower /\ oldHashpower = 0 /\ curLocks = 0
        /\ holder = [x \in LockId |-> NoThread]
    BY DEF Init
  <1>3. PlanInv
    BY <1>1, <1>2 DEF PlanInv, Plans, OnTheWay
  <1>4. Grown /\ Unmade
    BY <1>2, SizesAssumption DEF Grown, Unmade, Covered, Resizes
  <1>5. \A t \in Threads : Keeps(t)
    BY <1>2, SizesAssumption DEF Keeps, Sweeps, Behind, Late, Wants, Alone, Resizes, NoFrame
  <1> QED
    BY <1>3, <1>4, <1>5 DEF GrowInv
-----------------------------------------------------------------------------
(* Mutual exclusion.  A thread at its buckets holds the locks it has taken,*)
(* of the last array, and one of them at least.  It gets there by its first*)
(* lock alone, so that is where a stale waiter would do harm.              *)
Works(t) ==
  AtWork(t) => /\ frame[t].gen = curLocks /\ frame[t].hp = hashpower
               /\ \E l \in LockInd(curLocks) : holder[<<curLocks, l>>] = t
               /\ \A l \in Need(t) \ frame[t].want : holder[<<curLocks, l>>] = t

LockInv == GrowInv /\ \A t \in Threads : Works(t)

LEMMA LockInvParts ==
  ASSUME LockInv
  PROVE  /\ GrowInv /\ IInv /\ PlanInv /\ TypeOK /\ TablesOK /\ ThreadsOK /\ ResizersHold
         /\ Grown /\ Unmade
         /\ \A u \in Threads : /\ Plans(u) /\ Sweeps(u) /\ Behind(u) /\ Late(u) /\ Wants(u)
                               /\ Works(u)
  BY GrowInvParts DEF LockInv

LEMMA WorksProtect ==
  ASSUME LockInv
  PROVE  LocksProtect
  <1>1. TablesOK /\ ResizersHold /\ \A u \in Threads : Works(u)
    BY LockInvParts
  <1>2. ASSUME NEW t \in Threads, Alone(t), NEW u \in Threads \ {t}
        PROVE  ~ AtWork(u) /\ ~ Alone(u)
    <2>1. ~ Alone(u)
      BY <1>1, <1>2, NobodyElseAlone
    <2>2. \A l \in LockInd(curLocks) : holder[<<curLocks, l>>] = t
      BY <1>1, <1>2 DEF ResizersHold, AllTaken
    <2>3. ~ AtWork(u)
      BY <1>1, <2>2 DEF Works
    <2> QED
      BY <2>1, <2>3
  <1> QED
    BY <1>1, <1>2 DEF LocksProtect, Works

(* Every lock a thread at work needs is one of the last array.             *)
LEMMA WorkInRange ==
  ASSUME LockInv, NEW t \in Threads, AtWork(t)
  PROVE  /\ NobodyResizing /\ Covered(hashpower)
         /\ frame[t].hp = hashpower /\ frame[t].gen = curLocks
         /\ Need(t) \subseteq LockInd(curLocks)
  <1>1. TablesOK /\ ThreadsOK /\ Plans(t) /\ LocksProtect
    BY LockInvParts, WorksProtect
  <1>2. NobodyResizing
    BY <1>1 DEF NobodyResizing, Resizes, LocksProtect, Alone, AtWork
  <1>3. Covered(hashpower) /\ frame[t].hp = hashpower /\ frame[t].gen = curLocks
    BY <1>2, LockInvParts DEF Grown, Works
  <1>4. pc[t] \in {"lock_next", "body"}
    BY DEF AtWork
  <1>5. pc[t] = "body" => Need(t) \subseteq LockInd(curLocks)
    <2>1. /\ \A l \in Need(t) : \E b \in BucketsAt(frame[t].hp) : l = lock_ind(b)
          /\ pc[t] \in {"lock_next", "body"}
      BY <1>1, <1>4, NeedInRange
    <2>2. /\ curLocks \in LockArray /\ hashpower \in 0 .. MaxHashpower
          /\ InitHashpower \in Nat /\ curLocks \in Nat /\ hashpower \in Nat
      BY <1>1, Numbers
    <2>3. NumLocks(curLocks) = MaxNumLocks \/ hashpower <= InitHashpower + curLocks
      BY <1>3, <2>2 DEF Covered
    <2> QED
      BY <1>3, <2>1, <2>2, <2>3, LocksReach
  <1>6. pc[t] = "lock_next" => Need(t) \subseteq LockInd(curLocks)
    <2>1. /\ \A l \in Need(t) : \E b \in BucketsAt(frame[t].hp) : l = lock_ind(b)
          /\ pc[t] \in {"lock_next", "body"}
      BY <1>1, <1>4, NeedInRange
    <2>2. /\ curLocks \in LockArray /\ hashpower \in 0 .. MaxHashpower
          /\ InitHashpower \in Nat /\ curLocks \in Nat /\ hashpower \in Nat
      BY <1>1, Numbers
    <2>3. NumLocks(curLocks) = MaxNumLocks \/ hashpower <= InitHashpower + curLocks
      BY <1>3, <2>2 DEF Covered
    <2> QED
      BY <1>3, <2>1, <2>2, <2>3, LocksReach
  <1> QED
    BY <1>2, <1>3, <1>4, <1>5, <1>6

(* Another thread's step takes nothing from one at work.                   *)
LEMMA OthersWork ==
  ASSUME LockInv, NEW t \in Threads, Invoke(t) \/ Step(t), ~ strayed',
         NEW u \in Threads \ {t}
  PROVE  Works(u)'
  <1>1. GrowInv /\ IInv /\ TablesOK /\ ThreadsOK /\ Plans(u) /\ Works(u) /\ LocksProtect
    BY LockInvParts, WorksProtect
  <1>2. /\ pc'[u] = pc[u] /\ frame'[u] = frame[u] /\ Need(u)' = Need(u)
    BY <1>1, StepsKeepToThemselves, OthersPlan
  <1>3. CASE ~ AtWork(u)
    BY <1>2, <1>3 DEF Works, AtWork
  <1>4. CASE AtWork(u)
    <2>1. ~ Alone(t)
      BY <1>1, <1>4 DEF LocksProtect
    <2>2. Ordinary(t)
      BY <1>1, <2>1, OrdinarySteps DEF Alone, GrowLocks, GrowSwap, GrowInstall, Exclusive
    <2>3. /\ curLocks' = curLocks /\ hashpower' = hashpower
          /\ \A x \in LockId : holder[x] = u => holder'[x] = u
      BY <2>2 DEF Ordinary, Stays, OthersStay
    <2>4. Need(u) \subseteq LockInd(curLocks) /\ curLocks \in LockArray
      BY <1>1, <1>4, WorkInRange, Numbers
    <2>5. \A l \in LockInd(curLocks) : <<curLocks, l>> \in LockId
      BY <2>4, LocksOfArray
    <2>6. \E l \in LockInd(curLocks) : holder'[<<curLocks, l>>] = u
      BY <1>1, <1>4, <2>3, <2>5 DEF Works
    <2>7. \A l \in Need(u) \ frame[u].want : holder'[<<curLocks, l>>] = u
      BY <1>1, <1>4, <2>3, <2>4, <2>5 DEF Works
    <2>8. frame[u].gen = curLocks /\ frame[u].hp = hashpower
      BY <1>1, <1>4 DEF Works
    <2>9. LockInd(curLocks)' = LockInd(curLocks)
      BY <2>3 DEF LockInd, NumLocks
    <2> QED
      BY <1>2, <2>3, <2>6, <2>7, <2>8, <2>9 DEF Works
  <1> QED
    BY <1>3, <1>4

(* The first lock: if it is of an array older than the last, the hashpower *)
(* has changed, or a doubling holds that very lock, or t is a stale waiter.*)
LEMMA FirstLockIsLast ==
  ASSUME LockInv, NoStaleWaiter, NEW t \in Threads, LockFirst(t), Take(t)
  PROVE  frame[t].gen = curLocks
  <1>1. /\ TablesOK /\ ThreadsOK /\ ResizersHold /\ Grown /\ Late(t) /\ Wants(t) /\ Plans(t)
        /\ \A u \in Threads : Sweeps(u)
    BY LockInvParts
  <1>2. /\ frame[t].gen <= curLocks /\ frame[t].gen \in Nat /\ curLocks \in Nat
        /\ \A u \in Threads : frame[u].hp \in Nat /\ frame[u].first \in Nat
        /\ hashpower \in Nat /\ frame[t].want \in SUBSET AnyLockInd
    BY <1>1, Numbers DEF ResizersHold
  <1>3. pc[t] = "lock_first"
    BY DEF LockFirst
  <1>4. pc'[t] # "snapshot" => hashpower = frame[t].hp
    BY <1>1 DEF LockFirst, check_hashpower, TryAgain, Goto, ThreadsOK
  <1>5. hashpower = frame[t].hp
    <2>1. SUFFICES ASSUME hashpower # frame[t].hp PROVE FALSE
      OBVIOUS
    <2>2. frame' = frame
      BY <2>1 DEF LockFirst, check_hashpower
    <2>3. frame[t].want # {} /\ frame[t].want \in SUBSET Nat
      BY <1>1, <1>2, <1>3, ThreadHere, SizesAssumption DEF Fits, AnyLockInd
    <2>4. Min(frame[t].want) \in frame[t].want
      BY <2>3, MinOfNats
    <2>5. frame'[t].want = frame[t].want \ {Min(frame[t].want)}
      BY <1>1, TakeHere
    <2> QED
      BY <2>2, <2>4, <2>5
  <1>6. SUFFICES ASSUME frame[t].gen < curLocks PROVE FALSE
    BY <1>2
  <1>7. PICK u \in Threads : Resizes(u)
    BY <1>1, <1>2, <1>3, <1>5, <1>6 DEF Late, NobodyResizing
  <1>8. \/ frame[t].hp < frame[u].hp
        \/ frame[t].hp = frame[u].hp /\ frame[u].first <= frame[t].gen
    BY <1>1, <1>3, <1>6, <1>7 DEF Late
  <1>9. frame[u].first <= frame[t].gen
    <2>1. pc[u] = "swap" => hashpower = frame[u].hp
      BY <1>1 DEF ResizersHold
    <2>2. pc[u] = "install" => frame[u].first <= frame[t].gen
      BY <1>3, <1>5 DEF NoStaleWaiter
    <2> QED
      BY <1>2, <1>5, <1>7, <1>8, <2>1, <2>2 DEF Resizes
  <1>10. AllTaken(u, frame[t].gen, LockInd(frame[t].gen))
    <2>1. frame[t].gen \in frame[u].first .. curLocks
      BY <1>2, <1>6, <1>9
    <2> QED
      BY <1>1, <1>7, <2>1 DEF Sweeps, Alone, Resizes
  <1>11. Min(frame[t].want) \in LockInd(frame[t].gen)
    <2>1. frame[t].want # {} /\ frame[t].want \in SUBSET Nat
      BY <1>1, <1>2, <1>3, ThreadHere, SizesAssumption DEF Fits, AnyLockInd
    <2>2. Min(frame[t].want) \in frame[t].want
      BY <2>1, MinOfNats
    <2> QED
      BY <1>1, <1>3, <2>2 DEF Wants
  <1>12. holder[<<frame[t].gen, Min(frame[t].want)>>] = NoThread
    BY DEF Take
  <1> QED
    BY <1>10, <1>11, <1>12, ValuesAssumption DEF AllTaken

LEMMA TakingWorks ==
  ASSUME LockInv, NoStaleWaiter, NEW t \in Threads, LockFirst(t) \/ LockNext(t)
  PROVE  Works(t)'
  <1>1. /\ TablesOK /\ ThreadsOK /\ ResizersHold /\ Plans(t) /\ Works(t) /\ Wants(t)
        /\ curLocks' = curLocks /\ hashpower' = hashpower
    BY LockInvParts DEF LockFirst, LockNext, tableVars
  <1>2. CASE ~ Take(t)
    BY <1>1, <1>2, TakingPlans DEF Works, AtWork
  <1>3. CASE Take(t)
    <2> DEFINE l == Min(frame[t].want)
               g == frame[t].gen
    <2>1. /\ frame'[t].hp = frame[t].hp /\ frame'[t].gen = g
          /\ frame'[t].want = frame[t].want \ {l}
          /\ Need(t)' = Need(t)
      BY <1>1, <1>3, TakingPlans
    <2>2. holder' = [holder EXCEPT ![<<g, l>>] = t]
      BY <1>3 DEF Take
    <2>3. frame[t].want # {} /\ frame[t].want \subseteq LockInd(g) /\ g \in LockArray
          /\ frame[t].want \in SUBSET Nat
      <3>1. pc[t] \in {"lock_first", "lock_next"}
        BY DEF LockFirst, LockNext
      <3>2. frame[t].want # {} /\ frame[t].want \in SUBSET AnyLockInd /\ g \in LockArray
        BY <1>1, <3>1, ThreadHere, Numbers DEF Fits
      <3> QED
        BY <1>1, <3>1, <3>2, SizesAssumption DEF Wants, AnyLockInd
    <2>4. l \in frame[t].want /\ <<g, l>> \in LockId
      BY <2>3, MinOfNats, LocksOfArray
    <2>5. g = curLocks /\ frame[t].hp = hashpower
          /\ \A m \in Need(t) \ frame[t].want : holder[<<curLocks, m>>] = t
      <3>1. CASE LockNext(t)
        BY <1>1, <3>1 DEF LockNext, Works, AtWork
      <3>2. CASE LockFirst(t)
        <4>1. g = curLocks
          BY <1>3, <3>2, FirstLockIsLast
        <4>2. frame[t].want = Need(t)
          BY <1>1, <3>2 DEF LockFirst, ResizersHold, Owns
        <4>3. hashpower = frame[t].hp
          <5>1. SUFFICES ASSUME hashpower # frame[t].hp PROVE FALSE
            OBVIOUS
          <5>2. frame' = frame
            BY <3>2, <5>1 DEF LockFirst, check_hashpower
          <5> QED
            BY <2>1, <2>4, <5>2
        <4> QED
          BY <4>1, <4>2, <4>3
      <3> QED
        BY <3>1, <3>2
    <2> HIDE DEF l, g
    <2>6. \A x \in LockId : holder[x] = t => holder'[x] = t
      BY <1>1, <1>3, TakeKeeps
    <2>7. l \in LockInd(curLocks) /\ holder'[<<curLocks, l>>] = t
      BY <1>1, <2>2, <2>3, <2>4, <2>5 DEF TablesOK
    <2>8. ASSUME NEW m \in Need(t) \ (frame[t].want \ {l})
          PROVE  holder'[<<curLocks, m>>] = t
      <3>1. CASE m = l
        BY <2>7, <3>1
      <3>2. CASE m # l
        <4>1. holder[<<curLocks, m>>] = t
          BY <2>5, <2>8, <3>2
        <4>2. holder'[<<curLocks, m>>] = holder[<<curLocks, m>>]
              \/ <<curLocks, m>> \notin DOMAIN holder
          BY <1>1, <2>2, <3>2, <2>5 DEF TablesOK
        <4>3. LockFirst(t) => m \in frame[t].want
          BY <1>1, <2>8 DEF LockFirst, ResizersHold, Owns
        <4>4. LockNext(t) => m \in LockInd(curLocks)
          BY <2>8, WorkInRange DEF LockNext, AtWork
        <4>5. <<curLocks, m>> \in LockId
          BY <2>3, <2>5, <4>3, <4>4, LocksOfArray
        <4> QED
          BY <2>6, <4>1, <4>5
      <3> QED
        BY <3>1, <3>2
    <2>9. LockInd(curLocks)' = LockInd(curLocks)
      BY <1>1 DEF LockInd, NumLocks
    <2> QED
      BY <1>1, <2>1, <2>5, <2>7, <2>8, <2>9 DEF Works
  <1> QED
    BY <1>2, <1>3

LEMMA StepLockInv ==
  ASSUME LockInv, NoStaleWaiter, NEW t \in Threads, Invoke(t) \/ Step(t), ~ strayed'
  PROVE  LockInv'
  <1>1. GrowInv /\ TablesOK /\ ThreadsOK /\ ResizersHold
    BY LockInvParts
  <1>2. GrowInv'
    BY <1>1, StepGrowInv
  <1>3. CASE Leaves(t) \/ GrowLocks(t) \/ GrowSwap(t) \/ GrowInstall(t)
    <2>1. GrowInstall(t) => pc'[t] = "unlock"
      BY <1>1, UnlockAllHere DEF GrowInstall
    <2>2. ~ AtWork(t)'
      BY <1>1, <1>3, <2>1 DEF Leaves, AtWork, GrowLocks, GrowSwap, Goto, ThreadsOK
    <2>3. Works(t)'
      BY <2>2 DEF Works
    <2> QED
      BY <1>2, <2>3, OthersWork DEF LockInv
  <1>4. CASE LockFirst(t) \/ LockNext(t)
    BY <1>2, <1>4, TakingWorks, OthersWork DEF LockInv
  <1> QED
    BY <1>1, <1>3, <1>4, StayingSteps

LEMMA NextLockInv ==
  ASSUME LockInv, NoStaleWaiter, [Next]_vars, ~ strayed'
  PROVE  LockInv'
  <1>1. CASE UNCHANGED vars
    <2>1. UNCHANGED <<buckets, hashpower, oldBuckets, oldHashpower, curLocks, holder,
                      counter, migrated, remaining, pc, op, ans, frame, opsLeft, strayed>>
      BY <1>1 DEF vars
    <2>2. GrowInv'
      BY <1>1, NextGrowInv, LockInvParts
    <2>3. \A u \in Threads : Need(u)' = Need(u)
      BY <2>1 DEF Need, PathLocks, i1, i2
    <2>4. \A u \in Threads : Works(u)'
      BY <2>1, <2>3, LockInvParts DEF Works, AtWork, LockInd, NumLocks
    <2> QED
      BY <2>2, <2>4 DEF LockInv
  <1>2. CASE \E t \in Threads : Invoke(t) \/ Step(t)
    BY <1>2, StepLockInv
  <1> QED
    BY <1>1, <1>2 DEF Next, Finished

LEMMA InitLockInv == Init => LockInv
  BY InitGrowInv DEF Init, LockInv, Works, AtWork

(* Where no thread can be stale: the first array already has every lock,   *)
(* or there is one array to replace, and so none older than it.            *)
LEMMA NobodyStale ==
  ASSUME GrowInv, DoublesAtMostOnce
  PROVE  NoStaleWaiter
  <1>1. ASSUME NEW t \in Threads, pc[t] = "install", NEW u \in Threads
        PROVE  frame[t].first <= frame[u].gen
    <2>1. TablesOK /\ ThreadsOK
      BY GrowInvParts
    <2>2. InitHashpower + frame[t].first <= frame[t].hp /\ frame[t].hp < MaxHashpower
      BY <1>1, <2>1, GrowInvParts, ThreadHere DEF Sweeps, Resizes, Fits
    <2>3. /\ frame[t].first \in Nat /\ frame[u].gen \in Nat /\ frame[t].hp \in Nat
          /\ InitHashpower \in Nat /\ MaxHashpower \in Nat
      BY <2>1, Numbers
    <2> QED
      BY <2>2, <2>3 DEF DoublesAtMostOnce
  <1> QED
    BY <1>1 DEF NoStaleWaiter

(* A table born with all its locks keeps its one array, and no unlocking   *)
(* can go on to another.                                                   *)
OneArray == curLocks = 0 /\ ~ strayed

LEMMA NextOneArray ==
  ASSUME AllLocksFromTheStart, OneArray, [Next]_vars, IInv
  PROVE  OneArray'
  <1>1. TablesOK /\ ThreadsOK
    BY TypeOKParts DEF IInv
  <1>2. ~ strayed'
    <2>1. ASSUME NEW t \in Threads, UnlockNext(t)
          PROVE  strayed' = strayed
      <3>1. ~ MoreToUnlock(t)
        BY <1>1, Numbers DEF MoreToUnlock, OneArray
      <3> QED
        BY <2>1, <3>1 DEF UnlockNext
    <2> QED
      BY <2>1, StrayingSteps DEF OneArray
  <1>3. CASE UNCHANGED vars
    BY <1>3 DEF vars, OneArray
  <1>4. ASSUME NEW t \in Threads, Invoke(t) \/ Step(t)
        PROVE  curLocks' = curLocks
    <2>1. Ordinary(t) => curLocks' = curLocks
      BY DEF Ordinary, Stays
    <2>2. GrowLocks(t) => curLocks' = curLocks
      BY SizesAssumption DEF GrowLocks, OneArray, AllLocksFromTheStart
    <2>3. GrowSwap(t) \/ GrowInstall(t) => curLocks' = curLocks
      BY DEF GrowSwap, GrowInstall, UnlockAll, lockVars
    <2> QED
      BY <1>2, <1>4, <2>1, <2>2, <2>3, OrdinarySteps
  <1> QED
    BY <1>2, <1>3, <1>4 DEF Next, Finished, OneArray

LEMMA OneArrayNobodyStale ==
  ASSUME GrowInv, OneArray
  PROVE  NoStaleWaiter
  <1>1. ASSUME NEW t \in Threads, pc[t] = "install", NEW u \in Threads
        PROVE  frame[t].first <= frame[u].gen
    <2>1. frame[t].first <= curLocks
      BY <1>1, GrowInvParts DEF Sweeps, Alone
    <2>2. frame[t].first \in Nat /\ frame[u].gen \in Nat
      BY GrowInvParts, Numbers
    <2> QED
      BY <2>1, <2>2 DEF OneArray
  <1> QED
    BY <1>1 DEF NoStaleWaiter

OneArrayInv == LockInv /\ OneArray

LEMMA NextOneArrayInv ==
  ASSUME AllLocksFromTheStart, OneArrayInv, [Next]_vars
  PROVE  OneArrayInv'
  <1>1. LockInv /\ OneArray /\ GrowInv /\ IInv
    BY LockInvParts DEF OneArrayInv
  <1>2. OneArray'
    BY <1>1, NextOneArray
  <1>3. LockInv'
    BY <1>1, <1>2, OneArrayNobodyStale, NextLockInv DEF OneArray
  <1> QED
    BY <1>2, <1>3 DEF OneArrayInv

LEMMA InitOneArrayInv == Init => OneArrayInv
  BY InitLockInv DEF Init, OneArrayInv, OneArray

LEMMA LocksHeldHere ==
  ASSUME AllLocksFromTheStart, OneArrayInv
  PROVE  LocksHeld
  <1>1. curLocks = 0 /\ LockInd(curLocks) = AnyLockInd
    BY SizesAssumption DEF OneArrayInv, OneArray, AllLocksFromTheStart, LockInd, AnyLockInd
  <1>2. TablesOK /\ ThreadsOK /\ ResizersHold /\ \A u \in Threads : Works(u)
    BY LockInvParts DEF OneArrayInv
  <1> SUFFICES ASSUME NEW t \in Threads
               PROVE  /\ frame[t].gen = 0
                      /\ AtWork(t) => /\ \E l \in AnyLockInd : holder[<<0, l>>] = t
                                      /\ frame[t].hp = hashpower
                      /\ pc[t] = "lock_all" =>
                           \A l \in AnyLockInd \ frame[t].want : holder[<<0, l>>] = t
                      /\ pc[t] = "unlock" => \A l \in frame[t].want : holder[<<0, l>>] = t
                      /\ Alone(t) => \A l \in AnyLockInd : holder[<<0, l>>] = t
    BY DEF LocksHeld
  <1>3. frame[t].gen = 0
    <2>1. frame[t].gen <= curLocks /\ frame[t].gen \in Nat
      BY <1>2, Numbers DEF ResizersHold
    <2> QED
      BY <1>1, <2>1
  <1>4. /\ pc[t] = "lock_all" => AllTaken(t, frame[t].gen, LockInd(frame[t].gen) \ frame[t].want)
        /\ pc[t] = "unlock" => AllTaken(t, frame[t].gen, frame[t].want)
        /\ Alone(t) => AllTaken(t, curLocks, LockInd(curLocks))
    BY <1>2 DEF ResizersHold, Owns
  <1>5. AtWork(t) => (\E l \in LockInd(curLocks) : holder[<<curLocks, l>>] = t) /\ frame[t].hp = hashpower
    BY <1>2 DEF Works
  <1> QED
    BY <1>1, <1>3, <1>4, <1>5 DEF AllTaken

(* How far a lock array reaches, and who waits for the locks of which: the *)
(* last array always covers the table, and a doubling on its way has every *)
(* array since the one it began with.  For any sizes, until an unlocking   *)
(* goes on to locks that are not its own.                                  *)
THEOREM LocksCoverTheTable == Spec => [](strayed \/ GrowInv)
  <1>1. (strayed \/ GrowInv) /\ [Next]_vars => (strayed \/ GrowInv)'
    BY NextGrowInv, StrayedStays
  <1>2. Init => strayed \/ GrowInv
    BY InitGrowInv
  <1> QED
    BY <1>1, <1>2, PTL DEF Spec

(* In a table born with all its locks no unlocking of a whole array goes on*)
(* to another: there is no other.                                          *)
THEOREM NothingStrays ==
  ASSUME AllLocksFromTheStart
  PROVE  Spec => []~strayed
  <1>1. OneArrayInv /\ [Next]_vars => OneArrayInv'
    BY NextOneArrayInv
  <1>2. OneArrayInv => ~ strayed
    BY DEF OneArrayInv, OneArray
  <1> QED
    BY InitOneArrayInv, <1>1, <1>2, PTL DEF Spec

(* There a thread at its buckets holds a lock and has the right hashpower; *)
(* one that called lock_all has every lock it went past, and one that is   *)
(* done with them all those it has not yet released.                       *)
THEOREM ThreadsHoldTheirLocks ==
  ASSUME AllLocksFromTheStart
  PROVE  Spec => []LocksHeld
  <1>1. OneArrayInv /\ [Next]_vars => OneArrayInv'
    BY NextOneArrayInv
  <1>2. OneArrayInv => LocksHeld
    BY LocksHeldHere
  <1> QED
    BY InitOneArrayInv, <1>1, <1>2, PTL DEF Spec

(* Mutual exclusion: while a thread doubles, clears or dumps the table no  *)
(* other is at its buckets, and who is at its buckets has the hashpower    *)
(* the table has.  For any number of doublings and lock arrays two things  *)
(* end it, and nothing else does: a stale waiter, which gets its lock while*)
(* the containers are swapped, and an unlocking that goes on to an array   *)
(* another thread has appended.                                            *)
THEOREM MutualExclusionUnlessStale ==
  Spec /\ [](strayed \/ NoStaleWaiter) => [](strayed \/ LocksProtect)
  <1>1. (strayed \/ LockInv) /\ (strayed \/ NoStaleWaiter) /\ [Next]_vars
          => (strayed \/ LockInv)'
    BY NextLockInv, StrayedStays
  <1>2. strayed \/ LockInv => strayed \/ LocksProtect
    BY WorksProtect
  <1>3. Init => strayed \/ LockInv
    BY InitLockInv
  <1> QED
    BY <1>1, <1>2, <1>3, PTL DEF Spec

(* The tables in which nobody is stale: those born with all their locks (at*)
(* least kMaxNumLocks buckets), and those that double once.                *)
THEOREM NoStaleWaiters ==
  ASSUME AllLocksFromTheStart \/ DoublesAtMostOnce
  PROVE  Spec => [](strayed \/ NoStaleWaiter)
  <1>1. CASE AllLocksFromTheStart
    <2>1. OneArrayInv /\ [Next]_vars => OneArrayInv'
      BY <1>1, NextOneArrayInv
    <2>2. OneArrayInv => strayed \/ NoStaleWaiter
      BY OneArrayNobodyStale, LockInvParts DEF OneArrayInv
    <2> QED
      BY InitOneArrayInv, <2>1, <2>2, PTL DEF Spec
  <1>2. CASE DoublesAtMostOnce
    <2>1. strayed \/ GrowInv => strayed \/ NoStaleWaiter
      BY <1>2, NobodyStale
    <2> QED
      BY LocksCoverTheTable, <2>1, PTL
  <1> QED
    BY <1>1, <1>2

(* A table that doubles once is left with the other way to lose it.        *)
THEOREM MutualExclusionUntilStray ==
  ASSUME DoublesAtMostOnce
  PROVE  Spec => [](strayed \/ LocksProtect)
  <1> QED
    BY NoStaleWaiters, MutualExclusionUnlessStale, PTL

(* A table born with all its locks has neither.                            *)
THEOREM MutualExclusion ==
  ASSUME AllLocksFromTheStart
  PROVE  Spec => []LocksProtect
  <1>1. Spec => [](strayed \/ NoStaleWaiter)
    BY NoStaleWaiters
  <1>2. Spec => []~strayed
    BY NothingStrays
  <1> QED
    BY <1>1, <1>2, MutualExclusionUnlessStale, PTL
=============================================================================
