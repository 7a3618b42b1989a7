--------------------------- MODULE RedisTableProofs ---------------------------
(***************************************************************************)
(* Theorems about RedisTable, for any keys, layouts, number of threads and *)
(* contexts, and any budget of calls, starts and faults.                   *)
(***************************************************************************)
EXTENDS RedisTable, FiniteSetTheorems, TLAPS

(* What NoSilentLoss rests on: calls are records of which only those of a  *)
(* process that is up are running; and as long as a failed write has not   *)
(* returned, its error is in error_ptr, or another call has returned it.   *)
Shape == /\ DOMAIN call = Threads
         /\ \A t \in Threads : {"pc", "kind", "failed", "excused"} \subseteq DOMAIN call[t]

OnlyUp == phase # "up" => \A t \in Threads : call[t].pc = "idle"

Owed(t) == call[t].pc # "idle" /\ call[t].failed /\ call[t].kind # "find"

ErrorKept == \A t \in Threads : Owed(t) => errorPtr \/ call[t].excused

ErrorInv == Shape /\ OnlyUp /\ ErrorKept

(* What NoSilentLoss says of a step.                                       *)
Silent(t) == /\ call[t].pc = "send" /\ call[t].failed /\ call[t].kind # "find"
             /\ call'[t].pc = "idle" /\ phase' = phase

Good == ErrorInv' /\ \A t \in Threads : Silent(t) => call[t].excused

(* The call of u goes on as it is, as far as NoSilentLoss is concerned.    *)
Same(u) == /\ {"pc", "kind", "failed", "excused"} \subseteq DOMAIN call'[u]
           /\ call'[u].pc = call[u].pc /\ call'[u].kind = call[u].kind
           /\ call'[u].failed = call[u].failed /\ call'[u].excused = call[u].excused

LEMMA WatchedKeeps ==
  ASSUME NEW r, Shape
  PROVE  /\ DOMAIN Watched(r) = Threads
         /\ \A u \in Threads :
              /\ {"pc", "kind", "failed", "excused"} \subseteq DOMAIN Watched(r)[u]
              /\ Watched(r)[u].pc = call[u].pc /\ Watched(r)[u].kind = call[u].kind
              /\ Watched(r)[u].failed = call[u].failed
              /\ Watched(r)[u].excused = call[u].excused
  <1>1. DOMAIN Watched(r) = Threads
    BY DEF Watched
  <1>2. ASSUME NEW u \in Threads
        PROVE  /\ {"pc", "kind", "failed", "excused"} \subseteq DOMAIN Watched(r)[u]
               /\ Watched(r)[u].pc = call[u].pc /\ Watched(r)[u].kind = call[u].kind
               /\ Watched(r)[u].failed = call[u].failed
               /\ Watched(r)[u].excused = call[u].excused
    <2>1. CASE call[u].pc = "idle"
      <3>1. Watched(r)[u] = call[u]
        BY <2>1 DEF Watched
      <3> QED
        BY <3>1 DEF Shape
    <2>2. CASE call[u].pc # "idle" /\ call[u].kind = "find"
      <3>1. Watched(r)[u] = [call[u] EXCEPT !.seen = @ \cup {<<k, r[BucketOf(k)][k]>> : k \in call[u].keys}]
        BY <2>2 DEF Watched
      <3> QED
        BY <3>1 DEF Shape
    <2>3. CASE call[u].pc # "idle" /\ call[u].kind # "find"
      <3>1. Watched(r)[u] = [call[u] EXCEPT !.quiet = FALSE]
        BY <2>3 DEF Watched
      <3> QED
        BY <3>1 DEF Shape
    <2> QED
      BY <2>1, <2>2, <2>3
  <1> QED
    BY <1>1, <1>2

(* Steps of which NoSilentLoss need not know more than this.               *)
LEMMA NothingLost ==
  ASSUME ErrorInv, DOMAIN call' = Threads, \A u \in Threads : Same(u),
         OnlyUp', errorPtr => errorPtr'
  PROVE  Good
  BY DEF ErrorInv, Shape, OnlyUp, ErrorKept, Owed, Good, Silent, Same

LEMMA CallsUnchanged ==
  ASSUME ErrorInv, UNCHANGED call, phase' = phase \/ phase # "up",
         errorPtr' = errorPtr \/ errorPtr' = TRUE \/ phase # "up"
  PROVE  Good
  <1>1. Shape' /\ \A u \in Threads : Same(u)
    BY DEF ErrorInv, Shape, Same
  <1>2. OnlyUp'
    BY DEF ErrorInv, OnlyUp
  <1>3. ErrorKept'
    BY DEF ErrorInv, OnlyUp, ErrorKept, Owed
  <1> QED
    BY <1>1, <1>2, <1>3 DEF ErrorInv, Good, Silent, Same

LEMMA AllIdle ==
  ASSUME ErrorInv, call' = [t \in Threads |-> NoCall], phase' # phase
  PROVE  Good
  BY DEF ErrorInv, Shape, OnlyUp, ErrorKept, Owed, Good, Silent, NoCall

(* t's own step: every other call goes on as it is.                        *)
LEMMA OneCall ==
  ASSUME ErrorInv, NEW t \in Threads, DOMAIN call' = Threads,
         \A u \in Threads \ {t} : Same(u),
         {"pc", "kind", "failed", "excused"} \subseteq DOMAIN call'[t],
         phase' = phase, phase = "up", errorPtr => errorPtr',
         Owed(t)' => errorPtr' \/ call'[t].excused,
         Silent(t) => call[t].excused
  PROVE  Good
  <1>1. Shape'
    BY DEF Shape, Same
  <1>2. OnlyUp'
    BY DEF OnlyUp
  <1>3. ErrorKept'
    BY DEF ErrorInv, ErrorKept, Owed, Same
  <1>4. \A u \in Threads : Silent(u) => call[u].excused
    BY DEF Silent, Same
  <1> QED
    BY <1>1, <1>2, <1>3, <1>4 DEF Good, ErrorInv
-----------------------------------------------------------------------------
LEMMA StartUpGood ==
  ASSUME ErrorInv, StartUp
  PROVE  Good
  <1>1. ASSUME NEW new \in Layouts, NEW imp \in Layouts, Start(new, imp)
        PROVE  Good
    <2>1. phase' # phase
      BY <1>1 DEF Start, Plan
    <2> QED
      BY <1>1, <2>1, AllIdle DEF Start
  <1>2. CASE StartFails
    BY <1>2, CallsUnchanged DEF StartFails, StartStep
  <1>3. CASE RecreateEnd
    BY <1>3, CallsUnchanged DEF RecreateEnd, StartStep
  <1>4. CASE DropEnd
    BY <1>4, CallsUnchanged DEF DropEnd, StartStep
  <1>5. CASE Duplicate
    BY <1>5, CallsUnchanged DEF Duplicate, StartStep
  <1>6. CASE DuplicateCheck
    BY <1>6, CallsUnchanged DEF DuplicateCheck, StartStep
  <1>7. CASE Persist
    BY <1>7, CallsUnchanged DEF Persist, StartStep
  <1>8. ASSUME NEW b \in Bucket, Recreate(b) \/ Drop(b)
        PROVE  Good
    BY <1>8, CallsUnchanged DEF Recreate, Drop, StartStep
  <1> QED
    BY <1>1, <1>2, <1>3, <1>4, <1>5, <1>6, <1>7, <1>8 DEF StartUp

LEMMA ServerGood ==
  ASSUME ErrorInv, Copying \/ Stop \/ Crash \/ \E b \in Bucket : Expire(b)
  PROVE  Good
  <1>1. ASSUME NEW b \in Bucket, JobDump(b) \/ JobFails(b)
        PROVE  Good
    BY <1>1, CallsUnchanged DEF JobDump, JobFails, JobStep
  <1>2. ASSUME NEW b \in Bucket, JobRestore(b)
        PROVE  Good
    <2>1. call' = Watched(redis') /\ phase' = phase /\ (errorPtr => errorPtr')
      BY <1>2 DEF JobRestore, JobStep
    <2>2. DOMAIN call' = Threads /\ \A u \in Threads : Same(u)
      BY <2>1, WatchedKeeps DEF ErrorInv, Same
    <2>3. OnlyUp'
      BY <2>1, <2>2 DEF ErrorInv, OnlyUp, Same
    <2> QED
      BY <2>1, <2>2, <2>3, NothingLost
  <1>3. CASE Stop
    <2>1. UNCHANGED call /\ \A t \in Threads : call[t].pc = "idle"
      BY <1>3 DEF Stop, Idle
    <2> QED
      BY <2>1 DEF ErrorInv, Shape, OnlyUp, ErrorKept, Owed, Good, Silent
  <1>4. CASE Crash
    BY <1>4, AllIdle DEF Crash
  <1>5. ASSUME NEW b \in Bucket, Expire(b)
        PROVE  Good
    <2>1. call' = Watched(redis') /\ phase' = phase /\ errorPtr' = errorPtr
      BY <1>5 DEF Expire, starting
    <2>2. DOMAIN call' = Threads /\ \A u \in Threads : Same(u)
      BY <2>1, WatchedKeeps DEF ErrorInv, Same
    <2>3. OnlyUp'
      BY <2>1, <2>2 DEF ErrorInv, OnlyUp, Same
    <2> QED
      BY <2>1, <2>2, <2>3, NothingLost
  <1> QED
    BY <1>1, <1>2, <1>3, <1>4, <1>5 DEF Copying
-----------------------------------------------------------------------------
(* A call that goes on as it is but for a field that NoSilentLoss ignores. *)
LEMMA CallGoesOn ==
  ASSUME ErrorInv, NEW t \in Threads, phase' = phase, phase = "up", errorPtr' = errorPtr,
         DOMAIN call' = Threads, \A u \in Threads \ {t} : Same(u),
         {"pc", "kind", "failed", "excused"} \subseteq DOMAIN call'[t],
         call[t].pc # "idle", call'[t].pc # "idle",
         call'[t].kind = call[t].kind, call'[t].failed = call[t].failed,
         call'[t].excused = call[t].excused
  PROVE  Good
  <1>1. Owed(t)' => errorPtr' \/ call'[t].excused
    BY DEF ErrorInv, ErrorKept, Owed
  <1>2. ~ Silent(t)
    BY DEF Silent
  <1> QED
    BY <1>1, <1>2, OneCall

LEMMA RunningUp ==
  ASSUME ErrorInv, NEW t \in Threads, call[t].pc # "idle"
  PROVE  phase = "up"
  BY DEF ErrorInv, OnlyUp

LEMMA SelectGood ==
  ASSUME ErrorInv, NEW t \in Threads,
         \/ SelectTry(t) \/ SelectEnd(t) \/ SelectSize(t)
         \/ SelectPush(t) \/ SelectOccupy(t) \/ Prepare(t) \/ WriteThrow(t)
  PROVE  Good
  <1> USE DEF ErrorInv, Shape
  <1>1. phase' = phase /\ errorPtr' = errorPtr /\ call[t].pc # "idle"
    BY DEF SelectTry, SelectEnd, SelectSize, SelectPush, SelectOccupy, Prepare, WriteThrow,
           CallStep, starting
  <1>2. phase = "up"
    BY <1>1, RunningUp
  <1>3. DOMAIN call' = Threads /\ \A u \in Threads \ {t} : call'[u] = call[u]
    BY DEF SelectTry, SelectEnd, SelectSize, SelectPush, SelectOccupy, Prepare, WriteThrow, Goto
  <1>4. \A u \in Threads \ {t} : Same(u)
    BY <1>3 DEF Same
  <1>5. /\ {"pc", "kind", "failed", "excused"} \subseteq DOMAIN call'[t]
        /\ call'[t].pc # "idle" /\ call'[t].kind = call[t].kind
        /\ call'[t].failed = call[t].failed /\ call'[t].excused = call[t].excused
    <2>1. CASE SelectTry(t)
      BY <2>1 DEF SelectTry, Goto
    <2>2. CASE SelectEnd(t) \/ SelectSize(t) \/ SelectPush(t) \/ SelectOccupy(t) \/ WriteThrow(t)
      BY <2>2 DEF SelectEnd, SelectSize, SelectPush, SelectOccupy, WriteThrow, Goto
    <2>3. CASE Prepare(t)
      BY <2>3 DEF Prepare
    <2> QED
      BY <2>1, <2>2, <2>3
  <1> QED
    BY <1>1, <1>2, <1>3, <1>4, <1>5, CallGoesOn DEF Same

(* The calls as another's answer leaves them.                              *)
LEMMA AnsweredKeeps ==
  ASSUME ErrorInv, NEW t \in Threads,
         NEW f, f = (IF redis' = redis THEN call ELSE Watched(redis'))
  PROVE  /\ DOMAIN f = Threads
         /\ \A u \in Threads :
              /\ {"pc", "kind", "failed", "excused"} \subseteq DOMAIN f[u]
              /\ f[u].pc = call[u].pc /\ f[u].kind = call[u].kind
              /\ f[u].failed = call[u].failed /\ f[u].excused = call[u].excused
  BY WatchedKeeps DEF ErrorInv, Shape

LEMMA WriteGood ==
  ASSUME ErrorInv, NEW t \in Threads, NEW b \in Bucket, Write(t, b)
  PROVE  Good
  <1> DEFINE f == IF redis' = redis THEN call ELSE Watched(redis')
  <1>1. phase' = phase /\ errorPtr' = errorPtr /\ call[t].pc # "idle"
    BY DEF Write, Sending, CallStep, starting
  <1>2. phase = "up"
    BY <1>1, RunningUp
  <1>3. /\ DOMAIN f = Threads
        /\ \A u \in Threads :
             /\ {"pc", "kind", "failed", "excused"} \subseteq DOMAIN f[u]
             /\ f[u].pc = call[u].pc /\ f[u].kind = call[u].kind
             /\ f[u].failed = call[u].failed /\ f[u].excused = call[u].excused
    BY AnsweredKeeps
  <1>4. call' = [f EXCEPT ![t].pending = @ \ {b}]
    BY DEF Write, Answered
  <1> HIDE DEF f
  <1>5. DOMAIN call' = Threads /\ \A u \in Threads : Same(u)
    BY <1>3, <1>4 DEF Same
  <1> QED
    BY <1>1, <1>2, <1>5, CallGoesOn DEF Same

LEMMA WriteFailsGood ==
  ASSUME ErrorInv, NEW t \in Threads, NEW b \in Bucket, WriteFails(t, b)
  PROVE  Good
  <1> DEFINE f == IF redis' = redis THEN call ELSE Watched(redis')
             g == [f EXCEPT ![t].pending = @ \ {b}]
  <1>1. phase' = phase /\ errorPtr' /\ call[t].pc # "idle"
    BY DEF WriteFails, Sending, CallStep, starting
  <1>2. phase = "up"
    BY <1>1, RunningUp
  <1>3. /\ DOMAIN f = Threads
        /\ \A u \in Threads :
             /\ {"pc", "kind", "failed", "excused"} \subseteq DOMAIN f[u]
             /\ f[u].pc = call[u].pc /\ f[u].kind = call[u].kind
             /\ f[u].failed = call[u].failed /\ f[u].excused = call[u].excused
    BY AnsweredKeeps
  <1>4. call' = [g EXCEPT ![t].failed = TRUE]
    BY DEF WriteFails, Answered
  <1> HIDE DEF f
  <1>5. /\ DOMAIN g = Threads
        /\ \A u \in Threads \ {t} : g[u] = f[u]
        /\ {"pc", "kind", "failed", "excused"} \subseteq DOMAIN g[t]
        /\ g[t].pc = call[t].pc
    BY <1>3
  <1> HIDE DEF g
  <1>6. /\ DOMAIN call' = Threads
        /\ \A u \in Threads \ {t} : call'[u] = f[u]
        /\ {"pc", "kind", "failed", "excused"} \subseteq DOMAIN call'[t]
        /\ call'[t].pc = call[t].pc
    BY <1>4, <1>5
  <1>7. \A u \in Threads \ {t} : Same(u)
    BY <1>3, <1>6 DEF Same
  <1>8. ~ Silent(t)
    BY <1>1, <1>6 DEF Silent
  <1> QED
    BY <1>1, <1>2, <1>6, <1>7, <1>8, OneCall

LEMMA ReadGood ==
  ASSUME ErrorInv, NEW t \in Threads, NEW b \in Bucket, Read(t, b) \/ ReadFails(t, b)
  PROVE  Good
  <1>1. /\ phase' = phase /\ errorPtr' = errorPtr
        /\ call[t].pc # "idle" /\ call[t].kind = "find"
    BY DEF Read, ReadFails, Sending, CallStep, starting
  <1>2. phase = "up"
    BY <1>1, RunningUp
  <1>3. DOMAIN call' = Threads /\ \A u \in Threads \ {t} : call'[u] = call[u]
    BY DEF Read, ReadFails, ErrorInv, Shape
  <1>4. /\ {"pc", "kind", "failed", "excused"} \subseteq DOMAIN call'[t]
        /\ call'[t].kind = "find"
    <2>1. CASE Read(t, b)
      BY <1>1, <2>1 DEF Read, ErrorInv, Shape
    <2>2. CASE ReadFails(t, b)
      BY <1>1, <2>2 DEF ReadFails, ErrorInv, Shape
    <2> QED
      BY <2>1, <2>2
  <1>5. \A u \in Threads \ {t} : Same(u)
    BY <1>3 DEF Same, ErrorInv, Shape
  <1>6. ~ Owed(t)' /\ ~ Silent(t)
    BY <1>1, <1>4 DEF Owed, Silent
  <1> QED
    BY <1>1, <1>2, <1>3, <1>4, <1>5, <1>6, OneCall

(* A call that returns: an answer that is missing has been reported, or    *)
(* else another call has returned its error.                               *)
LEMMA ReturnGood ==
  ASSUME ErrorInv, NEW t \in Threads,
         \/ WriteEnd(t) \/ FindEnd(t) \/ BucketsEnd(t) \/ BucketsFail(t)
         \/ ExportAlloc(t) /\ call' = Returned(t)
  PROVE  Good
  <1>1. /\ phase' = phase /\ errorPtr' = errorPtr
        /\ call[t].pc # "idle" /\ call' = [call EXCEPT ![t] = NoCall]
    BY DEF WriteEnd, FindEnd, BucketsEnd, BucketsFail, ExportAlloc, JobOf, CallStep, starting,
           Returned
  <1>2. phase = "up"
    BY <1>1, RunningUp
  <1>3. /\ DOMAIN call' = Threads /\ \A u \in Threads \ {t} : call'[u] = call[u]
        /\ call'[t] = NoCall
    BY <1>1 DEF ErrorInv, Shape
  <1>4. \A u \in Threads \ {t} : Same(u)
    BY <1>3 DEF Same, ErrorInv, Shape
  <1>5. Silent(t) => call[t].excused
    <2>1. Silent(t) => WriteEnd(t)
      BY DEF Silent, FindEnd, BucketsEnd, BucketsFail, ExportAlloc
    <2>2. Silent(t) => ~ errorPtr /\ Owed(t)
      BY <2>1 DEF Silent, WriteEnd, Owed
    <2> QED
      BY <2>2 DEF ErrorInv, ErrorKept
  <1>6. {"pc", "kind", "failed", "excused"} \subseteq DOMAIN call'[t] /\ ~ Owed(t)'
    BY <1>3 DEF NoCall, Owed
  <1> QED
    BY <1>1, <1>2, <1>3, <1>4, <1>5, <1>6, OneCall

(* The call that resets error_ptr: every other that runs is excused.       *)
LEMMA WriteErrorGood ==
  ASSUME ErrorInv, NEW t \in Threads, WriteError(t)
  PROVE  Good
  <1> CallStep /\ call[t].pc = "throw"
    BY DEF WriteError
  <1>1. phase' = phase /\ phase = "up"
    BY RunningUp DEF CallStep, starting
  <1>2. DOMAIN call' = Threads /\ call'[t] = NoCall
    BY DEF WriteError
  <1>3. ASSUME NEW u \in Threads \ {t}
        PROVE  /\ {"pc", "kind", "failed", "excused"} \subseteq DOMAIN call'[u]
               /\ call'[u].pc = call[u].pc
               /\ call'[u].pc # "idle" => call'[u].excused
    <2>1. call'[u] = IF call[u].pc = "idle" THEN call[u] ELSE [call[u] EXCEPT !.excused = TRUE]
      BY <1>3 DEF WriteError, Idle
    <2> QED
      BY <2>1 DEF ErrorInv, Shape
  <1>4. Shape' /\ ErrorKept'
    <2>1. {"pc", "kind", "failed", "excused"} \subseteq DOMAIN call'[t] /\ call'[t].pc = "idle"
      BY <1>2 DEF NoCall
    <2>2. Shape'
      BY <1>2, <1>3, <2>1 DEF Shape
    <2>3. ErrorKept'
      BY <1>3, <2>1 DEF ErrorKept, Owed
    <2> QED
      BY <2>2, <2>3
  <1>5. OnlyUp' /\ \A u \in Threads : ~ Silent(u)
    BY <1>1, <1>3 DEF OnlyUp, Silent
  <1> QED
    BY <1>4, <1>5 DEF Good, ErrorInv

LEMMA BucketsGood ==
  ASSUME ErrorInv, NEW t \in Threads, ClearNext(t) \/ ExportSize(t) \/ ExportScan(t)
  PROVE  Good
  <1> DEFINE f == IF redis' = redis THEN call ELSE Watched(redis')
  <1>1. phase' = phase /\ errorPtr' = errorPtr /\ call[t].pc # "idle"
    BY DEF ClearNext, ExportSize, ExportScan, JobOf, CallStep, starting
  <1>2. phase = "up"
    BY <1>1, RunningUp
  <1>3. /\ DOMAIN f = Threads
        /\ \A u \in Threads :
             /\ {"pc", "kind", "failed", "excused"} \subseteq DOMAIN f[u]
             /\ f[u].pc = call[u].pc /\ f[u].kind = call[u].kind
             /\ f[u].failed = call[u].failed /\ f[u].excused = call[u].excused
    BY AnsweredKeeps
  <1>4. DOMAIN call' = Threads /\ \A u \in Threads : Same(u)
    <2>1. CASE ClearNext(t)
      <3>1. call' = [f EXCEPT ![t].next = @ + 1]
        BY <2>1 DEF ClearNext
      <3> HIDE DEF f
      <3> QED
        BY <3>1, <1>3 DEF Same
    <2>2. CASE ExportSize(t)
      BY <2>2 DEF ExportSize, Same, ErrorInv, Shape
    <2>3. CASE ExportScan(t)
      <3> DEFINE got == [i \in 1 .. call[t].next |->
                           IF i = call[t].next THEN redis[Here(t)] ELSE call[t].got[i]]
                 g   == [call EXCEPT ![t].next = @ + 1]
      <3>1. call' = [g EXCEPT ![t].got = got]
        BY <2>3 DEF ExportScan, ErrorInv, Shape
      <3>2. /\ DOMAIN g = Threads
            /\ \A u \in Threads :
                 /\ {"pc", "kind", "failed", "excused"} \subseteq DOMAIN g[u]
                 /\ g[u].pc = call[u].pc /\ g[u].kind = call[u].kind
                 /\ g[u].failed = call[u].failed /\ g[u].excused = call[u].excused
        BY DEF ErrorInv, Shape
      <3> HIDE DEF g, got
      <3> QED
        BY <3>1, <3>2 DEF Same
    <2> QED
      BY <2>1, <2>2, <2>3
  <1> QED
    BY <1>1, <1>2, <1>4, CallGoesOn DEF Same

LEMMA ExportAllocGood ==
  ASSUME ErrorInv, NEW t \in Threads, ExportAlloc(t)
  PROVE  Good
  <1>1. CASE call' = Returned(t)
    BY <1>1, ReturnGood
  <1>2. CASE call' = [call EXCEPT ![t].pc = "scan", ![t].next = 1]
    <2>1. phase' = phase /\ errorPtr' = errorPtr /\ call[t].pc # "idle"
      BY DEF ExportAlloc, JobOf, CallStep, starting
    <2>2. phase = "up"
      BY <2>1, RunningUp
    <2>3. DOMAIN call' = Threads /\ \A u \in Threads \ {t} : Same(u)
      BY <1>2 DEF Same, ErrorInv, Shape
    <2>4. /\ {"pc", "kind", "failed", "excused"} \subseteq DOMAIN call'[t]
          /\ call'[t].pc # "idle" /\ call'[t].kind = call[t].kind
          /\ call'[t].failed = call[t].failed /\ call'[t].excused = call[t].excused
      BY <1>2 DEF ErrorInv, Shape
    <2> QED
      BY <2>1, <2>2, <2>3, <2>4, CallGoesOn
  <1> QED
    BY <1>1, <1>2 DEF ExportAlloc

LEMMA BeginGood ==
  ASSUME ErrorInv, NEW t \in Threads, NEW kind, NEW ks, NEW exists \in BOOLEAN,
         Begin(t, kind, ks, exists)
  PROVE  Good
  <1>1. phase' = phase /\ phase = "up" /\ errorPtr' = errorPtr /\ call[t].pc = "idle"
    BY DEF Begin, Idle, starting
  <1>2. /\ DOMAIN call' = Threads /\ \A u \in Threads \ {t} : call'[u] = call[u]
        /\ DOMAIN call'[t] = DOMAIN NoCall /\ call'[t].failed = FALSE
    BY DEF Begin, ErrorInv, Shape, NoCall
  <1>3. {"pc", "kind", "failed", "excused"} \subseteq DOMAIN call'[t]
    BY <1>2 DEF NoCall
  <1>4. (\A u \in Threads \ {t} : Same(u)) /\ ~ Owed(t)' /\ ~ Silent(t)
    BY <1>1, <1>2 DEF Same, ErrorInv, Shape, Owed, Silent
  <1> QED
    BY <1>1, <1>2, <1>3, <1>4, OneCall

LEMMA CallingGood ==
  ASSUME ErrorInv, NEW t \in Threads, Calling(t)
  PROVE  Good
  BY SelectGood, WriteGood, WriteFailsGood, ReadGood, ReturnGood, WriteErrorGood, BucketsGood,
     ExportAllocGood, BeginGood DEF Calling

(* What NoSilentLoss rests on holds at the start and is kept by every step.*)
THEOREM ErrorsKept == Spec => []ErrorInv
  <1>1. Init => ErrorInv
    BY DEF Init, ErrorInv, Shape, OnlyUp, ErrorKept, Owed, NoCall
  <1>2. ErrorInv /\ [Next /\ budget' = budget]_vars => ErrorInv'
    <2> SUFFICES ASSUME ErrorInv, [Next /\ budget' = budget]_vars PROVE ErrorInv'
      OBVIOUS
    <2>1. CASE UNCHANGED vars
      BY <2>1 DEF vars, starting, ErrorInv, Shape, OnlyUp, ErrorKept, Owed
    <2>2. CASE Finished
      BY <2>2 DEF Finished, vars, starting, ErrorInv, Shape, OnlyUp, ErrorKept, Owed
    <2>3. CASE Next /\ ~ Finished
      <3>1. Good
        BY <2>3, StartUpGood, ServerGood, CallingGood DEF Next
      <3> QED
        BY <3>1 DEF Good
    <2> QED
      BY <2>1, <2>2, <2>3
  <1> QED
    BY <1>1, <1>2, PTL DEF Spec

(* No write is lost in silence: a call whose command failed returns OK only*)
(* if another call has returned an error, its own, while it ran; although  *)
(* error_ptr is one for all calls and is read and reset in two steps.      *)
THEOREM NothingSilent == Spec => NoSilentLoss
  <1> DEFINE Step == \A t \in Threads : call[t].pc = "send" /\ call[t].failed /\ call[t].kind # "find"
                                        /\ call'[t].pc = "idle" /\ phase' = phase
                                          => call[t].excused
  <1>1. ErrorInv /\ [Next /\ budget' = budget]_vars => [Step]_vars
    <2> SUFFICES ASSUME ErrorInv, Next, vars' # vars PROVE Step
      OBVIOUS
    <2>1. ~ Finished
      BY DEF Finished
    <2>2. Good
      BY <2>1, StartUpGood, ServerGood, CallingGood DEF Next
    <2> QED
      BY <2>2 DEF Good, Silent
  <1> QED
    BY <1>1, ErrorsKept, PTL DEF Spec, NoSilentLoss
-----------------------------------------------------------------------------
(* Calls and their contexts.  As long as no two threads have raced for a   *)
(* new context, the context of a call that is using one is occupied, no    *)
(* other call uses it, and from there it sends its own command.            *)
Writing == {"insert", "accum", "remove"}
Command == [kind : Writing \cup {"find"}, keys : SUBSET Keys, exists : BOOLEAN, id : Nat]
Context == [occupied : BOOLEAN, request : Command \cup {Free}]

Own(t) == [kind |-> call[t].kind, keys |-> call[t].keys, exists |-> call[t].exists,
           id |-> call[t].id]
Commands(t) == call[t].pc \in {"select", "end", "push", "occupy", "prepare", "send", "throw"}
Holds(t)    == Using(t) \/ call[t].pc = "occupy"
Room(t)     == Len(contexts[Vector(t)])
Core        == {"pc", "kind", "keys", "exists", "id", "ctx", "pending"}

Globals ==
  /\ phase \in Phases /\ slices \in Layouts /\ slicesImport \in Layouts
  /\ todo \subseteq Bucket /\ DOMAIN jobs \subseteq Bucket /\ ttl \subseteq Bucket
  /\ errorPtr \in BOOLEAN /\ met \in BOOLEAN /\ intact \in BOOLEAN
  /\ budget \in Budgets /\ calls \in 0 .. budget.calls

CallOK(t) ==
  /\ Core \subseteq DOMAIN call[t]
  /\ Commands(t) => Own(t) \in Command /\ call[t].ctx \in Nat \ {0}
  /\ call[t].pc # "idle" => call[t].id \in 1 .. calls

PlaceOK(t) ==
  /\ call[t].pc \in {"select", "end", "push"} => call[t].ctx <= Room(t) + 1
  /\ Holds(t) => call[t].ctx <= Room(t)
  /\ call[t].pc = "send" => /\ Request(t) \in Command /\ Request(t).id <= calls
                            /\ VectorOf(Request(t).kind) = Vector(t)

OwnOK(t) ==
  /\ call[t].pc \in {"end", "push"} => call[t].ctx = Room(t) + 1
  /\ call[t].pc = "occupy" => call[t].ctx = Room(t)
  /\ Using(t) => contexts[Vector(t)][call[t].ctx].occupied
  /\ call[t].pc = "send" => Request(t) = Own(t)

Apart(t, u) ==
  Vector(t) = Vector(u) => /\ ~ (Appending(t) /\ Appending(u))
                           /\ Holds(t) /\ Holds(u) => call[t].ctx # call[u].ctx

Distinct(t, u) == Commands(t) /\ Commands(u) => call[t].id # call[u].id

Placed ==
  /\ contexts \in [Vectors -> Seq(Context)]
  /\ \A t \in Threads : CallOK(t) /\ PlaceOK(t)
  /\ \A t, u \in Threads : t # u => Distinct(t, u)
  /\ ~ met => (\A t \in Threads : OwnOK(t)) /\ \A t, u \in Threads : t # u => Apart(t, u)

CtxInv == Globals /\ Placed

(* What a running call keeps while others step, and while it answers.      *)
Alike(c, d) ==
  /\ Core \subseteq DOMAIN c
  /\ c.pc = d.pc /\ c.kind = d.kind /\ c.keys = d.keys /\ c.exists = d.exists
  /\ c.id = d.id /\ c.ctx = d.ctx

LEMMA WatchedAlike ==
  ASSUME NEW r, \A u \in Threads : Core \subseteq DOMAIN call[u]
  PROVE  \A u \in Threads : /\ Alike(Watched(r)[u], call[u])
                            /\ Watched(r)[u].pending = call[u].pending
  <1> SUFFICES ASSUME NEW u \in Threads
               PROVE  /\ Alike(Watched(r)[u], call[u])
                      /\ Watched(r)[u].pending = call[u].pending
    OBVIOUS
  <1>1. CASE call[u].pc = "idle"
    <2>1. Watched(r)[u] = call[u]
      BY <1>1 DEF Watched
    <2> QED
      BY <2>1 DEF Alike
  <1>2. CASE call[u].pc # "idle" /\ call[u].kind = "find"
    <2>1. Watched(r)[u] = [call[u] EXCEPT !.seen = @ \cup {<<k, r[BucketOf(k)][k]>> : k \in call[u].keys}]
      BY <1>2 DEF Watched
    <2> QED
      BY <2>1 DEF Alike, Core
  <1>3. CASE call[u].pc # "idle" /\ call[u].kind # "find"
    <2>1. Watched(r)[u] = [call[u] EXCEPT !.quiet = FALSE]
      BY <1>3 DEF Watched
    <2> QED
      BY <2>1 DEF Alike, Core
  <1> QED
    BY <1>1, <1>2, <1>3

LEMMA VectorsOf == \A kind : VectorOf(kind) \in Vectors
  BY DEF VectorOf, Vectors

(* One context of a vector is set.                                         *)
LEMMA SetContext ==
  ASSUME contexts \in [Vectors -> Seq(Context)], NEW v \in Vectors,
         NEW i \in 1 .. Len(contexts[v]), NEW c \in Context,
         NEW d, d = [contexts EXCEPT ![v] = [contexts[v] EXCEPT ![i] = c]]
  PROVE  /\ d \in [Vectors -> Seq(Context)]
         /\ \A w \in Vectors : Len(d[w]) = Len(contexts[w])
         /\ d[v][i] = c
         /\ \A w \in Vectors : \A j \in 1 .. Len(contexts[w]) :
              ~ (w = v /\ j = i) => d[w][j] = contexts[w][j]
  <1> DEFINE s == [contexts[v] EXCEPT ![i] = c]
  <1>1. contexts[v] \in Seq(Context)
    OBVIOUS
  <1>2. s \in Seq(Context) /\ Len(s) = Len(contexts[v])
    BY <1>1
  <1>3. s[i] = c /\ \A j \in 1 .. Len(contexts[v]) : j # i => s[j] = contexts[v][j]
    BY <1>1
  <1> HIDE DEF s
  <1>4. d = [contexts EXCEPT ![v] = s]
    BY DEF s
  <1> QED
    BY <1>2, <1>3, <1>4

(* A context is appended to a vector.                                      *)
LEMMA AddContext ==
  ASSUME contexts \in [Vectors -> Seq(Context)], NEW v \in Vectors, NEW c \in Context,
         NEW d, d = [contexts EXCEPT ![v] = Append(contexts[v], c)]
  PROVE  /\ d \in [Vectors -> Seq(Context)]
         /\ \A w \in Vectors : Len(d[w]) = IF w = v THEN Len(contexts[w]) + 1 ELSE Len(contexts[w])
         /\ d[v][Len(contexts[v]) + 1] = c
         /\ \A w \in Vectors : \A j \in 1 .. Len(contexts[w]) : d[w][j] = contexts[w][j]
  OBVIOUS
-----------------------------------------------------------------------------
(* Steps that leave calls and contexts as they are, as far as that goes.   *)
LEMMA PlacesStay ==
  ASSUME Placed, \A u \in Threads : Alike(call'[u], call[u]),
         contexts' = contexts, met' = met, calls' = calls
  PROVE  Placed'
  <1>1. \A u \in Threads : /\ Vector(u)' = Vector(u) /\ Own(u)' = Own(u) /\ Room(u)' = Room(u)
                           /\ Request(u)' = Request(u) /\ Commands(u)' = Commands(u)
                           /\ Using(u)' = Using(u) /\ Holds(u)' = Holds(u)
                           /\ Appending(u)' = Appending(u)
    BY DEF Alike, Vector, Own, Room, Request, Commands, Using, Holds, Appending
  <1>2. \A u \in Threads : CallOK(u)'
    BY <1>1 DEF Placed, CallOK, Alike
  <1>3. \A u \in Threads : PlaceOK(u)'
    BY <1>1 DEF Placed, PlaceOK, Alike
  <1>4. ~ met => \A u \in Threads : OwnOK(u)'
    BY <1>1 DEF Placed, OwnOK, Alike
  <1>5. \A t, u \in Threads : t # u => Distinct(t, u)'
    BY <1>1 DEF Placed, Distinct, Alike
  <1>6. ~ met => \A t, u \in Threads : t # u => Apart(t, u)'
    BY <1>1 DEF Placed, Apart, Alike
  <1> QED
    BY <1>2, <1>3, <1>4, <1>5, <1>6 DEF Placed

(* No call runs.                                                           *)
LEMMA PlacesEmpty ==
  ASSUME contexts' \in [Vectors -> Seq(Context)],
         \A u \in Threads : Core \subseteq DOMAIN call'[u] /\ call'[u].pc = "idle"
  PROVE  Placed'
  BY DEF Placed, CallOK, PlaceOK, OwnOK, Apart, Distinct, Commands, Using, Holds,
         Appending

(* A step of t: what it leaves to the others of the contexts they are at.  *)
Left(u) ==
  /\ Alike(call'[u], call[u]) /\ Len(contexts'[Vector(u)]) >= Room(u)
  /\ call[u].pc = "send" => /\ contexts'[Vector(u)][call[u].ctx].request \in Command
                            /\ contexts'[Vector(u)][call[u].ctx].request.id <= calls'
                            /\ VectorOf(contexts'[Vector(u)][call[u].ctx].request.kind) = Vector(u)
  /\ ~ met' => /\ ~ met
               /\ Appending(u) => Len(contexts'[Vector(u)]) = Room(u)
               /\ Using(u) => contexts'[Vector(u)][call[u].ctx].occupied
               /\ call[u].pc = "send" =>
                    contexts'[Vector(u)][call[u].ctx].request = Request(u)

LEMMA OnePlace ==
  ASSUME Placed, NEW t \in Threads, contexts' \in [Vectors -> Seq(Context)],
         calls \in Nat, calls' \in Nat, calls' >= calls,
         \A u \in Threads \ {t} : Left(u),
         CallOK(t)', PlaceOK(t)', ~ met' => OwnOK(t)',
         \A u \in Threads \ {t} : Distinct(t, u)' /\ (~ met' => Apart(t, u)')
  PROVE  Placed'
  <1>1. \A u \in Threads \ {t} : /\ Vector(u)' = Vector(u) /\ Own(u)' = Own(u)
                                 /\ Commands(u)' = Commands(u) /\ Using(u)' = Using(u)
                                 /\ Holds(u)' = Holds(u) /\ Appending(u)' = Appending(u)
                                 /\ Room(u)' = Len(contexts'[Vector(u)])
                                 /\ Request(u)' = contexts'[Vector(u)][call[u].ctx].request
    BY DEF Left, Alike, Vector, Own, Commands, Using, Holds, Appending, Room, Request
  <1>2. \A u \in Threads \ {t} : CallOK(u)'
    BY <1>1 DEF Placed, CallOK, Left, Alike
  <1>3. \A u \in Threads \ {t} : PlaceOK(u)'
    <2> SUFFICES ASSUME NEW u \in Threads \ {t} PROVE PlaceOK(u)'
      OBVIOUS
    <2>1. PlaceOK(u) /\ Left(u) /\ CallOK(u)
      BY DEF Placed
    <2>2. Vector(u) \in Vectors
      BY VectorsOf DEF Vector
    <2>3. Room(u) \in Nat /\ Len(contexts'[Vector(u)]) \in Nat
      BY <2>2 DEF Placed, Room
    <2> QED
      BY <1>1, <2>1, <2>3 DEF PlaceOK, Left, Alike, CallOK, Commands, Using, Holds
  <1>4. ~ met' => \A u \in Threads \ {t} : OwnOK(u)'
    BY <1>1 DEF Placed, OwnOK, Left, Alike, Appending
  <1>5. \A u, w \in Threads \ {t} : u # w => Distinct(u, w)'
    BY <1>1 DEF Placed, Distinct, Left, Alike
  <1>6. ~ met' => \A u, w \in Threads \ {t} : u # w => Apart(u, w)'
    BY <1>1 DEF Placed, Apart, Left, Alike
  <1>7. \A u \in Threads \ {t} : Distinct(u, t)' /\ (~ met' => Apart(u, t)')
    BY DEF Distinct, Apart
  <1> QED
    BY <1>2, <1>3, <1>4, <1>5, <1>6, <1>7 DEF Placed

(* The contexts stay: all that is left to the others is as it was.         *)
LEMMA LeftAlone ==
  ASSUME Placed, NEW u \in Threads, Alike(call'[u], call[u]), contexts' = contexts,
         ~ met' => ~ met, calls \in Nat, calls' \in Nat, calls' >= calls
  PROVE  Left(u)
  <1>1. Vector(u) \in Vectors
    BY VectorsOf DEF Vector
  <1>2. Room(u) \in Nat
    BY <1>1 DEF Placed, Room
  <1>3. /\ PlaceOK(u) /\ (~ met => OwnOK(u))
        /\ call[u].pc = "send" => Request(u).id \in Nat
    BY DEF Placed, PlaceOK, Command
  <1> QED
    BY <1>2, <1>3 DEF PlaceOK, OwnOK, Left, Room, Request
-----------------------------------------------------------------------------
(* Each step of a call, for the contexts.                                  *)
LEMMA SelectTryPlaced ==
  ASSUME ErrorInv, CtxInv, NEW t \in Threads, SelectTry(t)
  PROVE  Placed'
  <1> DEFINE v == Vector(t)
             i == call[t].ctx
  <1>1. /\ Placed /\ DOMAIN call = Threads /\ CallOK(t) /\ call[t].pc = "select"
        /\ calls' = calls /\ calls \in Nat /\ (~ met' => ~ met)
        /\ i <= Len(contexts[v]) /\ i \in Nat \ {0}
    BY DEF CtxInv, Globals, Placed, CallOK, Commands, ErrorInv, Shape, SelectTry, CallStep,
           RedisAssumption
  <1>2. v \in Vectors /\ contexts[v] \in Seq(Context) /\ contexts \in [Vectors -> Seq(Context)]
    BY <1>1, VectorsOf DEF Placed, Vector
  <1>3. i \in 1 .. Len(contexts[v])
    BY <1>1, <1>2
  <1>4. CASE Occupied(v, i)
    <2>1. call' = [call EXCEPT ![t].ctx = i + 1] /\ contexts' = contexts
      BY <1>4 DEF SelectTry
    <2>2. /\ call'[t].pc = "select" /\ call'[t].ctx = i + 1 /\ call'[t].kind = call[t].kind
          /\ call'[t].id = call[t].id /\ Own(t)' = Own(t) /\ Core \subseteq DOMAIN call'[t]
      BY <1>1, <2>1 DEF CallOK, Own, Core
    <2>3. \A u \in Threads \ {t} : call'[u] = call[u]
      BY <1>1, <2>1
    <2>4. \A u \in Threads \ {t} : Left(u)
      BY <1>1, <2>1, <2>3, LeftAlone DEF Alike, Placed, CallOK
    <2>5. Vector(t)' = v /\ Room(t)' = Len(contexts[v])
      BY <2>1, <2>2 DEF Vector, Room
    <2>6. CallOK(t)' /\ PlaceOK(t)' /\ OwnOK(t)'
      BY <1>1, <1>2, <2>2, <2>5 DEF CallOK, PlaceOK, OwnOK, Using, Holds, Commands
    <2>7. \A u \in Threads \ {t} : Distinct(t, u)' /\ Apart(t, u)'
      BY <1>1, <2>2, <2>3 DEF Distinct, Apart, Using, Holds, Appending, Placed, Commands
    <2> QED
      BY <1>1, <1>2, <2>1, <2>4, <2>6, <2>7, OnePlace
  <1>5. CASE ~ Occupied(v, i)
    <2> DEFINE c == [contexts[v][i] EXCEPT !.occupied = TRUE]
    <2>1. call' = [call EXCEPT ![t].pc = "prepare"]
      BY <1>5 DEF SelectTry, Goto
    <2>2. contexts[v][i] \in Context
      BY <1>2, <1>3
    <2>3. c \in Context /\ c.occupied /\ c.request = contexts[v][i].request
      BY <2>2 DEF Context
    <2>4. contexts' = [contexts EXCEPT ![v] = [contexts[v] EXCEPT ![i] = c]]
      BY <1>5, <1>2, <1>3, <2>2 DEF SelectTry, Context
    <2> HIDE DEF c
    <2>5. /\ contexts' \in [Vectors -> Seq(Context)]
          /\ \A w \in Vectors : Len(contexts'[w]) = Len(contexts[w])
          /\ contexts'[v][i] = c
          /\ \A w \in Vectors : \A j \in 1 .. Len(contexts[w]) :
               ~ (w = v /\ j = i) => contexts'[w][j] = contexts[w][j]
      BY <1>2, <1>3, <2>3, <2>4, SetContext
    <2>6. /\ call'[t].pc = "prepare" /\ call'[t].ctx = i /\ call'[t].kind = call[t].kind
          /\ call'[t].id = call[t].id /\ Own(t)' = Own(t) /\ Core \subseteq DOMAIN call'[t]
      BY <1>1, <2>1 DEF CallOK, Own, Core
    <2>7. \A u \in Threads \ {t} : call'[u] = call[u]
      BY <1>1, <2>1
    <2>8. ASSUME NEW u \in Threads \ {t}
          PROVE  /\ Left(u) /\ Distinct(t, u)' /\ (~ met' => Apart(t, u)')
      <3>1. CallOK(u) /\ PlaceOK(u) /\ Alike(call'[u], call[u])
        BY <1>1, <2>7 DEF Placed, CallOK, Alike
      <3>2. Vector(u) \in Vectors
        BY VectorsOf DEF Vector
      <3>3. Len(contexts'[Vector(u)]) = Room(u) /\ Room(u) \in Nat
        BY <1>2, <2>5, <3>2 DEF Room
      <3>4. Using(u) => call[u].ctx \in 1 .. Len(contexts[Vector(u)])
        BY <3>1, <3>3 DEF PlaceOK, CallOK, Commands, Using, Holds, Room
      <3>5. Using(u) => \/ contexts'[Vector(u)][call[u].ctx] = contexts[Vector(u)][call[u].ctx]
                        \/ Vector(u) = v /\ call[u].ctx = i /\ contexts'[Vector(u)][call[u].ctx] = c
        BY <2>5, <3>2, <3>4
      <3>6. ~ met' /\ Holds(u) => ~ (Vector(u) = v /\ call[u].ctx = i)
        <4>1. met' = (met \/ \E w \in Rivals(t) : call[w].ctx = i)
          BY <1>5 DEF SelectTry
        <4>2. ~ met' /\ call[u].pc = "occupy" => ~ (Vector(u) = v /\ call[u].ctx = i)
          BY <4>1 DEF Rivals, Appending
        <4>3. ~ met /\ Using(u) => ~ (Vector(u) = v /\ call[u].ctx = i)
          BY <1>1, <1>5 DEF Occupied, Placed, OwnOK
        <4> QED
          BY <1>1, <4>2, <4>3 DEF Holds
      <3>7. ~ met => OwnOK(u)
        BY <1>1 DEF Placed
      <3>8. Left(u)
        BY <1>1, <2>3, <3>1, <3>3, <3>5, <3>6, <3>7 DEF Left, PlaceOK, OwnOK, Using, Holds, Request
      <3>9. Distinct(t, u)'
        BY <1>1, <2>6, <2>7 DEF Placed, Distinct, Commands
      <3>10. ~ met' => Apart(t, u)'
        <4>1. Vector(u)' = Vector(u) /\ Vector(t)' = v /\ Holds(u)' = Holds(u)
          BY <2>6, <2>7 DEF Vector, Using, Holds
        <4>2. ~ Appending(t)'
          BY <2>6 DEF Appending
        <4> QED
          BY <1>1, <2>6, <2>7, <3>6, <4>1, <4>2 DEF Apart
      <3> QED
        BY <3>8, <3>9, <3>10
    <2>9. Vector(t)' = v /\ Room(t)' = Len(contexts[v])
      BY <1>2, <2>5, <2>6 DEF Vector, Room
    <2>10. CallOK(t)' /\ PlaceOK(t)'
      BY <1>1, <1>2, <2>6, <2>9 DEF CallOK, PlaceOK, Using, Holds, Commands
    <2>11. OwnOK(t)'
      BY <2>3, <2>5, <2>6, <2>9 DEF OwnOK
    <2> QED
      BY <1>1, <2>5, <2>8, <2>10, <2>11, OnePlace
  <1> QED
    BY <1>4, <1>5

LEMMA SelectEndPlaced ==
  ASSUME ErrorInv, CtxInv, NEW t \in Threads, SelectEnd(t)
  PROVE  Placed'
  <1> DEFINE v == Vector(t)
  <1>1. /\ Placed /\ DOMAIN call = Threads /\ CallOK(t) /\ PlaceOK(t) /\ call[t].pc = "select"
        /\ calls' = calls /\ calls \in Nat /\ contexts' = contexts
        /\ call[t].ctx > Len(contexts[v]) /\ call[t].ctx \in Nat \ {0}
        /\ met' = (met \/ Rivals(t) # {})
        /\ call' = [call EXCEPT ![t].pc = "end"]
    BY DEF CtxInv, Globals, Placed, CallOK, Commands, ErrorInv, Shape, SelectEnd, CallStep,
           RedisAssumption, Goto
  <1>2. v \in Vectors /\ contexts[v] \in Seq(Context) /\ contexts \in [Vectors -> Seq(Context)]
    BY <1>1, VectorsOf DEF Placed, Vector
  <1>3. call[t].ctx = Len(contexts[v]) + 1
    BY <1>1, <1>2 DEF PlaceOK, Room
  <1>4. /\ call'[t].pc = "end" /\ call'[t].ctx = call[t].ctx /\ call'[t].kind = call[t].kind
        /\ call'[t].id = call[t].id /\ Own(t)' = Own(t) /\ Core \subseteq DOMAIN call'[t]
    BY <1>1 DEF CallOK, Own, Core
  <1>5. \A u \in Threads \ {t} : call'[u] = call[u]
    BY <1>1
  <1>6. ~ met' => ~ met /\ \A u \in Threads \ {t} : ~ (Appending(u) /\ Vector(u) = v)
    BY <1>1 DEF Rivals
  <1>7. \A u \in Threads \ {t} : Left(u)
    BY <1>1, <1>5, <1>6, LeftAlone DEF Alike, Placed, CallOK
  <1>8. Vector(t)' = v /\ Room(t)' = Len(contexts[v])
    BY <1>1, <1>4 DEF Vector, Room
  <1>9. CallOK(t)' /\ PlaceOK(t)' /\ OwnOK(t)'
    BY <1>1, <1>2, <1>3, <1>4, <1>8 DEF CallOK, PlaceOK, OwnOK, Using, Holds, Commands
  <1>10. ASSUME NEW u \in Threads \ {t} PROVE Distinct(t, u)' /\ (~ met' => Apart(t, u)')
    <2>1. Vector(u)' = Vector(u) /\ Appending(u)' = Appending(u)
      BY <1>5 DEF Vector, Appending
    <2>2. Distinct(t, u)'
      BY <1>1, <1>4, <1>5 DEF Placed, Distinct, Commands
    <2>3. ~ met' => Apart(t, u)'
      BY <1>4, <1>6, <1>8, <2>1 DEF Apart, Using, Holds
    <2> QED
      BY <2>2, <2>3
  <1> QED
    BY <1>1, <1>2, <1>7, <1>9, <1>10, OnePlace

(* A thread that was alone at the end still finds the vector as it was.    *)
LEMMA SelectSizePlaced ==
  ASSUME ErrorInv, CtxInv, NEW t \in Threads, SelectSize(t)
  PROVE  Placed'
  <1> DEFINE v    == Vector(t)
             next == IF call[t].ctx = Len(contexts[v]) + 1 THEN "push" ELSE "prepare"
  <1>1. /\ Placed /\ DOMAIN call = Threads /\ CallOK(t) /\ PlaceOK(t) /\ call[t].pc = "end"
        /\ calls' = calls /\ calls \in Nat /\ contexts' = contexts /\ met' = met
        /\ call[t].ctx \in Nat \ {0} /\ contexts \in [Vectors -> Seq(Context)]
        /\ call' = [call EXCEPT ![t].pc = next]
        /\ ~ met => OwnOK(t) /\ \A u \in Threads \ {t} : Apart(t, u)
    BY DEF CtxInv, Globals, Placed, CallOK, Commands, ErrorInv, Shape, SelectSize, CallStep,
           RedisAssumption, Goto
  <1>2. v \in Vectors /\ Len(contexts[v]) \in Nat
    BY <1>1, VectorsOf DEF Vector
  <1>3. \/ next = "push" /\ call[t].ctx = Len(contexts[v]) + 1
        \/ next = "prepare" /\ call[t].ctx <= Len(contexts[v]) /\ met
    <2>1. call[t].ctx <= Len(contexts[v]) + 1
      BY <1>1 DEF PlaceOK, Room
    <2>2. met \/ call[t].ctx = Len(contexts[v]) + 1
      BY <1>1 DEF OwnOK, Room
    <2>3. CASE call[t].ctx = Len(contexts[v]) + 1
      BY <2>3
    <2>4. CASE call[t].ctx # Len(contexts[v]) + 1
      BY <1>1, <1>2, <2>1, <2>2, <2>4
    <2> QED
      BY <2>3, <2>4
  <1> HIDE DEF next
  <1>4. /\ call'[t].pc = next /\ call'[t].ctx = call[t].ctx /\ call'[t].kind = call[t].kind
        /\ call'[t].id = call[t].id /\ Own(t)' = Own(t) /\ Core \subseteq DOMAIN call'[t]
    BY <1>1 DEF CallOK, Own, Core
  <1>5. \A u \in Threads \ {t} : call'[u] = call[u]
    BY <1>1
  <1>6. \A u \in Threads \ {t} : Left(u)
    BY <1>1, <1>5, LeftAlone DEF Alike, Placed, CallOK
  <1>7. Vector(t)' = v /\ Room(t)' = Len(contexts[v])
    BY <1>1, <1>4 DEF Vector, Room
  <1>8. CallOK(t)' /\ PlaceOK(t)' /\ (~ met => OwnOK(t)')
    BY <1>1, <1>2, <1>3, <1>4, <1>7 DEF CallOK, PlaceOK, OwnOK, Using, Holds, Commands
  <1>9. ASSUME NEW u \in Threads \ {t} PROVE Distinct(t, u)' /\ (~ met => Apart(t, u)')
    <2>1. Vector(u)' = Vector(u) /\ Appending(u)' = Appending(u)
      BY <1>5 DEF Vector, Appending
    <2>2. Distinct(t, u)'
      BY <1>1, <1>3, <1>4, <1>5 DEF Placed, Distinct, Commands
    <2>3. ~ met => Apart(t, u)'
      BY <1>1, <1>3, <1>4, <1>7, <2>1 DEF Apart, Appending, Using, Holds
    <2> QED
      BY <2>2, <2>3
  <1> QED
    BY <1>1, <1>6, <1>8, <1>9, OnePlace

LEMMA SelectPushPlaced ==
  ASSUME ErrorInv, CtxInv, NEW t \in Threads, SelectPush(t)
  PROVE  Placed'
  <1> DEFINE v == Vector(t)
             i == call[t].ctx
             c == [occupied |-> FALSE, request |-> Free]
  <1>1. /\ Placed /\ DOMAIN call = Threads /\ CallOK(t) /\ PlaceOK(t) /\ call[t].pc = "push"
        /\ calls' = calls /\ calls \in Nat /\ met' = met /\ i \in Nat \ {0}
        /\ call' = [call EXCEPT ![t].pc = "occupy"]
        /\ ~ met => OwnOK(t)
        /\ ~ met => \A u \in Threads \ {t} : Apart(t, u) /\ OwnOK(u)
    BY DEF CtxInv, Globals, Placed, CallOK, Commands, ErrorInv, Shape, SelectPush, CallStep,
           RedisAssumption, Goto
  <1>2. v \in Vectors /\ contexts[v] \in Seq(Context) /\ contexts \in [Vectors -> Seq(Context)]
    BY <1>1, VectorsOf DEF Placed, Vector
  <1>3. /\ call'[t].pc = "occupy" /\ call'[t].ctx = i /\ call'[t].kind = call[t].kind
        /\ call'[t].id = call[t].id /\ Own(t)' = Own(t) /\ Core \subseteq DOMAIN call'[t]
    BY <1>1 DEF CallOK, Own, Core
  <1>4. \A u \in Threads \ {t} : call'[u] = call[u]
    BY <1>1
  <1>5. \A u \in Threads \ {t} : /\ Distinct(t, u)' /\ Vector(u)' = Vector(u)
                                 /\ Holds(u)' = Holds(u) /\ Appending(u)' = Appending(u)
    BY <1>1, <1>3, <1>4 DEF Placed, Distinct, Commands, Vector, Using, Holds, Appending
  <1>6. CallOK(t)' /\ Vector(t)' = v /\ ~ Using(t)'
    BY <1>1, <1>3 DEF CallOK, Commands, Vector, Using
  <1>7. /\ i <= Len(contexts[v]) + 1
        /\ ~ met => i = Len(contexts[v]) + 1
    BY <1>1 DEF PlaceOK, OwnOK, Room
  <1>8. contexts' = [contexts EXCEPT ![v] = Append(contexts[v], c)]
    BY <1>2 DEF SelectPush
  <1>9. c \in Context
    BY DEF Context
  <1> HIDE DEF c
  <1>10. /\ contexts' \in [Vectors -> Seq(Context)]
         /\ \A w \in Vectors : Len(contexts'[w]) = IF w = v THEN Len(contexts[w]) + 1
                                                   ELSE Len(contexts[w])
         /\ \A w \in Vectors : \A j \in 1 .. Len(contexts[w]) : contexts'[w][j] = contexts[w][j]
    BY <1>2, <1>8, <1>9, AddContext
  <1>11. Room(t)' = Len(contexts[v]) + 1
    BY <1>2, <1>6, <1>10 DEF Room
  <1>12. PlaceOK(t)' /\ (~ met => OwnOK(t)')
    BY <1>1, <1>3, <1>6, <1>7, <1>11 DEF PlaceOK, OwnOK
  <1>13. ASSUME NEW u \in Threads \ {t}
         PROVE  Left(u) /\ (~ met' => Apart(t, u)')
    <2>1. CallOK(u) /\ PlaceOK(u) /\ Alike(call'[u], call[u])
      BY <1>1, <1>4 DEF Placed, CallOK, Alike
    <2>2. Vector(u) \in Vectors
      BY VectorsOf DEF Vector
    <2>3. Room(u) \in Nat
      BY <1>2, <2>2 DEF Room
    <2>4. /\ Len(contexts'[Vector(u)]) >= Room(u)
          /\ Vector(u) # v => Len(contexts'[Vector(u)]) = Room(u)
      BY <1>2, <1>10, <2>2, <2>3 DEF Room
    <2>5. Holds(u) => call[u].ctx \in 1 .. Room(u)
      BY <2>1, <2>3 DEF PlaceOK, CallOK, Commands, Using, Holds
    <2>6. Using(u) => contexts'[Vector(u)][call[u].ctx] = contexts[Vector(u)][call[u].ctx]
      BY <1>10, <2>2, <2>5 DEF Room, Holds
    <2>7. ~ met /\ Appending(u) => Vector(u) # v
      BY <1>1 DEF Apart, Appending
    <2>8. Left(u)
      BY <1>1, <2>1, <2>4, <2>6, <2>7 DEF Left, PlaceOK, OwnOK, Using, Request
    <2>9. ~ met /\ Holds(u) /\ Vector(u) = v => call[u].ctx # i
      BY <1>2, <1>7, <2>5 DEF Room
    <2>10. ~ met' => Apart(t, u)'
      BY <1>1, <1>3, <1>4, <1>5, <1>6, <2>7, <2>9 DEF Apart
    <2> QED
      BY <2>8, <2>10
  <1> QED
    BY <1>1, <1>5, <1>6, <1>10, <1>12, <1>13, OnePlace

(* One context is set: what that leaves to a call that may be there too.   *)
LEMMA LeftBySet ==
  ASSUME Placed, NEW v \in Vectors, NEW i \in 1 .. Len(contexts[v]), NEW c \in Context,
         contexts' = [contexts EXCEPT ![v] = [contexts[v] EXCEPT ![i] = c]], met' = met,
         calls' = calls, NEW u \in Threads, Alike(call'[u], call[u]),
         ~ met /\ Using(u) /\ Vector(u) = v /\ call[u].ctx = i => c.occupied,
         ~ met /\ call[u].pc = "send" /\ Vector(u) = v /\ call[u].ctx = i
           => c.request = Request(u),
         call[u].pc = "send" /\ Vector(u) = v /\ call[u].ctx = i
           => c.request \in Command /\ c.request.id <= calls /\ VectorOf(c.request.kind) = v
  PROVE  Left(u)
  <1>1. CallOK(u) /\ PlaceOK(u) /\ (~ met => OwnOK(u))
    BY DEF Placed
  <1>2. Vector(u) \in Vectors
    BY VectorsOf DEF Vector
  <1>3. /\ \A w \in Vectors : Len(contexts'[w]) = Len(contexts[w])
        /\ contexts'[v][i] = c
        /\ \A w \in Vectors : \A j \in 1 .. Len(contexts[w]) :
             ~ (w = v /\ j = i) => contexts'[w][j] = contexts[w][j]
    BY SetContext DEF Placed
  <1>4. Len(contexts'[Vector(u)]) = Room(u) /\ Room(u) \in Nat
    BY <1>2, <1>3 DEF Room, Placed
  <1>5. Using(u) => call[u].ctx \in 1 .. Len(contexts[Vector(u)])
    BY <1>1, <1>4 DEF PlaceOK, CallOK, Commands, Using, Holds, Room
  <1>6. Using(u) => \/ contexts'[Vector(u)][call[u].ctx] = contexts[Vector(u)][call[u].ctx]
                    \/ Vector(u) = v /\ call[u].ctx = i /\ contexts'[Vector(u)][call[u].ctx] = c
    BY <1>2, <1>3, <1>5
  <1> QED
    BY <1>1, <1>4, <1>6 DEF Left, PlaceOK, OwnOK, Using, Holds, Request

(* The last context is marked, which is t's own if it was alone.           *)
LEMMA SelectOccupyPlaced ==
  ASSUME ErrorInv, CtxInv, NEW t \in Threads, SelectOccupy(t)
  PROVE  Placed'
  <1> DEFINE v == Vector(t)
             i == Len(contexts[v])
             c == [contexts[v][i] EXCEPT !.occupied = TRUE]
  <1>1. /\ Placed /\ DOMAIN call = Threads /\ CallOK(t) /\ PlaceOK(t) /\ call[t].pc = "occupy"
        /\ calls' = calls /\ calls \in Nat /\ met' = met
        /\ call' = [call EXCEPT ![t].pc = "prepare"]
        /\ call[t].ctx \in Nat \ {0} /\ call[t].ctx <= i
        /\ ~ met => call[t].ctx = i
        /\ ~ met => \A u \in Threads \ {t} : Apart(t, u)
    BY DEF CtxInv, Globals, Placed, CallOK, PlaceOK, OwnOK, Room, Holds, Commands, ErrorInv, Shape,
           SelectOccupy, CallStep, RedisAssumption, Goto
  <1>2. v \in Vectors /\ contexts[v] \in Seq(Context) /\ contexts \in [Vectors -> Seq(Context)]
    BY <1>1, VectorsOf DEF Placed, Vector
  <1>3. i \in 1 .. Len(contexts[v]) /\ contexts[v][i] \in Context
    BY <1>1, <1>2
  <1>4. c \in Context /\ c.request = contexts[v][i].request /\ c.occupied
    BY <1>3 DEF Context
  <1>5. contexts' = [contexts EXCEPT ![v] = [contexts[v] EXCEPT ![i] = c]]
    BY <1>2, <1>3 DEF SelectOccupy, Context
  <1> HIDE DEF c
  <1>6. /\ contexts' \in [Vectors -> Seq(Context)] /\ contexts'[v][i] = c
        /\ Len(contexts'[v]) = Len(contexts[v])
    BY <1>2, <1>3, <1>4, <1>5, SetContext
  <1>7. /\ call'[t].pc = "prepare" /\ call'[t].ctx = call[t].ctx /\ call'[t].kind = call[t].kind
        /\ call'[t].id = call[t].id /\ Own(t)' = Own(t) /\ Core \subseteq DOMAIN call'[t]
    BY <1>1 DEF CallOK, Own, Core
  <1>8. \A u \in Threads \ {t} : call'[u] = call[u]
    BY <1>1
  <1>9. \A u \in Threads \ {t} : /\ Distinct(t, u)' /\ Vector(u)' = Vector(u)
                                 /\ Holds(u)' = Holds(u)
    BY <1>1, <1>7, <1>8 DEF Placed, Distinct, Commands, Vector, Using, Holds
  <1>10. CallOK(t)' /\ Vector(t)' = v /\ ~ Appending(t)'
    BY <1>1, <1>7 DEF CallOK, Commands, Vector, Appending
  <1>11. Room(t)' = i
    BY <1>6, <1>10 DEF Room
  <1>12. PlaceOK(t)' /\ (~ met => OwnOK(t)')
    BY <1>1, <1>4, <1>6, <1>7, <1>10, <1>11 DEF PlaceOK, OwnOK, Using
  <1>13. ASSUME NEW u \in Threads \ {t}
         PROVE  Left(u) /\ (~ met' => Apart(t, u)')
    <2>1. Alike(call'[u], call[u]) /\ PlaceOK(u)
      BY <1>1, <1>8 DEF Placed, CallOK, Alike
    <2>2. call[u].pc = "send" /\ Vector(u) = v /\ call[u].ctx = i => c.request = Request(u)
      BY <1>4 DEF Request
    <2>3. Left(u)
      BY <1>1, <1>2, <1>3, <1>4, <1>5, <2>1, <2>2, LeftBySet DEF PlaceOK
    <2>4. ~ met' => Apart(t, u)'
      BY <1>1, <1>7, <1>8, <1>9, <1>10 DEF Apart, Holds
    <2> QED
      BY <2>3, <2>4
  <1> QED
    BY <1>1, <1>6, <1>9, <1>10, <1>12, <1>13, OnePlace

LEMMA PreparePlaced ==
  ASSUME ErrorInv, CtxInv, NEW t \in Threads, Prepare(t)
  PROVE  Placed'
  <1> DEFINE v == Vector(t)
             i == call[t].ctx
             c == [contexts[v][i] EXCEPT !.request = Own(t)]
  <1>1. /\ Placed /\ DOMAIN call = Threads /\ CallOK(t) /\ PlaceOK(t) /\ call[t].pc = "prepare"
        /\ calls' = calls /\ calls \in Nat /\ met' = met /\ Own(t) \in Command
        /\ call' = [call EXCEPT ![t].pc = "send", ![t].pending = ToSet(slices)]
        /\ i \in Nat \ {0} /\ i <= Len(contexts[v])
        /\ ~ met => \A u \in Threads \ {t} : Apart(t, u)
    BY DEF CtxInv, Globals, Placed, CallOK, PlaceOK, Room, Using, Holds, Commands, ErrorInv, Shape,
           Prepare, CallStep, RedisAssumption
  <1>2. v \in Vectors /\ contexts[v] \in Seq(Context) /\ contexts \in [Vectors -> Seq(Context)]
    BY <1>1, VectorsOf DEF Placed, Vector
  <1>3. i \in 1 .. Len(contexts[v]) /\ contexts[v][i] \in Context
    BY <1>1, <1>2
  <1>4. c \in Context /\ c.request = Own(t) /\ c.occupied = contexts[v][i].occupied
    BY <1>1, <1>3 DEF Context
  <1>5. contexts' = [contexts EXCEPT ![v] = [contexts[v] EXCEPT ![i] = c]]
    BY <1>2, <1>3 DEF Prepare, Own, Context
  <1> HIDE DEF c
  <1>6. /\ contexts' \in [Vectors -> Seq(Context)] /\ contexts'[v][i] = c
        /\ Len(contexts'[v]) = Len(contexts[v])
    BY <1>2, <1>3, <1>4, <1>5, SetContext
  <1>7. /\ call'[t].pc = "send" /\ call'[t].ctx = i /\ call'[t].kind = call[t].kind
        /\ call'[t].id = call[t].id /\ Own(t)' = Own(t) /\ Core \subseteq DOMAIN call'[t]
    BY <1>1 DEF CallOK, Own, Core
  <1>8. \A u \in Threads \ {t} : call'[u] = call[u]
    BY <1>1
  <1>9. \A u \in Threads \ {t} : Distinct(t, u)' /\ Vector(u)' = Vector(u) /\ Holds(u)' = Holds(u)
    BY <1>1, <1>7, <1>8 DEF Placed, Distinct, Commands, Vector, Using, Holds
  <1>10. CallOK(t)' /\ Vector(t)' = v /\ Using(t)' /\ ~ Appending(t)'
    BY <1>1, <1>7 DEF CallOK, Commands, Vector, Using, Appending
  <1>11. /\ Room(t)' = Len(contexts[v]) /\ Request(t)' = Own(t)
         /\ VectorOf(Own(t).kind) = v /\ Own(t).id <= calls
    BY <1>1, <1>4, <1>6, <1>7, <1>10 DEF Room, Request, Own, Vector, CallOK
  <1>12. PlaceOK(t)' /\ (~ met => OwnOK(t)')
    <2>1. ~ met => contexts[v][i].occupied
      BY <1>1 DEF Placed, OwnOK, Using
    <2> QED
      BY <1>1, <1>4, <1>6, <1>7, <1>10, <1>11, <2>1 DEF PlaceOK, OwnOK, Using, Holds
  <1>13. ASSUME NEW u \in Threads \ {t}
         PROVE  Left(u) /\ (~ met' => Apart(t, u)')
    <2>1. Alike(call'[u], call[u])
      BY <1>1, <1>8 DEF Placed, CallOK, Alike
    <2>2. ~ met /\ Holds(u) => ~ (Vector(u) = v /\ call[u].ctx = i)
      BY <1>1 DEF Apart, Using, Holds
    <2>3. c.request \in Command /\ c.request.id <= calls /\ VectorOf(c.request.kind) = v
      BY <1>1, <1>4, <1>11
    <2>4. Left(u)
      BY <1>1, <1>2, <1>3, <1>4, <1>5, <2>1, <2>2, <2>3, LeftBySet DEF Holds, Using
    <2>5. ~ met' => Apart(t, u)'
      BY <1>1, <1>7, <1>8, <1>9, <1>10, <2>2 DEF Apart
    <2> QED
      BY <2>4, <2>5
  <1> QED
    BY <1>1, <1>6, <1>9, <1>10, <1>12, <1>13, OnePlace

LEMMA WriteThrowPlaced ==
  ASSUME ErrorInv, CtxInv, NEW t \in Threads, WriteThrow(t)
  PROVE  Placed'
  <1>1. /\ Placed /\ DOMAIN call = Threads /\ CallOK(t) /\ PlaceOK(t) /\ call[t].pc = "send"
        /\ contexts \in [Vectors -> Seq(Context)]
        /\ calls' = calls /\ calls \in Nat /\ met' = met /\ contexts' = contexts
        /\ call' = [call EXCEPT ![t].pc = "throw"]
        /\ ~ met => OwnOK(t) /\ \A u \in Threads \ {t} : Apart(t, u)
    BY DEF CtxInv, Globals, Placed, ErrorInv, Shape, WriteThrow, CallStep, RedisAssumption, Goto
  <1>2. /\ call'[t].pc = "throw" /\ call'[t].ctx = call[t].ctx /\ call'[t].kind = call[t].kind
        /\ call'[t].id = call[t].id /\ Own(t)' = Own(t) /\ Core \subseteq DOMAIN call'[t]
    BY <1>1 DEF CallOK, Own, Core
  <1>3. \A u \in Threads \ {t} : call'[u] = call[u]
    BY <1>1
  <1>4. /\ Vector(t)' = Vector(t) /\ Room(t)' = Room(t) /\ Using(t) /\ Using(t)'
        /\ Holds(t) /\ Holds(t)' /\ ~ Appending(t)'
    BY <1>1, <1>2 DEF Vector, Room, Using, Holds, Appending
  <1>5. CallOK(t)' /\ PlaceOK(t)' /\ (~ met => OwnOK(t)')
    BY <1>1, <1>2, <1>4 DEF CallOK, Commands, PlaceOK, OwnOK
  <1>6. \A u \in Threads \ {t} : Left(u)
    BY <1>1, <1>3, LeftAlone DEF Alike, Placed, CallOK
  <1>7. \A u \in Threads \ {t} : Distinct(t, u)' /\ (~ met => Apart(t, u)')
    <2> SUFFICES ASSUME NEW u \in Threads \ {t}
                 PROVE  Distinct(t, u)' /\ (~ met => Apart(t, u)')
      OBVIOUS
    <2>1. Vector(u)' = Vector(u) /\ Holds(u)' = Holds(u)
      BY <1>3 DEF Vector, Using, Holds
    <2>2. Distinct(t, u)'
      BY <1>1, <1>2, <1>3 DEF Placed, Distinct, Commands
    <2>3. ~ met => Apart(t, u)'
      BY <1>1, <1>2, <1>3, <1>4, <2>1 DEF Apart
    <2> QED
      BY <2>2, <2>3
  <1> QED
    BY <1>1, <1>5, <1>6, <1>7, OnePlace

(* A call that is over is nowhere.                                         *)
LEMMA GonePlaced ==
  ASSUME NEW t \in Threads, call'[t] = NoCall
  PROVE  CallOK(t)' /\ PlaceOK(t)' /\ OwnOK(t)'
         /\ \A u \in Threads : Distinct(t, u)' /\ Apart(t, u)'
  BY DEF NoCall, CallOK, PlaceOK, OwnOK, Distinct, Apart, Commands, Using, Holds, Appending, Core

LEMMA ReleasePlaced ==
  ASSUME ErrorInv, CtxInv, NEW t \in Threads, WriteEnd(t) \/ FindEnd(t) \/ WriteError(t)
  PROVE  Placed'
  <1> DEFINE v == Vector(t)
             i == call[t].ctx
             c == [occupied |-> FALSE,
                   request |-> IF Shared(t) THEN contexts[v][i].request ELSE Free]
  <1>1. /\ Placed /\ DOMAIN call = Threads /\ CallOK(t) /\ PlaceOK(t) /\ Using(t) /\ Commands(t)
        /\ calls' = calls /\ calls \in Nat /\ met' = met
        /\ i \in Nat \ {0} /\ i <= Len(contexts[v])
        /\ ~ met => \A u \in Threads \ {t} : Apart(t, u)
        /\ Release(t)
    BY DEF CtxInv, Globals, Placed, CallOK, PlaceOK, Room, Using, Holds, Commands, ErrorInv, Shape,
           WriteEnd, FindEnd, WriteError, CallStep, RedisAssumption
  <1>2. v \in Vectors /\ contexts[v] \in Seq(Context) /\ contexts \in [Vectors -> Seq(Context)]
    BY <1>1, VectorsOf DEF Placed, Vector
  <1>3. i \in 1 .. Len(contexts[v]) /\ contexts[v][i] \in Context
    BY <1>1, <1>2
  <1>4. c \in Context /\ (Shared(t) => c.request = contexts[v][i].request)
    BY <1>3 DEF Context
  <1>5. contexts' = [contexts EXCEPT ![v] = [contexts[v] EXCEPT ![i] = c]]
    BY <1>1, <1>2, <1>3 DEF Release
  <1> HIDE DEF c
  <1>6. contexts' \in [Vectors -> Seq(Context)]
    BY <1>2, <1>3, <1>4, <1>5, SetContext
  <1>7. call'[t] = NoCall /\ \A u \in Threads \ {t} : Alike(call'[u], call[u])
    <2>1. CASE WriteEnd(t) \/ FindEnd(t)
      BY <1>1, <2>1 DEF WriteEnd, FindEnd, Returned, Alike, Placed, CallOK
    <2>2. CASE WriteError(t)
      <3>1. call'[t] = NoCall
        BY <2>2 DEF WriteError
      <3>2. ASSUME NEW u \in Threads \ {t} PROVE Alike(call'[u], call[u])
        <4>1. call'[u] = call[u] \/ call'[u] = [call[u] EXCEPT !.excused = TRUE]
          BY <2>2 DEF WriteError
        <4>2. Core \subseteq DOMAIN call[u]
          BY <1>1 DEF Placed, CallOK
        <4> QED
          BY <4>1, <4>2 DEF Alike, Core
      <3> QED
        BY <3>1, <3>2
    <2> QED
      BY <2>1, <2>2
  <1>8. ASSUME NEW u \in Threads \ {t} PROVE Left(u)
    <2>1. ~ met /\ Using(u) => ~ (Vector(u) = v /\ call[u].ctx = i)
      BY <1>1 DEF Apart, Holds
    <2>2. ASSUME call[u].pc = "send", Vector(u) = v, call[u].ctx = i
          PROVE  /\ c.request \in Command /\ c.request.id <= calls
                 /\ VectorOf(c.request.kind) = v
      <3>1. Shared(t)
        BY <2>2 DEF Shared, Using
      <3>2. PlaceOK(u)
        BY <1>1 DEF Placed
      <3> QED
        BY <1>4, <2>2, <3>1, <3>2 DEF PlaceOK, Request
    <2> QED
      BY <1>1, <1>2, <1>3, <1>4, <1>5, <1>7, <2>1, <2>2, LeftBySet DEF Using
  <1>9. CallOK(t)' /\ PlaceOK(t)' /\ OwnOK(t)'
        /\ \A u \in Threads : Distinct(t, u)' /\ Apart(t, u)'
    BY <1>7, GonePlaced
  <1> QED
    BY <1>1, <1>6, <1>8, <1>9, OnePlace

(* Clear and export, which have no context.                                *)
LEMMA BucketsPlaced ==
  ASSUME ErrorInv, CtxInv, NEW t \in Threads,
         \/ ClearNext(t) \/ ExportSize(t) \/ ExportAlloc(t) \/ ExportScan(t)
         \/ BucketsEnd(t) \/ BucketsFail(t)
  PROVE  Placed'
  <1> DEFINE f == IF redis' = redis THEN call ELSE Watched(redis')
  <1>1. /\ Placed /\ DOMAIN call = Threads /\ CallOK(t) /\ call[t].pc \in {"clear", "export", "scan"}
        /\ calls' = calls /\ calls \in Nat /\ met' = met /\ contexts' = contexts
        /\ contexts \in [Vectors -> Seq(Context)]
    BY DEF CtxInv, Globals, Placed, ErrorInv, Shape, ClearNext, ExportSize, ExportAlloc,
           ExportScan, BucketsEnd, BucketsFail, JobOf, CallStep, RedisAssumption
  <1>2. /\ \A u \in Threads : Alike(f[u], call[u])
        /\ DOMAIN f = Threads
    BY <1>1, WatchedAlike DEF Placed, CallOK, Alike, Watched
  <1>3. /\ \A u \in Threads \ {t} : Alike(call'[u], call[u])
        /\ Core \subseteq DOMAIN call'[t] /\ call'[t].pc \in {"idle", "clear", "export", "scan"}
        /\ call'[t].pc # "idle" => call'[t].id = call[t].id
    <2>1. CASE ClearNext(t)
      <3>1. call' = [f EXCEPT ![t].next = @ + 1]
        BY <2>1 DEF ClearNext
      <3> HIDE DEF f
      <3> QED
        BY <1>1, <1>2, <3>1 DEF Alike, Core
    <2>2. CASE ExportSize(t)
      BY <1>1, <2>2 DEF ExportSize, Alike, Core, Placed, CallOK
    <2>3. CASE ExportScan(t)
      <3> DEFINE got == [i \in 1 .. call[t].next |->
                           IF i = call[t].next THEN redis[Here(t)] ELSE call[t].got[i]]
                 g   == [call EXCEPT ![t].next = @ + 1]
      <3>1. call' = [g EXCEPT ![t].got = got]
        BY <1>1, <2>3 DEF ExportScan
      <3>2. DOMAIN g = Threads /\ \A u \in Threads : Alike(g[u], call[u])
        BY <1>1 DEF Alike, Core, Placed, CallOK
      <3> HIDE DEF g, got
      <3> QED
        BY <1>1, <3>1, <3>2 DEF Alike, Core
    <2>4. CASE ExportAlloc(t) /\ call' = [call EXCEPT ![t].pc = "scan", ![t].next = 1]
      BY <1>1, <2>4 DEF Alike, Core, Placed, CallOK
    <2>5. CASE call' = [call EXCEPT ![t] = NoCall]
      BY <1>1, <2>5 DEF Alike, Core, Placed, CallOK, NoCall
    <2> QED
      BY <2>1, <2>2, <2>3, <2>4, <2>5 DEF ExportAlloc, BucketsEnd, BucketsFail, Returned
  <1>4. CallOK(t)' /\ PlaceOK(t)' /\ OwnOK(t)'
        /\ \A u \in Threads : Distinct(t, u)' /\ Apart(t, u)'
    BY <1>1, <1>3 DEF CallOK, PlaceOK, OwnOK, Distinct, Apart, Commands, Using, Holds, Appending
  <1>5. \A u \in Threads \ {t} : Left(u)
    BY <1>1, <1>3, LeftAlone
  <1> QED
    BY <1>1, <1>4, <1>5, OnePlace

LEMMA BeginPlaced ==
  ASSUME ErrorInv, CtxInv, NEW t \in Threads, NEW kind \in Kinds, NEW ks \in SUBSET Keys,
         NEW exists \in BOOLEAN, Begin(t, kind, ks, exists)
  PROVE  Placed'
  <1>1. /\ Placed /\ DOMAIN call = Threads
        /\ calls \in Nat /\ calls' = calls + 1 /\ met' = met /\ contexts' = contexts
        /\ contexts \in [Vectors -> Seq(Context)]
    BY DEF CtxInv, Globals, Placed, ErrorInv, Shape, Begin, RedisAssumption
  <1>2. /\ Core \subseteq DOMAIN call'[t]
        /\ call'[t].pc = IF kind \in {"clear", "export"} THEN kind ELSE "select"
        /\ call'[t].kind = kind /\ call'[t].keys = ks /\ call'[t].exists = exists
        /\ call'[t].id = calls + 1 /\ call'[t].ctx = IF kind \in {"clear", "export"} THEN 0 ELSE 1
    BY <1>1 DEF Begin, NoCall, Core
  <1>3. \A u \in Threads \ {t} : call'[u] = call[u]
    BY <1>1 DEF Begin
  <1>4. Vector(t)' \in Vectors
    BY VectorsOf DEF Vector
  <1>5. Room(t)' \in Nat
    BY <1>1, <1>4 DEF Room
  <1>6. CallOK(t)'
    <2>1. Own(t)' = [kind |-> kind, keys |-> ks, exists |-> exists, id |-> calls + 1]
      BY <1>2 DEF Own
    <2>2. Commands(t)' => kind \in Writing \cup {"find"}
      BY <1>2 DEF Commands, Kinds, Writing
    <2> QED
      BY <1>1, <1>2, <2>1, <2>2 DEF CallOK, Commands, Command
  <1>7. PlaceOK(t)' /\ OwnOK(t)' /\ ~ Holds(t)' /\ ~ Appending(t)'
    BY <1>2, <1>5 DEF PlaceOK, OwnOK, Using, Holds, Appending, Kinds
  <1>8. \A u \in Threads \ {t} : Left(u)
    BY <1>1, <1>3, LeftAlone DEF Alike, Placed, CallOK
  <1>9. ASSUME NEW u \in Threads \ {t} PROVE Distinct(t, u)' /\ Apart(t, u)'
    <2>1. Commands(u) => call[u].id \in 1 .. calls
      BY <1>1 DEF Placed, CallOK, Commands
    <2>2. Distinct(t, u)'
      BY <1>1, <1>2, <1>3, <2>1 DEF Distinct, Commands
    <2>3. Apart(t, u)'
      BY <1>7 DEF Apart
    <2> QED
      BY <2>2, <2>3
  <1> QED
    BY <1>1, <1>6, <1>7, <1>8, <1>9, OnePlace
-----------------------------------------------------------------------------
(* Each step of a start, of the server, and of a call that answers.        *)
LEMMA StartUpPlaced ==
  ASSUME ErrorInv, ErrorInv', CtxInv, StartUp
  PROVE  Placed'
  <1> DEFINE unused == [occupied |-> FALSE, request |-> Free]
  <1>1. /\ Placed /\ contexts \in [Vectors -> Seq(Context)] /\ unused \in Context
        /\ \A u \in Threads : Core \subseteq DOMAIN call[u]
    BY DEF CtxInv, Placed, CallOK, Context
  <1> HIDE DEF unused
  <1>2. ASSUME NEW new \in Layouts, NEW imp \in Layouts, Start(new, imp)
        PROVE  Placed'
    <2>1. contexts' \in [Vectors -> Seq(Context)]
      BY <1>2 DEF Start
    <2>2. \A u \in Threads : Core \subseteq DOMAIN call'[u] /\ call'[u].pc = "idle"
      BY <1>2 DEF Start, NoCall, Core
    <2> QED
      BY <2>1, <2>2, PlacesEmpty
  <1>3. ASSUME call' = call, contexts' = contexts, met' = met, calls' = calls
        PROVE  Placed'
    BY <1>1, <1>3, PlacesStay DEF Alike
  <1>4. ASSUME NEW b \in Bucket, Recreate(b)
        PROVE  Placed'
    <2>1. contexts' = [contexts EXCEPT !["insert"] = <<unused>>] /\ call' = call
      BY <1>4 DEF Recreate, StartStep, unused
    <2> DEFINE one == <<unused>>
    <2>2. one \in Seq(Context)
      BY <1>1
    <2>3. contexts' = [contexts EXCEPT !["insert"] = one]
      BY <2>1
    <2> HIDE DEF one
    <2>4. contexts' \in [Vectors -> Seq(Context)]
      BY <1>1, <2>2, <2>3
    <2>5. \A u \in Threads : call'[u].pc = "idle"
      BY <1>4, <2>1 DEF ErrorInv, OnlyUp, Recreate
    <2> QED
      BY <1>1, <2>1, <2>4, <2>5, PlacesEmpty
  <1>5. CASE Persist
    <2> DEFINE more == [i \in 1 .. NContexts |-> unused]
    <2>1. contexts' = [v \in Vectors |-> contexts[v] \o more] /\ call' = call
      BY <1>5 DEF Persist, StartStep, unused
    <2>2. more \in Seq(Context)
      BY <1>1, RedisAssumption
    <2> HIDE DEF more
    <2>3. contexts' \in [Vectors -> Seq(Context)]
      BY <1>1, <2>1, <2>2
    <2>4. \A u \in Threads : call'[u].pc = "idle"
      BY <1>5, <2>1 DEF ErrorInv, OnlyUp, Persist
    <2> QED
      BY <1>1, <2>1, <2>3, <2>4, PlacesEmpty
  <1> QED
    BY <1>2, <1>3, <1>4, <1>5 DEF StartUp, StartFails, RecreateEnd, DropEnd, Duplicate,
       DuplicateCheck, Drop, StartStep

LEMMA ServerPlaced ==
  ASSUME ErrorInv, CtxInv, Copying \/ Stop \/ Crash \/ \E b \in Bucket : Expire(b)
  PROVE  Placed'
  <1>1. /\ Placed /\ contexts \in [Vectors -> Seq(Context)]
        /\ \A u \in Threads : Core \subseteq DOMAIN call[u]
    BY DEF CtxInv, Placed, CallOK
  <1>2. ASSUME call' = call \/ call' = Watched(redis'), contexts' = contexts, met' = met,
               calls' = calls
        PROVE  Placed'
    BY <1>1, <1>2, PlacesStay, WatchedAlike DEF Alike
  <1>3. CASE Crash
    BY <1>1, <1>3, PlacesEmpty DEF Crash, NoCall, Core
  <1> QED
    BY <1>2, <1>3 DEF Copying, JobDump, JobRestore, JobFails, JobStep, Stop, Expire

LEMMA AnswerPlaced ==
  ASSUME ErrorInv, CtxInv, NEW t \in Threads, NEW b \in Bucket,
         Write(t, b) \/ WriteFails(t, b) \/ Read(t, b) \/ ReadFails(t, b)
  PROVE  /\ Placed' /\ \A u \in Threads : Alike(call'[u], call[u])
         /\ call'[t].pending = call[t].pending \ {b}
         /\ \A u \in Threads \ {t} : call'[u].pending = call[u].pending
  <1> DEFINE f == IF redis' = redis THEN call ELSE Watched(redis')
             g == [f EXCEPT ![t].pending = @ \ {b}]
             Answer(h) == /\ \A u \in Threads : Alike(h[u], call[u])
                          /\ h[t].pending = call[t].pending \ {b}
                          /\ \A u \in Threads \ {t} : h[u].pending = call[u].pending
  <1>1. /\ Placed /\ DOMAIN call = Threads
        /\ calls' = calls /\ met' = met /\ contexts' = contexts
        /\ \A u \in Threads : Core \subseteq DOMAIN call[u]
    BY DEF CtxInv, Placed, CallOK, ErrorInv, Shape, Write, WriteFails, Read, ReadFails, CallStep
  <1>2. /\ DOMAIN f = Threads /\ \A u \in Threads : Alike(f[u], call[u])
        /\ \A u \in Threads : f[u].pending = call[u].pending
    BY <1>1, WatchedAlike DEF Alike, Watched
  <1>3. Write(t, b) => call' = g
    BY DEF Write, Answered
  <1>4. WriteFails(t, b) => call' = [g EXCEPT ![t].failed = TRUE]
    BY DEF WriteFails, Answered
  <1> HIDE DEF f
  <1>5. DOMAIN g = Threads /\ Answer(g)
    BY <1>2 DEF Alike, Core
  <1> HIDE DEF g
  <1>6. Write(t, b) => Answer(call')
    BY <1>3, <1>5
  <1>7. WriteFails(t, b) => Answer(call')
    BY <1>4, <1>5 DEF Alike, Core
  <1>8. Read(t, b) => Answer(call')
    BY <1>1 DEF Read, Alike, Core
  <1>9. ReadFails(t, b) => Answer(call')
    BY <1>1 DEF ReadFails, Alike, Core
  <1>10. Answer(call')
    BY <1>6, <1>7, <1>8, <1>9
  <1> QED
    BY <1>1, <1>10, PlacesStay

LEMMA Begun ==
  ASSUME CtxInv, NEW t \in Threads,
         \/ \E kind \in budget.kinds \ {"clear", "export"}, ks \in budget.batches, exists \in BOOLEAN :
              (exists => kind = "accum") /\ Begin(t, kind, ks, exists)
         \/ \E kind \in budget.kinds \cap {"clear", "export"} : Begin(t, kind, {}, FALSE)
  PROVE  \E kind \in Kinds, ks \in SUBSET Keys, exists \in BOOLEAN : Begin(t, kind, ks, exists)
  <1>1. budget.kinds \subseteq Kinds /\ budget.batches \subseteq SUBSET Keys
    BY RedisAssumption DEF CtxInv, Globals
  <1> QED
    BY <1>1

LEMMA CallingPlaced ==
  ASSUME ErrorInv, CtxInv, NEW t \in Threads, Calling(t)
  PROVE  Placed'
  <1>1. ASSUME NEW b \in Bucket, Write(t, b) \/ WriteFails(t, b) \/ Read(t, b) \/ ReadFails(t, b)
        PROVE  Placed'
    BY <1>1, AnswerPlaced
  <1>2. CASE \/ \E kind \in budget.kinds \ {"clear", "export"}, ks \in budget.batches, exists \in BOOLEAN :
                  (exists => kind = "accum") /\ Begin(t, kind, ks, exists)
             \/ \E kind \in budget.kinds \cap {"clear", "export"} : Begin(t, kind, {}, FALSE)
    BY <1>2, Begun, BeginPlaced
  <1> QED
    BY <1>1, <1>2, SelectTryPlaced, SelectEndPlaced, SelectSizePlaced, SelectPushPlaced,
       SelectOccupyPlaced, PreparePlaced,
       WriteThrowPlaced, ReleasePlaced, BucketsPlaced DEF Calling
-----------------------------------------------------------------------------
LEMMA NamesAreBuckets ==
  ASSUME NEW l \in Layouts
  PROVE  /\ l \in Seq(Bucket) /\ Len(l) \in Nat \ {0} /\ ToSet(l) \subseteq Bucket
         /\ \A i, j \in 1 .. Len(l) : l[i] = l[j] => i = j
         /\ \A i \in 1 .. Len(l) : l[i] \in Bucket
  <1>1. l \in Seq(Bucket) /\ l # << >> /\ IsInjective(l)
    BY RedisAssumption
  <1> QED
    BY <1>1 DEF IsInjective, ToSet

LEMMA StartUpTypes ==
  ASSUME Globals, budget' = budget, StartUp
  PROVE  Globals'
  <1>1. /\ ToSet(slices) \subseteq Bucket /\ ToSet(slicesImport) \subseteq Bucket
        /\ Present \subseteq Bucket
    BY NamesAreBuckets DEF Globals, Present
  <1>2. ASSUME NEW new \in Layouts, NEW imp \in Layouts, Start(new, imp)
        PROVE  Globals'
    <2>1. phase' \in {"persist", "recreate", "duplicate"}
      BY <1>2 DEF Start, Plan
    <2>2. todo' \subseteq Bucket
      BY <1>1, <1>2 DEF Start
    <2>3. intact' \in BOOLEAN
      BY <1>2 DEF Start
    <2> QED
      BY <1>2, <2>1, <2>2, <2>3 DEF Globals, Start, server, Phases
  <1>3. CASE StartFails
    BY <1>3 DEF Globals, StartFails, StartStep, server, Phases
  <1>4. ASSUME NEW b \in Bucket, Recreate(b)
        PROVE  Globals'
    BY <1>4 DEF Globals, Recreate, StartStep
  <1>5. CASE RecreateEnd
    BY <1>1, <1>5 DEF Globals, RecreateEnd, StartStep, server, Phases
  <1>6. ASSUME NEW b \in Bucket, Drop(b)
        PROVE  Globals'
    BY <1>6 DEF Globals, Drop, StartStep, Store
  <1>7. CASE DropEnd
    BY <1>7 DEF Globals, DropEnd, StartStep, server, Phases
  <1>8. CASE Duplicate
    BY <1>1, <1>8 DEF Globals, Duplicate, StartStep, server, Phases
  <1>9. CASE DuplicateCheck
    BY <1>9 DEF Globals, DuplicateCheck, StartStep, server, Phases
  <1>10. CASE Persist
    BY <1>10 DEF Globals, Persist, StartStep, Phases
  <1> QED
    BY <1>2, <1>3, <1>4, <1>5, <1>6, <1>7, <1>8, <1>9, <1>10 DEF StartUp

LEMMA ServerTypes ==
  ASSUME Globals, budget' = budget, Copying \/ Stop \/ Crash \/ \E b \in Bucket : Expire(b)
  PROVE  Globals'
  <1>1. ASSUME NEW b \in Bucket, JobDump(b)
        PROVE  Globals'
    BY <1>1 DEF Globals, JobDump, JobStep, server, Without
  <1>2. ASSUME NEW b \in Bucket, JobRestore(b)
        PROVE  Globals'
    BY <1>2 DEF Globals, JobRestore, JobStep, Without
  <1>3. ASSUME NEW b \in Bucket, JobFails(b)
        PROVE  Globals'
    BY <1>3 DEF Globals, JobFails, JobStep, server, Without
  <1>4. CASE Stop
    BY <1>4 DEF Globals, Stop, Present, Phases
  <1>5. CASE Crash
    <2>1. DOMAIN jobs' = {}
      BY <1>5 DEF Crash
    <2> QED
      BY <1>5, <2>1 DEF Globals, Crash, server, Phases
  <1>6. ASSUME NEW b \in Bucket, Expire(b)
        PROVE  Globals'
    BY <1>6 DEF Globals, Expire, Store, starting
  <1> QED
    BY <1>1, <1>2, <1>3, <1>4, <1>5, <1>6 DEF Copying

LEMMA CallingTypes ==
  ASSUME Globals, budget' = budget, NEW t \in Threads, Calling(t)
  PROVE  Globals'
  <1>1. ASSUME CallStep, ttl' \subseteq Bucket, errorPtr' \in BOOLEAN, met' \in BOOLEAN,
               intact' = intact
        PROVE  Globals'
    BY <1>1 DEF Globals, CallStep, starting
  <1>2. ASSUME NEW kind, NEW ks, NEW exists \in BOOLEAN, Begin(t, kind, ks, exists)
        PROVE  Globals'
    <2>1. budget.calls \in Nat
      BY RedisAssumption DEF Globals
    <2>2. calls' \in 0 .. budget.calls /\ intact' \in BOOLEAN
      BY <1>2, <2>1 DEF Globals, Begin
    <2> QED
      BY <1>2, <2>2 DEF Globals, Begin, server, starting
  <1>3. CASE \/ SelectSize(t) \/ SelectPush(t) \/ SelectOccupy(t)
             \/ Prepare(t) \/ WriteEnd(t) \/ WriteThrow(t)
             \/ WriteError(t) \/ FindEnd(t)
    BY <1>1, <1>3 DEF SelectSize, SelectPush, SelectOccupy, Prepare, WriteEnd, WriteThrow,
                      WriteError, FindEnd,
       server, Globals
  <1>4. CASE SelectTry(t) \/ SelectEnd(t)
    BY <1>1, <1>4 DEF SelectTry, SelectEnd, server, Globals
  <1>5. ASSUME NEW b \in Bucket, Write(t, b) \/ WriteFails(t, b) \/ Read(t, b) \/ ReadFails(t, b)
        PROVE  Globals'
    BY <1>1, <1>5 DEF Write, WriteFails, Read, ReadFails, server, Store, Globals
  <1>6. CASE ClearNext(t) \/ ExportSize(t) \/ ExportAlloc(t) \/ ExportScan(t) \/ BucketsEnd(t)
             \/ BucketsFail(t)
    BY <1>1, <1>6 DEF ClearNext, ExportSize, ExportAlloc, ExportScan, BucketsEnd, BucketsFail,
       server, Store, Globals, JobOf
  <1> QED
    BY <1>2, <1>3, <1>4, <1>5, <1>6 DEF Calling

(* The types, and that calls stay apart as long as threads have not raced  *)
(* for a new context (both races of SelectAvailableThreadContext), hold at *)
(* the start and are kept by every step.                                   *)
THEOREM CallsKeptApart == Spec => []CtxInv
  <1>1. Init => CtxInv
    <2> SUFFICES ASSUME Init PROVE CtxInv
      OBVIOUS
    <2>1. Globals
      <3>1. budget \in Budgets /\ calls = 0 /\ budget.calls \in Nat
        BY RedisAssumption DEF Init
      <3>2. DOMAIN jobs = {}
        BY DEF Init
      <3>3. /\ phase = "down" /\ slices \in Layouts /\ slicesImport = slices
            /\ todo = {} /\ ttl = {}
        BY DEF Init
      <3>4. errorPtr \in BOOLEAN /\ met \in BOOLEAN /\ intact \in BOOLEAN
        BY Zenon DEF Init
      <3> QED
        BY <3>1, <3>2, <3>3, <3>4 DEF Globals, Phases
    <2>2. contexts \in [Vectors -> Seq(Context)]
      BY DEF Init
    <2>3. Placed
      BY <2>2 DEF Init, Placed, CallOK, PlaceOK, OwnOK, Apart, Distinct, Commands, Using, Holds,
                        Appending, NoCall, Core
    <2> QED
      BY <2>1, <2>3 DEF CtxInv
  <1>2. ErrorInv /\ ErrorInv' /\ CtxInv /\ [Next /\ budget' = budget]_vars => CtxInv'
    <2> SUFFICES ASSUME ErrorInv, ErrorInv', CtxInv, [Next /\ budget' = budget]_vars
                 PROVE  CtxInv'
      OBVIOUS
    <2>1. CASE UNCHANGED vars
      <3>1. Globals'
        BY <2>1 DEF vars, starting, server, CtxInv, Globals
      <3>2. \A u \in Threads : Alike(call'[u], call[u])
        BY <2>1 DEF vars, CtxInv, Placed, CallOK, Alike
      <3> QED
        BY <2>1, <3>1, <3>2, PlacesStay DEF CtxInv, vars
    <2>2. CASE Finished
      BY <2>1, <2>2 DEF Finished
    <2>3. CASE Next /\ budget' = budget /\ ~ Finished
      <3>1. Globals'
        BY <2>3, StartUpTypes, ServerTypes, CallingTypes DEF Next, CtxInv
      <3>2. Placed'
        BY <2>3, StartUpPlaced, ServerPlaced, CallingPlaced DEF Next
      <3> QED
        BY <3>1, <3>2 DEF CtxInv
    <2> QED
      BY <2>1, <2>2, <2>3
  <1> QED
    BY <1>1, <1>2, ErrorsKept, PTL DEF Spec
-----------------------------------------------------------------------------
(* Values.  The id of a call that has yet to write a key is in no value of *)
(* that key, neither on the server nor in what is being copied.            *)
Unsent(u, k) ==
  /\ Commands(u) /\ call[u].kind \in Writing /\ k \in call[u].keys
  /\ \/ call[u].pc \in {"select", "end", "push", "occupy", "prepare"}
     \/ call[u].pc = "send" /\ BucketOf(k) \in call[u].pending

ValueOK(k, s) ==
  ~ met => /\ AddedOnce(s)
           /\ \A u \in Threads : Unsent(u, k) => \A i \in DOMAIN s : s[i] # call[u].id

HashOK(h) ==
  h \in [Keys -> Seq(0 .. calls)] /\ \A k \in Keys : ValueOK(k, h[k])

ValuesInv ==
  /\ redis \in [Bucket -> [Keys -> Seq(0 .. calls)]]
  /\ \A b \in Bucket : HashOK(redis[b])
  /\ \A b \in DOMAIN jobs : HashOK(jobs[b])

(* The call of u goes on, and waits for the same answers.                  *)
Goes(u) == Alike(call'[u], call[u]) /\ call'[u].pending = call[u].pending

LEMMA OthersGo ==
  ASSUME ErrorInv, CtxInv, NEW t \in Threads, Calling(t)
  PROVE  /\ UNCHANGED starting /\ \A u \in Threads \ {t} : Goes(u)
  <1>0. DOMAIN call = Threads
    BY DEF ErrorInv, Shape
  <1>1. \A u \in Threads : Core \subseteq DOMAIN call[u]
    BY DEF CtxInv, Placed, CallOK
  <1>2. UNCHANGED starting
    BY DEF Calling, Begin, SelectTry, SelectEnd, SelectSize, SelectPush, SelectOccupy, Prepare,
           Write, WriteFails, Read,
       ReadFails, WriteEnd, WriteThrow, WriteError, FindEnd, ClearNext, ExportSize, ExportAlloc,
       ExportScan, BucketsEnd, BucketsFail, JobOf, CallStep
  <1>3. (\A u \in Threads \ {t} : call'[u] = call[u]) => \A u \in Threads \ {t} : Goes(u)
    BY <1>1 DEF Goes, Alike
  <1>4. ASSUME NEW kind, NEW ks, NEW exists, Begin(t, kind, ks, exists)
        PROVE  \A u \in Threads \ {t} : Goes(u)
    <2>1. \A u \in Threads \ {t} : call'[u] = call[u]
      BY <1>0, <1>4 DEF Begin
    <2> QED
      BY <2>1, <1>3
  <1>5. CASE \/ SelectTry(t) \/ SelectEnd(t) \/ SelectSize(t)
             \/ SelectPush(t) \/ SelectOccupy(t) \/ Prepare(t) \/ WriteThrow(t)
    <2>1. \A u \in Threads \ {t} : call'[u] = call[u]
      BY <1>0, <1>5 DEF SelectTry, SelectEnd, SelectSize, SelectPush, SelectOccupy, Prepare,
                        WriteThrow, Goto
    <2> QED
      BY <1>2, <2>1, <1>3
  <1>6. ASSUME NEW b \in Bucket, Write(t, b) \/ WriteFails(t, b) \/ Read(t, b) \/ ReadFails(t, b)
        PROVE  \A u \in Threads \ {t} : Goes(u)
    BY <1>6, AnswerPlaced DEF Goes
  <1>7. CASE WriteEnd(t) \/ FindEnd(t) \/ BucketsEnd(t) \/ BucketsFail(t)
    <2>1. \A u \in Threads \ {t} : call'[u] = call[u]
      BY <1>0, <1>7 DEF WriteEnd, FindEnd, BucketsEnd, BucketsFail, Returned
    <2> QED
      BY <1>2, <2>1, <1>3
  <1>8. CASE WriteError(t)
    <2>1. ASSUME NEW u \in Threads \ {t} PROVE Goes(u)
      <3>1. call'[u] = call[u] \/ call'[u] = [call[u] EXCEPT !.excused = TRUE]
        BY <1>8 DEF WriteError
      <3> QED
        BY <1>1, <3>1 DEF Goes, Alike, Core
    <2> QED
      BY <1>2, <2>1
  <1>9. CASE ClearNext(t)
    <2> DEFINE f == IF redis' = redis THEN call ELSE Watched(redis')
    <2>1. call' = [f EXCEPT ![t].next = @ + 1]
      BY <1>9 DEF ClearNext
    <2>2. /\ DOMAIN f = Threads
          /\ \A u \in Threads : Alike(f[u], call[u]) /\ f[u].pending = call[u].pending
      BY <1>0, <1>1, WatchedAlike DEF Alike, Watched
    <2> HIDE DEF f
    <2>3. \A u \in Threads \ {t} : call'[u] = f[u]
      BY <2>1, <2>2
    <2> QED
      BY <1>2, <2>2, <2>3 DEF Goes
  <1>10. CASE ExportSize(t) \/ ExportAlloc(t) \/ ExportScan(t)
    <2>1. \A u \in Threads \ {t} : call'[u] = call[u]
      BY <1>0, <1>10 DEF ExportSize, ExportAlloc, ExportScan, Returned
    <2> QED
      BY <1>2, <2>1, <1>3
  <1> QED
    BY <1>2, <1>4, <1>5, <1>6, <1>7, <1>8, <1>9, <1>10 DEF Calling

LEMMA AllGo ==
  ASSUME CtxInv, Copying \/ Stop \/ \E b \in Bucket : Expire(b)
  PROVE  \A u \in Threads : Goes(u)
  <1>1. \A u \in Threads : Core \subseteq DOMAIN call[u]
    BY DEF CtxInv, Placed, CallOK
  <1>2. call' = call \/ call' = Watched(redis')
    BY DEF Copying, JobDump, JobRestore, JobFails, JobStep, Stop, Expire
  <1> QED
    BY <1>1, <1>2, WatchedAlike DEF Goes, Alike
-----------------------------------------------------------------------------
(* What a step does to the calls that have yet to write: it starts one, or *)
(* takes some further, so that values that none of them made stay such.    *)
Kept ==
  /\ calls \in Nat /\ calls' \in Nat /\ calls' >= calls /\ (~ met' => ~ met)
  /\ \A u \in Threads, k \in Keys :
       Unsent(u, k)' => \/ Unsent(u, k) /\ call'[u].id = call[u].id
                        \/ call'[u].id > calls

LEMMA UnsentStays ==
  ASSUME NEW u \in Threads, Goes(u), slices' = slices, NEW k \in Keys, Unsent(u, k)'
  PROVE  Unsent(u, k) /\ call'[u].id = call[u].id
  BY DEF Goes, Alike, Unsent, Commands, BucketOf

LEMMA StartUpKeeps ==
  ASSUME ErrorInv, CtxInv, StartUp
  PROVE  Kept
  <1>0. calls \in Nat
    BY RedisAssumption DEF CtxInv, Globals
  <1>1. calls' = calls /\ met' = met
    BY DEF StartUp, Start, StartFails, RecreateEnd, DropEnd, Duplicate, DuplicateCheck, Persist,
       Recreate, Drop, StartStep
  <1>2. \A u \in Threads : call'[u].pc = "idle"
    <2>1. ASSUME NEW new, NEW imp, Start(new, imp)
          PROVE  \A u \in Threads : call'[u].pc = "idle"
      BY <2>1 DEF Start, NoCall
    <2>2. ASSUME call' = call, phase # "up"
          PROVE  \A u \in Threads : call'[u].pc = "idle"
      BY <2>2 DEF ErrorInv, OnlyUp
    <2> QED
      BY <2>1, <2>2 DEF StartUp, StartFails, RecreateEnd, DropEnd, Duplicate, DuplicateCheck,
         Persist, Recreate, Drop, StartStep
  <1> QED
    BY <1>0, <1>1, <1>2 DEF Kept, Unsent, Commands

LEMMA ServerKeeps ==
  ASSUME CtxInv, Copying \/ Stop \/ Crash \/ \E b \in Bucket : Expire(b)
  PROVE  Kept
  <1>1. calls \in Nat /\ calls' = calls /\ met' = met
    BY RedisAssumption DEF CtxInv, Globals, Copying, JobDump, JobRestore, JobFails, JobStep, Stop,
       Crash, Expire
  <1>2. CASE Crash
    <2>1. \A u \in Threads : call'[u].pc = "idle"
      BY <1>2 DEF Crash, NoCall
    <2> QED
      BY <1>1, <2>1 DEF Kept, Unsent, Commands
  <1>3. CASE Copying \/ Stop \/ \E b \in Bucket : Expire(b)
    <2>1. slices' = slices
      BY <1>3 DEF Copying, JobDump, JobRestore, JobFails, JobStep, Stop, Expire, starting
    <2>2. \A u \in Threads : Goes(u)
      BY <1>3, AllGo
    <2> QED
      BY <1>1, <2>1, <2>2, UnsentStays DEF Kept
  <1> QED
    BY <1>2, <1>3

LEMMA CallingKeeps ==
  ASSUME ErrorInv, CtxInv, NEW t \in Threads, Calling(t)
  PROVE  Kept
  <1>1. /\ calls \in Nat /\ DOMAIN call = Threads /\ CallOK(t)
        /\ slices' = slices
        /\ \A u \in Threads \ {t} : Goes(u)
    BY RedisAssumption, OthersGo DEF CtxInv, Globals, ErrorInv, Shape, Placed, starting
  <1>2. \A u \in Threads \ {t}, k \in Keys :
          Unsent(u, k)' => Unsent(u, k) /\ call'[u].id = call[u].id
    BY <1>1, UnsentStays
  <1> DEFINE Mine == \A k \in Keys : Unsent(t, k)' => \/ Unsent(t, k) /\ call'[t].id = call[t].id
                                                      \/ call'[t].id > calls
             Counts == calls' \in Nat /\ calls' >= calls /\ (~ met' => ~ met)
  <1> SUFFICES Mine /\ Counts
    BY <1>1, <1>2 DEF Kept
  <1>3. ASSUME NEW kind, NEW ks, NEW exists, Begin(t, kind, ks, exists)
        PROVE  Mine /\ Counts
    <2>1. call'[t].id = calls + 1
      BY <1>1, <1>3 DEF Begin, NoCall
    <2>2. Counts
      BY <1>1, <1>3 DEF Begin
    <2> QED
      BY <1>1, <2>1, <2>2
  <1>4. ASSUME CallStep, ~ met' => ~ met, Mine
        PROVE  Mine /\ Counts
    BY <1>1, <1>4 DEF CallStep
  <1>5. CASE SelectTry(t)
    <2>1. \/ call' = [call EXCEPT ![t].ctx = call[t].ctx + 1]
          \/ call' = [call EXCEPT ![t].pc = "prepare"]
      BY <1>5 DEF SelectTry, Goto
    <2>2. Mine
      BY <1>1, <1>5, <2>1 DEF SelectTry, Unsent, Commands, BucketOf, CallOK, Core
    <2> QED
      BY <1>4, <1>5, <2>2 DEF SelectTry
  <1>6. CASE SelectEnd(t) \/ SelectSize(t) \/ SelectPush(t) \/ SelectOccupy(t) \/ WriteThrow(t)
    <2>1. \E label \in {"end", "push", "occupy", "prepare", "throw"} :
            call' = [call EXCEPT ![t].pc = label]
      BY <1>6 DEF SelectEnd, SelectSize, SelectPush, SelectOccupy, WriteThrow, Goto
    <2>2. call'[t].id = call[t].id /\ call'[t].kind = call[t].kind /\ call'[t].keys = call[t].keys
      BY <1>1, <2>1 DEF CallOK, Core
    <2>3. call[t].pc \in {"select", "end", "push", "occupy"} \/ call'[t].pc = "throw"
      BY <1>1, <1>6 DEF SelectEnd, SelectSize, SelectPush, SelectOccupy, WriteThrow, Goto,
                        CallOK, Core
    <2>4. Mine
      <3> SUFFICES ASSUME NEW k \in Keys, Unsent(t, k)'
                   PROVE  Unsent(t, k) /\ call'[t].id = call[t].id
        OBVIOUS
      <3>1. call'[t].pc # "throw" /\ call'[t].kind \in Writing /\ k \in call'[t].keys
        BY DEF Unsent
      <3> QED
        BY <2>2, <2>3, <3>1 DEF Unsent, Commands
    <2> QED
      BY <1>4, <1>6, <2>4 DEF SelectEnd, SelectSize, SelectPush, SelectOccupy, WriteThrow
  <1>7. CASE Prepare(t)
    <2>1. Mine
      BY <1>1, <1>7 DEF Prepare, Unsent, Commands, BucketOf, CallOK, Core
    <2> QED
      BY <1>4, <1>7, <2>1 DEF Prepare
  <1>8. ASSUME NEW b \in Bucket, Write(t, b) \/ WriteFails(t, b) \/ Read(t, b) \/ ReadFails(t, b)
        PROVE  Mine /\ Counts
    <2>1. Alike(call'[t], call[t]) /\ call'[t].pending = call[t].pending \ {b}
      BY <1>8, AnswerPlaced
    <2>2. Mine
      BY <1>1, <2>1 DEF Alike, Unsent, Commands, BucketOf
    <2> QED
      BY <1>4, <1>8, <2>2 DEF Write, WriteFails, Read, ReadFails
  <1>9. CASE WriteEnd(t) \/ FindEnd(t) \/ WriteError(t)
    <2>1. call'[t] = NoCall
      BY <1>1, <1>9 DEF WriteEnd, FindEnd, WriteError, Returned
    <2>2. Mine
      BY <2>1 DEF Unsent, Commands, NoCall
    <2> QED
      BY <1>4, <1>9, <2>2 DEF WriteEnd, FindEnd, WriteError
  <1>10. CASE ClearNext(t) \/ ExportSize(t) \/ ExportAlloc(t) \/ ExportScan(t) \/ BucketsEnd(t)
              \/ BucketsFail(t)
    <2>1. Good
      BY <1>10, BucketsGood, ReturnGood, ExportAllocGood
    <2>2. call'[t].pc \in {"idle", "clear", "export", "scan"}
      <3>1. CASE ClearNext(t)
        <4> DEFINE f == IF redis' = redis THEN call ELSE Watched(redis')
        <4>1. call' = [f EXCEPT ![t].next = @ + 1]
          BY <3>1 DEF ClearNext
        <4>2. DOMAIN f = Threads /\ f[t].pc = call[t].pc /\ "pc" \in DOMAIN f[t]
          BY <1>1, WatchedKeeps DEF ErrorInv, Shape, Watched
        <4> HIDE DEF f
        <4> QED
          BY <3>1, <4>1, <4>2 DEF ClearNext
      <3>2. CASE ~ ClearNext(t)
        BY <1>1, <1>10, <3>2 DEF ExportSize, ExportAlloc, ExportScan, BucketsEnd, BucketsFail,
           Returned, NoCall, CallOK, Core
      <3> QED
        BY <3>1, <3>2
    <2>3. Mine
      BY <2>2 DEF Unsent, Commands
    <2> QED
      BY <1>4, <1>10, <2>3 DEF ClearNext, ExportSize, ExportAlloc, ExportScan, BucketsEnd,
         BucketsFail, JobOf
  <1> QED
    BY <1>3, <1>5, <1>6, <1>7, <1>8, <1>9, <1>10 DEF Calling

NextOK(k, s) ==
  ~ met' => /\ AddedOnce(s)
            /\ \A u \in Threads : Unsent(u, k)' => \A i \in DOMAIN s : s[i] # call'[u].id

NextHash(h) == h \in [Keys -> Seq(0 .. calls')] /\ \A k \in Keys : NextOK(k, h[k])

LEMMA LongerSeq ==
  ASSUME NEW m \in Nat, NEW n \in Nat, n >= m, NEW s \in Seq(0 .. m)
  PROVE  s \in Seq(0 .. n)
  <1>1. \A i \in 1 .. Len(s) : s[i] \in 0 .. n
    OBVIOUS
  <1> QED
    BY <1>1

LEMMA GrownSeq ==
  ASSUME NEW S, NEW s \in Seq(S), NEW x \in S
  PROVE  << >> \in Seq(S) /\ <<x>> \in Seq(S) /\ Append(s, x) \in Seq(S)
  OBVIOUS

LEMMA ValueKept ==
  ASSUME Kept, NEW k \in Keys, NEW s \in Seq(0 .. calls), ValueOK(k, s)
  PROVE  NextOK(k, s)
  <1> SUFFICES ASSUME ~ met', NEW u \in Threads, Unsent(u, k)', NEW i \in DOMAIN s
               PROVE  s[i] # call'[u].id
    BY DEF NextOK, ValueOK, Kept
  <1>1. s[i] \in 0 .. calls /\ calls \in Nat
    BY DEF Kept
  <1>2. CASE Unsent(u, k) /\ call'[u].id = call[u].id
    BY <1>2 DEF ValueOK, Kept
  <1>3. CASE call'[u].id > calls
    BY <1>1, <1>3
  <1> QED
    BY <1>2, <1>3 DEF Kept

LEMMA HashKept ==
  ASSUME Kept, NEW h, HashOK(h)
  PROVE  NextHash(h)
  <1>1. \A k \in Keys : h[k] \in Seq(0 .. calls) /\ ValueOK(k, h[k])
    BY DEF HashOK
  <1>2. \A k \in Keys : h[k] \in Seq(0 .. calls')
    BY <1>1, LongerSeq DEF Kept
  <1>3. \A k \in Keys : NextOK(k, h[k])
    BY <1>1, ValueKept
  <1> QED
    BY <1>2, <1>3 DEF NextHash, HashOK

LEMMA EmptyNext ==
  ASSUME Kept
  PROVE  NextHash(Empty)
  BY DEF Kept, NextHash, NextOK, Empty, AddedOnce

(* What ReCreateTableBuckets may insert.                                   *)
LEMMA JunkNext ==
  ASSUME Kept, CtxInv', NEW h, HashOK(h), NEW ks
  PROVE  NextHash(HMSET(h, ks, 0))
  <1>1. NextHash(h)
    BY HashKept
  <1>2. \A u \in Threads, k \in Keys : Unsent(u, k)' => call'[u].id # 0
    BY DEF CtxInv, Placed, CallOK, Unsent, Commands
  <1>3. \A k \in Keys : NextOK(k, <<0>>)
    BY <1>2 DEF NextOK, AddedOnce
  <1>4. <<0>> \in Seq(0 .. calls')
    BY DEF Kept
  <1>5. \A k \in Keys : HMSET(h, ks, 0)[k] = IF k \in ks THEN <<0>> ELSE h[k]
    BY DEF HMSET
  <1>6. \A k \in Keys : NextOK(k, HMSET(h, ks, 0)[k])
    BY <1>1, <1>3, <1>5 DEF NextHash
  <1>7. HMSET(h, ks, 0) \in [Keys -> Seq(0 .. calls')]
    BY <1>1, <1>4 DEF HMSET, NextHash
  <1> QED
    BY <1>6, <1>7 DEF NextHash

(* What a command writes: with the id of a call whose answer is now there. *)
LEMMA SentNext ==
  ASSUME ErrorInv, CtxInv, Kept, ValuesInv, NEW t \in Threads, NEW b \in Bucket,
         Write(t, b) \/ WriteFails(t, b)
  PROVE  NextHash(Applied(Request(t), b))
  <1> DEFINE r  == Request(t)
             h  == redis[b]
             ks == KeysIn(b, r.keys)
             a  == Applied(r, b)
  <1>1. /\ Sending(t, b) /\ call[t].kind # "find" /\ CallOK(t) /\ PlaceOK(t)
        /\ ~ met => OwnOK(t)
        /\ \A u \in Threads \ {t} : Distinct(t, u)
    BY DEF Write, WriteFails, CtxInv, Placed
  <1>2. r \in Command /\ r.id <= calls /\ VectorOf(r.kind) = Vector(t) /\ calls' >= calls
        /\ calls \in Nat /\ calls' \in Nat
    BY <1>1 DEF Sending, PlaceOK, Kept
  <1>3. r.kind \in Writing
    BY <1>1, <1>2 DEF CallOK, Commands, Sending, Own, Command, Vector, VectorOf, Writing
  <1>4. HashOK(h) /\ h \in [Keys -> Seq(0 .. calls)] /\ NextHash(h)
    BY HashKept DEF ValuesInv, HashOK
  <1>5. r.id \in 0 .. calls /\ r.exists \in BOOLEAN
    BY <1>2 DEF Command
  <1>6. ASSUME NEW k \in Keys
        PROVE  \/ a[k] = h[k]
               \/ a[k] = << >>
               \/ a[k] = <<r.id>> /\ k \in ks
               \/ a[k] = Append(h[k], r.id) /\ k \in ks
    <2>1. CASE r.kind = "insert"
      BY <2>1 DEF Applied, HMSET
    <2>2. CASE r.kind = "accum"
      <3>1. a = HMACCUM(h, ks, r.exists, r.id)
        BY <2>2 DEF Applied
      <3>2. a[k] = CASE k \in ks /\ r.exists /\ h[k] # << >>   -> Append(h[k], r.id)
                     [] k \in ks /\ ~ r.exists /\ h[k] = << >> -> <<r.id>>
                     [] OTHER                                  -> h[k]
        BY <3>1 DEF HMACCUM
      <3> QED
        BY <3>2
    <2>3. CASE r.kind = "remove"
      BY <2>3 DEF Applied, HDEL
    <2> QED
      BY <1>3, <2>1, <2>2, <2>3 DEF Writing
  <1>7. a = [k \in Keys |-> a[k]]
    <2>1. CASE r.kind = "insert"
      <3>1. a = HMSET(h, ks, r.id)
        BY <2>1 DEF Applied
      <3> QED
        BY <3>1 DEF HMSET
    <2>2. CASE r.kind = "accum"
      <3>1. a = HMACCUM(h, ks, r.exists, r.id)
        BY <2>2 DEF Applied
      <3> HIDE DEF h, ks
      <3> QED
        BY <3>1 DEF HMACCUM
    <2>3. CASE r.kind = "remove"
      <3>1. a = HDEL(h, ks)
        BY <2>3 DEF Applied
      <3> QED
        BY <3>1 DEF HDEL
    <2> QED
      BY <1>3, <2>1, <2>2, <2>3 DEF Writing
  <1> HIDE DEF a
  <1>8. \A k \in Keys : a[k] \in Seq(0 .. calls')
    <2> SUFFICES ASSUME NEW k \in Keys PROVE a[k] \in Seq(0 .. calls')
      OBVIOUS
    <2>1. h[k] \in Seq(0 .. calls)
      BY <1>4
    <2> DEFINE n == 0 .. calls
               i == r.id
               v == h[k]
    <2>2. i \in n
      BY <1>5
    <2>3. a[k] = v \/ a[k] = << >> \/ a[k] = <<i>> \/ a[k] = Append(v, i)
      BY <1>6
    <2>4. v \in Seq(n)
      BY <2>1
    <2> HIDE DEF n, i, v
    <2>5. << >> \in Seq(n) /\ <<i>> \in Seq(n) /\ Append(v, i) \in Seq(n)
      BY <2>2, <2>4, GrownSeq
    <2>6. a[k] \in Seq(n)
      BY <2>3, <2>4, <2>5
    <2> QED
      BY <1>2, <2>6, LongerSeq DEF n
  <1>9. ASSUME ~ met', NEW k \in Keys, k \in ks
        PROVE  /\ r = Own(t) /\ r.id = call[t].id /\ r.id \in Nat \ {0} /\ Unsent(t, k)
               /\ \A u \in Threads : Unsent(u, k)' => call'[u].id # r.id
    <2>1. r = Own(t)
      BY <1>1, <1>9 DEF Kept, OwnOK, Sending
    <2>2. r.id = call[t].id /\ r.kind = call[t].kind /\ r.keys = call[t].keys
      BY <2>1 DEF Own
    <2>3. r.id \in Nat \ {0}
      BY <1>1, <2>2 DEF CallOK, Sending, CtxInv, Globals
    <2>4. BucketOf(k) = b /\ k \in r.keys
      BY <1>9 DEF KeysIn
    <2>5. Unsent(t, k)
      BY <1>1, <1>3, <2>2, <2>4 DEF Unsent, Commands, Sending
    <2>6. ASSUME NEW u \in Threads, Unsent(u, k)'
          PROVE  call'[u].id # r.id
      <3>1. CASE call'[u].id > calls
        BY <1>2, <1>5, <3>1
      <3>2. CASE Unsent(u, k) /\ call'[u].id = call[u].id
        <4>1. u # t
          <5> SUFFICES ASSUME u = t PROVE FALSE
            OBVIOUS
          <5>1. Alike(call'[t], call[t]) /\ call'[t].pending = call[t].pending \ {b}
            BY AnswerPlaced
          <5>2. slices' = slices
            BY DEF Write, WriteFails, CallStep, starting
          <5>3. BucketOf(k)' = b
            BY <2>4, <5>2 DEF BucketOf
          <5> QED
            BY <1>1, <2>6, <5>1, <5>3 DEF Unsent, Alike, Sending
        <4> QED
          BY <1>1, <2>2, <2>5, <3>2, <4>1 DEF Distinct, Unsent
      <3> QED
        BY <2>6, <3>1, <3>2 DEF Kept
    <2> QED
      BY <2>1, <2>2, <2>3, <2>5, <2>6
  <1>10. ASSUME NEW k \in Keys PROVE NextOK(k, a[k])
    <2>1. NextOK(k, h[k]) /\ ValueOK(k, h[k]) /\ h[k] \in Seq(0 .. calls)
      BY <1>4 DEF NextHash, HashOK
    <2>2. CASE a[k] = h[k]
      BY <2>1, <2>2
    <2>3. CASE a[k] = << >>
      BY <2>3 DEF NextOK, AddedOnce
    <2>4. CASE a[k] = <<r.id>> /\ k \in ks
      BY <1>9, <2>4 DEF NextOK, AddedOnce
    <2>5. CASE a[k] = Append(h[k], r.id) /\ k \in ks
      <3> DEFINE s == h[k]
                 x == Append(s, r.id)
      <3> SUFFICES ASSUME ~ met' PROVE /\ AddedOnce(x)
                                       /\ \A u \in Threads : Unsent(u, k)' =>
                                            \A i \in DOMAIN x : x[i] # call'[u].id
        BY <2>5 DEF NextOK
      <3>1. /\ r.id = call[t].id /\ r.id \in Nat \ {0} /\ Unsent(t, k)
            /\ \A u \in Threads : Unsent(u, k)' => call'[u].id # r.id
        BY <1>9, <2>5
      <3>2. AddedOnce(s) /\ \A i \in DOMAIN s : s[i] # r.id
        BY <2>1, <3>1 DEF ValueOK, Kept
      <3>3. \A u \in Threads : Unsent(u, k)' => \A i \in DOMAIN s : s[i] # call'[u].id
        BY <2>1 DEF NextOK
      <3>4. s \in Seq(0 .. calls)
        BY <2>1
      <3> HIDE DEF s
      <3>5. /\ DOMAIN s = 1 .. Len(s) /\ DOMAIN x = 1 .. (Len(s) + 1) /\ Len(s) \in Nat
            /\ x[Len(s) + 1] = r.id /\ \A i \in 1 .. Len(s) : x[i] = s[i]
        BY <1>5, <3>4
      <3> HIDE DEF x
      <3>6. AddedOnce(x)
        BY <3>2, <3>5 DEF AddedOnce
      <3> QED
        BY <3>1, <3>3, <3>5, <3>6
    <2> QED
      BY <1>6, <2>2, <2>3, <2>4, <2>5
  <1> QED
    BY <1>7, <1>8, <1>10 DEF NextHash, a

LEMMA ValuesNext ==
  ASSUME \E S : redis' \in [Bucket -> S], \A b \in Bucket : NextHash(redis'[b]),
         \A b \in DOMAIN jobs' : NextHash(jobs'[b])
  PROVE  ValuesInv'
  <1>1. \A b \in Bucket : redis'[b] \in [Keys -> Seq(0 .. calls')]
    BY DEF NextHash
  <1>2. redis' \in [Bucket -> [Keys -> Seq(0 .. calls')]]
    BY <1>1
  <1>3. (\A b \in Bucket : HashOK(redis[b]))' /\ (\A b \in DOMAIN jobs : HashOK(jobs[b]))'
    BY DEF NextHash, NextOK, HashOK, ValueOK
  <1> QED
    BY <1>2, <1>3 DEF ValuesInv

(* Hashes that are kept, copied or deleted.                                *)
Table(h) == h = Empty \/ (\E b \in Bucket : h = redis[b]) \/ \E b \in DOMAIN jobs : h = jobs[b]

LEMMA ValuesMoved ==
  ASSUME Kept, ValuesInv, \E S : redis' \in [Bucket -> S],
         \A b \in Bucket : Table(redis'[b]), \A b \in DOMAIN jobs' : Table(jobs'[b])
  PROVE  ValuesInv'
  <1>1. \A h : Table(h) => NextHash(h)
    BY HashKept, EmptyNext DEF Table, ValuesInv
  <1> QED
    BY <1>1, ValuesNext

LEMMA EmptyStored ==
  ASSUME NEW f, \E S : f \in [Bucket -> S], NEW b, NEW h
  PROVE  \E S : [f EXCEPT ![b] = h] \in [Bucket -> S]
  <1>1. PICK S : f \in [Bucket -> S]
    OBVIOUS
  <1>2. [f EXCEPT ![b] = h] \in [Bucket -> S \cup {h}]
    BY <1>1
  <1> QED
    BY <1>2

LEMMA StartUpValues ==
  ASSUME ErrorInv, CtxInv, CtxInv', ValuesInv, StartUp
  PROVE  ValuesInv'
  <1>1. Kept
    BY StartUpKeeps
  <1>2. \E S : redis \in [Bucket -> S]
    BY DEF ValuesInv
  <1>3. ASSUME redis' = redis, jobs' = jobs
        PROVE  ValuesInv'
    BY <1>1, <1>2, <1>3, ValuesMoved DEF Table
  <1>4. ASSUME NEW b \in Bucket, Recreate(b)
        PROVE  ValuesInv'
    <2>1. PICK junk : redis' = [c \in Bucket |-> IF c \in ToSet(slices)
                                  THEN HMSET(redis[c], KeysIn(c, junk), 0) ELSE redis[c]]
      BY <1>4 DEF Recreate
    <2>2. \A c \in Bucket : NextHash(redis'[c])
      BY <1>1, <2>1, HashKept, JunkNext DEF ValuesInv
    <2>3. jobs' = jobs
      BY <1>4 DEF Recreate
    <2>4. \A c \in DOMAIN jobs' : NextHash(jobs'[c])
      BY <1>1, <2>3, HashKept DEF ValuesInv
    <2>5. \E S : redis' \in [Bucket -> S]
      <3>1. redis' \in [Bucket -> {redis'[c] : c \in Bucket}]
        BY <2>1
      <3> QED
        BY <3>1
    <2> QED
      BY <2>2, <2>4, <2>5, ValuesNext
  <1>5. ASSUME NEW b \in Bucket, Drop(b)
        PROVE  ValuesInv'
    <2>1. redis' = [redis EXCEPT ![b] = Empty] /\ jobs' = jobs
      BY <1>5 DEF Drop, Store
    <2>2. \A c \in Bucket : Table(redis'[c])
      BY <1>2, <2>1 DEF Table
    <2>3. \E S : redis' \in [Bucket -> S]
      BY <1>2, <2>1, EmptyStored
    <2> QED
      BY <1>1, <2>1, <2>2, <2>3, ValuesMoved DEF Table
  <1>6. CASE Duplicate
    <2>1. redis' = redis /\ jobs' = [b \in ToSet(slicesImport) |-> Empty]
      BY <1>6 DEF Duplicate, server
    <2> QED
      BY <1>1, <1>2, <2>1, ValuesMoved DEF Table
  <1> QED
    BY <1>3, <1>4, <1>5, <1>6 DEF StartUp, Start, StartFails, RecreateEnd, DropEnd,
       DuplicateCheck, Persist, server, StartStep

LEMMA ServerValues ==
  ASSUME CtxInv, ValuesInv, Copying \/ Stop \/ Crash \/ \E b \in Bucket : Expire(b)
  PROVE  ValuesInv'
  <1>1. Kept
    BY ServerKeeps
  <1>2. \E S : redis \in [Bucket -> S]
    BY DEF ValuesInv
  <1>3. ASSUME NEW b \in Bucket, JobDump(b)
        PROVE  ValuesInv'
    <2>1. redis' = redis /\ (jobs' = [jobs EXCEPT ![b] = redis[b]] \/ jobs' = Without(b))
      BY <1>3 DEF JobDump, server
    <2>2. \A c \in DOMAIN jobs' : Table(jobs'[c])
      BY <2>1 DEF Table, Without
    <2> QED
      BY <1>1, <1>2, <2>1, <2>2, ValuesMoved DEF Table
  <1>4. ASSUME NEW b \in Bucket, JobRestore(b)
        PROVE  ValuesInv'
    <2>1. /\ b \in DOMAIN jobs /\ jobs' = Without(b)
          /\ redis' = redis \/ redis' = [redis EXCEPT ![Target(b)] = jobs[b]]
      BY <1>4 DEF JobRestore
    <2> DEFINE target == Target(b)
    <2> HIDE DEF target
    <2>2. redis' = redis \/ redis' = [redis EXCEPT ![target] = jobs[b]]
      BY <2>1 DEF target
    <2>3. \A c \in Bucket : Table(redis'[c])
      BY <1>2, <2>1, <2>2 DEF Table
    <2>4. \A c \in DOMAIN jobs' : Table(jobs'[c])
      BY <2>1 DEF Table, Without
    <2>5. \E S : redis' \in [Bucket -> S]
      BY <1>2, <2>2, EmptyStored
    <2> QED
      BY <1>1, <2>3, <2>4, <2>5, ValuesMoved
  <1>5. ASSUME NEW b \in Bucket, JobFails(b)
        PROVE  ValuesInv'
    <2>1. redis' = redis /\ jobs' = Without(b)
      BY <1>5 DEF JobFails, server
    <2> QED
      BY <1>1, <1>2, <2>1, ValuesMoved DEF Table, Without
  <1>6. CASE Stop
    <2>1. redis' = redis /\ jobs' = jobs
      BY <1>6 DEF Stop
    <2> QED
      BY <1>1, <1>2, <2>1, ValuesMoved DEF Table
  <1>7. CASE Crash
    <2>1. redis' = redis /\ DOMAIN jobs' = {}
      BY <1>7 DEF Crash, server
    <2> QED
      BY <1>1, <1>2, <2>1, ValuesMoved DEF Table
  <1>8. ASSUME NEW b \in Bucket, Expire(b)
        PROVE  ValuesInv'
    <2>1. redis' = [redis EXCEPT ![b] = Empty] /\ jobs' = jobs
      BY <1>8 DEF Expire, Store, starting
    <2>2. \E S : redis' \in [Bucket -> S]
      BY <1>2, <2>1, EmptyStored
    <2> QED
      BY <1>1, <1>2, <2>1, <2>2, ValuesMoved DEF Table
  <1> QED
    BY <1>3, <1>4, <1>5, <1>6, <1>7, <1>8 DEF Copying

LEMMA CallingValues ==
  ASSUME ErrorInv, CtxInv, ValuesInv, NEW t \in Threads, Calling(t)
  PROVE  ValuesInv'
  <1>1. Kept
    BY CallingKeeps
  <1>2. /\ \E S : redis \in [Bucket -> S]
        /\ jobs' = jobs /\ slices \in Layouts
    BY OthersGo DEF ValuesInv, starting, CtxInv, Globals
  <1>3. ASSUME redis' = redis
        PROVE  ValuesInv'
    BY <1>1, <1>2, <1>3, ValuesMoved DEF Table
  <1>4. ASSUME NEW b \in Bucket, Write(t, b) \/ WriteFails(t, b)
        PROVE  ValuesInv'
    <2> DEFINE a == Applied(Request(t), b)
    <2>1. NextHash(a)
      BY <1>1, <1>4, SentNext
    <2>2. redis' = redis \/ redis' = [redis EXCEPT ![b] = a]
      BY <1>4 DEF Write, WriteFails, Store, server
    <2> HIDE DEF a
    <2>3. \A c \in Bucket : redis'[c] = a \/ redis'[c] = redis[c]
      BY <1>2, <2>2
    <2>4. \A c \in Bucket : NextHash(redis'[c])
      BY <1>1, <2>1, <2>3, HashKept DEF ValuesInv
    <2>5. \A c \in DOMAIN jobs' : NextHash(jobs'[c])
      BY <1>1, <1>2, HashKept DEF ValuesInv
    <2>6. \E S : redis' \in [Bucket -> S]
      BY <1>2, <2>2, EmptyStored
    <2> QED
      BY <2>4, <2>5, <2>6, ValuesNext
  <1>5. CASE ClearNext(t)
    <2>1. redis' = [redis EXCEPT ![Here(t)] = Empty]
      BY <1>5 DEF ClearNext, Store
    <2> DEFINE b == Here(t)
    <2> HIDE DEF b
    <2>2. redis' = [redis EXCEPT ![b] = Empty]
      BY <2>1 DEF b
    <2>3. \A c \in Bucket : Table(redis'[c])
      BY <1>2, <2>2 DEF Table
    <2>4. \E S : redis' \in [Bucket -> S]
      BY <1>2, <2>2, EmptyStored
    <2> QED
      BY <1>1, <1>2, <2>3, <2>4, ValuesMoved DEF Table
  <1> QED
    BY <1>3, <1>4, <1>5 DEF Calling, Begin, SelectTry, SelectEnd, SelectSize, SelectPush,
                            SelectOccupy, Prepare, Read,
       ReadFails, WriteEnd, WriteThrow, WriteError, FindEnd, ExportSize, ExportAlloc, ExportScan,
       BucketsEnd, BucketsFail, server

(* Every value keeps its type, and holds the ids of its calls once, none of*)
(* them that of a call that has yet to write it.                           *)
THEOREM ValuesKept == Spec => []ValuesInv
  <1>1. Init => ValuesInv
    <2> SUFFICES ASSUME Init PROVE ValuesInv
      OBVIOUS
    <2>1. calls = 0 /\ redis = [b \in Bucket |-> Empty] /\ DOMAIN jobs = {}
      BY DEF Init
    <2>2. Empty \in [Keys -> Seq(0 .. 0)] /\ \A k \in Keys : Empty[k] = << >>
      BY DEF Empty
    <2>3. \A k \in Keys : ValueOK(k, << >>)
      BY DEF ValueOK, AddedOnce
    <2> QED
      BY <2>1, <2>2, <2>3 DEF ValuesInv, HashOK
  <1>2. ErrorInv /\ CtxInv /\ CtxInv' /\ ValuesInv /\ [Next /\ budget' = budget]_vars => ValuesInv'
    <2> SUFFICES ASSUME ErrorInv, CtxInv, CtxInv', ValuesInv, [Next /\ budget' = budget]_vars
                 PROVE  ValuesInv'
      OBVIOUS
    <2>1. CASE UNCHANGED vars
      BY <2>1 DEF vars, server, starting, ValuesInv, HashOK, ValueOK, Unsent, Commands, BucketOf
    <2>2. CASE Finished
      BY <2>1, <2>2 DEF Finished
    <2>3. CASE Next /\ ~ Finished
      BY <2>3, StartUpValues, ServerValues, CallingValues DEF Next
    <2> QED
      BY <2>1, <2>2, <2>3
  <1> QED
    BY <1>1, <1>2, ErrorsKept, CallsKeptApart, PTL DEF Spec

(* The types; a thread past SelectAvailableThreadContext has a context of  *)
(* its vector, an occupied one as long as threads have not raced for a new *)
(* one: whatever threads select and release at once.                       *)
THEOREM TypeCorrect == Spec => []TypeOK
  <1>1. CtxInv /\ ValuesInv => TypeOK
    <2> SUFFICES ASSUME CtxInv, ValuesInv PROVE TypeOK
      OBVIOUS
    <2>1. budget.calls \in Nat /\ calls \in Nat /\ calls <= budget.calls
      BY RedisAssumption DEF CtxInv, Globals
    <2>2. redis \in [Bucket -> Contents]
      <3>1. \A b \in Bucket : \A k \in Keys : redis[b][k] \in Seq(0 .. budget.calls)
        BY <2>1, LongerSeq DEF ValuesInv
      <3>2. \A b \in Bucket : redis[b] \in [Keys -> Seq(0 .. budget.calls)]
        BY <3>1 DEF ValuesInv
      <3> QED
        BY <3>2 DEF ValuesInv, Contents
    <2>3. ASSUME NEW t \in Threads, call[t].pc \in {"prepare", "send", "throw"}
          PROVE  /\ call[t].ctx \in 1 .. Len(contexts[Vector(t)])
                 /\ ~ met => contexts[Vector(t)][call[t].ctx].occupied
      <3>1. CallOK(t) /\ PlaceOK(t) /\ (~ met => OwnOK(t)) /\ Using(t) /\ Commands(t)
        BY <2>3 DEF CtxInv, Placed, Using, Commands
      <3>2. Len(contexts[Vector(t)]) \in Nat
        BY VectorsOf DEF CtxInv, Placed, Vector
      <3> QED
        BY <3>1, <3>2 DEF CallOK, PlaceOK, OwnOK, Holds, Room
    <2> QED
      BY <2>2, <2>3 DEF TypeOK, CtxInv, Globals
  <1> QED
    BY <1>1, CallsKeptApart, ValuesKept, PTL

(* A delta is added once: no two calls send from one context, unless two   *)
(* threads have come to the end of a vector before either had a new context*)
(* there, or one has taken the context that another had pushed and not yet *)
(* marked, which are the races of the code.                                *)
THEOREM DeltasAddedOnce == Spec => []DeltaOnce
  <1>1. ValuesInv => DeltaOnce
    BY DEF ValuesInv, HashOK, ValueOK, DeltaOnce
  <1> QED
    BY <1>1, ValuesKept, PTL
-----------------------------------------------------------------------------
(* What an accumulation does to a value.                                   *)
LEMMA Longer ==
  ASSUME NEW s \in Seq(Nat), NEW x
  PROVE  IsPrefix(s, s) /\ IsPrefix(s, Append(s, x)) /\ IsPrefix(<< >>, s) /\ IsPrefix(<< >>, <<x>>)
  BY DEF IsPrefix

LEMMA ValuesAreSequences ==
  ASSUME CtxInv, ValuesInv
  PROVE  \A b \in Bucket, k \in Keys : redis[b][k] \in Seq(Nat)
  <1>1. calls \in Nat
    BY RedisAssumption DEF CtxInv, Globals
  <1>2. \A s \in Seq(0 .. calls) : s \in Seq(Nat)
    <2> SUFFICES ASSUME NEW s \in Seq(0 .. calls) PROVE s \in Seq(Nat)
      OBVIOUS
    <2>1. \A i \in 1 .. Len(s) : s[i] \in Nat
      BY <1>1
    <2> QED
      BY <2>1
  <1> QED
    BY <1>2 DEF ValuesInv

(* An accumulation leaves every value of its bucket longer, or as it is.   *)
LEMMA AccumLonger ==
  ASSUME CtxInv, ValuesInv, NEW t \in Threads, NEW b \in Bucket,
         Write(t, b) \/ WriteFails(t, b), call[t].kind = "accum", ~ met
  PROVE  \A c \in Bucket, k \in Keys : IsPrefix(redis[c][k], redis'[c][k])
  <1> DEFINE r  == Request(t)
             h  == redis[b]
             ks == KeysIn(b, r.keys)
             a  == HMACCUM(h, ks, r.exists, r.id)
  <1>1. \A c \in Bucket, k \in Keys : redis[c][k] \in Seq(Nat)
    BY ValuesAreSequences
  <1>2. r = Own(t)
    BY DEF Write, WriteFails, Sending, CtxInv, Placed, OwnOK
  <1>3. Applied(r, b) = a
    BY <1>2 DEF Applied, Own
  <1>4. \A k \in Keys : IsPrefix(h[k], a[k])
    <2> SUFFICES ASSUME NEW k \in Keys PROVE IsPrefix(h[k], a[k])
      OBVIOUS
    <2>1. a[k] = CASE k \in ks /\ r.exists /\ h[k] # << >>   -> Append(h[k], r.id)
                   [] k \in ks /\ ~ r.exists /\ h[k] = << >> -> <<r.id>>
                   [] OTHER                                  -> h[k]
      BY DEF HMACCUM
    <2>2. \/ a[k] = Append(h[k], r.id)
          \/ a[k] = <<r.id>> /\ h[k] = << >>
          \/ a[k] = h[k]
      BY <2>1
    <2> QED
      BY <1>1, <2>2, Longer
  <1>5. redis' = redis \/ redis' = [redis EXCEPT ![b] = Applied(r, b)]
    BY DEF Write, WriteFails, Store, server
  <1>6. redis' = redis \/ redis' = [redis EXCEPT ![b] = a]
    BY <1>3, <1>5
  <1> HIDE DEF a
  <1>7. \A c \in Bucket : redis'[c] = redis[c] \/ (c = b /\ redis'[c] = a)
    BY <1>6 DEF ValuesInv
  <1> QED
    BY <1>1, <1>4, <1>7, Longer

(* An accumulation never replaces what was learned, whatever its caller    *)
(* has been told of which keys exist, but for the races of two threads for *)
(* a new context.                                                          *)
THEOREM AccumulationsKeep == Spec => AccumKeepsLearned
  <1> DEFINE Longest == \A b \in Bucket, k \in Keys : IsPrefix(redis[b][k], redis'[b][k])
             Step == ~ met => \A t \in Threads :
                       call[t].kind = "accum" /\ call'[t].pending # call[t].pending => Longest
  <1>1. ErrorInv /\ CtxInv /\ ValuesInv /\ [Next /\ budget' = budget]_vars => [Step]_vars
    <2> SUFFICES ASSUME ErrorInv, CtxInv, ValuesInv, Next, vars' # vars, ~ met,
                        NEW t \in Threads, call[t].kind = "accum",
                        call'[t].pending # call[t].pending
                 PROVE  Longest
      OBVIOUS
    <2>1. ASSUME redis' = redis PROVE Longest
      BY <2>1, ValuesAreSequences, Longer
    <2>2. CASE StartUp \/ Crash
      BY <2>1, <2>2 DEF StartUp, Start, StartFails, RecreateEnd, DropEnd, Duplicate,
         DuplicateCheck, Persist, Recreate, Drop, StartStep, Crash, server
    <2>3. CASE Copying \/ Stop \/ \E b \in Bucket : Expire(b)
      BY <2>3, AllGo DEF Goes
    <2>4. ASSUME NEW u \in Threads, Calling(u)
          PROVE  Longest
      <3>1. u = t
        BY <2>4, OthersGo DEF Goes
      <3>2. ASSUME NEW b \in Bucket, Write(t, b) \/ WriteFails(t, b)
            PROVE  Longest
        BY <3>2, AccumLonger
      <3>3. ~ ClearNext(t)
        <4> SUFFICES ASSUME ClearNext(t) PROVE FALSE
          OBVIOUS
        <4> DEFINE f == IF redis' = redis THEN call ELSE Watched(redis')
        <4>1. call' = [f EXCEPT ![t].next = @ + 1]
          BY DEF ClearNext
        <4>2. \A w \in Threads : Core \subseteq DOMAIN call[w]
          BY DEF CtxInv, Placed, CallOK
        <4>3. /\ DOMAIN f = Threads /\ f[t].pending = call[t].pending
              /\ "pending" \in DOMAIN f[t]
          BY <4>2, WatchedAlike DEF Alike, Core, Watched, ErrorInv, Shape
        <4> HIDE DEF f
        <4> QED
          BY <4>1, <4>3
      <3> QED
        BY <2>1, <2>4, <3>1, <3>2, <3>3 DEF Calling, Begin, SelectTry, SelectEnd, SelectSize,
                                        SelectPush, SelectOccupy,
           Prepare, Read, ReadFails, WriteEnd, WriteThrow, WriteError, FindEnd, ExportSize,
           ExportAlloc, ExportScan, BucketsEnd, BucketsFail, server
    <2> QED
      BY <2>2, <2>3, <2>4 DEF Next, Finished
  <1> QED
    BY <1>1, ErrorsKept, CallsKeptApart, ValuesKept, PTL DEF Spec, AccumKeepsLearned
-----------------------------------------------------------------------------
(* What a start keeps.  As long as nothing excuses a missing item, only    *)
(* calls that read have run; and the process goes on with the buckets of   *)
(* the last, or every bucket of the last is still there, or in a copy that *)
(* has been dumped, or in its new bucket.                                  *)
OldBucketOf(k) == slicesImport[1 + (Hash[k] % Len(slicesImport))]

Moving == /\ Len(slices) = Len(slicesImport) /\ ToSet(slices) \cap ToSet(slicesImport) = {}
          /\ DOMAIN jobs \subseteq ToSet(slicesImport)

Copied(k) ==
  LET b == OldBucketOf(k) IN
  IF b \notin DOMAIN jobs THEN Value(k) = before[k]
  ELSE IF jobs[b] = Empty THEN Fields(b) = {} \/ redis[b][k] = before[k]
  ELSE jobs[b][k] = before[k]

AsBefore == DOMAIN jobs = {} /\ \A k \in Keys : Value(k) = before[k]
BeingMoved == Moving /\ \A k \in Keys : Copied(k)

Reads(t) == call[t].pc # "clear" /\ (Commands(t) => call[t].kind = "find")

Where ==
  /\ phase \notin {"recreate", "drop"}
  /\ phase = "duplicate" => /\ DOMAIN jobs = {} /\ Moving
                            /\ \A k \in Keys : redis[OldBucketOf(k)][k] = before[k]
  /\ phase \in {"check", "remove"} => BeingMoved /\ todo \subseteq ToSet(slicesImport)
  /\ phase \in {"persist", "up"} => AsBefore \/ BeingMoved

KeepInv == intact => Where /\ \A t \in Threads : Reads(t)

LEMMA NamesCounted ==
  ASSUME NEW l \in Layouts
  PROVE  IsFiniteSet(ToSet(l)) /\ Cardinality(ToSet(l)) = Len(l)
  <1>1. Len(l) \in Nat /\ l \in [1 .. Len(l) -> ToSet(l)] /\ \A i, j \in 1 .. Len(l) : l[i] = l[j] => i = j
    BY NamesAreBuckets DEF ToSet
  <1>2. \A x \in ToSet(l) : \E i \in 1 .. Len(l) : l[i] = x
    BY <1>1, NamesAreBuckets DEF ToSet
  <1>3. l \in Surjection(1 .. Len(l), ToSet(l)) /\ l \in Injection(1 .. Len(l), ToSet(l))
    BY <1>1, <1>2 DEF Surjection, Injection, IsInjective
  <1>4. IsFiniteSet(1 .. Len(l)) /\ Cardinality(1 .. Len(l)) = Len(l)
    BY <1>1, FS_Interval
  <1> QED
    BY <1>3, <1>4, FS_Surjection

(* The place of a key in the names.                                        *)
LEMMA PlaceOf ==
  ASSUME NEW l \in Layouts, NEW k \in Keys
  PROVE  1 + (Hash[k] % Len(l)) \in 1 .. Len(l)
  <1>1. Len(l) \in Nat \ {0} /\ Hash[k] \in Nat
    BY NamesAreBuckets, RedisAssumption
  <1> QED
    BY <1>1

LEMMA Homes ==
  ASSUME CtxInv, NEW k \in Keys
  PROVE  /\ BucketOf(k) \in ToSet(slices) /\ OldBucketOf(k) \in ToSet(slicesImport)
         /\ ToSet(slices) \subseteq Bucket /\ ToSet(slicesImport) \subseteq Bucket
  <1>1. slices \in Layouts /\ slicesImport \in Layouts
    BY DEF CtxInv, Globals
  <1>2. 1 + (Hash[k] % Len(slices)) \in 1 .. Len(slices)
    BY <1>1, PlaceOf
  <1>3. 1 + (Hash[k] % Len(slicesImport)) \in 1 .. Len(slicesImport)
    BY <1>1, PlaceOf
  <1> DEFINE i == 1 + (Hash[k] % Len(slices))
             j == 1 + (Hash[k] % Len(slicesImport))
  <1>4. i \in DOMAIN slices /\ j \in DOMAIN slicesImport
    BY <1>1, <1>2, <1>3, NamesAreBuckets
  <1>5. BucketOf(k) = slices[i] /\ OldBucketOf(k) = slicesImport[j]
    BY DEF BucketOf, OldBucketOf
  <1> HIDE DEF i, j
  <1> QED
    BY <1>1, <1>4, <1>5, NamesAreBuckets DEF ToSet

(* A bucket is copied to that of the same place, and only that.            *)
LEMMA TargetOf ==
  ASSUME CtxInv, Moving, NEW k \in Keys, NEW b \in ToSet(slicesImport)
  PROVE  /\ b = OldBucketOf(k) => Target(b) = BucketOf(k)
         /\ b # OldBucketOf(k) => Target(b) # BucketOf(k)
         /\ Target(b) \in ToSet(slices)
  <1> DEFINE n == Len(slices)
             i == 1 + (Hash[k] % n)
             P(m) == m \in DOMAIN slices /\ slicesImport[m] = b
             c == CHOOSE m \in DOMAIN slices : slicesImport[m] = b
  <1>1. slices \in Layouts /\ slicesImport \in Layouts /\ n = Len(slicesImport)
    BY DEF CtxInv, Globals, Moving
  <1>2. i \in 1 .. n
    BY <1>1, PlaceOf
  <1>3. BucketOf(k) = slices[i] /\ OldBucketOf(k) = slicesImport[i] /\ Target(b) = slices[c]
    BY <1>1 DEF BucketOf, OldBucketOf, Target
  <1> HIDE DEF i
  <1>4. /\ DOMAIN slices = 1 .. n /\ DOMAIN slicesImport = 1 .. n
        /\ \A x, y \in 1 .. n : slices[x] = slices[y] => x = y
        /\ \A x, y \in 1 .. n : slicesImport[x] = slicesImport[y] => x = y
    BY <1>1, NamesAreBuckets
  <1>5. \E m \in DOMAIN slices : slicesImport[m] = b
    BY <1>4 DEF ToSet
  <1>6. c \in 1 .. n /\ slicesImport[c] = b
    BY <1>4, <1>5
  <1> HIDE DEF c, n
  <1> QED
    BY <1>2, <1>3, <1>4, <1>6 DEF ToSet
-----------------------------------------------------------------------------
LEMMA CopiedStays ==
  ASSUME NEW k \in Keys, UNCHANGED <<redis, jobs, slices, slicesImport, before>>
  PROVE  Value(k)' = Value(k) /\ Copied(k)' = Copied(k) /\ OldBucketOf(k)' = OldBucketOf(k)
  BY DEF Value, BucketOf, Copied, OldBucketOf, Fields

(* A step of which only the phase and what is to do say where the table is.*)
LEMMA PhaseKeeps ==
  ASSUME UNCHANGED <<redis, jobs, slices, slicesImport, before>>
  PROVE  /\ BeingMoved' = BeingMoved /\ AsBefore' = AsBefore /\ Moving' = Moving
  <1>1. Moving' = Moving
    BY DEF Moving
  <1>2. \A k \in Keys : Copied(k)' = Copied(k) /\ Value(k)' = Value(k)
    BY CopiedStays
  <1>3. BeingMoved' = BeingMoved
    BY <1>1, <1>2 DEF BeingMoved
  <1>4. AsBefore' = AsBefore
    BY <1>2 DEF AsBefore
  <1> QED
    BY <1>1, <1>3, <1>4

LEMMA StartKeepsTable ==
  ASSUME CtxInv, NEW new \in Layouts, NEW imp \in Layouts, Start(new, imp), intact'
  PROVE  Where'
  <1>1. /\ DOMAIN jobs' = {} /\ slices' = new /\ slicesImport' = imp /\ redis' = redis
        /\ phase' = Plan(new, imp) /\ before' = [k \in Keys |-> Value(k)]
    BY DEF Start, server
  <1>2. \/ new = slices /\ phase' = "persist"
        \/ imp = slices /\ phase' = "duplicate" /\ ToSet(new) \cap ToSet(imp) = {}
    BY DEF Start
  <1>3. CASE new = slices /\ phase' = "persist"
    <2>1. \A k \in Keys : Value(k)' = before'[k]
      BY <1>1, <1>3 DEF Value, BucketOf
    <2> QED
      BY <1>1, <1>3, <2>1 DEF Where, AsBefore
  <1>4. CASE imp = slices /\ phase' = "duplicate" /\ ToSet(new) \cap ToSet(imp) = {}
    <2>1. \A k \in Keys : redis'[OldBucketOf(k)'][k] = before'[k]
      BY <1>1, <1>4 DEF OldBucketOf, Value, BucketOf
    <2>2. Len(new) = Len(imp)
      <3>1. Plan(new, imp) = "duplicate"
        BY <1>1, <1>4
      <3>2. Cardinality(Present) = Len(new) /\ Present = ToSet(imp)
        BY <3>1 DEF Plan
      <3> QED
        BY <3>2, NamesCounted
    <2>3. Moving'
      BY <1>1, <1>4, <2>2 DEF Moving
    <2> QED
      BY <1>1, <1>4, <2>1, <2>3 DEF Where
  <1> QED
    BY <1>2, <1>3, <1>4

(* A bucket that was copied is removed.                                    *)
LEMMA DropKeepsTable ==
  ASSUME CtxInv, ValuesInv, Where, NEW b \in Bucket, Drop(b)
  PROVE  Where'
  <1>1. /\ phase = "remove" /\ phase' = phase /\ BeingMoved /\ b \in ToSet(slicesImport)
        /\ todo' \subseteq ToSet(slicesImport) /\ redis' = [redis EXCEPT ![b] = Empty]
        /\ slices' = slices /\ slicesImport' = slicesImport /\ jobs' = jobs /\ before' = before
    BY DEF Drop, Where, Store, StartStep
  <1>2. ASSUME NEW k \in Keys PROVE Copied(k)'
    <2>1. /\ Copied(k) /\ BucketOf(k)' = BucketOf(k) /\ OldBucketOf(k)' = OldBucketOf(k)
      BY <1>1 DEF BeingMoved, BucketOf, OldBucketOf
    <2>2. BucketOf(k) # b /\ BucketOf(k) \in Bucket /\ OldBucketOf(k) \in Bucket
      BY <1>1, Homes DEF BeingMoved, Moving
    <2>3. Value(k)' = Value(k)
      BY <1>1, <2>1, <2>2 DEF Value, ValuesInv
    <2>4. CASE OldBucketOf(k) = b
      <3>1. redis'[b] = Empty
        BY <1>1 DEF ValuesInv
      <3>2. Fields(b)' = {}
        BY <3>1 DEF Fields, Empty
      <3> QED
        BY <1>1, <2>1, <2>3, <2>4, <3>2 DEF Copied
    <2>5. CASE OldBucketOf(k) # b
      <3>1. redis'[OldBucketOf(k)] = redis[OldBucketOf(k)]
        BY <1>1, <2>2, <2>5 DEF ValuesInv
      <3>2. Fields(OldBucketOf(k))' = Fields(OldBucketOf(k))
        BY <2>1, <3>1 DEF Fields
      <3> QED
        BY <1>1, <2>1, <2>3, <3>1, <3>2 DEF Copied
    <2> QED
      BY <2>4, <2>5
  <1>3. Moving'
    BY <1>1 DEF BeingMoved, Moving
  <1>4. BeingMoved'
    BY <1>2, <1>3 DEF BeingMoved
  <1> QED
    BY <1>1, <1>4 DEF Where

LEMMA StartUpKeepsTable ==
  ASSUME CtxInv, ValuesInv, KeepInv, StartUp, intact'
  PROVE  KeepInv'
  <1>1. ASSUME NEW new \in Layouts, NEW imp \in Layouts, Start(new, imp)
        PROVE  KeepInv'
    <2>1. Where'
      BY <1>1, StartKeepsTable
    <2>2. \A t \in Threads : Reads(t)'
      BY <1>1 DEF Start, Reads, NoCall, Commands
    <2> QED
      BY <2>1, <2>2 DEF KeepInv
  <1>2. ASSUME ~ (\E new, imp \in Layouts : Start(new, imp))
        PROVE  KeepInv'
    <2>1. /\ StartStep
          /\ StartFails \/ RecreateEnd \/ DropEnd \/ Duplicate \/ DuplicateCheck \/ Persist
             \/ \E b \in Bucket : Recreate(b) \/ Drop(b)
      BY <1>2 DEF StartUp, StartFails, RecreateEnd, DropEnd, Duplicate, DuplicateCheck, Persist,
         Recreate, Drop
    <2>2. ~ StartFails /\ \A b \in Bucket : ~ Recreate(b)
      BY DEF StartFails, Recreate
    <2>3. intact
      BY <2>1, <2>2 DEF RecreateEnd, DropEnd, Duplicate, DuplicateCheck, Persist, Drop
    <2>4. Where /\ \A t \in Threads : Reads(t)
      BY <2>3 DEF KeepInv
    <2>5. \A t \in Threads : Reads(t)'
      BY <2>1, <2>4 DEF StartStep, Reads, Commands
    <2>6. Where'
      <3>1. ASSUME NEW b \in Bucket, Drop(b)
            PROVE  Where'
        BY <2>4, <3>1, DropKeepsTable
      <3>2. CASE DropEnd
        <4>1. /\ UNCHANGED <<redis, jobs, slices, slicesImport, before>>
              /\ phase = "remove" /\ phase' = "persist" /\ BeingMoved
          BY <2>4, <3>2 DEF DropEnd, StartStep, server, Where
        <4> QED
          BY <4>1, PhaseKeeps DEF Where
      <3>3. CASE Persist
        <4>1. /\ UNCHANGED <<redis, jobs, slices, slicesImport, before>>
              /\ phase' = "up" /\ (AsBefore \/ BeingMoved)
          BY <2>4, <3>3 DEF Persist, StartStep, Where
        <4> QED
          BY <4>1, PhaseKeeps DEF Where
      <3>4. CASE DuplicateCheck
        <4>1. /\ UNCHANGED <<redis, jobs, slices, slicesImport, before>>
              /\ phase' = "down" \/ (phase' = "remove" /\ todo' = todo)
              /\ BeingMoved /\ todo \subseteq ToSet(slicesImport)
          BY <2>4, <3>4 DEF DuplicateCheck, StartStep, server, Where
        <4>2. BeingMoved' /\ (ToSet(slicesImport))' = ToSet(slicesImport)
          BY <4>1, PhaseKeeps
        <4> QED
          BY <4>1, <4>2 DEF Where
      <3>5. CASE Duplicate
        <4>1. /\ phase' = "check" /\ redis' = redis /\ slices' = slices /\ before' = before
              /\ slicesImport' = slicesImport /\ todo' = ToSet(slicesImport)
              /\ jobs' = [b \in ToSet(slicesImport) |-> Empty]
              /\ Moving /\ \A k \in Keys : redis[OldBucketOf(k)][k] = before[k]
          BY <2>4, <3>5 DEF Duplicate, StartStep, server, Where
        <4>2. Moving'
          BY <4>1 DEF Moving
        <4>3. ASSUME NEW k \in Keys PROVE Copied(k)'
          <5>1. /\ OldBucketOf(k)' = OldBucketOf(k) /\ OldBucketOf(k) \in ToSet(slicesImport)
            BY <4>1, Homes DEF OldBucketOf
          <5>2. OldBucketOf(k) \in DOMAIN jobs' /\ jobs'[OldBucketOf(k)] = Empty
            BY <4>1, <5>1
          <5> QED
            BY <4>1, <5>1, <5>2 DEF Copied
        <4> QED
          BY <4>1, <4>2, <4>3 DEF Where, BeingMoved
      <3>6. ~ RecreateEnd
        BY <2>4 DEF RecreateEnd, Where
      <3> QED
        BY <2>1, <2>2, <3>1, <3>2, <3>3, <3>4, <3>5, <3>6
    <2> QED
      BY <2>5, <2>6 DEF KeepInv
  <1> QED
    BY <1>1, <1>2

(* A bucket is dumped, as it was before.                                   *)
LEMMA DumpKeepsTable ==
  ASSUME CtxInv, Where, NEW b \in Bucket, JobDump(b), intact'
  PROVE  Where'
  <1>1. /\ b \in DOMAIN jobs /\ jobs[b] = Empty /\ Fields(b) # {}
        /\ jobs' = [jobs EXCEPT ![b] = redis[b]] /\ redis' = redis
        /\ UNCHANGED <<phase, slices, slicesImport, todo, before>>
    BY DEF JobDump, JobStep, server
  <1>2. ASSUME BeingMoved PROVE BeingMoved'
    <2>1. Moving'
      BY <1>1, <1>2 DEF BeingMoved, Moving
    <2>2. ASSUME NEW k \in Keys PROVE Copied(k)'
      <3>1. /\ Copied(k) /\ Value(k)' = Value(k) /\ OldBucketOf(k)' = OldBucketOf(k)
            /\ DOMAIN jobs' = DOMAIN jobs
        BY <1>1, <1>2 DEF BeingMoved, Value, BucketOf, OldBucketOf
      <3>2. CASE OldBucketOf(k) = b
        <4>1. redis[b][k] = before[k] /\ jobs'[b] = redis[b]
          BY <1>1, <3>1, <3>2 DEF Copied
        <4>2. redis[b] # Empty
          BY <1>1 DEF Fields, Empty
        <4> QED
          BY <1>1, <3>1, <3>2, <4>1, <4>2 DEF Copied
      <3>3. CASE OldBucketOf(k) # b
        <4>1. OldBucketOf(k) \in DOMAIN jobs => jobs'[OldBucketOf(k)] = jobs[OldBucketOf(k)]
          BY <1>1, <3>3
        <4>2. Fields(OldBucketOf(k))' = Fields(OldBucketOf(k))
          BY <1>1, <3>1 DEF Fields
        <4> QED
          BY <1>1, <3>1, <4>1, <4>2 DEF Copied
      <3> QED
        BY <3>2, <3>3
    <2> QED
      BY <2>1, <2>2 DEF BeingMoved
  <1>3. ~ AsBefore /\ phase # "duplicate"
    BY <1>1 DEF AsBefore, Where
  <1>4. (ToSet(slicesImport))' = ToSet(slicesImport)
    BY <1>1
  <1> QED
    BY <1>1, <1>2, <1>3, <1>4 DEF Where

(* A bucket is restored under the name it goes on with.                    *)
LEMMA RestoreKeepsTable ==
  ASSUME CtxInv, ValuesInv, Where, NEW b \in Bucket, JobRestore(b), intact'
  PROVE  Where'
  <1>1. /\ b \in DOMAIN jobs /\ jobs[b] # Empty /\ jobs' = Without(b)
        /\ redis' = [redis EXCEPT ![Target(b)] = jobs[b]]
        /\ UNCHANGED <<phase, slices, slicesImport, todo, before>>
    BY DEF JobRestore, JobStep
  <1>2. ASSUME BeingMoved PROVE BeingMoved'
    <2>1. Moving'
      BY <1>1, <1>2 DEF BeingMoved, Moving, Without
    <2>2. ASSUME NEW k \in Keys PROVE Copied(k)'
      <3> DEFINE h == BucketOf(k)
                 o == OldBucketOf(k)
                 d == Target(b)
      <3>1. /\ Copied(k) /\ Moving /\ BucketOf(k)' = h /\ OldBucketOf(k)' = o
            /\ b \in ToSet(slicesImport)
        BY <1>1, <1>2 DEF BeingMoved, BucketOf, OldBucketOf, Moving
      <3>2. /\ h \in ToSet(slices) /\ o \in ToSet(slicesImport)
            /\ h \in Bucket /\ o \in Bucket
        BY Homes
      <3>3. /\ b = o => d = h
            /\ b # o => d # h
            /\ d \in ToSet(slices) /\ d # o
        BY <3>1, <3>2, TargetOf DEF Moving
      <3>4. /\ Value(k) = redis[h][k] /\ Value(k)' = redis'[h][k]
        BY <3>1 DEF Value
      <3>5. redis' = [redis EXCEPT ![d] = jobs[b]]
        BY <1>1
      <3> HIDE DEF d
      <3>6. redis'[o] = redis[o] /\ redis'[h] = IF b = o THEN jobs[b] ELSE redis[h]
        BY <3>2, <3>3, <3>5 DEF ValuesInv
      <3>7. Fields(OldBucketOf(k))' = Fields(o)
        BY <3>1, <3>6 DEF Fields
      <3>8. DOMAIN jobs' = DOMAIN jobs \ {b} /\ \A c \in DOMAIN jobs \ {b} : jobs'[c] = jobs[c]
        BY <1>1 DEF Without
      <3>9. CASE b = o
        <4>1. jobs[b][k] = before[k]
          BY <1>1, <3>1, <3>9 DEF Copied
        <4> QED
          BY <1>1, <3>1, <3>4, <3>6, <3>8, <3>9, <4>1 DEF Copied
      <3>10. CASE b # o
        <4> HIDE DEF o, h
        <4>1. OldBucketOf(k) = o
          BY DEF o
        <4> QED
          BY <1>1, <3>1, <3>4, <3>6, <3>7, <3>8, <3>10, <4>1 DEF Copied
      <3> QED
        BY <3>9, <3>10
    <2> QED
      BY <2>1, <2>2 DEF BeingMoved
  <1>3. ~ AsBefore /\ phase # "duplicate"
    BY <1>1 DEF AsBefore, Where
  <1>4. (ToSet(slicesImport))' = ToSet(slicesImport)
    BY <1>1
  <1> QED
    BY <1>1, <1>2, <1>3, <1>4 DEF Where

LEMMA SameTable ==
  ASSUME Where, UNCHANGED <<redis, jobs, slices, slicesImport, before>>,
         phase' = phase, todo' = todo
  PROVE  Where'
  <1>1. \A k \in Keys : OldBucketOf(k)' = OldBucketOf(k)
    BY DEF OldBucketOf
  <1>2. (ToSet(slicesImport))' = ToSet(slicesImport)
    OBVIOUS
  <1> QED
    BY <1>1, <1>2, PhaseKeeps DEF Where

LEMMA ServerKeepsTable ==
  ASSUME CtxInv, ValuesInv, KeepInv, intact',
         Copying \/ Stop \/ Crash \/ \E b \in Bucket : Expire(b)
  PROVE  KeepInv'
  <1>1. ~ Crash /\ \A b \in Bucket : ~ Expire(b) /\ ~ JobFails(b)
    BY DEF Crash, Expire, JobFails
  <1>2. Stop \/ \E b \in Bucket : JobDump(b) \/ JobRestore(b)
    BY <1>1 DEF Copying
  <1>3. intact
    BY <1>2 DEF Stop, JobDump, JobRestore
  <1>4. Where /\ \A t \in Threads : Reads(t)
    BY <1>3 DEF KeepInv
  <1>5. \A t \in Threads : Reads(t)'
    <2>1. \A t \in Threads : Goes(t)
      BY <1>2, AllGo DEF Copying
    <2> QED
      BY <1>4, <2>1 DEF Goes, Alike, Reads, Commands
  <1>6. Where'
    <2>1. CASE Stop
      BY <2>1 DEF Stop, Where
    <2>2. ASSUME NEW b \in Bucket, JobDump(b) \/ JobRestore(b)
          PROVE  Where'
      BY <1>4, <2>2, DumpKeepsTable, RestoreKeepsTable
    <2> QED
      BY <1>2, <2>1, <2>2
  <1> QED
    BY <1>5, <1>6 DEF KeepInv

(* Only a call that reads has begun, and it leaves the table as it is.     *)
LEMMA CallingKeepsTable ==
  ASSUME ErrorInv, CtxInv, KeepInv, NEW t \in Threads, Calling(t), intact'
  PROVE  KeepInv'
  <1>1. intact
    BY DEF Calling, Begin, SelectTry, SelectEnd, SelectSize, SelectPush, SelectOccupy, Prepare,
           Write, WriteFails, Read,
       ReadFails, WriteEnd, WriteThrow, WriteError, FindEnd, ClearNext, ExportSize, ExportAlloc,
       ExportScan, BucketsEnd, BucketsFail, JobOf
  <1>2. Where /\ \A u \in Threads : Reads(u)
    BY <1>1 DEF KeepInv
  <1>3. /\ ~ ClearNext(t)
        /\ \A b \in Bucket : ~ Write(t, b) /\ ~ WriteFails(t, b)
        /\ ~ WriteEnd(t) /\ ~ WriteThrow(t) /\ (WriteError(t) => call[t].kind = "find")
    BY <1>2 DEF Reads, Commands, ClearNext, Write, WriteFails, Sending, WriteEnd, WriteThrow,
       WriteError
  <1>4. UNCHANGED <<redis, before>>
    BY <1>3 DEF Calling, Begin, SelectTry, SelectEnd, SelectSize, SelectPush, SelectOccupy,
                Prepare, Read, ReadFails,
       WriteError, FindEnd, ExportSize, ExportAlloc, ExportScan, BucketsEnd, BucketsFail, JobOf,
       CallStep, server
  <1>5. UNCHANGED starting /\ \A u \in Threads \ {t} : Goes(u)
    BY OthersGo
  <1>6. Where'
    BY <1>2, <1>4, <1>5, SameTable DEF starting
  <1>7. \A u \in Threads \ {t} : Reads(u)'
    BY <1>2, <1>5 DEF Goes, Alike, Reads, Commands
  <1>8. Reads(t)'
    <2>0. DOMAIN call = Threads /\ Core \subseteq DOMAIN call[t] /\ Reads(t)
      BY <1>2 DEF ErrorInv, Shape, CtxInv, Placed, CallOK
    <2>1. ASSUME NEW kind, NEW ks, NEW exists, Begin(t, kind, ks, exists)
          PROVE  Reads(t)'
      <3>1. /\ call'[t].pc = IF kind \in {"clear", "export"} THEN kind ELSE "select"
            /\ call'[t].kind = kind /\ kind \in {"find", "export"}
        BY <2>0, <2>1 DEF Begin, NoCall
      <3> QED
        BY <3>1 DEF Reads, Commands
    <2>2. CASE \/ SelectTry(t) \/ SelectEnd(t) \/ SelectSize(t)
               \/ SelectPush(t) \/ SelectOccupy(t) \/ Prepare(t)
      <3>1. /\ call'[t].pc \in {"select", "end", "push", "occupy", "prepare", "send"}
            /\ call'[t].kind = call[t].kind /\ Commands(t)
        BY <2>0, <2>2 DEF SelectTry, SelectEnd, SelectSize, SelectPush, SelectOccupy, Prepare,
                          Goto, Core, Commands
      <3> QED
        BY <2>0, <3>1 DEF Reads, Commands
    <2>3. ASSUME NEW b \in Bucket, Read(t, b) \/ ReadFails(t, b)
          PROVE  Reads(t)'
      <3>1. Alike(call'[t], call[t])
        BY <2>3, AnswerPlaced
      <3> QED
        BY <2>0, <3>1 DEF Alike, Reads, Commands
    <2>4. CASE WriteError(t) \/ FindEnd(t) \/ BucketsEnd(t) \/ BucketsFail(t)
      <3>1. call'[t] = NoCall
        BY <2>0, <2>4 DEF WriteError, FindEnd, BucketsEnd, BucketsFail, Returned
      <3> QED
        BY <3>1 DEF NoCall, Reads, Commands
    <2>5. CASE ExportSize(t) \/ ExportAlloc(t) \/ ExportScan(t)
      <3>1. call'[t].pc \in {"export", "scan", "idle"}
        BY <2>0, <2>5 DEF ExportSize, ExportAlloc, ExportScan, Returned, NoCall, Core
      <3> QED
        BY <3>1 DEF Reads, Commands
    <2> QED
      BY <1>3, <2>1, <2>2, <2>3, <2>4, <2>5 DEF Calling
  <1> QED
    BY <1>6, <1>7, <1>8 DEF KeepInv

(* A restart keeps the table, and one that gives it other names moves it,  *)
(* if every bucket was dumped before it was removed (RedisTableOfTensors'  *)
(* constructor, ReCreateTableBuckets and DuplicateInRedis).                *)
THEOREM StartsKeep == Spec => []StartKeeps
  <1>1. Init => KeepInv
    BY DEF Init, KeepInv, Where, Reads, Commands, NoCall
  <1>2. KeepInv /\ ErrorInv /\ CtxInv /\ ValuesInv /\ [Next /\ budget' = budget]_vars => KeepInv'
    <2> SUFFICES ASSUME KeepInv, ErrorInv, CtxInv, ValuesInv, [Next /\ budget' = budget]_vars
                 PROVE  KeepInv'
      OBVIOUS
    <2>1. CASE UNCHANGED vars
      <3>1. Where => Where'
        BY <2>1, SameTable DEF vars, server, starting
      <3> QED
        BY <2>1, <3>1 DEF vars, KeepInv, Reads, Commands
    <2>2. CASE Next
      <3>1. CASE ~ intact'
        BY <3>1 DEF KeepInv
      <3>2. CASE intact'
        BY <2>1, <2>2, <3>2, StartUpKeepsTable, ServerKeepsTable, CallingKeepsTable
           DEF Next, Finished
      <3> QED
        BY <3>1, <3>2
    <2> QED
      BY <2>1, <2>2
  <1>3. KeepInv => StartKeeps
    <2> SUFFICES ASSUME KeepInv, phase = "up", DOMAIN jobs = {}, intact, NEW k \in Keys
                 PROVE  Value(k) = before[k]
      BY DEF StartKeeps
    <2>1. AsBefore \/ BeingMoved
      BY DEF KeepInv, Where
    <2> QED
      BY <2>1 DEF AsBefore, BeingMoved, Copied
  <1> QED
    BY <1>1, <1>2, <1>3, ErrorsKept, CallsKeptApart, ValuesKept, PTL DEF Spec
-----------------------------------------------------------------------------
(* What a find returns.  What it has seen has the value that each of its   *)
(* keys has now; and as long as it has its context to itself, it has an    *)
(* answer for the keys of the buckets that have answered, each of them seen*)
(* or a failed read's.                                                     *)
Finding(t) == call[t].pc # "idle" /\ call[t].kind = "find"

ReadSoFar(t) ==
  /\ DOMAIN call[t].got = {k \in call[t].keys : BucketOf(k) \notin call[t].pending}
  /\ \A k \in DOMAIN call[t].got : \/ <<k, call[t].got[k]>> \in call[t].seen
                                   \/ call[t].failed /\ call[t].got[k] = << >>

FindOK(t) ==
  Finding(t) => /\ call[t].pc \in {"select", "end", "push", "occupy", "prepare", "send"}
                /\ \A k \in call[t].keys : <<k, Value(k)>> \in call[t].seen
                /\ call[t].pc # "send" => call[t].got = << >>
                /\ call[t].pc = "send" /\ ~ met => ReadSoFar(t)

FindFields == {"got", "seen"}
FindInv == \A t \in Threads : FindFields \subseteq DOMAIN call[t] /\ FindOK(t)

(* c is the call of u after a step that is not its own.                    *)
Watches(c, u) == \/ redis' = redis /\ c \in {call[u], [call[u] EXCEPT !.excused = TRUE]}
                 \/ c = Watched(redis')[u]

(* c is the call of u, which has seen what the table becomes.              *)
Sees(c, u) ==
  /\ FindFields \subseteq DOMAIN c /\ c.got = call[u].got /\ c.failed = call[u].failed
  /\ call[u].seen \subseteq c.seen
  /\ Finding(u) => \A k \in call[u].keys : <<k, redis'[BucketOf(k)][k]>> \in c.seen

LEMMA SameSees ==
  ASSUME FindInv, NEW u \in Threads, redis' = redis
  PROVE  Sees(call[u], u)
  BY DEF FindInv, FindOK, Sees, Value

LEMMA WatchedSees ==
  ASSUME FindInv, ErrorInv, CtxInv, NEW u \in Threads
  PROVE  Sees(Watched(redis')[u], u)
  <1>0. /\ FindFields \subseteq DOMAIN call[u] /\ Core \subseteq DOMAIN call[u]
        /\ "failed" \in DOMAIN call[u]
    BY DEF FindInv, CtxInv, Placed, CallOK, ErrorInv, Shape
  <1>1. CASE call[u].pc = "idle"
    <2>1. Watched(redis')[u] = call[u]
      BY <1>1 DEF Watched
    <2> QED
      BY <1>0, <1>1, <2>1 DEF Sees, Finding
  <1>2. CASE call[u].pc # "idle" /\ call[u].kind = "find"
    <2> DEFINE new == {<<k, redis'[BucketOf(k)][k]>> : k \in call[u].keys}
    <2>1. Watched(redis')[u] = [call[u] EXCEPT !.seen = @ \cup new]
      BY <1>2 DEF Watched
    <2>2. \A k \in call[u].keys : <<k, redis'[BucketOf(k)][k]>> \in new
      OBVIOUS
    <2> HIDE DEF new
    <2>3. /\ Watched(redis')[u].seen = call[u].seen \cup new
          /\ FindFields \subseteq DOMAIN Watched(redis')[u]
          /\ Watched(redis')[u].got = call[u].got
          /\ Watched(redis')[u].failed = call[u].failed
      BY <1>0, <2>1 DEF FindFields
    <2> QED
      BY <2>2, <2>3 DEF Sees
  <1>3. CASE call[u].pc # "idle" /\ call[u].kind # "find"
    <2>1. Watched(redis')[u] = [call[u] EXCEPT !.quiet = FALSE]
      BY <1>3 DEF Watched
    <2> QED
      BY <1>0, <1>3, <2>1 DEF Sees, Finding, FindFields
  <1> QED
    BY <1>1, <1>2, <1>3

LEMMA WatchesSees ==
  ASSUME FindInv, ErrorInv, CtxInv, NEW u \in Threads, NEW c, Watches(c, u)
  PROVE  Sees(c, u)
  <1>1. FindFields \subseteq DOMAIN call[u] /\ "failed" \in DOMAIN call[u]
    BY DEF FindInv, ErrorInv, Shape
  <1>2. CASE redis' = redis
    <2>1. Sees(call[u], u)
      BY <1>2, SameSees
    <2>2. c = [call[u] EXCEPT !.excused = TRUE] => Sees(c, u)
      BY <1>1, <2>1 DEF Sees, FindFields
    <2> QED
      BY <2>1, <2>2, WatchedSees DEF Watches
  <1> QED
    BY <1>2, WatchedSees DEF Watches

(* A find that only sees.                                                  *)
LEMMA FindStays ==
  ASSUME FindInv, NEW u \in Threads, Goes(u), Sees(call'[u], u), slices' = slices,
         ~ met' => ~ met
  PROVE  FindFields \subseteq DOMAIN call'[u] /\ FindOK(u)'
  <1>1. FindFields \subseteq DOMAIN call'[u]
    BY DEF Sees
  <1> SUFFICES ASSUME Finding(u)' PROVE FindOK(u)'
    BY <1>1 DEF FindOK
  <1>2. /\ Finding(u) /\ FindOK(u) /\ call'[u].pc = call[u].pc /\ call'[u].keys = call[u].keys
        /\ call'[u].pending = call[u].pending /\ call'[u].got = call[u].got
        /\ call'[u].failed = call[u].failed
        /\ \A k : BucketOf(k)' = BucketOf(k)
    BY DEF Goes, Alike, Sees, Finding, FindInv, BucketOf
  <1>3. \A k \in call'[u].keys : <<k, Value(k)'>> \in call'[u].seen
    BY <1>2 DEF Sees, Value
  <1>4. call'[u].pc = "send" /\ ~ met' => ReadSoFar(u)'
    <2> SUFFICES ASSUME call'[u].pc = "send", ~ met' PROVE ReadSoFar(u)'
      OBVIOUS
    <2>1. ReadSoFar(u)
      BY <1>2 DEF FindOK
    <2> QED
      BY <1>2, <2>1 DEF ReadSoFar, Sees
  <1> QED
    BY <1>2, <1>3, <1>4 DEF FindOK

LEMMA StartUpFinds ==
  ASSUME ErrorInv, FindInv, StartUp
  PROVE  FindInv'
  <1>1. ASSUME NEW new \in Layouts, NEW imp \in Layouts, Start(new, imp)
        PROVE  FindInv'
    <2>1. \A u \in Threads : call'[u] = NoCall
      BY <1>1 DEF Start
    <2> QED
      BY <2>1 DEF FindInv, FindOK, Finding, NoCall, FindFields
  <1>2. CASE ~ \E new, imp \in Layouts : Start(new, imp)
    <2>1. call' = call /\ phase # "up"
      BY <1>2 DEF StartUp, StartFails, RecreateEnd, DropEnd, Duplicate, DuplicateCheck, Persist,
         Recreate, Drop, StartStep
    <2>2. \A u \in Threads : call'[u].pc = "idle"
      BY <2>1 DEF ErrorInv, OnlyUp
    <2> QED
      BY <2>1, <2>2 DEF FindInv, FindOK, Finding
  <1> QED
    BY <1>1, <1>2

LEMMA ServerFinds ==
  ASSUME ErrorInv, CtxInv, FindInv, Copying \/ Stop \/ Crash \/ \E b \in Bucket : Expire(b)
  PROVE  FindInv'
  <1>1. CASE Crash
    <2>1. \A u \in Threads : call'[u] = NoCall
      BY <1>1 DEF Crash
    <2> QED
      BY <2>1 DEF FindInv, FindOK, Finding, NoCall, FindFields
  <1>2. CASE ~ Crash
    <2>1. /\ (call' = call /\ redis' = redis) \/ call' = Watched(redis')
          /\ slices' = slices /\ met' = met
      BY <1>2 DEF Copying, JobDump, JobRestore, JobFails, JobStep, Stop, Expire, server, starting
    <2>2. \A u \in Threads : Goes(u)
      BY <1>2, AllGo
    <2>3. \A u \in Threads : Sees(call'[u], u)
      BY <2>1, WatchesSees DEF Watches
    <2> QED
      BY <2>1, <2>2, <2>3, FindStays DEF FindInv
  <1> QED
    BY <1>1, <1>2

LEMMA OthersWatch ==
  ASSUME ErrorInv, NEW t \in Threads, Calling(t)
  PROVE  \A u \in Threads \ {t} : Watches(call'[u], u)
  <1>0. DOMAIN call = Threads
    BY DEF ErrorInv, Shape
  <1> DEFINE f == IF redis' = redis THEN call ELSE Watched(redis')
  <1>1. DOMAIN f = Threads /\ \A u \in Threads : Watches(f[u], u)
    BY <1>0 DEF Watched, Watches
  <1>2. (\A u \in Threads \ {t} : call'[u] = f[u]) => \A u \in Threads \ {t} : Watches(call'[u], u)
    BY <1>1
  <1>3. ASSUME redis' = redis, \A u \in Threads \ {t} : call'[u] = call[u]
        PROVE  \A u \in Threads \ {t} : Watches(call'[u], u)
    BY <1>3 DEF Watches
  <1>4. ASSUME NEW b \in Bucket, Write(t, b) \/ WriteFails(t, b)
        PROVE  \A u \in Threads \ {t} : Watches(call'[u], u)
    <2> DEFINE g == [f EXCEPT ![t].pending = @ \ {b}]
    <2>1. call' = g \/ call' = [g EXCEPT ![t].failed = TRUE]
      BY <1>4 DEF Write, WriteFails, Answered
    <2> HIDE DEF f
    <2>2. DOMAIN g = Threads /\ \A u \in Threads \ {t} : g[u] = f[u]
      BY <1>1
    <2> HIDE DEF g
    <2>3. \A u \in Threads \ {t} : call'[u] = f[u]
      BY <2>1, <2>2
    <2> QED
      BY <1>2, <2>3
  <1>5. CASE ClearNext(t)
    <2>1. call' = [f EXCEPT ![t].next = @ + 1]
      BY <1>5 DEF ClearNext
    <2> HIDE DEF f
    <2>2. \A u \in Threads \ {t} : call'[u] = f[u]
      BY <1>1, <2>1
    <2> QED
      BY <1>2, <2>2
  <1>6. CASE WriteError(t)
    BY <1>6 DEF WriteError, server, Watches
  <1>7. ASSUME NEW kind, NEW ks, NEW exists, Begin(t, kind, ks, exists)
        PROVE  \A u \in Threads \ {t} : Watches(call'[u], u)
    <2>1. redis' = redis /\ \A u \in Threads \ {t} : call'[u] = call[u]
      BY <1>0, <1>7 DEF Begin, server
    <2> QED
      BY <2>1, <1>3
  <1>8. CASE \/ SelectTry(t) \/ SelectEnd(t) \/ SelectSize(t)
             \/ SelectPush(t) \/ SelectOccupy(t) \/ Prepare(t) \/ WriteThrow(t)
             \/ WriteEnd(t) \/ FindEnd(t)
    <2>1. redis' = redis /\ \A u \in Threads \ {t} : call'[u] = call[u]
      BY <1>0, <1>8 DEF SelectTry, SelectEnd, SelectSize, SelectPush, SelectOccupy, Prepare,
                        WriteThrow, WriteEnd, FindEnd,
         Goto, Returned, server
    <2> QED
      BY <2>1, <1>3
  <1>9. CASE ExportSize(t) \/ ExportAlloc(t) \/ ExportScan(t) \/ BucketsEnd(t) \/ BucketsFail(t)
    <2>1. redis' = redis /\ \A u \in Threads \ {t} : call'[u] = call[u]
      BY <1>0, <1>9 DEF ExportSize, ExportAlloc, ExportScan, BucketsEnd, BucketsFail, Returned, server
    <2> QED
      BY <2>1, <1>3
  <1>10. ASSUME NEW b \in Bucket, Read(t, b) \/ ReadFails(t, b)
         PROVE  \A u \in Threads \ {t} : Watches(call'[u], u)
    <2>1. redis' = redis /\ \A u \in Threads \ {t} : call'[u] = call[u]
      BY <1>0, <1>10 DEF Read, ReadFails, server
    <2> QED
      BY <2>1, <1>3
  <1> HIDE DEF f
  <1> QED
    BY <1>4, <1>5, <1>6, <1>7, <1>8, <1>9, <1>10 DEF Calling

(* An answer to a find: what it now has for the keys of the bucket.        *)
LEMMA ReadAnswers ==
  ASSUME ErrorInv, CtxInv, FindInv, NEW t \in Threads, NEW b \in Bucket,
         Read(t, b) \/ ReadFails(t, b)
  PROVE  FindFields \subseteq DOMAIN call'[t] /\ FindOK(t)'
  <1>0. /\ DOMAIN call = Threads /\ CallOK(t) /\ PlaceOK(t) /\ FindOK(t)
        /\ FindFields \subseteq DOMAIN call[t] /\ "failed" \in DOMAIN call[t]
        /\ ~ met => OwnOK(t)
    BY DEF ErrorInv, Shape, CtxInv, Placed, FindInv
  <1>1. /\ call[t].pc = "send" /\ call[t].kind = "find" /\ b \in call[t].pending
        /\ redis' = redis /\ slices' = slices /\ met' = met
    BY DEF Read, ReadFails, Sending, CallStep, starting, server
  <1>2. PICK values :
          /\ DOMAIN values = Commanded(t, b)
          /\ call'[t].got = Found(t, values)
          /\ call'[t].pending = call[t].pending \ {b}
          /\ FindFields \subseteq DOMAIN call'[t] /\ call'[t].seen = call[t].seen
          /\ call'[t].pc = call[t].pc /\ call'[t].kind = call[t].kind
          /\ call'[t].keys = call[t].keys
          /\ call[t].failed => call'[t].failed
          /\ \/ \A k \in Commanded(t, b) : values[k] = redis[b][k]
             \/ call'[t].failed /\ \A k \in Commanded(t, b) : values[k] = << >>
    <2>1. CASE Read(t, b)
      <3> DEFINE values == [k \in Commanded(t, b) |-> redis[b][k]]
      <3>1. call' = [call EXCEPT ![t].pending = @ \ {b}, ![t].got = Found(t, values)]
        BY <2>1 DEF Read
      <3>2. DOMAIN values = Commanded(t, b) /\ \A k \in Commanded(t, b) : values[k] = redis[b][k]
        OBVIOUS
      <3> HIDE DEF values
      <3>3. /\ call'[t].got = Found(t, values) /\ call'[t].pending = call[t].pending \ {b}
            /\ FindFields \subseteq DOMAIN call'[t] /\ call'[t].seen = call[t].seen
            /\ call'[t].pc = call[t].pc /\ call'[t].kind = call[t].kind
            /\ call'[t].keys = call[t].keys /\ call'[t].failed = call[t].failed
        BY <1>0, <3>1 DEF FindFields, CallOK, Core
      <3> QED
        BY <3>2, <3>3
    <2>2. CASE ReadFails(t, b)
      <3> DEFINE values == [k \in Commanded(t, b) |-> << >>]
      <3>1. call' = [call EXCEPT ![t].pending = @ \ {b}, ![t].failed = TRUE, ![t].got = Found(t, values)]
        BY <2>2 DEF ReadFails
      <3>2. DOMAIN values = Commanded(t, b) /\ \A k \in Commanded(t, b) : values[k] = << >>
        OBVIOUS
      <3> HIDE DEF values
      <3>3. /\ call'[t].got = Found(t, values) /\ call'[t].pending = call[t].pending \ {b}
            /\ FindFields \subseteq DOMAIN call'[t] /\ call'[t].seen = call[t].seen
            /\ call'[t].pc = call[t].pc /\ call'[t].kind = call[t].kind
            /\ call'[t].keys = call[t].keys /\ call'[t].failed
        BY <1>0, <3>1 DEF FindFields, CallOK, Core
      <3> QED
        BY <3>2, <3>3
    <2> QED
      BY <2>1, <2>2
  <1>3. /\ Finding(t) /\ \A k : BucketOf(k)' = BucketOf(k)
        /\ \A k \in call[t].keys : <<k, Value(k)>> \in call[t].seen
        /\ \A k : Value(k)' = Value(k)
    BY <1>0, <1>1 DEF Finding, FindOK, BucketOf, Value
  <1>4. ~ met => ReadSoFar(t)'
    <2> SUFFICES ASSUME ~ met PROVE ReadSoFar(t)'
      OBVIOUS
    <2>1. Request(t) = Own(t) /\ ReadSoFar(t)
      BY <1>0, <1>1, <1>3 DEF OwnOK, FindOK
    <2>2. Commanded(t, b) = {k \in call[t].keys : BucketOf(k) = b}
      BY <2>1 DEF Commanded, KeysIn, Own
    <2>3. DOMAIN call'[t].got = DOMAIN call[t].got \cup Commanded(t, b)
      BY <1>2 DEF Found
    <2>4. DOMAIN call'[t].got = {k \in call[t].keys : BucketOf(k) \notin call'[t].pending}
      BY <1>1, <1>2, <2>1, <2>2, <2>3 DEF ReadSoFar
    <2>5. ASSUME NEW k \in DOMAIN call'[t].got
          PROVE  \/ <<k, call'[t].got[k]>> \in call[t].seen
                 \/ call'[t].failed /\ call'[t].got[k] = << >>
      <3>1. CASE k \in Commanded(t, b)
        <4>1. call'[t].got[k] = values[k]
          BY <1>2, <2>3, <3>1 DEF Found
        <4>2. <<k, redis[b][k]>> \in call[t].seen
          BY <1>3, <2>2, <3>1 DEF Value
        <4> QED
          BY <1>2, <3>1, <4>1, <4>2
      <3>2. CASE k \notin Commanded(t, b)
        <4>1. k \in DOMAIN call[t].got /\ call'[t].got[k] = call[t].got[k]
          BY <1>2, <2>3, <3>2 DEF Found
        <4> QED
          BY <1>2, <2>1, <4>1 DEF ReadSoFar
      <3> QED
        BY <3>1, <3>2
    <2> QED
      BY <1>2, <1>3, <2>4, <2>5 DEF ReadSoFar
  <1> QED
    BY <1>1, <1>2, <1>3, <1>4 DEF FindOK, Finding

LEMMA CallingFinds ==
  ASSUME ErrorInv, CtxInv, FindInv, NEW t \in Threads, Calling(t)
  PROVE  FindInv'
  <1> DEFINE Fine == FindFields \subseteq DOMAIN call'[t] /\ FindOK(t)'
  <1>0. /\ DOMAIN call = Threads /\ CallOK(t) /\ FindOK(t)
        /\ FindFields \subseteq DOMAIN call[t]
    BY DEF ErrorInv, Shape, CtxInv, Placed, FindInv
  <1>1. slices' = slices /\ \A u \in Threads \ {t} : Goes(u)
    BY OthersGo DEF starting
  <1>2. ~ met' => ~ met
    BY DEF Calling, Begin, SelectTry, SelectEnd, SelectSize, SelectPush, SelectOccupy, Prepare,
           Write, WriteFails, Read,
       ReadFails, WriteEnd, WriteThrow, WriteError, FindEnd, ClearNext, ExportSize, ExportAlloc,
       ExportScan, BucketsEnd, BucketsFail, JobOf
  <1>3. \A u \in Threads \ {t} : FindFields \subseteq DOMAIN call'[u] /\ FindOK(u)'
    BY <1>1, <1>2, OthersWatch, WatchesSees, FindStays
  <1> SUFFICES Fine
    BY <1>3 DEF FindInv
  <1>4. ASSUME FindFields \subseteq DOMAIN call'[t], ~ Finding(t)'
        PROVE  Fine
    BY <1>4 DEF FindOK
  <1>5. ASSUME NEW kind, NEW ks, NEW exists, Begin(t, kind, ks, exists)
        PROVE  Fine
    <2> DEFINE now == {<<k, Value(k)>> : k \in ks}
    <2>1. /\ FindFields \subseteq DOMAIN call'[t] /\ call'[t].kind = kind /\ call'[t].keys = ks
          /\ call'[t].got = << >> /\ (kind = "find" => call'[t].pc = "select")
          /\ call'[t].seen = IF kind = "find" THEN now ELSE {}
      BY <1>0, <1>5 DEF Begin, NoCall, FindFields
    <2>2. \A k \in ks : <<k, Value(k)>> \in now
      OBVIOUS
    <2>3. \A k : Value(k)' = Value(k)
      BY <1>5 DEF Begin, server, starting, Value, BucketOf
    <2> HIDE DEF now
    <2> QED
      BY <2>1, <2>2, <2>3 DEF FindOK, Finding
  <1>6. CASE SelectTry(t) \/ SelectEnd(t) \/ SelectSize(t) \/ SelectPush(t) \/ SelectOccupy(t)
    <2>1. /\ /\ call'[t].pc \in {"select", "end", "push", "occupy", "prepare"}
          /\ call'[t].kind = call[t].kind
          /\ call'[t].keys = call[t].keys /\ FindFields \subseteq DOMAIN call'[t]
          /\ call'[t].got = call[t].got /\ call'[t].seen = call[t].seen
          /\ call[t].pc \in {"select", "end", "push", "occupy"}
      BY <1>0, <1>6 DEF SelectTry, SelectEnd, SelectSize, SelectPush, SelectOccupy, Goto,
                        FindFields, CallOK, Core
    <2>2. \A k : Value(k)' = Value(k)
      BY <1>6 DEF SelectTry, SelectEnd, SelectSize, SelectPush, SelectOccupy, CallStep, server,
                  starting, Value, BucketOf
    <2> QED
      BY <1>0, <2>1, <2>2 DEF FindOK, Finding
  <1>7. CASE Prepare(t)
    <2>1. /\ call'[t].pc = "send" /\ call'[t].kind = call[t].kind
          /\ call'[t].keys = call[t].keys /\ FindFields \subseteq DOMAIN call'[t]
          /\ call'[t].got = call[t].got /\ call'[t].seen = call[t].seen
          /\ call'[t].pending = ToSet(slices) /\ call[t].pc = "prepare"
      BY <1>0, <1>7 DEF Prepare, FindFields, CallOK, Core
    <2>2. \A k : Value(k)' = Value(k) /\ BucketOf(k)' = BucketOf(k)
      BY <1>7 DEF Prepare, CallStep, server, starting, Value, BucketOf
    <2> SUFFICES ASSUME Finding(t)' PROVE FindOK(t)'
      BY <2>1 DEF FindOK
    <2>3. Finding(t) /\ call[t].got = << >> /\ call[t].keys \subseteq Keys
      BY <1>0, <2>1 DEF FindOK, Finding, CallOK, Commands, Own, Command
    <2>4. ReadSoFar(t)'
      <3>1. \A k \in call[t].keys : BucketOf(k) \in ToSet(slices)
        BY <2>3, Homes
      <3>2. DOMAIN call'[t].got = {}
        BY <2>1, <2>3
      <3> QED
        BY <2>1, <2>2, <3>1, <3>2 DEF ReadSoFar
    <2> QED
      BY <1>0, <2>1, <2>2, <2>3, <2>4 DEF FindOK
  <1> DEFINE f == IF redis' = redis THEN call ELSE Watched(redis')
  <1>8. DOMAIN f = Threads /\ f[t].kind = call[t].kind /\ FindFields \subseteq DOMAIN f[t]
    <2>1. Sees(call[t], t) \/ redis' # redis
      BY SameSees
    <2>2. Sees(Watched(redis')[t], t)
      BY WatchedSees
    <2>3. DOMAIN Watched(redis') = Threads /\ Watched(redis')[t].kind = call[t].kind
      BY WatchedKeeps DEF ErrorInv
    <2> QED
      BY <1>0, <2>2, <2>3 DEF Sees
  <1>9. ASSUME NEW b \in Bucket, Write(t, b) \/ WriteFails(t, b)
        PROVE  Fine
    <2> DEFINE g == [f EXCEPT ![t].pending = @ \ {b}]
    <2>0. call[t].kind # "find"
      BY <1>9 DEF Write, WriteFails
    <2>1. call' = g \/ call' = [g EXCEPT ![t].failed = TRUE]
      BY <1>9 DEF Write, WriteFails, Answered
    <2> HIDE DEF f
    <2>2. DOMAIN g = Threads /\ FindFields \subseteq DOMAIN g[t]
      BY <1>8 DEF FindFields
    <2> HIDE DEF g
    <2>3. FindFields \subseteq DOMAIN call'[t]
      BY <2>1, <2>2 DEF FindFields
    <2>4. call'[t].kind # "find"
      BY <1>9, <2>0, AnswerPlaced DEF Alike
    <2> QED
      BY <2>3, <2>4, <1>4 DEF Finding
  <1>10. CASE ClearNext(t)
    <2>1. call' = [f EXCEPT ![t].next = @ + 1] /\ call[t].kind # "find"
      BY <1>0, <1>10 DEF ClearNext, FindOK, Finding
    <2> HIDE DEF f
    <2>2. FindFields \subseteq DOMAIN call'[t] /\ call'[t].kind # "find"
      BY <1>8, <2>1 DEF FindFields
    <2> QED
      BY <2>2, <1>4 DEF Finding
  <1>11. CASE WriteEnd(t) \/ FindEnd(t) \/ WriteError(t) \/ BucketsEnd(t) \/ BucketsFail(t)
    <2>1. call'[t] = NoCall
      BY <1>0, <1>11 DEF WriteEnd, FindEnd, WriteError, BucketsEnd, BucketsFail, Returned
    <2> QED
      BY <2>1, <1>4 DEF Finding, NoCall, FindFields
  <1>12. CASE WriteThrow(t)
    <2>1. FindFields \subseteq DOMAIN call'[t] /\ call'[t].kind # "find"
      BY <1>0, <1>12 DEF WriteThrow, Goto, FindFields, CallOK, Core
    <2> QED
      BY <2>1, <1>4 DEF Finding
  <1>13. CASE ExportSize(t) \/ ExportAlloc(t) \/ ExportScan(t)
    <2>1. call[t].kind # "find"
      BY <1>0, <1>13 DEF ExportSize, ExportAlloc, ExportScan, FindOK, Finding
    <2>2. FindFields \subseteq DOMAIN call'[t] /\ call'[t].kind # "find"
      BY <1>0, <1>13, <2>1 DEF ExportSize, ExportAlloc, ExportScan, Returned, NoCall, FindFields,
         CallOK, Core
    <2> QED
      BY <2>2, <1>4 DEF Finding
  <1>14. ASSUME NEW b \in Bucket, Read(t, b) \/ ReadFails(t, b)
         PROVE  Fine
    BY <1>14, ReadAnswers
  <1> HIDE DEF f, Fine
  <1> QED
    BY <1>5, <1>6, <1>7, <1>9, <1>10, <1>11, <1>12, <1>13, <1>14 DEF Calling

(* As said of FindInv above, in every state.                               *)
THEOREM FindsKept == Spec => []FindInv
  <1>1. Init => FindInv
    BY DEF Init, FindInv, FindOK, Finding, NoCall, FindFields
  <1>2. FindInv /\ ErrorInv /\ CtxInv /\ [Next /\ budget' = budget]_vars => FindInv'
    <2> SUFFICES ASSUME FindInv, ErrorInv, CtxInv, [Next /\ budget' = budget]_vars
                 PROVE  FindInv'
      OBVIOUS
    <2>1. CASE UNCHANGED vars
      <3>1. call' = call /\ met' = met /\ \A k : Value(k)' = Value(k) /\ BucketOf(k)' = BucketOf(k)
        BY <2>1 DEF vars, server, starting, Value, BucketOf
      <3> QED
        BY <3>1 DEF FindInv, FindOK, Finding, ReadSoFar
    <2>2. CASE Next
      BY <2>1, <2>2, StartUpFinds, ServerFinds, CallingFinds DEF Next, Finished
    <2> QED
      BY <2>1, <2>2
  <1> QED
    BY <1>1, <1>2, ErrorsKept, CallsKeptApart, PTL DEF Spec

(* A find returns for every key a value that it had while the find ran, or *)
(* nothing where the read failed, whatever other calls do meanwhile, unless*)
(* two threads have raced for a new context (MgetCommand,                  *)
(* MgetToTensorWithExist).                                                 *)
THEOREM FindsAreReal == Spec => FindReal
  <1> DEFINE Report(t) == /\ DOMAIN call[t].got = call[t].keys
                          /\ \A k \in call[t].keys :
                               \/ <<k, call[t].got[k]>> \in call[t].seen
                               \/ call[t].failed /\ call[t].got[k] = << >>
             Returns(t) == call[t].pc = "send" /\ call[t].kind = "find" /\ call'[t].pc = "idle"
                           /\ phase' = phase /\ ~ met
             Step == \A t \in Threads : Returns(t) => Report(t)
  <1>1. FindInv /\ ErrorInv /\ CtxInv /\ [Next /\ budget' = budget]_vars => [Step]_vars
    <2> SUFFICES ASSUME FindInv, ErrorInv, CtxInv, Next, vars' # vars,
                        NEW t \in Threads, Returns(t)
                 PROVE  Report(t)
      OBVIOUS
    <2>1. ReadSoFar(t) /\ phase = "up"
      BY DEF FindInv, FindOK, Finding, ErrorInv, OnlyUp
    <2>2. call[t].pending = {}
      <3>1. ~ StartUp /\ ~ Crash /\ ~ Stop /\ ~ Finished
        BY <2>1 DEF StartUp, Start, StartFails, RecreateEnd, DropEnd, Duplicate, DuplicateCheck,
           Persist, Recreate, Drop, Crash, Stop, Finished
      <3>2. ~ Goes(t)
        BY DEF Goes, Alike
      <3>3. Calling(t)
        BY <3>1, <3>2, AllGo, OthersGo DEF Next
      <3>4. \A b \in Bucket : ~ (Write(t, b) \/ WriteFails(t, b) \/ Read(t, b) \/ ReadFails(t, b))
        BY AnswerPlaced DEF Alike
      <3>5. \A kind, ks, exists : ~ Begin(t, kind, ks, exists)
        BY DEF Begin, Idle
      <3>6. /\ ~ Prepare(t) /\ ~ SelectTry(t) /\ ~ SelectEnd(t)
            /\ ~ SelectSize(t) /\ ~ SelectPush(t) /\ ~ SelectOccupy(t)
        BY DEF Prepare, SelectTry, SelectEnd, SelectSize, SelectPush, SelectOccupy
      <3>7. ~ ClearNext(t) /\ ~ ExportSize(t) /\ ~ ExportAlloc(t) /\ ~ ExportScan(t)
            /\ ~ BucketsEnd(t) /\ ~ BucketsFail(t)
        BY DEF ClearNext, ExportSize, ExportAlloc, ExportScan, BucketsEnd, BucketsFail
      <3> QED
        BY <3>3, <3>4, <3>5, <3>6, <3>7 DEF Calling, WriteEnd, WriteThrow, WriteError, FindEnd
    <2> QED
      BY <2>1, <2>2 DEF ReadSoFar
  <1> QED
    BY <1>1, ErrorsKept, CallsKeptApart, FindsKept, PTL DEF Spec, FindReal
-----------------------------------------------------------------------------
(* What an export returns.  While the table does not change, its size is   *)
(* that of the buckets it has counted, and what it has scanned is there    *)
(* still.                                                                  *)
Items(bs) == {bk \in bs \X Keys : redis[bk[1]][bk[2]] # << >>}
First(n)  == {slices[i] : i \in 1 .. n}

ExportOK(t) ==
  call[t].pc \in {"export", "scan"} /\ call[t].quiet =>
    /\ call[t].next \in 1 .. Len(slices) + 1
    /\ call[t].pc = "export" => call[t].size = Cardinality(Items(First(call[t].next - 1)))
    /\ call[t].pc = "scan" =>
         /\ call[t].size = Cardinality(Items(ToSet(slices)))
         /\ \A i \in 1 .. call[t].next - 1 : call[t].got[i] = redis[slices[i]]

ExportFields == {"next", "got", "size", "quiet"}
ExportInv == /\ faults \in Nat
             /\ \A t \in Threads : ExportFields \subseteq DOMAIN call[t] /\ ExportOK(t)

(* c is the call of u, which has noticed whether the table changed.        *)
Steady(c, u) ==
  /\ ExportFields \subseteq DOMAIN c
  /\ call[u].pc \in {"export", "scan"} /\ c.quiet =>
       /\ redis' = redis /\ call[u].quiet /\ c.next = call[u].next
       /\ c.got = call[u].got /\ c.size = call[u].size

LEMMA FirstNames ==
  ASSUME CtxInv, NEW n \in 0 .. Len(slices)
  PROVE  /\ IsFiniteSet(First(n)) /\ First(0) = {} /\ First(Len(slices)) = ToSet(slices)
         /\ n < Len(slices) => /\ First(n + 1) = First(n) \cup {slices[n + 1]}
                               /\ slices[n + 1] \notin First(n)
  <1>1. slices \in Layouts
    BY DEF CtxInv, Globals
  <1>2. /\ Len(slices) \in Nat /\ DOMAIN slices = 1 .. Len(slices)
        /\ \A i, j \in 1 .. Len(slices) : slices[i] = slices[j] => i = j
        /\ IsFiniteSet(ToSet(slices))
    BY <1>1, NamesAreBuckets, NamesCounted
  <1>3. First(0) = {} /\ First(Len(slices)) = ToSet(slices) /\ First(n) \subseteq ToSet(slices)
    BY <1>2 DEF First, ToSet
  <1>4. IsFiniteSet(First(n))
    BY <1>2, <1>3, FS_Subset
  <1>5. ASSUME n < Len(slices)
        PROVE  First(n + 1) = First(n) \cup {slices[n + 1]} /\ slices[n + 1] \notin First(n)
    <2>1. 1 .. n + 1 = (1 .. n) \cup {n + 1}
      BY <1>2
    <2>2. First(n + 1) = First(n) \cup {slices[n + 1]}
      BY <2>1 DEF First
    <2>3. \A i \in 1 .. n : slices[i] # slices[n + 1]
      BY <1>2, <1>5
    <2> QED
      BY <2>2, <2>3 DEF First
  <1> QED
    BY <1>3, <1>4, <1>5

(* One more bucket.                                                        *)
LEMMA ItemsCounted ==
  ASSUME NEW bs, IsFiniteSet(bs), NEW b, b \notin bs
  PROVE  Cardinality(Items(bs \cup {b})) = Cardinality(Items(bs)) + Cardinality(Fields(b))
  <1> DEFINE more == {b} \X Fields(b)
  <1>1. IsFiniteSet(Keys)
    BY RedisAssumption
  <1>2. IsFiniteSet(Fields(b))
    BY <1>1, FS_Subset DEF Fields
  <1>3. IsFiniteSet(more) /\ Cardinality(more) = Cardinality(Fields(b))
    <2>1. IsFiniteSet({b}) /\ Cardinality({b}) = 1
      BY FS_Singleton
    <2>2. IsFiniteSet(more) /\ Cardinality(more) = 1 * Cardinality(Fields(b))
      BY <1>2, <2>1, FS_Product
    <2>3. Cardinality(Fields(b)) \in Nat
      BY <1>2, FS_CardinalityType
    <2> QED
      BY <2>2, <2>3
  <1>4. IsFiniteSet(Items(bs))
    <2>1. IsFiniteSet(bs \X Keys)
      BY <1>1, FS_Product
    <2> QED
      BY <2>1, FS_Subset DEF Items
  <1>5. Items(bs \cup {b}) = Items(bs) \cup more
    BY DEF Items, Fields
  <1>6. Items(bs) \cap more = {}
    BY DEF Items
  <1> HIDE DEF more
  <1>7. Cardinality(Items(bs)) \in Nat /\ Cardinality(more) \in Nat
    BY <1>3, <1>4, FS_CardinalityType
  <1>8. Cardinality(Items(bs) \cup more) = Cardinality(Items(bs)) + Cardinality(more) - Cardinality({})
    BY <1>3, <1>4, <1>6, FS_Union
  <1>9. Cardinality(Items(bs) \cup more) = Cardinality(Items(bs)) + Cardinality(Fields(b))
    <2>1. Cardinality({}) = 0
      BY FS_EmptySet
    <2> QED
      BY <1>3, <1>7, <1>8, <2>1
  <1> QED
    BY <1>5, <1>9

LEMMA WatchesSteady ==
  ASSUME FindInv, ExportInv, ErrorInv, NEW u \in Threads, NEW c, Watches(c, u)
  PROVE  Steady(c, u)
  <1>0. ExportFields \subseteq DOMAIN call[u]
    BY DEF ExportInv
  <1>1. CASE redis' = redis /\ c \in {call[u], [call[u] EXCEPT !.excused = TRUE]}
    BY <1>0, <1>1 DEF Steady, ExportFields
  <1>2. CASE c = Watched(redis')[u] /\ call[u].pc = "idle"
    <2>1. c = call[u]
      BY <1>2 DEF Watched
    <2> QED
      BY <1>0, <1>2, <2>1 DEF Steady
  <1>3. CASE c = Watched(redis')[u] /\ call[u].pc # "idle" /\ call[u].kind = "find"
    <2> DEFINE new == {<<k, redis'[BucketOf(k)][k]>> : k \in call[u].keys}
    <2>1. c = [call[u] EXCEPT !.seen = @ \cup new]
      BY <1>3 DEF Watched
    <2> HIDE DEF new
    <2>2. DOMAIN c = DOMAIN call[u]
      BY <2>1
    <2>3. call[u].pc \notin {"export", "scan"}
      BY <1>3 DEF FindInv, FindOK, Finding
    <2> QED
      BY <1>0, <2>2, <2>3 DEF Steady
  <1>4. CASE c = Watched(redis')[u] /\ call[u].pc # "idle" /\ call[u].kind # "find"
    <2>1. c = [call[u] EXCEPT !.quiet = FALSE]
      BY <1>4 DEF Watched
    <2>2. DOMAIN c = DOMAIN call[u] /\ ~ c.quiet
      BY <1>0, <2>1 DEF ExportFields
    <2> QED
      BY <1>0, <2>2 DEF Steady
  <1> QED
    BY <1>1, <1>2, <1>3, <1>4 DEF Watches

(* An export that only notices.                                            *)
LEMMA ExportStays ==
  ASSUME ExportInv, NEW u \in Threads, call'[u].pc = call[u].pc, Steady(call'[u], u),
         slices' = slices
  PROVE  ExportFields \subseteq DOMAIN call'[u] /\ ExportOK(u)'
  <1>1. CASE call'[u].pc \in {"export", "scan"} /\ call'[u].quiet
    <2>1. /\ redis' = redis /\ call[u].quiet /\ call'[u].next = call[u].next
          /\ call'[u].got = call[u].got /\ call'[u].size = call[u].size
      BY <1>1 DEF Steady
    <2>2. /\ \A bs : Items(bs)' = Items(bs)
          /\ \A n : First(n)' = First(n)
          /\ (ToSet(slices))' = ToSet(slices)
      BY <2>1 DEF Items, First
    <2> QED
      BY <1>1, <2>1, <2>2 DEF Steady, ExportInv, ExportOK
  <1> QED
    BY <1>1 DEF Steady, ExportOK

LEMMA StartUpExports ==
  ASSUME ErrorInv, ExportInv, StartUp
  PROVE  ExportInv'
  <1>1. faults' \in Nat
    <2>1. \A new, imp : Start(new, imp) => faults' = faults
      BY DEF Start
    <2>2. \A b : Recreate(b) \/ Drop(b) => faults' = faults
      BY DEF Recreate, Drop
    <2>3. RecreateEnd \/ DropEnd \/ Duplicate \/ DuplicateCheck \/ Persist => faults' = faults
      BY DEF RecreateEnd, DropEnd, Duplicate, DuplicateCheck, Persist
    <2>4. StartFails => faults' = faults + 1
      BY DEF StartFails, Fault
    <2> QED
      BY <2>1, <2>2, <2>3, <2>4 DEF StartUp, ExportInv
  <1>2. ASSUME NEW new \in Layouts, NEW imp \in Layouts, Start(new, imp)
        PROVE  ExportInv'
    <2>1. \A u \in Threads : call'[u] = NoCall
      BY <1>2 DEF Start
    <2> QED
      BY <1>1, <2>1 DEF ExportInv, ExportOK, NoCall, ExportFields
  <1>3. CASE ~ \E new, imp \in Layouts : Start(new, imp)
    <2>1. call' = call /\ phase # "up"
      BY <1>3 DEF StartUp, StartFails, RecreateEnd, DropEnd, Duplicate, DuplicateCheck, Persist,
         Recreate, Drop, StartStep
    <2>2. \A u \in Threads : call'[u].pc = "idle"
      BY <2>1 DEF ErrorInv, OnlyUp
    <2> QED
      BY <1>1, <2>1, <2>2 DEF ExportInv, ExportOK
  <1> QED
    BY <1>2, <1>3

LEMMA ServerExports ==
  ASSUME ErrorInv, CtxInv, FindInv, ExportInv,
         Copying \/ Stop \/ Crash \/ \E b \in Bucket : Expire(b)
  PROVE  ExportInv'
  <1>1. faults' \in Nat
    BY DEF ExportInv, Copying, JobDump, JobRestore, JobFails, Stop, Crash, Fault, Expire
  <1>2. CASE Crash
    <2>1. \A u \in Threads : call'[u] = NoCall
      BY <1>2 DEF Crash
    <2> QED
      BY <1>1, <2>1 DEF ExportInv, ExportOK, NoCall, ExportFields
  <1>3. CASE ~ Crash
    <2>1. /\ (call' = call /\ redis' = redis) \/ call' = Watched(redis')
          /\ slices' = slices
      BY <1>3 DEF Copying, JobDump, JobRestore, JobFails, JobStep, Stop, Expire, server, starting
    <2>2. \A u \in Threads : call'[u].pc = call[u].pc
      BY <1>3, AllGo DEF Goes, Alike
    <2>3. \A u \in Threads : Steady(call'[u], u)
      BY <2>1, WatchesSteady DEF Watches
    <2> QED
      BY <1>1, <2>1, <2>2, <2>3, ExportStays DEF ExportInv
  <1> QED
    BY <1>2, <1>3

(* An export counts a bucket, allocates its outputs, or scans a bucket.    *)
LEMMA ExportSteps ==
  ASSUME ErrorInv, CtxInv, ExportInv, NEW t \in Threads,
         ExportSize(t) \/ ExportAlloc(t) \/ ExportScan(t)
  PROVE  ExportFields \subseteq DOMAIN call'[t] /\ ExportOK(t)'
  <1> DEFINE n == call[t].next
  <1>1. /\ DOMAIN call = Threads /\ Core \subseteq DOMAIN call[t]
        /\ ExportFields \subseteq DOMAIN call[t] /\ ExportOK(t)
        /\ slices \in Layouts
    BY DEF ErrorInv, Shape, CtxInv, Globals, Placed, CallOK, ExportInv
  <1>2. redis' = redis /\ slices' = slices
    BY DEF ExportSize, ExportAlloc, ExportScan, JobOf, CallStep, server, starting
  <1>3. /\ \A bs : Items(bs)' = Items(bs)
        /\ \A m : First(m)' = First(m)
        /\ (ToSet(slices))' = ToSet(slices)
    BY <1>2 DEF Items, First
  <1>4. Len(slices) \in Nat
    BY <1>1, NamesAreBuckets
  <1>5. ExportFields \subseteq DOMAIN call'[t]
    BY <1>1 DEF ExportSize, ExportAlloc, ExportScan, Returned, NoCall, ExportFields
  <1> SUFFICES ASSUME call'[t].pc \in {"export", "scan"}, call'[t].quiet
               PROVE  ExportOK(t)'
    BY <1>5 DEF ExportOK
  <1>6. CASE ExportSize(t)
    <2>1. /\ call[t].pc = "export" /\ n <= Len(slices)
          /\ call' = [call EXCEPT ![t].next = @ + 1, ![t].size = @ + Cardinality(Fields(Here(t)))]
      BY <1>6 DEF ExportSize
    <2>2. /\ call'[t].pc = "export" /\ call[t].quiet /\ call'[t].next = n + 1
          /\ call'[t].size = call[t].size + Cardinality(Fields(slices[n]))
      BY <1>1, <2>1 DEF ExportFields, Core, Here
    <2>3. n \in 1 .. Len(slices) /\ call[t].size = Cardinality(Items(First(n - 1)))
      BY <1>1, <1>4, <2>1, <2>2 DEF ExportOK
    <2>4. n - 1 \in 0 .. Len(slices) /\ n - 1 < Len(slices) /\ (n - 1) + 1 = n
      BY <1>4, <2>3
    <2> HIDE DEF n
    <2>5. IsFiniteSet(First(n - 1)) /\ First(n) = First(n - 1) \cup {slices[n]} /\ slices[n] \notin First(n - 1)
      BY <2>4, FirstNames
    <2>6. Cardinality(Items(First(n))) = Cardinality(Items(First(n - 1))) + Cardinality(Fields(slices[n]))
      BY <2>5, ItemsCounted
    <2>7. n + 1 \in 1 .. Len(slices) + 1 /\ (n + 1) - 1 = n
      BY <1>4, <2>3
    <2>8. call'[t].size = Cardinality(Items(First(n)))
      BY <2>2, <2>3, <2>6
    <2> QED
      BY <1>2, <1>3, <2>2, <2>7, <2>8 DEF ExportOK
  <1>7. CASE ExportAlloc(t)
    <2>1. /\ call[t].pc = "export" /\ n > Len(slices)
          /\ call' = [call EXCEPT ![t].pc = "scan", ![t].next = 1]
      <3>1. call' # Returned(t)
        BY <1>1 DEF Returned, NoCall
      <3> QED
        BY <1>7, <3>1 DEF ExportAlloc
    <2>2. /\ call'[t].pc = "scan" /\ call[t].quiet /\ call'[t].next = 1
          /\ call'[t].size = call[t].size
      BY <1>1, <2>1 DEF ExportFields, Core
    <2>3. n - 1 = Len(slices) /\ call[t].size = Cardinality(Items(First(n - 1)))
      BY <1>1, <1>4, <2>1, <2>2 DEF ExportOK
    <2> HIDE DEF n
    <2>4. First(Len(slices)) = ToSet(slices)
      BY <1>4, FirstNames
    <2>5. call'[t].size = Cardinality(Items(ToSet(slices))) /\ 1 \in 1 .. Len(slices) + 1
      BY <1>4, <2>2, <2>3, <2>4
    <2> QED
      BY <1>2, <1>3, <2>2, <2>5 DEF ExportOK
  <1>8. CASE ExportScan(t)
    <2> DEFINE more == [i \in 1 .. n |-> IF i = n THEN redis[Here(t)] ELSE call[t].got[i]]
    <2>1. /\ call[t].pc = "scan" /\ n <= Len(slices)
          /\ call' = [call EXCEPT ![t].next = @ + 1, ![t].got = more]
      BY <1>8 DEF ExportScan
    <2>2. more = [i \in 1 .. n |-> IF i = n THEN redis[slices[n]] ELSE call[t].got[i]]
      BY DEF Here
    <2> HIDE DEF more
    <2>3. /\ call'[t].pc = "scan" /\ call[t].quiet /\ call'[t].next = n + 1
          /\ call'[t].size = call[t].size /\ call'[t].got = more
      BY <1>1, <2>1 DEF ExportFields, Core
    <2>4. /\ n \in 1 .. Len(slices) /\ call[t].size = Cardinality(Items(ToSet(slices)))
          /\ \A i \in 1 .. n - 1 : call[t].got[i] = redis[slices[i]]
      BY <1>1, <1>4, <2>1, <2>3 DEF ExportOK
    <2> HIDE DEF n
    <2>5. n + 1 \in 1 .. Len(slices) + 1 /\ (n + 1) - 1 = n
      BY <1>4, <2>4
    <2>6. \A i \in 1 .. n : call'[t].got[i] = redis[slices[i]]
      BY <2>2, <2>3, <2>4
    <2> QED
      BY <1>2, <1>3, <2>3, <2>4, <2>5, <2>6 DEF ExportOK
  <1> QED
    BY <1>6, <1>7, <1>8

LEMMA CallingExports ==
  ASSUME ErrorInv, CtxInv, FindInv, ExportInv, NEW t \in Threads, Calling(t)
  PROVE  ExportInv'
  <1> DEFINE Fine == ExportFields \subseteq DOMAIN call'[t] /\ ExportOK(t)'
  <1>0. /\ DOMAIN call = Threads /\ CallOK(t) /\ slices \in Layouts
        /\ ExportFields \subseteq DOMAIN call[t]
    BY DEF ErrorInv, Shape, CtxInv, Globals, Placed, ExportInv
  <1>1. slices' = slices /\ \A u \in Threads \ {t} : call'[u].pc = call[u].pc
    BY OthersGo DEF starting, Goes, Alike
  <1>2. faults' \in Nat
    <2>1. faults' = faults \/ Fault
      BY DEF Calling, Begin, SelectTry, SelectEnd, SelectSize, SelectPush, SelectOccupy, Prepare,
             Write, WriteFails, Read,
         ReadFails, WriteEnd, WriteThrow, WriteError, FindEnd, ClearNext, ExportSize, ExportAlloc,
         ExportScan, BucketsEnd, BucketsFail
    <2> QED
      BY <2>1 DEF Fault, ExportInv
  <1>3. \A u \in Threads \ {t} : ExportFields \subseteq DOMAIN call'[u] /\ ExportOK(u)'
    BY <1>1, OthersWatch, WatchesSteady, ExportStays
  <1> SUFFICES Fine
    BY <1>2, <1>3 DEF ExportInv
  <1>4. ASSUME ExportFields \subseteq DOMAIN call'[t], call'[t].pc \notin {"export", "scan"}
        PROVE  Fine
    BY <1>4 DEF ExportOK
  <1>5. ASSUME NEW kind, NEW ks, NEW exists, Begin(t, kind, ks, exists)
        PROVE  Fine
    <2>1. /\ ExportFields \subseteq DOMAIN call'[t] /\ call'[t].pc \in {"select", kind}
          /\ kind # "export" => call'[t].pc # "export"
          /\ call'[t].pc \in {"clear", "export", "select"}
          /\ call'[t].next = 1 /\ call'[t].size = 0
      BY <1>0, <1>5 DEF Begin, NoCall, ExportFields
    <2>2. Len(slices) \in Nat /\ 0 \in 0 .. Len(slices)
      BY <1>0, NamesAreBuckets
    <2>3. First(1 - 1) = {}
      BY <2>2, FirstNames
    <2>4. Items({}) = {} /\ Cardinality({}) = 0
      BY FS_EmptySet DEF Items
    <2>5. /\ \A bs : Items(bs)' = Items(bs)
          /\ \A n : First(n)' = First(n)
      BY <1>1, <1>5 DEF Begin, server, Items, First
    <2>6. Cardinality(Items(First(1 - 1))') = 0
      BY <2>3, <2>4, <2>5
    <2>7. 1 \in 1 .. Len(slices) + 1
      BY <2>2
    <2> QED
      BY <1>1, <2>1, <2>6, <2>7 DEF ExportOK
  <1>6. CASE \/ SelectTry(t) \/ SelectEnd(t) \/ SelectSize(t)
             \/ SelectPush(t) \/ SelectOccupy(t) \/ WriteThrow(t) \/ Prepare(t)
    <2>1. /\ ExportFields \subseteq DOMAIN call'[t]
          /\ call'[t].pc \in {"select", "end", "push", "occupy", "prepare", "throw", "send"}
      BY <1>0, <1>6 DEF SelectTry, SelectEnd, SelectSize, SelectPush, SelectOccupy, WriteThrow,
                        Prepare, Goto, ExportFields,
         CallOK, Core
    <2> QED
      BY <2>1, <1>4
  <1> DEFINE f == IF redis' = redis THEN call ELSE Watched(redis')
  <1>7. DOMAIN f = Threads /\ f[t].pc = call[t].pc /\ ExportFields \subseteq DOMAIN f[t]
        /\ "pc" \in DOMAIN f[t]
    <2>1. Watches(Watched(redis')[t], t)
      BY DEF Watches
    <2>2. ExportFields \subseteq DOMAIN Watched(redis')[t]
      BY <2>1, WatchesSteady DEF Steady
    <2>3. /\ DOMAIN Watched(redis') = Threads /\ Watched(redis')[t].pc = call[t].pc
          /\ "pc" \in DOMAIN Watched(redis')[t] /\ "pc" \in DOMAIN call[t]
      BY WatchedKeeps DEF ErrorInv, Shape
    <2> QED
      BY <1>0, <2>2, <2>3
  <1>8. ASSUME NEW b \in Bucket, Write(t, b) \/ WriteFails(t, b)
        PROVE  Fine
    <2> DEFINE g == [f EXCEPT ![t].pending = @ \ {b}]
    <2>1. call' = g \/ call' = [g EXCEPT ![t].failed = TRUE]
      BY <1>8 DEF Write, WriteFails, Answered
    <2> HIDE DEF f
    <2>2. DOMAIN g = Threads /\ ExportFields \subseteq DOMAIN g[t]
      BY <1>7 DEF ExportFields
    <2> HIDE DEF g
    <2>3. ExportFields \subseteq DOMAIN call'[t]
      BY <2>1, <2>2 DEF ExportFields
    <2>4. call[t].pc = "send"
      BY <1>8 DEF Write, WriteFails, Sending
    <2>5. call'[t].pc = "send"
      BY <1>8, <2>4, AnswerPlaced DEF Alike
    <2> QED
      BY <2>3, <2>5, <1>4
  <1>9. ASSUME NEW b \in Bucket, Read(t, b) \/ ReadFails(t, b)
        PROVE  Fine
    <2>1. ExportFields \subseteq DOMAIN call'[t]
      BY <1>0, <1>9 DEF Read, ReadFails, ExportFields
    <2>2. call[t].pc = "send"
      BY <1>9 DEF Read, ReadFails, Sending
    <2>3. call'[t].pc = "send"
      BY <1>9, <2>2, AnswerPlaced DEF Alike
    <2> QED
      BY <2>1, <2>3, <1>4
  <1>10. CASE ClearNext(t)
    <2>1. call' = [f EXCEPT ![t].next = @ + 1] /\ call[t].pc = "clear"
      BY <1>10 DEF ClearNext
    <2> HIDE DEF f
    <2>2. ExportFields \subseteq DOMAIN call'[t] /\ call'[t].pc = "clear"
      BY <1>7, <2>1 DEF ExportFields
    <2> QED
      BY <2>2, <1>4
  <1>11. CASE WriteEnd(t) \/ FindEnd(t) \/ WriteError(t) \/ BucketsEnd(t) \/ BucketsFail(t)
    <2>1. call'[t] = NoCall
      BY <1>0, <1>11 DEF WriteEnd, FindEnd, WriteError, BucketsEnd, BucketsFail, Returned
    <2> QED
      BY <2>1, <1>4 DEF NoCall, ExportFields
  <1>12. CASE ExportSize(t) \/ ExportAlloc(t) \/ ExportScan(t)
    BY <1>12, ExportSteps
  <1> HIDE DEF f, Fine
  <1> QED
    BY <1>5, <1>6, <1>8, <1>9, <1>10, <1>11, <1>12 DEF Calling

(* An export during which the table did not change returns every item, and *)
(* as many as it allocated its outputs for (ExportValuesToTensor).         *)
THEOREM ExportsAreWhole == Spec => ExportWhole
  <1> DEFINE Whole(t) ==
               /\ \A i \in DOMAIN slices : call[t].size # 0 => call[t].got[i] = redis[slices[i]]
               /\ call[t].size = Cardinality({bk \in ToSet(slices) \X Keys : redis[bk[1]][bk[2]] # << >>})
             Returns(t) == call[t].pc \in {"export", "scan"} /\ call'[t].pc = "idle"
                           /\ phase' = phase /\ faults' = faults /\ call[t].quiet
             Step == \A t \in Threads : Returns(t) => Whole(t)
  <1>1. Init => ExportInv
    BY DEF Init, ExportInv, ExportOK, NoCall, ExportFields
  <1>2. ExportInv /\ FindInv /\ ErrorInv /\ CtxInv /\ [Next /\ budget' = budget]_vars => ExportInv'
    <2> SUFFICES ASSUME ExportInv, FindInv, ErrorInv, CtxInv, [Next /\ budget' = budget]_vars
                 PROVE  ExportInv'
      OBVIOUS
    <2>1. CASE UNCHANGED vars
      <3>1. call' = call /\ faults' = faults /\ redis' = redis /\ slices' = slices
        BY <2>1 DEF vars, server, starting
      <3>2. /\ \A bs : Items(bs)' = Items(bs)
            /\ \A n : First(n)' = First(n)
            /\ (ToSet(slices))' = ToSet(slices)
        BY <3>1 DEF Items, First
      <3> QED
        BY <3>1, <3>2 DEF ExportInv, ExportOK
    <2>2. CASE Next
      BY <2>1, <2>2, StartUpExports, ServerExports, CallingExports DEF Next, Finished
    <2> QED
      BY <2>1, <2>2
  <1>3. ExportInv /\ ErrorInv /\ CtxInv /\ [Next /\ budget' = budget]_vars => [Step]_vars
    <2> SUFFICES ASSUME ExportInv, ErrorInv, CtxInv, Next, vars' # vars,
                        NEW t \in Threads, Returns(t)
                 PROVE  Whole(t)
      OBVIOUS
    <2>0. /\ DOMAIN call = Threads /\ ExportOK(t) /\ slices \in Layouts /\ faults \in Nat
          /\ phase = "up" /\ Core \subseteq DOMAIN call[t]
      BY DEF ExportInv, ErrorInv, Shape, OnlyUp, CtxInv, Globals, Placed, CallOK
    <2>1. Len(slices) \in Nat /\ DOMAIN slices = 1 .. Len(slices)
      BY <2>0, NamesAreBuckets
    <2>2. call[t].next > Len(slices) /\ (call[t].pc = "export" => call[t].size = 0)
      <3>1. ~ StartUp /\ ~ Crash /\ ~ Stop /\ ~ Finished
        BY <2>0 DEF StartUp, Start, StartFails, RecreateEnd, DropEnd, Duplicate, DuplicateCheck,
           Persist, Recreate, Drop, Crash, Stop, Finished
      <3>2. ~ Goes(t)
        BY DEF Goes, Alike
      <3>3. Calling(t)
        BY <3>1, <3>2, AllGo, OthersGo DEF Next
      <3>4. \A b \in Bucket : ~ (Write(t, b) \/ WriteFails(t, b) \/ Read(t, b) \/ ReadFails(t, b))
        BY AnswerPlaced DEF Alike
      <3>5. \A kind, ks, exists : ~ Begin(t, kind, ks, exists)
        BY DEF Begin, Idle
      <3>6. /\ ~ Prepare(t) /\ ~ SelectTry(t) /\ ~ SelectEnd(t)
            /\ ~ SelectSize(t) /\ ~ SelectPush(t) /\ ~ SelectOccupy(t) /\ ~ WriteThrow(t)
            /\ ~ WriteEnd(t) /\ ~ WriteError(t) /\ ~ FindEnd(t) /\ ~ ClearNext(t)
        BY DEF Prepare, SelectTry, SelectEnd, SelectSize, SelectPush, SelectOccupy, WriteThrow,
               WriteEnd, WriteError, FindEnd,
           ClearNext
      <3>7. ~ ExportSize(t) /\ ~ ExportScan(t)
        BY <2>0 DEF ExportSize, ExportScan, Core
      <3>8. ~ BucketsFail(t)
        BY <2>0 DEF BucketsFail, Fault
      <3>9. ExportAlloc(t) \/ BucketsEnd(t)
        BY <3>3, <3>4, <3>5, <3>6, <3>7, <3>8 DEF Calling
      <3>10. CASE ExportAlloc(t)
        <4>1. call[t].size # 0 => call'[t].pc = "scan"
          BY <2>0, <3>10 DEF ExportAlloc, Core
        <4> QED
          BY <3>10, <4>1 DEF ExportAlloc
      <3>11. CASE BucketsEnd(t)
        BY <3>11 DEF BucketsEnd
      <3> QED
        BY <3>9, <3>10, <3>11
    <2>3. call[t].next \in 1 .. Len(slices) + 1
      BY <2>0 DEF ExportOK
    <2>4. call[t].next - 1 = Len(slices)
      BY <2>1, <2>2, <2>3
    <2>5. First(Len(slices)) = ToSet(slices)
      BY <2>1, FirstNames
    <2>6. call[t].size = Cardinality(Items(ToSet(slices)))
      BY <2>0, <2>4, <2>5 DEF ExportOK
    <2>7. \A i \in DOMAIN slices : call[t].size # 0 => call[t].got[i] = redis[slices[i]]
      BY <2>0, <2>1, <2>2, <2>4 DEF ExportOK
    <2> QED
      BY <2>6, <2>7 DEF Items
  <1> QED
    BY <1>1, <1>2, <1>3, ErrorsKept, CallsKeptApart, FindsKept, PTL DEF Spec, ExportWhole
=============================================================================
