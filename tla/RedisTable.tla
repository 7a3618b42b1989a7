------------------------------ MODULE RedisTable ------------------------------
(***************************************************************************)
(* A table kept in a Redis cluster: RedisTableOfTensors                    *)
(* (core/kernels/redis_table_op.cc) over RedisWrapper<RedisCluster>        *)
(* (redis_impl/redis_cluster_connection_pool.hpp).  The table is cut into  *)
(* buckets, one Redis hash each; a call sends one command per bucket, on a *)
(* pool of network threads, from a context that it shares with nobody as   *)
(* long as SelectAvailableThreadContext works.  A process starts, runs     *)
(* calls in several threads, and stops or crashes; the server stays.       *)
(*                                                                         *)
(* A value is the sequence of the calls that made it.  A call too large    *)
(* for one command is cut into shards that run as calls do.                *)
(***************************************************************************)
EXTENDS Integers, Sequences, FiniteSets, SequencesExt

CONSTANTS
  Keys,
  Hash,         \* [Keys -> Nat]: K_bucket_num_handle, before the modulus
  Layouts,      \* the sequences of bucket names a configuration may give
  Threads,      \* threads that run kernel calls
  NContexts,    \* hardware_concurrency_: contexts allocated at the start
  Budgets,      \* bounds: what calls a run makes (kinds, batches: the sets of keys
                \* they are for) and the numbers of calls, starts and faults
  Free          \* no request: what an unused context holds

Bucket == UNION {ToSet(l) : l \in Layouts}
Kinds  == {"find", "insert", "accum", "remove", "clear", "export"}

ASSUME RedisAssumption ==
  /\ IsFiniteSet(Keys) /\ Hash \in [Keys -> Nat]
  /\ \A l \in Layouts : l \in Seq(Bucket) /\ l # << >> /\ IsInjective(l)
  /\ NContexts \in Nat
  /\ \A b \in Budgets : /\ b.kinds \subseteq Kinds /\ b.batches \subseteq SUBSET Keys
                        /\ b.calls \in Nat /\ b.starts \in Nat /\ b.faults \in Nat

Vectors == {"find", "insert", "delete"}

VARIABLES
  (* The server.                                                           *)
  redis,      \* [Bucket -> [Keys -> value, or << >> if there is none]]
  ttl,        \* buckets with an expiring time
  (* The process: its start, then its calls.                               *)
  phase, slices, slicesImport,
  todo,       \* buckets the start has yet to read or to delete
  jobs,       \* DoDuplicateInRedis: [bucket -> what DUMP gave, if it has run yet]
  contexts,   \* [Vectors -> sequence of contexts]
  errorPtr,   \* error_ptr, one for all calls
  call,       \* [Threads -> the call that a thread is in, or was in last]
  calls, starts, faults,
  budget,     \* how many of each this run has, one of Budgets
  (* History.                                                              *)
  met,        \* two threads have raced for a new context of a vector
  before,     \* the table before this start, as the last process saw it
  intact      \* nothing since then excuses a missing item

server   == <<redis, ttl>>
starting == <<phase, slices, slicesImport, todo, jobs>>
vars == <<server, starting, contexts, errorPtr, call, calls, starts, faults, budget,
          met, before, intact>>

Empty      == [k \in Keys |-> << >>]
Fields(b)  == {k \in Keys : redis[b][k] # << >>}
(* SCAN MATCH prefix*{*}: a hash without fields is no key of the server.   *)
Present    == {b \in Bucket : Fields(b) # {}}

BucketOf(k) == slices[1 + (Hash[k] % Len(slices))]
Value(k)    == redis[BucketOf(k)][k]
KeysIn(b, ks) == {k \in ks : BucketOf(k) = b}

NoCall == [pc |-> "idle", kind |-> "none", keys |-> {}, exists |-> FALSE, id |-> 0,
           ctx |-> 0, next |-> 0, pending |-> {}, got |-> << >>, size |-> 0,
           failed |-> FALSE, excused |-> FALSE, quiet |-> TRUE, seen |-> {}]

Init ==
  /\ redis = [b \in Bucket |-> Empty] /\ ttl = {}
  /\ phase = "down" /\ slices \in Layouts /\ slicesImport = slices
  /\ todo = {} /\ jobs = << >>
  /\ contexts = [v \in Vectors |-> << >>] /\ errorPtr = FALSE
  /\ call = [t \in Threads |-> NoCall]
  /\ calls = 0 /\ starts = 0 /\ faults = 0 /\ budget \in Budgets
  /\ met = FALSE /\ before = Empty /\ intact = TRUE
-----------------------------------------------------------------------------
(* What the server does.                                                   *)
HMSET(h, ks, id) == [k \in Keys |-> IF k \in ks THEN <<id>> ELSE h[k]]
HDEL(h, ks)      == [k \in Keys |-> IF k \in ks THEN << >> ELSE h[k]]

(* Mutant of HMACCUM: a field that its caller has not seen is written as   *)
(* HMSET would.                                                            *)
HMACCUMSets(h, ks, exists, id) ==
  [k \in Keys |->
     CASE k \in ks /\ exists /\ h[k] # << >> -> Append(h[k], id)
       [] k \in ks /\ ~ exists               -> <<id>>
       [] OTHER                              -> h[k]]

(* The module command of third_party/redis_module: a field that is there is*)
(* added to if it was expected, one that is not there is set if it was not.*)
HMACCUM(h, ks, exists, id) ==
  [k \in Keys |->
     CASE k \in ks /\ exists /\ h[k] # << >>   -> Append(h[k], id)
       [] k \in ks /\ ~ exists /\ h[k] = << >> -> <<id>>
       [] OTHER                                -> h[k]]

(* Bucket b now holds h; a hash that loses its last field loses its time.  *)
Store(b, h) ==
  /\ redis' = [redis EXCEPT ![b] = h]
  /\ ttl' = IF h = Empty THEN ttl \ {b} ELSE ttl

(* What the calls that are running may see of the table, which becomes r.  *)
Watched(r) ==
  [t \in Threads |->
     IF call[t].pc = "idle" THEN call[t]
     ELSE IF call[t].kind = "find"
     THEN [call[t] EXCEPT !.seen = @ \cup {<<k, r[BucketOf(k)][k]>> : k \in call[t].keys}]
     ELSE [call[t] EXCEPT !.quiet = FALSE]]

(* Something fails: a bounded number of times, and then nothing is claimed *)
(* of the items of this start.                                             *)
Fault == faults < budget.faults /\ faults' = faults + 1
-----------------------------------------------------------------------------
(* Starting: the constructor.                                              *)

Idle(t) == call[t].pc = "idle"

(* What the constructor does with the buckets it finds.                    *)
Plan(new, imp) ==
  IF ToSet(new) = ToSet(imp) THEN "persist"
  ELSE IF Cardinality(Present) # Len(new) THEN "recreate"
  ELSE IF Present = ToSet(imp) THEN "duplicate" ELSE "persist"

Start(new, imp) ==
  /\ phase = "down" /\ DOMAIN jobs = {} /\ starts < budget.starts /\ starts' = starts + 1
  /\ slices' = new /\ slicesImport' = imp
  /\ phase' = Plan(new, imp)
  /\ todo' = IF phase' = "recreate" THEN Present ELSE {}
  /\ contexts' = [v \in Vectors |-> << >>] /\ errorPtr' = FALSE
  /\ call' = [t \in Threads |-> NoCall]
  /\ before' = [k \in Keys |-> Value(k)]
  /\ intact' = \/ new = slices /\ phase' = "persist"
               \/ imp = slices /\ phase' = "duplicate" /\ ToSet(new) \cap ToSet(imp) = {}
  /\ UNCHANGED <<server, jobs, calls, faults, met>>

StartStep == UNCHANGED <<slices, slicesImport, call, calls, starts, met, before>>

(* The constructor returns an error: there is no kernel.                   *)
StartFails ==
  /\ phase \in {"recreate", "drop", "remove", "persist"}
  /\ Fault /\ phase' = "down" /\ todo' = {} /\ intact' = FALSE
  /\ StartStep /\ UNCHANGED <<server, jobs, contexts, errorPtr>>

(* ReCreateTableBuckets: a bucket is read into tensors, and what lies after*)
(* the tensors is inserted, pk_raw and pv_raw having been advanced to their*)
(* end: the call is for memory that is not the table's.  junk stands for   *)
(* those of the keys this memory may happen to hold; the process may crash *)
(* (Crash) as well.                                                        *)
Recreate(b) ==
  /\ phase = "recreate" /\ b \in todo
  /\ \E junk \in SUBSET Keys :
       redis' = [c \in Bucket |-> IF c \in ToSet(slices)
                                  THEN HMSET(redis[c], KeysIn(c, junk), 0) ELSE redis[c]]
  /\ contexts' = [contexts EXCEPT !["insert"] = <<[occupied |-> FALSE, request |-> Free]>>]
  /\ todo' = todo \ {b} /\ intact' = FALSE
  /\ StartStep /\ UNCHANGED <<ttl, phase, jobs, errorPtr, faults>>

RecreateEnd ==
  /\ phase = "recreate" /\ todo = {}
  /\ phase' = "drop" /\ todo' = Present \ ToSet(slices)
  /\ StartStep /\ UNCHANGED <<server, jobs, contexts, errorPtr, faults, intact>>

(* RemoveHkeysInBuckets, of the old buckets.                               *)
Drop(b) ==
  /\ phase \in {"drop", "remove"} /\ b \in todo
  /\ Store(b, Empty) /\ todo' = todo \ {b}
  /\ StartStep /\ UNCHANGED <<phase, jobs, contexts, errorPtr, faults, intact>>

DropEnd ==
  /\ phase \in {"drop", "remove"} /\ todo = {} /\ phase' = "persist"
  /\ StartStep /\ UNCHANGED <<server, todo, jobs, contexts, errorPtr, faults, intact>>

(* DuplicateInRedis gives the copies to the pool and does not wait: the    *)
(* buckets they read are removed next.                                     *)
Duplicate ==
  /\ phase = "duplicate" /\ phase' = "check"
  /\ jobs' = [b \in ToSet(slicesImport) |-> Empty]
  /\ todo' = ToSet(slicesImport)
  /\ StartStep /\ UNCHANGED <<server, contexts, errorPtr, faults, intact>>

(* Only a copy that has failed already is noticed.                         *)
DuplicateCheck ==
  /\ phase = "check" /\ errorPtr' = FALSE
  /\ phase' = IF errorPtr THEN "down" ELSE "remove"
  /\ todo' = IF errorPtr THEN {} ELSE todo
  /\ StartStep /\ UNCHANGED <<server, jobs, contexts, faults, intact>>

JobStep == UNCHANGED <<phase, slices, slicesImport, todo, contexts, calls, starts, met, before>>
Without(b) == [c \in DOMAIN jobs \ {b} |-> jobs[c]]

(* DUMP of a bucket that is gone: the RESTORE that follows fails.          *)
JobDump(b) ==
  /\ b \in DOMAIN jobs /\ jobs[b] = Empty
  /\ IF Fields(b) # {}
     THEN jobs' = [jobs EXCEPT ![b] = redis[b]] /\ UNCHANGED <<errorPtr, intact>>
     ELSE jobs' = Without(b) /\ errorPtr' = TRUE /\ intact' = FALSE
  /\ JobStep /\ UNCHANGED <<server, call, faults>>

(* Mutant of Target: the names are given in another order.                 *)
TargetReversed(b) ==
  slices[CHOOSE i \in DOMAIN slices : slicesImport[Len(slicesImport) + 1 - i] = b]

Target(b) == slices[CHOOSE i \in DOMAIN slices : slicesImport[i] = b]

(* RESTORE without REPLACE: an error if there is such a hash by then.      *)
JobRestore(b) ==
  /\ b \in DOMAIN jobs /\ jobs[b] # Empty /\ jobs' = Without(b)
  /\ IF Fields(Target(b)) = {}
     THEN redis' = [redis EXCEPT ![Target(b)] = jobs[b]] /\ UNCHANGED <<errorPtr, intact>>
     ELSE errorPtr' = TRUE /\ intact' = FALSE /\ UNCHANGED redis
  /\ call' = Watched(redis')
  /\ JobStep /\ UNCHANGED <<ttl, faults>>

JobFails(b) ==
  /\ b \in DOMAIN jobs /\ jobs' = Without(b)
  /\ errorPtr' = TRUE /\ Fault /\ intact' = FALSE
  /\ JobStep /\ UNCHANGED <<server, call>>

(* SetPersistBuckets, and the contexts are allocated.                      *)
Persist ==
  /\ phase = "persist" /\ phase' = "up"
  /\ ttl' = {}
  /\ contexts' = [v \in Vectors |->
       contexts[v] \o [i \in 1 .. NContexts |-> [occupied |-> FALSE, request |-> Free]]]
  /\ StartStep /\ UNCHANGED <<redis, todo, jobs, errorPtr, faults, intact>>

(* The destructor: SetExpireBuckets.                                       *)
Stop ==
  /\ phase = "up" /\ \A t \in Threads : Idle(t)
  /\ phase' = "down" /\ ttl' = Present
  /\ UNCHANGED <<redis, slices, slicesImport, todo, jobs, contexts, errorPtr, call, calls,
                 starts, faults, met, before, intact>>

Expire(b) ==
  /\ b \in ttl /\ Store(b, Empty)
  /\ call' = Watched(redis') /\ intact' = FALSE
  /\ UNCHANGED <<starting, contexts, errorPtr, calls, starts, faults, met, before>>

Crash ==
  /\ phase # "down" /\ Fault
  /\ phase' = "down" /\ todo' = {} /\ jobs' = << >> /\ call' = [t \in Threads |-> NoCall]
  /\ intact' = FALSE
  /\ UNCHANGED <<server, slices, slicesImport, contexts, errorPtr, calls, starts, met, before>>
-----------------------------------------------------------------------------
(* A call: its context.                                                    *)

(* Mutant of Occupied: the exchange is made and its result ignored.        *)
OccupiedIgnored(v, i) == FALSE

Occupied(v, i) == contexts[v][i].occupied

VectorOf(kind) == CASE kind = "find" -> "find" [] kind = "remove" -> "delete" [] OTHER -> "insert"
Vector(t)      == VectorOf(call[t].kind)

CallStep == UNCHANGED <<starting, calls, starts, before>>
Goto(t, label) == call' = [call EXCEPT ![t].pc = label]

Begin(t, kind, ks, exists) ==
  /\ phase = "up" /\ Idle(t) /\ calls < budget.calls /\ calls' = calls + 1
  /\ call' = [call EXCEPT ![t] =
       [NoCall EXCEPT !.pc = IF kind \in {"clear", "export"} THEN kind ELSE "select",
                      !.kind = kind, !.keys = ks, !.exists = exists, !.id = calls + 1,
                      !.ctx = IF kind \in {"clear", "export"} THEN 0 ELSE 1,
                      !.next = 1,
                      !.seen = IF kind = "find" THEN {<<k, Value(k)>> : k \in ks} ELSE {}]]
  /\ intact' = (intact /\ kind \in {"find", "export"})
  /\ UNCHANGED <<server, starting, contexts, errorPtr, starts, faults, met, before>>

(* SelectAvailableThreadContext: one compare_exchange per context.  Its    *)
(* mutex is passed to it and never locked, so each read and write of the   *)
(* vector is a step.  A push_back may move the vector under a thread that  *)
(* reads it: that thread finds the same pointers where they were, or the   *)
(* process crashes (Crash).                                                *)

Appending(t) == call[t].pc \in {"end", "push", "occupy"}
Rivals(t)    == {u \in Threads \ {t} : Appending(u) /\ Vector(u) = Vector(t)}

(* Mutant of SelectTry: the flag is read and not exchanged.                *)
SelectTryRead(t) ==
  /\ call[t].pc = "select" /\ call[t].ctx <= Len(contexts[Vector(t)])
  /\ LET i == call[t].ctx IN
     IF Occupied(Vector(t), i)
     THEN call' = [call EXCEPT ![t].ctx = i + 1] /\ UNCHANGED met
     ELSE Goto(t, "prepare") /\ met' = (met \/ \E u \in Rivals(t) : call[u].ctx = i)
  /\ CallStep /\ UNCHANGED <<server, contexts, errorPtr, faults, intact>>

(* The context may be one that another thread has pushed and not yet       *)
(* marked as its own.                                                      *)
SelectTry(t) ==
  /\ call[t].pc = "select" /\ call[t].ctx <= Len(contexts[Vector(t)])
  /\ LET i == call[t].ctx IN
     IF Occupied(Vector(t), i)
     THEN call' = [call EXCEPT ![t].ctx = i + 1] /\ UNCHANGED <<contexts, met>>
     ELSE /\ Goto(t, "prepare") /\ contexts' = [contexts EXCEPT ![Vector(t)][i].occupied = TRUE]
          /\ met' = (met \/ \E u \in Rivals(t) : call[u].ctx = i)
  /\ CallStep /\ UNCHANGED <<server, errorPtr, faults, intact>>

(* Past the last context: the loop ends.                                   *)
SelectEnd(t) ==
  /\ call[t].pc = "select" /\ call[t].ctx > Len(contexts[Vector(t)])
  /\ Goto(t, "end") /\ met' = (met \/ Rivals(t) # {})
  /\ CallStep /\ UNCHANGED <<server, contexts, errorPtr, faults, intact>>

(* thread_context_id == size().  Otherwise another thread has pushed a     *)
(* context meanwhile, and this one takes it too.                           *)
SelectSize(t) ==
  /\ call[t].pc = "end"
  /\ Goto(t, IF call[t].ctx = Len(contexts[Vector(t)]) + 1 THEN "push" ELSE "prepare")
  /\ CallStep /\ UNCHANGED <<server, contexts, errorPtr, faults, met, intact>>

(* A new context is not occupied.                                          *)
SelectPush(t) ==
  /\ call[t].pc = "push" /\ Goto(t, "occupy")
  /\ contexts' = [contexts EXCEPT ![Vector(t)] = Append(@, [occupied |-> FALSE, request |-> Free])]
  /\ CallStep /\ UNCHANGED <<server, errorPtr, faults, met, intact>>

(* Mutant of SelectOccupy: the new context is not marked.                  *)
SelectOccupyNot(t) ==
  /\ call[t].pc = "occupy" /\ Goto(t, "prepare")
  /\ CallStep /\ UNCHANGED <<server, contexts, errorPtr, faults, met, intact>>

(* What is marked is back(), which another thread may have pushed.         *)
SelectOccupy(t) ==
  /\ call[t].pc = "occupy" /\ Goto(t, "prepare")
  /\ contexts' = [contexts EXCEPT ![Vector(t)][Len(contexts[Vector(t)])].occupied = TRUE]
  /\ CallStep /\ UNCHANGED <<server, errorPtr, faults, met, intact>>

(* HandleReserve and HandlePushBack: the context holds this call's command *)
(* for each bucket.                                                        *)
Prepare(t) ==
  /\ call[t].pc = "prepare"
  /\ contexts' = [contexts EXCEPT ![Vector(t)][call[t].ctx].request =
       [kind |-> call[t].kind, keys |-> call[t].keys, exists |-> call[t].exists, id |-> call[t].id]]
  /\ call' = [call EXCEPT ![t].pc = "send", ![t].pending = ToSet(slices)]
  /\ CallStep /\ UNCHANGED <<server, errorPtr, faults, met, intact>>

(* The command for a bucket as the context now has it.                     *)
Request(t)    == contexts[Vector(t)][call[t].ctx].request
Commanded(t, b) == KeysIn(b, Request(t).keys)

Sending(t, b) == call[t].pc = "send" /\ b \in call[t].pending

Applied(r, b) ==
  LET ks == KeysIn(b, r.keys) IN
  CASE r.kind = "insert" -> HMSET(redis[b], ks, r.id)
    [] r.kind = "accum"  -> HMACCUM(redis[b], ks, r.exists, r.id)
    [] r.kind = "remove" -> HDEL(redis[b], ks)

(* t has its answer for bucket b, after which the table is redis'.         *)
Answered(t, b) == [IF redis' = redis THEN call ELSE Watched(redis') EXCEPT ![t].pending = @ \ {b}]

(* PipeExecWrite of one bucket; without keys nothing is sent.              *)
Write(t, b) ==
  /\ Sending(t, b) /\ call[t].kind # "find"
  /\ Store(b, Applied(Request(t), b))
  /\ call' = Answered(t, b)
  /\ CallStep /\ UNCHANGED <<contexts, errorPtr, faults, met, intact>>

(* Mutant of WriteFails: the error is only logged, as PipeExecRead does.   *)
WriteFailsLogged(t, b) ==
  /\ Sending(t, b) /\ call[t].kind # "find" /\ Commanded(t, b) # {}
  /\ Fault /\ UNCHANGED <<server, errorPtr>>
  /\ call' = [Answered(t, b) EXCEPT ![t].failed = TRUE]
  /\ CallStep /\ UNCHANGED <<contexts, met, intact>>

(* The command throws; the server may have run it before the answer went   *)
(* missing.                                                                *)
WriteFails(t, b) ==
  /\ Sending(t, b) /\ call[t].kind # "find" /\ Commanded(t, b) # {}
  /\ Fault /\ errorPtr' = TRUE
  /\ UNCHANGED server \/ Store(b, Applied(Request(t), b))
  /\ call' = [Answered(t, b) EXCEPT ![t].failed = TRUE]
  /\ CallStep /\ UNCHANGED <<contexts, met, intact>>

(* MsetCommand, MaccumCommand and DelCommand, every answer there: whoever  *)
(* finds error_ptr set returns an error and resets it, in two steps.       *)
Returned(t) == [call EXCEPT ![t] = NoCall]

Using(u) == call[u].pc \in {"prepare", "send", "throw"}
Shared(t) == \E u \in Threads \ {t} :
               Using(u) /\ Vector(u) = Vector(t) /\ call[u].ctx = call[t].ctx

(* The context is free again; its command stays there until the next       *)
(* HandleReserve, and is forgotten here if no other thread can send it.    *)
Release(t)  ==
  contexts' = [contexts EXCEPT ![Vector(t)][call[t].ctx] =
                 [occupied |-> FALSE, request |-> IF Shared(t) THEN @.request ELSE Free]]

WriteEnd(t) ==
  /\ call[t].pc = "send" /\ call[t].pending = {} /\ call[t].kind # "find"
  /\ ~ errorPtr
  /\ call' = Returned(t) /\ Release(t)
  /\ CallStep /\ UNCHANGED <<server, errorPtr, faults, met, intact>>

WriteThrow(t) ==
  /\ call[t].pc = "send" /\ call[t].pending = {} /\ call[t].kind # "find"
  /\ errorPtr /\ Goto(t, "throw")
  /\ CallStep /\ UNCHANGED <<server, contexts, errorPtr, faults, met, intact>>

WriteError(t) ==
  /\ call[t].pc = "throw" /\ errorPtr' = FALSE
  /\ call' = [u \in Threads |-> IF u = t THEN NoCall
                                ELSE IF Idle(u) THEN call[u]
                                ELSE [call[u] EXCEPT !.excused = TRUE]]
  /\ Release(t)
  /\ CallStep /\ UNCHANGED <<server, faults, met, intact>>

(* MgetCommand and MgetToTensorWithExist.  << >> stands for the default    *)
(* value and exists = false, which is also what a failed read gives.       *)
Found(t, values) == [k \in DOMAIN call[t].got \cup DOMAIN values |->
                       IF k \in DOMAIN values THEN values[k] ELSE call[t].got[k]]

Read(t, b) ==
  /\ Sending(t, b) /\ call[t].kind = "find"
  /\ call' = [call EXCEPT ![t].pending = @ \ {b},
                          ![t].got = Found(t, [k \in Commanded(t, b) |-> redis[b][k]])]
  /\ CallStep /\ UNCHANGED <<server, contexts, errorPtr, faults, met, intact>>

ReadFails(t, b) ==
  /\ Sending(t, b) /\ call[t].kind = "find" /\ Commanded(t, b) # {}
  /\ Fault
  /\ call' = [call EXCEPT ![t].pending = @ \ {b}, ![t].failed = TRUE,
                          ![t].got = Found(t, [k \in Commanded(t, b) |-> << >>])]
  /\ CallStep /\ UNCHANGED <<server, contexts, errorPtr, met, intact>>

FindEnd(t) ==
  /\ call[t].pc = "send" /\ call[t].pending = {} /\ call[t].kind = "find"
  /\ call' = Returned(t) /\ Release(t)
  /\ CallStep /\ UNCHANGED <<server, errorPtr, faults, met, intact>>
-----------------------------------------------------------------------------
(* Clear and ExportValuesToTensor go from bucket to bucket themselves.     *)
JobOf(t) == CallStep /\ UNCHANGED <<contexts, errorPtr, met, intact>>
Here(t)  == slices[call[t].next]

ClearNext(t) ==
  /\ call[t].pc = "clear" /\ call[t].next <= Len(slices)
  /\ Store(Here(t), Empty)
  /\ call' = [IF redis' = redis THEN call ELSE Watched(redis') EXCEPT ![t].next = @ + 1]
  /\ JobOf(t) /\ UNCHANGED faults

(* Mutant of ExportSize: the last bucket is not counted.                   *)
ExportSizeShort(t) ==
  /\ call[t].pc = "export" /\ call[t].next <= Len(slices)
  /\ call' = [call EXCEPT ![t].next = @ + 1,
       ![t].size = IF call[t].next = Len(slices) THEN @ ELSE @ + Cardinality(Fields(Here(t)))]
  /\ JobOf(t) /\ UNCHANGED <<server, faults>>

ExportSize(t) ==
  /\ call[t].pc = "export" /\ call[t].next <= Len(slices)
  /\ call' = [call EXCEPT ![t].next = @ + 1, ![t].size = @ + Cardinality(Fields(Here(t)))]
  /\ JobOf(t) /\ UNCHANGED <<server, faults>>

ExportScan(t) ==
  /\ call[t].pc = "scan" /\ call[t].next <= Len(slices)
  /\ call' = [call EXCEPT ![t].next = @ + 1,
                          ![t].got = [i \in 1 .. call[t].next |->
                                        IF i = call[t].next THEN redis[Here(t)] ELSE @[i]]]
  /\ JobOf(t) /\ UNCHANGED <<server, faults>>

(* A table without keys gives nothing and is not scanned.                  *)
ExportAlloc(t) ==
  /\ call[t].pc = "export" /\ call[t].next > Len(slices)
  /\ call' = IF call[t].size = 0 THEN Returned(t)
             ELSE [call EXCEPT ![t].pc = "scan", ![t].next = 1]
  /\ JobOf(t) /\ UNCHANGED <<server, faults>>

BucketsEnd(t) ==
  /\ call[t].pc \in {"clear", "scan"} /\ call[t].next > Len(slices)
  /\ call' = Returned(t)
  /\ JobOf(t) /\ UNCHANGED <<server, faults>>

(* A DEL or an HSCAN fails: the call returns its error.                    *)
BucketsFail(t) ==
  /\ call[t].pc \in {"clear", "scan"} /\ Fault
  /\ call' = Returned(t)
  /\ JobOf(t) /\ UNCHANGED server
-----------------------------------------------------------------------------
StartUp == \/ \E new, imp \in Layouts : Start(new, imp)
           \/ StartFails \/ RecreateEnd \/ DropEnd \/ Duplicate \/ DuplicateCheck \/ Persist
           \/ \E b \in Bucket : Recreate(b) \/ Drop(b)

Copying == \E b \in Bucket : JobDump(b) \/ JobRestore(b) \/ JobFails(b)

Calling(t) ==
  \/ \E kind \in budget.kinds \ {"clear", "export"}, ks \in budget.batches, exists \in BOOLEAN :
       (exists => kind = "accum") /\ Begin(t, kind, ks, exists)
  \/ \E kind \in budget.kinds \cap {"clear", "export"} : Begin(t, kind, {}, FALSE)
  \/ SelectTry(t) \/ SelectEnd(t) \/ SelectSize(t) \/ SelectPush(t) \/ SelectOccupy(t)
  \/ Prepare(t)
  \/ \E b \in Bucket : Write(t, b) \/ WriteFails(t, b) \/ Read(t, b) \/ ReadFails(t, b)
  \/ WriteEnd(t) \/ WriteThrow(t) \/ WriteError(t) \/ FindEnd(t)
  \/ ClearNext(t) \/ ExportSize(t) \/ ExportAlloc(t) \/ ExportScan(t)
  \/ BucketsEnd(t) \/ BucketsFail(t)

Finished == phase = "down" /\ starts = budget.starts /\ DOMAIN jobs = {} /\ UNCHANGED vars

Next == \/ StartUp \/ Copying \/ Stop \/ Crash
        \/ \E b \in Bucket : Expire(b)
        \/ \E t \in Threads : Calling(t)
        \/ Finished

Spec == Init /\ [][Next /\ budget' = budget]_vars
-----------------------------------------------------------------------------
Phases == {"down", "persist", "recreate", "drop", "duplicate", "check", "remove", "up"}
Contents == [Keys -> Seq(0 .. budget.calls)]

(* The types; a thread past SelectAvailableThreadContext has a context of  *)
(* its vector, and that context is occupied as long as threads have not    *)
(* raced for a new one.                                                    *)
TypeOK ==
  /\ redis \in [Bucket -> Contents] /\ ttl \subseteq Bucket
  /\ phase \in Phases /\ slices \in Layouts /\ slicesImport \in Layouts
  /\ todo \subseteq Bucket /\ DOMAIN jobs \subseteq Bucket
  /\ errorPtr \in BOOLEAN /\ met \in BOOLEAN /\ intact \in BOOLEAN
  /\ \A t \in Threads : call[t].pc \in {"prepare", "send", "throw"} =>
       /\ call[t].ctx \in 1 .. Len(contexts[Vector(t)])
       /\ ~ met => contexts[Vector(t)][call[t].ctx].occupied

(* A delta that is accumulated is added once: two calls never send from one*)
(* context, but for two races at the end of a vector: two threads come to  *)
(* it before either has a new context there, or a thread takes the context *)
(* that another has pushed and not yet marked.                             *)
AddedOnce(value) ==
  \A i, j \in DOMAIN value : value[i] = value[j] /\ value[i] # 0 => i = j
DeltaOnce == ~ met => \A b \in Bucket, k \in Keys : AddedOnce(redis[b][k])

(* A find returns for every key a value that the key had while the find    *)
(* ran, whatever else runs, or nothing where the read failed; but for the  *)
(* same races.                                                             *)
FindReal ==
  [][\A t \in Threads : call[t].pc = "send" /\ call[t].kind = "find" /\ call'[t].pc = "idle"
                         /\ phase' = phase /\ ~ met
       => /\ DOMAIN call[t].got = call[t].keys
          /\ \A k \in call[t].keys : \/ <<k, call[t].got[k]>> \in call[t].seen
                                     \/ call[t].failed /\ call[t].got[k] = << >>]_vars

(* error_ptr is shared, so a call may return the error of another.  But no *)
(* write is lost in silence: if a call whose command failed returns OK,    *)
(* another call has returned an error while it ran.                        *)
NoSilentLoss ==
  [][\A t \in Threads : call[t].pc = "send" /\ call[t].failed /\ call[t].kind # "find"
                         /\ call'[t].pc = "idle" /\ phase' = phase
       => call[t].excused]_vars

(* A failed read tells a trainer that a trained key does not exist.  An    *)
(* accumulation that believes it leaves what was learned as it is: it never*)
(* replaces a value, whatever its exist flags, but for the same races.     *)
AccumKeepsLearned ==
  [][~ met => \A t \in Threads : call[t].kind = "accum" /\ call'[t].pending # call[t].pending =>
       \A b \in Bucket, k \in Keys : IsPrefix(redis[b][k], redis'[b][k])]_vars

(* An export during which the table did not change has every item, as many *)
(* as its outputs have room for.                                           *)
ExportWhole ==
  [][\A t \in Threads : call[t].pc \in {"export", "scan"} /\ call'[t].pc = "idle"
                         /\ phase' = phase /\ faults' = faults /\ call[t].quiet
       => /\ \A i \in DOMAIN slices : call[t].size # 0 => call[t].got[i] = redis[slices[i]]
          /\ call[t].size = Cardinality({bk \in ToSet(slices) \X Keys : redis[bk[1]][bk[2]] # << >>})]_vars

(* A restart keeps the table, and so does one that moves it to other names *)
(* if every copy was made before the bucket it copies was removed.         *)
StartKeeps ==
  phase = "up" /\ DOMAIN jobs = {} /\ intact => \A k \in Keys : Value(k) = before[k]
=============================================================================
