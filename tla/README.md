# A verification of TensorFlow Recommenders Addons' dynamic embedding tables

Dynamic embeddings keep one vector per key in a hash table that training threads
read and write at once, that grows while it is used, and that is saved to and
loaded from files. This directory models that machinery in TLA+, checks it with TLC and proves
parts of it with TLAPS. `DE` below stands for
`src/tensorflow_recommenders_addons/dynamic_embedding`.

Run a check with `tlc -config X.cfg M`, a proof with `tlapm M.tla`. `PROJECT.json` lists the
runs, the source lines behind every definition, the mutants of the code that show what each property
can catch, the hazards, the findings and the theorems.

## 1. The system

| part | state | operations | what is hard about it |
|---|---|---|---|
| **Concurrent cuckoo map** `DE/core/lib/cuckoo/*.hh` | buckets of slots, old buckets, a list of arrays of spinlocks with an element counter and a migrated flag each | `find`, `insert_or_assign`, `insert_or_accum`, `erase`, `clear`, `size`, `lock_table`; doubling | every step is concurrent: optimistic snapshot of the size, cuckoo paths found without locks, lock arrays replaced while others wait on them, lazy migration |
| **CPU table** `DE/core/kernels/cuckoo_hashtable_op.cc`, `lookup_impl/lookup_table_op_cpu.h` (and `hkv_hashtable_op.cc`, the same code under another name) | one cuckoo map; files | batched find, insert, accum, remove, clear, import, export, save, load, sharded over worker threads | chunked save under training, crash and error between two files |
| **GPU HKV table** `hkv_hashtable_op_gpu.cu.cc`, `lookup_impl/lookup_table_op_hkv.h` | an external HierarchicalKV table, epoch and step counters, `mu_` | upsert, accum, export, save, load | eviction, epochs, files written without a rename |
| **GPU cuckoo table** `cuckoo_hashtable_op_gpu.cu.cc`, `core/lib/nvhash` | CUDA hash table | the same, older | CUDA kernels over vendored code |
| **Redis table** `redis_table_op.cc`, `redis_impl/` | hash buckets in a Redis server, thread contexts | pipelined find, insert, accum, delete; re-bucketing; export by HSCAN; dump by asynchronous I/O | partial failure, duplicated elements, remote state |
| **Tensor kernels** partition, stitch, segment reduction, fill | none | pure functions | keys, values, flags and indices divided by separate calls must stay together; results sized in two ways, rows that nobody writes |
| **Op registrations** `core/ops` | none | signatures | none |
| **Dynamic embedding variable** `python/ops/dynamic_embedding_variable.py` and the table wrappers | n tables, a partition function | upsert, accum, lookup, remove, export, save, load, restrict | routing keys to shards, a checkpoint of n shards restored into m |
| **Lookup and training** `dynamic_embedding_ops.py`, `shadow_embedding_ops.py`, `dynamic_embedding_optimizer.py` | trainable copies of looked-up values, slot tables, exists flags | lookup, apply gradient, write back | read-modify-write across steps and workers |
| **Restrict policies** `restrict_policies.py` | a status table per variable | update, restrict | variable, slots and status cut in separate ops |
| **Saving and restoring** `python/train`, `tf_save_restore_patch.py`, `warm_start_util.py` | checkpoint files | save, restore, warm start | ordering with training |
| **Keras layers, gradients, utilities** | none of their own | glue | none |

The ops call the kernels; a kernel shards a batch over the worker threads of the device, and each of
those calls the cuckoo map one key at a time; saves run on another thread
beside training. All sharing goes through the cuckoo map, so that
is where the verification starts.

What makes each part correct, in the order in which it is modelled:

1. **Cuckoo map.** Every call takes effect at one instant (a linearizable map); no key twice;
   every item where a lookup looks for it; one resizer at a time; nobody at work while somebody is
   alone; counters that add up; migration that never overwrites; every call returns.
2. **CPU table and its files.** A load never pairs a key with another key's value; a save holds what was
   there; the last checkpoint survives until the next is complete; every job ends.
3. **Redis table.** No key lost by re-bucketing; export complete; accumulation applied once.
4. **HKV on GPU.** Scores follow epochs; a failed load does not lose the table; a save is loadable.
5. **Sharded variables.** Every key in exactly the shard that is asked for it, before and after a
   restore into another number of shards; a save that returned can be restored.
6. **Restrict policies and training.** Status, slots and variable hold the same keys; no update lost
   between the lookup and the write-back, or which ones.

A variable's tables may be of any of the kinds; its operations call theirs, one per shard. So `ShardedVariable`
takes a table for a map whose operations are atomic, which is what `KvMap` promises of the cuckoo map and `mu_` gives the HKV
table; `TableFiles`, `HkvTable` and `RedisTable` say what becomes of a table beyond that.

## 2. The modules

| module | what it is |
|---|---|
| `KvMap` | what the map promises: a finite map, each call one atomic step between its call and its return |
| `CuckooMap` | `cuckoohash_map.hh` in `normal_mode`, step by step |
| `CuckooHash` | its hash arithmetic (`partial_key`, `index_hash`, `alt_index`), used by the instances only |
| `MCCuckooMap` | instances: keys with chosen buckets and workloads; checks `HashAssumption` for the arithmetic |
| `CuckooMapProofs` | every action preserves the types |
| `CuckooResizeProofs` | type correctness, one resizer at a time, which lock array covers the table, mutual exclusion between work on buckets and resizing |
| `CuckooDataProofs` | where items are, through moves, doubling and migration, that the table implements `KvMap`, and that its counters add up |
| `TableFiles`, `MCTableFiles` | the CPU table saved to and loaded from files, imported and exported, with crashes and errors |
| `TableFilesProofs` | types, the last checkpoint stays, keys stay with their values, saves are whole, imports replace |
| `RedisTable`, `MCRedisTable` | a table in a Redis cluster: starts, thread contexts, commands that fail, exports |
| `RedisTableProofs` | all that the run checks: errors, contexts, values, finds, exports, starts |
| `HkvTable`, `MCHkvTable` | a GPU table of bounded capacity: epochs, eviction, saves and loads by `RandomKVFile` |
| `HkvTableProofs` | types, capacity, epochs, that pairs stay real, saves are snapshots, a load replaces |
| `ShardedVariable` | a variable over processes and devices: lookup, gradient, write-back, slots, restrict policies |
| `BatchRouting` | how a batch is divided over shards, looked up and stitched together, through distinct ids and between Horovod ranks: operators, no state |
| `BatchRoutingProofs` | that this is the same as key by key |
| `Checkpoints`, `MCTraining` | extends `ShardedVariable` by the saves of all its processes, restores into other worlds, crashes |
| `TrainingProofs` | all that the run checks of the two: keys in their shards, no update lost, slots with values, restrictions, restores |

### CuckooMap and the code

A step of a thread is what it does while it holds its locks, or the taking of one lock, or one read
made without a lock. So the interleavings modelled are those that the locks allow.

| code | model |
|---|---|
| `buckets_`, `old_buckets_` and their `hashpower_` | `buckets`, `hashpower`, `oldBuckets`, `oldHashpower` |
| `all_locks_`, a list of arrays | `curLocks` (the last), `holder` and `counter` by array and index |
| `is_migrated()` of the last array | `migrated`; `num_remaining_lazy_rehash_locks_` is `remaining` |
| the stack of a call | `pc`, `op`, and `frame` (hashpower read, lock array, locks still to take, BFS queue, path) |
| `snapshot_and_lock_two`, `lock_two`, `lock_three` | `Snapshot`, `PickLocks`, `LockFirst` with `check_hashpower`, `LockNext`; `rehash_lock` is `Rehashed` and `RehashFlags`, part of the step that holds the locks |
| `find_fn`, `erase_fn`, `cuckoo_insert`, `uprase_fn`, `accumrase_fn` | `FindBody`, `EraseBody`, `InsertBody`, `Upsert` |
| `slot_search`, `cuckoopath_search` | `Search`, `Trace`, one bucket a step |
| `cuckoopath_move` | `HopBody`, `LastHopBody` (three locks), `PlaceBody` (depth 0) |
| `cuckoo_fast_double` | `StartGrow`, `LockAll`, then `GrowThrows`, `GrowTooLate`, or `GrowLocks`, `GrowSwap`, `GrowInstall` |
| `clear`, `lock_table` | `LockAll`, then `ClearBody`, `DumpBody` |
| `LockDeleter`, `TwoBuckets`; `AllUnlocker` | `Unlock`, part of the body's step; `UnlockAll`, then `UnlockNext`, one lock or one `++it` a step |
| `size` | `Scan`, one counter a step, no lock |
| `move_bucket` | `GoesUp`, `Staying`, `Raised`, `Migrate` |

`GrowSwap` is a step of its own because `old_buckets_.swap(buckets_)` publishes the hashpower of the old
container, which other threads read without a lock, before the new container is installed. Within it the buckets and
the two hashpowers change together; other threads read only the hashpower at that point.
`AllUnlocker` releases lock by lock and asks for the next array when its last lock is free. Another thread may have all the locks by then, have appended an array, locked, and be doubling;
`UnlockNext` then goes on to that array and unlocks it, as `spinlock::unlock` asks nobody whose the lock is. The history variable `strayed` records it. After that nothing protects the buckets, so the
properties of a table that replaces its lock array end in `UntilStray`: this, and the stale waiter of section 3, are the two ways out of them.
Approximations: `lock_one` (lock, read, unlock) is one step; `get_current_locks()` in the
bodies is the array the thread has locked or, for a stale thread, the last one, as in the code;
`memory_order` is sequential consistency; allocation never fails; `mapped_type` is nothrow movable, as every type
used here is, so `cuckoo_expand_simple` is not reached. The BFS queue's `pathcode` is a root and a
sequence of slots.

`KvMap` is the abstract specification, and `KvSpec` (`INSTANCE KvMap WITH map <- Contents`) the
refinement: the abstract map is what the current buckets hold, and the old buckets of locks not yet
migrated. It says in particular that cuckooing, doubling, migration and retries change nothing for
the callers; that an insert that throws has no effect; that `lock_table` sees one instant. `size()` is left to
answer any number in the bounds, because the code promises no more.

### TableFiles and the code

`SaveToFileSystemImpl` is one action per file system call and per `dump()`; `LoadFromFileSystemImpl` one per record.
`table` is the sequence of items in the order in which `lock_table()` iterates. A call
for a key that is not there may reorder it (cuckooing, doubling), even an `insert_or_accum` that in the end adds nothing.
A file has a written length and a length that survives a crash; `Crash` empties the table and
may cut the two open files anywhere between the two; `Fail` is a call of the file system that returns an
error. Temporary files are used where the file system does not have an atomic move, and there a rename is a copy (`SaveCopyKeys`, `SaveCopyValues`: any part of the file may be at the new name) and then the end of
the old name; a crash or an error may come between. A save or load is one at a time, as a saver runs them. `size()` is exact here: in
the code it may be off while other threads insert or remove keys, or move them from lock to lock (`cuckoo_size`). `SavedWhole` promises no completeness after calls that add or remove keys. A
`size()` that counts too many keeps the save's loop from ending just as removed keys do: `JobsEnd` says nothing of that second reason, as no table here is sized while it is changed.

`ImportValues` is `ImportClear`, then `ImportNext` for each key, while others train; `ExportValues` reads the size, then dumps
(`ExportDump`). Where an export has no item
by then, its tensors have uninitialised memory, which may look like any item (`short`).

### RedisTable and the code

| code | model |
|---|---|
| the hashes `prefix{slice}` in the server, their expiry | `redis`, `ttl`; a hash without fields is no key |
| the constructor's decision (`redis_table_op.cc:430-500`) | `Plan`: take the buckets as they are, copy them to new names, or re-create them in another number |
| `ReCreateTableBuckets` | `Recreate`, `RecreateEnd`, then `Drop`, `DropEnd` |
| `DuplicateInRedis`, whose jobs run on the connection pool and are not waited for | `Duplicate`, `DuplicateCheck`; the jobs `JobDump`, `JobRestore`, `JobFails`; then `Drop` |
| `SetPersistBuckets`, `SetExpireBuckets` | `Persist`, `Stop`; `Expire` is the server's |
| `SelectAvailableThreadContext` | `SelectTry` (one `compare_exchange` each), `SelectEnd` (the loop ends), `SelectSize` (the id is that of the end, or of a context pushed meanwhile), `SelectPush` (a context that nobody occupies), `SelectOccupy` (the store to `back()`) |
| `HandleReserve`, `HandlePushBack` | `Prepare`: the context holds the request, and whoever sends from it sends that |
| `PipeExecWrite`, `PipeExecRead`, a command per bucket | `Write`, `WriteFails`, `Read`, `ReadFails` |
| `error_ptr`, read and reset after the join | `WriteEnd`; `WriteThrow`, `WriteError` |
| `Clear`, `ExportValuesToTensor` | `ClearNext`; `ExportSize`, `ExportAlloc`, `ExportScan`, a bucket each |

A value is the sequence of the calls that made it, so a delta added twice shows. A failing write may have reached the server or
not. `met` records that two threads have raced for a new context: both came to the end of the vector before either had its own, or one took, by `compare_exchange`, what the other had pushed and
not yet marked. In these races contexts are shared, and in no other. The vector's storage is not modelled: a `push_back` may move it under a thread that reads it, which then finds the same pointers in the old storage or
ends the process (`Crash`); of two `push_back`s at once, one may be lost, which `met` excuses. `before` and `intact` what a restart should keep. The server, expiry, and `HMACCUM` are modelled by what
they do; the module command's source is `third_party/redis_module`.

### HkvTable and the code

`mu_` makes every operation one step, but for the two that do file operations in between: a save (`SaveOpen`, then `SaveKeys`
and `SaveValues` for a chunk, `SaveClose`) under the shared lock, and a load (`LoadClear`, `LoadOpen`, `LoadNext`) under the exclusive
one. `Evicted` lets the library evict any keys, from any table, that leave `BucketSize` others: it evicts from one full bucket of `max_bucket_size` keys, hence before the table is full as well. With an epoch strategy these are of no
earlier epoch than the evicted; with the others (`kLru`, `kLfu`, `kCustomized`) the epochs say nothing, nor does `StepOn` advance them (`epoch_evict_strategy`). Errors of `RandomKVFile` are logged and
the work goes on, so an append may be missing in the middle (`holes`), a read of keys ends a load (`LoadStopsShort`), and one of
values leaves the last chunk's in the buffer (`ValuesRead`). `Visible` is false where a save goes to a `.tmp` file, which no load opens.

### ShardedVariable, Checkpoints and the code

| code | model |
|---|---|
| `default_partition_fn`, first over processes, then over devices | `Home` |
| `Variable.lookup`, `upsert`, `accum`, `remove` | `Has`, `Put`, `UpdateVar`, `Cut`, one shard at a time |
| `prefetch_values`, the gradient, `update_op` | `Lookup`, `ReadSlot`, then `UpdateVar`, `UpdateSlot` in either order |
| the exists flag that a shadow variable's slots share with it | `shadow` in `ReadSlot` |
| `bp_v2` of the variable, and that of its slots, which is the optimizer's (`slot_bp_v2`) | `accum` of a difference instead of `upsert`, of each for itself |
| `apply_update` of the policies | `Stamp`, `UpdateStatus` |
| `apply_restriction` | `Restriction`, then per shard `Export` and one `CutTable` per table |
| `DECheckpoint._de_hvd_write_fs_func` | `SaveStart`, `WriteFiles` of rank 0, `RankZeroEnd`, `WriteFiles` of the others, `Sweep`, `SaveEnd` |
| `load_de_variable_from_file_system` | `Restore`: `Directly`, `OwnFile` or all the files, of whose keys `Mine` are kept |

A value is the set of updates in it; a status is a time or a count. File names are what they identify: table, shard, world. A
process writes its files in one step, `TableFiles` has the tearing of one. Batches are one key: that a batch reaches
its shards key by key, and is answered so, is proved in `BatchRoutingProofs`. The TensorFlow checkpoint, its state file (written early or late, depending on the release: `early`) and its manager are external.

### BatchRouting and the code

`dynamic_partition` is the kernel's loop without the loop: row `i` of a batch goes to row `Slot` of its output, its rank among the rows that go there (`output_index`);
`RowOf` is the way back, and `make_indices` partitions the row numbers. `IsStitch` is a relation, not a function: inputs with the same index race for it in the parallel kernels, and a row
without an index is left uninitialized. Its result is as long as the largest index (`UpToMaxIndex`) or, in the fast GPU kernel, as there are indices (`AsManyAsIndices`).
`IsLookup`, `Upserts`, `IsUnique` with `gather`, and `HvdLookup` (`__alltoall_embedding_lookup__`, whose `scatter_nd` would add rows up) are built from these; each rank's, shard's and row's default value may differ,
as a random initializer's do. `ShardedVariable` may therefore take one key at a time. Its `Home` is `default_partition_fn` for the sizes of `MCTraining` (`HomeIsDefaultPartition`).

## 3. What is checked

Every property of a passing run has a mutant: a plausible bug in one mapped definition, kept in the
module next to it (`HasKeyAtFirst` beside `HasKey`, ...), under which TLC finds the property violated.

| run | instance | shows |
|---|---|---|
| `cuckoo_chain` | 2 threads, 4 keys, 4 buckets of 1 slot, no doubling, 6 calls | cuckoo paths of up to 3 buckets against a thread inserting and erasing on the path |
| `cuckoo_grow` | 2 threads, 3 keys, 2 to 4 buckets, 2 to 4 locks, 5 calls | one doubling with a new lock array, met by every other kind of call |
| `cuckoo_lazy` | the same with 2 to 8 buckets, 2 locks throughout | up to two doublings, migrated lazily; the second before the first is done |
| `cuckoo_slots` | 2 slots a bucket, 4 keys, 2 to 4 buckets | slots chosen as the code does (last free one; BFS order), `clear`, `size`, exceptions |
| `table_files` | 2 keys, 2 values, chunks of 1, 3 writes, 3 jobs, 1 crash or error | saves and loads torn at every step |
| `redis_table` | 3 threads, 2 keys, 2 buckets under 2 sets of names, 1 context at first; 3 calls of one kind, or 2 of any, 2 starts and 1 fault | contexts, failing commands, restarts |
| `hkv_table` | 3 keys in a table of 2 and buckets of 1, with and without an epoch strategy, 2 steps an epoch, chunks of 1, 2 writes, 3 jobs, 2 faults | eviction, saves and loads with lost reads and appends |
| `training` | five budgets: 2 trainers of one key, with and without a restriction; a restriction of 2 keys on 2 devices; 2 saves and 1 crash, or 1 save and 2 crashes, in worlds of 1 or 2 processes or devices | training, restricting, checkpoints |

The properties:

- `KvSpec` (in `cuckoo_grow`, whose table replaces its locks, `KvSpecUntilStray`): the refinement above.
- `NoDuplicateKey`: a key is in the table at most once, counting old and new buckets.
- `EveryItemInItsBucket`: every item is in one of the two buckets its hash gives at the hashpower of its container.
- `CountersAddUpUntilStray`: the counters of the current locks add up to the number of items, although each alone is wrong after a cuckoo move.
- `LocksProtect`, `OneResizerUntilStray`, and their inductive reasons `LocksHeld`, `ResizersHoldUntilStray`: who may be at work at the same time.
- `MigrationIsSafe`: no bucket is migrated into that is not empty, and as many locks remain as are counted.
- `EveryCallReturns`: no deadlock, no livelock, under the fairness below.
- `PairsAreReal`: no load pairs a key with a value that training never gave it.
- `SavedWhole`: a save that ends has saved only items that were there while it ran, and, if no key came or went, each exactly once.
- `CheckpointStable`: with temporary files, what a load would restore changes at the renames only, torn or whole.
- `ImportReplaces`: an import leaves the keys of the export and no others, unless training adds or removes keys while it goes on.
- `JobsEnd`: a save or load ends, or hangs for the one reason the formula names: keys were removed after the save read the size.

Of `RedisTable`:

- `DeltaOnce`: no delta is added twice to a value, whatever threads compete for contexts; outside the races of `met`.
- `FindReal`: a find gives values the keys had while it ran, or the default where a read failed.
- `NoSilentLoss`: a call whose write failed returns an error, or another call has returned one while it ran.
- `AccumKeepsLearned`: an accumulation that was told wrongly that a key is new never replaces the value.
- `ExportWhole`: an export of a table that nobody changes meanwhile has every item.
- `StartKeeps`: a restart keeps the table; under other names too, as long as every copy was made before its source was removed.

Of `HkvTable`: `EpochsCountUpserts` (with an epoch strategy the number of upserts decides the epoch, whatever is loaded, cleared or accumulated; with another it stays);
`PairsAreReal` (one loss on one of the two files never pairs a key with another key's value: the sizes differ); `SaveIsSnapshot` (a save
is the table of one instant); `LoadReplaces` (a load, failed or not, leaves nothing of what was there).

Of `ShardedVariable` and `Checkpoints`:

- `TypeOK`: every key is in its `Home`, in tables and in files.
- `UpdatesKept`: with `bp_v2`, no update of a key that was there throughout is lost, whoever else trains or restricts.
- `RestrictTrims`: a restriction beside which nobody trains leaves as many keys as reserved, the same in variable, slot and status, and the most trained.
- `SlotsFollow`: a key has a value exactly if it has a slot, unless somebody is training or removing it just then; whoever trained it together, before or after which restriction. It excepts
  the keys that were trained while a restriction was removing them (`beside`), which the code may leave in one table alone, and what follows a restore from torn files.
- `RestoreExact`: what a save that returned has saved is restored, whatever crashed in between, into any world. A save of the same step, once begun, overwrites the earlier one, which `SaveStart` takes out of `saved`:
  nothing is promised of it any more.

**Why the bounds are enough.** Two threads suffice for the races the code guards against: each is
between one call and one that invalidates what it has read. One slot a bucket makes a table full with few keys,
so that cuckooing and doubling happen early; the hashes are chosen so that chains of length three exist and so that a doubling separates
keys. `cuckoo_slots` covers what one slot hides. `MaxNumLocks` of 2 or 4 puts both branches of `maybe_resize_locks` and of
`cuckoo_fast_double` within reach (the code has 65536). `MaxBfsPathLen` is 3 for the code's 5: a path then has zero, one or two
moves, the three cases `cuckoopath_move` tells apart. `LoadFactorInverse` is the default's 1 / 0.05. All actions fire in the passing runs. For files, one
crash or error is enough to tear any two of the nine steps apart; a second save shows what it finds. In `redis_table`, three threads are the
least for which one finds a context freed while another appends and a third waits at the end; two buckets the least for a call that half fails. In `hkv_table`, two faults
let a loss on one file follow one on the other, which is as much as `PairsAreReal` excepts. In `training`, worlds of one and two processes or
devices give every case of `Directly`, and two crashes a crash during a save after a restore. The budgets are separate so that each kind of
interference is complete within its own bounds; `Budgets` names them.

**Fairness.** A worker thread in a call is scheduled again and again and spins on a lock until it gets it; nothing else is
assumed. `Fairness` is weak fairness of each thread's steps, written with the explicit condition `Ready`
under which a step is possible. Since lock holders release after one body, no strong fairness for locks is needed in these instances, whose calls are
bounded by `MaxOps`: that is also the limit of the claim, since an unfair spinlock under an unending stream of calls may starve a
thread. `TableFiles` assumes that a save or load goes on while it can; training is not assumed to do anything.
`RedisTable`, `HkvTable` and `Checkpoints` state safety only and assume no fairness. `training` alone is checked without deadlock: the processes may stop
with their budgets used up at any place.

### What the code does not do

Four runs expect a violation, each of something the repository says of itself:

- `cuckoo_stale` (`NobodyElseLocks`): the comment at `cuckoohash_map.hh:1209`, "Once we have taken all the locks of the "current"
  container, nobody else can do locking operations on the table." A thread that has read the hashpower h and the lock
  array, and then waits through a whole doubling, still goes for a lock of the replaced array. The next doubling starts `lock_all` at the *new* array; its
  `old_buckets_.swap(buckets_)` makes `hashpower()` h again for a moment; the thread takes the stale lock, passes `check_hashpower`
  and works on buckets that are being replaced. It takes a thread delayed between two instructions through two doublings, in a table
  still below 65536 buckets. `NoStaleWaiter` says that no thread is about to do this. A table that doubles at most once (`cuckoo_grow`, `cuckoo_slots`), or
  that has all its locks from the start (`cuckoo_lazy`), is free of it (`NoStaleWaiters`); that is why the other properties are checked there, and why the theorems that need it say so.
- `cuckoo_stray` (`NewLocksStayTaken`): the comment at `cuckoohash_map.hh:1937`, of the array that `maybe_resize_locks` appends: "It is the responsibility of the caller to unlock all locks taken, including the new locks, whenever it is done
  with them". A thread that has dumped, cleared or doubled releases its last lock; another, waiting in `lock_all`, takes it, appends an array and moves buckets; the first asks whether there are more arrays, finds that one, and
  unlocks it. Two threads and one doubling suffice, in a table below 65536 buckets. Tables born with all their locks are free of it (`NothingStrays`).
- `cuckoo_size` (`SizeNotNegative`): `assert(s >= 0)` at line 369. An item counted out of one lock and in at another, between two reads of `size()`.
- `table_append` (`AppendKeepsRecords`): "If true, operation will append data to the file but not write a new one." With a temporary file it appends to a new one and renames it over the old.

Seen while modelling, and not runs: `PairsAreReal` excepts a crash or error between the two renames, after which new keys are loaded with old values if
there happen to be as many; `JobsEnd` excepts a save during which keys are removed, which never ends; `PairsAreReal` also an export during which keys were removed; `check_resize_validity` tests the load factor before it looks whether another
thread has already doubled, so that an insert may throw when a retry would succeed; `num_remaining_lazy_rehash_locks(0)` returns before it would free
the old buckets, so `clear()` keeps them, against the comment at 2091.

- Redis: `ReCreateTableBuckets` passes the insert the pointers it has advanced to the end of its tensors, so that what is written to the new buckets is other memory, and
  removes the old buckets all the same (`redis_table_op.cc:645-675`; `redis_impl/README.md:80` has the number of slices changed this way). `Recreate` inserts arbitrary keys. A
  copy that `DuplicateInRedis` has started may find its source removed (`StartKeeps` excepts it). `SelectAvailableThreadContext` takes a mutex and never locks it.
- CPU table: the comment at `cuckoo_hashtable_op.cc:889` says "Clear the table and insert data from FileSystem."; the load inserts and does not clear (`LoadNext`). The GPU table of `hkv_hashtable_op_gpu.cu.cc` does, even if the load then fails,
  which loses what was there.
- HKV: nothing renames the `.tmp` file; two losses on the two files can make their sizes agree again.
- Python: when `num_reserved` is less than the number of shards, the integer division leaves none, and with skewed shards fewer than `num_reserved` stay. The status tables of
  other processes than the first are not saved, so keys whose status is lost are not evicted again until they are trained. With `early`, a crash leaves a state file that names a checkpoint
  without the files of other processes. A crashed save of the same step in another world leaves files that the next save of it does not remove: `RestoreExact`
  excepts these (`alone`). A load merges into what is there. `_delete_redundant_de_dir` also removes directories of other prefixes beside its own.

## 4. What is proved

All theorems hold for any values of the constants that satisfy the assumptions of the module, which TLC evaluates on every instance. A theorem that names a
property of a run proves that property as it stands; an argument is by an inductive invariant, whose parts have names in the proof modules.

### The cuckoo map

`CuckooMap` has four assumptions: `SizesAssumption` (sizes are naturals, `HashSize` doubles), `ValuesAssumption` (types of the constants), `HashAssumption` (indices are
masked, `alt_index` is its own inverse and grows by one bit at the top) and `LocksAssumption` (once there are as many buckets as locks, a doubling leaves every
item under its lock). `MCCuckooMap` checks `HashAssumption` for the code's arithmetic, all 256 partial keys, tables of up to 16 buckets.

What holds of any table that replaces its lock array holds until an unlocking has gone on to a foreign array (`strayed`), and the theorems say `strayed \/ ...`. They have one name in each of three forms: `...UnlessStale` for any number of doublings, given `NoStaleWaiter`;
`...UntilStray` for tables that double at most once (`DoublesAtMostOnce`), where it follows; and plain for tables built with `kMaxNumLocks` buckets or more (`AllLocksFromTheStart`), which have one array and where nothing strays (`NothingStrays`).

- **`Typing`, `Invariant`, `ResizersKeepTheirLocks`, `ResizesAreExclusive`** (`CuckooResizeProofs`). The inductive invariant is `strayed \/ IInv`, `IInv == TypeOK /\ ResizersHold`; types alone are kept after a stray unlock too (`Typing`). `OneResizer` alone is
  not inductive: that two threads are never alone at once needs to know that one that is alone has every lock of the *last* array and of the array it began with, which needs that `lock_all`
  keeps what it has taken and cannot finish while arrays have been appended, and that who releases locks frees none but its own (`Owns`): here `strayed` enters, and nowhere else. That an appended array exists at all as a value of `curLocks` needs the relation
  between its index and the hashpower, which `ResizersHold` also states. `TypeOK` carries, besides types, the facts about a thread's place
  that the bodies rely on (a path is not empty when a move begins, the queue is not empty when searched). `CuckooMapProofs` has one lemma per action on the
  types; `CuckooResizeProofs` adds the locks.
- **`LocksCoverTheTable`** (`CuckooResizeProofs`), without a further hypothesis: `GrowInv`, inductive, which says of any number of doublings, each of which may append an array, that the last array has a lock for
  every bucket of the table, or of the one being installed (`Grown`), and of a doubling under way that it holds every array since the one it began with (`Sweeps`). A thread never has a hashpower that the
  table has not reached (`Behind`), and one that waits at an array since replaced has read a hashpower below the table's (`Late`), which is why `check_hashpower` sends it away at all times but one:
  between `old_buckets_.swap(buckets_)` and the installation, when `hashpower()` is that of the old container before.
- **`MutualExclusionUnlessStale`, `MutualExclusionUntilStray`, `MutualExclusion`**: `LocksProtect` in the three forms. `NoStaleWaiter` is the exception just named and no more: no thread waits, at that moment, for a lock of an array older than those the doubling took,
  with the very hashpower that shows. `LockInv` adds to `GrowInv` that a thread at its buckets has one lock of the last array at least, all those it went past, and the table's hashpower; it is inductive given
  `NoStaleWaiter`. So there are two ways out of mutual exclusion, and a run goes through each: `cuckoo_stale` and `cuckoo_stray`. **`NoStaleWaiters`** closes the first for tables with one array and for those
  that double at most once (the one doubling takes the first array too, so no array is older than those it took). `ThreadsHoldTheirLocks` is `LocksHeld`, for one array.
- **`TableStaysSoundUnlessStale`, `TableStaysSoundUntilStray`** (`CuckooDataProofs`): `EveryItemInItsBucket`, `NoDuplicateKey` and `MigrationIsSafe` in the first two forms; **`ItemsStayInTheirBuckets`, `KeysStayUnique`,
  `MigrationStaysSafe`** are these in the third. A thread at its buckets holds the locks of *both buckets of its key*, or of every bucket its move touches, and the path it follows is one its key can
  make (`Plans`, `Works`). `DataInv` adds to `LockInv`: `Filled` (in the current buckets, less those yet to migrate, and in the old buckets that remain, an item is in one of its two
  buckets and no key is there twice) and `Shape`, the course of a doubling: while anything is pending the current buckets are twice the old ones, at least as many as `kMaxNumLocks`, buckets under a pending
  lock are empty, and `remaining` counts the pending locks. A doubling of fewer buckets moves everything at once, which is the same lemma (`MigrateGood`) for all the locks. One lemma says what happens to the stored items when an item
  is added, dropped, moved or migrated.
- **`TableIsAMapUnlessStale`, `TableIsAMapUntilStray`, `TableIsAMap`** (`CuckooDataProofs`): `KvSpecUntilStray`, twice, and `KvSpec`, the refinement. `Contents` is a choice over places; from `DataInv` it is the map of the pairs stored (`ContentsAreStored`), each key
  having one. Then each step of a thread finds, adds, replaces or removes pairs as its call says at one moment, or leaves the pairs as they are (`Effect`), and so is a step of `KvMap` or none.
- **`CountersAddUpUnlessStale`, `CountersStayExactUntilStray`, `CountersStayExact`** (`CuckooDataProofs`): `CountersAddUpUntilStray`, twice, and `CountersAddUp`. `MapThenSumSet` is a function defined by recursion on the subsets of a set, whose elements it takes one by one;
  what is needed of it is proved from the smallest subset for which it would fail, without an induction theorem: the order does not matter (`SumTake`), zeros add nothing (`SumWithZeros`), and one entry more or less
  changes the sum by as much (`SumChange`). Places and items are as many, no key being in two places (`StoredCount`). `CountInv` adds to the invariant above that the counters of arrays not yet made are zero (`Unused`), which makes the copy
  of a doubling exact where the new array has more locks than the old. A step then changes one counter of the current array by as much as its effect changes the number of items.

### The files of the CPU table

- **`TypeCorrect`, `LastCheckpointStays`, `NoFalsePair`** (`TableFilesProofs`), under `FilesAssumption`. `TypeInv` adds to the types which files are there at each place of a
  save (`PlaceOK`). `Durable` is why the last checkpoint stays: with temporary files, what a load opens is synced as a whole, since both temporary files are synced before the first
  is renamed; so a crash cuts nothing off (`FilesStay`), but what a copy has of it: that one is at the renames. `NoFalsePair` assumes in addition `~ AppendToFile`: then a save begins its two files anew, and `InStep` says by how much the
  keys are ahead of the values at each place, so that what is appended to one meets its own in the other (`KeysAligned`, `ValuesAligned`) and a crash, which only shortens
  files, pairs no key with another's value (`ShorterAligned`). `AllReal` is inductive beside these: all pairs in the files, the buffers, the tensors and the table were written.
  Appending to files of which a crash has shortened one puts the same position of the two out of step: the assumption is where the argument needs it.
- **`SavesAreWhole`**, also under `~ AppendToFile`. `SaveReads` says what a save has read at each of its places: `search_offset` counts the records written and those in the buffer
  (`Counted`), each of them was in the table since the save began (`Recorded`), and as long as no key came or went they are the table's first, in its order (`InOrder`), because a call
  for a key that is there moves no item (`AssignedStays`). The loop ends with an offset of at least the size, hence of exactly the size. No assumption relates the size of the buffer to that of the table.
- **`ImportsReplace`** needs no such assumption. `Imported`: the keys in the table are those of the records imported so far; `insert_or_assign` adds its key and loses none, also when it
  reorders the table (`AssignedKeys`, and `SeqsOfSetAll` by counting).

### The Redis table

All under `RedisAssumption`: finitely many keys, hashed to naturals; bucket names that differ within a layout; budgets that are naturals.

- **`NothingSilent`**. The argument is `ErrorInv`, inductive (`ErrorsKept`): a call with a failed write has `error_ptr` set or is
  excused, `error_ptr` being reset by nobody but a call that returns an error, which excuses all that run; together with where each thread is, and that a
  kernel under construction has no calls.
- **`CallsKeptApart`, `TypeCorrect`**. `CtxInv`: as long as no two threads have raced for a new context of a vector (`met`), the context of a call that uses one is occupied,
  no other call of the vector uses it, only one is past the end of the vector and not yet owner of a context (`Appending`), the context it has pushed and not marked is the last, and nobody else's; and what a call sends is its own command. That a context is occupied does not
  suffice, nor that two differ: `SelectAvailableThreadContext` must be seen to take only free ones, `push_back` to give the place that was looked at, and the store to mark that place.
- **`DeltasAddedOnce`, `AccumulationsKeep`**. `ValuesInv` (`ValuesKept`): each value is a sequence of calls that have begun, none twice, and none that a running accumulation
  has still to send to that key's bucket; so an answered command is what may not be sent again. It holds in dumped copies too, which a restart writes back.
- **`FindsAreReal`**. `FindInv` (`FindsKept`): a find has seen what its keys are now, and has answers for the keys of the buckets that have answered and no others.
- **`ExportsAreWhole`**. `ExportInv`: while nothing has changed, the size is that of the buckets counted, and the buckets scanned are as they were read. It counts with `Cardinality`, hence finite `Keys`.
- **`StartsKeep`**. `KeepInv`: while nothing excuses a loss (`intact`), every item of the last process is under the buckets in use, or, when it is being moved, each old bucket is still
  there, in a dumped copy, or under its new name. That new and old names are disjoint is what the constructor's `Plan` guarantees and the argument needs.

### The HKV table

Under `HkvAssumption` and `ContentsAssumption` (a file is not the absence of one, and memory left over is not a value written).

- **`TypeCorrect`, `EpochsCounted`**. `TypeInv` adds to the types that a table, however many keys are assigned at once, is cut to its capacity
  (`EvictedFits`), that the order of a save and the rest of a load are sequences of keys, and that the buffer has a value for every key of a chunk.
- **`PairsStayReal`**. `PairInv`: while at most one kind of loss has come between the records, the two files agree record by record, but for the chunk whose keys are written and values are not;
  or the one with the losses is shorter and, the sizes being different, does not load; or a crash has cut them and they agree as far as both go. The four cases are what makes the exception of the property exactly right:
  with two kinds of loss the sizes may agree again.
- **`SavesAreSnapshots`**: what is written, followed by what is still to do, is the table, each key once.
- **`LoadsReplace`**. `LoadedOnly` is inductive beside `TypeInv`: while a load runs, the table holds pairs of the files only, and what is left to
  read is the rest of the file from where the table's pairs end.

### Training and checkpoints

All in `TrainingProofs`, under `VariableAssumption` (finitely many keys, which are naturals; worlds of at least one process and one device): for any number of trainers, of processes and
devices, and of crashes into any worlds.

- **`KeysInTheirShards`**. `TypeInv` is `TypeOK` with the shapes of a training step, of a restriction (the keys it cuts are of its shard) and of files (their keys are of the shard they name, in the world they name); and that
  nothing trains or restricts while a save runs. A restore into another world is then right because a shard keeps of a file's keys its own.
- **`UpdatesAreKept`**. `UpdatesInv`: beside `kept[k]` being in the value, a call that counts on its key found it, and the key is there still; a restriction that removes it, ends that. So an
  accumulation that takes the wrong branch of the exists flag is never one that counts.
- **`SlotsFollowValues`**. `PairedInv`: a key that has one of the two only is in a call that is about to put the other (`Paired`); what a call has found of its key, in one
  table or the other, and what it has put, is still there (`CallKnows`); a table that a restriction is done with has none of its keys, and nobody is training these (`CutAway`). All of this is about keys that were never trained beside their removal, and holds whatever trains
  together: two calls of one key may each leave the other table to the other. `SlotInv` adds that a finished save has the same keys in both.
- **`RestrictionsTrim`**. `MeritInv`: without races (`AloneInv`: until `raced`, no two calls are at one key, and none beside a restriction) a key's status is its merit, or is about to be written so. `TrimInv`: in a restriction beside which nobody trains, the tables of a shard
  have the same keys apart from those that go, a table that is done has none of these, and the rest are as many as `partial_reserved` and of higher merit. It counts the rest as `top_k` does, so it needs finite `Keys`.
  The property speaks of steps that leave the budget alone: a crash also ends a restriction, with none of its promises, and is told apart by the crash it uses up.
- **`RestoresAreExact`**. `SavingInv`: while a save runs, each process that has written has its files in the directory as its tables are, and no others of their names. `SavedInv`: a save that is done, is
  indexed and was alone in its directory has one file for each shard of one world, which have its entries between them (`Whole`). Both ways of reading them then give the entries: file by file if the world is
  the same, by `Home` from all files if not (`RestoredTable`). That only `save` sweeps, and what is in the index is not swept, keeps it true through crashes.

### Routing of batches

- **`LookupIsKeyByKey`, `UpsertsArePairs`, `UniqueLookupAgrees`, `HvdLookupIsKeyByKey`** (`BatchRoutingProofs`), for batches of any length with any repeats, any routing and any number of
  shards. Rows of one output have different slots (`SlotsDiffer`, since slots ascend), and there are no more slots than rows, so each is filled (`SlotsFilled`, by counting); hence the
  indices hold each row of the batch once (`WrittenOnce`), both ways to size the result agree (`SizesAgree`), and nothing that `IsStitch` leaves open happens
  (`StitchInvertsPartition`). The lookups follow. They assume a routing to shards there are, which `EveryKeyHasAShard` gives for `default_partition_fn`. On small batches `MCTraining` evaluates that
  `dynamic_partition` is the loop of the kernel and that what the theorems say is returned can be returned (`PartitionIsTheLoop`, `LookupReturns`).

### Only model-checked

- Liveness under fairness, `EveryCallReturns` and `JobsEnd`: outside what the prover handles. Every invariant and every action property of a passing run has a theorem, with the condition it needs, if
  any, among its hypotheses: no stale waiter (or a table of the two kinds that have none), files that are written anew.
- The hash arithmetic itself (`CuckooHash`, exclusive or of bits): the proofs assume of it `HashAssumption`, which `MCCuckooMap` evaluates.

## 5. What is not modelled

- CUDA kernels and vendored code (nvhash, cub, the Redis client), op signatures, Keras glue and platform utilities: they hold no protocol of this repository's own.
- The dump of whole Redis buckets to files by asynchronous I/O: what it writes is an opaque string of the server.
- GPU exports (reads under the shared lock), `load_entire_dir` of the GPU table.
- `DEHvdSaver`, the older saver without joins, and warm start, which reads another checkpoint once.
- Combiners, ragged and safe look-ups, segment reduction and fill, clipping by norm: arithmetic on what a look-up has read. Of the gradients, the partition's only.
- Batches in which one key occurs twice, when they are written (`BatchRouting` has how they are divided and looked up); the tearing of one process's files within `Checkpoints`.
