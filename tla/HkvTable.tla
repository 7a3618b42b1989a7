------------------------------- MODULE HkvTable -------------------------------
(***************************************************************************)
(* A HierarchicalKV table on a GPU: HkvHashTableOfTensorsGpu               *)
(* (core/kernels/hkv_hashtable_op_gpu.cu.cc) over gpu::TableWrapper and    *)
(* RandomKVFile (lookup_impl/lookup_table_op_hkv.h).  The table has a      *)
(* capacity: new keys drive out those of the lowest score, which under two *)
(* of the five strategies is led by the epoch.  mu_ is a readers-writers lock that every operation   *)
(* holds throughout, so an operation is one step here, but for those whose *)
(* steps may fail or be interrupted: a save holds it shared, a load holds  *)
(* it exclusively.  Exports leave the table alone and are not modelled.    *)
(*                                                                         *)
(* A value is the key it was made for and the number of the write that made*)
(* it.                                                                     *)
(***************************************************************************)
EXTENDS Integers, Sequences, FiniteSets, SequencesExt

CONSTANTS
  Keys,
  Capacity,        \* keys the table has room for, at its largest
  BucketSize,      \* max_bucket_size: keys a bucket has room for
  EpochStrategies, \* which answers to "is it an epoch strategy?" are possible
  StepPerEpoch,    \* step_per_epoch
  BufferSize,      \* records that a save writes, or a load reads, at a time
  AtomicMoves,     \* the answers HasAtomicMove may give
  MaxWrites,       \* bound: operations that write
  MaxJobs,         \* bound: saves and loads
  MaxFaults,       \* bound: reads and appends that fail, and crashes
  NoFile,
  Junk             \* uninitialised memory, read as a value

ASSUME HkvAssumption ==
  /\ IsFiniteSet(Keys) /\ Capacity \in Nat \ {0} /\ StepPerEpoch \in Nat \ {0}
  /\ BucketSize \in Nat \ {0} /\ EpochStrategies \subseteq BOOLEAN
  /\ BufferSize \in Nat \ {0} /\ AtomicMoves \subseteq BOOLEAN
  /\ MaxWrites \in Nat /\ MaxJobs \in Nat /\ MaxFaults \in Nat

VARIABLES
  table,       \* [a set of keys -> [val, epoch]]
  epoch, step, \* curr_epoch_, curr_step_
  epoch_evict_strategy,
  disk,        \* ["keys", "values" -> their records, or NoFile]
  atomicMove,  \* what HasAtomicMove says of this file system
  pc,          \* what the job that runs is doing
  todo,        \* a save's records still to be written; a load's offset
  buffer,      \* the values that the last read left in the vectors buffer
  writes, jobs, faults,
  (* History.                                                              *)
  upserts,     \* calls of upsert in this process
  saved,       \* the table when the save began
  whole,       \* nothing has failed since the job began
  holes,       \* what has ever come between the records of the files: an append
               \* that failed on the "keys" or the "values", a "crash", or a
               \* save that went on after an older one's records ("append")
  misread      \* a read of values has failed

data == <<table, epoch, step>>
fixed == <<atomicMove, epoch_evict_strategy>>
hist == <<upserts, saved, whole, holes, misread>>
vars == <<data, disk, fixed, pc, todo, buffer, writes, jobs, faults, hist>>

Init ==
  /\ table = << >> /\ epoch = 0 /\ step = 1 /\ epoch_evict_strategy \in EpochStrategies
  /\ disk = [f \in {"keys", "values"} |-> NoFile] /\ atomicMove \in AtomicMoves
  /\ pc = "idle" /\ todo = << >> /\ buffer = << >>
  /\ writes = 0 /\ jobs = 0 /\ faults = 0
  /\ upserts = 0 /\ saved = << >> /\ whole = TRUE
  /\ holes = {} /\ misread = FALSE

Value == [of : Keys, write : 1 .. MaxWrites] \cup {Junk}

(* Neither the absence of a file nor uninitialised memory can be mistaken  *)
(* for what the program writes.                                            *)
ASSUME ContentsAssumption ==
  /\ NoFile \notin Seq(Keys) /\ NoFile \notin Seq(Value)
  /\ Junk \notin [of : Keys, write : 1 .. MaxWrites]

Least(a, b) == IF a < b THEN a ELSE b
Pairs(t)    == {<<k, t[k].val>> : k \in DOMAIN t}
-----------------------------------------------------------------------------
(* The library: insert_or_assign, accum_or_assign and erase.               *)

(* Mutant of Evicted: nothing leaves.                                      *)
EvictedNone(t) == {t}

(* What may be left of t, once the library has rejected keys: never more   *)
(* than it has room for; but a key also goes, long before there are so     *)
(* many, when others of no lower score fill its bucket.  Which keys share a*)
(* bucket is the library's: here they may be any.  The score follows the   *)
(* epoch for the epoch strategies only; for kLru, kLfu and kCustomized any *)
(* key may be of the lowest.                                               *)
Evicted(t) ==
  LET higher(k, gone) == epoch_evict_strategy => t[gone].epoch <= t[k].epoch IN
  {[k \in kept |-> t[k]] : kept \in
     {s \in SUBSET DOMAIN t :
        /\ Cardinality(s) <= Capacity
        /\ \A gone \in DOMAIN t \ s : Cardinality({k \in s : higher(k, gone)}) >= BucketSize}}

(* t with new values for ks, whose scores are now of this epoch.           *)
Assigned(t, ks) ==
  [k \in DOMAIN t \cup ks |->
     IF k \in ks THEN [val |-> [of |-> k, write |-> writes + 1], epoch |-> epoch] ELSE t[k]]

Erased(t, ks) == [k \in DOMAIN t \ ks |-> t[k]]

(* The keys of an accum that change: those that are there as expected.     *)
Hit(ks, exists) == {k \in ks : (k \in DOMAIN table) = exists}
-----------------------------------------------------------------------------
(* The kernel's operations; a writer waits for mu_.                        *)

Readable == pc \in {"idle", "save", "append"}   \* nobody holds mu_ exclusively
Writable == pc = "idle"                         \* nobody holds mu_

(* Mutant of Wrote: a write takes mu_ as the readers do.                   *)
WroteShared ==
  /\ Readable /\ writes < MaxWrites /\ writes' = writes + 1
  /\ UNCHANGED <<disk, fixed, pc, todo, buffer, jobs, faults, saved, whole,
                 holes, misread>>

Wrote ==
  /\ Writable /\ writes < MaxWrites /\ writes' = writes + 1
  /\ UNCHANGED <<disk, fixed, pc, todo, buffer, jobs, faults, saved, whole,
                 holes, misread>>

(* Mutant of StepOn: the step is counted on without being reset.           *)
StepOnNoReset ==
  /\ upserts' = upserts + 1
  /\ step' = IF epoch_evict_strategy THEN step + 1 ELSE step
  /\ epoch' = IF step' > StepPerEpoch THEN epoch + 1 ELSE epoch

(* TableWrapper::upsert, after insert_or_assign.                           *)
StepOn ==
  /\ upserts' = upserts + 1
  /\ \/ ~ epoch_evict_strategy /\ UNCHANGED <<epoch, step>>
     \/ epoch_evict_strategy /\ step + 1 > StepPerEpoch /\ epoch' = epoch + 1 /\ step' = 1
     \/ epoch_evict_strategy /\ step + 1 <= StepPerEpoch /\ step' = step + 1 /\ UNCHANGED epoch

Insert(ks) ==
  /\ table' \in Evicted(Assigned(table, ks))
  /\ StepOn /\ Wrote

(* TableWrapper::accum: the same, and no step.                             *)
Accum(ks, exists) ==
  /\ table' \in Evicted(Assigned(table, Hit(ks, exists)))
  /\ Wrote
  /\ UNCHANGED <<epoch, step, upserts>>

Erase(ks) ==
  /\ table' = Erased(table, ks) /\ Wrote
  /\ UNCHANGED <<epoch, step, upserts>>

Clear ==
  /\ table' = << >> /\ Wrote
  /\ UNCHANGED <<epoch, step, upserts>>

(* ImportValues: clear and upsert under one lock, if there are keys.       *)
ImportValues(ks) ==
  /\ table' \in Evicted(Assigned(<< >>, ks))
  /\ StepOn /\ Wrote
-----------------------------------------------------------------------------
(* ExportValuesToFile: dump_to_file, under mu_ shared.                     *)

JobSame == UNCHANGED <<data, disk, fixed, writes, upserts, holes, misread>>

Start(label) == pc = "idle" /\ jobs < MaxJobs /\ jobs' = jobs + 1 /\ pc' = label

(* Where the records go: a file with .tmp in its name, if the file system  *)
(* has no atomic move, which nothing renames and no load opens.            *)
Visible == atomicMove

(* append_to_file is the caller's: NewAppendableFile or NewWritableFile.    *)
SaveOpen(append_to_file) ==
  LET kept == append_to_file /\ disk["keys"] # NoFile IN
  /\ Start("save")
  /\ \E order \in SetToSeqs(DOMAIN table) : todo' = order
  /\ saved' = table /\ whole' = ~ kept
  /\ disk' = IF Visible /\ ~ kept THEN [f \in DOMAIN disk |-> << >>] ELSE disk
  /\ holes' = IF kept THEN holes \cup {"append"} ELSE holes
  /\ UNCHANGED <<buffer, faults>>
  /\ UNCHANGED <<data, fixed, writes, upserts, misread>>

Chunk == SubSeq(todo, 1, Least(BufferSize, Len(todo)))

(* RandomKVFile::write: an append that fails is logged, and the save goes  *)
(* on.                                                                     *)
Appended(f, records, fails) ==
  /\ disk' = IF ~ Visible \/ fails THEN disk ELSE [disk EXCEPT ![f] = @ \o records]
  /\ faults + (IF fails THEN 1 ELSE 0) <= MaxFaults
  /\ faults' = faults + (IF fails THEN 1 ELSE 0)
  /\ holes' = IF fails THEN holes \cup {f} ELSE holes
  /\ whole' = (whole /\ ~ fails)

SaveKeys ==
  /\ pc = "save" /\ todo # << >> /\ pc' = "append"
  /\ \E fails \in BOOLEAN : Appended("keys", Chunk, fails)
  /\ UNCHANGED <<data, fixed, todo, buffer, writes, jobs, upserts, saved, misread>>

(* What a slot of the table holds: its key is there as long as mu_ is held.*)
ValueAt(k) == IF k \in DOMAIN table THEN table[k].val ELSE Junk

SaveValues ==
  /\ pc = "append" /\ pc' = "save"
  /\ \E fails \in BOOLEAN :
       Appended("values", [i \in DOMAIN Chunk |-> ValueAt(Chunk[i])], fails)
  /\ todo' = SubSeq(todo, Len(Chunk) + 1, Len(todo))
  /\ UNCHANGED <<data, fixed, buffer, writes, jobs, upserts, saved, misread>>

SaveClose ==
  /\ pc = "save" /\ todo = << >> /\ pc' = "idle"
  /\ UNCHANGED <<todo, buffer, jobs, faults, saved, whole>> /\ JobSame
-----------------------------------------------------------------------------
(* ImportValuesFromFile: under mu_, the table is cleared, then the files   *)
(* are opened and read.                                                    *)

(* Mutant of LoadClear: what is there stays.                               *)
LoadKeeps ==
  /\ Start("open") /\ whole' = TRUE
  /\ UNCHANGED <<todo, buffer, faults, saved>> /\ JobSame

LoadClear ==
  /\ Start("open") /\ whole' = TRUE /\ table' = << >>
  /\ UNCHANGED <<todo, buffer, faults, saved>>
  /\ UNCHANGED <<epoch, step, disk, fixed, writes, upserts, holes, misread>>

(* Mutant of Loadable: the sizes are not compared.                         *)
LoadableAny == disk["keys"] # NoFile /\ disk["values"] # NoFile

Loadable == /\ disk["keys"] # NoFile /\ disk["values"] # NoFile
            /\ Len(disk["keys"]) = Len(disk["values"])

LoadOpen ==
  /\ pc = "open" /\ pc' = IF Loadable THEN "load" ELSE "idle"
  /\ todo' = IF Loadable THEN disk["keys"] ELSE todo
  /\ buffer' = [i \in 1 .. BufferSize |-> Junk]
  /\ whole' = (whole /\ Loadable)
  /\ UNCHANGED <<jobs, faults, saved>> /\ JobSame

(* RandomKVFile::read: a read that fails is logged and gives nothing, so   *)
(* that keys are paired with what the buffer for the values still has.     *)
ValuesRead(fails) ==
  LET from == Len(disk["keys"]) - Len(todo) IN
  [i \in 1 .. BufferSize |->
     IF ~ fails /\ i <= Len(Chunk) /\ from + i <= Len(disk["values"])
     THEN disk["values"][from + i] ELSE buffer[i]]

Inserted(t, ks, vs) ==
  [k \in DOMAIN t \cup ToSet(ks) |->
     IF k \in ToSet(ks)
     THEN [val |-> vs[CHOOSE i \in DOMAIN ks : ks[i] = k], epoch |-> epoch] ELSE t[k]]

LoadNext ==
  /\ pc = "load" /\ todo # << >> /\ pc' = "load"
  /\ \E fails \in BOOLEAN :
       /\ faults' = faults + (IF fails THEN 1 ELSE 0) /\ faults' <= MaxFaults
       /\ buffer' = ValuesRead(fails)
       /\ table' \in Evicted(Inserted(table, Chunk, buffer'))
       /\ misread' = (misread \/ fails) /\ whole' = (whole /\ ~ fails)
  /\ todo' = SubSeq(todo, Len(Chunk) + 1, Len(todo))
  /\ UNCHANGED <<epoch, step, disk, fixed, writes, jobs, upserts, saved, holes>>

(* A read of keys that fails gives no keys: the load takes it for the end. *)
LoadStopsShort ==
  /\ pc = "load" /\ todo # << >> /\ faults < MaxFaults /\ faults' = faults + 1
  /\ pc' = "idle" /\ whole' = FALSE
  /\ UNCHANGED <<todo, buffer, jobs, saved>> /\ JobSame

LoadEnd ==
  /\ pc = "load" /\ todo = << >> /\ pc' = "idle"
  /\ UNCHANGED <<todo, buffer, jobs, faults, saved, whole>> /\ JobSame
-----------------------------------------------------------------------------
(* The process dies.  Nothing was synced: of each file being written any   *)
(* part may be left.                                                       *)
Crash ==
  /\ faults < MaxFaults /\ faults' = faults + 1
  /\ table' = << >> /\ epoch' = 0 /\ step' = 1 /\ upserts' = 0
  /\ pc' = "idle" /\ todo' = << >> /\ buffer' = << >>
  /\ IF disk["keys"] = NoFile THEN UNCHANGED disk
     ELSE \E k \in 0 .. Len(disk["keys"]), v \in 0 .. Len(disk["values"]) :
            disk' = [f \in DOMAIN disk |-> SubSeq(disk[f], 1, IF f = "keys" THEN k ELSE v)]
  /\ whole' = FALSE /\ holes' = holes \cup {"crash"}
  /\ UNCHANGED <<fixed, writes, jobs, saved, misread>>

Training ==
  \/ \E ks \in (SUBSET Keys) \ {{}} :
       Insert(ks) \/ Erase(ks) \/ ImportValues(ks) \/ \E exists \in BOOLEAN : Accum(ks, exists)
  \/ Clear

Job == \/ SaveOpen(TRUE) \/ SaveOpen(FALSE)
       \/ SaveKeys \/ SaveValues \/ SaveClose
       \/ LoadClear \/ LoadOpen \/ LoadNext \/ LoadStopsShort \/ LoadEnd

Finished == pc = "idle" /\ jobs = MaxJobs /\ UNCHANGED vars

Next == Training \/ Job \/ Crash \/ Finished
Spec == Init /\ [][Next]_vars
-----------------------------------------------------------------------------
(* The types; the table is never over its capacity.                        *)
TypeOK ==
  /\ DOMAIN table \subseteq Keys /\ Cardinality(DOMAIN table) <= Capacity
  /\ \A k \in DOMAIN table : table[k] \in [val : Value, epoch : 0 .. epoch]
  /\ epoch \in Nat /\ step \in 1 .. StepPerEpoch
  /\ pc \in {"idle", "save", "append", "open", "load"}
  /\ todo \in Seq(Keys) /\ atomicMove \in BOOLEAN /\ epoch_evict_strategy \in BOOLEAN

(* Under the epoch strategies the epoch that decides which keys go is the  *)
(* number of upserts over the steps of an epoch, imports counted and       *)
(* accumulations not: loading, clearing and a table's emptiness neither    *)
(* reset nor advance it.  Under the others it stays at zero.               *)
EpochsCountUpserts ==
  epoch * StepPerEpoch + step = (IF epoch_evict_strategy THEN upserts ELSE 0) + 1

(* No key is ever paired with a value that was another key's, whatever     *)
(* appends fail on one of the two files, or wherever the process dies: a   *)
(* load compares their sizes.  The comparison can be fooled: by losses on  *)
(* both files, by one of these on top of the other or of a save that       *)
(* appends, and by a read of values that fails.                            *)
PairsAreReal ==
  ~ misread /\ Cardinality(holes) <= 1
    => \A k \in DOMAIN table : table[k].val # Junk /\ table[k].val.of = k

FilePairs ==
  IF Loadable THEN {<<disk["keys"][i], disk["values"][i]>> : i \in DOMAIN disk["keys"]} ELSE {}

(* A save is a snapshot of the table as it was when the save began, whoever*)
(* trains meanwhile.                                                       *)
SaveIsSnapshot ==
  [][pc = "save" /\ pc' = "idle" /\ faults' = faults /\ whole /\ Visible
       => /\ Loadable /\ FilePairs = Pairs(saved)
          /\ Len(disk["keys"]) = Cardinality(DOMAIN saved)]_vars

(* A load leaves nothing of what was there before, also when it fails: the *)
(* table then holds pairs of the files only.                               *)
LoadReplaces ==
  [][~ misread /\ pc \in {"open", "load"} /\ pc' = "idle" => Pairs(table') \subseteq FilePairs]_vars

=============================================================================
