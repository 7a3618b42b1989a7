------------------------------ MODULE TableFiles ------------------------------
(***************************************************************************)
(* Saving a CPU table and loading it back: CuckooHashTableOfTensors        *)
(* (core/kernels/cuckoo_hashtable_op.cc) over TableWrapper::dump           *)
(* (lookup_impl/lookup_table_op_cpu.h).  The table goes to two files, the  *)
(* keys and the values, chunk by chunk, while training goes on; or at once *)
(* to two tensors, that a checkpoint keeps and an import puts back.  The   *)
(* process may crash at any step.                                          *)
(*                                                                         *)
(* Every operation on the concurrent table is one step here (CuckooMap     *)
(* shows why).  One save or load runs at a time, as in a Saver.            *)
(***************************************************************************)
EXTENDS Integers, Sequences, SequencesExt

CONSTANTS
  Keys, Values,
  BufferSize,       \* buffer_size: records dumped at a time
  AppendToFile,     \* append_to_file
  AtomicMoves,      \* the answers HasAtomicMove may give
  MaxWrites,        \* bound: writes to the table
  MaxJobs,          \* bound: saves, loads, exports and imports started
  MaxFaults,        \* bound: crashes and failed jobs
  NoFile

Item == [key : Keys, val : Values]
Name == {"keys", "values", "keys.tmp", "values.tmp"}

ASSUME FilesAssumption ==
  /\ BufferSize \in Nat \ {0} /\ AppendToFile \in BOOLEAN
  /\ AtomicMoves \subseteq BOOLEAN /\ AtomicMoves # {}
  /\ MaxWrites \in Nat /\ MaxJobs \in Nat /\ MaxFaults \in Nat
  /\ NoFile \notin Seq(Keys) /\ NoFile \notin Seq(Values)

VARIABLES
  table,        \* the items in the order in which lock_table() iterates
  disk,         \* [Name -> records written, or NoFile]
  synced,       \* [Name -> how many of them a crash cannot undo]
  atomicMove,   \* has_atomic_move, a property of the file system
  pc,           \* where the save or load is
  size,         \* table_size, read once
  offset,       \* search_offset of a save; records read by a load
  chunk,        \* the buffers: what the last dump() returned
  exported,     \* the items of the last export's tensors, in the checkpoint
  writes, jobs, faults,
  (* History: what is needed to say what was saved.                        *)
  during,       \* items in the table at some time since the job began
  written,      \* items training has ever written, in any process
  quiet,        \* since the job began, but for the job itself, no key
                \* went and no call was for a key that was not there
  short,        \* an export has ever dumped fewer items than its size
  halfRenamed   \* a crash or an error has ever hit after the rename of the
                \* keys began, and before that of the values

impl == <<table, disk, synced, pc, size, offset, chunk, exported>>
hist == <<during, written, quiet, short, halfRenamed>>
vars == <<impl, hist, atomicMove, writes, jobs, faults>>

Init ==
  /\ table = << >>
  /\ disk = [n \in Name |-> NoFile] /\ synced = [n \in Name |-> 0]
  /\ atomicMove \in AtomicMoves
  /\ pc = "idle" /\ size = 0 /\ offset = 0 /\ chunk = << >> /\ exported = << >>
  /\ writes = 0 /\ jobs = 0 /\ faults = 0
  /\ during = {} /\ written = {} /\ quiet = TRUE
  /\ short = FALSE /\ halfRenamed = FALSE

KeysOf(items) == {i.key : i \in items}
KeyOf(s)  == [i \in DOMAIN s |-> s[i].key]
ValOf(s)  == [i \in DOMAIN s |-> s[i].val]
Least(a, b) == IF a < b THEN a ELSE b
-----------------------------------------------------------------------------
(* Writing to the table.  A call for a key that is not there may displace  *)
(* others (cuckoo, doubling), so that the order of iteration may change,   *)
(* even if insert_or_accum then adds nothing, its exist flag being out of  *)
(* date; a call for a key that is there keeps the order.                   *)
Assigned(i) ==
  IF i.key \in KeysOf(ToSet(table))
  THEN {[n \in DOMAIN table |-> IF table[n].key = i.key THEN i ELSE table[n]]}
  ELSE SetToSeqs(ToSet(table) \cup {i})

(* i is the item that insert_or_accum makes, if it makes one.              *)
Accumulated(i, exist) ==
  LET present == i.key \in KeysOf(ToSet(table)) IN
  IF exist = present THEN Assigned(i)
  ELSE IF present THEN {table}
  ELSE SetToSeqs(ToSet(table))

(* The table is now t.                                                     *)
Becomes(t) ==
  /\ table' = t
  /\ during' = during \cup ToSet(t)

Trained ==
  /\ writes < MaxWrites /\ writes' = writes + 1
  /\ UNCHANGED <<disk, synced, atomicMove, pc, size, offset, chunk, exported, jobs, faults,
                 short, halfRenamed>>

(* A call for key k has made the table t.                                  *)
Upsert(k, t) ==
  /\ Becomes(t)
  /\ written' = written \cup (ToSet(t) \ ToSet(table))
  /\ quiet' = (quiet /\ k \in KeysOf(ToSet(table)))

Insert ==
  /\ \E i \in Item : \E t \in Assigned(i) : Upsert(i.key, t)
  /\ Trained

Accum ==
  /\ \E i \in Item, exist \in BOOLEAN : \E t \in Accumulated(i, exist) : Upsert(i.key, t)
  /\ Trained

Erase ==
  /\ \E n \in DOMAIN table : Becomes(RemoveAt(table, n))
  /\ quiet' = FALSE /\ UNCHANGED written
  /\ Trained

Clear ==
  /\ table # << >> /\ Becomes(<< >>)
  /\ quiet' = FALSE /\ UNCHANGED written
  /\ Trained
-----------------------------------------------------------------------------
(* SaveToFileSystemImpl.                                                   *)

(* Mutant of need_tmp_file: as a file system's answer is usually used.     *)
TmpIfAtomic == atomicMove

need_tmp_file == ~ atomicMove

(* Mutant of ValueFile: the name of the other file.                        *)
ValueFileAsKeys == IF need_tmp_file THEN "keys.tmp" ELSE "keys"

KeyFile   == IF need_tmp_file THEN "keys.tmp" ELSE "keys"
ValueFile == IF need_tmp_file THEN "values.tmp" ELSE "values"

(* NewAppendableFile keeps what a file has, NewWritableFile does not.      *)
Opened(name) == IF AppendToFile /\ disk[name] # NoFile THEN disk[name] ELSE << >>

Open(name) ==
  /\ disk' = [disk EXCEPT ![name] = Opened(name)]
  /\ synced' = [synced EXCEPT ![name] = Len(Opened(name))]

(* A job goes on to label, the writers' counters and history unchanged.    *)
Goto(label) ==
  /\ pc' = label
  /\ UNCHANGED <<atomicMove, writes, jobs, faults, written, quiet, halfRenamed>>

(* A save or a load does.                                                  *)
FilesGoto(label) == Goto(label) /\ UNCHANGED <<exported, short>>

Start(label) ==
  /\ pc = "idle" /\ jobs < MaxJobs
  /\ pc' = label /\ jobs' = jobs + 1
  /\ during' = ToSet(table) /\ quiet' = TRUE
  /\ UNCHANGED <<atomicMove, exported, writes, faults, written, short, halfRenamed>>

SaveOpenKeys ==
  /\ Start("open_values")
  /\ Open(KeyFile)
  /\ UNCHANGED <<table, size, offset, chunk>>

SaveOpenValues ==
  /\ pc = "open_values" /\ FilesGoto("size")
  /\ Open(ValueFile)
  /\ UNCHANGED <<table, size, offset, chunk, during>>

SaveSize ==
  /\ pc = "size" /\ FilesGoto("dump")
  /\ size' = Len(table) /\ offset' = 0
  /\ UNCHANGED <<table, disk, synced, chunk, during>>

(* Mutants of dump: a chunk starts with the last item of the one before;   *)
(* the last item of the table is taken to be its end.                      *)
DumpOverlapping(from, length) ==
  SubSeq(table, IF from = 0 THEN 1 ELSE from, Least(from + length, Len(table)))
DumpBeforeLast(from, length) == SubSeq(table, from + 1, Least(from + length, Len(table) - 1))

(* Under lock_table(): at most length items, from the offset on; nothing   *)
(* past the end.                                                           *)
dump(from, length) == SubSeq(table, from + 1, Least(from + length, Len(table)))

(* Mutant of SaveDump: the values are dumped by a call of their own.       *)
SaveDumpKeysOnly ==
  /\ pc = "dump" /\ offset < size
  /\ FilesGoto("append_keys")
  /\ \E other \in SetToSeqs(ToSet(table)) :
       chunk' = [n \in DOMAIN dump(offset, BufferSize) |->
                   [key |-> dump(offset, BufferSize)[n].key, val |-> other[offset + n].val]]
  /\ offset' = offset + Len(dump(offset, BufferSize))
  /\ UNCHANGED <<table, disk, synced, size, during>>

SaveDump ==
  /\ pc = "dump" /\ offset < size
  /\ FilesGoto("append_keys")
  /\ chunk' = dump(offset, BufferSize)
  /\ offset' = offset + Len(chunk')
  /\ UNCHANGED <<table, disk, synced, size, during>>

Write(name, records) ==
  /\ disk' = [disk EXCEPT ![name] = @ \o records]
  /\ UNCHANGED <<table, synced, size, offset, chunk, during>>

SaveAppendKeys ==
  /\ pc = "append_keys" /\ FilesGoto("append_values")
  /\ Write(KeyFile, KeyOf(chunk))

SaveAppendValues ==
  /\ pc = "append_values" /\ FilesGoto("dump")
  /\ Write(ValueFile, ValOf(chunk))

Sync(name) ==
  /\ synced' = [synced EXCEPT ![name] = Len(disk[name])]
  /\ UNCHANGED <<table, disk, size, offset, chunk, during>>

SaveSyncKeys ==
  /\ pc = "dump" /\ offset >= size
  /\ FilesGoto("sync_values")
  /\ Sync(KeyFile)

SaveSyncValues ==
  /\ pc = "sync_values"
  /\ FilesGoto(IF need_tmp_file THEN "rename_keys" ELSE "idle")
  /\ Sync(ValueFile)

(* RenameFile: the file at the new name is replaced.  Temporary files are  *)
(* used where a move is not atomic: there it is a copy, which a crash or   *)
(* an error may find anywhere, and then the end of the old name.  A crash  *)
(* that undoes some of the copy finds what a shorter one would leave.      *)
Copy(from, to) ==
  /\ \E n \in 0 .. Len(disk[from]) :
       /\ disk' = [disk EXCEPT ![to] = SubSeq(disk[from], 1, n)]
       /\ synced' = [synced EXCEPT ![to] = n]
  /\ UNCHANGED <<table, size, offset, chunk, during>>

Rename(from, to) ==
  /\ disk' = [disk EXCEPT ![to] = disk[from], ![from] = NoFile]
  /\ synced' = [synced EXCEPT ![to] = synced[from], ![from] = 0]
  /\ UNCHANGED <<table, size, offset, chunk, during>>

SaveCopyKeys ==
  /\ pc = "rename_keys" /\ FilesGoto("copy_keys")
  /\ Copy("keys.tmp", "keys")

SaveRenameKeys ==
  /\ pc = "copy_keys" /\ FilesGoto("rename_values")
  /\ Rename("keys.tmp", "keys")

SaveCopyValues ==
  /\ pc = "rename_values" /\ FilesGoto("copy_values")
  /\ Copy("values.tmp", "values")

SaveRenameValues ==
  /\ pc = "copy_values" /\ FilesGoto("idle")
  /\ Rename("values.tmp", "values")
-----------------------------------------------------------------------------
(* LoadFromFileSystemImpl.                                                 *)

(* Both files exist and have as many records; else the load fails and the  *)
(* table is left as it was.                                                *)
Loadable ==
  /\ disk["keys"] # NoFile /\ disk["values"] # NoFile
  /\ Len(disk["keys"]) = Len(disk["values"])

LoadOpen ==
  /\ Start(IF Loadable THEN "load" ELSE "idle")
  /\ offset' = 0
  /\ UNCHANGED <<table, disk, synced, size, chunk>>

(* One insert_or_assign per record.                                        *)
LoadNext ==
  /\ pc = "load" /\ offset < Len(disk["keys"]) /\ offset < Len(disk["values"])
  /\ FilesGoto("load")
  /\ LET n == offset + 1 IN
     \E t \in Assigned([key |-> disk["keys"][n], val |-> disk["values"][n]]) : Becomes(t)
  /\ offset' = offset + 1
  /\ UNCHANGED <<disk, synced, size, chunk>>

LoadEnd ==
  /\ pc = "load" /\ offset \in {Len(disk["keys"]), Len(disk["values"])}
  /\ FilesGoto("idle")
  /\ UNCHANGED <<table, disk, synced, size, offset, chunk, during>>
-----------------------------------------------------------------------------
(* ExportValues: the size, read without a lock, and then the dump.         *)

ExportSize ==
  /\ Start("export")
  /\ size' = Len(table)
  /\ UNCHANGED <<table, disk, synced, offset, chunk>>

(* The outputs have room for size items: if there are fewer by now, their  *)
(* tail is uninitialised memory, which may look like any item.             *)
ExportDump ==
  /\ pc = "export" /\ Goto("idle")
  /\ LET items == dump(0, size) IN
     /\ \E tail \in [1 .. size - Len(items) -> Item] : exported' = items \o tail
     /\ short' = (short \/ Len(items) < size)
  /\ UNCHANGED <<table, disk, synced, size, offset, chunk, during>>

(* ImportValues: DoInsert clears the table, then inserts key by key.       *)

(* Mutant of ImportClear: clear is not asked for.                          *)
ImportKeeps ==
  /\ exported # << >> /\ Start("import")
  /\ offset' = 0
  /\ UNCHANGED <<table, disk, synced, size, chunk>>

ImportClear ==
  /\ exported # << >> /\ Start("import")
  /\ table' = << >> /\ offset' = 0
  /\ UNCHANGED <<disk, synced, size, chunk>>

ImportNext ==
  /\ pc = "import" /\ offset < Len(exported)
  /\ FilesGoto("import")
  /\ \E t \in Assigned(exported[offset + 1]) : Becomes(t)
  /\ offset' = offset + 1
  /\ UNCHANGED <<disk, synced, size, chunk>>

ImportEnd ==
  /\ pc = "import" /\ offset = Len(exported)
  /\ FilesGoto("idle")
  /\ UNCHANGED <<table, disk, synced, size, offset, chunk, during>>
-----------------------------------------------------------------------------
(* Where a job has renamed some of the keys and none of the values.        *)
HalfRenamed == {"copy_keys", "rename_values"}

(* The process dies: the table is gone, and of every file what was written *)
(* since the last Sync may be gone too, from the end.                      *)
Written(name) == IF disk[name] = NoFile THEN 0 ELSE Len(disk[name])

Crash ==
  /\ faults < MaxFaults /\ faults' = faults + 1
  /\ \E k \in synced[KeyFile] .. Written(KeyFile), v \in synced[ValueFile] .. Written(ValueFile) :
       LET kept == [synced EXCEPT ![KeyFile] = k, ![ValueFile] = v] IN
       /\ disk' = [n \in Name |-> IF disk[n] = NoFile THEN NoFile ELSE SubSeq(disk[n], 1, kept[n])]
       /\ synced' = kept
  /\ table' = << >> /\ pc' = "idle" /\ size' = 0 /\ offset' = 0 /\ chunk' = << >>
  /\ during' = {} /\ quiet' = FALSE
  /\ halfRenamed' = (halfRenamed \/ pc \in HalfRenamed)
  /\ UNCHANGED <<atomicMove, exported, writes, jobs, written, short>>

(* A call of the file system fails: the job returns its error, and leaves  *)
(* the files, or the table, as they are.                                   *)
Fail ==
  /\ pc \notin {"idle", "import"} /\ pc' = "idle"
  /\ faults < MaxFaults /\ faults' = faults + 1
  /\ halfRenamed' = (halfRenamed \/ pc \in HalfRenamed)
  /\ UNCHANGED <<table, disk, synced, size, offset, chunk, exported, atomicMove, writes, jobs,
                 during, written, quiet, short>>

SaveStep == \/ SaveOpenValues \/ SaveSize \/ SaveDump \/ SaveAppendKeys
            \/ SaveAppendValues \/ SaveSyncKeys \/ SaveSyncValues
            \/ SaveCopyKeys \/ SaveRenameKeys \/ SaveCopyValues \/ SaveRenameValues
LoadStep == LoadNext \/ LoadEnd
CopyStep == ExportDump \/ ImportNext \/ ImportEnd
Train    == Insert \/ Accum \/ Erase \/ Clear

(* Every bound reached, nothing in progress.                               *)
Finished == pc = "idle" /\ jobs = MaxJobs /\ UNCHANGED vars

Next == SaveOpenKeys \/ LoadOpen \/ ExportSize \/ ImportClear
        \/ SaveStep \/ LoadStep \/ CopyStep \/ Train
        \/ Crash \/ Fail \/ Finished

Spec == Init /\ [][Next]_vars

(* A job that has begun goes on until it ends or the process dies.         *)
FairSpec == Spec /\ WF_vars(SaveStep \/ LoadStep \/ CopyStep)
-----------------------------------------------------------------------------
(* What a load would restore.                                              *)
Restored ==
  IF ~ Loadable THEN {}
  ELSE {[key |-> disk["keys"][n], val |-> disk["values"][n]] : n \in DOMAIN disk["keys"]}

Saving == {"open_values", "size", "dump", "append_keys", "append_values",
           "sync_values", "rename_keys", "copy_keys", "rename_values", "copy_values"}

(* The types; a file never shrinks below what was synced of it.            *)
TypeOK ==
  /\ table \in Seq(Item) /\ chunk \in Seq(Item) /\ exported \in Seq(Item)
  /\ \A n \in Name : disk[n] = NoFile \/ disk[n] \in Seq(Keys) \/ disk[n] \in Seq(Values)
  /\ \A n \in Name : synced[n] \in 0 .. Written(n)
  /\ atomicMove \in BOOLEAN /\ pc \in {"idle", "load", "export", "import"} \cup Saving
  /\ size \in Nat /\ offset \in Nat

(* Every item in the table was once written by training: no load pairs a   *)
(* key with another key's value, whatever crash or error tore the two      *)
(* files, and no import puts back what an export never found.  Two windows *)
(* remain: on a file system that is asked for temporary files, from the    *)
(* beginning of the keys' rename, which is not atomic there, to that of    *)
(* the values'; and between an export's size and its dump.                 *)
PairsAreReal == ~ halfRenamed /\ ~ short => ToSet(table) \subseteq written

(* An import leaves the keys of the export and no other, if training adds  *)
(* and removes none while it goes on: what was there before is gone.       *)
ImportReplaces ==
  [][pc = "import" /\ pc' = "idle" /\ faults' = faults /\ quiet
       => KeysOf(ToSet(table)) = KeysOf(ToSet(exported))]_vars

(* A save that ends has written records that were all in the table while   *)
(* it ran, and, if no key came or went meanwhile, every key exactly once,  *)
(* although its chunks are dumped one by one between other threads' writes.*)
SaveEnded == pc \in Saving /\ pc' = "idle" /\ faults' = faults
SavedWhole ==
  [][SaveEnded =>
       /\ Loadable' /\ Restored' \subseteq during
       /\ quiet => /\ KeysOf(Restored') = KeysOf(ToSet(table))
                   /\ Len(disk'["keys"]) = Len(table)]_vars

(* With temporary files the last checkpoint stays as it is, through crashes*)
(* too, until the renames of the next one.                                 *)
Renaming == {"rename_keys", "copy_keys", "rename_values", "copy_values"}
CheckpointStable ==
  [][~ atomicMove /\ Restored' # Restored => pc \in Renaming]_vars

(* Every job ends, or hangs where dump() cannot reach the offset the loop  *)
(* waits for: keys were removed after the save read the size.  (So does a  *)
(* size() that counts an item twice, which moved between two reads of the  *)
(* counters, as in CuckooMap; here the size is read in one step.)          *)
JobsEnd == []<>(pc = "idle") \/ <>[](Len(table) <= offset /\ offset < size)
-----------------------------------------------------------------------------
(* What a docstring says, and the code does not do.                        *)

(* append_to_file: "If true, operation will append data to the file but    *)
(* not write a new one."                                                   *)
AppendKeepsRecords ==
  [][AppendToFile /\ disk["keys"] # NoFile /\ faults' = faults
       => IsPrefix(disk["keys"], disk'["keys"])]_vars
=============================================================================
