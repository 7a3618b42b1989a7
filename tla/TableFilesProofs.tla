--------------------------- MODULE TableFilesProofs ---------------------------
(***************************************************************************)
(* Theorems about TableFiles, for any keys, values, size of the buffer and *)
(* file system, and any number of writes, jobs and faults.                 *)
(***************************************************************************)
EXTENDS TableFiles, FiniteSetTheorems, SequenceTheorems, TLAPS

KeyNames   == {"keys", "keys.tmp"}
ValueNames == {"values", "values.tmp"}

(* What the files hold.                                                    *)
DiskOK ==
  /\ DOMAIN disk = Name /\ DOMAIN synced = Name
  /\ \A n \in KeyNames : disk[n] = NoFile \/ disk[n] \in Seq(Keys)
  /\ \A n \in ValueNames : disk[n] = NoFile \/ disk[n] \in Seq(Values)
  /\ \A n \in Name : synced[n] \in 0 .. Written(n)

(* Where a job has renamed the keys.                                       *)
KeysRenamed == {"rename_values", "copy_values"}

(* Which of them are there.                                                *)
PlaceOK ==
  /\ pc \in {"idle", "load", "export", "import"} \cup Saving
  /\ pc \in Saving \ KeysRenamed => disk[KeyFile] \in Seq(Keys)
  /\ pc \in Saving \ {"open_values"} => disk[ValueFile] \in Seq(Values)
  /\ pc \in Renaming => ~ atomicMove
  /\ pc \in KeysRenamed => disk["keys"] \in Seq(Keys)
  /\ pc = "load" => disk["keys"] \in Seq(Keys) /\ disk["values"] \in Seq(Values)

ItemsOK == /\ table \in Seq(Item) /\ chunk \in Seq(Item) /\ exported \in Seq(Item)
           /\ size \in Nat /\ offset \in Nat

TypeInv == DiskOK /\ PlaceOK /\ ItemsOK /\ atomicMove \in BOOLEAN

(* With temporary files, what a load would see cannot be undone by a crash.*)
Durable ==
  ~ atomicMove =>
    /\ synced["keys"] = Written("keys") /\ synced["values"] = Written("values")
    /\ pc \in {"sync_values", "rename_keys", "copy_keys"} => synced["keys.tmp"] = Written("keys.tmp")
    /\ pc \in Renaming => synced["values.tmp"] = Written("values.tmp")

(* The records of two files, key by key, are items that were written.      *)
Aligned(k, v) ==
  disk[k] # NoFile /\ disk[v] # NoFile =>
    \A i \in DOMAIN disk[k] \cap DOMAIN disk[v] : [key |-> disk[k][i], val |-> disk[v][i]] \in written

(* How far the file of the keys is ahead of that of the values.            *)
InStep ==
  /\ pc = "open_values" => Len(disk[KeyFile]) = 0
  /\ pc \in {"size", "dump", "append_keys"} => Len(disk[KeyFile]) = Len(disk[ValueFile])
  /\ pc = "append_values" =>
       /\ Len(disk[KeyFile]) = Len(disk[ValueFile]) + Len(chunk)
       /\ \A i \in 1 .. Len(chunk) : disk[KeyFile][Len(disk[ValueFile]) + i] = chunk[i].key

(* Whatever will come into the table was written by training.              *)
ItemsReal == ToSet(table) \subseteq written /\ ToSet(chunk) \subseteq written
             /\ ToSet(exported) \subseteq written
FilesReal == /\ Aligned("keys.tmp", "values.tmp")
             /\ pc \notin HalfRenamed => Aligned("keys", "values")
             /\ pc \in KeysRenamed => Aligned("keys", "values.tmp")
AllReal == ~ halfRenamed /\ ~ short => ItemsReal /\ FilesReal
-----------------------------------------------------------------------------
(* Sequences of items.                                                     *)
LEMMA ItemsFinite ==
  ASSUME NEW s \in Seq(Item)
  PROVE  ToSet(s) \in SUBSET Item /\ IsFiniteSet(ToSet(s))
  <1>1. ToSet(s) \in SUBSET Item
    BY ElementOfSeq, LenProperties DEF ToSet
  <1>2. DOMAIN s = 1 .. Len(s) /\ Len(s) \in Nat
    BY LenProperties
  <1>3. IsFiniteSet(1 .. Len(s))
    BY <1>2, FS_Interval
  <1> DEFINE f == [i \in 1 .. Len(s) |-> s[i]]
  <1>4. f \in Surjection(1 .. Len(s), ToSet(s))
    BY <1>2 DEF ToSet, Surjection
  <1> QED
    BY <1>1, <1>3, <1>4, FS_Surjection

LEMMA SeqsOfSet ==
  ASSUME NEW S \in SUBSET Item, IsFiniteSet(S), NEW t \in SetToSeqs(S)
  PROVE  t \in Seq(Item) /\ ToSet(t) \subseteq S
  <1>1. Cardinality(S) \in Nat
    BY FS_CardinalityType
  <1>2. t \in [1 .. Cardinality(S) -> S]
    BY DEF SetToSeqs
  <1> QED
    BY <1>1, <1>2, IsASeq DEF ToSet

(* A call for one key leaves the other items.                              *)
LEMMA AssignedItems ==
  ASSUME table \in Seq(Item), NEW i \in Item, NEW t \in Assigned(i)
  PROVE  t \in Seq(Item) /\ ToSet(t) \subseteq ToSet(table) \cup {i}
  <1>1. CASE i.key \in KeysOf(ToSet(table))
    <2>1. t = [n \in DOMAIN table |-> IF table[n].key = i.key THEN i ELSE table[n]]
      BY <1>1 DEF Assigned
    <2>2. DOMAIN table = 1 .. Len(table) /\ Len(table) \in Nat
          /\ \A n \in 1 .. Len(table) : table[n] \in Item
      BY LenProperties, ElementOfSeq
    <2> QED
      BY <2>1, <2>2, IsASeq DEF ToSet
  <1>2. CASE i.key \notin KeysOf(ToSet(table))
    <2>1. t \in SetToSeqs(ToSet(table) \cup {i})
      BY <1>2 DEF Assigned
    <2>2. ToSet(table) \cup {i} \in SUBSET Item /\ IsFiniteSet(ToSet(table) \cup {i})
      BY ItemsFinite, FS_AddElement
    <2> QED
      BY <2>1, <2>2, SeqsOfSet
  <1> QED
    BY <1>1, <1>2

LEMMA AccumulatedItems ==
  ASSUME table \in Seq(Item), NEW i \in Item, NEW exist \in BOOLEAN, NEW t \in Accumulated(i, exist)
  PROVE  t \in Seq(Item) /\ ToSet(t) \subseteq ToSet(table) \cup {i}
  <1>1. t \in Assigned(i) \/ t = table \/ t \in SetToSeqs(ToSet(table))
    BY DEF Accumulated
  <1> QED
    BY <1>1, AssignedItems, ItemsFinite, SeqsOfSet

(* dump() returns items of the table, at most as many as asked for.        *)
LEMMA DumpItems ==
  ASSUME table \in Seq(Item), NEW from \in Nat, NEW length \in Nat
  PROVE  /\ dump(from, length) \in Seq(Item)
         /\ ToSet(dump(from, length)) \subseteq ToSet(table)
         /\ Len(dump(from, length)) \in Nat /\ Len(dump(from, length)) <= length
  <1> DEFINE end == Least(from + length, Len(table))
  <1>1. Len(table) \in Nat /\ DOMAIN table = 1 .. Len(table)
    BY LenProperties
  <1>2. end \in Nat /\ end <= from + length /\ end <= Len(table)
    BY <1>1 DEF Least
  <1> HIDE DEF end
  <1>3. \A i \in from + 1 .. end : table[i] \in Item
    BY <1>1, <1>2, ElementOfSeq
  <1>4. /\ SubSeq(table, from + 1, end) \in Seq(Item)
        /\ Len(SubSeq(table, from + 1, end)) = IF from + 1 <= end THEN end - (from + 1) + 1 ELSE 0
        /\ \A i \in 1 .. end - (from + 1) + 1 : SubSeq(table, from + 1, end)[i] = table[from + 1 + i - 1]
    BY <1>2, <1>3, SubSeqProperties
  <1> DEFINE d == SubSeq(table, from + 1, end)
  <1>5. dump(from, length) = d
    BY DEF dump, end
  <1>6. Len(d) \in Nat /\ Len(d) <= length /\ DOMAIN d = 1 .. Len(d)
    BY <1>2, <1>4, LenProperties
  <1>7. ASSUME NEW i \in 1 .. Len(d) PROVE d[i] = table[from + i] /\ from + i \in DOMAIN table
    <2>1. from + 1 <= end /\ Len(d) = end - from
      BY <1>2, <1>4, <1>6, <1>7
    <2>2. i \in 1 .. end - (from + 1) + 1 /\ from + 1 + i - 1 = from + i
      BY <1>2, <2>1, <1>7
    <2> QED
      BY <1>1, <1>2, <1>4, <2>1, <2>2
  <1> QED
    BY <1>4, <1>5, <1>6, <1>7 DEF ToSet

LEMMA KeysAndValues ==
  ASSUME NEW s \in Seq(Item)
  PROVE  /\ KeyOf(s) \in Seq(Keys) /\ Len(KeyOf(s)) = Len(s)
         /\ ValOf(s) \in Seq(Values) /\ Len(ValOf(s)) = Len(s)
         /\ \A i \in 1 .. Len(s) : KeyOf(s)[i] = s[i].key /\ ValOf(s)[i] = s[i].val
  <1>1. DOMAIN s = 1 .. Len(s) /\ Len(s) \in Nat /\ \A i \in 1 .. Len(s) : s[i] \in Item
    BY LenProperties, ElementOfSeq
  <1>2. \A i \in 1 .. Len(s) : s[i].key \in Keys /\ s[i].val \in Values
    BY <1>1 DEF Item
  <1>3. KeyOf(s) = [i \in 1 .. Len(s) |-> s[i].key] /\ ValOf(s) = [i \in 1 .. Len(s) |-> s[i].val]
    BY <1>1 DEF KeyOf, ValOf
  <1> QED
    BY <1>1, <1>2, <1>3, IsASeq, LenProperties

LEMMA RemovedItems ==
  ASSUME table \in Seq(Item), NEW n \in DOMAIN table
  PROVE  RemoveAt(table, n) \in Seq(Item) /\ ToSet(RemoveAt(table, n)) \subseteq ToSet(table)
  <1>1. Len(table) \in Nat /\ DOMAIN table = 1 .. Len(table) /\ n \in 1 .. Len(table)
        /\ \A i \in 1 .. Len(table) : table[i] \in ToSet(table)
    BY LenProperties DEF ToSet
  <1>2. SubSeq(table, 1, n - 1) \in Seq(ToSet(table))
    <2>1. \A i \in 1 .. n - 1 : table[i] \in ToSet(table)
      BY <1>1
    <2> QED
      BY <1>1, <2>1, SubSeqProperties
  <1>3. SubSeq(table, n + 1, Len(table)) \in Seq(ToSet(table))
    <2>1. \A i \in n + 1 .. Len(table) : table[i] \in ToSet(table)
      BY <1>1
    <2> QED
      BY <1>1, <2>1, SubSeqProperties
  <1>4. RemoveAt(table, n) \in Seq(ToSet(table))
    BY <1>2, <1>3, ConcatProperties DEF RemoveAt
  <1>5. ToSet(RemoveAt(table, n)) \subseteq ToSet(table)
    BY <1>4, LenProperties, ElementOfSeq DEF ToSet
  <1>6. ToSet(table) \in SUBSET Item
    BY ItemsFinite
  <1> QED
    BY <1>4, <1>5, <1>6, SeqMonotonic
-----------------------------------------------------------------------------
(* Training.                                                               *)
LEMMA TrainItems ==
  ASSUME table \in Seq(Item), Train
  PROVE  /\ table' \in Seq(Item) /\ Trained
         /\ ToSet(table) \subseteq written => ToSet(table') \subseteq written'
         /\ written \subseteq written'
  <1>1. CASE Insert
    <2>0. PICK i \in Item : \E t \in Assigned(i) : Upsert(i.key, t)
      BY <1>1 DEF Insert
    <2>1. PICK t \in Assigned(i) : Upsert(i.key, t)
      BY <2>0
    <2>2. t \in Seq(Item)
      BY <2>1, AssignedItems
    <2> QED
      BY <1>1, <2>1, <2>2 DEF Insert, Upsert, Becomes
  <1>2. CASE Accum
    <2>0. PICK i \in Item, exist \in BOOLEAN : \E t \in Accumulated(i, exist) : Upsert(i.key, t)
      BY <1>2 DEF Accum
    <2>1. PICK t \in Accumulated(i, exist) : Upsert(i.key, t)
      BY <2>0
    <2>2. t \in Seq(Item)
      BY <2>1, AccumulatedItems
    <2> QED
      BY <1>2, <2>1, <2>2 DEF Accum, Upsert, Becomes
  <1>3. CASE Erase
    <2>1. PICK n \in DOMAIN table : Becomes(RemoveAt(table, n))
      BY <1>3 DEF Erase
    <2> QED
      BY <1>3, <2>1, RemovedItems DEF Erase, Becomes
  <1>4. CASE Clear
    <2>1. table' = << >> /\ ToSet(<< >>) = {}
      BY <1>4, EmptySeq DEF Clear, Becomes, ToSet
    <2> QED
      BY <1>4, <2>1 DEF Clear
  <1> QED
    BY <1>1, <1>2, <1>3, <1>4 DEF Train

LEMMA TrainInv ==
  ASSUME TypeInv, Train
  PROVE  TypeInv'
  <1>1. table' \in Seq(Item) /\ UNCHANGED <<disk, synced, atomicMove, pc, size, offset, chunk, exported>>
    BY TrainItems DEF TypeInv, ItemsOK, Trained
  <1>2. DiskOK'
    BY <1>1 DEF TypeInv, DiskOK, Written
  <1>3. PlaceOK'
    BY <1>1 DEF TypeInv, PlaceOK, KeyFile, ValueFile, need_tmp_file
  <1> QED
    BY <1>1, <1>2, <1>3 DEF TypeInv, ItemsOK
-----------------------------------------------------------------------------
(* The files of a save.                                                    *)
LEMMA FileNames ==
  ASSUME atomicMove \in BOOLEAN
  PROVE  /\ KeyFile \in KeyNames /\ ValueFile \in ValueNames
         /\ KeyNames \cap ValueNames = {} /\ Name = KeyNames \cup ValueNames
  BY DEF KeyFile, ValueFile, need_tmp_file, KeyNames, ValueNames, Name

LEMMA SameNames ==
  ASSUME UNCHANGED atomicMove
  PROVE  KeyFile' = KeyFile /\ ValueFile' = ValueFile
  BY DEF KeyFile, ValueFile, need_tmp_file

(* A step that changes one file, n.                                        *)
LEMMA OneFile ==
  ASSUME DiskOK, NEW n \in Name, DOMAIN disk' = Name, DOMAIN synced' = Name,
         n \in KeyNames => disk'[n] \in Seq(Keys),
         n \in ValueNames => disk'[n] \in Seq(Values),
         synced'[n] \in 0 .. Len(disk'[n]),
         \A m \in Name \ {n} : disk'[m] = disk[m] /\ synced'[m] = synced[m]
  PROVE  DiskOK'
  <1>1. n \in KeyNames \cup ValueNames /\ KeyNames \subseteq Name /\ ValueNames \subseteq Name
    BY DEF Name, KeyNames, ValueNames
  <1>2. disk'[n] # NoFile
    BY <1>1, FilesAssumption
  <1>3. \A m \in Name : synced'[m] \in 0 .. Written(m)'
    <2> SUFFICES ASSUME NEW m \in Name PROVE synced'[m] \in 0 .. Written(m)'
      OBVIOUS
    <2>1. CASE m = n
      BY <2>1, <1>2 DEF Written
    <2>2. CASE m # n
      BY <2>2 DEF DiskOK, Written
    <2> QED
      BY <2>1, <2>2
  <1> QED
    BY <1>1, <1>3 DEF DiskOK

LEMMA OpenedKeys ==
  ASSUME DiskOK
  PROVE  /\ \A n \in KeyNames : Opened(n) \in Seq(Keys)
         /\ \A n \in ValueNames : Opened(n) \in Seq(Values)
  BY EmptySeq DEF DiskOK, Opened

LEMMA StaysOpen ==
  ASSUME TypeInv, UNCHANGED <<disk, synced, atomicMove>>, PlaceOK', ItemsOK'
  PROVE  TypeInv'
  BY DEF TypeInv, DiskOK, Written

(* A beginning of a file is as long as it should be.                       *)
LEMMA Beginning ==
  ASSUME NEW S, NEW s \in Seq(S), NEW n \in 0 .. Len(s)
  PROVE  /\ SubSeq(s, 1, n) \in Seq(S) /\ Len(SubSeq(s, 1, n)) = n
         /\ \A i \in 1 .. n : SubSeq(s, 1, n)[i] = s[i]
         /\ n = Len(s) => SubSeq(s, 1, n) = s
  <1>1. Len(s) \in Nat /\ n \in Nat /\ \A i \in 1 .. n : s[i] \in S
    BY LenProperties, ElementOfSeq
  <1>2. /\ SubSeq(s, 1, n) \in Seq(S)
        /\ Len(SubSeq(s, 1, n)) = IF 1 <= n THEN n - 1 + 1 ELSE 0
        /\ \A i \in 1 .. n - 1 + 1 : SubSeq(s, 1, n)[i] = s[1 + i - 1]
    BY <1>1, SubSeqProperties
  <1>3. n = Len(s) => SubSeq(s, 1, n) = s
    BY SubSeqFull
  <1> QED
    BY <1>1, <1>2, <1>3

(* The copy of a rename holds a beginning of the temporary file.          *)
LEMMA CopiedKeys ==
  ASSUME TypeInv, SaveCopyKeys
  PROVE  /\ pc = "rename_keys" /\ pc' = "copy_keys" /\ ~ atomicMove
         /\ UNCHANGED <<atomicMove, table, size, offset, chunk, exported, during, quiet, written, faults>>
         /\ KeyFile = "keys.tmp" /\ ValueFile = "values.tmp"
         /\ KeyFile' = KeyFile /\ ValueFile' = ValueFile
         /\ DOMAIN disk' = Name /\ DOMAIN synced' = Name
         /\ \A n \in Name \ {"keys"} : disk'[n] = disk[n] /\ synced'[n] = synced[n]
         /\ disk["keys.tmp"] \in Seq(Keys) /\ disk'["keys"] \in Seq(Keys)
         /\ Len(disk'["keys"]) \in Nat /\ synced'["keys"] = Len(disk'["keys"])
         /\ \A i \in DOMAIN disk'["keys"] :
              i \in DOMAIN disk["keys.tmp"] /\ disk'["keys"][i] = disk["keys.tmp"][i]
  <1>1. /\ pc = "rename_keys" /\ pc' = "copy_keys"
        /\ UNCHANGED <<atomicMove, table, size, offset, chunk, exported, during, quiet, written, faults>>
    BY DEF SaveCopyKeys, Copy, FilesGoto, Goto
  <1>2. ~ atomicMove /\ DOMAIN disk = Name /\ DOMAIN synced = Name
    BY <1>1 DEF TypeInv, PlaceOK, DiskOK, Renaming
  <1>3. /\ KeyFile = "keys.tmp" /\ ValueFile = "values.tmp"
        /\ KeyFile' = KeyFile /\ ValueFile' = ValueFile
    BY <1>1, <1>2, SameNames DEF KeyFile, ValueFile, need_tmp_file
  <1>4. disk["keys.tmp"] \in Seq(Keys)
    BY <1>1, <1>3 DEF TypeInv, PlaceOK, Saving, KeysRenamed
  <1> DEFINE f == disk["keys.tmp"]
  <1>5. PICK n \in 0 .. Len(f) :
          /\ disk' = [disk EXCEPT !["keys"] = SubSeq(f, 1, n)]
          /\ synced' = [synced EXCEPT !["keys"] = n]
    BY DEF SaveCopyKeys, Copy
  <1> DEFINE b == SubSeq(f, 1, n)
  <1>6. /\ DOMAIN disk' = Name /\ DOMAIN synced' = Name /\ disk'["keys"] = b /\ synced'["keys"] = n
        /\ \A m \in Name \ {"keys"} : disk'[m] = disk[m] /\ synced'[m] = synced[m]
    BY <1>2, <1>5 DEF Name
  <1>7. Len(f) \in Nat /\ DOMAIN f = 1 .. Len(f)
    BY <1>4, LenProperties
  <1>8. b \in Seq(Keys) /\ Len(b) = n /\ DOMAIN b = 1 .. n /\ \A i \in 1 .. n : b[i] = f[i]
    BY <1>4, Beginning, LenProperties
  <1> HIDE DEF b, f
  <1>9. n \in Nat /\ \A i \in DOMAIN b : i \in DOMAIN f /\ b[i] = f[i]
    BY <1>7, <1>8
  <1> QED
    BY <1>1, <1>2, <1>3, <1>4, <1>6, <1>8, <1>9 DEF f

LEMMA CopiedValues ==
  ASSUME TypeInv, SaveCopyValues
  PROVE  /\ pc = "rename_values" /\ pc' = "copy_values" /\ ~ atomicMove
         /\ UNCHANGED <<atomicMove, table, size, offset, chunk, exported, during, quiet, written, faults>>
         /\ KeyFile = "keys.tmp" /\ ValueFile = "values.tmp"
         /\ KeyFile' = KeyFile /\ ValueFile' = ValueFile
         /\ DOMAIN disk' = Name /\ DOMAIN synced' = Name
         /\ \A n \in Name \ {"values"} : disk'[n] = disk[n] /\ synced'[n] = synced[n]
         /\ disk["values.tmp"] \in Seq(Values) /\ disk'["values"] \in Seq(Values)
         /\ Len(disk'["values"]) \in Nat /\ synced'["values"] = Len(disk'["values"])
         /\ \A i \in DOMAIN disk'["values"] :
              i \in DOMAIN disk["values.tmp"] /\ disk'["values"][i] = disk["values.tmp"][i]
  <1>1. /\ pc = "rename_values" /\ pc' = "copy_values"
        /\ UNCHANGED <<atomicMove, table, size, offset, chunk, exported, during, quiet, written, faults>>
    BY DEF SaveCopyValues, Copy, FilesGoto, Goto
  <1>2. ~ atomicMove /\ DOMAIN disk = Name /\ DOMAIN synced = Name
    BY <1>1 DEF TypeInv, PlaceOK, DiskOK, Renaming
  <1>3. /\ KeyFile = "keys.tmp" /\ ValueFile = "values.tmp"
        /\ KeyFile' = KeyFile /\ ValueFile' = ValueFile
    BY <1>1, <1>2, SameNames DEF KeyFile, ValueFile, need_tmp_file
  <1>4. disk["values.tmp"] \in Seq(Values)
    BY <1>1, <1>3 DEF TypeInv, PlaceOK, Saving, KeysRenamed
  <1> DEFINE f == disk["values.tmp"]
  <1>5. PICK n \in 0 .. Len(f) :
          /\ disk' = [disk EXCEPT !["values"] = SubSeq(f, 1, n)]
          /\ synced' = [synced EXCEPT !["values"] = n]
    BY DEF SaveCopyValues, Copy
  <1> DEFINE b == SubSeq(f, 1, n)
  <1>6. /\ DOMAIN disk' = Name /\ DOMAIN synced' = Name /\ disk'["values"] = b /\ synced'["values"] = n
        /\ \A m \in Name \ {"values"} : disk'[m] = disk[m] /\ synced'[m] = synced[m]
    BY <1>2, <1>5 DEF Name
  <1>7. Len(f) \in Nat /\ DOMAIN f = 1 .. Len(f)
    BY <1>4, LenProperties
  <1>8. b \in Seq(Values) /\ Len(b) = n /\ DOMAIN b = 1 .. n /\ \A i \in 1 .. n : b[i] = f[i]
    BY <1>4, Beginning, LenProperties
  <1> HIDE DEF b, f
  <1>9. n \in Nat /\ \A i \in DOMAIN b : i \in DOMAIN f /\ b[i] = f[i]
    BY <1>7, <1>8
  <1> QED
    BY <1>1, <1>2, <1>3, <1>4, <1>6, <1>8, <1>9 DEF f

LEMMA SaveInv ==
  ASSUME TypeInv, SaveOpenKeys \/ SaveStep
  PROVE  TypeInv'
  <1> USE DEF TypeInv
  <1>0. /\ KeyFile \in KeyNames /\ ValueFile \in ValueNames /\ KeyFile \in Name /\ ValueFile \in Name
        /\ KeyFile # ValueFile /\ KeyFile \notin ValueNames /\ ValueFile \notin KeyNames
    BY FileNames
  <1>1. CASE SaveOpenKeys
    <2>1. /\ pc' = "open_values" /\ UNCHANGED <<atomicMove, table, size, offset, chunk, exported>>
          /\ KeyFile' = KeyFile /\ ValueFile' = ValueFile
      BY <1>1, SameNames DEF SaveOpenKeys, Start
    <2>2. /\ DOMAIN disk' = Name /\ DOMAIN synced' = Name
          /\ disk'[KeyFile] = Opened(KeyFile) /\ synced'[KeyFile] = Len(Opened(KeyFile))
          /\ \A m \in Name \ {KeyFile} : disk'[m] = disk[m] /\ synced'[m] = synced[m]
      BY <1>0, <1>1 DEF SaveOpenKeys, Open, DiskOK
    <2>3. disk'[KeyFile] \in Seq(Keys) /\ Len(disk'[KeyFile]) \in Nat
      BY <1>0, <2>2, OpenedKeys, LenProperties
    <2>4. DiskOK'
      BY <1>0, <2>2, <2>3, OneFile
    <2>5. PlaceOK'
      BY <1>0, <2>1, <2>3 DEF PlaceOK, Saving, Renaming, KeysRenamed
    <2> QED
      BY <2>1, <2>4, <2>5 DEF ItemsOK
  <1>2. CASE SaveOpenValues
    <2>1. /\ pc = "open_values" /\ pc' = "size"
          /\ UNCHANGED <<atomicMove, table, size, offset, chunk, exported>>
          /\ KeyFile' = KeyFile /\ ValueFile' = ValueFile
      BY <1>2, SameNames DEF SaveOpenValues, FilesGoto, Goto
    <2>2. /\ DOMAIN disk' = Name /\ DOMAIN synced' = Name
          /\ disk'[ValueFile] = Opened(ValueFile) /\ synced'[ValueFile] = Len(Opened(ValueFile))
          /\ \A m \in Name \ {ValueFile} : disk'[m] = disk[m] /\ synced'[m] = synced[m]
      BY <1>0, <1>2 DEF SaveOpenValues, Open, DiskOK
    <2>3. disk'[ValueFile] \in Seq(Values) /\ Len(disk'[ValueFile]) \in Nat
      BY <1>0, <2>2, OpenedKeys, LenProperties
    <2>4. DiskOK'
      BY <1>0, <2>2, <2>3, OneFile
    <2>5. PlaceOK'
      BY <1>0, <2>1, <2>2, <2>3 DEF PlaceOK, Saving, Renaming, KeysRenamed
    <2> QED
      BY <2>1, <2>4, <2>5 DEF ItemsOK
  <1>3. CASE SaveSize
    <2>1. Len(table) \in Nat
      BY LenProperties DEF ItemsOK
    <2>2. /\ pc = "size" /\ pc' = "dump" /\ size' = Len(table) /\ offset' = 0
          /\ UNCHANGED <<atomicMove, table, chunk, exported, disk, synced>>
          /\ KeyFile' = KeyFile /\ ValueFile' = ValueFile
      BY <1>3, SameNames DEF SaveSize, FilesGoto, Goto
    <2>3. PlaceOK'
      BY <2>2 DEF PlaceOK, Saving, Renaming, KeysRenamed
    <2> QED
      BY <2>1, <2>2, <2>3, StaysOpen DEF ItemsOK
  <1>4. CASE SaveDump
    <2>1. /\ pc = "dump" /\ pc' = "append_keys" /\ chunk' = dump(offset, BufferSize)
          /\ offset' = offset + Len(chunk')
          /\ UNCHANGED <<atomicMove, table, size, exported, disk, synced>>
          /\ KeyFile' = KeyFile /\ ValueFile' = ValueFile
      BY <1>4, SameNames DEF SaveDump, FilesGoto, Goto
    <2>2. chunk' \in Seq(Item) /\ Len(chunk') \in Nat
      BY <2>1, DumpItems, FilesAssumption DEF ItemsOK
    <2>3. PlaceOK'
      BY <2>1 DEF PlaceOK, Saving, Renaming, KeysRenamed
    <2> QED
      BY <2>1, <2>2, <2>3, StaysOpen DEF ItemsOK
  <1>5. CASE SaveAppendKeys
    <2>1. /\ pc = "append_keys" /\ pc' = "append_values"
          /\ UNCHANGED <<atomicMove, table, size, offset, chunk, exported, synced>>
          /\ KeyFile' = KeyFile /\ ValueFile' = ValueFile
      BY <1>5, SameNames DEF SaveAppendKeys, Write, FilesGoto, Goto
    <2>2. /\ DOMAIN disk' = Name /\ disk'[KeyFile] = disk[KeyFile] \o KeyOf(chunk)
          /\ \A m \in Name \ {KeyFile} : disk'[m] = disk[m]
      BY <1>0, <1>5 DEF SaveAppendKeys, Write, DiskOK
    <2>3. disk[KeyFile] \in Seq(Keys) /\ disk[ValueFile] \in Seq(Values)
      BY <2>1 DEF PlaceOK, Saving, Renaming, KeysRenamed
    <2>4. disk'[KeyFile] \in Seq(Keys) /\ Len(disk'[KeyFile]) \in Nat /\ Len(disk[KeyFile]) \in Nat
          /\ Len(disk[KeyFile]) <= Len(disk'[KeyFile])
      <3>1. KeyOf(chunk) \in Seq(Keys)
        BY KeysAndValues DEF ItemsOK
      <3> QED
        BY <2>2, <2>3, <3>1, ConcatProperties, LenProperties
    <2>5. synced'[KeyFile] \in 0 .. Len(disk'[KeyFile])
      <3>1. synced[KeyFile] \in 0 .. Len(disk[KeyFile])
        BY <1>0, <2>3, FilesAssumption DEF DiskOK, Written
      <3> QED
        BY <2>1, <2>4, <3>1
    <2>6. DiskOK'
      <3>1. DOMAIN synced' = Name /\ \A m \in Name \ {KeyFile} : synced'[m] = synced[m]
        BY <2>1 DEF DiskOK
      <3> QED
        BY <1>0, <2>2, <2>4, <2>5, <3>1, OneFile
    <2>7. PlaceOK'
      BY <1>0, <2>1, <2>2, <2>3, <2>4 DEF PlaceOK, Saving, Renaming, KeysRenamed
    <2> QED
      BY <2>1, <2>6, <2>7 DEF ItemsOK
  <1>6. CASE SaveAppendValues
    <2>1. /\ pc = "append_values" /\ pc' = "dump"
          /\ UNCHANGED <<atomicMove, table, size, offset, chunk, exported, synced>>
          /\ KeyFile' = KeyFile /\ ValueFile' = ValueFile
      BY <1>6, SameNames DEF SaveAppendValues, Write, FilesGoto, Goto
    <2>2. /\ DOMAIN disk' = Name /\ disk'[ValueFile] = disk[ValueFile] \o ValOf(chunk)
          /\ \A m \in Name \ {ValueFile} : disk'[m] = disk[m]
      BY <1>0, <1>6 DEF SaveAppendValues, Write, DiskOK
    <2>3. disk[KeyFile] \in Seq(Keys) /\ disk[ValueFile] \in Seq(Values)
      BY <2>1 DEF PlaceOK, Saving, Renaming, KeysRenamed
    <2>4. disk'[ValueFile] \in Seq(Values) /\ Len(disk'[ValueFile]) \in Nat /\ Len(disk[ValueFile]) \in Nat
          /\ Len(disk[ValueFile]) <= Len(disk'[ValueFile])
      <3>1. ValOf(chunk) \in Seq(Values)
        BY KeysAndValues DEF ItemsOK
      <3> QED
        BY <2>2, <2>3, <3>1, ConcatProperties, LenProperties
    <2>5. synced'[ValueFile] \in 0 .. Len(disk'[ValueFile])
      <3>1. synced[ValueFile] \in 0 .. Len(disk[ValueFile])
        BY <1>0, <2>3, FilesAssumption DEF DiskOK, Written
      <3> QED
        BY <2>1, <2>4, <3>1
    <2>6. DiskOK'
      <3>1. DOMAIN synced' = Name /\ \A m \in Name \ {ValueFile} : synced'[m] = synced[m]
        BY <2>1 DEF DiskOK
      <3> QED
        BY <1>0, <2>2, <2>4, <2>5, <3>1, OneFile
    <2>7. PlaceOK'
      BY <1>0, <2>1, <2>2, <2>3, <2>4 DEF PlaceOK, Saving, Renaming, KeysRenamed
    <2> QED
      BY <2>1, <2>6, <2>7 DEF ItemsOK
  <1>7. CASE SaveSyncKeys
    <2>1. /\ pc = "dump" /\ pc' = "sync_values"
          /\ UNCHANGED <<atomicMove, table, size, offset, chunk, exported, disk>>
          /\ KeyFile' = KeyFile /\ ValueFile' = ValueFile
      BY <1>7, SameNames DEF SaveSyncKeys, Sync, FilesGoto, Goto
    <2>2. /\ DOMAIN synced' = Name /\ synced'[KeyFile] = Len(disk[KeyFile])
          /\ \A m \in Name \ {KeyFile} : synced'[m] = synced[m]
      BY <1>0, <1>7 DEF SaveSyncKeys, Sync, DiskOK
    <2>3. disk[KeyFile] \in Seq(Keys) /\ Len(disk[KeyFile]) \in Nat
      BY <2>1, LenProperties DEF PlaceOK, Saving, Renaming, KeysRenamed
    <2>4. DiskOK'
      <3>1. DOMAIN disk' = Name /\ \A m \in Name \ {KeyFile} : disk'[m] = disk[m]
        BY <2>1 DEF DiskOK
      <3> QED
        BY <1>0, <2>1, <2>2, <2>3, <3>1, OneFile
    <2>5. PlaceOK'
      BY <2>1 DEF PlaceOK, Saving, Renaming, KeysRenamed, need_tmp_file
    <2> QED
      BY <2>1, <2>4, <2>5 DEF ItemsOK
  <1>8. CASE SaveSyncValues
    <2>1. /\ pc = "sync_values" /\ pc' = (IF need_tmp_file THEN "rename_keys" ELSE "idle")
          /\ UNCHANGED <<atomicMove, table, size, offset, chunk, exported, disk>>
          /\ KeyFile' = KeyFile /\ ValueFile' = ValueFile
      BY <1>8, SameNames DEF SaveSyncValues, Sync, FilesGoto, Goto
    <2>2. /\ DOMAIN synced' = Name /\ synced'[ValueFile] = Len(disk[ValueFile])
          /\ \A m \in Name \ {ValueFile} : synced'[m] = synced[m]
      BY <1>0, <1>8 DEF SaveSyncValues, Sync, DiskOK
    <2>3. disk[ValueFile] \in Seq(Values) /\ Len(disk[ValueFile]) \in Nat
      BY <2>1, LenProperties DEF PlaceOK, Saving, Renaming, KeysRenamed
    <2>4. DiskOK'
      <3>1. DOMAIN disk' = Name /\ \A m \in Name \ {ValueFile} : disk'[m] = disk[m]
        BY <2>1 DEF DiskOK
      <3> QED
        BY <1>0, <2>1, <2>2, <2>3, <3>1, OneFile
    <2>5. PlaceOK'
      BY <2>1 DEF PlaceOK, Saving, Renaming, KeysRenamed, need_tmp_file
    <2> QED
      BY <2>1, <2>4, <2>5 DEF ItemsOK
  <1>9. CASE SaveRenameKeys
    <2>1. /\ pc = "copy_keys" /\ pc' = "rename_values" /\ ~ atomicMove
          /\ UNCHANGED <<atomicMove, table, size, offset, chunk, exported>>
          /\ KeyFile = "keys.tmp" /\ ValueFile = "values.tmp"
          /\ KeyFile' = KeyFile /\ ValueFile' = ValueFile
      BY <1>9, SameNames DEF SaveRenameKeys, Rename, FilesGoto, Goto, PlaceOK, Renaming,
                             KeyFile, ValueFile, need_tmp_file
    <2>2. /\ DOMAIN disk' = Name /\ DOMAIN synced' = Name
          /\ disk'["keys"] = disk["keys.tmp"] /\ synced'["keys"] = synced["keys.tmp"]
          /\ disk'["keys.tmp"] = NoFile /\ synced'["keys.tmp"] = 0
          /\ disk'["values"] = disk["values"] /\ synced'["values"] = synced["values"]
          /\ disk'["values.tmp"] = disk["values.tmp"] /\ synced'["values.tmp"] = synced["values.tmp"]
      BY <1>9 DEF SaveRenameKeys, Rename, DiskOK, Name
    <2>3. disk["keys.tmp"] \in Seq(Keys) /\ disk["values.tmp"] \in Seq(Values)
      BY <2>1 DEF PlaceOK, Saving, Renaming, KeysRenamed
    <2>4. DiskOK'
      BY <2>2 DEF DiskOK, Written, Name, KeyNames, ValueNames
    <2>5. PlaceOK'
      BY <2>1, <2>2, <2>3 DEF PlaceOK, Saving, Renaming, KeysRenamed
    <2> QED
      BY <2>1, <2>4, <2>5 DEF ItemsOK
  <1>10. CASE SaveRenameValues
    <2>1. /\ pc = "copy_values" /\ pc' = "idle"
          /\ UNCHANGED <<atomicMove, table, size, offset, chunk, exported>>
      BY <1>10 DEF SaveRenameValues, Rename, FilesGoto, Goto
    <2>2. /\ DOMAIN disk' = Name /\ DOMAIN synced' = Name
          /\ disk'["values"] = disk["values.tmp"] /\ synced'["values"] = synced["values.tmp"]
          /\ disk'["values.tmp"] = NoFile /\ synced'["values.tmp"] = 0
          /\ disk'["keys"] = disk["keys"] /\ synced'["keys"] = synced["keys"]
          /\ disk'["keys.tmp"] = disk["keys.tmp"] /\ synced'["keys.tmp"] = synced["keys.tmp"]
      BY <1>10 DEF SaveRenameValues, Rename, DiskOK, Name
    <2>3. DiskOK'
      BY <2>2 DEF DiskOK, Written, Name, KeyNames, ValueNames
    <2>4. PlaceOK'
      BY <2>1 DEF PlaceOK, Saving, Renaming, KeysRenamed
    <2> QED
      BY <2>1, <2>3, <2>4 DEF ItemsOK
  <1>11. CASE SaveCopyKeys
    <2>1. DiskOK'
      <3>1. "keys" \in Name /\ "keys" \in KeyNames /\ "keys" \notin ValueNames
        BY DEF Name, KeyNames, ValueNames
      <3>2. synced'["keys"] \in 0 .. Len(disk'["keys"])
        BY <1>11, CopiedKeys
      <3> QED
        BY <1>11, <3>1, <3>2, CopiedKeys, OneFile
    <2>2. PlaceOK'
      <3>1. disk["values.tmp"] \in Seq(Values)
        BY <1>11, CopiedKeys DEF PlaceOK, Saving
      <3> QED
        BY <1>11, <3>1, CopiedKeys DEF PlaceOK, Saving, Renaming, KeysRenamed, Name
    <2> QED
      BY <1>11, <2>1, <2>2, CopiedKeys DEF ItemsOK
  <1>12. CASE SaveCopyValues
    <2>1. DiskOK'
      <3>1. "values" \in Name /\ "values" \notin KeyNames /\ "values" \in ValueNames
        BY DEF Name, KeyNames, ValueNames
      <3>2. synced'["values"] \in 0 .. Len(disk'["values"])
        BY <1>12, CopiedValues
      <3> QED
        BY <1>12, <3>1, <3>2, CopiedValues, OneFile
    <2>2. PlaceOK'
      <3>1. disk["keys"] \in Seq(Keys)
        BY <1>12, CopiedValues DEF PlaceOK, KeysRenamed
      <3> QED
        BY <1>12, <3>1, CopiedValues DEF PlaceOK, Saving, Renaming, KeysRenamed, Name
    <2> QED
      BY <1>12, <2>1, <2>2, CopiedValues DEF ItemsOK
  <1> QED
    BY <1>1, <1>2, <1>3, <1>4, <1>5, <1>6, <1>7, <1>8, <1>9, <1>10, <1>11, <1>12 DEF SaveStep
-----------------------------------------------------------------------------
(* Loads, exports and imports leave the files as they are.                 *)
LEMMA LoadableFiles ==
  ASSUME DiskOK, Loadable
  PROVE  disk["keys"] \in Seq(Keys) /\ disk["values"] \in Seq(Values)
  BY DEF DiskOK, Loadable, KeyNames, ValueNames

(* The next record of a load is an item.                                   *)
LEMMA Record ==
  ASSUME TypeInv, pc = "load", offset < Len(disk["keys"]), offset < Len(disk["values"])
  PROVE  [key |-> disk["keys"][offset + 1], val |-> disk["values"][offset + 1]] \in Item
  <1>1. disk["keys"] \in Seq(Keys) /\ disk["values"] \in Seq(Values) /\ offset \in Nat
    BY DEF TypeInv, PlaceOK, ItemsOK
  <1>2. offset + 1 \in 1 .. Len(disk["keys"]) /\ offset + 1 \in 1 .. Len(disk["values"])
    BY <1>1, LenProperties
  <1> QED
    BY <1>1, <1>2, ElementOfSeq DEF Item

(* What is not there of the table has come with a record, or an export.    *)
LEMMA Loading ==
  ASSUME TypeInv, LoadOpen \/ ExportSize \/ ImportClear \/ LoadStep \/ CopyStep
  PROVE  /\ UNCHANGED <<disk, synced, atomicMove, chunk>> /\ ItemsOK'
         /\ pc' \in {"idle", "load", "export", "import"}
         /\ pc' = "load" => pc = "load" \/ Loadable
         /\ halfRenamed' = halfRenamed /\ written' = written
  <1> USE DEF TypeInv
  <1>1. CASE LoadOpen
    BY <1>1 DEF LoadOpen, Start, ItemsOK
  <1>2. CASE ExportSize
    <2>1. Len(table) \in Nat
      BY LenProperties DEF ItemsOK
    <2> QED
      BY <1>2, <2>1 DEF ExportSize, Start, ItemsOK
  <1>3. CASE ImportClear
    <2>1. << >> \in Seq(Item)
      BY EmptySeq
    <2> QED
      BY <1>3, <2>1 DEF ImportClear, Start, ItemsOK
  <1>4. CASE LoadNext
    <2>1. PICK t \in Assigned([key |-> disk["keys"][offset + 1], val |-> disk["values"][offset + 1]]) :
            Becomes(t)
      BY <1>4 DEF LoadNext
    <2>2. t \in Seq(Item)
      BY <1>4, <2>1, Record, AssignedItems DEF LoadNext, ItemsOK
    <2> QED
      BY <1>4, <2>1, <2>2 DEF LoadNext, FilesGoto, Goto, Becomes, ItemsOK
  <1>5. CASE LoadEnd
    BY <1>5 DEF LoadEnd, FilesGoto, Goto, ItemsOK
  <1>6. CASE ExportDump
    <2> DEFINE items == dump(0, size)
    <2>1. PICK tail \in [1 .. size - Len(items) -> Item] : exported' = items \o tail
      BY <1>6 DEF ExportDump
    <2>2. items \in Seq(Item) /\ Len(items) \in Nat /\ Len(items) <= size
      BY DumpItems DEF ItemsOK
    <2> HIDE DEF items
    <2>3. size - Len(items) \in Nat
      BY <2>2 DEF ItemsOK
    <2>4. tail \in Seq(Item)
      BY <2>1, <2>3, IsASeq
    <2>5. exported' \in Seq(Item)
      BY <2>1, <2>2, <2>4, ConcatProperties
    <2> QED
      BY <1>6, <2>5 DEF ExportDump, Goto, ItemsOK
  <1>7. CASE ImportNext
    <2>1. PICK t \in Assigned(exported[offset + 1]) : Becomes(t)
      BY <1>7 DEF ImportNext
    <2>2. exported[offset + 1] \in Item
      <3>1. offset + 1 \in 1 .. Len(exported)
        BY <1>7, LenProperties DEF ImportNext, ItemsOK
      <3> QED
        BY <3>1, ElementOfSeq DEF ItemsOK
    <2>3. t \in Seq(Item)
      BY <2>1, <2>2, AssignedItems DEF ItemsOK
    <2> QED
      BY <1>7, <2>1, <2>3 DEF ImportNext, FilesGoto, Goto, Becomes, ItemsOK
  <1>8. CASE ImportEnd
    BY <1>8 DEF ImportEnd, FilesGoto, Goto, ItemsOK
  <1> QED
    BY <1>1, <1>2, <1>3, <1>4, <1>5, <1>6, <1>7, <1>8 DEF LoadStep, CopyStep

LEMMA LoadInv ==
  ASSUME TypeInv, LoadOpen \/ ExportSize \/ ImportClear \/ LoadStep \/ CopyStep
  PROVE  TypeInv'
  <1>1. /\ UNCHANGED <<disk, synced, atomicMove>> /\ ItemsOK'
        /\ pc' \in {"idle", "load", "export", "import"}
        /\ pc' = "load" => pc = "load" \/ Loadable
    BY Loading
  <1>2. PlaceOK'
    BY <1>1, LoadableFiles DEF TypeInv, PlaceOK, Saving, Renaming, KeysRenamed
  <1> QED
    BY <1>1, <1>2, StaysOpen
-----------------------------------------------------------------------------
(* Crashes and errors.                                                     *)

(* What a crash leaves of the files: of each a beginning, and all that was *)
(* synced.                                                                 *)
LEMMA CrashFiles ==
  ASSUME DiskOK, atomicMove \in BOOLEAN, Crash
  PROVE  /\ DOMAIN disk' = Name /\ DOMAIN synced' = Name
         /\ \A n \in Name : /\ synced'[n] \in synced[n] .. Written(n)
                            /\ n \notin {KeyFile, ValueFile} => synced'[n] = synced[n]
                            /\ disk[n] = NoFile => disk'[n] = NoFile
                            /\ disk[n] # NoFile => disk'[n] = SubSeq(disk[n], 1, synced'[n])
  <1>0. KeyFile \in Name /\ ValueFile \in Name /\ KeyFile # ValueFile
    BY FileNames
  <1>1. PICK k \in synced[KeyFile] .. Written(KeyFile), v \in synced[ValueFile] .. Written(ValueFile) :
          /\ disk' = [n \in Name |-> IF disk[n] = NoFile THEN NoFile
                                     ELSE SubSeq(disk[n], 1, [synced EXCEPT ![KeyFile] = k, ![ValueFile] = v][n])]
          /\ synced' = [synced EXCEPT ![KeyFile] = k, ![ValueFile] = v]
    BY DEF Crash
  <1>2. disk' = [n \in Name |-> IF disk[n] = NoFile THEN NoFile ELSE SubSeq(disk[n], 1, synced'[n])]
    BY <1>1
  <1>3. /\ DOMAIN synced' = Name /\ synced'[KeyFile] = k /\ synced'[ValueFile] = v
        /\ \A n \in Name \ {KeyFile, ValueFile} : synced'[n] = synced[n]
    BY <1>0, <1>1 DEF DiskOK
  <1>4. \A n \in Name : synced[n] \in synced[n] .. Written(n)
    <2> SUFFICES ASSUME NEW n \in Name PROVE synced[n] \in synced[n] .. Written(n)
      OBVIOUS
    <2>1. synced[n] \in 0 .. Written(n)
      BY DEF DiskOK
    <2> QED
      BY <2>1
  <1>5. \A n \in Name : synced'[n] \in synced[n] .. Written(n)
    BY <1>1, <1>3, <1>4
  <1> QED
    BY <1>2, <1>3, <1>5

LEMMA CrashInv ==
  ASSUME TypeInv, Crash
  PROVE  TypeInv'
  <1>1. /\ table' = << >> /\ pc' = "idle" /\ size' = 0 /\ offset' = 0 /\ chunk' = << >>
        /\ UNCHANGED <<atomicMove, exported>> /\ << >> \in Seq(Item)
    BY EmptySeq DEF Crash
  <1>2. ItemsOK' /\ PlaceOK'
    BY <1>1 DEF TypeInv, ItemsOK, PlaceOK, Saving, Renaming, KeysRenamed
  <1>3. /\ DOMAIN disk' = Name /\ DOMAIN synced' = Name
        /\ \A n \in Name : /\ synced'[n] \in synced[n] .. Written(n)
                           /\ disk[n] = NoFile => disk'[n] = NoFile
                           /\ disk[n] # NoFile => disk'[n] = SubSeq(disk[n], 1, synced'[n])
    BY CrashFiles DEF TypeInv
  <1>4. ASSUME NEW S \in {Keys, Values}, NEW n \in Name, disk[n] \in Seq(S)
        PROVE  disk'[n] \in Seq(S) /\ synced'[n] \in 0 .. Written(n)'
    <2>1. disk[n] # NoFile
      BY <1>4, FilesAssumption
    <2>2. synced'[n] \in 0 .. Len(disk[n])
      <3>1. Written(n) = Len(disk[n]) /\ synced[n] \in 0 .. Written(n) /\ Len(disk[n]) \in Nat
        BY <1>4, <2>1, LenProperties DEF TypeInv, DiskOK, Written
      <3>2. synced'[n] \in synced[n] .. Written(n)
        BY <1>3
      <3> QED
        BY <3>1, <3>2
    <2>3. disk'[n] \in Seq(S) /\ Len(disk'[n]) = synced'[n]
      <3>1. disk'[n] = SubSeq(disk[n], 1, synced'[n])
        BY <1>3, <2>1
      <3>2. /\ SubSeq(disk[n], 1, synced'[n]) \in Seq(S)
            /\ Len(SubSeq(disk[n], 1, synced'[n])) = synced'[n]
        BY <1>4, <2>2, Beginning
      <3> QED
        BY <3>1, <3>2
    <2>4. disk'[n] # NoFile
      BY <1>4, <2>3, FilesAssumption
    <2> QED
      BY <2>2, <2>3, <2>4 DEF Written
  <1>5. ASSUME NEW n \in Name, disk[n] = NoFile
        PROVE  disk'[n] = NoFile /\ synced'[n] \in 0 .. Written(n)'
    <2>1. disk'[n] = NoFile /\ Written(n) = 0 /\ synced[n] \in 0 .. 0 /\ Written(n)' = 0
      BY <1>3, <1>5 DEF TypeInv, DiskOK, Written
    <2>2. synced'[n] \in synced[n] .. Written(n)
      BY <1>3
    <2> QED
      BY <2>1, <2>2
  <1>6. DiskOK'
    <2>1. Name = KeyNames \cup ValueNames
      BY DEF Name, KeyNames, ValueNames
    <2>2. \A n \in KeyNames : (disk'[n] = NoFile \/ disk'[n] \in Seq(Keys)) /\ synced'[n] \in 0 .. Written(n)'
      BY <1>4, <1>5, <2>1 DEF TypeInv, DiskOK
    <2>3. \A n \in ValueNames : (disk'[n] = NoFile \/ disk'[n] \in Seq(Values)) /\ synced'[n] \in 0 .. Written(n)'
      BY <1>4, <1>5, <2>1 DEF TypeInv, DiskOK
    <2> QED
      BY <1>3, <2>1, <2>2, <2>3 DEF DiskOK
  <1> QED
    BY <1>1, <1>2, <1>6 DEF TypeInv

LEMMA FailInv ==
  ASSUME TypeInv, Fail
  PROVE  TypeInv'
  <1>1. PlaceOK' /\ ItemsOK'
    BY DEF Fail, TypeInv, PlaceOK, ItemsOK, Saving, Renaming, KeysRenamed
  <1> QED
    BY <1>1, StaysOpen DEF Fail

LEMMA StepInv == TypeInv /\ [Next]_vars => TypeInv'
  <1> SUFFICES ASSUME TypeInv, [Next]_vars PROVE TypeInv'
    OBVIOUS
  <1>1. CASE UNCHANGED vars
    <2>1. PlaceOK' /\ ItemsOK'
      BY <1>1 DEF vars, impl, TypeInv, PlaceOK, ItemsOK, KeyFile, ValueFile, need_tmp_file
    <2> QED
      BY <1>1, <2>1, StaysOpen DEF vars, impl
  <1> QED
    BY <1>1, SaveInv, LoadInv, TrainInv, CrashInv, FailInv DEF Next, Finished

LEMMA InitInv == Init => TypeInv
  <1> SUFFICES ASSUME Init PROVE TypeInv
    OBVIOUS
  <1>1. ItemsOK /\ PlaceOK
    BY EmptySeq DEF Init, ItemsOK, PlaceOK, Saving, Renaming, KeysRenamed
  <1>2. DiskOK
    BY DEF Init, DiskOK, Written, KeyNames, ValueNames, Name
  <1> QED
    BY <1>1, <1>2, FilesAssumption DEF Init, TypeInv

(* The types, with which files are there when: an invariant, inductive.    *)
THEOREM TypeInvKept == Spec => []TypeInv
  BY InitInv, StepInv, PTL DEF Spec

(* What was synced of a file never exceeds what there is of it, and all    *)
(* else that TypeOK says.                                                  *)
THEOREM TypeCorrect == Spec => []TypeOK
  <1>1. TypeInv => TypeOK
    BY DEF TypeInv, TypeOK, DiskOK, PlaceOK, ItemsOK, Name, KeyNames, ValueNames
  <1> QED
    BY <1>1, TypeInvKept, PTL
-----------------------------------------------------------------------------
(* The last checkpoint.                                                    *)
CheckpointNames == {"keys", "values"}

(* Only the renames write to the files that a load opens.                  *)
LEMMA FilesStay ==
  ASSUME TypeInv, Durable, ~ atomicMove, [Next]_vars,
         pc \notin Renaming
  PROVE  \A n \in CheckpointNames : disk'[n] = disk[n] /\ synced'[n] = synced[n]
  <1>0. /\ KeyFile = "keys.tmp" /\ ValueFile = "values.tmp" /\ DOMAIN disk = Name /\ DOMAIN synced = Name
        /\ Name = {"keys", "values", "keys.tmp", "values.tmp"}
    BY DEF KeyFile, ValueFile, need_tmp_file, TypeInv, DiskOK, Name
  <1>1. CASE SaveOpenKeys \/ SaveOpenValues
    BY <1>0, <1>1 DEF SaveOpenKeys, SaveOpenValues, Open, CheckpointNames
  <1>2. CASE SaveAppendKeys \/ SaveAppendValues
    BY <1>0, <1>2 DEF SaveAppendKeys, SaveAppendValues, Write, CheckpointNames
  <1>3. CASE SaveSyncKeys \/ SaveSyncValues
    BY <1>0, <1>3 DEF SaveSyncKeys, SaveSyncValues, Sync, CheckpointNames
  <1>4. CASE UNCHANGED <<disk, synced>>
    BY <1>4
  <1>5. CASE Crash
    <2>1. /\ \A n \in CheckpointNames : disk[n] = NoFile \/ \E S \in {Keys, Values} : disk[n] \in Seq(S)
          /\ CheckpointNames \subseteq Name /\ \A n \in CheckpointNames : n \notin {KeyFile, ValueFile}
      BY <1>0 DEF TypeInv, DiskOK, CheckpointNames, KeyNames, ValueNames
    <2> SUFFICES ASSUME NEW n \in CheckpointNames
                 PROVE  disk'[n] = disk[n] /\ synced'[n] = synced[n]
      OBVIOUS
    <2>2. /\ synced'[n] = synced[n]
          /\ disk[n] = NoFile => disk'[n] = NoFile
          /\ disk[n] # NoFile => disk'[n] = SubSeq(disk[n], 1, synced'[n])
      BY <1>5, <2>1, CrashFiles DEF TypeInv
    <2>3. synced[n] = Written(n)
      BY DEF Durable, CheckpointNames
    <2>4. ASSUME disk[n] # NoFile PROVE disk'[n] = disk[n]
      <3>1. PICK S \in {Keys, Values} : disk[n] \in Seq(S)
        BY <2>1, <2>4
      <3>2. synced[n] = Len(disk[n]) /\ Len(disk[n]) \in 0 .. Len(disk[n])
        BY <2>3, <2>4, <3>1, LenProperties DEF Written
      <3>3. SubSeq(disk[n], 1, synced[n]) = disk[n]
        BY <3>1, <3>2, Beginning
      <3> QED
        BY <2>2, <2>4, <3>3
    <2> QED
      BY <2>2, <2>4
  <1>6. \/ SaveOpenKeys \/ SaveOpenValues \/ SaveAppendKeys \/ SaveAppendValues
        \/ SaveSyncKeys \/ SaveSyncValues \/ Crash \/ UNCHANGED <<disk, synced>>
    <2>1. CASE SaveSize \/ SaveDump
      BY <2>1 DEF SaveSize, SaveDump
    <2>2. CASE LoadOpen \/ ExportSize \/ ImportClear \/ LoadStep \/ CopyStep
      BY <2>2, Loading
    <2>3. CASE Train
      BY <2>3, TrainItems DEF TypeInv, ItemsOK, Trained
    <2>4. CASE Fail \/ UNCHANGED vars
      BY <2>4 DEF Fail, vars, impl
    <2>5. ~ SaveCopyKeys /\ ~ SaveRenameKeys /\ ~ SaveCopyValues /\ ~ SaveRenameValues
      BY DEF SaveCopyKeys, SaveRenameKeys, SaveCopyValues, SaveRenameValues, Renaming
    <2> QED
      BY <2>1, <2>2, <2>3, <2>4, <2>5 DEF Next, SaveStep, Finished
  <1> QED
    BY <1>1, <1>2, <1>3, <1>4, <1>5, <1>6

(* What the temporary files hold is synced before they are renamed.        *)
LEMMA SyncedTemporaries ==
  ASSUME TypeInv, Durable, ~ atomicMove, [Next]_vars, ~ atomicMove'
  PROVE  /\ pc' \in {"sync_values", "rename_keys", "copy_keys"}
              => synced'["keys.tmp"] = Written("keys.tmp")'
         /\ pc' \in Renaming => synced'["values.tmp"] = Written("values.tmp")'
  <1> USE DEF Renaming
  <1>0. /\ KeyFile = "keys.tmp" /\ ValueFile = "values.tmp" /\ DOMAIN disk = Name /\ DOMAIN synced = Name
        /\ Name = {"keys", "values", "keys.tmp", "values.tmp"}
    BY DEF KeyFile, ValueFile, need_tmp_file, TypeInv, DiskOK, Name
  <1>1. CASE SaveOpenKeys \/ SaveOpenValues \/ SaveSize \/ SaveDump \/ SaveAppendKeys \/ SaveAppendValues
    <2>1. pc' \in {"open_values", "size", "dump", "append_keys", "append_values"}
      BY <1>1 DEF SaveOpenKeys, Start, SaveOpenValues, SaveSize, SaveDump,
                  SaveAppendKeys, SaveAppendValues, FilesGoto, Goto
    <2> QED
      BY <2>1
  <1>2. CASE SaveSyncKeys
    <2>1. disk["keys.tmp"] \in Seq(Keys)
      BY <1>0, <1>2 DEF SaveSyncKeys, TypeInv, PlaceOK, Saving, KeysRenamed
    <2>2. /\ pc' = "sync_values" /\ disk' = disk
          /\ synced'["keys.tmp"] = Len(disk["keys.tmp"])
      BY <1>0, <1>2 DEF SaveSyncKeys, Sync, FilesGoto, Goto
    <2> QED
      BY <2>1, <2>2, FilesAssumption DEF Written
  <1>3. CASE SaveSyncValues
    <2>1. disk["values.tmp"] \in Seq(Values) /\ pc = "sync_values"
      BY <1>0, <1>3 DEF SaveSyncValues, TypeInv, PlaceOK, Saving
    <2>2. /\ pc' = "rename_keys" \/ pc' = "idle"
          /\ disk' = disk /\ synced'["keys.tmp"] = synced["keys.tmp"]
          /\ synced'["values.tmp"] = Len(disk["values.tmp"])
      BY <1>0, <1>3 DEF SaveSyncValues, Sync, FilesGoto, Goto
    <2> QED
      BY <2>1, <2>2, FilesAssumption DEF Written, Durable
  <1>4. CASE SaveRenameKeys
    <2>1. /\ pc = "copy_keys" /\ pc' = "rename_values"
          /\ disk'["values.tmp"] = disk["values.tmp"] /\ synced'["values.tmp"] = synced["values.tmp"]
      BY <1>0, <1>4 DEF SaveRenameKeys, Rename, FilesGoto, Goto
    <2> QED
      BY <2>1 DEF Durable, Written
  <1>5. CASE SaveRenameValues \/ Crash \/ Fail
    BY <1>5 DEF SaveRenameValues, FilesGoto, Goto, Crash, Fail
  <1>6. CASE LoadOpen \/ ExportSize \/ ImportClear \/ LoadStep \/ CopyStep
    BY <1>6, Loading
  <1>7. CASE Train \/ UNCHANGED vars
    <2>1. UNCHANGED <<disk, synced, pc>>
      BY <1>7, TrainItems DEF TypeInv, ItemsOK, Trained, vars, impl
    <2> QED
      BY <2>1 DEF Durable, Written
  <1>8. CASE SaveCopyKeys
    <2>1. /\ pc = "rename_keys" /\ pc' = "copy_keys"
          /\ disk'["keys.tmp"] = disk["keys.tmp"] /\ synced'["keys.tmp"] = synced["keys.tmp"]
          /\ disk'["values.tmp"] = disk["values.tmp"] /\ synced'["values.tmp"] = synced["values.tmp"]
      BY <1>0, <1>8, CopiedKeys
    <2> QED
      BY <2>1 DEF Durable, Written
  <1>9. CASE SaveCopyValues
    <2>1. /\ pc = "rename_values" /\ pc' = "copy_values"
          /\ disk'["values.tmp"] = disk["values.tmp"] /\ synced'["values.tmp"] = synced["values.tmp"]
      BY <1>0, <1>9, CopiedValues
    <2> QED
      BY <2>1 DEF Durable, Written
  <1> QED
    BY <1>1, <1>2, <1>3, <1>4, <1>5, <1>6, <1>7, <1>8, <1>9 DEF Next, SaveStep, Finished

LEMMA DurableStep == TypeInv /\ Durable /\ [Next]_vars => Durable'
  <1> SUFFICES ASSUME TypeInv, Durable, [Next]_vars, ~ atomicMove'
               PROVE  /\ synced'["keys"] = Written("keys")' /\ synced'["values"] = Written("values")'
                      /\ pc' \in {"sync_values", "rename_keys", "copy_keys"}
                           => synced'["keys.tmp"] = Written("keys.tmp")'
                      /\ pc' \in Renaming => synced'["values.tmp"] = Written("values.tmp")'
    BY DEF Durable
  <1>1. ~ atomicMove
    <2>1. UNCHANGED atomicMove
      <3>1. CASE SaveOpenKeys \/ SaveStep
        BY <3>1 DEF SaveOpenKeys, Start, SaveStep, SaveOpenValues, SaveSize, SaveDump, SaveAppendKeys,
                    SaveAppendValues, SaveSyncKeys, SaveSyncValues, SaveCopyKeys, SaveRenameKeys,
                    SaveCopyValues, SaveRenameValues, FilesGoto, Goto
      <3>2. CASE LoadOpen \/ ExportSize \/ ImportClear \/ LoadStep \/ CopyStep
        BY <3>2, Loading
      <3>3. CASE Train
        BY <3>3, TrainItems DEF TypeInv, ItemsOK, Trained
      <3>4. CASE Crash \/ Fail \/ UNCHANGED vars
        BY <3>4 DEF Crash, Fail, vars
      <3> QED
        BY <3>1, <3>2, <3>3, <3>4 DEF Next, Finished
    <2> QED
      BY <2>1
  <1>2. synced'["keys"] = Written("keys")' /\ synced'["values"] = Written("values")'
    <2>1. CASE pc \notin Renaming
      BY <1>1, <2>1, FilesStay DEF Durable, Written, CheckpointNames
    <2>2. CASE pc \in Renaming
      <3>0. /\ DOMAIN disk = Name /\ DOMAIN synced = Name
            /\ Name = {"keys", "values", "keys.tmp", "values.tmp"}
            /\ KeyFile = "keys.tmp" /\ ValueFile = "values.tmp"
        BY <1>1 DEF TypeInv, DiskOK, Name, KeyFile, ValueFile, need_tmp_file
      <3>1. CASE SaveRenameKeys
        <4>1. /\ disk'["keys"] = disk["keys.tmp"] /\ synced'["keys"] = synced["keys.tmp"]
              /\ disk'["values"] = disk["values"] /\ synced'["values"] = synced["values"]
          BY <3>0, <3>1 DEF SaveRenameKeys, Rename
        <4> QED
          BY <1>1, <3>1, <4>1 DEF SaveRenameKeys, Durable, Written, Renaming
      <3>2. CASE SaveRenameValues
        <4>1. /\ disk'["values"] = disk["values.tmp"] /\ synced'["values"] = synced["values.tmp"]
              /\ disk'["keys"] = disk["keys"] /\ synced'["keys"] = synced["keys"]
          BY <3>0, <3>2 DEF SaveRenameValues, Rename
        <4> QED
          BY <1>1, <3>2, <4>1 DEF SaveRenameValues, Durable, Written, Renaming
      <3>3. CASE UNCHANGED <<disk, synced>>
        BY <1>1, <3>3 DEF Durable, Written
      <3>4. CASE Crash
        <4> SUFFICES ASSUME NEW n \in CheckpointNames PROVE synced'[n] = Written(n)'
          BY DEF CheckpointNames
        <4>1. /\ n \in Name /\ n \notin {KeyFile, ValueFile} /\ synced[n] = Written(n)
              /\ disk[n] = NoFile \/ \E S \in {Keys, Values} : disk[n] \in Seq(S)
          BY <1>1, <3>0 DEF TypeInv, DiskOK, CheckpointNames, KeyNames, ValueNames, Durable
        <4>2. /\ synced'[n] = synced[n]
              /\ disk[n] = NoFile => disk'[n] = NoFile
              /\ disk[n] # NoFile => disk'[n] = SubSeq(disk[n], 1, synced'[n])
          BY <3>4, <4>1, CrashFiles DEF TypeInv
        <4>3. CASE disk[n] = NoFile
          BY <4>1, <4>2, <4>3 DEF Written
        <4>4. CASE disk[n] # NoFile
          <5>1. PICK S \in {Keys, Values} : disk[n] \in Seq(S)
            BY <4>1, <4>4
          <5>2. synced[n] = Len(disk[n]) /\ Len(disk[n]) \in 0 .. Len(disk[n])
            BY <4>1, <4>4, <5>1, LenProperties DEF Written
          <5>3. SubSeq(disk[n], 1, synced[n]) = disk[n]
            BY <5>1, <5>2, Beginning
          <5> QED
            BY <4>1, <4>2, <4>4, <5>3 DEF Written
        <4> QED
          BY <4>3, <4>4
      <3>5. CASE SaveCopyKeys \/ SaveCopyValues
        <4> SUFFICES ASSUME NEW n \in CheckpointNames PROVE synced'[n] = Written(n)'
          BY DEF CheckpointNames
        <4>1. \/ disk'[n] = disk[n] /\ synced'[n] = synced[n]
              \/ disk'[n] # NoFile /\ synced'[n] = Len(disk'[n])
          <5>1. n \in Name
            BY <3>0 DEF CheckpointNames
          <5>2. CASE SaveCopyKeys
            BY <5>1, <5>2, CopiedKeys, FilesAssumption
          <5>3. CASE SaveCopyValues
            BY <5>1, <5>3, CopiedValues, FilesAssumption
          <5> QED
            BY <3>5, <5>2, <5>3
        <4> QED
          BY <1>1, <4>1 DEF Durable, Written, CheckpointNames
      <3>6. SaveCopyKeys \/ SaveRenameKeys \/ SaveCopyValues \/ SaveRenameValues \/ Crash
            \/ UNCHANGED <<disk, synced>>
        <4>1. /\ ~ SaveOpenKeys
              /\ SaveStep => SaveCopyKeys \/ SaveRenameKeys \/ SaveCopyValues \/ SaveRenameValues
          BY <2>2 DEF SaveOpenKeys, Start, SaveStep, SaveOpenValues, SaveSize, SaveDump, SaveAppendKeys,
                      SaveAppendValues, SaveSyncKeys, SaveSyncValues, Renaming
        <4>2. CASE LoadOpen \/ ExportSize \/ ImportClear \/ LoadStep \/ CopyStep
          BY <4>2, Loading
        <4>3. CASE Train
          BY <4>3, TrainItems DEF TypeInv, ItemsOK, Trained
        <4>4. CASE Fail \/ UNCHANGED vars
          BY <4>4 DEF Fail, vars, impl
        <4> QED
          BY <4>1, <4>2, <4>3, <4>4 DEF Next, Finished
      <3> QED
        BY <3>1, <3>2, <3>3, <3>4, <3>5, <3>6
    <2> QED
      BY <2>1, <2>2
  <1> QED
    BY <1>1, <1>2, SyncedTemporaries

(* No crash undoes what a load would see, with temporary files.            *)
THEOREM DurableKept == Spec => []Durable
  <1>1. Init => Durable
    BY DEF Init, Durable, Written, Name
  <1> QED
    BY <1>1, DurableStep, TypeInvKept, PTL DEF Spec

(* With temporary files the last checkpoint stays as it is, through crashes*)
(* and errors of any number, until the renames of the next one begin.      *)
THEOREM LastCheckpointStays == Spec => CheckpointStable
  <1>1. TypeInv /\ Durable /\ [Next]_vars
          => [~ atomicMove /\ Restored' # Restored => pc \in Renaming]_vars
    <2> SUFFICES ASSUME TypeInv, Durable, [Next]_vars, ~ atomicMove,
                        pc \notin Renaming
                 PROVE  Restored' = Restored
      OBVIOUS
    <2>1. disk'["keys"] = disk["keys"] /\ disk'["values"] = disk["values"]
      BY FilesStay DEF CheckpointNames
    <2> QED
      BY <2>1 DEF Restored, Loadable
  <1> QED
    BY <1>1, TypeInvKept, DurableKept, PTL DEF Spec, CheckpointStable
-----------------------------------------------------------------------------
(* Keys and values stay together.  From here on a save begins its files    *)
(* anew (append_to_file is not asked for).                                 *)
WritesFiles == SaveOpenKeys \/ SaveOpenValues \/ SaveAppendKeys \/ SaveAppendValues
             \/ SaveCopyKeys \/ SaveRenameKeys \/ SaveCopyValues \/ SaveRenameValues

(* Other steps than those leave the contents of the files.                 *)
LEMMA OtherSteps ==
  ASSUME TypeInv, [Next]_vars, ~ WritesFiles, ~ Crash
  PROVE  /\ disk' = disk /\ atomicMove' = atomicMove /\ written \subseteq written'
         /\ chunk' = chunk \/ SaveDump
         /\ (pc' = pc /\ chunk' = chunk) \/ SaveSize \/ SaveDump
            \/ pc' \notin {"open_values", "size", "dump", "append_keys", "append_values"}
                          \cup HalfRenamed \cup KeysRenamed
         /\ pc \in HalfRenamed => pc' = pc \/ halfRenamed'
  <1> USE DEF HalfRenamed, KeysRenamed
  <1>1. CASE SaveSize \/ SaveDump \/ SaveSyncKeys \/ SaveSyncValues
    BY <1>1 DEF SaveSize, SaveDump, SaveSyncKeys, SaveSyncValues, Sync, FilesGoto, Goto
  <1>2. CASE LoadOpen \/ ExportSize \/ ImportClear \/ LoadStep \/ CopyStep
    <2>1. pc \notin HalfRenamed
      BY <1>2 DEF LoadOpen, ExportSize, ImportClear, Start, LoadStep, LoadNext, LoadEnd,
                  CopyStep, ExportDump, ImportNext, ImportEnd
    <2> QED
      BY <1>2, <2>1, Loading
  <1>3. CASE Train
    BY <1>3, TrainItems DEF TypeInv, ItemsOK, Trained
  <1>4. CASE Fail \/ UNCHANGED vars
    BY <1>4 DEF Fail, vars, impl, hist
  <1> QED
    BY <1>1, <1>2, <1>3, <1>4 DEF Next, SaveStep, WritesFiles, Finished

(* The two files a save writes to, and what it does to them.               *)
LEMMA Growing ==
  ASSUME TypeInv, SaveAppendKeys \/ SaveAppendValues
  PROVE  /\ disk[KeyFile] \in Seq(Keys) /\ disk[ValueFile] \in Seq(Values) /\ chunk \in Seq(Item)
         /\ KeyFile' = KeyFile /\ ValueFile' = ValueFile
         /\ SaveAppendKeys => disk' = [disk EXCEPT ![KeyFile] = @ \o KeyOf(chunk)]
         /\ SaveAppendValues => disk' = [disk EXCEPT ![ValueFile] = @ \o ValOf(chunk)]
         /\ UNCHANGED <<table, chunk, exported, written, halfRenamed, short>>
  BY SameNames DEF TypeInv, PlaceOK, ItemsOK, Saving, KeysRenamed, SaveAppendKeys, SaveAppendValues,
                   Write, FilesGoto, Goto

LEMMA Appended ==
  ASSUME NEW S, NEW s \in Seq(S), NEW t \in Seq(S)
  PROVE  /\ Len(s) \in Nat /\ Len(t) \in Nat /\ Len(s \o t) = Len(s) + Len(t)
         /\ DOMAIN s = 1 .. Len(s) /\ DOMAIN (s \o t) = 1 .. Len(s) + Len(t)
         /\ \A i \in 1 .. Len(s) : (s \o t)[i] = s[i]
         /\ \A i \in 1 .. Len(t) : (s \o t)[Len(s) + i] = t[i]
  <1>1. Len(s) \in Nat /\ Len(t) \in Nat /\ DOMAIN s = 1 .. Len(s)
    BY LenProperties
  <1>2. /\ s \o t \in Seq(S) /\ Len(s \o t) = Len(s) + Len(t)
        /\ \A i \in 1 .. Len(s) + Len(t) : (s \o t)[i] = IF i <= Len(s) THEN s[i] ELSE t[i - Len(s)]
    BY ConcatProperties
  <1>3. ASSUME NEW i \in 1 .. Len(t) PROVE (s \o t)[Len(s) + i] = t[i]
    <2>1. Len(s) + i \in 1 .. Len(s) + Len(t) /\ ~ (Len(s) + i <= Len(s)) /\ Len(s) + i - Len(s) = i
      BY <1>1
    <2> QED
      BY <1>2, <2>1
  <1> QED
    BY <1>1, <1>2, <1>3, LenProperties

LEMMA AppendedChunk ==
  ASSUME NEW K \in Seq(Keys), NEW V \in Seq(Values), NEW c \in Seq(Item)
  PROVE  /\ Len(K) \in Nat /\ Len(V) \in Nat /\ Len(c) \in Nat
         /\ DOMAIN K = 1 .. Len(K) /\ DOMAIN V = 1 .. Len(V)
         /\ Len(K \o KeyOf(c)) = Len(K) + Len(c) /\ Len(V \o ValOf(c)) = Len(V) + Len(c)
         /\ DOMAIN (V \o ValOf(c)) = 1 .. Len(V) + Len(c)
         /\ \A i \in 1 .. Len(K) : (K \o KeyOf(c))[i] = K[i]
         /\ \A i \in 1 .. Len(V) : (V \o ValOf(c))[i] = V[i]
         /\ \A i \in 1 .. Len(c) : (K \o KeyOf(c))[Len(K) + i] = c[i].key
         /\ \A i \in 1 .. Len(c) : (V \o ValOf(c))[Len(V) + i] = c[i].val
  <1>1. /\ KeyOf(c) \in Seq(Keys) /\ Len(KeyOf(c)) = Len(c)
        /\ ValOf(c) \in Seq(Values) /\ Len(ValOf(c)) = Len(c)
        /\ \A i \in 1 .. Len(c) : KeyOf(c)[i] = c[i].key /\ ValOf(c)[i] = c[i].val
    BY KeysAndValues
  <1> DEFINE kc == KeyOf(c)
             vc == ValOf(c)
  <1> HIDE DEF kc, vc
  <1>2. /\ Len(K) \in Nat /\ Len(kc) \in Nat /\ Len(K \o kc) = Len(K) + Len(kc)
        /\ DOMAIN K = 1 .. Len(K)
        /\ \A i \in 1 .. Len(K) : (K \o kc)[i] = K[i]
        /\ \A i \in 1 .. Len(kc) : (K \o kc)[Len(K) + i] = kc[i]
    <2>1. kc \in Seq(Keys)
      BY <1>1 DEF kc
    <2> QED
      BY <2>1, Appended
  <1>3. /\ Len(V) \in Nat /\ Len(vc) \in Nat /\ Len(V \o vc) = Len(V) + Len(vc)
        /\ DOMAIN V = 1 .. Len(V) /\ DOMAIN (V \o vc) = 1 .. Len(V) + Len(vc)
        /\ \A i \in 1 .. Len(V) : (V \o vc)[i] = V[i]
        /\ \A i \in 1 .. Len(vc) : (V \o vc)[Len(V) + i] = vc[i]
    <2>1. vc \in Seq(Values)
      BY <1>1 DEF vc
    <2> QED
      BY <2>1, Appended
  <1> QED
    BY <1>1, <1>2, <1>3 DEF kc, vc

LEMMA InStepKept == ASSUME ~ AppendToFile PROVE TypeInv /\ InStep /\ [Next]_vars => InStep'
  <1> SUFFICES ASSUME TypeInv, InStep, [Next]_vars PROVE InStep'
    OBVIOUS
  <1>0. /\ KeyFile \in Name /\ ValueFile \in Name /\ KeyFile # ValueFile /\ DOMAIN disk = Name
        /\ Len(<< >>) = 0
    BY FileNames DEF TypeInv, DiskOK
  <1>1. CASE SaveOpenKeys
    <2>1. /\ pc' = "open_values" /\ KeyFile' = KeyFile
          /\ disk'[KeyFile] = << >>
      BY <1>0, <1>1, SameNames DEF SaveOpenKeys, Start, Open, Opened
    <2> QED
      BY <1>0, <2>1 DEF InStep
  <1>2. CASE SaveOpenValues
    <2>1. /\ pc = "open_values" /\ pc' = "size" /\ KeyFile' = KeyFile /\ ValueFile' = ValueFile
          /\ disk'[ValueFile] = << >> /\ disk'[KeyFile] = disk[KeyFile]
      BY <1>0, <1>2, SameNames DEF SaveOpenValues, Open, Opened, FilesGoto, Goto
    <2> QED
      BY <1>0, <2>1 DEF InStep
  <1>3. CASE SaveAppendKeys
    <2> DEFINE K == disk[KeyFile]
               V == disk[ValueFile]
    <2>1. /\ K \in Seq(Keys) /\ V \in Seq(Values) /\ chunk \in Seq(Item) /\ chunk' = chunk
          /\ KeyFile' = KeyFile /\ ValueFile' = ValueFile
          /\ disk'[KeyFile] = K \o KeyOf(chunk) /\ disk'[ValueFile] = V
          /\ pc = "append_keys" /\ pc' = "append_values"
      BY <1>0, <1>3, Growing DEF SaveAppendKeys, FilesGoto, Goto
    <2>2. Len(K) = Len(V)
      BY <2>1 DEF InStep
    <2>3. /\ Len(K \o KeyOf(chunk)) = Len(K) + Len(chunk)
          /\ \A i \in 1 .. Len(chunk) : (K \o KeyOf(chunk))[Len(K) + i] = chunk[i].key
      BY <2>1, AppendedChunk
    <2> QED
      BY <2>1, <2>2, <2>3 DEF InStep
  <1>4. CASE SaveAppendValues
    <2> DEFINE K == disk[KeyFile]
               V == disk[ValueFile]
    <2>1. /\ K \in Seq(Keys) /\ V \in Seq(Values) /\ chunk \in Seq(Item)
          /\ KeyFile' = KeyFile /\ ValueFile' = ValueFile
          /\ disk'[KeyFile] = K /\ disk'[ValueFile] = V \o ValOf(chunk)
          /\ pc = "append_values" /\ pc' = "dump"
      BY <1>0, <1>4, Growing DEF SaveAppendValues, FilesGoto, Goto
    <2>2. Len(V \o ValOf(chunk)) = Len(V) + Len(chunk)
      BY <2>1, AppendedChunk
    <2> QED
      BY <2>1, <2>2 DEF InStep
  <1>5. CASE SaveCopyKeys \/ SaveRenameKeys \/ SaveCopyValues \/ SaveRenameValues \/ Crash
    BY <1>5 DEF SaveCopyKeys, SaveRenameKeys, SaveCopyValues, SaveRenameValues, Crash, FilesGoto, Goto,
                InStep
  <1>6. CASE ~ WritesFiles /\ ~ Crash
    <2>1. /\ disk' = disk /\ KeyFile' = KeyFile /\ ValueFile' = ValueFile
          /\ (pc' = pc /\ chunk' = chunk) \/ SaveSize \/ SaveDump
             \/ pc' \notin {"open_values", "size", "dump", "append_keys", "append_values"}
      BY <1>6, OtherSteps, SameNames
    <2>2. CASE SaveSize \/ SaveDump
      BY <2>1, <2>2 DEF SaveSize, SaveDump, FilesGoto, Goto, InStep
    <2> QED
      BY <2>1, <2>2 DEF InStep
  <1> QED
    BY <1>1, <1>2, <1>3, <1>4, <1>5, <1>6 DEF WritesFiles

(* Files that lose records from their ends, or are gone, stay aligned.     *)
LEMMA ShorterAligned ==
  ASSUME NEW k, NEW v, Aligned(k, v), written \subseteq written',
         \A n \in {k, v} : \/ disk'[n] = NoFile
                           \/ /\ disk[n] # NoFile
                              /\ \A i \in DOMAIN disk'[n] : i \in DOMAIN disk[n] /\ disk'[n][i] = disk[n][i]
  PROVE  Aligned(k, v)'
  BY DEF Aligned

LEMMA SameAligned ==
  ASSUME NEW k, NEW v, Aligned(k, v), written \subseteq written',
         disk'[k] = disk[k], disk'[v] = disk[v]
  PROVE  Aligned(k, v)'
  BY DEF Aligned

LEMMA EmptyAligned ==
  ASSUME NEW k, NEW v, disk'[k] = << >> \/ disk'[v] = << >>
  PROVE  Aligned(k, v)'
  <1>1. DOMAIN << >> = {}
    OBVIOUS
  <1> QED
    BY <1>1 DEF Aligned

(* A chunk that is appended, first its keys and then its values.           *)
LEMMA KeysAligned ==
  ASSUME TypeInv, InStep, SaveAppendKeys, Aligned(KeyFile, ValueFile)
  PROVE  Aligned(KeyFile, ValueFile)' /\ \A n \in Name \ {KeyFile} : disk'[n] = disk[n]
  <1> DEFINE K == disk[KeyFile]
             V == disk[ValueFile]
  <1>1. /\ K \in Seq(Keys) /\ V \in Seq(Values) /\ chunk \in Seq(Item)
        /\ KeyFile' = KeyFile /\ ValueFile' = ValueFile /\ written' = written
        /\ disk'[KeyFile] = K \o KeyOf(chunk) /\ disk'[ValueFile] = V
        /\ \A n \in Name \ {KeyFile} : disk'[n] = disk[n]
        /\ Len(K) = Len(V)
    BY Growing, FileNames DEF TypeInv, DiskOK, SaveAppendKeys, InStep
  <1>2. DOMAIN V = 1 .. Len(V) /\ DOMAIN K = 1 .. Len(K) /\ \A i \in 1 .. Len(K) : (K \o KeyOf(chunk))[i] = K[i]
    BY <1>1, AppendedChunk
  <1>3. K # NoFile /\ V # NoFile
    BY <1>1, FilesAssumption
  <1>4. \A i \in 1 .. Len(V) : [key |-> K[i], val |-> V[i]] \in written
    BY <1>1, <1>2, <1>3 DEF Aligned
  <1> QED
    BY <1>1, <1>2, <1>4 DEF Aligned

LEMMA ValuesAligned ==
  ASSUME TypeInv, InStep, SaveAppendValues, Aligned(KeyFile, ValueFile), ToSet(chunk) \subseteq written
  PROVE  Aligned(KeyFile, ValueFile)' /\ \A n \in Name \ {ValueFile} : disk'[n] = disk[n]
  <1> DEFINE K == disk[KeyFile]
             V == disk[ValueFile]
             W == V \o ValOf(chunk)
  <1>1. /\ K \in Seq(Keys) /\ V \in Seq(Values) /\ chunk \in Seq(Item)
        /\ KeyFile' = KeyFile /\ ValueFile' = ValueFile /\ written' = written
        /\ disk'[KeyFile] = K /\ disk'[ValueFile] = W
        /\ \A n \in Name \ {ValueFile} : disk'[n] = disk[n]
        /\ Len(K) = Len(V) + Len(chunk)
        /\ \A i \in 1 .. Len(chunk) : K[Len(V) + i] = chunk[i].key
    BY Growing, FileNames DEF TypeInv, DiskOK, SaveAppendValues, InStep
  <1>2. /\ Len(V) \in Nat /\ Len(chunk) \in Nat
        /\ DOMAIN V = 1 .. Len(V) /\ DOMAIN K = 1 .. Len(V) + Len(chunk)
        /\ DOMAIN W = 1 .. Len(V) + Len(chunk)
        /\ \A i \in 1 .. Len(V) : W[i] = V[i]
        /\ \A i \in 1 .. Len(chunk) : W[Len(V) + i] = chunk[i].val
    BY <1>1, AppendedChunk
  <1>3. K # NoFile /\ V # NoFile
    BY <1>1, FilesAssumption
  <1>4. ASSUME NEW i \in 1 .. Len(V) + Len(chunk) PROVE [key |-> K[i], val |-> W[i]] \in written
    <2>1. CASE i <= Len(V)
      <3>1. i \in 1 .. Len(V)
        BY <1>2, <2>1
      <3> QED
        BY <1>2, <1>3, <3>1 DEF Aligned
    <2>2. CASE ~ (i <= Len(V))
      <3>1. i - Len(V) \in 1 .. Len(chunk) /\ Len(V) + (i - Len(V)) = i
        BY <1>2, <2>2
      <3>2. chunk[i - Len(V)] \in Item /\ chunk[i - Len(V)] \in written
        BY <1>1, <3>1, ElementOfSeq, LenProperties DEF ToSet
      <3>3. K[i] = chunk[i - Len(V)].key /\ W[i] = chunk[i - Len(V)].val
        BY <1>1, <1>2, <3>1
      <3> QED
        BY <3>2, <3>3 DEF Item
    <2> QED
      BY <2>1, <2>2
  <1> HIDE DEF K, V, W
  <1>5. \A i \in DOMAIN K \cap DOMAIN W : [key |-> K[i], val |-> W[i]] \in written
    BY <1>2, <1>4
  <1> QED
    BY <1>1, <1>5 DEF Aligned, K, V, W

(* What comes into the table, the buffers and the tensors was written.     *)
LEMMA ItemsRealKept ==
  ASSUME TypeInv, ItemsReal, FilesReal, [Next]_vars, ~ short'
  PROVE  ItemsReal'
  <1> USE DEF ItemsReal
  <1>0. table \in Seq(Item) /\ chunk \in Seq(Item) /\ exported \in Seq(Item) /\ size \in Nat /\ offset \in Nat
    BY DEF TypeInv, ItemsOK
  <1>1. CASE Train
    BY <1>0, <1>1, TrainItems DEF Trained
  <1>2. CASE UNCHANGED <<table, chunk, exported, written>>
    BY <1>2
  <1>3. CASE SaveDump
    <2>1. chunk' = dump(offset, BufferSize) /\ UNCHANGED <<table, exported, written>>
      BY <1>3 DEF SaveDump, FilesGoto, Goto
    <2>2. ToSet(chunk') \subseteq ToSet(table)
      BY <1>0, <2>1, DumpItems, FilesAssumption
    <2> QED
      BY <2>1, <2>2
  <1>4. CASE LoadNext
    <2> DEFINE record == [key |-> disk["keys"][offset + 1], val |-> disk["values"][offset + 1]]
    <2>1. PICK t \in Assigned(record) : table' = t
      BY <1>4 DEF LoadNext, Becomes
    <2>2. /\ pc = "load" /\ offset < Len(disk["keys"]) /\ offset < Len(disk["values"])
          /\ UNCHANGED <<chunk, exported, written>>
      BY <1>4 DEF LoadNext, FilesGoto, Goto
    <2>3. record \in Item
      BY <2>2, Record
    <2>4. record \in written
      <3>1. disk["keys"] \in Seq(Keys) /\ disk["values"] \in Seq(Values)
        BY <2>2 DEF TypeInv, PlaceOK
      <3>2. disk["keys"] # NoFile /\ disk["values"] # NoFile
        BY <3>1, FilesAssumption
      <3>3. offset + 1 \in DOMAIN disk["keys"] /\ offset + 1 \in DOMAIN disk["values"]
        BY <1>0, <2>2, <3>1, LenProperties
      <3>4. Aligned("keys", "values")
        BY <2>2 DEF FilesReal, HalfRenamed
      <3> QED
        BY <3>2, <3>3, <3>4 DEF Aligned
    <2> HIDE DEF record
    <2>5. ToSet(table') \subseteq ToSet(table) \cup {record}
      BY <1>0, <2>1, <2>3, AssignedItems
    <2> QED
      BY <2>2, <2>4, <2>5
  <1>5. CASE ExportDump
    <2> DEFINE items == dump(0, size)
    <2>1. PICK tail \in [1 .. size - Len(items) -> Item] : exported' = items \o tail
      BY <1>5 DEF ExportDump
    <2>2. items \in Seq(Item) /\ ToSet(items) \subseteq ToSet(table) /\ Len(items) \in Nat /\ Len(items) <= size
      BY <1>0, DumpItems
    <2>3. ~ (Len(items) < size) /\ UNCHANGED <<table, chunk, written>>
      BY <1>5 DEF ExportDump, Goto
    <2> HIDE DEF items
    <2>4. 1 .. size - Len(items) = {}
      BY <1>0, <2>2, <2>3
    <2>5. tail = << >>
      <3>1. tail \in Seq(Item) /\ Len(tail) = 0
        <4>1. size - Len(items) = 0
          BY <1>0, <2>2, <2>3
        <4>2. tail \in [1 .. 0 -> Item]
          BY <2>1, <4>1
        <4> QED
          BY <4>2, IsASeq
      <3> QED
        BY <3>1, EmptySeq
    <2>6. exported' = items
      BY <2>1, <2>2, <2>5, ConcatEmptySeq
    <2> QED
      BY <2>2, <2>3, <2>6
  <1>6. CASE ImportClear
    <2>1. table' = << >> /\ ToSet(<< >>) = {} /\ UNCHANGED <<chunk, exported, written>>
      BY <1>6 DEF ImportClear, Start, ToSet
    <2> QED
      BY <2>1
  <1>7. CASE ImportNext
    <2>1. PICK t \in Assigned(exported[offset + 1]) : table' = t
      BY <1>7 DEF ImportNext, Becomes
    <2>2. offset < Len(exported) /\ UNCHANGED <<chunk, exported, written>>
      BY <1>7 DEF ImportNext, FilesGoto, Goto
    <2>3. exported[offset + 1] \in Item /\ exported[offset + 1] \in ToSet(exported)
      <3>1. offset + 1 \in 1 .. Len(exported) /\ DOMAIN exported = 1 .. Len(exported)
        BY <1>0, <2>2, LenProperties
      <3> QED
        BY <1>0, <3>1, ElementOfSeq DEF ToSet
    <2>4. ToSet(table') \subseteq ToSet(table) \cup {exported[offset + 1]}
      BY <1>0, <2>1, <2>3, AssignedItems
    <2> QED
      BY <2>2, <2>3, <2>4
  <1>8. CASE Crash
    <2>1. table' = << >> /\ chunk' = << >> /\ ToSet(<< >>) = {} /\ UNCHANGED <<exported, written>>
      BY <1>8 DEF Crash, ToSet
    <2> QED
      BY <2>1
  <1>9. CASE \/ SaveOpenKeys \/ SaveOpenValues \/ SaveSize \/ SaveAppendKeys \/ SaveAppendValues
             \/ SaveSyncKeys \/ SaveSyncValues \/ SaveCopyKeys \/ SaveRenameKeys
             \/ SaveCopyValues \/ SaveRenameValues
    BY <1>2, <1>9 DEF SaveOpenKeys, Start, SaveOpenValues, SaveSize, SaveAppendKeys, SaveAppendValues,
                SaveSyncKeys, SaveSyncValues, SaveCopyKeys, SaveRenameKeys, SaveCopyValues,
                SaveRenameValues, Write, Sync, Copy, Rename, FilesGoto, Goto
  <1>10. CASE LoadOpen \/ LoadEnd \/ ExportSize \/ ImportEnd \/ Fail \/ UNCHANGED vars
    BY <1>2, <1>10 DEF LoadOpen, LoadEnd, ExportSize, ImportEnd, Fail, Start, FilesGoto, Goto, vars, impl, hist
  <1> QED
    BY <1>1, <1>3, <1>4, <1>5, <1>6, <1>7, <1>8, <1>9, <1>10
       DEF Next, SaveStep, LoadStep, CopyStep, Finished

(* Keys and values stay aligned, but while the keys are half renamed.      *)
LEMMA FilesRealKept ==
  ASSUME ~ AppendToFile, TypeInv, InStep, ItemsReal, FilesReal, [Next]_vars, ~ halfRenamed'
  PROVE  FilesReal'
  <1>0. /\ DOMAIN disk = Name /\ Name = {"keys", "values", "keys.tmp", "values.tmp"}
        /\ \/ KeyFile = "keys" /\ ValueFile = "values"
           \/ KeyFile = "keys.tmp" /\ ValueFile = "values.tmp"
    BY DEF TypeInv, DiskOK, Name, KeyFile, ValueFile, need_tmp_file
  <1>1. CASE SaveOpenKeys
    <2>1. /\ disk'[KeyFile] = << >> /\ \A n \in Name \ {KeyFile} : disk'[n] = disk[n]
          /\ pc \notin HalfRenamed \cup KeysRenamed /\ pc' \notin HalfRenamed \cup KeysRenamed /\ written' = written
      BY <1>0, <1>1 DEF SaveOpenKeys, Start, Open, Opened, HalfRenamed, KeysRenamed
    <2>2. Aligned("keys.tmp", "values.tmp")'
      BY <1>0, <2>1, EmptyAligned, SameAligned DEF FilesReal
    <2>3. Aligned("keys", "values")'
      BY <1>0, <2>1, EmptyAligned, SameAligned DEF FilesReal
    <2> QED
      BY <2>1, <2>2, <2>3 DEF FilesReal
  <1>2. CASE SaveOpenValues
    <2>1. /\ disk'[ValueFile] = << >> /\ \A n \in Name \ {ValueFile} : disk'[n] = disk[n]
          /\ pc \notin HalfRenamed \cup KeysRenamed /\ pc' \notin HalfRenamed \cup KeysRenamed /\ written' = written
      BY <1>0, <1>2 DEF SaveOpenValues, FilesGoto, Goto, Open, Opened, HalfRenamed, KeysRenamed
    <2>2. Aligned("keys.tmp", "values.tmp")'
      BY <1>0, <2>1, EmptyAligned, SameAligned DEF FilesReal
    <2>3. Aligned("keys", "values")'
      BY <1>0, <2>1, EmptyAligned, SameAligned DEF FilesReal
    <2> QED
      BY <2>1, <2>2, <2>3 DEF FilesReal
  <1>3. CASE SaveAppendKeys
    <2>1. /\ pc \notin HalfRenamed \cup KeysRenamed /\ pc' \notin HalfRenamed \cup KeysRenamed
          /\ written' = written /\ KeyFile' = KeyFile /\ ValueFile' = ValueFile
      BY <1>3, SameNames DEF SaveAppendKeys, FilesGoto, Goto, HalfRenamed, KeysRenamed
    <2>2. Aligned(KeyFile, ValueFile)
      BY <1>0, <2>1 DEF FilesReal
    <2>3. Aligned(KeyFile, ValueFile)' /\ \A n \in Name \ {KeyFile} : disk'[n] = disk[n]
      BY <1>3, <2>2, KeysAligned
    <2>4. Aligned("keys.tmp", "values.tmp")'
      BY <1>0, <2>1, <2>3, SameAligned DEF FilesReal
    <2>5. Aligned("keys", "values")'
      BY <1>0, <2>1, <2>3, SameAligned DEF FilesReal
    <2> QED
      BY <2>1, <2>4, <2>5 DEF FilesReal
  <1>4. CASE SaveAppendValues
    <2>1. /\ pc \notin HalfRenamed \cup KeysRenamed /\ pc' \notin HalfRenamed \cup KeysRenamed
          /\ written' = written /\ KeyFile' = KeyFile /\ ValueFile' = ValueFile
      BY <1>4, SameNames DEF SaveAppendValues, FilesGoto, Goto, HalfRenamed, KeysRenamed
    <2>2. Aligned(KeyFile, ValueFile)
      BY <1>0, <2>1 DEF FilesReal
    <2>3. Aligned(KeyFile, ValueFile)' /\ \A n \in Name \ {ValueFile} : disk'[n] = disk[n]
      BY <1>4, <2>2, ValuesAligned DEF ItemsReal
    <2>4. Aligned("keys.tmp", "values.tmp")'
      BY <1>0, <2>1, <2>3, SameAligned DEF FilesReal
    <2>5. Aligned("keys", "values")'
      BY <1>0, <2>1, <2>3, SameAligned DEF FilesReal
    <2> QED
      BY <2>1, <2>4, <2>5 DEF FilesReal
  <1>5. CASE SaveRenameKeys
    <2>1. /\ disk'["keys"] = disk["keys.tmp"] /\ disk'["keys.tmp"] = NoFile
          /\ disk'["values.tmp"] = disk["values.tmp"] /\ pc' = "rename_values" /\ written' = written
      BY <1>0, <1>5 DEF SaveRenameKeys, Rename, FilesGoto, Goto
    <2>2. pc' \in HalfRenamed
      BY <2>1 DEF HalfRenamed
    <2> QED
      BY <2>1, <2>2 DEF FilesReal, Aligned
  <1>6. CASE SaveRenameValues
    <2>1. /\ disk'["values"] = disk["values.tmp"] /\ disk'["values.tmp"] = NoFile
          /\ disk'["keys"] = disk["keys"] /\ pc = "copy_values" /\ pc' = "idle" /\ written' = written
      BY <1>0, <1>6 DEF SaveRenameValues, Rename, FilesGoto, Goto
    <2>2. pc \in KeysRenamed /\ pc' \notin KeysRenamed
      BY <2>1 DEF KeysRenamed
    <2> QED
      BY <2>1, <2>2 DEF FilesReal, Aligned
  <1>7. CASE Crash
    <2>1. /\ pc \notin HalfRenamed /\ pc' \notin HalfRenamed \cup KeysRenamed
          /\ written' = written
      BY <1>7 DEF Crash, HalfRenamed, KeysRenamed
    <2>2. ASSUME NEW n \in Name
          PROVE  \/ disk'[n] = NoFile
                 \/ /\ disk[n] # NoFile
                    /\ \A i \in DOMAIN disk'[n] : i \in DOMAIN disk[n] /\ disk'[n][i] = disk[n][i]
      <3>1. /\ synced'[n] \in synced[n] .. Written(n) /\ synced[n] \in 0 .. Written(n)
            /\ disk[n] = NoFile => disk'[n] = NoFile
            /\ disk[n] # NoFile => disk'[n] = SubSeq(disk[n], 1, synced'[n])
            /\ disk[n] = NoFile \/ \E S \in {Keys, Values} : disk[n] \in Seq(S)
        BY <1>7, CrashFiles DEF TypeInv, DiskOK, KeyNames, ValueNames, Name
      <3>2. CASE disk[n] # NoFile
        <4>1. PICK S \in {Keys, Values} : disk[n] \in Seq(S)
          BY <3>1, <3>2
        <4>2. Len(disk[n]) \in Nat /\ DOMAIN disk[n] = 1 .. Len(disk[n]) /\ Written(n) = Len(disk[n])
          BY <3>2, <4>1, LenProperties DEF Written
        <4>3. synced'[n] \in 0 .. Len(disk[n])
          BY <3>1, <4>2
        <4> DEFINE b == SubSeq(disk[n], 1, synced'[n])
        <4>4. b \in Seq(S) /\ Len(b) = synced'[n] /\ \A i \in 1 .. synced'[n] : b[i] = disk[n][i]
          BY <4>1, <4>3, Beginning
        <4> HIDE DEF b
        <4>5. \A i \in DOMAIN b : i \in DOMAIN disk[n] /\ b[i] = disk[n][i]
          BY <4>2, <4>3, <4>4, LenProperties
        <4>6. disk'[n] = b
          BY <3>1, <3>2 DEF b
        <4> QED
          BY <3>2, <4>5, <4>6
      <3> QED
        BY <3>1, <3>2
    <2>3. Aligned("keys.tmp", "values.tmp")' /\ Aligned("keys", "values")'
      BY <1>0, <2>1, <2>2, ShorterAligned DEF FilesReal
    <2> QED
      BY <2>1, <2>3 DEF FilesReal
  <1>8. CASE ~ WritesFiles /\ ~ Crash
    <2>1. /\ disk' = disk /\ written \subseteq written'
          /\ pc \in HalfRenamed => pc' = pc
          /\ pc' \in HalfRenamed \cup KeysRenamed => pc = pc'
      <3>1. SaveSize \/ SaveDump => pc' \notin HalfRenamed \cup KeysRenamed
        BY DEF SaveSize, SaveDump, FilesGoto, Goto, HalfRenamed, KeysRenamed
      <3> QED
        BY <1>8, <3>1, OtherSteps
    <2>2. Aligned("keys.tmp", "values.tmp")'
      BY <2>1, SameAligned DEF FilesReal
    <2>3. pc' \notin HalfRenamed => Aligned("keys", "values")'
      BY <2>1, SameAligned DEF FilesReal
    <2>4. pc' \in KeysRenamed => Aligned("keys", "values.tmp")'
      BY <2>1, SameAligned DEF FilesReal
    <2> QED
      BY <2>2, <2>3, <2>4 DEF FilesReal
  <1>9. CASE SaveCopyKeys
    <2>1. /\ pc' \in HalfRenamed /\ pc' \notin KeysRenamed /\ written' = written
          /\ disk'["keys.tmp"] = disk["keys.tmp"] /\ disk'["values.tmp"] = disk["values.tmp"]
      BY <1>0, <1>9, CopiedKeys DEF HalfRenamed, KeysRenamed
    <2>2. Aligned("keys.tmp", "values.tmp")'
      BY <2>1, SameAligned DEF FilesReal
    <2> QED
      BY <2>1, <2>2 DEF FilesReal
  <1>10. CASE SaveCopyValues
    <2>1. /\ pc \in KeysRenamed /\ written' = written
          /\ disk'["keys.tmp"] = disk["keys.tmp"] /\ disk'["values.tmp"] = disk["values.tmp"]
          /\ disk'["keys"] = disk["keys"] /\ disk["values.tmp"] \in Seq(Values)
          /\ \A i \in DOMAIN disk'["values"] :
               i \in DOMAIN disk["values.tmp"] /\ disk'["values"][i] = disk["values.tmp"][i]
      BY <1>0, <1>10, CopiedValues DEF KeysRenamed
    <2>2. Aligned("keys.tmp", "values.tmp")' /\ Aligned("keys", "values.tmp")'
      BY <2>1, SameAligned DEF FilesReal
    <2>3. Aligned("keys", "values")'
      <3>1. disk["values.tmp"] # NoFile /\ Aligned("keys", "values.tmp")
        BY <2>1, FilesAssumption DEF FilesReal
      <3> QED
        BY <2>1, <3>1 DEF Aligned
    <2> QED
      BY <2>2, <2>3 DEF FilesReal
  <1> QED
    BY <1>1, <1>2, <1>3, <1>4, <1>5, <1>6, <1>7, <1>8, <1>9, <1>10 DEF WritesFiles

(* The windows that PairsAreReal leaves out never close.                   *)
LEMMA WindowsKept ==
  ASSUME [Next]_vars
  PROVE  (halfRenamed => halfRenamed') /\ (short => short')
  <1>1. CASE SaveOpenKeys \/ SaveStep
    BY <1>1 DEF SaveOpenKeys, Start, SaveStep, SaveOpenValues, SaveSize, SaveDump, SaveAppendKeys,
                SaveAppendValues, SaveSyncKeys, SaveSyncValues, SaveCopyKeys, SaveRenameKeys,
                SaveCopyValues, SaveRenameValues, FilesGoto, Goto
  <1>2. CASE LoadOpen \/ ExportSize \/ ImportClear
    BY <1>2 DEF LoadOpen, ExportSize, ImportClear, Start
  <1>3. CASE LoadStep \/ ImportNext \/ ImportEnd
    BY <1>3 DEF LoadStep, LoadNext, LoadEnd, ImportNext, ImportEnd, FilesGoto, Goto
  <1>4. CASE ExportDump
    <2>1. halfRenamed' = halfRenamed /\ short' = (short \/ Len(dump(0, size)) < size)
      BY <1>4 DEF ExportDump, Goto
    <2> QED
      BY <2>1, Zenon
  <1>5. CASE Train
    BY <1>5 DEF Train, Insert, Accum, Erase, Clear, Trained
  <1>6. CASE Crash \/ Fail
    <2>1. short' = short /\ halfRenamed' = (halfRenamed \/ pc \in HalfRenamed)
      BY <1>6 DEF Crash, Fail
    <2> QED
      BY <2>1, Zenon
  <1>7. CASE UNCHANGED vars
    BY <1>7 DEF vars, hist
  <1> QED
    BY <1>1, <1>2, <1>3, <1>4, <1>5, <1>6, <1>7 DEF Next, CopyStep, Finished

(* Unless saves append, no crash, error, load or import ever brings an     *)
(* item into the table that training did not write.                        *)
THEOREM NoFalsePair == ASSUME ~ AppendToFile PROVE Spec => []PairsAreReal
  <1>1. Init => InStep /\ AllReal
    <2> SUFFICES ASSUME Init PROVE InStep /\ AllReal
      OBVIOUS
    <2>1. ToSet(<< >>) = {}
      BY DEF ToSet
    <2>2. ItemsReal /\ InStep
      BY <2>1 DEF Init, ItemsReal, InStep
    <2>3. FilesReal
      BY DEF Init, FilesReal, Aligned, Name, HalfRenamed, KeysRenamed
    <2> QED
      BY <2>2, <2>3 DEF AllReal
  <1>2. TypeInv /\ InStep /\ [Next]_vars => InStep'
    BY InStepKept
  <1>3. TypeInv /\ InStep /\ AllReal /\ [Next]_vars => AllReal'
    BY WindowsKept, ItemsRealKept, FilesRealKept DEF AllReal
  <1>4. AllReal => PairsAreReal
    BY DEF AllReal, ItemsReal, PairsAreReal
  <1> QED
    BY <1>1, <1>2, <1>3, <1>4, TypeInvKept, PTL DEF Spec
-----------------------------------------------------------------------------
(* What a save has saved.  The records written so far, and those of the    *)
(* chunk, were in the table while the save ran; and as long as no key came *)
(* or went they are the table's first, in its order.                       *)
SavedKeys == IF pc \in KeysRenamed THEN disk["keys"] ELSE disk[KeyFile]
Recording == Saving \ {"open_values"}
Appending == {"append_keys", "append_values"}
Closing   == {"sync_values"} \cup Renaming

Counted ==
  LET V == disk[ValueFile] IN
  /\ pc = "size" => Len(V) = 0
  /\ pc \in {"dump"} \cup Closing => offset = Len(V)
  /\ pc \in Appending => offset = Len(V) + Len(chunk)
  /\ pc \in Closing => Len(SavedKeys) = Len(V) /\ offset >= size

Recorded ==
  /\ \A i \in 1 .. Len(disk[ValueFile]) :
       [key |-> SavedKeys[i], val |-> disk[ValueFile][i]] \in during
  /\ pc \in Appending => ToSet(chunk) \subseteq during

InOrder ==
  /\ size = Len(table) /\ offset <= size
  /\ \A i \in 1 .. Len(SavedKeys) : SavedKeys[i] = table[i].key
  /\ pc = "append_keys" =>
       \A i \in 1 .. Len(chunk) : chunk[i].key = table[Len(disk[ValueFile]) + i].key

SaveReads ==
  /\ pc \in Recording => Counted /\ Recorded
  /\ pc \in Recording \ {"size"} /\ quiet => InOrder

During == ToSet(table) \subseteq during /\ faults \in Nat

(* A call for a key that is there leaves every key where it is.            *)
LEMMA AssignedStays ==
  ASSUME table \in Seq(Item), NEW i \in Item, i.key \in KeysOf(ToSet(table)), NEW t \in Assigned(i)
  PROVE  Len(t) = Len(table) /\ \A n \in 1 .. Len(table) : t[n].key = table[n].key
  <1>1. t = [n \in DOMAIN table |-> IF table[n].key = i.key THEN i ELSE table[n]]
    BY DEF Assigned
  <1>2. DOMAIN table = 1 .. Len(table) /\ Len(table) \in Nat /\ t \in Seq(Item)
    BY LenProperties, AssignedItems
  <1>3. Len(t) = Len(table)
    BY <1>1, <1>2, LenProperties
  <1> QED
    BY <1>1, <1>2, <1>3

LEMMA TrainKeeps ==
  ASSUME table \in Seq(Item), Train
  PROVE  /\ during \subseteq during' /\ ToSet(table') \subseteq during'
         /\ quiet' => /\ quiet /\ Len(table') = Len(table)
                      /\ \A n \in 1 .. Len(table) : table'[n].key = table[n].key
  <1>1. ASSUME NEW k, NEW t, Upsert(k, t)
        PROVE  /\ table' = t /\ during \subseteq during' /\ ToSet(table') \subseteq during'
               /\ quiet' => quiet /\ k \in KeysOf(ToSet(table))
    BY <1>1 DEF Upsert, Becomes
  <1>2. CASE Insert
    <2>0. PICK i \in Item : \E t \in Assigned(i) : Upsert(i.key, t)
      BY <1>2 DEF Insert
    <2>1. PICK t \in Assigned(i) : Upsert(i.key, t)
      BY <2>0
    <2> QED
      BY <1>1, <2>1, AssignedStays
  <1>3. CASE Accum
    <2>0. PICK i \in Item, exist \in BOOLEAN : \E t \in Accumulated(i, exist) : Upsert(i.key, t)
      BY <1>3 DEF Accum
    <2>1. PICK t \in Accumulated(i, exist) : Upsert(i.key, t)
      BY <2>0
    <2>2. i.key \in KeysOf(ToSet(table)) => t \in Assigned(i) \/ t = table
      BY DEF Accumulated
    <2> QED
      BY <1>1, <2>1, <2>2, AssignedStays
  <1>4. CASE Erase \/ Clear
    BY <1>4 DEF Erase, Clear, Becomes
  <1> QED
    BY <1>2, <1>3, <1>4 DEF Train

LEMMA DuringKept ==
  ASSUME TypeInv, During, [Next]_vars
  PROVE  During'
  <1> ToSet(<< >>) = {}
    BY DEF ToSet
  <1>1. CASE Train
    BY <1>1, TrainKeeps, TrainItems DEF TypeInv, ItemsOK, During, Trained
  <1>2. CASE LoadNext \/ ImportNext
    <2>1. faults' = faults
      BY <1>2 DEF LoadNext, ImportNext, FilesGoto, Goto
    <2>2. \E t : Becomes(t)
      BY <1>2 DEF LoadNext, ImportNext
    <2> QED
      BY <2>1, <2>2 DEF During, Becomes
  <1>3. CASE SaveOpenKeys \/ LoadOpen \/ ExportSize \/ ImportClear
    BY <1>3 DEF SaveOpenKeys, LoadOpen, ExportSize, ImportClear, Start, During
  <1>4. CASE SaveStep
    BY <1>4 DEF SaveStep, SaveOpenValues, SaveSize, SaveDump, SaveAppendKeys, SaveAppendValues,
                SaveSyncKeys, SaveSyncValues, SaveCopyKeys, SaveRenameKeys, SaveCopyValues,
                SaveRenameValues, Write, Sync, Copy, Rename, FilesGoto, Goto, During
  <1>5. CASE LoadEnd \/ ExportDump \/ ImportEnd
    BY <1>5 DEF LoadEnd, ExportDump, ImportEnd, FilesGoto, Goto, During
  <1>6. CASE Crash
    BY <1>6 DEF Crash, During
  <1>7. CASE Fail
    BY <1>7 DEF Fail, During
  <1>8. CASE UNCHANGED vars
    BY <1>8 DEF vars, impl, hist, During
  <1> QED
    BY <1>1, <1>2, <1>3, <1>4, <1>5, <1>6, <1>7, <1>8 DEF Next, LoadStep, CopyStep, Finished

LEMMA DumpIs ==
  ASSUME table \in Seq(Item), NEW from \in Nat, NEW length \in Nat, from <= Len(table)
  PROVE  /\ from + Len(dump(from, length)) <= Len(table)
         /\ \A i \in 1 .. Len(dump(from, length)) : dump(from, length)[i] = table[from + i]
  <1> DEFINE end == Least(from + length, Len(table))
             d == SubSeq(table, from + 1, end)
  <1>1. Len(table) \in Nat /\ DOMAIN table = 1 .. Len(table)
    BY LenProperties
  <1>2. end \in Nat /\ from <= end /\ end <= Len(table)
    BY <1>1 DEF Least
  <1>3. dump(from, length) = d
    BY DEF dump
  <1> HIDE DEF end
  <1>4. \A i \in from + 1 .. end : table[i] \in Item
    BY <1>1, <1>2, ElementOfSeq
  <1>5. /\ Len(d) = IF from + 1 <= end THEN end - (from + 1) + 1 ELSE 0
        /\ \A i \in 1 .. end - (from + 1) + 1 : d[i] = table[from + 1 + i - 1]
    BY <1>2, <1>4, SubSeqProperties
  <1>6. Len(d) = end - from
    BY <1>2, <1>5
  <1>7. \A i \in 1 .. end - from : d[i] = table[from + i]
    <2> SUFFICES ASSUME NEW i \in 1 .. end - from PROVE d[i] = table[from + i]
      OBVIOUS
    <2>1. i \in 1 .. end - (from + 1) + 1 /\ from + 1 + i - 1 = from + i
      BY <1>2
    <2> QED
      BY <1>5, <2>1
  <1> HIDE DEF d
  <1> QED
    BY <1>1, <1>2, <1>3, <1>6, <1>7

(* A step that leaves the save where it is.                                *)
LEMMA ReadsFrame ==
  ASSUME SaveReads, UNCHANGED <<disk, size, offset, chunk, atomicMove, pc>>, during \subseteq during',
         quiet' => /\ quiet /\ Len(table') = Len(table)
                   /\ \A n \in 1 .. Len(table) : table'[n].key = table[n].key,
         Len(table) \in Nat, InStep, TypeInv
  PROVE  SaveReads'
  <1>1. KeyFile' = KeyFile /\ ValueFile' = ValueFile /\ SavedKeys' = SavedKeys
    BY SameNames DEF SavedKeys, KeysRenamed
  <1>2. pc \in Recording => Counted' /\ Recorded'
    BY <1>1 DEF SaveReads, Counted, Recorded
  <1>3. ASSUME pc \in Recording \ {"size"}, quiet' PROVE InOrder'
    <2>1. InOrder
      BY <1>3 DEF SaveReads
    <2> DEFINE K == SavedKeys
               V == disk[ValueFile]
    <2>2. /\ K \in Seq(Keys) /\ V \in Seq(Values) /\ Len(K) \in Nat /\ Len(V) \in Nat
          /\ Len(chunk) \in Nat /\ offset \in Nat /\ size \in Nat
      <3>1. K \in Seq(Keys) /\ V \in Seq(Values)
        BY <1>3 DEF TypeInv, PlaceOK, SavedKeys, KeysRenamed, Recording, Saving
      <3> QED
        BY <3>1, LenProperties DEF TypeInv, ItemsOK
    <2>3. Counted
      BY <1>3 DEF SaveReads
    <2>4. Len(K) <= Len(table)
      <3>1. CASE pc \in {"dump", "append_keys"}
        BY <2>1, <2>2, <2>3, <3>1 DEF InStep, Counted, InOrder, SavedKeys, KeysRenamed, Appending
      <3>2. CASE pc = "append_values"
        BY <2>1, <2>2, <2>3, <3>2 DEF InStep, Counted, InOrder, SavedKeys, KeysRenamed, Appending
      <3>3. CASE pc \in Closing
        BY <2>1, <2>2, <2>3, <3>3 DEF Counted, InOrder
      <3> QED
        BY <1>3, <3>1, <3>2, <3>3 DEF Recording, Saving, Closing, Renaming
    <2>5. pc = "append_keys" => Len(V) + Len(chunk) <= Len(table)
      BY <2>1, <2>2, <2>3 DEF Counted, InOrder, Appending
    <2>6. \A i \in 1 .. Len(K) : K[i] = table'[i].key
      BY <1>3, <2>1, <2>2, <2>4 DEF InOrder
    <2>7. pc = "append_keys" => \A i \in 1 .. Len(chunk) : chunk[i].key = table'[Len(V) + i].key
      <3> SUFFICES ASSUME pc = "append_keys", NEW i \in 1 .. Len(chunk)
                   PROVE  chunk[i].key = table'[Len(V) + i].key
        OBVIOUS
      <3>1. Len(V) + i \in 1 .. Len(table)
        BY <2>2, <2>5
      <3>2. chunk[i].key = table[Len(V) + i].key
        BY <2>1 DEF InOrder
      <3> QED
        BY <1>3, <3>1, <3>2
    <2>8. size' = Len(table') /\ offset' <= size'
      BY <1>3, <2>1 DEF InOrder
    <2> HIDE DEF K, V
    <2> QED
      BY <1>1, <2>6, <2>7, <2>8 DEF InOrder, K, V
  <1> QED
    BY <1>2, <1>3 DEF SaveReads

LEMMA DumpReads ==
  ASSUME TypeInv, InStep, During, SaveReads, SaveDump
  PROVE  SaveReads'
  <1> DEFINE K == disk[KeyFile]
             V == disk[ValueFile]
  <1>1. /\ pc = "dump" /\ pc' = "append_keys" /\ offset < size /\ chunk' = dump(offset, BufferSize)
        /\ offset' = offset + Len(chunk') /\ UNCHANGED <<table, disk, size, during, atomicMove, quiet>>
    BY DEF SaveDump, FilesGoto, Goto
  <1>2. /\ K \in Seq(Keys) /\ V \in Seq(Values) /\ Len(K) \in Nat /\ Len(V) \in Nat
        /\ offset \in Nat /\ size \in Nat /\ table \in Seq(Item)
    <2>1. K \in Seq(Keys) /\ V \in Seq(Values)
      BY <1>1 DEF TypeInv, PlaceOK, Saving, KeysRenamed
    <2> QED
      BY <2>1, LenProperties DEF TypeInv, ItemsOK
  <1>3. Counted /\ Recorded /\ (quiet => InOrder) /\ SavedKeys = K
    BY <1>1 DEF SaveReads, SavedKeys, KeysRenamed, Recording, Saving
  <1>4. /\ ToSet(chunk') \subseteq ToSet(table) /\ Len(chunk') \in Nat
        /\ offset <= Len(table) => /\ offset + Len(chunk') <= Len(table)
                                   /\ \A i \in 1 .. Len(chunk') : chunk'[i] = table[offset + i]
    BY <1>1, <1>2, DumpItems, DumpIs, FilesAssumption
  <1>5. KeyFile' = KeyFile /\ ValueFile' = ValueFile /\ SavedKeys' = K
    BY <1>1, SameNames DEF SavedKeys, KeysRenamed
  <1>6. offset = Len(V)
    BY <1>1, <1>3 DEF Counted
  <1>7. Counted'
    BY <1>1, <1>2, <1>4, <1>5, <1>6 DEF Counted, Appending, Closing, Renaming
  <1>8. Recorded'
    BY <1>1, <1>3, <1>4, <1>5 DEF Recorded, During
  <1>9. ASSUME quiet PROVE InOrder'
    <2>1. size = Len(table) /\ \A i \in 1 .. Len(K) : K[i] = table[i].key
      BY <1>3, <1>9 DEF InOrder
    <2>2. /\ offset + Len(chunk') <= Len(table)
          /\ \A i \in 1 .. Len(chunk') : chunk'[i] = table[offset + i]
      <3>1. offset <= Len(table)
        BY <1>1, <1>2, <2>1
      <3> QED
        BY <1>4, <3>1
    <2>3. offset' <= size'
      BY <1>1, <2>1, <2>2
    <2>4. \A i \in 1 .. Len(chunk') : chunk'[i].key = table[Len(V) + i].key
      BY <1>6, <2>2
    <2> HIDE DEF K, V
    <2> QED
      BY <1>1, <1>5, <2>1, <2>3, <2>4 DEF InOrder, K, V
  <1> QED
    BY <1>1, <1>7, <1>8, <1>9 DEF SaveReads, Recording, Saving

LEMMA KeysReads ==
  ASSUME TypeInv, InStep, SaveReads, SaveAppendKeys
  PROVE  SaveReads'
  <1> DEFINE K == disk[KeyFile]
             V == disk[ValueFile]
             W == K \o KeyOf(chunk)
  <1>1. /\ K \in Seq(Keys) /\ V \in Seq(Values) /\ chunk \in Seq(Item)
        /\ KeyFile' = KeyFile /\ ValueFile' = ValueFile
        /\ disk'[KeyFile] = W /\ disk'[ValueFile] = V
        /\ UNCHANGED <<table, size, offset, chunk, during, quiet>>
        /\ pc = "append_keys" /\ pc' = "append_values" /\ Len(K) = Len(V)
    BY Growing, FileNames DEF TypeInv, DiskOK, SaveAppendKeys, InStep, Write, FilesGoto, Goto
  <1>2. /\ Len(K) \in Nat /\ Len(V) \in Nat /\ Len(chunk) \in Nat
        /\ Len(W) = Len(K) + Len(chunk) /\ \A i \in 1 .. Len(K) : W[i] = K[i]
        /\ \A i \in 1 .. Len(chunk) : W[Len(K) + i] = chunk[i].key
    BY <1>1, AppendedChunk
  <1>3. Counted /\ Recorded /\ (quiet => InOrder) /\ SavedKeys = K /\ SavedKeys' = W
    BY <1>1 DEF SaveReads, SavedKeys, KeysRenamed, Recording, Saving
  <1> HIDE DEF K, V, W
  <1>4. offset = Len(V) + Len(chunk) /\ ToSet(chunk) \subseteq during
    BY <1>1, <1>3 DEF Counted, Recorded, Appending, V
  <1>5. Counted'
    BY <1>1, <1>4 DEF Counted, Appending, Closing, Renaming
  <1>6. Recorded'
    <2>1. \A i \in 1 .. Len(V) : [key |-> K[i], val |-> V[i]] \in during
      BY <1>3 DEF Recorded, V
    <2>2. \A i \in 1 .. Len(V) : [key |-> W[i], val |-> V[i]] \in during
      BY <1>1, <1>2, <2>1
    <2> QED
      BY <1>1, <1>3, <1>4, <2>2 DEF Recorded
  <1>7. ASSUME quiet PROVE InOrder'
    <2>1. /\ size = Len(table) /\ offset <= size /\ \A i \in 1 .. Len(K) : K[i] = table[i].key
          /\ \A i \in 1 .. Len(chunk) : chunk[i].key = table[Len(V) + i].key
      BY <1>1, <1>3, <1>7 DEF InOrder, V
    <2>2. ASSUME NEW i \in 1 .. Len(W) PROVE W[i] = table[i].key
      <3>1. CASE i <= Len(K)
        BY <1>2, <2>1, <3>1
      <3>2. CASE ~ (i <= Len(K))
        <4>1. i - Len(K) \in 1 .. Len(chunk) /\ Len(K) + (i - Len(K)) = i
          BY <1>2, <3>2
        <4>2. W[i] = chunk[i - Len(K)].key /\ chunk[i - Len(K)].key = table[i].key
          BY <1>1, <1>2, <2>1, <4>1
        <4> QED
          BY <4>2
      <3> QED
        BY <3>1, <3>2
    <2> QED
      BY <1>1, <1>3, <2>1, <2>2 DEF InOrder
  <1> QED
    BY <1>1, <1>5, <1>6, <1>7 DEF SaveReads, Recording, Saving

LEMMA ValuesReads ==
  ASSUME TypeInv, InStep, SaveReads, SaveAppendValues
  PROVE  SaveReads'
  <1> DEFINE K == disk[KeyFile]
             V == disk[ValueFile]
             W == V \o ValOf(chunk)
  <1>1. /\ K \in Seq(Keys) /\ V \in Seq(Values) /\ chunk \in Seq(Item)
        /\ KeyFile' = KeyFile /\ ValueFile' = ValueFile
        /\ disk'[KeyFile] = K /\ disk'[ValueFile] = W
        /\ UNCHANGED <<table, size, offset, chunk, during, quiet>>
        /\ pc = "append_values" /\ pc' = "dump" /\ Len(K) = Len(V) + Len(chunk)
        /\ \A i \in 1 .. Len(chunk) : K[Len(V) + i] = chunk[i].key
    <2>1. /\ K \in Seq(Keys) /\ V \in Seq(Values) /\ chunk \in Seq(Item)
          /\ KeyFile' = KeyFile /\ ValueFile' = ValueFile
      BY Growing
    <2>2. /\ pc = "append_values" /\ pc' = "dump" /\ disk' = [disk EXCEPT ![ValueFile] = W]
          /\ UNCHANGED <<table, size, offset, chunk, during, quiet>>
      BY DEF SaveAppendValues, Write, FilesGoto, Goto
    <2>3. disk'[KeyFile] = K /\ disk'[ValueFile] = W
      BY <2>2, FileNames DEF TypeInv, DiskOK
    <2>4. Len(K) = Len(V) + Len(chunk) /\ \A i \in 1 .. Len(chunk) : K[Len(V) + i] = chunk[i].key
      BY <2>2 DEF InStep
    <2> HIDE DEF K, V, W
    <2> QED
      BY <2>1, <2>2, <2>3, <2>4
  <1>2. /\ Len(V) \in Nat /\ Len(chunk) \in Nat /\ Len(W) = Len(V) + Len(chunk)
        /\ \A i \in 1 .. Len(V) : W[i] = V[i]
        /\ \A i \in 1 .. Len(chunk) : W[Len(V) + i] = chunk[i].val
    <2>1. K \in Seq(Keys) /\ V \in Seq(Values) /\ chunk \in Seq(Item)
      BY <1>1
    <2> HIDE DEF K, V
    <2> QED
      BY <2>1, AppendedChunk
  <1>3. Counted /\ Recorded /\ (quiet => InOrder) /\ SavedKeys = K /\ SavedKeys' = K
    BY <1>1 DEF SaveReads, SavedKeys, KeysRenamed, Recording, Saving
  <1> HIDE DEF K, V, W
  <1>4. offset = Len(V) + Len(chunk) /\ ToSet(chunk) \subseteq during
    BY <1>1, <1>3 DEF Counted, Recorded, Appending, V
  <1>5. Counted'
    BY <1>1, <1>2, <1>4 DEF Counted, Appending, Closing, Renaming
  <1>6. ASSUME NEW i \in 1 .. Len(W) PROVE [key |-> K[i], val |-> W[i]] \in during
    <2>1. CASE i <= Len(V)
      <3>1. i \in 1 .. Len(V)
        BY <1>2, <2>1
      <3> QED
        BY <1>2, <1>3, <3>1 DEF Recorded, V
    <2>2. CASE ~ (i <= Len(V))
      <3>1. i - Len(V) \in 1 .. Len(chunk) /\ Len(V) + (i - Len(V)) = i
        BY <1>2, <2>2
      <3>2. chunk[i - Len(V)] \in Item /\ chunk[i - Len(V)] \in during
        BY <1>1, <1>4, <3>1, ElementOfSeq, LenProperties DEF ToSet
      <3>3. K[i] = chunk[i - Len(V)].key /\ W[i] = chunk[i - Len(V)].val
        BY <1>1, <1>2, <3>1
      <3> QED
        BY <3>2, <3>3 DEF Item
    <2> QED
      BY <2>1, <2>2
  <1>7. Recorded'
    BY <1>1, <1>3, <1>6 DEF Recorded, Appending
  <1>8. quiet => InOrder'
    BY <1>1, <1>3 DEF InOrder
  <1> QED
    BY <1>1, <1>5, <1>7, <1>8 DEF SaveReads, Recording, Saving

(* The steps of a save between which nothing is written.                   *)
LEMMA SaveGoesOn ==
  ASSUME ~ AppendToFile, TypeInv, InStep, SaveReads,
         SaveOpenValues \/ SaveSize \/ SaveSyncKeys \/ SaveSyncValues
  PROVE  SaveReads'
  <1>1. KeyFile' = KeyFile /\ ValueFile' = ValueFile
    BY SameNames DEF SaveOpenValues, SaveSize, SaveSyncKeys, SaveSyncValues, FilesGoto, Goto
  <1>2. CASE SaveOpenValues
    <2>1. pc' = "size" /\ disk' = [disk EXCEPT ![ValueFile] = Opened(ValueFile)]
      BY <1>2 DEF SaveOpenValues, Open, FilesGoto, Goto
    <2>2. Len(disk'[ValueFile]) = 0
      BY <2>1, FileNames DEF Opened, TypeInv, DiskOK
    <2>3. Counted' /\ Recorded'
      BY <1>1, <2>1, <2>2 DEF Counted, Recorded, Appending, Closing, Renaming
    <2> QED
      BY <2>1, <2>3 DEF SaveReads
  <1>3. CASE SaveSize
    <2>1. /\ pc = "size" /\ pc' = "dump" /\ size' = Len(table) /\ offset' = 0
          /\ UNCHANGED <<disk, table, during>>
      BY <1>3 DEF SaveSize, FilesGoto, Goto
    <2>2. Len(disk[KeyFile]) = 0 /\ Len(disk[ValueFile]) = 0 /\ Len(table) \in Nat
      BY <2>1, LenProperties DEF InStep, SaveReads, Counted, Recording, Saving, TypeInv, ItemsOK
    <2>3. SavedKeys' = disk[KeyFile]
      BY <1>1, <2>1 DEF SavedKeys, KeysRenamed
    <2>4. Counted'
      BY <1>1, <2>1, <2>2 DEF Counted, Appending, Closing, Renaming
    <2>5. Recorded'
      BY <1>1, <2>1, <2>2 DEF Recorded, Appending
    <2>6. InOrder'
      BY <1>1, <2>1, <2>2, <2>3 DEF InOrder
    <2> QED
      BY <2>1, <2>4, <2>5, <2>6 DEF SaveReads
  <1>4. CASE SaveSyncKeys
    <2>1. /\ pc = "dump" /\ pc' = "sync_values" /\ offset >= size
          /\ UNCHANGED <<disk, table, size, offset, chunk, during, quiet>>
      BY <1>4 DEF SaveSyncKeys, Sync, FilesGoto, Goto
    <2>2. Counted /\ Recorded /\ (quiet => InOrder)
      BY <2>1 DEF SaveReads, Recording, Saving
    <2>3. SavedKeys = disk[KeyFile] /\ SavedKeys' = disk[KeyFile]
      BY <1>1, <2>1 DEF SavedKeys, KeysRenamed
    <2>4. Len(disk[KeyFile]) = Len(disk[ValueFile])
      BY <2>1 DEF InStep
    <2>5. Counted'
      BY <1>1, <2>1, <2>2, <2>3, <2>4 DEF Counted, Appending, Closing, Renaming
    <2>6. Recorded'
      BY <1>1, <2>1, <2>2, <2>3 DEF Recorded, Appending
    <2>7. quiet => InOrder'
      BY <1>1, <2>1, <2>2, <2>3 DEF InOrder
    <2> QED
      BY <2>1, <2>5, <2>6, <2>7 DEF SaveReads
  <1>5. CASE SaveSyncValues
    <2>1. /\ pc = "sync_values" /\ pc' \in {"rename_keys", "idle"}
          /\ UNCHANGED <<disk, table, size, offset, chunk, during, quiet>>
      BY <1>5 DEF SaveSyncValues, Sync, FilesGoto, Goto
    <2>2. Counted /\ Recorded /\ (quiet => InOrder)
      BY <2>1 DEF SaveReads, Recording, Saving
    <2>3. SavedKeys = disk[KeyFile] /\ SavedKeys' = disk[KeyFile]
      BY <1>1, <2>1 DEF SavedKeys, KeysRenamed
    <2>4. pc' = "rename_keys" => Counted'
      BY <1>1, <2>1, <2>2, <2>3 DEF Counted, Appending, Closing, Renaming
    <2>5. pc' = "rename_keys" => Recorded'
      BY <1>1, <2>1, <2>2, <2>3 DEF Recorded, Appending
    <2>6. pc' = "rename_keys" /\ quiet => InOrder'
      BY <1>1, <2>1, <2>2, <2>3 DEF InOrder
    <2> QED
      BY <2>1, <2>4, <2>5, <2>6 DEF SaveReads, Recording, Saving
  <1> QED
    BY <1>2, <1>3, <1>4, <1>5

(* The renames: names change, and what they held is there.                 *)
LEMMA RenameReads ==
  ASSUME TypeInv, SaveReads, SaveCopyKeys \/ SaveRenameKeys \/ SaveCopyValues
  PROVE  SaveReads'
  <1>1. /\ pc \in Renaming /\ pc' \in Renaming /\ SavedKeys' = SavedKeys
        /\ disk'[ValueFile'] = disk[ValueFile]
        /\ UNCHANGED <<table, size, offset, chunk, during, quiet>>
    <2>1. CASE SaveCopyKeys
      BY <2>1, CopiedKeys DEF SavedKeys, KeysRenamed, Renaming, Name
    <2>2. CASE SaveCopyValues
      BY <2>2, CopiedValues DEF SavedKeys, KeysRenamed, Renaming, Name
    <2>3. CASE SaveRenameKeys
      <3>1. /\ pc = "copy_keys" /\ pc' = "rename_values" /\ ~ atomicMove
            /\ UNCHANGED <<table, size, offset, chunk, during, quiet, atomicMove>>
        BY <2>3 DEF SaveRenameKeys, Rename, FilesGoto, Goto, TypeInv, PlaceOK, Renaming
      <3>2. KeyFile = "keys.tmp" /\ ValueFile = "values.tmp" /\ ValueFile' = "values.tmp"
        BY <3>1 DEF KeyFile, ValueFile, need_tmp_file
      <3>3. disk'["keys"] = disk["keys.tmp"] /\ disk'["values.tmp"] = disk["values.tmp"]
        BY <2>3 DEF SaveRenameKeys, Rename, TypeInv, DiskOK, Name
      <3> QED
        BY <3>1, <3>2, <3>3 DEF SavedKeys, KeysRenamed, Renaming
    <2> QED
      BY <2>1, <2>2, <2>3
  <1>2. /\ pc \in Closing /\ pc' \in Closing /\ pc \in Recording \ {"size"}
        /\ pc' \notin Appending \cup {"size", "dump"}
    BY <1>1 DEF Closing, Renaming, Recording, Saving, Appending
  <1>3. Counted /\ Recorded /\ (quiet => InOrder)
    BY <1>2 DEF SaveReads
  <1>4. Counted'
    BY <1>1, <1>2, <1>3 DEF Counted
  <1>5. Recorded'
    BY <1>1, <1>2, <1>3 DEF Recorded
  <1>6. quiet => InOrder'
    BY <1>1, <1>2, <1>3 DEF InOrder, Appending
  <1> QED
    BY <1>1, <1>4, <1>5, <1>6 DEF SaveReads

LEMMA SaveReadsKept ==
  ASSUME ~ AppendToFile
  PROVE  TypeInv /\ InStep /\ During /\ SaveReads /\ [Next]_vars => SaveReads'
  <1> SUFFICES ASSUME TypeInv, InStep, During, SaveReads, [Next]_vars PROVE SaveReads'
    OBVIOUS
  <1>1. CASE SaveOpenValues \/ SaveSize \/ SaveSyncKeys \/ SaveSyncValues
    BY <1>1, SaveGoesOn
  <1>2. CASE SaveDump
    BY <1>2, DumpReads
  <1>3. CASE SaveAppendKeys
    BY <1>3, KeysReads
  <1>4. CASE SaveAppendValues
    BY <1>4, ValuesReads
  <1>5. CASE SaveCopyKeys \/ SaveRenameKeys \/ SaveCopyValues
    BY <1>5, RenameReads
  <1>6. CASE Train
    <2>1. /\ during \subseteq during'
          /\ quiet' => /\ quiet /\ Len(table') = Len(table)
                       /\ \A n \in 1 .. Len(table) : table'[n].key = table[n].key
      BY <1>6, TrainKeeps DEF TypeInv, ItemsOK
    <2>2. UNCHANGED <<disk, size, offset, chunk, atomicMove, pc>>
      BY <1>6 DEF Train, Insert, Accum, Erase, Clear, Trained
    <2>3. Len(table) \in Nat
      BY LenProperties DEF TypeInv, ItemsOK
    <2> QED
      BY <2>1, <2>2, <2>3, ReadsFrame
  <1>7. CASE UNCHANGED vars
    <2>1. /\ UNCHANGED <<disk, size, offset, chunk, atomicMove, pc>>
          /\ table' = table /\ during' = during /\ quiet' = quiet
      BY <1>7 DEF vars, impl, hist
    <2>2. Len(table) \in Nat
      BY LenProperties DEF TypeInv, ItemsOK
    <2> QED
      BY <2>1, <2>2, ReadsFrame
  <1>8. CASE SaveRenameValues \/ Crash \/ Fail \/ LoadStep \/ CopyStep \/ SaveOpenKeys
             \/ LoadOpen \/ ExportSize \/ ImportClear
    <2>1. pc' \in {"idle", "load", "import", "export", "open_values"}
      BY <1>8 DEF SaveRenameValues, Crash, Fail, LoadStep, LoadNext, LoadEnd, CopyStep, ExportDump,
                  ImportNext, ImportEnd, SaveOpenKeys, LoadOpen, ExportSize, ImportClear, Start,
                  FilesGoto, Goto
    <2> QED
      BY <2>1 DEF SaveReads, Recording, Saving
  <1> QED
    BY <1>1, <1>2, <1>3, <1>4, <1>5, <1>6, <1>7, <1>8 DEF Next, SaveStep, Finished

(* What is left when a save that read every record ends.                   *)
LEMMA EndedWhole ==
  ASSUME TypeInv, Loadable', pc \in Saving \ {"open_values"}, SaveReads, pc \in Closing,
         disk'["keys"] = SavedKeys, disk'["values"] = disk[ValueFile]
  PROVE  /\ Restored' \subseteq during
         /\ quiet => /\ KeysOf(Restored') = KeysOf(ToSet(table))
                     /\ Len(disk'["keys"]) = Len(table)
  <1> DEFINE K == SavedKeys
             V == disk[ValueFile]
  <1>1. /\ K \in Seq(Keys) /\ V \in Seq(Values) /\ Len(K) \in Nat /\ DOMAIN K = 1 .. Len(K)
        /\ table \in Seq(Item) /\ Len(table) \in Nat /\ DOMAIN table = 1 .. Len(table)
        /\ size \in Nat /\ offset \in Nat
    <2>1. K \in Seq(Keys) /\ V \in Seq(Values)
      BY DEF TypeInv, PlaceOK, Closing, Renaming, SavedKeys, KeysRenamed, Saving
    <2> QED
      BY <2>1, LenProperties DEF TypeInv, ItemsOK
  <1>2. Counted /\ Recorded /\ (quiet => InOrder)
    BY DEF SaveReads, Recording, Closing, Renaming
  <1>3. Len(K) = Len(V) /\ offset = Len(V) /\ offset >= size
    BY <1>2 DEF Counted
  <1>4. Restored' = {[key |-> K[n], val |-> V[n]] : n \in 1 .. Len(K)}
    <2>1. Restored' = {[key |-> disk'["keys"][n], val |-> disk'["values"][n]] : n \in DOMAIN disk'["keys"]}
      BY DEF Restored
    <2> QED
      BY <1>1, <2>1
  <1>5. \A n \in 1 .. Len(K) : [key |-> K[n], val |-> V[n]] \in during
    BY <1>2, <1>3 DEF Recorded
  <1> HIDE DEF K, V
  <1>6. Restored' \subseteq during
    BY <1>4, <1>5
  <1>7. ASSUME quiet
        PROVE  KeysOf(Restored') = KeysOf(ToSet(table)) /\ Len(disk'["keys"]) = Len(table)
    <2>0. size = Len(table) /\ offset <= size /\ \A n \in 1 .. Len(K) : K[n] = table[n].key
      BY <1>2, <1>7 DEF InOrder, K
    <2>1. Len(K) = Len(table) /\ \A n \in 1 .. Len(K) : K[n] = table[n].key
      <3>1. offset \in Nat /\ size \in Nat
        BY <1>1
      <3>2. offset = size
        BY <1>3, <2>0, <3>1
      <3>3. Len(K) = Len(table)
        BY <1>3, <2>0, <3>2
      <3> QED
        BY <2>0, <3>3
    <2>2. \A k : k \in KeysOf(Restored') <=> \E n \in 1 .. Len(K) : k = K[n]
      <3> DEFINE S == {[key |-> K[n], val |-> V[n]] : n \in 1 .. Len(K)}
      <3>1. ASSUME NEW k, k \in KeysOf(S) PROVE \E n \in 1 .. Len(K) : k = K[n]
        BY <3>1 DEF KeysOf
      <3>2. ASSUME NEW n \in 1 .. Len(K) PROVE K[n] \in KeysOf(S)
        <4>1. [key |-> K[n], val |-> V[n]] \in S
          OBVIOUS
        <4>2. [key |-> K[n], val |-> V[n]].key = K[n]
          OBVIOUS
        <4> HIDE DEF S
        <4> QED
          BY <4>1, <4>2 DEF KeysOf
      <3>3. Restored' = S
        BY <1>4
      <3> HIDE DEF S
      <3> QED
        BY <3>1, <3>2, <3>3
    <2>3. \A k : k \in KeysOf(ToSet(table)) <=> \E n \in 1 .. Len(table) : k = table[n].key
      BY <1>1 DEF KeysOf, ToSet
    <2>4. KeysOf(Restored') = KeysOf(ToSet(table))
      <3>1. \A k : k \in KeysOf(Restored') <=> k \in KeysOf(ToSet(table))
        BY <2>1, <2>2, <2>3
      <3> HIDE DEF KeysOf
      <3> QED
        BY <3>1
    <2> QED
      BY <2>1, <2>4 DEF K
  <1> QED
    BY <1>6, <1>7

(* Unless saves append, a save that ends has written items that were in    *)
(* the table while it ran, and, if no key came or went meanwhile, the key  *)
(* of each exactly once, for any size of the buffer.                       *)
THEOREM SavesAreWhole == ASSUME ~ AppendToFile PROVE Spec => SavedWhole
  <1> DEFINE Whole == /\ Loadable' /\ Restored' \subseteq during
                      /\ quiet => /\ KeysOf(Restored') = KeysOf(ToSet(table))
                                  /\ Len(disk'["keys"]) = Len(table)
  <1>1. Init => InStep /\ During /\ SaveReads
    BY DEF Init, InStep, During, SaveReads, Recording, Saving, ToSet
  <1>2. TypeInv /\ InStep /\ [Next]_vars => InStep'
    BY InStepKept
  <1>3. TypeInv /\ During /\ [Next]_vars => During'
    BY DuringKept
  <1>4. TypeInv /\ InStep /\ During /\ SaveReads /\ [Next]_vars => SaveReads'
    BY SaveReadsKept
  <1>5. ASSUME TypeInv, InStep, During, SaveReads, [Next]_vars, SaveEnded PROVE Whole
    <2>1. (SaveSyncValues /\ atomicMove) \/ SaveRenameValues
      <3>1. pc \in Saving /\ pc' = "idle" /\ faults' = faults /\ faults \in Nat
        BY <1>5 DEF SaveEnded, During
      <3>2. ~ Crash /\ ~ Fail
        BY <3>1 DEF Crash, Fail
      <3>3. ~ Train /\ ~ UNCHANGED vars
        BY <3>1 DEF Train, Insert, Accum, Erase, Clear, Trained, vars, impl, Saving
      <3>4. ~ (LoadStep \/ CopyStep \/ SaveOpenKeys \/ LoadOpen \/ ExportSize \/ ImportClear)
        BY <3>1 DEF LoadStep, LoadNext, LoadEnd, CopyStep, ExportDump, ImportNext, ImportEnd,
                    SaveOpenKeys, LoadOpen, ExportSize, ImportClear, Start, Saving
      <3>5. ~ (SaveOpenValues \/ SaveSize \/ SaveDump \/ SaveAppendKeys \/ SaveAppendValues
               \/ SaveSyncKeys \/ SaveCopyKeys \/ SaveRenameKeys \/ SaveCopyValues)
        BY <3>1 DEF SaveOpenValues, SaveSize, SaveDump, SaveAppendKeys, SaveAppendValues,
                    SaveSyncKeys, SaveCopyKeys, SaveRenameKeys, SaveCopyValues, FilesGoto, Goto
      <3>6. SaveSyncValues => atomicMove
        BY <1>5, <3>1 DEF SaveSyncValues, FilesGoto, Goto, need_tmp_file, TypeInv
      <3> QED
        BY <1>5, <3>2, <3>3, <3>4, <3>5, <3>6 DEF Next, SaveStep, Finished
    <2>2. /\ pc \in {"sync_values", "copy_values"}
          /\ disk'["keys"] = SavedKeys /\ disk'["values"] = disk[ValueFile]
      <3>1. CASE SaveSyncValues /\ atomicMove
        BY <3>1 DEF SaveSyncValues, Sync, SavedKeys, KeysRenamed, KeyFile, ValueFile, need_tmp_file
      <3>2. CASE SaveRenameValues
        <4>1. pc = "copy_values" /\ ValueFile = "values.tmp"
          BY <1>5, <3>2 DEF SaveRenameValues, TypeInv, PlaceOK, Renaming, ValueFile, need_tmp_file
        <4>2. disk'["keys"] = disk["keys"] /\ disk'["values"] = disk["values.tmp"]
          BY <1>5, <3>2 DEF SaveRenameValues, Rename, TypeInv, DiskOK, Name
        <4> QED
          BY <4>1, <4>2 DEF SavedKeys, KeysRenamed
      <3> QED
        BY <2>1, <3>1, <3>2
    <2>3. SavedKeys \in Seq(Keys) /\ disk[ValueFile] \in Seq(Values)
      BY <1>5, <2>2 DEF TypeInv, PlaceOK, SavedKeys, KeysRenamed, Saving
    <2>4. Len(SavedKeys) = Len(disk[ValueFile])
      BY <1>5, <2>2 DEF SaveReads, Counted, Closing, Renaming, Recording, Saving
    <2>5. Loadable'
      BY <2>2, <2>3, <2>4, FilesAssumption DEF Loadable
    <2>6. pc \in Saving \ {"open_values"} /\ pc \in Closing
      BY <2>2 DEF Saving, Closing, Renaming
    <2> QED
      BY <1>5, <2>2, <2>5, <2>6, EndedWhole
  <1>6. TypeInv /\ InStep /\ During /\ SaveReads /\ [Next]_vars => [SaveEnded => Whole]_vars
    BY <1>5
  <1> QED
    BY <1>1, <1>2, <1>3, <1>4, <1>6, TypeInvKept, PTL DEF Spec, SavedWhole
-----------------------------------------------------------------------------
(* What an import puts in the table.                                       *)

(* Enumerating a set of items leaves none out.                             *)
LEMMA SeqsOfSetAll ==
  ASSUME NEW S \in SUBSET Item, IsFiniteSet(S), NEW t \in SetToSeqs(S)
  PROVE  ToSet(t) = S
  <1> DEFINE c == Cardinality(S)
             D == 1 .. c
  <1>1. c \in Nat /\ c - 1 + 1 = c
    BY FS_CardinalityType
  <1>2. t \in [D -> S] /\ \A i, j \in D : i # j => t[i] # t[j]
    BY DEF SetToSeqs
  <1>3. IsFiniteSet(D) /\ Cardinality(D) = c
    <2> HIDE DEF c
    <2>1. IsFiniteSet(1 .. c) /\ Cardinality(1 .. c) = IF 1 > c THEN 0 ELSE c - 1 + 1
      BY <1>1, FS_Interval
    <2> QED
      BY <1>1, <2>1
  <1> HIDE DEF D
  <1>4. t \in Injection(D, S)
    BY <1>2 DEF Injection, IsInjective
  <1>5. t \in Surjection(D, S)
    BY <1>3, <1>4, FS_Injection DEF c
  <1> QED
    BY <1>2, <1>5 DEF Surjection, ToSet

LEMMA KeysOfSeq ==
  ASSUME NEW s \in Seq(Item)
  PROVE  /\ \A n \in 1 .. Len(s) : s[n].key \in KeysOf(ToSet(s))
         /\ \A k \in KeysOf(ToSet(s)) : \E n \in 1 .. Len(s) : k = s[n].key
  BY LenProperties DEF KeysOf, ToSet

LEMMA SameKeys ==
  ASSUME NEW s \in Seq(Item), NEW t \in Seq(Item), Len(s) = Len(t),
         \A n \in 1 .. Len(s) : s[n].key = t[n].key
  PROVE  KeysOf(ToSet(s)) = KeysOf(ToSet(t))
  <1>1. KeysOf(ToSet(s)) \subseteq KeysOf(ToSet(t))
    BY KeysOfSeq
  <1>2. KeysOf(ToSet(t)) \subseteq KeysOf(ToSet(s))
    BY KeysOfSeq
  <1> QED
    BY <1>1, <1>2

(* insert_or_assign adds its key and removes none.                         *)
LEMMA AssignedKeys ==
  ASSUME table \in Seq(Item), NEW i \in Item, NEW t \in Assigned(i)
  PROVE  KeysOf(ToSet(t)) = KeysOf(ToSet(table)) \cup {i.key}
  <1>1. CASE i.key \in KeysOf(ToSet(table))
    <2>1. Len(t) = Len(table) /\ \A n \in 1 .. Len(table) : t[n].key = table[n].key
      BY <1>1, AssignedStays
    <2>2. KeysOf(ToSet(t)) = KeysOf(ToSet(table))
      BY <2>1, AssignedItems, SameKeys
    <2> QED
      BY <1>1, <2>2
  <1>2. CASE i.key \notin KeysOf(ToSet(table))
    <2> DEFINE S == ToSet(table) \cup {i}
    <2>1. S \in SUBSET Item /\ IsFiniteSet(S)
      BY ItemsFinite, FS_AddElement
    <2>2. ToSet(t) = S
      BY <1>2, <2>1, SeqsOfSetAll DEF Assigned
    <2> QED
      BY <2>2 DEF KeysOf
  <1> QED
    BY <1>1, <1>2

(* The keys in the table are those of the records imported so far.         *)
Imported ==
  pc = "import" /\ quiet =>
    /\ offset <= Len(exported)
    /\ KeysOf(ToSet(table)) = {exported[n].key : n \in 1 .. offset}

LEMMA ImportedKept ==
  ASSUME TypeInv, Imported, [Next]_vars
  PROVE  Imported'
  <1>0. Len(exported) \in Nat /\ offset \in Nat /\ table \in Seq(Item) /\ exported \in Seq(Item)
    BY LenProperties DEF TypeInv, ItemsOK
  <1>1. CASE ImportClear
    <2>1. table' = << >> /\ offset' = 0 /\ exported' = exported
      BY <1>1 DEF ImportClear, Start
    <2>2. KeysOf(ToSet(table')) = {} /\ \A n : n \notin 1 .. 0
      BY <2>1 DEF KeysOf, ToSet
    <2> QED
      BY <1>0, <2>1, <2>2 DEF Imported
  <1>2. CASE ImportNext
    <2> DEFINE i == exported[offset + 1]
    <2>1. /\ pc = "import" /\ offset < Len(exported) /\ offset' = offset + 1
          /\ exported' = exported /\ quiet' = quiet /\ \E t \in Assigned(i) : table' = t
      BY <1>2 DEF ImportNext, Becomes, FilesGoto, Goto
    <2>2. i \in Item
      BY <1>0, <2>1, ElementOfSeq
    <2>3. KeysOf(ToSet(table')) = KeysOf(ToSet(table)) \cup {i.key}
      BY <1>0, <2>1, <2>2, AssignedKeys
    <2>4. 1 .. offset' = (1 .. offset) \cup {offset + 1} /\ offset' <= Len(exported)
      BY <1>0, <2>1
    <2>5. {exported[n].key : n \in 1 .. offset'} = {exported[n].key : n \in 1 .. offset} \cup {i.key}
      BY <2>4
    <2> QED
      BY <2>1, <2>3, <2>4, <2>5 DEF Imported
  <1>3. CASE Train
    <2>1. /\ table' \in Seq(Item)
          /\ quiet' => /\ quiet /\ Len(table') = Len(table)
                       /\ \A n \in 1 .. Len(table) : table'[n].key = table[n].key
      BY <1>0, <1>3, TrainKeeps, TrainItems
    <2>2. quiet' => quiet /\ KeysOf(ToSet(table')) = KeysOf(ToSet(table))
      BY <1>0, <2>1, SameKeys
    <2>3. UNCHANGED <<pc, offset, exported>>
      BY <1>3 DEF Train, Insert, Accum, Erase, Clear, Trained
    <2> QED
      BY <2>2, <2>3 DEF Imported
  <1>4. CASE UNCHANGED vars
    BY <1>4 DEF vars, impl, hist, Imported
  <1>5. CASE SaveStep \/ LoadStep \/ Crash \/ Fail \/ ExportDump \/ ImportEnd \/ SaveOpenKeys
             \/ LoadOpen \/ ExportSize
    <2>1. pc' # "import"
      BY <1>5 DEF SaveStep, SaveOpenValues, SaveSize, SaveDump, SaveAppendKeys, SaveAppendValues,
                  SaveSyncKeys, SaveSyncValues, SaveCopyKeys, SaveRenameKeys, SaveCopyValues,
                  SaveRenameValues, LoadStep,
                  LoadNext, LoadEnd, Crash, Fail, ExportDump, ImportEnd, SaveOpenKeys, LoadOpen,
                  ExportSize, Start, FilesGoto, Goto
    <2> QED
      BY <2>1 DEF Imported
  <1> QED
    BY <1>1, <1>2, <1>3, <1>4, <1>5 DEF Next, CopyStep, Finished

(* An import leaves the keys of the export and no other, as long as        *)
(* training adds and removes none meanwhile, for any tensors and any table.*)
THEOREM ImportsReplace == Spec => ImportReplaces
  <1>1. Init => Imported
    BY DEF Init, Imported
  <1>2. TypeInv /\ Imported /\ [Next]_vars => Imported'
    BY ImportedKept
  <1>3. ASSUME TypeInv, Imported, During, [Next]_vars,
               pc = "import", pc' = "idle", faults' = faults, quiet
        PROVE  KeysOf(ToSet(table)) = KeysOf(ToSet(exported))
    <2>1. ImportEnd
      <3>1. ~ Crash /\ ~ Fail
        BY <1>3 DEF Crash, Fail, During
      <3>2. ~ Train /\ ~ UNCHANGED vars
        BY <1>3 DEF Train, Insert, Accum, Erase, Clear, Trained, vars, impl
      <3>3. ~ (SaveStep \/ LoadStep \/ ExportDump \/ ImportNext)
        BY <1>3 DEF SaveStep, SaveOpenValues, SaveSize, SaveDump, SaveAppendKeys, SaveAppendValues,
                    SaveSyncKeys, SaveSyncValues, SaveCopyKeys, SaveRenameKeys, SaveCopyValues,
                  SaveRenameValues, LoadStep,
                    LoadNext, LoadEnd, ExportDump, ImportNext, FilesGoto, Goto
      <3>4. ~ (SaveOpenKeys \/ LoadOpen \/ ExportSize \/ ImportClear)
        BY <1>3 DEF SaveOpenKeys, LoadOpen, ExportSize, ImportClear, Start
      <3> QED
        BY <1>3, <3>1, <3>2, <3>3, <3>4 DEF Next, CopyStep, Finished
    <2>2. KeysOf(ToSet(table)) = {exported[n].key : n \in 1 .. Len(exported)}
      BY <1>3, <2>1 DEF ImportEnd, Imported
    <2>3. exported \in Seq(Item)
      BY <1>3 DEF TypeInv, ItemsOK
    <2>4. {exported[n].key : n \in 1 .. Len(exported)} \subseteq KeysOf(ToSet(exported))
      BY <2>3, KeysOfSeq
    <2>5. KeysOf(ToSet(exported)) \subseteq {exported[n].key : n \in 1 .. Len(exported)}
      BY <2>3, KeysOfSeq
    <2> QED
      BY <2>2, <2>4, <2>5
  <1>4. TypeInv /\ Imported /\ During /\ [Next]_vars =>
          [pc = "import" /\ pc' = "idle" /\ faults' = faults /\ quiet
             => KeysOf(ToSet(table)) = KeysOf(ToSet(exported))]_vars
    BY <1>3
  <1>5. Init => During
    BY DEF Init, During, ToSet
  <1>6. TypeInv /\ During /\ [Next]_vars => During'
    BY DuringKept
  <1> QED
    BY <1>1, <1>2, <1>4, <1>5, <1>6, TypeInvKept, PTL DEF Spec, ImportReplaces
=============================================================================
