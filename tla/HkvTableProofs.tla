---------------------------- MODULE HkvTableProofs ----------------------------
(***************************************************************************)
(* Theorems about HkvTable, for any keys, capacity, length of an epoch and *)
(* size of the buffer, and any number of writes, jobs and faults.          *)
(***************************************************************************)
EXTENDS HkvTable, FiniteSetTheorems, SequenceTheorems, TLAPS

(* Beside the types: which of the files there are, and what a load has     *)
(* read.                                                                   *)
Kept == disk["keys"] \in Seq(Keys) /\ disk["values"] \in Seq(Value)

FilesOK ==
  /\ DOMAIN disk = {"keys", "values"}
  /\ (disk["keys"] = NoFile /\ disk["values"] = NoFile) \/ Kept
  /\ pc \in {"save", "append"} /\ Visible => Kept

LoadOK == pc = "load" => /\ Kept /\ Loadable
                         /\ Len(todo) <= Len(disk["keys"])
                         /\ buffer \in [1 .. BufferSize -> Value]

CountsOK == writes \in 0 .. MaxWrites /\ upserts \in Nat

TypeInv == TypeOK /\ CountsOK /\ FilesOK /\ LoadOK
-----------------------------------------------------------------------------
(* The table.                                                              *)
Fits(t, last) == /\ DOMAIN t \subseteq Keys
                 /\ \A k \in DOMAIN t : t[k] \in [val : Value, epoch : 0 .. last]

Room(t) == Cardinality(DOMAIN t) <= Capacity

LEMMA EvictedFits ==
  ASSUME NEW t, NEW last \in Nat, Fits(t, last), NEW u \in Evicted(t)
  PROVE  Fits(u, last) /\ Room(u) /\ DOMAIN u \subseteq DOMAIN t
         /\ \A k \in DOMAIN u : u[k] = t[k]
  <1>1. PICK kept \in SUBSET DOMAIN t :
          /\ Cardinality(kept) <= Capacity
          /\ u = [k \in kept |-> t[k]]
    BY DEF Evicted
  <1> QED
    BY <1>1 DEF Fits, Room

LEMMA AssignedFits ==
  ASSUME NEW t, Fits(t, epoch), epoch \in Nat, writes \in Nat, writes < MaxWrites,
         NEW ks \in SUBSET Keys
  PROVE  Fits(Assigned(t, ks), epoch)
  <1>1. \A k \in ks : [val |-> [of |-> k, write |-> writes + 1], epoch |-> epoch]
                        \in [val : Value, epoch : 0 .. epoch]
    BY HkvAssumption DEF Value
  <1> QED
    BY <1>1 DEF Fits, Assigned

LEMMA EmptyFits == Fits(<< >>, 0) /\ Room(<< >>)
  <1>1. DOMAIN << >> = {}
    OBVIOUS
  <1> QED
    BY <1>1, FS_EmptySet, HkvAssumption DEF Fits, Room

LEMMA LaterFits ==
  ASSUME NEW t, NEW e \in Nat, NEW f \in Nat, e <= f, Fits(t, e)
  PROVE  Fits(t, f)
  <1>1. 0 .. e \subseteq 0 .. f
    OBVIOUS
  <1> QED
    BY <1>1 DEF Fits

LEMMA ErasedFits ==
  ASSUME NEW t, NEW last \in Nat, Fits(t, last), Room(t), NEW ks \in SUBSET Keys
  PROVE  Fits(Erased(t, ks), last) /\ Room(Erased(t, ks))
  <1>1. IsFiniteSet(DOMAIN t) /\ DOMAIN Erased(t, ks) \subseteq DOMAIN t
    BY FS_Subset, HkvAssumption DEF Fits, Erased
  <1>2. Cardinality(DOMAIN Erased(t, ks)) <= Cardinality(DOMAIN t)
    BY <1>1, FS_Subset
  <1>3. Cardinality(DOMAIN t) \in Nat /\ Cardinality(DOMAIN Erased(t, ks)) \in Nat
    BY <1>1, FS_Subset, FS_CardinalityType
  <1> QED
    BY <1>2, <1>3, HkvAssumption DEF Fits, Room, Erased

(* What a save writes, or a load reads, next.                              *)
LEMMA ChunkType ==
  ASSUME todo \in Seq(Keys)
  PROVE  /\ Chunk \in Seq(Keys) /\ Len(Chunk) \in Nat
         /\ Len(Chunk) <= Len(todo) /\ Len(Chunk) <= BufferSize
         /\ \A i \in 1 .. Len(Chunk) : Chunk[i] = todo[i]
         /\ SubSeq(todo, Len(Chunk) + 1, Len(todo)) \in Seq(Keys)
         /\ Len(SubSeq(todo, Len(Chunk) + 1, Len(todo))) = Len(todo) - Len(Chunk)
         /\ \A i \in 1 .. Len(todo) - Len(Chunk) :
              SubSeq(todo, Len(Chunk) + 1, Len(todo))[i] = todo[Len(Chunk) + i]
  <1> DEFINE n == Least(BufferSize, Len(todo))
  <1>1. Len(todo) \in Nat /\ n \in Nat /\ n <= Len(todo) /\ n <= BufferSize
    BY HkvAssumption, LenProperties DEF Least
  <1>2. \A i \in 1 .. n : todo[i] \in Keys
    BY <1>1, ElementOfSeq
  <1> HIDE DEF n
  <1>3. SubSeq(todo, 1, n) \in Seq(Keys) /\ Len(SubSeq(todo, 1, n)) = n
        /\ \A i \in 1 .. n : SubSeq(todo, 1, n)[i] = todo[i]
    <2>1. /\ SubSeq(todo, 1, n) \in Seq(Keys)
          /\ Len(SubSeq(todo, 1, n)) = IF 1 <= n THEN n - 1 + 1 ELSE 0
          /\ \A i \in 1 .. n - 1 + 1 : SubSeq(todo, 1, n)[i] = todo[1 + i - 1]
      BY <1>1, <1>2, SubSeqProperties
    <2> QED
      BY <2>1, <1>1
  <1>4. Chunk = SubSeq(todo, 1, n)
    BY DEF Chunk, n
  <1>5. \A i \in n + 1 .. Len(todo) : todo[i] \in Keys
    BY <1>1, ElementOfSeq
  <1>6. /\ SubSeq(todo, n + 1, Len(todo)) \in Seq(Keys)
        /\ Len(SubSeq(todo, n + 1, Len(todo)))
             = IF n + 1 <= Len(todo) THEN Len(todo) - (n + 1) + 1 ELSE 0
        /\ \A i \in 1 .. Len(todo) - (n + 1) + 1 :
             SubSeq(todo, n + 1, Len(todo))[i] = todo[(n + 1) + i - 1]
    BY <1>1, <1>5, SubSeqProperties
  <1>7. /\ Len(SubSeq(todo, n + 1, Len(todo))) = Len(todo) - n
        /\ \A i \in 1 .. Len(todo) - n : SubSeq(todo, n + 1, Len(todo))[i] = todo[n + i]
    BY <1>1, <1>6
  <1> QED
    BY <1>1, <1>3, <1>4, <1>6, <1>7
-----------------------------------------------------------------------------
(* Training: the files are left alone.                                     *)
LEMMA WroteInv ==
  ASSUME TypeInv, Wrote, Fits(table', epoch'), Room(table'),
         epoch' \in Nat, step' \in 1 .. StepPerEpoch, upserts' \in Nat
  PROVE  TypeInv'
  <1>1. TypeOK'
    BY DEF TypeInv, TypeOK, Wrote, Fits, Room, fixed
  <1>2. CountsOK' /\ FilesOK' /\ LoadOK'
    BY HkvAssumption DEF TypeInv, CountsOK, Wrote, Writable, FilesOK, LoadOK, Kept, Visible, Loadable
  <1> QED
    BY <1>1, <1>2 DEF TypeInv

LEMMA StepOnCounts ==
  ASSUME TypeInv, StepOn, epoch_evict_strategy' = epoch_evict_strategy
  PROVE  /\ epoch' \in Nat /\ epoch <= epoch' /\ step' \in 1 .. StepPerEpoch
         /\ upserts' \in Nat
         /\ EpochsCountUpserts => EpochsCountUpserts'
  <1>1. epoch \in Nat /\ step \in 1 .. StepPerEpoch /\ upserts \in Nat
        /\ StepPerEpoch \in Nat \ {0} /\ upserts' = upserts + 1
    BY HkvAssumption DEF TypeInv, TypeOK, CountsOK, StepOn
  <1>2. CASE epoch_evict_strategy /\ step + 1 > StepPerEpoch
    <2>1. epoch' = epoch + 1 /\ step' = 1 /\ step = StepPerEpoch
      BY <1>1, <1>2 DEF StepOn
    <2>2. (epoch + 1) * StepPerEpoch = epoch * StepPerEpoch + StepPerEpoch
      BY <1>1
    <2>3. epoch * StepPerEpoch \in Int
      BY <1>1
    <2> QED
      BY <1>1, <1>2, <2>1, <2>2, <2>3 DEF EpochsCountUpserts
  <1>3. CASE epoch_evict_strategy /\ ~ (step + 1 > StepPerEpoch)
    <2>1. epoch' = epoch /\ step' = step + 1
      BY <1>1, <1>3 DEF StepOn
    <2>2. epoch * StepPerEpoch \in Int
      BY <1>1
    <2> QED
      BY <1>1, <1>3, <2>1, <2>2 DEF EpochsCountUpserts
  <1>4. CASE ~ epoch_evict_strategy
    <2>1. epoch' = epoch /\ step' = step
      BY <1>4 DEF StepOn
    <2> QED
      BY <1>1, <1>4, <2>1 DEF EpochsCountUpserts
  <1> QED
    BY <1>2, <1>3, <1>4

LEMMA TrainingInv ==
  ASSUME TypeInv, Training
  PROVE  TypeInv' /\ (EpochsCountUpserts => EpochsCountUpserts')
  <1>1. /\ Fits(table, epoch) /\ Room(table) /\ epoch \in Nat /\ writes \in Nat
        /\ step \in 1 .. StepPerEpoch /\ upserts \in Nat
    BY HkvAssumption DEF TypeInv, TypeOK, CountsOK, Fits, Room
  <1>2. Fits(<< >>, epoch) /\ Room(<< >>)
    BY <1>1, EmptyFits, LaterFits
  <1>3. ASSUME NEW t, Fits(t, epoch), NEW ks \in SUBSET Keys,
               table' \in Evicted(Assigned(t, ks)), Wrote
        PROVE  Fits(table', epoch) /\ Room(table')
    <2>1. Fits(Assigned(t, ks), epoch)
      BY <1>1, <1>3, AssignedFits DEF Wrote
    <2> QED
      BY <1>1, <1>3, <2>1, EvictedFits
  <1>4. ASSUME NEW ks \in SUBSET Keys, Insert(ks) \/ ImportValues(ks)
        PROVE  TypeInv' /\ (EpochsCountUpserts => EpochsCountUpserts')
    <2>1. Wrote /\ StepOn /\ Fits(table', epoch) /\ Room(table')
      BY <1>1, <1>2, <1>3, <1>4 DEF Insert, ImportValues
    <2>2. /\ epoch' \in Nat /\ epoch <= epoch' /\ step' \in 1 .. StepPerEpoch
          /\ upserts' \in Nat /\ (EpochsCountUpserts => EpochsCountUpserts')
      BY <2>1, StepOnCounts DEF Wrote, fixed
    <2>3. Fits(table', epoch')
      BY <1>1, <2>1, <2>2, LaterFits
    <2> QED
      BY <2>1, <2>2, <2>3, WroteInv
  <1>5. ASSUME UNCHANGED <<epoch, step, upserts>>, Wrote, Fits(table', epoch), Room(table')
        PROVE  TypeInv' /\ (EpochsCountUpserts => EpochsCountUpserts')
    BY <1>1, <1>5, WroteInv DEF EpochsCountUpserts, Wrote, fixed
  <1>6. ASSUME NEW ks \in SUBSET Keys, NEW exists \in BOOLEAN, Accum(ks, exists)
        PROVE  TypeInv' /\ (EpochsCountUpserts => EpochsCountUpserts')
    <2>1. Hit(ks, exists) \in SUBSET Keys
      BY DEF Hit
    <2> QED
      BY <1>1, <1>3, <1>5, <1>6, <2>1 DEF Accum
  <1>7. ASSUME NEW ks \in SUBSET Keys, Erase(ks)
        PROVE  TypeInv' /\ (EpochsCountUpserts => EpochsCountUpserts')
    BY <1>1, <1>5, <1>7, ErasedFits DEF Erase
  <1>8. CASE Clear
    BY <1>2, <1>5, <1>8 DEF Clear
  <1> QED
    BY <1>4, <1>6, <1>7, <1>8 DEF Training
-----------------------------------------------------------------------------
(* A job's step that leaves the table alone.                               *)
LEMMA FilesInv ==
  ASSUME TypeInv, UNCHANGED <<data, writes, upserts, fixed>>, FilesOK', LoadOK',
         todo' \in Seq(Keys), pc' \in {"idle", "save", "append", "open", "load"}
  PROVE  TypeInv'
  BY DEF TypeInv, TypeOK, data, CountsOK, fixed

LEMMA SaveInv ==
  ASSUME TypeInv,
         SaveOpen(TRUE) \/ SaveOpen(FALSE) \/ SaveKeys \/ SaveValues \/ SaveClose
  PROVE  TypeInv'
  <1> USE DEF TypeInv
  <1>1. UNCHANGED <<data, writes, upserts, fixed>> /\ pc' \in {"idle", "save", "append"}
    BY DEF SaveOpen, Start, SaveKeys, SaveValues, SaveClose, JobSame, data, fixed
  <1>2. LoadOK'
    BY <1>1 DEF LoadOK
  <1>3. todo \in Seq(Keys) /\ Visible' = Visible
    BY <1>1 DEF TypeOK, Visible, fixed
  <1>4. ASSUME NEW append \in BOOLEAN, SaveOpen(append)
        PROVE  FilesOK' /\ todo' \in Seq(Keys)
    <2>1. todo' \in Seq(Keys)
      <3>1. DOMAIN table \subseteq Keys /\ IsFiniteSet(DOMAIN table)
        BY FS_Subset, HkvAssumption DEF TypeOK
      <3>2. Cardinality(DOMAIN table) \in Nat
        BY <3>1, FS_CardinalityType
      <3>3. PICK order \in SetToSeqs(DOMAIN table) : todo' = order
        BY <1>4 DEF SaveOpen
      <3>4. todo' \in [1 .. Cardinality(DOMAIN table) -> Keys]
        BY <3>1, <3>3 DEF SetToSeqs
      <3> QED
        BY <3>2, <3>4
    <2>2. Visible => Kept'
      <3>1. CASE append /\ disk["keys"] # NoFile
        BY <1>4, <3>1 DEF SaveOpen, FilesOK, Kept
      <3>2. CASE ~ (append /\ disk["keys"] # NoFile)
        <4>1. Visible => disk' = [f \in DOMAIN disk |-> << >>]
          BY <1>4, <3>2 DEF SaveOpen
        <4>2. << >> \in Seq(Keys) /\ << >> \in Seq(Value)
          OBVIOUS
        <4> QED
          BY <4>1, <4>2 DEF FilesOK, Kept
      <3> QED
        BY <3>1, <3>2
    <2>3. DOMAIN disk' = {"keys", "values"} /\ (disk' = disk \/ Visible)
      BY <1>4 DEF SaveOpen, FilesOK
    <2> QED
      BY <1>3, <2>1, <2>2, <2>3 DEF FilesOK, Kept
  <1>5. CASE SaveClose
    <2>1. FilesOK'
      BY <1>5, <1>3 DEF SaveClose, JobSame, FilesOK, Kept
    <2> QED
      BY <1>1, <1>2, <1>3, <1>5, <2>1, FilesInv DEF SaveClose
  <1>6. ASSUME NEW f \in {"keys", "values"}, NEW records, NEW fails \in BOOLEAN,
               Appended(f, records, fails), pc \in {"save", "append"},
               records \in IF f = "keys" THEN Seq(Keys) ELSE Seq(Value)
        PROVE  FilesOK'
    <2>1. CASE ~ Visible \/ fails
      BY <1>1, <1>3, <1>6, <2>1 DEF Appended, FilesOK, Kept
    <2>2. CASE Visible /\ ~ fails
      <3>1. Kept
        BY <1>6, <2>2 DEF FilesOK
      <3>2. disk' = [disk EXCEPT ![f] = @ \o records]
        BY <1>6, <2>2 DEF Appended
      <3>3. disk'["keys"] \in Seq(Keys) /\ disk'["values"] \in Seq(Value)
        <4>1. CASE f = "keys"
          BY <1>6, <3>1, <3>2, <4>1, ConcatProperties DEF FilesOK, Kept
        <4>2. CASE f = "values"
          BY <1>6, <3>1, <3>2, <4>2, ConcatProperties DEF FilesOK, Kept
        <4> QED
          BY <4>1, <4>2
      <3> QED
        BY <3>2, <3>3 DEF FilesOK, Kept
    <2> QED
      BY <2>1, <2>2
  <1>7. CASE SaveKeys
    <2>1. PICK fails \in BOOLEAN : Appended("keys", Chunk, fails)
      BY <1>7 DEF SaveKeys
    <2>2. FilesOK'
      BY <1>3, <1>6, <1>7, <2>1, ChunkType DEF SaveKeys
    <2> QED
      BY <1>1, <1>2, <1>3, <1>7, <2>2, FilesInv DEF SaveKeys
  <1>8. CASE SaveValues
    <2> DEFINE records == [i \in DOMAIN Chunk |-> ValueAt(Chunk[i])]
    <2>1. PICK fails \in BOOLEAN : Appended("values", records, fails)
      BY <1>8 DEF SaveValues
    <2>2. records \in Seq(Value)
      <3>1. DOMAIN Chunk = 1 .. Len(Chunk) /\ Len(Chunk) \in Nat
        BY <1>3, ChunkType, LenProperties
      <3>2. \A k : ValueAt(k) \in Value
        BY DEF ValueAt, TypeOK, Value
      <3>3. records \in [1 .. Len(Chunk) -> Value]
        BY <3>1, <3>2
      <3> QED
        BY <3>1, <3>3
    <2> HIDE DEF records
    <2>3. FilesOK'
      BY <1>6, <1>8, <2>1, <2>2 DEF SaveValues
    <2>4. todo' \in Seq(Keys)
      BY <1>3, <1>8, ChunkType DEF SaveValues
    <2> QED
      BY <1>1, <1>2, <1>8, <2>3, <2>4, FilesInv
  <1> QED
    BY <1>1, <1>2, <1>4, <1>5, <1>7, <1>8, FilesInv

LEMMA InsertedFits ==
  ASSUME NEW t, Fits(t, epoch), epoch \in Nat,
         NEW ks \in Seq(Keys), NEW vs, \A i \in 1 .. Len(ks) : vs[i] \in Value
  PROVE  Fits(Inserted(t, ks, vs), epoch)
  <1>1. DOMAIN ks = 1 .. Len(ks) /\ \A i \in 1 .. Len(ks) : ks[i] \in Keys
    BY LenProperties, ElementOfSeq
  <1>2. ASSUME NEW k \in ToSet(ks)
        PROVE  vs[CHOOSE i \in DOMAIN ks : ks[i] = k] \in Value /\ k \in Keys
    BY <1>1 DEF ToSet
  <1> DEFINE u == Inserted(t, ks, vs)
  <1>3. DOMAIN u = DOMAIN t \cup ToSet(ks)
    BY DEF Inserted
  <1>4. ASSUME NEW k \in DOMAIN u
        PROVE  u[k] \in [val : Value, epoch : 0 .. epoch] /\ k \in Keys
    <2>1. CASE k \in ToSet(ks)
      <3>1. u[k] = [val |-> vs[CHOOSE i \in DOMAIN ks : ks[i] = k], epoch |-> epoch]
        BY <2>1, <1>3 DEF Inserted
      <3> QED
        BY <3>1, <2>1, <1>2
    <2>2. CASE k \notin ToSet(ks)
      BY <2>2, <1>3, <1>4 DEF Inserted, Fits
    <2> QED
      BY <2>1, <2>2
  <1> QED
    BY <1>4 DEF Fits

LEMMA ReadType ==
  ASSUME TypeInv, pc = "load", NEW fails \in BOOLEAN
  PROVE  ValuesRead(fails) \in [1 .. BufferSize -> Value]
  <1>1. /\ Kept /\ Loadable /\ buffer \in [1 .. BufferSize -> Value]
        /\ Len(todo) <= Len(disk["keys"]) /\ todo \in Seq(Keys)
    BY DEF TypeInv, TypeOK, LoadOK
  <1> DEFINE from == Len(disk["keys"]) - Len(todo)
  <1>2. from \in Nat /\ Len(disk["values"]) \in Nat
    BY <1>1, LenProperties DEF Kept
  <1>3. Len(Chunk) \in Nat
    BY <1>1, ChunkType
  <1>4. \A i \in 1 .. BufferSize : from + i <= Len(disk["values"])
                                   => disk["values"][from + i] \in Value
    BY <1>1, <1>2, ElementOfSeq DEF Kept
  <1> HIDE DEF from
  <1>5. \A i \in 1 .. BufferSize :
          (IF ~ fails /\ i <= Len(Chunk) /\ from + i <= Len(disk["values"])
           THEN disk["values"][from + i] ELSE buffer[i]) \in Value
    BY <1>1, <1>4
  <1> QED
    BY <1>5 DEF ValuesRead, from

LEMMA LoadInv ==
  ASSUME TypeInv,
         LoadClear \/ LoadOpen \/ LoadNext \/ LoadStopsShort \/ LoadEnd
  PROVE  TypeInv'
  <1> USE DEF TypeInv
  <1>1. CASE LoadClear
    <2>1. Fits(<< >>, epoch) /\ Room(<< >>)
      BY EmptyFits, LaterFits, HkvAssumption DEF TypeOK
    <2>2. TypeOK'
      BY <1>1, <2>1 DEF LoadClear, Start, TypeOK, Fits, Room, fixed
    <2> QED
      BY <1>1, <2>2 DEF LoadClear, Start, CountsOK, FilesOK, LoadOK, Kept, Visible
  <1>2. CASE LoadOpen
    <2>1. FilesOK' /\ todo' \in Seq(Keys)
      BY <1>2 DEF LoadOpen, JobSame, FilesOK, Loadable, TypeOK, Kept, Visible
    <2>2. LoadOK'
      <3>1. pc' = "load" => Kept' /\ Loadable' /\ todo' = disk'["keys"]
        BY <1>2 DEF LoadOpen, JobSame, FilesOK, Loadable, Kept
      <3>2. buffer' \in [1 .. BufferSize -> Value]
        BY <1>2 DEF LoadOpen, Value
      <3>3. Kept' => Len(disk'["keys"]) \in Nat
        BY LenProperties DEF Kept
      <3> QED
        BY <3>1, <3>2, <3>3 DEF LoadOK
    <2> QED
      BY <1>2, <2>1, <2>2, FilesInv DEF LoadOpen, JobSame, fixed
  <1>3. CASE LoadNext
    <2>1. PICK fails \in BOOLEAN :
            buffer' = ValuesRead(fails) /\ table' \in Evicted(Inserted(table, Chunk, buffer'))
      BY <1>3 DEF LoadNext
    <2>2. pc = "load" /\ UNCHANGED <<epoch, step, disk, fixed, writes, upserts, pc>>
          /\ todo' = SubSeq(todo, Len(Chunk) + 1, Len(todo))
      BY <1>3 DEF LoadNext, fixed
    <2>3. buffer' \in [1 .. BufferSize -> Value]
      BY <2>1, <2>2, ReadType
    <2>4. /\ Chunk \in Seq(Keys) /\ Len(Chunk) \in Nat /\ Len(Chunk) <= BufferSize
          /\ todo' \in Seq(Keys) /\ Len(todo') = Len(todo) - Len(Chunk)
      BY <2>2, ChunkType DEF TypeOK
    <2>5. \A i \in 1 .. Len(Chunk) : buffer'[i] \in Value
      BY <2>3, <2>4, HkvAssumption
    <2>6. Fits(table', epoch) /\ Room(table')
      <3>1. Fits(table, epoch) /\ epoch \in Nat
        BY DEF TypeOK, Fits
      <3>2. Fits(Inserted(table, Chunk, buffer'), epoch)
        BY <3>1, <2>4, <2>5, InsertedFits
      <3> QED
        BY <3>1, <3>2, <2>1, EvictedFits
    <2>7. TypeOK'
      BY <2>2, <2>4, <2>6 DEF TypeOK, Fits, Room, fixed
    <2>8. LoadOK'
      <3>1. Len(todo) \in Nat /\ Len(disk["keys"]) \in Nat
        BY <2>2, LenProperties DEF LoadOK, Kept, TypeOK
      <3> QED
        BY <2>2, <2>3, <2>4, <3>1 DEF LoadOK, Kept, Loadable
    <2> QED
      BY <2>2, <2>7, <2>8 DEF CountsOK, FilesOK, Kept, Visible
  <1>4. CASE LoadStopsShort
    <2>1. FilesOK' /\ LoadOK'
      BY <1>4 DEF LoadStopsShort, JobSame, FilesOK, Kept, LoadOK
    <2> QED
      BY <1>4, <2>1, FilesInv DEF LoadStopsShort, JobSame, TypeOK, fixed
  <1>5. CASE LoadEnd
    <2>1. FilesOK' /\ LoadOK'
      BY <1>5 DEF LoadEnd, JobSame, FilesOK, Kept, LoadOK
    <2> QED
      BY <1>5, <2>1, FilesInv DEF LoadEnd, JobSame, TypeOK, fixed
  <1> QED
    BY <1>1, <1>2, <1>3, <1>4, <1>5

LEMMA CrashInv ==
  ASSUME TypeInv, Crash
  PROVE  TypeInv'
  <1> USE DEF TypeInv
  <1>1. /\ table' = << >> /\ epoch' = 0 /\ step' = 1 /\ upserts' = 0 /\ pc' = "idle"
        /\ todo' = << >> /\ UNCHANGED <<fixed, writes>>
    BY DEF Crash, fixed
  <1>2. Fits(<< >>, 0) /\ Room(<< >>)
    BY EmptyFits
  <1>3. TypeOK'
    BY <1>1, <1>2, HkvAssumption DEF TypeOK, Fits, Room, fixed
  <1>4. FilesOK'
    <2>1. CASE disk["keys"] = NoFile
      BY <1>1, <2>1 DEF Crash, FilesOK, Kept
    <2>2. CASE disk["keys"] # NoFile
      <3>1. Kept
        BY <2>2 DEF FilesOK
      <3>2. PICK k \in 0 .. Len(disk["keys"]), v \in 0 .. Len(disk["values"]) :
              disk' = [f \in DOMAIN disk |-> SubSeq(disk[f], 1, IF f = "keys" THEN k ELSE v)]
        BY <2>2 DEF Crash
      <3>3. Len(disk["keys"]) \in Nat /\ Len(disk["values"]) \in Nat
        BY <3>1, LenProperties DEF Kept
      <3>4. \A i \in 1 .. k : disk["keys"][i] \in Keys
        BY <3>1, <3>3, ElementOfSeq DEF Kept
      <3>5. \A i \in 1 .. v : disk["values"][i] \in Value
        BY <3>1, <3>3, ElementOfSeq DEF Kept
      <3>6. SubSeq(disk["keys"], 1, k) \in Seq(Keys)
        BY <3>3, <3>4, SubSeqProperties
      <3>7. SubSeq(disk["values"], 1, v) \in Seq(Value)
        BY <3>3, <3>5, SubSeqProperties
      <3> QED
        BY <1>1, <3>2, <3>6, <3>7 DEF FilesOK, Kept
    <2> QED
      BY <2>1, <2>2
  <1> QED
    BY <1>1, <1>3, <1>4 DEF CountsOK, LoadOK
-----------------------------------------------------------------------------
LEMMA StepInv ==
  ASSUME TypeInv, [Next]_vars
  PROVE  TypeInv'
  <1>1. CASE UNCHANGED vars
    BY <1>1 DEF vars, data, hist, TypeInv, TypeOK, CountsOK, FilesOK, LoadOK, Kept, Visible, Loadable, fixed
  <1> QED
    BY <1>1, TrainingInv, SaveInv, LoadInv, CrashInv DEF Next, Job, Finished

LEMMA InitInv == Init => TypeInv
  <1> SUFFICES ASSUME Init PROVE TypeInv
    OBVIOUS
  <1>1. Fits(<< >>, 0) /\ Room(<< >>)
    BY EmptyFits
  <1> QED
    BY <1>1, HkvAssumption DEF Init, TypeInv, TypeOK, CountsOK, FilesOK, LoadOK, Fits, Room

THEOREM TypeInvKept == Spec => []TypeInv
  BY InitInv, StepInv, PTL DEF Spec

(* The table never holds more keys than it has room for, whatever is       *)
(* trained, imported or loaded; and all else that TypeOK says.             *)
THEOREM TypeCorrect == Spec => []TypeOK
  <1>1. TypeInv => TypeOK
    BY DEF TypeInv
  <1> QED
    BY <1>1, TypeInvKept, PTL

(* The epoch is the number of upserts over the steps of an epoch, whatever *)
(* accumulates, clears, saves, loads and crashes in between.               *)
THEOREM EpochsCounted == Spec => []EpochsCountUpserts
  <1>1. Init => EpochsCountUpserts
    <2>1. StepPerEpoch \in Nat
      BY HkvAssumption
    <2> QED
      BY <2>1 DEF Init, EpochsCountUpserts
  <1>2. TypeInv /\ EpochsCountUpserts /\ [Next]_vars => EpochsCountUpserts'
    <2> SUFFICES ASSUME TypeInv, EpochsCountUpserts, [Next]_vars PROVE EpochsCountUpserts'
      OBVIOUS
    <2>1. CASE Training
      BY <2>1, TrainingInv
    <2>2. CASE Job
      <3>1. UNCHANGED <<epoch, step, upserts, epoch_evict_strategy>>
        BY <2>2 DEF Job, SaveOpen, SaveKeys, SaveValues, SaveClose, LoadClear, LoadOpen, LoadNext,
                    LoadStopsShort, LoadEnd, JobSame, data, fixed
      <3> QED
        BY <3>1 DEF EpochsCountUpserts
    <2>3. CASE Crash
      <3>1. epoch' = 0 /\ step' = 1 /\ upserts' = 0 /\ StepPerEpoch \in Nat
        BY <2>3, HkvAssumption DEF Crash
      <3> QED
        BY <3>1 DEF EpochsCountUpserts
    <2>4. CASE UNCHANGED vars
      BY <2>4 DEF vars, data, hist, EpochsCountUpserts, fixed
    <2> QED
      BY <2>1, <2>2, <2>3, <2>4 DEF Next, Finished
  <1> QED
    BY <1>1, <1>2, TypeInvKept, PTL DEF Spec
-----------------------------------------------------------------------------
(* What a load has left to read, and what it has put into the table.       *)
LoadedOnly ==
  /\ pc = "open" => table = << >>
  /\ pc = "load" =>
       /\ \A i \in 1 .. Len(todo) : todo[i] = disk["keys"][Len(disk["keys"]) - Len(todo) + i]
       /\ ~ misread => Pairs(table) \subseteq FilePairs

LEMMA EmptyPairs == Pairs(<< >>) = {}
  BY DEF Pairs

LEMMA LoadNextPairs ==
  ASSUME TypeInv, LoadedOnly, LoadNext
  PROVE  LoadedOnly'
  <1>1. PICK fails \in BOOLEAN :
          /\ buffer' = ValuesRead(fails) /\ table' \in Evicted(Inserted(table, Chunk, buffer'))
          /\ misread' = (misread \/ fails)
    BY DEF LoadNext
  <1>2. /\ pc = "load" /\ pc' = "load" /\ UNCHANGED <<disk, epoch>>
        /\ todo' = SubSeq(todo, Len(Chunk) + 1, Len(todo))
    BY DEF LoadNext
  <1>3. /\ Kept /\ Loadable /\ todo \in Seq(Keys) /\ epoch \in Nat /\ Fits(table, epoch)
        /\ Len(todo) <= Len(disk["keys"])
    BY <1>2 DEF TypeInv, LoadOK, TypeOK, Fits
  <1>4. /\ Chunk \in Seq(Keys) /\ Len(Chunk) \in Nat
        /\ Len(Chunk) <= Len(todo) /\ Len(Chunk) <= BufferSize
        /\ \A i \in 1 .. Len(Chunk) : Chunk[i] = todo[i]
        /\ Len(todo') = Len(todo) - Len(Chunk)
        /\ \A i \in 1 .. Len(todo) - Len(Chunk) : todo'[i] = todo[Len(Chunk) + i]
    BY <1>2, <1>3, ChunkType
  <1>5. Len(todo) \in Nat /\ Len(disk["keys"]) \in Nat /\ Len(disk["values"]) = Len(disk["keys"])
    BY <1>3, LenProperties DEF Kept, Loadable
  <1> DEFINE n == Len(disk["keys"])
             from == n - Len(todo)
  <1>6. \A i \in 1 .. Len(todo) : todo[i] = disk["keys"][from + i]
    BY <1>2 DEF LoadedOnly
  <1>7. \A i \in 1 .. Len(todo') : todo'[i] = disk["keys"][n - Len(todo') + i]
    <2> SUFFICES ASSUME NEW i \in 1 .. Len(todo') PROVE todo'[i] = disk["keys"][n - Len(todo') + i]
      OBVIOUS
    <2>1. Len(Chunk) + i \in 1 .. Len(todo) /\ i \in 1 .. Len(todo) - Len(Chunk)
      BY <1>4, <1>5
    <2>2. todo'[i] = disk["keys"][from + (Len(Chunk) + i)]
      BY <2>1, <1>4, <1>6
    <2>3. from + (Len(Chunk) + i) = n - Len(todo') + i
      <3>1. Len(Chunk) \in Nat /\ Len(todo') = Len(todo) - Len(Chunk) /\ i \in Int
        BY <1>4
      <3>2. Len(todo) \in Nat /\ n \in Nat
        BY <1>5
      <3> HIDE DEF n
      <3> QED
        BY <3>1, <3>2
    <2> QED
      BY <2>2, <2>3
  <1>8. ASSUME ~ misread', NEW k \in DOMAIN table'
        PROVE  <<k, table'[k].val>> \in FilePairs
    <2> DEFINE u == Inserted(table, Chunk, buffer')
    <2>1. ~ fails /\ ~ misread
      BY <1>1, <1>8
    <2>2. \A i \in 1 .. Len(Chunk) : buffer'[i] \in Value
      <3>1. buffer' \in [1 .. BufferSize -> Value]
        BY <1>1, <1>2, ReadType
      <3> QED
        BY <3>1, <1>4, HkvAssumption
    <2>3. Fits(u, epoch)
      BY <1>3, <1>4, <2>2, InsertedFits
    <2>4. k \in DOMAIN u /\ table'[k] = u[k]
      BY <1>1, <1>3, <1>8, <2>3, EvictedFits
    <2>5. CASE k \in ToSet(Chunk)
      <3> DEFINE i == CHOOSE i \in DOMAIN Chunk : Chunk[i] = k
      <3>1. i \in 1 .. Len(Chunk) /\ Chunk[i] = k
        BY <2>5, <1>4, LenProperties DEF ToSet
      <3>2. u[k].val = buffer'[i]
        BY <2>4, <2>5 DEF Inserted
      <3> HIDE DEF i
      <3>3. from + i \in 1 .. n /\ i \in 1 .. BufferSize /\ i \in 1 .. Len(todo)
        <4>1. /\ Len(Chunk) \in Nat /\ Len(Chunk) <= Len(todo) /\ Len(Chunk) <= BufferSize
              /\ i \in 1 .. Len(Chunk) /\ Len(todo) <= n
          BY <3>1, <1>3, <1>4
        <4>2. Len(todo) \in Nat /\ n \in Nat /\ BufferSize \in Nat
          BY <1>5, HkvAssumption
        <4> HIDE DEF n
        <4> QED
          BY <4>1, <4>2
      <3>4. buffer'[i] = disk["values"][from + i]
        BY <3>1, <3>3, <1>1, <1>5, <2>1 DEF ValuesRead
      <3>5. k = disk["keys"][from + i]
        BY <3>1, <3>3, <1>4, <1>6
      <3>6. from + i \in DOMAIN disk["keys"]
        BY <3>3, <1>3, LenProperties DEF Kept
      <3> QED
        BY <3>2, <3>4, <3>5, <3>6, <2>4, <1>3 DEF FilePairs
    <2>6. CASE k \notin ToSet(Chunk)
      <3>1. k \in DOMAIN table /\ u[k] = table[k]
        BY <2>4, <2>6 DEF Inserted
      <3> QED
        BY <3>1, <2>1, <2>4, <1>2 DEF LoadedOnly, Pairs
    <2> QED
      BY <2>5, <2>6
  <1>9. FilePairs' = FilePairs
    BY <1>2 DEF FilePairs, Loadable
  <1>10. ~ misread' => Pairs(table') \subseteq FilePairs'
    BY <1>8, <1>9 DEF Pairs
  <1> QED
    BY <1>2, <1>7, <1>10 DEF LoadedOnly

LEMMA LoadedOnlyStep ==
  ASSUME TypeInv, LoadedOnly, [Next]_vars
  PROVE  LoadedOnly'
  <1>1. CASE Training
    BY <1>1 DEF Training, Insert, Accum, Erase, Clear, ImportValues, Wrote, Writable, LoadedOnly
  <1>2. CASE SaveOpen(TRUE) \/ SaveOpen(FALSE) \/ SaveKeys \/ SaveValues \/ SaveClose
    BY <1>2 DEF SaveOpen, Start, SaveKeys, SaveValues, SaveClose, LoadedOnly
  <1>3. CASE LoadClear
    BY <1>3 DEF LoadClear, Start, LoadedOnly
  <1>4. CASE LoadOpen
    <2>1. table' = << >> /\ pc' # "open" /\ UNCHANGED disk
      BY <1>4 DEF LoadOpen, JobSame, data, LoadedOnly
    <2>2. pc' = "load" => todo' = disk'["keys"] /\ Kept
      BY <1>4, <2>1 DEF LoadOpen, Loadable, TypeInv, FilesOK
    <2>3. ASSUME Kept, todo' = disk'["keys"]
          PROVE  \A i \in 1 .. Len(todo') : todo'[i] = disk'["keys"][Len(disk'["keys"]) - Len(todo') + i]
      <3>1. Len(todo') \in Nat
        BY <2>1, <2>3, LenProperties DEF Kept
      <3> QED
        BY <2>3, <3>1
    <2> QED
      BY <2>1, <2>2, <2>3, EmptyPairs DEF LoadedOnly
  <1>5. CASE LoadNext
    BY <1>5, LoadNextPairs
  <1>6. CASE LoadStopsShort \/ LoadEnd \/ Crash
    BY <1>6 DEF LoadStopsShort, LoadEnd, Crash, LoadedOnly
  <1>7. CASE UNCHANGED vars
    BY <1>7 DEF vars, data, hist, LoadedOnly, FilePairs, Loadable
  <1> QED
    BY <1>1, <1>2, <1>3, <1>4, <1>5, <1>6, <1>7 DEF Next, Job, Finished

(* A load leaves only pairs of the files in the table, however it ends.    *)
THEOREM LoadsReplace == Spec => LoadReplaces
  <1> DEFINE Step == ~ misread /\ pc \in {"open", "load"} /\ pc' = "idle"
                       => Pairs(table') \subseteq FilePairs
  <1>1. Init => LoadedOnly
    BY DEF Init, LoadedOnly
  <1>2. TypeInv /\ LoadedOnly /\ [Next]_vars => LoadedOnly'
    BY LoadedOnlyStep
  <1>3. TypeInv /\ LoadedOnly /\ [Next]_vars => [Step]_vars
    <2> SUFFICES ASSUME LoadedOnly, Next, ~ misread, pc \in {"open", "load"}, pc' = "idle"
                 PROVE  Pairs(table') \subseteq FilePairs
      OBVIOUS
    <2>1. CASE LoadOpen \/ LoadStopsShort \/ LoadEnd
      <3>1. table' = table /\ (LoadOpen => table = << >>) /\ (~ LoadOpen => pc = "load")
        BY <2>1 DEF LoadOpen, LoadStopsShort, LoadEnd, JobSame, data, LoadedOnly
      <3>2. Pairs(table') = Pairs(table)
        BY <3>1 DEF Pairs
      <3> QED
        BY <3>1, <3>2, EmptyPairs DEF LoadedOnly
    <2>2. CASE Crash
      BY <2>2, EmptyPairs DEF Crash
    <2>3. CASE ~ (LoadOpen \/ LoadStopsShort \/ LoadEnd \/ Crash)
      BY <2>3 DEF Next, Training, Insert, Accum, Erase, Clear, ImportValues, Wrote, Writable, Job,
                  SaveOpen, Start, SaveKeys, SaveValues, SaveClose, LoadClear, LoadNext, Finished
    <2> QED
      BY <2>1, <2>2, <2>3
  <1> QED
    BY <1>1, <1>2, <1>3, TypeInvKept, PTL DEF Spec, LoadReplaces
-----------------------------------------------------------------------------
(* Keys and values stay together.  While at most one thing has come        *)
(* between the records of the files, the two files either agree, record by *)
(* record, or have different lengths when no save is writing them; after a *)
(* crash they agree as far as the shorter goes.                            *)
HoleKind == {"keys", "values", "crash", "append"}
Trusted  == ~ misread /\ \E h \in HoleKind : holes \subseteq {h}

Real(v, k) == v # Junk /\ v.of = k
TableReal  == \A k \in DOMAIN table : Real(table[k].val, k)
RealUpTo(n) == \A i \in 1 .. n : Real(disk["values"][i], disk["keys"][i])

Writing == pc \in {"save", "append"}
Pending == IF pc = "append" THEN Len(Chunk) ELSE 0   \* keys written, values not yet

Aligned ==
  /\ Len(disk["keys"]) = Len(disk["values"]) + Pending
  /\ \A i \in 1 .. Pending : disk["keys"][Len(disk["values"]) + i] = todo[i]
  /\ RealUpTo(Len(disk["values"]))
KeysShort   == holes = {"keys"}   /\ Len(disk["keys"]) < Len(disk["values"]) + Pending
ValuesShort == holes = {"values"} /\ Len(disk["keys"]) > Len(disk["values"]) + Pending
Cut == /\ holes = {"crash"} /\ ~ Writing
       /\ \A n \in Nat : n <= Len(disk["keys"]) /\ n <= Len(disk["values"]) => RealUpTo(n)

FilesReal == disk["keys"] # NoFile => Aligned \/ KeysShort \/ ValuesShort \/ Cut

SaveReads ==
  Writing => /\ pc = "append" => todo # << >>
             /\ \A i \in 1 .. Len(todo) : todo[i] \in DOMAIN table

PairInv ==
  /\ holes \subseteq HoleKind
  /\ ~ Visible => disk["keys"] = NoFile
  /\ Trusted => TableReal /\ FilesReal
  /\ SaveReads

LEMMA KeptIffFile ==
  ASSUME TypeInv
  PROVE  disk["keys"] # NoFile <=> Kept
  BY ContentsAssumption DEF TypeInv, FilesOK, Kept

(* Cardinality(holes) <= 1, without counting.                              *)
LEMMA TrustedMeans ==
  ASSUME holes \subseteq HoleKind
  PROVE  Trusted <=> ~ misread /\ Cardinality(holes) <= 1
  <1>1. IsFiniteSet(HoleKind)
    <2>1. IsFiniteSet({"keys"})
      BY FS_Singleton
    <2>2. IsFiniteSet({"keys"} \cup {"values"})
      BY <2>1, FS_AddElement
    <2>3. IsFiniteSet(({"keys"} \cup {"values"}) \cup {"crash"})
      BY <2>2, FS_AddElement
    <2>4. IsFiniteSet((({"keys"} \cup {"values"}) \cup {"crash"}) \cup {"append"})
      BY <2>3, FS_AddElement
    <2>5. HoleKind = (({"keys"} \cup {"values"}) \cup {"crash"}) \cup {"append"}
      BY DEF HoleKind
    <2> QED
      BY <2>4, <2>5
  <1>2. IsFiniteSet(holes) /\ Cardinality(holes) \in Nat
    BY <1>1, FS_Subset, FS_CardinalityType
  <1>3. ASSUME NEW h \in HoleKind, holes \subseteq {h}
        PROVE  Cardinality(holes) <= 1
    <2>1. IsFiniteSet({h}) /\ Cardinality({h}) = 1
      BY FS_Singleton
    <2>2. Cardinality(holes) <= Cardinality({h})
      BY <1>3, <2>1, FS_Subset
    <2> QED
      BY <2>1, <2>2
  <1>4. ASSUME Cardinality(holes) <= 1
        PROVE  \E h \in HoleKind : holes \subseteq {h}
    <2>1. Cardinality(holes) = 0 \/ Cardinality(holes) = 1
      BY <1>2, <1>4
    <2>2. CASE Cardinality(holes) = 0
      BY <1>2, <2>2, FS_EmptySet DEF HoleKind
    <2>3. CASE Cardinality(holes) = 1
      <3>1. PICK h : holes = {h}
        BY <1>2, <2>3, FS_Singleton
      <3> QED
        BY <3>1
    <2> QED
      BY <2>1, <2>2, <2>3
  <1> QED
    BY <1>3, <1>4 DEF Trusted

LEMMA TrustLasts ==
  ASSUME holes \subseteq holes', misread => misread', Trusted'
  PROVE  Trusted
  BY DEF Trusted

(* A step that leaves the files alone, and is not part of a save.          *)
LEMMA FilesUntouched ==
  ASSUME PairInv, UNCHANGED <<disk, atomicMove>>, ~ Writing, ~ Writing',
         holes' = holes, misread => misread', Trusted' => TableReal'
  PROVE  PairInv'
  <1>1. Pending = 0 /\ Pending' = 0
    BY DEF Pending, Writing
  <1>2. FilesReal => FilesReal'
    BY <1>1 DEF FilesReal, Aligned, KeysShort, ValuesShort, Cut, RealUpTo
  <1>3. Trusted' => Trusted
    BY TrustLasts
  <1> QED
    BY <1>2, <1>3 DEF PairInv, Visible, SaveReads

LEMMA EvictedReal ==
  ASSUME NEW t, NEW last \in Nat, Fits(t, last), NEW u \in Evicted(t),
         \A k \in DOMAIN t : Real(t[k].val, k)
  PROVE  \A k \in DOMAIN u : Real(u[k].val, k)
  BY EvictedFits

LEMMA AssignedReal ==
  ASSUME NEW t, \A k \in DOMAIN t : Real(t[k].val, k), NEW ks \in SUBSET Keys,
         writes \in Nat, writes < MaxWrites
  PROVE  \A k \in DOMAIN Assigned(t, ks) : Real(Assigned(t, ks)[k].val, k)
  <1>1. \A k \in ks : [of |-> k, write |-> writes + 1] \in [of : Keys, write : 1 .. MaxWrites]
    BY HkvAssumption
  <1> QED
    BY <1>1, ContentsAssumption DEF Assigned, Real

LEMMA TrainingPairs ==
  ASSUME TypeInv, PairInv, Training
  PROVE  PairInv'
  <1>1. /\ UNCHANGED <<disk, atomicMove, pc, holes, misread>> /\ pc = "idle"
        /\ writes \in Nat /\ writes < MaxWrites
    BY HkvAssumption
       DEF Training, Insert, Accum, Erase, Clear, ImportValues, Wrote, Writable, TypeInv, CountsOK, fixed
  <1>2. Fits(table, epoch) /\ epoch \in Nat
    BY DEF TypeInv, TypeOK, Fits
  <1>3. ASSUME Trusted'
        PROVE  TableReal'
    <2>1. Trusted /\ TableReal
      BY <1>1, <1>3 DEF Trusted, PairInv
    <2>2. ASSUME NEW t, Fits(t, epoch), \A k \in DOMAIN t : Real(t[k].val, k),
                 NEW ks \in SUBSET Keys, table' \in Evicted(Assigned(t, ks))
          PROVE  TableReal'
      BY <2>2, <1>1, <1>2, AssignedFits, AssignedReal, EvictedReal DEF TableReal
    <2>3. ASSUME NEW ks \in SUBSET Keys, Insert(ks)
          PROVE  TableReal'
      BY <2>1, <2>2, <2>3, <1>2 DEF Insert, TableReal
    <2>4. ASSUME NEW ks \in SUBSET Keys, NEW exists \in BOOLEAN, Accum(ks, exists)
          PROVE  TableReal'
      <3>1. Hit(ks, exists) \in SUBSET Keys
        BY DEF Hit
      <3> QED
        BY <3>1, <2>1, <2>2, <2>4, <1>2 DEF Accum, TableReal
    <2>5. ASSUME NEW ks \in SUBSET Keys, Erase(ks)
          PROVE  TableReal'
      BY <2>1, <2>5 DEF Erase, Erased, TableReal
    <2>6. ASSUME NEW ks \in SUBSET Keys, ImportValues(ks)
          PROVE  TableReal'
      <3>1. Fits(<< >>, epoch) /\ DOMAIN << >> = {}
        BY <1>2, EmptyFits, LaterFits, HkvAssumption
      <3> QED
        BY <3>1, <2>2, <2>6 DEF ImportValues
    <2>7. CASE Clear
      BY <2>7 DEF Clear, TableReal
    <2> QED
      BY <2>3, <2>4, <2>5, <2>6, <2>7 DEF Training
  <1> QED
    BY <1>1, <1>3, FilesUntouched DEF Writing

LEMMA LoadPairs ==
  ASSUME TypeInv, PairInv, LoadedOnly, LoadedOnly',
         LoadClear \/ LoadOpen \/ LoadNext \/ LoadStopsShort \/ LoadEnd
  PROVE  PairInv'
  <1>1. /\ disk' = disk /\ atomicMove' = atomicMove /\ holes' = holes
        /\ ~ Writing /\ ~ Writing'
    <2>1. disk' = disk /\ atomicMove' = atomicMove /\ holes' = holes
      BY DEF LoadClear, LoadOpen, LoadNext, LoadStopsShort, LoadEnd, JobSame, fixed
    <2>2. pc \in {"idle", "open", "load"} /\ pc' \in {"idle", "open", "load"}
      BY DEF LoadClear, LoadOpen, LoadNext, LoadStopsShort, LoadEnd, Start
    <2> QED
      BY <2>1, <2>2 DEF Writing
  <1>2. misread => misread'
    BY Zenon DEF LoadClear, LoadOpen, LoadNext, LoadStopsShort, LoadEnd, JobSame
  <1>3. ASSUME Trusted'
        PROVE  TableReal'
    <2>1. Trusted /\ TableReal /\ FilesReal
      BY <1>1, <1>2, <1>3, TrustLasts DEF PairInv
    <2>2. CASE LoadClear
      BY <2>2 DEF LoadClear, TableReal
    <2>3. CASE LoadOpen \/ LoadStopsShort \/ LoadEnd
      BY <2>1, <2>3 DEF LoadOpen, LoadStopsShort, LoadEnd, JobSame, data, TableReal
    <2>4. CASE LoadNext
      <3>1. pc = "load" /\ pc' = "load"
        BY <2>4 DEF LoadNext
      <3>2. Kept /\ Loadable
        BY <3>1 DEF TypeInv, LoadOK
      <3>3. Len(disk["keys"]) \in Nat /\ Len(disk["values"]) = Len(disk["keys"])
            /\ DOMAIN disk["keys"] = 1 .. Len(disk["keys"])
        BY <3>2, LenProperties DEF Kept, Loadable
      <3>4. Pending = 0
        BY <3>1 DEF Pending
      <3>5. RealUpTo(Len(disk["keys"]))
        BY <2>1, <3>2, <3>3, <3>4 DEF FilesReal, Loadable, Aligned, KeysShort, ValuesShort, Cut
      <3>6. Pairs(table') \subseteq FilePairs
        <4>1. FilePairs' = FilePairs
          BY <1>1 DEF FilePairs, Loadable
        <4>2. Pairs(table)' = Pairs(table')
          BY DEF Pairs
        <4> QED
          BY <1>3, <3>1, <4>1, <4>2 DEF LoadedOnly, Trusted
      <3>7. \A k \in DOMAIN table' : <<k, table'[k].val>> \in FilePairs
        BY <3>6 DEF Pairs
      <3>8. \A k \in DOMAIN table' : \E i \in 1 .. Len(disk["keys"]) :
              k = disk["keys"][i] /\ table'[k].val = disk["values"][i]
        BY <3>7, <3>3 DEF FilePairs
      <3> QED
        BY <3>5, <3>8 DEF RealUpTo, TableReal
    <2> QED
      BY <2>2, <2>3, <2>4
  <1> QED
    BY <1>1, <1>2, <1>3, FilesUntouched

(* A save: its records are keys of the table, which nobody changes.        *)
LEMMA SaveOpenPairs ==
  ASSUME TypeInv, PairInv, NEW append \in BOOLEAN, SaveOpen(append)
  PROVE  PairInv'
  <1>1. /\ pc = "idle" /\ pc' = "save" /\ UNCHANGED <<table, atomicMove, misread>>
        /\ Pending = 0 /\ Pending' = 0
    BY DEF SaveOpen, Start, data, Pending, fixed
  <1>2. holes \subseteq holes' /\ holes' \subseteq HoleKind
    BY DEF SaveOpen, PairInv, HoleKind
  <1>3. SaveReads'
    <2>1. DOMAIN table \subseteq Keys /\ IsFiniteSet(DOMAIN table)
      BY FS_Subset, HkvAssumption DEF TypeInv, TypeOK
    <2>2. Cardinality(DOMAIN table) \in Nat
      BY <2>1, FS_CardinalityType
    <2>3. todo' \in [1 .. Cardinality(DOMAIN table) -> DOMAIN table]
      <3>1. PICK order \in SetToSeqs(DOMAIN table) : todo' = order
        BY DEF SaveOpen
      <3> QED
        BY <3>1 DEF SetToSeqs
    <2> QED
      BY <1>1, <2>2, <2>3 DEF SaveReads
  <1>4. ASSUME Trusted'
        PROVE  FilesReal' /\ TableReal'
    <2>1. TableReal /\ FilesReal
      BY <1>1, <1>2, <1>4, TrustLasts DEF PairInv
    <2>2. CASE append /\ disk["keys"] # NoFile
      <3>1. disk' = disk /\ "append" \in holes'
        BY <2>2 DEF SaveOpen
      <3>2. holes \subseteq {"append"}
        BY <1>2, <1>4, <3>1 DEF Trusted
      <3>3. Aligned
        BY <2>1, <2>2, <3>2 DEF FilesReal, KeysShort, ValuesShort, Cut
      <3>4. Aligned'
        BY <1>1, <3>1, <3>3 DEF Aligned, RealUpTo
      <3> QED
        BY <1>1, <2>1, <3>4 DEF FilesReal, TableReal
    <2>3. CASE ~ (append /\ disk["keys"] # NoFile)
      <3>1. CASE Visible
        <4>1. disk' = [f \in DOMAIN disk |-> << >>] /\ DOMAIN disk = {"keys", "values"}
          BY <2>3, <3>1 DEF SaveOpen, TypeInv, FilesOK
        <4>2. Aligned'
          BY <1>1, <4>1 DEF Aligned, RealUpTo
        <4> QED
          BY <1>1, <2>1, <4>2 DEF FilesReal, TableReal
      <3>2. CASE ~ Visible
        BY <1>1, <2>1, <2>3, <3>2 DEF SaveOpen, PairInv, FilesReal, TableReal
      <3> QED
        BY <3>1, <3>2
    <2> QED
      BY <2>2, <2>3
  <1>5. ~ Visible' => disk'["keys"] = NoFile
    BY <1>1 DEF SaveOpen, PairInv, Visible
  <1> QED
    BY <1>2, <1>3, <1>4, <1>5 DEF PairInv

(* What the two halves of a chunk have in common.                          *)
LEMMA AppendedPairs ==
  ASSUME TypeInv, PairInv, Writing, NEW f \in {"keys", "values"}, NEW records,
         NEW fails \in BOOLEAN, Appended(f, records, fails),
         UNCHANGED <<atomicMove, misread>>
  PROVE  /\ holes \subseteq holes' /\ holes' \subseteq HoleKind
         /\ ~ Visible => disk'["keys"] = NoFile
         /\ Trusted' =>
              /\ Trusted /\ TableReal
              /\ disk'["keys"] # NoFile => Kept /\ Visible /\ (Aligned \/ KeysShort \/ ValuesShort)
         /\ Trusted' /\ fails => holes' = {f}
         /\ ~ fails => holes' = holes
         /\ fails => disk' = disk
         /\ Visible /\ ~ fails => disk' = [disk EXCEPT ![f] = @ \o records]
  <1>1. holes \subseteq holes' /\ holes' \subseteq HoleKind
    BY DEF Appended, PairInv, HoleKind
  <1>2. ~ Visible => disk'["keys"] = NoFile
    BY DEF Appended, PairInv
  <1>3. Trusted' => Trusted /\ TableReal /\ FilesReal
    BY <1>1, TrustLasts DEF PairInv
  <1>4. Visible => Kept /\ disk["keys"] # NoFile
    BY KeptIffFile DEF TypeInv, FilesOK, Writing
  <1>5. Trusted' /\ disk'["keys"] # NoFile
          => Kept /\ Visible /\ (Aligned \/ KeysShort \/ ValuesShort)
    BY <1>2, <1>3, <1>4 DEF FilesReal, Cut
  <1>6. Trusted' /\ fails => holes' = {f}
    BY DEF Appended, Trusted
  <1> QED
    BY <1>1, <1>2, <1>3, <1>5, <1>6 DEF Appended

LEMMA SaveKeysPairs ==
  ASSUME TypeInv, PairInv, SaveKeys
  PROVE  PairInv'
  <1>1. PICK fails \in BOOLEAN : Appended("keys", Chunk, fails)
    BY DEF SaveKeys
  <1>2. /\ pc = "save" /\ pc' = "append" /\ todo # << >> /\ todo' = todo
        /\ table' = table /\ atomicMove' = atomicMove /\ misread' = misread
    BY DEF SaveKeys, data, fixed
  <1>3. /\ holes \subseteq holes' /\ holes' \subseteq HoleKind
        /\ ~ Visible => disk'["keys"] = NoFile
        /\ Trusted' =>
              /\ Trusted /\ TableReal
              /\ disk'["keys"] # NoFile => Kept /\ Visible /\ (Aligned \/ KeysShort \/ ValuesShort)
        /\ Trusted' /\ fails => holes' = {"keys"}
        /\ ~ fails => holes' = holes
        /\ fails => disk' = disk
        /\ Visible /\ ~ fails => disk' = [disk EXCEPT !["keys"] = @ \o Chunk]
    BY <1>1, <1>2, AppendedPairs DEF Writing
  <1>4. /\ Chunk \in Seq(Keys) /\ Len(Chunk) \in Nat \ {0} /\ Len(Chunk) <= Len(todo)
        /\ \A i \in 1 .. Len(Chunk) : Chunk[i] = todo[i]
    <2>1. todo \in Seq(Keys) /\ Len(todo) \in Nat \ {0}
      BY <1>2, EmptySeq DEF TypeInv, TypeOK
    <2>2. Len(Chunk) # 0
      <3>1. Least(BufferSize, Len(todo)) \in Nat \ {0}
        BY <2>1, HkvAssumption DEF Least
      <3>2. \A i \in 1 .. Least(BufferSize, Len(todo)) : todo[i] \in Keys
        BY <2>1, HkvAssumption, ElementOfSeq DEF Least
      <3> QED
        BY <3>1, <3>2, SubSeqProperties DEF Chunk
    <2> QED
      BY <2>1, <2>2, ChunkType
  <1>5. Pending = 0 /\ Pending' = Len(Chunk)
    BY <1>2 DEF Pending, Chunk
  <1>6. ASSUME Trusted', disk'["keys"] # NoFile
        PROVE  Aligned' \/ KeysShort' \/ ValuesShort'
    <2> DEFINE K == disk["keys"]
               V == disk["values"]
    <2>1. Kept /\ Visible /\ (Aligned \/ KeysShort \/ ValuesShort) /\ DOMAIN disk = {"keys", "values"}
      BY <1>3, <1>6 DEF TypeInv, FilesOK
    <2>2. Len(K) \in Nat /\ Len(V) \in Nat
      BY <2>1, LenProperties DEF Kept
    <2>3. CASE fails
      <3>1. holes' = {"keys"} /\ holes \subseteq {"keys"} /\ disk' = disk
        BY <1>3, <1>6, <2>3
      <3>2. Len(K) <= Len(V)
        BY <2>1, <2>2, <3>1, <1>5 DEF Aligned, KeysShort, ValuesShort
      <3> QED
        BY <3>1, <3>2, <2>2, <1>4, <1>5 DEF KeysShort
    <2>4. CASE ~ fails
      <3>1. /\ disk'["keys"] = K \o Chunk /\ disk'["values"] = V /\ holes' = holes
        BY <1>3, <2>1, <2>4
      <3>2. /\ Len(disk'["keys"]) = Len(K) + Len(Chunk)
            /\ \A i \in 1 .. Len(K) + Len(Chunk) :
                 disk'["keys"][i] = IF i <= Len(K) THEN K[i] ELSE Chunk[i - Len(K)]
        BY <3>1, <2>1, <1>4, ConcatProperties DEF Kept
      <3>3. CASE Aligned
        <4>1. Len(K) = Len(V)
          BY <3>3, <1>5, <2>2 DEF Aligned
        <4>2. \A i \in 1 .. Len(V) : disk'["keys"][i] = K[i]
          BY <4>1, <3>2, <2>2, <1>4
        <4>3. \A i \in 1 .. Len(Chunk) : disk'["keys"][Len(V) + i] = todo[i]
          <5> SUFFICES ASSUME NEW i \in 1 .. Len(Chunk) PROVE disk'["keys"][Len(V) + i] = todo[i]
            OBVIOUS
          <5> DEFINE j == Len(V) + i
          <5>1. /\ j \in 1 .. Len(K) + Len(Chunk) /\ ~ (j <= Len(K))
                /\ j - Len(K) = i
            BY <4>1, <2>2, <1>4
          <5> HIDE DEF j
          <5>2. disk'["keys"][j] = Chunk[j - Len(K)]
            BY <5>1, <3>2
          <5>3. disk'["keys"][j] = todo[i]
            BY <5>1, <5>2, <1>4
          <5> QED
            BY <5>3 DEF j
        <4>4. RealUpTo(Len(V))'
          BY <4>2, <3>1, <3>3 DEF Aligned, RealUpTo
        <4> QED
          BY <4>1, <4>3, <4>4, <3>1, <3>2, <1>2, <1>5 DEF Aligned
      <3>4. CASE KeysShort \/ ValuesShort
        BY <3>1, <3>2, <3>4, <2>2, <1>4, <1>5 DEF KeysShort, ValuesShort
      <3> QED
        BY <2>1, <3>3, <3>4
    <2> QED
      BY <2>3, <2>4
  <1>7. SaveReads'
    BY <1>2 DEF SaveReads, PairInv, Writing
  <1>8. Trusted' => TableReal' /\ FilesReal'
    BY <1>2, <1>3, <1>6 DEF FilesReal, TableReal
  <1> QED
    BY <1>2, <1>3, <1>7, <1>8 DEF PairInv, Visible

LEMMA SaveValuesPairs ==
  ASSUME TypeInv, PairInv, SaveValues
  PROVE  PairInv'
  <1> DEFINE records == [i \in DOMAIN Chunk |-> ValueAt(Chunk[i])]
             n == Len(Chunk)
             K == disk["keys"]
             V == disk["values"]
  <1>1. PICK fails \in BOOLEAN : Appended("values", records, fails)
    BY DEF SaveValues
  <1>2. /\ pc = "append" /\ pc' = "save" /\ todo' = SubSeq(todo, n + 1, Len(todo))
        /\ table' = table /\ atomicMove' = atomicMove /\ misread' = misread
    BY DEF SaveValues, data, fixed
  <1>3. /\ holes \subseteq holes' /\ holes' \subseteq HoleKind
        /\ ~ Visible => disk'["keys"] = NoFile
        /\ Trusted' =>
              /\ Trusted /\ TableReal
              /\ disk'["keys"] # NoFile => Kept /\ Visible /\ (Aligned \/ KeysShort \/ ValuesShort)
        /\ Trusted' /\ fails => holes' = {"values"}
        /\ ~ fails => holes' = holes
        /\ fails => disk' = disk
        /\ Visible /\ ~ fails => disk' = [disk EXCEPT !["values"] = @ \o records]
    BY <1>1, <1>2, AppendedPairs DEF Writing
  <1>4. /\ todo \in Seq(Keys) /\ Len(todo) \in Nat
        /\ Chunk \in Seq(Keys) /\ n \in Nat \ {0} /\ n <= Len(todo)
        /\ \A i \in 1 .. n : Chunk[i] = todo[i]
        /\ Len(todo') = Len(todo) - n
        /\ \A i \in 1 .. Len(todo) - n : todo'[i] = todo[n + i]
    <2>1. todo \in Seq(Keys) /\ Len(todo) \in Nat \ {0}
      BY <1>2, EmptySeq DEF TypeInv, TypeOK, PairInv, SaveReads, Writing
    <2>2. n # 0
      <3>1. Least(BufferSize, Len(todo)) \in Nat \ {0}
        BY <2>1, HkvAssumption DEF Least
      <3>2. \A i \in 1 .. Least(BufferSize, Len(todo)) : todo[i] \in Keys
        BY <2>1, HkvAssumption, ElementOfSeq DEF Least
      <3> QED
        BY <3>1, <3>2, SubSeqProperties DEF Chunk
    <2> QED
      BY <1>2, <2>1, <2>2, ChunkType
  <1>5. Pending = n /\ Pending' = 0
    BY <1>2 DEF Pending
  <1>6. records \in Seq(Value) /\ Len(records) = n
        /\ \A i \in 1 .. n : records[i] = table[todo[i]].val /\ todo[i] \in DOMAIN table
    <2>1. DOMAIN Chunk = 1 .. n
      BY <1>4, LenProperties
    <2>2. \A i \in 1 .. n : todo[i] \in DOMAIN table
      BY <1>2, <1>4 DEF PairInv, SaveReads, Writing
    <2>3. \A i \in 1 .. n : records[i] = table[todo[i]].val
      BY <2>1, <2>2, <1>4 DEF ValueAt
    <2>4. \A k \in DOMAIN table : table[k].val \in Value
      BY DEF TypeInv, TypeOK
    <2>5. records \in [1 .. n -> Value]
      <3>1. DOMAIN records = 1 .. n /\ \A i \in 1 .. n : records[i] \in Value
        BY <2>1, <2>2, <2>3, <2>4
      <3> QED
        BY <3>1
    <2> HIDE DEF records
    <2> QED
      BY <2>2, <2>3, <2>5, <1>4
  <1> HIDE DEF records, n
  <1>7. ASSUME Trusted', disk'["keys"] # NoFile
        PROVE  Aligned' \/ KeysShort' \/ ValuesShort'
    <2>1. Kept /\ Visible /\ (Aligned \/ KeysShort \/ ValuesShort) /\ DOMAIN disk = {"keys", "values"}
      BY <1>3, <1>7 DEF TypeInv, FilesOK
    <2>2. Len(K) \in Nat /\ Len(V) \in Nat
      BY <2>1, LenProperties DEF Kept
    <2>3. CASE fails
      <3>1. holes' = {"values"} /\ holes \subseteq {"values"} /\ disk' = disk
        BY <1>3, <1>7, <2>3
      <3>2. Len(K) >= Len(V) + n
        BY <2>1, <2>2, <3>1, <1>4, <1>5 DEF Aligned, KeysShort, ValuesShort
      <3> QED
        BY <3>1, <3>2, <2>2, <1>4, <1>5 DEF ValuesShort
    <2>4. CASE ~ fails
      <3>1. /\ disk'["values"] = V \o records /\ disk'["keys"] = K /\ holes' = holes
        BY <1>3, <2>1, <2>4
      <3>2. /\ Len(disk'["values"]) = Len(V) + n
            /\ \A i \in 1 .. Len(V) + n :
                 disk'["values"][i] = IF i <= Len(V) THEN V[i] ELSE records[i - Len(V)]
        <4>1. /\ Len(V \o records) = Len(V) + Len(records)
              /\ \A i \in 1 .. Len(V) + Len(records) :
                   (V \o records)[i] = IF i <= Len(V) THEN V[i] ELSE records[i - Len(V)]
          BY <2>1, <1>6, ConcatProperties DEF Kept
        <4> QED
          BY <4>1, <3>1, <1>6
      <3>3. CASE Aligned
        <4>1. Len(K) = Len(V) + n
          BY <3>3, <1>5, <2>2 DEF Aligned
        <4>2. ASSUME NEW i \in 1 .. Len(V) + n
              PROVE  Real(disk'["values"][i], K[i])
          <5>1. CASE i <= Len(V)
            <6>1. i \in 1 .. Len(V) /\ disk'["values"][i] = V[i]
              BY <5>1, <4>2, <3>2, <2>2, <1>4
            <6> QED
              BY <6>1, <3>3 DEF Aligned, RealUpTo
          <5>2. CASE ~ (i <= Len(V))
            <6> DEFINE j == i - Len(V)
            <6>1. j \in 1 .. n /\ i = Len(V) + j
              BY <5>2, <4>2, <2>2, <1>4
            <6>2. disk'["values"][i] = records[j]
              BY <5>2, <4>2, <3>2
            <6> HIDE DEF j
            <6>3. K[i] = todo[j]
              BY <6>1, <3>3, <1>5 DEF Aligned
            <6> QED
              BY <6>1, <6>2, <6>3, <1>3, <1>6, <1>7 DEF TableReal
          <5> QED
            BY <5>1, <5>2
        <4> QED
          BY <4>1, <4>2, <3>1, <3>2, <1>5, <2>2, <1>4 DEF Aligned, RealUpTo
      <3>4. CASE KeysShort \/ ValuesShort
        BY <3>1, <3>2, <3>4, <2>2, <1>4, <1>5 DEF KeysShort, ValuesShort
      <3> QED
        BY <2>1, <3>3, <3>4
    <2> QED
      BY <2>3, <2>4
  <1>8. SaveReads'
    <2>1. \A i \in 1 .. Len(todo') : n + i \in 1 .. Len(todo) /\ i \in 1 .. Len(todo) - n
      BY <1>4
    <2>2. \A i \in 1 .. Len(todo') : todo'[i] \in DOMAIN table
      BY <2>1, <1>2, <1>4 DEF SaveReads, PairInv, Writing
    <2> QED
      BY <2>2, <1>2 DEF SaveReads
  <1>9. Trusted' => TableReal' /\ FilesReal'
    BY <1>2, <1>3, <1>7 DEF FilesReal, TableReal
  <1> QED
    BY <1>2, <1>3, <1>8, <1>9 DEF PairInv, Visible

LEMMA CrashPairs ==
  ASSUME TypeInv, PairInv, Crash
  PROVE  PairInv'
  <1>1. /\ table' = << >> /\ pc' = "idle" /\ holes' = holes \cup {"crash"}
        /\ atomicMove' = atomicMove /\ misread' = misread
    BY DEF Crash, fixed
  <1>2. holes \subseteq holes' /\ holes' \subseteq HoleKind
    BY <1>1 DEF PairInv, HoleKind
  <1>3. disk["keys"] = NoFile => disk' = disk
    BY DEF Crash
  <1>4. ASSUME Trusted', disk["keys"] # NoFile
        PROVE  Cut'
    <2> DEFINE K == disk["keys"]
               V == disk["values"]
    <2>1. Kept /\ DOMAIN disk = {"keys", "values"}
      BY <1>4, KeptIffFile DEF TypeInv, FilesOK
    <2>2. Len(K) \in Nat /\ Len(V) \in Nat
      BY <2>1, LenProperties DEF Kept
    <2>3. holes' = {"crash"} /\ holes \subseteq {"crash"}
      BY <1>1, <1>4 DEF Trusted
    <2>4. Aligned \/ Cut
      BY <1>2, <1>1, <1>4, <2>3, TrustLasts DEF PairInv, FilesReal, KeysShort, ValuesShort
    <2>5. \A n \in Nat : n <= Len(K) /\ n <= Len(V) => RealUpTo(n)
      BY <2>2, <2>4 DEF Aligned, Cut, RealUpTo
    <2>6. PICK k \in 0 .. Len(K) : \E v \in 0 .. Len(V) :
            disk' = [f \in DOMAIN disk |-> SubSeq(disk[f], 1, IF f = "keys" THEN k ELSE v)]
      BY <1>4 DEF Crash
    <2>7. PICK v \in 0 .. Len(V) :
            disk' = [f \in DOMAIN disk |-> SubSeq(disk[f], 1, IF f = "keys" THEN k ELSE v)]
      BY <2>6
    <2>8. disk'["keys"] = SubSeq(K, 1, k) /\ disk'["values"] = SubSeq(V, 1, v)
      BY <2>1, <2>7
    <2>9. Len(disk'["keys"]) = k /\ \A i \in 1 .. k : disk'["keys"][i] = K[i]
      <3>1. \A i \in 1 .. k : K[i] \in Keys
        BY <2>1, <2>2, ElementOfSeq DEF Kept
      <3>2. /\ Len(SubSeq(K, 1, k)) = IF 1 <= k THEN k - 1 + 1 ELSE 0
            /\ \A i \in 1 .. k - 1 + 1 : SubSeq(K, 1, k)[i] = K[1 + i - 1]
        BY <3>1, <2>2, SubSeqProperties
      <3> QED
        BY <3>2, <2>2, <2>8
    <2>10. Len(disk'["values"]) = v /\ \A i \in 1 .. v : disk'["values"][i] = V[i]
      <3>1. \A i \in 1 .. v : V[i] \in Value
        BY <2>1, <2>2, ElementOfSeq DEF Kept
      <3>2. /\ Len(SubSeq(V, 1, v)) = IF 1 <= v THEN v - 1 + 1 ELSE 0
            /\ \A i \in 1 .. v - 1 + 1 : SubSeq(V, 1, v)[i] = V[1 + i - 1]
        BY <3>1, <2>2, SubSeqProperties
      <3> QED
        BY <3>2, <2>2, <2>8
    <2>11. ASSUME NEW n \in Nat, n <= k, n <= v
           PROVE  \A i \in 1 .. n : Real(disk'["values"][i], disk'["keys"][i])
      <3>1. n <= Len(K) /\ n <= Len(V)
        BY <2>2, <2>11
      <3>2. \A i \in 1 .. n : i \in 1 .. k /\ i \in 1 .. v
        BY <2>2, <2>11
      <3> QED
        BY <3>1, <3>2, <2>5, <2>9, <2>10 DEF RealUpTo
    <2> QED
      BY <2>3, <2>9, <2>10, <2>11, <1>1 DEF Cut, RealUpTo, Writing
  <1>5. Trusted' => TableReal' /\ FilesReal'
    BY <1>1, <1>3, <1>4 DEF TableReal, FilesReal
  <1> QED
    BY <1>1, <1>2, <1>3, <1>5 DEF PairInv, Visible, SaveReads, Writing

LEMMA StepPairs ==
  ASSUME TypeInv, LoadedOnly, LoadedOnly', PairInv, [Next]_vars
  PROVE  PairInv'
  <1>1. CASE SaveClose
    <2>1. /\ pc = "save" /\ pc' = "idle" /\ UNCHANGED <<table, disk, atomicMove, holes, misread>>
      BY <1>1 DEF SaveClose, JobSame, data, fixed
    <2>2. Pending = 0 /\ Pending' = 0
      BY <2>1 DEF Pending
    <2>3. FilesReal => FilesReal'
      BY <2>1, <2>2 DEF FilesReal, Aligned, KeysShort, ValuesShort, Cut, RealUpTo, Writing
    <2>4. Trusted' => Trusted
      BY <2>1 DEF Trusted
    <2> QED
      BY <2>1, <2>3, <2>4 DEF PairInv, Visible, SaveReads, Writing, TableReal
  <1>2. CASE UNCHANGED vars
    BY <1>2 DEF vars, data, hist, PairInv, Visible, Trusted, TableReal, FilesReal, Aligned, KeysShort,
                ValuesShort, Cut, RealUpTo, Pending, Chunk, SaveReads, Writing, fixed
  <1>3. CASE SaveOpen(TRUE) \/ SaveOpen(FALSE) \/ SaveKeys \/ SaveValues
    BY <1>3, SaveOpenPairs, SaveKeysPairs, SaveValuesPairs
  <1> QED
    BY <1>1, <1>2, <1>3, TrainingPairs, LoadPairs, CrashPairs DEF Next, Job, Finished

(* No key is ever paired with another key's value, in the table or in a    *)
(* file that loads, as long as no read of values fails and no more than one*)
(* kind of loss has come between the records.                              *)
THEOREM PairsStayReal == Spec => []PairsAreReal
  <1> DEFINE Inv == TypeInv /\ LoadedOnly /\ PairInv
  <1>1. Init => LoadedOnly /\ PairInv
    BY DEF Init, LoadedOnly, PairInv, HoleKind, TableReal, FilesReal, SaveReads, Writing
  <1>2. Inv /\ [Next]_vars => Inv'
    BY StepInv, LoadedOnlyStep, StepPairs
  <1>3. Inv => PairsAreReal
    BY TrustedMeans DEF PairInv, PairsAreReal, TableReal, Real
  <1> QED
    BY InitInv, <1>1, <1>2, <1>3, PTL DEF Spec

-----------------------------------------------------------------------------
(* A save that nothing disturbs goes once through the keys of the table as *)
(* it was when the save began, in some order.                              *)
Enumerates(order) ==
  /\ Len(disk["keys"]) = Len(disk["values"]) + Pending
  /\ Len(todo) = Len(order) - Len(disk["values"])
  /\ \A i \in 1 .. Len(todo) : todo[i] = order[Len(disk["values"]) + i]
  /\ \A i \in 1 .. Len(disk["keys"]) : disk["keys"][i] = order[i]
  /\ \A i \in 1 .. Len(disk["values"]) : disk["values"][i] = saved[order[i]].val

SavedSoFar ==
  Writing => /\ saved = table
             /\ whole /\ Visible => \E order \in SetToSeqs(DOMAIN saved) : Enumerates(order)

(* An order of the keys of the table: each once, and all of them.          *)
LEMMA OrderType ==
  ASSUME TypeInv, NEW order \in SetToSeqs(DOMAIN table)
  PROVE  /\ Len(order) = Cardinality(DOMAIN table) /\ Len(order) \in Nat
         /\ order \in Seq(Keys)
         /\ \A i \in 1 .. Len(order) : order[i] \in DOMAIN table
         /\ \A k \in DOMAIN table : \E i \in 1 .. Len(order) : order[i] = k
  <1> DEFINE c == Cardinality(DOMAIN table)
  <1>1. DOMAIN table \subseteq Keys /\ IsFiniteSet(DOMAIN table) /\ c \in Nat
    BY FS_Subset, FS_CardinalityType, HkvAssumption DEF TypeInv, TypeOK
  <1>2. order \in [1 .. c -> DOMAIN table] /\ \A i, j \in 1 .. c : i # j => order[i] # order[j]
    BY DEF SetToSeqs
  <1>3. order \in Injection(1 .. c, DOMAIN table)
    BY <1>2 DEF Injection, IsInjective
  <1>4. Cardinality(1 .. c) = c
    BY <1>1, FS_Interval
  <1>5. order \in Surjection(1 .. c, DOMAIN table)
    BY <1>1, <1>3, <1>4, FS_Injection
  <1>6. \A k \in DOMAIN table : \E i \in 1 .. c : order[i] = k
    BY <1>5 DEF Surjection
  <1> HIDE DEF c
  <1>7. order \in [1 .. c -> Keys] /\ c \in Nat
    BY <1>1, <1>2
  <1>8. Len(order) = c /\ order \in Seq(Keys)
    BY <1>7
  <1> QED
    BY <1>1, <1>2, <1>6, <1>8 DEF c

LEMMA SaveOpenOrder ==
  ASSUME TypeInv, NEW append \in BOOLEAN, SaveOpen(append)
  PROVE  SavedSoFar'
  <1>1. pc' = "save" /\ table' = table /\ saved' = table /\ Visible' = Visible
    BY DEF SaveOpen, Start, data, Visible, fixed
  <1>2. PICK order \in SetToSeqs(DOMAIN table) : todo' = order
    BY DEF SaveOpen
  <1>3. ASSUME whole', Visible
        PROVE  Enumerates(order)'
    <2>1. ~ (append /\ disk["keys"] # NoFile)
      BY <1>3 DEF SaveOpen
    <2>2. disk' = [f \in DOMAIN disk |-> << >>] /\ DOMAIN disk = {"keys", "values"}
      BY <1>3, <2>1 DEF SaveOpen, TypeInv, FilesOK
    <2>3. disk'["keys"] = << >> /\ disk'["values"] = << >> /\ Pending' = 0
      BY <1>1, <2>2 DEF Pending
    <2>4. Len(order) \in Nat
      BY OrderType
    <2> QED
      BY <1>2, <2>3, <2>4 DEF Enumerates
  <1> QED
    BY <1>1, <1>3 DEF SavedSoFar

LEMMA ChunkHere ==
  ASSUME TypeInv, PairInv, SaveKeys \/ SaveValues
  PROVE  /\ todo \in Seq(Keys) /\ Len(todo) \in Nat
         /\ Chunk \in Seq(Keys) /\ Len(Chunk) \in Nat /\ Len(Chunk) <= Len(todo)
         /\ DOMAIN Chunk = 1 .. Len(Chunk)
         /\ \A i \in 1 .. Len(Chunk) : Chunk[i] = todo[i] /\ todo[i] \in DOMAIN table
         /\ Visible => Kept
  <1>1. todo \in Seq(Keys) /\ Writing
    BY DEF TypeInv, TypeOK, SaveKeys, SaveValues, Writing
  <1>2. /\ Chunk \in Seq(Keys) /\ Len(Chunk) \in Nat /\ Len(Chunk) <= Len(todo)
        /\ \A i \in 1 .. Len(Chunk) : Chunk[i] = todo[i]
    BY <1>1, ChunkType
  <1>3. Len(todo) \in Nat /\ DOMAIN Chunk = 1 .. Len(Chunk)
    BY <1>1, <1>2, LenProperties
  <1>4. \A i \in 1 .. Len(Chunk) : todo[i] \in DOMAIN table
    BY <1>1, <1>2, <1>3 DEF PairInv, SaveReads
  <1>5. Visible => Kept
    BY <1>1 DEF TypeInv, FilesOK, Writing
  <1> QED
    BY <1>1, <1>2, <1>3, <1>4, <1>5

LEMMA SaveKeysOrder ==
  ASSUME TypeInv, PairInv, SavedSoFar, SaveKeys
  PROVE  SavedSoFar'
  <1> DEFINE K == disk["keys"]
             V == disk["values"]
             n == Len(Chunk)
  <1>1. /\ pc = "save" /\ pc' = "append" /\ todo' = todo /\ saved' = saved
        /\ table' = table /\ Visible' = Visible /\ saved = table
    BY DEF SaveKeys, data, Visible, SavedSoFar, Writing, fixed
  <1>2. Pending = 0 /\ Pending' = n
    BY <1>1 DEF Pending, Chunk
  <1>3. ASSUME whole', Visible
        PROVE  \E order \in SetToSeqs(DOMAIN saved) : Enumerates(order)'
    <2>1. whole /\ disk' = [disk EXCEPT !["keys"] = @ \o Chunk]
      BY <1>3 DEF SaveKeys, Appended
    <2>2. PICK order \in SetToSeqs(DOMAIN saved) : Enumerates(order)
      BY <1>1, <1>3, <2>1 DEF SavedSoFar, Writing
    <2>3. /\ Len(order) \in Nat /\ Kept /\ DOMAIN disk = {"keys", "values"}
          /\ Len(K) \in Nat /\ Len(V) \in Nat
      BY <1>1, <1>3, OrderType, ChunkHere, LenProperties DEF TypeInv, FilesOK, Kept
    <2>4. /\ disk'["keys"] = K \o Chunk /\ disk'["values"] = V
      BY <2>1, <2>3
    <2>5. /\ Len(disk'["keys"]) = Len(K) + n
          /\ \A i \in 1 .. Len(K) + n :
               disk'["keys"][i] = IF i <= Len(K) THEN K[i] ELSE Chunk[i - Len(K)]
      BY <2>3, <2>4, ChunkHere, ConcatProperties DEF Kept
    <2>6. Len(K) = Len(V)
      BY <1>2, <2>2, <2>3 DEF Enumerates
    <2>7. n \in Nat /\ n <= Len(todo) /\ Len(todo) \in Nat /\ \A i \in 1 .. n : Chunk[i] = todo[i]
      BY ChunkHere
    <2> HIDE DEF n
    <2>8. ASSUME NEW i \in 1 .. Len(K) + n
          PROVE  disk'["keys"][i] = order[i]
      <3>1. CASE i <= Len(K)
        BY <2>2, <2>3, <2>5, <2>7, <2>8, <3>1 DEF Enumerates
      <3>2. CASE ~ (i <= Len(K))
        <4> DEFINE j == i - Len(K)
        <4>1. j \in 1 .. n /\ i = Len(V) + j /\ j \in 1 .. Len(todo)
          BY <2>3, <2>6, <2>7, <2>8, <3>2
        <4>2. disk'["keys"][i] = Chunk[j]
          BY <2>5, <2>8, <3>2
        <4> HIDE DEF j
        <4>3. todo[j] = order[Len(V) + j]
          BY <4>1, <2>2 DEF Enumerates
        <4> QED
          BY <4>1, <4>2, <4>3, <2>7
      <3> QED
        BY <3>1, <3>2
    <2>9. Enumerates(order)'
      BY <1>1, <1>2, <2>2, <2>4, <2>5, <2>6, <2>8 DEF Enumerates
    <2> QED
      BY <2>9
  <1> QED
    BY <1>1, <1>3 DEF SavedSoFar

LEMMA SaveValuesOrder ==
  ASSUME TypeInv, PairInv, SavedSoFar, SaveValues
  PROVE  SavedSoFar'
  <1> DEFINE K == disk["keys"]
             V == disk["values"]
             n == Len(Chunk)
             records == [i \in DOMAIN Chunk |-> ValueAt(Chunk[i])]
  <1>1. /\ pc = "append" /\ pc' = "save" /\ saved' = saved
        /\ todo' = SubSeq(todo, n + 1, Len(todo))
        /\ table' = table /\ Visible' = Visible /\ saved = table
    BY DEF SaveValues, data, Visible, SavedSoFar, Writing, fixed
  <1>2. Pending = n /\ Pending' = 0
    BY <1>1 DEF Pending
  <1>3. /\ n \in Nat /\ n <= Len(todo) /\ Len(todo) \in Nat
        /\ Len(todo') = Len(todo) - n
        /\ \A i \in 1 .. Len(todo) - n : todo'[i] = todo[n + i]
    BY <1>1, ChunkHere, ChunkType
  <1>4. records \in Seq(Value) /\ Len(records) = n
        /\ \A i \in 1 .. n : records[i] = saved[todo[i]].val
    <2>1. \A i \in 1 .. n : records[i] = table[todo[i]].val /\ todo[i] \in DOMAIN table
      BY ChunkHere DEF ValueAt
    <2>2. \A k \in DOMAIN table : table[k].val \in Value
      BY DEF TypeInv, TypeOK
    <2>3. DOMAIN records = 1 .. n /\ \A i \in 1 .. n : records[i] \in Value
      BY <2>1, <2>2, ChunkHere
    <2>4. records \in [1 .. n -> Value]
      BY <2>3
    <2> HIDE DEF records
    <2> QED
      BY <2>1, <2>4, <1>1, <1>3
  <1>5. ASSUME whole', Visible
        PROVE  \E order \in SetToSeqs(DOMAIN saved) : Enumerates(order)'
    <2>1. whole /\ disk' = [disk EXCEPT !["values"] = @ \o records]
      BY <1>5 DEF SaveValues, Appended
    <2>2. PICK order \in SetToSeqs(DOMAIN saved) : Enumerates(order)
      BY <1>1, <1>5, <2>1 DEF SavedSoFar, Writing
    <2>3. /\ Len(order) \in Nat /\ Kept /\ DOMAIN disk = {"keys", "values"}
          /\ Len(K) \in Nat /\ Len(V) \in Nat
      BY <1>1, <1>5, OrderType, ChunkHere, LenProperties DEF TypeInv, FilesOK, Kept
    <2>4. /\ disk'["values"] = V \o records /\ disk'["keys"] = K
      BY <2>1, <2>3
    <2> HIDE DEF records, n
    <2>5. /\ Len(disk'["values"]) = Len(V) + n
          /\ \A i \in 1 .. Len(V) + n :
               disk'["values"][i] = IF i <= Len(V) THEN V[i] ELSE records[i - Len(V)]
      <3>1. /\ Len(V \o records) = Len(V) + Len(records)
            /\ \A i \in 1 .. Len(V) + Len(records) :
                 (V \o records)[i] = IF i <= Len(V) THEN V[i] ELSE records[i - Len(V)]
        BY <2>3, <1>4, ConcatProperties DEF Kept
      <3> QED
        BY <3>1, <2>4, <1>4
    <2>6. Len(K) = Len(V) + n
      BY <1>2, <2>2, <2>3 DEF Enumerates
    <2>7. ASSUME NEW i \in 1 .. Len(V) + n
          PROVE  disk'["values"][i] = saved[order[i]].val
      <3>1. CASE i <= Len(V)
        BY <2>2, <2>3, <2>5, <1>3, <2>7, <3>1 DEF Enumerates
      <3>2. CASE ~ (i <= Len(V))
        <4> DEFINE j == i - Len(V)
        <4>1. j \in 1 .. n /\ i = Len(V) + j /\ j \in 1 .. Len(todo)
          <5>1. n \in Nat /\ n <= Len(todo) /\ Len(todo) \in Nat /\ Len(V) \in Nat
            BY <2>3, <1>3
          <5> HIDE DEF V
          <5> QED
            BY <5>1, <2>7, <3>2
        <4>2. disk'["values"][i] = records[j]
          BY <2>5, <2>7, <3>2
        <4> HIDE DEF j
        <4>3. todo[j] = order[Len(V) + j]
          BY <4>1, <2>2 DEF Enumerates
        <4> QED
          BY <4>1, <4>2, <4>3, <1>4
      <3> QED
        BY <3>1, <3>2
    <2>8. Len(todo') = Len(order) - Len(disk'["values"])
      BY <2>2, <2>3, <2>5, <1>3 DEF Enumerates
    <2>9. ASSUME NEW i \in 1 .. Len(todo')
          PROVE  todo'[i] = order[Len(disk'["values"]) + i]
      <3> DEFINE j == n + i
      <3>1. j \in 1 .. Len(todo) /\ Len(V) + j = Len(disk'["values"]) + i
        BY <2>3, <2>5, <2>9, <1>3
      <3>2. todo'[i] = todo[j]
        BY <2>9, <1>3
      <3> HIDE DEF j
      <3>3. todo[j] = order[Len(V) + j]
        BY <3>1, <2>2 DEF Enumerates
      <3> QED
        BY <3>1, <3>2, <3>3
    <2>10. Enumerates(order)'
      <3>1. \A i \in 1 .. Len(disk'["values"]) : disk'["values"][i] = saved'[order[i]].val
        BY <2>5, <2>7, <1>1
      <3>2. \A i \in 1 .. Len(disk'["keys"]) : disk'["keys"][i] = order[i]
        BY <2>2, <2>4 DEF Enumerates
      <3>3. Len(disk'["keys"]) = Len(disk'["values"]) + Pending'
        BY <1>2, <2>4, <2>5, <2>6, <2>3, <1>3
      <3> QED
        BY <3>1, <3>2, <3>3, <2>8, <2>9 DEF Enumerates
    <2> QED
      BY <2>10
  <1> QED
    BY <1>1, <1>5 DEF SavedSoFar

LEMMA StepOrder ==
  ASSUME TypeInv, PairInv, SavedSoFar, [Next]_vars
  PROVE  SavedSoFar'
  <1>1. CASE SaveOpen(TRUE) \/ SaveOpen(FALSE) \/ SaveKeys \/ SaveValues
    BY <1>1, SaveOpenOrder, SaveKeysOrder, SaveValuesOrder
  <1>2. CASE UNCHANGED vars
    BY <1>2 DEF vars, data, hist, SavedSoFar, Writing, Visible, Enumerates, Pending, Chunk, fixed
  <1>3. CASE Training \/ SaveClose \/ Crash
             \/ LoadClear \/ LoadOpen \/ LoadNext \/ LoadStopsShort \/ LoadEnd
    <2>1. ~ Writing'
      BY <1>3 DEF Training, Insert, Accum, Erase, Clear, ImportValues, Wrote, Writable, SaveClose,
                  Crash, LoadClear, Start, LoadOpen, LoadNext, LoadStopsShort, LoadEnd, Writing
    <2> QED
      BY <2>1 DEF SavedSoFar
  <1> QED
    BY <1>1, <1>2, <1>3 DEF Next, Job, Finished

LEMMA FaultsCounted ==
  ASSUME faults \in Nat, [Next]_vars
  PROVE  faults' \in Nat
  <1>1. ASSUME NEW f, NEW records, NEW fails \in BOOLEAN, Appended(f, records, fails)
        PROVE  faults' \in Nat
    BY <1>1 DEF Appended
  <1>2. CASE SaveKeys \/ SaveValues
    BY <1>1, <1>2 DEF SaveKeys, SaveValues
  <1>3. CASE LoadNext \/ LoadStopsShort \/ Crash
    BY <1>3 DEF LoadNext, LoadStopsShort, Crash
  <1>4. CASE ~ (SaveKeys \/ SaveValues \/ LoadNext \/ LoadStopsShort \/ Crash)
    BY <1>4 DEF Next, Training, Insert, Accum, Erase, Clear, ImportValues, Wrote, Job, SaveOpen,
                SaveClose, LoadClear, LoadOpen, LoadEnd, Finished, vars
  <1> QED
    BY <1>2, <1>3, <1>4

(* A save that nothing disturbed leaves a file that loads, with each pair  *)
(* of the table as it was when the save began, once.                       *)
THEOREM SavesAreSnapshots == Spec => SaveIsSnapshot
  <1> DEFINE Inv == TypeInv /\ LoadedOnly /\ PairInv /\ SavedSoFar /\ faults \in Nat
             Closed == pc = "save" /\ pc' = "idle" /\ faults' = faults /\ whole /\ Visible
                         => /\ Loadable /\ FilePairs = Pairs(saved)
                            /\ Len(disk["keys"]) = Cardinality(DOMAIN saved)
  <1>1. Init => LoadedOnly /\ PairInv /\ SavedSoFar /\ faults \in Nat
    BY DEF Init, LoadedOnly, PairInv, HoleKind, TableReal, FilesReal, SaveReads, SavedSoFar, Writing
  <1>2. Inv /\ [Next]_vars => Inv'
    BY StepInv, LoadedOnlyStep, StepPairs, StepOrder, FaultsCounted
  <1>3. Inv /\ [Next]_vars => [Closed]_vars
    <2> SUFFICES ASSUME Inv, Next, pc = "save", pc' = "idle", faults' = faults, whole, Visible
                 PROVE  /\ Loadable /\ FilePairs = Pairs(saved)
                        /\ Len(disk["keys"]) = Cardinality(DOMAIN saved)
      OBVIOUS
    <2>1. todo = << >>
      <3>1. ~ Crash
        BY DEF Crash
      <3> QED
        BY <3>1 DEF Next, Training, Insert, Accum, Erase, Clear, ImportValues, Wrote, Writable, Job,
                    SaveOpen, Start, SaveKeys, SaveValues, SaveClose, LoadClear, LoadOpen, LoadNext,
                    LoadStopsShort, LoadEnd, Finished
    <2>2. saved = table /\ Pending = 0
      BY DEF SavedSoFar, Writing, Pending
    <2>3. PICK order \in SetToSeqs(DOMAIN table) : Enumerates(order)
      BY <2>2 DEF SavedSoFar, Writing
    <2>4. /\ Kept /\ disk["keys"] # NoFile /\ disk["values"] # NoFile
          /\ Len(disk["keys"]) \in Nat /\ Len(disk["values"]) \in Nat
          /\ DOMAIN disk["keys"] = 1 .. Len(disk["keys"])
      BY LenProperties, ContentsAssumption DEF TypeInv, FilesOK, Kept
    <2>5. /\ Len(order) = Cardinality(DOMAIN table) /\ Len(order) \in Nat
          /\ \A i \in 1 .. Len(order) : order[i] \in DOMAIN table
          /\ \A k \in DOMAIN table : \E i \in 1 .. Len(order) : order[i] = k
      BY OrderType
    <2>6. Len(disk["keys"]) = Len(order) /\ Len(disk["values"]) = Len(order)
      BY <2>1, <2>2, <2>3, <2>4, <2>5 DEF Enumerates
    <2>7. \A i \in 1 .. Len(order) : disk["keys"][i] = order[i] /\ disk["values"][i] = table[order[i]].val
      BY <2>2, <2>3, <2>6 DEF Enumerates
    <2>8. Loadable
      BY <2>4, <2>6 DEF Loadable
    <2>9. FilePairs = {<<order[i], table[order[i]].val>> : i \in 1 .. Len(order)}
      BY <2>4, <2>6, <2>7, <2>8 DEF FilePairs
    <2>10. FilePairs = Pairs(table)
      BY <2>5, <2>9 DEF Pairs
    <2> QED
      BY <2>2, <2>5, <2>6, <2>8, <2>10
  <1> QED
    BY InitInv, <1>1, <1>2, <1>3, PTL DEF Spec, SaveIsSnapshot

=============================================================================
