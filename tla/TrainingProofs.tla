---------------------------- MODULE TrainingProofs ----------------------------
(***************************************************************************)
(* Theorems about ShardedVariable and Checkpoints, for any finite set of   *)
(* keys, any worlds, number of trainers and budget: whatever trains,       *)
(* restricts, saves, crashes and restarts, in whatever worlds.             *)
(***************************************************************************)
EXTENDS Checkpoints, FiniteSetTheorems, TLAPS

(* The types: what VarTypeOK and TypeOK say, and the shapes of the records.*)
Fields    == DOMAIN Idle
Active(t) == call[t].pc # "idle"

CallOK(t) == /\ DOMAIN call[t] = Fields
             /\ call[t].pc \in {"idle", "looked", "update"}
             /\ Active(t) => call[t].k \in Keys
             /\ ~ ({"stamp", "status"} \subseteq call[t].todo)
             /\ call[t].exists \in BOOLEAN /\ call[t].slotExists \in BOOLEAN
             /\ call[t].sound \in BOOLEAN

CutOK(s) == /\ DOMAIN cuts[s] = {"pc", "keys", "todo"} /\ cuts[s].pc \in {"export", "remove"}
            /\ cuts[s].keys \subseteq Keys /\ cuts[s].todo \subseteq Table
            /\ \A k \in cuts[s].keys : Home(world, k) = s
            /\ cuts[s].pc = "export" => cuts[s].todo = Table /\ cuts[s].keys = {}

TablesOK ==
  /\ world \in Worlds /\ DOMAIN tables = Table
  /\ \A t \in Table : DOMAIN tables[t] = Shards(world)
  /\ \A t \in Table, s \in Shards(world) :
       \A k \in DOMAIN tables[t][s] : k \in Keys /\ Home(world, k) = s

TrainTypes ==
  /\ TablesOK /\ budget \in Budget
  /\ DOMAIN call = Trainers /\ \A t \in Trainers : CallOK(t)
  /\ DOMAIN cuts \subseteq Shards(world) /\ \A s \in DOMAIN cuts : CutOK(s)
  /\ DOMAIN kept = Keys /\ DOMAIN merit = Keys

(* The value of k, and what becomes of it.                                 *)
At(t, k) == tables[t][Home(world, k)][k]

Same(t, k) == /\ Has(t, k)' <=> Has(t, k)
              /\ Has(t, k) => At(t, k)' = At(t, k)

(* The table has the value v for k, and is otherwise as it was.            *)
Became(t, k, v) ==
  /\ Has(t, k)' /\ At(t, k)' = v
  /\ \A u \in Table, j \in Keys : u # t \/ j # k => Same(u, j)
  /\ \A u \in Table, s \in Shards(world) : u # t => tables'[u][s] = tables[u][s]

LEMMA HomeOf ==
  ASSUME NEW w \in Worlds, NEW k \in Keys
  PROVE  Home(w, k) \in Shards(w)
  <1>1. w.size \in Nat \ {0} /\ w.devs \in Nat \ {0} /\ k \in Nat
    BY VariableAssumption
  <1>2. k % w.size \in 0 .. w.size - 1 /\ k % w.devs \in 0 .. w.devs - 1
    BY <1>1
  <1> QED
    BY <1>2 DEF Home, Shards

LEMMA PutEffect ==
  ASSUME TablesOK, NEW t \in Table, NEW k \in Keys, NEW v, Put(t, k, v), world' = world
  PROVE  TablesOK' /\ Became(t, k, v)
  <1> DEFINE h == Home(world, k)
             f == With(tables[t][h], k, v)
  <1>1. h \in Shards(world)
    BY HomeOf DEF TablesOK
  <1>2. tables' = [tables EXCEPT ![t][h] = f]
    BY DEF Put
  <1>3. DOMAIN f = DOMAIN tables[t][h] \cup {k} /\ f[k] = v
        /\ \A j \in DOMAIN tables[t][h] : j # k => f[j] = tables[t][h][j]
    BY DEF With
  <1> HIDE DEF f
  <1>4. /\ DOMAIN tables' = Table
        /\ \A u \in Table : DOMAIN tables'[u] = Shards(world)
        /\ \A u \in Table, s \in Shards(world) :
             tables'[u][s] = IF u = t /\ s = h THEN f ELSE tables[u][s]
    BY <1>1, <1>2 DEF TablesOK
  <1>5. TablesOK'
    <2> SUFFICES ASSUME NEW u \in Table, NEW s \in Shards(world), NEW j \in DOMAIN tables'[u][s]
                 PROVE  j \in Keys /\ Home(world, j) = s
      BY <1>4 DEF TablesOK
    <2> QED
      BY <1>3, <1>4 DEF TablesOK
  <1>6. Has(t, k)' /\ At(t, k)' = v
    BY <1>1, <1>3, <1>4 DEF Has, At
  <1>7. ASSUME NEW u \in Table, NEW j \in Keys, u # t \/ j # k
        PROVE  Same(u, j)
    <2>1. Home(world, j) \in Shards(world)
      BY HomeOf DEF TablesOK
    <2> HIDE DEF h
    <2> QED
      BY <1>3, <1>4, <1>7, <2>1 DEF Same, Has, At
  <1> QED
    BY <1>4, <1>5, <1>6, <1>7 DEF Became

LEMMA CutEffect ==
  ASSUME TablesOK, NEW t \in Table, NEW s \in DOMAIN cuts, s \in Shards(world), CutOK(s),
         CutTable(s, t)
  PROVE  /\ TablesOK'
         /\ \A j \in cuts[s].keys : ~ Has(t, j)'
         /\ \A u \in Table, j \in Keys : u # t \/ j \notin cuts[s].keys => Same(u, j)
         /\ DOMAIN tables'[t][s] = DOMAIN tables[t][s] \ cuts[s].keys
         /\ \A u \in Table, r \in Shards(world) : u # t \/ r # s => tables'[u][r] = tables[u][r]
  <1> DEFINE f == Cut(t, s)
  <1>1. DOMAIN f = DOMAIN tables[t][s] \ cuts[s].keys /\ \A j \in DOMAIN f : f[j] = tables[t][s][j]
    BY DEF Cut, Restrict
  <1>2. tables' = [tables EXCEPT ![t][s] = f]
    BY DEF CutTable, RestrictSame
  <1>0. world' = world
    BY DEF CutTable, RestrictSame
  <1> HIDE DEF f
  <1>3. /\ DOMAIN tables' = Table
        /\ \A u \in Table : DOMAIN tables'[u] = Shards(world)
        /\ \A u \in Table, r \in Shards(world) :
             tables'[u][r] = IF u = t /\ r = s THEN f ELSE tables[u][r]
    BY <1>2 DEF TablesOK
  <1>4. TablesOK'
    <2> SUFFICES ASSUME NEW u \in Table, NEW r \in Shards(world), NEW j \in DOMAIN tables'[u][r]
                 PROVE  j \in Keys /\ Home(world, j) = r
      BY <1>3, <1>0 DEF TablesOK
    <2> QED
      BY <1>1, <1>3, <1>0 DEF TablesOK
  <1>5. ASSUME NEW j \in cuts[s].keys PROVE ~ Has(t, j)'
    BY <1>1, <1>3, <1>0 DEF Has, CutOK
  <1>6. ASSUME NEW u \in Table, NEW j \in Keys, u # t \/ j \notin cuts[s].keys
        PROVE  Same(u, j)
    <2>1. Home(world, j) \in Shards(world)
      BY HomeOf DEF TablesOK
    <2> QED
      BY <1>1, <1>3, <1>0, <1>6, <2>1 DEF Same, Has, At
  <1> QED
    BY <1>1, <1>3, <1>0, <1>4, <1>5, <1>6

(* A part of a training step is done: the others are to do, or none.       *)
GoesOn(t) ==
  /\ call'[t].pc = call[t].pc /\ call'[t].k = call[t].k /\ call'[t].exists = call[t].exists
  /\ call'[t].slotExists = call[t].slotExists /\ call'[t].sound = call[t].sound

LEMMA EndedEffect ==
  ASSUME DOMAIN call = Trainers, NEW t \in Trainers, CallOK(t), Active(t),
         NEW label, Ended(t, label, {})
  PROVE  /\ DOMAIN call' = Trainers /\ \A u \in Trainers \ {t} : call'[u] = call[u]
         /\ CallOK(t)'
         /\ \/ call'[t].pc = "idle" /\ call[t].todo \subseteq {label}
            \/ /\ GoesOn(t) /\ call'[t].todo = call[t].todo \ {label}
               /\ call'[t].stamp = call[t].stamp
  <1> DEFINE rest == call[t].todo \ {label}
             c == IF rest = {} THEN Idle ELSE [call[t] EXCEPT !.todo = rest]
  <1>1. call' = [call EXCEPT ![t] = c]
    BY DEF Ended
  <1>2. (c = Idle /\ rest = {}) \/ c = [call[t] EXCEPT !.todo = rest]
    OBVIOUS
  <1> HIDE DEF c
  <1>3. /\ DOMAIN call' = Trainers /\ \A u \in Trainers \ {t} : call'[u] = call[u]
        /\ call'[t] = c
    BY <1>1
  <1>4. CASE c = Idle /\ rest = {}
    BY <1>3, <1>4 DEF CallOK, Active, Fields, Idle
  <1>5. CASE c = [call[t] EXCEPT !.todo = rest]
    <2>1. CallOK(t)'
      BY <1>3, <1>5 DEF CallOK, Active, Fields, Idle
    <2>2. /\ GoesOn(t) /\ call'[t].todo = call[t].todo \ {label}
          /\ call'[t].stamp = call[t].stamp
      BY <1>3, <1>5 DEF GoesOn, CallOK, Fields, Idle
    <2> QED
      BY <1>3, <2>1, <2>2
  <1> QED
    BY <1>2, <1>4, <1>5

(* Each step of training, as the facts that follow use it.                 *)
LEMMA LookupEffect ==
  ASSUME TrainTypes, NEW t \in Trainers, NEW k \in budget.keys, Lookup(t, k)
  PROVE  /\ k \in Keys /\ ~ Active(t) /\ tables' = tables /\ TrainTypes'
         /\ \A u \in Trainers \ {t} : call'[u] = call[u]
         /\ call'[t].pc = "looked" /\ call'[t].k = k /\ (call'[t].exists <=> Has("var", k))
         /\ (call'[t].sound <=> Has("var", k)) /\ call'[t].todo = {}
  <1>1. k \in Keys
    BY DEF TrainTypes, Budget
  <1>2. UNCHANGED <<world, tables, cuts, budget, kept, merit>>
    BY DEF Lookup, TrainSame
  <1> DEFINE v == IF Has("var", k) THEN tables["var"][Home(world, k)][k] ELSE {}
             c == [Idle EXCEPT !.pc = "looked", !.k = k, !.id = updates + 1,
                               !.v0 = v, !.exists = Has("var", k), !.sound = Has("var", k)]
  <1>3. call' = [call EXCEPT ![t] = c] /\ ~ Active(t)
    BY DEF Lookup, Active
  <1> HIDE DEF v
  <1>4. /\ c.pc = "looked" /\ c.k = k /\ c.exists = Has("var", k) /\ c.sound = Has("var", k)
        /\ c.todo = {} /\ DOMAIN c = Fields /\ c.slotExists = FALSE
    BY DEF Idle, Fields
  <1> HIDE DEF c
  <1>5. /\ DOMAIN call' = Trainers /\ \A u \in Trainers \ {t} : call'[u] = call[u]
        /\ call'[t] = c
    BY <1>3 DEF TrainTypes
  <1>6. CallOK(t)'
    <2>1. c.exists \in BOOLEAN /\ c.slotExists \in BOOLEAN /\ c.sound \in BOOLEAN
      <3>1. Has("var", k) \in BOOLEAN
        BY DEF Has
      <3> QED
        BY <1>4, <3>1, Zenon
    <2> QED
      BY <1>1, <1>4, <1>5, <2>1 DEF CallOK, Active
  <1>7. \A u \in Trainers : CallOK(u)'
    BY <1>5, <1>6 DEF TrainTypes, CallOK, Active
  <1>8. TrainTypes'
    BY <1>2, <1>5, <1>7 DEF TrainTypes, TablesOK, CutOK
  <1> QED
    BY <1>1, <1>2, <1>3, <1>4, <1>5, <1>8

LEMMA ReadSlotEffect ==
  ASSUME TrainTypes, NEW t \in Trainers, ReadSlot(t)
  PROVE  /\ call[t].pc = "looked" /\ tables' = tables /\ TrainTypes'
         /\ \A u \in Trainers \ {t} : call'[u] = call[u]
         /\ call'[t].pc = "update" /\ call'[t].k = call[t].k
         /\ call'[t].todo = {"var", "slot", "stamp"}
         /\ (call'[t].slotExists <=> Has("slot", call[t].k))
         /\ (call'[t].exists <=> IF shadow /\ slot_bp_v2 THEN Has("slot", call[t].k)
                                 ELSE call[t].exists)
         /\ (call'[t].sound <=> call[t].sound /\ Has("slot", call[t].k))
  <1>1. UNCHANGED <<world, tables, cuts, budget, kept, merit>>
    BY DEF ReadSlot, TrainSame
  <1> DEFINE k == call[t].k
             c == [call[t] EXCEPT !.pc = "update", !.slotExists = Has("slot", k),
                                  !.exists = IF shadow /\ slot_bp_v2 THEN Has("slot", k) ELSE @,
                                  !.sound = @ /\ Has("slot", k),
                                  !.todo = {"var", "slot", "stamp"}]
  <1>2. DOMAIN call = Trainers /\ CallOK(t)
    BY DEF TrainTypes
  <1>3. call' = [call EXCEPT ![t] = c] /\ call[t].pc = "looked"
    BY <1>2 DEF ReadSlot
  <1>4. /\ c.pc = "update" /\ c.k = k /\ c.slotExists = Has("slot", k)
        /\ c.exists = (IF shadow /\ slot_bp_v2 THEN Has("slot", k) ELSE call[t].exists)
        /\ c.sound = (call[t].sound /\ Has("slot", k))
        /\ c.todo = {"var", "slot", "stamp"} /\ DOMAIN c = Fields
    BY <1>2 DEF CallOK, Idle, Fields
  <1> HIDE DEF c
  <1>5. /\ DOMAIN call' = Trainers /\ \A u \in Trainers \ {t} : call'[u] = call[u]
        /\ call'[t] = c
    BY <1>2, <1>3
  <1>6. CallOK(t)'
    <2>1. c.exists \in BOOLEAN /\ c.slotExists \in BOOLEAN /\ c.sound \in BOOLEAN
      <3>1. Has("slot", k) \in BOOLEAN /\ call[t].exists \in BOOLEAN /\ call[t].sound \in BOOLEAN
        BY <1>2 DEF Has, CallOK
      <3>2. c.slotExists \in BOOLEAN /\ c.sound \in BOOLEAN
        BY <1>4, <3>1, Zenon
      <3>3. CASE shadow /\ slot_bp_v2
        BY <1>4, <3>1, <3>2, <3>3, Zenon
      <3>4. CASE ~ (shadow /\ slot_bp_v2)
        BY <1>4, <3>1, <3>2, <3>4, Zenon
      <3> QED
        BY <3>3, <3>4
    <2> QED
      BY <1>2, <1>3, <1>4, <1>5, <2>1 DEF CallOK, Active
  <1>7. \A u \in Trainers : CallOK(u)'
    BY <1>5, <1>6 DEF TrainTypes, CallOK, Active
  <1>8. TrainTypes'
    BY <1>1, <1>5, <1>7 DEF TrainTypes, TablesOK, CutOK
  <1> QED
    BY <1>1, <1>3, <1>4, <1>5, <1>8

(* t has done one of its parts.                                            *)
Parted(t, label) ==
  /\ call[t].pc = "update" /\ label \in call[t].todo /\ call[t].k \in Keys
  /\ \A u \in Trainers \ {t} : call'[u] = call[u]
  /\ \/ call'[t].pc = "idle" /\ call[t].todo \subseteq {label}
     \/ /\ GoesOn(t) /\ call'[t].todo = call[t].todo \ {label}
        /\ call'[t].stamp = call[t].stamp

LEMMA PartEffect ==
  ASSUME TrainTypes, NEW t \in Trainers, NEW label, Todo(t, label), Ended(t, label, {}),
         TablesOK', UNCHANGED <<world, cuts, budget>>, DOMAIN kept' = Keys, merit' = merit
  PROVE  TrainTypes' /\ Parted(t, label)
  <1>1. DOMAIN call = Trainers /\ CallOK(t) /\ Active(t) /\ call[t].k \in Keys
    BY DEF TrainTypes, Todo, Active, CallOK
  <1>2. /\ DOMAIN call' = Trainers /\ \A u \in Trainers \ {t} : call'[u] = call[u]
        /\ CallOK(t)'
        /\ \/ call'[t].pc = "idle" /\ call[t].todo \subseteq {label}
           \/ /\ GoesOn(t) /\ call'[t].todo = call[t].todo \ {label}
              /\ call'[t].stamp = call[t].stamp
    BY <1>1, EndedEffect
  <1>3. \A u \in Trainers : CallOK(u)'
    BY <1>2 DEF TrainTypes, CallOK, Active
  <1> QED
    BY <1>1, <1>2, <1>3 DEF TrainTypes, CutOK, Parted, Todo

LEMMA UpdateVarEffect ==
  ASSUME TrainTypes, NEW t \in Trainers, NEW k, k = call[t].k, UpdateVar(t)
  PROVE  /\ TrainTypes' /\ k \in Keys /\ Parted(t, "var")
         /\ \/ bp_v2 /\ ~ (call[t].exists <=> Has("var", k)) /\ tables' = tables
            \/ /\ ~ bp_v2 \/ (call[t].exists <=> Has("var", k))
               /\ Became("var", k, IF bp_v2 /\ Has("var", k)
                                           THEN At("var", k) \cup {call[t].id}
                                           ELSE call[t].v0 \cup {call[t].id})
         /\ kept' = IF call[t].sound THEN [kept EXCEPT ![k] = @ \cup {call[t].id}] ELSE kept
  <1> DEFINE v == IF bp_v2 /\ Has("var", k) THEN At("var", k) \cup {call[t].id}
                  ELSE call[t].v0 \cup {call[t].id}
             skipped == bp_v2 /\ call[t].exists # Has("var", k)
  <1>1. /\ Todo(t, "var") /\ Ended(t, "var", {}) /\ UNCHANGED <<world, cuts, budget, merit>>
        /\ kept' = IF call[t].sound THEN [kept EXCEPT ![k] = @ \cup {call[t].id}] ELSE kept
        /\ IF skipped THEN tables' = tables ELSE Put("var", k, v)
    BY DEF UpdateVar, TrainSame, At, Accumulates
  <1>2. k \in Keys /\ TablesOK /\ DOMAIN kept' = Keys
    BY <1>1 DEF TrainTypes, Todo, CallOK, Active
  <1>3. CASE skipped
    <2>1. TablesOK' /\ tables' = tables
      BY <1>1, <1>2, <1>3 DEF TablesOK
    <2>2. bp_v2 /\ ~ (call[t].exists <=> Has("var", k))
      BY <1>3 DEF TrainTypes, CallOK, Has
    <2> QED
      BY <1>1, <1>2, <2>1, <2>2, PartEffect
  <1>4. CASE ~ skipped
    <2>1. ~ bp_v2 \/ (call[t].exists <=> Has("var", k))
      BY <1>4 DEF Has
    <2> HIDE DEF v
    <2>2. TablesOK' /\ Became("var", k, v)
      BY <1>1, <1>2, <1>4, PutEffect DEF Table
    <2>3. TrainTypes' /\ Parted(t, "var")
      BY <1>1, <1>2, <2>2, PartEffect
    <2> QED
      BY <1>1, <1>2, <2>1, <2>2, <2>3 DEF v
  <1> QED
    BY <1>3, <1>4

LEMMA UpdateSlotEffect ==
  ASSUME TrainTypes, NEW t \in Trainers, NEW k, k = call[t].k, UpdateSlot(t)
  PROVE  /\ TrainTypes' /\ k \in Keys /\ Parted(t, "slot") /\ kept' = kept
         /\ \/ slot_bp_v2 /\ ~ (call[t].slotExists <=> Has("slot", k)) /\ tables' = tables
            \/ /\ ~ slot_bp_v2 \/ (call[t].slotExists <=> Has("slot", k))
               /\ Became("slot", k, 0)
  <1> DEFINE skipped == slot_bp_v2 /\ call[t].slotExists # Has("slot", k)
  <1>1. /\ Todo(t, "slot") /\ Ended(t, "slot", {}) /\ UNCHANGED <<world, cuts, budget, kept, merit>>
        /\ IF skipped THEN tables' = tables ELSE Put("slot", k, 0)
    BY DEF UpdateSlot, TrainSame
  <1>2. k \in Keys /\ TablesOK /\ DOMAIN kept' = Keys
    BY <1>1 DEF TrainTypes, Todo, CallOK, Active
  <1>3. CASE skipped
    <2>1. TablesOK' /\ tables' = tables
      BY <1>1, <1>2, <1>3 DEF TablesOK
    <2>2. slot_bp_v2 /\ ~ (call[t].slotExists <=> Has("slot", k))
      BY <1>3 DEF TrainTypes, CallOK, Has
    <2> QED
      BY <1>1, <1>2, <2>1, <2>2, PartEffect
  <1>4. CASE ~ skipped
    <2>1. ~ slot_bp_v2 \/ (call[t].slotExists <=> Has("slot", k))
      BY <1>4 DEF Has
    <2>2. TablesOK' /\ Became("slot", k, 0)
      BY <1>1, <1>2, <1>4, PutEffect DEF Table
    <2>3. TrainTypes' /\ Parted(t, "slot")
      BY <1>1, <1>2, <2>2, PartEffect
    <2> QED
      BY <1>1, <1>2, <2>1, <2>2, <2>3
  <1> QED
    BY <1>3, <1>4

LEMMA UpdateStatusEffect ==
  ASSUME TrainTypes, NEW t \in Trainers, NEW k, k = call[t].k, UpdateStatus(t)
  PROVE  /\ TrainTypes' /\ k \in Keys /\ Parted(t, "status") /\ kept' = kept
         /\ Became("status", k, call[t].stamp)
  <1>1. /\ Todo(t, "status") /\ Ended(t, "status", {})
        /\ UNCHANGED <<world, cuts, budget, kept, merit>>
        /\ Put("status", k, call[t].stamp)
    BY DEF UpdateStatus, TrainSame
  <1>2. k \in Keys /\ TablesOK /\ DOMAIN kept' = Keys
    BY <1>1 DEF TrainTypes, Todo, CallOK, Active
  <1>3. TablesOK' /\ Became("status", k, call[t].stamp)
    BY <1>1, <1>2, PutEffect DEF Table
  <1> QED
    BY <1>1, <1>2, <1>3, PartEffect

(* The status is made before it is written: what is to do is never both.   *)
LEMMA StampEffect ==
  ASSUME TrainTypes, NEW t \in Trainers, Stamp(t)
  PROVE  /\ TrainTypes' /\ tables' = tables /\ kept' = kept
         /\ call[t].pc = "update" /\ "stamp" \in call[t].todo /\ call[t].k \in Keys
         /\ "status" \notin call[t].todo
         /\ \A u \in Trainers \ {t} : call'[u] = call[u]
         /\ GoesOn(t) /\ call'[t].todo = (call[t].todo \ {"stamp"}) \cup {"status"}
         /\ \A k \in Keys : k # call[t].k => merit'[k] = merit[k]
         /\ \/ merit'[call[t].k] = call'[t].stamp
            \/ /\ merit'[call[t].k] = merit[call[t].k] + 1
               /\ call'[t].stamp = IF Has("status", call[t].k) THEN At("status", call[t].k) + 1 ELSE 1
  <1> DEFINE k == call[t].k
             x == IF policy = "timestamp" THEN now'
                  ELSE IF Has("status", k) THEN At("status", k) + 1 ELSE 1
             c == [call[t] EXCEPT !.todo = (@ \ {"stamp"}) \cup {"status"}, !.stamp = x]
  <1>1. DOMAIN call = Trainers /\ CallOK(t) /\ DOMAIN merit = Keys
    BY DEF TrainTypes
  <1>2. /\ Todo(t, "stamp") /\ UNCHANGED <<world, cuts, budget, tables, kept>>
        /\ merit' = [merit EXCEPT ![k] = IF policy = "timestamp" THEN now' ELSE @ + 1]
    BY DEF Stamp, TrainSame
  <1>3. call' = [call EXCEPT ![t] = c]
    BY <1>1 DEF Stamp, At
  <1>4. /\ policy = "timestamp" => x = now'
        /\ policy # "timestamp" => x = IF Has("status", k) THEN At("status", k) + 1 ELSE 1
    OBVIOUS
  <1> HIDE DEF x
  <1>5. /\ call[t].pc = "update" /\ "stamp" \in call[t].todo /\ k \in Keys
        /\ "status" \notin call[t].todo
    BY <1>1, <1>2 DEF Todo, CallOK, Active
  <1>6. /\ c.pc = "update" /\ c.k = k /\ c.todo = (call[t].todo \ {"stamp"}) \cup {"status"}
        /\ c.stamp = x /\ DOMAIN c = Fields /\ c.exists = call[t].exists
        /\ c.slotExists = call[t].slotExists /\ c.sound = call[t].sound
    BY <1>1, <1>5 DEF CallOK, Idle, Fields
  <1> HIDE DEF c
  <1>7. /\ DOMAIN call' = Trainers /\ \A u \in Trainers \ {t} : call'[u] = call[u]
        /\ call'[t] = c
    BY <1>1, <1>3
  <1>8. CallOK(t)'
    BY <1>1, <1>5, <1>6, <1>7 DEF CallOK, Active
  <1>9. \A u \in Trainers : CallOK(u)'
    BY <1>7, <1>8 DEF TrainTypes, CallOK, Active
  <1>10. DOMAIN merit' = Keys /\ \A j \in Keys : j # k => merit'[j] = merit[j]
    BY <1>1, <1>2
  <1>11. TrainTypes'
    BY <1>2, <1>7, <1>9, <1>10 DEF TrainTypes, TablesOK, CutOK
  <1>12. \/ merit'[k] = call'[t].stamp
         \/ /\ merit'[k] = merit[k] + 1
            /\ call'[t].stamp = IF Has("status", k) THEN At("status", k) + 1 ELSE 1
    BY <1>1, <1>2, <1>4, <1>5, <1>6, <1>7
  <1> QED
    BY <1>2, <1>5, <1>6, <1>7, <1>10, <1>11, <1>12 DEF GoesOn

(* Restricting: what a restriction begins with, decides and takes away.    *)
LEMMA RestrictionEffect ==
  ASSUME TrainTypes, NEW r \in Ranks, NEW n \in budget.reserves, NEW g, Restriction(r, n, g)
  PROVE  /\ TrainTypes' /\ tables' = tables /\ call' = call /\ kept' = kept /\ merit' = merit
         /\ DOMAIN cuts = {} /\ DOMAIN cuts' = ShardsOf(r)
         /\ \A s \in ShardsOf(r) : cuts'[s] = [pc |-> "export", keys |-> {}, todo |-> Table]
         /\ (~ raced' => ~ raced /\ ~ Training)
         /\ trim' = [reserved |-> n, merit |-> merit, quiet |-> ~ Training,
                     aligned |-> \A s \in ShardsOf(r) : AlignedAt(s)]
         /\ n \in Nat
  <1>1. /\ UNCHANGED <<tables, call, kept, merit, world, budget>> /\ cuts = << >>
        /\ cuts' = [s \in ShardsOf(r) |-> [pc |-> "export", keys |-> {}, todo |-> Table]]
        /\ raced' = (raced \/ Training)
        /\ trim' = [reserved |-> n, merit |-> merit, quiet |-> ~ Training,
                    aligned |-> \A s \in ShardsOf(r) : AlignedAt(s)]
    BY DEF Restriction, RestrictSame
  <1>2. n \in Nat
    BY DEF TrainTypes, Budget
  <1>3. ~ raced' => ~ raced /\ ~ Training
    BY <1>1
  <1>4. ShardsOf(r) \subseteq Shards(world)
    BY DEF ShardsOf
  <1>5. \A s \in ShardsOf(r) : CutOK(s)'
    BY <1>1 DEF CutOK
  <1>6. TrainTypes'
    BY <1>1, <1>4, <1>5 DEF TrainTypes, TablesOK, CallOK, Active
  <1>7. DOMAIN cuts = {} /\ DOMAIN cuts' = ShardsOf(r)
    BY <1>1
  <1> QED
    BY <1>1, <1>2, <1>3, <1>6, <1>7

LEMMA ExportEffect ==
  ASSUME TrainTypes, NEW s \in DOMAIN cuts, Export(s)
  PROVE  \E ks \in SUBSET DOMAIN tables["status"][s] :
         /\ LET first_dim == Cardinality(DOMAIN tables["status"][s])
            IN  Cardinality(ks) = first_dim - Least(partial_reserved, first_dim)
         /\ \A k \in ks, l \in DOMAIN tables["status"][s] \ ks :
              tables["status"][s][k] <= tables["status"][s][l]
         /\ cuts[s].pc = "export" /\ DOMAIN cuts' = DOMAIN cuts
         /\ \A u \in DOMAIN cuts \ {s} : cuts'[u] = cuts[u]
         /\ cuts'[s] = [cuts[s] EXCEPT !.pc = "remove", !.keys = ks]
         /\ TrainTypes' /\ UNCHANGED <<tables, call, kept, merit, trim, raced>>
  <1> DEFINE dim == Cardinality(DOMAIN tables["status"][s])
             c(ks) == [cuts[s] EXCEPT !.pc = "remove", !.keys = ks]
  <1>1. CutOK(s) /\ s \in Shards(world) /\ "status" \in Table /\ TablesOK
    BY DEF TrainTypes, Table
  <1>2. /\ UNCHANGED <<tables, call, kept, merit, trim, raced, world, budget>>
        /\ cuts[s].pc = "export"
        /\ \E ks \in Lowest(tables["status"][s], dim - Least(partial_reserved, dim)) :
             cuts' = [cuts EXCEPT ![s].pc = "remove", ![s].keys = ks]
    BY DEF Export, RestrictSame
  <1>3. PICK ks \in Lowest(tables["status"][s], dim - Least(partial_reserved, dim)) :
             cuts' = [cuts EXCEPT ![s].pc = "remove", ![s].keys = ks]
    BY <1>2
  <1>4. /\ ks \in SUBSET DOMAIN tables["status"][s]
        /\ Cardinality(ks) = dim - Least(partial_reserved, dim)
        /\ \A k \in ks, l \in DOMAIN tables["status"][s] \ ks :
             tables["status"][s][k] <= tables["status"][s][l]
    BY <1>3 DEF Lowest
  <1>5. cuts' = [cuts EXCEPT ![s] = c(ks)]
    BY <1>3
  <1>6. /\ c(ks).pc = "remove" /\ c(ks).keys = ks /\ c(ks).todo = cuts[s].todo
        /\ DOMAIN c(ks) = {"pc", "keys", "todo"}
    BY <1>1 DEF CutOK
  <1>7. /\ DOMAIN cuts' = DOMAIN cuts /\ cuts'[s] = c(ks)
        /\ \A u \in DOMAIN cuts \ {s} : cuts'[u] = cuts[u]
    BY <1>5
  <1>8. \A k \in ks : k \in Keys /\ Home(world, k) = s
    BY <1>1, <1>4 DEF TablesOK
  <1> HIDE DEF c
  <1>9. CutOK(s)'
    <2>1. cuts[s].todo \subseteq Table
      BY <1>1 DEF CutOK
    <2>2. world' = world
      BY <1>2
    <2>3. \A k \in ks : Home(world', k) = s
      BY <1>8, <2>2
    <2> QED
      BY <1>6, <1>7, <1>8, <2>1, <2>3 DEF CutOK
  <1>10. \A u \in DOMAIN cuts' : CutOK(u)'
    <2>1. world' = world /\ \A r \in DOMAIN cuts : CutOK(r)
      BY <1>2 DEF TrainTypes
    <2>2. ASSUME NEW r \in DOMAIN cuts', r # s PROVE CutOK(r)'
      BY <1>7, <2>1, <2>2 DEF CutOK
    <2> QED
      BY <1>9, <2>2
  <1>11. TrainTypes'
    BY <1>2, <1>7, <1>10 DEF TrainTypes, TablesOK, CallOK, Active
  <1> QED
    BY <1>2, <1>4, <1>7, <1>11 DEF c

LEMMA CutTableEffect ==
  ASSUME TrainTypes, NEW s \in DOMAIN cuts, NEW t \in Table, CutTable(s, t)
  PROVE  /\ TrainTypes' /\ cuts[s].pc = "remove" /\ t \in cuts[s].todo
         /\ \A j \in cuts[s].keys : ~ Has(t, j)'
         /\ \A u \in Table, j \in Keys : u # t \/ j \notin cuts[s].keys => Same(u, j)
         /\ DOMAIN tables'[t][s] = DOMAIN tables[t][s] \ cuts[s].keys
         /\ \A u \in Table, r \in Shards(world) : u # t \/ r # s => tables'[u][r] = tables[u][r]
         /\ \A u \in Trainers :
              /\ call'[u].pc = call[u].pc /\ call'[u].k = call[u].k
              /\ call'[u].exists = call[u].exists
              /\ call'[u].sound => call[u].sound /\ call[u].k \notin cuts[s].keys
              /\ call[u].k \in cuts[s].keys \/ call'[u] = call[u]
         /\ \A r \in DOMAIN cuts \ {s} : r \in DOMAIN cuts' /\ cuts'[r] = cuts[r]
         /\ \/ cuts[s].todo = {t} /\ DOMAIN cuts' = DOMAIN cuts \ {s}
            \/ /\ DOMAIN cuts' = DOMAIN cuts
               /\ cuts'[s] = [cuts[s] EXCEPT !.todo = cuts[s].todo \ {t}]
         /\ \A k \in Keys : kept'[k] = IF t = "var" /\ k \in cuts[s].keys THEN {} ELSE kept[k]
         /\ \A k \in Keys : merit'[k] = IF t = "status" /\ k \in cuts[s].keys THEN 0 ELSE merit[k]
         /\ UNCHANGED <<trim, raced>>
  <1> DEFINE todo == cuts[s].todo \ {t}
             c == [cuts[s] EXCEPT !.todo = todo]
  <1>1. /\ TablesOK /\ CutOK(s) /\ s \in Shards(world) /\ DOMAIN call = Trainers
        /\ DOMAIN kept = Keys /\ DOMAIN merit = Keys
    BY DEF TrainTypes
  <1>2. /\ UNCHANGED <<trim, raced, world, budget>> /\ cuts[s].pc = "remove" /\ t \in cuts[s].todo
        /\ tables' = [tables EXCEPT ![t][s] = Cut(t, s)]
        /\ cuts' = IF todo = {} THEN Restrict(cuts, DOMAIN cuts \ {s})
                   ELSE [cuts EXCEPT ![s].todo = todo]
        /\ kept' = IF t = "var" THEN [k \in Keys |-> IF k \in cuts[s].keys THEN {} ELSE kept[k]]
                   ELSE kept
        /\ merit' = IF t = "status" THEN [k \in Keys |-> IF k \in cuts[s].keys THEN 0 ELSE merit[k]]
                    ELSE merit
        /\ call' = [u \in Trainers |-> IF call[u].k \in cuts[s].keys
                                       THEN [call[u] EXCEPT !.sound = FALSE] ELSE call[u]]
    BY DEF CutTable, RestrictSame
  <1>3. /\ TablesOK'
        /\ \A j \in cuts[s].keys : ~ Has(t, j)'
        /\ \A u \in Table, j \in Keys : u # t \/ j \notin cuts[s].keys => Same(u, j)
        /\ DOMAIN tables'[t][s] = DOMAIN tables[t][s] \ cuts[s].keys
        /\ \A u \in Table, r \in Shards(world) : u # t \/ r # s => tables'[u][r] = tables[u][r]
    BY <1>1, CutEffect
  <1>4. /\ DOMAIN call' = Trainers
        /\ \A u \in Trainers :
              \/ call'[u] = call[u] /\ call[u].k \notin cuts[s].keys
              \/ call'[u] = [call[u] EXCEPT !.sound = FALSE] /\ call[u].k \in cuts[s].keys
    BY <1>2
  <1>5. \A u \in Trainers :
          /\ CallOK(u)' /\ call'[u].pc = call[u].pc /\ call'[u].k = call[u].k
          /\ call'[u].exists = call[u].exists
          /\ call'[u].sound => call[u].sound /\ call[u].k \notin cuts[s].keys
    <2> SUFFICES ASSUME NEW u \in Trainers
                 PROVE  /\ CallOK(u)' /\ call'[u].pc = call[u].pc /\ call'[u].k = call[u].k
                        /\ call'[u].exists = call[u].exists
                        /\ call'[u].sound => call[u].sound /\ call[u].k \notin cuts[s].keys
      OBVIOUS
    <2>1. CallOK(u)
      BY DEF TrainTypes
    <2>2. CASE call'[u] = call[u] /\ call[u].k \notin cuts[s].keys
      BY <2>1, <2>2 DEF CallOK, Active
    <2>3. CASE call'[u] = [call[u] EXCEPT !.sound = FALSE]
      BY <2>1, <2>3 DEF CallOK, Active, Fields, Idle
    <2> QED
      BY <1>4, <2>2, <2>3
  <1>6. /\ \A r \in DOMAIN cuts \ {s} : r \in DOMAIN cuts' /\ cuts'[r] = cuts[r]
        /\ \/ cuts[s].todo = {t} /\ DOMAIN cuts' = DOMAIN cuts \ {s}
           \/ DOMAIN cuts' = DOMAIN cuts /\ cuts'[s] = c
    <2>1. CASE todo = {}
      BY <1>2, <2>1 DEF Restrict
    <2>2. CASE todo # {}
      BY <1>2, <2>2
    <2> QED
      BY <2>1, <2>2
  <1>7. /\ c.pc = "remove" /\ c.keys = cuts[s].keys /\ c.todo = todo
        /\ DOMAIN c = {"pc", "keys", "todo"}
    BY <1>1, <1>2 DEF CutOK
  <1> HIDE DEF c
  <1>8. DOMAIN cuts' \subseteq DOMAIN cuts /\ \A r \in DOMAIN cuts' : CutOK(r)'
    <2>1. world' = world /\ \A r \in DOMAIN cuts : CutOK(r)
      BY <1>2 DEF TrainTypes
    <2>2. ASSUME NEW r \in DOMAIN cuts', r # s PROVE CutOK(r)'
      BY <1>6, <2>1, <2>2 DEF CutOK
    <2>3. ASSUME s \in DOMAIN cuts' PROVE CutOK(s)'
      BY <1>6, <1>7, <2>1, <2>3 DEF CutOK
    <2> QED
      BY <1>6, <2>2, <2>3
  <1>9. /\ DOMAIN kept' = Keys /\ DOMAIN merit' = Keys
        /\ \A k \in Keys : kept'[k] = IF t = "var" /\ k \in cuts[s].keys THEN {} ELSE kept[k]
        /\ \A k \in Keys : merit'[k] = IF t = "status" /\ k \in cuts[s].keys THEN 0 ELSE merit[k]
    BY <1>1, <1>2
  <1>10. TrainTypes'
    BY <1>2, <1>3, <1>4, <1>5, <1>8, <1>9 DEF TrainTypes
  <1> QED
    BY <1>2, <1>3, <1>4, <1>5, <1>6, <1>9, <1>10 DEF c

-----------------------------------------------------------------------------
LEMMA TrainTypesStep ==
  ASSUME TrainTypes, VarNext
  PROVE  TrainTypes' /\ UNCHANGED <<world, budget>>
  <1>1. ASSUME NEW t \in Trainers, NEW k \in budget.keys, Lookup(t, k)
        PROVE  TrainTypes' /\ UNCHANGED <<world, budget>>
    BY <1>1, LookupEffect DEF Lookup, TrainSame
  <1>2. ASSUME NEW t \in Trainers, ReadSlot(t)
        PROVE  TrainTypes' /\ UNCHANGED <<world, budget>>
    BY <1>2, ReadSlotEffect DEF ReadSlot, TrainSame
  <1>3. ASSUME NEW t \in Trainers, UpdateVar(t)
        PROVE  TrainTypes' /\ UNCHANGED <<world, budget>>
    <2>1. PICK k : k = call[t].k
      OBVIOUS
    <2> QED
      BY <1>3, <2>1, UpdateVarEffect DEF UpdateVar, TrainSame
  <1>4. ASSUME NEW t \in Trainers, UpdateSlot(t)
        PROVE  TrainTypes' /\ UNCHANGED <<world, budget>>
    <2>1. PICK k : k = call[t].k
      OBVIOUS
    <2> QED
      BY <1>4, <2>1, UpdateSlotEffect DEF UpdateSlot, TrainSame
  <1>5. ASSUME NEW t \in Trainers, Stamp(t)
        PROVE  TrainTypes' /\ UNCHANGED <<world, budget>>
    BY <1>5, StampEffect DEF Stamp, TrainSame
  <1>6. ASSUME NEW t \in Trainers, UpdateStatus(t)
        PROVE  TrainTypes' /\ UNCHANGED <<world, budget>>
    <2>1. PICK k : k = call[t].k
      OBVIOUS
    <2> QED
      BY <1>6, <2>1, UpdateStatusEffect DEF UpdateStatus, TrainSame
  <1>7. ASSUME NEW r \in Ranks, NEW n \in budget.reserves, NEW g \in budget.reserves,
               Restriction(r, n, g)
        PROVE  TrainTypes' /\ UNCHANGED <<world, budget>>
    BY <1>7, RestrictionEffect DEF Restriction, RestrictSame
  <1>8. ASSUME NEW s \in DOMAIN cuts, Export(s)
        PROVE  TrainTypes' /\ UNCHANGED <<world, budget>>
    BY <1>8, ExportEffect DEF Export, RestrictSame
  <1>9. ASSUME NEW s \in DOMAIN cuts, NEW t \in Table, CutTable(s, t)
        PROVE  TrainTypes' /\ UNCHANGED <<world, budget>>
    BY <1>9, CutTableEffect DEF CutTable, RestrictSame
  <1> QED
    BY <1>1, <1>2, <1>3, <1>4, <1>5, <1>6, <1>7, <1>8, <1>9 DEF VarNext
-----------------------------------------------------------------------------
(* No update is lost: a value holds what it must, and a call that counts on*)
(* its key found it, and the key is there still.                           *)
Value(k) == IF Has("var", k) THEN At("var", k) ELSE {}

UpdatesInv ==
  /\ bp_v2 => \A k \in Keys : kept[k] \subseteq Value(k)
  /\ \A t \in Trainers :
       Active(t) /\ call[t].sound => call[t].exists /\ Has("var", call[t].k)

LEMMA UpdatesFrame ==
  ASSUME TrainTypes, UpdatesInv, bp_v2' = bp_v2, kept' = kept,
         \A k \in Keys : Same("var", k),
         NEW t \in Trainers, \A u \in Trainers \ {t} : call'[u] = call[u],
         Active(t)' /\ call'[t].sound =>
           Active(t) /\ call[t].sound /\ call'[t].exists = call[t].exists /\ call'[t].k = call[t].k
  PROVE  UpdatesInv'
  <1>1. \A k \in Keys : Value(k)' = Value(k)
    BY DEF Value, Same
  <1>2. \A u \in Trainers : Active(u) => call[u].k \in Keys
    BY DEF TrainTypes, CallOK
  <1>3. ASSUME NEW u \in Trainers, Active(u)', call'[u].sound
        PROVE  call'[u].exists /\ Has("var", call[u].k)'
    BY <1>2, <1>3 DEF UpdatesInv, Active, Same
  <1> QED
    BY <1>1, <1>3 DEF UpdatesInv

LEMMA UpdatesStep ==
  ASSUME TrainTypes, UpdatesInv, VarNext
  PROVE  UpdatesInv'
  <1> "var" \in Table /\ "slot" \in Table /\ "status" \in Table
    BY DEF Table
  <1>1. ASSUME NEW t \in Trainers, NEW k \in budget.keys, Lookup(t, k)
        PROVE  UpdatesInv'
    <2>1. UNCHANGED <<bp_v2, kept, tables, world>>
      BY <1>1 DEF Lookup, TrainSame
    <2>2. /\ \A u \in Trainers \ {t} : call'[u] = call[u]
          /\ call'[t].k = k /\ (call'[t].exists <=> Has("var", k))
          /\ (call'[t].sound <=> Has("var", k))
      BY <1>1, LookupEffect
    <2>3. \A j : (Has("var", j)' <=> Has("var", j)) /\ Value(j)' = Value(j)
      BY <2>1 DEF Has, At, Value
    <2> QED
      BY <2>1, <2>2, <2>3 DEF UpdatesInv, Active
  <1>2. ASSUME NEW t \in Trainers, ReadSlot(t)
        PROVE  UpdatesInv'
    <2>1. UNCHANGED <<bp_v2, kept, tables, world>>
      BY <1>2 DEF ReadSlot, TrainSame
    <2>2. /\ \A u \in Trainers \ {t} : call'[u] = call[u]
          /\ call[t].pc = "looked" /\ call'[t].k = call[t].k
          /\ (call'[t].exists <=> IF shadow /\ slot_bp_v2 THEN Has("slot", call[t].k)
                                 ELSE call[t].exists)
          /\ (call'[t].sound <=> call[t].sound /\ Has("slot", call[t].k))
      BY <1>2, ReadSlotEffect
    <2>3. \A j : (Has("var", j)' <=> Has("var", j)) /\ Value(j)' = Value(j)
      BY <2>1 DEF Has, At, Value
    <2>4. call'[t].sound => call'[t].exists /\ Has("var", call[t].k)'
      BY <2>2, <2>3 DEF UpdatesInv, Active
    <2> QED
      BY <2>1, <2>2, <2>3, <2>4 DEF UpdatesInv, Active
  <1>3. ASSUME NEW t \in Trainers, UpdateVar(t)
        PROVE  UpdatesInv'
    <2>0. PICK k : k = call[t].k
      OBVIOUS
    <2>1. /\ bp_v2' = bp_v2 /\ Parted(t, "var") /\ k \in Keys
          /\ kept' = IF call[t].sound THEN [kept EXCEPT ![k] = @ \cup {call[t].id}] ELSE kept
      BY <1>3, <2>0, UpdateVarEffect DEF UpdateVar, TrainSame, Parted
    <2>2. call[t].sound => call[t].exists /\ Has("var", k)
      BY <2>0, <2>1 DEF UpdatesInv, Active, Parted
    <2>3. CASE bp_v2 /\ ~ (call[t].exists <=> Has("var", k)) /\ tables' = tables
      <3>1. world' = world /\ ~ call[t].sound /\ kept' = kept
        BY <1>3, <2>0, <2>1, <2>2, <2>3 DEF UpdateVar, TrainSame
      <3>2. \A j \in Keys : Same("var", j)
        BY <2>3, <3>1 DEF Same, Has, At
      <3> QED
        BY <2>1, <3>1, <3>2, UpdatesFrame DEF Parted, GoesOn, Active
    <2>4. CASE Became("var", k, IF bp_v2 /\ Has("var", k) THEN At("var", k) \cup {call[t].id}
                                ELSE call[t].v0 \cup {call[t].id})
      <3>1. /\ \A j \in Keys : j # k => Same("var", j)
            /\ Has("var", k)'
            /\ bp_v2 /\ Has("var", k) => Value(k)' = Value(k) \cup {call[t].id}
        BY <2>4 DEF Became, Value
      <3>2. ASSUME bp_v2, NEW j \in Keys PROVE kept'[j] \subseteq Value(j)'
        <4>1. kept[j] \subseteq Value(j) /\ DOMAIN kept = Keys
          BY <3>2 DEF UpdatesInv, TrainTypes
        <4>2. CASE j # k
          BY <2>1, <3>1, <4>1, <4>2 DEF Same, Value
        <4>3. CASE j = k /\ Has("var", k)
          <5>1. kept'[j] \subseteq kept[j] \cup {call[t].id}
            BY <2>1, <4>1, <4>3
          <5> QED
            BY <3>1, <3>2, <4>1, <4>3, <5>1
        <4>4. CASE j = k /\ ~ Has("var", k)
          <5>1. kept' = kept /\ kept[j] = {}
            BY <2>1, <2>2, <4>1, <4>4 DEF Value
          <5> QED
            BY <5>1
        <4> QED
          BY <4>2, <4>3, <4>4
      <3>3. ASSUME NEW u \in Trainers, Active(u)', call'[u].sound
            PROVE  call'[u].exists /\ Has("var", call[u].k)'
        <4>1. call'[u].sound = call[u].sound /\ call'[u].k = call[u].k /\ Active(u)
              /\ call'[u].exists = call[u].exists
          <5>1. CASE u = t
            BY <2>1, <3>3, <5>1 DEF Parted, GoesOn, Active
          <5>2. CASE u # t
            BY <2>1, <3>3, <5>2 DEF Parted, Active
          <5> QED
            BY <5>1, <5>2
        <4>2. call[u].k \in Keys /\ call[u].exists /\ Has("var", call[u].k)
          BY <3>3, <4>1 DEF UpdatesInv, TrainTypes, CallOK
        <4> QED
          BY <2>0, <3>1, <4>1, <4>2 DEF Same
      <3> QED
        BY <2>1, <3>2, <3>3 DEF UpdatesInv
    <2> QED
      BY <1>3, <2>0, <2>3, <2>4, UpdateVarEffect
  <1>4. ASSUME NEW t \in Trainers, UpdateSlot(t)
        PROVE  UpdatesInv'
    <2>0. PICK k : k = call[t].k
      OBVIOUS
    <2>1. bp_v2' = bp_v2 /\ kept' = kept /\ Parted(t, "slot") /\ world' = world
      BY <1>4, <2>0, UpdateSlotEffect DEF UpdateSlot, TrainSame
    <2>2. tables' = tables \/ Became("slot", k, 0)
      BY <1>4, <2>0, UpdateSlotEffect
    <2>3. \A j \in Keys : Same("var", j)
      BY <2>1, <2>2 DEF Became, Same, Has, At
    <2> QED
      BY <2>1, <2>3, UpdatesFrame DEF Parted, GoesOn, Active
  <1>5. ASSUME NEW t \in Trainers, Stamp(t)
        PROVE  UpdatesInv'
    <2>1. UNCHANGED <<bp_v2, kept, tables, world>>
      BY <1>5 DEF Stamp, TrainSame
    <2>2. \A j \in Keys : Same("var", j)
      BY <2>1 DEF Same, Has, At
    <2>3. /\ \A u \in Trainers \ {t} : call'[u] = call[u]
          /\ Active(t) /\ call'[t].sound = call[t].sound /\ call'[t].exists = call[t].exists
          /\ call'[t].k = call[t].k
      BY <1>5, StampEffect DEF GoesOn, Active
    <2> QED
      BY <2>1, <2>2, <2>3, UpdatesFrame
  <1>6. ASSUME NEW t \in Trainers, UpdateStatus(t)
        PROVE  UpdatesInv'
    <2>0. PICK k : k = call[t].k
      OBVIOUS
    <2>1. bp_v2' = bp_v2 /\ kept' = kept /\ Parted(t, "status")
          /\ Became("status", k, call[t].stamp)
      BY <1>6, <2>0, UpdateStatusEffect DEF UpdateStatus, TrainSame
    <2>2. \A j \in Keys : Same("var", j)
      BY <2>1 DEF Became
    <2> QED
      BY <2>1, <2>2, UpdatesFrame DEF Parted, GoesOn, Active
  <1>7. ASSUME NEW r \in Ranks, NEW n \in budget.reserves, NEW g \in budget.reserves,
               Restriction(r, n, g)
        PROVE  UpdatesInv'
    BY <1>7 DEF Restriction, RestrictSame, UpdatesInv, Value, Has, At, Active
  <1>8. ASSUME NEW s \in DOMAIN cuts, Export(s)
        PROVE  UpdatesInv'
    BY <1>8 DEF Export, RestrictSame, UpdatesInv, Value, Has, At, Active
  <1>9. ASSUME NEW s \in DOMAIN cuts, NEW t \in Table, CutTable(s, t)
        PROVE  UpdatesInv'
    <2>1. /\ \A j \in Keys : t # "var" \/ j \notin cuts[s].keys => Same("var", j)
          /\ \A u \in Trainers :
              /\ call'[u].pc = call[u].pc /\ call'[u].k = call[u].k
              /\ call'[u].exists = call[u].exists
              /\ call'[u].sound => call[u].sound /\ call[u].k \notin cuts[s].keys
          /\ \A k \in Keys : kept'[k] = IF t = "var" /\ k \in cuts[s].keys THEN {} ELSE kept[k]
      <3>1. \A u \in Table, j \in Keys : u # t \/ j \notin cuts[s].keys => Same(u, j)
        BY <1>9, CutTableEffect
      <3>2. /\ \A u \in Trainers :
              /\ call'[u].pc = call[u].pc /\ call'[u].k = call[u].k
              /\ call'[u].exists = call[u].exists
              /\ call'[u].sound => call[u].sound /\ call[u].k \notin cuts[s].keys
            /\ \A k \in Keys : kept'[k] = IF t = "var" /\ k \in cuts[s].keys THEN {} ELSE kept[k]
        BY <1>9, CutTableEffect
      <3> QED
        BY <3>1, <3>2
    <2>2. bp_v2' = bp_v2
      BY <1>9 DEF CutTable, RestrictSame
    <2>3. ASSUME bp_v2, NEW j \in Keys PROVE kept'[j] \subseteq Value(j)'
      <3>1. CASE t = "var" /\ j \in cuts[s].keys
        BY <2>1, <3>1
      <3>2. CASE ~ (t = "var" /\ j \in cuts[s].keys)
        BY <2>1, <2>3, <3>2 DEF UpdatesInv, Same, Value
      <3> QED
        BY <3>1, <3>2
    <2>4. ASSUME NEW u \in Trainers, Active(u)', call'[u].sound
          PROVE  call'[u].exists /\ Has("var", call[u].k)'
      <3>1. /\ Active(u) /\ call[u].sound /\ call[u].k \notin cuts[s].keys
            /\ call'[u].k = call[u].k /\ call'[u].exists = call[u].exists
        BY <2>1, <2>4 DEF Active
      <3>2. call[u].k \in Keys /\ call[u].exists /\ Has("var", call[u].k)
        BY <2>4, <3>1 DEF UpdatesInv, TrainTypes, CallOK, Active
      <3> QED
        BY <2>1, <3>1, <3>2 DEF Same
    <2> QED
      BY <2>2, <2>3, <2>4 DEF UpdatesInv
  <1> QED
    BY <1>1, <1>2, <1>3, <1>4, <1>5, <1>6, <1>7, <1>8, <1>9 DEF VarNext

-----------------------------------------------------------------------------
(* The types of what is saved: every entry of a file is one of its shard.  *)
FileOK(f) == /\ f.table \in Table /\ f.world \in Worlds /\ f.shard \in Shards(f.world)
             /\ \A k \in DOMAIN f.items : k \in Keys /\ Home(f.world, k) = f.shard

SaveTypes ==
  /\ DOMAIN save = {"pc", "step", "todo"} /\ save.pc \in {"idle", "rank0", "others", "swept"}
  /\ save.todo \subseteq Ranks
  /\ index \subseteq 1 .. budget.saves /\ latest \in 0 .. budget.saves
  /\ counter \in 0 .. budget.saves /\ DOMAIN saved \subseteq 1 .. budget.saves
  /\ (save.pc # "idle" => save.step \in 1 .. budget.saves)
  /\ \A step \in DOMAIN dirs : \A f \in dirs[step] : FileOK(f)

(* Nobody trains or restricts while a save runs.                           *)
SaveAlone == save.pc # "idle" => ~ Training /\ DOMAIN cuts = {}

TypeInv == TrainTypes /\ SaveTypes /\ SaveAlone

LEMMA DirOK ==
  ASSUME SaveTypes, NEW step, NEW f \in Dir(step)
  PROVE  FileOK(f)
  BY DEF SaveTypes, Dir

LEMMA FileOfOK ==
  ASSUME TablesOK, NEW t \in Table, NEW s \in Shards(world)
  PROVE  /\ FileOK(FileOf(t, s)) /\ FileOf(t, s).table = t /\ FileOf(t, s).shard = s
         /\ FileOf(t, s).world = world /\ FileOf(t, s).items = tables[t][s]
  BY DEF TablesOK, FileOK, FileOf

LEMMA FilesAre ==
  ASSUME NEW r \in Ranks, NEW f
  PROVE  f \in Files(r) =>
           \E t \in IF r = 0 THEN Table ELSE {"var", "slot"}, s \in ShardsOf(r) :
             t \in Table /\ f = FileOf(t, s)
  <1>1. \A t \in IF r = 0 THEN Table ELSE {"var", "slot"} : t \in Table
    BY DEF Table
  <1> QED
    BY <1>1 DEF Files

(* The save's steps leave the tables alone.                                *)
LEMMA SameTrainTypes ==
  ASSUME TrainTypes, UNCHANGED <<world, tables, call, cuts, budget, kept, merit>>
  PROVE  TrainTypes' /\ Ranks' = Ranks /\ (Training' <=> Training)
  BY DEF TrainTypes, TablesOK, CallOK, CutOK, Active, Ranks, Training

LEMMA WriteFilesEffect ==
  ASSUME TypeInv, NEW r \in Ranks, WriteFiles(r)
  PROVE  /\ save.pc \in {"rank0", "others"} /\ r \in save.todo
         /\ save' = [save EXCEPT !.todo = save.todo \ {r}]
         /\ UNCHANGED <<varVars, index, latest, counter, saved, restored, torn>>
         /\ Dir(save.step)' = {g \in Dir(save.step) : \A f \in Files(r) : ~ SameName(f, g)}
                              \cup Files(r)
         /\ \A step : step # save.step => Dir(step)' = Dir(step)
         /\ \A step \in DOMAIN dirs' : \A f \in dirs'[step] : FileOK(f)
  <1> DEFINE left == {g \in Dir(save.step) : \A f \in Files(r) : ~ SameName(f, g)}
  <1>1. /\ save.pc \in {"rank0", "others"} /\ r \in save.todo
        /\ save' = [save EXCEPT !.todo = save.todo \ {r}]
        /\ UNCHANGED <<varVars, index, latest, counter, saved, restored, torn>>
        /\ dirs' = With(dirs, save.step, left \cup Files(r))
    BY DEF WriteFiles, SaveSame
  <1>2. save'.step = save.step
    BY <1>1 DEF TypeInv, SaveTypes
  <1>3. \A f \in Files(r) : FileOK(f)
    <2>1. TablesOK
      BY DEF TypeInv, TrainTypes
    <2> QED
      <3> SUFFICES ASSUME NEW f \in Files(r) PROVE FileOK(f)
        OBVIOUS
      <3>1. PICK t \in Table, s \in ShardsOf(r) : f = FileOf(t, s)
        BY FilesAre
      <3>2. s \in Shards(world)
        BY DEF ShardsOf
      <3> QED
        BY <2>1, <3>1, <3>2, FileOfOK
  <1>4. \A f \in left : FileOK(f)
    BY DirOK DEF TypeInv
  <1>5. /\ DOMAIN dirs' = DOMAIN dirs \cup {save.step}
        /\ dirs'[save.step] = left \cup Files(r)
        /\ \A step \in DOMAIN dirs : step # save.step => dirs'[step] = dirs[step]
    <2> DEFINE now_there == left \cup Files(r)
    <2>1. dirs' = With(dirs, save.step, now_there)
      BY <1>1
    <2> HIDE DEF now_there
    <2>2. /\ DOMAIN dirs' = DOMAIN dirs \cup {save.step}
          /\ dirs'[save.step] = now_there
          /\ \A step \in DOMAIN dirs : step # save.step => dirs'[step] = dirs[step]
      BY <2>1 DEF With
    <2> QED
      BY <2>2 DEF now_there
  <1> HIDE DEF left
  <1>6. \A step \in DOMAIN dirs' : \A f \in dirs'[step] : FileOK(f)
    BY <1>3, <1>4, <1>5 DEF TypeInv, SaveTypes
  <1>7. Dir(save.step)' = left \cup Files(r)
    BY <1>2, <1>5 DEF Dir
  <1>8. \A step : step # save.step => Dir(step)' = Dir(step)
    BY <1>5 DEF Dir
  <1> QED
    BY <1>1, <1>6, <1>7, <1>8 DEF left

(* What a shard has once its files are inserted.                           *)
LEMMA LoadedEffect ==
  ASSUME TypeInv, NEW t \in Table, NEW s \in Shards(world), NEW g \in Loaded(t, s)
  PROVE  /\ DOMAIN g = {k \in UNION {DOMAIN f.items : f \in Source(t, s)} : Mine(t, s, k)}
                       \cup DOMAIN tables[t][s]
         /\ \A k \in DOMAIN g : k \in Keys /\ Home(world, k) = s
         /\ \A k \in UNION {DOMAIN f.items : f \in Source(t, s)} :
              Mine(t, s, k) => \E f \in Source(t, s) : k \in DOMAIN f.items /\ g[k] = f.items[k]
  <1> DEFINE found == UNION {DOMAIN f.items : f \in Source(t, s)}
             here  == {k \in found : Mine(t, s, k)}
  <1>1. /\ DOMAIN g = here \cup DOMAIN tables[t][s]
        /\ \A k \in DOMAIN g :
             k \in here => \E f \in Source(t, s) : k \in DOMAIN f.items /\ g[k] = f.items[k]
    BY DEF Loaded
  <1>2. TablesOK /\ SaveTypes
    BY DEF TypeInv, TrainTypes
  <1>3. ASSUME NEW f \in Source(t, s)
        PROVE  FileOK(f) /\ (Directly(t) => f.shard = s /\ f.world = world)
    <2>1. f \in Dir(latest)
      BY <1>3 DEF Source, OwnFile, FilesOf
    <2>2. Directly(t) => f.shard = s /\ f.world = world
      BY <1>3 DEF Source, OwnFile
    <2> QED
      BY <1>2, <2>1, <2>2, DirOK
  <1>4. ASSUME NEW k \in here PROVE k \in Keys /\ Home(world, k) = s
    <2>1. PICK f \in Source(t, s) : k \in DOMAIN f.items
      OBVIOUS
    <2>2. Mine(t, s, k)
      OBVIOUS
    <2> QED
      BY <1>3, <2>1, <2>2 DEF Mine, FileOK
  <1>5. \A k \in DOMAIN g : k \in Keys /\ Home(world, k) = s
    <2>1. \A k \in DOMAIN tables[t][s] : k \in Keys /\ Home(world, k) = s
      BY <1>2 DEF TablesOK
    <2> HIDE DEF here
    <2> QED
      BY <1>1, <1>4, <2>1
  <1> QED
    BY <1>1, <1>5

LEMMA RestoreEffect ==
  ASSUME TypeInv, Restore
  PROVE  /\ DOMAIN tables' = Table
         /\ \A t \in Table : DOMAIN tables'[t] = Shards(world)
         /\ \A t \in Table, s \in Shards(world) :
              tables'[t][s] \in Loaded(t, s) /\ (Directly(t) => OwnFile(t, s) # {})
         /\ ~ Training /\ DOMAIN cuts = {} /\ save.pc = "idle" /\ latest \in index
         /\ UNCHANGED <<world, call, cuts, budget, bp_v2, raced, beside, trim, save, saved, index, dirs>>
         /\ TypeInv'
  <1>1. PICK v \in Loads("var"), m \in Loads("slot"), u \in Loads("status") :
          tables' = [t \in Table |-> CASE t = "var" -> v [] t = "slot" -> m [] t = "status" -> u]
    BY DEF Restore
  <1>2. DOMAIN tables' = Table /\ \A t \in Table : tables'[t] \in Loads(t)
    <2>1. tables'["var"] = v /\ tables'["slot"] = m /\ tables'["status"] = u
      BY <1>1 DEF Table
    <2> QED
      BY <1>1, <2>1 DEF Table
  <1>3. /\ \A t \in Table : DOMAIN tables'[t] = Shards(world)
        /\ \A t \in Table, s \in Shards(world) : tables'[t][s] \in Loaded(t, s)
    BY <1>2 DEF Loads
  <1>4. /\ ~ Training /\ cuts = << >> /\ save.pc = "idle" /\ latest \in index
        /\ UNCHANGED <<world, call, cuts, budget, bp_v2, raced, beside, trim, save, saved, index, dirs, latest>>
        /\ \A t \in Table, s \in Shards(world) : Directly(t) => OwnFile(t, s) # {}
        /\ counter' = latest
        /\ DOMAIN kept' = Keys /\ DOMAIN merit' = Keys
    BY DEF Restore, Quiet
  <1>5. TablesOK'
    <2>1. world \in Worlds /\ world' = world
      BY <1>4 DEF TypeInv, TrainTypes, TablesOK
    <2>2. \A t \in Table, s \in Shards(world) :
            \A k \in DOMAIN tables'[t][s] : k \in Keys /\ Home(world, k) = s
      <3> SUFFICES ASSUME NEW t \in Table, NEW s \in Shards(world)
                   PROVE  \A k \in DOMAIN tables'[t][s] : k \in Keys /\ Home(world, k) = s
        OBVIOUS
      <3>1. PICK g \in Loaded(t, s) : g = tables'[t][s]
        BY <1>3
      <3> QED
        BY <3>1, LoadedEffect
    <2> QED
      BY <1>2, <1>3, <2>1, <2>2 DEF TablesOK
  <1>6. TrainTypes'
    BY <1>4, <1>5 DEF TypeInv, TrainTypes, CallOK, CutOK, Active
  <1>7. SaveTypes' /\ SaveAlone'
    BY <1>4 DEF TypeInv, SaveTypes, SaveAlone, Ranks
  <1> QED
    BY <1>2, <1>3, <1>4, <1>6, <1>7 DEF TypeInv

LEMMA CrashEffect ==
  ASSUME TypeInv, Crash
  PROVE  /\ TypeInv' /\ ~ Training' /\ DOMAIN cuts' = {} /\ save'.pc = "idle" /\ restored' = 0
         /\ \A t \in Table, k \in Keys : ~ Has(t, k)'
         /\ \A k \in Keys : kept'[k] = {} /\ merit'[k] = 0
         /\ UNCHANGED <<bp_v2, raced, beside, trim, dirs, index, latest, saved, torn>>
         /\ budget' # budget
  <1>1. /\ budget.crashes > 0 /\ budget' = [budget EXCEPT !.crashes = @ - 1]
        /\ world' \in budget.worlds /\ tables' = EmptyTables(world')
        /\ call' = [t \in Trainers |-> Idle] /\ cuts' = << >>
        /\ counter' = 0 /\ save' = NoSave /\ restored' = 0
        /\ kept' = [k \in Keys |-> {}] /\ merit' = [k \in Keys |-> 0]
        /\ UNCHANGED <<bp_v2, raced, beside, trim, dirs, index, latest, saved, torn>>
    BY DEF Crash
  <1>2. budget \in Budget /\ budget.worlds \subseteq Worlds /\ budget.crashes \in Nat
        /\ budget.saves \in Nat
    BY VariableAssumption DEF TypeInv, TrainTypes, Budget
  <1>3. budget' \in Budget /\ budget'.saves = budget.saves /\ budget'.crashes # budget.crashes
    <2>1. budget.crashes - 1 \in Nat
      BY <1>1, <1>2
    <2> QED
      BY <1>1, <1>2, <2>1 DEF Budget
  <1>4. /\ DOMAIN tables' = Table
        /\ \A t \in Table : DOMAIN tables'[t] = Shards(world')
        /\ \A t \in Table, s \in Shards(world') : DOMAIN tables'[t][s] = {}
    BY <1>1 DEF EmptyTables
  <1>5. TablesOK'
    BY <1>1, <1>2, <1>4 DEF TablesOK
  <1>6. \A t \in Trainers : CallOK(t)' /\ ~ Active(t)'
    BY <1>1 DEF CallOK, Active, Idle, Fields
  <1>7. DOMAIN cuts' = {}
    BY <1>1
  <1>8. TrainTypes' /\ ~ Training'
    BY <1>1, <1>3, <1>5, <1>6, <1>7 DEF TrainTypes, Training, Active
  <1>9. SaveTypes'
    BY <1>1, <1>2, <1>3 DEF TypeInv, SaveTypes, NoSave
  <1>10. SaveAlone'
    BY <1>1 DEF SaveAlone, NoSave
  <1>11. \A t \in Table, k \in Keys : ~ Has(t, k)'
    <2>1. \A k \in Keys : Home(world', k) \in Shards(world')
      BY <1>5, HomeOf DEF TablesOK
    <2> QED
      BY <1>4, <2>1 DEF Has
  <1> QED
    BY <1>1, <1>3, <1>7, <1>8, <1>9, <1>10, <1>11 DEF TypeInv, NoSave

LEMMA SavingTypes ==
  ASSUME TypeInv, UNCHANGED varVars, SaveTypes',
         save'.pc # "idle" => save.pc # "idle" \/ Quiet
  PROVE  TypeInv'
  <1>1. UNCHANGED <<world, tables, call, cuts, budget, kept, merit>>
    BY DEF varVars
  <1>2. TrainTypes' /\ (Training' <=> Training)
    BY <1>1, SameTrainTypes DEF TypeInv
  <1>3. Quiet => ~ Training /\ DOMAIN cuts = {}
    BY DEF Quiet
  <1> QED
    BY <1>1, <1>2, <1>3 DEF TypeInv, SaveAlone

LEMMA TypeStep ==
  ASSUME TypeInv, [Next]_vars
  PROVE  TypeInv'
  <1> USE DEF SaveSame
  <1>0. TrainTypes /\ SaveTypes /\ SaveAlone
    BY DEF TypeInv
  <1>1. CASE Train
    <2>1. TrainTypes' /\ UNCHANGED <<world, budget>>
      BY <1>0, <1>1, TrainTypesStep DEF Train
    <2>2. SaveTypes' /\ SaveAlone'
      BY <1>0, <1>1, <2>1 DEF Train, SaveTypes, SaveAlone, Ranks
    <2> QED
      BY <2>1, <2>2 DEF TypeInv
  <1>2. CASE SaveStart
    <2>1. /\ Quiet /\ UNCHANGED <<varVars, dirs, index, latest>> /\ counter' = counter + 1
          /\ counter < budget.saves
          /\ save' = [pc |-> "rank0", step |-> counter', todo |-> {0}]
          /\ saved' = Restrict(saved, DOMAIN saved \ {counter'})
      BY <1>2 DEF SaveStart
    <2>2. budget.saves \in Nat /\ counter' \in 1 .. budget.saves /\ UNCHANGED <<world, budget>>
      BY <1>0, <2>1 DEF TrainTypes, SaveTypes, Budget, varVars
    <2>3. 0 \in Ranks /\ Ranks' = Ranks
      BY <1>0, <2>2, VariableAssumption DEF TrainTypes, TablesOK, Ranks
    <2>4. DOMAIN saved' \subseteq DOMAIN saved
      BY <2>1 DEF Restrict
    <2>5. /\ DOMAIN save' = {"pc", "step", "todo"} /\ save'.pc = "rank0"
          /\ save'.step = counter' /\ save'.todo = {0}
      BY <2>1
    <2>6. /\ index' = index /\ latest' = latest /\ dirs' = dirs /\ budget' = budget
      BY <2>1, <2>2
    <2>7. /\ index \subseteq 1 .. budget.saves /\ latest \in 0 .. budget.saves
          /\ DOMAIN saved \subseteq 1 .. budget.saves
          /\ \A step \in DOMAIN dirs : \A f \in dirs[step] : FileOK(f)
      BY <1>0 DEF SaveTypes
    <2>8. SaveTypes'
      BY <2>2, <2>3, <2>4, <2>5, <2>6, <2>7 DEF SaveTypes
    <2> QED
      BY <2>1, <2>8, SavingTypes
  <1>3. CASE RankZeroEnd
    <2>1. /\ save.pc = "rank0" /\ index' = index \cup {save.step}
          /\ latest' = IF early THEN save.step ELSE latest
          /\ save' = [save EXCEPT !.pc = "others", !.todo = Ranks \ {0}]
          /\ UNCHANGED <<varVars, dirs, counter, saved>>
      BY <1>3 DEF RankZeroEnd
    <2>2. UNCHANGED <<world, budget>> /\ Ranks' = Ranks /\ save.step \in 1 .. budget.saves
          /\ budget.saves \in Nat
      BY <1>0, <2>1 DEF TrainTypes, SaveTypes, Budget, varVars, Ranks
    <2>3. SaveTypes'
      BY <1>0, <2>1, <2>2 DEF SaveTypes
    <2> QED
      BY <2>1, <2>3, SavingTypes
  <1>4. CASE Sweep
    <2>1. /\ save.pc # "idle" /\ save' = [save EXCEPT !.pc = "swept"]
          /\ dirs' = Restrict(dirs, DOMAIN dirs \cap index)
          /\ UNCHANGED <<varVars, index, latest, counter, saved>>
      BY <1>4 DEF Sweep, Joined
    <2>2. UNCHANGED <<world, budget>> /\ Ranks' = Ranks
      BY <2>1 DEF varVars, Ranks
    <2>3. DOMAIN dirs' \subseteq DOMAIN dirs /\ \A step \in DOMAIN dirs' : dirs'[step] = dirs[step]
      BY <2>1 DEF Restrict
    <2>4. SaveTypes'
      BY <1>0, <2>1, <2>2, <2>3 DEF SaveTypes
    <2> QED
      BY <2>1, <2>4, SavingTypes
  <1>5. CASE SaveEnd
    <2>1. /\ save.pc = "swept" /\ latest' = save.step /\ save' = NoSave
          /\ DOMAIN saved' = DOMAIN saved \cup {save.step}
          /\ UNCHANGED <<varVars, dirs, index, counter>>
      BY <1>5 DEF SaveEnd, With
    <2>2. UNCHANGED <<world, budget>> /\ Ranks' = Ranks /\ save.step \in 1 .. budget.saves
          /\ budget.saves \in Nat
      BY <1>0, <2>1 DEF TrainTypes, SaveTypes, Budget, varVars, Ranks
    <2>3. SaveTypes'
      BY <1>0, <2>1, <2>2 DEF SaveTypes, NoSave
    <2> QED
      BY <2>1, <2>3, SavingTypes DEF NoSave
  <1>6. CASE Manage
    <2>1. latest \in DOMAIN saved /\ index' = {latest} /\ save' = save
          /\ UNCHANGED <<varVars, dirs, latest, counter, saved>>
      BY <1>6 DEF Manage
    <2>2. UNCHANGED <<world, budget>> /\ Ranks' = Ranks
      BY <2>1 DEF varVars, Ranks
    <2>3. SaveTypes'
      BY <1>0, <2>1, <2>2 DEF SaveTypes
    <2> QED
      BY <2>1, <2>3, SavingTypes
  <1>7. CASE Restore
    BY <1>7, RestoreEffect
  <1>8. CASE Crash
    BY <1>8, CrashEffect
  <1>9. ASSUME NEW r \in Ranks, WriteFiles(r)
        PROVE  TypeInv'
    <2>1. /\ save.pc # "idle" /\ save' = [save EXCEPT !.todo = save.todo \ {r}]
          /\ UNCHANGED <<varVars, index, latest, counter, saved>>
          /\ \A step \in DOMAIN dirs' : \A f \in dirs'[step] : FileOK(f)
      BY <1>9, WriteFilesEffect
    <2>2. UNCHANGED <<world, budget>> /\ Ranks' = Ranks
      BY <2>1 DEF varVars, Ranks
    <2>3. SaveTypes'
      BY <1>0, <2>1, <2>2 DEF SaveTypes
    <2> QED
      BY <2>1, <2>3, SavingTypes
  <1>10. CASE UNCHANGED vars
    <2>1. UNCHANGED <<varVars, dirs, index, latest, counter, save, saved, world, budget>>
      BY <1>10 DEF vars, varVars, ckptVars
    <2>2. SaveTypes'
      BY <1>0, <2>1 DEF SaveTypes, Ranks
    <2> QED
      BY <2>1, <2>2, SavingTypes
  <1> QED
    BY <1>1, <1>2, <1>3, <1>4, <1>5, <1>6, <1>7, <1>8, <1>9, <1>10 DEF Next

LEMMA InitTypes ==
  ASSUME Init
  PROVE  TypeInv /\ ~ Training /\ DOMAIN cuts = {} /\ save.pc = "idle"
  <1>1. /\ budget \in Budget /\ world \in Worlds /\ tables = EmptyTables(world)
        /\ call = [t \in Trainers |-> Idle] /\ cuts = << >>
        /\ kept = [k \in Keys |-> {}] /\ merit = [k \in Keys |-> 0]
    BY VariableAssumption DEF Init, VarInit, Budget
  <1>2. TablesOK
    BY <1>1 DEF TablesOK, EmptyTables
  <1>3. \A t \in Trainers : CallOK(t) /\ ~ Active(t)
    BY <1>1 DEF CallOK, Active, Idle, Fields
  <1>4. TrainTypes /\ ~ Training /\ DOMAIN cuts = {}
    BY <1>1, <1>2, <1>3 DEF TrainTypes, Training, Active
  <1>5. budget.saves \in Nat
    BY <1>1 DEF Budget
  <1>6. SaveTypes /\ SaveAlone /\ save.pc = "idle"
    BY <1>1, <1>5 DEF Init, SaveTypes, SaveAlone, NoSave
  <1> QED
    BY <1>4, <1>6 DEF TypeInv

LEMMA TypeInvariant == Spec => []TypeInv
  <1>1. Init => TypeInv
    BY InitTypes
  <1>2. TypeInv /\ [Next]_vars => TypeInv'
    BY TypeStep
  <1> QED
    BY <1>1, <1>2, PTL DEF Spec

(* Every variable is of its type, and every key, in a table and in a file, *)
(* is in the shard that partition_fn gives it in the world it is of:       *)
(* training, saving and restoring alike put it where it will be looked up. *)
THEOREM KeysInTheirShards == Spec => []TypeOK
  <1>1. TypeInv => TypeOK
    BY DEF TypeInv, TrainTypes, TablesOK, SaveTypes, CallOK, CutOK, Active, FileOK, TypeOK,
           VarTypeOK
  <1> QED
    BY <1>1, TypeInvariant, PTL

-----------------------------------------------------------------------------
(* What a restore puts into the variable is what it must keep from then on.*)
LEMMA UpdatesInvariant == Spec => []UpdatesInv
  <1>1. Init => UpdatesInv
    <2> SUFFICES ASSUME Init PROVE UpdatesInv
      OBVIOUS
    <2>1. kept = [k \in Keys |-> {}] /\ ~ Training
      BY InitTypes DEF Init, VarInit
    <2> QED
      BY <2>1 DEF UpdatesInv, Training, Active
  <1>2. TypeInv /\ UpdatesInv /\ [Next]_vars => UpdatesInv'
    <2> SUFFICES ASSUME TypeInv, UpdatesInv, [Next]_vars PROVE UpdatesInv'
      OBVIOUS
    <2>1. CASE Train
      BY <2>1, UpdatesStep DEF Train, TypeInv
    <2>2. CASE Restore
      <3>1. ~ Training /\ call' = call
        BY <2>2, RestoreEffect
      <3>2. \A t \in Trainers : ~ Active(t)'
        BY <3>1 DEF Training, Active
      <3>3. kept' = [k \in Keys |-> Entry(tables', "var", k)]
        BY <2>2 DEF Restore
      <3>4. \A k \in Keys : kept'[k] = Value(k)'
        <4>1. world' = world
          BY <2>2, RestoreEffect
        <4> QED
          BY <3>3, <4>1 DEF Entry, Value, Has, At, Zero
      <3> QED
        BY <3>2, <3>4 DEF UpdatesInv
    <2>3. CASE Crash
      <3>1. ~ Training' /\ \A k \in Keys : kept'[k] = {}
        BY <2>3, CrashEffect
      <3> QED
        BY <3>1 DEF UpdatesInv, Training, Active
    <2>4. CASE UNCHANGED varVars
      BY <2>4 DEF UpdatesInv, Value, Has, At, Active, varVars
    <2>5. CASE SaveStart \/ RankZeroEnd \/ Sweep \/ SaveEnd \/ Manage \/ \E r \in Ranks : WriteFiles(r)
      BY <2>4, <2>5 DEF SaveStart, RankZeroEnd, Sweep, SaveEnd, Manage, WriteFiles, SaveSame
    <2>6. CASE UNCHANGED vars
      BY <2>4, <2>6 DEF vars
    <2> QED
      BY <2>1, <2>2, <2>3, <2>5, <2>6 DEF Next
  <1> QED
    BY <1>1, <1>2, TypeInvariant, PTL DEF Spec

(* With accumulating updates (bp_v2), whoever trains, restricts, saves or  *)
(* crashes when: a value that is there contains every update that its      *)
(* trainer applied on top of a value and a slot it had found.              *)
THEOREM UpdatesAreKept == Spec => []UpdatesKept
  <1>1. UpdatesInv => UpdatesKept
    BY DEF UpdatesInv, UpdatesKept, Value, At
  <1> QED
    BY <1>1, UpdatesInvariant, PTL
-----------------------------------------------------------------------------
(* Until two trained one key together or one beside a restriction, no two  *)
(* do so.                                                                  *)
AloneInv ==
  ~ raced => /\ \A t, u \in Trainers : t # u /\ Active(t) /\ Active(u) => call[t].k # call[u].k
             /\ Training => DOMAIN cuts = {}

LEMMA AloneFrame ==
  ASSUME AloneInv, raced' = raced, DOMAIN cuts' \subseteq DOMAIN cuts,
         \A u \in Trainers : Active(u)' => Active(u) /\ call'[u].k = call[u].k
  PROVE  AloneInv'
  BY DEF AloneInv, Training, Active

LEMMA AloneStep ==
  ASSUME TrainTypes, AloneInv, VarNext
  PROVE  AloneInv'
  <1>1. ASSUME NEW t \in Trainers, NEW k \in budget.keys, Lookup(t, k)
        PROVE  AloneInv'
    <2>1. /\ \A u \in Trainers \ {t} : call'[u] = call[u]
          /\ call'[t].k = k
      BY <1>1, LookupEffect
    <2>2. /\ cuts' = cuts
          /\ raced' = (raced \/ cuts # << >> \/ \E u \in Trainers : call[u].k = k)
      BY <1>1 DEF Lookup, TrainSame
    <2>3. SUFFICES ASSUME ~ raced'
                   PROVE  /\ \A v, u \in Trainers : v # u /\ Active(v)' /\ Active(u)'
                                                    => call'[v].k # call'[u].k
                          /\ DOMAIN cuts' = {}
      BY DEF AloneInv
    <2>4. ~ raced /\ cuts = << >> /\ \A u \in Trainers : call[u].k # k
      BY <2>2, <2>3
    <2> QED
      BY <2>1, <2>2, <2>4 DEF AloneInv, Active
  <1>2. ASSUME NEW t \in Trainers, ReadSlot(t)
        PROVE  AloneInv'
    <2>1. raced' = raced /\ cuts' = cuts
      BY <1>2 DEF ReadSlot, TrainSame
    <2> QED
      BY <1>2, <2>1, ReadSlotEffect, AloneFrame DEF Active
  <1>3. ASSUME NEW t \in Trainers, NEW label, Parted(t, label), raced' = raced, cuts' = cuts
        PROVE  AloneInv'
    BY <1>3, AloneFrame DEF Parted, GoesOn, Active
  <1>4. ASSUME NEW t \in Trainers, UpdateVar(t)
        PROVE  AloneInv'
    <2>1. PICK k : k = call[t].k
      OBVIOUS
    <2> QED
      BY <1>3, <1>4, <2>1, UpdateVarEffect DEF UpdateVar, TrainSame
  <1>5. ASSUME NEW t \in Trainers, UpdateSlot(t)
        PROVE  AloneInv'
    <2>1. PICK k : k = call[t].k
      OBVIOUS
    <2> QED
      BY <1>3, <1>5, <2>1, UpdateSlotEffect DEF UpdateSlot, TrainSame
  <1>6. ASSUME NEW t \in Trainers, UpdateStatus(t)
        PROVE  AloneInv'
    <2>1. PICK k : k = call[t].k
      OBVIOUS
    <2> QED
      BY <1>3, <1>6, <2>1, UpdateStatusEffect DEF UpdateStatus, TrainSame
  <1>7. ASSUME NEW t \in Trainers, Stamp(t)
        PROVE  AloneInv'
    <2>1. raced' = raced /\ cuts' = cuts
      BY <1>7 DEF Stamp, TrainSame
    <2> QED
      BY <1>7, <2>1, StampEffect, AloneFrame DEF Active, GoesOn
  <1>8. ASSUME NEW r \in Ranks, NEW n \in budget.reserves, NEW g \in budget.reserves,
               Restriction(r, n, g)
        PROVE  AloneInv'
    BY <1>8, RestrictionEffect DEF AloneInv, Training, Active
  <1>9. ASSUME NEW s \in DOMAIN cuts, Export(s)
        PROVE  AloneInv'
    BY <1>9, ExportEffect, AloneFrame DEF Active
  <1>10. ASSUME NEW s \in DOMAIN cuts, NEW t \in Table, CutTable(s, t)
        PROVE  AloneInv'
    BY <1>10, CutTableEffect, AloneFrame DEF Active
  <1> QED
    BY <1>1, <1>2, <1>4, <1>5, <1>6, <1>7, <1>8, <1>9, <1>10 DEF VarNext

LEMMA AloneInvariant == Spec => []AloneInv
  <1>1. Init => AloneInv
    BY InitTypes DEF AloneInv, Training, Active
  <1>2. TypeInv /\ AloneInv /\ [Next]_vars => AloneInv'
    <2> SUFFICES ASSUME TypeInv, AloneInv, [Next]_vars PROVE AloneInv'
      OBVIOUS
    <2>1. CASE Train
      BY <2>1, AloneStep DEF Train, TypeInv
    <2>2. CASE Restore
      BY <2>2, RestoreEffect, AloneFrame DEF Active
    <2>3. CASE Crash
      BY <2>3, CrashEffect DEF AloneInv, Training, Active
    <2>4. CASE UNCHANGED varVars
      BY <2>4, AloneFrame DEF Active, varVars
    <2>5. CASE SaveStart \/ RankZeroEnd \/ Sweep \/ SaveEnd \/ Manage \/ \E r \in Ranks : WriteFiles(r)
      BY <2>4, <2>5 DEF SaveStart, RankZeroEnd, Sweep, SaveEnd, Manage, WriteFiles, SaveSame
    <2>6. CASE UNCHANGED vars
      BY <2>4, <2>6 DEF vars
    <2> QED
      BY <2>1, <2>2, <2>3, <2>5, <2>6 DEF Next
  <1> QED
    BY <1>1, <1>2, TypeInvariant, PTL DEF Spec
-----------------------------------------------------------------------------
(* A save: what a process has written of the variable and of its slots     *)
(* stands in the directory as it is in the tables, whatever an earlier save*)
(* had left there; and what the save overwrites does not count as saved.   *)
Tracked == {"var", "slot"}

Written(r) == IF save.pc = "rank0" THEN r = 0 /\ save.todo = {} ELSE r \notin save.todo

Stands(r) ==
  \A t \in Tracked, s \in ShardsOf(r) :
    /\ FileOf(t, s) \in Dir(save.step)
    /\ \A f \in Dir(save.step) : SameName(f, FileOf(t, s)) => f = FileOf(t, s)

SavingInv ==
  /\ save.pc # "idle" => save.step \notin DOMAIN saved /\ \A r \in Ranks : Written(r) => Stands(r)
  /\ save.pc = "rank0" => save.todo \subseteq {0}
  /\ save.pc \in {"others", "swept"} => save.step \in index
  /\ save.pc = "swept" => save.todo = {}
  /\ latest = 0 \/ latest \in index

LEMMA StandsFrame ==
  ASSUME UNCHANGED varVars, save'.step = save.step, NEW step, step = save.step,
         Dir(step)' = Dir(step), NEW r, Stands(r)
  PROVE  Stands(r)'
  <1>1. UNCHANGED <<world, tables>>
    BY DEF varVars
  <1>2. ShardsOf(r)' = ShardsOf(r) /\ \A t, s : FileOf(t, s)' = FileOf(t, s)
    BY <1>1 DEF ShardsOf, FileOf
  <1>3. Dir(save.step)' = Dir(save.step)
    BY DEF Dir
  <1> QED
    BY <1>2, <1>3 DEF Stands

LEMMA WritingStands ==
  ASSUME TypeInv, SavingInv, NEW r \in Ranks, WriteFiles(r), NEW q \in Ranks, q = r \/ Stands(q)
  PROVE  Stands(q)'
  <1>1. PICK step : step = save.step
    OBVIOUS
  <1>2. /\ UNCHANGED <<world, tables>> /\ save'.step = step
        /\ Dir(step)' = {g \in Dir(step) : \A f \in Files(r) : ~ SameName(f, g)} \cup Files(r)
    <2>1. /\ save' = [save EXCEPT !.todo = save.todo \ {r}] /\ UNCHANGED varVars
          /\ Dir(save.step)' = {g \in Dir(save.step) : \A f \in Files(r) : ~ SameName(f, g)}
                               \cup Files(r)
      BY WriteFilesEffect
    <2>2. save'.step = save.step
      BY <2>1 DEF TypeInv, SaveTypes
    <2> QED
      BY <1>1, <2>1, <2>2 DEF varVars, Dir
  <1>3. ShardsOf(q)' = ShardsOf(q) /\ \A t, s : FileOf(t, s)' = FileOf(t, s)
    BY <1>2 DEF ShardsOf, FileOf
  <1>4. SUFFICES ASSUME NEW t \in Tracked, NEW s \in ShardsOf(q)
                 PROVE  /\ FileOf(t, s) \in Dir(step)'
                        /\ \A f \in Dir(step)' : SameName(f, FileOf(t, s)) => f = FileOf(t, s)
    BY <1>2, <1>3 DEF Stands, Dir
  <1>5. ASSUME NEW f \in Files(r), SameName(f, FileOf(t, s))
        PROVE  f = FileOf(t, s) /\ q = r
    <2>1. PICK u \in Table, v \in ShardsOf(r) : f = FileOf(u, v)
      BY FilesAre
    <2>2. u = t /\ v = s
      BY <1>5, <2>1 DEF SameName, FileOf
    <2> QED
      BY <2>1, <2>2 DEF ShardsOf
  <1>6. CASE q = r
    <2>1. FileOf(t, s) \in Files(r)
      BY <1>6 DEF Files, Tracked, Table
    <2> QED
      BY <1>2, <1>5, <2>1 DEF SameName
  <1>7. CASE q # r /\ Stands(q)
    <2>1. /\ FileOf(t, s) \in Dir(step)
          /\ \A f \in Dir(step) : SameName(f, FileOf(t, s)) => f = FileOf(t, s)
      BY <1>1, <1>7 DEF Stands
    <2> QED
      BY <1>2, <1>5, <1>7, <2>1
  <1> QED
    BY <1>6, <1>7

LEMMA SavingStep ==
  ASSUME TypeInv, SavingInv, [Next]_vars
  PROVE  SavingInv'
  <1>1. CASE Train
    <2>1. save.pc = "idle" /\ UNCHANGED <<save, index, latest>>
      BY <1>1 DEF Train
    <2> QED
      BY <2>1 DEF SavingInv
  <1>2. CASE SaveStart
    <2>1. /\ save' = [pc |-> "rank0", step |-> counter', todo |-> {0}]
          /\ saved' = Restrict(saved, DOMAIN saved \ {counter'})
          /\ UNCHANGED <<index, latest>>
      BY <1>2 DEF SaveStart
    <2>2. save'.pc = "rank0" /\ save'.todo = {0} /\ save'.step = counter'
      BY <2>1
    <2>3. save'.step \notin DOMAIN saved'
      BY <2>1, <2>2 DEF Restrict
    <2> QED
      BY <2>1, <2>2, <2>3 DEF SavingInv, Written
  <1>3. CASE RankZeroEnd
    <2>1. /\ save.pc = "rank0" /\ save.todo = {} /\ index' = index \cup {save.step}
          /\ latest' \in {latest, save.step}
          /\ save' = [save EXCEPT !.pc = "others", !.todo = Ranks \ {0}]
          /\ UNCHANGED <<varVars, dirs, saved>>
      BY <1>3 DEF RankZeroEnd, SaveSame
    <2>2. save'.pc = "others" /\ save'.todo = Ranks \ {0} /\ save'.step = save.step
      BY <2>1 DEF TypeInv, SaveTypes
    <2>3. PICK step : step = save.step /\ Dir(step)' = Dir(step)
      BY <2>1 DEF Dir
    <2>4. ASSUME NEW r \in Ranks', Written(r)' PROVE Stands(r)'
      <3>1. r = 0 /\ r \in Ranks
        BY <2>1, <2>2, <2>4 DEF Written, Ranks, varVars
      <3>2. Stands(r)
        BY <2>1, <3>1 DEF SavingInv, Written
      <3> QED
        BY <2>1, <2>2, <2>3, <3>2, StandsFrame
    <2> QED
      BY <2>1, <2>2, <2>4 DEF SavingInv
  <1>4. CASE Sweep
    <2>1. /\ save.pc = "others" /\ save.todo = {} /\ save' = [save EXCEPT !.pc = "swept"]
          /\ dirs' = Restrict(dirs, DOMAIN dirs \cap index)
          /\ UNCHANGED <<varVars, index, latest, saved>>
      BY <1>4 DEF Sweep, Joined, SaveSame
    <2>2. save'.pc = "swept" /\ save'.todo = {} /\ save'.step = save.step
      BY <2>1 DEF TypeInv, SaveTypes
    <2>3. PICK step : step = save.step /\ step \in index
      BY <2>1 DEF SavingInv
    <2>4. Dir(step)' = Dir(step)
      BY <2>1, <2>3 DEF Dir, Restrict
    <2>5. ASSUME NEW r \in Ranks' PROVE Stands(r)'
      <3>1. r \in Ranks /\ Stands(r)
        BY <2>1 DEF SavingInv, Written, Ranks, varVars
      <3> QED
        BY <2>1, <2>2, <2>3, <2>4, <3>1, StandsFrame
    <2> QED
      BY <2>1, <2>2, <2>5 DEF SavingInv
  <1>5. CASE SaveEnd
    <2>1. save.pc = "swept" /\ latest' = save.step /\ save'.pc = "idle" /\ index' = index
      BY <1>5 DEF SaveEnd, NoSave
    <2> QED
      BY <2>1 DEF SavingInv
  <1>6. CASE Manage
    <2>1. save.pc = "idle" /\ save' = save /\ latest' = latest /\ index' = {latest}
      BY <1>6 DEF Manage, Quiet
    <2> QED
      BY <2>1 DEF SavingInv
  <1>7. CASE Restore
    <2>1. save.pc = "idle" /\ UNCHANGED <<save, index, latest>>
      BY <1>7 DEF Restore, Quiet
    <2> QED
      BY <2>1 DEF SavingInv
  <1>8. CASE Crash
    <2>1. save'.pc = "idle" /\ UNCHANGED <<index, latest>>
      BY <1>8 DEF Crash, NoSave
    <2> QED
      BY <2>1 DEF SavingInv
  <1>9. ASSUME NEW r \in Ranks, WriteFiles(r)
        PROVE  SavingInv'
    <2>1. /\ save.pc \in {"rank0", "others"} /\ r \in save.todo
          /\ save' = [save EXCEPT !.todo = save.todo \ {r}]
          /\ UNCHANGED <<varVars, index, latest, saved>>
      BY <1>9, WriteFilesEffect
    <2>2. save'.pc = save.pc /\ save'.todo = save.todo \ {r} /\ save'.step = save.step
      BY <2>1 DEF TypeInv, SaveTypes
    <2>3. ASSUME NEW q \in Ranks', Written(q)' PROVE Stands(q)'
      <3>1. q \in Ranks
        BY <2>1 DEF Ranks, varVars
      <3>2. q = r \/ Stands(q)
        BY <2>1, <2>2, <2>3, <3>1 DEF SavingInv, Written
      <3> QED
        BY <1>9, <3>1, <3>2, WritingStands
    <2> QED
      BY <2>1, <2>2, <2>3 DEF SavingInv
  <1>10. CASE UNCHANGED vars
    <2>1. UNCHANGED <<varVars, dirs, index, latest, save, saved>>
      BY <1>10 DEF vars, ckptVars
    <2>2. PICK step : step = save.step /\ Dir(step)' = Dir(step)
      BY <2>1 DEF Dir
    <2>3. \A r : Stands(r) => Stands(r)'
      BY <2>1, <2>2, StandsFrame
    <2> QED
      BY <2>1, <2>3 DEF SavingInv, Written, Ranks, varVars
  <1> QED
    BY <1>1, <1>2, <1>3, <1>4, <1>5, <1>6, <1>7, <1>8, <1>9, <1>10 DEF Next
-----------------------------------------------------------------------------
(* A finished save.  The files of a table in the directory of a step are   *)
(* of the world w, one of each of its shards, and have between them exactly*)
(* the entries.                                                            *)
FilesAt(step, t) == {f \in Dir(step) : f.table = t}

Whole(step, t, w, entries) ==
  /\ \A f \in FilesAt(step, t) : f.world = w
  /\ \A s \in Shards(w) : \E f \in FilesAt(step, t) : f.shard = s
  /\ \A f, g \in FilesAt(step, t) : f.shard = g.shard => f = g
  /\ entries = [k \in DOMAIN entries |-> entries[k]]
  /\ \A k : k \in DOMAIN entries <=> \E f \in FilesAt(step, t) : k \in DOMAIN f.items
  /\ \A f \in FilesAt(step, t) : \A k \in DOMAIN f.items : entries[k] = f.items[k]

SavedOK(step) ==
  saved[step].alone => \E w \in Worlds : /\ Whole(step, "var", w, saved[step].var)
                                         /\ Whole(step, "slot", w, saved[step].slot)

SavedInv == \A step \in DOMAIN saved \cap index : SavedOK(step)

LEMMA SavedFrame ==
  ASSUME NEW step, SavedOK(step), saved'[step] = saved[step], Dir(step)' = Dir(step)
  PROVE  SavedOK(step)'
  <1>1. \A t : FilesAt(step, t)' = FilesAt(step, t)
    BY DEF FilesAt
  <1>2. \A t, w, e : Whole(step, t, w, e) => Whole(step, t, w, e)'
    BY <1>1 DEF Whole
  <1> QED
    BY <1>2 DEF SavedOK

(* When the save ends.                                                     *)
LEMMA EntriesAre ==
  ASSUME TablesOK, NEW t \in Table
  PROVE  /\ Entries(t) = [k \in DOMAIN Entries(t) |-> Entries(t)[k]]
         /\ \A k : k \in DOMAIN Entries(t) <=> k \in Keys /\ Has(t, k)
         /\ \A k \in DOMAIN Entries(t) : Entries(t)[k] = At(t, k)
  <1>1. DOMAIN Entries(t) = UNION {DOMAIN tables[t][s] : s \in Shards(world)}
    BY DEF Entries
  <1>2. ASSUME NEW k, k \in DOMAIN Entries(t) PROVE k \in Keys /\ Has(t, k)
    BY <1>1, <1>2 DEF TablesOK, Has
  <1>3. ASSUME NEW k \in Keys, Has(t, k) PROVE k \in DOMAIN Entries(t)
    <2>1. Home(world, k) \in Shards(world)
      BY HomeOf DEF TablesOK
    <2> QED
      BY <1>1, <1>3, <2>1 DEF Has
  <1>4. \A k \in DOMAIN Entries(t) : Entries(t)[k] = At(t, k)
    BY DEF Entries, At
  <1>5. Entries(t) = [k \in DOMAIN Entries(t) |-> Entries(t)[k]]
    BY DEF Entries
  <1> QED
    BY <1>2, <1>3, <1>4, <1>5

LEMMA SavedWhole ==
  ASSUME TypeInv, SavingInv, save.pc = "swept", NEW step, step = save.step, NEW t \in Tracked,
         \A f, g \in dirs[step] : f.world = g.world
  PROVE  Whole(step, t, world, Entries(t))
  <1>1. TablesOK /\ world \in Worlds /\ t \in Table
    BY DEF TypeInv, TrainTypes, TablesOK, Tracked, Table
  <1>2. \A s \in Shards(world) : \E r \in Ranks : s \in ShardsOf(r)
    BY DEF Shards, ShardsOf, Ranks
  <1>3. \A s \in Shards(world) :
          /\ FileOf(t, s) \in FilesAt(step, t)
          /\ \A f \in FilesAt(step, t) : SameName(f, FileOf(t, s)) => f = FileOf(t, s)
    <2>1. \A r \in Ranks : Stands(r)
      BY DEF SavingInv, Written
    <2>2. \A s : FileOf(t, s).table = t
      BY DEF FileOf
    <2> QED
      BY <1>2, <2>1, <2>2 DEF Stands, FilesAt
  <1>4. \E s : s \in Shards(world)
    <2>1. 0 \in 0 .. world.size - 1 /\ 0 \in 0 .. world.devs - 1
      BY <1>1, VariableAssumption
    <2>2. <<0, 0>> \in Shards(world)
      BY <2>1 DEF Shards
    <2> QED
      BY <2>2
  <1>5. \A f \in FilesAt(step, t) : f.world = world /\ f.shard \in Shards(world) /\ f.table = t
    <2>1. PICK s \in Shards(world) : TRUE
      BY <1>4
    <2>2. FileOf(t, s) \in Dir(step) /\ FileOf(t, s).world = world
      BY <1>1, <1>3, FileOfOK DEF FilesAt
    <2>3. Dir(step) = dirs[step]
      BY <2>2 DEF Dir
    <2>4. SUFFICES ASSUME NEW f \in FilesAt(step, t)
                   PROVE  f.world = world /\ f.shard \in Shards(world) /\ f.table = t
      OBVIOUS
    <2>5. f \in Dir(step) /\ f.table = t /\ FileOK(f)
      BY DirOK DEF FilesAt, TypeInv
    <2>6. f.world = world
      BY <2>2, <2>3, <2>5
    <2> QED
      BY <2>5, <2>6 DEF FileOK
  <1>6. \A f \in FilesAt(step, t) : f = FileOf(t, f.shard) /\ f.items = tables[t][f.shard]
    <2> SUFFICES ASSUME NEW f \in FilesAt(step, t)
                 PROVE  f = FileOf(t, f.shard) /\ f.items = tables[t][f.shard]
      OBVIOUS
    <2>1. f.shard \in Shards(world) /\ SameName(f, FileOf(t, f.shard))
      BY <1>1, <1>5, FileOfOK DEF SameName
    <2> QED
      BY <1>1, <1>3, <2>1, FileOfOK
  <1>7. \A s \in Shards(world) : \E f \in FilesAt(step, t) : f.shard = s
    BY <1>1, <1>3, FileOfOK
  <1>8. \A f, g \in FilesAt(step, t) : f.shard = g.shard => f = g
    BY <1>6
  <1>9. \A k : k \in DOMAIN Entries(t) <=> \E f \in FilesAt(step, t) : k \in DOMAIN f.items
    <2>1. \A k : k \in DOMAIN Entries(t) <=> \E s \in Shards(world) : k \in DOMAIN tables[t][s]
      BY DEF Entries
    <2> QED
      BY <1>5, <1>6, <1>7, <2>1
  <1>10. \A f \in FilesAt(step, t) : \A k \in DOMAIN f.items : Entries(t)[k] = f.items[k]
    <2> SUFFICES ASSUME NEW f \in FilesAt(step, t), NEW k \in DOMAIN f.items
                 PROVE  Entries(t)[k] = f.items[k]
      OBVIOUS
    <2>1. k \in DOMAIN Entries(t) /\ f.shard \in Shards(world) /\ f.items = tables[t][f.shard]
      BY <1>5, <1>6, <1>9
    <2>2. Home(world, k) = f.shard
      BY <1>1, <2>1 DEF TablesOK
    <2> QED
      BY <1>1, <2>1, <2>2, EntriesAre DEF At
  <1> QED
    BY <1>1, <1>5, <1>7, <1>8, <1>9, <1>10, EntriesAre DEF Whole

LEMMA SavedStep ==
  ASSUME TypeInv, SavingInv, SavedInv, [Next]_vars
  PROVE  SavedInv'
  <1>1. CASE UNCHANGED <<dirs, saved, index>>
    BY <1>1, SavedFrame DEF SavedInv, Dir
  <1>2. CASE Train \/ Restore \/ Crash \/ UNCHANGED vars
    BY <1>1, <1>2 DEF Train, Restore, Crash, vars, ckptVars
  <1>3. CASE SaveStart
    <2>1. /\ saved' = Restrict(saved, DOMAIN saved \ {counter'}) /\ UNCHANGED <<dirs, index>>
      BY <1>3 DEF SaveStart
    <2>2. DOMAIN saved' \subseteq DOMAIN saved /\ \A step \in DOMAIN saved' : saved'[step] = saved[step]
      BY <2>1 DEF Restrict
    <2>3. \A step : Dir(step)' = Dir(step)
      BY <2>1 DEF Dir
    <2> QED
      BY <2>1, <2>2, <2>3, SavedFrame DEF SavedInv
  <1>4. CASE RankZeroEnd
    <2>1. save.step \notin DOMAIN saved
      BY <1>4 DEF RankZeroEnd, SavingInv
    <2>2. index' = index \cup {save.step} /\ UNCHANGED <<dirs, saved>>
      BY <1>4 DEF RankZeroEnd
    <2>3. \A step : Dir(step)' = Dir(step)
      BY <2>2 DEF Dir
    <2> QED
      BY <2>1, <2>2, <2>3, SavedFrame DEF SavedInv
  <1>5. CASE Sweep
    <2>1. dirs' = Restrict(dirs, DOMAIN dirs \cap index) /\ UNCHANGED <<index, saved>>
      BY <1>5 DEF Sweep
    <2>2. \A step \in index : Dir(step)' = Dir(step)
      BY <2>1 DEF Dir, Restrict
    <2> QED
      BY <2>1, <2>2, SavedFrame DEF SavedInv
  <1>6. CASE SaveEnd
    <2>1. PICK step : step = save.step
      OBVIOUS
    <2> DEFINE entry == [var |-> Entries("var"), slot |-> Entries("slot"),
                         alone |-> \A f, g \in dirs[step] : f.world = g.world]
    <2>2. /\ save.pc = "swept" /\ saved' = With(saved, step, entry) /\ UNCHANGED <<dirs, index>>
          /\ world' = world
      BY <1>6, <2>1 DEF SaveEnd, SaveSame, varVars
    <2>3. \A other : Dir(other)' = Dir(other)
      BY <2>2 DEF Dir
    <2>4. entry.alone => /\ Whole(step, "var", world, entry.var)
                         /\ Whole(step, "slot", world, entry.slot)
      BY <2>1, <2>2, SavedWhole DEF Tracked
    <2> HIDE DEF entry
    <2>5. /\ DOMAIN saved' = DOMAIN saved \cup {step} /\ saved'[step] = entry
          /\ \A other \in DOMAIN saved : other # step => saved'[other] = saved[other]
      BY <2>2 DEF With
    <2>6. SavedOK(step)'
      <3>1. world \in Worlds
        BY DEF TypeInv, TrainTypes, TablesOK
      <3>2. FilesAt(step, "var")' = FilesAt(step, "var") /\ FilesAt(step, "slot")' = FilesAt(step, "slot")
        BY <2>3 DEF FilesAt
      <3>3. \A w, e : (Whole(step, "var", w, e) => Whole(step, "var", w, e)')
                      /\ (Whole(step, "slot", w, e) => Whole(step, "slot", w, e)')
        BY <3>2 DEF Whole
      <3>4. SUFFICES ASSUME entry.alone
                     PROVE  \E w \in Worlds : Whole(step, "var", w, saved[step].var)'
                                              /\ Whole(step, "slot", w, saved[step].slot)'
        BY <2>5 DEF SavedOK
      <3>5. PICK e, m : e = entry.var /\ m = entry.slot
        OBVIOUS
      <3>6. Whole(step, "var", world, e)' /\ Whole(step, "slot", world, m)'
        BY <2>2, <2>4, <3>3, <3>4, <3>5
      <3>7. PICK w \in Worlds : w = world
        BY <3>1
      <3> QED
        BY <2>2, <2>5, <3>5, <3>6, <3>7
    <2> QED
      BY <2>2, <2>3, <2>5, <2>6, SavedFrame DEF SavedInv
  <1>7. CASE Manage
    <2>1. index' = {latest} /\ latest \in DOMAIN saved /\ UNCHANGED <<dirs, saved>>
      BY <1>7 DEF Manage
    <2>2. latest \in index
      BY <2>1 DEF SavingInv, TypeInv, SaveTypes
    <2>3. \A step : Dir(step)' = Dir(step)
      BY <2>1 DEF Dir
    <2> QED
      BY <2>1, <2>2, <2>3, SavedFrame DEF SavedInv
  <1>8. ASSUME NEW r \in Ranks, WriteFiles(r)
        PROVE  SavedInv'
    <2>1. save.step \notin DOMAIN saved /\ UNCHANGED <<index, saved>>
      BY <1>8 DEF WriteFiles, SavingInv
    <2>2. \A step : step # save.step => Dir(step)' = Dir(step)
      BY <1>8, WriteFilesEffect
    <2> QED
      BY <2>1, <2>2, SavedFrame DEF SavedInv
  <1> QED
    BY <1>2, <1>3, <1>4, <1>5, <1>6, <1>7, <1>8 DEF Next

LEMMA SavedInvariant == Spec => [](SavingInv /\ SavedInv)
  <1>1. Init => SavingInv /\ SavedInv
    <2> SUFFICES ASSUME Init PROVE SavingInv /\ SavedInv
      OBVIOUS
    <2>1. save.pc = "idle" /\ latest = 0 /\ saved = << >>
      BY DEF Init, NoSave
    <2>2. DOMAIN saved = {}
      BY <2>1
    <2> QED
      BY <2>1, <2>2 DEF SavingInv, SavedInv
  <1>2. TypeInv /\ SavingInv /\ SavedInv /\ [Next]_vars => SavingInv' /\ SavedInv'
    BY SavingStep, SavedStep
  <1> QED
    BY <1>1, <1>2, TypeInvariant, PTL DEF Spec
-----------------------------------------------------------------------------
(* What is restored into empty tables, from a finished save, is what was   *)
(* saved: in whatever world it is restored.                                *)
LEMMA RestoredTable ==
  ASSUME TypeInv, Restore, NEW t \in Table, NEW w, NEW e, Whole(latest, t, w, e),
         NEW s \in Shards(world), tables = EmptyTables(world)
  PROVE  /\ \A k : k \in DOMAIN tables'[t][s] <=> k \in DOMAIN e /\ Home(world, k) = s
         /\ \A k \in DOMAIN tables'[t][s] : tables'[t][s][k] = e[k]
  <1> DEFINE found == UNION {DOMAIN f.items : f \in Source(t, s)}
  <1>1. PICK g \in Loaded(t, s) : g = tables'[t][s]
    BY RestoreEffect
  <1>2. DOMAIN tables[t][s] = {}
    BY DEF EmptyTables
  <1>3. /\ DOMAIN g = {k \in found : Mine(t, s, k)}
        /\ \A k \in DOMAIN g : k \in Keys /\ Home(world, k) = s
        /\ \A k \in found : Mine(t, s, k) =>
             \E f \in Source(t, s) : k \in DOMAIN f.items /\ g[k] = f.items[k]
    BY <1>2, LoadedEffect
  <1>4. FilesOf(t) = FilesAt(latest, t)
    BY DEF FilesOf, FilesAt
  <1>5. Source(t, s) \subseteq FilesAt(latest, t)
    BY <1>4 DEF Source, OwnFile
  <1>6. \A f \in FilesAt(latest, t) : \A k \in DOMAIN f.items : k \in DOMAIN e /\ e[k] = f.items[k]
    BY DEF Whole
  <1>7. \A k \in DOMAIN g : k \in DOMAIN e /\ Home(world, k) = s /\ g[k] = e[k]
    BY <1>3, <1>5, <1>6
  <1>8. ASSUME NEW k \in DOMAIN e, Home(world, k) = s PROVE k \in DOMAIN g
    <2>1. PICK f \in FilesAt(latest, t) : k \in DOMAIN f.items
      BY DEF Whole
    <2>2. Mine(t, s, k)
      BY <1>8 DEF Mine
    <2>3. f \in Source(t, s)
      <3>1. CASE ~ Directly(t)
        BY <1>4, <3>1 DEF Source
      <3>2. CASE Directly(t)
        <4>1. PICK h \in FilesOf(t) : h.shard = s /\ h.world = world
          BY <3>2, RestoreEffect DEF OwnFile
        <4>2. w = world
          BY <1>4, <4>1 DEF Whole
        <4>3. FileOK(f) /\ f.world = world
          BY <4>2, DirOK DEF Whole, FilesAt, TypeInv
        <4>4. f.shard = s
          BY <1>8, <2>1, <4>3 DEF FileOK
        <4> QED
          BY <1>4, <3>2, <4>3, <4>4 DEF Source, OwnFile
      <3> QED
        BY <3>1, <3>2
    <2> QED
      BY <1>3, <2>1, <2>2, <2>3
  <1> QED
    BY <1>1, <1>7, <1>8

LEMMA RestoredEntries ==
  ASSUME TypeInv, Restore, NEW t \in Table, NEW w, NEW e, Whole(latest, t, w, e),
         tables = EmptyTables(world)
  PROVE  /\ Entries(t)' = e
         /\ \A k \in Keys : Has(t, k)' <=> k \in DOMAIN e
  <1>1. /\ world' = world /\ DOMAIN tables' = Table /\ DOMAIN tables'[t] = Shards(world)
        /\ TablesOK /\ SaveTypes
    BY RestoreEffect DEF TypeInv, TrainTypes
  <1>2. ASSUME NEW k \in DOMAIN e PROVE k \in Keys /\ Home(world, k) \in Shards(world)
    <2>1. PICK f \in FilesAt(latest, t) : k \in DOMAIN f.items
      BY DEF Whole
    <2>2. FileOK(f)
      BY <1>1, DirOK DEF FilesAt
    <2> QED
      BY <1>1, <2>1, <2>2, HomeOf DEF FileOK, TablesOK
  <1>3. \A s \in Shards(world) :
          /\ \A k : k \in DOMAIN tables'[t][s] <=> k \in DOMAIN e /\ Home(world, k) = s
          /\ \A k \in DOMAIN tables'[t][s] : tables'[t][s][k] = e[k]
    BY RestoredTable
  <1>4. UNION {DOMAIN tables'[t][s] : s \in Shards(world)} = DOMAIN e
    <2>1. \A k \in DOMAIN e : k \in DOMAIN tables'[t][Home(world, k)]
      BY <1>2, <1>3
    <2>2. DOMAIN e \subseteq UNION {DOMAIN tables'[t][s] : s \in Shards(world)}
      BY <1>2, <2>1
    <2>3. UNION {DOMAIN tables'[t][s] : s \in Shards(world)} \subseteq DOMAIN e
      BY <1>3
    <2> QED
      BY <2>2, <2>3
  <1>5. Entries(t)' = [k \in DOMAIN e |-> tables'[t][Home(world, k)][k]]
    BY <1>1, <1>4 DEF Entries
  <1>6. \A k \in DOMAIN e : tables'[t][Home(world, k)][k] = e[k]
    BY <1>2, <1>3
  <1>7. e = [k \in DOMAIN e |-> e[k]]
    BY DEF Whole
  <1>8. Entries(t)' = e
    BY <1>5, <1>6, <1>7
  <1>9. ASSUME NEW k \in Keys PROVE Has(t, k)' <=> k \in DOMAIN e
    <2>1. Home(world, k) \in Shards(world)
      BY <1>1, HomeOf DEF TablesOK
    <2> QED
      BY <1>1, <1>3, <2>1 DEF Has
  <1> QED
    BY <1>8, <1>9

LEMMA ExactStep ==
  ASSUME TypeInv, SavingInv, SavedInv, RestoreExact, [Next]_vars
  PROVE  RestoreExact'
  <1>0. \A t \in Table : world' = world /\ tables' = tables => Entries(t)' = Entries(t)
    BY DEF Entries
  <1> "var" \in Table /\ "slot" \in Table
    BY DEF Table
  <1>10. 0 \notin DOMAIN saved
    BY DEF TypeInv, SaveTypes
  <1>1. CASE UNCHANGED <<world, tables, saved, restored>>
    BY <1>0, <1>1 DEF RestoreExact
  <1>2. CASE restored' = 0 /\ saved' = saved
    BY <1>10, <1>2 DEF RestoreExact
  <1>3. CASE Train
    <2>1. world' = world /\ saved' = saved
          /\ restored' = IF tables' = tables THEN restored ELSE 0
      BY <1>3, TrainTypesStep DEF Train, TypeInv
    <2> QED
      BY <1>1, <1>2, <2>1
  <1>4. CASE SaveStart
    <2>1. saved' = Restrict(saved, DOMAIN saved \ {counter'}) /\ UNCHANGED <<world, tables, restored>>
      BY <1>4 DEF SaveStart, SaveSame, varVars
    <2>2. DOMAIN saved' \subseteq DOMAIN saved /\ \A step \in DOMAIN saved' : saved'[step] = saved[step]
      BY <2>1 DEF Restrict
    <2> QED
      BY <1>0, <2>1, <2>2 DEF RestoreExact
  <1>5. CASE SaveEnd
    <2>1. PICK step : step = save.step
      OBVIOUS
    <2> DEFINE entry == [var |-> Entries("var"), slot |-> Entries("slot"),
                         alone |-> \A f, g \in dirs[step] : f.world = g.world]
    <2>2. saved' = With(saved, step, entry) /\ UNCHANGED <<world, tables, restored>>
      BY <1>5, <2>1 DEF SaveEnd, SaveSame, varVars
    <2>3. entry.var = Entries("var") /\ entry.slot = Entries("slot")
      OBVIOUS
    <2> HIDE DEF entry
    <2>4. /\ DOMAIN saved' = DOMAIN saved \cup {step} /\ saved'[step] = entry
          /\ \A other \in DOMAIN saved : other # step => saved'[other] = saved[other]
      BY <2>2 DEF With
    <2> QED
      BY <1>0, <2>2, <2>3, <2>4 DEF RestoreExact
  <1>6. CASE Restore
    <2>1. saved' = saved /\ latest \in index
          /\ restored' = IF tables = EmptyTables(world) THEN latest ELSE 0
      BY <1>6 DEF Restore
    <2>2. CASE tables = EmptyTables(world) /\ latest \in DOMAIN saved /\ saved[latest].alone
      <3>1. PICK w \in Worlds : /\ Whole(latest, "var", w, saved[latest].var)
                                /\ Whole(latest, "slot", w, saved[latest].slot)
        BY <2>1, <2>2 DEF SavedInv, SavedOK
      <3>2. Entries("var")' = saved[latest].var /\ Entries("slot")' = saved[latest].slot
        BY <1>6, <2>2, <3>1, RestoredEntries
      <3> QED
        BY <2>1, <2>2, <3>2 DEF RestoreExact
    <2> QED
      BY <1>10, <2>1, <2>2 DEF RestoreExact
  <1>7. CASE Crash
    BY <1>2, <1>7, CrashEffect
  <1>8. CASE RankZeroEnd \/ Sweep \/ Manage \/ \E r \in Ranks : WriteFiles(r)
    BY <1>1, <1>8 DEF RankZeroEnd, Sweep, Manage, WriteFiles, SaveSame, varVars
  <1>9. CASE UNCHANGED vars
    BY <1>1, <1>9 DEF vars, varVars, ckptVars
  <1> QED
    BY <1>3, <1>4, <1>5, <1>6, <1>7, <1>8, <1>9 DEF Next

(* A save that returned can be restored exactly, whatever crashed in       *)
(* between and however many processes and devices there are then, unless a *)
(* crashed save of the same step left files of another world there.        *)
THEOREM RestoresAreExact == Spec => []RestoreExact
  <1>1. Init => RestoreExact
    <2> SUFFICES ASSUME Init PROVE RestoreExact
      OBVIOUS
    <2>1. saved = << >>
      BY DEF Init
    <2>2. DOMAIN saved = {}
      BY <2>1
    <2> QED
      BY <2>2 DEF RestoreExact
  <1>2. TypeInv /\ SavingInv /\ SavedInv /\ RestoreExact /\ [Next]_vars => RestoreExact'
    BY ExactStep
  <1> QED
    BY <1>1, <1>2, TypeInvariant, SavedInvariant, PTL DEF Spec
-----------------------------------------------------------------------------
(* Values and slots.  A key that has only one of them is in a call that is *)
(* about to put the other: the call found neither, and whoever found one   *)
(* of them may leave the other to it.  What a restriction is removing is in*)
(* no call.  All this of the keys that none trained beside their removal.  *)
Calls(t, k) == Active(t) /\ call[t].k = k

PutsVar(t, k) == /\ call[t].pc = "update" /\ call[t].k = k /\ "var" \in call[t].todo
                 /\ bp_v2 => ~ call[t].exists

PutsSlot(t, k) == call[t].pc = "update" /\ call[t].k = k /\ "slot" \in call[t].todo

Paired(k) ==
  /\ Has("slot", k) /\ ~ Has("var", k) => \E t \in Trainers : PutsVar(t, k)
  /\ Has("var", k) /\ ~ Has("slot", k) => \E t \in Trainers : PutsSlot(t, k)

CallKnows(t, k) ==
  LET c == call[t] IN
  /\ c.exists => Has("var", k) \/ Has("slot", k)
  /\ c.pc = "update" => /\ c.slotExists => Has("slot", k)
                        /\ "var" \notin c.todo => Has("var", k) \/ Has("slot", k)
                        /\ "slot" \notin c.todo => Has("slot", k)

Halfway(k) == \E s \in DOMAIN cuts : k \in cuts[s].keys /\ cuts[s].todo # Table

CutAway(k) == \A s \in DOMAIN cuts : k \in cuts[s].keys =>
                \A u \in Table \ cuts[s].todo : ~ Has(u, k)

KeyOK(k) ==
  /\ Halfway(k) => CutAway(k) /\ \A t \in Trainers : ~ Calls(t, k)
  /\ ~ Halfway(k) => Paired(k) /\ \A t \in Trainers : Calls(t, k) => CallKnows(t, k)

PairedInv == \A k \in Keys \ beside : KeyOK(k)

(* A key that has what it had, in the calls that it was in.                *)
LEMMA KeyFrame ==
  ASSUME NEW k, KeyOK(k), UNCHANGED <<cuts, bp_v2>>, \A u \in Table : Has(u, k)' <=> Has(u, k),
         \A t \in Trainers : Calls(t, k) \/ Calls(t, k)' => call'[t] = call[t]
  PROVE  KeyOK(k)'
  <1> "var" \in Table /\ "slot" \in Table
    BY DEF Table
  <1>1. (Halfway(k)' <=> Halfway(k)) /\ (CutAway(k) => CutAway(k)')
    BY DEF Halfway, CutAway
  <1>2. \A t \in Trainers : Calls(t, k)' <=> Calls(t, k)
    BY DEF Calls, Active
  <1>3. \A t \in Trainers : /\ PutsVar(t, k) => PutsVar(t, k)'
                            /\ PutsSlot(t, k) => PutsSlot(t, k)'
    BY DEF PutsVar, PutsSlot, Calls, Active
  <1>4. Paired(k) => Paired(k)'
    BY <1>3 DEF Paired
  <1>5. \A t \in Trainers : Calls(t, k) /\ CallKnows(t, k) => CallKnows(t, k)'
    BY DEF CallKnows
  <1> QED
    BY <1>1, <1>2, <1>4, <1>5 DEF KeyOK

(* A step of a call disturbs its own key only, and removes nothing of it.  *)
LEMMA CallFrame ==
  ASSUME PairedInv, NEW t \in Trainers, NEW k \in Keys, Calls(t, k),
         UNCHANGED <<cuts, bp_v2, beside>>, \A u \in Trainers \ {t} : call'[u] = call[u],
         call'[t].pc = "idle" \/ call'[t].k = k,
         \A u \in Table, j \in Keys : j # k => Same(u, j),
         Has("var", k) => Has("var", k)', Has("slot", k) => Has("slot", k)',
         Paired(k) /\ CallKnows(t, k) => Paired(k)' /\ (Calls(t, k)' => CallKnows(t, k)')
  PROVE  PairedInv'
  <1> SUFFICES ASSUME NEW j \in Keys \ beside PROVE KeyOK(j)'
    BY DEF PairedInv
  <1>0. KeyOK(j)
    BY DEF PairedInv
  <1>1. CASE j # k
    <2>1. \A u \in Table : Has(u, j)' <=> Has(u, j)
      BY <1>1 DEF Same
    <2>2. \A u \in Trainers : Calls(u, j) \/ Calls(u, j)' => call'[u] = call[u]
      BY <1>1 DEF Calls, Active
    <2> QED
      BY <1>0, <2>1, <2>2, KeyFrame
  <1>2. CASE j = k
    <2>1. ~ Halfway(k) /\ ~ Halfway(k)'
      BY <1>0, <1>2 DEF KeyOK, Halfway
    <2>2. Paired(k) /\ \A u \in Trainers : Calls(u, k) => CallKnows(u, k)
      BY <1>0, <1>2, <2>1 DEF KeyOK
    <2>3. \A u \in Trainers \ {t} : Calls(u, k)' => CallKnows(u, k)'
      <3> SUFFICES ASSUME NEW u \in Trainers \ {t}, Calls(u, k)' PROVE CallKnows(u, k)'
        OBVIOUS
      <3>1. call'[u] = call[u] /\ Calls(u, k)
        BY DEF Calls, Active
      <3>2. CallKnows(u, k)
        BY <2>2, <3>1
      <3> QED
        BY <3>1, <3>2 DEF CallKnows
    <2> QED
      BY <1>2, <2>1, <2>2, <2>3 DEF KeyOK
  <1> QED
    BY <1>1, <1>2

(* A call comes to the end of a part: what it is still to put it puts yet. *)
LEMMA PartPuts ==
  ASSUME NEW t \in Trainers, NEW label, Parted(t, label), NEW k, bp_v2' = bp_v2
  PROVE  \A u \in Trainers :
           /\ PutsVar(u, k) /\ (u # t \/ label # "var") => PutsVar(u, k)'
           /\ PutsSlot(u, k) /\ (u # t \/ label # "slot") => PutsSlot(u, k)'
  <1> SUFFICES ASSUME NEW u \in Trainers
               PROVE  /\ PutsVar(u, k) /\ (u # t \/ label # "var") => PutsVar(u, k)'
                      /\ PutsSlot(u, k) /\ (u # t \/ label # "slot") => PutsSlot(u, k)'
    OBVIOUS
  <1>1. CASE u # t
    BY <1>1 DEF Parted, PutsVar, PutsSlot
  <1>2. CASE u = t
    BY <1>2 DEF Parted, GoesOn, PutsVar, PutsSlot
  <1> QED
    BY <1>1, <1>2

(* A restriction that has yet to remove anything of a key.                 *)
LEMMA CutFrame ==
  ASSUME NEW k, KeyOK(k), UNCHANGED <<tables, world, call, bp_v2>>, ~ Halfway(k), ~ Halfway(k)'
  PROVE  KeyOK(k)'
  <1>1. \A u : Has(u, k)' <=> Has(u, k)
    BY DEF Has
  <1>2. Paired(k)'
    BY <1>1 DEF KeyOK, Paired, PutsVar, PutsSlot
  <1>3. \A t \in Trainers : Calls(t, k)' => CallKnows(t, k)'
    BY <1>1 DEF KeyOK, Calls, Active, CallKnows
  <1> QED
    BY <1>2, <1>3 DEF KeyOK

(* A restriction removes its keys from a table: those that none trains have*)
(* less and less, and in the end nothing.                                  *)
LEMMA CutTablePairs ==
  ASSUME TrainTypes, PairedInv, NEW s \in DOMAIN cuts, NEW t \in Table, CutTable(s, t)
  PROVE  PairedInv'
  <1>1. /\ t \in cuts[s].todo
        /\ \A j \in cuts[s].keys : ~ Has(t, j)'
        /\ \A u \in Table, j \in Keys : u # t \/ j \notin cuts[s].keys => Same(u, j)
    BY CutTableEffect
  <1>2. /\ \A u \in Trainers : call'[u].pc = call[u].pc /\ call'[u].k = call[u].k
        /\ \A u \in Trainers : call[u].k \in cuts[s].keys \/ call'[u] = call[u]
    BY CutTableEffect
  <1>3. /\ \A r \in DOMAIN cuts \ {s} : r \in DOMAIN cuts' /\ cuts'[r] = cuts[r]
        /\ \/ cuts[s].todo = {t} /\ DOMAIN cuts' = DOMAIN cuts \ {s}
           \/ /\ DOMAIN cuts' = DOMAIN cuts
              /\ cuts'[s] = [cuts[s] EXCEPT !.todo = cuts[s].todo \ {t}]
    BY CutTableEffect
  <1>4. /\ beside' = beside \cup (cuts[s].keys \cap {call[u].k : u \in Trainers})
        /\ UNCHANGED <<bp_v2, world>>
    BY DEF CutTable, RestrictSame
  <1>5. \A r \in DOMAIN cuts : CutOK(r)
    BY DEF TrainTypes
  <1>6. ASSUME s \in DOMAIN cuts'
        PROVE  cuts'[s].keys = cuts[s].keys /\ cuts'[s].todo = cuts[s].todo \ {t}
    BY <1>3, <1>5, <1>6 DEF CutOK
  <1> SUFFICES ASSUME NEW j \in Keys \ beside' PROVE KeyOK(j)'
    BY DEF PairedInv
  <1>7. KeyOK(j)
    BY <1>4 DEF PairedInv
  <1>8. CASE j \notin cuts[s].keys
    <2>1. \A u \in Table : Has(u, j)' <=> Has(u, j)
      BY <1>1, <1>8 DEF Same
    <2>2. \A u \in Trainers : Calls(u, j) \/ Calls(u, j)' => call'[u] = call[u]
      BY <1>2, <1>8 DEF Calls
    <2>3. Halfway(j)' <=> Halfway(j)
      <3>1. Halfway(j) => Halfway(j)'
        BY <1>3, <1>8 DEF Halfway
      <3>2. Halfway(j)' => Halfway(j)
        BY <1>3, <1>6, <1>8 DEF Halfway
      <3> QED
        BY <3>1, <3>2
    <2>4. CutAway(j) => CutAway(j)'
      BY <1>3, <1>6, <1>8, <2>1 DEF CutAway
    <2>5. Paired(j) => Paired(j)'
      <3>1. \A u \in Trainers : /\ PutsVar(u, j) => PutsVar(u, j)'
                                /\ PutsSlot(u, j) => PutsSlot(u, j)'
        BY <1>2, <1>4, <1>8 DEF PutsVar, PutsSlot
      <3> QED
        BY <2>1, <3>1 DEF Paired, Table
    <2>6. \A u \in Trainers : Calls(u, j)' => Calls(u, j) /\ (CallKnows(u, j) => CallKnows(u, j)')
      BY <2>1, <2>2 DEF Calls, Active, CallKnows, Table
    <2> QED
      BY <1>2, <1>7, <2>3, <2>4, <2>5, <2>6 DEF KeyOK, Calls, Active
  <1>9. CASE j \in cuts[s].keys
    <2>1. \A u \in Trainers : ~ Calls(u, j)'
      BY <1>2, <1>4, <1>9 DEF Calls
    <2>2. \A u \in Table : u \notin cuts[s].todo \ {t} => ~ Has(u, j)'
      <3> SUFFICES ASSUME NEW u \in Table, u # t, u \notin cuts[s].todo PROVE ~ Has(u, j)'
        BY <1>1, <1>9
      <3>1. Halfway(j)
        BY <1>9 DEF Halfway
      <3>2. ~ Has(u, j)
        BY <1>7, <1>9, <3>1 DEF KeyOK, CutAway
      <3> QED
        BY <1>1, <3>2 DEF Same
    <2>3. \A r \in DOMAIN cuts' : j \in cuts'[r].keys => r = s
      <3>1. \A r \in DOMAIN cuts : j \in cuts[r].keys => r = s
        BY <1>5, <1>9 DEF CutOK
      <3> QED
        BY <1>3, <3>1
    <2>4. CASE s \in DOMAIN cuts'
      <3>1. Halfway(j)'
        BY <1>1, <1>6, <1>9, <2>4 DEF Halfway
      <3>2. CutAway(j)'
        BY <1>6, <2>2, <2>3, <2>4 DEF CutAway
      <3> QED
        BY <2>1, <3>1, <3>2 DEF KeyOK
    <2>5. CASE s \notin DOMAIN cuts'
      <3>1. ~ Halfway(j)'
        BY <2>3, <2>5 DEF Halfway
      <3>2. \A u \in Table : ~ Has(u, j)'
        BY <1>3, <2>2, <2>5
      <3> QED
        BY <2>1, <3>1, <3>2 DEF KeyOK, Paired, Table
    <2> QED
      BY <2>4, <2>5
  <1> QED
    BY <1>8, <1>9

LEMMA PairedStep ==
  ASSUME TrainTypes, PairedInv, VarNext
  PROVE  PairedInv'
  <1> "var" \in Table /\ "slot" \in Table
    BY DEF Table
  <1>1. ASSUME NEW t \in Trainers, NEW k \in budget.keys, Lookup(t, k)
        PROVE  PairedInv'
    <2>1. /\ k \in Keys /\ ~ Active(t) /\ \A u \in Trainers \ {t} : call'[u] = call[u]
          /\ call'[t].pc = "looked" /\ call'[t].k = k /\ (call'[t].exists <=> Has("var", k))
      BY <1>1, LookupEffect
    <2>2. /\ UNCHANGED <<cuts, tables, world, bp_v2>>
          /\ beside' = IF BeingCut(k) THEN beside \cup {k} ELSE beside
      BY <1>1 DEF Lookup, TrainSame
    <2>3. \A u, j : Has(u, j)' <=> Has(u, j)
      BY <2>2 DEF Has
    <2> SUFFICES ASSUME NEW j \in Keys \ beside' PROVE KeyOK(j)'
      BY DEF PairedInv
    <2>4. KeyOK(j)
      BY <2>2 DEF PairedInv
    <2>5. CASE j # k
      <3>1. \A u \in Trainers : Calls(u, j) \/ Calls(u, j)' => call'[u] = call[u]
        BY <2>1, <2>5 DEF Calls
      <3> QED
        BY <2>2, <2>3, <2>4, <3>1, KeyFrame
    <2>6. CASE j = k
      <3>1. ~ Halfway(k) /\ ~ Halfway(k)'
        BY <2>2, <2>6 DEF BeingCut, Halfway
      <3>2. Paired(k) /\ \A u \in Trainers : Calls(u, k) => CallKnows(u, k)
        BY <2>4, <2>6, <3>1 DEF KeyOK
      <3>3. \A u \in Trainers : /\ PutsVar(u, k) => PutsVar(u, k)'
                                /\ PutsSlot(u, k) => PutsSlot(u, k)'
        BY <2>1, <2>2 DEF PutsVar, PutsSlot, Active
      <3>4. Paired(k)'
        BY <2>3, <3>2, <3>3 DEF Paired
      <3>5. CallKnows(t, k)'
        BY <2>1, <2>3 DEF CallKnows
      <3>6. \A u \in Trainers \ {t} : Calls(u, k)' => CallKnows(u, k)'
        BY <2>1, <2>3, <3>2 DEF Calls, Active, CallKnows
      <3> QED
        BY <2>6, <3>1, <3>4, <3>5, <3>6 DEF KeyOK
    <2> QED
      BY <2>5, <2>6
  <1>2. ASSUME NEW t \in Trainers, ReadSlot(t)
        PROVE  PairedInv'
    <2>0. PICK k : k = call[t].k
      OBVIOUS
    <2>1. /\ call[t].pc = "looked" /\ \A u \in Trainers \ {t} : call'[u] = call[u]
          /\ call'[t].pc = "update" /\ call'[t].k = k
          /\ call'[t].todo = {"var", "slot", "stamp"}
          /\ (call'[t].slotExists <=> Has("slot", k))
          /\ call'[t].exists => call[t].exists \/ Has("slot", k)
      BY <1>2, <2>0, ReadSlotEffect
    <2>2. UNCHANGED <<cuts, tables, world, bp_v2, beside>>
      BY <1>2 DEF ReadSlot, TrainSame
    <2>3. k \in Keys /\ Calls(t, k)
      BY <2>0, <2>1 DEF TrainTypes, CallOK, Calls, Active
    <2>4. \A u, j : (Has(u, j)' <=> Has(u, j)) /\ Same(u, j)
      BY <2>2 DEF Has, Same, At
    <2>5. \A u \in Trainers : /\ PutsVar(u, k) => PutsVar(u, k)'
                              /\ PutsSlot(u, k) => PutsSlot(u, k)'
      BY <2>1, <2>2 DEF PutsVar, PutsSlot
    <2>6. Paired(k) => Paired(k)'
      BY <2>4, <2>5 DEF Paired
    <2>7. CallKnows(t, k) => CallKnows(t, k)'
      BY <2>1, <2>4 DEF CallKnows
    <2> QED
      BY <2>1, <2>2, <2>3, <2>4, <2>6, <2>7, CallFrame
  <1>3. ASSUME NEW t \in Trainers, UpdateVar(t)
        PROVE  PairedInv'
    <2>0. PICK k : k = call[t].k
      OBVIOUS
    <2>1. /\ k \in Keys /\ Parted(t, "var") /\ UNCHANGED <<cuts, bp_v2, beside, world>>
          /\ \/ bp_v2 /\ ~ (call[t].exists <=> Has("var", k)) /\ tables' = tables
             \/ \E v : Became("var", k, v)
      BY <1>3, <2>0, UpdateVarEffect DEF UpdateVar, TrainSame
    <2>2. Calls(t, k)
      BY <2>0, <2>1 DEF Parted, Calls, Active
    <2>3. \A u \in Trainers : /\ PutsVar(u, k) /\ u # t => PutsVar(u, k)'
                              /\ PutsSlot(u, k) => PutsSlot(u, k)'
      BY <2>1, PartPuts
    <2>4. /\ \A u \in Table, j \in Keys : u # "var" \/ j # k => Same(u, j)
          /\ Has("var", k) => Has("var", k)'
          /\ \/ bp_v2 /\ ~ (call[t].exists <=> Has("var", k)) /\ (Has("var", k)' <=> Has("var", k))
             \/ Has("var", k)'
      <3>1. CASE bp_v2 /\ ~ (call[t].exists <=> Has("var", k)) /\ tables' = tables
        BY <2>1, <3>1 DEF Has, Same, At
      <3>2. CASE \E v : Became("var", k, v)
        BY <3>2 DEF Became
      <3> QED
        BY <2>1, <3>1, <3>2
    <2>5. (Has("slot", k)' <=> Has("slot", k)) /\ \A u \in Table, j \in Keys : j # k => Same(u, j)
      <3>1. Same("slot", k)
        BY <2>1, <2>4
      <3> QED
        BY <2>4, <3>1 DEF Same
    <2>6. ASSUME Paired(k), CallKnows(t, k) PROVE Paired(k)'
      <3>1. ASSUME Has("slot", k)', ~ Has("var", k)' PROVE \E u \in Trainers : PutsVar(u, k)'
        <4>1. ~ Has("var", k) /\ ~ PutsVar(t, k)
          BY <2>4, <3>1 DEF PutsVar
        <4> QED
          BY <2>3, <2>5, <2>6, <3>1, <4>1 DEF Paired
      <3>2. ASSUME Has("var", k)', ~ Has("slot", k)' PROVE \E u \in Trainers : PutsSlot(u, k)'
        <4>1. PutsSlot(t, k)
          BY <2>0, <2>1, <2>5, <2>6, <3>2 DEF CallKnows, PutsSlot, Parted
        <4> QED
          BY <2>3, <4>1
      <3> QED
        BY <3>1, <3>2 DEF Paired
    <2>7. ASSUME CallKnows(t, k), Calls(t, k)' PROVE CallKnows(t, k)'
      <3>1. /\ call[t].pc = "update" /\ call'[t].exists = call[t].exists
            /\ call'[t].slotExists = call[t].slotExists /\ call'[t].todo = call[t].todo \ {"var"}
        BY <2>1, <2>7 DEF Parted, GoesOn, Calls, Active
      <3>2. Has("var", k)' \/ Has("slot", k)'
        BY <2>4, <2>5, <2>7 DEF CallKnows
      <3> QED
        BY <2>5, <2>7, <3>1, <3>2 DEF CallKnows
    <2>8. /\ \A u \in Trainers \ {t} : call'[u] = call[u]
          /\ call'[t].pc = "idle" \/ call'[t].k = k
      BY <2>0, <2>1 DEF Parted, GoesOn
    <2> QED
      BY <2>1, <2>2, <2>4, <2>5, <2>6, <2>7, <2>8, CallFrame
  <1>4. ASSUME NEW t \in Trainers, UpdateSlot(t)
        PROVE  PairedInv'
    <2>0. PICK k : k = call[t].k
      OBVIOUS
    <2>1. /\ k \in Keys /\ Parted(t, "slot") /\ UNCHANGED <<cuts, bp_v2, beside, world>>
          /\ \/ ~ (call[t].slotExists <=> Has("slot", k)) /\ tables' = tables
             \/ Became("slot", k, 0)
      BY <1>4, <2>0, UpdateSlotEffect DEF UpdateSlot, TrainSame
    <2>2. Calls(t, k)
      BY <2>0, <2>1 DEF Parted, Calls, Active
    <2>3. \A u \in Trainers : PutsVar(u, k) => PutsVar(u, k)'
      BY <2>1, PartPuts
    <2>4. /\ \A u \in Table, j \in Keys : u # "slot" \/ j # k => Same(u, j)
          /\ Has("slot", k) => Has("slot", k)'
          /\ \/ ~ (call[t].slotExists <=> Has("slot", k)) /\ (Has("slot", k)' <=> Has("slot", k))
             \/ Has("slot", k)'
      <3>1. CASE ~ (call[t].slotExists <=> Has("slot", k)) /\ tables' = tables
        BY <2>1, <3>1 DEF Has, Same, At
      <3>2. CASE Became("slot", k, 0)
        BY <3>2 DEF Became
      <3> QED
        BY <2>1, <3>1, <3>2
    <2>5. (Has("var", k)' <=> Has("var", k)) /\ \A u \in Table, j \in Keys : j # k => Same(u, j)
      <3>1. Same("var", k)
        BY <2>1, <2>4
      <3> QED
        BY <2>4, <3>1 DEF Same
    <2>6. ASSUME CallKnows(t, k) PROVE Has("slot", k)'
      BY <2>1, <2>4, <2>6 DEF CallKnows, Parted
    <2>7. ASSUME Paired(k), CallKnows(t, k) PROVE Paired(k)'
      <3>1. ASSUME ~ Has("var", k)' PROVE \E u \in Trainers : PutsVar(u, k)
        <4>1. CASE Has("slot", k)
          BY <2>5, <2>7, <3>1, <4>1 DEF Paired
        <4>2. CASE ~ Has("slot", k)
          <5>1. "var" \in call[t].todo /\ ~ call[t].exists
            BY <2>1, <2>5, <2>7, <3>1, <4>2 DEF CallKnows, Parted
          <5>2. PutsVar(t, k)
            BY <2>0, <2>1, <5>1 DEF PutsVar, Parted
          <5> QED
            BY <5>2
        <4> QED
          BY <4>1, <4>2
      <3> QED
        BY <2>3, <2>6, <2>7, <3>1 DEF Paired
    <2>8. ASSUME CallKnows(t, k), Calls(t, k)' PROVE CallKnows(t, k)'
      <3>1. /\ call[t].pc = "update" /\ call'[t].exists = call[t].exists
            /\ call'[t].slotExists = call[t].slotExists /\ call'[t].todo = call[t].todo \ {"slot"}
        BY <2>1, <2>8 DEF Parted, GoesOn, Calls, Active
      <3> QED
        BY <2>5, <2>6, <2>8, <3>1 DEF CallKnows
    <2>9. /\ \A u \in Trainers \ {t} : call'[u] = call[u]
          /\ call'[t].pc = "idle" \/ call'[t].k = k
      BY <2>0, <2>1 DEF Parted, GoesOn
    <2> QED
      BY <2>1, <2>2, <2>4, <2>5, <2>7, <2>8, <2>9, CallFrame
  <1>5. ASSUME NEW t \in Trainers, UpdateStatus(t)
        PROVE  PairedInv'
    <2>0. PICK k : k = call[t].k
      OBVIOUS
    <2>1. /\ k \in Keys /\ Parted(t, "status") /\ UNCHANGED <<cuts, bp_v2, beside, world>>
          /\ Became("status", k, call[t].stamp)
      BY <1>5, <2>0, UpdateStatusEffect DEF UpdateStatus, TrainSame
    <2>2. Calls(t, k)
      BY <2>0, <2>1 DEF Parted, Calls, Active
    <2>3. \A u \in Trainers : /\ PutsVar(u, k) => PutsVar(u, k)'
                              /\ PutsSlot(u, k) => PutsSlot(u, k)'
      BY <2>1, PartPuts
    <2>4. /\ (Has("var", k)' <=> Has("var", k)) /\ (Has("slot", k)' <=> Has("slot", k))
          /\ \A u \in Table, j \in Keys : j # k => Same(u, j)
      BY <2>1 DEF Became, Same
    <2>5. Paired(k) => Paired(k)'
      BY <2>3, <2>4 DEF Paired
    <2>6. ASSUME CallKnows(t, k), Calls(t, k)' PROVE CallKnows(t, k)'
      <3>1. /\ call[t].pc = "update" /\ call'[t].exists = call[t].exists
            /\ call'[t].slotExists = call[t].slotExists /\ call'[t].todo = call[t].todo \ {"status"}
        BY <2>1, <2>6 DEF Parted, GoesOn, Calls, Active
      <3> QED
        BY <2>4, <2>6, <3>1 DEF CallKnows
    <2>7. /\ \A u \in Trainers \ {t} : call'[u] = call[u]
          /\ call'[t].pc = "idle" \/ call'[t].k = k
      BY <2>0, <2>1 DEF Parted, GoesOn
    <2> QED
      BY <2>1, <2>2, <2>4, <2>5, <2>6, <2>7, CallFrame
  <1>6. ASSUME NEW t \in Trainers, Stamp(t)
        PROVE  PairedInv'
    <2>0. PICK k : k = call[t].k
      OBVIOUS
    <2>1. /\ call[t].pc = "update" /\ k \in Keys /\ \A u \in Trainers \ {t} : call'[u] = call[u]
          /\ GoesOn(t) /\ call'[t].todo = (call[t].todo \ {"stamp"}) \cup {"status"}
      BY <1>6, <2>0, StampEffect
    <2>2. UNCHANGED <<cuts, tables, world, bp_v2, beside>>
      BY <1>6 DEF Stamp, TrainSame
    <2>3. Calls(t, k) /\ call'[t].k = k
      BY <2>0, <2>1 DEF Calls, Active, GoesOn
    <2>4. \A u, j : (Has(u, j)' <=> Has(u, j)) /\ Same(u, j)
      BY <2>2 DEF Has, Same, At
    <2>5. \A u \in Trainers : /\ PutsVar(u, k) => PutsVar(u, k)'
                              /\ PutsSlot(u, k) => PutsSlot(u, k)'
      BY <2>1, <2>2 DEF PutsVar, PutsSlot, GoesOn
    <2>6. Paired(k) => Paired(k)'
      BY <2>4, <2>5 DEF Paired
    <2>7. CallKnows(t, k) => CallKnows(t, k)'
      BY <2>1, <2>4 DEF CallKnows, GoesOn
    <2> QED
      BY <2>1, <2>2, <2>3, <2>4, <2>6, <2>7, CallFrame
  <1>7. ASSUME NEW r \in Ranks, NEW n \in budget.reserves, NEW g \in budget.reserves,
               Restriction(r, n, g)
        PROVE  PairedInv'
    <2>1. /\ DOMAIN cuts = {} /\ DOMAIN cuts' = ShardsOf(r) /\ call' = call
          /\ \A s \in ShardsOf(r) : cuts'[s] = [pc |-> "export", keys |-> {}, todo |-> Table]
      BY <1>7, RestrictionEffect
    <2>2. UNCHANGED <<tables, world, beside, bp_v2>>
      BY <1>7 DEF Restriction, RestrictSame
    <2>3. \A j : ~ Halfway(j) /\ ~ Halfway(j)'
      BY <2>1 DEF Halfway
    <2> QED
      BY <2>1, <2>2, <2>3, CutFrame DEF PairedInv
  <1>8. ASSUME NEW s \in DOMAIN cuts, Export(s)
        PROVE  PairedInv'
    <2>1. PICK ks : /\ cuts[s].pc = "export" /\ DOMAIN cuts' = DOMAIN cuts
                    /\ \A u \in DOMAIN cuts \ {s} : cuts'[u] = cuts[u]
                    /\ cuts'[s] = [cuts[s] EXCEPT !.pc = "remove", !.keys = ks]
                    /\ UNCHANGED <<tables, call>>
      BY <1>8, ExportEffect
    <2>2. UNCHANGED <<world, beside, bp_v2>>
      BY <1>8 DEF Export, RestrictSame
    <2>3. cuts[s].keys = {} /\ cuts[s].todo = Table /\ cuts'[s].todo = Table
      BY <2>1 DEF TrainTypes, CutOK
    <2>4. \A u, j : Has(u, j)' <=> Has(u, j)
      BY <2>1, <2>2 DEF Has
    <2>5. \A j : (Halfway(j)' <=> Halfway(j)) /\ (CutAway(j) => CutAway(j)')
      <3> SUFFICES ASSUME NEW j PROVE (Halfway(j)' <=> Halfway(j)) /\ (CutAway(j) => CutAway(j)')
        OBVIOUS
      <3>1. Halfway(j) => Halfway(j)'
        BY <2>1, <2>3 DEF Halfway
      <3>2. Halfway(j)' => Halfway(j)
        BY <2>1, <2>3 DEF Halfway
      <3>3. CutAway(j) => CutAway(j)'
        BY <2>1, <2>3, <2>4 DEF CutAway
      <3> QED
        BY <3>1, <3>2, <3>3
    <2>6. ASSUME NEW j \in Keys \ beside, Halfway(j) PROVE KeyOK(j)'
      BY <2>1, <2>5, <2>6 DEF PairedInv, KeyOK, Calls, Active
    <2> QED
      BY <2>1, <2>2, <2>5, <2>6, CutFrame DEF PairedInv
  <1>9. ASSUME NEW s \in DOMAIN cuts, NEW t \in Table, CutTable(s, t)
        PROVE  PairedInv'
    BY <1>9, CutTablePairs
  <1> QED
    BY <1>1, <1>2, <1>3, <1>4, <1>5, <1>6, <1>7, <1>8, <1>9 DEF VarNext

LEMMA RacedStays ==
  ASSUME TrainTypes, VarNext, raced
  PROVE  raced'
  <1> USE DEF TrainSame, RestrictSame
  <1>1. \A t \in Trainers, k \in budget.keys : Lookup(t, k) => raced'
    BY DEF Lookup
  <1>2. \A t \in Trainers : ReadSlot(t) \/ UpdateVar(t) \/ UpdateSlot(t) \/ Stamp(t)
                            \/ UpdateStatus(t) => raced'
    BY DEF ReadSlot, UpdateVar, UpdateSlot, Stamp, UpdateStatus
  <1>3. \A r \in Ranks, n, g \in budget.reserves : Restriction(r, n, g) => raced'
    BY DEF Restriction
  <1>4. \A s \in DOMAIN cuts : Export(s) \/ (\E t \in Table : CutTable(s, t)) => raced'
    BY DEF Export, CutTable
  <1> QED
    BY <1>1, <1>2, <1>3, <1>4 DEF VarNext

(* A finished save has a slot for every value, and a value for every slot. *)
SlotInv ==
  ~ torn =>
    /\ PairedInv
    /\ \A step \in DOMAIN saved, k \in Keys \ beside :
         k \in DOMAIN saved[step].var <=> k \in DOMAIN saved[step].slot

LEMMA BesideGrows ==
  ASSUME VarNext
  PROVE  beside \subseteq beside'
  <1> USE DEF TrainSame, RestrictSame
  <1>1. \A t \in Trainers, k \in budget.keys : Lookup(t, k) => beside \subseteq beside'
    BY DEF Lookup
  <1>2. \A t \in Trainers : ReadSlot(t) \/ UpdateVar(t) \/ UpdateSlot(t) \/ Stamp(t)
                            \/ UpdateStatus(t) => beside' = beside
    BY DEF ReadSlot, UpdateVar, UpdateSlot, Stamp, UpdateStatus
  <1>3. \A r \in Ranks, n, g \in budget.reserves : Restriction(r, n, g) => beside' = beside
    BY DEF Restriction
  <1>4. \A s \in DOMAIN cuts : Export(s) \/ (\E t \in Table : CutTable(s, t)) => beside \subseteq beside'
    BY DEF Export, CutTable
  <1> QED
    BY <1>1, <1>2, <1>3, <1>4 DEF VarNext

LEMMA PairedFrame ==
  ASSUME PairedInv, UNCHANGED varVars
  PROVE  PairedInv'
  <1>1. UNCHANGED <<world, tables, call, cuts, beside, bp_v2>>
    BY DEF varVars
  <1>2. \A u, j : Has(u, j)' <=> Has(u, j)
    BY <1>1 DEF Has
  <1> SUFFICES ASSUME NEW j \in Keys \ beside PROVE KeyOK(j)'
    BY <1>1 DEF PairedInv
  <1>3. KeyOK(j)
    BY DEF PairedInv
  <1> QED
    BY <1>1, <1>2, <1>3, KeyFrame

(* Where nobody trains or removes, the two tables have the same keys.      *)
LEMMA PairedAtRest ==
  ASSUME PairedInv, NEW k \in Keys \ beside, ~ BeingCut(k), \A t \in Trainers : ~ Calls(t, k)
  PROVE  Has("var", k) <=> Has("slot", k)
  <1>1. ~ Halfway(k)
    BY DEF BeingCut, Halfway
  <1>2. Paired(k)
    BY <1>1 DEF PairedInv, KeyOK
  <1> QED
    BY <1>2 DEF Paired, PutsVar, PutsSlot, Calls, Active

(* After a restart or a restore, when nothing goes on.                     *)
LEMMA FreshPairs ==
  ASSUME ~ Training', DOMAIN cuts' = {}, beside' = beside,
         \A k \in Keys \ beside : Has("var", k)' <=> Has("slot", k)'
  PROVE  PairedInv'
  BY DEF PairedInv, KeyOK, Halfway, Paired, Calls, Training, Active

LEMMA SlotStep ==
  ASSUME TypeInv, SavingInv, SavedInv, SlotInv, [Next]_vars
  PROVE  SlotInv'
  <1> "var" \in Table /\ "slot" \in Table
    BY DEF Table
  <1>1. CASE Train
    <2>1. UNCHANGED <<torn, saved>> /\ VarNext
      BY <1>1 DEF Train
    <2>2. beside \subseteq beside'
      BY <2>1, BesideGrows
    <2> QED
      BY <2>1, <2>2, PairedStep DEF SlotInv, TypeInv
  <1>2. CASE UNCHANGED <<varVars, torn, saved>>
    BY <1>2, PairedFrame DEF SlotInv, varVars
  <1>3. CASE SaveStart
    <2>1. saved' = Restrict(saved, DOMAIN saved \ {counter'}) /\ UNCHANGED <<varVars, torn>>
      BY <1>3 DEF SaveStart, SaveSame
    <2>2. DOMAIN saved' \subseteq DOMAIN saved /\ \A step \in DOMAIN saved' : saved'[step] = saved[step]
      BY <2>1 DEF Restrict
    <2>3. beside' = beside
      BY <2>1 DEF varVars
    <2> QED
      BY <2>1, <2>2, <2>3, PairedFrame DEF SlotInv
  <1>4. CASE SaveEnd
    <2>1. PICK step : step = save.step
      OBVIOUS
    <2> DEFINE entry == [var |-> Entries("var"), slot |-> Entries("slot"),
                         alone |-> \A f, g \in dirs[step] : f.world = g.world]
    <2>2. /\ save.pc = "swept" /\ saved' = With(saved, step, entry) /\ UNCHANGED <<varVars, torn>>
      BY <1>4, <2>1 DEF SaveEnd, SaveSame
    <2>3. entry.var = Entries("var") /\ entry.slot = Entries("slot")
      OBVIOUS
    <2> HIDE DEF entry
    <2>4. /\ DOMAIN saved' = DOMAIN saved \cup {step} /\ saved'[step] = entry
          /\ \A other \in DOMAIN saved : other # step => saved'[other] = saved[other]
      BY <2>2 DEF With
    <2>5. ASSUME ~ torn, NEW k \in Keys \ beside
          PROVE  k \in DOMAIN Entries("var") <=> k \in DOMAIN Entries("slot")
      <3>1. ~ Training /\ DOMAIN cuts = {}
        BY <2>2 DEF TypeInv, SaveAlone
      <3>2. Has("var", k) <=> Has("slot", k)
        BY <2>5, <3>1, PairedAtRest DEF SlotInv, Training, Calls, Active, BeingCut
      <3>3. TablesOK
        BY DEF TypeInv, TrainTypes
      <3> QED
        BY <3>2, <3>3, EntriesAre
    <2>6. beside' = beside
      BY <2>2 DEF varVars
    <2> QED
      BY <2>2, <2>3, <2>4, <2>5, <2>6, PairedFrame DEF SlotInv
  <1>5. CASE Restore
    <2>1. /\ UNCHANGED <<saved, beside>> /\ latest \in index /\ ~ Training' /\ DOMAIN cuts' = {}
          /\ torn' = (torn \/ tables # EmptyTables(world) \/ latest \notin DOMAIN saved
                           \/ ~ saved[latest].alone)
      <3>1. /\ ~ Training /\ call' = call /\ cuts' = cuts /\ DOMAIN cuts = {}
        BY <1>5, RestoreEffect
      <3> QED
        BY <1>5, <3>1 DEF Restore, Training
    <2>2. SUFFICES ASSUME ~ torn' PROVE PairedInv'
      BY <2>1 DEF SlotInv
    <2>3. /\ ~ torn /\ tables = EmptyTables(world) /\ latest \in DOMAIN saved
          /\ saved[latest].alone
      BY <2>1, <2>2
    <2>4. PICK w \in Worlds : /\ Whole(latest, "var", w, saved[latest].var)
                              /\ Whole(latest, "slot", w, saved[latest].slot)
      BY <2>1, <2>3 DEF SavedInv, SavedOK
    <2>5. \A k \in Keys : /\ Has("var", k)' <=> k \in DOMAIN saved[latest].var
                          /\ Has("slot", k)' <=> k \in DOMAIN saved[latest].slot
      BY <1>5, <2>3, <2>4, RestoredEntries
    <2>6. \A k \in Keys \ beside : Has("var", k)' <=> Has("slot", k)'
      BY <2>3, <2>5 DEF SlotInv
    <2> QED
      BY <2>1, <2>6, FreshPairs
  <1>6. CASE Crash
    <2>1. /\ ~ Training' /\ DOMAIN cuts' = {} /\ UNCHANGED <<beside, saved, torn>>
          /\ \A t \in Table, k \in Keys : ~ Has(t, k)'
      BY <1>6, CrashEffect
    <2>2. PairedInv'
      BY <2>1, FreshPairs
    <2> QED
      BY <2>1, <2>2 DEF SlotInv
  <1>7. CASE RankZeroEnd \/ Sweep \/ Manage \/ \E r \in Ranks : WriteFiles(r)
    BY <1>2, <1>7 DEF RankZeroEnd, Sweep, Manage, WriteFiles, SaveSame
  <1>8. CASE UNCHANGED vars
    BY <1>2, <1>8 DEF vars, ckptVars
  <1> QED
    BY <1>1, <1>3, <1>4, <1>5, <1>6, <1>7, <1>8 DEF Next

(* Unless an unfinished save was restored: a key that nobody trains or     *)
(* removes, and that none trained while it was being removed, has a value  *)
(* exactly if it has a slot; however many trained it together, with        *)
(* whatever settings, and after every restart and restore too.             *)
THEOREM SlotsFollowValues == Spec => []SlotsFollow
  <1>1. Init => SlotInv
    <2> SUFFICES ASSUME Init PROVE SlotInv
      OBVIOUS
    <2>1. /\ ~ Training /\ DOMAIN cuts = {} /\ TypeInv
          /\ tables = EmptyTables(world) /\ saved = << >>
      BY InitTypes DEF Init, VarInit
    <2>2. \A t \in Table, k \in Keys : ~ Has(t, k)
      <3>1. \A k \in Keys : Home(world, k) \in Shards(world)
        BY <2>1, HomeOf DEF TypeInv, TrainTypes, TablesOK
      <3> QED
        BY <2>1, <3>1 DEF Has, EmptyTables
    <2>3. PairedInv
      BY <2>1, <2>2 DEF PairedInv, KeyOK, Halfway, Paired, Calls, Training, Active, Table
    <2>4. DOMAIN saved = {}
      BY <2>1
    <2> QED
      BY <2>3, <2>4 DEF SlotInv
  <1>2. TypeInv /\ SavingInv /\ SavedInv /\ SlotInv /\ [Next]_vars => SlotInv'
    BY SlotStep
  <1>3. SlotInv => SlotsFollow
    BY PairedAtRest DEF SlotInv, SlotsFollow, Calls
  <1> QED
    BY <1>1, <1>2, <1>3, TypeInvariant, SavedInvariant, PTL DEF Spec


-----------------------------------------------------------------------------
(* The merit of a key is its status, or what is about to be written there. *)
Stamping(t, k) == call[t].pc = "update" /\ "status" \in call[t].todo /\ call[t].k = k

StatusOf(k) == IF Has("status", k) THEN At("status", k) ELSE 0

MeritInv ==
  ~ raced => \A k \in Keys :
    /\ \A t \in Trainers : Stamping(t, k) => call[t].stamp = merit[k]
    /\ (\E t \in Trainers : Stamping(t, k)) \/ merit[k] = StatusOf(k)

LEMMA MeritFrame ==
  ASSUME MeritInv, ~ raced' => ~ raced, \A k \in Keys : merit'[k] = merit[k],
         \A k \in Keys : Same("status", k),
         \A t \in Trainers, k \in Keys : Stamping(t, k)' <=> Stamping(t, k),
         \A t \in Trainers, k \in Keys : Stamping(t, k) => call'[t].stamp = call[t].stamp
  PROVE  MeritInv'
  <1>1. \A k \in Keys : StatusOf(k)' = StatusOf(k)
    BY DEF StatusOf, Same
  <1>2. ASSUME ~ raced', NEW k \in Keys, NEW t \in Trainers, Stamping(t, k)'
        PROVE  call'[t].stamp = merit'[k]
    BY <1>2 DEF MeritInv
  <1>3. ASSUME ~ raced', NEW k \in Keys, ~ \E t \in Trainers : Stamping(t, k)'
        PROVE  merit'[k] = StatusOf(k)'
    BY <1>1, <1>3 DEF MeritInv
  <1> QED
    BY <1>2, <1>3 DEF MeritInv

LEMMA MeritStep ==
  ASSUME TrainTypes, AloneInv, MeritInv, VarNext
  PROVE  MeritInv'
  <1> "var" \in Table /\ "slot" \in Table /\ "status" \in Table
    BY DEF Table
  <1>0. ~ raced' => ~ raced
    BY RacedStays
  <1>1. ASSUME NEW t \in Trainers, NEW k \in budget.keys, Lookup(t, k)
        PROVE  MeritInv'
    <2>1. /\ ~ Active(t) /\ \A u \in Trainers \ {t} : call'[u] = call[u]
          /\ call'[t].pc = "looked"
      BY <1>1, LookupEffect
    <2>2. UNCHANGED <<world, tables, merit>>
      BY <1>1 DEF Lookup, TrainSame
    <2>3. \A j \in Keys : Same("status", j)
      BY <2>2 DEF Same, Has, At
    <2>4. \A u \in Trainers, j \in Keys : (Stamping(u, j)' <=> Stamping(u, j))
                                 /\ (Stamping(u, j) => call'[u].stamp = call[u].stamp)
      BY <2>1 DEF Stamping, Active
    <2> QED
      BY <1>0, <2>2, <2>3, <2>4, MeritFrame
  <1>2. ASSUME NEW t \in Trainers, ReadSlot(t)
        PROVE  MeritInv'
    <2>1. /\ call[t].pc = "looked" /\ \A u \in Trainers \ {t} : call'[u] = call[u]
          /\ "status" \notin call'[t].todo
      BY <1>2, ReadSlotEffect
    <2>2. UNCHANGED <<world, tables, merit>>
      BY <1>2 DEF ReadSlot, TrainSame
    <2>3. \A j \in Keys : Same("status", j)
      BY <2>2 DEF Same, Has, At
    <2>4. \A u \in Trainers, j \in Keys : (Stamping(u, j)' <=> Stamping(u, j))
                                 /\ (Stamping(u, j) => call'[u].stamp = call[u].stamp)
      BY <2>1 DEF Stamping
    <2> QED
      BY <1>0, <2>2, <2>3, <2>4, MeritFrame
  <1>3. ASSUME NEW t \in Trainers, NEW label \in {"var", "slot"}, Parted(t, label),
               \A j \in Keys : Same("status", j), merit' = merit
        PROVE  MeritInv'
    <2>1. \A u \in Trainers, j \in Keys : (Stamping(u, j)' <=> Stamping(u, j))
                                 /\ (Stamping(u, j) => call'[u].stamp = call[u].stamp)
      BY <1>3 DEF Stamping, Parted, GoesOn
    <2> QED
      BY <1>0, <1>3, <2>1, MeritFrame
  <1>4. ASSUME NEW t \in Trainers, UpdateVar(t)
        PROVE  MeritInv'
    <2>1. PICK k : k = call[t].k
      OBVIOUS
    <2>2. /\ Parted(t, "var") /\ UNCHANGED <<world, merit>>
          /\ tables' = tables \/ \E v : Became("var", k, v)
      BY <1>4, <2>1, UpdateVarEffect DEF UpdateVar, TrainSame
    <2>3. \A j \in Keys : Same("status", j)
      BY <2>2 DEF Became, Same, Has, At
    <2> QED
      BY <1>3, <2>2, <2>3
  <1>5. ASSUME NEW t \in Trainers, UpdateSlot(t)
        PROVE  MeritInv'
    <2>1. PICK k : k = call[t].k
      OBVIOUS
    <2>2. /\ Parted(t, "slot") /\ UNCHANGED <<world, merit>>
          /\ tables' = tables \/ Became("slot", k, 0)
      BY <1>5, <2>1, UpdateSlotEffect DEF UpdateSlot, TrainSame
    <2>3. \A j \in Keys : Same("status", j)
      BY <2>2 DEF Became, Same, Has, At
    <2> QED
      BY <1>3, <2>2, <2>3
  <1>6. ASSUME NEW t \in Trainers, UpdateStatus(t)
        PROVE  MeritInv'
    <2>0. PICK k : k = call[t].k
      OBVIOUS
    <2>1. /\ k \in Keys /\ Parted(t, "status") /\ Became("status", k, call[t].stamp)
          /\ merit' = merit
      BY <1>6, <2>0, UpdateStatusEffect DEF UpdateStatus
    <2>2. SUFFICES ASSUME ~ raced, NEW j \in Keys
                   PROVE  /\ \A u \in Trainers : Stamping(u, j)' => call'[u].stamp = merit[j]
                          /\ (\E u \in Trainers : Stamping(u, j)') \/ merit[j] = StatusOf(j)'
      BY <1>0, <2>1 DEF MeritInv
    <2>3. /\ \A u \in Trainers : Stamping(u, j) => call[u].stamp = merit[j]
          /\ (\E u \in Trainers : Stamping(u, j)) \/ merit[j] = StatusOf(j)
      BY <2>2 DEF MeritInv
    <2>4. ~ Stamping(t, j)' /\ \A u \in Trainers \ {t} : call'[u] = call[u]
      BY <2>1 DEF Parted, Stamping
    <2>5. \A u \in Trainers \ {t} : Stamping(u, j)' <=> Stamping(u, j)
      BY <2>4 DEF Stamping
    <2>6. CASE j = k
      <3>1. Stamping(t, k) /\ StatusOf(k)' = call[t].stamp
        BY <2>0, <2>1 DEF Parted, Stamping, Became, StatusOf
      <3> QED
        BY <2>3, <2>4, <2>5, <2>6, <3>1
    <2>7. CASE j # k
      <3>1. ~ Stamping(t, j) /\ StatusOf(j)' = StatusOf(j)
        BY <2>0, <2>1, <2>7 DEF Stamping, Became, StatusOf, Same
      <3> QED
        BY <2>3, <2>4, <2>5, <3>1
    <2> QED
      BY <2>6, <2>7
  <1>7. ASSUME NEW t \in Trainers, Stamp(t)
        PROVE  MeritInv'
    <2>0. PICK k : k = call[t].k
      OBVIOUS
    <2>1. /\ call[t].pc = "update" /\ k \in Keys /\ "status" \notin call[t].todo
          /\ \A u \in Trainers \ {t} : call'[u] = call[u]
          /\ GoesOn(t) /\ call'[t].todo = (call[t].todo \ {"stamp"}) \cup {"status"}
          /\ \A j \in Keys : j # k => merit'[j] = merit[j]
          /\ \/ merit'[k] = call'[t].stamp
             \/ /\ merit'[k] = merit[k] + 1
                /\ call'[t].stamp = IF Has("status", k) THEN At("status", k) + 1 ELSE 1
      BY <1>7, <2>0, StampEffect
    <2>2. UNCHANGED <<world, tables>>
      BY <1>7 DEF Stamp, TrainSame
    <2>3. SUFFICES ASSUME ~ raced, NEW j \in Keys
                   PROVE  /\ \A u \in Trainers : Stamping(u, j)' => call'[u].stamp = merit'[j]
                          /\ (\E u \in Trainers : Stamping(u, j)') \/ merit'[j] = StatusOf(j)'
      BY <1>0 DEF MeritInv
    <2>4. /\ \A u \in Trainers : Stamping(u, j) => call[u].stamp = merit[j]
          /\ (\E u \in Trainers : Stamping(u, j)) \/ merit[j] = StatusOf(j)
      BY <2>3 DEF MeritInv
    <2>5. \A u \in Trainers \ {t} : Stamping(u, j)' <=> Stamping(u, j)
      BY <2>1 DEF Stamping
    <2>6. StatusOf(j)' = StatusOf(j)
      BY <2>2 DEF StatusOf, Has, At
    <2>7. CASE j # k
      <3>1. ~ Stamping(t, j) /\ ~ Stamping(t, j)'
        BY <2>0, <2>1, <2>7 DEF Stamping, GoesOn
      <3> QED
        BY <2>1, <2>4, <2>5, <2>6, <2>7, <3>1
    <2>8. CASE j = k
      <3>1. \A u \in Trainers : ~ Stamping(u, j)
        BY <2>0, <2>1, <2>3, <2>8 DEF Stamping, AloneInv, Active
      <3>2. Stamping(t, j)'
        BY <2>0, <2>1, <2>8 DEF Stamping, GoesOn
      <3>3. call'[t].stamp = merit'[k]
        <4>1. merit[k] = IF Has("status", k) THEN At("status", k) ELSE 0
          BY <2>4, <2>8, <3>1 DEF StatusOf
        <4> QED
          BY <2>1, <4>1
      <3> QED
        BY <2>5, <2>8, <3>1, <3>2, <3>3
    <2> QED
      BY <2>7, <2>8
  <1>8. ASSUME UNCHANGED <<world, tables, call, merit>>
        PROVE  MeritInv'
    <2>1. \A j \in Keys : Same("status", j)
      BY <1>8 DEF Same, Has, At
    <2>2. \A u, j : Stamping(u, j)' <=> Stamping(u, j)
      BY <1>8 DEF Stamping
    <2> QED
      BY <1>0, <1>8, <2>1, <2>2, MeritFrame
  <1>9. ASSUME NEW s \in DOMAIN cuts, NEW t \in Table, CutTable(s, t)
        PROVE  MeritInv'
    <2>1. /\ \A j \in cuts[s].keys : ~ Has(t, j)'
          /\ \A j \in Keys : t # "status" \/ j \notin cuts[s].keys => Same("status", j)
      <3>1. /\ \A j \in cuts[s].keys : ~ Has(t, j)'
            /\ \A u \in Table, j \in Keys : u # t \/ j \notin cuts[s].keys => Same(u, j)
        BY <1>9, CutTableEffect
      <3> QED
        BY <3>1
    <2>2. /\ \A u \in Trainers : call'[u].pc = call[u].pc
          /\ \A k \in Keys : merit'[k] = IF t = "status" /\ k \in cuts[s].keys THEN 0 ELSE merit[k]
          /\ raced' = raced
      BY <1>9, CutTableEffect
    <2>3. SUFFICES ASSUME ~ raced, NEW j \in Keys
                   PROVE  /\ \A u \in Trainers : ~ Stamping(u, j)'
                          /\ merit'[j] = StatusOf(j)'
      BY <2>2 DEF MeritInv
    <2>4. ~ Training
      BY <2>3 DEF AloneInv
    <2>5. merit[j] = StatusOf(j)
      BY <2>3, <2>4 DEF MeritInv, Stamping, Training
    <2>6. merit'[j] = StatusOf(j)'
      <3>1. CASE t = "status" /\ j \in cuts[s].keys
        BY <2>1, <2>2, <3>1 DEF StatusOf
      <3>2. CASE ~ (t = "status" /\ j \in cuts[s].keys)
        BY <2>1, <2>2, <2>5, <3>2 DEF StatusOf, Same
      <3> QED
        BY <3>1, <3>2
    <2> QED
      BY <2>2, <2>4, <2>6 DEF Stamping, Training
  <1>10. ASSUME NEW r \in Ranks, NEW n \in budget.reserves, NEW g \in budget.reserves,
                Restriction(r, n, g)
         PROVE  MeritInv'
    BY <1>8, <1>10 DEF Restriction, RestrictSame
  <1>11. ASSUME NEW s \in DOMAIN cuts, Export(s)
         PROVE  MeritInv'
    BY <1>8, <1>11 DEF Export, RestrictSame
  <1> QED
    BY <1>1, <1>2, <1>4, <1>5, <1>6, <1>7, <1>9, <1>10, <1>11 DEF VarNext

LEMMA MeritInvariant == Spec => []MeritInv
  <1>1. Init => MeritInv
    <2> SUFFICES ASSUME Init PROVE MeritInv
      OBVIOUS
    <2>1. /\ ~ Training /\ TypeInv /\ tables = EmptyTables(world)
          /\ merit = [k \in Keys |-> 0]
      BY InitTypes DEF Init, VarInit
    <2>2. \A k \in Keys : ~ Has("status", k)
      <3>1. \A k \in Keys : Home(world, k) \in Shards(world)
        BY <2>1, HomeOf DEF TypeInv, TrainTypes, TablesOK
      <3> QED
        BY <2>1, <3>1 DEF Has, EmptyTables, Table
    <2> QED
      BY <2>1, <2>2 DEF MeritInv, StatusOf, Stamping, Training
  <1>2. TypeInv /\ AloneInv /\ MeritInv /\ [Next]_vars => MeritInv'
    <2> SUFFICES ASSUME TypeInv, AloneInv, MeritInv, [Next]_vars PROVE MeritInv'
      OBVIOUS
    <2>1. CASE Train
      BY <2>1, MeritStep DEF Train, TypeInv
    <2>2. CASE Restore
      <3>1. world' = world /\ ~ Training /\ call' = call
        BY <2>2, RestoreEffect
      <3>2. merit' = [k \in Keys |-> Entry(tables', "status", k)]
        BY <2>2 DEF Restore
      <3>3. \A k \in Keys : merit'[k] = StatusOf(k)'
        BY <3>1, <3>2 DEF Entry, StatusOf, Has, At, Zero
      <3> QED
        BY <3>1, <3>3 DEF MeritInv, Stamping, Training
    <2>3. CASE Crash
      <3>1. /\ ~ Training' /\ \A k \in Keys : merit'[k] = 0 /\ ~ Has("status", k)'
        BY <2>3, CrashEffect DEF Table
      <3> QED
        BY <3>1 DEF MeritInv, StatusOf, Stamping, Training
    <2>4. CASE UNCHANGED varVars
      <3>1. UNCHANGED <<world, tables, call, merit, raced>>
        BY <2>4 DEF varVars
      <3>2. \A j \in Keys : Same("status", j)
        BY <3>1 DEF Same, Has, At
      <3>3. \A u, j : Stamping(u, j)' <=> Stamping(u, j)
        BY <3>1 DEF Stamping
      <3> QED
        BY <3>1, <3>2, <3>3, MeritFrame
    <2>5. CASE SaveStart \/ RankZeroEnd \/ Sweep \/ SaveEnd \/ Manage \/ \E r \in Ranks : WriteFiles(r)
      BY <2>4, <2>5 DEF SaveStart, RankZeroEnd, Sweep, SaveEnd, Manage, WriteFiles, SaveSame
    <2>6. CASE UNCHANGED vars
      BY <2>4, <2>6 DEF vars
    <2> QED
      BY <2>1, <2>2, <2>3, <2>5, <2>6 DEF Next
  <1> QED
    BY <1>1, <1>2, TypeInvariant, AloneInvariant, PTL DEF Spec

-----------------------------------------------------------------------------
(* A restriction that nobody trains beside, in tables that were aligned    *)
(* when it began: the tables of a shard differ only in what is to go, and  *)
(* what is to stay is what the shard may reserve, of the highest merit.    *)
Rest(s) == DOMAIN tables["var"][s] \ cuts[s].keys

TrimOK(s) ==
  LET keys == cuts[s].keys IN
  /\ \A t \in Table : /\ DOMAIN tables[t][s] \ keys = Rest(s)
                      /\ t \notin cuts[s].todo => DOMAIN tables[t][s] \cap keys = {}
  /\ cuts[s].pc = "export" /\ ~ raced =>
       \A k \in DOMAIN tables["status"][s] : tables["status"][s][k] = trim.merit[k]
  /\ cuts[s].pc = "remove" =>
       /\ Cardinality(Rest(s)) <= partial_reserved
       /\ keys # {} => Cardinality(Rest(s)) = partial_reserved
       /\ ~ raced => \A k \in Rest(s), l \in keys : trim.merit[k] >= trim.merit[l]

TrimInv ==
  /\ DOMAIN trim = {"reserved", "merit", "aligned", "quiet"} /\ trim.reserved \in Nat
  /\ trim.quiet /\ DOMAIN cuts # {} =>
       ~ Training /\ (trim.aligned => \A s \in DOMAIN cuts : TrimOK(s))

(* top_k takes just as many of the status as are over what is reserved.    *)
LEMMA RestCount ==
  ASSUME NEW D, IsFiniteSet(D), NEW ks \in SUBSET D, NEW p \in Nat,
         Cardinality(ks) = Cardinality(D) - Least(p, Cardinality(D))
  PROVE  /\ Cardinality(D \ ks) <= p
         /\ ks # {} => Cardinality(D \ ks) = p
  <1>1. /\ Cardinality(D) \in Nat /\ IsFiniteSet(ks) /\ Cardinality(ks) \in Nat
    BY FS_CardinalityType, FS_Subset
  <1>2. Cardinality(D \ ks) = Cardinality(D) - Cardinality(ks)
    <2>1. D \cap ks = ks
      OBVIOUS
    <2>2. Cardinality(D \ ks) = Cardinality(D) - Cardinality(D \cap ks)
      BY FS_Difference
    <2> QED
      BY <2>1, <2>2
  <1>3. ks # {} => Cardinality(ks) # 0
    BY <1>1, FS_EmptySet
  <1>4. Cardinality(D \ ks) = Cardinality(D) - (Cardinality(D) - Least(p, Cardinality(D)))
    BY <1>1, <1>2
  <1> QED
    BY <1>1, <1>2, <1>3, <1>4 DEF Least

LEMMA ReservedNat ==
  ASSUME TrainTypes, trim.reserved \in Nat
  PROVE  partial_reserved \in Nat
  <1>1. world.devs \in Nat \ {0}
    BY VariableAssumption DEF TrainTypes, TablesOK
  <1> QED
    BY <1>1 DEF partial_reserved

(* The tables that a restriction begins with.                              *)
LEMMA RestrictionTrims ==
  ASSUME TrainTypes, AloneInv, MeritInv, TrimInv, NEW r \in Ranks, NEW n \in budget.reserves,
         NEW g \in budget.reserves, Restriction(r, n, g)
  PROVE  TrimInv'
  <1>1. /\ call' = call /\ DOMAIN cuts' = ShardsOf(r) /\ n \in Nat
        /\ \A s \in ShardsOf(r) : cuts'[s] = [pc |-> "export", keys |-> {}, todo |-> Table]
        /\ (~ raced' => ~ raced /\ ~ Training)
        /\ trim' = [reserved |-> n, merit |-> merit, quiet |-> ~ Training,
                    aligned |-> \A s \in ShardsOf(r) : AlignedAt(s)]
    BY RestrictionEffect
  <1>2. UNCHANGED <<world, tables>>
    BY DEF Restriction, RestrictSame
  <1>3. /\ DOMAIN trim' = {"reserved", "merit", "aligned", "quiet"} /\ trim'.reserved = n
        /\ trim'.merit = merit /\ (trim'.quiet <=> ~ Training)
        /\ (trim'.aligned <=> \A s \in ShardsOf(r) : AlignedAt(s))
    BY <1>1
  <1>4. SUFFICES ASSUME ~ Training, NEW s \in ShardsOf(r), AlignedAt(s)
                 PROVE  TrimOK(s)'
    BY <1>1, <1>3 DEF TrimInv, Training
  <1>5. /\ cuts'[s].pc = "export" /\ cuts'[s].keys = {} /\ cuts'[s].todo = Table
        /\ s \in Shards(world)
    BY <1>1 DEF ShardsOf
  <1>6. \A t \in Table : DOMAIN tables[t][s] = DOMAIN tables["var"][s]
    BY <1>4 DEF AlignedAt, Table
  <1>7. Rest(s)' = DOMAIN tables["var"][s]
    BY <1>2, <1>5 DEF Rest
  <1>8. ASSUME ~ raced', NEW k \in DOMAIN tables["status"][s]
        PROVE  tables["status"][s][k] = merit[k]
    <2>1. k \in Keys /\ Home(world, k) = s
      BY <1>5 DEF TrainTypes, TablesOK, Table
    <2>2. ~ raced /\ \A t \in Trainers : ~ Stamping(t, k)
      BY <1>1, <1>4, <1>8 DEF Stamping, Training
    <2>3. merit[k] = StatusOf(k)
      BY <2>1, <2>2 DEF MeritInv
    <2> QED
      BY <2>1, <2>3 DEF StatusOf, Has, At
  <1> QED
    BY <1>2, <1>3, <1>5, <1>6, <1>7, <1>8 DEF TrimOK

LEMMA ExportTrims ==
  ASSUME TrainTypes, TrimInv, NEW s \in DOMAIN cuts, Export(s)
  PROVE  TrimInv'
  <1> "var" \in Table /\ "status" \in Table
    BY DEF Table
  <1>1. PICK ks \in SUBSET DOMAIN tables["status"][s] :
          /\ LET first_dim == Cardinality(DOMAIN tables["status"][s])
             IN  Cardinality(ks) = first_dim - Least(partial_reserved, first_dim)
          /\ \A k \in ks, l \in DOMAIN tables["status"][s] \ ks :
               tables["status"][s][k] <= tables["status"][s][l]
          /\ cuts[s].pc = "export" /\ DOMAIN cuts' = DOMAIN cuts
          /\ \A u \in DOMAIN cuts \ {s} : cuts'[u] = cuts[u]
          /\ cuts'[s] = [cuts[s] EXCEPT !.pc = "remove", !.keys = ks]
          /\ UNCHANGED <<tables, call, trim, raced>>
    BY ExportEffect
  <1>2. world' = world /\ partial_reserved' = partial_reserved
    BY <1>1 DEF Export, RestrictSame, partial_reserved
  <1>3. /\ cuts[s].keys = {} /\ cuts[s].todo = Table
        /\ cuts'[s].pc = "remove" /\ cuts'[s].keys = ks /\ cuts'[s].todo = Table
    BY <1>1 DEF TrainTypes, CutOK
  <1>4. SUFFICES ASSUME trim.quiet, trim.aligned, ~ Training, \A u \in DOMAIN cuts : TrimOK(u)
                 PROVE  \A u \in DOMAIN cuts : TrimOK(u)'
    BY <1>1 DEF TrimInv, Training
  <1>5. ASSUME NEW u \in DOMAIN cuts, u # s PROVE TrimOK(u)'
    BY <1>1, <1>2, <1>4, <1>5 DEF TrimOK, Rest
  <1>6. /\ \A t \in Table : DOMAIN tables[t][s] = DOMAIN tables["var"][s]
        /\ ~ raced => \A k \in DOMAIN tables["status"][s] : tables["status"][s][k] = trim.merit[k]
    BY <1>1, <1>3, <1>4 DEF TrimOK, Rest
  <1>7. Rest(s)' = DOMAIN tables["status"][s] \ ks
    BY <1>1, <1>3, <1>6 DEF Rest
  <1>8. IsFiniteSet(DOMAIN tables["status"][s])
    <2>1. DOMAIN tables["status"][s] \subseteq Keys
      BY DEF TrainTypes, TablesOK
    <2> QED
      BY <2>1, VariableAssumption, FS_Subset
  <1>9. /\ Cardinality(Rest(s)') <= partial_reserved
        /\ ks # {} => Cardinality(Rest(s)') = partial_reserved
    BY <1>1, <1>7, <1>8, RestCount, ReservedNat DEF TrimInv
  <1>10. ASSUME ~ raced, NEW k \in Rest(s)', NEW l \in ks PROVE trim.merit[k] >= trim.merit[l]
    BY <1>1, <1>6, <1>7, <1>10
  <1>11. TrimOK(s)'
    <2>1. \A t \in Table : DOMAIN tables'[t][s] \ ks = Rest(s)'
      BY <1>1, <1>6, <1>7
    <2> QED
      BY <1>1, <1>2, <1>3, <1>9, <1>10, <2>1 DEF TrimOK
  <1> QED
    BY <1>5, <1>11

LEMMA CutTableTrims ==
  ASSUME TrainTypes, TrimInv, NEW s \in DOMAIN cuts, NEW t \in Table, CutTable(s, t)
  PROVE  TrimInv'
  <1> "var" \in Table /\ "status" \in Table
    BY DEF Table
  <1>1. /\ cuts[s].pc = "remove" /\ t \in cuts[s].todo
        /\ DOMAIN tables'[t][s] = DOMAIN tables[t][s] \ cuts[s].keys
        /\ \A u \in Table, r \in Shards(world) : u # t \/ r # s => tables'[u][r] = tables[u][r]
    <2>1. cuts[s].pc = "remove" /\ t \in cuts[s].todo
      BY CutTableEffect
    <2>2. DOMAIN tables'[t][s] = DOMAIN tables[t][s] \ cuts[s].keys
      BY CutTableEffect, Zenon
    <2>3. \A u \in Table, r \in Shards(world) : u # t \/ r # s => tables'[u][r] = tables[u][r]
      <3>1. tables' = [tables EXCEPT ![t][s] = Cut(t, s)]
        BY DEF CutTable
      <3>2. DOMAIN tables = Table /\ \A u \in Table : DOMAIN tables[u] = Shards(world)
        BY DEF TrainTypes, TablesOK
      <3> QED
        BY <3>1, <3>2
    <2> QED
      BY <2>1, <2>2, <2>3
  <1>2. /\ \A u \in Trainers : call'[u].pc = call[u].pc
        /\ \A r \in DOMAIN cuts \ {s} : r \in DOMAIN cuts' /\ cuts'[r] = cuts[r]
        /\ \/ cuts[s].todo = {t} /\ DOMAIN cuts' = DOMAIN cuts \ {s}
           \/ /\ DOMAIN cuts' = DOMAIN cuts
              /\ cuts'[s] = [cuts[s] EXCEPT !.todo = cuts[s].todo \ {t}]
        /\ UNCHANGED <<trim, raced>>
    BY CutTableEffect
  <1>3. world' = world /\ partial_reserved' = partial_reserved
    BY <1>2 DEF CutTable, RestrictSame, partial_reserved
  <1>4. /\ CutOK(s) /\ DOMAIN cuts \subseteq Shards(world)
    BY DEF TrainTypes
  <1>5. SUFFICES ASSUME trim.quiet, trim.aligned, ~ Training, \A u \in DOMAIN cuts : TrimOK(u)
                 PROVE  \A u \in DOMAIN cuts' : TrimOK(u)'
    BY <1>2 DEF TrimInv, Training
  <1>6. ASSUME NEW u \in DOMAIN cuts', u # s PROVE TrimOK(u)'
    <2>1. u \in DOMAIN cuts /\ cuts'[u] = cuts[u] /\ \A v \in Table : tables'[v][u] = tables[v][u]
      BY <1>1, <1>2, <1>4, <1>6
    <2>2. Rest(u)' = Rest(u)
      BY <2>1 DEF Rest
    <2> QED
      BY <1>2, <1>3, <1>5, <2>1, <2>2 DEF TrimOK
  <1>7. ASSUME s \in DOMAIN cuts' PROVE TrimOK(s)'
    <2>1. /\ cuts'[s].pc = "remove" /\ cuts'[s].keys = cuts[s].keys
          /\ cuts'[s].todo = cuts[s].todo \ {t}
      BY <1>1, <1>2, <1>4, <1>7 DEF CutOK
    <2>2. \A u \in Table : /\ DOMAIN tables'[u][s] \ cuts[s].keys = DOMAIN tables[u][s] \ cuts[s].keys
                           /\ u # t => tables'[u][s] = tables[u][s]
      BY <1>1, <1>4
    <2>3. Rest(s)' = Rest(s)
      BY <2>1, <2>2 DEF Rest
    <2>4. TrimOK(s)
      BY <1>5
    <2>5. \A u \in Table : /\ DOMAIN tables'[u][s] \ cuts'[s].keys = Rest(s)'
                           /\ u \notin cuts'[s].todo => DOMAIN tables'[u][s] \cap cuts'[s].keys = {}
      BY <1>1, <2>1, <2>2, <2>3, <2>4 DEF TrimOK
    <2> QED
      BY <1>1, <1>2, <1>3, <2>1, <2>3, <2>4, <2>5 DEF TrimOK
  <1> QED
    BY <1>6, <1>7

LEMMA TrimFrame ==
  ASSUME TrimInv, UNCHANGED <<cuts, trim>>, DOMAIN cuts = {} \/ Training
  PROVE  TrimInv'
  BY DEF TrimInv

LEMMA TrimStep ==
  ASSUME TrainTypes, AloneInv, MeritInv, TrimInv, VarNext
  PROVE  TrimInv'
  <1>1. ASSUME NEW t \in Trainers, NEW k \in budget.keys, Lookup(t, k)
        PROVE  TrimInv'
    <2>1. trim' = [trim EXCEPT !.quiet = FALSE]
      BY <1>1 DEF Lookup
    <2>2. DOMAIN trim' = DOMAIN trim /\ trim'.reserved = trim.reserved /\ ~ trim'.quiet
      BY <2>1 DEF TrimInv
    <2> QED
      BY <2>2 DEF TrimInv
  <1>2. ASSUME NEW t \in Trainers,
               ReadSlot(t) \/ UpdateVar(t) \/ UpdateSlot(t) \/ Stamp(t) \/ UpdateStatus(t)
        PROVE  TrimInv'
    <2>1. Training
      BY <1>2 DEF Training, ReadSlot, UpdateVar, UpdateSlot, Stamp, UpdateStatus, Todo
    <2>2. cuts' = cuts /\ trim' = trim
      BY <1>2 DEF ReadSlot, UpdateVar, UpdateSlot, Stamp, UpdateStatus, TrainSame
    <2> QED
      BY <2>1, <2>2, TrimFrame
  <1>3. ASSUME NEW r \in Ranks, NEW n \in budget.reserves, NEW g \in budget.reserves,
               Restriction(r, n, g)
        PROVE  TrimInv'
    BY <1>3, RestrictionTrims
  <1>4. ASSUME NEW s \in DOMAIN cuts, Export(s)
        PROVE  TrimInv'
    BY <1>4, ExportTrims
  <1>5. ASSUME NEW s \in DOMAIN cuts, NEW t \in Table, CutTable(s, t)
        PROVE  TrimInv'
    BY <1>5, CutTableTrims
  <1> QED
    BY <1>1, <1>2, <1>3, <1>4, <1>5 DEF VarNext

LEMMA TrimInvariant == Spec => []TrimInv
  <1>1. Init => TrimInv
    <2> SUFFICES ASSUME Init PROVE TrimInv
      OBVIOUS
    <2>1. /\ cuts = << >>
          /\ trim = [reserved |-> 0, merit |-> [k \in Keys |-> 0], aligned |-> TRUE, quiet |-> TRUE]
      BY DEF Init, VarInit
    <2> QED
      BY <2>1 DEF TrimInv
  <1>2. TypeInv /\ AloneInv /\ MeritInv /\ TrimInv /\ [Next]_vars => TrimInv'
    <2> SUFFICES ASSUME TypeInv, AloneInv, MeritInv, TrimInv, [Next]_vars PROVE TrimInv'
      OBVIOUS
    <2>1. CASE Train
      BY <2>1, TrimStep DEF Train, TypeInv
    <2>2. CASE Restore
      BY <2>2, RestoreEffect, TrimFrame
    <2>3. CASE Crash
      <3>1. DOMAIN cuts' = {} /\ trim' = trim
        BY <2>3, CrashEffect
      <3> QED
        BY <3>1 DEF TrimInv
    <2>4. CASE UNCHANGED varVars
      <3>1. UNCHANGED <<world, tables, call, cuts, raced, trim>>
        BY <2>4 DEF varVars
      <3>2. partial_reserved' = partial_reserved
        BY <3>1 DEF partial_reserved
      <3>3. \A s : Rest(s)' = Rest(s)
        BY <3>1 DEF Rest
      <3>4. \A s : TrimOK(s)' <=> TrimOK(s)
        BY <3>1, <3>2, <3>3 DEF TrimOK
      <3> QED
        BY <3>1, <3>4 DEF TrimInv, Training
    <2>5. CASE SaveStart \/ RankZeroEnd \/ Sweep \/ SaveEnd \/ Manage \/ \E r \in Ranks : WriteFiles(r)
      BY <2>4, <2>5 DEF SaveStart, RankZeroEnd, Sweep, SaveEnd, Manage, WriteFiles, SaveSame
    <2>6. CASE UNCHANGED vars
      BY <2>4, <2>6 DEF vars
    <2> QED
      BY <2>1, <2>2, <2>3, <2>5, <2>6 DEF Next
  <1> QED
    BY <1>1, <1>2, TypeInvariant, AloneInvariant, MeritInvariant, PTL DEF Spec

(* Only the last of a shard's tables takes it out of the restriction.      *)
LEMMA LastTable ==
  ASSUME TypeInv, [Next]_vars, NEW s \in DOMAIN cuts, s \notin DOMAIN cuts', budget' = budget
  PROVE  \E t \in Table : cuts[s].todo = {t} /\ CutTable(s, t)
  <1>1. CASE Train
    <2>1. TrainTypes /\ VarNext /\ cuts # << >>
      <3>1. VarNext /\ TrainTypes
        BY <1>1 DEF Train, TypeInv
      <3>2. cuts # << >>
        OBVIOUS
      <3> QED
        BY <3>1, <3>2
    <2>2. ~ \E t \in Trainers :
              \/ \E k \in budget.keys : Lookup(t, k)
              \/ ReadSlot(t) \/ UpdateVar(t) \/ UpdateSlot(t) \/ Stamp(t) \/ UpdateStatus(t)
      BY DEF Lookup, ReadSlot, UpdateVar, UpdateSlot, Stamp, UpdateStatus, TrainSame
    <2>3. ~ \E r \in Ranks, n, g \in budget.reserves : Restriction(r, n, g)
      BY <2>1 DEF Restriction
    <2>4. ~ \E u \in DOMAIN cuts : Export(u)
      <3> SUFFICES ASSUME NEW u \in DOMAIN cuts, Export(u) PROVE DOMAIN cuts' = DOMAIN cuts
        OBVIOUS
      <3> QED
        BY <2>1, ExportEffect
    <2>5. PICK u \in DOMAIN cuts, t \in Table : CutTable(u, t)
      BY <2>1, <2>2, <2>3, <2>4 DEF VarNext
    <2>6. /\ \A r \in DOMAIN cuts \ {u} : r \in DOMAIN cuts'
          /\ cuts[u].todo = {t} \/ DOMAIN cuts' = DOMAIN cuts
      BY <2>1, <2>5, CutTableEffect
    <2> QED
      BY <2>5, <2>6
  <1>2. CASE Restore
    BY <1>2 DEF Restore
  <1>3. CASE Crash
    BY <1>3, CrashEffect
  <1>4. CASE SaveStart \/ RankZeroEnd \/ Sweep \/ SaveEnd \/ Manage \/ \E r \in Ranks : WriteFiles(r)
    BY <1>4 DEF SaveStart, RankZeroEnd, Sweep, SaveEnd, Manage, WriteFiles, SaveSame, varVars
  <1>5. CASE UNCHANGED vars
    BY <1>5 DEF vars, varVars
  <1> QED
    BY <1>1, <1>2, <1>3, <1>4, <1>5 DEF Next

LEMMA TrimmedStep ==
  ASSUME TypeInv, TrimInv, [Next]_vars, budget' = budget,
         NEW s \in DOMAIN cuts, s \notin DOMAIN cuts', trim.aligned, trim.quiet
  PROVE  LET kept_keys == DOMAIN tables'["var"][s] IN
         /\ DOMAIN tables'["slot"][s] = kept_keys /\ DOMAIN tables'["status"][s] = kept_keys
         /\ Cardinality(kept_keys) <= partial_reserved
         /\ cuts[s].keys # {} => Cardinality(kept_keys) = partial_reserved
         /\ ~ raced => \A k \in kept_keys, l \in cuts[s].keys : trim.merit[k] >= trim.merit[l]
  <1>1. TrainTypes /\ s \in Shards(world)
    BY DEF TypeInv, TrainTypes
  <1>2. PICK t \in Table : cuts[s].todo = {t} /\ CutTable(s, t)
    BY LastTable
  <1>3. cuts[s].pc = "remove" /\ TrimOK(s)
    BY <1>2 DEF TrimInv, CutTable
  <1>4. tables' = [tables EXCEPT ![t][s] = Cut(t, s)]
    BY <1>2 DEF CutTable
  <1>5. ASSUME NEW u \in Table PROVE DOMAIN tables'[u][s] = Rest(s)
    <2>1. DOMAIN tables = Table /\ DOMAIN tables[u] = Shards(world) /\ DOMAIN tables[t] = Shards(world)
      BY <1>1 DEF TrainTypes, TablesOK
    <2>2. DOMAIN tables[u][s] \ cuts[s].keys = Rest(s)
      BY <1>3 DEF TrimOK
    <2>3. CASE u = t
      <3>1. tables'[t][s] = Cut(t, s)
        BY <1>1, <1>4, <2>1
      <3>2. DOMAIN Cut(t, s) = DOMAIN tables[t][s] \ cuts[s].keys
        BY DEF Cut, Restrict
      <3> QED
        BY <2>2, <2>3, <3>1, <3>2
    <2>4. CASE u # t
      <3>1. tables'[u] = tables[u]
        BY <1>4, <2>1, <2>4
      <3>2. DOMAIN tables[u][s] \cap cuts[s].keys = {}
        BY <1>2, <1>3, <2>4 DEF TrimOK
      <3> QED
        BY <2>2, <3>1, <3>2
    <2> QED
      BY <2>3, <2>4
  <1>6. /\ Cardinality(Rest(s)) <= partial_reserved
        /\ cuts[s].keys # {} => Cardinality(Rest(s)) = partial_reserved
        /\ ~ raced => \A k \in Rest(s), l \in cuts[s].keys : trim.merit[k] >= trim.merit[l]
    BY <1>3 DEF TrimOK
  <1> QED
    BY <1>5, <1>6 DEF Table

(* When a restriction that nobody trains beside is done with a shard whose *)
(* tables were aligned, they are aligned again, with as many keys as the   *)
(* shard may reserve, and none that was trained less than one that went,   *)
(* unless two trained one key together; whatever is reserved, in any world.*)
THEOREM RestrictionsTrim == Spec => RestrictTrims
  <1> DEFINE Trims ==
        \A s \in DOMAIN cuts : (s \notin DOMAIN cuts') /\ trim.aligned /\ trim.quiet /\ budget' = budget
          => LET kept_keys == DOMAIN tables'["var"][s] IN
             /\ DOMAIN tables'["slot"][s] = kept_keys /\ DOMAIN tables'["status"][s] = kept_keys
             /\ Cardinality(kept_keys) <= partial_reserved
             /\ cuts[s].keys # {} => Cardinality(kept_keys) = partial_reserved
             /\ ~ raced => \A k \in kept_keys, l \in cuts[s].keys : trim.merit[k] >= trim.merit[l]
  <1>1. TypeInv /\ TrimInv /\ [Next]_vars => [Trims]_varVars
    BY TrimmedStep
  <1>2. Spec => [][Trims]_varVars
    <2> HIDE DEF Trims
    <2> QED
      BY <1>1, TypeInvariant, TrimInvariant, PTL DEF Spec
  <1> QED
    BY <1>2 DEF RestrictTrims
=============================================================================
