--------------------------- MODULE ShardedVariable ---------------------------
(***************************************************************************)
(* A dynamic embedding variable as the Python layer trains and trims it:   *)
(* de.Variable (python/ops/dynamic_embedding_variable.py), the trainable   *)
(* wrappers (embedding_weights.py, shadow_embedding_ops.py), the optimizer *)
(* (dynamic_embedding_optimizer.py) and the restrict policies              *)
(* (restrict_policies.py).  One variable has three tables to a shard: its  *)
(* own, that of an optimizer slot and that of the policy's status.  Every  *)
(* operation on one table is a step; those of different tables that the    *)
(* graph only groups come in any order.                                    *)
(*                                                                         *)
(* A value is the set of the updates it contains, a slot's is of no        *)
(* interest, a status is a time or a count.  A batch is one key: keys of a *)
(* batch meet in no table operation.                                       *)
(***************************************************************************)
EXTENDS Integers, FiniteSets, Functions

CONSTANTS
  Keys,          \* a set of naturals
  Worlds,        \* the [size, devs] it may run in: processes, devices of each
  Trainers,
  NoCall

(* Bounds, of which a behaviour has one: the numbers of updates,           *)
(* restrictions, saves and crashes; how many train at a time, and which    *)
(* keys; in which worlds; how the variable is configured; the num_reserved,*)
(* and triggers, that restrict is called with.                             *)
CONSTANT Budgets

Budget ==
  [updates : Nat, restricts : Nat, saves : Nat, crashes : Nat, trainers : Nat,
   keys : SUBSET Keys, worlds : SUBSET Worlds, reserves : SUBSET Nat,
   bp_v2 : SUBSET BOOLEAN, slot_bp_v2 : SUBSET BOOLEAN, shadow : SUBSET BOOLEAN,
   policies : SUBSET {"timestamp", "frequency"}]

ASSUME VariableAssumption ==
  /\ IsFiniteSet(Keys) /\ Keys \subseteq Nat
  /\ Worlds \subseteq [size : Nat \ {0}, devs : Nat \ {0}]
  /\ Budgets \subseteq Budget

VARIABLES
  world,
  tables,     \* [Table -> [<<rank, device>> -> [a set of keys -> values]]]
  bp_v2,      \* the variable's: updates are accumulated, not set
  slot_bp_v2, \* the slots', which is the optimizer's
  shadow,     \* the wrappers are ShadowVariables: they share one exists
  policy,
  call,       \* [Trainers -> the step of training it is at]
  cuts,       \* [the shards being restricted -> what there remains to do]
  now,        \* seconds
  budget, updates, restricts,
  (* History.                                                              *)
  kept,       \* [Keys -> updates that its value must contain]
  merit,      \* [Keys -> when it was last trained, or how often]
  trim,       \* of the restriction that runs: its num_reserved, the merit
              \* and whether the tables were aligned before it, and whether
              \* nobody trains beside it
  raced,      \* two trained one key at a time, or one beside a restriction
  beside      \* the keys trained while a restriction was removing them

Table == {"var", "slot", "status"}

varVars == <<world, tables, bp_v2, slot_bp_v2, shadow, policy, call, cuts, now, budget,
             updates, restricts, kept, merit, trim, raced, beside>>

Shards(w)     == (0 .. w.size - 1) \X (0 .. w.devs - 1)
ShardsOf(r)   == {s \in Shards(world) : s[1] = r}
Ranks         == 0 .. world.size - 1
EmptyTables(w) == [t \in Table |-> [s \in Shards(w) |-> << >>]]

(* default_partition_fn: for the process, and in it for the device.        *)
Home(w, k) == <<k % w.size, k % w.devs>>

(* The entry of k in a table, in its shard.                                *)
Has(t, k) == k \in DOMAIN tables[t][Home(world, k)]

With(f, k, v) == [j \in DOMAIN f \cup {k} |-> IF j = k THEN v ELSE f[j]]

Put(t, k, v) == tables' = [tables EXCEPT ![t][Home(world, k)] = With(@, k, v)]

Idle == [pc |-> "idle", k |-> NoCall, v0 |-> {}, exists |-> FALSE, slotExists |-> FALSE,
         todo |-> {}, stamp |-> 0, id |-> 0, sound |-> FALSE]

VarInit ==
  /\ budget \in Budgets /\ bp_v2 \in budget.bp_v2 /\ slot_bp_v2 \in budget.slot_bp_v2
  /\ shadow \in budget.shadow
  /\ policy \in budget.policies /\ world \in budget.worlds /\ tables = EmptyTables(world)
  /\ call = [t \in Trainers |-> Idle] /\ cuts = << >> /\ now = 0
  /\ updates = 0 /\ restricts = 0
  /\ kept = [k \in Keys |-> {}] /\ merit = [k \in Keys |-> 0]
  /\ trim = [reserved |-> 0, merit |-> [k \in Keys |-> 0], aligned |-> TRUE, quiet |-> TRUE]
  /\ raced = FALSE /\ beside = {}

Training == \E t \in Trainers : call[t].pc # "idle"

(* The three tables of the shard have the same keys.                       *)
AlignedAt(s) == DOMAIN tables["var"][s] = DOMAIN tables["slot"][s]
                /\ DOMAIN tables["var"][s] = DOMAIN tables["status"][s]
-----------------------------------------------------------------------------
(* A training step.                                                        *)

TrainSame == UNCHANGED <<world, bp_v2, slot_bp_v2, shadow, policy, cuts, budget, restricts>>

BeingCut(k) == \E s \in DOMAIN cuts : k \in cuts[s].keys

(* The forward pass: prefetch_values looks the key up.                     *)
Lookup(t, k) ==
  /\ call[t].pc = "idle" /\ updates < budget.updates
  /\ Cardinality({u \in Trainers : call[u].pc # "idle"}) < budget.trainers
  /\ updates' = updates + 1
  /\ call' = [call EXCEPT ![t] =
       [Idle EXCEPT !.pc = "looked", !.k = k, !.id = updates + 1,
                    !.v0 = IF Has("var", k) THEN tables["var"][Home(world, k)][k] ELSE {},
                    !.exists = Has("var", k), !.sound = Has("var", k)]]
  /\ raced' = (raced \/ cuts # << >> \/ \E u \in Trainers : call[u].k = k)
  /\ beside' = IF BeingCut(k) THEN beside \cup {k} ELSE beside
  /\ trim' = [trim EXCEPT !.quiet = FALSE]
  /\ UNCHANGED <<tables, now, kept, merit>> /\ TrainSame

(* Mutant of ReadSlot: whoever trains the key has one shadow variable.     *)
ReadSlotOfAll(t) ==
  LET k == call[t].k IN
  /\ call[t].pc = "looked"
  /\ call' = [u \in Trainers |->
       IF u = t THEN [call[t] EXCEPT !.pc = "update", !.slotExists = Has("slot", k),
                                     !.exists = IF shadow /\ slot_bp_v2 THEN Has("slot", k) ELSE @,
                                     !.sound = @ /\ Has("slot", k),
                                     !.todo = {"var", "slot", "stamp"}]
       ELSE IF shadow /\ slot_bp_v2 /\ call[u].k = k THEN [call[u] EXCEPT !.exists = Has("slot", k)]
       ELSE call[u]]
  /\ UNCHANGED <<tables, now, updates, kept, merit, trim, raced, beside>> /\ TrainSame

(* apply_grad_to_update_var reads the slot, whose lookup, if it has bp_v2, *)
(* assigns the exists that a shadow variable shares with its slots; then   *)
(* the gradient is applied to what was read.                               *)
ReadSlot(t) ==
  LET k == call[t].k IN
  /\ call[t].pc = "looked"
  /\ call' = [call EXCEPT ![t].pc = "update", ![t].slotExists = Has("slot", k),
                          ![t].exists = IF shadow /\ slot_bp_v2 THEN Has("slot", k) ELSE @,
                          ![t].sound = @ /\ Has("slot", k),
                          ![t].todo = {"var", "slot", "stamp"}]
  /\ UNCHANGED <<tables, now, updates, kept, merit, trim, raced, beside>> /\ TrainSame

(* update_op of the variable, of the slot, and of the policy.              *)
Todo(t, label) == call[t].pc = "update" /\ label \in call[t].todo

Ended(t, label, next) ==
  LET todo == (call[t].todo \ {label}) \cup next IN
  call' = [call EXCEPT ![t] = IF todo = {} THEN Idle ELSE [@ EXCEPT !.todo = todo]]

(* Mutant of Accumulates: the value is set.                                *)
AccumulatesSets(v, old, id) == old \cup {id}

(* The delta goes to the value as it is by now.                            *)
Accumulates(v, old, id) == v \cup {id}

UpdateVar(t) ==
  LET c == call[t] IN
  LET here == Has("var", c.k) IN
  /\ Todo(t, "var")
  /\ IF bp_v2 /\ c.exists # here THEN UNCHANGED tables
     ELSE Put("var", c.k, IF bp_v2 /\ here
                          THEN Accumulates(tables["var"][Home(world, c.k)][c.k], c.v0, c.id)
                          ELSE c.v0 \cup {c.id})
  /\ kept' = IF c.sound THEN [kept EXCEPT ![c.k] = @ \cup {c.id}] ELSE kept
  /\ Ended(t, "var", {})
  /\ UNCHANGED <<now, updates, merit, trim, raced, beside>> /\ TrainSame

UpdateSlot(t) ==
  LET c == call[t] IN
  /\ Todo(t, "slot")
  /\ IF slot_bp_v2 /\ c.slotExists # Has("slot", c.k) THEN UNCHANGED tables
     ELSE Put("slot", c.k, 0)
  /\ Ended(t, "slot", {})
  /\ UNCHANGED <<now, updates, kept, merit, trim, raced, beside>> /\ TrainSame

(* apply_update: the time is taken, in whole seconds, or the count looked  *)
(* up; then the status is written.                                         *)
Stamp(t) ==
  LET k == call[t].k IN
  /\ Todo(t, "stamp")
  /\ now' \in IF policy = "timestamp" THEN {now, now + 1} ELSE {now}
  /\ call' = [call EXCEPT ![t].todo = (@ \ {"stamp"}) \cup {"status"},
                          ![t].stamp = IF policy = "timestamp" THEN now'
                                       ELSE IF Has("status", k)
                                            THEN tables["status"][Home(world, k)][k] + 1 ELSE 1]
  /\ merit' = [merit EXCEPT ![k] = IF policy = "timestamp" THEN now' ELSE @ + 1]
  /\ UNCHANGED <<tables, updates, kept, trim, raced, beside>> /\ TrainSame

UpdateStatus(t) ==
  /\ Todo(t, "status")
  /\ Put("status", call[t].k, call[t].stamp)
  /\ Ended(t, "status", {})
  /\ UNCHANGED <<now, updates, kept, merit, trim, raced, beside>> /\ TrainSame
-----------------------------------------------------------------------------
(* restrict, of one process.                                               *)

RestrictSame == UNCHANGED <<world, bp_v2, slot_bp_v2, shadow, policy, now, budget, updates>>

SizeOf(r) == Cardinality(UNION {DOMAIN tables["var"][s] : s \in ShardsOf(r)})

(* apply_restriction: nothing to do, unless the variable is over the       *)
(* trigger.                                                                *)
Restriction(r, num_reserved, trigger) ==
  /\ cuts = << >> /\ restricts < budget.restricts /\ SizeOf(r) > trigger
  /\ cuts' = [s \in ShardsOf(r) |-> [pc |-> "export", keys |-> {}, todo |-> Table]]
  /\ restricts' = restricts + 1
  /\ trim' = [reserved |-> num_reserved, merit |-> merit, quiet |-> ~ Training,
              aligned |-> \A s \in ShardsOf(r) : AlignedAt(s)]
  /\ raced' = (raced \/ Training)
  /\ UNCHANGED <<tables, call, kept, merit, beside>> /\ RestrictSame

partial_reserved == trim.reserved \div world.devs

Least(a, b) == IF a < b THEN a ELSE b

(* Mutant of Lowest: top_k of the status itself.                           *)
LowestHighest(status, n) ==
  {ks \in SUBSET DOMAIN status :
     /\ Cardinality(ks) = n
     /\ \A k \in ks, l \in DOMAIN status \ ks : status[k] >= status[l]}

(* top_k of the negated status.                                            *)
Lowest(status, n) ==
  {ks \in SUBSET DOMAIN status :
     /\ Cardinality(ks) = n
     /\ \A k \in ks, l \in DOMAIN status \ ks : status[k] <= status[l]}

(* _cond_restrict_fn, for one shard: which keys go is read off the status, *)
(* and then each table removes them.                                       *)
Export(s) ==
  LET status == tables["status"][s] IN
  LET first_dim == Cardinality(DOMAIN status) IN
  /\ cuts[s].pc = "export"
  /\ \E ks \in Lowest(status, first_dim - Least(partial_reserved, first_dim)) :
       cuts' = [cuts EXCEPT ![s].pc = "remove", ![s].keys = ks]
  /\ UNCHANGED <<tables, call, restricts, kept, merit, trim, raced, beside>> /\ RestrictSame

(* What is left of a table of the shard.                                   *)
Cut(t, s) == Restrict(tables[t][s], DOMAIN tables[t][s] \ cuts[s].keys)

CutTable(s, t) ==
  LET keys == cuts[s].keys
      todo == cuts[s].todo \ {t} IN
  /\ cuts[s].pc = "remove" /\ t \in cuts[s].todo
  /\ tables' = [tables EXCEPT ![t][s] = Cut(t, s)]
  /\ cuts' = IF todo = {} THEN Restrict(cuts, DOMAIN cuts \ {s})
             ELSE [cuts EXCEPT ![s].todo = todo]
  /\ kept' = IF t = "var" THEN [k \in Keys |-> IF k \in keys THEN {} ELSE kept[k]] ELSE kept
  /\ merit' = IF t = "status" THEN [k \in Keys |-> IF k \in keys THEN 0 ELSE merit[k]] ELSE merit
  /\ call' = [u \in Trainers |-> IF call[u].k \in keys THEN [call[u] EXCEPT !.sound = FALSE]
                                 ELSE call[u]]
  /\ beside' = beside \cup (keys \cap {call[u].k : u \in Trainers})
  /\ UNCHANGED <<restricts, trim, raced>> /\ RestrictSame

VarNext ==
  \/ \E t \in Trainers :
       \/ \E k \in budget.keys : Lookup(t, k)
       \/ ReadSlot(t) \/ UpdateVar(t) \/ UpdateSlot(t) \/ Stamp(t) \/ UpdateStatus(t)
  \/ \E r \in Ranks, n, g \in budget.reserves : Restriction(r, n, g)
  \/ \E s \in DOMAIN cuts : Export(s) \/ \E t \in Table : CutTable(s, t)
-----------------------------------------------------------------------------
(* The types; every key lies in the shard that partition_fn gives it, so   *)
(* that what is stored under one number of shards is found under another.  *)
VarTypeOK ==
  /\ world \in Worlds /\ DOMAIN tables = Table
  /\ \A t \in Table : DOMAIN tables[t] = Shards(world)
  /\ \A t \in Table, s \in Shards(world) :
       \A k \in DOMAIN tables[t][s] : k \in Keys /\ Home(world, k) = s
  /\ \A t \in Trainers : call[t].pc \in {"idle", "looked", "update"}
                         /\ (call[t].pc # "idle" => call[t].k \in Keys)
  /\ DOMAIN cuts \subseteq Shards(world)
  /\ \A s \in DOMAIN cuts : cuts[s].keys \subseteq Keys /\ cuts[s].todo \subseteq Table

(* With bp_v2 of the variable no update is lost of a key that is there, in *)
(* the variable and in the slot, from its look-up on, whoever else trains  *)
(* or restricts.                                                           *)
UpdatesKept ==
  bp_v2 => \A k \in Keys : Has("var", k) => kept[k] \subseteq tables["var"][Home(world, k)][k]

(* A restriction that nobody trains beside leaves in every shard, in the   *)
(* variable, in the slots and in the status alike, as many keys as it may  *)
(* reserve there; and none that was trained less recently, or less often,  *)
(* than one that goes, unless two trained one key together.  A crash ends  *)
(* it half-way, and is excepted by the budget that it uses up.             *)
RestrictTrims ==
  [][\A s \in DOMAIN cuts : (s \notin DOMAIN cuts') /\ trim.aligned /\ trim.quiet /\ budget' = budget
       => LET kept_keys == DOMAIN tables'["var"][s] IN
          /\ DOMAIN tables'["slot"][s] = kept_keys /\ DOMAIN tables'["status"][s] = kept_keys
          /\ Cardinality(kept_keys) <= partial_reserved
          /\ cuts[s].keys # {} => Cardinality(kept_keys) = partial_reserved
          /\ ~ raced => \A k \in kept_keys, l \in cuts[s].keys : trim.merit[k] >= trim.merit[l]
     ]_varVars
=============================================================================
