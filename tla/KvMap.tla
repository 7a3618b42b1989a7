-------------------------------- MODULE KvMap --------------------------------
(***************************************************************************)
(* What the concurrent table promises its callers: a finite map on which   *)
(* every find, insert, accumulate, erase, clear and dump takes effect at   *)
(* one instant between its call and its return, an insert that throws has  *)
(* no effect, and size() is only an estimate.  CuckooMap implements it.    *)
(***************************************************************************)
EXTENDS Integers

CONSTANTS
  Threads,     \* threads calling the table
  Keys,
  Values,
  Add(_, _),   \* operator+= of the mapped type
  Workload,    \* [Threads -> set of operations that thread calls]
  Missing,     \* "no value"
  NoOp         \* "no call in progress"

VARIABLES
  map,         \* [Keys -> Values, or Missing]
  op,          \* [Threads -> the call in progress, or NoOp]
  ans          \* [Threads -> the answer to the last call]

kvVars == <<map, op, ans>>

NoAnswer == [tag |-> "none", val |-> Missing]
Answer(tag, val) == [tag |-> tag, val |-> val]

Init ==
  /\ map = [k \in Keys |-> Missing]
  /\ op  = [t \in Threads |-> NoOp]
  /\ ans = [t \in Threads |-> NoAnswer]

Present(k) == map[k] # Missing

(* A call starts: nothing else changes until it takes effect.              *)
Invoke(t) ==
  /\ op[t] = NoOp
  /\ \E o \in Workload[t] : op' = [op EXCEPT ![t] = o]
  /\ ans' = [ans EXCEPT ![t] = NoAnswer]
  /\ UNCHANGED map

(* The call of t takes effect and answers.                                 *)
Respond(t, kinds, tag, val) ==
  /\ op[t] # NoOp
  /\ op[t].kind \in kinds
  /\ op'  = [op EXCEPT ![t] = NoOp]
  /\ ans' = [ans EXCEPT ![t] = Answer(tag, val)]

Find(t) ==
  /\ Respond(t, {"find"},
             IF Present(op[t].key) THEN "found" ELSE "absent", map[op[t].key])
  /\ UNCHANGED map

(* insert_or_assign.                                                       *)
Assign(t) ==
  /\ Respond(t, {"assign"},
             IF Present(op[t].key) THEN "duplicate" ELSE "new", Missing)
  /\ map' = [map EXCEPT ![op[t].key] = op[t].val]

(* insert_or_accum: the caller says whether it saw the key earlier; when   *)
(* that is no longer so the call is ignored.                               *)
Accum(t) ==
  LET k == op[t].key IN
  /\ Respond(t, {"accum"}, IF Present(k) THEN "duplicate" ELSE "new", Missing)
  /\ map' = IF Present(k) # op[t].exist THEN map
            ELSE [map EXCEPT ![k] = IF Present(k) THEN Add(@, op[t].val)
                                                  ELSE op[t].val]

(* An insert may fail with an exception, and then changes nothing.         *)
Throw(t) ==
  /\ Respond(t, {"assign", "accum"}, "throw", Missing)
  /\ UNCHANGED map

Erase(t) ==
  /\ Respond(t, {"erase"},
             IF Present(op[t].key) THEN "erased" ELSE "absent", Missing)
  /\ map' = [map EXCEPT ![op[t].key] = Missing]

Clear(t) ==
  /\ Respond(t, {"clear"}, "done", Missing)
  /\ map' = [k \in Keys |-> Missing]

(* lock_table: the whole table at one instant.                             *)
Dump(t) ==
  /\ Respond(t, {"dump"}, "table", map)
  /\ UNCHANGED map

(* An estimate, of which nothing is promised but that it is a number.      *)
Size(t) ==
  LET n == ans'[t].val IN
  /\ Respond(t, {"size"}, "size", n)
  /\ n \in Int
  /\ UNCHANGED map

Step(t) ==
  \/ Find(t) \/ Assign(t) \/ Accum(t) \/ Throw(t)
  \/ Erase(t) \/ Clear(t) \/ Dump(t) \/ Size(t)

Next == \E t \in Threads : Invoke(t) \/ Step(t)

Spec == Init /\ [][Next]_kvVars

(* The same map, whose calls all return.                                   *)
FairSpec == Spec /\ \A t \in Threads : WF_kvVars(Step(t))
=============================================================================
