----------------------------- MODULE MCRedisTable -----------------------------
(***************************************************************************)
(* A small instance of RedisTable: two keys, one in each of two buckets;   *)
(* two configurations.  A run either has three calls in one process, so    *)
(* that three threads compete for contexts, or two calls, a restart and a  *)
(* fault.                                                                  *)
(***************************************************************************)
EXTENDS RedisTable, TLC

CONSTANTS k1, k2, a1, a2, b1, b2, t1, t2, t3

MCHash    == k1 :> 0 @@ k2 :> 1
MCLayouts == {<<a1, a2>>, <<b1, b2>>}
MCBudgets ==
  {[kinds |-> {"accum"}, batches |-> {{k1, k2}}, calls |-> 3, starts |-> 1, faults |-> 0],
   [kinds |-> {"find"}, batches |-> {{k1, k2}, {k2}}, calls |-> 3, starts |-> 1, faults |-> 0],
   [kinds |-> {"find", "insert", "accum", "remove", "clear", "export"}, batches |-> {{k1, k2}},
    calls |-> 2, starts |-> 2, faults |-> 1]}
MCSymmetry == Permutations({t1, t2, t3})
=============================================================================
