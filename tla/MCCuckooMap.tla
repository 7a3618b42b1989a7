----------------------------- MODULE MCCuckooMap -----------------------------
(***************************************************************************)
(* Small instances of CuckooMap.  A key is written by the bucket its hash  *)
(* starts from and the tag that leads to its other bucket.                 *)
(***************************************************************************)
EXTENDS CuckooMap, Bitwise, TLC

CONSTANTS t1, t2, t3

Hash == INSTANCE CuckooHash

MCHashSize == [hp \in 0 .. MaxHashpower |-> Hash!hashsize(hp)]
MCIndexHash(hp, h) == Hash!index_hash(hp, h)
MCAltIndex(hp, h, i) == Hash!alt_index(hp, Hash!partial_key(h), i)
(* HashAssumption for every partial key, in tables of up to 16 buckets.    *)
ASSUME HashArithmetic ==
  \A p \in 0 .. 255, hp \in 0 .. 4 : \A i \in 0 .. Hash!hashsize(hp) - 1 :
    /\ Hash!alt_index(hp, p, Hash!alt_index(hp, p, i)) = i
    /\ \A j \in {i, i + Hash!hashsize(hp)} :
         Hash!alt_index(hp + 1, p, j) \in
           {Hash!alt_index(hp, p, i), Hash!alt_index(hp, p, i) + Hash!hashsize(hp)}

MCAdd(v, d) == (v + d) % 3

(* The hash whose low byte is i and whose partial key is tag - 1.          *)
HashWith(i, tag) == 256 * ((tag - 1) ^^ i) + i

(* The hash of a key with buckets i and i XOR c, in a table of at most 8.  *)
HashTo(i, c) == HashWith(i, IF c = 0 THEN 8 ELSE (5 * c) % 8)

(* A chain: key 3 fits in bucket 3 or 2, key 2 in 3 or 1, key 1 in 1 or 0, *)
(* and key 4 only in 2.                                                    *)
ChainHash == <<HashTo(1, 1), HashTo(3, 2), HashTo(3, 1), HashTo(2, 0)>>

assign(k, v) == [kind |-> "assign", key |-> k, val |-> v, exist |-> FALSE]
accum(k, d, e) == [kind |-> "accum", key |-> k, val |-> d, exist |-> e]
find(k)  == [kind |-> "find", key |-> k, val |-> 0, exist |-> FALSE]
erase(k) == [kind |-> "erase", key |-> k, val |-> 0, exist |-> FALSE]
whole(kind) == [kind |-> kind]

(* Two keys whose two buckets are the only two of a small table, and one   *)
(* that stays with them when the table doubles.                            *)
PairHash == <<HashTo(0, 3), HashTo(1, 1), HashTo(2, 1)>>
GrowWorkload ==
  (t1 :> {assign(1, 1), assign(2, 1), assign(3, 1), accum(1, 1, TRUE)})
  @@ (t2 :> {assign(3, 2), erase(1), find(2), accum(2, 1, FALSE), whole("dump")})

(* Key 2 only fits in bucket 0, and pushes key 1 from there to bucket 1.   *)
UpHash == <<HashTo(0, 1), HashTo(0, 0), HashTo(2, 1)>>
SizeWorkload ==
  (t1 :> {assign(1, 1), assign(2, 1), erase(1)}) @@ (t2 :> {whole("size")})

(* Two slots a bucket: keys 1, 2 and 4 only fit in bucket 0 of two, where  *)
(* key 3 makes room by moving to bucket 1; the third of them doubles the   *)
(* table, and key 4 moves to the first slot of bucket 2.                   *)
SlotsHash == <<HashTo(0, 0), HashTo(4, 0), HashTo(0, 1), HashTo(2, 0)>>
SlotsWorkload ==
  (t1 :> {assign(1, 1), assign(3, 1), assign(4, 1)})
  @@ (t2 :> {assign(2, 1), accum(3, 1, TRUE), whole("clear"), whole("size")})

ChainWorkload ==
  (t1 :> {assign(1, 1), assign(2, 1), assign(3, 1)})
  @@ (t2 :> {assign(4, 1), assign(3, 2), erase(4), erase(2)})
=============================================================================
