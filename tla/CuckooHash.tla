------------------------------ MODULE CuckooHash ------------------------------
(***************************************************************************)
(* The hash arithmetic of cuckoohash_map.hh, for hashes below 2^31 and     *)
(* tables of at most 2^16 buckets (the bounds within which no product      *)
(* below leaves TLC's integers).                                           *)
(***************************************************************************)
EXTENDS Integers, Bitwise

hashsize(hp) == 2 ^ hp

(* The hash folded onto itself, down to eight bits.                        *)
partial_key(hash) ==
  LET half == (hash % 65536) ^^ (hash \div 65536)
  IN (half % 256) ^^ (half \div 256)

index_hash(hp, hash) == hash % hashsize(hp)

(* 59797 is the low half-word of 0xc6a4a7935bd1e995: the product is taken  *)
(* modulo 2^hp, with hp <= 16.                                             *)
alt_index(hp, partial, index) ==
  (index ^^ (((partial + 1) * 59797) % 65536)) % hashsize(hp)
=============================================================================
