------------------------------ MODULE MCHkvTable ------------------------------
(***************************************************************************)
(* A small instance of HkvTable: three keys, room for two, of which one    *)
(* alone may fill a bucket.                                                *)
(***************************************************************************)
EXTENDS HkvTable, TLC

CONSTANTS k1, k2, k3

MCSymmetry == Permutations({k1, k2, k3})
=============================================================================
