----------------------------- MODULE MCTableFiles -----------------------------
(***************************************************************************)
(* Small instances of TableFiles: keys and values are model values, which  *)
(* the model only compares.                                                *)
(***************************************************************************)
EXTENDS TableFiles

CONSTANTS k1, k2, v1, v2
=============================================================================
