----------------------------- MODULE MCDirectory -----------------------------
(***************************************************************************)
(* An instance of Directory for TLC: up to five entries of 12, 16, 20 or   *)
(* 24 bytes in blocks of 44, which the entries can miss or meet exactly.   *)
(***************************************************************************)
EXTENDS Directory

MCNameLens == {3, 5, 12, 15}
==============================================================================
