----------------------------- MODULE MCAllocate -----------------------------
(***************************************************************************)
(* Instances of Allocate for TLC.                                          *)
(***************************************************************************)
EXTENDS Allocate

\* Four groups: 0, 1 and 3 carry a superblock copy, 2 does not, 3 is short.
MCLens == {1, 12, 26, 40}
==============================================================================
