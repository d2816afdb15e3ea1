----------------------------- MODULE MCIndirect -----------------------------
(***************************************************************************)
(* An instance of Extent and Indirect for TLC.  Extents: allocations of    *)
(* one to four regions, which the leaf holds, of five and of nine, which   *)
(* it does not and which are not refused, and of ten and eleven, which     *)
(* are; a last region in front of the others, as when the rest of a        *)
(* request goes to a group that is partly used, or behind them.  Indirect: *)
(* files that need none, one, two or three levels of pointers, of which    *)
(* two fit a block.                                                        *)
(***************************************************************************)
EXTENDS Indirect

Start(k, n, back) == IF k = n /\ back /\ n > 1 THEN 5 ELSE 20 * k

Layout(lens, back) ==
    [k \in DOMAIN lens |-> [block |-> Start(k, Len(lens), back), len |-> lens[k], bg |-> k]]

Lens(n) == {l \in [1 .. n -> 1 .. 3] : \A k \in 1 .. (n - 1) : l[k] > 1}

Short == {l \in UNION {Lens(n) : n \in 1 .. 4} : Len(l) > 1 \/ l[1] > 1}

MCLayouts == {Layout(l, back) : l \in Short, back \in BOOLEAN}
             \cup {Layout([k \in 1 .. n |-> 2], FALSE) : n \in {5, 9, 10, 11}}

MCTails == {0, 9}
MCFileBlocks == {1, 3, 4, 5, 6, 9, 10, 14, LargestFile}
MCCuts == {2, 4}
==============================================================================
