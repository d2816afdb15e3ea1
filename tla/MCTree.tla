------------------------------- MODULE MCTree -------------------------------
(***************************************************************************)
(* An instance of Tree for TLC.  Directories of up to five files with      *)
(* every combination of names, which take entries of 12, 16, 20 or 24      *)
(* bytes in blocks of 44 that they can miss or meet exactly; all trees of  *)
(* up to four nodes; trees that need one inode more than there are.  Links *)
(* are counted modulo four, which a directory of two directories reaches.  *)
(* Five inodes are left beside the reserved ones, in two groups.           *)
(***************************************************************************)
EXTENDS Tree

MCNameLens == {3, 5, 12, 15}
MCReservedFiles == {3}

Node(kind, parent, name) == [kind |-> kind, parent |-> parent, name |-> name]

Root == Node("dir", 0, 3)

Flat(ns) == <<Root>> \o [k \in DOMAIN ns |-> Node("file", 1, ns[k])]

FlatTrees == {Flat(ns) : ns \in AnyNames}

\* Of n nodes below the root, each in one in front of it.
Trees(n) ==
    {t \in {<<Root>> \o [k \in 1 .. n |-> Node(kinds[k], parents[k], 5)] :
                kinds \in [1 .. n -> {"dir", "file", "link", "other"}],
                parents \in [1 .. n -> 1 .. n]} :
        \A k \in 2 .. (n + 1) : t[k].parent < k /\ t[t[k].parent].kind = "dir"}

\* One node more than inodes: in the first directory, and each in the one in front.
TooMany == {<<Root, Node("dir", 1, 3)>>
                \o [k \in 1 .. 5 |-> Node(kind, IF k = 5 THEN 2 ELSE 1, 3)] : kind \in {"file", "dir"}}
           \cup {<<Root>> \o [k \in 1 .. 6 |-> Node("dir", k, 3)]}

\* The order of the nodes is the alphabetical one.
WithKids(t) ==
    [n \in DOMAIN t |->
        [kind |-> t[n].kind, parent |-> t[n].parent, name |-> t[n].name,
         kids |-> SelectSeq([m \in DOMAIN t |-> m], LAMBDA m : t[m].parent = n)]]

MCSourceTrees ==
    {WithKids(t) : t \in FlatTrees \cup Trees(1) \cup Trees(2) \cup Trees(3) \cup TooMany}
==============================================================================
