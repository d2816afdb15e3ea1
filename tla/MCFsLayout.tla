----------------------------- MODULE MCFsLayout -----------------------------
(***************************************************************************)
(* An instance of FsLayout for TLC, with the block sizes make_ext4fs knows *)
(* and groups as small as their headers allow: one to three full groups    *)
(* and a last one of any kind, from none to nearly full; and a single      *)
(* group that is not full, from one block up, and about as long as its     *)
(* header, which has 39 or 47, 21 or 25, and 12 or 14 blocks.              *)
(***************************************************************************)
EXTENDS FsLayout

GroupBlocksFor(bs) == CASE bs = 1024 -> 144 [] bs = 2048 -> 80 [] bs = 4096 -> 48

\* One group that is all header.
NoRoom == [len |-> 12 * 4096, block_size |-> 4096, blocks_per_group |-> 12,
           inodes |-> 16, inode_size |-> 256]

MCInfos ==
    UNION {LET bpg == GroupBlocksFor(bs) IN
           {[len |-> (g * bpg + c) * bs + rest, block_size |-> bs, blocks_per_group |-> bpg,
             inodes |-> 16 * n, inode_size |-> 256] :
                g \in 1 .. 3, c \in {0, 1, 2, 4, 6, 9, 40, bpg - 1}, rest \in {0, 700},
                n \in {1, 3}}
           : bs \in {1024, 2048, 4096}}
    \cup UNION {LET bpg == GroupBlocksFor(bs) IN
           {[len |-> c * bs + rest, block_size |-> bs, blocks_per_group |-> bpg,
             inodes |-> 16 * n, inode_size |-> 256] :
                c \in {2, 11, 12, 13, 14, 20, 21, 24, 25, 38, 39, 40, 41, 47, 48, 49} \cap 2 .. bpg,
                rest \in {0, 700}, n \in {1, 3}}
           : bs \in {1024, 2048, 4096}}
    \cup {NoRoom}
==============================================================================
