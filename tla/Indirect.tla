------------------------------ MODULE Indirect ------------------------------
(***************************************************************************)
(* The other map of a file's blocks, ext4_utils/indirect.c: some pointers  *)
(* in the inode, then blocks of pointers, blocks of those, and of those.   *)
(* The pointer blocks are reserved out of the allocation, each in front of *)
(* the blocks it maps; then the inode is attached.  Of this the program    *)
(* itself uses the data of long symbolic links (contents.c:218).           *)
(*                                                                         *)
(* An inode has one map or the other, so the module adds its operations to *)
(* those of Extent.  An error ends the program (force is not set).         *)
(***************************************************************************)
EXTENDS Extent

CONSTANTS
    EXT4_NDIR_BLOCKS,  \* pointers in the inode
    blocks_per_ind,    \* pointers in a block
    FileBlocks,        \* how many blocks files may have
    FirstBlock, Cuts   \* where allocations start, and where some are in two parts

VARIABLES
    i_block,  \* the pointers of the inode
    tables,   \* the pointer blocks queued, in this order
    todo      \* pointer blocks still to be reserved or attached

indirectVars == <<i_block, tables, todo>>
allVars == <<vars, indirectVars>>

Ceil(n, d) == (n + d - 1) \div d  \* DIV_ROUND_UP

\* ext4_utils.c:120-122
blocks_per_dind == blocks_per_ind * blocks_per_ind
blocks_per_tind == blocks_per_dind * blocks_per_dind

\* The blocks that a pointer block of each level maps.
Per == <<blocks_per_ind, blocks_per_dind, blocks_per_tind>>

\* The most blocks indirect_blocks_needed accepts; it stops the program beyond.
LargestFile == EXT4_NDIR_BLOCKS + blocks_per_ind + blocks_per_dind + blocks_per_tind

ASSUME PointerSizes ==
    /\ EXT4_NDIR_BLOCKS \in Nat \ {0} /\ blocks_per_ind \in Nat \ {0}
    /\ FirstBlock \in Nat /\ Cuts \subseteq Nat \ {0}
    /\ FileBlocks \subseteq 1 .. LargestFile /\ BlockSize <= LargestFile

NoPointers == [direct |-> <<>>, outer |-> <<NULL, NULL, NULL>>]

IndirectInit == Init /\ i_block = NoPointers /\ tables = <<>> /\ todo = <<>>

-----------------------------------------------------------------------------
(* The allocation                                                          *)

\* MUTANT: the doubly indirect blocks are counted for all blocks.
indirect_blocks_needed_AllDouble(n) ==
    LET rest == n - EXT4_NDIR_BLOCKS IN
    IF rest <= 0 THEN 0
    ELSE Ceil(rest, blocks_per_ind) + Ceil(rest, blocks_per_dind)
         + (IF rest <= blocks_per_ind + blocks_per_dind THEN 0
            ELSE Ceil(rest - blocks_per_ind - blocks_per_dind, blocks_per_tind))

indirect_blocks_needed(n) ==
    LET rest == n - EXT4_NDIR_BLOCKS IN
    IF rest <= 0 THEN 0
    ELSE Ceil(rest, blocks_per_ind)
         + (IF rest <= blocks_per_ind THEN 0
            ELSE Ceil(rest - blocks_per_ind, blocks_per_dind))
         + (IF rest <= blocks_per_ind + blocks_per_dind THEN 0
            ELSE Ceil(rest - blocks_per_ind - blocks_per_dind, blocks_per_tind))

\* The allocations of n blocks: one region, or two.
AllocationsOf(n) ==
    {<<[block |-> FirstBlock, len |-> n, bg |-> 0]>>}
    \cup {<<[block |-> FirstBlock, len |-> c, bg |-> 0],
            [block |-> FirstBlock + n + 1, len |-> n - c, bg |-> 1]>> : c \in {d \in Cuts : d < n}}

\* do_inode_allocate_indirect(n); the file has size bytes.
TakeBlocks(n, size) ==
    \E layout \in AllocationsOf(n + indirect_blocks_needed(n)) :
        /\ alloc' = allocate_blocks(layout)
        /\ regions' = layout
        /\ len' = size

\* inode_allocate_indirect for a file of n blocks, the last one not full by tail.
allocate_indirect(n, tail) ==
    /\ pc = "idle"
    /\ TakeBlocks(n, n * BlockSize - tail)
    /\ pc' = "reserve"
    /\ UNCHANGED <<backing, inode, leaf, extents, pieces, left, indirectVars>>

\* make_link with a long target: the block size is passed as a number of blocks.
allocate_data_indirect ==
    /\ pc = "idle"
    /\ TakeBlocks(BlockSize, BlockSize)
    /\ backing' = "data"
    /\ left' = len'
    /\ pc' = "link_backing"
    /\ UNCHANGED <<inode, leaf, extents, pieces, indirectVars>>

\* One turn of the loop of create_backing.
link_backing ==
    /\ pc = "link_backing" /\ left > 0 /\ ~last_region(alloc)
    /\ LET r == get_region(alloc)
           n == AtMost(r.len * BlockSize, left)
       IN  /\ pieces' = Append(pieces, [block |-> r.block, size |-> n, of |-> "data", at |-> len - left])
           /\ left' = left - n
    /\ alloc' = get_next_region(alloc)
    /\ UNCHANGED <<regions, len, backing, inode, leaf, extents, pc, indirectVars>>

\* The allocation is freed; make_link sets i_blocks.
link_done ==
    /\ pc = "link_backing" /\ left = 0
    /\ inode' = [inode EXCEPT !.i_blocks = BlockSize \div SectorSize]
    /\ pc' = "ind_done"
    /\ UNCHANGED <<alloc, regions, len, backing, leaf, extents, pieces, left, indirectVars>>

-----------------------------------------------------------------------------
(* Pointer blocks, reserved and attached                                   *)

\* The calls that wait: todo is a stack of [level, n, parent], a pointer block of
\* a level for n blocks, to be put into the table parent or, for 0, into the
\* inode; at level 0 the blocks are only passed.
Call(level, n, parent) == [level |-> level, n |-> n, parent |-> parent]

\* The pointer blocks of a level that n blocks take.
Parts(level, n, parent) ==
    [k \in 1 .. Ceil(n, Per[level]) |->
        Call(level, AtMost(Per[level], n - (k - 1) * Per[level]), parent)]

\* The pointer blocks of the inode for a file of n blocks.
Tops(n) ==
    LET rest == n - EXT4_NDIR_BLOCKS
        Top(level, more) == IF more > 0 THEN <<Call(level, AtMost(Per[level], more), 0)>>
                            ELSE <<>>
    IN  Top(1, rest) \o Top(2, rest - Per[1]) \o Top(3, rest - Per[1] - Per[2])

\* reserve_all_indirect_blocks starts behind the blocks of the inode.
reserve ==
    /\ pc = "reserve"
    /\ alloc' = IF block_len <= EXT4_NDIR_BLOCKS THEN alloc
                ELSE advance_blocks(alloc, EXT4_NDIR_BLOCKS).alloc
    /\ todo' = Tops(block_len)
    /\ pc' = "reserving"
    /\ UNCHANGED <<regions, len, backing, inode, leaf, extents, pieces, left, i_block, tables>>

\* reserve_indirect_block, reserve_dindirect_block, reserve_tindirect_block
reserve_block ==
    LET t     == Head(todo)
        taken == reserve_oob_blocks(alloc, 1)
        moved == IF t.level > 1 THEN taken ELSE advance_blocks(taken.alloc, t.n)
    IN  /\ pc = "reserving" /\ todo # <<>>
        /\ alloc' = moved.alloc
        /\ todo' = (IF t.level > 1 THEN Parts(t.level - 1, t.n, 0) ELSE <<>>) \o Tail(todo)
        /\ pc' = IF taken.failed \/ moved.failed THEN "failed" ELSE pc
        /\ UNCHANGED <<regions, len, backing, inode, leaf, extents, pieces, left, i_block, tables>>

reserve_done ==
    /\ pc = "reserving" /\ todo = <<>>
    /\ alloc' = rewind_alloc(alloc)
    /\ pc' = "attach"
    /\ UNCHANGED <<regions, len, backing, inode, leaf, extents, pieces, left, indirectVars>>

\* Two levels and three pass their blocks a second time when they are filled.
AttachCalls(n) ==
    LET tops == Tops(n)
        f[k \in 0 .. Len(tops)] ==
            IF k = 0 THEN <<>>
            ELSE LET t == tops[k] IN
                 f[k - 1] \o (IF t.level = 1 THEN <<t>> ELSE <<t, Call(0, t.n, 0)>>)
    IN  f[Len(tops)]

\* MUTANT: the first pointer is left out.
attach_direct_OffByOne ==
    LET n     == AtMost(block_len, EXT4_NDIR_BLOCKS)
        moved == advance_blocks(alloc, n)
    IN  /\ pc = "attach"
        /\ i_block' = [i_block EXCEPT !.direct = [k \in 1 .. n |-> get_block(alloc, k)]]
        /\ alloc' = moved.alloc
        /\ todo' = AttachCalls(block_len)
        /\ pc' = IF moved.failed THEN "failed" ELSE "attaching"
        /\ UNCHANGED <<regions, len, backing, inode, leaf, extents, pieces, left, tables>>

attach_direct ==
    LET n     == AtMost(block_len, EXT4_NDIR_BLOCKS)
        moved == advance_blocks(alloc, n)
    IN  /\ pc = "attach"
        /\ i_block' = [i_block EXCEPT !.direct = [k \in 1 .. n |-> get_block(alloc, k - 1)]]
        /\ alloc' = moved.alloc
        /\ todo' = AttachCalls(block_len)
        /\ pc' = IF moved.failed THEN "failed" ELSE "attaching"
        /\ UNCHANGED <<regions, len, backing, inode, leaf, extents, pieces, left, tables>>

\* inode_attach_indirect_blocks and the others, and the fill functions they call:
\* the next out-of-band block becomes a pointer block, queued before it is filled;
\* it goes into its parent, and the innermost ones get the data blocks.
attach_block ==
    LET t     == Head(todo)
        block == get_oob_block(alloc, 0)
        next  == advance_oob_blocks(alloc, 1)
        moved == IF t.level > 1 THEN next ELSE advance_blocks(next.alloc, t.n)
        table == [block |-> block, level |-> t.level,
                  map   |-> IF t.level > 1 THEN <<>> ELSE [k \in 1 .. t.n |-> get_block(alloc, k - 1)]]
    IN  /\ pc = "attaching" /\ todo # <<>> /\ t.level > 0
        /\ alloc' = moved.alloc
        /\ tables' = Append([p \in DOMAIN tables |->
                               IF p = t.parent THEN [tables[p] EXCEPT !.map = Append(@, block)] ELSE tables[p]],
                            table)
        /\ i_block' = IF t.parent = 0 THEN [i_block EXCEPT !.outer[t.level] = block] ELSE i_block
        /\ todo' = (IF t.level > 1 THEN Parts(t.level - 1, t.n, Len(tables')) ELSE <<>>) \o Tail(todo)
        /\ pc' = IF next.failed \/ moved.failed THEN "failed" ELSE pc
        /\ UNCHANGED <<regions, len, backing, inode, leaf, extents, pieces, left>>

pass_again ==
    LET moved == advance_blocks(alloc, Head(todo).n) IN
    /\ pc = "attaching" /\ todo # <<>> /\ Head(todo).level = 0
    /\ alloc' = moved.alloc
    /\ todo' = Tail(todo)
    /\ pc' = IF moved.failed THEN "failed" ELSE pc
    /\ UNCHANGED <<regions, len, backing, inode, leaf, extents, pieces, left, i_block, tables>>

finish_indirect ==
    /\ pc = "attaching" /\ todo = <<>>
    /\ alloc' = rewind_alloc(alloc)
    /\ inode' = [inode EXCEPT !.i_blocks = ((block_len + indirect_blocks_needed(block_len)) * BlockSize)
                                           \div SectorSize]
    /\ pc' = "ind_done"
    /\ UNCHANGED <<regions, len, backing, leaf, extents, pieces, left, indirectVars>>

IndirectNext ==
    \/ Next /\ UNCHANGED indirectVars
    \/ \E n \in FileBlocks, tail \in Tails : allocate_indirect(n, tail)
    \/ allocate_data_indirect
    \/ link_backing
    \/ link_done
    \/ reserve
    \/ reserve_block
    \/ reserve_done
    \/ attach_direct
    \/ attach_block
    \/ pass_again
    \/ finish_indirect

IndirectSpec == IndirectInit /\ [][IndirectNext]_allVars

-----------------------------------------------------------------------------
(* Properties                                                              *)

DataBlocks == BlocksFrom(alloc, alloc.list.first)

\* In an allocation of one region the reservation puts every pointer block right in
\* front of the first block it is needed for, no block more or less than
\* indirect_blocks_needed asked for (indirect.c:55-101, 277-305 against 307-338).
PointersPrecedeData ==
    pc = "attach" /\ Len(regions) = 1 =>
        /\ Len(DataBlocks) = block_len
        /\ \A k \in 1 .. block_len :
              DataBlocks[k] = FirstBlock + k - 1 + indirect_blocks_needed(k)
        /\ Len(BlocksFrom(alloc, alloc.oob_list.first)) = indirect_blocks_needed(block_len)

\* The lists lose no block, for extents and for pointers.  Only when pointer blocks
\* are reserved across the border of two regions they do: advance_list_ptr and the
\* prev pointers that a split leaves behind then unlink the wrong region
\* (allocate.c:545, 611).
BlocksKept ==
    \/ inode.header.entries = 0 /\ pc # "header" /\ Len(regions) > 1
    \/ ListsKeepBlocks

\* What an inode maps is what was allocated for it: the extents are exact, and a file
\* that fits the inode's own pointers has its blocks there, in order
\* (extent.c:80-165, indirect.c:165-181).
MapsExact ==
    /\ MapExact
    /\ pc = "ind_done" /\ backing = "none" /\ block_len <= EXT4_NDIR_BLOCKS =>
          i_block = [NoPointers EXCEPT !.direct = DataBlocks]

\* The blocks an inode maps: its pointers and those of the innermost pointer blocks.
MappedBlocks == SetOf(i_block.direct)
                \cup UNION {SetOf(t.map) : t \in {u \in SetOf(tables) : u.level = 1}}

\* When an operation that promises to connect blocks to the inode is done, the inode
\* maps the data that was queued, and as many blocks as the bytes need
\* (indirect.c:398, 480).
ConnectsToInode ==
    pc = "ind_done" =>
        /\ {pieces[k].block : k \in DOMAIN pieces} \subseteq MappedBlocks
        /\ Cardinality(MappedBlocks) >= block_len
==============================================================================
