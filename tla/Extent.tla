------------------------------- MODULE Extent -------------------------------
(***************************************************************************)
(* The map of a file's blocks, ext4_utils/extent.c: the allocation of one  *)
(* block more than the data needs, the decision whether that block holds   *)
(* the extents or goes back, the extents, and the queueing of the data,    *)
(* region by region.                                                       *)
(*                                                                         *)
(* The regions come from the block allocator (Allocate); here they are any *)
(* that keep its promises, LayoutsAreAllocations.                          *)
(***************************************************************************)
EXTENDS RegionList, FiniteSets

CONSTANTS
    BlockSize,   \* info.block_size
    EntryBytes,  \* sizeof(struct ext4_extent), also of ext4_extent_header
    SectorSize,  \* 512
    Layouts,     \* the sequences of regions allocate_blocks may return
    Tails        \* by how much a file may be shorter than its blocks

VARIABLES
    alloc,         \* the allocation
    regions,       \* the regions it started with
    len, backing,  \* the request: bytes, and "data", "file" or "none"
    inode,         \* its extent header, i_blocks and, at depth 1, the index
    leaf,          \* the header of the leaf block
    extents,       \* the extents written so far
    pieces,        \* queued with a block number, in this order
    left,          \* backing_len
    pc

vars == <<alloc, regions, len, backing, inode, leaf, extents, pieces, left, pc>>

Blocks(seq) == UNION {seq[k].block .. (seq[k].block + seq[k].len - 1) : k \in DOMAIN seq}

SumLen(seq) ==
    LET s[k \in 0 .. Len(seq)] == IF k = 0 THEN 0 ELSE s[k - 1] + seq[k].len
    IN  s[Len(seq)]

\* What Allocate promises: distinct blocks, and of a request that is split all
\* regions but the last fill a group (SplitTakesWholeGroups), which has more than
\* one block for data (Geometry).
ASSUME LayoutsAreAllocations ==
    \A l \in Layouts :
        /\ l \in Seq([block : Nat, len : Nat, bg : Nat])
        /\ Len(l) > 0 /\ SumLen(l) > 1
        /\ Cardinality(Blocks(l)) = SumLen(l)
        /\ \A k \in DOMAIN l : l[k].len > (IF k < Len(l) THEN 1 ELSE 0)

ASSUME Sizes ==
    /\ BlockSize \in Nat \ {0} /\ EntryBytes \in 1 .. BlockSize
    /\ SectorSize \in Nat \ {0} /\ BlockSize % SectorSize = 0
    /\ Tails \subseteq 0 .. (BlockSize - 1)

block_len == (len + BlockSize - 1) \div BlockSize  \* DIV_ROUND_UP

NoHeader == [entries |-> 0, max |-> 0]

Init ==
    /\ alloc = create_allocation /\ regions = <<>> /\ len = 0 /\ backing = "none"
    /\ inode = [header |-> NoHeader, depth |-> 0, index |-> 0, i_blocks |-> 0]
    /\ leaf = NoHeader /\ extents = <<>> /\ pieces = <<>> /\ left = 0
    /\ pc = "idle"

\* A caller asks for tail bytes less than the regions hold beside one block.
allocate(layout, tail, b) ==
    /\ pc = "idle"
    /\ alloc' = allocate_blocks(layout)
    /\ regions' = layout
    /\ len' = (SumLen(layout) - 1) * BlockSize - tail
    /\ backing' = b
    /\ left' = IF b = "none" THEN 0 ELSE len'
    /\ pc' = "header"
    /\ UNCHANGED <<inode, leaf, extents, pieces>>

\* "Failed to allocate": the inode stays as it is.
allocate_fails ==
    /\ pc = "idle"
    /\ pc' = "failed"
    /\ UNCHANGED <<alloc, regions, len, backing, inode, leaf, extents, pieces, left>>

\* Up to three extents fit the inode: the additional block goes back.
use_inode ==
    LET n == block_allocation_num_regions(alloc) IN
    /\ pc = "header" /\ n <= 3
    /\ alloc' = reduce_allocation(alloc)
    /\ inode' = [inode EXCEPT !.header = [entries |-> n, max |-> 3]]
    /\ pc' = "fill"
    /\ UNCHANGED <<regions, len, backing, leaf, extents, pieces, left>>

\* For more the first block of the allocation becomes the leaf.  It is queued
\* before the number of extents is looked at; sizeof divides before it is
\* subtracted, so the limit is nearly the block size, many times what fits.
TooMany(n) == BlockSize - (EntryBytes \div EntryBytes) < n

use_leaf ==
    LET n     == block_allocation_num_regions(alloc)
        after == reserve_oob_blocks(alloc, 1).alloc
        block == get_oob_block(after, 0)
    IN  /\ pc = "header" /\ n > 3
        /\ alloc' = after
        /\ inode' = [inode EXCEPT !.header = [entries |-> 1, max |-> 3],
                                  !.depth = 1, !.index = block]
        /\ pieces' = Append(pieces, [block |-> block, size |-> BlockSize, of |-> "leaf", at |-> 0])
        /\ leaf' = IF TooMany(n) THEN leaf
                   ELSE [entries |-> n, max |-> (BlockSize - EntryBytes) \div EntryBytes]
        /\ pc' = IF TooMany(n) THEN "failed" ELSE "fill"
        /\ UNCHANGED <<regions, len, backing, extents, left>>

file_block == SumLen(extents)

\* No extent fits behind those in the block of the leaf.
LeafFull == inode.depth = 1 /\ Len(extents) = leaf.max

fill_extent ==
    LET r == get_region(alloc) IN
    /\ pc = "fill" /\ ~last_region(alloc) /\ ~LeafFull
    /\ extents' = Append(extents, [file_block |-> file_block, len |-> r.len, block |-> r.block])
    /\ alloc' = get_next_region(alloc)
    /\ UNCHANGED <<regions, len, backing, inode, leaf, pieces, left, pc>>

\* The loop goes on behind the block, up to the limit of TooMany: what else this
\* overwrites is undefined, and of such a file nothing more is said.
overrun_leaf ==
    LET r == get_region(alloc) IN
    /\ pc = "fill" /\ ~last_region(alloc) /\ LeafFull
    /\ extents' = Append(extents, [file_block |-> file_block, len |-> r.len, block |-> r.block])
    /\ pc' = "overrun"
    /\ UNCHANGED <<alloc, regions, len, backing, inode, leaf, pieces, left>>

\* MUTANT: the iterator stays at the end for the caller.
finish_inode_NoRewind ==
    /\ pc = "fill" /\ last_region(alloc)
    /\ inode' = [inode EXCEPT !.i_blocks = ((block_len + inode.depth) * BlockSize) \div SectorSize]
    /\ alloc' = [alloc EXCEPT !.list.iter = @]
    /\ pc' = "backing"
    /\ UNCHANGED <<regions, len, backing, leaf, extents, pieces, left>>

finish_inode ==
    /\ pc = "fill" /\ last_region(alloc)
    /\ inode' = [inode EXCEPT !.i_blocks = ((block_len + inode.depth) * BlockSize) \div SectorSize]
    /\ alloc' = rewind_alloc(alloc)
    /\ pc' = "backing"
    /\ UNCHANGED <<regions, len, backing, leaf, extents, pieces, left>>

AtMost(a, b) == IF a < b THEN a ELSE b  \* min

\* MUTANT: the offset in the file stays where it was.
create_backing_OffsetKept ==
    /\ pc = "backing" /\ left > 0 /\ ~last_region(alloc)
    /\ LET r == get_region(alloc)
           n == AtMost(r.len * BlockSize, left)
       IN  /\ pieces' = Append(pieces, [block |-> r.block, size |-> n, of |-> backing,
                                        at |-> 0])
           /\ left' = left - n
    /\ alloc' = get_next_region(alloc)
    /\ UNCHANGED <<regions, len, backing, inode, leaf, extents, pc>>

\* One turn of extent_create_backing or extent_create_backing_file; without a
\* region left the program would read through NULL.
create_backing ==
    /\ pc = "backing" /\ left > 0 /\ ~last_region(alloc)
    /\ LET r == get_region(alloc)
           n == AtMost(r.len * BlockSize, left)
       IN  /\ pieces' = Append(pieces, [block |-> r.block, size |-> n, of |-> backing,
                                        at |-> len - left])
           /\ left' = left - n
    /\ alloc' = get_next_region(alloc)
    /\ UNCHANGED <<regions, len, backing, inode, leaf, extents, pc>>

\* free_alloc walks both lists.
free_alloc ==
    /\ pc = "backing" /\ left = 0
    /\ pc' = "done"
    /\ UNCHANGED <<alloc, regions, len, backing, inode, leaf, extents, pieces, left>>

Next ==
    \/ \E layout \in Layouts, tail \in Tails, b \in {"data", "file", "none"} :
          allocate(layout, tail, b)
    \/ allocate_fails
    \/ use_inode
    \/ use_leaf
    \/ fill_extent
    \/ overrun_leaf
    \/ finish_inode
    \/ create_backing
    \/ free_alloc

Spec == Init /\ [][Next]_vars

-----------------------------------------------------------------------------
(* Properties                                                              *)

\* The block reduce_allocation gives back: free_blocks clears the last one that was
\* taken in the group of the first region.
Returned ==
    IF inode.header.entries = 0 \/ inode.depth = 1 THEN {}
    ELSE {regions[1].block + regions[1].len - 1}

SetOf(s) == {s[k] : k \in DOMAIN s}

\* The lists lose no block and hold none twice, whatever is split off, moved or
\* given back, although prev and last are not kept (allocate.c:544-576).
ListsKeepBlocks ==
    LET data == BlocksFrom(alloc, alloc.list.first)
        oob  == BlocksFrom(alloc, alloc.oob_list.first)
    IN  /\ Len(data) + Len(oob) + Cardinality(Returned) = SumLen(regions)
        /\ SetOf(data) \cup SetOf(oob) \cup Returned = Blocks(regions)

\* The block of the device that byte at of the file is on, by the extents.
Mapped(at) ==
    LET b == at \div BlockSize
        e == CHOOSE x \in SetOf(extents) : b \in x.file_block .. (x.file_block + x.len - 1)
    IN  e.block + (b - e.file_block)

\* The inode maps each block of the file to a block of the allocation, no two to
\* one, none to the leaf or to the block given back; the header counts the
\* extents that are there, and i_blocks the blocks that are used
\* (extent.c:100, 137, 147-162).  Files whose extents overrun the leaf get no map.
MapExact ==
    pc \in {"backing", "done"} =>
        /\ SumLen(extents) = block_len
        /\ \A k \in DOMAIN extents : extents[k].file_block = SumLen(SubSeq(extents, 1, k - 1))
        /\ Cardinality(Blocks(extents)) = block_len
        /\ Blocks(extents) = Blocks(regions) \ (Returned \cup {inode.index : d \in 1 .. inode.depth})
        /\ Len(extents) = IF inode.depth = 1 THEN leaf.entries ELSE inode.header.entries
        /\ inode.i_blocks * SectorSize = Cardinality(Blocks(extents) \cup {inode.index : d \in 1 .. inode.depth})
                                           * BlockSize

\* The leaf is queued before the data.
DataPieces == SubSeq(pieces, inode.depth + 1, Len(pieces))

\* The data is queued where the map says: the pieces continue each other from byte
\* 0 to the last one, and each lies on the blocks its bytes are mapped to.  The loop
\* runs out of bytes before it runs out of regions, so that get_region never reads
\* through a NULL iterator (extent.c:37-76).
DataFollowsMap ==
    /\ pc = "backing" /\ left > 0 => ~last_region(alloc)
    /\ pc = "done" /\ backing # "none" =>
        LET d == DataPieces IN
        /\ d # <<>> /\ d[1].at = 0 /\ d[Len(d)].at + d[Len(d)].size = len
        /\ \A k \in 1 .. (Len(d) - 1) : d[k + 1].at = d[k].at + d[k].size
        /\ \A k \in DOMAIN d : \A at \in d[k].at .. (d[k].at + d[k].size - 1) :
               Mapped(at) = d[k].block + (at - d[k].at) \div BlockSize
==============================================================================
