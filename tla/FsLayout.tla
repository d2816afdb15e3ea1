------------------------------ MODULE FsLayout ------------------------------
(***************************************************************************)
(* Where the metadata lies: the parameters make_ext4fs computes from its   *)
(* options (ext4_utils.c, make_ext4fs.c), the bitmaps and inode tables of  *)
(* the groups (allocate.c), the copies of superblock and descriptors, and  *)
(* the resize inode with its map of the reserved blocks (indirect.c).      *)
(* The position of a structure is computed in several places; the blocks   *)
(* are never looked up again.  As with -J there is no journal, and without *)
(* -f an error ends the program.                                           *)
(***************************************************************************)
EXTENDS RegionList, FiniteSets

CONSTANTS
    Infos,  \* the options: [len, block_size, blocks_per_group, inodes, inode_size]
    U32     \* the modulus of u32 arithmetic

VARIABLES
    info, aux_info,
    bgs,       \* per group initialized: its first block and the bits set
    bg_desc,   \* per group described: the positions in its descriptor
    pieces,    \* queued: [block, size] and what it is
    tables,    \* the groups whose inode table is there
    alloc,     \* the allocation of the resize inode
    dind,      \* its doubly indirect block
    ind,       \* its indirect blocks: [position in the reserve -> block numbers]
    resize,    \* its i_blocks and i_size, in blocks, once set
    pc, i      \* the function, and its loop variable

vars == <<info, aux_info, bgs, bg_desc, pieces, tables, alloc, dind, ind, resize, pc, i>>

-----------------------------------------------------------------------------
(* The parameters                                                          *)

DIV_ROUND_UP(x, y) == (x + y - 1) \div y

GroupDesc == 32  \* sizeof(struct ext2_group_desc)

is_power_of(a, b) ==
    LET p[x \in 0 .. a] == IF x > b THEN x % b = 0 /\ p[x \div b] ELSE x = b
    IN  p[a]

ext4_bg_has_super_block(bg) ==
    bg \in {0, 1} \/ \E b \in {3, 5, 7} : is_power_of(bg, b)

compute_inodes_per_group ==
    LET blocks == DIV_ROUND_UP(info.len, info.block_size)
    IN  DIV_ROUND_UP(info.inodes, DIV_ROUND_UP(blocks, info.blocks_per_group))

AtMost(a, b) == IF a < b THEN a ELSE b

\* MUTANT: the reserve is forgotten.
super_blocks_NoReserve(aux) == 1 + aux.bg_desc_blocks

\* What the group descriptors and their reserve take behind a superblock copy.
super_blocks(aux) == 1 + aux.bg_desc_blocks + aux.bg_desc_reserve_blocks

\* The parameters before the last group is looked at.
FirstAuxInfo ==
    LET first  == IF info.block_size > 1024 THEN 0 ELSE 1
        len    == info.len \div info.block_size
        groups == DIV_ROUND_UP(len - first, info.blocks_per_group)
        desc   == DIV_ROUND_UP(groups * GroupDesc, info.block_size)
        grown  == DIV_ROUND_UP(groups * 1024 * GroupDesc, info.block_size) - desc
    IN  [first_data_block   |-> first,
         len_blocks         |-> len,
         groups             |-> groups,
         inode_table_blocks |-> DIV_ROUND_UP(compute_inodes_per_group * info.inode_size,
                                             info.block_size),
         bg_desc_blocks     |-> desc,
         bg_desc_reserve_blocks |-> AtMost(grown, info.block_size \div 4)]

\* MUTANT: a last group too small for its header is kept.
DropLastGroup_Never(aux) == aux

\* A last group that cannot hold its header is dropped.
DropLastGroup(aux) ==
    LET size   == aux.len_blocks % info.blocks_per_group
        header == 2 + aux.inode_table_blocks
                  + IF ext4_bg_has_super_block(aux.groups - 1) THEN super_blocks(aux) ELSE 0
    IN  IF size > 0 /\ size < header
        THEN [aux EXCEPT !.groups = @ - 1, !.len_blocks = @ - size]
        ELSE aux

-----------------------------------------------------------------------------

first_block(g) == aux_info.first_data_block + g * info.blocks_per_group

header_blocks(g) ==
    2 + aux_info.inode_table_blocks
      + IF ext4_bg_has_super_block(g) THEN super_blocks(aux_info) ELSE 0

Piece(what, block, blocks) == [what |-> what, block |-> block, size |-> blocks]

Init ==
    /\ info \in Infos
    /\ aux_info = <<>> /\ bgs = <<>> /\ bg_desc = <<>> /\ pieces = {} /\ tables = {}
    /\ alloc = create_allocation /\ dind = <<>> /\ ind = <<>>
    /\ resize = [i_blocks |-> 0, i_size |-> 0]
    /\ pc = "aux_info" /\ i = 0

\* The first superblock and the descriptors are written, not queued; they are
\* added here, where their places are known.  Without a group the first use of
\* group 0 is undefined.
ext4_create_fs_aux_info ==
    /\ pc = "aux_info"
    /\ aux_info' = DropLastGroup(FirstAuxInfo)
    /\ pieces' = {Piece("super", aux_info'.first_data_block, 1),
                  Piece("desc", aux_info'.first_data_block + 1, aux_info'.bg_desc_blocks)}
    /\ pc' = IF aux_info'.groups = 0 THEN "undefined" ELSE "init_bg"
    /\ UNCHANGED <<info, bgs, bg_desc, tables, alloc, dind, ind, resize, i>>

\* One group of a loop over all; then the next function begins.
Group(fn, next) ==
    /\ pc = fn
    /\ pc' = IF i + 1 = aux_info.groups THEN next ELSE fn
    /\ i' = IF i + 1 = aux_info.groups THEN 0 ELSE i + 1
    /\ UNCHANGED <<info, aux_info, resize>>

\* The bits set for the header, and for the blocks past the end: an unsigned
\* difference, and nothing if there are fewer free blocks.
init_bg ==
    LET bpg     == info.blocks_per_group
        block   == first_block(i) + IF ext4_bg_has_super_block(i) THEN super_blocks(aux_info) ELSE 0
        overrun == (first_block(i) + bpg - aux_info.len_blocks + U32) % U32
        header  == IF header_blocks(i) <= bpg THEN 0 .. (header_blocks(i) - 1) ELSE {}
        over    == IF overrun <= bpg - Cardinality(header) THEN (bpg - overrun) .. (bpg - 1) ELSE {}
    IN  /\ Group("init_bg", "fill_in_sb")
        /\ bgs' = [g \in DOMAIN bgs \cup {i} |->
                     IF g = i THEN [first_block |-> first_block(i), used |-> header \cup over]
                     ELSE bgs[g]]
        /\ pieces' = pieces \cup {Piece("bitmaps", block, 2)}
        /\ UNCHANGED <<bg_desc, tables, alloc, dind, ind>>

\* MUTANT: the positions without the reserved blocks.
ext4_fill_in_sb_NoReserve ==
    LET start  == first_block(i)
        header == IF ext4_bg_has_super_block(i) THEN 1 + aux_info.bg_desc_blocks ELSE 0
        copies == IF i # 0 /\ ext4_bg_has_super_block(i)
                  THEN {Piece("super", start, 1), Piece("desc", start + 1, aux_info.bg_desc_blocks)}
                  ELSE {}
    IN  /\ Group("fill_in_sb", "append")
        /\ pieces' = pieces \cup copies
        /\ bg_desc' = [g \in DOMAIN bg_desc \cup {i} |->
                         IF g = i THEN [bg_block_bitmap |-> start + header,
                                        bg_inode_bitmap |-> start + header + 1,
                                        bg_inode_table  |-> start + header + 2]
                         ELSE bg_desc[g]]
        /\ UNCHANGED <<bgs, tables, alloc, dind, ind>>

ext4_fill_in_sb ==
    LET start  == first_block(i)
        header == IF ext4_bg_has_super_block(i) THEN super_blocks(aux_info) ELSE 0
        copies == IF i # 0 /\ ext4_bg_has_super_block(i)
                  THEN {Piece("super", start, 1), Piece("desc", start + 1, aux_info.bg_desc_blocks)}
                  ELSE {}
    IN  /\ Group("fill_in_sb", "append")
        /\ pieces' = pieces \cup copies
        /\ bg_desc' = [g \in DOMAIN bg_desc \cup {i} |->
                         IF g = i THEN [bg_block_bitmap |-> start + header,
                                        bg_inode_bitmap |-> start + header + 1,
                                        bg_inode_table  |-> start + header + 2]
                         ELSE bg_desc[g]]
        /\ UNCHANGED <<bgs, tables, alloc, dind, ind>>

-----------------------------------------------------------------------------
(* The resize inode                                                        *)

\* The reserved blocks of a group with a superblock become a region.
append_reserved ==
    /\ Group("append", "oob")
    /\ alloc' = IF ext4_bg_has_super_block(i)
                THEN append_region(alloc, first_block(i) + 1 + aux_info.bg_desc_blocks,
                                   aux_info.bg_desc_reserve_blocks, i)
                ELSE alloc
    /\ UNCHANGED <<bgs, bg_desc, pieces, tables, dind, ind>>

Reserve == aux_info.bg_desc_reserve_blocks

PerInd == info.block_size \div 4  \* aux_info.blocks_per_ind

superblocks == Len(BlocksFrom(alloc, alloc.list.first)) \div Reserve

\* The clear bits of a group's bitmap.
FreeBits(g) == (0 .. (info.blocks_per_group - 1)) \ bgs[g].used

\* append_oob_allocation(alloc, 1): the first free block of the first group that
\* has one.  The doubly indirect block and all indirect ones are queued, the
\* latter as one piece behind the first reserved block.
append_oob_allocation ==
    LET full(g) == FreeBits(g) = {}
        oob(g)  == CHOOSE b \in FreeBits(g) : \A c \in FreeBits(g) : b <= c
    IN  /\ pc = "oob"
        /\ \E g \in DOMAIN bgs :
              /\ ~full(g) /\ \A h \in 0 .. (g - 1) : full(h)
              /\ LET mem == Append(alloc.mem, [block |-> first_block(g) + oob(g), len |-> 1,
                                               bg |-> g, next |-> NULL, prev |-> NULL])
                     new == region_list_append(mem, alloc.oob_list, Len(mem))
                 IN  alloc' = [alloc EXCEPT !.mem = new.mem, !.oob_list = new.list]
              /\ bgs' = [bgs EXCEPT ![g].used = @ \cup {oob(g)}]
        /\ pieces' = pieces \cup {Piece("dind", get_oob_block(alloc', 0), 1),
                                  Piece("ind", get_block(alloc, 0), Reserve)}
        /\ ind' = [r \in 0 .. (Reserve - 1) |-> <<>>]
        /\ pc' = "attach"
        /\ UNCHANGED <<info, aux_info, bg_desc, tables, dind, resize, i>>

\* MUTANT: the reserve as if it began with the first entry.
ReservePosition_FromZero(n) == n % Reserve

\* (i - bg_desc_blocks) % bg_desc_reserve_blocks, both unsigned: the test for a
\* negative remainder that follows in the code never holds.
ReservePosition(n) == ((n - aux_info.bg_desc_blocks + U32) % U32) % Reserve

\* One turn of the loop in inode_attach_resize.
inode_attach_resize ==
    LET r == ReservePosition(i) IN
    /\ pc = "attach"
    /\ dind' = Append(dind, get_block(alloc, r))
    /\ ind' = [ind EXCEPT ![r] = [j \in 1 .. (superblocks - 1) |->
                                    get_block(alloc, j * Reserve + r)]]
    /\ i < Reserve
    /\ i' = i + 1
    /\ pc' = pc
    /\ UNCHANGED <<info, aux_info, bgs, bg_desc, pieces, tables, alloc, resize>>

\* MUTANT: the doubly indirect block is not counted.
finish_resize_NoDind ==
    /\ pc = "attach" /\ i = Reserve
    /\ resize' = [i_blocks |-> superblocks * Reserve,
                  i_size |-> 12 + PerInd * Reserve + superblocks - 2]
    /\ pc' = "inodes"
    /\ UNCHANGED <<info, aux_info, bgs, bg_desc, pieces, tables, alloc, dind, ind, i>>

\* The end of inode_attach_resize.  i_blocks, which the code keeps in sectors, is in
\* blocks here.
finish_resize ==
    /\ pc = "attach" /\ i = Reserve
    /\ resize' = [i_blocks |-> superblocks * Reserve + 1,
                  i_size |-> 12 + PerInd * Reserve + superblocks - 2]
    /\ pc' = "inodes"
    /\ UNCHANGED <<info, aux_info, bgs, bg_desc, pieces, tables, alloc, dind, ind, i>>

\* get_inode queues the inode table of a group that had none.
allocate_bg_inode_table(g) ==
    LET block == first_block(g) + 2 + IF ext4_bg_has_super_block(g) THEN super_blocks(aux_info) ELSE 0
    IN  /\ pc = "inodes"
        /\ g \notin tables
        /\ tables' = tables \cup {g}
        /\ pieces' = pieces \cup {Piece("inodes", block, aux_info.inode_table_blocks)}
        /\ UNCHANGED <<info, aux_info, bgs, bg_desc, alloc, dind, ind, resize, pc, i>>

\* No group has a free block.  None has data either, so the allocator takes the
\* first one, of which it can have no block, for ever (see AllocationEnds in
\* Allocate); append_oob_allocation never learns of it.
no_oob_block ==
    /\ pc = "oob"
    /\ \A g \in DOMAIN bgs : FreeBits(g) = {}
    /\ pc' = "hangs"
    /\ UNCHANGED <<info, aux_info, bgs, bg_desc, pieces, tables, alloc, dind, ind, resize, i>>

Next ==
    \/ ext4_create_fs_aux_info
    \/ init_bg
    \/ ext4_fill_in_sb
    \/ append_reserved
    \/ append_oob_allocation
    \/ no_oob_block
    \/ inode_attach_resize
    \/ finish_resize
    \/ \E g \in DOMAIN bgs : allocate_bg_inode_table(g)

Spec == Init /\ [][Next]_vars

-----------------------------------------------------------------------------
(* Properties                                                              *)

Laid == pc \notin {"aux_info", "init_bg", "fill_in_sb"}

GroupBlocks(g) == first_block(g) .. (first_block(g) + info.blocks_per_group - 1)

Device == 0 .. (aux_info.len_blocks - 1)

\* With blocks of 1K the size of the last group is computed as if the first data
\* block were 0, one block too many (ext4_utils.c:137): a full last group counts as
\* one block, and a group one block too small for its header as large enough.
LastGroupMisjudged ==
    /\ info.block_size = 1024
    /\ FirstAuxInfo.len_blocks % info.blocks_per_group
           \in {1, header_blocks(FirstAuxInfo.groups - 1)}

\* The device is too short for the header of its only group, which is then dropped
\* like any other last group: there is none left (ext4_utils.c:142-145).
TooShort ==
    FirstAuxInfo.len_blocks < FirstAuxInfo.first_data_block + header_blocks(0)

\* What the block allocator relies on (Allocate!Geometry): the groups reach to the
\* end of the device, only the last may be short, and it holds its header.
GeometryHolds ==
    pc # "aux_info" /\ ~LastGroupMisjudged /\ ~TooShort =>
        /\ aux_info.groups > 0
        /\ \A g \in 0 .. (aux_info.groups - 2) : GroupBlocks(g) \subseteq Device
        /\ first_block(aux_info.groups - 1) + header_blocks(aux_info.groups - 1)
               <= aux_info.len_blocks
        /\ aux_info.len_blocks <= first_block(aux_info.groups)

PieceBlocks(p) == p.block .. (p.block + p.size - 1)

\* No two structures of the metadata share a block, all lie on the device, and each
\* on blocks the bitmap of its group has as used.
MetadataApart ==
    pc # "aux_info" /\ ~LastGroupMisjudged /\ ~TooShort =>
    /\ \A p, q \in pieces : p # q => PieceBlocks(p) \cap PieceBlocks(q) = {}
    /\ Laid =>
         \A p \in pieces : \A b \in PieceBlocks(p) :
             /\ b \in Device
             /\ b >= aux_info.first_data_block /\ \E g \in DOMAIN bgs : b - first_block(g) \in bgs[g].used

\* The descriptors say where the bitmaps and the inode tables are: three places
\* compute it (ext4_utils.c:236-238, allocate.c:268-271, allocate.c:149-152).
DescriptorsPoint ==
    Laid =>
        /\ {[b |-> bg_desc[g].bg_block_bitmap, i |-> bg_desc[g].bg_inode_bitmap] : g \in DOMAIN bgs}
               = {[b |-> p.block, i |-> p.block + 1] : p \in {q \in pieces : q.what = "bitmaps"}}
        /\ {bg_desc[g].bg_inode_table : g \in tables}
               = {p.block : p \in {q \in pieces : q.what = "inodes"}}
        /\ \A g \in DOMAIN bgs :
               bg_desc[g].bg_inode_table + aux_info.inode_table_blocks = first_block(g) + header_blocks(g)

\* The reserved blocks of a group with a superblock.
ReservedBlock(g, r) == first_block(g) + 1 + aux_info.bg_desc_blocks + r

Copies == {g \in DOMAIN bgs : ext4_bg_has_super_block(g)}

ReservedBlocks == {ReservedBlock(g, r) : g \in Copies, r \in 0 .. (Reserve - 1)}

\* From entry bg_desc_blocks on, the doubly indirect block lists the reserved blocks of
\* group 0 in order, and each of these lists the blocks at the same place in the
\* other groups with a superblock, in ascending order.  In the end the inode is
\* charged for all of them and the doubly indirect block (indirect.c:452-469).
ResizeInOrder ==
    /\ pc = "inodes" =>
        resize.i_blocks = Cardinality(ReservedBlocks \cup {get_oob_block(alloc, 0)})
    /\ pc \in {"attach", "inodes"} =>
        /\ \A n \in DOMAIN dind : n > aux_info.bg_desc_blocks =>
               dind[n] = ReservedBlock(0, n - 1 - aux_info.bg_desc_blocks)
        /\ \A r \in DOMAIN ind : ind[r] # <<>> =>
               /\ Len(ind[r]) = Cardinality(Copies) - 1
               /\ \A j \in DOMAIN ind[r] : \E g \in Copies :
                     /\ Cardinality({h \in Copies : h < g}) = j
                     /\ ind[r][j] = ReservedBlock(g, r)

\* The correction "if (r < 0) r += aux_info.bg_desc_reserve_blocks" (indirect.c:454)
\* lets the entries in front continue behind the last one: every reserved block is
\* in the map.
ResizeMapsReserve ==
    pc = "inodes" => {dind[n] : n \in DOMAIN dind} = {ReservedBlock(0, r) : r \in 0 .. (Reserve - 1)}

==============================================================================
