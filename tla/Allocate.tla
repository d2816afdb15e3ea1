------------------------------ MODULE Allocate ------------------------------
(***************************************************************************)
(* The block allocator of make_ext4fs, ext4_utils/allocate.c: a bitmap, a  *)
(* free count and a first-free cursor per block group, first-fit           *)
(* allocation, the multi-group split of requests that fit nowhere, and the *)
(* return of the tail of the newest allocation.                            *)
(*                                                                         *)
(* A block group keeps its bitmap as the set of the offsets whose bit is   *)
(* set.  data_blocks_used is only ever compared with 0, so it is kept as   *)
(* the Boolean data_used.  Earlier allocations are remembered as one set   *)
(* of blocks; the newest keeps its list of regions, because only that one  *)
(* may still be extended or reduced.                                       *)
(***************************************************************************)
EXTENDS Integers, Sequences, FiniteSets

CONSTANTS
    Groups,               \* aux_info.groups
    BlocksPerGroup,       \* info.blocks_per_group
    FirstDataBlock,       \* aux_info.first_data_block
    LenBlocks,            \* aux_info.len_blocks
    InodeTableBlocks,     \* aux_info.inode_table_blocks
    BgDescBlocks,         \* aux_info.bg_desc_blocks
    BgDescReserveBlocks,  \* aux_info.bg_desc_reserve_blocks
    U32,                  \* the modulus of u32 arithmetic
    Lens                  \* the lengths callers ask for, in blocks

VARIABLES
    bgs,     \* aux_info.bgs, a record per block group
    alloc,   \* the regions of the newest allocation, in list order
    owned,   \* the blocks of all earlier allocations
    lost,    \* the blocks reserved by requests that then failed
    pc,      \* "idle", "partial" (in the multi-group loop) or "nospace"
    todo,    \* len in the multi-group loop: the blocks still to find
    lap,     \* parity of the loop's iterations that found no block
    want,    \* how many blocks the holder of alloc is entitled to
    fresh,   \* alloc was returned and not reduced since
    force    \* the -f option: error() reports and carries on

vars == <<bgs, alloc, owned, lost, pc, todo, lap, want, fresh, force>>

-----------------------------------------------------------------------------
(* Geometry                                                                *)

GroupIds == 0 .. (Groups - 1)
Offsets  == 0 .. (BlocksPerGroup - 1)

is_power_of(a, b) ==
    LET p[x \in 0..a] == IF x > b THEN x % b = 0 /\ p[x \div b] ELSE x = b
    IN  p[a]

\* sparse_super is always set by make_ext4fs
ext4_bg_has_super_block(i) ==
    i \in {0, 1} \/ \E b \in {3, 5, 7} : is_power_of(i, b)

header_blocks(i) ==
    2 + InodeTableBlocks + IF ext4_bg_has_super_block(i)
                           THEN 1 + BgDescBlocks + BgDescReserveBlocks ELSE 0

first_block(i) == FirstDataBlock + i * BlocksPerGroup

\* The blocks of group i that lie on the device, and those left for data.
GroupSize(i) ==
    IF first_block(i) + BlocksPerGroup <= LenBlocks
    THEN BlocksPerGroup ELSE LenBlocks - first_block(i)

DataBlocks ==
    UNION {(first_block(i) + header_blocks(i)) .. (first_block(i) + GroupSize(i) - 1)
             : i \in GroupIds}

ASSUME ConstantTypes ==
    /\ Groups \in Nat \ {0} /\ BlocksPerGroup \in Nat \ {0}
    /\ FirstDataBlock \in {0, 1} /\ LenBlocks \in Nat
    /\ InodeTableBlocks \in Nat /\ BgDescBlocks \in Nat /\ BgDescReserveBlocks \in Nat
    /\ Lens \subseteq Nat \ {0}

\* What ext4_create_fs_aux_info establishes for block sizes above 1024: only
\* the last group may be short, and it still holds its header.
ASSUME Geometry ==
    /\ LenBlocks <= FirstDataBlock + Groups * BlocksPerGroup
    /\ \A i \in GroupIds : header_blocks(i) <= GroupSize(i)
    /\ \A i \in GroupIds : i < Groups - 1 => /\ GroupSize(i) = BlocksPerGroup
                                             /\ header_blocks(i) + 1 < BlocksPerGroup

\* Block numbers, and the end of the last group, fit in a u32.
ASSUME FitsU32 == U32 \in Nat /\ FirstDataBlock + (Groups + 1) * BlocksPerGroup < U32

\* a - b in u32 arithmetic
U32Sub(a, b) == IF a >= b THEN a - b ELSE a - b + U32

-----------------------------------------------------------------------------
(* The bitmap of a block group                                             *)

\* The bits reserve_blocks sets: single bits up to a byte boundary, whole
\* bytes while they fit in num rounded down to 8, single bits for the rest.
HeadBits(start, num) ==
    LET toBoundary == (8 - (start % 8)) % 8
    IN  IF num < toBoundary THEN num ELSE toBoundary

\* MUTANT: one byte too many when only part of the last byte is asked for.
WholeBytes_RoundedUp(start, num) ==
    LET left == num - HeadBits(start, num)
    IN  (left + 7) \div 8

WholeBytes(start, num) ==
    LET left == num - (num % 8) - HeadBits(start, num)
    IN  IF left > 0 THEN left \div 8 ELSE 0

MarkedBits(start, num) ==
    LET bytes == start + HeadBits(start, num)
        tail  == bytes + 8 * WholeBytes(start, num)
        byte  == 8 * (bytes \div 8)
    IN  (start .. (bytes - 1))
        \cup (byte .. (byte + 8 * WholeBytes(start, num) - 1))
        \cup (tail .. (start + num - 1))

\* The group after the call; a request above the free count changes nothing.
\* The branch for a bit that is set already is left out: NoClash shows that
\* no state takes it.
reserve_blocks(bg, start, num) ==
    IF num > bg.free_blocks THEN bg
    ELSE [bg EXCEPT !.block_bitmap = @ \cup MarkedBits(start, num),
                    !.free_blocks = @ - num,
                    !.first_free_block = IF start = @ THEN start + num ELSE @]

free_blocks(bg, num) ==
    [bg EXCEPT !.block_bitmap =
                   @ \ ((bg.first_free_block - num) .. (bg.first_free_block - 1)),
               !.free_blocks = @ + num,
               !.first_free_block = @ - num]

\* MUTANT: the blocks past the end of the device stay free.
init_bg_NoOverrun(i) ==
    reserve_blocks([block_bitmap |-> {}, free_blocks |-> BlocksPerGroup,
                    first_free_block |-> 0, data_used |-> FALSE],
                   0, header_blocks(i))

init_bg(i) ==
    LET blank   == [block_bitmap |-> {}, free_blocks |-> BlocksPerGroup,
                    first_free_block |-> 0, data_used |-> FALSE]
        header  == reserve_blocks(blank, 0, header_blocks(i))
        overrun == U32Sub(first_block(i) + BlocksPerGroup, LenBlocks)
    IN  IF overrun > 0
        THEN reserve_blocks(header, BlocksPerGroup - overrun, overrun)
        ELSE header

-----------------------------------------------------------------------------
(* Regions                                                                 *)

RegionBlocks(r) == r.block .. (r.block + r.len - 1)
AllocBlocks == UNION {RegionBlocks(alloc[k]) : k \in DOMAIN alloc}

Fits(i, len) == len <= bgs[i].free_blocks

\* Group i is the one the scan from group 0 stops at.
FirstFit(i, len) == Fits(i, len) /\ \A j \in 0 .. (i - 1) : ~Fits(j, len)

\* MUTANT: takes any group with a free block for an empty one.
FirstEmpty_NotFull(i) ==
    bgs[i].free_blocks > 0 /\ \A j \in 0 .. (i - 1) : bgs[j].free_blocks = 0

FirstEmpty(i) == ~bgs[i].data_used /\ \A j \in 0 .. (i - 1) : bgs[j].data_used

\* The region that len blocks of group i would make.
NewRegion(i, len) ==
    [block |-> first_block(i) + bgs[i].first_free_block, len |-> len, bg |-> i]

\* The group after len blocks are taken at its cursor.
TakeAtCursor(bg, len) ==
    [reserve_blocks(bg, bg.first_free_block, len) EXCEPT !.data_used = @ \/ len > 0]

\* MUTANT: data_blocks_used is not counted.
ext4_allocate_blocks_from_block_group_NotCounted(i, len) ==
    bgs' = [bgs EXCEPT ![i] = reserve_blocks(@, @.first_free_block, len)]

ext4_allocate_blocks_from_block_group(i, len) ==
    bgs' = [bgs EXCEPT ![i] = TakeAtCursor(@, len)]

-----------------------------------------------------------------------------

Init ==
    /\ bgs = [i \in GroupIds |-> init_bg(i)]
    /\ alloc = <<>>
    /\ owned = {}
    /\ lost = {}
    /\ pc = "idle"
    /\ todo = 0
    /\ lap = 0
    /\ want = 0
    /\ fresh = FALSE
    /\ force \in BOOLEAN

\* A single block, not recorded in any list.
allocate_block(i) ==
    /\ pc = "idle"
    /\ FirstFit(i, 1)
    /\ ext4_allocate_blocks_from_block_group(i, 1)
    /\ owned' = owned \cup AllocBlocks \cup RegionBlocks(NewRegion(i, 1))
    /\ alloc' = <<>>
    /\ want' = 0
    /\ fresh' = FALSE
    /\ UNCHANGED <<lost, pc, todo, lap, force>>

\* allocate_blocks(len) when some group has len free blocks.
allocate_contiguous(i, len) ==
    /\ pc = "idle"
    /\ FirstFit(i, len)
    /\ ext4_allocate_blocks_from_block_group(i, len)
    /\ owned' = owned \cup AllocBlocks
    /\ alloc' = <<NewRegion(i, len)>>
    /\ want' = len
    /\ fresh' = TRUE
    /\ UNCHANGED <<lost, pc, todo, lap, force>>

\* allocate_blocks(len) when no group has: the multi-group loop starts.
allocate_multiple(len) ==
    /\ pc = "idle"
    /\ \A i \in GroupIds : ~Fits(i, len)
    /\ pc' = "partial"
    /\ owned' = owned \cup AllocBlocks
    /\ alloc' = <<>>
    /\ todo' = len
    /\ want' = len
    /\ fresh' = FALSE
    /\ UNCHANGED <<bgs, lost, lap, force>>

\* MUTANT: the new region is not linked behind the previous one.
partial_take_group_Unlinked(i) ==
    /\ pc = "partial"
    /\ FirstEmpty(i)
    /\ todo > bgs[i].free_blocks
    /\ ext4_allocate_blocks_from_block_group(i, bgs[i].free_blocks)
    /\ alloc' = <<NewRegion(i, bgs[i].free_blocks)>>
    /\ todo' = todo - bgs[i].free_blocks
    /\ UNCHANGED <<owned, lost, pc, lap, want, fresh, force>>

\* Loop: the rest does not fit in the first empty group, which is taken whole.
\* A group with no free block yields a region of length 0; the code adds one
\* such region per iteration, here they only show in lap.
partial_take_group(i) ==
    /\ pc = "partial"
    /\ FirstEmpty(i)
    /\ todo > bgs[i].free_blocks
    /\ ext4_allocate_blocks_from_block_group(i, bgs[i].free_blocks)
    /\ alloc' = IF bgs[i].free_blocks = 0 THEN alloc
                ELSE Append(alloc, NewRegion(i, bgs[i].free_blocks))
    /\ todo' = todo - bgs[i].free_blocks
    /\ lap' = IF bgs[i].free_blocks = 0 THEN 1 - lap ELSE lap
    /\ UNCHANGED <<owned, lost, pc, want, fresh, force>>

\* Loop: the rest would fit in the first empty group, and goes to the first
\* group it fits in.
partial_take_rest(i, j) ==
    /\ pc = "partial"
    /\ FirstEmpty(i)
    /\ Fits(i, todo)
    /\ FirstFit(j, todo)
    /\ ext4_allocate_blocks_from_block_group(j, todo)
    /\ alloc' = Append(alloc, NewRegion(j, todo))
    /\ todo' = 0
    /\ lap' = 0
    /\ pc' = "idle"
    /\ fresh' = TRUE
    /\ UNCHANGED <<owned, lost, want, force>>

\* Loop: no empty group is left.  The regions taken so far are dropped with
\* their bits set, and the caller reports "Failed to allocate".
partial_fail ==
    /\ pc = "partial"
    /\ \A i \in GroupIds : bgs[i].data_used
    /\ lost' = lost \cup AllocBlocks
    /\ alloc' = <<>>
    /\ todo' = 0
    /\ lap' = 0
    /\ want' = 0
    /\ pc' = IF force THEN "idle" ELSE "nospace"
    /\ UNCHANGED <<bgs, owned, fresh, force>>

\* MUTANT: frees in the group of the last region, shortens the first.
reduce_allocation_LastGroup ==
    /\ pc = "idle"
    /\ fresh
    /\ Len(alloc) <= 3
    /\ bgs' = [bgs EXCEPT ![alloc[Len(alloc)].bg] = free_blocks(@, 1)]
    /\ alloc' = IF alloc[1].len > 1 THEN [alloc EXCEPT ![1].len = @ - 1] ELSE <<>>
    /\ want' = want - 1
    /\ fresh' = FALSE
    /\ UNCHANGED <<owned, lost, pc, todo, lap, force>>

\* reduce_allocation(alloc, 1), called once and at once on an allocation of
\* at most three regions.  list.last is the first region: allocate_blocks
\* never moves it.  If that region has one block the whole list is dropped.
reduce_allocation ==
    /\ pc = "idle"
    /\ fresh
    /\ Len(alloc) <= 3
    /\ bgs' = [bgs EXCEPT ![alloc[1].bg] = free_blocks(@, 1)]
    /\ alloc' = IF alloc[1].len > 1 THEN [alloc EXCEPT ![1].len = @ - 1] ELSE <<>>
    /\ want' = want - 1
    /\ fresh' = FALSE
    /\ UNCHANGED <<owned, lost, pc, todo, lap, force>>

\* The process has exited.
Exited == pc = "nospace" /\ UNCHANGED vars

AllocateLoop ==
    \/ \E i \in GroupIds : partial_take_group(i)
    \/ \E i, j \in GroupIds : partial_take_rest(i, j)
    \/ partial_fail

Next ==
    \/ \E i \in GroupIds : allocate_block(i)
    \/ \E i \in GroupIds, len \in Lens : allocate_contiguous(i, len)
    \/ \E len \in Lens : allocate_multiple(len)
    \/ AllocateLoop
    \/ reduce_allocation
    \/ Exited

\* One thread runs the loop to its end.
Spec == Init /\ [][Next]_vars /\ WF_vars(AllocateLoop)

-----------------------------------------------------------------------------
(* Properties                                                              *)

Region == [block : Nat, len : Nat \ {0}, bg : GroupIds]

\* The variables keep their types: bits inside the bitmap, counts and the
\* cursor between 0 and the group's size (allocate.c:45-59).
TypeOK ==
    /\ bgs \in [GroupIds -> [block_bitmap : SUBSET Offsets,
                             free_blocks : 0 .. BlocksPerGroup,
                             first_free_block : 0 .. BlocksPerGroup,
                             data_used : BOOLEAN]]
    /\ alloc \in Seq(Region)
    /\ owned \subseteq 0 .. (LenBlocks - 1)
    /\ lost \subseteq 0 .. (LenBlocks - 1)
    /\ pc \in {"idle", "partial", "nospace"}
    /\ todo \in Nat
    /\ lap \in {0, 1}
    /\ want \in Nat
    /\ fresh \in BOOLEAN
    /\ force \in BOOLEAN

\* No reservation from the cursor can meet a bit that is set already: the
\* error "attempted to reserve already reserved block" (allocate.c:189) never
\* fires, whatever length up to the free count is asked for.
NoClash ==
    \A i \in GroupIds :
        LET bg == bgs[i]
        IN  \A len \in 1 .. bg.free_blocks :
                MarkedBits(bg.first_free_block, len) \cap bg.block_bitmap = {}

\* bg->free_blocks, which goes to the superblock and the group descriptors
\* (ext4_update_free), is the number of clear bits of the bitmap that goes to
\* the image: e2fsck compares the two.
FreeCountExact ==
    \A i \in GroupIds :
        bgs[i].free_blocks = Cardinality(Offsets \ bgs[i].block_bitmap)

\* The free blocks according to the bitmaps.
FreeBlocks ==
    UNION {{first_block(i) + b : b \in Offsets \ bgs[i].block_bitmap} : i \in GroupIds}

\* Each data block is free, in the newest allocation, in an earlier one or
\* lost, and in only one of them; the regions of an allocation do not overlap;
\* none of them covers metadata or lies past the end of the device.
BlocksAccounted ==
    /\ \A j, k \in DOMAIN alloc :
            j # k => RegionBlocks(alloc[j]) \cap RegionBlocks(alloc[k]) = {}
    /\ AllocBlocks \cap (owned \cup lost) = {}
    /\ owned \cap lost = {}
    /\ AllocBlocks \cup owned \cup lost \subseteq DataBlocks
    /\ FreeBlocks = DataBlocks \ (AllocBlocks \cup owned \cup lost)

\* The caller holds exactly the number of distinct blocks it asked for, less
\* the one it gave back; while the loop runs, the rest is still to come.
RequestSatisfied ==
    pc # "nospace" => Cardinality(AllocBlocks) + todo = want

\* Step 2 of the comment at allocate.c:439-446: a split request takes groups
\* that were completely empty, whole; only the last region may share a group.
SplitTakesWholeGroups ==
    fresh => \A k \in 1 .. (Len(alloc) - 1) :
                LET i == alloc[k].bg
                IN  RegionBlocks(alloc[k]) =
                    (first_block(i) + header_blocks(i)) .. (first_block(i) + GroupSize(i) - 1)

\* The allocator implements the block pool.
Pool == INSTANCE BlockPool WITH Blocks <- DataBlocks, free <- FreeBlocks,
                                newest <- AllocBlocks, kept <- owned, lost <- lost
ImplementsPool == Pool!Spec

\* A request that must be split is answered: allocate_blocks returns, with the
\* blocks or with NULL and "Failed to allocate %d blocks" (extent.c:84).
AllocationTerminates == (pc = "partial") ~> (pc # "partial")
==============================================================================
