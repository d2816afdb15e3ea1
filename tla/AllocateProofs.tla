--------------------------- MODULE AllocateProofs ---------------------------
(***************************************************************************)
(* Proofs about Allocate, for every file system geometry that satisfies    *)
(* its assumptions and every set of request lengths.                       *)
(***************************************************************************)
EXTENDS Allocate, FiniteSetTheorems, TLAPS

-----------------------------------------------------------------------------
(* Geometry                                                                *)

GroupRecord == [block_bitmap : SUBSET Offsets, free_blocks : 0 .. BlocksPerGroup,
                first_free_block : 0 .. BlocksPerGroup, data_used : BOOLEAN]

\* The sizes of a group are naturals, and its blocks lie on the device.
LEMMA GroupFacts ==
    ASSUME NEW i \in GroupIds
    PROVE  /\ header_blocks(i) \in Nat \ {0}
           /\ first_block(i) \in Nat
           /\ GroupSize(i) \in Nat
           /\ header_blocks(i) <= GroupSize(i)
           /\ GroupSize(i) <= BlocksPerGroup
           /\ first_block(i) + GroupSize(i) <= LenBlocks
           /\ i < Groups - 1 => /\ GroupSize(i) = BlocksPerGroup
                                /\ header_blocks(i) + 1 < BlocksPerGroup
<1>1. i \in Nat
  BY ConstantTypes DEF GroupIds
<1>2. i * BlocksPerGroup \in Nat
  BY <1>1, ConstantTypes
<1>3. first_block(i) \in Nat
  BY <1>2, ConstantTypes DEF first_block
<1>4. header_blocks(i) \in Nat \ {0}
  <2>1. CASE ext4_bg_has_super_block(i)
    BY <2>1, ConstantTypes DEF header_blocks
  <2>2. CASE ~ext4_bg_has_super_block(i)
    BY <2>2, ConstantTypes DEF header_blocks
  <2> QED BY <2>1, <2>2
<1>5. /\ header_blocks(i) <= GroupSize(i)
      /\ i < Groups - 1 => /\ GroupSize(i) = BlocksPerGroup
                           /\ header_blocks(i) + 1 < BlocksPerGroup
  BY Geometry
<1>6. CASE first_block(i) + BlocksPerGroup <= LenBlocks
  BY <1>3, <1>4, <1>5, <1>6, ConstantTypes DEF GroupSize
<1>7. CASE ~(first_block(i) + BlocksPerGroup <= LenBlocks)
  BY <1>3, <1>4, <1>5, <1>7, ConstantTypes DEF GroupSize
<1> QED BY <1>6, <1>7

\* Block groups do not overlap.
LEMMA GroupsDisjoint ==
    ASSUME NEW i \in GroupIds, NEW j \in GroupIds, i < j
    PROVE  first_block(i) + BlocksPerGroup <= first_block(j)
<1>1. i \in Nat /\ j \in Nat /\ j - i - 1 \in Nat
  BY ConstantTypes DEF GroupIds
<1>2. BlocksPerGroup \in Nat
  BY ConstantTypes
<1>3. \A m, n \in Nat : m * n \in Nat
  OBVIOUS
<1>4. (j - i - 1) * BlocksPerGroup \in Nat
  BY <1>1, <1>2, <1>3
<1>5. j * BlocksPerGroup = i * BlocksPerGroup + BlocksPerGroup + (j - i - 1) * BlocksPerGroup
  BY <1>1, <1>2
<1> QED BY <1>1, <1>2, <1>4, <1>5, ConstantTypes DEF first_block

\* The end of any block group, on the device or not, is below the u32 modulus.
LEMMA GroupEndFits ==
    ASSUME NEW i \in GroupIds
    PROVE  first_block(i) + BlocksPerGroup < U32 /\ U32 \in Nat
<1>1. i \in Nat /\ Groups - i \in Nat
  BY ConstantTypes DEF GroupIds
<1>2. BlocksPerGroup \in Nat /\ Groups \in Nat
  BY ConstantTypes
<1>3. \A m, n \in Nat : m * n \in Nat
  OBVIOUS
<1>4. (Groups - i) * BlocksPerGroup \in Nat
  BY <1>1, <1>2, <1>3
<1>5. (Groups + 1) * BlocksPerGroup = i * BlocksPerGroup + BlocksPerGroup + (Groups - i) * BlocksPerGroup
  BY <1>1, <1>2
<1> QED BY <1>1, <1>2, <1>4, <1>5, ConstantTypes, FitsU32 DEF first_block

-----------------------------------------------------------------------------
(* The bitmap                                                              *)

\* The three loops of reserve_blocks set the bits of the range and no others.
LEMMA MarkedBitsIsRange ==
    ASSUME NEW start \in Nat, NEW num \in Nat
    PROVE  MarkedBits(start, num) = start .. (start + num - 1)
<1> DEFINE toBoundary == (8 - (start % 8)) % 8
           head == HeadBits(start, num)
           whole == WholeBytes(start, num)
           bytes == start + head
           tail == bytes + 8 * whole
           byte == 8 * (bytes \div 8)
<1>1. toBoundary \in 0..7 /\ (start + toBoundary) % 8 = 0
  OBVIOUS
<1>2. head = IF num < toBoundary THEN num ELSE toBoundary
  BY DEF HeadBits
<1>3. head \in 0 .. num /\ head <= 7
  BY <1>1, <1>2
<1>4. whole = IF num - (num % 8) - head > 0 THEN (num - (num % 8) - head) \div 8 ELSE 0
  BY DEF WholeBytes
<1>5. whole \in Nat /\ head + 8 * whole <= num
  BY <1>3, <1>4
<1>6. whole > 0 => byte = bytes
  BY <1>1, <1>2, <1>3, <1>4
<1>7. byte \in Nat
  BY <1>3
<1>8. MarkedBits(start, num) = (start .. (bytes - 1)) \cup (byte .. (byte + 8 * whole - 1))
                                \cup (tail .. (start + num - 1))
  BY DEF MarkedBits
<1> QED
  <2> HIDE DEF head, whole
  <2>1. CASE whole = 0
    BY <1>3, <1>5, <1>7, <1>8, <2>1
  <2>2. CASE whole > 0
    <3>1. byte = bytes
      BY <1>6, <2>2
    <3> HIDE DEF byte
    <3> QED BY <1>3, <1>5, <1>8, <2>2, <3>1
  <2> QED BY <1>5, <2>1, <2>2

-----------------------------------------------------------------------------
(* A well-shaped block group (ShapedGroup): the set bits are a prefix, the header and the
   blocks handed out so far, and the blocks past the end of the device.       *)

LEMMA GroupRecordIntro ==
    ASSUME NEW bits \in SUBSET Offsets, NEW free \in 0 .. BlocksPerGroup,
           NEW cursor \in 0 .. BlocksPerGroup, NEW used \in BOOLEAN
    PROVE  [block_bitmap |-> bits, free_blocks |-> free, first_free_block |-> cursor,
            data_used |-> used] \in GroupRecord
BY DEF GroupRecord

ShapedGroup(i, g) ==
    /\ g \in GroupRecord
    /\ header_blocks(i) <= g.first_free_block
    /\ \/ g.first_free_block + g.free_blocks = GroupSize(i)
       \/ /\ g.free_blocks = 0
          /\ g.first_free_block = BlocksPerGroup
          /\ header_blocks(i) = GroupSize(i)
    /\ g.block_bitmap = (0 .. (g.first_free_block - 1))
                        \cup (GroupSize(i) .. (BlocksPerGroup - 1))
    /\ ~g.data_used => g.free_blocks = GroupSize(i) - header_blocks(i)

\* reserve_blocks, with its bitmap written as a range.
LEMMA ReserveEffect ==
    ASSUME NEW g \in GroupRecord, NEW start \in Nat, NEW num \in Nat, num <= g.free_blocks
    PROVE  reserve_blocks(g, start, num) =
               [block_bitmap |-> g.block_bitmap \cup (start .. (start + num - 1)),
                free_blocks |-> g.free_blocks - num,
                first_free_block |-> IF start = g.first_free_block
                                     THEN start + num ELSE g.first_free_block,
                data_used |-> g.data_used]
<1>1. MarkedBits(start, num) = start .. (start + num - 1)
  BY MarkedBitsIsRange
<1>2. ~(num > g.free_blocks)
  BY ConstantTypes DEF GroupRecord
<1> QED BY <1>1, <1>2 DEF reserve_blocks, GroupRecord

\* init_bg leaves a well-shaped group, whether or not the group is cut short.
LEMMA InitShape ==
    ASSUME NEW i \in GroupIds
    PROVE  ShapedGroup(i, init_bg(i)) /\ ~init_bg(i).data_used
<1> DEFINE blank   == [block_bitmap |-> {}, free_blocks |-> BlocksPerGroup,
                       first_free_block |-> 0, data_used |-> FALSE]
           header  == reserve_blocks(blank, 0, header_blocks(i))
           overrun == U32Sub(first_block(i) + BlocksPerGroup, LenBlocks)
<1>1. blank \in GroupRecord
  BY ConstantTypes DEF GroupRecord, Offsets
<1>2. header = [block_bitmap |-> 0 .. (header_blocks(i) - 1),
                free_blocks |-> BlocksPerGroup - header_blocks(i),
                first_free_block |-> header_blocks(i), data_used |-> FALSE]
  <2>1. header_blocks(i) <= blank.free_blocks /\ header_blocks(i) \in Nat
    BY GroupFacts, ConstantTypes
  <2>2. /\ blank.block_bitmap = {} /\ blank.free_blocks = BlocksPerGroup
        /\ blank.first_free_block = 0 /\ blank.data_used = FALSE
    OBVIOUS
  <2> HIDE DEF blank
  <2>3. header = [block_bitmap |-> blank.block_bitmap \cup (0 .. (0 + header_blocks(i) - 1)),
                  free_blocks |-> blank.free_blocks - header_blocks(i),
                  first_free_block |-> IF 0 = blank.first_free_block
                                       THEN 0 + header_blocks(i) ELSE blank.first_free_block,
                  data_used |-> blank.data_used]
    BY <1>1, <2>1, ReserveEffect
  <2>4. {} \cup (0 .. (0 + header_blocks(i) - 1)) = 0 .. (header_blocks(i) - 1)
    BY <2>1
  <2> QED BY <2>1, <2>2, <2>3, <2>4
<1>3. header \in GroupRecord
  <2>1. 0 .. (header_blocks(i) - 1) \in SUBSET Offsets
    BY GroupFacts, ConstantTypes DEF Offsets
  <2>2. /\ BlocksPerGroup - header_blocks(i) \in 0 .. BlocksPerGroup
        /\ header_blocks(i) \in 0 .. BlocksPerGroup
    BY GroupFacts, ConstantTypes
  <2> HIDE DEF header
  <2> QED BY <1>2, <2>1, <2>2 DEF GroupRecord
<1>4. init_bg(i) = IF overrun > 0
                   THEN reserve_blocks(header, BlocksPerGroup - overrun, overrun) ELSE header
  BY DEF init_bg
<1> HIDE DEF blank, header, overrun
<1>5. CASE first_block(i) + BlocksPerGroup < LenBlocks
  <2>1. overrun = first_block(i) + BlocksPerGroup - LenBlocks + U32 /\ overrun \in Int
    BY <1>5, GroupFacts, GroupEndFits, ConstantTypes DEF U32Sub, overrun
  <2>2. overrun > header.free_blocks
    <3>1. LenBlocks < U32
      BY GroupEndFits, FitsU32, Geometry, ConstantTypes
    <3> QED BY <2>1, <3>1, <1>2, GroupFacts, GroupEndFits, ConstantTypes
  <2>3. init_bg(i) = header
    BY <1>4, <2>2 DEF reserve_blocks
  <2>4. GroupSize(i) = BlocksPerGroup
    BY <1>5, GroupFacts, ConstantTypes DEF GroupSize
  <2> QED BY <1>2, <1>3, <2>3, <2>4, GroupFacts, ConstantTypes DEF ShapedGroup
<1>6. CASE first_block(i) + BlocksPerGroup = LenBlocks
  <2>1. overrun = 0
    BY <1>6, GroupFacts, ConstantTypes DEF U32Sub, overrun
  <2>2. init_bg(i) = header
    BY <1>4, <2>1
  <2>3. GroupSize(i) = BlocksPerGroup
    BY <1>6, GroupFacts, ConstantTypes DEF GroupSize
  <2> QED BY <1>2, <1>3, <2>2, <2>3, GroupFacts, ConstantTypes DEF ShapedGroup
<1>7. CASE first_block(i) + BlocksPerGroup > LenBlocks
  <2>1. GroupSize(i) = LenBlocks - first_block(i)
    BY <1>7, GroupFacts, ConstantTypes DEF GroupSize
  <2>2. overrun = BlocksPerGroup - GroupSize(i) /\ overrun > 0
    BY <1>7, <2>1, GroupFacts, ConstantTypes DEF U32Sub, overrun
  <2>3. overrun <= header.free_blocks /\ overrun \in Nat /\ BlocksPerGroup - overrun \in Nat
    BY <1>2, <2>2, GroupFacts, ConstantTypes
  <2>4. init_bg(i) = [block_bitmap |-> (0 .. (header_blocks(i) - 1))
                                        \cup (GroupSize(i) .. (BlocksPerGroup - 1)),
                      free_blocks |-> GroupSize(i) - header_blocks(i),
                      first_free_block |-> IF GroupSize(i) = header_blocks(i)
                                           THEN BlocksPerGroup ELSE header_blocks(i),
                      data_used |-> FALSE]
    <3>1. init_bg(i) = reserve_blocks(header, BlocksPerGroup - overrun, overrun)
      BY <1>4, <2>2
    <3>2. init_bg(i) = [block_bitmap |-> header.block_bitmap \cup
                              ((BlocksPerGroup - overrun) .. (BlocksPerGroup - overrun + overrun - 1)),
                        free_blocks |-> header.free_blocks - overrun,
                        first_free_block |-> IF BlocksPerGroup - overrun = header.first_free_block
                                             THEN BlocksPerGroup - overrun + overrun
                                             ELSE header.first_free_block,
                        data_used |-> header.data_used]
      BY <3>1, <1>3, <2>3, ReserveEffect
    <3>3. BlocksPerGroup - overrun = GroupSize(i)
      BY <2>2, GroupFacts, ConstantTypes
    <3>4. BlocksPerGroup - overrun + overrun = BlocksPerGroup
      BY <2>2, GroupFacts, ConstantTypes
    <3>5. header.free_blocks - overrun = GroupSize(i) - header_blocks(i)
      BY <1>2, <2>2, GroupFacts, ConstantTypes
    <3>6. /\ header.block_bitmap = 0 .. (header_blocks(i) - 1)
          /\ header.first_free_block = header_blocks(i)
          /\ header.data_used = FALSE
      BY <1>2
    <3>7. (BlocksPerGroup - overrun) .. (BlocksPerGroup - overrun + overrun - 1)
             = GroupSize(i) .. (BlocksPerGroup - 1)
      BY <2>2, <2>3, GroupFacts, ConstantTypes
    <3>8. (IF BlocksPerGroup - overrun = header.first_free_block
           THEN BlocksPerGroup - overrun + overrun ELSE header.first_free_block)
             = IF GroupSize(i) = header_blocks(i) THEN BlocksPerGroup ELSE header_blocks(i)
      BY <3>3, <3>4, <3>6
    <3> QED BY <3>2, <3>5, <3>6, <3>7, <3>8, Zenon
  <2>5. init_bg(i) \in GroupRecord
    BY <2>4, GroupFacts, ConstantTypes DEF GroupRecord, Offsets
  <2>6. CASE GroupSize(i) = header_blocks(i)
    BY <2>4, <2>5, <2>6, GroupFacts, ConstantTypes DEF ShapedGroup
  <2>7. CASE GroupSize(i) # header_blocks(i)
    BY <2>4, <2>5, <2>7, GroupFacts, ConstantTypes DEF ShapedGroup
  <2> QED BY <2>6, <2>7
<1> QED BY <1>5, <1>6, <1>7, GroupFacts, ConstantTypes

-----------------------------------------------------------------------------
(* The free blocks of well-shaped groups                                   *)

Shaped(b) == b \in [GroupIds -> GroupRecord] /\ \A i \in GroupIds : ShapedGroup(i, b[i])

FreeIn(b) ==
    UNION {{first_block(i) + o : o \in Offsets \ b[i].block_bitmap} : i \in GroupIds}

\* The blocks of a group from its cursor to its end on the device.
FreeTail(i, g) == (first_block(i) + g.first_free_block) .. (first_block(i) + GroupSize(i) - 1)

LEMMA GroupFree ==
    ASSUME NEW i \in GroupIds, NEW g, ShapedGroup(i, g)
    PROVE  {first_block(i) + o : o \in Offsets \ g.block_bitmap} = FreeTail(i, g)
<1>1. /\ g.first_free_block \in Nat
      /\ g.free_blocks = 0 \/ g.first_free_block + g.free_blocks = GroupSize(i)
      /\ g.free_blocks \in Nat
      /\ g.free_blocks = 0 => g.first_free_block >= GroupSize(i)
  BY GroupFacts, ConstantTypes DEF ShapedGroup, GroupRecord
<1>2. Offsets \ g.block_bitmap = g.first_free_block .. (GroupSize(i) - 1)
  BY <1>1, GroupFacts, ConstantTypes DEF ShapedGroup, Offsets
<1>3. ASSUME NEW x \in FreeTail(i, g)
      PROVE  x - first_block(i) \in g.first_free_block .. (GroupSize(i) - 1)
             /\ x = first_block(i) + (x - first_block(i))
  BY <1>1, <1>3, GroupFacts DEF FreeTail
<1>4. ASSUME NEW o \in g.first_free_block .. (GroupSize(i) - 1)
      PROVE  first_block(i) + o \in FreeTail(i, g)
  BY <1>1, <1>4, GroupFacts DEF FreeTail
<1> QED BY <1>2, <1>3, <1>4

LEMMA FreeInTails ==
    ASSUME NEW b, Shaped(b), NEW x
    PROVE  x \in FreeIn(b) <=> \E i \in GroupIds : x \in FreeTail(i, b[i])
<1>1. \A i \in GroupIds : {first_block(i) + o : o \in Offsets \ b[i].block_bitmap} = FreeTail(i, b[i])
  BY GroupFree DEF Shaped
<1>2. x \in FreeIn(b) <=>
        \E i \in GroupIds : x \in {first_block(i) + o : o \in Offsets \ b[i].block_bitmap}
  BY Zenon DEF FreeIn
<1> QED BY <1>1, <1>2, Zenon

\* A block belongs to the tail of one group at most.
LEMMA TailsDisjoint ==
    ASSUME NEW i \in GroupIds, NEW j \in GroupIds, i # j, NEW g, NEW h,
           ShapedGroup(i, g), ShapedGroup(j, h)
    PROVE  \A x : ~(x \in first_block(i) .. (first_block(i) + BlocksPerGroup - 1)
                    /\ x \in FreeTail(j, h))
<1>1. i \in Nat /\ j \in Nat
  BY ConstantTypes DEF GroupIds
<1>2. h.first_free_block \in Nat
  BY DEF ShapedGroup, GroupRecord
<1>3. CASE i < j
  BY <1>2, <1>3, GroupsDisjoint, GroupFacts, ConstantTypes DEF FreeTail
<1>4. CASE j < i
  BY <1>2, <1>4, GroupsDisjoint, GroupFacts, ConstantTypes DEF FreeTail
<1> QED BY <1>1, <1>3, <1>4

\* The groups after a reservation at the cursor of group i, and after a return.
TakenFrom(b, i, len) == [b EXCEPT ![i] = TakeAtCursor(@, len)]
ReturnedTo(b, i) == [b EXCEPT ![i] = free_blocks(@, 1)]

\* Only group i changes.
LEMMA TakenFromOne ==
    ASSUME NEW b, b \in [GroupIds -> GroupRecord], NEW i \in GroupIds, NEW len \in Nat,
           NEW c, c = TakenFrom(b, i, len)
    PROVE  /\ c[i] = [reserve_blocks(b[i], b[i].first_free_block, len)
                         EXCEPT !.data_used = @ \/ len > 0]
           /\ c \in [GroupIds -> {c[j] : j \in GroupIds}]
           /\ \A j \in GroupIds : j # i => c[j] = b[j]
<1>1. /\ c[i] = TakeAtCursor(b[i], len)
      /\ c \in [GroupIds -> {c[j] : j \in GroupIds}]
      /\ \A j \in GroupIds : j # i => c[j] = b[j]
  BY DEF TakenFrom
<1> QED BY <1>1, Zenon DEF TakeAtCursor

\* Reserving len blocks at the cursor of group i takes them, and nothing else,
\* out of the free blocks.
LEMMA TakeFromCursor ==
    ASSUME NEW b, Shaped(b), NEW i \in GroupIds, NEW len \in Nat \ {0},
           len <= b[i].free_blocks, NEW c, c = TakenFrom(b, i, len)
    PROVE  /\ Shaped(c)
           /\ c[i].data_used
           /\ c[i].free_blocks = b[i].free_blocks - len
           /\ c[i].first_free_block = b[i].first_free_block + len
           /\ c[i].first_free_block + c[i].free_blocks = GroupSize(i)
           /\ \A j \in GroupIds : j # i => c[j] = b[j]
           /\ ((first_block(i) + b[i].first_free_block)
               .. (first_block(i) + b[i].first_free_block + len - 1)) \subseteq FreeIn(b)
           /\ FreeIn(c) = FreeIn(b) \ ((first_block(i) + b[i].first_free_block)
                                .. (first_block(i) + b[i].first_free_block + len - 1))
<1> DEFINE g == b[i]
           ff == g.first_free_block
           r == (first_block(i) + ff) .. (first_block(i) + ff + len - 1)
           h == reserve_blocks(g, ff, len)
<1>1. /\ g \in GroupRecord /\ ShapedGroup(i, g)
      /\ b \in [GroupIds -> GroupRecord]
  BY DEF Shaped
<1>2. /\ ff \in Nat /\ g.free_blocks \in Nat
      /\ ff + g.free_blocks = GroupSize(i)
      /\ header_blocks(i) <= ff /\ len <= g.free_blocks
  BY <1>1, GroupFacts DEF ShapedGroup, GroupRecord
<1>3. h = [block_bitmap |-> g.block_bitmap \cup (ff .. (ff + len - 1)),
           free_blocks |-> g.free_blocks - len,
           first_free_block |-> ff + len,
           data_used |-> g.data_used]
  <2> HIDE DEF g
  <2> QED BY <1>1, <1>2, ReserveEffect
<1>4. c[i] = [h EXCEPT !.data_used = @ \/ len > 0] /\ c \in [GroupIds -> {c[j] : j \in GroupIds}]
      /\ \A j \in GroupIds : j # i => c[j] = b[j]
  BY <1>1, TakenFromOne
<1>5. (h.data_used \/ len > 0) = TRUE
  OBVIOUS
<1>6. c[i] = [block_bitmap |-> g.block_bitmap \cup (ff .. (ff + len - 1)),
              free_blocks |-> g.free_blocks - len,
              first_free_block |-> ff + len,
              data_used |-> TRUE]
  <2> HIDE DEF h
  <2>1. c[i] = [h EXCEPT !.data_used = TRUE]
    BY <1>4, <1>5
  <2> QED BY <2>1, <1>3
<1>7. c[i].block_bitmap = (0 .. (ff + len - 1)) \cup (GroupSize(i) .. (BlocksPerGroup - 1))
  <2>1. g.block_bitmap = (0 .. (ff - 1)) \cup (GroupSize(i) .. (BlocksPerGroup - 1))
    BY <1>1 DEF ShapedGroup
  <2>2. (0 .. (ff - 1)) \cup (ff .. (ff + len - 1)) = 0 .. (ff + len - 1)
    BY <1>2
  <2> HIDE DEF g, ff
  <2> QED BY <1>6, <2>1, <2>2
<1>8. c[i] \in GroupRecord
  <2>1. c[i].block_bitmap \in SUBSET Offsets
    BY <1>2, <1>7, GroupFacts, ConstantTypes DEF Offsets
  <2>2. g.free_blocks - len \in 0 .. BlocksPerGroup /\ ff + len \in 0 .. BlocksPerGroup
    BY <1>2, GroupFacts, ConstantTypes
  <2> HIDE DEF g, ff
  <2>3. g.block_bitmap \cup (ff .. (ff + len - 1)) \in SUBSET Offsets
    BY <1>6, <2>1
  <2> QED BY <1>6, <2>2, <2>3, GroupRecordIntro
<1>9. /\ c[i].free_blocks = g.free_blocks - len
      /\ c[i].first_free_block = ff + len
      /\ c[i].data_used
      /\ c[i].first_free_block + c[i].free_blocks = GroupSize(i)
  BY <1>2, <1>6, GroupFacts
<1>10. ShapedGroup(i, c[i])
  <2>1. header_blocks(i) <= c[i].first_free_block
    BY <1>2, <1>9, GroupFacts
  <2>2. c[i].block_bitmap = (0 .. (c[i].first_free_block - 1))
                            \cup (GroupSize(i) .. (BlocksPerGroup - 1))
    <3>1. c[i].first_free_block - 1 = ff + len - 1
      BY <1>2, <1>9
    <3> QED BY <1>7, <3>1, Zenon
  <2> QED BY <1>8, <1>9, <2>1, <2>2, Zenon DEF ShapedGroup
<1>11. Shaped(c)
  BY <1>4, <1>8, <1>10, Zenon DEF Shaped
<1>12. r \subseteq FreeTail(i, g) /\ FreeTail(i, c[i]) = FreeTail(i, g) \ r
  BY <1>2, <1>9, GroupFacts DEF FreeTail
<1>13. r \subseteq first_block(i) .. (first_block(i) + BlocksPerGroup - 1)
  BY <1>2, GroupFacts, ConstantTypes
<1>14. \A j \in GroupIds : j # i => r \cap FreeTail(j, b[j]) = {}
  BY <1>1, <1>13, TailsDisjoint DEF Shaped
<1> HIDE DEF r, h
<1>15. r \subseteq FreeIn(b)
  BY <1>12, FreeInTails
<1>16. \A x : x \in FreeIn(c) <=> x \in FreeIn(b) /\ x \notin r
  BY <1>4, <1>11, <1>12, <1>14, FreeInTails
<1>17. FreeIn(c) = FreeIn(b) \ r
  BY <1>16
<1> QED BY <1>4, <1>9, <1>11, <1>15, <1>17, Zenon DEF r

\* Returning one block puts the block before the cursor of group i, and no
\* other, back among the free ones.
LEMMA ReturnAtCursor ==
    ASSUME NEW b, Shaped(b), NEW i \in GroupIds,
           b[i].data_used, header_blocks(i) < b[i].first_free_block,
           b[i].first_free_block + b[i].free_blocks = GroupSize(i), NEW c, c = ReturnedTo(b, i)
    PROVE  /\ Shaped(c)
           /\ \A j \in GroupIds : c[j].data_used = b[j].data_used
           /\ c[i].first_free_block = b[i].first_free_block - 1
           /\ c[i].first_free_block + c[i].free_blocks = GroupSize(i)
           /\ FreeIn(c) = FreeIn(b) \cup {first_block(i) + b[i].first_free_block - 1}
<1> DEFINE g == b[i]
           ff == g.first_free_block
           x == first_block(i) + ff - 1
<1>1. g \in GroupRecord /\ ShapedGroup(i, g) /\ b \in [GroupIds -> GroupRecord]
  BY DEF Shaped
<1>2. /\ ff \in Nat /\ g.free_blocks \in Nat /\ ff + g.free_blocks = GroupSize(i)
      /\ header_blocks(i) < ff
  BY <1>1 DEF GroupRecord
<1>3. c[i] = [block_bitmap |-> g.block_bitmap \ ((ff - 1) .. (ff - 1)),
              free_blocks |-> g.free_blocks + 1,
              first_free_block |-> ff - 1,
              data_used |-> g.data_used]
  BY <1>1 DEF ReturnedTo, free_blocks, GroupRecord
<1>4. \A j \in GroupIds : j # i => c[j] = b[j]
  BY <1>1 DEF ReturnedTo
<1>5. c \in [GroupIds -> {c[j] : j \in GroupIds}]
  BY <1>1 DEF ReturnedTo
<1>6. g.block_bitmap \ ((ff - 1) .. (ff - 1))
        = (0 .. (ff - 2)) \cup (GroupSize(i) .. (BlocksPerGroup - 1))
  <2>1. g.block_bitmap = (0 .. (ff - 1)) \cup (GroupSize(i) .. (BlocksPerGroup - 1))
    BY <1>1 DEF ShapedGroup
  <2> HIDE DEF g, ff
  <2> QED BY <1>2, <2>1, GroupFacts, ConstantTypes
<1>7. c[i] \in GroupRecord
  <2>1. (0 .. (ff - 2)) \cup (GroupSize(i) .. (BlocksPerGroup - 1)) \in SUBSET Offsets
    BY <1>2, GroupFacts, ConstantTypes DEF Offsets
  <2>2. g.free_blocks + 1 \in 0 .. BlocksPerGroup /\ ff - 1 \in 0 .. BlocksPerGroup
    BY <1>2, GroupFacts, ConstantTypes
  <2>3. g.data_used \in BOOLEAN
    BY <1>1 DEF GroupRecord
  <2> HIDE DEF g, ff
  <2> QED BY <1>3, <1>6, <2>1, <2>2, <2>3, GroupRecordIntro
<1>8. /\ c[i].block_bitmap = (0 .. (ff - 2)) \cup (GroupSize(i) .. (BlocksPerGroup - 1))
      /\ c[i].first_free_block = ff - 1
      /\ c[i].free_blocks = g.free_blocks + 1
      /\ c[i].data_used = g.data_used
  <2> HIDE DEF g, ff
  <2> QED BY <1>3, <1>6
<1>9. ShapedGroup(i, c[i])
  <2>1. ff - 2 = c[i].first_free_block - 1
    BY <1>2, <1>8
  <2>2. c[i].block_bitmap = (0 .. (c[i].first_free_block - 1))
                            \cup (GroupSize(i) .. (BlocksPerGroup - 1))
    BY <1>8, <2>1, Zenon
  <2>3. header_blocks(i) <= c[i].first_free_block
    BY <1>2, <1>8, GroupFacts
  <2>4. c[i].first_free_block + c[i].free_blocks = GroupSize(i)
    BY <1>2, <1>8, GroupFacts
  <2> QED BY <1>7, <1>8, <2>2, <2>3, <2>4, Zenon DEF ShapedGroup
<1>10. Shaped(c)
  BY <1>4, <1>5, <1>7, <1>9, <1>1, Zenon DEF Shaped
<1>11. FreeTail(i, c[i]) = FreeTail(i, g) \cup {x}
  BY <1>2, <1>8, GroupFacts DEF FreeTail
<1> HIDE DEF x
<1>12. \A y : y \in FreeIn(c) <=> y \in FreeIn(b) \/ y = x
  <2>1. \A y : y \in FreeIn(c) <=> \E j \in GroupIds : y \in FreeTail(j, c[j])
    BY <1>10, FreeInTails
  <2>2. \A y : y \in FreeIn(b) <=> \E j \in GroupIds : y \in FreeTail(j, b[j])
    BY FreeInTails
  <2> QED BY <1>4, <1>11, <2>1, <2>2
<1>13. FreeIn(c) = FreeIn(b) \cup {x}
  BY <1>12
<1>14. \A j \in GroupIds : c[j].data_used = b[j].data_used
  BY <1>4, <1>8
<1>15. c[i].first_free_block + c[i].free_blocks = GroupSize(i)
  BY <1>2, <1>8, GroupFacts
<1>16. c[i].first_free_block = b[i].first_free_block - 1
  BY <1>8
<1>17. x = first_block(i) + b[i].first_free_block - 1
  BY DEF x
<1> HIDE DEF g, ff
<1> QED BY <1>10, <1>13, <1>14, <1>15, <1>16, <1>17, Zenon

-----------------------------------------------------------------------------
(* Who holds which block                                                   *)

BlocksOf(a) == UNION {RegionBlocks(a[k]) : k \in DOMAIN a}

Apart(a) == \A j, k \in DOMAIN a : j # k => RegionBlocks(a[j]) \cap RegionBlocks(a[k]) = {}

\* BlocksAccounted, of any free set, region list and sets of older blocks.
Holders(f, a, o, l) ==
    /\ Apart(a)
    /\ BlocksOf(a) \cap (o \cup l) = {}
    /\ o \cap l = {}
    /\ BlocksOf(a) \cup o \cup l \subseteq DataBlocks
    /\ f = DataBlocks \ (BlocksOf(a) \cup o \cup l)

LEMMA NoRegions == BlocksOf(<<>>) = {} /\ Apart(<<>>)
BY DEF BlocksOf, Apart

LEMMA OneRegion ==
    ASSUME NEW r
    PROVE  BlocksOf(<<r>>) = RegionBlocks(r) /\ Apart(<<r>>)
<1>1. DOMAIN <<r>> = {1} /\ <<r>>[1] = r
  OBVIOUS
<1> QED BY <1>1 DEF BlocksOf, Apart

LEMMA AnotherRegion ==
    ASSUME NEW a \in Seq(Region), NEW r \in Region
    PROVE  /\ BlocksOf(Append(a, r)) = BlocksOf(a) \cup RegionBlocks(r)
           /\ Apart(a) /\ BlocksOf(a) \cap RegionBlocks(r) = {} => Apart(Append(a, r))
<1> DEFINE n == Len(a) + 1
           c == Append(a, r)
<1>1. /\ DOMAIN c = (DOMAIN a) \cup {n} /\ n \notin DOMAIN a
      /\ c[n] = r /\ \A k \in DOMAIN a : c[k] = a[k]
  OBVIOUS
<1> HIDE DEF n, c
<1>2. BlocksOf(c) = BlocksOf(a) \cup RegionBlocks(r)
  BY <1>1 DEF BlocksOf
<1>3. ASSUME Apart(a), BlocksOf(a) \cap RegionBlocks(r) = {}
      PROVE  Apart(c)
  <2>1. \A k \in DOMAIN a : RegionBlocks(a[k]) \cap RegionBlocks(r) = {}
    BY <1>3 DEF BlocksOf
  <2> QED BY <1>1, <1>3, <2>1, Zenon DEF Apart
<1> QED BY <1>2, <1>3 DEF c

LEMMA HeadRegion ==
    ASSUME NEW a \in Seq(Region), a # <<>>
    PROVE  1 \in DOMAIN a /\ a[1] \in Region
<1>1. Len(a) \in Nat /\ Len(a) # 0
  OBVIOUS
<1>2. DOMAIN a = 1 .. Len(a)
  OBVIOUS
<1>3. 1 \in DOMAIN a
  BY <1>1, <1>2
<1> QED BY <1>2, <1>3

\* Shortening the first region by a block takes exactly its last block away.
LEMMA ShorterHead ==
    ASSUME NEW a \in Seq(Region), a # <<>>, a[1].len > 1, Apart(a),
           NEW c, c = [a EXCEPT ![1].len = @ - 1],
           NEW x, x = a[1].block + a[1].len - 1
    PROVE  /\ c \in Seq(Region)
           /\ Len(c) = Len(a)
           /\ BlocksOf(c) = BlocksOf(a) \ {x}
           /\ x \in BlocksOf(a)
           /\ Apart(c)
<1>1. 1 \in DOMAIN a /\ a[1] \in Region /\ a[1].block \in Nat /\ a[1].len \in Nat
  BY HeadRegion DEF Region
<1>2. c[1] = [block |-> a[1].block, len |-> a[1].len - 1, bg |-> a[1].bg]
  BY <1>1 DEF Region
<1>3. c[1] \in Region
  BY <1>1, <1>2 DEF Region
<1>4. DOMAIN c = DOMAIN a /\ \A k \in DOMAIN a : k # 1 => c[k] = a[k]
  OBVIOUS
<1>5. c \in Seq(Region) /\ Len(c) = Len(a)
  <2>1. \A k \in DOMAIN a : c[k] \in Region
    BY <1>3, <1>4
  <2> QED BY <1>1, <1>3
<1>6. RegionBlocks(c[1]) = RegionBlocks(a[1]) \ {x} /\ x \in RegionBlocks(a[1])
  BY <1>1, <1>2 DEF RegionBlocks
<1>7. \A k \in DOMAIN a : k # 1 => x \notin RegionBlocks(a[k])
  BY <1>1, <1>6 DEF Apart
<1>8. x \in BlocksOf(a)
  BY <1>1, <1>6, Zenon DEF BlocksOf
<1>9. BlocksOf(c) = BlocksOf(a) \ {x}
  <2>1. \A y : y \in BlocksOf(c) <=> \E k \in DOMAIN a : y \in RegionBlocks(c[k])
    BY <1>4, Zenon DEF BlocksOf
  <2>2. \A y : y \in BlocksOf(a) <=> \E k \in DOMAIN a : y \in RegionBlocks(a[k])
    BY Zenon DEF BlocksOf
  <2> QED BY <1>1, <1>4, <1>6, <1>7, <2>1, <2>2, ZenonT(60)
<1>10. Apart(c)
  <2>1. \A k \in DOMAIN a : RegionBlocks(c[k]) \subseteq RegionBlocks(a[k])
    BY <1>4, <1>6
  <2> QED BY <1>4, <2>1 DEF Apart
<1> QED BY <1>5, <1>8, <1>9, <1>10

\* A list of one region of one block.
LEMMA SingleBlock ==
    ASSUME NEW a \in Seq(Region), Len(a) = 1, a[1].len = 1
    PROVE  BlocksOf(a) = {a[1].block + a[1].len - 1}
<1>1. DOMAIN a = {1} /\ a[1].block \in Nat
  <2>1. Len(<<>>) = 0 /\ 0 # 1
    OBVIOUS
  <2>2. a # <<>>
    BY <2>1, Zenon
  <2>3. DOMAIN a = 1 .. 1 /\ 1 .. 1 = {1}
    OBVIOUS
  <2>4. a[1] \in Region
    BY <2>2, HeadRegion
  <2> QED BY <2>3, <2>4 DEF Region
<1>2. RegionBlocks(a[1]) = {a[1].block + a[1].len - 1}
  BY <1>1 DEF RegionBlocks
<1> QED BY <1>1, <1>2 DEF BlocksOf

-----------------------------------------------------------------------------
(* The inductive invariant                                                 *)

ScalarTypes ==
    /\ alloc \in Seq(Region)
    /\ pc \in {"idle", "partial", "nospace"}
    /\ todo \in Nat
    /\ lap \in {0, 1}
    /\ want \in Nat
    /\ fresh \in BOOLEAN
    /\ force \in BOOLEAN

\* While it may still be extended or reduced, the first region of the newest
\* allocation is the last thing that was taken from its group: its end is the
\* group's cursor.  reduce_allocation frees downwards from that cursor.
HeadAtCursor ==
    (alloc # <<>> /\ (pc = "partial" \/ fresh)) =>
        LET r == alloc[1]
        IN  /\ bgs[r.bg].data_used
            /\ r.block + r.len = first_block(r.bg) + bgs[r.bg].first_free_block
            /\ first_block(r.bg) + header_blocks(r.bg) <= r.block
            /\ bgs[r.bg].first_free_block + bgs[r.bg].free_blocks = GroupSize(r.bg)

\* In the loop, the first region has filled its group; a first region of a
\* single block can only come from the last empty group.
LoopInv ==
    pc = "partial" =>
        /\ todo > 0 /\ want > 0
        /\ ~fresh
        /\ alloc # <<>> =>
              /\ bgs[alloc[1].bg].free_blocks = 0
              /\ (\E i \in GroupIds : ~bgs[i].data_used) => alloc[1].len > 1

\* An allocation that may still be reduced loses a block of its first region,
\* never a whole region with others behind it.
FreshInv ==
    fresh => /\ pc = "idle"
             /\ alloc # <<>>
             /\ want > 0
             /\ Len(alloc) > 1 => alloc[1].len > 1

IndInv == /\ Shaped(bgs)
          /\ ScalarTypes
          /\ BlocksAccounted
          /\ HeadAtCursor
          /\ LoopInv
          /\ FreshInv

\* The state functions of Allocate, as the operators of the lemmas above.
LEMMA Views ==
    /\ FreeBlocks = FreeIn(bgs) /\ FreeBlocks' = FreeIn(bgs')
    /\ AllocBlocks = BlocksOf(alloc) /\ AllocBlocks' = BlocksOf(alloc')
    /\ BlocksAccounted <=> Holders(FreeIn(bgs), alloc, owned, lost)
    /\ BlocksAccounted' <=> Holders(FreeIn(bgs'), alloc', owned', lost')
<1>1. FreeBlocks = FreeIn(bgs) /\ FreeBlocks' = FreeIn(bgs')
  BY DEF FreeBlocks, FreeIn
<1>2. AllocBlocks = BlocksOf(alloc) /\ AllocBlocks' = BlocksOf(alloc')
  BY DEF AllocBlocks, BlocksOf
<1>3. BlocksAccounted <=> Holders(FreeIn(bgs), alloc, owned, lost)
  BY <1>1, <1>2, Zenon DEF BlocksAccounted, Holders, Apart
<1>4. BlocksAccounted' <=> Holders(FreeIn(bgs'), alloc', owned', lost')
  BY <1>1, <1>2, Zenon DEF BlocksAccounted, Holders, Apart
<1> QED BY <1>1, <1>2, <1>3, <1>4

\* What a reservation of len blocks at the cursor of group i does to the state.
LEMMA Taken ==
    ASSUME IndInv, NEW i \in GroupIds, NEW len \in Nat \ {0},
           len <= bgs[i].free_blocks,
           ext4_allocate_blocks_from_block_group(i, len)
    PROVE  LET r == NewRegion(i, len)
           IN  /\ Shaped(bgs')
               /\ bgs'[i].data_used
               /\ bgs'[i].free_blocks = bgs[i].free_blocks - len
               /\ bgs'[i].first_free_block + bgs'[i].free_blocks = GroupSize(i)
               /\ \A j \in GroupIds : j # i => bgs'[j] = bgs[j]
               /\ r \in Region
               /\ r.bg = i /\ r.len = len
               /\ r.block + r.len = first_block(i) + bgs'[i].first_free_block
               /\ first_block(i) + header_blocks(i) <= r.block
               /\ RegionBlocks(r) \subseteq FreeIn(bgs)
               /\ FreeIn(bgs') = FreeIn(bgs) \ RegionBlocks(r)
<1> DEFINE r == NewRegion(i, len)
<1>1. Shaped(bgs) /\ bgs[i] \in GroupRecord /\ ShapedGroup(i, bgs[i])
  BY DEF IndInv, Shaped
<1>2. /\ bgs[i].first_free_block \in Nat
      /\ header_blocks(i) <= bgs[i].first_free_block
  BY <1>1 DEF GroupRecord, ShapedGroup
<1>3. /\ Shaped(bgs')
      /\ bgs'[i].data_used
      /\ bgs'[i].free_blocks = bgs[i].free_blocks - len
      /\ bgs'[i].first_free_block = bgs[i].first_free_block + len
      /\ bgs'[i].first_free_block + bgs'[i].free_blocks = GroupSize(i)
      /\ \A j \in GroupIds : j # i => bgs'[j] = bgs[j]
      /\ ((first_block(i) + bgs[i].first_free_block)
          .. (first_block(i) + bgs[i].first_free_block + len - 1)) \subseteq FreeIn(bgs)
      /\ FreeIn(bgs') = FreeIn(bgs) \ ((first_block(i) + bgs[i].first_free_block)
                           .. (first_block(i) + bgs[i].first_free_block + len - 1))
  <2>1. bgs' = TakenFrom(bgs, i, len)
    BY DEF ext4_allocate_blocks_from_block_group, TakenFrom
  <2> QED BY <1>1, <2>1, TakeFromCursor
<1>4. /\ r.block = first_block(i) + bgs[i].first_free_block /\ r.len = len /\ r.bg = i
      /\ r \in Region
  BY <1>2, GroupFacts DEF NewRegion, Region
<1>5. RegionBlocks(r) = (first_block(i) + bgs[i].first_free_block)
                        .. (first_block(i) + bgs[i].first_free_block + len - 1)
  BY <1>4 DEF RegionBlocks
<1> HIDE DEF r
<1>6. r.block + r.len = first_block(i) + bgs'[i].first_free_block
  BY <1>2, <1>3, <1>4, GroupFacts
<1>7. first_block(i) + header_blocks(i) <= r.block
  BY <1>2, <1>4, GroupFacts
<1> QED BY <1>3, <1>4, <1>5, <1>6, <1>7, Zenon DEF r

-----------------------------------------------------------------------------
(* One lemma per action: it keeps the invariant and is a step of the pool   *)

LEMMA InitInv == Init => IndInv
<1> SUFFICES ASSUME Init PROVE IndInv
  OBVIOUS
<1> USE DEF Init
<1>1. Shaped(bgs) /\ \A i \in GroupIds : bgs[i] = init_bg(i) /\ ~bgs[i].data_used
  BY InitShape DEF Shaped, ShapedGroup
<1>2. ScalarTypes
  <2>1. alloc \in Seq(Region)
    OBVIOUS
  <2>2. todo \in Nat /\ lap \in {0, 1} /\ want \in Nat
    OBVIOUS
  <2> QED BY <2>1, <2>2, Zenon DEF ScalarTypes
<1>3. BlocksAccounted
  <2>1. \A i \in GroupIds : FreeTail(i, bgs[i])
            = (first_block(i) + header_blocks(i)) .. (first_block(i) + GroupSize(i) - 1)
    <3> SUFFICES ASSUME NEW i \in GroupIds
                 PROVE  FreeTail(i, bgs[i])
                   = (first_block(i) + header_blocks(i)) .. (first_block(i) + GroupSize(i) - 1)
      OBVIOUS
    <3>1. ShapedGroup(i, bgs[i]) /\ ~bgs[i].data_used
      BY <1>1 DEF Shaped
    <3>2. bgs[i].free_blocks = GroupSize(i) - header_blocks(i)
      BY <3>1 DEF ShapedGroup
    <3>3. bgs[i].first_free_block \in Nat
      BY <3>1 DEF ShapedGroup, GroupRecord
    <3>4. \/ bgs[i].first_free_block = header_blocks(i)
          \/ /\ bgs[i].first_free_block = BlocksPerGroup
             /\ header_blocks(i) = GroupSize(i)
      BY <3>1, <3>2, <3>3, GroupFacts DEF ShapedGroup
    <3> QED BY <3>3, <3>4, GroupFacts, ConstantTypes DEF FreeTail
  <2>2. \A x : x \in FreeIn(bgs) <=> \E i \in GroupIds : x \in FreeTail(i, bgs[i])
    BY <1>1, FreeInTails
  <2>3. \A x : x \in DataBlocks <=> \E i \in GroupIds :
            x \in (first_block(i) + header_blocks(i)) .. (first_block(i) + GroupSize(i) - 1)
    BY Zenon DEF DataBlocks
  <2>4. FreeIn(bgs) = DataBlocks
    BY <2>1, <2>2, <2>3, ZenonT(60)
  <2>5. Holders(FreeIn(bgs), alloc, owned, lost)
    BY <2>4, NoRegions DEF Holders
  <2> QED BY <2>5, Views
<1>4. HeadAtCursor /\ LoopInv /\ FreshInv
  BY DEF HeadAtCursor, LoopInv, FreshInv
<1> QED BY <1>1, <1>2, <1>3, <1>4 DEF IndInv

LEMMA ContiguousStep ==
    ASSUME IndInv, NEW i \in GroupIds, NEW len \in Lens, allocate_contiguous(i, len)
    PROVE  IndInv' /\ Pool!Take
<1> DEFINE r == NewRegion(i, len)
<1>1. len \in Nat \ {0} /\ len <= bgs[i].free_blocks
  BY ConstantTypes DEF allocate_contiguous, FirstFit, Fits
<1>2. ext4_allocate_blocks_from_block_group(i, len)
  BY DEF allocate_contiguous
<1>3. /\ Shaped(bgs') /\ bgs'[i].data_used
      /\ bgs'[i].first_free_block + bgs'[i].free_blocks = GroupSize(i)
      /\ r \in Region /\ r.bg = i
      /\ r.block + r.len = first_block(i) + bgs'[i].first_free_block
      /\ first_block(i) + header_blocks(i) <= r.block
      /\ RegionBlocks(r) \subseteq FreeIn(bgs)
      /\ FreeIn(bgs') = FreeIn(bgs) \ RegionBlocks(r)
  BY <1>1, <1>2, Taken
<1>4. /\ alloc' = <<r>> /\ owned' = owned \cup BlocksOf(alloc) /\ lost' = lost
      /\ pc = "idle" /\ pc' = "idle" /\ want' = len /\ fresh' = TRUE
      /\ todo' = todo /\ lap' = lap /\ force' = force
  BY Views DEF allocate_contiguous
<1> HIDE DEF r
<1>5. BlocksOf(alloc') = RegionBlocks(r) /\ Apart(alloc')
  BY <1>4, OneRegion
<1>6. Holders(FreeIn(bgs), alloc, owned, lost)
  BY Views DEF IndInv
<1>7. BlocksAccounted'
  <2>1. Holders(FreeIn(bgs'), alloc', owned', lost')
    BY <1>3, <1>4, <1>5, <1>6 DEF Holders
  <2> QED BY <2>1, Views
<1>8. alloc' \in Seq(Region) /\ Len(alloc') = 1 /\ alloc'[1] = r
  BY <1>3, <1>4
<1>9. ScalarTypes'
  BY <1>1, <1>4, <1>8 DEF ScalarTypes, IndInv
<1>10. HeadAtCursor'
  BY <1>3, <1>8 DEF HeadAtCursor
<1>11. LoopInv'
  BY <1>4 DEF LoopInv
<1>12. FreshInv'
  <2>1. alloc' # <<>>
    BY <1>4
  <2> QED BY <1>1, <1>4, <1>8, <2>1 DEF FreshInv
<1>13. Pool!Take
  <2>1. /\ FreeBlocks' = FreeBlocks \ RegionBlocks(r) /\ RegionBlocks(r) \subseteq FreeBlocks
        /\ AllocBlocks' = RegionBlocks(r) /\ owned' = owned \cup AllocBlocks
    BY <1>3, <1>4, <1>5, Views
  <2> QED BY <1>4, <2>1 DEF Pool!Take
<1> QED BY <1>3, <1>7, <1>9, <1>10, <1>11, <1>12, <1>13 DEF IndInv

LEMMA BlockStep ==
    ASSUME IndInv, NEW i \in GroupIds, allocate_block(i)
    PROVE  IndInv' /\ Pool!TakeOne
<1> DEFINE r == NewRegion(i, 1)
<1>1. 1 \in Nat \ {0} /\ 1 <= bgs[i].free_blocks
  BY DEF allocate_block, FirstFit, Fits
<1>2. ext4_allocate_blocks_from_block_group(i, 1)
  BY DEF allocate_block
<1>3. /\ Shaped(bgs')
      /\ RegionBlocks(r) \subseteq FreeIn(bgs)
      /\ FreeIn(bgs') = FreeIn(bgs) \ RegionBlocks(r)
  BY <1>1, <1>2, Taken
<1>4. /\ alloc' = <<>> /\ owned' = owned \cup BlocksOf(alloc) \cup RegionBlocks(r)
      /\ lost' = lost /\ pc = "idle" /\ pc' = "idle" /\ want' = 0 /\ fresh' = FALSE
      /\ todo' = todo /\ lap' = lap /\ force' = force
  BY Views DEF allocate_block
<1> HIDE DEF r
<1>5. BlocksOf(alloc') = {} /\ Apart(alloc')
  BY <1>4, NoRegions
<1>6. Holders(FreeIn(bgs), alloc, owned, lost)
  BY Views DEF IndInv
<1>7. BlocksAccounted'
  <2>1. Holders(FreeIn(bgs'), alloc', owned', lost')
    BY <1>3, <1>4, <1>5, <1>6 DEF Holders
  <2> QED BY <2>1, Views
<1>8. ScalarTypes'
  <2>1. alloc' \in Seq(Region) /\ want' \in Nat
    BY <1>4
  <2> QED BY <1>4, <2>1, Zenon DEF ScalarTypes, IndInv
<1>9. HeadAtCursor' /\ LoopInv' /\ FreshInv'
  BY <1>4 DEF HeadAtCursor, LoopInv, FreshInv
<1>10. Pool!TakeOne
  <2>1. /\ FreeBlocks' = FreeBlocks \ RegionBlocks(r) /\ RegionBlocks(r) \subseteq FreeBlocks
        /\ AllocBlocks' = {} /\ owned' = owned \cup AllocBlocks \cup RegionBlocks(r)
    BY <1>3, <1>4, <1>5, Views
  <2> QED BY <1>4, <2>1 DEF Pool!TakeOne
<1> QED BY <1>3, <1>7, <1>8, <1>9, <1>10 DEF IndInv

LEMMA MultipleStep ==
    ASSUME IndInv, NEW len \in Lens, allocate_multiple(len)
    PROVE  IndInv' /\ Pool!Take
<1>1. /\ alloc' = <<>> /\ owned' = owned \cup BlocksOf(alloc) /\ lost' = lost /\ bgs' = bgs
      /\ pc' = "partial" /\ want' = len /\ todo' = len /\ fresh' = FALSE
      /\ lap' = lap /\ force' = force /\ len \in Nat \ {0}
  BY Views, ConstantTypes DEF allocate_multiple
<1>2. BlocksOf(alloc') = {} /\ Apart(alloc')
  BY <1>1, NoRegions
<1>3. Holders(FreeIn(bgs), alloc, owned, lost)
  BY Views DEF IndInv
<1>4. BlocksAccounted'
  <2>1. Holders(FreeIn(bgs'), alloc', owned', lost')
    BY <1>1, <1>2, <1>3 DEF Holders
  <2> QED BY <2>1, Views
<1>5. ScalarTypes'
  <2>1. alloc' \in Seq(Region) /\ want' \in Nat /\ todo' \in Nat
    BY <1>1
  <2> QED BY <1>1, <2>1, Zenon DEF ScalarTypes, IndInv
<1>6. HeadAtCursor' /\ LoopInv' /\ FreshInv'
  BY <1>1 DEF HeadAtCursor, LoopInv, FreshInv
<1>7. Pool!Take
  <2>1. /\ FreeBlocks' = FreeBlocks
        /\ AllocBlocks' = {} /\ owned' = owned \cup AllocBlocks
    BY <1>1, <1>2, Views
  <2> QED BY <1>1, <2>1 DEF Pool!Take
<1> QED BY <1>1, <1>4, <1>5, <1>6, <1>7 DEF IndInv

\* The first region of a list stays first when another is appended.
LEMMA AppendHead ==
    ASSUME NEW a \in Seq(Region), NEW r \in Region
    PROVE  /\ Append(a, r) \in Seq(Region) /\ Append(a, r) # <<>>
           /\ a # <<>> => Append(a, r)[1] = a[1]
           /\ a = <<>> => Append(a, r)[1] = r /\ Len(Append(a, r)) = 1
<1>1. Append(a, r) \in Seq(Region) /\ Append(a, r) # <<>>
  <2>1. Append(a, r) \in Seq(Region) /\ Len(Append(a, r)) = Len(a) + 1 /\ Len(a) \in Nat
    OBVIOUS
  <2>2. Len(<<>>) = 0 /\ Len(Append(a, r)) # 0
    BY <2>1
  <2> QED BY <2>1, <2>2, Zenon
<1>2. a # <<>> => Append(a, r)[1] = a[1]
  BY HeadRegion
<1>3. a = <<>> => Append(a, r)[1] = r /\ Len(Append(a, r)) = 1
  OBVIOUS
<1> QED BY <1>1, <1>2, <1>3

LEMMA TakeRestStep ==
    ASSUME IndInv, NEW i \in GroupIds, NEW j \in GroupIds, partial_take_rest(i, j)
    PROVE  IndInv' /\ Pool!Extend
<1> DEFINE r == NewRegion(j, todo)
<1>1. /\ todo \in Nat \ {0} /\ todo <= bgs[j].free_blocks
      /\ ~bgs[i].data_used
      /\ alloc \in Seq(Region)
      /\ ext4_allocate_blocks_from_block_group(j, todo)
  BY DEF partial_take_rest, FirstFit, Fits, FirstEmpty, IndInv, LoopInv, ScalarTypes
<1>2. /\ Shaped(bgs') /\ bgs'[j].data_used
      /\ bgs'[j].first_free_block + bgs'[j].free_blocks = GroupSize(j)
      /\ \A k \in GroupIds : k # j => bgs'[k] = bgs[k]
      /\ r \in Region /\ r.bg = j
      /\ r.block + r.len = first_block(j) + bgs'[j].first_free_block
      /\ first_block(j) + header_blocks(j) <= r.block
      /\ RegionBlocks(r) \subseteq FreeIn(bgs)
      /\ FreeIn(bgs') = FreeIn(bgs) \ RegionBlocks(r)
  BY <1>1, Taken
<1>3. /\ alloc' = Append(alloc, r) /\ owned' = owned /\ lost' = lost
      /\ pc = "partial" /\ pc' = "idle" /\ want' = want /\ fresh' = TRUE
      /\ todo' = 0 /\ lap' = 0 /\ force' = force
  BY DEF partial_take_rest
<1> HIDE DEF r
<1>4. Holders(FreeIn(bgs), alloc, owned, lost)
  BY Views DEF IndInv
<1>5. BlocksOf(alloc) \cap FreeIn(bgs) = {}
  BY <1>4 DEF Holders
<1>6. BlocksOf(alloc') = BlocksOf(alloc) \cup RegionBlocks(r) /\ Apart(alloc')
  BY <1>1, <1>2, <1>3, <1>4, <1>5, AnotherRegion DEF Holders
<1>7. BlocksAccounted'
  <2>1. Holders(FreeIn(bgs'), alloc', owned', lost')
    BY <1>2, <1>3, <1>4, <1>6 DEF Holders
  <2> QED BY <2>1, Views
<1>8. /\ alloc' \in Seq(Region) /\ alloc' # <<>>
      /\ alloc # <<>> => alloc'[1] = alloc[1]
      /\ alloc = <<>> => alloc'[1] = r /\ Len(alloc') = 1
  BY <1>1, <1>2, <1>3, AppendHead
<1>9. ScalarTypes'
  BY <1>3, <1>8 DEF ScalarTypes, IndInv
<1>10. HeadAtCursor'
  <2>1. CASE alloc = <<>>
    BY <1>2, <1>8, <2>1 DEF HeadAtCursor
  <2>2. CASE alloc # <<>>
    <3>1. alloc[1].bg \in GroupIds /\ bgs[alloc[1].bg].free_blocks = 0
      BY <1>1, <1>3, <2>2, HeadRegion DEF Region, IndInv, LoopInv
    <3>2. alloc[1].bg # j
      BY <1>1, <3>1
    <3>3. bgs'[alloc[1].bg] = bgs[alloc[1].bg]
      BY <1>2, <3>1, <3>2
    <3> QED BY <1>3, <1>8, <2>2, <3>3 DEF HeadAtCursor, IndInv
  <2> QED BY <2>1, <2>2
<1>11. LoopInv'
  BY <1>3 DEF LoopInv
<1>12. FreshInv'
  <2>1. want > 0
    BY <1>3 DEF IndInv, LoopInv
  <2> QED BY <1>1, <1>3, <1>8, <2>1 DEF FreshInv, IndInv, LoopInv
<1>13. Pool!Extend
  <2>1. /\ FreeBlocks' = FreeBlocks \ RegionBlocks(r) /\ RegionBlocks(r) \subseteq FreeBlocks
        /\ AllocBlocks' = AllocBlocks \cup RegionBlocks(r)
    BY <1>2, <1>6, Views
  <2> QED BY <1>3, <2>1 DEF Pool!Extend
<1> QED BY <1>2, <1>7, <1>9, <1>10, <1>11, <1>12, <1>13 DEF IndInv

\* A reservation of no blocks changes nothing.
LEMMA TakeNothing ==
    ASSUME NEW b \in [GroupIds -> GroupRecord], NEW i \in GroupIds,
           NEW len \in Nat, len = 0, NEW c, c = TakenFrom(b, i, len)
    PROVE  c = b
<1> DEFINE g == b[i]
           h == reserve_blocks(g, g.first_free_block, len)
<1>0. b \in [GroupIds -> GroupRecord]
  OBVIOUS
<1>1. g \in GroupRecord
  OBVIOUS
<1>2. g.first_free_block \in Nat /\ g.free_blocks \in Nat /\ g.data_used \in BOOLEAN
  BY <1>1 DEF GroupRecord
<1>3. h = g
  <2>1. len <= g.free_blocks /\ len \in Nat
    BY <1>2
  <2> HIDE DEF g
  <2>2. h = [block_bitmap |-> g.block_bitmap \cup
                    (g.first_free_block .. (g.first_free_block + len - 1)),
             free_blocks |-> g.free_blocks - len,
             first_free_block |-> IF g.first_free_block = g.first_free_block
                                  THEN g.first_free_block + len ELSE g.first_free_block,
             data_used |-> g.data_used]
    BY <1>1, <1>2, <2>1, ReserveEffect
  <2>3. /\ g.block_bitmap \cup (g.first_free_block .. (g.first_free_block + len - 1))
             = g.block_bitmap
        /\ g.free_blocks - len = g.free_blocks
        /\ g.first_free_block + len = g.first_free_block
    BY <1>2
  <2>4. h = [block_bitmap |-> g.block_bitmap, free_blocks |-> g.free_blocks,
             first_free_block |-> g.first_free_block, data_used |-> g.data_used]
    BY <2>2, <2>3, Zenon
  <2>5. g = [block_bitmap |-> g.block_bitmap, free_blocks |-> g.free_blocks,
             first_free_block |-> g.first_free_block, data_used |-> g.data_used]
    BY <1>1 DEF GroupRecord
  <2> QED BY <2>4, <2>5
<1>4. [h EXCEPT !.data_used = @ \/ len > 0] = g
  <2>1. (h.data_used \/ len > 0) = h.data_used
    BY <1>2, <1>3
  <2>2. [h EXCEPT !.data_used = @ \/ len > 0] = [h EXCEPT !.data_used = @]
    BY <2>1
  <2> QED BY <1>1, <1>3, <2>2 DEF GroupRecord
<1>5. c[i] = [h EXCEPT !.data_used = @ \/ len > 0] /\ c \in [GroupIds -> {c[j] : j \in GroupIds}]
      /\ \A j \in GroupIds : j # i => c[j] = b[j]
  BY <1>0, TakenFromOne
<1> HIDE DEF h
<1>6. \A j \in GroupIds : c[j] = b[j]
  BY <1>4, <1>5
<1> QED BY <1>5, <1>6

\* A group without free blocks: the iteration changes nothing but lap.
LEMMA EmptyRegionStep ==
    ASSUME IndInv, NEW i \in GroupIds, partial_take_group(i), bgs[i].free_blocks = 0
    PROVE  IndInv' /\ UNCHANGED <<bgs, alloc, owned, lost>>
<1>5. bgs' = bgs
  <2>1. bgs \in [GroupIds -> GroupRecord]
    BY DEF IndInv, Shaped
  <2>2. bgs' = TakenFrom(bgs, i, bgs[i].free_blocks)
    BY DEF partial_take_group, ext4_allocate_blocks_from_block_group, TakenFrom
  <2> QED BY <2>1, <2>2, TakeNothing
<1>6. /\ alloc' = alloc /\ owned' = owned /\ lost' = lost /\ pc' = pc /\ want' = want
      /\ fresh' = fresh /\ force' = force /\ lap' = 1 - lap /\ todo' = todo - 0
  BY DEF partial_take_group
<1>7. ScalarTypes' /\ todo' = todo
  <2>1. lap' \in {0, 1} /\ todo' = todo
    BY <1>6 DEF IndInv, ScalarTypes
  <2> QED BY <1>6, <2>1, Zenon DEF IndInv, ScalarTypes
<1>8. BlocksAccounted'
  BY <1>5, <1>6, Views DEF IndInv
<1>9. HeadAtCursor' /\ LoopInv' /\ FreshInv'
  BY <1>5, <1>6, <1>7 DEF IndInv, HeadAtCursor, LoopInv, FreshInv
<1> QED BY <1>5, <1>6, <1>7, <1>8, <1>9 DEF IndInv

LEMMA TakeGroupStep ==
    ASSUME IndInv, NEW i \in GroupIds, partial_take_group(i), bgs[i].free_blocks # 0
    PROVE  IndInv' /\ Pool!Extend
<1> DEFINE len == bgs[i].free_blocks
           r == NewRegion(i, len)
<1>1. /\ len \in Nat \ {0} /\ len <= bgs[i].free_blocks
      /\ ShapedGroup(i, bgs[i])
  BY DEF IndInv, Shaped, GroupRecord
<1>2. /\ ext4_allocate_blocks_from_block_group(i, len)
      /\ ~bgs[i].data_used /\ \A k \in 0 .. (i - 1) : bgs[k].data_used
      /\ todo > len /\ todo \in Nat /\ alloc \in Seq(Region)
  BY DEF partial_take_group, FirstEmpty, IndInv, ScalarTypes
<1>3. len = GroupSize(i) - header_blocks(i)
  BY <1>1, <1>2 DEF ShapedGroup
<1>4. /\ alloc' = Append(alloc, r) /\ owned' = owned /\ lost' = lost
      /\ pc = "partial" /\ pc' = pc /\ want' = want /\ fresh' = fresh /\ force' = force
      /\ todo' = todo - len /\ lap' = lap
  BY DEF partial_take_group
<1> HIDE DEF len
<1>5. /\ Shaped(bgs') /\ bgs'[i].data_used
      /\ bgs'[i].free_blocks = bgs[i].free_blocks - len
      /\ bgs'[i].first_free_block + bgs'[i].free_blocks = GroupSize(i)
      /\ \A k \in GroupIds : k # i => bgs'[k] = bgs[k]
      /\ r \in Region /\ r.bg = i /\ r.len = len
      /\ r.block + r.len = first_block(i) + bgs'[i].first_free_block
      /\ first_block(i) + header_blocks(i) <= r.block
      /\ RegionBlocks(r) \subseteq FreeIn(bgs)
      /\ FreeIn(bgs') = FreeIn(bgs) \ RegionBlocks(r)
  BY <1>1, <1>2, Taken
<1>6. bgs'[i].free_blocks = 0
  BY <1>1, <1>5 DEF len
<1> HIDE DEF r
<1>7. Holders(FreeIn(bgs), alloc, owned, lost)
  BY Views DEF IndInv
<1>8. BlocksOf(alloc) \cap FreeIn(bgs) = {}
  BY <1>7 DEF Holders
<1>9. BlocksOf(alloc') = BlocksOf(alloc) \cup RegionBlocks(r) /\ Apart(alloc')
  BY <1>2, <1>4, <1>5, <1>7, <1>8, AnotherRegion DEF Holders
<1>10. BlocksAccounted'
  <2>1. Holders(FreeIn(bgs'), alloc', owned', lost')
    BY <1>4, <1>5, <1>7, <1>9 DEF Holders
  <2> QED BY <2>1, Views
<1>11. /\ alloc' \in Seq(Region) /\ alloc' # <<>>
       /\ alloc # <<>> => alloc'[1] = alloc[1]
       /\ alloc = <<>> => alloc'[1] = r /\ Len(alloc') = 1
  BY <1>2, <1>4, <1>5, AppendHead
<1>12. ScalarTypes' /\ todo' > 0
  <2>1. todo' \in Nat /\ todo' > 0
    BY <1>1, <1>2, <1>4
  <2> QED BY <1>4, <1>11, <2>1, Zenon DEF ScalarTypes, IndInv
<1>13. alloc # <<>> => /\ alloc[1].bg \in GroupIds /\ bgs'[alloc[1].bg] = bgs[alloc[1].bg]
                       /\ bgs[alloc[1].bg].free_blocks = 0
  <2> SUFFICES ASSUME alloc # <<>>
               PROVE  /\ alloc[1].bg \in GroupIds /\ bgs'[alloc[1].bg] = bgs[alloc[1].bg]
                      /\ bgs[alloc[1].bg].free_blocks = 0
    OBVIOUS
  <2>1. alloc[1].bg \in GroupIds /\ bgs[alloc[1].bg].free_blocks = 0
    BY <1>2, <1>4, HeadRegion DEF Region, IndInv, LoopInv
  <2>2. alloc[1].bg # i
    BY <1>1, <2>1
  <2> QED BY <1>5, <2>1, <2>2
<1>14. HeadAtCursor'
  <2>1. CASE alloc = <<>>
    BY <1>5, <1>11, <2>1 DEF HeadAtCursor
  <2>2. CASE alloc # <<>>
    BY <1>4, <1>11, <1>13, <2>2 DEF HeadAtCursor, IndInv
  <2> QED BY <2>1, <2>2
<1>15. LoopInv'
  <2>1. want' > 0 /\ ~fresh'
    BY <1>4 DEF IndInv, LoopInv
  <2>2. CASE alloc = <<>>
    <3>1. bgs'[alloc'[1].bg].free_blocks = 0
      BY <1>5, <1>6, <1>11, <2>2
    <3>2. CASE i < Groups - 1
      <4>1. r.len > 1
        BY <1>3, <1>5, <3>2, GroupFacts, ConstantTypes
      <4> QED BY <1>11, <1>12, <2>1, <2>2, <3>1, <4>1 DEF LoopInv
    <3>3. CASE ~(i < Groups - 1)
      <4>1. \A k \in GroupIds : k = i \/ k \in 0 .. (i - 1)
        BY <3>3, ConstantTypes DEF GroupIds
      <4>2. \A k \in GroupIds : bgs'[k].data_used
        BY <1>2, <1>5, <4>1
      <4> QED BY <1>12, <2>1, <3>1, <4>2 DEF LoopInv
    <3> QED BY <3>2, <3>3
  <2>3. CASE alloc # <<>>
    <3>1. alloc[1].len > 1
      BY <1>2, <1>4, <2>3 DEF IndInv, LoopInv
    <3>2. bgs'[alloc'[1].bg].free_blocks = 0
      BY <1>11, <1>13, <2>3
    <3> QED BY <1>11, <1>12, <2>1, <2>3, <3>1, <3>2 DEF LoopInv
  <2> QED BY <2>2, <2>3
<1>16. FreshInv'
  BY <1>4 DEF IndInv, LoopInv, FreshInv
<1>17. Pool!Extend
  <2>1. /\ FreeBlocks' = FreeBlocks \ RegionBlocks(r) /\ RegionBlocks(r) \subseteq FreeBlocks
        /\ AllocBlocks' = AllocBlocks \cup RegionBlocks(r)
    BY <1>5, <1>9, Views
  <2> QED BY <1>4, <2>1 DEF Pool!Extend
<1> QED BY <1>5, <1>10, <1>12, <1>14, <1>15, <1>16, <1>17 DEF IndInv

LEMMA FailStep ==
    ASSUME IndInv, partial_fail
    PROVE  IndInv' /\ Pool!Abandon
<1>1. /\ alloc' = <<>> /\ owned' = owned /\ lost' = lost \cup BlocksOf(alloc) /\ bgs' = bgs
      /\ pc' \in {"idle", "nospace"} /\ want' = 0 /\ todo' = 0 /\ fresh' = fresh /\ ~fresh
      /\ lap' = 0 /\ force' = force
  BY Views DEF partial_fail, IndInv, LoopInv
<1>2. BlocksOf(alloc') = {} /\ Apart(alloc')
  BY <1>1, NoRegions
<1>3. Holders(FreeIn(bgs), alloc, owned, lost)
  BY Views DEF IndInv
<1>4. BlocksAccounted'
  <2>1. Holders(FreeIn(bgs'), alloc', owned', lost')
    BY <1>1, <1>2, <1>3 DEF Holders
  <2> QED BY <2>1, Views
<1>5. ScalarTypes'
  <2>1. /\ alloc' \in Seq(Region) /\ want' \in Nat /\ todo' \in Nat /\ lap' \in {0, 1}
        /\ pc' \in {"idle", "partial", "nospace"}
    BY <1>1
  <2> QED BY <1>1, <2>1, Zenon DEF ScalarTypes, IndInv
<1>6. HeadAtCursor' /\ LoopInv' /\ FreshInv'
  BY <1>1 DEF HeadAtCursor, LoopInv, FreshInv
<1>7. Pool!Abandon
  BY <1>1, <1>2, Views DEF Pool!Abandon
<1> QED BY <1>1, <1>4, <1>5, <1>6, <1>7 DEF IndInv

LEMMA ReduceStep ==
    ASSUME IndInv, reduce_allocation
    PROVE  IndInv' /\ Pool!GiveBack
<1> DEFINE i == alloc[1].bg
           x == alloc[1].block + alloc[1].len - 1
<1>1. /\ pc = "idle" /\ fresh /\ alloc # <<>> /\ alloc \in Seq(Region)
      /\ want > 0 /\ want \in Nat
      /\ Len(alloc) > 1 => alloc[1].len > 1
      /\ Shaped(bgs)
  BY DEF reduce_allocation, IndInv, ScalarTypes, FreshInv
<1>2. /\ alloc[1] \in Region /\ 1 \in DOMAIN alloc
      /\ i \in GroupIds /\ alloc[1].block \in Nat /\ alloc[1].len \in Nat \ {0}
  BY <1>1, HeadRegion DEF Region
<1>3. /\ bgs[i].data_used
      /\ alloc[1].block + alloc[1].len = first_block(i) + bgs[i].first_free_block
      /\ first_block(i) + header_blocks(i) <= alloc[1].block
      /\ bgs[i].first_free_block + bgs[i].free_blocks = GroupSize(i)
  BY <1>1 DEF IndInv, HeadAtCursor
<1>4. bgs[i].first_free_block \in Nat
  BY <1>1, <1>2 DEF Shaped, GroupRecord
<1>5. header_blocks(i) < bgs[i].first_free_block
      /\ x = first_block(i) + bgs[i].first_free_block - 1
  BY <1>2, <1>3, <1>4, GroupFacts
<1>6. bgs' = ReturnedTo(bgs, i)
  BY DEF reduce_allocation, ReturnedTo
<1>7. /\ alloc' = IF alloc[1].len > 1 THEN [alloc EXCEPT ![1].len = @ - 1] ELSE <<>>
      /\ owned' = owned /\ lost' = lost /\ pc' = pc /\ want' = want - 1 /\ fresh' = FALSE
      /\ todo' = todo /\ lap' = lap /\ force' = force
  BY DEF reduce_allocation
<1> HIDE DEF i
<1>8. Shaped(bgs') /\ FreeIn(bgs') = FreeIn(bgs) \cup {x}
  <2> HIDE DEF x
  <2> QED BY <1>1, <1>2, <1>3, <1>5, <1>6, ReturnAtCursor
<1> HIDE DEF x
<1>9. Holders(FreeIn(bgs), alloc, owned, lost)
  BY Views DEF IndInv
<1>10. /\ alloc' \in Seq(Region) /\ Apart(alloc')
       /\ BlocksOf(alloc') = BlocksOf(alloc) \ {x} /\ x \in BlocksOf(alloc)
  <2>1. CASE alloc[1].len > 1
    <3>1. alloc' = [alloc EXCEPT ![1].len = @ - 1]
      BY <1>7, <2>1
    <3>2. Apart(alloc)
      BY <1>9 DEF Holders
    <3> QED BY <1>1, <2>1, <3>1, <3>2, ShorterHead DEF x
  <2>2. CASE ~(alloc[1].len > 1)
    <3>1. alloc[1].len = 1 /\ alloc' = <<>>
      BY <1>2, <1>7, <2>2
    <3>2. Len(alloc) = 1
      <4> DEFINE n == Len(alloc)
      <4>1. n \in Nat /\ n # 0
        BY <1>1
      <4>2. ~(n > 1)
        BY <1>1, <2>2
      <4> HIDE DEF n
      <4>3. n = 1
        BY <4>1, <4>2
      <4> QED BY <4>3 DEF n
    <3>3. BlocksOf(alloc) = {x}
      BY <1>1, <3>1, <3>2, SingleBlock DEF x
    <3>4. <<>> \in Seq(Region)
      OBVIOUS
    <3> QED BY <3>1, <3>3, <3>4, NoRegions
  <2> QED BY <2>1, <2>2
<1>11. BlocksAccounted'
  <2>1. Holders(FreeIn(bgs'), alloc', owned', lost')
    BY <1>7, <1>8, <1>9, <1>10, ZenonT(60) DEF Holders
  <2> QED BY <2>1, Views
<1>12. ScalarTypes'
  <2>1. want' \in Nat
    BY <1>1, <1>7
  <2> QED BY <1>7, <1>10, <2>1, Zenon DEF ScalarTypes, IndInv
<1>13. HeadAtCursor' /\ LoopInv' /\ FreshInv'
  BY <1>1, <1>7 DEF HeadAtCursor, LoopInv, FreshInv
<1>14. Pool!GiveBack
  <2>1. /\ FreeBlocks' = FreeBlocks \cup {x}
        /\ AllocBlocks' = AllocBlocks \ {x} /\ x \in AllocBlocks
    BY <1>8, <1>10, Views
  <2> QED BY <1>7, <2>1 DEF Pool!GiveBack
<1> QED BY <1>8, <1>11, <1>12, <1>13, <1>14 DEF IndInv

LEMMA StutterStep ==
    ASSUME IndInv, UNCHANGED vars
    PROVE  IndInv' /\ UNCHANGED <<bgs, alloc, owned, lost>>
<1>1. /\ bgs' = bgs /\ alloc' = alloc /\ owned' = owned /\ lost' = lost /\ pc' = pc
      /\ todo' = todo /\ lap' = lap /\ want' = want /\ fresh' = fresh /\ force' = force
  BY DEF vars
<1>2. ScalarTypes' /\ HeadAtCursor' /\ LoopInv' /\ FreshInv'
  BY <1>1 DEF IndInv, ScalarTypes, HeadAtCursor, LoopInv, FreshInv
<1>3. BlocksAccounted'
  BY <1>1, Views DEF IndInv
<1> QED BY <1>1, <1>2, <1>3 DEF IndInv

-----------------------------------------------------------------------------
(* Every step                                                              *)

\* A step that leaves the bitmaps, the regions and the older blocks alone is a
\* stutter of the pool.
LEMMA PoolStutter ==
    ASSUME UNCHANGED <<bgs, alloc, owned, lost>>
    PROVE  UNCHANGED Pool!vars
BY Views DEF Pool!vars

LEMMA StepInv ==
    ASSUME IndInv, [Next]_vars
    PROVE  IndInv' /\ [Pool!Next]_(Pool!vars)
<1>1. ASSUME NEW i \in GroupIds, allocate_block(i)
      PROVE  IndInv' /\ [Pool!Next]_(Pool!vars)
  BY <1>1, BlockStep DEF Pool!Next
<1>2. ASSUME NEW i \in GroupIds, NEW len \in Lens, allocate_contiguous(i, len)
      PROVE  IndInv' /\ [Pool!Next]_(Pool!vars)
  BY <1>2, ContiguousStep DEF Pool!Next
<1>3. ASSUME NEW len \in Lens, allocate_multiple(len)
      PROVE  IndInv' /\ [Pool!Next]_(Pool!vars)
  BY <1>3, MultipleStep DEF Pool!Next
<1>4. ASSUME NEW i \in GroupIds, partial_take_group(i)
      PROVE  IndInv' /\ [Pool!Next]_(Pool!vars)
  <2>1. CASE bgs[i].free_blocks = 0
    BY <1>4, <2>1, EmptyRegionStep, PoolStutter
  <2>2. CASE bgs[i].free_blocks # 0
    BY <1>4, <2>2, TakeGroupStep DEF Pool!Next
  <2> QED BY <2>1, <2>2
<1>5. ASSUME NEW i \in GroupIds, NEW j \in GroupIds, partial_take_rest(i, j)
      PROVE  IndInv' /\ [Pool!Next]_(Pool!vars)
  BY <1>5, TakeRestStep DEF Pool!Next
<1>6. CASE partial_fail
  BY <1>6, FailStep DEF Pool!Next
<1>7. CASE reduce_allocation
  BY <1>7, ReduceStep DEF Pool!Next
<1>8. CASE Exited \/ UNCHANGED vars
  BY <1>8, StutterStep, PoolStutter DEF Exited
<1> QED BY <1>1, <1>2, <1>3, <1>4, <1>5, <1>6, <1>7, <1>8 DEF Next, AllocateLoop

\* The invariant the theorems below rest on holds in every reachable state.
THEOREM Invariance == Spec => []IndInv
<1>1. Init => IndInv
  BY InitInv
<1>2. IndInv /\ [Next]_vars => IndInv'
  BY StepInv
<1> QED BY <1>1, <1>2, PTL DEF Spec

-----------------------------------------------------------------------------
(* What the invariant gives                                                *)

\* The bits, counts, cursors and lists keep their types: no count goes below
\* zero, no bit lies outside a group (allocate.c:45-59).
THEOREM TypeCorrect == Spec => []TypeOK
<1>1. IndInv => TypeOK
  <2> SUFFICES ASSUME IndInv PROVE TypeOK
    OBVIOUS
  <2>1. DataBlocks \subseteq 0 .. (LenBlocks - 1)
    <3>1. \A i \in GroupIds :
             (first_block(i) + header_blocks(i)) .. (first_block(i) + GroupSize(i) - 1)
                \subseteq 0 .. (LenBlocks - 1)
      BY GroupFacts, ConstantTypes
    <3> QED BY <3>1 DEF DataBlocks
  <2>2. owned \subseteq DataBlocks /\ lost \subseteq DataBlocks
    BY DEF IndInv, BlocksAccounted
  <2>3. bgs \in [GroupIds -> GroupRecord]
    BY DEF IndInv, Shaped
  <2> QED BY <2>1, <2>2, <2>3 DEF TypeOK, IndInv, ScalarTypes, GroupRecord
<1> QED BY <1>1, Invariance, PTL

\* reserve_blocks never meets a bit that is set already (allocate.c:188-204).
THEOREM NeverClashes == Spec => []NoClash
<1>1. IndInv => NoClash
  <2> SUFFICES ASSUME IndInv, NEW i \in GroupIds, NEW len \in 1 .. bgs[i].free_blocks
               PROVE  MarkedBits(bgs[i].first_free_block, len) \cap bgs[i].block_bitmap = {}
    BY DEF NoClash
  <2>1. ShapedGroup(i, bgs[i])
    BY DEF IndInv, Shaped
  <2>2. /\ bgs[i].first_free_block \in Nat /\ bgs[i].free_blocks \in Nat /\ len \in Nat
        /\ bgs[i].first_free_block + bgs[i].free_blocks = GroupSize(i)
    BY <2>1 DEF ShapedGroup, GroupRecord
  <2>3. MarkedBits(bgs[i].first_free_block, len)
          = bgs[i].first_free_block .. (bgs[i].first_free_block + len - 1)
    BY <2>2, MarkedBitsIsRange
  <2>4. bgs[i].block_bitmap = (0 .. (bgs[i].first_free_block - 1))
                              \cup (GroupSize(i) .. (BlocksPerGroup - 1))
    BY <2>1 DEF ShapedGroup
  <2> DEFINE ff == bgs[i].first_free_block
  <2>5. /\ (ff .. (ff + len - 1)) \cap (0 .. (ff - 1)) = {}
        /\ (ff .. (ff + len - 1)) \cap (GroupSize(i) .. (BlocksPerGroup - 1)) = {}
    <3>1. ff + len <= GroupSize(i) /\ ff \in Nat /\ len \in Nat
      BY <2>2
    <3> HIDE DEF ff
    <3> QED BY <3>1, GroupFacts, ConstantTypes
  <2> QED BY <2>3, <2>4, <2>5, Zenon
<1> QED BY <1>1, Invariance, PTL

\* The free count of a group is the number of clear bits in its bitmap.
THEOREM FreeCountsExact == Spec => []FreeCountExact
<1>1. IndInv => FreeCountExact
  <2> SUFFICES ASSUME IndInv, NEW i \in GroupIds
               PROVE  bgs[i].free_blocks = Cardinality(Offsets \ bgs[i].block_bitmap)
    BY DEF FreeCountExact
  <2> DEFINE ff == bgs[i].first_free_block
  <2>1. ShapedGroup(i, bgs[i])
    BY DEF IndInv, Shaped
  <2>2. /\ ff \in Nat /\ bgs[i].free_blocks \in Nat
        /\ \/ ff + bgs[i].free_blocks = GroupSize(i)
           \/ bgs[i].free_blocks = 0 /\ ff = BlocksPerGroup
    BY <2>1 DEF ShapedGroup, GroupRecord
  <2>3. bgs[i].block_bitmap = (0 .. (ff - 1)) \cup (GroupSize(i) .. (BlocksPerGroup - 1))
    BY <2>1 DEF ShapedGroup
  <2> HIDE DEF ff
  <2>4. Offsets \ bgs[i].block_bitmap = ff .. (GroupSize(i) - 1)
    BY <2>2, <2>3, GroupFacts, ConstantTypes DEF Offsets
  <2>5. ff \in Int /\ GroupSize(i) - 1 \in Int
    BY <2>2, GroupFacts
  <2>6. Cardinality(ff .. (GroupSize(i) - 1))
          = IF ff > GroupSize(i) - 1 THEN 0 ELSE GroupSize(i) - 1 - ff + 1
    BY <2>5, FS_Interval
  <2>7. bgs[i].free_blocks
          = IF ff > GroupSize(i) - 1 THEN 0 ELSE GroupSize(i) - 1 - ff + 1
    BY <2>2, GroupFacts, ConstantTypes
  <2> QED BY <2>4, <2>6, <2>7, Zenon
<1> QED BY <1>1, Invariance, PTL

\* Every data block has one holder, and no metadata block has any.
THEOREM EveryBlockAccounted == Spec => []BlocksAccounted
<1>1. IndInv => BlocksAccounted
  BY DEF IndInv
<1> QED BY <1>1, Invariance, PTL

\* The allocator implements the block pool: blocks come out of the free pool
\* only for the newest allocation, and only that one gives any back.
THEOREM AllocateImplementsPool == Spec => ImplementsPool
<1>1. Init => Pool!Init
  <2> SUFFICES ASSUME Init PROVE Pool!Init
    OBVIOUS
  <2>1. IndInv /\ alloc = <<>> /\ owned = {} /\ lost = {}
    BY InitInv DEF Init
  <2>2. AllocBlocks = {}
    BY <2>1, Views, NoRegions
  <2>3. FreeBlocks = DataBlocks
    BY <2>1, <2>2 DEF IndInv, BlocksAccounted
  <2> QED BY <2>1, <2>2, <2>3 DEF Pool!Init
<1>2. IndInv /\ [Next]_vars => [Pool!Next]_(Pool!vars)
  BY StepInv
<1> QED BY <1>1, <1>2, Invariance, PTL DEF Spec, ImplementsPool, Pool!Spec

-----------------------------------------------------------------------------
(* A split request                                                         *)

\* Region r is all the data blocks of its group.
IsWhole(r) == /\ r.block = first_block(r.bg) + header_blocks(r.bg)
              /\ r.len = GroupSize(r.bg) - header_blocks(r.bg)

\* The loop has taken whole groups only; the region added last when it
\* succeeds is the only one that may share its group.
WholeInv ==
    /\ pc = "partial" => \A k \in DOMAIN alloc : IsWhole(alloc[k])
    /\ fresh => \A k \in 1 .. (Len(alloc) - 1) : IsWhole(alloc[k])

\* A list of at most one region has none before its last.
LEMMA NoneBeforeLast ==
    /\ \A k \in DOMAIN <<>> : FALSE
    /\ \A k \in 1 .. (Len(<<>>) - 1) : FALSE
    /\ \A r : \A k \in 1 .. (Len(<<r>>) - 1) : FALSE
<1>1. Len(<<>>) = 0 /\ \A r : Len(<<r>>) = 1
  OBVIOUS
<1>2. 1 .. (0 - 1) = {} /\ 1 .. (1 - 1) = {} /\ DOMAIN <<>> = {}
  OBVIOUS
<1> QED BY <1>1, <1>2

\* A group that held no data gives up all its data blocks.
LEMMA GroupTakenWhole ==
    ASSUME IndInv, NEW i \in GroupIds, partial_take_group(i), bgs[i].free_blocks # 0
    PROVE  /\ NewRegion(i, bgs[i].free_blocks) \in Region
           /\ IsWhole(NewRegion(i, bgs[i].free_blocks))
<1> DEFINE len == bgs[i].free_blocks
           r == NewRegion(i, len)
<1>1. /\ len \in Nat \ {0} /\ bgs[i].first_free_block \in Nat
      /\ ShapedGroup(i, bgs[i])
  BY DEF IndInv, Shaped, GroupRecord
<1>2. ext4_allocate_blocks_from_block_group(i, len) /\ ~bgs[i].data_used
  BY DEF partial_take_group, FirstEmpty
<1>3. len = GroupSize(i) - header_blocks(i)
  BY <1>1, <1>2 DEF ShapedGroup
<1>4. bgs[i].first_free_block = header_blocks(i)
  BY <1>1, <1>3, GroupFacts DEF ShapedGroup
<1>5. r.block = first_block(i) + bgs[i].first_free_block /\ r.len = len /\ r.bg = i
  BY DEF NewRegion
<1>6. r \in Region
  BY <1>1, <1>2, Taken
<1> HIDE DEF r
<1>7. IsWhole(r)
  BY <1>3, <1>4, <1>5 DEF IsWhole
<1> QED BY <1>6, <1>7 DEF r

\* Appending a region leaves the others where they were.
LEMMA AppendRegions ==
    ASSUME NEW a \in Seq(Region), NEW r \in Region
    PROVE  /\ \A k \in DOMAIN Append(a, r) : k \in DOMAIN a \/ Append(a, r)[k] = r
           /\ \A k \in DOMAIN a : Append(a, r)[k] = a[k]
           /\ \A k \in 1 .. (Len(Append(a, r)) - 1) : k \in DOMAIN a
OBVIOUS

LEMMA WholeStep ==
    ASSUME IndInv, WholeInv, [Next]_vars
    PROVE  WholeInv'
<1>1. ASSUME NEW i \in GroupIds, allocate_block(i)
      PROVE  WholeInv'
  <2>1. alloc' = <<>>
    BY <1>1 DEF allocate_block
  <2> QED BY <2>1, NoneBeforeLast DEF WholeInv
<1>2. ASSUME NEW i \in GroupIds, NEW len \in Lens, allocate_contiguous(i, len)
      PROVE  WholeInv'
  <2>1. alloc' = <<NewRegion(i, len)>> /\ pc' # "partial"
    BY <1>2 DEF allocate_contiguous
  <2> QED BY <2>1, NoneBeforeLast DEF WholeInv
<1>3. ASSUME NEW len \in Lens, allocate_multiple(len)
      PROVE  WholeInv'
  <2>1. alloc' = <<>>
    BY <1>3 DEF allocate_multiple
  <2> QED BY <2>1, NoneBeforeLast DEF WholeInv
<1>4. ASSUME NEW i \in GroupIds, partial_take_group(i)
      PROVE  WholeInv'
  <2>1. pc = "partial" /\ pc' = pc /\ fresh' = fresh /\ ~fresh
    BY <1>4 DEF partial_take_group, IndInv, LoopInv
  <2>2. CASE bgs[i].free_blocks = 0
    <3>1. alloc' = alloc
      BY <1>4, <2>2 DEF partial_take_group
    <3> QED BY <2>1, <3>1 DEF WholeInv
  <2>3. CASE bgs[i].free_blocks # 0
    <3> DEFINE r == NewRegion(i, bgs[i].free_blocks)
    <3>1. alloc' = Append(alloc, r) /\ alloc \in Seq(Region)
      BY <1>4, <2>3 DEF partial_take_group, IndInv, ScalarTypes
    <3>2. r \in Region /\ IsWhole(r)
      BY <1>4, <2>3, GroupTakenWhole
    <3> HIDE DEF r
    <3>3. \A k \in DOMAIN alloc' : IsWhole(alloc'[k])
      BY <2>1, <3>1, <3>2, AppendRegions DEF WholeInv
    <3> QED BY <2>1, <3>3 DEF WholeInv
  <2> QED BY <2>2, <2>3
<1>5. ASSUME NEW i \in GroupIds, NEW j \in GroupIds, partial_take_rest(i, j)
      PROVE  WholeInv'
  <2> DEFINE r == NewRegion(j, todo)
  <2>1. /\ todo \in Nat \ {0} /\ todo <= bgs[j].free_blocks /\ alloc \in Seq(Region)
        /\ ext4_allocate_blocks_from_block_group(j, todo)
    BY <1>5 DEF partial_take_rest, FirstFit, Fits, IndInv, LoopInv, ScalarTypes
  <2>2. r \in Region
    BY <2>1, Taken
  <2>3. pc = "partial" /\ pc' # "partial" /\ alloc' = Append(alloc, r)
    BY <1>5 DEF partial_take_rest
  <2> HIDE DEF r
  <2>4. \A k \in 1 .. (Len(alloc') - 1) : IsWhole(alloc'[k])
    BY <2>1, <2>2, <2>3, AppendRegions DEF WholeInv
  <2> QED BY <2>3, <2>4 DEF WholeInv
<1>6. CASE partial_fail
  <2>1. alloc' = <<>>
    BY <1>6 DEF partial_fail
  <2> QED BY <2>1, NoneBeforeLast DEF WholeInv
<1>7. CASE reduce_allocation
  BY <1>7 DEF reduce_allocation, WholeInv
<1>8. CASE Exited \/ UNCHANGED vars
  BY <1>8 DEF Exited, vars, WholeInv
<1> QED BY <1>1, <1>2, <1>3, <1>4, <1>5, <1>6, <1>7, <1>8 DEF Next, AllocateLoop

\* Every region of a split request but the last is all the data blocks of a
\* group that held no data (the comment at allocate.c:439-446).
THEOREM SplitsAreWhole == Spec => []SplitTakesWholeGroups
<1>1. Init => WholeInv
  BY NoneBeforeLast DEF Init, WholeInv
<1>2. IndInv /\ WholeInv /\ [Next]_vars => WholeInv'
  BY WholeStep
<1>3. IndInv /\ WholeInv => SplitTakesWholeGroups
  <2> SUFFICES ASSUME IndInv, WholeInv, fresh, NEW k \in 1 .. (Len(alloc) - 1)
               PROVE  RegionBlocks(alloc[k]) =
                        (first_block(alloc[k].bg) + header_blocks(alloc[k].bg))
                        .. (first_block(alloc[k].bg) + GroupSize(alloc[k].bg) - 1)
    BY DEF SplitTakesWholeGroups
  <2>1. IsWhole(alloc[k])
    BY DEF WholeInv
  <2>2. alloc[k] \in Region
    BY DEF IndInv, ScalarTypes
  <2>3. alloc[k].bg \in GroupIds
    BY <2>2 DEF Region
  <2>4. alloc[k].block + alloc[k].len - 1
          = first_block(alloc[k].bg) + GroupSize(alloc[k].bg) - 1
    BY <2>1, <2>3, GroupFacts DEF IsWhole
  <2> QED BY <2>1, <2>4, Zenon DEF IsWhole, RegionBlocks
<1> QED BY <1>1, <1>2, <1>3, Invariance, PTL DEF Spec

-----------------------------------------------------------------------------
(* The number of blocks a caller holds                                     *)

\* The blocks held and the blocks still to find add up to the request.
CountInv ==
    /\ pc = "idle" => todo = 0
    /\ pc # "nospace" => Cardinality(BlocksOf(alloc)) + todo = want

LEMMA RegionCount ==
    ASSUME NEW r \in Region
    PROVE  IsFiniteSet(RegionBlocks(r)) /\ Cardinality(RegionBlocks(r)) = r.len
<1>1. r.block \in Nat /\ r.len \in Nat \ {0}
  BY DEF Region
<1> DEFINE last == r.block + r.len - 1
<1>2. r.block \in Int /\ last \in Int /\ ~(r.block > last) /\ last - r.block + 1 = r.len
  BY <1>1
<1> HIDE DEF last
<1>3. IsFiniteSet(r.block .. last)
      /\ Cardinality(r.block .. last) = IF r.block > last THEN 0 ELSE last - r.block + 1
  BY <1>2, FS_Interval
<1> QED BY <1>2, <1>3 DEF RegionBlocks, last

\* An allocation holds finitely many blocks, and none of the free ones.
LEMMA HeldBlocks ==
    ASSUME IndInv
    PROVE  /\ IsFiniteSet(BlocksOf(alloc)) /\ Cardinality(BlocksOf(alloc)) \in Nat
           /\ BlocksOf(alloc) \cap FreeIn(bgs) = {}
<1>1. Holders(FreeIn(bgs), alloc, owned, lost)
  BY Views DEF IndInv
<1>2. DataBlocks \subseteq 0 .. (LenBlocks - 1)
  <2>1. \A i \in GroupIds :
           (first_block(i) + header_blocks(i)) .. (first_block(i) + GroupSize(i) - 1)
              \subseteq 0 .. (LenBlocks - 1)
    BY GroupFacts, ConstantTypes
  <2> QED BY <2>1 DEF DataBlocks
<1>3. BlocksOf(alloc) \in SUBSET (0 .. (LenBlocks - 1))
  BY <1>1, <1>2 DEF Holders
<1>4. IsFiniteSet(0 .. (LenBlocks - 1))
  BY FS_Interval, ConstantTypes
<1>5. IsFiniteSet(BlocksOf(alloc))
  BY <1>3, <1>4, FS_Subset
<1>6. BlocksOf(alloc) \cap FreeIn(bgs) = {}
  BY <1>1 DEF Holders
<1> QED BY <1>5, <1>6, FS_CardinalityType

\* A region taken from a group adds its length to what the allocation holds.
LEMMA MoreBlocks ==
    ASSUME IndInv, NEW r \in Region, RegionBlocks(r) \subseteq FreeIn(bgs)
    PROVE  Cardinality(BlocksOf(Append(alloc, r))) = Cardinality(BlocksOf(alloc)) + r.len
<1> DEFINE held == BlocksOf(alloc)
           more == RegionBlocks(r)
<1>1. /\ IsFiniteSet(held) /\ Cardinality(held) \in Nat /\ held \cap more = {}
  BY HeldBlocks
<1>2. IsFiniteSet(more) /\ Cardinality(more) = r.len /\ r.len \in Nat
  BY RegionCount DEF Region
<1>3. BlocksOf(Append(alloc, r)) = held \cup more
  BY AnotherRegion DEF IndInv, ScalarTypes
<1> HIDE DEF held, more
<1>4. Cardinality(held \cup more) = Cardinality(held) + Cardinality(more) - Cardinality(held \cap more)
  BY <1>1, <1>2, FS_Union
<1>5. Cardinality(held \cap more) = 0
  BY <1>1, FS_EmptySet
<1> QED BY <1>1, <1>2, <1>3, <1>4, <1>5 DEF held

\* reduce_allocation takes one block away, whether it shortens the first region
\* or drops the list.
LEMMA OneBlockLess ==
    ASSUME IndInv, reduce_allocation
    PROVE  Cardinality(BlocksOf(alloc')) = Cardinality(BlocksOf(alloc)) - 1
<1> DEFINE x == alloc[1].block + alloc[1].len - 1
<1>1. /\ fresh /\ alloc # <<>> /\ alloc \in Seq(Region)
      /\ Len(alloc) > 1 => alloc[1].len > 1
      /\ Apart(alloc)
  BY Views DEF reduce_allocation, IndInv, ScalarTypes, FreshInv, Holders
<1>2. alloc[1].len \in Nat \ {0}
  BY <1>1, HeadRegion DEF Region
<1>3. alloc' = IF alloc[1].len > 1 THEN [alloc EXCEPT ![1].len = @ - 1] ELSE <<>>
  BY DEF reduce_allocation
<1>4. BlocksOf(alloc') = BlocksOf(alloc) \ {x} /\ x \in BlocksOf(alloc)
  <2>1. CASE alloc[1].len > 1
    <3>1. alloc' = [alloc EXCEPT ![1].len = @ - 1]
      BY <1>3, <2>1
    <3> QED BY <1>1, <2>1, <3>1, ShorterHead
  <2>2. CASE ~(alloc[1].len > 1)
    <3>1. alloc[1].len = 1 /\ alloc' = <<>>
      BY <1>2, <1>3, <2>2
    <3>2. Len(alloc) = 1
      <4> DEFINE n == Len(alloc)
      <4>1. n \in Nat /\ n # 0 /\ ~(n > 1)
        BY <1>1, <2>2
      <4> HIDE DEF n
      <4>2. n = 1
        BY <4>1
      <4> QED BY <4>2 DEF n
    <3>3. BlocksOf(alloc) = {x}
      BY <1>1, <3>1, <3>2, SingleBlock
    <3> QED BY <3>1, <3>3, NoRegions
  <2> QED BY <2>1, <2>2
<1> HIDE DEF x
<1>5. Cardinality(BlocksOf(alloc) \ {x}) = Cardinality(BlocksOf(alloc)) - 1
  BY <1>4, HeldBlocks, FS_RemoveElement
<1> QED BY <1>4, <1>5

\* An allocation that holds no region holds no block.
LEMMA NoBlocks == Cardinality(BlocksOf(<<>>)) = 0
BY NoRegions, FS_EmptySet

LEMMA CountStep ==
    ASSUME IndInv, CountInv, [Next]_vars
    PROVE  CountInv'
<1>1. todo \in Nat /\ want \in Nat /\ Cardinality(BlocksOf(alloc)) \in Nat
  BY HeldBlocks DEF IndInv, ScalarTypes
<1>2. ASSUME NEW i \in GroupIds, allocate_block(i)
      PROVE  CountInv'
  <2>1. pc = "idle" /\ pc' = "idle" /\ alloc' = <<>> /\ todo' = todo /\ want' = 0
    BY <1>2 DEF allocate_block
  <2> QED BY <2>1, NoBlocks DEF CountInv
<1>3. ASSUME NEW i \in GroupIds, NEW len \in Lens, allocate_contiguous(i, len)
      PROVE  CountInv'
  <2> DEFINE r == NewRegion(i, len)
  <2>1. /\ len \in Nat \ {0} /\ len <= bgs[i].free_blocks
        /\ ext4_allocate_blocks_from_block_group(i, len)
    BY <1>3, ConstantTypes DEF allocate_contiguous, FirstFit, Fits
  <2>2. r \in Region /\ r.len = len
    BY <2>1, Taken
  <2>3. pc = "idle" /\ pc' = "idle" /\ alloc' = <<r>> /\ todo' = todo /\ want' = len
    BY <1>3 DEF allocate_contiguous
  <2> HIDE DEF r
  <2>4. Cardinality(BlocksOf(alloc')) = len
    BY <2>2, <2>3, OneRegion, RegionCount
  <2> QED BY <2>1, <2>3, <2>4 DEF CountInv
<1>4. ASSUME NEW len \in Lens, allocate_multiple(len)
      PROVE  CountInv'
  <2>1. pc' = "partial" /\ alloc' = <<>> /\ todo' = len /\ want' = len /\ len \in Nat
    BY <1>4, ConstantTypes DEF allocate_multiple
  <2> QED BY <2>1, NoBlocks DEF CountInv
<1>5. ASSUME NEW i \in GroupIds, partial_take_group(i)
      PROVE  CountInv'
  <2> DEFINE len == bgs[i].free_blocks
             r == NewRegion(i, len)
  <2>1. /\ pc = "partial" /\ pc' = pc /\ todo' = todo - len /\ want' = want
        /\ ext4_allocate_blocks_from_block_group(i, len)
        /\ alloc' = IF len = 0 THEN alloc ELSE Append(alloc, r)
    BY <1>5 DEF partial_take_group
  <2>2. len \in Nat /\ len <= bgs[i].free_blocks
    BY DEF IndInv, Shaped, GroupRecord
  <2>3. CASE len = 0
    <3>1. alloc' = alloc /\ todo' = todo
      BY <1>1, <2>1, <2>3
    <3> QED BY <2>1, <3>1 DEF CountInv
  <2>4. CASE len # 0
    <3>1. r \in Region /\ r.len = len /\ RegionBlocks(r) \subseteq FreeIn(bgs)
      BY <2>1, <2>2, <2>4, Taken
    <3>2. alloc' = Append(alloc, r)
      BY <2>1, <2>4
    <3> HIDE DEF len, r
    <3>3. Cardinality(BlocksOf(alloc')) = Cardinality(BlocksOf(alloc)) + len
      BY <3>1, <3>2, MoreBlocks
    <3> QED BY <1>1, <2>1, <2>2, <3>3 DEF CountInv
  <2> QED BY <2>3, <2>4
<1>6. ASSUME NEW i \in GroupIds, NEW j \in GroupIds, partial_take_rest(i, j)
      PROVE  CountInv'
  <2> DEFINE r == NewRegion(j, todo)
  <2>1. /\ todo \in Nat \ {0} /\ todo <= bgs[j].free_blocks
        /\ ext4_allocate_blocks_from_block_group(j, todo)
    BY <1>6 DEF partial_take_rest, FirstFit, Fits, IndInv, LoopInv, ScalarTypes
  <2>2. r \in Region /\ r.len = todo /\ RegionBlocks(r) \subseteq FreeIn(bgs)
    BY <2>1, Taken
  <2>3. pc = "partial" /\ alloc' = Append(alloc, r) /\ todo' = 0 /\ want' = want
    BY <1>6 DEF partial_take_rest
  <2> HIDE DEF r
  <2>4. Cardinality(BlocksOf(alloc')) = Cardinality(BlocksOf(alloc)) + todo
    BY <2>2, <2>3, MoreBlocks
  <2> QED BY <1>1, <2>3, <2>4 DEF CountInv
<1>7. CASE partial_fail
  <2>1. alloc' = <<>> /\ todo' = 0 /\ want' = 0
    BY <1>7 DEF partial_fail
  <2> QED BY <2>1, NoBlocks DEF CountInv
<1>8. CASE reduce_allocation
  <2>1. pc = "idle" /\ pc' = pc /\ todo' = todo /\ want' = want - 1
    BY <1>8 DEF reduce_allocation
  <2>2. Cardinality(BlocksOf(alloc')) = Cardinality(BlocksOf(alloc)) - 1
    BY <1>8, OneBlockLess
  <2> QED BY <1>1, <2>1, <2>2 DEF CountInv
<1>9. CASE Exited \/ UNCHANGED vars
  BY <1>9 DEF Exited, vars, CountInv
<1> QED BY <1>2, <1>3, <1>4, <1>5, <1>6, <1>7, <1>8, <1>9 DEF Next, AllocateLoop

\* The caller of allocate_blocks holds as many distinct blocks as it asked for,
\* less the one it may have given back (extent.c:77-90).
THEOREM RequestsAreMet == Spec => []RequestSatisfied
<1>1. Init => CountInv
  BY NoBlocks DEF Init, CountInv
<1>2. IndInv /\ CountInv /\ [Next]_vars => CountInv'
  BY CountStep
<1>3. CountInv => RequestSatisfied
  BY Views DEF CountInv, RequestSatisfied
<1> QED BY <1>1, <1>2, <1>3, Invariance, PTL DEF Spec

-----------------------------------------------------------------------------
(* What the maps of files rely on                                          *)

LongRegions ==
    fresh => \A k \in 1 .. (Len(alloc) - 1) : alloc[k].len > 1

\* Only the last group may have a single block for data, and it is the last to
\* be taken whole.
LongInv ==
    /\ pc = "partial" /\ (\E i \in GroupIds : ~bgs[i].data_used)
          => \A k \in DOMAIN alloc : alloc[k].len > 1
    /\ LongRegions

LEMMA LongTakeGroup ==
    ASSUME IndInv, LongInv, NEW i \in GroupIds, partial_take_group(i),
           bgs[i].free_blocks # 0
    PROVE  LongInv'
<1> DEFINE len == bgs[i].free_blocks
           r == NewRegion(i, len)
<1>1. pc = "partial" /\ pc' = pc /\ fresh' = fresh /\ ~fresh
  BY DEF partial_take_group, IndInv, LoopInv
<1>2. /\ len \in Nat \ {0} /\ len <= bgs[i].free_blocks
      /\ ext4_allocate_blocks_from_block_group(i, len)
      /\ ~bgs[i].data_used /\ \A k \in 0 .. (i - 1) : bgs[k].data_used
      /\ alloc' = Append(alloc, r) /\ alloc \in Seq(Region)
  BY DEF partial_take_group, FirstEmpty, IndInv, Shaped, GroupRecord, ScalarTypes
<1>3. /\ bgs'[i].data_used /\ \A k \in GroupIds : k # i => bgs'[k] = bgs[k]
      /\ r \in Region /\ r.len = len
  BY <1>2, Taken
<1>4. len = GroupSize(i) - header_blocks(i)
  BY <1>2 DEF IndInv, Shaped, ShapedGroup
<1> HIDE DEF len, r
<1>5. CASE i < Groups - 1
  <2>1. r.len > 1
    BY <1>3, <1>4, <1>5, GroupFacts, ConstantTypes
  <2>2. \A k \in DOMAIN alloc : alloc[k].len > 1
    BY <1>1, <1>2 DEF LongInv
  <2>3. \A k \in DOMAIN alloc' : alloc'[k].len > 1
    BY <1>2, <1>3, <2>1, <2>2, AppendRegions
  <2> QED BY <1>1, <2>3 DEF LongInv, LongRegions
<1>6. CASE ~(i < Groups - 1)
  <2>1. \A k \in GroupIds : k = i \/ k \in 0 .. (i - 1)
    BY <1>6, ConstantTypes DEF GroupIds
  <2>2. \A k \in GroupIds : bgs'[k].data_used
    BY <1>2, <1>3, <2>1
  <2> QED BY <1>1, <2>2 DEF LongInv, LongRegions
<1> QED BY <1>5, <1>6

LEMMA LongStep ==
    ASSUME IndInv, LongInv, [Next]_vars
    PROVE  LongInv'
<1>1. ASSUME NEW i \in GroupIds, allocate_block(i)
      PROVE  LongInv'
  <2>1. alloc' = <<>>
    BY <1>1 DEF allocate_block
  <2> QED BY <2>1, NoneBeforeLast DEF LongInv, LongRegions
<1>2. ASSUME NEW i \in GroupIds, NEW len \in Lens, allocate_contiguous(i, len)
      PROVE  LongInv'
  <2>1. alloc' = <<NewRegion(i, len)>> /\ pc' # "partial"
    BY <1>2 DEF allocate_contiguous
  <2> QED BY <2>1, NoneBeforeLast DEF LongInv, LongRegions
<1>3. ASSUME NEW len \in Lens, allocate_multiple(len)
      PROVE  LongInv'
  <2>1. alloc' = <<>>
    BY <1>3 DEF allocate_multiple
  <2> QED BY <2>1, NoneBeforeLast DEF LongInv, LongRegions
<1>4. ASSUME NEW i \in GroupIds, partial_take_group(i)
      PROVE  LongInv'
  <2>1. CASE bgs[i].free_blocks = 0
    <3>1. bgs' = bgs /\ alloc' = alloc
      BY <1>4, <2>1, EmptyRegionStep
    <3>2. pc' = pc /\ fresh' = fresh
      BY <1>4 DEF partial_take_group
    <3> QED BY <3>1, <3>2 DEF LongInv, LongRegions
  <2>2. CASE bgs[i].free_blocks # 0
    BY <1>4, <2>2, LongTakeGroup
  <2> QED BY <2>1, <2>2
<1>5. ASSUME NEW i \in GroupIds, NEW j \in GroupIds, partial_take_rest(i, j)
      PROVE  LongInv'
  <2> DEFINE r == NewRegion(j, todo)
  <2>1. /\ todo \in Nat \ {0} /\ todo <= bgs[j].free_blocks /\ alloc \in Seq(Region)
        /\ ext4_allocate_blocks_from_block_group(j, todo) /\ ~bgs[i].data_used
    BY <1>5 DEF partial_take_rest, FirstFit, FirstEmpty, Fits, IndInv, LoopInv, ScalarTypes
  <2>2. r \in Region
    BY <2>1, Taken
  <2>3. pc = "partial" /\ pc' # "partial" /\ alloc' = Append(alloc, r)
    BY <1>5 DEF partial_take_rest
  <2> HIDE DEF r
  <2>4. \A k \in DOMAIN alloc : alloc[k].len > 1
    BY <2>1, <2>3 DEF LongInv
  <2>5. \A k \in 1 .. (Len(alloc') - 1) : alloc'[k].len > 1
    BY <2>1, <2>2, <2>3, <2>4, AppendRegions
  <2> QED BY <2>3, <2>5 DEF LongInv, LongRegions
<1>6. CASE partial_fail
  <2>1. alloc' = <<>>
    BY <1>6 DEF partial_fail
  <2> QED BY <2>1, NoneBeforeLast DEF LongInv, LongRegions
<1>7. CASE reduce_allocation
  BY <1>7 DEF reduce_allocation, LongInv, LongRegions
<1>8. CASE Exited \/ UNCHANGED vars
  BY <1>8 DEF Exited, vars, LongInv, LongRegions
<1> QED BY <1>1, <1>2, <1>3, <1>4, <1>5, <1>6, <1>7, <1>8 DEF Next, AllocateLoop

\* A region with others behind it has more than one block, so that splitting the
\* first block off (allocate.c:544-590) leaves some of it.  Extent assumes this of
\* the allocations it gets (LayoutsAreAllocations).
THEOREM SplitRegionsAreLong == Spec => []LongRegions
<1>1. Init => LongInv
  BY NoneBeforeLast DEF Init, LongInv, LongRegions
<1>2. IndInv /\ LongInv /\ [Next]_vars => LongInv'
  BY LongStep
<1>3. LongInv => LongRegions
  BY DEF LongInv
<1> QED BY <1>1, <1>2, <1>3, Invariance, PTL DEF Spec
==============================================================================
