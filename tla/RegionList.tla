----------------------------- MODULE RegionList -----------------------------
(***************************************************************************)
(* The block_allocation of ext4_utils/allocate.c: two doubly linked lists  *)
(* of regions (the data and the out-of-band blocks), each with an          *)
(* iterator.  The regions live in mem, a sequence that malloc appends to;  *)
(* a pointer is an index of it, or NULL.  The operators take an allocation *)
(* a = [mem, list, oob_list] and return it as the code leaves it.          *)
(***************************************************************************)
EXTENDS Integers, Sequences

NULL == 0

EmptyList == [first |-> NULL, last |-> NULL, iter |-> NULL, partial_iter |-> 0]

create_allocation == [mem |-> <<>>, list |-> EmptyList, oob_list |-> EmptyList]

\* The chain of next pointers that starts at p.
Chain(mem, p) ==
    LET c[n \in 0 .. Len(mem)] ==
            [q \in 0 .. Len(mem) |->
               IF n = 0 \/ q = NULL THEN <<>> ELSE <<q>> \o c[n - 1][mem[q].next]]
    IN  c[Len(mem)][p]

block_allocation_num_regions(a) == Len(Chain(a.mem, a.list.first))

-----------------------------------------------------------------------------
(* Changing the lists                                                      *)

\* MUTANT: the list still begins with the region.
region_list_remove_KeepsFirst(a, reg) ==
    LET n == a.mem[reg].next
        p == a.mem[reg].prev
        Unlinked(q) ==
            IF q = reg THEN [a.mem[q] EXCEPT !.next = NULL, !.prev = NULL]
            ELSE [a.mem[q] EXCEPT !.next = IF q = p THEN n ELSE @,
                                  !.prev = IF q = n THEN p ELSE @]
    IN  [a EXCEPT !.mem = [q \in DOMAIN a.mem |-> Unlinked(q)],
                  !.list.last  = IF @ = reg THEN p ELSE @]

\* The neighbours are found through the region's own pointers.
region_list_remove(a, reg) ==
    LET n == a.mem[reg].next
        p == a.mem[reg].prev
        Unlinked(q) ==
            IF q = reg THEN [a.mem[q] EXCEPT !.next = NULL, !.prev = NULL]
            ELSE [a.mem[q] EXCEPT !.next = IF q = p THEN n ELSE @,
                                  !.prev = IF q = n THEN p ELSE @]
    IN  [a EXCEPT !.mem = [q \in DOMAIN a.mem |-> Unlinked(q)],
                  !.list.first = IF @ = reg THEN n ELSE @,
                  !.list.last  = IF @ = reg THEN p ELSE @]

\* An append to one of the lists, a.list or a.oob_list: the memory and the list.
region_list_append(mem, list, reg) ==
    IF list.first = NULL
    THEN [mem  |-> [mem EXCEPT ![reg].prev = NULL, ![reg].next = NULL],
          list |-> [first |-> reg, last |-> reg, iter |-> reg, partial_iter |-> 0]]
    ELSE [mem  |-> [q \in DOMAIN mem |->
                      IF q = reg THEN [mem[q] EXCEPT !.prev = list.last, !.next = NULL]
                      ELSE IF q = list.last THEN [mem[q] EXCEPT !.next = reg]
                      ELSE mem[q]],
          list |-> [list EXCEPT !.last = reg]]

append_region(a, block, len, bg) ==
    LET mem == Append(a.mem, [block |-> block, len |-> len, bg |-> bg,
                              next |-> NULL, prev |-> NULL])
        new == region_list_append(mem, a.list, Len(mem))
    IN  [a EXCEPT !.mem = new.mem, !.list = new.list]

\* What allocate_blocks returns: do_allocate has linked the regions, but last is
\* the first of them.
allocate_blocks(regions) ==
    LET n == Len(regions)
        Linked(k) == [block |-> regions[k].block, len |-> regions[k].len,
                      bg |-> regions[k].bg,
                      prev |-> k - 1, next |-> IF k = n THEN NULL ELSE k + 1]
    IN  [create_allocation EXCEPT
            !.mem = [k \in 1 .. n |-> Linked(k)],
            !.list = [first |-> 1, last |-> 1, iter |-> 1, partial_iter |-> 0]]

\* reduce_allocation(alloc, 1): free_blocks gets the group of list.last.
reduce_allocation(a) ==
    LET last == a.list.last
        p    == a.mem[last].prev
    IN  IF a.mem[last].len > 1 THEN [a EXCEPT !.mem[last].len = @ - 1]
        ELSE IF p # NULL THEN [a EXCEPT !.mem[p].next = NULL]
        ELSE [a EXCEPT !.list = EmptyList]

-----------------------------------------------------------------------------
(* Splitting                                                               *)

\* The region that len blocks behind the start of reg lie in, and what is left of
\* len there: a len that ends with a region leads to the next one.
SkipRegions(a, reg, len) ==
    LET chain == Chain(a.mem, reg)
        s[k \in 1 .. (Len(chain) + 1)] ==
            [l \in 0 .. len |->
               IF k > Len(chain) THEN [reg |-> NULL, left |-> l]
               ELSE IF l >= a.mem[chain[k]].len THEN s[k + 1][l - a.mem[chain[k]].len]
               ELSE [reg |-> chain[k], left |-> l]]
    IN  s[1][len]

\* MUTANT: the iterator stays in front of the split.
do_split_allocation_IterStays(a, len) ==
    LET at  == SkipRegions(a, a.list.iter, len)
        old == a.mem[at.reg]
        new == [old EXCEPT !.block = @ + at.left, !.len = @ - at.left, !.prev = at.reg]
    IN  IF at.reg = NULL \/ at.left = 0 THEN [alloc |-> a, reg |-> at.reg]
        ELSE [alloc |-> [a EXCEPT
                 !.mem = Append([@ EXCEPT ![at.reg].next = Len(a.mem) + 1,
                                          ![at.reg].len = at.left], new)],
              reg |-> a.list.iter]

\* The allocation and the region returned.  Neither the prev pointer of the
\* region behind the new one nor list.last is changed.
do_split_allocation(a, len) ==
    LET at  == SkipRegions(a, a.list.iter, len)
        old == a.mem[at.reg]
        new == [old EXCEPT !.block = @ + at.left, !.len = @ - at.left, !.prev = at.reg]
    IN  IF at.reg = NULL \/ at.left = 0 THEN [alloc |-> a, reg |-> at.reg]
        ELSE [alloc |-> [a EXCEPT
                 !.mem = Append([@ EXCEPT ![at.reg].next = Len(a.mem) + 1,
                                          ![at.reg].len = at.left], new),
                 !.list.iter = Len(a.mem) + 1],
              reg |-> a.list.iter]

\* First a split at the iterator, then len blocks behind it.
split_allocation(a, len) ==
    LET here == do_split_allocation(a, a.list.partial_iter).alloc
        r    == do_split_allocation(here, len)
    IN  [r EXCEPT !.alloc.list.partial_iter = 0]

\* The regions from the one split off to the iterator go to oob_list.
MoveToOob(a, from) ==
    LET m[n \in 0 .. Len(a.mem)] ==
            IF n = 0 THEN [alloc |-> a, oob |-> from]
            ELSE LET s == m[n - 1] IN
                 IF s.oob \in {NULL, s.alloc.list.iter} THEN s
                 ELSE LET removed == region_list_remove(s.alloc, s.oob)
                          new == region_list_append(removed.mem, removed.oob_list, s.oob)
                      IN  [alloc |-> [removed EXCEPT !.mem = new.mem, !.oob_list = new.list],
                           oob   |-> s.alloc.mem[s.oob].next]
    IN  m[Len(a.mem)].alloc

\* Without a region to split off the caller is told so.
reserve_oob_blocks(a, blocks) ==
    LET s == split_allocation(a, blocks)
    IN  [failed |-> s.reg = NULL,
         alloc  |-> IF s.reg = NULL THEN s.alloc ELSE MoveToOob(s.alloc, s.reg)]

-----------------------------------------------------------------------------
(* Reading                                                                 *)

get_region(a) == [block |-> a.mem[a.list.iter].block,
                  len   |-> a.mem[a.list.iter].len - a.list.partial_iter]

get_next_region(a) ==
    [a EXCEPT !.list.iter = a.mem[@].next, !.list.partial_iter = 0]

last_region(a) == a.list.iter = NULL

rewind_alloc(a) == [a EXCEPT !.list.iter = a.list.first, !.list.partial_iter = 0]

EXT4_ALLOCATE_FAILED == -1

\* get_block and get_oob_block: the block'th block behind the list's iterator.
BlockAt(a, list, block) ==
    LET at == SkipRegions(a, list.iter, block + list.partial_iter)
    IN  IF at.reg = NULL THEN EXT4_ALLOCATE_FAILED ELSE a.mem[at.reg].block + at.left

get_block(a, block)     == BlockAt(a, a.list, block)
get_oob_block(a, block) == BlockAt(a, a.oob_list, block)

-----------------------------------------------------------------------------
(* Advancing                                                               *)

\* The position of advance_list_ptr behind blocks more blocks.  It walks a pointer
\* of its own: only partial_iter is stored, the list's iterator stays, so it may
\* come to lie behind the iterator's region.
advance_list_ptr(a, list, blocks) ==
    LET chain == Chain(a.mem, list.iter)
        walk[k \in 1 .. (Len(chain) + 1)] ==
            [b \in Nat |->
               [partial \in {0, list.partial_iter} |->
                  IF b = 0 \/ k > Len(chain) THEN [partial |-> partial, failed |-> b > 0]
                  ELSE LET len == a.mem[chain[k]].len IN
                       IF len > partial + b THEN [partial |-> partial + b, failed |-> FALSE]
                       ELSE walk[k + 1][b - (len - partial)][0]]]
    IN  walk[1][blocks][list.partial_iter]

advance_blocks(a, blocks) ==
    LET w == advance_list_ptr(a, a.list, blocks)
    IN  [failed |-> w.failed, alloc |-> [a EXCEPT !.list.partial_iter = w.partial]]

advance_oob_blocks(a, blocks) ==
    LET w == advance_list_ptr(a, a.oob_list, blocks)
    IN  [failed |-> w.failed, alloc |-> [a EXCEPT !.oob_list.partial_iter = w.partial]]

-----------------------------------------------------------------------------
(* What the lists hold                                                     *)

\* The blocks of a list in its order.
BlocksFrom(a, p) ==
    LET chain == Chain(a.mem, p)
        b[k \in 0 .. Len(chain)] ==
            IF k = 0 THEN <<>>
            ELSE LET r == a.mem[chain[k]]
                 IN  b[k - 1] \o [n \in 1 .. r.len |-> r.block + n - 1]
    IN  b[Len(chain)]
==============================================================================
