------------------------------ MODULE BlockPool ------------------------------
(***************************************************************************)
(* What the block allocator of ext4_utils promises its callers, with no    *)
(* block groups, bitmaps or counters: every data block of the file system  *)
(* is free, part of the newest allocation, kept for good by an inode, or   *)
(* lost to a request that failed half way.  Blocks leave the free pool     *)
(* only for the newest allocation (or for a caller of allocate_block), and *)
(* only blocks of the newest allocation ever come back.                    *)
(***************************************************************************)

CONSTANT Blocks   \* the data blocks of the file system

VARIABLES free,   \* blocks nobody holds
          newest, \* blocks of the most recent allocation, still reducible
          kept,   \* blocks of the earlier allocations
          lost    \* blocks taken for requests that then failed

vars == <<free, newest, kept, lost>>

Init == /\ free = Blocks
        /\ newest = {}
        /\ kept = {}
        /\ lost = {}

\* A new allocation starts with some free blocks (none, when it will fail);
\* the previous one is kept for good.
Take == /\ free' \in SUBSET free
        /\ newest' = free \ free'
        /\ kept' = kept \cup newest
        /\ UNCHANGED lost

\* One block handed out on its own: it can never be returned.
TakeOne == /\ free' \in SUBSET free
           /\ newest' = {}
           /\ kept' = kept \cup newest \cup (free \ free')
           /\ UNCHANGED lost

\* The newest allocation grows by another region.
Extend == /\ free' \in SUBSET free
          /\ newest' = newest \cup (free \ free')
          /\ UNCHANGED <<kept, lost>>

\* The tail of the newest allocation goes back.
GiveBack == /\ newest' \in SUBSET newest
            /\ free' = free \cup (newest \ newest')
            /\ UNCHANGED <<kept, lost>>

\* The newest request fails: nobody knows its blocks any more.
Abandon == /\ lost' = lost \cup newest
           /\ newest' = {}
           /\ UNCHANGED <<free, kept>>

Next == Take \/ TakeOne \/ Extend \/ GiveBack \/ Abandon

Spec == Init /\ [][Next]_vars

\* Every block has exactly one holder.
Partition == /\ free \cup newest \cup kept \cup lost = Blocks
             /\ free \cap (newest \cup kept \cup lost) = {}
             /\ newest \cap (kept \cup lost) = {}
             /\ kept \cap lost = {}
==============================================================================
