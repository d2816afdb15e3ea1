----------------------------- MODULE BackedBlock -----------------------------
(***************************************************************************)
(* The queue of data to write, ext4_utils/backed_block.c: a linked list    *)
(* kept in ascending order of block, with a pointer to the last insertion  *)
(* as the place to start searching from.                                   *)
(*                                                                         *)
(* The list is a sequence, a pointer into it is an index (0 is NULL).  The *)
(* callers queue pieces: a piece says where it goes and what it holds.     *)
(***************************************************************************)
EXTENDS Integers, Sequences, FiniteSets

CONSTANTS
    Pieces  \* what may be queued: records, whose field block is where it goes

ASSUME PiecesHaveBlocks == \A p \in Pieces : p.block \in Nat

VARIABLES
    data_blocks,  \* the list
    last_used,    \* index of the piece queued last, 0 for NULL
    queued        \* the pieces queued so far

queueVars == <<data_blocks, last_used, queued>>

-----------------------------------------------------------------------------

\* MUTANT: the new element does not take over the successor.
InsertBehind_DropsRest(n, p) ==
    [k \in 1 .. (n + 1) |-> IF k <= n THEN data_blocks[k] ELSE p]

\* The list with p put behind its first n elements.
InsertBehind(n, p) ==
    [k \in 1 .. (Len(data_blocks) + 1) |->
        IF k <= n THEN data_blocks[k]
        ELSE IF k = n + 1 THEN p ELSE data_blocks[k - 1]]

BlockAt(k) == data_blocks[k].block

\* MUTANT: always starts from last_used.
SearchFrom_LastUsed(p) == IF last_used # 0 THEN last_used ELSE 1

\* Where the search for p's place starts.
SearchFrom(p) ==
    IF last_used # 0 /\ p.block > BlockAt(last_used) THEN last_used ELSE 1

\* The search stops at n: the end of the list, or the first element whose
\* successor is not below p.
StopsAt(n, p) ==
    /\ n >= SearchFrom(p)
    /\ n < Len(data_blocks) => BlockAt(n + 1) >= p.block
    /\ \A k \in SearchFrom(p) .. (n - 1) : BlockAt(k + 1) < p.block

\* queue_db, into an empty list or before its head.  Neither moves last_used,
\* so the element it points to is one place further on.
queue_db_first(p) ==
    /\ data_blocks # <<>> => BlockAt(1) > p.block
    /\ data_blocks' = InsertBehind(0, p)
    /\ last_used' = IF last_used = 0 THEN 0 ELSE last_used + 1

\* queue_db, behind the element where the search stops.
queue_db_behind(n, p) ==
    /\ data_blocks # <<>> /\ BlockAt(1) <= p.block
    /\ StopsAt(n, p)
    /\ data_blocks' = InsertBehind(n, p)
    /\ last_used' = n + 1

\* queue_data_block and queue_data_file
queue_data(p) ==
    /\ \/ queue_db_first(p)
       \/ \E n \in DOMAIN data_blocks : queue_db_behind(n, p)
    /\ queued' = queued \cup {p}

free_data_blocks ==
    /\ data_blocks # <<>>
    /\ data_blocks' = <<>>
    /\ last_used' = 0
    /\ queued' = {}

QueueInit ==
    /\ data_blocks = <<>>
    /\ last_used = 0
    /\ queued = {}

\* No caller queues the same piece twice.
QueueNext ==
    \/ \E p \in Pieces \ queued : queue_data(p)
    \/ free_data_blocks

QueueSpec == QueueInit /\ [][QueueNext]_queueVars

-----------------------------------------------------------------------------
(* Properties                                                              *)

QueueTypeOK ==
    /\ data_blocks \in Seq(Pieces)
    /\ last_used \in 0 .. Len(data_blocks)
    /\ queued \subseteq Pieces

\* for_each_data_block visits the pieces in ascending order of block, which the
\* sparse writer depends on ("all the chunks to be written are in ascending
\* order", output_file.c:190): the start from last_used never skips an element
\* that belongs behind the new one.
Sorted == \A j, k \in DOMAIN data_blocks : j < k => BlockAt(j) <= BlockAt(k)

\* Every queued piece is in the list, once, and nothing else is.
NothingLost ==
    /\ \A p \in queued : \E k \in DOMAIN data_blocks : data_blocks[k] = p
    /\ \A k \in DOMAIN data_blocks : data_blocks[k] \in queued
    /\ \A j, k \in DOMAIN data_blocks : j # k => data_blocks[j] # data_blocks[k]
==============================================================================
