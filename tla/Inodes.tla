------------------------------- MODULE Inodes -------------------------------
(***************************************************************************)
(* The inode allocator of ext4_utils/allocate.c: every block group has a   *)
(* bitmap, a count of what is free, the first free inode and the count of  *)
(* directories; ext4_update_free (ext4_utils.c) adds the counts up for the *)
(* group descriptors and the superblock.                                   *)
(*                                                                         *)
(* Inodes are numbered from 1 over all groups.  The callers are make_ext4fs *)
(* itself, which reserves the first inodes by number, and contents.c (see  *)
(* Tree).  An error ends the program (force is not set).                   *)
(***************************************************************************)
EXTENDS Integers, FiniteSets

CONSTANTS
    groups,            \* aux_info.groups
    inodes_per_group,  \* info.inodes_per_group
    FirstInodes        \* the ten inodes that make_ext4fs reserves

\* The root directory is among the inodes reserved.
EXT4_ROOT_INO == 2

ASSUME InodeCounts ==
    /\ groups \in Nat \ {0} /\ inodes_per_group \in Nat \ {0}
    /\ FirstInodes \in Nat /\ FirstInodes >= EXT4_ROOT_INO

VARIABLES
    bgs,      \* aux_info.bgs[bg]: what it says of inodes
    given,    \* the inodes that the callers have, reserved ones and others
    dirs,     \* the inodes that the callers have made directories
    desc, sb, \* the counts in the group descriptors and in the superblock
    stage     \* "init", "build", "updated" or "exit"

inodeVars == <<bgs, given, dirs, desc, sb, stage>>

Groups  == 0 .. (groups - 1)
Bits    == 0 .. (inodes_per_group - 1)
AllInodes == 1 .. (groups * inodes_per_group)

\* The place of an inode: its group and its bit there.
GroupOf(inode) == (inode - 1) \div inodes_per_group
BitOf(inode)   == (inode - 1) % inodes_per_group

NoCounts == [free_inodes |-> 0, used_dirs |-> 0]

InodesInit ==
    /\ bgs = [bg \in Groups |-> [inode_bitmap |-> {}, free_inodes |-> inodes_per_group,
                                 first_free_inode |-> 1, used_dirs |-> 0, inode_table |-> FALSE]]
    /\ given = {} /\ dirs = {}
    /\ desc = [bg \in Groups |-> NoCounts] /\ sb = 0
    /\ stage = "init"

-----------------------------------------------------------------------------
(* The operations                                                          *)

Fits(bg, num) == num <= bgs[bg].free_inodes

\* MUTANT: the first free inode stays.
reserve_inodes_NotAdvanced(bg, num) ==
    bgs' = [bgs EXCEPT
        ![bg].inode_bitmap = @ \cup {bgs[bg].first_free_inode + k - 1 : k \in 0 .. (num - 1)},
        ![bg].free_inodes = @ - num]

\* MUTANT: the bits are set one too far.
reserve_inodes_OffByOne(bg, num) ==
    bgs' = [bgs EXCEPT
        ![bg].inode_bitmap = @ \cup {bgs[bg].first_free_inode + k : k \in 0 .. (num - 1)},
        ![bg].first_free_inode = @ + num,
        ![bg].free_inodes = @ - num]

\* The next num inodes of a group that has as many.
reserve_inodes(bg, num) ==
    bgs' = [bgs EXCEPT
        ![bg].inode_bitmap = @ \cup {bgs[bg].first_free_inode + k - 1 : k \in 0 .. (num - 1)},
        ![bg].first_free_inode = @ + num,
        ![bg].free_inodes = @ - num]

\* make_ext4fs: all of them lie in the first group, or that is the end.
reserve_first_inodes ==
    /\ stage = "init"
    /\ IF Fits(0, FirstInodes)
       THEN /\ reserve_inodes(0, FirstInodes)
            /\ given' = 1 .. FirstInodes
            /\ stage' = "build"
       ELSE UNCHANGED <<bgs, given>> /\ stage' = "exit"
    /\ UNCHANGED <<dirs, desc, sb>>

\* The first group with a free inode.
FirstFit(bg) == Fits(bg, 1) /\ \A b \in 0 .. (bg - 1) : ~Fits(b, 1)

\* allocate_inode; the number is what the caller gets.
NextInode(bg) == bg * inodes_per_group + bgs[bg].first_free_inode

allocate_inode(bg) ==
    /\ stage = "build" /\ FirstFit(bg)
    /\ reserve_inodes(bg, 1)
    /\ given' = given \cup {NextInode(bg)}
    /\ UNCHANGED <<dirs, desc, sb, stage>>

NoInodeLeft == \A bg \in Groups : ~Fits(bg, 1)

\* EXT4_ALLOCATE_FAILED, "failed to allocate inode"
allocate_inode_fails ==
    /\ stage = "build" /\ NoInodeLeft
    /\ stage' = "exit"
    /\ UNCHANGED <<bgs, given, dirs, desc, sb>>

\* A caller makes one of its inodes a directory, the root or a new one.
add_directory(inode) ==
    /\ bgs' = [bgs EXCEPT ![GroupOf(inode)].used_dirs = @ + 1]
    /\ dirs' = dirs \cup {inode}
    /\ UNCHANGED <<given, desc, sb, stage>>

\* MUTANT: the table of the next lower group.
get_inode_GroupBefore(inode) ==
    /\ bgs' = [bgs EXCEPT ![IF inode > inodes_per_group THEN GroupOf(inode) - 1 ELSE 0].inode_table = TRUE]
    /\ UNCHANGED <<given, dirs, desc, sb, stage>>

\* The table of the group is there, and queued, once one of its inodes is read.
get_inode(inode) ==
    /\ bgs' = [bgs EXCEPT ![GroupOf(inode)].inode_table = TRUE]
    /\ UNCHANGED <<given, dirs, desc, sb, stage>>

SumOver(f) ==
    LET s[bg \in 0 .. groups] == IF bg = 0 THEN 0 ELSE s[bg - 1] + f[bg - 1]
    IN  s[groups]

\* MUTANT: the superblock gets the count of the last group.
ext4_update_free_LastOnly ==
    /\ stage = "build"
    /\ desc' = [bg \in Groups |-> [free_inodes |-> bgs[bg].free_inodes,
                                   used_dirs   |-> desc[bg].used_dirs + bgs[bg].used_dirs]]
    /\ sb' = sb + bgs[groups - 1].free_inodes
    /\ stage' = "updated"
    /\ UNCHANGED <<bgs, given, dirs>>

ext4_update_free ==
    /\ stage = "build"
    /\ desc' = [bg \in Groups |-> [free_inodes |-> bgs[bg].free_inodes,
                                   used_dirs   |-> desc[bg].used_dirs + bgs[bg].used_dirs]]
    /\ sb' = sb + SumOver([bg \in Groups |-> bgs[bg].free_inodes])
    /\ stage' = "updated"
    /\ UNCHANGED <<bgs, given, dirs>>

\* Any other error ends the program as well.
give_up ==
    /\ stage = "build" /\ stage' = "exit"
    /\ UNCHANGED <<bgs, given, dirs, desc, sb>>

InodesNext ==
    \/ reserve_first_inodes
    \/ \E bg \in Groups : allocate_inode(bg)
    \/ allocate_inode_fails
    \/ \E inode \in given \ dirs : stage = "build" /\ add_directory(inode)
    \/ \E inode \in given : stage = "build" /\ get_inode(inode)
    \/ ext4_update_free
    \/ give_up

InodesSpec == InodesInit /\ [][InodesNext]_inodeVars

-----------------------------------------------------------------------------
(* Properties                                                              *)

InodesTypeOK ==
    /\ bgs \in [Groups -> [inode_bitmap : SUBSET Bits, free_inodes : 0 .. inodes_per_group,
                           first_free_inode : 1 .. (inodes_per_group + 1),
                           used_dirs : Nat, inode_table : BOOLEAN]]
    /\ given \subseteq AllInodes /\ dirs \subseteq given
    /\ desc \in [Groups -> [free_inodes : Nat, used_dirs : Nat]]
    /\ stage \in {"init", "build", "updated", "exit"}

\* The bitmaps on the disk are the inodes in use, no more and no less, and the count
\* of free ones is what the bitmap leaves (allocate.c:679-687): e2fsck compares the
\* two.
BitmapExact ==
    \A bg \in Groups :
        /\ bgs[bg].inode_bitmap = {BitOf(n) : n \in {m \in given : GroupOf(m) = bg}}
        /\ bgs[bg].free_inodes = inodes_per_group - Cardinality(bgs[bg].inode_bitmap)

\* No inode is handed out that a caller has already, be it by number
\* (allocate.c:694-706).
NoInodeTwice ==
    \A bg \in Groups : stage = "build" /\ FirstFit(bg) => NextInode(bg) \in AllInodes \ given

\* used_dirs counts the directories among a group's inodes (allocate.c:715-719).
DirectoriesCounted ==
    \A bg \in Groups : bgs[bg].used_dirs = Cardinality({n \in dirs : GroupOf(n) = bg})

\* In the end descriptors and superblock say what the bitmaps say
\* (ext4_utils.c:329-346).
CountsWritten ==
    stage = "updated" =>
        /\ \A bg \in Groups :
              /\ desc[bg].free_inodes = Cardinality(Bits \ bgs[bg].inode_bitmap)
              /\ desc[bg].used_dirs = Cardinality({n \in dirs : GroupOf(n) = bg})
        /\ sb = Cardinality(AllInodes \ given)
==============================================================================
