---------------------------- MODULE MirrorProofs ----------------------------
(***************************************************************************)
(* Proofs about Inodes, for any number of groups and of inodes in them,    *)
(* and about the recursion of Tree, for every tree of any depth and size.  *)
(* First, what the inode allocator promises to its callers; then, that the *)
(* recursion uses it as Inodes lets its callers: it reads and stores only  *)
(* inodes that it was given, and makes none a directory twice; so what is  *)
(* said of the allocator holds of every tree.  Then, that it copies its    *)
(* source: the directories on the disk lead to every node and to nothing   *)
(* else.                                                                   *)
(*                                                                         *)
(* While the tree is being copied, some of its nodes have inodes, and some *)
(* of these are done; the others wait for calls that have not returned.    *)
(* The program keeps neither set nor the numbers together in one place, so *)
(* the invariant says that there are ones that fit the stack and the disk. *)
(***************************************************************************)
EXTENDS Tree, Numbers, FiniteSetTheorems, SequenceTheorems, FunctionTheorems, TLAPS

-----------------------------------------------------------------------------
(* Inodes and their places                                                 *)

Place(bg, b) == bg * inodes_per_group + b + 1

\* Every inode has a group and a bit, and they make its number.
LEMMA PlaceOf ==
    ASSUME NEW n \in AllInodes
    PROVE  GroupOf(n) \in Groups /\ BitOf(n) \in Bits /\ n = Place(GroupOf(n), BitOf(n))
<1> DEFINE a == n - 1
           g == a \div inodes_per_group
<1>1. groups \in Nat \ {0} /\ inodes_per_group \in Nat \ {0}
  BY InodeCounts
<1>2. groups * inodes_per_group \in Nat
  BY <1>1
<1>3. a \in Nat /\ a < groups * inodes_per_group
  BY <1>2 DEF AllInodes
<1> HIDE DEF a
<1>4. /\ g \in Int /\ a % inodes_per_group \in 0 .. (inodes_per_group - 1)
      /\ a = g * inodes_per_group + (a % inodes_per_group)
  BY <1>1, <1>3, QuotientAndRest
<1> HIDE DEF g
<1>5. ~(g < 0)
  <2>1. ASSUME g < 0 PROVE g * inodes_per_group + inodes_per_group <= 0 * inodes_per_group
    BY <1>1, <1>4, <2>1, Multiples
  <2> QED BY <1>1, <1>3, <1>4, <2>1
<1>6. ~(groups <= g)
  <2>1. ASSUME groups < g PROVE groups * inodes_per_group + inodes_per_group <= g * inodes_per_group
    BY <1>1, <1>4, <2>1, Multiples
  <2>2. ASSUME groups = g PROVE groups * inodes_per_group = g * inodes_per_group
    BY <2>2
  <2> QED BY <1>1, <1>2, <1>3, <1>4, <2>1, <2>2
<1>7. g \in Groups
  BY <1>1, <1>4, <1>5, <1>6 DEF Groups
<1> QED BY <1>4, <1>7 DEF a, g, GroupOf, BitOf, Bits, Place, AllInodes

\* And every group and bit are those of an inode.
LEMMA AtPlace ==
    ASSUME NEW bg \in Groups, NEW b \in Bits
    PROVE  Place(bg, b) \in AllInodes /\ GroupOf(Place(bg, b)) = bg /\ BitOf(Place(bg, b)) = b
<1>1. groups \in Nat \ {0} /\ inodes_per_group \in Nat \ {0}
  BY InodeCounts
<1>2. bg \in Nat /\ bg < groups /\ b \in 0 .. (inodes_per_group - 1)
  BY <1>1 DEF Groups, Bits
<1>3. (bg * inodes_per_group + b) \div inodes_per_group = bg
      /\ (bg * inodes_per_group + b) % inodes_per_group = b
  BY <1>1, <1>2, UniqueDivision
<1>4. bg * inodes_per_group + inodes_per_group <= groups * inodes_per_group
  BY <1>1, <1>2, Multiples
<1>5. bg * inodes_per_group \in Nat /\ groups * inodes_per_group \in Nat
  BY <1>1, <1>2
<1>6. Place(bg, b) \in AllInodes /\ Place(bg, b) - 1 = bg * inodes_per_group + b
  BY <1>1, <1>2, <1>4, <1>5 DEF Place, AllInodes
<1> QED BY <1>3, <1>6 DEF GroupOf, BitOf

-----------------------------------------------------------------------------
(* The invariant: what a group has given away is a prefix of its inodes    *)

GroupRecord == [inode_bitmap : SUBSET Bits, free_inodes : 0 .. inodes_per_group,
                first_free_inode : 1 .. (inodes_per_group + 1),
                used_dirs : Nat, inode_table : BOOLEAN]

DirsOf(bg) == {n \in dirs : GroupOf(n) = bg}

PrefixTaken ==
    \A bg \in Groups :
        /\ bgs[bg].free_inodes = inodes_per_group + 1 - bgs[bg].first_free_inode
        /\ bgs[bg].inode_bitmap = 0 .. (bgs[bg].first_free_inode - 2)

PrefixGiven ==
    \A n \in AllInodes : n \in given <=> BitOf(n) <= bgs[GroupOf(n)].first_free_inode - 2

FreshAtFirst == stage = "init" => \A bg \in Groups : bgs[bg].first_free_inode = 1

IndInv == InodesTypeOK /\ PrefixTaken /\ PrefixGiven /\ FreshAtFirst /\ DirectoriesCounted

LEMMA AllFinite == IsFiniteSet(AllInodes)
<1>1. groups * inodes_per_group \in Nat
  BY InodeCounts
<1> QED BY <1>1, FS_Interval DEF AllInodes

\* Nothing is given or made a directory while every group is untouched.
LEMMA NothingAtFirst ==
    ASSUME IndInv, stage = "init"
    PROVE  given = {} /\ dirs = {}
<1>1. ASSUME NEW n \in given PROVE FALSE
  <2>1. n \in AllInodes
    BY <1>1 DEF IndInv, InodesTypeOK
  <2>2. GroupOf(n) \in Groups /\ BitOf(n) \in Bits
    BY <2>1, PlaceOf
  <2>3. BitOf(n) <= 0 - 1
    BY <1>1, <2>1, <2>2 DEF IndInv, PrefixGiven, FreshAtFirst
  <2> QED BY <2>2, <2>3, InodeCounts DEF Bits
<1> QED BY <1>1 DEF IndInv, InodesTypeOK

LEMMA InitInv == InodesInit => IndInv
<1> SUFFICES ASSUME InodesInit PROVE IndInv
  OBVIOUS
<1>0. groups \in Nat \ {0} /\ inodes_per_group \in Nat \ {0}
  BY InodeCounts
<1>1. InodesTypeOK
  BY <1>0 DEF InodesInit, InodesTypeOK, NoCounts
<1>2. PrefixTaken
  <2>1. \A bg \in Groups : /\ bgs[bg].first_free_inode = 1 /\ bgs[bg].inode_bitmap = {}
                           /\ bgs[bg].free_inodes = inodes_per_group
    BY DEF InodesInit
  <2>2. 0 .. (1 - 2) = {} /\ inodes_per_group = inodes_per_group + 1 - 1
    BY <1>0
  <2> QED BY <2>1, <2>2 DEF PrefixTaken
<1>3. PrefixGiven
  <2> SUFFICES ASSUME NEW n \in AllInodes
               PROVE  ~(BitOf(n) <= bgs[GroupOf(n)].first_free_inode - 2)
    BY DEF InodesInit, PrefixGiven
  <2>1. GroupOf(n) \in Groups /\ BitOf(n) \in 0 .. (inodes_per_group - 1)
    BY PlaceOf DEF Bits
  <2>2. bgs[GroupOf(n)].first_free_inode = 1
    BY <2>1 DEF InodesInit
  <2> QED BY <1>0, <2>1, <2>2
<1>4. FreshAtFirst
  BY DEF InodesInit, FreshAtFirst
<1>5. DirectoriesCounted
  <2>1. \A bg \in Groups : {n \in dirs : GroupOf(n) = bg} = {}
    BY DEF InodesInit
  <2>2. Cardinality({}) = 0
    BY FS_EmptySet
  <2>3. \A bg \in Groups : bgs[bg].used_dirs = 0
    BY DEF InodesInit
  <2> QED BY <2>1, <2>2, <2>3 DEF DirectoriesCounted
<1> QED BY <1>1, <1>2, <1>3, <1>4, <1>5 DEF IndInv

-----------------------------------------------------------------------------
(* reserve_inodes keeps what is said of the groups                         *)

LEMMA GroupUpdate ==
    ASSUME NEW g \in GroupRecord, NEW bitmap \in SUBSET Bits,
           NEW free \in 0 .. inodes_per_group, NEW first \in 1 .. (inodes_per_group + 1)
    PROVE  LET new == [g EXCEPT !.inode_bitmap = bitmap, !.first_free_inode = first, !.free_inodes = free]
           IN  new \in GroupRecord
BY DEF GroupRecord

LEMMA ReserveKeeps ==
    ASSUME IndInv, NEW bg \in Groups, NEW num \in Nat, Fits(bg, num), reserve_inodes(bg, num)
    PROVE  /\ bgs' \in [Groups -> GroupRecord]
           /\ PrefixTaken'
           /\ \A b \in Groups : bgs'[b].used_dirs = bgs[b].used_dirs
           /\ \A b \in Groups \ {bg} : bgs'[b] = bgs[b]
           /\ bgs'[bg].first_free_inode = bgs[bg].first_free_inode + num
           /\ bgs[bg].first_free_inode + num <= inodes_per_group + 1
<1> DEFINE g == bgs[bg]
           taken == {g.first_free_inode + k - 1 : k \in 0 .. (num - 1)}
           new == [g EXCEPT !.inode_bitmap = @ \cup taken,
                            !.first_free_inode = @ + num,
                            !.free_inodes = @ - num]
<1>1. bgs \in [Groups -> GroupRecord]
  BY DEF IndInv, InodesTypeOK, GroupRecord
<1>2. g \in GroupRecord
  BY <1>1
<1>3. inodes_per_group \in Nat \ {0}
  BY InodeCounts
<1>4. /\ g.free_inodes = inodes_per_group + 1 - g.first_free_inode
      /\ g.inode_bitmap = 0 .. (g.first_free_inode - 2)
  BY DEF IndInv, PrefixTaken
<1>5. bgs' = [bgs EXCEPT ![bg] = new]
  BY <1>1 DEF reserve_inodes
<1>6. num <= g.free_inodes
  BY DEF Fits
<1>7. g.first_free_inode \in 1 .. (inodes_per_group + 1) /\ g.free_inodes \in 0 .. inodes_per_group
  BY <1>2 DEF GroupRecord
<1>8. g.inode_bitmap \cup taken = 0 .. (g.first_free_inode + num - 2)
  <2>0. g.first_free_inode \in Int /\ num \in Int /\ 1 <= g.first_free_inode
    BY <1>3, <1>7
  <2>1. ASSUME NEW x \in 0 .. (g.first_free_inode + num - 2), x \notin g.inode_bitmap PROVE x \in taken
    <3>1. x - g.first_free_inode + 1 \in 0 .. (num - 1)
      BY <1>4, <2>0, <2>1
    <3>2. x = g.first_free_inode + (x - g.first_free_inode + 1) - 1
      BY <2>0
    <3> QED BY <3>1, <3>2
  <2>2. ASSUME NEW k \in 0 .. (num - 1)
        PROVE  g.first_free_inode + k - 1 \in 0 .. (g.first_free_inode + num - 2)
    BY <2>0
  <2>3. g.inode_bitmap \subseteq 0 .. (g.first_free_inode + num - 2)
    BY <1>4, <2>0
  <2> QED BY <2>1, <2>2, <2>3
<1>9. /\ new.inode_bitmap = 0 .. (g.first_free_inode + num - 2)
      /\ new.first_free_inode = g.first_free_inode + num
      /\ new.free_inodes = g.free_inodes - num
      /\ new.used_dirs = g.used_dirs
      /\ new.inode_table = g.inode_table
  BY <1>2, <1>8 DEF GroupRecord
<1>10. 0 .. (g.first_free_inode + num - 2) \in SUBSET Bits
  BY <1>3, <1>4, <1>6, <1>7, SMTT(30) DEF Bits
<1>11. new \in GroupRecord
  <2>1. g.first_free_inode + num \in 1 .. (inodes_per_group + 1)
    BY <1>3, <1>4, <1>6, <1>7
  <2>2. g.free_inodes - num \in 0 .. inodes_per_group
    BY <1>3, <1>6, <1>7
  <2> HIDE DEF g
  <2> QED BY <1>2, <1>8, <1>10, <2>1, <2>2, GroupUpdate
<1> HIDE DEF new
<1>12. \A b \in Groups : bgs'[b] = IF b = bg THEN new ELSE bgs[b]
  BY <1>1, <1>5
<1>13. bgs' \in [Groups -> GroupRecord]
  BY <1>1, <1>5, <1>11
<1>14. PrefixTaken'
  <2>0. (inodes_per_group + 1 - g.first_free_inode) - num = inodes_per_group + 1 - (g.first_free_inode + num)
    BY <1>3, <1>7
  <2> SUFFICES ASSUME NEW b \in Groups
               PROVE  /\ bgs'[b].free_inodes = inodes_per_group + 1 - bgs'[b].first_free_inode
                      /\ bgs'[b].inode_bitmap = 0 .. (bgs'[b].first_free_inode - 2)
    BY DEF PrefixTaken
  <2>1. CASE b = bg
    <3>1. bgs'[b] = new
      BY <1>12, <2>1
    <3>2. new.free_inodes = inodes_per_group + 1 - new.first_free_inode
      BY <1>4, <1>9, <2>0
    <3>3. new.inode_bitmap = 0 .. (new.first_free_inode - 2)
      <4>1. new.first_free_inode = g.first_free_inode + num
        BY <1>9
      <4>2. new.first_free_inode - 2 = g.first_free_inode + num - 2
        <5> HIDE DEF g
        <5> QED BY <1>7, <4>1
      <4> QED BY <1>9, <4>2
    <3> QED BY <3>1, <3>2, <3>3
  <2>2. CASE b # bg
    BY <1>12, <2>2 DEF IndInv, PrefixTaken
  <2> QED BY <2>1, <2>2
<1>15. bgs[bg].first_free_inode + num <= inodes_per_group + 1
  BY <1>3, <1>4, <1>6, <1>7
<1> QED BY <1>9, <1>12, <1>13, <1>14, <1>15

-----------------------------------------------------------------------------
(* Every step keeps the invariant                                          *)

\* What keeps the groups' records and the inodes given keeps the rest.
LEMMA SameDirectories ==
    ASSUME DirectoriesCounted, dirs' = dirs, \A bg \in Groups : bgs'[bg].used_dirs = bgs[bg].used_dirs
    PROVE  DirectoriesCounted'
BY DEF DirectoriesCounted

LEMMA SameGroups ==
    ASSUME IndInv, UNCHANGED <<bgs, given, dirs>>, InodesTypeOK', stage' # "init"
    PROVE  IndInv'
<1>1. PrefixTaken' /\ PrefixGiven' /\ FreshAtFirst' /\ DirectoriesCounted'
  BY DEF IndInv, PrefixTaken, PrefixGiven, FreshAtFirst, DirectoriesCounted
<1> QED BY <1>1 DEF IndInv

LEMMA ReserveFirstInv ==
    ASSUME IndInv, reserve_first_inodes
    PROVE  IndInv'
<1>0. groups \in Nat \ {0} /\ inodes_per_group \in Nat \ {0} /\ FirstInodes \in Nat
  BY InodeCounts
<1>1. CASE ~Fits(0, FirstInodes)
  <2>1. UNCHANGED <<bgs, given, dirs, desc>> /\ stage' = "exit"
    BY <1>1 DEF reserve_first_inodes
  <2>2. InodesTypeOK'
    BY <2>1 DEF IndInv, InodesTypeOK
  <2> QED BY <2>1, <2>2, SameGroups
<1>2. CASE Fits(0, FirstInodes)
  <2>1. /\ reserve_inodes(0, FirstInodes) /\ given' = 1 .. FirstInodes /\ stage = "init"
        /\ stage' = "build" /\ UNCHANGED <<dirs, desc>>
    BY <1>2 DEF reserve_first_inodes
  <2>2. 0 \in Groups
    BY <1>0 DEF Groups
  <2>3. /\ bgs' \in [Groups -> GroupRecord]
        /\ PrefixTaken'
        /\ \A b \in Groups : bgs'[b].used_dirs = bgs[b].used_dirs
        /\ \A b \in Groups \ {0} : bgs'[b] = bgs[b]
        /\ bgs'[0].first_free_inode = bgs[0].first_free_inode + FirstInodes
        /\ bgs[0].first_free_inode + FirstInodes <= inodes_per_group + 1
    BY <1>0, <1>2, <2>1, <2>2, ReserveKeeps
  <2>4. dirs = {} /\ \A bg \in Groups : bgs[bg].first_free_inode = 1
    BY <2>1, NothingAtFirst DEF IndInv, FreshAtFirst
  <2>5. FirstInodes <= inodes_per_group
    BY <1>0, <2>2, <2>3, <2>4
  <2>6. inodes_per_group <= groups * inodes_per_group
    <3>1. CASE groups = 1
      BY <1>0, <3>1
    <3>2. CASE 1 < groups
      <4>1. 1 * inodes_per_group + inodes_per_group <= groups * inodes_per_group
        BY <1>0, <3>2, Multiples
      <4>2. groups * inodes_per_group \in Nat
        BY <1>0
      <4> QED BY <1>0, <4>1, <4>2
    <3> QED BY <1>0, <3>1, <3>2
  <2>7. 1 .. FirstInodes \subseteq AllInodes
    <3>1. groups * inodes_per_group \in Nat
      BY <1>0
    <3> QED BY <1>0, <2>5, <2>6, <3>1 DEF AllInodes
  <2>8. InodesTypeOK'
    BY <2>1, <2>3, <2>4, <2>7 DEF IndInv, InodesTypeOK, GroupRecord
  <2>9. PrefixGiven'
    <3> SUFFICES ASSUME NEW n \in AllInodes
                 PROVE  n \in 1 .. FirstInodes <=> BitOf(n) <= bgs'[GroupOf(n)].first_free_inode - 2
      BY <2>1 DEF PrefixGiven, BitOf, GroupOf
    <3>1. /\ GroupOf(n) \in Groups /\ BitOf(n) \in 0 .. (inodes_per_group - 1)
          /\ n = GroupOf(n) * inodes_per_group + BitOf(n) + 1
      BY PlaceOf DEF Bits, Place
    <3>2. CASE GroupOf(n) = 0
      <4>1. n = BitOf(n) + 1
        BY <1>0, <3>1, <3>2
      <4>2. bgs'[GroupOf(n)].first_free_inode - 2 = FirstInodes - 1
        BY <1>0, <2>2, <2>3, <2>4, <3>2
      <4> QED BY <1>0, <3>1, <4>1, <4>2
    <3>3. CASE GroupOf(n) # 0
      <4>1. bgs'[GroupOf(n)].first_free_inode - 2 = 0 - 1
        BY <2>3, <2>4, <3>1, <3>3
      <4>2. 0 * inodes_per_group + inodes_per_group <= GroupOf(n) * inodes_per_group
        BY <1>0, <3>1, <3>3, Multiples DEF Groups
      <4>3. n > FirstInodes
        <5>1. GroupOf(n) * inodes_per_group \in Nat
          BY <1>0, <3>1 DEF Groups
        <5> QED BY <1>0, <2>5, <3>1, <4>2, <5>1
      <4> QED BY <1>0, <3>1, <4>1, <4>3
    <3> QED BY <3>2, <3>3
  <2>10. FreshAtFirst'
    BY <2>1 DEF FreshAtFirst
  <2>11. DirectoriesCounted'
    BY <2>1, <2>3, SameDirectories DEF IndInv
  <2> QED BY <2>3, <2>8, <2>9, <2>10, <2>11 DEF IndInv
<1> QED BY <1>1, <1>2

\* The inode that allocate_inode hands out is the next in the prefix, and new.
LEMMA NextIsNew ==
    ASSUME IndInv, NEW bg \in Groups, Fits(bg, 1)
    PROVE  /\ NextInode(bg) \in AllInodes \ given
           /\ bgs[bg].first_free_inode - 1 \in Bits
           /\ GroupOf(NextInode(bg)) = bg
           /\ BitOf(NextInode(bg)) = bgs[bg].first_free_inode - 1
<1> DEFINE f == bgs[bg].first_free_inode
<1>0. groups \in Nat \ {0} /\ inodes_per_group \in Nat \ {0}
  BY InodeCounts
<1>1. f \in 1 .. (inodes_per_group + 1)
  BY DEF IndInv, InodesTypeOK
<1>2. 1 <= inodes_per_group + 1 - f
  BY DEF Fits, IndInv, PrefixTaken
<1>3. f - 1 \in Bits
  BY <1>0, <1>1, <1>2 DEF Bits
<1>4. NextInode(bg) = Place(bg, f - 1)
  <2>1. bg * inodes_per_group \in Int
    BY <1>0 DEF Groups
  <2> QED BY <1>1, <2>1 DEF NextInode, Place
<1>5. NextInode(bg) \in AllInodes /\ GroupOf(NextInode(bg)) = bg /\ BitOf(NextInode(bg)) = f - 1
  BY <1>3, <1>4, AtPlace
<1>6. NextInode(bg) \notin given
  BY <1>1, <1>5 DEF IndInv, PrefixGiven
<1> QED BY <1>3, <1>5, <1>6

LEMMA AllocateInv ==
    ASSUME IndInv, NEW bg \in Groups, allocate_inode(bg)
    PROVE  IndInv'
<1> DEFINE f == bgs[bg].first_free_inode
<1>0. groups \in Nat \ {0} /\ inodes_per_group \in Nat \ {0}
  BY InodeCounts
<1>1. /\ Fits(bg, 1) /\ reserve_inodes(bg, 1) /\ given' = given \cup {NextInode(bg)}
      /\ UNCHANGED <<dirs, desc, stage>> /\ stage = "build"
  BY DEF allocate_inode, FirstFit
<1>2. /\ bgs' \in [Groups -> GroupRecord]
      /\ PrefixTaken'
      /\ \A b \in Groups : bgs'[b].used_dirs = bgs[b].used_dirs
      /\ \A b \in Groups \ {bg} : bgs'[b] = bgs[b]
      /\ bgs'[bg].first_free_inode = f + 1
  BY <1>1, ReserveKeeps
<1>3. /\ NextInode(bg) \in AllInodes /\ GroupOf(NextInode(bg)) = bg
      /\ BitOf(NextInode(bg)) = f - 1
  BY <1>1, NextIsNew
<1>4. InodesTypeOK'
  BY <1>1, <1>2, <1>3 DEF IndInv, InodesTypeOK, GroupRecord
<1>5. PrefixGiven'
  <2> SUFFICES ASSUME NEW n \in AllInodes
               PROVE  n \in given' <=> BitOf(n) <= bgs'[GroupOf(n)].first_free_inode - 2
    BY DEF PrefixGiven, BitOf, GroupOf
  <2>1. /\ GroupOf(n) \in Groups /\ BitOf(n) \in 0 .. (inodes_per_group - 1)
        /\ n = Place(GroupOf(n), BitOf(n))
    BY PlaceOf DEF Bits
  <2>2. n \in given <=> BitOf(n) <= bgs[GroupOf(n)].first_free_inode - 2
    BY DEF IndInv, PrefixGiven
  <2>3. CASE GroupOf(n) # bg
    <3>1. n # NextInode(bg)
      BY <1>3, <2>3
    <3>2. n \in given' <=> n \in given
      BY <1>1, <3>1
    <3>3. bgs'[GroupOf(n)] = bgs[GroupOf(n)]
      BY <1>2, <2>1, <2>3
    <3>4. bgs[GroupOf(n)].first_free_inode \in 1 .. (inodes_per_group + 1)
      BY <2>1 DEF IndInv, InodesTypeOK
    <3>5. bgs'[GroupOf(n)].first_free_inode = bgs[GroupOf(n)].first_free_inode
      BY <3>3
    <3> QED BY <1>0, <2>1, <2>2, <3>2, <3>4, <3>5
  <2>4. CASE GroupOf(n) = bg
    <3>1. n = NextInode(bg) <=> BitOf(n) = f - 1
      BY <1>3, <2>1, <2>4, PlaceOf
    <3>2. f \in 1 .. (inodes_per_group + 1)
      BY DEF IndInv, InodesTypeOK
    <3>3. BitOf(n) <= f + 1 - 2 <=> BitOf(n) <= f - 2 \/ BitOf(n) = f - 1
      BY <1>0, <2>1, <3>2
    <3>4. bgs'[GroupOf(n)].first_free_inode - 2 = f + 1 - 2
      BY <1>2, <2>4, <3>2
    <3>5. n \in given <=> BitOf(n) <= f - 2
      BY <2>2, <2>4
    <3>6. n \in given' <=> n \in given \/ n = NextInode(bg)
      BY <1>1
    <3> QED BY <3>1, <3>3, <3>4, <3>5, <3>6
  <2> QED BY <2>3, <2>4
<1>6. FreshAtFirst'
  BY <1>1 DEF FreshAtFirst
<1>7. DirectoriesCounted'
  BY <1>1, <1>2, SameDirectories DEF IndInv
<1> QED BY <1>2, <1>4, <1>5, <1>6, <1>7 DEF IndInv

LEMMA AddDirectoryInv ==
    ASSUME IndInv, NEW inode \in given \ dirs, stage = "build", add_directory(inode)
    PROVE  IndInv'
<1> DEFINE bg == GroupOf(inode)
           new == [bgs[bg] EXCEPT !.used_dirs = @ + 1]
<1>1. bgs \in [Groups -> GroupRecord] /\ given \subseteq AllInodes /\ dirs \subseteq given
  BY DEF IndInv, InodesTypeOK, GroupRecord
<1>2. inode \in AllInodes /\ bg \in Groups
  BY <1>1, PlaceOf
<1>3. /\ bgs' = [bgs EXCEPT ![bg] = new] /\ dirs' = dirs \cup {inode}
      /\ UNCHANGED <<given, desc, stage>>
  BY <1>1, <1>2 DEF add_directory
<1>4. bgs[bg] \in GroupRecord
  BY <1>1, <1>2
<1> HIDE DEF bg
<1>5. /\ new \in GroupRecord /\ new.free_inodes = bgs[bg].free_inodes
      /\ new.inode_bitmap = bgs[bg].inode_bitmap /\ new.used_dirs = bgs[bg].used_dirs + 1
      /\ new.first_free_inode = bgs[bg].first_free_inode
  BY <1>4 DEF GroupRecord
<1> HIDE DEF new
<1>6. \A b \in Groups : bgs'[b] = IF b = bg THEN new ELSE bgs[b]
  BY <1>1, <1>3
<1>7. InodesTypeOK'
  <2>1. bgs' \in [Groups -> GroupRecord]
    BY <1>1, <1>2, <1>3, <1>5
  <2> QED BY <1>1, <1>3, <2>1 DEF IndInv, InodesTypeOK, GroupRecord
<1>8. \A b \in Groups : /\ bgs'[b].free_inodes = bgs[b].free_inodes
                        /\ bgs'[b].inode_bitmap = bgs[b].inode_bitmap
                        /\ bgs'[b].first_free_inode = bgs[b].first_free_inode
  BY <1>5, <1>6
<1>9. PrefixTaken'
  BY <1>8 DEF IndInv, PrefixTaken
<1>10. PrefixGiven'
  <2> SUFFICES ASSUME NEW n \in AllInodes
               PROVE  n \in given' <=> BitOf(n) <= bgs'[GroupOf(n)].first_free_inode - 2
    BY DEF PrefixGiven, BitOf, GroupOf
  <2>1. GroupOf(n) \in Groups
    BY PlaceOf
  <2> QED BY <1>3, <1>8, <2>1 DEF IndInv, PrefixGiven
<1>11. FreshAtFirst'
  BY <1>3 DEF FreshAtFirst
<1>12. DirectoriesCounted'
  <2> SUFFICES ASSUME NEW b \in Groups
               PROVE  bgs'[b].used_dirs = Cardinality({n \in dirs' : GroupOf(n) = b})
    BY DEF DirectoriesCounted, GroupOf
  <2>1. bgs[b].used_dirs = Cardinality({n \in dirs : GroupOf(n) = b})
    BY DEF IndInv, DirectoriesCounted
  <2>2. CASE b # bg
    <3>1. {n \in dirs' : GroupOf(n) = b} = {n \in dirs : GroupOf(n) = b}
      BY <1>3, <2>2 DEF bg
    <3> QED BY <1>6, <2>1, <2>2, <3>1
  <2>3. CASE b = bg
    <3> DEFINE D == {n \in dirs : GroupOf(n) = b}
    <3>1. {n \in dirs' : GroupOf(n) = b} = D \cup {inode}
      BY <1>3, <2>3 DEF bg
    <3>2. IsFiniteSet(D)
      <4>1. D \subseteq AllInodes
        BY <1>1
      <4> QED BY <4>1, AllFinite, FS_Subset
    <3>3. inode \notin D
      OBVIOUS
    <3> HIDE DEF D
    <3>4. Cardinality(D \cup {inode}) = Cardinality(D) + 1
      BY <3>2, <3>3, FS_AddElement
    <3> QED BY <1>5, <1>6, <2>1, <2>3, <3>1, <3>4 DEF D
  <2> QED BY <2>2, <2>3
<1> QED BY <1>7, <1>9, <1>10, <1>11, <1>12 DEF IndInv

LEMMA GetInodeInv ==
    ASSUME IndInv, NEW inode \in given, get_inode(inode), stage = "build"
    PROVE  IndInv'
<1> DEFINE bg == GroupOf(inode)
           new == [bgs[bg] EXCEPT !.inode_table = TRUE]
<1>1. bgs \in [Groups -> GroupRecord] /\ given \subseteq AllInodes
  BY DEF IndInv, InodesTypeOK, GroupRecord
<1>2. bg \in Groups
  BY <1>1, PlaceOf
<1>3. bgs' = [bgs EXCEPT ![bg] = new] /\ UNCHANGED <<given, dirs, desc, stage>>
  BY <1>1, <1>2 DEF get_inode
<1>4. bgs[bg] \in GroupRecord
  BY <1>1, <1>2
<1> HIDE DEF bg
<1>5. /\ new \in GroupRecord /\ new.free_inodes = bgs[bg].free_inodes
      /\ new.inode_bitmap = bgs[bg].inode_bitmap /\ new.used_dirs = bgs[bg].used_dirs
      /\ new.first_free_inode = bgs[bg].first_free_inode
  BY <1>4 DEF GroupRecord
<1> HIDE DEF new
<1>6. \A b \in Groups : bgs'[b] = IF b = bg THEN new ELSE bgs[b]
  BY <1>1, <1>3
<1>7. InodesTypeOK'
  <2>1. bgs' \in [Groups -> GroupRecord]
    BY <1>1, <1>2, <1>3, <1>5
  <2> QED BY <1>1, <1>3, <2>1 DEF IndInv, InodesTypeOK, GroupRecord
<1>8. \A b \in Groups : /\ bgs'[b].free_inodes = bgs[b].free_inodes
                        /\ bgs'[b].inode_bitmap = bgs[b].inode_bitmap
                        /\ bgs'[b].first_free_inode = bgs[b].first_free_inode
                        /\ bgs'[b].used_dirs = bgs[b].used_dirs
  BY <1>5, <1>6
<1>9. PrefixTaken'
  BY <1>8 DEF IndInv, PrefixTaken
<1>10. PrefixGiven'
  <2> SUFFICES ASSUME NEW n \in AllInodes
               PROVE  n \in given' <=> BitOf(n) <= bgs'[GroupOf(n)].first_free_inode - 2
    BY DEF PrefixGiven, BitOf, GroupOf
  <2>1. GroupOf(n) \in Groups
    BY PlaceOf
  <2> QED BY <1>3, <1>8, <2>1 DEF IndInv, PrefixGiven
<1>11. FreshAtFirst'
  BY <1>3 DEF FreshAtFirst
<1>12. DirectoriesCounted'
  BY <1>3, <1>8, SameDirectories DEF IndInv
<1> QED BY <1>7, <1>9, <1>10, <1>11, <1>12 DEF IndInv

LEMMA StepInv ==
    ASSUME IndInv, [InodesNext]_inodeVars
    PROVE  IndInv'
<1>1. CASE reserve_first_inodes
  BY <1>1, ReserveFirstInv
<1>2. ASSUME NEW bg \in Groups, allocate_inode(bg) PROVE IndInv'
  BY <1>2, AllocateInv
<1>3. CASE allocate_inode_fails \/ give_up
  <2>1. UNCHANGED <<bgs, given, dirs, desc>> /\ stage' = "exit"
    BY <1>3 DEF allocate_inode_fails, give_up
  <2>2. InodesTypeOK'
    BY <2>1 DEF IndInv, InodesTypeOK
  <2> QED BY <2>1, <2>2, SameGroups
<1>4. ASSUME NEW inode \in given \ dirs, stage = "build", add_directory(inode) PROVE IndInv'
  BY <1>4, AddDirectoryInv
<1>5. ASSUME NEW inode \in given, stage = "build", get_inode(inode) PROVE IndInv'
  BY <1>5, GetInodeInv
<1>6. CASE ext4_update_free
  <2>1. UNCHANGED <<bgs, given, dirs>> /\ stage' = "updated"
    BY <1>6 DEF ext4_update_free
  <2>2. desc' \in [Groups -> [free_inodes : Nat, used_dirs : Nat]]
    <3>1. desc' = [bg \in Groups |-> [free_inodes |-> bgs[bg].free_inodes,
                                      used_dirs   |-> desc[bg].used_dirs + bgs[bg].used_dirs]]
      BY <1>6 DEF ext4_update_free
    <3>2. ASSUME NEW bg \in Groups
          PROVE  bgs[bg].free_inodes \in Nat /\ desc[bg].used_dirs + bgs[bg].used_dirs \in Nat
      <4>1. bgs[bg].free_inodes \in 0 .. inodes_per_group /\ desc[bg].used_dirs \in Nat
            /\ bgs[bg].used_dirs \in Nat
        BY DEF IndInv, InodesTypeOK
      <4> QED BY <4>1, InodeCounts
    <3> QED BY <3>1, <3>2
  <2>3. InodesTypeOK'
    BY <2>1, <2>2 DEF IndInv, InodesTypeOK
  <2> QED BY <2>1, <2>3, SameGroups
<1>7. CASE UNCHANGED inodeVars
  BY <1>7 DEF inodeVars, IndInv, InodesTypeOK, PrefixTaken, PrefixGiven, FreshAtFirst, DirectoriesCounted
<1> QED BY <1>1, <1>2, <1>3, <1>4, <1>5, <1>6, <1>7 DEF InodesNext

-----------------------------------------------------------------------------
(* The sum over the groups                                                 *)

\* SumOver adds up from the first group to the last.
LEMMA SumUnfolds ==
    ASSUME NEW f \in [Groups -> Nat]
    PROVE  \E s \in [0 .. groups -> Nat] :
               /\ SumOver(f) = s[groups] /\ s[0] = 0
               /\ \A k \in 1 .. groups : s[k] = s[k - 1] + f[k - 1]
<1> DEFINE IsSum(s) == s = [bg \in 0 .. groups |-> IF bg = 0 THEN 0 ELSE s[bg - 1] + f[bg - 1]]
           step == [p \in (1 .. groups) \X Nat |-> p[2] + f[p[1] - 1]]
           sum == CHOOSE s : IsSum(s)
<1>0. groups \in Nat /\ \A k \in 1 .. groups : k - 1 \in Groups
  BY InodeCounts DEF Groups
<1>1. \A k \in 1 .. groups, v \in Nat : step[<<k, v>>] = v + f[k - 1] /\ step[<<k, v>>] \in Nat
  BY <1>0
<1>2. PICK t \in [0 .. groups -> Nat] :
          t[0] = 0 /\ \A k \in 1 .. groups : t[k] = step[<<k, t[k - 1]>>]
  <2>1. 0 \in Nat /\ IsStep(step, groups, Nat)
    BY <1>1 DEF IsStep
  <2> DEFINE zero == 0
             Values == Nat
             top == groups
  <2>2. zero \in Values /\ top \in Nat /\ IsStep(step, top, Values)
    BY <1>0, <2>1
  <2> HIDE DEF step, zero, Values, top
  <2>3. \E t \in [0 .. top -> Values] : BuiltBy(t, top, zero, step)
    BY <2>2, Recursion
  <2> USE DEF zero, Values, top
  <2> QED BY <2>3 DEF BuiltBy
<1>3. \A k \in 1 .. groups : step[<<k, t[k - 1]>>] = t[k - 1] + f[k - 1]
  <2> SUFFICES ASSUME NEW k \in 1 .. groups
               PROVE  step[<<k, t[k - 1]>>] = t[k - 1] + f[k - 1]
    OBVIOUS
  <2>1. k - 1 \in 0 .. groups
    BY <1>0
  <2>2. t[k - 1] \in Nat
    BY <1>2, <2>1
  <2> HIDE DEF step
  <2> QED BY <1>1, <2>2
<1> HIDE DEF step
<1>4. IsSum(t)
  <2>1. t = [k \in 0 .. groups |-> t[k]]
    BY <1>2
  <2>2. \A k \in 0 .. groups : k = 0 \/ k \in 1 .. groups
    OBVIOUS
  <2> QED BY <1>2, <1>3, <2>1, <2>2
<1>5. IsSum(sum)
  BY <1>4, Zenon
<1>6. SumOver(f) = sum[groups]
  BY Zenon DEF SumOver
<1> HIDE DEF sum
<1>7. sum[0] = 0 /\ \A k \in 1 .. groups : sum[k] = sum[k - 1] + f[k - 1]
  BY <1>0, <1>5
<1> DEFINE S == {n \in 0 .. groups : sum[n] \in Nat}
<1>8. \A n \in 0 .. groups : n \in S
  <2>1. 0 \in S
    BY <1>0, <1>7
  <2>2. ASSUME NEW n \in 0 .. (groups - 1), n \in S PROVE n + 1 \in S
    <3>1. n + 1 \in 1 .. groups /\ f[n] \in Nat /\ n + 1 - 1 = n
      BY <1>0 DEF Groups
    <3> QED BY <1>7, <2>2, <3>1
  <2> HIDE DEF S
  <2> QED BY <1>0, <2>1, <2>2, BoundedInduction
<1>9. sum \in [0 .. groups -> Nat]
  <2>1. sum = [k \in 0 .. groups |-> sum[k]]
    BY <1>5
  <2> QED BY <1>8, <2>1
<1> QED BY <1>6, <1>7, <1>9

\* The inodes of a group that nobody has: those behind the prefix.
LEMMA FreeInGroup ==
    ASSUME IndInv, NEW bg \in Groups
    PROVE  /\ {n \in AllInodes \ given : GroupOf(n) = bg}
                 = (bg * inodes_per_group + bgs[bg].first_free_inode) .. (bg * inodes_per_group + inodes_per_group)
           /\ Cardinality({n \in AllInodes \ given : GroupOf(n) = bg}) = bgs[bg].free_inodes
<1> DEFINE f == bgs[bg].first_free_inode
           base == bg * inodes_per_group
           F == {n \in AllInodes \ given : GroupOf(n) = bg}
<1>1. /\ f \in 1 .. (inodes_per_group + 1) /\ inodes_per_group \in Nat \ {0} /\ base \in Nat
      /\ bgs[bg].free_inodes = inodes_per_group + 1 - f
  <2>1. f \in 1 .. (inodes_per_group + 1) /\ bgs[bg].free_inodes = inodes_per_group + 1 - f
    BY DEF IndInv, InodesTypeOK, PrefixTaken
  <2>2. \A u, v \in Nat : u * v \in Nat
    OBVIOUS
  <2> QED BY <2>1, <2>2, InodeCounts DEF Groups
<1>2. ASSUME NEW n \in F PROVE n \in (base + f) .. (base + inodes_per_group)
  <2>1. BitOf(n) \in 0 .. (inodes_per_group - 1) /\ n = base + BitOf(n) + 1
    BY <1>2, PlaceOf DEF Bits, Place
  <2>2. ~(BitOf(n) <= f - 2)
    BY <1>2 DEF IndInv, PrefixGiven
  <2> QED BY <1>1, <2>1, <2>2
<1>3. ASSUME NEW n \in (base + f) .. (base + inodes_per_group) PROVE n \in F
  <2> DEFINE b == n - base - 1
  <2>1. b \in Bits /\ b > f - 2 /\ n = Place(bg, b)
    BY <1>1 DEF Bits, Place
  <2> HIDE DEF b
  <2>2. n \in AllInodes /\ GroupOf(n) = bg /\ BitOf(n) = b
    BY <2>1, AtPlace
  <2>3. b \in Int
    BY <2>1 DEF Bits
  <2>4. n \notin given
    BY <1>1, <2>1, <2>2, <2>3 DEF IndInv, PrefixGiven
  <2> QED BY <2>2, <2>4
<1>4. F = (base + f) .. (base + inodes_per_group)
  BY <1>2, <1>3
<1>5. Cardinality(F) = inodes_per_group + 1 - f
  <2> HIDE DEF base, f, F
  <2>1. base + f \in Int /\ base + inodes_per_group \in Int
    BY <1>1
  <2>2. Cardinality(F) = IF base + f > base + inodes_per_group THEN 0
                         ELSE (base + inodes_per_group) - (base + f) + 1
    BY <1>4, <2>1, FS_Interval
  <2> QED BY <1>1, <2>2
<1> QED BY <1>1, <1>4, <1>5

\* So the free counts add up to what is free on the disk.
LEMMA FreeAddsUp ==
    ASSUME IndInv
    PROVE  SumOver([bg \in Groups |-> bgs[bg].free_inodes]) = Cardinality(AllInodes \ given)
<1> DEFINE f == [bg \in Groups |-> bgs[bg].free_inodes]
           Below(k) == {n \in AllInodes \ given : GroupOf(n) < k}
<1>0. groups \in Nat /\ \A k \in 0 .. (groups - 1) : k \in Groups
  BY InodeCounts DEF Groups
<1>1. f \in [Groups -> Nat]
  BY DEF IndInv, InodesTypeOK
<1>2. PICK s \in [0 .. groups -> Nat] :
          /\ SumOver(f) = s[groups] /\ s[0] = 0
          /\ \A k \in 1 .. groups : s[k] = s[k - 1] + f[k - 1]
  BY <1>1, SumUnfolds
<1> DEFINE S == {k \in 0 .. groups : s[k] = Cardinality(Below(k))}
<1>3. 0 \in S
  <2>1. Below(0) = {}
    BY PlaceOf DEF Groups
  <2>2. 0 \in 0 .. groups /\ Cardinality({}) = 0
    BY <1>0, FS_EmptySet
  <2> QED BY <1>2, <2>1, <2>2
<1>4. ASSUME NEW k \in 0 .. (groups - 1), k \in S PROVE k + 1 \in S
  <2> DEFINE F == {n \in AllInodes \ given : GroupOf(n) = k}
  <2>1. k \in Groups /\ k + 1 \in 1 .. groups /\ k + 1 - 1 = k
    BY <1>0
  <2>2. Below(k + 1) = Below(k) \cup F /\ Below(k) \cap F = {}
    <3>1. \A n \in AllInodes : GroupOf(n) \in Int
      BY PlaceOf DEF Groups
    <3> QED BY <3>1
  <2>3. IsFiniteSet(Below(k)) /\ IsFiniteSet(F)
    <3>1. Below(k) \subseteq AllInodes /\ F \subseteq AllInodes
      OBVIOUS
    <3> QED BY <3>1, AllFinite, FS_Subset
  <2>4. Cardinality(F) = f[k]
    BY <2>1, FreeInGroup
  <2>5. s[k + 1] = s[k] + f[k] /\ s[k] = Cardinality(Below(k)) /\ s[k] \in Nat /\ f[k] \in Nat
    BY <1>1, <1>2, <1>4, <2>1
  <2> HIDE DEF F, f, Below
  <2>6. Cardinality(Below(k) \cup F) = Cardinality(Below(k)) + Cardinality(F)
                                      - Cardinality(Below(k) \cap F)
    BY <2>3, FS_Union
  <2>7. Cardinality(Below(k + 1)) = s[k + 1]
    <3>1. Cardinality(Below(k) \cap F) = 0
      BY <2>2, FS_EmptySet
    <3>2. Cardinality(Below(k) \cup F) = s[k] + f[k]
      BY <2>4, <2>5, <2>6, <3>1
    <3> QED BY <2>2, <2>5, <3>2
  <2>8. k + 1 \in 0 .. groups
    BY <2>1
  <2> QED BY <2>7, <2>8
<1>5. groups \in S
  <2> HIDE DEF S
  <2>1. \A k \in 0 .. groups : k \in S
    BY <1>0, <1>3, <1>4, BoundedInduction
  <2> QED BY <1>0, <2>1
<1>6. Below(groups) = AllInodes \ given
  BY PlaceOf, InodeCounts DEF Groups
<1> QED BY <1>2, <1>5, <1>6

-----------------------------------------------------------------------------
(* What is written                                                         *)

NothingWritten ==
    stage \in {"init", "build"} => sb = 0 /\ \A bg \in Groups : desc[bg].used_dirs = 0

WrittenInv == NothingWritten /\ CountsWritten

LEMMA UpdateWrites ==
    ASSUME IndInv, NothingWritten, ext4_update_free
    PROVE  WrittenInv'
<1>1. /\ desc' = [bg \in Groups |-> [free_inodes |-> bgs[bg].free_inodes,
                                     used_dirs   |-> desc[bg].used_dirs + bgs[bg].used_dirs]]
      /\ sb' = sb + SumOver([bg \in Groups |-> bgs[bg].free_inodes])
      /\ UNCHANGED <<bgs, given, dirs>> /\ stage' = "updated" /\ sb = 0
      /\ \A bg \in Groups : desc[bg].used_dirs = 0
  BY DEF ext4_update_free, NothingWritten
<1>2. sb' = Cardinality(AllInodes \ given)
  <2>1. Cardinality(AllInodes \ given) \in Nat
    BY AllFinite, FS_Subset, FS_CardinalityType
  <2> QED BY <1>1, <2>1, FreeAddsUp
<1>3. ASSUME NEW bg \in Groups
      PROVE  /\ desc'[bg].free_inodes = Cardinality(Bits \ bgs[bg].inode_bitmap)
             /\ desc'[bg].used_dirs = Cardinality({n \in dirs : GroupOf(n) = bg})
  <2> DEFINE f == bgs[bg].first_free_inode
  <2>1. /\ bgs[bg].inode_bitmap = 0 .. (f - 2) /\ bgs[bg].free_inodes = inodes_per_group + 1 - f
        /\ f \in 1 .. (inodes_per_group + 1) /\ inodes_per_group \in Nat \ {0}
        /\ bgs[bg].used_dirs \in Nat
    BY InodeCounts DEF IndInv, PrefixTaken, InodesTypeOK
  <2> HIDE DEF f
  <2>2. Bits \ (0 .. (f - 2)) = (f - 1) .. (inodes_per_group - 1)
    BY <2>1 DEF Bits
  <2>3. f - 1 \in Int /\ inodes_per_group - 1 \in Int
    BY <2>1
  <2>4. Cardinality((f - 1) .. (inodes_per_group - 1))
            = IF f - 1 > inodes_per_group - 1 THEN 0 ELSE (inodes_per_group - 1) - (f - 1) + 1
    BY <2>3, FS_Interval
  <2>5. Cardinality(Bits \ bgs[bg].inode_bitmap) = inodes_per_group + 1 - f
    <3>1. Cardinality(Bits \ bgs[bg].inode_bitmap) = Cardinality((f - 1) .. (inodes_per_group - 1))
      BY <2>1, <2>2
    <3> QED BY <2>1, <2>4, <3>1
  <2>6. desc'[bg].used_dirs = bgs[bg].used_dirs
    BY <1>1, <2>1
  <2> QED BY <1>1, <2>1, <2>5, <2>6 DEF IndInv, DirectoriesCounted
<1> QED BY <1>1, <1>2, <1>3 DEF WrittenInv, NothingWritten, CountsWritten

LEMMA WrittenStep ==
    ASSUME IndInv, WrittenInv, [InodesNext]_inodeVars
    PROVE  WrittenInv'
<1>1. CASE ext4_update_free
  BY <1>1, UpdateWrites DEF WrittenInv
<1>2. CASE UNCHANGED inodeVars
  BY <1>2 DEF inodeVars, WrittenInv, NothingWritten, CountsWritten
<1>3. CASE UNCHANGED <<desc, sb>> /\ stage \in {"init", "build"} /\ stage' \in {"init", "build", "exit"}
  BY <1>3 DEF WrittenInv, NothingWritten, CountsWritten
<1>4. ASSUME reserve_first_inodes \/ allocate_inode_fails \/ give_up
             \/ \E bg \in Groups : allocate_inode(bg)
      PROVE  UNCHANGED <<desc, sb>> /\ stage \in {"init", "build"} /\ stage' \in {"init", "build", "exit"}
  BY <1>4 DEF reserve_first_inodes, allocate_inode_fails, give_up, allocate_inode
<1>5. ASSUME stage = "build", NEW n, add_directory(n) \/ get_inode(n)
      PROVE  UNCHANGED <<desc, sb>> /\ stage' = "build"
  BY <1>5 DEF add_directory, get_inode
<1> QED BY <1>1, <1>2, <1>3, <1>4, <1>5 DEF InodesNext

-----------------------------------------------------------------------------
(* Theorems                                                                *)

\* The records of every group keep their ranges however inodes are taken: free
\* counts never go below zero, and bits stay in the bitmap (allocate.c:658-706).
THEOREM TypeInvariant == InodesSpec => []InodesTypeOK
<1>1. InodesInit => IndInv
  BY InitInv
<1>2. IndInv /\ [InodesNext]_inodeVars => IndInv'
  BY StepInv
<1>3. IndInv => InodesTypeOK
  BY DEF IndInv
<1> QED BY <1>1, <1>2, <1>3, PTL DEF InodesSpec

\* The bitmap of a group is the inodes that the callers have, and its free count what
\* the bitmap leaves (allocate.c:676-689).
THEOREM BitmapIsExact == InodesSpec => []BitmapExact
<1>1. InodesInit => IndInv
  BY InitInv
<1>2. IndInv /\ [InodesNext]_inodeVars => IndInv'
  BY StepInv
<1>3. IndInv => BitmapExact
  <2> SUFFICES ASSUME IndInv, NEW bg \in Groups
               PROVE  /\ bgs[bg].inode_bitmap = {BitOf(n) : n \in {m \in given : GroupOf(m) = bg}}
                      /\ bgs[bg].free_inodes = inodes_per_group - Cardinality(bgs[bg].inode_bitmap)
    BY DEF BitmapExact
  <2> DEFINE f == bgs[bg].first_free_inode
  <2>1. /\ bgs[bg].inode_bitmap = 0 .. (f - 2) /\ bgs[bg].free_inodes = inodes_per_group + 1 - f
        /\ f \in 1 .. (inodes_per_group + 1) /\ inodes_per_group \in Nat \ {0}
    BY InodeCounts DEF IndInv, PrefixTaken, InodesTypeOK
  <2>2. ASSUME NEW b \in 0 .. (f - 2) PROVE \E n \in given : GroupOf(n) = bg /\ b = BitOf(n)
    <3>1. b \in Bits
      BY <2>1 DEF Bits
    <3>2. /\ Place(bg, b) \in AllInodes /\ GroupOf(Place(bg, b)) = bg
          /\ BitOf(Place(bg, b)) = b
      BY <3>1, AtPlace
    <3>3. b <= f - 2
      BY <2>1
    <3>4. Place(bg, b) \in given
      BY <3>2, <3>3 DEF IndInv, PrefixGiven
    <3> QED BY <3>2, <3>4
  <2>3. ASSUME NEW n \in given, GroupOf(n) = bg PROVE BitOf(n) \in 0 .. (f - 2)
    <3>1. n \in AllInodes
      BY DEF IndInv, InodesTypeOK
    <3>2. BitOf(n) \in 0 .. (inodes_per_group - 1) /\ BitOf(n) <= f - 2
      BY <2>3, <3>1, PlaceOf DEF IndInv, PrefixGiven, Bits
    <3> QED BY <2>1, <3>2
  <2>4. Cardinality(0 .. (f - 2)) = f - 1
    <3>1. f - 2 \in Int /\ f - 2 >= 0 - 1
      BY <2>1
    <3>2. \A m \in Int : m >= 0 - 1 => Cardinality(0 .. m) = m + 1
      <4> TAKE m \in Int
      <4>1. Cardinality(0 .. m) = IF 0 > m THEN 0 ELSE m - 0 + 1
        BY FS_Interval
      <4> QED BY <4>1
    <3>3. f - 2 + 1 = f - 1
      BY <2>1
    <3> QED BY <3>1, <3>2, <3>3
  <2>5. bgs[bg].inode_bitmap = {BitOf(n) : n \in {m \in given : GroupOf(m) = bg}}
    BY <2>1, <2>2, <2>3
  <2>6. inodes_per_group + 1 - f = inodes_per_group - (f - 1)
    BY <2>1
  <2> QED BY <2>1, <2>4, <2>5, <2>6
<1> QED BY <1>1, <1>2, <1>3, PTL DEF InodesSpec

\* allocate_inode never hands out an inode that a caller has, nor one that does not
\* exist (allocate.c:694-706).
THEOREM InodesAreNew == InodesSpec => []NoInodeTwice
<1>1. InodesInit => IndInv
  BY InitInv
<1>2. IndInv /\ [InodesNext]_inodeVars => IndInv'
  BY StepInv
<1>3. IndInv => NoInodeTwice
  BY NextIsNew DEF NoInodeTwice, FirstFit
<1> QED BY <1>1, <1>2, <1>3, PTL DEF InodesSpec

\* used_dirs of a group counts the directories among its inodes (allocate.c:715-719).
THEOREM DirectoriesAreCounted == InodesSpec => []DirectoriesCounted
<1>1. InodesInit => IndInv
  BY InitInv
<1>2. IndInv /\ [InodesNext]_inodeVars => IndInv'
  BY StepInv
<1>3. IndInv => DirectoriesCounted
  BY DEF IndInv
<1> QED BY <1>1, <1>2, <1>3, PTL DEF InodesSpec

\* When the counts have been added up, the descriptors say of every group how many
\* bits its bitmap leaves and how many directories it has, and the superblock how
\* many inodes are free in all (ext4_utils.c:329-346).
THEOREM CountsAreWritten == InodesSpec => []CountsWritten
<1>1. InodesInit => IndInv /\ WrittenInv
  BY InitInv DEF InodesInit, NoCounts, WrittenInv, NothingWritten, CountsWritten
<1>2. IndInv /\ WrittenInv /\ [InodesNext]_inodeVars => IndInv' /\ WrittenInv'
  BY StepInv, WrittenStep
<1>3. WrittenInv => CountsWritten
  BY DEF WrittenInv
<1> QED BY <1>1, <1>2, <1>3, PTL DEF InodesSpec

-----------------------------------------------------------------------------
(* The recursion                                                           *)

\* The calls between the root's directory and the return from it, those of them that
\* have an inode for the directory, and those that have one for the entry.
InTree     == {"scan", "dir_inode", "add_directory", "get_dir_inode", "dir_data", "entries",
               "fill", "get_child", "child_data", "store"}
HasInode   == InTree \ {"scan", "dir_inode"}
HasChild   == {"get_child", "child_data", "store", "root_mode"}
NotStarted == {"scan", "dir_inode"}

Frames(N) == [node : N, dir_inode : Nat, inode : Nat, next : Nat]

StackOK == \E N : stack \in Seq(Frames(N))

\* The frames of the callers have their inodes, and so has the frame at hand once it
\* has got there.
CallersGiven ==
    /\ at \in InTree => stack # <<>>
    /\ \A k \in 2 .. Len(stack) : stack[k].inode \in given
    /\ at \in HasInode => stack[1].inode \in given

\* Only the root is called without a parent, before any directory is there.
RootFirst ==
    /\ at = "reserved" => dirs = {}
    /\ at \in NotStarted /\ stack[1].dir_inode = 0 => dirs = {}

TreeInv ==
    /\ at \in InTree \cup {"reserve", "reserved", "root_mode", "update", "end"}
    /\ at \notin {"reserve", "end"} => stage = "build" /\ 1 \in given /\ EXT4_ROOT_INO \in given
    /\ StackOK /\ CallersGiven /\ RootFirst
    /\ at = "add_directory" => stack[1].inode \notin dirs
    /\ at \in HasChild => child \in given

-----------------------------------------------------------------------------
(* The stack                                                               *)

LEMMA TopOfStack ==
    ASSUME StackOK, stack # <<>>
    PROVE  /\ Len(stack) \in Nat \ {0}
           /\ Top = stack[1]
           /\ stack[1].inode \in Nat /\ stack[1].dir_inode \in Nat
<1>1. PICK N : stack \in Seq(Frames(N))
  BY DEF StackOK
<1>2. Len(stack) \in Nat \ {0}
  BY <1>1, EmptySeq
<1>3. stack[1] \in Frames(N)
  BY <1>1, <1>2, ElementOfSeq
<1>4. Top = stack[1]
  BY <1>1, <1>2 DEF Top
<1> QED BY <1>2, <1>3, <1>4 DEF Frames

\* The frame at hand is replaced by another.
LEMMA ChangeTop ==
    ASSUME StackOK, stack # <<>>, NEW new,
           \A N : stack[1] \in Frames(N) => new \in Frames(N),
           stack' = [stack EXCEPT ![1] = new]
    PROVE  /\ StackOK' /\ stack' # <<>> /\ Len(stack') = Len(stack)
           /\ stack'[1] = new /\ \A k \in 2 .. Len(stack) : stack'[k] = stack[k]
<1>1. PICK N : stack \in Seq(Frames(N))
  BY DEF StackOK
<1>2. Len(stack) \in Nat \ {0}
  BY <1>1, EmptySeq
<1>3. new \in Frames(N)
  BY <1>1, <1>2, ElementOfSeq
<1>4. /\ stack' \in Seq(Frames(N)) /\ Len(stack') = Len(stack)
      /\ \A j \in 1 .. Len(stack) : stack'[j] = IF j = 1 THEN new ELSE stack[j]
  BY <1>1, <1>2, <1>3, ExceptSeq
<1>5. stack' # <<>>
  BY <1>2, <1>4
<1> QED BY <1>2, <1>4, <1>5 DEF StackOK

\* A call adds a frame in front.
LEMMA PushFrame ==
    ASSUME StackOK, NEW n, NEW d \in Nat, stack' = <<Frame(n, d)>> \o stack
    PROVE  /\ StackOK' /\ stack' # <<>> /\ Len(stack') = Len(stack) + 1
           /\ stack'[1] = Frame(n, d)
           /\ \A k \in 2 .. Len(stack') : stack'[k] = stack[k - 1]
<1>1. PICK N : stack \in Seq(Frames(N))
  BY DEF StackOK
<1> DEFINE M == N \cup {n}
<1>2. stack \in Seq(Frames(M))
  <2>1. Frames(N) \subseteq Frames(M)
    BY DEF Frames
  <2> QED BY <1>1, <2>1, SeqMonotonic
<1>3. <<Frame(n, d)>> \in Seq(Frames(M)) /\ Len(<<Frame(n, d)>>) = 1
  <2>1. Frame(n, d) \in Frames(M)
    BY DEF Frame, Frames
  <2> QED BY <2>1
<1> HIDE DEF M
<1>4. Len(stack) \in Nat
  BY <1>2, LenProperties
<1>5. /\ stack' \in Seq(Frames(M)) /\ Len(stack') = 1 + Len(stack)
      /\ \A k \in 1 .. 1 + Len(stack) :
            stack'[k] = IF k <= 1 THEN <<Frame(n, d)>>[k] ELSE stack[k - 1]
  BY <1>2, <1>3, ConcatProperties
<1>6. stack' # <<>>
  BY <1>4, <1>5
<1> QED BY <1>4, <1>5, <1>6 DEF StackOK

\* A return takes it away.
LEMMA PopFrame ==
    ASSUME StackOK, stack # <<>>, stack' = Tail(stack)
    PROVE  /\ StackOK' /\ Len(stack') = Len(stack) - 1
           /\ \A k \in 1 .. Len(stack') : stack'[k] = stack[k + 1]
<1>1. PICK N : stack \in Seq(Frames(N))
  BY DEF StackOK
<1>2. /\ stack' \in Seq(Frames(N)) /\ Len(stack') = Len(stack) - 1
      /\ \A k \in 1 .. Len(stack') : stack'[k] = stack[k + 1]
  BY <1>1, HeadTailProperties
<1> QED BY <1>2 DEF StackOK

LEMMA SameStack ==
    ASSUME TreeInv, stack' = stack, given \subseteq given'
    PROVE  /\ StackOK' /\ \A k \in 2 .. Len(stack') : stack'[k].inode \in given'
           /\ at \in HasInode => stack'[1].inode \in given'
BY DEF TreeInv, StackOK, CallersGiven

\* Inode 0 is nobody's, and directories are somebody's.
LEMMA GivenInodes ==
    ASSUME IndInv
    PROVE  dirs \subseteq given /\ given \subseteq Nat \ {0}
<1>1. AllInodes \subseteq Nat \ {0}
  <2>1. groups * inodes_per_group \in Nat
    BY InodeCounts
  <2> QED BY <2>1 DEF AllInodes
<1> QED BY <1>1 DEF IndInv, InodesTypeOK

-----------------------------------------------------------------------------
(* Every call is a step of the allocator, or none, and keeps the invariant *)

Good == [InodesNext]_inodeVars /\ TreeInv'

\* Calls that leave the stack as it is and go on with the same directory.
LEMMA SameFrame ==
    ASSUME TreeInv, stack' = stack, given \subseteq given', stage' = stage,
           at \in HasInode, at' \in HasInode \ {"add_directory"},
           at' \in HasChild => child' \in given'
    PROVE  TreeInv'
<1>1. /\ StackOK' /\ \A k \in 2 .. Len(stack') : stack'[k].inode \in given'
      /\ stack'[1].inode \in given'
  BY SameStack
<1>2. stage' = "build" /\ 1 \in given' /\ EXT4_ROOT_INO \in given' /\ stack' # <<>>
  BY DEF TreeInv, CallersGiven, HasInode, InTree
<1>3. at' \in InTree /\ at' \notin {"reserved", "reserve", "end", "add_directory"} \cup NotStarted
  BY DEF HasInode, InTree, NotStarted
<1> QED BY <1>1, <1>2, <1>3 DEF TreeInv, CallersGiven, RootFirst, EXT4_ROOT_INO

\* The program ends.
LEMMA AtEnd ==
    ASSUME TreeInv, stack' = stack, given \subseteq given', at' = "end"
    PROVE  TreeInv'
BY SameStack DEF TreeInv, CallersGiven, RootFirst, InTree, HasInode, HasChild, NotStarted

LEMMA ReserveGood == ASSUME IndInv, TreeInv, reserve PROVE Good
<1>1. InodesNext /\ stack' = stack
  BY DEF reserve, InodesNext
<1>2. CASE ~Fits(0, FirstInodes)
  <2>1. at' = "end" /\ given' = given
    BY <1>2 DEF reserve, reserve_first_inodes
  <2> QED BY <1>1, <2>1, AtEnd DEF Good
<1>3. CASE Fits(0, FirstInodes)
  <2>1. /\ at' = "reserved" /\ stage' = "build" /\ given' = 1 .. FirstInodes
        /\ dirs' = dirs /\ stage = "init"
    BY <1>3 DEF reserve, reserve_first_inodes
  <2>2. dirs = {} /\ given = {}
    BY <2>1, NothingAtFirst
  <2>3. 1 \in given' /\ EXT4_ROOT_INO \in given'
    BY <2>1, InodeCounts DEF EXT4_ROOT_INO
  <2>4. StackOK' /\ \A k \in 2 .. Len(stack') : stack'[k].inode \in given'
    BY <1>1, <2>2, SameStack
  <2>5. TreeInv'
    BY <2>1, <2>2, <2>3, <2>4
    DEF TreeInv, CallersGiven, RootFirst, InTree, HasInode, HasChild, NotStarted, EXT4_ROOT_INO
  <2> QED BY <1>1, <2>5 DEF Good
<1> QED BY <1>2, <1>3

LEMMA CreateReservedGood == ASSUME IndInv, TreeInv, create_reserved PROVE Good
<1>1. /\ at = "reserved" /\ at' = "scan" /\ get_inode(1) /\ stack' = <<Frame(1, 0)>>
  BY DEF create_reserved, Call
<1>2. stage = "build" /\ 1 \in given /\ EXT4_ROOT_INO \in given /\ dirs = {}
  BY <1>1 DEF TreeInv, RootFirst
<1>3. InodesNext
  BY <1>1, <1>2 DEF InodesNext
<1>4. given' = given /\ dirs' = dirs /\ stage' = stage
  BY <1>1 DEF get_inode
<1>5. StackOK' /\ stack' # <<>> /\ Len(stack') = 1
  <2>1. Frame(1, 0) \in Frames({1})
    BY DEF Frame, Frames
  <2>2. stack' \in Seq(Frames({1}))
    BY <1>1, <2>1
  <2> QED BY <1>1, <2>2 DEF StackOK
<1>6. TreeInv'
  BY <1>1, <1>2, <1>4, <1>5
  DEF TreeInv, CallersGiven, RootFirst, InTree, HasInode, HasChild, NotStarted, EXT4_ROOT_INO
<1> QED BY <1>3, <1>6 DEF Good

LEMMA ScanGood == ASSUME IndInv, TreeInv, scan_directory PROVE Good
<1>1. at = "scan" /\ at' = "dir_inode" /\ UNCHANGED <<inodeVars, stack, child>>
  BY DEF scan_directory, Call
<1>2. given' = given /\ dirs' = dirs /\ stage' = stage
  BY <1>1 DEF inodeVars
<1>3. StackOK' /\ \A k \in 2 .. Len(stack') : stack'[k].inode \in given'
  BY <1>1, <1>2, SameStack
<1>4. TreeInv'
  BY <1>1, <1>2, <1>3
  DEF TreeInv, CallersGiven, RootFirst, InTree, HasInode, HasChild, NotStarted, EXT4_ROOT_INO
<1> QED BY <1>1, <1>4 DEF Good

LEMMA CountDentriesGood == ASSUME IndInv, TreeInv, count_dentries PROVE Good
<1>1. UNCHANGED inodeVars /\ at' = at /\ UNCHANGED <<stack, child>>
  BY DEF count_dentries, Call
<1>2. given' = given /\ dirs' = dirs /\ stage' = stage
  BY <1>1 DEF inodeVars
<1>3. TreeInv'
  BY <1>1, <1>2 DEF TreeInv, StackOK, CallersGiven, RootFirst
<1> QED BY <1>1, <1>3 DEF Good

LEMMA RootInodeGood == ASSUME IndInv, TreeInv, root_inode PROVE Good
<1> DEFINE new == [stack[1] EXCEPT !.inode = EXT4_ROOT_INO, !.dir_inode = EXT4_ROOT_INO]
<1>1. /\ at = "dir_inode" /\ at' = "add_directory" /\ Top.dir_inode = 0
      /\ UNCHANGED <<inodeVars, child>>
      /\ stack' = [stack EXCEPT ![1].inode = EXT4_ROOT_INO, ![1].dir_inode = EXT4_ROOT_INO]
  BY DEF root_inode, Call
<1>2. given' = given /\ dirs' = dirs /\ stage' = stage
  BY <1>1 DEF inodeVars
<1>3. StackOK /\ stack # <<>> /\ EXT4_ROOT_INO \in given /\ 1 \in given /\ stage = "build"
  BY <1>1 DEF TreeInv, CallersGiven, InTree
<1>4. Len(stack) \in Nat \ {0} /\ Top = stack[1]
  BY <1>3, TopOfStack
<1>5. dirs = {}
  BY <1>1, <1>4 DEF TreeInv, RootFirst, NotStarted
<1>6. stack' = [stack EXCEPT ![1] = new]
  <2>1. PICK N : stack \in Seq(Frames(N))
    BY <1>3 DEF StackOK
  <2>2. stack \in [1 .. Len(stack) -> Frames(N)]
    BY <2>1, LenProperties
  <2> QED BY <1>1, <1>4, <2>2 DEF Frames
<1>7. \A N : stack[1] \in Frames(N) => new \in Frames(N) /\ new.inode = EXT4_ROOT_INO
  BY DEF Frames, EXT4_ROOT_INO
<1>8. new.inode = EXT4_ROOT_INO
  <2>1. PICK N : stack \in Seq(Frames(N))
    BY <1>3 DEF StackOK
  <2>2. stack[1] \in Frames(N)
    BY <1>4, <2>1, ElementOfSeq
  <2> QED BY <1>7, <2>2
<1> HIDE DEF new
<1>9. /\ StackOK' /\ stack' # <<>> /\ Len(stack') = Len(stack)
      /\ stack'[1] = new /\ \A k \in 2 .. Len(stack) : stack'[k] = stack[k]
  BY <1>3, <1>6, <1>7, ChangeTop
<1>10. \A k \in 2 .. Len(stack') : stack'[k].inode \in given'
  BY <1>2, <1>9 DEF TreeInv, CallersGiven
<1>11. TreeInv'
  BY <1>1, <1>2, <1>3, <1>5, <1>8, <1>9, <1>10
  DEF TreeInv, CallersGiven, RootFirst, InTree, HasInode, HasChild, NotStarted, EXT4_ROOT_INO
<1> QED BY <1>1, <1>11 DEF Good

LEMMA NewDirInodeGood == ASSUME IndInv, TreeInv, new_dir_inode PROVE Good
<1>0. at = "dir_inode" /\ at' = "add_directory"
  BY DEF new_dir_inode, Call
<1>1. PICK bg \in Groups : /\ allocate_inode(bg)
                           /\ stack' = [stack EXCEPT ![1].inode = NextInode(bg)]
  BY DEF new_dir_inode
<1> DEFINE n   == NextInode(bg)
           new == [stack[1] EXCEPT !.inode = n]
<1>2. InodesNext
  BY <1>1 DEF InodesNext
<1>3. n \notin given /\ n \in Nat
  <2>1. Fits(bg, 1)
    BY <1>1 DEF allocate_inode, FirstFit
  <2>2. AllInodes \subseteq Nat
    BY DEF AllInodes
  <2> QED BY <2>1, <2>2, NextIsNew
<1>4. given' = given \cup {n} /\ dirs' = dirs /\ stage' = stage
  BY <1>1 DEF allocate_inode
<1> HIDE DEF n
<1>5. StackOK /\ stack # <<>> /\ EXT4_ROOT_INO \in given /\ 1 \in given /\ stage = "build"
  BY <1>0 DEF TreeInv, CallersGiven, InTree
<1>6. Len(stack) \in Nat \ {0}
  BY <1>5, TopOfStack
<1>7. PICK N : stack \in Seq(Frames(N))
  BY <1>5 DEF StackOK
<1>8. stack' = [stack EXCEPT ![1] = new]
  BY <1>1 DEF n
<1>9. \A M : stack[1] \in Frames(M) => new \in Frames(M) /\ new.inode = n
  BY <1>3 DEF Frames
<1>10. new.inode = n
  BY <1>6, <1>7, <1>9, ElementOfSeq
<1> HIDE DEF new
<1>11. /\ StackOK' /\ stack' # <<>> /\ Len(stack') = Len(stack)
       /\ stack'[1] = new /\ \A k \in 2 .. Len(stack) : stack'[k] = stack[k]
  BY <1>5, <1>8, <1>9, ChangeTop
<1>12. \A k \in 2 .. Len(stack') : stack'[k].inode \in given'
  BY <1>4, <1>11 DEF TreeInv, CallersGiven
<1>13. n \notin dirs' /\ n \in given'
  BY <1>3, <1>4, GivenInodes
<1>14. TreeInv'
  BY <1>0, <1>4, <1>5, <1>10, <1>11, <1>12, <1>13
  DEF TreeInv, CallersGiven, RootFirst, InTree, HasInode, HasChild, NotStarted, EXT4_ROOT_INO
<1> QED BY <1>2, <1>14 DEF Good

\* What holds at every call between the allocation of a directory's inode and the
\* return.
LEMMA InDirectory ==
    ASSUME TreeInv, at \in HasInode
    PROVE  /\ StackOK /\ stack # <<>> /\ Top = stack[1] /\ Len(stack) \in Nat \ {0}
           /\ Top.inode \in given /\ stage = "build"
<1>1. StackOK /\ stack # <<>> /\ stack[1].inode \in given /\ stage = "build"
  BY DEF TreeInv, CallersGiven, HasInode, InTree
<1> QED BY <1>1, TopOfStack

LEMMA CountDirectoryGood == ASSUME IndInv, TreeInv, count_directory PROVE Good
<1>1. /\ at = "add_directory" /\ at' = "get_dir_inode" /\ add_directory(Top.inode)
      /\ stack' = stack
  BY DEF count_directory, Call
<1>2. Top = stack[1] /\ Top.inode \in given /\ stage = "build"
  BY <1>1, InDirectory DEF HasInode, InTree
<1>3. Top.inode \in given \ dirs
  BY <1>1, <1>2 DEF TreeInv
<1>4. InodesNext
  BY <1>1, <1>2, <1>3 DEF InodesNext
<1>5. given' = given /\ stage' = stage
  BY <1>1 DEF add_directory
<1>6. TreeInv'
  BY <1>1, <1>5, SameFrame DEF HasInode, InTree, HasChild
<1> QED BY <1>4, <1>6 DEF Good

LEMMA GetDirInodeGood == ASSUME IndInv, TreeInv, get_dir_inode PROVE Good
<1>1. /\ at = "get_dir_inode" /\ at' = "dir_data" /\ get_inode(Top.inode)
      /\ stack' = stack
  BY DEF get_dir_inode, Call
<1>2. Top.inode \in given /\ stage = "build"
  BY <1>1, InDirectory DEF HasInode, InTree
<1>3. InodesNext
  BY <1>1, <1>2 DEF InodesNext
<1>4. given' = given /\ stage' = stage
  BY <1>1 DEF get_inode
<1>5. TreeInv'
  BY <1>1, <1>4, SameFrame DEF HasInode, InTree, HasChild
<1> QED BY <1>3, <1>5 DEF Good

\* The calls that lay out the directory leave the allocator alone.
LEMMA DirectoryDataGood ==
    ASSUME IndInv, TreeInv, dir_data \/ end_directory
    PROVE  Good
<1>1. /\ \/ at = "dir_data" /\ at' = "entries"
         \/ at = "entries" /\ at' = "fill"
      /\ UNCHANGED inodeVars /\ stack' = stack
  BY DEF dir_data, end_directory, Call
<1>2. given' = given /\ stage' = stage
  BY <1>1 DEF inodeVars
<1>3. TreeInv'
  BY <1>1, <1>2, SameFrame DEF HasInode, InTree, HasChild
<1> QED BY <1>1, <1>3 DEF Good

LEMMA AddChildEntryGood == ASSUME IndInv, TreeInv, add_child_entry PROVE Good
<1>1. at = "entries" /\ UNCHANGED <<bgs, given, dirs, desc, sb>> /\ stack' = stack
  BY DEF add_child_entry
<1>2. stage = "build"
  BY <1>1, InDirectory DEF HasInode, InTree
<1>3. CASE pc' = "internal_error"
  <2>1. at' = "end" /\ stage' = "exit"
    BY <1>3 DEF add_child_entry
  <2>2. give_up
    BY <1>1, <1>2, <2>1 DEF give_up
  <2>3. TreeInv'
    BY <1>1, <2>1, AtEnd
  <2> QED BY <2>2, <2>3 DEF Good, InodesNext
<1>4. CASE pc' # "internal_error"
  <2>1. at' = "entries" /\ stage' = stage
    BY <1>1, <1>4 DEF add_child_entry
  <2>2. UNCHANGED inodeVars
    BY <1>1, <2>1 DEF inodeVars
  <2>3. TreeInv'
    BY <1>1, <2>1, SameFrame DEF HasInode, InTree, HasChild
  <2> QED BY <2>2, <2>3 DEF Good
<1> QED BY <1>3, <1>4

LEMMA FillDirectoryGood == ASSUME IndInv, TreeInv, fill_directory PROVE Good
<1>1. /\ at = "fill" /\ at' = "scan" /\ UNCHANGED <<inodeVars, child>>
      /\ stack' = <<Frame(Entry, Top.inode)>> \o stack
  BY DEF fill_directory, Call
<1>2. given' = given /\ dirs' = dirs /\ stage' = stage
  BY <1>1 DEF inodeVars
<1>3. /\ StackOK /\ stack # <<>> /\ Top = stack[1] /\ Len(stack) \in Nat \ {0}
      /\ Top.inode \in given /\ stage = "build"
  BY <1>1, InDirectory DEF HasInode, InTree
<1>4. Top.inode \in Nat /\ Top.inode # 0
  BY <1>3, GivenInodes
<1>5. /\ StackOK' /\ stack' # <<>> /\ Len(stack') = Len(stack) + 1
      /\ stack'[1] = Frame(Entry, Top.inode)
      /\ \A k \in 2 .. Len(stack') : stack'[k] = stack[k - 1]
  BY <1>1, <1>3, <1>4, PushFrame
<1>6. stack'[1].dir_inode # 0
  BY <1>4, <1>5 DEF Frame
<1>7. ASSUME NEW k \in 2 .. Len(stack') PROVE stack'[k].inode \in given'
  <2>1. CASE k = 2
    BY <1>2, <1>3, <1>5, <2>1
  <2>2. CASE k # 2
    <3>1. k - 1 \in 2 .. Len(stack)
      BY <1>3, <1>5, <2>2
    <3>2. stack[k - 1].inode \in given
      BY <3>1 DEF TreeInv, CallersGiven
    <3> QED BY <1>2, <1>5, <3>2
  <2> QED BY <2>1, <2>2
<1>8. 1 \in given /\ EXT4_ROOT_INO \in given
  BY <1>1 DEF TreeInv
<1>9. TreeInv'
  BY <1>1, <1>2, <1>3, <1>5, <1>6, <1>7, <1>8
  DEF TreeInv, CallersGiven, RootFirst, InTree, HasInode, HasChild, NotStarted, EXT4_ROOT_INO
<1> QED BY <1>1, <1>9 DEF Good

\* make_file and make_link take an inode: the child is one that was given.
LEMMA FillFileGood == ASSUME IndInv, TreeInv, fill_file PROVE Good
<1>1. at = "fill" /\ at' = "get_child" /\ stack' = stack
  BY DEF fill_file, Call
<1>2. PICK bg \in Groups : allocate_inode(bg) /\ child' = NextInode(bg)
  BY DEF fill_file
<1>3. InodesNext
  BY <1>2 DEF InodesNext
<1>4. given' = given \cup {child'} /\ stage' = stage
  BY <1>2 DEF allocate_inode
<1>5. TreeInv'
  BY <1>1, <1>4, SameFrame DEF HasInode, InTree, HasChild
<1> QED BY <1>3, <1>5 DEF Good

LEMMA GetChildGood == ASSUME IndInv, TreeInv, get_child PROVE Good
<1>1. at = "get_child" /\ at' = "child_data" /\ get_inode(child) /\ UNCHANGED <<stack, child>>
  BY DEF get_child, Call
<1>2. child \in given /\ stage = "build"
  BY <1>1 DEF TreeInv, HasChild
<1>3. InodesNext
  BY <1>1, <1>2 DEF InodesNext
<1>4. given' = given /\ stage' = stage
  BY <1>1 DEF get_inode
<1>5. TreeInv'
  BY <1>1, <1>2, <1>4, SameFrame DEF HasInode, InTree, HasChild
<1> QED BY <1>3, <1>5 DEF Good

LEMMA ChildDataGood == ASSUME IndInv, TreeInv, child_data PROVE Good
<1>1. at = "child_data" /\ at' = "store" /\ UNCHANGED <<inodeVars, stack, child>>
  BY DEF child_data, Call
<1>2. child \in given /\ given' = given /\ stage' = stage
  BY <1>1 DEF TreeInv, HasChild, inodeVars
<1>3. TreeInv'
  BY <1>1, <1>2, SameFrame DEF HasInode, InTree, HasChild
<1> QED BY <1>1, <1>3 DEF Good

LEMMA StoreInodeGood == ASSUME IndInv, TreeInv, store_inode PROVE Good
<1> DEFINE new == [stack[1] EXCEPT !.next = @ + 1]
<1>1. /\ at = "store" /\ at' = "fill" /\ get_inode(child)
      /\ stack' = [stack EXCEPT ![1].next = @ + 1]
  BY DEF store_inode, Call
<1>2. child \in given /\ stage = "build" /\ 1 \in given /\ EXT4_ROOT_INO \in given
  BY <1>1 DEF TreeInv, HasChild
<1>3. InodesNext
  BY <1>1, <1>2 DEF InodesNext
<1>4. given' = given /\ dirs' = dirs /\ stage' = stage
  BY <1>1 DEF get_inode
<1>5. /\ StackOK /\ stack # <<>> /\ Len(stack) \in Nat \ {0} /\ stack[1].inode \in given
  BY <1>1, InDirectory DEF HasInode, InTree
<1>6. PICK N : stack \in Seq(Frames(N))
  BY <1>5 DEF StackOK
<1>7. stack' = [stack EXCEPT ![1] = new]
  BY <1>1
<1>8. \A M : stack[1] \in Frames(M) => new \in Frames(M) /\ new.inode = stack[1].inode
  BY DEF Frames
<1>9. new.inode = stack[1].inode
  BY <1>5, <1>6, <1>8, ElementOfSeq
<1> HIDE DEF new
<1>10. /\ StackOK' /\ stack' # <<>> /\ Len(stack') = Len(stack)
       /\ stack'[1] = new /\ \A k \in 2 .. Len(stack) : stack'[k] = stack[k]
  BY <1>5, <1>7, <1>8, ChangeTop
<1>11. \A k \in 2 .. Len(stack') : stack'[k].inode \in given'
  BY <1>4, <1>10 DEF TreeInv, CallersGiven
<1>12. TreeInv'
  BY <1>1, <1>2, <1>4, <1>5, <1>9, <1>10, <1>11
  DEF TreeInv, CallersGiven, RootFirst, InTree, HasInode, HasChild, NotStarted, EXT4_ROOT_INO
<1> QED BY <1>3, <1>12 DEF Good

LEMMA ReturnGood == ASSUME IndInv, TreeInv, return PROVE Good
<1>1. /\ at = "fill" /\ child' = Top.inode /\ stack' = Tail(stack) /\ UNCHANGED inodeVars
      /\ at' = IF stack' = <<>> THEN "root_mode" ELSE "store"
  BY DEF return
<1>2. given' = given /\ dirs' = dirs /\ stage' = stage
  BY <1>1 DEF inodeVars
<1>3. /\ StackOK /\ stack # <<>> /\ Len(stack) \in Nat \ {0}
      /\ child' \in given' /\ stage = "build"
  BY <1>1, <1>2, InDirectory DEF HasInode, InTree
<1>4. /\ StackOK' /\ Len(stack') = Len(stack) - 1
      /\ \A k \in 1 .. Len(stack') : stack'[k] = stack[k + 1]
  BY <1>1, <1>3, PopFrame
<1>5. ASSUME NEW k \in 1 .. Len(stack') PROVE stack'[k].inode \in given'
  <2>1. k + 1 \in 2 .. Len(stack)
    BY <1>3, <1>4
  <2> QED BY <1>2, <1>4, <2>1 DEF TreeInv, CallersGiven
<1>6. stack' # <<>> => 1 \in 1 .. Len(stack')
  <2>1. PICK N : stack' \in Seq(Frames(N))
    BY <1>4 DEF StackOK
  <2> QED BY <2>1, EmptySeq
<1>7. stack' # <<>> => stack'[1].inode \in given'
  BY <1>5, <1>6
<1>8. \A k \in 2 .. Len(stack') : stack'[k].inode \in given'
  BY <1>3, <1>4, <1>5
<1>9. 1 \in given /\ EXT4_ROOT_INO \in given
  BY <1>1 DEF TreeInv
<1>10. TreeInv'
  BY <1>1, <1>2, <1>3, <1>4, <1>7, <1>8, <1>9
  DEF TreeInv, CallersGiven, RootFirst, InTree, HasInode, HasChild, NotStarted, EXT4_ROOT_INO
<1> QED BY <1>1, <1>10 DEF Good

LEMMA RootModeGood == ASSUME IndInv, TreeInv, root_mode PROVE Good
<1>1. at = "root_mode" /\ at' = "update" /\ get_inode(child) /\ stack' = stack
  BY DEF root_mode, Call
<1>2. child \in given /\ stage = "build" /\ 1 \in given /\ EXT4_ROOT_INO \in given
  BY <1>1 DEF TreeInv, HasChild
<1>3. InodesNext
  BY <1>1, <1>2 DEF InodesNext
<1>4. given' = given /\ stage' = stage
  BY <1>1 DEF get_inode
<1>5. StackOK' /\ \A k \in 2 .. Len(stack') : stack'[k].inode \in given'
  BY <1>1, <1>4, SameStack
<1>6. TreeInv'
  BY <1>1, <1>2, <1>4, <1>5
  DEF TreeInv, CallersGiven, RootFirst, InTree, HasInode, HasChild, NotStarted, EXT4_ROOT_INO
<1> QED BY <1>3, <1>6 DEF Good

\* The calls that end the program.
LEMMA EndGood ==
    ASSUME IndInv, TreeInv, update \/ no_inode_left \/ call_fails
    PROVE  Good
<1>1. ext4_update_free \/ allocate_inode_fails \/ give_up
  BY DEF update, no_inode_left, call_fails
<1>2. InodesNext /\ given' = given
  BY <1>1 DEF InodesNext, ext4_update_free, allocate_inode_fails, give_up
<1>3. at' = "end" /\ stack' = stack
  BY DEF update, no_inode_left, call_fails, Call
<1> QED BY <1>2, <1>3, AtEnd DEF Good

LEMMA StepGood ==
    ASSUME IndInv, TreeInv, [Next]_vars
    PROVE  Good
<1>1. CASE UNCHANGED vars
  <2>1. UNCHANGED inodeVars /\ UNCHANGED <<stack, child, at, given, dirs, stage>>
    BY <1>1 DEF vars, treeVars, inodeVars
  <2>2. TreeInv'
    BY <2>1 DEF TreeInv, StackOK, CallersGiven, RootFirst
  <2> QED BY <2>1, <2>2 DEF Good
<1> QED
  BY <1>1, ReserveGood, CreateReservedGood, ScanGood, CountDentriesGood, RootInodeGood,
     NewDirInodeGood, CountDirectoryGood, GetDirInodeGood, DirectoryDataGood, AddChildEntryGood,
     FillDirectoryGood, FillFileGood, GetChildGood, ChildDataGood, StoreInodeGood,
     ReturnGood, RootModeGood, EndGood DEF Next

LEMMA TreeInit ==
    ASSUME Init
    PROVE  InodesInit /\ TreeInv
<1>1. InodesInit /\ stack = <<>> /\ at = "reserve"
  BY DEF Init
<1>2. stack \in Seq(Frames({})) /\ Len(stack) = 0
  BY <1>1
<1>3. StackOK /\ \A k \in 2 .. Len(stack) : stack[k].inode \in given
  BY <1>2 DEF StackOK
<1> QED BY <1>1, <1>3 DEF TreeInv, CallersGiven, RootFirst, InTree, HasInode, HasChild, NotStarted

-----------------------------------------------------------------------------
(* Theorems                                                                *)

\* Every call of build_directory_structure, make_directory, make_file and make_link
\* uses the allocator as Inodes allows: inodes are read and stored only when they
\* were given out, and no inode is made a directory twice (make_ext4fs.c:73-190,
\* contents.c:86-225).
THEOREM TreeUsesAllocator == Spec => InodesSpec
<1>1. Init => InodesInit /\ IndInv /\ TreeInv
  BY TreeInit, InitInv
<1>2. IndInv /\ TreeInv /\ [Next]_vars => [InodesNext]_inodeVars /\ IndInv' /\ TreeInv'
  BY StepGood, StepInv DEF Good
<1> QED BY <1>1, <1>2, PTL DEF Spec, InodesSpec

\* So in any tree, of any depth, no inode is given out twice, the bitmaps say which
\* inodes are in use, and used_dirs counts the directories made (allocate.c:670-719).
THEOREM TreeInodes == Spec => [](NoInodeTwice /\ BitmapExact /\ DirectoriesCounted)
BY TreeUsesAllocator, InodesAreNew, BitmapIsExact, DirectoriesAreCounted, PTL

\* At every call the inodes the callers hold, in the frames of the recursion and for
\* the entry at hand, are inodes they were given (make_ext4fs.c:171).
THEOREM CallersHoldTheirInodes == Spec => []TreeInv
<1>1. Init => InodesInit /\ IndInv /\ TreeInv
  BY TreeInit, InitInv
<1>2. IndInv /\ TreeInv /\ [Next]_vars => IndInv' /\ TreeInv'
  BY StepGood, StepInv DEF Good
<1> QED BY <1>1, <1>2, PTL DEF Spec

-----------------------------------------------------------------------------
(* The source tree                                                         *)

TreeShape ==
    /\ Len(tree) \in Nat \ {0} /\ DOMAIN tree = 1 .. Len(tree) /\ tree[1].kind = "dir"
    /\ \A n \in 1 .. Len(tree) :
          /\ tree[n].kind \in {"dir", "file", "link", "other"}
          /\ Kids(n) \in Seq(Nat \ {0}) /\ Len(Kids(n)) \in Nat /\ DOMAIN Kids(n) = 1 .. Len(Kids(n))
          /\ \A k \in 1 .. Len(Kids(n)) :
                /\ Kids(n)[k] \in (n + 1) .. Len(tree) /\ tree[Kids(n)[k]].parent = n
                /\ \A j \in 1 .. Len(Kids(n)) : Kids(n)[j] = Kids(n)[k] => j = k
    /\ \A n \in 2 .. Len(tree) :
          /\ tree[n].parent \in 1 .. (n - 1) /\ tree[tree[n].parent].kind = "dir"
          /\ \E k \in 1 .. Len(Kids(tree[n].parent)) : Kids(tree[n].parent)[k] = n

LEMMA Shape ==
    ASSUME tree \in SourceTrees
    PROVE  TreeShape
<1>1. /\ tree \in Seq(Nodes) /\ Len(tree) > 0 /\ tree[1].kind = "dir"
      /\ \A n \in 2 .. Len(tree) : tree[n].parent \in 1 .. (n - 1) /\ tree[tree[n].parent].kind = "dir"
      /\ \A n \in 1 .. Len(tree) :
            /\ {Kids(n)[k] : k \in DOMAIN Kids(n)} = {m \in 2 .. Len(tree) : tree[m].parent = n}
            /\ \A j, k \in DOMAIN Kids(n) : Kids(n)[j] = Kids(n)[k] => j = k
  BY TreesAreTrees DEF Kids
<1>2. Len(tree) \in Nat \ {0} /\ DOMAIN tree = 1 .. Len(tree)
  BY <1>1, LenProperties
<1>3. ASSUME NEW n \in 1 .. Len(tree)
      PROVE  /\ tree[n].kind \in {"dir", "file", "link", "other"}
             /\ Kids(n) \in Seq(Nat \ {0}) /\ Len(Kids(n)) \in Nat /\ DOMAIN Kids(n) = 1 .. Len(Kids(n))
  <2>1. tree[n] \in Nodes
    BY <1>1, ElementOfSeq
  <2>2. tree[n].kind \in {"dir", "file", "link", "other"} /\ Kids(n) \in Seq(Nat \ {0})
    BY <2>1 DEF Nodes, Kids
  <2> QED BY <2>2, LenProperties
<1>4. ASSUME NEW n \in 1 .. Len(tree), NEW k \in 1 .. Len(Kids(n))
      PROVE  Kids(n)[k] \in (n + 1) .. Len(tree) /\ tree[Kids(n)[k]].parent = n
  <2>1. Kids(n)[k] \in {m \in 2 .. Len(tree) : tree[m].parent = n}
    BY <1>1, <1>3
  <2>2. tree[Kids(n)[k]].parent \in 1 .. (Kids(n)[k] - 1)
    BY <1>1, <2>1
  <2> QED BY <1>2, <2>1, <2>2
<1>5. ASSUME NEW n \in 2 .. Len(tree)
      PROVE  \E k \in 1 .. Len(Kids(tree[n].parent)) : Kids(tree[n].parent)[k] = n
  <2>1. tree[n].parent \in 1 .. Len(tree)
    BY <1>1, <1>2
  <2>2. n \in {Kids(tree[n].parent)[k] : k \in DOMAIN Kids(tree[n].parent)}
    BY <1>1, <2>1
  <2> QED BY <1>3, <2>1, <2>2
<1>6. \A n \in 1 .. Len(tree) : \A j, k \in 1 .. Len(Kids(n)) : Kids(n)[j] = Kids(n)[k] => j = k
  BY <1>1, <1>3
<1> QED BY <1>1, <1>2, <1>3, <1>4, <1>5, <1>6 DEF TreeShape

LEMMA SameTree ==
    ASSUME tree' = tree
    PROVE  /\ \A n : Kids(n)' = Kids(n) /\ links(n)' = links(n)
           /\ TreeShape => TreeShape'
BY DEF TreeShape, Kids, links, Subdirs

-----------------------------------------------------------------------------
(* The invariant                                                           *)

\* The calls between the allocation of an inode and the writing of its data, and
\* those between the allocation for the entry at hand and the storing of its number.
NoDirData   == {"add_directory", "get_dir_inode", "dir_data"}
NoChildData == {"get_child", "child_data"}
InEntry     == NoChildData \cup {"store"}

\* The tree is being copied, or has been.
Copying == at \in InTree \cup {"root_mode", "update"} \/ Built

\* The directory at hand and its entry at hand.
Here     == stack[1].node
HereNext == Kids(Here)[stack[1].next]

\* A node whose inode is known to a call that has not returned, or to its caller.
IsOpen(n) ==
    \/ \E k \in 1 .. Len(stack) : (k > 1 \/ at \in HasInode) /\ n = stack[k].node
    \/ at \in InEntry /\ n = HereNext
    \/ at = "root_mode" /\ n = 1

\* One that has an inode and nothing on the disk yet.
NoData(n) ==
    \/ at \in NoDirData /\ n = Here
    \/ at \in NoChildData /\ n = HereNext

\* A directory that is counted as one.
IsCounted(n) == tree[n].kind = "dir" /\ ~(at = "add_directory" /\ n = Here)

\* The nodes that have inodes are those of ino.  The inodes are new ones but for the
\* root's, all different, and all that was given.
Assigned(ino, done) ==
    /\ done \subseteq DOMAIN ino /\ DOMAIN ino \subseteq 1 .. Len(tree)
    /\ \A n \in DOMAIN ino :
          /\ ino[n] \in Nat /\ IF n = 1 THEN ino[n] = EXT4_ROOT_INO ELSE ino[n] > FirstInodes
          /\ \A m \in DOMAIN ino : ino[m] = ino[n] => m = n
          /\ n # 1 => 1 \in DOMAIN ino /\ tree[n].parent \in DOMAIN ino
    /\ \A n \in done : \A k \in 1 .. Len(Kids(n)) : Kids(n)[k] \in done
    /\ given = (1 .. FirstInodes) \cup {ino[n] : n \in DOMAIN ino}
    /\ dirs = {ino[n] : n \in {m \in DOMAIN ino : IsCounted(m)}}

\* The entries of a directory that are there so far.
Laid(n) == IF at = "entries" /\ n = Here THEN i ELSE Len(Kids(n))

Entries == [name : Int, inode : Nat, file_type : {"dir", "file", "link", "other"}]

ParentOf(n) == IF n = 1 THEN 1 ELSE tree[n].parent

\* The k-th of them behind "." and "..": its number is stored when it is done.
KidEntry(ino, done, n, k) ==
    DirEntry(Kids(n)[k], IF Kids(n)[k] \in done THEN ino[Kids(n)[k]] ELSE 0, tree[Kids(n)[k]].kind)

HasEntries(es, ino, done, n) ==
    /\ es \in Seq(Entries) /\ Len(es) = 2 + Laid(n)
    /\ es[1] = DirEntry(Dot, ino[n], "dir") /\ es[2] = DirEntry(DotDot, ino[ParentOf(n)], "dir")
    /\ \A k \in 1 .. Laid(n) : es[k + 2] = KidEntry(ino, done, n, k)

\* What an inode holds, and that of a node.
IsInode(d, type, l, mode, es) == d = [type |-> type, links |-> l, mode |-> mode, entries |-> es]

HasData(d, ino, done, n) ==
    /\ IsInode(d, tree[n].kind, IF tree[n].kind = "dir" THEN links(n) ELSE 1,
               IF n \in done THEN n ELSE 0, d.entries)
    /\ IF tree[n].kind = "dir" THEN HasEntries(d.entries, ino, done, n) ELSE d.entries = <<>>

OnDisk(ino, done) ==
    /\ disk = [x \in DOMAIN disk |-> disk[x]]
    /\ DOMAIN disk = ReservedFiles \cup {ino[n] : n \in {m \in DOMAIN ino : ~NoData(m)}}
    /\ \A x \in ReservedFiles : disk[x] = FileInode
    /\ \A n \in DOMAIN ino : ~NoData(n) => HasData(disk[ino[n]], ino, done, n)
    /\ \A n \in done : bgs[GroupOf(ino[n])].inode_table

\* A frame is that of an entry of the caller's directory, and is half through its own.
FrameOK(ino, done, k) ==
    /\ stack[k].node \in 1 .. Len(tree) /\ tree[stack[k].node].kind = "dir"
    /\ stack[k].next \in 1 .. (Len(Kids(stack[k].node)) + 1)
    /\ IF k = Len(stack)
       THEN /\ stack[k].node = 1
            /\ stack[k].dir_inode = IF k = 1 /\ at \in NotStarted THEN 0 ELSE EXT4_ROOT_INO
       ELSE /\ stack[k + 1].next <= Len(Kids(stack[k + 1].node))
            /\ stack[k].node = Kids(stack[k + 1].node)[stack[k + 1].next]
            /\ stack[k].dir_inode = stack[k + 1].inode
    /\ IF k > 1 \/ at \in HasInode
       THEN stack[k].node \in DOMAIN ino /\ stack[k].inode = ino[stack[k].node]
       ELSE stack[k].node \notin DOMAIN ino
    /\ \A j \in 1 .. Len(Kids(stack[k].node)) :
          /\ j < stack[k].next => Kids(stack[k].node)[j] \in done
          /\ j > stack[k].next => Kids(stack[k].node)[j] \notin DOMAIN ino
          /\ j = stack[k].next /\ ~(k > 1 \/ at \in InEntry) => Kids(stack[k].node)[j] \notin DOMAIN ino

\* The nodes that have inodes and are not done are those of the frames and the entry
\* at hand.
Waiting(ino, done) ==
    /\ \A n : n \in DOMAIN ino <=> n \in done \/ IsOpen(n)
    /\ \A n \in done : ~IsOpen(n)

\* The calls that have not returned.
Calls(ino, done) ==
    /\ \A k \in 1 .. Len(stack) : FrameOK(ino, done, k)
    /\ \A j, k \in 1 .. Len(stack) : j < k => stack[k].node < stack[j].node
    /\ Waiting(ino, done)

\* The call at hand.
AtHand(ino, done) ==
    /\ at \in InTree \ ({"fill"} \cup InEntry) => stack[1].next = 1
    /\ at \in InEntry => stack[1].next <= Len(Kids(Here)) /\ child = ino[HereNext]
    /\ at \in NoChildData => tree[HereNext].kind # "dir"
    /\ at = "store" => \A k \in 1 .. Len(Kids(HereNext)) : Kids(HereNext)[k] \in done
    /\ at = "root_mode" => child = EXT4_ROOT_INO /\ \A k \in 1 .. Len(Kids(1)) : Kids(1)[k] \in done
    /\ at \notin InTree => Len(stack) = 0 /\ 1 \in DOMAIN ino
    /\ at \in {"dir_inode", "entries"} \cup NoDirData =>
          /\ Len(names) = Len(Kids(Here)) /\ i \in 0 .. Len(names)
          /\ at # "entries" => i = 0

Mirrors(ino, done) ==
    Assigned(ino, done) /\ OnDisk(ino, done) /\ Calls(ino, done) /\ AtHand(ino, done)

MirrorInv ==
    /\ tree \in SourceTrees
    /\ at \in {"reserve", "reserved"} => disk = <<>> /\ dirs = {}
    /\ at = "reserved" => given = 1 .. FirstInodes
    /\ at = "end" => stage \in {"updated", "exit"}
    /\ Copying => \E ino, done : Mirrors(ino, done)

-----------------------------------------------------------------------------
(* What the allocator does to the tree's inodes                            *)

\* A table that is queued stays so.
LEMMA TablesStay ==
    ASSUME IndInv, [InodesNext]_inodeVars, NEW bg \in Groups, bgs[bg].inode_table
    PROVE  bgs'[bg].inode_table
<1>1. bgs \in [Groups -> GroupRecord]
  BY DEF IndInv, InodesTypeOK, GroupRecord
<1>2. ASSUME NEW b \in Groups, NEW num, reserve_inodes(b, num) PROVE bgs'[bg].inode_table
  <2> DEFINE new == [bgs[b] EXCEPT
                 !.inode_bitmap = @ \cup {bgs[b].first_free_inode + k - 1 : k \in 0 .. (num - 1)},
                 !.first_free_inode = @ + num, !.free_inodes = @ - num]
  <2>1. bgs' = [bgs EXCEPT ![b] = new]
    BY <1>1, <1>2, Zenon DEF reserve_inodes
  <2>2. new.inode_table = bgs[b].inode_table
    BY <1>1 DEF GroupRecord
  <2> QED BY <1>1, <2>1, <2>2
<1>3. CASE reserve_first_inodes
  <2>1. 0 \in Groups
    BY InodeCounts DEF Groups
  <2> QED BY <1>2, <1>3, <2>1 DEF reserve_first_inodes
<1>4. ASSUME NEW b \in Groups, allocate_inode(b) PROVE bgs'[bg].inode_table
  BY <1>2, <1>4 DEF allocate_inode
<1>5. ASSUME NEW n, add_directory(n) \/ get_inode(n) PROVE bgs'[bg].inode_table
  BY <1>1, <1>5 DEF add_directory, get_inode, GroupRecord
<1>6. CASE UNCHANGED bgs
  BY <1>6
<1> QED BY <1>3, <1>4, <1>5, <1>6
        DEF InodesNext, allocate_inode_fails, ext4_update_free, give_up, inodeVars

\* An inode that was read has its table queued.
LEMMA TableQueued ==
    ASSUME IndInv, NEW n \in given, get_inode(n)
    PROVE  bgs'[GroupOf(n)].inode_table
<1>1. bgs \in [Groups -> GroupRecord] /\ given \subseteq AllInodes
  BY DEF IndInv, InodesTypeOK, GroupRecord
<1>2. GroupOf(n) \in Groups
  BY <1>1, PlaceOf
<1> QED BY <1>1, <1>2 DEF get_inode, GroupRecord

LEMMA NewInode ==
    ASSUME IndInv, NEW bg \in Groups, allocate_inode(bg)
    PROVE  /\ NextInode(bg) \in Nat \ {0} /\ NextInode(bg) \notin given
           /\ given' = given \cup {NextInode(bg)} /\ dirs' = dirs /\ stage' = stage
<1>1. Fits(bg, 1)
  BY DEF allocate_inode, FirstFit
<1>2. AllInodes \subseteq Nat \ {0}
  BY InodeCounts DEF AllInodes
<1> QED BY <1>1, <1>2, NextIsNew DEF allocate_inode

-----------------------------------------------------------------------------
(* What the invariant says of the call at hand                             *)

LEMMA AtTop ==
    ASSUME TreeInv, at \in InTree
    PROVE  /\ Len(stack) \in Nat \ {0} /\ Top = stack[1] /\ Top.node = Here
           /\ Entry = HereNext
<1>1. StackOK /\ stack # <<>>
  BY DEF TreeInv, CallersGiven
<1> QED BY <1>1, TopOfStack DEF Here, HereNext, Entry

\* The directory at hand.
LEMMA HereIs ==
    ASSUME TreeShape, TreeInv, at \in InTree, NEW ino, NEW done, Calls(ino, done)
    PROVE  /\ Here \in 1 .. Len(tree) /\ tree[Here].kind = "dir" /\ Len(Kids(Here)) \in Nat
           /\ stack[1].next \in 1 .. (Len(Kids(Here)) + 1)
           /\ at \in HasInode => Here \in DOMAIN ino /\ stack[1].inode = ino[Here] /\ Here \notin done
           /\ at \in NotStarted => Here \notin DOMAIN ino
           /\ \A k \in 1 .. Len(stack) : FrameOK(ino, done, k)
<1>1. 1 \in 1 .. Len(stack)
  BY AtTop
<1>2. FrameOK(ino, done, 1)
  BY <1>1 DEF Calls
<1>3. at \in NotStarted => at \notin HasInode
  BY DEF NotStarted, HasInode
<1>4. at \in HasInode => IsOpen(Here)
  BY <1>1 DEF IsOpen, Here
<1> QED BY <1>1, <1>2, <1>3, <1>4 DEF FrameOK, Here, TreeShape, Calls, Waiting

\* The entry at hand.
LEMMA EntryIs ==
    ASSUME TreeShape, TreeInv, at \in InTree, NEW ino, NEW done, Calls(ino, done),
           stack[1].next <= Len(Kids(Here))
    PROVE  /\ stack[1].next \in 1 .. Len(Kids(Here))
           /\ HereNext \in (Here + 1) .. Len(tree) /\ tree[HereNext].parent = Here
           /\ HereNext # 1 /\ HereNext # Here
           /\ at \notin InEntry => HereNext \notin DOMAIN ino
           /\ at \in InEntry => HereNext \in DOMAIN ino /\ HereNext \notin done
<1>1. Here \in 1 .. Len(tree) /\ stack[1].next \in 1 .. Len(Kids(Here))
  BY HereIs
<1>2. HereNext \in (Here + 1) .. Len(tree) /\ tree[HereNext].parent = Here
  BY <1>1 DEF TreeShape, HereNext
<1>3. 1 \in 1 .. Len(stack)
  BY AtTop
<1>4. FrameOK(ino, done, 1)
  BY <1>3 DEF Calls
<1>5. at \in InEntry => IsOpen(HereNext)
  BY DEF IsOpen
<1>6. HereNext # 1 /\ HereNext # Here
  BY <1>1, <1>2
<1>7. at \notin InEntry => HereNext \notin DOMAIN ino
  BY <1>1, <1>4 DEF FrameOK, Here, HereNext
<1> QED BY <1>1, <1>2, <1>5, <1>6, <1>7 DEF Calls, Waiting

-----------------------------------------------------------------------------
(* The parts of the invariant, across a step                               *)

\* What a step does to the numbers: the node has one more.
With(ino, node, x) == [n \in DOMAIN ino \cup {node} |-> IF n = node THEN x ELSE ino[n]]

LEMMA SameAssigned ==
    ASSUME NEW ino, NEW done, Assigned(ino, done), tree' = tree, given' = given,
           at # "add_directory", at' # "add_directory", dirs' = dirs
    PROVE  Assigned(ino, done)'
<1>1. {ino[n] : n \in {m \in DOMAIN ino : IsCounted(m)'}} = {ino[n] : n \in {m \in DOMAIN ino : IsCounted(m)}}
  BY DEF IsCounted
<1> QED BY <1>1, SameTree DEF Assigned

\* A node gets an inode that nobody has, or the root its own.
LEMMA NodeAssigned ==
    ASSUME NEW ino, NEW done, Assigned(ino, done), tree' = tree,
           NEW node \in 1 .. Len(tree), node \notin DOMAIN ino, Len(tree) \in Nat,
           IF node = 1 THEN DOMAIN ino = {} ELSE 1 \in DOMAIN ino /\ tree[node].parent \in DOMAIN ino,
           NEW x \in Nat \ {0},
           IF node = 1 THEN x = EXT4_ROOT_INO /\ given' = given ELSE x \notin given /\ given' = given \cup {x},
           dirs' = dirs, at # "add_directory",
           IF tree[node].kind = "dir" THEN at' = "add_directory" /\ Here' = node
                                      ELSE at' # "add_directory"
    PROVE  Assigned(With(ino, node, x), done)'
<1> DEFINE new == With(ino, node, x)
<1>0. FirstInodes \in Nat /\ EXT4_ROOT_INO \in 1 .. FirstInodes /\ EXT4_ROOT_INO \in Nat
  BY InodeCounts DEF EXT4_ROOT_INO
<1>1. /\ DOMAIN new = DOMAIN ino \cup {node} /\ new[node] = x
      /\ \A n \in DOMAIN ino : n # node /\ new[n] = ino[n]
  BY DEF With
<1> HIDE DEF new
<1>2. node # 1 => x > FirstInodes /\ x \notin given
  BY <1>0 DEF Assigned
<1>3. \A n \in DOMAIN ino : ino[n] \in given /\ ino[n] \in Nat
  BY DEF Assigned
<1>4. done \subseteq DOMAIN new /\ DOMAIN new \subseteq 1 .. Len(tree)
  BY <1>1 DEF Assigned
<1>5. ASSUME NEW n \in DOMAIN new
      PROVE  /\ new[n] \in Nat /\ IF n = 1 THEN new[n] = EXT4_ROOT_INO ELSE new[n] > FirstInodes
             /\ \A m \in DOMAIN new : new[m] = new[n] => m = n
             /\ n # 1 => 1 \in DOMAIN new /\ tree[n].parent \in DOMAIN new
  <2>1. CASE n = node
    BY <1>1, <1>2, <1>3, <2>1
  <2>2. CASE n # node
    BY <1>1, <1>2, <1>3, <2>2 DEF Assigned
  <2> QED BY <2>1, <2>2
<1>6. given' = (1 .. FirstInodes) \cup {new[n] : n \in DOMAIN new}
  <2>1. given = (1 .. FirstInodes) \cup {ino[n] : n \in DOMAIN ino}
    BY DEF Assigned
  <2>2. {new[n] : n \in DOMAIN new} = {ino[n] : n \in DOMAIN ino} \cup {x}
    BY <1>1
  <2> QED BY <1>0, <2>1, <2>2
<1>7. dirs' = {new[n] : n \in {m \in DOMAIN new : IsCounted(m)'}}
  <2>1. ~(IsCounted(node)')
    BY DEF IsCounted
  <2>2. \A n \in DOMAIN ino : IsCounted(n)' <=> IsCounted(n)
    BY <1>1 DEF IsCounted
  <2>3. dirs = {ino[n] : n \in {m \in DOMAIN ino : IsCounted(m)}}
    BY DEF Assigned
  <2> QED BY <1>1, <2>1, <2>2, <2>3
<1>8. \A n \in done : \A k \in 1 .. Len(Kids(n)') : Kids(n)'[k] \in done
  BY SameTree DEF Assigned
<1> QED BY <1>4, <1>5, <1>6, <1>7, <1>8 DEF Assigned, new

\* The data of a node stays as it was.
LEMMA SameData ==
    ASSUME TreeShape, tree' = tree, NEW ino, NEW done, NEW ino2, NEW done2, NEW d, NEW n \in 1 .. Len(tree),
           HasData(d, ino, done, n), n \in done <=> n \in done2,
           ino2[n] = ino[n], ino2[ParentOf(n)] = ino[ParentOf(n)], Laid(n)' = Laid(n),
           Laid(n) \in 0 .. Len(Kids(n)),
           \A k \in 1 .. Len(Kids(n)) :
               /\ Kids(n)[k] \in done <=> Kids(n)[k] \in done2
               /\ Kids(n)[k] \in done => ino2[Kids(n)[k]] = ino[Kids(n)[k]]
    PROVE  HasData(d, ino2, done2, n)'
<1>1. /\ Kids(n)' = Kids(n) /\ links(n)' = links(n) /\ ParentOf(n)' = ParentOf(n)
  BY SameTree DEF ParentOf
<1>2. ASSUME tree[n].kind = "dir" PROVE HasEntries(d.entries, ino2, done2, n)'
  <2>1. HasEntries(d.entries, ino, done, n)
    BY <1>2 DEF HasData
  <2>2. \A k \in 1 .. Laid(n) : KidEntry(ino2, done2, n, k)' = KidEntry(ino, done, n, k)
    BY <1>1 DEF KidEntry, TreeShape
  <2> QED BY <1>1, <2>1, <2>2 DEF HasEntries
<1> QED BY <1>1, <1>2 DEF HasData

LEMMA LaidIs ==
    ASSUME TreeShape, NEW ino, NEW done, AtHand(ino, done), NEW n \in 1 .. Len(tree)
    PROVE  Laid(n) \in 0 .. Len(Kids(n))
BY DEF TreeShape, AtHand, Laid, Here

\* A step that writes nothing to the disk: nodes may get inodes, that have no data yet.
LEMMA SameDisk ==
    ASSUME TreeShape, tree' = tree, NEW ino, NEW ino2, NEW done, Assigned(ino, done), OnDisk(ino, done),
           AtHand(ino, done), IndInv, [InodesNext]_inodeVars, disk' = disk,
           DOMAIN ino \subseteq DOMAIN ino2, \A n \in DOMAIN ino : ino2[n] = ino[n],
           \A n \in DOMAIN ino2 : ~NoData(n)' <=> n \in DOMAIN ino /\ ~NoData(n),
           \A n \in DOMAIN ino : Laid(n)' = Laid(n)
    PROVE  OnDisk(ino2, done)'
<1>1. done \subseteq DOMAIN ino /\ DOMAIN ino \subseteq 1 .. Len(tree)
  BY DEF Assigned
<1>2. \A n \in done : bgs'[GroupOf(ino2[n])].inode_table
  <2> SUFFICES ASSUME NEW n \in done PROVE bgs'[GroupOf(ino[n])].inode_table
    BY <1>1
  <2>1. ino[n] \in given
    BY <1>1 DEF Assigned
  <2>2. GroupOf(ino[n]) \in Groups
    BY <2>1, PlaceOf DEF IndInv, InodesTypeOK
  <2> QED BY <2>2, TablesStay DEF OnDisk
<1>3. ASSUME NEW n \in DOMAIN ino2, ~NoData(n)' PROVE HasData(disk[ino2[n]], ino2, done, n)'
  <2>1. n \in DOMAIN ino /\ ~NoData(n) /\ n \in 1 .. Len(tree)
    BY <1>1, <1>3
  <2>2. HasData(disk[ino[n]], ino, done, n)
    BY <2>1 DEF OnDisk
  <2>3. ParentOf(n) \in DOMAIN ino
    BY <2>1 DEF Assigned, ParentOf
  <2>4. Laid(n) \in 0 .. Len(Kids(n))
    BY <2>1, LaidIs
  <2>5. \A d : HasData(d, ino, done, n) => HasData(d, ino2, done, n)'
    BY <1>1, <2>1, <2>3, <2>4, SameData
  <2> QED BY <2>1, <2>2, <2>5
<1>4. {ino2[n] : n \in {m \in DOMAIN ino2 : ~NoData(m)'}} = {ino[n] : n \in {m \in DOMAIN ino : ~NoData(m)}}
  OBVIOUS
<1> QED BY <1>2, <1>3, <1>4 DEF OnDisk, FileInode

-----------------------------------------------------------------------------
(* The calls that leave the stack and the disk alone                       *)

Going(ino, done) == IndInv /\ TreeInv /\ TreeShape /\ [InodesNext]_inodeVars /\ Mirrors(ino, done)

\* The same frames at the same stage.
LEMMA SameCalls ==
    ASSUME NEW ino, NEW done, Calls(ino, done), stack' = stack, tree' = tree,
           at \in HasInode <=> at' \in HasInode, at \in InEntry <=> at' \in InEntry,
           at \in NotStarted <=> at' \in NotStarted, at # "root_mode", at' # "root_mode"
    PROVE  Calls(ino, done)'
<1>1. \A k \in 1 .. Len(stack) : FrameOK(ino, done, k)'
  BY SameTree DEF FrameOK, Calls
<1>2. \A n : IsOpen(n)' <=> IsOpen(n)
  BY DEF IsOpen, HereNext, Here, Kids
<1> QED BY <1>1, <1>2 DEF Calls, Waiting

LEMMA QuietStep ==
    ASSUME NEW ino, NEW done, Going(ino, done), stack' = stack, tree' = tree, disk' = disk,
           at \in HasInode <=> at' \in HasInode, at \in InEntry <=> at' \in InEntry,
           at \in NotStarted <=> at' \in NotStarted, at # "root_mode", at' # "root_mode",
           Assigned(ino, done)', AtHand(ino, done)',
           \A n : NoData(n)' <=> NoData(n), \A n \in DOMAIN ino : Laid(n)' = Laid(n)
    PROVE  Mirrors(ino, done)'
<1>1. Calls(ino, done)'
  BY SameCalls DEF Going, Mirrors
<1>2. OnDisk(ino, done)'
  BY SameDisk DEF Going, Mirrors
<1> QED BY <1>1, <1>2 DEF Mirrors

LEMMA ScanMirrors ==
    ASSUME NEW ino, NEW done, Going(ino, done), scan_directory
    PROVE  Mirrors(ino, done)'
<1>1. /\ at = "scan" /\ at' = "dir_inode" /\ UNCHANGED <<stack, disk, tree, given, dirs>>
      /\ names' = [k \in DOMAIN Kids(Top.node) |-> tree[Kids(Top.node)[k]].name] /\ i' = 0
  BY DEF scan_directory, Call, new_directory, inodeVars
<1>2. /\ Top.node = Here /\ DOMAIN Kids(Here) = 1 .. Len(Kids(Here)) /\ Len(Kids(Here)) \in Nat
      /\ Len(Kids(Here)') = Len(Kids(Here)) /\ Here' = Here
  <2>1. at \in InTree
    BY <1>1 DEF InTree
  <2>2. Here \in 1 .. Len(tree)
    BY <2>1, HereIs DEF Going, Mirrors
  <2> QED BY <1>1, <2>1, <2>2, AtTop, SameTree DEF Going, TreeShape, Here
<1>3. Len(names') = Len(Kids(Here))
  BY <1>1, <1>2
<1>4. AtHand(ino, done)'
  BY <1>1, <1>2, <1>3
  DEF Going, Mirrors, AtHand, InTree, InEntry, NoChildData, NoDirData, Here, Kids
<1>5. Assigned(ino, done)'
  BY <1>1, SameAssigned DEF Going, Mirrors
<1>6. \A n : (NoData(n)' <=> NoData(n)) /\ Laid(n)' = Laid(n)
  BY <1>1 DEF NoData, Laid, NoDirData, NoChildData, Kids
<1> QED BY <1>1, <1>4, <1>5, <1>6, QuietStep DEF HasInode, InEntry, NoChildData, NotStarted, InTree

LEMMA CountDentriesMirrors ==
    ASSUME NEW ino, NEW done, Going(ino, done), count_dentries
    PROVE  Mirrors(ino, done)'
<1>1. /\ at = "dir_inode" /\ at' = "dir_inode"
      /\ UNCHANGED <<stack, disk, tree, given, dirs, child, names, i>>
  BY DEF count_dentries, Call, count_entry, inodeVars
<1>2. AtHand(ino, done)'
  BY <1>1 DEF Going, Mirrors, AtHand, InTree, InEntry, NoChildData, NoDirData, Here, HereNext, Kids
<1>3. Assigned(ino, done)'
  BY <1>1, SameAssigned DEF Going, Mirrors
<1>4. \A n : (NoData(n)' <=> NoData(n)) /\ Laid(n)' = Laid(n)
  BY <1>1 DEF NoData, Laid, NoDirData, NoChildData, Kids
<1> QED BY <1>1, <1>2, <1>3, <1>4, QuietStep

LEMMA CountDirectoryMirrors ==
    ASSUME NEW ino, NEW done, Going(ino, done), count_directory
    PROVE  Mirrors(ino, done)'
<1>1. /\ at = "add_directory" /\ at' = "get_dir_inode"
      /\ UNCHANGED <<stack, disk, tree, given, child, names, i>>
      /\ dirs' = dirs \cup {Top.inode}
  BY DEF count_directory, Call, add_directory, directoryVars
<1>2. Top = stack[1] /\ Here \in DOMAIN ino /\ stack[1].inode = ino[Here] /\ tree[Here].kind = "dir"
  BY <1>1, AtTop, HereIs DEF Going, Mirrors, HasInode, InTree
<1>3. AtHand(ino, done)'
  BY <1>1 DEF Going, Mirrors, AtHand, InTree, InEntry, NoChildData, NoDirData, Here, HereNext, Kids
<1>4. Assigned(ino, done)'
  <2> DEFINE Old == {m \in DOMAIN ino : IsCounted(m)}
             New == {m \in DOMAIN ino : IsCounted(m)'}
  <2>1. Assigned(ino, done) /\ dirs = {ino[n] : n \in Old}
    BY DEF Going, Mirrors, Assigned
  <2>2. New = Old \cup {Here}
    BY <1>1, <1>2 DEF IsCounted
  <2> HIDE DEF Old, New
  <2>3. dirs' = {ino[n] : n \in New}
    BY <1>1, <1>2, <2>1, <2>2
  <2> USE DEF New
  <2> QED BY <1>1, <2>1, <2>3, SameTree DEF Assigned
<1>5. \A n : (NoData(n)' <=> NoData(n)) /\ Laid(n)' = Laid(n)
  BY <1>1 DEF NoData, Laid, NoDirData, NoChildData, Kids, Here
<1> QED BY <1>1, <1>3, <1>4, <1>5, QuietStep DEF HasInode, InEntry, NoChildData, NotStarted, InTree

\* get_dir_inode and get_child queue the table of a group.
LEMMA GetInodeMirrors ==
    ASSUME NEW ino, NEW done, Going(ino, done), get_dir_inode \/ get_child
    PROVE  Mirrors(ino, done)'
<1>1. /\ \/ at = "get_dir_inode" /\ at' = "dir_data"
         \/ at = "get_child" /\ at' = "child_data"
      /\ UNCHANGED <<stack, disk, tree, given, dirs, child, names, i>>
  BY DEF get_dir_inode, get_child, Call, get_inode, directoryVars
<1>2. AtHand(ino, done)'
  BY <1>1 DEF Going, Mirrors, AtHand, InTree, InEntry, NoChildData, NoDirData, Here, HereNext, Kids
<1>3. Assigned(ino, done)'
  BY <1>1, SameAssigned DEF Going, Mirrors
<1>4. \A n : (NoData(n)' <=> NoData(n)) /\ Laid(n)' = Laid(n)
  BY <1>1 DEF NoData, Laid, NoDirData, NoChildData, Kids, Here, HereNext
<1> QED BY <1>1, <1>2, <1>3, <1>4, QuietStep DEF HasInode, InEntry, NoChildData, NotStarted, InTree

\* The directory is complete.
LEMMA EndDirectoryMirrors ==
    ASSUME NEW ino, NEW done, Going(ino, done), end_directory
    PROVE  Mirrors(ino, done)'
<1>1. /\ at = "entries" /\ at' = "fill" /\ i = Len(names)
      /\ UNCHANGED <<stack, disk, tree, given, dirs>>
  BY DEF end_directory, Call, add_last, inodeVars
<1>2. Len(names) = Len(Kids(Here))
  BY <1>1 DEF Going, Mirrors, AtHand
<1>3. AtHand(ino, done)'
  BY <1>1 DEF AtHand, InTree, InEntry, NoChildData, NoDirData
<1>4. Assigned(ino, done)'
  BY <1>1, SameAssigned DEF Going, Mirrors
<1>5. \A n : (NoData(n)' <=> NoData(n)) /\ Laid(n)' = Laid(n)
  BY <1>1, <1>2 DEF NoData, Laid, NoDirData, NoChildData, Kids, Here
<1> QED BY <1>1, <1>3, <1>4, <1>5, QuietStep DEF HasInode, InEntry, NoChildData, NotStarted, InTree

-----------------------------------------------------------------------------
(* The calls that take an inode                                            *)

\* A caller's frame keeps its place in the tree, whatever inodes its entries get.
LEMMA CallerStays ==
    ASSUME TreeShape, tree' = tree, NEW ino, NEW done, NEW ino2, NEW done2,
           NEW k \in 2 .. Len(stack), FrameOK(ino, done, k), Len(stack) \in Nat, Len(stack') \in Nat,
           NEW k2 \in 2 .. Len(stack'), stack'[k2] = stack[k], k = Len(stack) <=> k2 = Len(stack'),
           k # Len(stack) => stack'[k2 + 1] = stack[k + 1],
           done \subseteq done2, DOMAIN ino \subseteq DOMAIN ino2, \A n \in DOMAIN ino : ino2[n] = ino[n],
           \A j \in 1 .. Len(Kids(stack[k].node)) :
               j > stack[k].next => Kids(stack[k].node)[j] \notin DOMAIN ino2 \ DOMAIN ino
    PROVE  FrameOK(ino2, done2, k2)'
<1>1. k > 1 /\ k2 > 1 /\ k # 1 /\ k2 # 1
  OBVIOUS
<1>2. \A n : Kids(n)' = Kids(n)
  BY SameTree
<1>3. /\ stack'[k2].node \in 1 .. Len(tree) /\ tree[stack'[k2].node].kind = "dir"
      /\ stack'[k2].next \in 1 .. (Len(Kids(stack'[k2].node)) + 1)
  BY DEF FrameOK
<1>4. IF k2 = Len(stack')
      THEN stack'[k2].node = 1 /\ stack'[k2].dir_inode = EXT4_ROOT_INO
      ELSE /\ stack'[k2 + 1].next <= Len(Kids(stack'[k2 + 1].node))
           /\ stack'[k2].node = Kids(stack'[k2 + 1].node)[stack'[k2 + 1].next]
           /\ stack'[k2].dir_inode = stack'[k2 + 1].inode
  BY <1>1 DEF FrameOK
<1>5. stack'[k2].node \in DOMAIN ino2 /\ stack'[k2].inode = ino2[stack'[k2].node]
  BY <1>1 DEF FrameOK
<1>6. \A j \in 1 .. Len(Kids(stack'[k2].node)) :
          /\ j < stack'[k2].next => Kids(stack'[k2].node)[j] \in done2
          /\ j > stack'[k2].next => Kids(stack'[k2].node)[j] \notin DOMAIN ino2
  BY <1>1 DEF FrameOK
<1> QED BY <1>1, <1>2, <1>3, <1>4, <1>5, <1>6 DEF FrameOK

LEMMA KidIs ==
    ASSUME TreeShape, NEW n \in 1 .. Len(tree), NEW k \in 1 .. Len(Kids(n))
    PROVE  Kids(n)[k] \in (n + 1) .. Len(tree) /\ Kids(n)[k] # 1 /\ tree[Kids(n)[k]].parent = n
BY DEF TreeShape

\* An entry is one of its directory only, at one place.
LEMMA KidOf ==
    ASSUME TreeShape, NEW m \in 1 .. Len(tree), NEW n \in 1 .. Len(tree),
           NEW j \in 1 .. Len(Kids(m)), NEW k \in 1 .. Len(Kids(n)), Kids(m)[j] = Kids(n)[k]
    PROVE  m = n /\ j = k
<1>1. tree[Kids(m)[j]].parent = m /\ tree[Kids(n)[k]].parent = n
  BY DEF TreeShape
<1>2. m = n
  BY <1>1
<1> QED BY <1>2 DEF TreeShape

\* The entry at hand is not another entry of a caller's directory.
LEMMA EntryInCallers ==
    ASSUME TreeShape, TreeInv, at \in InTree, NEW ino, NEW done, Calls(ino, done),
           stack[1].next <= Len(Kids(Here)), NEW k \in 1 .. Len(stack),
           NEW j \in 1 .. Len(Kids(stack[k].node)), Kids(stack[k].node)[j] = HereNext
    PROVE  k = 1 /\ j = stack[1].next
<1>1. /\ 1 \in 1 .. Len(stack) /\ Len(stack) \in Nat /\ stack[k].node \in 1 .. Len(tree)
      /\ Here \in 1 .. Len(tree) /\ stack[1].next \in 1 .. Len(Kids(Here))
  BY AtTop, HereIs, EntryIs DEF FrameOK
<1>2. stack[k].node = Here /\ j = stack[1].next
  BY <1>1, KidOf DEF HereNext
<1>3. k = 1
  BY <1>1, <1>2 DEF Calls, Here
<1> QED BY <1>2, <1>3

\* Nor is the directory at hand, but for the one that its caller is at.
LEMMA HereInCallers ==
    ASSUME TreeShape, TreeInv, at \in InTree, NEW ino, NEW done, Calls(ino, done),
           NEW k \in 2 .. Len(stack), NEW j \in 1 .. Len(Kids(stack[k].node)),
           Kids(stack[k].node)[j] = Here
    PROVE  k = 2 /\ j = stack[2].next
<1>1. Len(stack) \in Nat /\ \A l \in 1 .. Len(stack) : FrameOK(ino, done, l)
  BY AtTop, HereIs
<1>2. 1 \in 1 .. Len(stack) /\ 2 \in 1 .. Len(stack) /\ 1 # Len(stack)
  BY <1>1
<1>3. /\ stack[2].next \in 1 .. Len(Kids(stack[2].node)) /\ Here = Kids(stack[2].node)[stack[2].next]
      /\ stack[k].node \in 1 .. Len(tree) /\ stack[2].node \in 1 .. Len(tree)
  <2>1. FrameOK(ino, done, 1) /\ FrameOK(ino, done, 2) /\ FrameOK(ino, done, k)
    BY <1>1, <1>2
  <2> QED BY <1>2, <2>1 DEF FrameOK, Here, TreeShape
<1>4. stack[k].node = stack[2].node /\ j = stack[2].next
  <2> DEFINE m == stack[k].node
             n == stack[2].node
             l == stack[2].next
  <2>1. /\ m \in 1 .. Len(tree) /\ n \in 1 .. Len(tree)
        /\ j \in 1 .. Len(Kids(m)) /\ l \in 1 .. Len(Kids(n)) /\ Kids(m)[j] = Kids(n)[l]
    BY <1>3
  <2> HIDE DEF m, n, l
  <2>2. m = n /\ j = l
    BY <2>1, KidOf
  <2> QED BY <2>2 DEF m, n, l
<1>5. k = 2
  BY <1>1, <1>2, <1>3, <1>4 DEF Calls
<1> QED BY <1>4, <1>5

\* make_file and make_link take an inode for the entry.
LEMMA FillFileMirrors ==
    ASSUME NEW ino, NEW done, Going(ino, done), fill_file
    PROVE  \E ino2 : Mirrors(ino2, done)'
<1>1. /\ at = "fill" /\ at' = "get_child" /\ UNCHANGED <<stack, disk, tree>>
      /\ stack[1].next <= Len(Kids(Here)) /\ tree[HereNext].kind \in {"file", "link"}
  BY AtTop DEF fill_file, Call, Going, InTree
<1>2. PICK bg \in Groups : allocate_inode(bg) /\ child' = NextInode(bg)
  BY DEF fill_file
<1>3. child' \in Nat \ {0} /\ child' \notin given /\ given' = given \cup {child'} /\ dirs' = dirs
  BY <1>2, NewInode DEF Going
<1>4. /\ Assigned(ino, done) /\ OnDisk(ino, done) /\ Calls(ino, done) /\ AtHand(ino, done)
      /\ at \in InTree /\ at \in HasInode /\ at \notin InEntry /\ at' \in HasInode
      /\ at' \in InEntry /\ at' \in NoChildData /\ at' \notin NoDirData
      /\ at \notin NoDirData /\ at \notin NoChildData
  BY <1>1 DEF Going, Mirrors, InTree, HasInode, InEntry, NoChildData, NoDirData
<1>5. /\ HereNext \in 1 .. Len(tree) /\ HereNext \notin DOMAIN ino /\ HereNext # 1
      /\ tree[HereNext].parent = Here /\ Here \in DOMAIN ino /\ Here \in 1 .. Len(tree)
      /\ stack[1].next \in 1 .. Len(Kids(Here)) /\ stack[1].inode = ino[Here]
  BY <1>1, <1>4, EntryIs, HereIs DEF Going
<1>6. Here' = Here /\ HereNext' = HereNext /\ \A n : Kids(n)' = Kids(n)
  BY <1>1 DEF Here, HereNext, Kids
<1> PICK node \in 1 .. Len(tree), x \in Nat \ {0} : node = HereNext /\ x = child'
  BY <1>3, <1>5
<1> DEFINE ino2 == With(ino, node, x)
<1>7. /\ DOMAIN ino2 = DOMAIN ino \cup {HereNext} /\ ino2[HereNext] = child'
      /\ \A n \in DOMAIN ino : n # HereNext /\ ino2[n] = ino[n]
  BY <1>5 DEF With
<1>8. Assigned(ino2, done)'
  <2>1. 1 \in DOMAIN ino /\ Len(tree) \in Nat
    BY <1>4, <1>5 DEF Assigned, Going, TreeShape
  <2> QED BY <1>1, <1>3, <1>4, <1>5, <2>1, NodeAssigned
<1> HIDE DEF ino2
<1>9. OnDisk(ino2, done)'
  <2>1. \A n \in DOMAIN ino2 : ~NoData(n)' <=> n \in DOMAIN ino /\ ~NoData(n)
    BY <1>4, <1>6, <1>7 DEF NoData
  <2>2. \A n : Laid(n)' = Laid(n)
    BY <1>1, <1>6 DEF Laid
  <2> QED BY <1>1, <1>4, <1>7, <2>1, <2>2, SameDisk DEF Going
<1>10. \A k \in 1 .. Len(stack) : FrameOK(ino2, done, k)'
  <2> SUFFICES ASSUME NEW k \in 1 .. Len(stack) PROVE FrameOK(ino2, done, k)'
    OBVIOUS
  <2>0. FrameOK(ino, done, k) /\ Len(stack) \in Nat
    BY <1>4, AtTop DEF Calls, Going
  <2>1. \A j \in 1 .. Len(Kids(stack[k].node)) : Kids(stack[k].node)[j] = HereNext => k = 1 /\ j = stack[1].next
    BY <1>1, <1>4, EntryInCallers DEF Going
  <2>2. CASE k # 1
    <3>1. \A j \in 1 .. Len(Kids(stack[k].node)) : Kids(stack[k].node)[j] \notin DOMAIN ino2 \ DOMAIN ino
      BY <1>7, <2>1, <2>2
    <3> QED BY <1>1, <1>7, <2>0, <2>2, <3>1, CallerStays DEF Going
  <2>3. CASE k = 1
    <3>1. \A j \in 1 .. Len(Kids(stack[k].node)) :
              j > stack[k].next => Kids(stack[k].node)[j] \notin DOMAIN ino2
      BY <1>7, <2>0, <2>1, <2>3 DEF FrameOK
    <3> QED BY <1>1, <1>4, <1>5, <1>6, <1>7, <2>0, <2>3, <3>1 DEF FrameOK, Here, HasInode, NotStarted, InTree
  <2> QED BY <2>2, <2>3
<1>11. Waiting(ino2, done)'
  <2>1. \A n : IsOpen(n)' <=> IsOpen(n) \/ n = HereNext
    BY <1>1, <1>4, <1>6 DEF IsOpen
  <2> QED BY <1>4, <1>5, <1>7, <2>1 DEF Calls, Waiting, Assigned
<1>12. Calls(ino2, done)'
  BY <1>1, <1>4, <1>10, <1>11 DEF Calls
<1>13. AtHand(ino2, done)'
  BY <1>1, <1>5, <1>6, <1>7 DEF AtHand, InTree, InEntry, NoChildData, NoDirData
<1> QED BY <1>8, <1>9, <1>12, <1>13 DEF Mirrors

\* The directory at hand gets its inode.
LEMMA DirInodeMirrors ==
    ASSUME NEW ino, NEW done, Going(ino, done), at = "dir_inode", at' = "add_directory",
           UNCHANGED <<tree, disk, names, i>>, AllCounted,
           Len(stack') = Len(stack), \A k \in 2 .. Len(stack) : stack'[k] = stack[k],
           stack'[1].node = Here, stack'[1].next = stack[1].next,
           stack'[1].dir_inode = IF Len(stack) = 1 THEN EXT4_ROOT_INO ELSE stack[1].dir_inode,
           NEW node, node = Here, NEW x \in Nat \ {0}, x = stack'[1].inode,
           IF Len(stack) = 1 THEN x = EXT4_ROOT_INO /\ given' = given ELSE x \notin given /\ given' = given \cup {x},
           dirs' = dirs
    PROVE  Mirrors(With(ino, node, x), done)'
<1> DEFINE ino2 == With(ino, node, x)
<1>1. /\ Assigned(ino, done) /\ OnDisk(ino, done) /\ Calls(ino, done) /\ AtHand(ino, done)
      /\ at \in InTree /\ at \notin HasInode /\ at \in NotStarted /\ at \notin InEntry
      /\ at' \in HasInode /\ at' \notin InEntry /\ at' \notin NoChildData /\ at' \in NoDirData
      /\ at' \notin NotStarted /\ at \notin NoDirData /\ at \notin NoChildData
      /\ Len(tree) \in Nat /\ TreeShape /\ TreeInv
  BY DEF Going, Mirrors, InTree, HasInode, InEntry, NoChildData, NoDirData, NotStarted, TreeShape
<1>2. /\ node \in 1 .. Len(tree) /\ tree[node].kind = "dir" /\ node \notin DOMAIN ino
      /\ \A k \in 1 .. Len(stack) : FrameOK(ino, done, k)
  BY <1>1, HereIs
<1>3. Len(stack) \in Nat \ {0} /\ 1 \in 1 .. Len(stack)
  BY <1>1, AtTop
<1>4. Len(stack) = 1 => node = 1 /\ DOMAIN ino = {}
  BY <1>1, <1>2, <1>3 DEF FrameOK, Here, Assigned
<1>5. ASSUME Len(stack) # 1
      PROVE  /\ node # 1 /\ 1 \in DOMAIN ino /\ tree[node].parent \in DOMAIN ino
             /\ stack[2].node \in DOMAIN ino /\ stack[2].next <= Len(Kids(stack[2].node))
             /\ node = Kids(stack[2].node)[stack[2].next] /\ stack[1].dir_inode = stack[2].inode
  <2>1. 2 \in 1 .. Len(stack) /\ FrameOK(ino, done, 1) /\ FrameOK(ino, done, 2)
    BY <1>2, <1>3, <1>5
  <2>2. /\ stack[2].node \in DOMAIN ino /\ stack[2].node \in 1 .. Len(tree)
        /\ stack[2].next \in 1 .. Len(Kids(stack[2].node))
        /\ node = Kids(stack[2].node)[stack[2].next] /\ stack[1].dir_inode = stack[2].inode
    BY <1>1, <1>3, <1>5, <2>1 DEF FrameOK, Here, TreeShape
  <2>3. tree[node].parent = stack[2].node /\ node # 1
    <3> DEFINE m == stack[2].node
               l == stack[2].next
    <3>1. m \in 1 .. Len(tree) /\ l \in 1 .. Len(Kids(m)) /\ node = Kids(m)[l]
      BY <2>2
    <3> HIDE DEF m, l
    <3>2. tree[node].parent = m /\ node # 1
      BY <1>1, <3>1, KidIs
    <3> QED BY <3>2 DEF m
  <2>4. 1 \in DOMAIN ino
    BY <1>1, <2>2 DEF Assigned
  <2> QED BY <2>2, <2>3, <2>4
<1>6. /\ DOMAIN ino2 = DOMAIN ino \cup {node} /\ ino2[node] = x
      /\ \A n \in DOMAIN ino : n # node /\ ino2[n] = ino[n]
  BY <1>2 DEF With
<1>7. Here' = node /\ \A n : Kids(n)' = Kids(n)
  BY DEF Here, Kids
<1>8. Assigned(ino2, done)'
  <2>1. node = 1 <=> Len(stack) = 1
    BY <1>4, <1>5
  <2> QED BY <1>1, <1>2, <1>4, <1>5, <1>7, <2>1, NodeAssigned
<1> HIDE DEF ino2
<1>9. OnDisk(ino2, done)'
  <2>1. \A n \in DOMAIN ino2 : ~NoData(n)' <=> n \in DOMAIN ino /\ ~NoData(n)
    BY <1>1, <1>6, <1>7 DEF NoData
  <2>2. \A n : Laid(n)' = Laid(n)
    BY <1>7 DEF Laid
  <2> QED BY <1>1, <1>6, <2>1, <2>2, SameDisk DEF Going
<1>10. \A k \in 1 .. Len(stack) : FrameOK(ino2, done, k)'
  <2> SUFFICES ASSUME NEW k \in 1 .. Len(stack) PROVE FrameOK(ino2, done, k)'
    OBVIOUS
  <2>1. CASE k # 1
    <3>1. \A j \in 1 .. Len(Kids(stack[k].node)) : Kids(stack[k].node)[j] = node => k = 2 /\ j = stack[2].next
      BY <1>1, <2>1, HereInCallers
    <3>2. \A j \in 1 .. Len(Kids(stack[k].node)) :
              j > stack[k].next => Kids(stack[k].node)[j] \notin DOMAIN ino2 \ DOMAIN ino
      BY <1>6, <3>1
    <3>3. /\ k \in 2 .. Len(stack) /\ k \in 2 .. Len(stack') /\ stack'[k] = stack[k]
          /\ k = Len(stack) <=> k = Len(stack')
          /\ k # Len(stack) => stack'[k + 1] = stack[k + 1]
      BY <1>3, <2>1
    <3>4. FrameOK(ino, done, k) /\ Len(stack) \in Nat /\ Len(stack') \in Nat
      BY <1>2, <1>3
    <3>5. DOMAIN ino \subseteq DOMAIN ino2 /\ \A n \in DOMAIN ino : ino2[n] = ino[n]
      BY <1>6
    <3> QED BY <1>1, <3>2, <3>3, <3>4, <3>5, CallerStays
  <2>2. CASE k = 1
    <3>1. /\ stack[1].next \in 1 .. (Len(Kids(node)) + 1)
          /\ \A j \in 1 .. Len(Kids(node)) :
                /\ j < stack[1].next => Kids(node)[j] \in done
                /\ j >= stack[1].next => Kids(node)[j] \notin DOMAIN ino
      <4>1. FrameOK(ino, done, 1) /\ Len(Kids(node)) \in Nat
        BY <1>1, <1>2, <1>3 DEF TreeShape
      <4>2. /\ stack[1].next \in 1 .. (Len(Kids(node)) + 1)
            /\ \A j \in 1 .. Len(Kids(node)) :
                  /\ j < stack[1].next => Kids(node)[j] \in done
                  /\ j > stack[1].next => Kids(node)[j] \notin DOMAIN ino
                  /\ j = stack[1].next => Kids(node)[j] \notin DOMAIN ino
        BY <1>1, <4>1 DEF FrameOK, Here
      <4> QED BY <4>1, <4>2
    <3>2. \A j \in 1 .. Len(Kids(node)) : Kids(node)[j] # node
      BY <1>1, <1>2 DEF TreeShape
    <3>3. IF 1 = Len(stack')
          THEN stack'[1].node = 1 /\ stack'[1].dir_inode = EXT4_ROOT_INO
          ELSE /\ stack'[2].next <= Len(Kids(stack'[2].node))
               /\ stack'[1].node = Kids(stack'[2].node)[stack'[2].next]
               /\ stack'[1].dir_inode = stack'[2].inode
      <4>1. CASE Len(stack) = 1
        BY <1>4, <4>1
      <4>2. CASE Len(stack) # 1
        <5>1. 2 \in 2 .. Len(stack)
          BY <1>3, <4>2
        <5>2. stack'[2] = stack[2]
          BY <5>1
        <5> QED BY <1>5, <4>2, <5>2
      <4> QED BY <4>1, <4>2
    <3>4. \A j \in 1 .. Len(Kids(node)) : j >= stack[1].next => Kids(node)[j] \notin DOMAIN ino2
      BY <1>6, <3>1, <3>2
    <3>5. /\ stack'[1].node = node /\ stack'[1].next = stack[1].next
          /\ stack'[1].inode = ino2[node] /\ node \in DOMAIN ino2
      BY <1>6
    <3>6. /\ stack'[k].node = node /\ stack'[k].next = stack[1].next
          /\ stack'[k].inode = ino2[node] /\ node \in DOMAIN ino2
      BY <2>2, <3>5
    <3>7. IF k = Len(stack')
          THEN stack'[k].node = 1 /\ stack'[k].dir_inode = EXT4_ROOT_INO
          ELSE /\ stack'[k + 1].next <= Len(Kids(stack'[k + 1].node))
               /\ stack'[k].node = Kids(stack'[k + 1].node)[stack'[k + 1].next]
               /\ stack'[k].dir_inode = stack'[k + 1].inode
      BY <2>2, <3>3
    <3>8. \A j \in 1 .. Len(Kids(node)) : j = stack[1].next => Kids(node)[j] \notin DOMAIN ino2
      BY <3>1, <3>4
    <3>9. \A j \in 1 .. Len(Kids(node)) : j > stack[1].next => Kids(node)[j] \notin DOMAIN ino2
      BY <3>1, <3>4
    <3> QED BY <1>1, <1>2, <1>7, <3>1, <3>6, <3>7, <3>8, <3>9 DEF FrameOK
  <2> QED BY <2>1, <2>2
<1>11. Waiting(ino2, done)'
  <2>1. \A n : IsOpen(n)' <=> IsOpen(n) \/ n = node
    <3>1. \A k \in 1 .. Len(stack) : stack'[k].node = stack[k].node
      BY <1>3 DEF Here
    <3> QED BY <1>1, <1>3, <3>1 DEF IsOpen, Here
  <2>2. node \notin done
    BY <1>1, <1>2 DEF Assigned
  <2> QED BY <1>1, <1>2, <1>6, <2>1, <2>2 DEF Calls, Waiting
<1>12. \A j, k \in 1 .. Len(stack') : j < k => stack'[k].node < stack'[j].node
  <2>1. \A k \in 1 .. Len(stack) : stack'[k].node = stack[k].node
    BY <1>3 DEF Here
  <2> QED BY <1>1, <2>1 DEF Calls
<1>13. Calls(ino2, done)'
  BY <1>10, <1>11, <1>12 DEF Calls
<1>14. AtHand(ino2, done)'
  <2>1. stack[1].next = 1 /\ Len(names) = Len(Kids(node)) /\ i = 0 /\ i \in 0 .. Len(names)
    BY <1>1 DEF AtHand, InTree, InEntry, NoChildData
  <2> QED BY <1>1, <1>7, <2>1 DEF AtHand, InTree, InEntry, NoChildData
<1> QED BY <1>8, <1>9, <1>13, <1>14 DEF Mirrors, ino2

\* The frame at hand is a record.
LEMMA TopFrame ==
    ASSUME TreeInv, at \in InTree
    PROVE  stack[1] = [node |-> Here, dir_inode |-> stack[1].dir_inode,
                       inode |-> stack[1].inode, next |-> stack[1].next]
<1>1. PICK N : stack \in Seq(Frames(N))
  BY DEF TreeInv, StackOK
<1>2. 1 \in 1 .. Len(stack)
  BY AtTop
<1>3. stack[1] \in Frames(N)
  BY <1>1, <1>2, ElementOfSeq
<1> QED BY <1>3 DEF Frames, Here

LEMMA RootInodeMirrors ==
    ASSUME NEW ino, NEW done, Going(ino, done), root_inode
    PROVE  \E ino2 : Mirrors(ino2, done)'
<1>1. /\ at = "dir_inode" /\ at' = "add_directory" /\ Top.dir_inode = 0 /\ AllCounted
      /\ UNCHANGED <<tree, disk, names, i, given, dirs>>
      /\ stack' = [stack EXCEPT ![1].inode = EXT4_ROOT_INO, ![1].dir_inode = EXT4_ROOT_INO]
  BY DEF root_inode, Call, inodeVars, directoryVars
<1>2. at \in InTree /\ at \in NotStarted /\ TreeInv /\ TreeShape /\ Calls(ino, done) /\ Assigned(ino, done)
  BY <1>1 DEF InTree, NotStarted, Going, Mirrors
<1>3. Top = stack[1] /\ Len(stack) \in Nat \ {0} /\ \A k \in 1 .. Len(stack) : FrameOK(ino, done, k)
  BY <1>2, AtTop, HereIs
<1>4. Len(stack) = 1
  <2> SUFFICES ASSUME Len(stack) # 1 PROVE FALSE
    OBVIOUS
  <2>1. FrameOK(ino, done, 1) /\ FrameOK(ino, done, 2)
    BY <1>3
  <2>2. stack[1].dir_inode = stack[2].inode /\ stack[2].node \in DOMAIN ino
        /\ stack[2].inode = ino[stack[2].node]
    BY <1>3, <2>1 DEF FrameOK
  <2> QED BY <1>1, <1>2, <1>3, <2>2, InodeCounts DEF Assigned, EXT4_ROOT_INO
<1> DEFINE new == [stack[1] EXCEPT !.inode = EXT4_ROOT_INO, !.dir_inode = EXT4_ROOT_INO]
<1>5. Len(stack') = 1 /\ stack'[1] = new
  <2>1. stack' = [stack EXCEPT ![1] = new]
    BY <1>1, <1>2, TopFrame
  <2>2. \A N : stack[1] \in Frames(N) => new \in Frames(N)
    BY DEF Frames, EXT4_ROOT_INO
  <2>3. StackOK /\ stack # <<>>
    BY <1>2 DEF TreeInv, CallersGiven
  <2> HIDE DEF new
  <2> QED BY <1>4, <2>1, <2>2, <2>3, ChangeTop
<1>6. /\ stack'[1].inode = EXT4_ROOT_INO /\ stack'[1].dir_inode = EXT4_ROOT_INO
      /\ stack'[1].node = Here /\ stack'[1].next = stack[1].next
  BY <1>2, <1>5, TopFrame
<1> HIDE DEF new
<1>7. EXT4_ROOT_INO \in Nat \ {0}
  BY DEF EXT4_ROOT_INO
<1> PICK node : node = Here
  OBVIOUS
<1>8. Mirrors(With(ino, node, EXT4_ROOT_INO), done)'
  BY <1>1, <1>4, <1>5, <1>6, <1>7, DirInodeMirrors
<1> QED BY <1>8

LEMMA NewDirInodeMirrors ==
    ASSUME NEW ino, NEW done, Going(ino, done), new_dir_inode
    PROVE  \E ino2 : Mirrors(ino2, done)'
<1>1. /\ at = "dir_inode" /\ at' = "add_directory" /\ Top.dir_inode # 0 /\ AllCounted
      /\ UNCHANGED <<tree, disk, names, i>>
  BY DEF new_dir_inode, Call, directoryVars
<1>2. at \in InTree /\ at \in NotStarted /\ TreeInv /\ TreeShape /\ Calls(ino, done) /\ IndInv
  BY <1>1 DEF InTree, NotStarted, Going, Mirrors
<1>3. Top = stack[1] /\ Len(stack) \in Nat \ {0} /\ FrameOK(ino, done, 1)
  BY <1>2, AtTop DEF Calls
<1>4. Len(stack) # 1
  BY <1>1, <1>2, <1>3 DEF FrameOK
<1>5. PICK bg \in Groups : allocate_inode(bg) /\ stack' = [stack EXCEPT ![1].inode = NextInode(bg)]
  BY DEF new_dir_inode
<1>6. /\ NextInode(bg) \in Nat \ {0} /\ NextInode(bg) \notin given
      /\ given' = given \cup {NextInode(bg)} /\ dirs' = dirs
  BY <1>2, <1>5, NewInode
<1> PICK node : node = Here
  OBVIOUS
<1> PICK x \in Nat \ {0} : x = NextInode(bg)
  BY <1>6
<1> DEFINE new == [stack[1] EXCEPT !.inode = x]
<1>7. /\ Len(stack') = Len(stack) /\ stack'[1] = new
      /\ \A k \in 2 .. Len(stack) : stack'[k] = stack[k]
  <2>1. stack' = [stack EXCEPT ![1] = new]
    BY <1>5
  <2>2. \A N : stack[1] \in Frames(N) => new \in Frames(N)
    BY DEF Frames
  <2>3. StackOK /\ stack # <<>>
    BY <1>2 DEF TreeInv, CallersGiven
  <2> HIDE DEF new
  <2> QED BY <2>1, <2>2, <2>3, ChangeTop
<1>8. /\ stack'[1].inode = x /\ stack'[1].dir_inode = stack[1].dir_inode
      /\ stack'[1].node = Here /\ stack'[1].next = stack[1].next
  BY <1>2, <1>7, TopFrame
<1> HIDE DEF new
<1>9. Mirrors(With(ino, node, x), done)'
  BY <1>1, <1>4, <1>6, <1>7, <1>8, DirInodeMirrors
<1> QED BY <1>9

-----------------------------------------------------------------------------
(* The calls that make and leave frames                                    *)

\* The root is called, with nothing on the disk but the reserved files.
LEMMA CreateReservedMirrors ==
    ASSUME TreeShape, create_reserved, dirs = {}, given = 1 .. FirstInodes
    PROVE  \E ino, done : Mirrors(ino, done)'
<1> DEFINE ino == [n \in {} |-> 0]
<1>1. /\ at' = "scan" /\ tree' = tree /\ stack' = <<Frame(1, 0)>> /\ given' = given /\ dirs' = dirs
      /\ disk' = [n \in ReservedFiles |-> FileInode]
  BY DEF create_reserved, Call, get_inode
<1>2. /\ Len(stack') = 1 /\ stack'[1].node = 1 /\ stack'[1].next = 1 /\ stack'[1].dir_inode = 0
  BY <1>1 DEF Frame
<1>3. DOMAIN ino = {} /\ \A n : Kids(n)' = Kids(n)
  BY <1>1, SameTree
<1> HIDE DEF ino
<1>4. Assigned(ino, {})'
  BY <1>1, <1>3 DEF Assigned
<1>5. OnDisk(ino, {})'
  BY <1>1, <1>3 DEF OnDisk, FileInode
<1>6. Calls(ino, {})'
  <2>1. at' \in NotStarted /\ at' \notin HasInode /\ at' \notin InEntry /\ at' # "root_mode"
    BY <1>1 DEF NotStarted, HasInode, InEntry, NoChildData
  <2>2. Len(Kids(1)) \in Nat /\ 1 \in 1 .. Len(tree) /\ tree[1].kind = "dir"
    BY DEF TreeShape
  <2>3. \A k \in 1 .. Len(stack') : FrameOK(ino, {}, k)'
    BY <1>1, <1>2, <1>3, <2>1, <2>2 DEF FrameOK
  <2>4. Waiting(ino, {})'
    BY <1>2, <1>3, <2>1 DEF Waiting, IsOpen
  <2> QED BY <1>2, <2>3, <2>4 DEF Calls
<1>7. AtHand(ino, {})'
  BY <1>1, <1>2 DEF AtHand, InTree, InEntry, NoChildData, NoDirData
<1>8. Mirrors(ino, {})'
  BY <1>4, <1>5, <1>6, <1>7 DEF Mirrors
<1> QED BY <1>8

LEMMA FillDirectoryMirrors ==
    ASSUME NEW ino, NEW done, Going(ino, done), fill_directory
    PROVE  Mirrors(ino, done)'
<1>1. /\ at = "fill" /\ at' = "scan" /\ UNCHANGED <<disk, tree, given, dirs>>
      /\ Top.next <= Len(Kids(Top.node)) /\ tree[Entry].kind = "dir"
      /\ stack' = <<Frame(Entry, Top.inode)>> \o stack
  BY DEF fill_directory, Call, inodeVars
<1>2. /\ Assigned(ino, done) /\ OnDisk(ino, done) /\ Calls(ino, done) /\ AtHand(ino, done)
      /\ at \in InTree /\ at \in HasInode /\ at \notin InEntry /\ at \notin NotStarted
      /\ at' \notin HasInode /\ at' \in NotStarted /\ at' \notin InEntry
      /\ at \notin NoDirData /\ at \notin NoChildData /\ at' \notin NoDirData /\ at' \notin NoChildData
      /\ TreeShape /\ TreeInv /\ IndInv
  BY <1>1 DEF Going, Mirrors, InTree, HasInode, InEntry, NoChildData, NoDirData, NotStarted
<1>3. /\ Top = stack[1] /\ Entry = HereNext /\ Len(stack) \in Nat \ {0} /\ 1 \in 1 .. Len(stack)
      /\ Top.node = Here /\ stack[1].inode \in Nat /\ StackOK
  <2>1. StackOK /\ stack # <<>>
    BY <1>2 DEF TreeInv, CallersGiven
  <2> QED BY <1>2, <2>1, AtTop, TopOfStack
<1>4. /\ HereNext \in (Here + 1) .. Len(tree) /\ HereNext \notin DOMAIN ino /\ HereNext # 1
      /\ stack[1].next \in 1 .. Len(Kids(Here)) /\ Here \in 1 .. Len(tree)
      /\ Here \in DOMAIN ino /\ \A k \in 1 .. Len(stack) : FrameOK(ino, done, k)
  BY <1>1, <1>2, <1>3, EntryIs, HereIs
<1>5. /\ Len(stack') = Len(stack) + 1 /\ stack'[1] = Frame(HereNext, stack[1].inode)
      /\ \A k \in 2 .. Len(stack') : stack'[k] = stack[k - 1]
  BY <1>1, <1>3, PushFrame
<1>6. /\ stack'[1].node = HereNext /\ stack'[1].dir_inode = stack[1].inode /\ stack'[1].next = 1
      /\ stack'[2] = stack[1] /\ 2 \in 2 .. Len(stack')
  BY <1>3, <1>5 DEF Frame
<1>7. \A n : Kids(n)' = Kids(n)
  BY <1>1, SameTree
<1>8. Assigned(ino, done)'
  BY <1>1, <1>2, SameAssigned
<1>9. OnDisk(ino, done)'
  <2>1. \A n : (NoData(n)' <=> NoData(n)) /\ ~NoData(n) /\ Laid(n)' = Laid(n)
    BY <1>1, <1>2, <1>7 DEF NoData, Laid
  <2> QED BY <1>1, <1>2, <2>1, SameDisk DEF Going
<1>10. \A k \in 1 .. Len(stack') : FrameOK(ino, done, k)'
  <2> SUFFICES ASSUME NEW k \in 1 .. Len(stack') PROVE FrameOK(ino, done, k)'
    OBVIOUS
  <2>1. CASE k = 1
    <3>1. Len(Kids(HereNext)) \in Nat /\ HereNext \in 1 .. Len(tree)
      BY <1>2, <1>4 DEF TreeShape
    <3>2. \A j \in 1 .. Len(Kids(HereNext)) : Kids(HereNext)[j] \notin DOMAIN ino
      <4> SUFFICES ASSUME NEW j \in 1 .. Len(Kids(HereNext)), Kids(HereNext)[j] \in DOMAIN ino PROVE FALSE
        OBVIOUS
      <4>1. Kids(HereNext)[j] # 1 /\ tree[Kids(HereNext)[j]].parent = HereNext
        BY <1>2, <3>1, KidIs
      <4> QED BY <1>2, <1>4, <4>1 DEF Assigned
    <3>3. /\ stack'[k].node = HereNext /\ stack'[k].next = 1 /\ k # Len(stack')
          /\ stack'[k + 1].next <= Len(Kids(stack'[k + 1].node))
          /\ stack'[k].node = Kids(stack'[k + 1].node)[stack'[k + 1].next]
          /\ stack'[k].dir_inode = stack'[k + 1].inode
      BY <1>3, <1>4, <1>5, <1>6, <2>1 DEF HereNext, Here
    <3>4. /\ stack'[k].node \in 1 .. Len(tree) /\ tree[stack'[k].node].kind = "dir"
          /\ stack'[k].node \notin DOMAIN ino /\ ~(k > 1) /\ k # Len(stack')
          /\ 1 \in 1 .. (Len(Kids(HereNext)) + 1)
          /\ \A j \in 1 .. Len(Kids(HereNext)) : ~(j < 1)
      <4>1. stack'[k].node \in 1 .. Len(tree) /\ stack'[k].node \notin DOMAIN ino
        BY <1>4, <3>1, <3>3, Zenon
      <4>2. tree[stack'[k].node].kind = "dir"
        BY <1>1, <1>3, <3>3, Zenon
      <4>3. 1 \in 1 .. (Len(Kids(HereNext)) + 1) /\ \A j \in 1 .. Len(Kids(HereNext)) : ~(j < 1)
        BY <3>1
      <4> QED BY <2>1, <3>3, <4>1, <4>2, <4>3
    <3> QED BY <1>1, <1>2, <1>7, <3>2, <3>3, <3>4 DEF FrameOK
  <2>2. CASE k = 2
    <3>1. FrameOK(ino, done, 1)
      BY <1>3, <1>4
    <3>2. /\ stack'[k] = stack[1] /\ (k = Len(stack') <=> 1 = Len(stack)) /\ k > 1
          /\ 1 # Len(stack) => stack'[k + 1] = stack[2]
      <4>1. Len(stack) \in Nat \ {0} /\ Len(stack') = Len(stack) + 1
        BY <1>3, <1>5
      <4>2. \A m \in Nat \ {0} : (2 = m + 1 <=> 1 = m) /\ (1 # m => 3 \in 2 .. (m + 1))
        OBVIOUS
      <4>3. (2 = Len(stack') <=> 1 = Len(stack)) /\ (1 # Len(stack) => 3 \in 2 .. Len(stack'))
        BY <4>1, <4>2, Zenon
      <4> QED BY <1>5, <1>6, <2>2, <4>3
    <3>3. /\ stack'[k].node = Here /\ tree[Here].kind = "dir" /\ stack'[k].inode = ino[Here]
          /\ stack'[k].next \in 1 .. (Len(Kids(Here)) + 1)
          /\ \A j \in 1 .. Len(Kids(Here)) :
                /\ j < stack'[k].next => Kids(Here)[j] \in done
                /\ j > stack'[k].next => Kids(Here)[j] \notin DOMAIN ino
      BY <1>2, <3>1, <3>2 DEF FrameOK, Here
    <3>4. IF k = Len(stack')
          THEN stack'[k].node = 1 /\ stack'[k].dir_inode = EXT4_ROOT_INO
          ELSE /\ stack'[k + 1].next <= Len(Kids(stack'[k + 1].node))
               /\ stack'[k].node = Kids(stack'[k + 1].node)[stack'[k + 1].next]
               /\ stack'[k].dir_inode = stack'[k + 1].inode
      BY <1>2, <3>1, <3>2 DEF FrameOK
    <3>5. k > 1 /\ k # 1 /\ Here \in 1 .. Len(tree) /\ Here \in DOMAIN ino
      BY <1>4, <2>2
    <3> QED BY <1>1, <1>7, <3>3, <3>4, <3>5 DEF FrameOK
  <2>3. CASE k > 2
    <3> DEFINE l == k - 1
    <3>0. k + 1 \in 2 .. Len(stack') \/ l = Len(stack)
      BY <1>3, <1>5, <2>3
    <3>1. /\ l \in 2 .. Len(stack) /\ k \in 2 .. Len(stack') /\ stack'[k] = stack[l]
          /\ l = Len(stack) <=> k = Len(stack')
          /\ l # Len(stack) => stack'[k + 1] = stack[l + 1]
          /\ Len(stack) \in Nat /\ Len(stack') \in Nat
      BY <1>3, <1>5, <2>3, <3>0
    <3>2. FrameOK(ino, done, l)
      BY <1>4, <3>1
    <3> HIDE DEF l
    <3> QED BY <1>1, <1>2, <3>1, <3>2, CallerStays
  <2>4. k = 1 \/ k = 2 \/ k > 2
    BY <1>3, <1>5
  <2> QED BY <2>1, <2>2, <2>3, <2>4
<1>11. Waiting(ino, done)'
  <2>1. ASSUME NEW n PROVE IsOpen(n)' <=> IsOpen(n)
    <3>1. IsOpen(n) <=> \E k \in 1 .. Len(stack) : n = stack[k].node
      BY <1>1, <1>2 DEF IsOpen
    <3>2. IsOpen(n)' <=> \E k \in 2 .. Len(stack') : n = stack'[k].node
      BY <1>1, <1>2, <1>3, <1>5 DEF IsOpen
    <3>3. \A k \in 1 .. Len(stack) : k + 1 \in 2 .. Len(stack') /\ stack'[k + 1] = stack[k]
      BY <1>3, <1>5
    <3>4. \A k \in 2 .. Len(stack') : k - 1 \in 1 .. Len(stack) /\ stack'[k] = stack[k - 1]
      BY <1>3, <1>5
    <3> QED BY <3>1, <3>2, <3>3, <3>4
  <2> QED BY <1>2, <2>1 DEF Calls, Waiting
<1>12. ASSUME NEW j \in 1 .. Len(stack'), NEW k \in 1 .. Len(stack'), j < k
       PROVE  stack'[k].node < stack'[j].node
  <2>1. k - 1 \in 1 .. Len(stack) /\ stack'[k] = stack[k - 1]
    BY <1>3, <1>5, <1>12
  <2>2. CASE j = 1
    <3>1. k - 1 = 1 \/ stack[k - 1].node < Here
      BY <1>2, <1>3, <2>1 DEF Calls, Here
    <3>2. stack[k - 1].node \in Nat /\ (k - 1 = 1 => stack[k - 1].node = Here)
      BY <1>4, <2>1 DEF FrameOK, Here
    <3> QED BY <1>4, <1>6, <2>1, <2>2, <3>1, <3>2
  <2>3. CASE j # 1
    <3>1. j - 1 \in 1 .. Len(stack) /\ stack'[j] = stack[j - 1] /\ j - 1 < k - 1
      BY <1>3, <1>5, <1>12, <2>3
    <3> QED BY <1>2, <2>1, <3>1 DEF Calls
  <2> QED BY <2>2, <2>3
<1>13. Calls(ino, done)'
  BY <1>10, <1>11, <1>12 DEF Calls
<1>14. AtHand(ino, done)'
  BY <1>1, <1>6 DEF AtHand, InTree, InEntry, NoChildData, NoDirData
<1> QED BY <1>8, <1>9, <1>13, <1>14 DEF Mirrors

\* build_directory_structure returns: its directory is the entry at hand of the caller.
LEMMA ReturnMirrors ==
    ASSUME NEW ino, NEW done, Going(ino, done), return
    PROVE  Mirrors(ino, done)'
<1>1. /\ at = "fill" /\ UNCHANGED <<disk, tree, given, dirs>>
      /\ Top.next > Len(Kids(Top.node)) /\ child' = Top.inode /\ stack' = Tail(stack)
      /\ at' = IF stack' = <<>> THEN "root_mode" ELSE "store"
  BY DEF return, inodeVars
<1>2. /\ Assigned(ino, done) /\ OnDisk(ino, done) /\ Calls(ino, done) /\ AtHand(ino, done)
      /\ at \in InTree /\ at \in HasInode /\ at \notin InEntry /\ at \notin NotStarted
      /\ at' \notin NotStarted /\ at' \notin NoDirData /\ at' \notin NoChildData
      /\ at \notin NoDirData /\ at \notin NoChildData
      /\ at' = "store" => at' \in HasInode /\ at' \in InEntry /\ at' \in InTree
      /\ at' = "root_mode" => at' \notin HasInode /\ at' \notin InEntry /\ at' \notin InTree
      /\ TreeShape /\ TreeInv /\ IndInv
  BY <1>1 DEF Going, Mirrors, InTree, HasInode, InEntry, NoChildData, NoDirData, NotStarted
<1>3. /\ Top = stack[1] /\ Len(stack) \in Nat \ {0} /\ 1 \in 1 .. Len(stack)
      /\ Top.node = Here /\ StackOK /\ stack # <<>>
  <2>1. StackOK /\ stack # <<>>
    BY <1>2 DEF TreeInv, CallersGiven
  <2> QED BY <1>2, <2>1, AtTop
<1>4. /\ Here \in 1 .. Len(tree) /\ Here \in DOMAIN ino /\ stack[1].inode = ino[Here]
      /\ \A k \in 1 .. Len(stack) : FrameOK(ino, done, k)
  BY <1>2, HereIs
<1>5. /\ Len(stack') = Len(stack) - 1 /\ Len(stack') \in Nat
      /\ \A k \in 1 .. Len(stack') : k + 1 \in 2 .. Len(stack) /\ stack'[k] = stack[k + 1]
  BY <1>1, <1>3, PopFrame
<1>6. stack' = <<>> <=> Len(stack') = 0
  <2>1. PICK N : stack' \in Seq(Frames(N))
    BY <1>1, <1>3, PopFrame DEF StackOK
  <2> QED BY <2>1, EmptySeq
<1>7. \A n : Kids(n)' = Kids(n)
  BY <1>1, SameTree
<1>8. \A k \in 1 .. Len(Kids(Here)) : Kids(Here)[k] \in done
  <2>1. stack[1].next > Len(Kids(Here)) /\ stack[1].next \in 1 .. (Len(Kids(Here)) + 1) /\ Len(Kids(Here)) \in Nat
    BY <1>1, <1>2, <1>3, HereIs
  <2>2. FrameOK(ino, done, 1)
    BY <1>3, <1>4
  <2>3. \A k \in 1 .. Len(Kids(Here)) : k < stack[1].next
    BY <2>1
  <2> QED BY <2>2, <2>3 DEF FrameOK, Here
<1>9. Assigned(ino, done)'
  BY <1>1, <1>2, SameAssigned
<1>10. OnDisk(ino, done)'
  <2>1. \A n : (NoData(n)' <=> NoData(n)) /\ ~NoData(n) /\ Laid(n)' = Laid(n)
    BY <1>1, <1>2, <1>7 DEF NoData, Laid
  <2> QED BY <1>1, <1>2, <2>1, SameDisk DEF Going
<1>11. ASSUME at' = "store"
       PROVE  /\ 2 \in 1 .. Len(stack) /\ 1 \in 1 .. Len(stack') /\ stack'[1] = stack[2]
              /\ FrameOK(ino, done, 2) /\ HereNext' = Here
              /\ stack[2].next <= Len(Kids(stack[2].node))
  <2>1. Len(stack') # 0
    BY <1>1, <1>6, <1>11
  <2>2. /\ 2 \in 1 .. Len(stack) /\ 1 \in 1 .. Len(stack') /\ stack'[1] = stack[1 + 1]
        /\ 1 # Len(stack) /\ 1 + 1 = 2
    BY <1>3, <1>5, <2>1
  <2>3. FrameOK(ino, done, 1) /\ FrameOK(ino, done, 2)
    BY <1>3, <1>4, <2>2
  <2>4. stack[1].node = Kids(stack[2].node)[stack[2].next] /\ stack[2].next <= Len(Kids(stack[2].node))
    BY <2>2, <2>3 DEF FrameOK
  <2>5. HereNext' = Kids(stack[2].node)[stack[2].next]
    BY <1>7, <2>2 DEF HereNext, Here
  <2> QED BY <2>2, <2>3, <2>4, <2>5 DEF Here
<1>12. ASSUME at' = "root_mode" PROVE Len(stack) = 1 /\ Len(stack') = 0 /\ Here = 1
  <2>1. Len(stack) = 1 /\ Len(stack') = 0
    BY <1>1, <1>3, <1>5, <1>6, <1>12
  <2> QED BY <1>3, <1>4, <2>1 DEF FrameOK, Here
<1>13. \A k \in 1 .. Len(stack') : FrameOK(ino, done, k)'
  <2> SUFFICES ASSUME NEW k \in 1 .. Len(stack') PROVE FrameOK(ino, done, k)'
    OBVIOUS
  <2>0. at' = "store"
    BY <1>1, <1>6
  <2>1. CASE k = 1
    <3>1. FrameOK(ino, done, 2) /\ stack'[k] = stack[2]
      BY <1>11, <2>0, <2>1
    <3>2. /\ stack'[k].node \in 1 .. Len(tree) /\ tree[stack'[k].node].kind = "dir"
          /\ stack'[k].next \in 1 .. (Len(Kids(stack'[k].node)) + 1)
          /\ stack'[k].node \in DOMAIN ino /\ stack'[k].inode = ino[stack'[k].node]
          /\ \A j \in 1 .. Len(Kids(stack'[k].node)) :
                /\ j < stack'[k].next => Kids(stack'[k].node)[j] \in done
                /\ j > stack'[k].next => Kids(stack'[k].node)[j] \notin DOMAIN ino
      BY <3>1 DEF FrameOK
    <3>3. (k = Len(stack') <=> 2 = Len(stack)) /\ (2 # Len(stack) => stack'[k + 1] = stack[3])
      <4>1. \A m \in Nat \ {0} : (1 = m - 1 <=> 2 = m) /\ (2 # m /\ 1 \in 1 .. (m - 1) => 2 \in 1 .. (m - 1))
        OBVIOUS
      <4>2. (1 = Len(stack') <=> 2 = Len(stack)) /\ (2 # Len(stack) => 2 \in 1 .. Len(stack'))
        BY <1>3, <1>5, <2>1, <4>1, Zenon
      <4> QED BY <1>5, <2>1, <4>2
    <3>4. IF k = Len(stack')
          THEN stack'[k].node = 1 /\ stack'[k].dir_inode = EXT4_ROOT_INO
          ELSE /\ stack'[k + 1].next <= Len(Kids(stack'[k + 1].node))
               /\ stack'[k].node = Kids(stack'[k + 1].node)[stack'[k + 1].next]
               /\ stack'[k].dir_inode = stack'[k + 1].inode
      BY <3>1, <3>3 DEF FrameOK
    <3> QED BY <1>1, <1>2, <1>7, <2>0, <3>2, <3>4 DEF FrameOK
  <2>2. CASE k # 1
    <3> DEFINE l == k + 1
    <3>0. k \in 2 .. Len(stack') /\ l \in 2 .. Len(stack) /\ stack'[k] = stack[l] /\ (l = Len(stack) <=> k = Len(stack'))
      BY <1>3, <1>5, <2>2
    <3>1. l # Len(stack) => stack'[k + 1] = stack[l + 1]
      <4>1. l # Len(stack) => k + 1 \in 1 .. Len(stack')
        BY <1>3, <1>5
      <4> QED BY <1>5, <4>1
    <3>2. FrameOK(ino, done, l) /\ Len(stack) \in Nat /\ Len(stack') \in Nat
      BY <1>3, <1>4, <1>5, <3>0
    <3> HIDE DEF l
    <3> QED BY <1>1, <1>2, <3>0, <3>1, <3>2, CallerStays
  <2> QED BY <2>1, <2>2
<1>14. Waiting(ino, done)'
  <2>1. ASSUME NEW n PROVE IsOpen(n)' <=> IsOpen(n)
    <3>1. IsOpen(n) <=> \E k \in 1 .. Len(stack) : n = stack[k].node
      BY <1>1, <1>2 DEF IsOpen
    <3>2. IsOpen(n)' <=> (\E k \in 1 .. Len(stack') : n = stack'[k].node) \/ n = Here
      <4>1. CASE at' = "store"
        BY <1>2, <1>11, <4>1 DEF IsOpen
      <4>2. CASE at' = "root_mode"
        BY <1>2, <1>12, <4>2 DEF IsOpen
      <4> QED BY <1>1, <4>1, <4>2
    <3>3. \A k \in 1 .. Len(stack) : k = 1 \/ (k - 1 \in 1 .. Len(stack') /\ stack'[k - 1] = stack[k])
      BY <1>3, <1>5
    <3> QED BY <1>3, <1>5, <3>1, <3>2, <3>3 DEF Here
  <2> QED BY <1>2, <2>1 DEF Calls, Waiting
<1>15. \A j, k \in 1 .. Len(stack') : j < k => stack'[k].node < stack'[j].node
  <2> SUFFICES ASSUME NEW j \in 1 .. Len(stack'), NEW k \in 1 .. Len(stack'), j < k
               PROVE  stack'[k].node < stack'[j].node
    OBVIOUS
  <2>1. j + 1 \in 1 .. Len(stack) /\ k + 1 \in 1 .. Len(stack) /\ j + 1 < k + 1
    BY <1>3, <1>5
  <2> QED BY <1>2, <1>5, <2>1 DEF Calls
<1>16. Calls(ino, done)'
  BY <1>13, <1>14, <1>15 DEF Calls
<1>17. AtHand(ino, done)'
  <2>1. child' = ino[Here]
    BY <1>1, <1>3, <1>4
  <2>2. CASE at' = "store"
    <3>1. stack'[1].next <= Len(Kids(Here')) /\ child' = ino[HereNext']
      BY <1>11, <2>1, <2>2 DEF Here
    <3>2. \A k \in 1 .. Len(Kids(HereNext')) : Kids(HereNext')[k] \in done
      BY <1>8, <1>11, <2>2
    <3> QED BY <1>2, <1>7, <2>2, <3>1, <3>2 DEF AtHand, InTree, InEntry, NoChildData, NoDirData
  <2>3. CASE at' = "root_mode"
    <3>1. Here = 1 /\ Len(stack') = 0 /\ child' = EXT4_ROOT_INO /\ 1 \in DOMAIN ino
      BY <1>2, <1>4, <1>12, <2>1, <2>3 DEF Assigned
    <3>2. \A k \in 1 .. Len(Kids(1)) : Kids(1)[k] \in done
      BY <1>8, <3>1
    <3> QED BY <1>2, <1>7, <2>3, <3>1, <3>2 DEF AtHand, InTree, InEntry, NoChildData, NoDirData
  <2> QED BY <1>1, <2>2, <2>3
<1> QED BY <1>9, <1>10, <1>16, <1>17 DEF Mirrors

-----------------------------------------------------------------------------
(* The calls that write to the disk                                        *)

LEMMA EntriesIn ==
    ASSUME NEW d, NEW t, NEW l, NEW m, NEW es, IsInode(d, t, l, m, es)
    PROVE  d.entries = es
BY DEF IsInode

LEMMA NewEntries ==
    ASSUME NEW d, NEW t, NEW l, NEW m, NEW old, NEW new, IsInode(d, t, l, m, old)
    PROVE  IsInode([d EXCEPT !.entries = new], t, l, m, new)
BY DEF IsInode

LEMMA NewMode ==
    ASSUME NEW d, NEW t, NEW l, NEW old, NEW new, NEW es, IsInode(d, t, l, old, es)
    PROVE  IsInode([d EXCEPT !.mode = new], t, l, new, es)
BY DEF IsInode

\* An entry is appended.
LEMMA EntryAppended ==
    ASSUME NEW x \in DOMAIN disk, disk = [y \in DOMAIN disk |-> disk[y]], NEW e,
           NEW t, NEW l, NEW m, NEW es, IsInode(disk[x], t, l, m, es),
           disk' = [disk EXCEPT ![x].entries = Append(@, e)]
    PROVE  /\ DOMAIN disk' = DOMAIN disk /\ disk' = [y \in DOMAIN disk' |-> disk'[y]]
           /\ \A y \in DOMAIN disk : y # x => disk'[y] = disk[y]
           /\ IsInode(disk'[x], t, l, m, Append(es, e))
<1>1. disk[x].entries = es
  BY EntriesIn
<1>2. disk'[x] = [disk[x] EXCEPT !.entries = Append(es, e)]
  BY <1>1
<1>3. IsInode([disk[x] EXCEPT !.entries = Append(es, e)], t, l, m, Append(es, e))
  BY NewEntries
<1>4. IsInode(disk'[x], t, l, m, Append(es, e))
  BY <1>2, <1>3
<1> QED BY <1>4

\* An inode gets its mode.
LEMMA ModeStored ==
    ASSUME NEW x \in DOMAIN disk, NEW v,
           NEW t, NEW l, NEW m, NEW es, IsInode(disk[x], t, l, m, es),
           disk = [y \in DOMAIN disk |-> disk[y]], disk' = [disk EXCEPT ![x].mode = v]
    PROVE  /\ DOMAIN disk' = DOMAIN disk /\ disk' = [y \in DOMAIN disk' |-> disk'[y]]
           /\ \A y \in DOMAIN disk : y # x => disk'[y] = disk[y]
           /\ IsInode(disk'[x], t, l, v, es)
<1>1. disk'[x] = [disk[x] EXCEPT !.mode = v]
  OBVIOUS
<1>2. IsInode([disk[x] EXCEPT !.mode = v], t, l, v, es)
  BY NewMode
<1>3. IsInode(disk'[x], t, l, v, es)
  BY <1>1, <1>2
<1> QED BY <1>3
\* Some nodes are written, and fit afterwards.  The others are as they were.
Writes(ino, done, done2, W) ==
    /\ W \subseteq DOMAIN ino /\ done2 \subseteq DOMAIN ino
    /\ disk' = [y \in DOMAIN disk' |-> disk'[y]]
    /\ DOMAIN disk' = DOMAIN disk \cup {ino[n] : n \in W}
    /\ \A y \in DOMAIN disk : y \notin {ino[n] : n \in W} => disk'[y] = disk[y]
    /\ \A n \in W : HasData(disk[ino[n]], ino, done2, n)'
    /\ \A n \in DOMAIN ino : ~NoData(n)' <=> n \in W \/ ~NoData(n)
    /\ \A n \in DOMAIN ino \ W :
          /\ Laid(n)' = Laid(n) /\ (n \in done <=> n \in done2)
          /\ \A k \in 1 .. Len(Kids(n)) : Kids(n)[k] \in done <=> Kids(n)[k] \in done2
    /\ \A n \in done2 : n \in done \/ bgs'[GroupOf(ino[n])].inode_table

LEMMA SomeWritten ==
    ASSUME TreeShape, tree' = tree, NEW ino, NEW done, NEW done2, NEW W, Assigned(ino, done),
           OnDisk(ino, done), AtHand(ino, done), IndInv, [InodesNext]_inodeVars,
           Writes(ino, done, done2, W)
    PROVE  OnDisk(ino, done2)'
<1> USE DEF Writes
<1>1. done \subseteq DOMAIN ino /\ DOMAIN ino \subseteq 1 .. Len(tree)
  BY DEF Assigned
<1>2. ASSUME NEW n \in done2 PROVE bgs'[GroupOf(ino[n])].inode_table
  <2>1. CASE n \in done
    <3>1. ino[n] \in given
      BY <1>1, <2>1 DEF Assigned
    <3>2. GroupOf(ino[n]) \in Groups
      BY <3>1, PlaceOf DEF IndInv, InodesTypeOK
    <3> QED BY <2>1, <3>2, TablesStay DEF OnDisk
  <2> QED BY <2>1
<1>3. \A x \in ReservedFiles : x \in DOMAIN disk /\ x \notin {ino[n] : n \in W}
  <2>1. FirstInodes \in Nat /\ ReservedFiles \subseteq 1 .. FirstInodes /\ EXT4_ROOT_INO \notin ReservedFiles
    BY InodeCounts, TreesAreTrees
  <2>2. \A n \in DOMAIN ino : ino[n] \in Nat /\ (ino[n] = EXT4_ROOT_INO \/ ino[n] > FirstInodes)
    BY DEF Assigned
  <2>3. \A n \in DOMAIN ino : ino[n] \notin ReservedFiles
    BY <2>1, <2>2
  <2> QED BY <2>3 DEF OnDisk
<1>4. \A n \in DOMAIN ino \ W : ino[n] \notin {ino[m] : m \in W}
  BY DEF Assigned
<1>5. ASSUME NEW n \in DOMAIN ino, ~NoData(n)' PROVE HasData(disk[ino[n]], ino, done2, n)'
  <2>1. CASE n \in W
    BY <2>1
  <2>2. CASE n \notin W
    <3>1. ~NoData(n) /\ n \in 1 .. Len(tree)
      BY <1>1, <1>5, <2>2
    <3>2. HasData(disk[ino[n]], ino, done, n) /\ ino[n] \in DOMAIN disk
      BY <3>1 DEF OnDisk
    <3>3. disk'[ino[n]] = disk[ino[n]]
      BY <1>4, <2>2, <3>2
    <3>4. Laid(n) \in 0 .. Len(Kids(n))
      BY <3>1, LaidIs
    <3>5. \A d : HasData(d, ino, done, n) => HasData(d, ino, done2, n)'
      BY <2>2, <3>1, <3>4, SameData
    <3> QED BY <3>2, <3>3, <3>5
  <2> QED BY <2>1, <2>2
<1>6. DOMAIN disk' = ReservedFiles \cup {ino[n] : n \in {m \in DOMAIN ino : ~NoData(m)'}}
  <2>1. DOMAIN disk = ReservedFiles \cup {ino[n] : n \in {m \in DOMAIN ino : ~NoData(m)}}
    BY DEF OnDisk
  <2>2. {ino[n] : n \in {m \in DOMAIN ino : ~NoData(m)'}}
            = {ino[n] : n \in {m \in DOMAIN ino : ~NoData(m)}} \cup {ino[n] : n \in W}
    OBVIOUS
  <2> QED BY <2>1, <2>2
<1>7. \A x \in ReservedFiles : disk'[x] = FileInode
  BY <1>3 DEF OnDisk
<1> QED BY <1>2, <1>5, <1>6, <1>7 DEF OnDisk, FileInode

\* The caller's inode is the parent's.
LEMMA ParentInode ==
    ASSUME TreeShape, TreeInv, at \in HasInode, NEW ino, NEW done, Assigned(ino, done), Calls(ino, done)
    PROVE  stack[1].dir_inode = ino[ParentOf(Here)]
<1>1. at \in InTree /\ at \notin NotStarted
  BY DEF HasInode, NotStarted
<1>2. /\ Len(stack) \in Nat \ {0} /\ 1 \in 1 .. Len(stack) /\ Here \in DOMAIN ino
      /\ \A k \in 1 .. Len(stack) : FrameOK(ino, done, k)
  BY <1>1, AtTop, HereIs
<1>3. CASE Len(stack) = 1
  BY <1>1, <1>2, <1>3 DEF FrameOK, Here, ParentOf, Assigned
<1>4. CASE Len(stack) # 1
  <2> DEFINE M == Len(stack)
  <2>0. M \in Nat \ {0} /\ M # 1
    BY <1>2, <1>4
  <2> HIDE DEF M
  <2>a. 2 \in 1 .. M
    BY <2>0
  <2> USE DEF M
  <2>1. FrameOK(ino, done, 1) /\ FrameOK(ino, done, 2)
    BY <1>2, <2>a
  <2> DEFINE m == stack[2].node
             l == stack[2].next
  <2>2. /\ m \in 1 .. Len(tree) /\ l \in 1 .. Len(Kids(m)) /\ Here = Kids(m)[l]
        /\ stack[1].dir_inode = ino[m]
    BY <1>2, <1>4, <2>1 DEF FrameOK, Here, TreeShape
  <2> HIDE DEF m, l
  <2>3. tree[Here].parent = m /\ Here # 1
    BY <2>2, KidIs
  <2> QED BY <2>2, <2>3 DEF ParentOf
<1> QED BY <1>3, <1>4

LEMMA DirDataMirrors ==
    ASSUME NEW ino, NEW done, Going(ino, done), dir_data
    PROVE  Mirrors(ino, done)'
<1>1. /\ at = "dir_data" /\ at' = "entries" /\ UNCHANGED <<stack, tree, given, dirs, child, names, i>>
      /\ disk' = WithInode(Top.inode, [type |-> "dir", links |-> links(Top.node), mode |-> 0,
                                       entries |-> <<DirEntry(Dot, Top.inode, "dir"),
                                                     DirEntry(DotDot, Top.dir_inode, "dir")>>])
  BY DEF dir_data, Call, make_directory, inodeVars
<1>2. /\ Assigned(ino, done) /\ OnDisk(ino, done) /\ Calls(ino, done) /\ AtHand(ino, done)
      /\ at \in InTree /\ at \in HasInode /\ at' \in HasInode /\ at' \in InTree
      /\ TreeShape /\ TreeInv /\ IndInv /\ [InodesNext]_inodeVars
      /\ at \in NoDirData /\ at \notin NoChildData /\ at' \notin NoDirData /\ at' \notin NoChildData
  BY <1>1 DEF Going, Mirrors, InTree, HasInode, InEntry, NoChildData, NoDirData
<1>3. /\ Top = stack[1] /\ Top.node = Here /\ Here \in DOMAIN ino /\ Here \notin done
      /\ stack[1].inode = ino[Here] /\ tree[Here].kind = "dir" /\ Here \in 1 .. Len(tree)
  BY <1>2, AtTop, HereIs
<1>4. stack[1].dir_inode = ino[ParentOf(Here)]
  BY <1>2, ParentInode
<1>5. Here' = Here /\ HereNext' = HereNext /\ \A n : Kids(n)' = Kids(n) /\ links(n)' = links(n) /\ ParentOf(n)' = ParentOf(n)
  BY <1>1, SameTree DEF Here, HereNext, ParentOf
<1>6. Len(names) = Len(Kids(Here)) /\ i = 0 /\ i \in 0 .. Len(names)
  BY <1>1, <1>2 DEF AtHand
<1> PICK node : node = Here
  OBVIOUS
<1> PICK es : es = <<DirEntry(Dot, ino[node], "dir"), DirEntry(DotDot, ino[ParentOf(node)], "dir")>>
  OBVIOUS
<1> PICK d : d = [type |-> "dir", links |-> links(node), mode |-> 0, entries |-> es]
  OBVIOUS
<1>7. HasData(d, ino, done, node)'
  <2>1. Laid(node)' = 0
    BY <1>1, <1>5, <1>6 DEF Laid
  <2>2. ino[node] \in Nat /\ ino[ParentOf(node)] \in Nat
    <3>1. ParentOf(node) \in DOMAIN ino
      BY <1>2, <1>3 DEF Assigned, ParentOf
    <3> QED BY <1>2, <1>3, <3>1 DEF Assigned
  <2>3. DirEntry(Dot, ino[node], "dir") \in Entries /\ DirEntry(DotDot, ino[ParentOf(node)], "dir") \in Entries
    BY <2>2 DEF DirEntry, Dot, DotDot, Entries
  <2>4. es \in Seq(Entries) /\ Len(es) = 2 + 0 /\ es[1] = DirEntry(Dot, ino[node], "dir")
        /\ es[2] = DirEntry(DotDot, ino[ParentOf(node)], "dir")
    BY <2>3
  <2>5. HasEntries(es, ino, done, node)'
    BY <1>5, <2>1, <2>4 DEF HasEntries
  <2> QED BY <1>1, <1>3, <1>5, <2>5 DEF HasData, IsInode
<1>8. disk' = [y \in DOMAIN disk \cup {ino[node]} |-> IF y = ino[node] THEN d ELSE disk[y]]
  BY <1>1, <1>3, <1>4 DEF WithInode
<1> PICK W : W = {node}
  OBVIOUS
<1>9. /\ disk' = [y \in DOMAIN disk' |-> disk'[y]] /\ DOMAIN disk' = DOMAIN disk \cup {ino[n] : n \in W}
      /\ \A y \in DOMAIN disk : y \notin {ino[n] : n \in W} => disk'[y] = disk[y]
      /\ disk'[ino[node]] = d
  BY <1>8
<1>10. \A n \in DOMAIN ino : ~NoData(n)' <=> n \in W \/ ~NoData(n)
  BY <1>2, <1>5 DEF NoData
<1>11. \A n \in DOMAIN ino \ W : Laid(n)' = Laid(n)
  BY <1>1, <1>5 DEF Laid
<1>12. OnDisk(ino, done)'
  <2>1. HasData(disk[ino[node]], ino, done, node)'
    BY <1>5, <1>7, <1>9
  <2>2. W \subseteq DOMAIN ino /\ done \subseteq DOMAIN ino
    BY <1>2, <1>3 DEF Assigned
  <2>3. Writes(ino, done, done, W)
    BY <1>9, <1>10, <1>11, <2>1, <2>2 DEF Writes
  <2> QED BY <1>1, <1>2, <2>3, SomeWritten
<1>13. Assigned(ino, done)'
  BY <1>1, <1>2, SameAssigned
<1>14. Calls(ino, done)'
  BY <1>1, <1>2, SameCalls DEF HasInode, InEntry, NoChildData, NotStarted, InTree
<1>15. AtHand(ino, done)'
  BY <1>1, <1>2, <1>5, <1>6 DEF AtHand, InTree, InEntry, NoChildData, NoDirData
<1> QED BY <1>12, <1>13, <1>14, <1>15 DEF Mirrors

\* One entry more; its number is not there yet.
LEMMA AddChildEntryMirrors ==
    ASSUME NEW ino, NEW done, Going(ino, done), add_child_entry, at' # "end"
    PROVE  Mirrors(ino, done)'
<1>1. /\ at = "entries" /\ at' = "entries" /\ UNCHANGED <<stack, tree, given, dirs, child, names>>
      /\ i < Len(names) /\ i' = i + 1
      /\ disk' = [disk EXCEPT ![Top.inode].entries =
                      Append(@, DirEntry(Kids(Top.node)[i'], 0, tree[Kids(Top.node)[i']].kind))]
  BY DEF add_child_entry, add_entry
<1>2. /\ Assigned(ino, done) /\ OnDisk(ino, done) /\ Calls(ino, done) /\ AtHand(ino, done)
      /\ at \in InTree /\ at \in HasInode /\ at \notin InEntry
      /\ TreeShape /\ TreeInv /\ IndInv /\ [InodesNext]_inodeVars
      /\ at \notin NoDirData /\ at \notin NoChildData /\ at' \notin NoDirData /\ at' \notin NoChildData
  BY <1>1 DEF Going, Mirrors, InTree, HasInode, InEntry, NoChildData, NoDirData
<1>3. /\ Top = stack[1] /\ Top.node = Here /\ Here \in DOMAIN ino /\ Here \notin done
      /\ stack[1].inode = ino[Here] /\ tree[Here].kind = "dir" /\ Here \in 1 .. Len(tree)
      /\ 1 \in 1 .. Len(stack)
  BY <1>2, AtTop, HereIs
<1>4. FrameOK(ino, done, 1)
  BY <1>2, <1>3 DEF Calls
<1>5. Here' = Here /\ \A n : Kids(n)' = Kids(n) /\ links(n)' = links(n) /\ ParentOf(n)' = ParentOf(n)
  BY <1>1, SameTree DEF Here, ParentOf
<1>6. Len(names) = Len(Kids(Here)) /\ i \in 0 .. Len(names) /\ Len(Kids(Here)) \in Nat
  BY <1>1, <1>2, <1>3 DEF AtHand, TreeShape
<1>7. i + 1 \in 1 .. Len(Kids(Here)) /\ i' \in 0 .. Len(names)
  BY <1>1, <1>6
<1>8. Kids(Here)[i + 1] \notin done
  <2>1. stack[1].next = 1
    BY <1>1, <1>2 DEF AtHand, InTree, InEntry, NoChildData
  <2>2. i + 1 = 1 \/ i + 1 > 1
    BY <1>6
  <2>3. Kids(Here)[i + 1] \notin DOMAIN ino
    BY <1>2, <1>4, <1>7, <2>1, <2>2 DEF FrameOK, Here
  <2> QED BY <1>2, <2>3 DEF Assigned
<1> PICK node : node = Here
  OBVIOUS
<1> PICK e : e = DirEntry(Kids(node)[i + 1], 0, tree[Kids(node)[i + 1]].kind)
  OBVIOUS
<1> PICK c \in 0 .. Len(Kids(node)) : c = i
  BY <1>6
<1>9. HasData(disk[ino[node]], ino, done, node) /\ ~NoData(node) /\ ino[node] \in DOMAIN disk
  BY <1>2, <1>3 DEF OnDisk, NoData
<1>10. PICK es : /\ IsInode(disk[ino[node]], "dir", links(node), 0, es)
                 /\ HasEntries(es, ino, done, node) /\ Laid(node) = c /\ Laid(node)' = c + 1
  <2>1. IsInode(disk[ino[node]], "dir", links(node), 0, disk[ino[node]].entries)
    BY <1>3, <1>9 DEF HasData
  <2>2. HasEntries(disk[ino[node]].entries, ino, done, node)
    BY <1>3, <1>9 DEF HasData
  <2>3. Laid(node) = c /\ Laid(node)' = c + 1
    BY <1>1, <1>5 DEF Laid
  <2> QED BY <2>1, <2>2, <2>3
<1>11. e \in Entries /\ e = KidEntry(ino, done, node, c + 1)
  <2>1. Kids(node)[c + 1] \in (node + 1) .. Len(tree)
    BY <1>2, <1>3, <1>7 DEF TreeShape
  <2>2. Kids(node)[c + 1] \in 1 .. Len(tree)
    BY <1>2, <1>3, <2>1 DEF TreeShape
  <2>3. tree[Kids(node)[c + 1]].kind \in {"dir", "file", "link", "other"}
    BY <1>2, <2>2 DEF TreeShape
  <2> QED BY <1>8, <2>2, <2>3 DEF KidEntry, DirEntry, Entries
<1>12. HasEntries(Append(es, e), ino, done, node)'
  <2>1. es \in Seq(Entries) /\ Len(es) = 2 + c
    BY <1>10 DEF HasEntries
  <2>2. /\ Append(es, e) \in Seq(Entries) /\ Len(Append(es, e)) = 2 + (c + 1)
        /\ Append(es, e)[c + 3] = e /\ \A k \in 1 .. (c + 2) : Append(es, e)[k] = es[k]
    BY <1>11, <2>1, AppendProperties
  <2>3. \A k \in 1 .. c : KidEntry(ino, done, node, k)' = KidEntry(ino, done, node, k)
    BY <1>1, <1>5 DEF KidEntry
  <2>4. KidEntry(ino, done, node, c + 1)' = e
    BY <1>1, <1>5, <1>11 DEF KidEntry
  <2>5. ASSUME NEW k \in 1 .. (c + 1) PROVE Append(es, e)[k + 2] = KidEntry(ino, done, node, k)'
    <3>1. CASE k = c + 1
      <4>1. k + 2 = c + 3
        BY <3>1
      <4> QED BY <2>2, <2>4, <3>1, <4>1
    <3>2. CASE k # c + 1
      <4>1. k \in 1 .. c /\ k + 2 \in 1 .. (c + 2)
        BY <3>2
      <4>2. es[k + 2] = KidEntry(ino, done, node, k)
        BY <1>10, <4>1 DEF HasEntries
      <4> QED BY <2>2, <2>3, <4>1, <4>2
    <3> QED BY <3>1, <3>2
  <2>6. es[1] = DirEntry(Dot, ino[node], "dir") /\ es[2] = DirEntry(DotDot, ino[ParentOf(node)], "dir")
    BY <1>10 DEF HasEntries
  <2>7. Append(es, e)[1] = es[1] /\ Append(es, e)[2] = es[2]
    <3>1. 1 \in 1 .. (c + 2) /\ 2 \in 1 .. (c + 2)
      OBVIOUS
    <3> QED BY <2>2, <3>1
  <2> QED BY <1>5, <1>10, <2>2, <2>5, <2>6, <2>7 DEF HasEntries
<1>13. disk' = [disk EXCEPT ![ino[node]].entries = Append(@, e)]
  <2>1. e = DirEntry(Kids(Top.node)[i'], 0, tree[Kids(Top.node)[i']].kind) /\ Top.inode = ino[node]
    BY <1>1, <1>3
  <2> QED BY <1>1, <2>1, Zenon
<1> PICK W : W = {node}
  OBVIOUS
<1>14. /\ disk' = [y \in DOMAIN disk' |-> disk'[y]] /\ DOMAIN disk' = DOMAIN disk \cup {ino[n] : n \in W}
       /\ \A y \in DOMAIN disk : y \notin {ino[n] : n \in W} => disk'[y] = disk[y]
       /\ IsInode(disk'[ino[node]], "dir", links(node), 0, Append(es, e))
  <2>1. disk = [y \in DOMAIN disk |-> disk[y]]
    BY <1>2 DEF OnDisk
  <2>2. /\ DOMAIN disk' = DOMAIN disk /\ disk' = [y \in DOMAIN disk' |-> disk'[y]]
        /\ \A y \in DOMAIN disk : y # ino[node] => disk'[y] = disk[y]
        /\ IsInode(disk'[ino[node]], "dir", links(node), 0, Append(es, e))
    BY <1>9, <1>10, <1>13, <2>1, EntryAppended
  <2> QED BY <1>9, <2>2
<1>15. HasData(disk[ino[node]], ino, done, node)'
  <2> PICK d : d = disk'[ino[node]]
    OBVIOUS
  <2>1. IsInode(d, "dir", links(node), 0, d.entries) /\ d.entries = Append(es, e)
    BY <1>14, EntriesIn
  <2>2. HasData(d, ino, done, node)'
    BY <1>1, <1>3, <1>5, <1>12, <2>1 DEF HasData
  <2> QED BY <2>2
<1>16. OnDisk(ino, done)'
  <2>2. W \subseteq DOMAIN ino /\ done \subseteq DOMAIN ino
    BY <1>2, <1>3 DEF Assigned
  <2>3. \A n \in DOMAIN ino : ~NoData(n)' <=> n \in W \/ ~NoData(n)
    BY <1>2 DEF NoData
  <2>4. \A n \in DOMAIN ino \ W : Laid(n)' = Laid(n)
    BY <1>1, <1>5 DEF Laid
  <2>5. Writes(ino, done, done, W)
    BY <1>14, <1>15, <2>2, <2>3, <2>4 DEF Writes
  <2> QED BY <1>1, <1>2, <2>5, SomeWritten
<1>17. Assigned(ino, done)'
  BY <1>1, <1>2, SameAssigned
<1>18. Calls(ino, done)'
  BY <1>1, <1>2, SameCalls
<1>19. AtHand(ino, done)'
  BY <1>1, <1>2, <1>5, <1>6, <1>7 DEF AtHand, InTree, InEntry, NoChildData, NoDirData
<1> QED BY <1>16, <1>17, <1>18, <1>19 DEF Mirrors

\* A node without entries: every one that is not a directory.
LEMMA NoKids ==
    ASSUME TreeShape, NEW n \in 1 .. Len(tree), tree[n].kind # "dir"
    PROVE  \A k : k \notin 1 .. Len(Kids(n))
<1> SUFFICES ASSUME NEW k \in 1 .. Len(Kids(n)) PROVE FALSE
  OBVIOUS
<1>1. Kids(n)[k] \in (n + 1) .. Len(tree) /\ tree[Kids(n)[k]].parent = n
  BY DEF TreeShape
<1>2. Kids(n)[k] \in 2 .. Len(tree)
  BY <1>1
<1> QED BY <1>1, <1>2 DEF TreeShape

\* The inode of a file or a link.
LEMMA ChildDataMirrors ==
    ASSUME NEW ino, NEW done, Going(ino, done), child_data
    PROVE  Mirrors(ino, done)'
<1>1. /\ at = "child_data" /\ at' = "store" /\ UNCHANGED <<stack, tree, given, dirs, child, names, i>>
      /\ disk' = WithInode(child, [FileInode EXCEPT !.type = tree[Entry].kind])
  BY DEF child_data, Call, inodeVars, directoryVars
<1>2. /\ Assigned(ino, done) /\ OnDisk(ino, done) /\ Calls(ino, done) /\ AtHand(ino, done)
      /\ at \in InTree /\ at \in HasInode /\ at \in InEntry /\ at' \in InEntry
      /\ TreeShape /\ TreeInv /\ IndInv /\ [InodesNext]_inodeVars
      /\ at \notin NoDirData /\ at \in NoChildData /\ at' \notin NoDirData /\ at' \notin NoChildData
  BY <1>1 DEF Going, Mirrors, InTree, HasInode, InEntry, NoChildData, NoDirData
<1>3. /\ Entry = HereNext /\ stack[1].next <= Len(Kids(Here)) /\ child = ino[HereNext]
      /\ tree[HereNext].kind # "dir"
  BY <1>2, AtTop DEF AtHand
<1>4. /\ HereNext \in DOMAIN ino /\ HereNext \notin done /\ HereNext \in 1 .. Len(tree)
  BY <1>2, <1>3, EntryIs DEF Assigned
<1>5. Here' = Here /\ HereNext' = HereNext /\ \A n : Kids(n)' = Kids(n)
  BY <1>1, SameTree DEF Here, HereNext
<1> PICK node : node = HereNext
  OBVIOUS
<1> PICK d : d = [type |-> tree[node].kind, links |-> 1, mode |-> 0, entries |-> <<>>]
  OBVIOUS
<1>6. HasData(d, ino, done, node)'
  BY <1>1, <1>3, <1>4 DEF HasData, IsInode
<1>7. disk' = [y \in DOMAIN disk \cup {ino[node]} |-> IF y = ino[node] THEN d ELSE disk[y]]
  BY <1>1, <1>3 DEF WithInode, FileInode
<1> PICK W : W = {node}
  OBVIOUS
<1>8. /\ disk' = [y \in DOMAIN disk' |-> disk'[y]] /\ DOMAIN disk' = DOMAIN disk \cup {ino[n] : n \in W}
      /\ \A y \in DOMAIN disk : y \notin {ino[n] : n \in W} => disk'[y] = disk[y]
      /\ disk'[ino[node]] = d
  BY <1>7
<1>9. OnDisk(ino, done)'
  <2>1. HasData(disk[ino[node]], ino, done, node)'
    BY <1>6, <1>8
  <2>2. W \subseteq DOMAIN ino /\ done \subseteq DOMAIN ino
    BY <1>2, <1>4 DEF Assigned
  <2>3. \A n \in DOMAIN ino : ~NoData(n)' <=> n \in W \/ ~NoData(n)
    BY <1>2, <1>5 DEF NoData
  <2>4. \A n \in DOMAIN ino \ W : Laid(n)' = Laid(n)
    BY <1>1, <1>5 DEF Laid
  <2>5. Writes(ino, done, done, W)
    BY <1>8, <2>1, <2>2, <2>3, <2>4 DEF Writes
  <2> QED BY <1>1, <1>2, <2>5, SomeWritten
<1>10. Assigned(ino, done)'
  BY <1>1, <1>2, SameAssigned
<1>11. Calls(ino, done)'
  BY <1>1, <1>2, SameCalls DEF HasInode, InEntry, NoChildData, NotStarted, InTree
<1>12. AtHand(ino, done)'
  <2>1. \A k : k \notin 1 .. Len(Kids(HereNext))
    BY <1>2, <1>3, <1>4, NoKids
  <2> QED BY <1>1, <1>2, <1>3, <1>5, <2>1 DEF AtHand, InTree, InEntry, NoChildData, NoDirData
<1> QED BY <1>9, <1>10, <1>11, <1>12 DEF Mirrors

\* A number is stored in one entry of several.
Numbered(new, es, k, c) ==
    /\ new \in Seq(Entries) /\ Len(new) = Len(es)
    /\ new[k] = DirEntry(es[k].name, c, es[k].file_type)
    /\ \A j \in 1 .. Len(es) : j # k => new[j] = es[j]

LEMMA NumberedEntry ==
    ASSUME NEW es \in Seq(Entries), NEW k \in 1 .. Len(es), NEW c \in Nat
    PROVE  Numbered([es EXCEPT ![k].inode = c], es, k, c)
<1> DEFINE e   == [es[k] EXCEPT !.inode = c]
           new == [es EXCEPT ![k] = e]
<1>1. es[k] \in Entries
  BY ElementOfSeq
<1>2. e \in Entries /\ e = DirEntry(es[k].name, c, es[k].file_type)
  BY <1>1 DEF Entries, DirEntry
<1> HIDE DEF e
<1>3. /\ new \in Seq(Entries) /\ Len(new) = Len(es)
      /\ \A j \in 1 .. Len(es) : new[j] = IF j = k THEN e ELSE es[j]
  BY <1>2, ExceptSeq
<1> HIDE DEF new
<1>4. Numbered(new, es, k, c)
  BY <1>2, <1>3 DEF Numbered
<1> QED BY <1>4 DEF new, e

\* It is one of an inode's, and another inode gets its mode.
Stores(x, k, c, z, v) == disk' = [disk EXCEPT ![x].entries[k].inode = c, ![z].mode = v]

LEMMA NumberStored ==
    ASSUME NEW x \in DOMAIN disk, NEW z \in DOMAIN disk, x # z, NEW k, NEW c \in Nat, NEW v,
           NEW t, NEW l, NEW m, NEW es \in Seq(Entries), IsInode(disk[x], t, l, m, es), k \in 1 .. Len(es),
           NEW t2, NEW l2, NEW m2, NEW es2, IsInode(disk[z], t2, l2, m2, es2),
           disk = [y \in DOMAIN disk |-> disk[y]], Stores(x, k, c, z, v)
    PROVE  /\ DOMAIN disk' = DOMAIN disk /\ disk' = [y \in DOMAIN disk' |-> disk'[y]]
           /\ \A y \in DOMAIN disk : y # x /\ y # z => disk'[y] = disk[y]
           /\ \E new : Numbered(new, es, k, c) /\ IsInode(disk'[x], t, l, m, new)
           /\ IsInode(disk'[z], t2, l2, v, es2)
<1> DEFINE new == [es EXCEPT ![k].inode = c]
<1>1. disk[x].entries = es
  BY EntriesIn
<1>2. disk' = [disk EXCEPT ![x] = [disk[x] EXCEPT !.entries = new], ![z] = [disk[z] EXCEPT !.mode = v]]
  BY <1>1 DEF Stores
<1> HIDE DEF new
<1>3. disk'[x] = [disk[x] EXCEPT !.entries = new] /\ disk'[z] = [disk[z] EXCEPT !.mode = v]
  BY <1>2
<1>4. IsInode([disk[x] EXCEPT !.entries = new], t, l, m, new)
  BY NewEntries
<1>5. IsInode([disk[z] EXCEPT !.mode = v], t2, l2, v, es2)
  BY NewMode
<1>6. IsInode(disk'[x], t, l, m, new) /\ IsInode(disk'[z], t2, l2, v, es2)
  BY <1>3, <1>4, <1>5
<1>7. Numbered(new, es, k, c)
  BY NumberedEntry DEF new
<1> QED BY <1>2, <1>6, <1>7

\* The frame at hand goes on to the next entry.
LEMMA NextEntry ==
    ASSUME TreeInv, at \in InTree, stack' = [stack EXCEPT ![1].next = @ + 1]
    PROVE  /\ Len(stack') = Len(stack) /\ \A k \in 2 .. Len(stack) : stack'[k] = stack[k]
           /\ stack'[1].node = stack[1].node /\ stack'[1].dir_inode = stack[1].dir_inode
           /\ stack'[1].inode = stack[1].inode /\ stack'[1].next = stack[1].next + 1
<1> DEFINE new == [stack[1] EXCEPT !.next = @ + 1]
<1>1. StackOK /\ stack # <<>>
  BY DEF TreeInv, CallersGiven
<1>2. stack' = [stack EXCEPT ![1] = new]
  OBVIOUS
<1>3. \A N : stack[1] \in Frames(N) => new \in Frames(N)
  BY DEF Frames
<1>4. /\ new.node = stack[1].node /\ new.dir_inode = stack[1].dir_inode
      /\ new.inode = stack[1].inode /\ new.next = stack[1].next + 1
  BY TopFrame
<1> HIDE DEF new
<1>5. /\ Len(stack') = Len(stack) /\ stack'[1] = new
      /\ \A k \in 2 .. Len(stack) : stack'[k] = stack[k]
  BY <1>1, <1>2, <1>3, ChangeTop
<1> QED BY <1>4, <1>5

\* What the inode at hand and its entry hold when the number is stored.
Storing(ino, done, done2, node, c, kid) ==
    /\ node \in 1 .. Len(tree) /\ tree[node].kind = "dir" /\ c \in 1 .. Len(Kids(node)) /\ kid = Kids(node)[c]
    /\ node \in DOMAIN ino /\ ~NoData(node) /\ node \notin done
    /\ kid \in DOMAIN ino /\ ~NoData(kid) /\ kid \notin done
    /\ Stores(ino[node], c + 2, ino[kid], ino[kid], kid)
    /\ done2 = done \cup {kid}

LEMMA StoredData ==
    ASSUME TreeShape, tree' = tree, NEW ino, NEW done, NEW done2, NEW node, NEW c, NEW kid,
           Assigned(ino, done), OnDisk(ino, done), at = "store", at' = "fill",
           Storing(ino, done, done2, node, c, kid)
    PROVE  /\ DOMAIN disk' = DOMAIN disk /\ disk' = [y \in DOMAIN disk' |-> disk'[y]]
           /\ \A y \in DOMAIN disk : y # ino[node] /\ y # ino[kid] => disk'[y] = disk[y]
           /\ HasData(disk[ino[node]], ino, done2, node)' /\ HasData(disk[ino[kid]], ino, done2, kid)'
<1> USE DEF Storing
<1>1. kid \in 1 .. Len(tree) /\ kid # node /\ Len(Kids(node)) \in Nat
  BY DEF TreeShape
<1>2. ino[node] # ino[kid] /\ ino[node] \in DOMAIN disk /\ ino[kid] \in DOMAIN disk /\ ino[kid] \in Nat
  BY <1>1 DEF Assigned, OnDisk
<1>3. HasData(disk[ino[node]], ino, done, node) /\ HasData(disk[ino[kid]], ino, done, kid)
  BY DEF OnDisk
<1> PICK l : l = IF tree[kid].kind = "dir" THEN links(kid) ELSE 1
  OBVIOUS
<1>4. PICK es : IsInode(disk[ino[node]], "dir", links(node), 0, es) /\ HasEntries(es, ino, done, node)
  BY <1>3 DEF HasData
<1>5. PICK es2 : /\ IsInode(disk[ino[kid]], tree[kid].kind, l, 0, es2)
                 /\ IF tree[kid].kind = "dir" THEN HasEntries(es2, ino, done, kid) ELSE es2 = <<>>
  BY <1>3 DEF HasData
<1>6. \A n : Kids(n)' = Kids(n) /\ links(n)' = links(n) /\ ParentOf(n)' = ParentOf(n)
  BY SameTree DEF ParentOf
<1>7. \A n : Laid(n) = Len(Kids(n)) /\ Laid(n)' = Len(Kids(n))
  BY <1>6 DEF Laid
<1>8. es \in Seq(Entries) /\ Len(es) = 2 + Len(Kids(node)) /\ c + 2 \in 1 .. Len(es)
  <2>1. es \in Seq(Entries) /\ Len(es) = 2 + Len(Kids(node))
    BY <1>4, <1>7 DEF HasEntries
  <2>2. c + 2 \in 1 .. (2 + Len(Kids(node)))
    BY <1>1
  <2> QED BY <2>1, <2>2
<1>9. /\ DOMAIN disk' = DOMAIN disk /\ disk' = [y \in DOMAIN disk' |-> disk'[y]]
      /\ \A y \in DOMAIN disk : y # ino[node] /\ y # ino[kid] => disk'[y] = disk[y]
      /\ \E new : Numbered(new, es, c + 2, ino[kid]) /\ IsInode(disk'[ino[node]], "dir", links(node), 0, new)
      /\ IsInode(disk'[ino[kid]], tree[kid].kind, l, kid, es2)
  <2>1. disk = [y \in DOMAIN disk |-> disk[y]]
    BY DEF OnDisk
  <2> QED BY <1>2, <1>4, <1>5, <1>8, <2>1, NumberStored
<1>10. PICK new : Numbered(new, es, c + 2, ino[kid]) /\ IsInode(disk'[ino[node]], "dir", links(node), 0, new)
  BY <1>9
<1>11. HasEntries(new, ino, done2, node)'
  <2>2. /\ new \in Seq(Entries) /\ Len(new) = Len(es)
        /\ new[c + 2] = DirEntry(es[c + 2].name, ino[kid], es[c + 2].file_type)
        /\ \A j \in 1 .. Len(es) : j # c + 2 => new[j] = es[j]
    BY <1>10 DEF Numbered
  <2>3. es[c + 2] = DirEntry(kid, 0, tree[kid].kind)
    BY <1>4, <1>7 DEF HasEntries, KidEntry
  <2>4. new[c + 2] = DirEntry(kid, ino[kid], tree[kid].kind)
    BY <2>2, <2>3 DEF DirEntry
  <2>5. ASSUME NEW k \in 1 .. Len(Kids(node)) PROVE new[k + 2] = KidEntry(ino, done2, node, k)'
    <3>1. CASE k = c
      BY <1>6, <2>4, <3>1 DEF KidEntry
    <3>2. CASE k # c
      <4>1. Kids(node)[k] # kid
        BY <3>2 DEF TreeShape
      <4>2. k + 2 \in 1 .. Len(es) /\ k + 2 # c + 2
        BY <1>1, <1>8, <3>2
      <4>3. new[k + 2] = KidEntry(ino, done, node, k)
        BY <1>4, <1>7, <2>2, <4>2 DEF HasEntries
      <4> QED BY <1>6, <4>1, <4>3 DEF KidEntry
    <3> QED BY <3>1, <3>2
  <2>6. new[1] = es[1] /\ new[2] = es[2]
    <3>1. 1 \in 1 .. Len(es) /\ 2 \in 1 .. Len(es) /\ 1 # c + 2 /\ 2 # c + 2
      BY <1>1, <1>8
    <3> QED BY <2>2, <3>1
  <2>7. es[1] = DirEntry(Dot, ino[node], "dir") /\ es[2] = DirEntry(DotDot, ino[ParentOf(node)], "dir")
    BY <1>4 DEF HasEntries
  <2> QED BY <1>6, <1>7, <1>8, <2>2, <2>5, <2>6, <2>7 DEF HasEntries
<1>12. HasData(disk[ino[node]], ino, done2, node)'
  <2> PICK d : d = disk'[ino[node]]
    OBVIOUS
  <2>1. IsInode(d, "dir", links(node), 0, d.entries) /\ d.entries = new
    BY <1>10, EntriesIn
  <2>2. HasData(d, ino, done2, node)'
    BY <1>1, <1>6, <1>11, <2>1 DEF HasData
  <2> QED BY <2>2
<1>13. tree[kid].kind = "dir" => HasEntries(es2, ino, done2, kid)'
  <2> SUFFICES ASSUME tree[kid].kind = "dir" PROVE HasEntries(es2, ino, done2, kid)'
    OBVIOUS
  <2>1. HasEntries(es2, ino, done, kid)
    BY <1>5
  <2>2. \A k \in 1 .. Len(Kids(kid)) : KidEntry(ino, done2, kid, k)' = KidEntry(ino, done, kid, k)
    <3>1. \A k \in 1 .. Len(Kids(kid)) : Kids(kid)[k] # kid
      BY <1>1, KidIs
    <3> QED BY <1>6, <3>1 DEF KidEntry
  <2> QED BY <1>6, <1>7, <2>1, <2>2 DEF HasEntries
<1>14. HasData(disk[ino[kid]], ino, done2, kid)'
  <2> PICK d : d = disk'[ino[kid]]
    OBVIOUS
  <2>1. IsInode(d, tree[kid].kind, l, kid, d.entries) /\ d.entries = es2
    BY <1>9, EntriesIn
  <2>2. tree[kid].kind # "dir" => es2 = <<>>
    BY <1>5
  <2>3. HasData(d, ino, done2, kid)'
    BY <1>6, <1>13, <2>1, <2>2 DEF HasData
  <2> QED BY <2>3
<1> QED BY <1>9, <1>12, <1>14

\* The number is stored, and the entry is done.
LEMMA StoreInodeMirrors ==
    ASSUME NEW ino, NEW done, Going(ino, done), store_inode
    PROVE  \E done2 : Mirrors(ino, done2)'
<1>1. /\ at = "store" /\ at' = "fill" /\ UNCHANGED <<tree, given, dirs>> /\ get_inode(child)
      /\ Stores(Top.inode, Top.next + 2, child, child, Entry)
      /\ stack' = [stack EXCEPT ![1].next = @ + 1]
  BY DEF store_inode, Call, get_inode, Stores
<1>2. /\ Assigned(ino, done) /\ OnDisk(ino, done) /\ Calls(ino, done) /\ AtHand(ino, done)
      /\ at \in InTree /\ at \in HasInode /\ at \in InEntry /\ at' \notin InEntry /\ at' \in HasInode
      /\ at' \notin NotStarted /\ at' \in InTree
      /\ TreeShape /\ TreeInv /\ IndInv /\ [InodesNext]_inodeVars
      /\ at \notin NoDirData /\ at \notin NoChildData /\ at' \notin NoDirData /\ at' \notin NoChildData
  BY <1>1 DEF Going, Mirrors, InTree, HasInode, InEntry, NoChildData, NoDirData, NotStarted
<1>3. /\ Top = stack[1] /\ Entry = HereNext /\ Top.node = Here /\ Here \in DOMAIN ino /\ Here \notin done
      /\ stack[1].inode = ino[Here] /\ tree[Here].kind = "dir" /\ Here \in 1 .. Len(tree)
      /\ 1 \in 1 .. Len(stack) /\ Len(stack) \in Nat \ {0} /\ \A k \in 1 .. Len(stack) : FrameOK(ino, done, k)
  BY <1>2, AtTop, HereIs
<1>4. stack[1].next <= Len(Kids(Here)) /\ child = ino[HereNext]
  BY <1>2 DEF AtHand
<1>5. /\ stack[1].next \in 1 .. Len(Kids(Here)) /\ HereNext \in (Here + 1) .. Len(tree)
      /\ HereNext \in DOMAIN ino /\ HereNext \notin done /\ HereNext # Here
  BY <1>2, <1>4, EntryIs
<1> PICK node \in 1 .. Len(tree) : node = Here
  BY <1>3
<1> PICK kid : kid = HereNext
  OBVIOUS
<1> PICK c \in 1 .. Len(Kids(node)) : c = stack[1].next
  BY <1>5
<1> PICK done2 : done2 = done \cup {kid}
  OBVIOUS
<1> PICK W : W = {node, kid}
  OBVIOUS
<1>6. kid = Kids(node)[c] /\ Stores(ino[node], c + 2, ino[kid], ino[kid], kid)
  BY <1>1, <1>3, <1>4 DEF HereNext
<1>7. \A n : Kids(n)' = Kids(n) /\ Laid(n)' = Laid(n) /\ ~NoData(n) /\ ~(NoData(n)')
  BY <1>1, <1>2 DEF Kids, Laid, NoData
<1>8. /\ DOMAIN disk' = DOMAIN disk /\ disk' = [y \in DOMAIN disk' |-> disk'[y]]
      /\ \A y \in DOMAIN disk : y # ino[node] /\ y # ino[kid] => disk'[y] = disk[y]
      /\ HasData(disk[ino[node]], ino, done2, node)' /\ HasData(disk[ino[kid]], ino, done2, kid)'
  <2>1. Storing(ino, done, done2, node, c, kid)
    BY <1>3, <1>5, <1>6, <1>7 DEF Storing
  <2> QED BY <1>1, <1>2, <2>1, StoredData
<1>9. OnDisk(ino, done2)'
  <2>1. W \subseteq DOMAIN ino /\ done2 \subseteq DOMAIN ino
    BY <1>2, <1>3, <1>5 DEF Assigned
  <2>2. ino[node] \in DOMAIN disk /\ ino[kid] \in DOMAIN disk
    BY <1>2, <1>3, <1>5, <1>7 DEF OnDisk
  <2>3. \A n \in DOMAIN ino \ W : \A k \in 1 .. Len(Kids(n)) : Kids(n)[k] # kid
    <3>1. DOMAIN ino \subseteq 1 .. Len(tree)
      BY <1>2 DEF Assigned
    <3> QED BY <1>2, <1>6, <3>1, KidOf
  <2>4. bgs'[GroupOf(ino[kid])].inode_table
    <3>1. child \in given
      BY <1>2, <1>4, <1>5 DEF Assigned
    <3> QED BY <1>1, <1>2, <1>4, <3>1, TableQueued
  <2>5. Writes(ino, done, done2, W)
    BY <1>7, <1>8, <2>1, <2>2, <2>3, <2>4 DEF Writes
  <2> QED BY <1>1, <1>2, <2>5, SomeWritten
<1>10. Assigned(ino, done2)'
  <2>1. \A k \in 1 .. Len(Kids(kid)) : Kids(kid)[k] \in done
    BY <1>1, <1>2 DEF AtHand
  <2>2. Assigned(ino, done)'
    BY <1>1, <1>2, SameAssigned
  <2> QED BY <1>5, <1>7, <2>1, <2>2 DEF Assigned
<1>11. /\ Len(stack') = Len(stack) /\ \A k \in 2 .. Len(stack) : stack'[k] = stack[k]
       /\ stack'[1].node = stack[1].node /\ stack'[1].dir_inode = stack[1].dir_inode
       /\ stack'[1].inode = stack[1].inode /\ stack'[1].next = stack[1].next + 1
  BY <1>1, <1>2, NextEntry
<1>12. \A k \in 1 .. Len(stack') : FrameOK(ino, done2, k)'
  <2> SUFFICES ASSUME NEW k \in 1 .. Len(stack') PROVE FrameOK(ino, done2, k)'
    OBVIOUS
  <2>1. CASE k # 1
    <3>1. k \in 2 .. Len(stack) /\ stack'[k] = stack[k] /\ (k # Len(stack) => stack'[k + 1] = stack[k + 1])
      BY <1>3, <1>11, <2>1
    <3>2. FrameOK(ino, done, k) /\ Len(stack) \in Nat /\ Len(stack') \in Nat
      BY <1>3, <1>11, <3>1
    <3> QED BY <1>1, <1>2, <1>11, <3>1, <3>2, CallerStays
  <2>2. CASE k = 1
    <3>1. FrameOK(ino, done, 1)
      BY <1>3
    <3>2. IF k = Len(stack')
          THEN stack'[k].node = 1 /\ stack'[k].dir_inode = EXT4_ROOT_INO
          ELSE /\ stack'[k + 1].next <= Len(Kids(stack'[k + 1].node))
               /\ stack'[k].node = Kids(stack'[k + 1].node)[stack'[k + 1].next]
               /\ stack'[k].dir_inode = stack'[k + 1].inode
      <4>1. at \notin NotStarted
        BY <1>1 DEF NotStarted
      <4>2. CASE Len(stack) = 1
        BY <1>11, <2>2, <3>1, <4>1, <4>2 DEF FrameOK
      <4>3. CASE Len(stack) # 1
        <5> DEFINE M == Len(stack)
        <5>0. M \in Nat \ {0} /\ M # 1
          BY <1>3, <4>3
        <5> HIDE DEF M
        <5>1. 1 + 1 \in 2 .. M
          BY <5>0
        <5> USE DEF M
        <5>2. stack'[k + 1] = stack[1 + 1]
          BY <1>11, <2>2, <5>1
        <5> QED BY <1>11, <2>2, <3>1, <4>3, <5>2 DEF FrameOK
      <4> QED BY <4>2, <4>3
    <3>3. \A j \in 1 .. Len(Kids(node)) :
             /\ j < c => Kids(node)[j] \in done
             /\ j > c => Kids(node)[j] \notin DOMAIN ino
      BY <3>1 DEF FrameOK, Here
    <3>4. \A j \in 1 .. Len(Kids(node)) :
             /\ j < c + 1 => Kids(node)[j] \in done2
             /\ j > c => Kids(node)[j] \notin DOMAIN ino
             /\ j = c + 1 => Kids(node)[j] \notin DOMAIN ino
             /\ j > c + 1 => Kids(node)[j] \notin DOMAIN ino
      <4>1. \A j \in 1 .. Len(Kids(node)) : j < c + 1 => j < c \/ j = c
        OBVIOUS
      <4>2. \A j \in 1 .. Len(Kids(node)) : (j = c + 1 \/ j > c + 1) => j > c
        OBVIOUS
      <4> QED BY <1>6, <3>3, <4>1, <4>2
    <3>5. c + 1 \in 1 .. (Len(Kids(node)) + 1)
      <4>1. Len(Kids(node)) \in Nat
        BY <1>2 DEF TreeShape
      <4> QED BY <4>1
    <3>6. /\ stack'[k].node = node /\ stack'[k].next = c + 1 /\ stack'[k].inode = ino[node]
          /\ node \in DOMAIN ino /\ tree[node].kind = "dir"
      BY <1>3, <1>11, <2>2 DEF Here
    <3> QED BY <1>1, <1>2, <1>7, <3>2, <3>4, <3>5, <3>6 DEF FrameOK
  <2> QED BY <2>1, <2>2
<1>13. \A k \in 1 .. Len(stack) : stack'[k].node = stack[k].node
  BY <1>3, <1>11
<1>14. Waiting(ino, done2)'
  <2>1. \A n : IsOpen(n) <=> (\E k \in 1 .. Len(stack) : n = stack[k].node) \/ n = kid
    BY <1>1, <1>2 DEF IsOpen
  <2>2. \A n : IsOpen(n)' <=> \E k \in 1 .. Len(stack) : n = stack[k].node
    BY <1>1, <1>2, <1>11, <1>13 DEF IsOpen
  <2>3. \A k \in 1 .. Len(stack) : kid # stack[k].node
    <3>1. \A k \in 1 .. Len(stack) : stack[k].node \in Nat /\ (k = 1 \/ stack[k].node < node)
      BY <1>2, <1>3 DEF Calls, FrameOK, Here
    <3> QED BY <1>3, <1>5, <3>1 DEF Here
  <2> QED BY <1>2, <1>5, <2>1, <2>2, <2>3 DEF Calls, Waiting
<1>15. Calls(ino, done2)'
  BY <1>2, <1>11, <1>12, <1>13, <1>14 DEF Calls
<1>16. AtHand(ino, done2)'
  BY <1>1, <1>2 DEF AtHand, InTree, InEntry, NoChildData, NoDirData
<1> QED BY <1>9, <1>10, <1>15, <1>16 DEF Mirrors

\* The root gets its mode, and all is done.
LEMMA RootModeMirrors ==
    ASSUME NEW ino, NEW done, Going(ino, done), root_mode
    PROVE  \E done2 : Mirrors(ino, done2)'
<1>1. /\ at = "root_mode" /\ at' = "update" /\ UNCHANGED <<tree, given, dirs, stack, child>> /\ get_inode(child)
      /\ disk' = [disk EXCEPT ![child].mode = 1]
  BY DEF root_mode, Call, get_inode
<1>2. /\ Assigned(ino, done) /\ OnDisk(ino, done) /\ Calls(ino, done) /\ AtHand(ino, done)
      /\ TreeShape /\ TreeInv /\ IndInv /\ [InodesNext]_inodeVars
  BY DEF Going, Mirrors
<1>3. /\ at \notin InTree /\ at' \notin InTree /\ at \notin InEntry /\ at' \notin InEntry
      /\ at \notin NoDirData /\ at \notin NoChildData /\ at' \notin NoDirData /\ at' \notin NoChildData
  BY <1>1 DEF InTree, InEntry, NoChildData, NoDirData
<1>4. /\ Len(stack) = 0 /\ 1 \in DOMAIN ino /\ child = EXT4_ROOT_INO
      /\ \A k \in 1 .. Len(Kids(1)) : Kids(1)[k] \in done
  BY <1>1, <1>2, <1>3 DEF AtHand
<1>5. child = ino[1] /\ 1 \in 1 .. Len(tree) /\ tree[1].kind = "dir"
  BY <1>2, <1>4 DEF Assigned, TreeShape
<1>6. 1 \notin done
  BY <1>1, <1>2 DEF Calls, Waiting, IsOpen
<1>7. \A n : /\ Kids(n)' = Kids(n) /\ Laid(n)' = Laid(n) /\ Laid(n) = Len(Kids(n)) /\ ~NoData(n) /\ ~(NoData(n)')
             /\ links(n)' = links(n) /\ ParentOf(n)' = ParentOf(n)
  BY <1>1, <1>3, SameTree DEF Laid, NoData, ParentOf
<1> PICK x : x = ino[1]
  OBVIOUS
<1> PICK done2 : done2 = done \cup {1}
  OBVIOUS
<1> PICK W : W = {1}
  OBVIOUS
<1>8. x \in DOMAIN disk /\ HasData(disk[x], ino, done, 1)
  BY <1>2, <1>4, <1>7 DEF OnDisk
<1>9. PICK es : IsInode(disk[x], "dir", links(1), 0, es) /\ HasEntries(es, ino, done, 1)
  BY <1>5, <1>6, <1>8 DEF HasData
<1>10. /\ DOMAIN disk' = DOMAIN disk /\ disk' = [y \in DOMAIN disk' |-> disk'[y]]
       /\ \A y \in DOMAIN disk : y # x => disk'[y] = disk[y]
       /\ IsInode(disk'[x], "dir", links(1), 1, es)
  <2>1. disk = [y \in DOMAIN disk |-> disk[y]]
    BY <1>2 DEF OnDisk
  <2>2. disk' = [disk EXCEPT ![x].mode = 1]
    BY <1>1, <1>5
  <2> QED BY <1>8, <1>9, <2>1, <2>2, ModeStored
<1>11. HasData(disk[x], ino, done2, 1)'
  <2> PICK d : d = disk'[x]
    OBVIOUS
  <2>1. IsInode(d, "dir", links(1), 1, d.entries) /\ d.entries = es
    BY <1>10, EntriesIn
  <2>2. \A k \in 1 .. Len(Kids(1)) : Kids(1)[k] # 1
    BY <1>2, <1>5, KidIs
  <2>3. \A k \in 1 .. Len(Kids(1)) : KidEntry(ino, done2, 1, k)' = KidEntry(ino, done, 1, k)
    BY <1>1, <1>7, <2>2 DEF KidEntry
  <2>4. HasEntries(es, ino, done2, 1)'
    BY <1>7, <1>9, <2>3 DEF HasEntries
  <2>5. HasData(d, ino, done2, 1)'
    BY <1>1, <1>5, <1>7, <2>1, <2>4 DEF HasData
  <2> QED BY <2>5
<1>12. OnDisk(ino, done2)'
  <2>1. W \subseteq DOMAIN ino /\ done2 \subseteq DOMAIN ino
    BY <1>2, <1>4 DEF Assigned
  <2>2. \A n \in DOMAIN ino \ W : \A k \in 1 .. Len(Kids(n)) : Kids(n)[k] # 1
    <3>1. DOMAIN ino \subseteq 1 .. Len(tree)
      BY <1>2 DEF Assigned
    <3> QED BY <1>2, <3>1, KidIs
  <2>3. bgs'[GroupOf(ino[1])].inode_table
    <3>1. child \in given
      BY <1>2, <1>4, <1>5 DEF Assigned
    <3> QED BY <1>1, <1>2, <1>5, <3>1, TableQueued
  <2>4. {ino[n] : n \in W} = {x}
    OBVIOUS
  <2>5. Writes(ino, done, done2, W)
    <3>1. DOMAIN disk' = DOMAIN disk \cup {x}
      BY <1>8, <1>10
    <3>2. \A n \in W : HasData(disk[ino[n]], ino, done2, n)'
      BY <1>11
    <3>3. \A n \in DOMAIN ino \ W : n # 1
      OBVIOUS
    <3>4. \A n \in done2 : n \in done \/ bgs'[GroupOf(ino[n])].inode_table
      BY <2>3
    <3> QED BY <1>7, <1>10, <2>1, <2>2, <2>4, <3>1, <3>2, <3>3, <3>4 DEF Writes
  <2> QED BY <1>1, <1>2, <2>5, SomeWritten
<1>13. Assigned(ino, done2)'
  <2>1. Assigned(ino, done)'
    BY <1>1, <1>2, SameAssigned
  <2> QED BY <1>4, <1>7, <2>1 DEF Assigned
<1>14. Calls(ino, done2)'
  <2>1. \A n : IsOpen(n) <=> n = 1
    BY <1>1, <1>3, <1>4 DEF IsOpen
  <2>2. \A n : ~(IsOpen(n)')
    BY <1>1, <1>3, <1>4 DEF IsOpen
  <2>3. Waiting(ino, done2)'
    BY <1>2, <2>1, <2>2 DEF Calls, Waiting
  <2> QED BY <1>1, <1>4, <2>3 DEF Calls
<1>15. AtHand(ino, done2)'
  BY <1>1, <1>3, <1>4 DEF AtHand, InTree, InEntry, NoChildData, NoDirData
<1> QED BY <1>12, <1>13, <1>14, <1>15 DEF Mirrors

\* The counts are written, and the tree is built.
LEMMA UpdateMirrors ==
    ASSUME NEW ino, NEW done, Going(ino, done), update
    PROVE  Mirrors(ino, done)'
<1>1. /\ at = "update" /\ at' = "end" /\ UNCHANGED <<stack, disk, tree, given, dirs, child>>
  BY DEF update, Call, ext4_update_free
<1>2. /\ Assigned(ino, done) /\ AtHand(ino, done)
  BY DEF Going, Mirrors
<1>3. Assigned(ino, done)'
  BY <1>1, <1>2, SameAssigned
<1>4. AtHand(ino, done)'
  BY <1>1, <1>2 DEF AtHand, InTree, InEntry, NoChildData, NoDirData
<1> QED BY <1>1, <1>3, <1>4, QuietStep
    DEF HasInode, InEntry, NoChildData, NotStarted, InTree, NoData, NoDirData, Laid, Kids


-----------------------------------------------------------------------------
(* The invariant holds                                                     *)

\* The steps that end the program.
LEMMA EndMirrors ==
    ASSUME MirrorInv, no_inode_left \/ call_fails \/ (add_child_entry /\ at' = "end")
    PROVE  MirrorInv'
<1>1. at' = "end" /\ stage' = "exit" /\ UNCHANGED tree
  BY DEF no_inode_left, call_fails, add_child_entry, allocate_inode_fails, give_up
<1> QED BY <1>1 DEF MirrorInv, Copying, Built, InTree

LEMMA ReserveMirrors ==
    ASSUME MirrorInv, reserve
    PROVE  MirrorInv'
<1>1. /\ at = "reserve" /\ at' = (IF stage' = "exit" THEN "end" ELSE "reserved")
      /\ UNCHANGED <<disk, dirs, tree>> /\ stage' \in {"build", "exit"}
      /\ stage' = "build" => given' = 1 .. FirstInodes
  BY DEF reserve, reserve_first_inodes
<1> QED BY <1>1 DEF MirrorInv, Copying, Built, InTree

\* One step of the copying.
LEMMA CopyStep ==
    ASSUME NEW ino, NEW done, Going(ino, done), Next, at' # "end" \/ update,
           at \in InTree \cup {"root_mode", "update"}
    PROVE  /\ \E ino2, done2 : Mirrors(ino2, done2)'
           /\ at' \notin {"reserve", "reserved"} /\ tree' = tree
           /\ at' = "end" => stage' = "updated"
<1>1. CASE scan_directory \/ count_dentries \/ count_directory \/ end_directory
  <2>1. Mirrors(ino, done)'
    BY <1>1, ScanMirrors, CountDentriesMirrors, CountDirectoryMirrors, EndDirectoryMirrors
  <2> QED BY <1>1, <2>1 DEF scan_directory, count_dentries, count_directory, end_directory, Call
<1>2. CASE get_dir_inode \/ get_child \/ child_data \/ dir_data
  <2>1. Mirrors(ino, done)'
    BY <1>2, GetInodeMirrors, ChildDataMirrors, DirDataMirrors
  <2> QED BY <1>2, <2>1 DEF get_dir_inode, get_child, child_data, dir_data, Call
<1>3. CASE fill_directory \/ return
  <2>1. Mirrors(ino, done)'
    BY <1>3, FillDirectoryMirrors, ReturnMirrors
  <2> QED BY <1>3, <2>1 DEF fill_directory, return, Call
<1>4. CASE add_child_entry /\ at' # "end"
  <2>1. Mirrors(ino, done)'
    BY <1>4, AddChildEntryMirrors
  <2> QED BY <1>4, <2>1 DEF add_child_entry
<1>5. CASE root_inode \/ new_dir_inode \/ fill_file
  <2>1. \E ino2 : Mirrors(ino2, done)'
    BY <1>5, RootInodeMirrors, NewDirInodeMirrors, FillFileMirrors
  <2> QED BY <1>5, <2>1 DEF root_inode, new_dir_inode, fill_file, Call
<1>6. CASE store_inode \/ root_mode
  <2>1. \E done2 : Mirrors(ino, done2)'
    BY <1>6, StoreInodeMirrors, RootModeMirrors
  <2> QED BY <1>6, <2>1 DEF store_inode, root_mode, Call
<1>7. CASE update
  <2>1. Mirrors(ino, done)'
    BY <1>7, UpdateMirrors
  <2> QED BY <1>7, <2>1 DEF update, Call, ext4_update_free
<1>8. ~reserve /\ ~create_reserved
  BY DEF reserve, create_reserved, Call, InTree
<1>9. at' # "end" => ~no_inode_left /\ ~call_fails
  BY DEF no_inode_left, call_fails
<1> QED BY <1>1, <1>2, <1>3, <1>4, <1>5, <1>6, <1>7, <1>8, <1>9 DEF Next

LEMMA MirrorStep ==
    ASSUME IndInv, TreeInv, MirrorInv, [Next]_vars
    PROVE  MirrorInv'
<1>1. TreeShape /\ [InodesNext]_inodeVars
  BY Shape, StepGood DEF MirrorInv, Good
<1>2. CASE UNCHANGED vars
  <2>1. UNCHANGED <<tree, at, disk, dirs, given, stage, stack, child, names, i, bgs>>
    BY <1>2 DEF vars, treeVars, inodeVars, directoryVars
  <2>2. Copying' <=> Copying
    BY <2>1 DEF Copying, Built
  <2>3. \A ino, done : Mirrors(ino, done)' <=> Mirrors(ino, done)
    BY <2>1 DEF Mirrors, Assigned, OnDisk, Calls, AtHand, FrameOK, Waiting, HasData, HasEntries, KidEntry,
                IsOpen, NoData, IsCounted, Laid, ParentOf, Kids, links, Subdirs, Here, HereNext
  <2> QED BY <2>1, <2>2, <2>3 DEF MirrorInv
<1>3. CASE Next /\ at' = "end" /\ ~update /\ ~reserve
  <2>1. no_inode_left \/ call_fails \/ (add_child_entry /\ at' = "end")
    BY <1>3 DEF Next, create_reserved, scan_directory, count_dentries, root_inode, new_dir_inode, count_directory,
       get_dir_inode, dir_data, end_directory, fill_directory, fill_file, get_child, child_data, store_inode,
       return, root_mode, Call
  <2> QED BY <2>1, EndMirrors
<1>4. CASE reserve
  BY <1>4, ReserveMirrors
<1>5. CASE create_reserved
  <2>1. at = "reserved" /\ at' = "scan" /\ tree' = tree
    BY <1>5 DEF create_reserved, Call
  <2>2. \E ino, done : Mirrors(ino, done)'
    BY <1>1, <1>5, <2>1, CreateReservedMirrors DEF MirrorInv
  <2> QED BY <2>1, <2>2 DEF MirrorInv
<1>6. CASE Next /\ (at' # "end" \/ update) /\ ~reserve /\ ~create_reserved
  <2>1. at \in InTree \cup {"root_mode", "update"}
    <3>1. CASE at = "reserve"
      BY <1>6, <3>1 DEF Next, create_reserved, scan_directory, count_dentries, root_inode, new_dir_inode,
         count_directory, get_dir_inode, dir_data, add_child_entry, end_directory, fill_directory, fill_file,
         get_child, child_data, store_inode, return, root_mode, update, no_inode_left, call_fails, Call
    <3>2. CASE at = "reserved"
      BY <1>6, <3>2 DEF Next, create_reserved, scan_directory, count_dentries, root_inode, new_dir_inode,
         count_directory, get_dir_inode, dir_data, add_child_entry, end_directory, fill_directory, fill_file,
         get_child, child_data, store_inode, return, root_mode, update, no_inode_left, call_fails, Call
    <3>3. CASE at = "end"
      BY <1>6, <3>3 DEF Next, create_reserved, scan_directory, count_dentries, root_inode, new_dir_inode,
         count_directory, get_dir_inode, dir_data, add_child_entry, end_directory, fill_directory, fill_file,
         get_child, child_data, store_inode, return, root_mode, update, no_inode_left, call_fails, Call
    <3> QED BY <3>1, <3>2, <3>3 DEF TreeInv
  <2>2. PICK ino, done : Mirrors(ino, done)
    BY <2>1 DEF MirrorInv, Copying
  <2>3. Going(ino, done)
    BY <1>1, <2>2 DEF Going
  <2>4. /\ \E ino2, done2 : Mirrors(ino2, done2)'
        /\ at' \notin {"reserve", "reserved"} /\ tree' = tree
        /\ at' = "end" => stage' = "updated"
    BY <1>6, <2>1, <2>3, CopyStep
  <2> QED BY <2>4 DEF MirrorInv
<1> QED BY <1>2, <1>3, <1>4, <1>5, <1>6

LEMMA MirrorInit ==
    ASSUME Init
    PROVE  MirrorInv
BY DEF Init, MirrorInv, InodesInit, Copying, Built, InTree

\* At every call the inodes of the nodes reached so far, what lies on the disk and
\* the frames of the recursion fit together (make_ext4fs.c:73-190).
THEOREM CopyingMirrors == Spec => []MirrorInv
<1>1. Init => InodesInit /\ IndInv /\ TreeInv /\ MirrorInv
  BY TreeInit, InitInv, MirrorInit
<1>2. IndInv /\ TreeInv /\ MirrorInv /\ [Next]_vars => IndInv' /\ TreeInv' /\ MirrorInv'
  BY StepGood, StepInv, MirrorStep DEF Good
<1> QED BY <1>1, <1>2, PTL DEF Spec

-----------------------------------------------------------------------------
(* A tree that was built                                                   *)

\* Every node is done.
DirEntriesOf(ino, n) ==
    <<DirEntry(Dot, ino[n], "dir"), DirEntry(DotDot, ino[ParentOf(n)], "dir")>>
    \o [k \in DOMAIN Kids(n) |-> DirEntry(Kids(n)[k], ino[Kids(n)[k]], tree[Kids(n)[k]].kind)]

IsCopy(d, ino, n) ==
    /\ d.type = tree[n].kind /\ d.mode = n /\ d.links = IF tree[n].kind = "dir" THEN links(n) ELSE 1
    /\ d.entries = IF tree[n].kind = "dir" THEN DirEntriesOf(ino, n) ELSE <<>>

Complete(ino) ==
    /\ DOMAIN ino = 1 .. Len(tree)
    /\ \A n \in 1 .. Len(tree) :
          /\ ino[n] \in Nat /\ IF n = 1 THEN ino[n] = EXT4_ROOT_INO ELSE ino[n] > FirstInodes
          /\ \A m \in 1 .. Len(tree) : ino[m] = ino[n] => m = n
          /\ bgs[GroupOf(ino[n])].inode_table
          /\ IsCopy(disk[ino[n]], ino, n)
    /\ given = (1 .. FirstInodes) \cup {ino[n] : n \in 1 .. Len(tree)}
    /\ dirs = {ino[n] : n \in {m \in 1 .. Len(tree) : tree[m].kind = "dir"}}
    /\ DOMAIN disk = ReservedFiles \cup {ino[n] : n \in 1 .. Len(tree)}
    /\ \A x \in ReservedFiles : disk[x].entries = <<>>

LEMMA AllDone ==
    ASSUME TreeShape, NEW done, 1 \in done,
           \A n \in done : \A k \in 1 .. Len(Kids(n)) : Kids(n)[k] \in done
    PROVE  1 .. Len(tree) \subseteq done
<1> DEFINE S == {n \in Nat : \A m \in 1 .. Len(tree) : m <= n => m \in done}
<1>1. 0 \in S
  OBVIOUS
<1>2. ASSUME NEW n \in Nat, n \in S PROVE n + 1 \in S
  <2> SUFFICES ASSUME NEW m \in 1 .. Len(tree), m <= n + 1 PROVE m \in done
    OBVIOUS
  <2>1. CASE m <= n \/ m = 1
    BY <1>2, <2>1
  <2>2. CASE m = n + 1 /\ m # 1
    <3>1. tree[m].parent \in 1 .. (m - 1) /\ m \in 2 .. Len(tree)
      BY <2>2 DEF TreeShape
    <3>2. tree[m].parent \in 1 .. Len(tree) /\ tree[m].parent <= n
      BY <2>2, <3>1
    <3>3. tree[m].parent \in done
      BY <1>2, <3>2
    <3>4. PICK k \in 1 .. Len(Kids(tree[m].parent)) : Kids(tree[m].parent)[k] = m
      BY <3>1 DEF TreeShape
    <3> QED BY <3>3, <3>4
  <2> QED BY <2>1, <2>2
<1> HIDE DEF S
<1>3. \A n \in Nat : n \in S
  BY <1>1, <1>2, SetInduction
<1>4. Len(tree) \in Nat
  BY DEF TreeShape
<1> QED BY <1>3, <1>4 DEF S

\* "." and "..", and the entries behind them.
LEMMA EntriesAre ==
    ASSUME TreeShape, NEW ino, NEW done, NEW n \in 1 .. Len(tree), NEW es,
           HasEntries(es, ino, done, n), Laid(n) = Len(Kids(n)),
           \A k \in 1 .. Len(Kids(n)) : Kids(n)[k] \in done
    PROVE  es = DirEntriesOf(ino, n)
<1> DEFINE e1 == DirEntry(Dot, ino[n], "dir")
           e2 == DirEntry(DotDot, ino[ParentOf(n)], "dir")
           K  == Len(Kids(n))
           kids == [k \in DOMAIN Kids(n) |-> DirEntry(Kids(n)[k], ino[Kids(n)[k]], tree[Kids(n)[k]].kind)]
<1>1. K \in Nat /\ DOMAIN Kids(n) = 1 .. K
  BY DEF TreeShape
<1>2. /\ es \in Seq(Entries) /\ Len(es) = 2 + K /\ es[1] = e1 /\ es[2] = e2
      /\ \A k \in 1 .. K : es[k + 2] = KidEntry(ino, done, n, k)
  BY DEF HasEntries
<1>3. \A k \in 1 .. K : es[k + 2] = kids[k]
  BY <1>1, <1>2 DEF KidEntry
<1>4. kids \in Seq(Entries) /\ Len(kids) = K
  <2>1. ASSUME NEW k \in 1 .. K PROVE kids[k] \in Entries
    <3>1. k + 2 \in 1 .. Len(es)
      BY <1>1, <1>2
    <3> QED BY <1>2, <1>3, <3>1, ElementOfSeq
  <2>2. kids \in [1 .. K -> Entries]
    BY <1>1, <2>1
  <2> HIDE DEF kids
  <2> QED BY <1>1, <2>2, LenProperties, SeqDef
<1>5. <<e1, e2>> \in Seq(Entries) /\ Len(<<e1, e2>>) = 2
  <2>1. 1 \in 1 .. Len(es) /\ 2 \in 1 .. Len(es)
    BY <1>1, <1>2
  <2>2. e1 \in Entries /\ e2 \in Entries
    BY <1>2, <2>1, ElementOfSeq
  <2> HIDE DEF e1, e2
  <2> QED BY <2>2
<1> HIDE DEF e1, e2, kids, K
<1> DEFINE all == <<e1, e2>> \o kids
<1>6. /\ all \in Seq(Entries) /\ Len(all) = 2 + K
      /\ \A k \in 1 .. (2 + K) : all[k] = IF k <= 2 THEN <<e1, e2>>[k] ELSE kids[k - 2]
  BY <1>1, <1>4, <1>5, ConcatProperties
<1>7. \A k \in 1 .. (2 + K) : all[k] = es[k]
  <2> SUFFICES ASSUME NEW k \in 1 .. (2 + K) PROVE all[k] = es[k]
    OBVIOUS
  <2>1. CASE k <= 2
    <3>1. k = 1 \/ k = 2
      BY <1>1, <2>1
    <3> QED BY <1>2, <1>6, <2>1, <3>1
  <2>2. CASE ~(k <= 2)
    <3>1. k - 2 \in 1 .. K /\ (k - 2) + 2 = k
      BY <1>1, <2>2
    <3> QED BY <1>3, <1>6, <2>2, <3>1
  <2> QED BY <2>1, <2>2
<1>8. all = es
  <2> HIDE DEF all
  <2> QED BY <1>2, <1>6, <1>7, SeqEqual
<1> QED BY <1>8 DEF DirEntriesOf, e1, e2, kids

LEMMA WhenBuilt ==
    ASSUME TreeInv, MirrorInv, Built
    PROVE  TreeShape /\ \E ino : Complete(ino)
<1>1. TreeShape
  BY Shape DEF MirrorInv
<1>2. PICK ino, done : Mirrors(ino, done)
  BY DEF MirrorInv, Copying
<1>3. at \notin InTree \cup {"root_mode"} /\ at \notin InEntry /\ at \notin NoDirData /\ at \notin NoChildData
  BY DEF TreeInv, Built, InTree, InEntry, NoChildData, NoDirData
<1>4. Len(stack) = 0 /\ 1 \in DOMAIN ino
  BY <1>2, <1>3 DEF Mirrors, AtHand
<1>5. \A n : ~IsOpen(n) /\ ~NoData(n) /\ Laid(n) = Len(Kids(n))
  BY <1>3, <1>4 DEF IsOpen, NoData, Laid, InTree
<1>6. \A n \in DOMAIN ino : n \in done
  BY <1>2, <1>5 DEF Mirrors, Calls, Waiting
<1>7. 1 .. Len(tree) \subseteq done
  BY <1>1, <1>2, <1>4, <1>6, AllDone DEF Mirrors, Assigned
<1>8. DOMAIN ino = 1 .. Len(tree)
  BY <1>2, <1>7 DEF Mirrors, Assigned
<1>9. \A m \in 1 .. Len(tree) : IsCounted(m) <=> tree[m].kind = "dir"
  BY <1>3 DEF IsCounted, InTree
<1>10. dirs = {ino[n] : n \in {m \in 1 .. Len(tree) : tree[m].kind = "dir"}}
  BY <1>2, <1>8, <1>9 DEF Mirrors, Assigned
<1>11. ASSUME NEW n \in 1 .. Len(tree) PROVE IsCopy(disk[ino[n]], ino, n)
  <2>1. HasData(disk[ino[n]], ino, done, n)
    BY <1>2, <1>5, <1>8 DEF Mirrors, OnDisk
  <2> PICK d : d = disk[ino[n]]
    OBVIOUS
  <2>2. /\ d.type = tree[n].kind /\ d.mode = n /\ d.links = IF tree[n].kind = "dir" THEN links(n) ELSE 1
        /\ IF tree[n].kind = "dir" THEN HasEntries(d.entries, ino, done, n) ELSE d.entries = <<>>
    BY <1>7, <2>1 DEF HasData, IsInode
  <2>3. \A k \in 1 .. Len(Kids(n)) : Kids(n)[k] \in done
    BY <1>2, <1>7 DEF Mirrors, Assigned
  <2>4. tree[n].kind = "dir" => d.entries = DirEntriesOf(ino, n)
    BY <1>1, <1>5, <2>2, <2>3, EntriesAre
  <2> QED BY <2>2, <2>4 DEF IsCopy
<1>12. DOMAIN disk = ReservedFiles \cup {ino[n] : n \in 1 .. Len(tree)}
  BY <1>2, <1>5, <1>8 DEF Mirrors, OnDisk
<1>13. \A n \in 1 .. Len(tree) : bgs[GroupOf(ino[n])].inode_table
  BY <1>2, <1>7 DEF Mirrors, OnDisk
<1>14. Assigned(ino, done)
  BY <1>2 DEF Mirrors
<1>15. \A x \in ReservedFiles : disk[x].entries = <<>>
  BY <1>2 DEF Mirrors, OnDisk, FileInode
<1>16. Complete(ino)
  BY <1>8, <1>10, <1>11, <1>12, <1>13, <1>14, <1>15 DEF Complete, Assigned
<1> QED BY <1>1, <1>16

\* The entry with a name.
Named(es, n) == CHOOSE e \in es : e.name = n

\* An equation that the inodes of the nodes solve, and InodeOf is a solution.
ByName(f) ==
    f = [n \in DOMAIN tree |->
            IF n = 1 THEN EXT4_ROOT_INO
            ELSE Named(EntriesOf(f[tree[n].parent]), n).inode]

LEMMA InodeOfIsChosen == InodeOf = CHOOSE f : ByName(f)
BY Zenon DEF InodeOf, ByName, Named


\* The entries of a directory of the copy, one by one.
LEMMA DirEntriesAre ==
    ASSUME TreeShape, NEW ino, NEW n \in 1 .. Len(tree)
    PROVE  /\ Len(Kids(n)) \in Nat /\ DOMAIN DirEntriesOf(ino, n) = 1 .. (2 + Len(Kids(n)))
           /\ DirEntriesOf(ino, n)[1] = DirEntry(Dot, ino[n], "dir")
           /\ DirEntriesOf(ino, n)[2] = DirEntry(DotDot, ino[ParentOf(n)], "dir")
           /\ \A k \in 1 .. Len(Kids(n)) :
                 DirEntriesOf(ino, n)[k + 2] = DirEntry(Kids(n)[k], ino[Kids(n)[k]], tree[Kids(n)[k]].kind)
<1> DEFINE e1 == DirEntry(Dot, ino[n], "dir")
           e2 == DirEntry(DotDot, ino[ParentOf(n)], "dir")
           K  == Len(Kids(n))
           kids == [k \in DOMAIN Kids(n) |-> DirEntry(Kids(n)[k], ino[Kids(n)[k]], tree[Kids(n)[k]].kind)]
           E == {e1, e2} \cup {kids[k] : k \in 1 .. K}
           all == <<e1, e2>> \o kids
<1>1. K \in Nat /\ DOMAIN Kids(n) = 1 .. K
  BY DEF TreeShape
<1>2. DirEntriesOf(ino, n) = all
  BY DEF DirEntriesOf
<1>3. \A k \in 1 .. K : kids[k] = DirEntry(Kids(n)[k], ino[Kids(n)[k]], tree[Kids(n)[k]].kind)
  BY <1>1
<1>4. kids \in [1 .. K -> E]
  BY <1>1
<1> HIDE DEF kids
<1>5. kids \in Seq(E) /\ Len(kids) = K
  <2> HIDE DEF E, e1, e2, K
  <2> QED BY <1>1, <1>4, LenProperties, SeqDef
<1>6. <<e1, e2>> \in Seq(E) /\ Len(<<e1, e2>>) = 2 /\ <<e1, e2>>[1] = e1 /\ <<e1, e2>>[2] = e2
  <2>1. e1 \in E /\ e2 \in E
    OBVIOUS
  <2> HIDE DEF E, e1, e2
  <2> QED BY <2>1
<1> HIDE DEF E, e1, e2, K
<1>7. /\ all \in Seq(E) /\ Len(all) = 2 + K
      /\ \A k \in 1 .. (2 + K) : all[k] = IF k <= 2 THEN <<e1, e2>>[k] ELSE kids[k - 2]
  BY <1>1, <1>5, <1>6, ConcatProperties
<1>8. DOMAIN all = 1 .. (2 + K)
  BY <1>7, LenProperties
<1>9. all[1] = e1 /\ all[2] = e2
  <2>1. 1 \in 1 .. (2 + K) /\ 2 \in 1 .. (2 + K)
    BY <1>1
  <2> QED BY <1>6, <1>7, <2>1
<1>10. ASSUME NEW k \in 1 .. K PROVE all[k + 2] = kids[k]
  <2>1. k + 2 \in 1 .. (2 + K) /\ ~(k + 2 <= 2) /\ (k + 2) - 2 = k
    BY <1>1
  <2> QED BY <1>7, <2>1
<1> HIDE DEF all
<1> QED BY <1>1, <1>2, <1>3, <1>8, <1>9, <1>10 DEF K, e1, e2

LEMMA NameOfEntry ==
    \A name, inode, type :
        /\ DirEntry(name, inode, type).name = name /\ DirEntry(name, inode, type).inode = inode
        /\ DirEntry(name, inode, type).file_type = type
BY DEF DirEntry

\* The name of a node is in its parent's directory, with its inode, and only once.
LEMMA NamedOnce ==
    ASSUME TreeShape, NEW ino, Complete(ino), NEW n \in 2 .. Len(tree)
    PROVE  Named(EntriesOf(ino[tree[n].parent]), n).inode = ino[n]
<1> PICK p : p = tree[n].parent
  OBVIOUS
<1>1. p \in 1 .. Len(tree) /\ tree[p].kind = "dir" /\ \E k \in 1 .. Len(Kids(p)) : Kids(p)[k] = n
  BY DEF TreeShape
<1> PICK es : es = disk[ino[p]].entries
  OBVIOUS
<1>2. es = DirEntriesOf(ino, p)
  <2>1. IsCopy(disk[ino[p]], ino, p)
    BY <1>1 DEF Complete
  <2> QED BY <1>1, <2>1 DEF IsCopy
<1>3. /\ Len(Kids(p)) \in Nat /\ DOMAIN es = 1 .. (2 + Len(Kids(p)))
      /\ es[1].name = Dot /\ es[2].name = DotDot
      /\ \A k \in 1 .. Len(Kids(p)) : es[k + 2].name = Kids(p)[k] /\ es[k + 2].inode = ino[Kids(p)[k]]
  <2> PICK D : D = DirEntriesOf(ino, p)
    OBVIOUS
  <2>1. /\ Len(Kids(p)) \in Nat /\ DOMAIN D = 1 .. (2 + Len(Kids(p)))
        /\ D[1] = DirEntry(Dot, ino[p], "dir") /\ D[2] = DirEntry(DotDot, ino[ParentOf(p)], "dir")
        /\ \A k \in 1 .. Len(Kids(p)) : D[k + 2] = DirEntry(Kids(p)[k], ino[Kids(p)[k]], tree[Kids(p)[k]].kind)
    BY <1>1, DirEntriesAre
  <2>2. es = D
    BY <1>2
  <2> QED BY <2>1, <2>2, NameOfEntry
<1> DEFINE Es == {es[k] : k \in DOMAIN es}
<1>4. EntriesOf(ino[p]) = Es
  BY DEF EntriesOf
<1>5. \E e \in Es : e.name = n
  <2>1. PICK k \in 1 .. Len(Kids(p)) : Kids(p)[k] = n
    BY <1>1
  <2>2. k + 2 \in DOMAIN es
    BY <1>3, <2>1
  <2>3. es[k + 2] \in Es
    BY <2>2
  <2>4. es[k + 2].name = n
    BY <1>3, <2>1
  <2> HIDE DEF Es
  <2> QED BY <2>3, <2>4
<1>6. ASSUME NEW e \in Es, e.name = n PROVE e.inode = ino[n]
  <2>1. PICK k \in 1 .. (2 + Len(Kids(p))) : e = es[k]
    BY <1>3
  <2>2. k # 1 /\ k # 2
    BY <1>3, <1>6, <2>1 DEF Dot, DotDot
  <2>3. k - 2 \in 1 .. Len(Kids(p)) /\ (k - 2) + 2 = k
    BY <1>3, <2>2
  <2>4. es[k].name = Kids(p)[k - 2] /\ es[k].inode = ino[Kids(p)[k - 2]]
    BY <1>3, <2>3
  <2> QED BY <1>6, <2>1, <2>4
<1> HIDE DEF Es
<1>7. Named(Es, n) \in Es /\ Named(Es, n).name = n
  BY <1>5 DEF Named
<1> QED BY <1>4, <1>6, <1>7

LEMMA InodeOfIs ==
    ASSUME TreeShape, NEW ino, Complete(ino)
    PROVE  DOMAIN InodeOf = 1 .. Len(tree) /\ \A n \in 1 .. Len(tree) : InodeOf[n] = ino[n]
<1> DEFINE Start(f, n) == IF n = 1 THEN EXT4_ROOT_INO
                          ELSE Named(EntriesOf(f[tree[n].parent]), n).inode
<1>0. DOMAIN tree = 1 .. Len(tree) /\ \A n \in 2 .. Len(tree) : tree[n].parent \in 1 .. (n - 1)
  BY DEF TreeShape
<1>1. \E f : ByName(f)
  <2> PICK f : f = [n \in 1 .. Len(tree) |-> ino[n]]
    OBVIOUS
  <2>1. ASSUME NEW n \in 1 .. Len(tree) PROVE f[n] = Start(f, n)
    <3>1. CASE n = 1
      BY <3>1 DEF Complete
    <3>2. CASE n # 1
      <4>1. n \in 2 .. Len(tree)
        BY <3>2
      <4>2. tree[n].parent \in 1 .. Len(tree)
        BY <1>0, <4>1
      <4>3. f[tree[n].parent] = ino[tree[n].parent] /\ f[n] = ino[n]
        BY <4>2
      <4> QED BY <3>2, <4>1, <4>3, NamedOnce
    <3> QED BY <3>1, <3>2
  <2>2. ByName(f)
    BY <1>0, <2>1 DEF ByName
  <2> QED BY <2>2
<1>2. ByName(InodeOf)
  BY <1>1, InodeOfIsChosen
<1> PICK g : g = InodeOf
  OBVIOUS
<1>3. DOMAIN g = 1 .. Len(tree) /\ \A n \in 1 .. Len(tree) : g[n] = Start(g, n)
  BY <1>0, <1>2 DEF ByName
<1> DEFINE S == {n \in Nat : \A m \in 1 .. Len(tree) : m <= n => g[m] = ino[m]}
<1>4. 0 \in S
  OBVIOUS
<1>5. ASSUME NEW n \in Nat, n \in S PROVE n + 1 \in S
  <2> SUFFICES ASSUME NEW m \in 1 .. Len(tree), m <= n + 1 PROVE g[m] = ino[m]
    OBVIOUS
  <2>1. CASE m <= n
    BY <1>5, <2>1
  <2>2. CASE m = 1
    BY <1>3, <2>2 DEF Complete
  <2>3. CASE m = n + 1 /\ m # 1
    <3>1. tree[m].parent \in 1 .. (m - 1) /\ m \in 2 .. Len(tree)
      BY <1>0, <2>3
    <3>2. tree[m].parent \in 1 .. Len(tree) /\ tree[m].parent <= n
      BY <2>3, <3>1
    <3>3. g[tree[m].parent] = ino[tree[m].parent]
      BY <1>5, <3>2
    <3>4. g[m] = Named(EntriesOf(ino[tree[m].parent]), m).inode
      BY <1>3, <2>3, <3>3
    <3> QED BY <3>1, <3>4, NamedOnce
  <2> QED BY <2>1, <2>2, <2>3
<1> HIDE DEF S
<1>6. \A n \in Nat : n \in S
  BY <1>4, <1>5, SetInduction
<1>7. Len(tree) \in Nat
  BY DEF TreeShape
<1>8. \A n \in 1 .. Len(tree) : g[n] = ino[n]
  BY <1>6, <1>7 DEF S
<1> QED BY <1>3, <1>8


-----------------------------------------------------------------------------
(* What it is to be a copy                                                 *)

\* What TreeMirrored says, of any numbers in place of InodeOf.
MirroredBy(f) ==
    \A n \in DOMAIN tree :
        LET d == disk[f[n]] IN
        /\ d.type = tree[n].kind /\ d.mode = n /\ bgs[GroupOf(f[n])].inode_table
        /\ tree[n].kind = "dir" =>
              d.entries = <<DirEntry(Dot, f[n], "dir"),
                            DirEntry(DotDot, f[IF n = 1 THEN 1 ELSE tree[n].parent], "dir")>>
                          \o [k \in DOMAIN Kids(n) |->
                                 DirEntry(Kids(n)[k], f[Kids(n)[k]], tree[Kids(n)[k]].kind)]

LEMMA CompleteMirrors ==
    ASSUME TreeShape, NEW ino, Complete(ino), NEW f, \A n \in 1 .. Len(tree) : f[n] = ino[n]
    PROVE  MirroredBy(f)
<1>1. DOMAIN tree = 1 .. Len(tree) /\ Len(tree) \in Nat \ {0}
  BY DEF TreeShape
<1>2. ASSUME NEW n \in 1 .. Len(tree)
      PROVE  /\ disk[f[n]].type = tree[n].kind /\ disk[f[n]].mode = n
             /\ bgs[GroupOf(f[n])].inode_table
             /\ tree[n].kind = "dir" => disk[f[n]].entries = DirEntriesOf(f, n)
  <2>1. f[n] = ino[n] /\ bgs[GroupOf(ino[n])].inode_table /\ IsCopy(disk[ino[n]], ino, n)
    BY DEF Complete
  <2>2. DirEntriesOf(f, n) = DirEntriesOf(ino, n)
    <3>1. ParentOf(n) \in 1 .. Len(tree)
      <4>1. CASE n = 1
        BY <1>1, <4>1 DEF ParentOf
      <4>2. CASE n # 1
        <5>1. tree[n].parent \in 1 .. (n - 1)
          BY <4>2 DEF TreeShape
        <5> QED BY <1>1, <4>2, <5>1 DEF ParentOf
      <4> QED BY <4>1, <4>2
    <3>2. \A k \in DOMAIN Kids(n) : Kids(n)[k] \in 1 .. Len(tree)
      <4>1. \A k \in DOMAIN Kids(n) : Kids(n)[k] \in (n + 1) .. Len(tree)
        BY DEF TreeShape
      <4> QED BY <4>1
    <3>3. [k \in DOMAIN Kids(n) |-> DirEntry(Kids(n)[k], f[Kids(n)[k]], tree[Kids(n)[k]].kind)]
          = [k \in DOMAIN Kids(n) |-> DirEntry(Kids(n)[k], ino[Kids(n)[k]], tree[Kids(n)[k]].kind)]
      BY <3>2
    <3>4. f[n] = ino[n] /\ f[ParentOf(n)] = ino[ParentOf(n)]
      BY <3>1
    <3> QED BY <3>3, <3>4 DEF DirEntriesOf
  <2> QED BY <2>1, <2>2 DEF IsCopy
<1> QED BY <1>1, <1>2, Zenon DEF MirroredBy, DirEntriesOf, ParentOf

\* What NoOrphans says.
NoneLost(f) ==
    /\ given = (1 .. FirstInodes) \cup {f[n] : n \in DOMAIN tree}
    /\ Cardinality({f[n] : n \in DOMAIN tree}) = Len(tree)
    /\ dirs = {f[n] : n \in {m \in DOMAIN tree : tree[m].kind = "dir"}}

LEMMA CompleteLosesNone ==
    ASSUME TreeShape, NEW ino, Complete(ino), NEW f, DOMAIN f = 1 .. Len(tree),
           \A n \in 1 .. Len(tree) : f[n] = ino[n]
    PROVE  NoneLost(f)
<1>1. DOMAIN tree = 1 .. Len(tree) /\ Len(tree) \in Nat
  BY DEF TreeShape
<1>2. {f[n] : n \in DOMAIN tree} = {ino[n] : n \in 1 .. Len(tree)}
  BY <1>1
<1>3. {f[n] : n \in {m \in DOMAIN tree : tree[m].kind = "dir"}}
      = {ino[n] : n \in {m \in 1 .. Len(tree) : tree[m].kind = "dir"}}
  BY <1>1
<1> DEFINE All == {f[n] : n \in DOMAIN tree}
           g   == [n \in 1 .. Len(tree) |-> f[n]]
<1>4. Cardinality(All) = Len(tree)
  <2>1. \A m, n \in 1 .. Len(tree) : f[m] = f[n] => m = n
    BY DEF Complete
  <2>2. g \in Bijection(1 .. Len(tree), All)
    BY <1>1, <2>1, Fun_IsBij
  <2>3. ExistsBijection(1 .. Len(tree), All)
    BY <2>2 DEF ExistsBijection
  <2> HIDE DEF All
  <2> QED BY <1>1, <2>3, FS_CountingElements
<1> QED BY <1>2, <1>3, <1>4 DEF NoneLost, Complete

\* Under each path of a tree that was built lies what lies there in the source: the
\* kind of file, the mode, the entries in order, ".." and a queued table
\* (make_ext4fs.c:158-183, contents.c:125-150, allocate.c:665).
THEOREM TreeIsMirrored == Spec => []TreeMirrored
<1>1. TreeInv /\ MirrorInv /\ Built => MirroredBy(InodeOf)
  <2> SUFFICES ASSUME TreeInv, MirrorInv, Built PROVE MirroredBy(InodeOf)
    OBVIOUS
  <2>1. TreeShape /\ \E ino : Complete(ino)
    BY WhenBuilt
  <2> PICK f : f = InodeOf
    OBVIOUS
  <2>2. MirroredBy(f)
    BY <2>1, InodeOfIs, CompleteMirrors
  <2> QED BY <2>2
<1>2. TreeMirrored <=> (Built => MirroredBy(InodeOf))
  BY Zenon DEF TreeMirrored, MirroredBy
<1> QED BY <1>1, <1>2, CallersHoldTheirInodes, CopyingMirrors, PTL

\* No inode is lost and none is in two places, and the allocator counts the
\* directories of the tree (contents.c:97, 108, 168, 197).
THEOREM NoneIsLost == Spec => []NoOrphans
<1>1. TreeInv /\ MirrorInv /\ Built => NoneLost(InodeOf)
  <2> SUFFICES ASSUME TreeInv, MirrorInv, Built PROVE NoneLost(InodeOf)
    OBVIOUS
  <2>1. TreeShape /\ \E ino : Complete(ino)
    BY WhenBuilt
  <2> PICK f : f = InodeOf
    OBVIOUS
  <2>2. NoneLost(f)
    BY <2>1, InodeOfIs, CompleteLosesNone
  <2> QED BY <2>2
<1>2. NoOrphans <=> (Built => NoneLost(InodeOf))
  BY Zenon DEF NoOrphans, NoneLost
<1> QED BY <1>1, <1>2, CallersHoldTheirInodes, CopyingMirrors, PTL

-----------------------------------------------------------------------------
(* The links                                                               *)

\* What entry j of node q says: that it is q's own, q's parent's or a child's.
Tells(q, j, m) ==
    /\ tree[q].kind = "dir"
    /\ \/ j = 1 /\ q = m
       \/ j = 2 /\ ParentOf(q) = m
       \/ \E k \in 1 .. Len(Kids(q)) : j = k + 2 /\ Kids(q)[k] = m

LEMMA ParentIs ==
    ASSUME TreeShape, NEW n \in 1 .. Len(tree)
    PROVE  ParentOf(n) \in 1 .. Len(tree) /\ tree[ParentOf(n)].kind = "dir"
<1>1. Len(tree) \in Nat \ {0}
  BY DEF TreeShape
<1>2. CASE n = 1
  BY <1>1, <1>2 DEF ParentOf, TreeShape
<1>3. CASE n # 1
  <2>1. tree[n].parent \in 1 .. (n - 1) /\ tree[tree[n].parent].kind = "dir"
    BY <1>3 DEF TreeShape
  <2> QED BY <1>1, <1>3, <2>1 DEF ParentOf
<1> QED BY <1>2, <1>3

LEMMA LinkAt ==
    ASSUME TreeShape, NEW ino, Complete(ino), NEW q \in 1 .. Len(tree), NEW m \in 1 .. Len(tree), NEW j
    PROVE  j \in DOMAIN disk[ino[q]].entries /\ disk[ino[q]].entries[j].inode = ino[m] <=> Tells(q, j, m)
<1> PICK es : es = disk[ino[q]].entries
  OBVIOUS
<1>1. es = IF tree[q].kind = "dir" THEN DirEntriesOf(ino, q) ELSE <<>>
  <2>1. IsCopy(disk[ino[q]], ino, q)
    BY DEF Complete
  <2> QED BY <2>1 DEF IsCopy
<1>2. CASE tree[q].kind # "dir"
  <2>1. DOMAIN es = {}
    BY <1>1, <1>2
  <2> QED BY <1>2, <2>1 DEF Tells
<1>3. CASE tree[q].kind = "dir"
  <2> PICK D : D = DirEntriesOf(ino, q)
    OBVIOUS
  <2>1. /\ Len(Kids(q)) \in Nat /\ DOMAIN D = 1 .. (2 + Len(Kids(q)))
        /\ D[1] = DirEntry(Dot, ino[q], "dir") /\ D[2] = DirEntry(DotDot, ino[ParentOf(q)], "dir")
        /\ \A k \in 1 .. Len(Kids(q)) : D[k + 2] = DirEntry(Kids(q)[k], ino[Kids(q)[k]], tree[Kids(q)[k]].kind)
    BY DirEntriesAre
  <2>2. es = D
    BY <1>1, <1>3
  <2>3. /\ DOMAIN es = 1 .. (2 + Len(Kids(q))) /\ es[1].inode = ino[q] /\ es[2].inode = ino[ParentOf(q)]
        /\ \A k \in 1 .. Len(Kids(q)) : es[k + 2].inode = ino[Kids(q)[k]]
    <3>1. D[1].inode = ino[q]
      BY <2>1 DEF DirEntry
    <3>2. D[2].inode = ino[ParentOf(q)]
      BY <2>1 DEF DirEntry
    <3>3. ASSUME NEW k \in 1 .. Len(Kids(q)) PROVE D[k + 2].inode = ino[Kids(q)[k]]
      <4>1. D[k + 2] = DirEntry(Kids(q)[k], ino[Kids(q)[k]], tree[Kids(q)[k]].kind)
        BY <2>1
      <4> QED BY <4>1 DEF DirEntry
    <3> QED BY <2>1, <2>2, <3>1, <3>2, <3>3
  <2>4. \A a, b \in 1 .. Len(tree) : ino[a] = ino[b] <=> a = b
    BY DEF Complete
  <2>5. ParentOf(q) \in 1 .. Len(tree) /\ \A k \in 1 .. Len(Kids(q)) : Kids(q)[k] \in 1 .. Len(tree)
    <3>1. \A k \in 1 .. Len(Kids(q)) : Kids(q)[k] \in (q + 1) .. Len(tree)
      BY KidIs
    <3> QED BY <3>1, ParentIs
  <2>6. ASSUME j \in DOMAIN es, es[j].inode = ino[m] PROVE Tells(q, j, m)
    <3>1. CASE j = 1
      BY <1>3, <2>3, <2>4, <2>6, <3>1 DEF Tells
    <3>2. CASE j = 2
      BY <1>3, <2>3, <2>4, <2>5, <2>6, <3>2 DEF Tells
    <3>3. CASE j # 1 /\ j # 2
      <4>1. j - 2 \in 1 .. Len(Kids(q)) /\ j = (j - 2) + 2
        BY <2>1, <2>3, <2>6, <3>3
      <4>2. ino[Kids(q)[j - 2]] = ino[m]
        BY <2>3, <2>6, <4>1
      <4>3. Kids(q)[j - 2] = m
        BY <2>4, <2>5, <4>1, <4>2
      <4> QED BY <1>3, <4>1, <4>3 DEF Tells
    <3> QED BY <3>1, <3>2, <3>3
  <2>7. ASSUME Tells(q, j, m) PROVE j \in DOMAIN es /\ es[j].inode = ino[m]
    <3>1. CASE j = 1 /\ q = m
      BY <2>1, <2>3, <3>1
    <3>2. CASE j = 2 /\ ParentOf(q) = m
      BY <2>1, <2>3, <3>2
    <3>3. ASSUME NEW k \in 1 .. Len(Kids(q)), j = k + 2, Kids(q)[k] = m PROVE j \in DOMAIN es /\ es[j].inode = ino[m]
      BY <2>1, <2>3, <3>3
    <3> QED BY <2>7, <3>1, <3>2, <3>3 DEF Tells
  <2> QED BY <2>6, <2>7
<1> QED BY <1>2, <1>3

\* A directory has no more entries than there are nodes.
LEMMA FewKids ==
    ASSUME TreeShape, NEW n \in 1 .. Len(tree)
    PROVE  Len(Kids(n)) <= Len(tree)
<1> DEFINE K == Len(Kids(n))
           L == Len(tree)
           f == [k \in 1 .. K |-> Kids(n)[k]]
<1>1. K \in Nat /\ L \in Nat
  BY DEF TreeShape
<1>2. \A k \in 1 .. K : Kids(n)[k] \in (n + 1) .. L /\ \A j \in 1 .. K : Kids(n)[j] = Kids(n)[k] => j = k
  BY DEF TreeShape
<1>3. f \in Injection(1 .. K, 1 .. L)
  <2>1. \A k \in 1 .. K : f[k] \in 1 .. L
    BY <1>1, <1>2
  <2>2. f \in [1 .. K -> 1 .. L]
    BY <2>1
  <2>3. \A a, b \in 1 .. K : f[a] = f[b] => a = b
    BY <1>2
  <2> HIDE DEF f, K, L
  <2> QED BY <2>2, <2>3, Fun_IsInj
<1> HIDE DEF K, L, f
<1>4. IsFiniteSet(1 .. K) /\ IsFiniteSet(1 .. L) /\ Cardinality(1 .. K) = K /\ Cardinality(1 .. L) = L
  <2>1. \A a \in Nat : IsFiniteSet(1 .. a) /\ Cardinality(1 .. a) = a
    <3> SUFFICES ASSUME NEW a \in Nat PROVE IsFiniteSet(1 .. a) /\ Cardinality(1 .. a) = a
      OBVIOUS
    <3>1. Cardinality(1 .. a) = IF 1 > a THEN 0 ELSE a - 1 + 1
      BY FS_Interval
    <3> QED BY <3>1, FS_Interval
  <2> QED BY <1>1, <2>1
<1>5. Cardinality(1 .. K) <= Cardinality(1 .. L)
  BY <1>3, <1>4, FS_Injection
<1> QED BY <1>4, <1>5 DEF K, L

\* Its own ".", the ".." of its subdirectories, and the entry in its parent.
Own(ino, m)   == IF tree[m].kind = "dir" THEN {<<ino[m], 1>>} ELSE {}
Below(m)      == {q \in 1 .. Len(tree) : tree[q].kind = "dir" /\ ParentOf(q) = m}
Backs(ino, m) == {<<ino[q], 2>> : q \in Below(m)}
Ups(ino, m)   == {<<ino[ParentOf(m)], k + 2>> : k \in {j \in 1 .. Len(Kids(ParentOf(m))) : Kids(ParentOf(m))[j] = m}}

LEMMA LinksAre ==
    ASSUME TreeShape, NEW ino, Complete(ino), NEW m \in 1 .. Len(tree)
    PROVE  LinksTo(ino[m]) = Own(ino, m) \cup Backs(ino, m) \cup Ups(ino, m)
<1> DEFINE All == Own(ino, m) \cup Backs(ino, m) \cup Ups(ino, m)
<1>0. Len(tree) \in Nat
  BY DEF TreeShape
<1>1. ASSUME NEW q \in 1 .. Len(tree), NEW j PROVE Tells(q, j, m) <=> <<ino[q], j>> \in All
  <2>0. \A a, b \in 1 .. Len(tree) : ino[a] = ino[b] <=> a = b
    BY DEF Complete
  <2>1. <<ino[q], j>> \in Own(ino, m) <=> tree[q].kind = "dir" /\ j = 1 /\ q = m
    BY <2>0 DEF Own
  <2>2. <<ino[q], j>> \in Backs(ino, m) <=> tree[q].kind = "dir" /\ j = 2 /\ ParentOf(q) = m
    BY <2>0 DEF Backs, Below
  <2>3. ParentOf(m) \in 1 .. Len(tree) /\ tree[ParentOf(m)].kind = "dir"
    BY ParentIs
  <2>4. <<ino[q], j>> \in Ups(ino, m) <=> q = ParentOf(m) /\ \E k \in 1 .. Len(Kids(q)) : j = k + 2 /\ Kids(q)[k] = m
    BY <2>0, <2>3 DEF Ups
  <2>5. ASSUME NEW k \in 1 .. Len(Kids(q)), Kids(q)[k] = m PROVE q = ParentOf(m)
    BY <2>5, KidIs DEF ParentOf
  <2> QED BY <2>1, <2>2, <2>3, <2>4, <2>5 DEF Tells
<1>2. \A p \in All : \E q \in 1 .. Len(tree) : \E j : p = <<ino[q], j>>
  BY ParentIs DEF Own, Backs, Below, Ups
<1> HIDE DEF All
<1>3. ASSUME NEW p \in LinksTo(ino[m]) PROVE p \in All
  <2>1. PICK x \in DOMAIN disk, j \in 1 .. (Len(tree) + 2) : p = <<x, j>>
    BY DEF LinksTo
  <2>2. j \in DOMAIN disk[x].entries /\ disk[x].entries[j].inode = ino[m]
    BY <2>1 DEF LinksTo
  <2>3. x \notin ReservedFiles
    BY <2>2 DEF Complete
  <2>4. PICK q \in 1 .. Len(tree) : x = ino[q]
    BY <2>3 DEF Complete
  <2> QED BY <1>1, <2>1, <2>2, <2>4, LinkAt
<1>4. ASSUME NEW p \in All PROVE p \in LinksTo(ino[m])
  <2>0. PICK q \in 1 .. Len(tree) : \E j : p = <<ino[q], j>>
    BY <1>2
  <2>1. PICK j : p = <<ino[q], j>>
    BY <2>0
  <2>2. Tells(q, j, m)
    BY <1>1, <2>1
  <2>3. j \in DOMAIN disk[ino[q]].entries /\ disk[ino[q]].entries[j].inode = ino[m]
    BY <2>2, LinkAt
  <2>4. j \in 1 .. (Len(tree) + 2)
    <3>1. Len(Kids(q)) <= Len(tree) /\ Len(Kids(q)) \in Nat
      BY FewKids DEF TreeShape
    <3> QED BY <1>0, <2>2, <3>1 DEF Tells
  <2>5. ino[q] \in DOMAIN disk
    BY DEF Complete
  <2> QED BY <2>1, <2>3, <2>4, <2>5 DEF LinksTo
<1> QED BY <1>3, <1>4 DEF All

\* They are all different, so many as the inode counts.
LEMMA LinksCounted ==
    ASSUME TreeShape, NEW ino, Complete(ino), NEW m \in 1 .. Len(tree)
    PROVE  disk[ino[m]].links = Cardinality(LinksTo(ino[m])) % U16
<1> DEFINE O == Own(ino, m)
           B == Backs(ino, m)
           U == Ups(ino, m)
           S == {q \in DOMAIN tree : q > 1 /\ tree[q].parent = m /\ tree[q].kind = "dir"}
<1>0. Len(tree) \in Nat \ {0} /\ DOMAIN tree = 1 .. Len(tree)
  BY DEF TreeShape
<1>1. disk[ino[m]].links = IF tree[m].kind = "dir" THEN (Cardinality(S) + 2) % U16 ELSE 1
  <2>1. IsCopy(disk[ino[m]], ino, m)
    BY DEF Complete
  <2> QED BY <2>1, Zenon DEF IsCopy, links, Subdirs
<1>2. IsFiniteSet(S) /\ Cardinality(S) \in Nat
  <2>1. IsFiniteSet(1 .. Len(tree))
    BY <1>0, FS_Interval
  <2>2. S \in SUBSET (1 .. Len(tree))
    BY <1>0
  <2> HIDE DEF S
  <2> QED BY <2>1, <2>2, FS_Subset, FS_CardinalityType
<1>3. Below(m) = S \cup (IF m = 1 THEN {1} ELSE {}) /\ 1 \notin S
  <2>1. ASSUME NEW q \in 1 .. Len(tree) PROVE q > 1 <=> q # 1
    OBVIOUS
  <2>2. tree[1].kind = "dir" /\ 1 \in 1 .. Len(tree)
    BY <1>0 DEF TreeShape
  <2> QED BY <1>0, <2>1, <2>2 DEF Below, ParentOf
<1>4. IsFiniteSet(B) /\ Cardinality(B) = IF m = 1 THEN Cardinality(S) + 1 ELSE Cardinality(S)
  <2> DEFINE f == [q \in Below(m) |-> <<ino[q], 2>>]
  <2>1. IsFiniteSet(Below(m)) /\ Cardinality(Below(m)) = IF m = 1 THEN Cardinality(S) + 1 ELSE Cardinality(S)
    <3> HIDE DEF S
    <3>1. CASE m = 1
      BY <1>2, <1>3, <3>1, FS_AddElement
    <3>2. CASE m # 1
      BY <1>2, <1>3, <3>2
    <3> QED BY <3>1, <3>2
  <2>2. f \in [Below(m) -> B]
    BY DEF Backs
  <2>3. \A a, b \in Below(m) : f[a] = f[b] => a = b
    BY DEF Below, Complete
  <2>4. \A p \in B : \E q \in Below(m) : f[q] = p
    BY DEF Backs
  <2> HIDE DEF f, B, S
  <2>5. f \in Bijection(Below(m), B)
    BY <2>2, <2>3, <2>4, Fun_IsBij
  <2>6. ExistsBijection(Below(m), B)
    BY <2>5 DEF ExistsBijection
  <2> QED BY <2>1, <2>6, FS_Bijection
<1>5. LinksTo(ino[m]) = O \cup B \cup U
  BY LinksAre
<1>6. \A p \in O : p[2] = 1
  BY DEF Own
<1>7. \A p \in B : p[2] = 2
  BY DEF Backs
<1>8. m # 1 => \E p : U = {p} /\ p[2] \notin {1, 2}
  <2> SUFFICES ASSUME m # 1 PROVE \E p : U = {p} /\ p[2] \notin {1, 2}
    OBVIOUS
  <2> PICK q : q = ParentOf(m)
    OBVIOUS
  <2>1. q \in 1 .. Len(tree) /\ q = tree[m].parent /\ m \in 2 .. Len(tree)
    BY ParentIs DEF ParentOf
  <2>0. \E k \in 1 .. Len(Kids(tree[m].parent)) : Kids(tree[m].parent)[k] = m
    BY <2>1 DEF TreeShape
  <2>2. PICK k \in 1 .. Len(Kids(q)) : Kids(q)[k] = m
    BY <2>0, <2>1
  <2>3. \A j \in 1 .. Len(Kids(q)) : Kids(q)[j] = m => j = k
    BY <2>1, <2>2, KidOf
  <2>4. {j \in 1 .. Len(Kids(q)) : Kids(q)[j] = m} = {k}
    BY <2>2, <2>3
  <2>5. U = {<<ino[q], k + 2>>}
    BY <2>4 DEF Ups
  <2>6. k + 2 \notin {1, 2}
    BY <2>1, <2>2
  <2>7. <<ino[q], k + 2>>[2] = k + 2
    OBVIOUS
  <2> HIDE DEF U
  <2> QED BY <2>5, <2>6, <2>7
<1>9. m = 1 => U = {}
  <2> SUFFICES ASSUME m = 1 PROVE U = {}
    OBVIOUS
  <2>1. \A k \in 1 .. Len(Kids(1)) : Kids(1)[k] # 1
    BY KidIs
  <2> QED BY <2>1 DEF Ups, ParentOf
<1>10. tree[m].kind # "dir" => m # 1 /\ B = {} /\ O = {}
  <2> SUFFICES ASSUME tree[m].kind # "dir" PROVE m # 1 /\ B = {} /\ O = {}
    OBVIOUS
  <2>1. m # 1
    BY DEF TreeShape
  <2>2. Below(m) = {}
    BY ParentIs DEF Below
  <2> QED BY <2>1, <2>2 DEF Backs, Own
<1>11. tree[m].kind = "dir" => \E p : O = {p} /\ p[2] = 1
  <2> SUFFICES ASSUME tree[m].kind = "dir" PROVE \E p : O = {p} /\ p[2] = 1
    OBVIOUS
  <2>1. O = {<<ino[m], 1>>}
    BY DEF Own
  <2>2. <<ino[m], 1>>[2] = 1
    OBVIOUS
  <2> HIDE DEF O
  <2> QED BY <2>1, <2>2
<1> PICK links_m : links_m = disk[ino[m]].links
  OBVIOUS
<1> PICK all : all = LinksTo(ino[m])
  OBVIOUS
<1> HIDE DEF O, B, U, S
<1> SUFFICES links_m = Cardinality(all) % U16
  OBVIOUS
<1>12. CASE tree[m].kind # "dir"
  <2>1. PICK p : U = {p}
    BY <1>8, <1>10, <1>12
  <2>2. all = {p}
    BY <1>5, <1>10, <1>12, <2>1
  <2>3. Cardinality(all) = 1
    BY <2>2, FS_Singleton
  <2>4. 1 % U16 = 1
    BY TreesAreTrees
  <2> QED BY <1>1, <1>12, <2>3, <2>4
<1>13. CASE tree[m].kind = "dir"
  <2>1. PICK p : O = {p} /\ p[2] = 1
    BY <1>11, <1>13
  <2>2. p \notin B
    BY <1>7, <2>1
  <2>3. IsFiniteSet(B \cup {p}) /\ Cardinality(B \cup {p}) = Cardinality(B) + 1
    BY <1>4, <2>2, FS_AddElement
  <2>4. CASE m = 1
    <3>1. all = B \cup {p}
      BY <1>5, <1>9, <2>1, <2>4
    <3> PICK s \in Nat : s = Cardinality(S)
      BY <1>2
    <3>2. links_m = (s + 2) % U16
      BY <1>1, <1>13
    <3>3. Cardinality(B) = s + 1
      BY <1>4, <2>4
    <3>4. Cardinality(all) = (s + 1) + 1
      BY <2>3, <3>1, <3>3
    <3>5. (s + 1) + 1 = s + 2
      OBVIOUS
    <3> QED BY <3>2, <3>4, <3>5
  <2>5. CASE m # 1
    <3>1. PICK u : U = {u} /\ u[2] \notin {1, 2}
      BY <1>8, <2>5
    <3>2. u \notin B \cup {p}
      BY <1>7, <2>1, <3>1
    <3>3. Cardinality((B \cup {p}) \cup {u}) = Cardinality(B \cup {p}) + 1
      BY <2>3, <3>2, FS_AddElement
    <3>4. all = (B \cup {p}) \cup {u}
      BY <1>5, <2>1, <3>1
    <3>5. Cardinality(all) = Cardinality(S) + 2
      BY <1>2, <1>4, <2>3, <2>5, <3>3, <3>4
    <3> QED BY <1>1, <1>13, <3>5
  <2> QED BY <2>4, <2>5
<1> QED BY <1>12, <1>13

\* An inode of a built tree counts as many links as there are entries that name it,
\* modulo what i_links_count can hold (contents.c:123, 184, 210): as many, if they are
\* fewer than 2^16.
THEOREM LinksAreCounted == Spec => []LinkCounts
<1>1. TreeInv /\ MirrorInv => LinkCounts
  <2> SUFFICES ASSUME TreeInv, MirrorInv, Built, NEW n \in DOMAIN disk \ ReservedFiles
               PROVE  disk[n].links = Cardinality(LinksTo(n)) % U16
    BY Zenon DEF LinkCounts
  <2>1. PICK ino : Complete(ino)
    BY WhenBuilt
  <2>2. PICK m \in 1 .. Len(tree) : n = ino[m]
    BY <2>1 DEF Complete
  <2> QED BY <2>1, <2>2, WhenBuilt, LinksCounted
<1> QED BY <1>1, CallersHoldTheirInodes, CopyingMirrors, PTL

-----------------------------------------------------------------------------
(* What a step does to the disk                                            *)

\* What may become of an inode: entries are added, and a number is stored in one that
\* has none.
Grown(d, d2) ==
    /\ d2.type = d.type
    /\ \A k \in DOMAIN d.entries :
          LET old == d.entries[k]
              new == d2.entries[k]
          IN  /\ k \in DOMAIN d2.entries
              /\ \/ new = old
                 \/ old.inode = 0 /\ new = [old EXCEPT !.inode = new.inode]

DiskGrows == \A n \in DOMAIN disk : n \in DOMAIN disk' /\ Grown(disk[n], disk'[n])

LEMMA SameGrown == \A d : Grown(d, d)
BY DEF Grown

\* An inode that is new.
LEMMA NewInodeGrows ==
    ASSUME NEW x, x \notin DOMAIN disk, NEW d, disk' = WithInode(x, d)
    PROVE  DiskGrows
<1>1. \A n \in DOMAIN disk : n \in DOMAIN disk' /\ disk'[n] = disk[n]
  BY DEF WithInode
<1> QED BY <1>1, SameGrown DEF DiskGrows

\* A node without data is not on the disk.
LEMMA NotOnDisk ==
    ASSUME NEW ino, NEW done, Assigned(ino, done), OnDisk(ino, done), NEW n \in DOMAIN ino, NoData(n)
    PROVE  ino[n] \notin DOMAIN disk
<1>1. ino[n] \notin {ino[m] : m \in {k \in DOMAIN ino : ~NoData(k)}}
  BY DEF Assigned
<1>2. ino[n] \notin ReservedFiles
  <2>1. CASE n = 1
    BY <2>1, TreesAreTrees DEF Assigned
  <2>2. CASE n # 1
    <3>1. ino[n] > FirstInodes /\ ino[n] \in Nat /\ FirstInodes \in Nat
      BY <2>2, InodeCounts DEF Assigned
    <3> QED BY <3>1, TreesAreTrees
  <2> QED BY <2>1, <2>2
<1> QED BY <1>1, <1>2 DEF OnDisk

LEMMA DataGrows ==
    ASSUME NEW ino, NEW done, Going(ino, done), dir_data \/ child_data
    PROVE  DiskGrows
<1>1. /\ Assigned(ino, done) /\ OnDisk(ino, done) /\ Calls(ino, done) /\ AtHand(ino, done)
      /\ TreeShape /\ TreeInv
  BY DEF Going, Mirrors
<1>2. CASE dir_data
  <2>1. at = "dir_data" /\ \E d : disk' = WithInode(Top.inode, d)
    BY <1>2 DEF dir_data, Call
  <2>2. at \in InTree /\ at \in HasInode /\ at \in NoDirData
    BY <2>1 DEF InTree, HasInode, NoDirData
  <2>3. Top.inode = ino[Here] /\ Here \in DOMAIN ino /\ NoData(Here)
    BY <1>1, <2>2, AtTop, HereIs DEF NoData
  <2> QED BY <1>1, <2>1, <2>3, NotOnDisk, NewInodeGrows
<1>3. CASE child_data
  <2>1. at = "child_data" /\ \E d : disk' = WithInode(child, d)
    BY <1>3 DEF child_data, Call
  <2>2. at \in InTree /\ at \in InEntry /\ at \in NoChildData
    BY <2>1 DEF InTree, InEntry, NoChildData
  <2>3. stack[1].next <= Len(Kids(Here)) /\ child = ino[HereNext]
    BY <1>1, <2>2 DEF AtHand
  <2>4. HereNext \in DOMAIN ino /\ NoData(HereNext)
    BY <1>1, <2>2, <2>3, EntryIs DEF NoData
  <2> QED BY <1>1, <2>1, <2>3, <2>4, NotOnDisk, NewInodeGrows
<1> QED BY <1>2, <1>3

LEMMA EntryGrows ==
    ASSUME NEW ino, NEW done, Going(ino, done), add_child_entry
    PROVE  DiskGrows
<1>1. at = "entries" /\ \E e : disk' = [disk EXCEPT ![Top.inode].entries = Append(@, e)]
  BY DEF add_child_entry
<1>2. /\ Assigned(ino, done) /\ OnDisk(ino, done) /\ Calls(ino, done) /\ AtHand(ino, done)
      /\ TreeShape /\ TreeInv /\ at \in InTree /\ at \in HasInode /\ at \notin NoDirData /\ at \notin NoChildData
  BY <1>1 DEF Going, Mirrors, InTree, HasInode, NoDirData, NoChildData
<1> PICK x : x = ino[Here]
  OBVIOUS
<1>3. Top.inode = x /\ Here \in DOMAIN ino /\ ~NoData(Here) /\ tree[Here].kind = "dir"
  BY <1>2, AtTop, HereIs DEF NoData
<1>4. x \in DOMAIN disk /\ HasData(disk[x], ino, done, Here)
  BY <1>2, <1>3 DEF OnDisk
<1>5. PICK t, l, m, es : IsInode(disk[x], t, l, m, es) /\ es \in Seq(Entries)
  BY <1>3, <1>4 DEF HasData, HasEntries
<1>6. PICK e : disk' = [disk EXCEPT ![x].entries = Append(@, e)]
  BY <1>1, <1>3
<1>7. /\ DOMAIN disk' = DOMAIN disk /\ \A y \in DOMAIN disk : y # x => disk'[y] = disk[y]
      /\ IsInode(disk'[x], t, l, m, Append(es, e))
  <2>1. disk = [y \in DOMAIN disk |-> disk[y]]
    BY <1>2 DEF OnDisk
  <2> QED BY <1>4, <1>5, <1>6, <2>1, EntryAppended
<1>8. Grown(disk[x], disk'[x])
  <2> PICK d : d = disk[x]
    OBVIOUS
  <2> PICK d2 : d2 = disk'[x]
    OBVIOUS
  <2>1. d.type = t /\ d.entries = es /\ d2.type = t /\ d2.entries = Append(es, e)
    BY <1>5, <1>7 DEF IsInode
  <2>2. es \in Seq(Entries \cup {e})
    BY <1>5, SeqMonotonic
  <2>3. \A k \in DOMAIN es : k \in DOMAIN Append(es, e) /\ Append(es, e)[k] = es[k]
    <3>1. /\ Append(es, e) \in Seq(Entries \cup {e}) /\ Len(Append(es, e)) = Len(es) + 1
          /\ \A k \in 1 .. Len(es) : Append(es, e)[k] = es[k]
      BY <2>2, AppendProperties
    <3>2. Len(es) \in Nat /\ DOMAIN es = 1 .. Len(es) /\ DOMAIN Append(es, e) = 1 .. Len(Append(es, e))
      BY <2>2, <3>1, LenProperties
    <3> QED BY <3>1, <3>2
  <2>4. Grown(d, d2)
    BY <2>1, <2>3 DEF Grown
  <2> QED BY <2>4
<1> QED BY <1>7, <1>8, SameGrown DEF DiskGrows

LEMMA ModeGrows ==
    ASSUME NEW ino, NEW done, Going(ino, done), root_mode
    PROVE  DiskGrows
<1>1. at = "root_mode" /\ disk' = [disk EXCEPT ![child].mode = 1]
  BY DEF root_mode, Call
<1>2. /\ Assigned(ino, done) /\ OnDisk(ino, done) /\ AtHand(ino, done)
      /\ at \notin InTree /\ at \notin NoDirData /\ at \notin NoChildData
  BY <1>1 DEF Going, Mirrors, InTree, NoDirData, NoChildData
<1> PICK x : x = ino[1]
  OBVIOUS
<1>3. child = x /\ 1 \in DOMAIN ino /\ ~NoData(1)
  BY <1>1, <1>2 DEF AtHand, Assigned, NoData
<1>4. x \in DOMAIN disk /\ HasData(disk[x], ino, done, 1)
  BY <1>2, <1>3 DEF OnDisk
<1>5. PICK t, l, m, es : IsInode(disk[x], t, l, m, es)
  BY <1>4 DEF HasData
<1>6. /\ DOMAIN disk' = DOMAIN disk /\ \A y \in DOMAIN disk : y # x => disk'[y] = disk[y]
      /\ IsInode(disk'[x], t, l, 1, es)
  <2>1. disk = [y \in DOMAIN disk |-> disk[y]]
    BY <1>2 DEF OnDisk
  <2> QED BY <1>1, <1>3, <1>4, <1>5, <2>1, ModeStored
<1>7. Grown(disk[x], disk'[x])
  <2> PICK d : d = disk[x]
    OBVIOUS
  <2> PICK d2 : d2 = disk'[x]
    OBVIOUS
  <2>1. d.type = t /\ d.entries = es /\ d2.type = t /\ d2.entries = es
    BY <1>5, <1>6 DEF IsInode
  <2>2. Grown(d, d2)
    BY <2>1 DEF Grown
  <2> QED BY <2>2
<1> QED BY <1>6, <1>7, SameGrown DEF DiskGrows

\* The number goes to an entry that has none.
LEMMA NumberGrows ==
    ASSUME NEW ino, NEW done, Going(ino, done), store_inode
    PROVE  DiskGrows
<1>1. at = "store" /\ Stores(Top.inode, Top.next + 2, child, child, Entry)
  BY DEF store_inode, Call, Stores
<1>2. /\ Assigned(ino, done) /\ OnDisk(ino, done) /\ Calls(ino, done) /\ AtHand(ino, done)
      /\ at \in InTree /\ at \in HasInode /\ at \in InEntry /\ at \notin NoDirData /\ at \notin NoChildData
      /\ TreeShape /\ TreeInv
  BY <1>1 DEF Going, Mirrors, InTree, HasInode, InEntry, NoChildData, NoDirData
<1>3. /\ Top = stack[1] /\ Entry = HereNext /\ Here \in DOMAIN ino /\ Here \notin done
      /\ stack[1].inode = ino[Here] /\ tree[Here].kind = "dir" /\ Here \in 1 .. Len(tree)
  BY <1>2, AtTop, HereIs
<1>4. stack[1].next <= Len(Kids(Here)) /\ child = ino[HereNext]
  BY <1>2 DEF AtHand
<1>5. /\ stack[1].next \in 1 .. Len(Kids(Here)) /\ HereNext \in (Here + 1) .. Len(tree)
      /\ HereNext \in DOMAIN ino /\ HereNext \notin done /\ HereNext # Here
  BY <1>2, <1>4, EntryIs
<1> PICK node \in 1 .. Len(tree) : node = Here
  BY <1>3
<1> PICK kid : kid = HereNext
  OBVIOUS
<1> PICK c \in 1 .. Len(Kids(node)) : c = stack[1].next
  BY <1>5
<1> PICK x : x = ino[node]
  OBVIOUS
<1> PICK z : z = ino[kid]
  OBVIOUS
<1>6. kid = Kids(node)[c] /\ Stores(x, c + 2, z, z, kid)
  BY <1>1, <1>3, <1>4 DEF HereNext
<1>7. ~NoData(node) /\ ~NoData(kid)
  BY <1>2 DEF NoData
<1>8. /\ x \in DOMAIN disk /\ z \in DOMAIN disk /\ x # z /\ z \in Nat
      /\ HasData(disk[x], ino, done, node) /\ HasData(disk[z], ino, done, kid)
  BY <1>2, <1>3, <1>5, <1>7 DEF OnDisk, Assigned
<1>9. PICK t, l, m, es : IsInode(disk[x], t, l, m, es) /\ HasEntries(es, ino, done, node)
  BY <1>3, <1>8 DEF HasData
<1>10. PICK t2, l2, m2, es2 : IsInode(disk[z], t2, l2, m2, es2)
  BY <1>8 DEF HasData
<1>11. es \in Seq(Entries) /\ Len(es) = 2 + Len(Kids(node)) /\ c + 2 \in 1 .. Len(es)
  <2>1. es \in Seq(Entries) /\ Len(es) = 2 + Len(Kids(node)) /\ Len(Kids(node)) \in Nat
    BY <1>1, <1>2, <1>9 DEF HasEntries, Laid, TreeShape
  <2>2. c + 2 \in 1 .. (2 + Len(Kids(node)))
    BY <2>1
  <2> QED BY <2>1, <2>2
<1>12. es[c + 2].inode = 0 /\ es[c + 2] = DirEntry(kid, 0, tree[kid].kind)
  <2>1. Laid(node) = Len(Kids(node))
    BY <1>1 DEF Laid
  <2>2. es[c + 2] = KidEntry(ino, done, node, c)
    BY <1>9, <2>1 DEF HasEntries
  <2>3. es[c + 2] = DirEntry(kid, 0, tree[kid].kind)
    BY <1>5, <1>6, <2>2 DEF KidEntry
  <2> QED BY <2>3, NameOfEntry
<1>13. /\ DOMAIN disk' = DOMAIN disk
       /\ \A y \in DOMAIN disk : y # x /\ y # z => disk'[y] = disk[y]
       /\ \E new : Numbered(new, es, c + 2, z) /\ IsInode(disk'[x], t, l, m, new)
       /\ IsInode(disk'[z], t2, l2, kid, es2)
  <2>1. disk = [y \in DOMAIN disk |-> disk[y]]
    BY <1>2 DEF OnDisk
  <2> PICK k \in 1 .. Len(es) : k = c + 2
    BY <1>11
  <2>2. x \in DOMAIN disk /\ z \in DOMAIN disk /\ x # z /\ z \in Nat /\ Stores(x, k, z, z, kid)
    BY <1>6, <1>8
  <2>3. es \in Seq(Entries) /\ IsInode(disk[x], t, l, m, es) /\ IsInode(disk[z], t2, l2, m2, es2)
    BY <1>9, <1>10, <1>11
  <2>4. /\ DOMAIN disk' = DOMAIN disk
        /\ \A y \in DOMAIN disk : y # x /\ y # z => disk'[y] = disk[y]
        /\ \E new : Numbered(new, es, k, z) /\ IsInode(disk'[x], t, l, m, new)
        /\ IsInode(disk'[z], t2, l2, kid, es2)
    BY <2>1, <2>2, <2>3, NumberStored
  <2> QED BY <2>4
<1>14. Grown(disk[z], disk'[z])
  <2> PICK d : d = disk[z]
    OBVIOUS
  <2> PICK d2 : d2 = disk'[z]
    OBVIOUS
  <2>1. d.type = t2 /\ d.entries = es2 /\ d2.type = t2 /\ d2.entries = es2
    BY <1>10, <1>13 DEF IsInode
  <2>2. Grown(d, d2)
    BY <2>1 DEF Grown
  <2> QED BY <2>2
<1>15. Grown(disk[x], disk'[x])
  <2> PICK d : d = disk[x]
    OBVIOUS
  <2> PICK d2 : d2 = disk'[x]
    OBVIOUS
  <2> PICK new : Numbered(new, es, c + 2, z) /\ IsInode(d2, t, l, m, new)
    BY <1>13
  <2>1. d.type = t /\ d.entries = es /\ d2.type = t /\ d2.entries = new
    BY <1>9 DEF IsInode
  <2>2. DOMAIN es = 1 .. Len(es) /\ DOMAIN new = 1 .. Len(es)
    BY <1>11, LenProperties DEF Numbered
  <2>3. new[c + 2] = [es[c + 2] EXCEPT !.inode = new[c + 2].inode]
    <3> PICK old : old = es[c + 2]
      OBVIOUS
    <3> PICK e : e = new[c + 2]
      OBVIOUS
    <3>1. old = DirEntry(kid, 0, tree[kid].kind)
      BY <1>12
    <3>2. e = DirEntry(old.name, z, old.file_type)
      BY DEF Numbered
    <3>3. e = [old EXCEPT !.inode = e.inode]
      BY <3>1, <3>2 DEF DirEntry
    <3> QED BY <3>3
  <2>4. \A k \in DOMAIN es : k # c + 2 => new[k] = es[k]
    BY <2>2 DEF Numbered
  <2>5. Grown(d, d2)
    <3>1. ASSUME NEW k \in DOMAIN d.entries
          PROVE  LET old == d.entries[k]
                     e   == d2.entries[k]
                 IN  /\ k \in DOMAIN d2.entries
                     /\ \/ e = old
                        \/ old.inode = 0 /\ e = [old EXCEPT !.inode = e.inode]
      BY <1>12, <2>1, <2>2, <2>3, <2>4
    <3> QED BY <2>1, <3>1 DEF Grown
  <2> QED BY <2>5
<1> QED BY <1>13, <1>14, <1>15, SameGrown DEF DiskGrows

LEMMA StepGrows ==
    ASSUME IndInv, TreeInv, MirrorInv, [Next]_vars
    PROVE  DiskGrows
<1>1. CASE disk' = disk
  BY <1>1, SameGrown DEF DiskGrows
<1>2. CASE create_reserved
  <2>1. disk = <<>>
    BY <1>2 DEF create_reserved, Call, MirrorInv
  <2>2. DOMAIN disk = {}
    BY <2>1
  <2> QED BY <2>2 DEF DiskGrows
<1>3. CASE dir_data \/ child_data \/ add_child_entry \/ root_mode \/ store_inode
  <2>1. at \in InTree \cup {"root_mode"}
    BY <1>3 DEF dir_data, child_data, add_child_entry, root_mode, store_inode, Call, InTree
  <2>2. PICK ino, done : Mirrors(ino, done)
    BY <2>1 DEF MirrorInv, Copying
  <2>3. Going(ino, done)
    BY <2>2, Shape, StepGood DEF Going, MirrorInv, Good
  <2> QED BY <1>3, <2>3, DataGrows, EntryGrows, ModeGrows, NumberGrows
<1>4. disk' = disk \/ create_reserved \/ dir_data \/ child_data \/ add_child_entry \/ root_mode \/ store_inode
  BY DEF Next, vars, treeVars, reserve, scan_directory, count_dentries, root_inode, new_dir_inode, count_directory,
     get_dir_inode, end_directory, fill_directory, fill_file, get_child, return, update, no_inode_left, call_fails
<1> QED BY <1>1, <1>2, <1>3, <1>4

\* An inode is made once, and the number in an entry is stored once and never over
\* another (make_ext4fs.c:172, contents.c:145).
THEOREM DiskOnlyGrows == Spec => StoredOnce
<1>1. Init => InodesInit /\ IndInv /\ TreeInv /\ MirrorInv
  BY TreeInit, InitInv, MirrorInit
<1>2. IndInv /\ TreeInv /\ MirrorInv /\ [Next]_vars => IndInv' /\ TreeInv' /\ MirrorInv'
  BY StepGood, StepInv, MirrorStep DEF Good
<1>3. IndInv /\ TreeInv /\ MirrorInv /\ [Next]_vars =>
      \A n \in DOMAIN disk :
          /\ n \in DOMAIN disk' /\ disk'[n].type = disk[n].type
          /\ \A k \in DOMAIN disk[n].entries :
                LET old == disk[n].entries[k]
                    new == disk'[n].entries[k]
                IN  /\ k \in DOMAIN disk'[n].entries
                    /\ \/ new = old
                       \/ old.inode = 0 /\ new = [old EXCEPT !.inode = new.inode]
  <2>1. IndInv /\ TreeInv /\ MirrorInv /\ [Next]_vars => DiskGrows
    BY StepGrows
  <2> QED BY <2>1, Zenon DEF DiskGrows, Grown
<1> QED BY <1>1, <1>2, <1>3, PTL DEF Spec, StoredOnce
=============================================================================
