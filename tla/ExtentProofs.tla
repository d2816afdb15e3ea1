---------------------------- MODULE ExtentProofs ----------------------------
(***************************************************************************)
(* Proofs about Extent and Indirect, for allocations of any number of      *)
(* regions of any length, blocks of any size and files of any length:      *)
(* what the extents of an inode map and where the data is queued, and that *)
(* the lists of an allocation lose no block.                               *)
(***************************************************************************)
EXTENDS Indirect, Numbers, SequenceTheorems, FiniteSetTheorems

-----------------------------------------------------------------------------
(* The invariant                                                           *)

\* The blocks of the first m regions.
Sum(s, m) == SumLen(SubSeq(s, 1, m))

\* A layout without one block of its first region: the first, to hold the leaf,
\* or the last, given back.
Shortened(s, depth) ==
    [k \in DOMAIN s |->
       IF k = 1 THEN [block |-> s[1].block + depth, len |-> s[1].len - 1, bg |-> s[1].bg]
       ELSE s[k]]

\* The regions that hold the data.
Kept == Shortened(regions, inode.depth)

\* Where they are in memory; the first is a new one when the leaf was split off.
Node(k) == IF k = Len(regions) + 1 THEN NULL
           ELSE IF k = 1 /\ inode.depth = 1 THEN Len(regions) + 1 ELSE k

ExtentOf(k) == [file_block |-> Sum(Kept, k - 1), len |-> Kept[k].len, block |-> Kept[k].block]

Offset(k) == Sum(Kept, k - 1) * BlockSize

PieceOf(k) == [block |-> Kept[k].block,
               size  |-> IF k = Len(regions) THEN len - Offset(k) ELSE Kept[k].len * BlockSize,
               of    |-> backing, at |-> Offset(k)]

Requested ==
    /\ regions \in Layouts
    /\ \E tail \in Tails : len = (SumLen(regions) - 1) * BlockSize - tail
    /\ backing \in {"data", "file", "none"}

Region == [block : Nat, len : Nat, bg : Nat, next : Nat, prev : Nat]
List == [first : Nat, last : Nat, iter : Nat, partial_iter : Nat]
Allocation == [mem : Seq(Region), list : List, oob_list : List]

Headers == [entries : Nat, max : Nat]
Inodes == [header : Headers, depth : Nat, index : Nat, i_blocks : Nat]

\* Each pointer leads to a region or nowhere.
Linked(mem) == mem \in Seq(Region) /\ \A q \in 1 .. Len(mem) : mem[q].next <= Len(mem)

\* The inode's list, and the leaf in a list of its own.
ListsInv ==
    /\ alloc \in Allocation /\ Linked(alloc.mem)
    /\ inode \in Inodes /\ inode.depth \in {0, 1}
    /\ Len(alloc.mem) = Len(regions) + inode.depth
    /\ \A k \in 1 .. Len(regions) :
          LET r == alloc.mem[Node(k)] IN
          r.block = Kept[k].block /\ r.len = Kept[k].len /\ r.next = Node(k + 1)
    /\ alloc.list.first = Node(1) /\ alloc.list.partial_iter = 0
    /\ IF inode.depth = 0 THEN alloc.oob_list = EmptyList /\ inode.header.entries = Len(regions)
       ELSE /\ alloc.oob_list.first = 1 /\ alloc.mem[1].next = NULL
            /\ alloc.mem[1].block = regions[1].block /\ alloc.mem[1].len = 1
            /\ inode.header.entries = 1 /\ inode.index = regions[1].block

ExtentSteps == {"header", "fill", "backing", "done"}

NewInode == [header |-> NoHeader, depth |-> 0, index |-> 0, i_blocks |-> 0]

IdleInv == alloc = create_allocation /\ regions = <<>> /\ extents = <<>> /\ pieces = <<>> /\ inode = NewInode

HeaderInv ==
    /\ alloc = allocate_blocks(regions) /\ extents = <<>> /\ pieces = <<>>
    /\ inode = NewInode
    /\ left = IF backing = "none" THEN 0 ELSE len

FillInv ==
    /\ Len(extents) \in 0 .. Len(regions)
    /\ \A k \in DOMAIN extents : extents[k] = ExtentOf(k)
    /\ alloc.list.iter = Node(Len(extents) + 1)
    /\ left = IF backing = "none" THEN 0 ELSE len
    /\ Len(pieces) = inode.depth

\* So much data is queued.
Queued == Len(pieces) - inode.depth

BackingInv ==
    /\ Len(extents) = Len(regions)
    /\ \A k \in DOMAIN extents : extents[k] = ExtentOf(k)
    /\ Queued \in 0 .. Len(regions)
    /\ alloc.list.iter = Node(Queued + 1)
    /\ \A k \in 1 .. Queued : pieces[inode.depth + k] = PieceOf(k)
    /\ IF backing = "none" THEN left = 0 /\ Queued = 0
       ELSE left = IF Queued = Len(regions) THEN 0 ELSE len - Offset(Queued + 1)
    /\ inode.i_blocks = ((block_len + inode.depth) * BlockSize) \div SectorSize

Extents == [file_block : Nat, len : Nat, block : Nat]
Pieces == [block : Nat, size : Int, of : {"leaf", "data", "file"}, at : Int]

ExtentInv ==
    /\ pc = "idle" => IdleInv
    /\ pc \in ExtentSteps =>
          Requested /\ extents \in Seq(Extents) /\ pieces \in Seq(Pieces)
    /\ pc = "header" => HeaderInv
    /\ pc \in ExtentSteps \ {"header"} =>
          ListsInv /\ (inode.depth = 1 => leaf.entries = Len(regions))
    /\ pc = "fill" => FillInv
    /\ pc \in {"backing", "done"} => BackingInv
    /\ pc = "done" => left = 0

-----------------------------------------------------------------------------
(* Sums of lengths                                                         *)

Measured(s) == (\E X : s \in Seq(X)) /\ \A k \in 1 .. Len(s) : s[k].len \in Nat

\* The function inside SumLen.
IsSum(f, s) == f = [k \in 0 .. Len(s) |-> IF k = 0 THEN 0 ELSE f[k - 1] + s[k].len]

LEMMA SumExists ==
    ASSUME NEW s, Measured(s)
    PROVE  \E f \in [0 .. Len(s) -> Nat] : IsSum(f, s)
<1> DEFINE L == Len(s)
           step == [kv \in (1 .. L) \X Nat |-> kv[2] + s[kv[1]].len]
<1>1. L \in Nat /\ \A k \in 1 .. L : s[k].len \in Nat
  BY DEF Measured
<1> HIDE DEF L
<1>2. \A k \in 1 .. L : \A v \in Nat : step[<<k, v>>] = v + s[k].len
  OBVIOUS
<1> HIDE DEF step
<1>3. IsStep(step, L, Nat)
  <2> SUFFICES ASSUME NEW k \in 1 .. L, NEW v \in Nat PROVE step[<<k, v>>] \in Nat
    BY DEF IsStep
  <2>1. s[k].len \in Nat /\ step[<<k, v>>] = v + s[k].len
    BY <1>1, <1>2
  <2> QED BY <2>1
<1>4. PICK f \in [0 .. L -> Nat] : BuiltBy(f, L, 0, step)
  BY <1>1, <1>3, Recursion
<1> DEFINE Body(k) == IF k = 0 THEN 0 ELSE f[k - 1] + s[k].len
           g == [k \in 0 .. L |-> Body(k)]
<1>5. ASSUME NEW k \in 0 .. L
      PROVE  f[k] = Body(k)
  <2>1. CASE k = 0
    BY <1>4, <2>1 DEF BuiltBy
  <2>2. CASE k # 0
    <3>1. k \in 1 .. L /\ k - 1 \in 0 .. L
      BY <1>1, <2>2
    <3>2. f[k] = step[<<k, f[k - 1]>>] /\ f[k - 1] \in Nat
      BY <1>4, <3>1 DEF BuiltBy
    <3> QED BY <1>2, <2>2, <3>1, <3>2
  <2> QED BY <2>1, <2>2
<1>6. f = g
  <2> HIDE DEF Body
  <2> QED BY <1>4, <1>5
<1> QED BY <1>4, <1>6 DEF IsSum, L

LEMMA SumValues ==
    ASSUME NEW s, Measured(s), NEW f, IsSum(f, s)
    PROVE  /\ f[0] = 0 /\ \A k \in 1 .. Len(s) : f[k] = f[k - 1] + s[k].len
           /\ \A k \in 0 .. Len(s) : f[k] \in Nat
<1> DEFINE L == Len(s)
           Body(k) == IF k = 0 THEN 0 ELSE f[k - 1] + s[k].len
           S == {k \in 0 .. L : f[k] \in Nat}
<1>1. L \in Nat /\ \A k \in 1 .. L : s[k].len \in Nat
  BY DEF Measured
<1>2. f = [k \in 0 .. L |-> Body(k)]
  BY Zenon DEF IsSum
<1> HIDE DEF L
<1>3. \A k \in 0 .. L : f[k] = Body(k)
  <2> HIDE DEF Body
  <2> QED BY <1>2
<1>4. f[0] = 0 /\ \A k \in 1 .. L : f[k] = f[k - 1] + s[k].len
  BY <1>1, <1>3
<1>5. 0 \in S
  BY <1>1, <1>4
<1>6. ASSUME NEW k \in 0 .. (L - 1), k \in S PROVE k + 1 \in S
  <2>1. k + 1 \in 1 .. L /\ (k + 1) - 1 = k /\ f[k] \in Nat
    BY <1>1, <1>6
  <2>2. f[k + 1] = f[k] + s[k + 1].len /\ s[k + 1].len \in Nat
    BY <1>1, <1>4, <2>1
  <2> QED BY <2>1, <2>2
<1> HIDE DEF S
<1>7. \A k \in 0 .. L : k \in S
  BY <1>1, <1>5, <1>6, BoundedInduction
<1> QED BY <1>4, <1>7 DEF S, L

LEMMA SumLenIs ==
    ASSUME NEW s, Measured(s)
    PROVE  \E f : IsSum(f, s) /\ SumLen(s) = f[Len(s)]
<1> DEFINE f == CHOOSE g : IsSum(g, s)
<1>1. IsSum(f, s)
  BY SumExists
<1>2. SumLen(s) = f[Len(s)]
  BY Zenon DEF SumLen, IsSum
<1> QED BY <1>1, <1>2

\* Sums that begin with the same lengths are the same.
LEMMA SameSums ==
    ASSUME NEW s, Measured(s), NEW f, IsSum(f, s),
           NEW t, Measured(t), NEW g, IsSum(g, t),
           Len(t) <= Len(s), \A k \in 1 .. Len(t) : t[k].len = s[k].len
    PROVE  \A k \in 0 .. Len(t) : g[k] = f[k]
<1> DEFINE L == Len(t)
           S == {k \in 0 .. L : g[k] = f[k]}
<1>1. L \in Nat /\ Len(s) \in Nat
  BY DEF Measured
<1>2. /\ f[0] = 0 /\ g[0] = 0
      /\ \A k \in 1 .. L : f[k] = f[k - 1] + s[k].len /\ g[k] = g[k - 1] + t[k].len
  BY <1>1, SumValues
<1> HIDE DEF L
<1>3. 0 \in S
  BY <1>1, <1>2
<1>4. ASSUME NEW k \in 0 .. (L - 1), k \in S PROVE k + 1 \in S
  <2>1. k + 1 \in 1 .. L /\ (k + 1) - 1 = k /\ f[k] = g[k]
    BY <1>1, <1>4
  <2> QED BY <1>1, <1>2, <2>1 DEF L
<1> HIDE DEF S
<1>5. \A k \in 0 .. L : k \in S
  BY <1>1, <1>3, <1>4, BoundedInduction
<1> QED BY <1>5 DEF S, L

LEMMA PrefixMeasured ==
    ASSUME NEW s, Measured(s), NEW m \in 0 .. Len(s)
    PROVE  /\ Measured(SubSeq(s, 1, m)) /\ Len(SubSeq(s, 1, m)) = m
           /\ \A k \in 1 .. m : SubSeq(s, 1, m)[k] = s[k]
<1>1. PICK X : s \in Seq(X)
  BY DEF Measured
<1>2. Len(s) \in Nat /\ m \in Nat /\ m <= Len(s) /\ \A k \in 1 .. Len(s) : s[k] \in X
  BY <1>1
<1>3. \A k \in 1 .. m : s[k] \in X /\ s[1 + k - 1] = s[k]
  BY <1>2
<1>4. /\ SubSeq(s, 1, m) \in Seq(X) /\ Len(SubSeq(s, 1, m)) = m
      /\ \A k \in 1 .. m : SubSeq(s, 1, m)[k] = s[k]
  <2>1. /\ SubSeq(s, 1, m) \in Seq(X)
        /\ Len(SubSeq(s, 1, m)) = IF 1 <= m THEN m - 1 + 1 ELSE 0
        /\ \A i \in 1 .. m - 1 + 1 : SubSeq(s, 1, m)[i] = s[1 + i - 1]
    BY <1>1, <1>2, <1>3, SubSeqProperties
  <2> QED BY <1>2, <1>3, <2>1
<1>5. \A k \in 1 .. m : s[k].len \in Nat
  BY <1>2 DEF Measured
<1> QED BY <1>4, <1>5 DEF Measured

LEMMA SumOfPrefix ==
    ASSUME NEW s, Measured(s), NEW f, IsSum(f, s), NEW m \in 0 .. Len(s)
    PROVE  Sum(s, m) = f[m]
<1> DEFINE t == SubSeq(s, 1, m)
<1>1. Measured(t) /\ Len(t) = m /\ \A k \in 1 .. m : t[k] = s[k]
  BY PrefixMeasured
<1>2. m <= Len(s) /\ m \in Nat
  BY DEF Measured
<1> HIDE DEF t
<1>3. PICK g : IsSum(g, t) /\ SumLen(t) = g[Len(t)]
  BY <1>1, SumLenIs
<1>4. \A k \in 0 .. m : g[k] = f[k]
  BY <1>1, <1>2, <1>3, SameSums
<1> QED BY <1>1, <1>2, <1>3, <1>4 DEF Sum, t

LEMMA SumFacts ==
    ASSUME NEW s, Measured(s)
    PROVE  /\ Sum(s, 0) = 0 /\ Sum(s, Len(s)) = SumLen(s)
           /\ \A m \in 0 .. Len(s) : Sum(s, m) \in Nat
           /\ \A m \in 1 .. Len(s) : Sum(s, m) = Sum(s, m - 1) + s[m].len
           /\ SumLen(s) \in Nat
<1>1. PICK f : IsSum(f, s) /\ SumLen(s) = f[Len(s)]
  BY SumLenIs
<1>2. \A m \in 0 .. Len(s) : Sum(s, m) = f[m]
  BY <1>1, SumOfPrefix
<1>3. Len(s) \in Nat
  BY DEF Measured
<1>4. 0 \in 0 .. Len(s) /\ Len(s) \in 0 .. Len(s)
      /\ \A m \in 1 .. Len(s) : m \in 0 .. Len(s) /\ m - 1 \in 0 .. Len(s)
  BY <1>3
<1>5. /\ f[0] = 0 /\ \A k \in 1 .. Len(s) : f[k] = f[k - 1] + s[k].len
      /\ \A k \in 0 .. Len(s) : f[k] \in Nat
  BY <1>1, SumValues
<1>6. ASSUME NEW m \in 1 .. Len(s) PROVE Sum(s, m) = Sum(s, m - 1) + s[m].len
  <2>1. m \in 0 .. Len(s) /\ m - 1 \in 0 .. Len(s) /\ f[m] = f[m - 1] + s[m].len
    BY <1>4, <1>5
  <2> QED BY <1>2, <2>1
<1> QED BY <1>1, <1>2, <1>4, <1>5, <1>6

LEMMA SumSame ==
    ASSUME NEW s, Measured(s), NEW t, Measured(t),
           Len(t) <= Len(s), \A k \in 1 .. Len(t) : t[k].len = s[k].len
    PROVE  \A m \in 0 .. Len(t) : Sum(t, m) = Sum(s, m)
<1>1. PICK f : IsSum(f, s)
  BY SumLenIs
<1>2. PICK g : IsSum(g, t)
  BY SumLenIs
<1>3. \A m \in 0 .. Len(t) : g[m] = f[m]
  BY <1>1, <1>2, SameSums
<1>4. \A m \in 0 .. Len(t) : m \in 0 .. Len(s)
  BY DEF Measured
<1> QED BY <1>1, <1>2, <1>3, <1>4, SumOfPrefix

\* Sums grow.
LEMMA SumGrows ==
    ASSUME NEW s, Measured(s), NEW m \in 0 .. Len(s), NEW n \in 0 .. m
    PROVE  Sum(s, n) <= Sum(s, m)
<1> DEFINE S == {j \in 0 .. (m - n) : Sum(s, n) <= Sum(s, n + j)}
<1>1. /\ \A j \in 0 .. Len(s) : Sum(s, j) \in Nat
      /\ \A j \in 1 .. Len(s) : Sum(s, j) = Sum(s, j - 1) + s[j].len
      /\ \A j \in 1 .. Len(s) : s[j].len \in Nat
  BY SumFacts DEF Measured
<1>2. m \in Nat /\ n \in Nat /\ n <= m /\ m <= Len(s) /\ Len(s) \in Nat
  BY DEF Measured
<1>3. 0 \in S
  BY <1>1, <1>2
<1>4. ASSUME NEW j \in 0 .. ((m - n) - 1), j \in S PROVE j + 1 \in S
  <2> DEFINE q == n + j
  <2>1. q \in 0 .. Len(s) /\ q + 1 \in 1 .. Len(s) /\ q + 1 \in 0 .. Len(s)
        /\ n + (j + 1) = q + 1 /\ (q + 1) - 1 = q /\ j + 1 \in 0 .. (m - n)
        /\ n \in 0 .. Len(s) /\ Sum(s, n) <= Sum(s, q)
    BY <1>2, <1>4
  <2> HIDE DEF q
  <2>2. /\ Sum(s, q + 1) = Sum(s, q) + s[q + 1].len /\ s[q + 1].len \in Nat
        /\ Sum(s, q) \in Nat /\ Sum(s, n) \in Nat
    BY <1>1, <2>1
  <2>3. Sum(s, n) <= Sum(s, q + 1)
    <3>1. /\ Sum(s, n) <= Sum(s, q) /\ Sum(s, q + 1) = Sum(s, q) + s[q + 1].len
          /\ s[q + 1].len \in Nat /\ Sum(s, q) \in Nat /\ Sum(s, n) \in Nat
      BY <2>1, <2>2
    <3> QED BY ONLY <3>1
  <2> QED BY <2>1, <2>3
<1> HIDE DEF S
<1>5. \A j \in 0 .. (m - n) : j \in S
  BY <1>2, <1>3, <1>4, m - n \in Nat, BoundedInduction
<1>6. m - n \in 0 .. (m - n) /\ n + (m - n) = m
  BY <1>2
<1> QED BY <1>5, <1>6 DEF S

-----------------------------------------------------------------------------
(* Blocks of regions                                                       *)

Placed(s) == Measured(s) /\ \A k \in 1 .. Len(s) : s[k].block \in Int

Span(r) == r.block .. (r.block + r.len - 1)

UpTo(s, m) == UNION {Span(s[k]) : k \in 1 .. m}

LEMMA BlocksUpTo ==
    ASSUME NEW s, Measured(s)
    PROVE  Blocks(s) = UpTo(s, Len(s))
<1>1. DOMAIN s = 1 .. Len(s)
  BY DEF Measured
<1> QED BY <1>1 DEF Blocks, UpTo, Span

\* Regions have no more blocks than their lengths add up to.
LEMMA BlocksAreFew ==
    ASSUME NEW s, Placed(s)
    PROVE  /\ IsFiniteSet(Blocks(s)) /\ Cardinality(Blocks(s)) \in Nat
           /\ Cardinality(Blocks(s)) <= SumLen(s)
<1> DEFINE Few(m) == IsFiniteSet(UpTo(s, m)) /\ Cardinality(UpTo(s, m)) <= Sum(s, m)
           S == {m \in 0 .. Len(s) : Few(m)}
<1>1. Measured(s) /\ Len(s) \in Nat
  BY DEF Placed, Measured
<1>2. /\ Sum(s, 0) = 0 /\ Sum(s, Len(s)) = SumLen(s)
      /\ \A m \in 0 .. Len(s) : Sum(s, m) \in Nat
      /\ \A m \in 1 .. Len(s) : Sum(s, m) = Sum(s, m - 1) + s[m].len
  BY <1>1, SumFacts
<1>3. 0 \in S
  <2>1. UpTo(s, 0) = {}
    BY DEF UpTo
  <2>2. IsFiniteSet({}) /\ Cardinality({}) = 0
    BY FS_EmptySet
  <2>3. Cardinality(UpTo(s, 0)) = 0 /\ IsFiniteSet(UpTo(s, 0)) /\ Sum(s, 0) = 0
    BY <1>2, <2>1, <2>2
  <2>4. Few(0)
    BY <2>3
  <2> HIDE DEF Few
  <2> QED BY <1>1, <2>4
<1>4. ASSUME NEW m \in 0 .. (Len(s) - 1), m \in S PROVE m + 1 \in S
  <2> DEFINE k == m + 1
             r == s[k]
             U == UpTo(s, m)
             V == Span(r)
  <2>1. k \in 1 .. Len(s) /\ k \in 0 .. Len(s) /\ m \in 0 .. Len(s) /\ k - 1 = m
    BY <1>1
  <2>2. r.len \in Nat /\ r.block \in Int
    BY <2>1 DEF Placed, Measured
  <2>3. IsFiniteSet(V) /\ Cardinality(V) = r.len
    <3> DEFINE a == r.block
               b == r.block + r.len - 1
    <3>1. a \in Int /\ b \in Int /\ b - a + 1 = r.len /\ (a > b <=> r.len = 0)
      BY <2>2, SMTT(60)
    <3> HIDE DEF a, b
    <3>2. IsFiniteSet(a .. b) /\ Cardinality(a .. b) = IF a > b THEN 0 ELSE b - a + 1
      BY <3>1, FS_Interval
    <3>3. V = a .. b
      BY DEF Span, a, b
    <3> QED BY <2>2, <3>1, <3>2, <3>3
  <2>4. IsFiniteSet(U) /\ Cardinality(U) <= Sum(s, m)
    BY <1>4
  <2>5. UpTo(s, k) = U \cup V
    <3>1. 1 .. k = (1 .. m) \cup {k}
      BY <2>1
    <3> HIDE DEF k
    <3> QED BY <3>1 DEF UpTo
  <2> HIDE DEF k, r, U, V
  <2>6. /\ IsFiniteSet(U \cup V) /\ IsFiniteSet(U \cap V)
        /\ Cardinality(U \cup V) = Cardinality(U) + Cardinality(V) - Cardinality(U \cap V)
    BY <2>3, <2>4, FS_Union, FS_Intersection
  <2>7. /\ Cardinality(U) \in Nat /\ Cardinality(V) \in Nat /\ Cardinality(U \cap V) \in Nat
    BY <2>3, <2>4, <2>6, FS_CardinalityType
  <2>8. Sum(s, k) = Sum(s, m) + r.len /\ Sum(s, m) \in Nat
    BY <1>2, <2>1 DEF r
  <2>9. Few(k)
    BY <2>2, <2>3, <2>4, <2>5, <2>6, <2>7, <2>8
  <2> QED BY <2>1, <2>9 DEF k
<1> HIDE DEF S
<1>5. \A m \in 0 .. Len(s) : m \in S
  BY <1>1, <1>3, <1>4, BoundedInduction
<1>6. Few(Len(s))
  BY <1>1, <1>5 DEF S
<1>7. Blocks(s) = UpTo(s, Len(s))
  BY <1>1, BlocksUpTo
<1> QED BY <1>2, <1>6, <1>7, FS_CardinalityType

Placement == [block : Nat, len : Nat, bg : Nat]

LEMMA ShortenedFacts ==
    ASSUME NEW s \in Seq(Placement), Len(s) > 0, s[1].len > 0, NEW d \in {0, 1}
    PROVE  LET t == Shortened(s, d) IN
           /\ t \in Seq(Placement) /\ Len(t) = Len(s) /\ DOMAIN t = 1 .. Len(s)
           /\ t[1].block = s[1].block + d /\ t[1].len = s[1].len - 1
           /\ \A k \in 2 .. Len(s) : t[k] = s[k]
<1> DEFINE r == [block |-> s[1].block + d, len |-> s[1].len - 1, bg |-> s[1].bg]
           t == Shortened(s, d)
<1>1. /\ Len(s) \in Nat /\ DOMAIN s = 1 .. Len(s) /\ \A k \in 1 .. Len(s) : s[k] \in Placement
      /\ 1 \in 1 .. Len(s)
  OBVIOUS
<1>2. /\ s[1] \in Placement /\ s[1].block \in Nat /\ s[1].len \in Nat
  BY <1>1 DEF Placement
<1>3. r \in Placement /\ r.block = s[1].block + d /\ r.len = s[1].len - 1
  <2> DEFINE e == s[1]
  <2>1. e \in [block : Nat, len : Nat, bg : Nat] /\ e.len > 0
    BY <1>2 DEF Placement
  <2> HIDE DEF e
  <2>2. e = [block |-> e.block, len |-> e.len, bg |-> e.bg]
        /\ e.block \in Nat /\ e.len \in Nat /\ e.bg \in Nat
    BY <2>1
  <2>3. r = [block |-> e.block + d, len |-> e.len - 1, bg |-> e.bg]
    BY DEF e
  <2> HIDE DEF r
  <2>4. e.block + d \in Nat /\ e.len - 1 \in Nat
    BY <2>1, <2>2
  <2> QED BY <2>2, <2>3, <2>4 DEF Placement, e
<1>4. t = [k \in 1 .. Len(s) |-> IF k = 1 THEN r ELSE s[k]]
  BY <1>1 DEF Shortened
<1> HIDE DEF r, t
<1>5. t \in Seq(Placement)
  BY <1>1, <1>3, <1>4
<1>6. Len(t) = Len(s) /\ DOMAIN t = 1 .. Len(s) /\ t[1] = r /\ \A k \in 2 .. Len(s) : t[k] = s[k]
  BY <1>1, <1>4, <1>5
<1> QED BY <1>3, <1>5, <1>6 DEF t

LEMMA PlacementsArePlaced ==
    ASSUME NEW s \in Seq(Placement)
    PROVE  Placed(s) /\ Measured(s)
<1>1. \A k \in 1 .. Len(s) : s[k] \in Placement
  OBVIOUS
<1>2. \A r \in Placement : r.len \in Nat /\ r.block \in Int
  BY DEF Placement
<1> QED BY <1>1, <1>2 DEF Placed, Measured

\* The sums are one less.
LEMMA ShortenedSums ==
    ASSUME NEW s \in Seq(Placement), Len(s) > 0, s[1].len > 0, NEW d \in {0, 1}
    PROVE  /\ \A m \in 1 .. Len(s) : Sum(Shortened(s, d), m) = Sum(s, m) - 1
           /\ SumLen(Shortened(s, d)) = SumLen(s) - 1
<1> DEFINE t == Shortened(s, d)
           S == {j \in 0 .. (Len(s) - 1) : Sum(t, j + 1) = Sum(s, j + 1) - 1}
<1>1. /\ t \in Seq(Placement) /\ Len(t) = Len(s)
      /\ t[1].len = s[1].len - 1 /\ \A k \in 2 .. Len(s) : t[k] = s[k]
  BY ShortenedFacts
<1>2. Measured(s) /\ Measured(t) /\ Len(s) \in Nat
  BY <1>1, PlacementsArePlaced
<1> HIDE DEF t
<1>3. /\ Sum(s, 0) = 0 /\ Sum(s, Len(s)) = SumLen(s)
      /\ \A m \in 0 .. Len(s) : Sum(s, m) \in Nat
      /\ \A m \in 1 .. Len(s) : Sum(s, m) = Sum(s, m - 1) + s[m].len
  BY <1>2, SumFacts
<1>4. /\ Sum(t, 0) = 0 /\ Sum(t, Len(s)) = SumLen(t)
      /\ \A m \in 0 .. Len(s) : Sum(t, m) \in Nat
      /\ \A m \in 1 .. Len(s) : Sum(t, m) = Sum(t, m - 1) + t[m].len
  BY <1>1, <1>2, SumFacts
<1>5. \A k \in 1 .. Len(s) : s[k].len \in Nat
  BY <1>2 DEF Measured
<1>6. 0 \in S
  <2>1. 1 \in 1 .. Len(s) /\ 1 - 1 = 0 /\ 0 + 1 = 1 /\ 0 \in 0 .. (Len(s) - 1)
    BY <1>2
  <2>2. Sum(s, 1) = 0 + s[1].len /\ Sum(t, 1) = 0 + t[1].len /\ s[1].len \in Nat
    BY <1>3, <1>4, <1>5, <2>1
  <2>3. Sum(t, 1) = Sum(s, 1) - 1
    BY <1>1, <2>2
  <2> QED BY <2>1, <2>3
<1>7. ASSUME NEW j \in 0 .. ((Len(s) - 1) - 1), j \in S PROVE j + 1 \in S
  <2> DEFINE k == j + 2
  <2>1. k \in 2 .. Len(s) /\ k \in 1 .. Len(s) /\ k - 1 = j + 1 /\ (j + 1) + 1 = k
        /\ j + 1 \in 0 .. (Len(s) - 1) /\ k - 1 \in 0 .. Len(s)
    BY <1>2
  <2>2. Sum(t, j + 1) = Sum(s, j + 1) - 1
    BY <1>7
  <2> HIDE DEF k
  <2>3. /\ Sum(s, k) = Sum(s, k - 1) + s[k].len /\ Sum(t, k) = Sum(t, k - 1) + s[k].len
        /\ s[k].len \in Nat /\ Sum(s, k - 1) \in Nat
    BY <1>1, <1>3, <1>4, <1>5, <2>1
  <2>4. Sum(t, k) = Sum(s, k) - 1
    BY <2>1, <2>2, <2>3
  <2> QED BY <2>1, <2>4
<1> HIDE DEF S
<1>8. Len(s) - 1 \in Nat
  BY <1>2
<1>9. \A j \in 0 .. (Len(s) - 1) : j \in S
  BY <1>6, <1>7, <1>8, BoundedInduction
<1>10. ASSUME NEW m \in 1 .. Len(s) PROVE Sum(t, m) = Sum(s, m) - 1
  <2>1. m - 1 \in 0 .. (Len(s) - 1) /\ (m - 1) + 1 = m
    BY <1>2
  <2>2. m - 1 \in S
    BY <1>9, <2>1
  <2> QED BY <2>1, <2>2 DEF S
<1>11. Len(s) \in 1 .. Len(s)
  BY <1>2
<1> QED BY <1>3, <1>4, <1>10, <1>11 DEF t

\* When the regions are apart, the one block that is missing is in none of them.
LEMMA ShortenedBlocks ==
    ASSUME NEW s \in Seq(Placement), Len(s) > 0, s[1].len > 0, NEW d \in {0, 1},
           Cardinality(Blocks(s)) = SumLen(s)
    PROVE  LET t == Shortened(s, d)
               x == IF d = 1 THEN s[1].block ELSE s[1].block + s[1].len - 1
           IN  /\ Blocks(t) = Blocks(s) \ {x} /\ x \in Blocks(s) /\ x \notin Blocks(t)
               /\ IsFiniteSet(Blocks(t)) /\ Cardinality(Blocks(t)) = SumLen(s) - 1
<1> DEFINE t == Shortened(s, d)
           x == IF d = 1 THEN s[1].block ELSE s[1].block + s[1].len - 1
<1>1. /\ t \in Seq(Placement) /\ Len(t) = Len(s)
      /\ t[1].block = s[1].block + d /\ t[1].len = s[1].len - 1
      /\ \A k \in 2 .. Len(s) : t[k] = s[k]
  BY ShortenedFacts
<1>2. SumLen(t) = SumLen(s) - 1
  BY ShortenedSums
<1>3. Placed(s) /\ Measured(s) /\ Placed(t) /\ Measured(t)
  BY <1>1, PlacementsArePlaced
<1>4. Len(s) \in Nat /\ 1 \in 1 .. Len(s) /\ s[1].block \in Int /\ s[1].len \in Nat
  BY <1>3 DEF Placed, Measured
<1> HIDE DEF t
<1>5. Span(s[1]) = Span(t[1]) \cup {x}
  <2> DEFINE b == s[1].block
             l == s[1].len
  <2>1. b \in Int /\ l \in Nat /\ l > 0
    BY <1>4
  <2>2. Span(s[1]) = b .. (b + l - 1) /\ Span(t[1]) = (b + d) .. ((b + d) + (l - 1) - 1)
    BY <1>1 DEF Span
  <2>3. x = IF d = 1 THEN b ELSE b + l - 1
    OBVIOUS
  <2> HIDE DEF b, l, x
  <2> QED BY <2>1, <2>2, <2>3
<1>6. Blocks(s) = UpTo(s, Len(s)) /\ Blocks(t) = UpTo(t, Len(s))
  BY <1>1, <1>3, BlocksUpTo
<1> HIDE DEF x
<1>7. Blocks(s) = Blocks(t) \cup {x}
  <2>1. 1 .. Len(s) = {1} \cup (2 .. Len(s))
    BY <1>4
  <2>2. UpTo(s, Len(s)) = Span(s[1]) \cup UNION {Span(s[k]) : k \in 2 .. Len(s)}
    BY <2>1 DEF UpTo
  <2>3. UpTo(t, Len(s)) = Span(t[1]) \cup UNION {Span(t[k]) : k \in 2 .. Len(s)}
    BY <2>1 DEF UpTo
  <2>4. UNION {Span(t[k]) : k \in 2 .. Len(s)} = UNION {Span(s[k]) : k \in 2 .. Len(s)}
    <3>1. \A k \in 2 .. Len(s) : Span(t[k]) = Span(s[k])
      BY <1>1
    <3> QED BY <3>1
  <2> DEFINE R == UNION {Span(s[k]) : k \in 2 .. Len(s)}
  <2>5. Blocks(s) = Span(s[1]) \cup R /\ Blocks(t) = Span(t[1]) \cup R
    BY <1>6, <2>2, <2>3, <2>4
  <2> HIDE DEF R
  <2> QED BY <1>5, <2>5
<1>8. /\ IsFiniteSet(Blocks(t)) /\ Cardinality(Blocks(t)) \in Nat
      /\ Cardinality(Blocks(t)) <= SumLen(t) /\ SumLen(t) \in Nat /\ SumLen(s) \in Nat
  BY <1>3, BlocksAreFew, SumFacts
<1>9. Cardinality(Blocks(s)) = IF x \in Blocks(t) THEN Cardinality(Blocks(t))
                               ELSE Cardinality(Blocks(t)) + 1
  BY <1>7, <1>8, FS_AddElement
<1>10. x \notin Blocks(t) /\ Cardinality(Blocks(t)) = SumLen(s) - 1
  BY <1>2, <1>8, <1>9
<1> QED BY <1>7, <1>8, <1>10 DEF t, x

-----------------------------------------------------------------------------
(* What a request asks for                                                 *)

LEMMA SizeFacts ==
    /\ BlockSize \in Nat /\ BlockSize > 0 /\ SectorSize \in Nat /\ SectorSize > 0
    /\ BlockSize % SectorSize = 0
    /\ \A tail \in Tails : tail \in Nat /\ tail < BlockSize
BY Sizes

LEMMA LayoutFacts ==
    ASSUME NEW s \in Layouts
    PROVE  /\ s \in Seq(Placement) /\ Len(s) \in Nat /\ Len(s) > 0 /\ DOMAIN s = 1 .. Len(s)
           /\ SumLen(s) \in Nat /\ SumLen(s) > 1 /\ Cardinality(Blocks(s)) = SumLen(s)
           /\ s[1].len \in Nat /\ s[1].block \in Nat
           /\ s[1].len > 1
           /\ \A k \in 1 .. Len(s) : s[k].len \in Nat \ {0} /\ s[k].block \in Nat
           /\ \A k \in 1 .. (Len(s) - 1) : s[k].len > 1
<1>1. /\ s \in Seq(Placement) /\ Len(s) > 0 /\ SumLen(s) > 1
      /\ Cardinality(Blocks(s)) = SumLen(s)
      /\ \A k \in DOMAIN s : s[k].len > IF k < Len(s) THEN 1 ELSE 0
  BY LayoutsAreAllocations DEF Placement
<1>2. Len(s) \in Nat /\ DOMAIN s = 1 .. Len(s) /\ \A k \in 1 .. Len(s) : s[k] \in Placement
  BY <1>1
<1>3. \A r \in Placement : r.len \in Nat /\ r.block \in Nat
  BY DEF Placement
<1>4. Measured(s)
  BY <1>1, PlacementsArePlaced
<1>5. /\ SumLen(s) \in Nat /\ Sum(s, 0) = 0 /\ Sum(s, Len(s)) = SumLen(s)
      /\ \A m \in 1 .. Len(s) : Sum(s, m) = Sum(s, m - 1) + s[m].len
  BY <1>4, SumFacts
<1>6. \A k \in 1 .. Len(s) : s[k].len \in Nat \ {0} /\ s[k].block \in Nat
  BY <1>1, <1>2, <1>3
<1>7. \A k \in 1 .. (Len(s) - 1) : s[k].len > 1
  BY <1>1, <1>2
<1>8. 1 \in 1 .. Len(s)
  BY <1>1, <1>2
<1>9. s[1].len > 1
  <2>1. CASE Len(s) = 1
    <3>1. Sum(s, 1) = Sum(s, 0) + s[1].len
      BY <1>5, <1>8, 1 - 1 = 0
    <3>2. s[1].len \in Nat
      BY <1>6, <1>8
    <3> QED BY <1>1, <1>5, <2>1, <3>1, <3>2
  <2>2. CASE Len(s) # 1
    BY <1>2, <1>7, <1>8, <2>2
  <2> QED BY <2>1, <2>2
<1> QED BY <1>1, <1>2, <1>5, <1>6, <1>7, <1>8, <1>9

\* The regions with data.
LEMMA KeptFacts ==
    ASSUME Requested, inode.depth \in {0, 1}
    PROVE  /\ Kept \in Seq(Placement) /\ Measured(Kept) /\ Len(Kept) = Len(regions)
           /\ \A k \in 1 .. Len(regions) : Kept[k].len \in Nat \ {0} /\ Kept[k].block \in Nat
           /\ Sum(Kept, 0) = 0 /\ Sum(Kept, Len(regions)) = SumLen(regions) - 1
           /\ \A m \in 0 .. Len(regions) : Sum(Kept, m) \in Nat
           /\ \A m \in 1 .. Len(regions) : Sum(Kept, m) = Sum(Kept, m - 1) + Kept[m].len
<1> DEFINE t == Shortened(regions, inode.depth)
           d == inode.depth
<1>1. regions \in Layouts
  BY DEF Requested
<1>2. /\ regions \in Seq(Placement) /\ Len(regions) \in Nat /\ Len(regions) > 0
      /\ regions[1].len \in Nat /\ regions[1].len > 1 /\ regions[1].block \in Nat
      /\ \A k \in 1 .. Len(regions) : regions[k].len \in Nat \ {0} /\ regions[k].block \in Nat
  BY <1>1, LayoutFacts
<1>3. d \in {0, 1} /\ regions[1].len > 0
  BY <1>2
<1>4. /\ t \in Seq(Placement) /\ Len(t) = Len(regions)
      /\ t[1].block = regions[1].block + d /\ t[1].len = regions[1].len - 1
      /\ \A k \in 2 .. Len(regions) : t[k] = regions[k]
  BY <1>2, <1>3, ShortenedFacts
<1>5. SumLen(t) = SumLen(regions) - 1
  BY <1>2, <1>3, ShortenedSums
<1> HIDE DEF t
<1>6. Measured(t)
  BY <1>4, PlacementsArePlaced
<1>7. /\ Sum(t, 0) = 0 /\ Sum(t, Len(regions)) = SumLen(t)
      /\ \A m \in 0 .. Len(regions) : Sum(t, m) \in Nat
      /\ \A m \in 1 .. Len(regions) : Sum(t, m) = Sum(t, m - 1) + t[m].len
  BY <1>4, <1>6, SumFacts
<1>8. ASSUME NEW k \in 1 .. Len(regions) PROVE t[k].len \in Nat \ {0} /\ t[k].block \in Nat
  <2>1. CASE k = 1
    BY <1>2, <1>3, <1>4, <2>1
  <2>2. CASE k # 1
    BY <1>2, <1>4, <2>2, k \in 2 .. Len(regions)
  <2> QED BY <2>1, <2>2
<1>9. Kept = t
  BY DEF Kept, t
<1> HIDE DEF d
<1> QED BY <1>4, <1>5, <1>6, <1>7, <1>8, <1>9

\* The request needs one block less than it gets.
LEMMA RequestFacts ==
    ASSUME Requested
    PROVE  /\ block_len = SumLen(regions) - 1 /\ len \in Nat /\ len > 0
           /\ (SumLen(regions) - 2) * BlockSize < len
           /\ len <= (SumLen(regions) - 1) * BlockSize
<1>1. PICK tail \in Tails : len = (SumLen(regions) - 1) * BlockSize - tail
  BY DEF Requested
<1>2. SumLen(regions) \in Nat /\ SumLen(regions) > 1
  BY LayoutFacts DEF Requested
<1>3. BlockSize \in Nat /\ BlockSize > 0 /\ tail \in Nat /\ tail < BlockSize
  BY SizeFacts
<1> DEFINE q == SumLen(regions) - 1
           p == q - 1
           Q == q * BlockSize
           P == p * BlockSize
           r == BlockSize - 1 - tail
<1>4. q \in Nat /\ p \in Nat /\ q \in Int /\ r \in 0 .. (BlockSize - 1) /\ BlockSize \in Nat \ {0}
      /\ p = SumLen(regions) - 2
  BY <1>2, <1>3
<1>5. Q = P + BlockSize /\ P \in Nat /\ Q \in Nat
  <2> HIDE DEF q
  <2>1. \A a, b \in Nat : a * b \in Nat
    OBVIOUS
  <2>2. P \in Nat /\ Q \in Nat
    <3> HIDE DEF p
    <3> QED BY <1>3, <1>4, <2>1
  <2>3. q * BlockSize = (q - 1) * BlockSize + BlockSize
    BY <1>3, <1>4
  <2> QED BY <2>2, <2>3
<1> HIDE DEF p, q
<1>6. (Q + r) \div BlockSize = q
  BY <1>4, UniqueDivision
<1>7. len = Q - tail
  BY <1>1 DEF q
<1> HIDE DEF Q, P
<1>8. len + BlockSize - 1 = Q + r
  BY <1>3, <1>5, <1>7
<1>9. block_len = q
  BY <1>6, <1>8 DEF block_len
<1>10. len \in Nat /\ len > 0 /\ P < len /\ len <= Q
  BY <1>3, <1>5, <1>7
<1> QED BY <1>4, <1>9, <1>10 DEF P, Q, p, q

-----------------------------------------------------------------------------
(* MapExact                                                                *)

LEMMA ExtentSums ==
    ASSUME Requested, inode.depth \in {0, 1}, extents \in Seq(Extents),
           Len(extents) <= Len(regions),
           \A k \in DOMAIN extents : extents[k] = ExtentOf(k)
    PROVE  /\ Measured(extents)
           /\ \A k \in 1 .. Len(extents) :
                 /\ extents[k].file_block = Sum(Kept, k - 1)
                 /\ extents[k].len = Kept[k].len /\ extents[k].block = Kept[k].block
           /\ \A m \in 0 .. Len(extents) : Sum(extents, m) = Sum(Kept, m)
           /\ SumLen(extents) = Sum(Kept, Len(extents))
<1>1. /\ Measured(Kept) /\ Len(Kept) = Len(regions)
      /\ \A k \in 1 .. Len(regions) : Kept[k].len \in Nat \ {0} /\ Kept[k].block \in Nat
  BY KeptFacts
<1>2. Len(extents) \in Nat /\ DOMAIN extents = 1 .. Len(extents) /\ Len(regions) \in Nat
  BY <1>1 DEF Measured
<1>3. \A k \in 1 .. Len(extents) :
         /\ extents[k].file_block = Sum(Kept, k - 1)
         /\ extents[k].len = Kept[k].len /\ extents[k].block = Kept[k].block
  BY <1>2 DEF ExtentOf
<1>4. Measured(extents)
  <2>1. \A k \in 1 .. Len(extents) : extents[k].len \in Nat
    BY <1>1, <1>2, <1>3
  <2> QED BY <2>1 DEF Measured
<1>5. \A m \in 0 .. Len(extents) : Sum(extents, m) = Sum(Kept, m)
  BY <1>1, <1>3, <1>4, SumSame
<1>6. SumLen(extents) = Sum(extents, Len(extents))
  BY <1>4, SumFacts
<1> QED BY <1>2, <1>3, <1>4, <1>5, <1>6

LEMMA WholeSectors ==
    ASSUME NEW n \in Nat
    PROVE  ((n * BlockSize) \div SectorSize) * SectorSize = n * BlockSize
<1> DEFINE q == BlockSize \div SectorSize
           b == BlockSize
           z == SectorSize
<1>1. b \in Nat /\ z \in Nat \ {0} /\ b % z = 0
  BY SizeFacts
<1> HIDE DEF b, z
<1>2. q \in Int /\ b = q * z + (b % z)
  BY <1>1, QuotientAndRest DEF b, z
<1> HIDE DEF q
<1>3. b = q * z
  BY <1>1, <1>2
<1>4. n * b = (n * q) * z
  BY <1>1, <1>2, <1>3
<1> DEFINE w == n * q
<1>5. w \in Int
  BY <1>2
<1> HIDE DEF w
<1>6. 0 \in 0 .. (z - 1) /\ w * z + 0 = w * z
  BY <1>1, <1>5
<1>7. (w * z + 0) \div z = w
  BY <1>1, <1>5, <1>6, UniqueDivision
<1>8. n * b = w * z
  BY <1>4 DEF w
<1> QED BY <1>6, <1>7, <1>8 DEF b, z

LEMMA ExactMap ==
    ASSUME ExtentInv
    PROVE  MapExact
<1> SUFFICES ASSUME pc \in {"backing", "done"} PROVE MapExact
  BY DEF MapExact
<1>1. pc \in ExtentSteps /\ pc \in ExtentSteps \ {"header"}
  BY DEF ExtentSteps
<1>2. /\ Requested /\ ListsInv /\ BackingInv /\ extents \in Seq(Extents)
      /\ inode.depth = 1 => leaf.entries = Len(regions)
  BY <1>1 DEF ExtentInv
<1>3. /\ inode.depth \in {0, 1} /\ Len(extents) = Len(regions)
      /\ \A k \in DOMAIN extents : extents[k] = ExtentOf(k)
      /\ inode.i_blocks = ((block_len + inode.depth) * BlockSize) \div SectorSize
  BY <1>2 DEF ListsInv, BackingInv
<1>4. /\ regions \in Layouts /\ regions \in Seq(Placement)
      /\ Len(regions) \in Nat /\ Len(regions) > 0 /\ regions[1].len > 0
      /\ SumLen(regions) \in Nat /\ SumLen(regions) > 1
      /\ Cardinality(Blocks(regions)) = SumLen(regions)
      /\ regions[1].len \in Nat /\ regions[1].block \in Nat
  BY <1>2, LayoutFacts DEF Requested
<1>5. block_len = SumLen(regions) - 1
  BY <1>2, RequestFacts
<1>6. /\ Measured(extents)
      /\ \A k \in 1 .. Len(regions) :
            /\ extents[k].file_block = Sum(Kept, k - 1)
            /\ extents[k].len = Kept[k].len /\ extents[k].block = Kept[k].block
      /\ \A m \in 0 .. Len(regions) : Sum(extents, m) = Sum(Kept, m)
      /\ SumLen(extents) = Sum(Kept, Len(regions))
  BY <1>2, <1>3, <1>4, ExtentSums
<1>7. Measured(Kept) /\ Len(Kept) = Len(regions) /\ Sum(Kept, Len(regions)) = SumLen(regions) - 1
  BY <1>2, <1>3, KeptFacts
<1>8. SumLen(extents) = block_len
  BY <1>5, <1>6, <1>7
<1>9. DOMAIN extents = 1 .. Len(regions)
  BY <1>2, <1>3
<1>10. \A k \in DOMAIN extents : extents[k].file_block = SumLen(SubSeq(extents, 1, k - 1))
  <2>1. ASSUME NEW k \in 1 .. Len(regions) PROVE extents[k].file_block = Sum(extents, k - 1)
    BY <1>4, <1>6, k - 1 \in 0 .. Len(regions)
  <2> QED BY <1>9, <2>1 DEF Sum
<1>11. Blocks(extents) = Blocks(Kept)
  <2>1. Blocks(extents) = UpTo(extents, Len(regions)) /\ Blocks(Kept) = UpTo(Kept, Len(regions))
    BY <1>3, <1>6, <1>7, BlocksUpTo
  <2>2. \A k \in 1 .. Len(regions) : Span(extents[k]) = Span(Kept[k])
    BY <1>6 DEF Span
  <2> QED BY <2>1, <2>2 DEF UpTo
<1> DEFINE x == IF inode.depth = 1 THEN regions[1].block ELSE regions[1].block + regions[1].len - 1
           index == {inode.index : d \in 1 .. inode.depth}
<1>12. /\ Blocks(Kept) = Blocks(regions) \ {x} /\ x \notin Blocks(Kept)
       /\ IsFiniteSet(Blocks(Kept)) /\ Cardinality(Blocks(Kept)) = SumLen(regions) - 1
  BY <1>3, <1>4, ShortenedBlocks DEF Kept
<1>13. /\ Returned \cup index = {x}
       /\ inode.depth = 0 => index = {}
       /\ inode.depth = 1 => index = {x}
       /\ Len(regions) = IF inode.depth = 1 THEN leaf.entries ELSE inode.header.entries
  <2>1. CASE inode.depth = 0
    <3>1. inode.header.entries = Len(regions)
      BY <1>2, <2>1 DEF ListsInv
    <3>2. index = {}
      BY <2>1
    <3>3. Returned = {x}
      BY <1>4, <2>1, <3>1 DEF Returned
    <3> QED BY <2>1, <3>1, <3>2, <3>3
  <2>2. CASE inode.depth = 1
    <3>1. inode.index = regions[1].block
      BY <1>2, <2>2 DEF ListsInv
    <3>2. index = {x}
      BY <2>2, <3>1
    <3>3. Returned = {}
      BY <2>2 DEF Returned
    <3>4. leaf.entries = Len(regions)
      BY <1>2, <2>2
    <3>5. x = inode.index
      BY <2>2, <3>1
    <3> HIDE DEF x, index
    <3> QED BY <2>2, <3>1, <3>2, <3>3, <3>4, <3>5
  <2> QED BY <1>3, <2>1, <2>2
<1> HIDE DEF x, index
<1>14. Cardinality(Blocks(extents)) = block_len
       /\ Blocks(extents) = Blocks(regions) \ (Returned \cup index)
  BY <1>5, <1>11, <1>12, <1>13
<1>15. Cardinality(Blocks(extents) \cup index) = block_len + inode.depth
  <2>1. CASE inode.depth = 0
    <3>1. Blocks(extents) \cup index = Blocks(extents)
      BY <1>13, <2>1
    <3>2. block_len + 0 = block_len
      BY <1>4, <1>5
    <3> QED BY <1>14, <2>1, <3>1, <3>2
  <2>2. CASE inode.depth = 1
    <3>1. IsFiniteSet(Blocks(extents)) /\ x \notin Blocks(extents)
      BY <1>11, <1>12
    <3>2. Cardinality(Blocks(extents) \cup {x}) = Cardinality(Blocks(extents)) + 1
      BY <3>1, FS_AddElement
    <3> QED BY <1>13, <1>14, <2>2, <3>2
  <2> QED BY <1>3, <2>1, <2>2
<1>16. inode.i_blocks * SectorSize = Cardinality(Blocks(extents) \cup index) * BlockSize
  <2> DEFINE n == block_len + inode.depth
  <2>1. n \in Nat
    BY <1>3, <1>4, <1>5
  <2> HIDE DEF n
  <2>2. ((n * BlockSize) \div SectorSize) * SectorSize = n * BlockSize
    BY <2>1, WholeSectors
  <2>3. inode.i_blocks = (n * BlockSize) \div SectorSize /\ Cardinality(Blocks(extents) \cup index) = n
    BY <1>3, <1>15 DEF n
  <2> QED BY <2>2, <2>3
<1>17. Len(extents) = IF inode.depth = 1 THEN leaf.entries ELSE inode.header.entries
  BY <1>3, <1>13
<1> QED BY <1>8, <1>10, <1>14, <1>16, <1>17 DEF MapExact, index

-----------------------------------------------------------------------------
(* DataFollowsMap                                                          *)

\* What is left of the data lies in the regions that are left.
LEMMA OffsetFacts ==
    ASSUME Requested, inode.depth \in {0, 1}
    PROVE  /\ Offset(1) = 0 /\ Offset(Len(regions)) < len
           /\ len <= Offset(Len(regions)) + Kept[Len(regions)].len * BlockSize
           /\ \A k \in 1 .. (Len(regions) + 1) : Offset(k) \in Nat
           /\ \A k \in 1 .. Len(regions) :
                 /\ Kept[k].len * BlockSize \in Nat
                 /\ Offset(k + 1) = Offset(k) + Kept[k].len * BlockSize
           /\ \A k \in 1 .. Len(regions) : Offset(k) < len
<1> DEFINE n == Len(regions)
           F(m) == Sum(Kept, m)
           E(k) == Kept[k].len
<1>1. /\ Len(Kept) = n /\ n \in Nat /\ n > 0
      /\ \A k \in 1 .. n : E(k) \in Nat \ {0}
      /\ F(0) = 0 /\ F(n) = SumLen(regions) - 1
      /\ \A m \in 0 .. n : F(m) \in Nat
      /\ \A m \in 1 .. n : F(m) = F(m - 1) + E(m)
  BY KeptFacts, LayoutFacts DEF Requested
<1>2. /\ len \in Nat /\ (F(n) - 1) * BlockSize < len /\ len <= F(n) * BlockSize
  <2>1. SumLen(regions) \in Nat
    BY LayoutFacts DEF Requested
  <2>2. F(n) - 1 = SumLen(regions) - 2
    BY <1>1, <2>1
  <2> QED BY <1>1, <2>2, RequestFacts
<1>3. BlockSize \in Nat /\ BlockSize > 0
  BY SizeFacts
<1>4. \A k \in 1 .. (n + 1) : Offset(k) = F(k - 1) * BlockSize
  BY DEF Offset
<1>5. Measured(Kept)
  BY KeptFacts
<1> HIDE DEF F, E, n
<1>6. \A a, b \in Nat : a * b \in Nat
  OBVIOUS
<1>7. ASSUME NEW k \in 1 .. n
      PROVE  /\ E(k) * BlockSize \in Nat /\ Offset(k) \in Nat /\ Offset(k + 1) \in Nat
             /\ Offset(k + 1) = Offset(k) + E(k) * BlockSize
  <2>1. k - 1 \in 0 .. n /\ k \in 0 .. n /\ k \in 1 .. (n + 1) /\ k + 1 \in 1 .. (n + 1)
        /\ (k + 1) - 1 = k
    BY <1>1
  <2>2. F(k) = F(k - 1) + E(k) /\ F(k - 1) \in Nat /\ E(k) \in Nat /\ F(k) \in Nat
    BY <1>1, <2>1
  <2>3. Offset(k) = F(k - 1) * BlockSize /\ Offset(k + 1) = F(k) * BlockSize
    <3>1. Offset(k + 1) = F((k + 1) - 1) * BlockSize
      BY <1>4, <2>1
    <3> QED BY <1>4, <2>1, <3>1
  <2> DEFINE f == F(k - 1)
             e == E(k)
  <2>4. (f + e) * BlockSize = f * BlockSize + e * BlockSize
    <3> HIDE DEF f, e
    <3>1. \A a, b, c \in Nat : (a + b) * c = a * c + b * c
      OBVIOUS
    <3>2. f \in Nat /\ e \in Nat
      BY <2>2 DEF f, e
    <3> QED BY <1>3, <3>1, <3>2
  <2> QED BY <1>3, <1>6, <2>2, <2>3, <2>4
<1>8. Offset(1) = 0
  BY <1>1, <1>3, <1>4, 1 \in 1 .. (n + 1), 1 - 1 = 0
<1>9. n \in 1 .. n /\ n - 1 \in 0 .. n
  BY <1>1
<1>10. len <= Offset(n) + E(n) * BlockSize
  <2>1. n + 1 \in 1 .. (n + 1) /\ (n + 1) - 1 = n
    BY <1>1
  <2>2. Offset(n + 1) = F((n + 1) - 1) * BlockSize
    BY <1>4, <2>1
  <2> QED BY <1>2, <1>7, <1>9, <2>1, <2>2
<1>11. \A k \in 1 .. n : Offset(k) < len
  <2> SUFFICES ASSUME NEW k \in 1 .. n PROVE Offset(k) < len
    OBVIOUS
  <2> DEFINE f == F(k - 1)
             p == F(n) - 1
  <2>1. k - 1 \in 0 .. n /\ k - 1 \in 0 .. (n - 1) /\ k \in 1 .. (n + 1) /\ n - 1 \in 0 .. n
    BY <1>1
  <2>2. F(k - 1) <= F(n - 1)
    <3>1. n - 1 \in 0 .. Len(Kept) /\ k - 1 \in 0 .. (n - 1)
      BY <1>1, <2>1
    <3> QED BY <1>5, <3>1, SumGrows DEF F
  <2>3. F(n) = F(n - 1) + E(n) /\ E(n) \in Nat \ {0} /\ F(n - 1) \in Nat /\ F(k - 1) \in Nat
    BY <1>1, <1>9, <2>1
  <2>4. f \in Nat /\ p \in Nat /\ p - f \in Nat
    BY <2>2, <2>3
  <2>5. Offset(k) = f * BlockSize
    BY <1>4, <2>1
  <2>6. p * BlockSize < len
    BY <1>2
  <2> HIDE DEF f, p
  <2>7. (p - f) * BlockSize \in Nat
    BY <1>3, <1>6, <2>4
  <2>8. p * BlockSize = f * BlockSize + (p - f) * BlockSize
    <3>1. \A a, b, c \in Int : c * b = a * b + (c - a) * b
      OBVIOUS
    <3> QED BY <1>3, <2>4, <3>1
  <2>9. f * BlockSize \in Nat /\ p * BlockSize \in Nat
    BY <1>3, <1>6, <2>4
  <2> QED BY <1>2, <2>5, <2>6, <2>7, <2>8, <2>9
<1>12. \A k \in 1 .. (n + 1) : Offset(k) \in Nat
  <2> SUFFICES ASSUME NEW k \in 1 .. (n + 1) PROVE Offset(k) \in Nat
    OBVIOUS
  <2>1. k - 1 \in 0 .. n
    BY <1>1
  <2>2. F(k - 1) \in Nat
    BY <1>1, <2>1
  <2> QED BY <1>3, <1>4, <1>6, <2>2
<1> QED BY <1>7, <1>8, <1>9, <1>10, <1>11, <1>12 DEF n, E

\* A byte of the k-th region of the file is mapped into that region.
LEMMA MappedInto ==
    ASSUME Requested, inode.depth \in {0, 1}, extents \in Seq(Extents),
           Len(extents) = Len(regions),
           \A k \in DOMAIN extents : extents[k] = ExtentOf(k),
           NEW k \in 1 .. Len(regions), NEW o \in Nat, o < Kept[k].len * BlockSize
    PROVE  Mapped(Offset(k) + o) = Kept[k].block + (o \div BlockSize)
<1> DEFINE n == Len(regions)
           F(m) == Sum(Kept, m)
           q == o \div BlockSize
           f == F(k - 1)
           b == f + q
           Has(x) == b \in x.file_block .. (x.file_block + x.len - 1)
           e == CHOOSE x \in SetOf(extents) : Has(x)
<1>1. /\ Measured(Kept) /\ Len(Kept) = n
      /\ \A j \in 1 .. n : Kept[j].len \in Nat \ {0} /\ Kept[j].block \in Nat
      /\ \A m \in 0 .. n : F(m) \in Nat
      /\ \A m \in 1 .. n : F(m) = F(m - 1) + Kept[m].len
  BY KeptFacts
<1>2. n \in Nat /\ k - 1 \in 0 .. n /\ k \in 0 .. n /\ k \in Nat
  BY <1>1 DEF Measured
<1>3. BlockSize \in Nat \ {0} /\ BlockSize \in Nat
  BY SizeFacts
<1>4. f \in Nat /\ Kept[k].len \in Nat /\ Kept[k].block \in Nat /\ F(k) = f + Kept[k].len
  BY <1>1, <1>2
<1>5. q \in Int /\ o % BlockSize \in 0 .. (BlockSize - 1) /\ o = q * BlockSize + (o % BlockSize)
  <2>1. o \in Int
    OBVIOUS
  <2> HIDE DEF F, Has, e
  <2> QED BY <1>3, <2>1, QuotientAndRest
<1>6. q \in Nat /\ q < Kept[k].len
  <2> DEFINE r == o % BlockSize
             l == Kept[k].len
             lb == l * BlockSize
             qb == q * BlockSize
  <2>1. r \in Nat /\ r < BlockSize /\ o = qb + r /\ o < lb /\ l \in Nat
    BY <1>3, <1>4, <1>5
  <2>2. \A i, j \in Int : i < j => i * BlockSize + BlockSize <= j * BlockSize
    BY <1>3, Multiples
  <2> HIDE DEF q, r, l
  <2>3. qb \in Int /\ lb \in Int
    BY <1>3, <1>5, <2>1
  <2>4. q < 0 => qb + BlockSize <= 0
    <3>1. q < 0 => q * BlockSize + BlockSize <= 0 * BlockSize
      BY <1>5, <2>2
    <3>2. 0 * BlockSize = 0
      BY <1>3
    <3> QED BY <3>1, <3>2
  <2>5. l < q => lb + BlockSize <= qb
    BY <1>5, <2>1, <2>2
  <2>6. l = q => lb = qb
    OBVIOUS
  <2> HIDE DEF lb, qb
  <2>7. ~(q < 0) /\ ~(l < q) /\ l # q
    BY <1>3, <2>1, <2>3, <2>4, <2>5, <2>6
  <2> QED BY <1>5, <2>1, <2>7 DEF l
<1>7. (Offset(k) + o) \div BlockSize = b
  <2> DEFINE r == o % BlockSize
             fb == f * BlockSize
             qb == q * BlockSize
  <2>1. Offset(k) = fb
    BY DEF Offset
  <2>2. o = qb + r /\ r \in 0 .. (BlockSize - 1)
    BY <1>5
  <2> HIDE DEF f, q, r
  <2>3. b * BlockSize = fb + qb /\ fb \in Int /\ qb \in Int /\ b \in Int
    BY <1>3, <1>4, <1>5
  <2>4. (b * BlockSize + r) \div BlockSize = b
    BY <1>3, <2>2, <2>3, UniqueDivision
  <2>5. Offset(k) + o = b * BlockSize + r
    <3> HIDE DEF fb, qb, b
    <3> QED BY <1>3, <2>1, <2>2, <2>3
  <2> QED BY <2>4, <2>5
<1>8. /\ DOMAIN extents = 1 .. n
      /\ \A j \in 1 .. n : /\ extents[j].file_block = F(j - 1)
                           /\ extents[j].len = Kept[j].len /\ extents[j].block = Kept[j].block
  <2>1. DOMAIN extents = 1 .. n
    OBVIOUS
  <2> QED BY <2>1 DEF ExtentOf
<1> HIDE DEF F, n, q, f
<1>9. Has(extents[k])
  <2>1. k \in 1 .. n
    BY DEF n
  <2>2. extents[k].file_block = f /\ extents[k].len = Kept[k].len
    BY <1>8, <2>1 DEF f
  <2> QED BY <1>4, <1>6, <2>2
<1>10. ASSUME NEW j \in 1 .. n, j # k PROVE ~Has(extents[j])
  <2>1. j - 1 \in 0 .. n /\ j \in 0 .. n /\ j \in Nat
    BY <1>2
  <2>2. F(j - 1) \in Nat /\ F(j) = F(j - 1) + Kept[j].len /\ F(j) \in Nat /\ Kept[j].len \in Nat
    BY <1>1, <2>1
  <2>3. F(k) \in Nat
    BY <1>1, <1>2
  <2>4. CASE j < k
    <3>1. j \in 0 .. (k - 1) /\ k - 1 \in 0 .. Len(Kept)
      BY <1>1, <1>2, <2>1, <2>4
    <3>2. F(j) <= F(k - 1)
      BY <1>1, <3>1, SumGrows DEF F
    <3> QED BY <1>4, <1>6, <1>8, <2>2, <3>2, SMTT(60) DEF f
  <2>5. CASE k < j
    <3>1. k \in 0 .. (j - 1) /\ j - 1 \in 0 .. Len(Kept)
      BY <1>1, <1>2, <2>1, <2>5
    <3>2. F(k) <= F(j - 1)
      BY <1>1, <3>1, SumGrows DEF F
    <3> QED BY <1>4, <1>6, <1>8, <2>2, <2>3, <3>2, SMTT(60)
  <2> QED BY <1>2, <1>10, <2>1, <2>4, <2>5
<1>11. SetOf(extents) = {extents[j] : j \in 1 .. n}
  BY <1>8 DEF SetOf
<1> HIDE DEF Has
<1>12. e = extents[k]
  <2>1. extents[k] \in SetOf(extents)
    BY <1>11 DEF n
  <2>2. \A x \in SetOf(extents) : Has(x) => x = extents[k]
    BY <1>10, <1>11
  <2>3. e \in SetOf(extents) /\ Has(e)
    BY <1>9, <2>1
  <2> QED BY <2>2, <2>3
<1>13. Mapped(Offset(k) + o) = e.block + (b - e.file_block)
  BY <1>7 DEF Mapped, Has
<1>14. e.block = Kept[k].block /\ e.file_block = f
  BY <1>8, <1>12 DEF n, f
<1>15. b - f = q
  BY <1>4, <1>6
<1> QED BY <1>13, <1>14, <1>15 DEF q

\* Queued so far and left to do.
LEMMA BackingFacts ==
    ASSUME ExtentInv, pc \in {"backing", "done"}
    PROVE  /\ Requested /\ ListsInv /\ BackingInv
           /\ inode.depth \in {0, 1} /\ Len(regions) \in Nat /\ Len(regions) > 0
           /\ Queued \in 0 .. Len(regions)
           /\ left > 0 => backing # "none" /\ Queued < Len(regions)
           /\ left = 0 /\ backing # "none" => Queued = Len(regions)
           /\ left \in Nat
<1>1. Requested /\ ListsInv /\ BackingInv
  BY DEF ExtentInv, ExtentSteps
<1>2. /\ inode.depth \in {0, 1} /\ Queued \in 0 .. Len(regions)
      /\ IF backing = "none" THEN left = 0 /\ Queued = 0
         ELSE left = IF Queued = Len(regions) THEN 0 ELSE len - Offset(Queued + 1)
  BY <1>1 DEF ListsInv, BackingInv
<1>3. Len(regions) \in Nat /\ Len(regions) > 0
  BY <1>1, LayoutFacts DEF Requested
<1>4. Queued # Len(regions) => Queued + 1 \in 1 .. Len(regions)
  BY <1>2, <1>3
<1>5. Queued # Len(regions) => Offset(Queued + 1) < len /\ Offset(Queued + 1) \in Nat
  <2>1. \A k \in 1 .. Len(regions) : k \in 1 .. (Len(regions) + 1)
    BY <1>3
  <2> QED BY <1>1, <1>2, <1>4, <2>1, OffsetFacts
<1>6. len \in Nat
  BY <1>1, RequestFacts
<1>7. CASE backing = "none"
  BY <1>1, <1>2, <1>3, <1>7
<1>8. CASE backing # "none" /\ Queued = Len(regions)
  BY <1>1, <1>2, <1>3, <1>8
<1>9. CASE backing # "none" /\ Queued # Len(regions)
  <2>1. left = len - Offset(Queued + 1) /\ left > 0 /\ left \in Nat
    BY <1>2, <1>5, <1>6, <1>9
  <2>2. Queued < Len(regions)
    BY <1>2, <1>3, <1>9
  <2> QED BY <1>1, <1>2, <1>3, <1>9, <2>1, <2>2
<1> QED BY <1>7, <1>8, <1>9

LEMMA FollowedMap ==
    ASSUME ExtentInv
    PROVE  DataFollowsMap
<1> DEFINE n == Len(regions)
           d == DataPieces
<1>1. ASSUME pc = "backing", left > 0
      PROVE  ~last_region(alloc)
  <2>1. alloc.list.iter = Node(Queued + 1) /\ Queued < n /\ Queued \in 0 .. n
        /\ n \in Nat /\ inode.depth \in {0, 1}
    BY <1>1, BackingFacts DEF BackingInv
  <2> HIDE DEF n
  <2>2. Node(Queued + 1) # NULL
    BY <2>1 DEF Node, NULL, n
  <2> QED BY <2>1, <2>2 DEF last_region
<1>2. ASSUME pc = "done", backing # "none"
      PROVE  /\ d # <<>> /\ d[1].at = 0 /\ d[Len(d)].at + d[Len(d)].size = len
             /\ \A k \in 1 .. (Len(d) - 1) : d[k + 1].at = d[k].at + d[k].size
             /\ \A k \in DOMAIN d : \A at \in d[k].at .. (d[k].at + d[k].size - 1) :
                    Mapped(at) = d[k].block + ((at - d[k].at) \div BlockSize)
  <2>1. /\ Requested /\ ListsInv /\ BackingInv /\ inode.depth \in {0, 1}
        /\ n \in Nat /\ n > 0
        /\ left = 0 => Queued = n
        /\ extents \in Seq(Extents) /\ pieces \in Seq(Pieces) /\ left = 0
    BY <1>2, BackingFacts DEF ExtentInv, ExtentSteps
  <2>2. /\ Queued = n /\ \A k \in 1 .. n : pieces[inode.depth + k] = PieceOf(k)
        /\ Len(extents) = n /\ \A k \in DOMAIN extents : extents[k] = ExtentOf(k)
    BY <2>1 DEF BackingInv
  <2>3. Len(pieces) = inode.depth + n
    BY <2>1, <2>2 DEF Queued
  <2>4. d \in Seq(Pieces) /\ Len(d) = n /\ \A k \in 1 .. n : d[k] = PieceOf(k)
    <3> DEFINE a == inode.depth + 1
               z == Len(pieces)
    <3>1. a \in Int /\ z \in Int /\ a <= z /\ z - a + 1 = n
          /\ (\A k \in 1 .. n : a + k - 1 = inode.depth + k) /\ 1 <= a
      BY <2>1, <2>3, SMTT(60)
    <3> HIDE DEF a, z
    <3>2. \A i \in a .. z : pieces[i] \in Pieces
      BY <2>1, <3>1 DEF z
    <3>3. /\ SubSeq(pieces, a, z) \in Seq(Pieces)
          /\ Len(SubSeq(pieces, a, z)) = IF a <= z THEN z - a + 1 ELSE 0
          /\ \A i \in 1 .. (z - a + 1) : SubSeq(pieces, a, z)[i] = pieces[a + i - 1]
      BY <3>1, <3>2, SubSeqProperties
    <3>4. d = SubSeq(pieces, a, z)
      BY DEF DataPieces, a, z
    <3> QED BY <2>2, <3>1, <3>3, <3>4
  <2> HIDE DEF d
  <2>5. DOMAIN d = 1 .. n
    BY <2>1, <2>4
  <2>6. \A k \in 1 .. n :
           /\ d[k].at = Offset(k) /\ d[k].block = Kept[k].block
           /\ d[k].size = IF k = n THEN len - Offset(k) ELSE Kept[k].len * BlockSize
    <3> SUFFICES ASSUME NEW k \in 1 .. n
                 PROVE  /\ d[k].at = Offset(k) /\ d[k].block = Kept[k].block
                        /\ d[k].size = IF k = n THEN len - Offset(k) ELSE Kept[k].len * BlockSize
      OBVIOUS
    <3>1. d[k] = PieceOf(k)
      BY <2>4
    <3> DEFINE bytes == IF k = n THEN len - Offset(k) ELSE Kept[k].len * BlockSize
               first == Kept[k].block
               byte == Offset(k)
    <3>2. PieceOf(k) = [block |-> first, size |-> bytes, of |-> backing, at |-> byte]
      BY DEF PieceOf
    <3> HIDE DEF bytes, first, byte
    <3>3. d[k].at = byte /\ d[k].block = first /\ d[k].size = bytes
      BY <3>1, <3>2
    <3> QED BY <3>3 DEF bytes, first, byte
  <2>7. /\ Offset(1) = 0 /\ len <= Offset(n) + Kept[n].len * BlockSize /\ len \in Nat
        /\ \A k \in 1 .. (n + 1) : Offset(k) \in Nat
        /\ \A k \in 1 .. n : /\ Kept[k].len * BlockSize \in Nat
                             /\ Offset(k + 1) = Offset(k) + Kept[k].len * BlockSize
    BY <2>1, OffsetFacts, RequestFacts
  <2> HIDE DEF n
  <2>8. d # <<>>
    BY <2>1, <2>4
  <2>9. d[1].at = 0 /\ d[n].at + d[n].size = len
    <3>1. 1 \in 1 .. n /\ n \in 1 .. n /\ n \in 1 .. (n + 1)
      BY <2>1
    <3>2. Offset(n) \in Nat
      BY <2>7, <3>1
    <3> QED BY <2>6, <2>7, <3>1, <3>2
  <2>10. ASSUME NEW k \in 1 .. (n - 1)
         PROVE  d[k + 1].at = d[k].at + d[k].size
    <3>1. k \in 1 .. n /\ k + 1 \in 1 .. n /\ k # n
      BY <2>1
    <3> QED BY <2>6, <2>7, <3>1
  <2>11. ASSUME NEW k \in 1 .. n, NEW at \in d[k].at .. (d[k].at + d[k].size - 1)
         PROVE  Mapped(at) = d[k].block + ((at - d[k].at) \div BlockSize)
    <3> DEFINE o == at - Offset(k)
               lb == Kept[k].len * BlockSize
    <3>1. /\ d[k].at = Offset(k) /\ d[k].block = Kept[k].block
          /\ d[k].size = IF k = n THEN len - Offset(k) ELSE lb
      BY <2>6
    <3>2. Offset(k) \in Nat /\ lb \in Nat /\ Offset(n) \in Nat
      BY <2>1, <2>7, k \in 1 .. (n + 1), n \in 1 .. (n + 1)
    <3>3. k = n => len <= Offset(k) + lb
      BY <2>7
    <3> HIDE DEF lb
    <3>4. o \in Nat /\ o < lb /\ at = Offset(k) + o /\ at \in Int
      BY <2>7, <3>1, <3>2, <3>3
    <3> HIDE DEF o
    <3>5. Mapped(Offset(k) + o) = Kept[k].block + (o \div BlockSize)
      BY <2>1, <2>2, <3>4, MappedInto DEF n, lb
    <3>6. at - d[k].at = o
      BY <3>1 DEF o
    <3> QED BY <3>1, <3>4, <3>5, <3>6
  <2> QED BY <2>4, <2>5, <2>8, <2>9, <2>10, <2>11
<1> QED BY <1>1, <1>2 DEF DataFollowsMap

-----------------------------------------------------------------------------
(* Chains of regions                                                       *)

LEMMA LinkedFacts ==
    ASSUME NEW mem, Linked(mem)
    PROVE  /\ Len(mem) \in Nat /\ DOMAIN mem = 1 .. Len(mem)
           /\ \A q \in 1 .. Len(mem) : /\ mem[q] \in Region
                                       /\ mem[q].next \in 0 .. Len(mem)
                                       /\ mem[q].len \in Nat /\ mem[q].block \in Nat
                                       /\ mem[q].prev \in Nat
<1>1. Len(mem) \in Nat /\ DOMAIN mem = 1 .. Len(mem) /\ \A q \in 1 .. Len(mem) : mem[q] \in Region
  BY DEF Linked
<1>2. \A r \in Region : r.next \in Nat /\ r.len \in Nat /\ r.block \in Nat /\ r.prev \in Nat
  BY DEF Region
<1> QED BY <1>1, <1>2 DEF Linked

\* The function inside Chain.
IsChain(c, mem) ==
    c = [n \in 0 .. Len(mem) |->
           [q \in 0 .. Len(mem) |->
              IF n = 0 \/ q = NULL THEN <<>> ELSE <<q>> \o c[n - 1][mem[q].next]]]

LEMMA ChainExists ==
    ASSUME NEW mem, Linked(mem)
    PROVE  \E c : IsChain(c, mem)
<1> DEFINE L == Len(mem)
           V == [0 .. L -> Seq(Nat)]
           base == [q \in 0 .. L |-> <<>>]
           At(v) == [q \in 0 .. L |-> IF q = NULL THEN <<>> ELSE <<q>> \o v[mem[q].next]]
           step == [nv \in (1 .. L) \X V |-> At(nv[2])]
<1>1. L \in Nat /\ \A q \in 1 .. L : mem[q].next \in 0 .. L
  BY LinkedFacts
<1> HIDE DEF L
<1>2. base \in V
  OBVIOUS
<1>3. ASSUME NEW v \in V PROVE At(v) \in V
  <2>1. ASSUME NEW q \in 0 .. L, q # NULL
        PROVE  <<q>> \o v[mem[q].next] \in Seq(Nat)
    <3>1. mem[q].next \in 0 .. L /\ q \in Nat
      BY <1>1, <2>1 DEF NULL
    <3>2. <<q>> \in Seq(Nat) /\ v[mem[q].next] \in Seq(Nat)
      BY <3>1
    <3> QED BY <3>2, ConcatProperties
  <2> QED BY <2>1
<1>4. \A k \in 1 .. L : \A v \in V : step[<<k, v>>] = At(v)
  OBVIOUS
<1> HIDE DEF base, step, V
<1>5. IsStep(step, L, V)
  <2> HIDE DEF At
  <2> QED BY <1>3, <1>4 DEF IsStep
<1>6. PICK f \in [0 .. L -> V] : BuiltBy(f, L, base, step)
  BY <1>1, <1>2, <1>5, Recursion
<1>7. ASSUME NEW n \in 0 .. L
      PROVE  f[n] = [q \in 0 .. L |->
                       IF n = 0 \/ q = NULL THEN <<>> ELSE <<q>> \o f[n - 1][mem[q].next]]
  <2>1. CASE n = 0
    BY <1>6, <2>1 DEF BuiltBy, base
  <2>2. CASE n # 0
    <3>1. n \in 1 .. L /\ n - 1 \in 0 .. L
      BY <1>1, <2>2
    <3>2. f[n - 1] \in V
      BY <1>6, <3>1
    <3>3. f[n] = At(f[n - 1])
      <4> HIDE DEF At
      <4> QED BY <1>4, <1>6, <3>1, <3>2 DEF BuiltBy
    <3> QED BY <2>2, <3>3
  <2> QED BY <2>1, <2>2
<1>8. IsChain(f, mem)
  <2> DEFINE g == [n \in 0 .. L |->
                     [q \in 0 .. L |->
                        IF n = 0 \/ q = NULL THEN <<>> ELSE <<q>> \o f[n - 1][mem[q].next]]]
  <2>1. \A n \in 0 .. L : f[n] = g[n]
    BY <1>7
  <2> HIDE DEF g
  <2>2. DOMAIN g = 0 .. L /\ g = [n \in 0 .. L |-> g[n]]
    BY DEF g
  <2>3. f = g
    BY <1>6, <2>1, <2>2
  <2> QED BY <2>3 DEF IsChain, g, L
<1> QED BY <1>8

\* Chains, by their lengths.
LEMMA ChainValues ==
    ASSUME NEW mem, Linked(mem)
    PROVE  \E c : /\ \A p : Chain(mem, p) = c[Len(mem)][p]
                  /\ \A n \in 0 .. Len(mem) : c[n][NULL] = <<>>
                  /\ \A n \in 1 .. Len(mem) : \A q \in 1 .. Len(mem) :
                        c[n][q] = <<q>> \o c[n - 1][mem[q].next]
<1> DEFINE L == Len(mem)
           c == CHOOSE d : IsChain(d, mem)
<1>1. \A p : Chain(mem, p) = c[L][p]
  BY DEF Chain, IsChain
<1>2. IsChain(c, mem)
  BY ChainExists
<1>3. L \in Nat
  BY LinkedFacts
<1> HIDE DEF c
<1> DEFINE Body(n, q) == IF n = 0 \/ q = NULL THEN <<>> ELSE <<q>> \o c[n - 1][mem[q].next]
           Bodies(n) == [q \in 0 .. L |-> Body(n, q)]
<1>4. c = [n \in 0 .. L |-> Bodies(n)]
  BY <1>2 DEF IsChain
<1> HIDE DEF Bodies, L
<1>5. \A n \in 0 .. L : c[n] = Bodies(n)
  BY <1>4
<1>6. \A n \in 0 .. L : \A q \in 0 .. L : Bodies(n)[q] = Body(n, q)
  <2> HIDE DEF Body
  <2> QED BY DEF Bodies
<1>7. 0 \in 0 .. L /\ 1 .. L \subseteq 0 .. L /\ NULL \in 0 .. L
  BY <1>3 DEF NULL
<1>8. \A n \in 0 .. L : \A q \in 0 .. L : c[n][q] = Body(n, q)
  BY <1>5, <1>6, ZenonT(60)
<1>9. \A n \in 0 .. L : Body(n, NULL) = <<>>
  OBVIOUS
<1>10. \A n \in 1 .. L : \A q \in 1 .. L : Body(n, q) = <<q>> \o c[n - 1][mem[q].next]
  BY <1>3 DEF NULL
<1>11. \A n \in 0 .. L : c[n][NULL] = <<>>
  <2> HIDE DEF Body
  <2> QED BY <1>7, <1>8, <1>9
<1>12. \A n \in 1 .. L : \A q \in 1 .. L : c[n][q] = <<q>> \o c[n - 1][mem[q].next]
  <2> SUFFICES ASSUME NEW n \in 1 .. L, NEW q \in 1 .. L
               PROVE  c[n][q] = <<q>> \o c[n - 1][mem[q].next]
    OBVIOUS
  <2>1. c[n][q] = Body(n, q)
    <3> HIDE DEF Body
    <3> QED BY <1>7, <1>8
  <2> QED BY <1>10, <2>1
<1> QED BY <1>1, <1>11, <1>12, ZenonT(60) DEF L

LEMMA ChainOfNull ==
    ASSUME NEW mem, Linked(mem)
    PROVE  Chain(mem, NULL) = <<>>
<1>1. Len(mem) \in 0 .. Len(mem)
  BY LinkedFacts
<1> QED BY <1>1, ChainValues

\* The nodes of a list, in its order.
IsPath(mem, w) ==
    /\ w \in Seq(1 .. Len(mem)) /\ Len(w) \in 1 .. Len(mem)
    /\ \A k \in 1 .. Len(w) : mem[w[k]].next = IF k = Len(w) THEN NULL ELSE w[k + 1]

\* They are the chain from the first of them.
LEMMA PathChain ==
    ASSUME NEW mem, Linked(mem), NEW w, IsPath(mem, w)
    PROVE  Chain(mem, w[1]) = w
<1> DEFINE L == Len(mem)
           m == Len(w)
           At(k) == IF k = m + 1 THEN NULL ELSE w[k]
           Rest(k) == [x \in 1 .. (m + 1 - k) |-> w[k - 1 + x]]
<1>1. PICK c : /\ \A p : Chain(mem, p) = c[L][p]
               /\ \A n \in 0 .. L : c[n][NULL] = <<>>
               /\ \A n \in 1 .. L : \A q \in 1 .. L : c[n][q] = <<q>> \o c[n - 1][mem[q].next]
  BY ChainValues
<1> DEFINE S == {n \in 0 .. L : \A k \in 1 .. (m + 1) : m + 1 - k <= n => c[n][At(k)] = Rest(k)}
<1>2. L \in Nat /\ m \in 1 .. L /\ m \in Nat
  BY LinkedFacts DEF IsPath
<1>3. w \in Seq(1 .. L) /\ \A k \in 1 .. m : w[k] \in 1 .. L
  BY DEF IsPath
<1>4. ASSUME NEW k \in 1 .. m
      PROVE  At(k) \in 1 .. L /\ At(k) = w[k] /\ mem[At(k)].next = At(k + 1)
  <2>1. At(k) = w[k] /\ At(k + 1) = IF k = m THEN NULL ELSE w[k + 1]
    BY <1>2
  <2>2. mem[w[k]].next = IF k = m THEN NULL ELSE w[k + 1]
    BY DEF IsPath
  <2> QED BY <1>3, <2>1, <2>2
<1>5. At(m + 1) = NULL /\ Rest(m + 1) = <<>>
  BY <1>2
<1> HIDE DEF L, m
<1>6. ASSUME NEW k \in 1 .. m
      PROVE  <<w[k]>> \o Rest(k + 1) = Rest(k)
  <2> DEFINE s == Rest(k + 1)
             t == Rest(k)
             y == w[k]
             N == 1 .. L
  <2>1. s \in Seq(N) /\ Len(s) = m - k /\ \A x \in 1 .. (m - k) : s[x] = w[k + x]
    <3>1. \A x \in 1 .. (m - k) : k + x \in 1 .. m /\ (k + 1) - 1 + x = k + x
      BY <1>2
    <3>2. m - k \in Nat /\ m + 1 - (k + 1) = m - k
      BY <1>2
    <3>3. s = [x \in 1 .. (m - k) |-> w[k + x]]
      BY <3>1, <3>2
    <3>4. \A x \in 1 .. (m - k) : w[k + x] \in N
      BY <1>3, <3>1
    <3> HIDE DEF s, N
    <3> QED BY <3>2, <3>3, <3>4
  <2>2. t \in Seq(N) /\ Len(t) = m + 1 - k /\ \A x \in 1 .. (m + 1 - k) : t[x] = w[k - 1 + x]
    <3>1. \A x \in 1 .. (m + 1 - k) : k - 1 + x \in 1 .. m
      BY <1>2
    <3>2. m + 1 - k \in Nat
      BY <1>2
    <3>3. \A x \in 1 .. (m + 1 - k) : w[k - 1 + x] \in N
      BY <1>3, <3>1
    <3> HIDE DEF N
    <3> QED BY <3>2, <3>3
  <2>3. <<y>> \in Seq(N) /\ Len(<<y>>) = 1 /\ <<y>>[1] = y
    BY <1>3
  <2> DEFINE u == <<y>> \o s
  <2> HIDE DEF s, t, N, Rest
  <2>4. /\ u \in Seq(N) /\ Len(u) = 1 + (m - k)
        /\ \A x \in 1 .. (1 + (m - k)) : u[x] = IF x <= 1 THEN y ELSE s[x - 1]
    BY <2>1, <2>3, ConcatProperties
  <2> HIDE DEF u
  <2>5. ASSUME NEW x \in 1 .. (m + 1 - k) PROVE u[x] = t[x]
    <3>1. x \in 1 .. (1 + (m - k)) /\ (x > 1 => x - 1 \in 1 .. (m - k) /\ k + (x - 1) = k - 1 + x)
          /\ (x <= 1 => k - 1 + x = k)
      BY <1>2
    <3>2. u[x] = IF x <= 1 THEN y ELSE s[x - 1]
      BY <2>4, <3>1
    <3>3. x > 1 => s[x - 1] = w[k - 1 + x]
      BY <2>1, <3>1
    <3>4. t[x] = w[k - 1 + x]
      BY <2>2
    <3> QED BY <3>1, <3>2, <3>3, <3>4
  <2>6. Len(u) = Len(t)
    BY <1>2, <2>2, <2>4
  <2>7. u = t
    BY <2>2, <2>4, <2>5, <2>6, SeqEqual
  <2> QED BY <2>7 DEF s, t, u
<1> HIDE DEF At, Rest
<1>7. 0 \in S
  <2>1. \A k \in 1 .. (m + 1) : m + 1 - k <= 0 => k = m + 1
    BY <1>2
  <2>2. c[0][At(m + 1)] = <<>>
    BY <1>1, <1>2, <1>5, 0 \in 0 .. L
  <2> QED BY <1>2, <1>5, <2>1, <2>2
<1>8. ASSUME NEW n \in 0 .. (L - 1), n \in S
      PROVE  n + 1 \in S
  <2>1. n + 1 \in 0 .. L /\ n + 1 \in 1 .. L /\ n + 1 - 1 = n
    BY <1>2
  <2>2. ASSUME NEW k \in 1 .. (m + 1), m + 1 - k <= n + 1
        PROVE  c[n + 1][At(k)] = Rest(k)
    <3>1. CASE k = m + 1
      BY <1>1, <1>5, <2>1, <3>1
    <3>2. CASE k # m + 1
      <4>1. k \in 1 .. m /\ k + 1 \in 1 .. (m + 1) /\ m + 1 - (k + 1) <= n
        BY <1>2, <2>2, <3>2
      <4>2. c[n][At(k + 1)] = Rest(k + 1)
        BY <1>8, <4>1
      <4> DEFINE N == n + 1
                 q == At(k)
      <4>3. N \in 1 .. L /\ q \in 1 .. L /\ N - 1 = n
        BY <1>4, <2>1, <4>1
      <4> HIDE DEF N, q
      <4>4. c[N][q] = <<q>> \o c[N - 1][mem[q].next]
        BY <1>1, <4>3
      <4>5. c[N][q] = <<w[k]>> \o Rest(k + 1)
        BY <1>4, <4>1, <4>2, <4>3, <4>4 DEF q
      <4> QED BY <1>6, <4>1, <4>5 DEF N, q
    <3> QED BY <3>1, <3>2
  <2> QED BY <2>1, <2>2
<1> HIDE DEF S
<1>9. \A n \in 0 .. L : n \in S
  BY <1>2, <1>7, <1>8, BoundedInduction
<1>10. L \in S /\ 1 \in 1 .. (m + 1) /\ m + 1 - 1 <= L /\ 1 \in 1 .. m
  BY <1>2, <1>9
<1>11. c[L][At(1)] = Rest(1)
  BY <1>10 DEF S
<1>12. At(1) = w[1]
  BY <1>4, <1>10
<1>13. Rest(1) = w
  <2>1. m + 1 - 1 = m /\ \A x \in 1 .. m : 1 - 1 + x = x
    BY <1>2
  <2>2. Rest(1) = [x \in 1 .. m |-> w[x]]
    BY <2>1 DEF Rest
  <2>3. w = [x \in 1 .. m |-> w[x]]
    BY <1>3 DEF m
  <2> QED BY <2>2, <2>3
<1> QED BY <1>1, <1>11, <1>12, <1>13

-----------------------------------------------------------------------------
(* Skipping blocks of a chain                                              *)

\* The function inside SkipRegions.
IsSkip(s, mem, chain, to) ==
    s = [k \in 1 .. (Len(chain) + 1) |->
           [l \in 0 .. to |->
              IF k > Len(chain) THEN [reg |-> NULL, left |-> l]
              ELSE IF l >= mem[chain[k]].len THEN s[k + 1][l - mem[chain[k]].len]
              ELSE [reg |-> chain[k], left |-> l]]]

LEMMA SkipExists ==
    ASSUME NEW mem, NEW chain, NEW to \in Nat, Len(chain) \in Nat,
           \A k \in 1 .. Len(chain) : chain[k] \in Nat /\ mem[chain[k]].len \in Nat
    PROVE  \E s : IsSkip(s, mem, chain, to)
<1> DEFINE m == Len(chain)
           R == [reg : Nat, left : Nat]
           V == [0 .. to -> R]
           base == [l \in 0 .. to |-> [reg |-> NULL, left |-> l]]
           E(k) == mem[chain[k]].len
           At(k, v) == [l \in 0 .. to |-> IF l >= E(k) THEN v[l - E(k)]
                                        ELSE [reg |-> chain[k], left |-> l]]
           step == [dv \in (1 .. m) \X V |-> At(m + 1 - dv[1], dv[2])]
<1>1. base \in V
  BY DEF NULL
<1>2. m \in Nat /\ \A k \in 1 .. m : chain[k] \in Nat /\ E(k) \in Nat
  OBVIOUS
<1> HIDE DEF m, E
<1>3. ASSUME NEW k \in 1 .. m, NEW v \in V PROVE At(k, v) \in V
  <2>1. ASSUME NEW l \in 0 .. to
        PROVE  (IF l >= E(k) THEN v[l - E(k)] ELSE [reg |-> chain[k], left |-> l]) \in R
    <3>1. [reg |-> chain[k], left |-> l] \in R
      BY <1>2
    <3>2. l >= E(k) => l - E(k) \in 0 .. to
      BY <1>2, SMTT(60)
    <3> HIDE DEF R
    <3> QED BY <3>1, <3>2
  <2> HIDE DEF R
  <2> QED BY <2>1
<1>4. \A d \in 1 .. m : \A v \in V : step[<<d, v>>] = At(m + 1 - d, v)
  OBVIOUS
<1> HIDE DEF base, step, V
<1>5. IsStep(step, m, V)
  <2> SUFFICES ASSUME NEW d \in 1 .. m, NEW v \in V PROVE step[<<d, v>>] \in V
    BY DEF IsStep
  <2>1. m + 1 - d \in 1 .. m
    BY <1>2
  <2> HIDE DEF At
  <2> QED BY <1>3, <1>4, <2>1
<1>6. PICK g \in [0 .. m -> V] : BuiltBy(g, m, base, step)
  BY <1>1, <1>2, <1>5, Recursion
<1> DEFINE Body(s, k) == [l \in 0 .. to |->
                            IF k > m THEN [reg |-> NULL, left |-> l]
                            ELSE IF l >= E(k) THEN s[k + 1][l - E(k)]
                            ELSE [reg |-> chain[k], left |-> l]]
           s == [k \in 1 .. (m + 1) |-> g[m + 1 - k]]
<1>7. \A k \in 1 .. (m + 1) : s[k] = g[m + 1 - k]
  OBVIOUS
<1>8. DOMAIN s = 1 .. (m + 1) /\ s = [k \in 1 .. (m + 1) |-> s[k]]
  OBVIOUS
<1> HIDE DEF s
<1>9. ASSUME NEW k \in 1 .. (m + 1)
      PROVE  s[k] = Body(s, k)
  <2>1. CASE k = m + 1
    <3>1. m + 1 - k = 0 /\ k > m
      BY <1>2, <2>1
    <3>2. s[k] = base
      BY <1>6, <1>7, <3>1 DEF BuiltBy
    <3> QED BY <3>1, <3>2 DEF base
  <2>2. CASE k # m + 1
    <3> DEFINE d == m + 1 - k
    <3>1. /\ d \in 1 .. m /\ d - 1 \in 0 .. m /\ d - 1 = m + 1 - (k + 1) /\ ~(k > m)
          /\ k + 1 \in 1 .. (m + 1) /\ m + 1 - d = k
      BY <1>2, <2>2
    <3>2. s[k] = g[d]
      BY <1>7
    <3> HIDE DEF d
    <3>3. g[d - 1] \in V /\ g[d] = step[<<d, g[d - 1]>>]
      BY <1>6, <3>1 DEF BuiltBy
    <3>4. s[k + 1] = g[d - 1]
      BY <1>7, <3>1
    <3>5. s[k] = At(k, s[k + 1])
      <4> HIDE DEF At
      <4> QED BY <1>4, <3>1, <3>2, <3>3, <3>4
    <3> QED BY <3>1, <3>5
  <2> QED BY <2>1, <2>2
<1>10. s = [k \in 1 .. (m + 1) |-> Body(s, k)]
  <2> DEFINE b == [k \in 1 .. (m + 1) |-> Body(s, k)]
  <2> HIDE DEF Body
  <2>1. b = [k \in 1 .. (m + 1) |-> b[k]] /\ \A k \in 1 .. (m + 1) : b[k] = Body(s, k)
    OBVIOUS
  <2> HIDE DEF b
  <2>2. \A k \in 1 .. (m + 1) : b[k] = s[k]
    BY <1>9, <2>1
  <2>3. b = s
    BY <1>8, <2>1, <2>2
  <2> QED BY <2>3 DEF b
<1>11. IsSkip(s, mem, chain, to)
  BY <1>10 DEF IsSkip, m, E
<1> QED BY <1>11

\* What SkipRegions goes through.
Skipped(s, mem, w, k, l) ==
    IF k > Len(w) THEN [reg |-> NULL, left |-> l]
    ELSE IF l >= mem[w[k]].len THEN s[k + 1][l - mem[w[k]].len]
    ELSE [reg |-> w[k], left |-> l]

Skips(s, mem, w, to) ==
    \A k \in 1 .. (Len(w) + 1) : \A l \in 0 .. to : s[k][l] = Skipped(s, mem, w, k, l)

LEMMA SkipValues ==
    ASSUME NEW a, Linked(a.mem), NEW w, IsPath(a.mem, w), NEW to \in Nat
    PROVE  \E s : SkipRegions(a, w[1], to) = s[1][to] /\ Skips(s, a.mem, w, to)
<1> DEFINE mem == a.mem
           m == Len(w)
           s == CHOOSE f : IsSkip(f, mem, w, to)
<1>1. m \in Nat /\ m > 0 /\ \A k \in 1 .. m : w[k] \in Nat /\ mem[w[k]].len \in Nat
  <2>1. Len(mem) \in Nat /\ \A q \in 1 .. Len(mem) : mem[q].len \in Nat
    BY LinkedFacts
  <2>2. m \in 1 .. Len(mem) /\ \A k \in 1 .. m : w[k] \in 1 .. Len(mem)
    BY DEF IsPath
  <2> HIDE DEF m, mem
  <2> QED BY <2>1, <2>2
<1>2. IsSkip(s, mem, w, to)
  BY <1>1, SkipExists
<1>3. Chain(mem, w[1]) = w
  BY PathChain
<1>4. SkipRegions(a, w[1], to) = s[1][to]
  <2> DEFINE chain == Chain(mem, w[1])
             t == CHOOSE f : IsSkip(f, mem, chain, to)
  <2>1. SkipRegions(a, w[1], to) = t[1][to]
    BY Zenon DEF SkipRegions, IsSkip
  <2> HIDE DEF chain
  <2>2. t = s
    BY <1>3 DEF chain
  <2> QED BY <2>1, <2>2
<1> HIDE DEF s
<1> DEFINE Body(k, l) == IF k > m THEN [reg |-> NULL, left |-> l]
                         ELSE IF l >= mem[w[k]].len THEN s[k + 1][l - mem[w[k]].len]
                         ELSE [reg |-> w[k], left |-> l]
           Bodies(k) == [l \in 0 .. to |-> Body(k, l)]
<1>5. s = [k \in 1 .. (m + 1) |-> Bodies(k)]
  BY Zenon, <1>2 DEF IsSkip
<1> HIDE DEF Bodies
<1>6. \A k \in 1 .. (m + 1) : \A l \in 0 .. to : s[k][l] = Body(k, l)
  <2> SUFFICES ASSUME NEW k \in 1 .. (m + 1), NEW l \in 0 .. to PROVE s[k][l] = Body(k, l)
    OBVIOUS
  <2>1. s[k] = Bodies(k)
    <3> HIDE DEF m
    <3> QED BY <1>5
  <2>2. Bodies(k)[l] = Body(k, l)
    <3> HIDE DEF Body
    <3> QED BY DEF Bodies
  <2> QED BY <2>1, <2>2
<1>7. Skips(s, mem, w, to)
  <2>1. \A k, l : Skipped(s, mem, w, k, l) = Body(k, l)
    BY DEF Skipped
  <2> HIDE DEF Body
  <2> QED BY <1>6, <2>1 DEF Skips
<1> QED BY <1>4, <1>7

\* What is skipped ends in the first region, or behind the only one.
LEMMA SkipFirst ==
    ASSUME NEW a, Linked(a.mem), NEW w, IsPath(a.mem, w), NEW to \in Nat
    PROVE  /\ to < a.mem[w[1]].len => SkipRegions(a, w[1], to) = [reg |-> w[1], left |-> to]
           /\ Len(w) = 1 /\ to >= a.mem[w[1]].len =>
                 SkipRegions(a, w[1], to) = [reg |-> NULL, left |-> to - a.mem[w[1]].len]
<1> DEFINE mem == a.mem
           m == Len(w)
<1>1. m \in Nat /\ m > 0 /\ \A k \in 1 .. m : w[k] \in Nat /\ mem[w[k]].len \in Nat
  <2>1. Len(mem) \in Nat /\ \A q \in 1 .. Len(mem) : mem[q].len \in Nat
    BY LinkedFacts
  <2>2. m \in 1 .. Len(mem) /\ \A k \in 1 .. m : w[k] \in 1 .. Len(mem)
    BY DEF IsPath
  <2> HIDE DEF m, mem
  <2> QED BY <2>1, <2>2
<1> DEFINE Body(s, k, l) == IF k > m THEN [reg |-> NULL, left |-> l]
                            ELSE IF l >= mem[w[k]].len THEN s[k + 1][l - mem[w[k]].len]
                            ELSE [reg |-> w[k], left |-> l]
<1>2. PICK s : SkipRegions(a, w[1], to) = s[1][to] /\ Skips(s, mem, w, to)
  BY SkipValues
<1>3. /\ SkipRegions(a, w[1], to) = s[1][to]
      /\ \A k \in 1 .. (m + 1) : \A l \in 0 .. to : s[k][l] = Body(s, k, l)
  <2>1. \A k, l : Skipped(s, mem, w, k, l) = Body(s, k, l)
    BY DEF Skipped
  <2> HIDE DEF Body
  <2> QED BY <1>2, <2>1 DEF Skips
<1> HIDE DEF m, mem
<1>4. 1 \in 1 .. (m + 1) /\ to \in 0 .. to /\ ~(1 > m) /\ 1 \in 1 .. m
  BY <1>1
<1>5. mem[w[1]].len \in Nat
  BY <1>1, <1>4
<1>6. s[1][to] = IF to >= mem[w[1]].len THEN s[2][to - mem[w[1]].len]
                 ELSE [reg |-> w[1], left |-> to]
  <2>1. s[1][to] = Body(s, 1, to)
    <3> HIDE DEF Body
    <3> QED BY <1>3, <1>4
  <2> QED BY <1>4, <2>1
<1>7. ASSUME m = 1, to >= mem[w[1]].len
       PROVE  s[2][to - mem[w[1]].len] = [reg |-> NULL, left |-> to - mem[w[1]].len]
  <2> DEFINE l == to - mem[w[1]].len
  <2>1. 2 \in 1 .. (m + 1) /\ l \in 0 .. to /\ 2 > m
    BY <1>5, <1>7
  <2> HIDE DEF l
  <2>2. s[2][l] = Body(s, 2, l)
    <3> HIDE DEF Body
    <3> QED BY <1>3, <2>1
  <2> QED BY <2>1, <2>2 DEF l
<1>8. to < mem[w[1]].len => ~(to >= mem[w[1]].len)
  BY <1>5
<1> QED BY <1>3, <1>6, <1>7, <1>8 DEF m, mem

-----------------------------------------------------------------------------
(* Updates of an allocation                                                *)

LEMMA AllocationFields ==
    ASSUME NEW a \in Allocation
    PROVE  /\ a.mem \in Seq(Region) /\ a.list \in List /\ a.oob_list \in List
           /\ a.list.first \in Nat /\ a.list.last \in Nat
           /\ a.list.iter \in Nat /\ a.list.partial_iter \in Nat
           /\ a.oob_list.first \in Nat /\ a.oob_list.last \in Nat
           /\ a.oob_list.iter \in Nat /\ a.oob_list.partial_iter \in Nat
<1>1. a.mem \in Seq(Region) /\ a.list \in List /\ a.oob_list \in List
  BY DEF Allocation
<1>2. \A l \in List : l.first \in Nat /\ l.last \in Nat /\ l.iter \in Nat /\ l.partial_iter \in Nat
  BY DEF List
<1> QED BY <1>1, <1>2

\* The iterator is moved.
WithIter(a, i, p) == [a EXCEPT !.list.iter = i, !.list.partial_iter = p]

IsIter(a, b, i, p) ==
    /\ b \in Allocation /\ b.mem = a.mem /\ b.oob_list = a.oob_list
    /\ b.list.first = a.list.first /\ b.list.last = a.list.last
    /\ b.list.iter = i /\ b.list.partial_iter = p

LEMMA IterMoved ==
    ASSUME NEW a \in Allocation, NEW i \in Nat, NEW p \in Nat
    PROVE  IsIter(a, WithIter(a, i, p), i, p)
<1> DEFINE l == [a.list EXCEPT !.iter = i, !.partial_iter = p]
           b == [a EXCEPT !.list.iter = i, !.list.partial_iter = p]
<1>1. a.list \in List
  BY AllocationFields
<1>2. /\ l.first = a.list.first /\ l.last = a.list.last /\ l.iter = i /\ l.partial_iter = p
      /\ l \in List
  BY <1>1 DEF List
<1>3. b.mem = a.mem /\ b.oob_list = a.oob_list /\ b.list = l
  BY DEF Allocation
<1>4. b \in Allocation
  BY <1>1, <1>2 DEF Allocation
<1> HIDE DEF b, l
<1>5. IsIter(a, b, i, p)
  BY <1>2, <1>3, <1>4 DEF IsIter
<1> QED BY <1>5 DEF b, WithIter

\* A region gets shorter.
WithShorter(a, q) == [a EXCEPT !.mem[q].len = @ - 1]

LEMMA OneShorter ==
    ASSUME NEW a \in Allocation, NEW q \in 1 .. Len(a.mem), a.mem[q].len > 0
    PROVE  LET b == WithShorter(a, q) IN
           /\ b \in Allocation /\ b.list = a.list /\ b.oob_list = a.oob_list
           /\ Len(b.mem) = Len(a.mem)
           /\ b.mem[q].len = a.mem[q].len - 1
           /\ \A r \in 1 .. Len(a.mem) : /\ b.mem[r].block = a.mem[r].block
                                         /\ b.mem[r].next = a.mem[r].next
                                         /\ r # q => b.mem[r] = a.mem[r]
<1> DEFINE x == a.mem[q].len - 1
           e == [a.mem[q] EXCEPT !.len = x]
           m == [a.mem EXCEPT ![q] = e]
           b == [a EXCEPT !.mem[q].len = @ - 1]
<1>1. a.mem \in Seq(Region) /\ a.mem[q] \in Region
  BY AllocationFields
<1>2. x \in Nat
  <2>1. a.mem[q].len \in Nat
    BY <1>1 DEF Region
  <2> QED BY <2>1
<1> HIDE DEF x
<1>3. e \in Region /\ e.len = x /\ e.block = a.mem[q].block /\ e.next = a.mem[q].next
  BY <1>2, <1>1 DEF Region
<1> HIDE DEF e
<1>4. /\ m \in Seq(Region) /\ Len(m) = Len(a.mem)
      /\ \A r \in 1 .. Len(a.mem) : m[r] = IF r = q THEN e ELSE a.mem[r]
  BY <1>1, <1>3, ExceptSeq
<1>5. b.mem = m /\ b.list = a.list /\ b.oob_list = a.oob_list
  BY DEF Allocation, e, x
<1> HIDE DEF m
<1>6. b \in Allocation
  BY <1>4, <1>5 DEF Allocation
<1> HIDE DEF b
<1> QED BY <1>3, <1>4, <1>5, <1>6 DEF b, x, WithShorter

\* Regions are added or linked in another way.
WithMemIter(a, m, i) == [a EXCEPT !.mem = m, !.list.iter = i]
WithMemEnds(a, m, x, y) == [a EXCEPT !.mem = m, !.list.first = x, !.list.last = y]
WithMemOob(a, m, l) == [a EXCEPT !.mem = m, !.oob_list = l]

IsMemIter(a, b, m, i) ==
    /\ b \in Allocation /\ b.mem = m /\ b.oob_list = a.oob_list
    /\ b.list.first = a.list.first /\ b.list.last = a.list.last
    /\ b.list.iter = i /\ b.list.partial_iter = a.list.partial_iter

IsMemEnds(a, b, m, x, y) ==
    /\ b \in Allocation /\ b.mem = m /\ b.oob_list = a.oob_list
    /\ b.list.first = x /\ b.list.last = y
    /\ b.list.iter = a.list.iter /\ b.list.partial_iter = a.list.partial_iter

LEMMA NewMemAndIter ==
    ASSUME NEW a \in Allocation, NEW m \in Seq(Region), NEW i \in Nat
    PROVE  IsMemIter(a, WithMemIter(a, m, i), m, i)
<1> DEFINE l == [a.list EXCEPT !.iter = i]
           b == [a EXCEPT !.mem = m, !.list.iter = i]
<1>1. a.list \in List
  BY AllocationFields
<1>2. /\ l.first = a.list.first /\ l.last = a.list.last /\ l.iter = i
      /\ l.partial_iter = a.list.partial_iter /\ l \in List
  BY <1>1 DEF List
<1>3. b.mem = m /\ b.oob_list = a.oob_list /\ b.list = l
  BY DEF Allocation
<1>4. b \in Allocation
  BY <1>1, <1>2 DEF Allocation
<1> HIDE DEF b, l
<1>5. IsMemIter(a, b, m, i)
  BY <1>2, <1>3, <1>4 DEF IsMemIter
<1> QED BY <1>5 DEF b, WithMemIter

LEMMA NewMemAndEnds ==
    ASSUME NEW a \in Allocation, NEW m \in Seq(Region), NEW x \in Nat, NEW y \in Nat
    PROVE  IsMemEnds(a, WithMemEnds(a, m, x, y), m, x, y)
<1> DEFINE l == [a.list EXCEPT !.first = x, !.last = y]
           b == [a EXCEPT !.mem = m, !.list.first = x, !.list.last = y]
<1>1. a.list \in List
  BY AllocationFields
<1>2. /\ l.first = x /\ l.last = y /\ l.iter = a.list.iter
      /\ l.partial_iter = a.list.partial_iter /\ l \in List
  BY <1>1 DEF List
<1>3. b.mem = m /\ b.oob_list = a.oob_list /\ b.list = l
  BY DEF Allocation
<1>4. b \in Allocation
  BY <1>1, <1>2 DEF Allocation
<1> HIDE DEF b, l
<1>5. IsMemEnds(a, b, m, x, y)
  BY <1>2, <1>3, <1>4 DEF IsMemEnds
<1> QED BY <1>5 DEF b, WithMemEnds

LEMMA NewMemAndOob ==
    ASSUME NEW a \in Allocation, NEW m \in Seq(Region), NEW l \in List
    PROVE  LET b == WithMemOob(a, m, l) IN
           b \in Allocation /\ b.mem = m /\ b.oob_list = l /\ b.list = a.list
<1> DEFINE b == [a EXCEPT !.mem = m, !.oob_list = l]
<1>1. b.mem = m /\ b.oob_list = l /\ b.list = a.list
  BY DEF Allocation
<1>2. b \in Allocation
  BY DEF Allocation
<1> HIDE DEF b
<1> QED BY <1>1, <1>2 DEF b, WithMemOob

\* A region of the list gets another end.
WithEnd(mem, q, x, y) == [mem EXCEPT ![q].next = x, ![q].len = y]

LEMMA EndMoved ==
    ASSUME NEW mem \in Seq(Region), NEW q \in 1 .. Len(mem), NEW x \in Nat, NEW y \in Nat
    PROVE  LET m == WithEnd(mem, q, x, y) IN
           /\ m \in Seq(Region) /\ Len(m) = Len(mem)
           /\ m[q].next = x /\ m[q].len = y
           /\ m[q].block = mem[q].block /\ m[q].prev = mem[q].prev
           /\ \A r \in 1 .. Len(mem) : r # q => m[r] = mem[r]
<1> DEFINE e == [mem[q] EXCEPT !.next = x, !.len = y]
           n == [mem EXCEPT ![q] = e]
           m == [mem EXCEPT ![q].next = x, ![q].len = y]
<1>1. mem[q] \in Region
  OBVIOUS
<1>2. /\ e \in Region /\ e.next = x /\ e.len = y /\ e.block = mem[q].block
      /\ e.prev = mem[q].prev
  BY <1>1 DEF Region
<1>3. m = n
  BY DEF Region
<1> HIDE DEF e, m
<1>4. /\ n \in Seq(Region) /\ Len(n) = Len(mem)
      /\ \A r \in 1 .. Len(mem) : n[r] = IF r = q THEN e ELSE mem[r]
  BY <1>2, ExceptSeq
<1> HIDE DEF n
<1> QED BY <1>2, <1>3, <1>4 DEF m, WithEnd

\* A region is split behind its first n blocks.
IsSplit(mem, m, q, n) ==
    /\ m \in Seq(Region) /\ Len(m) = Len(mem) + 1
    /\ m[q].next = Len(mem) + 1 /\ m[q].len = n
    /\ m[q].block = mem[q].block /\ m[q].prev = mem[q].prev
    /\ LET e == m[Len(mem) + 1] IN
       /\ e.block = mem[q].block + n /\ e.len = mem[q].len - n
       /\ e.next = mem[q].next /\ e.prev = q
    /\ \A r \in 1 .. Len(mem) : r # q => m[r] = mem[r]

LEMMA SplitFirst ==
    ASSUME NEW a \in Allocation, Linked(a.mem), NEW w, IsPath(a.mem, w), a.list.iter = w[1],
           NEW n \in Nat, n < a.mem[w[1]].len
    PROVE  LET r == do_split_allocation(a, n)
               b == r.alloc
           IN  /\ r = [alloc |-> b, reg |-> w[1]]
               /\ n = 0 => b = a
               /\ n > 0 => /\ b \in Allocation /\ Linked(b.mem) /\ IsSplit(a.mem, b.mem, w[1], n)
                           /\ b.list.first = a.list.first /\ b.list.last = a.list.last
                           /\ b.list.iter = Len(a.mem) + 1
                           /\ b.list.partial_iter = a.list.partial_iter
                           /\ b.oob_list = a.oob_list
<1> DEFINE mem == a.mem
           q == w[1]
           L == Len(mem)
           old == mem[q]
           at == SkipRegions(a, q, n)
           bl == old.block + n
           ln == old.len - n
           new == [old EXCEPT !.block = bl, !.len = ln, !.prev = q]
           m == WithEnd(mem, q, L + 1, n)
           b == WithMemIter(a, Append(m, new), L + 1)
<1>1. at = [reg |-> q, left |-> n]
  BY SkipFirst
<1>2. /\ mem \in Seq(Region) /\ L \in Nat /\ q \in 1 .. L /\ old \in Region
      /\ old.block \in Nat /\ old.len \in Nat /\ old.next \in 0 .. L
      /\ \A r \in 1 .. L : mem[r].next \in 0 .. L
  <2>1. q \in 1 .. L
    BY DEF IsPath
  <2> QED BY <2>1, LinkedFacts, AllocationFields
<1>3. q # NULL /\ q \in Nat
  BY <1>2 DEF NULL
<1>4. do_split_allocation(a, n) =
        IF n = 0 THEN [alloc |-> a, reg |-> q] ELSE [alloc |-> b, reg |-> q]
  <2>1. /\ at.reg = q /\ at.left = n
    BY <1>1
  <2> DEFINE A == SkipRegions(a, a.list.iter, n)
  <2>2. A.reg = q /\ A.left = n /\ a.list.iter = q
    BY <2>1
  <2>3. do_split_allocation(a, n) =
          LET o == a.mem[A.reg]
              e == [o EXCEPT !.block = @ + A.left, !.len = @ - A.left, !.prev = A.reg]
          IN  IF A.reg = NULL \/ A.left = 0 THEN [alloc |-> a, reg |-> A.reg]
              ELSE [alloc |-> [a EXCEPT
                       !.mem = Append([@ EXCEPT ![A.reg].next = Len(a.mem) + 1,
                                                ![A.reg].len = A.left], e),
                       !.list.iter = Len(a.mem) + 1],
                    reg |-> a.list.iter]
    BY Zenon DEF do_split_allocation
  <2> HIDE DEF A, at
  <2>4. new = [old EXCEPT !.block = @ + n, !.len = @ - n, !.prev = q]
    <3>1. old \in [block : Nat, len : Nat, bg : Nat, next : Nat, prev : Nat]
      BY <1>2 DEF Region
    <3> HIDE DEF old, q
    <3> QED BY <3>1 DEF bl, ln
  <2> QED BY <1>3, <2>2, <2>3, <2>4 DEF WithEnd, WithMemIter
<1>5. bl \in Nat /\ ln \in Nat /\ L + 1 \in Nat
  BY <1>2, SMTT(60)
<1>6. /\ new \in Region /\ new.block = bl /\ new.len = ln /\ new.prev = q /\ new.next = old.next
  <2> HIDE DEF bl, ln, old, q
  <2> QED BY <1>2, <1>3, <1>5 DEF Region
<1>7. /\ m \in Seq(Region) /\ Len(m) = L
      /\ m[q].next = L + 1 /\ m[q].len = n /\ m[q].block = old.block /\ m[q].prev = old.prev
      /\ \A r \in 1 .. L : r # q => m[r] = mem[r]
  <2> DEFINE x == L + 1
  <2>1. q \in 1 .. Len(mem) /\ x \in Nat /\ mem \in Seq(Region)
    BY <1>2, <1>5
  <2> HIDE DEF x, q, mem
  <2>2. /\ WithEnd(mem, q, x, n) \in Seq(Region) /\ Len(WithEnd(mem, q, x, n)) = Len(mem)
        /\ WithEnd(mem, q, x, n)[q].next = x /\ WithEnd(mem, q, x, n)[q].len = n
        /\ WithEnd(mem, q, x, n)[q].block = mem[q].block
        /\ WithEnd(mem, q, x, n)[q].prev = mem[q].prev
        /\ \A r \in 1 .. Len(mem) : r # q => WithEnd(mem, q, x, n)[r] = mem[r]
    BY <2>1, EndMoved
  <2> QED BY <2>2 DEF x
<1> DEFINE mm == Append(m, new)
<1> HIDE DEF m, new
<1>8. /\ mm \in Seq(Region) /\ Len(mm) = L + 1 /\ mm[L + 1] = new
      /\ \A r \in 1 .. L : mm[r] = m[r]
  BY <1>6, <1>7, AppendProperties
<1>9. /\ b \in Allocation /\ b.mem = mm /\ b.oob_list = a.oob_list
      /\ b.list.first = a.list.first /\ b.list.last = a.list.last
      /\ b.list.iter = L + 1 /\ b.list.partial_iter = a.list.partial_iter
  <2> HIDE DEF mm
  <2>1. b = WithMemIter(a, mm, L + 1)
    BY DEF mm
  <2> HIDE DEF b
  <2>2. mm \in Seq(Region) /\ L + 1 \in Nat
    BY <1>5, <1>8
  <2>3. IsMemIter(a, b, mm, L + 1)
    BY <2>1, <2>2, NewMemAndIter
  <2> QED BY <2>3 DEF IsMemIter
<1> HIDE DEF b, mm, mem, L, old, bl, ln
<1>10. IsSplit(mem, mm, q, n)
  <2>1. q \in 1 .. L /\ mm[q] = m[q]
    BY <1>2, <1>8
  <2> QED BY <1>2, <1>6, <1>7, <1>8, <2>1 DEF IsSplit, bl, ln, L, old
<1>11. Linked(mm)
  <2>1. \A r \in 1 .. (L + 1) : mm[r].next <= L + 1
    <3> SUFFICES ASSUME NEW r \in 1 .. (L + 1) PROVE mm[r].next <= L + 1
      OBVIOUS
    <3>1. CASE r = L + 1
      BY <1>2, <1>6, <1>8, <3>1
    <3>2. CASE r = q
      BY <1>2, <1>5, <1>7, <1>8, <3>2
    <3>3. CASE r # q /\ r # L + 1
      <4>1. r \in 1 .. L
        BY <1>2, <3>3
      <4>2. mm[r] = mem[r] /\ mem[r].next \in 0 .. L
        BY <1>2, <1>7, <1>8, <3>3, <4>1
      <4> QED BY <1>2, <4>2
    <3> QED BY <3>1, <3>2, <3>3
  <2> QED BY <1>8, <2>1 DEF Linked
<1> QED BY <1>4, <1>9, <1>10, <1>11 DEF mem, L

\* There is nothing to split behind the end.
LEMMA SplitBehind ==
    ASSUME NEW a \in Allocation, Linked(a.mem), NEW w, IsPath(a.mem, w), a.list.iter = w[1],
           Len(w) = 1, NEW n \in Nat, n >= a.mem[w[1]].len
    PROVE  do_split_allocation(a, n) = [alloc |-> a, reg |-> NULL]
<1> DEFINE at == SkipRegions(a, a.list.iter, n)
<1>1. at.reg = NULL
  <2> DEFINE l == a.mem[w[1]].len
  <2>1. SkipRegions(a, w[1], n) = [reg |-> NULL, left |-> n - l]
    BY SkipFirst
  <2> HIDE DEF l
  <2>2. [reg |-> NULL, left |-> n - l].reg = NULL
    OBVIOUS
  <2> QED BY <2>1, <2>2
<1> HIDE DEF at
<1> QED BY <1>1 DEF do_split_allocation, at

-----------------------------------------------------------------------------
(* Moving a region to the out-of-band list                                 *)

\* One turn of MoveToOob.
Moved(a, from) ==
    LET removed == region_list_remove(a, from)
        new == region_list_append(removed.mem, removed.oob_list, from)
    IN  [removed EXCEPT !.mem = new.mem, !.oob_list = new.list]

\* The pointers of region q when a region is unlinked, and when it is linked behind last.
NextWithout(mem, from, q) ==
    IF q = from THEN NULL ELSE IF q = mem[from].prev THEN mem[from].next ELSE mem[q].next

PrevWithout(mem, from, q) ==
    IF q = from THEN NULL ELSE IF q = mem[from].next THEN mem[from].prev ELSE mem[q].prev

IsRemoved(a, b, from) ==
    /\ b \in Allocation /\ Len(b.mem) = Len(a.mem)
    /\ \A q \in 1 .. Len(a.mem) :
          /\ b.mem[q].block = a.mem[q].block /\ b.mem[q].len = a.mem[q].len
          /\ b.mem[q].next = NextWithout(a.mem, from, q)
          /\ b.mem[q].prev = PrevWithout(a.mem, from, q)
    /\ b.list.first = (IF a.list.first = from THEN a.mem[from].next ELSE a.list.first)
    /\ b.list.iter = a.list.iter /\ b.list.partial_iter = a.list.partial_iter
    /\ b.oob_list = a.oob_list

LEMMA Removed ==
    ASSUME NEW a \in Allocation, NEW from \in 1 .. Len(a.mem)
    PROVE  IsRemoved(a, region_list_remove(a, from), from)
<1> DEFINE mem == a.mem
           L == Len(mem)
           n == mem[from].next
           p == mem[from].prev
           Unlinked(q) ==
            IF q = from THEN [mem[q] EXCEPT !.next = NULL, !.prev = NULL]
            ELSE [mem[q] EXCEPT !.next = IF q = p THEN n ELSE @,
                                !.prev = IF q = n THEN p ELSE @]
           m == [q \in DOMAIN mem |-> Unlinked(q)]
           x == IF a.list.first = from THEN n ELSE a.list.first
           y == IF a.list.last = from THEN p ELSE a.list.last
           b == WithMemEnds(a, m, x, y)
<1>1. mem \in Seq(Region) /\ L \in Nat /\ DOMAIN mem = 1 .. L /\ \A q \in 1 .. L : mem[q] \in Region
  BY AllocationFields
<1>2. \A r \in Region : r.next \in Nat /\ r.prev \in Nat
  BY DEF Region
<1>3. n \in Nat /\ p \in Nat
  BY <1>1, <1>2
<1> HIDE DEF n, p
<1>4. ASSUME NEW q \in 1 .. L
      PROVE  /\ Unlinked(q) \in Region
             /\ Unlinked(q).block = mem[q].block /\ Unlinked(q).len = mem[q].len
             /\ Unlinked(q).next = IF q = from THEN NULL ELSE IF q = p THEN n ELSE mem[q].next
             /\ Unlinked(q).prev = IF q = from THEN NULL ELSE IF q = n THEN p ELSE mem[q].prev
  <2> DEFINE r == mem[q]
             i == IF q = from THEN NULL ELSE IF q = p THEN n ELSE r.next
             j == IF q = from THEN NULL ELSE IF q = n THEN p ELSE r.prev
             e == [r EXCEPT !.next = i, !.prev = j]
  <2>1. r \in Region /\ r.next \in Nat /\ r.prev \in Nat
    BY <1>1, <1>2
  <2>2. i \in Nat /\ j \in Nat
    BY <1>3, <2>1 DEF NULL
  <2>3. Unlinked(q) = e
    <3>1. r \in [block : Nat, len : Nat, bg : Nat, next : Nat, prev : Nat]
      BY <2>1 DEF Region
    <3> HIDE DEF r
    <3>2. CASE q = from
      BY <3>2 DEF r
    <3>3. CASE q # from
      BY <3>1, <3>3 DEF r
    <3> QED BY <3>2, <3>3
  <2> HIDE DEF Unlinked, r, i, j
  <2>4. e \in Region /\ e.next = i /\ e.prev = j /\ e.block = r.block /\ e.len = r.len
    BY <2>1, <2>2 DEF Region
  <2> QED BY <2>3, <2>4 DEF i, j, r
<1> HIDE DEF Unlinked
<1>5. m \in Seq(Region) /\ Len(m) = L /\ \A q \in 1 .. L : m[q] = Unlinked(q)
  <2>1. m = [q \in 1 .. L |-> Unlinked(q)]
    BY <1>1
  <2> HIDE DEF m
  <2> QED BY <1>1, <1>4, <2>1
<1>6. x \in Nat /\ y \in Nat
  BY <1>3, AllocationFields
<1>7. region_list_remove(a, from) = b
  BY Zenon DEF region_list_remove, WithMemEnds, Unlinked, n, p
<1> HIDE DEF m, x, y
<1>8. /\ b \in Allocation /\ b.mem = m /\ b.oob_list = a.oob_list
      /\ b.list.first = x /\ b.list.last = y
      /\ b.list.iter = a.list.iter /\ b.list.partial_iter = a.list.partial_iter
  <2>1. m \in Seq(Region)
    BY <1>5
  <2> HIDE DEF b, mem, L
  <2>2. b = WithMemEnds(a, m, x, y)
    BY DEF b
  <2>3. IsMemEnds(a, b, m, x, y)
    BY <1>6, <2>1, <2>2, NewMemAndEnds
  <2> QED BY <2>3 DEF IsMemEnds
<1> HIDE DEF b, L, mem
<1>9. /\ Len(b.mem) = Len(a.mem)
       /\ \A q \in 1 .. Len(a.mem) :
          /\ b.mem[q].block = a.mem[q].block /\ b.mem[q].len = a.mem[q].len
          /\ b.mem[q].next = NextWithout(a.mem, from, q)
          /\ b.mem[q].prev = PrevWithout(a.mem, from, q)
  BY <1>4, <1>5, <1>8 DEF L, mem, NextWithout, PrevWithout, n, p
<1> QED BY <1>7, <1>8, <1>9 DEF IsRemoved, x, n, mem

\* A region linked behind last, the end of a list, or into an empty one.
NextBehind(m, l, from, q) ==
    IF q = from THEN NULL ELSE IF l.first # NULL /\ q = l.last THEN from ELSE m[q].next

PrevBehind(m, l, from, q) ==
    IF q = from THEN (IF l.first = NULL THEN NULL ELSE l.last) ELSE m[q].prev

LEMMA Appended ==
    ASSUME NEW m \in Seq(Region), NEW from \in 1 .. Len(m), NEW l \in List
    PROVE  LET new == region_list_append(m, l, from) IN
           /\ new.mem \in Seq(Region) /\ Len(new.mem) = Len(m) /\ new.list \in List
           /\ \A q \in 1 .. Len(m) :
                 /\ new.mem[q].block = m[q].block /\ new.mem[q].len = m[q].len
                 /\ new.mem[q].next = NextBehind(m, l, from, q)
                 /\ new.mem[q].prev = PrevBehind(m, l, from, q)
           /\ l.first = NULL => new.list = [first |-> from, last |-> from, iter |-> from, partial_iter |-> 0]
           /\ l.first # NULL => /\ new.list.first = l.first /\ new.list.last = from
                                /\ new.list.iter = l.iter
                                /\ new.list.partial_iter = l.partial_iter
<1> DEFINE L == Len(m)
           new == region_list_append(m, l, from)
<1>1. /\ L \in Nat /\ DOMAIN m = 1 .. L /\ \A q \in 1 .. L : m[q] \in Region
      /\ from \in Nat /\ NULL \in Nat
  BY DEF NULL
<1>2. \A r \in Region : r.next \in Nat /\ r.prev \in Nat
  BY DEF Region
<1>3. l.first \in Nat /\ l.last \in Nat /\ l.iter \in Nat /\ l.partial_iter \in Nat
  BY DEF List
<1>4. CASE l.first = NULL
  <2> DEFINE e == [m[from] EXCEPT !.prev = NULL, !.next = NULL]
             f == [m EXCEPT ![from].prev = NULL, ![from].next = NULL]
             z == [first |-> from, last |-> from, iter |-> from, partial_iter |-> 0]
  <2>1. new.mem = f /\ new.list = z
    BY <1>4 DEF region_list_append
  <2>2. m[from] \in Region
    BY <1>1
  <2>3. /\ e \in Region /\ e.next = NULL /\ e.prev = NULL
        /\ e.block = m[from].block /\ e.len = m[from].len
    BY <1>1, <2>2 DEF Region
  <2>4. f = [m EXCEPT ![from] = e]
    BY DEF Region
  <2> HIDE DEF e, f
  <2>5. /\ f \in Seq(Region) /\ Len(f) = L
        /\ \A q \in 1 .. L : f[q] = IF q = from THEN e ELSE m[q]
    BY <2>3, <2>4, ExceptSeq
  <2>6. z \in List
    BY <1>1 DEF List
  <2> HIDE DEF new, z, L
  <2>7. \A q \in 1 .. L : /\ f[q].block = m[q].block /\ f[q].len = m[q].len
                          /\ f[q].next = NextBehind(m, l, from, q)
                          /\ f[q].prev = PrevBehind(m, l, from, q)
    BY <1>4, <2>3, <2>5 DEF NextBehind, PrevBehind
  <2> QED BY <1>4, <2>1, <2>5, <2>6, <2>7 DEF z, L, new
<1>5. CASE l.first # NULL
  <2> DEFINE E(q) == IF q = from THEN [m[q] EXCEPT !.prev = l.last, !.next = NULL]
                     ELSE IF q = l.last THEN [m[q] EXCEPT !.next = from]
                     ELSE m[q]
             f == [q \in DOMAIN m |-> E(q)]
             z == [l EXCEPT !.last = from]
  <2>1. new.mem = f /\ new.list = z
    BY <1>5 DEF region_list_append
  <2>2. z \in List /\ z.first = l.first /\ z.last = from /\ z.iter = l.iter
        /\ z.partial_iter = l.partial_iter
    BY <1>1 DEF List
  <2>3. ASSUME NEW q \in 1 .. L
        PROVE  /\ E(q) \in Region
               /\ E(q).block = m[q].block /\ E(q).len = m[q].len
               /\ E(q).next = NextBehind(m, l, from, q)
               /\ E(q).prev = PrevBehind(m, l, from, q)
    <3> DEFINE r == m[q]
               la == l.last
    <3>1. r \in Region /\ la \in Nat
      BY <1>1, <1>3
    <3> HIDE DEF r, la
    <3>2. CASE q = from
      <4> DEFINE e == [r EXCEPT !.prev = la, !.next = NULL]
      <4>1. E(q) = e
        BY <3>2 DEF r, la
      <4>2. e \in Region /\ e.block = r.block /\ e.len = r.len /\ e.next = NULL /\ e.prev = la
        BY <1>1, <3>1 DEF Region
      <4> HIDE DEF E, e
      <4> QED BY <1>5, <3>2, <4>1, <4>2 DEF NextBehind, PrevBehind, r, la
    <3>3. CASE q # from /\ q = l.last
      <4> DEFINE e == [r EXCEPT !.next = from]
      <4>1. E(q) = e
        BY <3>3 DEF r
      <4>2. e \in Region /\ e.block = r.block /\ e.len = r.len /\ e.next = from /\ e.prev = r.prev
        BY <1>1, <3>1 DEF Region
      <4> HIDE DEF E, e
      <4> QED BY <1>5, <3>3, <4>1, <4>2 DEF NextBehind, PrevBehind, r
    <3>4. CASE q # from /\ q # l.last
      <4>1. E(q) = r
        BY <3>4 DEF r
      <4> HIDE DEF E
      <4> QED BY <3>1, <3>4, <4>1 DEF NextBehind, PrevBehind, r
    <3> QED BY <3>2, <3>3, <3>4
  <2> HIDE DEF E
  <2>4. f \in Seq(Region) /\ Len(f) = L /\ \A q \in 1 .. L : f[q] = E(q)
    <3>1. f = [q \in 1 .. L |-> E(q)]
      BY <1>1
    <3> HIDE DEF f
    <3> QED BY <1>1, <2>3, <3>1
  <2> HIDE DEF new, f, z
  <2> QED BY <1>5, <2>1, <2>2, <2>3, <2>4 DEF new
<1> QED BY <1>4, <1>5

\* What a turn does to the pointers of region q, and to the lists.
NextMoved(a, from, q) ==
    IF q # from /\ a.oob_list.first # NULL /\ q = a.oob_list.last THEN from
    ELSE NextWithout(a.mem, from, q)

PrevMoved(a, from, q) ==
    IF q = from THEN (IF a.oob_list.first = NULL THEN NULL ELSE a.oob_list.last)
    ELSE PrevWithout(a.mem, from, q)

IsMoved(a, b, from) ==
    /\ b \in Allocation /\ Len(b.mem) = Len(a.mem)
    /\ \A q \in 1 .. Len(a.mem) :
          /\ b.mem[q].block = a.mem[q].block /\ b.mem[q].len = a.mem[q].len
          /\ b.mem[q].next = NextMoved(a, from, q)
          /\ b.mem[q].prev = PrevMoved(a, from, q)
    /\ b.list.first = (IF a.list.first = from THEN a.mem[from].next ELSE a.list.first)
    /\ b.list.iter = a.list.iter /\ b.list.partial_iter = a.list.partial_iter
    /\ a.oob_list.first = NULL =>
          b.oob_list = [first |-> from, last |-> from, iter |-> from, partial_iter |-> 0]
    /\ a.oob_list.first # NULL =>
          /\ b.oob_list.first = a.oob_list.first /\ b.oob_list.last = from
          /\ b.oob_list.iter = a.oob_list.iter
          /\ b.oob_list.partial_iter = a.oob_list.partial_iter

LEMMA MovedFacts ==
    ASSUME NEW a \in Allocation, NEW from \in 1 .. Len(a.mem)
    PROVE  IsMoved(a, Moved(a, from), from)
<1> DEFINE r == region_list_remove(a, from)
           new == region_list_append(r.mem, r.oob_list, from)
           b == WithMemOob(r, new.mem, new.list)
           L == Len(a.mem)
<1>1. IsRemoved(a, r, from)
  BY Removed
<1>2. Moved(a, from) = b
  BY DEF Moved, WithMemOob
<1> HIDE DEF r
<1>3. /\ r \in Allocation /\ Len(r.mem) = L /\ r.oob_list = a.oob_list
      /\ \A q \in 1 .. L :
            /\ r.mem[q].block = a.mem[q].block /\ r.mem[q].len = a.mem[q].len
            /\ r.mem[q].next = NextWithout(a.mem, from, q)
            /\ r.mem[q].prev = PrevWithout(a.mem, from, q)
      /\ r.list.first = (IF a.list.first = from THEN a.mem[from].next ELSE a.list.first)
      /\ r.list.iter = a.list.iter /\ r.list.partial_iter = a.list.partial_iter
  BY <1>1 DEF IsRemoved
<1> DEFINE m == r.mem
           l == r.oob_list
<1>4. m \in Seq(Region) /\ from \in 1 .. Len(m) /\ l \in List /\ l = a.oob_list
  BY <1>3, AllocationFields
<1> HIDE DEF m, l
<1> DEFINE nm == region_list_append(m, l, from)
<1>5. new = nm
  BY DEF m, l
<1>6. /\ nm.mem \in Seq(Region) /\ Len(nm.mem) = Len(m) /\ nm.list \in List
      /\ \A q \in 1 .. Len(m) :
            /\ nm.mem[q].block = m[q].block /\ nm.mem[q].len = m[q].len
            /\ nm.mem[q].next = NextBehind(m, l, from, q)
            /\ nm.mem[q].prev = PrevBehind(m, l, from, q)
      /\ l.first = NULL => nm.list = [first |-> from, last |-> from, iter |-> from, partial_iter |-> 0]
      /\ l.first # NULL => /\ nm.list.first = l.first /\ nm.list.last = from
                           /\ nm.list.iter = l.iter
                           /\ nm.list.partial_iter = l.partial_iter
  BY <1>4, Appended
<1> HIDE DEF new, nm
<1> DEFINE x == new.mem
           y == new.list
<1>7. x \in Seq(Region) /\ y \in List /\ x = nm.mem /\ y = nm.list
  BY <1>5, <1>6
<1> HIDE DEF x, y
<1>8. b = WithMemOob(r, x, y)
  BY DEF x, y
<1> HIDE DEF b
<1>9. b \in Allocation /\ b.mem = x /\ b.oob_list = y /\ b.list = r.list
  BY <1>3, <1>7, <1>8, NewMemAndOob
<1>10. ASSUME NEW q \in 1 .. L
       PROVE  /\ b.mem[q].block = a.mem[q].block /\ b.mem[q].len = a.mem[q].len
              /\ b.mem[q].next = NextMoved(a, from, q)
              /\ b.mem[q].prev = PrevMoved(a, from, q)
  <2>1. q \in 1 .. Len(m)
    BY <1>3 DEF m
  <2>2. /\ b.mem[q].block = m[q].block /\ b.mem[q].len = m[q].len
        /\ b.mem[q].next = NextBehind(m, l, from, q)
        /\ b.mem[q].prev = PrevBehind(m, l, from, q)
    BY <1>6, <1>7, <1>9, <2>1
  <2>3. /\ m[q].block = a.mem[q].block /\ m[q].len = a.mem[q].len
        /\ m[q].next = NextWithout(a.mem, from, q)
        /\ m[q].prev = PrevWithout(a.mem, from, q)
    BY <1>3 DEF m
  <2>4. NextBehind(m, l, from, q) = NextMoved(a, from, q)
    BY <1>4, <2>3 DEF NextBehind, NextMoved, NextWithout
  <2>5. PrevBehind(m, l, from, q) = PrevMoved(a, from, q)
    BY <1>4, <2>3 DEF PrevBehind, PrevMoved
  <2> QED BY <2>2, <2>3, <2>4, <2>5
<1>11. Len(b.mem) = Len(a.mem)
  BY <1>3, <1>6, <1>7, <1>9 DEF m
<1> QED BY <1>2, <1>3, <1>4, <1>6, <1>7, <1>9, <1>10, <1>11 DEF IsMoved

\* The function inside MoveToOob.
IsMove(m, a, from) ==
    m = [n \in 0 .. Len(a.mem) |->
           IF n = 0 THEN [alloc |-> a, oob |-> from]
           ELSE LET s == m[n - 1] IN
                IF s.oob \in {NULL, s.alloc.list.iter} THEN s
                ELSE LET removed == region_list_remove(s.alloc, s.oob)
                         new == region_list_append(removed.mem, removed.oob_list, s.oob)
                     IN  [alloc |-> [removed EXCEPT !.mem = new.mem, !.oob_list = new.list],
                          oob   |-> s.alloc.mem[s.oob].next]]

\* When the iterator is behind the region, one turn is all.
LEMMA MoveOnce ==
    ASSUME NEW a \in Allocation, NEW from \in 1 .. Len(a.mem),
           a.mem[from].next = a.list.iter, a.list.iter # from
    PROVE  MoveToOob(a, from) = Moved(a, from)
<1> DEFINE L == Len(a.mem)
           it == a.list.iter
           b == Moved(a, from)
           v0 == [alloc |-> a, oob |-> from]
           v1 == [alloc |-> b, oob |-> it]
           Turn(s) == IF s.oob \in {NULL, s.alloc.list.iter} THEN s
                      ELSE LET removed == region_list_remove(s.alloc, s.oob)
                               new == region_list_append(removed.mem, removed.oob_list, s.oob)
                           IN  [alloc |-> [removed EXCEPT !.mem = new.mem, !.oob_list = new.list],
                                oob   |-> s.alloc.mem[s.oob].next]
           V == {v0, v1}
           step == [nv \in (1 .. L) \X V |-> Turn(nv[2])]
           m == CHOOSE f : IsMove(f, a, from)
<1>1. L \in Nat /\ L > 0
  BY AllocationFields
<1>2. b.list.iter = it
  BY MovedFacts DEF IsMoved
<1>3. Turn(v0) = v1
  <2>1. v0.oob = from /\ v0.alloc = a
    OBVIOUS
  <2>2. from # NULL /\ from # it
    BY DEF NULL
  <2> HIDE DEF v0
  <2> QED BY <2>1, <2>2 DEF Moved
<1>4. Turn(v1) = v1
  <2>1. v1.oob = it /\ v1.alloc = b
    OBVIOUS
  <2> HIDE DEF v1, b
  <2> QED BY <1>2, <2>1
<1> HIDE DEF Turn, v0, v1, b
<1>5. \A k \in 1 .. L : \A v \in V : step[<<k, v>>] = Turn(v) /\ Turn(v) = v1
  BY <1>3, <1>4
<1> HIDE DEF step
<1>6. IsStep(step, L, V)
  BY <1>5 DEF IsStep
<1>7. PICK f \in [0 .. L -> V] : BuiltBy(f, L, v0, step)
  BY <1>1, <1>6, Recursion
<1>8. f[0] = v0 /\ \A k \in 1 .. L : f[k] = Turn(f[k - 1]) /\ f[k] = v1
  <2>1. \A k \in 1 .. L : k - 1 \in 0 .. L
    BY <1>1
  <2> HIDE DEF V
  <2> QED BY <1>5, <1>7, <2>1, ZenonT(60) DEF BuiltBy
<1> DEFINE Body(g, n) == IF n = 0 THEN v0 ELSE Turn(g[n - 1])
           Whole(g) == [n \in 0 .. L |-> Body(g, n)]
<1>9. \A g : IsMove(g, a, from) <=> g = Whole(g)
  BY Zenon DEF IsMove, Turn, v0
<1>10. f = Whole(f)
  <2>1. \A n \in 0 .. L : f[n] = Body(f, n)
    BY <1>1, <1>8
  <2> HIDE DEF Body, V
  <2> QED BY <1>7, <2>1
<1> HIDE DEF Whole
<1>11. IsMove(m, a, from)
  BY <1>9, <1>10
<1>12. MoveToOob(a, from) = m[L].alloc
  BY Zenon DEF MoveToOob, IsMove
<1> HIDE DEF m
<1>13. \A n \in 0 .. L : m[n] = Body(m, n)
  <2>1. m = Whole(m)
    BY <1>9, <1>11
  <2> HIDE DEF Body
  <2> QED BY <2>1 DEF Whole
<1> DEFINE S == {n \in 0 .. L : n > 0 => m[n] = v1}
<1>14. 0 \in S
  BY <1>1
<1>15. ASSUME NEW n \in 0 .. (L - 1), n \in S PROVE n + 1 \in S
  <2>1. n + 1 \in 0 .. L /\ n \in 0 .. L /\ (n + 1) - 1 = n /\ n + 1 # 0
    BY <1>1
  <2>2. m[n + 1] = Turn(m[n])
    BY <1>13, <2>1
  <2>3. m[n] \in {v0, v1}
    BY <1>13, <1>15, <2>1
  <2> QED BY <1>3, <1>4, <2>1, <2>2, <2>3
<1> HIDE DEF S
<1>16. \A n \in 0 .. L : n \in S
  BY <1>1, <1>14, <1>15, BoundedInduction
<1>17. m[L] = v1
  BY <1>1, <1>16 DEF S
<1> QED BY <1>12, <1>17 DEF v1, b

-----------------------------------------------------------------------------
(* The lists of an allocation                                              *)

LEMMA AllocatedList ==
    ASSUME NEW s \in Seq(Placement), Len(s) > 0
    PROVE  LET a == allocate_blocks(s)
               w == [k \in 1 .. Len(s) |-> k]
           IN  /\ a \in Allocation /\ Linked(a.mem) /\ Len(a.mem) = Len(s)
               /\ \A k \in 1 .. Len(s) :
                     /\ a.mem[k].block = s[k].block /\ a.mem[k].len = s[k].len
                     /\ a.mem[k].prev = k - 1
                     /\ a.mem[k].next = IF k = Len(s) THEN NULL ELSE k + 1
               /\ a.list = [first |-> 1, last |-> 1, iter |-> 1, partial_iter |-> 0]
               /\ a.oob_list = EmptyList
               /\ IsPath(a.mem, w) /\ Len(w) = Len(s) /\ w[1] = 1
<1> DEFINE a == allocate_blocks(s)
           w == [k \in 1 .. Len(s) |-> k]
           n == Len(s)
           N(k) == IF k = n THEN NULL ELSE k + 1
           E(k) == [block |-> s[k].block, len |-> s[k].len, bg |-> s[k].bg,
                    prev |-> k - 1, next |-> N(k)]
           m == [k \in 1 .. n |-> E(k)]
           l == [first |-> 1, last |-> 1, iter |-> 1, partial_iter |-> 0]
<1>1. n \in Nat /\ n > 0 /\ \A k \in 1 .. n : s[k] \in Placement
  OBVIOUS
<1>2. \A r \in Placement : r.block \in Nat /\ r.len \in Nat /\ r.bg \in Nat
  BY DEF Placement
<1> DEFINE r == [mem |-> <<>>, list |-> EmptyList, oob_list |-> EmptyList]
<1>3. /\ r \in Allocation /\ r.oob_list = EmptyList
      /\ a = [r EXCEPT !.mem = m, !.list = l]
  <2>1. a = [r EXCEPT !.mem = m, !.list = l]
    BY Zenon DEF allocate_blocks, create_allocation
  <2>2. r \in Allocation /\ r.oob_list = EmptyList
    BY DEF Allocation, List, EmptyList, NULL
  <2> QED BY <2>1, <2>2
<1>4. ASSUME NEW k \in 1 .. n
      PROVE  /\ E(k) \in Region /\ N(k) \in Nat /\ N(k) <= n
             /\ E(k).block = s[k].block /\ E(k).len = s[k].len
             /\ E(k).prev = k - 1 /\ E(k).next = N(k)
  <2>1. s[k].block \in Nat /\ s[k].len \in Nat /\ s[k].bg \in Nat
    BY <1>1, <1>2
  <2>2. k - 1 \in Nat /\ N(k) \in Nat /\ N(k) <= n
    BY <1>1 DEF NULL
  <2> HIDE DEF N
  <2> QED BY <2>1, <2>2 DEF Region
<1> HIDE DEF a, E, N, r
<1>5. m \in Seq(Region) /\ Len(m) = n /\ \A k \in 1 .. n : m[k] = E(k)
  BY <1>1, <1>4
<1> HIDE DEF m
<1>6. l \in List /\ EmptyList \in List
  BY DEF List, EmptyList, NULL
<1>7. a \in Allocation /\ a.mem = m /\ a.list = l /\ a.oob_list = EmptyList
  <2> DEFINE New(s0, x, y) == [s0 EXCEPT !.mem = x, !.list = y]
  <2>1. \A s0 \in Allocation : \A x \in Seq(Region), y \in List :
           /\ New(s0, x, y) \in Allocation /\ New(s0, x, y).mem = x
           /\ New(s0, x, y).list = y /\ New(s0, x, y).oob_list = s0.oob_list
    BY DEF Allocation
  <2>2. a = New(r, m, l)
    BY <1>3
  <2> HIDE DEF l, New
  <2> QED BY <1>3, <1>5, <1>6, <2>1, <2>2
<1>8. Linked(m)
  BY <1>4, <1>5 DEF Linked
<1>9. Len(w) = n /\ w[1] = 1 /\ w \in Seq(1 .. n) /\ \A k \in 1 .. n : w[k] = k
  <2>1. 1 \in 1 .. n
    BY <1>1
  <2> QED BY <1>1, <2>1
<1> HIDE DEF w, n
<1>10. IsPath(m, w)
  <2>1. Len(w) \in 1 .. Len(m) /\ w \in Seq(1 .. Len(m))
    BY <1>1, <1>5, <1>9
  <2>2. ASSUME NEW k \in 1 .. n PROVE m[w[k]].next = IF k = n THEN NULL ELSE w[k + 1]
    <3>1. m[w[k]].next = N(k)
      BY <1>4, <1>5, <1>9
    <3>2. k # n => w[k + 1] = k + 1
      BY <1>1, <1>9
    <3> QED BY <3>1, <3>2 DEF N
  <2> QED BY <1>9, <2>1, <2>2 DEF IsPath
<1> QED BY <1>3, <1>4, <1>5, <1>7, <1>8, <1>9, <1>10 DEF n, w, N, a

\* One block is split off at the iterator, and moved.
LEMMA ReserveAtIter ==
    ASSUME NEW a \in Allocation, Linked(a.mem), NEW w, IsPath(a.mem, w), a.list.iter = w[1],
           1 < a.mem[w[1]].len
    PROVE  LET r == do_split_allocation(a, 1)
               c == WithIter(r.alloc, Len(a.mem) + 1, 0)
           IN  /\ [r EXCEPT !.alloc.list.partial_iter = 0] = [alloc |-> c, reg |-> w[1]]
               /\ c \in Allocation /\ Linked(c.mem) /\ IsSplit(a.mem, c.mem, w[1], 1)
               /\ c.list.first = a.list.first /\ c.list.iter = Len(a.mem) + 1
               /\ c.list.partial_iter = 0 /\ c.oob_list = a.oob_list
               /\ w[1] \in 1 .. Len(c.mem) /\ w[1] \in 1 .. Len(a.mem)
               /\ c.mem[w[1]].next = c.list.iter /\ c.list.iter # w[1]
               /\ MoveToOob(c, w[1]) = Moved(c, w[1])
<1> DEFINE q == w[1]
           L == Len(a.mem)
           r == do_split_allocation(a, 1)
           b == r.alloc
           c == WithIter(b, L + 1, 0)
<1>1. /\ r = [alloc |-> b, reg |-> q]
      /\ b \in Allocation /\ Linked(b.mem) /\ IsSplit(a.mem, b.mem, q, 1)
      /\ b.list.first = a.list.first /\ b.list.iter = L + 1
      /\ b.oob_list = a.oob_list
  <2>1. 1 \in Nat /\ 1 > 0
    OBVIOUS
  <2> QED BY <2>1, SplitFirst
<1> DEFINE e == [b EXCEPT !.list.partial_iter = 0]
<1>2. [r EXCEPT !.alloc.list.partial_iter = 0] = [alloc |-> e, reg |-> q]
  <2>1. \A x, y : [[alloc |-> x, reg |-> y] EXCEPT !.alloc.list.partial_iter = 0]
                     = [alloc |-> [x EXCEPT !.list.partial_iter = 0], reg |-> y]
    OBVIOUS
  <2> HIDE DEF r, b
  <2> QED BY <1>1, <2>1
<1> HIDE DEF r, b
<1>3. c = e
  <2> DEFINE i == L + 1
  <2>1. b \in [mem : Seq(Region), list : List, oob_list : List] /\ b.list \in List /\ b.list.iter = i
    BY <1>1, AllocationFields DEF Allocation
  <2> HIDE DEF i
  <2>2. [b.list EXCEPT !.iter = i, !.partial_iter = 0] = [b.list EXCEPT !.partial_iter = 0]
    BY <2>1 DEF List
  <2>3. [b EXCEPT !.list.iter = i, !.list.partial_iter = 0]
          = [b EXCEPT !.list = [b.list EXCEPT !.iter = i, !.partial_iter = 0]]
    BY <2>1
  <2>4. [b EXCEPT !.list.partial_iter = 0] = [b EXCEPT !.list = [b.list EXCEPT !.partial_iter = 0]]
    BY <2>1
  <2> QED BY <2>2, <2>3, <2>4 DEF WithIter, i
<1>4. L \in Nat /\ L + 1 \in Nat /\ q \in 1 .. L
  BY LinkedFacts DEF IsPath
<1>5. /\ c \in Allocation /\ c.mem = b.mem /\ c.oob_list = b.oob_list
      /\ c.list.first = b.list.first /\ c.list.iter = L + 1 /\ c.list.partial_iter = 0
  <2> DEFINE i == L + 1
  <2>1. i \in Nat /\ 0 \in Nat
    BY <1>4
  <2> HIDE DEF i
  <2>2. IsIter(b, WithIter(b, i, 0), i, 0)
    BY <1>1, <2>1, IterMoved
  <2> QED BY <2>2 DEF IsIter, i
<1> HIDE DEF c, e
<1>6. /\ IsSplit(a.mem, c.mem, q, 1) /\ Len(c.mem) = L + 1 /\ c.mem[q].next = L + 1
  BY <1>1, <1>5 DEF IsSplit
<1>7. q \in 1 .. Len(c.mem) /\ L + 1 # q
  BY <1>4, <1>6
<1>8. MoveToOob(c, q) = Moved(c, q)
  BY <1>5, <1>6, <1>7, MoveOnce
<1> QED BY <1>1, <1>2, <1>3, <1>4, <1>5, <1>6, <1>7, <1>8 DEF c, e, r, b

-----------------------------------------------------------------------------
(* The steps of Extent keep the invariant                                  *)

LEMMA StartInv == IndirectInit => ExtentInv
BY DEF IndirectInit, Init, ExtentInv, IdleInv, NewInode, NoHeader, ExtentSteps

LEMMA AllocateInv ==
    ASSUME ExtentInv, NEW layout \in Layouts, NEW tail \in Tails,
           NEW b \in {"data", "file", "none"}, allocate(layout, tail, b)
    PROVE  ExtentInv'
<1>1. /\ pc = "idle" /\ IdleInv /\ pc' = "header"
      /\ alloc' = allocate_blocks(layout) /\ regions' = layout
      /\ len' = (SumLen(layout) - 1) * BlockSize - tail /\ backing' = b
      /\ left' = (IF b = "none" THEN 0 ELSE len')
      /\ inode' = inode /\ extents' = extents /\ pieces' = pieces
  BY DEF allocate, ExtentInv
<1>2. Requested'
  BY <1>1 DEF Requested
<1>3. HeaderInv'
  BY <1>1 DEF HeaderInv, IdleInv, NewInode, NoHeader
<1>4. extents' \in Seq(Extents) /\ pieces' \in Seq(Pieces)
  BY <1>1, SMTT(60) DEF IdleInv
<1> QED BY <1>1, <1>2, <1>3, <1>4 DEF ExtentInv, ExtentSteps

\* What the allocation looks like before the additional block has a use.
LEMMA HeaderFacts ==
    ASSUME ExtentInv, pc = "header"
    PROVE  /\ alloc \in Allocation /\ Linked(alloc.mem) /\ Len(alloc.mem) = Len(regions)
           /\ \A k \in 1 .. Len(regions) :
                 /\ alloc.mem[k].block = regions[k].block /\ alloc.mem[k].len = regions[k].len
                 /\ alloc.mem[k].prev = k - 1
                 /\ alloc.mem[k].next = IF k = Len(regions) THEN NULL ELSE k + 1
           /\ alloc.list = [first |-> 1, last |-> 1, iter |-> 1, partial_iter |-> 0]
           /\ alloc.oob_list = EmptyList
           /\ \E w : IsPath(alloc.mem, w) /\ Len(w) = Len(regions) /\ w[1] = 1
           /\ block_allocation_num_regions(alloc) = Len(regions)
           /\ regions \in Seq(Placement) /\ Len(regions) \in Nat /\ Len(regions) > 0
           /\ regions[1].len \in Nat /\ regions[1].len > 1 /\ regions[1].block \in Nat
<1>1. Requested /\ alloc = allocate_blocks(regions)
  BY DEF ExtentInv, ExtentSteps, HeaderInv
<1>2. /\ regions \in Seq(Placement) /\ Len(regions) \in Nat /\ Len(regions) > 0
      /\ regions[1].len \in Nat /\ regions[1].len > 1 /\ regions[1].block \in Nat
  BY <1>1, LayoutFacts DEF Requested
<1>3. LET a == allocate_blocks(regions)
          w == [k \in 1 .. Len(regions) |-> k]
      IN  /\ a \in Allocation /\ Linked(a.mem) /\ Len(a.mem) = Len(regions)
          /\ \A k \in 1 .. Len(regions) :
                /\ a.mem[k].block = regions[k].block /\ a.mem[k].len = regions[k].len
                /\ a.mem[k].prev = k - 1
                /\ a.mem[k].next = IF k = Len(regions) THEN NULL ELSE k + 1
          /\ a.list = [first |-> 1, last |-> 1, iter |-> 1, partial_iter |-> 0]
          /\ a.oob_list = EmptyList
          /\ IsPath(a.mem, w) /\ Len(w) = Len(regions) /\ w[1] = 1
  BY <1>2, AllocatedList
<1> DEFINE w == [k \in 1 .. Len(regions) |-> k]
<1>4. IsPath(alloc.mem, w) /\ Len(w) = Len(regions) /\ w[1] = 1 /\ Linked(alloc.mem)
      /\ alloc.list.first = 1
  BY <1>1, <1>3
<1> HIDE DEF w
<1>5. block_allocation_num_regions(alloc) = Len(regions)
  <2>1. Chain(alloc.mem, w[1]) = w
    BY <1>4, PathChain
  <2> QED BY <1>4, <2>1 DEF block_allocation_num_regions
<1> QED BY <1>1, <1>2, <1>3, <1>4, <1>5

LEMMA UseInodeInv ==
    ASSUME ExtentInv, use_inode
    PROVE  ExtentInv'
<1> DEFINE n == Len(regions)
           a == WithShorter(alloc, 1)
<1>1. /\ pc = "header" /\ pc' = "fill" /\ alloc' = reduce_allocation(alloc)
      /\ inode' = [inode EXCEPT !.header = [entries |-> block_allocation_num_regions(alloc), max |-> 3]]
      /\ regions' = regions /\ len' = len /\ backing' = backing /\ extents' = extents
      /\ pieces' = pieces /\ left' = left
  BY DEF use_inode
<1>2. /\ HeaderInv /\ Requested /\ extents = <<>> /\ pieces = <<>> /\ inode = NewInode
      /\ left = IF backing = "none" THEN 0 ELSE len
  BY <1>1 DEF ExtentInv, ExtentSteps, HeaderInv
<1>3. /\ alloc \in Allocation /\ Linked(alloc.mem) /\ Len(alloc.mem) = n
      /\ \A k \in 1 .. n :
            /\ alloc.mem[k].block = regions[k].block /\ alloc.mem[k].len = regions[k].len
            /\ alloc.mem[k].next = IF k = n THEN NULL ELSE k + 1
      /\ alloc.list = [first |-> 1, last |-> 1, iter |-> 1, partial_iter |-> 0]
      /\ alloc.oob_list = EmptyList
      /\ block_allocation_num_regions(alloc) = n
      /\ regions \in Seq(Placement) /\ n \in Nat /\ n > 0
      /\ regions[1].len \in Nat /\ regions[1].len > 1 /\ regions[1].block \in Nat
  BY <1>1, HeaderFacts
<1>4. alloc' = a
  <2>1. alloc.list.last = 1 /\ alloc.mem[1].len > 1
    BY <1>3
  <2> QED BY <1>1, <2>1 DEF reduce_allocation, WithShorter
<1>5. inode'.depth = 0 /\ inode'.header.entries = n /\ inode' \in Inodes
  <2> DEFINE h == [entries |-> n, max |-> 3]
  <2>1. h \in Headers /\ h.entries = n
    BY <1>3 DEF Headers
  <2>2. inode' = [inode EXCEPT !.header = h]
    BY <1>1, <1>3
  <2> HIDE DEF h
  <2> QED BY <1>2, <2>1, <2>2 DEF NewInode, Inodes
<1>6. /\ a \in Allocation /\ a.list = alloc.list /\ a.oob_list = alloc.oob_list
      /\ Len(a.mem) = Len(alloc.mem) /\ a.mem[1].len = alloc.mem[1].len - 1
      /\ \A r \in 1 .. Len(alloc.mem) : /\ a.mem[r].block = alloc.mem[r].block
                                        /\ a.mem[r].next = alloc.mem[r].next
                                        /\ r # 1 => a.mem[r] = alloc.mem[r]
  <2>1. 1 \in 1 .. Len(alloc.mem) /\ alloc.mem[1].len > 0
    BY <1>3
  <2> QED BY <1>3, <2>1, OneShorter
<1> HIDE DEF a
<1> DEFINE t == Shortened(regions, 0)
<1>7. /\ t[1].block = regions[1].block /\ t[1].len = regions[1].len - 1
      /\ \A k \in 2 .. n : t[k] = regions[k]
  BY <1>3, ShortenedFacts
<1>8. Kept' = t /\ \A k : Node(k)' = IF k = n + 1 THEN NULL ELSE k
  BY <1>1, <1>5 DEF Kept, Node
<1> HIDE DEF t, n
<1>9. ListsInv'
  <2>1. Linked(a.mem)
    <3>1. a.mem \in Seq(Region)
      BY <1>6, AllocationFields
    <3> QED BY <1>3, <1>6, <3>1 DEF Linked
  <2>2. ASSUME NEW k \in 1 .. n
        PROVE  /\ a.mem[k].block = t[k].block /\ a.mem[k].len = t[k].len
               /\ a.mem[k].next = IF k + 1 = n + 1 THEN NULL ELSE k + 1
    <3>1. CASE k = 1
      BY <1>3, <1>6, <1>7, <3>1
    <3>2. CASE k # 1
      <4>1. k \in 2 .. n
        BY <1>3, <3>2
      <4>2. t[k] = regions[k]
        BY <1>7, <4>1
      <4>3. a.mem[k] = alloc.mem[k]
        BY <1>3, <1>6, <3>2
      <4>4. /\ alloc.mem[k].block = regions[k].block /\ alloc.mem[k].len = regions[k].len
            /\ alloc.mem[k].next = IF k = n THEN NULL ELSE k + 1
        BY <1>3
      <4>5. k + 1 = n + 1 <=> k = n
        BY <1>3
      <4> QED BY <4>2, <4>3, <4>4, <4>5
    <3> QED BY <3>1, <3>2
  <2>3. \A k \in 1 .. n : LET r == a.mem[Node(k)'] IN
           r.block = Kept'[k].block /\ r.len = Kept'[k].len /\ r.next = Node(k + 1)'
    <3> SUFFICES ASSUME NEW k \in 1 .. n
                 PROVE  LET r == a.mem[Node(k)'] IN
                        r.block = Kept'[k].block /\ r.len = Kept'[k].len /\ r.next = Node(k + 1)'
      OBVIOUS
    <3>1. Node(k)' = k /\ Node(k + 1)' = IF k + 1 = n + 1 THEN NULL ELSE k + 1
      BY <1>3, <1>8
    <3> QED BY <1>8, <2>2, <3>1
  <2>4. a.list.first = Node(1)' /\ a.list.partial_iter = 0
    BY <1>3, <1>6, <1>8
  <2>5. Len(a.mem) = Len(regions)
    BY <1>3, <1>6 DEF n
  <2> QED BY <1>1, <1>3, <1>4, <1>5, <1>6, <2>1, <2>3, <2>4, <2>5 DEF ListsInv, n
<1>10. FillInv'
  <2>1. a.list.iter = Node(1)'
    BY <1>3, <1>6, <1>8
  <2>2. Len(extents') = 0 /\ DOMAIN extents' = {} /\ Len(pieces') = 0
    BY <1>1, <1>2
  <2>3. a.list.iter = Node(Len(extents) + 1)'
    BY <1>1, <2>1, <2>2
  <2> QED BY <1>1, <1>2, <1>3, <1>4, <1>5, <2>2, <2>3 DEF FillInv, n
<1>11. Requested' /\ extents' \in Seq(Extents) /\ pieces' \in Seq(Pieces)
  BY <1>1, <1>2 DEF Requested
<1> QED BY <1>1, <1>5, <1>9, <1>10, <1>11 DEF ExtentInv, ExtentSteps

\* Where the iterator is at the start of a region, its first block is taken.
LEMMA ReserveHere ==
    ASSUME NEW a \in Allocation, Linked(a.mem), NEW w, IsPath(a.mem, w), a.list.iter = w[1],
           a.list.partial_iter = 0, 1 < a.mem[w[1]].len
    PROVE  LET c == WithIter(do_split_allocation(a, 1).alloc, Len(a.mem) + 1, 0) IN
           /\ reserve_oob_blocks(a, 1) = [failed |-> FALSE, alloc |-> Moved(c, w[1])]
           /\ c \in Allocation /\ Linked(c.mem) /\ IsSplit(a.mem, c.mem, w[1], 1)
           /\ c.list.first = a.list.first /\ c.list.iter = Len(a.mem) + 1
           /\ c.list.partial_iter = 0 /\ c.oob_list = a.oob_list
           /\ w[1] \in 1 .. Len(c.mem) /\ w[1] \in 1 .. Len(a.mem)
<1> DEFINE c == WithIter(do_split_allocation(a, 1).alloc, Len(a.mem) + 1, 0)
<1>1. /\ [do_split_allocation(a, 1) EXCEPT !.alloc.list.partial_iter = 0] = [alloc |-> c, reg |-> w[1]]
      /\ c \in Allocation /\ Linked(c.mem) /\ IsSplit(a.mem, c.mem, w[1], 1)
      /\ c.list.first = a.list.first /\ c.list.iter = Len(a.mem) + 1
      /\ c.list.partial_iter = 0 /\ c.oob_list = a.oob_list
      /\ w[1] \in 1 .. Len(c.mem) /\ w[1] \in 1 .. Len(a.mem)
      /\ MoveToOob(c, w[1]) = Moved(c, w[1])
  BY ReserveAtIter, SMTT(60)
<1>2. do_split_allocation(a, 0).alloc = a
  <2>1. 0 \in Nat /\ 0 < a.mem[w[1]].len
    BY <1>1, LinkedFacts
  <2> DEFINE r == do_split_allocation(a, 0)
  <2>2. r = [alloc |-> r.alloc, reg |-> w[1]] /\ r.alloc = a
    BY <2>1, SplitFirst
  <2> QED BY <2>2
<1> HIDE DEF c
<1>3. split_allocation(a, 1) = [alloc |-> c, reg |-> w[1]]
  BY <1>1, <1>2 DEF split_allocation
<1>4. w[1] # NULL
  <2>1. Len(a.mem) \in Nat
    BY LinkedFacts
  <2> QED BY <1>1, <2>1 DEF NULL
<1>5. reserve_oob_blocks(a, 1) = [failed |-> FALSE, alloc |-> MoveToOob(c, w[1])]
  <2> DEFINE s == split_allocation(a, 1)
             q == w[1]
  <2>1. s.reg = q /\ s.alloc = c /\ q # NULL
    BY <1>3, <1>4
  <2> HIDE DEF s, q
  <2>2. reserve_oob_blocks(a, 1)
          = [failed |-> s.reg = NULL, alloc |-> IF s.reg = NULL THEN s.alloc ELSE MoveToOob(s.alloc, s.reg)]
    BY Zenon DEF reserve_oob_blocks, s
  <2>3. (s.reg = NULL) = FALSE
    BY <2>1
  <2>4. (IF s.reg = NULL THEN s.alloc ELSE MoveToOob(s.alloc, s.reg)) = MoveToOob(c, q)
    BY <2>1
  <2> QED BY <2>2, <2>3, <2>4, Zenon DEF q
<1> QED BY <1>1, <1>5 DEF c

\* The leaf is the first block, and the data keeps the others.
LEMMA UseLeafSplit ==
    ASSUME ExtentInv, pc = "header"
    PROVE  LET n == Len(regions)
               b == reserve_oob_blocks(alloc, 1).alloc
               t == Shortened(regions, 1)
           IN  /\ b \in Allocation /\ Linked(b.mem) /\ Len(b.mem) = n + 1
               /\ b.mem[1].next = NULL /\ b.mem[1].block = regions[1].block /\ b.mem[1].len = 1
               /\ b.mem[n + 1].block = t[1].block /\ b.mem[n + 1].len = t[1].len
               /\ b.mem[n + 1].next = IF n = 1 THEN NULL ELSE 2
               /\ \A k \in 2 .. n : /\ b.mem[k].block = t[k].block /\ b.mem[k].len = t[k].len
                                    /\ b.mem[k].next = IF k = n THEN NULL ELSE k + 1
               /\ b.list.first = n + 1 /\ b.list.iter = n + 1 /\ b.list.partial_iter = 0
               /\ b.oob_list.first = 1
               /\ get_oob_block(b, 0) = regions[1].block
<1> DEFINE n == Len(regions)
           c == WithIter(do_split_allocation(alloc, 1).alloc, Len(alloc.mem) + 1, 0)
           b == Moved(c, 1)
           t == Shortened(regions, 1)
<1>1. /\ alloc \in Allocation /\ Linked(alloc.mem) /\ Len(alloc.mem) = n
      /\ \A k \in 1 .. n :
            /\ alloc.mem[k].block = regions[k].block /\ alloc.mem[k].len = regions[k].len
            /\ alloc.mem[k].prev = k - 1
            /\ alloc.mem[k].next = IF k = n THEN NULL ELSE k + 1
      /\ alloc.list = [first |-> 1, last |-> 1, iter |-> 1, partial_iter |-> 0]
      /\ alloc.oob_list = EmptyList
      /\ regions \in Seq(Placement) /\ n \in Nat /\ n > 0
      /\ regions[1].len \in Nat /\ regions[1].len > 1 /\ regions[1].block \in Nat
  BY HeaderFacts
<1>2. PICK w : IsPath(alloc.mem, w) /\ w[1] = 1
  BY HeaderFacts
<1>3. /\ reserve_oob_blocks(alloc, 1) = [failed |-> FALSE, alloc |-> b]
      /\ c \in Allocation /\ Linked(c.mem) /\ IsSplit(alloc.mem, c.mem, 1, 1)
      /\ c.list.first = 1 /\ c.list.iter = n + 1
      /\ c.list.partial_iter = 0 /\ c.oob_list = EmptyList
      /\ 1 \in 1 .. Len(c.mem)
  <2>1. alloc \in Allocation /\ Linked(alloc.mem) /\ IsPath(alloc.mem, w)
        /\ alloc.list.iter = w[1] /\ alloc.list.partial_iter = 0 /\ 1 < alloc.mem[w[1]].len
        /\ alloc.list.first = 1
    BY <1>1, <1>2
  <2>2. /\ reserve_oob_blocks(alloc, 1) = [failed |-> FALSE, alloc |-> Moved(c, w[1])]
        /\ c \in Allocation /\ Linked(c.mem) /\ IsSplit(alloc.mem, c.mem, w[1], 1)
        /\ c.list.first = alloc.list.first /\ c.list.iter = Len(alloc.mem) + 1
        /\ c.list.partial_iter = 0 /\ c.oob_list = alloc.oob_list
        /\ w[1] \in 1 .. Len(c.mem)
    BY ONLY <2>1, ReserveHere
  <2> HIDE DEF c
  <2> QED BY <1>1, <1>2, <2>1, <2>2
<1> HIDE DEF c
<1>4. IsMoved(c, b, 1)
  BY <1>3, MovedFacts
<1> HIDE DEF b
<1>5. /\ t[1].block = regions[1].block + 1 /\ t[1].len = regions[1].len - 1
      /\ \A k \in 2 .. n : t[k] = regions[k]
  BY <1>1, ShortenedFacts
<1> HIDE DEF t, n
<1>6. /\ Len(c.mem) = n + 1
      /\ c.mem[1].next = n + 1 /\ c.mem[1].len = 1 /\ c.mem[1].block = regions[1].block
      /\ c.mem[1].prev = 0
      /\ c.mem[n + 1].block = t[1].block /\ c.mem[n + 1].len = t[1].len
      /\ c.mem[n + 1].next = IF n = 1 THEN NULL ELSE 2
      /\ \A k \in 2 .. n : c.mem[k] = alloc.mem[k]
  <2>1. 1 \in 1 .. n
    BY <1>1
  <2>2. /\ alloc.mem[1].block = regions[1].block /\ alloc.mem[1].len = regions[1].len
        /\ alloc.mem[1].prev = 0 /\ alloc.mem[1].next = IF n = 1 THEN NULL ELSE 2
    BY <1>1, <2>1
  <2>3. \A k \in 2 .. n : k \in 1 .. n /\ k # 1
    BY <1>1
  <2> QED BY <1>1, <1>3, <1>5, <2>2, <2>3 DEF IsSplit
<1>7. EmptyList.first = NULL
  BY DEF EmptyList
<1>8. /\ b \in Allocation /\ Len(b.mem) = n + 1
      /\ \A q \in 1 .. (n + 1) : /\ b.mem[q].block = c.mem[q].block /\ b.mem[q].len = c.mem[q].len
                                 /\ b.mem[q].next = IF q = 1 THEN NULL ELSE c.mem[q].next
      /\ b.list.first = n + 1 /\ b.list.iter = n + 1 /\ b.list.partial_iter = 0
      /\ b.oob_list = [first |-> 1, last |-> 1, iter |-> 1, partial_iter |-> 0]
  <2>1. \A q \in 1 .. (n + 1) : NextMoved(c, 1, q) = IF q = 1 THEN NULL ELSE c.mem[q].next
    <3> SUFFICES ASSUME NEW q \in 1 .. (n + 1)
                 PROVE  NextMoved(c, 1, q) = IF q = 1 THEN NULL ELSE c.mem[q].next
      OBVIOUS
    <3>1. q # 0
      BY <1>1
    <3> QED BY <1>3, <1>6, <1>7, <3>1 DEF NextMoved, NextWithout
  <2> QED BY <1>3, <1>4, <1>6, <1>7, <2>1 DEF IsMoved
<1>9. /\ b.mem[1].next = NULL /\ b.mem[1].block = regions[1].block /\ b.mem[1].len = 1
      /\ b.mem[n + 1].block = t[1].block /\ b.mem[n + 1].len = t[1].len
      /\ b.mem[n + 1].next = IF n = 1 THEN NULL ELSE 2
  <2>1. 1 \in 1 .. (n + 1) /\ n + 1 \in 1 .. (n + 1) /\ n + 1 # 1
    BY <1>1
  <2> QED BY <1>6, <1>8, <2>1
<1>10. ASSUME NEW k \in 2 .. n
       PROVE  /\ b.mem[k].block = t[k].block /\ b.mem[k].len = t[k].len
              /\ b.mem[k].next = IF k = n THEN NULL ELSE k + 1
  <2>1. k \in 1 .. n /\ k \in 1 .. (n + 1) /\ k # 1
    BY <1>1
  <2>2. c.mem[k] = alloc.mem[k] /\ t[k] = regions[k]
    BY <1>5, <1>6
  <2>3. b.mem[k].block = c.mem[k].block /\ b.mem[k].len = c.mem[k].len /\ b.mem[k].next = c.mem[k].next
    BY <1>8, <2>1
  <2>4. /\ alloc.mem[k].block = regions[k].block /\ alloc.mem[k].len = regions[k].len
        /\ alloc.mem[k].next = IF k = n THEN NULL ELSE k + 1
    BY <1>1, <2>1
  <2> QED BY <2>2, <2>3, <2>4
<1>11. Linked(b.mem)
  <2>1. b.mem \in Seq(Region)
    BY <1>8, AllocationFields
  <2>2. ASSUME NEW q \in 1 .. (n + 1) PROVE b.mem[q].next <= n + 1
    <3>1. CASE q = 1
      BY <1>1, <1>9, <3>1 DEF NULL
    <3>2. CASE q = n + 1
      <4>1. n = 1 \/ n >= 2
        BY <1>1
      <4> QED BY <1>1, <1>9, <3>2, <4>1 DEF NULL
    <3>3. CASE q # 1 /\ q # n + 1
      <4>1. q \in 2 .. n
        BY <1>1, <3>3
      <4>2. b.mem[q].next = IF q = n THEN NULL ELSE q + 1
        BY <1>10, <4>1
      <4> QED BY <1>1, <4>1, <4>2 DEF NULL
    <3> QED BY <3>1, <3>2, <3>3
  <2> QED BY <1>8, <2>1, <2>2 DEF Linked
<1>12. get_oob_block(b, 0) = regions[1].block
  <2> DEFINE v == <<1>>
  <2>1. IsPath(b.mem, v)
    <3>1. v \in Seq(1 .. Len(b.mem)) /\ Len(v) = 1 /\ v[1] = 1 /\ 1 \in 1 .. Len(b.mem)
      <4>1. 1 \in 1 .. Len(b.mem)
        BY <1>1, <1>8
      <4> QED BY <4>1
    <3> HIDE DEF v
    <3> QED BY <1>9, <3>1 DEF IsPath
  <2>2. v[1] = 1 /\ 0 \in Nat /\ 0 < b.mem[v[1]].len
    BY <1>9
  <2> HIDE DEF v
  <2>3. SkipRegions(b, 1, 0) = [reg |-> 1, left |-> 0]
    BY <1>11, <2>1, <2>2, SkipFirst, ZenonT(60)
  <2>4. b.oob_list.iter = 1 /\ b.oob_list.partial_iter = 0 /\ 0 + b.oob_list.partial_iter = 0
    BY <1>8
  <2>5. b.mem[1].block + 0 = regions[1].block
    BY <1>1, <1>9
  <2> QED BY <2>3, <2>4, <2>5 DEF get_oob_block, BlockAt, NULL
<1>13. b.oob_list.first = 1 /\ reserve_oob_blocks(alloc, 1).alloc = b
  BY <1>3, <1>8
<1> QED BY <1>8, <1>9, <1>10, <1>11, <1>12, <1>13, SMTT(60) DEF n, t

LEMMA UseLeafInv ==
    ASSUME ExtentInv, use_leaf
    PROVE  ExtentInv' /\ ListsInv' /\ Requested'
<1> DEFINE n == Len(regions)
           b == reserve_oob_blocks(alloc, 1).alloc
           t == Shortened(regions, 1)
<1>1. /\ pc = "header" /\ block_allocation_num_regions(alloc) > 3 /\ alloc' = b
      /\ inode' = [inode EXCEPT !.header = [entries |-> 1, max |-> 3],
                                !.depth = 1, !.index = get_oob_block(b, 0)]
      /\ pieces' = Append(pieces, [block |-> get_oob_block(b, 0), size |-> BlockSize,
                                   of |-> "leaf", at |-> 0])
      /\ regions' = regions /\ len' = len /\ backing' = backing /\ extents' = extents
      /\ left' = left
  BY DEF use_leaf
<1>2. \/ pc' = "failed"
      \/ pc' = "fill" /\ leaf'.entries = block_allocation_num_regions(alloc)
  BY DEF use_leaf
<1>3. /\ HeaderInv /\ Requested /\ extents = <<>> /\ pieces = <<>> /\ inode = NewInode
      /\ left = IF backing = "none" THEN 0 ELSE len
  BY <1>1 DEF ExtentInv, ExtentSteps, HeaderInv
<1>4. /\ b \in Allocation /\ Linked(b.mem) /\ Len(b.mem) = n + 1
      /\ b.mem[1].next = NULL /\ b.mem[1].block = regions[1].block /\ b.mem[1].len = 1
      /\ b.mem[n + 1].block = t[1].block /\ b.mem[n + 1].len = t[1].len
      /\ b.mem[n + 1].next = IF n = 1 THEN NULL ELSE 2
      /\ \A k \in 2 .. n : /\ b.mem[k].block = t[k].block /\ b.mem[k].len = t[k].len
                           /\ b.mem[k].next = IF k = n THEN NULL ELSE k + 1
      /\ b.list.first = n + 1 /\ b.list.iter = n + 1 /\ b.list.partial_iter = 0
      /\ b.oob_list.first = 1
      /\ get_oob_block(b, 0) = regions[1].block
  BY <1>1, UseLeafSplit
<1> HIDE DEF b
<1>5. /\ block_allocation_num_regions(alloc) = n /\ n \in Nat /\ n > 0
      /\ regions[1].block \in Nat
  BY <1>1, HeaderFacts
<1>6. /\ inode'.depth = 1 /\ inode'.header.entries = 1 /\ inode'.index = regions[1].block
      /\ inode' \in Inodes
  <2> DEFINE h == [entries |-> 1, max |-> 3]
             x == get_oob_block(b, 0)
  <2>1. h \in Headers /\ h.entries = 1 /\ x \in Nat /\ x = regions[1].block
    BY <1>4, <1>5 DEF Headers
  <2>2. inode' = [inode EXCEPT !.header = h, !.depth = 1, !.index = x]
    BY <1>1
  <2> HIDE DEF h, x
  <2> QED BY <1>3, <2>1, <2>2 DEF NewInode, Inodes
<1>7. Kept' = t /\ \A k : Node(k)' = IF k = n + 1 THEN NULL ELSE IF k = 1 THEN n + 1 ELSE k
  BY <1>1, <1>6 DEF Kept, Node
<1> HIDE DEF t, n
<1>8. ListsInv'
  <2>1. \A k \in 1 .. n : LET r == b.mem[Node(k)'] IN
           r.block = Kept'[k].block /\ r.len = Kept'[k].len /\ r.next = Node(k + 1)'
    <3> SUFFICES ASSUME NEW k \in 1 .. n
                 PROVE  LET r == b.mem[Node(k)'] IN
                        r.block = Kept'[k].block /\ r.len = Kept'[k].len /\ r.next = Node(k + 1)'
      OBVIOUS
    <3>1. CASE k = 1
      <4>1. Node(k)' = n + 1 /\ Node(k + 1)' = IF n = 1 THEN NULL ELSE 2
        BY <1>5, <1>7, <3>1
      <4> QED BY <1>4, <1>7, <3>1, <4>1
    <3>2. CASE k # 1
      <4>1. Node(k)' = k /\ Node(k + 1)' = (IF k = n THEN NULL ELSE k + 1) /\ k \in 2 .. n
        BY <1>5, <1>7, <3>2
      <4>2. /\ b.mem[k].block = t[k].block /\ b.mem[k].len = t[k].len
            /\ b.mem[k].next = IF k = n THEN NULL ELSE k + 1
        BY <1>4, <4>1
      <4> QED BY <1>7, <4>1, <4>2
    <3> QED BY <3>1, <3>2
  <2>2. b.list.first = Node(1)'
    BY <1>4, <1>5, <1>7
  <2>3. Len(b.mem) = Len(regions) + 1
    BY <1>4 DEF n
  <2> QED BY <1>1, <1>4, <1>6, <2>1, <2>2, <2>3 DEF ListsInv, n
<1>9. pieces' \in Seq(Pieces) /\ Len(pieces') = 1
  <2> DEFINE e == [block |-> regions[1].block, size |-> BlockSize, of |-> "leaf", at |-> 0]
  <2>1. e \in Pieces
    BY <1>5, SizeFacts DEF Pieces
  <2>2. pieces' = Append(pieces, e)
    BY <1>1, <1>4
  <2> HIDE DEF e
  <2>3. pieces \in Seq(Pieces) /\ Len(pieces) = 0
    BY <1>3
  <2> QED BY <2>1, <2>2, <2>3
<1>10. FillInv'
  <2>1. Len(extents') = 0 /\ DOMAIN extents' = {}
    BY <1>1, <1>3
  <2>2. b.list.iter = Node(1)'
    BY <1>4, <1>5, <1>7
  <2>3. b.list.iter = Node(Len(extents) + 1)'
    BY <1>1, <2>1, <2>2
  <2> QED BY <1>1, <1>3, <1>5, <1>6, <1>9, <2>1, <2>3 DEF FillInv, n
<1>11. Requested' /\ extents' \in Seq(Extents)
  BY <1>1, <1>3 DEF Requested
<1>12. CASE pc' = "failed"
  BY <1>8, <1>11, <1>12 DEF ExtentInv, ExtentSteps
<1>13. CASE pc' = "fill" /\ leaf'.entries = n
  <2>1. leaf'.entries = Len(regions')
    BY <1>1, <1>13 DEF n
  <2> QED BY <1>8, <1>9, <1>10, <1>11, <1>13, <2>1 DEF ExtentInv, ExtentSteps
<1> QED BY <1>2, <1>5, <1>12, <1>13

\* What a step that moves only the iterator leaves as it is.
LEMMA ListsKept ==
    ASSUME ListsInv, NEW i \in Nat, alloc' = WithIter(alloc, i, 0),
           regions' = regions, inode' \in Inodes, inode'.depth = inode.depth, inode'.header = inode.header,
           inode'.index = inode.index
    PROVE  /\ ListsInv' /\ alloc'.list.iter = i /\ alloc'.list.first = alloc.list.first
           /\ Kept' = Kept /\ \A k : Node(k)' = Node(k)
<1>1. alloc \in Allocation /\ alloc.list.partial_iter = 0
  BY DEF ListsInv
<1>2. /\ alloc' \in Allocation /\ alloc'.mem = alloc.mem /\ alloc'.oob_list = alloc.oob_list
      /\ alloc'.list.first = alloc.list.first /\ alloc'.list.iter = i
      /\ alloc'.list.partial_iter = 0
  <2>1. IsIter(alloc, alloc', i, 0)
    BY <1>1, 0 \in Nat, IterMoved
  <2> QED BY <2>1 DEF IsIter
<1>3. Kept' = Kept /\ \A k : Node(k)' = Node(k)
  BY DEF Kept, Node
<1>4. ListsInv'
  <2>1. \A k \in 1 .. Len(regions) :
           LET r == alloc'.mem[Node(k)'] IN
           r.block = Kept'[k].block /\ r.len = Kept'[k].len /\ r.next = Node(k + 1)'
    BY <1>2, <1>3 DEF ListsInv
  <2>2. alloc'.list.first = Node(1)'
    BY <1>2, <1>3 DEF ListsInv
  <2> QED BY <1>2, <2>1, <2>2 DEF ListsInv
<1> QED BY <1>2, <1>3, <1>4

\* The node the iterator is at, while there is one.
LEMMA NodeFacts ==
    ASSUME ListsInv, Requested, NEW k \in 1 .. Len(regions), alloc.list.iter = Node(k)
    PROVE  /\ ~last_region(alloc) /\ Node(k + 1) \in Nat
           /\ get_region(alloc) = [block |-> Kept[k].block, len |-> Kept[k].len]
           /\ get_next_region(alloc) = WithIter(alloc, Node(k + 1), 0)
           /\ Kept[k].len \in Nat /\ Kept[k].block \in Nat
<1> DEFINE q == Node(k)
<1>1. inode.depth \in {0, 1} /\ alloc.list.partial_iter = 0
  BY DEF ListsInv
<1>2. Kept[k].len \in Nat /\ Kept[k].block \in Nat /\ Len(regions) \in Nat
  BY <1>1, KeptFacts, LayoutFacts DEF Requested
<1>3. q \in Nat /\ q # NULL /\ Node(k + 1) \in Nat
  BY <1>2 DEF Node, NULL
<1>4. alloc.mem[q].block = Kept[k].block /\ alloc.mem[q].len = Kept[k].len
      /\ alloc.mem[q].next = Node(k + 1)
  BY DEF ListsInv
<1> HIDE DEF q
<1>5. alloc.list.iter = q
  BY DEF q
<1>6. Kept[k].len - 0 = Kept[k].len
  BY <1>2
<1>7. get_region(alloc) = [block |-> Kept[k].block, len |-> Kept[k].len]
  <2>1. alloc.mem[alloc.list.iter].len - alloc.list.partial_iter = Kept[k].len
        /\ alloc.mem[alloc.list.iter].block = Kept[k].block
    BY <1>1, <1>4, <1>5, <1>6
  <2> QED BY <2>1, Zenon DEF get_region
<1>8. get_next_region(alloc) = WithIter(alloc, Node(k + 1), 0)
  <2>1. alloc.mem[alloc.list.iter].next = Node(k + 1)
    BY <1>4, <1>5
  <2> QED BY <2>1, Zenon DEF get_next_region, WithIter
<1> QED BY <1>2, <1>3, <1>5, <1>7, <1>8 DEF last_region

LEMMA FillExtentInv ==
    ASSUME ExtentInv, fill_extent
    PROVE  ExtentInv'
<1> DEFINE n == Len(regions)
           m == Len(extents)
           k == m + 1
           e == [file_block |-> file_block, len |-> get_region(alloc).len,
                 block |-> get_region(alloc).block]
<1>1. /\ pc = "fill" /\ pc' = "fill" /\ ~last_region(alloc)
      /\ extents' = Append(extents, e) /\ alloc' = get_next_region(alloc)
      /\ regions' = regions /\ len' = len /\ backing' = backing /\ inode' = inode
      /\ leaf' = leaf /\ pieces' = pieces /\ left' = left
  BY DEF fill_extent
<1>2. /\ Requested /\ ListsInv /\ FillInv /\ extents \in Seq(Extents) /\ pieces \in Seq(Pieces)
      /\ inode.depth = 1 => leaf.entries = Len(regions)
  BY <1>1 DEF ExtentInv, ExtentSteps
<1>3. inode.depth \in {0, 1} /\ n \in Nat /\ n > 0 /\ m \in 0 .. n
  BY <1>2, LayoutFacts DEF Requested, ListsInv, FillInv
<1>4. alloc.list.iter = Node(k)
  BY <1>2 DEF FillInv
<1>5. k \in 1 .. n
  <2>1. m # n
    BY <1>1, <1>3, <1>4 DEF last_region, Node
  <2> QED BY <1>3, <2>1
<1>6. /\ Node(k + 1) \in Nat
      /\ get_region(alloc) = [block |-> Kept[k].block, len |-> Kept[k].len]
      /\ alloc' = WithIter(alloc, Node(k + 1), 0)
      /\ Kept[k].len \in Nat /\ Kept[k].block \in Nat
  BY <1>1, <1>2, <1>4, <1>5, NodeFacts
<1>7. /\ ListsInv' /\ alloc'.list.iter = Node(k + 1)
      /\ Kept' = Kept /\ \A j : Node(j)' = Node(j)
  <2> DEFINE i == Node(k + 1)
  <2>1. i \in Nat /\ alloc' = WithIter(alloc, i, 0)
    BY <1>6
  <2> HIDE DEF i
  <2>2. ListsInv' /\ alloc'.list.iter = i /\ Kept' = Kept /\ \A j : Node(j)' = Node(j)
    BY <1>1, <1>2, <2>1, ListsKept DEF ListsInv
  <2> QED BY <2>2 DEF i
<1>8. file_block = Sum(Kept, m) /\ Sum(Kept, m) \in Nat
  <2>1. SumLen(extents) = Sum(Kept, Len(extents))
    BY <1>2, <1>3, ExtentSums DEF FillInv
  <2>2. Sum(Kept, m) \in Nat
    BY <1>2, <1>3, KeptFacts
  <2> QED BY <2>1, <2>2 DEF file_block
<1>9. e = ExtentOf(k) /\ e \in Extents
  <2> DEFINE x == Sum(Kept, m)
             y == Kept[k].len
             z == Kept[k].block
  <2>1. e = [file_block |-> x, len |-> y, block |-> z]
    BY <1>6, <1>8
  <2>2. k - 1 = m
    BY <1>3
  <2>3. ExtentOf(k) = [file_block |-> x, len |-> y, block |-> z]
    BY <2>2 DEF ExtentOf
  <2>4. x \in Nat /\ y \in Nat /\ z \in Nat
    BY <1>6, <1>8
  <2> HIDE DEF x, y, z, e
  <2> QED BY <2>1, <2>3, <2>4 DEF Extents
<1> HIDE DEF e
<1>10. /\ extents' \in Seq(Extents) /\ Len(extents') = k
       /\ \A j \in 1 .. k : extents'[j] = ExtentOf(j)
       /\ DOMAIN extents' = 1 .. k
  <2>1. \A j \in 1 .. m : extents[j] = ExtentOf(j)
    BY <1>2 DEF FillInv
  <2> QED BY <1>1, <1>2, <1>3, <1>9, <2>1
<1>11. \A j : ExtentOf(j)' = ExtentOf(j)
  BY <1>7 DEF ExtentOf, Sum, SumLen
<1>12. FillInv'
  <2>1. Len(extents') \in 0 .. Len(regions)'
    BY <1>1, <1>3, <1>5, <1>10
  <2>2. \A j \in DOMAIN extents' : extents'[j] = ExtentOf(j)'
    BY <1>10, <1>11
  <2>3. alloc'.list.iter = Node(Len(extents) + 1)'
    <3>1. Node(Len(extents) + 1)' = Node(k + 1)
      <4>1. Len(extents') + 1 = k + 1
        BY <1>10
      <4> QED BY <1>7, <4>1
    <3> QED BY <1>7, <3>1
  <2>4. left' = (IF backing' = "none" THEN 0 ELSE len') /\ Len(pieces)' = inode'.depth
    BY <1>1, <1>2 DEF FillInv
  <2> QED BY <2>1, <2>2, <2>3, <2>4 DEF FillInv
<1>13. Requested'
  BY <1>1, <1>2 DEF Requested
<1> QED BY <1>1, <1>2, <1>7, <1>10, <1>12, <1>13 DEF ExtentInv, ExtentSteps

\* Nothing is said of a file whose extents overrun the leaf.
LEMMA OverrunInv ==
    ASSUME overrun_leaf
    PROVE  ExtentInv'
<1>1. pc' = "overrun"
  BY DEF overrun_leaf
<1> QED BY <1>1 DEF ExtentInv, ExtentSteps

LEMMA FinishInodeInv ==
    ASSUME ExtentInv, finish_inode
    PROVE  ExtentInv'
<1> DEFINE n == Len(regions)
<1>1. /\ pc = "fill" /\ pc' = "backing" /\ last_region(alloc)
      /\ inode' = [inode EXCEPT !.i_blocks = ((block_len + inode.depth) * BlockSize) \div SectorSize]
      /\ alloc' = rewind_alloc(alloc)
      /\ regions' = regions /\ len' = len /\ backing' = backing /\ leaf' = leaf
      /\ extents' = extents /\ pieces' = pieces /\ left' = left
  BY DEF finish_inode
<1>2. /\ Requested /\ ListsInv /\ FillInv /\ extents \in Seq(Extents) /\ pieces \in Seq(Pieces)
      /\ inode.depth = 1 => leaf.entries = Len(regions)
  BY <1>1 DEF ExtentInv, ExtentSteps
<1>3. inode.depth \in {0, 1} /\ n \in Nat /\ n > 0 /\ Len(extents) \in 0 .. n
  BY <1>2, LayoutFacts DEF Requested, ListsInv, FillInv
<1>4. Len(extents) = n
  <2>1. Node(Len(extents) + 1) = NULL
    BY <1>1, <1>2 DEF FillInv, last_region
  <2> QED BY <1>3, <2>1 DEF Node, NULL
<1>5. Node(1) \in Nat /\ alloc.list.first = Node(1)
  BY <1>2, <1>3 DEF Node, NULL, ListsInv
<1>6. /\ inode'.depth = inode.depth /\ inode'.header = inode.header /\ inode'.index = inode.index
      /\ inode' \in Inodes
      /\ inode'.i_blocks = ((block_len + inode.depth) * BlockSize) \div SectorSize
  <2> DEFINE x == ((block_len + inode.depth) * BlockSize) \div SectorSize
  <2>1. inode \in Inodes
    BY <1>2 DEF ListsInv
  <2>2. x \in Nat
    <3>1. block_len \in Nat /\ (block_len + inode.depth) * BlockSize \in Nat
      <4>1. block_len \in Nat
        BY <1>2, RequestFacts, LayoutFacts DEF Requested
      <4> QED BY <1>3, <4>1, SizeFacts
    <3> QED BY <3>1, SizeFacts
  <2> HIDE DEF x
  <2>3. inode' = [inode EXCEPT !.i_blocks = x]
    BY <1>1 DEF x
  <2>4. /\ inode'.depth = inode.depth /\ inode'.header = inode.header
        /\ inode'.index = inode.index /\ inode'.i_blocks = x /\ inode' \in Inodes
    BY <2>1, <2>2, <2>3 DEF Inodes
  <2> QED BY <2>4 DEF x
<1>7. /\ ListsInv' /\ alloc'.list.iter = Node(1)
      /\ Kept' = Kept /\ \A j : Node(j)' = Node(j)
  <2> DEFINE i == Node(1)
  <2>1. i \in Nat /\ alloc' = WithIter(alloc, i, 0)
    BY <1>1, <1>5 DEF rewind_alloc, WithIter
  <2> HIDE DEF i
  <2>2. ListsInv' /\ alloc'.list.iter = i /\ Kept' = Kept /\ \A j : Node(j)' = Node(j)
    BY <1>1, <1>2, <1>6, <2>1, ListsKept
  <2> QED BY <2>2 DEF i
<1>8. Queued' = 0 /\ Queued' + 1 = 1
  <2>1. Len(pieces) = inode.depth
    BY <1>2 DEF FillInv
  <2> QED BY <1>1, <1>3, <1>6, <2>1 DEF Queued
<1>9. BackingInv'
  <2>1. \A j : ExtentOf(j)' = ExtentOf(j)
    BY <1>7 DEF ExtentOf, Sum, SumLen
  <2>2. /\ Len(extents)' = Len(regions)'
        /\ \A j \in DOMAIN extents' : extents'[j] = ExtentOf(j)'
    BY <1>1, <1>2, <1>4, <2>1 DEF FillInv
  <2>3. alloc'.list.iter = Node(Queued + 1)'
    <3>1. Node(Queued + 1)' = Node(1)'
      BY <1>8
    <3> QED BY <1>7, <3>1
  <2>4. Queued' \in 0 .. Len(regions)' /\ 1 .. Queued' = {} /\ Queued' # Len(regions)'
    BY <1>1, <1>3, <1>8
  <2>5. IF backing' = "none" THEN left' = 0 /\ Queued' = 0
        ELSE left' = IF Queued' = Len(regions)' THEN 0 ELSE len' - Offset(Queued + 1)'
    <3>1. Offset(1) = 0 /\ len \in Nat
      BY <1>2, <1>3, OffsetFacts, RequestFacts
    <3>2. Offset(Queued + 1)' = 0
      <4>1. Offset(Queued + 1)' = Offset(1)'
        BY <1>8
      <4>2. Offset(1)' = Offset(1)
        BY <1>7 DEF Offset, Sum, SumLen
      <4> QED BY <3>1, <4>1, <4>2
    <3> QED BY <1>1, <1>2, <1>8, <2>4, <3>1, <3>2 DEF FillInv
  <2>6. inode'.i_blocks = ((block_len' + inode'.depth) * BlockSize) \div SectorSize
    BY <1>1, <1>6 DEF block_len
  <2> QED BY <2>2, <2>3, <2>4, <2>5, <2>6 DEF BackingInv
<1>10. Requested'
  BY <1>1, <1>2 DEF Requested
<1> QED BY <1>1, <1>2, <1>6, <1>7, <1>9, <1>10 DEF ExtentInv, ExtentSteps

LEMMA FreeAllocInv ==
    ASSUME ExtentInv, free_alloc
    PROVE  ExtentInv'
<1>1. /\ pc = "backing" /\ left = 0 /\ pc' = "done"
      /\ UNCHANGED <<alloc, regions, len, backing, inode, leaf, extents, pieces, left>>
  BY DEF free_alloc
<1>2. /\ Requested /\ ListsInv /\ BackingInv /\ extents \in Seq(Extents) /\ pieces \in Seq(Pieces)
      /\ inode.depth = 1 => leaf.entries = Len(regions)
  BY <1>1 DEF ExtentInv, ExtentSteps
<1>3. Requested' /\ extents' \in Seq(Extents) /\ pieces' \in Seq(Pieces)
  BY <1>1, <1>2 DEF Requested
<1>4. Kept' = Kept /\ \A j : Node(j)' = Node(j)
  BY <1>1 DEF Kept, Node
<1>5. ListsInv'
  BY <1>1, <1>2, <1>4 DEF ListsInv
<1>6. BackingInv'
  <2>1. \A j : ExtentOf(j)' = ExtentOf(j) /\ Offset(j)' = Offset(j)
    BY <1>4 DEF ExtentOf, Offset, Sum, SumLen
  <2>2. \A j : PieceOf(j)' = PieceOf(j)
    BY <1>1, <1>4, <2>1 DEF PieceOf
  <2>3. Queued' = Queued /\ Node(Queued + 1)' = Node(Queued + 1)
        /\ Offset(Queued + 1)' = Offset(Queued + 1) /\ block_len' = block_len
    <3>1. Queued' = Queued /\ block_len' = block_len
      BY <1>1 DEF Queued, block_len
    <3> QED BY <1>4, <2>1, <3>1
  <2>4. \A j \in 1 .. Queued : pieces'[inode'.depth + j] = PieceOf(j)'
    BY <1>1, <1>2, <2>2 DEF BackingInv
  <2>5. \A j \in DOMAIN extents' : extents'[j] = ExtentOf(j)'
    BY <1>1, <1>2, <2>1 DEF BackingInv
  <2> QED BY <1>1, <1>2, <2>3, <2>4, <2>5 DEF BackingInv
<1> QED BY <1>1, <1>2, <1>3, <1>5, <1>6 DEF ExtentInv, ExtentSteps

LEMMA CreateBackingInv ==
    ASSUME ExtentInv, create_backing
    PROVE  ExtentInv'
<1> DEFINE n == Len(regions)
           d == inode.depth
           k == Queued + 1
           r == get_region(alloc)
           bytes == AtMost(r.len * BlockSize, left)
           e == [block |-> r.block, size |-> bytes, of |-> backing, at |-> len - left]
<1>1. /\ pc = "backing" /\ pc' = "backing" /\ left > 0
      /\ pieces' = Append(pieces, e) /\ left' = left - bytes /\ alloc' = get_next_region(alloc)
      /\ regions' = regions /\ len' = len /\ backing' = backing /\ inode' = inode
      /\ leaf' = leaf /\ extents' = extents
  BY DEF create_backing
<1>2. /\ Requested /\ ListsInv /\ BackingInv /\ extents \in Seq(Extents) /\ pieces \in Seq(Pieces)
      /\ inode.depth = 1 => leaf.entries = Len(regions)
  BY <1>1 DEF ExtentInv, ExtentSteps
<1>3. /\ d \in {0, 1} /\ n \in Nat /\ n > 0 /\ Queued \in 0 .. n /\ Queued < n
      /\ backing \in {"data", "file"} /\ left \in Nat
  BY <1>1, <1>2, BackingFacts DEF Requested
<1>4. Len(pieces) = d + Queued /\ left = len - Offset(k) /\ alloc.list.iter = Node(k)
      /\ k \in 1 .. n /\ k \in Nat
  <2>1. Len(pieces) \in Nat
    BY <1>2
  <2> QED BY <1>2, <1>3, <2>1 DEF BackingInv, Queued
<1>5. /\ Node(k + 1) \in Nat /\ r = [block |-> Kept[k].block, len |-> Kept[k].len]
      /\ alloc' = WithIter(alloc, Node(k + 1), 0)
      /\ Kept[k].len \in Nat /\ Kept[k].block \in Nat
  BY <1>1, <1>2, <1>4, NodeFacts
<1>6. /\ ListsInv' /\ alloc'.list.iter = Node(k + 1)
      /\ Kept' = Kept /\ \A j : Node(j)' = Node(j)
  <2> DEFINE i == Node(k + 1)
  <2>1. i \in Nat /\ alloc' = WithIter(alloc, i, 0)
    BY <1>5
  <2> HIDE DEF i
  <2>2. ListsInv' /\ alloc'.list.iter = i /\ Kept' = Kept /\ \A j : Node(j)' = Node(j)
    BY <1>1, <1>2, <2>1, ListsKept DEF ListsInv
  <2> QED BY <2>2 DEF i
<1>7. /\ Offset(k) \in Nat /\ Offset(k) < len /\ Kept[k].len * BlockSize \in Nat
      /\ Offset(k + 1) \in Nat /\ Offset(k + 1) = Offset(k) + Kept[k].len * BlockSize
      /\ k = n => len <= Offset(k) + Kept[k].len * BlockSize
      /\ k < n => Offset(k + 1) < len
      /\ len \in Nat
  <2>1. k \in 1 .. (n + 1) /\ k + 1 \in 1 .. (n + 1) /\ (k < n => k + 1 \in 1 .. n)
    BY <1>3, <1>4
  <2> QED BY <1>2, <1>3, <1>4, <2>1, OffsetFacts, RequestFacts
<1>8. /\ bytes = IF k = n THEN len - Offset(k) ELSE Kept[k].len * BlockSize
      /\ left - bytes = IF k = n THEN 0 ELSE len - Offset(k + 1)
      /\ bytes \in Int
  <2> DEFINE x == Kept[k].len * BlockSize
             y == Offset(k)
             z == Offset(k + 1)
  <2>1. r.len * BlockSize = x
    BY <1>5
  <2>2. x \in Nat /\ y \in Nat /\ z = y + x /\ len \in Nat /\ left = len - y
        /\ (k = n => len <= y + x) /\ (k < n => z < len) /\ y < len
    BY <1>4, <1>7
  <2>3. k = n \/ k < n
    BY <1>3, <1>4
  <2>4. k = n => ~(k < n)
    BY <1>3, <1>4
  <2> DEFINE u == r.len * BlockSize
             v == k
  <2> HIDE DEF x, y, z, u, v
  <2>5. bytes = IF x < left THEN x ELSE left
    BY <2>1 DEF AtMost
  <2>6. ASSUME k = n PROVE bytes = len - y /\ left - bytes = 0 /\ bytes \in Int
    <3>1. ~(x < left)
      BY <2>2, <2>6
    <3> HIDE DEF bytes
    <3> QED BY <2>2, <2>5, <3>1
  <2>7. ASSUME k # n PROVE bytes = x /\ left - bytes = len - z /\ bytes \in Int
    <3>1. x < left
      BY <2>2, <2>3, <2>7
    <3> HIDE DEF bytes
    <3> QED BY <2>2, <2>5, <3>1
  <2> HIDE DEF bytes
  <2> QED BY <2>6, <2>7 DEF x, y, z
<1> HIDE DEF bytes
<1>9. e = PieceOf(k) /\ e \in Pieces
  <2> DEFINE x == Offset(k)
             z == Kept[k].block
             s == IF k = n THEN len - Offset(k) ELSE Kept[k].len * BlockSize
  <2>1. len - left = x
    BY <1>4, <1>7
  <2>2. e = [block |-> z, size |-> bytes, of |-> backing, at |-> x]
    BY <1>5, <2>1
  <2>3. PieceOf(k) = [block |-> z, size |-> s, of |-> backing, at |-> x]
    BY DEF PieceOf
  <2>4. s = bytes
    BY <1>8
  <2>5. x \in Int /\ z \in Nat
    BY <1>5, <1>7
  <2> HIDE DEF x, z, s, e
  <2> QED BY <1>3, <1>8, <2>2, <2>3, <2>4, <2>5 DEF Pieces
<1> HIDE DEF e
<1>10. /\ pieces' \in Seq(Pieces) /\ Len(pieces') = d + k /\ Queued' = k
       /\ \A j \in 1 .. k : pieces'[d + j] = PieceOf(j)
  <2>1. \A j \in 1 .. Queued : pieces[d + j] = PieceOf(j)
    BY <1>2 DEF BackingInv
  <2>2. /\ pieces' \in Seq(Pieces) /\ Len(pieces') = Len(pieces) + 1
        /\ \A j \in 1 .. Len(pieces) : pieces'[j] = pieces[j]
        /\ pieces'[Len(pieces) + 1] = PieceOf(k)
    BY <1>1, <1>2, <1>9
  <2> DEFINE z == Len(pieces)
             x == d
             y == Queued
  <2>3. z \in Nat /\ x \in Nat /\ y \in Nat /\ z = x + y /\ z = Len(pieces) /\ k = y + 1
    <3>1. z \in Nat
      BY <1>2
    <3>2. x \in Nat
      BY <1>3
    <3>3. y \in Nat
      BY <1>3
    <3> QED BY <1>4, <3>1, <3>2, <3>3
  <2>4. Len(pieces') = z + 1
    BY <2>2
  <2> HIDE DEF z, x, y
  <2>5. Len(pieces') = x + k
    BY <2>3, <2>4
  <2>6. Queued' = k
    <3>1. Queued' = Len(pieces') - x
      BY <1>1 DEF Queued, x
    <3> QED BY <2>3, <2>5, <3>1
  <2>7. ASSUME NEW j \in 1 .. k PROVE pieces'[d + j] = PieceOf(j)
    <3>1. CASE j = k
      <4>1. d + j = Len(pieces) + 1
        BY <2>3, <3>1 DEF x, y, z
      <4> QED BY <2>2, <3>1, <4>1
    <3>2. CASE j # k
      <4>1. j \in 1 .. Queued /\ d + j \in 1 .. Len(pieces)
        BY <1>3, <1>4, <3>2
      <4> QED BY <2>1, <2>2, <4>1
    <3> QED BY <3>1, <3>2
  <2> QED BY <2>2, <2>5, <2>6, <2>7 DEF x
<1>11. BackingInv'
  <2>1. \A j : ExtentOf(j)' = ExtentOf(j) /\ Offset(j)' = Offset(j)
    BY <1>6 DEF ExtentOf, Offset, Sum, SumLen
  <2>2. \A j : PieceOf(j)' = PieceOf(j)
    BY <1>1, <1>6, <2>1 DEF PieceOf
  <2>3. /\ Len(extents') = Len(regions') /\ \A j \in DOMAIN extents' : extents'[j] = ExtentOf(j)'
    BY <1>1, <1>2, <2>1 DEF BackingInv
  <2>4. Queued' \in 0 .. Len(regions)'
    BY <1>1, <1>3, <1>4, <1>10
  <2>5. alloc'.list.iter = Node(Queued + 1)'
    <3>1. Node(Queued + 1)' = Node(k + 1)
      BY <1>6, <1>10
    <3> QED BY <1>6, <3>1
  <2>6. \A j \in 1 .. Queued' : pieces'[inode'.depth + j] = PieceOf(j)'
    BY <1>1, <1>10, <2>2
  <2>7. left' = IF Queued' = Len(regions') THEN 0 ELSE len' - Offset(Queued + 1)'
    <3>1. Offset(Queued + 1)' = Offset(k + 1)
      BY <1>10, <2>1
    <3> QED BY <1>1, <1>8, <1>10, <3>1
  <2>8. inode'.i_blocks = ((block_len' + inode'.depth) * BlockSize) \div SectorSize
    BY <1>1, <1>2 DEF block_len, BackingInv
  <2>9. backing' # "none"
    BY <1>1, <1>3
  <2> QED BY <2>3, <2>4, <2>5, <2>6, <2>7, <2>8, <2>9 DEF BackingInv
<1>12. Requested'
  BY <1>1, <1>2 DEF Requested
<1> QED BY <1>1, <1>2, <1>6, <1>10, <1>11, <1>12 DEF ExtentInv, ExtentSteps

LEMMA AllocateFailsInv ==
    ASSUME allocate_fails
    PROVE  ExtentInv'
<1>1. pc' = "failed"
  BY DEF allocate_fails
<1> QED BY <1>1 DEF ExtentInv, ExtentSteps

\* The operations of Indirect are not about extents.
LEMMA IndirectOnly ==
    ASSUME ExtentInv,
           \/ \E n \in FileBlocks, tail \in Tails : allocate_indirect(n, tail)
           \/ allocate_data_indirect \/ link_backing \/ link_done \/ reserve \/ reserve_block
           \/ reserve_done \/ attach_direct \/ attach_block \/ pass_again \/ finish_indirect
    PROVE  ExtentInv'
<1>1. pc' \in {"reserve", "link_backing", "ind_done", "reserving", "failed", "attach", "attaching"}
  BY Zenon DEF allocate_indirect, allocate_data_indirect, link_backing, link_done, reserve,
     reserve_block, reserve_done, attach_direct, attach_block, pass_again, finish_indirect
<1> QED BY <1>1 DEF ExtentInv, ExtentSteps

LEMMA IdleStep ==
    ASSUME ExtentInv, UNCHANGED allVars
    PROVE  ExtentInv'
<1>1. UNCHANGED <<alloc, regions, len, backing, inode, leaf, extents, pieces, left, pc>>
  BY DEF allVars, vars
<1>2. /\ Kept' = Kept /\ \A j : Node(j)' = Node(j)
      /\ Queued' = Queued /\ block_len' = block_len
  BY <1>1 DEF Kept, Node, Queued, block_len
<1>3. \A j : /\ ExtentOf(j)' = ExtentOf(j) /\ Offset(j)' = Offset(j)
             /\ PieceOf(j)' = PieceOf(j)
  BY <1>1, <1>2 DEF ExtentOf, Offset, PieceOf, Sum, SumLen
<1>4. Requested' = Requested /\ IdleInv' = IdleInv /\ HeaderInv' = HeaderInv
  BY <1>1 DEF Requested, IdleInv, HeaderInv
<1>5. ListsInv => ListsInv'
  BY <1>1, <1>2 DEF ListsInv
<1>6. FillInv => FillInv'
  <2> SUFFICES ASSUME FillInv PROVE FillInv'
    OBVIOUS
  <2>1. Node(Len(extents) + 1)' = Node(Len(extents) + 1)
    BY <1>1, <1>2
  <2> QED BY <1>1, <1>3, <2>1 DEF FillInv
<1>7. BackingInv => BackingInv'
  <2> SUFFICES ASSUME BackingInv PROVE BackingInv'
    OBVIOUS
  <2>1. Node(Queued + 1)' = Node(Queued + 1) /\ Offset(Queued + 1)' = Offset(Queued + 1)
    BY <1>2, <1>3
  <2> QED BY <1>1, <1>2, <1>3, <2>1 DEF BackingInv
<1> QED BY <1>1, <1>4, <1>5, <1>6, <1>7 DEF ExtentInv

LEMMA ExtentStep ==
    ASSUME ExtentInv, [IndirectNext]_allVars
    PROVE  ExtentInv'
<1>1. ASSUME Next PROVE ExtentInv'
  <2>1. ASSUME NEW layout \in Layouts, NEW tail \in Tails, NEW b \in {"data", "file", "none"},
               allocate(layout, tail, b)
        PROVE  ExtentInv'
    BY <2>1, AllocateInv
  <2> QED BY <1>1, <2>1, AllocateFailsInv, UseInodeInv, UseLeafInv, FillExtentInv, FinishInodeInv,
             CreateBackingInv, FreeAllocInv, OverrunInv DEF Next
<1>2. CASE UNCHANGED allVars
  BY <1>2, IdleStep
<1> QED BY <1>1, <1>2, IndirectOnly DEF IndirectNext

\* The extents of every inode are the blocks allocated for it, as the data is queued,
\* at every step of every run.
LEMMA ExtentsHold == IndirectSpec => []ExtentInv
<1>1. IndirectInit => ExtentInv
  BY StartInv
<1>2. ExtentInv /\ [IndirectNext]_allVars => ExtentInv'
  BY ExtentStep
<1> QED BY <1>1, <1>2, PTL DEF IndirectSpec

\* The data is queued on the blocks that the extents map its bytes to, in order and
\* without a gap, and the walk over the regions never ends before the bytes do
\* (extent.c:37-76), for files of any length whose extents fit the inode or a leaf.
THEOREM DataIsMapped == IndirectSpec => []DataFollowsMap
<1>1. ExtentInv => DataFollowsMap
  BY FollowedMap
<1> QED BY <1>1, ExtentsHold, PTL

-----------------------------------------------------------------------------
(* The blocks of a list                                                    *)

\* The regions that a list leads to.
RegionsOf(mem, w) == [k \in 1 .. Len(w) |-> mem[w[k]]]

LEMMA NodesFacts ==
    ASSUME NEW mem, Linked(mem), NEW w \in Seq(1 .. Len(mem))
    PROVE  LET t == RegionsOf(mem, w) IN
           /\ Len(w) \in Nat /\ Len(t) = Len(w) /\ DOMAIN t = 1 .. Len(w)
           /\ \A k \in 1 .. Len(w) : /\ w[k] \in 1 .. Len(mem) /\ t[k] = mem[w[k]]
                                     /\ t[k].len \in Nat /\ t[k].block \in Nat
           /\ Measured(t) /\ Placed(t)
<1> DEFINE t == RegionsOf(mem, w)
           m == Len(w)
<1>1. Len(mem) \in Nat /\ \A q \in 1 .. Len(mem) : /\ mem[q] \in Region
                                                   /\ mem[q].len \in Nat /\ mem[q].block \in Nat
  BY LinkedFacts
<1>2. m \in Nat /\ \A k \in 1 .. m : w[k] \in 1 .. Len(mem)
  OBVIOUS
<1> HIDE DEF m
<1>3. t = [k \in 1 .. m |-> mem[w[k]]]
  BY DEF RegionsOf, m
<1>4. t \in Seq(Region) /\ Len(t) = m /\ DOMAIN t = 1 .. m /\ \A k \in 1 .. m : t[k] = mem[w[k]]
  <2> HIDE DEF t
  <2>1. \A k \in 1 .. m : mem[w[k]] \in Region
    BY <1>1, <1>2
  <2> QED BY <1>2, <1>3, <2>1
<1> HIDE DEF t
<1>5. \A k \in 1 .. m : t[k].len \in Nat /\ t[k].block \in Nat
  BY <1>1, <1>2, <1>4
<1>6. Measured(t)
  BY <1>4, <1>5 DEF Measured
<1>7. Placed(t)
  BY <1>4, <1>5, <1>6 DEF Placed
<1> QED BY <1>2, <1>4, <1>5, <1>6, <1>7 DEF t, m

LEMMA RegionsOfPath ==
    ASSUME NEW mem, Linked(mem), NEW w, IsPath(mem, w)
    PROVE  LET t == RegionsOf(mem, w) IN
           /\ Len(w) \in Nat /\ Len(w) > 0 /\ Len(t) = Len(w) /\ DOMAIN t = 1 .. Len(w)
           /\ \A k \in 1 .. Len(w) : /\ w[k] \in 1 .. Len(mem) /\ t[k] = mem[w[k]]
                                     /\ t[k].len \in Nat /\ t[k].block \in Nat
           /\ Measured(t) /\ Placed(t)
<1>1. w \in Seq(1 .. Len(mem)) /\ Len(w) \in 1 .. Len(mem) /\ Len(mem) \in Nat
  BY LinkedFacts DEF IsPath
<1>2. Len(w) > 0
  BY <1>1
<1> QED BY <1>1, <1>2, NodesFacts

\* Every block has its region and its place there.
LEMMA SpotExists ==
    ASSUME NEW t, Measured(t), NEW i \in Nat, i < SumLen(t)
    PROVE  \E k \in 1 .. Len(t) : \E o \in Nat : o < t[k].len /\ i = Sum(t, k - 1) + o
<1> DEFINE m == Len(t)
           F(k) == Sum(t, k)
           Found(n) == \E k \in 1 .. m : \E o \in Nat : k <= n /\ o < t[k].len /\ i = F(k - 1) + o
           S == {n \in 0 .. m : i < F(n) => Found(n)}
<1>1. /\ F(0) = 0 /\ F(m) = SumLen(t) /\ \A n \in 0 .. m : F(n) \in Nat
      /\ \A n \in 1 .. m : F(n) = F(n - 1) + t[n].len
  BY SumFacts
<1>2. m \in Nat /\ \A k \in 1 .. m : t[k].len \in Nat
  BY DEF Measured
<1> HIDE DEF F, m
<1>3. 0 \in S
  BY <1>1, <1>2
<1>4. ASSUME NEW n \in 0 .. (m - 1), n \in S PROVE n + 1 \in S
  <2>1. /\ n \in Nat /\ n + 1 \in 1 .. m /\ (n + 1) - 1 = n /\ n \in 0 .. m /\ n + 1 \in 0 .. m
    BY <1>2
  <2>2. F(n) \in Nat /\ F(n + 1) = F(n) + t[n + 1].len /\ t[n + 1].len \in Nat
    BY <1>1, <1>2, <2>1
  <2>3. ASSUME i < F(n + 1) PROVE Found(n + 1)
    <3>1. CASE i < F(n)
      <4>1. Found(n)
        BY <1>4, <3>1
      <4>2. \A k \in 1 .. m : k <= n => k <= n + 1
        BY <2>1
      <4> QED BY <4>1, <4>2
    <3>2. CASE ~(i < F(n))
      <4> DEFINE o == i - F(n)
      <4>1. o \in Nat /\ o < t[n + 1].len /\ i = F(n) + o
        BY <2>2, <2>3, <3>2
      <4> HIDE DEF o
      <4>2. n + 1 <= n + 1
        BY <2>1
      <4> QED BY <2>1, <4>1, <4>2
    <3> QED BY <3>1, <3>2
  <2> QED BY <2>1, <2>3
<1> HIDE DEF S
<1>5. \A n \in 0 .. m : n \in S
  BY <1>2, <1>3, <1>4, BoundedInduction
<1>6. Found(m)
  BY <1>1, <1>2, <1>5 DEF S
<1> QED BY <1>6 DEF F, m

\* Skipping that many blocks leads there.
LEMMA SkipSpot ==
    ASSUME NEW a, Linked(a.mem), NEW w, IsPath(a.mem, w), NEW k \in 1 .. Len(w), NEW o \in Nat,
           o < a.mem[w[k]].len
    PROVE  SkipRegions(a, w[1], Sum(RegionsOf(a.mem, w), k - 1) + o) = [reg |-> w[k], left |-> o]
<1> DEFINE t == RegionsOf(a.mem, w)
           F(n) == Sum(t, n)
           m == Len(w)
           to == F(k - 1) + o
<1>1. /\ m \in Nat /\ m > 0 /\ Len(t) = m /\ Measured(t)
      /\ \A n \in 1 .. m : t[n] = a.mem[w[n]] /\ t[n].len \in Nat
  BY RegionsOfPath
<1>2. /\ F(0) = 0 /\ \A n \in 0 .. m : F(n) \in Nat
      /\ \A n \in 1 .. m : F(n) = F(n - 1) + t[n].len
  BY <1>1, SumFacts
<1>3. k \in Nat /\ k > 0 /\ k <= m /\ k - 1 \in 0 .. m /\ F(k - 1) \in Nat /\ to \in Nat
  <2>1. k \in Nat /\ k > 0 /\ k <= m /\ k - 1 \in 0 .. m
    BY <1>1
  <2>2. F(k - 1) \in Nat
    BY <1>2, <2>1
  <2> HIDE DEF F
  <2> QED BY <2>1, <2>2
<1>4. \A i \in 0 .. (k - 1) : F(i) <= to
  <2> SUFFICES ASSUME NEW i \in 0 .. (k - 1) PROVE F(i) <= to
    OBVIOUS
  <2>1. F(i) <= F(k - 1)
    BY <1>1, <1>3, SumGrows
  <2>2. F(i) \in Nat
    BY <1>2, <1>3
  <2> HIDE DEF F
  <2> QED BY <1>3, <2>1, <2>2
<1> DEFINE Body(s, n, l) == IF n > m THEN [reg |-> NULL, left |-> l]
                            ELSE IF l >= a.mem[w[n]].len THEN s[n + 1][l - a.mem[w[n]].len]
                            ELSE [reg |-> w[n], left |-> l]
<1>5. PICK s : SkipRegions(a, w[1], to) = s[1][to] /\ Skips(s, a.mem, w, to)
  <2> HIDE DEF to
  <2> QED BY <1>3, SkipValues
<1>6. \A n \in 1 .. (m + 1) : \A l \in 0 .. to : s[n][l] = Body(s, n, l)
  <2>1. \A n, l : Skipped(s, a.mem, w, n, l) = Body(s, n, l)
    BY DEF Skipped
  <2> HIDE DEF Body, to
  <2> QED BY <1>5, <2>1 DEF Skips
<1> DEFINE found == [reg |-> w[k], left |-> o]
           S == {j \in 0 .. (k - 1) : s[k - j][to - F(k - j - 1)] = found}
<1> HIDE DEF t, F, m
<1>7. 0 \in S
  <2>1. k - 0 = k /\ k - 0 - 1 = k - 1 /\ to - F(k - 1) = o /\ k \in 1 .. (m + 1) /\ ~(k > m)
        /\ o \in 0 .. to /\ ~(o >= a.mem[w[k]].len)
    <3>1. a.mem[w[k]].len \in Nat /\ o < a.mem[w[k]].len /\ o \in Nat
      BY <1>1, <1>3
    <3>2. to = F(k - 1) + o /\ F(k - 1) \in Nat
      BY <1>3 DEF F
    <3>3. k \in Nat /\ k > 0 /\ k <= m /\ m \in Nat
      BY <1>1, <1>3
    <3> HIDE DEF to
    <3>4. to - F(k - 1) = o /\ o \in 0 .. to
      BY ONLY <3>1, <3>2
    <3>5. ~(o >= a.mem[w[k]].len)
      BY ONLY <3>1
    <3>6. k - 0 = k /\ k - 0 - 1 = k - 1 /\ k \in 1 .. (m + 1) /\ ~(k > m)
      BY ONLY <3>3
    <3> QED BY <3>4, <3>5, <3>6
  <2>2. s[k][o] = found
    BY <1>6, <2>1
  <2>3. 0 \in 0 .. (k - 1)
    BY <1>3
  <2> QED BY <2>1, <2>2, <2>3
<1>8. ASSUME NEW j \in 0 .. (k - 1 - 1), j \in S PROVE j + 1 \in S
  <2> DEFINE i == k - (j + 1)
             l == to - F(i - 1)
             x == a.mem[w[i]].len
  <2>1. /\ i \in 1 .. m /\ i \in 1 .. (m + 1) /\ ~(i > m) /\ i - 1 \in 0 .. (k - 1)
        /\ i \in 0 .. (k - 1) /\ i + 1 = k - j /\ k - j - 1 = i /\ k - (j + 1) - 1 = i - 1
        /\ j + 1 \in 0 .. (k - 1) /\ i - 1 \in 0 .. m /\ i \in 0 .. m
    BY <1>1, <1>3
  <2>2. /\ F(i - 1) \in Nat /\ F(i) = F(i - 1) + x /\ x \in Nat /\ F(i) <= to /\ F(i - 1) <= to
        /\ F(i) \in Nat
    BY <1>1, <1>2, <1>4, <2>1
  <2>3. l \in 0 .. to /\ l >= x /\ l - x = to - F(i)
    <3> HIDE DEF x, i, to
    <3> QED BY <1>3, <2>2
  <2>4. s[i][l] = s[i + 1][l - x]
    <3> HIDE DEF l, i
    <3> QED BY <1>6, <2>1, <2>3
  <2>5. s[k - j][to - F(k - j - 1)] = found
    BY <1>8
  <2> HIDE DEF i
  <2>6. s[i][to - F(i - 1)] = found
    BY <2>1, <2>3, <2>4, <2>5
  <2> HIDE DEF found
  <2> QED BY <2>1, <2>6 DEF i
<1> HIDE DEF S
<1>9. \A j \in 0 .. (k - 1) : j \in S
  <2>1. k - 1 \in Nat
    BY <1>3
  <2> QED BY <1>7, <1>8, <2>1, BoundedInduction
<1>10. k - 1 \in 0 .. (k - 1) /\ k - (k - 1) = 1 /\ k - (k - 1) - 1 = 0
  BY <1>3
<1>11. s[1][to - F(0)] = found
  <2>1. k - 1 \in S
    BY <1>9, <1>10
  <2>2. s[k - (k - 1)][to - F(k - (k - 1) - 1)] = found
    BY <2>1 DEF S
  <2> HIDE DEF to, found
  <2> QED BY <1>10, <2>2
<1>12. to - F(0) = to
  <2> HIDE DEF to
  <2> QED BY <1>2, <1>3
<1> QED BY <1>11, <1>12, <1>5 DEF to, F, t

\* The function inside BlocksFrom, for the nodes of a list.
IsBlocks(b, mem, w) ==
    b = [k \in 0 .. Len(w) |->
           IF k = 0 THEN <<>>
           ELSE LET r == mem[w[k]] IN b[k - 1] \o [n \in 1 .. r.len |-> r.block + n - 1]]

\* The blocks of one region.
BlocksIn(r) == [n \in 1 .. r.len |-> r.block + n - 1]

LEMMA BlocksInFacts ==
    ASSUME NEW r, r.len \in Nat, r.block \in Nat
    PROVE  /\ BlocksIn(r) \in Seq(Nat) /\ Len(BlocksIn(r)) = r.len
           /\ DOMAIN BlocksIn(r) = 1 .. r.len
           /\ \A n \in 1 .. r.len : BlocksIn(r)[n] = r.block + n - 1
<1> DEFINE l == r.len
           e == r.block
           s == [n \in 1 .. l |-> e + n - 1]
<1>1. l \in Nat /\ e \in Nat
  OBVIOUS
<1> HIDE DEF l, e
<1>2. \A n \in 1 .. l : e + n - 1 \in Nat
  BY <1>1
<1>3. s \in Seq(Nat) /\ Len(s) = l /\ DOMAIN s = 1 .. l /\ \A n \in 1 .. l : s[n] = e + n - 1
  BY <1>1, <1>2
<1> HIDE DEF s
<1>4. BlocksIn(r) = s
  BY DEF BlocksIn, s, l, e
<1> QED BY <1>3, <1>4 DEF l, e

LEMMA BlocksExist ==
    ASSUME NEW mem, Linked(mem), NEW w, IsPath(mem, w)
    PROVE  \E b : IsBlocks(b, mem, w)
<1> DEFINE m == Len(w)
           step == [kv \in (1 .. m) \X Seq(Nat) |-> kv[2] \o BlocksIn(mem[w[kv[1]]])]
<1>1. m \in Nat /\ \A k \in 1 .. m : BlocksIn(mem[w[k]]) \in Seq(Nat)
  <2>1. m \in Nat
    BY RegionsOfPath
  <2>2. ASSUME NEW k \in 1 .. m PROVE BlocksIn(mem[w[k]]) \in Seq(Nat)
    <3>1. mem[w[k]].len \in Nat /\ mem[w[k]].block \in Nat
      BY RegionsOfPath
    <3> QED BY <3>1, BlocksInFacts
  <2> QED BY <2>1, <2>2
<1> HIDE DEF m
<1>2. \A k \in 1 .. m : \A v \in Seq(Nat) : step[<<k, v>>] = v \o BlocksIn(mem[w[k]])
  OBVIOUS
<1> HIDE DEF step
<1>3. IsStep(step, m, Seq(Nat))
  <2> SUFFICES ASSUME NEW k \in 1 .. m, NEW v \in Seq(Nat) PROVE step[<<k, v>>] \in Seq(Nat)
    BY DEF IsStep
  <2>1. BlocksIn(mem[w[k]]) \in Seq(Nat) /\ step[<<k, v>>] = v \o BlocksIn(mem[w[k]])
    BY <1>1, <1>2
  <2> QED BY <2>1
<1>4. PICK b \in [0 .. m -> Seq(Nat)] : BuiltBy(b, m, <<>>, step)
  <2>1. <<>> \in Seq(Nat)
    OBVIOUS
  <2> QED BY <1>1, <1>3, <2>1, Recursion
<1> DEFINE Body(k) == IF k = 0 THEN <<>> ELSE b[k - 1] \o BlocksIn(mem[w[k]])
           g == [k \in 0 .. m |-> Body(k)]
<1>5. ASSUME NEW k \in 0 .. m
      PROVE  b[k] = Body(k)
  <2>1. CASE k = 0
    BY <1>4, <2>1 DEF BuiltBy
  <2>2. CASE k # 0
    <3>1. k \in 1 .. m /\ k - 1 \in 0 .. m
      BY <1>1, <2>2
    <3>2. b[k] = step[<<k, b[k - 1]>>] /\ b[k - 1] \in Seq(Nat)
      BY <1>4, <3>1 DEF BuiltBy
    <3> QED BY <1>2, <2>2, <3>1, <3>2
  <2> QED BY <2>1, <2>2
<1>6. b = g
  <2> HIDE DEF Body
  <2> QED BY <1>4, <1>5
<1> QED BY <1>6, Zenon DEF IsBlocks, m, BlocksIn

\* The blocks come in the order of the regions.
LEMMA BlocksOfPath ==
    ASSUME NEW a, Linked(a.mem), NEW w, IsPath(a.mem, w)
    PROVE  LET d == BlocksFrom(a, w[1])
               t == RegionsOf(a.mem, w)
           IN  /\ d \in Seq(Nat) /\ Len(d) = SumLen(t) /\ SetOf(d) = Blocks(t)
               /\ \A k \in 1 .. Len(w) : \A o \in Nat :
                     o < t[k].len => d[Sum(t, k - 1) + o + 1] = t[k].block + o
<1> DEFINE mem == a.mem
           m == Len(w)
           t == RegionsOf(mem, w)
           F(k) == Sum(t, k)
           d == BlocksFrom(a, w[1])
           b == CHOOSE f : IsBlocks(f, mem, w)
<1>1. /\ m \in Nat /\ m > 0 /\ Len(t) = m /\ Measured(t)
      /\ \A k \in 1 .. m : t[k] = mem[w[k]] /\ t[k].len \in Nat /\ t[k].block \in Nat
  BY RegionsOfPath
<1>2. /\ F(0) = 0 /\ F(m) = SumLen(t) /\ \A k \in 0 .. m : F(k) \in Nat
      /\ \A k \in 1 .. m : F(k) = F(k - 1) + t[k].len
  BY <1>1, SumFacts
<1>3. IsBlocks(b, mem, w)
  BY BlocksExist
<1>4. d = b[m]
  <2> DEFINE chain == Chain(mem, w[1])
             f == CHOOSE g : IsBlocks(g, mem, chain)
  <2>1. d = f[Len(chain)]
    BY Zenon DEF BlocksFrom, IsBlocks
  <2> HIDE DEF chain
  <2>2. chain = w
    BY PathChain DEF chain
  <2> QED BY <2>1, <2>2
<1> HIDE DEF b
<1> DEFINE Body(k) == IF k = 0 THEN <<>> ELSE b[k - 1] \o BlocksIn(mem[w[k]])
<1>5. b = [k \in 0 .. m |-> Body(k)]
  BY Zenon, <1>3 DEF IsBlocks, BlocksIn
<1>6. \A k \in 0 .. m : b[k] = Body(k)
  <2> HIDE DEF Body, m
  <2> QED BY <1>5
<1> HIDE DEF t, m, F
<1>7. b[0] = <<>> /\ \A k \in 1 .. m : b[k] = b[k - 1] \o BlocksIn(t[k])
  <2>1. 0 \in 0 .. m /\ \A k \in 1 .. m : k \in 0 .. m /\ k # 0
    BY <1>1
  <2> QED BY <1>1, <1>6, <2>1
<1> DEFINE Right(k) == /\ b[k] \in Seq(Nat) /\ Len(b[k]) = F(k) /\ SetOf(b[k]) = UpTo(t, k)
                       /\ \A j \in 1 .. m : \A o \in Nat :
                             j <= k /\ o < t[j].len => b[k][F(j - 1) + o + 1] = t[j].block + o
           S == {k \in 0 .. m : Right(k)}
<1>8. 0 \in S
  <2>1. SetOf(b[0]) = {} /\ UpTo(t, 0) = {}
    BY <1>7 DEF SetOf, UpTo
  <2>2. \A j \in 1 .. m : ~(j <= 0)
    BY <1>1
  <2>3. b[0] \in Seq(Nat) /\ Len(b[0]) = F(0)
    BY <1>2, <1>7
  <2>4. 0 \in 0 .. m
    BY <1>1
  <2>5. Right(0)
    BY <2>1, <2>2, <2>3
  <2> HIDE DEF Right
  <2> QED BY <2>4, <2>5
<1>9. ASSUME NEW n \in 0 .. (m - 1), n \in S PROVE n + 1 \in S
  <2> DEFINE k == n + 1
             x == b[n]
             y == BlocksIn(t[k])
             l == t[k].len
             e == t[k].block
  <2>1. /\ n \in Nat /\ k \in 1 .. m /\ k - 1 = n /\ n \in 0 .. m /\ k \in 0 .. m
    BY <1>1
  <2>2. l \in Nat /\ e \in Nat /\ F(n) \in Nat /\ F(k) = F(n) + l
    BY <1>1, <1>2, <2>1
  <2>3. /\ y \in Seq(Nat) /\ Len(y) = l /\ DOMAIN y = 1 .. l
        /\ \A i \in 1 .. l : y[i] = e + i - 1
    BY <2>2, BlocksInFacts
  <2>4. /\ x \in Seq(Nat) /\ Len(x) = F(n) /\ SetOf(x) = UpTo(t, n)
        /\ \A j \in 1 .. m : \A o \in Nat :
              j <= n /\ o < t[j].len => x[F(j - 1) + o + 1] = t[j].block + o
    BY <1>9
  <2>5. b[k] = x \o y
    BY <1>7, <2>1
  <2> HIDE DEF k, x, y, l, e
  <2>6. /\ b[k] \in Seq(Nat) /\ Len(b[k]) = F(k)
        /\ \A i \in 1 .. F(n) : b[k][i] = x[i]
        /\ \A i \in 1 .. l : b[k][F(n) + i] = y[i]
    <3>1. /\ x \o y \in Seq(Nat) /\ Len(x \o y) = Len(x) + Len(y)
          /\ \A i \in 1 .. Len(x) : (x \o y)[i] = x[i]
      <4>1. /\ x \o y \in Seq(Nat) /\ Len(x \o y) = Len(x) + Len(y)
            /\ \A i \in 1 .. (Len(x) + Len(y)) :
                  (x \o y)[i] = IF i <= Len(x) THEN x[i] ELSE y[i - Len(x)]
        BY <2>3, <2>4, ConcatProperties
      <4>2. \A i \in 1 .. Len(x) : i \in 1 .. (Len(x) + Len(y)) /\ i <= Len(x)
        BY <2>2, <2>3, <2>4
      <4> QED BY <4>1, <4>2
    <3>2. ASSUME NEW i \in 1 .. l PROVE (x \o y)[F(n) + i] = y[i]
      <4> DEFINE j == F(n) + i
      <4>1. j \in 1 .. (Len(x) + Len(y)) /\ ~(j <= Len(x)) /\ j - Len(x) = i
        BY <2>2, <2>3, <2>4
      <4> HIDE DEF j
      <4>2. (x \o y)[j] = IF j <= Len(x) THEN x[j] ELSE y[j - Len(x)]
        BY <2>3, <2>4, <4>1, ConcatProperties
      <4>3. (x \o y)[j] = y[i]
        BY <4>1, <4>2
      <4> QED BY <4>3 DEF j
    <3>3. Len(x) + Len(y) = F(k)
      BY <2>2, <2>3, <2>4
    <3> QED BY <2>4, <2>5, <3>1, <3>2, <3>3
  <2>7. SetOf(b[k]) = UpTo(t, k)
    <3>1. DOMAIN b[k] = 1 .. F(k) /\ DOMAIN x = 1 .. F(n)
      BY <2>4, <2>6
    <3>2. \A i \in 1 .. F(k) : i \in 1 .. F(n) \/ \E j \in 1 .. l : i = F(n) + j
      <4> SUFFICES ASSUME NEW i \in 1 .. F(k), i \notin 1 .. F(n)
                   PROVE  \E j \in 1 .. l : i = F(n) + j
        OBVIOUS
      <4>1. i - F(n) \in 1 .. l /\ i = F(n) + (i - F(n))
        BY <2>2
      <4> QED BY <4>1
    <3>3. \A i \in 1 .. F(n) : i \in 1 .. F(k)
      BY <2>2
    <3>4. \A i \in 1 .. l : F(n) + i \in 1 .. F(k)
      BY <2>2
    <3>5. SetOf(b[k]) = SetOf(x) \cup SetOf(y)
      <4>1. ASSUME NEW i \in 1 .. F(k) PROVE b[k][i] \in SetOf(x) \cup SetOf(y)
        <5>1. CASE i \in 1 .. F(n)
          BY <2>6, <3>1, <5>1 DEF SetOf
        <5>2. ASSUME NEW j \in 1 .. l, i = F(n) + j PROVE b[k][i] \in SetOf(x) \cup SetOf(y)
          <6>1. b[k][i] = y[j]
            BY <2>6, <5>2
          <6> QED BY <2>3, <6>1 DEF SetOf
        <5> QED BY <3>2, <5>1, <5>2
      <4>2. ASSUME NEW i \in 1 .. F(n) PROVE x[i] \in SetOf(b[k])
        <5>1. x[i] = b[k][i] /\ i \in DOMAIN b[k]
          BY <2>6, <3>1, <3>3
        <5> QED BY <5>1 DEF SetOf
      <4>3. ASSUME NEW i \in 1 .. l PROVE y[i] \in SetOf(b[k])
        <5>1. y[i] = b[k][F(n) + i] /\ F(n) + i \in DOMAIN b[k]
          BY <2>6, <3>1, <3>4
        <5> QED BY <5>1 DEF SetOf
      <4>4. SetOf(b[k]) = {b[k][i] : i \in 1 .. F(k)} /\ SetOf(x) = {x[i] : i \in 1 .. F(n)}
            /\ SetOf(y) = {y[i] : i \in 1 .. l}
        BY <2>3, <3>1 DEF SetOf
      <4>5. SetOf(b[k]) \subseteq SetOf(x) \cup SetOf(y)
        BY <4>1, <4>4
      <4>6. SetOf(x) \subseteq SetOf(b[k]) /\ SetOf(y) \subseteq SetOf(b[k])
        BY <4>2, <4>3, <4>4
      <4> QED BY <4>5, <4>6
    <3>6. SetOf(y) = Span(t[k])
      <4>1. SetOf(y) = {e + i - 1 : i \in 1 .. l}
        BY <2>3 DEF SetOf
      <4>2. Span(t[k]) = e .. (e + l - 1)
        BY DEF Span, e, l
      <4>3. ASSUME NEW z \in e .. (e + l - 1) PROVE \E i \in 1 .. l : z = e + i - 1
        <5>1. z - e + 1 \in 1 .. l /\ z = e + (z - e + 1) - 1
          BY <2>2
        <5> QED BY <5>1
      <4>4. \A i \in 1 .. l : e + i - 1 \in e .. (e + l - 1)
        BY <2>2
      <4> QED BY <4>1, <4>2, <4>3, <4>4
    <3>7. UpTo(t, k) = UpTo(t, n) \cup Span(t[k])
      <4>1. 1 .. k = (1 .. n) \cup {k}
        BY <2>1 DEF k
      <4> QED BY <4>1 DEF UpTo
    <3> QED BY <2>4, <3>5, <3>6, <3>7
  <2>8. ASSUME NEW j \in 1 .. m, NEW o \in Nat, j <= k, o < t[j].len
        PROVE  b[k][F(j - 1) + o + 1] = t[j].block + o
    <3>1. CASE j = k
      <4>1. o + 1 \in 1 .. l /\ F(j - 1) + o + 1 = F(n) + (o + 1) /\ e + (o + 1) - 1 = e + o
        BY <2>1, <2>2, <2>8, <3>1 DEF l
      <4>2. b[k][F(n) + (o + 1)] = e + o
        BY <2>3, <2>6, <4>1
      <4> QED BY <3>1, <4>1, <4>2 DEF e
    <3>2. CASE j # k
      <4>1. j <= n /\ j \in 0 .. n /\ j \in Nat /\ j - 1 \in 0 .. m /\ j \in 0 .. m
        BY <1>1, <2>1, <2>8, <3>2 DEF k
      <4>2. F(j) <= F(n)
        <5>1. n \in 0 .. Len(t)
          BY <1>1, <2>1
        <5> QED BY <1>1, <4>1, <5>1, SumGrows DEF F
      <4>3. F(j - 1) \in Nat /\ F(j) = F(j - 1) + t[j].len /\ t[j].len \in Nat /\ F(j) \in Nat
        BY <1>1, <1>2, <4>1
      <4>4. F(j - 1) + o + 1 \in 1 .. F(n)
        BY <2>2, <2>8, <4>2, <4>3
      <4>5. x[F(j - 1) + o + 1] = t[j].block + o
        BY <2>4, <2>8, <4>1
      <4> QED BY <2>6, <4>4, <4>5
    <3> QED BY <3>1, <3>2
  <2>9. Right(k)
    BY <2>6, <2>7, <2>8
  <2> QED BY <2>1, <2>9 DEF k
<1> HIDE DEF S
<1>10. \A k \in 0 .. m : k \in S
  BY <1>1, <1>8, <1>9, BoundedInduction
<1>11. Right(m)
  <2>1. m \in 0 .. m
    BY <1>1
  <2> QED BY <1>10, <2>1 DEF S
<1>12. Blocks(t) = UpTo(t, m)
  BY <1>1, BlocksUpTo
<1>13. \A j \in 1 .. m : j <= m
  BY <1>1
<1> HIDE DEF d
<1>14. /\ d \in Seq(Nat) /\ Len(d) = SumLen(t) /\ SetOf(d) = Blocks(t)
       /\ \A k \in 1 .. m : \A o \in Nat : o < t[k].len => d[F(k - 1) + o + 1] = t[k].block + o
  BY <1>2, <1>4, <1>11, <1>12, <1>13
<1> QED BY <1>14 DEF d, t, F, m

-----------------------------------------------------------------------------
(* Pointer blocks: what Indirect asks for                                  *)

Calls == [level : 0 .. 3, n : Nat, parent : Nat]
Reserves == {c \in Calls : c.level > 0}

LEMMA PointerFacts ==
    /\ EXT4_NDIR_BLOCKS \in Nat /\ EXT4_NDIR_BLOCKS > 0
    /\ blocks_per_ind \in Nat \ {0} /\ blocks_per_dind \in Nat \ {0}
    /\ blocks_per_tind \in Nat \ {0}
    /\ \A l \in 1 .. 3 : Per[l] \in Nat \ {0}
    /\ FirstBlock \in Nat
    /\ \A c \in Cuts : c \in Nat /\ c > 0
    /\ \A n \in FileBlocks : n \in Nat /\ n > 0
<1>1. /\ EXT4_NDIR_BLOCKS \in Nat \ {0} /\ blocks_per_ind \in Nat \ {0} /\ FirstBlock \in Nat
      /\ Cuts \subseteq Nat \ {0} /\ FileBlocks \subseteq 1 .. LargestFile
  BY PointerSizes
<1>2. \A a, b \in Nat \ {0} : a * b \in Nat \ {0}
  OBVIOUS
<1>3. blocks_per_dind \in Nat \ {0} /\ blocks_per_tind \in Nat \ {0}
  BY <1>1, <1>2 DEF blocks_per_dind, blocks_per_tind
<1>4. Per[1] = blocks_per_ind /\ Per[2] = blocks_per_dind /\ Per[3] = blocks_per_tind
  BY DEF Per
<1>5. \A l \in 1 .. 3 : l = 1 \/ l = 2 \/ l = 3
  OBVIOUS
<1>6. \A n \in FileBlocks : n \in Nat /\ n > 0
  BY <1>1
<1> QED BY <1>1, <1>3, <1>4, <1>5, <1>6

LEMMA CeilFacts ==
    ASSUME NEW n \in Nat, NEW d \in Nat \ {0}
    PROVE  /\ Ceil(n, d) \in Nat
           /\ \A k \in 1 .. Ceil(n, d) : (k - 1) * d \in Nat /\ (k - 1) * d < n
<1> DEFINE c == Ceil(n, d)
           x == n + d - 1
           r == x % d
<1>1. x \in Nat
  OBVIOUS
<1>2. c = x \div d
  BY DEF Ceil
<1>3. c \in Int /\ r \in 0 .. (d - 1) /\ x = c * d + r
  BY <1>1, <1>2, QuotientAndRest
<1> HIDE DEF c, r
<1>4. \A i, j \in Int : i < j => i * d + d <= j * d
  BY Multiples
<1>5. c \in Nat
  <2> DEFINE y == c * d
  <2>1. y \in Int
    BY <1>3
  <2>2. c < 0 => y + d <= 0 * d
    BY <1>3, <1>4
  <2>3. 0 * d = 0
    OBVIOUS
  <2> HIDE DEF y, x
  <2>4. x = y + r
    BY <1>3 DEF y
  <2> QED BY <1>1, <1>3, <2>1, <2>2, <2>3, <2>4
<1>6. ASSUME NEW k \in 1 .. c PROVE (k - 1) * d \in Nat /\ (k - 1) * d < n
  <2> DEFINE y == c * d
             z == (k - 1) * d
  <2>1. k - 1 \in Nat /\ k - 1 \in Int /\ k - 1 < c
    BY <1>5
  <2>2. z \in Nat /\ y \in Int
    BY <1>3, <2>1
  <2>3. z + d <= y
    BY <1>3, <1>4, <2>1
  <2> HIDE DEF y, z
  <2>4. x = y + r
    BY <1>3 DEF y
  <2>5. z + d <= n + d - 1
    BY <1>3, <2>2, <2>3, <2>4
  <2>6. z < n
    BY <2>2, <2>5
  <2> QED BY <2>2, <2>6 DEF z
<1> QED BY <1>5, <1>6 DEF c

LEMMA NeededFacts ==
    ASSUME NEW n \in Nat
    PROVE  /\ indirect_blocks_needed(n) \in Nat
           /\ n <= EXT4_NDIR_BLOCKS => indirect_blocks_needed(n) = 0
<1> DEFINE rest == n - EXT4_NDIR_BLOCKS
           p == blocks_per_ind
           q == blocks_per_dind
           r == blocks_per_tind
<1>1. rest \in Int /\ p \in Nat \ {0} /\ q \in Nat \ {0} /\ r \in Nat \ {0}
      /\ EXT4_NDIR_BLOCKS \in Nat
  BY PointerFacts
<1>2. indirect_blocks_needed(n) =
        IF rest <= 0 THEN 0
        ELSE Ceil(rest, p) + (IF rest <= p THEN 0 ELSE Ceil(rest - p, q))
             + (IF rest <= p + q THEN 0 ELSE Ceil(rest - p - q, r))
  BY DEF indirect_blocks_needed
<1>3. n <= EXT4_NDIR_BLOCKS => rest <= 0
  BY <1>1
<1> HIDE DEF rest, p, q, r
<1>4. CASE rest <= 0
  BY <1>2, <1>4
<1>5. CASE ~(rest <= 0)
  <2>1. rest \in Nat /\ (rest <= p \/ rest - p \in Nat) /\ (rest <= p + q \/ rest - p - q \in Nat)
    BY <1>1, <1>5
  <2>2. Ceil(rest, p) \in Nat /\ (rest <= p \/ Ceil(rest - p, q) \in Nat)
        /\ (rest <= p + q \/ Ceil(rest - p - q, r) \in Nat)
    BY <1>1, <2>1, CeilFacts
  <2> QED BY <1>2, <1>3, <1>5, <2>2
<1> QED BY <1>4, <1>5

LEMMA CallFacts ==
    /\ \A l \in 0 .. 3 : \A n \in Nat : \A p \in Nat :
          /\ Call(l, n, p) \in Calls /\ Call(l, n, p).level = l
          /\ l > 0 => Call(l, n, p) \in Reserves
    /\ \A c \in Calls : c.level \in 0 .. 3 /\ c.n \in Nat /\ c.parent \in Nat
    /\ Reserves \subseteq Calls
BY DEF Call, Calls, Reserves

LEMMA PartsFacts ==
    ASSUME NEW level \in 1 .. 3, NEW n \in Nat, NEW parent \in Nat
    PROVE  Parts(level, n, parent) \in Seq(Reserves)
<1> DEFINE d == Per[level]
           E(k) == Call(level, AtMost(d, n - (k - 1) * d), parent)
           m == Ceil(n, d)
<1>1. d \in Nat \ {0}
  BY PointerFacts
<1> HIDE DEF d
<1>2. m \in Nat /\ \A k \in 1 .. m : (k - 1) * d \in Nat /\ (k - 1) * d < n
  BY <1>1, CeilFacts
<1> HIDE DEF m
<1>3. ASSUME NEW k \in 1 .. m PROVE E(k) \in Reserves
  <2> DEFINE x == (k - 1) * d
  <2>1. x \in Nat /\ x < n
    BY <1>2
  <2> HIDE DEF x
  <2>2. AtMost(d, n - x) \in Nat
    BY <1>1, <2>1 DEF AtMost
  <2>3. Call(level, AtMost(d, n - x), parent) \in Reserves
    BY <2>2, CallFacts
  <2> QED BY <2>3 DEF x
<1> HIDE DEF E
<1>4. [k \in 1 .. m |-> E(k)] \in Seq(Reserves)
  BY <1>2, <1>3
<1> QED BY <1>4 DEF Parts, E, m, d

\* A file that fits the inode's own pointers needs no pointer block.
LEMMA TopsFacts ==
    ASSUME NEW n \in Nat
    PROVE  /\ Tops(n) \in Seq(Reserves)
           /\ n <= EXT4_NDIR_BLOCKS => Tops(n) = <<>>
<1> DEFINE rest == n - EXT4_NDIR_BLOCKS
           Top(level, more) == IF more > 0 THEN <<Call(level, AtMost(Per[level], more), 0)>>
                               ELSE <<>>
           r2 == rest - Per[1]
           r3 == rest - Per[1] - Per[2]
           t1 == Top(1, rest)
           t2 == Top(2, r2)
           t3 == Top(3, r3)
<1>1. /\ EXT4_NDIR_BLOCKS \in Nat /\ 1 \in 1 .. 3 /\ 2 \in 1 .. 3 /\ 3 \in 1 .. 3
      /\ \A l \in 1 .. 3 : Per[l] \in Nat
  BY PointerFacts
<1>2. ASSUME NEW l \in 1 .. 3, NEW more \in Int
      PROVE  Top(l, more) \in Seq(Reserves) /\ (more <= 0 => Top(l, more) = <<>>)
  <2>1. CASE more > 0
    <3> DEFINE c == Call(l, AtMost(Per[l], more), 0)
    <3>1. AtMost(Per[l], more) \in Nat
      BY <1>1, <2>1 DEF AtMost
    <3>2. l \in 0 .. 3 /\ l > 0 /\ 0 \in Nat
      OBVIOUS
    <3>3. c \in Reserves
      BY <3>1, <3>2, CallFacts
    <3> HIDE DEF c
    <3>4. <<c>> \in Seq(Reserves) /\ ~(more <= 0)
      BY <2>1, <3>3
    <3> QED BY <2>1, <3>4 DEF c
  <2>2. CASE ~(more > 0)
    BY <2>2
  <2> QED BY <2>1, <2>2
<1>3. /\ rest \in Int /\ r2 \in Int /\ r3 \in Int
      /\ n <= EXT4_NDIR_BLOCKS => rest <= 0 /\ r2 <= 0 /\ r3 <= 0
  <2> DEFINE p1 == Per[1]
             p2 == Per[2]
  <2>1. p1 \in Nat /\ p2 \in Nat
    BY <1>1
  <2> HIDE DEF p1, p2
  <2>2. /\ rest \in Int /\ rest - p1 \in Int /\ rest - p1 - p2 \in Int
        /\ n <= EXT4_NDIR_BLOCKS => rest <= 0 /\ rest - p1 <= 0 /\ rest - p1 - p2 <= 0
    BY <1>1, <2>1
  <2> QED BY <2>2 DEF p1, p2
<1>4. Tops(n) = t1 \o t2 \o t3
  BY DEF Tops
<1> HIDE DEF Top, rest, r2, r3
<1>5. /\ t1 \in Seq(Reserves) /\ t2 \in Seq(Reserves) /\ t3 \in Seq(Reserves)
      /\ n <= EXT4_NDIR_BLOCKS => t1 = <<>> /\ t2 = <<>> /\ t3 = <<>>
  BY <1>1, <1>2, <1>3
<1> HIDE DEF t1, t2, t3
<1>6. t1 \o t2 \o t3 \in Seq(Reserves)
  <2>1. t1 \o t2 \in Seq(Reserves)
    BY <1>5, ConcatProperties
  <2> QED BY <1>5, <2>1, ConcatProperties
<1>7. <<>> \o <<>> \o <<>> = <<>>
  OBVIOUS
<1> QED BY <1>4, <1>5, <1>6, <1>7

\* The function inside AttachCalls.
IsCalls(f, tops) ==
    f = [k \in 0 .. Len(tops) |->
           IF k = 0 THEN <<>>
           ELSE LET t == tops[k] IN
                f[k - 1] \o (IF t.level = 1 THEN <<t>> ELSE <<t, Call(0, t.n, 0)>>)]

LEMMA AttachCallsFacts ==
    ASSUME NEW n \in Nat
    PROVE  /\ AttachCalls(n) \in Seq(Calls)
           /\ n <= EXT4_NDIR_BLOCKS => AttachCalls(n) = <<>>
<1> DEFINE tops == Tops(n)
           m == Len(tops)
           More(t) == IF t.level = 1 THEN <<t>> ELSE <<t, Call(0, t.n, 0)>>
           V == Seq(Calls)
           step == [kv \in (1 .. m) \X V |-> kv[2] \o More(tops[kv[1]])]
           h == CHOOSE f : IsCalls(f, tops)
<1>1. tops \in Seq(Reserves) /\ (n <= EXT4_NDIR_BLOCKS => tops = <<>>)
  BY TopsFacts
<1>2. ASSUME NEW t \in Reserves PROVE More(t) \in Seq(Calls)
  <2>1. t \in Calls /\ Call(0, t.n, 0) \in Calls
    <3>1. t \in Calls /\ t.n \in Nat /\ 0 \in 0 .. 3 /\ 0 \in Nat
      BY CallFacts
    <3> QED BY <3>1, CallFacts
  <2> HIDE DEF V
  <2> QED BY <2>1
<1>3. m \in Nat /\ \A k \in 1 .. m : More(tops[k]) \in Seq(Calls)
  BY <1>1, <1>2
<1>4. AttachCalls(n) = h[m]
  BY Zenon DEF AttachCalls, IsCalls
<1> HIDE DEF m, More, tops
<1>5. \A k \in 1 .. m : \A v \in V : step[<<k, v>>] = v \o More(tops[k])
  OBVIOUS
<1> HIDE DEF step
<1>6. IsStep(step, m, V)
  <2> SUFFICES ASSUME NEW k \in 1 .. m, NEW v \in V PROVE step[<<k, v>>] \in V
    BY DEF IsStep
  <2>1. More(tops[k]) \in Seq(Calls) /\ step[<<k, v>>] = v \o More(tops[k])
    BY <1>3, <1>5
  <2> QED BY <2>1, ConcatProperties
<1>7. PICK f \in [0 .. m -> V] : BuiltBy(f, m, <<>>, step)
  <2>1. <<>> \in V
    OBVIOUS
  <2> QED BY <1>3, <1>6, <2>1, Recursion
<1> DEFINE Body(g, k) == IF k = 0 THEN <<>> ELSE g[k - 1] \o More(tops[k])
<1>8. ASSUME NEW k \in 0 .. m
      PROVE  f[k] = Body(f, k)
  <2>1. CASE k = 0
    BY <1>7, <2>1 DEF BuiltBy
  <2>2. CASE k # 0
    <3>1. k \in 1 .. m /\ k - 1 \in 0 .. m
      BY <1>3, <2>2
    <3>2. f[k] = step[<<k, f[k - 1]>>] /\ f[k - 1] \in V
      BY <1>7, <3>1 DEF BuiltBy
    <3> QED BY <1>5, <2>2, <3>1, <3>2
  <2> QED BY <2>1, <2>2
<1>9. IsCalls(f, tops)
  <2> DEFINE g == [k \in 0 .. m |-> Body(f, k)]
  <2>1. f = g
    <3> HIDE DEF Body, V
    <3> QED BY <1>7, <1>8
  <2> QED BY <2>1, Zenon DEF IsCalls, m, More
<1>10. IsCalls(h, tops)
  BY <1>9
<1> HIDE DEF h
<1>11. h = [k \in 0 .. m |-> Body(h, k)]
  BY <1>10, Zenon DEF IsCalls, m, More
<1>12. \A k \in 0 .. m : h[k] = Body(h, k)
  <2> HIDE DEF Body
  <2> QED BY <1>11
<1> DEFINE S == {k \in 0 .. m : h[k] \in V}
<1>13. 0 \in S /\ h[0] = <<>>
  <2>1. 0 \in 0 .. m
    BY <1>3
  <2>2. h[0] = <<>> /\ <<>> \in Seq(Calls)
    BY <1>12, <2>1
  <2> QED BY <2>1, <2>2
<1>14. ASSUME NEW k \in 0 .. (m - 1), k \in S PROVE k + 1 \in S
  <2>1. k + 1 \in 1 .. m /\ k + 1 \in 0 .. m /\ (k + 1) - 1 = k /\ k + 1 # 0
    BY <1>3
  <2>2. h[k + 1] = h[k] \o More(tops[k + 1])
    BY <1>12, <2>1
  <2>3. h[k] \in Seq(Calls) /\ More(tops[k + 1]) \in Seq(Calls)
    BY <1>3, <1>14, <2>1
  <2>4. h[k] \o More(tops[k + 1]) \in Seq(Calls)
    BY <2>3, ConcatProperties
  <2> QED BY <2>1, <2>2, <2>4
<1> HIDE DEF S
<1>15. \A k \in 0 .. m : k \in S
  BY <1>3, <1>13, <1>14, BoundedInduction
<1>16. h[m] \in Seq(Calls)
  BY <1>3, <1>15 DEF S
<1>17. n <= EXT4_NDIR_BLOCKS => m = 0
  BY <1>1 DEF m
<1> QED BY <1>4, <1>13, <1>16, <1>17

-----------------------------------------------------------------------------
(* Advancing                                                               *)

\* The function inside advance_list_ptr.
IsWalk(f, mem, chain, p) ==
    f = [k \in 1 .. (Len(chain) + 1) |->
           [b \in Nat |->
              [x \in {0, p} |->
                 IF b = 0 \/ k > Len(chain) THEN [partial |-> x, failed |-> b > 0]
                 ELSE LET l == mem[chain[k]].len IN
                      IF l > x + b THEN [partial |-> x + b, failed |-> FALSE]
                      ELSE f[k + 1][b - (l - x)][0]]]]

\* What it is at a region.
Walked(f, mem, chain, k, b, x) ==
    IF b = 0 \/ k > Len(chain) THEN [partial |-> x, failed |-> b > 0]
    ELSE LET l == mem[chain[k]].len IN
         IF l > x + b THEN [partial |-> x + b, failed |-> FALSE]
         ELSE f[k + 1][b - (l - x)][0]

LEMMA WalkExists ==
    ASSUME NEW mem, NEW chain, NEW p \in Nat, Len(chain) \in Nat,
           \A k \in 1 .. Len(chain) : mem[chain[k]].len \in Nat
    PROVE  \E f : IsWalk(f, mem, chain, p)
<1> DEFINE m == Len(chain)
           P == {0, p}
           R == [partial : Nat, failed : BOOLEAN]
           V == [Nat -> [P -> R]]
           End(b, x) == [partial |-> x, failed |-> b > 0]
           E(k) == mem[chain[k]].len
           Body(k, v, b, x) == IF b = 0 \/ k > m THEN End(b, x)
                               ELSE IF E(k) > x + b THEN [partial |-> x + b, failed |-> FALSE]
                               ELSE v[b - (E(k) - x)][0]
           base == [b \in Nat |-> [x \in P |-> End(b, x)]]
           At(k, v) == [b \in Nat |-> [x \in P |-> Body(k, v, b, x)]]
           step == [dv \in (1 .. m) \X V |-> At(m + 1 - dv[1], dv[2])]
<1>1. m \in Nat /\ \A k \in 1 .. m : E(k) \in Nat
  OBVIOUS
<1>2. P \subseteq Nat /\ 0 \in P
  OBVIOUS
<1>3. \A b \in Nat : \A x \in P : End(b, x) \in R
  BY <1>2
<1>4. \A x, y \in Nat : [partial |-> x + y, failed |-> FALSE] \in R
  OBVIOUS
<1> HIDE DEF m, P, R, End, E
<1>5. base \in V
  BY <1>3
<1>6. ASSUME NEW k \in 1 .. m, NEW v \in V PROVE At(k, v) \in V
  <2>1. ASSUME NEW b \in Nat, NEW x \in P PROVE Body(k, v, b, x) \in R
    <3>1. CASE b = 0 \/ k > m
      BY <1>3, <3>1
    <3>2. CASE ~(b = 0 \/ k > m) /\ E(k) > x + b
      BY <1>2, <1>4, <3>2
    <3>3. CASE ~(b = 0 \/ k > m) /\ ~(E(k) > x + b)
      <4>1. x \in Nat /\ E(k) \in Nat
        BY <1>1, <1>2
      <4>2. b - (E(k) - x) \in Nat
        BY <3>3, <4>1
      <4>3. v[b - (E(k) - x)] \in [P -> R]
        BY <4>2
      <4>4. v[b - (E(k) - x)][0] \in R
        BY <1>2, <4>3
      <4> QED BY <3>3, <4>4
    <3> QED BY <3>1, <3>2, <3>3
  <2> HIDE DEF Body
  <2> QED BY <2>1
<1>7. \A d \in 1 .. m : \A v \in V : step[<<d, v>>] = At(m + 1 - d, v)
  <2> HIDE DEF V, At, base
  <2> QED OBVIOUS
<1> HIDE DEF base, step, V
<1>8. IsStep(step, m, V)
  <2> SUFFICES ASSUME NEW d \in 1 .. m, NEW v \in V PROVE step[<<d, v>>] \in V
    BY DEF IsStep
  <2>1. m + 1 - d \in 1 .. m
    BY <1>1
  <2> HIDE DEF At
  <2> QED BY <1>6, <1>7, <2>1
<1>9. PICK g \in [0 .. m -> V] : BuiltBy(g, m, base, step)
  BY <1>1, <1>5, <1>8, Recursion
<1> DEFINE f == [k \in 1 .. (m + 1) |-> g[m + 1 - k]]
           Bodies(h, k) == [b \in Nat |-> [x \in P |-> Body(k, h[k + 1], b, x)]]
<1>10. \A k \in 1 .. (m + 1) : f[k] = g[m + 1 - k]
  OBVIOUS
<1>11. DOMAIN f = 1 .. (m + 1) /\ f = [k \in 1 .. (m + 1) |-> f[k]]
  OBVIOUS
<1> HIDE DEF f
<1>12. ASSUME NEW k \in 1 .. (m + 1)
       PROVE  f[k] = Bodies(f, k)
  <2>1. CASE k = m + 1
    <3>1. m + 1 - k = 0 /\ k > m
      BY <1>1, <2>1
    <3>2. f[k] = base
      BY <1>9, <1>10, <3>1 DEF BuiltBy
    <3>3. \A b, x : Body(k, f[k + 1], b, x) = End(b, x)
      BY <3>1
    <3> HIDE DEF Body
    <3> QED BY <3>2, <3>3 DEF base
  <2>2. CASE k # m + 1
    <3> DEFINE d == m + 1 - k
    <3>1. /\ d \in 1 .. m /\ d - 1 \in 0 .. m /\ d - 1 = m + 1 - (k + 1)
          /\ k + 1 \in 1 .. (m + 1) /\ m + 1 - d = k
      BY <1>1, <2>2
    <3>2. f[k] = g[d]
      BY <1>10
    <3> HIDE DEF d
    <3>3. g[d - 1] \in V /\ g[d] = step[<<d, g[d - 1]>>]
      BY <1>9, <3>1 DEF BuiltBy
    <3>4. f[k + 1] = g[d - 1]
      BY <1>10, <3>1
    <3>5. f[k] = At(k, f[k + 1])
      <4> HIDE DEF At
      <4> QED BY <1>7, <3>1, <3>2, <3>3, <3>4
    <3> QED BY <3>5
  <2> QED BY <2>1, <2>2
<1>13. f = [k \in 1 .. (m + 1) |-> Bodies(f, k)]
  <2> DEFINE h == [k \in 1 .. (m + 1) |-> Bodies(f, k)]
  <2> HIDE DEF Bodies
  <2>1. h = [k \in 1 .. (m + 1) |-> h[k]] /\ \A k \in 1 .. (m + 1) : h[k] = Bodies(f, k)
    OBVIOUS
  <2> HIDE DEF h
  <2>2. \A k \in 1 .. (m + 1) : h[k] = f[k]
    BY <1>12, <2>1
  <2>3. h = f
    BY <1>11, <2>1, <2>2
  <2> QED BY <2>3 DEF h
<1>14. IsWalk(f, mem, chain, p)
  BY <1>13, Zenon DEF IsWalk, m, P, E, End
<1> QED BY <1>14

\* What it is at all regions, where the position stays a number.
Walks(f, mem, chain, p) ==
    \A k \in 1 .. (Len(chain) + 1) : \A b \in Nat : \A x \in {0, p} :
        f[k][b][x] = Walked(f, mem, chain, k, b, x) /\ f[k][b][x].partial \in Nat

LEMMA WalkValues ==
    ASSUME NEW mem, NEW chain, NEW p \in Nat, Len(chain) \in Nat,
           \A k \in 1 .. Len(chain) : mem[chain[k]].len \in Nat,
           NEW f, IsWalk(f, mem, chain, p)
    PROVE  Walks(f, mem, chain, p)
<1> DEFINE m == Len(chain)
           P == {0, p}
           E(k) == mem[chain[k]].len
           End(b, x) == [partial |-> x, failed |-> b > 0]
           Body(k, b, x) == IF b = 0 \/ k > m THEN End(b, x)
                            ELSE IF E(k) > x + b THEN [partial |-> x + b, failed |-> FALSE]
                            ELSE f[k + 1][b - (E(k) - x)][0]
           Bodies(k) == [b \in Nat |-> [x \in P |-> Body(k, b, x)]]
<1>1. m \in Nat /\ \A k \in 1 .. m : E(k) \in Nat
  OBVIOUS
<1>2. P \subseteq Nat /\ 0 \in P
  OBVIOUS
<1>3. f = [k \in 1 .. (m + 1) |-> Bodies(k)]
  BY Zenon DEF IsWalk
<1>4. \A k \in 1 .. (m + 1) : \A b \in Nat : \A x \in P : f[k][b][x] = Body(k, b, x)
  <2> HIDE DEF Body, P, m
  <2> SUFFICES ASSUME NEW k \in 1 .. (m + 1), NEW b \in Nat, NEW x \in P
               PROVE  f[k][b][x] = Body(k, b, x)
    OBVIOUS
  <2>1. f[k] = Bodies(k)
    <3> HIDE DEF Bodies
    <3> QED BY <1>3
  <2> QED BY <2>1
<1>5. \A k, b, x : Walked(f, mem, chain, k, b, x) = Body(k, b, x)
  BY DEF Walked
<1>6. \A b, x : End(b, x).partial = x
  OBVIOUS
<1>7. \A z : [partial |-> z, failed |-> FALSE].partial = z
  OBVIOUS
<1> HIDE DEF m, P, E, End
<1> DEFINE S == {j \in 0 .. m : \A b \in Nat : \A x \in P : f[m + 1 - j][b][x].partial \in Nat}
<1>8. 0 \in S
  <2>1. m + 1 - 0 = m + 1 /\ m + 1 > m /\ m + 1 \in 1 .. (m + 1) /\ 0 \in 0 .. m
    BY <1>1
  <2>2. ASSUME NEW b \in Nat, NEW x \in P PROVE f[m + 1][b][x].partial \in Nat
    <3>1. f[m + 1][b][x] = End(b, x)
      BY <1>4, <2>1
    <3> QED BY <1>2, <1>6, <3>1
  <2> QED BY <2>1, <2>2
<1>9. ASSUME NEW j \in 0 .. (m - 1), j \in S PROVE j + 1 \in S
  <2> DEFINE k == m + 1 - (j + 1)
  <2>1. /\ k \in 1 .. m /\ k \in 1 .. (m + 1) /\ ~(k > m) /\ k + 1 = m + 1 - j
        /\ j + 1 \in 0 .. m
    BY <1>1
  <2> HIDE DEF k
  <2>2. ASSUME NEW b \in Nat, NEW x \in P PROVE f[k][b][x].partial \in Nat
    <3>1. f[k][b][x] = Body(k, b, x)
      <4> HIDE DEF Body
      <4> QED BY <1>4, <2>1
    <3>2. x \in Nat /\ E(k) \in Nat
      BY <1>1, <1>2, <2>1
    <3>3. CASE b = 0
      BY <1>6, <3>1, <3>2, <3>3
    <3>4. CASE b # 0 /\ E(k) > x + b
      <4>1. f[k][b][x] = [partial |-> x + b, failed |-> FALSE]
        BY <2>1, <3>1, <3>4
      <4> QED BY <1>7, <3>2, <4>1
    <3>5. CASE b # 0 /\ ~(E(k) > x + b)
      <4> DEFINE c == b - (E(k) - x)
      <4>1. c \in Nat
        BY <3>2, <3>5
      <4>2. f[k][b][x] = f[k + 1][c][0]
        BY <2>1, <3>1, <3>5
      <4> HIDE DEF c
      <4>3. f[m + 1 - j][c][0].partial \in Nat
        BY <1>2, <1>9, <4>1
      <4> QED BY <2>1, <4>2, <4>3
    <3> QED BY <3>3, <3>4, <3>5
  <2> QED BY <2>1, <2>2 DEF k
<1> HIDE DEF S
<1>10. \A j \in 0 .. m : j \in S
  BY <1>1, <1>8, <1>9, BoundedInduction
<1>11. ASSUME NEW k \in 1 .. (m + 1), NEW b \in Nat, NEW x \in P PROVE f[k][b][x].partial \in Nat
  <2> DEFINE j == m + 1 - k
  <2>1. j \in 0 .. m /\ m + 1 - j = k
    BY <1>1
  <2> HIDE DEF j
  <2>2. j \in S
    BY <1>10, <2>1
  <2> QED BY <2>1, <2>2 DEF S
<1> HIDE DEF Body
<1> QED BY <1>4, <1>5, <1>11 DEF m, P, Walks

\* An iterator that leads to the end of a list.
Chained(mem, p) == p = NULL \/ \E w : IsPath(mem, w) /\ w[1] = p

\* The position stays a number, and in the last region it stays inside.
LEMMA AdvancedFacts ==
    ASSUME NEW a \in Allocation, Linked(a.mem), NEW l \in List, Chained(a.mem, l.iter),
           NEW n \in Nat
    PROVE  LET x == advance_list_ptr(a, l, n).partial IN
           /\ x \in Nat
           /\ \A w : IsPath(a.mem, w) /\ w[1] = l.iter /\ Len(w) = 1 /\ l.partial_iter < a.mem[l.iter].len
                    => x < a.mem[l.iter].len
<1> DEFINE chain == Chain(a.mem, l.iter)
           p == l.partial_iter
           f == CHOOSE g : IsWalk(g, a.mem, chain, p)
           x == advance_list_ptr(a, l, n).partial
<1>1. p \in Nat /\ l.iter \in Nat
  BY DEF List
<1>2. /\ Len(chain) \in Nat /\ \A k \in 1 .. Len(chain) : a.mem[chain[k]].len \in Nat
      /\ \A w : IsPath(a.mem, w) /\ w[1] = l.iter => chain = w
  <2>1. ASSUME NEW w, IsPath(a.mem, w), w[1] = l.iter
        PROVE  /\ chain = w /\ Len(chain) \in Nat
               /\ \A k \in 1 .. Len(chain) : a.mem[chain[k]].len \in Nat
    <3>1. chain = w
      BY <2>1, PathChain
    <3>2. /\ Len(w) \in Nat
          /\ \A k \in 1 .. Len(w) : w[k] \in 1 .. Len(a.mem)
      BY <2>1, LinkedFacts DEF IsPath
    <3>3. \A q \in 1 .. Len(a.mem) : a.mem[q].len \in Nat
      BY LinkedFacts
    <3> HIDE DEF chain
    <3> QED BY <3>1, <3>2, <3>3
  <2>2. ASSUME l.iter = NULL
        PROVE  Len(chain) \in Nat /\ \A k \in 1 .. Len(chain) : a.mem[chain[k]].len \in Nat
    <3>1. chain = <<>>
      BY <2>2, ChainOfNull
    <3> HIDE DEF chain
    <3> QED BY <3>1
  <2> HIDE DEF chain
  <2> QED BY <2>1, <2>2 DEF Chained
<1>3. advance_list_ptr(a, l, n) = f[1][n][p]
  BY Zenon DEF advance_list_ptr, IsWalk
<1> HIDE DEF chain, p
<1>4. IsWalk(f, a.mem, chain, p)
  BY <1>1, <1>2, WalkExists
<1> HIDE DEF f
<1>5. \A k \in 1 .. (Len(chain) + 1) : \A b \in Nat : \A y \in {0, p} :
         f[k][b][y] = Walked(f, a.mem, chain, k, b, y) /\ f[k][b][y].partial \in Nat
  <2> DEFINE mem == a.mem
  <2>1. /\ p \in Nat /\ Len(chain) \in Nat
        /\ \A k \in 1 .. Len(chain) : mem[chain[k]].len \in Nat
        /\ IsWalk(f, mem, chain, p)
    BY <1>1, <1>2, <1>4 DEF p
  <2>2. Walks(f, mem, chain, p)
    <3> HIDE DEF mem
    <3> QED BY ONLY <2>1, WalkValues
  <2> QED BY <2>2 DEF Walks
<1>6. 1 \in 1 .. (Len(chain) + 1) /\ p \in {0, p}
  BY <1>2
<1>7. x \in Nat
  BY <1>3, <1>5, <1>6
<1>8. ASSUME NEW w, IsPath(a.mem, w), w[1] = l.iter, Len(w) = 1, p < a.mem[l.iter].len
      PROVE  x < a.mem[l.iter].len
  <2> DEFINE e == a.mem[l.iter].len
  <2>1. Len(chain) = 1 /\ chain[1] = l.iter /\ e \in Nat
    <3>1. chain = w
      BY <1>2, <1>8
    <3>2. 1 \in 1 .. Len(chain)
      BY <1>8, <3>1, SMTT(60)
    <3> QED BY <1>2, <1>8, <3>1, <3>2
  <2>2. f[1][n][p] = Walked(f, a.mem, chain, 1, n, p)
    BY <1>5, <1>6
  <2>3. Walked(f, a.mem, chain, 1, n, p)
          = IF n = 0 THEN [partial |-> p, failed |-> n > 0]
            ELSE IF e > p + n THEN [partial |-> p + n, failed |-> FALSE]
            ELSE f[2][n - (e - p)][0]
    BY <2>1 DEF Walked
  <2> HIDE DEF e
  <2>4. CASE n = 0
    BY <1>1, <1>3, <1>8, <2>2, <2>3, <2>4 DEF e
  <2>5. CASE n # 0 /\ e > p + n
    <3>1. advance_list_ptr(a, l, n) = [partial |-> p + n, failed |-> FALSE]
      BY <1>3, <2>2, <2>3, <2>5
    <3>2. x = p + n
      BY <3>1
    <3> QED BY <1>1, <2>1, <2>5, <3>2 DEF e
  <2>6. CASE n # 0 /\ ~(e > p + n)
    <3> DEFINE c == n - (e - p)
    <3>1. c \in Nat
      BY <1>1, <2>1, <2>6
    <3>2. advance_list_ptr(a, l, n) = f[2][c][0]
      BY <1>3, <2>2, <2>3, <2>6
    <3> HIDE DEF c
    <3>3. f[2][c][0] = Walked(f, a.mem, chain, 2, c, 0)
      BY <1>5, <2>1, <3>1
    <3>4. Walked(f, a.mem, chain, 2, c, 0) = [partial |-> 0, failed |-> c > 0]
      BY <2>1 DEF Walked
    <3>5. x = 0
      BY <3>2, <3>3, <3>4
    <3>6. p < e
      BY <1>8 DEF e
    <3> QED BY <1>1, <2>1, <3>5, <3>6 DEF e
  <2> QED BY <2>4, <2>5, <2>6
<1> QED BY <1>7, <1>8 DEF p

\* Only positions in the lists are other.
SameLists(a, b) ==
    /\ b \in Allocation /\ b.mem = a.mem
    /\ b.list.first = a.list.first /\ b.list.last = a.list.last /\ b.list.iter = a.list.iter
    /\ b.oob_list.first = a.oob_list.first /\ b.oob_list.last = a.oob_list.last
    /\ b.oob_list.iter = a.oob_list.iter

\* The lists can be walked from where their iterators are.
Readable(a) ==
    a \in Allocation /\ Linked(a.mem) /\ Chained(a.mem, a.list.iter) /\ Chained(a.mem, a.oob_list.iter)

LEMMA AdvancedBlocks ==
    ASSUME NEW a, Readable(a), NEW n \in Nat
    PROVE  LET b == advance_blocks(a, n).alloc IN
           /\ SameLists(a, b) /\ Readable(b)
           /\ b.list.partial_iter = advance_list_ptr(a, a.list, n).partial
           /\ b.list.partial_iter \in Nat
<1> DEFINE x == advance_list_ptr(a, a.list, n).partial
           b == [a EXCEPT !.list.partial_iter = x]
           l == [a.list EXCEPT !.partial_iter = x]
<1>1. advance_blocks(a, n) = [failed |-> advance_list_ptr(a, a.list, n).failed, alloc |-> b]
  BY Zenon DEF advance_blocks
<1>2. a \in Allocation /\ a.list \in List /\ Linked(a.mem) /\ Chained(a.mem, a.list.iter)
      /\ Chained(a.mem, a.oob_list.iter)
  BY AllocationFields DEF Readable
<1>3. x \in Nat
  BY <1>2, AdvancedFacts
<1> HIDE DEF x
<1>4. /\ l \in List /\ l.first = a.list.first /\ l.last = a.list.last /\ l.iter = a.list.iter
      /\ l.partial_iter = x
  BY <1>2, <1>3 DEF List
<1>5. b.mem = a.mem /\ b.oob_list = a.oob_list /\ b.list = l
  BY <1>2 DEF Allocation
<1>6. b \in Allocation
  BY <1>2, <1>4 DEF Allocation
<1>7. advance_blocks(a, n).alloc = b
  <2> HIDE DEF b
  <2> QED BY <1>1
<1> HIDE DEF b, l
<1>8. SameLists(a, b) /\ Readable(b)
  BY <1>2, <1>4, <1>5, <1>6 DEF SameLists, Readable
<1> QED BY <1>3, <1>4, <1>5, <1>7, <1>8 DEF x

LEMMA AdvancedOob ==
    ASSUME NEW a, Readable(a), NEW n \in Nat
    PROVE  LET b == advance_oob_blocks(a, n).alloc IN SameLists(a, b) /\ Readable(b)
<1> DEFINE x == advance_list_ptr(a, a.oob_list, n).partial
           b == [a EXCEPT !.oob_list.partial_iter = x]
           l == [a.oob_list EXCEPT !.partial_iter = x]
<1>1. advance_oob_blocks(a, n) = [failed |-> advance_list_ptr(a, a.oob_list, n).failed, alloc |-> b]
  BY Zenon DEF advance_oob_blocks
<1>2. a \in Allocation /\ a.oob_list \in List /\ Linked(a.mem) /\ Chained(a.mem, a.list.iter)
      /\ Chained(a.mem, a.oob_list.iter)
  BY AllocationFields DEF Readable
<1>3. x \in Nat
  BY <1>2, AdvancedFacts
<1> HIDE DEF x
<1>4. /\ l \in List /\ l.first = a.oob_list.first /\ l.last = a.oob_list.last
      /\ l.iter = a.oob_list.iter
  BY <1>2, <1>3 DEF List
<1>5. b.mem = a.mem /\ b.list = a.list /\ b.oob_list = l
  BY <1>2 DEF Allocation
<1>6. b \in Allocation
  BY <1>2, <1>4 DEF Allocation
<1>7. advance_oob_blocks(a, n).alloc = b
  <2> HIDE DEF b
  <2> QED BY <1>1
<1> HIDE DEF b, l
<1>8. SameLists(a, b) /\ Readable(b)
  BY <1>2, <1>4, <1>5, <1>6 DEF SameLists, Readable
<1> QED BY <1>7, <1>8

\* Rewound, a list is read from its first region.
LEMMA Rewound ==
    ASSUME NEW a \in Allocation
    PROVE  IsIter(a, rewind_alloc(a), a.list.first, 0)
<1>1. rewind_alloc(a) = WithIter(a, a.list.first, 0)
  BY Zenon DEF rewind_alloc, WithIter
<1>2. a.list.first \in Nat
  BY AllocationFields
<1> HIDE DEF Allocation
<1> QED BY <1>1, <1>2, 0 \in Nat, IterMoved

\* The blocks of a list are those of its regions.
LEMMA SameBlocks ==
    ASSUME NEW a, NEW b, b.mem = a.mem, NEW p
    PROVE  BlocksFrom(b, p) = BlocksFrom(a, p)
  BY Zenon DEF BlocksFrom

-----------------------------------------------------------------------------
(* Files with pointers                                                     *)

LEMMA FileFacts ==
    ASSUME NEW n \in Nat, n > 0, NEW tail \in Tails \cup {0}
    PROVE  (n * BlockSize - tail + BlockSize - 1) \div BlockSize = n
<1>1. BlockSize \in Nat /\ BlockSize > 0 /\ tail \in Nat /\ tail < BlockSize
  BY SizeFacts
<1> DEFINE Q == n * BlockSize
           r == BlockSize - 1 - tail
<1>2. n \in Int /\ r \in 0 .. (BlockSize - 1) /\ BlockSize \in Nat \ {0}
  BY <1>1
<1>3. Q \in Nat
  <2>1. \A a, b \in Nat : a * b \in Nat
    OBVIOUS
  <2> QED BY <1>1, <2>1
<1>4. (Q + r) \div BlockSize = n
  BY <1>2, UniqueDivision
<1> HIDE DEF Q
<1>5. Q - tail + BlockSize - 1 = Q + r
  BY <1>1, <1>3
<1> QED BY <1>4, <1>5 DEF Q

\* The sums of one region and of two.
LEMMA ShortSums ==
    ASSUME NEW s \in Seq(Placement), Len(s) \in {1, 2}
    PROVE  SumLen(s) = IF Len(s) = 1 THEN s[1].len ELSE s[1].len + s[2].len
<1>1. Measured(s)
  BY PlacementsArePlaced
<1>2. /\ Sum(s, 0) = 0 /\ Sum(s, Len(s)) = SumLen(s)
      /\ \A m \in 1 .. Len(s) : Sum(s, m) = Sum(s, m - 1) + s[m].len
  BY <1>1, SumFacts
<1>3. \A k \in 1 .. Len(s) : s[k].len \in Nat
  BY <1>1 DEF Measured
<1>4. 1 \in 1 .. Len(s) /\ 1 - 1 = 0 /\ 2 - 1 = 1
  OBVIOUS
<1>5. Sum(s, 1) = s[1].len
  BY <1>2, <1>3, <1>4
<1> QED BY <1>2, <1>4, <1>5

LEMMA LayoutsOf ==
    ASSUME NEW n \in Nat, n > 0, NEW s \in AllocationsOf(n)
    PROVE  /\ s \in Seq(Placement) /\ Len(s) \in {1, 2} /\ SumLen(s) = n
           /\ s[1].len \in Nat /\ s[1].len > 0 /\ s[1].block \in Nat
<1> DEFINE P(b, l, g) == [block |-> b, len |-> l, bg |-> g]
<1>1. \A b, l, g \in Nat : P(b, l, g) \in Placement /\ P(b, l, g).len = l /\ P(b, l, g).block = b
  BY DEF Placement
<1>2. \/ s = <<P(FirstBlock, n, 0)>>
      \/ \E c \in Cuts : c < n /\ s = <<P(FirstBlock, c, 0), P(FirstBlock + n + 1, n - c, 1)>>
  BY DEF AllocationsOf
<1>3. FirstBlock \in Nat /\ \A c \in Cuts : c \in Nat /\ c > 0
  BY PointerFacts
<1> HIDE DEF P
<1>4. CASE s = <<P(FirstBlock, n, 0)>>
  <2> DEFINE x == P(FirstBlock, n, 0)
  <2>1. x \in Placement /\ x.len = n /\ x.block = FirstBlock
    BY <1>1, <1>3
  <2> HIDE DEF x
  <2>2. s \in Seq(Placement) /\ Len(s) = 1 /\ s[1] = x
    BY <1>4, <2>1 DEF x
  <2>3. SumLen(s) = n
    BY <2>1, <2>2, ShortSums
  <2> QED BY <1>3, <2>1, <2>2, <2>3
<1>5. ASSUME NEW c \in Cuts, c < n,
             s = <<P(FirstBlock, c, 0), P(FirstBlock + n + 1, n - c, 1)>>
      PROVE  /\ s \in Seq(Placement) /\ Len(s) \in {1, 2} /\ SumLen(s) = n
             /\ s[1].len \in Nat /\ s[1].len > 0 /\ s[1].block \in Nat
  <2> DEFINE x == P(FirstBlock, c, 0)
             y == P(FirstBlock + n + 1, n - c, 1)
  <2>1. x \in Placement /\ x.len = c /\ x.block = FirstBlock
    BY <1>1, <1>3
  <2>2. y \in Placement /\ y.len = n - c
    <3>1. FirstBlock + n + 1 \in Nat /\ n - c \in Nat
      BY <1>3, <1>5
    <3> QED BY <1>1, <3>1
  <2> HIDE DEF x, y
  <2>3. s \in Seq(Placement) /\ Len(s) = 2 /\ s[1] = x /\ s[2] = y
    BY <1>5, <2>1, <2>2 DEF x, y
  <2>4. SumLen(s) = n
    BY <1>3, <2>1, <2>2, <2>3, ShortSums
  <2> QED BY <1>3, <2>1, <2>3, <2>4
<1> QED BY <1>2, <1>4, <1>5

\* What a request takes.
LEMMA TakenFacts ==
    ASSUME NEW n \in Nat, n > 0, NEW size, TakeBlocks(n, size)
    PROVE  /\ regions' \in Seq(Placement) /\ Len(regions') \in {1, 2}
           /\ SumLen(regions)' = n + indirect_blocks_needed(n)
           /\ regions'[1].len \in Nat /\ regions'[1].len > 0 /\ regions'[1].block \in Nat
           /\ alloc' = allocate_blocks(regions') /\ len' = size
<1> DEFINE m == n + indirect_blocks_needed(n)
<1>1. PICK s \in AllocationsOf(m) : alloc' = allocate_blocks(s) /\ regions' = s /\ len' = size
  BY DEF TakeBlocks
<1>2. m \in Nat /\ m > 0
  BY NeededFacts
<1> HIDE DEF m
<1>3. /\ s \in Seq(Placement) /\ Len(s) \in {1, 2} /\ SumLen(s) = m
      /\ s[1].len \in Nat /\ s[1].len > 0 /\ s[1].block \in Nat
  BY <1>2, LayoutsOf
<1>4. SumLen(regions)' = SumLen(s)
  BY <1>1 DEF SumLen
<1> QED BY <1>1, <1>3, <1>4 DEF m

\* From the first region the blocks are read in their order.
LEMMA ReadBlocks ==
    ASSUME NEW a \in Allocation, Linked(a.mem), NEW w, IsPath(a.mem, w), a.list.iter = w[1],
           a.list.partial_iter = 0
    PROVE  LET n == SumLen(RegionsOf(a.mem, w)) IN
           n \in Nat /\ [k \in 1 .. n |-> get_block(a, k - 1)] = BlocksFrom(a, w[1])
<1> DEFINE t == RegionsOf(a.mem, w)
           n == SumLen(t)
           d == BlocksFrom(a, w[1])
           B(k) == get_block(a, k - 1)
<1>1. /\ Len(t) = Len(w) /\ Measured(t) /\ Len(w) \in Nat
      /\ \A j \in 1 .. Len(w) : /\ w[j] \in 1 .. Len(a.mem) /\ t[j] = a.mem[w[j]]
                                /\ t[j].len \in Nat /\ t[j].block \in Nat
  BY RegionsOfPath
<1>2. /\ d \in Seq(Nat) /\ Len(d) = n
      /\ \A j \in 1 .. Len(w) : \A o \in Nat :
            o < t[j].len => d[Sum(t, j - 1) + o + 1] = t[j].block + o
  BY BlocksOfPath
<1>3. n \in Nat
  BY <1>1, SumFacts
<1>4. ASSUME NEW k \in 1 .. n PROVE B(k) = d[k]
  <2> DEFINE i == k - 1
  <2>1. i \in Nat /\ i < n /\ i + 1 = k /\ i + 0 = i
    BY <1>3
  <2> HIDE DEF i
  <2>2. PICK j \in 1 .. Len(t) : \E o \in Nat : o < t[j].len /\ i = Sum(t, j - 1) + o
    BY <1>1, <2>1, SpotExists
  <2>3. PICK o \in Nat : o < t[j].len /\ i = Sum(t, j - 1) + o
    BY <2>2
  <2>4. j \in 1 .. Len(w) /\ o < a.mem[w[j]].len
    BY <1>1, <2>2, <2>3
  <2>5. SkipRegions(a, w[1], Sum(t, j - 1) + o) = [reg |-> w[j], left |-> o]
    BY <2>4, SkipSpot
  <2>6. BlockAt(a, a.list, i) = LET at == SkipRegions(a, w[1], i) IN
           IF at.reg = NULL THEN EXT4_ALLOCATE_FAILED ELSE a.mem[at.reg].block + at.left
    BY <2>1 DEF BlockAt
  <2>7. w[j] # NULL
    BY <1>1, <2>4, LinkedFacts DEF NULL
  <2>8. SkipRegions(a, w[1], i).reg = w[j] /\ SkipRegions(a, w[1], i).left = o
    BY <2>3, <2>5
  <2>9. BlockAt(a, a.list, i) = a.mem[w[j]].block + o
    BY <2>6, <2>7, <2>8
  <2>10. d[i + 1] = a.mem[w[j]].block + o
    <3> HIDE DEF d, t
    <3>1. d[Sum(t, j - 1) + o + 1] = t[j].block + o
      BY <1>2, <2>3, <2>4
    <3> QED BY <1>1, <2>3, <2>4, <3>1
  <2> QED BY <2>1, <2>9, <2>10 DEF i, get_block
<1> HIDE DEF d, n, B
<1>5. d = [k \in 1 .. n |-> d[k]]
  BY <1>2
<1>6. [k \in 1 .. n |-> B(k)] = d
  BY <1>4, <1>5
<1> QED BY <1>3, <1>6 DEF n, d, B

\* A file that fits the inode's own pointers: its allocation stays as it was.
SmallSteps == {"reserve", "reserving", "attach", "attaching", "ind_done"}

SmallInv ==
    /\ regions \in Seq(Placement) /\ Len(regions) > 0 /\ block_len \in Nat
    /\ SumLen(regions) = block_len
    /\ alloc \in Allocation /\ alloc.mem = allocate_blocks(regions).mem
    /\ alloc.list.first = 1 /\ alloc.oob_list.iter = NULL
    /\ pc \in {"reserve", "reserving", "attach"} =>
          i_block = NoPointers /\ alloc.list.iter = 1 /\ alloc.list.partial_iter = 0
    /\ pc \in {"reserving", "attaching"} => todo = <<>>
    /\ pc \in {"attaching", "ind_done"} => i_block = [NoPointers EXCEPT !.direct = DataBlocks]

PointerInv ==
    /\ pc = "idle" => backing = "none" /\ i_block = NoPointers
    /\ pc = "link_backing" => backing = "data"
    /\ pc \in SmallSteps /\ backing = "none" /\ block_len <= EXT4_NDIR_BLOCKS => SmallInv

LEMMA PointersExact ==
    ASSUME ExtentInv, PointerInv
    PROVE  MapsExact
<1>1. MapExact
  BY ExactMap
<1> QED BY <1>1 DEF MapsExact, PointerInv, SmallInv, SmallSteps

\* The list of such a file.
LEMMA SmallFacts ==
    ASSUME SmallInv
    PROVE  \E w : /\ Linked(alloc.mem) /\ IsPath(alloc.mem, w) /\ w[1] = 1
                  /\ SumLen(RegionsOf(alloc.mem, w)) = block_len
<1> DEFINE w == [k \in 1 .. Len(regions) |-> k]
           a == allocate_blocks(regions)
           t == RegionsOf(a.mem, w)
<1>1. regions \in Seq(Placement) /\ Len(regions) > 0
  BY DEF SmallInv
<1>2. /\ Linked(a.mem) /\ IsPath(a.mem, w) /\ Len(w) = Len(regions) /\ w[1] = 1
      /\ \A k \in 1 .. Len(regions) : a.mem[k].len = regions[k].len
  BY <1>1, AllocatedList
<1> HIDE DEF a
<1>3. \A k \in 1 .. Len(regions) : w[k] = k
  OBVIOUS
<1> HIDE DEF w
<1>4. /\ Len(t) = Len(w) /\ Measured(t) /\ Len(w) \in Nat
      /\ \A k \in 1 .. Len(w) : t[k] = a.mem[w[k]]
  BY <1>2, RegionsOfPath
<1> HIDE DEF t
<1>5. Measured(regions)
  BY <1>1, PlacementsArePlaced
<1>6. \A k \in 1 .. Len(t) : t[k].len = regions[k].len
  BY <1>2, <1>3, <1>4
<1>7. Len(t) <= Len(regions) /\ Len(t) \in 0 .. Len(t) /\ Len(t) = Len(regions)
  BY <1>2, <1>4
<1>8. Sum(t, Len(t)) = Sum(regions, Len(t))
  BY <1>4, <1>5, <1>6, <1>7, SumSame
<1>9. SumLen(t) = SumLen(regions)
  BY <1>4, <1>5, <1>7, <1>8, SumFacts
<1>10. alloc.mem = a.mem /\ SumLen(regions) = block_len
  BY DEF SmallInv, a
<1> QED BY <1>2, <1>9, <1>10 DEF t

\* The list itself is left as it is.
LEMMA DataBlocksSame ==
    ASSUME alloc'.mem = alloc.mem, alloc'.list.first = alloc.list.first
    PROVE  DataBlocks' = DataBlocks
<1>1. BlocksFrom(alloc', alloc.list.first) = BlocksFrom(alloc, alloc.list.first)
  BY SameBlocks
<1>2. DataBlocks' = BlocksFrom(alloc', alloc'.list.first)
  BY DEF DataBlocks
<1> QED BY <1>1, <1>2 DEF DataBlocks

LEMMA AllocateIndirectSmall ==
    ASSUME PointerInv, NEW n \in FileBlocks, NEW tail \in Tails, allocate_indirect(n, tail)
    PROVE  PointerInv'
<1>1. /\ pc = "idle" /\ TakeBlocks(n, n * BlockSize - tail) /\ pc' = "reserve"
      /\ i_block' = i_block
  BY DEF allocate_indirect, indirectVars
<1>2. n \in Nat /\ n > 0
  BY PointerFacts
<1>3. /\ regions' \in Seq(Placement) /\ Len(regions') \in {1, 2}
      /\ SumLen(regions)' = n + indirect_blocks_needed(n)
      /\ alloc' = allocate_blocks(regions') /\ len' = n * BlockSize - tail
  BY <1>1, <1>2, TakenFacts
<1>4. block_len' = n
  BY <1>2, <1>3, FileFacts DEF block_len
<1>5. n <= EXT4_NDIR_BLOCKS => SumLen(regions)' = n
  BY <1>2, <1>3, NeededFacts
<1>6. /\ alloc' \in Allocation /\ alloc'.mem = allocate_blocks(regions').mem
      /\ alloc'.list.first = 1 /\ alloc'.list.iter = 1 /\ alloc'.list.partial_iter = 0
      /\ alloc'.oob_list.iter = NULL
  <2>1. Len(regions') > 0
    <3>1. Len(regions') \in {1, 2}
      BY <1>3
    <3> QED BY ONLY <3>1
  <2>2. /\ alloc' \in Allocation /\ alloc'.oob_list = EmptyList
        /\ alloc'.list = [first |-> 1, last |-> 1, iter |-> 1, partial_iter |-> 0]
    BY <1>3, <2>1, AllocatedList
  <2> QED BY <1>3, <2>2 DEF EmptyList
<1>7. i_block' = NoPointers
  BY <1>1 DEF PointerInv
<1>8. ASSUME n <= EXT4_NDIR_BLOCKS PROVE SmallInv'
  <2>1. Len(regions') > 0
    <3>1. Len(regions') \in {1, 2}
      BY <1>3
    <3> QED BY ONLY <3>1
  <2>2. block_len' \in Nat /\ SumLen(regions)' = block_len'
    BY <1>2, <1>4, <1>5, <1>8
  <2>3. regions' \in Seq(Placement)
    BY <1>3
  <2> QED BY <1>1, <1>6, <1>7, <2>1, <2>2, <2>3 DEF SmallInv
<1> QED BY <1>1, <1>4, <1>8 DEF PointerInv

LEMMA ReserveSmall ==
    ASSUME PointerInv, reserve
    PROVE  PointerInv'
<1>1. /\ pc = "reserve" /\ pc' = "reserving" /\ todo' = Tops(block_len)
      /\ regions' = regions /\ len' = len /\ backing' = backing /\ i_block' = i_block
      /\ block_len <= EXT4_NDIR_BLOCKS => alloc' = alloc
  BY DEF reserve
<1>2. block_len' = block_len
  BY <1>1 DEF block_len
<1>3. ASSUME SmallInv, block_len <= EXT4_NDIR_BLOCKS PROVE SmallInv'
  <2>1. todo' = <<>>
    BY <1>1, <1>3, TopsFacts DEF SmallInv
  <2>2. SumLen(regions)' = SumLen(regions) /\ alloc' = alloc
    BY <1>1, <1>3 DEF SumLen
  <2> QED BY <1>1, <1>2, <1>3, <2>1, <2>2 DEF SmallInv
<1> QED BY <1>1, <1>2, <1>3 DEF PointerInv, SmallSteps

\* The steps that rewind the list.
LEMMA RewindSmall ==
    ASSUME PointerInv, reserve_done \/ finish_indirect
    PROVE  PointerInv'
<1>1. /\ alloc' = rewind_alloc(alloc) /\ regions' = regions /\ len' = len /\ backing' = backing
      /\ i_block' = i_block
      /\ \/ pc = "reserving" /\ pc' = "attach"
         \/ pc = "attaching" /\ pc' = "ind_done"
  BY DEF reserve_done, finish_indirect, indirectVars
<1>2. block_len' = block_len
  BY <1>1 DEF block_len
<1>3. ASSUME SmallInv PROVE SmallInv'
  <2>1. alloc \in Allocation /\ alloc.list.first = 1 /\ alloc.oob_list.iter = NULL
    BY <1>3 DEF SmallInv
  <2>2. IsIter(alloc, alloc', 1, 0)
    BY <1>1, <2>1, Rewound
  <2>3. /\ alloc' \in Allocation /\ alloc'.mem = alloc.mem /\ alloc'.list.first = 1
        /\ alloc'.oob_list.iter = NULL /\ alloc'.list.iter = 1 /\ alloc'.list.partial_iter = 0
    BY <2>1, <2>2 DEF IsIter
  <2>4. DataBlocks' = DataBlocks /\ SumLen(regions)' = SumLen(regions)
    BY <1>1, <2>1, <2>3, DataBlocksSame DEF SumLen
  <2> QED BY <1>1, <1>2, <1>3, <2>3, <2>4 DEF SmallInv
<1> QED BY <1>1, <1>2, <1>3 DEF PointerInv, SmallSteps

LEMMA AttachSmall ==
    ASSUME PointerInv, attach_direct
    PROVE  PointerInv'
<1> DEFINE n == AtMost(block_len, EXT4_NDIR_BLOCKS)
           direct == [k \in 1 .. n |-> get_block(alloc, k - 1)]
<1>1. /\ pc = "attach" /\ pc' \in {"failed", "attaching"}
      /\ i_block' = [i_block EXCEPT !.direct = direct]
      /\ alloc' = advance_blocks(alloc, n).alloc
      /\ todo' = AttachCalls(block_len)
      /\ regions' = regions /\ len' = len /\ backing' = backing
  BY DEF attach_direct
<1> HIDE DEF n
<1>2. block_len' = block_len
  BY <1>1 DEF block_len
<1>3. ASSUME SmallInv, block_len <= EXT4_NDIR_BLOCKS PROVE SmallInv'
  <2>1. /\ alloc \in Allocation /\ alloc.list.first = 1 /\ alloc.oob_list.iter = NULL
        /\ alloc.list.iter = 1 /\ alloc.list.partial_iter = 0 /\ block_len \in Nat
        /\ i_block = NoPointers
    BY <1>1, <1>3 DEF SmallInv
  <2>2. n = block_len
    <3>1. EXT4_NDIR_BLOCKS \in Nat
      BY PointerFacts
    <3> QED BY <1>3, <2>1, <3>1 DEF n, AtMost
  <2>3. PICK w : /\ Linked(alloc.mem) /\ IsPath(alloc.mem, w) /\ w[1] = 1
                 /\ SumLen(RegionsOf(alloc.mem, w)) = block_len
    BY <1>3, SmallFacts
  <2>4. direct = BlocksFrom(alloc, w[1])
    <3> DEFINE m == SumLen(RegionsOf(alloc.mem, w))
    <3>1. [k \in 1 .. m |-> get_block(alloc, k - 1)] = BlocksFrom(alloc, w[1])
      <4>1. /\ alloc \in Allocation /\ Linked(alloc.mem) /\ IsPath(alloc.mem, w)
            /\ alloc.list.iter = w[1] /\ alloc.list.partial_iter = 0
        BY <2>1, <2>3
      <4> QED BY ONLY <4>1, ReadBlocks
    <3>2. m = n
      BY <2>2, <2>3
    <3> HIDE DEF m
    <3> QED BY <3>1, <3>2
  <2>5. direct = DataBlocks
    BY <2>1, <2>3, <2>4 DEF DataBlocks
  <2> HIDE DEF direct
  <2>6. Readable(alloc)
    BY <2>1, <2>3 DEF Readable, Chained
  <2>7. SameLists(alloc, alloc')
    BY <1>1, <2>1, <2>2, <2>6, AdvancedBlocks
  <2>8. /\ alloc' \in Allocation /\ alloc'.mem = alloc.mem /\ alloc'.list.first = alloc.list.first
        /\ alloc'.oob_list.iter = NULL
    BY <2>1, <2>7 DEF SameLists
  <2>9. DataBlocks' = DataBlocks /\ SumLen(regions)' = SumLen(regions)
    BY <1>1, <2>8, DataBlocksSame DEF SumLen
  <2>10. todo' = <<>>
    BY <1>1, <1>3, <2>1, AttachCallsFacts
  <2>11. i_block' = [NoPointers EXCEPT !.direct = DataBlocks']
    BY <1>1, <2>1, <2>5, <2>9
  <2> QED BY <1>1, <1>2, <1>3, <2>1, <2>8, <2>9, <2>10, <2>11 DEF SmallInv
<1> QED BY <1>1, <1>2, <1>3 DEF PointerInv, SmallSteps

\* The pointer blocks that are reserved or attached are none of such a file.
LEMMA CallsSmall ==
    ASSUME PointerInv, reserve_block \/ attach_block \/ pass_again
    PROVE  PointerInv'
<1>1. /\ todo # <<>> /\ len' = len /\ backing' = backing
      /\ pc \in {"reserving", "attaching"} /\ pc' \in {pc, "failed"}
  BY DEF reserve_block, attach_block, pass_again
<1>2. block_len' = block_len
  BY <1>1 DEF block_len
<1> QED BY <1>1, <1>2, SMTT(60) DEF PointerInv, SmallInv, SmallSteps

LEMMA PointerStep ==
    ASSUME PointerInv, [IndirectNext]_allVars
    PROVE  PointerInv'
<1>1. ASSUME Next PROVE PointerInv'
  <2>1. pc' \in {"header", "failed", "fill", "overrun", "backing", "done"}
    BY <1>1, Zenon DEF Next, allocate, allocate_fails, use_inode, use_leaf, fill_extent, overrun_leaf,
       finish_inode, create_backing, free_alloc
  <2> QED BY <2>1 DEF PointerInv, SmallSteps
<1>2. CASE allocate_data_indirect
  BY <1>2 DEF PointerInv, SmallSteps, allocate_data_indirect
<1>3. CASE link_backing
  BY <1>3 DEF PointerInv, SmallSteps, link_backing
<1>4. CASE link_done
  BY <1>4 DEF PointerInv, SmallSteps, link_done
<1>5. CASE UNCHANGED allVars
  <2>1. UNCHANGED <<alloc, regions, len, backing, pc, i_block, todo>>
    BY <1>5 DEF allVars, vars, indirectVars
  <2>2. block_len' = block_len /\ DataBlocks' = DataBlocks /\ SumLen(regions)' = SumLen(regions)
    BY <2>1, DataBlocksSame DEF block_len, SumLen
  <2> QED BY <2>1, <2>2 DEF PointerInv, SmallInv
<1> QED BY <1>1, <1>2, <1>3, <1>4, <1>5, AllocateIndirectSmall, ReserveSmall, RewindSmall, AttachSmall,
           CallsSmall DEF IndirectNext

\* What an inode maps is what was allocated for it, by extents and by the pointers in
\* the inode (extent.c:80-165, indirect.c:165-181), for files of any length in as many
\* regions as the inode or a leaf has room for: with more, up to the limit of TooMany,
\* the program writes behind the leaf (overrun_leaf), and beyond it refuses the file.
THEOREM InodesMapTheirBlocks == IndirectSpec => []MapsExact
<1>1. IndirectInit => PointerInv
  BY DEF IndirectInit, Init, PointerInv, SmallSteps
<1>2. PointerInv /\ [IndirectNext]_allVars => PointerInv'
  BY PointerStep
<1>3. ExtentInv /\ PointerInv => MapsExact
  BY PointersExact
<1> QED BY <1>1, <1>2, <1>3, ExtentsHold, PTL DEF IndirectSpec

-----------------------------------------------------------------------------
(* BlocksKept                                                              *)

\* The nodes of a list that may be empty, by its first pointer.
IsNodes(mem, p, w) == IF p = NULL THEN w = <<>> ELSE IsPath(mem, w) /\ w[1] = p

\* No region, no block.
LEMMA NoRegions ==
    ASSUME NEW t, Measured(t), Len(t) = 0
    PROVE  SumLen(t) = 0 /\ Blocks(t) = {}
<1>1. Blocks(t) = UpTo(t, 0)
  BY BlocksUpTo
<1>2. UpTo(t, 0) = {}
  BY DEF UpTo
<1>3. SumLen(t) = 0
  BY SumFacts
<1> QED BY <1>1, <1>2, <1>3

LEMMA NodesBlocks ==
    ASSUME NEW a, Linked(a.mem), NEW p, NEW w, IsNodes(a.mem, p, w)
    PROVE  LET d == BlocksFrom(a, p)
               t == RegionsOf(a.mem, w)
           IN  Len(d) = SumLen(t) /\ SetOf(d) = Blocks(t)
<1>1. CASE p # NULL
  <2>1. IsPath(a.mem, w) /\ w[1] = p
    BY <1>1 DEF IsNodes
  <2> QED BY <2>1, BlocksOfPath
<1>2. CASE p = NULL
  <2> DEFINE t == RegionsOf(a.mem, w)
  <2>1. w = <<>> /\ w \in Seq(1 .. Len(a.mem)) /\ Len(w) = 0
    BY <1>2 DEF IsNodes
  <2>2. Measured(t) /\ Len(t) = 0
    BY <2>1, NodesFacts
  <2>3. SumLen(t) = 0 /\ Blocks(t) = {}
    BY <2>2, NoRegions
  <2>4. Chain(a.mem, NULL) = <<>>
    BY ChainOfNull
  <2>5. BlocksFrom(a, NULL) = <<>>
    <3> DEFINE chain == Chain(a.mem, NULL)
               f == CHOOSE g : IsBlocks(g, a.mem, chain)
               F == [k \in 0 .. 0 |-> <<>>]
    <3>1. BlocksFrom(a, NULL) = f[Len(chain)]
      BY Zenon DEF BlocksFrom, IsBlocks
    <3> HIDE DEF chain
    <3>2. Len(chain) = 0
      BY <2>4 DEF chain
    <3>3. IsBlocks(F, a.mem, chain)
      <4>1. \A k \in 0 .. 0 : k = 0
        OBVIOUS
      <4> QED BY <3>2, <4>1 DEF IsBlocks
    <3>4. IsBlocks(f, a.mem, chain)
      <4> HIDE DEF F
      <4> QED BY <3>3
    <3>5. f[0] = <<>>
      <4> HIDE DEF f
      <4>1. 0 \in 0 .. Len(chain)
        BY <3>2
      <4> QED BY <3>4, <4>1 DEF IsBlocks
    <3> QED BY <3>1, <3>2, <3>5
  <2>6. Len(<<>>) = 0 /\ SetOf(<<>>) = {}
    BY DEF SetOf
  <2> QED BY <1>2, <2>3, <2>5, <2>6
<1> QED BY <1>1, <1>2

\* Regions with the same blocks in the same order.
LEMMA SameRegions ==
    ASSUME NEW s, Placed(s), NEW t, Placed(t), Len(t) = Len(s),
           \A k \in 1 .. Len(s) : t[k].len = s[k].len /\ t[k].block = s[k].block
    PROVE  SumLen(t) = SumLen(s) /\ Blocks(t) = Blocks(s)
<1>1. Measured(s) /\ Measured(t) /\ Len(s) \in Nat
  BY DEF Placed, Measured
<1>2. Len(t) <= Len(s) /\ Len(t) \in 0 .. Len(t)
  BY <1>1
<1>3. Sum(t, Len(t)) = Sum(s, Len(t))
  BY <1>1, <1>2, SumSame
<1>4. SumLen(t) = SumLen(s)
  BY <1>1, <1>3, SumFacts
<1>5. \A k \in 1 .. Len(s) : Span(t[k]) = Span(s[k])
  BY DEF Span
<1>6. UpTo(t, Len(s)) = UpTo(s, Len(s))
  BY <1>5 DEF UpTo
<1> QED BY <1>1, <1>4, <1>6, BlocksUpTo

\* The two lists, w and v, hold the blocks of s.
Holds(mem, w, v, s) ==
    /\ SumLen(RegionsOf(mem, w)) + SumLen(RegionsOf(mem, v)) = SumLen(s)
    /\ Blocks(RegionsOf(mem, w)) \cup Blocks(RegionsOf(mem, v)) = Blocks(s)

LEMMA HoldingLists ==
    ASSUME Linked(alloc.mem), NEW w, IsNodes(alloc.mem, alloc.list.first, w),
           NEW v, IsNodes(alloc.mem, alloc.oob_list.first, v),
           Holds(alloc.mem, w, v, regions), SumLen(regions) \in Nat, Returned = {}
    PROVE  ListsKeepBlocks
<1> DEFINE data == BlocksFrom(alloc, alloc.list.first)
           oob == BlocksFrom(alloc, alloc.oob_list.first)
<1>1. Len(data) = SumLen(RegionsOf(alloc.mem, w)) /\ SetOf(data) = Blocks(RegionsOf(alloc.mem, w))
  BY NodesBlocks
<1>2. Len(oob) = SumLen(RegionsOf(alloc.mem, v)) /\ SetOf(oob) = Blocks(RegionsOf(alloc.mem, v))
  BY NodesBlocks
<1>3. Cardinality(Returned) = 0
  BY FS_EmptySet
<1> HIDE DEF data, oob
<1>4. Len(data) + Len(oob) = SumLen(regions)
  BY <1>1, <1>2 DEF Holds
<1>5. SetOf(data) \cup SetOf(oob) \cup Returned = Blocks(regions)
  BY <1>1, <1>2 DEF Holds
<1>6. Len(data) + Len(oob) + Cardinality(Returned) = SumLen(regions)
  BY <1>3, <1>4
<1> QED BY <1>5, <1>6 DEF ListsKeepBlocks, data, oob

LEMMA IdleKeeps ==
    ASSUME ExtentInv, pc = "idle"
    PROVE  ListsKeepBlocks
<1>1. alloc = create_allocation /\ regions = <<>> /\ inode = NewInode
  BY DEF ExtentInv, IdleInv
<1> DEFINE e == <<>>
<1>2. alloc.mem = e /\ alloc.list.first = NULL /\ alloc.oob_list.first = NULL
  BY <1>1 DEF create_allocation, EmptyList
<1>3. Linked(e) /\ e \in Seq(1 .. Len(e)) /\ Len(e) = 0
  BY DEF Linked
<1>4. IsNodes(e, NULL, e)
  BY DEF IsNodes
<1>5. Measured(e)
  BY DEF Measured
<1>6. SumLen(e) = 0 /\ Blocks(e) = {}
  BY <1>3, <1>5, NoRegions
<1>7. SumLen(RegionsOf(e, e)) = 0 /\ Blocks(RegionsOf(e, e)) = {}
  <2>1. Measured(RegionsOf(e, e)) /\ Len(RegionsOf(e, e)) = 0
    BY <1>3, NodesFacts
  <2> QED BY <2>1, NoRegions
<1>8. Holds(e, e, e, e)
  BY <1>6, <1>7 DEF Holds
<1>9. Returned = {}
  BY <1>1 DEF Returned, NewInode, NoHeader
<1> HIDE DEF e
<1>10. regions = e
  BY <1>1 DEF e
<1>11. SumLen(regions) \in Nat
  BY <1>6, <1>10
<1> QED BY <1>2, <1>3, <1>4, <1>8, <1>9, <1>10, <1>11, HoldingLists

\* The list as it was allocated.
LEMMA AllocatedKeeps ==
    ASSUME regions \in Seq(Placement), Len(regions) > 0, alloc = allocate_blocks(regions),
           inode.header.entries = 0
    PROVE  ListsKeepBlocks
<1> DEFINE w == [k \in 1 .. Len(regions) |-> k]
           v == <<>>
           mem == alloc.mem
           t == RegionsOf(mem, w)
<1>1. /\ alloc \in Allocation /\ Linked(mem) /\ Len(mem) = Len(regions)
      /\ \A k \in 1 .. Len(regions) : mem[k].block = regions[k].block /\ mem[k].len = regions[k].len
      /\ alloc.list = [first |-> 1, last |-> 1, iter |-> 1, partial_iter |-> 0]
      /\ alloc.oob_list = EmptyList
      /\ IsPath(mem, w) /\ Len(w) = Len(regions) /\ w[1] = 1
  BY AllocatedList
<1>2. \A k \in 1 .. Len(regions) : w[k] = k
  OBVIOUS
<1> HIDE DEF w, mem
<1>3. alloc.list.first = 1 /\ alloc.oob_list.first = NULL
  BY <1>1 DEF EmptyList
<1>4. IsNodes(mem, 1, w) /\ IsNodes(mem, NULL, v)
  BY <1>1 DEF IsNodes, NULL
<1>5. /\ Len(t) = Len(w) /\ Placed(t) /\ \A k \in 1 .. Len(w) : t[k] = mem[w[k]]
  BY <1>1, RegionsOfPath
<1>6. Placed(regions) /\ Measured(regions)
  BY PlacementsArePlaced
<1> HIDE DEF t
<1>7. SumLen(t) = SumLen(regions) /\ Blocks(t) = Blocks(regions)
  <2>1. Len(t) = Len(regions)
    BY <1>1, <1>5
  <2>2. \A k \in 1 .. Len(regions) : t[k].len = regions[k].len /\ t[k].block = regions[k].block
    BY <1>1, <1>2, <1>5
  <2> QED BY <1>5, <1>6, <2>1, <2>2, SameRegions
<1>8. SumLen(RegionsOf(mem, v)) = 0 /\ Blocks(RegionsOf(mem, v)) = {}
  <2>1. v \in Seq(1 .. Len(mem)) /\ Len(v) = 0
    OBVIOUS
  <2>2. Measured(RegionsOf(mem, v)) /\ Len(RegionsOf(mem, v)) = 0
    BY <1>1, <2>1, NodesFacts
  <2> QED BY <2>2, NoRegions
<1>9. SumLen(regions) \in Nat
  BY <1>6, SumFacts
<1>10. Holds(mem, w, v, regions)
  BY <1>7, <1>8, <1>9 DEF Holds, t
<1>11. Returned = {}
  BY DEF Returned
<1> HIDE DEF v
<1> QED BY <1>1, <1>3, <1>4, <1>9, <1>10, <1>11, HoldingLists DEF mem

\* With a block given back or made the leaf.
LEMMA UsedKeeps ==
    ASSUME ListsInv, Requested
    PROVE  ListsKeepBlocks
<1> DEFINE n == Len(regions)
           mem == alloc.mem
           w == [k \in 1 .. n |-> Node(k)]
           t == RegionsOf(mem, w)
           x == IF inode.depth = 1 THEN regions[1].block ELSE regions[1].block + regions[1].len - 1
           p == alloc.list.first
           q == alloc.oob_list.first
<1>1. /\ regions \in Seq(Placement) /\ n \in Nat /\ n > 0 /\ regions[1].len > 0
      /\ Cardinality(Blocks(regions)) = SumLen(regions) /\ SumLen(regions) \in Nat
      /\ regions[1].block \in Nat /\ regions[1].len \in Nat
  BY LayoutFacts DEF Requested
<1>2. /\ inode.depth \in {0, 1} /\ Linked(mem) /\ Len(mem) = n + inode.depth
      /\ \A k \in 1 .. n : /\ mem[Node(k)].block = Kept[k].block /\ mem[Node(k)].len = Kept[k].len
                           /\ mem[Node(k)].next = Node(k + 1)
      /\ p = Node(1)
  BY DEF ListsInv
<1> HIDE DEF mem, n, p
<1>3. /\ \A k \in 1 .. n : Node(k) \in 1 .. Len(mem) /\ Node(k) # NULL
      /\ Node(n + 1) = NULL
  BY <1>1, <1>2 DEF Node, NULL, n
<1>4. w \in Seq(1 .. Len(mem)) /\ Len(w) = n /\ \A k \in 1 .. n : w[k] = Node(k)
  BY <1>1, <1>3
<1> HIDE DEF w
<1>5. IsPath(mem, w)
  <2>1. Len(w) \in 1 .. Len(mem)
    <3>1. n \in Nat /\ n > 0 /\ inode.depth \in {0, 1} /\ Len(mem) = n + inode.depth /\ Len(w) = n
      BY <1>1, <1>2, <1>4
    <3> QED BY ONLY <3>1
  <2>2. ASSUME NEW k \in 1 .. n PROVE mem[w[k]].next = IF k = n THEN NULL ELSE w[k + 1]
    <3>1. mem[w[k]].next = Node(k + 1)
      BY <1>2, <1>4
    <3>2. CASE k = n
      BY <1>3, <3>1, <3>2
    <3>3. CASE k # n
      <4>1. k + 1 \in 1 .. n
        BY <1>1, <3>3
      <4> QED BY <1>4, <3>1, <3>3, <4>1
    <3> QED BY <3>2, <3>3
  <2> QED BY <1>4, <2>1, <2>2 DEF IsPath
<1>6. IsNodes(mem, p, w)
  <2>1. 1 \in 1 .. n
    BY <1>1
  <2>2. w[1] = p /\ p # NULL
    BY <1>2, <1>3, <1>4, <2>1
  <2> QED BY <1>5, <2>2 DEF IsNodes
<1>7. /\ Len(t) = n /\ Placed(t) /\ \A k \in 1 .. n : t[k] = mem[w[k]]
  BY <1>2, <1>4, <1>5, RegionsOfPath, SMTT(60)
<1> HIDE DEF t
<1>8. Kept \in Seq(Placement) /\ Len(Kept) = n
  BY <1>2, KeptFacts DEF n
<1>9. SumLen(t) = SumLen(Kept) /\ Blocks(t) = Blocks(Kept)
  <2>1. Placed(Kept)
    BY <1>8, PlacementsArePlaced
  <2>2. \A k \in 1 .. n : t[k].len = Kept[k].len /\ t[k].block = Kept[k].block
    BY <1>2, <1>4, <1>7
  <2> QED BY <1>7, <1>8, <2>1, <2>2, SameRegions
<1>10. SumLen(Kept) = SumLen(regions) - 1
  BY <1>1, <1>2, ShortenedSums DEF Kept, n
<1>11. Blocks(Kept) = Blocks(regions) \ {x} /\ x \in Blocks(regions)
  <2>1. inode.depth \in {0, 1} /\ Len(regions) > 0
    BY <1>1, <1>2 DEF n
  <2> QED BY <1>1, <2>1, ShortenedBlocks DEF Kept
<1>12. CASE inode.depth = 0
  <2>1. q = NULL /\ inode.header.entries = n
    BY <1>12 DEF ListsInv, EmptyList, n
  <2>2. Returned = {x} /\ Cardinality(Returned) = 1
    <3>1. Returned = {x}
      BY <1>1, <1>12, <2>1 DEF Returned
    <3> HIDE DEF x
    <3> QED BY <3>1, FS_Singleton
  <2> DEFINE data == BlocksFrom(alloc, p)
             oob == BlocksFrom(alloc, q)
             v == <<>>
  <2>3. Len(data) = SumLen(t) /\ SetOf(data) = Blocks(t)
    BY <1>2, <1>6, NodesBlocks DEF mem, t
  <2>4. Len(oob) = 0 /\ SetOf(oob) = {}
    <3>1. IsNodes(mem, q, v)
      BY <2>1 DEF IsNodes
    <3>2. v \in Seq(1 .. Len(mem)) /\ Len(v) = 0
      OBVIOUS
    <3>3. Measured(RegionsOf(mem, v)) /\ Len(RegionsOf(mem, v)) = 0
      BY <1>2, <3>2, NodesFacts
    <3>4. SumLen(RegionsOf(mem, v)) = 0 /\ Blocks(RegionsOf(mem, v)) = {}
      BY <3>3, NoRegions
    <3> HIDE DEF v, q
    <3> QED BY <1>2, <3>1, <3>4, NodesBlocks DEF mem
  <2> HIDE DEF data, oob, x
  <2>5. Len(data) + Len(oob) + Cardinality(Returned) = SumLen(regions)
    BY <1>1, <1>9, <1>10, <2>2, <2>3, <2>4
  <2>6. SetOf(data) \cup SetOf(oob) \cup Returned = Blocks(regions)
    BY <1>9, <1>11, <2>2, <2>3, <2>4
  <2> QED BY <2>5, <2>6 DEF ListsKeepBlocks, data, oob, p
<1>13. CASE inode.depth = 1
  <2> DEFINE v == <<1>>
             y == RegionsOf(mem, v)
  <2>1. /\ q = 1 /\ mem[1].next = NULL /\ mem[1].block = regions[1].block /\ mem[1].len = 1
        /\ 1 \in 1 .. Len(mem)
    BY <1>1, <1>2, <1>13 DEF ListsInv, mem
  <2>2. v \in Seq(1 .. Len(mem)) /\ Len(v) = 1 /\ v[1] = 1
    BY <2>1
  <2> HIDE DEF v
  <2>3. IsPath(mem, v)
    BY <2>1, <2>2 DEF IsPath
  <2>4. IsNodes(mem, q, v)
    BY <2>1, <2>2, <2>3 DEF IsNodes, NULL
  <2>5. Measured(y) /\ Len(y) = 1 /\ y[1] = mem[1]
    BY <1>2, <2>2, NodesFacts
  <2> HIDE DEF y
  <2>6. SumLen(y) = 1
    <3>1. 1 \in 1 .. Len(y) /\ 1 - 1 = 0 /\ y[1].len = 1
      BY <2>1, <2>5
    <3>2. Sum(y, 1) = Sum(y, 0) + y[1].len /\ Sum(y, 0) = 0 /\ Sum(y, Len(y)) = SumLen(y)
      BY <2>5, <3>1, SumFacts
    <3> QED BY <2>5, <3>1, <3>2
  <2>7. Blocks(y) = {x}
    <3>1. Blocks(y) = UpTo(y, 1)
      BY <2>5, BlocksUpTo
    <3>2. UpTo(y, 1) = Span(y[1])
      <4>1. 1 .. 1 = {1}
        OBVIOUS
      <4> QED BY <4>1 DEF UpTo
    <3>3. Span(y[1]) = {x}
      <4>1. \A b \in Nat : b .. (b + 1 - 1) = {b}
        OBVIOUS
      <4> QED BY <1>1, <1>13, <2>1, <2>5, <4>1 DEF Span
    <3> QED BY <3>1, <3>2, <3>3
  <2>8. Returned = {}
    BY <1>13 DEF Returned
  <2> HIDE DEF x
  <2>9. Holds(mem, w, v, regions)
    BY <1>1, <1>9, <1>10, <1>11, <2>6, <2>7 DEF Holds, t, y
  <2> QED BY <1>1, <1>2, <1>6, <2>4, <2>8, <2>9, HoldingLists DEF mem, p
<1> QED BY <1>2, <1>12, <1>13

\* Regions with the same blocks.
Alike(r, e) == r.len = e.len /\ r.block = e.block

LEMMA SumAgree ==
    ASSUME NEW s, Measured(s), NEW t, Measured(t), NEW m \in Nat, m <= Len(s), m <= Len(t),
           \A k \in 1 .. m : t[k].len = s[k].len
    PROVE  Sum(t, m) = Sum(s, m)
<1> DEFINE S == {j \in 0 .. m : Sum(t, j) = Sum(s, j)}
<1>1. /\ Sum(s, 0) = 0 /\ Sum(t, 0) = 0
      /\ \A j \in 1 .. m : Sum(s, j) = Sum(s, j - 1) + s[j].len /\ Sum(t, j) = Sum(t, j - 1) + t[j].len
  <2>1. \A j \in 1 .. m : j \in 1 .. Len(s) /\ j \in 1 .. Len(t)
    BY DEF Measured
  <2> QED BY <2>1, SumFacts
<1>2. 0 \in S
  BY <1>1
<1>3. ASSUME NEW j \in 0 .. (m - 1), j \in S PROVE j + 1 \in S
  <2>1. j + 1 \in 1 .. m /\ j + 1 \in 0 .. m /\ (j + 1) - 1 = j /\ Sum(t, j) = Sum(s, j)
    BY <1>3
  <2>2. /\ Sum(s, j + 1) = Sum(s, j) + s[j + 1].len /\ Sum(t, j + 1) = Sum(t, j) + t[j + 1].len
        /\ t[j + 1].len = s[j + 1].len
    BY <1>1, <2>1
  <2>3. Sum(t, j + 1) = Sum(s, j + 1)
    BY <2>1, <2>2
  <2> QED BY <2>1, <2>3
<1> HIDE DEF S
<1>4. \A j \in 0 .. m : j \in S
  BY <1>2, <1>3, BoundedInduction
<1> QED BY <1>4 DEF S

\* What a sequence of regions adds up to, but for its last region.
LEMMA LastOf ==
    ASSUME NEW s, Placed(s), Len(s) > 0
    PROVE  /\ Len(s) \in Nat /\ Len(s) \in 1 .. Len(s)
           /\ s[Len(s)].len \in Nat /\ s[Len(s)].block \in Int
           /\ SumLen(s) = Sum(s, Len(s) - 1) + s[Len(s)].len
           /\ Sum(s, Len(s) - 1) \in Nat /\ SumLen(s) \in Nat
           /\ Blocks(s) = UpTo(s, Len(s) - 1) \cup Span(s[Len(s)])
<1>1. Measured(s) /\ Len(s) \in Nat /\ Len(s) \in 1 .. Len(s) /\ Len(s) - 1 \in 0 .. Len(s)
  BY DEF Placed, Measured
<1>2. s[Len(s)].len \in Nat /\ s[Len(s)].block \in Int
  BY <1>1 DEF Placed, Measured
<1>3. SumLen(s) = Sum(s, Len(s) - 1) + s[Len(s)].len /\ Sum(s, Len(s) - 1) \in Nat /\ SumLen(s) \in Nat
  BY <1>1, SumFacts
<1>4. Blocks(s) = UpTo(s, Len(s))
  BY <1>1, BlocksUpTo
<1>5. 1 .. Len(s) = (1 .. (Len(s) - 1)) \cup {Len(s)}
  BY <1>1
<1>6. UpTo(s, Len(s)) = UpTo(s, Len(s) - 1) \cup Span(s[Len(s)])
  BY <1>5 DEF UpTo
<1> QED BY <1>1, <1>2, <1>3, <1>4, <1>6

LEMMA UpToAgree ==
    ASSUME NEW s, NEW t, NEW m, \A k \in 1 .. m : Alike(t[k], s[k])
    PROVE  UpTo(t, m) = UpTo(s, m)
<1>1. \A k \in 1 .. m : Span(t[k]) = Span(s[k])
  BY DEF Alike, Span
<1> QED BY <1>1 DEF UpTo

\* A sequence whose last region is split.
LEMMA SplitSums ==
    ASSUME NEW t, Placed(t), NEW u, Placed(u), Len(t) > 0, Len(u) = Len(t) + 1,
           \A k \in 1 .. (Len(t) - 1) : Alike(u[k], t[k]),
           u[Len(t)].block = t[Len(t)].block,
           u[Len(t) + 1].block = t[Len(t)].block + u[Len(t)].len,
           u[Len(t) + 1].len = t[Len(t)].len - u[Len(t)].len
    PROVE  SumLen(u) = SumLen(t) /\ Blocks(u) = Blocks(t)
<1> DEFINE m == Len(t)
           n == u[m].len
           b == t[m].block
           e == t[m].len
<1>1. /\ m \in Nat /\ m > 0 /\ SumLen(t) = Sum(t, m - 1) + e /\ Sum(t, m - 1) \in Nat
      /\ Blocks(t) = UpTo(t, m - 1) \cup Span(t[m]) /\ e \in Nat /\ b \in Int
  BY LastOf
<1>2. /\ SumLen(u) = Sum(u, m) + (e - n) /\ Sum(u, m) \in Nat /\ e - n \in Nat
      /\ Blocks(u) = UpTo(u, m) \cup Span(u[m + 1])
  <2>1. Len(u) > 0 /\ Len(u) - 1 = m /\ Len(u) = m + 1
    BY <1>1
  <2> HIDE DEF m
  <2>2. /\ SumLen(u) = Sum(u, m) + u[m + 1].len /\ Sum(u, m) \in Nat /\ u[m + 1].len \in Nat
        /\ Blocks(u) = UpTo(u, m) \cup Span(u[m + 1])
    BY <2>1, LastOf
  <2> QED BY <2>2 DEF m
<1>3. Sum(u, m) = Sum(u, m - 1) + n /\ Sum(u, m - 1) \in Nat /\ n \in Nat
  <2>1. Measured(u) /\ m \in 1 .. Len(u) /\ m - 1 \in 0 .. Len(u)
    BY <1>1 DEF Placed
  <2> QED BY <2>1, SumFacts DEF Measured
<1>4. Sum(u, m - 1) = Sum(t, m - 1)
  <2>1. m - 1 \in Nat /\ m - 1 <= Len(u) /\ m - 1 <= Len(t)
    BY <1>1
  <2>2. Measured(t) /\ Measured(u) /\ \A k \in 1 .. (m - 1) : u[k].len = t[k].len
    BY DEF Placed, Alike
  <2> QED BY <2>1, <2>2, SumAgree
<1>5. UpTo(u, m) = UpTo(t, m - 1) \cup Span(u[m])
  <2>1. 1 .. m = (1 .. (m - 1)) \cup {m}
    BY <1>1
  <2>2. UpTo(u, m) = UpTo(u, m - 1) \cup Span(u[m])
    BY <2>1 DEF UpTo
  <2> QED BY <2>2, UpToAgree
<1>6. Span(u[m]) \cup Span(u[m + 1]) = Span(t[m])
  <2>1. /\ Span(u[m]) = b .. (b + n - 1) /\ Span(t[m]) = b .. (b + e - 1)
        /\ Span(u[m + 1]) = (b + n) .. (b + n + (e - n) - 1)
    BY DEF Span
  <2> HIDE DEF b, n, e
  <2>2. e \in Nat /\ n \in Nat /\ e - n \in Nat /\ b \in Int
    BY <1>1, <1>2, <1>3
  <2>3. e >= n /\ b + n + (e - n) - 1 = b + e - 1
    BY ONLY <2>2
  <2>4. (b .. (b + n - 1)) \cup ((b + n) .. (b + e - 1)) = b .. (b + e - 1)
    BY ONLY <2>2, <2>3
  <2> QED BY <2>1, <2>3, <2>4
<1> HIDE DEF n, b, e
<1>7. SumLen(u) = SumLen(t)
  BY <1>1, <1>2, <1>3, <1>4
<1>8. Blocks(u) = Blocks(t)
  BY <1>1, <1>2, <1>5, <1>6
<1> QED BY <1>7, <1>8

\* The last region but one goes to the end of another sequence.
LEMMA MoveSums ==
    ASSUME NEW t, Placed(t), NEW u, Placed(u), Len(u) > 0, Len(t) = Len(u) + 1,
           \A k \in 1 .. (Len(u) - 1) : Alike(u[k], t[k]),
           Alike(u[Len(u)], t[Len(u) + 1]),
           NEW x, Placed(x), NEW y, Placed(y), Len(y) = Len(x) + 1,
           \A k \in 1 .. Len(x) : Alike(y[k], x[k]),
           Alike(y[Len(x) + 1], t[Len(u)])
    PROVE  /\ SumLen(u) + SumLen(y) = SumLen(t) + SumLen(x)
           /\ Blocks(u) \cup Blocks(y) = Blocks(t) \cup Blocks(x)
<1> DEFINE m == Len(u)
           n == Len(x)
           e == t[m].len
           f == t[m + 1].len
<1>1. /\ m \in Nat /\ SumLen(u) = Sum(u, m - 1) + u[m].len /\ Sum(u, m - 1) \in Nat
      /\ Blocks(u) = UpTo(u, m - 1) \cup Span(u[m])
  BY LastOf
<1>2. m > 0
  OBVIOUS
<1>3. /\ SumLen(t) = Sum(t, m) + f /\ Sum(t, m) \in Nat /\ f \in Nat
      /\ Blocks(t) = UpTo(t, m) \cup Span(t[m + 1])
  <2>1. Len(t) > 0 /\ Len(t) - 1 = m /\ Len(t) = m + 1
    BY <1>1
  <2> HIDE DEF m
  <2> QED BY <2>1, LastOf
<1>4. Sum(t, m) = Sum(t, m - 1) + e /\ Sum(t, m - 1) \in Nat /\ e \in Nat
  <2>1. Measured(t) /\ m \in 1 .. Len(t) /\ m - 1 \in 0 .. Len(t)
    BY <1>1, <1>2 DEF Placed
  <2> QED BY <2>1, SumFacts DEF Measured
<1>5. n \in Nat /\ SumLen(x) = Sum(x, n) /\ Blocks(x) = UpTo(x, n) /\ SumLen(x) \in Nat
  <2>1. Measured(x)
    BY DEF Placed
  <2>2. n \in Nat
    BY <2>1 DEF Measured
  <2> QED BY <2>1, <2>2, SumFacts, BlocksUpTo
<1>6. /\ SumLen(y) = Sum(y, n) + y[n + 1].len /\ Sum(y, n) \in Nat
      /\ Blocks(y) = UpTo(y, n) \cup Span(y[n + 1])
  <2>1. Len(y) > 0 /\ Len(y) - 1 = n /\ Len(y) = n + 1
    BY <1>5
  <2> HIDE DEF n
  <2> QED BY <2>1, LastOf
<1>7. u[m].len = f /\ Span(u[m]) = Span(t[m + 1]) /\ y[n + 1].len = e /\ Span(y[n + 1]) = Span(t[m])
  BY DEF Alike, Span
<1>8. Sum(u, m - 1) = Sum(t, m - 1)
  <2>1. m - 1 \in Nat /\ m - 1 <= Len(u) /\ m - 1 <= Len(t)
    BY <1>1, <1>2
  <2>2. Measured(t) /\ Measured(u) /\ \A k \in 1 .. (m - 1) : u[k].len = t[k].len
    BY DEF Placed, Alike
  <2> QED BY <2>1, <2>2, SumAgree
<1>9. Sum(y, n) = Sum(x, n)
  <2>1. n <= Len(x) /\ n <= Len(y)
    BY <1>5
  <2>2. Measured(x) /\ Measured(y) /\ \A k \in 1 .. n : y[k].len = x[k].len
    BY DEF Placed, Alike
  <2> QED BY <1>5, <2>1, <2>2, SumAgree
<1>10. UpTo(u, m - 1) = UpTo(t, m - 1) /\ UpTo(y, n) = UpTo(x, n)
  BY UpToAgree, ZenonT(60)
<1>11. UpTo(t, m) = UpTo(t, m - 1) \cup Span(t[m])
  <2>1. 1 .. m = (1 .. (m - 1)) \cup {m}
    BY <1>1, <1>2
  <2> QED BY <2>1 DEF UpTo
<1> HIDE DEF m, n, e, f
<1>12. SumLen(u) + SumLen(y) = SumLen(t) + SumLen(x)
  BY <1>1, <1>3, <1>4, <1>5, <1>6, <1>7, <1>8, <1>9
<1>13. Blocks(u) \cup Blocks(y) = Blocks(t) \cup Blocks(x)
  BY <1>1, <1>3, <1>5, <1>6, <1>7, <1>10, <1>11
<1> QED BY <1>12, <1>13

\* No region is on a list twice.
Apart(w, v) ==
    /\ \A i, j \in 1 .. Len(w) : w[i] = w[j] => i = j
    /\ \A i, j \in 1 .. Len(v) : v[i] = v[j] => i = j
    /\ \A i \in 1 .. Len(w), j \in 1 .. Len(v) : w[i] # v[j]

\* The nodes of the two lists while pointer blocks are reserved out of one region.
Lists(a, w, v) ==
    /\ a \in Allocation /\ Linked(a.mem)
    /\ IsPath(a.mem, w) /\ a.list.first = w[1]
    /\ \A k \in 1 .. Len(w) : a.mem[w[k]].prev = IF k = 1 THEN NULL ELSE w[k - 1]
    /\ v \in Seq(1 .. Len(a.mem)) /\ IsNodes(a.mem, a.oob_list.first, v)
    /\ Len(v) > 0 => a.oob_list.last = v[Len(v)]
    /\ a.oob_list.iter = a.oob_list.first
    /\ Len(w) + Len(v) = Len(a.mem)
    /\ Apart(w, v)

LEMMA ListsFacts ==
    ASSUME NEW a, NEW w, NEW v, Lists(a, w, v)
    PROVE  /\ Len(a.mem) \in Nat /\ Len(w) \in Nat /\ Len(w) > 0 /\ Len(v) \in Nat
           /\ w \in Seq(1 .. Len(a.mem))
           /\ \A k \in 1 .. Len(w) : w[k] \in 1 .. Len(a.mem)
           /\ \A k \in 1 .. Len(v) : v[k] \in 1 .. Len(a.mem)
           /\ Len(w) \in 1 .. Len(w)
           /\ IF Len(v) = 0 THEN a.oob_list.first = NULL
              ELSE a.oob_list.first = v[1] /\ a.oob_list.first # NULL /\ IsPath(a.mem, v)
<1>1. Len(a.mem) \in Nat
  BY LinkedFacts DEF Lists
<1>2. /\ w \in Seq(1 .. Len(a.mem)) /\ Len(w) \in 1 .. Len(a.mem)
      /\ v \in Seq(1 .. Len(a.mem))
  BY DEF Lists, IsPath
<1>3. /\ Len(w) \in Nat /\ Len(w) > 0 /\ Len(v) \in Nat /\ Len(w) \in 1 .. Len(w)
      /\ \A k \in 1 .. Len(w) : w[k] \in 1 .. Len(a.mem)
      /\ \A k \in 1 .. Len(v) : v[k] \in 1 .. Len(a.mem)
  BY <1>1, <1>2, SMTT(60)
<1>4. IsNodes(a.mem, a.oob_list.first, v)
  BY DEF Lists
<1>5. CASE a.oob_list.first = NULL
  <2>1. v = <<>>
    BY <1>4, <1>5 DEF IsNodes
  <2>2. Len(v) = 0
    BY <2>1
  <2> QED BY <1>1, <1>2, <1>3, <1>5, <2>2
<1>6. CASE a.oob_list.first # NULL
  <2>1. IsPath(a.mem, v) /\ v[1] = a.oob_list.first
    BY <1>4, <1>6 DEF IsNodes
  <2>2. Len(v) # 0
    BY <1>1, <2>1 DEF IsPath
  <2> QED BY <1>1, <1>2, <1>3, <1>6, <2>1, <2>2
<1> QED BY <1>5, <1>6

\* The last node of a list is a list.
LEMMA LastNode ==
    ASSUME NEW mem, Linked(mem), NEW w, IsPath(mem, w)
    PROVE  LET u == <<w[Len(w)]>> IN IsPath(mem, u) /\ Len(u) = 1 /\ u[1] = w[Len(w)]
<1> DEFINE q == w[Len(w)]
           u == <<q>>
<1>1. Len(mem) \in Nat
  BY LinkedFacts
<1>2. /\ w \in Seq(1 .. Len(mem)) /\ Len(w) \in 1 .. Len(mem)
      /\ \A k \in 1 .. Len(w) : mem[w[k]].next = IF k = Len(w) THEN NULL ELSE w[k + 1]
  BY DEF IsPath
<1>3. Len(w) \in 1 .. Len(w)
  BY <1>1, <1>2
<1>4. q \in 1 .. Len(mem) /\ mem[q].next = NULL
  BY <1>2, <1>3
<1> HIDE DEF q
<1>5. u \in Seq(1 .. Len(mem)) /\ Len(u) = 1 /\ u[1] = q
  BY <1>4
<1> HIDE DEF u
<1>6. IsPath(mem, u)
  BY <1>1, <1>2, <1>4, <1>5 DEF IsPath
<1> QED BY <1>5, <1>6 DEF u, q

\* The last region is split.
LEMMA SplitLists ==
    ASSUME NEW a, NEW w, NEW v, Lists(a, w, v), NEW n \in Nat,
           NEW b \in Allocation, Linked(b.mem), IsSplit(a.mem, b.mem, w[Len(w)], n),
           b.list.first = a.list.first, b.oob_list = a.oob_list
    PROVE  LET u == Append(w, Len(a.mem) + 1) IN
           /\ Lists(b, u, v) /\ u[Len(u)] = Len(a.mem) + 1 /\ Len(u) > 1 /\ u[Len(u) - 1] = w[Len(w)]
           /\ \A s : Holds(a.mem, w, v, s) => Holds(b.mem, u, v, s)
<1> DEFINE L == Len(a.mem)
           m == Len(w)
           q == w[m]
           u == Append(w, L + 1)
<1>1. /\ L \in Nat /\ m \in Nat /\ m > 0 /\ Len(v) \in Nat /\ m \in 1 .. m
      /\ w \in Seq(1 .. L) /\ \A k \in 1 .. m : w[k] \in 1 .. L
      /\ \A k \in 1 .. Len(v) : v[k] \in 1 .. L
      /\ IF Len(v) = 0 THEN a.oob_list.first = NULL
         ELSE a.oob_list.first = v[1] /\ a.oob_list.first # NULL /\ IsPath(a.mem, v)
  BY ListsFacts
<1>2. /\ Linked(a.mem) /\ IsPath(a.mem, w) /\ a.list.first = w[1]
      /\ \A k \in 1 .. m : a.mem[w[k]].prev = IF k = 1 THEN NULL ELSE w[k - 1]
      /\ v \in Seq(1 .. L) /\ IsNodes(a.mem, a.oob_list.first, v)
      /\ Len(v) > 0 => a.oob_list.last = v[Len(v)]
      /\ a.oob_list.iter = a.oob_list.first
      /\ m + Len(v) = L /\ Apart(w, v)
  BY DEF Lists
<1>3. /\ Len(b.mem) = L + 1 /\ b.mem[q].next = L + 1 /\ b.mem[q].len = n
      /\ b.mem[q].block = a.mem[q].block /\ b.mem[q].prev = a.mem[q].prev
      /\ b.mem[L + 1].block = a.mem[q].block + n /\ b.mem[L + 1].len = a.mem[q].len - n
      /\ b.mem[L + 1].next = a.mem[q].next /\ b.mem[L + 1].prev = q
      /\ \A r \in 1 .. L : r # q => b.mem[r] = a.mem[r]
  BY DEF IsSplit
<1>4. \A k \in 1 .. m : a.mem[w[k]].next = IF k = m THEN NULL ELSE w[k + 1]
  BY <1>2 DEF IsPath
<1> HIDE DEF L, m, q
<1>5. /\ u \in Seq(1 .. (L + 1)) /\ Len(u) = m + 1 /\ u[m + 1] = L + 1
      /\ \A k \in 1 .. m : u[k] = w[k]
  <2>1. \A k \in 1 .. m : w[k] \in 1 .. (L + 1)
    BY <1>1
  <2>2. w \in Seq(1 .. (L + 1)) /\ Len(w) = m /\ L + 1 \in 1 .. (L + 1)
    BY <1>1, <2>1 DEF m
  <2> QED BY <2>2
<1> HIDE DEF u
<1>6. q = w[m] /\ q \in 1 .. L
  BY <1>1 DEF q
<1>7. \A k \in 1 .. m : k # m => w[k] # q
  BY <1>1, <1>2, <1>6 DEF Apart, m
<1>8. \A k \in 1 .. m : k # m => b.mem[w[k]] = a.mem[w[k]]
  BY <1>1, <1>3, <1>7
<1>9. \A k \in 1 .. Len(v) : v[k] # q /\ b.mem[v[k]] = a.mem[v[k]]
  <2>1. \A k \in 1 .. Len(v) : v[k] # q
    BY <1>1, <1>2, <1>6 DEF Apart, m
  <2> QED BY <1>1, <1>3, <2>1
<1>10. IsPath(b.mem, u)
  <2>1. Len(u) \in 1 .. Len(b.mem) /\ u \in Seq(1 .. Len(b.mem))
    <3>1. m + 1 \in 1 .. (L + 1)
      BY <1>1, <1>2
    <3> QED BY <1>3, <1>5, <3>1
  <2>2. ASSUME NEW k \in 1 .. (m + 1)
        PROVE  b.mem[u[k]].next = IF k = m + 1 THEN NULL ELSE u[k + 1]
    <3>1. CASE k = m + 1
      <4>1. a.mem[q].next = NULL
        BY <1>1, <1>4, <1>6
      <4> QED BY <1>3, <1>5, <3>1, <4>1
    <3>2. CASE k = m
      <4>1. k # m + 1 /\ u[k] = q /\ u[k + 1] = L + 1
        BY <1>1, <1>5, <1>6, <3>2
      <4> QED BY <1>3, <4>1
    <3>3. CASE k \in 1 .. (m - 1)
      <4>1. k \in 1 .. m /\ k # m /\ k + 1 \in 1 .. m /\ k # m + 1
        BY <1>1, <3>3
      <4> QED BY <1>4, <1>5, <1>8, <4>1
    <3> QED BY <1>1, <3>1, <3>2, <3>3
  <2> QED BY <1>5, <2>1, <2>2 DEF IsPath
<1>11. \A k \in 1 .. (m + 1) : b.mem[u[k]].prev = IF k = 1 THEN NULL ELSE u[k - 1]
  <2> SUFFICES ASSUME NEW k \in 1 .. (m + 1)
               PROVE  b.mem[u[k]].prev = IF k = 1 THEN NULL ELSE u[k - 1]
    OBVIOUS
  <2>1. CASE k = m + 1
    <3>1. k # 1 /\ k - 1 = m /\ u[k - 1] = q /\ u[k] = L + 1
      BY <1>1, <1>5, <1>6, <2>1
    <3> QED BY <1>3, <3>1
  <2>2. CASE k \in 1 .. m
    <3>1. b.mem[w[k]].prev = a.mem[w[k]].prev
      BY <1>3, <1>6, <1>8, <2>2
    <3>2. k # 1 => k - 1 \in 1 .. m
      BY <1>1, <2>2
    <3> QED BY <1>2, <1>5, <2>2, <3>1, <3>2
  <2> QED BY <1>1, <2>1, <2>2
<1>12. v \in Seq(1 .. Len(b.mem)) /\ IsNodes(b.mem, a.oob_list.first, v)
  <2>1. v \in Seq(1 .. Len(b.mem))
    <3>1. \A k \in 1 .. Len(v) : v[k] \in 1 .. (L + 1)
      BY <1>1
    <3> QED BY <1>2, <1>3, <3>1
  <2>2. CASE Len(v) = 0
    <3>1. a.oob_list.first = NULL
      BY <1>1, <2>2
    <3> QED BY <1>2, <2>1, <3>1 DEF IsNodes
  <2>3. CASE Len(v) # 0
    <3>1. IsPath(a.mem, v) /\ a.oob_list.first = v[1] /\ a.oob_list.first # NULL
      BY <1>1, <2>3
    <3>2. Len(v) \in 1 .. Len(b.mem)
      BY <1>1, <1>2, <1>3, <2>3
    <3>3. \A k \in 1 .. Len(v) : b.mem[v[k]].next = IF k = Len(v) THEN NULL ELSE v[k + 1]
      BY <1>9, <3>1 DEF IsPath
    <3>4. IsPath(b.mem, v)
      BY <2>1, <3>2, <3>3 DEF IsPath
    <3> QED BY <2>1, <3>1, <3>4 DEF IsNodes
  <2> QED BY <2>1, <2>2, <2>3
<1>13. Apart(u, v)
  <2>1. \A i, j \in 1 .. (m + 1) : u[i] = u[j] => i = j
    <3> SUFFICES ASSUME NEW i \in 1 .. (m + 1), NEW j \in 1 .. (m + 1), u[i] = u[j] PROVE i = j
      OBVIOUS
    <3>1. \A k \in 1 .. m : u[k] \in 1 .. L
      BY <1>1, <1>5
    <3>2. CASE i \in 1 .. m /\ j \in 1 .. m
      <4>1. w[i] = w[j]
        BY <1>5, <3>2
      <4> QED BY <1>2, <3>2, <4>1 DEF Apart, m
    <3>3. CASE ~(i \in 1 .. m /\ j \in 1 .. m)
      <4>1. \A k \in 1 .. (m + 1) : k \in 1 .. m \/ k = m + 1
        BY <1>1
      <4>2. L + 1 \notin 1 .. L
        BY <1>1
      <4> QED BY <1>5, <3>1, <3>3, <4>1, <4>2
    <3> QED BY <3>2, <3>3
  <2>2. \A i \in 1 .. (m + 1), j \in 1 .. Len(v) : u[i] # v[j]
    <3>1. ASSUME NEW i \in 1 .. m, NEW j \in 1 .. Len(v) PROVE u[i] # v[j]
      BY <1>2, <1>5 DEF Apart, m
    <3>2. ASSUME NEW j \in 1 .. Len(v) PROVE u[m + 1] # v[j]
      BY <1>1, <1>5
    <3>3. \A i \in 1 .. (m + 1) : i \in 1 .. m \/ i = m + 1
      BY <1>1
    <3> QED BY <3>1, <3>2, <3>3
  <2> QED BY <1>2, <1>5, <2>1, <2>2 DEF Apart
<1>14. b.list.first = u[1]
  BY <1>1, <1>2, <1>5
<1>15. Lists(b, u, v)
  <2>1. Len(u) + Len(v) = Len(b.mem)
    <3>1. m \in Nat /\ Len(v) \in Nat /\ Len(u) = m + 1 /\ m + Len(v) = L /\ Len(b.mem) = L + 1
      BY <1>1, <1>2, <1>3, <1>5
    <3> QED BY ONLY <3>1
  <2> QED BY <1>2, <1>5, <1>10, <1>11, <1>12, <1>13, <1>14, <2>1 DEF Lists
<1>16. ASSUME NEW s, Holds(a.mem, w, v, s) PROVE Holds(b.mem, u, v, s)
  <2> DEFINE t == RegionsOf(a.mem, w)
             z == RegionsOf(b.mem, u)
             x == RegionsOf(a.mem, v)
             y == RegionsOf(b.mem, v)
  <2>1. Placed(t) /\ Len(t) = m /\ \A k \in 1 .. m : t[k] = a.mem[w[k]]
    BY <1>1, <1>2, NodesFacts, ZenonT(60) DEF m, L
  <2>2. Placed(z) /\ Len(z) = m + 1 /\ \A k \in 1 .. (m + 1) : z[k] = b.mem[u[k]]
    BY <1>3, <1>5, NodesFacts
  <2>3. Placed(x) /\ Len(x) = Len(v) /\ \A k \in 1 .. Len(v) : x[k] = a.mem[v[k]]
    BY <1>2, NodesFacts DEF L
  <2>4. Placed(y) /\ Len(y) = Len(v) /\ \A k \in 1 .. Len(v) : y[k] = b.mem[v[k]]
    BY <1>12, NodesFacts
  <2> HIDE DEF t, z, x, y
  <2>5. SumLen(y) = SumLen(x) /\ Blocks(y) = Blocks(x)
    BY <1>9, <2>3, <2>4, SameRegions
  <2>6. SumLen(z) = SumLen(t) /\ Blocks(z) = Blocks(t)
    <3>1. \A k \in 1 .. (m - 1) : Alike(z[k], t[k])
      <4>1. \A k \in 1 .. (m - 1) : k \in 1 .. m /\ k \in 1 .. (m + 1) /\ k # m
        BY <1>1
      <4> QED BY <1>5, <1>8, <2>1, <2>2, <4>1, SMTT(60) DEF Alike
    <3>2. t[m] = a.mem[q] /\ z[m] = b.mem[q] /\ z[m + 1] = b.mem[L + 1]
      <4>1. m \in 1 .. (m + 1) /\ m + 1 \in 1 .. (m + 1)
        BY <1>1
      <4> QED BY <1>1, <1>5, <1>6, <2>1, <2>2, <4>1
    <3>3. /\ z[m].block = t[m].block
          /\ z[m + 1].block = t[m].block + z[m].len
          /\ z[m + 1].len = t[m].len - z[m].len
      BY <1>3, <3>2
    <3> QED BY <1>1, <2>1, <2>2, <3>1, <3>3, SplitSums
  <2> QED BY <1>16, <2>5, <2>6 DEF Holds, t, z, x, y
<1>17. Len(u) > 1 /\ u[Len(u)] = L + 1 /\ u[Len(u) - 1] = q
  BY <1>1, <1>5, <1>6
<1> QED BY <1>15, <1>16, <1>17 DEF u, L, q, m

\* A list without its last node but one.
Without(w) == [k \in 1 .. (Len(w) - 1) |-> IF k = Len(w) - 1 THEN w[k + 1] ELSE w[k]]

\* What moving that node does to the pointers.
LEMMA MovedPointers ==
    ASSUME NEW c, NEW w, NEW v, Lists(c, w, v), Len(w) > 1, NEW d,
           IsMoved(c, d, w[Len(w) - 1])
    PROVE  LET m == Len(w) - 1
               from == w[m]
           IN  /\ d.mem[w[m + 1]].next = NULL
               /\ \A k \in 1 .. (m - 1) :
                     d.mem[w[k]].next = IF k = m - 1 THEN w[m + 1] ELSE w[k + 1]
               /\ d.mem[w[m + 1]].prev = IF m = 1 THEN NULL ELSE w[m - 1]
               /\ \A k \in 1 .. (m - 1) : d.mem[w[k]].prev = IF k = 1 THEN NULL ELSE w[k - 1]
               /\ d.mem[from].next = NULL
               /\ \A j \in 1 .. Len(v) : d.mem[v[j]].next = IF j = Len(v) THEN from ELSE v[j + 1]
               /\ \A q \in 1 .. Len(c.mem) : d.mem[q].next \in 0 .. Len(c.mem)
<1> DEFINE L == Len(c.mem)
           m == Len(w) - 1
           from == w[m]
<1>1. /\ L \in Nat /\ Len(w) \in Nat /\ Len(v) \in Nat
      /\ \A k \in 1 .. Len(w) : w[k] \in 1 .. L
      /\ \A k \in 1 .. Len(v) : v[k] \in 1 .. L
      /\ IF Len(v) = 0 THEN c.oob_list.first = NULL
         ELSE c.oob_list.first = v[1] /\ c.oob_list.first # NULL /\ IsPath(c.mem, v)
  BY ListsFacts
<1>2. /\ Linked(c.mem) /\ IsPath(c.mem, w)
      /\ \A k \in 1 .. Len(w) : c.mem[w[k]].prev = IF k = 1 THEN NULL ELSE w[k - 1]
      /\ Len(v) > 0 => c.oob_list.last = v[Len(v)]
      /\ Apart(w, v)
  BY DEF Lists
<1>3. \A k \in 1 .. Len(w) : c.mem[w[k]].next = IF k = Len(w) THEN NULL ELSE w[k + 1]
  BY <1>2 DEF IsPath
<1>4. m \in Nat /\ m > 0 /\ Len(w) = m + 1
  BY <1>1
<1>5. \A q \in 1 .. L : d.mem[q].next = NextMoved(c, from, q) /\ d.mem[q].prev = PrevMoved(c, from, q)
  BY DEF IsMoved
<1>6. \A q \in 1 .. L : c.mem[q].next \in 0 .. L
  BY <1>2, LinkedFacts
<1> HIDE DEF L, m
<1>7. m \in 1 .. (m + 1) /\ m + 1 \in 1 .. (m + 1) /\ from \in 1 .. L /\ w[m + 1] \in 1 .. L
      /\ \A k \in 1 .. (m - 1) : k \in 1 .. (m + 1) /\ k # m /\ k # m + 1
  BY <1>1, <1>4
<1>8. c.mem[from].next = w[m + 1] /\ c.mem[from].prev = (IF m = 1 THEN NULL ELSE w[m - 1])
      /\ c.mem[w[m + 1]].next = NULL
  BY <1>2, <1>3, <1>4, <1>7
<1>9. \A i, j \in 1 .. (m + 1) : w[i] = w[j] => i = j
  BY <1>2, <1>4 DEF Apart
<1>10. \A i \in 1 .. (m + 1), j \in 1 .. Len(v) : w[i] # v[j]
  BY <1>2, <1>4 DEF Apart
<1>11. \A k \in 1 .. (m - 1) : w[k] # from /\ w[k] # w[m + 1]
  BY <1>7, <1>9
<1>12. w[m + 1] # from
  BY <1>4, <1>7, <1>9
<1>13. 0 \notin 1 .. L
  BY <1>1
<1>14. \A i \in 1 .. (m + 1) : c.oob_list.first # NULL => w[i] # c.oob_list.last
  <2> SUFFICES ASSUME NEW i \in 1 .. (m + 1), c.oob_list.first # NULL PROVE w[i] # c.oob_list.last
    OBVIOUS
  <2>1. Len(v) # 0 /\ Len(v) \in 1 .. Len(v) /\ c.oob_list.last = v[Len(v)]
    BY <1>1, <1>2
  <2> QED BY <1>10, <2>1
<1>15. \A i \in 1 .. (m + 1) : w[i] # from =>
          NextMoved(c, from, w[i]) = IF w[i] = c.mem[from].prev THEN c.mem[from].next ELSE c.mem[w[i]].next
  BY <1>14 DEF NextMoved, NextWithout
<1>16. d.mem[w[m + 1]].next = NULL
  <2>1. w[m + 1] # c.mem[from].prev
    <3>1. CASE m = 1
      BY <1>7, <1>8, <1>13, <3>1 DEF NULL
    <3>2. CASE m # 1
      <4>1. m - 1 \in 1 .. (m + 1) /\ m - 1 # m + 1
        BY <1>4, <3>2
      <4> QED BY <1>7, <1>8, <1>9, <3>2, <4>1
    <3> QED BY <3>1, <3>2
  <2> QED BY <1>5, <1>7, <1>8, <1>12, <1>15, <2>1
<1>17. ASSUME NEW k \in 1 .. (m - 1)
       PROVE  d.mem[w[k]].next = IF k = m - 1 THEN w[m + 1] ELSE w[k + 1]
  <2>1. k \in 1 .. (m + 1) /\ w[k] \in 1 .. L /\ w[k] # from /\ m # 1 /\ m - 1 \in 1 .. (m + 1)
        /\ k # m + 1
    BY <1>1, <1>4, <1>7, <1>11
  <2>2. c.mem[w[k]].next = w[k + 1]
    BY <1>3, <1>4, <2>1
  <2>3. w[k] = c.mem[from].prev <=> k = m - 1
    BY <1>8, <1>9, <2>1
  <2> QED BY <1>5, <1>8, <1>15, <2>1, <2>2, <2>3
<1>18. d.mem[w[m + 1]].prev = IF m = 1 THEN NULL ELSE w[m - 1]
  BY <1>5, <1>7, <1>8, <1>12 DEF PrevMoved, PrevWithout
<1>19. ASSUME NEW k \in 1 .. (m - 1) PROVE d.mem[w[k]].prev = IF k = 1 THEN NULL ELSE w[k - 1]
  <2>1. k \in 1 .. (m + 1) /\ w[k] \in 1 .. L /\ w[k] # from /\ w[k] # w[m + 1]
    BY <1>1, <1>4, <1>7, <1>11
  <2>2. PrevMoved(c, from, w[k]) = c.mem[w[k]].prev
    BY <1>8, <2>1 DEF PrevMoved, PrevWithout
  <2> QED BY <1>2, <1>4, <1>5, <2>1, <2>2
<1>20. d.mem[from].next = NULL
  BY <1>5, <1>7 DEF NextMoved, NextWithout
<1>21. ASSUME NEW j \in 1 .. Len(v) PROVE d.mem[v[j]].next = IF j = Len(v) THEN from ELSE v[j + 1]
  <2>1. /\ c.oob_list.first # NULL /\ IsPath(c.mem, v) /\ c.oob_list.last = v[Len(v)]
        /\ Len(v) \in 1 .. Len(v) /\ v[j] \in 1 .. L
    BY <1>1, <1>2
  <2>2. v[j] # from
    BY <1>7, <1>10
  <2>3. CASE j = Len(v)
    <3>1. NextMoved(c, from, v[j]) = from
      BY <2>1, <2>2, <2>3 DEF NextMoved
    <3> QED BY <1>5, <2>1, <2>3, <3>1
  <2>4. CASE j # Len(v)
    <3>1. v[j] # c.oob_list.last
      BY <1>2, <2>1, <2>4 DEF Apart
    <3>2. v[j] # c.mem[from].prev
      <4>1. CASE m = 1
        BY <1>8, <1>13, <2>1, <4>1 DEF NULL
      <4>2. CASE m # 1
        <5>1. m - 1 \in 1 .. (m + 1)
          BY <1>4, <4>2
        <5> QED BY <1>8, <1>10, <4>2, <5>1
      <4> QED BY <4>1, <4>2
    <3>3. NextMoved(c, from, v[j]) = c.mem[v[j]].next
      BY <2>2, <3>1, <3>2 DEF NextMoved, NextWithout
    <3>4. c.mem[v[j]].next = v[j + 1]
      BY <2>1, <2>4 DEF IsPath
    <3> QED BY <1>5, <2>1, <2>4, <3>3, <3>4
  <2> QED BY <2>3, <2>4
<1>22. ASSUME NEW q \in 1 .. L PROVE d.mem[q].next \in 0 .. L
  <2>1. NextMoved(c, from, q) \in {from, NULL, c.mem[from].next, c.mem[q].next}
    BY DEF NextMoved, NextWithout
  <2>2. NULL \in 0 .. L /\ from \in 0 .. L
    BY <1>1, <1>7, SMTT(60) DEF NULL
  <2> QED BY <1>5, <1>6, <1>7, <2>1, <2>2
<1> QED BY <1>16, <1>17, <1>18, <1>19, <1>20, <1>21, <1>22 DEF m, L

\* The last region but one goes to the other list.
LEMMA MoveLists ==
    ASSUME NEW c, NEW w, NEW v, Lists(c, w, v), Len(w) > 1, NEW d,
           IsMoved(c, d, w[Len(w) - 1])
    PROVE  LET u == Without(w)
               z == Append(v, w[Len(w) - 1])
           IN  /\ Lists(d, u, z) /\ Len(u) \in 1 .. Len(u) /\ u[Len(u)] = w[Len(w)]
               /\ \A s : Holds(c.mem, w, v, s) => Holds(d.mem, u, z, s)
<1> DEFINE L == Len(c.mem)
           m == Len(w) - 1
           n == Len(v)
           from == w[m]
           u == Without(w)
           z == Append(v, from)
<1>1. /\ L \in Nat /\ Len(w) \in Nat /\ n \in Nat
      /\ w \in Seq(1 .. L)
      /\ \A k \in 1 .. Len(w) : w[k] \in 1 .. L
      /\ \A k \in 1 .. n : v[k] \in 1 .. L
      /\ IF n = 0 THEN c.oob_list.first = NULL
         ELSE c.oob_list.first = v[1] /\ c.oob_list.first # NULL /\ IsPath(c.mem, v)
  BY ListsFacts
<1>2. /\ c \in Allocation /\ Linked(c.mem) /\ IsPath(c.mem, w) /\ c.list.first = w[1]
      /\ n > 0 => c.oob_list.last = v[n]
      /\ c.oob_list.iter = c.oob_list.first
      /\ v \in Seq(1 .. L) /\ Len(w) + n = L
      /\ Apart(w, v)
  BY DEF Lists
<1>3. m \in Nat /\ m > 0 /\ Len(w) = m + 1 /\ m + 1 + n = L
  BY <1>1, <1>2
<1>4. /\ d \in Allocation /\ Len(d.mem) = L
      /\ \A q \in 1 .. L : d.mem[q].block = c.mem[q].block /\ d.mem[q].len = c.mem[q].len
      /\ d.list.first = (IF c.list.first = from THEN c.mem[from].next ELSE c.list.first)
      /\ c.oob_list.first = NULL =>
            d.oob_list = [first |-> from, last |-> from, iter |-> from, partial_iter |-> 0]
      /\ c.oob_list.first # NULL =>
            /\ d.oob_list.first = c.oob_list.first /\ d.oob_list.last = from
            /\ d.oob_list.iter = c.oob_list.iter
  BY DEF IsMoved
<1>5. /\ d.mem[w[m + 1]].next = NULL
      /\ \A k \in 1 .. (m - 1) : d.mem[w[k]].next = IF k = m - 1 THEN w[m + 1] ELSE w[k + 1]
      /\ d.mem[w[m + 1]].prev = IF m = 1 THEN NULL ELSE w[m - 1]
      /\ \A k \in 1 .. (m - 1) : d.mem[w[k]].prev = IF k = 1 THEN NULL ELSE w[k - 1]
      /\ d.mem[from].next = NULL
      /\ \A j \in 1 .. n : d.mem[v[j]].next = IF j = n THEN from ELSE v[j + 1]
      /\ \A q \in 1 .. L : d.mem[q].next \in 0 .. L
  BY MovedPointers
<1>6. u = [k \in 1 .. m |-> IF k = m THEN w[k + 1] ELSE w[k]]
  BY DEF Without
<1> HIDE DEF L, m, n, u
<1>7. /\ m \in 1 .. (m + 1) /\ m + 1 \in 1 .. (m + 1) /\ from \in 1 .. L
      /\ \A k \in 1 .. (m - 1) : k \in 1 .. (m + 1) /\ k # m /\ k \in 1 .. m
      /\ \A k \in 1 .. m : k = m \/ k \in 1 .. (m - 1)
      /\ m \in 1 .. m /\ 1 \in 1 .. m
  BY <1>1, <1>3
<1>8. /\ u \in Seq(1 .. L) /\ Len(u) = m /\ u[m] = w[m + 1]
      /\ \A k \in 1 .. (m - 1) : u[k] = w[k]
  <2>1. \A k \in 1 .. m : (IF k = m THEN w[k + 1] ELSE w[k]) \in 1 .. L
    BY <1>1, <1>3, <1>7
  <2>2. u \in Seq(1 .. L) /\ Len(u) = m
    BY <1>3, <1>6, <2>1
  <2>3. u[m] = w[m + 1] /\ \A k \in 1 .. (m - 1) : u[k] = w[k]
    BY <1>6, <1>7
  <2> QED BY <2>2, <2>3
<1>9. /\ z \in Seq(1 .. L) /\ Len(z) = n + 1 /\ z[n + 1] = from
      /\ \A j \in 1 .. n : z[j] = v[j]
  BY <1>1, <1>2, <1>7 DEF n
<1> HIDE DEF from, z
<1>10. Linked(d.mem)
  <2>1. d.mem \in Seq(Region)
    BY <1>4, AllocationFields
  <2>2. \A q \in 1 .. L : d.mem[q].next <= L
    BY <1>1, <1>5
  <2> QED BY <1>4, <2>1, <2>2 DEF Linked
<1>11. IsPath(d.mem, u)
  <2>1. Len(u) \in 1 .. Len(d.mem)
    BY <1>1, <1>3, <1>4, <1>8
  <2>2. ASSUME NEW k \in 1 .. m PROVE d.mem[u[k]].next = IF k = m THEN NULL ELSE u[k + 1]
    <3>1. CASE k = m
      BY <1>5, <1>8, <3>1
    <3>2. CASE k = m - 1
      <4>1. k \in 1 .. (m - 1) /\ k # m /\ k + 1 = m
        BY <1>7, <3>2
      <4> QED BY <1>5, <1>8, <3>2, <4>1
    <3>3. CASE k \in 1 .. (m - 2)
      <4>1. k \in 1 .. (m - 1) /\ k # m /\ k # m - 1 /\ k + 1 \in 1 .. (m - 1)
        BY <1>3, <3>3
      <4> QED BY <1>5, <1>8, <4>1
    <3>4. k = m \/ k = m - 1 \/ k \in 1 .. (m - 2)
      BY <1>3
    <3> QED BY <3>1, <3>2, <3>3, <3>4
  <2> QED BY <1>4, <1>8, <2>1, <2>2 DEF IsPath
<1>12. \A k \in 1 .. m : d.mem[u[k]].prev = IF k = 1 THEN NULL ELSE u[k - 1]
  <2> SUFFICES ASSUME NEW k \in 1 .. m PROVE d.mem[u[k]].prev = IF k = 1 THEN NULL ELSE u[k - 1]
    OBVIOUS
  <2>1. k # 1 => k - 1 \in 1 .. (m - 1)
    BY <1>3
  <2>2. CASE k = m
    BY <1>5, <1>8, <2>1, <2>2
  <2>3. CASE k \in 1 .. (m - 1)
    BY <1>5, <1>8, <2>1, <2>3
  <2> QED BY <1>7, <2>2, <2>3
<1>13. d.list.first = u[1]
  <2>1. CASE m = 1
    <3>1. c.list.first = from
      BY <1>2, <2>1 DEF from
    <3>2. c.mem[from].next = w[m + 1]
      <4>1. c.mem[w[m]].next = IF m = m + 1 THEN NULL ELSE w[m + 1]
        BY <1>2, <1>3, <1>7 DEF IsPath
      <4> QED BY <1>3, <4>1 DEF from
    <3> QED BY <1>4, <1>8, <2>1, <3>1, <3>2
  <2>2. CASE m # 1
    <3>1. 1 \in 1 .. (m - 1) /\ 1 \in 1 .. (m + 1)
      BY <1>3, <2>2
    <3>2. w[1] # from
      BY <1>2, <1>3, <1>7, <2>2, <3>1 DEF Apart, from
    <3> QED BY <1>2, <1>4, <1>8, <3>1, <3>2
  <2> QED BY <2>1, <2>2
<1>14. /\ d.oob_list.first = z[1] /\ d.oob_list.first # NULL
       /\ d.oob_list.last = from /\ d.oob_list.iter = d.oob_list.first
  <2>1. CASE n = 0
    <3>1. d.oob_list = [first |-> from, last |-> from, iter |-> from, partial_iter |-> 0]
      BY <1>1, <1>4, <2>1
    <3>2. z[1] = from
      BY <1>9, <2>1
    <3>3. from # NULL
      BY <1>1, <1>7 DEF NULL
    <3> QED BY <3>1, <3>2, <3>3
  <2>2. CASE n # 0
    <3>1. 1 \in 1 .. n
      BY <1>1, <2>2
    <3> QED BY <1>1, <1>2, <1>4, <1>9, <2>2, <3>1
  <2> QED BY <2>1, <2>2
<1>15. IsPath(d.mem, z)
  <2>1. Len(z) \in 1 .. Len(d.mem)
    <3>1. n \in Nat /\ m \in Nat /\ m > 0 /\ m + 1 + n = L /\ Len(z) = n + 1 /\ Len(d.mem) = L
      BY <1>1, <1>3, <1>4, <1>9
    <3> QED BY ONLY <3>1
  <2>2. ASSUME NEW j \in 1 .. (n + 1) PROVE d.mem[z[j]].next = IF j = n + 1 THEN NULL ELSE z[j + 1]
    <3>1. CASE j = n + 1
      BY <1>5, <1>9, <3>1
    <3>2. CASE j = n
      <4>1. j \in 1 .. n /\ j # n + 1
        BY <1>1, <3>2
      <4> QED BY <1>5, <1>9, <3>2, <4>1
    <3>3. CASE j \in 1 .. (n - 1)
      <4>1. j \in 1 .. n /\ j # n /\ j # n + 1 /\ j + 1 \in 1 .. n
        BY <1>1, <3>3
      <4> QED BY <1>5, <1>9, <4>1
    <3>4. j = n + 1 \/ j = n \/ j \in 1 .. (n - 1)
      BY <1>1
    <3> QED BY <3>1, <3>2, <3>3, <3>4
  <2> QED BY <1>4, <1>9, <2>1, <2>2 DEF IsPath
<1>16. Apart(u, z)
  <2>1. /\ \A i, j \in 1 .. (m + 1) : w[i] = w[j] => i = j
        /\ \A i, j \in 1 .. n : v[i] = v[j] => i = j
        /\ \A i \in 1 .. (m + 1), j \in 1 .. n : w[i] # v[j]
    BY <1>2, <1>3 DEF Apart, n
  <2>2. \A i \in 1 .. m : \E k \in 1 .. (m + 1) : u[i] = w[k] /\ k # m /\ (k = i \/ (i = m /\ k = m + 1))
    <3> SUFFICES ASSUME NEW i \in 1 .. m
                 PROVE  \E k \in 1 .. (m + 1) : u[i] = w[k] /\ k # m /\ (k = i \/ (i = m /\ k = m + 1))
      OBVIOUS
    <3>1. m # m + 1
      BY <1>3
    <3>2. CASE i = m
      <4>1. u[i] = w[m + 1] /\ m + 1 \in 1 .. (m + 1)
        BY <1>7, <1>8, <3>2
      <4> QED BY <3>1, <3>2, <4>1
    <3>3. CASE i \in 1 .. (m - 1)
      <4>1. u[i] = w[i] /\ i \in 1 .. (m + 1) /\ i # m
        BY <1>7, <1>8, <3>3
      <4> QED BY <4>1
    <3> QED BY <1>7, <3>2, <3>3
  <2>3. \A i, j \in 1 .. m : u[i] = u[j] => i = j
    <3> SUFFICES ASSUME NEW i \in 1 .. m, NEW j \in 1 .. m, u[i] = u[j] PROVE i = j
      OBVIOUS
    <3>1. PICK k \in 1 .. (m + 1) : u[i] = w[k] /\ k # m /\ (k = i \/ (i = m /\ k = m + 1))
      BY <2>2
    <3>2. PICK l \in 1 .. (m + 1) : u[j] = w[l] /\ l # m /\ (l = j \/ (j = m /\ l = m + 1))
      BY <2>2
    <3>3. k = l
      BY <2>1, <3>1, <3>2
    <3>4. m + 1 \notin 1 .. m
      BY <1>3
    <3> QED BY <3>1, <3>2, <3>3, <3>4
  <2>4. \A j \in 1 .. (n + 1) : j = n + 1 \/ j \in 1 .. n
    BY <1>1
  <2>5. \A j \in 1 .. n : z[j] # from
    BY <1>7, <1>9, <2>1 DEF from
  <2>6. \A i, j \in 1 .. (n + 1) : z[i] = z[j] => i = j
    <3> SUFFICES ASSUME NEW i \in 1 .. (n + 1), NEW j \in 1 .. (n + 1), z[i] = z[j] PROVE i = j
      OBVIOUS
    <3>1. CASE i \in 1 .. n /\ j \in 1 .. n
      <4>1. v[i] = v[j]
        BY <1>9, <3>1
      <4> QED BY <2>1, <3>1, <4>1
    <3>2. CASE ~(i \in 1 .. n /\ j \in 1 .. n)
      BY <1>9, <2>4, <2>5, <3>2
    <3> QED BY <3>1, <3>2
  <2>7. \A i \in 1 .. m, j \in 1 .. (n + 1) : u[i] # z[j]
    <3> SUFFICES ASSUME NEW i \in 1 .. m, NEW j \in 1 .. (n + 1) PROVE u[i] # z[j]
      OBVIOUS
    <3>1. PICK k \in 1 .. (m + 1) : u[i] = w[k] /\ k # m
      BY <2>2
    <3>2. CASE j \in 1 .. n
      BY <1>9, <2>1, <3>1, <3>2
    <3>3. CASE j = n + 1
      BY <1>7, <1>9, <2>1, <3>1, <3>3 DEF from
    <3> QED BY <2>4, <3>2, <3>3
  <2> QED BY <1>8, <1>9, <2>3, <2>6, <2>7 DEF Apart
<1>17. Lists(d, u, z)
  <2>1. Len(u) + Len(z) = Len(d.mem)
    <3>1. n \in Nat /\ m \in Nat /\ m + 1 + n = L /\ Len(u) = m /\ Len(z) = n + 1 /\ Len(d.mem) = L
      BY <1>1, <1>3, <1>4, <1>8, <1>9
    <3> QED BY ONLY <3>1
  <2>2. d.oob_list.last = z[Len(z)]
    BY <1>9, <1>14
  <2>3. IsNodes(d.mem, d.oob_list.first, z)
    BY <1>14, <1>15 DEF IsNodes
  <2>4. z \in Seq(1 .. Len(d.mem))
    BY <1>4, <1>9
  <2> QED BY <1>4, <1>8, <1>10, <1>11, <1>12, <1>13, <1>14, <1>16, <2>1, <2>2, <2>3, <2>4 DEF Lists
<1>18. ASSUME NEW s, Holds(c.mem, w, v, s) PROVE Holds(d.mem, u, z, s)
  <2> DEFINE t == RegionsOf(c.mem, w)
             r == RegionsOf(d.mem, u)
             x == RegionsOf(c.mem, v)
             y == RegionsOf(d.mem, z)
  <2>1. Placed(t) /\ Len(t) = m + 1 /\ \A k \in 1 .. (m + 1) : t[k] = c.mem[w[k]]
    <3>1. Placed(t) /\ Len(t) = Len(w) /\ \A k \in 1 .. Len(w) : t[k] = c.mem[w[k]]
      BY <1>1, <1>2, NodesFacts DEF L
    <3> HIDE DEF t
    <3> QED BY <1>3, <3>1
  <2>2. Placed(r) /\ Len(r) = m /\ \A k \in 1 .. m : r[k] = d.mem[u[k]]
    BY <1>4, <1>8, <1>10, NodesFacts, SMTT(60)
  <2>3. Placed(x) /\ Len(x) = n /\ \A k \in 1 .. n : x[k] = c.mem[v[k]]
    BY <1>2, NodesFacts DEF L, n
  <2>4. Placed(y) /\ Len(y) = n + 1 /\ \A k \in 1 .. (n + 1) : y[k] = d.mem[z[k]]
    BY <1>4, <1>9, <1>10, NodesFacts
  <2> HIDE DEF t, r, x, y
  <2>5. \A q \in 1 .. L : Alike(d.mem[q], c.mem[q])
    BY <1>4 DEF Alike
  <2>6. \A k \in 1 .. (m - 1) : Alike(r[k], t[k])
    <3> SUFFICES ASSUME NEW k \in 1 .. (m - 1) PROVE Alike(r[k], t[k])
      OBVIOUS
    <3>1. k \in 1 .. m /\ k \in 1 .. (m + 1)
      BY <1>7
    <3>2. w[k] \in 1 .. L
      BY <1>1, <1>3, <3>1
    <3>3. r[k] = d.mem[w[k]] /\ t[k] = c.mem[w[k]]
      BY <1>8, <2>1, <2>2, <3>1
    <3> QED BY <2>5, <3>2, <3>3
  <2>7. Alike(r[m], t[m + 1])
    <3>1. w[m + 1] \in 1 .. L
      BY <1>1, <1>3, <1>7
    <3>2. r[m] = d.mem[w[m + 1]] /\ t[m + 1] = c.mem[w[m + 1]]
      BY <1>7, <1>8, <2>1, <2>2
    <3> QED BY <2>5, <3>1, <3>2
  <2>8. \A k \in 1 .. n : Alike(y[k], x[k])
    <3> SUFFICES ASSUME NEW k \in 1 .. n PROVE Alike(y[k], x[k])
      OBVIOUS
    <3>1. k \in 1 .. (n + 1) /\ v[k] \in 1 .. L
      BY <1>1 DEF n
    <3>2. y[k] = d.mem[v[k]] /\ x[k] = c.mem[v[k]]
      BY <1>9, <2>3, <2>4, <3>1
    <3> QED BY <2>5, <3>1, <3>2
  <2>9. Alike(y[n + 1], t[m])
    <3>1. n + 1 \in 1 .. (n + 1)
      BY <1>1
    <3>2. y[n + 1] = d.mem[from] /\ t[m] = c.mem[from]
      BY <1>7, <1>9, <2>1, <2>4, <3>1 DEF from
    <3> QED BY <1>7, <2>5, <3>2
  <2>10. /\ SumLen(r) + SumLen(y) = SumLen(t) + SumLen(x)
         /\ Blocks(r) \cup Blocks(y) = Blocks(t) \cup Blocks(x)
    <3>1. /\ Placed(t) /\ Placed(r) /\ Len(r) > 0 /\ Len(t) = Len(r) + 1
          /\ \A k \in 1 .. (Len(r) - 1) : Alike(r[k], t[k])
          /\ Alike(r[Len(r)], t[Len(r) + 1])
          /\ Placed(x) /\ Placed(y) /\ Len(y) = Len(x) + 1
          /\ \A k \in 1 .. Len(x) : Alike(y[k], x[k])
          /\ Alike(y[Len(x) + 1], t[Len(r)])
      BY <1>3, <2>1, <2>2, <2>3, <2>4, <2>6, <2>7, <2>8, <2>9
    <3> QED BY ONLY <3>1, MoveSums, SMTT(120)
  <2> QED BY <1>18, <2>10 DEF Holds, t, r, x, y
<1> QED BY <1>3, <1>7, <1>8, <1>17, <1>18 DEF u, z, from, m

\* Positions do not matter.
LEMMA ListsSame ==
    ASSUME NEW a, NEW w, NEW v, Lists(a, w, v), NEW b, SameLists(a, b)
    PROVE  Lists(b, w, v) /\ \A s : Holds(a.mem, w, v, s) => Holds(b.mem, w, v, s)
BY DEF Lists, SameLists

LEMMA PartialReset ==
    ASSUME NEW b \in Allocation
    PROVE  SameLists(b, [b EXCEPT !.list.partial_iter = 0])
<1> DEFINE l == [b.list EXCEPT !.partial_iter = 0]
           d == [b EXCEPT !.list.partial_iter = 0]
<1>1. b.list \in List
  BY AllocationFields
<1>2. l \in List /\ l.first = b.list.first /\ l.last = b.list.last /\ l.iter = b.list.iter
  BY <1>1 DEF List
<1>3. d.mem = b.mem /\ d.oob_list = b.oob_list /\ d.list = l
  BY DEF Allocation
<1>4. d \in Allocation
  BY <1>2 DEF Allocation
<1> HIDE DEF d, l
<1>5. SameLists(b, d)
  BY <1>2, <1>3, <1>4 DEF SameLists
<1> QED BY <1>5 DEF d

\* What holds the blocks still does.
Preserves(a, w, v, b, u, z) == Lists(b, u, z) /\ \A s : Holds(a.mem, w, v, s) => Holds(b.mem, u, z, s)

AtEnd(a, w) == a.list.iter = w[Len(w)]

\* Nothing is lost, and there is a block behind the iterator.
SplitOpen(a, w, v, b) ==
    \E u : Preserves(a, w, v, b, u, v) /\ AtEnd(b, u) /\ 0 < b.mem[b.list.iter].len

\* First the list is split where the iterator is.
LEMMA SplitHere ==
    ASSUME NEW a, NEW w, NEW v, Lists(a, w, v), AtEnd(a, w),
           a.list.partial_iter < a.mem[a.list.iter].len
    PROVE  SplitOpen(a, w, v, do_split_allocation(a, a.list.partial_iter).alloc)
<1> DEFINE p == a.list.partial_iter
           q == w[Len(w)]
           x == <<q>>
           r == do_split_allocation(a, p)
           b == r.alloc
           u == Append(w, Len(a.mem) + 1)
<1>1. /\ a \in Allocation /\ Linked(a.mem) /\ IsPath(a.mem, w)
  BY DEF Lists
<1>2. IsPath(a.mem, x) /\ Len(x) = 1 /\ x[1] = q
  BY <1>1, LastNode
<1>3. p \in Nat /\ a.list.iter = q /\ q \in 1 .. Len(a.mem) /\ a.mem[q].len \in Nat
      /\ p < a.mem[q].len
  BY <1>1, AllocationFields, LinkedFacts, ListsFacts DEF AtEnd
<1> HIDE DEF q, x, p
<1>4. /\ p = 0 => b = a
      /\ p > 0 => /\ b \in Allocation /\ Linked(b.mem) /\ IsSplit(a.mem, b.mem, q, p)
                  /\ b.list.first = a.list.first /\ b.list.iter = Len(a.mem) + 1
                  /\ b.oob_list = a.oob_list
  <2>1. a.list.iter = x[1] /\ p < a.mem[x[1]].len
    BY <1>2, <1>3
  <2> HIDE DEF Allocation, List
  <2> QED BY <1>1, <1>2, <1>3, <2>1, SplitFirst
<1> HIDE DEF b, r
<1>5. ASSUME p = 0 PROVE SplitOpen(a, w, v, b)
  <2>1. Preserves(a, w, v, b, w, v) /\ AtEnd(b, w) /\ 0 < b.mem[b.list.iter].len
    BY <1>3, <1>4, <1>5 DEF Preserves, AtEnd
  <2> QED BY <2>1 DEF SplitOpen
<1>6. ASSUME p > 0 PROVE SplitOpen(a, w, v, b)
  <2>1. /\ Lists(b, u, v) /\ u[Len(u)] = Len(a.mem) + 1
        /\ \A s : Holds(a.mem, w, v, s) => Holds(b.mem, u, v, s)
    <3>1. IsSplit(a.mem, b.mem, w[Len(w)], p)
      BY <1>4, <1>6 DEF q
    <3> HIDE DEF IsSplit
    <3> QED BY <1>3, <1>4, <1>6, <3>1, SplitLists
  <2> HIDE DEF u
  <2>2. AtEnd(b, u)
    BY <1>4, <1>6, <2>1 DEF AtEnd
  <2>3. b.mem[Len(a.mem) + 1].len = a.mem[q].len - p
    BY <1>4, <1>6 DEF IsSplit
  <2>4. 0 < b.mem[b.list.iter].len
    BY <1>3, <1>4, <1>6, <2>3, SMTT(60)
  <2>5. Preserves(a, w, v, b, u, v)
    BY <2>1 DEF Preserves
  <2> QED BY <2>2, <2>4, <2>5 DEF SplitOpen
<1>7. p = 0 \/ p > 0
  BY <1>3
<1>8. SplitOpen(a, w, v, b)
  BY <1>5, <1>6, <1>7
<1> QED BY <1>8 DEF b, r, p

\* Then one block is split off and moved, unless it is the last.
OneSplit(b) == [do_split_allocation(b, 1) EXCEPT !.alloc.list.partial_iter = 0]

Taken(r) == IF r.reg = NULL THEN r.alloc ELSE MoveToOob(r.alloc, r.reg)

Ready(d) == d.list.partial_iter = 0 /\ 0 < d.mem[d.list.iter].len

LEMMA TakeOne ==
    ASSUME NEW b, NEW w, NEW v, Lists(b, w, v), AtEnd(b, w), 0 < b.mem[b.list.iter].len
    PROVE  \E u, z : /\ Preserves(b, w, v, Taken(OneSplit(b)), u, z) /\ AtEnd(Taken(OneSplit(b)), u)
                     /\ OneSplit(b).reg # NULL => Ready(Taken(OneSplit(b)))
<1> DEFINE q == w[Len(w)]
           x == <<q>>
           s == do_split_allocation(b, 1)
           r == [s EXCEPT !.alloc.list.partial_iter = 0]
           d == IF r.reg = NULL THEN r.alloc ELSE MoveToOob(r.alloc, r.reg)
           L == Len(b.mem)
<1>1. /\ b \in Allocation /\ Linked(b.mem) /\ IsPath(b.mem, w)
  BY DEF Lists
<1>2. IsPath(b.mem, x) /\ Len(x) = 1 /\ x[1] = q
  BY <1>1, LastNode
<1>3. b.list.iter = q /\ q \in 1 .. L /\ L \in Nat /\ b.mem[q].len \in Nat /\ 0 < b.mem[q].len
  BY <1>1, LinkedFacts, ListsFacts DEF AtEnd
<1>4. b.list.iter = x[1]
  BY <1>2, <1>3
<1> HIDE DEF q, x, Allocation, List
<1>5. CASE b.mem[q].len = 1
  <2> DEFINE e == [b EXCEPT !.list.partial_iter = 0]
  <2>1. s = [alloc |-> b, reg |-> NULL]
    <3>1. 1 \in Nat /\ 1 >= b.mem[x[1]].len
      BY <1>2, <1>5
    <3> QED BY <1>1, <1>2, <1>4, <3>1, SplitBehind
  <2>2. r = [alloc |-> e, reg |-> NULL]
    <3>1. \A i, j : [[alloc |-> i, reg |-> j] EXCEPT !.alloc.list.partial_iter = 0]
                       = [alloc |-> [i EXCEPT !.list.partial_iter = 0], reg |-> j]
      OBVIOUS
    <3> HIDE DEF s
    <3> QED BY <2>1, <3>1
  <2>3. SameLists(b, e)
    BY <1>1, PartialReset
  <2> HIDE DEF e, r
  <2>4. r.reg = NULL /\ r.alloc = e
    BY <2>2
  <2>5. d = e
    BY <2>4
  <2>6. Preserves(b, w, v, d, w, v) /\ AtEnd(d, w)
    BY <2>3, <2>5, ListsSame DEF Preserves, AtEnd, SameLists
  <2> HIDE DEF d
  <2> QED BY <2>4, <2>6 DEF d, r, s, OneSplit, Taken
<1>6. CASE b.mem[q].len # 1
  <2> DEFINE c == WithIter(s.alloc, L + 1, 0)
             u == Append(w, L + 1)
             z == Append(v, q)
  <2>1. /\ r = [alloc |-> c, reg |-> q]
        /\ c \in Allocation /\ Linked(c.mem) /\ IsSplit(b.mem, c.mem, q, 1)
        /\ c.list.first = b.list.first /\ c.list.iter = L + 1
        /\ c.list.partial_iter = 0 /\ c.oob_list = b.oob_list
        /\ q \in 1 .. Len(c.mem) /\ c.mem[q].next = c.list.iter
        /\ MoveToOob(c, q) = Moved(c, q)
    <3>1. 1 < b.mem[x[1]].len
      BY <1>2, <1>3, <1>6
    <3>2. x[1] = q
      BY <1>2
    <3> HIDE DEF r, s, c
    <3> QED BY <1>1, <1>2, <1>4, <3>1, <3>2, ReserveAtIter, SMTT(60) DEF r, s, c
  <2> HIDE DEF r, c
  <2>2. r.reg = q /\ r.alloc = c /\ q # NULL
    BY <1>3, <2>1 DEF NULL
  <2>3. d = Moved(c, q)
    BY <2>1, <2>2
  <2>4. /\ Lists(c, u, v) /\ u[Len(u)] = L + 1 /\ Len(u) > 1 /\ u[Len(u) - 1] = q
        /\ \A i : Holds(b.mem, w, v, i) => Holds(c.mem, u, v, i)
    <3>1. IsSplit(b.mem, c.mem, w[Len(w)], 1) /\ 1 \in Nat
      BY <2>1 DEF q
    <3> HIDE DEF IsSplit
    <3> QED BY <2>1, <3>1, SplitLists DEF q
  <2> HIDE DEF u, d
  <2>5. IsMoved(c, d, q)
    BY <2>1, <2>3, MovedFacts
  <2> DEFINE y == Without(u)
  <2>6. /\ Lists(d, y, z) /\ y[Len(y)] = L + 1
        /\ \A i : Holds(c.mem, u, v, i) => Holds(d.mem, y, z, i)
    <3>1. IsMoved(c, d, u[Len(u) - 1])
      BY <2>4, <2>5
    <3> HIDE DEF IsMoved
    <3> QED BY <2>4, <3>1, MoveLists
  <2> HIDE DEF y, z
  <2>7. d.list.iter = L + 1 /\ d.list.partial_iter = 0
    BY <2>1, <2>5 DEF IsMoved
  <2>8. d.mem[L + 1].len = b.mem[q].len - 1
    <3>1. Len(c.mem) = L + 1 /\ c.mem[L + 1].len = b.mem[q].len - 1
      BY <2>1 DEF IsSplit
    <3>2. L + 1 \in 1 .. Len(c.mem)
      BY <1>3, <3>1
    <3> QED BY <2>5, <3>1, <3>2 DEF IsMoved
  <2>9. 0 < d.mem[d.list.iter].len
    BY <1>3, <1>6, <2>7, <2>8
  <2>10. Preserves(b, w, v, d, y, z) /\ AtEnd(d, y) /\ Ready(d)
    BY <2>4, <2>6, <2>7, <2>9 DEF Preserves, AtEnd, Ready
  <2>11. d = Taken(OneSplit(b))
    BY DEF d, r, s, OneSplit, Taken
  <2> QED BY <2>10, <2>11
<1> QED BY <1>5, <1>6

\* A pointer block is reserved at the iterator.
LEMMA ReserveOne ==
    ASSUME NEW a, NEW w, NEW v, Lists(a, w, v), AtEnd(a, w),
           a.list.partial_iter < a.mem[a.list.iter].len
    PROVE  \E u, z : /\ Preserves(a, w, v, reserve_oob_blocks(a, 1).alloc, u, z)
                     /\ AtEnd(reserve_oob_blocks(a, 1).alloc, u)
                     /\ ~reserve_oob_blocks(a, 1).failed => Ready(reserve_oob_blocks(a, 1).alloc)
<1> DEFINE b == do_split_allocation(a, a.list.partial_iter).alloc
           s == OneSplit(b)
           d == Taken(s)
<1>1. reserve_oob_blocks(a, 1) = [failed |-> s.reg = NULL, alloc |-> d]
  BY ZenonT(60) DEF reserve_oob_blocks, split_allocation, OneSplit, Taken
<1>2. PICK x : Preserves(a, w, v, b, x, v) /\ AtEnd(b, x) /\ 0 < b.mem[b.list.iter].len
  BY SplitHere DEF SplitOpen
<1> HIDE DEF b
<1>3. Lists(b, x, v)
  BY <1>2 DEF Preserves
<1>4. PICK u, z : Preserves(b, x, v, d, u, z) /\ AtEnd(d, u) /\ (s.reg # NULL => Ready(d))
  BY <1>2, <1>3, TakeOne
<1> HIDE DEF d, s
<1>5. Preserves(a, w, v, d, u, z)
  BY <1>2, <1>4 DEF Preserves
<1>6. reserve_oob_blocks(a, 1).alloc = d
  BY <1>1
<1>7. ASSUME s.reg = NULL PROVE reserve_oob_blocks(a, 1).failed
  <2>1. (s.reg = NULL) = TRUE
    BY <1>7
  <2>2. reserve_oob_blocks(a, 1) = [failed |-> TRUE, alloc |-> d]
    BY <1>1, <2>1, Zenon
  <2> QED BY <2>2
<1> QED BY <1>4, <1>5, <1>6, <1>7

\* Room at the iterator, in the last region of the list, for pointer blocks.
Open(a, w) == AtEnd(a, w) /\ a.list.partial_iter < a.mem[a.list.iter].len

\* In such lists the walks of the code come to an end.
LEMMA ReadableLists ==
    ASSUME NEW a, NEW w, NEW v, Lists(a, w, v), a.list.iter \in {w[1], w[Len(w)]}
    PROVE  Readable(a)
<1>1. a \in Allocation /\ Linked(a.mem) /\ IsPath(a.mem, w) /\ a.oob_list.iter = a.oob_list.first
  BY DEF Lists
<1>2. PICK u : IsPath(a.mem, u) /\ u[1] = w[Len(w)]
  <2> DEFINE u == <<w[Len(w)]>>
  <2>1. IsPath(a.mem, u) /\ u[1] = w[Len(w)]
    BY <1>1, LastNode
  <2> HIDE DEF u
  <2> QED BY <2>1
<1>3. Chained(a.mem, a.list.iter)
  BY <1>1, <1>2 DEF Chained
<1>4. Chained(a.mem, a.oob_list.iter)
  <2>1. IsNodes(a.mem, a.oob_list.first, v)
    BY DEF Lists
  <2> QED BY <1>1, <2>1 DEF IsNodes, Chained
<1> QED BY <1>1, <1>3, <1>4 DEF Readable

\* Passing blocks of the last region.
LEMMA AdvanceAtEnd ==
    ASSUME NEW a, NEW w, NEW v, Lists(a, w, v), AtEnd(a, w), NEW n \in Nat
    PROVE  LET b == advance_blocks(a, n).alloc IN
           Preserves(a, w, v, b, w, v) /\ AtEnd(b, w) /\ (Open(a, w) => Open(b, w))
<1> DEFINE b == advance_blocks(a, n).alloc
<1>1. Readable(a)
  BY ReadableLists DEF AtEnd
<1>2. SameLists(a, b) /\ b.list.partial_iter = advance_list_ptr(a, a.list, n).partial
  BY <1>1, AdvancedBlocks
<1> HIDE DEF b
<1>3. Preserves(a, w, v, b, w, v) /\ AtEnd(b, w)
  BY <1>2, ListsSame DEF Preserves, AtEnd, SameLists
<1>4. ASSUME Open(a, w) PROVE Open(b, w)
  <2>1. PICK u : IsPath(a.mem, u) /\ Len(u) = 1 /\ u[1] = a.list.iter
    <3> DEFINE u == <<w[Len(w)]>>
    <3>1. IsPath(a.mem, u) /\ Len(u) = 1 /\ u[1] = w[Len(w)]
      BY LastNode DEF Lists
    <3> HIDE DEF u
    <3> QED BY <3>1 DEF AtEnd
  <2>2. /\ a \in Allocation /\ Linked(a.mem) /\ a.list \in List /\ Chained(a.mem, a.list.iter)
        /\ a.list.partial_iter < a.mem[a.list.iter].len
    BY <1>1, <1>4, AllocationFields DEF Readable, Open
  <2>3. advance_list_ptr(a, a.list, n).partial < a.mem[a.list.iter].len
    BY <2>1, <2>2, AdvancedFacts
  <2> QED BY <1>2, <1>3, <2>3 DEF Open, SameLists
<1> QED BY <1>3, <1>4 DEF b

\* An allocation of one region.
LEMMA SingleList ==
    ASSUME NEW s \in Seq(Placement), Len(s) = 1, s[1].len > 0
    PROVE  \E w, v : LET a == allocate_blocks(s) IN
                     Lists(a, w, v) /\ Holds(a.mem, w, v, s) /\ Open(a, w)
<1> DEFINE a == allocate_blocks(s)
           w == [k \in 1 .. Len(s) |-> k]
           v == <<>>
<1>1. /\ a \in Allocation /\ Linked(a.mem) /\ Len(a.mem) = 1
      /\ a.mem[1].block = s[1].block /\ a.mem[1].len = s[1].len /\ a.mem[1].prev = 0
      /\ a.list = [first |-> 1, last |-> 1, iter |-> 1, partial_iter |-> 0]
      /\ a.oob_list = EmptyList
      /\ IsPath(a.mem, w) /\ Len(w) = 1 /\ w[1] = 1
  <2>1. Len(s) > 0 /\ 1 \in 1 .. Len(s)
    OBVIOUS
  <2>2. /\ a \in Allocation /\ Linked(a.mem) /\ Len(a.mem) = Len(s)
        /\ \A k \in 1 .. Len(s) : /\ a.mem[k].block = s[k].block /\ a.mem[k].len = s[k].len
                                  /\ a.mem[k].prev = k - 1
        /\ a.list = [first |-> 1, last |-> 1, iter |-> 1, partial_iter |-> 0]
        /\ a.oob_list = EmptyList
        /\ IsPath(a.mem, w) /\ Len(w) = Len(s) /\ w[1] = 1
    BY <2>1, AllocatedList
  <2> HIDE DEF a, w
  <2> QED BY <2>1, <2>2
<1> HIDE DEF a, w
<1>2. Lists(a, w, v)
  <2>1. v \in Seq(1 .. Len(a.mem)) /\ Len(v) = 0
    OBVIOUS
  <2>2. IsNodes(a.mem, a.oob_list.first, v) /\ a.oob_list.iter = a.oob_list.first
    BY <1>1 DEF IsNodes, EmptyList
  <2>3. Apart(w, v)
    BY <1>1, <2>1 DEF Apart
  <2>4. a.list.first = w[1] /\ \A k \in 1 .. Len(w) : a.mem[w[k]].prev = IF k = 1 THEN NULL ELSE w[k - 1]
    BY <1>1 DEF NULL
  <2> HIDE DEF v
  <2> QED BY <1>1, <2>1, <2>2, <2>3, <2>4 DEF Lists
<1>3. Holds(a.mem, w, v, s)
  <2> DEFINE t == RegionsOf(a.mem, w)
             e == RegionsOf(a.mem, v)
  <2>1. v \in Seq(1 .. Len(a.mem)) /\ Len(v) = 0 /\ w \in Seq(1 .. Len(a.mem))
    BY <1>1 DEF IsPath
  <2>2. Measured(e) /\ Len(e) = 0
    BY <1>1, <2>1, NodesFacts
  <2>3. SumLen(e) = 0 /\ Blocks(e) = {}
    BY <2>2, NoRegions
  <2>4. Placed(t) /\ Len(t) = 1 /\ t[1] = a.mem[1]
    BY <1>1, <2>1, NodesFacts
  <2>5. Placed(s)
    BY PlacementsArePlaced
  <2>6. SumLen(t) = SumLen(s) /\ Blocks(t) = Blocks(s)
    <3>1. Len(t) = Len(s) /\ \A k \in 1 .. Len(s) : t[k].len = s[k].len /\ t[k].block = s[k].block
      BY <1>1, <2>4
    <3> HIDE DEF t
    <3> QED BY <2>4, <2>5, <3>1, SameRegions
  <2>7. SumLen(s) \in Nat
    BY <2>5, SumFacts DEF Placed
  <2> HIDE DEF t, e
  <2>8. SumLen(t) + SumLen(e) = SumLen(s) /\ Blocks(t) \cup Blocks(e) = Blocks(s)
    BY <2>3, <2>6, <2>7
  <2> QED BY <2>8 DEF Holds, t, e
<1>4. Open(a, w)
  BY <1>1 DEF Open, AtEnd
<1> HIDE DEF v
<1> QED BY <1>2, <1>3, <1>4 DEF a

\* As long as the memory and the ends of the lists stay, so do the blocks.
LEMMA KeepsSame ==
    ASSUME ListsKeepBlocks, alloc'.mem = alloc.mem, alloc'.list.first = alloc.list.first,
           alloc'.oob_list.first = alloc.oob_list.first, regions' = regions,
           inode.header.entries = 0, inode'.header.entries = 0
    PROVE  ListsKeepBlocks'
<1>1. /\ BlocksFrom(alloc', alloc'.list.first) = BlocksFrom(alloc, alloc.list.first)
      /\ BlocksFrom(alloc', alloc'.oob_list.first) = BlocksFrom(alloc, alloc.oob_list.first)
  BY SameBlocks
<1>2. Returned' = {} /\ Returned = {}
  BY DEF Returned
<1>3. SumLen(regions') = SumLen(regions) /\ Blocks(regions') = Blocks(regions)
  OBVIOUS
<1> QED BY <1>1, <1>2, <1>3 DEF ListsKeepBlocks

\* The blocks are on the two lists.
OneRegion ==
    /\ SumLen(regions) \in Nat /\ inode.header.entries = 0
    /\ \E w, v : Lists(alloc, w, v) /\ Holds(alloc.mem, w, v, regions)

LEMMA OneRegionKeeps == OneRegion => ListsKeepBlocks
<1> SUFFICES ASSUME OneRegion PROVE ListsKeepBlocks
  OBVIOUS
<1>1. PICK w, v : Lists(alloc, w, v) /\ Holds(alloc.mem, w, v, regions)
  BY DEF OneRegion
<1>2. IsNodes(alloc.mem, alloc.list.first, w)
  <2>1. IsPath(alloc.mem, w) /\ alloc.list.first = w[1]
    BY <1>1 DEF Lists
  <2>2. w[1] # NULL
    BY <1>1, ListsFacts DEF NULL
  <2> QED BY <2>1, <2>2 DEF IsNodes
<1>3. Linked(alloc.mem) /\ IsNodes(alloc.mem, alloc.oob_list.first, v)
  BY <1>1 DEF Lists
<1>4. SumLen(regions) \in Nat /\ Returned = {}
  BY DEF OneRegion, Returned
<1> QED BY <1>1, <1>2, <1>3, <1>4, HoldingLists

LEMMA OneRegionStays == OneRegion' => ListsKeepBlocks'
BY OneRegionKeeps, PTL

IndSteps == {"reserve", "reserving", "attach", "attaching", "link_backing", "ind_done"}


\* An allocation of one region: until the pointer blocks are all reserved, the two
\* lists are as Lists says; afterwards they stay as they are, and are only read.
SingleInv ==
    /\ SumLen(regions) \in Nat
    /\ pc \in {"reserve", "reserving"} =>
          \E w, v : Lists(alloc, w, v) /\ Holds(alloc.mem, w, v, regions) /\ Open(alloc, w)
    /\ pc = "reserving" => todo \in Seq(Reserves)
    /\ pc = "attaching" => todo \in Seq(Calls)
    /\ pc \in {"attach", "attaching"} => Readable(alloc)
    /\ pc = "link_backing" => /\ alloc \in Allocation /\ Linked(alloc.mem)
                              /\ alloc.list.iter <= Len(alloc.mem)
    /\ pc \in {"attach", "attaching", "link_backing", "ind_done"} => ListsKeepBlocks

KeptInv ==
    /\ pc \in ExtentSteps \cup IndSteps \cup {"idle", "failed", "overrun"}
    /\ pc \in {"failed", "overrun"} => BlocksKept
    /\ pc \in IndSteps => inode.header.entries = 0 /\ Len(regions) \in {1, 2}
    /\ pc \in IndSteps \ {"ind_done"} => inode = NewInode
    /\ pc \in IndSteps \ {"link_backing", "ind_done"} => block_len \in Nat
    /\ pc \in IndSteps /\ Len(regions) = 1 => SingleInv
    /\ \E X : tables \in Seq(X)

LEMMA AllocateIndirectKept ==
    ASSUME ExtentInv, KeptInv, NEW n \in FileBlocks, NEW tail \in Tails, allocate_indirect(n, tail)
    PROVE  KeptInv'
<1>1. /\ pc = "idle" /\ TakeBlocks(n, n * BlockSize - tail) /\ pc' = "reserve"
      /\ inode' = inode /\ tables' = tables
  BY DEF allocate_indirect, indirectVars
<1>2. n \in Nat /\ n > 0
  BY PointerFacts
<1>3. /\ regions' \in Seq(Placement) /\ Len(regions') \in {1, 2} /\ regions'[1].len > 0
      /\ SumLen(regions)' = n + indirect_blocks_needed(n)
      /\ alloc' = allocate_blocks(regions') /\ len' = n * BlockSize - tail
  BY <1>1, <1>2, TakenFacts
<1>4. block_len' \in Nat
  BY <1>2, <1>3, FileFacts DEF block_len
<1>5. inode' = NewInode /\ inode'.header.entries = 0
  BY <1>1 DEF ExtentInv, IdleInv, NewInode, NoHeader
<1>6. ASSUME Len(regions') = 1 PROVE SingleInv'
  <2>1. PICK w, v : /\ Lists(allocate_blocks(regions'), w, v)
                    /\ Holds(allocate_blocks(regions').mem, w, v, regions')
                    /\ Open(allocate_blocks(regions'), w)
    BY <1>3, <1>6, SingleList
  <2>2. SumLen(regions)' \in Nat
    <3>1. indirect_blocks_needed(n) \in Nat
      BY <1>2, NeededFacts
    <3>2. SumLen(regions)' = n + indirect_blocks_needed(n) /\ n \in Nat
      BY <1>2, <1>3
    <3> QED BY ONLY <3>1, <3>2
  <2>3. Lists(alloc', w, v) /\ Holds(alloc'.mem, w, v, regions') /\ Open(alloc', w)
    BY <1>3, <2>1
  <2> QED BY <1>1, <2>2, <2>3 DEF SingleInv
<1> QED BY <1>1, <1>3, <1>4, <1>5, <1>6 DEF KeptInv, IndSteps

LEMMA AllocateDataKept ==
    ASSUME ExtentInv, KeptInv, allocate_data_indirect
    PROVE  KeptInv'
<1>1. /\ pc = "idle" /\ TakeBlocks(BlockSize, BlockSize) /\ pc' = "link_backing"
      /\ inode' = inode /\ tables' = tables
  BY DEF allocate_data_indirect, indirectVars
<1>2. BlockSize \in Nat /\ BlockSize > 0
  BY SizeFacts
<1>3. /\ regions' \in Seq(Placement) /\ Len(regions') \in {1, 2} /\ regions'[1].len > 0
      /\ SumLen(regions)' = BlockSize + indirect_blocks_needed(BlockSize)
      /\ alloc' = allocate_blocks(regions')
  BY <1>1, <1>2, TakenFacts
<1>4. inode' = NewInode /\ inode'.header.entries = 0
  BY <1>1 DEF ExtentInv, IdleInv, NewInode, NoHeader
<1>5. ASSUME Len(regions') = 1 PROVE SingleInv'
  <2>1. PICK w, v : /\ Lists(allocate_blocks(regions'), w, v)
                    /\ Holds(allocate_blocks(regions').mem, w, v, regions')
                    /\ Open(allocate_blocks(regions'), w)
    BY <1>3, <1>5, SingleList
  <2>2. SumLen(regions)' \in Nat
    <3>1. indirect_blocks_needed(BlockSize) \in Nat
      BY <1>2, NeededFacts
    <3>2. SumLen(regions)' = BlockSize + indirect_blocks_needed(BlockSize) /\ BlockSize \in Nat
      BY <1>2, <1>3
    <3> QED BY ONLY <3>1, <3>2
  <2>3. Lists(alloc', w, v) /\ Holds(alloc'.mem, w, v, regions') /\ AtEnd(alloc', w)
    BY <1>3, <2>1 DEF Open
  <2>4. OneRegion'
    BY <1>4, <2>2, <2>3 DEF OneRegion
  <2>5. ListsKeepBlocks'
    BY <2>4, OneRegionStays
  <2>6. alloc' \in Allocation /\ Linked(alloc'.mem)
    BY <2>3 DEF Lists
  <2>7. alloc'.list.iter <= Len(alloc'.mem)
    <3>1. w[Len(w)] \in 1 .. Len(alloc'.mem) /\ Len(alloc'.mem) \in Nat
      BY <2>3, ListsFacts
    <3> QED BY <2>3, <3>1 DEF AtEnd
  <2> QED BY <1>1, <2>2, <2>5, <2>6, <2>7 DEF SingleInv
<1> QED BY <1>1, <1>3, <1>4, <1>5 DEF KeptInv, IndSteps

LEMMA LinkBackingKept ==
    ASSUME KeptInv, link_backing
    PROVE  KeptInv'
<1>1. /\ pc = "link_backing" /\ ~last_region(alloc) /\ alloc' = get_next_region(alloc)
      /\ regions' = regions /\ inode' = inode /\ tables' = tables /\ pc' = pc
  BY DEF link_backing, indirectVars
<1>2. inode.header.entries = 0
  BY <1>1 DEF KeptInv, IndSteps
<1>3. ASSUME Len(regions) = 1 PROVE SingleInv'
  <2>1. SingleInv
    BY <1>1, <1>3 DEF KeptInv, IndSteps
  <2>2. /\ alloc \in Allocation /\ Linked(alloc.mem) /\ alloc.list.iter <= Len(alloc.mem)
        /\ ListsKeepBlocks /\ SumLen(regions) \in Nat
    BY <1>1, <2>1 DEF SingleInv
  <2> DEFINE q == alloc.mem[alloc.list.iter].next
  <2>3. q \in Nat /\ q <= Len(alloc.mem)
    <3>1. Len(alloc.mem) \in Nat /\ alloc.list.iter \in Nat
      BY <2>2, LinkedFacts, AllocationFields
    <3>2. alloc.list.iter \in 1 .. Len(alloc.mem)
      BY <1>1, <2>2, <3>1 DEF last_region, NULL
    <3> QED BY <2>2, <3>1, <3>2, LinkedFacts
  <2>4. alloc' = WithIter(alloc, q, 0)
    BY <1>1 DEF get_next_region, WithIter
  <2> HIDE DEF q
  <2>5. IsIter(alloc, alloc', q, 0)
    BY <2>2, <2>3, <2>4, IterMoved
  <2>6. /\ alloc' \in Allocation /\ Linked(alloc'.mem) /\ alloc'.list.iter <= Len(alloc'.mem)
        /\ alloc'.mem = alloc.mem /\ alloc'.list.first = alloc.list.first
        /\ alloc'.oob_list.first = alloc.oob_list.first
    BY <2>2, <2>3, <2>5 DEF IsIter
  <2>7. ListsKeepBlocks'
    BY <1>1, <1>2, <2>2, <2>6, KeepsSame
  <2>8. SumLen(regions)' \in Nat
    BY <1>1, <2>2
  <2> QED BY <1>1, <2>6, <2>7, <2>8 DEF SingleInv
<1> QED BY <1>1, <1>3 DEF KeptInv, IndSteps

LEMMA LinkDoneKept ==
    ASSUME KeptInv, link_done
    PROVE  KeptInv'
<1>1. /\ pc = "link_backing" /\ alloc' = alloc /\ regions' = regions /\ tables' = tables
      /\ inode' = [inode EXCEPT !.i_blocks = BlockSize \div SectorSize]
      /\ pc' = "ind_done"
  BY DEF link_done, indirectVars
<1>2. inode = NewInode /\ inode.header.entries = 0
  BY <1>1 DEF KeptInv, IndSteps
<1>3. inode'.header.entries = 0
  BY <1>1, <1>2 DEF NewInode
<1>4. ASSUME Len(regions) = 1 PROVE SingleInv'
  <2>1. SumLen(regions) \in Nat /\ ListsKeepBlocks
    BY <1>1, <1>4 DEF KeptInv, SingleInv, IndSteps
  <2>2. ListsKeepBlocks'
    BY <1>1, <1>2, <1>3, <2>1, KeepsSame
  <2>3. SumLen(regions)' \in Nat
    BY <1>1, <2>1
  <2> QED BY <1>1, <2>2, <2>3 DEF SingleInv
<1> QED BY <1>1, <1>3, <1>4 DEF KeptInv, IndSteps

LEMMA ReserveKept ==
    ASSUME KeptInv, reserve
    PROVE  KeptInv'
<1> DEFINE d == advance_blocks(alloc, EXT4_NDIR_BLOCKS).alloc
<1>1. /\ pc = "reserve" /\ pc' = "reserving" /\ todo' = Tops(block_len)
      /\ alloc' = alloc \/ alloc' = d
      /\ regions' = regions /\ len' = len /\ inode' = inode /\ tables' = tables
  BY DEF reserve
<1>2. block_len' = block_len /\ block_len \in Nat
  BY <1>1 DEF block_len, KeptInv, IndSteps
<1> HIDE DEF d
<1>3. ASSUME Len(regions) = 1 PROVE SingleInv'
  <2>1. SingleInv
    BY <1>1, <1>3 DEF KeptInv, IndSteps
  <2>2. PICK w, v : Lists(alloc, w, v) /\ Holds(alloc.mem, w, v, regions) /\ Open(alloc, w)
    BY <1>1, <2>1 DEF SingleInv
  <2>3. Preserves(alloc, w, v, d, w, v) /\ Open(d, w)
    <3>1. EXT4_NDIR_BLOCKS \in Nat /\ AtEnd(alloc, w)
      BY <2>2, PointerFacts DEF Open
    <3>2. Preserves(alloc, w, v, d, w, v) /\ (Open(alloc, w) => Open(d, w))
      BY <2>2, <3>1, AdvanceAtEnd DEF d
    <3> QED BY <2>2, <3>2
  <2>4. Lists(alloc', w, v) /\ Holds(alloc'.mem, w, v, regions) /\ Open(alloc', w)
    BY <1>1, <2>2, <2>3 DEF Preserves
  <2>5. todo' \in Seq(Reserves)
    BY <1>1, <1>2, TopsFacts
  <2>6. SumLen(regions)' \in Nat /\ regions' = regions
    BY <1>1, <2>1 DEF SingleInv
  <2> QED BY <1>1, <2>4, <2>5, <2>6 DEF SingleInv
<1> QED BY <1>1, <1>2, <1>3 DEF KeptInv, IndSteps

\* What a step leaves on the lists when it finds no room.
LEMMA FailedKeeps ==
    ASSUME Len(regions') \in {1, 2}, inode'.header.entries = 0, pc' = "failed",
           Len(regions') = 1 => ListsKeepBlocks'
    PROVE  BlocksKept'
<1>1. CASE Len(regions') = 1
  BY <1>1 DEF BlocksKept
<1>2. CASE Len(regions') = 2
  <2>1. Len(regions') > 1 /\ pc' # "header"
    BY <1>2
  <2> QED BY <2>1 DEF BlocksKept
<1> QED BY <1>1, <1>2

LEMMA ReserveBlockKept ==
    ASSUME KeptInv, reserve_block
    PROVE  KeptInv'
<1> DEFINE t == Head(todo)
           taken == reserve_oob_blocks(alloc, 1)
           moved == IF t.level > 1 THEN taken ELSE advance_blocks(taken.alloc, t.n)
<1>1. /\ pc = "reserving" /\ todo # <<>> /\ alloc' = moved.alloc
      /\ todo' = (IF t.level > 1 THEN Parts(t.level - 1, t.n, 0) ELSE <<>>) \o Tail(todo)
      /\ pc' = IF taken.failed \/ moved.failed THEN "failed" ELSE pc
      /\ regions' = regions /\ len' = len /\ inode' = inode /\ tables' = tables
  BY DEF reserve_block
<1> HIDE DEF t, taken, moved
<1>2. block_len' = block_len /\ block_len \in Nat /\ Len(regions) \in {1, 2} /\ inode.header.entries = 0
  BY <1>1 DEF block_len, KeptInv, IndSteps
<1>3. ASSUME Len(regions) = 1 PROVE (pc' = "failed" => ListsKeepBlocks') /\ (pc' = "reserving" => SingleInv')
  <2>1. SingleInv
    BY <1>1, <1>3 DEF KeptInv, IndSteps
  <2>2. PICK w, v : Lists(alloc, w, v) /\ Holds(alloc.mem, w, v, regions) /\ Open(alloc, w)
    BY <1>1, <2>1 DEF SingleInv
  <2>3. /\ t \in Reserves /\ t.level \in 0 .. 3 /\ t.level > 0 /\ t.n \in Nat
        /\ Tail(todo) \in Seq(Reserves)
    <3>1. todo \in Seq(Reserves)
      BY <1>1, <2>1 DEF SingleInv
    <3>2. t \in Reserves /\ Tail(todo) \in Seq(Reserves)
      BY <1>1, <3>1 DEF t
    <3> QED BY <3>2, CallFacts DEF Reserves
  <2>4. PICK u, z : /\ Preserves(alloc, w, v, taken.alloc, u, z) /\ AtEnd(taken.alloc, u)
                    /\ ~taken.failed => Ready(taken.alloc)
    BY <2>2, ReserveOne DEF Open, taken
  <2>5. ~taken.failed => Open(taken.alloc, u)
    BY <2>4 DEF Ready, Open
  <2>6. Preserves(taken.alloc, u, z, moved.alloc, u, z) /\ (~taken.failed => Open(moved.alloc, u))
    <3>1. CASE t.level > 1
      <4>1. moved = taken
        BY <3>1 DEF moved
      <4> QED BY <2>4, <2>5, <4>1 DEF Preserves
    <3>2. CASE ~(t.level > 1)
      <4> DEFINE d == advance_blocks(taken.alloc, t.n).alloc
      <4>1. Lists(taken.alloc, u, z) /\ AtEnd(taken.alloc, u) /\ t.n \in Nat
        BY <2>3, <2>4 DEF Preserves
      <4>2. Preserves(taken.alloc, u, z, d, u, z) /\ (Open(taken.alloc, u) => Open(d, u))
        BY <4>1, AdvanceAtEnd
      <4>3. moved.alloc = d
        BY <3>2 DEF moved
      <4> QED BY <2>5, <4>2, <4>3
    <3> QED BY <3>1, <3>2
  <2>7. Lists(alloc', u, z) /\ Holds(alloc'.mem, u, z, regions) /\ (~taken.failed => Open(alloc', u))
    BY <1>1, <2>2, <2>4, <2>6 DEF Preserves
  <2>8. SumLen(regions)' \in Nat /\ regions' = regions /\ inode'.header.entries = 0
    BY <1>1, <1>2, <2>1 DEF SingleInv
  <2>9. ListsKeepBlocks'
    BY <2>7, <2>8, OneRegionStays DEF OneRegion
  <2>10. todo' \in Seq(Reserves)
    <3>1. CASE t.level > 1
      <4>1. t.level - 1 \in 1 .. 3
        BY <2>3, <3>1
      <4>2. Parts(t.level - 1, t.n, 0) \in Seq(Reserves)
        BY <2>3, <4>1, PartsFacts
      <4> QED BY <1>1, <2>3, <3>1, <4>2, ConcatProperties
    <3>2. CASE ~(t.level > 1)
      BY <1>1, <2>3, <3>2, ConcatProperties
    <3> QED BY <3>1, <3>2
  <2>11. pc' = "reserving" => ~taken.failed
    BY <1>1
  <2> QED BY <2>7, <2>8, <2>9, <2>10, <2>11 DEF SingleInv
<1>4. pc' = "failed" => BlocksKept'
  BY <1>1, <1>2, <1>3, FailedKeeps
<1>5. pc' \in {"failed", "reserving"} /\ inode = NewInode
  BY <1>1 DEF KeptInv, IndSteps
<1> QED BY <1>1, <1>2, <1>3, <1>4, <1>5 DEF KeptInv, IndSteps

\* The steps that rewind the list.
LEMMA ReserveDoneKept ==
    ASSUME KeptInv, reserve_done
    PROVE  KeptInv'
<1>1. /\ pc = "reserving" /\ pc' = "attach" /\ alloc' = rewind_alloc(alloc)
      /\ regions' = regions /\ len' = len /\ inode' = inode /\ tables' = tables
  BY DEF reserve_done, indirectVars
<1>2. block_len' = block_len /\ block_len \in Nat /\ inode.header.entries = 0
  BY <1>1 DEF block_len, KeptInv, IndSteps
<1>3. ASSUME Len(regions) = 1 PROVE SingleInv'
  <2>1. SingleInv
    BY <1>1, <1>3 DEF KeptInv, IndSteps
  <2>2. PICK w, v : Lists(alloc, w, v) /\ Holds(alloc.mem, w, v, regions)
    BY <1>1, <2>1 DEF SingleInv
  <2>3. alloc \in Allocation /\ alloc.list.first = w[1]
    BY <2>2 DEF Lists
  <2>4. IsIter(alloc, alloc', w[1], 0)
    BY <1>1, <2>3, Rewound
  <2>5. /\ alloc' \in Allocation /\ alloc'.mem = alloc.mem /\ alloc'.oob_list = alloc.oob_list
        /\ alloc'.list.first = alloc.list.first /\ alloc'.list.last = alloc.list.last
        /\ alloc'.list.iter = w[1]
    BY <2>4 DEF IsIter
  <2>6. Lists(alloc', w, v)
    BY <2>2, <2>5 DEF Lists
  <2>7. Readable(alloc')
    BY <2>5, <2>6, ReadableLists
  <2>8. SumLen(regions)' \in Nat /\ regions' = regions /\ inode'.header.entries = 0
    BY <1>1, <1>2, <2>1 DEF SingleInv
  <2>9. Holds(alloc'.mem, w, v, regions')
    BY <2>2, <2>5, <2>8
  <2>10. ListsKeepBlocks'
    BY <2>6, <2>8, <2>9, OneRegionStays DEF OneRegion
  <2> QED BY <1>1, <2>7, <2>8, <2>10 DEF SingleInv
<1> QED BY <1>1, <1>2, <1>3 DEF KeptInv, IndSteps

LEMMA FinishIndirectKept ==
    ASSUME KeptInv, finish_indirect
    PROVE  KeptInv'
<1>1. /\ pc = "attaching" /\ pc' = "ind_done" /\ alloc' = rewind_alloc(alloc)
      /\ \E i : inode' = [inode EXCEPT !.i_blocks = i]
      /\ regions' = regions /\ tables' = tables
  BY DEF finish_indirect, indirectVars
<1>2. inode.header.entries = 0 /\ inode = NewInode
  BY <1>1 DEF KeptInv, IndSteps
<1>3. inode'.header.entries = 0
  BY <1>1, <1>2 DEF NewInode
<1>4. ASSUME Len(regions) = 1 PROVE SingleInv'
  <2>1. SumLen(regions) \in Nat /\ ListsKeepBlocks /\ alloc \in Allocation /\ alloc.list.first \in Nat
    BY <1>1, <1>4, AllocationFields DEF KeptInv, SingleInv, IndSteps, Readable
  <2>2. IsIter(alloc, alloc', alloc.list.first, 0)
    BY <1>1, <2>1, Rewound
  <2>3. /\ alloc'.mem = alloc.mem /\ alloc'.list.first = alloc.list.first
        /\ alloc'.oob_list.first = alloc.oob_list.first
    BY <2>2 DEF IsIter
  <2>4. ListsKeepBlocks'
    BY <1>1, <1>2, <1>3, <2>1, <2>3, KeepsSame
  <2>5. SumLen(regions)' \in Nat
    BY <1>1, <2>1
  <2> QED BY <1>1, <2>4, <2>5 DEF SingleInv
<1> QED BY <1>1, <1>3, <1>4 DEF KeptInv, IndSteps

\* A step that attaches: it only moves positions.
LEMMA AttachingKept ==
    ASSUME KeptInv, pc \in {"attach", "attaching"}, pc' \in {"attaching", "failed"},
           regions' = regions, len' = len, inode' = inode, \E X : tables' \in Seq(X),
           SingleInv => SameLists(alloc, alloc') /\ Readable(alloc') /\ todo' \in Seq(Calls)
    PROVE  KeptInv'
<1>1. block_len' = block_len /\ block_len \in Nat /\ inode.header.entries = 0 /\ inode = NewInode
  BY DEF block_len, KeptInv, IndSteps
<1>2. Len(regions) \in {1, 2}
  BY DEF KeptInv, IndSteps
<1>3. ASSUME Len(regions) = 1 PROVE SingleInv' /\ ListsKeepBlocks'
  <2>1. SingleInv
    BY <1>3 DEF KeptInv, IndSteps
  <2>2. ListsKeepBlocks /\ SumLen(regions) \in Nat
    BY <2>1 DEF SingleInv
  <2>3. /\ alloc'.mem = alloc.mem /\ alloc'.list.first = alloc.list.first
        /\ alloc'.oob_list.first = alloc.oob_list.first
    BY <2>1 DEF SameLists
  <2>4. ListsKeepBlocks'
    BY <1>1, <2>2, <2>3, KeepsSame
  <2>5. SumLen(regions)' \in Nat
    BY <2>2
  <2>6. Readable(alloc') /\ todo' \in Seq(Calls)
    BY <2>1
  <2> QED BY <2>4, <2>5, <2>6 DEF SingleInv
<1>4. pc' = "failed" => BlocksKept'
  BY <1>1, <1>2, <1>3, FailedKeeps
<1> QED BY <1>1, <1>2, <1>3, <1>4 DEF KeptInv, IndSteps

LEMMA AttachDirectKept ==
    ASSUME KeptInv, attach_direct
    PROVE  KeptInv'
<1> DEFINE n == AtMost(block_len, EXT4_NDIR_BLOCKS)
<1>1. /\ pc = "attach" /\ pc' \in {"failed", "attaching"}
      /\ alloc' = advance_blocks(alloc, n).alloc
      /\ todo' = AttachCalls(block_len)
      /\ regions' = regions /\ len' = len /\ inode' = inode /\ tables' = tables
  BY DEF attach_direct
<1>2. block_len \in Nat
  BY <1>1 DEF KeptInv, IndSteps
<1>3. n \in Nat
  BY <1>2, PointerFacts DEF AtMost
<1> HIDE DEF n
<1>4. ASSUME SingleInv PROVE SameLists(alloc, alloc') /\ Readable(alloc') /\ todo' \in Seq(Calls)
  <2>1. Readable(alloc)
    BY <1>1, <1>4 DEF SingleInv
  <2>2. SameLists(alloc, alloc') /\ Readable(alloc')
    BY <1>1, <1>3, <2>1, AdvancedBlocks
  <2> QED BY <1>1, <1>2, <2>2, AttachCallsFacts
<1>5. \E X : tables' \in Seq(X)
  BY <1>1 DEF KeptInv
<1> QED BY <1>1, <1>4, <1>5, AttachingKept

LEMMA PassAgainKept ==
    ASSUME KeptInv, pass_again
    PROVE  KeptInv'
<1> DEFINE t == Head(todo)
<1>1. /\ pc = "attaching" /\ todo # <<>>
      /\ alloc' = advance_blocks(alloc, t.n).alloc
      /\ todo' = Tail(todo) /\ pc' \in {"failed", "attaching"}
      /\ regions' = regions /\ len' = len /\ inode' = inode /\ tables' = tables
  BY DEF pass_again
<1> HIDE DEF t
<1>2. ASSUME SingleInv PROVE SameLists(alloc, alloc') /\ Readable(alloc') /\ todo' \in Seq(Calls)
  <2>1. Readable(alloc) /\ todo \in Seq(Calls)
    BY <1>1, <1>2 DEF SingleInv
  <2>2. t \in Calls /\ todo' \in Seq(Calls)
    BY <1>1, <2>1 DEF t
  <2>3. t.n \in Nat
    BY <2>2, CallFacts
  <2>4. SameLists(alloc, alloc') /\ Readable(alloc')
    BY <1>1, <2>1, <2>3, AdvancedBlocks
  <2> QED BY <2>2, <2>4
<1>3. \E X : tables' \in Seq(X)
  BY <1>1 DEF KeptInv
<1> QED BY <1>1, <1>2, <1>3, AttachingKept

\* What was kept after one move is kept after two.
LEMMA SameListsTwice ==
    ASSUME NEW a, NEW b, NEW d, SameLists(a, b), SameLists(b, d)
    PROVE  SameLists(a, d)
BY DEF SameLists

LEMMA AttachBlockKept ==
    ASSUME KeptInv, attach_block
    PROVE  KeptInv'
<1> DEFINE t == Head(todo)
           block == get_oob_block(alloc, 0)
           next == advance_oob_blocks(alloc, 1)
           moved == IF t.level > 1 THEN next ELSE advance_blocks(next.alloc, t.n)
           table == [block |-> block, level |-> t.level,
                     map   |-> IF t.level > 1 THEN <<>> ELSE [k \in 1 .. t.n |-> get_block(alloc, k - 1)]]
           linked == [p \in DOMAIN tables |->
                        IF p = t.parent THEN [tables[p] EXCEPT !.map = Append(@, block)] ELSE tables[p]]
<1>1. /\ pc = "attaching" /\ todo # <<>> /\ t.level > 0 /\ alloc' = moved.alloc
      /\ tables' = Append(linked, table)
      /\ todo' = (IF t.level > 1 THEN Parts(t.level - 1, t.n, Len(tables')) ELSE <<>>) \o Tail(todo)
      /\ pc' = IF next.failed \/ moved.failed THEN "failed" ELSE pc
      /\ regions' = regions /\ len' = len /\ inode' = inode
  BY DEF attach_block
<1>2. /\ Len(tables') \in Nat /\ \E X : tables' \in Seq(X)
  <2>1. PICK Y : tables \in Seq(Y)
    BY DEF KeptInv
  <2> HIDE DEF table, block
  <2> DEFINE Z == {linked[p] : p \in 1 .. Len(tables)} \cup {table}
  <2>2. DOMAIN tables = 1 .. Len(tables) /\ Len(tables) \in Nat
    BY <2>1
  <2>3. linked \in [1 .. Len(tables) -> Z]
    BY <2>2
  <2> HIDE DEF linked
  <2>4. linked \in Seq(Z)
    BY <2>2, <2>3
  <2>5. table \in Z
    OBVIOUS
  <2> HIDE DEF Z
  <2>6. Append(linked, table) \in Seq(Z)
    BY <2>4, <2>5
  <2> QED BY <1>1, <2>6
<1> HIDE DEF t, next, moved, table, block, linked
<1>3. ASSUME SingleInv PROVE SameLists(alloc, alloc') /\ Readable(alloc') /\ todo' \in Seq(Calls)
  <2>1. Readable(alloc) /\ todo \in Seq(Calls)
    BY <1>1, <1>3 DEF SingleInv
  <2>2. t \in Calls /\ Tail(todo) \in Seq(Calls)
    BY <1>1, <2>1 DEF t
  <2>3. t.n \in Nat /\ t.level \in 0 .. 3
    BY <2>2, CallFacts
  <2>4. SameLists(alloc, next.alloc) /\ Readable(next.alloc)
    BY <2>1, AdvancedOob DEF next
  <2>5. SameLists(next.alloc, moved.alloc) /\ Readable(moved.alloc)
    <3>1. CASE t.level > 1
      BY <2>4, <3>1 DEF moved, SameLists, Readable
    <3>2. CASE ~(t.level > 1)
      <4> DEFINE d == advance_blocks(next.alloc, t.n).alloc
      <4>1. SameLists(next.alloc, d) /\ Readable(d)
        BY <2>3, <2>4, AdvancedBlocks
      <4> QED BY <3>2, <4>1 DEF moved
    <3> QED BY <3>1, <3>2
  <2>6. SameLists(alloc, alloc') /\ Readable(alloc')
    BY <1>1, <2>4, <2>5, SameListsTwice
  <2>7. todo' \in Seq(Calls)
    <3>1. CASE t.level > 1
      <4>1. t.level - 1 \in 1 .. 3
        BY <2>3, <3>1
      <4>2. Parts(t.level - 1, t.n, Len(tables')) \in Seq(Reserves)
        BY <1>2, <2>3, <4>1, PartsFacts
      <4>3. Parts(t.level - 1, t.n, Len(tables')) \in Seq(Calls)
        BY <4>2, CallFacts
      <4> QED BY <1>1, <2>2, <3>1, <4>3, ConcatProperties
    <3>2. CASE ~(t.level > 1)
      BY <1>1, <2>2, <3>2, ConcatProperties
    <3> QED BY <3>1, <3>2
  <2> QED BY <2>6, <2>7
<1>4. pc' \in {"attaching", "failed"}
  BY <1>1
<1> QED BY <1>1, <1>2, <1>3, <1>4, AttachingKept

LEMMA LayoutsKeep == ListsInv /\ Requested => ListsKeepBlocks
BY UsedKeeps

LEMMA LayoutsStay == ListsInv' /\ Requested' => ListsKeepBlocks'
BY LayoutsKeep, PTL

\* The operations of Extent.
LEMMA ExtentKept ==
    ASSUME ExtentInv, KeptInv, Next, tables' = tables
    PROVE  KeptInv'
<1>1. \E X : tables' \in Seq(X)
  BY DEF KeptInv
<1>2. ASSUME pc' \in ExtentSteps PROVE KeptInv'
  BY <1>1, <1>2 DEF KeptInv, ExtentSteps, IndSteps
<1>3. CASE allocate_fails
  <2>1. pc = "idle" /\ pc' = "failed" /\ alloc' = alloc /\ regions' = regions /\ inode' = inode
    BY <1>3 DEF allocate_fails
  <2>2. inode.header.entries = 0
    BY <2>1 DEF ExtentInv, IdleInv, NewInode, NoHeader
  <2>3. ListsKeepBlocks
    BY <2>1, IdleKeeps
  <2>4. ListsKeepBlocks'
    BY <2>1, <2>2, <2>3, KeepsSame
  <2> QED BY <1>1, <2>1, <2>4 DEF KeptInv, ExtentSteps, IndSteps, BlocksKept
<1>4. CASE use_leaf
  <2>1. pc' \in {"failed", "fill"}
    BY <1>4 DEF use_leaf
  <2>2. ListsKeepBlocks'
    BY <1>4, UseLeafInv, LayoutsStay
  <2> QED BY <1>1, <2>1, <2>2 DEF KeptInv, ExtentSteps, IndSteps, BlocksKept
<1>5. CASE overrun_leaf
  <2>1. /\ pc = "fill" /\ pc' = "overrun" /\ alloc' = alloc /\ regions' = regions
        /\ inode' = inode
    BY <1>5 DEF overrun_leaf
  <2>2. ListsInv /\ Requested
    BY <2>1 DEF ExtentInv, ExtentSteps
  <2>3. ListsKeepBlocks
    BY <2>2, UsedKeeps
  <2>4. ListsKeepBlocks'
    BY <2>1, <2>3 DEF ListsKeepBlocks, Returned
  <2> QED BY <1>1, <2>1, <2>4 DEF KeptInv, ExtentSteps, IndSteps, BlocksKept
<1>6. CASE ~allocate_fails /\ ~use_leaf /\ ~overrun_leaf
  <2>1. CASE \E layout \in Layouts, tail \in Tails, b \in {"data", "file", "none"} :
                allocate(layout, tail, b)
    BY <1>2, <2>1 DEF allocate, ExtentSteps
  <2>2. CASE use_inode \/ fill_extent \/ finish_inode \/ create_backing \/ free_alloc
    BY <1>2, <2>2 DEF use_inode, fill_extent, finish_inode, create_backing, free_alloc, ExtentSteps
  <2> QED BY <1>6, <2>1, <2>2 DEF Next
<1> QED BY <1>3, <1>4, <1>5, <1>6

LEMMA KeptStutter ==
    ASSUME KeptInv, UNCHANGED allVars
    PROVE  KeptInv'
<1>1. /\ alloc' = alloc /\ regions' = regions /\ len' = len /\ inode' = inode /\ pc' = pc
      /\ tables' = tables /\ todo' = todo
  BY DEF allVars, vars, indirectVars
<1>2. block_len' = block_len
  BY <1>1 DEF block_len
<1>3. Blocks(regions') = Blocks(regions) /\ SumLen(regions)' = SumLen(regions)
  BY <1>1
<1>4. ListsKeepBlocks' = ListsKeepBlocks
  BY <1>1, <1>3 DEF ListsKeepBlocks, Returned
<1>5. SingleInv' = SingleInv
  BY <1>1, <1>3, <1>4 DEF SingleInv
<1>6. BlocksKept' = BlocksKept
  BY <1>1, <1>4 DEF BlocksKept
<1> QED BY <1>1, <1>2, <1>5, <1>6 DEF KeptInv

LEMMA KeptStep ==
    ASSUME ExtentInv, KeptInv, [IndirectNext]_allVars
    PROVE  KeptInv'
<1>1. CASE Next /\ UNCHANGED indirectVars
  BY <1>1, ExtentKept DEF indirectVars
<1>2. CASE \E n \in FileBlocks, tail \in Tails : allocate_indirect(n, tail)
  BY <1>2, AllocateIndirectKept
<1>3. CASE allocate_data_indirect
  BY <1>3, AllocateDataKept
<1>4. CASE link_backing
  BY <1>4, LinkBackingKept
<1>5. CASE link_done
  BY <1>5, LinkDoneKept
<1>6. CASE reserve
  BY <1>6, ReserveKept
<1>7. CASE reserve_block
  BY <1>7, ReserveBlockKept
<1>8. CASE reserve_done
  BY <1>8, ReserveDoneKept
<1>9. CASE attach_direct
  BY <1>9, AttachDirectKept
<1>10. CASE attach_block
  BY <1>10, AttachBlockKept
<1>11. CASE pass_again
  BY <1>11, PassAgainKept
<1>12. CASE finish_indirect
  BY <1>12, FinishIndirectKept
<1>13. CASE UNCHANGED allVars
  BY <1>13, KeptStutter
<1> QED BY <1>1, <1>2, <1>3, <1>4, <1>5, <1>6, <1>7, <1>8, <1>9, <1>10, <1>11, <1>12, <1>13
        DEF IndirectNext

LEMMA StateKeepsBlocks ==
    ASSUME ExtentInv, KeptInv
    PROVE  BlocksKept
<1>1. CASE pc = "idle"
  BY <1>1, IdleKeeps DEF BlocksKept
<1>2. CASE pc = "header"
  <2>1. regions \in Layouts /\ alloc = allocate_blocks(regions) /\ inode.header.entries = 0
    BY <1>2 DEF ExtentInv, HeaderInv, Requested, ExtentSteps, NewInode, NoHeader
  <2>2. regions \in Seq(Placement) /\ Len(regions) > 0
    BY <2>1, LayoutFacts
  <2> QED BY <2>1, <2>2, AllocatedKeeps DEF BlocksKept
<1>3. CASE pc \in ExtentSteps \ {"header"}
  <2>1. ListsInv /\ Requested
    BY <1>3 DEF ExtentInv
  <2> QED BY <2>1, UsedKeeps DEF BlocksKept
<1>4. CASE pc \in {"failed", "overrun"}
  BY <1>4 DEF KeptInv
<1>5. CASE pc \in IndSteps
  <2>1. inode.header.entries = 0 /\ Len(regions) \in {1, 2} /\ pc # "header"
    BY <1>5 DEF KeptInv, IndSteps
  <2>2. CASE Len(regions) = 2
    <3>1. Len(regions) > 1
      BY <2>2
    <3> QED BY <2>1, <3>1 DEF BlocksKept
  <2>3. CASE Len(regions) = 1
    <3>1. SingleInv
      BY <1>5, <2>3 DEF KeptInv
    <3>2. CASE pc \in {"reserve", "reserving"}
      <4>1. OneRegion
        BY <2>1, <3>1, <3>2 DEF SingleInv, OneRegion
      <4> QED BY <4>1, OneRegionKeeps DEF BlocksKept
    <3>3. CASE pc \in {"attach", "attaching", "link_backing", "ind_done"}
      BY <3>1, <3>3 DEF SingleInv, BlocksKept
    <3> QED BY <1>5, <3>2, <3>3 DEF IndSteps
  <2> QED BY <2>1, <2>2, <2>3
<1> QED BY <1>1, <1>2, <1>3, <1>4, <1>5 DEF KeptInv

\* The lists of an allocation hold its blocks, each as often as it was allocated,
\* whatever is split off, moved, given back or left over by an error
\* (allocate.c:541-646), for every allocation that is mapped by extents or is one
\* region, of any length, and for files of any length.
THEOREM ListsLoseNoBlock == IndirectSpec => []BlocksKept
<1>1. IndirectInit => KeptInv
  <2> SUFFICES ASSUME IndirectInit PROVE KeptInv
    OBVIOUS
  <2>1. pc = "idle" /\ tables = <<>> /\ tables \in Seq({})
    BY DEF IndirectInit, Init
  <2> QED BY <2>1 DEF KeptInv, ExtentSteps, IndSteps
<1>2. ExtentInv /\ KeptInv /\ [IndirectNext]_allVars => KeptInv'
  BY KeptStep
<1>3. ExtentInv /\ KeptInv => BlocksKept
  BY StateKeepsBlocks
<1> QED BY <1>1, <1>2, <1>3, ExtentsHold, PTL DEF IndirectSpec
=============================================================================
