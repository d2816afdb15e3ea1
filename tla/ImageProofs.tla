---------------------------- MODULE ImageProofs ----------------------------
(***************************************************************************)
(* Proofs about the writing of the image, for every block size and length, *)
(* any pieces queued in any order, whatever fails and wherever the program *)
(* is killed: the queue stays sorted and complete, the writer's position,  *)
(* counts and checksum are right, and what write_ext4_image leaves behind  *)
(* when it reports no error is the file system, which simg2img gives back  *)
(* exactly or rejects.                                                     *)
(***************************************************************************)
EXTENDS MakeImage, Numbers, SequenceTheorems

-----------------------------------------------------------------------------
(* The queue of data                                                       *)

QueueInv == QueueTypeOK /\ Sorted /\ NothingLost

\* The list after an insertion: who is where.
LEMMA Inserted ==
    ASSUME QueueTypeOK, NEW n \in 0 .. Len(data_blocks), NEW p \in Pieces,
           data_blocks' = InsertBehind(n, p)
    PROVE  /\ data_blocks' \in Seq(Pieces)
           /\ Len(data_blocks') = Len(data_blocks) + 1
           /\ DOMAIN data_blocks' = 1 .. (Len(data_blocks) + 1)
           /\ DOMAIN data_blocks = 1 .. Len(data_blocks)
           /\ \A m \in 1 .. n : data_blocks'[m] = data_blocks[m]
           /\ data_blocks'[n + 1] = p
           /\ \A m \in (n + 2) .. (Len(data_blocks) + 1) : data_blocks'[m] = data_blocks[m - 1]
<1> DEFINE L == Len(data_blocks)
<1>1. L \in Nat /\ data_blocks \in [1 .. L -> Pieces] /\ DOMAIN data_blocks = 1 .. L
  BY DEF QueueTypeOK
<1> HIDE DEF L
<1>2. data_blocks' = [m \in 1 .. (L + 1) |-> IF m <= n THEN data_blocks[m]
                                             ELSE IF m = n + 1 THEN p ELSE data_blocks[m - 1]]
  BY DEF InsertBehind, L
<1>3. n \in 0 .. L
  BY DEF L
<1>4. data_blocks' \in [1 .. (L + 1) -> Pieces]
  BY <1>1, <1>2, <1>3
<1>5. data_blocks' \in Seq(Pieces) /\ Len(data_blocks') = L + 1
  BY <1>1, <1>4
<1>6. \A m \in 1 .. n : data_blocks'[m] = data_blocks[m]
  BY <1>1, <1>2, <1>3
<1>7. data_blocks'[n + 1] = p
  BY <1>1, <1>2, <1>3
<1>8. \A m \in (n + 2) .. (L + 1) : data_blocks'[m] = data_blocks[m - 1]
  BY <1>1, <1>2, <1>3
<1> QED BY <1>1, <1>4, <1>5, <1>6, <1>7, <1>8 DEF L

\* An insertion of a new piece keeps the list complete and without repetition.
LEMMA InsertKeepsAll ==
    ASSUME QueueTypeOK, NothingLost, NEW n \in 0 .. Len(data_blocks),
           NEW p \in Pieces \ queued,
           data_blocks' = InsertBehind(n, p), queued' = queued \cup {p}
    PROVE  NothingLost'
<1> DEFINE L == Len(data_blocks)
<1>1. /\ DOMAIN data_blocks' = 1 .. (L + 1)
      /\ DOMAIN data_blocks = 1 .. L
      /\ \A m \in 1 .. n : data_blocks'[m] = data_blocks[m]
      /\ data_blocks'[n + 1] = p
      /\ \A m \in (n + 2) .. (L + 1) : data_blocks'[m] = data_blocks[m - 1]
      /\ L \in Nat /\ n \in 0 .. L
  BY Inserted DEF QueueTypeOK
<1> HIDE DEF L
<1>2. ASSUME NEW q \in queued'
      PROVE  \E m \in DOMAIN data_blocks' : data_blocks'[m] = q
  <2>1. CASE q = p
    BY <1>1, <2>1
  <2>2. CASE q # p
    <3>1. PICK m \in 1 .. L : data_blocks[m] = q
      BY <1>1, <1>2, <2>2 DEF NothingLost
    <3>2. CASE m <= n
      BY <1>1, <3>1, <3>2
    <3>3. CASE m > n
      <4>1. m + 1 \in (n + 2) .. (L + 1) /\ (m + 1) - 1 = m
        BY <1>1, <3>1, <3>3
      <4>2. data_blocks'[m + 1] = q
        BY <1>1, <3>1, <4>1
      <4>3. m + 1 \in DOMAIN data_blocks'
        BY <1>1, <4>1
      <4> QED BY <4>2, <4>3
    <3> QED BY <1>1, <3>1, <3>2, <3>3
  <2> QED BY <2>1, <2>2
<1>3. \A m \in DOMAIN data_blocks' : m # n + 1 =>
          \E j \in 1 .. L : /\ data_blocks'[m] = data_blocks[j]
                            /\ j = IF m <= n THEN m ELSE m - 1
  BY <1>1
<1>4. \A m \in DOMAIN data_blocks' : data_blocks'[m] \in queued'
  BY <1>1, <1>3, ZenonT(60) DEF NothingLost
<1>5. ASSUME NEW j \in DOMAIN data_blocks', NEW m \in DOMAIN data_blocks', j # m
      PROVE  data_blocks'[j] # data_blocks'[m]
  <2>1. CASE j = n + 1
    BY <1>1, <1>3, <1>5, <2>1 DEF NothingLost
  <2>2. CASE m = n + 1
    BY <1>1, <1>3, <1>5, <2>2, SMTT(60) DEF NothingLost
  <2>3. CASE j # n + 1 /\ m # n + 1
    <3>1. PICK a \in 1 .. L : /\ data_blocks'[j] = data_blocks[a]
                              /\ a = IF j <= n THEN j ELSE j - 1
      BY <1>3, <2>3
    <3>2. PICK b \in 1 .. L : /\ data_blocks'[m] = data_blocks[b]
                              /\ b = IF m <= n THEN m ELSE m - 1
      BY <1>3, <2>3
    <3>3. a # b
      BY <1>1, <1>5, <2>3, <3>1, <3>2
    <3>4. data_blocks[a] # data_blocks[b]
      BY <1>1, <3>3 DEF NothingLost
    <3> QED BY <3>1, <3>2, <3>4
  <2> QED BY <2>1, <2>2, <2>3
<1> QED BY <1>2, <1>4, <1>5 DEF NothingLost

\* An insertion between elements not above and elements not below the piece
\* keeps the list sorted.
LEMMA InsertKeepsOrder ==
    ASSUME QueueTypeOK, Sorted, NEW n \in 0 .. Len(data_blocks), NEW p \in Pieces,
           data_blocks' = InsertBehind(n, p),
           n > 0 => BlockAt(n) <= p.block,
           n < Len(data_blocks) => p.block <= BlockAt(n + 1)
    PROVE  Sorted'
<1> DEFINE L == Len(data_blocks)
<1>1. /\ DOMAIN data_blocks' = 1 .. (L + 1)
      /\ DOMAIN data_blocks = 1 .. L
      /\ \A m \in 1 .. n : data_blocks'[m] = data_blocks[m]
      /\ data_blocks'[n + 1] = p
      /\ \A m \in (n + 2) .. (L + 1) : data_blocks'[m] = data_blocks[m - 1]
      /\ L \in Nat /\ n \in 0 .. L
  BY Inserted DEF QueueTypeOK
<1>2. /\ p.block \in Nat
      /\ \A m \in 1 .. L : data_blocks[m].block \in Nat
  <2>1. \A m \in 1 .. L : data_blocks[m] \in Pieces
    BY <1>1 DEF QueueTypeOK
  <2> QED BY <2>1, PiecesHaveBlocks
<1>3. \A j, m \in 1 .. L : j < m => data_blocks[j].block <= data_blocks[m].block
  BY <1>1 DEF Sorted, BlockAt
<1>4. /\ n > 0 => data_blocks[n].block <= p.block
      /\ n < L => p.block <= data_blocks[n + 1].block
  BY DEF BlockAt
<1> HIDE DEF L
<1>5. \A m \in 1 .. n : data_blocks[m].block <= p.block
  BY <1>1, <1>2, <1>3, <1>4, SMTT(60)
<1>6. \A m \in (n + 1) .. L : p.block <= data_blocks[m].block
  BY <1>1, <1>2, <1>3, <1>4, SMTT(120)
<1>7. ASSUME NEW j \in 1 .. (L + 1), NEW m \in 1 .. (L + 1), j < m
      PROVE  data_blocks'[j].block <= data_blocks'[m].block
  <2>1. CASE m <= n
    BY <1>1, <1>3, <1>7, <2>1
  <2>2. CASE m = n + 1
    BY <1>1, <1>5, <1>7, <2>2
  <2>3. CASE m > n + 1
    <3>1. data_blocks'[m] = data_blocks[m - 1] /\ m - 1 \in (n + 1) .. L
      BY <1>1, <2>3
    <3>2. CASE j <= n
      BY <1>1, <1>3, <1>7, <2>3, <3>1, <3>2
    <3>3. CASE j = n + 1
      BY <1>1, <1>6, <3>1, <3>3
    <3>4. CASE j > n + 1
      <4>1. data_blocks'[j] = data_blocks[j - 1] /\ j - 1 \in 1 .. L /\ j - 1 < m - 1
        BY <1>1, <1>7, <3>4
      <4> QED BY <1>1, <1>3, <3>1, <4>1
    <3> QED BY <1>1, <3>2, <3>3, <3>4
  <2> QED BY <1>1, <2>1, <2>2, <2>3
<1> QED BY <1>1, <1>7 DEF Sorted, BlockAt

\* The place where the search stops is between such elements.
LEMMA SearchIsRight ==
    ASSUME QueueInv, NEW n \in DOMAIN data_blocks, NEW p \in Pieces,
           BlockAt(1) <= p.block, StopsAt(n, p)
    PROVE  /\ n \in 1 .. Len(data_blocks)
           /\ BlockAt(n) <= p.block
           /\ n < Len(data_blocks) => p.block <= BlockAt(n + 1)
<1> DEFINE L == Len(data_blocks)
           s == SearchFrom(p)
<1>1. L \in Nat /\ DOMAIN data_blocks = 1 .. L /\ last_used \in 0 .. L
  BY DEF QueueInv, QueueTypeOK
<1>2. /\ p.block \in Nat
      /\ \A m \in 1 .. L : BlockAt(m) \in Nat
  <2>1. \A m \in 1 .. L : data_blocks[m] \in Pieces
    BY <1>1 DEF QueueInv, QueueTypeOK
  <2> QED BY <2>1, PiecesHaveBlocks DEF BlockAt
<1>3. s \in 1 .. L /\ BlockAt(s) <= p.block
  <2>1. CASE last_used # 0 /\ p.block > BlockAt(last_used)
    <3>1. s = last_used /\ last_used \in 1 .. L
      BY <1>1, <2>1 DEF SearchFrom
    <3> QED BY <1>1, <1>2, <2>1, <3>1
  <2>2. CASE ~(last_used # 0 /\ p.block > BlockAt(last_used))
    BY <1>1, <2>2 DEF SearchFrom
  <2> QED BY <2>1, <2>2
<1> HIDE DEF s, L
<1>4. /\ n >= s
      /\ n = L \/ BlockAt(n + 1) >= p.block
      /\ \A m \in s .. (n - 1) : BlockAt(m + 1) < p.block
  BY DEF StopsAt, s, L
<1>5. BlockAt(n) <= p.block
  <2>1. CASE n = s
    BY <1>3, <2>1
  <2>2. CASE n # s
    <3>1. n - 1 \in s .. (n - 1) /\ (n - 1) + 1 = n
      BY <1>1, <1>3, <1>4, <2>2
    <3>2. BlockAt(n) < p.block
      BY <1>4, <3>1
    <3> QED BY <1>1, <1>2, <3>2
  <2> QED BY <2>1, <2>2
<1>6. n < L => p.block <= BlockAt(n + 1)
  BY <1>1, <1>2, <1>4
<1> QED BY <1>1, <1>5, <1>6 DEF L

LEMMA QueueStepInv == QueueInv /\ [QueueNext]_queueVars => QueueInv'
<1> SUFFICES ASSUME QueueInv, [QueueNext]_queueVars PROVE QueueInv'
  OBVIOUS
<1>0. /\ QueueTypeOK /\ Sorted /\ NothingLost
      /\ Len(data_blocks) \in Nat
  BY DEF QueueInv, QueueTypeOK
<1>1. ASSUME NEW p \in Pieces \ queued, queue_db_first(p), queued' = queued \cup {p}
      PROVE  QueueInv'
  <2>1. 0 \in 0 .. Len(data_blocks) /\ data_blocks' = InsertBehind(0, p)
    BY <1>0, <1>1 DEF queue_db_first
  <2>2. 0 < Len(data_blocks) => p.block <= BlockAt(0 + 1)
    <3> SUFFICES ASSUME 0 < Len(data_blocks) PROVE p.block <= BlockAt(1)
      OBVIOUS
    <3>1. data_blocks # <<>> /\ data_blocks[1] \in Pieces
      BY <1>0 DEF QueueTypeOK
    <3>2. p.block \in Nat /\ BlockAt(1) \in Nat
      BY <3>1, PiecesHaveBlocks DEF BlockAt
    <3>3. BlockAt(1) > p.block
      BY <1>1, <3>1 DEF queue_db_first
    <3> QED BY <3>2, <3>3
  <2>3. Sorted'
    BY <1>0, <2>1, <2>2, InsertKeepsOrder
  <2>4. NothingLost'
    BY <1>0, <1>1, <2>1, InsertKeepsAll
  <2>5. data_blocks' \in Seq(Pieces) /\ Len(data_blocks') = Len(data_blocks) + 1
    BY <1>0, <2>1, Inserted
  <2>6. last_used' \in 0 .. Len(data_blocks')
    BY <1>0, <1>1, <2>5 DEF queue_db_first, QueueTypeOK
  <2> QED BY <1>0, <1>1, <2>3, <2>4, <2>5, <2>6 DEF QueueInv, QueueTypeOK
<1>2. ASSUME NEW p \in Pieces \ queued, NEW n \in DOMAIN data_blocks,
             queue_db_behind(n, p), queued' = queued \cup {p}
      PROVE  QueueInv'
  <2>1. BlockAt(1) <= p.block /\ StopsAt(n, p) /\ data_blocks' = InsertBehind(n, p)
    BY <1>2 DEF queue_db_behind
  <2>2. /\ n \in 1 .. Len(data_blocks)
        /\ BlockAt(n) <= p.block
        /\ n < Len(data_blocks) => p.block <= BlockAt(n + 1)
    BY <2>1, SearchIsRight
  <2>3. n \in 0 .. Len(data_blocks)
    BY <1>0, <2>2
  <2>4. Sorted'
    BY <1>0, <2>1, <2>2, <2>3, InsertKeepsOrder
  <2>5. NothingLost'
    BY <1>0, <1>2, <2>1, <2>3, InsertKeepsAll
  <2>6. data_blocks' \in Seq(Pieces) /\ Len(data_blocks') = Len(data_blocks) + 1
    BY <1>0, <2>1, <2>3, Inserted
  <2>7. last_used' \in 0 .. Len(data_blocks')
    BY <1>0, <1>2, <2>2, <2>6 DEF queue_db_behind
  <2> QED BY <1>0, <1>2, <2>4, <2>5, <2>6, <2>7 DEF QueueInv, QueueTypeOK
<1>3. CASE free_data_blocks
  <2>1. data_blocks' = <<>> /\ last_used' = 0 /\ queued' = {}
    BY <1>3 DEF free_data_blocks
  <2>2. data_blocks' \in Seq(Pieces) /\ Len(data_blocks') = 0 /\ DOMAIN data_blocks' = {}
    BY <2>1
  <2> QED BY <2>1, <2>2 DEF QueueInv, QueueTypeOK, Sorted, NothingLost
<1>4. CASE UNCHANGED queueVars
  BY <1>0, <1>4 DEF queueVars, QueueInv, QueueTypeOK, Sorted, NothingLost, BlockAt
<1> QED BY <1>1, <1>2, <1>3, <1>4 DEF QueueNext, queue_data

LEMMA QueueInitInv == QueueInit => QueueInv
<1> SUFFICES ASSUME QueueInit PROVE QueueInv
  OBVIOUS
<1>1. data_blocks = <<>> /\ last_used = 0 /\ queued = {}
  BY DEF QueueInit
<1>2. data_blocks \in Seq(Pieces) /\ Len(data_blocks) = 0 /\ DOMAIN data_blocks = {}
  BY <1>1
<1> QED BY <1>1, <1>2 DEF QueueInv, QueueTypeOK, Sorted, NothingLost

\* The list keeps its shape, and last_used is NULL or points into it
\* (backed_block.c:31-32).
THEOREM QueueTypeCorrect == QueueSpec => []QueueTypeOK
<1>1. QueueInv => QueueTypeOK
  BY DEF QueueInv
<1> QED BY <1>1, QueueInitInv, QueueStepInv, PTL DEF QueueSpec

\* Whatever the order of queueing, the list is sorted by block
\* (backed_block.c:49-59).
THEOREM QueueSorted == QueueSpec => []Sorted
<1>1. QueueInv => Sorted
  BY DEF QueueInv
<1> QED BY <1>1, QueueInitInv, QueueStepInv, PTL DEF QueueSpec

\* Whatever the order of queueing, no piece is dropped or linked twice.
THEOREM QueueComplete == QueueSpec => []NothingLost
<1>1. QueueInv => NothingLost
  BY DEF QueueInv
<1> QED BY <1>1, QueueInitInv, QueueStepInv, PTL DEF QueueSpec

-----------------------------------------------------------------------------
(* Multiples of the block size                                             *)

LEMMA SumOfMultiples ==
    ASSUME NEW a \in Int, NEW c \in Int, NEW b \in Nat \ {0}, a % b = 0
    PROVE  (a + c) % b = 0 <=> c % b = 0
<1> DEFINE p == a \div b
           q == c \div b
           r == c % b
<1>1. p \in Int /\ a = p * b + 0
  BY QuotientAndRest
<1>2. q \in Int /\ r \in 0 .. (b - 1) /\ c = q * b + r
  BY QuotientAndRest
<1> HIDE DEF p, q, r
<1>3. a + c = (p + q) * b + r
  BY <1>1, <1>2
<1>4. p + q \in Int
  BY <1>1, <1>2
<1>5. ((p + q) * b + r) % b = r
  BY <1>2, <1>4, UniqueDivision
<1>6. (a + c) % b = r
  BY <1>3, <1>5
<1> QED BY <1>6 DEF r

\* RoundUp gives the next multiple of the block size.
LEMMA RoundUpFacts ==
    ASSUME NEW n \in Nat
    PROVE  RoundUp(n) \in Nat /\ n <= RoundUp(n) /\ RoundUp(n) % BlockSize = 0
<1> DEFINE a == n + BlockSize - 1
           q == a \div BlockSize
           r == a % BlockSize
<1>1. BlockSize \in Nat \ {0}
  BY SizeTypes
<1>2. a \in Int
  BY <1>1
<1> HIDE DEF a
<1>3. q \in Int /\ r \in 0 .. (BlockSize - 1) /\ a = q * BlockSize + r
  BY <1>1, <1>2, QuotientAndRest
<1> HIDE DEF q, r
<1>4. q * BlockSize \in Int
  BY <1>1, <1>3
<1>5. RoundUp(n) = q * BlockSize
  BY DEF RoundUp, q, a
<1>6. a = n + BlockSize - 1
  BY DEF a
<1>7. n <= q * BlockSize
  BY <1>1, <1>3, <1>4, <1>6
<1>8. (q * BlockSize + 0) % BlockSize = 0
  BY <1>1, <1>3, UniqueDivision
<1> QED BY <1>4, <1>5, <1>7, <1>8

-----------------------------------------------------------------------------
(* What the chunks expand to                                               *)

LEMMA Concatenation ==
    ASSUME NEW s \in Seq(Nat), NEW t \in Seq(Nat)
    PROVE  s \o t \in Seq(Nat) /\ <<>> \o s = s
BY ConcatProperties, ConcatEmptySeq

\* g is built by putting the sequences one behind the other.
Flat(g, ss) ==
    /\ g \in [0 .. Len(ss) -> Seq(Nat)]
    /\ g[0] = <<>>
    /\ \A m \in 1 .. Len(ss) : g[m] = g[m - 1] \o ss[m]

\* The function inside FlattenSeq.
IsFlatten(f, ss) ==
    f = [l \in 1 .. Len(ss) |-> IF l = 1 THEN ss[l] ELSE f[l - 1] \o ss[l]]

\* FlattenSeq does that.
LEMMA FlattenIs ==
    ASSUME NEW ss \in Seq(Seq(Nat)), NEW g, Flat(g, ss)
    PROVE  FlattenSeq(ss) = g[Len(ss)]
<1> DEFINE n == Len(ss)
<1>1. n \in Nat /\ ss \in [1 .. n -> Seq(Nat)]
  OBVIOUS
<1>2. g \in [0 .. n -> Seq(Nat)] /\ g[0] = <<>> /\ \A m \in 1 .. n : g[m] = g[m - 1] \o ss[m]
  BY DEF Flat
<1>3. CASE n = 0
  <2>1. ss = <<>>
    BY <1>3
  <2> QED BY <1>2, <1>3, <2>1 DEF FlattenSeq
<1>4. CASE n # 0
  <2> DEFINE f == [l \in 1 .. n |-> g[l]]
             c == CHOOSE h : IsFlatten(h, ss)
  <2>1. FlattenSeq(ss) = c[n]
    BY <1>4 DEF FlattenSeq, IsFlatten
  <2> HIDE DEF n
  <2>2. ASSUME NEW l \in 1 .. n
        PROVE  f[l] = IF l = 1 THEN ss[l] ELSE f[l - 1] \o ss[l]
    <3>1. ss[l] \in Seq(Nat) /\ g[l] = g[l - 1] \o ss[l] /\ f[l] = g[l]
      BY <1>1, <1>2
    <3>2. CASE l = 1
      <4>1. g[l - 1] = <<>>
        BY <1>2, <3>2
      <4>2. g[l] = ss[l]
        BY <3>1, <4>1, Concatenation
      <4> QED BY <3>1, <3>2, <4>2
    <3>3. CASE l # 1
      <4>1. l - 1 \in 1 .. n
        BY <1>1, <3>3
      <4> QED BY <3>1, <3>3, <4>1
    <3> QED BY <3>2, <3>3
  <2>3. f = [l \in 1 .. n |-> IF l = 1 THEN ss[l] ELSE f[l - 1] \o ss[l]]
    <3>1. DOMAIN f = 1 .. n
      OBVIOUS
    <3> HIDE DEF f
    <3> QED BY <2>2, <3>1, f = [l \in 1 .. n |-> f[l]] DEF f
  <2> HIDE DEF f
  <2>4. IsFlatten(f, ss)
    BY <2>3 DEF IsFlatten, n
  <2>5. IsFlatten(c, ss)
    BY <2>4
  <2> HIDE DEF c
  <2>6. \A l \in 1 .. n : c[l] = IF l = 1 THEN ss[l] ELSE c[l - 1] \o ss[l]
    BY <2>5 DEF IsFlatten, n
  <2> DEFINE S == {l \in 0 .. n : l # 0 => c[l] = g[l]}
  <2>7. 0 \in S
    BY <1>1
  <2>8. ASSUME NEW l \in 0 .. (n - 1), l \in S
        PROVE  l + 1 \in S
    <3>1. /\ l + 1 \in 1 .. n /\ l + 1 \in 0 .. n /\ (l + 1) - 1 = l
          /\ l # 0 <=> l + 1 # 1
          /\ ss[l + 1] \in Seq(Nat)
      BY <1>1
    <3>2. g[l + 1] = g[l] \o ss[l + 1]
      BY <1>2, <3>1
    <3>3. CASE l = 0
      <4>1. c[l + 1] = ss[l + 1]
        BY <2>6, <3>1, <3>3
      <4>2. g[l + 1] = ss[l + 1]
        <5>1. g[l] = <<>>
          BY <1>2, <3>3
        <5> QED BY <3>1, <3>2, <5>1, Concatenation
      <4> QED BY <3>1, <4>1, <4>2
    <3>4. CASE l # 0
      <4>1. c[l + 1] = c[l] \o ss[l + 1]
        BY <2>6, <3>1, <3>4
      <4>2. c[l] = g[l]
        BY <2>8, <3>4
      <4> QED BY <3>1, <3>2, <4>1, <4>2
    <3> QED BY <3>3, <3>4
  <2> HIDE DEF S
  <2>9. n \in Nat
    BY <1>1
  <2>10. \A l \in 0 .. n : l \in S
    BY <2>7, <2>8, <2>9, BoundedInduction
  <2>11. n \in S
    BY <2>9, <2>10
  <2> QED BY <1>4, <2>1, <2>11 DEF S, n
<1> QED BY <1>3, <1>4

\* There is such a function.
LEMMA FlatExists ==
    ASSUME NEW ss \in Seq(Seq(Nat))
    PROVE  \E g : Flat(g, ss)
<1> DEFINE n == Len(ss)
           V == Seq(Nat)
           step == [kv \in (1 .. n) \X V |-> kv[2] \o ss[kv[1]]]
<1>1. n \in Nat /\ <<>> \in V /\ \A m \in 1 .. n : ss[m] \in V
  OBVIOUS
<1>2. \A m \in 1 .. n : \A v \in V : step[<<m, v>>] = v \o ss[m]
  OBVIOUS
<1> HIDE DEF step
<1>3. IsStep(step, n, V)
  BY <1>1, <1>2, Concatenation, ZenonT(60) DEF IsStep
<1>4. PICK g \in [0 .. n -> V] : BuiltBy(g, n, <<>>, step)
  BY <1>1, <1>3, Recursion
<1>5. ASSUME NEW m \in 1 .. n PROVE g[m] = g[m - 1] \o ss[m]
  <2>1. m - 1 \in 0 .. n
    BY <1>1
  <2> QED BY <1>2, <1>4, <2>1 DEF BuiltBy
<1>6. g[0] = <<>>
  BY <1>4 DEF BuiltBy
<1>7. Flat(g, ss)
  BY <1>4, <1>5, <1>6 DEF Flat
<1> QED BY <1>7

\* One sequence more goes to the end.
LEMMA FlattenAppended ==
    ASSUME NEW ss \in Seq(Seq(Nat)), NEW s \in Seq(Nat)
    PROVE  /\ FlattenSeq(ss) \in Seq(Nat)
           /\ FlattenSeq(Append(ss, s)) = FlattenSeq(ss) \o s
<1> DEFINE n == Len(ss)
           tt == Append(ss, s)
<1>1. /\ n \in Nat /\ tt \in Seq(Seq(Nat)) /\ Len(tt) = n + 1
      /\ tt[n + 1] = s /\ \A m \in 1 .. n : tt[m] = ss[m]
  OBVIOUS
<1>2. PICK g : Flat(g, ss)
  BY FlatExists
<1>3. FlattenSeq(ss) = g[n]
  BY <1>2, FlattenIs
<1>4. g \in [0 .. n -> Seq(Nat)] /\ g[0] = <<>> /\ \A m \in 1 .. n : g[m] = g[m - 1] \o ss[m]
  BY <1>2 DEF Flat
<1> DEFINE last == g[n] \o s
           V == Seq(Nat)
           h == [m \in 0 .. (n + 1) |-> IF m = n + 1 THEN last ELSE g[m]]
<1> HIDE DEF n, tt
<1>5. g[n] \in Seq(Nat) /\ last \in Seq(Nat)
  BY <1>1, <1>4, Concatenation
<1>6. /\ h \in [0 .. (n + 1) -> Seq(Nat)]
      /\ h[n + 1] = last /\ \A m \in 0 .. n : h[m] = g[m]
  <2>1. n \in Nat /\ last \in V /\ g \in [0 .. n -> V]
    BY <1>1, <1>4, <1>5
  <2> HIDE DEF last, V
  <2>2. h \in [0 .. (n + 1) -> V]
    BY <2>1
  <2>3. h[n + 1] = last /\ \A m \in 0 .. n : h[m] = g[m]
    BY <2>1
  <2> QED BY <2>2, <2>3 DEF V
<1> HIDE DEF h
<1>7. ASSUME NEW m \in 1 .. (n + 1) PROVE h[m] = h[m - 1] \o tt[m]
  <2>1. CASE m = n + 1
    <3>1. m - 1 = n /\ n \in 0 .. n
      BY <1>1, <2>1
    <3> QED BY <1>1, <1>6, <2>1, <3>1
  <2>2. CASE m # n + 1
    <3>1. m \in 1 .. n /\ m \in 0 .. n /\ m - 1 \in 0 .. n
      BY <1>1, <2>2
    <3> QED BY <1>1, <1>4, <1>6, <3>1
  <2> QED BY <2>1, <2>2
<1>8. h[0] = <<>>
  BY <1>1, <1>4, <1>6
<1>9. Flat(h, tt)
  BY <1>1, <1>6, <1>7, <1>8 DEF Flat
<1>10. FlattenSeq(tt) = h[n + 1]
  BY <1>1, <1>9, FlattenIs
<1> QED BY <1>3, <1>5, <1>6, <1>10 DEF tt

-----------------------------------------------------------------------------
(* The invariant of the writer                                             *)

Fields == {"state", "cur_out_ptr", "chunk_cnt", "crc32", "chunks", "header", "raw", "pos",
           "lost", "error", "write_failed", "exited"}

\* The sizes of a chunk agree.
SizesAgree(c) ==
    IF c.type = "raw" THEN c.total_sz = c.chunk_sz * BlockSize /\ Len(c.data) = c.total_sz
                      ELSE c.total_sz = 0

Chunk == {c \in [type : {"raw", "dont_care"}, chunk_sz : Nat, total_sz : Nat, data : Seq(Nat)] :
             SizesAgree(c)}

\* The position is a multiple of the block size: a write that ends inside a
\* block is filled up.  The checksum covers as many bytes as were written, each
\* of them zero or meant for its place; the chunks are counted, and stand for
\* these bytes.
PositionExact(o) ==
    /\ o.cur_out_ptr \in Nat /\ o.cur_out_ptr % BlockSize = 0
    /\ o.crc32 \in Seq(Nat) /\ Len(o.crc32) = o.cur_out_ptr
    /\ \A l \in DOMAIN o.crc32 : o.crc32[l] \in {0, l}
    /\ o.chunks \in Seq(Chunk) /\ Len(o.chunks) = o.chunk_cnt
    /\ Expanded(o.chunks) = o.crc32

Shape(o) == o = [f \in Fields |-> o[f]]

WriterInv(o) == Shape(o) /\ PositionExact(o) /\ o.error # "accounting"

\* What an error changes.
OnlyError(o, p) ==
    /\ Shape(p)
    /\ \A f \in Fields \ {"error", "exited", "write_failed", "state"} : p[f] = o[f]

LEMMA SamePosition ==
    ASSUME NEW o, NEW p, WriterInv(o), OnlyError(o, p), p.error # "accounting"
    PROVE  WriterInv(p)
<1>1. /\ p.cur_out_ptr = o.cur_out_ptr /\ p.crc32 = o.crc32
      /\ p.chunks = o.chunks /\ p.chunk_cnt = o.chunk_cnt
  BY DEF OnlyError, Fields
<1>2. PositionExact(p)
  BY <1>1, Zenon DEF WriterInv, PositionExact
<1> QED BY <1>2 DEF WriterInv, OnlyError

\* The error macro keeps the position, and the error that was there.
LEMMA ErrorKeeps ==
    ASSUME NEW o, WriterInv(o), NEW e,
           e # "accounting" \/ o.error # "none"
    PROVE  /\ WriterInv(Error(o, e))
           /\ e # "none" => Error(o, e).error # "none"
<1>1. Shape(o) /\ o.error # "accounting"
  BY DEF WriterInv
<1>2. Error(o, e).error = IF o.error = "none" THEN e ELSE o.error
  BY <1>1 DEF Error, Shape, Fields
<1>3. OnlyError(o, Error(o, e))
  BY <1>1 DEF Error, Shape, Fields, OnlyError
<1>4. Error(o, e).error # "accounting"
  BY <1>1, <1>2
<1> QED BY <1>2, <1>3, <1>4, SamePosition

LEMMA WriteErrorKeeps ==
    ASSUME NEW o, WriterInv(o)
    PROVE  WriterInv(WriteError(o)) /\ WriteError(o).error # "none"
<1> DEFINE p == Error(o, "write")
<1>1. WriterInv(p) /\ p.error # "none"
  BY ErrorKeeps
<1> HIDE DEF p
<1>2. Shape(p) /\ p.error # "accounting"
  BY <1>1 DEF WriterInv
<1>3. /\ OnlyError(p, [p EXCEPT !.write_failed = TRUE])
      /\ [p EXCEPT !.write_failed = TRUE].error = p.error
  BY <1>2 DEF Shape, Fields, OnlyError
<1>4. WriteError(o) = [p EXCEPT !.write_failed = TRUE]
  BY DEF WriteError, p
<1> QED BY <1>1, <1>2, <1>3, <1>4, SamePosition

-----------------------------------------------------------------------------
(* Chunks                                                                  *)

LEMMA ZerosFacts ==
    ASSUME NEW n \in Nat
    PROVE  Zeros(n) \in Seq(Nat) /\ Len(Zeros(n)) = n /\ \A l \in 1 .. n : Zeros(n)[l] = 0
BY DEF Zeros

LEMMA WholeBlocks ==
    ASSUME NEW n \in Nat
    PROVE  /\ n \div BlockSize \in Nat
           /\ n % BlockSize = 0 => (n \div BlockSize) * BlockSize = n
<1> DEFINE q == n \div BlockSize
           r == n % BlockSize
<1>1. BlockSize \in Nat \ {0}
  BY SizeTypes
<1>2. q \in Int /\ r \in 0 .. (BlockSize - 1) /\ n = q * BlockSize + r
  BY <1>1, QuotientAndRest
<1> HIDE DEF q, r
<1>3. ~(q < 0)
  <2> SUFFICES ASSUME q < 0 PROVE FALSE
    OBVIOUS
  <2>1. q * BlockSize + BlockSize <= 0 * BlockSize
    BY <1>1, <1>2, Multiples
  <2> QED BY <1>1, <1>2, <2>1
<1>4. q \in Nat
  BY <1>2, <1>3
<1>5. r = 0 => q * BlockSize = n
  BY <1>1, <1>2
<1> QED BY <1>4, <1>5 DEF q, r

LEMMA ChunkBytesType ==
    ASSUME NEW c \in Chunk
    PROVE  ChunkBytes(c) \in Seq(Nat)
<1>1. c.data \in Seq(Nat) /\ c.chunk_sz * BlockSize \in Nat
  BY SizeTypes DEF Chunk
<1>2. Zeros(c.chunk_sz * BlockSize) \in Seq(Nat)
  BY <1>1, ZerosFacts
<1> QED BY <1>1, <1>2 DEF ChunkBytes

\* A chunk more expands to its bytes behind those of the others.
LEMMA ExpandedAppended ==
    ASSUME NEW chunks \in Seq(Chunk), NEW c \in Chunk
    PROVE  Expanded(Append(chunks, c)) = Expanded(chunks) \o ChunkBytes(c)
<1> DEFINE Bytes(cs) == [l \in DOMAIN cs |-> ChunkBytes(cs[l])]
           n == Len(chunks)
           more == Append(chunks, c)
<1>1. /\ n \in Nat /\ DOMAIN chunks = 1 .. n /\ \A l \in 1 .. n : chunks[l] \in Chunk
      /\ DOMAIN more = 1 .. (n + 1) /\ more[n + 1] = c
      /\ \A l \in 1 .. n : more[l] = chunks[l]
  OBVIOUS
<1> DEFINE b == Bytes(chunks)
           d == Bytes(more)
           V == Seq(Nat)
           x == ChunkBytes(c)
<1> HIDE DEF n, more
<1>2. x \in V
  BY ChunkBytesType
<1>3. \A l \in 1 .. n : ChunkBytes(chunks[l]) \in V
  BY <1>1, ChunkBytesType
<1> HIDE DEF V
<1>4. b \in [1 .. n -> V] /\ DOMAIN d = 1 .. (n + 1)
  BY <1>1, <1>3
<1>5. d[n + 1] = x /\ \A l \in 1 .. n : d[l] = b[l]
  BY <1>1
<1> HIDE DEF x
<1>6. d = [l \in 1 .. (n + 1) |-> d[l]]
  BY <1>4
<1> HIDE DEF b, d
<1>7. b \in Seq(V) /\ Len(b) = n
  BY <1>1, <1>4
<1>8. d = Append(b, x)
  <2> DEFINE a == Append(b, x)
  <2>1. /\ a \in Seq(V) /\ Len(a) = n + 1 /\ a[n + 1] = x
        /\ \A l \in 1 .. n : a[l] = b[l]
    BY <1>2, <1>7, AppendProperties
  <2> HIDE DEF a
  <2>2. a = [l \in 1 .. (n + 1) |-> a[l]]
    BY <2>1
  <2>3. \A l \in 1 .. (n + 1) : l \in 1 .. n \/ l = n + 1
    BY <1>1
  <2>4. \A l \in 1 .. (n + 1) : d[l] = a[l]
    BY <1>5, <2>1, <2>3
  <2> QED BY <1>6, <2>2, <2>4 DEF a
<1>9. FlattenSeq(Append(b, x)) = FlattenSeq(b) \o x
  BY <1>2, <1>7, FlattenAppended DEF V
<1>10. Expanded(chunks) = FlattenSeq(b) /\ Expanded(more) = FlattenSeq(d)
  BY DEF Expanded, b, d
<1> QED BY <1>8, <1>9, <1>10 DEF more, x

LEMMA BytesAdded ==
    ASSUME NEW crc \in Seq(Nat), NEW bytes \in Seq(Nat)
    PROVE  /\ crc \o bytes \in Seq(Nat)
           /\ Len(crc \o bytes) = Len(crc) + Len(bytes)
           /\ \A l \in 1 .. (Len(crc) + Len(bytes)) :
                 (crc \o bytes)[l] = IF l <= Len(crc) THEN crc[l] ELSE bytes[l - Len(crc)]
BY ConcatProperties

\* Bytes that are each zero or meant for the place where they go may follow those
\* already written, if they are whole blocks.
LEMMA ChunkAdded ==
    ASSUME NEW o, WriterInv(o), NEW c \in Chunk, NEW bytes \in Seq(Nat), NEW n \in Nat,
           Len(bytes) = n, n % BlockSize = 0, ChunkBytes(c) = bytes,
           \A l \in 1 .. n : bytes[l] \in {0, o.cur_out_ptr + l},
           NEW p, Shape(p), p.error = o.error,
           p.chunks = Append(o.chunks, c), p.chunk_cnt = o.chunk_cnt + 1,
           p.crc32 = o.crc32 \o bytes, p.cur_out_ptr = o.cur_out_ptr + n
    PROVE  WriterInv(p)
<1> DEFINE cur == o.cur_out_ptr
           crc == o.crc32
<1>1. /\ cur \in Nat /\ cur % BlockSize = 0 /\ crc \in Seq(Nat) /\ Len(crc) = cur
      /\ \A l \in 1 .. cur : crc[l] \in {0, l}
      /\ o.chunks \in Seq(Chunk) /\ Len(o.chunks) = o.chunk_cnt
      /\ Expanded(o.chunks) = crc
  BY DEF WriterInv, PositionExact
<1> HIDE DEF cur, crc
<1>2. p.cur_out_ptr = cur + n /\ p.crc32 = crc \o bytes
  BY DEF cur, crc
<1>3. \A l \in 1 .. n : bytes[l] \in {0, cur + l}
  BY DEF cur
<1>4. cur + n \in Nat /\ (cur + n) % BlockSize = 0
  <2>1. BlockSize \in Nat \ {0} /\ cur \in Int /\ n \in Int /\ cur % BlockSize = 0
    BY <1>1, SizeTypes
  <2>2. (cur + n) % BlockSize = 0 <=> n % BlockSize = 0
    BY <2>1, SumOfMultiples, Zenon
  <2>3. cur + n \in Nat
    BY <1>1
  <2> QED BY <2>2, <2>3
<1>5. /\ crc \o bytes \in Seq(Nat) /\ Len(crc \o bytes) = cur + n
      /\ \A l \in 1 .. (cur + n) :
            (crc \o bytes)[l] = IF l <= cur THEN crc[l] ELSE bytes[l - cur]
  <2>1. crc \in Seq(Nat) /\ Len(crc) = cur
    BY <1>1
  <2> QED BY <2>1, BytesAdded, ZenonT(60)
<1>6. \A l \in 1 .. (cur + n) : (crc \o bytes)[l] \in {0, l}
  <2> SUFFICES ASSUME NEW l \in 1 .. (cur + n)
               PROVE  (crc \o bytes)[l] \in {0, l}
    OBVIOUS
  <2>1. CASE l <= cur
    BY <1>1, <1>5, <2>1
  <2>2. CASE ~(l <= cur)
    <3>1. l - cur \in 1 .. n /\ cur + (l - cur) = l
      BY <1>1, <2>2
    <3> QED BY <1>3, <1>5, <2>2, <3>1
  <2> QED BY <2>1, <2>2
<1>7. DOMAIN (crc \o bytes) = 1 .. (cur + n)
  BY <1>5
<1>8. p.chunks \in Seq(Chunk) /\ Len(p.chunks) = p.chunk_cnt
  BY <1>1
<1>9. Expanded(p.chunks) = crc \o bytes
  BY <1>1, ExpandedAppended
<1>10. PositionExact(p)
  BY <1>2, <1>4, <1>5, <1>6, <1>7, <1>8, <1>9 DEF PositionExact
<1> QED BY <1>10 DEF WriterInv

\* A gap of whole blocks is skipped, unless the write fails, which is reported.
LEMMA SkipKeeps ==
    ASSUME NEW o, WriterInv(o), NEW n \in Nat, NEW io
    PROVE  LET g == emit_skip_chunk(o, n, io)
           IN  /\ WriterInv(g)
               /\ n % BlockSize = 0 => g.error # "none" \/ g.cur_out_ptr = o.cur_out_ptr + n
<1> DEFINE g == emit_skip_chunk(o, n, io)
<1>1. CASE n % BlockSize # 0
  BY <1>1, ErrorKeeps DEF emit_skip_chunk
<1>2. CASE n % BlockSize = 0 /\ io = "skip"
  BY <1>2, WriteErrorKeeps DEF emit_skip_chunk
<1>3. CASE n % BlockSize = 0 /\ io # "skip"
  <2>1. g = [o EXCEPT !.chunks = Append(@, SkipChunk(n)),
                      !.cur_out_ptr = @ + n,
                      !.chunk_cnt = @ + 1,
                      !.crc32 = @ \o Zeros(n)]
    BY <1>3 DEF emit_skip_chunk
  <2>2. Shape(o)
    BY DEF WriterInv
  <2>3. /\ Shape(g) /\ g.error = o.error
        /\ g.chunks = Append(o.chunks, SkipChunk(n)) /\ g.chunk_cnt = o.chunk_cnt + 1
        /\ g.crc32 = o.crc32 \o Zeros(n) /\ g.cur_out_ptr = o.cur_out_ptr + n
    BY <2>1, <2>2 DEF Shape, Fields
  <2> HIDE DEF g
  <2>4. /\ SkipChunk(n) \in Chunk
        /\ ChunkBytes(SkipChunk(n)) = Zeros(n)
    <3>1. n \div BlockSize \in Nat /\ (n \div BlockSize) * BlockSize = n
      BY <1>3, WholeBlocks
    <3> QED BY <3>1 DEF SkipChunk, Chunk, SizesAgree, ChunkBytes
  <2>5. \A l \in 1 .. n : Zeros(n)[l] \in {0, o.cur_out_ptr + l}
    BY ZerosFacts
  <2>6. WriterInv(g)
    BY <1>3, <2>3, <2>4, <2>5, ZerosFacts, ChunkAdded
  <2> QED BY <2>3, <2>6 DEF g
<1> QED BY <1>1, <1>2, <1>3

\* Data with its last block filled up.
LEMMA RawDataFacts ==
    ASSUME NEW data \in Seq(Nat)
    PROVE  /\ RawData(data) \in Seq(Nat)
           /\ Len(RawData(data)) = RoundUp(Len(data))
           /\ \A l \in 1 .. RoundUp(Len(data)) :
                 RawData(data)[l] \in {0} \cup {data[m] : m \in {l} \cap DOMAIN data}
<1> DEFINE n == Len(data)
           z == RoundUp(n) - n
<1>1. n \in Nat /\ z \in Nat /\ RoundUp(n) \in Nat /\ n + z = RoundUp(n)
  BY RoundUpFacts, SMTT(60)
<1>2. DOMAIN data = 1 .. n
  OBVIOUS
<1> HIDE DEF n, z
<1>3. Zeros(z) \in Seq(Nat) /\ Len(Zeros(z)) = z /\ \A l \in 1 .. z : Zeros(z)[l] = 0
  BY <1>1, ZerosFacts
<1>4. RawData(data) = data \o Zeros(z)
  BY DEF RawData, n, z
<1>5. /\ data \o Zeros(z) \in Seq(Nat) /\ Len(data \o Zeros(z)) = n + z
      /\ \A l \in 1 .. (n + z) :
            (data \o Zeros(z))[l] = IF l <= n THEN data[l] ELSE Zeros(z)[l - n]
  BY <1>3, ConcatProperties, ZenonT(60) DEF n
<1>6. ASSUME NEW l \in 1 .. (n + z)
      PROVE  (data \o Zeros(z))[l] \in {0} \cup {data[m] : m \in {l} \cap DOMAIN data}
  <2>1. CASE l <= n
    <3>1. l \in {l} \cap DOMAIN data
      BY <1>1, <1>2, <2>1
    <3> QED BY <1>5, <2>1, <3>1
  <2>2. CASE ~(l <= n)
    <3>1. l - n \in 1 .. z
      BY <1>1, <2>2
    <3>2. (data \o Zeros(z))[l] = 0
      BY <1>3, <1>5, <2>2, <3>1
    <3> QED BY <3>2
  <2> QED BY <2>1, <2>2
<1> QED BY <1>1, <1>4, <1>5, <1>6 DEF n

\* Data that is meant for the current position is written there.
LEMMA RawChunkKeeps ==
    ASSUME NEW o, WriterInv(o), NEW data \in Seq(Nat), NEW io,
           \A l \in DOMAIN data : data[l] \in {0, o.cur_out_ptr + l}
    PROVE  WriterInv(EmitRawChunk(o, data, io))
<1> DEFINE g == EmitRawChunk(o, data, io)
           n == RoundUp(Len(data))
           bytes == RawData(data)
<1>1. CASE io \in {"chunk", "data"} \/ (io = "fill" /\ Len(data) % BlockSize # 0)
  BY <1>1, WriteErrorKeeps DEF EmitRawChunk
<1>2. CASE ~(io \in {"chunk", "data"} \/ (io = "fill" /\ Len(data) % BlockSize # 0))
  <2>1. g = [o EXCEPT !.chunks = Append(@, RawChunk(bytes)),
                      !.crc32 = @ \o bytes,
                      !.cur_out_ptr = @ + n,
                      !.chunk_cnt = @ + 1]
    BY <1>2 DEF EmitRawChunk
  <2>2. Shape(o)
    BY DEF WriterInv
  <2>3. /\ bytes \in Seq(Nat) /\ Len(bytes) = n
        /\ \A l \in 1 .. n : bytes[l] \in {0} \cup {data[m] : m \in {l} \cap DOMAIN data}
    BY RawDataFacts
  <2>4. n \in Nat /\ n % BlockSize = 0
    BY RoundUpFacts
  <2> HIDE DEF bytes, n
  <2>5. /\ Shape(g) /\ g.error = o.error
        /\ g.chunks = Append(o.chunks, RawChunk(bytes)) /\ g.chunk_cnt = o.chunk_cnt + 1
        /\ g.crc32 = o.crc32 \o bytes /\ g.cur_out_ptr = o.cur_out_ptr + n
    BY <2>1, <2>2 DEF Shape, Fields
  <2> HIDE DEF g
  <2>6. RawChunk(bytes) \in Chunk /\ ChunkBytes(RawChunk(bytes)) = bytes
    <3>1. n \div BlockSize \in Nat /\ (n \div BlockSize) * BlockSize = n
      BY <2>4, WholeBlocks
    <3> QED BY <2>3, <2>4, <3>1 DEF RawChunk, Chunk, SizesAgree, ChunkBytes
  <2>7. \A l \in 1 .. n : bytes[l] \in {0, o.cur_out_ptr + l}
    BY <2>3
  <2>8. WriterInv(g)
    BY <2>3, <2>4, <2>5, <2>6, <2>7, ChunkAdded
  <2> QED BY <2>8 DEF g
<1> QED BY <1>1, <1>2

-----------------------------------------------------------------------------
(* The operations                                                          *)

\* The bytes of data are zero or meant for the place off and the ones that follow.
Meant(data, off) == data \in Seq(Nat) /\ \A l \in DOMAIN data : data[l] \in {0, off + l}

LEMMA WriteChunkKeeps ==
    ASSUME NEW o, WriterInv(o), NEW off \in Nat, NEW data, Meant(data, off), NEW io
    PROVE  WriterInv(write_chunk_raw(o, off, data, io))
<1> DEFINE g == IF off > o.cur_out_ptr
                THEN emit_skip_chunk(o, off - o.cur_out_ptr, io) ELSE o
<1>1. o.cur_out_ptr \in Nat /\ o.cur_out_ptr % BlockSize = 0
  BY DEF WriterInv, PositionExact
<1>2. write_chunk_raw(o, off, data, io) =
        IF off < o.cur_out_ptr THEN Error(o, "behind")
        ELSE IF g.exited THEN g
        ELSE IF off % BlockSize # 0 THEN Error(g, "unaligned")
        ELSE IF off # g.cur_out_ptr THEN Error(g, "accounting")
        ELSE EmitRawChunk(g, data, io)
  BY DEF write_chunk_raw
<1>3. CASE off < o.cur_out_ptr
  BY <1>2, <1>3, ErrorKeeps
<1>4. CASE ~(off < o.cur_out_ptr)
  <2>1. /\ WriterInv(g)
        /\ off % BlockSize = 0 => g.error # "none" \/ g.cur_out_ptr = off
    <3>1. CASE off > o.cur_out_ptr
      <4> DEFINE n == off - o.cur_out_ptr
      <4>1. n \in Nat /\ o.cur_out_ptr + n = off
        BY <1>1, <3>1
      <4> HIDE DEF n
      <4>2. off % BlockSize = 0 => n % BlockSize = 0
        BY <1>1, <4>1, SumOfMultiples, SizeTypes
      <4>3. g = emit_skip_chunk(o, n, io)
        BY <3>1 DEF n
      <4> QED BY <4>1, <4>2, <4>3, SkipKeeps
    <3>2. CASE off = o.cur_out_ptr
      BY <1>1, <3>2
    <3> QED BY <1>1, <1>4, <3>1, <3>2
  <2> HIDE DEF g
  <2>2. CASE g.exited
    BY <1>2, <1>4, <2>1, <2>2
  <2>3. CASE ~g.exited /\ off % BlockSize # 0
    BY <1>2, <1>4, <2>1, <2>3, ErrorKeeps
  <2>4. CASE ~g.exited /\ off % BlockSize = 0 /\ off # g.cur_out_ptr
    BY <1>2, <1>4, <2>1, <2>4, ErrorKeeps
  <2>5. CASE ~g.exited /\ off % BlockSize = 0 /\ off = g.cur_out_ptr
    BY <1>2, <1>4, <2>1, <2>5, RawChunkKeeps DEF Meant
  <2> QED BY <2>2, <2>3, <2>4, <2>5
<1> QED BY <1>3, <1>4

LEMMA WriteAtKeeps ==
    ASSUME NEW o, WriterInv(o), NEW off, NEW data, NEW io
    PROVE  WriterInv(WriteAt(o, off, data, io))
<1> DEFINE p == WriteAt(o, off, data, io)
           here == off .. (off + Len(data) - 1)
           new == [u \in DOMAIN o.raw \cup here |->
                     IF u \in here THEN data[u - off + 1] ELSE o.raw[u]]
<1>1. CASE mode = "gz" /\ off < o.pos
  BY <1>1, ErrorKeeps DEF WriteAt
<1>2. CASE ~(mode = "gz" /\ off < o.pos) /\ io = "seek"
  BY <1>2, ErrorKeeps DEF WriteAt
<1>3. CASE ~(mode = "gz" /\ off < o.pos) /\ io = "data"
  BY <1>3, WriteErrorKeeps DEF WriteAt
<1>4. CASE ~(mode = "gz" /\ off < o.pos) /\ io \notin {"seek", "data"}
  <2>1. p = [o EXCEPT !.pos = off + Len(data), !.raw = new]
    BY <1>4 DEF WriteAt
  <2> HIDE DEF new, p
  <2>2. Shape(o) /\ o.error # "accounting" /\ PositionExact(o)
    BY DEF WriterInv
  <2>3. /\ Shape(p) /\ p.error = o.error /\ p.cur_out_ptr = o.cur_out_ptr
        /\ p.crc32 = o.crc32 /\ p.chunks = o.chunks /\ p.chunk_cnt = o.chunk_cnt
    BY <2>1, <2>2 DEF Shape, Fields
  <2>4. PositionExact(p)
    BY <2>2, <2>3, Zenon DEF PositionExact
  <2> QED BY <2>2, <2>3, <2>4 DEF WriterInv, p
<1> QED BY <1>1, <1>2, <1>3, <1>4

LEMMA WriteDataKeeps ==
    ASSUME NEW o, WriterInv(o), NEW off \in Nat, NEW data, Meant(data, off), NEW io
    PROVE  WriterInv(WriteData(o, off, data, io))
BY WriteChunkKeeps, WriteAtKeeps DEF WriteData

LEMMA WriteBlockKeeps ==
    ASSUME NEW o, WriterInv(o), NEW off \in Nat, NEW data, Meant(data, off), NEW io
    PROVE  WriterInv(WriteBlock(o, off, data, io)) /\ WriterInv(WriteFile(o, off, data, io))
<1>1. WriterInv(WriteData(o, off, data, io))
  BY WriteDataKeeps
<1>2. WriterInv(Error(o, "past_end")) /\ WriterInv(Error(o, "file"))
  BY ErrorKeeps
<1> QED BY <1>1, <1>2 DEF WriteBlock, WriteFile

LEMMA PadKeeps ==
    ASSUME NEW o, WriterInv(o), NEW n \in Nat, NEW io
    PROVE  WriterInv(Pad(o, n, io))
<1>1. o.cur_out_ptr \in Nat
  BY DEF WriterInv, PositionExact
<1>2. WriterInv(Error(o, "pad_past_end")) /\ WriterInv(Error(o, "pad_behind"))
  BY ErrorKeeps
<1>3. WriterInv(WriteAt(o, n - 1, <<0>>, io))
  BY WriteAtKeeps
<1>4. n > o.cur_out_ptr => WriterInv(emit_skip_chunk(o, n - o.cur_out_ptr, io))
  <2> SUFFICES ASSUME n > o.cur_out_ptr
               PROVE  WriterInv(emit_skip_chunk(o, n - o.cur_out_ptr, io))
    OBVIOUS
  <2>1. n - o.cur_out_ptr \in Nat
    BY <1>1
  <2> QED BY <2>1, SkipKeeps
<1> QED BY <1>2, <1>3, <1>4 DEF Pad

\* Opening and closing set the state of the writer and the header.
LEMMA StateKeeps ==
    ASSUME NEW o, WriterInv(o), NEW s, NEW h
    PROVE  /\ WriterInv([o EXCEPT !.state = s])
           /\ WriterInv([o EXCEPT !.state = s, !.header = h])
<1>1. Shape(o) /\ o.error # "accounting" /\ PositionExact(o)
  BY DEF WriterInv
<1>2. ASSUME NEW p, p \in {[o EXCEPT !.state = s], [o EXCEPT !.state = s, !.header = h]}
      PROVE  WriterInv(p)
  <2>1. /\ Shape(p) /\ p.error = o.error /\ p.cur_out_ptr = o.cur_out_ptr
        /\ p.crc32 = o.crc32 /\ p.chunks = o.chunks /\ p.chunk_cnt = o.chunk_cnt
    BY <1>1, <1>2 DEF Shape, Fields
  <2>2. PositionExact(p)
    BY <1>1, <2>1, Zenon DEF PositionExact
  <2> QED BY <1>1, <2>1, <2>2 DEF WriterInv
<1> QED BY <1>2

LEMMA CloseKeeps ==
    ASSUME NEW o, WriterInv(o), NEW io
    PROVE  WriterInv(Close(o, io))
<1> DEFINE s == IF io = "seek" THEN WriteError(Error(o, "seek")) ELSE o
<1>1. WriterInv(s)
  <2>1. WriterInv(Error(o, "seek"))
    BY ErrorKeeps
  <2> QED BY <2>1, WriteErrorKeeps
<1>2. WriterInv(WriteError(o))
  BY WriteErrorKeeps
<1> HIDE DEF s
<1>3. Close(o, io) =
        IF mode # "sparse" THEN [o EXCEPT !.state = "closed"]
        ELSE IF s.exited THEN s
        ELSE IF io = "header" THEN [WriteError(o) EXCEPT !.state = "closed"]
        ELSE [s EXCEPT !.state = "closed", !.header = Header(o)]
  BY DEF Close, s
<1>4. /\ WriterInv([o EXCEPT !.state = "closed"])
      /\ WriterInv([WriteError(o) EXCEPT !.state = "closed"])
      /\ WriterInv([s EXCEPT !.state = "closed", !.header = Header(o)])
  BY <1>1, <1>2, StateKeeps
<1> QED BY <1>1, <1>3, <1>4

\* What a failing close loses is not what the invariant speaks of.
LEMMA LostKeeps ==
    ASSUME NEW o, WriterInv(o), NEW n
    PROVE  WriterInv(Lost(o, n))
<1> DEFINE kept == IF mode = "sparse" THEN o.raw
                   ELSE [u \in {v \in DOMAIN o.raw : v < n} |-> o.raw[u]]
           p == Lost(o, n)
<1>1. p = [o EXCEPT !.lost = TRUE, !.raw = kept]
  BY DEF Lost
<1>2. Shape(o) /\ PositionExact(o) /\ o.error # "accounting"
  BY DEF WriterInv
<1> HIDE DEF kept, p
<1>3. /\ Shape(p) /\ p.error = o.error /\ p.cur_out_ptr = o.cur_out_ptr
      /\ p.crc32 = o.crc32 /\ p.chunks = o.chunks /\ p.chunk_cnt = o.chunk_cnt
  BY <1>1, <1>2 DEF Shape, Fields
<1>4. PositionExact(p)
  BY <1>2, <1>3, Zenon DEF PositionExact
<1> QED BY <1>2, <1>3, <1>4 DEF WriterInv, p

-----------------------------------------------------------------------------
(* Every step                                                              *)

Inv == len \in Nat /\ WriterInv(out)

LEMMA OpenStep ==
    ASSUME Inv, NEW io, open_output_file(io)
    PROVE  Inv'
<1>1. WriterInv(Error(out, "open")) /\ WriterInv(WriteError(out))
  BY ErrorKeeps, WriteErrorKeeps DEF Inv
<1>2. /\ WriterInv([Error(out, "open") EXCEPT !.state = "failed"])
      /\ WriterInv([WriteError(out) EXCEPT !.state = "failed"])
      /\ WriterInv([out EXCEPT !.state = "open",
                               !.header = [out.header EXCEPT !.total_blks = len \div BlockSize]])
  BY <1>1, StateKeeps DEF Inv
<1>3. \/ out' = [Error(out, "open") EXCEPT !.state = "failed"]
      \/ out' = [WriteError(out) EXCEPT !.state = "failed"]
      \/ out' = [out EXCEPT !.state = "open", !.header.total_blks = len \div BlockSize]
  BY DEF open_output_file
<1>4. Shape(out)
  BY DEF Inv, WriterInv
<1>5. [out EXCEPT !.state = "open", !.header.total_blks = len \div BlockSize]
        = [out EXCEPT !.state = "open",
                      !.header = [out.header EXCEPT !.total_blks = len \div BlockSize]]
  BY <1>4 DEF Shape, Fields
<1>6. len' = len
  BY DEF open_output_file
<1> QED BY <1>2, <1>3, <1>5, <1>6 DEF Inv

LEMMA DataMeant ==
    ASSUME NEW off \in Nat, NEW n \in Nat
    PROVE  Meant(DataFor(off, n), off)
<1>1. DataFor(off, n) \in Seq(Nat) /\ DOMAIN DataFor(off, n) = 1 .. n
  BY DEF DataFor
<1> QED BY <1>1 DEF DataFor, Meant

LEMMA InvStep ==
    ASSUME Inv, [WriterNext]_outVars
    PROVE  Inv'
<1>1. CASE UNCHANGED outVars
  BY <1>1 DEF outVars, Inv
<1>2. ASSUME NEW io, open_output_file(io)
      PROVE  Inv'
  BY <1>2, OpenStep
<1>3. ASSUME NEW io, NEW off \in 0 .. len, NEW n \in Sizes,
             \/ write_data_block(off, DataFor(off, n), io)
             \/ write_data_file(off, DataFor(off, n), io)
      PROVE  Inv'
  <2>1. off \in Nat /\ Meant(DataFor(off, n), off)
    BY DataMeant, SizeTypes DEF Inv
  <2>2. /\ len' = len
        /\ \/ out' = WriteBlock(out, off, DataFor(off, n), io)
           \/ out' = WriteFile(out, off, DataFor(off, n), io)
    BY <1>3 DEF write_data_block, write_data_file
  <2>3. /\ WriterInv(WriteBlock(out, off, DataFor(off, n), io))
        /\ WriterInv(WriteFile(out, off, DataFor(off, n), io))
    BY <2>1, WriteBlockKeeps DEF Inv
  <2> QED BY <2>2, <2>3 DEF Inv
<1>4. ASSUME NEW io, NEW n \in 1 .. (len + 1), pad_output_file(n, io)
      PROVE  Inv'
  <2>1. out' = Pad(out, n, io) /\ len' = len
    BY <1>4 DEF pad_output_file
  <2>2. n \in Nat
    BY DEF Inv
  <2>3. WriterInv(Pad(out, n, io))
    BY <2>2, PadKeeps DEF Inv
  <2> QED BY <2>1, <2>3 DEF Inv
<1>5. ASSUME NEW io, close_output_file(io)
      PROVE  Inv'
  <2>1. /\ out' = Close(out, io) \/ \E n \in 0 .. len : out' = Lost(Close(out, io), n)
        /\ len' = len
    BY <1>5 DEF close_output_file
  <2> QED BY <2>1, CloseKeeps, LostKeeps DEF Inv
<1> QED BY <1>1, <1>2, <1>3, <1>4, <1>5 DEF WriterNext

LEMMA InitInv == WriterInit => Inv
<1> SUFFICES ASSUME WriterInit PROVE Inv
  OBVIOUS
<1>1. len \in Nat /\ out = NewOut
  BY SizeTypes DEF WriterInit
<1>2. Shape(NewOut) /\ NewOut.error # "accounting"
  BY DEF NewOut, Shape, Fields
<1>3. 0 % BlockSize = 0
  <2>1. (0 * BlockSize + 0) % BlockSize = 0
    BY UniqueDivision, SizeTypes
  <2> QED BY <2>1, SizeTypes
<1>4. PositionExact(NewOut)
  <2>1. /\ NewOut.cur_out_ptr = 0 /\ NewOut.crc32 = <<>>
        /\ NewOut.chunks = <<>> /\ NewOut.chunk_cnt = 0
    BY DEF NewOut
  <2>2. /\ <<>> \in Seq(Nat) /\ <<>> \in Seq(Chunk) /\ Len(<<>>) = 0
        /\ \A l \in DOMAIN <<>> : FALSE
    OBVIOUS
  <2>3. Expanded(<<>>) = <<>>
    BY DEF Expanded, FlattenSeq
  <2> QED BY <1>3, <2>1, <2>2, <2>3 DEF PositionExact
<1> QED BY <1>1, <1>2, <1>4 DEF Inv, WriterInv

\* The chunks in the file are what the position, the chunk count and the checksum
\* say, and each byte is where it belongs, whatever the callers ask for and
\* whichever requests are refused under -f (output_file.c:149-249).
THEOREM ChunksAreTheStream == WriterSpec => []StreamConsistent
<1>1. Inv /\ [WriterNext]_outVars => Inv'
  BY InvStep
<1>2. Inv => StreamConsistent
  BY DEF Inv, WriterInv, PositionExact, StreamConsistent
<1> QED BY <1>1, <1>2, InitInv, PTL DEF WriterSpec

\* The position of the writer stays a multiple of the block size, the checksum
\* covers exactly the bytes up to it, each zero or meant for its place, and the
\* chunks are counted and stand for them (output_file.c:149-249), whatever fails.
THEOREM PositionIsExact == WriterSpec => []PositionExact(out)
<1>1. Inv /\ [WriterNext]_outVars => Inv'
  BY InvStep
<1>2. Inv => PositionExact(out)
  BY DEF Inv, WriterInv
<1> QED BY <1>1, <1>2, InitInv, PTL DEF WriterSpec

\* "internal error, offset accounting screwy" (output_file.c:215) is never the
\* first error: only a failed write can lead to it.
THEOREM AccountingNeverFirst == WriterSpec => []AccountingHolds
<1>1. Inv /\ [WriterNext]_outVars => Inv'
  BY InvStep
<1>2. Inv => AccountingHolds
  BY DEF Inv, WriterInv, AccountingHolds
<1> QED BY <1>1, <1>2, InitInv, PTL DEF WriterSpec

-----------------------------------------------------------------------------
(* The image: the invariant                                                *)

\* What a writer in state o has put at place u.
Byte(o, u) ==
    IF mode = "sparse" THEN IF u < o.cur_out_ptr THEN o.crc32[u + 1] ELSE 0
    ELSE IF u \in DOMAIN o.raw THEN o.raw[u] ELSE 0

\* It has not gone beyond the place n.
Within(o, n) ==
    IF mode = "sparse" THEN o.cur_out_ptr <= n
    ELSE o.pos \in 0 .. n /\ \A u \in DOMAIN o.raw : u \in 0 .. (n - 1)

FirstFree == first_data_block + 1 + DescBlocks

End(p) == (p.block + Blocks(p.size)) * BlockSize

\* The block behind the pieces before data_blocks[n].
FreeBefore(n) ==
    IF n = 1 THEN FirstFree ELSE data_blocks[n - 1].block + Blocks(data_blocks[n - 1].size)

\* How far the image is settled.
Frontier ==
    CASE phase = "super"  -> 0
      [] phase = "desc"   -> DescStart
      [] phase = "blocks" -> FreeBefore(k) * BlockSize

Apart(p, q) ==
    \/ p.block + Blocks(p.size) <= q.block
    \/ q.block + Blocks(q.size) <= p.block

\* The pieces of the queue lie apart, behind the descriptors, in the file system.
PlacesInv ==
    /\ QueueInv
    /\ len \in Lengths /\ mode \in Modes /\ force \in BOOLEAN /\ kilo \in Kilos
    /\ \A p \in queued :
          /\ FirstFree <= p.block /\ p.block + Blocks(p.size) <= len \div BlockSize
          /\ \A q \in queued : p # q => Apart(p, q)

Writing == {"super", "desc", "blocks", "close"}

\* What the writer is doing in each phase, where for_each_data_block is, and what an
\* error has done.
PhaseInv ==
    /\ phase \in {"queue", "done", "killed"} \cup Writing
    /\ phase = "queue" => out = NewOut
    /\ phase \in {"queue", "super", "desc"} => k = 1 /\ last_block = 0
    /\ phase = "blocks" =>
          /\ k \in 1 .. (Len(data_blocks) + 1)
          /\ last_block = IF k = 1 THEN 0 ELSE FreeBefore(k) - 1
    /\ phase \in Writing \cup {"killed"} => out.state = "open"

StateInv ==
    /\ WriterInv(out)
    /\ out.state = "closed" => phase = "done"
    /\ out.state = "open" =>
          out.header = [total_blks |-> len \div BlockSize, total_chunks |-> 0,
                        image_checksum |-> <<>>]
    /\ out.state = "closed" /\ mode = "sparse" /\ ~out.write_failed =>
          out.header = Header(out) /\ ~out.exited
    /\ out.exited <=> ~force /\ out.error # "none"
    /\ out.error = "none" => ~out.write_failed /\ (phase = "done" => out.state = "closed")

\* The image is right below n.
Settled(o, n) == Within(o, n) /\ \A u \in 0 .. (n - 1) : Byte(o, u) = Expected(u)

\* It is padded, which clears the last byte of a file without chunks.
Padded(o) ==
    /\ \A u \in 0 .. (len - 1) :
          Byte(o, u) = IF mode # "sparse" /\ u = len - 1 THEN 0 ELSE Expected(u)
    /\ IF mode = "sparse" THEN o.cur_out_ptr = len
       ELSE len - 1 \in DOMAIN o.raw /\ \A u \in DOMAIN o.raw : u \in 0 .. (len - 1)

\* And it stays so, unless closing loses what was still to be written.
Whole(o) == Padded(o) \/ (mode # "sparse" /\ o.lost = TRUE)

\* Until the first error, every byte below the frontier is what it is to be, and a
\* file that is full is full of data.
WrittenInv ==
    out.error = "none" =>
        /\ phase \in {"super", "desc", "blocks"} =>
              /\ Settled(out, Frontier)
              /\ mode # "sparse" /\ out.pos = len => Holds(len - 1)
        /\ phase \in {"close", "done"} => Whole(out)

WriterSide == PlacesInv /\ PhaseInv /\ StateInv /\ WrittenInv /\ OnlyKnownErrors

\* What the first n chunks stand for.
Prefix(n) == Expanded(SubSeq(out.chunks, 1, n))

Ended == result \in {"checking", "ok", "blocks", "crc"}

Zero == \A j \in DOMAIN zerobuf : zerobuf[j] = 0

\* A chunk that simg2img may find: its sizes need not agree.
FoundChunk == [type : {"raw", "dont_care"}, chunk_sz : Nat, total_sz : Nat, data : Seq(Int)]

Malformed(c) == ~(IF c.type = "raw" THEN c.total_sz = c.chunk_sz * BlockSize ELSE c.total_sz = 0)

\* The input of simg2img is what was written, whole, and its first i chunks are read.
ReadsWritten ==
    /\ image.chunks = out.chunks
    /\ total_blocks * BlockSize = Len(Prefix(i))
    /\ at = Len(Prefix(i))
    /\ \A u \in DOMAIN img : u \in 0 .. (at - 1)
    /\ \A u \in 0 .. (at - 1) : Reader!OutByte(u) = Prefix(i)[u + 1]
    /\ Zero => in_crc = Prefix(i)
    /\ result # "chunk"
    /\ Ended => size = at

\* Chunk n of the input is one that is rejected, has a byte that nobody wrote, or
\* stands for a block more than was written.
Differs(n) ==
    LET c == image.chunks[n] IN
    \/ Malformed(c) /\ i < n
    \/ /\ c.type = "raw" /\ Len(c.data) > 0 /\ c.data[1] = -1
       /\ i >= n => \E j \in DOMAIN in_crc : in_crc[j] = -1
    \/ /\ c.type = "dont_care" /\ c.chunk_sz = out.chunks[n].chunk_sz + 1
       /\ total_blocks * BlockSize = Len(Prefix(i)) + IF i >= n THEN BlockSize ELSE 0

\* It is damaged: its end is missing, or one chunk differs.
ReadsDamaged ==
    /\ out.error = "none" /\ damaged
    /\ \/ Len(image.chunks) < Len(out.chunks)
       \/ /\ Len(image.chunks) = Len(out.chunks)
          /\ \E n \in DOMAIN out.chunks :
                /\ Differs(n)
                /\ \A m \in DOMAIN out.chunks \ {n} : image.chunks[m] = out.chunks[m]

\* What simg2img works on, and where it is.
ReaderState ==
    /\ mode = "sparse" /\ (out.exited \/ phase \in {"killed", "done"})
    /\ image.header = out.header /\ image.chunks \in Seq(FoundChunk)
    /\ i \in 0 .. Len(image.chunks) /\ i <= out.header.total_chunks
    /\ total_blocks \in Nat /\ in_crc \in Seq(Int) /\ zerobuf \in ZeroBufs
    /\ Ended => i = out.header.total_chunks
    /\ result = "ok" =>
          in_crc = out.header.image_checksum /\ total_blocks = out.header.total_blks
    /\ result = "blocks" => total_blocks # out.header.total_blks
    /\ result = "crc" => in_crc # out.header.image_checksum

ReaderInput ==
    \/ out.state = "open" /\ total_blocks = 0 /\ ~damaged
    \/ out.state = "closed" /\ ~out.write_failed /\ (ReadsWritten \/ ReadsDamaged)

ReaderInv == result # "none" => ReaderState /\ ReaderInput
-----------------------------------------------------------------------------
(* Blocks and bytes                                                        *)

LEMMA Times ==
    ASSUME NEW a \in Int, NEW b \in Int, a <= b
    PROVE  a * BlockSize \in Int /\ b * BlockSize \in Int /\ a * BlockSize <= b * BlockSize
<1>1. BlockSize \in Nat \ {0}
  BY SizeTypes
<1>2. a * BlockSize \in Int /\ b * BlockSize \in Int
  BY <1>1
<1>3. CASE a = b
  BY <1>2, <1>3
<1>4. CASE a < b
  BY <1>1, <1>2, <1>4, Multiples
<1> QED BY <1>2, <1>3, <1>4

LEMMA SumTimes ==
    ASSUME NEW a \in Int, NEW b \in Int
    PROVE  (a + b) * BlockSize = a * BlockSize + b * BlockSize
BY SizeTypes

LEMMA SameMultiple ==
    ASSUME NEW a \in Int, NEW b \in Int, a * BlockSize = b * BlockSize
    PROVE  a = b
<1>1. /\ BlockSize \in Nat \ {0}
      /\ (a * BlockSize + 0) \div BlockSize = a /\ (b * BlockSize + 0) \div BlockSize = b
  BY SizeTypes, UniqueDivision
<1>2. a * BlockSize + 0 = b * BlockSize + 0
  BY Zenon
<1> QED BY <1>1, <1>2, Zenon

LEMMA MultipleIsAligned ==
    ASSUME NEW a \in Int
    PROVE  (a * BlockSize) % BlockSize = 0
<1>1. BlockSize \in Nat \ {0}
  BY SizeTypes
<1>2. (a * BlockSize + 0) % BlockSize = 0
  BY <1>1, UniqueDivision
<1> QED BY <1>1, <1>2

\* The blocks of a piece hold it.
LEMMA BlocksFacts ==
    ASSUME NEW n \in Nat \ {0}
    PROVE  /\ Blocks(n) \in Nat \ {0}
           /\ Blocks(n) * BlockSize = RoundUp(n)
           /\ RoundUp(n) \in Nat /\ n <= RoundUp(n)
<1>1. RoundUp(n) \in Nat /\ n <= RoundUp(n)
  BY RoundUpFacts
<1>2. Blocks(n) * BlockSize = RoundUp(n)
  BY DEF Blocks, RoundUp
<1>3. Blocks(n) \in Int
  <2>1. BlockSize \in Nat \ {0} /\ n + BlockSize - 1 \in Int
    BY SizeTypes
  <2> QED BY <2>1, QuotientAndRest DEF Blocks
<1>4. ~(Blocks(n) <= 0)
  <2> SUFFICES ASSUME Blocks(n) <= 0 PROVE FALSE
    OBVIOUS
  <2>1. Blocks(n) * BlockSize <= 0 * BlockSize
    BY <1>3, Times
  <2>2. 0 * BlockSize = 0
    BY SizeTypes
  <2> QED BY <1>1, <1>2, <2>1, <2>2
<1> QED BY <1>1, <1>2, <1>3, <1>4

\* The last block of the file system that is whole ends before its end.
LEMMA WholeLen ==
    ASSUME NEW n \in Nat
    PROVE  n \div BlockSize \in Nat /\ (n \div BlockSize) * BlockSize <= n
<1>1. BlockSize \in Nat \ {0}
  BY SizeTypes
<1>2. /\ n \div BlockSize \in Nat /\ n % BlockSize \in 0 .. (BlockSize - 1)
      /\ n = (n \div BlockSize) * BlockSize + (n % BlockSize)
  BY <1>1, QuotientAndRest, WholeBlocks
<1> DEFINE q == (n \div BlockSize) * BlockSize
           r == n % BlockSize
<1>3. q \in Int
  BY <1>1, <1>2
<1>4. r \in Nat /\ n = q + r
  BY <1>1, <1>2
<1> HIDE DEF q, r
<1>5. q <= n
  BY <1>3, <1>4
<1> QED BY <1>2, <1>5 DEF q

LEMMA RoundUpMultiple ==
    ASSUME NEW a \in Nat
    PROVE  a * BlockSize \in Nat /\ RoundUp(a * BlockSize) = a * BlockSize
<1>1. BlockSize \in Nat \ {0} /\ BlockSize - 1 \in 0 .. (BlockSize - 1)
  BY SizeTypes
<1>2. a * BlockSize \in Nat
  <2>1. 0 * BlockSize <= a * BlockSize /\ a * BlockSize \in Int
    BY Times
  <2>2. 0 * BlockSize = 0
    BY <1>1
  <2> QED BY <2>1, <2>2
<1>3. (a * BlockSize + (BlockSize - 1)) \div BlockSize = a
  BY <1>1, UniqueDivision
<1>4. a * BlockSize + BlockSize - 1 = a * BlockSize + (BlockSize - 1)
  BY <1>1, <1>2
<1> QED BY <1>2, <1>3, <1>4 DEF RoundUp

-----------------------------------------------------------------------------
(* The layout                                                              *)

LEMMA Constants ==
    ASSUME PlacesInv
    PROVE  /\ len \in Nat \ {0} /\ kilo \in Nat \ {0} /\ BlockSize \in Nat \ {0}
           /\ DescBlocks \in Nat \ {0}
           /\ kilo = BlockSize \/ 2 * kilo <= BlockSize
           /\ first_data_block = IF kilo < BlockSize THEN 0 ELSE 1
           /\ FirstFree \in Nat /\ FirstFree * BlockSize <= len
<1>1. len \in Lengths /\ kilo \in Kilos
  BY DEF PlacesInv
<1>2. BlockSize \in Nat \ {0} /\ DescBlocks \in Nat \ {0} /\ Lengths \subseteq Nat \ {0}
  BY SizeTypes, ImageConstants
<1>3. kilo \in 1 .. BlockSize
  BY <1>1, ImageConstants
<1>4. first_data_block = IF kilo < BlockSize THEN 0 ELSE 1
  BY <1>2, <1>3 DEF first_data_block
<1>5. FirstFree = (IF kilo < BlockSize THEN 1 ELSE 2) + DescBlocks
  BY <1>2, <1>3, <1>4 DEF FirstFree
<1>6. kilo = BlockSize \/ 2 * kilo <= BlockSize
  BY <1>1, HeadFits
<1>7. FirstFree * BlockSize <= len
  BY <1>1, <1>5, HeadFits
<1> QED BY <1>1, <1>2, <1>3, <1>4, <1>5, <1>6, <1>7

\* The superblock is in front of the descriptors, and these are in front of the
\* blocks that can be allocated.
LEMMA HeadPlaces ==
    ASSUME PlacesInv
    PROVE  /\ DescStart \in Nat /\ DescStart % BlockSize = 0
           /\ 2 * kilo <= DescStart
           /\ kilo < BlockSize => DescStart = BlockSize
           /\ kilo = BlockSize => DescStart = kilo + kilo
           /\ DescBlocks * BlockSize \in Nat \ {0}
           /\ FirstFree * BlockSize \in Nat
           /\ FirstFree * BlockSize = DescStart + DescBlocks * BlockSize
           /\ RoundUp(DescBlocks * BlockSize) = DescBlocks * BlockSize
<1>1. /\ kilo \in Nat \ {0} /\ BlockSize \in Nat \ {0} /\ DescBlocks \in Nat \ {0}
      /\ kilo = BlockSize \/ 2 * kilo <= BlockSize
      /\ first_data_block = IF kilo < BlockSize THEN 0 ELSE 1
  BY Constants
<1>2. first_data_block + 1 \in Int
  BY <1>1
<1>3. DescStart % BlockSize = 0
  BY <1>2, MultipleIsAligned DEF DescStart
<1>4. kilo < BlockSize => DescStart = BlockSize
  BY <1>1 DEF DescStart
<1>5. kilo = BlockSize => DescStart = kilo + kilo
  BY <1>1 DEF DescStart
<1>6. kilo < BlockSize \/ kilo = BlockSize
  BY <1>1
<1>7. DescStart \in Nat /\ 2 * kilo <= DescStart
  BY <1>1, <1>4, <1>5, <1>6
<1>8. DescBlocks * BlockSize \in Nat
  <2>1. 1 * BlockSize <= DescBlocks * BlockSize /\ DescBlocks * BlockSize \in Int
    BY <1>1, Times
  <2> QED BY <1>1, <2>1
<1>9. FirstFree * BlockSize = DescStart + DescBlocks * BlockSize
  BY <1>1, <1>2, SumTimes DEF FirstFree, DescStart
<1>10. DescBlocks * BlockSize # 0
  <2>1. 1 * BlockSize <= DescBlocks * BlockSize
    BY <1>1, Times
  <2> QED BY <1>1, <2>1
<1>11. RoundUp(DescBlocks * BlockSize) = DescBlocks * BlockSize
  BY <1>1, RoundUpMultiple
<1> QED BY <1>3, <1>4, <1>5, <1>7, <1>8, <1>9, <1>10, <1>11

\* A piece lies in its blocks.
LEMMA PiecePlaces ==
    ASSUME PlacesInv, NEW p \in queued
    PROVE  /\ p \in Pieces /\ p.block \in Nat /\ p.size \in Nat \ {0} /\ p.file \in BOOLEAN
           /\ Blocks(p.size) \in Nat \ {0}
           /\ PieceStart(p) \in Nat /\ PieceStart(p) % BlockSize = 0
           /\ FirstFree * BlockSize <= PieceStart(p)
           /\ p.size <= RoundUp(p.size) /\ RoundUp(p.size) \in Nat
           /\ PieceStart(p) + RoundUp(p.size) = End(p)
           /\ End(p) \in Nat /\ End(p) <= len
<1>1. p \in Pieces
  BY DEF PlacesInv, QueueInv, QueueTypeOK
<1>2. p.block \in Nat /\ p.size \in Nat \ {0} /\ p.file \in BOOLEAN
  BY <1>1, ImageConstants
<1>3. /\ Blocks(p.size) \in Nat \ {0} /\ Blocks(p.size) * BlockSize = RoundUp(p.size)
      /\ RoundUp(p.size) \in Nat /\ p.size <= RoundUp(p.size)
  BY <1>2, BlocksFacts
<1>4. /\ FirstFree \in Nat /\ len \in Nat
      /\ FirstFree <= p.block /\ p.block + Blocks(p.size) <= len \div BlockSize
  BY Constants DEF PlacesInv
<1>5. len \div BlockSize \in Nat /\ (len \div BlockSize) * BlockSize <= len
  BY <1>4, WholeLen
<1>6. /\ FirstFree * BlockSize \in Int /\ PieceStart(p) \in Int
      /\ FirstFree * BlockSize <= PieceStart(p)
  BY <1>2, <1>4, Times DEF PieceStart
<1>7. PieceStart(p) % BlockSize = 0
  BY <1>2, MultipleIsAligned DEF PieceStart
<1>8. PieceStart(p) + RoundUp(p.size) = End(p)
  <2>1. p.block \in Int /\ Blocks(p.size) \in Int
    BY <1>2, <1>3
  <2>2. (p.block + Blocks(p.size)) * BlockSize = p.block * BlockSize + Blocks(p.size) * BlockSize
    BY <2>1, SumTimes, Zenon
  <2> QED BY <1>3, <2>2, Zenon DEF PieceStart, End
<1>9. End(p) <= len /\ End(p) \in Int
  <2>1. p.block + Blocks(p.size) \in Int
    BY <1>2, <1>3
  <2>2. /\ End(p) \in Int /\ (len \div BlockSize) * BlockSize \in Int
        /\ End(p) <= (len \div BlockSize) * BlockSize
    BY <1>4, <1>5, <2>1, Times DEF End
  <2> QED BY <1>4, <1>5, <2>2
<1>10. PieceStart(p) \in Nat
  <2>1. 0 * BlockSize <= PieceStart(p)
    BY <1>2, Times DEF PieceStart
  <2>2. 0 * BlockSize = 0
    BY SizeTypes
  <2> QED BY <1>6, <2>1, <2>2
<1> QED BY <1>1, <1>2, <1>3, <1>6, <1>7, <1>8, <1>9, <1>10

LEMMA ListedPieces ==
    ASSUME PlacesInv
    PROVE  /\ Len(data_blocks) \in Nat /\ DOMAIN data_blocks = 1 .. Len(data_blocks)
           /\ \A n \in 1 .. Len(data_blocks) : data_blocks[n] \in queued
           /\ \A p \in queued : \E n \in 1 .. Len(data_blocks) : data_blocks[n] = p
<1>1. QueueTypeOK /\ NothingLost
  BY DEF PlacesInv, QueueInv
<1>2. Len(data_blocks) \in Nat /\ DOMAIN data_blocks = 1 .. Len(data_blocks)
  BY <1>1 DEF QueueTypeOK
<1> QED BY <1>1, <1>2 DEF NothingLost

\* A piece ends before the next one in the list starts.
LEMMA InOrder ==
    ASSUME PlacesInv, NEW n \in 1 .. Len(data_blocks), NEW m \in 1 .. Len(data_blocks), n < m
    PROVE  /\ data_blocks[n].block + Blocks(data_blocks[n].size) <= data_blocks[m].block
           /\ End(data_blocks[n]) <= PieceStart(data_blocks[m])
<1> DEFINE p == data_blocks[n]
           q == data_blocks[m]
<1>1. p \in queued /\ q \in queued /\ n \in DOMAIN data_blocks /\ m \in DOMAIN data_blocks
  BY ListedPieces
<1>2. p # q
  BY <1>1 DEF PlacesInv, QueueInv, NothingLost
<1>3. Apart(p, q)
  BY <1>1, <1>2 DEF PlacesInv
<1>4. p.block <= q.block
  BY <1>1 DEF PlacesInv, QueueInv, Sorted, BlockAt
<1>5. /\ p.block \in Nat /\ q.block \in Nat
      /\ Blocks(p.size) \in Nat \ {0} /\ Blocks(q.size) \in Nat \ {0}
  BY <1>1, PiecePlaces
<1> HIDE DEF p, q
<1>6. p.block + Blocks(p.size) <= q.block
  BY <1>3, <1>4, <1>5 DEF Apart
<1>7. p.block + Blocks(p.size) \in Int /\ q.block \in Int
  BY <1>5
<1>8. (p.block + Blocks(p.size)) * BlockSize <= q.block * BlockSize
  BY <1>6, <1>7, Times
<1>9. End(p) <= PieceStart(q)
  BY <1>8, Zenon DEF End, PieceStart
<1> QED BY <1>6, <1>9 DEF p, q

\* What is in front of the first block that can be allocated.
LEMMA HeadHolds ==
    ASSUME PlacesInv, NEW u \in Nat
    PROVE  /\ u < DescStart => (Holds(u) <=> u \in kilo .. (2 * kilo - 1))
           /\ DescStart <= u /\ u < FirstFree * BlockSize => Holds(u)
<1>1. /\ DescStart \in Nat /\ DescBlocks * BlockSize \in Nat /\ FirstFree * BlockSize \in Nat
      /\ FirstFree * BlockSize = DescStart + DescBlocks * BlockSize
  BY HeadPlaces
<1> DEFINE b == DescBlocks * BlockSize
           f == FirstFree * BlockSize
<1>2. DescStart \in Nat /\ b \in Nat /\ f \in Nat /\ f = DescStart + b
  BY <1>1
<1>3. \A p \in queued : PieceStart(p) \in Nat /\ f <= PieceStart(p)
  BY PiecePlaces
<1>4. Holds(u) <=> \/ u \in kilo .. (2 * kilo - 1)
                   \/ u \in DescStart .. (DescStart + b - 1)
                   \/ \E p \in queued : u \in PieceStart(p) .. (PieceStart(p) + p.size - 1)
  BY DEF Holds
<1> HIDE DEF b, f
<1>5. ASSUME u < f
      PROVE  \A p \in queued : u \notin PieceStart(p) .. (PieceStart(p) + p.size - 1)
  BY <1>2, <1>3, <1>5
<1>6. u < DescStart => u < f /\ u \notin DescStart .. (DescStart + b - 1)
  BY <1>2
<1>7. DescStart <= u /\ u < f => u \in DescStart .. (DescStart + b - 1)
  BY <1>2
<1> QED BY <1>4, <1>5, <1>6, <1>7 DEF f

\* What the next piece in the list follows.
LEMMA FreeFacts ==
    ASSUME PlacesInv, NEW n \in 1 .. (Len(data_blocks) + 1)
    PROVE  /\ FreeBefore(n) \in Nat /\ FreeBefore(n) * BlockSize \in Nat
           /\ FirstFree * BlockSize <= FreeBefore(n) * BlockSize
           /\ FreeBefore(n) * BlockSize <= len
           /\ \A m \in 1 .. Len(data_blocks) :
                 m < n => End(data_blocks[m]) <= FreeBefore(n) * BlockSize
           /\ n <= Len(data_blocks) =>
                 /\ FreeBefore(n) <= data_blocks[n].block
                 /\ FreeBefore(n) * BlockSize <= PieceStart(data_blocks[n])
<1>1. Len(data_blocks) \in Nat /\ \A m \in 1 .. Len(data_blocks) : data_blocks[m] \in queued
  BY ListedPieces
<1>2. FirstFree \in Nat /\ FirstFree * BlockSize \in Nat /\ FirstFree * BlockSize <= len
  BY Constants, HeadPlaces
<1>3. CASE n = 1
  <2>1. FreeBefore(n) = FirstFree
    BY <1>3 DEF FreeBefore
  <2>2. ASSUME n <= Len(data_blocks)
        PROVE  /\ FirstFree <= data_blocks[n].block
               /\ FirstFree * BlockSize <= PieceStart(data_blocks[n])
    <3>1. data_blocks[n] \in queued
      BY <1>1, <2>2
    <3> QED BY <3>1, PiecePlaces DEF PlacesInv
  <2> QED BY <1>1, <1>2, <1>3, <2>1, <2>2
<1>4. CASE n # 1
  <2> DEFINE p == data_blocks[n - 1]
  <2>1. n - 1 \in 1 .. Len(data_blocks) /\ p \in queued
    BY <1>1, <1>4
  <2>2. FreeBefore(n) = p.block + Blocks(p.size)
    BY <1>4 DEF FreeBefore
  <2>3. /\ p.block \in Nat /\ Blocks(p.size) \in Nat \ {0}
        /\ End(p) \in Nat /\ End(p) <= len /\ FirstFree * BlockSize <= PieceStart(p)
        /\ PieceStart(p) \in Nat /\ RoundUp(p.size) \in Nat /\ PieceStart(p) + RoundUp(p.size) = End(p)
    BY <2>1, PiecePlaces
  <2>4. FreeBefore(n) * BlockSize = End(p) /\ FreeBefore(n) \in Nat
    BY <2>2, <2>3 DEF End
  <2>5. ASSUME NEW m \in 1 .. Len(data_blocks), m < n
        PROVE  End(data_blocks[m]) <= End(p)
    <3>1. CASE m = n - 1
      BY <2>3, <3>1
    <3>2. CASE m # n - 1
      <4>1. m < n - 1
        BY <1>1, <2>5, <3>2
      <4>2. End(data_blocks[m]) <= PieceStart(p)
        BY <2>1, <4>1, InOrder
      <4>3. End(data_blocks[m]) \in Nat
        BY <1>1, PiecePlaces
      <4> QED BY <2>3, <4>2, <4>3
    <3> QED BY <3>1, <3>2
  <2>6. ASSUME n <= Len(data_blocks)
        PROVE  /\ FreeBefore(n) <= data_blocks[n].block
               /\ End(p) <= PieceStart(data_blocks[n])
    <3>1. n \in 1 .. Len(data_blocks) /\ n - 1 < n
      BY <1>1, <2>6
    <3> QED BY <2>1, <2>2, <3>1, InOrder
  <2>7. FirstFree * BlockSize <= End(p)
    BY <1>2, <2>3
  <2> HIDE DEF p
  <2> QED BY <2>3, <2>4, <2>5, <2>6, <2>7
<1> QED BY <1>3, <1>4

\* Between the pieces there is nothing, nor behind the last one.
LEMMA GapHolds ==
    ASSUME PlacesInv, NEW n \in 1 .. (Len(data_blocks) + 1), NEW u \in Nat,
           FreeBefore(n) * BlockSize <= u,
           n <= Len(data_blocks) => u < PieceStart(data_blocks[n])
    PROVE  ~Holds(u)
<1> DEFINE f == FreeBefore(n) * BlockSize
<1>1. /\ f \in Nat /\ FirstFree * BlockSize <= f /\ f <= u
      /\ \A m \in 1 .. Len(data_blocks) : m < n => End(data_blocks[m]) <= f
  BY FreeFacts
<1> HIDE DEF f
<1>2. /\ DescStart \in Nat /\ DescBlocks * BlockSize \in Nat
      /\ FirstFree * BlockSize = DescStart + DescBlocks * BlockSize
      /\ 2 * kilo <= DescStart /\ kilo \in Nat
  BY HeadPlaces, Constants
<1>3. u \notin kilo .. (2 * kilo - 1) /\ u \notin DescStart .. (DescStart + DescBlocks * BlockSize - 1)
  BY <1>1, <1>2
<1>4. ASSUME NEW p \in queued
      PROVE  u \notin PieceStart(p) .. (PieceStart(p) + p.size - 1)
  <2>1. PICK m \in 1 .. Len(data_blocks) : data_blocks[m] = p
    BY ListedPieces
  <2>2. /\ PieceStart(p) \in Nat /\ p.size \in Nat /\ RoundUp(p.size) \in Nat
        /\ p.size <= RoundUp(p.size) /\ PieceStart(p) + RoundUp(p.size) = End(p)
    BY PiecePlaces
  <2>3. CASE m < n
    <3>1. End(p) <= f
      BY <1>1, <2>1, <2>3
    <3> QED BY <1>1, <2>2, <3>1, SMTT(60)
  <2>4. CASE ~(m < n)
    <3>1. n \in 1 .. Len(data_blocks)
      BY <2>1, <2>4, ListedPieces
    <3>2. PieceStart(data_blocks[n]) <= PieceStart(p)
      <4>1. CASE m = n
        BY <2>1, <2>2, <4>1
      <4>2. CASE m # n
        <5>1. n < m
          BY <2>4, <3>1, <4>2
        <5>2. End(data_blocks[n]) <= PieceStart(p)
          BY <2>1, <3>1, <5>1, InOrder
        <5>3. data_blocks[n] \in queued
          BY <3>1, ListedPieces
        <5>4. /\ PieceStart(data_blocks[n]) \in Nat /\ RoundUp(data_blocks[n].size) \in Nat
              /\ PieceStart(data_blocks[n]) + RoundUp(data_blocks[n].size) = End(data_blocks[n])
          BY <5>3, PiecePlaces
        <5> QED BY <2>2, <5>2, <5>4
      <4> QED BY <4>1, <4>2
    <3>3. u < PieceStart(data_blocks[n]) /\ PieceStart(data_blocks[n]) \in Nat
      <4>1. data_blocks[n] \in queued
        BY <3>1, ListedPieces
      <4> QED BY <3>1, <4>1, PiecePlaces
    <3> QED BY <2>2, <3>2, <3>3
  <2> QED BY <2>3, <2>4
<1> QED BY <1>3, <1>4 DEF Holds

\* The blocks of a piece hold it and nothing else.
LEMMA PieceHolds ==
    ASSUME PlacesInv, NEW n \in 1 .. Len(data_blocks), NEW u \in Nat,
           PieceStart(data_blocks[n]) <= u, u < End(data_blocks[n])
    PROVE  Holds(u) <=> u < PieceStart(data_blocks[n]) + data_blocks[n].size
<1> DEFINE d == data_blocks[n]
<1>1. /\ d \in queued /\ PieceStart(d) \in Nat /\ d.size \in Nat
      /\ FirstFree * BlockSize <= PieceStart(d) /\ End(d) \in Nat
  <2>1. d \in queued
    BY ListedPieces
  <2> QED BY <2>1, PiecePlaces
<1>2. /\ DescStart \in Nat /\ DescBlocks * BlockSize \in Nat
      /\ FirstFree * BlockSize = DescStart + DescBlocks * BlockSize
      /\ 2 * kilo <= DescStart /\ kilo \in Nat
  BY HeadPlaces, Constants
<1>3. PieceStart(d) <= u /\ u < End(d)
  OBVIOUS
<1> HIDE DEF d
<1>4. u \notin kilo .. (2 * kilo - 1) /\ u \notin DescStart .. (DescStart + DescBlocks * BlockSize - 1)
  BY <1>1, <1>2, <1>3, SMTT(60)
<1>5. ASSUME NEW p \in queued, p # d
      PROVE  u \notin PieceStart(p) .. (PieceStart(p) + p.size - 1)
  <2>1. PICK m \in 1 .. Len(data_blocks) : data_blocks[m] = p
    BY ListedPieces
  <2>2. /\ PieceStart(p) \in Nat /\ p.size \in Nat /\ RoundUp(p.size) \in Nat
        /\ p.size <= RoundUp(p.size) /\ PieceStart(p) + RoundUp(p.size) = End(p)
    BY PiecePlaces
  <2>3. CASE m < n
    <3>1. End(p) <= PieceStart(d)
      BY <2>1, <2>3, InOrder DEF d
    <3> QED BY <1>1, <1>3, <2>2, <3>1
  <2>4. CASE n < m
    <3>1. End(d) <= PieceStart(p)
      BY <2>1, <2>4, InOrder DEF d
    <3> QED BY <1>1, <1>3, <2>2, <3>1
  <2>5. m # n
    BY <1>5, <2>1 DEF d
  <2> QED BY <2>3, <2>4, <2>5
<1>6. u \in PieceStart(d) .. (PieceStart(d) + d.size - 1) <=> u < PieceStart(d) + d.size
  BY <1>1, <1>3
<1>7. Holds(u) <=> u \in PieceStart(d) .. (PieceStart(d) + d.size - 1)
  BY <1>1, <1>4, <1>5 DEF Holds
<1> QED BY <1>6, <1>7 DEF d

-----------------------------------------------------------------------------
(* What the operations of the writer leave alone, and when they fail       *)

\* The program goes on behind an error only under -f, and knows of every failure.
ErrorsKnown(o) ==
    /\ Shape(o)
    /\ o.exited <=> ~force /\ o.error # "none"
    /\ o.error = "none" => ~o.write_failed

\* p comes after o: the file is still open, and the first error remains.
After(o, p) ==
    /\ ErrorsKnown(p)
    /\ p.state = o.state /\ p.header = o.header
    /\ o.error # "none" => p.error = o.error

LEMMA AfterItself == ASSUME NEW o, ErrorsKnown(o) PROVE After(o, o)
BY DEF After

LEMMA AfterAfter ==
    ASSUME NEW o, NEW g, NEW p, After(o, g), After(g, p)
    PROVE  After(o, p)
BY DEF After

LEMMA ErrorAfter ==
    ASSUME NEW o, ErrorsKnown(o), NEW e, e # "none"
    PROVE  /\ After(o, Error(o, e))
           /\ o.error = "none" => Error(o, e).error = e
           /\ Error(o, e).error # "none" /\ Error(o, e).write_failed = o.write_failed
<1> DEFINE p == Error(o, e)
<1>1. Shape(o)
  BY DEF ErrorsKnown
<1>2. /\ Shape(p) /\ p.state = o.state /\ p.header = o.header
      /\ p.error = IF o.error = "none" THEN e ELSE o.error
      /\ p.exited = ~force /\ p.write_failed = o.write_failed
  BY <1>1 DEF Error, Shape, Fields
<1> HIDE DEF p
<1>3. p.exited <=> ~force
  BY <1>2
<1> QED BY <1>2, <1>3 DEF After, ErrorsKnown, p

LEMMA WriteErrorAfter ==
    ASSUME NEW o, ErrorsKnown(o)
    PROVE  /\ After(o, WriteError(o))
           /\ o.error = "none" => WriteError(o).error = "write"
           /\ WriteError(o).error # "none" /\ WriteError(o).write_failed = TRUE
<1> DEFINE g == Error(o, "write")
           p == WriteError(o)
<1>1. After(o, g) /\ g.error # "none" /\ (o.error = "none" => g.error = "write")
  BY ErrorAfter
<1>2. p = [g EXCEPT !.write_failed = TRUE]
  BY DEF WriteError
<1>3. Shape(g)
  BY <1>1 DEF After, ErrorsKnown
<1> HIDE DEF g, p
<1>4. /\ Shape(p) /\ p.state = g.state /\ p.header = g.header /\ p.error = g.error
      /\ p.exited = g.exited /\ p.write_failed = TRUE
  BY <1>2, <1>3 DEF Shape, Fields
<1> QED BY <1>1, <1>4 DEF After, ErrorsKnown, p

\* A gap can only fail to be written.
LEMMA SkipAfter ==
    ASSUME NEW o, ErrorsKnown(o), NEW n \in Nat, NEW io
    PROVE  LET p == emit_skip_chunk(o, n, io)
           IN  /\ After(o, p)
               /\ o.error = "none" =>
                     \/ n % BlockSize # 0 /\ p.error = "dont_care_size"
                     \/ n % BlockSize = 0 /\ p.error = "write"
                     \/ /\ n % BlockSize = 0 /\ p.error = "none"
                        /\ p.cur_out_ptr = o.cur_out_ptr + n
                        /\ p.crc32 = o.crc32 \o Zeros(n)
<1> DEFINE p == emit_skip_chunk(o, n, io)
<1>1. CASE n % BlockSize # 0
  BY <1>1, ErrorAfter DEF emit_skip_chunk
<1>2. CASE n % BlockSize = 0 /\ io = "skip"
  BY <1>2, WriteErrorAfter DEF emit_skip_chunk
<1>3. CASE n % BlockSize = 0 /\ io # "skip"
  <2>1. p = [o EXCEPT !.chunks = Append(@, SkipChunk(n)),
                      !.cur_out_ptr = @ + n,
                      !.chunk_cnt = @ + 1,
                      !.crc32 = @ \o Zeros(n)]
    BY <1>3 DEF emit_skip_chunk
  <2>2. Shape(o)
    BY DEF ErrorsKnown
  <2>3. /\ Shape(p) /\ p.error = o.error /\ p.state = o.state /\ p.header = o.header
        /\ p.exited = o.exited /\ p.write_failed = o.write_failed
        /\ p.crc32 = o.crc32 \o Zeros(n) /\ p.cur_out_ptr = o.cur_out_ptr + n
    BY <2>1, <2>2 DEF Shape, Fields
  <2> HIDE DEF p
  <2>4. After(o, p)
    BY <2>3 DEF After, ErrorsKnown
  <2> QED BY <1>3, <2>3, <2>4 DEF p
<1> QED BY <1>1, <1>2, <1>3

LEMMA EmitAfter ==
    ASSUME NEW o, ErrorsKnown(o), NEW data, NEW io
    PROVE  LET p == EmitRawChunk(o, data, io)
           IN  /\ After(o, p)
               /\ o.error = "none" =>
                     \/ p.error = "write"
                     \/ /\ p.error = "none"
                        /\ p.cur_out_ptr = o.cur_out_ptr + RoundUp(Len(data))
                        /\ p.crc32 = o.crc32 \o RawData(data)
<1> DEFINE p == EmitRawChunk(o, data, io)
           bad == io \in {"chunk", "data"} \/ (io = "fill" /\ Len(data) % BlockSize # 0)
<1>1. CASE bad
  BY <1>1, WriteErrorAfter DEF EmitRawChunk
<1>2. CASE ~bad
  <2>1. p = [o EXCEPT !.chunks = Append(@, RawChunk(RawData(data))),
                      !.crc32 = @ \o RawData(data),
                      !.cur_out_ptr = @ + RoundUp(Len(data)),
                      !.chunk_cnt = @ + 1]
    BY <1>2 DEF EmitRawChunk
  <2>2. Shape(o)
    BY DEF ErrorsKnown
  <2>3. /\ Shape(p) /\ p.error = o.error /\ p.state = o.state /\ p.header = o.header
        /\ p.exited = o.exited /\ p.write_failed = o.write_failed
        /\ p.crc32 = o.crc32 \o RawData(data)
        /\ p.cur_out_ptr = o.cur_out_ptr + RoundUp(Len(data))
    BY <2>1, <2>2 DEF Shape, Fields
  <2> HIDE DEF p
  <2>4. After(o, p)
    BY <2>3 DEF After, ErrorsKnown
  <2> QED BY <2>3, <2>4 DEF p
<1> QED BY <1>1, <1>2

LEMMA ChunkAfter ==
    ASSUME NEW o, WriterInv(o), ErrorsKnown(o), NEW off \in Nat, NEW data, NEW io
    PROVE  After(o, write_chunk_raw(o, off, data, io))
<1> DEFINE g == IF off > o.cur_out_ptr
                THEN emit_skip_chunk(o, off - o.cur_out_ptr, io) ELSE o
<1>1. o.cur_out_ptr \in Nat
  BY DEF WriterInv, PositionExact
<1>2. write_chunk_raw(o, off, data, io) =
        IF off < o.cur_out_ptr THEN Error(o, "behind")
        ELSE IF g.exited THEN g
        ELSE IF off % BlockSize # 0 THEN Error(g, "unaligned")
        ELSE IF off # g.cur_out_ptr THEN Error(g, "accounting")
        ELSE EmitRawChunk(g, data, io)
  BY DEF write_chunk_raw
<1>3. After(o, g)
  <2>1. CASE off > o.cur_out_ptr
    <3>1. off - o.cur_out_ptr \in Nat
      BY <1>1, <2>1
    <3> QED BY <2>1, <3>1, SkipAfter
  <2>2. CASE ~(off > o.cur_out_ptr)
    BY <2>2, AfterItself
  <2> QED BY <2>1, <2>2
<1> HIDE DEF g
<1>4. ErrorsKnown(g)
  BY <1>3 DEF After
<1>5. /\ After(g, Error(g, "unaligned")) /\ After(g, Error(g, "accounting"))
      /\ After(g, EmitRawChunk(g, data, io)) /\ After(o, Error(o, "behind"))
  BY <1>4, ErrorAfter, EmitAfter
<1> QED BY <1>2, <1>3, <1>5, AfterAfter

\* The bytes in the file after a write.
RawAfter(o, off, data) ==
    LET here == off .. (off + Len(data) - 1)
    IN  [u \in DOMAIN o.raw \cup here |-> IF u \in here THEN data[u - off + 1] ELSE o.raw[u]]

LEMMA AtAfter ==
    ASSUME NEW o, ErrorsKnown(o), NEW off, NEW data, NEW io
    PROVE  LET p == WriteAt(o, off, data, io)
           IN  /\ After(o, p)
               /\ o.error = "none" =>
                     \/ mode = "gz" /\ off < o.pos /\ p.error = "seek_back"
                     \/ p.error \in {"seek", "write"}
                     \/ /\ p.error = "none" /\ p.pos = off + Len(data)
                        /\ p.raw = RawAfter(o, off, data)
<1> DEFINE p == WriteAt(o, off, data, io)
           new == RawAfter(o, off, data)
<1>1. CASE mode = "gz" /\ off < o.pos
  BY <1>1, ErrorAfter DEF WriteAt
<1>2. CASE ~(mode = "gz" /\ off < o.pos) /\ io = "seek"
  BY <1>2, ErrorAfter DEF WriteAt
<1>3. CASE ~(mode = "gz" /\ off < o.pos) /\ io = "data"
  BY <1>3, WriteErrorAfter DEF WriteAt
<1>4. CASE ~(mode = "gz" /\ off < o.pos) /\ io \notin {"seek", "data"}
  <2>1. p = [o EXCEPT !.pos = off + Len(data), !.raw = new]
    BY <1>4 DEF WriteAt, RawAfter
  <2>2. Shape(o)
    BY DEF ErrorsKnown
  <2> HIDE DEF new
  <2>3. /\ Shape(p) /\ p.error = o.error /\ p.state = o.state /\ p.header = o.header
        /\ p.exited = o.exited /\ p.write_failed = o.write_failed
        /\ p.pos = off + Len(data) /\ p.raw = new
    BY <2>1, <2>2 DEF Shape, Fields
  <2> HIDE DEF p
  <2>4. After(o, p)
    BY <2>3 DEF After, ErrorsKnown
  <2> QED BY <2>3, <2>4 DEF p, new
<1> QED BY <1>1, <1>2, <1>3, <1>4

LEMMA DataAfter ==
    ASSUME NEW o, WriterInv(o), ErrorsKnown(o), NEW off \in Nat, NEW data, NEW io
    PROVE  /\ After(o, WriteData(o, off, data, io))
           /\ After(o, WriteBlock(o, off, data, io))
           /\ After(o, WriteFile(o, off, data, io))
<1>1. After(o, WriteData(o, off, data, io))
  BY ChunkAfter, AtAfter DEF WriteData
<1>2. After(o, Error(o, "past_end")) /\ After(o, Error(o, "file"))
  BY ErrorAfter
<1> QED BY <1>1, <1>2 DEF WriteBlock, WriteFile

LEMMA PadAfter ==
    ASSUME NEW o, WriterInv(o), ErrorsKnown(o), NEW n \in Nat, NEW io
    PROVE  After(o, Pad(o, n, io))
<1>1. o.cur_out_ptr \in Nat
  BY DEF WriterInv, PositionExact
<1>2. After(o, Error(o, "pad_past_end")) /\ After(o, Error(o, "pad_behind")) /\ After(o, o)
  BY ErrorAfter, AfterItself
<1>3. After(o, WriteAt(o, n - 1, <<0>>, io))
  BY AtAfter
<1>4. n > o.cur_out_ptr => After(o, emit_skip_chunk(o, n - o.cur_out_ptr, io))
  <2> SUFFICES ASSUME n > o.cur_out_ptr
               PROVE  After(o, emit_skip_chunk(o, n - o.cur_out_ptr, io))
    OBVIOUS
  <2>1. n - o.cur_out_ptr \in Nat
    BY <1>1
  <2> QED BY <2>1, SkipAfter
<1> QED BY <1>2, <1>3, <1>4 DEF Pad

-----------------------------------------------------------------------------
(* The bytes that a write puts into the image                              *)

LEMMA RawBytes ==
    ASSUME NEW data \in Seq(Nat)
    PROVE  /\ RawData(data) \in Seq(Nat) /\ Len(RawData(data)) = RoundUp(Len(data))
           /\ RoundUp(Len(data)) \in Nat /\ Len(data) \in Nat /\ Len(data) <= RoundUp(Len(data))
           /\ \A j \in 1 .. RoundUp(Len(data)) :
                 RawData(data)[j] = IF j <= Len(data) THEN data[j] ELSE 0
<1> DEFINE n == Len(data)
           z == RoundUp(n) - n
<1>1. n \in Nat /\ z \in Nat /\ RoundUp(n) \in Nat /\ n <= RoundUp(n) /\ n + z = RoundUp(n)
  BY RoundUpFacts, SMTT(60)
<1> HIDE DEF n, z
<1>2. Zeros(z) \in Seq(Nat) /\ Len(Zeros(z)) = z /\ \A j \in 1 .. z : Zeros(z)[j] = 0
  BY <1>1, ZerosFacts
<1>3. RawData(data) = data \o Zeros(z)
  BY DEF RawData, n, z
<1>4. /\ data \o Zeros(z) \in Seq(Nat) /\ Len(data \o Zeros(z)) = n + z
      /\ \A j \in 1 .. (n + z) :
            (data \o Zeros(z))[j] = IF j <= n THEN data[j] ELSE Zeros(z)[j - n]
  BY <1>2, ConcatProperties DEF n
<1>5. ASSUME NEW j \in 1 .. (n + z), ~(j <= n)
      PROVE  Zeros(z)[j - n] = 0
  <2>1. j - n \in 1 .. z
    BY <1>1, <1>5
  <2> QED BY <1>2, <2>1
<1>6. \A j \in 1 .. (n + z) : RawData(data)[j] = IF j <= n THEN data[j] ELSE 0
  BY <1>3, <1>4, <1>5
<1> QED BY <1>1, <1>3, <1>4, <1>6 DEF n

LEMMA Joined ==
    ASSUME NEW s \in Seq(Nat), NEW t \in Seq(Nat), NEW a, NEW b, Len(s) = a, Len(t) = b
    PROVE  /\ s \o t \in Seq(Nat) /\ Len(s \o t) = a + b
           /\ \A j \in 1 .. (a + b) : (s \o t)[j] = IF j <= a THEN s[j] ELSE t[j - a]
BY BytesAdded

LEMMA Unwritten ==
    ASSUME NEW o, WriterInv(o), NEW n \in Nat, Within(o, n), NEW u \in Nat, n <= u
    PROVE  Byte(o, u) = 0
<1>1. o.cur_out_ptr \in Nat
  BY DEF WriterInv, PositionExact
<1>2. CASE mode = "sparse"
  BY <1>1, <1>2 DEF Within, Byte
<1>3. CASE mode # "sparse"
  <2>1. u \notin DOMAIN o.raw
    BY <1>3 DEF Within
  <2> QED BY <1>3, <2>1 DEF Byte
<1> QED BY <1>2, <1>3

\* A chunk with a gap before it: nothing else changes.
LEMMA ChunkPlaced ==
    ASSUME mode = "sparse",
           NEW o, WriterInv(o), ErrorsKnown(o), o.error = "none",
           NEW off \in Nat, off % BlockSize = 0, o.cur_out_ptr <= off,
           NEW data, Meant(data, off), NEW io
    PROVE  LET p == write_chunk_raw(o, off, data, io)
           IN  \/ p.error = "write"
               \/ /\ p.error = "none" /\ p.cur_out_ptr = off + RoundUp(Len(data))
                  /\ \A u \in Nat :
                        Byte(p, u) = IF off <= u /\ u < off + Len(data) THEN data[u - off + 1]
                                     ELSE Byte(o, u)
<1> DEFINE cur == o.cur_out_ptr
           crc == o.crc32
           g == IF off > cur THEN emit_skip_chunk(o, off - cur, io) ELSE o
           p == write_chunk_raw(o, off, data, io)
           h == EmitRawChunk(g, data, io)
           raw == RawData(data)
           n == RoundUp(Len(data))
<1>1. /\ cur \in Nat /\ cur % BlockSize = 0 /\ crc \in Seq(Nat) /\ Len(crc) = cur
  BY DEF WriterInv, PositionExact
<1>2. p = IF off < cur THEN Error(o, "behind")
          ELSE IF g.exited THEN g
          ELSE IF off % BlockSize # 0 THEN Error(g, "unaligned")
          ELSE IF off # g.cur_out_ptr THEN Error(g, "accounting")
          ELSE h
  BY DEF write_chunk_raw
<1>3. /\ After(o, g)
      /\ \/ g.error = "write"
         \/ /\ g.error = "none" /\ g.cur_out_ptr = off
            /\ g.crc32 \in Seq(Nat) /\ Len(g.crc32) = off
            /\ \A j \in 1 .. off : g.crc32[j] = IF j <= cur THEN crc[j] ELSE 0
  <2>1. CASE off > cur
    <3> DEFINE z == off - cur
    <3>1. z \in Nat /\ cur + z = off
      BY <1>1, <2>1
    <3> HIDE DEF z
    <3>2. z % BlockSize = 0
      <4>1. cur \in Int /\ z \in Int /\ BlockSize \in Nat \ {0} /\ cur % BlockSize = 0
        BY <1>1, <3>1, SizeTypes
      <4>2. (cur + z) % BlockSize = 0 <=> z % BlockSize = 0
        BY <4>1, SumOfMultiples, Zenon
      <4> QED BY <3>1, <4>2
    <3>3. g = emit_skip_chunk(o, z, io)
      BY <2>1 DEF z
    <3>4. /\ After(o, g)
          /\ \/ g.error = "write"
             \/ g.error = "none" /\ g.cur_out_ptr = cur + z /\ g.crc32 = crc \o Zeros(z)
      <4> DEFINE e == emit_skip_chunk(o, z, io)
      <4> HIDE DEF cur, crc, g
      <4>1. /\ After(o, e)
            /\ \/ z % BlockSize # 0 /\ e.error = "dont_care_size"
               \/ z % BlockSize = 0 /\ e.error = "write"
               \/ /\ z % BlockSize = 0 /\ e.error = "none"
                  /\ e.cur_out_ptr = o.cur_out_ptr + z /\ e.crc32 = o.crc32 \o Zeros(z)
        BY <3>1, SkipAfter
      <4> HIDE DEF e
      <4> QED BY <3>2, <3>3, <4>1 DEF e, cur, crc
    <3> HIDE DEF cur, crc, g
    <3>5. /\ crc \o Zeros(z) \in Seq(Nat) /\ Len(crc \o Zeros(z)) = cur + z
          /\ \A j \in 1 .. (cur + z) :
                (crc \o Zeros(z))[j] = IF j <= cur THEN crc[j] ELSE Zeros(z)[j - cur]
      <4>1. Zeros(z) \in Seq(Nat) /\ Len(Zeros(z)) = z
        BY <3>1, ZerosFacts
      <4> QED BY ONLY <1>1, <4>1, Joined, SMTT(60)
    <3>6. ASSUME NEW j \in 1 .. off, ~(j <= cur)
          PROVE  Zeros(z)[j - cur] = 0
      <4>1. j - cur \in 1 .. z
        BY <1>1, <3>1, <3>6
      <4> QED BY <3>1, <4>1, ZerosFacts
    <3> QED BY <3>1, <3>4, <3>5, <3>6
  <2>2. CASE ~(off > cur)
    <3>1. off = cur /\ g = o
      BY <1>1, <2>2
    <3>2. After(o, g)
      BY <3>1, AfterItself
    <3> HIDE DEF g
    <3> QED BY <1>1, <3>1, <3>2
  <2> QED BY <2>1, <2>2
<1>4. ErrorsKnown(g)
  BY <1>3 DEF After
<1> HIDE DEF g, p, cur, crc
<1>5. After(g, Error(g, "accounting")) /\ After(g, h)
  BY <1>4, ErrorAfter, EmitAfter
<1>6. ~(off < cur)
  BY <1>1 DEF cur
<1>7. CASE g.error = "write"
  <2>1. Error(g, "accounting").error = "write" /\ h.error = "write"
    BY <1>5, <1>7 DEF After
  <2> HIDE DEF h
  <2>2. p = g \/ p = Error(g, "accounting") \/ p = h
    BY <1>2, <1>6
  <2> QED BY <1>7, <2>1, <2>2 DEF p
<1>8. CASE g.error = "none"
  <2>1. p = h
    <3>1. ~g.exited
      BY <1>4, <1>8 DEF ErrorsKnown
    <3> QED BY <1>2, <1>3, <1>6, <1>8, <3>1
  <2>2. \/ h.error = "write"
        \/ /\ h.error = "none" /\ h.cur_out_ptr = off + n
           /\ h.crc32 = g.crc32 \o raw
    BY <1>3, <1>4, <1>8, EmitAfter
  <2>3. /\ raw \in Seq(Nat) /\ Len(raw) = n /\ n \in Nat /\ Len(data) \in Nat /\ Len(data) <= n
        /\ \A j \in 1 .. n : raw[j] = IF j <= Len(data) THEN data[j] ELSE 0
    BY RawBytes DEF Meant
  <2> HIDE DEF h, raw, n
  <2>4. ASSUME h.error = "none", NEW u \in Nat
        PROVE  Byte(h, u) = IF off <= u /\ u < off + Len(data) THEN data[u - off + 1]
                            ELSE Byte(o, u)
    <3>1. \A j \in 1 .. (off + n) : h.crc32[j] = IF j <= off THEN g.crc32[j] ELSE raw[j - off]
      <4>1. /\ g.crc32 \in Seq(Nat) /\ Len(g.crc32) = off
            /\ raw \in Seq(Nat) /\ Len(raw) = n
        BY <1>3, <1>8, <2>3
      <4>2. \A j \in 1 .. (off + n) : (g.crc32 \o raw)[j] = IF j <= off THEN g.crc32[j] ELSE raw[j - off]
        <5> DEFINE s == g.crc32
        <5>1. s \in Seq(Nat) /\ Len(s) = off /\ raw \in Seq(Nat) /\ Len(raw) = n
          BY <4>1
        <5> HIDE DEF s
        <5>2. s \o raw \in Seq(Nat) /\ \A j \in 1 .. (Len(s) + Len(raw)) :
                 (s \o raw)[j] = IF j <= Len(s) THEN s[j] ELSE raw[j - Len(s)]
          BY ONLY <5>1, BytesAdded
        <5>3. \A j \in 1 .. (off + n) : (s \o raw)[j] = IF j <= off THEN s[j] ELSE raw[j - off]
          BY ONLY <5>1, <5>2
        <5> QED BY <5>3 DEF s
      <4> QED BY <2>2, <2>4, <4>2
    <3>2. Byte(h, u) = IF u < off + n THEN h.crc32[u + 1] ELSE 0
      BY <2>2, <2>4 DEF Byte
    <3>3. Byte(o, u) = IF u < cur THEN crc[u + 1] ELSE 0
      BY DEF Byte, cur, crc
    <3>4. CASE u < off
      <4>1. u + 1 \in 1 .. off /\ u + 1 \in 1 .. (off + n) /\ (u + 1 <= cur <=> u < cur)
        BY <1>1, <2>3, <3>4
      <4>2. h.crc32[u + 1] = g.crc32[u + 1] /\ u < off + n
        BY <2>3, <3>1, <3>4, <4>1
      <4>3. g.crc32[u + 1] = IF u < cur THEN crc[u + 1] ELSE 0
        BY <1>3, <1>8, <4>1
      <4> QED BY <3>2, <3>3, <3>4, <4>2, <4>3
    <3>5. CASE off <= u /\ u < off + n
      <4>1. /\ u + 1 \in 1 .. (off + n) /\ ~(u + 1 <= off)
            /\ (u + 1) - off \in 1 .. n /\ (u + 1) - off = u - off + 1
            /\ (u + 1) - off <= Len(data) <=> u < off + Len(data)
            /\ ~(u < cur)
        BY <1>1, <1>6, <2>3, <3>5
      <4>2. h.crc32[u + 1] = raw[u - off + 1]
        BY <3>1, <4>1
      <4>3. raw[u - off + 1] = IF u < off + Len(data) THEN data[u - off + 1] ELSE 0
        BY <2>3, <4>1
      <4> QED BY <3>2, <3>3, <3>5, <4>1, <4>2, <4>3
    <3>6. CASE off + n <= u
      <4>1. ~(u < off + n) /\ ~(u < off + Len(data)) /\ ~(u < cur)
        BY <1>1, <1>6, <2>3, <3>6
      <4> QED BY <3>2, <3>3, <4>1
    <3> QED BY <2>3, <3>4, <3>5, <3>6
  <2> QED BY <2>1, <2>2, <2>4 DEF p, n
<1> QED BY <1>3, <1>7, <1>8 DEF p

\* A write without chunks.
LEMMA PlacedAt ==
    ASSUME mode # "sparse",
           NEW o, ErrorsKnown(o), o.error = "none", NEW n \in Nat, Within(o, n),
           NEW off \in Nat, NEW data, Len(data) \in Nat,
           n <= off + Len(data), NEW io
    PROVE  LET p == WriteAt(o, off, data, io)
           IN  \/ mode = "gz" /\ off < o.pos /\ p.error = "seek_back"
               \/ p.error \in {"seek", "write"}
               \/ /\ p.error = "none" /\ p.pos = off + Len(data)
                  /\ \A u \in DOMAIN p.raw : u \in 0 .. (off + Len(data) - 1)
                  /\ \A u \in Nat :
                        Byte(p, u) = IF off <= u /\ u < off + Len(data) THEN data[u - off + 1]
                                     ELSE Byte(o, u)
<1> DEFINE p == WriteAt(o, off, data, io)
           l == Len(data)
           here == off .. (off + l - 1)
<1>1. \/ mode = "gz" /\ off < o.pos /\ p.error = "seek_back"
      \/ p.error \in {"seek", "write"}
      \/ p.error = "none" /\ p.pos = off + l /\ p.raw = RawAfter(o, off, data)
  BY AtAfter
<1> HIDE DEF p
<1>2. l \in Nat /\ \A u \in DOMAIN o.raw : u \in 0 .. (n - 1)
  BY DEF Within
<1>3. ASSUME p.raw = RawAfter(o, off, data)
      PROVE  /\ \A u \in DOMAIN p.raw : u \in 0 .. (off + l - 1)
             /\ \A u \in Nat :
                   Byte(p, u) = IF off <= u /\ u < off + l THEN data[u - off + 1] ELSE Byte(o, u)
  <2>0. p.raw = [u \in DOMAIN o.raw \cup here |->
                   IF u \in here THEN data[u - off + 1] ELSE o.raw[u]]
    BY <1>3 DEF RawAfter
  <2>1. DOMAIN p.raw = DOMAIN o.raw \cup here
    BY <2>0
  <2>2. \A u \in DOMAIN p.raw : u \in 0 .. (off + l - 1)
    BY <1>2, <2>1
  <2>3. ASSUME NEW u \in Nat
        PROVE  Byte(p, u) = IF off <= u /\ u < off + l THEN data[u - off + 1] ELSE Byte(o, u)
    <3>1. u \in here <=> off <= u /\ u < off + l
      BY <1>2
    <3> HIDE DEF here, l
    <3>2. Byte(p, u) = IF u \in here THEN data[u - off + 1] ELSE Byte(o, u)
      BY <2>0, <2>1 DEF Byte
    <3> QED BY <3>1, <3>2
  <2> QED BY <2>2, <2>3
<1> QED BY <1>1, <1>3 DEF p

\* A write behind what is settled, of data that belongs there with zeroes around it,
\* fails or settles more.
LEMMA WriteSettles ==
    ASSUME NEW o, WriterInv(o), ErrorsKnown(o), o.error = "none",
           NEW n \in Nat, Settled(o, n),
           NEW off \in Nat, n <= off, off % BlockSize = 0,
           NEW data, Meant(data, off), NEW io,
           NEW m \in Nat, m = off + RoundUp(Len(data)),
           \A u \in Nat : n <= u /\ u < m =>
               Expected(u) = IF off <= u /\ u < off + Len(data) THEN data[u - off + 1] ELSE 0
    PROVE  LET p == WriteData(o, off, data, io)
           IN  /\ After(o, p) /\ WriterInv(p)
               /\ \/ p.error \in {"write", "seek"}
                  \/ /\ p.error = "none" /\ Settled(p, m)
                     /\ mode # "sparse" => p.pos = off + Len(data)
<1> DEFINE p == WriteData(o, off, data, io)
           l == Len(data)
<1>1. After(o, p) /\ WriterInv(p)
  BY DataAfter, WriteDataKeeps
<1>2. l \in Nat /\ l <= RoundUp(l) /\ RoundUp(l) \in Nat
  BY RoundUpFacts DEF Meant
<1>3. \/ p.error \in {"write", "seek"}
      \/ /\ p.error = "none" /\ Within(p, m)
         /\ mode # "sparse" => p.pos = off + l
         /\ \A u \in Nat :
               Byte(p, u) = IF off <= u /\ u < off + l THEN data[u - off + 1] ELSE Byte(o, u)
  <2>1. CASE mode = "sparse"
    <3>1. p = write_chunk_raw(o, off, data, io)
      BY <2>1 DEF WriteData
    <3>2. o.cur_out_ptr \in Nat /\ o.cur_out_ptr <= off
      BY <2>1 DEF WriterInv, PositionExact, Settled, Within
    <3>3. \/ p.error = "write"
          \/ /\ p.error = "none" /\ p.cur_out_ptr = off + RoundUp(l)
             /\ \A u \in Nat :
                   Byte(p, u) = IF off <= u /\ u < off + l THEN data[u - off + 1] ELSE Byte(o, u)
      BY <2>1, <3>1, <3>2, ChunkPlaced
    <3> HIDE DEF p, l
    <3>4. p.error = "none" /\ p.cur_out_ptr = off + RoundUp(l) => Within(p, m)
      BY <1>2, <2>1 DEF Within, l
    <3> QED BY <2>1, <3>3, <3>4
  <2>2. CASE mode # "sparse"
    <3>1. p = WriteAt(o, off, data, io)
      BY <2>2 DEF WriteData
    <3>2. Within(o, n) /\ l \in Nat /\ n <= off + l
      BY <1>2 DEF Settled
    <3>3. \/ mode = "gz" /\ off < o.pos /\ p.error = "seek_back"
          \/ p.error \in {"seek", "write"}
          \/ /\ p.error = "none" /\ p.pos = off + l
             /\ \A u \in DOMAIN p.raw : u \in 0 .. (off + l - 1)
             /\ \A u \in Nat :
                   Byte(p, u) = IF off <= u /\ u < off + l THEN data[u - off + 1] ELSE Byte(o, u)
      BY <2>2, <3>1, <3>2, PlacedAt, SMTT(60)
    <3>4. ~(mode = "gz" /\ off < o.pos)
      <4>1. o.pos \in 0 .. n
        BY <2>2, <3>2 DEF Within
      <4> QED BY <4>1
    <3> HIDE DEF p, l
    <3>5. p.pos = off + l /\ (\A u \in DOMAIN p.raw : u \in 0 .. (off + l - 1)) => Within(p, m)
      BY <1>2, <2>2 DEF Within, l
    <3> QED BY <2>2, <3>3, <3>4, <3>5
  <2> QED BY <2>1, <2>2
<1> HIDE DEF p
<1>4. ASSUME p.error = "none", NEW u \in 0 .. (m - 1)
      PROVE  Byte(p, u) = Expected(u)
  <2>1. Byte(p, u) = IF off <= u /\ u < off + l THEN data[u - off + 1] ELSE Byte(o, u)
    BY <1>3, <1>4
  <2>2. CASE u < n
    BY <1>2, <2>1, <2>2 DEF Settled
  <2>3. CASE n <= u
    <3>1. Byte(o, u) = 0
      BY <2>3, Unwritten DEF Settled
    <3> QED BY <1>4, <2>1, <2>3, <3>1
  <2> QED BY <2>2, <2>3
<1> QED BY <1>1, <1>3, <1>4 DEF p, Settled

-----------------------------------------------------------------------------
(* The steps of write_ext4_image                                           *)

Settings == <<queueVars, len, mode, force, kilo>>

LEMMA SamePlaces ==
    ASSUME PlacesInv, UNCHANGED Settings
    PROVE  PlacesInv'
<1>1. /\ data_blocks' = data_blocks /\ last_used' = last_used /\ queued' = queued
      /\ len' = len /\ mode' = mode /\ force' = force /\ kilo' = kilo
  BY DEF Settings, queueVars
<1>2. QueueInv'
  BY <1>1 DEF PlacesInv, QueueInv, QueueTypeOK, Sorted, NothingLost, BlockAt
<1>3. FirstFree' = FirstFree
  BY <1>1 DEF FirstFree, first_data_block
<1> QED BY <1>1, <1>2, <1>3 DEF PlacesInv, Apart

LEMMA SameExpected ==
    ASSUME UNCHANGED Settings
    PROVE  /\ \A u : Holds(u)' <=> Holds(u)
           /\ \A u : Expected(u)' = Expected(u)
           /\ DescStart' = DescStart /\ FirstFree' = FirstFree
<1>1. queued' = queued /\ kilo' = kilo
  BY DEF Settings, queueVars
<1>2. \A u : Holds(u)' <=> Holds(u)
  BY <1>1 DEF Holds, DescStart, first_data_block
<1>3. \A u : Expected(u)' = Expected(u)
  BY <1>2 DEF Expected
<1> QED BY <1>1, <1>2, <1>3 DEF DescStart, FirstFree, first_data_block

\* What is true of the new state of the writer.
LEMMA WrittenNext ==
    ASSUME UNCHANGED Settings, PlacesInv,
           out'.error = "none" =>
               /\ phase' \in {"super", "desc", "blocks"} =>
                     /\ Settled(out', Frontier')
                     /\ mode # "sparse" /\ out'.pos = len => Holds(len - 1)
               /\ phase' \in {"close", "done"} => Whole(out')
    PROVE  WrittenInv'
<1>1. mode' = mode /\ len' = len
  BY DEF Settings
<1>2. \A u : (Holds(u)' <=> Holds(u)) /\ Expected(u)' = Expected(u)
  BY SameExpected
<1>3. Holds(len - 1)' <=> Holds(len - 1)
  BY <1>1, SameExpected DEF Settings, queueVars, Holds, DescStart, first_data_block
<1>4. Settled(out', Frontier') => Settled(out, Frontier)'
  <2> DEFINE f == Frontier'
  <2>1. Settled(out', Frontier') <=>
           /\ IF mode = "sparse" THEN out'.cur_out_ptr <= f
              ELSE out'.pos \in 0 .. f /\ \A u \in DOMAIN out'.raw : u \in 0 .. (f - 1)
           /\ \A u \in 0 .. (f - 1) :
                (IF mode = "sparse" THEN IF u < out'.cur_out_ptr THEN out'.crc32[u + 1] ELSE 0
                 ELSE IF u \in DOMAIN out'.raw THEN out'.raw[u] ELSE 0) = Expected(u)
    BY DEF Settled, Within, Byte
  <2>2. Settled(out, Frontier)' <=>
           /\ IF mode' = "sparse" THEN out'.cur_out_ptr <= f
              ELSE out'.pos \in 0 .. f /\ \A u \in DOMAIN out'.raw : u \in 0 .. (f - 1)
           /\ \A u \in 0 .. (f - 1) :
                (IF mode' = "sparse" THEN IF u < out'.cur_out_ptr THEN out'.crc32[u + 1] ELSE 0
                 ELSE IF u \in DOMAIN out'.raw THEN out'.raw[u] ELSE 0) = Expected(u)'
    BY DEF Settled, Within, Byte
  <2> HIDE DEF f
  <2> QED BY <1>1, <1>2, <2>1, <2>2
<1>5. Whole(out') => Whole(out)'
  BY <1>1, <1>2 DEF Whole, Padded, Byte
<1> QED BY <1>1, <1>3, <1>4, <1>5 DEF WrittenInv

LEMMA StateNext ==
    ASSUME StateInv, After(out, out'), WriterInv(out'), out.state = "open",
           UNCHANGED Settings, phase' # "done"
    PROVE  StateInv'
<1>1. len' = len /\ mode' = mode /\ force' = force
  BY DEF Settings
<1>2. /\ out'.state = "open" /\ out'.header = out.header
      /\ out'.exited <=> ~force /\ out'.error # "none"
      /\ out'.error = "none" => ~out'.write_failed
  BY DEF After, ErrorsKnown
<1> QED BY <1>1, <1>2 DEF StateInv

\* The errors that are no surprise.
Harmless == {"none", "write", "seek", "file", "open"}

LEMMA ErrorsNext ==
    ASSUME PlacesInv, OnlyKnownErrors, UNCHANGED Settings,
           out.error # "none" => out'.error = out.error,
           out.error = "none" =>
               \/ out'.error \in Harmless
               \/ /\ out'.error = "past_end"
                  /\ \E p \in queued : p.file /\ PieceStart(p) + p.size = len
               \/ out'.error = "dont_care_size" /\ len % BlockSize # 0
               \/ out'.error = "seek_back" /\ Holds(len - 1)
    PROVE  OnlyKnownErrors'
<1>1. len' = len /\ queued' = queued
  BY DEF Settings, queueVars
<1>2. Holds(len - 1)' <=> Holds(len - 1)
  BY <1>1, SameExpected DEF Settings, queueVars, Holds, DescStart, first_data_block
<1> QED BY <1>1, <1>2 DEF OnlyKnownErrors, Harmless, PieceStart

LEMMA OpenFile ==
    ASSUME StateInv, PhaseInv, phase \in Writing
    PROVE  ErrorsKnown(out) /\ WriterInv(out) /\ out.state = "open"
BY DEF StateInv, PhaseInv, ErrorsKnown, WriterInv

\* Pieces that have no block in common lie apart.
LEMMA DisjointApart ==
    ASSUME NEW p, NEW q, p.block \in Nat, q.block \in Nat,
           Blocks(p.size) \in Nat \ {0}, Blocks(q.size) \in Nat \ {0},
           PieceBlocks(p) \cap PieceBlocks(q) = {}
    PROVE  Apart(p, q)
<1> DEFINE a == Blocks(p.size)
           b == Blocks(q.size)
<1>1. \A x : ~(x \in p.block .. (p.block + a - 1) /\ x \in q.block .. (q.block + b - 1))
  BY DEF PieceBlocks
<1>2. a \in Nat \ {0} /\ b \in Nat \ {0}
  OBVIOUS
<1> HIDE DEF a, b
<1>3. p.block + a <= q.block \/ q.block + b <= p.block
  <2>1. CASE p.block <= q.block
    <3>1. ~(q.block \in p.block .. (p.block + a - 1) /\ q.block \in q.block .. (q.block + b - 1))
      BY <1>1
    <3> QED BY <1>2, <2>1, <3>1
  <2>2. CASE q.block <= p.block
    <3>1. ~(p.block \in p.block .. (p.block + a - 1) /\ p.block \in q.block .. (q.block + b - 1))
      BY <1>1
    <3> QED BY <1>2, <2>2, <3>1
  <2> QED BY <2>1, <2>2
<1> QED BY <1>3 DEF Apart, a, b

\* Queueing a piece keeps the pieces apart.
LEMMA QueueStep ==
    ASSUME WriterSide, NEW p \in Pieces, queue_piece(p)
    PROVE  WriterSide'
<1>1. /\ phase = "queue" /\ p \notin queued /\ Allocated(p) /\ queue_data(p)
      /\ len' = len /\ mode' = mode /\ force' = force /\ out' = out
      /\ kilo' = kilo /\ phase' = phase /\ k' = k /\ last_block' = last_block
      /\ queued' = queued \cup {p}
  BY DEF queue_piece, stepVars, queue_data
<1>2. PlacesInv /\ PhaseInv /\ StateInv /\ out = NewOut
  BY <1>1 DEF WriterSide, PhaseInv
<1>3. QueueInv'
  BY <1>1, <1>2, QueueStepInv DEF QueueNext, PlacesInv
<1>4. FirstFree' = FirstFree
  BY <1>1 DEF FirstFree, first_data_block
<1>5. \A q \in queued : Apart(p, q) /\ Apart(q, p)
  <2> TAKE q \in queued
  <2>1. p.block \in Nat /\ p.size \in Nat \ {0}
    BY ImageConstants
  <2>2. Blocks(p.size) \in Nat \ {0}
    BY <2>1, BlocksFacts
  <2>3. q.block \in Nat /\ Blocks(q.size) \in Nat \ {0}
    BY <1>2, PiecePlaces
  <2>4. PieceBlocks(p) \cap PieceBlocks(q) = {}
    BY <1>1 DEF Allocated
  <2>5. Apart(p, q)
    BY <2>1, <2>2, <2>3, <2>4, DisjointApart
  <2> QED BY <2>5 DEF Apart
<1>6. FirstFree <= p.block /\ p.block + Blocks(p.size) <= len \div BlockSize
  <2>1. p.block >= FirstFree /\ p.block \in Nat /\ FirstFree \in Nat
    BY <1>1, <1>2, ImageConstants, Constants DEF Allocated, FirstFree
  <2> QED BY <1>1, <2>1 DEF Allocated
<1>7. PlacesInv'
  <2>1. \A q \in queued' :
           /\ FirstFree <= q.block /\ q.block + Blocks(q.size) <= len \div BlockSize
           /\ \A r \in queued' : q # r => Apart(q, r)
    BY <1>1, <1>2, <1>5, <1>6 DEF PlacesInv
  <2> QED BY <1>1, <1>2, <1>3, <1>4, <2>1 DEF PlacesInv, Apart
<1>8. PhaseInv'
  BY <1>1, <1>2 DEF PhaseInv, Writing
<1>9. StateInv'
  BY <1>1, <1>2 DEF StateInv, NewOut
<1>10. WrittenInv' /\ OnlyKnownErrors'
  BY <1>1, <1>2 DEF WrittenInv, OnlyKnownErrors, NewOut
<1> QED BY <1>7, <1>8, <1>9, <1>10 DEF WriterSide

\* The image is opened with a header that has no chunks yet.
LEMMA OpenStepKeeps ==
    ASSUME WriterSide, NEW io, open_image(io)
    PROVE  WriterSide'
<1>1. /\ phase = "queue" /\ open_output_file(io)
      /\ phase' = IF out'.state = "open" THEN "super" ELSE "done"
      /\ UNCHANGED Settings /\ k' = k /\ last_block' = last_block
  BY DEF open_image, Settings, open_output_file
<1>2. PlacesInv /\ PhaseInv /\ StateInv /\ OnlyKnownErrors /\ out = NewOut /\ k = 1 /\ last_block = 0
  BY <1>1 DEF WriterSide, PhaseInv
<1>3. len' = len /\ mode' = mode /\ force' = force
  BY <1>1 DEF Settings
<1>4. /\ out.error = "none" /\ ~out.write_failed /\ ~out.exited /\ out.cur_out_ptr = 0
      /\ out.pos = 0 /\ out.raw = <<>> /\ out.state = "none"
      /\ out.header = [total_blks |-> 0, total_chunks |-> 0, image_checksum |-> <<>>]
  BY <1>2 DEF NewOut
<1>5. Shape(out) /\ WriterInv(out) /\ ErrorsKnown(out)
  BY <1>2, <1>4 DEF StateInv, WriterInv, ErrorsKnown
<1>6. /\ PlacesInv' /\ WriterInv(out')
  <2>1. len \in Nat
    BY <1>2, Constants
  <2>2. Inv'
    BY <1>1, <1>5, <2>1, OpenStep DEF Inv
  <2> QED BY <1>1, <1>2, <2>2, SamePlaces DEF Inv
<1>7. \/ /\ out'.state = "failed" /\ out'.error \in {"open", "write"}
         /\ out'.exited <=> ~force
      \/ /\ out'.state = "open" /\ out'.error = "none" /\ ~out'.write_failed /\ ~out'.exited
         /\ out'.cur_out_ptr = 0 /\ out'.pos = 0 /\ out'.raw = <<>>
         /\ out'.header = [total_blks |-> len \div BlockSize, total_chunks |-> 0,
                           image_checksum |-> <<>>]
  <2>1. CASE out' = [Error(out, "open") EXCEPT !.state = "failed"]
    <3> DEFINE g == Error(out, "open")
    <3>1. ErrorsKnown(g) /\ g.error = "open"
      BY <1>4, <1>5, ErrorAfter DEF After
    <3> HIDE DEF g
    <3>2. out'.state = "failed" /\ out'.error = g.error /\ out'.exited = g.exited
      BY <2>1, <3>1 DEF g, ErrorsKnown, Shape, Fields
    <3> QED BY <3>1, <3>2 DEF ErrorsKnown
  <2>2. CASE out' = [WriteError(out) EXCEPT !.state = "failed"]
    <3> DEFINE g == WriteError(out)
    <3>1. ErrorsKnown(g) /\ g.error = "write"
      BY <1>4, <1>5, WriteErrorAfter DEF After
    <3> HIDE DEF g
    <3>2. out'.state = "failed" /\ out'.error = g.error /\ out'.exited = g.exited
      BY <2>2, <3>1 DEF g, ErrorsKnown, Shape, Fields
    <3> QED BY <3>1, <3>2 DEF ErrorsKnown
  <2>3. CASE out' = [out EXCEPT !.state = "open", !.header.total_blks = len \div BlockSize]
    BY <1>4, <1>5, <2>3 DEF Shape, Fields
  <2> QED BY <1>1, <2>1, <2>2, <2>3 DEF open_output_file
<1>8. PhaseInv'
  BY <1>1, <1>2, <1>7 DEF PhaseInv, Writing
<1>9. StateInv'
  BY <1>1, <1>3, <1>6, <1>7 DEF StateInv
<1>10. OnlyKnownErrors'
  BY <1>1, <1>2, <1>4, <1>7, ErrorsNext DEF Harmless
<1>11. WrittenInv'
  <2>1. CASE out'.state = "failed"
    BY <1>7, <2>1 DEF WrittenInv
  <2>2. CASE out'.state = "open"
    <3>1. Frontier' = 0 /\ phase' = "super"
      BY <1>1, <2>2 DEF Frontier
    <3>2. Settled(out', 0)
      BY <1>7, <2>2 DEF Settled, Within
    <3>3. out'.pos # len
      BY <1>2, <1>7, <2>2, Constants
    <3> QED BY <1>1, <1>2, <3>1, <3>2, <3>3, WrittenNext
  <2> QED BY <1>7, <2>1, <2>2
<1> QED BY <1>6, <1>8, <1>9, <1>10, <1>11 DEF WriterSide

\* A step that writes data, or reports why not.
LEMMA WritingStep ==
    ASSUME WriterSide, UNCHANGED Settings, phase \in {"super", "desc", "blocks"},
           phase' \in {"desc", "blocks"}, PhaseInv', After(out, out'), WriterInv(out'),
           out.error = "none" =>
               \/ out'.error \in {"write", "seek", "file"}
               \/ out'.error = "past_end" /\ \E p \in queued : p.file /\ PieceStart(p) + p.size = len
               \/ /\ out'.error = "none" /\ Settled(out', Frontier')
                  /\ mode # "sparse" /\ out'.pos = len => Holds(len - 1)
    PROVE  WriterSide'
<1>1. PlacesInv /\ PhaseInv /\ StateInv /\ OnlyKnownErrors
  BY DEF WriterSide
<1>2. /\ out.state = "open"
      /\ out.error # "none" => out'.error = out.error
  BY <1>1 DEF PhaseInv, Writing, After
<1>3. PlacesInv' /\ StateInv'
  BY <1>1, <1>2, SamePlaces, StateNext
<1>4. WrittenInv'
  BY <1>1, <1>2, WrittenNext
<1>5. OnlyKnownErrors'
  BY <1>1, <1>2, ErrorsNext DEF Harmless
<1> QED BY <1>3, <1>4, <1>5 DEF WriterSide

\* What a step of write_ext4_image leaves alone.
LEMMA StepKeeps ==
    ASSUME NEW from, NEW to, Step(from, to), UNCHANGED <<len, mode, force>>
    PROVE  phase = from /\ phase' = to /\ UNCHANGED Settings /\ UNCHANGED readerVars
           /\ UNCHANGED damaged
BY DEF Step, Settings

\* The superblock: what is in front of the descriptors.
LEMMA SuperData ==
    ASSUME PlacesInv, NEW io, write_super_block(io)
    PROVE  \E off \in Nat : \E data :
              /\ off % BlockSize = 0 /\ Meant(data, off)
              /\ off + Len(data) = DescStart /\ RoundUp(Len(data)) = Len(data)
              /\ out' = WriteBlock(out, off, data, io)
              /\ \A u \in Nat : u < DescStart =>
                    Expected(u) = IF off <= u /\ u < off + Len(data) THEN data[u - off + 1] ELSE 0
<1>1. /\ kilo \in Nat \ {0} /\ BlockSize \in Nat \ {0} /\ (kilo = BlockSize \/ 2 * kilo <= BlockSize)
      /\ DescStart \in Nat
      /\ kilo < BlockSize => DescStart = BlockSize
      /\ kilo = BlockSize => DescStart = kilo + kilo
  BY Constants, HeadPlaces
<1>2. \A u \in Nat : u < DescStart => Expected(u) = IF u \in kilo .. (2 * kilo - 1) THEN u + 1 ELSE 0
  BY HeadHolds DEF Expected
<1>3. RoundUp(BlockSize) = BlockSize
  <2>1. 1 \in Nat /\ 1 * BlockSize = BlockSize
    BY <1>1
  <2> QED BY <2>1, RoundUpMultiple
<1>4. CASE kilo < BlockSize
  <2> DEFINE data == [j \in 1 .. BlockSize |-> IF j \in (kilo + 1) .. (2 * kilo) THEN j ELSE 0]
  <2>1. out' = WriteBlock(out, 0, data, io)
    BY <1>1, <1>4 DEF write_super_block, write_data_block
  <2>2. data \in Seq(Nat) /\ Len(data) = BlockSize /\ DOMAIN data = 1 .. BlockSize
    BY <1>1
  <2>3. \A j \in 1 .. BlockSize : data[j] = IF j \in (kilo + 1) .. (2 * kilo) THEN j ELSE 0
    OBVIOUS
  <2> HIDE DEF data
  <2>4. Meant(data, 0)
    BY <2>2, <2>3 DEF Meant
  <2>5. 0 % BlockSize = 0
    <3>1. (0 * BlockSize) % BlockSize = 0 /\ 0 * BlockSize = 0
      BY <1>1, MultipleIsAligned
    <3> QED BY <3>1
  <2>6. ASSUME NEW u \in Nat, u < DescStart
        PROVE  Expected(u) = IF 0 <= u /\ u < 0 + Len(data) THEN data[u - 0 + 1] ELSE 0
    <3>1. u + 1 \in 1 .. BlockSize /\ u - 0 + 1 = u + 1 /\ 0 <= u /\ u < 0 + Len(data)
      BY <1>1, <1>4, <2>2, <2>6
    <3>2. data[u + 1] = IF u + 1 \in (kilo + 1) .. (2 * kilo) THEN u + 1 ELSE 0
      BY <2>3, <3>1
    <3>3. u + 1 \in (kilo + 1) .. (2 * kilo) <=> u \in kilo .. (2 * kilo - 1)
      BY <1>1
    <3> QED BY <1>2, <2>6, <3>1, <3>2, <3>3
  <2> QED BY <1>1, <1>3, <1>4, <2>1, <2>2, <2>4, <2>5, <2>6
<1>5. CASE kilo = BlockSize
  <2> DEFINE data == DataFor(kilo, kilo)
  <2>1. out' = WriteBlock(out, kilo, data, io)
    BY <1>1, <1>5 DEF write_super_block, write_data_block
  <2>2. Meant(data, kilo)
    BY <1>1, DataMeant
  <2>3. Len(data) = kilo /\ \A j \in 1 .. kilo : data[j] = kilo + j
    BY <1>1 DEF DataFor
  <2> HIDE DEF data
  <2>4. kilo % BlockSize = 0
    <3>1. (1 * BlockSize) % BlockSize = 0 /\ 1 * BlockSize = BlockSize
      BY <1>1, MultipleIsAligned
    <3> QED BY <1>5, <3>1
  <2>5. ASSUME NEW u \in Nat, u < DescStart
        PROVE  Expected(u) = IF kilo <= u /\ u < kilo + Len(data) THEN data[u - kilo + 1] ELSE 0
    <3>1. u \in kilo .. (2 * kilo - 1) <=> kilo <= u
      BY <1>1, <1>5, <2>5
    <3>2. CASE kilo <= u
      <4>1. u - kilo + 1 \in 1 .. kilo /\ kilo + (u - kilo + 1) = u + 1 /\ u < kilo + Len(data)
        BY <1>1, <1>5, <2>3, <2>5, <3>2
      <4>2. data[u - kilo + 1] = u + 1
        BY <2>3, <4>1
      <4> QED BY <1>2, <2>5, <3>1, <3>2, <4>1, <4>2
    <3>3. CASE ~(kilo <= u)
      BY <1>2, <2>5, <3>1, <3>3
    <3> QED BY <3>2, <3>3
  <2> QED BY <1>1, <1>3, <1>5, <2>1, <2>2, <2>3, <2>4, <2>5, ZenonT(60)
<1> QED BY <1>1, <1>4, <1>5

LEMMA SuperStep ==
    ASSUME WriterSide, NEW io, write_super_block(io)
    PROVE  WriterSide'
<1>1. PlacesInv /\ PhaseInv /\ StateInv /\ WrittenInv
  BY DEF WriterSide
<1>2. /\ phase = "super" /\ phase' = "desc" /\ UNCHANGED Settings
      /\ k' = k /\ last_block' = last_block
  <2>1. Step("super", "desc") /\ UNCHANGED <<len, mode, force>> /\ k' = k /\ last_block' = last_block
    BY DEF write_super_block, write_data_block
  <2> QED BY <2>1, StepKeeps
<1>3. PICK off \in Nat, data \in Seq(Nat) :
         /\ off % BlockSize = 0 /\ Meant(data, off)
         /\ off + Len(data) = DescStart /\ RoundUp(Len(data)) = Len(data)
         /\ out' = WriteBlock(out, off, data, io)
         /\ \A u \in Nat : u < DescStart =>
               Expected(u) = IF off <= u /\ u < off + Len(data) THEN data[u - off + 1] ELSE 0
  BY <1>1, SuperData DEF Meant
<1>4. ErrorsKnown(out) /\ WriterInv(out) /\ out.state = "open"
  BY <1>1, <1>2, OpenFile DEF Writing
<1>5. After(out, out') /\ WriterInv(out')
  BY <1>3, <1>4, DataAfter, WriteBlockKeeps
<1>6. PhaseInv'
  BY <1>1, <1>2, <1>5 DEF PhaseInv, Writing, After
<1>7. DescStart \in Nat /\ len \in Nat /\ DescStart < len
  <2> DEFINE b == DescBlocks * BlockSize
             f == FirstFree * BlockSize
  <2>1. /\ DescStart \in Nat /\ b \in Nat \ {0} /\ f \in Nat /\ f = DescStart + b
        /\ f <= len /\ len \in Nat
    BY <1>1, HeadPlaces, Constants
  <2> HIDE DEF b, f
  <2> QED BY <2>1
<1>8. out' = WriteData(out, off, data, io)
  <2>1. ~(off + Len(data) > len)
    BY <1>3, <1>7
  <2> QED BY <1>3, <2>1 DEF WriteBlock
<1>9. ASSUME out.error = "none"
      PROVE  \/ out'.error \in {"write", "seek"}
             \/ /\ out'.error = "none" /\ Settled(out', DescStart)
                /\ mode # "sparse" => out'.pos = DescStart
  <2>1. Settled(out, 0)
    BY <1>1, <1>2, <1>9 DEF WrittenInv, Frontier
  <2>2. DescStart = off + RoundUp(Len(data)) /\ 0 <= off
    BY <1>3
  <2>3. \A u \in Nat : 0 <= u /\ u < DescStart =>
           Expected(u) = IF off <= u /\ u < off + Len(data) THEN data[u - off + 1] ELSE 0
    BY <1>3
  <2> DEFINE p == WriteData(out, off, data, io)
  <2>4. \/ p.error \in {"write", "seek"}
        \/ /\ p.error = "none" /\ Settled(p, DescStart)
           /\ mode # "sparse" => p.pos = off + Len(data)
    <3> DEFINE n == 0
    <3>1. /\ n \in Nat /\ n <= off /\ Settled(out, n) /\ off % BlockSize = 0 /\ Meant(data, off)
          /\ \A u \in Nat : n <= u /\ u < DescStart =>
                Expected(u) = IF off <= u /\ u < off + Len(data) THEN data[u - off + 1] ELSE 0
      BY <1>3, <2>1, <2>3
    <3> HIDE DEF n
    <3> QED BY <1>4, <1>7, <1>9, <2>2, <3>1, WriteSettles, SMTT(60)
  <2> HIDE DEF p
  <2> QED BY <1>3, <1>8, <2>4 DEF p
<1>10. Frontier' = DescStart
  <2>1. DescStart' = DescStart
    BY <1>2, SameExpected
  <2> QED BY <1>2, <2>1 DEF Frontier
<1> QED BY <1>2, <1>5, <1>6, <1>7, <1>9, <1>10, WritingStep

\* The descriptors reach to the first block that can be allocated.
LEMMA DescStep ==
    ASSUME WriterSide, NEW io, write_group_descriptors(io)
    PROVE  WriterSide'
<1> DEFINE b == DescBlocks * BlockSize
           data == DataFor(DescStart, b)
           m == FirstFree * BlockSize
<1>1. PlacesInv /\ PhaseInv /\ StateInv /\ WrittenInv
  BY DEF WriterSide
<1>2. /\ phase = "desc" /\ phase' = "blocks" /\ UNCHANGED Settings
      /\ k' = k /\ last_block' = last_block /\ out' = WriteBlock(out, DescStart, data, io)
  <2>1. /\ Step("desc", "blocks") /\ UNCHANGED <<len, mode, force>>
        /\ k' = k /\ last_block' = last_block /\ out' = WriteBlock(out, DescStart, data, io)
    BY DEF write_group_descriptors, write_data_block
  <2> QED BY <2>1, StepKeeps
<1>3. /\ DescStart \in Nat /\ DescStart % BlockSize = 0 /\ b \in Nat /\ b > 0
      /\ m = DescStart + b /\ m \in Nat /\ RoundUp(b) = b /\ m <= len /\ len \in Nat
  BY <1>1, HeadPlaces, Constants
<1>4. Meant(data, DescStart) /\ Len(data) = b /\ \A j \in 1 .. b : data[j] = DescStart + j
  BY <1>3, DataMeant DEF DataFor
<1>5. \A u \in Nat : DescStart <= u /\ u < m => Holds(u)
  BY <1>1, HeadHolds
<1> HIDE DEF data, b, m
<1>6. ErrorsKnown(out) /\ WriterInv(out) /\ out.state = "open"
  BY <1>1, <1>2, OpenFile DEF Writing
<1>7. After(out, out') /\ WriterInv(out')
  BY <1>2, <1>3, <1>4, <1>6, DataAfter, WriteBlockKeeps
<1>8. PhaseInv'
  <2>1. Len(data_blocks') \in Nat
    BY <1>1, <1>2, SamePlaces, ListedPieces DEF Settings, queueVars
  <2> QED BY <1>1, <1>2, <1>7, <2>1 DEF PhaseInv, Writing, After
<1>9. out' = WriteData(out, DescStart, data, io)
  <2>1. ~(DescStart + Len(data) > len)
    BY <1>3, <1>4
  <2> QED BY <1>2, <2>1 DEF WriteBlock
<1>10. ASSUME NEW u \in Nat, DescStart <= u, u < m
       PROVE  Expected(u) = IF DescStart <= u /\ u < DescStart + Len(data)
                            THEN data[u - DescStart + 1] ELSE 0
  <2>1. u - DescStart + 1 \in 1 .. b /\ u < DescStart + Len(data)
        /\ DescStart + (u - DescStart + 1) = u + 1
    BY <1>3, <1>4, <1>10
  <2>2. Expected(u) = u + 1
    BY <1>5, <1>10 DEF Expected
  <2> QED BY <1>4, <1>10, <2>1, <2>2
<1>11. ASSUME out.error = "none"
       PROVE  \/ out'.error \in {"write", "seek"}
              \/ /\ out'.error = "none" /\ Settled(out', m)
                 /\ mode # "sparse" => out'.pos = m
  <2>1. Settled(out, DescStart)
    BY <1>1, <1>2, <1>11 DEF WrittenInv, Frontier
  <2>2. RoundUp(Len(data)) = b
    BY <1>3, <1>4, Zenon
  <2>3. m = DescStart + RoundUp(Len(data)) /\ DescStart <= DescStart /\ DescStart + Len(data) = m
    BY <1>3, <1>4, <2>2
  <2> DEFINE p == WriteData(out, DescStart, data, io)
  <2>4. \/ p.error \in {"write", "seek"}
        \/ /\ p.error = "none" /\ Settled(p, m)
           /\ mode # "sparse" => p.pos = DescStart + Len(data)
    BY <1>3, <1>4, <1>6, <1>10, <1>11, <2>1, <2>3, WriteSettles, SMTT(60)
  <2> HIDE DEF p
  <2> QED BY <1>9, <2>3, <2>4 DEF p
<1>12. Frontier' = m
  <2>1. FirstFree' = FirstFree /\ k' = 1
    BY <1>1, <1>2, SameExpected DEF PhaseInv
  <2> QED BY <1>2, <2>1 DEF Frontier, FreeBefore, m
<1>13. m = len => Holds(len - 1)
  <2> SUFFICES ASSUME m = len PROVE Holds(len - 1)
    OBVIOUS
  <2>1. len - 1 \in Nat /\ DescStart <= len - 1 /\ len - 1 < m
    BY <1>3
  <2> QED BY <1>5, <2>1
<1> QED BY <1>2, <1>7, <1>8, <1>11, <1>12, <1>13, WritingStep

\* The bytes of the next piece, with the gap in front of it.
LEMMA PieceData ==
    ASSUME PlacesInv, NEW n \in 1 .. Len(data_blocks)
    PROVE  LET d == data_blocks[n]
               data == DataFor(PieceStart(d), d.size)
           IN  /\ Meant(data, PieceStart(d)) /\ Len(data) = d.size
               /\ End(d) = PieceStart(d) + RoundUp(Len(data))
               /\ \A u \in Nat : FreeBefore(n) * BlockSize <= u /\ u < End(d) =>
                     Expected(u) = IF PieceStart(d) <= u /\ u < PieceStart(d) + Len(data)
                                   THEN data[u - PieceStart(d) + 1] ELSE 0
<1> DEFINE d == data_blocks[n]
           s == PieceStart(d)
           z == d.size
           data == DataFor(s, z)
<1>1. d \in queued /\ n \in 1 .. (Len(data_blocks) + 1)
  BY ListedPieces
<1>2. /\ s \in Nat /\ z \in Nat /\ End(d) \in Nat /\ RoundUp(z) \in Nat
      /\ s + RoundUp(z) = End(d)
  BY <1>1, PiecePlaces
<1>3. Meant(data, s) /\ Len(data) = z /\ \A j \in 1 .. z : data[j] = s + j
  <2> HIDE DEF s, z
  <2> QED BY <1>2, DataMeant DEF DataFor
<1>4. \A u \in Nat : FreeBefore(n) * BlockSize <= u /\ u < s => ~Holds(u)
  BY <1>1, GapHolds
<1>5. \A u \in Nat : s <= u /\ u < End(d) => (Holds(u) <=> u < s + z)
  BY PieceHolds
<1> DEFINE f == FreeBefore(n) * BlockSize
           e == End(d)
<1>6. RoundUp(Len(data)) = RoundUp(z)
  BY <1>3, Zenon
<1> HIDE DEF data, s, z, f, e, d
<1>7. ASSUME NEW u \in Nat, f <= u, u < e
      PROVE  Expected(u) = IF s <= u /\ u < s + Len(data) THEN data[u - s + 1] ELSE 0
  <2>1. CASE u < s
    <3>1. ~Holds(u)
      BY <1>4, <1>7, <2>1 DEF f
    <3>2. ~(s <= u)
      BY <1>2, <2>1
    <3> QED BY <3>1, <3>2 DEF Expected
  <2>2. CASE s <= u /\ u < s + z
    <3>1. u - s + 1 \in 1 .. z /\ s + (u - s + 1) = u + 1
      BY <1>2, <2>2
    <3>2. Holds(u)
      BY <1>5, <1>7, <2>2 DEF e
    <3>3. data[u - s + 1] = u + 1
      BY <1>3, <3>1
    <3> QED BY <1>3, <2>2, <3>2, <3>3 DEF Expected
  <2>3. CASE s <= u /\ ~(u < s + z)
    <3>1. ~Holds(u)
      BY <1>5, <1>7, <2>3 DEF e
    <3> QED BY <1>3, <2>3, <3>1 DEF Expected
  <2> QED BY <1>2, <2>1, <2>2, <2>3
<1> QED BY <1>2, <1>3, <1>6, <1>7 DEF data, s, z, f, e, d

\* The piece at data_blocks[k] is not behind the one before it, and its write moves
\* the frontier to its end.
LEMMA PieceStep ==
    ASSUME WriterSide, NEW io, write_queued(io)
    PROVE  WriterSide'
<1> DEFINE d == data_blocks[k]
           s == PieceStart(d)
           data == DataFor(s, d.size)
           p == WriteData(out, s, data, io)
           f == FreeBefore(k) * BlockSize
           e == End(d)
<1>1. PlacesInv /\ PhaseInv /\ StateInv /\ WrittenInv
  BY DEF WriterSide
<1>2. /\ phase = "blocks" /\ phase' = "blocks" /\ UNCHANGED Settings
      /\ k <= Len(data_blocks) /\ k' = k + 1 /\ ~out.exited
      /\ last_block' = d.block + Blocks(d.size) - 1
  <2>1. /\ Step("blocks", "blocks") /\ UNCHANGED <<len, mode, force>>
        /\ k <= Len(data_blocks) /\ k' = k + 1
        /\ last_block' = d.block + Blocks(d.size) - 1
    BY DEF write_queued
  <2> QED BY <2>1, StepKeeps DEF Step
<1>3. /\ Len(data_blocks) \in Nat /\ k \in 1 .. Len(data_blocks)
      /\ k \in 1 .. (Len(data_blocks) + 1) /\ d \in queued
      /\ last_block = IF k = 1 THEN 0 ELSE FreeBefore(k) - 1
  <2>1. /\ Len(data_blocks) \in Nat /\ k \in 1 .. (Len(data_blocks) + 1)
        /\ last_block = IF k = 1 THEN 0 ELSE FreeBefore(k) - 1
    BY <1>1, <1>2, ListedPieces DEF PhaseInv
  <2>2. k \in 1 .. Len(data_blocks)
    BY <1>2, <2>1
  <2> QED BY <1>1, <2>1, <2>2, ListedPieces
<1>4. /\ s \in Nat /\ s % BlockSize = 0 /\ d.size \in Nat \ {0} /\ d.block \in Nat
      /\ d.size <= RoundUp(d.size) /\ RoundUp(d.size) \in Nat
      /\ s + RoundUp(d.size) = e /\ e \in Nat /\ e <= len /\ len \in Nat
      /\ Blocks(d.size) \in Nat \ {0}
  BY <1>1, <1>3, PiecePlaces, Constants
<1>5. f \in Nat /\ f <= s /\ FreeBefore(k) \in Nat /\ FreeBefore(k) <= d.block
  BY <1>1, <1>3, FreeFacts
<1>6. /\ Meant(data, s) /\ Len(data) = d.size /\ e = s + RoundUp(Len(data))
      /\ \A u \in Nat : f <= u /\ u < e =>
            Expected(u) = IF s <= u /\ u < s + Len(data) THEN data[u - s + 1] ELSE 0
  BY <1>1, <1>3, PieceData
<1>7. s + d.size = len => Holds(len - 1)
  <2> SUFFICES ASSUME s + d.size = len PROVE Holds(len - 1)
    OBVIOUS
  <2>1. len - 1 \in Nat /\ s <= len - 1 /\ len - 1 < e /\ len - 1 < s + d.size
    BY <1>4
  <2> QED BY <1>1, <1>3, <2>1, PieceHolds
<1>8. ~(d.block < last_block)
  BY <1>3, <1>4, <1>5, SMTT(60)
<1>9. out' = IF d.file THEN WriteFile(out, s, data, io) ELSE WriteBlock(out, s, data, io)
  BY <1>2, <1>8 DEF write_queued
<1>10. FreeBefore(k)' = d.block + Blocks(d.size)
  <2>1. k' # 1 /\ k' - 1 = k
    BY <1>2, <1>3
  <2>2. data_blocks' = data_blocks
    BY <1>2 DEF Settings, queueVars
  <2> QED BY <2>1, <2>2 DEF FreeBefore
<1>11. Frontier' = e
  BY <1>2, <1>10 DEF Frontier, End
<1> HIDE DEF d, s, data, p, f, e
<1>12. ErrorsKnown(out) /\ WriterInv(out) /\ out.state = "open"
  BY <1>1, <1>2, OpenFile DEF Writing
<1>13. After(out, out') /\ WriterInv(out')
  BY <1>4, <1>6, <1>9, <1>12, DataAfter, WriteBlockKeeps
<1>14. PhaseInv'
  <2>1. k' \in 1 .. (Len(data_blocks) + 1) /\ k' # 1 /\ data_blocks' = data_blocks
    BY <1>2, <1>3 DEF Settings, queueVars
  <2>2. last_block' = FreeBefore(k)' - 1
    <3> DEFINE a == d.block
               b == Blocks(d.size)
    <3>1. last_block' = a + b - 1 /\ FreeBefore(k)' = a + b /\ a \in Nat /\ b \in Nat
      BY <1>2, <1>4, <1>10
    <3> HIDE DEF a, b
    <3> QED BY <3>1
  <2>3. out'.state = "open"
    BY <1>12, <1>13 DEF After
  <2> QED BY <1>2, <2>1, <2>2, <2>3 DEF PhaseInv, Writing
<1>15. ASSUME out.error = "none"
       PROVE  \/ p.error \in {"write", "seek"}
              \/ p.error = "none" /\ Settled(p, e) /\ (mode # "sparse" => p.pos = s + d.size)
  <2>1. Settled(out, f)
    BY <1>1, <1>2, <1>15 DEF WrittenInv, Frontier, f
  <2>2. \/ p.error \in {"write", "seek"}
        \/ p.error = "none" /\ Settled(p, e) /\ (mode # "sparse" => p.pos = s + Len(data))
    <3>1. /\ f \in Nat /\ f <= s /\ s \in Nat /\ s % BlockSize = 0 /\ e \in Nat
          /\ Meant(data, s) /\ e = s + RoundUp(Len(data))
          /\ \A u \in Nat : f <= u /\ u < e =>
                Expected(u) = IF s <= u /\ u < s + Len(data) THEN data[u - s + 1] ELSE 0
      BY <1>4, <1>5, <1>6
    <3> USE DEF p
    <3> QED BY <1>12, <1>15, <2>1, <3>1, WriteSettles
  <2> QED BY <1>6, <2>2
<1>16. ASSUME out.error = "none"
       PROVE  \/ out' = p
              \/ out'.error = "file"
              \/ out'.error = "past_end" /\ d.file /\ s + d.size = len
  <2>1. Error(out, "past_end").error = "past_end" /\ Error(out, "file").error = "file"
    BY <1>12, <1>16, ErrorAfter
  <2>2. s + Len(data) <= len
    BY <1>4, <1>6
  <2>3. s + Len(data) >= len => s + d.size = len
    BY <1>4, <1>6
  <2>4. CASE d.file
    <3>1. out' = IF s + Len(data) >= len THEN Error(out, "past_end")
                 ELSE IF io = "file" THEN Error(out, "file") ELSE p
      BY <1>9, <2>4 DEF WriteFile, p
    <3> QED BY <2>1, <2>3, <2>4, <3>1
  <2>5. CASE ~d.file
    <3>1. out' = IF s + Len(data) > len THEN Error(out, "past_end") ELSE p
      BY <1>9, <2>5 DEF WriteBlock, p
    <3>2. ~(s + Len(data) > len)
      BY <1>4, <1>6
    <3> QED BY <3>1, <3>2
  <2> QED BY <2>4, <2>5
<1>17. ASSUME out.error = "none"
       PROVE  \/ out'.error \in {"write", "seek", "file"}
              \/ out'.error = "past_end" /\ \E q \in queued : q.file /\ PieceStart(q) + q.size = len
              \/ /\ out'.error = "none" /\ Settled(out', Frontier')
                 /\ mode # "sparse" /\ out'.pos = len => Holds(len - 1)
  BY <1>3, <1>7, <1>11, <1>15, <1>16, <1>17 DEF s
<1> QED BY <1>2, <1>13, <1>14, <1>17, WritingStep

\* Behind the last piece there is nothing: the image is right, but for its length.
LEMMA AllWritten ==
    ASSUME PlacesInv, k = Len(data_blocks) + 1, NEW o, WriterInv(o),
           Settled(o, FreeBefore(k) * BlockSize)
    PROVE  \A u \in Nat : Byte(o, u) = Expected(u)
<1> DEFINE f == FreeBefore(k) * BlockSize
<1>1. Len(data_blocks) \in Nat /\ k \in 1 .. (Len(data_blocks) + 1) /\ ~(k <= Len(data_blocks))
  BY ListedPieces
<1>2. f \in Nat
  BY <1>1, FreeFacts
<1>3. \A u \in Nat : f <= u => ~Holds(u)
  BY <1>1, GapHolds
<1>4. Settled(o, f)
  OBVIOUS
<1> HIDE DEF f
<1>5. ASSUME NEW u \in Nat
      PROVE  Byte(o, u) = Expected(u)
  <2>1. CASE u < f
    BY <1>2, <1>4, <2>1 DEF Settled
  <2>2. CASE f <= u
    <3>1. Byte(o, u) = 0
      BY <1>2, <1>4, <2>2, Unwritten DEF Settled
    <3> QED BY <1>3, <2>2, <3>1 DEF Expected
  <2> QED BY <1>2, <2>1, <2>2
<1> QED BY <1>5

\* A gap at the end adds zeroes only.
LEMMA GapAdded ==
    ASSUME mode = "sparse", NEW o, WriterInv(o), NEW z \in Nat, NEW p,
           p.cur_out_ptr = o.cur_out_ptr + z, p.crc32 = o.crc32 \o Zeros(z), NEW u \in Nat
    PROVE  Byte(p, u) = Byte(o, u)
<1> DEFINE cur == o.cur_out_ptr
           crc == o.crc32
           zs == Zeros(z)
<1>1. cur \in Nat /\ crc \in Seq(Nat) /\ Len(crc) = cur
  BY DEF WriterInv, PositionExact
<1>2. zs \in Seq(Nat) /\ Len(zs) = z /\ \A j \in 1 .. z : zs[j] = 0
  BY ZerosFacts
<1>3. p.cur_out_ptr = cur + z /\ p.crc32 = crc \o zs
  OBVIOUS
<1>4. /\ Byte(p, u) = IF u < p.cur_out_ptr THEN p.crc32[u + 1] ELSE 0
      /\ Byte(o, u) = IF u < cur THEN crc[u + 1] ELSE 0
  BY DEF Byte
<1> HIDE DEF cur, crc, zs
<1>5. \A j \in 1 .. (cur + z) : (crc \o zs)[j] = IF j <= cur THEN crc[j] ELSE zs[j - cur]
  BY <1>1, <1>2, Joined, SMTT(30)
<1> DEFINE all == p.crc32
<1>6. \A j \in 1 .. (cur + z) : all[j] = IF j <= cur THEN crc[j] ELSE zs[j - cur]
  BY <1>3, <1>5
<1>7. Byte(p, u) = IF u < cur + z THEN all[u + 1] ELSE 0
  BY <1>3, <1>4
<1> HIDE DEF all
<1>8. CASE u < cur
  <2>1. u + 1 \in 1 .. (cur + z) /\ u + 1 <= cur /\ u < cur + z
    BY <1>1, <1>8
  <2> QED BY <1>4, <1>6, <1>7, <1>8, <2>1
<1>9. CASE cur <= u /\ u < cur + z
  <2>1. u + 1 \in 1 .. (cur + z) /\ ~(u + 1 <= cur) /\ (u + 1) - cur \in 1 .. z /\ ~(u < cur)
    BY <1>1, <1>9
  <2>2. all[u + 1] = 0
    <3>1. zs[(u + 1) - cur] = 0
      BY <1>2, <2>1
    <3>2. all[u + 1] = zs[(u + 1) - cur]
      BY <1>6, <2>1
    <3> QED BY <3>1, <3>2, Zenon
  <2>3. Byte(p, u) = all[u + 1] /\ Byte(o, u) = 0
    BY <1>4, <1>7, <1>9, <2>1
  <2> QED BY <2>2, <2>3
<1>10. CASE cur + z <= u
  <2>1. ~(u < cur + z) /\ ~(u < cur)
    BY <1>1, <1>10
  <2> QED BY <1>4, <1>7, <2>1
<1> QED BY <1>1, <1>8, <1>9, <1>10

\* The write of the last byte of a file without chunks.
LEMMA LastByte ==
    ASSUME mode # "sparse", len \in Nat \ {0},
           NEW o, ErrorsKnown(o), o.error = "none", Within(o, len),
           \A u \in Nat : Byte(o, u) = Expected(u),
           o.pos = len => Holds(len - 1), NEW io
    PROVE  LET p == WriteAt(o, len - 1, <<0>>, io)
           IN  \/ p.error \in {"write", "seek"}
               \/ p.error = "seek_back" /\ Holds(len - 1)
               \/ p.error = "none" /\ Padded(p)
<1> DEFINE p == WriteAt(o, len - 1, <<0>>, io)
<1>1. PICK off : off = len - 1
  OBVIOUS
<1>2. PICK data : data = <<0>>
  OBVIOUS
<1>3. /\ off \in Nat /\ Len(data) = 1 /\ Len(data) \in Nat /\ data[1] = 0
      /\ len <= off + Len(data) /\ off + Len(data) = len /\ len \in Nat
  BY <1>1, <1>2
<1>4. p = WriteAt(o, off, data, io)
  BY <1>1, <1>2, Zenon
<1> HIDE DEF p
<1>5. \/ mode = "gz" /\ off < o.pos /\ p.error = "seek_back"
      \/ p.error \in {"seek", "write"}
      \/ /\ p.error = "none" /\ p.pos = off + Len(data)
         /\ \A u \in DOMAIN p.raw : u \in 0 .. (off + Len(data) - 1)
         /\ \A u \in Nat :
               Byte(p, u) = IF off <= u /\ u < off + Len(data) THEN data[u - off + 1]
                            ELSE Byte(o, u)
  <2>1. /\ off \in Nat /\ Len(data) \in Nat /\ len \in Nat /\ len <= off + Len(data)
        /\ Within(o, len) /\ ErrorsKnown(o) /\ o.error = "none" /\ mode # "sparse"
    BY <1>3
  <2>2. LET q == WriteAt(o, off, data, io)
        IN  \/ mode = "gz" /\ off < o.pos /\ q.error = "seek_back"
            \/ q.error \in {"seek", "write"}
            \/ /\ q.error = "none" /\ q.pos = off + Len(data)
               /\ \A u \in DOMAIN q.raw : u \in 0 .. (off + Len(data) - 1)
               /\ \A u \in Nat :
                     Byte(q, u) = IF off <= u /\ u < off + Len(data) THEN data[u - off + 1]
                                  ELSE Byte(o, u)
    BY <2>1, PlacedAt
  <2> QED BY <1>4, <2>2
<1>6. off < o.pos => Holds(len - 1)
  <2>1. o.pos \in 0 .. len
    BY DEF Within
  <2>2. off < o.pos => o.pos = len
    BY <1>1, <2>1
  <2> QED BY <2>2
<1>7. p.error \in {"seek_back", "seek", "write"} \/ off \in DOMAIN p.raw
  <2>1. p.error \in {"seek_back", "seek", "write"} \/ p.raw = RawAfter(o, off, data)
    BY <1>4, AtAfter
  <2>2. off \in off .. (off + Len(data) - 1)
    BY <1>3
  <2> QED BY <2>1, <2>2 DEF RawAfter
<1>8. ASSUME p.error \notin {"seek_back", "seek", "write"}
      PROVE  p.error = "none" /\ Padded(p)
  <2>1. ASSUME NEW u \in 0 .. (len - 1)
        PROVE  Byte(p, u) = IF u = len - 1 THEN 0 ELSE Expected(u)
    <3>1. u \in Nat /\ (off <= u /\ u < off + Len(data) <=> u = len - 1)
      BY <1>1, <1>3
    <3>2. u = len - 1 => u - off + 1 = 1
      BY <1>1
    <3> QED BY <1>3, <1>5, <1>8, <3>1, <3>2
  <2> QED BY <1>1, <1>3, <1>5, <1>7, <1>8, <2>1 DEF Padded
<1> QED BY <1>5, <1>6, <1>8 DEF p

\* Padding makes the image whole, or fails in one of the ways that are known.
LEMMA PadMakesWhole ==
    ASSUME PlacesInv, k = Len(data_blocks) + 1,
           NEW o, WriterInv(o), ErrorsKnown(o), o.error = "none",
           Settled(o, FreeBefore(k) * BlockSize),
           mode # "sparse" /\ o.pos = len => Holds(len - 1), NEW io
    PROVE  LET p == Pad(o, len, io)
           IN  \/ p.error \in {"write", "seek"}
               \/ p.error = "dont_care_size" /\ len % BlockSize # 0
               \/ p.error = "seek_back" /\ Holds(len - 1)
               \/ p.error = "none" /\ Padded(p)
<1> DEFINE f == FreeBefore(k) * BlockSize
           cur == o.cur_out_ptr
           p == Pad(o, len, io)
<1>1. len \in Nat \ {0} /\ f \in Nat /\ f <= len /\ BlockSize \in Nat \ {0}
  <2>1. Len(data_blocks) \in Nat /\ k \in 1 .. (Len(data_blocks) + 1)
    BY ListedPieces
  <2> QED BY <2>1, Constants, FreeFacts
<1>2. \A u \in Nat : Byte(o, u) = Expected(u)
  BY AllWritten
<1>3. Within(o, f)
  BY DEF Settled
<1> HIDE DEF f
<1>4. ~(len > len)
  BY <1>1
<1>5. CASE mode = "sparse"
  <2>1. cur \in Nat /\ cur <= f /\ cur % BlockSize = 0
    BY <1>3, <1>5 DEF WriterInv, PositionExact, Within
  <2>2. CASE len > cur
    <3> DEFINE z == len - cur
    <3>1. z \in Nat /\ cur + z = len
      BY <1>1, <2>1, <2>2
    <3>2. p = emit_skip_chunk(o, z, io)
      BY <1>1, <1>4, <1>5, <2>1, <2>2 DEF Pad
    <3> HIDE DEF z, p, cur
    <3>3. \/ z % BlockSize # 0 /\ p.error = "dont_care_size"
          \/ p.error = "write"
          \/ p.error = "none" /\ p.cur_out_ptr = cur + z /\ p.crc32 = o.crc32 \o Zeros(z)
      BY <3>1, <3>2, SkipAfter DEF cur
    <3>4. z % BlockSize # 0 => len % BlockSize # 0
      <4>1. (cur + z) % BlockSize = 0 <=> z % BlockSize = 0
        <5>1. cur \in Int /\ z \in Int /\ BlockSize \in Nat \ {0} /\ cur % BlockSize = 0
          BY <1>1, <2>1, <3>1
        <5> QED BY <5>1, SumOfMultiples, Zenon
      <4> QED BY <3>1, <4>1
    <3>5. ASSUME p.cur_out_ptr = cur + z, p.crc32 = o.crc32 \o Zeros(z)
          PROVE  Padded(p)
      <4>1. \A u \in Nat : Byte(p, u) = Byte(o, u)
        BY <1>5, <3>1, <3>5, GapAdded DEF cur
      <4> QED BY <1>1, <1>2, <1>5, <3>1, <3>5, <4>1 DEF Padded
    <3> QED BY <3>3, <3>4, <3>5 DEF p
  <2>3. CASE ~(len > cur)
    <3>1. cur = len
      BY <1>1, <2>1, <2>3
    <3>2. p = o
      BY <1>4, <1>5, <2>1, <2>3, <3>1 DEF Pad
    <3>3. Padded(o)
      BY <1>1, <1>2, <1>5, <3>1 DEF Padded
    <3> QED BY <3>2, <3>3
  <2> QED BY <2>2, <2>3
<1>6. CASE mode # "sparse"
  <2>1. p = WriteAt(o, len - 1, <<0>>, io)
    BY <1>4, <1>6 DEF Pad
  <2>2. Within(o, len)
    BY <1>1, <1>3, <1>6 DEF Within
  <2>3. \A u \in Nat : Byte(o, u) = Expected(u)
    BY <1>2
  <2> QED BY <1>1, <1>6, <2>1, <2>2, <2>3, LastByte
<1> QED BY <1>5, <1>6

LEMMA PadStep ==
    ASSUME WriterSide, NEW io, pad(io)
    PROVE  WriterSide'
<1>1. PlacesInv /\ PhaseInv /\ StateInv /\ WrittenInv /\ OnlyKnownErrors
  BY DEF WriterSide
<1>2. /\ phase = "blocks" /\ phase' = "close" /\ UNCHANGED Settings
      /\ k > Len(data_blocks) /\ out' = Pad(out, len, io)
  <2>1. /\ Step("blocks", "close") /\ UNCHANGED <<len, mode, force>>
        /\ k > Len(data_blocks) /\ out' = Pad(out, len, io)
    BY DEF pad, pad_output_file
  <2> QED BY <2>1, StepKeeps
<1>3. k = Len(data_blocks) + 1
  <2>1. Len(data_blocks) \in Nat /\ k \in 1 .. (Len(data_blocks) + 1)
    BY <1>1, <1>2, ListedPieces DEF PhaseInv
  <2> QED BY <1>2, <2>1
<1>4. ErrorsKnown(out) /\ WriterInv(out) /\ out.state = "open" /\ len \in Nat
  BY <1>1, <1>2, OpenFile, Constants DEF Writing
<1>5. After(out, out') /\ WriterInv(out')
  BY <1>2, <1>4, PadAfter, PadKeeps
<1>6. PlacesInv' /\ StateInv'
  BY <1>1, <1>2, <1>4, <1>5, SamePlaces, StateNext
<1>7. PhaseInv'
  BY <1>2, <1>4, <1>5 DEF PhaseInv, Writing, After
<1>8. out.error = "none" =>
        \/ out'.error \in {"write", "seek"}
        \/ out'.error = "dont_care_size" /\ len % BlockSize # 0
        \/ out'.error = "seek_back" /\ Holds(len - 1)
        \/ out'.error = "none" /\ Whole(out')
  <2> SUFFICES ASSUME out.error = "none"
               PROVE  \/ out'.error \in {"write", "seek"}
                      \/ out'.error = "dont_care_size" /\ len % BlockSize # 0
                      \/ out'.error = "seek_back" /\ Holds(len - 1)
                      \/ out'.error = "none" /\ Whole(out')
    OBVIOUS
  <2>1. /\ Settled(out, FreeBefore(k) * BlockSize)
        /\ mode # "sparse" /\ out.pos = len => Holds(len - 1)
    BY <1>1, <1>2 DEF WrittenInv, Frontier
  <2> QED BY <1>1, <1>2, <1>3, <1>4, <2>1, PadMakesWhole DEF Whole
<1>9. out.error # "none" => out'.error = out.error
  BY <1>5 DEF After
<1>10. WrittenInv'
  BY <1>1, <1>2, <1>8, <1>9, WrittenNext
<1>11. OnlyKnownErrors'
  BY <1>1, <1>2, <1>8, <1>9, ErrorsNext DEF Harmless
<1> QED BY <1>6, <1>7, <1>10, <1>11 DEF WriterSide

\* What closing does: a header that is written is that of the finished file.
LEMMA ClosedFile ==
    ASSUME NEW o, ErrorsKnown(o), o.state = "open", ~o.exited, NEW io
    PROVE  LET p == Close(o, io)
           IN  /\ o.error # "none" => p.error = o.error
               /\ o.error = "none" => p.error \in Harmless
               /\ p.exited <=> ~force /\ p.error # "none"
               /\ p.error = "none" =>
                     /\ ~p.write_failed /\ p.state = "closed"
                     /\ p.raw = o.raw /\ p.cur_out_ptr = o.cur_out_ptr /\ p.crc32 = o.crc32
                     /\ p.lost = o.lost
               /\ p.state = "open" => p.header = o.header
               /\ p.state = "closed" /\ mode = "sparse" /\ ~p.write_failed =>
                     p.header = Header(p) /\ ~p.exited
<1> DEFINE e == Error(o, "seek")
           w == WriteError(e)
           v == WriteError(o)
           p == Close(o, io)
<1>1. Shape(o) /\ (o.exited <=> ~force /\ o.error # "none") /\ (o.error = "none" => ~o.write_failed)
  BY DEF ErrorsKnown
<1>2. /\ After(o, e) /\ (o.error = "none" => e.error = "seek") /\ e.error # "none"
      /\ After(o, v) /\ (o.error = "none" => v.error = "write") /\ v.error # "none"
      /\ v.write_failed = TRUE
  <2>1. After(o, e) /\ (o.error = "none" => e.error = "seek") /\ e.error # "none"
    BY ErrorAfter
  <2>2. /\ After(o, v) /\ (o.error = "none" => v.error = "write") /\ v.error # "none"
        /\ v.write_failed = TRUE
    BY WriteErrorAfter
  <2> QED BY <2>1, <2>2
<1>3. After(e, w) /\ w.error # "none" /\ w.write_failed = TRUE
  BY <1>2, WriteErrorAfter DEF After
<1> HIDE DEF e, w, v
<1>4. /\ w.state = o.state /\ w.header = o.header /\ Shape(w) /\ (w.exited <=> ~force)
      /\ (o.error # "none" => w.error = o.error)
      /\ (o.error = "none" => w.error = "seek")
  BY <1>2, <1>3 DEF After, ErrorsKnown
<1>5. /\ v.state = o.state /\ Shape(v) /\ (v.exited <=> ~force)
      /\ (o.error # "none" => v.error = o.error)
  BY <1>2 DEF After, ErrorsKnown
<1>6. p = IF mode # "sparse" THEN [o EXCEPT !.state = "closed"]
          ELSE IF (IF io = "seek" THEN w ELSE o).exited THEN (IF io = "seek" THEN w ELSE o)
          ELSE IF io = "header" THEN [v EXCEPT !.state = "closed"]
          ELSE [(IF io = "seek" THEN w ELSE o) EXCEPT !.state = "closed", !.header = Header(o)]
  BY DEF Close, e, w, v
<1> HIDE DEF p
<1>7. CASE mode # "sparse"
  <2>1. /\ p.state = "closed" /\ p.error = o.error /\ p.exited = o.exited
        /\ p.write_failed = o.write_failed
        /\ p.raw = o.raw /\ p.cur_out_ptr = o.cur_out_ptr /\ p.crc32 = o.crc32
        /\ p.lost = o.lost
    BY <1>1, <1>6, <1>7 DEF Shape, Fields
  <2> QED BY <1>1, <1>7, <2>1 DEF p, Harmless
<1>8. CASE mode = "sparse" /\ io = "seek" /\ w.exited
  <2>1. p = w
    BY <1>6, <1>8
  <2> QED BY <1>3, <1>4, <1>8, <2>1 DEF p, Harmless
<1>9. CASE mode = "sparse" /\ io = "seek" /\ ~w.exited
  <2>1. /\ p.state = "closed" /\ p.error = w.error /\ p.exited = w.exited
        /\ p.write_failed = w.write_failed
    <3>1. p = [w EXCEPT !.state = "closed", !.header = Header(o)]
      BY <1>6, <1>9
    <3> QED BY <1>4, <3>1 DEF Shape, Fields
  <2> QED BY <1>3, <1>4, <1>9, <2>1 DEF p, Harmless
<1>10. CASE mode = "sparse" /\ io = "header"
  <2>1. p = [v EXCEPT !.state = "closed"]
    BY <1>6, <1>10
  <2>2. /\ p.state = "closed" /\ p.error = v.error /\ p.exited = v.exited
        /\ p.write_failed = v.write_failed
    BY <1>5, <2>1 DEF Shape, Fields
  <2> QED BY <1>2, <1>5, <1>10, <2>2 DEF p, Harmless
<1>11. CASE mode = "sparse" /\ io \notin {"seek", "header"}
  <2>1. p = [o EXCEPT !.state = "closed", !.header = Header(o)]
    BY <1>6, <1>11
  <2>2. /\ p.state = "closed" /\ p.error = o.error /\ p.exited = o.exited
        /\ p.write_failed = o.write_failed /\ p.header = Header(o)
        /\ p.raw = o.raw /\ p.cur_out_ptr = o.cur_out_ptr /\ p.crc32 = o.crc32
        /\ p.lost = o.lost
        /\ p.chunk_cnt = o.chunk_cnt
    BY <1>1, <2>1 DEF Shape, Fields
  <2>3. Header(p) = Header(o)
    BY <2>2 DEF Header
  <2> QED BY <1>1, <1>11, <2>2, <2>3 DEF p, Harmless
<1> QED BY <1>7, <1>8, <1>9, <1>10, <1>11

\* A failing close changes nothing but what is lost.
SameButLost(o, p) ==
    /\ p.lost = TRUE
    /\ \A f \in Fields \ {"lost", "raw"} : p[f] = o[f]

LEMMA LostIs ==
    ASSUME NEW o, WriterInv(o), NEW n
    PROVE  SameButLost(o, Lost(o, n))
<1> DEFINE kept == IF mode = "sparse" THEN o.raw
                   ELSE [u \in {v \in DOMAIN o.raw : v < n} |-> o.raw[u]]
           p == Lost(o, n)
<1>1. p = [o EXCEPT !.lost = TRUE, !.raw = kept] /\ Shape(o)
  BY DEF Lost, WriterInv
<1> HIDE DEF kept, p
<1>2. SameButLost(o, p)
  BY <1>1 DEF Shape, Fields, SameButLost
<1> QED BY <1>2 DEF p

LEMMA CloseStep ==
    ASSUME WriterSide, NEW io, close(io)
    PROVE  WriterSide'
<1>1. PlacesInv /\ PhaseInv /\ StateInv /\ WrittenInv /\ OnlyKnownErrors
  BY DEF WriterSide
<1>2. /\ phase = "close" /\ phase' = "done" /\ UNCHANGED Settings
      /\ ~out.exited
      /\ out' = Close(out, io) \/ \E n \in 0 .. len : out' = Lost(Close(out, io), n)
  <2>1. /\ Step("close", "done") /\ UNCHANGED <<len, mode, force>>
        /\ out' = Close(out, io) \/ \E n \in 0 .. len : out' = Lost(Close(out, io), n)
    BY DEF close, close_output_file
  <2> QED BY <2>1, StepKeeps DEF Step
<1>3. ErrorsKnown(out) /\ WriterInv(out) /\ out.state = "open"
  BY <1>1, <1>2, OpenFile DEF Writing
<1>4. /\ out.error # "none" => out'.error = out.error
      /\ out.error = "none" => out'.error \in Harmless
      /\ out'.exited <=> ~force /\ out'.error # "none"
      /\ out'.error = "none" =>
            /\ ~out'.write_failed /\ out'.state = "closed"
            /\ out'.lost = TRUE \/ (out'.raw = out.raw /\ out'.lost = out.lost)
            /\ out'.cur_out_ptr = out.cur_out_ptr /\ out'.crc32 = out.crc32
      /\ out'.state = "open" => out'.header = out.header
      /\ out'.state = "closed" /\ mode = "sparse" /\ ~out'.write_failed =>
            out'.header = Header(out') /\ ~out'.exited
  <2>1. CASE out' = Close(out, io)
    BY <1>3, <1>2, <2>1, ClosedFile
  <2>2. CASE \E n \in 0 .. len : out' = Lost(Close(out, io), n)
    <3>0. PICK n \in 0 .. len : out' = Lost(Close(out, io), n)
      BY <2>2
    <3> DEFINE p == Close(out, io)
    <3>1. WriterInv(p)
      BY <1>3, CloseKeeps
    <3> HIDE DEF p
    <3>2. SameButLost(p, out')
      BY <3>0, <3>1, LostIs DEF p
    <3>3. /\ out.error # "none" => p.error = out.error
          /\ out.error = "none" => p.error \in Harmless
          /\ p.exited <=> ~force /\ p.error # "none"
          /\ p.error = "none" =>
                /\ ~p.write_failed /\ p.state = "closed"
                /\ p.cur_out_ptr = out.cur_out_ptr /\ p.crc32 = out.crc32
          /\ p.state = "open" => p.header = out.header
          /\ p.state = "closed" /\ mode = "sparse" /\ ~p.write_failed =>
                p.header = Header(p) /\ ~p.exited
      BY <1>2, <1>3, ClosedFile DEF p
    <3>4. Header(p) = Header(out')
      BY <3>2 DEF Header, SameButLost, Fields
    <3>5. /\ out'.lost = TRUE /\ out'.error = p.error /\ out'.exited = p.exited
          /\ out'.write_failed = p.write_failed /\ out'.state = p.state
          /\ out'.header = p.header /\ out'.cur_out_ptr = p.cur_out_ptr
          /\ out'.crc32 = p.crc32 /\ out'.chunk_cnt = p.chunk_cnt
      BY <3>2 DEF SameButLost, Fields
    <3> QED BY <3>3, <3>4, <3>5
  <2> QED BY <1>2, <2>1, <2>2
<1>5. WriterInv(out')
  BY <1>2, <1>3, CloseKeeps, LostKeeps
<1>6. PlacesInv' /\ PhaseInv'
  BY <1>1, <1>2, SamePlaces DEF PhaseInv, Writing
<1>7. len' = len /\ mode' = mode /\ force' = force
  BY <1>2 DEF Settings
<1>8. Header(out)' = Header(out')
  BY <1>7 DEF Header
<1>9. StateInv'
  BY <1>1, <1>2, <1>3, <1>4, <1>5, <1>7, <1>8 DEF StateInv
<1>10. OnlyKnownErrors'
  BY <1>1, <1>2, <1>4, ErrorsNext
<1>11. out'.error = "none" => Whole(out')
  <2> SUFFICES ASSUME out'.error = "none" PROVE Whole(out')
    OBVIOUS
  <2>1. Whole(out)
    BY <1>1, <1>2, <1>4 DEF WrittenInv
  <2>2. CASE mode = "sparse"
    BY <1>4, <2>1, <2>2 DEF Whole, Padded, Byte
  <2>3. CASE mode # "sparse" /\ out'.lost = TRUE
    BY <2>3 DEF Whole
  <2>4. CASE mode # "sparse" /\ out'.raw = out.raw /\ out'.lost = out.lost
    BY <2>1, <2>4 DEF Whole, Padded, Byte
  <2> QED BY <1>4, <2>2, <2>3, <2>4
<1>12. WrittenInv'
  BY <1>1, <1>2, <1>11, WrittenNext
<1> QED BY <1>6, <1>9, <1>10, <1>12 DEF WriterSide

LEMMA KilledStep ==
    ASSUME WriterSide, killed
    PROVE  WriterSide'
<1>1. PlacesInv /\ PhaseInv /\ StateInv /\ WrittenInv /\ OnlyKnownErrors
  BY DEF WriterSide
<1>2. /\ phase \in Writing /\ phase' = "killed" /\ UNCHANGED Settings /\ out' = out
  BY DEF killed, Settings, Writing
<1>3. len' = len /\ mode' = mode /\ force' = force /\ out.state = "open"
  BY <1>1, <1>2 DEF Settings, PhaseInv
<1>4. PlacesInv' /\ PhaseInv'
  BY <1>1, <1>2, <1>3, SamePlaces DEF PhaseInv, Writing
<1>5. StateInv' /\ WrittenInv'
  BY <1>1, <1>2, <1>3 DEF StateInv, WrittenInv
<1>6. OnlyKnownErrors'
  BY <1>1, <1>2, ErrorsNext DEF OnlyKnownErrors, Harmless, PieceStart
<1> QED BY <1>4, <1>5, <1>6 DEF WriterSide

\* Reading the image changes nothing of that.
LEMMA SameWriter ==
    ASSUME WriterSide, UNCHANGED <<Settings, out, phase, k, last_block>>
    PROVE  WriterSide'
<1>1. PlacesInv /\ PhaseInv /\ StateInv /\ WrittenInv /\ OnlyKnownErrors
  BY DEF WriterSide
<1>2. /\ UNCHANGED Settings /\ out' = out /\ phase' = phase /\ k' = k /\ last_block' = last_block
      /\ len' = len /\ mode' = mode /\ force' = force /\ data_blocks' = data_blocks
  BY DEF Settings, queueVars
<1>3. PlacesInv'
  BY <1>1, <1>2, SamePlaces
<1>4. PhaseInv' /\ StateInv'
  BY <1>1, <1>2 DEF PhaseInv, StateInv, Writing, FreeBefore, FirstFree, first_data_block, Header,
     Settings
<1>5. OnlyKnownErrors'
  BY <1>1, <1>2, ErrorsNext DEF OnlyKnownErrors, Harmless, PieceStart
<1>6. Frontier' = Frontier
  BY <1>2, SameExpected DEF Frontier, FreeBefore
<1>7. WrittenInv'
  BY <1>1, <1>2, <1>6, WrittenNext DEF WrittenInv
<1> QED BY <1>3, <1>4, <1>5, <1>7 DEF WriterSide

-----------------------------------------------------------------------------
(* What simg2img reads                                                     *)

LEMMA WrittenChunk ==
    ASSUME NEW c \in Chunk
    PROVE  /\ c \in FoundChunk /\ ~Malformed(c) /\ c.chunk_sz \in Nat
           /\ c.chunk_sz * BlockSize \in Nat
           /\ ChunkBytes(c) \in Seq(Nat) /\ Len(ChunkBytes(c)) = c.chunk_sz * BlockSize
           /\ c.type = "raw" => ChunkBytes(c) = c.data
           /\ c.type = "dont_care" => ChunkBytes(c) = Zeros(c.chunk_sz * BlockSize)
<1>1. /\ c \in [type : {"raw", "dont_care"}, chunk_sz : Nat, total_sz : Nat, data : Seq(Nat)]
      /\ SizesAgree(c)
  BY DEF Chunk
<1>2. c.chunk_sz \in Nat /\ c.chunk_sz * BlockSize \in Nat
  BY <1>1, RoundUpMultiple
<1>3. c \in FoundChunk /\ ~Malformed(c)
  BY <1>1 DEF FoundChunk, Malformed, SizesAgree
<1>4. CASE c.type = "raw"
  <2>1. ChunkBytes(c) = c.data
    BY <1>4 DEF ChunkBytes
  <2> QED BY <1>1, <1>2, <1>3, <1>4, <2>1 DEF SizesAgree
<1>5. CASE c.type = "dont_care"
  <2>1. ChunkBytes(c) = Zeros(c.chunk_sz * BlockSize)
    BY <1>5 DEF ChunkBytes
  <2> DEFINE z == c.chunk_sz * BlockSize
  <2>2. z \in Nat /\ ChunkBytes(c) = Zeros(z)
    BY <1>2, <2>1
  <2> HIDE DEF z
  <2>3. ChunkBytes(c) \in Seq(Nat) /\ Len(ChunkBytes(c)) = z
    BY <2>2, ZerosFacts
  <2> QED BY <1>2, <1>3, <1>5, <2>2, <2>3 DEF z
<1> QED BY <1>1, <1>4, <1>5

LEMMA ExpandedType ==
    ASSUME NEW chunks \in Seq(Chunk)
    PROVE  Expanded(chunks) \in Seq(Nat)
<1> DEFINE bytes == [n \in DOMAIN chunks |-> ChunkBytes(chunks[n])]
<1>1. \A n \in 1 .. Len(chunks) : ChunkBytes(chunks[n]) \in Seq(Nat)
  BY ChunkBytesType
<1>2. bytes \in Seq(Seq(Nat))
  BY <1>1
<1>3. <<>> \in Seq(Nat)
  OBVIOUS
<1> HIDE DEF bytes
<1>4. FlattenSeq(bytes) \in Seq(Nat)
  BY <1>2, <1>3, FlattenAppended
<1> QED BY <1>4 DEF Expanded, bytes

LEMMA PrefixFacts ==
    ASSUME WriterInv(out), NEW n \in 0 .. Len(out.chunks)
    PROVE  Prefix(n) \in Seq(Nat) /\ Len(Prefix(n)) \in Nat
<1>1. out.chunks \in Seq(Chunk)
  BY DEF WriterInv, PositionExact
<1>2. SubSeq(out.chunks, 1, n) \in Seq(Chunk)
  BY <1>1
<1>3. Prefix(n) \in Seq(Nat)
  BY <1>2, ExpandedType DEF Prefix
<1> HIDE DEF Prefix
<1> QED BY <1>3

LEMMA PrefixEnds ==
    ASSUME WriterInv(out)
    PROVE  Prefix(0) = <<>> /\ Prefix(Len(out.chunks)) = out.crc32
<1>1. /\ out.chunks \in Seq(Chunk) /\ Expanded(out.chunks) = out.crc32
  BY DEF WriterInv, PositionExact
<1>2. SubSeq(out.chunks, 1, 0) = <<>> /\ SubSeq(out.chunks, 1, Len(out.chunks)) = out.chunks
  BY <1>1
<1>3. Expanded(<<>>) = <<>>
  BY DEF Expanded, FlattenSeq
<1> QED BY <1>1, <1>2, <1>3 DEF Prefix

LEMMA PrefixNext ==
    ASSUME WriterInv(out), NEW n \in Nat, n < Len(out.chunks)
    PROVE  LET c == out.chunks[n + 1]
           IN  /\ c \in Chunk
               /\ Prefix(n + 1) = Prefix(n) \o ChunkBytes(c)
               /\ Len(Prefix(n + 1)) = Len(Prefix(n)) + c.chunk_sz * BlockSize
               /\ \A j \in 1 .. (Len(Prefix(n)) + c.chunk_sz * BlockSize) :
                     Prefix(n + 1)[j] = IF j <= Len(Prefix(n)) THEN Prefix(n)[j]
                                        ELSE ChunkBytes(c)[j - Len(Prefix(n))]
<1> DEFINE c == out.chunks[n + 1]
           s == SubSeq(out.chunks, 1, n)
<1>1. out.chunks \in Seq(Chunk) /\ Len(out.chunks) \in Nat /\ n + 1 \in 1 .. Len(out.chunks)
  BY DEF WriterInv, PositionExact
<1>2. c \in Chunk /\ s \in Seq(Chunk)
  BY <1>1
<1>3. SubSeq(out.chunks, 1, n + 1) = Append(s, c)
  BY <1>1
<1>4. Prefix(n + 1) = Expanded(Append(s, c)) /\ Prefix(n) = Expanded(s)
  BY <1>3 DEF Prefix
<1> HIDE DEF s, c
<1>5. Prefix(n + 1) = Prefix(n) \o ChunkBytes(c)
  BY <1>2, <1>4, ExpandedAppended
<1>6. Prefix(n) \in Seq(Nat)
  BY <1>2, <1>4, ExpandedType
<1> DEFINE x == Prefix(n)
           y == ChunkBytes(c)
           z == c.chunk_sz * BlockSize
           l == Len(Prefix(n))
<1>7. x \in Seq(Nat) /\ y \in Seq(Nat) /\ Len(y) = z /\ Len(x) = l /\ Prefix(n + 1) = x \o y
  BY <1>2, <1>5, <1>6, WrittenChunk
<1> HIDE DEF x, y, z, l
<1>8. /\ Len(x \o y) = l + z
      /\ \A j \in 1 .. (l + z) : (x \o y)[j] = IF j <= l THEN x[j] ELSE y[j - l]
  BY <1>7, Joined, SMTT(120)
<1>9. /\ Len(Prefix(n + 1)) = l + z
      /\ \A j \in 1 .. (l + z) : Prefix(n + 1)[j] = IF j <= l THEN x[j] ELSE y[j - l]
  BY <1>7, <1>8, Zenon
<1> QED BY <1>2, <1>5, <1>9, Zenon DEF x, y, z, l, c

\* A file that was closed with a written header: the header counts its chunks.
LEMMA ClosedHeader ==
    ASSUME WriterSide, mode = "sparse", out.state = "closed", ~out.write_failed
    PROVE  /\ WriterInv(out) /\ phase = "done" /\ ~out.exited /\ out.chunks \in Seq(Chunk)
           /\ out.header.total_chunks = Len(out.chunks) /\ Len(out.chunks) \in Nat
           /\ out.header.total_blks = len \div BlockSize
           /\ out.header.image_checksum = out.crc32
<1>1. /\ WriterInv(out) /\ phase = "done" /\ ~out.exited /\ out.header = Header(out)
  BY DEF WriterSide, StateInv
<1>2. out.chunks \in Seq(Chunk) /\ Len(out.chunks) = out.chunk_cnt
  BY <1>1 DEF WriterInv, PositionExact
<1> QED BY <1>1, <1>2 DEF Header

LEMMA OpenHeader ==
    ASSUME WriterSide, out.state = "open"
    PROVE  /\ out.header.total_chunks = 0 /\ out.header.total_blks = len \div BlockSize
           /\ len \div BlockSize \in Nat /\ len \div BlockSize # 0
<1>1. /\ out.header.total_chunks = 0 /\ out.header.total_blks = len \div BlockSize
  BY DEF WriterSide, StateInv
<1>2. /\ FirstFree * BlockSize <= len /\ FirstFree \in Nat /\ len \in Nat /\ BlockSize \in Nat \ {0}
      /\ FirstFree * BlockSize = DescStart + DescBlocks * BlockSize
      /\ DescStart \in Nat /\ 2 * kilo <= DescStart /\ DescBlocks * BlockSize \in Nat \ {0}
      /\ DescBlocks \in Nat \ {0}
  BY Constants, HeadPlaces DEF WriterSide
<1>3. len >= BlockSize
  <2>1. 1 * BlockSize <= DescBlocks * BlockSize /\ 1 * BlockSize = BlockSize
    BY <1>2, Times
  <2> DEFINE b == DescBlocks * BlockSize
             f == FirstFree * BlockSize
  <2>2. b \in Nat /\ f = DescStart + b /\ f <= len /\ BlockSize <= b
    BY <1>2, <2>1
  <2> HIDE DEF b, f
  <2> QED BY <1>2, <2>2
<1>4. len \div BlockSize \in Nat
  BY <1>2, WholeLen
<1>5. len \div BlockSize # 0
  <2>1. len % BlockSize \in 0 .. (BlockSize - 1)
        /\ len = (len \div BlockSize) * BlockSize + (len % BlockSize)
    BY <1>2, QuotientAndRest
  <2> SUFFICES ASSUME len \div BlockSize = 0 PROVE FALSE
    OBVIOUS
  <2> DEFINE r == len % BlockSize
  <2>2. len = 0 * BlockSize + r /\ r \in 0 .. (BlockSize - 1) /\ 0 * BlockSize = 0
    BY <1>2, <2>1
  <2> HIDE DEF r
  <2> QED BY <1>2, <1>3, <2>2
<1> QED BY <1>1, <1>4, <1>5

ReadStep == UNCHANGED <<Settings, out, phase, k, last_block, damaged>>

LEMMA SamePrefix ==
    ASSUME ReadStep
    PROVE  /\ out' = out /\ phase' = phase /\ damaged' = damaged /\ len' = len /\ mode' = mode
           /\ Prefix(i)' = Prefix(i') /\ (\A c : Malformed(c)' <=> Malformed(c))
BY DEF ReadStep, Settings, Prefix, Malformed

\* As long as the image is written, it is not read.
LEMMA NothingRead ==
    ASSUME WriterSide, ReaderInv, phase = "queue" \/ (phase \in Writing /\ ~out.exited)
    PROVE  result = "none"
<1>1. phase = "queue" => ~out.exited
  BY DEF WriterSide, PhaseInv, NewOut
<1>2. phase \notin {"killed", "done"}
  BY DEF Writing
<1> QED BY <1>1, <1>2 DEF ReaderInv, ReaderState

\* simg2img takes the next chunk.
TakeChunk(bytes) ==
    LET c == image.chunks[i + 1] IN
    /\ result = "reading" /\ i < out.header.total_chunks /\ i < Len(image.chunks)
    /\ ~Malformed(c)
    /\ c.type = "raw" => bytes = c.data
    /\ in_crc' = in_crc \o bytes
    /\ i' = i + 1 /\ total_blocks' = total_blocks + c.chunk_sz
    /\ at' = at + c.chunk_sz * BlockSize
    /\ image' = image /\ zerobuf' = zerobuf /\ size' = size /\ result' = result
    /\ ReadStep

LEMMA TakeFrom ==
    ASSUME WriterSide, ReaderInv, NEW bytes \in Seq(Int), TakeChunk(bytes)
    PROVE  /\ ReaderState /\ mode = "sparse" /\ out.state = "closed" /\ ~out.write_failed
           /\ ReadsWritten \/ ReadsDamaged
           /\ WriterInv(out) /\ out.chunks \in Seq(Chunk)
           /\ out.header.total_chunks = Len(out.chunks) /\ Len(out.chunks) \in Nat
           /\ i \in Nat /\ i < Len(image.chunks) /\ i < Len(out.chunks)
           /\ image.chunks[i + 1] \in FoundChunk /\ Len(image.chunks) \in Nat
<1>1. result = "reading" /\ i < out.header.total_chunks /\ i < Len(image.chunks)
  BY DEF TakeChunk
<1>2. ReaderState /\ ReaderInput
  BY <1>1 DEF ReaderInv
<1>3. image.chunks \in Seq(FoundChunk) /\ i \in 0 .. Len(image.chunks) /\ mode = "sparse"
  BY <1>2 DEF ReaderState
<1>4. Len(image.chunks) \in Nat /\ i \in Nat /\ i + 1 \in 1 .. Len(image.chunks)
  BY <1>1, <1>3
<1>5. out.state # "open"
  <2> SUFFICES ASSUME out.state = "open" PROVE FALSE
    OBVIOUS
  <2>1. out.header.total_chunks = 0
    BY OpenHeader
  <2> QED BY <1>1, <1>4, <2>1
<1>6. out.state = "closed" /\ ~out.write_failed /\ (ReadsWritten \/ ReadsDamaged)
  BY <1>2, <1>5 DEF ReaderInput
<1>7. /\ WriterInv(out) /\ out.chunks \in Seq(Chunk)
      /\ out.header.total_chunks = Len(out.chunks) /\ Len(out.chunks) \in Nat
  BY <1>3, <1>6, ClosedHeader
<1> QED BY <1>1, <1>2, <1>3, <1>4, <1>6, <1>7

LEMMA CrcGrows ==
    ASSUME NEW s \in Seq(Int), NEW t \in Seq(Int)
    PROVE  /\ s \o t \in Seq(Int) /\ Len(s) \in Nat /\ Len(t) \in Nat
           /\ Len(s \o t) = Len(s) + Len(t)
           /\ \A j \in 1 .. Len(s) : (s \o t)[j] = s[j]
           /\ \A j \in 1 .. Len(t) : (s \o t)[Len(s) + j] = t[j]
<1>1. /\ s \o t \in Seq(Int) /\ Len(s \o t) = Len(s) + Len(t)
      /\ \A j \in 1 .. (Len(s) + Len(t)) :
            (s \o t)[j] = IF j <= Len(s) THEN s[j] ELSE t[j - Len(s)]
  BY ConcatProperties
<1>2. Len(s) \in Nat /\ Len(t) \in Nat
  OBVIOUS
<1> DEFINE r == s \o t
           a == Len(s)
           b == Len(t)
<1>3. /\ a \in Nat /\ b \in Nat
      /\ \A j \in 1 .. (a + b) : r[j] = IF j <= a THEN s[j] ELSE t[j - a]
  BY <1>1, <1>2
<1> HIDE DEF r, a, b
<1>4. \A j \in 1 .. a : r[j] = s[j]
  BY <1>3
<1>5. ASSUME NEW j \in 1 .. b
      PROVE  r[a + j] = t[j]
  <2>1. a + j \in 1 .. (a + b) /\ ~(a + j <= a) /\ (a + j) - a = j
    BY <1>3
  <2> QED BY <1>3, <2>1
<1> QED BY <1>1, <1>2, <1>4, <1>5 DEF r, a, b

LEMMA TakeState ==
    ASSUME WriterSide, ReaderInv, NEW bytes \in Seq(Int), TakeChunk(bytes)
    PROVE  ReaderState'
<1>1. /\ ReaderState /\ i \in Nat /\ i < Len(image.chunks) /\ i < out.header.total_chunks
      /\ image.chunks[i + 1] \in FoundChunk /\ Len(image.chunks) \in Nat
      /\ out.header.total_chunks \in Nat
  BY TakeFrom
<1>2. /\ result' = "reading" /\ in_crc' = in_crc \o bytes /\ i' = i + 1
      /\ total_blocks' = total_blocks + image.chunks[i + 1].chunk_sz
      /\ image' = image /\ zerobuf' = zerobuf
      /\ out' = out /\ phase' = phase /\ mode' = mode
  BY SamePrefix DEF TakeChunk
<1>3. in_crc' \in Seq(Int)
  BY <1>1, <1>2, CrcGrows DEF ReaderState
<1>4. total_blocks' \in Nat
  <2> DEFINE z == image.chunks[i + 1].chunk_sz
  <2>1. z \in Nat
    BY <1>1 DEF FoundChunk
  <2>2. total_blocks' = total_blocks + z /\ total_blocks \in Nat
    BY <1>1, <1>2 DEF ReaderState
  <2> HIDE DEF z
  <2> QED BY <2>1, <2>2
<1>5. i' \in 0 .. Len(image.chunks) /\ i' <= out.header.total_chunks
  BY <1>1, <1>2
<1> QED BY <1>1, <1>2, <1>3, <1>4, <1>5 DEF ReaderState, Ended

\* A difference remains: it is in front of the reader, or the reader has met it.
LEMMA TakeDiffers ==
    ASSUME WriterSide, ReaderInv, NEW bytes \in Seq(Int), TakeChunk(bytes),
           NEW n \in DOMAIN out.chunks, Differs(n), Len(image.chunks) = Len(out.chunks),
           \A m \in DOMAIN out.chunks \ {n} : image.chunks[m] = out.chunks[m]
    PROVE  Differs(n)'
<1> DEFINE c == image.chunks[n]
           x == image.chunks[i + 1]
           y == out.chunks[i + 1]
<1>1. /\ ReaderState /\ i \in Nat /\ i < Len(out.chunks) /\ WriterInv(out)
      /\ out.chunks \in Seq(Chunk) /\ x \in FoundChunk /\ Len(out.chunks) \in Nat
  BY TakeFrom
<1>2. /\ ~Malformed(x) /\ (x.type = "raw" => bytes = x.data)
      /\ in_crc' = in_crc \o bytes /\ i' = i + 1
      /\ total_blocks' = total_blocks + x.chunk_sz
      /\ image' = image /\ out' = out /\ Prefix(i)' = Prefix(i + 1)
      /\ (Malformed(c)' <=> Malformed(c))
  BY SamePrefix DEF TakeChunk
<1>3. n \in Nat /\ DOMAIN out.chunks = 1 .. Len(out.chunks) /\ i + 1 \in DOMAIN out.chunks
  BY <1>1
<1>4. Differs(n)' <=>
        \/ Malformed(c) /\ i + 1 < n
        \/ /\ c.type = "raw" /\ Len(c.data) > 0 /\ c.data[1] = -1
           /\ i + 1 >= n => \E j \in DOMAIN in_crc' : in_crc'[j] = -1
        \/ /\ c.type = "dont_care" /\ c.chunk_sz = out.chunks[n].chunk_sz + 1
           /\ total_blocks' * BlockSize
                 = Len(Prefix(i + 1)) + IF i + 1 >= n THEN BlockSize ELSE 0
  BY <1>2 DEF Differs, Malformed
<1>5. CASE Malformed(c) /\ i < n
  <2>1. i + 1 # n
    BY <1>2, <1>5
  <2> QED BY <1>1, <1>3, <1>4, <1>5, <2>1
<1>6. CASE /\ c.type = "raw" /\ Len(c.data) > 0 /\ c.data[1] = -1
           /\ i >= n => \E j \in DOMAIN in_crc : in_crc[j] = -1
  <2>1. in_crc \in Seq(Int)
    BY <1>1 DEF ReaderState
  <2>2. /\ in_crc' \in Seq(Int) /\ Len(in_crc) \in Nat /\ Len(bytes) \in Nat
        /\ Len(in_crc') = Len(in_crc) + Len(bytes)
        /\ \A j \in 1 .. Len(in_crc) : in_crc'[j] = in_crc[j]
        /\ \A j \in 1 .. Len(bytes) : in_crc'[Len(in_crc) + j] = bytes[j]
    BY <1>2, <2>1, CrcGrows
  <2>3. DOMAIN in_crc = 1 .. Len(in_crc) /\ DOMAIN in_crc' = 1 .. (Len(in_crc) + Len(bytes))
    BY <2>1, <2>2
  <2>4. ASSUME i + 1 >= n
        PROVE  \E j \in DOMAIN in_crc' : in_crc'[j] = -1
    <3>1. CASE i >= n
      <4>1. PICK j \in DOMAIN in_crc : in_crc[j] = -1
        BY <1>6, <3>1
      <4>2. j \in DOMAIN in_crc' /\ in_crc'[j] = -1
        BY <2>2, <2>3, <4>1
      <4> QED BY <4>2
    <3>2. CASE ~(i >= n)
      <4>1. i + 1 = n
        BY <1>1, <1>3, <2>4, <3>2
      <4>2. x = c
        BY <4>1
      <4>3. bytes = c.data
        BY <1>2, <1>6, <4>2
      <4>4. 1 \in 1 .. Len(bytes) /\ bytes[1] = -1
        BY <1>6, <2>2, <4>3
      <4>5. Len(in_crc) + 1 \in DOMAIN in_crc' /\ in_crc'[Len(in_crc) + 1] = -1
        BY <2>2, <2>3, <4>4
      <4> QED BY <4>5
    <3> QED BY <3>1, <3>2
  <2> QED BY <1>4, <1>6, <2>4
<1>7. CASE /\ c.type = "dont_care" /\ c.chunk_sz = out.chunks[n].chunk_sz + 1
           /\ total_blocks * BlockSize = Len(Prefix(i)) + IF i >= n THEN BlockSize ELSE 0
  <2>1. /\ y \in Chunk /\ Len(Prefix(i + 1)) = Len(Prefix(i)) + y.chunk_sz * BlockSize
    BY <1>1, PrefixNext
  <2>2. /\ y.chunk_sz \in Nat /\ y.chunk_sz * BlockSize \in Nat /\ BlockSize \in Nat \ {0}
        /\ Len(Prefix(i)) \in Nat /\ x.chunk_sz \in Nat /\ total_blocks \in Nat
        /\ total_blocks * BlockSize \in Nat
    <3>1. i \in 0 .. Len(out.chunks)
      BY <1>1
    <3>2. x.chunk_sz \in Nat /\ total_blocks \in Nat
      BY <1>1 DEF FoundChunk, ReaderState
    <3> QED BY <1>1, <2>1, <3>1, <3>2, WrittenChunk, PrefixFacts, RoundUpMultiple, SizeTypes
  <2>3. total_blocks' * BlockSize = total_blocks * BlockSize + x.chunk_sz * BlockSize
    <3>1. (total_blocks + x.chunk_sz) * BlockSize
             = total_blocks * BlockSize + x.chunk_sz * BlockSize
      <4>1. total_blocks \in Int /\ x.chunk_sz \in Int
        BY <2>2
      <4> QED BY <4>1, SumTimes, Zenon
    <3> QED BY <1>2, <3>1, Zenon
  <2>4. x.chunk_sz * BlockSize
          = y.chunk_sz * BlockSize + IF i + 1 = n THEN BlockSize ELSE 0
    <3>1. CASE i + 1 = n
      <4>1. x.chunk_sz = y.chunk_sz + 1
        BY <1>7, <3>1
      <4>2. x.chunk_sz * BlockSize = y.chunk_sz * BlockSize + 1 * BlockSize
        <5>1. y.chunk_sz \in Int /\ 1 \in Int
          BY <2>2
        <5> QED BY <4>1, <5>1, SumTimes, Zenon
      <4> QED BY <2>2, <3>1, <4>2
    <3>2. CASE i + 1 # n
      <4>1. x = y
        BY <1>3, <3>2
      <4> QED BY <2>2, <3>2, <4>1
    <3> QED BY <3>1, <3>2
  <2> DEFINE t == total_blocks * BlockSize
             u == total_blocks' * BlockSize
             v == y.chunk_sz * BlockSize
             w == x.chunk_sz * BlockSize
             l == Len(Prefix(i))
             b == BlockSize
  <2>5. /\ t = l + (IF i >= n THEN b ELSE 0) /\ u = t + w
        /\ w = v + (IF i + 1 = n THEN b ELSE 0)
        /\ l \in Nat /\ v \in Nat /\ b \in Nat /\ i \in Nat /\ n \in Nat
    BY <1>1, <1>3, <1>7, <2>2, <2>3, <2>4
  <2>6. Len(Prefix(i + 1)) = l + v
    BY <2>1
  <2> HIDE DEF t, u, v, w, l, b
  <2>7. u = l + v + IF i + 1 >= n THEN b ELSE 0
    <3>1. CASE i >= n
      BY <2>5, <3>1
    <3>2. CASE i + 1 = n
      BY <2>5, <3>2
    <3>3. CASE i + 1 < n
      BY <2>5, <3>3
    <3> QED BY <2>5, <3>1, <3>2, <3>3
  <2> QED BY <1>4, <1>7, <2>6, <2>7 DEF u, b
<1> QED BY <1>5, <1>6, <1>7 DEF Differs

LEMMA TakeKeeps ==
    ASSUME WriterSide, ReaderInv, NEW bytes \in Seq(Int), TakeChunk(bytes),
           ReadsWritten => ReadsWritten'
    PROVE  ReaderInv'
<1>1. /\ out.state = "closed" /\ ~out.write_failed
      /\ ReadsWritten \/ ReadsDamaged
  BY TakeFrom
<1>2. out' = out /\ damaged' = damaged /\ image' = image
  BY SamePrefix DEF TakeChunk
<1>3. ASSUME ReadsDamaged
      PROVE  ReadsDamaged'
  <2>1. CASE Len(image.chunks) < Len(out.chunks)
    BY <1>2, <1>3, <2>1 DEF ReadsDamaged
  <2>2. CASE ~(Len(image.chunks) < Len(out.chunks))
    <3>1. Len(image.chunks) = Len(out.chunks)
      BY <1>3, <2>2 DEF ReadsDamaged
    <3>2. PICK n \in DOMAIN out.chunks :
             /\ Differs(n)
             /\ \A m \in DOMAIN out.chunks \ {n} : image.chunks[m] = out.chunks[m]
      BY <1>3, <2>2 DEF ReadsDamaged
    <3>3. Differs(n)'
      BY <3>1, <3>2, TakeDiffers
    <3> QED BY <1>2, <1>3, <3>1, <3>2, <3>3 DEF ReadsDamaged
  <2> QED BY <2>1, <2>2
<1>4. ReaderInput'
  BY <1>1, <1>2, <1>3 DEF ReaderInput
<1> QED BY <1>4, TakeState DEF ReaderInv

\* A byte of the file with the bytes f.
FileByte(f, u) == IF u \in DOMAIN f THEN f[u] ELSE 0

\* The result gets the bytes of chunk y, which are z, and nothing else.
Copied(y, z) ==
    /\ y = out.chunks[i + 1] /\ z = y.chunk_sz * BlockSize
    /\ \A u \in DOMAIN img' : u \in 0 .. (at + z - 1)
    /\ \A u \in 0 .. (at - 1) : FileByte(img', u) = FileByte(img, u)
    /\ \A u \in at .. (at + z - 1) : FileByte(img', u) = ChunkBytes(y)[u - at + 1]

\* A chunk that was written is taken over as it is.
LEMMA TakeWritten ==
    ASSUME WriterSide, ReaderInv, NEW bytes \in Seq(Int), TakeChunk(bytes), ReadsWritten,
           NEW y, NEW z, Copied(y, z), Zero => bytes = ChunkBytes(y)
    PROVE  ReadsWritten'
<1> DEFINE l == Len(Prefix(i))
           s == Prefix(i)
           t == Prefix(i + 1)
<1>1. /\ ReaderState /\ i \in Nat /\ i < Len(out.chunks) /\ WriterInv(out)
      /\ Len(out.chunks) \in Nat
  BY TakeFrom
<1>2. /\ image.chunks = out.chunks /\ total_blocks * BlockSize = l
      /\ \A u \in 0 .. (at - 1) : FileByte(img, u) = s[u + 1]
      /\ Zero => in_crc = s
  BY DEF ReadsWritten, Reader!OutByte, FileByte
<1>3. /\ result' = "reading" /\ image' = image /\ zerobuf' = zerobuf
      /\ in_crc' = in_crc \o bytes /\ out' = out /\ Prefix(i)' = t
      /\ total_blocks' = total_blocks + y.chunk_sz
  BY <1>2, SamePrefix DEF TakeChunk, Copied
<1>4. /\ y \in Chunk /\ t = s \o ChunkBytes(y) /\ Len(t) = l + z
      /\ \A j \in 1 .. (l + z) : t[j] = IF j <= l THEN s[j] ELSE ChunkBytes(y)[j - l]
  BY <1>1, PrefixNext DEF Copied
<1>5. l \in Nat /\ y.chunk_sz \in Nat /\ total_blocks \in Nat
  <2>1. i \in 0 .. Len(out.chunks)
    BY <1>1
  <2>2. l \in Nat
    BY <1>1, <2>1, PrefixFacts
  <2> QED BY <1>1, <1>4, <2>2, WrittenChunk DEF ReaderState
<1>6. z \in Nat
  BY <1>4, WrittenChunk DEF Copied
<1>7. total_blocks' * BlockSize = l + z
  <2>1. total_blocks \in Int /\ y.chunk_sz \in Int
    BY <1>5
  <2>2. (total_blocks + y.chunk_sz) * BlockSize
           = total_blocks * BlockSize + y.chunk_sz * BlockSize
    BY <2>1, SumTimes, Zenon
  <2> QED BY <1>2, <1>3, <2>2, Zenon DEF Copied
<1>8. at = l /\ at' = at + z
  BY <1>2 DEF ReadsWritten, TakeChunk, Copied
<1>9. /\ \A u \in DOMAIN img' : u \in 0 .. (at + z - 1)
      /\ \A u \in 0 .. (at - 1) : FileByte(img', u) = FileByte(img, u)
      /\ \A u \in at .. (at + z - 1) : FileByte(img', u) = ChunkBytes(y)[u - at + 1]
  BY DEF Copied
<1> HIDE DEF l, s, t
<1>10. \A u \in 0 .. (l + z - 1) : FileByte(img', u) = t[u + 1]
  <2> TAKE u \in 0 .. (l + z - 1)
  <2>1. CASE u < l
    <3>1. u \in 0 .. (at - 1) /\ u + 1 \in 1 .. (l + z) /\ u + 1 <= l
      BY <1>5, <1>6, <1>8, <2>1
    <3> QED BY <1>2, <1>4, <1>9, <3>1
  <2>2. CASE ~(u < l)
    <3>1. u \in at .. (at + z - 1) /\ u + 1 \in 1 .. (l + z) /\ ~(u + 1 <= l)
          /\ (u + 1) - l = u - at + 1
      BY <1>5, <1>6, <1>8, <2>2
    <3>2. t[u + 1] = ChunkBytes(y)[(u + 1) - l]
      BY <1>4, <3>1
    <3>3. FileByte(img', u) = ChunkBytes(y)[u - at + 1]
      BY <1>9, <3>1
    <3> QED BY <3>1, <3>2, <3>3
  <2> QED BY <2>1, <2>2
<1>11. Zero' => in_crc' = t
  <2>1. Zero' <=> Zero
    BY <1>3 DEF Zero
  <2> QED BY <1>2, <1>3, <1>4, <2>1
<1>12. at' = Len(Prefix(i)') /\ total_blocks' * BlockSize = Len(Prefix(i)')
  BY <1>3, <1>4, <1>7, <1>8
<1>13. at' = l + z
  BY <1>8
<1>14. \A u \in 0 .. (at' - 1) : Reader!OutByte(u)' = Prefix(i)'[u + 1]
  <2>1. \A u : Reader!OutByte(u)' = FileByte(img', u)
    BY DEF Reader!OutByte, FileByte
  <2>2. \A u \in 0 .. (at' - 1) : FileByte(img', u) = t[u + 1]
    BY <1>5, <1>6, <1>10, <1>13
  <2> QED BY <1>3, <2>1, <2>2, Zenon
<1>15. \A u \in DOMAIN img' : u \in 0 .. (at' - 1)
  <2>1. at \in Nat /\ at' = at + z
    BY <1>5, <1>8
  <2> QED BY <1>6, <1>9, <2>1
<1> QED BY <1>2, <1>3, <1>11, <1>12, <1>14, <1>15 DEF ReadsWritten, Ended

LEMMA RawChunkRead ==
    ASSUME WriterSide, ReaderInv, Reader!process_raw_chunk, ReadStep
    PROVE  ReaderInv'
<1> DEFINE c == image.chunks[i + 1]
           bytes == c.data
<1>1. /\ result = "reading" /\ i < image.header.total_chunks /\ i < Len(image.chunks)
      /\ c.type = "raw" /\ c.total_sz = c.chunk_sz * BlockSize
      /\ in_crc' = in_crc \o bytes
      /\ img' = [u \in DOMAIN img \cup at .. (at + Len(bytes) - 1) |->
                   IF u < at THEN img[u] ELSE bytes[u - at + 1]]
      /\ i' = i + 1 /\ total_blocks' = total_blocks + c.chunk_sz
      /\ at' = at + c.chunk_sz * BlockSize
      /\ UNCHANGED <<image, zerobuf, size, result>>
  BY DEF Reader!process_raw_chunk, Reader!More, Reader!Chunk, Reader!RawSizeMatches,
         Reader!Advance
<1>2. ReaderState
  BY <1>1 DEF ReaderInv
<1>3. TakeChunk(bytes)
  BY <1>1, <1>2 DEF TakeChunk, ReaderState, Malformed
<1>4. c \in FoundChunk
  <2>1. i \in Nat /\ image.chunks \in Seq(FoundChunk) /\ Len(image.chunks) \in Nat
    BY <1>2 DEF ReaderState
  <2> QED BY <1>1, <2>1
<1>5. bytes \in Seq(Int)
  BY <1>4 DEF FoundChunk
<1>6. ASSUME ReadsWritten
      PROVE  ReadsWritten'
  <2> DEFINE y == out.chunks[i + 1]
             z == y.chunk_sz * BlockSize
  <2>1. c = y /\ \A u \in DOMAIN img : u \in 0 .. (at - 1)
    BY <1>6 DEF ReadsWritten
  <2>2. at = Len(Prefix(i)) /\ i \in Nat /\ i < Len(out.chunks) /\ WriterInv(out)
        /\ Len(out.chunks) \in Nat
    BY <1>3, <1>5, <1>6, TakeFrom DEF ReadsWritten
  <2>3. y \in Chunk /\ at \in Nat
    <3>1. i \in 0 .. Len(out.chunks)
      BY <2>2
    <3> QED BY <2>2, <3>1, PrefixNext, PrefixFacts
  <2>4. z \in Nat /\ ChunkBytes(y) = bytes /\ Len(bytes) = z
    BY <1>1, <2>1, <2>3, WrittenChunk
  <2> HIDE DEF c, bytes, y, z
  <2>5. DOMAIN img' = DOMAIN img \cup at .. (at + z - 1)
    BY <1>1, <2>4
  <2>6. \A u \in DOMAIN img' : u \in 0 .. (at + z - 1)
    BY <2>1, <2>3, <2>4, <2>5
  <2>7. ASSUME NEW u \in 0 .. (at - 1)
        PROVE  FileByte(img', u) = FileByte(img, u)
    <3>1. u < at /\ (u \in DOMAIN img' <=> u \in DOMAIN img)
      BY <2>3, <2>5, <2>7
    <3> QED BY <1>1, <2>5, <3>1 DEF FileByte
  <2>8. ASSUME NEW u \in at .. (at + z - 1)
        PROVE  FileByte(img', u) = ChunkBytes(y)[u - at + 1]
    <3>1. ~(u < at) /\ u \in DOMAIN img'
      BY <2>3, <2>5, <2>8
    <3> QED BY <1>1, <2>4, <2>5, <3>1 DEF FileByte
  <2>9. Copied(y, z)
    BY <2>6, <2>7, <2>8 DEF Copied, y, z
  <2> QED BY <1>3, <1>5, <1>6, <2>4, <2>9, TakeWritten
<1> HIDE DEF bytes
<1> QED BY <1>3, <1>5, <1>6, TakeKeeps

\* A gap is zeroes in the result; its checksum is over what is in the buffer.
LEMMA GapFacts ==
    ASSUME NEW n \in Nat, zerobuf \in ZeroBufs
    PROVE  /\ Reader!GapBytes(n) \in Seq(Int)
           /\ Zero => Reader!GapBytes(n) = Zeros(n * BlockSize)
<1> DEFINE z == n * BlockSize
           g == [j \in 1 .. z |-> zerobuf[((j - 1) % BlockSize) + 1]]
<1>1. z \in Nat /\ BlockSize \in Nat \ {0}
  BY RoundUpMultiple, SizeTypes
<1>2. zerobuf \in [1 .. BlockSize -> Int]
  BY ImageConstants
<1>3. Reader!GapBytes(n) = g
  BY DEF Reader!GapBytes
<1> HIDE DEF z
<1>4. ASSUME NEW j \in 1 .. z
      PROVE  ((j - 1) % BlockSize) + 1 \in 1 .. BlockSize
  <2>1. j - 1 \in Int
    BY <1>1
  <2>2. (j - 1) % BlockSize \in 0 .. (BlockSize - 1)
    BY <1>1, <2>1, QuotientAndRest
  <2> QED BY <1>1, <2>2
<1>5. g \in Seq(Int)
  <2>1. \A j \in 1 .. z : zerobuf[((j - 1) % BlockSize) + 1] \in Int
    BY <1>2, <1>4
  <2> QED BY <1>1, <2>1
<1>6. ASSUME Zero
      PROVE  g = Zeros(z)
  <2>1. \A j \in 1 .. z : zerobuf[((j - 1) % BlockSize) + 1] = 0
    BY <1>2, <1>4, <1>6 DEF Zero
  <2> QED BY <2>1 DEF Zeros
<1> QED BY <1>3, <1>5, <1>6 DEF z

LEMMA SkipChunkRead ==
    ASSUME WriterSide, ReaderInv, Reader!process_skip_chunk, ReadStep
    PROVE  ReaderInv'
<1> DEFINE c == image.chunks[i + 1]
           bytes == Reader!GapBytes(c.chunk_sz)
<1>1. /\ result = "reading" /\ i < image.header.total_chunks /\ i < Len(image.chunks)
      /\ c.type = "dont_care" /\ c.total_sz = 0
      /\ in_crc' = in_crc \o bytes /\ img' = img
      /\ i' = i + 1 /\ total_blocks' = total_blocks + c.chunk_sz
      /\ at' = at + c.chunk_sz * BlockSize
      /\ UNCHANGED <<image, zerobuf, size, result>>
  BY DEF Reader!process_skip_chunk, Reader!More, Reader!Chunk, Reader!Advance
<1>2. ReaderState
  BY <1>1 DEF ReaderInv
<1>3. TakeChunk(bytes)
  BY <1>1, <1>2 DEF TakeChunk, ReaderState, Malformed
<1>4. c.chunk_sz \in Nat
  <2>1. i \in Nat /\ image.chunks \in Seq(FoundChunk) /\ Len(image.chunks) \in Nat
    BY <1>2 DEF ReaderState
  <2>2. c \in FoundChunk
    BY <1>1, <2>1
  <2> QED BY <2>2 DEF FoundChunk
<1>5. bytes \in Seq(Int) /\ (Zero => bytes = Zeros(c.chunk_sz * BlockSize))
  BY <1>2, <1>4, GapFacts DEF ReaderState
<1>6. ASSUME ReadsWritten
      PROVE  ReadsWritten'
  <2> DEFINE y == out.chunks[i + 1]
             z == y.chunk_sz * BlockSize
  <2>1. c = y /\ \A u \in DOMAIN img : u \in 0 .. (at - 1)
    BY <1>6 DEF ReadsWritten
  <2> HIDE DEF bytes
  <2>2. at = Len(Prefix(i)) /\ i \in Nat /\ i < Len(out.chunks) /\ WriterInv(out)
        /\ Len(out.chunks) \in Nat
    BY <1>3, <1>5, <1>6, TakeFrom DEF ReadsWritten
  <2>3. y \in Chunk /\ at \in Nat
    <3>1. i \in 0 .. Len(out.chunks)
      BY <2>2
    <3> QED BY <2>2, <3>1, PrefixNext, PrefixFacts
  <2>4. z \in Nat /\ ChunkBytes(y) = Zeros(z) /\ (Zero => bytes = ChunkBytes(y))
    BY <1>1, <1>5, <2>1, <2>3, WrittenChunk
  <2> HIDE DEF c, y, z
  <2>5. \A u \in DOMAIN img' : u \in 0 .. (at + z - 1)
    BY <1>1, <2>1, <2>3, <2>4
  <2>6. \A u \in 0 .. (at - 1) : FileByte(img', u) = FileByte(img, u)
    BY <1>1
  <2>7. ASSUME NEW u \in at .. (at + z - 1)
        PROVE  FileByte(img', u) = ChunkBytes(y)[u - at + 1]
    <3>1. u \notin DOMAIN img' /\ u - at + 1 \in 1 .. z
      BY <1>1, <2>1, <2>3, <2>4, <2>7
    <3>2. Zeros(z)[u - at + 1] = 0
      BY <2>4, <3>1, ZerosFacts
    <3> QED BY <2>4, <3>1, <3>2 DEF FileByte
  <2>8. Copied(y, z)
    BY <2>5, <2>6, <2>7 DEF Copied, y, z
  <2> QED BY <1>3, <1>5, <1>6, <2>4, <2>8, TakeWritten
<1> HIDE DEF bytes
<1> QED BY <1>3, <1>5, <1>6, TakeKeeps

\* The steps that take no chunk change no more than the size and the result.
StaysThere ==
    /\ image' = image /\ zerobuf' = zerobuf /\ i' = i /\ in_crc' = in_crc
    /\ total_blocks' = total_blocks /\ img' = img /\ at' = at
    /\ ReadStep

LEMMA StayKeeps ==
    ASSUME ReaderState, ReaderInput, StaysThere,
           Ended' => i = out.header.total_chunks,
           result' = "ok" =>
               in_crc = out.header.image_checksum /\ total_blocks = out.header.total_blks,
           result' = "blocks" => total_blocks # out.header.total_blks,
           result' = "crc" => in_crc # out.header.image_checksum,
           ReadsWritten => result' # "chunk" /\ (Ended' => size' = at)
    PROVE  ReaderInv'
<1>1. /\ image' = image /\ zerobuf' = zerobuf /\ i' = i /\ in_crc' = in_crc
      /\ total_blocks' = total_blocks /\ img' = img /\ at' = at
      /\ out' = out /\ phase' = phase /\ damaged' = damaged /\ mode' = mode
      /\ Prefix(i)' = Prefix(i)
  BY SamePrefix DEF StaysThere
<1>2. ReaderState'
  BY <1>1 DEF ReaderState
<1>3. ReadsWritten => ReadsWritten'
  BY <1>1 DEF ReadsWritten, Zero, Reader!OutByte
<1>4. ReadsDamaged => ReadsDamaged'
  BY <1>1 DEF ReadsDamaged, Differs, Malformed
<1>5. ReaderInput'
  BY <1>1, <1>3, <1>4 DEF ReaderInput
<1> QED BY <1>2, <1>5 DEF ReaderInv

LEMMA SizeSet ==
    ASSUME ReaderInv, Reader!set_size, ReadStep
    PROVE  ReaderInv'
<1>1. /\ result = "reading" /\ i = image.header.total_chunks
      /\ size' = total_blocks * BlockSize /\ result' = "checking"
  BY DEF Reader!set_size
<1>2. ReaderState /\ ReaderInput /\ StaysThere
  BY <1>1 DEF ReaderInv, Reader!set_size, StaysThere
<1>3. i = out.header.total_chunks
  BY <1>1, <1>2 DEF ReaderState
<1>4. ReadsWritten => size' = at
  BY <1>1 DEF ReadsWritten
<1> QED BY <1>1, <1>2, <1>3, <1>4, StayKeeps

LEMMA Checked ==
    ASSUME ReaderInv, Reader!check, ReadStep
    PROVE  ReaderInv'
<1>1. /\ result = "checking" /\ size' = size
      /\ result' = IF image.header.total_blks # total_blocks THEN "blocks"
                   ELSE IF image.header.image_checksum # in_crc THEN "crc" ELSE "ok"
  BY DEF Reader!check
<1>2. ReaderState /\ ReaderInput /\ StaysThere
  BY <1>1 DEF ReaderInv, Reader!check, StaysThere
<1>3. image.header = out.header /\ i = out.header.total_chunks
  BY <1>1, <1>2 DEF ReaderState, Ended
<1>4. ReadsWritten => size = at
  BY <1>1 DEF ReadsWritten, Ended
<1> QED BY <1>1, <1>2, <1>3, <1>4, StayKeeps

\* No chunk that was written is rejected.
LEMMA Rejected ==
    ASSUME WriterSide, ReaderInv, Reader!reject_chunk, ReadStep
    PROVE  ReaderInv'
<1>1. /\ result = "reading" /\ i < image.header.total_chunks /\ result' = "chunk"
      /\ i < Len(image.chunks) => Malformed(image.chunks[i + 1])
  BY DEF Reader!reject_chunk, Reader!More, Reader!Chunk, Reader!RawSizeMatches, Malformed
<1>2. ReaderState /\ ReaderInput /\ StaysThere
  BY <1>1 DEF ReaderInv, Reader!reject_chunk, StaysThere
<1>3. image.header = out.header /\ i \in Nat /\ mode = "sparse" /\ image.chunks \in Seq(FoundChunk)
  BY <1>2 DEF ReaderState
<1>4. ASSUME ReadsWritten
      PROVE  FALSE
  <2>1. image.chunks = out.chunks
    BY <1>4 DEF ReadsWritten
  <2>2. out.state = "closed" /\ ~out.write_failed
    <3>1. CASE out.state = "open"
      <4>1. out.header.total_chunks = 0
        BY <3>1, OpenHeader
      <4> QED BY <1>1, <1>3, <4>1
    <3> QED BY <1>2, <3>1 DEF ReaderInput
  <2>3. /\ WriterInv(out) /\ out.header.total_chunks = Len(out.chunks)
    BY <1>3, <2>2, ClosedHeader
  <2>4. i < Len(out.chunks)
    BY <1>1, <1>3, <2>3
  <2>5. out.chunks[i + 1] \in Chunk
    BY <1>3, <2>3, <2>4, PrefixNext
  <2> QED BY <1>1, <2>1, <2>4, <2>5, WrittenChunk
<1> QED BY <1>1, <1>2, <1>4, StayKeeps DEF Ended

LEMMA IoFailed ==
    ASSUME ReaderInv, Reader!io_failure, ReadStep
    PROVE  ReaderInv'
<1>1. result = "reading" /\ result' = "io"
  BY DEF Reader!io_failure
<1>2. ReaderState /\ ReaderInput /\ StaysThere
  BY <1>1 DEF ReaderInv, Reader!io_failure, StaysThere
<1> QED BY <1>1, <1>2, StayKeeps DEF Ended

LEMMA ReadKeeps ==
    ASSUME WriterSide, ReaderInv, read
    PROVE  ReaderInv' /\ WriterSide'
<1>1. ReadStep
  BY DEF read, ReadStep, Settings, stepVars
<1>2. WriterSide'
  BY <1>1, SameWriter DEF ReadStep
<1>3. \/ Reader!process_raw_chunk \/ Reader!process_skip_chunk \/ Reader!set_size
      \/ Reader!check \/ Reader!reject_chunk \/ Reader!io_failure
  BY DEF read, Reader!Read
<1> QED BY <1>1, <1>2, <1>3, RawChunkRead, SkipChunkRead, SizeSet, Checked, Rejected, IoFailed


-----------------------------------------------------------------------------
(* What simg2img is given                                                  *)

\* A chunk that is malformed, has a byte that nobody wrote, or is a block longer.
Altered(c, was) ==
    \/ Malformed(c)
    \/ c.type = "raw" /\ Len(c.data) > 0 /\ c.data[1] = -1
    \/ c.type = "dont_care" /\ c.chunk_sz = was.chunk_sz + 1

\* The chunks are those written, the end is missing, or one of them is altered.
Given(chunks) ==
    \/ chunks = out.chunks
    \/ Len(chunks) < Len(out.chunks)
    \/ /\ Len(chunks) = Len(out.chunks)
       /\ \E n \in DOMAIN out.chunks :
             /\ Altered(chunks[n], out.chunks[n])
             /\ \A m \in DOMAIN out.chunks \ {n} : chunks[m] = out.chunks[m]

LEMMA OtherSize ==
    ASSUME NEW c \in FoundChunk
    PROVE  /\ LET d == [c EXCEPT !.chunk_sz = @ + 1]
              IN  d \in FoundChunk /\ d.type = c.type /\ d.total_sz = c.total_sz
                  /\ d.chunk_sz = c.chunk_sz + 1
           /\ LET d == [c EXCEPT !.total_sz = @ + 1]
              IN  d \in FoundChunk /\ d.type = c.type /\ d.chunk_sz = c.chunk_sz
                  /\ d.total_sz = c.total_sz + 1
           /\ c.chunk_sz \in Nat /\ c.total_sz \in Nat
BY SMTT(60) DEF FoundChunk

LEMMA OneChanged ==
    ASSUME out.chunks \in Seq(FoundChunk), NEW n \in DOMAIN out.chunks, NEW c \in FoundChunk,
           c = out.chunks[n] \/ Altered(c, out.chunks[n])
    PROVE  [out.chunks EXCEPT ![n] = c] \in Seq(FoundChunk) /\ Given([out.chunks EXCEPT ![n] = c])
<1> DEFINE s == [out.chunks EXCEPT ![n] = c]
           l == Len(out.chunks)
<1>1. l \in Nat /\ DOMAIN out.chunks = 1 .. l /\ out.chunks \in [1 .. l -> FoundChunk]
  OBVIOUS
<1>2. s \in [1 .. l -> FoundChunk] /\ s[n] = c
      /\ \A m \in DOMAIN out.chunks \ {n} : s[m] = out.chunks[m]
  BY <1>1
<1>3. s \in Seq(FoundChunk) /\ Len(s) = l
  BY <1>1, <1>2
<1>4. c = out.chunks[n] => s = out.chunks
  BY <1>1
<1> HIDE DEF s
<1>5. Given(s)
  BY <1>2, <1>3, <1>4 DEF Given
<1> QED BY <1>3, <1>5 DEF s

LEMMA DamagedInput ==
    ASSUME WriterInv(out), NEW input \in Damages(Input)
    PROVE  /\ input.header = out.header /\ input.chunks \in Seq(FoundChunk)
           /\ Given(input.chunks)
<1> DEFINE cs == out.chunks
<1>1. cs \in Seq(Chunk) /\ Len(cs) \in Nat /\ DOMAIN cs = 1 .. Len(cs)
  BY DEF WriterInv, PositionExact
<1>2. \A n \in DOMAIN cs : cs[n] \in Chunk /\ cs[n] \in FoundChunk /\ ~Malformed(cs[n])
  BY <1>1, WrittenChunk
<1>3. cs \in Seq(FoundChunk)
  <2>1. cs = [n \in 1 .. Len(cs) |-> cs[n]]
    BY <1>1
  <2> QED BY <1>1, <1>2, <2>1
<1>4. \/ \E n \in 0 .. (Len(cs) - 1) : input = [Input EXCEPT !.chunks = SubSeq(cs, 1, n)]
      \/ \E n \in DOMAIN cs :
            /\ cs[n].type = "raw"
            /\ input = [Input EXCEPT !.chunks[n].data[1] = -1]
      \/ \E n \in DOMAIN cs : input = [Input EXCEPT !.chunks[n].chunk_sz = @ + 1]
      \/ \E n \in DOMAIN cs : input = [Input EXCEPT !.chunks[n].total_sz = @ + 1]
  BY DEF Damages, Input
<1>5. ASSUME NEW n \in 0 .. (Len(cs) - 1), input = [Input EXCEPT !.chunks = SubSeq(cs, 1, n)]
      PROVE  /\ input.header = out.header /\ input.chunks \in Seq(FoundChunk)
             /\ Given(input.chunks)
  <2>1. input.header = out.header /\ input.chunks = SubSeq(cs, 1, n)
    BY <1>5 DEF Input
  <2>2. SubSeq(cs, 1, n) \in Seq(FoundChunk) /\ Len(SubSeq(cs, 1, n)) = n
    BY <1>1, <1>3
  <2> QED BY <1>1, <2>1, <2>2 DEF Given
<1>6. ASSUME NEW n \in DOMAIN cs, NEW c,
             input = [Input EXCEPT !.chunks = [cs EXCEPT ![n] = c]],
             c \in FoundChunk, c = cs[n] \/ Altered(c, cs[n])
      PROVE  /\ input.header = out.header /\ input.chunks \in Seq(FoundChunk)
             /\ Given(input.chunks)
  <2>1. input.header = out.header /\ input.chunks = [cs EXCEPT ![n] = c]
    BY <1>6 DEF Input
  <2> QED BY <1>3, <1>6, <2>1, OneChanged
<1>7. ASSUME NEW n \in DOMAIN cs, cs[n].type = "raw",
             input = [Input EXCEPT !.chunks[n].data[1] = -1]
      PROVE  /\ input.header = out.header /\ input.chunks \in Seq(FoundChunk)
             /\ Given(input.chunks)
  <2> DEFINE d == cs[n].data
             e == [d EXCEPT ![1] = -1]
             c == [cs[n] EXCEPT !.data = e]
  <2>1. input = [Input EXCEPT !.chunks = [cs EXCEPT ![n] = c]]
    BY <1>7 DEF Input
  <2>2. d \in Seq(Int)
    BY <1>2 DEF FoundChunk
  <2>3. /\ e \in Seq(Int) /\ Len(e) = Len(d) /\ Len(d) \in Nat
        /\ (Len(d) = 0 => e = d) /\ (Len(d) > 0 => e[1] = -1)
    <3>1. Len(d) \in Nat /\ DOMAIN d = 1 .. Len(d) /\ d \in [1 .. Len(d) -> Int]
      BY <2>2
    <3>2. e \in [1 .. Len(d) -> Int] /\ (1 \in 1 .. Len(d) => e[1] = -1)
      <4>1. -1 \in Int
        OBVIOUS
      <4>2. \A x \in Int : LET t == [d EXCEPT ![1] = x] IN
               t \in [1 .. Len(d) -> Int] /\ (1 \in 1 .. Len(d) => t[1] = x)
        BY <3>1
      <4> QED BY <4>1, <4>2
    <3>3. e \in Seq(Int) /\ Len(e) = Len(d)
      BY <3>1, <3>2
    <3>4. ASSUME Len(d) = 0
          PROVE  e = d
      <4>1. 1 \notin DOMAIN d
        BY <3>1, <3>4
      <4> QED BY <3>1, <4>1
    <3> QED BY <3>1, <3>2, <3>3, <3>4
  <2> HIDE DEF e
  <2>4. c \in FoundChunk /\ c.type = "raw" /\ c.data = e
    BY <1>2, <1>7, <2>3 DEF FoundChunk
  <2>5. Len(d) = 0 => c = cs[n]
    BY <1>2, <2>3 DEF FoundChunk
  <2>6. c = cs[n] \/ Altered(c, cs[n])
    BY <2>3, <2>4, <2>5 DEF Altered
  <2> HIDE DEF c
  <2> QED BY <1>6, <2>1, <2>4, <2>6
<1>8. ASSUME NEW n \in DOMAIN cs, input = [Input EXCEPT !.chunks[n].chunk_sz = @ + 1]
      PROVE  /\ input.header = out.header /\ input.chunks \in Seq(FoundChunk)
             /\ Given(input.chunks)
  <2> DEFINE c == [cs[n] EXCEPT !.chunk_sz = @ + 1]
  <2>1. input = [Input EXCEPT !.chunks = [cs EXCEPT ![n] = c]]
    BY <1>8 DEF Input
  <2>2. c \in FoundChunk /\ c.type = cs[n].type /\ c.chunk_sz = cs[n].chunk_sz + 1
        /\ c.total_sz = cs[n].total_sz
    BY <1>2, OtherSize
  <2>3. Altered(c, cs[n])
    <3>1. CASE c.type = "raw"
      <4> DEFINE x == cs[n].chunk_sz
      <4>1. x \in Nat /\ x * BlockSize \in Nat /\ c.total_sz = x * BlockSize
        BY <1>2, <2>2, <3>1, WrittenChunk DEF Malformed
      <4>2. (x + 1) * BlockSize = x * BlockSize + 1 * BlockSize
        <5>1. x \in Int /\ 1 \in Int
          BY <4>1
        <5> QED BY <5>1, SumTimes, Zenon
      <4>3. 1 * BlockSize = BlockSize /\ BlockSize \in Nat \ {0}
        BY SizeTypes
      <4>4. (x + 1) * BlockSize # x * BlockSize
        <5> DEFINE y == x * BlockSize
        <5>1. y \in Nat /\ (x + 1) * BlockSize = y + BlockSize
          BY <4>1, <4>2, <4>3
        <5> HIDE DEF y
        <5>2. y + BlockSize # y
          BY <4>3, <5>1
        <5> QED BY <5>1, <5>2 DEF y
      <4> QED BY <2>2, <3>1, <4>1, <4>4 DEF Altered, Malformed
    <3>2. CASE c.type = "dont_care"
      BY <2>2, <3>2 DEF Altered
    <3> QED BY <2>2, <3>1, <3>2 DEF FoundChunk
  <2> HIDE DEF c
  <2> QED BY <1>6, <2>1, <2>2, <2>3
<1>9. ASSUME NEW n \in DOMAIN cs, input = [Input EXCEPT !.chunks[n].total_sz = @ + 1]
      PROVE  /\ input.header = out.header /\ input.chunks \in Seq(FoundChunk)
             /\ Given(input.chunks)
  <2> DEFINE c == [cs[n] EXCEPT !.total_sz = @ + 1]
  <2>1. input = [Input EXCEPT !.chunks = [cs EXCEPT ![n] = c]]
    BY <1>9 DEF Input
  <2>2. c \in FoundChunk /\ c.type = cs[n].type /\ c.chunk_sz = cs[n].chunk_sz
        /\ c.total_sz = cs[n].total_sz + 1
    BY <1>2, OtherSize
  <2>3. c.total_sz # cs[n].total_sz
    <3>1. cs[n].total_sz \in Nat
      BY <1>2, OtherSize
    <3> QED BY <2>2, <3>1
  <2> HIDE DEF c
  <2>4. Altered(c, cs[n])
    BY <1>2, <2>2, <2>3 DEF Altered, Malformed
  <2> QED BY <1>6, <2>1, <2>2, <2>4
<1> QED BY <1>4, <1>5, <1>7, <1>8, <1>9

LEMMA ConvertKeeps ==
    ASSUME WriterSide, ReaderInv, convert
    PROVE  WriterSide' /\ ReaderInv'
<1>1. /\ result = "none" /\ Readable
      /\ \/ Reader!Start(Input) /\ damaged' = FALSE
         \/ Done /\ damaged' = TRUE /\ \E input \in Damages(Input) : Reader!Start(input)
      /\ UNCHANGED <<Settings, out, phase, k, last_block>>
  BY DEF convert, Settings
<1>2. WriterSide'
  BY <1>1, SameWriter
<1>3. out' = out /\ phase' = phase /\ mode' = mode /\ \A c : (Malformed(c)' <=> Malformed(c))
  BY <1>1 DEF Settings, Malformed
<1>4. PICK input :
        /\ Reader!Start(input)
        /\ \/ input = Input /\ ~damaged'
           \/ Done /\ damaged' /\ input \in Damages(Input)
  BY <1>1
<1>5. /\ image' = input /\ zerobuf' \in ZeroBufs /\ i' = 0 /\ in_crc' = <<>>
      /\ total_blocks' = 0 /\ img' = <<>> /\ at' = 0 /\ size' = 0 /\ result' = "reading"
  BY <1>4 DEF Reader!Start
<1>6. WriterInv(out) /\ out.chunks \in Seq(Chunk) /\ Len(out.chunks) \in Nat
  <2>1. WriterInv(out)
    BY DEF WriterSide, StateInv
  <2> QED BY <2>1 DEF WriterInv, PositionExact
<1>7. out.chunks \in Seq(FoundChunk)
  <2>1. out.chunks = [n \in 1 .. Len(out.chunks) |-> out.chunks[n]]
    BY <1>6
  <2>2. \A n \in 1 .. Len(out.chunks) : out.chunks[n] \in FoundChunk
    BY <1>6, WrittenChunk
  <2> QED BY <1>6, <2>1, <2>2
<1>8. input.header = out.header /\ input.chunks \in Seq(FoundChunk) /\ Given(input.chunks)
  BY <1>4, <1>6, <1>7, DamagedInput DEF Input, Given
<1>9. out.header.total_chunks \in Nat
  BY <1>1, ClosedHeader, OpenHeader DEF Readable
<1>10. ReaderState'
  <2>1. <<>> \in Seq(Int) /\ 0 \in 0 .. Len(input.chunks)
    BY <1>8
  <2> QED BY <1>1, <1>3, <1>5, <1>8, <1>9, <2>1 DEF ReaderState, Readable, Ended
<1>11. Prefix(i)' = <<>> /\ Len(<<>>) = 0 /\ total_blocks' * BlockSize = 0
  <2>1. Prefix(i)' = Prefix(0)
    BY <1>3, <1>5 DEF Prefix
  <2>2. 0 * BlockSize = 0
    BY SizeTypes
  <2> QED BY <1>5, <1>6, <2>1, <2>2, PrefixEnds
<1>12. CASE input.chunks = out.chunks
  <2>1. ReadsWritten'
    BY <1>3, <1>5, <1>11, <1>12 DEF ReadsWritten, Ended
  <2>2. CASE out.state = "open"
    <3>1. ~damaged'
      BY <1>4, <2>2 DEF Done, WriterSide, StateInv
    <3> QED BY <1>2, <1>3, <1>5, <1>10, <2>2, <3>1 DEF ReaderInv, ReaderInput
  <2>3. CASE out.state = "closed" /\ ~out.write_failed
    BY <1>2, <1>3, <1>10, <2>1, <2>3 DEF ReaderInv, ReaderInput
  <2> QED BY <1>1, <2>2, <2>3 DEF Readable
<1>13. CASE input.chunks # out.chunks
  <2>1. Done /\ damaged'
    BY <1>4, <1>13 DEF Input
  <2>2. out.state = "closed" /\ ~out.write_failed /\ out.error = "none"
    BY <2>1 DEF Done, WriterSide, StateInv
  <2>3. ReadsDamaged'
    <3>1. CASE Len(input.chunks) < Len(out.chunks)
      BY <1>3, <1>5, <2>1, <2>2, <3>1 DEF ReadsDamaged
    <3>2. CASE ~(Len(input.chunks) < Len(out.chunks))
      <4>1. PICK n \in DOMAIN out.chunks :
               /\ Len(input.chunks) = Len(out.chunks)
               /\ Altered(input.chunks[n], out.chunks[n])
               /\ \A m \in DOMAIN out.chunks \ {n} : input.chunks[m] = out.chunks[m]
        BY <1>8, <1>13, <3>2 DEF Given
      <4>2. n \in Nat /\ n > 0
        BY <1>6
      <4>3. i' < n /\ ~(i' >= n)
        BY <1>5, <4>2
      <4>4. total_blocks' * BlockSize = Len(Prefix(i)') + IF i' >= n THEN BlockSize ELSE 0
        BY <1>11, <4>3
      <4>5. Differs(n)'
        BY <1>3, <1>5, <4>1, <4>3, <4>4 DEF Differs, Altered
      <4> QED BY <1>3, <1>5, <2>1, <2>2, <4>1, <4>5 DEF ReadsDamaged
    <3> QED BY <3>1, <3>2
  <2> QED BY <1>2, <1>3, <1>10, <2>2, <2>3 DEF ReaderInv, ReaderInput
<1> QED BY <1>12, <1>13

-----------------------------------------------------------------------------
(* Every step                                                              *)

LEMMA InitKeeps == Init => WriterSide /\ ReaderInv
<1> SUFFICES ASSUME Init PROVE WriterSide /\ ReaderInv
  OBVIOUS
<1>1. /\ QueueInv /\ queued = {} /\ Inv /\ out = NewOut
      /\ len \in Lengths /\ mode \in Modes /\ force \in BOOLEAN /\ kilo \in Kilos
      /\ phase = "queue" /\ k = 1 /\ last_block = 0 /\ result = "none"
  BY QueueInitInv, InitInv DEF Init, QueueInit, WriterInit
<1>2. PlacesInv /\ PhaseInv
  BY <1>1 DEF PlacesInv, PhaseInv, Writing
<1>3. StateInv
  <2>1. WriterInv(out)
    BY <1>1 DEF Inv
  <2>2. /\ NewOut.state = "none" /\ NewOut.error = "none" /\ ~NewOut.exited
        /\ ~NewOut.write_failed
    BY DEF NewOut
  <2> QED BY <1>1, <2>1, <2>2 DEF StateInv
<1>4. WrittenInv /\ OnlyKnownErrors
  BY <1>1 DEF WrittenInv, OnlyKnownErrors, NewOut
<1> QED BY <1>1, <1>2, <1>3, <1>4 DEF WriterSide, ReaderInv

WriterStep ==
    \/ \E p \in Pieces : queue_piece(p)
    \/ \E io \in IoResults :
          \/ open_image(io)
          \/ write_super_block(io)
          \/ write_group_descriptors(io)
          \/ write_queued(io)
          \/ pad(io)
          \/ close(io)
    \/ killed

LEMMA WriterKeeps ==
    ASSUME WriterSide, ReaderInv, WriterStep
    PROVE  WriterSide' /\ ReaderInv'
<1>1. WriterSide'
  BY QueueStep, OpenStepKeeps, SuperStep, DescStep, PieceStep, PadStep, CloseStep, KilledStep
     DEF WriterStep
<1>2. /\ phase = "queue" \/ (phase \in Writing /\ ~out.exited)
      /\ result' = result
  BY DEF WriterStep, queue_piece, open_image, write_super_block, write_group_descriptors,
         write_queued, pad, close, killed, Step, readerVars, Writing
<1>3. result' = "none"
  BY <1>2, NothingRead
<1> QED BY <1>1, <1>3 DEF ReaderInv

LEMMA ImageNext == WriterSide /\ ReaderInv /\ [Next]_vars => WriterSide' /\ ReaderInv'
<1> SUFFICES ASSUME WriterSide, ReaderInv, [Next]_vars
             PROVE  WriterSide' /\ ReaderInv'
  OBVIOUS
<1>1. CASE WriterStep
  BY <1>1, WriterKeeps
<1>2. CASE convert
  BY <1>2, ConvertKeeps
<1>3. CASE read
  BY <1>3, ReadKeeps
<1>4. CASE UNCHANGED vars
  <2>1. /\ UNCHANGED <<Settings, out, phase, k, last_block>>
        /\ ReadStep /\ UNCHANGED readerVars
    BY <1>4 DEF vars, Settings, ReadStep, outVars, stepVars
  <2>2. WriterSide'
    BY <2>1, SameWriter
  <2>3. ReaderInv'
    <3> SUFFICES ASSUME result' # "none" PROVE ReaderInv'
      BY DEF ReaderInv
    <3>1. ReaderState /\ ReaderInput /\ StaysThere /\ size' = size /\ result' = result
      BY <2>1 DEF ReaderInv, StaysThere, readerVars
    <3> QED BY <3>1, StayKeeps DEF ReaderState, Ended, ReadsWritten
  <2> QED BY <2>2, <2>3
<1> QED BY <1>1, <1>2, <1>3, <1>4 DEF Next, WriterStep

-----------------------------------------------------------------------------
(* What the invariant says                                                 *)

LEMMA SparseDone ==
    ASSUME WriterSide, Done, mode = "sparse"
    PROVE  /\ WriterInv(out) /\ out.state = "closed" /\ ~out.write_failed
           /\ out.crc32 \in Seq(Nat) /\ Len(out.crc32) = len
           /\ len \in Nat /\ len \div BlockSize \in Nat
           /\ len = (len \div BlockSize) * BlockSize
           /\ \A u \in 0 .. (len - 1) : out.crc32[u + 1] = Expected(u)
<1>1. /\ WriterInv(out) /\ out.state = "closed" /\ ~out.write_failed /\ Whole(out)
  BY DEF WriterSide, StateInv, WrittenInv, Done
<1>0. Padded(out)
  BY <1>1 DEF Whole
<1>2. /\ out.crc32 \in Seq(Nat) /\ Len(out.crc32) = out.cur_out_ptr
      /\ out.cur_out_ptr % BlockSize = 0 /\ out.cur_out_ptr = len
  BY <1>0, <1>1 DEF WriterInv, PositionExact, Padded
<1>3. len \in Nat /\ len \div BlockSize \in Nat /\ BlockSize \in Nat \ {0}
  BY Constants, WholeLen DEF WriterSide
<1>4. len = (len \div BlockSize) * BlockSize
  <2>1. len = (len \div BlockSize) * BlockSize + (len % BlockSize)
    BY <1>3, QuotientAndRest
  <2> DEFINE z == (len \div BlockSize) * BlockSize
  <2>2. z \in Nat /\ len = z + 0
    BY <1>2, <1>3, <2>1, RoundUpMultiple
  <2> HIDE DEF z
  <2>3. len = z
    BY <2>2
  <2> QED BY <2>3 DEF z
<1>5. ASSUME NEW u \in 0 .. (len - 1)
      PROVE  out.crc32[u + 1] = Expected(u)
  <2>1. u < out.cur_out_ptr
    BY <1>2, <1>3
  <2> QED BY <1>0, <2>1 DEF Padded, Byte
<1> QED BY <1>1, <1>2, <1>3, <1>4, <1>5

LEMMA ExactImage == WriterSide => ImageExact
<1> SUFFICES ASSUME WriterSide, Done, ~out.lost PROVE ImageExact
  BY DEF ImageExact
<1>1. CASE mode = "sparse"
  <2>1. /\ WriterInv(out) /\ out.state = "closed" /\ ~out.write_failed
        /\ out.crc32 \in Seq(Nat) /\ Len(out.crc32) = len /\ len \in Nat
        /\ \A u \in 0 .. (len - 1) : out.crc32[u + 1] = Expected(u)
    BY <1>1, SparseDone
  <2>2. out.header = Header(out) /\ Expanded(out.chunks) = out.crc32
        /\ Len(out.chunks) = out.chunk_cnt
    BY <1>1, <2>1 DEF WriterSide, StateInv, WriterInv, PositionExact
  <2>3. out.crc32 = [u \in 1 .. len |-> Expected(u - 1)]
    <3>1. out.crc32 = [u \in 1 .. len |-> out.crc32[u]]
      BY <2>1
    <3>2. ASSUME NEW u \in 1 .. len
          PROVE  out.crc32[u] = Expected(u - 1)
      <4>1. u - 1 \in 0 .. (len - 1) /\ (u - 1) + 1 = u
        BY <2>1
      <4> QED BY <2>1, <4>1
    <3> QED BY <3>1, <3>2
  <2> QED BY <1>1, <2>2, <2>3 DEF ImageExact, Header
<1>2. CASE mode # "sparse"
  <2>1. Padded(out) /\ len \in Nat \ {0}
    BY Constants DEF WriterSide, StateInv, WrittenInv, Done, Whole
  <2>2. /\ len - 1 \in DOMAIN out.raw /\ \A u \in DOMAIN out.raw : u \in 0 .. (len - 1)
        /\ \A u \in 0 .. (len - 1) : ByteOfRaw(u) = IF u = len - 1 THEN 0 ELSE Expected(u)
    BY <1>2, <2>1 DEF Padded, Byte, ByteOfRaw
  <2>3. \A u \in DOMAIN out.raw : u < len
    BY <2>1, <2>2
  <2>4. ASSUME NEW u \in 0 .. (len - 2)
        PROVE  ByteOfRaw(u) = Expected(u)
    <3>1. u \in 0 .. (len - 1) /\ u # len - 1
      BY <2>1
    <3> QED BY <2>2, <3>1
  <2>5. out.raw[len - 1] = 0
    <3>1. len - 1 \in 0 .. (len - 1)
      BY <2>1
    <3> QED BY <2>2, <3>1 DEF ByteOfRaw
  <2> QED BY <1>2, <2>2, <2>3, <2>4, <2>5 DEF ImageExact
<1> QED BY <1>1, <1>2

\* An image that is read to its end and was written without an error.
LEMMA ReadToEnd ==
    ASSUME WriterSide, ReaderInv, Done, Ended
    PROVE  /\ mode = "sparse" /\ ReaderState /\ (ReadsWritten \/ ReadsDamaged)
           /\ i = Len(out.chunks) /\ Len(out.chunks) \in Nat
           /\ Prefix(i) = out.crc32
           /\ out.header.total_blks = len \div BlockSize
           /\ out.header.image_checksum = out.crc32
<1>1. result # "none"
  BY DEF Ended
<1>2. ReaderState /\ ReaderInput /\ mode = "sparse" /\ i = out.header.total_chunks
  BY <1>1 DEF ReaderInv, ReaderState
<1>3. WriterInv(out) /\ out.state = "closed" /\ ~out.write_failed
  BY <1>2, SparseDone
<1>4. ReadsWritten \/ ReadsDamaged
  BY <1>2, <1>3 DEF ReaderInput
<1>5. /\ out.header.total_chunks = Len(out.chunks) /\ Len(out.chunks) \in Nat
      /\ out.header.total_blks = len \div BlockSize
      /\ out.header.image_checksum = out.crc32
  BY <1>2, <1>3, ClosedHeader
<1> QED BY <1>2, <1>3, <1>4, <1>5, PrefixEnds

\* A damaged image does not pass the comparisons.
LEMMA DamageShows ==
    ASSUME WriterSide, ReaderInv, Done, result = "ok"
    PROVE  ~ReadsDamaged
<1> SUFFICES ASSUME ReadsDamaged PROVE FALSE
  OBVIOUS
<1>1. Ended
  BY DEF Ended
<1>2. /\ mode = "sparse" /\ ReaderState /\ i = Len(out.chunks) /\ Len(out.chunks) \in Nat
      /\ Prefix(i) = out.crc32 /\ out.header.total_blks = len \div BlockSize
      /\ out.header.image_checksum = out.crc32
  BY <1>1, ReadToEnd
<1>3. /\ out.crc32 \in Seq(Nat) /\ Len(out.crc32) = len /\ len \in Nat
      /\ len = (len \div BlockSize) * BlockSize /\ WriterInv(out)
  BY <1>2, SparseDone
<1>4. /\ in_crc = out.crc32 /\ total_blocks = len \div BlockSize
      /\ i \in 0 .. Len(image.chunks) /\ image.chunks \in Seq(FoundChunk)
  BY <1>2 DEF ReaderState
<1>5. CASE Len(image.chunks) < Len(out.chunks)
  <2>1. Len(image.chunks) \in Nat
    BY <1>4
  <2> QED BY <1>2, <1>4, <1>5, <2>1
<1>6. ASSUME NEW n \in DOMAIN out.chunks, Differs(n)
      PROVE  FALSE
  <2>1. n \in 1 .. Len(out.chunks)
    BY <1>3, <1>6 DEF WriterInv, PositionExact
  <2>2. n \in Nat /\ i >= n /\ ~(i < n)
    BY <1>2, <2>1
  <2>3. CASE \E j \in DOMAIN in_crc : in_crc[j] = -1
    <3>1. \A j \in DOMAIN in_crc : in_crc[j] \in Nat
      BY <1>3, <1>4
    <3>2. -1 \notin Nat
      OBVIOUS
    <3> QED BY <2>3, <3>1, <3>2
  <2>4. CASE total_blocks * BlockSize = Len(Prefix(i)) + BlockSize
    <3>1. len = len + BlockSize
      BY <1>2, <1>3, <1>4, <2>4, Zenon
    <3> QED BY <1>3, <3>1, SizeTypes
  <2> QED BY <1>6, <2>2, <2>3, <2>4 DEF Differs
<1> QED BY <1>5, <1>6 DEF ReadsDamaged

LEMMA ExactWhenAccepted == WriterSide /\ ReaderInv => AcceptedIsExact
<1> SUFFICES ASSUME WriterSide, ReaderInv, result = "ok", ~force PROVE AcceptedIsExact
  BY DEF AcceptedIsExact
<1>1. ReaderState /\ ReaderInput
  BY DEF ReaderInv
<1>2. mode = "sparse" /\ total_blocks = out.header.total_blks
  BY <1>1 DEF ReaderState
<1>3. out.state = "closed" /\ ~out.write_failed
  <2>1. CASE out.state = "open" /\ total_blocks = 0
    BY <1>2, <2>1, OpenHeader
  <2> QED BY <1>1, <2>1 DEF ReaderInput
<1>4. Done
  <2>1. phase = "done" /\ ~out.exited
    BY <1>2, <1>3, ClosedHeader
  <2> QED BY <2>1 DEF Done, WriterSide, StateInv
<1>5. Ended
  BY DEF Ended
<1>6. ReadsWritten /\ Prefix(i) = out.crc32
  BY <1>4, <1>5, ReadToEnd, DamageShows
<1>7. /\ Len(out.crc32) = len
      /\ \A u \in 0 .. (len - 1) : out.crc32[u + 1] = Expected(u)
  BY <1>2, <1>4, SparseDone
<1>8. /\ size = len
      /\ \A u \in 0 .. (len - 1) : Reader!OutByte(u) = out.crc32[u + 1]
  BY <1>5, <1>6, <1>7 DEF ReadsWritten
<1> QED BY <1>4, <1>7, <1>8 DEF AcceptedIsExact

LEMMA GoodNotRejected == WriterSide /\ ReaderInv => RejectsOnlyBadImages
<1> SUFFICES ASSUME WriterSide, ReaderInv, Done, ~damaged, Zero,
                    result \in {"blocks", "crc", "chunk"}
             PROVE  FALSE
  BY DEF RejectsOnlyBadImages, Zero
<1>1. ReaderState /\ ReaderInput
  BY DEF ReaderInv
<1>2. mode = "sparse"
  BY <1>1 DEF ReaderState
<1>3. /\ out.state = "closed" /\ Len(out.crc32) = len /\ len \in Nat
      /\ len \div BlockSize \in Nat /\ len = (len \div BlockSize) * BlockSize
  BY <1>2, SparseDone
<1>4. ReadsWritten
  BY <1>1, <1>3 DEF ReaderInput, ReadsDamaged
<1>5. result # "chunk" /\ Ended
  BY <1>4 DEF ReadsWritten, Ended
<1>6. /\ Prefix(i) = out.crc32 /\ out.header.total_blks = len \div BlockSize
      /\ out.header.image_checksum = out.crc32
  BY <1>5, ReadToEnd
<1>7. in_crc = out.crc32 /\ total_blocks * BlockSize = (len \div BlockSize) * BlockSize
  BY <1>3, <1>4, <1>6, Zenon DEF ReadsWritten
<1>8. total_blocks = len \div BlockSize
  <2>1. total_blocks \in Int /\ len \div BlockSize \in Int
    BY <1>1, <1>3 DEF ReaderState
  <2> QED BY <1>7, <2>1, SameMultiple, Zenon
<1> QED BY <1>1, <1>5, <1>6, <1>7, <1>8 DEF ReaderState

-----------------------------------------------------------------------------
(* The theorems                                                            *)

LEMMA ImageInvariant == Spec => [](WriterSide /\ ReaderInv)
BY InitKeeps, ImageNext, PTL DEF Spec

\* As long as no call of the system fails, the only errors are a file's piece that
\* reaches the end, a length that is not a multiple of the block size and a compressed
\* file that is full: the queue leads the writer forwards only (ext4_utils.c:210-252,
\* output_file.c:149-249).
THEOREM ErrorsAreKnown == Spec => []OnlyKnownErrors
<1>1. WriterSide => OnlyKnownErrors
  BY DEF WriterSide
<1> QED BY <1>1, ImageInvariant, PTL

\* A run without an error leaves the whole file system in the file, chunk by chunk and
\* byte by byte, with the header that says so (ext4_utils.c:210-252,
\* output_file.c:149-420), unless it is the last call that fails, the close, whose result
\* nobody looks at (output_file.c:85-88, 124-127).
THEOREM ImageIsExact == Spec => []ImageExact
BY ExactImage, ImageInvariant, PTL

\* What simg2img accepts is that file system: whatever was killed, failed or changed
\* before (simg2img.c:114-224).
THEOREM AcceptedImages == Spec => []AcceptedIsExact
BY ExactWhenAccepted, ImageInvariant, PTL

\* It accepts every image that was written without an error, when its buffer of zeroes
\* holds zeroes (simg2img.c:114-224).
THEOREM GoodImagesAccepted == Spec => []RejectsOnlyBadImages
BY GoodNotRejected, ImageInvariant, PTL
=============================================================================
