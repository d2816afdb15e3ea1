--------------------------- MODULE FsLayoutProofs ---------------------------
(***************************************************************************)
(* Proofs about FsLayout, for a file system of any length with any number  *)
(* of inodes whose groups can hold their headers:                          *)
(*   - the groups are what the block allocator relies on                   *)
(*     (Allocate!Geometry);                                                *)
(*   - the places that every function computes for itself agree: an        *)
(*     invariant says of each state where everything lies                  *)
(*     (LayoutInv), and from it follow that the descriptors point to       *)
(*     the bitmaps and inode tables, that the resize inode lists the       *)
(*     reserve in order, and that no two structures share a block.         *)
(* The reserve is read back through a list of regions; the first section   *)
(* says what a chain of regions of the same length returns.                *)
(***************************************************************************)
EXTENDS FsLayout, Numbers, SequenceTheorems, FiniteSetTheorems

-----------------------------------------------------------------------------
(* Chains of regions                                                       *)

Region == [block : Int, len : Nat, bg : Int, next : Nat, prev : Nat]

\* Each pointer leads to a region or nowhere.
Linked(mem) == mem \in Seq(Region) /\ \A q \in DOMAIN mem : mem[q].next <= Len(mem)

LEMMA LinkedFacts ==
    ASSUME NEW mem, Linked(mem)
    PROVE  /\ Len(mem) \in Nat /\ DOMAIN mem = 1 .. Len(mem)
           /\ \A q \in 1 .. Len(mem) : /\ mem[q] \in Region
                                       /\ mem[q].next \in 0 .. Len(mem)
                                       /\ mem[q].len \in Nat /\ mem[q].block \in Int
<1>1. Len(mem) \in Nat /\ DOMAIN mem = 1 .. Len(mem) /\ \A q \in 1 .. Len(mem) : mem[q] \in Region
  BY DEF Linked
<1>2. \A r \in Region : r.next \in Nat /\ r.len \in Nat /\ r.block \in Int
  BY DEF Region
<1> QED BY <1>1, <1>2 DEF Linked

\* From p on mem holds m regions of the given length, chained in their order.
Row(mem, p, m, len) ==
    \A k \in 1 .. m : /\ p + k - 1 \in DOMAIN mem
                      /\ mem[p + k - 1].len = len
                      /\ mem[p + k - 1].next = IF k = m THEN NULL ELSE p + k

\* The function inside Chain.
IsChain(c, mem) ==
    c = [n \in 0 .. Len(mem) |->
           [q \in 0 .. Len(mem) |->
              IF n = 0 \/ q = NULL THEN <<>> ELSE <<q>> \o c[n - 1][mem[q].next]]]

LEMMA ChainExists ==
    ASSUME NEW mem, Linked(mem)
    PROVE  \E c : IsChain(c, mem)
<1> DEFINE L == Len(mem)
           V == [0 .. L -> Seq(Nat)]
           base == [q \in 0 .. L |-> <<>>]
           At(v) == [q \in 0 .. L |-> IF q = NULL THEN <<>> ELSE <<q>> \o v[mem[q].next]]
           step == [nv \in (1 .. L) \X V |-> At(nv[2])]
<1>1. L \in Nat /\ \A q \in 1 .. L : mem[q].next \in 0 .. L
  BY LinkedFacts
<1> HIDE DEF L
<1>2. base \in V
  OBVIOUS
<1>3. ASSUME NEW v \in V PROVE At(v) \in V
  <2>1. ASSUME NEW q \in 0 .. L, q # NULL
        PROVE  <<q>> \o v[mem[q].next] \in Seq(Nat)
    <3>1. mem[q].next \in 0 .. L /\ q \in Nat
      BY <1>1, <2>1 DEF NULL
    <3>2. <<q>> \in Seq(Nat) /\ v[mem[q].next] \in Seq(Nat)
      BY <3>1
    <3> QED BY <3>2, ConcatProperties
  <2> QED BY <2>1
<1>4. \A k \in 1 .. L : \A v \in V : step[<<k, v>>] = At(v)
  OBVIOUS
<1> HIDE DEF base, step, V
<1>5. IsStep(step, L, V)
  <2> HIDE DEF At
  <2> QED BY <1>3, <1>4 DEF IsStep
<1>6. PICK f \in [0 .. L -> V] : BuiltBy(f, L, base, step)
  BY <1>1, <1>2, <1>5, Recursion
<1>7. ASSUME NEW n \in 0 .. L
      PROVE  f[n] = [q \in 0 .. L |->
                       IF n = 0 \/ q = NULL THEN <<>> ELSE <<q>> \o f[n - 1][mem[q].next]]
  <2>1. CASE n = 0
    BY <1>6, <2>1 DEF BuiltBy, base
  <2>2. CASE n # 0
    <3>1. n \in 1 .. L /\ n - 1 \in 0 .. L
      BY <1>1, <2>2
    <3>2. f[n - 1] \in V
      BY <1>6, <3>1
    <3>3. f[n] = At(f[n - 1])
      <4> HIDE DEF At
      <4> QED BY <1>4, <1>6, <3>1, <3>2 DEF BuiltBy
    <3> QED BY <2>2, <3>3
  <2> QED BY <2>1, <2>2
<1>8. IsChain(f, mem)
  <2> DEFINE g == [n \in 0 .. L |->
                     [q \in 0 .. L |->
                        IF n = 0 \/ q = NULL THEN <<>> ELSE <<q>> \o f[n - 1][mem[q].next]]]
  <2>1. \A n \in 0 .. L : f[n] = g[n]
    BY <1>7
  <2> HIDE DEF g
  <2>2. DOMAIN g = 0 .. L /\ g = [n \in 0 .. L |-> g[n]]
    BY DEF g
  <2>3. f = g
    BY <1>6, <2>1, <2>2
  <2> QED BY <2>3 DEF IsChain, g, L
<1> QED BY <1>8

\* A row is its own chain.
LEMMA RowChain ==
    ASSUME NEW mem, Linked(mem), NEW p \in Nat \ {0}, NEW m \in Nat \ {0}, NEW len,
           Row(mem, p, m, len)
    PROVE  Chain(mem, p) = [k \in 1 .. m |-> p + k - 1]
<1> DEFINE L == Len(mem)
           c == CHOOSE d : IsChain(d, mem)
           Node(k) == IF k = m + 1 THEN NULL ELSE p + k - 1
           Tail_(k) == [x \in 1 .. (m + 1 - k) |-> p + k - 2 + x]
           S == {n \in 0 .. L : \A k \in 1 .. (m + 1) :
                                   m + 1 - k <= n => c[n][Node(k)] = Tail_(k)}
<1>1. Chain(mem, p) = c[L][p]
  BY DEF Chain, IsChain
<1>2. IsChain(c, mem)
  BY ChainExists
<1>3. L \in Nat /\ DOMAIN mem = 1 .. L
  BY LinkedFacts
<1> HIDE DEF c
<1>4. /\ \A n \in 0 .. L : c[n][0] = <<>>
      /\ \A q \in 0 .. L : c[0][q] = <<>>
      /\ \A n \in 1 .. L : \A q \in 1 .. L : c[n][q] = <<q>> \o c[n - 1][mem[q].next]
  <2> DEFINE Body(n, q) == IF n = 0 \/ q = NULL THEN <<>> ELSE <<q>> \o c[n - 1][mem[q].next]
             Bodies(n) == [q \in 0 .. L |-> Body(n, q)]
  <2>1. c = [n \in 0 .. L |-> Bodies(n)]
    BY <1>2 DEF IsChain
  <2> HIDE DEF Bodies
  <2>2. \A n \in 0 .. L : c[n] = Bodies(n)
    BY <2>1
  <2>3. \A n \in 0 .. L : \A q \in 0 .. L : Bodies(n)[q] = Body(n, q)
    <3> HIDE DEF Body
    <3> QED BY DEF Bodies
  <2>4. 0 \in 0 .. L /\ 1 .. L \subseteq 0 .. L
    BY <1>3
  <2>5. \A n \in 0 .. L : \A q \in 0 .. L : c[n][q] = Body(n, q)
    BY <2>2, <2>3
  <2>6. \A n \in 0 .. L : Body(n, 0) = <<>> /\ Body(0, n) = <<>>
    BY DEF NULL
  <2>7. \A n \in 1 .. L : \A q \in 1 .. L : Body(n, q) = <<q>> \o c[n - 1][mem[q].next]
    BY <1>3 DEF NULL
  <2> HIDE DEF Body
  <2> QED BY <2>4, <2>5, <2>6, <2>7
<1> HIDE DEF L
<1>5. ASSUME NEW k \in 1 .. m
      PROVE  /\ Node(k) \in 1 .. L /\ Node(k) = p + k - 1
             /\ mem[Node(k)].next = Node(k + 1)
  <2>1. p + k - 1 \in 1 .. L /\ mem[p + k - 1].next = IF k = m THEN NULL ELSE p + k
    BY <1>3 DEF Row
  <2>2. Node(k) = p + k - 1
    OBVIOUS
  <2>3. Node(k + 1) = IF k = m THEN NULL ELSE p + k
    OBVIOUS
  <2> QED BY <2>1, <2>2, <2>3
<1>6. Node(m + 1) = NULL /\ Tail_(m + 1) = <<>>
  OBVIOUS
<1>7. ASSUME NEW k \in 1 .. m
      PROVE  <<p + k - 1>> \o Tail_(k + 1) = Tail_(k)
  <2> DEFINE s == Tail_(k + 1)
             t == Tail_(k)
             y == p + k - 1
  <2>1. s \in Seq(Nat) /\ Len(s) = m - k /\ \A x \in 1 .. (m - k) : s[x] = p + k - 1 + x
    OBVIOUS
  <2>2. t \in Seq(Nat) /\ Len(t) = m + 1 - k /\ \A x \in 1 .. (m + 1 - k) : t[x] = p + k - 2 + x
    OBVIOUS
  <2>3. <<y>> \in Seq(Nat) /\ Len(<<y>>) = 1 /\ <<y>>[1] = y
    OBVIOUS
  <2> DEFINE u == <<y>> \o s
  <2>4. /\ u \in Seq(Nat) /\ Len(u) = 1 + (m - k)
        /\ \A x \in 1 .. (1 + (m - k)) : u[x] = IF x <= 1 THEN y ELSE s[x - 1]
    BY <2>1, <2>3, ConcatProperties
  <2> HIDE DEF s, t, u
  <2>5. ASSUME NEW x \in 1 .. (m + 1 - k) PROVE u[x] = t[x]
    <3>1. x \in 1 .. (1 + (m - k)) /\ (x > 1 => x - 1 \in 1 .. (m - k))
      OBVIOUS
    <3>2. u[x] = IF x <= 1 THEN y ELSE s[x - 1]
      BY <2>4, <3>1
    <3>3. x > 1 => s[x - 1] = p + k - 1 + (x - 1)
      BY <2>1, <3>1
    <3>4. t[x] = p + k - 2 + x
      BY <2>2
    <3> QED BY <3>2, <3>3, <3>4
  <2>6. u = t
    BY <2>2, <2>4, <2>5
  <2> QED BY <2>6 DEF s, t, u
<1> HIDE DEF Node, Tail_
<1>8. 0 \in S
  <2>1. \A k \in 1 .. (m + 1) : m + 1 - k <= 0 => k = m + 1
    OBVIOUS
  <2>2. c[0][Node(m + 1)] = <<>>
    BY <1>3, <1>4, <1>6, 0 \in 0 .. L DEF NULL
  <2> QED BY <1>3, <1>6, <2>1, <2>2
<1>9. ASSUME NEW n \in 0 .. (L - 1), n \in S
      PROVE  n + 1 \in S
  <2>1. n + 1 \in 0 .. L /\ n + 1 # 0 /\ n + 1 - 1 = n
    BY <1>3
  <2>2. ASSUME NEW k \in 1 .. (m + 1), m + 1 - k <= n + 1
        PROVE  c[n + 1][Node(k)] = Tail_(k)
    <3>1. CASE k = m + 1
      <4>1. 0 \in 0 .. L
        BY <1>3
      <4>2. c[n + 1][NULL] = <<>>
        BY <1>4, <2>1, <4>1 DEF NULL
      <4> QED BY <1>6, <3>1, <4>2
    <3>2. CASE k # m + 1
      <4>1. k \in 1 .. m /\ k + 1 \in 1 .. (m + 1) /\ m + 1 - (k + 1) <= n
        BY <2>2, <3>2
      <4>2. c[n][Node(k + 1)] = Tail_(k + 1)
        BY <1>9, <4>1
      <4>3. Node(k) \in 1 .. L /\ n + 1 \in 1 .. L
        BY <1>3, <1>5, <4>1
      <4>4. c[n + 1][Node(k)] = <<Node(k)>> \o c[n][mem[Node(k)].next]
        <5> DEFINE N == n + 1
                   q == Node(k)
        <5>1. N \in 1 .. L /\ q \in 1 .. L /\ N - 1 = n
          BY <2>1, <4>3
        <5> HIDE DEF N, q
        <5>2. c[N][q] = <<q>> \o c[N - 1][mem[q].next]
          BY <1>4, <5>1
        <5> QED BY <5>1, <5>2 DEF N, q
      <4> QED BY <1>5, <1>7, <4>1, <4>2, <4>4
    <3> QED BY <3>1, <3>2
  <2> QED BY <2>1, <2>2
<1> HIDE DEF S
<1>10. L \in S
  <2>1. \A n \in 0 .. L : n \in S
    BY <1>3, <1>8, <1>9, BoundedInduction
  <2> QED BY <1>3, <2>1
<1>11. m <= L
  BY <1>3, <1>5, m \in 1 .. m
<1>12. 1 \in 1 .. (m + 1) /\ m + 1 - 1 <= L
  BY <1>11
<1>13. c[L][Node(1)] = Tail_(1)
  BY <1>10, <1>12 DEF S
<1>14. Node(1) = p
  BY <1>5, 1 \in 1 .. m
<1>15. Tail_(1) = [k \in 1 .. m |-> p + k - 1]
  <2>1. m + 1 - 1 = m /\ \A x \in 1 .. m : p + 1 - 2 + x = p + x - 1
    OBVIOUS
  <2> QED BY <2>1 DEF Tail_
<1> QED BY <1>1, <1>13, <1>14, <1>15

\* The function inside SkipRegions, for a chain that is a row.
IsSkip(s, p, m, len, to) ==
    s = [k \in 1 .. (m + 1) |->
           [l \in 0 .. to |->
              IF k > m THEN [reg |-> NULL, left |-> l]
              ELSE IF l >= len THEN s[k + 1][l - len]
              ELSE [reg |-> p + k - 1, left |-> l]]]

LEMMA SkipExists ==
    ASSUME NEW p \in Nat \ {0}, NEW m \in Nat, NEW len \in Nat, NEW to \in Nat
    PROVE  \E s : IsSkip(s, p, m, len, to)
<1> DEFINE R == [reg : Nat, left : Nat]
           V == [0 .. to -> R]
           base == [l \in 0 .. to |-> [reg |-> NULL, left |-> l]]
           At(k, v) == [l \in 0 .. to |-> IF l >= len THEN v[l - len]
                                        ELSE [reg |-> p + k - 1, left |-> l]]
           step == [dv \in (1 .. m) \X V |-> At(m + 1 - dv[1], dv[2])]
<1>1. base \in V
  BY DEF NULL
<1>2. ASSUME NEW k \in 1 .. m, NEW v \in V PROVE At(k, v) \in V
  <2>1. ASSUME NEW l \in 0 .. to
        PROVE  (IF l >= len THEN v[l - len] ELSE [reg |-> p + k - 1, left |-> l]) \in R
    <3>1. [reg |-> p + k - 1, left |-> l] \in R
      OBVIOUS
    <3>2. l >= len => l - len \in 0 .. to
      OBVIOUS
    <3> HIDE DEF R
    <3> QED BY <3>1, <3>2
  <2> HIDE DEF R
  <2> QED BY <2>1
<1>3. \A d \in 1 .. m : \A v \in V : step[<<d, v>>] = At(m + 1 - d, v)
  OBVIOUS
<1> HIDE DEF base, step, V
<1>4. IsStep(step, m, V)
  <2> SUFFICES ASSUME NEW d \in 1 .. m, NEW v \in V PROVE step[<<d, v>>] \in V
    BY DEF IsStep
  <2>1. m + 1 - d \in 1 .. m
    OBVIOUS
  <2> HIDE DEF At
  <2> QED BY <1>2, <1>3, <2>1
<1>5. PICK g \in [0 .. m -> V] : BuiltBy(g, m, base, step)
  BY <1>1, <1>4, Recursion
<1> DEFINE Body(s, k) == [l \in 0 .. to |->
                            IF k > m THEN [reg |-> NULL, left |-> l]
                            ELSE IF l >= len THEN s[k + 1][l - len]
                            ELSE [reg |-> p + k - 1, left |-> l]]
           s == [k \in 1 .. (m + 1) |-> g[m + 1 - k]]
<1>6. \A k \in 1 .. (m + 1) : s[k] = g[m + 1 - k]
  OBVIOUS
<1> HIDE DEF s
<1>7. ASSUME NEW k \in 1 .. (m + 1)
      PROVE  s[k] = Body(s, k)
  <2>1. CASE k = m + 1
    <3>1. m + 1 - k = 0 /\ k > m
      BY <2>1
    <3>2. s[k] = base
      BY <1>5, <1>6, <3>1 DEF BuiltBy
    <3> QED BY <3>1, <3>2 DEF base
  <2>2. CASE k # m + 1
    <3> DEFINE d == m + 1 - k
    <3>1. /\ d \in 1 .. m /\ d - 1 \in 0 .. m /\ d - 1 = m + 1 - (k + 1) /\ ~(k > m)
          /\ k + 1 \in 1 .. (m + 1) /\ m + 1 - d = k
      BY <2>2
    <3>2. s[k] = g[d]
      BY <1>6
    <3> HIDE DEF d
    <3>3. g[d - 1] \in V /\ g[d] = step[<<d, g[d - 1]>>]
      BY <1>5, <3>1 DEF BuiltBy
    <3>4. s[k + 1] = g[d - 1]
      BY <1>6, <3>1
    <3>5. s[k] = At(k, s[k + 1])
      <4> HIDE DEF At
      <4> QED BY <1>3, <3>1, <3>2, <3>3, <3>4
    <3> QED BY <3>1, <3>5
  <2> QED BY <2>1, <2>2
<1>8. DOMAIN s = 1 .. (m + 1) /\ s = [k \in 1 .. (m + 1) |-> s[k]]
  BY DEF s
<1>9. s = [k \in 1 .. (m + 1) |-> Body(s, k)]
  <2> DEFINE b == [k \in 1 .. (m + 1) |-> Body(s, k)]
  <2> HIDE DEF Body
  <2>1. b = [k \in 1 .. (m + 1) |-> b[k]] /\ \A k \in 1 .. (m + 1) : b[k] = Body(s, k)
    OBVIOUS
  <2> HIDE DEF b
  <2>2. \A k \in 1 .. (m + 1) : b[k] = s[k]
    BY <1>7, <2>1
  <2>3. b = s
    BY <1>8, <2>1, <2>2
  <2> QED BY <2>3 DEF b
<1>10. IsSkip(s, p, m, len, to)
  BY <1>9 DEF IsSkip
<1> QED BY <1>10

\* The blocks of a list whose regions have the same length.
IsRow(a, p, m, len) ==
    /\ p \in Nat \ {0} /\ m \in Nat \ {0} /\ len \in Nat \ {0}
    /\ Linked(a.mem) /\ Row(a.mem, p, m, len)

\* A number of blocks into a row of regions of the same length.
LEMMA RowSkip ==
    ASSUME NEW a, NEW p, NEW m, NEW len, IsRow(a, p, m, len),
           NEW j \in 0 .. (m - 1), NEW r \in 0 .. (len - 1)
    PROVE  \A n : n = j * len + r => SkipRegions(a, p, n) = [reg |-> p + j, left |-> r]
<1> SUFFICES ASSUME p \in Nat \ {0}, m \in Nat \ {0}, len \in Nat \ {0},
                    Linked(a.mem), Row(a.mem, p, m, len)
             PROVE  \A n : n = j * len + r =>
                       SkipRegions(a, p, n) = [reg |-> p + j, left |-> r]
  BY Zenon DEF IsRow
<1> DEFINE mem == a.mem
           to == j * len + r
           s == CHOOSE f : IsSkip(f, p, m, len, to)
           chain == Chain(mem, p)
<1>1. to \in Nat /\ j * len \in Nat
  <2>1. \A x, y \in Nat : x * y \in Nat
    OBVIOUS
  <2> QED BY <2>1
<1>2. chain = [k \in 1 .. m |-> p + k - 1]
  BY RowChain
<1>3. Len(chain) = m
  BY <1>2
<1>4. \A k \in 1 .. m : mem[chain[k]].len = len /\ chain[k] = p + k - 1
  BY <1>2 DEF Row
<1> HIDE DEF chain, mem, to
<1>5. \A f : IsSkip(f, p, m, len, to) <=>
              f = [k \in 1 .. (Len(chain) + 1) |->
                     [l \in 0 .. to |->
                        IF k > Len(chain) THEN [reg |-> NULL, left |-> l]
                        ELSE IF l >= mem[chain[k]].len THEN f[k + 1][l - mem[chain[k]].len]
                        ELSE [reg |-> chain[k], left |-> l]]]
  <2> SUFFICES ASSUME NEW f
               PROVE  IsSkip(f, p, m, len, to) <=>
                        f = [k \in 1 .. (Len(chain) + 1) |->
                               [l \in 0 .. to |->
                                  IF k > Len(chain) THEN [reg |-> NULL, left |-> l]
                                  ELSE IF l >= mem[chain[k]].len
                                       THEN f[k + 1][l - mem[chain[k]].len]
                                  ELSE [reg |-> chain[k], left |-> l]]]
    OBVIOUS
  <2> DEFINE B(k, l) == IF k > m THEN [reg |-> NULL, left |-> l]
                        ELSE IF l >= len THEN f[k + 1][l - len]
                        ELSE [reg |-> p + k - 1, left |-> l]
             D(n, k, l) == IF k > n THEN [reg |-> NULL, left |-> l]
                           ELSE IF l >= mem[chain[k]].len THEN f[k + 1][l - mem[chain[k]].len]
                           ELSE [reg |-> chain[k], left |-> l]
             BF(k) == [l \in 0 .. to |-> B(k, l)]
             DF(n, k) == [l \in 0 .. to |-> D(n, k, l)]
             Whole(n) == [k \in 1 .. (n + 1) |-> DF(n, k)]
  <2>1. ASSUME NEW k \in 1 .. (m + 1), NEW l \in 0 .. to PROVE B(k, l) = D(m, k, l)
    <3>1. k > m \/ k \in 1 .. m
      OBVIOUS
    <3> QED BY <1>4, <3>1
  <2> HIDE DEF B, D
  <2>2. \A k \in 1 .. (m + 1) : BF(k) = DF(m, k)
    BY <2>1
  <2> HIDE DEF BF, DF
  <2>3. [k \in 1 .. (m + 1) |-> BF(k)] = Whole(m)
    BY <2>2
  <2>4. IsSkip(f, p, m, len, to) <=> f = [k \in 1 .. (m + 1) |-> BF(k)]
    BY Zenon DEF IsSkip, BF, B
  <2> HIDE DEF Whole
  <2>5. Whole(Len(chain)) = Whole(m)
    BY <1>3
  <2>6. IsSkip(f, p, m, len, to) <=> f = Whole(Len(chain))
    BY <2>3, <2>4, <2>5
  <2> QED BY <2>6, Zenon DEF Whole, DF, D
<1>6. SkipRegions(a, p, to) = s[1][to]
  <2> DEFINE t == CHOOSE f : f = [k \in 1 .. (Len(chain) + 1) |->
                     [l \in 0 .. to |->
                        IF k > Len(chain) THEN [reg |-> NULL, left |-> l]
                        ELSE IF l >= mem[chain[k]].len THEN f[k + 1][l - mem[chain[k]].len]
                        ELSE [reg |-> chain[k], left |-> l]]]
  <2>1. SkipRegions(a, p, to) = t[1][to]
    BY DEF SkipRegions, mem, chain
  <2>2. s = t
    BY <1>5
  <2> QED BY <2>1, <2>2
<1>7. IsSkip(s, p, m, len, to)
  BY <1>1, SkipExists
<1> HIDE DEF s
<1>8. \A k \in 1 .. m : \A l \in 0 .. to :
         s[k][l] = IF l >= len THEN s[k + 1][l - len] ELSE [reg |-> p + k - 1, left |-> l]
  <2> SUFFICES ASSUME NEW k \in 1 .. m, NEW l \in 0 .. to
               PROVE  s[k][l] = IF l >= len THEN s[k + 1][l - len]
                                ELSE [reg |-> p + k - 1, left |-> l]
    OBVIOUS
  <2> DEFINE B(x, y) == IF x > m THEN [reg |-> NULL, left |-> y]
                        ELSE IF y >= len THEN s[x + 1][y - len]
                        ELSE [reg |-> p + x - 1, left |-> y]
             BF(x) == [y \in 0 .. to |-> B(x, y)]
  <2>1. s = [x \in 1 .. (m + 1) |-> BF(x)]
    BY <1>7 DEF IsSkip
  <2> HIDE DEF BF
  <2>2. s[k] = BF(k)
    BY <2>1, k \in 1 .. (m + 1)
  <2>3. BF(k)[l] = B(k, l)
    <3> HIDE DEF B
    <3> QED BY DEF BF
  <2>4. ~(k > m)
    OBVIOUS
  <2> QED BY <2>2, <2>3, <2>4
<1> DEFINE l(d) == d * len + r
           S == {d \in 0 .. j : s[j + 1 - d][l(d)] = [reg |-> p + j, left |-> r]}
<1>9. \A d \in 0 .. j : l(d) \in 0 .. to
  <2> SUFFICES ASSUME NEW d \in 0 .. j PROVE l(d) \in 0 .. to
    OBVIOUS
  <2>1. \A x, y \in Nat : x * y \in Nat
    OBVIOUS
  <2>2. d * len \in Nat /\ (j - d) * len \in Nat
    BY <2>1
  <2>3. j * len = d * len + (j - d) * len
    OBVIOUS
  <2> QED BY <2>2, <2>3 DEF to
<1>10. 0 \in S
  <2>1. l(0) = r /\ j + 1 - 0 = j + 1 /\ j + 1 \in 1 .. m /\ ~(r >= len) /\ p + (j + 1) - 1 = p + j
    OBVIOUS
  <2>2. r \in 0 .. to
    BY <1>9, <2>1, 0 \in 0 .. j
  <2>3. s[j + 1][r] = [reg |-> p + j, left |-> r]
    BY <1>8, <2>1, <2>2
  <2> QED BY <2>1, <2>3
<1>11. ASSUME NEW d \in 0 .. (j - 1), d \in S PROVE d + 1 \in S
  <2> DEFINE k == j + 1 - (d + 1)
             x == l(d + 1)
  <2>1. d + 1 \in 0 .. j /\ k \in 1 .. m /\ k + 1 = j + 1 - d
    OBVIOUS
  <2>2. x \in 0 .. to
    BY <1>9, <2>1
  <2>3. x - len = l(d) /\ x >= len
    <3>1. d * len \in Nat
      <4>1. \A y, z \in Nat : y * z \in Nat
        OBVIOUS
      <4> QED BY <4>1
    <3>2. (d + 1) * len = d * len + len
      OBVIOUS
    <3> QED BY <3>1, <3>2
  <2>4. s[j + 1 - d][l(d)] = [reg |-> p + j, left |-> r]
    BY <1>11
  <2> HIDE DEF l, k, x
  <2>5. s[k][x] = s[k + 1][x - len]
    BY <1>8, <2>1, <2>2, <2>3
  <2>6. s[k][x] = [reg |-> p + j, left |-> r]
    BY <2>1, <2>3, <2>4, <2>5
  <2> QED BY <2>1, <2>6 DEF k, x
<1> HIDE DEF S
<1>12. j \in S
  <2>1. \A d \in 0 .. j : d \in S
    BY <1>10, <1>11, BoundedInduction
  <2> QED BY <2>1
<1>13. s[1][to] = [reg |-> p + j, left |-> r]
  <2>1. j + 1 - j = 1 /\ l(j) = to
    BY DEF to
  <2> QED BY <1>12, <2>1 DEF S
<1> QED BY <1>6, <1>13 DEF to

\* The number of the blocks in a row.
LEMMA RowBlocks ==
    ASSUME NEW a, Linked(a.mem), NEW p \in Nat \ {0}, NEW m \in Nat \ {0},
           NEW len \in Nat \ {0}, Row(a.mem, p, m, len)
    PROVE  Len(BlocksFrom(a, p)) = m * len
<1> DEFINE mem == a.mem
           chain == Chain(mem, p)
           At(k) == LET r == mem[chain[k]] IN [n \in 1 .. r.len |-> r.block + n - 1]
           IsBlocks(b, n) == b = [k \in 0 .. n |-> IF k = 0 THEN <<>> ELSE b[k - 1] \o At(k)]
           b == CHOOSE f : IsBlocks(f, m)
           V == Seq(Int)
           step == [kv \in (1 .. m) \X V |-> kv[2] \o At(kv[1])]
<1>1. chain = [k \in 1 .. m |-> p + k - 1]
  BY RowChain
<1>2. Len(chain) = m
  BY <1>1
<1>3. \A k \in 1 .. m : mem[chain[k]].len = len /\ mem[chain[k]].block \in Int
  <2>1. \A k \in 1 .. m : p + k - 1 \in DOMAIN mem /\ mem[p + k - 1].len = len
    BY DEF Row
  <2>2. \A q \in DOMAIN mem : mem[q].block \in Int
    BY LinkedFacts
  <2> HIDE DEF mem, chain
  <2> QED BY <1>1, <2>1, <2>2
<1>4. BlocksFrom(a, p) = b[m]
  <2> DEFINE c(n) == CHOOSE f : IsBlocks(f, n)
  <2>1. BlocksFrom(a, p) = c(Len(chain))[Len(chain)]
    BY Zenon DEF BlocksFrom
  <2> HIDE DEF IsBlocks, chain
  <2>2. c(Len(chain))[Len(chain)] = c(m)[m]
    BY <1>2
  <2> QED BY <2>1, <2>2
<1> HIDE DEF mem, chain
<1>5. \A k \in 1 .. m : At(k) \in V /\ Len(At(k)) = len
  <2> SUFFICES ASSUME NEW k \in 1 .. m PROVE At(k) \in V /\ Len(At(k)) = len
    OBVIOUS
  <2> DEFINE x == mem[chain[k]].block
  <2>1. x \in Int /\ At(k) = [n \in 1 .. len |-> x + n - 1]
    BY <1>3
  <2> HIDE DEF At, x
  <2> QED BY <2>1
<1> HIDE DEF At
<1>6. \A u, v \in V : u \o v \in V /\ Len(u \o v) = Len(u) + Len(v)
  BY ConcatProperties
<1>7. <<>> \in V /\ Len(<<>>) = 0 /\ \A v \in V : Len(v) \in Nat
  OBVIOUS
<1>8. \A k \in 1 .. m : \A v \in V : step[<<k, v>>] = v \o At(k)
  OBVIOUS
<1> HIDE DEF step, V
<1>9. IsStep(step, m, V)
  BY <1>5, <1>6, <1>8 DEF IsStep
<1>10. PICK f \in [0 .. m -> V] : BuiltBy(f, m, <<>>, step)
  BY <1>7, <1>9, Recursion
<1>11. \A k \in 1 .. m : f[k] = f[k - 1] \o At(k)
  <2> SUFFICES ASSUME NEW k \in 1 .. m PROVE f[k] = f[k - 1] \o At(k)
    OBVIOUS
  <2>1. k - 1 \in 0 .. m
    OBVIOUS
  <2> QED BY <1>8, <1>10, <2>1 DEF BuiltBy
<1>12. f[0] = <<>>
  BY <1>10 DEF BuiltBy
<1>13. IsBlocks(f, m)
  <2> DEFINE g == [k \in 0 .. m |-> IF k = 0 THEN <<>> ELSE f[k - 1] \o At(k)]
  <2>1. g = [k \in 0 .. m |-> g[k]]
    OBVIOUS
  <2>2. \A k \in 0 .. m : g[k] = IF k = 0 THEN <<>> ELSE f[k - 1] \o At(k)
    OBVIOUS
  <2> HIDE DEF g
  <2>3. ASSUME NEW k \in 0 .. m PROVE f[k] = g[k]
    <3>1. CASE k = 0
      BY <1>12, <2>2, <3>1
    <3>2. CASE k # 0
      <4>1. k \in 1 .. m
        BY <3>2
      <4>2. f[k] = f[k - 1] \o At(k)
        BY <1>11, <4>1
      <4>3. g[k] = f[k - 1] \o At(k)
        BY <2>2, <3>2
      <4> QED BY <4>2, <4>3
    <3> QED BY <3>1, <3>2
  <2>4. f = g
    BY <1>10, <2>1, <2>3
  <2> QED BY <2>4 DEF g
<1>14. IsBlocks(b, m)
  BY <1>13
<1> HIDE DEF b
<1>15. b[0] = <<>> /\ \A k \in 1 .. m : b[k] = b[k - 1] \o At(k)
  <2>1. \A k \in 0 .. m : b[k] = IF k = 0 THEN <<>> ELSE b[k - 1] \o At(k)
    BY <1>14
  <2>2. 0 \in 0 .. m /\ \A k \in 1 .. m : k \in 0 .. m /\ k # 0
    OBVIOUS
  <2> QED BY <2>1, <2>2
<1> HIDE DEF IsBlocks
<1> DEFINE S == {k \in 0 .. m : b[k] \in V /\ Len(b[k]) = k * len}
<1>16. 0 \in S
  <2>1. 0 * len = 0
    OBVIOUS
  <2> QED BY <1>7, <1>15, <2>1
<1>17. ASSUME NEW k \in 0 .. (m - 1), k \in S PROVE k + 1 \in S
  <2>1. k + 1 \in 1 .. m /\ k + 1 - 1 = k /\ (k + 1) * len = k * len + len
    OBVIOUS
  <2>2. b[k] \in V /\ Len(b[k]) = k * len
    BY <1>17
  <2>3. b[k + 1] = b[k] \o At(k + 1) /\ At(k + 1) \in V /\ Len(At(k + 1)) = len
    <3> DEFINE n == k + 1
    <3>1. n \in 1 .. m /\ n - 1 = k
      BY <2>1
    <3> HIDE DEF n
    <3>2. b[n] = b[n - 1] \o At(n) /\ At(n) \in V /\ Len(At(n)) = len
      BY <1>5, <1>15, <3>1
    <3> QED BY <3>1, <3>2 DEF n
  <2>4. b[k + 1] \in V /\ Len(b[k + 1]) = Len(b[k]) + len
    BY <1>6, <2>2, <2>3
  <2>5. Len(b[k + 1]) = (k + 1) * len
    BY <2>1, <2>2, <2>4
  <2> QED BY <2>1, <2>4, <2>5
<1> HIDE DEF S
<1>18. m \in S
  <2>1. \A k \in 0 .. m : k \in S
    BY <1>16, <1>17, BoundedInduction
  <2> QED BY <2>1
<1> QED BY <1>4, <1>18 DEF S

-----------------------------------------------------------------------------
(* The options                                                             *)

Options == [len : Nat, block_size : Nat \ {0}, blocks_per_group : Nat \ {0},
            inodes : Nat, inode_size : Nat]

\* What a group without and with a copy of the superblock begins with.
Headers(aux) == {2 + aux.inode_table_blocks,
                 2 + aux.inode_table_blocks + super_blocks(aux)}

MinBlockSize == 1024
MaxBlockSize == 16384

\* Blocks have 1K to 16K, there is one for the groups, and a full group holds its
\* header; the number of its blocks is a u32.
Sensible(aux) ==
    /\ info \in Options /\ info.block_size \in MinBlockSize .. MaxBlockSize
    /\ U32 \in Nat /\ info.blocks_per_group < U32
    /\ aux.first_data_block < aux.len_blocks
    /\ \A h \in Headers(aux) : h <= info.blocks_per_group - aux.first_data_block

LEMMA SensibleFacts ==
    ASSUME NEW aux, Sensible(aux)
    PROVE  /\ info.len \in Nat /\ info.inodes \in Nat /\ info.inode_size \in Nat
           /\ info.blocks_per_group \in Nat \ {0}
           /\ info.block_size \in Nat \ {0}
           /\ info.block_size >= MinBlockSize /\ info.block_size <= MaxBlockSize
           /\ U32 \in Nat /\ info.blocks_per_group < U32
           /\ aux.first_data_block < aux.len_blocks
           /\ 2 + aux.inode_table_blocks <= info.blocks_per_group - aux.first_data_block
           /\ 2 + aux.inode_table_blocks + super_blocks(aux)
                  <= info.blocks_per_group - aux.first_data_block
<1>1. \A o \in Options : /\ o.len \in Nat /\ o.inodes \in Nat /\ o.inode_size \in Nat
                         /\ o.blocks_per_group \in Nat \ {0} /\ o.block_size \in Nat \ {0}
  BY DEF Options
<1>2. \A s \in MinBlockSize .. MaxBlockSize : s >= MinBlockSize /\ s <= MaxBlockSize
  BY DEF MinBlockSize, MaxBlockSize
<1>3. /\ 2 + aux.inode_table_blocks \in Headers(aux)
      /\ 2 + aux.inode_table_blocks + super_blocks(aux) \in Headers(aux)
  BY DEF Headers
<1>4. /\ info \in Options /\ info.block_size \in MinBlockSize .. MaxBlockSize
      /\ U32 \in Nat /\ info.blocks_per_group < U32
      /\ aux.first_data_block < aux.len_blocks
      /\ \A h \in Headers(aux) : h <= info.blocks_per_group - aux.first_data_block
  BY Zenon DEF Sensible
<1>5. /\ info.len \in Nat /\ info.inodes \in Nat /\ info.inode_size \in Nat
      /\ info.blocks_per_group \in Nat \ {0} /\ info.block_size \in Nat \ {0}
  BY <1>1, <1>4, Zenon
<1>6. info.block_size >= MinBlockSize /\ info.block_size <= MaxBlockSize
  BY <1>2, <1>4, Zenon
<1>7. /\ 2 + aux.inode_table_blocks <= info.blocks_per_group - aux.first_data_block
      /\ 2 + aux.inode_table_blocks + super_blocks(aux)
             <= info.blocks_per_group - aux.first_data_block
  BY <1>3, <1>4, Zenon
<1> QED BY <1>4, <1>5, <1>6, <1>7, Zenon

-----------------------------------------------------------------------------
(* Arithmetic                                                              *)

\* A number of things in containers that hold b each.
LEMMA RoundedUp ==
    ASSUME NEW q \in Nat, NEW b \in Nat \ {0}, NEW r \in 0 .. (b - 1)
    PROVE  DIV_ROUND_UP(q * b + r, b) = IF r = 0 THEN q ELSE q + 1
<1>1. CASE r = 0
  <2>1. q * b + r + b - 1 = q * b + (b - 1) /\ b - 1 \in 0 .. (b - 1)
    BY <1>1
  <2>2. (q * b + (b - 1)) \div b = q
    BY <2>1, UniqueDivision
  <2> QED BY <1>1, <2>1, <2>2 DEF DIV_ROUND_UP
<1>2. CASE r # 0
  <2>1. q * b + r + b - 1 = (q + 1) * b + (r - 1) /\ r - 1 \in 0 .. (b - 1) /\ q + 1 \in Int
    BY <1>2
  <2>2. ((q + 1) * b + (r - 1)) \div b = q + 1
    BY <2>1, UniqueDivision
  <2> QED BY <1>2, <2>1, <2>2 DEF DIV_ROUND_UP
<1> QED BY <1>1, <1>2

LEMMA RoundedUpIsNat ==
    ASSUME NEW n \in Nat, NEW b \in Nat \ {0}
    PROVE  /\ DIV_ROUND_UP(n, b) \in Nat
           /\ n > 0 => DIV_ROUND_UP(n, b) > 0
<1> DEFINE q == n \div b
           r == n % b
<1>1. q \in Int /\ r \in 0 .. (b - 1) /\ n = q * b + r
  BY QuotientAndRest
<1>2. q \in Nat
  BY SMT
<1> HIDE DEF q, r
<1>3. DIV_ROUND_UP(n, b) = IF r = 0 THEN q ELSE q + 1
  BY <1>1, <1>2, RoundedUp
<1>4. n > 0 => r # 0 \/ q > 0
  BY <1>1, <1>2
<1> QED BY <1>2, <1>3, <1>4

LEMMA RoundedUpBounds ==
    ASSUME NEW n \in Nat, NEW b \in Nat \ {0}
    PROVE  n <= DIV_ROUND_UP(n, b) * b /\ DIV_ROUND_UP(n, b) * b < n + b
<1> DEFINE a == n + b - 1
           q == a \div b
           r == a % b
<1>1. a \in Int
  OBVIOUS
<1>2. q \in Int /\ r \in 0 .. (b - 1) /\ a = q * b + r
  BY <1>1, QuotientAndRest
<1>3. DIV_ROUND_UP(n, b) = q
  BY DEF DIV_ROUND_UP
<1>4. a = n + b - 1
  OBVIOUS
<1> HIDE DEF a, q, r
<1>5. q * b \in Int
  BY <1>2
<1> DEFINE x == q * b
<1> HIDE DEF x
<1>6. n <= x /\ x < n + b
  BY <1>2, <1>4, <1>5 DEF x
<1> QED BY <1>3, <1>6 DEF x

\* Groups of b blocks from block f on, of which the last is dropped when it is
\* too short for a header of h blocks.  The length of the last group is taken
\* modulo b from the length of all blocks, f included.  The first group holds one.
LEMMA LastGroup ==
    ASSUME NEW f \in {0, 1}, NEW b \in Nat \ {0}, NEW l \in Nat, f < l,
           NEW h \in Int, h <= b - f, f = 0 \/ b > 1, f + h <= l,
           f = 1 => l % b \notin {1, h},
           NEW g, g = DIV_ROUND_UP(l - f, b),
           NEW n, NEW m,
           IF l % b > 0 /\ l % b < h THEN n = g - 1 /\ m = l - (l % b) ELSE n = g /\ m = l
    PROVE  /\ n \in Nat \ {0} /\ m \in Nat
           /\ f + (n - 1) * b <= m /\ m <= f + n * b
           /\ n = g => f + (n - 1) * b + h <= m
           /\ n = g - 1 => f + n * b <= m + f
<1> DEFINE x == l - f
           q == x \div b
           r == x % b
<1>1. x \in Int /\ x = l - f /\ b \in Nat \ {0} /\ f \in Nat
  OBVIOUS
<1> HIDE DEF x
<1>2. q \in Int /\ r \in 0 .. (b - 1) /\ x = q * b + r
  BY <1>1, QuotientAndRest
<1> HIDE DEF q, r
<1>3. q >= 0
  <2>1. \A k \in Int : k <= 0 => k * b + b <= b
    <3> SUFFICES ASSUME NEW k \in Int, k <= 0 PROVE k * b + b <= b
      OBVIOUS
    <3>1. (0 - k) \in Nat /\ \A u, v \in Nat : u * v \in Nat
      OBVIOUS
    <3>2. (0 - k) * b \in Nat
      BY <3>1
    <3>3. k * b = 0 - ((0 - k) * b)
      BY <3>1
    <3> QED BY <3>2, <3>3
  <2>2. q * b \in Int /\ (q + 1) * b = q * b + b /\ q + 1 \in Int
    BY <1>2
  <2>3. q * b + r > 0
    BY <1>1, <1>2
  <2>4. q + 1 <= 0 => q * b + b + b <= b
    BY <2>1, <2>2
  <2> QED BY <1>2, <2>2, <2>3, <2>4
<1>4. g = IF r = 0 THEN q ELSE q + 1
  <2>1. q \in Nat /\ g = DIV_ROUND_UP(q * b + r, b)
    BY <1>2, <1>3 DEF x
  <2> QED BY <1>2, <2>1, RoundedUp
<1>5. /\ q * b \in Int /\ (q - 1) * b = q * b - b /\ (q + 1) * b = q * b + b
      /\ l = q * b + r + f /\ (q + 1 - 1) * b = q * b
  BY <1>1, <1>2
<1>6. r + f < b => l % b = r + f
  <2> SUFFICES ASSUME r + f < b PROVE l % b = r + f
    OBVIOUS
  <2>1. r + f \in 0 .. (b - 1) /\ l = q * b + (r + f)
    BY <1>2, <1>5
  <2> QED BY <1>2, <2>1, UniqueDivision
<1>7. r + f = b => l % b = 0
  <2> SUFFICES ASSUME r + f = b PROVE l % b = 0
    OBVIOUS
  <2>1. l = (q + 1) * b + 0 /\ q + 1 \in Int /\ 0 \in 0 .. (b - 1)
    BY <1>2, <1>5
  <2> QED BY <2>1, UniqueDivision
<1> DEFINE p == q * b
           s == l % b
<1>8. /\ (r + f < b => s = r + f) /\ (r + f = b => s = 0) /\ r + f <= b
      /\ p \in Int /\ (q - 1) * b = p - b /\ (q + 1) * b = p + b /\ q * b = p
      /\ (q + 1 - 1) * b = p /\ l = p + r + f
      /\ IF s > 0 /\ s < h THEN n = g - 1 /\ m = l - s ELSE n = g /\ m = l
      /\ f = 1 => s \notin {1, h}
      /\ q = 0 => p = 0
  <2>1. q = 0 => q * b = 0
    OBVIOUS
  <2> QED BY <1>2, <1>5, <1>6, <1>7, <2>1
<1> HIDE DEF p, s
<1>9. CASE r = 0
  <2>0. q >= 1
    BY <1>1, <1>2, <1>3, <1>8, <1>9
  <2>1. g = q
    BY <1>4, <1>9
  <2>2. f = 0
    BY <1>8, <1>9
  <2>3. n = q /\ m = p
    BY <1>8, <1>9, <2>1, <2>2
  <2> QED BY <1>2, <1>8, <2>0, <2>1, <2>2, <2>3
<1>10. CASE r # 0
  <2>1. g = q + 1
    BY <1>4, <1>10
  <2>2. CASE s > 0 /\ s < h
    <3>1. n = q /\ r + f < b /\ m = p
      BY <1>2, <1>8, <2>1, <2>2
    <3>2. q # 0
      <4> SUFFICES ASSUME q = 0 PROVE FALSE
        OBVIOUS
      <4>1. s = r + f /\ l = r + f /\ s < h
        BY <1>2, <1>8, <2>2, <3>1
      <4> QED BY <1>2, <4>1
    <3> QED BY <1>2, <1>3, <1>8, <2>1, <3>1, <3>2
  <2>3. CASE ~(s > 0 /\ s < h)
    <3>1. n = q + 1 /\ m = p + r + f
      BY <1>2, <1>8, <2>1, <2>3
    <3>2. h <= r
      <4>1. CASE r + f < b
        BY <1>2, <1>8, <1>10, <2>3, <4>1
      <4>2. CASE r + f = b
        BY <1>2, <1>8, <4>2
      <4> QED BY <1>2, <1>8, <4>1, <4>2
    <3>3. (n - 1) * b = p /\ n * b = p + b
      <4>1. n - 1 = q
        BY <1>2, <3>1
      <4> QED BY <1>8, <3>1, <4>1
    <3> QED BY <1>2, <1>3, <1>8, <2>1, <3>1, <3>2, <3>3
  <2> QED BY <2>2, <2>3
<1> QED BY <1>9, <1>10

-----------------------------------------------------------------------------
(* The parameters                                                          *)

\* The number of the header blocks of group g, before the last group is looked
\* at and after.
HeaderOf(aux, g) == 2 + aux.inode_table_blocks
                      + IF ext4_bg_has_super_block(g) THEN super_blocks(aux) ELSE 0

LEMMA FirstParameters ==
    ASSUME NEW aux, aux = FirstAuxInfo, Sensible(aux)
    PROVE  /\ aux.first_data_block = IF info.block_size > 1024 THEN 0 ELSE 1
           /\ aux.len_blocks \in Nat
           /\ aux.groups = DIV_ROUND_UP(aux.len_blocks - aux.first_data_block, info.blocks_per_group)
           /\ aux.groups \in Nat \ {0}
           /\ aux.inode_table_blocks \in Nat /\ super_blocks(aux) \in Int
           /\ aux.bg_desc_blocks \in Nat /\ aux.bg_desc_reserve_blocks \in Nat \ {0}
<1> DEFINE bs == info.block_size
           b == info.blocks_per_group
           f == aux.first_data_block
           l == aux.len_blocks
           g == aux.groups
<1>1. bs \in Nat \ {0} /\ b \in Nat \ {0} /\ info.len \in Nat /\ info.inodes \in Nat
      /\ info.inode_size \in Nat /\ f < l /\ bs >= 1024 /\ bs <= 16384
  BY SensibleFacts DEF MinBlockSize, MaxBlockSize
<1>2. /\ f = IF bs > 1024 THEN 0 ELSE 1
      /\ l = info.len \div bs
      /\ g = DIV_ROUND_UP(l - f, b)
      /\ aux.inode_table_blocks = DIV_ROUND_UP(compute_inodes_per_group * info.inode_size, bs)
      /\ aux.bg_desc_blocks = DIV_ROUND_UP(g * GroupDesc, bs)
      /\ aux.bg_desc_reserve_blocks =
            AtMost(DIV_ROUND_UP(g * 1024 * GroupDesc, bs) - DIV_ROUND_UP(g * GroupDesc, bs),
                   bs \div 4)
  BY DEF FirstAuxInfo
<1> HIDE DEF bs, b, f, l, g
<1>3. f \in Nat /\ l \in Nat /\ l - f \in Nat /\ info.len > 0
  <2>1. l \in Int
    BY <1>1, <1>2
  <2>2. f \in Nat /\ l \in Nat /\ l - f \in Nat /\ l > 0
    BY <1>1, <1>2, <2>1
  <2>3. 0 \div bs = 0
    <3>1. (0 * bs + 0) \div bs = 0 /\ 0 * bs + 0 = 0
      BY <1>1, UniqueDivision
    <3> QED BY <3>1
  <2>4. info.len # 0
    BY <1>2, <2>2, <2>3
  <2> QED BY <1>1, <2>2, <2>4
<1>4. g \in Nat /\ g > 0
  BY <1>1, <1>2, <1>3, RoundedUpIsNat
<1>5. compute_inodes_per_group \in Nat
  <2> DEFINE blocks == DIV_ROUND_UP(info.len, bs)
             groups == DIV_ROUND_UP(blocks, b)
  <2>1. blocks \in Nat /\ blocks > 0
    BY <1>1, <1>3, RoundedUpIsNat
  <2> HIDE DEF blocks
  <2>2. groups \in Nat /\ groups > 0
    BY <1>1, <2>1, RoundedUpIsNat
  <2> HIDE DEF groups
  <2>3. DIV_ROUND_UP(info.inodes, groups) \in Nat
    BY <1>1, <2>2, RoundedUpIsNat
  <2> QED BY <2>3 DEF compute_inodes_per_group, groups, blocks, bs, b
<1>6. \A u, v \in Nat : u * v \in Nat
  OBVIOUS
<1>7. /\ compute_inodes_per_group * info.inode_size \in Nat
      /\ g * GroupDesc \in Nat /\ g * 1024 * GroupDesc \in Nat
  BY <1>1, <1>4, <1>5, <1>6 DEF GroupDesc
<1>8. /\ DIV_ROUND_UP(compute_inodes_per_group * info.inode_size, bs) \in Nat
      /\ DIV_ROUND_UP(g * GroupDesc, bs) \in Nat /\ DIV_ROUND_UP(g * 1024 * GroupDesc, bs) \in Nat
  BY <1>1, <1>7, RoundedUpIsNat
<1>9. bs \div 4 \in Nat /\ bs \div 4 > 0
  <2> DEFINE q == bs \div 4
             r == bs % 4
  <2>1. q \in Int /\ r \in 0 .. 3 /\ bs = q * 4 + r
    BY <1>1
  <2> HIDE DEF q, r
  <2>2. q > 0
    BY <1>1, <2>1
  <2> QED BY <2>1, <2>2 DEF q
<1>10. aux.inode_table_blocks \in Nat /\ aux.bg_desc_blocks \in Nat
       /\ aux.bg_desc_reserve_blocks \in Nat \ {0}
  <2> DEFINE u == g * GroupDesc
             d == DIV_ROUND_UP(u, bs)
             e == DIV_ROUND_UP(g * 1024 * GroupDesc, bs)
  <2>1. u \in Nat /\ u >= 32 /\ g * 1024 * GroupDesc = 1024 * u
    BY <1>4 DEF GroupDesc
  <2>2. d \in Nat /\ e \in Nat
    BY <1>8
  <2>3. u <= d * bs /\ d * bs < u + bs /\ 1024 * u <= e * bs
    <3> DEFINE w == g * 1024 * GroupDesc
    <3>1. w \in Nat /\ w = 1024 * u
      BY <2>1
    <3> HIDE DEF u, w
    <3>2. \A x \in Nat : /\ x <= DIV_ROUND_UP(x, bs) * bs
                         /\ DIV_ROUND_UP(x, bs) * bs < x + bs
      <4>1. bs \in Nat \ {0}
        BY <1>1
      <4> QED BY <4>1, RoundedUpBounds, Zenon
    <3>3. u <= d * bs /\ d * bs < u + bs /\ w <= e * bs
      <4>1. u \in Nat /\ w \in Nat
        BY <2>1, <3>1
      <4> HIDE DEF bs
      <4> QED BY <3>2, <4>1 DEF d, e, w
    <3> QED BY <3>1, <3>3
  <2> HIDE DEF u, d, e
  <2>4. d < e
    <3> SUFFICES ASSUME e <= d PROVE FALSE
      BY <2>2
    <3>1. e * bs <= d * bs
      <4>1. e < d => e * bs + bs <= d * bs
        BY <1>1, <2>2, Multiples
      <4>2. e * bs \in Int /\ d * bs \in Int
        BY <1>1, <2>2
      <4>3. e = d \/ e < d
        BY <2>2
      <4> QED BY <1>1, <4>1, <4>2, <4>3
    <3>2. e * bs \in Int /\ d * bs \in Int
      BY <1>1, <2>2
    <3> DEFINE x == e * bs
               y == d * bs
    <3> HIDE DEF x, y
    <3> QED BY <1>1, <2>1, <2>3, <3>1, <3>2 DEF x, y
  <2>5. e - d \in Nat \ {0}
    BY <2>2, <2>4
  <2>6. aux.bg_desc_reserve_blocks = AtMost(e - d, bs \div 4)
    BY <1>2 DEF e, d, u
  <2> QED BY <1>2, <1>8, <1>9, <2>5, <2>6 DEF AtMost
<1>11. super_blocks(aux) \in Int
  BY <1>10 DEF super_blocks
<1> QED BY <1>2, <1>3, <1>4, <1>10, <1>11 DEF bs, b, f, l, g

\* The last group is dropped or not; nothing else changes.
LEMMA LastParameters ==
    ASSUME NEW aux, aux = FirstAuxInfo, NEW last, last = DropLastGroup(aux)
    PROVE  /\ last.first_data_block = aux.first_data_block
           /\ last.inode_table_blocks = aux.inode_table_blocks
           /\ last.bg_desc_blocks = aux.bg_desc_blocks
           /\ last.bg_desc_reserve_blocks = aux.bg_desc_reserve_blocks
           /\ super_blocks(last) = super_blocks(aux)
           /\ LET size == aux.len_blocks % info.blocks_per_group
              IN  IF size > 0 /\ size < HeaderOf(aux, aux.groups - 1)
                  THEN last.groups = aux.groups - 1 /\ last.len_blocks = aux.len_blocks - size
                  ELSE last.groups = aux.groups /\ last.len_blocks = aux.len_blocks
<1> DEFINE size == aux.len_blocks % info.blocks_per_group
           h == HeaderOf(aux, aux.groups - 1)
<1>1. last = IF size > 0 /\ size < h
             THEN [aux EXCEPT !.groups = @ - 1, !.len_blocks = @ - size] ELSE aux
  BY DEF DropLastGroup, HeaderOf
<1> HIDE DEF size, h
<1>2. aux = [first_data_block |-> aux.first_data_block, len_blocks |-> aux.len_blocks,
             groups |-> aux.groups, inode_table_blocks |-> aux.inode_table_blocks,
             bg_desc_blocks |-> aux.bg_desc_blocks,
             bg_desc_reserve_blocks |-> aux.bg_desc_reserve_blocks]
  BY DEF FirstAuxInfo
<1>3. /\ last.first_data_block = aux.first_data_block
      /\ last.inode_table_blocks = aux.inode_table_blocks
      /\ last.bg_desc_blocks = aux.bg_desc_blocks
      /\ last.bg_desc_reserve_blocks = aux.bg_desc_reserve_blocks
      /\ IF size > 0 /\ size < h
         THEN last.groups = aux.groups - 1 /\ last.len_blocks = aux.len_blocks - size
         ELSE last.groups = aux.groups /\ last.len_blocks = aux.len_blocks
  <2>1. CASE size > 0 /\ size < h
    <3>1. last = [aux EXCEPT !.groups = @ - 1, !.len_blocks = @ - size]
      BY <1>1, <2>1
    <3> QED BY <1>2, <2>1, <3>1
  <2>2. CASE ~(size > 0 /\ size < h)
    BY <1>1, <2>2
  <2> QED BY <2>1, <2>2
<1> QED BY <1>3 DEF super_blocks, size, h

-----------------------------------------------------------------------------
(* The groups                                                              *)

\* Once computed, the parameters stay.
ParametersKept == pc # "aux_info" => aux_info = DropLastGroup(FirstAuxInfo)

LEMMA GroupsFit ==
    ASSUME ParametersKept, Sensible(FirstAuxInfo)
    PROVE  GeometryHolds
<1> SUFFICES ASSUME pc # "aux_info", ~LastGroupMisjudged, ~TooShort
             PROVE  /\ aux_info.groups > 0
                    /\ \A g \in 0 .. (aux_info.groups - 2) : GroupBlocks(g) \subseteq Device
                    /\ first_block(aux_info.groups - 1) + header_blocks(aux_info.groups - 1)
                           <= aux_info.len_blocks
                    /\ aux_info.len_blocks <= first_block(aux_info.groups)
  BY DEF GeometryHolds
<1> DEFINE aux == FirstAuxInfo
           f == aux.first_data_block
           b == info.blocks_per_group
           l == aux.len_blocks
           h == HeaderOf(aux, aux.groups - 1)
           n == aux_info.groups
           m == aux_info.len_blocks
           k == header_blocks(n - 1)
<1>1. /\ b \in Nat \ {0} /\ info.block_size \in Nat /\ info.block_size >= 1024
      /\ f < l
      /\ 2 + aux.inode_table_blocks <= b - f
      /\ 2 + aux.inode_table_blocks + super_blocks(aux) <= b - f
  BY SensibleFacts DEF MinBlockSize, MaxBlockSize
<1>2. /\ f = IF info.block_size > 1024 THEN 0 ELSE 1
      /\ l \in Nat /\ aux.groups = DIV_ROUND_UP(l - f, b)
      /\ aux.inode_table_blocks \in Nat /\ super_blocks(aux) \in Int
  BY FirstParameters
<1>3. /\ aux_info.first_data_block = f
      /\ aux_info.inode_table_blocks = aux.inode_table_blocks
      /\ super_blocks(aux_info) = super_blocks(aux)
      /\ IF l % b > 0 /\ l % b < h
         THEN n = aux.groups - 1 /\ m = l - (l % b) ELSE n = aux.groups /\ m = l
  BY LastParameters DEF ParametersKept
<1>4. \A g : header_blocks(g) = HeaderOf(aux, g)
  BY <1>3 DEF header_blocks, HeaderOf
<1>5. f = 1 => l % b \notin {1, h}
  <2> SUFFICES ASSUME f = 1 PROVE l % b \notin {1, h}
    OBVIOUS
  <2>1. info.block_size = 1024
    BY <1>1, <1>2
  <2> QED BY <1>4, <2>1 DEF LastGroupMisjudged
<1>last. h = header_blocks(aux.groups - 1)
  BY <1>4
<1>room. header_blocks(0) \in Int /\ ~(l < f + header_blocks(0))
  <2>1. header_blocks(0) = HeaderOf(aux, 0)
    BY <1>4
  <2>2. HeaderOf(aux, 0) \in Int
    BY <1>2 DEF HeaderOf
  <2> QED BY <2>1, <2>2 DEF TooShort
<1> HIDE DEF aux, f, b, l, n, m, h, k
<1>only. l - f <= b => h = header_blocks(0)
  <2> SUFFICES ASSUME l - f <= b PROVE aux.groups = 1
    BY <1>last
  <2> DEFINE x == l - f
  <2>1. x \in Nat \ {0} /\ x <= b
    BY <1>1, <1>2
  <2>0. aux.groups = DIV_ROUND_UP(x, b)
    BY <1>2, Zenon
  <2> HIDE DEF x
  <2>2. CASE x = b
    <3>1. 1 * b + 0 = b /\ 0 \in 0 .. (b - 1)
      BY <1>1
    <3>2. DIV_ROUND_UP(1 * b + 0, b) = 1
      BY <1>1, <3>1, RoundedUp
    <3> QED BY <2>0, <2>2, <3>1, <3>2
  <2>3. CASE x < b
    <3>1. 0 * b + x = x /\ x \in 0 .. (b - 1) /\ x # 0
      BY <1>1, <2>1, <2>3
    <3>2. DIV_ROUND_UP(0 * b + x, b) = 0 + 1
      <4>1. 0 \in Nat /\ b \in Nat \ {0} /\ x \in 0 .. (b - 1) /\ x # 0
        BY <1>1, <3>1
      <4> QED BY <4>1, RoundedUp, Zenon
    <3> QED BY <2>0, <3>1, <3>2
  <2> QED BY <1>1, <2>0, <2>1, <2>2, <2>3
<1>6. /\ h \in Int /\ h <= b - f /\ f \in {0, 1} /\ (f = 0 \/ b > 1)
      /\ k \in Int /\ k <= b - f
  <2>1. \A g : HeaderOf(aux, g) \in {2 + aux.inode_table_blocks,
                                     2 + aux.inode_table_blocks + super_blocks(aux)}
    BY <1>2 DEF HeaderOf
  <2>2. h \in Int /\ h <= b - f /\ k \in Int /\ k <= b - f
    BY <1>1, <1>2, <1>4, <2>1 DEF h, k
  <2>3. f \in {0, 1} /\ (f = 0 \/ b > 1)
    BY <1>1, <1>2
  <2> QED BY <2>2, <2>3
<1>fits. f + h <= l
  <2>1. CASE l - f <= b
    BY <1>only, <1>room, <1>1, <1>2, <1>6, <2>1
  <2>2. CASE l - f > b
    BY <1>1, <1>2, <1>6, <2>2
  <2> QED BY <1>1, <1>2, <1>6, <2>1, <2>2
<1> DEFINE g0 == aux.groups
<1>7. g0 = DIV_ROUND_UP(l - f, b)
  BY <1>2
<1>8. n = g0 => k = h
  BY <1>4 DEF k, h
<1>9. IF l % b > 0 /\ l % b < h THEN n = g0 - 1 /\ m = l - (l % b) ELSE n = g0 /\ m = l
  BY <1>3
<1> HIDE DEF g0
<1>10. /\ n \in Nat \ {0} /\ m \in Nat
       /\ f + (n - 1) * b <= m /\ m <= f + n * b
       /\ n = g0 => f + (n - 1) * b + h <= m
       /\ n = g0 - 1 => f + n * b <= m + f
  <2>1. /\ f \in {0, 1} /\ b \in Nat \ {0} /\ l \in Nat /\ f < l /\ f + h <= l
        /\ h \in Int /\ h <= b - f /\ (f = 0 \/ b > 1)
        /\ f = 1 => l % b \notin {1, h}
    BY <1>fits, <1>1, <1>2, <1>5, <1>6
  <2> QED BY <1>7, <1>9, <2>1, LastGroup, ZenonT(90)
<1>11. \A g : first_block(g) = f + g * b
  BY <1>3 DEF first_block, b
<1>12. n * b = (n - 1) * b + b /\ (n - 1) * b \in Int
  BY <1>1, <1>10
<1>13. first_block(n - 1) + k <= m
  <2> DEFINE p == (n - 1) * b
  <2>1. /\ p \in Int /\ n * b = p + b /\ first_block(n - 1) = f + p
        /\ (n = g0 => f + p + h <= m) /\ (n = g0 - 1 => f + n * b <= m + f)
    BY <1>10, <1>11, <1>12
  <2> HIDE DEF p
  <2>2. n = g0 \/ n = g0 - 1
    BY <1>9
  <2> QED BY <1>1, <1>6, <1>8, <1>10, <2>1, <2>2
<1>14. \A g \in 0 .. (n - 2) : GroupBlocks(g) \subseteq Device
  <2> SUFFICES ASSUME NEW g \in 0 .. (n - 2)
               PROVE  GroupBlocks(g) \subseteq Device
    OBVIOUS
  <2> DEFINE p == g * b
             q == (n - 1) * b
  <2>1. g \in Int /\ n - 1 \in Int /\ g < n - 1 /\ g \in Nat
    BY <1>10
  <2>2. p + b <= q
    BY <1>1, <2>1, Multiples
  <2>3. p \in Nat
    <3>1. \A u, v \in Nat : u * v \in Nat
      OBVIOUS
    <3> QED BY <1>1, <2>1, <3>1
  <2>4. q \in Int /\ f + q <= m
    BY <1>10, <1>12
  <2>5. GroupBlocks(g) = (f + p) .. (f + p + b - 1)
    BY <1>11 DEF GroupBlocks, b
  <2>6. Device = 0 .. (m - 1)
    BY DEF Device, m
  <2> HIDE DEF p, q
  <2> QED BY <1>1, <1>6, <1>10, <2>2, <2>3, <2>4, <2>5, <2>6
<1>15. n > 0 /\ m <= first_block(n)
  BY <1>10, <1>11
<1> QED BY <1>13, <1>14, <1>15 DEF n, m, k

LEMMA ParametersStep == ParametersKept /\ [Next]_vars => ParametersKept'
<1> SUFFICES ASSUME ParametersKept, [Next]_vars PROVE ParametersKept'
  OBVIOUS
<1>1. CASE ext4_create_fs_aux_info
  <2>1. aux_info' = DropLastGroup(FirstAuxInfo) /\ info' = info
    BY <1>1 DEF ext4_create_fs_aux_info
  <2>2. DropLastGroup(FirstAuxInfo)' = DropLastGroup(FirstAuxInfo)
    BY <2>1 DEF DropLastGroup, FirstAuxInfo, compute_inodes_per_group, super_blocks
  <2> QED BY <2>1, <2>2 DEF ParametersKept
<1>2. CASE UNCHANGED <<info, aux_info>> /\ (pc # "aux_info" \/ pc' = pc)
  <2>1. DropLastGroup(FirstAuxInfo)' = DropLastGroup(FirstAuxInfo)
    BY <1>2 DEF DropLastGroup, FirstAuxInfo, compute_inodes_per_group, super_blocks
  <2> QED BY <1>2, <2>1 DEF ParametersKept
<1>3. ASSUME init_bg \/ ext4_fill_in_sb \/ append_reserved
      PROVE  UNCHANGED <<info, aux_info>> /\ pc # "aux_info"
  BY <1>3 DEF init_bg, ext4_fill_in_sb, append_reserved, Group
<1>4. ASSUME append_oob_allocation \/ no_oob_block \/ inode_attach_resize \/ finish_resize
      PROVE  UNCHANGED <<info, aux_info>> /\ pc # "aux_info"
  BY <1>4 DEF append_oob_allocation, no_oob_block, inode_attach_resize, finish_resize
<1>5. ASSUME NEW g, allocate_bg_inode_table(g)
      PROVE  UNCHANGED <<info, aux_info>> /\ pc # "aux_info"
  BY <1>5 DEF allocate_bg_inode_table
<1>6. CASE UNCHANGED vars
  BY <1>2, <1>6 DEF vars
<1> QED BY <1>1, <1>2, <1>3, <1>4, <1>5, <1>6 DEF Next

-----------------------------------------------------------------------------
(* The invariant of the layout                                             *)

Bpg    == info.blocks_per_group
Groups == 0 .. (aux_info.groups - 1)

\* How far the loops have come: the groups initialized, those described, and the
\* number of those whose reserve is appended.
Begun == CASE pc = "aux_info" -> {}
           [] pc = "init_bg"  -> 0 .. (i - 1)
           [] OTHER           -> Groups

Described == CASE pc \in {"aux_info", "init_bg"} -> {}
               [] pc = "fill_in_sb"              -> 0 .. (i - 1)
               [] OTHER                          -> Groups

Appended == CASE pc \in {"aux_info", "init_bg", "fill_in_sb"} -> 0
              [] pc = "append"                                -> i
              [] OTHER                                        -> aux_info.groups

Attached == pc \in {"attach", "inodes"}

Loops == {"init_bg", "fill_in_sb", "append"}

Progress ==
    /\ pc \in Loops \cup {"undefined", "oob", "hangs", "attach", "inodes"}
    /\ i \in Nat
    /\ pc \in Loops => i < aux_info.groups
    /\ pc = "oob" => i = 0

\* What init_bg takes of a group: the header, and what lies past the end.
HeaderBits(g) == IF header_blocks(g) <= Bpg THEN 0 .. (header_blocks(g) - 1) ELSE {}

Overrun(g) == (first_block(g) + Bpg - aux_info.len_blocks + U32) % U32

OverBits(g) == IF Overrun(g) <= Bpg - Cardinality(HeaderBits(g))
               THEN (Bpg - Overrun(g)) .. (Bpg - 1) ELSE {}

FirstUsed(g) == HeaderBits(g) \cup OverBits(g)

\* Bit x of group t is the one append_oob_allocation takes.
Taken(t, x) ==
    /\ t \in Groups /\ x \in 0 .. (Bpg - 1) /\ x \notin FirstUsed(t)
    /\ \A g \in Groups : bgs[g].used = FirstUsed(g) \cup IF g = t THEN {x} ELSE {}
    /\ get_oob_block(alloc, 0) = first_block(t) + x

Bitmaps ==
    /\ DOMAIN bgs = Begun
    /\ IF Attached THEN \E t, x \in Int : Taken(t, x)
       ELSE \A g \in Begun : bgs[g] = [first_block |-> first_block(g), used |-> FirstUsed(g)]

\* Where the bitmaps of a group are.
BitmapBlock(g) == first_block(g) + IF ext4_bg_has_super_block(g) THEN super_blocks(aux_info) ELSE 0

Descriptors ==
    /\ DOMAIN bg_desc = Described
    /\ \A g \in Described :
          bg_desc[g] = [bg_block_bitmap |-> BitmapBlock(g),
                        bg_inode_bitmap |-> BitmapBlock(g) + 1,
                        bg_inode_table  |-> BitmapBlock(g) + 2]

Super(g) == Piece("super", first_block(g), 1)
Desc(g)  == Piece("desc", first_block(g) + 1, aux_info.bg_desc_blocks)

\* The groups other than the first that have copies of them.
Copied == {g \in Described : g # 0 /\ ext4_bg_has_super_block(g)}

Queued ==
    /\ tables \subseteq Begun
    /\ pieces = {Super(g) : g \in {0} \cup Copied} \cup {Desc(g) : g \in {0} \cup Copied}
                \cup {Piece("bitmaps", BitmapBlock(g), 2) : g \in Begun}
                \cup {Piece("inodes", BitmapBlock(g) + 2, aux_info.inode_table_blocks) :
                         g \in tables}
                \cup IF Attached
                     THEN {Piece("dind", get_oob_block(alloc, 0), 1),
                           Piece("ind", ReservedBlock(0, 0), Reserve)}
                     ELSE {}

-----------------------------------------------------------------------------
(* The reserve                                                             *)

\* The groups before g with a superblock.
Before(g) == {h \in 0 .. (g - 1) : ext4_bg_has_super_block(h)}

ListOf(p, m) ==
    IF m = 0 THEN EmptyList
    ELSE [first |-> p, last |-> p + m - 1, iter |-> p, partial_iter |-> 0]

\* The allocation has a region for each reserve appended, in the order of the
\* groups.
Regions ==
    LET m == Cardinality(Before(Appended)) IN
    /\ alloc = [mem |-> alloc.mem, list |-> alloc.list, oob_list |-> alloc.oob_list]
    /\ Linked(alloc.mem)
    /\ Len(alloc.mem) = m + IF Attached THEN 1 ELSE 0
    /\ Row(alloc.mem, 1, m, Reserve)
    /\ alloc.list = ListOf(1, m)
    /\ \A k \in 1 .. m : \E g \in 0 .. (Appended - 1) :
          /\ ext4_bg_has_super_block(g) /\ Cardinality(Before(g)) = k - 1
          /\ alloc.mem[k].block = ReservedBlock(g, 0)
    /\ IF Attached THEN alloc.oob_list = ListOf(m + 1, 1) /\ Row(alloc.mem, m + 1, 1, 1)
       ELSE alloc.oob_list = EmptyList

\* The indirect block at place r of the reserve lists the others' blocks there.
Lists(row, r) ==
    /\ row \in Seq(Int) /\ Len(row) = Cardinality(Copies) - 1
    /\ \A j \in DOMAIN row : \E g \in Copies :
          Cardinality(Before(g)) = j /\ row[j] = ReservedBlock(g, r)

Map ==
    IF Attached
    THEN /\ dind \in Seq(Int) /\ Len(dind) = i /\ i <= Reserve
         /\ \A n \in 1 .. i : dind[n] = ReservedBlock(0, ReservePosition(n - 1))
         /\ DOMAIN ind = 0 .. (Reserve - 1)
         /\ \A r \in DOMAIN ind : ind[r] = <<>> \/ Lists(ind[r], r)
         /\ pc = "inodes" => resize.i_blocks = Cardinality(Copies) * Reserve + 1
    ELSE dind = <<>> /\ ind = <<>>

Nothing ==
    /\ bgs = <<>> /\ bg_desc = <<>> /\ pieces = {} /\ tables = {}
    /\ alloc = create_allocation /\ dind = <<>> /\ ind = <<>> /\ i = 0

\* Holds once the parameters are there.
Layout == Progress /\ Bitmaps /\ Descriptors /\ Queued /\ Regions /\ Map

LayoutInv ==
    ParametersKept /\ (Sensible(FirstAuxInfo) => IF pc = "aux_info" THEN Nothing ELSE Layout)

-----------------------------------------------------------------------------
(* Facts                                                                   *)

\* The parameters, once computed.
LEMMA AuxFacts ==
    ASSUME NEW aux, aux = DropLastGroup(FirstAuxInfo), Sensible(FirstAuxInfo)
    PROVE  /\ Bpg \in Nat \ {0} /\ U32 \in Nat /\ Bpg < U32
           /\ aux.first_data_block \in {0, 1}
           /\ aux.inode_table_blocks \in Nat /\ aux.bg_desc_blocks \in Nat
           /\ aux.bg_desc_reserve_blocks \in Nat \ {0}
           /\ super_blocks(aux) = 1 + aux.bg_desc_blocks + aux.bg_desc_reserve_blocks
           /\ aux.groups \in Nat /\ aux.len_blocks \in Int
           /\ 2 + aux.inode_table_blocks <= Bpg
           /\ 2 + aux.inode_table_blocks + super_blocks(aux) <= Bpg
<1> DEFINE first == FirstAuxInfo
           l == first.len_blocks
           b == info.blocks_per_group
<1>1. /\ b \in Nat \ {0} /\ U32 \in Nat /\ b < U32
      /\ 2 + first.inode_table_blocks <= b - first.first_data_block
      /\ 2 + first.inode_table_blocks + super_blocks(first) <= b - first.first_data_block
  BY SensibleFacts
<1>2. /\ first.first_data_block \in {0, 1}
      /\ l \in Nat /\ first.groups \in Nat \ {0}
      /\ first.inode_table_blocks \in Nat /\ super_blocks(first) \in Int
      /\ first.bg_desc_blocks \in Nat /\ first.bg_desc_reserve_blocks \in Nat \ {0}
  BY FirstParameters
<1>3. /\ aux.first_data_block = first.first_data_block
      /\ aux.inode_table_blocks = first.inode_table_blocks
      /\ aux.bg_desc_blocks = first.bg_desc_blocks
      /\ aux.bg_desc_reserve_blocks = first.bg_desc_reserve_blocks
      /\ super_blocks(aux) = super_blocks(first)
      /\ \/ aux.groups = first.groups - 1 /\ aux.len_blocks = l - (l % b)
         \/ aux.groups = first.groups /\ aux.len_blocks = l
  BY LastParameters
<1> HIDE DEF first, l, b
<1>4. l % b \in Int
  BY <1>1, <1>2
<1>5. Bpg = b
  BY DEF Bpg, b
<1>6. aux.groups \in Nat /\ aux.len_blocks \in Int
  BY <1>2, <1>3, <1>4
<1> QED BY <1>1, <1>2, <1>3, <1>5, <1>6 DEF super_blocks

LEMMA LayoutFacts ==
    ASSUME ParametersKept, Sensible(FirstAuxInfo), pc # "aux_info"
    PROVE  /\ Bpg \in Nat \ {0} /\ U32 \in Nat /\ Bpg < U32
           /\ aux_info.first_data_block \in {0, 1}
           /\ aux_info.inode_table_blocks \in Nat /\ aux_info.bg_desc_blocks \in Nat
           /\ Reserve \in Nat \ {0} /\ Reserve <= Bpg
           /\ super_blocks(aux_info) = 1 + aux_info.bg_desc_blocks + Reserve
           /\ aux_info.groups \in Nat /\ aux_info.len_blocks \in Int
           /\ \A g \in Int : first_block(g) \in Int
           /\ \A g : /\ header_blocks(g) = 2 + aux_info.inode_table_blocks
                            + IF ext4_bg_has_super_block(g) THEN super_blocks(aux_info) ELSE 0
                     /\ header_blocks(g) \in Nat /\ header_blocks(g) <= Bpg
                     /\ HeaderBits(g) = 0 .. (header_blocks(g) - 1)
                     /\ Cardinality(HeaderBits(g)) = header_blocks(g)
<1> DEFINE s == super_blocks(aux_info)
           t == aux_info.inode_table_blocks
<1>1. aux_info = DropLastGroup(FirstAuxInfo)
  BY DEF ParametersKept
<1>2. /\ Bpg \in Nat \ {0} /\ U32 \in Nat /\ Bpg < U32
      /\ aux_info.first_data_block \in {0, 1}
      /\ t \in Nat /\ aux_info.bg_desc_blocks \in Nat
      /\ Reserve \in Nat \ {0}
      /\ s = 1 + aux_info.bg_desc_blocks + Reserve
      /\ aux_info.groups \in Nat /\ aux_info.len_blocks \in Int
      /\ 2 + t <= Bpg
      /\ 2 + t + s <= Bpg
  <2>1. PICK aux : aux = aux_info
    OBVIOUS
  <2> QED BY <1>1, <2>1, AuxFacts DEF Reserve
<1>3. \A g \in Int : first_block(g) \in Int
  BY <1>2 DEF first_block, Bpg
<1>4. \A g : header_blocks(g) = 2 + t + IF ext4_bg_has_super_block(g) THEN s ELSE 0
  BY DEF header_blocks
<1> HIDE DEF s, t
<1>5. Reserve <= Bpg /\ s \in Nat
  BY <1>2
<1>6. \A g : header_blocks(g) \in Nat /\ header_blocks(g) <= Bpg
  BY <1>2, <1>4, <1>5
<1>7. ASSUME NEW g
      PROVE  /\ HeaderBits(g) = 0 .. (header_blocks(g) - 1)
             /\ Cardinality(HeaderBits(g)) = header_blocks(g)
  <2> DEFINE h == header_blocks(g)
  <2>1. h \in Nat /\ h <= Bpg
    BY <1>6
  <2>2. HeaderBits(g) = 0 .. (h - 1)
    BY <2>1 DEF HeaderBits
  <2> HIDE DEF h
  <2>3. 0 \in Int /\ h - 1 \in Int
    BY <2>1
  <2>4. Cardinality(0 .. (h - 1)) = IF 0 > h - 1 THEN 0 ELSE (h - 1) - 0 + 1
    BY <2>3, FS_Interval
  <2>5. Cardinality(0 .. (h - 1)) = h
    BY <2>1, <2>4
  <2> QED BY <2>2, <2>5 DEF h
<1> QED BY <1>2, <1>3, <1>4, <1>5, <1>6, <1>7 DEF s, t

\* How many groups with a superblock come before the next.
LEMMA BeforeFacts ==
    /\ Before(0) = {} /\ Cardinality(Before(0)) = 0
    /\ \A g \in Nat :
          /\ Cardinality(Before(g)) \in Nat
          /\ Cardinality(Before(g + 1)) =
                Cardinality(Before(g)) + IF ext4_bg_has_super_block(g) THEN 1 ELSE 0
          /\ \A h \in 0 .. (g - 1) : Cardinality(Before(h)) <= Cardinality(Before(g))
<1>1. Before(0) = {} /\ Cardinality(Before(0)) = 0
  <2>1. Before(0) = {}
    BY DEF Before
  <2> QED BY <2>1, FS_EmptySet
<1>2. ASSUME NEW g \in Nat
      PROVE  IsFiniteSet(Before(g)) /\ Cardinality(Before(g)) \in Nat
  <2>1. IsFiniteSet(0 .. (g - 1))
    BY FS_Interval
  <2>2. Before(g) \subseteq 0 .. (g - 1)
    BY DEF Before
  <2>3. IsFiniteSet(Before(g))
    BY <2>1, <2>2, FS_Subset
  <2> QED BY <2>3, FS_CardinalityType
<1>3. ASSUME NEW g \in Nat
      PROVE  Cardinality(Before(g + 1)) =
               Cardinality(Before(g)) + IF ext4_bg_has_super_block(g) THEN 1 ELSE 0
  <2>1. 0 .. (g + 1 - 1) = (0 .. (g - 1)) \cup {g} /\ g \notin 0 .. (g - 1)
    OBVIOUS
  <2>2. CASE ext4_bg_has_super_block(g)
    <3>1. Before(g + 1) = Before(g) \cup {g} /\ g \notin Before(g)
      BY <2>1, <2>2 DEF Before
    <3> QED BY <1>2, <2>2, <3>1, FS_AddElement
  <2>3. CASE ~ext4_bg_has_super_block(g)
    <3>1. Before(g + 1) = Before(g)
      BY <2>1, <2>3 DEF Before
    <3> QED BY <1>2, <2>3, <3>1
  <2> QED BY <2>2, <2>3
<1>4. ASSUME NEW g \in Nat, NEW h \in 0 .. (g - 1)
      PROVE  Cardinality(Before(h)) <= Cardinality(Before(g))
  <2>1. Before(h) \subseteq Before(g)
    BY DEF Before
  <2> QED BY <1>2, <2>1, FS_Subset
<1> QED BY <1>1, <1>2, <1>3, <1>4

\* What the parameters say does not change with them.
LEMMA Stay ==
    ASSUME UNCHANGED <<info, aux_info>>
    PROVE  /\ Bpg' = Bpg /\ Groups' = Groups /\ Reserve' = Reserve /\ U32' = U32
           /\ super_blocks(aux_info)' = super_blocks(aux_info)
           /\ FirstAuxInfo' = FirstAuxInfo
           /\ Sensible(FirstAuxInfo)' = Sensible(FirstAuxInfo)
           /\ \A g : /\ first_block(g)' = first_block(g)
                     /\ header_blocks(g)' = header_blocks(g)
                     /\ FirstUsed(g)' = FirstUsed(g)
                     /\ BitmapBlock(g)' = BitmapBlock(g)
                     /\ Super(g)' = Super(g) /\ Desc(g)' = Desc(g)
           /\ \A g, r : ReservedBlock(g, r)' = ReservedBlock(g, r)
           /\ \A n : ReservePosition(n)' = ReservePosition(n)
<1>1. /\ Bpg' = Bpg /\ Groups' = Groups /\ Reserve' = Reserve
      /\ super_blocks(aux_info)' = super_blocks(aux_info)
  BY DEF Bpg, Groups, Reserve, super_blocks
<1>2. FirstAuxInfo' = FirstAuxInfo
  BY DEF FirstAuxInfo, compute_inodes_per_group
<1>3. Sensible(FirstAuxInfo)' = Sensible(FirstAuxInfo)
  BY <1>2 DEF Sensible, Headers, super_blocks
<1>4. \A g : first_block(g)' = first_block(g)
  BY DEF first_block
<1>5. \A g : header_blocks(g)' = header_blocks(g)
  BY <1>1 DEF header_blocks
<1>6. \A g : FirstUsed(g)' = FirstUsed(g)
  BY <1>1, <1>4, <1>5 DEF FirstUsed, HeaderBits, OverBits, Overrun
<1>7. \A g : BitmapBlock(g)' = BitmapBlock(g)
  BY <1>1, <1>4 DEF BitmapBlock
<1>8. \A g : Super(g)' = Super(g) /\ Desc(g)' = Desc(g)
  BY <1>4 DEF Super, Desc
<1>9. \A g, r : ReservedBlock(g, r)' = ReservedBlock(g, r)
  BY <1>4 DEF ReservedBlock
<1>10. \A n : ReservePosition(n)' = ReservePosition(n)
  BY <1>1 DEF ReservePosition
<1> QED BY <1>1, <1>2, <1>3, <1>4, <1>5, <1>6, <1>7, <1>8, <1>9, <1>10

-----------------------------------------------------------------------------
(* The steps before the resize inode                                       *)

LEMMA CreateStep ==
    ASSUME Nothing, Sensible(FirstAuxInfo), ext4_create_fs_aux_info
    PROVE  Layout'
<1>1. /\ pc = "aux_info" /\ aux_info' = DropLastGroup(FirstAuxInfo)
      /\ pieces' = {Piece("super", aux_info'.first_data_block, 1),
                    Piece("desc", aux_info'.first_data_block + 1, aux_info'.bg_desc_blocks)}
      /\ pc' = IF aux_info'.groups = 0 THEN "undefined" ELSE "init_bg"
      /\ UNCHANGED <<info, bgs, bg_desc, tables, alloc, dind, ind, resize, i>>
  BY DEF ext4_create_fs_aux_info
<1>2. /\ bgs' = <<>> /\ bg_desc' = <<>> /\ tables' = {} /\ i' = 0
      /\ alloc' = create_allocation /\ dind' = <<>> /\ ind' = <<>>
  BY <1>1 DEF Nothing
<1>3. aux_info'.groups \in Nat /\ Bpg \in Nat \ {0} /\ aux_info'.first_data_block \in {0, 1}
  <2>1. PICK aux : aux = aux_info'
    OBVIOUS
  <2>2. aux.groups \in Nat /\ Bpg \in Nat \ {0} /\ aux.first_data_block \in {0, 1}
    BY <1>1, <2>1, AuxFacts
  <2> QED BY <2>1, <2>2
<1>4. Begun' = {} /\ Described' = {} /\ Appended' = 0 /\ ~Attached'
  <2>1. CASE aux_info'.groups = 0
    <3>1. pc' = "undefined" /\ aux_info'.groups - 1 = -1 /\ 0 .. -1 = {}
      BY <1>1, <2>1
    <3> QED BY <2>1, <3>1 DEF Begun, Described, Appended, Attached, Groups
  <2>2. CASE aux_info'.groups # 0
    <3>1. pc' = "init_bg" /\ i' - 1 = -1 /\ 0 .. -1 = {}
      BY <1>1, <1>2, <2>2
    <3> QED BY <3>1 DEF Begun, Described, Appended, Attached
  <2> QED BY <2>1, <2>2
<1>5. Progress'
  BY <1>1, <1>2, <1>3 DEF Progress, Loops
<1>6. Bitmaps' /\ Descriptors'
  <2>1. DOMAIN <<>> = {}
    OBVIOUS
  <2> QED BY <1>2, <1>4, <2>1 DEF Bitmaps, Descriptors
<1>7. Queued'
  <2>1. Copied' = {}
    BY <1>4 DEF Copied
  <2>2. first_block(0)' = aux_info'.first_data_block
    <3>1. info.blocks_per_group \in Nat
      BY <1>3 DEF Bpg
    <3> QED BY <1>1, <1>3, <3>1 DEF first_block
  <2>3. pieces' = {Super(0)', Desc(0)'}
    BY <1>1, <2>2 DEF Super, Desc, Piece
  <2> QED BY <1>2, <1>4, <2>1, <2>3 DEF Queued
<1>8. Regions'
  <2>1. alloc' = [mem |-> <<>>, list |-> EmptyList, oob_list |-> EmptyList]
    BY <1>2 DEF create_allocation
  <2>2. Cardinality(Before(Appended))' = 0
    BY <1>4, BeforeFacts
  <2>3. Linked(<<>>) /\ Len(<<>>) = 0
    BY DEF Linked
  <2>4. \A len : Row(<<>>, 1, 0, len)
    BY DEF Row
  <2>5. ListOf(1, 0) = EmptyList
    BY DEF ListOf
  <2> QED BY <1>4, <2>1, <2>2, <2>3, <2>4, <2>5 DEF Regions
<1>9. Map'
  BY <1>2, <1>4 DEF Map
<1> QED BY <1>5, <1>6, <1>7, <1>8, <1>9 DEF Layout

\* What a step leaves alone.
LEMMA RegionsKept ==
    ASSUME Regions, UNCHANGED <<info, aux_info, alloc>>, Appended' = Appended,
           ~Attached, ~Attached'
    PROVE  Regions'
<1>1. Reserve' = Reserve /\ \A g, r : ReservedBlock(g, r)' = ReservedBlock(g, r)
  BY Stay
<1> QED BY <1>1 DEF Regions

LEMMA MapKept ==
    ASSUME Map, UNCHANGED <<dind, ind>>, ~Attached, ~Attached'
    PROVE  Map'
BY DEF Map

LEMMA InitBgStep ==
    ASSUME Layout, ParametersKept, Sensible(FirstAuxInfo), init_bg
    PROVE  Layout'
<1>1. /\ pc = "init_bg"
      /\ pc' = IF i + 1 = aux_info.groups THEN "fill_in_sb" ELSE "init_bg"
      /\ i' = IF i + 1 = aux_info.groups THEN 0 ELSE i + 1
      /\ UNCHANGED <<info, aux_info, resize, bg_desc, tables, alloc, dind, ind>>
  BY DEF init_bg, Group
<1>2. /\ bgs' = [g \in DOMAIN bgs \cup {i} |->
                   IF g = i THEN [first_block |-> first_block(i), used |-> FirstUsed(i)]
                   ELSE bgs[g]]
      /\ pieces' = pieces \cup {Piece("bitmaps", BitmapBlock(i), 2)}
  BY DEF init_bg, FirstUsed, HeaderBits, OverBits, Overrun, BitmapBlock, Bpg
<1>3. aux_info.groups \in Nat /\ i \in Nat /\ i < aux_info.groups
  <2>1. pc \in Loops /\ pc # "aux_info"
    BY <1>1 DEF Loops
  <2> QED BY <2>1, LayoutFacts DEF Layout, Progress
<1>4. /\ Begun = 0 .. (i - 1) /\ Described = {} /\ Appended = 0 /\ ~Attached
      /\ Begun' = Begun \cup {i} /\ Described' = {} /\ Appended' = 0 /\ ~Attached'
  <2>1. Begun = 0 .. (i - 1) /\ Described = {} /\ Appended = 0 /\ ~Attached
    BY <1>1 DEF Begun, Described, Appended, Attached
  <2>2. 0 .. i = (0 .. (i - 1)) \cup {i}
    BY <1>3
  <2>3. Begun' = 0 .. i
    <3>1. CASE i + 1 = aux_info.groups
      <4>1. pc' = "fill_in_sb" /\ aux_info.groups' - 1 = i
        BY <1>1, <1>3, <3>1
      <4> QED BY <4>1 DEF Begun, Groups
    <3>2. CASE i + 1 # aux_info.groups
      <4>1. pc' = "init_bg" /\ i' - 1 = i
        BY <1>1, <1>3, <3>2
      <4> QED BY <4>1 DEF Begun
    <3> QED BY <3>1, <3>2
  <2>4. Described' = {} /\ Appended' = 0 /\ ~Attached'
    <3>1. CASE i + 1 = aux_info.groups
      <4>1. pc' = "fill_in_sb" /\ i' - 1 = -1 /\ 0 .. -1 = {}
        BY <1>1, <1>3, <3>1
      <4> QED BY <4>1 DEF Described, Appended, Attached
    <3>2. CASE i + 1 # aux_info.groups
      <4>1. pc' = "init_bg"
        BY <1>1, <3>2
      <4> QED BY <4>1 DEF Described, Appended, Attached
    <3> QED BY <3>1, <3>2
  <2> QED BY <2>1, <2>2, <2>3, <2>4
<1>5. Progress'
  BY <1>1, <1>3 DEF Layout, Progress, Loops
<1>6. Bitmaps'
  <2>1. /\ DOMAIN bgs = Begun
        /\ \A g \in Begun : bgs[g] = [first_block |-> first_block(g), used |-> FirstUsed(g)]
    BY <1>4 DEF Layout, Bitmaps
  <2>2. DOMAIN bgs' = Begun'
    BY <1>2, <1>4, <2>1
  <2>3. \A g \in Begun' : bgs'[g] = [first_block |-> first_block(g), used |-> FirstUsed(g)]
    BY <1>2, <1>4, <2>1
  <2>4. \A g : first_block(g)' = first_block(g) /\ FirstUsed(g)' = FirstUsed(g)
    BY <1>1, Stay
  <2> QED BY <1>4, <2>2, <2>3, <2>4 DEF Bitmaps
<1>7. Descriptors'
  BY <1>1, <1>4 DEF Layout, Descriptors
<1>8. Queued'
  <2>1. Copied = {} /\ Copied' = {}
    BY <1>4 DEF Copied
  <2>2. \A g : BitmapBlock(g)' = BitmapBlock(g) /\ Super(g)' = Super(g) /\ Desc(g)' = Desc(g)
    BY <1>1, Stay
  <2>3. \A t, b, s : Piece(t, b, s)' = Piece(t, b, s)
    BY DEF Piece
  <2> QED BY <1>1, <1>2, <1>4, <2>1, <2>2, <2>3 DEF Layout, Queued
<1>9. Regions' /\ Map'
  <2>1. Regions /\ Map
    BY DEF Layout
  <2>2. Appended' = Appended
    BY <1>4
  <2>3. Regions'
    BY <1>1, <1>4, <2>1, <2>2, RegionsKept
  <2>4. Map'
    BY <1>1, <1>4, <2>1, MapKept
  <2> QED BY <2>3, <2>4
<1> QED BY <1>5, <1>6, <1>7, <1>8, <1>9 DEF Layout

LEMMA FillStep ==
    ASSUME Layout, ParametersKept, Sensible(FirstAuxInfo), ext4_fill_in_sb
    PROVE  Layout'
<1> DEFINE copies == IF i # 0 /\ ext4_bg_has_super_block(i) THEN {Super(i), Desc(i)} ELSE {}
<1>1. /\ pc = "fill_in_sb"
      /\ pc' = IF i + 1 = aux_info.groups THEN "append" ELSE "fill_in_sb"
      /\ i' = IF i + 1 = aux_info.groups THEN 0 ELSE i + 1
      /\ UNCHANGED <<info, aux_info, resize, bgs, tables, alloc, dind, ind>>
  BY DEF ext4_fill_in_sb, Group
<1>2. /\ bg_desc' = [g \in DOMAIN bg_desc \cup {i} |->
                       IF g = i THEN [bg_block_bitmap |-> BitmapBlock(i),
                                      bg_inode_bitmap |-> BitmapBlock(i) + 1,
                                      bg_inode_table  |-> BitmapBlock(i) + 2]
                       ELSE bg_desc[g]]
      /\ pieces' = pieces \cup copies
  BY DEF ext4_fill_in_sb, BitmapBlock, Super, Desc
<1> HIDE DEF copies
<1>3. aux_info.groups \in Nat /\ i \in Nat /\ i < aux_info.groups
  <2>1. pc \in Loops /\ pc # "aux_info"
    BY <1>1 DEF Loops
  <2> QED BY <2>1, LayoutFacts DEF Layout, Progress
<1>4. /\ Begun = Groups /\ Described = 0 .. (i - 1) /\ Appended = 0 /\ ~Attached
      /\ Begun' = Groups /\ Described' = Described \cup {i} /\ Appended' = 0 /\ ~Attached'
  <2>1. Begun = Groups /\ Described = 0 .. (i - 1) /\ Appended = 0 /\ ~Attached
    BY <1>1 DEF Begun, Described, Appended, Attached
  <2>2. 0 .. i = (0 .. (i - 1)) \cup {i} /\ Groups' = Groups
    BY <1>1, <1>3, Stay
  <2>3. Described' = 0 .. i
    <3>1. CASE i + 1 = aux_info.groups
      <4>1. pc' = "append" /\ aux_info.groups' - 1 = i
        BY <1>1, <1>3, <3>1
      <4> QED BY <4>1 DEF Described, Groups
    <3>2. CASE i + 1 # aux_info.groups
      <4>1. pc' = "fill_in_sb" /\ i' - 1 = i
        BY <1>1, <1>3, <3>2
      <4> QED BY <4>1 DEF Described
    <3> QED BY <3>1, <3>2
  <2>4. Begun' = Groups' /\ Appended' = 0 /\ ~Attached'
    <3>1. CASE i + 1 = aux_info.groups
      <4>1. pc' = "append" /\ i' = 0
        BY <1>1, <1>3, <3>1
      <4> QED BY <4>1 DEF Begun, Appended, Attached
    <3>2. CASE i + 1 # aux_info.groups
      <4>1. pc' = "fill_in_sb"
        BY <1>1, <3>2
      <4> QED BY <4>1 DEF Begun, Appended, Attached
    <3> QED BY <3>1, <3>2
  <2> QED BY <2>1, <2>2, <2>3, <2>4
<1>5. Progress'
  BY <1>1, <1>3 DEF Layout, Progress, Loops
<1>6. Bitmaps'
  <2>1. \A g : first_block(g)' = first_block(g) /\ FirstUsed(g)' = FirstUsed(g)
    BY <1>1, Stay
  <2> QED BY <1>1, <1>4, <2>1 DEF Layout, Bitmaps
<1>7. Descriptors'
  <2>1. \A g : BitmapBlock(g)' = BitmapBlock(g)
    BY <1>1, Stay
  <2>2. /\ DOMAIN bg_desc = Described
        /\ \A g \in Described :
              bg_desc[g] = [bg_block_bitmap |-> BitmapBlock(g),
                            bg_inode_bitmap |-> BitmapBlock(g) + 1,
                            bg_inode_table  |-> BitmapBlock(g) + 2]
    BY DEF Layout, Descriptors
  <2>3. DOMAIN bg_desc' = Described'
    BY <1>2, <1>4, <2>2
  <2>4. \A g \in Described' :
           bg_desc'[g] = [bg_block_bitmap |-> BitmapBlock(g),
                          bg_inode_bitmap |-> BitmapBlock(g) + 1,
                          bg_inode_table  |-> BitmapBlock(g) + 2]
    BY <1>2, <1>4, <2>2
  <2> QED BY <2>1, <2>3, <2>4 DEF Descriptors
<1>8. Queued'
  <2>1. Copied' = Copied \cup IF i # 0 /\ ext4_bg_has_super_block(i) THEN {i} ELSE {}
    BY <1>4 DEF Copied
  <2>2. \A g : BitmapBlock(g)' = BitmapBlock(g) /\ Super(g)' = Super(g) /\ Desc(g)' = Desc(g)
    BY <1>1, Stay
  <2>3. \A t, b, s : Piece(t, b, s)' = Piece(t, b, s)
    BY DEF Piece
  <2> QED BY <1>1, <1>2, <1>4, <2>1, <2>2, <2>3 DEF Layout, Queued, copies
<1>9. Regions' /\ Map'
  <2>1. Regions /\ Map
    BY DEF Layout
  <2>2. Appended' = Appended
    BY <1>4
  <2>3. Regions'
    BY <1>1, <1>4, <2>1, <2>2, RegionsKept
  <2>4. Map'
    BY <1>1, <1>4, <2>1, MapKept
  <2> QED BY <2>3, <2>4
<1> QED BY <1>5, <1>6, <1>7, <1>8, <1>9 DEF Layout

-----------------------------------------------------------------------------
(* The regions of the resize inode                                         *)

\* A region more at the end of the memory and of the list that lies there from p on.
Grown(mem, p, m, len, block, bg) ==
    region_list_append(Append(mem, [block |-> block, len |-> len, bg |-> bg,
                                    next |-> NULL, prev |-> NULL]),
                       ListOf(p, m), p + m)

LEMMA LastMoved ==
    ASSUME NEW p, NEW q, NEW r
    PROVE  LET list == [first |-> p, last |-> q, iter |-> p, partial_iter |-> 0]
           IN  [list EXCEPT !.last = r] = [first |-> p, last |-> r, iter |-> p, partial_iter |-> 0]
OBVIOUS

\* The list has the region as its last, and the others are as they were.
HasGrown(new, mem, p, m, len, block) ==
    /\ new = [mem |-> new.mem, list |-> ListOf(p, m + 1)]
    /\ Linked(new.mem) /\ Len(new.mem) = p + m
    /\ Row(new.mem, p, m + 1, len)
    /\ \A q \in 1 .. (p - 1 + m) : new.mem[q].block = mem[q].block
    /\ \A q \in 1 .. (p - 1) : new.mem[q] = mem[q]
    /\ new.mem[p + m].block = block

LEMMA RowGrows ==
    ASSUME NEW mem, Linked(mem), NEW p \in Nat \ {0}, NEW m \in Nat, Len(mem) = p - 1 + m,
           NEW len \in Nat, Row(mem, p, m, len), NEW block \in Int, NEW bg \in Int
    PROVE  HasGrown(Grown(mem, p, m, len, block, bg), mem, p, m, len, block)
<1> DEFINE node == [block |-> block, len |-> len, bg |-> bg, next |-> NULL, prev |-> NULL]
           new == region_list_append(Append(mem, node), ListOf(p, m), p + m)
           all == Append(mem, node)
           reg == p + m
           Both(s, x, y) == [s EXCEPT !.prev = x, !.next = y]
           Next_(s, y) == [s EXCEPT !.next = y]
           At(q) == IF q = reg THEN Both(all[q], IF m = 0 THEN NULL ELSE p + m - 1, NULL)
                    ELSE IF m # 0 /\ q = p + m - 1 THEN Next_(all[q], reg)
                    ELSE all[q]
           next == [q \in 1 .. (p + m) |-> At(q)]
<1>1. node \in Region
  BY DEF Region, NULL
<1>2. /\ mem \in Seq(Region) /\ \A q \in 1 .. (p - 1 + m) : mem[q] \in Region /\ mem[q].next \in 0 .. (p - 1 + m)
  BY LinkedFacts DEF Linked
<1>3. /\ all \in Seq(Region) /\ Len(all) = p + m
      /\ \A q \in 1 .. (p - 1 + m) : all[q] = mem[q]
      /\ all[p + m] = node
  <2>1. Len(mem) + 1 = p + m
    OBVIOUS
  <2> QED BY <1>1, <1>2, <2>1, AppendProperties
<1>4. /\ \A r \in Region : r.next \in Nat /\ r.block \in Int /\ r.len \in Nat
      /\ \A r \in Region : \A b, n \in Nat :
            Both(r, b, n) \in Region /\ Both(r, b, n).next = n
      /\ \A r \in Region, v \in Nat :
            /\ Next_(r, v) \in Region /\ Next_(r, v).block = r.block
            /\ Next_(r, v).len = r.len /\ Next_(r, v).next = v
  BY DEF Region
<1>5. \A r \in Region : \A b, n \in Nat :
         Both(r, b, n).block = r.block /\ Both(r, b, n).len = r.len
  BY DEF Region
<1> HIDE DEF new
<1>6. node.len = len /\ node.block = block /\ node.next = NULL
  OBVIOUS
<1> HIDE DEF all, node
<1>7. new = [mem |-> next, list |-> ListOf(p, m + 1)]
  <2>1. DOMAIN all = 1 .. (p + m)
    BY <1>3
  <2>2. m + 1 # 0 /\ p + (m + 1) - 1 = p + m
    OBVIOUS
  <2>3. CASE m = 0
    <3>1. ListOf(p, m).first = NULL
      BY <2>3 DEF ListOf, EmptyList
    <3> DEFINE f == [all EXCEPT ![reg].prev = NULL, ![reg].next = NULL]
    <3>2. new = [mem |-> f,
                 list |-> [first |-> reg, last |-> reg, iter |-> reg, partial_iter |-> 0]]
      BY <3>1 DEF region_list_append, all, new
    <3>3. reg = p /\ reg \in 1 .. (p + m)
      BY <2>3
    <3>4. f = next
      <4>1. f = [all EXCEPT ![reg] = Both(all[reg], NULL, NULL)]
        BY <2>1, <3>3
      <4> HIDE DEF Both
      <4> QED BY <2>1, <2>3, <4>1
    <3>5. ListOf(p, m + 1) = [first |-> reg, last |-> reg, iter |-> reg, partial_iter |-> 0]
      BY <2>2, <2>3, <3>3 DEF ListOf
    <3> HIDE DEF f, next
    <3> QED BY <3>2, <3>4, <3>5
  <2>4. CASE m # 0
    <3> DEFINE list == ListOf(p, m)
    <3>1. list = [first |-> p, last |-> p + m - 1, iter |-> p, partial_iter |-> 0]
      BY <2>4 DEF ListOf
    <3>2. list.first # NULL /\ list.last = p + m - 1
      BY <3>1 DEF NULL
    <3> HIDE DEF list
    <3> DEFINE f == [q \in DOMAIN all |->
                      IF q = reg THEN [all[q] EXCEPT !.prev = list.last, !.next = NULL]
                      ELSE IF q = list.last THEN [all[q] EXCEPT !.next = reg]
                      ELSE all[q]]
               l == [list EXCEPT !.last = reg]
    <3>3. new = [mem |-> f, list |-> l]
      BY <3>2 DEF region_list_append, all, list, new
    <3>4. f = next
      <4>1. f = [q \in DOMAIN all |->
                    IF q = reg THEN Both(all[q], list.last, NULL)
                    ELSE IF q = list.last THEN Next_(all[q], reg)
                    ELSE all[q]]
        BY Zenon
      <4> HIDE DEF Both, Next_, f
      <4> QED BY <2>1, <2>4, <3>2, <4>1
    <3>5. ListOf(p, m + 1) = l
      <4> HIDE DEF f, next
      <4>1. ListOf(p, m + 1) = [first |-> p, last |-> p + m, iter |-> p, partial_iter |-> 0]
        BY <2>2 DEF ListOf
      <4>2. l = [first |-> p, last |-> p + m, iter |-> p, partial_iter |-> 0]
        BY <3>1, LastMoved
      <4> QED BY <4>1, <4>2
    <3> HIDE DEF f, l, next
    <3> QED BY <3>3, <3>4, <3>5
  <2> QED BY <2>3, <2>4
<1>8. \A q \in 1 .. (p + m) :
         /\ At(q) \in Region
         /\ At(q).next = IF q = reg THEN NULL ELSE IF m # 0 /\ q = p + m - 1 THEN reg ELSE all[q].next
         /\ At(q).block = all[q].block /\ At(q).len = all[q].len
  <2> SUFFICES ASSUME NEW q \in 1 .. (p + m)
               PROVE  /\ At(q) \in Region
                      /\ At(q).next = IF q = reg THEN NULL
                                      ELSE IF m # 0 /\ q = p + m - 1 THEN reg ELSE all[q].next
                      /\ At(q).block = all[q].block /\ At(q).len = all[q].len
    OBVIOUS
  <2>1. all[q] \in Region
    BY <1>3
  <2> DEFINE u == IF m = 0 THEN NULL ELSE p + m - 1
  <2>2. u \in Nat /\ NULL \in Nat /\ reg \in Nat
    BY DEF NULL
  <2>3. At(q) = IF q = reg THEN Both(all[q], u, NULL)
                ELSE IF m # 0 /\ q = p + m - 1 THEN Next_(all[q], reg) ELSE all[q]
    OBVIOUS
  <2> HIDE DEF u, At, Both, Next_, reg
  <2>4. CASE q = reg
    <3>1. /\ Both(all[q], u, NULL) \in Region /\ Both(all[q], u, NULL).block = all[q].block
          /\ Both(all[q], u, NULL).len = all[q].len /\ Both(all[q], u, NULL).next = NULL
      <4> DEFINE o == Both(all[q], u, NULL)
      <4>1. o \in Region
        BY <1>4, <2>1, <2>2
      <4>2. o.block = all[q].block
        BY <1>5, <2>1, <2>2
      <4>3. o.len = all[q].len
        BY <1>5, <2>1, <2>2
      <4>4. o.next = NULL
        BY <1>4, <2>1, <2>2
      <4> QED BY <4>1, <4>2, <4>3, <4>4
    <3>2. At(q) = Both(all[q], u, NULL)
      BY <2>3, <2>4
    <3> QED BY <2>4, <3>1, <3>2
  <2>5. CASE q # reg /\ m # 0 /\ q = p + m - 1
    <3>1. /\ Next_(all[q], reg) \in Region /\ Next_(all[q], reg).block = all[q].block
          /\ Next_(all[q], reg).len = all[q].len /\ Next_(all[q], reg).next = reg
      BY <1>4, <2>1, <2>2, Zenon
    <3>2. At(q) = Next_(all[q], reg)
      BY <2>3, <2>5
    <3> QED BY <2>5, <3>1, <3>2
  <2>6. CASE q # reg /\ ~(m # 0 /\ q = p + m - 1)
    BY <2>1, <2>3, <2>6
  <2> QED BY <2>4, <2>5, <2>6
<1>9. \A q \in 1 .. (p - 1) : At(q) = mem[q]
  BY <1>3
<1> HIDE DEF At, Both, Next_
<1> HIDE DEF next
<1>10. new.mem \in Seq(Region) /\ Len(new.mem) = p + m /\ \A q \in 1 .. (p + m) : new.mem[q] = At(q)
  <2>1. new.mem = next
    BY <1>7
  <2> QED BY <1>8, <2>1 DEF next
<1>11. Linked(new.mem)
  <2>1. ASSUME NEW q \in 1 .. (p + m) PROVE new.mem[q].next \in 0 .. (p + m)
    <3>1. q # reg => all[q].next \in 0 .. (p - 1 + m)
      <4>1. q # reg => q \in 1 .. (p - 1 + m)
        OBVIOUS
      <4> QED BY <1>2, <1>3, <4>1
    <3>2. new.mem[q].next = IF q = reg THEN NULL ELSE IF m # 0 /\ q = p + m - 1 THEN reg ELSE all[q].next
      BY <1>8, <1>10
    <3>3. NULL \in 0 .. (p + m) /\ reg \in 0 .. (p + m)
      BY DEF NULL
    <3> QED BY <3>1, <3>2, <3>3
  <2>2. DOMAIN new.mem = 1 .. (p + m)
    BY <1>10
  <2>3. \A q \in DOMAIN new.mem : new.mem[q].next <= Len(new.mem)
    <3>1. \A x \in 0 .. (p + m) : x <= p + m
      OBVIOUS
    <3> QED BY <1>10, <2>1, <2>2, <3>1
  <2> QED BY <1>10, <2>3 DEF Linked
<1>12. Row(new.mem, p, m + 1, len)
  <2> SUFFICES ASSUME NEW k \in 1 .. (m + 1)
               PROVE  /\ p + k - 1 \in DOMAIN new.mem /\ new.mem[p + k - 1].len = len
                      /\ new.mem[p + k - 1].next = IF k = m + 1 THEN NULL ELSE p + k
    BY DEF Row
  <2> DEFINE q == p + k - 1
  <2>1. q \in 1 .. (p + m) /\ (k = m + 1 <=> q = reg) /\ (k = m <=> q = p + m - 1)
        /\ (k # m + 1 => k \in 1 .. m /\ q \in 1 .. (p - 1 + m)) /\ (k = m + 1 => q = p + m)
        /\ (k = m => p + k = reg /\ m # 0)
    OBVIOUS
  <2>2. k \in 1 .. m => mem[q].len = len /\ mem[q].next = IF k = m THEN NULL ELSE p + k
    BY DEF Row
  <2> HIDE DEF q
  <2>3. all[q].len = len /\ (k # m + 1 => all[q] = mem[q])
    BY <1>3, <1>6, <2>1, <2>2
  <2>4. new.mem[q].len = len /\ q \in DOMAIN new.mem
    <3>1. new.mem[q] = At(q) /\ At(q).len = all[q].len /\ DOMAIN new.mem = 1 .. (p + m)
      BY <1>8, <1>10, <2>1
    <3> QED BY <2>1, <2>3, <3>1
  <2>5. new.mem[q].next = IF q = reg THEN NULL ELSE IF m # 0 /\ q = p + m - 1 THEN reg ELSE all[q].next
    BY <1>8, <1>10, <2>1
  <2>6. new.mem[q].next = IF k = m + 1 THEN NULL ELSE p + k
    BY <2>1, <2>2, <2>3, <2>5
  <2> QED BY <2>4, <2>6 DEF q
<1>13. \A q \in 1 .. (p - 1 + m) : new.mem[q].block = mem[q].block
  BY <1>3, <1>8, <1>10
<1>14. \A q \in 1 .. (p - 1) : new.mem[q] = mem[q]
  BY <1>9, <1>10
<1>15. new.mem[p + m].block = block
  BY <1>3, <1>6, <1>8, <1>10
<1>16. new = [mem |-> new.mem, list |-> ListOf(p, m + 1)]
  BY <1>7
<1> QED BY <1>10, <1>11, <1>12, <1>13, <1>14, <1>15, <1>16, Zenon DEF new, node, Grown, HasGrown

\* What a step leaves alone that changes none of the bitmaps and descriptors.
LEMMA BitsKept ==
    ASSUME Bitmaps, Descriptors, Begun' = Begun, Described' = Described,
           Attached' <=> Attached, Attached => alloc' = alloc,
           UNCHANGED <<info, aux_info, bgs, bg_desc>>
    PROVE  Bitmaps' /\ Descriptors'
<1>1. /\ Groups' = Groups /\ Bpg' = Bpg /\ Reserve' = Reserve
      /\ \A g : /\ first_block(g)' = first_block(g) /\ FirstUsed(g)' = FirstUsed(g)
                /\ BitmapBlock(g)' = BitmapBlock(g)
                /\ Super(g)' = Super(g) /\ Desc(g)' = Desc(g)
      /\ \A g, r : ReservedBlock(g, r)' = ReservedBlock(g, r)
  BY Stay
<1>2. Attached => get_oob_block(alloc, 0)' = get_oob_block(alloc, 0)
  BY Zenon
<1>3. Attached => \A t, x : Taken(t, x)' <=> Taken(t, x)
  BY <1>1, <1>2 DEF Taken
<1>4. Bitmaps'
  <2>1. CASE Attached
    <3>1. PICK t \in Int, x \in Int : Taken(t, x)
      BY <2>1 DEF Bitmaps
    <3>2. Taken(t, x)'
      BY <1>3, <2>1, <3>1
    <3>3. DOMAIN bgs' = Begun'
      BY DEF Bitmaps
    <3> QED BY <2>1, <3>2, <3>3 DEF Bitmaps
  <2>2. CASE ~Attached
    BY <1>1, <2>2 DEF Bitmaps
  <2> QED BY <2>1, <2>2
<1>5. Descriptors'
  BY <1>1 DEF Descriptors
<1> QED BY <1>4, <1>5

LEMMA PlacesKept ==
    ASSUME Bitmaps, Descriptors, Queued, Begun' = Begun, Described' = Described,
           Attached' <=> Attached, Attached => alloc' = alloc,
           UNCHANGED <<info, aux_info, bgs, bg_desc, pieces, tables>>
    PROVE  Bitmaps' /\ Descriptors' /\ Queued'
<1>1. /\ Reserve' = Reserve
      /\ \A g : /\ BitmapBlock(g)' = BitmapBlock(g)
                /\ Super(g)' = Super(g) /\ Desc(g)' = Desc(g)
      /\ \A g, r : ReservedBlock(g, r)' = ReservedBlock(g, r)
  BY Stay
<1>2. Attached => get_oob_block(alloc, 0)' = get_oob_block(alloc, 0)
  BY Zenon
<1>3. Bitmaps' /\ Descriptors'
  BY BitsKept
<1>4. Queued'
  <2>1. Copied' = Copied
    BY DEF Copied
  <2>2. \A t, b, s : Piece(t, b, s)' = Piece(t, b, s)
    BY DEF Piece
  <2>3. CASE Attached
    BY <1>1, <1>2, <2>1, <2>2, <2>3 DEF Queued
  <2>4. CASE ~Attached
    BY <1>1, <2>1, <2>2, <2>4 DEF Queued
  <2> QED BY <2>3, <2>4
<1> QED BY <1>3, <1>4

LEMMA AppendStep ==
    ASSUME Layout, ParametersKept, Sensible(FirstAuxInfo), append_reserved
    PROVE  Layout'
<1>1. /\ pc = "append"
      /\ pc' = IF i + 1 = aux_info.groups THEN "oob" ELSE "append"
      /\ i' = IF i + 1 = aux_info.groups THEN 0 ELSE i + 1
      /\ UNCHANGED <<info, aux_info, resize, bgs, bg_desc, pieces, tables, dind, ind>>
  BY DEF append_reserved, Group
<1>2. /\ aux_info.groups \in Nat /\ i \in Nat /\ i < aux_info.groups
      /\ Reserve \in Nat /\ aux_info.bg_desc_blocks \in Nat /\ first_block(i) \in Int
  <2>1. pc \in Loops /\ pc # "aux_info"
    BY <1>1 DEF Loops
  <2> QED BY <2>1, LayoutFacts DEF Layout, Progress
<1>3. /\ Begun' = Begun /\ Described' = Described /\ Appended = i /\ Appended' = i + 1
      /\ ~Attached /\ ~Attached'
  <2>1. Begun = Groups /\ Described = Groups /\ Appended = i /\ ~Attached
    BY <1>1 DEF Begun, Described, Appended, Attached
  <2>2. Groups' = Groups
    BY <1>1, Stay
  <2>3. CASE i + 1 = aux_info.groups
    <3>1. pc' = "oob"
      BY <1>1, <2>3
    <3> QED BY <1>1, <2>1, <2>2, <2>3, <3>1 DEF Begun, Described, Appended, Attached
  <2>4. CASE i + 1 # aux_info.groups
    <3>1. pc' = "append" /\ i' = i + 1
      BY <1>1, <2>4
    <3> QED BY <2>1, <2>2, <3>1 DEF Begun, Described, Appended, Attached
  <2> QED BY <2>3, <2>4
<1>4. Progress'
  BY <1>1, <1>2 DEF Progress, Loops
<1>5. Bitmaps' /\ Descriptors' /\ Queued'
  BY <1>1, <1>3, PlacesKept DEF Layout
<1>6. Map'
  BY <1>1, <1>3, MapKept DEF Layout
<1> DEFINE m == Cardinality(Before(i))
           Placed(mem, k, n) == \E g \in 0 .. (n - 1) :
                                   /\ ext4_bg_has_super_block(g) /\ Cardinality(Before(g)) = k - 1
                                   /\ mem[k].block = ReservedBlock(g, 0)
<1>7. /\ alloc = [mem |-> alloc.mem, list |-> alloc.list, oob_list |-> alloc.oob_list]
      /\ Linked(alloc.mem) /\ Len(alloc.mem) = m /\ Row(alloc.mem, 1, m, Reserve)
      /\ alloc.list = ListOf(1, m) /\ alloc.oob_list = EmptyList
      /\ \A k \in 1 .. m : Placed(alloc.mem, k, i)
  <2>1. m \in Nat /\ m + 0 = m
    BY <1>2, BeforeFacts
  <2>2. Regions
    BY DEF Layout
  <2> HIDE DEF Placed
  <2>3. /\ alloc = [mem |-> alloc.mem, list |-> alloc.list, oob_list |-> alloc.oob_list]
        /\ Linked(alloc.mem) /\ Len(alloc.mem) = m + 0 /\ Row(alloc.mem, 1, m, Reserve)
        /\ alloc.list = ListOf(1, m) /\ alloc.oob_list = EmptyList
    BY <1>3, <2>2 DEF Regions
  <2>4. \A k \in 1 .. m : Placed(alloc.mem, k, i)
    BY <1>3, <2>2 DEF Regions, Placed
  <2> QED BY <2>1, <2>3, <2>4
<1>8. m \in Nat /\ Cardinality(Before(i + 1)) = m + IF ext4_bg_has_super_block(i) THEN 1 ELSE 0
  BY <1>2, BeforeFacts
<1>9. Reserve' = Reserve /\ \A g, r : ReservedBlock(g, r)' = ReservedBlock(g, r)
  BY <1>1, Stay
<1>10. ASSUME NEW a, NEW n \in Nat, a = alloc', n = Cardinality(Before(i + 1)),
              a = [mem |-> a.mem, list |-> a.list, oob_list |-> a.oob_list],
              Linked(a.mem), Len(a.mem) = n, Row(a.mem, 1, n, Reserve),
              a.list = ListOf(1, n), a.oob_list = EmptyList,
              \A k \in 1 .. n : Placed(a.mem, k, i + 1)
       PROVE  Regions'
  <2>1. Cardinality(Before(Appended))' = n
    BY <1>3, <1>10 DEF Before
  <2>2. n + 0 = n
    OBVIOUS
  <2>3. \A k \in 1 .. n : \E g \in 0 .. (Appended' - 1) :
          /\ ext4_bg_has_super_block(g) /\ Cardinality(Before(g)) = k - 1
          /\ alloc'.mem[k].block = ReservedBlock(g, 0)
    BY <1>3, <1>10
  <2> HIDE DEF Placed, m
  <2> QED BY <1>3, <1>9, <1>10, <2>1, <2>2, <2>3 DEF Regions
<1> HIDE DEF m
<1>11. CASE ext4_bg_has_super_block(i)
  <2> DEFINE block == ReservedBlock(i, 0)
             node == [block |-> block, len |-> Reserve, bg |-> i, next |-> NULL, prev |-> NULL]
             new == Grown(alloc.mem, 1, m, Reserve, block, i)
             a == [mem |-> new.mem, list |-> ListOf(1, m + 1), oob_list |-> EmptyList]
  <2>1. block \in Int /\ block = first_block(i) + 1 + aux_info.bg_desc_blocks
    BY <1>2 DEF ReservedBlock
  <2>2. Len(Append(alloc.mem, node)) = 1 + m
    BY <1>7, <1>8 DEF Linked
  <2>3. alloc' = append_region(alloc, block, Reserve, i)
    BY <1>11, <2>1 DEF append_reserved, Reserve
  <2> HIDE DEF block
  <2>4. /\ new = [mem |-> new.mem, list |-> ListOf(1, m + 1)]
        /\ Linked(new.mem) /\ Len(new.mem) = 1 + m
        /\ Row(new.mem, 1, m + 1, Reserve)
        /\ \A q \in 1 .. (1 - 1 + m) : new.mem[q].block = alloc.mem[q].block
        /\ new.mem[1 + m].block = block
    <3>1. Len(alloc.mem) = 1 - 1 + m /\ 1 \in Nat \ {0} /\ i \in Int
      BY <1>2, <1>7, <1>8
    <3>2. PICK mem : mem = alloc.mem
      OBVIOUS
    <3>3. PICK len \in Nat : len = Reserve
      BY <1>2
    <3>4. PICK bg \in Int : bg = i
      BY <1>2
    <3>5. PICK d \in Nat : d = m
      BY <1>8
    <3>6. PICK b \in Int : b = block
      BY <2>1
    <3>7. Linked(mem) /\ Len(mem) = 1 - 1 + d /\ Row(mem, 1, d, len)
      BY <1>7, <3>1, <3>2, <3>3, <3>5
    <3>8. HasGrown(Grown(mem, 1, d, len, b, bg), mem, 1, d, len, b)
      BY <3>1, <3>7, RowGrows
    <3>9. HasGrown(new, alloc.mem, 1, m, Reserve, block)
      BY <3>2, <3>3, <3>4, <3>5, <3>6, <3>8
    <3> HIDE DEF new
    <3> QED BY <3>9 DEF HasGrown
  <2>5. alloc' = a
    <3>1. alloc' = [alloc EXCEPT !.mem = new.mem, !.list = new.list]
      BY <1>7, <2>2, <2>3, Zenon DEF append_region, Grown
    <3>2. new.list = ListOf(1, m + 1)
      BY <2>4
    <3> HIDE DEF new
    <3> QED BY <1>7, <3>1, <3>2
  <2> HIDE DEF new
  <2>6. \A k \in 1 .. (m + 1) : Placed(a.mem, k, i + 1)
    <3> SUFFICES ASSUME NEW k \in 1 .. (m + 1) PROVE Placed(a.mem, k, i + 1)
      OBVIOUS
    <3>1. CASE k = m + 1
      <4>1. i \in 0 .. ((i + 1) - 1) /\ k - 1 = m /\ 1 + m = k
        BY <1>2, <1>8, <3>1
      <4>2. Cardinality(Before(i)) = k - 1 /\ a.mem[k].block = ReservedBlock(i, 0)
        BY <2>4, <4>1 DEF m, block
      <4> QED BY <1>11, <4>1, <4>2
    <3>2. CASE k # m + 1
      <4>1. k \in 1 .. m /\ k \in 1 .. (1 - 1 + m) /\ 0 .. (i - 1) \subseteq 0 .. ((i + 1) - 1)
        BY <1>2, <1>8, <3>2
      <4>2. Placed(alloc.mem, k, i) /\ a.mem[k].block = alloc.mem[k].block
        BY <1>7, <2>4, <4>1
      <4>3. PICK g \in 0 .. (i - 1) :
               /\ ext4_bg_has_super_block(g) /\ Cardinality(Before(g)) = k - 1
               /\ alloc.mem[k].block = ReservedBlock(g, 0)
        BY <4>2
      <4>4. g \in 0 .. ((i + 1) - 1)
        BY <4>1
      <4> QED BY <4>2, <4>3, <4>4, Zenon
    <3> QED BY <3>1, <3>2
  <2>7. m + 1 \in Nat /\ m + 1 = Cardinality(Before(i + 1)) /\ 1 + m = m + 1
    BY <1>8, <1>11
  <2> HIDE DEF Placed
  <2>8. /\ a = alloc' /\ a = [mem |-> a.mem, list |-> a.list, oob_list |-> a.oob_list]
        /\ Linked(a.mem) /\ Len(a.mem) = m + 1 /\ Row(a.mem, 1, m + 1, Reserve)
        /\ a.list = ListOf(1, m + 1) /\ a.oob_list = EmptyList
    BY <2>4, <2>5, <2>7
  <2>9. Regions'
    BY <1>10, <2>6, <2>7, <2>8
  <2> QED BY <1>4, <1>5, <1>6, <2>9 DEF Layout
<1>12. CASE ~ext4_bg_has_super_block(i)
  <2>1. alloc' = alloc
    BY <1>12 DEF append_reserved
  <2>2. Cardinality(Before(i + 1)) = m
    BY <1>8, <1>12
  <2>3. \A k \in 1 .. m : Placed(alloc.mem, k, i + 1)
    <3> SUFFICES ASSUME NEW k \in 1 .. m PROVE Placed(alloc.mem, k, i + 1)
      OBVIOUS
    <3>1. PICK g \in 0 .. (i - 1) :
             /\ ext4_bg_has_super_block(g) /\ Cardinality(Before(g)) = k - 1
             /\ alloc.mem[k].block = ReservedBlock(g, 0)
      BY <1>7
    <3>2. g \in 0 .. ((i + 1) - 1)
      BY <1>2
    <3> QED BY <3>1, <3>2, Zenon
  <2> HIDE DEF Placed
  <2>4. Regions'
    BY <1>7, <1>8, <1>10, <2>1, <2>2, <2>3
  <2> QED BY <1>4, <1>5, <1>6, <2>4 DEF Layout
<1> QED BY <1>11, <1>12

ReadAsRow(a, p, m, len) ==
    \A j \in 0 .. (m - 1) : \A r \in 0 .. (len - 1) : \A n :
       n = j * len + r => BlockAt(a, ListOf(p, m), n) = a.mem[p + j].block + r

LEMMA BlockInRow ==
    ASSUME NEW a, NEW p, NEW m, NEW len, IsRow(a, p, m, len)
    PROVE  ReadAsRow(a, p, m, len)
<1>1. \A j \in 0 .. (m - 1) : \A r \in 0 .. (len - 1) : \A n :
         n = j * len + r => SkipRegions(a, p, n) = [reg |-> p + j, left |-> r]
  BY RowSkip
<1> USE DEF IsRow
<1> SUFFICES ASSUME NEW j \in 0 .. (m - 1), NEW r \in 0 .. (len - 1), NEW n, n = j * len + r
             PROVE  BlockAt(a, ListOf(p, m), n) = a.mem[p + j].block + r
  BY DEF ReadAsRow
<1> DEFINE at == SkipRegions(a, p, n)
<1>2. ListOf(p, m).iter = p /\ ListOf(p, m).partial_iter = 0
  BY DEF ListOf
<1>3. n + 0 = n
  <2>1. \A x, y \in Nat : x * y \in Nat
    OBVIOUS
  <2>2. j * len \in Nat
    BY <2>1
  <2> QED BY <2>2
<1>4. at = [reg |-> p + j, left |-> r]
  BY <1>1
<1>5. at.reg = p + j /\ at.left = r /\ p + j # NULL
  BY <1>4 DEF NULL
<1> HIDE DEF at
<1>6. BlockAt(a, ListOf(p, m), n) = IF at.reg = NULL THEN EXT4_ALLOCATE_FAILED
                                    ELSE a.mem[at.reg].block + at.left
  BY <1>2, <1>3 DEF BlockAt, at
<1> QED BY <1>5, <1>6

\* The first region is that of group 0.
LEMMA FirstRegion ==
    ASSUME NEW n \in Nat \ {0}
    PROVE  /\ Cardinality(Before(n)) \in Nat \ {0}
           /\ \A g \in 0 .. (n - 1) : Cardinality(Before(g)) = 0 => g = 0
<1>1. Cardinality(Before(1)) = 1
  <2>1. ext4_bg_has_super_block(0)
    BY DEF ext4_bg_has_super_block
  <2>2. Cardinality(Before(0 + 1)) = 0 + 1
    BY <2>1, BeforeFacts
  <2> QED BY <2>2
<1>2. \A g \in Nat \ {0} : Cardinality(Before(g)) \in Nat /\ 1 <= Cardinality(Before(g))
  <2> SUFFICES ASSUME NEW g \in Nat \ {0}
               PROVE  Cardinality(Before(g)) \in Nat /\ 1 <= Cardinality(Before(g))
    OBVIOUS
  <2>1. g = 1 \/ 1 \in 0 .. (g - 1)
    OBVIOUS
  <2> QED BY <1>1, <2>1, BeforeFacts
<1> QED BY <1>2

\* A set of numbers has a least element.
LEMMA LeastExists ==
    ASSUME NEW S, S \subseteq Nat, S # {}
    PROVE  \E b \in S : \A c \in S : b <= c
<1> SUFFICES ASSUME \A b \in S : \E c \in S : c < b PROVE FALSE
  OBVIOUS
<1> DEFINE T == {n \in Nat : \A k \in 0 .. n : k \notin S}
<1>1. 0 \in T
  OBVIOUS
<1>2. \A n \in Nat : n \in T => n + 1 \in T
  OBVIOUS
<1> HIDE DEF T
<1>3. \A n \in Nat : n \in T
  BY <1>1, <1>2, SetInduction
<1>4. PICK b \in S : TRUE
  OBVIOUS
<1>5. b \in Nat /\ b \in 0 .. b
  OBVIOUS
<1>6. \A k \in 0 .. b : k \notin S
  BY <1>3, <1>5 DEF T
<1> QED BY <1>5, <1>6

\* The reserve, once every group's is appended: the blocks at the places of the
\* first region and of the others.
Placed(mem, k, n) ==
    \E g \in 0 .. (n - 1) : /\ ext4_bg_has_super_block(g) /\ Cardinality(Before(g)) = k - 1
                            /\ mem[k].block = ReservedBlock(g, 0)

LEMMA ReserveFacts ==
    ASSUME Layout, ParametersKept, Sensible(FirstAuxInfo), aux_info.groups > 0,
           pc \in {"oob", "attach", "inodes"},
           NEW m, m = Cardinality(Before(aux_info.groups))
    PROVE  /\ m \in Nat \ {0}
           /\ alloc = [mem |-> alloc.mem, list |-> alloc.list, oob_list |-> alloc.oob_list]
           /\ Linked(alloc.mem) /\ Row(alloc.mem, 1, m, Reserve) /\ alloc.list = ListOf(1, m)
           /\ Len(alloc.mem) = m + IF Attached THEN 1 ELSE 0
           /\ \A k \in 1 .. m : Placed(alloc.mem, k, aux_info.groups)
           /\ \A g, r \in Int : ReservedBlock(g, r) \in Int /\ ReservedBlock(g, 0) + r = ReservedBlock(g, r)
           /\ alloc.mem[1].block = ReservedBlock(0, 0)
           /\ \A j \in 0 .. (m - 1) : \A r \in 0 .. (Reserve - 1) : \A n :
                 n = j * Reserve + r => get_block(alloc, n) = alloc.mem[1 + j].block + r
           /\ \A r \in 0 .. (Reserve - 1) : get_block(alloc, r) = ReservedBlock(0, r)
<1>1. /\ aux_info.groups \in Nat \ {0} /\ Reserve \in Nat \ {0}
      /\ aux_info.bg_desc_blocks \in Nat /\ \A g \in Int : first_block(g) \in Int
  <2>1. pc # "aux_info"
    OBVIOUS
  <2>2. /\ aux_info.groups \in Nat /\ Reserve \in Nat \ {0}
        /\ aux_info.bg_desc_blocks \in Nat /\ \A g \in Int : first_block(g) \in Int
    BY <2>1, LayoutFacts
  <2> QED BY <2>2
<1>2. Appended = aux_info.groups
  BY DEF Appended
<1>3. m \in Nat \ {0} /\ \A g \in 0 .. (aux_info.groups - 1) : Cardinality(Before(g)) = 0 => g = 0
  BY <1>1, FirstRegion
<1>4. /\ alloc = [mem |-> alloc.mem, list |-> alloc.list, oob_list |-> alloc.oob_list]
      /\ Linked(alloc.mem) /\ Row(alloc.mem, 1, m, Reserve) /\ alloc.list = ListOf(1, m)
      /\ Len(alloc.mem) = m + IF Attached THEN 1 ELSE 0
  BY <1>2 DEF Layout, Regions
<1>5. \A k \in 1 .. m : Placed(alloc.mem, k, aux_info.groups)
  BY <1>2 DEF Layout, Regions, Placed
<1>6. \A g, r \in Int : ReservedBlock(g, r) \in Int /\ ReservedBlock(g, 0) + r = ReservedBlock(g, r)
  BY <1>1 DEF ReservedBlock
<1>7. alloc.mem[1].block = ReservedBlock(0, 0)
  <2>1. PICK g \in 0 .. (aux_info.groups - 1) :
           /\ Cardinality(Before(g)) = 1 - 1 /\ alloc.mem[1].block = ReservedBlock(g, 0)
    BY <1>3, <1>5, 1 \in 1 .. m DEF Placed
  <2> QED BY <1>3, <2>1
<1>8. \A j \in 0 .. (m - 1) : \A r \in 0 .. (Reserve - 1) : \A n :
         n = j * Reserve + r => get_block(alloc, n) = alloc.mem[1 + j].block + r
  <2>1. IsRow(alloc, 1, m, Reserve)
    BY <1>1, <1>3, <1>4 DEF IsRow
  <2>2. ReadAsRow(alloc, 1, m, Reserve)
    BY <2>1, BlockInRow
  <2>3. \A n : get_block(alloc, n) = BlockAt(alloc, ListOf(1, m), n)
    BY <1>4 DEF get_block
  <2> QED BY <2>2, <2>3 DEF ReadAsRow
<1>9. \A r \in 0 .. (Reserve - 1) : get_block(alloc, r) = ReservedBlock(0, r)
  <2> SUFFICES ASSUME NEW r \in 0 .. (Reserve - 1) PROVE get_block(alloc, r) = ReservedBlock(0, r)
    OBVIOUS
  <2>1. 0 \in 0 .. (m - 1) /\ r = 0 * Reserve + r /\ 1 + 0 = 1 /\ r \in Int
    BY <1>1, <1>3
  <2>2. get_block(alloc, r) = alloc.mem[1 + 0].block + r
    BY <1>8, <2>1
  <2>3. ReservedBlock(0, 0) + r = ReservedBlock(0, r)
    BY <1>6, <2>1
  <2> QED BY <1>7, <2>1, <2>2, <2>3
<1> QED BY <1>3, <1>4, <1>5, <1>6, <1>7, <1>8, <1>9

\* A region of one block goes to the other list.
OobAlloc(a, m, block, g) ==
    [mem |-> Grown(a.mem, m + 1, 0, 1, block, g).mem, list |-> a.list,
     oob_list |-> ListOf(m + 1, 1)]

HasOob(new, a, m, len, block) ==
    /\ Linked(new.mem) /\ Len(new.mem) = m + 1
    /\ Row(new.mem, 1, m, len) /\ Row(new.mem, m + 1, 1, 1)
    /\ \A k \in 1 .. m : new.mem[k] = a.mem[k]
    /\ get_oob_block(new, 0) = block

LEMMA OobAppended ==
    ASSUME NEW a, NEW m \in Nat \ {0}, NEW len \in Nat, NEW block \in Int, NEW g \in Int,
           Linked(a.mem), Len(a.mem) = m, Row(a.mem, 1, m, len)
    PROVE  HasOob(OobAlloc(a, m, block, g), a, m, len, block)
<1> DEFINE b == OobAlloc(a, m, block, g)
           mem == Grown(a.mem, m + 1, 0, 1, block, g).mem
<1>1. b = [mem |-> mem, list |-> a.list, oob_list |-> ListOf(m + 1, 1)]
  BY DEF OobAlloc
<1>2. b.mem = mem /\ b.oob_list = ListOf(m + 1, 1)
  BY <1>1
<1>3. PICK p \in Nat \ {0} : p = m + 1
  OBVIOUS
<1>4. PICK n \in Nat : n = 0
  OBVIOUS
<1>5. PICK l \in Nat : l = 1
  OBVIOUS
<1>6. PICK old : old = a.mem
  OBVIOUS
<1>7. HasGrown(Grown(old, p, n, l, block, g), old, p, n, l, block)
  <2>1. Row(old, p, n, l)
    BY <1>4 DEF Row
  <2>2. Linked(old) /\ Len(old) = p - 1 + n
    BY <1>3, <1>4, <1>6
  <2> QED BY <2>1, <2>2, RowGrows
<1>8. HasGrown(Grown(a.mem, m + 1, 0, 1, block, g), a.mem, m + 1, 0, 1, block)
  BY <1>3, <1>4, <1>5, <1>6, <1>7
<1> HIDE DEF b, mem
<1>9. /\ Linked(mem) /\ Len(mem) = m + 1 /\ Row(mem, m + 1, 1, 1)
      /\ \A q \in 1 .. m : mem[q] = a.mem[q]
      /\ mem[m + 1].block = block
  <2>1. m + 1 + 0 = m + 1 /\ 0 + 1 = 1 /\ m + 1 - 1 = m
    OBVIOUS
  <2> QED BY <1>8, <2>1 DEF HasGrown, mem
<1>10. Row(mem, 1, m, len)
  <2> SUFFICES ASSUME NEW k \in 1 .. m
               PROVE  /\ 1 + k - 1 \in DOMAIN mem /\ mem[1 + k - 1].len = len
                      /\ mem[1 + k - 1].next = IF k = m THEN NULL ELSE 1 + k
    BY DEF Row
  <2>1. 1 + k - 1 = k /\ k \in 1 .. (m + 1)
    OBVIOUS
  <2>2. a.mem[k].len = len /\ a.mem[k].next = IF k = m THEN NULL ELSE 1 + k
    BY <2>1 DEF Row
  <2>3. k \in DOMAIN mem
    BY <1>9, <2>1 DEF Linked
  <2> QED BY <1>9, <2>1, <2>2, <2>3
<1>11. get_oob_block(b, 0) = block
  <2>1. IsRow(b, m + 1, 1, 1)
    BY <1>2, <1>9 DEF IsRow
  <2>2. ReadAsRow(b, m + 1, 1, 1)
    BY <2>1, BlockInRow
  <2>3. 0 \in 0 .. (1 - 1) /\ 0 = 0 * 1 + 0 /\ m + 1 + 0 = m + 1
    OBVIOUS
  <2>4. BlockAt(b, ListOf(m + 1, 1), 0) = b.mem[m + 1 + 0].block + 0
    BY <2>2, <2>3 DEF ReadAsRow
  <2> QED BY <1>2, <1>9, <2>3, <2>4 DEF get_oob_block
<1> QED BY <1>2, <1>9, <1>10, <1>11 DEF b, HasOob

LEMMA OobStep ==
    ASSUME Layout, ParametersKept, Sensible(FirstAuxInfo), append_oob_allocation
    PROVE  Layout'
<1> DEFINE oob(g) == CHOOSE b \in FreeBits(g) : \A c \in FreeBits(g) : b <= c
           m == Cardinality(Before(aux_info.groups))
<1>1. /\ pc = "oob" /\ pc' = "attach"
      /\ ind' = [r \in 0 .. (Reserve - 1) |-> <<>>]
      /\ pieces' = pieces \cup {Piece("dind", get_oob_block(alloc', 0), 1),
                                Piece("ind", get_block(alloc, 0), Reserve)}
      /\ UNCHANGED <<info, aux_info, bg_desc, tables, dind, resize, i>>
  BY Zenon DEF append_oob_allocation
<1>2. PICK g \in DOMAIN bgs :
         /\ FreeBits(g) # {}
         /\ alloc' = LET mem == Append(alloc.mem, [block |-> first_block(g) + oob(g), len |-> 1,
                                                   bg |-> g, next |-> NULL, prev |-> NULL])
                         new == region_list_append(mem, alloc.oob_list, Len(mem))
                     IN  [alloc EXCEPT !.mem = new.mem, !.oob_list = new.list]
         /\ bgs' = [bgs EXCEPT ![g].used = @ \cup {oob(g)}]
  BY Zenon DEF append_oob_allocation
<1> DEFINE x == oob(g)
           block == first_block(g) + x
<1>3. /\ Begun = Groups /\ Begun' = Groups /\ Described' = Described
      /\ Appended = aux_info.groups /\ Appended' = aux_info.groups
      /\ ~Attached /\ Attached'
  <2>1. Groups' = Groups
    BY <1>1, Stay
  <2> QED BY <1>1, <2>1 DEF Begun, Described, Appended, Attached
<1>4. /\ aux_info.groups \in Nat /\ Reserve \in Nat \ {0} /\ Bpg \in Nat \ {0}
      /\ \A h \in Int : first_block(h) \in Int
  <2>1. pc # "aux_info"
    BY <1>1
  <2> QED BY <2>1, LayoutFacts
<1>5. /\ DOMAIN bgs = Groups
      /\ \A h \in Groups : bgs[h] = [first_block |-> first_block(h), used |-> FirstUsed(h)]
  BY <1>3 DEF Layout, Bitmaps
<1>6. g \in Groups /\ g \in Int /\ aux_info.groups > 0
  BY <1>2, <1>4, <1>5 DEF Groups
<1>7. FreeBits(g) = (0 .. (Bpg - 1)) \ FirstUsed(g)
  BY <1>5, <1>6 DEF FreeBits, Bpg
<1>8. x \in FreeBits(g)
  <2>1. FreeBits(g) \subseteq Nat
    BY <1>4, <1>7
  <2>2. PICK f : f = FreeBits(g)
    OBVIOUS
  <2>3. \E b \in f : \A c \in f : b <= c
    BY <1>2, <2>1, <2>2, LeastExists
  <2> QED BY <2>2, <2>3
<1> HIDE DEF oob
<1>9. x \in 0 .. (Bpg - 1) /\ x \notin FirstUsed(g) /\ block \in Int
  BY <1>4, <1>6, <1>7, <1>8
<1> HIDE DEF x
<1>10. /\ m \in Nat \ {0}
       /\ alloc = [mem |-> alloc.mem, list |-> alloc.list, oob_list |-> alloc.oob_list]
       /\ Linked(alloc.mem) /\ Row(alloc.mem, 1, m, Reserve) /\ alloc.list = ListOf(1, m)
       /\ Len(alloc.mem) = m + IF Attached THEN 1 ELSE 0
       /\ \A k \in 1 .. m : Placed(alloc.mem, k, aux_info.groups)
       /\ \A r \in 0 .. (Reserve - 1) : get_block(alloc, r) = ReservedBlock(0, r)
  BY <1>1, <1>6, ReserveFacts
<1>11. alloc.oob_list = EmptyList
  BY <1>3 DEF Layout, Regions
<1> HIDE DEF m
<1>12. Len(alloc.mem) = m
  BY <1>3, <1>10
<1>13. alloc' = OobAlloc(alloc, m, block, g)
  <2> DEFINE mem == Append(alloc.mem, [block |-> block, len |-> 1, bg |-> g, next |-> NULL, prev |-> NULL])
             new == region_list_append(mem, alloc.oob_list, Len(mem))
  <2>1. Len(mem) = m + 1 /\ m + 1 + 0 = m + 1
    BY <1>10, <1>12 DEF Linked
  <2>2. ListOf(m + 1, 0) = EmptyList
    BY DEF ListOf
  <2>3. alloc' = [alloc EXCEPT !.mem = new.mem, !.oob_list = new.list]
    BY <1>2, Zenon DEF x, block
  <2>4. new = Grown(alloc.mem, m + 1, 0, 1, block, g)
    BY <1>11, <2>1, <2>2 DEF Grown
  <2> HIDE DEF mem, new
  <2>5. new.list = ListOf(m + 1, 1)
    <3>1. PICK p \in Nat \ {0} : p = m + 1
      BY <1>10
    <3>2. PICK n \in Nat : n = 0
      OBVIOUS
    <3>3. PICK l \in Nat : l = 1
      OBVIOUS
    <3>4. PICK old : old = alloc.mem
      OBVIOUS
    <3>5. PICK b \in Int : b = block
      BY <1>9
    <3>6. PICK q \in Int : q = g
      BY <1>6
    <3>7. Row(old, p, n, l) /\ Linked(old) /\ Len(old) = p - 1 + n
      BY <1>10, <1>12, <3>1, <3>2, <3>4 DEF Row
    <3>8. HasGrown(Grown(old, p, n, l, b, q), old, p, n, l, b)
      BY <3>7, RowGrows
    <3>9. HasGrown(new, alloc.mem, m + 1, 0, 1, block)
      BY <2>4, <3>1, <3>2, <3>3, <3>4, <3>5, <3>6, <3>8
    <3>10. new = [mem |-> new.mem, list |-> ListOf(m + 1, 0 + 1)] /\ 0 + 1 = 1
      BY <3>9 DEF HasGrown
    <3> QED BY <3>10
  <2>6. alloc' = [mem |-> new.mem, list |-> alloc.list, oob_list |-> new.list]
    BY <1>10, <2>3
  <2> QED BY <2>4, <2>5, <2>6 DEF OobAlloc
<1>14. PICK a : a = alloc'
  OBVIOUS
<1>15. /\ Linked(a.mem) /\ Len(a.mem) = m + 1
       /\ Row(a.mem, 1, m, Reserve) /\ Row(a.mem, m + 1, 1, 1)
       /\ \A k \in 1 .. m : a.mem[k] = alloc.mem[k]
       /\ get_oob_block(a, 0) = block
  <2>1. PICK old : old = alloc
    OBVIOUS
  <2>2. PICK d \in Nat \ {0} : d = m
    BY <1>10
  <2>3. PICK len \in Nat : len = Reserve
    BY <1>4
  <2>4. PICK b \in Int : b = block
    BY <1>9
  <2>5. PICK q \in Int : q = g
    BY <1>6
  <2>6. Linked(old.mem) /\ Len(old.mem) = d /\ Row(old.mem, 1, d, len)
    BY <1>10, <1>12, <2>1, <2>2, <2>3
  <2>7. a = OobAlloc(old, d, b, q)
    BY <1>13, <1>14, <2>1, <2>2, <2>4, <2>5
  <2>8. HasOob(OobAlloc(old, d, b, q), old, d, len, b)
    BY <2>6, OobAppended
  <2>9. HasOob(a, alloc, m, Reserve, block)
    BY <2>1, <2>2, <2>3, <2>4, <2>7, <2>8
  <2> QED BY <2>9 DEF HasOob
<1>16. /\ a = [mem |-> a.mem, list |-> a.list, oob_list |-> a.oob_list]
       /\ a.list = ListOf(1, m) /\ a.oob_list = ListOf(m + 1, 1)
  BY <1>10, <1>13, <1>14 DEF OobAlloc
<1>17. /\ Bpg' = Bpg /\ Groups' = Groups /\ Reserve' = Reserve
       /\ \A h : /\ first_block(h)' = first_block(h) /\ FirstUsed(h)' = FirstUsed(h)
                 /\ BitmapBlock(h)' = BitmapBlock(h)
                 /\ Super(h)' = Super(h) /\ Desc(h)' = Desc(h)
       /\ \A h, r : ReservedBlock(h, r)' = ReservedBlock(h, r)
  BY <1>1, Stay
<1>18. get_oob_block(alloc, 0)' = block
  <2>1. get_oob_block(alloc, 0)' = get_oob_block(a, 0)
    BY <1>14 DEF get_oob_block, BlockAt, SkipRegions, Chain
  <2> QED BY <1>15, <2>1
<1>19. Progress'
  BY <1>1 DEF Layout, Progress, Loops
<1>20. Bitmaps'
  <2>1. DOMAIN bgs' = Groups
    BY <1>2, <1>5
  <2>2. \A h \in Groups : bgs'[h].used = FirstUsed(h) \cup IF h = g THEN {x} ELSE {}
    <3> SUFFICES ASSUME NEW h \in Groups
                 PROVE  bgs'[h].used = FirstUsed(h) \cup IF h = g THEN {x} ELSE {}
      OBVIOUS
    <3>1. bgs[h] = [first_block |-> first_block(h), used |-> FirstUsed(h)]
      BY <1>5
    <3>2. CASE h = g
      <4>1. bgs'[h] = [bgs[h] EXCEPT !.used = @ \cup {x}]
        BY <1>2, <1>5, <3>2 DEF x
      <4> QED BY <3>1, <3>2, <4>1
    <3>3. CASE h # g
      <4>1. bgs'[h] = bgs[h]
        BY <1>2, <1>5, <3>3
      <4> QED BY <3>1, <3>3, <4>1
    <3> QED BY <3>2, <3>3
  <2>3. PICK y \in Int : y = x
    BY <1>9
  <2>4. Taken(g, y)'
    BY <1>6, <1>9, <1>17, <1>18, <2>2, <2>3 DEF Taken, block
  <2> QED BY <1>3, <1>6, <2>1, <2>3, <2>4 DEF Bitmaps
<1>21. Descriptors'
  BY <1>1, <1>3, <1>17 DEF Layout, Descriptors
<1>22. Queued'
  <2>1. Copied' = Copied
    BY <1>3 DEF Copied
  <2>2. \A t, b, s : Piece(t, b, s)' = Piece(t, b, s)
    BY DEF Piece
  <2>3. get_block(alloc, 0) = ReservedBlock(0, 0)
    BY <1>4, <1>10, 0 \in 0 .. (Reserve - 1)
  <2>4. pieces' = pieces \cup {Piece("dind", get_oob_block(alloc, 0)', 1),
                               Piece("ind", ReservedBlock(0, 0), Reserve)}
    BY <1>1, <2>3
  <2> QED BY <1>1, <1>3, <1>17, <2>1, <2>2, <2>4 DEF Layout, Queued
<1>23. Regions'
  <2>1. Cardinality(Before(Appended))' = m
    BY <1>3 DEF Before, m
  <2>2. \A k \in 1 .. m : \E h \in 0 .. (aux_info.groups - 1) :
          /\ ext4_bg_has_super_block(h) /\ Cardinality(Before(h)) = k - 1
          /\ alloc'.mem[k].block = ReservedBlock(h, 0)
    BY <1>10, <1>14, <1>15 DEF Placed
  <2> QED BY <1>3, <1>14, <1>15, <1>16, <1>17, <2>1, <2>2 DEF Regions
<1>24. Map'
  <2>1. dind' = <<>> /\ i' = 0
    BY <1>1, <1>3 DEF Layout, Map, Progress
  <2>2. dind' \in Seq(Int) /\ Len(dind') = 0 /\ 1 .. 0 = {}
    BY <2>1
  <2>3. DOMAIN ind' = 0 .. (Reserve - 1) /\ \A r \in DOMAIN ind' : ind'[r] = <<>>
    BY <1>1
  <2>4. pc' # "inodes" /\ 0 <= Reserve
    BY <1>1, <1>4
  <2> QED BY <1>3, <1>17, <2>1, <2>2, <2>3, <2>4 DEF Map
<1> QED BY <1>19, <1>20, <1>21, <1>22, <1>23, <1>24 DEF Layout

-----------------------------------------------------------------------------
(* The steps once the resize inode has its blocks                          *)

LEMMA RegionsStill ==
    ASSUME Regions, UNCHANGED <<info, aux_info, alloc>>, Appended' = Appended,
           Attached, Attached'
    PROVE  Regions'
<1>1. Reserve' = Reserve /\ \A g, r : ReservedBlock(g, r)' = ReservedBlock(g, r)
  BY Stay
<1> QED BY <1>1 DEF Regions

\* The rows that are there stay.
LEMMA ListsStill ==
    ASSUME UNCHANGED <<info, aux_info, bgs>>
    PROVE  Copies' = Copies /\ \A row, r : Lists(row, r)' <=> Lists(row, r)
<1>1. \A g, r : ReservedBlock(g, r)' = ReservedBlock(g, r)
  BY Stay
<1>2. Copies' = Copies
  BY DEF Copies
<1> QED BY <1>1, <1>2 DEF Lists

LEMMA AttachedFacts ==
    ASSUME Layout, ParametersKept, Sensible(FirstAuxInfo), Attached
    PROVE  /\ aux_info.groups \in Nat \ {0}
           /\ Begun = Groups /\ DOMAIN bgs = Groups
           /\ Copies = Before(aux_info.groups)
           /\ superblocks = Cardinality(Copies)
           /\ Reserve \in Nat \ {0} /\ Cardinality(Copies) \in Nat \ {0}
<1>1. pc \in {"attach", "inodes"} /\ pc # "aux_info"
  BY DEF Attached
<1>2. Begun = Groups
  BY <1>1 DEF Begun
<1>3. PICK t \in Int, x \in Int : Taken(t, x)
  BY DEF Layout, Bitmaps
<1>4. t \in Groups /\ DOMAIN bgs = Groups
  BY <1>2, <1>3 DEF Layout, Bitmaps, Taken
<1>5. aux_info.groups \in Nat /\ Reserve \in Nat \ {0}
  BY <1>1, LayoutFacts
<1>6. aux_info.groups \in Nat \ {0} /\ aux_info.groups > 0
  BY <1>4, <1>5 DEF Groups
<1>7. Copies = Before(aux_info.groups)
  BY <1>4 DEF Copies, Before, Groups
<1>8. PICK m : m = Cardinality(Before(aux_info.groups))
  OBVIOUS
<1>9. /\ m \in Nat \ {0} /\ Linked(alloc.mem) /\ Row(alloc.mem, 1, m, Reserve)
      /\ alloc.list = ListOf(1, m)
  BY <1>1, <1>6, <1>8, ReserveFacts
<1>10. alloc.list.first = 1
  BY <1>9 DEF ListOf
<1>11. superblocks = m
  <2>1. PICK a : a = alloc
    OBVIOUS
  <2>2. PICK len \in Nat \ {0} : len = Reserve
    BY <1>5
  <2>3. PICK p \in Nat \ {0} : p = 1
    OBVIOUS
  <2>4. Linked(a.mem) /\ Row(a.mem, p, m, len) /\ m \in Nat \ {0}
    BY <1>9, <2>1, <2>2, <2>3
  <2>5. Len(BlocksFrom(a, p)) = m * len
    BY <2>4, RowBlocks, ZenonT(30)
  <2>6. m * len = m * len + 0 /\ 0 \in 0 .. (len - 1) /\ m \in Int
    BY <1>9
  <2>7. (m * len + 0) \div len = m
    BY <2>6, UniqueDivision
  <2> QED BY <1>10, <2>1, <2>2, <2>3, <2>5, <2>6, <2>7 DEF superblocks
<1> QED BY <1>2, <1>4, <1>5, <1>6, <1>7, <1>8, <1>9, <1>11

LEMMA PositionInReserve ==
    ASSUME ParametersKept, Sensible(FirstAuxInfo), pc # "aux_info", NEW n \in Int
    PROVE  ReservePosition(n) \in 0 .. (Reserve - 1)
<1>1. /\ Reserve \in Nat \ {0} /\ U32 \in Nat \ {0} /\ aux_info.bg_desc_blocks \in Nat
  <2>1. Reserve \in Nat \ {0} /\ U32 \in Nat /\ aux_info.bg_desc_blocks \in Nat
        /\ Bpg \in Nat /\ Bpg < U32
    BY LayoutFacts
  <2> QED BY <2>1
<1> DEFINE x == n - aux_info.bg_desc_blocks + U32
<1>2. x \in Int
  BY <1>1
<1> HIDE DEF x
<1>3. x % U32 \in 0 .. (U32 - 1)
  BY <1>1, <1>2, QuotientAndRest
<1>4. x % U32 \in Int
  BY <1>3, <1>1
<1>5. (x % U32) % Reserve \in 0 .. (Reserve - 1)
  BY <1>1, <1>4, QuotientAndRest
<1> QED BY <1>5 DEF ReservePosition, x, Reserve

\* A row that inode_attach_resize fills in.
LEMMA RowIsRight ==
    ASSUME Layout, ParametersKept, Sensible(FirstAuxInfo), Attached,
           NEW r \in 0 .. (Reserve - 1)
    PROVE  Lists([j \in 1 .. (superblocks - 1) |-> get_block(alloc, j * Reserve + r)], r)
<1> DEFINE m == Cardinality(Before(aux_info.groups))
           At(j) == get_block(alloc, j * Reserve + r)
           row == [j \in 1 .. (m - 1) |-> At(j)]
<1>1. pc \in {"attach", "inodes"} /\ pc # "aux_info"
  BY DEF Attached
<1>2. /\ aux_info.groups \in Nat \ {0} /\ aux_info.groups > 0 /\ DOMAIN bgs = Groups
      /\ Copies = Before(aux_info.groups) /\ superblocks = m
  BY AttachedFacts
<1>3. /\ m \in Nat \ {0} /\ Linked(alloc.mem)
      /\ \A k \in 1 .. m : Placed(alloc.mem, k, aux_info.groups)
      /\ \A g, s \in Int : ReservedBlock(g, s) \in Int /\ ReservedBlock(g, 0) + s = ReservedBlock(g, s)
      /\ \A j \in 0 .. (m - 1) : \A s \in 0 .. (Reserve - 1) : \A n :
            n = j * Reserve + s => get_block(alloc, n) = alloc.mem[1 + j].block + s
  BY <1>1, <1>2, ReserveFacts
<1> HIDE DEF m
<1>4. ASSUME NEW j \in 1 .. (m - 1)
      PROVE  /\ At(j) \in Int
             /\ \E g \in Copies : Cardinality(Before(g)) = j /\ At(j) = ReservedBlock(g, r)
  <2>1. j \in 0 .. (m - 1) /\ 1 + j \in 1 .. m /\ (1 + j) - 1 = j /\ r \in Int
    BY <1>3
  <2>2. At(j) = alloc.mem[1 + j].block + r
    BY <1>3, <2>1
  <2>3. PICK g \in 0 .. (aux_info.groups - 1) :
           /\ ext4_bg_has_super_block(g) /\ Cardinality(Before(g)) = j
           /\ alloc.mem[1 + j].block = ReservedBlock(g, 0)
    BY <1>3, <2>1 DEF Placed
  <2>4. g \in Copies /\ g \in Int
    BY <1>2, <2>3 DEF Before
  <2>5. At(j) = ReservedBlock(g, r) /\ ReservedBlock(g, r) \in Int
    BY <1>3, <2>1, <2>2, <2>3, <2>4
  <2> QED BY <2>3, <2>4, <2>5
<1> HIDE DEF At
<1>5. row \in Seq(Int) /\ Len(row) = m - 1 /\ DOMAIN row = 1 .. (m - 1)
  BY <1>3, <1>4
<1>6. \A j \in 1 .. (m - 1) : row[j] = At(j)
  OBVIOUS
<1>7. Cardinality(Copies) = m
  BY <1>2 DEF m
<1> HIDE DEF row
<1>8. Lists(row, r)
  BY <1>4, <1>5, <1>6, <1>7 DEF Lists
<1> QED BY <1>2, <1>8 DEF row, At

LEMMA AttachStep ==
    ASSUME Layout, ParametersKept, Sensible(FirstAuxInfo), inode_attach_resize
    PROVE  Layout'
<1> DEFINE r == ReservePosition(i)
           new == [j \in 1 .. (superblocks - 1) |-> get_block(alloc, j * Reserve + r)]
<1>1. /\ pc = "attach" /\ pc' = "attach" /\ i < Reserve /\ i' = i + 1
      /\ dind' = Append(dind, get_block(alloc, r))
      /\ ind' = [ind EXCEPT ![r] = new]
      /\ UNCHANGED <<info, aux_info, bgs, bg_desc, pieces, tables, alloc, resize>>
  BY DEF inode_attach_resize
<1>2. Attached /\ Attached' /\ pc # "aux_info" /\ pc \in {"oob", "attach", "inodes"}
  BY <1>1 DEF Attached
<1>3. Begun' = Begun /\ Described' = Described /\ Appended' = Appended
  BY <1>1, Stay DEF Begun, Described, Appended
<1>4. i \in Nat /\ i \in Int
  BY DEF Layout, Progress
<1>5. Progress'
  BY <1>1, <1>4 DEF Layout, Progress, Loops
<1>6. Bitmaps' /\ Descriptors' /\ Queued'
  BY <1>1, <1>2, <1>3, PlacesKept DEF Layout
<1>7. Regions'
  BY <1>1, <1>2, <1>3, RegionsStill DEF Layout
<1>8. Reserve \in Nat \ {0} /\ aux_info.groups \in Nat \ {0} /\ aux_info.groups > 0
  BY <1>2, AttachedFacts
<1>9. r \in 0 .. (Reserve - 1)
  BY <1>2, <1>4, PositionInReserve
<1>10. Lists(new, r)
  <2>1. \A x \in 0 .. (Reserve - 1) :
           Lists([j \in 1 .. (superblocks - 1) |-> get_block(alloc, j * Reserve + x)], x)
    BY <1>2, RowIsRight
  <2> QED BY <1>9, <2>1
<1> HIDE DEF new
<1>11. /\ \A x \in 0 .. (Reserve - 1) : get_block(alloc, x) = ReservedBlock(0, x)
       /\ \A g, x \in Int : ReservedBlock(g, x) \in Int
  <2>1. PICK m : m = Cardinality(Before(aux_info.groups))
    OBVIOUS
  <2> QED BY <1>2, <1>8, <2>1, ReserveFacts
<1>12. get_block(alloc, r) = ReservedBlock(0, r) /\ ReservedBlock(0, r) \in Int
  BY <1>8, <1>9, <1>11
<1> HIDE DEF r
<1>13. /\ dind \in Seq(Int) /\ Len(dind) = i /\ DOMAIN ind = 0 .. (Reserve - 1)
       /\ \A n \in 1 .. i : dind[n] = ReservedBlock(0, ReservePosition(n - 1))
       /\ \A x \in DOMAIN ind : ind[x] = <<>> \/ Lists(ind[x], x)
  BY <1>2 DEF Layout, Map
<1>14. /\ dind' \in Seq(Int) /\ Len(dind') = i + 1
       /\ \A n \in 1 .. i : dind'[n] = dind[n]
       /\ dind'[i + 1] = ReservedBlock(0, r)
  BY <1>1, <1>12, <1>13, AppendProperties
<1>15. \A n \in 1 .. (i + 1) : dind'[n] = ReservedBlock(0, ReservePosition(n - 1))
  <2> SUFFICES ASSUME NEW n \in 1 .. (i + 1)
               PROVE  dind'[n] = ReservedBlock(0, ReservePosition(n - 1))
    OBVIOUS
  <2>1. CASE n = i + 1
    <3>1. n - 1 = i
      BY <1>4, <2>1
    <3> QED BY <1>14, <2>1, <3>1 DEF r
  <2>2. CASE n # i + 1
    <3>1. n \in 1 .. i
      BY <1>4, <2>2
    <3> QED BY <1>13, <1>14, <3>1
  <2> QED BY <2>1, <2>2
<1>16. /\ DOMAIN ind' = 0 .. (Reserve - 1)
       /\ \A x \in DOMAIN ind' : ind'[x] = <<>> \/ Lists(ind'[x], x)
  <2>1. DOMAIN ind' = 0 .. (Reserve - 1)
    BY <1>1, <1>13
  <2>2. \A x \in 0 .. (Reserve - 1) : ind'[x] = IF x = r THEN new ELSE ind[x]
    BY <1>1, <1>13
  <2> QED BY <1>10, <1>13, <2>1, <2>2
<1>17. Map'
  <2>1. Reserve' = Reserve /\ \A g, x : ReservedBlock(g, x)' = ReservedBlock(g, x)
        /\ \A n : ReservePosition(n)' = ReservePosition(n)
    BY <1>1, Stay
  <2>2. \A row, x : Lists(row, x)' <=> Lists(row, x)
    BY <1>1, ListsStill
  <2>3. i' = i + 1 /\ i' <= Reserve /\ pc' # "inodes"
    BY <1>1, <1>4, <1>8
  <2>4. \A x \in DOMAIN ind' : ind'[x] = <<>> \/ Lists(ind[x], x)'
    <3> SUFFICES ASSUME NEW x \in DOMAIN ind', ind'[x] # <<>> PROVE Lists(ind[x], x)'
      OBVIOUS
    <3>1. PICK row : row = ind'[x]
      OBVIOUS
    <3>2. Lists(row, x)
      BY <1>16, <3>1
    <3>3. Lists(row, x)'
      BY <2>2, <3>2
    <3> QED BY <3>1, <3>3 DEF Lists
  <2> QED BY <1>2, <1>14, <1>15, <1>16, <2>1, <2>3, <2>4 DEF Map
<1> QED BY <1>5, <1>6, <1>7, <1>17 DEF Layout

\* The map stays when neither it nor what it is about changes.
LEMMA MapStill ==
    ASSUME Map, UNCHANGED <<info, aux_info, bgs, dind, ind, i>>, Attached' <=> Attached,
           Attached' /\ pc' = "inodes" => resize'.i_blocks = Cardinality(Copies) * Reserve + 1
    PROVE  Map'
<1>1. /\ Reserve' = Reserve /\ \A g, r : ReservedBlock(g, r)' = ReservedBlock(g, r)
      /\ \A n : ReservePosition(n)' = ReservePosition(n)
  BY Stay
<1>2. Copies' = Copies /\ \A row, r : Lists(row, r)' <=> Lists(row, r)
  BY ListsStill
<1>3. CASE ~Attached
  BY <1>3 DEF Map
<1>4. CASE Attached
  <2>1. \A r \in DOMAIN ind' : ind'[r] = <<>> \/ Lists(ind[r], r)'
    <3> SUFFICES ASSUME NEW r \in DOMAIN ind', ind'[r] # <<>> PROVE Lists(ind[r], r)'
      OBVIOUS
    <3>1. PICK row : row = ind'[r]
      OBVIOUS
    <3>2. Lists(row, r)
      BY <1>4, <3>1 DEF Map
    <3>3. Lists(row, r)'
      BY <1>2, <3>2
    <3> QED BY <3>1, <3>3 DEF Lists
  <2> QED BY <1>1, <1>2, <1>4, <2>1 DEF Map
<1> QED BY <1>3, <1>4

LEMMA FinishStep ==
    ASSUME Layout, ParametersKept, Sensible(FirstAuxInfo), finish_resize
    PROVE  Layout'
<1>1. /\ pc = "attach" /\ pc' = "inodes"
      /\ resize' = [i_blocks |-> superblocks * Reserve + 1,
                    i_size |-> 12 + PerInd * Reserve + superblocks - 2]
      /\ UNCHANGED <<info, aux_info, bgs, bg_desc, pieces, tables, alloc, dind, ind, i>>
  BY DEF finish_resize
<1>2. Attached /\ Attached'
  BY <1>1 DEF Attached
<1>3. Begun' = Begun /\ Described' = Described /\ Appended' = Appended
  BY <1>1, Stay DEF Begun, Described, Appended
<1>4. Progress'
  BY <1>1 DEF Layout, Progress, Loops
<1>5. Bitmaps' /\ Descriptors' /\ Queued'
  BY <1>1, <1>2, <1>3, PlacesKept DEF Layout
<1>6. Regions'
  BY <1>1, <1>2, <1>3, RegionsStill DEF Layout
<1>7. resize'.i_blocks = Cardinality(Copies) * Reserve + 1
  <2>1. superblocks = Cardinality(Copies)
    BY <1>2, AttachedFacts
  <2>2. resize'.i_blocks = superblocks * Reserve + 1
    BY <1>1
  <2> QED BY <2>1, <2>2
<1>8. Map'
  BY <1>1, <1>2, <1>7, MapStill DEF Layout
<1> QED BY <1>4, <1>5, <1>6, <1>8 DEF Layout

LEMMA TableStep ==
    ASSUME Layout, ParametersKept, Sensible(FirstAuxInfo), NEW g \in DOMAIN bgs,
           allocate_bg_inode_table(g)
    PROVE  Layout'
<1>1. /\ pc = "inodes" /\ pc' = pc /\ tables' = tables \cup {g}
      /\ UNCHANGED <<info, aux_info, bgs, bg_desc, alloc, dind, ind, resize, i>>
  BY DEF allocate_bg_inode_table
<1>2. Attached /\ Attached' /\ pc # "aux_info"
  BY <1>1 DEF Attached
<1>3. Begun' = Begun /\ Described' = Described /\ Appended' = Appended
  BY <1>1, Stay DEF Begun, Described, Appended
<1>4. Progress'
  BY <1>1 DEF Layout, Progress, Loops
<1>5. Bitmaps' /\ Descriptors'
  BY <1>1, <1>2, <1>3, BitsKept DEF Layout
<1>6. Regions'
  BY <1>1, <1>2, <1>3, RegionsStill DEF Layout
<1>7. Map'
  <2>1. pc' = "inodes" => resize'.i_blocks = Cardinality(Copies) * Reserve + 1
    BY <1>1, <1>2 DEF Layout, Map
  <2> QED BY <1>1, <1>2, <2>1, MapStill DEF Layout
<1>8. g \in Begun /\ g \in Int
  <2>1. DOMAIN bgs = Begun /\ Begun = Groups
    BY <1>1 DEF Layout, Bitmaps, Begun
  <2>2. \A h \in Groups : h \in Int
    BY DEF Groups
  <2> QED BY <2>1, <2>2
<1>9. pieces' = pieces \cup {Piece("inodes", BitmapBlock(g) + 2, aux_info.inode_table_blocks)}
  <2> DEFINE s == IF ext4_bg_has_super_block(g) THEN super_blocks(aux_info) ELSE 0
  <2>1. first_block(g) \in Int /\ super_blocks(aux_info) \in Int
    <3>1. super_blocks(aux_info) = 1 + aux_info.bg_desc_blocks + Reserve
          /\ aux_info.bg_desc_blocks \in Nat /\ Reserve \in Nat \ {0}
      BY <1>2, LayoutFacts
    <3>2. \A h \in Int : first_block(h) \in Int
      BY <1>2, LayoutFacts
    <3> QED BY <1>8, <3>1, <3>2
  <2>2. first_block(g) + 2 + s = BitmapBlock(g) + 2
    BY <2>1 DEF BitmapBlock
  <2>3. pieces' = pieces \cup {Piece("inodes", first_block(g) + 2 + s, aux_info.inode_table_blocks)}
    BY DEF allocate_bg_inode_table
  <2> QED BY <2>2, <2>3
<1>10. Queued'
  <2>1. Copied' = Copied
    BY <1>3 DEF Copied
  <2>2. \A t, b, s : Piece(t, b, s)' = Piece(t, b, s)
    BY DEF Piece
  <2>3. /\ Reserve' = Reserve
        /\ \A h : /\ BitmapBlock(h)' = BitmapBlock(h)
                  /\ Super(h)' = Super(h) /\ Desc(h)' = Desc(h)
        /\ \A h, r : ReservedBlock(h, r)' = ReservedBlock(h, r)
    BY <1>1, Stay
  <2>4. get_oob_block(alloc, 0)' = get_oob_block(alloc, 0)
    BY <1>1, Zenon
  <2> QED BY <1>1, <1>2, <1>3, <1>8, <1>9, <2>1, <2>2, <2>3, <2>4 DEF Layout, Queued
<1> QED BY <1>4, <1>5, <1>6, <1>7, <1>10 DEF Layout

\* A step that changes nothing but pc, and that only at its end.
LEMMA QuietStep ==
    ASSUME Layout, pc # "aux_info",
           UNCHANGED <<info, aux_info, bgs, bg_desc, pieces, tables, alloc, dind, ind, resize, i>>,
           pc' = pc \/ (pc = "oob" /\ pc' = "hangs")
    PROVE  Layout'
<1>1. Begun' = Begun /\ Described' = Described /\ Appended' = Appended /\ (Attached' <=> Attached)
  BY Stay DEF Begun, Described, Appended, Attached
<1>2. Progress'
  BY DEF Layout, Progress, Loops
<1>3. Bitmaps' /\ Descriptors' /\ Queued'
  BY <1>1, PlacesKept DEF Layout
<1>4. Regions'
  BY <1>1, RegionsStill, RegionsKept DEF Layout
<1>5. Map'
  <2>1. Attached' /\ pc' = "inodes" => resize'.i_blocks = Cardinality(Copies) * Reserve + 1
    BY <1>1 DEF Layout, Map
  <2> QED BY <1>1, <2>1, MapStill DEF Layout
<1> QED BY <1>2, <1>3, <1>4, <1>5 DEF Layout

LEMMA LayoutStep == LayoutInv /\ [Next]_vars => LayoutInv'
<1> SUFFICES ASSUME LayoutInv, [Next]_vars PROVE LayoutInv'
  OBVIOUS
<1>1. ParametersKept /\ ParametersKept'
  BY ParametersStep DEF LayoutInv
<1>2. info' = info
  <2>1. ASSUME Next PROVE info' = info
    BY <2>1 DEF Next, ext4_create_fs_aux_info, init_bg, ext4_fill_in_sb, append_reserved, Group,
          append_oob_allocation, no_oob_block, inode_attach_resize, finish_resize,
          allocate_bg_inode_table
  <2> QED BY <2>1 DEF vars
<1>3. Sensible(FirstAuxInfo)' => Sensible(FirstAuxInfo)
  <2>1. FirstAuxInfo' = FirstAuxInfo
    BY <1>2 DEF FirstAuxInfo, compute_inodes_per_group
  <2> QED BY <1>2, <2>1 DEF Sensible, Headers, super_blocks
<1> SUFFICES ASSUME Sensible(FirstAuxInfo) PROVE (IF pc = "aux_info" THEN Nothing ELSE Layout)'
  BY <1>1, <1>3 DEF LayoutInv
<1>4. IF pc = "aux_info" THEN Nothing ELSE Layout
  BY DEF LayoutInv
<1>5. CASE pc = "aux_info"
  <2>1. CASE ext4_create_fs_aux_info
    <3>1. pc' # "aux_info"
      BY <2>1 DEF ext4_create_fs_aux_info
    <3> QED BY <1>4, <1>5, <2>1, <3>1, CreateStep
  <2>2. CASE UNCHANGED vars
    BY <1>4, <1>5, <2>2 DEF vars, Nothing
  <2> QED BY <1>5, <2>1, <2>2
          DEF Next, init_bg, ext4_fill_in_sb, append_reserved, Group, append_oob_allocation,
              no_oob_block, inode_attach_resize, finish_resize, allocate_bg_inode_table
<1>6. CASE pc # "aux_info"
  <2>1. Layout
    BY <1>4, <1>6
  <2>2. SUFFICES Layout'
    <3>1. pc' # "aux_info"
      BY <2>2 DEF Layout, Progress, Loops
    <3> QED BY <2>2, <3>1
  <2>3. CASE init_bg
    BY <1>1, <2>1, <2>3, InitBgStep
  <2>4. CASE ext4_fill_in_sb
    BY <1>1, <2>1, <2>4, FillStep
  <2>5. CASE append_reserved
    BY <1>1, <2>1, <2>5, AppendStep
  <2>6. CASE append_oob_allocation
    BY <1>1, <2>1, <2>6, OobStep
  <2>7. CASE no_oob_block
    <3>1. pc = "oob" /\ pc' = "hangs"
          /\ UNCHANGED <<info, aux_info, bgs, bg_desc, pieces, tables, alloc, dind, ind, resize, i>>
      BY <2>7 DEF no_oob_block
    <3> QED BY <1>6, <2>1, <3>1, QuietStep
  <2>8. CASE inode_attach_resize
    BY <1>1, <2>1, <2>8, AttachStep
  <2>9. CASE finish_resize
    BY <1>1, <2>1, <2>9, FinishStep
  <2>10. ASSUME NEW g \in DOMAIN bgs, allocate_bg_inode_table(g) PROVE Layout'
    BY <1>1, <2>1, <2>10, TableStep
  <2>11. CASE UNCHANGED vars
    <3>1. pc' = pc
          /\ UNCHANGED <<info, aux_info, bgs, bg_desc, pieces, tables, alloc, dind, ind, resize, i>>
      BY <2>11 DEF vars
    <3> QED BY <1>6, <2>1, <3>1, QuietStep
  <2>12. ~ext4_create_fs_aux_info
    BY <1>6 DEF ext4_create_fs_aux_info
  <2> QED BY <2>3, <2>4, <2>5, <2>6, <2>7, <2>8, <2>9, <2>10, <2>11, <2>12 DEF Next
<1> QED BY <1>5, <1>6

\* The invariant holds in every state.
THEOREM LaidOut == Spec => []LayoutInv
<1>1. Init => LayoutInv
  BY DEF Init, LayoutInv, ParametersKept, Nothing
<1> QED BY <1>1, LayoutStep, PTL DEF Spec

-----------------------------------------------------------------------------
(* The descriptors                                                         *)

\* Which pieces there are, by what they are.
LEMMA PiecesAre ==
    ASSUME Queued, NEW p
    PROVE  p \in pieces <=>
             \/ \E g \in {0} \cup Copied : p = Super(g)
             \/ \E g \in {0} \cup Copied : p = Desc(g)
             \/ \E g \in Begun : p = Piece("bitmaps", BitmapBlock(g), 2)
             \/ \E g \in tables : p = Piece("inodes", BitmapBlock(g) + 2, aux_info.inode_table_blocks)
             \/ Attached /\ p = Piece("dind", get_oob_block(alloc, 0), 1)
             \/ Attached /\ p = Piece("ind", ReservedBlock(0, 0), Reserve)
BY Zenon DEF Queued

LEMMA KindsAre ==
    \A b, s : /\ Piece("bitmaps", b, s).what = "bitmaps" /\ Piece("inodes", b, s).what = "inodes"
              /\ Piece("dind", b, s).what = "dind" /\ Piece("ind", b, s).what = "ind"
              /\ Piece("super", b, s).what = "super" /\ Piece("desc", b, s).what = "desc"
              /\ \A w : Piece(w, b, s).block = b /\ Piece(w, b, s).size = s
BY DEF Piece

LEMMA DescriptorsRight ==
    ASSUME Layout, ParametersKept, Sensible(FirstAuxInfo), pc # "aux_info"
    PROVE  DescriptorsPoint
<1> SUFFICES ASSUME Laid
             PROVE  /\ {[b |-> bg_desc[g].bg_block_bitmap, i |-> bg_desc[g].bg_inode_bitmap] : g \in DOMAIN bgs}
                          = {[b |-> p.block, i |-> p.block + 1] : p \in {q \in pieces : q.what = "bitmaps"}}
                    /\ {bg_desc[g].bg_inode_table : g \in tables}
                          = {p.block : p \in {q \in pieces : q.what = "inodes"}}
                    /\ \A g \in DOMAIN bgs :
                          bg_desc[g].bg_inode_table + aux_info.inode_table_blocks
                             = first_block(g) + header_blocks(g)
  BY DEF DescriptorsPoint
<1>1. Begun = Groups /\ Described = Groups /\ DOMAIN bgs = Groups /\ tables \subseteq Groups
  BY DEF Laid, Begun, Described, Layout, Bitmaps, Queued
<1>2. \A g \in Groups : bg_desc[g].bg_block_bitmap = BitmapBlock(g)
                        /\ bg_desc[g].bg_inode_bitmap = BitmapBlock(g) + 1
                        /\ bg_desc[g].bg_inode_table = BitmapBlock(g) + 2
  BY <1>1 DEF Layout, Descriptors
<1>3. {q \in pieces : q.what = "bitmaps"} = {Piece("bitmaps", BitmapBlock(g), 2) : g \in Groups}
  <2>1. ASSUME NEW p PROVE p \in pieces /\ p.what = "bitmaps" <=>
                             \E g \in Groups : p = Piece("bitmaps", BitmapBlock(g), 2)
    BY <1>1, PiecesAre, KindsAre DEF Layout, Super, Desc
  <2> QED BY <2>1
<1>4. {q \in pieces : q.what = "inodes"}
        = {Piece("inodes", BitmapBlock(g) + 2, aux_info.inode_table_blocks) : g \in tables}
  <2>1. ASSUME NEW p PROVE p \in pieces /\ p.what = "inodes" <=>
                             \E g \in tables : p = Piece("inodes", BitmapBlock(g) + 2,
                                                         aux_info.inode_table_blocks)
    BY <1>1, PiecesAre, KindsAre DEF Layout, Super, Desc
  <2> QED BY <2>1
<1>5. {[b |-> bg_desc[g].bg_block_bitmap, i |-> bg_desc[g].bg_inode_bitmap] : g \in DOMAIN bgs}
        = {[b |-> p.block, i |-> p.block + 1] : p \in {q \in pieces : q.what = "bitmaps"}}
  <2> DEFINE Both(b) == [b |-> b, i |-> b + 1]
  <2>1. {[b |-> bg_desc[g].bg_block_bitmap, i |-> bg_desc[g].bg_inode_bitmap] : g \in DOMAIN bgs}
          = {Both(BitmapBlock(g)) : g \in Groups}
    BY <1>1, <1>2
  <2>2. {[b |-> p.block, i |-> p.block + 1] : p \in {q \in pieces : q.what = "bitmaps"}}
          = {Both(p.block) : p \in {Piece("bitmaps", BitmapBlock(g), 2) : g \in Groups}}
    BY <1>3
  <2> HIDE DEF Both
  <2>3. {Both(p.block) : p \in {Piece("bitmaps", BitmapBlock(g), 2) : g \in Groups}}
          = {Both(BitmapBlock(g)) : g \in Groups}
    <3>1. \A g \in Groups : Piece("bitmaps", BitmapBlock(g), 2).block = BitmapBlock(g)
      BY KindsAre
    <3> QED BY <3>1, Zenon
  <2> QED BY <2>1, <2>2, <2>3
<1>6. {bg_desc[g].bg_inode_table : g \in tables}
        = {p.block : p \in {q \in pieces : q.what = "inodes"}}
  <2>1. {bg_desc[g].bg_inode_table : g \in tables} = {BitmapBlock(g) + 2 : g \in tables}
    BY <1>1, <1>2
  <2>2. {p.block : p \in {Piece("inodes", BitmapBlock(g) + 2, aux_info.inode_table_blocks) : g \in tables}}
          = {BitmapBlock(g) + 2 : g \in tables}
    <3>1. \A g \in tables : Piece("inodes", BitmapBlock(g) + 2, aux_info.inode_table_blocks).block
                               = BitmapBlock(g) + 2
      BY KindsAre
    <3> QED BY <3>1, Zenon
  <2> QED BY <1>4, <2>1, <2>2
<1>7. ASSUME NEW g \in DOMAIN bgs
      PROVE  bg_desc[g].bg_inode_table + aux_info.inode_table_blocks
               = first_block(g) + header_blocks(g)
  <2> DEFINE s == IF ext4_bg_has_super_block(g) THEN super_blocks(aux_info) ELSE 0
  <2>1. g \in Groups /\ g \in Int
    BY <1>1 DEF Groups
  <2>2. /\ first_block(g) \in Int /\ aux_info.inode_table_blocks \in Nat
        /\ super_blocks(aux_info) \in Int
    <3>1. super_blocks(aux_info) = 1 + aux_info.bg_desc_blocks + Reserve
          /\ aux_info.bg_desc_blocks \in Nat /\ Reserve \in Nat \ {0}
          /\ aux_info.inode_table_blocks \in Nat
      BY LayoutFacts
    <3>2. \A h \in Int : first_block(h) \in Int
      BY LayoutFacts
    <3> QED BY <2>1, <3>1, <3>2
  <2>3. header_blocks(g) = 2 + aux_info.inode_table_blocks + s
    BY DEF header_blocks
  <2>4. bg_desc[g].bg_inode_table = first_block(g) + s + 2
    BY <1>2, <2>1 DEF BitmapBlock
  <2>5. s \in Int
    BY <2>2
  <2> HIDE DEF s
  <2> QED BY <2>2, <2>3, <2>4, <2>5
<1> QED BY <1>5, <1>6, <1>7

\* DescriptorsPoint: the descriptors name the places that init_bg and
\* allocate_bg_inode_table compute for themselves (ext4_utils.c:236-238,
\* allocate.c:268-271, allocate.c:149-152).
THEOREM DescriptorsAgree == Spec => [](Sensible(FirstAuxInfo) => DescriptorsPoint)
<1>1. ASSUME LayoutInv, Sensible(FirstAuxInfo) PROVE DescriptorsPoint
  <2>1. CASE pc = "aux_info"
    BY <2>1 DEF DescriptorsPoint, Laid
  <2>2. CASE pc # "aux_info"
    <3>1. Layout /\ ParametersKept
      BY <1>1, <2>2 DEF LayoutInv
    <3> QED BY <1>1, <2>2, <3>1, DescriptorsRight
  <2> QED BY <2>1, <2>2
<1>2. LayoutInv => (Sensible(FirstAuxInfo) => DescriptorsPoint)
  BY <1>1
<1> QED BY <1>2, LaidOut, PTL

-----------------------------------------------------------------------------
(* The resize inode                                                        *)

\* A block is in one group, at one place.
LEMMA PlacesApart ==
    ASSUME Bpg \in Nat \ {0}, aux_info.first_data_block \in Int,
           NEW g \in Int, NEW h \in Int, NEW x \in 0 .. (Bpg - 1), NEW y \in 0 .. (Bpg - 1),
           first_block(g) + x = first_block(h) + y
    PROVE  g = h /\ x = y
<1>1. first_block(g) = aux_info.first_data_block + g * Bpg
      /\ first_block(h) = aux_info.first_data_block + h * Bpg
  BY DEF first_block, Bpg
<1>2. g * Bpg \in Int /\ h * Bpg \in Int /\ x \in Int /\ y \in Int
  OBVIOUS
<1>3. g * Bpg + x = h * Bpg + y
  BY <1>1, <1>2
<1>4. (g * Bpg + x) \div Bpg = g /\ (h * Bpg + y) \div Bpg = h
  BY UniqueDivision
<1>5. g = h
  BY <1>3, <1>4
<1> QED BY <1>2, <1>3, <1>5

\* The reserved blocks of a group lie inside its header.
LEMMA ReserveInHeader ==
    ASSUME ParametersKept, Sensible(FirstAuxInfo), pc # "aux_info",
           NEW g \in Int, ext4_bg_has_super_block(g), NEW r \in 0 .. (Reserve - 1)
    PROVE  /\ 1 + aux_info.bg_desc_blocks + r \in 0 .. (header_blocks(g) - 1)
           /\ 1 + aux_info.bg_desc_blocks + r \in 0 .. (Bpg - 1)
           /\ ReservedBlock(g, r) = first_block(g) + (1 + aux_info.bg_desc_blocks + r)
<1>1. /\ Bpg \in Nat \ {0} /\ Reserve \in Nat \ {0} /\ aux_info.bg_desc_blocks \in Nat
      /\ aux_info.inode_table_blocks \in Nat
      /\ super_blocks(aux_info) = 1 + aux_info.bg_desc_blocks + Reserve
      /\ first_block(g) \in Int
      /\ header_blocks(g) \in Nat /\ header_blocks(g) <= Bpg
      /\ header_blocks(g) = 2 + aux_info.inode_table_blocks
                              + IF ext4_bg_has_super_block(g) THEN super_blocks(aux_info) ELSE 0
  BY LayoutFacts
<1>2. header_blocks(g) = 2 + aux_info.inode_table_blocks + (1 + aux_info.bg_desc_blocks + Reserve)
  BY <1>1
<1>3. 1 + aux_info.bg_desc_blocks + r \in 0 .. (header_blocks(g) - 1)
  BY <1>1, <1>2
<1> QED BY <1>1, <1>3 DEF ReservedBlock

\* There are as many as the inode is charged for, without the oob block.
LEMMA ReservedCounted ==
    ASSUME Layout, ParametersKept, Sensible(FirstAuxInfo), Attached
    PROVE  Cardinality(ReservedBlocks \cup {get_oob_block(alloc, 0)})
             = Cardinality(Copies) * Reserve + 1
<1> DEFINE R == 0 .. (Reserve - 1)
           T == ReservedBlocks
           f == [p \in Copies \X R |-> ReservedBlock(p[1], p[2])]
<1>1. /\ pc # "aux_info" /\ Copies = {g \in Groups : ext4_bg_has_super_block(g)}
      /\ aux_info.groups \in Nat /\ Reserve \in Nat \ {0}
      /\ Bpg \in Nat \ {0} /\ aux_info.first_data_block \in Int
  <2>1. pc # "aux_info" /\ Begun = Groups
    BY DEF Attached, Begun
  <2>2. DOMAIN bgs = Groups
    BY <2>1 DEF Layout, Bitmaps
  <2>3. Copies = {g \in Groups : ext4_bg_has_super_block(g)}
    BY <2>2 DEF Copies
  <2>4. /\ aux_info.groups \in Nat /\ Reserve \in Nat \ {0}
        /\ Bpg \in Nat \ {0} /\ aux_info.first_data_block \in Int
    <3>1. pc # "aux_info"
      BY <2>1
    <3>2. /\ aux_info.groups \in Nat /\ Reserve \in Nat \ {0}
          /\ Bpg \in Nat \ {0} /\ aux_info.first_data_block \in {0, 1}
      BY <3>1, LayoutFacts
    <3> QED BY <3>2
  <2> QED BY <2>1, <2>3, <2>4
<1>t. \A b : b \in T <=> \E g \in Copies : \E r \in R : b = ReservedBlock(g, r)
  BY DEF ReservedBlocks
<1> HIDE DEF T
<1>2. Groups \subseteq Int /\ IsFiniteSet(Groups)
  BY <1>1, FS_Interval DEF Groups
<1>3. IsFiniteSet(Copies) /\ Cardinality(Copies) \in Nat
  <2>1. Copies \subseteq Groups
    BY <1>1
  <2>2. IsFiniteSet(Copies)
    BY <1>2, <2>1, FS_Subset
  <2> QED BY <2>2, FS_CardinalityType
<1>4. IsFiniteSet(R) /\ Cardinality(R) = Reserve
  BY <1>1, FS_Interval
<1>5. IsFiniteSet(Copies \X R) /\ Cardinality(Copies \X R) = Cardinality(Copies) * Reserve
  BY <1>3, <1>4, FS_Product
<1>6. \A g \in Copies : \A r \in R :
         /\ 1 + aux_info.bg_desc_blocks + r \in 0 .. (header_blocks(g) - 1)
         /\ 1 + aux_info.bg_desc_blocks + r \in 0 .. (Bpg - 1)
         /\ ReservedBlock(g, r) = first_block(g) + (1 + aux_info.bg_desc_blocks + r)
  BY <1>1, <1>2, ReserveInHeader
<1>7. aux_info.bg_desc_blocks \in Nat
  BY <1>1, LayoutFacts
<1>8. f \in Injection(Copies \X R, T)
  <2>1. f \in [Copies \X R -> T]
    <3>1. \A p \in Copies \X R : p[1] \in Copies /\ p[2] \in R
      OBVIOUS
    <3> HIDE DEF R
    <3> QED BY <1>t, <3>1
  <2>2. ASSUME NEW p \in Copies \X R, NEW q \in Copies \X R, f[p] = f[q] PROVE p = q
    <3>1. p[1] \in Copies /\ q[1] \in Copies /\ p[2] \in R /\ q[2] \in R
          /\ p = <<p[1], p[2]>> /\ q = <<q[1], q[2]>>
      OBVIOUS
    <3>2. ReservedBlock(p[1], p[2]) = ReservedBlock(q[1], q[2])
      BY <2>2
    <3>3. p[1] \in Int /\ q[1] \in Int
      BY <1>1, <1>2, <3>1
    <3>4. first_block(p[1]) + (1 + aux_info.bg_desc_blocks + p[2])
            = first_block(q[1]) + (1 + aux_info.bg_desc_blocks + q[2])
      BY <1>6, <3>1, <3>2
    <3>5. p[1] = q[1] /\ 1 + aux_info.bg_desc_blocks + p[2] = 1 + aux_info.bg_desc_blocks + q[2]
      BY <1>1, <1>6, <3>1, <3>3, <3>4, PlacesApart
    <3>6. p[2] \in Int /\ q[2] \in Int
      BY <3>1
    <3> HIDE DEF R
    <3>7. p[2] = q[2]
      BY <1>7, <3>5, <3>6
    <3> QED BY <3>1, <3>5, <3>7
  <2> QED BY <2>1, <2>2 DEF Injection, IsInjective
<1>9. f \in Surjection(Copies \X R, T)
  <2>1. f \in [Copies \X R -> T]
    BY <1>8 DEF Injection
  <2>2. ASSUME NEW b \in T PROVE \E p \in Copies \X R : f[p] = b
    <3>1. PICK g \in Copies : \E r \in R : b = ReservedBlock(g, r)
      BY <1>t
    <3>2. PICK r \in R : b = ReservedBlock(g, r)
      BY <3>1
    <3>3. <<g, r>> \in Copies \X R
      OBVIOUS
    <3>4. f[<<g, r>>] = b
      BY <3>2, <3>3
    <3> HIDE DEF f
    <3> QED BY <3>3, <3>4
  <2> QED BY <2>1, <2>2 DEF Surjection
<1>10. IsFiniteSet(T) /\ Cardinality(T) = Cardinality(Copies) * Reserve
  <2>1. PICK F : F = f
    OBVIOUS
  <2>2. F \in Surjection(Copies \X R, T) /\ F \in Injection(Copies \X R, T)
    BY <1>8, <1>9, <2>1
  <2> QED BY <1>5, <2>2, FS_Surjection
<1>11. get_oob_block(alloc, 0) \notin T
  <2>1. PICK t, x \in Int : Taken(t, x)
    BY DEF Layout, Bitmaps
  <2>2. /\ t \in Groups /\ x \in 0 .. (Bpg - 1) /\ x \notin HeaderBits(t)
        /\ get_oob_block(alloc, 0) = first_block(t) + x
    BY <2>1 DEF Taken, FirstUsed
  <2>3. HeaderBits(t) = 0 .. (header_blocks(t) - 1)
    BY <1>1, LayoutFacts
  <2>4. ASSUME NEW g \in Copies, NEW r \in R PROVE first_block(t) + x # ReservedBlock(g, r)
    <3> SUFFICES ASSUME first_block(t) + x = ReservedBlock(g, r) PROVE FALSE
      OBVIOUS
    <3>1. t \in Int /\ g \in Int
      BY <1>1, <1>2, <2>2
    <3>2. first_block(t) + x = first_block(g) + (1 + aux_info.bg_desc_blocks + r)
      BY <1>6
    <3>3. t = g /\ x = 1 + aux_info.bg_desc_blocks + r
      BY <1>1, <1>6, <2>2, <3>1, <3>2, PlacesApart
    <3> QED BY <1>6, <2>2, <2>3, <3>3
  <2>5. ASSUME NEW b \in T PROVE b # first_block(t) + x
    <3>1. PICK g \in Copies : \E r \in R : b = ReservedBlock(g, r)
      BY <1>t
    <3>2. PICK r \in R : b = ReservedBlock(g, r)
      BY <3>1
    <3> QED BY <2>4, <3>2
  <2> QED BY <2>2, <2>5
<1> HIDE DEF R, f, T
<1>12. Cardinality(T \cup {get_oob_block(alloc, 0)}) = Cardinality(T) + 1
  BY <1>10, <1>11, FS_AddElement
<1> QED BY <1>10, <1>12 DEF T, R

\* The groups with a superblock, and those before one of them.
LEMMA CopiesBefore ==
    ASSUME DOMAIN bgs = Groups, aux_info.groups \in Nat, NEW g \in Groups
    PROVE  {h \in Copies : h < g} = Before(g)
BY DEF Copies, Before, Groups

\* From entry bg_desc_blocks on the entries of the doubly indirect block are in
\* order.
LEMMA PositionsInOrder ==
    ASSUME ParametersKept, Sensible(FirstAuxInfo), pc # "aux_info",
           NEW n \in Nat, n > aux_info.bg_desc_blocks, n <= Reserve
    PROVE  ReservePosition(n - 1) = n - 1 - aux_info.bg_desc_blocks
<1> DEFINE D == aux_info.bg_desc_blocks
           k == n - 1 - D
<1>1. D \in Nat /\ Reserve \in Nat \ {0} /\ Reserve <= Bpg /\ Bpg \in Nat \ {0}
      /\ U32 \in Nat /\ Bpg < U32
  BY LayoutFacts
<1>2. k \in 0 .. (Reserve - 1) /\ k \in 0 .. (U32 - 1) /\ U32 \in Nat \ {0}
  BY <1>1
<1>3. (n - 1) - D + U32 = 1 * U32 + k
  BY <1>1
<1> HIDE DEF k
<1>4. (1 * U32 + k) % U32 = k
  BY <1>2, UniqueDivision, 1 \in Int
<1>5. (0 * Reserve + k) % Reserve = k
  BY <1>1, <1>2, UniqueDivision, 0 \in Int
<1>6. 0 * Reserve + k = k
  BY <1>1, <1>2
<1>7. ReservePosition(n - 1) = k
  BY <1>3, <1>4, <1>5, <1>6 DEF ReservePosition
<1> QED BY <1>7 DEF k

\* The parts of ResizeInOrder.
Charged == resize.i_blocks = Cardinality(ReservedBlocks \cup {get_oob_block(alloc, 0)})

EntriesInOrder ==
    \A n \in DOMAIN dind : n > aux_info.bg_desc_blocks =>
        dind[n] = ReservedBlock(0, n - 1 - aux_info.bg_desc_blocks)

OthersInOrder(r) ==
    /\ Len(ind[r]) = Cardinality(Copies) - 1
    /\ \A j \in DOMAIN ind[r] : \E g \in Copies :
          /\ Cardinality({h \in Copies : h < g}) = j
          /\ ind[r][j] = ReservedBlock(g, r)

LEMMA ResizeParts ==
    ASSUME pc = "inodes" => Charged,
           pc \in {"attach", "inodes"} =>
              EntriesInOrder /\ \A r \in DOMAIN ind : ind[r] # <<>> => OthersInOrder(r)
    PROVE  ResizeInOrder
BY Zenon DEF ResizeInOrder, Charged, EntriesInOrder, OthersInOrder

LEMMA ResizeRight ==
    ASSUME Layout, ParametersKept, Sensible(FirstAuxInfo), Attached
    PROVE  /\ pc = "inodes" => Charged
           /\ EntriesInOrder
           /\ \A r \in DOMAIN ind : ind[r] # <<>> => OthersInOrder(r)
<1>1. pc # "aux_info" /\ DOMAIN bgs = Groups
  <2>1. pc # "aux_info" /\ Begun = Groups
    BY DEF Attached, Begun
  <2> QED BY <2>1 DEF Layout, Bitmaps
<1>2. /\ dind \in Seq(Int) /\ Len(dind) = i /\ i <= Reserve
      /\ \A n \in 1 .. i : dind[n] = ReservedBlock(0, ReservePosition(n - 1))
      /\ \A r \in DOMAIN ind : ind[r] = <<>> \/ Lists(ind[r], r)
      /\ pc = "inodes" => resize.i_blocks = Cardinality(Copies) * Reserve + 1
  BY DEF Layout, Map
<1>3. Reserve \in Nat /\ aux_info.groups \in Nat
  BY <1>1, LayoutFacts
<1>4. ASSUME NEW n \in DOMAIN dind, n > aux_info.bg_desc_blocks
      PROVE  dind[n] = ReservedBlock(0, n - 1 - aux_info.bg_desc_blocks)
  <2>1. n \in 1 .. i /\ n \in Nat /\ n <= Reserve
    BY <1>2, <1>3
  <2>2. ReservePosition(n - 1) = n - 1 - aux_info.bg_desc_blocks
    BY <1>1, <1>4, <2>1, PositionsInOrder
  <2> QED BY <1>2, <2>1, <2>2
<1>5. ASSUME NEW r \in DOMAIN ind, ind[r] # <<>>
      PROVE  OthersInOrder(r)
  <2>1. Lists(ind[r], r)
    BY <1>2, <1>5
  <2>2. ASSUME NEW j \in DOMAIN ind[r]
        PROVE  \E g \in Copies : /\ Cardinality({h \in Copies : h < g}) = j
                                 /\ ind[r][j] = ReservedBlock(g, r)
    <3>1. PICK g \in Copies : Cardinality(Before(g)) = j /\ ind[r][j] = ReservedBlock(g, r)
      BY <2>1, Zenon DEF Lists
    <3>2. {h \in Copies : h < g} = Before(g)
      <4>1. g \in Groups
        BY <1>1 DEF Copies
      <4> QED BY <1>1, <1>3, <4>1, CopiesBefore
    <3> QED BY <3>1, <3>2
  <2>3. Len(ind[r]) = Cardinality(Copies) - 1
    BY <2>1 DEF Lists
  <2> QED BY <2>2, <2>3, Zenon DEF OthersInOrder
<1>6. pc = "inodes" => Charged
  BY <1>2, ReservedCounted DEF Charged
<1>7. EntriesInOrder
  BY <1>4 DEF EntriesInOrder
<1> QED BY <1>5, <1>6, <1>7

\* ResizeInOrder: what inode_attach_resize writes is the reserve, in order, and the
\* inode is charged for it (indirect.c:452-469).
THEOREM ResizeInodeMapsReserve == Spec => [](Sensible(FirstAuxInfo) => ResizeInOrder)
<1>1. ASSUME LayoutInv, Sensible(FirstAuxInfo) PROVE ResizeInOrder
  <2>1. CASE Attached
    <3>1. pc # "aux_info"
      BY <2>1 DEF Attached
    <3>2. Layout /\ ParametersKept
      BY <1>1, <3>1 DEF LayoutInv
    <3> QED BY <1>1, <2>1, <3>2, ResizeRight, ResizeParts
  <2>2. CASE ~Attached
    BY <2>2, ResizeParts DEF Attached
  <2> QED BY <2>1, <2>2
<1>2. LayoutInv => (Sensible(FirstAuxInfo) => ResizeInOrder)
  BY <1>1
<1> QED BY <1>2, LaidOut, PTL

-----------------------------------------------------------------------------
(* The structures are apart                                                *)

\* The structures of a group, in their order: number k lies between two edges.
Edge(g, k) ==
    LET s == IF ext4_bg_has_super_block(g) THEN super_blocks(aux_info) ELSE 0
    IN  CASE k = 0 -> 0
          [] k = 1 -> IF ext4_bg_has_super_block(g) THEN 1 ELSE 0
          [] k = 2 -> IF ext4_bg_has_super_block(g) THEN 1 + aux_info.bg_desc_blocks ELSE 0
          [] k = 3 -> s
          [] k = 4 -> s + 2
          [] k = 5 -> header_blocks(g)
          [] OTHER -> Bpg

Slot(p, g, k) ==
    \/ k = 0 /\ ext4_bg_has_super_block(g) /\ p = Super(g)
    \/ k = 1 /\ ext4_bg_has_super_block(g) /\ p = Desc(g)
    \/ k = 2 /\ g = 0 /\ p = Piece("ind", ReservedBlock(0, 0), Reserve)
    \/ k = 3 /\ p = Piece("bitmaps", BitmapBlock(g), 2)
    \/ k = 4 /\ p = Piece("inodes", BitmapBlock(g) + 2, aux_info.inode_table_blocks)
    \/ k = 5 /\ (\E x \in Int : Taken(g, x)) /\ p = Piece("dind", get_oob_block(alloc, 0), 1)

LEMMA EdgesRise ==
    ASSUME ParametersKept, Sensible(FirstAuxInfo), pc # "aux_info", NEW g \in Int
    PROVE  /\ \A k \in 0 .. 6 : Edge(g, k) \in 0 .. Bpg
           /\ \A k, j \in 0 .. 6 : k <= j => Edge(g, k) <= Edge(g, j)
<1> DEFINE sup == ext4_bg_has_super_block(g)
           S == super_blocks(aux_info)
           D == aux_info.bg_desc_blocks
           T == aux_info.inode_table_blocks
           H == header_blocks(g)
<1>1. /\ Bpg \in Nat /\ D \in Nat /\ T \in Nat /\ Reserve \in Nat /\ S = 1 + D + Reserve
      /\ H \in Nat /\ H <= Bpg /\ H = 2 + T + IF sup THEN S ELSE 0
  BY LayoutFacts
<1>2. /\ Edge(g, 0) = 0 /\ Edge(g, 1) = (IF sup THEN 1 ELSE 0)
      /\ Edge(g, 2) = (IF sup THEN 1 + D ELSE 0) /\ Edge(g, 3) = (IF sup THEN S ELSE 0)
      /\ Edge(g, 4) = (IF sup THEN S ELSE 0) + 2 /\ Edge(g, 5) = H /\ Edge(g, 6) = Bpg
  BY DEF Edge
<1> HIDE DEF S, D, T, H, sup
<1>3. /\ 0 <= Edge(g, 0) /\ Edge(g, 0) <= Edge(g, 1) /\ Edge(g, 1) <= Edge(g, 2)
      /\ Edge(g, 2) <= Edge(g, 3) /\ Edge(g, 3) <= Edge(g, 4) /\ Edge(g, 4) <= Edge(g, 5)
      /\ Edge(g, 5) <= Edge(g, 6) /\ Edge(g, 6) = Bpg
  BY <1>1, <1>2
<1>4. /\ Edge(g, 0) \in Int /\ Edge(g, 1) \in Int /\ Edge(g, 2) \in Int /\ Edge(g, 3) \in Int
      /\ Edge(g, 4) \in Int /\ Edge(g, 5) \in Int /\ Edge(g, 6) \in Int
  BY <1>1, <1>2
<1>5. \A k \in 0 .. 6 : k \in {0, 1, 2, 3, 4, 5, 6}
  OBVIOUS
<1>6. \A k \in 0 .. 6 : Edge(g, k) \in Int /\ 0 <= Edge(g, k) /\ Edge(g, k) <= Bpg
  BY <1>3, <1>4, <1>5
<1>7. ASSUME NEW k \in 0 .. 6, NEW j \in 0 .. 6, k <= j PROVE Edge(g, k) <= Edge(g, j)
  BY <1>3, <1>4, <1>5, <1>7
<1> QED BY <1>1, <1>6, <1>7

\* Every piece is one of these structures.
LEMMA PieceSlot ==
    ASSUME Layout, ParametersKept, Sensible(FirstAuxInfo), pc # "aux_info",
           aux_info.groups > 0, NEW p \in pieces
    PROVE  \E g \in Groups : \E k \in 0 .. 5 : Slot(p, g, k)
<1>1. 0 \in Groups /\ Begun \subseteq Groups /\ tables \subseteq Groups /\ Copied \subseteq Groups
  <2>1. aux_info.groups \in Nat
    BY LayoutFacts
  <2>2. i \in Nat /\ (pc \in Loops => i < aux_info.groups) /\ tables \subseteq Begun
    BY DEF Layout, Progress, Queued
  <2>3. Begun \subseteq Groups
    BY <2>1, <2>2 DEF Begun, Groups, Loops
  <2>4. Described \subseteq Groups
    BY <2>1, <2>2 DEF Described, Groups, Loops
  <2>5. 0 \in Groups
    BY <2>1 DEF Groups
  <2>6. Copied \subseteq Described
    BY DEF Copied
  <2> QED BY <2>2, <2>3, <2>4, <2>5, <2>6
<1>2. ext4_bg_has_super_block(0)
  BY DEF ext4_bg_has_super_block
<1>3. \/ \E g \in {0} \cup Copied : p = Super(g)
      \/ \E g \in {0} \cup Copied : p = Desc(g)
      \/ \E g \in Begun : p = Piece("bitmaps", BitmapBlock(g), 2)
      \/ \E g \in tables : p = Piece("inodes", BitmapBlock(g) + 2, aux_info.inode_table_blocks)
      \/ Attached /\ p = Piece("dind", get_oob_block(alloc, 0), 1)
      \/ Attached /\ p = Piece("ind", ReservedBlock(0, 0), Reserve)
  BY PiecesAre DEF Layout
<1>4. 0 \in 0 .. 5 /\ 1 \in 0 .. 5 /\ 2 \in 0 .. 5 /\ 3 \in 0 .. 5 /\ 4 \in 0 .. 5 /\ 5 \in 0 .. 5
  OBVIOUS
<1>5. ASSUME NEW g \in {0} \cup Copied, p = Super(g) PROVE \E h \in Groups : Slot(p, h, 0)
  BY <1>1, <1>2, <1>5 DEF Slot, Copied
<1>6. ASSUME NEW g \in {0} \cup Copied, p = Desc(g) PROVE \E h \in Groups : Slot(p, h, 1)
  BY <1>1, <1>2, <1>6 DEF Slot, Copied
<1>7. ASSUME NEW g \in Begun, p = Piece("bitmaps", BitmapBlock(g), 2)
      PROVE  \E h \in Groups : Slot(p, h, 3)
  BY <1>1, <1>7 DEF Slot
<1>8. ASSUME NEW g \in tables, p = Piece("inodes", BitmapBlock(g) + 2, aux_info.inode_table_blocks)
      PROVE  \E h \in Groups : Slot(p, h, 4)
  BY <1>1, <1>8 DEF Slot
<1>9. ASSUME Attached, p = Piece("dind", get_oob_block(alloc, 0), 1)
      PROVE  \E h \in Groups : Slot(p, h, 5)
  <2>1. PICK t, x \in Int : Taken(t, x)
    BY <1>9 DEF Layout, Bitmaps
  <2>2. t \in Groups
    BY <2>1 DEF Taken
  <2>3. Slot(p, t, 5)
    BY <1>9, <2>1, Zenon DEF Slot
  <2> QED BY <2>2, <2>3
<1>10. ASSUME p = Piece("ind", ReservedBlock(0, 0), Reserve) PROVE \E h \in Groups : Slot(p, h, 2)
  BY <1>1, <1>10 DEF Slot
<1> QED BY <1>3, <1>4, <1>5, <1>6, <1>7, <1>8, <1>9, <1>10

LEMMA SlotIsOne ==
    ASSUME NEW p, NEW q, NEW g, NEW k \in 0 .. 5, Slot(p, g, k), Slot(q, g, k)
    PROVE  p = q
BY DEF Slot

\* Where the structure lies.
LEMMA SlotPlace ==
    ASSUME Layout, ParametersKept, Sensible(FirstAuxInfo), pc # "aux_info",
           NEW p, NEW g \in Groups, NEW k \in 0 .. 5, Slot(p, g, k), NEW b \in PieceBlocks(p)
    PROVE  \E x \in Int : /\ b = first_block(g) + x
                          /\ Edge(g, k) <= x /\ x < Edge(g, k + 1)
                          /\ k = 5 => Taken(g, x)
<1> DEFINE sup == ext4_bg_has_super_block(g)
           S == super_blocks(aux_info)
           D == aux_info.bg_desc_blocks
           T == aux_info.inode_table_blocks
           H == header_blocks(g)
           F == first_block(g)
<1>1. g \in Int
  BY LayoutFacts DEF Groups
<1>2. /\ Bpg \in Nat /\ D \in Nat /\ T \in Nat /\ Reserve \in Nat /\ S = 1 + D + Reserve
      /\ H \in Nat /\ H <= Bpg /\ H = 2 + T + IF sup THEN S ELSE 0
      /\ F \in Int
  BY <1>1, LayoutFacts
<1>3. /\ Edge(g, 0) = 0 /\ Edge(g, 1) = (IF sup THEN 1 ELSE 0)
      /\ Edge(g, 2) = (IF sup THEN 1 + D ELSE 0) /\ Edge(g, 3) = (IF sup THEN S ELSE 0)
      /\ Edge(g, 4) = (IF sup THEN S ELSE 0) + 2 /\ Edge(g, 5) = H /\ Edge(g, 6) = Bpg
  BY DEF Edge
<1>4. b \in p.block .. (p.block + p.size - 1)
  BY DEF PieceBlocks
<1>5. BitmapBlock(g) = F + IF sup THEN S ELSE 0
  BY DEF BitmapBlock
<1>6. g = 0 => sup /\ ReservedBlock(0, 0) = F + 1 + D + 0
  BY DEF ReservedBlock, ext4_bg_has_super_block
<1>7. CASE k = 0
  <2>1. sup /\ p.block = F /\ p.size = 1
    BY <1>7 DEF Slot, Super, Piece
  <2> HIDE DEF sup, S, D, T, H, F
  <2>2. b - F \in Int /\ b = F + (b - F) /\ 0 <= b - F /\ b - F < 1
    BY <1>2, <1>4, <2>1
  <2> QED BY <1>3, <1>7, <2>1, <2>2 DEF F
<1>8. CASE k = 1
  <2>1. sup /\ p.block = F + 1 /\ p.size = D
    BY <1>8 DEF Slot, Desc, Piece
  <2> HIDE DEF sup, S, D, T, H, F
  <2>2. b - F \in Int /\ b = F + (b - F) /\ 1 <= b - F /\ b - F < 1 + D
    BY <1>2, <1>4, <2>1
  <2> QED BY <1>3, <1>8, <2>1, <2>2 DEF F
<1>9. CASE k = 2
  <2>1. sup /\ p.block = F + 1 + D + 0 /\ p.size = Reserve
    BY <1>6, <1>9 DEF Slot, Piece
  <2> HIDE DEF sup, S, D, T, H, F
  <2>2. b - F \in Int /\ b = F + (b - F) /\ 1 + D <= b - F /\ b - F < S
    BY <1>2, <1>4, <2>1
  <2> QED BY <1>3, <1>9, <2>1, <2>2 DEF F
<1>10. CASE k = 3
  <2>1. p.block = (F + IF sup THEN S ELSE 0) /\ p.size = 2
    BY <1>5, <1>10 DEF Slot, Piece
  <2> HIDE DEF sup, S, D, T, H, F
  <2>2. /\ b - F \in Int /\ b = F + (b - F)
        /\ (IF sup THEN S ELSE 0) <= b - F /\ b - F < (IF sup THEN S ELSE 0) + 2
    BY <1>2, <1>4, <2>1
  <2> QED BY <1>3, <1>10, <2>2 DEF F
<1>11. CASE k = 4
  <2>1. p.block = (F + IF sup THEN S ELSE 0) + 2 /\ p.size = T
    BY <1>5, <1>11 DEF Slot, Piece
  <2> HIDE DEF sup, S, D, T, H, F
  <2>2. /\ b - F \in Int /\ b = F + (b - F)
        /\ (IF sup THEN S ELSE 0) + 2 <= b - F /\ b - F < H
    BY <1>2, <1>4, <2>1
  <2> QED BY <1>3, <1>11, <2>2 DEF F
<1>12. CASE k = 5
  <2>1. PICK x \in Int : Taken(g, x)
    BY <1>12 DEF Slot
  <2>2. p.block = get_oob_block(alloc, 0) /\ p.size = 1
    BY <1>12 DEF Slot, Piece
  <2>3. get_oob_block(alloc, 0) = F + x /\ x \in 0 .. (Bpg - 1) /\ x \notin HeaderBits(g)
    BY <2>1 DEF Taken, FirstUsed
  <2>4. HeaderBits(g) = 0 .. (H - 1)
    BY LayoutFacts
  <2> HIDE DEF sup, S, D, T, H, F
  <2>5. b = F + x /\ H <= x /\ x < Bpg
    BY <1>2, <1>4, <2>2, <2>3, <2>4
  <2> QED BY <1>3, <1>12, <2>1, <2>5 DEF F
<1>13. k \in {0, 1, 2, 3, 4, 5}
  OBVIOUS
<1> QED BY <1>7, <1>8, <1>9, <1>10, <1>11, <1>12, <1>13

LEMMA PiecesApart ==
    ASSUME Layout, ParametersKept, Sensible(FirstAuxInfo), pc # "aux_info",
           aux_info.groups > 0, NEW p \in pieces, NEW q \in pieces, p # q
    PROVE  PieceBlocks(p) \cap PieceBlocks(q) = {}
<1> SUFFICES ASSUME NEW b \in PieceBlocks(p), b \in PieceBlocks(q) PROVE FALSE
  OBVIOUS
<1>1. PICK g \in Groups, k \in 0 .. 5 : Slot(p, g, k)
  BY PieceSlot
<1>2. PICK h \in Groups, j \in 0 .. 5 : Slot(q, h, j)
  BY PieceSlot
<1>3. PICK x \in Int : b = first_block(g) + x /\ Edge(g, k) <= x /\ x < Edge(g, k + 1)
  BY <1>1, SlotPlace
<1>4. PICK y \in Int : b = first_block(h) + y /\ Edge(h, j) <= y /\ y < Edge(h, j + 1)
  BY <1>2, SlotPlace
<1>5. /\ g \in Int /\ h \in Int /\ Bpg \in Nat \ {0} /\ aux_info.first_data_block \in Int
      /\ k \in 0 .. 6 /\ k + 1 \in 0 .. 6 /\ j \in 0 .. 6 /\ j + 1 \in 0 .. 6
      /\ k \in Int /\ j \in Int
  <2>1. Bpg \in Nat \ {0} /\ aux_info.first_data_block \in {0, 1}
    BY LayoutFacts
  <2> QED BY <2>1 DEF Groups
<1>6. /\ \A n \in 0 .. 6 : Edge(g, n) \in 0 .. Bpg
      /\ \A n, m \in 0 .. 6 : n <= m => Edge(g, n) <= Edge(g, m)
  BY <1>5, EdgesRise
<1>7. \A n \in 0 .. 6 : Edge(h, n) \in 0 .. Bpg
  BY <1>5, EdgesRise
<1>8. x \in 0 .. (Bpg - 1) /\ y \in 0 .. (Bpg - 1)
  BY <1>3, <1>4, <1>5, <1>6, <1>7
<1>9. g = h /\ x = y
  BY <1>3, <1>4, <1>5, <1>8, PlacesApart
<1>10. k = j
  <2>1. ~(k + 1 <= j)
    BY <1>3, <1>4, <1>5, <1>6, <1>9
  <2>2. ~(j + 1 <= k)
    BY <1>3, <1>4, <1>5, <1>6, <1>9
  <2> QED BY <1>5, <2>1, <2>2
<1> QED BY <1>1, <1>2, <1>9, <1>10, SlotIsOne

\* The block that append_oob_allocation takes of the last group is on the device.
LEMMA TakenOnDevice ==
    ASSUME Layout, ParametersKept, Sensible(FirstAuxInfo), pc # "aux_info",
           GeometryHolds, ~LastGroupMisjudged, ~TooShort, NEW x \in Int,
           Taken(aux_info.groups - 1, x)
    PROVE  first_block(aux_info.groups - 1) + x < aux_info.len_blocks
<1> DEFINE g == aux_info.groups - 1
           F == first_block(g)
           H == header_blocks(g)
           l == aux_info.len_blocks
           d == F + Bpg - l
<1>1. /\ Bpg \in Nat \ {0} /\ U32 \in Nat /\ Bpg < U32 /\ aux_info.groups \in Nat
      /\ l \in Int /\ aux_info.first_data_block \in {0, 1}
      /\ \A h \in Int : first_block(h) \in Int
      /\ H \in Nat /\ H <= Bpg /\ Cardinality(HeaderBits(g)) = H
  BY LayoutFacts
<1>2. F \in Int
  BY <1>1
<1>3. F + H <= l /\ l <= first_block(aux_info.groups)
  BY DEF GeometryHolds
<1>4. first_block(aux_info.groups) = F + Bpg
  <2>1. /\ first_block(aux_info.groups) = aux_info.first_data_block + aux_info.groups * Bpg
        /\ F = aux_info.first_data_block + (aux_info.groups - 1) * Bpg
    BY DEF first_block, Bpg
  <2>2. \A n, b \in Nat : n * b = (n - 1) * b + b /\ (n - 1) * b \in Int
    OBVIOUS
  <2>3. /\ aux_info.groups * Bpg = (aux_info.groups - 1) * Bpg + Bpg
        /\ (aux_info.groups - 1) * Bpg \in Int
    <3>1. aux_info.groups \in Nat /\ Bpg \in Nat
      BY <1>1
    <3> QED BY <2>2, <3>1
  <2>4. Bpg \in Int /\ aux_info.first_data_block \in Int
    BY <1>1
  <2> HIDE DEF F
  <2> QED BY <2>1, <2>3, <2>4
<1>5. x \in 0 .. (Bpg - 1) /\ x \notin OverBits(g)
  BY DEF Taken, FirstUsed
<1>6. OverBits(g) = IF Overrun(g) <= Bpg - Cardinality(HeaderBits(g))
                    THEN (Bpg - Overrun(g)) .. (Bpg - 1) ELSE {}
  BY DEF OverBits
<1>7. Overrun(g) = (F + Bpg - l + U32) % U32
  BY DEF Overrun
<1> HIDE DEF g, F, H, l
<1>8. d \in 0 .. (U32 - 1) /\ d <= Bpg - H /\ F + Bpg - l + U32 = 1 * U32 + d
      /\ U32 \in Nat \ {0}
  BY <1>1, <1>2, <1>3, <1>4
<1>9. (1 * U32 + d) % U32 = d
  <2> HIDE DEF d
  <2> QED BY <1>8, UniqueDivision, 1 \in Int
<1>10. Overrun(g) = d
  BY <1>7, <1>8, <1>9
<1>11. OverBits(g) = (Bpg - d) .. (Bpg - 1)
  <2> HIDE DEF d
  <2> QED BY <1>1, <1>6, <1>8, <1>10
<1>12. F + x < l
  BY <1>1, <1>2, <1>5, <1>8, <1>11
<1> QED BY <1>12 DEF F, g, l

\* Each block of a structure is on the device, and used in the bitmap of its group.
LEMMA PiecesUsed ==
    ASSUME Layout, ParametersKept, Sensible(FirstAuxInfo), Laid,
           GeometryHolds, ~LastGroupMisjudged, ~TooShort, NEW p \in pieces, NEW b \in PieceBlocks(p)
    PROVE  /\ b \in Device
           /\ b >= aux_info.first_data_block
           /\ \E g \in DOMAIN bgs : b - first_block(g) \in bgs[g].used
<1>1. pc # "aux_info" /\ Begun = Groups
  BY DEF Laid, Begun
<1>2. aux_info.groups > 0
  BY <1>1 DEF GeometryHolds
<1>3. PICK g \in Groups, k \in 0 .. 5 : Slot(p, g, k)
  BY <1>1, <1>2, PieceSlot
<1>4. PICK x \in Int : /\ b = first_block(g) + x /\ Edge(g, k) <= x /\ x < Edge(g, k + 1)
                       /\ k = 5 => Taken(g, x)
  BY <1>1, <1>3, SlotPlace
<1>5. /\ Bpg \in Nat \ {0} /\ aux_info.first_data_block \in {0, 1}
      /\ aux_info.groups \in Nat /\ aux_info.len_blocks \in Int
      /\ header_blocks(g) \in Nat
  BY <1>1, LayoutFacts
<1>h. HeaderBits(g) = 0 .. (header_blocks(g) - 1)
  BY <1>1, LayoutFacts
<1>6. /\ g \in Int /\ 0 <= g /\ g <= aux_info.groups - 1 /\ first_block(g) \in Int
      /\ k \in Int /\ k \in 0 .. 6 /\ k + 1 \in 0 .. 6 /\ 5 \in 0 .. 6
  <2>1. g \in Int /\ 0 <= g /\ g <= aux_info.groups - 1
    BY <1>5 DEF Groups
  <2>2. first_block(g) \in Int
    BY <1>1, <2>1, LayoutFacts
  <2> QED BY <2>1, <2>2
<1>7. /\ \A n \in 0 .. 6 : Edge(g, n) \in 0 .. Bpg
      /\ \A n, m \in 0 .. 6 : n <= m => Edge(g, n) <= Edge(g, m)
  BY <1>1, <1>6, EdgesRise
<1>8. x \in 0 .. (Bpg - 1) /\ (k # 5 => x < header_blocks(g))
  <2>1. Edge(g, 5) = header_blocks(g)
    BY DEF Edge
  <2>2. k # 5 => k + 1 <= 5
    BY <1>6
  <2> QED BY <1>4, <1>5, <1>6, <1>7, <2>1, <2>2
<1>9. b \in Int /\ b >= first_block(g) /\ first_block(g) >= aux_info.first_data_block
  <2>1. first_block(g) = aux_info.first_data_block + g * Bpg
    BY DEF first_block, Bpg
  <2>2. \A n, m \in Nat : n * m \in Nat
    OBVIOUS
  <2>3. g * Bpg \in Nat
    BY <1>5, <1>6, <2>2
  <2> QED BY <1>4, <1>5, <1>6, <1>8, <2>1, <2>3
<1>10. b < aux_info.len_blocks
  <2>1. CASE g = aux_info.groups - 1
    <3>1. CASE k = 5
      BY <1>1, <1>4, <2>1, <3>1, TakenOnDevice
    <3>2. CASE k # 5
      <4>1. first_block(g) + header_blocks(g) <= aux_info.len_blocks
        BY <1>1, <2>1 DEF GeometryHolds
      <4> QED BY <1>4, <1>5, <1>6, <1>8, <3>2, <4>1
    <3> QED BY <3>1, <3>2
  <2>2. CASE g # aux_info.groups - 1
    <3>1. g \in 0 .. (aux_info.groups - 2)
      BY <1>5, <1>6, <2>2
    <3>2. GroupBlocks(g) \subseteq Device
      BY <1>1, <3>1 DEF GeometryHolds
    <3>3. b \in GroupBlocks(g)
      BY <1>4, <1>5, <1>6, <1>8 DEF GroupBlocks, Bpg
    <3>4. b \in 0 .. (aux_info.len_blocks - 1)
      BY <3>2, <3>3 DEF Device
    <3> QED BY <1>5, <3>4
  <2> QED BY <2>1, <2>2
<1>11. b \in Device
  BY <1>5, <1>6, <1>9, <1>10 DEF Device
<1>12. g \in DOMAIN bgs /\ b - first_block(g) = x /\ x \in bgs[g].used
  <2>1. DOMAIN bgs = Groups
    BY <1>1 DEF Layout, Bitmaps
  <2>2. b - first_block(g) = x
    BY <1>4, <1>6
  <2>3. CASE k = 5
    <3>1. Taken(g, x)
      BY <1>4, <2>3
    <3>2. bgs[g].used = FirstUsed(g) \cup IF g = g THEN {x} ELSE {}
      BY <1>3, <3>1 DEF Taken
    <3> QED BY <1>3, <2>1, <2>2, <3>2
  <2>4. CASE k # 5
    <3>1. x \in FirstUsed(g)
      BY <1>5, <1>h, <1>8, <2>4 DEF FirstUsed
    <3>2. FirstUsed(g) \subseteq bgs[g].used
      <4>1. CASE Attached
        <5>1. PICK t, y \in Int : Taken(t, y)
          BY <4>1 DEF Layout, Bitmaps
        <5>2. bgs[g].used = FirstUsed(g) \cup IF g = t THEN {y} ELSE {}
          BY <1>3, <5>1 DEF Taken
        <5> QED BY <5>2
      <4>2. CASE ~Attached
        <5>1. bgs[g] = [first_block |-> first_block(g), used |-> FirstUsed(g)]
          BY <1>1, <1>3, <4>2 DEF Layout, Bitmaps
        <5> QED BY <5>1
      <4> QED BY <4>1, <4>2
    <3> QED BY <1>3, <2>1, <2>2, <3>1, <3>2
  <2> QED BY <2>3, <2>4
<1>13. b >= aux_info.first_data_block
  BY <1>5, <1>6, <1>9
<1> QED BY <1>11, <1>12, <1>13

\* MetadataApart: no two structures share a block, and the bitmaps cover each.
THEOREM MetadataIsApart == Spec => [](Sensible(FirstAuxInfo) => MetadataApart)
<1>1. ASSUME LayoutInv, Sensible(FirstAuxInfo) PROVE MetadataApart
  <2> SUFFICES ASSUME pc # "aux_info", ~LastGroupMisjudged, ~TooShort
               PROVE  /\ \A p, q \in pieces : p # q => PieceBlocks(p) \cap PieceBlocks(q) = {}
                      /\ Laid =>
                           \A p \in pieces : \A b \in PieceBlocks(p) :
                             /\ b \in Device
                             /\ b >= aux_info.first_data_block
                             /\ \E g \in DOMAIN bgs : b - first_block(g) \in bgs[g].used
    BY DEF MetadataApart
  <2>1. Layout /\ ParametersKept
    BY <1>1 DEF LayoutInv
  <2>2. GeometryHolds
    BY <1>1, <2>1, GroupsFit
  <2>3. aux_info.groups > 0
    BY <2>2 DEF GeometryHolds
  <2>4. \A p, q \in pieces : p # q => PieceBlocks(p) \cap PieceBlocks(q) = {}
    BY <1>1, <2>1, <2>3, PiecesApart
  <2>5. ASSUME Laid, NEW p \in pieces, NEW b \in PieceBlocks(p)
        PROVE  /\ b \in Device
               /\ b >= aux_info.first_data_block
               /\ \E g \in DOMAIN bgs : b - first_block(g) \in bgs[g].used
    BY <1>1, <2>1, <2>2, <2>5, PiecesUsed
  <2> QED BY <2>4, <2>5
<1>2. LayoutInv => (Sensible(FirstAuxInfo) => MetadataApart)
  BY <1>1
<1> QED BY <1>2, LaidOut, PTL

\* What the block allocator assumes of the groups: they reach to the end of the
\* device, only the last may be short, and it holds its header
\* (ext4_utils.c:112-145), for a device of any length that has a block for the
\* groups, also one shorter than a group, and any number of inodes, if a full group
\* can hold its header.  Excepted are what GeometryHolds excepts: the last group the
\* code misjudges, and a device too short for its first header.
THEOREM GroupsHoldHeaders == Spec => [](Sensible(FirstAuxInfo) => GeometryHolds)
<1>1. Init => ParametersKept
  BY DEF Init, ParametersKept
<1>2. ParametersKept => (Sensible(FirstAuxInfo) => GeometryHolds)
  BY GroupsFit
<1> QED BY <1>1, <1>2, ParametersStep, PTL DEF Spec
=============================================================================
