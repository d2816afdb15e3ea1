------------------------------ MODULE Numbers ------------------------------
(***************************************************************************)
(* Facts about numbers that the proofs share: \div and % by a number that  *)
(* is not known (inodes per group, or bytes per block), induction, and     *)
(* functions defined by recursion.                                         *)
(*                                                                         *)
(* What is proved by induction is stated as a set of numbers, and the step *)
(* of a recursion is a function.                                           *)
(***************************************************************************)
EXTENDS Integers, WellFoundedInduction, TLAPS

\* A number is its quotient times the divisor, and a rest.
LEMMA QuotientAndRest ==
    ASSUME NEW a \in Int, NEW b \in Nat \ {0}
    PROVE  /\ a \div b \in Int /\ a % b \in 0 .. (b - 1)
           /\ a = (a \div b) * b + (a % b)
OBVIOUS

\* A multiple of b is at least b further on than the next lower one.
LEMMA Multiples ==
    ASSUME NEW p \in Int, NEW q \in Int, NEW b \in Nat \ {0}, p < q
    PROVE  p * b + b <= q * b
<1>1. q - p - 1 \in Nat
  OBVIOUS
<1>2. \A m, n \in Nat : m * n \in Nat
  OBVIOUS
<1>3. (q - p - 1) * b \in Nat
  BY <1>1, <1>2
<1>4. q * b = p * b + b + (q - p - 1) * b
  OBVIOUS
<1> QED BY <1>3, <1>4

\* No other quotient and rest are.
LEMMA UniqueDivision ==
    ASSUME NEW q \in Int, NEW b \in Nat \ {0}, NEW r \in 0 .. (b - 1)
    PROVE  (q * b + r) \div b = q /\ (q * b + r) % b = r
<1> DEFINE a == q * b + r
<1>1. a \in Int
  OBVIOUS
<1>2. /\ a \div b \in Int /\ a % b \in 0 .. (b - 1)
      /\ a = (a \div b) * b + (a % b)
  BY <1>1, QuotientAndRest
<1>3. ~(a \div b < q)
  BY <1>2, Multiples
<1>4. ~(q < a \div b)
  BY <1>2, Multiples
<1>5. a \div b = q
  BY <1>2, <1>3, <1>4
<1> HIDE DEF a
<1>6. a % b = r
  BY <1>2, <1>5 DEF a
<1> QED BY <1>5, <1>6 DEF a

-----------------------------------------------------------------------------
(* Induction                                                               *)

\* What holds 0, and with each number the next, holds all.
LEMMA SetInduction ==
    ASSUME NEW S, 0 \in S, \A n \in Nat : n \in S => n + 1 \in S
    PROVE  \A n \in Nat : n \in S
<1> SUFFICES ASSUME NEW n \in Nat, n \notin S PROVE FALSE
  OBVIOUS
<1> DEFINE T == Nat \ S
           R == OpToRel(<, Nat)
<1>1. T \subseteq Nat /\ T # {}
  OBVIOUS
<1>2. \A x, y \in Nat : x < y => <<x, y>> \in R
  BY DEF OpToRel
<1>3. IsWellFoundedOn(R, Nat)
  BY NatLessThanWellFounded
<1> HIDE DEF R, T
<1>4. PICK x \in T : \A y \in T : ~ (<<y, x>> \in R)
  BY <1>1, <1>3, WFMin
<1>5. x \in Nat /\ x \notin S
  BY <1>4 DEF T
<1>6. x # 0 /\ x - 1 \in Nat /\ x - 1 + 1 = x /\ x - 1 < x
  BY <1>5
<1>7. x - 1 \notin S
  BY <1>5, <1>6
<1>8. x - 1 \in T
  BY <1>6, <1>7 DEF T
<1> QED BY <1>2, <1>4, <1>5, <1>6, <1>8

\* The same up to a number.
LEMMA BoundedInduction ==
    ASSUME NEW N \in Nat, NEW S, 0 \in S, \A n \in 0 .. (N - 1) : n \in S => n + 1 \in S
    PROVE  \A n \in 0 .. N : n \in S
<1> DEFINE T == {n \in Nat : n <= N => n \in S}
<1>1. 0 \in T
  OBVIOUS
<1>2. ASSUME NEW n \in Nat, n \in T PROVE n + 1 \in T
  <2>1. n + 1 <= N => n \in 0 .. (N - 1) /\ n \in S
    BY <1>2
  <2> QED BY <2>1
<1> HIDE DEF T
<1>3. \A n \in Nat : n \in T
  BY <1>1, <1>2, SetInduction
<1> QED BY <1>3 DEF T

-----------------------------------------------------------------------------
(* Recursion                                                               *)

\* A step takes a number and the value before it to the value there, and a function
\* is built by steps.
IsStep(step, N, V) == \A k \in 1 .. N : \A v \in V : step[<<k, v>>] \in V

BuiltBy(f, N, base, step) == f[0] = base /\ \A k \in 1 .. N : f[k] = step[<<k, f[k - 1]>>]

\* There is a function that is.
LEMMA Recursion ==
    ASSUME NEW N \in Nat, NEW V, NEW base \in V, NEW step, IsStep(step, N, V)
    PROVE  \E f \in [0 .. N -> V] : BuiltBy(f, N, base, step)
<1> DEFINE IsPart(f, n) == BuiltBy(f, n, base, step)
           S == {n \in 0 .. N : \E f \in [0 .. n -> V] : IsPart(f, n)}
<1>1. 0 \in S
  <2> DEFINE f == [k \in 0 .. 0 |-> base]
  <2>1. f \in [0 .. 0 -> V] /\ f[0] = base /\ 1 .. 0 = {}
    OBVIOUS
  <2> HIDE DEF f
  <2>2. \E g \in [0 .. 0 -> V] : IsPart(g, 0)
    BY <2>1 DEF BuiltBy
  <2> QED BY <2>2
<1>2. ASSUME NEW n \in 0 .. (N - 1), n \in S PROVE n + 1 \in S
  <2>1. PICK f \in [0 .. n -> V] : IsPart(f, n)
    BY <1>2
  <2> DEFINE last == step[<<n + 1, f[n]>>]
             g == [k \in 0 .. (n + 1) |-> IF k = n + 1 THEN last ELSE f[k]]
  <2>2. last \in V
    BY n + 1 \in 1 .. N, f[n] \in V DEF IsStep
  <2>3. g \in [0 .. (n + 1) -> V]
    BY <2>2
  <2>4. g[n + 1] = last /\ \A k \in 0 .. n : g[k] = f[k]
    OBVIOUS
  <2> HIDE DEF g
  <2>5. IsPart(g, n + 1)
    <3>1. g[0] = base
      BY <2>1, <2>4 DEF BuiltBy
    <3>2. ASSUME NEW k \in 1 .. (n + 1) PROVE g[k] = step[<<k, g[k - 1]>>]
      <4>1. CASE k = n + 1
        BY <2>4, <4>1
      <4>2. CASE k # n + 1
        <5>1. k \in 1 .. n /\ k \in 0 .. n /\ k - 1 \in 0 .. n
          BY <4>2
        <5> QED BY <2>1, <2>4, <5>1 DEF BuiltBy
      <4> QED BY <4>1, <4>2
    <3> QED BY <3>1, <3>2 DEF BuiltBy
  <2> QED BY <2>3, <2>5
<1> HIDE DEF S
<1>3. N \in S
  BY <1>1, <1>2, BoundedInduction
<1> QED BY <1>3 DEF S
=============================================================================
