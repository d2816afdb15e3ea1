-------------------------- MODULE DirectoryProofs --------------------------
(***************************************************************************)
(* Proofs about Directory, for blocks of any size and any names: what is   *)
(* laid out can be read, and it fits the space that was counted for it     *)
(* unless the count meets the end of a block.                              *)
(***************************************************************************)
EXTENDS Directory, Numbers, SequenceTheorems

-----------------------------------------------------------------------------
(* Sizes                                                                   *)

AnyLen == 0 .. (BlockSize - 12)

LEMMA BlockSizes ==
    /\ BlockSize \in Nat \ {0} /\ BlockSize > 24 /\ BlockSize % 4 = 0
    /\ \A n \in NameLens \cup {1, 2} : n \in AnyLen
BY DirectoryTypes DEF AnyLen

\* Every entry is a multiple of four bytes long, and shorter than a block.
LEMMA RecLens ==
    ASSUME NEW n \in AnyLen
    PROVE  RecLen(n) \in 8 .. (BlockSize - 1) /\ RecLen(n) % 4 = 0
<1>1. n \in Nat /\ n + 12 <= BlockSize /\ BlockSize \in Nat
  BY DirectoryTypes DEF AnyLen
<1> DEFINE q == (n + 3) \div 4
<1>2. q \in Nat /\ 4 * q <= n + 3
  BY <1>1
<1>3. RecLen(n) = 8 + 4 * q
  BY <1>2 DEF RecLen
<1> HIDE DEF q
<1>4. 8 + 4 * q <= BlockSize - 1 /\ (8 + 4 * q) % 4 = 0
  BY <1>1, <1>2
<1> QED BY <1>1, <1>2, <1>3, <1>4

\* The borders of blocks are multiples of four.
LEMMA BordersByFour ==
    ASSUME NEW m \in Int
    PROVE  m * BlockSize \in Int /\ (m * BlockSize) % 4 = 0
<1>1. BlockSize \in Nat /\ BlockSize % 4 = 0
  BY DirectoryTypes
<1>2. PICK c \in Nat : BlockSize = c * 4
  <2>1. BlockSize \div 4 \in Nat /\ BlockSize = (BlockSize \div 4) * 4
    BY <1>1
  <2> QED BY <2>1
<1>3. m * c \in Int /\ m * BlockSize = (m * c) * 4 + 0
  BY <1>1, <1>2
<1>4. \A q \in Int : (q * 4 + 0) % 4 = 0
  OBVIOUS
<1>5. m * BlockSize \in Int
  BY <1>1
<1> QED BY <1>3, <1>4, <1>5

\* Byte r of block q lies there.
LEMMA InBlock ==
    ASSUME NEW q \in Int, NEW r \in 0 .. (BlockSize - 1)
    PROVE  /\ q * BlockSize \in Int
           /\ (q * BlockSize + r) \div BlockSize = q /\ (q * BlockSize + r) % BlockSize = r
BY BlockSizes, UniqueDivision

\* Every byte lies in a block.
LEMMA BlockOf ==
    ASSUME NEW a \in Nat
    PROVE  \E q \in Nat, r \in 0 .. (BlockSize - 1) :
              a = q * BlockSize + r /\ a \div BlockSize = q /\ a % BlockSize = r
<1>1. /\ BlockSize \in Nat \ {0}
      /\ a \div BlockSize \in Int /\ a % BlockSize \in 0 .. (BlockSize - 1)
      /\ a = (a \div BlockSize) * BlockSize + (a % BlockSize)
  BY BlockSizes, QuotientAndRest
<1> DEFINE q == a \div BlockSize
           r == a % BlockSize
<1>2. q \in Int /\ r \in 0 .. (BlockSize - 1) /\ a = q * BlockSize + r
  BY <1>1
<1> HIDE DEF q, r
<1>3. ~(q < 0)
  <2>1. ASSUME q < 0 PROVE q * BlockSize + BlockSize <= 0 * BlockSize
    BY <1>1, <1>2, <2>1, Multiples
  <2>2. q * BlockSize \in Int
    BY <1>1, <1>2
  <2> QED BY <1>1, <1>2, <2>1, <2>2
<1>4. q \in Nat
  BY <1>2, <1>3
<1> QED BY <1>2, <1>4 DEF q, r

-----------------------------------------------------------------------------
(* The entries laid out                                                    *)

Dents == [off : Nat, rec_len : Nat, name_len : AnyLen]

\* An entry that does not cross the border of a block, and holds its name.
GoodDent(d) ==
    /\ d.rec_len >= RecLen(d.name_len) /\ d.rec_len > 0
    /\ d.off \div BlockSize = (EndOf(d) - 1) \div BlockSize

Chain(ds) == ds[1].off = 0 /\ \A k \in 1 .. (Len(ds) - 1) : ds[k + 1].off = EndOf(ds[k])

\* ds can be read, and ends at off, within a block.
Laid(ds, off) ==
    /\ ds \in Seq(Dents) /\ Len(ds) > 0
    /\ Chain(ds) /\ \A k \in 1 .. Len(ds) : GoodDent(ds[k])
    /\ off = EndOf(ds[Len(ds)]) /\ off % BlockSize # 0 /\ off % 4 = 0

\* An entry of n bytes of name behind off, in the same block or the next one.
NextOff(off, n) ==
    LET next == (off + RecLen(n)) \div BlockSize
    IN  IF off \div BlockSize = next THEN off ELSE next * BlockSize

\* It is whole in its block, ends within it, and is where dentry_size counts it,
\* unless the count meets the end of a block.
IsNext(off, n, new) ==
    LET end == new + RecLen(n) IN
    /\ new \in Nat /\ new >= off /\ end \in Nat
    /\ (off + RecLen(n)) \div BlockSize # off \div BlockSize
          => (new - 1) \div BlockSize = (off - 1) \div BlockSize
    /\ new \div BlockSize = (end - 1) \div BlockSize
    /\ end % BlockSize # 0 /\ end % 4 = 0
    /\ dentry_size(off, n) # end => dentry_size(off, n) % BlockSize = 0

LEMMA NextPlace ==
    ASSUME NEW off \in Nat, off % BlockSize # 0, off % 4 = 0, NEW n \in AnyLen
    PROVE  IsNext(off, n, NextOff(off, n))
<1> DEFINE B   == BlockSize
           rec == RecLen(n)
           new == NextOff(off, n)
           end == new + rec
<1>0. B \in Nat \ {0}
  BY BlockSizes
<1>1. rec \in 8 .. (B - 1) /\ rec % 4 = 0
  BY RecLens
<1>2. PICK q \in Nat, r \in 0 .. (B - 1) : off = q * B + r /\ off \div B = q /\ off % B = r
  BY BlockOf
<1>3. r # 0 /\ q * B \in Nat /\ (q + 1) * B \in Nat /\ (q + 1) * B = q * B + B
  BY <1>0, <1>2
<1>4. (off - 1) \div B = q
  <2>1. off - 1 = q * B + (r - 1) /\ r - 1 \in 0 .. (B - 1)
    BY <1>0, <1>2, <1>3
  <2> QED BY <2>1, InBlock
<1>5. dentry_size(off, n) = IF r + rec > B THEN (q + 1) * B + rec ELSE off + rec
  BY <1>2 DEF dentry_size
<1>6. CASE r + rec < B
  <2>1. off + rec = q * B + (r + rec) /\ r + rec \in 0 .. (B - 1)
    BY <1>0, <1>1, <1>2, <1>3, <1>6
  <2>2. (off + rec) \div B = q /\ (off + rec) % B = r + rec
    BY <2>1, InBlock
  <2>3. new = off
    BY <1>2, <2>2 DEF NextOff
  <2>4. off + rec - 1 = q * B + (r + rec - 1) /\ r + rec - 1 \in 0 .. (B - 1)
    BY <1>0, <1>1, <1>2, <1>3, <1>6
  <2>5. (off + rec - 1) \div B = q
    BY <2>4, InBlock
  <2>6. (off + rec) % 4 = 0
    BY <1>1
  <2>7. r + rec # 0 /\ ~(r + rec > B)
    BY <1>0, <1>1, <1>2, <1>6
  <2> HIDE DEF B, rec, new
  <2> QED BY <1>1, <1>2, <1>5, <2>2, <2>3, <2>5, <2>6, <2>7 DEF B, rec, new, IsNext
<1>7. CASE ~(r + rec < B)
  <2>1. off + rec = (q + 1) * B + (r + rec - B) /\ r + rec - B \in 0 .. (B - 1)
    BY <1>0, <1>1, <1>2, <1>3, <1>7
  <2>2. (off + rec) \div B = q + 1 /\ (off + rec) % B = r + rec - B
    BY <2>1, InBlock
  <2>3. new = (q + 1) * B
    BY <1>2, <2>2 DEF NextOff
  <2>4. (new - 1) \div B = q
    <3>1. new - 1 = q * B + (B - 1) /\ B - 1 \in 0 .. (B - 1)
      BY <1>0, <1>3, <2>3
    <3> QED BY <3>1, InBlock
  <2>5. new \div B = q + 1
    <3>1. new = (q + 1) * B + 0 /\ 0 \in 0 .. (B - 1)
      BY <1>0, <1>3, <2>3
    <3> QED BY <3>1, InBlock
  <2>6. end % B = rec
    <3>1. end = (q + 1) * B + rec /\ rec \in 0 .. (B - 1)
      BY <1>1, <2>3
    <3> QED BY <3>1, InBlock
  <2>7. (end - 1) \div B = q + 1
    <3>1. end - 1 = (q + 1) * B + (rec - 1) /\ rec - 1 \in 0 .. (B - 1)
      BY <1>0, <1>1, <1>3, <2>3
    <3> QED BY <3>1, InBlock
  <2>8. new % 4 = 0 /\ end % 4 = 0
    <3>1. new % 4 = 0 /\ new \in Nat
      BY <1>2, <1>3, <2>3, BordersByFour
    <3> HIDE DEF new, rec
    <3> QED BY <1>1, <3>1
  <2>9. new >= off /\ new \in Nat /\ end \in Nat
    BY <1>0, <1>1, <1>2, <1>3, <2>3
  <2>10. dentry_size(off, n) # end => dentry_size(off, n) % B = 0
    <3>1. CASE r + rec > B
      BY <1>5, <2>3, <3>1
    <3>2. CASE r + rec = B
      <4>1. dentry_size(off, n) = off + rec
        BY <1>0, <1>5, <3>2
      <4>2. r + rec - B = 0
        BY <1>0, <1>1, <3>2
      <4> QED BY <2>2, <4>1, <4>2
    <3> QED BY <1>0, <1>1, <1>2, <1>7, <3>1, <3>2
  <2> HIDE DEF B, rec, new
  <2> QED BY <1>1, <1>2, <1>4, <2>2, <2>3, <2>4, <2>5, <2>6, <2>7, <2>8, <2>9, <2>10 DEF B, rec, new, IsNext
<1> QED BY <1>6, <1>7

\* The count never runs ahead of the entries.
LEMMA CountsNoMore ==
    ASSUME NEW off \in Nat, NEW n \in AnyLen, NEW c \in Nat
    PROVE  /\ dentry_size(c, n) \in Nat /\ c <= dentry_size(c, n)
           /\ c <= off => dentry_size(c, n) <= NextOff(off, n) + RecLen(n)
<1> DEFINE B   == BlockSize
           rec == RecLen(n)
           new == NextOff(off, n)
<1>0. B \in Nat \ {0}
  BY BlockSizes
<1>1. rec \in 8 .. (B - 1)
  BY RecLens
<1>2. PICK q \in Nat, r \in 0 .. (B - 1) : off = q * B + r /\ off \div B = q /\ off % B = r
  BY BlockOf
<1>3. PICK p \in Nat, s \in 0 .. (B - 1) : c = p * B + s /\ c \div B = p /\ c % B = s
  BY BlockOf
<1>4. /\ q * B \in Nat /\ (q + 1) * B \in Nat /\ (q + 1) * B = q * B + B
      /\ p * B \in Nat /\ (p + 1) * B \in Nat /\ (p + 1) * B = p * B + B
  BY <1>0, <1>2, <1>3
<1>5. dentry_size(c, n) = IF s + rec > B THEN (p + 1) * B + rec ELSE c + rec
  BY <1>3 DEF dentry_size
<1>6. new = IF r + rec < B THEN off ELSE (q + 1) * B
  <2>1. CASE r + rec < B
    <3>1. off + rec = q * B + (r + rec) /\ r + rec \in 0 .. (B - 1)
      BY <1>0, <1>1, <1>2, <1>4, <2>1
    <3>2. (off + rec) \div B = q
      BY <3>1, InBlock
    <3> QED BY <1>2, <2>1, <3>2 DEF NextOff
  <2>2. CASE ~(r + rec < B)
    <3>1. off + rec = (q + 1) * B + (r + rec - B) /\ r + rec - B \in 0 .. (B - 1)
      BY <1>0, <1>1, <1>2, <1>4, <2>2
    <3>2. (off + rec) \div B = q + 1
      BY <3>1, InBlock
    <3>3. q + 1 # q
      BY <1>2
    <3> QED BY <1>2, <2>2, <3>2, <3>3 DEF NextOff
  <2> QED BY <2>1, <2>2
<1>7. (p < q => p * B + B <= q * B) /\ (q < p => q * B + B <= p * B)
  BY <1>0, <1>2, <1>3, Multiples
<1> DEFINE pB == p * B
           qB == q * B
<1>8. /\ pB \in Nat /\ qB \in Nat /\ c = pB + s /\ off = qB + r
      /\ (p < q => pB + B <= qB) /\ (q < p => qB + B <= pB) /\ (p = q => pB = qB)
      /\ dentry_size(c, n) = (IF s + rec > B THEN pB + B + rec ELSE c + rec)
      /\ new = (IF r + rec < B THEN off ELSE qB + B)
  BY <1>2, <1>3, <1>4, <1>5, <1>6, <1>7
<1> HIDE DEF B, rec, new, pB, qB
<1>9. dentry_size(c, n) \in Nat /\ c <= dentry_size(c, n)
  BY <1>0, <1>1, <1>3, <1>8
<1>10. ASSUME c <= off PROVE dentry_size(c, n) <= new + rec
  BY <1>0, <1>1, <1>2, <1>3, <1>8, <1>10
<1> QED BY <1>9, <1>10 DEF B, rec, new

LEMMA AddDentry ==
    ASSUME NEW ds, NEW off, Laid(ds, off), NEW n \in AnyLen
    PROVE  LET new == add_dentry(ds, off, n)
               end == EndOf(new[Len(new)])
           IN  /\ Laid(new, end) /\ Len(new) = Len(ds) + 1
               /\ \A k \in 1 .. Len(ds) : new[k].name_len = ds[k].name_len
               /\ new[Len(new)].name_len = n
               /\ dentry_size(off, n) # end => dentry_size(off, n) % BlockSize = 0
               /\ \A c \in Nat : c <= off => dentry_size(c, n) <= end
<1> DEFINE at    == NextOff(off, n)
           last  == ds[Len(ds)]
           moved == (off + RecLen(n)) \div BlockSize # off \div BlockSize
           kept  == IF moved THEN [last EXCEPT !.rec_len = @ + at - off] ELSE last
           front == IF moved THEN [ds EXCEPT ![Len(ds)] = kept] ELSE ds
           d     == Dent(at, RecLen(n), n)
           new   == Append(front, d)
<1>1. /\ ds \in Seq(Dents) /\ Len(ds) \in Nat \ {0} /\ off = EndOf(last)
      /\ off % BlockSize # 0 /\ off % 4 = 0
      /\ last \in Dents /\ GoodDent(last)
  BY LenProperties, ElementOfSeq DEF Laid
<1>0. Len(ds) \in Nat \ {0}
  BY <1>1
<1>2. off \in Nat
  BY <1>1 DEF Dents, EndOf
<1>3. /\ RecLen(n) \in 8 .. (BlockSize - 1)
      /\ RecLen(n) \in Nat /\ RecLen(n) > 0
  BY RecLens
<1>4. /\ ~moved => at = off
      /\ moved => at = ((off + RecLen(n)) \div BlockSize) * BlockSize
  BY DEF NextOff
<1>15. IsNext(off, n, at)
  BY <1>1, <1>2, NextPlace
<1>16. at \in Nat /\ at >= off
  <2> HIDE DEF at
  <2> QED BY <1>15 DEF IsNext
<1>17. \A c \in Nat : c <= off => dentry_size(c, n) <= at + RecLen(n)
  BY <1>2, CountsNoMore
<1>5. add_dentry(ds, off, n) = new
  <2>2. CASE ~moved
    BY <1>4, <2>2 DEF add_dentry
  <2>3. CASE moved
    <3>1. [ds EXCEPT ![Len(ds)].rec_len = @ + at - off] = front
      BY <1>1, <2>3
    <3> QED BY <1>4, <2>3, <3>1 DEF add_dentry
  <2> QED BY <2>2, <2>3
<1>6. /\ kept \in Dents /\ GoodDent(kept) /\ EndOf(kept) = at
      /\ kept.off = last.off /\ kept.name_len = last.name_len
  <2>1. CASE ~moved
    BY <1>1, <1>4, <2>1
  <2>2. CASE moved
    <3>1. last.off \in Nat /\ last.rec_len \in Nat /\ last.name_len \in AnyLen
          /\ off = last.off + last.rec_len
      BY <1>1 DEF Dents, EndOf
    <3> HIDE DEF at, last
    <3>2. last.rec_len + at - off \in Nat /\ last.rec_len + at - off >= last.rec_len
          /\ last.off + (last.rec_len + at - off) = at
      BY <1>2, <1>16, <3>1
    <3>3. /\ kept \in Dents /\ kept.off = last.off /\ kept.name_len = last.name_len
          /\ kept.rec_len = last.rec_len + at - off
      BY <1>1, <2>2, <3>2 DEF Dents
    <3>4. EndOf(kept) = at
      BY <3>2, <3>3 DEF EndOf
    <3>5. last.off \div BlockSize = (at - 1) \div BlockSize
      BY <1>1, <1>15, <2>2 DEF GoodDent, IsNext
    <3>6. last.rec_len >= RecLen(last.name_len) /\ last.rec_len > 0
      BY <1>1 DEF GoodDent
    <3>7. RecLen(last.name_len) \in Nat
      BY <3>1, RecLens
    <3>8. kept.rec_len >= RecLen(last.name_len) /\ kept.rec_len > 0
      <4> HIDE DEF kept, last
      <4> QED BY <3>1, <3>2, <3>3, <3>6, <3>7
    <3> HIDE DEF kept
    <3> QED BY <3>3, <3>4, <3>5, <3>8 DEF GoodDent
  <2> QED BY <2>1, <2>2
<1> HIDE DEF at, kept
<1>7. /\ front \in Seq(Dents) /\ Len(front) = Len(ds) /\ front[Len(ds)] = kept
      /\ \A k \in 1 .. (Len(ds) - 1) : front[k] = ds[k]
  <2>1. Len(ds) \in 1 .. Len(ds)
    BY <1>1
  <2>2. CASE moved
    <3>1. front = [ds EXCEPT ![Len(ds)] = kept]
      BY <2>2
    <3>2. /\ front \in Seq(Dents) /\ Len(front) = Len(ds)
          /\ \A k \in 1 .. Len(ds) : front[k] = IF k = Len(ds) THEN kept ELSE ds[k]
      BY <1>1, <1>6, <2>1, <3>1, ExceptSeq
    <3> QED BY <1>1, <2>1, <3>2
  <2>3. CASE ~moved
    BY <1>1, <2>3 DEF kept
  <2> QED BY <2>2, <2>3
<1> HIDE DEF front, moved
<1>8. d \in Dents /\ GoodDent(d) /\ EndOf(d) = at + RecLen(n) /\ d.off = at /\ d.name_len = n
  <2>1. d.off = at /\ d.rec_len = RecLen(n) /\ d.name_len = n /\ d \in Dents
    BY <1>3, <1>16 DEF Dent, Dents
  <2>2. d.off \div BlockSize = (EndOf(d) - 1) \div BlockSize
    BY <1>15, <2>1 DEF IsNext, EndOf
  <2>3. EndOf(d) = at + RecLen(n)
    BY <2>1 DEF EndOf
  <2> QED BY <1>3, <2>1, <2>2, <2>3 DEF GoodDent
<1> HIDE DEF d, last
<1>9. /\ new \in Seq(Dents) /\ Len(new) = Len(ds) + 1
      /\ new[Len(ds) + 1] = d /\ new[Len(ds)] = kept
      /\ \A k \in 1 .. (Len(ds) - 1) : new[k] = ds[k]
  <2>1. /\ new \in Seq(Dents) /\ Len(new) = Len(front) + 1
        /\ \A k \in 1 .. Len(front) : new[k] = front[k]
        /\ new[Len(front) + 1] = d
    BY <1>7, <1>8, AppendProperties
  <2> QED BY <1>1, <1>7, <2>1
<1> HIDE DEF new
<1>10. Chain(new)
  <2>1. new[1].off = 0
    <3>1. ds[1].off = 0
      BY DEF Laid, Chain
    <3>2. CASE Len(ds) = 1
      BY <1>6, <1>9, <3>1, <3>2 DEF last
    <3>3. CASE Len(ds) # 1
      <4>1. \A m \in Nat \ {0} : m # 1 => 1 \in 1 .. (m - 1)
        OBVIOUS
      <4>2. 1 \in 1 .. (Len(ds) - 1)
        BY <1>0, <3>3, <4>1, Zenon
      <4> QED BY <1>9, <3>1, <4>2
    <3> QED BY <3>2, <3>3
  <2>2. ASSUME NEW k \in 1 .. (Len(new) - 1) PROVE new[k + 1].off = EndOf(new[k])
    <3>1. CASE k = Len(ds)
      BY <1>6, <1>8, <1>9, <3>1
    <3>2. CASE k = Len(ds) - 1
      <4>1. new[k + 1] = kept /\ new[k] = ds[k] /\ k \in 1 .. (Len(ds) - 1)
        BY <1>1, <1>9, <3>2
      <4>2. ds[k + 1].off = EndOf(ds[k]) /\ ds[k + 1] = last
        BY <1>1, <3>2, <4>1 DEF Laid, Chain, last
      <4> QED BY <1>6, <4>1, <4>2
    <3>3. CASE k < Len(ds) - 1
      <4>1. new[k + 1] = ds[k + 1] /\ new[k] = ds[k] /\ k \in 1 .. (Len(ds) - 1)
        BY <1>1, <1>9, <3>3
      <4> QED BY <4>1 DEF Laid, Chain
    <3> QED BY <1>1, <1>9, <3>1, <3>2, <3>3
  <2> QED BY <2>1, <2>2 DEF Chain
<1>11. ASSUME NEW k \in 1 .. Len(new) PROVE GoodDent(new[k])
  <2>1. CASE k = Len(ds) + 1
    BY <1>8, <1>9, <2>1
  <2>2. CASE k = Len(ds)
    BY <1>6, <1>9, <2>2
  <2>3. CASE k < Len(ds)
    <3>1. k \in 1 .. (Len(ds) - 1) /\ k \in 1 .. Len(ds)
      BY <1>1, <2>3
    <3> QED BY <1>9, <3>1 DEF Laid
  <2> QED BY <1>1, <1>9, <2>1, <2>2, <2>3
<1>12. ASSUME NEW k \in 1 .. Len(ds) PROVE new[k].name_len = ds[k].name_len
  <2>1. CASE k = Len(ds)
    BY <1>6, <1>9, <2>1 DEF last
  <2>2. CASE k # Len(ds)
    BY <1>1, <1>9, <2>2
  <2> QED BY <2>1, <2>2
<1>13. new[Len(new)] = d /\ Len(new) > 0
  BY <1>1, <1>9
<1>14. Laid(new, EndOf(new[Len(new)]))
  BY <1>8, <1>9, <1>10, <1>11, <1>13, <1>15 DEF Laid, IsNext
<1> QED BY <1>15, <1>17, <1>5, <1>8, <1>9, <1>12, <1>13, <1>14 DEF IsNext

-----------------------------------------------------------------------------
(* The inductive invariant                                                 *)

TypesInv ==
    /\ names \in Seq(NameLens) /\ i \in 0 .. Len(names)
    /\ pc \in {"idle", "start", "adding", "done", "internal_error"}
    /\ pc \in {"idle", "start"} => i = 0

\* counted is what dentry_size computes, and grows.
CountInv ==
    /\ counted \in Seq(Nat) /\ Len(counted) \in 1 .. (Len(names) + 1)
    /\ counted[1] = 24
    /\ \A k \in 1 .. (Len(counted) - 1) : counted[k + 1] = dentry_size(counted[k], names[k])
    /\ \A k \in 1 .. Len(counted) : counted[k] <= counted[Len(counted)]

\* The space is that of the blocks the count needs.
LenInv ==
    pc \in {"adding", "done", "internal_error"} =>
        /\ AllCounted
        /\ \E m \in Nat : len = m * BlockSize
        /\ counted[Len(counted)] <= len /\ len < counted[Len(counted)] + BlockSize

\* No count meets the end of a block.
NoFull == \A k \in 1 .. Len(counted) : counted[k] % BlockSize # 0

\* What is laid out can be read and holds the names so far; it has not run out of
\* space, is never behind the count and, while no count has met the end of a block,
\* exactly where the count says.
AddingInv ==
    pc = "adding" =>
        /\ Laid(dents, offset) /\ Len(dents) = i + 2
        /\ \A k \in 1 .. i : dents[k + 2].name_len = names[k]
        /\ offset < len /\ counted[i + 1] <= offset
        /\ NoFull => offset = counted[i + 1]

EndInv ==
    /\ pc = "done" => WalkFindsEveryEntry /\ EntriesHoldTheirNames /\ offset < len
    /\ pc = "internal_error" => ~NoFull

DirInv == TypesInv /\ CountInv /\ LenInv /\ AddingInv /\ EndInv

LEMMA DotsLaid == Laid(DotEntries, 24) /\ Len(DotEntries) = 2 /\ EndOf(DotEntries[2]) = 24
<1> DEFINE d1 == Dent(0, 12, 1)
           d2 == Dent(12, 12, 2)
<1>1. RecLen(1) = 12 /\ RecLen(2) = 12
  BY DEF RecLen
<1>2. ASSUME NEW r \in 0 .. 24 PROVE r \div BlockSize = 0 /\ r % BlockSize = r
  <2>1. BlockSize \in Nat /\ BlockSize > 24
    BY BlockSizes
  <2>2. r = 0 * BlockSize + r /\ r \in 0 .. (BlockSize - 1)
    BY <2>1
  <2> QED BY <2>2, InBlock
<1>3. /\ 0 \div BlockSize = 0 /\ 11 \div BlockSize = 0 /\ 12 \div BlockSize = 0
      /\ 23 \div BlockSize = 0 /\ 24 \div BlockSize = 0 /\ 24 % BlockSize = 24
  BY <1>2
<1>4. DotEntries = Append(<<d1>>, d2)
  <2>1. add_dentry(<<>>, 0, 1) = <<d1>>
    BY <1>1, <1>3 DEF add_dentry
  <2>2. 12 + RecLen(2) = 24 /\ d2 = Dent(12, RecLen(2), 2)
    BY <1>1
  <2> HIDE DEF d1, d2
  <2>3. add_dentry(<<d1>>, 12, 2) = Append(<<d1>>, d2)
    BY <1>3, <2>2 DEF add_dentry
  <2> QED BY <1>1, <2>1, <2>3 DEF DotEntries
<1>5. d1 \in Dents /\ d2 \in Dents
  BY BlockSizes DEF Dent, Dents
<1>6. EndOf(d1) = 12 /\ EndOf(d2) = 24 /\ d1.off = 0 /\ d2.off = 12
  BY DEF EndOf, Dent
<1>7. GoodDent(d1) /\ GoodDent(d2)
  BY <1>1, <1>3, <1>6 DEF GoodDent, Dent
<1>8. /\ DotEntries \in Seq(Dents) /\ Len(DotEntries) = 2
      /\ DotEntries[1] = d1 /\ DotEntries[2] = d2
  <2> HIDE DEF d1, d2
  <2>1. <<d1>> \in Seq(Dents) /\ Len(<<d1>>) = 1 /\ <<d1>>[1] = d1
    BY <1>5
  <2> QED BY <1>4, <1>5, <2>1, AppendProperties
<1> HIDE DEF d1, d2
<1>9. Chain(DotEntries)
  BY <1>6, <1>8 DEF Chain
<1> QED BY <1>3, <1>6, <1>7, <1>8, <1>9 DEF Laid

\* The names in a sequence have lengths of names.
LEMMA NameAt ==
    ASSUME TypesInv, NEW k \in 1 .. Len(names)
    PROVE  names[k] \in AnyLen /\ names[k] \in Nat
<1>1. names[k] \in NameLens
  BY ElementOfSeq DEF TypesInv
<1> QED BY <1>1, BlockSizes DEF AnyLen

LEMMA CountAt ==
    ASSUME CountInv, NEW k \in 1 .. Len(counted)
    PROVE  counted[k] \in Nat /\ counted[k] <= counted[Len(counted)]
BY ElementOfSeq DEF CountInv

\* The entry for the rest of the block is whole in it.
LEMMA RestOfBlock ==
    ASSUME NEW off \in Nat, NEW end \in Nat, off < end,
           NEW c \in Nat, c <= off, end < c + BlockSize,
           NEW m \in Nat, end = m * BlockSize, off % 4 = 0
    PROVE  off \div BlockSize = (end - 1) \div BlockSize /\ end - off >= 4
<1> DEFINE B == BlockSize
<1>0. B \in Nat \ {0}
  BY BlockSizes
<1>1. /\ end = (m - 1) * B + B /\ (m - 1) * B \in Int
  BY <1>0
<1>2. end - 1 = (m - 1) * B + (B - 1) /\ B - 1 \in 0 .. (B - 1)
  BY <1>0, <1>1
<1>3. (end - 1) \div B = m - 1
  BY <1>2, InBlock
<1>4. off = (m - 1) * B + (off - (m - 1) * B) /\ off - (m - 1) * B \in 0 .. (B - 1)
  BY <1>0, <1>1
<1>5. off \div B = m - 1
  BY <1>4, InBlock
<1>6. end % 4 = 0
  BY BordersByFour
<1>7. end - off >= 4
  <2>1. \A a, b \in Nat : a < b /\ a % 4 = 0 /\ b % 4 = 0 => b - a >= 4
    OBVIOUS
  <2> QED BY <1>6, <2>1, Zenon
<1> QED BY <1>3, <1>5, <1>7

-----------------------------------------------------------------------------
(* Every step keeps it                                                     *)

LEMMA InitGood == DirectoryInit => DirInv
<1> SUFFICES ASSUME DirectoryInit PROVE DirInv
  OBVIOUS
<1> USE DEF DirectoryInit
<1>1. TypesInv
  BY DEF TypesInv
<1>2. CountInv
  <2>1. counted = <<24>> /\ names = <<>>
    OBVIOUS
  <2>2. counted \in Seq(Nat) /\ Len(counted) = 1 /\ counted[1] = 24 /\ Len(names) = 0
    BY <2>1
  <2> QED BY <2>2 DEF CountInv
<1> QED BY <1>1, <1>2 DEF DirInv, LenInv, AddingInv, EndInv

LEMMA NewDirectoryGood ==
    ASSUME DirInv, NEW ns \in AnyNames, new_directory(ns) PROVE DirInv'
<1>1. ns \in Seq(NameLens)
  <2>1. PICK n \in 0 .. MaxEntries : ns \in [1 .. n -> NameLens]
    BY DEF AnyNames
  <2>2. n \in Nat
    BY DirectoryTypes
  <2> QED BY <2>1, <2>2, IsASeq
<1>2. names' = ns /\ counted' = <<24>> /\ i' = 0 /\ pc' = "start"
  BY DEF new_directory
<1>3. TypesInv'
  BY <1>1, <1>2, LenProperties DEF TypesInv
<1>4. CountInv'
  <2>1. counted' \in Seq(Nat) /\ Len(counted') = 1 /\ counted'[1] = 24 /\ Len(names') \in Nat
    BY <1>1, <1>2, LenProperties
  <2> QED BY <2>1 DEF CountInv
<1> QED BY <1>2, <1>3, <1>4 DEF DirInv, LenInv, AddingInv, EndInv

LEMMA CountEntryGood == ASSUME DirInv, count_entry PROVE DirInv'
<1> DEFINE m   == Len(counted)
           new == dentry_size(counted[m], names[m])
<1>1. /\ counted' = Append(counted, new) /\ names' = names /\ i' = i
      /\ pc = "start" /\ pc' = "start" /\ m <= Len(names)
  BY DEF count_entry
<1>2. TypesInv /\ CountInv /\ m \in Nat /\ m \in 1 .. Len(names) /\ Len(names) \in Nat
  BY <1>1, LenProperties DEF DirInv, TypesInv, CountInv
<1>3. TypesInv'
  BY <1>1, <1>2 DEF TypesInv
<1>4. new \in Nat /\ counted[m] <= new
  <2>1. names[m] \in AnyLen /\ counted[m] \in Nat
    BY <1>2, NameAt, CountAt
  <2> QED BY <2>1, CountsNoMore
<1> HIDE DEF new
<1>5. /\ counted' \in Seq(Nat) /\ Len(counted') = m + 1
      /\ \A k \in 1 .. m : counted'[k] = counted[k]
      /\ counted'[m + 1] = new
  BY <1>1, <1>2, <1>4, AppendProperties DEF CountInv
<1>6. \A k \in 1 .. m : counted[k] \in Nat /\ counted[k] <= counted[m]
  BY <1>2, CountAt
<1>7. CountInv'
  <2>1. counted'[1] = 24 /\ Len(counted') \in 1 .. (Len(names') + 1)
    BY <1>1, <1>2, <1>5 DEF CountInv
  <2>2. ASSUME NEW k \in 1 .. (Len(counted') - 1)
        PROVE counted'[k + 1] = dentry_size(counted'[k], names'[k])
    <3>1. k \in 1 .. m
      BY <1>2, <1>5
    <3>2. CASE k = m
      BY <1>1, <1>5, <3>1, <3>2 DEF new
    <3>3. CASE k # m
      <4>1. k \in 1 .. (m - 1) /\ k + 1 \in 1 .. m
        BY <1>2, <3>1, <3>3
      <4> QED BY <1>1, <1>2, <1>5, <3>1, <4>1 DEF CountInv
    <3> QED BY <3>2, <3>3
  <2>3. ASSUME NEW k \in 1 .. Len(counted') PROVE counted'[k] <= counted'[Len(counted')]
    <3>1. CASE k = m + 1
      BY <1>4, <1>5, <3>1
    <3>2. CASE k # m + 1
      <4>1. k \in 1 .. m
        BY <1>2, <1>5, <3>2
      <4>2. counted'[k] = counted[k] /\ counted'[Len(counted')] = new
        BY <1>5, <4>1
      <4>3. counted[k] \in Nat /\ counted[k] <= counted[m] /\ counted[m] \in Nat
        BY <1>2, <1>6, <4>1
      <4> QED BY <1>4, <4>2, <4>3
    <3> QED BY <3>1, <3>2
  <2> QED BY <1>5, <2>1, <2>2, <2>3 DEF CountInv
<1> QED BY <1>1, <1>3, <1>7 DEF DirInv, LenInv, AddingInv, EndInv

\* The blocks that n bytes need.
LEMMA BlocksHold ==
    ASSUME NEW n \in Nat
    PROVE  /\ DirectoryBlocks(n) \in Nat /\ DirectoryBlocks(n) * BlockSize \in Nat
           /\ n <= DirectoryBlocks(n) * BlockSize
           /\ DirectoryBlocks(n) * BlockSize < n + BlockSize
<1>1. BlockSize \in Nat \ {0} /\ n + BlockSize - 1 \in Nat
  BY BlockSizes
<1>2. PICK q \in Nat, r \in 0 .. (BlockSize - 1) :
          /\ n + BlockSize - 1 = q * BlockSize + r
          /\ (n + BlockSize - 1) \div BlockSize = q
  BY <1>1, BlockOf
<1>3. DirectoryBlocks(n) = q /\ q * BlockSize \in Nat
  BY <1>1, <1>2 DEF DirectoryBlocks
<1>4. n <= q * BlockSize /\ q * BlockSize < n + BlockSize
  <2> DEFINE t == q * BlockSize
  <2>1. n + BlockSize - 1 = t + r /\ t \in Nat
    BY <1>2, <1>3
  <2> HIDE DEF t
  <2>2. n <= t /\ t < n + BlockSize
    BY <1>1, <2>1
  <2> QED BY <2>2 DEF t
<1> QED BY <1>3, <1>4

LEMMA MakeDirectoryGood == ASSUME DirInv, make_directory PROVE DirInv'
<1> DEFINE top == counted[Len(counted)]
           b   == DirectoryBlocks(top)
<1>1. /\ pc = "start" /\ AllCounted /\ len' = b * BlockSize
      /\ dents' = DotEntries /\ offset' = EndOf(DotEntries[2])
      /\ pc' = "adding" /\ names' = names /\ counted' = counted /\ i' = i
  BY DEF make_directory
<1>2. TypesInv /\ CountInv /\ Len(counted) \in Nat /\ 1 \in 1 .. Len(counted)
      /\ Len(counted) \in 1 .. Len(counted)
  BY LenProperties DEF DirInv, CountInv
<1>3. top \in Nat /\ counted[1] = 24 /\ 24 <= top
  BY <1>2, CountAt DEF CountInv
<1>4. b \in Nat /\ len' \in Nat /\ top <= len' /\ len' < top + BlockSize
  BY <1>1, <1>3, BlocksHold
<1>5. Laid(dents', offset') /\ Len(dents') = 2 /\ offset' = 24
  BY <1>1, DotsLaid
<1>6. LenInv'
  BY <1>1, <1>4 DEF LenInv, AllCounted
<1> HIDE DEF b, top
<1>7. offset' < len'
  <2>1. len' # 24
    <3>1. len' % BlockSize = 0
      <4>1. len' = b * BlockSize + 0 /\ 0 \in 0 .. (BlockSize - 1)
        BY <1>1, <1>4, BlockSizes
      <4> QED BY <1>4, <4>1, InBlock
    <3>2. 24 % BlockSize # 0
      BY <1>5, DotsLaid DEF Laid
    <3> QED BY <3>1, <3>2
  <2> QED BY <1>3, <1>4, <1>5, <2>1
<1>8. i' = 0 /\ counted'[1] = 24
  BY <1>1, <1>2, <1>3 DEF TypesInv
<1>9. AddingInv'
  <2>1. counted'[i' + 1] = 24
    BY <1>8
  <2>2. Len(dents') = i' + 2 /\ \A k \in 1 .. i' : dents'[k + 2].name_len = names'[k]
    BY <1>5, <1>8
  <2>3. 24 <= offset' /\ offset' = counted'[i' + 1] /\ counted'[i' + 1] <= offset'
    BY <1>5, <2>1
  <2> QED BY <1>5, <1>7, <2>2, <2>3 DEF AddingInv
<1>10. TypesInv' /\ CountInv'
  BY <1>1, <1>2, <1>8 DEF TypesInv, CountInv
<1> QED BY <1>1, <1>6, <1>9, <1>10 DEF DirInv, EndInv

LEMMA AddEntryGood == ASSUME DirInv, add_entry PROVE DirInv'
<1> DEFINE n   == names[i + 1]
           new == add_dentry(dents, offset, n)
           end == EndOf(new[Len(new)])
           c   == counted[i + 1]
           top == counted[Len(counted)]
<1>1. /\ pc = "adding" /\ i < Len(names) /\ dents' = new /\ offset' = end /\ i' = i + 1
      /\ pc' = IF offset' > len \/ (offset' = len /\ i' # Len(names))
               THEN "internal_error" ELSE "adding"
      /\ names' = names /\ counted' = counted /\ len' = len
  BY DEF add_entry
<1>2. /\ TypesInv /\ CountInv /\ i \in Nat /\ Len(names) \in Nat /\ Len(counted) = Len(names) + 1
      /\ i + 1 \in 1 .. Len(names)
  BY <1>1, LenProperties DEF DirInv, TypesInv, LenInv, AllCounted
<1>3. /\ Laid(dents, offset) /\ Len(dents) = i + 2
      /\ \A k \in 1 .. i : dents[k + 2].name_len = names[k]
      /\ c <= offset /\ (NoFull => offset = c)
  BY <1>1 DEF DirInv, AddingInv
<1>4. n \in AnyLen
  BY <1>2, NameAt
<1>5. /\ Laid(new, end) /\ Len(new) = Len(dents) + 1
      /\ \A k \in 1 .. Len(dents) : new[k].name_len = dents[k].name_len
      /\ new[Len(new)].name_len = n
      /\ dentry_size(offset, n) # end => dentry_size(offset, n) % BlockSize = 0
      /\ \A e \in Nat : e <= offset => dentry_size(e, n) <= end
  BY <1>3, <1>4, AddDentry
<1> HIDE DEF new
<1>6. /\ c \in Nat /\ top \in Nat /\ counted[i + 2] \in Nat /\ counted[i + 2] <= top
      /\ counted[i + 2] = dentry_size(c, n)
  <2>1. /\ i + 1 \in 1 .. Len(counted) /\ i + 2 \in 1 .. Len(counted)
        /\ Len(counted) \in 1 .. Len(counted)
        /\ i + 1 \in 1 .. (Len(counted) - 1) /\ (i + 1) + 1 = i + 2
    BY <1>2
  <2>2. counted[i + 1 + 1] = dentry_size(c, n)
    BY <1>2, <2>1 DEF CountInv
  <2> QED BY <1>2, <2>1, <2>2, CountAt
<1>7. end \in Nat /\ end % BlockSize # 0
  <2>1. new[Len(new)] \in Dents
    BY <1>5, LenProperties, ElementOfSeq DEF Laid
  <2> QED BY <1>5, <2>1 DEF Laid, Dents, EndOf
<1>8. counted[i + 2] <= end
  BY <1>3, <1>5, <1>6
<1>9. ASSUME NoFull PROVE end = counted[i + 2]
  <2>1. i + 2 \in 1 .. Len(counted) /\ offset = c
    BY <1>2, <1>3, <1>9
  <2>2. counted[i + 2] % BlockSize # 0
    BY <1>9, <2>1 DEF NoFull
  <2> QED BY <1>5, <1>6, <2>1, <2>2
<1> HIDE DEF end, c
<1>10. PICK m \in Nat : len = m * BlockSize
  BY <1>1 DEF DirInv, LenInv
<1>11. len \in Nat /\ len % BlockSize = 0
  <2>1. BlockSize \in Nat \ {0}
    BY BlockSizes
  <2>2. m * BlockSize \in Nat
    BY <2>1
  <2>3. len = m * BlockSize + 0 /\ 0 \in 0 .. (BlockSize - 1)
    BY <1>10, <2>1, <2>2
  <2> QED BY <1>10, <2>2, <2>3, InBlock
<1>12. top <= len
  BY <1>1 DEF DirInv, LenInv
<1>13. end # len
  BY <1>7, <1>11
<1>14. pc' = "internal_error" => end > len
  BY <1>1, <1>13
<1>15. pc' = "internal_error" => ~NoFull
  BY <1>6, <1>7, <1>9, <1>11, <1>12, <1>14
<1>16. pc' # "internal_error" => pc' = "adding" /\ end < len
  BY <1>1, <1>7, <1>11, <1>13
<1>17. NoFull' <=> NoFull
  BY <1>1 DEF NoFull
<1>18. LenInv'
  BY <1>1 DEF DirInv, LenInv, AllCounted
<1>19. TypesInv' /\ CountInv'
  BY <1>1, <1>2 DEF TypesInv, CountInv
<1>20. ASSUME NEW k \in 1 .. i' PROVE dents'[k + 2].name_len = names'[k]
  <2>1. CASE k = i + 1
    <3>1. k + 2 = Len(new) /\ names'[k] = n
      BY <1>1, <1>2, <1>3, <1>5, <2>1
    <3> QED BY <1>1, <1>5, <3>1
  <2>2. CASE k # i + 1
    <3>1. k \in 1 .. i /\ k + 2 \in 1 .. Len(dents)
      BY <1>1, <1>2, <1>3, <2>2
    <3> QED BY <1>1, <1>3, <1>5, <3>1
  <2> QED BY <2>1, <2>2
<1>21. AddingInv'
  <2>1. Laid(dents', offset')
    BY <1>1, <1>5 DEF end
  <2>2. Len(dents') = i' + 2 /\ i' + 1 = i + 2
    BY <1>1, <1>2, <1>3, <1>5
  <2> QED BY <1>1, <1>8, <1>9, <1>16, <1>17, <1>20, <2>1, <2>2 DEF AddingInv
<1>22. EndInv'
  BY <1>1, <1>15, <1>17 DEF EndInv
<1> QED BY <1>18, <1>19, <1>21, <1>22 DEF DirInv

LEMMA AddLastGood == ASSUME DirInv, add_last PROVE DirInv'
<1> DEFINE d   == Dent(offset, len - offset, 0)
           new == Append(dents, d)
           top == counted[Len(counted)]
<1>1. /\ pc = "adding" /\ i = Len(names) /\ dents' = new /\ pc' = "done"
      /\ names' = names /\ counted' = counted /\ len' = len /\ offset' = offset /\ i' = i
  BY DEF add_last
<1>2. /\ TypesInv /\ CountInv /\ LenInv /\ Len(names) \in Nat /\ i \in Nat
      /\ Len(counted) = i + 1
  BY <1>1, LenProperties DEF DirInv, TypesInv, LenInv, AllCounted
<1>3. /\ Laid(dents, offset) /\ Len(dents) = i + 2
      /\ \A k \in 1 .. i : dents[k + 2].name_len = names[k]
      /\ offset < len /\ top <= offset
  BY <1>1, <1>2 DEF DirInv, AddingInv
<1>4. top \in Nat
  BY <1>2, CountAt
<1>5. PICK m \in Nat : len = m * BlockSize
  BY <1>1, <1>2 DEF LenInv
<1>6. len \in Nat /\ len < top + BlockSize
  <2>1. m * BlockSize \in Nat
    BY BlockSizes
  <2> QED BY <1>1, <1>2, <1>5, <2>1 DEF LenInv
<1>7. offset \in Nat /\ offset % 4 = 0 /\ dents[Len(dents)] \in Dents
  <2>1. dents[Len(dents)] \in Dents
    BY <1>3, LenProperties, ElementOfSeq DEF Laid
  <2> QED BY <1>3, <2>1 DEF Laid, Dents, EndOf
<1>8. offset \div BlockSize = (len - 1) \div BlockSize /\ len - offset >= 4
  BY <1>3, <1>4, <1>5, <1>6, <1>7, RestOfBlock
<1>9. (len - offset) % 4 = 0
  <2>1. len % 4 = 0
    BY <1>5, BordersByFour
  <2>2. \A a, b \in Nat : a < b /\ a % 4 = 0 /\ b % 4 = 0 => (b - a) % 4 = 0
    OBVIOUS
  <2> QED BY <1>3, <1>6, <1>7, <2>1, <2>2, Zenon
<1>10. /\ d.off = offset /\ d.rec_len = len - offset /\ d.name_len = 0 /\ EndOf(d) = len
  BY <1>6, <1>7 DEF Dent, EndOf
<1>11. d \in Dents
  <2>1. 0 \in AnyLen /\ len - offset \in Nat
    BY <1>6, <1>7, <1>8, BlockSizes DEF AnyLen
  <2> QED BY <1>7, <2>1 DEF Dent, Dents
<1>12. d.rec_len >= RecLen(0) \/ d.rec_len = 4
  <2>1. RecLen(0) = 8
    BY DEF RecLen
  <2>2. \A a, b \in Nat : b - a >= 4 /\ (b - a) % 4 = 0 => b - a >= 8 \/ b - a = 4
    OBVIOUS
  <2>3. len - offset >= 8 \/ len - offset = 4
    BY <1>6, <1>7, <1>8, <1>9, <2>2, Zenon
  <2> QED BY <1>10, <2>1, <2>3
<1> HIDE DEF d
<1>13. /\ Len(new) = i + 3 /\ new[i + 3] = d
       /\ \A k \in 1 .. (i + 2) : new[k] = dents[k]
  <2>1. dents \in Seq(Dents)
    BY <1>3 DEF Laid
  <2> QED BY <1>2, <1>3, <1>11, <2>1, AppendProperties
<1> HIDE DEF new
<1>14. ASSUME NEW k \in 1 .. (Len(new) - 1) PROVE new[k + 1].off = EndOf(new[k])
  <2>1. CASE k = i + 2
    BY <1>2, <1>3, <1>10, <1>13, <2>1 DEF Laid
  <2>2. CASE k # i + 2
    <3>1. k \in 1 .. (Len(dents) - 1) /\ k \in 1 .. (i + 2) /\ k + 1 \in 1 .. (i + 2)
      BY <1>2, <1>3, <1>13, <2>2
    <3> QED BY <1>3, <1>13, <3>1 DEF Laid, Chain
  <2> QED BY <2>1, <2>2
<1>15. new[1].off = 0
  BY <1>2, <1>3, <1>13 DEF Laid, Chain
<1>16. ASSUME NEW k \in 1 .. i PROVE new[k + 2].name_len = names[k]
  <2>1. k + 2 \in 1 .. (i + 2)
    BY <1>2
  <2> QED BY <1>3, <1>13, <2>1
<1>17. ASSUME NEW k \in 1 .. Len(new)
       PROVE  /\ new[k].rec_len > 0 /\ new[k].off \div BlockSize = (EndOf(new[k]) - 1) \div BlockSize
              /\ \/ new[k].rec_len >= RecLen(new[k].name_len)
                 \/ k = Len(new) /\ new[k].rec_len = 4
  <2>1. CASE k = i + 3
    <3>1. new[k] = d /\ d.rec_len > 0
      BY <1>6, <1>7, <1>8, <1>10, <1>13, <2>1
    <3> QED BY <1>8, <1>10, <1>12, <1>13, <2>1, <3>1
  <2>2. CASE k # i + 3
    <3>1. k \in 1 .. (i + 2) /\ k \in 1 .. Len(dents)
      BY <1>2, <1>3, <1>13, <2>2
    <3>2. GoodDent(dents[k]) /\ new[k] = dents[k]
      BY <1>3, <1>13, <3>1 DEF Laid
    <3> QED BY <3>2 DEF GoodDent
  <2> QED BY <2>1, <2>2
<1>18. EndOf(new[Len(new)]) = len
  BY <1>10, <1>13
<1>19. DOMAIN new = 1 .. Len(new)
  <2>1. new \in Seq(Dents)
    BY <1>3, <1>11, AppendProperties DEF Laid, new
  <2> QED BY <2>1, LenProperties
<1>20. WalkFindsEveryEntry'
  BY <1>1, <1>14, <1>15, <1>16, <1>17, <1>18, <1>19 DEF WalkFindsEveryEntry
<1>21. EntriesHoldTheirNames'
  BY <1>1, <1>17, <1>19 DEF EntriesHoldTheirNames
<1>22. EndInv'
  BY <1>1, <1>3, <1>20, <1>21 DEF EndInv
<1>23. TypesInv' /\ CountInv' /\ LenInv'
  BY <1>1, <1>2 DEF TypesInv, CountInv, LenInv, AllCounted
<1> QED BY <1>1, <1>22, <1>23 DEF DirInv, AddingInv

LEMMA StepGood == DirInv /\ [DirectoryNext]_directoryVars => DirInv'
<1> SUFFICES ASSUME DirInv, [DirectoryNext]_directoryVars PROVE DirInv'
  OBVIOUS
<1>1. CASE UNCHANGED directoryVars
  BY <1>1 DEF directoryVars, DirInv, TypesInv, CountInv, LenInv, AddingInv, EndInv, NoFull,
     AllCounted, WalkFindsEveryEntry, EntriesHoldTheirNames
<1>2. CASE \E ns \in AnyNames : new_directory(ns)
  BY <1>2, NewDirectoryGood
<1>3. CASE count_entry
  BY <1>3, CountEntryGood
<1>4. CASE make_directory
  BY <1>4, MakeDirectoryGood
<1>5. CASE add_entry
  BY <1>5, AddEntryGood
<1>6. CASE add_last
  BY <1>6, AddLastGood
<1> QED BY <1>1, <1>2, <1>3, <1>4, <1>5, <1>6 DEF DirectoryNext

THEOREM DirectoryInvariant == DirectorySpec => []DirInv
BY InitGood, StepGood, PTL DEF DirectorySpec

-----------------------------------------------------------------------------
(* What it is for                                                          *)

\* In blocks of any size and with names of any lengths, a reader that follows rec_len
\* meets every entry in order, none crosses the border of a block, and the walk ends
\* where the directory does (contents.c:54-83, 153-160).
THEOREM DirectoriesAreRead == DirectorySpec => []WalkFindsEveryEntry
<1>1. DirInv => WalkFindsEveryEntry
  <2> SUFFICES ASSUME DirInv, pc = "adding" PROVE WalkFindsEveryEntry
    BY DEF DirInv, EndInv, WalkFindsEveryEntry
  <2>1. /\ Laid(dents, offset) /\ Len(dents) = i + 2
        /\ \A k \in 1 .. i : dents[k + 2].name_len = names[k]
    BY DEF DirInv, AddingInv
  <2>2. DOMAIN dents = 1 .. Len(dents)
    BY <2>1, LenProperties DEF Laid
  <2> QED BY <2>1, <2>2 DEF WalkFindsEveryEntry, Laid, Chain, GoodDent
<1> QED BY <1>1, DirectoryInvariant, PTL

\* The space that was counted is enough unless the count meets the end of a block,
\* however many entries there are (contents.c:29-43, 143-147).
THEOREM CountIsEnough == DirectorySpec => []SpaceIsEnough
<1>1. DirInv => SpaceIsEnough
  <2> SUFFICES ASSUME DirInv PROVE SpaceIsEnough
    OBVIOUS
  <2>1. pc \in {"adding", "done"} => offset < len
    BY DEF DirInv, AddingInv, EndInv
  <2>2. pc = "internal_error" => \E k \in 1 .. Len(counted) : counted[k] % BlockSize = 0
    BY DEF DirInv, EndInv, NoFull
  <2>3. DOMAIN counted = 1 .. Len(counted)
    BY LenProperties DEF DirInv, CountInv
  <2> QED BY <2>1, <2>2, <2>3 DEF SpaceIsEnough
<1> QED BY <1>1, DirectoryInvariant, PTL

\* Every entry is long enough for its name, but for the one of the rest of the block,
\* which may have four bytes (contents.c:155).
THEOREM NamesFit == DirectorySpec => []EntriesHoldTheirNames
<1>1. DirInv => EntriesHoldTheirNames
  BY DEF DirInv, EndInv, EntriesHoldTheirNames
<1> QED BY <1>1, DirectoryInvariant, PTL
=============================================================================
