---------------------------- MODULE MeshMacProofs ----------------------------
(***************************************************************************)
(* The block feeder of MeshMac, proved for every size of block, of header  *)
(* and of payload: the seam between the two slices never shows in what is  *)
(* authenticated, and no two messages have the same input to Poly1305.     *)
(***************************************************************************)
EXTENDS MeshMac, SequenceTheorems, FiniteSetTheorems, TLAPS

Blocks == [1..Block -> Bytes]

\* A sequence is a function of its places.
LEMMA SequenceIsFunction ==
  ASSUME NEW S, NEW t \in Seq(S)
  PROVE  t \in [1..Len(t) -> S]
OBVIOUS

\* What is left of two slices is the second.
LEMMA TailOfTwo ==
  ASSUME NEW S, NEW t \in Seq(S), Len(t) = 2
  PROVE  Tail(t) # <<>> /\ Len(Tail(t)) = 1 /\ Tail(t)[1] = t[2]
<1>1. t # <<>>
  OBVIOUS
<1>2. Tail(t) \in Seq(S) /\ Len(Tail(t)) = 1
  BY <1>1
<1>3. Tail(t)[1] = t[2]
  <2>1. \A i \in 1..1 : Tail(t)[i] = t[i + 1]
    BY <1>1, <1>2, HeadTailProperties
  <2>2. 1 \in 1..1 /\ 1 + 1 = 2
    OBVIOUS
  <2> QED
    BY <2>1, <2>2
<1>4. ASSUME Tail(t) = <<>> PROVE FALSE
  <2>1. Len(Tail(t)) = Len(<<>>)
    BY <1>4
  <2>2. Len(<<>>) = 0
    OBVIOUS
  <2>3. 1 # 0
    OBVIOUS
  <2> QED
    BY <1>2, <2>1, <2>2, <2>3, Zenon
<1> QED
  BY <1>2, <1>3, <1>4

-----------------------------------------------------------------------------
(* Places in a message of blocks.                                           *)

\* The byte after the first n lies in the block after the first n \div Block.
LEMMA Place ==
  ASSUME NEW n \in Nat
  PROVE  /\ n \div Block \in Nat /\ n % Block \in 0..(Block - 1)
         /\ n = ((n \div Block) * Block) + (n % Block)
<1>1. Block \in Nat \ {0}
  BY BlockAssumption
<1> QED
  BY <1>1

\* Counting by blocks and bytes keeps the order.
LEMMA BlocksInOrder ==
  ASSUME NEW b \in Nat, NEW c \in Nat
  PROVE  /\ b * Block \in Nat
         /\ b <= c => b * Block <= c * Block
         /\ b < c => (b * Block) + Block <= c * Block
         /\ (b + 1) * Block = (b * Block) + Block
         /\ (b + c) * Block = (b * Block) + (c * Block)
<1>1. Block \in Nat \ {0}
  BY BlockAssumption
<1>2. b * Block \in Nat /\ c * Block \in Nat
  BY <1>1
<1>3. (b + 1) * Block = (b * Block) + Block /\ (b + c) * Block = (b * Block) + (c * Block)
  BY <1>1
<1>4. ASSUME b <= c PROVE b * Block <= c * Block
  <2>1. PICK d \in Nat : c = b + d
    BY <1>4
  <2>2. c * Block = (b * Block) + (d * Block) /\ d * Block \in Nat
    BY <1>1, <2>1
  <2> QED
    BY <1>2, <2>2
<1>5. ASSUME b < c PROVE (b * Block) + Block <= c * Block
  <2>1. PICK d \in Nat : c = b + 1 + d
    <3>1. c - b - 1 \in Nat /\ c = b + 1 + (c - b - 1)
      BY <1>5
    <3> QED
      BY <3>1
  <2>2. c * Block = (b * Block) + Block + (d * Block) /\ d * Block \in Nat
    BY <1>1, <2>1
  <2> QED
    BY <1>1, <1>2, <2>2
<1> QED
  BY <1>2, <1>3, <1>4, <1>5

\* A place has one block and one offset.
LEMMA PlaceOf ==
  ASSUME NEW b \in Nat, NEW k \in 0..(Block - 1)
  PROVE  ((b * Block) + k) \div Block = b /\ ((b * Block) + k) % Block = k
<1> DEFINE n == (b * Block) + k
           c == n \div Block
           r == n % Block
<1>1. Block \in Nat \ {0}
  BY BlockAssumption
<1>2. n \in Nat
  BY <1>1, BlocksInOrder
<1>3. c \in Nat /\ r \in 0..(Block - 1) /\ n = (c * Block) + r
  BY <1>2, Place
<1>4. (b * Block) + k = (c * Block) + r
  BY <1>3
<1>5. b * Block \in Nat /\ c * Block \in Nat
  BY <1>3, BlocksInOrder
<1> HIDE DEF n, c, r
<1>6. ~(b < c)
  <2>1. b < c => (b * Block) + Block <= c * Block
    BY <1>3, BlocksInOrder
  <2> QED
    BY <1>1, <1>3, <1>4, <1>5, <2>1
<1>7. ~(c < b)
  <2>1. c < b => (c * Block) + Block <= b * Block
    BY <1>3, BlocksInOrder
  <2> QED
    BY <1>1, <1>3, <1>4, <1>5, <2>1
<1>8. b = c
  BY <1>3, <1>6, <1>7
<1>9. k = r
  BY <1>3, <1>4, <1>5, <1>8
<1> QED
  BY <1>8, <1>9 DEF c, r, n

\* What WholeBlocks and Remainder leave of some data: all of it, in order.
LEMMA Split ==
  ASSUME NEW data \in Seq(Bytes)
  PROVE  LET q == Len(data) \div Block
         IN  /\ q \in Nat
             /\ WholeBlocks(data) \in Seq(Blocks) /\ Len(WholeBlocks(data)) = q
             /\ \A b \in 0..(q - 1), k \in 1..Block :
                  WholeBlocks(data)[b + 1][k] = data[(b * Block) + k]
             /\ Remainder(data) \in Seq(Bytes)
             /\ Len(Remainder(data)) \in 0..(Block - 1)
             /\ Len(data) = (q * Block) + Len(Remainder(data))
             /\ \A k \in 1..Len(Remainder(data)) : Remainder(data)[k] = data[(q * Block) + k]
<1> DEFINE q == Len(data) \div Block
           r == Len(data) % Block
           Cut(b) == SubSeq(data, ((b - 1) * Block) + 1, b * Block)
<1>1. Len(data) \in Nat /\ Block \in Nat \ {0}
  BY BlockAssumption
<1>2. q \in Nat /\ r \in 0..(Block - 1) /\ Len(data) = (q * Block) + r
  BY <1>1, Place
<1>3. q * Block \in Nat
  BY <1>2, BlocksInOrder
<1> HIDE DEF q, r
<1>4. ASSUME NEW b \in 1..q
      PROVE  Cut(b) \in Blocks /\ \A k \in 1..Block : Cut(b)[k] = data[((b - 1) * Block) + k]
  <2>1. b - 1 \in Nat /\ b \in Nat /\ b - 1 < b /\ (b - 1) + 1 = b
    BY <1>2
  <2>2. (b - 1) * Block \in Nat /\ b * Block = ((b - 1) * Block) + Block
    BY <2>1, BlocksInOrder
  <2>3. b * Block <= q * Block
    BY <1>2, <2>1, BlocksInOrder
  <2> DEFINE lo == ((b - 1) * Block) + 1
             hi == b * Block
  <2>4. lo \in Nat /\ hi \in Nat /\ 1 <= lo /\ lo <= hi /\ hi <= Len(data) /\ (hi - lo) + 1 = Block
    BY <1>1, <1>2, <1>3, <2>2, <2>3
  <2>5. lo - 1 = (b - 1) * Block
    BY <2>2
  <2> HIDE DEF lo, hi
  <2>6. /\ SubSeq(data, lo, hi) \in Seq(Bytes) /\ Len(SubSeq(data, lo, hi)) = Block
        /\ \A k \in 1..Block : SubSeq(data, lo, hi)[k] = data[(lo - 1) + k]
    BY <2>4
  <2>7. SubSeq(data, lo, hi) \in [1..Block -> Bytes]
    BY <2>6, SequenceIsFunction
  <2> QED
    BY <2>5, <2>6, <2>7 DEF lo, hi, Blocks
<1>5. WholeBlocks(data) = [b \in 1..q |-> Cut(b)]
  BY DEF WholeBlocks, q
<1>6. WholeBlocks(data) \in Seq(Blocks) /\ Len(WholeBlocks(data)) = q
  <2>1. \A b \in 1..q : Cut(b) \in Blocks
    BY <1>4
  <2> HIDE DEF Cut
  <2> QED
    BY <1>2, <1>5, <2>1
<1>7. ASSUME NEW b \in 0..(q - 1), NEW k \in 1..Block
      PROVE  WholeBlocks(data)[b + 1][k] = data[(b * Block) + k]
  <2>1. b + 1 \in 1..q /\ (b + 1) - 1 = b
    BY <1>2
  <2>2. WholeBlocks(data)[b + 1] = Cut(b + 1)
    BY <1>5, <2>1
  <2>3. Cut(b + 1)[k] = data[(((b + 1) - 1) * Block) + k]
    BY <1>4, <2>1
  <2> QED
    BY <2>1, <2>2, <2>3
<1>8. /\ Remainder(data) \in Seq(Bytes) /\ Len(Remainder(data)) = r
      /\ \A k \in 1..r : Remainder(data)[k] = data[(q * Block) + k]
  <2>1. Remainder(data) = SubSeq(data, (q * Block) + 1, Len(data))
    BY DEF Remainder, q
  <2>2. PICK lo \in Nat : lo = q * Block
    BY <1>3
  <2>3. lo + r = Len(data)
    BY <1>2, <2>2
  <2>4. /\ SubSeq(data, lo + 1, Len(data)) \in Seq(Bytes)
        /\ Len(SubSeq(data, lo + 1, Len(data))) = r
        /\ \A k \in 1..r : SubSeq(data, lo + 1, Len(data))[k] = data[lo + k]
    BY <1>1, <1>2, <2>3
  <2> QED
    BY <2>1, <2>2, <2>4
<1> QED
  BY <1>2, <1>6, <1>7, <1>8 DEF q
-----------------------------------------------------------------------------
(* The feeder.                                                              *)

\* What s has been given is fed: its blocks and then its carry.
Feeds(s, fed) ==
  /\ fed \in Seq(Bytes)
  /\ s.mac \in Seq(Blocks)
  /\ s.feeder.partial \in Blocks /\ s.feeder.used \in 0..(Block - 1)
  /\ Len(fed) = (Len(s.mac) * Block) + s.feeder.used
  /\ \A b \in 0..(Len(s.mac) - 1), k \in 1..Block : s.mac[b + 1][k] = fed[(b * Block) + k]
  /\ \A k \in 1..s.feeder.used : s.feeder.partial[k] = fed[(Len(s.mac) * Block) + k]

\* The bytes of data behind those of fed.
Behind(fed, data) == fed \o data

\* Putting sequences behind one another.
LEMMA BehindParts ==
  ASSUME NEW fed \in Seq(Bytes), NEW data \in Seq(Bytes)
  PROVE  /\ Behind(fed, data) \in Seq(Bytes)
         /\ Len(Behind(fed, data)) = Len(fed) + Len(data)
         /\ \A i \in 1..Len(fed) : Behind(fed, data)[i] = fed[i]
         /\ \A i \in 1..Len(data) : Behind(fed, data)[Len(fed) + i] = data[i]
         /\ data = <<>> => Behind(fed, data) = fed
         /\ fed = <<>> => Behind(fed, data) = data
<1>1. /\ fed \o data \in Seq(Bytes) /\ Len(fed \o data) = Len(fed) + Len(data)
      /\ \A i \in 1..(Len(fed) + Len(data)) :
           (fed \o data)[i] = IF i <= Len(fed) THEN fed[i] ELSE data[i - Len(fed)]
  BY ConcatProperties
<1>2. Len(fed) \in Nat /\ Len(data) \in Nat
  OBVIOUS
<1>3. \A i \in 1..Len(fed) : (fed \o data)[i] = fed[i]
  BY <1>1, <1>2
<1>4. ASSUME NEW i \in 1..Len(data) PROVE (fed \o data)[Len(fed) + i] = data[i]
  <2>1. Len(fed) + i \in 1..(Len(fed) + Len(data)) /\ ~(Len(fed) + i <= Len(fed))
          /\ (Len(fed) + i) - Len(fed) = i
    BY <1>2
  <2> QED
    BY <1>1, <2>1
<1>5. fed \o <<>> = fed /\ <<>> \o data = data
  BY ConcatEmptySeq
<1> QED
  BY <1>1, <1>3, <1>4, <1>5 DEF Behind

\* Three parts may be put together from either end.
LEMMA BehindAssociative ==
  ASSUME NEW p \in Seq(Bytes), NEW q \in Seq(Bytes), NEW r \in Seq(Bytes)
  PROVE  Behind(Behind(p, q), r) = Behind(p, Behind(q, r))
BY ConcatAssociative DEF Behind

\* The first n bytes, and the others.
Front(data, n) == SubSeq(data, 1, n)
Rest(data, n) == SubSeq(data, n + 1, Len(data))

\* Data fed in two parts is fed.
LEMMA Parted ==
  ASSUME NEW fed \in Seq(Bytes), NEW data \in Seq(Bytes), NEW n \in 0..Len(data)
  PROVE  /\ Front(data, n) \in Seq(Bytes) /\ Len(Front(data, n)) = n
         /\ Rest(data, n) \in Seq(Bytes)
         /\ n = Len(data) => Front(data, n) = data
         /\ Behind(Behind(fed, Front(data, n)), Rest(data, n)) = Behind(fed, data)
<1> DEFINE f == Front(data, n)
           r == Rest(data, n)
           a == Behind(Behind(fed, f), r)
           b == Behind(fed, data)
<1>1. Len(data) \in Nat /\ Len(fed) \in Nat /\ n \in Nat /\ n <= Len(data)
  OBVIOUS
<1>2. /\ f \in Seq(Bytes) /\ Len(f) = n
      /\ \A i \in 1..n : f[i] = data[i]
  BY <1>1 DEF Front
<1>3. /\ r \in Seq(Bytes) /\ Len(r) = Len(data) - n
      /\ \A i \in 1..(Len(data) - n) : r[i] = data[n + i]
  BY <1>1 DEF Rest
<1> HIDE DEF f, r, a, b
<1>4. ASSUME n = Len(data) PROVE f = data
  BY <1>1, <1>2, <1>4, SeqEqual
<1> DEFINE g == Behind(fed, f)
<1>5. /\ g \in Seq(Bytes) /\ Len(g) = Len(fed) + n
      /\ \A i \in 1..Len(fed) : g[i] = fed[i]
      /\ \A i \in 1..n : g[Len(fed) + i] = f[i]
  BY <1>2, BehindParts
<1> HIDE DEF g
<1>6. /\ a \in Seq(Bytes) /\ Len(a) = Len(g) + Len(r)
      /\ \A i \in 1..Len(g) : a[i] = g[i]
      /\ \A i \in 1..Len(r) : a[Len(g) + i] = r[i]
  BY <1>3, <1>5, BehindParts DEF a, g
<1>7. /\ b \in Seq(Bytes) /\ Len(b) = Len(fed) + Len(data)
      /\ \A i \in 1..Len(fed) : b[i] = fed[i]
      /\ \A i \in 1..Len(data) : b[Len(fed) + i] = data[i]
  BY BehindParts DEF b
<1>8. Len(a) = Len(b)
  BY <1>1, <1>3, <1>5, <1>6, <1>7
<1>9. ASSUME NEW i \in 1..Len(b) PROVE a[i] = b[i]
  <2>1. CASE i <= Len(fed)
    <3>1. i \in 1..Len(fed) /\ i \in 1..Len(g)
      BY <1>1, <1>5, <1>7, <2>1
    <3> QED
      BY <1>5, <1>6, <1>7, <3>1
  <2>2. CASE Len(fed) < i /\ i <= Len(fed) + n
    <3>1. PICK k \in Nat : i = Len(fed) + k
      <4>1. i - Len(fed) \in Nat /\ i = Len(fed) + (i - Len(fed))
        BY <1>1, <1>7, <2>2
      <4> QED
        BY <4>1
    <3>2. k \in 1..n /\ k \in 1..Len(data) /\ i \in 1..Len(g)
      BY <1>1, <1>5, <1>7, <2>2, <3>1
    <3>3. a[i] = g[i] /\ g[i] = f[k] /\ f[k] = data[k]
      BY <1>2, <1>5, <1>6, <3>1, <3>2
    <3>4. b[i] = data[k]
      BY <1>7, <3>1, <3>2
    <3> QED
      BY <3>3, <3>4
  <2>3. CASE Len(fed) + n < i
    <3>1. PICK k \in Nat : i = (Len(fed) + n) + k
      <4>1. i - (Len(fed) + n) \in Nat /\ i = (Len(fed) + n) + (i - (Len(fed) + n))
        BY <1>1, <1>7, <2>3
      <4> QED
        BY <4>1
    <3>2. k \in 1..Len(r) /\ n + k \in 1..Len(data) /\ i = Len(fed) + (n + k) /\ i = Len(g) + k
      BY <1>1, <1>3, <1>5, <1>7, <2>3, <3>1
    <3>3. a[i] = r[k] /\ r[k] = data[n + k]
      BY <1>3, <1>6, <3>2
    <3>4. b[i] = data[n + k]
      BY <1>7, <3>2
    <3> QED
      BY <3>3, <3>4
  <2> QED
    BY <1>1, <1>7, <2>1, <2>2, <2>3
<1>10. a = b
  BY <1>6, <1>7, <1>8, <1>9, SeqEqual
<1> QED
  BY <1>2, <1>3, <1>4, <1>10 DEF a, b, f, r

\* Copying at an offset leaves what is before it.
LEMMA Copied ==
  ASSUME NEW partial \in Blocks, NEW data \in Seq(Bytes), NEW offset \in Nat
  PROVE  /\ CopiedAt(partial, offset, data) \in Blocks
         /\ \A k \in 1..Block : k <= offset => CopiedAt(partial, offset, data)[k] = partial[k]
         /\ \A k \in 1..Len(data) :
              offset + k <= Block => CopiedAt(partial, offset, data)[offset + k] = data[k]
<1>1. DOMAIN data = 1..Len(data) /\ \A k \in 1..Len(data) : data[k] \in Bytes
  OBVIOUS
<1>2. Block \in Nat \ {0} /\ Len(data) \in Nat
  BY BlockAssumption
<1>3. CopiedAt(partial, offset, data) =
        [k \in 1..Block |-> IF k - offset \in 1..Len(data) THEN data[k - offset] ELSE partial[k]]
  BY <1>1 DEF CopiedAt
<1>4. CopiedAt(partial, offset, data) \in Blocks
  BY <1>1, <1>3 DEF Blocks
<1>5. ASSUME NEW k \in 1..Block, k <= offset
      PROVE  CopiedAt(partial, offset, data)[k] = partial[k]
  BY <1>2, <1>3, <1>5
<1>6. ASSUME NEW k \in 1..Len(data), offset + k <= Block
      PROVE  CopiedAt(partial, offset, data)[offset + k] = data[k]
  <2>1. offset + k \in 1..Block /\ (offset + k) - offset = k
    BY <1>2, <1>6
  <2> QED
    BY <1>3, <2>1
<1> QED
  BY <1>4, <1>5, <1>6

\* From a block boundary, data is fed behind what was.
LEMMA FromBoundaryFeeds ==
  ASSUME NEW s, NEW fed, NEW data \in Seq(Bytes), Feeds(s, fed), s.feeder.used = 0
  PROVE  Feeds(FromBoundary(s, data), Behind(fed, data))
<1> DEFINE t == FromBoundary(s, data)
           m == s.mac
           n == Len(m)
           w == WholeBlocks(data)
           q == Len(data) \div Block
           rest == Remainder(data)
           all == Behind(fed, data)
<1>1. fed \in Seq(Bytes) /\ m \in Seq(Blocks) /\ s.feeder.partial \in Blocks
  BY DEF Feeds
<1>2. \A b \in 0..(n - 1), k \in 1..Block : m[b + 1][k] = fed[(b * Block) + k]
  BY DEF Feeds
<1>3. Len(fed) = (n * Block) + s.feeder.used
  BY DEF Feeds
<1>4. t.mac = m \o w /\ t.feeder.partial = CopiedAt(s.feeder.partial, 0, rest)
        /\ t.feeder.used = Len(rest)
  BY DEF FromBoundary
<1>5. q \in Nat /\ w \in Seq(Blocks) /\ Len(w) = q
  BY Split
<1>6. \A b \in 0..(q - 1), k \in 1..Block : w[b + 1][k] = data[(b * Block) + k]
  BY Split
<1>7. rest \in Seq(Bytes) /\ Len(rest) \in 0..(Block - 1) /\ Len(data) = (q * Block) + Len(rest)
  BY Split
<1>8. \A k \in 1..Len(rest) : rest[k] = data[(q * Block) + k]
  BY Split
<1>9. n \in Nat /\ Block \in Nat \ {0} /\ Len(fed) \in Nat /\ Len(data) \in Nat
  BY <1>1, BlockAssumption
<1> HIDE DEF t, m, n, w, q, rest, all
<1> DEFINE nB == n * Block
           qB == q * Block
<1>10. nB \in Nat /\ qB \in Nat /\ (n + q) * Block = nB + qB
  BY <1>5, <1>9, BlocksInOrder
<1>11. Len(fed) = nB
  BY <1>3, <1>10
<1>12. Len(data) = qB + Len(rest)
  BY <1>7
<1>13. /\ m \o w \in Seq(Blocks) /\ Len(m \o w) = n + q
       /\ \A i \in 1..(n + q) : (m \o w)[i] = IF i <= n THEN m[i] ELSE w[i - n]
  BY <1>1, <1>5, ConcatProperties DEF n
<1>14. all \in Seq(Bytes) /\ Len(all) = Len(fed) + Len(data)
  BY <1>1, BehindParts DEF all
<1>15. \A i \in 1..Len(fed) : all[i] = fed[i]
  BY <1>1, BehindParts DEF all
<1>16. \A i \in 1..Len(data) : all[nB + i] = data[i]
  <2>1. \A i \in 1..Len(data) : all[Len(fed) + i] = data[i]
    BY <1>1, BehindParts DEF all
  <2> QED
    BY <1>11, <2>1
<1>17. ASSUME NEW b \in 0..((n + q) - 1), NEW k \in 1..Block
       PROVE  (m \o w)[b + 1][k] = all[(b * Block) + k]
  <2>1. b \in Nat /\ b + 1 \in 1..(n + q)
    BY <1>5, <1>9
  <2>2. b * Block \in Nat
    BY <2>1, BlocksInOrder
  <2>3. CASE b < n
    <3>1. (b * Block) + Block <= nB
      BY <1>9, <2>1, <2>3, BlocksInOrder
    <3>2. (b * Block) + k \in 1..Len(fed)
      <4> HIDE DEF nB
      <4>1. PICK x \in Nat : x = b * Block
        BY <2>2
      <4>2. x + Block <= nB
        BY <3>1, <4>1
      <4>3. x + k \in 1..Len(fed)
        BY <1>9, <1>10, <1>11, <4>2
      <4> QED
        BY <4>1, <4>3
    <3>3. all[(b * Block) + k] = fed[(b * Block) + k]
      BY <1>15, <3>2
    <3>4. (m \o w)[b + 1] = m[b + 1]
      BY <1>9, <1>13, <2>1, <2>3
    <3>5. b \in 0..(n - 1)
      BY <1>9, <2>1, <2>3
    <3> QED
      BY <1>2, <3>3, <3>4, <3>5
  <2>4. CASE n <= b
    <3>1. PICK c \in Nat : b = n + c /\ c < q
      <4>1. b - n \in Nat /\ b = n + (b - n) /\ b - n < q
        BY <1>5, <1>9, <2>1, <2>4
      <4> QED
        BY <4>1
    <3>2. b * Block = nB + (c * Block) /\ c * Block \in Nat
      BY <1>9, <3>1, BlocksInOrder
    <3>3. (c * Block) + Block <= qB
      BY <1>5, <3>1, BlocksInOrder
    <3>4. PICK x \in Nat : x = c * Block
      BY <3>2
    <3> HIDE DEF nB, qB
    <3>5. x + Block <= qB /\ b * Block = nB + x
      BY <3>2, <3>3, <3>4
    <3>6. x + k \in 1..Len(data)
      BY <1>7, <1>9, <1>10, <1>12, <3>5
    <3>7. (b * Block) + k = nB + (x + k)
      BY <1>10, <3>5
    <3>8. all[nB + (x + k)] = data[x + k]
      BY <1>16, <3>6
    <3>9. (m \o w)[b + 1] = w[c + 1]
      <4>1. ~(b + 1 <= n) /\ (b + 1) - n = c + 1
        BY <1>9, <2>1, <3>1
      <4> QED
        BY <1>13, <2>1, <4>1
    <3>10. w[c + 1][k] = data[x + k]
      <4>1. c \in 0..(q - 1)
        BY <1>5, <3>1
      <4> QED
        BY <1>6, <3>4, <4>1
    <3> QED
      BY <3>7, <3>8, <3>9, <3>10
  <2>5. b < n \/ n <= b
    BY <1>9, <2>1
  <2> QED
    BY <2>3, <2>4, <2>5
<1>18. t.feeder.partial \in Blocks
  BY <1>1, <1>4, <1>7, Copied
<1>19. \A k \in 1..Len(rest) : t.feeder.partial[k] = rest[k]
  <2>1. PICK z \in Nat : z = 0
    OBVIOUS
  <2>2. \A k \in 1..Len(rest) : z + k <= Block => CopiedAt(s.feeder.partial, z, rest)[z + k] = rest[k]
    BY <1>1, <1>7, Copied
  <2>3. \A k \in 1..Len(rest) : z + k = k /\ z + k <= Block
    BY <1>7, <1>9, <2>1
  <2>4. t.feeder.partial = CopiedAt(s.feeder.partial, z, rest)
    BY <1>4, <2>1
  <2> QED
    BY <2>2, <2>3, <2>4
<1>20. ASSUME NEW k \in 1..Len(rest)
       PROVE  t.feeder.partial[k] = all[((n + q) * Block) + k]
  <2> HIDE DEF nB, qB
  <2>1. qB + k \in 1..Len(data) /\ (nB + qB) + k = nB + (qB + k)
    BY <1>7, <1>9, <1>10, <1>12
  <2>2. all[nB + (qB + k)] = data[qB + k]
    BY <1>16, <2>1
  <2>3. rest[k] = data[qB + k]
    BY <1>8 DEF qB
  <2>4. t.feeder.partial[k] = rest[k]
    BY <1>19
  <2> QED
    BY <1>10, <2>1, <2>2, <2>3, <2>4
<1>21. Len(all) = ((n + q) * Block) + Len(rest)
  <2> HIDE DEF nB, qB
  <2> QED
    BY <1>7, <1>9, <1>10, <1>11, <1>12, <1>14
<1>22. t.feeder.used \in 0..(Block - 1) /\ t.feeder.used = Len(rest)
  BY <1>4, <1>7
<1>23. t.mac \in Seq(Blocks) /\ Len(t.mac) = n + q
  BY <1>4, <1>13
<1>24. \A b \in 0..(Len(t.mac) - 1), k \in 1..Block : t.mac[b + 1][k] = all[(b * Block) + k]
  BY <1>4, <1>17, <1>23
<1>25. \A k \in 1..t.feeder.used : t.feeder.partial[k] = all[(Len(t.mac) * Block) + k]
  BY <1>20, <1>22, <1>23
<1>26. Len(all) = (Len(t.mac) * Block) + t.feeder.used
  BY <1>21, <1>22, <1>23
<1>27. Feeds(t, all)
  BY <1>14, <1>18, <1>22, <1>23, <1>24, <1>25, <1>26 DEF Feeds
<1> QED
  BY <1>27 DEF t, all

\* A carry filled up as far as the block goes.
LEMMA CarryFilled ==
  ASSUME NEW s, NEW fed, NEW data \in Seq(Bytes), Feeds(s, fed),
         s.feeder.used + Len(data) <= Block
  PROVE  LET filled == CopiedAt(s.feeder.partial, s.feeder.used, data)
             n == Len(s.mac)
         IN  /\ filled \in Blocks /\ n \in Nat
             /\ \A k \in 1..(s.feeder.used + Len(data)) :
                  filled[k] = Behind(fed, data)[(n * Block) + k]
             /\ \A b \in 0..(n - 1), k \in 1..Block :
                  s.mac[b + 1][k] = Behind(fed, data)[(b * Block) + k]
             /\ Behind(fed, data) \in Seq(Bytes)
             /\ Len(Behind(fed, data)) = (n * Block) + s.feeder.used + Len(data)
<1> DEFINE filled == CopiedAt(s.feeder.partial, s.feeder.used, data)
           n == Len(s.mac)
           used == s.feeder.used
           all == Behind(fed, data)
<1>1. fed \in Seq(Bytes) /\ s.mac \in Seq(Blocks) /\ s.feeder.partial \in Blocks
  BY DEF Feeds
<1>2. \A b \in 0..(n - 1), k \in 1..Block : s.mac[b + 1][k] = fed[(b * Block) + k]
  BY DEF Feeds
<1>3. Len(fed) = (n * Block) + used
  BY DEF Feeds
<1>4. \A k \in 1..used : s.feeder.partial[k] = fed[(n * Block) + k]
  BY DEF Feeds
<1>5. used \in 0..(Block - 1)
  BY DEF Feeds
<1>6. n \in Nat /\ Block \in Nat \ {0} /\ Len(fed) \in Nat /\ Len(data) \in Nat /\ used \in Nat
  BY <1>1, <1>5, BlockAssumption
<1>7. /\ filled \in Blocks
      /\ \A k \in 1..Block : k <= used => filled[k] = s.feeder.partial[k]
      /\ \A k \in 1..Len(data) : used + k <= Block => filled[used + k] = data[k]
  BY <1>1, <1>6, Copied
<1>8. /\ all \in Seq(Bytes) /\ Len(all) = Len(fed) + Len(data)
      /\ \A i \in 1..Len(fed) : all[i] = fed[i]
      /\ \A i \in 1..Len(data) : all[Len(fed) + i] = data[i]
  BY <1>1, BehindParts
<1>9. used + Len(data) <= Block
  OBVIOUS
<1> HIDE DEF filled, n, used, all
<1> DEFINE nB == n * Block
<1>10. nB \in Nat /\ Len(fed) = nB + used
  BY <1>3, <1>6, BlocksInOrder
<1>11. ASSUME NEW k \in 1..(used + Len(data)) PROVE filled[k] = all[(n * Block) + k]
  <2>1. CASE k <= used
    <3>1. k \in 1..used /\ k \in 1..Block
      BY <1>5, <1>6, <2>1
    <3>2. nB + k \in 1..Len(fed)
      <4> HIDE DEF nB
      <4> QED
        BY <1>6, <1>10, <3>1
    <3>3. filled[k] = fed[nB + k]
      BY <1>4, <1>7, <3>1
    <3>4. all[nB + k] = fed[nB + k]
      BY <1>8, <3>2
    <3> QED
      BY <3>3, <3>4
  <2>2. CASE used < k
    <3>1. PICK j \in Nat : k = used + j
      <4>1. k - used \in Nat /\ k = used + (k - used)
        BY <1>6, <2>2
      <4> QED
        BY <4>1
    <3>2. j \in 1..Len(data) /\ used + j <= Block
      BY <1>6, <1>9, <2>2, <3>1
    <3>3. filled[k] = data[j]
      BY <1>7, <3>1, <3>2
    <3>4. nB + k = Len(fed) + j
      <4> HIDE DEF nB
      <4> QED
        BY <1>6, <1>10, <3>1
    <3>5. all[nB + k] = data[j]
      BY <1>8, <3>2, <3>4
    <3> QED
      BY <3>3, <3>5
  <2> QED
    BY <1>6, <2>1, <2>2
<1>12. ASSUME NEW b \in 0..(n - 1), NEW k \in 1..Block
       PROVE  s.mac[b + 1][k] = all[(b * Block) + k]
  <2>1. b \in Nat /\ b < n
    BY <1>6
  <2>2. (b * Block) + Block <= nB /\ b * Block \in Nat
    BY <1>6, <2>1, BlocksInOrder
  <2>3. (b * Block) + k \in 1..Len(fed)
    <3>1. PICK x \in Nat : x = b * Block
      BY <2>2
    <3>2. x + Block <= nB
      BY <2>2, <3>1
    <3> HIDE DEF nB
    <3>3. x + k \in 1..Len(fed)
      BY <1>6, <1>10, <3>2
    <3> QED
      BY <3>1, <3>3
  <2> QED
    BY <1>2, <1>8, <2>3
<1>13. Len(all) = (n * Block) + used + Len(data)
  <2>1. Len(all) = nB + used + Len(data)
    <3> HIDE DEF nB
    <3> QED
      BY <1>6, <1>8, <1>10
  <2> QED
    BY <2>1
<1> QED
  BY <1>6, <1>7, <1>8, <1>11, <1>12, <1>13 DEF filled, n, used, all

\* BlockFeeder::feed feeds its data behind what was, whatever the sizes of the
\* two and whatever was carried.
LEMMA FeedFeeds ==
  ASSUME NEW s, NEW fed, NEW data \in Seq(Bytes), Feeds(s, fed)
  PROVE  Feeds(AfterFeed(s, data), Behind(fed, data))
<1> DEFINE used == s.feeder.used
           take == IF Block - used < Len(data) THEN Block - used ELSE Len(data)
           head == Front(data, take)
           rest == Rest(data, take)
           filled == CopiedAt(s.feeder.partial, used, head)
           n == Len(s.mac)
<1>1. fed \in Seq(Bytes) /\ s.mac \in Seq(Blocks) /\ used \in 0..(Block - 1)
  BY DEF Feeds
<1>2. Block \in Nat \ {0} /\ Len(data) \in Nat /\ used \in Nat
  BY <1>1, BlockAssumption
<1>3. CASE data = <<>>
  <2>1. AfterFeed(s, data) = s
    BY <1>3 DEF AfterFeed
  <2>2. Behind(fed, data) = fed
    BY <1>1, <1>3, BehindParts
  <2> QED
    BY <2>1, <2>2
<1>4. CASE data # <<>> /\ used = 0
  <2>1. AfterFeed(s, data) = FromBoundary(s, data)
    BY <1>4 DEF AfterFeed
  <2> QED
    BY <1>4, <2>1, FromBoundaryFeeds
<1>5. CASE data # <<>> /\ used # 0
  <2>1. take \in 0..Len(data) /\ used + take <= Block /\ take \in Nat
    <3> HIDE DEF used
    <3> QED
      BY <1>2, <1>1
  <2>2. used + take < Block => take = Len(data)
    <3> HIDE DEF used
    <3> QED
      BY <1>2
  <2>3. /\ head \in Seq(Bytes) /\ Len(head) = take
        /\ rest \in Seq(Bytes)
        /\ take = Len(data) => head = data
        /\ Behind(Behind(fed, head), rest) = Behind(fed, data)
    <3> HIDE DEF take
    <3> QED
      BY <1>1, <2>1, Parted
  <2>4. AfterFeed(s, data) =
          IF used + take < Block
          THEN [mac |-> s.mac, feeder |-> [partial |-> filled, used |-> used + take]]
          ELSE FromBoundary([mac |-> Append(s.mac, filled),
                             feeder |-> [partial |-> filled, used |-> 0]], rest)
    BY <1>5 DEF AfterFeed, Front, Rest
  <2>5. used + Len(head) <= Block
    BY <2>1, <2>3
  <2>6. /\ filled \in Blocks /\ n \in Nat
        /\ \A k \in 1..(used + Len(head)) : filled[k] = Behind(fed, head)[(n * Block) + k]
        /\ \A b \in 0..(n - 1), k \in 1..Block :
             s.mac[b + 1][k] = Behind(fed, head)[(b * Block) + k]
        /\ Behind(fed, head) \in Seq(Bytes)
        /\ Len(Behind(fed, head)) = (n * Block) + used + Len(head)
    <3>1. head \in Seq(Bytes) /\ s.feeder.used + Len(head) <= Block
      BY <2>3, <2>5
    <3> HIDE DEF head
    <3> QED
      BY <3>1, CarryFilled
  <2> HIDE DEF used, take, head, rest, filled
  <2>7. CASE used + take < Block
    <3> DEFINE t == [mac |-> s.mac, feeder |-> [partial |-> filled, used |-> used + take]]
    <3>1. AfterFeed(s, data) = t
      BY <2>4, <2>7
    <3>2. head = data /\ Len(head) = take
      BY <2>2, <2>3, <2>7
    <3>3. t.mac = s.mac /\ t.feeder.partial = filled /\ t.feeder.used = used + take
      OBVIOUS
    <3> HIDE DEF t, n
    <3>4. used + take \in 0..(Block - 1)
      BY <1>2, <2>1, <2>7
    <3>5. Len(Behind(fed, data)) = (n * Block) + (used + take)
      <4>1. PICK x \in Nat : x = n * Block
        BY <2>6, BlocksInOrder
      <4>2. Len(Behind(fed, data)) = x + used + take
        BY <2>6, <3>2, <4>1
      <4>3. x + used + take = x + (used + take)
        BY <1>2, <2>1
      <4> QED
        BY <4>1, <4>2, <4>3
    <3>6. \A k \in 1..(used + take) : filled[k] = Behind(fed, data)[(n * Block) + k]
      BY <2>6, <3>2
    <3>7. \A b \in 0..(n - 1), k \in 1..Block :
             s.mac[b + 1][k] = Behind(fed, data)[(b * Block) + k]
      BY <2>6, <3>2
    <3>8. Behind(fed, data) \in Seq(Bytes)
      BY <1>1, BehindParts
    <3>9. Feeds(t, Behind(fed, data))
      BY <1>1, <2>6, <3>3, <3>4, <3>5, <3>6, <3>7, <3>8 DEF Feeds, n
    <3> QED
      BY <3>1, <3>9
  <2>8. CASE ~(used + take < Block)
    <3> DEFINE t == [mac |-> Append(s.mac, filled), feeder |-> [partial |-> filled, used |-> 0]]
               all == Behind(fed, head)
               m == Append(s.mac, filled)
    <3>1. AfterFeed(s, data) = FromBoundary(t, rest)
      BY <2>4, <2>8
    <3>2. used + Len(head) = Block
      BY <1>2, <2>1, <2>3, <2>8
    <3>3. t.mac = m /\ t.feeder.partial = filled /\ t.feeder.used = 0
      OBVIOUS
    <3> HIDE DEF t
    <3>4. m \in Seq(Blocks) /\ Len(m) = n + 1 /\ m[n + 1] = filled
            /\ \A i \in 1..n : m[i] = s.mac[i]
      BY <1>1, <2>6
    <3> HIDE DEF n, m, all
    <3>5. Len(all) = (Len(m) * Block) + 0 /\ Len(m) = n + 1
      <4>1. PICK x \in Nat : x = n * Block
        BY <2>6, BlocksInOrder
      <4>2. (n + 1) * Block = x + Block
        BY <2>6, <4>1, BlocksInOrder
      <4>3. Len(all) = x + used + Len(head)
        BY <2>6, <4>1 DEF all
      <4>4. Len(head) \in Nat
        BY <2>1, <2>3
      <4>5. x + used + Len(head) = (x + Block) + 0
        BY <1>2, <3>2, <4>4
      <4> QED
        BY <3>4, <4>2, <4>3, <4>5
    <3>6. ASSUME NEW b \in 0..(Len(m) - 1), NEW k \in 1..Block
          PROVE  m[b + 1][k] = all[(b * Block) + k]
      <4>1. b \in 0..n
        BY <2>6, <3>5
      <4>2. CASE b = n
        <5>1. m[b + 1] = filled /\ k \in 1..(used + Len(head))
          BY <3>2, <3>4, <4>2
        <5> QED
          BY <2>6, <4>2, <5>1 DEF all
      <4>3. CASE b # n
        <5>1. b \in 0..(n - 1) /\ b + 1 \in 1..n
          BY <2>6, <4>1, <4>3
        <5>2. m[b + 1] = s.mac[b + 1]
          BY <3>4, <5>1
        <5> QED
          BY <2>6, <5>1, <5>2 DEF all
      <4> QED
        BY <4>2, <4>3
    <3>7. 0 \in 0..(Block - 1) /\ all \in Seq(Bytes)
      BY <1>2, <2>6 DEF all
    <3>8. \A k \in 1..0 : filled[k] = all[(Len(m) * Block) + k]
      OBVIOUS
    <3>9. Feeds(t, all)
      BY <2>6, <3>3, <3>4, <3>5, <3>6, <3>7, <3>8 DEF Feeds
    <3>10. Feeds(FromBoundary(t, rest), Behind(all, rest))
      BY <2>3, <3>3, <3>9, FromBoundaryFeeds
    <3> QED
      BY <2>3, <3>1, <3>10 DEF all
  <2> QED
    BY <2>7, <2>8
<1> QED
  BY <1>3, <1>4, <1>5

-----------------------------------------------------------------------------
(* Blocks end to end, and padding.                                          *)

\* Each of the bytes of n blocks lies in one of them.
LEMMA InsideBlocks ==
  ASSUME NEW n \in Nat, NEW i \in 1..(n * Block)
  PROVE  /\ (i - 1) \div Block \in 0..(n - 1)
         /\ ((i - 1) % Block) + 1 \in 1..Block
         /\ i = (((i - 1) \div Block) * Block) + (((i - 1) % Block) + 1)
<1> DEFINE b == (i - 1) \div Block
           r == (i - 1) % Block
<1>1. Block \in Nat \ {0} /\ n * Block \in Nat
  BY BlockAssumption, BlocksInOrder
<1>2. i - 1 \in Nat
  BY <1>1
<1>3. b \in Nat /\ r \in 0..(Block - 1) /\ i - 1 = (b * Block) + r
  BY <1>2, Place
<1> HIDE DEF b, r
<1>4. b * Block \in Nat
  BY <1>3, BlocksInOrder
<1>5. ~(n <= b)
  <2>1. n <= b => n * Block <= b * Block
    BY <1>3, BlocksInOrder
  <2> QED
    BY <1>1, <1>3, <1>4, <2>1
<1>6. b \in 0..(n - 1)
  BY <1>3, <1>5
<1>7. r + 1 \in 1..Block
  BY <1>1, <1>3
<1>8. i = (b * Block) + (r + 1)
  BY <1>3, <1>4
<1> QED
  BY <1>6, <1>7, <1>8 DEF b, r

\* The bytes of blocks that are put end to end.
LEMMA EndToEndParts ==
  ASSUME NEW blocks \in Seq(Blocks)
  PROVE  /\ EndToEnd(blocks) \in Seq(Bytes)
         /\ Len(EndToEnd(blocks)) = Len(blocks) * Block
         /\ \A i \in 1..(Len(blocks) * Block) :
              EndToEnd(blocks)[i] = blocks[((i - 1) \div Block) + 1][((i - 1) % Block) + 1]
<1> DEFINE n == Len(blocks)
           At(i) == blocks[((i - 1) \div Block) + 1][((i - 1) % Block) + 1]
<1>1. n \in Nat /\ n * Block \in Nat
  BY BlocksInOrder
<1>2. ASSUME NEW i \in 1..(n * Block) PROVE At(i) \in Bytes
  <2>1. (i - 1) \div Block \in 0..(n - 1) /\ ((i - 1) % Block) + 1 \in 1..Block
    BY <1>1, InsideBlocks
  <2>2. ((i - 1) \div Block) + 1 \in 1..n
    BY <1>1, <2>1
  <2>3. blocks[((i - 1) \div Block) + 1] \in Blocks
    BY <2>2
  <2> QED
    BY <2>1, <2>3 DEF Blocks
<1>3. EndToEnd(blocks) = [i \in 1..(n * Block) |-> At(i)]
  BY DEF EndToEnd
<1>4. EndToEnd(blocks) \in Seq(Bytes) /\ Len(EndToEnd(blocks)) = n * Block
  <2>1. PICK nB \in Nat : nB = n * Block
    BY <1>1
  <2>2. \A i \in 1..nB : At(i) \in Bytes
    BY <1>2, <2>1
  <2> HIDE DEF At, n
  <2>3. EndToEnd(blocks) = [i \in 1..nB |-> At(i)]
    BY <1>3, <2>1
  <2>4. [i \in 1..nB |-> At(i)] \in Seq(Bytes) /\ Len([i \in 1..nB |-> At(i)]) = nB
    BY <2>2
  <2> QED
    BY <2>1, <2>3, <2>4
<1>5. \A i \in 1..(n * Block) : EndToEnd(blocks)[i] = At(i)
  BY <1>3
<1> QED
  BY <1>4, <1>5

\* Blocks given and carry, end to end.
Given(s) == Behind(EndToEnd(s.mac), Front(s.feeder.partial, s.feeder.used))

\* That is what was fed.
LEMMA GivenIsFed ==
  ASSUME NEW s, NEW fed, Feeds(s, fed)
  PROVE  Given(s) = fed
<1> DEFINE n == Len(s.mac)
           used == s.feeder.used
           blocks == EndToEnd(s.mac)
           carry == Front(s.feeder.partial, used)
           all == Behind(blocks, carry)
<1>1. fed \in Seq(Bytes) /\ s.mac \in Seq(Blocks) /\ s.feeder.partial \in Blocks
  BY DEF Feeds
<1>2. \A b \in 0..(n - 1), k \in 1..Block : s.mac[b + 1][k] = fed[(b * Block) + k]
  BY DEF Feeds
<1>3. Len(fed) = (n * Block) + used /\ used \in 0..(Block - 1)
  BY DEF Feeds
<1>4. \A k \in 1..used : s.feeder.partial[k] = fed[(n * Block) + k]
  BY DEF Feeds
<1>5. n \in Nat /\ Block \in Nat \ {0} /\ n * Block \in Nat
  BY <1>1, BlockAssumption, BlocksInOrder
<1>6. /\ blocks \in Seq(Bytes) /\ Len(blocks) = n * Block
      /\ \A i \in 1..(n * Block) :
           blocks[i] = s.mac[((i - 1) \div Block) + 1][((i - 1) % Block) + 1]
  BY <1>1, EndToEndParts
<1>7. s.feeder.partial \in Seq(Bytes) /\ Len(s.feeder.partial) = Block
  <2>1. PICK p \in [1..Block -> Bytes] : p = s.feeder.partial
    BY <1>1 DEF Blocks
  <2>2. p \in Seq(Bytes) /\ Len(p) = Block
    BY <1>5
  <2> QED
    BY <2>1, <2>2
<1>8. /\ carry \in Seq(Bytes) /\ Len(carry) = used
      /\ \A i \in 1..used : carry[i] = s.feeder.partial[i]
  <2>1. PICK p \in Seq(Bytes) : p = s.feeder.partial /\ Len(p) = Block
    BY <1>7
  <2>2. PICK u \in Nat : u = used /\ u <= Block
    BY <1>3, <1>5
  <2>3. /\ SubSeq(p, 1, u) \in Seq(Bytes) /\ Len(SubSeq(p, 1, u)) = u
        /\ \A i \in 1..u : SubSeq(p, 1, u)[i] = p[i]
    BY <1>5, <2>1, <2>2
  <2> QED
    BY <2>1, <2>2, <2>3 DEF Front
<1> HIDE DEF n, used, blocks, carry, all
<1> DEFINE nB == n * Block
<1>9. /\ all \in Seq(Bytes) /\ Len(all) = nB + used
      /\ \A i \in 1..nB : all[i] = blocks[i]
      /\ \A i \in 1..used : all[nB + i] = carry[i]
  <2>1. /\ all \in Seq(Bytes) /\ Len(all) = Len(blocks) + Len(carry)
        /\ \A i \in 1..Len(blocks) : all[i] = blocks[i]
        /\ \A i \in 1..Len(carry) : all[Len(blocks) + i] = carry[i]
    <3>1. blocks \in Seq(Bytes) /\ carry \in Seq(Bytes)
      BY <1>6, <1>8
    <3> QED
      BY <3>1, BehindParts DEF all
  <2>2. Len(blocks) = nB /\ Len(carry) = used
    BY <1>6, <1>8
  <2> HIDE DEF nB
  <2> QED
    BY <2>1, <2>2
<1>10. nB \in Nat /\ used \in Nat
  BY <1>3, <1>5
<1>11. ASSUME NEW i \in 1..Len(all) PROVE all[i] = fed[i]
  <2>1. CASE i <= nB
    <3> DEFINE b == (i - 1) \div Block
               k == ((i - 1) % Block) + 1
    <3>1. i \in 1..nB
      BY <1>10, <2>1
    <3>2. b \in 0..(n - 1) /\ k \in 1..Block /\ i = (b * Block) + k
      BY <1>5, <3>1, InsideBlocks
    <3>3. all[i] = s.mac[b + 1][k]
      BY <1>6, <1>9, <3>1
    <3> HIDE DEF b, k
    <3> QED
      BY <1>2, <3>2, <3>3
  <2>2. CASE nB < i
    <3>1. PICK k \in Nat : i = nB + k
      <4> HIDE DEF nB
      <4>1. i - nB \in Nat /\ i = nB + (i - nB)
        BY <1>9, <1>10, <2>2
      <4> QED
        BY <4>1
    <3>2. k \in 1..used
      <4> HIDE DEF nB
      <4> QED
        BY <1>9, <1>10, <2>2, <3>1
    <3> QED
      BY <1>4, <1>8, <1>9, <3>1, <3>2
  <2>3. i <= nB \/ nB < i
    BY <1>9, <1>10
  <2> QED
    BY <2>1, <2>2, <2>3
<1>12. Len(all) = Len(fed)
  BY <1>3, <1>9
<1>13. all = fed
  BY <1>1, <1>9, <1>11, <1>12, SeqEqual
<1> QED
  BY <1>13 DEF Given, all, blocks, carry, used

\* The message in whole blocks, the last one filled up with zeros.
PaddedAs(blocks, message) ==
  /\ blocks \in Seq(Blocks)
  /\ Len(message) <= Len(blocks) * Block
  /\ Len(blocks) * Block < Len(message) + Block
  /\ \A b \in 0..(Len(blocks) - 1), k \in 1..Block :
       blocks[b + 1][k] = IF (b * Block) + k <= Len(message) THEN message[(b * Block) + k] ELSE 0

\* BlockFeeder::pad gives the last of what was fed.
LEMMA PaddedGivesAll ==
  ASSUME NEW s, NEW fed, Feeds(s, fed)
  PROVE  PaddedAs(Padded(s), fed)
<1> DEFINE n == Len(s.mac)
           used == s.feeder.used
           nB == n * Block
<1>1. fed \in Seq(Bytes) /\ s.mac \in Seq(Blocks) /\ s.feeder.partial \in Blocks
  BY DEF Feeds
<1>2. \A b \in 0..(n - 1), k \in 1..Block : s.mac[b + 1][k] = fed[(b * Block) + k]
  BY DEF Feeds
<1>3. Len(fed) = nB + used /\ used \in 0..(Block - 1)
  BY DEF Feeds
<1>4. \A k \in 1..used : s.feeder.partial[k] = fed[nB + k]
  BY DEF Feeds
<1>5. n \in Nat /\ Block \in Nat \ {0} /\ nB \in Nat /\ 0 \in Bytes /\ used \in Nat
  BY <1>1, <1>3, BlockAssumption, BlocksInOrder
<1>6. ASSUME NEW b \in 0..(n - 1), NEW k \in 1..Block
      PROVE  (b * Block) + k <= Len(fed)
  <2>1. b \in Nat /\ b < n
    BY <1>5
  <2>2. PICK x \in Nat : x = b * Block
    BY <2>1, BlocksInOrder
  <2>3. x + Block <= nB
    BY <1>5, <2>1, <2>2, BlocksInOrder
  <2> HIDE DEF nB, used
  <2>4. x + k <= Len(fed)
    BY <1>3, <1>5, <2>3
  <2> QED
    BY <2>2, <2>4
<1>7. CASE used = 0
  <2>1. Padded(s) = s.mac
    BY <1>7 DEF Padded
  <2>2. Len(fed) <= nB /\ nB < Len(fed) + Block
    <3> HIDE DEF nB, used
    <3> QED
      BY <1>3, <1>5, <1>7
  <2>3. \A b \in 0..(n - 1), k \in 1..Block :
          s.mac[b + 1][k] = IF (b * Block) + k <= Len(fed) THEN fed[(b * Block) + k] ELSE 0
    BY <1>2, <1>6
  <2> QED
    BY <1>1, <2>1, <2>2, <2>3 DEF PaddedAs
<1>8. CASE used # 0
  <2> DEFINE last == [k \in 1..Block |-> IF k > used THEN 0 ELSE s.feeder.partial[k]]
             m == Append(s.mac, last)
  <2>1. Padded(s) = m
    BY <1>8 DEF Padded
  <2>2. last \in Blocks
    BY <1>1, <1>5 DEF Blocks
  <2>3. \A k \in 1..Block : last[k] = IF k > used THEN 0 ELSE s.feeder.partial[k]
    OBVIOUS
  <2> HIDE DEF last
  <2>4. m \in Seq(Blocks) /\ Len(m) = n + 1 /\ m[n + 1] = last
          /\ \A i \in 1..n : m[i] = s.mac[i]
    BY <1>1, <2>2
  <2> HIDE DEF m, used
  <2>5. (n + 1) * Block = nB + Block
    BY <1>5, BlocksInOrder
  <2> HIDE DEF nB
  <2>6. Len(fed) <= (n + 1) * Block /\ (n + 1) * Block < Len(fed) + Block
    BY <1>3, <1>5, <1>8, <2>5
  <2>7. ASSUME NEW b \in 0..((n + 1) - 1), NEW k \in 1..Block
        PROVE  m[b + 1][k] = IF (b * Block) + k <= Len(fed) THEN fed[(b * Block) + k] ELSE 0
    <3>1. CASE b = n
      <4>1. m[b + 1] = last /\ b * Block = nB
        BY <2>4, <3>1 DEF nB
      <4>2. nB + k <= Len(fed) <=> ~(k > used)
        BY <1>3, <1>5
      <4>3. ~(k > used) => k \in 1..used
        BY <1>5
      <4> QED
        BY <1>4, <2>3, <4>1, <4>2, <4>3
    <3>2. CASE b # n
      <4>1. b \in 0..(n - 1) /\ b + 1 \in 1..n
        BY <1>5, <3>2
      <4> QED
        BY <1>2, <1>6, <2>4, <4>1
    <3> QED
      BY <3>1, <3>2
  <2>8. PaddedAs(m, fed)
    BY <2>4, <2>6, <2>7 DEF PaddedAs
  <2> QED
    BY <2>1, <2>8
<1> QED
  BY <1>7, <1>8

\* Padding as the feeder does it is padding as RFC 8439 has it.
LEMMA PaddedIsZeroPadded ==
  ASSUME NEW blocks, NEW message \in Seq(Bytes), PaddedAs(blocks, message)
  PROVE  EndToEnd(blocks) = ZeroPadded(message)
<1> DEFINE n == Len(blocks)
           nB == n * Block
           l == Len(message)
           zeros == [k \in 1..(nB - l) |-> 0]
           all == Behind(message, zeros)
           e == EndToEnd(blocks)
<1>1. blocks \in Seq(Blocks) /\ l <= nB /\ nB < l + Block
  BY DEF PaddedAs
<1>2. \A b \in 0..(n - 1), k \in 1..Block :
        blocks[b + 1][k] = IF (b * Block) + k <= l THEN message[(b * Block) + k] ELSE 0
  BY DEF PaddedAs
<1>3. n \in Nat /\ Block \in Nat \ {0} /\ nB \in Nat /\ l \in Nat /\ 0 \in Bytes
  BY <1>1, BlockAssumption, BlocksInOrder
<1>4. (l + Block - 1) \div Block = n
  <2>1. PICK r \in 0..(Block - 1) : l + Block - 1 = nB + r
    <3> HIDE DEF nB, l
    <3>1. (l + Block - 1) - nB \in 0..(Block - 1)
            /\ l + Block - 1 = nB + ((l + Block - 1) - nB)
      BY <1>1, <1>3
    <3> QED
      BY <3>1
  <2>2. (nB + r) \div Block = n
    BY <1>3, PlaceOf
  <2> QED
    BY <2>1, <2>2
<1>5. ZeroPadded(message) = all
  BY <1>4 DEF ZeroPadded, Behind
<1>6. /\ e \in Seq(Bytes) /\ Len(e) = nB
      /\ \A i \in 1..nB : e[i] = blocks[((i - 1) \div Block) + 1][((i - 1) % Block) + 1]
  BY <1>1, EndToEndParts
<1> HIDE DEF e
<1>7. nB - l \in Nat
  <2> HIDE DEF nB, l
  <2> QED
    BY <1>1, <1>3
<1>8. /\ zeros \in Seq(Bytes) /\ Len(zeros) = nB - l
      /\ \A k \in 1..(nB - l) : zeros[k] = 0
  <2> HIDE DEF nB, l
  <2> QED
    BY <1>3, <1>7
<1> HIDE DEF zeros
<1>9. /\ all \in Seq(Bytes) /\ Len(all) = l + (nB - l)
      /\ \A i \in 1..l : all[i] = message[i]
      /\ \A i \in 1..(nB - l) : all[l + i] = zeros[i]
  <2>1. zeros \in Seq(Bytes) /\ Len(zeros) = nB - l
    BY <1>8
  <2>2. /\ all \in Seq(Bytes) /\ Len(all) = Len(message) + Len(zeros)
        /\ \A i \in 1..Len(message) : all[i] = message[i]
        /\ \A i \in 1..Len(zeros) : all[Len(message) + i] = zeros[i]
    BY <2>1, BehindParts
  <2> HIDE DEF all, nB
  <2> QED
    BY <2>1, <2>2
<1> HIDE DEF all
<1>10. Len(all) = nB
  <2> HIDE DEF nB, l
  <2> QED
    BY <1>3, <1>9
<1>11. ASSUME NEW i \in 1..nB PROVE e[i] = all[i]
  <2> DEFINE b == (i - 1) \div Block
             k == ((i - 1) % Block) + 1
  <2>1. b \in 0..(n - 1) /\ k \in 1..Block /\ i = (b * Block) + k
    BY <1>3, InsideBlocks
  <2>2. e[i] = blocks[b + 1][k]
    BY <1>6
  <2> HIDE DEF b, k
  <2>3. e[i] = IF i <= l THEN message[i] ELSE 0
    BY <1>2, <2>1, <2>2
  <2>4. CASE i <= l
    <3>1. i \in 1..l
      BY <1>3, <2>4
    <3> QED
      BY <1>9, <2>3, <2>4, <3>1
  <2>5. CASE l < i
    <3>1. PICK j \in 1..(nB - l) : i = l + j
      <4> HIDE DEF nB, l
      <4>1. i - l \in 1..(nB - l) /\ i = l + (i - l)
        BY <1>3, <2>5
      <4> QED
        BY <4>1
    <3>2. ~(i <= l)
      <4> HIDE DEF nB, l
      <4> QED
        BY <1>3, <2>5
    <3> QED
      BY <1>8, <1>9, <2>3, <3>1, <3>2
  <2>6. i <= l \/ l < i
    BY <1>3
  <2> QED
    BY <2>4, <2>5, <2>6
<1>12. e = all
  BY <1>6, <1>9, <1>10, <1>11, SeqEqual
<1> QED
  BY <1>5, <1>12 DEF e

\* The blocks and the length tell the message.
LEMMA BlocksTellMessage ==
  ASSUME NEW blocks, NEW p \in Seq(Bytes), NEW q \in Seq(Bytes),
         PaddedAs(blocks, p), PaddedAs(blocks, q), Len(p) = Len(q)
  PROVE  p = q
<1> DEFINE n == Len(blocks)
<1>1. /\ blocks \in Seq(Blocks) /\ Len(p) <= n * Block
      /\ \A b \in 0..(n - 1), k \in 1..Block :
           blocks[b + 1][k] = IF (b * Block) + k <= Len(p) THEN p[(b * Block) + k] ELSE 0
  BY DEF PaddedAs
<1>2. \A b \in 0..(n - 1), k \in 1..Block :
        blocks[b + 1][k] = IF (b * Block) + k <= Len(q) THEN q[(b * Block) + k] ELSE 0
  BY DEF PaddedAs
<1>3. n \in Nat /\ n * Block \in Nat /\ Len(p) \in Nat
  BY <1>1, BlocksInOrder
<1> HIDE DEF n
<1>4. ASSUME NEW i \in 1..Len(p) PROVE p[i] = q[i]
  <2> DEFINE b == (i - 1) \div Block
             k == ((i - 1) % Block) + 1
  <2>1. i \in 1..(n * Block) /\ i <= Len(p)
    <3>1. PICK x \in Nat : x = n * Block
      BY <1>3
    <3>2. i \in 1..x /\ i <= Len(p)
      BY <1>1, <1>3, <3>1
    <3> QED
      BY <3>1, <3>2
  <2>2. b \in 0..(n - 1) /\ k \in 1..Block /\ i = (b * Block) + k
    BY <1>3, <2>1, InsideBlocks
  <2> HIDE DEF b, k
  <2>3. blocks[b + 1][k] = p[i]
    BY <1>1, <2>1, <2>2
  <2>4. blocks[b + 1][k] = q[i]
    BY <1>2, <2>1, <2>2
  <2> QED
    BY <2>3, <2>4
<1> QED
  BY <1>4, SeqEqual

-----------------------------------------------------------------------------
(* The invariant.                                                           *)

State == [mac |-> mac, feeder |-> feeder]

\* What is fed and what is still to be fed are the datagram.
Feeding ==
  /\ todo \in Seq(Seq(Bytes)) /\ Len(todo) <= 2
  /\ whole \in Seq(Bytes) /\ length = Len(whole)
  /\ \E fed : Feeds(State, fed) /\ Behind(fed, ToFeed) = whole

\* A tag is over the padded message and its length.
TagIsOf(d) ==
  /\ d.message \in Seq(Bytes)
  /\ PaddedAs(d.tag.blocks, d.message)
  /\ d.tag.lengths = LengthBlock(Len(d.message))

Tags == \A d \in sealed : TagIsOf(d)

\* A datagram is begun only while there is room for one more.
Room ==
  /\ IsFiniteSet(sealed) /\ Cardinality(sealed) \in 0..MaxSealed
  /\ whole # <<>> => Cardinality(sealed) < MaxSealed

MacInv == Feeding /\ Tags /\ Room

\* A new feeder has been fed nothing.
LEMMA NewFeedsNothing ==
  Feeds([mac |-> <<>>, feeder |-> NewFeeder], <<>>)
<1> DEFINE s == [mac |-> <<>>, feeder |-> NewFeeder]
<1>1. Block \in Nat \ {0} /\ 0 \in Bytes
  BY BlockAssumption
<1>2. s.mac = <<>> /\ s.feeder.partial = [k \in 1..Block |-> 0] /\ s.feeder.used = 0
  BY DEF NewFeeder
<1>3. [k \in 1..Block |-> 0] \in Blocks /\ 0 \in 0..(Block - 1)
  BY <1>1 DEF Blocks
<1>4. <<>> \in Seq(Bytes) /\ <<>> \in Seq(Blocks) /\ Len(<<>>) = 0 /\ (0 * Block) + 0 = 0
  BY <1>1
<1> HIDE DEF s
<1>5. Len(<<>>) = (Len(s.mac) * Block) + s.feeder.used
  BY <1>2, <1>4
<1>6. /\ \A b \in 0..(Len(s.mac) - 1), k \in 1..Block : s.mac[b + 1][k] = <<>>[(b * Block) + k]
      /\ \A k \in 1..s.feeder.used : s.feeder.partial[k] = <<>>[(Len(s.mac) * Block) + k]
  BY <1>2, <1>4
<1>7. Feeds(s, <<>>)
  BY <1>2, <1>3, <1>4, <1>5, <1>6 DEF Feeds
<1> QED
  BY <1>7 DEF s

\* The invariant holds at the start.
LEMMA InitFeeds == Init => MacInv
<1> SUFFICES ASSUME Init PROVE MacInv
  OBVIOUS
<1>1. todo = <<>> /\ length = 0 /\ feeder = NewFeeder /\ mac = <<>> /\ whole = <<>> /\ sealed = {}
  BY DEF Init
<1>2. Feeds(State, <<>>)
  BY <1>1, NewFeedsNothing DEF State
<1>3. <<>> \in Seq(Bytes) /\ <<>> \in Seq(Seq(Bytes)) /\ Len(<<>>) = 0
  OBVIOUS
<1>4. Behind(<<>>, ToFeed) = whole
  <2>1. ToFeed = <<>>
    BY <1>1 DEF ToFeed
  <2> QED
    BY <1>1, <1>3, <2>1, BehindParts
<1>5. Feeding
  BY <1>1, <1>2, <1>3, <1>4 DEF Feeding
<1>6. Room
  BY <1>1, FS_EmptySet, SizesAssumption DEF Room
<1> QED
  BY <1>1, <1>5, <1>6 DEF MacInv, Tags

\* seal starts with a new feeder and both slices before it.
LEMMA BeginKeeps ==
  ASSUME NEW header \in Headers, NEW payload \in Payloads, MacInv, Begin(header, payload)
  PROVE  MacInv'
<1>1. header \in Seq(Bytes)
  BY SizesAssumption DEF Headers
<1>2. payload \in Seq(Bytes)
  <2>1. PICK n \in 0..PayloadMax : payload \in [1..n -> Bytes]
    BY DEF Payloads
  <2> QED
    BY <2>1, SizesAssumption
<1>3. /\ todo' = <<header, payload>> /\ whole' = header \o payload
      /\ length' = Len(header) + Len(payload) /\ feeder' = NewFeeder /\ mac' = <<>>
      /\ sealed' = sealed /\ Cardinality(sealed) < MaxSealed
  BY DEF Begin
<1>4. PICK w : w = Behind(header, payload)
  OBVIOUS
<1>5. w \in Seq(Bytes) /\ Len(w) = Len(header) + Len(payload)
  BY <1>1, <1>2, <1>4, BehindParts
<1>6. whole' = w
  BY <1>3, <1>4 DEF Behind
<1>7. Feeds(State', <<>>)
  BY <1>3, NewFeedsNothing DEF State
<1>8. ToFeed' = w
  <2>1. todo' # <<>> /\ Len(todo') # 1 /\ todo'[1] = header /\ todo'[2] = payload
    BY <1>3
  <2> QED
    BY <1>4, <2>1 DEF ToFeed, Behind
<1>9. Behind(<<>>, w) = w
  <2>1. <<>> \in Seq(Bytes)
    OBVIOUS
  <2> QED
    BY <1>5, <2>1, BehindParts
<1>10. todo' \in Seq(Seq(Bytes)) /\ Len(todo') <= 2
  BY <1>1, <1>2, <1>3
<1>11. Feeding'
  <2>1. Feeds(State', <<>>) /\ Behind(<<>>, ToFeed') = whole'
    BY <1>6, <1>7, <1>8, <1>9
  <2>2. whole' \in Seq(Bytes) /\ length' = Len(whole')
    BY <1>3, <1>5, <1>6
  <2> QED
    BY <1>10, <2>1, <2>2 DEF Feeding
<1>12. Tags'
  BY <1>3 DEF MacInv, Tags
<1>13. Room'
  BY <1>3 DEF MacInv, Room
<1> QED
  BY <1>11, <1>12, <1>13 DEF MacInv

\* Feeding a slice moves it from what is to be fed to what is fed.
LEMMA FeedKeeps ==
  ASSUME MacInv, FeedSlice
  PROVE  MacInv'
<1> DEFINE data == Head(todo)
<1>1. todo \in Seq(Seq(Bytes)) /\ Len(todo) <= 2 /\ todo # <<>>
  BY DEF MacInv, Feeding, FeedSlice
<1>2. whole \in Seq(Bytes) /\ length = Len(whole)
  BY DEF MacInv, Feeding
<1>3. /\ feeder' = AfterFeed(State, data).feeder /\ mac' = AfterFeed(State, data).mac
      /\ todo' = Tail(todo) /\ length' = length /\ whole' = whole /\ sealed' = sealed
  BY DEF FeedSlice, State
<1>4. PICK fed : Feeds(State, fed) /\ Behind(fed, ToFeed) = whole
  BY DEF MacInv, Feeding
<1>5. data \in Seq(Bytes) /\ data = todo[1] /\ Tail(todo) \in Seq(Seq(Bytes))
        /\ Len(Tail(todo)) = Len(todo) - 1
  BY <1>1
<1>6. fed \in Seq(Bytes)
  BY <1>4 DEF Feeds
<1> HIDE DEF data
<1>7. Feeds(AfterFeed(State, data), Behind(fed, data))
  BY <1>4, <1>5, FeedFeeds
<1>8. Feeds(State', Behind(fed, data))
  <2>1. State'.mac = AfterFeed(State, data).mac /\ State'.feeder = AfterFeed(State, data).feeder
    BY <1>3 DEF State
  <2> QED
    BY <1>7, <2>1 DEF Feeds
<1>9. Behind(Behind(fed, data), ToFeed') = whole
  <2>1. Behind(fed, data) \in Seq(Bytes)
    BY <1>5, <1>6, BehindParts
  <2>2. CASE Len(todo) = 1
    <3>1. ToFeed = data
      BY <1>1, <1>5, <2>2 DEF ToFeed
    <3>2. Tail(todo) = <<>>
      <4>1. PICK u \in Seq(Seq(Bytes)) : u = Tail(todo)
        BY <1>5
      <4>2. Len(u) = 0
        BY <1>5, <2>2, <4>1
      <4> QED
        BY <4>1, <4>2, EmptySeq
    <3>3. ToFeed' = <<>>
      BY <1>3, <3>2 DEF ToFeed
    <3>4. <<>> \in Seq(Bytes)
      OBVIOUS
    <3>5. Behind(Behind(fed, data), <<>>) = Behind(fed, data)
      BY <2>1, <3>4, BehindParts
    <3> QED
      BY <1>4, <3>1, <3>3, <3>5
  <2>3. CASE Len(todo) # 1
    <3>1. Len(todo) = 2
      <4>1. Len(todo) \in Nat /\ Len(todo) # 0
        BY <1>1, EmptySeq
      <4>2. Len(todo) <= 2 /\ Len(todo) # 1
        BY <1>1, <2>3
      <4>3. \A n \in Nat : (n # 0 /\ n <= 2 /\ n # 1) => n = 2
        OBVIOUS
      <4> QED
        BY <4>1, <4>2, <4>3
    <3>2. PICK last \in Seq(Bytes) : last = todo[2]
      BY <1>1, <3>1
    <3>3. ToFeed = Behind(data, last)
      BY <1>1, <1>5, <2>3, <3>2 DEF ToFeed, Behind
    <3>4. Tail(todo) # <<>> /\ Len(Tail(todo)) = 1 /\ Tail(todo)[1] = last
      BY <1>1, <3>1, <3>2, TailOfTwo
    <3>5. ToFeed' = last
      BY <1>3, <3>4 DEF ToFeed
    <3>6. Behind(Behind(fed, data), last) = Behind(fed, Behind(data, last))
      BY <1>5, <1>6, <3>2, BehindAssociative
    <3> QED
      BY <1>4, <3>3, <3>5, <3>6
  <2> QED
    BY <2>2, <2>3
<1>10. Feeding'
  <2>1. todo' \in Seq(Seq(Bytes)) /\ Len(todo') <= 2
    BY <1>1, <1>3, <1>5
  <2>2. whole' \in Seq(Bytes) /\ length' = Len(whole')
    BY <1>2, <1>3
  <2> QED
    BY <1>3, <1>8, <1>9, <2>1, <2>2 DEF Feeding
<1>11. Tags'
  BY <1>3 DEF MacInv, Tags
<1>12. Room'
  BY <1>3 DEF MacInv, Room
<1> QED
  BY <1>10, <1>11, <1>12 DEF MacInv

\* The tag that is computed at the end is over the whole datagram.
LEMMA FinishKeeps ==
  ASSUME MacInv, Finish
  PROVE  MacInv'
<1> DEFINE d == [message |-> whole, tag |-> TagOf(State, length)]
<1>1. /\ todo = <<>> /\ whole # <<>> /\ sealed' = sealed \cup {d}
      /\ whole' = <<>> /\ length' = 0 /\ feeder' = NewFeeder /\ mac' = <<>> /\ todo' = todo
  BY DEF Finish, State
<1>2. whole \in Seq(Bytes) /\ length = Len(whole)
  BY DEF MacInv, Feeding
<1>3. PICK fed : Feeds(State, fed) /\ Behind(fed, ToFeed) = whole
  BY DEF MacInv, Feeding
<1>4. fed = whole
  <2>1. fed \in Seq(Bytes) /\ <<>> \in Seq(Bytes)
    BY <1>3 DEF Feeds
  <2>2. ToFeed = <<>>
    BY <1>1 DEF ToFeed
  <2>3. Behind(fed, <<>>) = fed
    BY <2>1, BehindParts
  <2> QED
    BY <1>3, <2>2, <2>3
<1>5. PaddedAs(Padded(State), whole)
  BY <1>3, <1>4, PaddedGivesAll
<1>6. TagIsOf(d)
  <2>1. d.message = whole /\ d.tag.blocks = Padded(State) /\ d.tag.lengths = LengthBlock(length)
    BY DEF TagOf
  <2> HIDE DEF d
  <2> QED
    BY <1>2, <1>5, <2>1 DEF TagIsOf
<1> HIDE DEF d
<1>7. Tags'
  BY <1>1, <1>6 DEF MacInv, Tags
<1>8. Room'
  <2>1. IsFiniteSet(sealed) /\ Cardinality(sealed) \in 0..MaxSealed /\ Cardinality(sealed) < MaxSealed
    BY <1>1 DEF MacInv, Room
  <2>2. /\ IsFiniteSet(sealed \cup {d})
        /\ Cardinality(sealed \cup {d}) = IF d \in sealed THEN Cardinality(sealed)
                                          ELSE Cardinality(sealed) + 1
    BY <2>1, FS_AddElement
  <2>3. Cardinality(sealed') \in 0..MaxSealed
    BY <1>1, <2>1, <2>2, SizesAssumption
  <2> QED
    BY <1>1, <2>2, <2>3 DEF Room
<1>9. Feeding'
  <2>1. Feeds(State', <<>>)
    BY <1>1, NewFeedsNothing DEF State
  <2>2. <<>> \in Seq(Bytes) /\ <<>> \in Seq(Seq(Bytes)) /\ Len(<<>>) = 0
    OBVIOUS
  <2>3. ToFeed' = <<>>
    BY <1>1 DEF ToFeed
  <2>4. Behind(<<>>, <<>>) = <<>>
    BY <2>2, BehindParts
  <2> QED
    BY <1>1, <2>1, <2>2, <2>3, <2>4 DEF Feeding
<1> QED
  BY <1>7, <1>8, <1>9 DEF MacInv

\* The inductive invariant: what was fed and what is to be fed are the datagram,
\* and a finished tag is over the padded message and its length.
THEOREM MacInvariant == Spec => []MacInv
<1>1. Init => MacInv
  BY InitFeeds
<1>2. MacInv /\ [Next]_vars => MacInv'
  <2> SUFFICES ASSUME MacInv, [Next]_vars PROVE MacInv'
    OBVIOUS
  <2>1. ASSUME NEW header \in Headers, NEW payload \in Payloads, Begin(header, payload)
        PROVE  MacInv'
    BY <2>1, BeginKeeps
  <2>2. CASE FeedSlice
    BY <2>2, FeedKeeps
  <2>3. CASE Finish
    BY <2>3, FinishKeeps
  <2>4. CASE UNCHANGED vars
    BY <2>4 DEF vars, MacInv, Feeding, Tags, Room, ToFeed, State
  <2> QED
    BY <2>1, <2>2, <2>3, <2>4 DEF Next
<1> QED
  BY <1>1, <1>2, PTL DEF Spec

\* The feeder's state keeps its types, and there are never more tags than allowed.
THEOREM TypeCorrect == Spec => []TypeOK
<1>1. MacInv => TypeOK
  <2> SUFFICES ASSUME MacInv PROVE TypeOK
    OBVIOUS
  <2>1. PICK fed : Feeds(State, fed)
    BY DEF MacInv, Feeding
  <2>2. State.mac = mac /\ State.feeder = feeder
    BY DEF State
  <2>3. feeder.partial \in [1..Block -> Bytes] /\ feeder.used \in 0..(Block - 1)
          /\ mac \in Seq([1..Block -> Bytes])
    BY <2>1, <2>2 DEF Feeds, Blocks
  <2>4. IsFiniteSet(sealed) /\ Cardinality(sealed) <= MaxSealed
    BY SizesAssumption DEF MacInv, Room
  <2> QED
    BY <2>3, <2>4 DEF MacInv, Feeding, TypeOK
<1> QED
  BY <1>1, MacInvariant, PTL

\* The seam between header and payload never shows, whatever their lengths and
\* the size of a block.
THEOREM NoSeam == Spec => []SeamNeverShows
<1>1. MacInv => SeamNeverShows
  <2> SUFFICES ASSUME MacInv PROVE SeamNeverShows
    OBVIOUS
  <2>1. PICK fed : Feeds(State, fed) /\ Behind(fed, ToFeed) = whole
    BY DEF MacInv, Feeding
  <2>2. Given(State) = fed
    BY <2>1, GivenIsFed
  <2>3. Given(State) = EndToEnd(mac) \o SubSeq(feeder.partial, 1, feeder.used)
    BY DEF Given, Behind, Front, State
  <2>4. (EndToEnd(mac) \o SubSeq(feeder.partial, 1, feeder.used)) \o ToFeed = whole
    BY <2>1, <2>2, <2>3 DEF Behind
  <2>5. ASSUME NEW d \in sealed PROVE EndToEnd(d.tag.blocks) = ZeroPadded(d.message)
    <3>1. d.message \in Seq(Bytes) /\ PaddedAs(d.tag.blocks, d.message)
      BY DEF MacInv, Tags, TagIsOf
    <3> QED
      BY <3>1, PaddedIsZeroPadded
  <2> QED
    BY <2>4, <2>5 DEF SeamNeverShows
<1> QED
  BY <1>1, MacInvariant, PTL

\* Two messages that differ are never authenticated as the same.
THEOREM TagsTellApart == Spec => []TagsTellDatagramsApart
<1>1. MacInv => TagsTellDatagramsApart
  <2> SUFFICES ASSUME MacInv, NEW d \in sealed, NEW e \in sealed, d.tag = e.tag
               PROVE  d.message = e.message
    BY DEF TagsTellDatagramsApart
  <2>1. TagIsOf(d) /\ TagIsOf(e)
    BY DEF MacInv, Tags
  <2>2. Len(d.message) = Len(e.message)
    <3>1. LengthBlock(Len(d.message)) = LengthBlock(Len(e.message))
      BY <2>1 DEF TagIsOf
    <3> QED
      BY <3>1 DEF LengthBlock
  <2>3. PaddedAs(d.tag.blocks, d.message) /\ PaddedAs(d.tag.blocks, e.message)
    BY <2>1 DEF TagIsOf
  <2>4. d.message \in Seq(Bytes) /\ e.message \in Seq(Bytes)
    BY <2>1 DEF TagIsOf
  <2> QED
    BY <2>2, <2>3, <2>4, BlocksTellMessage
<1> QED
  BY <1>1, MacInvariant, PTL
=============================================================================
