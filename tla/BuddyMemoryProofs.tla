-------------------------- MODULE BuddyMemoryProofs --------------------------
(***************************************************************************)
(* The buddy allocator, for any pool, any number of tasks and any sizes:   *)
(* its types, that no memory is in two hands or in none, and that it is    *)
(* refused only where there is no room.                                    *)
(***************************************************************************)
EXTENDS BuddyMemory, FiniteSetTheorems, WellFoundedInduction, TLAPS

-----------------------------------------------------------------------------
\* Induction, and the sizes of blocks

LEMMA LeastNatural ==
    ASSUME NEW S \in SUBSET Nat, S # {} PROVE \E i \in S : \A j \in S : i <= j
<1> DEFINE T == {0 .. n : n \in S}
<1>1. T \subseteq FiniteSubsetsOf(Nat) /\ T # {}
  <2>1. ASSUME NEW n \in S PROVE 0 .. n \in FiniteSubsetsOf(Nat)
    <3>1. 0 \in Int /\ n \in Int /\ 0 .. n \subseteq Nat
      OBVIOUS
    <3>2. IsFiniteSet(0 .. n)
      BY <3>1, FS_Interval
    <3> QED
      BY <3>1, <3>2 DEF FiniteSubsetsOf
  <2> QED
    BY <2>1
<1>2. PICK x \in T : \A y \in T : ~(<<y, x>> \in StrictSubsetOrdering(Nat))
  <2> HIDE DEF T
  <2> QED
    BY <1>1, FS_StrictSubsetOrderingWellFounded, WFMin
<1>3. PICK i \in S : x = 0 .. i
  BY <1>2
<1>4. ASSUME NEW j \in S, j < i PROVE FALSE
  <2>1. (0 .. j) \subseteq (0 .. i) /\ (0 .. j) # (0 .. i)
    <3>1. i \in 0 .. i /\ i \notin 0 .. j
      BY <1>4
    <3> QED
      BY <1>4, <3>1
  <2>2. <<0 .. j, 0 .. i>> \in StrictSubsetOrdering(Nat)
    BY <2>1 DEF StrictSubsetOrdering
  <2> QED
    BY <1>2, <1>3, <2>2
<1> QED
  BY <1>4

\* Induction, with the set of the numbers that have the property.
LEMMA NaturalInduction ==
    ASSUME NEW S \in SUBSET Nat, 0 \in S, \A n \in S : n + 1 \in S PROVE S = Nat
<1> SUFFICES ASSUME Nat \ S # {} PROVE FALSE
  OBVIOUS
<1>1. PICK i \in Nat \ S : \A j \in Nat \ S : i <= j
  BY LeastNatural
<1>2. i # 0 /\ i - 1 \in Nat
  BY <1>1
<1>3. i - 1 \in S
  BY <1>1, <1>2
<1> QED
  BY <1>1, <1>2, <1>3

\* The sizes of the blocks up to a level
Doubles(g, n) ==
    g \in [0 .. n -> Nat] /\ g[0] = 1 /\ \A k \in 0 .. n - 1 : g[k + 1] = 2 * g[k]

LEMMA DoublesExist == \A n \in Nat : \E g : Doubles(g, n)
<1> DEFINE S == {n \in Nat : \E g : Doubles(g, n)}
<1>1. 0 \in S
  <2>1. Doubles([k \in 0 .. 0 |-> 1], 0)
    BY DEF Doubles
  <2> QED
    BY <2>1
<1>2. ASSUME NEW n \in S PROVE n + 1 \in S
  <2>1. PICK g : Doubles(g, n)
    OBVIOUS
  <2> DEFINE h == [k \in 0 .. n + 1 |-> IF k = n + 1 THEN 2 * g[n] ELSE g[k]]
  <2>2. g[n] \in Nat
    BY <2>1 DEF Doubles
  <2>3. Doubles(h, n + 1)
    <3>1. h \in [0 .. n + 1 -> Nat]
      BY <2>1, <2>2 DEF Doubles
    <3>2. h[0] = 1
      BY <2>1 DEF Doubles
    <3>3. ASSUME NEW k \in 0 .. n PROVE h[k + 1] = 2 * h[k]
      BY <2>1, <3>3 DEF Doubles
    <3>4. 0 .. (n + 1) - 1 = 0 .. n
      OBVIOUS
    <3> HIDE DEF h
    <3> QED
      BY <3>1, <3>2, <3>3, <3>4 DEF Doubles
  <2> QED
    BY <2>3
<1> HIDE DEF S
<1>3. S = Nat
  BY <1>1, <1>2, NaturalInduction DEF S
<1> QED
  BY <1>3 DEF S

LEMMA DoublesAgree ==
    ASSUME NEW m \in Nat, NEW n \in Nat, NEW g, NEW h, Doubles(g, m), Doubles(h, n)
    PROVE  \A k \in Nat : k <= m /\ k <= n => g[k] = h[k]
<1> DEFINE S == {k \in Nat : k <= m /\ k <= n => g[k] = h[k]}
<1>1. 0 \in S
  BY DEF Doubles
<1>2. ASSUME NEW k \in S PROVE k + 1 \in S
  BY DEF Doubles
<1> HIDE DEF S
<1>3. S = Nat
  BY <1>1, <1>2, NaturalInduction DEF S
<1> QED
  BY <1>3 DEF S

LEMMA BlockSizeIs ==
    BlockSize = [n \in Nat |-> IF n = 0 THEN 1 ELSE 2 * BlockSize[n - 1]]
<1> DEFINE up == [n \in Nat |-> CHOOSE g : Doubles(g, n)]
           f == [n \in Nat |-> up[n][n]]
<1>1. \A n \in Nat : Doubles(up[n], n)
  BY DoublesExist
<1> HIDE DEF up
<1>2. ASSUME NEW n \in Nat PROVE f[n] = IF n = 0 THEN 1 ELSE 2 * f[n - 1]
  <2>1. CASE n = 0
    BY <1>1, <2>1 DEF Doubles
  <2>2. CASE n # 0
    <3>1. n - 1 \in Nat /\ n - 1 \in 0 .. n - 1 /\ (n - 1) + 1 = n
      BY <2>2
    <3>2. Doubles(up[n], n) /\ Doubles(up[n - 1], n - 1)
      BY <1>1, <3>1
    <3>3. up[n][n] = 2 * up[n][n - 1]
      BY <3>1, <3>2 DEF Doubles
    <3>4. up[n][n - 1] = up[n - 1][n - 1]
      BY <3>1, <3>2, DoublesAgree
    <3> QED
      BY <2>2, <3>1, <3>3, <3>4
  <2> QED
    BY <2>1, <2>2
<1>3. f = [n \in Nat |-> IF n = 0 THEN 1 ELSE 2 * f[n - 1]]
  <2>1. f = [n \in Nat |-> f[n]]
    OBVIOUS
  <2> HIDE DEF f
  <2> QED
    BY <1>2, <2>1
<1> HIDE DEF f
<1> QED
  BY <1>3 DEF BlockSize

LEMMA BlockSizes ==
    /\ BlockSize[0] = 1
    /\ \A n \in Nat : /\ BlockSize[n] \in Nat \ {0} /\ n < BlockSize[n]
                      /\ BlockSize[n + 1] = 2 * BlockSize[n]
<1>1. BlockSize[0] = 1
  BY BlockSizeIs
<1>2. ASSUME NEW n \in Nat PROVE BlockSize[n + 1] = 2 * BlockSize[n]
  <2>1. n + 1 \in Nat /\ n + 1 # 0 /\ (n + 1) - 1 = n
    OBVIOUS
  <2> QED
    BY <2>1, BlockSizeIs
<1> DEFINE S == {n \in Nat : BlockSize[n] \in Nat \ {0} /\ n < BlockSize[n]}
<1>3. 0 \in S
  BY <1>1
<1>4. ASSUME NEW n \in S PROVE n + 1 \in S
  BY <1>2
<1> HIDE DEF S
<1>5. S = Nat
  BY <1>3, <1>4, NaturalInduction DEF S
<1> QED
  BY <1>1, <1>2, <1>5 DEF S

-----------------------------------------------------------------------------
\* The parts of the pool

\* The block of a level that a smallest block belongs to
Part(b, l) == b \div BlockSize[l]

LEMMA Pool ==
    /\ iBlockCountOfSmallestBlock \in Nat /\ iBlockCountOfSmallestBlock >= 1
    /\ \A b : b \in Blocks <=> b \in Nat /\ b < iBlockCountOfSmallestBlock
    /\ Levels \subseteq Nat /\ Levels \subseteq Blocks
BY PoolAssumption DEF Blocks, Levels

LEMMA Division ==
    ASSUME NEW a \in Nat, NEW p \in Nat \ {0}
    PROVE  /\ (a \div p) \in Nat /\ (a \div p) * p <= a /\ a < (a \div p) * p + p
           /\ \A q \in Nat : q * p <= a /\ a < q * p + p => a \div p = q
<1>1. (a \div p) \in Nat /\ (a \div p) * p <= a /\ a < (a \div p) * p + p
  OBVIOUS
<1>2. ASSUME NEW q \in Nat, q * p <= a, a < q * p + p PROVE a \div p = q
  BY <1>2
<1> QED
  BY <1>1, <1>2

LEMMA PartIs ==
    ASSUME NEW b \in Nat, NEW l \in Nat
    PROVE  /\ Part(b, l) \in Nat /\ Part(b, l) * BlockSize[l] <= b
           /\ b < Part(b, l) * BlockSize[l] + BlockSize[l]
           /\ \A q \in Nat : q * BlockSize[l] <= b /\ b < q * BlockSize[l] + BlockSize[l]
                  => Part(b, l) = q
BY BlockSizes, Division DEF Part

LEMMA PartNext ==
    ASSUME NEW b \in Nat, NEW l \in Nat
    PROVE  Part(b, l + 1) = Part(b, l) \div 2 /\ Part(b, 0) = b
<1> DEFINE p == BlockSize[l]
           q == Part(b, l)
           h == q \div 2
<1>1. /\ p \in Nat \ {0} /\ BlockSize[l + 1] = 2 * p /\ BlockSize[0] = 1
      /\ q \in Nat /\ q * p <= b /\ b < q * p + p
  BY BlockSizes, PartIs
<1>2. h \in Nat /\ (q = 2 * h \/ q = 2 * h + 1)
  BY <1>1
<1> HIDE DEF p, q, h
<1>3. h * (2 * p) <= b /\ b < h * (2 * p) + 2 * p
  <2>1. CASE q = 2 * h
    <3>1. q * p = h * (2 * p)
      BY <1>1, <1>2, <2>1
    <3> QED
      BY <1>1, <1>2, <3>1
  <2>2. CASE q = 2 * h + 1
    <3>1. q * p = h * (2 * p) + p
      BY <1>1, <1>2, <2>2
    <3> QED
      BY <1>1, <1>2, <3>1
  <2> QED
    BY <1>2, <2>1, <2>2
<1>4. Part(b, l + 1) = h
  <2>1. l + 1 \in Nat
    OBVIOUS
  <2> QED
    BY <1>1, <1>2, <1>3, <2>1, PartIs
<1>5. Part(b, 0) = b
  BY <1>1 DEF Part
<1> QED
  BY <1>4, <1>5 DEF h, q

\* Blocks of a larger size do not part those of a smaller one.
LEMMA PartNest ==
    ASSUME NEW b \in Nat, NEW c \in Nat, NEW l \in Nat, NEW k \in Nat, l <= k,
           Part(b, l) = Part(c, l)
    PROVE  Part(b, k) = Part(c, k)
<1> DEFINE S == {n \in Nat : Part(b, l + n) = Part(c, l + n)}
<1>1. 0 \in S
  OBVIOUS
<1>2. ASSUME NEW n \in S PROVE n + 1 \in S
  <2>1. l + n \in Nat /\ l + (n + 1) = (l + n) + 1
    OBVIOUS
  <2> QED
    BY <2>1, PartNext
<1> HIDE DEF S
<1>3. S = Nat
  BY <1>1, <1>2, NaturalInduction DEF S
<1>4. k - l \in Nat /\ l + (k - l) = k
  OBVIOUS
<1> QED
  BY <1>3, <1>4 DEF S

\* Where a block starts, and the larger blocks around it and the smaller ones
\* at its beginning
LEMMA PartAround ==
    ASSUME NEW o \in Nat, NEW j \in Nat, NEW l \in Nat, j <= l
    PROVE  Part(o * BlockSize[j], l) = Around(o, j, l)
<1> DEFINE s == o * BlockSize[j]
           S == {n \in Nat : Part(s, j + n) = Part(o, n)}
<1>1. s \in Nat /\ Part(s, j) = o
  <2>1. s \in Nat /\ o * BlockSize[j] <= s /\ s < o * BlockSize[j] + BlockSize[j]
    BY BlockSizes
  <2> QED
    BY <2>1, PartIs
<1> HIDE DEF s
<1>2. 0 \in S
  BY <1>1, PartNext
<1>3. ASSUME NEW n \in S PROVE n + 1 \in S
  <2>1. j + n \in Nat /\ j + (n + 1) = (j + n) + 1
    OBVIOUS
  <2> QED
    BY <1>1, <2>1, PartNext
<1> HIDE DEF S
<1>4. S = Nat
  BY <1>2, <1>3, NaturalInduction DEF S
<1>5. l - j \in Nat /\ j + (l - j) = l
  OBVIOUS
<1> QED
  BY <1>4, <1>5 DEF S, s, Part, Around

LEMMA PartBelow ==
    ASSUME NEW o \in Nat, NEW j \in Nat, NEW l \in Nat, l <= j
    PROVE  /\ Part(o * BlockSize[j], l) = FirstPart(o, j, l)
           /\ l < j => \E h \in Nat : FirstPart(o, j, l) = 2 * h
<1> DEFINE S == {n \in Nat : BlockSize[l + n] = BlockSize[l] * BlockSize[n]}
<1>1. 0 \in S
  BY BlockSizes
<1>2. ASSUME NEW n \in S PROVE n + 1 \in S
  <2>1. l + n \in Nat /\ l + (n + 1) = (l + n) + 1
    OBVIOUS
  <2>2. BlockSize[l + (n + 1)] = 2 * BlockSize[l + n] /\ BlockSize[n + 1] = 2 * BlockSize[n]
    BY <2>1, BlockSizes
  <2> QED
    BY <2>2, BlockSizes
<1> HIDE DEF S
<1>3. S = Nat
  BY <1>1, <1>2, NaturalInduction DEF S
<1> DEFINE d == j - l
<1>4. d \in Nat /\ l + d = j
  OBVIOUS
<1>5. BlockSize[j] = BlockSize[l] * BlockSize[d]
  BY <1>3, <1>4 DEF S
<1>6. BlockSize[d] \in Nat \ {0} /\ BlockSize[l] \in Nat \ {0} /\ BlockSize[j] \in Nat \ {0}
  BY <1>4, BlockSizes
<1>7. o * BlockSize[j] = (o * BlockSize[d]) * BlockSize[l]
  BY <1>5, <1>6
<1>8. o * BlockSize[d] \in Nat /\ o * BlockSize[j] \in Nat
  BY <1>6
<1>9. Part(o * BlockSize[j], l) = o * BlockSize[d]
  <2> DEFINE q == o * BlockSize[d]
             b == o * BlockSize[j]
  <2>1. q \in Nat /\ b \in Nat /\ b = q * BlockSize[l]
    BY <1>7, <1>8
  <2> HIDE DEF q, b
  <2>2. q * BlockSize[l] <= b /\ b < q * BlockSize[l] + BlockSize[l]
    BY <1>6, <2>1
  <2>3. Part(b, l) = q
    BY <2>1, <2>2, PartIs
  <2> QED
    BY <2>3 DEF q, b
<1>10. ASSUME l < j PROVE \E h \in Nat : o * BlockSize[d] = 2 * h
  <2>1. d - 1 \in Nat /\ d = (d - 1) + 1
    BY <1>10
  <2>2. BlockSize[d] = 2 * BlockSize[d - 1] /\ BlockSize[d - 1] \in Nat
    BY <2>1, BlockSizes
  <2>3. o * BlockSize[d] = 2 * (o * BlockSize[d - 1]) /\ o * BlockSize[d - 1] \in Nat
    BY <2>2
  <2> QED
    BY <2>3
<1> QED
  BY <1>9, <1>10 DEF FirstPart

\* Which blocks of a level the pool has room for
LEMMA Room ==
    ASSUME NEW l \in Nat, NEW o \in Nat
    PROVE  /\ BlockCount(l) \in Nat /\ BlockCount(l) <= iBlockCountOfSmallestBlock
           /\ o < BlockCount(l) <=> o * BlockSize[l] + BlockSize[l] <= iBlockCountOfSmallestBlock
<1> DEFINE p == BlockSize[l]
           n == iBlockCountOfSmallestBlock
           q == BlockCount(l)
<1>1. p \in Nat \ {0} /\ n \in Nat /\ q = n \div p
  BY BlockSizes, Pool DEF BlockCount
<1> HIDE DEF p, n, q
<1>2. q \in Nat /\ q * p <= n /\ n < q * p + p
  BY <1>1, Division
<1>3. q <= q * p
  BY <1>1, <1>2
<1>4. ASSUME o < q PROVE o * p + p <= n
  <2>1. (o + 1) * p <= q * p
    BY <1>1, <1>2, <1>4
  <2>2. (o + 1) * p = o * p + p
    BY <1>1
  <2> QED
    BY <1>1, <1>2, <2>1, <2>2
<1>5. ASSUME o * p + p <= n, q <= o PROVE FALSE
  <2>1. q * p <= o * p
    BY <1>1, <1>2, <1>5
  <2> QED
    BY <1>1, <1>2, <1>5, <2>1
<1> QED
  BY <1>1, <1>2, <1>3, <1>4, <1>5 DEF p, n, q

\* Lower levels are levels too, and a level with two blocks has one above it.
LEMMA LevelsBelow ==
    ASSUME NEW l \in Levels
    PROVE  /\ l \in Nat /\ BlockSize[l] <= iBlockCountOfSmallestBlock
           /\ \A k \in Nat : k <= l => k \in Levels
           /\ BlockCount(l) > 1 => l + 1 \in Levels
<1>1. \A k \in Nat : k \in Levels <=> BlockSize[k] <= iBlockCountOfSmallestBlock
  <2> SUFFICES ASSUME NEW k \in Nat
               PROVE  k \in Levels <=> BlockSize[k] <= iBlockCountOfSmallestBlock
    OBVIOUS
  <2>1. BlockCount(k) \in Nat /\ (0 < BlockCount(k) <=>
            0 * BlockSize[k] + BlockSize[k] <= iBlockCountOfSmallestBlock)
    BY Room
  <2>2. BlockSize[k] \in Nat /\ k < BlockSize[k]
    BY BlockSizes
  <2>3. BlockCount(k) > 0 <=> BlockSize[k] <= iBlockCountOfSmallestBlock
    BY <2>1, <2>2
  <2>4. BlockSize[k] <= iBlockCountOfSmallestBlock => k \in Blocks
    BY <2>2, Pool
  <2> QED
    BY <2>3, <2>4 DEF Levels
<1>2. l \in Nat
  BY Pool
<1> DEFINE T == {n \in Nat : \A k \in Nat : k <= n => BlockSize[k] <= BlockSize[n]}
<1>3. T = Nat
  <2>1. 0 \in T
    BY BlockSizes
  <2>2. ASSUME NEW n \in T PROVE n + 1 \in T
    <3>1. BlockSize[n + 1] = 2 * BlockSize[n] /\ BlockSize[n] \in Nat
      BY BlockSizes
    <3>2. ASSUME NEW k \in Nat, k <= n + 1 PROVE BlockSize[k] <= BlockSize[n + 1]
      <4>1. CASE k = n + 1
        BY <3>1, <4>1
      <4>2. CASE k <= n
        BY <3>1, <4>2, BlockSizes
      <4> QED
        BY <3>2, <4>1, <4>2
    <3> QED
      BY <3>2
  <2> HIDE DEF T
  <2>3. T \in SUBSET Nat
    BY DEF T
  <2> QED
    BY <2>1, <2>2, <2>3, NaturalInduction
<1>4. ASSUME NEW k \in Nat, k <= l PROVE k \in Levels
  <2>1. BlockSize[k] <= BlockSize[l] /\ BlockSize[k] \in Nat /\ BlockSize[l] \in Nat
    BY <1>2, <1>3, <1>4, BlockSizes
  <2> QED
    BY <1>1, <1>2, <2>1, Pool
<1>5. ASSUME BlockCount(l) > 1 PROVE l + 1 \in Levels
  <2>1. 1 * BlockSize[l] + BlockSize[l] <= iBlockCountOfSmallestBlock
    BY <1>2, <1>5, Room
  <2>2. BlockSize[l + 1] = 2 * BlockSize[l] /\ BlockSize[l] \in Nat
    BY <1>2, BlockSizes
  <2>3. BlockSize[l + 1] <= iBlockCountOfSmallestBlock
    BY <2>1, <2>2
  <2> QED
    BY <1>1, <1>2, <2>3
<1> QED
  BY <1>1, <1>2, <1>4, <1>5

\* An extent has the smallest blocks that are part of its block.
LEMMA ExtentIs ==
    ASSUME NEW l \in Nat, NEW o \in Nat
    PROVE  /\ \A b \in Nat : b \in Extent(l, o) <=> Part(b, l) = o
           /\ Extent(l, o) \subseteq Nat
           /\ o < BlockCount(l) => Extent(l, o) \subseteq Blocks
           /\ o * BlockSize[l] \in Extent(l, o)
<1> DEFINE p == BlockSize[l]
           s == o * p
<1>1. p \in Nat \ {0} /\ s \in Nat
  BY BlockSizes
<1>2. (o + 1) * p = s + p
  <2>1. \A x, y \in Nat : (x + 1) * y = x * y + y
    OBVIOUS
  <2> QED
    BY <1>1, <2>1
<1>3. Extent(l, o) = s .. s + p - 1
  <2> DEFINE e == (o + 1) * p
  <2>1. Extent(l, o) = s .. e - 1 /\ e = s + p
    BY <1>2 DEF Extent
  <2> HIDE DEF e, s, p
  <2> QED
    BY <1>1, <2>1
<1>4. ASSUME NEW b \in Nat PROVE b \in Extent(l, o) <=> Part(b, l) = o
  <2>1. b \in Extent(l, o) <=> s <= b /\ b < s + p
    BY <1>1, <1>3
  <2>2. Part(b, l) = o => s <= b /\ b < s + p
    BY PartIs
  <2>3. s <= b /\ b < s + p => Part(b, l) = o
    BY PartIs
  <2> QED
    BY <2>1, <2>2, <2>3
<1>5. ASSUME o < BlockCount(l) PROVE Extent(l, o) \subseteq Blocks
  <2>1. s + p <= iBlockCountOfSmallestBlock
    BY <1>5, Room
  <2> HIDE DEF s, p
  <2> QED
    BY <1>1, <1>3, <2>1, Pool
<1>6. Extent(l, o) \subseteq Nat /\ s \in Extent(l, o)
  <2> HIDE DEF s, p
  <2> QED
    BY <1>1, <1>3
<1> QED
  BY <1>4, <1>5, <1>6

\* The two halves of a block are buddies.
LEMMA BuddyIs ==
    ASSUME NEW o \in Nat
    PROVE  /\ Buddy(o) \in Nat /\ Buddy(o) # o /\ Buddy(Buddy(o)) = o
           /\ Buddy(o) \div 2 = o \div 2
           /\ \A x \in Nat : x \div 2 = o \div 2 => x = o \/ x = Buddy(o)
           /\ (\E h \in Nat : o = 2 * h) => Buddy(o) = o + 1
           /\ (o \div 2) \in Nat
           /\ \A n \in Nat : o < n /\ Buddy(o) < n => n > 1 /\ o \div 2 < n \div 2
BY DEF Buddy

\* No block lies around fewer than the pool has.
LEMMA PartCount ==
    ASSUME NEW l \in Nat
    PROVE  /\ BlockCount(l) = Part(iBlockCountOfSmallestBlock, l)
           /\ BlockCount(l + 1) = BlockCount(l) \div 2
           /\ \A b \in Nat : b <= iBlockCountOfSmallestBlock => Part(b, l) <= BlockCount(l)
           /\ \A b \in Blocks : b \in Nat
<1>1. BlockCount(l) = Part(iBlockCountOfSmallestBlock, l)
      /\ BlockCount(l + 1) = Part(iBlockCountOfSmallestBlock, l + 1)
  BY DEF BlockCount, Part
<1>2. BlockCount(l + 1) = BlockCount(l) \div 2
  BY <1>1, Pool, PartNext
<1>3. ASSUME NEW b \in Nat, b <= iBlockCountOfSmallestBlock PROVE Part(b, l) <= BlockCount(l)
  <2> DEFINE p == BlockSize[l]
             n == iBlockCountOfSmallestBlock
             x == Part(b, l)
             y == Part(n, l)
  <2>1. /\ p \in Nat \ {0} /\ n \in Nat /\ x \in Nat /\ y \in Nat
        /\ x * p <= b /\ n < y * p + p /\ b <= n
    BY <1>3, BlockSizes, Pool, PartIs
  <2> HIDE DEF p, n, x, y
  <2>2. ASSUME y < x PROVE FALSE
    <3>1. (y + 1) * p <= x * p /\ (y + 1) * p = y * p + p
      BY <2>1, <2>2
    <3>2. x * p \in Nat /\ y * p \in Nat
      BY <2>1
    <3> QED
      BY <2>1, <3>1, <3>2
  <2> QED
    BY <1>1, <2>1, <2>2 DEF n, x, y
<1> QED
  BY <1>1, <1>2, <1>3, Pool

LEMMA PartFits ==
    ASSUME NEW s \in Nat, NEW k \in Nat, NEW l \in Nat, l <= k,
           Part(s, k) < BlockCount(k)
    PROVE  Part(s, l) < BlockCount(l)
<1> DEFINE S == {n \in Nat : n <= k => Part(s, k - n) < BlockCount(k - n)}
<1>1. 0 \in S
  OBVIOUS
<1>2. ASSUME NEW n \in S PROVE n + 1 \in S
  <2>1. CASE n + 1 <= k
    <3> DEFINE i == k - (n + 1)
    <3>1. i \in Nat /\ k - n = i + 1 /\ Part(s, i + 1) < BlockCount(i + 1)
      BY <2>1
    <3> HIDE DEF i
    <3>2. /\ Part(s, i) \in Nat /\ BlockCount(i) \in Nat
          /\ Part(s, i + 1) = Part(s, i) \div 2
          /\ BlockCount(i + 1) = BlockCount(i) \div 2
      BY <3>1, PartIs, PartNext, PartCount, Room
    <3>3. Part(s, i) < BlockCount(i)
      BY <3>1, <3>2
    <3> QED
      BY <3>3 DEF i
  <2>2. CASE ~(n + 1 <= k)
    BY <2>2
  <2> QED
    BY <2>1, <2>2
<1> HIDE DEF S
<1>3. S = Nat
  BY <1>1, <1>2, NaturalInduction DEF S
<1>4. k - l \in Nat /\ k - l <= k /\ k - (k - l) = l
  OBVIOUS
<1> QED
  BY <1>3, <1>4 DEF S

\* Where two smallest blocks are first part of the same block
Meet(b, c, j, m) == \A l \in Nat : l >= j =>
    /\ Part(b, l) = Part(c, l) <=> l >= m
    /\ l = m - 1 <=> Part(b, l) # Part(c, l)
                     /\ Part(b, l) \div 2 = Part(c, l) \div 2

LEMMA FirstMeeting ==
    ASSUME NEW b \in Nat, NEW c \in Nat, NEW j \in Nat, NEW k \in Nat, j <= k,
           Part(b, k) = Part(c, k)
    PROVE  \E m \in j .. k : Meet(b, c, j, m)
<1> DEFINE S == {n \in Nat : n >= j /\ Part(b, n) = Part(c, n)}
<1>1. k \in S
  OBVIOUS
<1>2. PICK m \in S : \A n \in S : m <= n
  BY <1>1, LeastNatural
<1>3. m \in j .. k
  BY <1>1, <1>2
<1>4. ASSUME NEW l \in Nat, l >= j PROVE Part(b, l) = Part(c, l) <=> l >= m
  <2>1. l >= m => Part(b, l) = Part(c, l)
    BY PartNest
  <2> QED
    BY <1>2, <1>4, <2>1
<1>5. ASSUME NEW l \in Nat, l >= j
      PROVE  l = m - 1 <=> Part(b, l) # Part(c, l)
                           /\ Part(b, l) \div 2 = Part(c, l) \div 2
  <2>1. Part(b, l + 1) = Part(b, l) \div 2 /\ Part(c, l + 1) = Part(c, l) \div 2
    BY PartNext
  <2>2. l + 1 \in Nat /\ l + 1 >= j
    BY <1>5
  <2>3. Part(b, l + 1) = Part(c, l + 1) <=> l + 1 >= m
    BY <1>4, <2>2
  <2>4. Part(b, l) = Part(c, l) <=> l >= m
    BY <1>4, <1>5
  <2> HIDE DEF S
  <2> QED
    BY <1>3, <2>1, <2>3, <2>4
<1> QED
  BY <1>3, <1>4, <1>5 DEF Meet

-----------------------------------------------------------------------------
\* The inductive invariant: every smallest block has exactly one home, be it a
\* free block, a block in the hands of a call or one in use.  No two buddies are
\* free, the table of sizes has an entry exactly where a block begins, and the
\* blocks of the calls and in use are blocks of the pool.

Bits(l) == pstBitmapOfLevel[l].pbBitmap

Frees(b) == {l \in Levels : Part(b, l) \in Bits(l)}
Helds(b) == {t \in Holders : Part(b, call[t].level) = call[t].offset}
Useds(b) == {a \in live : Part(b, pbAllocatedBlockListIndex[a])
                          = Part(a, pbAllocatedBlockListIndex[a])}

Only(S) == \E x \in S : S = {x}

OneHome == \A b \in Blocks :
    \/ Only(Frees(b)) /\ Helds(b) = {} /\ Useds(b) = {}
    \/ Frees(b) = {} /\ Only(Helds(b)) /\ Useds(b) = {}
    \/ Frees(b) = {} /\ Helds(b) = {} /\ Only(Useds(b))

NoBuddies == \A l \in Levels : \A o \in Bits(l) : Buddy(o) \notin Bits(l)

TableOK ==
    /\ {b \in Blocks : pbAllocatedBlockListIndex[b] # Unallocated} = Begins
    /\ \A t \in Tasks : call[t].step \in {"add", "added"} =>
           pbAllocatedBlockListIndex[Start(t)] = call[t].level

HeldFit == \A t \in Holders : call[t].offset < BlockCount(call[t].level)

UsedFit == \A a \in live :
    LET level == pbAllocatedBlockListIndex[a]
    IN  /\ level \in Levels
        /\ a = Part(a, level) * BlockSize[level]
        /\ Part(a, level) < BlockCount(level)

IInv == TypeOK /\ OneHome /\ NoBuddies /\ TableOK /\ HeldFit /\ UsedFit

-----------------------------------------------------------------------------
\* The bitmaps, and the blocks that are tried

Sound(bitmap, n) ==
    /\ bitmap.pbBitmap \subseteq 0 .. n - 1
    /\ bitmap.qwExistBitCount = Cardinality(bitmap.pbBitmap)

LEMMA SoundFinite ==
    ASSUME NEW bitmap, NEW n \in Nat, Sound(bitmap, n)
    PROVE  IsFiniteSet(bitmap.pbBitmap) /\ Cardinality(bitmap.pbBitmap) \in Nat
<1>1. IsFiniteSet(0 .. n - 1)
  BY FS_Interval
<1>2. IsFiniteSet(bitmap.pbBitmap)
  BY <1>1, FS_Subset DEF Sound
<1> QED
  BY <1>2, FS_CardinalityType

LEMMA SetExistIs ==
    ASSUME NEW bitmap, NEW n \in Nat, NEW o \in Nat, Sound(bitmap, n), o < n
    PROVE  /\ Sound(SetExist(bitmap, o), n)
           /\ SetExist(bitmap, o).pbBitmap = bitmap.pbBitmap \cup {o}
<1>1. CASE o \in bitmap.pbBitmap
  BY <1>1 DEF SetExist
<1>2. CASE o \notin bitmap.pbBitmap
  <2>1. /\ SetExist(bitmap, o).pbBitmap = bitmap.pbBitmap \cup {o}
        /\ SetExist(bitmap, o).qwExistBitCount = bitmap.qwExistBitCount + 1
    BY <1>2 DEF SetExist
  <2>2. Cardinality(bitmap.pbBitmap \cup {o}) = Cardinality(bitmap.pbBitmap) + 1
    BY <1>2, SoundFinite, FS_AddElement
  <2> QED
    BY <2>1, <2>2 DEF Sound
<1> QED
  BY <1>1, <1>2

LEMMA SetEmptyIs ==
    ASSUME NEW bitmap, NEW n \in Nat, NEW o, Sound(bitmap, n)
    PROVE  /\ Sound(SetEmpty(bitmap, o), n)
           /\ SetEmpty(bitmap, o).pbBitmap = bitmap.pbBitmap \ {o}
<1>1. CASE o \notin bitmap.pbBitmap
  BY <1>1 DEF SetEmpty
<1>2. CASE o \in bitmap.pbBitmap
  <2>1. /\ SetEmpty(bitmap, o).pbBitmap = bitmap.pbBitmap \ {o}
        /\ SetEmpty(bitmap, o).qwExistBitCount = bitmap.qwExistBitCount - 1
    BY <1>2 DEF SetEmpty
  <2>2. Cardinality(bitmap.pbBitmap \ {o}) = Cardinality(bitmap.pbBitmap) - 1
    BY <1>2, SoundFinite, FS_RemoveElement
  <2> QED
    BY <2>1, <2>2 DEF Sound
<1> QED
  BY <1>1, <1>2

\* A level whose count is zero has no free block, and another has a first one.
LEMMA FreeBlocksAre ==
    ASSUME TypeOK, NEW l \in Levels
    PROVE  /\ BlockCount(l) \in Nat /\ Sound(pstBitmapOfLevel[l], BlockCount(l))
           /\ FreeBlocks(l) = Bits(l)
           /\ Bits(l) # {} => FirstFree(l) \in Bits(l)
<1>1. l \in Nat /\ BlockCount(l) \in Nat
  BY Pool, Room
<1>2. Sound(pstBitmapOfLevel[l], BlockCount(l))
  BY DEF TypeOK, Sound
<1>3. FreeBlocks(l) = Bits(l)
  <2>1. CASE pstBitmapOfLevel[l].qwExistBitCount = 0
    <3>1. Bits(l) = {}
      BY <1>1, <1>2, <2>1, SoundFinite, FS_EmptySet DEF Sound, Bits
    <3> QED
      BY <2>1, <3>1 DEF FreeBlocks
  <2>2. CASE pstBitmapOfLevel[l].qwExistBitCount # 0
    BY <1>2, <2>2 DEF FreeBlocks, Sound, Bits
  <2> QED
    BY <2>1, <2>2
<1>4. ASSUME Bits(l) # {} PROVE FirstFree(l) \in Bits(l)
  <2>1. Bits(l) \subseteq Nat
    BY <1>1, <1>2 DEF Sound, Bits
  <2>2. \E offset \in FreeBlocks(l) : \A o \in FreeBlocks(l) : offset <= o
    BY <1>3, <1>4, <2>1, LeastNatural
  <2> QED
    BY <1>3, <2>2 DEF FirstFree
<1> QED
  BY <1>1, <1>2, <1>3, <1>4

LEMMA SourceIs ==
    ASSUME TypeOK, NEW level \in Nat, Sources(level) # {}
    PROVE  /\ SourceOf(level) \in Levels /\ SourceOf(level) >= level
           /\ FirstFree(SourceOf(level)) \in Bits(SourceOf(level))
<1>1. Sources(level) \subseteq Nat /\ Sources(level) \subseteq Levels
  BY Pool DEF Sources
<1>2. \E from \in Sources(level) : \A l \in Sources(level) : from <= l
  BY <1>1, LeastNatural
<1>3. SourceOf(level) \in Sources(level)
  BY <1>2 DEF SourceOf
<1> QED
  BY <1>1, <1>3, FreeBlocksAre DEF Sources

LEMMA LevelOfIs ==
    ASSUME NEW size, Fits(size) # {} PROVE LevelOf(size) \in Levels
<1>1. Fits(size) \subseteq Nat /\ Fits(size) \subseteq Levels
  BY Pool DEF Fits
<1>2. \E level \in Fits(size) : \A l \in Fits(size) : level <= l
  BY <1>1, LeastNatural
<1> QED
  BY <1>1, <1>2 DEF LevelOf

-----------------------------------------------------------------------------
\* At the start of the program every smallest block is part of one free block.

LEMMA InitIInv == Init => IInv
<1> SUFFICES ASSUME Init PROVE IInv
  OBVIOUS
<1>1. Holders = {} /\ live = {} /\ \A t \in Tasks : call[t] = Idle
  BY DEF Init, Idle, Holders
<1>2. ASSUME NEW l \in Levels
      PROVE  /\ l \in Nat /\ BlockCount(l) \in Nat /\ BlockCount(l) > 0
             /\ Bits(l) = IF BlockCount(l) % 2 = 1 THEN {BlockCount(l) - 1} ELSE {}
             /\ pstBitmapOfLevel[l].qwExistBitCount = BlockCount(l) % 2
  BY Pool, Room DEF Init, Bits, Levels
<1>3. TypeOK
  <2>1. ASSUME NEW l \in Levels
        PROVE  /\ Bits(l) \subseteq 0 .. BlockCount(l) - 1
               /\ pstBitmapOfLevel[l].qwExistBitCount = Cardinality(Bits(l))
    <3>1. CASE BlockCount(l) % 2 = 1
      <4> DEFINE c == BlockCount(l)
      <4>1. /\ c \in Nat /\ c > 0 /\ Bits(l) = {c - 1}
            /\ pstBitmapOfLevel[l].qwExistBitCount = 1
        BY <1>2, <3>1
      <4> HIDE DEF c
      <4>2. Cardinality({c - 1}) = 1
        BY FS_Singleton
      <4>3. {c - 1} \subseteq 0 .. c - 1
        BY <4>1
      <4> QED
        BY <4>1, <4>2, <4>3 DEF c
    <3>2. CASE BlockCount(l) % 2 # 1
      <4>1. BlockCount(l) % 2 = 0
        BY <1>2, <3>2
      <4> QED
        BY <1>2, <3>2, <4>1, FS_EmptySet
    <3> QED
      BY <3>1, <3>2
  <2>2. 0 \in Blocks /\ 0 \in Levels
    <3>1. BlockCount(0) = iBlockCountOfSmallestBlock
      BY PartCount, Pool, PartNext
    <3> QED
      BY <3>1, Pool DEF Levels
  <2>3. 0 \in 0 .. WordSize - 1
    BY PoolAssumption
  <2>4. call \in [Tasks -> Calls]
    BY <2>2, <2>3 DEF Init, Idle, Calls
  <2> QED
    BY <2>1, <2>3, <2>4 DEF TypeOK, Init, Bits
<1>4. OneHome
  <2> SUFFICES ASSUME NEW b \in Blocks
               PROVE  Only(Frees(b)) /\ Helds(b) = {} /\ Useds(b) = {}
    BY DEF OneHome
  <2> DEFINE n == iBlockCountOfSmallestBlock
  <2>1. b \in Nat /\ n \in Nat /\ n >= 1 /\ b < n
    BY Pool
  <2>0. \A l \in Nat : Part(b, l) <= BlockCount(l) /\ Part(n, l) = BlockCount(l)
    BY <2>1, PartCount
  <2> HIDE DEF n
  <2>2. Part(b, n) = Part(n, n)
    <3>1. n < BlockSize[n] /\ BlockSize[n] \in Nat
      BY <2>1, BlockSizes
    <3> HIDE DEF n
    <3>2. ASSUME NEW a \in Nat, a <= n PROVE Part(a, n) = 0
      <4>1. 0 \in Nat /\ 0 * BlockSize[n] <= a /\ a < 0 * BlockSize[n] + BlockSize[n]
        BY <2>1, <3>1, <3>2
      <4> QED
        BY <2>1, <4>1, PartIs
    <3>3. Part(b, n) = 0 /\ Part(n, n) = 0
      BY <2>1, <3>2
    <3> QED
      BY <3>3
  <2>3. Part(b, 0) = b /\ Part(n, 0) = n
    BY <2>1, PartNext
  <2>4. PICK m \in 0 .. n : Meet(b, n, 0, m)
    BY <2>1, <2>2, FirstMeeting
  <2>5. m - 1 \in Nat /\ m - 1 < n
    BY <2>1, <2>3, <2>4 DEF Meet
  <2>6. ASSUME NEW l \in Nat
        PROVE  /\ l \in Levels => (l \in Frees(b) <=> l = m - 1)
               /\ l = m - 1 => l \in Levels
    <3> DEFINE x == Part(b, l)
               y == BlockCount(l)
    <3>1. x \in Nat /\ y \in Nat /\ x <= y /\ Part(n, l) = y
      BY <2>0, <2>1, PartIs, Room
    <3>2. l = m - 1 <=> x # y /\ x \div 2 = y \div 2
      BY <2>4, <3>1 DEF Meet
    <3>3. ASSUME l \in Levels PROVE l \in Frees(b) <=> y % 2 = 1 /\ x = y - 1
      BY <1>2, <3>3 DEF Frees
    <3>4. ASSUME l = m - 1 PROVE l \in Levels
      <4>1. y > 0
        <5> HIDE DEF x, y
        <5> QED
          BY <3>1, <3>2, <3>4
      <4> QED
        BY <2>1, <2>5, <3>4, <4>1, Pool DEF Levels, n
    <3> HIDE DEF x, y
    <3>5. x # y /\ x \div 2 = y \div 2 <=> y % 2 = 1 /\ x = y - 1
      BY <3>1
    <3> QED
      BY <3>2, <3>3, <3>4, <3>5
  <2>7. Frees(b) = {m - 1}
    <3>1. Frees(b) \subseteq Levels /\ Levels \subseteq Nat
      BY Pool DEF Frees
    <3> QED
      BY <2>5, <2>6, <3>1
  <2>8. Helds(b) = {} /\ Useds(b) = {}
    BY <1>1 DEF Helds, Useds
  <2> QED
    BY <2>7, <2>8 DEF Only
<1>5. NoBuddies
  <2> SUFFICES ASSUME NEW l \in Levels, NEW o \in Bits(l) PROVE Buddy(o) \notin Bits(l)
    BY DEF NoBuddies
  <2>1. o \in Nat /\ Bits(l) = {o}
    BY <1>2
  <2> QED
    BY <2>1, BuddyIs
<1>6. TableOK
  <2>1. Begins = {}
    BY <1>1 DEF Begins, Idle
  <2>2. \A b \in Blocks : pbAllocatedBlockListIndex[b] = Unallocated
    BY DEF Init
  <2> QED
    BY <1>1, <2>1, <2>2 DEF TableOK, Idle
<1> QED
  BY <1>1, <1>3, <1>4, <1>5, <1>6 DEF IInv, HeldFit, UsedFit

-----------------------------------------------------------------------------
\* Taking a block: of the free block that is split, each smallest block is part
\* of the block that is taken or of the half that becomes free at the level below
\* the one where the two first meet.

LEMMA TakeBlockStep ==
    ASSUME IInv, NEW t \in Tasks, TakeBlock(t) PROVE IInv'
<1>1. PICK level \in Levels : level = call[t].level
  BY DEF IInv, TypeOK, Calls
<1>2. PICK from \in Levels : from = SourceOf(level)
  <2>1. level \in Nat
    BY Pool
  <2> QED
    BY <1>1, <2>1, SourceIs DEF IInv, TakeBlock
<1>3. PICK offset \in Bits(from) : offset = FirstFree(from)
  BY <1>1, <1>2, Pool, SourceIs DEF IInv, TakeBlock
<1>4. /\ level \in Nat /\ from \in Nat /\ level <= from
      /\ offset \in Nat /\ offset < BlockCount(from)
      /\ BlockCount(from) \in Nat
  <2>1. level \in Nat /\ from \in Nat /\ BlockCount(from) \in Nat
    BY Pool, Room
  <2>2. Bits(from) \subseteq 0 .. BlockCount(from) - 1
    BY DEF IInv, TypeOK, Bits
  <2>3. level <= from
    BY <1>1, <1>2, <2>1, SourceIs DEF IInv, TakeBlock
  <2> QED
    BY <2>1, <2>2, <2>3
<1>5. PICK s \in Nat : s = offset * BlockSize[from]
  BY <1>4, BlockSizes
<1>6. /\ Part(s, from) = offset
      /\ \A l \in Nat : l <= from => FirstPart(offset, from, l) = Part(s, l)
      /\ \A l \in Nat : l < from => \E h \in Nat : Part(s, l) = 2 * h
  <2>1. Part(s, from) = offset
    <3>1. BlockSize[from] \in Nat \ {0}
      BY <1>4, BlockSizes
    <3>2. offset * BlockSize[from] <= s /\ s < offset * BlockSize[from] + BlockSize[from]
      BY <1>5, <3>1
    <3> QED
      BY <1>4, <3>2, PartIs
  <2>2. ASSUME NEW l \in Nat, l <= from
        PROVE  /\ FirstPart(offset, from, l) = Part(s, l)
               /\ l < from => \E h \in Nat : Part(s, l) = 2 * h
    <3>1. Part(offset * BlockSize[from], l) = FirstPart(offset, from, l)
      BY <1>4, <2>2, PartBelow
    <3>2. l < from => \E h \in Nat : FirstPart(offset, from, l) = 2 * h
      BY <1>4, <2>2, PartBelow
    <3> QED
      BY <1>5, <3>1, <3>2
  <2>3. \A l \in Nat : l < from => l <= from
    BY <1>4
  <2> QED
    BY <2>1, <2>2, <2>3
<1>7. ASSUME NEW l \in Nat, l < from PROVE Part(s, l) + 1 < BlockCount(l)
  <2> DEFINE x == Part(s, l)
             y == BlockCount(l)
  <2>1. x \in Nat /\ y \in Nat
    BY PartIs, Room
  <2>2. x \div 2 < y \div 2
    BY <1>4, <1>6, <1>7, PartFits, PartNext, PartCount
  <2>3. \E h \in Nat : x = 2 * h
    BY <1>6, <1>7
  <2> HIDE DEF x, y
  <2>4. x + 1 < y
    BY <2>1, <2>2, <2>3
  <2> QED
    BY <2>4 DEF x, y
<1>8. ASSUME NEW l \in Levels
      PROVE  /\ Sound(pstBitmapOfLevel[l], BlockCount(l))'
             /\ l = from => Bits(l)' = Bits(l) \ {offset}
             /\ l \in level .. from - 1 =>
                    Bits(l)' = (Bits(l) \ {Part(s, l)}) \cup {Part(s, l) + 1}
             /\ l # from /\ l \notin level .. from - 1 => Bits(l)' = Bits(l)
  <2> DEFINE new == pstBitmapOfLevel'[l]
             old == pstBitmapOfLevel[l]
  <2>1. /\ l \in Nat /\ BlockCount(l) \in Nat
        /\ Sound(old, BlockCount(l)) /\ old.pbBitmap = Bits(l)
    BY Pool, Room, FreeBlocksAre DEF IInv, Bits
  <2>2. pstBitmapOfLevel' = Split(level, from, offset)
    BY <1>1, <1>2, <1>3 DEF TakeBlock
  <2>3. CASE l = from
    <3>1. new = SetEmpty(old, offset)
      BY <2>2, <2>3 DEF Split
    <3>2. new.pbBitmap = Bits(l) \ {offset} /\ Sound(new, BlockCount(l))
      BY <2>1, <3>1, SetEmptyIs
    <3> QED
      BY <1>4, <2>3, <3>2 DEF Bits, Sound
  <2>4. CASE l # from /\ l \in level .. from - 1
    <3>0. l < from /\ l <= from
      BY <1>4, <2>1, <2>4
    <3>1. FirstPart(offset, from, l) = Part(s, l) /\ Part(s, l) + 1 < BlockCount(l)
          /\ Part(s, l) \in Nat /\ Part(s, l) + 1 \in Nat
      <4>1. FirstPart(offset, from, l) = Part(s, l)
        BY <1>6, <2>1, <3>0
      <4>2. Part(s, l) + 1 < BlockCount(l)
        BY <1>7, <2>1, <3>0
      <4>3. Part(s, l) \in Nat
        BY <2>1, PartIs
      <4> QED
        BY <4>1, <4>2, <4>3
    <3>2. new = SetExist(SetEmpty(old, Part(s, l)), Part(s, l) + 1)
      BY <2>2, <2>4, <3>1 DEF Split
    <3>3. /\ SetEmpty(old, Part(s, l)).pbBitmap = Bits(l) \ {Part(s, l)}
          /\ Sound(SetEmpty(old, Part(s, l)), BlockCount(l))
      BY <2>1, SetEmptyIs
    <3>4. /\ new.pbBitmap = (Bits(l) \ {Part(s, l)}) \cup {Part(s, l) + 1}
          /\ Sound(new, BlockCount(l))
      BY <2>1, <3>1, <3>2, <3>3, SetExistIs
    <3> QED
      BY <2>4, <3>4 DEF Bits, Sound
  <2>5. CASE l # from /\ l \notin level .. from - 1
    <3>1. new = old
      BY <2>2, <2>5 DEF Split
    <3> QED
      BY <2>1, <2>5, <3>1 DEF Bits, Sound
  <2> QED
    BY <2>3, <2>4, <2>5
<1>9. /\ call \in [Tasks -> Calls] /\ call' \in [Tasks -> Calls]
      /\ call[t].step = "take" /\ call'[t].step = "enter"
      /\ call'[t].level = level /\ call'[t].offset = Part(s, level)
      /\ \A u \in Tasks : u # t => call'[u] = call[u]
  <2>1. call \in [Tasks -> Calls] /\ call[t].step = "take"
    BY DEF IInv, TypeOK, TakeBlock, At
  <2>2. call' = [call EXCEPT ![t].step = "enter", ![t].offset = Part(s, level)]
    BY <1>1, <1>2, <1>3, <1>4, <1>6 DEF TakeBlock
  <2>3. Part(s, level) \in Blocks
    <3>1. Part(s, level) < BlockCount(level)
      BY <1>4, <1>6, PartFits
    <3> QED
      BY <1>4, <3>1, PartIs, Room, Pool
  <2> QED
    BY <1>1, <2>1, <2>2, <2>3 DEF Calls
<1>10. t \notin Holders /\ Holders' = Holders \cup {t} /\ Begins' = Begins
       /\ UNCHANGED <<pbAllocatedBlockListIndex, qwUsedSize, live>>
  <2>1. UNCHANGED <<pbAllocatedBlockListIndex, qwUsedSize, live>>
    BY DEF TakeBlock
  <2>2. {u \in Tasks : call'[u].step \in {"add", "added"}}
        = {u \in Tasks : call[u].step \in {"add", "added"}}
    BY <1>9
  <2>3. \A u \in Tasks : call[u].step \in {"add", "added"} => Start(u)' = Start(u)
    BY <1>9 DEF Start
  <2>4. Begins' = Begins
    BY <1>9, <2>1, <2>3 DEF Begins
  <2> QED
    BY <1>9, <2>1, <2>4 DEF Holders
<1>11. TypeOK'
  BY <1>8, <1>9, <1>10 DEF IInv, TypeOK, Sound
<1>12. OneHome'
  <2> SUFFICES ASSUME NEW b \in Blocks
               PROVE  \/ Only(Frees(b)') /\ Helds(b)' = {} /\ Useds(b)' = {}
                      \/ Frees(b)' = {} /\ Only(Helds(b)') /\ Useds(b)' = {}
                      \/ Frees(b)' = {} /\ Helds(b)' = {} /\ Only(Useds(b)')
    BY DEF OneHome, Only
  <2>1. b \in Nat /\ \A l \in Levels : l \in Nat
    BY Pool
  <2>2. Useds(b)' = Useds(b)
    BY <1>10 DEF Useds
  <2>3. CASE Part(b, from) # offset
    <3>1. ASSUME NEW l \in Nat, l <= from PROVE Part(b, l) # Part(s, l)
      BY <1>4, <1>6, <2>1, <2>3, <3>1, PartNest
    <3>2. ASSUME NEW l \in Nat, l < from PROVE Part(b, l) # Part(s, l) + 1
      <4>1. Part(b, l) \div 2 # Part(s, l) \div 2
        BY <1>4, <2>1, <3>1, <3>2, PartNext
      <4>2. (\E h \in Nat : Part(s, l) = 2 * h) /\ Part(b, l) \in Nat
        BY <1>6, <2>1, <3>2, PartIs
      <4> QED
        BY <4>1, <4>2
    <3>3. Frees(b)' = Frees(b)
      <4>1. ASSUME NEW l \in Levels PROVE Part(b, l) \in Bits(l)' <=> Part(b, l) \in Bits(l)
        BY <1>4, <1>8, <2>1, <2>3, <3>1, <3>2
      <4> QED
        BY <4>1 DEF Frees
    <3>4. Helds(b)' = Helds(b)
      <4>1. ASSUME NEW u \in Tasks PROVE u \in Helds(b)' <=> u \in Helds(b)
        BY <1>4, <1>9, <1>10, <3>1 DEF Helds
      <4> QED
        BY <1>10, <4>1 DEF Helds, Holders
    <3> QED
      BY <2>2, <3>3, <3>4 DEF IInv, OneHome
  <2>4. CASE Part(b, from) = offset
    <3>1. Frees(b) = {from} /\ Helds(b) = {} /\ Useds(b) = {}
      BY <2>4 DEF IInv, OneHome, Only, Frees
    <3>2. PICK m \in level .. from : Meet(b, s, level, m)
      BY <1>4, <1>6, <2>1, <2>4, FirstMeeting
    <3>3. ASSUME NEW l \in Levels PROVE Part(b, l) \in Bits(l)' <=> l = m - 1 /\ l >= level
      <4>1. Part(b, l) \in Bits(l) <=> l = from
        BY <3>1, <3>3 DEF Frees
      <4>2. CASE l = from
        BY <1>4, <1>8, <2>1, <2>4, <3>2, <4>2
      <4>3. CASE l # from /\ l \in level .. from - 1
        <5>1. Part(b, l) \in Bits(l)' <=> Part(b, l) = Part(s, l) + 1
          BY <1>8, <4>1, <4>3
        <5>2. (\E h \in Nat : Part(s, l) = 2 * h) /\ Part(b, l) \in Nat
          BY <1>4, <1>6, <2>1, <4>3, PartIs
        <5>3. Part(b, l) = Part(s, l) + 1
              <=> Part(b, l) # Part(s, l) /\ Part(b, l) \div 2 = Part(s, l) \div 2
          BY <5>2
        <5> QED
          BY <1>4, <2>1, <3>2, <4>3, <5>1, <5>3 DEF Meet
      <4>4. CASE l # from /\ l \notin level .. from - 1
        BY <1>4, <1>8, <2>1, <3>2, <4>1, <4>4
      <4> QED
        BY <4>2, <4>3, <4>4
    <3>4. ASSUME NEW u \in Tasks PROVE u \in Helds(b)' <=> u = t /\ m = level
      <4>1. u # t => (u \in Helds(b)' <=> u \in Helds(b))
        BY <1>9, <1>10 DEF Helds
      <4>2. t \in Helds(b)' <=> Part(b, level) = Part(s, level)
        BY <1>9, <1>10 DEF Helds
      <4>3. Part(b, level) = Part(s, level) <=> m = level
        BY <1>4, <3>2 DEF Meet
      <4> QED
        BY <3>1, <4>1, <4>2, <4>3
    <3>5. Helds(b)' \subseteq Tasks /\ Frees(b)' \subseteq Levels
          /\ \A l \in Levels : l \in Frees(b)' <=> l = m - 1 /\ l >= level
      BY <3>3 DEF Helds, Frees, Holders
    <3>6. CASE m = level
      <4>0. \A l \in Levels : l \notin Frees(b)'
        BY <1>4, <2>1, <3>5, <3>6
      <4>1. Helds(b)' = {t} /\ Frees(b)' = {}
        BY <3>4, <3>5, <3>6, <4>0
      <4> QED
        BY <2>2, <3>1, <4>1 DEF Only
    <3>7. CASE m # level
      <4>1. m - 1 \in Levels /\ m - 1 >= level
        BY <1>4, <3>2, <3>7, LevelsBelow
      <4>2. Helds(b)' = {} /\ Frees(b)' = {m - 1}
        BY <3>4, <3>5, <3>7, <4>1
      <4> QED
        BY <2>2, <3>1, <4>2 DEF Only
    <3> QED
      BY <3>6, <3>7
  <2> QED
    BY <2>3, <2>4
<1>13. NoBuddies'
  <2> SUFFICES ASSUME NEW l \in Levels, NEW o \in Bits(l)' PROVE Buddy(o) \notin Bits(l)'
    BY DEF NoBuddies
  <2>1. \A x \in Bits(l) : Buddy(x) \notin Bits(l)
    BY DEF IInv, NoBuddies
  <2>2. l \in Nat /\ Bits(l) \subseteq Nat
    BY Pool, Room DEF IInv, TypeOK, Bits
  <2>3. CASE l # from /\ l \in level .. from - 1
    <3> DEFINE x == Part(s, l)
    <3>0. l < from
      BY <1>4, <2>2, <2>3
    <3>1. x \in Nat /\ Buddy(x) = x + 1 /\ Buddy(x + 1) = x
      <4>1. x \in Nat /\ \E h \in Nat : x = 2 * h
        BY <1>6, <2>2, <3>0, PartIs
      <4> HIDE DEF x
      <4>2. Buddy(x) = x + 1 /\ Buddy(Buddy(x)) = x
        BY <4>1, BuddyIs
      <4> QED
        BY <4>1, <4>2
    <3>2. Bits(l)' = (Bits(l) \ {x}) \cup {x + 1}
      BY <1>8, <2>3
    <3>3. \A y \in Nat : Buddy(Buddy(y)) = y
      BY BuddyIs
    <3> HIDE DEF x
    <3>4. CASE o = x + 1
      BY <3>1, <3>2, <3>4
    <3>5. CASE o # x + 1
      <4>1. o \in Bits(l) /\ o # x /\ o \in Nat
        BY <2>2, <3>2, <3>5
      <4>2. Buddy(o) # x + 1
        BY <3>1, <3>3, <4>1
      <4> QED
        BY <2>1, <3>2, <4>1, <4>2
    <3> QED
      BY <3>4, <3>5
  <2>4. CASE ~(l # from /\ l \in level .. from - 1)
    <3>1. Bits(l)' \subseteq Bits(l)
      BY <1>8, <2>4
    <3> QED
      BY <2>1, <3>1
  <2> QED
    BY <2>3, <2>4
<1>14. TableOK'
  <2>1. \A u \in Tasks : call'[u].step \in {"add", "added"} =>
            /\ call[u].step \in {"add", "added"} /\ Start(u)' = Start(u)
            /\ call'[u].level = call[u].level
    BY <1>9 DEF Start
  <2> QED
    BY <1>10, <2>1 DEF IInv, TableOK
<1>15. HeldFit'
  <2>1. Part(s, level) < BlockCount(level)
    BY <1>4, <1>6, PartFits
  <2>2. ASSUME NEW u \in Holders' PROVE (call[u].offset < BlockCount(call[u].level))'
    BY <1>9, <1>10, <2>1 DEF IInv, HeldFit, Holders, BlockCount
  <2> QED
    BY <2>2 DEF HeldFit
<1>16. UsedFit'
  BY <1>10 DEF IInv, UsedFit
<1> QED
  BY <1>11, <1>12, <1>13, <1>14, <1>15, <1>16 DEF IInv

-----------------------------------------------------------------------------
\* Giving a block back: it is joined with its buddy up to the first level where
\* the buddy is not free, and the smallest blocks of what that makes are part of
\* it instead of the block given back or of a buddy at a level on the way.

LEMMA GiveBlockStep ==
    ASSUME IInv, NEW t \in Tasks, GiveBlock(t) PROVE IInv'
<1>1. PICK level \in Levels, offset \in Blocks :
          level = call[t].level /\ offset = call[t].offset
  BY DEF IInv, TypeOK, Calls
<1>2. call \in [Tasks -> Calls] /\ call[t].step = "give" /\ t \in Holders
  BY DEF IInv, TypeOK, GiveBlock, At, Holders
<1>3. level \in Nat /\ offset \in Nat /\ offset < BlockCount(level)
  BY <1>1, <1>2, Pool DEF IInv, HeldFit
<1>4. PICK s \in Nat : s = offset * BlockSize[level]
  BY <1>3, BlockSizes
<1>5. /\ Part(s, level) = offset
      /\ \A l \in Nat : level <= l => Around(offset, level, l) = Part(s, l)
  <2>1. Part(s, level) = offset
    <3>1. BlockSize[level] \in Nat \ {0}
      BY <1>3, BlockSizes
    <3>2. offset * BlockSize[level] <= s /\ s < offset * BlockSize[level] + BlockSize[level]
      BY <1>4, <3>1
    <3> QED
      BY <1>3, <3>2, PartIs
  <2>2. ASSUME NEW l \in Nat, level <= l PROVE Around(offset, level, l) = Part(s, l)
    <3>1. Part(offset * BlockSize[level], l) = Around(offset, level, l)
      BY <1>3, <2>2, PartAround
    <3> QED
      BY <1>4, <3>1
  <2> QED
    BY <2>1, <2>2
<1>6. PICK top \in Nat :
          /\ level <= top
          /\ ~(top \in Levels /\ Buddy(Part(s, top)) \in Bits(top))
          /\ \A k \in level .. top - 1 : k \in Levels /\ Buddy(Part(s, k)) \in Bits(k)
  <2> DEFINE S == {n \in Nat : level <= n
                               /\ ~(n \in Levels /\ Buddy(Part(s, n)) \in Bits(n))}
  <2>1. iBlockCountOfSmallestBlock \in S
    <3>1. level \in Nat /\ level < iBlockCountOfSmallestBlock
      BY <1>1, Pool
    <3>2. iBlockCountOfSmallestBlock \notin Levels
      BY Pool
    <3> QED
      BY <3>1, <3>2, Pool
  <2>2. PICK n \in S : \A k \in S : n <= k
    BY <2>1, LeastNatural
  <2>3. \A k \in level .. n - 1 : k \notin S /\ k \in Nat /\ level <= k
    BY <1>3, <2>2
  <2> QED
    BY <2>2, <2>3
<1>7. ASSUME NEW l \in level .. top PROVE Part(s, l) < BlockCount(l) /\ l \in Nat
  <2> DEFINE S == {n \in Nat : level + n <= top =>
                                   Part(s, level + n) < BlockCount(level + n)}
  <2>1. 0 \in S
    BY <1>3, <1>5
  <2>2. ASSUME NEW n \in S PROVE n + 1 \in S
    <3>1. CASE level + (n + 1) <= top
      <4> DEFINE i == level + n
      <4>1. /\ i \in Nat /\ level + (n + 1) = i + 1 /\ Part(s, i) < BlockCount(i)
            /\ i \in level .. top - 1
        BY <1>3, <3>1
      <4> HIDE DEF i
      <4> DEFINE x == Part(s, i)
                 y == BlockCount(i)
      <4>2. x \in Nat /\ y \in Nat /\ x < y /\ Buddy(x) < y
        <5>1. Buddy(x) \in Bits(i) /\ Bits(i) \subseteq 0 .. BlockCount(i) - 1
          BY <1>6, <4>1 DEF IInv, TypeOK, Bits
        <5>2. Buddy(x) < y
          BY <4>1, <5>1, Room
        <5> QED
          BY <4>1, <5>2, PartIs, Room
      <4>3. Part(s, i + 1) = x \div 2 /\ BlockCount(i + 1) = y \div 2
        BY <4>1, PartNext, PartCount
      <4> HIDE DEF x, y
      <4>4. Part(s, i + 1) < BlockCount(i + 1)
        BY <4>2, <4>3, BuddyIs
      <4> QED
        BY <4>1, <4>4
    <3>2. CASE ~(level + (n + 1) <= top)
      BY <3>2
    <3> QED
      BY <3>1, <3>2
  <2> HIDE DEF S
  <2>3. S = Nat
    BY <2>1, <2>2, NaturalInduction DEF S
  <2>4. l - level \in Nat /\ level + (l - level) = l /\ l <= top /\ l \in Nat
    BY <1>3
  <2> QED
    BY <2>3, <2>4 DEF S
<1>8. top \in Levels /\ \A l \in level .. top : l \in Levels
  <2>1. top \in Levels
    <3>1. CASE top = level
      BY <3>1
    <3>2. CASE top # level
      <4> DEFINE i == top - 1
      <4>1. i \in level .. top - 1 /\ i \in Nat /\ i + 1 = top /\ i \in level .. top
        BY <1>3, <1>6, <3>2
      <4>2. i \in Levels /\ Buddy(Part(s, i)) \in Bits(i)
        BY <1>6, <4>1
      <4> HIDE DEF i
      <4> DEFINE x == Part(s, i)
                 y == BlockCount(i)
      <4>3. x \in Nat /\ y \in Nat /\ x < y /\ Buddy(x) < y
        <5>1. Bits(i) \subseteq 0 .. BlockCount(i) - 1
          BY <4>2 DEF IInv, TypeOK, Bits
        <5>2. Buddy(x) < y
          BY <4>1, <4>2, <5>1, Room
        <5> QED
          BY <1>7, <4>1, <5>2, PartIs, Room
      <4> HIDE DEF x
      <4>4. y > 1
        BY <4>3, BuddyIs
      <4> QED
        BY <4>1, <4>2, <4>4, LevelsBelow
    <3> QED
      BY <3>1, <3>2
  <2>2. ASSUME NEW l \in level .. top PROVE l \in Levels
    BY <1>3, <1>6, <2>1, LevelsBelow
  <2> QED
    BY <2>1, <2>2
<1>9. ASSUME NEW l \in Levels
      PROVE  l \in Joined(level, offset) <=> l \in level .. top
  <2>1. l \in Nat
    BY Pool
  <2>2. \A k \in Nat : level <= k => Around(offset, level, k) = Part(s, k)
    BY <1>5
  <2>3. ASSUME l \in Joined(level, offset), ~(l <= top) PROVE FALSE
    <3>1. top \in level .. l - 1
      BY <1>3, <1>6, <2>1, <2>3
    <3>2. Buddy(Around(offset, level, top)) \in pstBitmapOfLevel[top].pbBitmap
      BY <2>3, <3>1 DEF Joined
    <3> QED
      BY <1>6, <1>8, <2>2, <3>2 DEF Bits
  <2>4. ASSUME l \in level .. top PROVE l \in Joined(level, offset)
    <3>1. ASSUME NEW k \in level .. l - 1
          PROVE  Buddy(Around(offset, level, k)) \in pstBitmapOfLevel[k].pbBitmap
      <4>1. k \in Nat /\ level <= k /\ k \in level .. top - 1
        BY <1>3, <1>6, <2>1, <2>4
      <4> QED
        BY <1>6, <2>2, <4>1 DEF Bits
    <3> QED
      BY <1>3, <2>1, <2>4, <3>1 DEF Joined
  <2>5. l \in Joined(level, offset) => l >= level
    BY DEF Joined
  <2> QED
    BY <1>3, <1>6, <2>1, <2>3, <2>4, <2>5
<1>10. ASSUME NEW l \in Levels
       PROVE  /\ Sound(pstBitmapOfLevel[l], BlockCount(l))'
              /\ l \in level .. top - 1 =>
                     Bits(l)' = Bits(l) \ {Buddy(Part(s, l)), Part(s, l)}
              /\ l = top => Bits(l)' = Bits(l) \cup {Part(s, l)}
              /\ l \notin level .. top => Bits(l)' = Bits(l)
  <2> DEFINE new == pstBitmapOfLevel'[l]
             old == pstBitmapOfLevel[l]
             p == Part(s, l)
  <2>1. /\ l \in Nat /\ BlockCount(l) \in Nat
        /\ Sound(old, BlockCount(l)) /\ old.pbBitmap = Bits(l)
    BY Pool, Room, FreeBlocksAre DEF IInv, Bits
  <2>2. pstBitmapOfLevel' = Join(level, offset)
    BY <1>1 DEF GiveBlock
  <2>3. CASE l \in level .. top
    <3>1. Around(offset, level, l) = p /\ p \in Nat /\ p < BlockCount(l)
      BY <1>3, <1>5, <1>7, <2>1, <2>3, PartIs
    <3>2. Sound(SetExist(old, p), BlockCount(l))
          /\ SetExist(old, p).pbBitmap = Bits(l) \cup {p}
      BY <2>1, <3>1, SetExistIs
    <3>3. CASE l \in level .. top - 1
      <4>1. Buddy(p) \in Bits(l)
        BY <1>6, <3>3
      <4>2. new = SetEmpty(SetEmpty(SetExist(old, p), Buddy(p)), p)
        BY <1>9, <2>1, <2>2, <2>3, <3>1, <4>1 DEF Join
      <4> DEFINE mid == SetEmpty(SetExist(old, p), Buddy(p))
      <4>3. Sound(mid, BlockCount(l)) /\ mid.pbBitmap = (Bits(l) \cup {p}) \ {Buddy(p)}
        BY <2>1, <3>2, SetEmptyIs
      <4>4. Sound(new, BlockCount(l)) /\ new.pbBitmap = mid.pbBitmap \ {p}
        BY <2>1, <4>2, <4>3, SetEmptyIs
      <4>5. new.pbBitmap = Bits(l) \ {Buddy(p), p}
        BY <4>3, <4>4
      <4>6. l # top
        BY <1>3, <2>1, <3>3
      <4> HIDE DEF mid, p
      <4> QED
        BY <2>3, <4>4, <4>5, <4>6 DEF Bits, Sound, p
    <3>4. CASE l = top
      <4>1. Buddy(p) \notin Bits(l)
        BY <1>6, <3>4
      <4>2. new = SetExist(old, p)
        BY <1>9, <2>1, <2>2, <2>3, <3>1, <4>1 DEF Join
      <4>3. l \notin level .. top - 1
        BY <1>3, <2>1, <3>4
      <4> QED
        BY <2>3, <3>2, <4>2, <4>3 DEF Bits, Sound
    <3> QED
      BY <1>3, <2>1, <2>3, <3>3, <3>4
  <2>4. CASE l \notin level .. top
    <3>1. new = old
      BY <1>9, <2>2, <2>4 DEF Join
    <3>2. l \notin level .. top - 1 /\ l # top
      BY <1>3, <1>6, <2>1, <2>4
    <3> QED
      BY <2>1, <2>4, <3>1, <3>2 DEF Bits, Sound
  <2> QED
    BY <2>3, <2>4
<1>11. /\ call' \in [Tasks -> Calls] /\ call'[t].step = "subtract"
       /\ \A u \in Tasks : u # t => call'[u] = call[u]
  <2>1. call' = [call EXCEPT ![t].step = "subtract"]
    BY DEF GiveBlock, Go
  <2> QED
    BY <1>2, <2>1 DEF Calls
<1>12. /\ Holders' = Holders \ {t} /\ Begins' = Begins
       /\ UNCHANGED <<pbAllocatedBlockListIndex, qwUsedSize, live>>
  <2>1. UNCHANGED <<pbAllocatedBlockListIndex, qwUsedSize, live>>
    BY DEF GiveBlock
  <2>2. {u \in Tasks : call'[u].step \in {"add", "added"}}
        = {u \in Tasks : call[u].step \in {"add", "added"}}
    BY <1>2, <1>11
  <2>3. \A u \in Tasks : call[u].step \in {"add", "added"} => Start(u)' = Start(u)
    BY <1>2, <1>11 DEF Start
  <2>4. Begins' = Begins
    BY <1>2, <1>11, <2>1, <2>3 DEF Begins
  <2> QED
    BY <1>2, <1>11, <2>1, <2>4 DEF Holders
<1>13. TypeOK'
  BY <1>10, <1>11, <1>12 DEF IInv, TypeOK, Sound
<1>14. OneHome'
  <2> SUFFICES ASSUME NEW b \in Blocks
               PROVE  \/ Only(Frees(b)') /\ Helds(b)' = {} /\ Useds(b)' = {}
                      \/ Frees(b)' = {} /\ Only(Helds(b)') /\ Useds(b)' = {}
                      \/ Frees(b)' = {} /\ Helds(b)' = {} /\ Only(Useds(b)')
    BY DEF OneHome, Only
  <2>1. b \in Nat /\ \A l \in Levels : l \in Nat
    BY Pool
  <2>2. Useds(b)' = Useds(b)
    BY <1>12 DEF Useds
  <2>3. t \in Helds(b) <=> Part(b, level) = Part(s, level)
    BY <1>1, <1>2, <1>5 DEF Helds
  <2>4. Helds(b)' = Helds(b) \ {t}
    <3>1. ASSUME NEW u \in Tasks PROVE u \in Helds(b)' <=> u \in Helds(b) /\ u # t
      BY <1>11, <1>12 DEF Helds
    <3> QED
      BY <1>12, <3>1 DEF Helds, Holders
  <2>5. ASSUME NEW l \in Nat, l >= level
        PROVE  Part(b, l) \in {Buddy(Part(s, l)), Part(s, l)}
               <=> Part(b, l) \div 2 = Part(s, l) \div 2
    <3> DEFINE x == Part(b, l)
               y == Part(s, l)
    <3>1. x \in Nat /\ y \in Nat
      BY <2>1, PartIs
    <3> HIDE DEF x, y
    <3>2. x \in {Buddy(y), y} <=> x \div 2 = y \div 2
      BY <3>1, BuddyIs
    <3> QED
      BY <3>2 DEF x, y
  <2>6. CASE Part(b, top) # Part(s, top)
    <3>1. ASSUME NEW l \in Nat, l <= top PROVE Part(b, l) # Part(s, l)
      BY <2>1, <2>6, <3>1, PartNest
    <3>2. ASSUME NEW l \in level .. top - 1
          PROVE  Part(b, l) \notin {Buddy(Part(s, l)), Part(s, l)}
      <4>1. l \in Nat /\ l >= level /\ l + 1 \in Nat /\ l + 1 <= top
        BY <1>3, <1>6
      <4>2. Part(b, l + 1) = Part(b, l) \div 2 /\ Part(s, l + 1) = Part(s, l) \div 2
        BY <2>1, <4>1, PartNext
      <4>3. Part(b, l + 1) # Part(s, l + 1)
        BY <3>1, <4>1
      <4> QED
        BY <2>5, <4>1, <4>2, <4>3
    <3>3. Frees(b)' = Frees(b)
      <4>1. ASSUME NEW l \in Levels PROVE Part(b, l) \in Bits(l)' <=> Part(b, l) \in Bits(l)
        <5>1. CASE l \in level .. top - 1
          BY <1>10, <3>2, <5>1
        <5>2. CASE l = top
          BY <1>10, <2>6, <5>2
        <5>3. CASE l \notin level .. top
          BY <1>10, <5>3
        <5> QED
          BY <1>3, <1>6, <2>1, <5>1, <5>2, <5>3
      <4> QED
        BY <4>1 DEF Frees
    <3>4. Helds(b)' = Helds(b)
      BY <1>3, <1>6, <2>3, <2>4, <3>1
    <3> QED
      BY <2>2, <3>3, <3>4 DEF IInv, OneHome
  <2>7. CASE Part(b, top) = Part(s, top)
    <3>1. PICK m \in level .. top : Meet(b, s, level, m)
      BY <1>3, <1>6, <2>1, <2>7, FirstMeeting
    <3>2. /\ m = level => t \in Helds(b)
          /\ m # level => m - 1 \in Frees(b)
      <4>1. ASSUME m = level PROVE t \in Helds(b)
        BY <1>3, <2>3, <3>1, <4>1 DEF Meet
      <4>2. ASSUME m # level PROVE m - 1 \in Frees(b)
        <5> DEFINE l == m - 1
        <5>1. l \in Nat /\ l >= level /\ l \in level .. top - 1
          BY <1>3, <1>6, <3>1, <4>2
        <5>2. Part(b, l) # Part(s, l) /\ Part(b, l) \div 2 = Part(s, l) \div 2
          BY <3>1, <5>1 DEF Meet
        <5> HIDE DEF l
        <5>3. Part(b, l) = Buddy(Part(s, l))
          BY <2>5, <5>1, <5>2
        <5>4. l \in Frees(b)
          BY <1>6, <5>1, <5>3 DEF Frees
        <5> QED
          BY <5>4 DEF l
      <4> QED
        BY <4>1, <4>2
    <3>3. Useds(b) = {} /\ Helds(b) \subseteq {t} /\ Frees(b) \subseteq {m - 1}
          /\ (m = level => Frees(b) = {})
      BY <3>2 DEF IInv, OneHome, Only
    <3>4. Helds(b)' = {} /\ Useds(b)' = {}
      BY <2>2, <2>4, <3>3
    <3>5. ASSUME NEW l \in Levels PROVE Part(b, l) \in Bits(l)' <=> l = top
      <4>1. Part(b, l) \in Bits(l) => l = m - 1 /\ m # level
        BY <3>3, <3>5 DEF Frees
      <4>2. CASE l \in level .. top - 1
        <5>1. l \in Nat /\ l >= level /\ l # top
          BY <1>3, <1>6, <4>2
        <5>2. l = m - 1 => Part(b, l) \div 2 = Part(s, l) \div 2
          BY <3>1, <5>1 DEF Meet
        <5>3. l = m - 1 => Part(b, l) \in {Buddy(Part(s, l)), Part(s, l)}
          BY <2>5, <5>1, <5>2
        <5> QED
          BY <1>10, <4>1, <4>2, <5>1, <5>3
      <4>3. CASE l = top
        BY <1>10, <2>7, <4>3
      <4>4. CASE l \notin level .. top
        BY <1>3, <1>6, <1>10, <3>1, <4>1, <4>4
      <4> QED
        BY <1>3, <1>6, <2>1, <4>2, <4>3, <4>4
    <3>6. Frees(b)' = {top}
      BY <1>8, <3>5 DEF Frees
    <3> QED
      BY <3>4, <3>6 DEF Only
  <2> QED
    BY <2>6, <2>7
<1>15. NoBuddies'
  <2> SUFFICES ASSUME NEW l \in Levels, NEW o \in Bits(l)' PROVE Buddy(o) \notin Bits(l)'
    BY DEF NoBuddies
  <2>1. \A x \in Bits(l) : Buddy(x) \notin Bits(l)
    BY DEF IInv, NoBuddies
  <2>2. l \in Nat /\ Bits(l) \subseteq Nat
    BY Pool, Room DEF IInv, TypeOK, Bits
  <2>3. CASE l = top
    <3> DEFINE p == Part(s, l)
    <3>1. p \in Nat /\ Buddy(p) \notin Bits(l) /\ Bits(l)' = Bits(l) \cup {p}
      BY <1>6, <1>8, <1>10, <2>2, <2>3, PartIs
    <3> HIDE DEF p
    <3>2. CASE o = p
      BY <3>1, <3>2, BuddyIs
    <3>3. CASE o # p
      <4>1. o \in Bits(l) /\ o \in Nat
        BY <2>2, <3>1, <3>3
      <4>2. Buddy(o) # p
        BY <3>1, <4>1, BuddyIs
      <4> QED
        BY <2>1, <3>1, <4>1, <4>2
    <3> QED
      BY <3>2, <3>3
  <2>4. CASE l # top
    <3>1. l \in level .. top - 1 \/ l \notin level .. top
      BY <1>3, <1>6, <2>2, <2>4
    <3>2. Bits(l)' \subseteq Bits(l)
      BY <1>10, <3>1
    <3> QED
      BY <2>1, <3>2
  <2> QED
    BY <2>3, <2>4
<1>16. TableOK'
  <2>1. \A u \in Tasks : call'[u].step \in {"add", "added"} =>
            /\ call[u].step \in {"add", "added"} /\ Start(u)' = Start(u)
            /\ call'[u].level = call[u].level
    BY <1>11 DEF Start
  <2> QED
    BY <1>12, <2>1 DEF IInv, TableOK
<1>17. HeldFit'
  BY <1>11, <1>12 DEF IInv, HeldFit, Holders, BlockCount
<1>18. UsedFit'
  BY <1>12 DEF IInv, UsedFit
<1> QED
  BY <1>13, <1>14, <1>15, <1>16, <1>17, <1>18 DEF IInv

-----------------------------------------------------------------------------
\* The steps that move no block

\* Of a block in the hands of a call
LEMMA HeldStart ==
    ASSUME IInv, NEW t \in Holders
    PROVE  /\ call[t].level \in Levels /\ call[t].level \in Nat /\ call[t].offset \in Nat
           /\ call[t].level # Unallocated
           /\ Start(t) \in Blocks /\ Part(Start(t), call[t].level) = call[t].offset
           /\ Start(t) \notin live
           /\ \A u \in Holders : Start(u) = Start(t) => u = t
<1>1. \A u \in Holders : /\ call[u].level \in Levels /\ call[u].level \in Nat
                         /\ call[u].offset \in Nat
                         /\ call[u].offset < BlockCount(call[u].level)
  BY Pool DEF IInv, TypeOK, Calls, HeldFit, Holders
<1>2. ASSUME NEW u \in Holders
      PROVE  Start(u) \in Blocks /\ Part(Start(u), call[u].level) = call[u].offset
  <2>1. Start(u) \in Extent(call[u].level, call[u].offset)
    BY <1>1, <1>2, ExtentIs DEF Start
  <2>2. Extent(call[u].level, call[u].offset) \subseteq Blocks
    BY <1>1, <1>2, ExtentIs
  <2> QED
    BY <1>1, <1>2, <2>1, <2>2, ExtentIs, Pool
<1>3. ASSUME NEW u \in Holders PROVE u \in Helds(Start(u))
  BY <1>2, <1>3 DEF Helds
<1>4. Start(t) \notin live
  <2>1. Start(t) \in live => Start(t) \in Useds(Start(t))
    BY DEF Useds
  <2> QED
    BY <1>2, <1>3, <2>1 DEF IInv, OneHome
<1>5. ASSUME NEW u \in Holders, Start(u) = Start(t) PROVE u = t
  <2>1. u \in Helds(Start(t)) /\ t \in Helds(Start(t))
    BY <1>3, <1>5
  <2> QED
    BY <1>2, <2>1 DEF IInv, OneHome, Only
<1> QED
  BY <1>1, <1>2, <1>4, <1>5, LevelAssumption

LEMMA QuietStep ==
    ASSUME IInv, TypeOK', UNCHANGED <<pstBitmapOfLevel, pbAllocatedBlockListIndex, live>>,
           Holders' = Holders,
           \A u \in Holders : call'[u].level = call[u].level
                              /\ call'[u].offset = call[u].offset,
           \A u \in Tasks : call'[u].step \in {"add", "added"}
                            <=> call[u].step \in {"add", "added"}
    PROVE  IInv'
<1>1. \A u \in Tasks : call[u].step \in {"add", "added"} =>
          u \in Holders /\ Start(u)' = Start(u)
  BY DEF Start, Holders
<1>2. Begins' = Begins
  BY <1>1 DEF Begins
<1>3. TableOK'
  BY <1>1, <1>2 DEF IInv, TableOK
<1>4. OneHome'
  <2> SUFFICES ASSUME NEW b \in Blocks
               PROVE  Frees(b)' = Frees(b) /\ Helds(b)' = Helds(b) /\ Useds(b)' = Useds(b)
    BY DEF IInv, OneHome, Only
  <2>1. Frees(b)' = Frees(b) /\ Useds(b)' = Useds(b)
    BY DEF Frees, Useds, Bits
  <2>2. Helds(b)' = Helds(b)
    BY DEF Helds
  <2> QED
    BY <2>1, <2>2
<1>5. NoBuddies' /\ UsedFit'
  BY DEF IInv, NoBuddies, UsedFit, Bits
<1>6. HeldFit'
  BY DEF IInv, HeldFit, BlockCount
<1> QED
  BY <1>3, <1>4, <1>5, <1>6 DEF IInv

LEMMA CallTypes ==
    ASSUME call \in [Tasks -> Calls], NEW t \in Tasks
    PROVE  /\ call[t].used \in Nat /\ BlockSize[call[t].level] \in Nat
           /\ WordSize \in Nat \ {0}
<1>1. WordSize \in Nat \ {0}
  BY PoolAssumption
<1>2. call[t].level \in Levels /\ call[t].used \in 0 .. WordSize - 1
  BY DEF Calls
<1>3. BlockSize[call[t].level] \in Nat
  BY <1>2, Pool, BlockSizes
<1> QED
  BY <1>1, <1>2, <1>3

LEMMA CallSteps ==
    ASSUME IInv, NEW t \in Tasks,
           \/ \E size \in Sizes : Refuse(t, size) \/ Allocate(t, size)
           \/ NoBlock(t) \/ LoadUsed(t) \/ StoreSubtracted(t)
    PROVE  IInv'
<1>1. call \in [Tasks -> Calls] /\ TypeOK
  BY DEF IInv, TypeOK
<1>2. Idle \in Calls
  <2>1. BlockCount(0) = iBlockCountOfSmallestBlock
    BY PartCount, Pool, PartNext
  <2>2. 0 \in Levels /\ 0 \in Blocks /\ 0 \in 0 .. WordSize - 1
    BY <2>1, Pool, PoolAssumption DEF Levels
  <2> QED
    BY <2>2 DEF Idle, Calls
<1>3. ASSUME NEW size \in Sizes, Refuse(t, size) PROVE IInv'
  <2>1. UNCHANGED vars
    BY <1>3 DEF Refuse
  <2>2. TypeOK'
    BY <1>1, <2>1 DEF TypeOK, vars
  <2> QED
    BY <2>1, <2>2, QuietStep DEF vars, Holders
<1>4. ASSUME NEW size \in Sizes, Allocate(t, size) PROVE IInv'
  <2>1. LevelOf(size) \in Levels
    BY <1>4, LevelOfIs DEF Allocate
  <2>2. /\ call' \in [Tasks -> Calls]
        /\ call[t].step = "idle" /\ call'[t].step = "take"
        /\ \A u \in Tasks : u # t => call'[u] = call[u]
    BY <1>1, <1>4, <2>1 DEF Allocate, At, Calls
  <2>3. UNCHANGED <<pstBitmapOfLevel, pbAllocatedBlockListIndex, qwUsedSize, live>>
    BY <1>4 DEF Allocate
  <2>4. TypeOK'
    BY <1>1, <2>2, <2>3 DEF TypeOK
  <2> QED
    BY <2>2, <2>3, <2>4, QuietStep DEF Holders
<1>5. ASSUME NoBlock(t) PROVE IInv'
  <2>1. /\ call' \in [Tasks -> Calls]
        /\ call[t].step = "take" /\ call'[t].step = "idle"
        /\ \A u \in Tasks : u # t => call'[u] = call[u]
    BY <1>1, <1>2, <1>5 DEF NoBlock, At, Return, Idle
  <2>2. UNCHANGED <<pstBitmapOfLevel, pbAllocatedBlockListIndex, qwUsedSize, live>>
    BY <1>5 DEF NoBlock
  <2>3. TypeOK'
    BY <1>1, <2>1, <2>2 DEF TypeOK
  <2> QED
    BY <2>1, <2>2, <2>3, QuietStep DEF Holders
<1>6. ASSUME LoadUsed(t) PROVE IInv'
  <2>1. /\ call' \in [Tasks -> Calls]
        /\ \/ call[t].step = "add" /\ call'[t].step = "added"
           \/ call[t].step = "subtract" /\ call'[t].step = "subtracted"
        /\ call'[t].level = call[t].level /\ call'[t].offset = call[t].offset
        /\ \A u \in Tasks : u # t => call'[u] = call[u]
    <3>1. qwUsedSize \in 0 .. WordSize - 1
      BY <1>1 DEF TypeOK
    <3>2. CASE call[t].step = "add"
      <4>1. call' = [call EXCEPT ![t].used = qwUsedSize, ![t].step = "added"]
        BY <1>6, <3>2 DEF LoadUsed
      <4> QED
        BY <1>1, <3>1, <3>2, <4>1 DEF Calls
    <3>3. CASE call[t].step = "subtract"
      <4>1. call' = [call EXCEPT ![t].used = qwUsedSize, ![t].step = "subtracted"]
        BY <1>6, <3>3 DEF LoadUsed
      <4> QED
        BY <1>1, <3>1, <3>3, <4>1 DEF Calls
    <3> QED
      BY <1>6, <3>2, <3>3 DEF LoadUsed
  <2>2. UNCHANGED <<pstBitmapOfLevel, pbAllocatedBlockListIndex, qwUsedSize, live>>
    BY <1>6 DEF LoadUsed
  <2>3. TypeOK'
    BY <1>1, <2>1, <2>2 DEF TypeOK
  <2>4. Holders' = Holders
    BY <2>1 DEF Holders
  <2>5. \A u \in Tasks : call'[u].step \in {"add", "added"}
                         <=> call[u].step \in {"add", "added"}
    BY <2>1
  <2> QED
    BY <2>1, <2>2, <2>3, <2>4, <2>5, QuietStep DEF Holders
<1>7. ASSUME StoreSubtracted(t) PROVE IInv'
  <2>1. /\ call' \in [Tasks -> Calls]
        /\ call[t].step = "subtracted" /\ call'[t].step = "idle"
        /\ \A u \in Tasks : u # t => call'[u] = call[u]
    BY <1>1, <1>2, <1>7 DEF StoreSubtracted, At, Return, Idle
  <2>2. UNCHANGED <<pstBitmapOfLevel, pbAllocatedBlockListIndex, live>>
    BY <1>7 DEF StoreSubtracted
  <2>3. qwUsedSize' \in 0 .. WordSize - 1
    <3>1. call[t].used \in Nat /\ BlockSize[call[t].level] \in Nat /\ WordSize \in Nat \ {0}
      BY <1>1, CallTypes
    <3>2. qwUsedSize' = (call[t].used - BlockSize[call[t].level]) % WordSize
      BY <1>7 DEF StoreSubtracted
    <3> QED
      BY <3>1, <3>2
  <2>4. TypeOK'
    BY <1>1, <2>1, <2>2, <2>3 DEF TypeOK
  <2> QED
    BY <2>1, <2>2, <2>4, QuietStep DEF Holders
<1> QED
  BY <1>3, <1>4, <1>5, <1>6, <1>7

LEMMA EnterSizeStep ==
    ASSUME IInv, NEW t \in Tasks, EnterSize(t) PROVE IInv'
<1>1. call \in [Tasks -> Calls] /\ call[t].step = "enter" /\ t \in Holders
  BY DEF IInv, TypeOK, EnterSize, At, Holders
<1>2. PICK s \in Blocks : s = Start(t)
  BY <1>1, HeldStart
<1>3. /\ call' \in [Tasks -> Calls] /\ call'[t].step = "add"
      /\ call'[t].level = call[t].level /\ call'[t].offset = call[t].offset
      /\ \A u \in Tasks : u # t => call'[u] = call[u]
  <2>1. call' = [call EXCEPT ![t].step = "add"]
    BY DEF EnterSize, Go
  <2> QED
    BY <1>1, <2>1 DEF Calls
<1>4. Holders' = Holders /\ \A u \in Tasks : Start(u)' = Start(u)
  BY <1>1, <1>3 DEF Holders, Start
<1>5. UNCHANGED <<pstBitmapOfLevel, qwUsedSize, live>>
  BY DEF EnterSize
<1>6. /\ s \notin live /\ call[t].level \in Levels /\ call[t].level # Unallocated
      /\ \A u \in Holders : Start(u) = s => u = t
  BY <1>1, <1>2, HeldStart
<1>7. /\ pbAllocatedBlockListIndex' \in [Blocks -> Levels \cup {Unallocated}]
      /\ pbAllocatedBlockListIndex'[s] = call[t].level
      /\ \A b \in Blocks : b # s =>
             pbAllocatedBlockListIndex'[b] = pbAllocatedBlockListIndex[b]
  BY <1>2, <1>6 DEF EnterSize, IInv, TypeOK
<1>8. live \subseteq Blocks
  BY DEF IInv, TypeOK
<1>9. TypeOK'
  BY <1>3, <1>5, <1>7 DEF IInv, TypeOK
<1>10. OneHome'
  <2> SUFFICES ASSUME NEW b \in Blocks
               PROVE  Frees(b)' = Frees(b) /\ Helds(b)' = Helds(b) /\ Useds(b)' = Useds(b)
    BY DEF IInv, OneHome, Only
  <2>1. Frees(b)' = Frees(b)
    BY <1>5 DEF Frees, Bits
  <2>2. Helds(b)' = Helds(b)
    <3>1. \A u \in Tasks : call'[u].level = call[u].level /\ call'[u].offset = call[u].offset
      BY <1>3
    <3> QED
      BY <1>4, <3>1 DEF Helds, Holders
  <2>3. Useds(b)' = Useds(b)
    <3>1. \A a \in live : pbAllocatedBlockListIndex'[a] = pbAllocatedBlockListIndex[a]
      BY <1>6, <1>7, <1>8
    <3> QED
      BY <1>5, <3>1 DEF Useds
  <2> QED
    BY <2>1, <2>2, <2>3
<1>11. NoBuddies' /\ HeldFit'
  <2>1. NoBuddies'
    BY <1>5 DEF IInv, NoBuddies, Bits
  <2>2. \A u \in Tasks : call'[u].level = call[u].level /\ call'[u].offset = call[u].offset
    BY <1>3
  <2> QED
    BY <1>4, <2>1, <2>2 DEF IInv, HeldFit, BlockCount, Holders
<1>12. UsedFit'
  BY <1>5, <1>6, <1>7, <1>8 DEF IInv, UsedFit, BlockCount
<1>13. TableOK'
  <2>1. Begins' = Begins \cup {s}
    BY <1>1, <1>2, <1>3, <1>4, <1>5 DEF Begins
  <2>2. {b \in Blocks : pbAllocatedBlockListIndex[b] # Unallocated} = Begins
    BY DEF IInv, TableOK
  <2>3. {b \in Blocks : pbAllocatedBlockListIndex'[b] # Unallocated} = Begins \cup {s}
    BY <1>6, <1>7, <2>2
  <2>4. ASSUME NEW u \in Tasks, call'[u].step \in {"add", "added"}
        PROVE  pbAllocatedBlockListIndex'[Start(u)'] = call'[u].level
    <3>1. CASE u = t
      BY <1>2, <1>3, <1>4, <1>7, <3>1
    <3>2. CASE u # t
      <4>1. call[u].step \in {"add", "added"} /\ u \in Holders
        BY <1>3, <2>4, <3>2 DEF Holders
      <4>2. Start(u) \in Blocks /\ Start(u) # s
        BY <1>6, <3>2, <4>1, HeldStart
      <4>3. pbAllocatedBlockListIndex[Start(u)] = call[u].level
        BY <4>1 DEF IInv, TableOK
      <4> QED
        BY <1>3, <1>4, <1>7, <3>2, <4>2, <4>3
    <3> QED
      BY <3>1, <3>2
  <2> QED
    BY <2>1, <2>3, <2>4 DEF TableOK
<1> QED
  BY <1>9, <1>10, <1>11, <1>12, <1>13 DEF IInv

\* Returning an address: the block is in use instead of in the call's hands.
LEMMA StoreAddedStep ==
    ASSUME IInv, NEW t \in Tasks, StoreAdded(t) PROVE IInv'
<1>1. call \in [Tasks -> Calls] /\ call[t].step = "added" /\ t \in Holders
  BY DEF IInv, TypeOK, StoreAdded, At, Holders
<1>2. PICK s \in Blocks, level \in Levels, offset \in Nat :
          s = Start(t) /\ level = call[t].level /\ offset = call[t].offset
  BY <1>1, HeldStart
<1>3. /\ s \notin live /\ pbAllocatedBlockListIndex[s] = level
      /\ Part(s, level) = offset
      /\ s = Part(s, level) * BlockSize[level]
      /\ Part(s, level) < BlockCount(level)
  <2>1. s \notin live /\ Part(s, level) = offset
    BY <1>1, <1>2, HeldStart
  <2>2. pbAllocatedBlockListIndex[s] = level
    BY <1>1, <1>2 DEF IInv, TableOK
  <2>3. s = offset * BlockSize[level]
    BY <1>2 DEF Start
  <2>4. offset < BlockCount(level)
    BY <1>1, <1>2 DEF IInv, HeldFit
  <2> QED
    BY <2>1, <2>2, <2>3, <2>4
<1>4. /\ call' \in [Tasks -> Calls] /\ call'[t].step = "idle"
      /\ \A u \in Tasks : u # t => call'[u] = call[u]
  <2>1. call' = [call EXCEPT ![t] = Idle]
    BY DEF StoreAdded, Return
  <2>2. Idle \in Calls
    <3>1. BlockCount(0) = iBlockCountOfSmallestBlock
      BY PartCount, Pool, PartNext
    <3>2. 0 \in Levels /\ 0 \in Blocks /\ 0 \in 0 .. WordSize - 1
      BY <3>1, Pool, PoolAssumption DEF Levels
    <3> QED
      BY <3>2 DEF Idle, Calls
  <2> QED
    BY <1>1, <2>1, <2>2 DEF Idle
<1>5. Holders' = Holders \ {t} /\ \A u \in Tasks : u # t => Start(u)' = Start(u)
  BY <1>1, <1>4 DEF Holders, Start
<1>6. UNCHANGED <<pstBitmapOfLevel, pbAllocatedBlockListIndex>> /\ live' = live \cup {s}
  BY <1>2 DEF StoreAdded
<1>7. TypeOK'
  <2>1. qwUsedSize' \in 0 .. WordSize - 1
    <3>1. call[t].used \in Nat /\ BlockSize[call[t].level] \in Nat /\ WordSize \in Nat \ {0}
      BY <1>1, CallTypes
    <3>2. qwUsedSize' = (call[t].used + BlockSize[call[t].level]) % WordSize
      BY DEF StoreAdded
    <3> QED
      BY <3>1, <3>2
  <2> QED
    BY <1>2, <1>4, <1>6, <2>1 DEF IInv, TypeOK
<1>8. OneHome'
  <2> SUFFICES ASSUME NEW b \in Blocks
               PROVE  \/ Only(Frees(b)') /\ Helds(b)' = {} /\ Useds(b)' = {}
                      \/ Frees(b)' = {} /\ Only(Helds(b)') /\ Useds(b)' = {}
                      \/ Frees(b)' = {} /\ Helds(b)' = {} /\ Only(Useds(b)')
    BY DEF OneHome, Only
  <2>1. Frees(b)' = Frees(b)
    BY <1>6 DEF Frees, Bits
  <2>2. Helds(b)' = Helds(b) \ {t}
    <3>1. \A u \in Tasks : u \in Helds(b)' <=> u \in Helds(b) /\ u # t
      BY <1>4, <1>5 DEF Helds
    <3> QED
      BY <1>5, <3>1 DEF Helds, Holders
  <2>3. t \in Helds(b) <=> Part(b, level) = offset
    BY <1>1, <1>2 DEF Helds
  <2>4. Useds(b)' = Useds(b) \cup IF Part(b, level) = offset THEN {s} ELSE {}
    <3>1. ASSUME NEW a PROVE a \in Useds(b)' <=>
              a \in Useds(b) \/ (a = s /\ Part(b, level) = offset)
      BY <1>3, <1>6 DEF Useds
    <3> QED
      BY <3>1
  <2>5. CASE t \in Helds(b)
    <3>1. Frees(b) = {} /\ Helds(b) = {t} /\ Useds(b) = {}
      BY <2>5 DEF IInv, OneHome, Only
    <3> QED
      BY <2>1, <2>2, <2>3, <2>4, <2>5, <3>1 DEF Only
  <2>6. CASE t \notin Helds(b)
    <3>1. Helds(b)' = Helds(b) /\ Useds(b)' = Useds(b)
      BY <2>2, <2>3, <2>4, <2>6
    <3> QED
      BY <2>1, <3>1 DEF IInv, OneHome
  <2> QED
    BY <2>5, <2>6
<1>9. NoBuddies' /\ HeldFit'
  <2>1. NoBuddies'
    BY <1>6 DEF IInv, NoBuddies, Bits
  <2> QED
    BY <1>4, <1>5, <2>1 DEF IInv, HeldFit, BlockCount, Holders
<1>10. UsedFit'
  BY <1>3, <1>6 DEF IInv, UsedFit, BlockCount
<1>11. TableOK'
  <2>1. \A u \in Tasks : call'[u].step \in {"add", "added"}
                         <=> call[u].step \in {"add", "added"} /\ u # t
    BY <1>4
  <2>2. Begins' = Begins
    <3>1. \A x : x \in Begins' <=> x \in live \/ x = s \/
              \E u \in Tasks : call[u].step \in {"add", "added"} /\ u # t /\ x = Start(u)
      BY <1>5, <1>6, <2>1 DEF Begins
    <3>2. \A x : x \in Begins <=> x \in live \/
              \E u \in Tasks : call[u].step \in {"add", "added"} /\ x = Start(u)
      BY DEF Begins
    <3>3. \A x : x \in Begins' <=> x \in Begins
      BY <1>1, <1>2, <3>1, <3>2
    <3> QED
      BY <3>3
  <2>3. \A u \in Tasks : u # t => call'[u] = call[u] /\ Start(u)' = Start(u)
    BY <1>4, <1>5
  <2> QED
    BY <1>6, <2>1, <2>2, <2>3 DEF IInv, TableOK
<1> QED
  BY <1>7, <1>8, <1>9, <1>10, <1>11 DEF IInv

\* Giving an address back: the block is in the call's hands instead of in use.
LEMMA FreeStep ==
    ASSUME IInv, NEW t \in Tasks, NEW s \in live, Free(t, s) PROVE IInv'
<1>1. call \in [Tasks -> Calls] /\ call[t].step = "idle" /\ t \notin Holders
      /\ live \subseteq Blocks
  BY DEF IInv, TypeOK, Free, At, Holders
<1>2. PICK level \in Levels : level = pbAllocatedBlockListIndex[s]
  BY DEF IInv, UsedFit
<1>3. PICK offset \in Nat : offset = Part(s, level)
  BY <1>1, PartIs, Pool
<1>4. offset < BlockCount(level) /\ s \in Blocks /\ offset \in Blocks
  <2>1. offset < BlockCount(level)
    BY <1>2, <1>3 DEF IInv, UsedFit
  <2>2. BlockCount(level) \in Nat /\ BlockCount(level) <= iBlockCountOfSmallestBlock
    BY Pool, Room
  <2> QED
    BY <1>1, <2>1, <2>2, Pool
<1>5. /\ call' \in [Tasks -> Calls] /\ call'[t].step = "give"
      /\ call'[t].level = level /\ call'[t].offset = offset
      /\ \A u \in Tasks : u # t => call'[u] = call[u]
  <2>1. call' = [call EXCEPT ![t].step = "give", ![t].level = level, ![t].offset = offset]
    BY <1>2, <1>3 DEF Free, Part
  <2> QED
    BY <1>1, <1>4, <2>1 DEF Calls
<1>6. Holders' = Holders \cup {t} /\ \A u \in Tasks : u # t => Start(u)' = Start(u)
  BY <1>1, <1>5 DEF Holders, Start
<1>7. UNCHANGED <<pstBitmapOfLevel, qwUsedSize>> /\ live' = live \ {s}
  BY DEF Free
<1>8. /\ pbAllocatedBlockListIndex' \in [Blocks -> Levels \cup {Unallocated}]
      /\ pbAllocatedBlockListIndex'[s] = Unallocated
      /\ \A b \in Blocks : b # s =>
             pbAllocatedBlockListIndex'[b] = pbAllocatedBlockListIndex[b]
  BY <1>4 DEF Free, IInv, TypeOK
<1>9. TypeOK'
  BY <1>5, <1>7, <1>8 DEF IInv, TypeOK
<1>10. OneHome'
  <2> SUFFICES ASSUME NEW b \in Blocks
               PROVE  \/ Only(Frees(b)') /\ Helds(b)' = {} /\ Useds(b)' = {}
                      \/ Frees(b)' = {} /\ Only(Helds(b)') /\ Useds(b)' = {}
                      \/ Frees(b)' = {} /\ Helds(b)' = {} /\ Only(Useds(b)')
    BY DEF OneHome, Only
  <2>1. Frees(b)' = Frees(b)
    BY <1>7 DEF Frees, Bits
  <2>2. Helds(b)' = Helds(b) \cup IF Part(b, level) = offset THEN {t} ELSE {}
    <3>1. \A u \in Tasks : u # t => (u \in Helds(b)' <=> u \in Helds(b))
      BY <1>5, <1>6 DEF Helds
    <3>2. (t \in Helds(b)' <=> Part(b, level) = offset) /\ t \notin Helds(b)
      BY <1>1, <1>5, <1>6 DEF Helds
    <3>3. Helds(b)' \subseteq Tasks /\ Helds(b) \subseteq Tasks
      BY <1>6 DEF Helds, Holders
    <3> QED
      BY <3>1, <3>2, <3>3
  <2>3. s \in Useds(b) <=> Part(b, level) = offset
    BY <1>2, <1>3 DEF Useds
  <2>4. Useds(b)' = Useds(b) \ {s}
    BY <1>1, <1>7, <1>8 DEF Useds
  <2>5. CASE s \in Useds(b)
    <3>1. Frees(b) = {} /\ Helds(b) = {} /\ Useds(b) = {s}
      BY <2>5 DEF IInv, OneHome, Only
    <3> QED
      BY <2>1, <2>2, <2>3, <2>4, <2>5, <3>1 DEF Only
  <2>6. CASE s \notin Useds(b)
    <3>1. Helds(b)' = Helds(b) /\ Useds(b)' = Useds(b)
      BY <2>2, <2>3, <2>4, <2>6
    <3> QED
      BY <2>1, <3>1 DEF IInv, OneHome
  <2> QED
    BY <2>5, <2>6
<1>11. NoBuddies'
  BY <1>7 DEF IInv, NoBuddies, Bits
<1>12. HeldFit'
  <2>1. ASSUME NEW u \in Holders' PROVE (call[u].offset < BlockCount(call[u].level))'
    BY <1>4, <1>5, <1>6 DEF IInv, HeldFit, Holders, BlockCount
  <2> QED
    BY <2>1 DEF HeldFit
<1>13. UsedFit'
  BY <1>1, <1>7, <1>8 DEF IInv, UsedFit, BlockCount
<1>14. TableOK'
  <2>1. \A u \in Tasks : call'[u].step \in {"add", "added"} =>
            u # t /\ u \in Holders /\ call'[u] = call[u] /\ Start(u)' = Start(u)
            /\ call[u].step \in {"add", "added"}
    BY <1>5, <1>6 DEF Holders
  <2>2. \A u \in Tasks : call[u].step \in {"add", "added"} =>
            /\ u # t /\ u \in Holders /\ call'[u] = call[u] /\ Start(u)' = Start(u)
            /\ Start(u) # s /\ Start(u) \in Blocks
    BY <1>1, <1>5, <1>6, HeldStart DEF Holders
  <2>3. Begins' = Begins \ {s}
    <3>1. \A x : x \in Begins' <=> (x \in live /\ x # s) \/
              \E u \in Tasks : call[u].step \in {"add", "added"} /\ x = Start(u)
      BY <1>7, <2>1, <2>2 DEF Begins
    <3>2. \A x : x \in Begins <=> x \in live \/
              \E u \in Tasks : call[u].step \in {"add", "added"} /\ x = Start(u)
      BY DEF Begins
    <3>3. \A x : x \in Begins' <=> x \in Begins /\ x # s
      BY <2>2, <3>1, <3>2
    <3> QED
      BY <3>3
  <2>4. {b \in Blocks : pbAllocatedBlockListIndex[b] # Unallocated} = Begins
    BY DEF IInv, TableOK
  <2>5. {b \in Blocks : pbAllocatedBlockListIndex'[b] # Unallocated} = Begins \ {s}
    BY <1>8, <2>4
  <2> QED
    BY <1>8, <2>1, <2>2, <2>3, <2>5 DEF IInv, TableOK
<1> QED
  BY <1>9, <1>10, <1>11, <1>12, <1>13, <1>14 DEF IInv

LEMMA NextIInv == IInv /\ [Next]_vars => IInv'
<1> SUFFICES ASSUME IInv, [Next]_vars PROVE IInv'
  OBVIOUS
<1>1. CASE UNCHANGED vars
  <2>1. TypeOK'
    BY <1>1 DEF IInv, TypeOK, vars
  <2> QED
    BY <1>1, <2>1, QuietStep DEF vars, Holders
<1>2. CASE Next
  <2>1. PICK t \in Tasks :
            \/ \E size \in Sizes : Refuse(t, size) \/ Allocate(t, size)
            \/ TakeBlock(t) \/ NoBlock(t) \/ EnterSize(t) \/ StoreAdded(t)
            \/ \E address \in live : Free(t, address)
            \/ GiveBlock(t) \/ StoreSubtracted(t) \/ LoadUsed(t)
    BY <1>2 DEF Next
  <2> QED
    BY <2>1, CallSteps, TakeBlockStep, EnterSizeStep, StoreAddedStep, FreeStep,
       GiveBlockStep
<1> QED
  BY <1>1, <1>2

LEMMA SpecIInv == Spec => []IInv
BY InitIInv, NextIInv, PTL DEF Spec

-----------------------------------------------------------------------------
\* What the invariant says of the allocator

\* The sets of EveryBlockOnce, by their homes
LEMMA HomesAre ==
    ASSUME IInv, NEW b \in Blocks
    PROVE  /\ {e \in FreeExtents : b \in e} = {Extent(l, Part(b, l)) : l \in Frees(b)}
           /\ {t \in Holders : b \in HeldBy(t)} = Helds(b)
           /\ {a \in live : b \in InUse(a)} = Useds(b)
<1>1. b \in Nat
  BY Pool
<1>2. ASSUME NEW l \in Levels, NEW o \in Bits(l)
      PROVE  l \in Nat /\ o \in Nat /\ (b \in Extent(l, o) <=> Part(b, l) = o)
  <2>1. l \in Nat /\ o \in Nat
    BY Pool, Room DEF IInv, TypeOK, Bits
  <2> QED
    BY <1>1, <2>1, ExtentIs
<1>3. ASSUME NEW e
      PROVE  e \in {x \in FreeExtents : b \in x}
             <=> e \in {Extent(l, Part(b, l)) : l \in Frees(b)}
  <2>1. ASSUME e \in FreeExtents, b \in e PROVE \E l \in Frees(b) : e = Extent(l, Part(b, l))
    <3>1. PICK l \in Levels : e \in {Extent(l, o) : o \in Bits(l)}
      BY <2>1 DEF FreeExtents, Bits
    <3>2. PICK o \in Bits(l) : e = Extent(l, o)
      BY <3>1
    <3>3. Part(b, l) = o
      BY <1>2, <2>1, <3>2
    <3> QED
      BY <3>2, <3>3 DEF Frees
  <2>2. ASSUME NEW l \in Frees(b), e = Extent(l, Part(b, l))
        PROVE  e \in FreeExtents /\ b \in e
    <3>1. l \in Levels /\ Part(b, l) \in Bits(l)
      BY <2>2 DEF Frees
    <3>2. b \in e
      BY <1>2, <2>2, <3>1
    <3>3. e \in {Extent(l, o) : o \in Bits(l)}
      BY <2>2, <3>1
    <3> QED
      BY <3>1, <3>2, <3>3 DEF FreeExtents, Bits
  <2> QED
    BY <2>1, <2>2
<1>4. ASSUME NEW t \in Holders PROVE b \in HeldBy(t) <=> t \in Helds(b)
  <2>1. call[t].level \in Nat /\ call[t].offset \in Nat
    BY HeldStart
  <2> QED
    BY <1>1, <2>1, ExtentIs DEF HeldBy, Helds
<1>5. ASSUME NEW a \in live PROVE b \in InUse(a) <=> a \in Useds(b)
  <2> DEFINE level == pbAllocatedBlockListIndex[a]
             o == Part(a, level)
             p == BlockSize[level]
  <2>1. level \in Nat /\ a = o * p /\ o \in Nat /\ p \in Nat /\ a \in Nat
    BY Pool, BlockSizes, PartIs DEF IInv, TypeOK, UsedFit
  <2>2. b \in Extent(level, o) <=> Part(b, level) = o
    BY <1>1, <2>1, ExtentIs
  <2>3. Extent(level, o) = InUse(a)
    <3>1. Extent(level, o) = o * p .. (o + 1) * p - 1 /\ InUse(a) = a .. a + p - 1
      BY DEF Extent, InUse
    <3> HIDE DEF o, p, level
    <3>2. (o + 1) * p = o * p + p
      BY <2>1
    <3> QED
      BY <2>1, <3>1, <3>2
  <2> QED
    BY <2>2, <2>3 DEF Useds
<1>6. {e \in FreeExtents : b \in e} = {Extent(l, Part(b, l)) : l \in Frees(b)}
  BY <1>3
<1> QED
  BY <1>4, <1>5, <1>6 DEF Helds, Useds

LEMMA IInvEveryBlockOnce == IInv => EveryBlockOnce
<1> SUFFICES ASSUME IInv PROVE EveryBlockOnce
  OBVIOUS
<1>1. ASSUME NEW b \in Blocks
      PROVE  Cardinality({e \in FreeExtents : b \in e})
             + Cardinality({t \in Holders : b \in HeldBy(t)})
             + Cardinality({a \in live : b \in InUse(a)}) = 1
  <2>1. Cardinality({}) = 0 /\ \A x : Cardinality({x}) = 1
    BY FS_EmptySet, FS_Singleton
  <2> DEFINE F == {Extent(l, Part(b, l)) : l \in Frees(b)}
  <2>2. Cardinality(F) + Cardinality(Helds(b)) + Cardinality(Useds(b)) = 1
    <3>1. CASE Only(Frees(b)) /\ Helds(b) = {} /\ Useds(b) = {}
      <4>1. PICK l : Frees(b) = {l}
        BY <3>1 DEF Only
      <4>2. F = {Extent(l, Part(b, l))}
        BY <4>1
      <4>3. Cardinality(F) = 1 /\ Cardinality(Helds(b)) = 0 /\ Cardinality(Useds(b)) = 0
        BY <2>1, <3>1, <4>2
      <4> HIDE DEF F
      <4> QED
        BY <4>3
    <3>2. CASE Frees(b) = {} /\ Only(Helds(b)) /\ Useds(b) = {}
      <4>1. F = {}
        BY <3>2
      <4>2. Cardinality(F) = 0 /\ Cardinality(Helds(b)) = 1 /\ Cardinality(Useds(b)) = 0
        BY <2>1, <3>2, <4>1 DEF Only
      <4> HIDE DEF F
      <4> QED
        BY <4>2
    <3>3. CASE Frees(b) = {} /\ Helds(b) = {} /\ Only(Useds(b))
      <4>1. F = {}
        BY <3>3
      <4>2. Cardinality(F) = 0 /\ Cardinality(Helds(b)) = 0 /\ Cardinality(Useds(b)) = 1
        BY <2>1, <3>3, <4>1 DEF Only
      <4> HIDE DEF F
      <4> QED
        BY <4>2
    <3> QED
      BY <3>1, <3>2, <3>3 DEF IInv, OneHome
  <2> QED
    BY <2>2, HomesAre
<1> QED
  BY <1>1 DEF IInv, TableOK, EveryBlockOnce

\* A block of any level with nothing but free parts is part of a free block that
\* is as large or larger: free buddies have always been joined.
LEMMA RoomIsJoined ==
    ASSUME IInv, NEW k \in Nat, NEW o \in Nat, o < BlockCount(k),
           \A b \in Nat : Part(b, k) = o => Frees(b) # {}
    PROVE  \E l \in Levels : /\ l >= k
                             /\ \A b \in Nat : Part(b, k) = o => Part(b, l) \in Bits(l)
<1> DEFINE Joins(n, x) ==
               (\A b \in Nat : Part(b, n) = x => Frees(b) # {})
               => \E l \in Levels : /\ l >= n
                                    /\ \A b \in Nat : Part(b, n) = x => Part(b, l) \in Bits(l)
           S == {n \in Nat : \A x \in Nat : x < BlockCount(n) => Joins(n, x)}
<1>1. \A l \in Levels : l \in Nat /\ Bits(l) \subseteq Nat
  BY Pool, Room DEF IInv, TypeOK, Bits
<1>2. 0 \in S
  <2> SUFFICES ASSUME NEW x \in Nat, \A b \in Nat : Part(b, 0) = x => Frees(b) # {}
               PROVE  \E l \in Levels : /\ l >= 0
                                        /\ \A b \in Nat : Part(b, 0) = x => Part(b, l) \in Bits(l)
    OBVIOUS
  <2>1. \A b \in Nat : Part(b, 0) = b
    BY PartNext
  <2>2. PICK l \in Frees(x) : TRUE
    BY <2>1
  <2> QED
    BY <1>1, <2>1, <2>2 DEF Frees
<1>3. ASSUME NEW n \in S PROVE n + 1 \in S
  <2> SUFFICES ASSUME NEW x \in Nat, x < BlockCount(n + 1),
                      \A b \in Nat : Part(b, n + 1) = x => Frees(b) # {}
               PROVE  \E l \in Levels :
                          /\ l >= n + 1
                          /\ \A b \in Nat : Part(b, n + 1) = x => Part(b, l) \in Bits(l)
    OBVIOUS
  <2> DEFINE c == BlockCount(n)
             even == 2 * x
             odd == 2 * x + 1
  <2>1. /\ even \in Nat /\ odd \in Nat /\ odd = even + 1
        /\ even < BlockCount(n) /\ odd < BlockCount(n)
    <3>1. c \in Nat /\ x < c \div 2
      BY Room, PartCount
    <3> HIDE DEF c
    <3>2. 2 * x + 1 < c
      BY <3>1
    <3> QED
      BY <3>1, <3>2 DEF c
  <2>2. \A b \in Nat : /\ Part(b, n) \in Nat
                       /\ Part(b, n + 1) = x <=> Part(b, n) \in {even, odd}
    <3>1. ASSUME NEW b \in Nat PROVE Part(b, n + 1) = x <=> Part(b, n) \in {even, odd}
      <4>1. Part(b, n) \in Nat /\ Part(b, n + 1) = Part(b, n) \div 2
        BY PartIs, PartNext
      <4> QED
        BY <4>1
    <3> QED
      BY <3>1, PartIs
  <2>3. \A y \in {even, odd} : \E l \in Levels :
            l >= n /\ \A b \in Nat : Part(b, n) = y => Part(b, l) \in Bits(l)
    BY <2>1, <2>2
  <2>4. ASSUME NEW y \in {even, odd}, NEW l \in Levels, l >= n + 1,
               \A b \in Nat : Part(b, n) = y => Part(b, l) \in Bits(l)
        PROVE  \A b \in Nat : Part(b, n + 1) = x => Part(b, l) \in Bits(l)
    <3>1. PICK d \in Nat : Part(d, n) = y
      <4>1. y \in Nat /\ y * BlockSize[n] \in Nat
        BY <2>1, BlockSizes
      <4>2. y * BlockSize[n] \in Extent(n, y)
        BY <4>1, ExtentIs
      <4> QED
        BY <4>1, <4>2, ExtentIs
    <3>2. Part(d, l) \in Bits(l) /\ Part(d, n + 1) = x
      BY <2>2, <2>4, <3>1
    <3>3. ASSUME NEW b \in Nat, Part(b, n + 1) = x PROVE Part(b, l) = Part(d, l)
      BY <1>1, <2>4, <3>2, <3>3, PartNest
    <3> QED
      BY <3>2, <3>3
  <2>5. PICK l \in Levels :
            l >= n /\ \A b \in Nat : Part(b, n) = even => Part(b, l) \in Bits(l)
    BY <2>3
  <2>6. PICK m \in Levels :
            m >= n /\ \A b \in Nat : Part(b, n) = odd => Part(b, m) \in Bits(m)
    BY <2>3
  <2>7. CASE l >= n + 1
    BY <2>4, <2>5, <2>7
  <2>8. CASE m >= n + 1
    BY <2>4, <2>6, <2>8
  <2>9. CASE l = n /\ m = n
    <3>1. \A y \in {even, odd} : \E d \in Nat : Part(d, n) = y
      <4> SUFFICES ASSUME NEW y \in {even, odd} PROVE \E d \in Nat : Part(d, n) = y
        OBVIOUS
      <4>1. y \in Nat /\ y * BlockSize[n] \in Nat
        BY <2>1, BlockSizes
      <4>2. y * BlockSize[n] \in Extent(n, y)
        BY <4>1, ExtentIs
      <4> QED
        BY <4>1, <4>2, ExtentIs
    <3>2. even \in Bits(n) /\ odd \in Bits(n)
      BY <2>5, <2>6, <2>9, <3>1
    <3>3. Buddy(even) = odd
      BY <2>1, BuddyIs
    <3> QED
      BY <2>9, <3>2, <3>3 DEF IInv, NoBuddies
  <2> QED
    BY <1>1, <2>5, <2>6, <2>7, <2>8, <2>9
<1> HIDE DEF S
<1>4. S = Nat
  BY <1>2, <1>3, NaturalInduction DEF S
<1> QED
  BY <1>4 DEF S

LEMMA NoBlockNoRoom ==
    ASSUME IInv, NEW t \in Tasks, NoBlock(t),
           NEW offset \in 0 .. BlockCount(call[t].level) - 1
    PROVE  \E b \in Extent(call[t].level, offset) : ~IsFree(b)
<1>1. PICK k \in Levels : k = call[t].level
  BY DEF IInv, TypeOK, Calls
<1>2. k \in Nat /\ offset \in Nat /\ offset < BlockCount(k)
  <2>1. k \in Nat /\ BlockCount(k) \in Nat
    BY Pool, Room
  <2> QED
    BY <1>1, <2>1
<1> SUFFICES ASSUME \A b \in Extent(k, offset) : IsFree(b) PROVE FALSE
  BY <1>1
<1>3. /\ Extent(k, offset) \subseteq Blocks /\ offset * BlockSize[k] \in Extent(k, offset)
      /\ \A b \in Nat : b \in Extent(k, offset) <=> Part(b, k) = offset
  BY <1>2, ExtentIs
<1>4. ASSUME NEW b \in Nat, Part(b, k) = offset PROVE Frees(b) # {}
  <2>1. b \in Blocks /\ IsFree(b)
    BY <1>3, <1>4
  <2>2. {e \in FreeExtents : b \in e} # {}
    BY <2>1 DEF IsFree
  <2> QED
    BY <2>1, <2>2, HomesAre
<1>5. PICK l \in Levels : /\ l >= k
                          /\ \A b \in Nat : Part(b, k) = offset => Part(b, l) \in Bits(l)
  BY <1>2, <1>4, RoomIsJoined
<1>6. offset * BlockSize[k] \in Nat
  BY <1>2, BlockSizes
<1>7. Bits(l) # {}
  BY <1>3, <1>5, <1>6
<1>8. l \in Sources(k)
  BY <1>5, <1>7, FreeBlocksAre DEF Sources, IInv
<1> QED
  BY <1>1, <1>8 DEF NoBlock

-----------------------------------------------------------------------------
\* The allocator's bitmaps, counts, table of sizes and calls always have their
\* types: kSetFlagInBitmap never leaves a count that is not the number of bits, and
\* kAllocationBuddyBlock and kFreeBuddyBlock set no bit beyond the end of a level.
THEOREM SpecTypeOK == Spec => []TypeOK
<1>1. IInv => TypeOK
  BY DEF IInv
<1> QED
  BY <1>1, SpecIInv, PTL

\* Every smallest block is at all times part of exactly one block: a free one, one
\* in the hands of a call of kAllocateMemory or kFreeMemory, or one in use; and the
\* table of sizes has an entry exactly where a block begins.  No memory is given
\* twice and none is lost, for any pool and any number of tasks, though the table
\* is kept outside the lock.
THEOREM SpecEveryBlockOnce == Spec => []EveryBlockOnce
BY SpecIInv, IInvEveryBlockOnce, PTL

\* kAllocationBuddyBlock finds no block only where no aligned run of free memory is
\* as large as the one asked for: kFreeBuddyBlock joins whatever can be joined.
THEOREM SpecRefusedOnlyWithoutRoom == Spec => RefusedOnlyWithoutRoom
<1>1. IInv /\ [Next]_vars =>
          [\A t \in Tasks : NoBlock(t) =>
               \A offset \in 0 .. BlockCount(call[t].level) - 1 :
                   \E block \in Extent(call[t].level, offset) : ~IsFree(block)]_vars
  BY NoBlockNoRoom
<1> QED
  BY <1>1, SpecIInv, PTL DEF Spec, RefusedOnlyWithoutRoom
=============================================================================
