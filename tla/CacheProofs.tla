----------------------------- MODULE CacheProofs -----------------------------
(***************************************************************************)
(* The cache in front of the disk, for any number of buffers, sectors and  *)
(* access times: its types, that to its readers the cache and the disk are *)
(* one store, and that what is evicted was not used for longest.           *)
(***************************************************************************)
EXTENDS Cache, FiniteSetTheorems, WellFoundedInduction, TLAPS

-----------------------------------------------------------------------------
\* The inductive invariant

Entries == [dwTag : Tags \cup {CACHE_INVALIDTAG}, dwAccessTime : 0 .. WordSize - 2,
            bChanged : BOOLEAN, data : Data]

Valid(e) == e.dwTag # CACHE_INVALIDTAG

\* No sector has two buffers.
TagsOnce(b) ==
    \A i, j \in Buffers : b[i].dwTag = b[j].dwTag /\ Valid(b[i]) => i = j

\* What was not changed is on the disk as in its buffer.
CleanIsThere(b) == ~torn =>
    \A i \in Buffers : Valid(b[i]) /\ ~b[i].bChanged =>
        b[i].data = disk[Address(b[i].dwTag)]

\* The access times are in the order of use, and lie in the past.
TimesAgree(b, time) ==
    /\ \A i \in Buffers : Valid(b[i]) => b[i].dwAccessTime < time
    /\ \A i, j \in Buffers : Valid(b[i]) /\ Valid(b[j]) /\ i # j =>
        \/ /\ b[i].dwAccessTime < b[j].dwAccessTime
           /\ <<b[i].dwTag, b[j].dwTag>> \in recent
        \/ /\ b[j].dwAccessTime < b[i].dwAccessTime
           /\ <<b[j].dwTag, b[i].dwTag>> \in recent

CacheOK(b, time) ==
    /\ b \in [Buffers -> Entries]
    /\ TagsOnce(b)
    /\ CleanIsThere(b)
    /\ TimesAgree(b, time)

IInv ==
    /\ TypeOK
    /\ CacheOK(buffer, vdwAccessTime)
    /\ \A lba \in Sectors \ {0} : disk[lba] \in Data
    /\ ~bCacheEnable => \A i \in Buffers : ~Valid(buffer[i])
    /\ torn => ~flushed

-----------------------------------------------------------------------------
\* Numbers and addresses

LEMMA Sizes ==
    /\ WordSize \in Nat /\ MaxCount \in Nat /\ MaxCount >= 1
    /\ MaxCount < WordSize - 3
    /\ dwClusterLinkAreaSize \in Nat /\ dwClusterLinkAreaSize >= 1
    /\ dwTotalSectors \in Nat /\ dwTotalSectors < WordSize
    /\ dwClusterLinkAreaSize + 2 < dwTotalSectors
BY CacheAssumption

LEMMA Numbers ==
    /\ Buffers \subseteq Nat /\ Tags \subseteq Nat
    /\ CACHE_INVALIDTAG \in Nat /\ CACHE_INVALIDTAG \notin Tags
    /\ \A i : i \in Buffers <=> i \in Nat /\ 1 <= i /\ i <= MaxCount
    /\ \A lba : lba \in Sectors <=> lba \in Nat /\ lba < dwTotalSectors
BY Sizes DEF Buffers, Tags, CACHE_INVALIDTAG, Sectors

\* A tag's sector lies behind the boot record, an invalid tag's is the boot record.
LEMMA Addresses ==
    /\ \A dwTag \in Tags : /\ Address(dwTag) = dwTag + 1
                           /\ Address(dwTag) \in Sectors \ {0}
                           /\ Address(dwTag) <= dwClusterLinkAreaSize
                           /\ Reaches(Address(dwTag))
    /\ Address(CACHE_INVALIDTAG) = 0
<1>1. ASSUME NEW dwTag \in Tags
      PROVE  dwTag \in Nat /\ dwTag + 1 <= dwClusterLinkAreaSize
  BY Sizes DEF Tags
<1>2. ASSUME NEW n \in Nat, n < WordSize PROVE n % WordSize = n
  BY <1>2, Sizes
<1>3. ASSUME NEW dwTag \in Tags PROVE Address(dwTag) = dwTag + 1
  BY <1>1, <1>2, Sizes DEF Address, dwClusterLinkAreaStartAddress
<1>4. ASSUME NEW dwTag \in Tags PROVE Reaches(Address(dwTag))
  <2>1. Address(dwTag) + 1 \in Nat /\ Address(dwTag) + 1 < dwTotalSectors
    BY <1>1, <1>3, Sizes
  <2> QED
    BY <1>2, <2>1, Sizes DEF Reaches
<1>5. WordSize % WordSize = 0
  BY Sizes
<1>6. Address(CACHE_INVALIDTAG) = 0
  <2>1. CACHE_INVALIDTAG + 1 = WordSize
    BY Sizes DEF CACHE_INVALIDTAG
  <2> QED
    BY <1>5, <2>1 DEF Address, dwClusterLinkAreaStartAddress
<1> QED
  BY <1>1, <1>3, <1>4, <1>6, Sizes, Numbers

LEMMA AddressesApart ==
    ASSUME NEW x \in Tags \cup {CACHE_INVALIDTAG}, NEW y \in Tags, Address(x) = Address(y)
    PROVE  x = y
BY Addresses, Numbers

LEMMA FreshIsData == \A dwTag : Fresh(dwTag) \in Data
BY DEF Fresh, Data

LEMMA EntryTypes ==
    ASSUME NEW e \in Entries
    PROVE  /\ e.dwTag \in Tags \cup {CACHE_INVALIDTAG}
           /\ e.dwAccessTime \in 0 .. WordSize - 2 /\ e.dwAccessTime \in Nat
           /\ e.bChanged \in BOOLEAN /\ e.data \in Data
           /\ Valid(e) => e.dwTag \in Tags
BY Sizes DEF Entries, Valid

-----------------------------------------------------------------------------
\* Least elements

LEMMA LeastNatural ==
    ASSUME NEW S \in SUBSET Nat, S # {} PROVE \E i \in S : \A j \in S : i <= j
<1> DEFINE T == {0 .. n : n \in S}
<1>1. T \subseteq FiniteSubsetsOf(Nat) /\ T # {}
  <2>1. ASSUME NEW n \in S PROVE 0 .. n \in FiniteSubsetsOf(Nat)
    <3>1. 0 \in Int /\ n \in Int /\ 0 .. n \subseteq Nat
      OBVIOUS
    <3>2. IsFiniteSet(0 .. n)
      BY <3>1, FS_Interval
    <3> QED
      BY <3>1, <3>2 DEF FiniteSubsetsOf
  <2> QED
    BY <2>1
<1>2. PICK x \in T : \A y \in T : ~(<<y, x>> \in StrictSubsetOrdering(Nat))
  <2> HIDE DEF T
  <2> QED
    BY <1>1, FS_StrictSubsetOrderingWellFounded, WFMin
<1>3. PICK i \in S : x = 0 .. i
  BY <1>2
<1>4. ASSUME NEW j \in S, j < i PROVE FALSE
  <2>1. (0 .. j) \subseteq (0 .. i) /\ (0 .. j) # (0 .. i)
    <3>1. i \in 0 .. i /\ i \notin 0 .. j
      BY <1>4
    <3> QED
      BY <1>4, <3>1
  <2>2. <<0 .. j, 0 .. i>> \in StrictSubsetOrdering(Nat)
    BY <2>1 DEF StrictSubsetOrdering
  <2> QED
    BY <1>2, <1>3, <2>2
<1> QED
  BY <1>4

LEMMA FirstIs ==
    ASSUME NEW S \in SUBSET Buffers, S # {}
    PROVE  First(S) \in S
<1>1. S \in SUBSET Nat
  BY Numbers
<1> QED
  BY <1>1, LeastNatural DEF First

\* The victim has the least of the access times.
LEMMA VictimIs ==
    ASSUME NEW c, c.b \in [Buffers -> Entries]
    PROVE  /\ GetVictim(c) \in Buffers
           /\ \A j \in Buffers : c.b[GetVictim(c)].dwAccessTime <= c.b[j].dwAccessTime
<1> DEFINE S == {i \in Buffers : \A j \in Buffers : c.b[i].dwAccessTime <= c.b[j].dwAccessTime}
           T == {c.b[i].dwAccessTime : i \in Buffers}
<1>1. T \in SUBSET Nat /\ T # {}
  <2>1. \A i \in Buffers : c.b[i].dwAccessTime \in Nat
    BY EntryTypes
  <2>2. 1 \in Buffers
    BY Numbers, Sizes
  <2> QED
    BY <2>1, <2>2
<1>2. PICK m \in T : \A n \in T : m <= n
  <2> HIDE DEF T
  <2> QED
    BY <1>1, LeastNatural
<1>3. S # {}
  BY <1>2
<1>4. S \in SUBSET Buffers
  OBVIOUS
<1>5. GetVictim(c) = First(S)
  BY DEF GetVictim
<1>6. First(S) \in S
  <2> HIDE DEF S
  <2> QED
    BY <1>3, <1>4, FirstIs
<1> QED
  BY <1>5, <1>6

-----------------------------------------------------------------------------
\* The sort

\* j comes before i in the stable sort by access time.
Before(j, i) ==
    \/ buffer[j].dwAccessTime < buffer[i].dwAccessTime
    \/ buffer[j].dwAccessTime = buffer[i].dwAccessTime /\ j < i

Below(i) == {j \in Buffers : Before(j, i)}

LEMMA BelowFinite ==
    ASSUME buffer \in [Buffers -> Entries], NEW i \in Buffers
    PROVE  /\ IsFiniteSet(Below(i)) /\ Cardinality(Below(i)) \in 0 .. MaxCount - 1
           /\ Rank(i) = 1 + Cardinality(Below(i))
<1>1. IsFiniteSet(Buffers) /\ Cardinality(Buffers) = MaxCount
  <2>1. 1 \in Int /\ MaxCount \in Int /\ MaxCount >= 1
    BY Sizes
  <2> QED
    BY <2>1, FS_Interval DEF Buffers
<1>2. i \notin Below(i)
  BY EntryTypes, Numbers DEF Below, Before
<1>3. Below(i) \in SUBSET Buffers
  BY DEF Below
<1>4. IsFiniteSet(Below(i)) /\ Cardinality(Below(i)) <= MaxCount /\ Cardinality(Below(i)) # MaxCount
  BY <1>1, <1>2, <1>3, FS_Subset
<1>5. Cardinality(Below(i)) \in Nat
  BY <1>4, FS_CardinalityType
<1> QED
  BY <1>4, <1>5, Sizes DEF Rank, Below, Before

LEMMA BeforeTotal ==
    ASSUME buffer \in [Buffers -> Entries], NEW i \in Buffers, NEW j \in Buffers
    PROVE  /\ i # j => Before(i, j) \/ Before(j, i)
           /\ ~Before(i, i)
           /\ \A k \in Buffers : Before(i, j) /\ Before(j, k) => Before(i, k)
<1>1. /\ i \in Nat /\ j \in Nat
      /\ buffer[i].dwAccessTime \in Nat /\ buffer[j].dwAccessTime \in Nat
  BY EntryTypes, Numbers
<1>2. ASSUME NEW k \in Buffers, Before(i, j), Before(j, k) PROVE Before(i, k)
  <2>1. k \in Nat /\ buffer[k].dwAccessTime \in Nat
    BY EntryTypes, Numbers
  <2> QED
    BY <1>1, <1>2, <2>1 DEF Before
<1> QED
  BY <1>1, <1>2 DEF Before

LEMMA RankGrows ==
    ASSUME buffer \in [Buffers -> Entries], NEW i \in Buffers, NEW j \in Buffers, Before(i, j)
    PROVE  Rank(i) < Rank(j)
<1>1. Below(i) \in SUBSET Below(j)
  BY BeforeTotal DEF Below
<1>2. i \in Below(j) /\ i \notin Below(i)
  BY BeforeTotal DEF Below
<1>3. /\ IsFiniteSet(Below(i)) /\ IsFiniteSet(Below(j))
      /\ Cardinality(Below(i)) \in Nat /\ Cardinality(Below(j)) \in Nat
      /\ Rank(i) = 1 + Cardinality(Below(i)) /\ Rank(j) = 1 + Cardinality(Below(j))
  BY BelowFinite
<1>4. Cardinality(Below(i)) <= Cardinality(Below(j)) /\ Cardinality(Below(i)) # Cardinality(Below(j))
  BY <1>1, <1>2, <1>3, FS_Subset
<1> QED
  BY <1>3, <1>4

\* The ranks are the places, each once.
LEMMA RankIsPermutation ==
    ASSUME buffer \in [Buffers -> Entries]
    PROVE  /\ \A i \in Buffers : Rank(i) \in Buffers
           /\ \A i, j \in Buffers : Rank(i) = Rank(j) => i = j
           /\ \A k \in Buffers : \E i \in Buffers : Rank(i) = k
<1>1. ASSUME NEW i \in Buffers PROVE Rank(i) \in Buffers
  BY BelowFinite, Numbers, Sizes
<1>2. ASSUME NEW i \in Buffers, NEW j \in Buffers, Rank(i) = Rank(j) PROVE i = j
  BY <1>1, <1>2, BeforeTotal, RankGrows, Numbers
<1> DEFINE f == [i \in Buffers |-> Rank(i)]
<1>3. f \in Injection(Buffers, Buffers)
  BY <1>1, <1>2 DEF Injection, IsInjective
<1>4. IsFiniteSet(Buffers)
  BY Sizes, FS_Interval DEF Buffers
<1>5. f \in Surjection(Buffers, Buffers)
  <2> HIDE DEF f
  <2> QED
    BY <1>3, <1>4, FS_Injection
<1>6. \A k \in Buffers : \E i \in Buffers : f[i] = k
  BY <1>5 DEF Surjection
<1> QED
  BY <1>1, <1>2, <1>6

\* The entry e is f but for its access time.
SameButTime(e, f) == e.dwTag = f.dwTag /\ e.bChanged = f.bChanged /\ e.data = f.data

\* The buffers of b are those of buffer, moved as p says, in the same order of use.
Moved(b, p) ==
    /\ p \in [Buffers -> Buffers]
    /\ \A i, j \in Buffers : p[i] = p[j] => i = j
    /\ \A k \in Buffers : \E i \in Buffers : p[i] = k
    /\ \A i \in Buffers : SameButTime(b[i], buffer[p[i]])
    /\ \A i, j \in Buffers : buffer[p[i]].dwAccessTime < buffer[p[j]].dwAccessTime =>
           b[i].dwAccessTime < b[j].dwAccessTime

\* b has the entries of buffer, but for their access times and places.
SameCache(b) ==
    /\ \A i \in Buffers : \E j \in Buffers : SameButTime(b[i], buffer[j])
    /\ \A j \in Buffers : \E i \in Buffers : SameButTime(b[i], buffer[j])

LEMMA NewTime ==
    ASSUME NEW e \in Entries, NEW n \in 0 .. WordSize - 2
    PROVE  LET d == [e EXCEPT !.dwAccessTime = n] IN
           d \in Entries /\ d.dwAccessTime = n /\ SameButTime(d, e)
BY DEF Entries, SameButTime

LEMMA CutDownMoves ==
    ASSUME TypeOK
    PROVE  LET c == CutDownAccessTime IN
           /\ c.b \in [Buffers -> Entries] /\ c.time \in 0 .. WordSize - 3
           /\ \E p : Moved(c.b, p)
           /\ \/ c.b = buffer /\ c.time = vdwAccessTime
              \/ \A i \in Buffers : c.b[i].dwAccessTime < c.time
<1> DEFINE c == CutDownAccessTime
<1>1. buffer \in [Buffers -> Entries] /\ vdwAccessTime \in 0 .. WordSize - 1
  BY DEF TypeOK, Entries
<1>2. CASE vdwAccessTime < WordSize - 2
  <2>1. c.b = buffer /\ c.time = vdwAccessTime
    BY <1>2 DEF CutDownAccessTime
  <2> DEFINE p == [i \in Buffers |-> i]
  <2>2. Moved(buffer, p)
    BY DEF Moved, SameButTime
  <2>3. c.time \in 0 .. WordSize - 3
    BY <1>1, <1>2, <2>1, Sizes
  <2> QED
    BY <1>1, <2>1, <2>2, <2>3
<1>3. CASE ~(vdwAccessTime < WordSize - 2)
  <2> DEFINE p == [i \in Buffers |-> CHOOSE j \in Buffers : Rank(j) = i]
             b == [i \in Buffers |-> [buffer[CHOOSE j \in Buffers : Rank(j) = i]
                                         EXCEPT !.dwAccessTime = i - 1]]
  <2>1. c = [b |-> b, time |-> MaxCount]
    BY <1>3 DEF CutDownAccessTime
  <2>2. \A i \in Buffers : p[i] \in Buffers /\ Rank(p[i]) = i
    BY <1>1, RankIsPermutation
  <2>3. p \in [Buffers -> Buffers]
    BY <2>2
  <2>0. \A i \in Buffers : b[i] = [buffer[p[i]] EXCEPT !.dwAccessTime = i - 1]
    OBVIOUS
  <2> HIDE DEF p
  <2>4. ASSUME NEW i \in Buffers
        PROVE  b[i] \in Entries /\ b[i].dwAccessTime = i - 1 /\ SameButTime(b[i], buffer[p[i]])
    <3>1. i - 1 \in 0 .. WordSize - 2 /\ buffer[p[i]] \in Entries
      BY <1>1, <2>3, Numbers, Sizes
    <3> DEFINE d == [buffer[p[i]] EXCEPT !.dwAccessTime = i - 1]
    <3>2. d \in Entries /\ d.dwAccessTime = i - 1 /\ SameButTime(d, buffer[p[i]])
      BY <3>1, NewTime
    <3>3. b[i] = d
      BY <2>0
    <3> HIDE DEF b, d
    <3> QED
      BY <3>2, <3>3
  <2>5. b \in [Buffers -> Entries]
    BY <2>4
  <2> HIDE DEF b
  <2>6. \A i, j \in Buffers : p[i] = p[j] => i = j
    BY <2>2
  <2>7. ASSUME NEW k \in Buffers PROVE \E i \in Buffers : p[i] = k
    <3>1. Rank(k) \in Buffers
      BY <1>1, RankIsPermutation
    <3>2. Rank(p[Rank(k)]) = Rank(k) /\ p[Rank(k)] \in Buffers
      BY <2>2, <3>1
    <3>3. p[Rank(k)] = k
      BY <1>1, <3>2, RankIsPermutation
    <3> QED
      BY <3>1, <3>3
  <2>8. ASSUME NEW i \in Buffers, NEW j \in Buffers,
               buffer[p[i]].dwAccessTime < buffer[p[j]].dwAccessTime
        PROVE  b[i].dwAccessTime < b[j].dwAccessTime
    <3>1. Before(p[i], p[j])
      BY <2>8 DEF Before
    <3>2. i < j
      BY <1>1, <2>2, <3>1, RankGrows
    <3> QED
      BY <2>4, <3>2, Numbers
  <2>9. Moved(b, p)
    BY <2>3, <2>4, <2>6, <2>7, <2>8 DEF Moved
  <2>10. MaxCount \in 0 .. WordSize - 3
    BY Sizes
  <2>11. \A i \in Buffers : b[i].dwAccessTime < MaxCount
    BY <2>4, Numbers, Sizes
  <2> QED
    BY <2>1, <2>5, <2>9, <2>10, <2>11
<1> QED
  BY <1>2, <1>3

\* What is said of the buffers holds when they were moved, too.
LEMMA CutDownOK ==
    ASSUME TypeOK, CacheOK(buffer, vdwAccessTime)
    PROVE  LET c == CutDownAccessTime IN
           /\ CacheOK(c.b, c.time) /\ c.time \in 0 .. WordSize - 3
           /\ SameCache(c.b)
<1> DEFINE c == CutDownAccessTime
<1>1. /\ c.b \in [Buffers -> Entries] /\ c.time \in 0 .. WordSize - 3
      /\ \E p : Moved(c.b, p)
      /\ \/ c.b = buffer /\ c.time = vdwAccessTime
         \/ \A i \in Buffers : c.b[i].dwAccessTime < c.time
  BY CutDownMoves
<1> HIDE DEF c
<1>2. PICK p : Moved(c.b, p)
  BY <1>1
<1>3. /\ p \in [Buffers -> Buffers]
      /\ \A i, j \in Buffers : p[i] = p[j] => i = j
      /\ \A k \in Buffers : \E i \in Buffers : p[i] = k
      /\ \A i \in Buffers : SameButTime(c.b[i], buffer[p[i]])
  BY <1>2 DEF Moved
<1>4. TagsOnce(c.b)
  BY <1>3 DEF TagsOnce, CacheOK, SameButTime, Valid
<1>5. CleanIsThere(c.b)
  BY <1>3 DEF CleanIsThere, CacheOK, SameButTime, Valid
<1>6. TimesAgree(c.b, c.time)
  <2>1. ASSUME NEW i \in Buffers, NEW j \in Buffers, Valid(c.b[i]), Valid(c.b[j]), i # j
        PROVE  \/ /\ c.b[i].dwAccessTime < c.b[j].dwAccessTime
                  /\ <<c.b[i].dwTag, c.b[j].dwTag>> \in recent
               \/ /\ c.b[j].dwAccessTime < c.b[i].dwAccessTime
                  /\ <<c.b[j].dwTag, c.b[i].dwTag>> \in recent
    <3>1. p[i] \in Buffers /\ p[j] \in Buffers /\ p[i] # p[j]
      BY <1>3, <2>1
    <3>2. /\ Valid(buffer[p[i]]) /\ Valid(buffer[p[j]])
          /\ c.b[i].dwTag = buffer[p[i]].dwTag /\ c.b[j].dwTag = buffer[p[j]].dwTag
      BY <1>3, <2>1 DEF SameButTime, Valid
    <3>3. \/ /\ buffer[p[i]].dwAccessTime < buffer[p[j]].dwAccessTime
             /\ <<buffer[p[i]].dwTag, buffer[p[j]].dwTag>> \in recent
          \/ /\ buffer[p[j]].dwAccessTime < buffer[p[i]].dwAccessTime
             /\ <<buffer[p[j]].dwTag, buffer[p[i]].dwTag>> \in recent
      BY <3>1, <3>2 DEF CacheOK, TimesAgree
    <3> QED
      BY <1>2, <3>2, <3>3 DEF Moved
  <2>2. \A i \in Buffers : Valid(c.b[i]) => c.b[i].dwAccessTime < c.time
    BY <1>1 DEF CacheOK, TimesAgree
  <2> QED
    BY <2>1, <2>2 DEF TimesAgree
<1>7. CacheOK(c.b, c.time)
  BY <1>1, <1>4, <1>5, <1>6 DEF CacheOK
<1>8. SameCache(c.b)
  BY <1>3 DEF SameCache
<1> QED
  BY <1>1, <1>7, <1>8 DEF c

-----------------------------------------------------------------------------
\* What readers see

View(b, d) == [dwTag \in Tags |->
    IF \E i \in Buffers : b[i].dwTag = dwTag
    THEN b[CHOOSE i \in Buffers : b[i].dwTag = dwTag].data
    ELSE d[Address(dwTag)]]

LEMMA ContentIsView == Content = View(buffer, disk) /\ Content' = View(buffer', disk')
BY DEF Content, View

LEMMA ViewIs ==
    ASSUME NEW b, NEW d, TagsOnce(b), NEW dwTag \in Tags
    PROVE  /\ \A i \in Buffers : b[i].dwTag = dwTag => View(b, d)[dwTag] = b[i].data
           /\ (\A i \in Buffers : b[i].dwTag # dwTag) => View(b, d)[dwTag] = d[Address(dwTag)]
BY Numbers DEF View, TagsOnce, Valid

LEMMA SameView ==
    ASSUME NEW b, SameCache(b), TagsOnce(b), TagsOnce(buffer), NEW d
    PROVE  View(b, d) = View(buffer, d)
<1>1. ASSUME NEW dwTag \in Tags PROVE View(b, d)[dwTag] = View(buffer, d)[dwTag]
  <2>1. CASE \E i \in Buffers : b[i].dwTag = dwTag
    <3>1. PICK i \in Buffers, j \in Buffers : b[i].dwTag = dwTag /\ SameButTime(b[i], buffer[j])
      BY <2>1 DEF SameCache
    <3> QED
      BY <3>1, ViewIs DEF SameButTime
  <2>2. CASE ~\E i \in Buffers : b[i].dwTag = dwTag
    <3>1. ASSUME NEW j \in Buffers PROVE buffer[j].dwTag # dwTag
      <4>1. PICK i \in Buffers : SameButTime(b[i], buffer[j])
        BY DEF SameCache
      <4> QED
        BY <2>2, <4>1 DEF SameButTime
    <3> QED
      BY <2>2, <3>1, ViewIs
  <2> QED
    BY <2>1, <2>2
<1> QED
  BY <1>1 DEF View

-----------------------------------------------------------------------------
\* A buffer is used

\* i can be used for the entry held: no other buffer has its sector.
FreeFor(b, i, held) ==
    /\ i \in Buffers /\ held \in Entries /\ Valid(held)
    /\ \A j \in Buffers \ {i} : b[j].dwTag # held.dwTag

LEMMA UseEffect ==
    ASSUME NEW c, c.b \in [Buffers -> Entries], c.time \in 0 .. WordSize - 3,
           NEW i, NEW held, FreeFor(c.b, i, held), Use(c, i, held)
    PROVE  /\ buffer' \in [Buffers -> Entries]
           /\ \A j \in Buffers \ {i} : buffer'[j] = c.b[j]
           /\ buffer'[i].dwAccessTime = c.time /\ SameButTime(buffer'[i], held)
           /\ vdwAccessTime' = c.time + 1 /\ vdwAccessTime' \in 0 .. WordSize - 1
<1> DEFINE d == [held EXCEPT !.dwAccessTime = c.time]
<1>1. d \in Entries /\ d.dwAccessTime = c.time /\ SameButTime(d, held)
  <2>1. c.time \in 0 .. WordSize - 2
    BY Sizes
  <2> QED
    BY <2>1, NewTime DEF FreeFor
<1>2. buffer' = [c.b EXCEPT ![i] = d] /\ vdwAccessTime' = c.time + 1
  BY DEF Use
<1>3. vdwAccessTime' \in 0 .. WordSize - 1
  BY <1>2, Sizes
<1> HIDE DEF d
<1> QED
  BY <1>1, <1>2, <1>3 DEF FreeFor

LEMMA UseKeeps ==
    ASSUME NEW c, CacheOK(c.b, c.time), c.time \in 0 .. WordSize - 3,
           NEW i, NEW held, FreeFor(c.b, i, held), Use(c, i, held), torn' = torn,
           ~torn => held.bChanged \/ held.data = disk'[Address(held.dwTag)],
           \A j \in Buffers \ {i} : Valid(c.b[j]) =>
               disk'[Address(c.b[j].dwTag)] = disk[Address(c.b[j].dwTag)]
    PROVE  CacheOK(buffer, vdwAccessTime)' /\ recent' \in SUBSET (Tags \X Tags)
<1>1. /\ buffer' \in [Buffers -> Entries]
      /\ \A j \in Buffers \ {i} : buffer'[j] = c.b[j]
      /\ buffer'[i].dwAccessTime = c.time /\ SameButTime(buffer'[i], held)
      /\ vdwAccessTime' = c.time + 1 /\ i \in Buffers
  BY UseEffect DEF CacheOK, FreeFor
<1>2. TagsOnce(buffer')
  BY <1>1 DEF CacheOK, TagsOnce, FreeFor, SameButTime, Valid
<1>3. CleanIsThere(buffer)'
  BY <1>1 DEF CacheOK, CleanIsThere, FreeFor, SameButTime, Valid
<1>4. recent' = {older \in Cached' \X Cached' : older[1] # held.dwTag
                    /\ (older \in recent \/ older[2] = held.dwTag)}
  BY DEF Use
<1>5. Cached' = {buffer'[j].dwTag : j \in Buffers} \ {CACHE_INVALIDTAG}
  BY DEF Cached
<1>6. Cached' \subseteq Tags
  BY <1>1, <1>5, EntryTypes
<1>7. TimesAgree(buffer, vdwAccessTime)'
  <2>1. \A j \in Buffers : Valid(buffer'[j]) => buffer'[j].dwAccessTime < vdwAccessTime'
    <3>1. ASSUME NEW j \in Buffers \ {i}, Valid(buffer'[j])
          PROVE  buffer'[j].dwAccessTime < c.time /\ buffer'[j].dwAccessTime \in Nat
      BY <1>1, <3>1, EntryTypes DEF CacheOK, TimesAgree
    <3> QED
      BY <1>1, <3>1
  <2>2. ASSUME NEW j \in Buffers, NEW k \in Buffers, j # k, j # i, k # i,
               Valid(buffer'[j]), Valid(buffer'[k]),
               c.b[j].dwAccessTime < c.b[k].dwAccessTime,
               <<c.b[j].dwTag, c.b[k].dwTag>> \in recent
        PROVE  /\ buffer'[j].dwAccessTime < buffer'[k].dwAccessTime
               /\ <<buffer'[j].dwTag, buffer'[k].dwTag>> \in recent'
    <3>1. /\ buffer'[j] = c.b[j] /\ buffer'[k] = c.b[k]
          /\ buffer'[j].dwTag \in Cached' /\ buffer'[k].dwTag \in Cached'
          /\ c.b[j].dwTag # held.dwTag
      BY <1>1, <1>5, <2>2 DEF Valid, FreeFor
    <3> QED
      BY <1>4, <2>2, <3>1
  <2>3. ASSUME NEW j \in Buffers, j # i, Valid(buffer'[j])
        PROVE  /\ buffer'[j].dwAccessTime < buffer'[i].dwAccessTime
               /\ <<buffer'[j].dwTag, buffer'[i].dwTag>> \in recent'
    <3>1. /\ buffer'[j] = c.b[j] /\ c.b[j].dwAccessTime < c.time
          /\ buffer'[i].dwTag = held.dwTag /\ Valid(held)
          /\ c.b[j].dwTag # held.dwTag
      BY <1>1, <2>3 DEF FreeFor, SameButTime, CacheOK, TimesAgree
    <3>2. buffer'[j].dwTag \in Cached' /\ held.dwTag \in Cached'
      BY <1>1, <1>5, <2>3, <3>1 DEF Valid
    <3> QED
      BY <1>1, <1>4, <3>1, <3>2
  <2>4. ASSUME NEW j \in Buffers, NEW k \in Buffers, j # k,
               Valid(buffer'[j]), Valid(buffer'[k])
        PROVE  \/ /\ buffer'[j].dwAccessTime < buffer'[k].dwAccessTime
                  /\ <<buffer'[j].dwTag, buffer'[k].dwTag>> \in recent'
               \/ /\ buffer'[k].dwAccessTime < buffer'[j].dwAccessTime
                  /\ <<buffer'[k].dwTag, buffer'[j].dwTag>> \in recent'
    <3>1. CASE j = i
      BY <2>3, <2>4, <3>1
    <3>2. CASE k = i
      BY <2>3, <2>4, <3>2
    <3>3. CASE j # i /\ k # i
      <4>1. Valid(c.b[j]) /\ Valid(c.b[k])
        BY <1>1, <2>4, <3>3
      <4> QED
        BY <2>2, <2>4, <3>3, <4>1 DEF CacheOK, TimesAgree
    <3> QED
      BY <3>1, <3>2, <3>3
  <2> QED
    BY <2>1, <2>4 DEF TimesAgree
<1> QED
  BY <1>1, <1>2, <1>3, <1>4, <1>6, <1>7 DEF CacheOK, TagsOnce

\* Some blocks are written back.
WritesBack ==
    \E written \in SUBSET Tags :
        Stable' = [b \in Tags |-> IF b \in written THEN Content'[b] ELSE Stable[b]]

\* A buffer goes from the entry old to held: old was clean, is written back, or
\* is still there.
LeavesSafely(old, held) ==
    \/ /\ disk' = disk
       /\ Valid(old) => ~old.bChanged \/ old.dwTag = held.dwTag
    \/ /\ Valid(old) /\ old.dwTag # held.dwTag
       /\ disk' = [disk EXCEPT ![Address(old.dwTag)] = old.data]

\* The buffer's old sector stays what it was for the readers.
LEMMA UseStore ==
    ASSUME NEW c, CacheOK(c.b, c.time), c.time \in 0 .. WordSize - 3, SameCache(c.b),
           TagsOnce(buffer), ~torn, disk \in [Sectors -> Data \cup {MBR}],
           NEW i, NEW held, FreeFor(c.b, i, held), Use(c, i, held),
           TagsOnce(buffer'),
           LeavesSafely(c.b[i], held)
    PROVE  /\ Content' = [Content EXCEPT ![held.dwTag] = held.data]
           /\ WritesBack
<1> DEFINE old == c.b[i]
<1>1. /\ buffer' \in [Buffers -> Entries]
      /\ \A j \in Buffers \ {i} : buffer'[j] = c.b[j]
      /\ SameButTime(buffer'[i], held) /\ i \in Buffers
      /\ TagsOnce(c.b) /\ c.b \in [Buffers -> Entries]
  BY UseEffect DEF CacheOK, FreeFor
<1>0. \/ /\ disk' = disk
         /\ Valid(old) => ~old.bChanged \/ old.dwTag = held.dwTag
      \/ /\ Valid(old) /\ old.dwTag # held.dwTag
         /\ disk' = [disk EXCEPT ![Address(old.dwTag)] = old.data]
  BY DEF LeavesSafely
<1>2. /\ held.dwTag \in Tags /\ held.data \in Data
      /\ old \in Entries /\ (Valid(old) => old.dwTag \in Tags)
  BY <1>1, EntryTypes DEF FreeFor
<1>3. Content = View(c.b, disk) /\ Content' = View(buffer', disk')
  BY <1>1, ContentIsView, SameView
<1>4. ASSUME NEW dwTag \in Tags, disk' = disk \/ dwTag # old.dwTag
      PROVE  disk'[Address(dwTag)] = disk[Address(dwTag)]
  <2>1. CASE disk' = disk
    BY <2>1
  <2>2. CASE disk' # disk
    <3>1. /\ disk' = [disk EXCEPT ![Address(old.dwTag)] = old.data]
          /\ old.dwTag \in Tags
      BY <1>0, <1>2, <2>2
    <3>2. Address(old.dwTag) # Address(dwTag)
      BY <1>4, <2>2, <3>1, AddressesApart
    <3> QED
      BY <3>1, <3>2, Addresses
  <2> QED
    BY <2>1, <2>2
<1>5. ASSUME Valid(old), old.dwTag # held.dwTag
      PROVE  disk'[Address(old.dwTag)] = old.data
  <2>1. CASE disk' = disk /\ ~old.bChanged
    BY <1>1, <1>5, <2>1 DEF CacheOK, CleanIsThere
  <2>2. CASE disk' = [disk EXCEPT ![Address(old.dwTag)] = old.data]
    BY <1>2, <1>5, <2>2, Addresses
  <2> QED
    BY <1>0, <1>5, <2>1, <2>2
<1> HIDE DEF old
<1>6. Content'[held.dwTag] = held.data
  BY <1>1, <1>2, <1>3, ViewIs DEF SameButTime
<1>7. ASSUME NEW dwTag \in Tags, dwTag # held.dwTag
      PROVE  Content'[dwTag] = Content[dwTag]
  <2>1. CASE \E j \in Buffers \ {i} : c.b[j].dwTag = dwTag
    <3>1. PICK j \in Buffers \ {i} : c.b[j].dwTag = dwTag /\ buffer'[j] = c.b[j]
      BY <1>1, <2>1
    <3> QED
      BY <1>1, <1>3, <3>1, ViewIs
  <2>2. CASE (\A j \in Buffers \ {i} : c.b[j].dwTag # dwTag) /\ old.dwTag = dwTag
    <3>1. \A j \in Buffers : buffer'[j].dwTag # dwTag
      BY <1>1, <1>7, <2>2 DEF SameButTime
    <3>2. Content'[dwTag] = disk'[Address(dwTag)]
      BY <1>3, <3>1, ViewIs
    <3>3. Content[dwTag] = old.data /\ Valid(old)
      BY <1>1, <1>3, <2>2, ViewIs, Numbers DEF old, Valid
    <3> QED
      BY <1>5, <1>7, <2>2, <3>2, <3>3
  <2>3. CASE \A j \in Buffers : c.b[j].dwTag # dwTag
    <3>1. \A j \in Buffers : buffer'[j].dwTag # dwTag
      BY <1>1, <1>7, <2>3 DEF SameButTime
    <3>2. Content'[dwTag] = disk'[Address(dwTag)] /\ Content[dwTag] = disk[Address(dwTag)]
      BY <1>1, <1>3, <2>3, <3>1, ViewIs
    <3> QED
      BY <1>1, <1>4, <2>3, <3>2 DEF old
  <2> QED
    BY <1>1, <2>1, <2>2, <2>3 DEF old
<1>8. Content' = [Content EXCEPT ![held.dwTag] = held.data]
  <2>1. Content = [x \in Tags |-> Content[x]] /\ Content' = [x \in Tags |-> Content'[x]]
    BY DEF Content
  <2> QED
    BY <1>2, <1>6, <1>7, <2>1
<1>9. WritesBack
  <2> DEFINE written == IF disk' = disk THEN {} ELSE {old.dwTag}
  <2>1. written \in SUBSET Tags
    BY <1>0, <1>2 DEF old
  <2>2. ASSUME NEW dwTag \in Tags
        PROVE  disk'[Address(dwTag)] = IF dwTag \in written THEN Content'[dwTag]
                                       ELSE disk[Address(dwTag)]
    <3>1. CASE dwTag \notin written
      BY <1>4, <3>1
    <3>2. CASE dwTag \in written
      <4>1. /\ dwTag = old.dwTag /\ Valid(old) /\ disk' # disk /\ dwTag # held.dwTag
        BY <1>0, <3>2 DEF old
      <4>2. Content'[dwTag] = Content[dwTag] /\ Content[dwTag] = old.data
        BY <1>1, <1>3, <1>7, <4>1, ViewIs DEF old
      <4> QED
        BY <1>5, <3>2, <4>1, <4>2
    <3> QED
      BY <3>1, <3>2
  <2> HIDE DEF written
  <2>3. Stable' = [b \in Tags |-> IF b \in written THEN Content'[b] ELSE Stable[b]]
    BY <2>2 DEF Stable
  <2> QED
    BY <2>1, <2>3 DEF WritesBack
<1> QED
  BY <1>8, <1>9

\* A buffer is used by a call that has a cache.
LEMMA UseOK ==
    ASSUME IInv, NEW i, NEW held, FreeFor(CutDownAccessTime.b, i, held),
           Use(CutDownAccessTime, i, held), LeavesSafely(CutDownAccessTime.b[i], held),
           ~torn => held.bChanged \/ held.data = disk[Address(held.dwTag)],
           bCacheEnable, UNCHANGED <<bMounted, bCacheEnable, torn>>, flushed' \in {flushed, FALSE}
    PROVE  /\ IInv'
           /\ ~torn => Content' = [Content EXCEPT ![held.dwTag] = held.data] /\ WritesBack
<1> DEFINE c == CutDownAccessTime
           old == c.b[i]
<1>1. TypeOK /\ CacheOK(buffer, vdwAccessTime) /\ disk \in [Sectors -> Data \cup {MBR}]
  BY DEF IInv, TypeOK
<1>2. CacheOK(c.b, c.time) /\ c.time \in 0 .. WordSize - 3 /\ SameCache(c.b)
  BY <1>1, CutDownOK
<1>3. FreeFor(c.b, i, held) /\ Use(c, i, held) /\ LeavesSafely(old, held)
  OBVIOUS
<1> HIDE DEF c
<1>4. /\ i \in Buffers /\ old \in Entries /\ (Valid(old) => old.dwTag \in Tags)
      /\ old.data \in Data /\ held.dwTag \in Tags
      /\ \A j \in Buffers : Valid(c.b[j]) => c.b[j].dwTag \in Tags
  BY <1>2, <1>3, EntryTypes DEF FreeFor, CacheOK
<1>5. ASSUME NEW dwTag \in Tags, disk' = disk \/ dwTag # old.dwTag
      PROVE  disk'[Address(dwTag)] = disk[Address(dwTag)]
  <2>1. CASE disk' = disk
    BY <2>1
  <2>2. CASE disk' # disk
    <3>1. /\ disk' = [disk EXCEPT ![Address(old.dwTag)] = old.data]
          /\ old.dwTag \in Tags
      BY <1>3, <1>4, <2>2 DEF LeavesSafely
    <3>2. Address(old.dwTag) # Address(dwTag)
      BY <1>5, <2>2, <3>1, AddressesApart
    <3> QED
      BY <1>1, <3>1, <3>2, Addresses
  <2> QED
    BY <2>1, <2>2
<1>6. \A j \in Buffers \ {i} : Valid(c.b[j]) =>
          disk'[Address(c.b[j].dwTag)] = disk[Address(c.b[j].dwTag)]
  BY <1>2, <1>4, <1>5 DEF CacheOK, TagsOnce
<1>7. ~torn => held.bChanged \/ held.data = disk'[Address(held.dwTag)]
  BY <1>3, <1>4, <1>5 DEF LeavesSafely
<1>8. CacheOK(buffer, vdwAccessTime)' /\ recent' \in SUBSET (Tags \X Tags)
  BY <1>2, <1>3, <1>6, <1>7, UseKeeps
<1>9. /\ buffer' \in [Buffers -> Entries] /\ vdwAccessTime' \in 0 .. WordSize - 1
  BY <1>2, <1>3, UseEffect DEF CacheOK
<1>10. /\ disk' \in [Sectors -> Data \cup {MBR}]
       /\ \A lba \in Sectors \ {0} : disk'[lba] \in Data
  <2>1. \A lba \in Sectors \ {0} : disk[lba] \in Data
    BY DEF IInv
  <2>2. CASE disk' = disk
    BY <1>1, <2>1, <2>2
  <2>3. CASE disk' # disk
    <3>1. disk' = [disk EXCEPT ![Address(old.dwTag)] = old.data] /\ old.dwTag \in Tags
      BY <1>3, <1>4, <2>3 DEF LeavesSafely
    <3>2. Address(old.dwTag) \in Sectors
      BY <3>1, Addresses
    <3> QED
      BY <1>1, <1>4, <2>1, <3>1, <3>2
  <2> QED
    BY <2>2, <2>3
<1>11. TypeOK'
  BY <1>1, <1>8, <1>9, <1>10 DEF TypeOK, Entries
<1>12. IInv'
  <2>1. torn' => ~flushed'
    BY DEF IInv
  <2>2. bCacheEnable'
    OBVIOUS
  <2> QED
    BY <1>8, <1>10, <1>11, <2>1, <2>2 DEF IInv
<1>13. ASSUME ~torn
       PROVE  Content' = [Content EXCEPT ![held.dwTag] = held.data] /\ WritesBack
  <2>1. TagsOnce(buffer) /\ TagsOnce(buffer')
    BY <1>1, <1>8 DEF CacheOK, TagsOnce
  <2> QED
    BY <1>1, <1>2, <1>3, <1>13, <2>1, UseStore
<1> QED
  BY <1>12, <1>13

-----------------------------------------------------------------------------
\* Which buffer is used

LEMMA AllocatedIs ==
    ASSUME NEW c, c.b \in [Buffers -> Entries]
    PROVE  /\ Allocated(c) \in Buffers
           /\ Valid(c.b[Allocated(c)]) =>
                /\ Allocated(c) = GetVictim(c)
                /\ \A i \in Buffers : Valid(c.b[i])
                /\ ~MustWriteBack(c) => ~c.b[Allocated(c)].bChanged
           /\ MustWriteBack(c) => Valid(c.b[Allocated(c)])
<1>1. With(c, CACHE_INVALIDTAG) \in SUBSET Buffers
  BY DEF With
<1>2. CASE With(c, CACHE_INVALIDTAG) # {}
  <2>1. Allocated(c) \in With(c, CACHE_INVALIDTAG)
    BY <1>1, <1>2, FirstIs DEF Allocated
  <2> QED
    BY <1>2, <2>1 DEF With, Valid, MustWriteBack
<1>3. CASE With(c, CACHE_INVALIDTAG) = {}
  <2>1. Allocated(c) = GetVictim(c) /\ GetVictim(c) \in Buffers
    BY <1>3, VictimIs DEF Allocated
  <2>2. \A i \in Buffers : Valid(c.b[i])
    BY <1>3 DEF With, Valid
  <2>3. MustWriteBack(c) <=> c.b[GetVictim(c)].bChanged
    BY <1>3 DEF MustWriteBack
  <2> QED
    BY <2>1, <2>2, <2>3
<1> QED
  BY <1>2, <1>3

\* A miss uses the allocated buffer for the new entry, or keeps the old one
\* there when that cannot be written back.
LEMMA EnterIs ==
    ASSUME NEW c, CacheOK(c.b, c.time), NEW held \in Entries, held.dwTag \in Tags,
           With(c, held.dwTag) = {}, Enter(c, held)
    PROVE  \E e \in {held, c.b[Allocated(c)]} :
             /\ FreeFor(c.b, Allocated(c), e) /\ Use(c, Allocated(c), e)
             /\ LeavesSafely(c.b[Allocated(c)], e)
             /\ e # held => disk' = disk
<1> DEFINE i == Allocated(c)
           old == c.b[i]
<1>1. /\ i \in Buffers /\ old \in Entries
      /\ MustWriteBack(c) => Valid(old)
      /\ Valid(old) /\ ~MustWriteBack(c) => ~old.bChanged
  BY AllocatedIs DEF CacheOK
<1>2. \A j \in Buffers : c.b[j].dwTag # held.dwTag
  BY DEF With
<1>3. FreeFor(c.b, i, held)
  BY <1>1, <1>2, Numbers DEF FreeFor, Valid
<1>4. CASE MustWriteBack(c)
  <2>1. \/ disk' = [disk EXCEPT ![Address(old.dwTag)] = old.data] /\ Use(c, i, held)
        \/ Use(c, i, old) /\ disk' = disk
    BY <1>4 DEF Enter
  <2>2. Valid(old) /\ old.dwTag # held.dwTag
    BY <1>1, <1>2, <1>4
  <2>3. FreeFor(c.b, i, old)
    BY <1>1, <2>2 DEF FreeFor, CacheOK, TagsOnce
  <2>4. CASE disk' = [disk EXCEPT ![Address(old.dwTag)] = old.data] /\ Use(c, i, held)
    <3>1. LeavesSafely(old, held)
      BY <2>2, <2>4 DEF LeavesSafely
    <3> QED
      BY <1>3, <2>4, <3>1
  <2>5. CASE Use(c, i, old) /\ disk' = disk
    <3>1. LeavesSafely(old, old)
      BY <2>5 DEF LeavesSafely
    <3> QED
      BY <2>3, <2>5, <3>1
  <2> QED
    BY <2>1, <2>4, <2>5
<1>5. CASE ~MustWriteBack(c)
  <2>1. Use(c, i, held) /\ disk' = disk
    BY <1>5 DEF Enter
  <2>2. LeavesSafely(old, held)
    BY <1>1, <1>5, <2>1 DEF LeavesSafely
  <2> QED
    BY <1>3, <2>1, <2>2
<1> QED
  BY <1>4, <1>5

-----------------------------------------------------------------------------
\* Reads and writes

LEMMA ContentAt ==
    ASSUME IInv
    PROVE  LET b == CutDownAccessTime.b IN
           /\ \A i \in Buffers : Valid(b[i]) =>
                  b[i].dwTag \in Tags /\ Content[b[i].dwTag] = b[i].data
           /\ \A dwTag \in Tags : With(CutDownAccessTime, dwTag) = {} =>
                  Content[dwTag] = disk[Address(dwTag)]
<1> DEFINE c == CutDownAccessTime
<1>1. TagsOnce(c.b) /\ SameCache(c.b) /\ TagsOnce(buffer) /\ c.b \in [Buffers -> Entries]
  BY CutDownOK DEF IInv, CacheOK
<1> HIDE DEF c
<1>2. Content = View(c.b, disk)
  BY <1>1, ContentIsView, SameView
<1>3. ASSUME NEW i \in Buffers, Valid(c.b[i])
      PROVE  c.b[i].dwTag \in Tags /\ Content[c.b[i].dwTag] = c.b[i].data
  <2>1. c.b[i].dwTag \in Tags
    BY <1>1, <1>3, EntryTypes
  <2> QED
    BY <1>1, <1>2, <2>1, ViewIs
<1>4. ASSUME NEW dwTag \in Tags, With(c, dwTag) = {}
      PROVE  Content[dwTag] = disk[Address(dwTag)]
  <2>1. \A i \in Buffers : c.b[i].dwTag # dwTag
    BY <1>4 DEF With
  <2> QED
    BY <1>1, <1>2, <2>1, ViewIs
<1> QED
  BY <1>3, <1>4 DEF c

LEMMA ContentKept ==
    ASSUME NEW x \in Tags
    PROVE  [Content EXCEPT ![x] = Content[x]] = Content
<1>1. Content = [y \in Tags |-> Content[y]]
  BY DEF Content
<1> QED
  BY <1>1

\* The buffer that is found
LEMMA FoundIs ==
    ASSUME NEW c, CacheOK(c.b, c.time), NEW dwTag \in Tags, With(c, dwTag) # {}
    PROVE  /\ First(With(c, dwTag)) \in Buffers
           /\ c.b[First(With(c, dwTag))].dwTag = dwTag
           /\ FreeFor(c.b, First(With(c, dwTag)), c.b[First(With(c, dwTag))])
<1>1. With(c, dwTag) \in SUBSET Buffers
  BY DEF With
<1>2. First(With(c, dwTag)) \in With(c, dwTag)
  BY <1>1, FirstIs
<1> QED
  BY <1>2, Numbers DEF With, FreeFor, CacheOK, TagsOnce, Valid

LEMMA HeldIs ==
    ASSUME NEW dwTag \in Tags, NEW data \in Data, NEW bChanged \in BOOLEAN
    PROVE  /\ Held(dwTag, data, bChanged) \in Entries
           /\ Held(dwTag, data, bChanged).dwTag = dwTag
           /\ Held(dwTag, data, bChanged).data = data
           /\ Held(dwTag, data, bChanged).bChanged = bChanged
BY Sizes DEF Held, Entries

LEMMA DiskData == ASSUME IInv, NEW dwTag \in Tags PROVE disk[Address(dwTag)] \in Data
BY Addresses DEF IInv

LEMMA ReadOK ==
    ASSUME IInv, NEW dwTag \in Tags, Read(dwTag)
    PROVE  IInv' /\ (~torn => Content' = Content /\ WritesBack)
<1> DEFINE c == CutDownAccessTime
<1>1. CacheOK(c.b, c.time)
  BY CutDownOK DEF IInv
<1>2. bCacheEnable /\ UNCHANGED <<bMounted, bCacheEnable, torn, flushed>>
  BY DEF Read
<1>3. /\ \A i \in Buffers : Valid(c.b[i]) =>
             c.b[i].dwTag \in Tags /\ Content[c.b[i].dwTag] = c.b[i].data
      /\ With(c, dwTag) = {} => Content[dwTag] = disk[Address(dwTag)]
  BY ContentAt
\* However a buffer is used, its entry is what the readers see, on the disk if clean.
<1>4. ASSUME NEW i, NEW e, FreeFor(c.b, i, e), Use(c, i, e), LeavesSafely(c.b[i], e),
             e.dwTag \in Tags, e.data = Content[e.dwTag],
             ~torn => e.bChanged \/ e.data = disk[Address(e.dwTag)]
      PROVE  IInv' /\ (~torn => Content' = Content /\ WritesBack)
  BY <1>2, <1>4, UseOK, ContentKept
<1>5. CASE With(c, dwTag) # {}
  <2> DEFINE i == First(With(c, dwTag))
  <2>1. Use(c, i, c.b[i]) /\ disk' = disk
    BY <1>5 DEF Read
  <2>2. i \in Buffers /\ c.b[i].dwTag = dwTag /\ FreeFor(c.b, i, c.b[i])
    BY <1>1, <1>5, FoundIs
  <2>3. LeavesSafely(c.b[i], c.b[i])
    BY <2>1 DEF LeavesSafely
  <2>4. /\ c.b[i].data = Content[c.b[i].dwTag]
        /\ ~torn => c.b[i].bChanged \/ c.b[i].data = disk[Address(c.b[i].dwTag)]
    BY <1>1, <1>3, <2>2 DEF FreeFor, CacheOK, CleanIsThere
  <2> HIDE DEF i, c
  <2> QED
    BY <1>4, <2>1, <2>2, <2>3, <2>4
<1>6. CASE With(c, dwTag) = {}
  <2> DEFINE held == Held(dwTag, disk[Address(dwTag)], FALSE)
             i == Allocated(c)
  <2>1. Enter(c, held)
    BY <1>6 DEF Read
  <2>2. /\ held \in Entries /\ held.dwTag = dwTag /\ held.data = disk[Address(dwTag)]
        /\ i \in Buffers
    BY <1>1, HeldIs, DiskData, AllocatedIs DEF CacheOK
  <2> HIDE DEF held
  <2>3. PICK e \in {held, c.b[i]} :
          FreeFor(c.b, i, e) /\ Use(c, i, e) /\ LeavesSafely(c.b[i], e)
    <3> HIDE DEF c
    <3> QED
      BY <1>1, <1>6, <2>1, <2>2, EnterIs
  <2>4. e.dwTag \in Tags /\ e.data = Content[e.dwTag]
    BY <1>3, <1>6, <2>2, <2>3 DEF FreeFor
  <2>5. ~torn => e.bChanged \/ e.data = disk[Address(e.dwTag)]
    BY <1>1, <2>2, <2>3 DEF FreeFor, CacheOK, CleanIsThere
  <2> HIDE DEF i, c
  <2> QED
    BY <1>4, <2>3, <2>4, <2>5
<1> QED
  BY <1>5, <1>6

LEMMA WriteOK ==
    ASSUME IInv, NEW dwTag \in Tags, NEW data \in Versions, Write(dwTag, data)
    PROVE  /\ IInv' /\ flushed' = FALSE /\ torn' = torn
           /\ ~torn => \E x \in Tags, d \in Data :
                           Content' = [Content EXCEPT ![x] = d] /\ WritesBack
<1> DEFINE c == CutDownAccessTime
<1>1. CacheOK(c.b, c.time)
  BY CutDownOK DEF IInv
<1>2. /\ bCacheEnable /\ UNCHANGED <<bMounted, bCacheEnable, torn>> /\ flushed' = FALSE
      /\ data \in Data
  BY DEF Write, Data
<1>3. ASSUME NEW i, NEW e, FreeFor(c.b, i, e), Use(c, i, e), LeavesSafely(c.b[i], e),
             ~torn => e.bChanged \/ e.data = disk[Address(e.dwTag)]
      PROVE  /\ IInv'
             /\ ~torn => \E x \in Tags, d \in Data :
                             Content' = [Content EXCEPT ![x] = d] /\ WritesBack
  <2>1. e.dwTag \in Tags /\ e.data \in Data
    BY <1>3, EntryTypes DEF FreeFor
  <2> QED
    BY <1>2, <1>3, <2>1, UseOK
<1>4. CASE With(c, dwTag) # {}
  <2> DEFINE i == First(With(c, dwTag))
             held == HeldAfterWrite(c, i, data)
  <2>1. Use(c, i, held) /\ disk' = disk
    BY <1>4 DEF Write
  <2>2. i \in Buffers /\ c.b[i].dwTag = dwTag /\ FreeFor(c.b, i, c.b[i])
    BY <1>1, <1>4, FoundIs
  <2> HIDE DEF i
  <2>3. held \in Entries /\ held.dwTag = dwTag /\ held.bChanged
    <3>1. ASSUME NEW e \in Entries
          PROVE  LET d == [e EXCEPT !.data = data, !.bChanged = TRUE] IN
                 d \in Entries /\ d.dwTag = e.dwTag /\ d.bChanged
      BY <1>2 DEF Entries
    <3>2. c.b[i] \in Entries
      BY <2>2 DEF FreeFor
    <3> HIDE DEF c
    <3> QED
      BY <2>2, <3>1, <3>2 DEF HeldAfterWrite
  <2>4. FreeFor(c.b, i, held)
    BY <2>2, <2>3 DEF FreeFor, Valid
  <2>5. LeavesSafely(c.b[i], held)
    BY <2>1, <2>2, <2>3 DEF LeavesSafely
  <2> HIDE DEF held, c
  <2> QED
    BY <1>2, <1>3, <2>1, <2>3, <2>4, <2>5
<1>5. CASE With(c, dwTag) = {}
  <2> DEFINE held == Held(dwTag, data, TRUE)
             i == Allocated(c)
  <2>1. Enter(c, held)
    BY <1>5 DEF Write
  <2>2. held \in Entries /\ held.dwTag = dwTag /\ held.bChanged /\ i \in Buffers
    BY <1>1, <1>2, HeldIs, AllocatedIs DEF CacheOK
  <2> HIDE DEF held
  <2>3. PICK e \in {held, c.b[i]} :
          FreeFor(c.b, i, e) /\ Use(c, i, e) /\ LeavesSafely(c.b[i], e)
    <3> HIDE DEF c
    <3> QED
      BY <1>1, <1>5, <2>1, <2>2, EnterIs
  <2>4. ~torn => e.bChanged \/ e.data = disk[Address(e.dwTag)]
    BY <1>1, <2>2, <2>3 DEF FreeFor, CacheOK, CleanIsThere
  <2> HIDE DEF i, c
  <2> QED
    BY <1>2, <1>3, <2>3, <2>4
<1> QED
  BY <1>2, <1>4, <1>5

-----------------------------------------------------------------------------
\* An empty cache

LEMMA EmptyIs == Empty \in Entries /\ ~Valid(Empty)
BY Sizes DEF Empty, Entries, Valid, Data

LEMMA NothingHeld ==
    ASSUME NEW b, NEW d, \A i \in Buffers : ~Valid(b[i])
    PROVE  View(b, d) = [dwTag \in Tags |-> d[Address(dwTag)]]
<1>1. \A i \in Buffers : b[i].dwTag = CACHE_INVALIDTAG
  BY DEF Valid
<1>2. TagsOnce(b)
  BY DEF TagsOnce
<1>3. ASSUME NEW dwTag \in Tags PROVE View(b, d)[dwTag] = d[Address(dwTag)]
  <2>1. \A i \in Buffers : b[i].dwTag # dwTag
    BY <1>1, Numbers
  <2> QED
    BY <1>2, <2>1, ViewIs
<1> QED
  BY <1>3 DEF View

\* Readers see data, and the disk has data, of every sector of the link table.
StoreTyped == Content \in [Tags -> Data] /\ Stable \in [Tags -> Data]

LEMMA StoreTypes == IInv => StoreTyped
<1> SUFFICES ASSUME IInv PROVE StoreTyped
  OBVIOUS
<1>1. \A dwTag \in Tags : disk[Address(dwTag)] \in Data
  BY DiskData
<1>2. ASSUME NEW dwTag \in Tags PROVE Content[dwTag] \in Data
  <2>1. TagsOnce(buffer) /\ buffer \in [Buffers -> Entries]
    BY DEF IInv, CacheOK
  <2>2. CASE \E i \in Buffers : buffer[i].dwTag = dwTag
    BY <2>1, <2>2, ContentIsView, ViewIs, EntryTypes
  <2>3. CASE ~\E i \in Buffers : buffer[i].dwTag = dwTag
    BY <1>1, <2>1, <2>3, ContentIsView, ViewIs
  <2> QED
    BY <2>2, <2>3
<1>3. Content = [dwTag \in Tags |-> Content[dwTag]]
  BY DEF Content
<1> QED
  BY <1>1, <1>2, <1>3 DEF StoreTyped, Stable

LEMMA InvInit == Init => IInv /\ Store!Init
<1> SUFFICES ASSUME Init PROVE IInv /\ Store!Init
  OBVIOUS
<1>1. /\ buffer = [i \in Buffers |-> Empty] /\ vdwAccessTime = 0
      /\ bMounted \in BOOLEAN /\ bCacheEnable = bMounted
      /\ recent = {} /\ flushed = FALSE /\ torn = FALSE
  BY DEF Init
<1>2. disk \in [Sectors -> Data \cup {MBR}] /\ \A lba \in Sectors \ {0} : disk[lba] \in Data
  BY FreshIsData DEF Init, Data
<1>3. buffer \in [Buffers -> Entries] /\ \A i \in Buffers : ~Valid(buffer[i])
  BY <1>1, EmptyIs
<1>4. CacheOK(buffer, vdwAccessTime)
  BY <1>3 DEF CacheOK, TagsOnce, CleanIsThere, TimesAgree
<1>5. TypeOK
  <2>1. vdwAccessTime \in 0 .. WordSize - 1
    BY <1>1, Sizes
  <2> QED
    BY <1>1, <1>2, <1>3, <2>1 DEF TypeOK, Entries
<1>6. IInv
  BY <1>1, <1>2, <1>3, <1>4, <1>5 DEF IInv
<1>7. Content = Stable
  BY <1>3, NothingHeld, ContentIsView DEF Stable
<1> QED
  BY <1>1, <1>6, <1>7, StoreTypes DEF StoreTyped, Store!Init

-----------------------------------------------------------------------------
\* The other steps

LEMMA ReadFailsOK ==
    ASSUME IInv, NEW dwTag \in Tags, ReadFails(dwTag)
    PROVE  IInv' /\ Content' = Content /\ Stable' = Stable
<1> DEFINE c == CutDownAccessTime
<1>1. CacheOK(c.b, c.time) /\ c.time \in 0 .. WordSize - 3 /\ SameCache(c.b)
  BY CutDownOK DEF IInv
<1>2. /\ buffer' = c.b /\ vdwAccessTime' = c.time
      /\ UNCHANGED <<disk, bMounted, bCacheEnable, recent, flushed, torn>> /\ bCacheEnable
  BY DEF ReadFails
<1> HIDE DEF c
<1>3. CacheOK(buffer, vdwAccessTime)'
  BY <1>1, <1>2 DEF CacheOK, TagsOnce, CleanIsThere, TimesAgree
<1>4. vdwAccessTime' \in 0 .. WordSize - 1
  BY <1>1, <1>2, Sizes
<1>5. TypeOK'
  BY <1>2, <1>3, <1>4 DEF IInv, TypeOK, CacheOK, Entries
<1>6. IInv'
  BY <1>2, <1>3, <1>5 DEF IInv
<1>7. TagsOnce(c.b) /\ TagsOnce(buffer)
  BY <1>1 DEF IInv, CacheOK
<1>8. Content' = Content
  BY <1>1, <1>2, <1>7, ContentIsView, SameView
<1> QED
  BY <1>2, <1>6, <1>8 DEF Stable

LEMMA WriteWithoutCacheOK ==
    ASSUME IInv, NEW dwTag \in Tags, NEW data \in Versions, WriteWithoutCache(dwTag, data)
    PROVE  /\ IInv' /\ flushed' = FALSE /\ torn' = torn
           /\ Content' = [Content EXCEPT ![dwTag] = data] /\ WritesBack
<1>1. /\ ~bCacheEnable /\ disk' = [disk EXCEPT ![Address(dwTag)] = data] /\ flushed' = FALSE
      /\ UNCHANGED <<buffer, vdwAccessTime, bMounted, bCacheEnable, recent, torn>>
  BY DEF WriteWithoutCache, cache
<1>2. data \in Data
  BY DEF Data
<1>3. \A i \in Buffers : ~Valid(buffer[i])
  BY <1>1 DEF IInv
<1>4. disk' \in [Sectors -> Data \cup {MBR}] /\ \A lba \in Sectors \ {0} : disk'[lba] \in Data
  BY <1>1, <1>2 DEF IInv, TypeOK
<1>5. CacheOK(buffer, vdwAccessTime)'
  BY <1>1, <1>3 DEF IInv, CacheOK, TagsOnce, CleanIsThere, TimesAgree
<1>6. TypeOK'
  BY <1>1, <1>4 DEF IInv, TypeOK
<1>7. IInv'
  BY <1>1, <1>3, <1>4, <1>5, <1>6 DEF IInv
<1>8. Content = Stable /\ Content' = Stable'
  <2>1. \A i \in Buffers : ~Valid(buffer'[i])
    BY <1>1, <1>3
  <2> QED
    BY <1>3, <2>1, NothingHeld, ContentIsView DEF Stable
<1>9. \A x \in Tags : disk'[Address(x)] = IF x = dwTag THEN data ELSE disk[Address(x)]
  BY <1>1, Addresses, AddressesApart DEF IInv, TypeOK
<1>10. Stable' = [Stable EXCEPT ![dwTag] = data]
  BY <1>9 DEF Stable
<1>11. WritesBack
  <2>1. Stable' = [x \in Tags |-> IF x \in Tags THEN Content'[x] ELSE Stable[x]]
    BY <1>8 DEF Stable
  <2> QED
    BY <2>1 DEF WritesBack
<1> QED
  BY <1>1, <1>7, <1>8, <1>10, <1>11

LEMMA MountOK ==
    ASSUME IInv, Mount \/ UNCHANGED vars
    PROVE  IInv' /\ Content' = Content /\ Stable' = Stable /\ UNCHANGED <<flushed, torn>>
<1>1. /\ UNCHANGED <<buffer, vdwAccessTime, disk, bCacheEnable, recent, flushed, torn>>
      /\ bMounted' \in {bMounted, TRUE}
  BY DEF Mount, vars, cache
<1>2. TypeOK' /\ CacheOK(buffer, vdwAccessTime)'
  BY <1>1 DEF IInv, TypeOK, CacheOK, TagsOnce, CleanIsThere, TimesAgree
<1> QED
  BY <1>1, <1>2 DEF IInv, Content, Stable

LEMMA RestartOK ==
    ASSUME IInv, Restart
    PROVE  IInv' /\ Store!Restart
<1>1. /\ buffer' = [i \in Buffers |-> Empty] /\ vdwAccessTime' = 0
      /\ bMounted' \in BOOLEAN /\ bCacheEnable' \in BOOLEAN
      /\ recent' = {} /\ flushed' = FALSE /\ torn' = FALSE /\ disk' = disk
  BY DEF Restart
<1>2. buffer' \in [Buffers -> Entries] /\ \A i \in Buffers : ~Valid(buffer'[i])
  BY <1>1, EmptyIs
<1>3. CacheOK(buffer, vdwAccessTime)'
  BY <1>2 DEF CacheOK, TagsOnce, CleanIsThere, TimesAgree
<1>4. TypeOK'
  <2>1. vdwAccessTime' \in 0 .. WordSize - 1
    BY <1>1, Sizes
  <2> QED
    BY <1>1, <1>2, <2>1 DEF IInv, TypeOK, Entries
<1>5. IInv'
  BY <1>1, <1>2, <1>3, <1>4 DEF IInv
<1>6. Content' = Stable /\ Stable' = Stable
  BY <1>1, <1>2, NothingHeld, ContentIsView DEF Stable
<1> QED
  BY <1>1, <1>5, <1>6 DEF Store!Restart

\* Of the buffers written to a sector the last one's entry stays.
LastOf(n, lba) == CHOOSE i \in FlushedTo(n, lba) : \A j \in FlushedTo(n, lba) : j <= i

LEMMA LastIs ==
    ASSUME NEW n \in 0 .. MaxCount, NEW lba, FlushedTo(n, lba) # {}
    PROVE  LastOf(n, lba) \in FlushedTo(n, lba) /\ LastOf(n, lba) \in Buffers
<1> DEFINE S == FlushedTo(n, lba)
           T == {MaxCount - i : i \in S}
<1>1. \A i \in S : i \in Nat /\ 1 <= i /\ i <= MaxCount /\ i \in Buffers
  BY Numbers, Sizes DEF FlushedTo
<1> HIDE DEF S
<1>2. T \in SUBSET Nat /\ T # {}
  <2>1. \A i \in S : MaxCount - i \in Nat
    BY <1>1, Sizes
  <2> QED
    BY <2>1 DEF S
<1>3. PICK m \in T : \A k \in T : m <= k
  <2> HIDE DEF T
  <2> QED
    BY <1>2, LeastNatural
<1>4. PICK i \in S : m = MaxCount - i
  BY <1>3
<1>5. ASSUME NEW j \in S PROVE j <= i
  <2>1. MaxCount - i <= MaxCount - j
    BY <1>3, <1>4
  <2> QED
    BY <1>1, <2>1, Sizes
<1>6. LastOf(n, lba) \in S
  BY <1>5 DEF LastOf, S
<1> QED
  BY <1>1, <1>6 DEF S

\* Of a sector of the link table there is at most the one buffer to write.
LEMMA FlushedIs ==
    ASSUME TagsOnce(buffer), buffer \in [Buffers -> Entries], NEW n \in 0 .. MaxCount
    PROVE  \A i \in Buffers : Valid(buffer[i]) =>
             /\ buffer[i].dwTag \in Tags
             /\ FlushedTo(n, Address(buffer[i].dwTag)) =
                    IF i <= n /\ buffer[i].bChanged THEN {i} ELSE {}
<1> SUFFICES ASSUME NEW i \in Buffers, Valid(buffer[i])
             PROVE  /\ buffer[i].dwTag \in Tags
                    /\ FlushedTo(n, Address(buffer[i].dwTag)) =
                           IF i <= n /\ buffer[i].bChanged THEN {i} ELSE {}
  OBVIOUS
<1>1. buffer[i].dwTag \in Tags
  BY EntryTypes
<1>2. ASSUME NEW j \in FlushedTo(n, Address(buffer[i].dwTag))
      PROVE  j = i /\ i <= n /\ buffer[i].bChanged
  <2>1. /\ j \in 1 .. n /\ j \in Buffers /\ buffer[j].bChanged
        /\ Address(buffer[j].dwTag) = Address(buffer[i].dwTag)
    BY Numbers, Sizes DEF FlushedTo
  <2>2. buffer[j].dwTag \in Tags \cup {CACHE_INVALIDTAG}
    BY <2>1, EntryTypes
  <2>3. buffer[j].dwTag = buffer[i].dwTag
    BY <1>1, <2>1, <2>2, AddressesApart
  <2> QED
    BY <2>1, <2>3 DEF TagsOnce
<1>3. ASSUME i <= n, buffer[i].bChanged
      PROVE  i \in FlushedTo(n, Address(buffer[i].dwTag))
  BY <1>3, Numbers DEF FlushedTo
<1> QED
  BY <1>1, <1>2, <1>3

\* No other sector of the link table is written.
LEMMA NotFlushed ==
    ASSUME buffer \in [Buffers -> Entries], NEW n \in 0 .. MaxCount, NEW dwTag \in Tags,
           \A i \in Buffers : buffer[i].dwTag # dwTag
    PROVE  FlushedTo(n, Address(dwTag)) = {}
<1> SUFFICES ASSUME NEW j \in FlushedTo(n, Address(dwTag)) PROVE FALSE
  OBVIOUS
<1>1. j \in Buffers /\ Address(buffer[j].dwTag) = Address(dwTag)
  BY Numbers, Sizes DEF FlushedTo
<1>2. buffer[j].dwTag \in Tags \cup {CACHE_INVALIDTAG}
  BY <1>1, EntryTypes
<1> QED
  BY <1>1, <1>2, AddressesApart

LEMMA FlushOK ==
    ASSUME IInv, NEW n \in 0 .. MaxCount, Flush(n)
    PROVE  /\ IInv' /\ Content' = Content /\ torn' = torn
           /\ ~torn => WritesBack /\ (n < MaxCount => flushed' = flushed)
                       /\ (n = MaxCount => Stable' = Content /\ flushed')
<1>1. /\ bCacheEnable
      /\ disk' = [lba \in Sectors |-> IF FlushedTo(n, lba) = {} THEN disk[lba]
                                      ELSE buffer[LastOf(n, lba)].data]
      /\ buffer' = [i \in Buffers |-> IF i <= n
                                      THEN [buffer[i] EXCEPT !.bChanged = FALSE]
                                      ELSE buffer[i]]
      /\ flushed' = (flushed \/ (n = MaxCount /\ ~torn))
      /\ UNCHANGED <<vdwAccessTime, bMounted, bCacheEnable, recent, torn>>
  BY DEF Flush, LastOf
<1>2. /\ TypeOK /\ buffer \in [Buffers -> Entries] /\ TagsOnce(buffer)
      /\ CleanIsThere(buffer) /\ TimesAgree(buffer, vdwAccessTime)
      /\ flushed \in BOOLEAN /\ (torn => ~flushed) /\ torn \in BOOLEAN
  BY DEF IInv, CacheOK, TypeOK
<1>3. ASSUME NEW i \in Buffers
      PROVE  /\ buffer'[i] \in Entries
             /\ buffer'[i].dwTag = buffer[i].dwTag /\ buffer'[i].data = buffer[i].data
             /\ buffer'[i].dwAccessTime = buffer[i].dwAccessTime
             /\ buffer'[i].bChanged <=> buffer[i].bChanged /\ ~(i <= n)
  <2>1. buffer'[i] = IF i <= n THEN [buffer[i] EXCEPT !.bChanged = FALSE] ELSE buffer[i]
    BY <1>1
  <2>2. ASSUME NEW e \in Entries
        PROVE  LET d == [e EXCEPT !.bChanged = FALSE] IN
               /\ d \in Entries /\ d.dwTag = e.dwTag /\ d.data = e.data
               /\ d.dwAccessTime = e.dwAccessTime /\ ~d.bChanged
    BY DEF Entries
  <2> QED
    BY <1>2, <2>1, <2>2
<1>4. buffer' \in [Buffers -> Entries]
  BY <1>1, <1>3
<1>5. ASSUME NEW i \in Buffers, Valid(buffer[i])
      PROVE  /\ disk'[Address(buffer[i].dwTag)] =
                    IF i <= n /\ buffer[i].bChanged THEN buffer[i].data
                    ELSE disk[Address(buffer[i].dwTag)]
             /\ Content'[buffer[i].dwTag] = buffer[i].data
             /\ Content[buffer[i].dwTag] = buffer[i].data
  <2> DEFINE lba == Address(buffer[i].dwTag)
  <2>1. /\ buffer[i].dwTag \in Tags
        /\ FlushedTo(n, lba) = IF i <= n /\ buffer[i].bChanged THEN {i} ELSE {}
    BY <1>2, <1>5, FlushedIs
  <2>2. lba \in Sectors
    BY <2>1, Addresses
  <2>3. FlushedTo(n, lba) # {} => LastOf(n, lba) \in FlushedTo(n, lba)
    BY LastIs
  <2>4. TagsOnce(buffer')
    BY <1>2, <1>3 DEF TagsOnce, Valid
  <2>5. Content'[buffer[i].dwTag] = buffer[i].data
    BY <1>3, <2>1, <2>4, ViewIs, ContentIsView
  <2>6. Content[buffer[i].dwTag] = buffer[i].data
    BY <1>2, <2>1, ViewIs, ContentIsView
  <2> HIDE DEF lba
  <2>7. disk'[lba] = IF i <= n /\ buffer[i].bChanged THEN buffer[i].data ELSE disk[lba]
    BY <1>1, <2>1, <2>2, <2>3
  <2> QED
    BY <2>5, <2>6, <2>7 DEF lba
<1>6. ASSUME NEW dwTag \in Tags, \A i \in Buffers : buffer[i].dwTag # dwTag
      PROVE  /\ disk'[Address(dwTag)] = disk[Address(dwTag)]
             /\ Content'[dwTag] = disk[Address(dwTag)]
             /\ Content[dwTag] = disk[Address(dwTag)]
  <2>1. disk'[Address(dwTag)] = disk[Address(dwTag)]
    BY <1>1, <1>2, <1>6, NotFlushed, Addresses
  <2>2. \A i \in Buffers : buffer'[i].dwTag # dwTag
    BY <1>3, <1>6
  <2>3. TagsOnce(buffer')
    BY <1>2, <1>3 DEF TagsOnce, Valid
  <2>4. Content'[dwTag] = disk'[Address(dwTag)]
    BY <2>2, <2>3, ViewIs, ContentIsView
  <2>5. Content[dwTag] = disk[Address(dwTag)]
    BY <1>2, <1>6, ViewIs, ContentIsView
  <2> QED
    BY <2>1, <2>4, <2>5
<1>7. ASSUME NEW dwTag \in Tags, NEW i \in Buffers, buffer[i].dwTag = dwTag
      PROVE  Valid(buffer[i])
  BY <1>7, Numbers DEF Valid
<1>8. Content' = Content
  <2>1. \A dwTag \in Tags : Content'[dwTag] = Content[dwTag]
    BY <1>5, <1>6, <1>7
  <2>2. Content = [x \in Tags |-> Content[x]] /\ Content' = [x \in Tags |-> Content'[x]]
    BY DEF Content
  <2> QED
    BY <2>1, <2>2
<1>9. CacheOK(buffer, vdwAccessTime)'
  <2>1. TagsOnce(buffer)'
    BY <1>2, <1>3 DEF TagsOnce, Valid
  <2>2. CleanIsThere(buffer)'
    <3> SUFFICES ASSUME ~torn, NEW i \in Buffers, Valid(buffer'[i]), ~buffer'[i].bChanged
                 PROVE  buffer'[i].data = disk'[Address(buffer'[i].dwTag)]
      BY <1>1 DEF CleanIsThere
    <3>1. Valid(buffer[i])
      BY <1>3 DEF Valid
    <3>2. (i <= n /\ buffer[i].bChanged) \/ ~buffer[i].bChanged
      BY <1>3
    <3>3. ~buffer[i].bChanged => buffer[i].data = disk[Address(buffer[i].dwTag)]
      BY <1>2, <3>1 DEF CleanIsThere
    <3> QED
      BY <1>3, <1>5, <3>1, <3>2, <3>3
  <2>3. TimesAgree(buffer, vdwAccessTime)'
    BY <1>1, <1>2, <1>3 DEF TimesAgree, Valid
  <2> QED
    BY <1>4, <2>1, <2>2, <2>3 DEF CacheOK
<1>10. /\ disk' \in [Sectors -> Data \cup {MBR}]
       /\ \A lba \in Sectors \ {0} : disk'[lba] \in Data
  <2>1. ASSUME NEW lba \in Sectors
        PROVE  disk'[lba] = disk[lba] \/ disk'[lba] \in Data
    <3>1. CASE FlushedTo(n, lba) = {}
      BY <1>1, <3>1
    <3>2. CASE FlushedTo(n, lba) # {}
      BY <1>1, <1>2, <3>2, LastIs, EntryTypes
    <3> QED
      BY <3>1, <3>2
  <2>2. disk \in [Sectors -> Data \cup {MBR}] /\ \A lba \in Sectors \ {0} : disk[lba] \in Data
    BY DEF IInv, TypeOK
  <2>3. disk' = [lba \in Sectors |-> disk'[lba]]
    BY <1>1
  <2> QED
    BY <2>1, <2>2, <2>3
<1>11. IInv'
  <2>1. flushed' \in BOOLEAN /\ (torn' => ~flushed')
    BY <1>1, <1>2
  <2>2. TypeOK'
    BY <1>1, <1>2, <1>4, <1>10, <2>1 DEF TypeOK, Entries
  <2> QED
    BY <1>1, <1>9, <1>10, <2>1, <2>2 DEF IInv
<1>12. WritesBack
  <2> DEFINE written == {dwTag \in Tags : disk'[Address(dwTag)] # disk[Address(dwTag)]}
  <2>1. ASSUME NEW dwTag \in Tags
        PROVE  disk'[Address(dwTag)] = IF dwTag \in written THEN Content'[dwTag]
                                       ELSE disk[Address(dwTag)]
    BY <1>5, <1>6, <1>7, <1>8
  <2>2. Stable' = [b \in Tags |-> IF b \in written THEN Content'[b] ELSE Stable[b]]
    <3> HIDE DEF written
    <3> QED
      BY <2>1 DEF Stable
  <2> QED
    BY <2>2 DEF WritesBack
<1>13. ASSUME ~torn, n = MaxCount PROVE Stable' = Content
  <2>1. ASSUME NEW dwTag \in Tags PROVE disk'[Address(dwTag)] = Content[dwTag]
    <3>1. CASE \A i \in Buffers : buffer[i].dwTag # dwTag
      BY <1>6, <3>1
    <3>2. CASE \E i \in Buffers : buffer[i].dwTag = dwTag
      <4>1. PICK i \in Buffers : buffer[i].dwTag = dwTag
        BY <3>2
      <4>2. Valid(buffer[i]) /\ i <= n
        BY <1>7, <1>13, <4>1, Numbers
      <4>3. ~buffer[i].bChanged => buffer[i].data = disk[Address(buffer[i].dwTag)]
        BY <1>2, <1>13, <4>2 DEF CleanIsThere
      <4> QED
        BY <1>5, <4>1, <4>2, <4>3
    <3> QED
      BY <3>1, <3>2
  <2>2. Content = [x \in Tags |-> Content[x]]
    BY DEF Content
  <2> QED
    BY <2>1, <2>2 DEF Stable
<1>14. ASSUME ~torn PROVE (n < MaxCount => flushed' = flushed) /\ (n = MaxCount => flushed')
  <2>1. n < MaxCount => n # MaxCount
    BY Sizes
  <2> QED
    BY <1>1, <1>2, <1>14, <2>1, Zenon
<1> QED
  BY <1>1, <1>8, <1>11, <1>12, <1>13, <1>14

LEMMA FormatOK ==
    ASSUME IInv, NEW n \in 0 .. dwClusterLinkAreaSize + 1, Format(n)
    PROVE  IInv' /\ (torn' \/ Store!Format)
<1>1. /\ disk' = [lba \in Sectors |-> IF lba >= n THEN disk[lba]
                                      ELSE IF lba = 0 THEN MBR ELSE Fresh(lba - 1)]
      /\ flushed' = FALSE /\ torn' = (n < dwClusterLinkAreaSize + 1)
      /\ UNCHANGED <<bMounted, bCacheEnable>>
  BY DEF Format
<1>2. /\ disk' \in [Sectors -> Data \cup {MBR}]
      /\ \A lba \in Sectors \ {0} : disk'[lba] \in Data
  <2>1. disk \in [Sectors -> Data \cup {MBR}] /\ \A lba \in Sectors \ {0} : disk[lba] \in Data
    BY DEF IInv, TypeOK
  <2> QED
    BY <1>1, <2>1, FreshIsData
<1>3. buffer \in [Buffers -> Entries] /\ CacheOK(buffer, vdwAccessTime)
  BY DEF IInv, CacheOK
<1>4. CASE n < dwClusterLinkAreaSize + 1
  <2>0. n # dwClusterLinkAreaSize + 1
    BY <1>4, Sizes
  <2>1. UNCHANGED <<buffer, vdwAccessTime, recent>> /\ torn'
    <3>1. UNCHANGED <<buffer, vdwAccessTime, recent>>
      BY <2>0 DEF Format, cache
    <3>2. torn'
      BY <1>1, <1>4, Zenon
    <3> QED
      BY <3>1, <3>2
  <2>2. CacheOK(buffer, vdwAccessTime)'
    BY <1>3, <2>1 DEF CacheOK, TagsOnce, CleanIsThere, TimesAgree
  <2>3. TypeOK'
    BY <1>1, <1>2, <2>1 DEF IInv, TypeOK
  <2>4. IInv'
    BY <1>1, <1>2, <2>1, <2>2, <2>3 DEF IInv
  <2> QED
    BY <2>1, <2>4
<1>5. CASE ~(n < dwClusterLinkAreaSize + 1)
  <2>0. n = dwClusterLinkAreaSize + 1
    BY <1>5, Sizes
  <2>1. n = dwClusterLinkAreaSize + 1 /\ torn' = FALSE
    <3>1. (n < dwClusterLinkAreaSize + 1) = FALSE
      BY <1>5
    <3>2. torn' = (n < dwClusterLinkAreaSize + 1)
      BY <1>1
    <3> QED
      BY <2>0, <3>1, <3>2
  <2>2. \/ /\ buffer' = [i \in Buffers |-> [buffer[i] EXCEPT !.dwTag = CACHE_INVALIDTAG]]
           /\ vdwAccessTime' = 0 /\ recent' = {}
        \/ ~bCacheEnable /\ UNCHANGED <<buffer, vdwAccessTime, recent>>
    BY <2>1 DEF Format, DiscardAll, cache
  <2>3. ASSUME NEW e \in Entries
        PROVE  [e EXCEPT !.dwTag = CACHE_INVALIDTAG] \in Entries
               /\ ~Valid([e EXCEPT !.dwTag = CACHE_INVALIDTAG])
    BY DEF Entries, Valid
  <2>4. /\ buffer' \in [Buffers -> Entries] /\ \A i \in Buffers : ~Valid(buffer'[i])
        /\ vdwAccessTime' \in 0 .. WordSize - 1 /\ recent' \in SUBSET (Tags \X Tags)
    <3>1. CASE ~bCacheEnable /\ UNCHANGED <<buffer, vdwAccessTime, recent>>
      BY <1>3, <3>1 DEF IInv, TypeOK
    <3>2. CASE /\ buffer' = [i \in Buffers |-> [buffer[i] EXCEPT !.dwTag = CACHE_INVALIDTAG]]
               /\ vdwAccessTime' = 0 /\ recent' = {}
      <4>1. buffer' \in [Buffers -> Entries] /\ \A i \in Buffers : ~Valid(buffer'[i])
        BY <1>3, <2>3, <3>2
      <4>2. vdwAccessTime' \in 0 .. WordSize - 1
        BY <3>2, Sizes
      <4> QED
        BY <3>2, <4>1, <4>2
    <3> QED
      BY <2>2, <3>1, <3>2
  <2>5. CacheOK(buffer, vdwAccessTime)'
    BY <2>4 DEF CacheOK, TagsOnce, CleanIsThere, TimesAgree
  <2>6. TypeOK'
    BY <1>1, <1>2, <2>1, <2>4 DEF IInv, TypeOK, Entries
  <2>7. IInv'
    BY <1>1, <1>2, <2>1, <2>4, <2>5, <2>6 DEF IInv
  <2>8. ASSUME NEW dwTag \in Tags PROVE disk'[Address(dwTag)] = Fresh(dwTag)
    <3>1. /\ Address(dwTag) \in Sectors \ {0} /\ Address(dwTag) = dwTag + 1
          /\ Address(dwTag) <= dwClusterLinkAreaSize /\ dwTag \in Nat
      BY Addresses, Numbers
    <3>2. ~(Address(dwTag) >= n) /\ Address(dwTag) - 1 = dwTag
      BY <2>1, <3>1, Sizes
    <3> QED
      BY <1>1, <3>1, <3>2
  <2>9. Stable' = [b \in Tags |-> Fresh(b)]
    BY <2>8 DEF Stable
  <2>10. Content' = Stable'
    BY <2>4, NothingHeld, ContentIsView DEF Stable
  <2> QED
    BY <1>1, <2>1, <2>7, <2>9, <2>10 DEF Store!Format
<1> QED
  BY <1>4, <1>5

-----------------------------------------------------------------------------
\* Every step

\* The step is one of the abstract store, or none.
StoreStep == Store!Next \/ (Content' = Content /\ Stable' = Stable /\ UNCHANGED <<flushed, torn>>)

LEMMA StoreTypesNext == IInv' => StoreTyped'
BY StoreTypes, PTL

\* Torn is left by a restart or a whole format only, and while it is, all goes.
LEMMA TornStep == ASSUME IInv', torn' PROVE StoreStep
<1>1. StoreTyped'
  BY StoreTypesNext
<1>2. flushed' = FALSE /\ torn' = TRUE
  BY DEF IInv, TypeOK
<1> QED
  BY <1>1, <1>2 DEF StoreTyped, StoreStep, Store!Next, Store!Torn

LEMMA LagStep ==
    ASSUME Content' = Content, WritesBack, UNCHANGED <<flushed, torn>>
    PROVE  StoreStep
<1>1. Store!Lag
  BY DEF Store!Lag, Store!WriteBack, WritesBack
<1> QED
  BY <1>1 DEF StoreStep, Store!Next

LEMMA WriteStep ==
    ASSUME NEW x \in Tags, NEW d \in Data, Content' = [Content EXCEPT ![x] = d],
           WritesBack, flushed' = FALSE, torn' = torn
    PROVE  StoreStep
<1>1. Store!Write(x, d)
  BY DEF Store!Write, Store!WriteBack, WritesBack
<1> QED
  BY <1>1 DEF StoreStep, Store!Next

LEMMA InvStep == IInv /\ [Next]_vars => IInv' /\ StoreStep
<1> SUFFICES ASSUME IInv, [Next]_vars PROVE IInv' /\ StoreStep
  OBVIOUS
<1>1. ASSUME NEW dwTag \in Tags, Read(dwTag) PROVE IInv' /\ StoreStep
  <2>1. IInv' /\ (~torn => Content' = Content /\ WritesBack)
    BY <1>1, ReadOK
  <2>2. UNCHANGED <<flushed, torn>>
    BY <1>1 DEF Read
  <2> QED
    BY <2>1, <2>2, TornStep, LagStep
<1>2. ASSUME NEW dwTag \in Tags, ReadFails(dwTag) PROVE IInv' /\ StoreStep
  BY <1>2, ReadFailsOK DEF ReadFails, StoreStep
<1>3. ASSUME NEW dwTag \in Tags, NEW data \in Versions, Write(dwTag, data)
      PROVE  IInv' /\ StoreStep
  <2>1. /\ IInv' /\ flushed' = FALSE /\ torn' = torn
        /\ ~torn => \E x \in Tags, d \in Data :
                        Content' = [Content EXCEPT ![x] = d] /\ WritesBack
    BY <1>3, WriteOK
  <2> QED
    BY <2>1, TornStep, WriteStep
<1>4. ASSUME NEW dwTag \in Tags, NEW data \in Versions, WriteWithoutCache(dwTag, data)
      PROVE  IInv' /\ StoreStep
  <2>1. /\ IInv' /\ flushed' = FALSE /\ torn' = torn
        /\ Content' = [Content EXCEPT ![dwTag] = data] /\ WritesBack
    BY <1>4, WriteWithoutCacheOK
  <2>2. data \in Data
    BY DEF Data
  <2> QED
    BY <2>1, <2>2, WriteStep
<1>5. ASSUME NEW n \in 0 .. MaxCount, Flush(n) PROVE IInv' /\ StoreStep
  <2>1. /\ IInv' /\ Content' = Content /\ torn' = torn
        /\ ~torn => WritesBack /\ (n < MaxCount => flushed' = flushed)
                    /\ (n = MaxCount => Stable' = Content /\ flushed')
    BY <1>5, FlushOK
  <2>2. CASE torn
    BY <2>1, <2>2, TornStep
  <2>3. CASE ~torn /\ n < MaxCount
    BY <2>1, <2>3, LagStep
  <2>4. CASE ~torn /\ n = MaxCount
    <3>1. flushed' = TRUE
      BY <2>1, <2>4 DEF IInv, TypeOK
    <3>2. Store!Flush
      BY <2>1, <2>4, <3>1 DEF Store!Flush
    <3> QED
      BY <2>1, <3>2 DEF StoreStep, Store!Next
  <2>5. n < MaxCount \/ n = MaxCount
    BY Sizes
  <2> QED
    BY <2>2, <2>3, <2>4, <2>5
<1>6. ASSUME NEW n \in 0 .. dwClusterLinkAreaSize + 1, Format(n) PROVE IInv' /\ StoreStep
  <2>1. IInv' /\ (torn' \/ Store!Format)
    BY <1>6, FormatOK
  <2> QED
    BY <2>1, TornStep DEF StoreStep, Store!Next
<1>7. CASE Mount \/ UNCHANGED vars
  BY <1>7, MountOK DEF StoreStep
<1>8. CASE Restart
  BY <1>8, RestartOK DEF StoreStep, Store!Next
<1> QED
  BY <1>1, <1>2, <1>3, <1>4, <1>5, <1>6, <1>7, <1>8 DEF Next

-----------------------------------------------------------------------------
\* What is evicted

\* Only one sector leaves the cache for another, and all others were used after it.
OldestGoes ==
    \A dwTag \in Cached : dwTag \notin Cached' /\ Cached' # {} =>
        /\ Cached \subseteq Cached' \cup {dwTag}
        /\ \A other \in Cached \ {dwTag} : <<dwTag, other>> \in recent

LEMMA SameCached ==
    ASSUME NEW b, SameCache(b)
    PROVE  Cached = {b[i].dwTag : i \in Buffers} \ {CACHE_INVALIDTAG}
<1>1. ASSUME NEW i \in Buffers PROVE \E j \in Buffers : b[i].dwTag = buffer[j].dwTag
  BY DEF SameCache, SameButTime
<1>2. ASSUME NEW j \in Buffers PROVE \E i \in Buffers : b[i].dwTag = buffer[j].dwTag
  BY DEF SameCache, SameButTime
<1> DEFINE S == {b[i].dwTag : i \in Buffers}
           T == {buffer[j].dwTag : j \in Buffers}
<1>3. ASSUME NEW x PROVE x \in S <=> x \in T
  <2>1. ASSUME x \in S PROVE x \in T
    <3>1. PICK i \in Buffers : x = b[i].dwTag
      BY <2>1
    <3>2. PICK j \in Buffers : b[i].dwTag = buffer[j].dwTag
      BY <1>1
    <3> QED
      BY <3>1, <3>2
  <2>2. ASSUME x \in T PROVE x \in S
    <3>1. PICK j \in Buffers : x = buffer[j].dwTag
      BY <2>2
    <3>2. PICK i \in Buffers : b[i].dwTag = buffer[j].dwTag
      BY <1>2
    <3> QED
      BY <3>1, <3>2
  <2> QED
    BY <2>1, <2>2
<1>4. S = T
  <2> HIDE DEF S, T
  <2> QED
    BY <1>3
<1> QED
  BY <1>4 DEF Cached

LEMMA NoneGoes ==
    ASSUME Cached' = Cached \/ Cached' = {} PROVE OldestGoes
BY DEF OldestGoes

\* Entry e takes buffer i of b, whose own was not used for longest, or is e's sector.
TakesOldest(b, i, e) ==
    Valid(b[i]) /\ b[i].dwTag # e.dwTag =>
        \A j \in Buffers : b[i].dwAccessTime <= b[j].dwAccessTime

LEMMA UseOldest ==
    ASSUME IInv, NEW i, NEW held, FreeFor(CutDownAccessTime.b, i, held),
           Use(CutDownAccessTime, i, held), TakesOldest(CutDownAccessTime.b, i, held)
    PROVE  OldestGoes
<1> DEFINE c == CutDownAccessTime
<1>1. CacheOK(c.b, c.time) /\ c.time \in 0 .. WordSize - 3 /\ SameCache(c.b)
  BY CutDownOK DEF IInv
<1>2. FreeFor(c.b, i, held) /\ Use(c, i, held) /\ TakesOldest(c.b, i, held)
  OBVIOUS
<1> HIDE DEF c
<1>3. /\ \A j \in Buffers \ {i} : buffer'[j] = c.b[j]
      /\ SameButTime(buffer'[i], held) /\ i \in Buffers /\ c.b \in [Buffers -> Entries]
  BY <1>1, <1>2, UseEffect DEF CacheOK, FreeFor
<1>4. /\ Cached = {c.b[j].dwTag : j \in Buffers} \ {CACHE_INVALIDTAG}
      /\ Cached' = {buffer'[j].dwTag : j \in Buffers} \ {CACHE_INVALIDTAG}
  BY <1>1, SameCached DEF Cached
<1>5. ASSUME NEW j \in Buffers \ {i}, Valid(c.b[j]) PROVE c.b[j].dwTag \in Cached'
  BY <1>3, <1>4, <1>5 DEF Valid
<1>6. held.dwTag \in Cached'
  BY <1>2, <1>3, <1>4 DEF FreeFor, SameButTime, Valid
<1>7. ASSUME NEW dwTag \in Cached, dwTag \notin Cached'
      PROVE  /\ Cached \subseteq Cached' \cup {dwTag}
             /\ \A other \in Cached \ {dwTag} : <<dwTag, other>> \in recent
  <2>1. /\ Valid(c.b[i]) /\ c.b[i].dwTag = dwTag /\ dwTag # held.dwTag
    BY <1>4, <1>5, <1>6, <1>7 DEF Valid
  <2>2. ASSUME NEW other \in Cached \ {dwTag}
        PROVE  other \in Cached' /\ <<dwTag, other>> \in recent
    <3>1. PICK j \in Buffers \ {i} : Valid(c.b[j]) /\ c.b[j].dwTag = other
      BY <1>4, <2>1 DEF Valid
    <3>2. c.b[i].dwAccessTime <= c.b[j].dwAccessTime
      BY <1>2, <2>1 DEF TakesOldest
    <3>3. c.b[i].dwAccessTime \in Nat /\ c.b[j].dwAccessTime \in Nat
      BY <1>3, EntryTypes
    <3>4. ~(c.b[j].dwAccessTime < c.b[i].dwAccessTime)
      BY <3>2, <3>3
    <3> QED
      BY <1>1, <1>3, <1>5, <2>1, <3>1, <3>4 DEF CacheOK, TimesAgree
  <2> QED
    BY <2>2
<1> QED
  BY <1>7 DEF OldestGoes

\* A read or a write takes the buffer that holds the sector, or the allocated one.
LEMMA TakenIs ==
    ASSUME IInv, NEW dwTag \in Tags,
           Read(dwTag) \/ \E data \in Versions : Write(dwTag, data)
    PROVE  \E i, e : /\ FreeFor(CutDownAccessTime.b, i, e) /\ Use(CutDownAccessTime, i, e)
                     /\ TakesOldest(CutDownAccessTime.b, i, e)
<1> DEFINE c == CutDownAccessTime
<1>1. CacheOK(c.b, c.time) /\ c.b \in [Buffers -> Entries]
  BY CutDownOK DEF IInv, CacheOK
<1>2. CASE With(c, dwTag) # {}
  <2> DEFINE i == First(With(c, dwTag))
  <2>1. c.b[i].dwTag = dwTag /\ FreeFor(c.b, i, c.b[i])
    BY <1>1, <1>2, FoundIs
  <2>2. \/ Use(c, i, c.b[i])
        \/ \E data \in Versions : Use(c, i, HeldAfterWrite(c, i, data))
    BY <1>2 DEF Read, Write
  <2> HIDE DEF i, c
  <2>3. ASSUME NEW data \in Versions
        PROVE  /\ HeldAfterWrite(c, i, data).dwTag = dwTag
               /\ FreeFor(c.b, i, HeldAfterWrite(c, i, data))
    <3>1. data \in Data
      BY DEF Data
    <3>2. ASSUME NEW e \in Entries
          PROVE  LET d == [e EXCEPT !.data = data, !.bChanged = TRUE] IN
                 d \in Entries /\ d.dwTag = e.dwTag
      BY <3>1 DEF Entries
    <3> QED
      BY <2>1, <3>2 DEF FreeFor, Valid, HeldAfterWrite
  <2> QED
    BY <2>1, <2>2, <2>3 DEF TakesOldest, c
<1>3. CASE With(c, dwTag) = {}
  <2>1. \/ Enter(c, Held(dwTag, disk[Address(dwTag)], FALSE))
        \/ \E data \in Versions : Enter(c, Held(dwTag, data, TRUE))
    BY <1>3 DEF Read, Write
  <2>2. PICK held \in Entries : held.dwTag = dwTag /\ Enter(c, held)
    <3>1. \A data \in Versions : data \in Data
      BY DEF Data
    <3> HIDE DEF c
    <3> QED
      BY <2>1, <3>1, HeldIs, DiskData
  <2> DEFINE i == Allocated(c)
  <2> HIDE DEF c
  <2>3. PICK e : FreeFor(c.b, i, e) /\ Use(c, i, e)
    BY <1>1, <1>3, <2>2, EnterIs
  <2>4. Valid(c.b[i]) => \A j \in Buffers : c.b[i].dwAccessTime <= c.b[j].dwAccessTime
    BY <1>1, AllocatedIs, VictimIs
  <2> HIDE DEF i
  <2> QED
    BY <2>3, <2>4 DEF TakesOldest, c
<1> QED
  BY <1>2, <1>3

LEMMA OldestStep == IInv /\ [Next]_vars => OldestGoes
<1> SUFFICES ASSUME IInv, [Next]_vars PROVE OldestGoes
  OBVIOUS
<1>1. ASSUME NEW dwTag \in Tags, Read(dwTag) \/ \E data \in Versions : Write(dwTag, data)
      PROVE  OldestGoes
  BY <1>1, TakenIs, UseOldest
<1>2. ASSUME NEW dwTag \in Tags, ReadFails(dwTag) PROVE OldestGoes
  <2>1. SameCache(CutDownAccessTime.b) /\ buffer' = CutDownAccessTime.b
    BY <1>2, CutDownOK DEF IInv, ReadFails
  <2>2. Cached' = Cached
    BY <2>1, SameCached DEF Cached
  <2> QED
    BY <2>2, NoneGoes
<1>3. ASSUME NEW n \in 0 .. MaxCount, Flush(n) PROVE OldestGoes
  <2>1. buffer' = [i \in Buffers |-> IF i <= n THEN [buffer[i] EXCEPT !.bChanged = FALSE]
                                     ELSE buffer[i]]
    BY <1>3 DEF Flush
  <2>2. ASSUME NEW e \in Entries PROVE [e EXCEPT !.bChanged = FALSE].dwTag = e.dwTag
    BY DEF Entries
  <2>3. \A i \in Buffers : buffer'[i].dwTag = buffer[i].dwTag
    BY <2>1, <2>2 DEF IInv, CacheOK
  <2>4. Cached' = Cached
    BY <2>3 DEF Cached
  <2> QED
    BY <2>4, NoneGoes
<1>4. ASSUME NEW n \in 0 .. dwClusterLinkAreaSize + 1, Format(n) PROVE OldestGoes
  <2>1. CASE buffer' = [i \in Buffers |-> [buffer[i] EXCEPT !.dwTag = CACHE_INVALIDTAG]]
    <3>1. ASSUME NEW e \in Entries
          PROVE  [e EXCEPT !.dwTag = CACHE_INVALIDTAG].dwTag = CACHE_INVALIDTAG
      BY DEF Entries
    <3>2. \A i \in Buffers : buffer'[i].dwTag = CACHE_INVALIDTAG
      BY <2>1, <3>1 DEF IInv, CacheOK
    <3>3. Cached' = {}
      BY <3>2 DEF Cached
    <3> QED
      BY <3>3, NoneGoes
  <2>2. CASE buffer' = buffer
    BY <2>2, NoneGoes DEF Cached
  <2> QED
    BY <1>4, <2>1, <2>2 DEF Format, DiscardAll, cache
<1>5. CASE Restart
  <2>1. \A i \in Buffers : buffer'[i].dwTag = CACHE_INVALIDTAG
    BY <1>5 DEF Restart, Empty
  <2>2. Cached' = {}
    BY <2>1 DEF Cached
  <2> QED
    BY <2>2, NoneGoes
<1>6. CASE buffer' = buffer
  BY <1>6, NoneGoes DEF Cached
<1> QED
  BY <1>1, <1>2, <1>3, <1>4, <1>5, <1>6 DEF Next, WriteWithoutCache, Mount, vars, cache

-----------------------------------------------------------------------------
\* The theorems

\* The inductive invariant holds of every state of the cache.
LEMMA SpecInv == Spec => []IInv
<1>1. Init => IInv
  BY InvInit
<1>2. IInv /\ [Next]_vars => IInv'
  BY InvStep
<1> QED
  BY <1>1, <1>2, PTL DEF Spec

\* The variables keep their types: an access time stays below the largest DWORD
\* but one, so that the clock never wraps, and a link table sector holds links.
THEOREM SpecTypeOK == Spec => []TypeOK
<1>1. IInv => TypeOK
  BY DEF IInv
<1> QED
  BY <1>1, SpecInv, PTL

\* To the file system the cache and the disk are one store: a read finds what
\* was written last, a flush that returns TRUE puts all of it on the disk, and a
\* restart goes back to what the disk has.
THEOREM SpecImplementsStore == Spec => ImplementsStore
<1>1. Init => Store!Init
  BY InvInit
<1>2. IInv /\ [Next]_vars => [Store!Next]_(Store!vars)
  BY InvStep DEF StoreStep, Store!vars
<1> QED
  BY <1>1, <1>2, SpecInv, PTL DEF Spec, ImplementsStore, Store!Spec

\* A sector leaves the full cache only for another, and only if it is the one
\* not used for longest, also after the access times have started again.
THEOREM SpecLeastRecentlyUsedGoes == Spec => LeastRecentlyUsedGoes
<1>1. IInv /\ [Next]_vars => [OldestGoes]_vars
  BY OldestStep
<1>2. Spec => [][OldestGoes]_vars
  BY <1>1, SpecInv, PTL DEF Spec
<1> QED
  BY <1>2 DEF LeastRecentlyUsedGoes, OldestGoes
=============================================================================
