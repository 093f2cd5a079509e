-------------------------- MODULE FileSystemProofs --------------------------
(***************************************************************************)
(* Proofs about FileSystem: for any number of tasks, names, clusters,      *)
(* directory entries and handles, any cluster size, any counts and         *)
(* offsets, with and without failing low-level calls.                      *)
(*                                                                         *)
(* TypeInv is inductive: TypeOK, and what the arguments of a call have.    *)
(* The three properties follow from IInv: as long as the code has not lost *)
(* track of the volume or a handle, Good holds, after every step and not   *)
(* only where the mutex is free.                                           *)
(*                                                                         *)
(*   VolumeInv   the files are chains that end, each long enough for the   *)
(*               size in its entry, and no two meet                        *)
(*   HandlesInv  an open handle is that of one file, alone, and on its     *)
(*               place in the chain                                        *)
(*   CallsInv    what a write under way and a kCloseFile may rely on       *)
(*   ContentInv  what was written is in the cluster of its offset          *)
(*   Exact       if nothing has failed: no cluster is lost, no chain is    *)
(*               too long and no size differs, but for the one file that   *)
(*               is being written                                          *)
(*                                                                         *)
(* The proof begins with the chains of a link table that is named (At,     *)
(* IsChain, Long), since a step relates those of two tables.               *)
(***************************************************************************)
EXTENDS FileSystem, FiniteSetTheorems, WellFoundedInduction, TLAPS

LEMMA LeastNatural ==
    ASSUME NEW S \in SUBSET Nat, S # {} PROVE \E i \in S : \A j \in S : i <= j
<1> DEFINE T == {0 .. n : n \in S}
<1>1. T \subseteq FiniteSubsetsOf(Nat) /\ T # {}
  <2>1. ASSUME NEW n \in S PROVE 0 .. n \in FiniteSubsetsOf(Nat)
    <3>1. 0 \in Int /\ n \in Int /\ 0 .. n \subseteq Nat
      OBVIOUS
    <3>2. IsFiniteSet(0 .. n)
      BY <3>1, FS_Interval
    <3> QED
      BY <3>1, <3>2 DEF FiniteSubsetsOf
  <2> QED
    BY <2>1
<1>2. PICK x \in T : \A y \in T : ~(<<y, x>> \in StrictSubsetOrdering(Nat))
  <2> HIDE DEF T
  <2> QED
    BY <1>1, FS_StrictSubsetOrderingWellFounded, WFMin
<1>3. PICK i \in S : x = 0 .. i
  BY <1>2
<1>4. ASSUME NEW j \in S, j < i PROVE FALSE
  <2>1. (0 .. j) \subseteq (0 .. i) /\ (0 .. j) # (0 .. i)
    <3>1. i \in 0 .. i /\ i \notin 0 .. j
      BY <1>4
    <3> QED
      BY <1>4, <3>1
  <2>2. <<0 .. j, 0 .. i>> \in StrictSubsetOrdering(Nat)
    BY <2>1 DEF StrictSubsetOrdering
  <2> QED
    BY <1>2, <1>3, <2>2
<1> QED
  BY <1>4

LEMMA NaturalInduction ==
    ASSUME NEW S \in SUBSET Nat, 0 \in S, \A n \in S : n + 1 \in S PROVE S = Nat
<1> SUFFICES ASSUME Nat \ S # {} PROVE FALSE
  OBVIOUS
<1>1. PICK i \in Nat \ S : \A j \in Nat \ S : i <= j
  BY LeastNatural
<1>2. i # 0 /\ i - 1 \in Nat
  BY <1>1
<1>3. i - 1 \in S
  BY <1>1, <1>2
<1> QED
  BY <1>1, <1>2, <1>3

-----------------------------------------------------------------------------
\* Walk on a table that is named
Trace(g, t, c, n) ==
    g = [k \in 0 .. n |-> IF k = 0 THEN c
                          ELSE IF g[k - 1] = LASTCLUSTER THEN LASTCLUSTER ELSE t[g[k - 1]]]

At(t, c, n) == (CHOOSE g : Trace(g, t, c, n))[n]

LEMMA WalkIs == ASSUME NEW c, NEW n PROVE Walk(c, n) = At(link, c, n)
  BY DEF Walk, At, Trace

\* Where a table leads from a cluster
Next1(t, x) == IF x = LASTCLUSTER THEN LASTCLUSTER ELSE t[x]

LEMMA TraceExists ==
    ASSUME NEW t, NEW c PROVE \A n \in Nat : \E g : Trace(g, t, c, n)
<1> DEFINE S == {n \in Nat : \E g : Trace(g, t, c, n)}
<1>1. 0 \in S
  <2> DEFINE g == [k \in 0 .. 0 |-> c]
  <2>1. Trace(g, t, c, 0)
    BY DEF Trace
  <2> QED
    BY <2>1
<1>2. ASSUME NEW n \in S PROVE n + 1 \in S
  <2>1. PICK g : Trace(g, t, c, n)
    OBVIOUS
  <2> DEFINE h == [k \in 0 .. n + 1 |-> IF k = n + 1 THEN Next1(t, g[n]) ELSE g[k]]
  <2>2. \A k \in 0 .. n : h[k] = g[k]
    OBVIOUS
  <2>3. h[n + 1] = Next1(t, h[n])
    BY <2>2
  <2>4. ASSUME NEW k \in 0 .. n + 1
        PROVE  h[k] = IF k = 0 THEN c ELSE IF h[k - 1] = LASTCLUSTER THEN LASTCLUSTER ELSE t[h[k - 1]]
    <3>1. CASE k = n + 1
      BY <2>3, <3>1 DEF Next1
    <3>2. CASE k \in 0 .. n
      BY <2>1, <2>2, <3>2 DEF Trace
    <3> QED
      BY <3>1, <3>2
  <2>5. Trace(h, t, c, n + 1)
    <3>1. h = [k \in 0 .. n + 1 |-> h[k]]
      OBVIOUS
    <3> HIDE DEF h
    <3> QED
      BY <2>4, <3>1 DEF Trace
  <2> HIDE DEF h
  <2> QED
    BY <2>5
<1> HIDE DEF S
<1>3. S = Nat
  BY <1>1, <1>2, NaturalInduction DEF S
<1> QED
  BY <1>3 DEF S

LEMMA TraceAgree ==
    ASSUME NEW t, NEW c, NEW m \in Nat, NEW n \in Nat, NEW g, NEW h,
           Trace(g, t, c, m), Trace(h, t, c, n)
    PROVE  \A k \in Nat : k <= m /\ k <= n => g[k] = h[k]
<1> DEFINE S == {k \in Nat : k <= m /\ k <= n => g[k] = h[k]}
<1>1. 0 \in S
  BY DEF Trace
<1>2. ASSUME NEW k \in S PROVE k + 1 \in S
  <2> SUFFICES ASSUME k + 1 <= m /\ k + 1 <= n PROVE g[k + 1] = h[k + 1]
    OBVIOUS
  <2>1. k + 1 \in 0 .. m /\ k + 1 \in 0 .. n /\ k + 1 # 0 /\ (k + 1) - 1 = k /\ k <= m /\ k <= n
    OBVIOUS
  <2>2. g[k + 1] = Next1(t, g[k]) /\ h[k + 1] = Next1(t, h[k])
    BY <2>1 DEF Trace, Next1
  <2> QED
    BY <2>1, <2>2
<1> HIDE DEF S
<1>3. S = Nat
  BY <1>1, <1>2, NaturalInduction DEF S
<1> QED
  BY <1>3 DEF S

LEMMA AtIs ==
    ASSUME NEW t, NEW c
    PROVE  /\ At(t, c, 0) = c
           /\ \A n \in Nat : At(t, c, n + 1) = Next1(t, At(t, c, n))
<1>1. ASSUME NEW n \in Nat PROVE Trace(CHOOSE g : Trace(g, t, c, n), t, c, n)
  BY TraceExists
<1>2. At(t, c, 0) = c
  <2>1. PICK g : g = (CHOOSE f : Trace(f, t, c, 0)) /\ Trace(g, t, c, 0)
    BY <1>1
  <2>2. g[0] = c
    BY <2>1 DEF Trace
  <2> QED
    BY <2>1, <2>2 DEF At
<1>3. ASSUME NEW n \in Nat PROVE At(t, c, n + 1) = Next1(t, At(t, c, n))
  <2>1. PICK g : g = (CHOOSE f : Trace(f, t, c, n)) /\ Trace(g, t, c, n)
    BY <1>1
  <2>2. PICK h : h = (CHOOSE f : Trace(f, t, c, n + 1)) /\ Trace(h, t, c, n + 1)
    BY <1>1
  <2>3. g[n] = h[n]
    BY <2>1, <2>2, TraceAgree
  <2>4. h[n + 1] = Next1(t, h[n])
    <3>1. n + 1 \in 0 .. n + 1 /\ n + 1 # 0 /\ (n + 1) - 1 = n
      OBVIOUS
    <3>2. h = [k \in 0 .. n + 1 |-> IF k = 0 THEN c
                ELSE IF h[k - 1] = LASTCLUSTER THEN LASTCLUSTER ELSE t[h[k - 1]]]
      BY <2>2 DEF Trace
    <3>3. h[n + 1] = IF h[n] = LASTCLUSTER THEN LASTCLUSTER ELSE t[h[n]]
      BY <3>1, <3>2
    <3> QED
      BY <3>3 DEF Next1
  <2> QED
    BY <2>1, <2>2, <2>3, <2>4 DEF At
<1> QED
  BY <1>2, <1>3

\* The link tables
Table == [Clusters -> Links]

LEMMA Constants ==
    /\ dwTotalClusterCount \in Nat /\ dwTotalClusterCount > 1
    /\ LASTCLUSTER = dwTotalClusterCount
    /\ ClusterSize \in Nat \ {0} /\ LinksPerSector \in Nat \ {0}
    /\ MaxEntries \in Nat \ {0} /\ MaxHandles \in Nat \ {0} /\ MaxSize \in Nat
    /\ Clusters = 0 .. dwTotalClusterCount - 1 /\ Links = 0 .. dwTotalClusterCount
  BY FileSystemAssumption DEF LASTCLUSTER, Clusters, Links

LEMMA LinkFacts ==
    /\ LASTCLUSTER \notin Clusters /\ LASTCLUSTER \in Links /\ LASTCLUSTER # FREECLUSTER
    /\ 0 \in Clusters /\ Clusters \subseteq Links /\ Links \subseteq Nat /\ FREECLUSTER = 0
    /\ \A x \in Links : x = LASTCLUSTER \/ x \in Clusters
  BY Constants DEF FREECLUSTER

LEMMA AtStep ==
    ASSUME NEW t, NEW c, NEW n \in Nat
    PROVE  /\ At(t, c, n) = LASTCLUSTER => At(t, c, n + 1) = LASTCLUSTER
           /\ At(t, c, n) # LASTCLUSTER => At(t, c, n + 1) = t[At(t, c, n)]
  BY AtIs DEF Next1

LEMMA AtType ==
    ASSUME NEW t \in Table, NEW c \in Links, NEW n \in Nat PROVE At(t, c, n) \in Links
<1> DEFINE S == {k \in Nat : At(t, c, k) \in Links}
<1>1. 0 \in S
  BY AtIs
<1>2. ASSUME NEW k \in S PROVE k + 1 \in S
  <2>1. At(t, c, k) = LASTCLUSTER \/ At(t, c, k) \in Clusters
    BY LinkFacts
  <2>2. At(t, c, k + 1) \in Links
    BY <2>1, AtStep, LinkFacts DEF Table
  <2> QED
    BY <2>2
<1> HIDE DEF S
<1>3. S = Nat
  BY <1>1, <1>2, NaturalInduction DEF S
<1> QED
  BY <1>3 DEF S

\* First some way and then the rest
LEMMA AtSum ==
    ASSUME NEW t, NEW c, NEW m \in Nat, NEW n \in Nat
    PROVE  At(t, c, m + n) = At(t, At(t, c, m), n)
<1> DEFINE S == {k \in Nat : At(t, c, m + k) = At(t, At(t, c, m), k)}
<1>1. 0 \in S
  BY AtIs
<1>2. ASSUME NEW k \in S PROVE k + 1 \in S
  <2>1. m + k \in Nat /\ m + (k + 1) = (m + k) + 1
    OBVIOUS
  <2>2. At(t, c, (m + k) + 1) = Next1(t, At(t, c, m + k))
    BY <2>1, AtIs
  <2>3. At(t, At(t, c, m), k + 1) = Next1(t, At(t, At(t, c, m), k))
    BY AtIs
  <2> QED
    BY <2>1, <2>2, <2>3
<1> HIDE DEF S
<1>3. S = Nat
  BY <1>1, <1>2, NaturalInduction DEF S
<1> QED
  BY <1>3 DEF S

\* Behind the last cluster there is none.
LEMMA AtLast == ASSUME NEW t, NEW n \in Nat PROVE At(t, LASTCLUSTER, n) = LASTCLUSTER
<1> DEFINE S == {k \in Nat : At(t, LASTCLUSTER, k) = LASTCLUSTER}
<1>1. 0 \in S
  BY AtIs
<1>2. ASSUME NEW k \in S PROVE k + 1 \in S
  BY AtStep
<1> HIDE DEF S
<1>3. S = Nat
  BY <1>1, <1>2, NaturalInduction DEF S
<1> QED
  BY <1>3 DEF S

LEMMA AtBehind ==
    ASSUME NEW t, NEW c, NEW m \in Nat, NEW n \in Nat, m <= n, At(t, c, m) = LASTCLUSTER
    PROVE  At(t, c, n) = LASTCLUSTER
<1>1. n - m \in Nat /\ m + (n - m) = n
  OBVIOUS
<1>2. At(t, c, m + (n - m)) = At(t, LASTCLUSTER, n - m)
  BY <1>1, AtSum
<1> QED
  BY <1>1, <1>2, AtLast

-----------------------------------------------------------------------------
\* Chains

\* From c it is n clusters to the end.
IsChain(t, c, n) ==
    n \in Nat /\ At(t, c, n) = LASTCLUSTER /\ \A k \in Nat : k < n => At(t, c, k) # LASTCLUSTER

Long(t, c) == CHOOSE n \in Nat : IsChain(t, c, n)

LEMMA ChainOnce ==
    ASSUME NEW t, NEW c, NEW m, NEW n, IsChain(t, c, m), IsChain(t, c, n) PROVE m = n
  BY DEF IsChain

LEMMA LongIs == ASSUME NEW t, NEW c, NEW n, IsChain(t, c, n) PROVE Long(t, c) = n
<1>1. n \in Nat
  BY DEF IsChain
<1>2. \E m \in Nat : IsChain(t, c, m)
  BY <1>1
<1>3. Long(t, c) \in Nat /\ IsChain(t, c, Long(t, c))
  BY <1>2 DEF Long
<1> QED
  BY <1>3, ChainOnce

LEMMA ChainExists ==
    ASSUME NEW t, NEW c, NEW n \in Nat, At(t, c, n) = LASTCLUSTER
    PROVE  IsChain(t, c, Long(t, c))
<1> DEFINE S == {k \in Nat : At(t, c, k) = LASTCLUSTER}
<1>1. PICK m \in S : \A k \in S : m <= k
  BY LeastNatural
<1>2. IsChain(t, c, m)
  BY <1>1 DEF IsChain
<1> QED
  BY <1>2, LongIs

\* The clusters of a chain are different.
LEMMA ChainApart ==
    ASSUME NEW t, NEW c, NEW n, IsChain(t, c, n), NEW j \in Nat, NEW k \in Nat,
           At(t, c, j) = At(t, c, k), At(t, c, j) # LASTCLUSTER
    PROVE  j = k
<1>1. ASSUME NEW a \in Nat, NEW b \in Nat, a < b, b < n, At(t, c, a) = At(t, c, b) PROVE FALSE
  <2> DEFINE d == n - b
  <2>1. d \in Nat /\ b + d = n /\ a + d \in Nat /\ a + d < n
    BY <1>1 DEF IsChain
  <2> HIDE DEF d
  <2>2. At(t, c, b + d) = At(t, At(t, c, b), d)
    BY <2>1, AtSum
  <2>3. At(t, c, a + d) = At(t, At(t, c, a), d)
    BY <2>1, AtSum
  <2> QED
    BY <1>1, <2>1, <2>2, <2>3 DEF IsChain
<1>2. j < n /\ k < n
  <2>1. n \in Nat /\ At(t, c, n) = LASTCLUSTER
    BY DEF IsChain
  <2>2. n <= j => FALSE
    BY <2>1, AtBehind
  <2>3. n <= k => FALSE
    BY <2>1, AtBehind
  <2> QED
    BY <2>1, <2>2, <2>3
<1> QED
  BY <1>1, <1>2

LEMMA ChainBound ==
    ASSUME NEW t \in Table, NEW c \in Links, NEW n, IsChain(t, c, n)
    PROVE  n \in Nat /\ n <= dwTotalClusterCount
<1>1. n \in Nat
  BY DEF IsChain
<1> SUFFICES ASSUME n > dwTotalClusterCount PROVE FALSE
  BY <1>1, Constants
<1> DEFINE f == [k \in 0 .. n - 1 |-> At(t, c, k)]
<1>2. ASSUME NEW k \in 0 .. n - 1 PROVE At(t, c, k) \in Clusters
  <2>1. k \in Nat /\ k < n
    BY <1>1
  <2> QED
    BY <2>1, AtType, LinkFacts DEF IsChain
<1>3. f \in [0 .. n - 1 -> Clusters]
  BY <1>2
<1>4. /\ IsFiniteSet(0 .. n - 1) /\ Cardinality(0 .. n - 1) = n
      /\ IsFiniteSet(Clusters) /\ Cardinality(Clusters) = dwTotalClusterCount
  <2>1. 0 \in Int /\ n - 1 \in Int /\ dwTotalClusterCount - 1 \in Int
    BY <1>1, Constants
  <2> QED
    BY <1>1, <2>1, FS_Interval, Constants
<1>5. Cardinality(Clusters) < Cardinality(0 .. n - 1)
  BY <1>4
<1> HIDE DEF f
<1>6. PICK x, y \in 0 .. n - 1 : x # y /\ f[x] = f[y]
  BY <1>3, <1>4, <1>5, FS_PigeonHole
<1>7. At(t, c, x) = At(t, c, y) /\ x \in Nat /\ y \in Nat /\ x < n
  BY <1>1, <1>6 DEF f
<1>8. At(t, c, x) # LASTCLUSTER
  BY <1>7 DEF IsChain
<1> QED
  BY <1>6, <1>7, <1>8, ChainApart

-----------------------------------------------------------------------------
\* What the specification computes on a chain

LEMMA ChainIs ==
    ASSUME link \in Table, NEW c \in Links, NEW n, IsChain(link, c, n)
    PROVE  /\ Ends(c) /\ Length(c) = n
           /\ \A x : x \in Chain(c) <=> x # LASTCLUSTER /\ \E k \in Nat : x = At(link, c, k)
<1>1. n \in Nat /\ n <= dwTotalClusterCount
  BY ChainBound
<1>2. Ends(c)
  <2>1. At(link, c, n) = LASTCLUSTER
    BY DEF IsChain
  <2>2. At(link, c, dwTotalClusterCount) = LASTCLUSTER
    BY <1>1, <2>1, Constants, AtBehind
  <2> QED
    BY <2>2, WalkIs DEF Ends
<1>3. Length(c) = n
  <2> DEFINE P(m) == Walk(c, m) = LASTCLUSTER /\ \A k \in 0 .. m - 1 : Walk(c, k) # LASTCLUSTER
  <2>1. ASSUME NEW m \in 0 .. dwTotalClusterCount PROVE P(m) <=> IsChain(link, c, m)
    <3>1. m \in Nat /\ \A k : k \in 0 .. m - 1 <=> k \in Nat /\ k < m
      BY Constants
    <3> QED
      BY <3>1, WalkIs DEF IsChain
  <2>2. n \in 0 .. dwTotalClusterCount /\ P(n)
    BY <1>1, <2>1, Constants
  <2> HIDE DEF P
  <2>3. PICK m : m = CHOOSE k \in 0 .. dwTotalClusterCount : P(k)
    OBVIOUS
  <2>4. m \in 0 .. dwTotalClusterCount /\ P(m)
    BY <2>2, <2>3
  <2>5. m = n
    BY <2>1, <2>4, ChainOnce
  <2> QED
    BY <2>3, <2>5 DEF Length, P
<1>4. ASSUME NEW x PROVE x \in Chain(c) <=> x # LASTCLUSTER /\ \E k \in Nat : x = At(link, c, k)
  <2>1. ASSUME x \in Chain(c) PROVE x # LASTCLUSTER /\ \E k \in Nat : x = At(link, c, k)
    <3>1. PICK k \in Clusters : x = Walk(c, k)
      BY <2>1 DEF Chain
    <3>2. k \in Nat
      BY Constants
    <3> QED
      BY <2>1, <3>1, <3>2, WalkIs DEF Chain
  <2>2. ASSUME x # LASTCLUSTER, NEW k \in Nat, x = At(link, c, k) PROVE x \in Chain(c)
    <3>1. k < n
      <4>1. At(link, c, n) = LASTCLUSTER
        BY DEF IsChain
      <4>2. n <= k => FALSE
        BY <1>1, <2>2, <4>1, AtBehind
      <4> QED
        BY <1>1, <4>2
    <3>2. k \in Clusters
      BY <1>1, <3>1, Constants
    <3> QED
      BY <2>2, <3>2, WalkIs DEF Chain
  <2> QED
    BY <2>1, <2>2
<1> QED
  BY <1>2, <1>3, <1>4

LEMMA EndsIs ==
    ASSUME NEW c, Ends(c) PROVE IsChain(link, c, Long(link, c))
<1>1. At(link, c, dwTotalClusterCount) = LASTCLUSTER /\ dwTotalClusterCount \in Nat
  BY WalkIs, Constants DEF Ends
<1> QED
  BY <1>1, ChainExists

LEMMA Division ==
    ASSUME NEW a \in Nat, NEW p \in Nat \ {0}
    PROVE  /\ (a \div p) \in Nat /\ (a \div p) * p <= a /\ a < (a \div p) * p + p
           /\ a % p \in 0 .. p - 1 /\ a = (a \div p) * p + (a % p)
           /\ \A q \in Nat : q * p <= a /\ a < q * p + p => a \div p = q
<1>1. (a \div p) \in Nat /\ (a \div p) * p <= a /\ a < (a \div p) * p + p
  OBVIOUS
<1>2. ASSUME NEW q \in Nat, q * p <= a, a < q * p + p PROVE a \div p = q
  BY <1>2
<1>3. a % p \in 0 .. p - 1
  BY SMT
<1>4. a = p * (a \div p) + (a % p)
  BY SMTT(60)
<1>5. (a \div p) * p = p * (a \div p)
  BY <1>1
<1>6. a = (a \div p) * p + (a % p)
  BY <1>4, <1>5, Zenon
<1> QED
  BY <1>1, <1>2, <1>3, <1>6, Zenon

LEMMA DivisionOrder ==
    ASSUME NEW a \in Nat, NEW b \in Nat, a <= b, NEW p \in Nat \ {0}
    PROVE  a \div p <= b \div p
<1>1. PICK q : q = a \div p
  OBVIOUS
<1>2. PICK s : s = b \div p
  OBVIOUS
<1>3. q \in Nat /\ s \in Nat /\ q * p <= a /\ b < s * p + p
  BY <1>1, <1>2, Division
<1>4. q * p < (s + 1) * p
  BY <1>3
<1>5. q < s + 1
  <2> SUFFICES ASSUME q >= s + 1 PROVE FALSE
    BY <1>3
  <2>1. q * p >= (s + 1) * p
    BY <1>3
  <2> QED
    BY <1>3, <1>4, <2>1
<1> QED
  BY <1>1, <1>2, <1>3, <1>5

\* One more byte is in the same cluster or in the next one.
LEMMA DivisionNext ==
    ASSUME NEW a \in Nat, NEW p \in Nat \ {0}
    PROVE  (a + 1) \div p = a \div p \/ (a + 1) \div p = a \div p + 1
<1>1. PICK q : q = a \div p
  OBVIOUS
<1>2. q \in Nat /\ q * p <= a /\ a < q * p + p
  BY <1>1, Division
<1>3. PICK m, r : m = a + 1 /\ r = q + 1
  OBVIOUS
<1>4. m \in Nat /\ r \in Nat /\ q * p <= m /\ r * p = q * p + p
  BY <1>2, <1>3
<1>5. CASE m < q * p + p
  <2>1. m \div p = q
    BY <1>2, <1>4, <1>5, Division
  <2> QED
    BY <1>1, <1>3, <2>1
<1>6. CASE m = q * p + p
  <2>1. r * p <= m /\ m < r * p + p
    BY <1>2, <1>4, <1>6
  <2>2. m \div p = r
    BY <1>4, <2>1, Division
  <2> QED
    BY <1>1, <1>3, <2>2
<1>7. m < q * p + p \/ m = q * p + p
  BY <1>2, <1>3
<1> QED
  BY <1>5, <1>6, <1>7

-----------------------------------------------------------------------------
\* Types

HandleType ==
    [used : BOOLEAN, entry : Entries \cup {None}, dwFileSize : Nat,
     dwStartClusterIndex : Clusters, dwCurrentClusterIndex : Links,
     dwPreviousClusterIndex : Links, dwCurrentOffset : Nat]

EntryType ==
    [name : Names \cup {NoName}, dwFileSize : Nat, dwStartClusterIndex : Clusters]

CallType ==
    [step : {"idle", "lock", "write", "update", "close"}, h : Handles \cup {None},
     left : 0 .. MaxSize, zeros : 0 .. MaxSize]

Root == [Entries -> EntryType]
Sectors == 0 .. AreaSize - 1

VolumeType ==
    /\ link \in Table /\ root \in Root /\ Last \in Sectors
    /\ data = [c \in Clusters |-> data[c]]
    /\ \A c \in Clusters : DOMAIN data[c] = 0 .. ClusterSize - 1

CallsType ==
    /\ call \in [Tasks -> CallType]
    /\ owner \in Tasks \cup {NoTask}
    /\ \A t \in Tasks : /\ owner = t <=> call[t].step \in {"write", "update"}
                        /\ call[t].step # "idle" => call[t].h \in Handles

TypeInv ==
    /\ VolumeType /\ CallsType
    /\ pool \in [Handles -> HandleType]
    /\ holder \in [Handles -> Tasks \cup {NoTask}]
    /\ content = [name \in Names |-> content[name]]
    /\ failed \in BOOLEAN /\ broken \in BOOLEAN

LEMMA Distinct ==
    /\ NoTask \notin Tasks /\ NoName \notin Names /\ None \notin Entries /\ None \notin Handles
    /\ Entries \subseteq Nat /\ Handles \subseteq Nat
  BY FileSystemAssumption DEF None, Entries, Handles

LEMMA TypeInvOK == TypeInv => TypeOK
<1> SUFFICES ASSUME TypeInv PROVE TypeOK
  OBVIOUS
<1>1. link \in [Clusters -> Links] /\ Last \in 0 .. AreaSize - 1
  BY DEF TypeInv, VolumeType, Table, Sectors
<1>2. ASSUME NEW i \in Entries
      PROVE  /\ root[i].name \in Names \cup {NoName}
             /\ root[i].dwFileSize \in Nat /\ root[i].dwStartClusterIndex \in Clusters
  <2>1. root[i] \in EntryType
    BY DEF TypeInv, VolumeType, Root
  <2> QED
    BY <2>1 DEF EntryType
<1>3. ASSUME NEW h \in Handles
      PROVE  LET f == pool[h] IN
        /\ f.used \in BOOLEAN /\ f.entry \in Entries \cup {None}
        /\ f.dwFileSize \in Nat /\ f.dwCurrentOffset \in Nat
        /\ f.dwStartClusterIndex \in Clusters
        /\ {f.dwCurrentClusterIndex, f.dwPreviousClusterIndex} \subseteq Links
  <2>1. pool[h] \in HandleType
    BY DEF TypeInv
  <2> QED
    BY <2>1 DEF HandleType
<1>4. ASSUME NEW t \in Tasks
      PROVE  /\ call[t].step \in {"idle", "lock", "write", "update", "close"}
             /\ owner = t <=> call[t].step \in {"write", "update"}
             /\ call[t].left \in 0 .. MaxSize /\ call[t].zeros \in 0 .. MaxSize
  <2>1. call[t] \in CallType
    BY DEF TypeInv, CallsType
  <2> QED
    BY <2>1 DEF CallType, TypeInv, CallsType
<1>5. \A c \in Clusters : DOMAIN data[c] = 0 .. ClusterSize - 1
  BY DEF TypeInv, VolumeType
<1>6. /\ owner \in Tasks \cup {NoTask} /\ holder \in [Handles -> Tasks \cup {NoTask}]
      /\ failed \in BOOLEAN /\ broken \in BOOLEAN
  BY DEF TypeInv, CallsType
<1> QED
  BY <1>1, <1>2, <1>3, <1>4, <1>5, <1>6 DEF TypeOK

-----------------------------------------------------------------------------
\* The searches

LEMMA Area == AreaSize \in Nat \ {0} /\ \A c \in Clusters : SectorOf(c) \in Sectors
<1> DEFINE a == dwTotalClusterCount + LinksPerSector - 1
<1>1. a \in Nat /\ a >= LinksPerSector /\ a \div LinksPerSector = AreaSize
  BY Constants DEF AreaSize
<1>2. AreaSize \in Nat /\ AreaSize * LinksPerSector <= a
      /\ a < AreaSize * LinksPerSector + LinksPerSector
  <2> HIDE DEF a
  <2> QED
    BY <1>1, Constants, Division
<1>3. AreaSize # 0
  BY <1>1, <1>2, Constants
<1>4. ASSUME NEW c \in Clusters PROVE SectorOf(c) \in Sectors
  <2>1. c \in Nat /\ c < dwTotalClusterCount
    BY Constants
  <2>2. PICK s : s = SectorOf(c)
    OBVIOUS
  <2>3. s \in Nat /\ s * LinksPerSector <= c
    BY <2>1, <2>2, Constants, Division DEF SectorOf
  <2>4. s < AreaSize
    <3> SUFFICES ASSUME s >= AreaSize PROVE FALSE
      BY <1>2, <2>3
    <3>1. s * LinksPerSector >= AreaSize * LinksPerSector
      BY <1>2, <2>3, Constants
    <3>2. s * LinksPerSector \in Nat /\ AreaSize * LinksPerSector \in Nat
      BY <1>2, <2>3, Constants
    <3> QED
      BY <1>2, <2>1, <2>3, <3>1, <3>2, Constants
  <2> QED
    BY <1>2, <2>2, <2>3, <2>4 DEF Sectors
<1> QED
  BY <1>2, <1>3, <1>4

LEMMA LowestIs ==
    ASSUME NEW S \in SUBSET Nat, None \notin S
    PROVE  IF S = {} THEN Lowest(S) = None ELSE Lowest(S) \in S /\ Lowest(S) # None
<1>1. CASE S = {}
  BY <1>1 DEF Lowest
<1>2. CASE S # {}
  <2>1. \E i \in S : \A j \in S : i <= j
    BY <1>2, LeastNatural
  <2>2. Lowest(S) \in S
    BY <1>2, <2>1 DEF Lowest
  <2> QED
    BY <1>2, <2>2
<1> QED
  BY <1>1, <1>2

LEMMA FindFreeClusterIs ==
    ASSUME link \in Table, Last \in Sectors
    PROVE  \/ FindFreeCluster = LASTCLUSTER
           \/ /\ FindFreeCluster \in Clusters /\ FindFreeCluster # LASTCLUSTER
              /\ link[FindFreeCluster] = FREECLUSTER
<1> DEFINE free == {c \in Clusters : Searched(c) /\ link[c] = FREECLUSTER}
           First(c) == \A d \in free :
                Distance(c) < Distance(d) \/ (Distance(c) = Distance(d) /\ c <= d)
<1>1. ASSUME NEW c \in Clusters PROVE Distance(c) \in Nat
  <2>1. SectorOf(c) \in Nat /\ AreaSize \in Nat \ {0} /\ Last \in Nat /\ Last < AreaSize
    BY Area DEF Sectors
  <2>2. PICK x : x = SectorOf(c) + AreaSize - Last
    OBVIOUS
  <2>3. x \in Nat
    BY <2>1, <2>2
  <2>4. x % AreaSize \in 0 .. AreaSize - 1
    BY <2>1, <2>3, Division
  <2>5. Distance(c) = x % AreaSize
    BY <2>2 DEF Distance, Last
  <2> QED
    BY <2>1, <2>4, <2>5
<1>2. CASE free = {}
  BY <1>2 DEF FindFreeCluster
<1>3. CASE free # {}
  <2> DEFINE D == {Distance(c) : c \in free}
  <2>1. D \subseteq Nat /\ D # {}
    BY <1>1, <1>3
  <2>2. PICK m \in D : \A n \in D : m <= n
    <3> HIDE DEF D
    <3> QED
      BY <2>1, LeastNatural
  <2> DEFINE E == {c \in free : Distance(c) = m}
  <2>3. E \subseteq Nat /\ E # {}
    BY <2>2, Constants
  <2>4. PICK e \in E : \A d \in E : e <= d
    <3> HIDE DEF E
    <3> QED
      BY <2>3, LeastNatural
  <2>5. First(e)
    <3> SUFFICES ASSUME NEW d \in free
                 PROVE  Distance(e) < Distance(d) \/ (Distance(e) = Distance(d) /\ e <= d)
      OBVIOUS
    <3>1. Distance(d) \in D /\ Distance(e) = m /\ Distance(d) \in Nat /\ m \in Nat
      BY <1>1, <2>1, <2>4
    <3>2. m <= Distance(d)
      BY <2>2, <3>1
    <3>3. CASE Distance(d) = m
      <4>1. d \in E
        BY <3>3
      <4> QED
        BY <2>4, <3>1, <3>3, <4>1
    <3> QED
      BY <3>1, <3>2, <3>3
  <2>6. e \in free
    BY <2>4
  <2> HIDE DEF First, D, E
  <2>7. PICK c : c = CHOOSE d \in free : First(d)
    OBVIOUS
  <2>8. c \in free
    BY <2>5, <2>6, <2>7
  <2>9. FindFreeCluster = c
    BY <1>3, <2>7 DEF FindFreeCluster, First
  <2> QED
    BY <2>8, <2>9, LinkFacts
<1> QED
  BY <1>2, <1>3

LEMMA FindEntryIs ==
    ASSUME NEW name
    PROVE  LET i == FindDirectoryEntry(name)
           IN  \/ i = None /\ \A j \in Entries : root[j].name # name
               \/ i \in Entries /\ i # None /\ root[i].name = name
<1> DEFINE S == {i \in Entries : root[i].name = name}
<1>1. S \in SUBSET Nat /\ None \notin S
  BY Distinct
<1>2. IF S = {} THEN Lowest(S) = None ELSE Lowest(S) \in S /\ Lowest(S) # None
  <2> HIDE DEF S
  <2> QED
    BY <1>1, LowestIs
<1> QED
  BY <1>2 DEF FindDirectoryEntry

LEMMA FreeEntryIs ==
    LET i == FindFreeDirectoryEntry
    IN  i = None \/ (i \in Entries /\ i # None /\ root[i].dwStartClusterIndex = 0)
<1> DEFINE S == {i \in Entries : root[i].dwStartClusterIndex = 0}
<1>1. S \in SUBSET Nat /\ None \notin S
  BY Distinct
<1>2. IF S = {} THEN Lowest(S) = None ELSE Lowest(S) \in S /\ Lowest(S) # None
  <2> HIDE DEF S
  <2> QED
    BY <1>1, LowestIs
<1> QED
  BY <1>2 DEF FindFreeDirectoryEntry

LEMMA FreeHandleIs ==
    LET h == AllocateFileDirectoryHandle
    IN  h = None \/ (h \in Handles /\ h # None /\ ~pool[h].used)
<1> DEFINE S == {h \in Handles : ~pool[h].used}
<1>1. S \in SUBSET Nat /\ None \notin S
  BY Distinct
<1>2. IF S = {} THEN Lowest(S) = None ELSE Lowest(S) \in S /\ Lowest(S) # None
  <2> HIDE DEF S
  <2> QED
    BY <1>1, LowestIs
<1> QED
  BY <1>2 DEF AllocateFileDirectoryHandle

\* How a call can leave the volume

OutcomeType ==
    [link : Table, root : Root, last : Sectors, entry : Entries \cup {None},
     failed : BOOLEAN, broken : BOOLEAN]

Allocated(t, c) == [t EXCEPT ![c] = LASTCLUSTER]
NewEntry(name, c) == [name |-> name, dwFileSize |-> 0, dwStartClusterIndex |-> c]
FreeIn(t, c) == c \in Clusters /\ t[c] = FREECLUSTER

\* From the table t the chain of c is freed behind c...
IsCut(t, u, c) ==
    /\ u \in Table /\ u[c] = LASTCLUSTER
    /\ \A d \in Clusters :
        /\ (\E k \in Nat : k >= 1 /\ d = At(t, c, k)) => u[d] = FREECLUSTER
        /\ (\A k \in Nat : d # At(t, c, k)) => u[d] = t[d]

\* ... or as a whole.
IsFreed(t, u, c) ==
    /\ u \in Table
    /\ \A d \in Clusters :
        /\ (\E k \in Nat : d = At(t, c, k)) => u[d] = FREECLUSTER
        /\ (\A k \in Nat : d # At(t, c, k)) => u[d] = t[d]

\* No file is found or made; at worst an allocated cluster is left behind.
Nothing(o) ==
    /\ o.root = root /\ o.entry = None
    /\ \/ o.link = link
       \/ \E c : FreeIn(link, c) /\ o.link = Allocated(link, c) /\ o.failed

Found(o, name) ==
    /\ o.link = link /\ o.root = root
    /\ o.entry \in Entries /\ o.entry # None /\ root[o.entry].name = name

Emptied(o, name) ==
    /\ o.entry \in Entries /\ o.entry # None /\ root[o.entry].name = name
    /\ IsCut(link, o.link, root[o.entry].dwStartClusterIndex)
    /\ o.root = [root EXCEPT ![o.entry].dwFileSize = 0]

Made(o, name) ==
    /\ \A j \in Entries : root[j].name # name
    /\ o.entry \in Entries /\ o.entry # None /\ root[o.entry].dwStartClusterIndex = 0
    /\ \E c : /\ FreeIn(link, c) /\ o.link = Allocated(link, c)
              /\ o.root = [root EXCEPT ![o.entry] = NewEntry(name, c)]

Removed(o, name) ==
    /\ o.entry \in Entries /\ o.entry # None /\ root[o.entry].name = name
    /\ IsFreed(link, o.link, root[o.entry].dwStartClusterIndex)
    /\ o.root = [root EXCEPT ![o.entry] = NoEntry]

LEMMA OutcomeTyped ==
    ASSUME NEW t \in Table, NEW r \in Root, NEW s \in Sectors, NEW i \in Entries \cup {None},
           NEW w \in BOOLEAN, NEW l \in BOOLEAN
    PROVE  Outcome(t, r, s, i, w, l) \in OutcomeType
  BY DEF Outcome, OutcomeType

LEMMA NoChangeIs ==
    ASSUME VolumeType, NEW w \in BOOLEAN
    PROVE  /\ NoChange(w) \in OutcomeType /\ Nothing(NoChange(w))
           /\ NoChange(w).failed = w /\ NoChange(w).broken = FALSE
           /\ NoChange(w).entry = None
<1>1. link \in Table /\ root \in Root /\ Last \in Sectors /\ None \in Entries \cup {None}
  BY DEF VolumeType
<1>2. FALSE \in BOOLEAN
  OBVIOUS
<1>3. NoChange(w) \in OutcomeType
  BY <1>1, <1>2, OutcomeTyped DEF NoChange
<1>4. /\ NoChange(w).link = link /\ NoChange(w).root = root /\ NoChange(w).entry = None
      /\ NoChange(w).failed = w /\ NoChange(w).broken = FALSE
  BY DEF NoChange, Outcome
<1> QED
  BY <1>3, <1>4 DEF Nothing

LEMMA CreateIs ==
    ASSUME VolumeType, NEW name \in Names, NEW o \in Create(name)
    PROVE  /\ o \in OutcomeType /\ o.broken = FALSE
           /\ (\A j \in Entries : root[j].name # name) => Nothing(o) \/ Made(o, name)
<1>1. PICK c : c = FindFreeCluster
  OBVIOUS
<1>2. PICK i : i = FindFreeDirectoryEntry
  OBVIOUS
<1>3. link \in Table /\ root \in Root /\ Last \in Sectors
  BY DEF VolumeType
<1>4. i = None \/ (i \in Entries /\ i # None /\ root[i].dwStartClusterIndex = 0)
  BY <1>2, FreeEntryIs
<1>5. CASE c = LASTCLUSTER
  <2>1. o = NoChange(FALSE)
    BY <1>1, <1>5 DEF Create
  <2> QED
    BY <2>1, NoChangeIs
<1>6. CASE c # LASTCLUSTER
  <2>1. FreeIn(link, c) /\ c \in Clusters
    BY <1>1, <1>3, <1>6, FindFreeClusterIs DEF FreeIn
  <2>2. SectorOf(c) \in Sectors
    BY <2>1, Area
  <2>3. PICK t : t = Allocated(link, c)
    OBVIOUS
  <2>4. t \in Table
    BY <1>3, <2>1, <2>3, LinkFacts DEF Allocated, Table
  <2>5. PICK r : r = [root EXCEPT ![i] = NewEntry(name, c)]
    OBVIOUS
  <2>6. r \in Root
    <3>1. NewEntry(name, c) \in EntryType
      BY <2>1 DEF NewEntry, EntryType
    <3> QED
      BY <1>3, <2>5, <3>1 DEF Root
  <2>7. \/ o = Outcome(link, root, SectorOf(c), None, FALSE, FALSE)
        \/ i # None /\ o = Outcome(t, r, SectorOf(c), i, FALSE, FALSE)
        \/ o = NoChange(TRUE)
        \/ o = Outcome(link, root, SectorOf(c), None, TRUE, FALSE)
        \/ o = Outcome(t, root, SectorOf(c), None, TRUE, FALSE)
    BY <1>1, <1>2, <1>6, <2>3, <2>5 DEF Create, IfFails, Allocated, NewEntry
  <2>8. None \in Entries \cup {None} /\ TRUE \in BOOLEAN /\ FALSE \in BOOLEAN
    OBVIOUS
  <2>9. CASE o = Outcome(link, root, SectorOf(c), None, FALSE, FALSE)
    <3>1. o.link = link /\ o.root = root /\ o.entry = None /\ o.broken = FALSE
      BY <2>9 DEF Outcome
    <3>2. o \in OutcomeType
      BY <1>3, <2>2, <2>8, <2>9, OutcomeTyped
    <3> QED
      BY <3>1, <3>2 DEF Nothing
  <2>10. CASE i # None /\ o = Outcome(t, r, SectorOf(c), i, FALSE, FALSE)
    <3>1. o.link = t /\ o.root = r /\ o.entry = i /\ o.broken = FALSE
      BY <2>10 DEF Outcome
    <3>2. i \in Entries \cup {None}
      BY <1>4
    <3>3. o \in OutcomeType
      BY <2>2, <2>4, <2>6, <2>8, <2>10, <3>2, OutcomeTyped
    <3>4. (\A j \in Entries : root[j].name # name) => Made(o, name)
      BY <1>4, <2>1, <2>3, <2>5, <2>10, <3>1 DEF Made
    <3> QED
      BY <3>1, <3>3, <3>4
  <2>11. CASE o = NoChange(TRUE)
    BY <2>8, <2>11, NoChangeIs
  <2>12. CASE o = Outcome(link, root, SectorOf(c), None, TRUE, FALSE)
    <3>1. o.link = link /\ o.root = root /\ o.entry = None /\ o.broken = FALSE
      BY <2>12 DEF Outcome
    <3>2. o \in OutcomeType
      BY <1>3, <2>2, <2>8, <2>12, OutcomeTyped
    <3> QED
      BY <3>1, <3>2 DEF Nothing
  <2>13. CASE o = Outcome(t, root, SectorOf(c), None, TRUE, FALSE)
    <3>1. o.link = t /\ o.root = root /\ o.entry = None /\ o.broken = FALSE /\ o.failed = TRUE
      BY <2>13 DEF Outcome
    <3>2. o \in OutcomeType
      BY <1>3, <2>2, <2>4, <2>8, <2>13, OutcomeTyped
    <3> QED
      BY <2>1, <2>3, <3>1, <3>2 DEF Nothing
  <2> QED
    BY <2>7, <2>9, <2>10, <2>11, <2>12, <2>13
<1> QED
  BY <1>5, <1>6

LEMMA FreedType ==
    ASSUME NEW table \in Table, NEW c, NEW n PROVE Freed(table, c, n) \in Table
  BY LinkFacts DEF Freed, Table

\* Behind c the chain is freed.
LEMMA CutIs ==
    ASSUME link \in Table, NEW c \in Clusters, Ends(c), NEW cut, NEW second,
           cut = [link EXCEPT ![c] = LASTCLUSTER], second = link[c]
    PROVE  IsCut(link, Freed(cut, second, Length(second)), c)
<1>1. PICK n : n = Long(link, c) /\ IsChain(link, c, n)
  BY EndsIs
<1>2. n \in Nat /\ n # 0
  <2>1. n \in Nat /\ At(link, c, n) = LASTCLUSTER
    BY <1>1 DEF IsChain
  <2>2. At(link, c, 0) = c
    BY AtIs
  <2> QED
    BY <2>1, <2>2, LinkFacts
<1>3. second \in Links /\ cut \in Table
  BY LinkFacts DEF Table
<1>4. \A k \in Nat : At(link, c, k + 1) = At(link, second, k)
  <2>1. At(link, c, 1) = second
    <3>1. At(link, c, 0) = c /\ 0 \in Nat /\ 0 + 1 = 1
      BY AtIs
    <3>2. At(link, c, 0 + 1) = link[At(link, c, 0)]
      BY <3>1, AtStep, LinkFacts
    <3> QED
      BY <3>1, <3>2
  <2>2. ASSUME NEW k \in Nat PROVE At(link, c, k + 1) = At(link, second, k)
    <3>1. At(link, c, 1 + k) = At(link, At(link, c, 1), k)
      BY AtSum
    <3>2. 1 + k = k + 1
      OBVIOUS
    <3> QED
      BY <2>1, <3>1, <3>2
  <2> QED
    BY <2>2
<1>5. IsChain(link, second, n - 1)
  <2>1. n - 1 \in Nat /\ (n - 1) + 1 = n
    BY <1>2
  <2>2. At(link, second, n - 1) = LASTCLUSTER
    BY <1>1, <1>4, <2>1 DEF IsChain
  <2>3. ASSUME NEW k \in Nat, k < n - 1 PROVE At(link, second, k) # LASTCLUSTER
    <3>1. k + 1 \in Nat /\ k + 1 < n
      BY <1>2, <2>3
    <3>2. At(link, c, k + 1) # LASTCLUSTER
      BY <1>1, <3>1 DEF IsChain
    <3> QED
      BY <1>4, <3>2
  <2> QED
    BY <2>1, <2>2, <2>3 DEF IsChain
<1>6. Length(second) = n - 1
  BY <1>3, <1>5, ChainIs
<1>7. PICK u : u = Freed(cut, second, Length(second))
  OBVIOUS
<1>8. u \in Table
  BY <1>3, <1>7, FreedType
<1>9. \A d \in Clusters : u[d] = IF \E k \in 0 .. (n - 1) - 1 : d = At(link, second, k)
                                THEN FREECLUSTER ELSE cut[d]
  <2>1. u = [d \in Clusters |-> IF d \in {Walk(second, k) : k \in 0 .. (n - 1) - 1}
                                THEN FREECLUSTER ELSE cut[d]]
    BY <1>6, <1>7 DEF Freed
  <2>2. \A k : Walk(second, k) = At(link, second, k)
    BY WalkIs
  <2> QED
    BY <2>1, <2>2
<1>10. ASSUME NEW d \in Clusters, NEW k \in Nat, k >= 1, d = At(link, c, k)
       PROVE  u[d] = FREECLUSTER
  <2>1. k - 1 \in Nat /\ (k - 1) + 1 = k
    BY <1>10
  <2>2. d = At(link, second, k - 1)
    BY <1>4, <1>10, <2>1
  <2>3. k - 1 < n - 1
    <3> SUFFICES ASSUME n - 1 <= k - 1 PROVE FALSE
      BY <1>2, <2>1
    <3>1. At(link, second, n - 1) = LASTCLUSTER /\ n - 1 \in Nat
      BY <1>5 DEF IsChain
    <3>2. At(link, second, k - 1) = LASTCLUSTER
      BY <2>1, <3>1, AtBehind
    <3> QED
      BY <2>2, <3>2, LinkFacts
  <2>4. k - 1 \in 0 .. (n - 1) - 1
    BY <1>2, <2>1, <2>3
  <2> QED
    BY <1>9, <2>2, <2>4
<1>11. ASSUME NEW d \in Clusters, \A k \in Nat : d # At(link, c, k) PROVE u[d] = link[d]
  <2>1. ASSUME NEW k \in 0 .. (n - 1) - 1 PROVE d # At(link, second, k)
    <3>1. k \in Nat /\ k + 1 \in Nat
      BY <1>2
    <3> QED
      BY <1>4, <1>11, <3>1
  <2>2. u[d] = cut[d]
    BY <1>9, <2>1
  <2>3. d # c
    <3>1. 0 \in Nat /\ At(link, c, 0) = c
      BY AtIs
    <3> QED
      BY <1>11, <3>1
  <2> QED
    BY <2>2, <2>3 DEF Table
<1>12. u[c] = LASTCLUSTER
  <2>1. ASSUME NEW k \in 0 .. (n - 1) - 1 PROVE c # At(link, second, k)
    <3>1. k \in Nat /\ k + 1 \in Nat /\ k + 1 # 0 /\ k + 1 < n
      BY <1>2
    <3>2. At(link, c, k + 1) = At(link, second, k)
      BY <1>4, <3>1
    <3>3. At(link, c, 0) = c
      BY AtIs
    <3>4. c # LASTCLUSTER
      BY LinkFacts
    <3> QED
      BY <1>1, <3>1, <3>2, <3>3, <3>4, ChainApart
  <2>2. u[c] = cut[c]
    BY <1>9, <2>1
  <2> QED
    BY <2>2 DEF Table
<1> QED
  BY <1>7, <1>8, <1>10, <1>11, <1>12 DEF IsCut

LEMMA FreedIs ==
    ASSUME link \in Table, NEW c \in Clusters, Ends(c)
    PROVE  IsFreed(link, Freed(link, c, Length(c)), c)
<1>1. PICK n : n = Long(link, c) /\ IsChain(link, c, n)
  BY EndsIs
<1>2. n \in Nat
  BY <1>1 DEF IsChain
<1>3. Length(c) = n
  BY <1>1, ChainIs, LinkFacts
<1>4. PICK u : u = Freed(link, c, Length(c))
  OBVIOUS
<1>5. u \in Table
  BY <1>4, FreedType
<1>6. \A d \in Clusters : u[d] = IF \E k \in 0 .. n - 1 : d = At(link, c, k)
                                THEN FREECLUSTER ELSE link[d]
  <2>1. u = [d \in Clusters |-> IF d \in {Walk(c, k) : k \in 0 .. n - 1}
                                THEN FREECLUSTER ELSE link[d]]
    BY <1>3, <1>4 DEF Freed
  <2>2. \A k : Walk(c, k) = At(link, c, k)
    BY WalkIs
  <2> QED
    BY <2>1, <2>2
<1>7. ASSUME NEW d \in Clusters, NEW k \in Nat, d = At(link, c, k) PROVE u[d] = FREECLUSTER
  <2>1. k < n
    <3> SUFFICES ASSUME n <= k PROVE FALSE
      BY <1>2
    <3>1. At(link, c, n) = LASTCLUSTER
      BY <1>1 DEF IsChain
    <3>2. At(link, c, k) = LASTCLUSTER
      BY <1>2, <3>1, AtBehind
    <3> QED
      BY <1>7, <3>2, LinkFacts
  <2>2. k \in 0 .. n - 1
    BY <1>2, <2>1
  <2> QED
    BY <1>6, <1>7, <2>2
<1>8. ASSUME NEW d \in Clusters, \A k \in Nat : d # At(link, c, k) PROVE u[d] = link[d]
  <2>1. ASSUME NEW k \in 0 .. n - 1 PROVE d # At(link, c, k)
    <3>1. k \in Nat
      BY <1>2
    <3> QED
      BY <1>8, <3>1
  <2> QED
    BY <1>6, <2>1
<1> QED
  BY <1>4, <1>5, <1>7, <1>8 DEF IsFreed

LEMMA TruncateIs ==
    ASSUME VolumeType, NEW name, NEW i \in Entries, i # None, root[i].name = name,
           Ends(root[i].dwStartClusterIndex), NEW o \in Truncate(i)
    PROVE  /\ o \in OutcomeType
           /\ o.broken = FALSE => Nothing(o) \/ (Emptied(o, name) /\ o.failed = FALSE)
           /\ o.broken = TRUE => o.failed = TRUE
<1>1. link \in Table /\ root \in Root /\ Last \in Sectors
  BY DEF VolumeType
<1>2. root[i] \in EntryType
  BY <1>1 DEF Root
<1>3. PICK c : c = root[i].dwStartClusterIndex
  OBVIOUS
<1>4. c \in Clusters
  BY <1>2, <1>3 DEF EntryType
<1>5. PICK cut : cut = [link EXCEPT ![c] = LASTCLUSTER]
  OBVIOUS
<1>6. PICK second : second = link[c]
  OBVIOUS
<1>7. cut \in Table
  BY <1>1, <1>4, <1>5, LinkFacts DEF Table
<1>8. PICK r : r = [root EXCEPT ![i].dwFileSize = 0]
  OBVIOUS
<1>9. r \in Root
  BY <1>1, <1>2, <1>8 DEF Root, EntryType
<1>10. \/ o = Outcome(Freed(cut, second, Length(second)), r, Last, i, FALSE, FALSE)
       \/ o = NoChange(TRUE)
       \/ \E n \in 0 .. Length(second) : o = Outcome(Freed(cut, second, n), root, Last, None, TRUE, TRUE)
  BY <1>3, <1>5, <1>6, <1>8 DEF Truncate, IfFails
<1>11. TRUE \in BOOLEAN /\ FALSE \in BOOLEAN /\ None \in Entries \cup {None} /\ i \in Entries \cup {None}
  OBVIOUS
<1>12. CASE o = Outcome(Freed(cut, second, Length(second)), r, Last, i, FALSE, FALSE)
  <2>1. PICK u : u = Freed(cut, second, Length(second))
    OBVIOUS
  <2>2. u \in Table
    BY <1>7, <2>1, FreedType
  <2>3. o \in OutcomeType
    BY <1>1, <1>9, <1>11, <1>12, <2>1, <2>2, OutcomeTyped
  <2>4. o.link = u /\ o.root = r /\ o.entry = i /\ o.broken = FALSE /\ o.failed = FALSE
    BY <1>12, <2>1 DEF Outcome
  <2>5. IsCut(link, u, c)
    BY <1>1, <1>3, <1>4, <1>5, <1>6, <2>1, CutIs
  <2>6. Emptied(o, name)
    BY <1>3, <1>8, <2>4, <2>5 DEF Emptied
  <2> QED
    BY <2>3, <2>4, <2>6
<1>13. CASE o = NoChange(TRUE)
  BY <1>11, <1>13, NoChangeIs
<1>14. CASE \E n \in 0 .. Length(second) : o = Outcome(Freed(cut, second, n), root, Last, None, TRUE, TRUE)
  <2>1. PICK n : o = Outcome(Freed(cut, second, n), root, Last, None, TRUE, TRUE)
    BY <1>14
  <2>2. PICK u : u = Freed(cut, second, n)
    OBVIOUS
  <2>3. u \in Table
    BY <1>7, <2>2, FreedType
  <2>4. o \in OutcomeType
    BY <1>1, <1>11, <2>1, <2>2, <2>3, OutcomeTyped
  <2>5. o.broken = TRUE /\ o.failed = TRUE
    BY <2>1 DEF Outcome
  <2> QED
    BY <2>4, <2>5
<1> QED
  BY <1>10, <1>12, <1>13, <1>14

LEMMA RemoveIs ==
    ASSUME VolumeType, NEW name, NEW i \in Entries, i # None, root[i].name = name,
           Ends(root[i].dwStartClusterIndex), NEW o \in Remove(i)
    PROVE  /\ o \in OutcomeType
           /\ o.broken = FALSE => Nothing(o) \/ Removed(o, name)
<1>1. link \in Table /\ root \in Root /\ Last \in Sectors
  BY DEF VolumeType
<1>2. root[i] \in EntryType
  BY <1>1 DEF Root
<1>3. PICK c : c = root[i].dwStartClusterIndex
  OBVIOUS
<1>4. c \in Clusters
  BY <1>2, <1>3 DEF EntryType
<1>5. PICK r : r = [root EXCEPT ![i] = NoEntry]
  OBVIOUS
<1>6. r \in Root
  <2>1. NoEntry \in EntryType
    BY LinkFacts DEF NoEntry, EntryType
  <2> QED
    BY <1>1, <1>5, <2>1 DEF Root
<1>7. \/ o = Outcome(Freed(link, c, Length(c)), r, Last, i, FALSE, FALSE)
      \/ o = NoChange(TRUE)
      \/ \E n \in 1 .. Length(c) : o = Outcome(Freed(link, c, n), root, Last, None, TRUE, TRUE)
  BY <1>3, <1>5 DEF Remove, IfFails
<1>8. TRUE \in BOOLEAN /\ FALSE \in BOOLEAN /\ None \in Entries \cup {None} /\ i \in Entries \cup {None}
  OBVIOUS
<1>9. CASE o = Outcome(Freed(link, c, Length(c)), r, Last, i, FALSE, FALSE)
  <2>1. PICK u : u = Freed(link, c, Length(c))
    OBVIOUS
  <2>2. u \in Table
    BY <1>1, <2>1, FreedType
  <2>3. o \in OutcomeType
    BY <1>1, <1>6, <1>8, <1>9, <2>1, <2>2, OutcomeTyped
  <2>4. o.link = u /\ o.root = r /\ o.entry = i
    BY <1>9, <2>1 DEF Outcome
  <2>5. IsFreed(link, u, c)
    BY <1>1, <1>3, <1>4, <2>1, FreedIs
  <2>6. Removed(o, name)
    BY <1>3, <1>5, <2>4, <2>5 DEF Removed
  <2> QED
    BY <2>3, <2>6
<1>10. CASE o = NoChange(TRUE)
  BY <1>8, <1>10, NoChangeIs
<1>11. CASE \E n \in 1 .. Length(c) : o = Outcome(Freed(link, c, n), root, Last, None, TRUE, TRUE)
  <2>1. PICK n : o = Outcome(Freed(link, c, n), root, Last, None, TRUE, TRUE)
    BY <1>11
  <2>2. PICK u : u = Freed(link, c, n)
    OBVIOUS
  <2>3. u \in Table
    BY <1>1, <2>2, FreedType
  <2>4. o \in OutcomeType
    BY <1>1, <1>8, <2>1, <2>2, <2>3, OutcomeTyped
  <2>5. o.broken = TRUE
    BY <2>1 DEF Outcome
  <2> QED
    BY <2>4, <2>5
<1> QED
  BY <1>7, <1>9, <1>10, <1>11

\* What a call to kOpenFile finds, makes or leaves as it was.
LEMMA OpenIs ==
    ASSUME VolumeType, NEW name \in Names, NEW mode, NEW o \in Open(name, mode),
           LET i == FindDirectoryEntry(name)
           IN  i # None => Ends(root[i].dwStartClusterIndex)
    PROVE  /\ o \in OutcomeType
           /\ o.broken = FALSE =>
                \/ Nothing(o)
                \/ Found(o, name) /\ o.entry = FindDirectoryEntry(name)
                \/ Emptied(o, name) /\ o.entry = FindDirectoryEntry(name)
                \/ Made(o, name) /\ FindDirectoryEntry(name) = None
<1>1. PICK i : i = FindDirectoryEntry(name)
  OBVIOUS
<1>2. link \in Table /\ root \in Root /\ Last \in Sectors
  BY DEF VolumeType
<1>3. \/ i = None /\ \A j \in Entries : root[j].name # name
      \/ i \in Entries /\ i # None /\ root[i].name = name
  BY <1>1, FindEntryIs
<1>4. TRUE \in BOOLEAN /\ FALSE \in BOOLEAN
  OBVIOUS
<1>5. \/ i # None /\ o \in Truncate(i)
      \/ i # None /\ o = Outcome(link, root, Last, i, FALSE, FALSE)
      \/ o = NoChange(i # None)
      \/ \E p \in Create(name) :
            o = [p EXCEPT !.failed = p.failed \/ i # None, !.broken = p.broken \/ i # None]
  BY <1>1 DEF Open, IfFails
<1>6. CASE i # None /\ o \in Truncate(i)
  <2>1. i \in Entries /\ root[i].name = name /\ Ends(root[i].dwStartClusterIndex)
    BY <1>1, <1>3, <1>6
  <2>2. /\ o \in OutcomeType
        /\ o.broken = FALSE => Nothing(o) \/ (Emptied(o, name) /\ o.failed = FALSE)
    BY <1>6, <2>1, TruncateIs
  <2>3. Emptied(o, name) /\ o.broken = FALSE => o.entry = i
    <3>1. \/ o = NoChange(TRUE)
          \/ \E u, r, w : o = Outcome(u, r, Last, i, w, FALSE)
          \/ \E u, n : o = Outcome(u, root, Last, None, TRUE, TRUE)
      BY <1>6 DEF Truncate, IfFails
    <3>2. o.entry = None \/ o.entry = i
      BY <3>1 DEF Outcome, NoChange
    <3> QED
      BY <3>2 DEF Emptied
  <2> QED
    BY <1>1, <2>2, <2>3
<1>7. CASE i # None /\ o = Outcome(link, root, Last, i, FALSE, FALSE)
  <2>1. i \in Entries \cup {None} /\ i \in Entries /\ root[i].name = name
    BY <1>3, <1>7
  <2>2. o \in OutcomeType
    BY <1>2, <1>4, <1>7, <2>1, OutcomeTyped
  <2>3. o.link = link /\ o.root = root /\ o.entry = i
    BY <1>7 DEF Outcome
  <2> QED
    BY <1>1, <1>7, <2>1, <2>2, <2>3 DEF Found
<1>8. CASE o = NoChange(i # None)
  <2>1. PICK w \in BOOLEAN : w <=> i # None
    OBVIOUS
  <2>2. w = (i # None)
    BY <2>1
  <2>3. o = NoChange(w)
    BY <1>8, <2>2
  <2> QED
    BY <2>3, NoChangeIs
<1>9. CASE \E p \in Create(name) :
            o = [p EXCEPT !.failed = p.failed \/ i # None, !.broken = p.broken \/ i # None]
  <2>1. PICK p \in Create(name) :
            o = [p EXCEPT !.failed = p.failed \/ i # None, !.broken = p.broken \/ i # None]
    BY <1>9
  <2>2. /\ p \in OutcomeType /\ p.broken = FALSE
        /\ (\A j \in Entries : root[j].name # name) => Nothing(p) \/ Made(p, name)
    BY CreateIs
  <2>3. /\ o.link = p.link /\ o.root = p.root /\ o.entry = p.entry
        /\ o.failed = (p.failed \/ i # None) /\ o.broken = (p.broken \/ i # None)
    BY <2>1, <2>2 DEF OutcomeType
  <2>4. o \in OutcomeType
    BY <2>1, <2>2 DEF OutcomeType
  <2>5. o.broken = FALSE => i = None
    BY <2>2, <2>3
  <2>6. Nothing(p) => Nothing(o)
    BY <2>3 DEF Nothing
  <2>7. Made(p, name) => Made(o, name)
    BY <2>3 DEF Made
  <2> QED
    BY <1>1, <1>3, <2>2, <2>4, <2>5, <2>6, <2>7
<1> QED
  BY <1>5, <1>6, <1>7, <1>8, <1>9

\* The handles

LEMMA AdvanceType ==
    ASSUME link \in Table, NEW f \in HandleType, NEW n \in Nat
    PROVE  Advance(f, n) \in HandleType /\ Advance(f, n).dwCurrentOffset = f.dwCurrentOffset + n
<1>1. f.dwCurrentOffset \in Nat /\ f.dwCurrentClusterIndex \in Links /\ f.dwPreviousClusterIndex \in Links
  BY DEF HandleType
<1>2. PICK m : m = (f.dwCurrentOffset + n) \div ClusterSize - f.dwCurrentOffset \div ClusterSize
  OBVIOUS
<1>3. m \in Nat
  <2>1. f.dwCurrentOffset + n \in Nat /\ f.dwCurrentOffset <= f.dwCurrentOffset + n
    BY <1>1
  <2>2. /\ f.dwCurrentOffset \div ClusterSize \in Nat
        /\ (f.dwCurrentOffset + n) \div ClusterSize \in Nat
        /\ f.dwCurrentOffset \div ClusterSize <= (f.dwCurrentOffset + n) \div ClusterSize
    BY <1>1, <2>1, Constants, Division, DivisionOrder
  <2> QED
    BY <1>2, <2>2
<1>4. Walk(f.dwCurrentClusterIndex, m) \in Links
  BY <1>1, <1>3, WalkIs, AtType
<1>5. m # 0 => Walk(f.dwCurrentClusterIndex, m - 1) \in Links
  BY <1>1, <1>3, WalkIs, AtType
<1>6. Advance(f, n) =
        [f EXCEPT !.dwCurrentOffset = @ + n,
                  !.dwCurrentClusterIndex = Walk(f.dwCurrentClusterIndex, m),
                  !.dwPreviousClusterIndex =
                      IF m = 0 THEN f.dwPreviousClusterIndex ELSE Walk(f.dwCurrentClusterIndex, m - 1)]
  BY <1>2 DEF Advance
<1>7. PICK c, p : c = Walk(f.dwCurrentClusterIndex, m) /\
        p = (IF m = 0 THEN f.dwPreviousClusterIndex ELSE Walk(f.dwCurrentClusterIndex, m - 1))
  OBVIOUS
<1>8. c \in Links /\ p \in Links
  BY <1>1, <1>4, <1>5, <1>7
<1>9. Advance(f, n) = [f EXCEPT !.dwCurrentOffset = @ + n, !.dwCurrentClusterIndex = c,
                                !.dwPreviousClusterIndex = p]
  BY <1>6, <1>7
<1>10. PICK o \in Nat : o = f.dwCurrentOffset + n
  BY <1>1
<1>11. Advance(f, n) = [f EXCEPT !.dwCurrentOffset = o, !.dwCurrentClusterIndex = c,
                                 !.dwPreviousClusterIndex = p]
  BY <1>9, <1>10
<1> QED
  BY <1>8, <1>10, <1>11 DEF HandleType

LEMMA StuckType ==
    ASSUME link \in Table, NEW f \in HandleType, NEW n \in Nat, n > 0
    PROVE  Stuck(f, n) \in HandleType
<1>1. PICK m \in Nat : m = n - 1
  OBVIOUS
<1>2. PICK g : g = Advance(f, m)
  OBVIOUS
<1>3. g \in HandleType
  BY <1>2, AdvanceType
<1>4. Stuck(f, n) = [g EXCEPT !.dwCurrentOffset = f.dwCurrentOffset + n]
  BY <1>1, <1>2 DEF Stuck
<1> QED
  BY <1>3, <1>4 DEF HandleType

LEMMA RealOffsetType ==
    ASSUME NEW f \in HandleType, NEW iOffset \in Int, NEW iOrigin \in {"SET", "CUR", "END"}
    PROVE  RealOffset(f, iOffset, iOrigin) \in Nat
<1>1. PICK base : base = CASE iOrigin = "SET" -> 0
                           [] iOrigin = "CUR" -> f.dwCurrentOffset
                           [] iOrigin = "END" -> f.dwFileSize
  OBVIOUS
<1>2. base \in Nat
  BY <1>1 DEF HandleType
<1>3. RealOffset(f, iOffset, iOrigin) = IF base + iOffset < 0 THEN 0 ELSE base + iOffset
  BY <1>1 DEF RealOffset
<1> QED
  BY <1>2, <1>3

LEMMA ClusterOfType == ASSUME NEW a \in Nat PROVE ClusterOf(a) \in Nat
  BY Constants, Division DEF ClusterOf

LEMMA SeekType ==
    ASSUME link \in Table, NEW f \in HandleType, NEW real \in Nat
    PROVE  Seek(f, real) \in HandleType
<1>1. /\ f.dwCurrentOffset \in Nat /\ f.dwFileSize \in Nat
      /\ f.dwCurrentClusterIndex \in Links /\ f.dwPreviousClusterIndex \in Links
      /\ f.dwStartClusterIndex \in Links
  BY LinkFacts DEF HandleType
<1>2. PICK n : n = MoveCount(f, real)
  OBVIOUS
<1>3. n \in Int
  BY <1>1, <1>2, ClusterOfType DEF MoveCount
<1>4. PICK c : c = MoveFrom(f, real)
  OBVIOUS
<1>5. c \in Links
  BY <1>1, <1>4 DEF MoveFrom
<1>6. n > 0 => Walk(c, n) \in Links /\ Walk(c, n - 1) \in Links
  BY <1>3, <1>5, WalkIs, AtType
<1>7. PICK o : o = IF IsBeyond(f, real) THEN f.dwFileSize ELSE real
  OBVIOUS
<1>8. o \in Nat
  BY <1>1, <1>7
<1>9. PICK d, p :
        /\ d = (IF n > 0 THEN Walk(c, n) ELSE IF c = f.dwStartClusterIndex
                THEN f.dwStartClusterIndex ELSE f.dwCurrentClusterIndex)
        /\ p = (IF n > 0 THEN Walk(c, n - 1) ELSE IF c = f.dwStartClusterIndex
                THEN f.dwStartClusterIndex ELSE f.dwPreviousClusterIndex)
  OBVIOUS
<1>10. d \in Links /\ p \in Links
  BY <1>1, <1>6, <1>9
<1>11. Seek(f, real) = [f EXCEPT !.dwCurrentClusterIndex = d, !.dwPreviousClusterIndex = p,
                                 !.dwCurrentOffset = o]
  BY <1>2, <1>4, <1>7, <1>9 DEF Seek
<1> QED
  BY <1>8, <1>10, <1>11 DEF HandleType

\* As far as what is asked for is on the chain.
LEMMA TotalIs ==
    ASSUME NEW f, NEW asked \in Nat, NEW total,
           total = CHOOSE n \in 0 .. asked :
            /\ n > 0 => InChain(f, n)
            /\ n < asked => ~InChain(f, n + 1)
    PROVE  /\ total \in Nat /\ total <= asked /\ (total > 0 => InChain(f, total))
           /\ total < asked => ~InChain(f, total + 1)
<1> DEFINE P(n) == /\ n > 0 => InChain(f, n)
                   /\ n < asked => ~InChain(f, n + 1)
<1> DEFINE T == {n \in 0 .. asked : n < asked => ~InChain(f, n + 1)}
<1>1. asked \in T /\ T \in SUBSET Nat
  OBVIOUS
<1>2. PICK n \in T : \A m \in T : n <= m
  BY <1>1, LeastNatural
<1>3. n \in 0 .. asked /\ (n < asked => ~InChain(f, n + 1))
  BY <1>2
<1>4. n > 0 => InChain(f, n)
  <2>1. SUFFICES ASSUME n > 0, ~InChain(f, n) PROVE FALSE
    OBVIOUS
  <2>2. PICK m \in 0 .. asked : m + 1 = n
    BY <1>3, <2>1
  <2>3. m \in T
    BY <2>1, <2>2
  <2> QED
    BY <1>2, <2>2, <2>3
<1>5. P(n)
  BY <1>3, <1>4
<1>6. total = CHOOSE k \in 0 .. asked : P(k)
  OBVIOUS
<1>7. total \in 0 .. asked /\ P(total)
  <2> HIDE DEF P
  <2> QED
    BY <1>3, <1>5, <1>6
<1> QED
  BY <1>7

-----------------------------------------------------------------------------
\* The types are kept

Recorded == content = [name \in Names |-> content[name]]

LEMMA TypeInit == ASSUME Init PROVE TypeInv
<1>1. VolumeType
  <2>1. link \in Table
    BY LinkFacts DEF Init, Table
  <2>2. root \in Root
    BY LinkFacts DEF Init, Root, EntryType, NoEntry
  <2>3. Last \in Sectors
    BY Area DEF Init, Last, Sectors
  <2>4. data = [c \in Clusters |-> data[c]] /\ \A c \in Clusters : DOMAIN data[c] = 0 .. ClusterSize - 1
    BY DEF Init, Unknown
  <2> QED
    BY <2>1, <2>2, <2>3, <2>4 DEF VolumeType
<1>2. CallsType
  <2>1. Idle \in CallType /\ Idle.step = "idle"
    BY Constants DEF Idle, CallType
  <2>2. call = [t \in Tasks |-> Idle] /\ owner = NoTask
    BY DEF Init
  <2>3. \A t \in Tasks : t # NoTask
    BY Distinct
  <2> QED
    BY <2>1, <2>2, <2>3 DEF CallsType
<1>3. pool \in [Handles -> HandleType]
  BY LinkFacts DEF Init, HandleType, FreeHandle
<1>4. holder \in [Handles -> Tasks \cup {NoTask}] /\ Recorded /\ failed \in BOOLEAN /\ broken \in BOOLEAN
  BY DEF Init, Recorded
<1> QED
  BY <1>1, <1>2, <1>3, <1>4 DEF TypeInv, Recorded

LEMMA FreeHandleType == FreeHandle \in HandleType
  BY LinkFacts DEF HandleType, FreeHandle

LEMMA VolumeKept == ASSUME VolumeType, UNCHANGED volume PROVE VolumeType'
  BY DEF VolumeType, volume, Last

LEMMA CallsKept == ASSUME CallsType, UNCHANGED <<call, owner>> PROVE CallsType'
  BY DEF CallsType

\* A call goes on, and takes the mutex, keeps it or gives it back.
LEMMA CallsStep ==
    ASSUME CallsType, NEW t \in Tasks, NEW c \in CallType, call' = [call EXCEPT ![t] = c],
           c.step # "idle" => c.h \in Handles,
           \/ /\ c.step \in {"write", "update"} /\ owner' = t
              /\ owner = NoTask \/ owner = t
           \/ /\ c.step \notin {"write", "update"} /\ owner' = NoTask
              /\ owner = NoTask \/ owner = t
           \/ c.step \notin {"write", "update"} /\ owner' = owner /\ owner # t
    PROVE  CallsType'
<1>1. call' \in [Tasks -> CallType] /\ owner' \in Tasks \cup {NoTask}
  BY DEF CallsType
<1>2. ASSUME NEW u \in Tasks
      PROVE  /\ owner' = u <=> call'[u].step \in {"write", "update"}
             /\ call'[u].step # "idle" => call'[u].h \in Handles
  <2>1. u # NoTask /\ t # NoTask
    BY Distinct
  <2>2. CASE u = t
    BY <2>1, <2>2 DEF CallsType
  <2>3. CASE u # t
    <3>1. call'[u] = call[u]
      BY <2>3 DEF CallsType
    <3> QED
      BY <2>1, <2>3, <3>1 DEF CallsType
  <2> QED
    BY <2>2, <2>3
<1> QED
  BY <1>1, <1>2 DEF CallsType

LEMMA LeaveType ==
    ASSUME VolumeType, failed \in BOOLEAN, broken \in BOOLEAN, NEW o \in OutcomeType, Leave(o)
    PROVE  VolumeType' /\ failed' \in BOOLEAN /\ broken' \in BOOLEAN
<1>1. o.link \in Table /\ o.root \in Root /\ o.last \in Sectors /\ o.failed \in BOOLEAN /\ o.broken \in BOOLEAN
  BY DEF OutcomeType
<1>2. link' \in Table /\ root' \in Root /\ Last' \in Sectors
  BY <1>1 DEF Leave, Last
<1>3. data' = [c \in Clusters |-> IF o.link[c] = FREECLUSTER THEN Unknown ELSE data[c]]
  BY DEF Leave
<1>4. \A c \in Clusters : data'[c] = IF o.link[c] = FREECLUSTER THEN Unknown ELSE data[c]
  BY <1>3
<1>5. data' = [c \in Clusters |-> data'[c]]
  BY <1>3, <1>4
<1>6. \A c \in Clusters : DOMAIN data'[c] = 0 .. ClusterSize - 1
  BY <1>4 DEF VolumeType, Unknown
<1>7. failed' \in BOOLEAN /\ broken' \in BOOLEAN
  BY <1>1 DEF Leave
<1> QED
  BY <1>2, <1>5, <1>6, <1>7 DEF VolumeType

\* The handle kOpenFile fills, and whether a kCloseFile is still zeroing it
Opened(o) ==
    [used |-> TRUE, entry |-> o.entry,
     dwFileSize |-> o.root[o.entry].dwFileSize,
     dwStartClusterIndex |-> o.root[o.entry].dwStartClusterIndex,
     dwCurrentClusterIndex |-> o.root[o.entry].dwStartClusterIndex,
     dwPreviousClusterIndex |-> o.root[o.entry].dwStartClusterIndex,
     dwCurrentOffset |-> 0]

Wiped(h) == h \in {call[u].h : u \in {u \in Tasks : call[u].step = "close"}}

GivenOut(o, t, h, mode, sought) ==
    IF o.entry = None \/ h = None THEN sought /\ UNCHANGED <<pool, holder>>
    ELSE /\ pool' = [pool EXCEPT ![h] =
                IF mode = "a" /\ sought THEN Seek(Opened(o), Opened(o).dwFileSize) ELSE Opened(o)]
         /\ holder' = [holder EXCEPT ![h] = t]

Emptying(o, name) ==
    content' = IF o.entry # None /\ o.root[o.entry].dwFileSize = 0
               THEN [content EXCEPT ![name] = <<>>] ELSE content

\* How the call leaves the volume, the seek of "a" counted in
Reached(o, h, sought) ==
    [o EXCEPT !.failed = @ \/ ~sought, !.broken = @ \/ (Wiped(h) /\ o.entry # None)]

Opening(o, t, name, h, mode, sought) ==
    /\ Leave(Reached(o, h, sought)) /\ Emptying(o, name) /\ GivenOut(o, t, h, mode, sought)
    /\ sought = FALSE => MayFail

LEMMA OpenFileIs ==
    ASSUME NEW t, NEW name, NEW mode, OpenFile(t, name, mode)
    PROVE  \E o \in Open(name, mode), sought \in BOOLEAN :
                Opening(o, t, name, AllocateFileDirectoryHandle, mode, sought)
<1>1. PICK o \in Open(name, mode), sought \in {TRUE} \cup IfFails({FALSE}) :
        /\ Leave(Reached(o, AllocateFileDirectoryHandle, sought))
        /\ Emptying(o, name)
        /\ GivenOut(o, t, AllocateFileDirectoryHandle, mode, sought)
  BY Zenon DEF OpenFile, Wiped, Emptying, GivenOut, Opened, Reached
<1>2. sought \in BOOLEAN /\ (sought = FALSE => MayFail)
  BY <1>1 DEF IfFails
<1> QED
  BY <1>1, <1>2 DEF Opening

LEMMA TypeOpenFile ==
    ASSUME TypeInv, NEW t \in Tasks, NEW name \in Names, NEW mode, OpenFile(t, name, mode)
    PROVE  TypeInv'
<1>1. /\ VolumeType /\ CallsType /\ pool \in [Handles -> HandleType]
      /\ holder \in [Handles -> Tasks \cup {NoTask}] /\ Recorded
      /\ failed \in BOOLEAN /\ broken \in BOOLEAN
  BY DEF TypeInv, Recorded
<1>2. LET i == FindDirectoryEntry(name) IN i # None => Ends(root[i].dwStartClusterIndex)
  BY DEF OpenFile
<1>3. PICK h : h = AllocateFileDirectoryHandle
  OBVIOUS
<1>4. PICK o \in Open(name, mode), sought \in BOOLEAN : Opening(o, t, name, h, mode, sought)
  BY <1>3, OpenFileIs
<1>5. Leave(Reached(o, h, sought)) /\ Emptying(o, name) /\ GivenOut(o, t, h, mode, sought)
  BY <1>4 DEF Opening
<1>6. o \in OutcomeType
  BY <1>1, <1>2, OpenIs
<1>7. VolumeType' /\ failed' \in BOOLEAN /\ broken' \in BOOLEAN
  <2>1. PICK q : q = Reached(o, h, sought)
    OBVIOUS
  <2>2. q \in OutcomeType
    BY <1>6, <2>1 DEF OutcomeType, Reached
  <2> QED
    BY <1>1, <1>5, <2>1, <2>2, LeaveType
<1>8. CallsType'
  BY <1>1, CallsKept DEF OpenFile
<1>9. content' = [x \in Names |-> content'[x]]
  BY <1>1, <1>5 DEF Recorded, Emptying
<1>10. pool' \in [Handles -> HandleType] /\ holder' \in [Handles -> Tasks \cup {NoTask}]
  <2>1. CASE o.entry = None \/ h = None
    BY <1>1, <1>5, <2>1 DEF GivenOut
  <2>2. CASE o.entry # None /\ h # None
    <3>1. o.root \in Root /\ o.entry \in Entries
      BY <1>6, <2>2 DEF OutcomeType
    <3>2. o.root[o.entry] \in EntryType
      BY <3>1 DEF Root
    <3>3. PICK f : f = Opened(o)
      OBVIOUS
    <3>4. f \in HandleType
      BY <3>1, <3>2, <3>3, LinkFacts DEF EntryType, HandleType, Opened
    <3>5. f.dwFileSize \in Nat
      BY <3>4 DEF HandleType
    <3>6. Seek(f, f.dwFileSize) \in HandleType
      BY <1>1, <3>4, <3>5, SeekType DEF VolumeType
    <3>7. PICK g : g = IF mode = "a" /\ sought THEN Seek(f, f.dwFileSize) ELSE f
      OBVIOUS
    <3>8. g \in HandleType
      BY <3>4, <3>6, <3>7
    <3>9. pool' = [pool EXCEPT ![h] = g] /\ holder' = [holder EXCEPT ![h] = t]
      BY <1>5, <2>2, <3>3, <3>7 DEF GivenOut
    <3> QED
      BY <1>1, <3>8, <3>9
  <2> QED
    BY <2>1, <2>2
<1> QED
  BY <1>7, <1>8, <1>9, <1>10 DEF TypeInv

LEMMA TypeRemoveFile ==
    ASSUME TypeInv, NEW t \in Tasks, NEW name \in Names, RemoveFile(t, name)
    PROVE  TypeInv'
<1>1. PICK i : i = FindDirectoryEntry(name)
  OBVIOUS
<1>2. i \in Entries /\ i # None /\ root[i].name = name /\ Ends(root[i].dwStartClusterIndex)
  BY <1>1, FindEntryIs DEF RemoveFile
<1>3. PICK o \in Remove(i) :
        Leave(o) /\ content' = IF o.entry = None THEN content ELSE [content EXCEPT ![name] = <<>>]
  BY <1>1 DEF RemoveFile
<1>4. VolumeType /\ CallsType /\ Recorded /\ failed \in BOOLEAN /\ broken \in BOOLEAN
  BY DEF TypeInv, Recorded
<1>5. o \in OutcomeType
  BY <1>2, <1>4, RemoveIs
<1>6. VolumeType' /\ failed' \in BOOLEAN /\ broken' \in BOOLEAN
  BY <1>3, <1>4, <1>5, LeaveType
<1>7. CallsType'
  BY <1>4, CallsKept DEF RemoveFile
<1>8. content' = [x \in Names |-> content'[x]]
  BY <1>3, <1>4 DEF Recorded
<1>9. UNCHANGED <<pool, holder>>
  BY DEF RemoveFile
<1> QED
  BY <1>6, <1>7, <1>8, <1>9 DEF TypeInv

LEMMA TypeReadFile ==
    ASSUME TypeInv, NEW t \in Tasks, NEW h \in Handles, NEW count \in Nat, ReadFile(t, h, count)
    PROVE  TypeInv'
<1>1. PICK f : f = pool[h]
  OBVIOUS
<1>2. f \in HandleType
  BY <1>1 DEF TypeInv
<1>3. PICK most : most = f.dwFileSize - f.dwCurrentOffset
  OBVIOUS
<1>4. PICK asked : asked = IF most \in 0 .. count THEN most ELSE count
  OBVIOUS
<1>5. asked \in Nat
  BY <1>4
<1>6. PICK total : total = CHOOSE n \in 0 .. asked :
            /\ n > 0 => InChain(f, n)
            /\ n < asked => ~InChain(f, n + 1)
  OBVIOUS
<1>7. total \in Nat
  BY <1>5, <1>6, TotalIs
<1>8. \/ pool' = [pool EXCEPT ![h] = Advance(f, total)] /\ UNCHANGED <<failed, broken>>
      \/ \E n \in 1 .. total : /\ broken' \in BOOLEAN /\ failed' = TRUE
                               /\ \/ pool' = [pool EXCEPT ![h] = Advance(f, n)]
                                  \/ pool' = [pool EXCEPT ![h] = Stuck(f, n)]
  BY <1>1, <1>3, <1>4, <1>6 DEF ReadFile, TypeInv
<1>9. link \in Table
  BY DEF TypeInv, VolumeType
<1>10. pool' \in [Handles -> HandleType] /\ failed' \in BOOLEAN /\ broken' \in BOOLEAN
  <2>1. CASE pool' = [pool EXCEPT ![h] = Advance(f, total)] /\ UNCHANGED <<failed, broken>>
    BY <1>2, <1>7, <1>9, <2>1, AdvanceType DEF TypeInv
  <2>2. CASE \E n \in 1 .. total : /\ broken' \in BOOLEAN /\ failed' = TRUE
                                   /\ \/ pool' = [pool EXCEPT ![h] = Advance(f, n)]
                                      \/ pool' = [pool EXCEPT ![h] = Stuck(f, n)]
    <3>1. PICK n \in 1 .. total : /\ broken' \in BOOLEAN /\ failed' = TRUE
                                  /\ \/ pool' = [pool EXCEPT ![h] = Advance(f, n)]
                                     \/ pool' = [pool EXCEPT ![h] = Stuck(f, n)]
      BY <2>2
    <3>2. n \in Nat /\ n > 0
      BY <1>7, <3>1
    <3>3. Advance(f, n) \in HandleType /\ Stuck(f, n) \in HandleType
      BY <1>2, <1>9, <3>2, AdvanceType, StuckType
    <3> QED
      BY <3>1, <3>3 DEF TypeInv
  <2> QED
    BY <1>8, <2>1, <2>2
<1>11. VolumeType' /\ CallsType'
  BY VolumeKept, CallsKept DEF TypeInv, ReadFile
<1>12. UNCHANGED <<holder, content>>
  BY DEF ReadFile
<1> QED
  BY <1>10, <1>11, <1>12 DEF TypeInv

LEMMA TypeWriteFile ==
    ASSUME TypeInv, NEW t \in Tasks, NEW h \in Handles, NEW count \in Counts, WriteFile(t, h, count)
    PROVE  TypeInv'
<1>1. PICK c : c = [Idle EXCEPT !.step = "write", !.h = h, !.left = count]
  OBVIOUS
<1>2. count \in 0 .. MaxSize
  <2>1. count \in Nat /\ MaxSize \in Nat
    BY FileSystemAssumption
  <2>2. pool[h].dwCurrentOffset \in Nat
    BY DEF TypeInv, HandleType
  <2>3. pool[h].dwCurrentOffset + count <= MaxSize
    BY DEF WriteFile
  <2> QED
    BY <2>1, <2>2, <2>3
<1>3. c \in CallType /\ c.step = "write" /\ c.h = h
  <2>1. c = [step |-> "write", h |-> h, left |-> count, zeros |-> 0]
    BY <1>1 DEF Idle
  <2>2. 0 \in 0 .. MaxSize
    BY Constants
  <2> QED
    BY <1>2, <2>1, <2>2 DEF CallType
<1>4. call' = [call EXCEPT ![t] = c] /\ owner = NoTask /\ owner' = t
  BY <1>1 DEF WriteFile, Calls
<1>5. CallsType'
  BY <1>3, <1>4, CallsStep DEF TypeInv
<1>6. VolumeType' /\ UNCHANGED <<pool, holder, content, failed, broken>>
  BY VolumeKept DEF TypeInv, WriteFile
<1> QED
  BY <1>5, <1>6 DEF TypeInv

LEMMA StepType ==
    ASSUME NEW c \in CallType, NEW s \in {"idle", "lock", "write", "update", "close"}
    PROVE  LET d == [c EXCEPT !.step = s] IN d \in CallType /\ d.step = s /\ d.h = c.h
  BY DEF CallType

\* The task in the loop owns the mutex.
LEMMA OwnerIs ==
    ASSUME CallsType, NEW t \in Tasks
    PROVE  /\ call[t] \in CallType
           /\ call[t].step \in {"write", "update"} => owner = t
           /\ call[t].step \notin {"write", "update"} => owner # t
           /\ call[t].step # "idle" => call[t].h \in Handles
  BY DEF CallsType

LEMMA EndLoopType ==
    ASSUME CallsType, NEW t \in Tasks, call[t].step = "write", EndLoop(t), UNCHANGED owner
    PROVE  CallsType'
<1>1. PICK c : c = [call[t] EXCEPT !.step = "update"]
  OBVIOUS
<1>2. c \in CallType /\ c.step = "update" /\ c.h \in Handles
  BY <1>1, OwnerIs, StepType
<1>3. call' = [call EXCEPT ![t] = c]
  BY <1>1 DEF EndLoop
<1> QED
  BY <1>2, <1>3, OwnerIs, CallsStep

LEMMA TypeLock == ASSUME TypeInv, NEW t \in Tasks, Lock(t) PROVE TypeInv'
<1>1. PICK c : c = [call[t] EXCEPT !.step = "write"]
  OBVIOUS
<1>2. CallsType
  BY DEF TypeInv
<1>3. call[t].step = "lock" /\ owner = NoTask /\ owner' = t
  BY DEF Lock
<1>4. c \in CallType /\ c.step = "write" /\ c.h \in Handles
  BY <1>1, <1>2, <1>3, OwnerIs, StepType
<1>5. call' = [call EXCEPT ![t] = c]
  BY <1>1 DEF Lock
<1>6. CallsType'
  BY <1>2, <1>3, <1>4, <1>5, CallsStep
<1>7. VolumeType' /\ UNCHANGED <<pool, holder, content, failed, broken>>
  BY VolumeKept DEF TypeInv, Lock
<1> QED
  BY <1>6, <1>7 DEF TypeInv

\* The tables kAllocate... and the append write
LEMMA AllocatedType == ASSUME NEW u \in Table, NEW c, c \in Clusters PROVE Allocated(u, c) \in Table
  BY LinkFacts DEF Allocated, Table

Appended(u, p, c) == [Allocated(u, c) EXCEPT ![p] = c]

LEMMA AppendedType ==
    ASSUME NEW u \in Table, NEW p, NEW c, c \in Clusters PROVE Appended(u, p, c) \in Table
  BY LinkFacts DEF Appended, Allocated, Table

LEMMA AppendClusterIs ==
    ASSUME NEW t, AppendCluster(t)
    PROVE  LET f == pool[call[t].h]
               c == FindFreeCluster
           IN  /\ call[t].step = "write" /\ call[t].left > 0
               /\ f.dwCurrentClusterIndex = LASTCLUSTER
               /\ \/ c = LASTCLUSTER /\ EndLoop(t) /\ UNCHANGED <<volume, pool, failed>>
                  \/ /\ c # LASTCLUSTER
                     /\ link' = Appended(link, f.dwPreviousClusterIndex, c) /\ Last' = SectorOf(c)
                     /\ pool' = [pool EXCEPT ![call[t].h].dwCurrentClusterIndex = c]
                     /\ UNCHANGED <<root, data, call, failed>>
                  \/ /\ c # LASTCLUSTER /\ failed' = TRUE
                     /\ link' \in {link, Allocated(link, c)} /\ Last' \in {Last, SectorOf(c)}
                     /\ EndLoop(t) /\ UNCHANGED <<root, data, pool>>
               /\ UNCHANGED <<owner, holder, content, broken>>
  BY DEF AppendCluster, Appended, Allocated, Last

LEMMA TypeAppendCluster == ASSUME TypeInv, NEW t \in Tasks, AppendCluster(t) PROVE TypeInv'
<1>1. VolumeType /\ CallsType /\ pool \in [Handles -> HandleType] /\ failed \in BOOLEAN
  BY DEF TypeInv
<1>2. link \in Table /\ Last \in Sectors
  BY <1>1 DEF VolumeType
<1>3. PICK h : h = call[t].h
  OBVIOUS
<1>4. PICK c : c = FindFreeCluster
  OBVIOUS
<1>5. call[t].step = "write" /\ h \in Handles
  BY <1>1, <1>3, AppendClusterIs, OwnerIs
<1>6. UNCHANGED <<owner, holder, content, broken>>
  BY AppendClusterIs
<1>7. c # LASTCLUSTER => c \in Clusters /\ SectorOf(c) \in Sectors
  BY <1>2, <1>4, FindFreeClusterIs, Area
<1>8. CASE UNCHANGED <<volume, pool, failed>> /\ EndLoop(t)
  <2>1. VolumeType' /\ CallsType'
    BY <1>1, <1>5, <1>6, <1>8, VolumeKept, EndLoopType
  <2> QED
    BY <1>6, <1>8, <2>1 DEF TypeInv
<1>9. CASE /\ c # LASTCLUSTER
           /\ link' = Appended(link, pool[h].dwPreviousClusterIndex, c) /\ Last' = SectorOf(c)
           /\ pool' = [pool EXCEPT ![h].dwCurrentClusterIndex = c]
           /\ UNCHANGED <<root, data, call, failed>>
  <2>1. link' \in Table /\ Last' \in Sectors
    BY <1>2, <1>7, <1>9, AppendedType
  <2>2. VolumeType'
    BY <1>1, <1>9, <2>1 DEF VolumeType
  <2>3. CallsType'
    BY <1>1, <1>6, <1>9, CallsKept
  <2>4. c \in Links
    BY <1>7, <1>9, LinkFacts
  <2>5. [pool[h] EXCEPT !.dwCurrentClusterIndex = c] \in HandleType
    BY <1>1, <1>5, <2>4 DEF HandleType
  <2>6. pool' \in [Handles -> HandleType]
    BY <1>1, <1>9, <2>5
  <2> QED
    BY <1>6, <1>9, <2>2, <2>3, <2>6 DEF TypeInv
<1>10. CASE /\ c # LASTCLUSTER /\ failed' = TRUE
            /\ link' \in {link, Allocated(link, c)} /\ Last' \in {Last, SectorOf(c)}
            /\ EndLoop(t) /\ UNCHANGED <<root, data, pool>>
  <2>1. link' \in Table /\ Last' \in Sectors
    BY <1>2, <1>7, <1>10, AllocatedType
  <2>2. VolumeType'
    BY <1>1, <1>10, <2>1 DEF VolumeType
  <2>3. CallsType'
    BY <1>1, <1>5, <1>6, <1>10, EndLoopType
  <2> QED
    BY <1>6, <1>10, <2>2, <2>3 DEF TypeInv
<1> QED
  BY <1>3, <1>4, <1>8, <1>9, <1>10, AppendClusterIs

\* How much of a cluster is written
Written(t) ==
    LET from == pool[call[t].h].dwCurrentOffset % ClusterSize
    IN  IF call[t].left < ClusterSize - from THEN call[t].left ELSE ClusterSize - from

\* What a cluster and a file hold when size bytes were written from an offset
DataAfter(b, name, offset, size) ==
    [k \in 0 .. ClusterSize - 1 |->
        IF k \in offset % ClusterSize .. (offset % ClusterSize) + size - 1
        THEN Byte(name, offset + k - (offset % ClusterSize)) ELSE b[k]]

BytesAfter(b, name, offset, size) ==
    [k \in 1 .. (IF Len(b) > offset + size THEN Len(b) ELSE offset + size) |->
        IF k - 1 \in offset .. offset + size - 1 THEN Byte(name, k - 1)
        ELSE IF k <= Len(b) THEN b[k] ELSE Junk]

LEMMA WriteClusterIs ==
    ASSUME NEW t, WriteCluster(t)
    PROVE  LET h == call[t].h
               f == pool[h]
               c == f.dwCurrentClusterIndex
               size == Written(t)
               name == root[f.entry].name
           IN  /\ call[t].step = "write" /\ call[t].left > 0 /\ c # LASTCLUSTER
               /\ data' = [data EXCEPT ![c] = DataAfter(data[c], name, f.dwCurrentOffset, size)]
               /\ content' = [content EXCEPT ![name] =
                                BytesAfter(content[name], name, f.dwCurrentOffset, size)]
               /\ \/ /\ pool' = [pool EXCEPT ![h] = Advance(f, size)]
                     /\ call' = [call EXCEPT ![t].left = @ - size]
                     /\ UNCHANGED <<failed, broken>>
                  \/ /\ pool' = [pool EXCEPT ![h] = Stuck(f, size)]
                     /\ EndLoop(t)
                     /\ failed' = TRUE /\ broken' = TRUE
               /\ UNCHANGED <<link, root, Last, owner, holder>>
<1>1. LET h == call[t].h
          f == pool[h]
          c == f.dwCurrentClusterIndex
          name == root[f.entry].name
      IN  /\ call[t].step = "write" /\ call[t].left > 0 /\ c # LASTCLUSTER
          /\ \/ /\ pool' = [pool EXCEPT ![h] = Advance(f, Written(t))]
                /\ call' = [call EXCEPT ![t].left = @ - Written(t)]
                /\ UNCHANGED <<failed, broken>>
             \/ /\ pool' = [pool EXCEPT ![h] = Stuck(f, Written(t))]
                /\ EndLoop(t)
                /\ failed' = TRUE /\ broken' = TRUE
          /\ UNCHANGED <<link, root, Last, owner, holder>>
  BY DEF WriteCluster, Written
<1>2. LET f == pool[call[t].h]
          c == f.dwCurrentClusterIndex
          name == root[f.entry].name
      IN  data' = [data EXCEPT ![c] = DataAfter(data[c], name, f.dwCurrentOffset, Written(t))]
  BY Zenon DEF WriteCluster, Written, DataAfter
<1>3. LET f == pool[call[t].h]
          name == root[f.entry].name
      IN  content' = [content EXCEPT ![name] =
                        BytesAfter(content[name], name, f.dwCurrentOffset, Written(t))]
  BY Zenon DEF WriteCluster, Written, BytesAfter
<1> QED
  BY <1>1, <1>2, <1>3

LEMMA WrittenIs ==
    ASSUME CallsType, pool \in [Handles -> HandleType], NEW t \in Tasks,
           call[t].h \in Handles, call[t].left > 0
    PROVE  /\ Written(t) \in Nat /\ Written(t) > 0 /\ Written(t) <= call[t].left
           /\ (pool[call[t].h].dwCurrentOffset % ClusterSize) + Written(t) <= ClusterSize
           /\ Written(t) < call[t].left =>
                (pool[call[t].h].dwCurrentOffset % ClusterSize) + Written(t) = ClusterSize
<1>1. PICK from : from = pool[call[t].h].dwCurrentOffset % ClusterSize
  OBVIOUS
<1>2. pool[call[t].h].dwCurrentOffset \in Nat
  BY DEF HandleType
<1>3. from \in 0 .. ClusterSize - 1
  BY <1>1, <1>2, Division, Constants
<1>4. call[t].left \in Nat
  BY Constants DEF CallsType, CallType
<1>5. Written(t) = IF call[t].left < ClusterSize - from THEN call[t].left ELSE ClusterSize - from
  BY <1>1 DEF Written
<1> QED
  BY <1>1, <1>3, <1>4, <1>5, Constants

LEMMA TypeWriteCluster == ASSUME TypeInv, NEW t \in Tasks, WriteCluster(t) PROVE TypeInv'
<1>1. VolumeType /\ CallsType /\ pool \in [Handles -> HandleType] /\ Recorded
  BY DEF TypeInv, Recorded
<1>2. PICK h : h = call[t].h
  OBVIOUS
<1>3. PICK f : f = pool[h]
  OBVIOUS
<1>4. PICK n : n = Written(t)
  OBVIOUS
<1>5. call[t].step = "write" /\ call[t].left > 0
  BY WriteClusterIs
<1>6. h \in Handles /\ call[t] \in CallType /\ owner = t
  BY <1>1, <1>2, <1>5, OwnerIs
<1>7. n \in Nat /\ n > 0 /\ n <= call[t].left
  BY <1>1, <1>2, <1>4, <1>5, <1>6, WrittenIs
<1>8. f \in HandleType
  BY <1>1, <1>3, <1>6
<1>9. VolumeType'
  <2>1. PICK c, d : data' = [data EXCEPT ![c] = d] /\ DOMAIN d = 0 .. ClusterSize - 1
    <3>1. PICK c : c = f.dwCurrentClusterIndex
      OBVIOUS
    <3>2. PICK d : d = DataAfter(data[c], root[f.entry].name, f.dwCurrentOffset, n)
      OBVIOUS
    <3>3. data' = [data EXCEPT ![c] = d]
      BY <1>2, <1>3, <1>4, <3>1, <3>2, WriteClusterIs
    <3>4. DOMAIN d = 0 .. ClusterSize - 1
      BY <3>2 DEF DataAfter
    <3> QED
      BY <3>3, <3>4
  <2>2. data' = [x \in Clusters |-> data'[x]] /\ \A x \in Clusters : DOMAIN data'[x] = 0 .. ClusterSize - 1
    BY <1>1, <2>1 DEF VolumeType
  <2>3. UNCHANGED <<link, root, Last>>
    BY WriteClusterIs
  <2> QED
    BY <1>1, <2>2, <2>3 DEF VolumeType
<1>10. content' = [x \in Names |-> content'[x]]
  <2>1. PICK name, b : content' = [content EXCEPT ![name] = b]
    BY WriteClusterIs
  <2> QED
    BY <1>1, <2>1 DEF Recorded
<1>11. UNCHANGED <<owner, holder>>
  BY WriteClusterIs
<1>12. CASE /\ pool' = [pool EXCEPT ![h] = Advance(f, n)]
            /\ call' = [call EXCEPT ![t].left = @ - n]
            /\ UNCHANGED <<failed, broken>>
  <2>1. PICK c : c = [call[t] EXCEPT !.left = @ - n]
    OBVIOUS
  <2>2. c \in CallType /\ c.step = "write" /\ c.h = h
    BY <1>2, <1>5, <1>6, <1>7, <2>1, Constants DEF CallType
  <2>3. call' = [call EXCEPT ![t] = c]
    BY <1>12, <2>1
  <2>4. CallsType'
    BY <1>1, <1>6, <1>11, <2>2, <2>3, CallsStep
  <2>5. pool' \in [Handles -> HandleType]
    BY <1>1, <1>7, <1>8, <1>12, AdvanceType DEF VolumeType
  <2> QED
    BY <1>9, <1>10, <1>11, <1>12, <2>4, <2>5 DEF TypeInv
<1>13. CASE /\ pool' = [pool EXCEPT ![h] = Stuck(f, n)]
            /\ EndLoop(t)
            /\ failed' = TRUE /\ broken' = TRUE
  <2>1. CallsType'
    BY <1>1, <1>5, <1>11, <1>13, EndLoopType
  <2>2. pool' \in [Handles -> HandleType]
    BY <1>1, <1>7, <1>8, <1>13, StuckType DEF VolumeType
  <2> QED
    BY <1>9, <1>10, <1>11, <1>13, <2>1, <2>2 DEF TypeInv
<1> QED
  BY <1>2, <1>3, <1>4, <1>12, <1>13, WriteClusterIs

LEMMA TypeWriteClusterFails == ASSUME TypeInv, NEW t \in Tasks, WriteClusterFails(t) PROVE TypeInv'
<1>1. CallsType'
  BY EndLoopType DEF TypeInv, WriteClusterFails
<1>2. VolumeType' /\ UNCHANGED <<pool, holder, content, broken>> /\ failed' = TRUE
  BY VolumeKept DEF TypeInv, WriteClusterFails
<1> QED
  BY <1>1, <1>2 DEF TypeInv

\* The handle and the directory after a write
Grown(h) == pool[h].dwFileSize < pool[h].dwCurrentOffset

EntryAfter(h) ==
    [root EXCEPT ![pool[h].entry].dwFileSize = pool[h].dwCurrentOffset,
                 ![pool[h].entry].dwStartClusterIndex = pool[h].dwStartClusterIndex]

CallAfter(c) ==
    LET next == IF c.zeros < ClusterSize THEN c.zeros ELSE ClusterSize
    IN  IF c.left > 0 \/ c.zeros = 0 THEN Idle
        ELSE [c EXCEPT !.step = "lock", !.left = next, !.zeros = c.zeros - next]

Padded(b, n) == IF Len(b) >= n THEN b ELSE b \o [k \in 1 .. n - Len(b) |-> Junk]

LEMMA EndWriteIs ==
    ASSUME NEW t, EndWrite(t)
    PROVE  LET h == call[t].h
               name == root[pool[h].entry].name
           IN  /\ call[t].step = "update" \/ (call[t].step = "write" /\ call[t].left = 0)
               /\ pool' = IF Grown(h) THEN [pool EXCEPT ![h].dwFileSize = pool[h].dwCurrentOffset]
                          ELSE pool
               /\ \/ root' = (IF Grown(h) THEN EntryAfter(h) ELSE root) /\ UNCHANGED failed
                  \/ Grown(h) /\ failed' = TRUE /\ UNCHANGED root
               /\ content' = [content EXCEPT ![name] =
                                Padded(content[name], pool[h].dwCurrentOffset)]
               /\ owner' = NoTask
               /\ call' = [call EXCEPT ![t] = CallAfter(call[t])]
               /\ UNCHANGED <<link, data, Last, holder, broken>>
<1>1. content' = [content EXCEPT ![root[pool[call[t].h].entry].name] =
                                Padded(content[root[pool[call[t].h].entry].name],
                                       pool[call[t].h].dwCurrentOffset)]
  BY Zenon DEF EndWrite, Padded
<1>2. call' = [call EXCEPT ![t] = CallAfter(call[t])]
  BY DEF EndWrite, CallAfter
<1>3. LET h == call[t].h IN
        /\ call[t].step = "update" \/ (call[t].step = "write" /\ call[t].left = 0)
        /\ pool' = IF Grown(h) THEN [pool EXCEPT ![h].dwFileSize = pool[h].dwCurrentOffset]
                          ELSE pool
        /\ \/ root' = (IF Grown(h) THEN EntryAfter(h) ELSE root) /\ UNCHANGED failed
           \/ Grown(h) /\ failed' = TRUE /\ UNCHANGED root
        /\ owner' = NoTask
        /\ UNCHANGED <<link, data, Last, holder, broken>>
  BY Zenon DEF EndWrite, Grown, EntryAfter
<1> QED
  BY <1>1, <1>2, <1>3

\* What is left of a seek is passed on cluster by cluster.
LEMMA CallAfterType ==
    ASSUME NEW c \in CallType
    PROVE  /\ CallAfter(c) \in CallType /\ CallAfter(c).step \in {"idle", "lock"}
           /\ CallAfter(c).step = "lock" => CallAfter(c).h = c.h /\ c.left = 0 /\ c.zeros > 0
<1>1. PICK next : next = IF c.zeros < ClusterSize THEN c.zeros ELSE ClusterSize
  OBVIOUS
<1>2. c.left \in 0 .. MaxSize /\ c.zeros \in 0 .. MaxSize
  BY DEF CallType
<1>3. next \in 0 .. MaxSize /\ next <= c.zeros
  BY <1>1, <1>2, Constants
<1>4. CallAfter(c) = IF c.left > 0 \/ c.zeros = 0 THEN Idle
                     ELSE [c EXCEPT !.step = "lock", !.left = next, !.zeros = c.zeros - next]
  BY <1>1 DEF CallAfter
<1>5. CASE c.left > 0 \/ c.zeros = 0
  <2>1. 0 \in 0 .. MaxSize
    BY Constants
  <2>2. CallAfter(c) = [step |-> "idle", h |-> None, left |-> 0, zeros |-> 0]
    BY <1>4, <1>5 DEF Idle
  <2> QED
    BY <2>1, <2>2 DEF CallType
<1>6. CASE ~(c.left > 0 \/ c.zeros = 0)
  <2>1. CallAfter(c) = [c EXCEPT !.step = "lock", !.left = next, !.zeros = c.zeros - next]
    BY <1>4, <1>6
  <2>2. c.zeros - next \in 0 .. MaxSize
    BY <1>2, <1>3, Constants
  <2>3. CallAfter(c) \in CallType /\ CallAfter(c).step = "lock" /\ CallAfter(c).h = c.h
    BY <1>3, <2>1, <2>2 DEF CallType
  <2> QED
    BY <1>2, <1>6, <2>3, Constants
<1> QED
  BY <1>5, <1>6

LEMMA TypeEndWrite == ASSUME TypeInv, NEW t \in Tasks, EndWrite(t) PROVE TypeInv'
<1>1. VolumeType /\ CallsType /\ pool \in [Handles -> HandleType] /\ Recorded
  BY DEF TypeInv, Recorded
<1>2. PICK h : h = call[t].h
  OBVIOUS
<1>3. call[t].step \in {"write", "update"}
  BY EndWriteIs
<1>4. h \in Handles /\ call[t] \in CallType /\ owner = t
  BY <1>1, <1>2, <1>3, OwnerIs
<1>5. pool[h] \in HandleType
  BY <1>1, <1>4
<1>6. CallsType'
  <2>1. PICK c : c = CallAfter(call[t])
    OBVIOUS
  <2>2. c \in CallType /\ c.step \in {"idle", "lock"} /\ (c.step = "lock" => c.h = h)
    BY <1>2, <1>4, <2>1, CallAfterType
  <2>3. call' = [call EXCEPT ![t] = c] /\ owner' = NoTask
    BY <2>1, EndWriteIs
  <2> QED
    BY <1>1, <1>4, <2>2, <2>3, CallsStep
<1>7. pool' \in [Handles -> HandleType]
  <2>1. [pool[h] EXCEPT !.dwFileSize = pool[h].dwCurrentOffset] \in HandleType
    BY <1>5 DEF HandleType
  <2>2. pool' = IF Grown(h) THEN [pool EXCEPT ![h].dwFileSize = pool[h].dwCurrentOffset] ELSE pool
    BY <1>2, EndWriteIs
  <2> QED
    BY <1>1, <1>4, <2>1, <2>2
<1>8. EntryAfter(h) \in Root
  <2>1. PICK i, o, s : i = pool[h].entry /\ o = pool[h].dwCurrentOffset /\ s = pool[h].dwStartClusterIndex
    OBVIOUS
  <2>2. o \in Nat /\ s \in Clusters /\ root \in Root
    BY <1>1, <1>5, <2>1 DEF HandleType, VolumeType
  <2>3. EntryAfter(h) = [[root EXCEPT ![i].dwFileSize = o] EXCEPT ![i].dwStartClusterIndex = s]
    BY <2>1 DEF EntryAfter
  <2>4. PICK r : r = [root EXCEPT ![i].dwFileSize = o]
    OBVIOUS
  <2>5. r \in Root
    BY <2>2, <2>4 DEF Root, EntryType
  <2> QED
    BY <2>2, <2>3, <2>4, <2>5 DEF Root, EntryType
<1>9. VolumeType'
  <2>1. root' \in Root
    BY <1>1, <1>2, <1>8, EndWriteIs DEF VolumeType
  <2>2. UNCHANGED <<link, data, Last>>
    BY EndWriteIs
  <2> QED
    BY <1>1, <2>1, <2>2 DEF VolumeType
<1>10. content' = [x \in Names |-> content'[x]]
  <2>1. PICK name, b : content' = [content EXCEPT ![name] = b]
    BY EndWriteIs
  <2> QED
    BY <1>1, <2>1 DEF Recorded
<1>11. failed' \in BOOLEAN /\ UNCHANGED <<holder, broken>>
  BY EndWriteIs DEF TypeInv
<1> QED
  BY <1>6, <1>7, <1>9, <1>10, <1>11 DEF TypeInv

\* A seek beyond the last cluster puts this many zeros into the file.
SeekCall(h, n) ==
    LET next == IF n < ClusterSize THEN n ELSE ClusterSize
    IN  [Idle EXCEPT !.step = "lock", !.h = h, !.left = next, !.zeros = n - next]

Seeking(t, h, f, real) ==
    /\ Calls(t) /\ Has(t, h) /\ real <= MaxSize /\ CanSeek(f, real)
    /\ \/ /\ pool' = [pool EXCEPT ![h] = Seek(f, real)]
          /\ \/ ~IsBeyond(f, real) /\ UNCHANGED call
             \/ /\ IsBeyond(f, real)
                /\ call' = [call EXCEPT ![t] = SeekCall(h, real - f.dwFileSize)]
          /\ UNCHANGED failed
       \/ /\ MayFail /\ failed' = TRUE
          /\ UNCHANGED pool \/ pool' = [pool EXCEPT ![h] = Seek(f, real)]
          /\ UNCHANGED call
    /\ UNCHANGED <<volume, owner, holder, content, broken>>

LEMMA SeekFileIs ==
    ASSUME NEW t, NEW h, NEW iOffset, NEW iOrigin, SeekFile(t, h, iOffset, iOrigin),
           NEW f, f = pool[h], NEW real, real = RealOffset(f, iOffset, iOrigin)
    PROVE  Seeking(t, h, f, real)
<1>1. LET g == pool[h]
          r == RealOffset(g, iOffset, iOrigin)
      IN  /\ Calls(t) /\ Has(t, h) /\ r <= MaxSize /\ CanSeek(g, r)
          /\ \/ /\ pool' = [pool EXCEPT ![h] = Seek(g, r)]
                /\ call' = IF ~IsBeyond(g, r) THEN call
                           ELSE [call EXCEPT ![t] = SeekCall(h, r - g.dwFileSize)]
                /\ UNCHANGED failed
             \/ /\ MayFail /\ failed' = TRUE
                /\ \/ UNCHANGED pool
                   \/ pool' = [pool EXCEPT ![h] = Seek(g, r)]
                /\ UNCHANGED call
          /\ UNCHANGED <<volume, owner, holder, content, broken>>
  BY Zenon DEF SeekFile, SeekCall
<1> QED
  BY <1>1 DEF Seeking

LEMMA BeyondIs ==
    ASSUME NEW f \in HandleType, NEW real \in Nat, IsBeyond(f, real)
    PROVE  f.dwFileSize < real
<1>1. f.dwFileSize \in Nat
  BY DEF HandleType
<1>2. ClusterOf(f.dwFileSize) \in Nat /\ ClusterOf(real) \in Nat
  BY <1>1, ClusterOfType
<1>3. SUFFICES ASSUME real <= f.dwFileSize PROVE FALSE
  BY <1>1
<1>4. ClusterOf(real) <= ClusterOf(f.dwFileSize)
  BY <1>1, <1>3, Constants, DivisionOrder DEF ClusterOf
<1> QED
  BY <1>2, <1>4 DEF IsBeyond

LEMMA TypeSeekFile ==
    ASSUME TypeInv, NEW t \in Tasks, NEW h \in Handles, NEW iOffset \in Offsets,
           NEW iOrigin \in {"SET", "CUR", "END"}, SeekFile(t, h, iOffset, iOrigin)
    PROVE  TypeInv'
<1>1. VolumeType /\ CallsType /\ pool \in [Handles -> HandleType]
  BY DEF TypeInv
<1>2. PICK f : f = pool[h]
  OBVIOUS
<1>3. f \in HandleType
  BY <1>1, <1>2
<1>4. PICK real : real = RealOffset(f, iOffset, iOrigin)
  OBVIOUS
<1>5. real \in Nat
  <2>1. iOffset \in Int
    BY FileSystemAssumption
  <2> QED
    BY <1>3, <1>4, <2>1, RealOffsetType
<1>6. Seeking(t, h, f, real)
  BY <1>2, <1>4, SeekFileIs
<1>7. real \in Nat /\ real <= MaxSize
  BY <1>5, <1>6 DEF Seeking
<1>8. Seek(f, real) \in HandleType
  BY <1>1, <1>3, <1>7, SeekType DEF VolumeType
<1>9. pool' \in [Handles -> HandleType]
  <2>1. UNCHANGED pool \/ pool' = [pool EXCEPT ![h] = Seek(f, real)]
    BY <1>6 DEF Seeking
  <2> QED
    BY <1>1, <1>8, <2>1
<1>10. VolumeType' /\ UNCHANGED <<owner, holder, content, broken>> /\ failed' \in BOOLEAN
  BY <1>6, VolumeKept DEF TypeInv, Seeking
<1>11. owner = NoTask
  BY <1>6 DEF Calls, Seeking
<1>12. CASE UNCHANGED call
  <2>1. CallsType'
    BY <1>1, <1>10, <1>12, CallsKept
  <2> QED
    BY <1>9, <1>10, <2>1 DEF TypeInv
<1>13. CASE IsBeyond(f, real) /\ call' = [call EXCEPT ![t] = SeekCall(h, real - f.dwFileSize)]
  <2>1. PICK n : n = real - f.dwFileSize
    OBVIOUS
  <2>2. n \in 0 .. MaxSize
    <3>1. f.dwFileSize < real /\ f.dwFileSize \in Nat
      BY <1>3, <1>7, <1>13, BeyondIs DEF HandleType
    <3> QED
      BY <1>7, <2>1, <3>1, Constants
  <2>3. PICK next : next = IF n < ClusterSize THEN n ELSE ClusterSize
    OBVIOUS
  <2>4. next \in 0 .. MaxSize /\ n - next \in 0 .. MaxSize
    BY <2>2, <2>3, Constants
  <2>5. PICK c : c = SeekCall(h, n)
    OBVIOUS
  <2>6. c = [step |-> "lock", h |-> h, left |-> next, zeros |-> n - next]
    BY <2>3, <2>5 DEF SeekCall, Idle
  <2>7. c \in CallType /\ c.step = "lock" /\ c.h = h
    BY <2>4, <2>6 DEF CallType
  <2>8. call' = [call EXCEPT ![t] = c]
    BY <1>13, <2>1, <2>5
  <2>9. t # NoTask
    BY Distinct
  <2>10. CallsType'
    BY <1>1, <1>10, <1>11, <2>7, <2>8, <2>9, CallsStep
  <2> QED
    BY <1>9, <1>10, <2>10 DEF TypeInv
<1> QED
  BY <1>12, <1>13, <1>6 DEF Seeking

LEMMA TypeCloseFile == ASSUME TypeInv, NEW t \in Tasks, NEW h \in Handles, CloseFile(t, h) PROVE TypeInv'
<1>1. PICK c : c = [Idle EXCEPT !.step = "close", !.h = h]
  OBVIOUS
<1>2. c \in CallType /\ c.step = "close" /\ c.h = h
  <2>1. c = [step |-> "close", h |-> h, left |-> 0, zeros |-> 0]
    BY <1>1 DEF Idle
  <2>2. 0 \in 0 .. MaxSize
    BY Constants
  <2> QED
    BY <2>1, <2>2 DEF CallType
<1>3. CallsType /\ call[t].step = "idle" /\ call' = [call EXCEPT ![t] = c] /\ UNCHANGED owner
  BY <1>1 DEF TypeInv, CloseFile
<1>4. owner # t
  BY <1>3, OwnerIs
<1>5. CallsType'
  BY <1>2, <1>3, <1>4, CallsStep
<1>6. pool' \in [Handles -> HandleType] /\ holder' \in [Handles -> Tasks \cup {NoTask}]
  BY FreeHandleType DEF TypeInv, CloseFile
<1>7. VolumeType' /\ UNCHANGED <<content, failed, broken>>
  BY VolumeKept DEF TypeInv, CloseFile
<1> QED
  BY <1>5, <1>6, <1>7 DEF TypeInv

LEMMA IdleType == Idle \in CallType /\ Idle.step = "idle"
<1>1. 0 \in 0 .. MaxSize
  BY Constants
<1> QED
  BY <1>1 DEF CallType, Idle

LEMMA TypeCloseRest == ASSUME TypeInv, NEW t \in Tasks, CloseRest(t) PROVE TypeInv'
<1>1. CallsType /\ call[t].step = "close" /\ call' = [call EXCEPT ![t] = Idle] /\ UNCHANGED owner
  BY DEF TypeInv, CloseRest
<1>2. owner # t
  BY <1>1, OwnerIs
<1>3. CallsType'
  BY <1>1, <1>2, IdleType, CallsStep
<1>4. pool' \in [Handles -> HandleType]
  BY FreeHandleType DEF TypeInv, CloseRest
<1>5. VolumeType' /\ UNCHANGED <<content, failed, broken, holder>>
  BY VolumeKept DEF TypeInv, CloseRest
<1> QED
  BY <1>3, <1>4, <1>5 DEF TypeInv

LEMMA TypeStep == ASSUME TypeInv, [Next]_vars PROVE TypeInv'
<1>1. CASE UNCHANGED vars
  <2>1. VolumeType' /\ CallsType'
    BY <1>1, VolumeKept, CallsKept DEF TypeInv, vars
  <2> QED
    BY <1>1, <2>1 DEF TypeInv, vars
<1>2. ASSUME NEW t \in Tasks,
        \/ \E name \in Names, mode \in {"r", "w", "a"} : OpenFile(t, name, mode)
        \/ \E name \in Names : RemoveFile(t, name)
        \/ \E h \in Handles, count \in Counts : ReadFile(t, h, count)
        \/ \E h \in Handles, count \in Counts : WriteFile(t, h, count)
        \/ \E h \in Handles, iOffset \in Offsets, iOrigin \in {"SET", "CUR", "END"} :
                SeekFile(t, h, iOffset, iOrigin)
        \/ \E h \in Handles : CloseFile(t, h)
        \/ Lock(t)
        \/ AppendCluster(t)
        \/ WriteCluster(t)
        \/ WriteClusterFails(t)
        \/ EndWrite(t)
        \/ CloseRest(t)
      PROVE TypeInv'
  <2>1. Counts \subseteq Nat
    BY FileSystemAssumption
  <2> QED
    BY <1>2, <2>1, TypeOpenFile, TypeRemoveFile, TypeReadFile, TypeWriteFile, TypeSeekFile,
       TypeCloseFile, TypeLock, TypeAppendCluster, TypeWriteCluster, TypeWriteClusterFails,
       TypeEndWrite, TypeCloseRest
<1> QED
  BY <1>1, <1>2 DEF Next

\* The link table, the directory, the clusters, the handles and the calls always have
\* values their fields can have, and the mutex is owned exactly by the task whose
\* kWriteFile is in its loop.
THEOREM SpecTypeOK == Spec => []TypeOK
<1>1. Spec => []TypeInv
  BY TypeInit, TypeStep, PTL DEF Spec
<1>2. TypeInv => TypeOK
  BY TypeInvOK
<1> QED
  BY <1>1, <1>2, PTL

-----------------------------------------------------------------------------
\* The files on a volume

\* The offset in cluster k of the chain of c is in a cluster or just behind them.
Within(t, c, k) == k = 0 \/ At(t, c, k - 1) # LASTCLUSTER

ChainOK(t, c, size) ==
    /\ IsChain(t, c, Long(t, c))
    /\ \A k \in Nat : At(t, c, k) # 0
    /\ Within(t, c, ClusterOf(size))

Disjoint(t, c, d) ==
    \A k, l \in Nat : At(t, c, k) = At(t, d, l) => At(t, c, k) = LASTCLUSTER

\* Two tables lead the same way.
Same(t, u, c) == \A k \in Nat : At(u, c, k) = At(t, c, k)

LEMMA OKIs ==
    ASSUME NEW t \in Table, NEW c \in Clusters, NEW size, ChainOK(t, c, size)
    PROVE  /\ Long(t, c) \in Nat /\ Long(t, c) > 0 /\ At(t, c, Long(t, c)) = LASTCLUSTER
           /\ \A k \in Nat : k < Long(t, c) <=> At(t, c, k) # LASTCLUSTER
           /\ c # 0
           /\ \A k \in Nat : At(t, c, k) # LASTCLUSTER =>
                /\ At(t, c, k) \in Clusters \ {0} /\ t[At(t, c, k)] # FREECLUSTER
<1>1. PICK n : n = Long(t, c)
  OBVIOUS
<1>2. IsChain(t, c, n) /\ n \in Nat
  BY <1>1 DEF ChainOK, IsChain
<1>3. At(t, c, 0) = c
  BY AtIs
<1>4. n > 0
  BY <1>2, <1>3, LinkFacts DEF IsChain
<1>5. ASSUME NEW k \in Nat PROVE k < n <=> At(t, c, k) # LASTCLUSTER
  BY <1>2, AtBehind DEF IsChain
<1>6. c # 0
  BY <1>3 DEF ChainOK
<1>7. ASSUME NEW k \in Nat, At(t, c, k) # LASTCLUSTER
      PROVE  At(t, c, k) \in Clusters \ {0} /\ t[At(t, c, k)] # FREECLUSTER
  <2>1. At(t, c, k) \in Links
    BY AtType, LinkFacts
  <2>2. At(t, c, k) \in Clusters
    BY <1>7, <2>1, LinkFacts
  <2>3. At(t, c, k) # 0 /\ At(t, c, k + 1) # 0
    BY DEF ChainOK
  <2>4. At(t, c, k + 1) = t[At(t, c, k)]
    BY <1>7, AtStep
  <2> QED
    BY <2>2, <2>3, <2>4, LinkFacts
<1> QED
  BY <1>1, <1>2, <1>4, <1>5, <1>6, <1>7 DEF IsChain

LEMMA DisjointSym == ASSUME NEW t, NEW c, NEW d, Disjoint(t, c, d) PROVE Disjoint(t, d, c)
  BY DEF Disjoint

\* What is the same for both chains stays true of them.
LEMMA SameOK ==
    ASSUME NEW t, NEW u, NEW c, NEW size \in Nat, ChainOK(t, c, size), Same(t, u, c)
    PROVE  ChainOK(u, c, size) /\ Long(u, c) = Long(t, c)
<1>1. PICK n : n = Long(t, c)
  OBVIOUS
<1>2. IsChain(t, c, n)
  BY <1>1 DEF ChainOK
<1>3. IsChain(u, c, n)
  BY <1>2 DEF IsChain, Same
<1>4. Long(u, c) = n
  BY <1>3, LongIs
<1>5. \A k \in Nat : At(u, c, k) # 0
  BY DEF ChainOK, Same
<1>6. Within(u, c, ClusterOf(size))
  <2>1. ClusterOf(size) \in Nat
    BY ClusterOfType
  <2>2. ClusterOf(size) # 0 => ClusterOf(size) - 1 \in Nat
    BY <2>1
  <2> QED
    BY <2>2 DEF ChainOK, Same, Within
<1> QED
  BY <1>1, <1>3, <1>4, <1>5, <1>6 DEF ChainOK

LEMMA SameDisjoint ==
    ASSUME NEW t, NEW u, NEW c, NEW d, Disjoint(t, c, d), Same(t, u, c), Same(t, u, d)
    PROVE  Disjoint(u, c, d)
  BY DEF Disjoint, Same

\* A table that agrees on the chain leads the same way.
LEMMA SameFrame ==
    ASSUME NEW t, NEW u, NEW c,
           \A k \in Nat : At(t, c, k) # LASTCLUSTER => u[At(t, c, k)] = t[At(t, c, k)]
    PROVE  Same(t, u, c)
<1> DEFINE S == {k \in Nat : At(u, c, k) = At(t, c, k)}
<1>1. 0 \in S
  BY AtIs
<1>2. ASSUME NEW k \in S PROVE k + 1 \in S
  BY AtStep
<1> HIDE DEF S
<1>3. S = Nat
  BY <1>1, <1>2, NaturalInduction DEF S
<1> QED
  BY <1>3 DEF S, Same

\* An allocated cluster was on no chain.
LEMMA AllocatedSame ==
    ASSUME NEW t \in Table, NEW x, FreeIn(t, x), NEW c \in Clusters, NEW size, ChainOK(t, c, size)
    PROVE  Same(t, Allocated(t, x), c)
<1>1. \A k \in Nat : At(t, c, k) # LASTCLUSTER => At(t, c, k) \in Clusters /\ At(t, c, k) # x
  BY OKIs DEF FreeIn
<1>2. \A y \in Clusters : y # x => Allocated(t, x)[y] = t[y]
  BY DEF Allocated, Table
<1> QED
  BY <1>1, <1>2, SameFrame

LEMMA SizeZero == ClusterOf(0) = 0
<1>1. PICK q : q = 0 \div ClusterSize
  OBVIOUS
<1>2. q \in Nat /\ q * ClusterSize <= 0
  BY <1>1, Constants, Division
<1>3. q = 0
  <2>1. q > 0 => q * ClusterSize > 0
    BY <1>2, Constants
  <2> QED
    BY <1>2, <2>1, Constants
<1> QED
  BY <1>1, <1>3 DEF ClusterOf

\* A chain of one cluster
LEMMA OneCluster ==
    ASSUME NEW u, NEW x \in Clusters, x # 0, u[x] = LASTCLUSTER
    PROVE  /\ ChainOK(u, x, 0) /\ Long(u, x) = 1
           /\ \A k \in Nat : k # 0 => At(u, x, k) = LASTCLUSTER
           /\ At(u, x, 0) = x
<1>1. At(u, x, 0) = x
  BY AtIs
<1>2. At(u, x, 1) = LASTCLUSTER
  <2>1. At(u, x, 0 + 1) = u[x]
    BY <1>1, AtStep, LinkFacts
  <2> QED
    BY <2>1
<1>3. ASSUME NEW k \in Nat, k # 0 PROVE At(u, x, k) = LASTCLUSTER
  BY <1>2, <1>3, AtBehind
<1>4. IsChain(u, x, 1)
  BY <1>1, <1>2, LinkFacts DEF IsChain
<1>5. Long(u, x) = 1
  BY <1>4, LongIs
<1>6. \A k \in Nat : At(u, x, k) # 0
  BY <1>1, <1>3, Constants
<1>7. Within(u, x, ClusterOf(0))
  BY SizeZero DEF Within
<1> QED
  BY <1>1, <1>3, <1>4, <1>5, <1>6, <1>7 DEF ChainOK

\* A chain of one new cluster has nothing in common with another.
LEMMA OneDisjoint ==
    ASSUME NEW t \in Table, NEW u, NEW x, FreeIn(t, x), x # 0, u[x] = LASTCLUSTER,
           NEW d \in Clusters, NEW size, ChainOK(t, d, size), Same(t, u, d)
    PROVE  Disjoint(u, x, d)
<1>1. x \in Clusters /\ t[x] = FREECLUSTER
  BY DEF FreeIn
<1>2. SUFFICES ASSUME NEW k \in Nat, NEW l \in Nat, At(u, x, k) = At(u, d, l), At(u, x, k) # LASTCLUSTER
               PROVE  FALSE
  BY DEF Disjoint
<1>3. At(u, x, k) = x
  BY <1>1, <1>2, OneCluster
<1>4. At(t, d, l) = x
  BY <1>2, <1>3 DEF Same
<1> QED
  BY <1>1, <1>2, <1>3, <1>4, OKIs

\* Where a chain is cut, another goes on as before.
LEMMA CutSame ==
    ASSUME NEW t \in Table, NEW u, NEW c, IsCut(t, u, c), NEW d \in Clusters, NEW size,
           ChainOK(t, d, size), Disjoint(t, c, d)
    PROVE  Same(t, u, d)
<1>1. ASSUME NEW k \in Nat, At(t, d, k) # LASTCLUSTER PROVE u[At(t, d, k)] = t[At(t, d, k)]
  <2>1. At(t, d, k) \in Clusters
    BY <1>1, OKIs
  <2>2. \A l \in Nat : At(t, d, k) # At(t, c, l)
    BY <1>1 DEF Disjoint
  <2> QED
    BY <2>1, <2>2 DEF IsCut
<1> QED
  BY <1>1, SameFrame

LEMMA FreedSame ==
    ASSUME NEW t \in Table, NEW u, NEW c, IsFreed(t, u, c), NEW d \in Clusters, NEW size,
           ChainOK(t, d, size), Disjoint(t, c, d)
    PROVE  Same(t, u, d)
<1>1. ASSUME NEW k \in Nat, At(t, d, k) # LASTCLUSTER PROVE u[At(t, d, k)] = t[At(t, d, k)]
  <2>1. At(t, d, k) \in Clusters
    BY <1>1, OKIs
  <2>2. \A l \in Nat : At(t, d, k) # At(t, c, l)
    BY <1>1 DEF Disjoint
  <2> QED
    BY <2>1, <2>2 DEF IsFreed
<1> QED
  BY <1>1, SameFrame

\* The first cluster is no longer on another chain than before.
LEMMA CutDisjoint ==
    ASSUME NEW t, NEW u, NEW c \in Clusters, IsCut(t, u, c), c # 0, NEW d,
           Same(t, u, d), Disjoint(t, c, d)
    PROVE  Disjoint(u, c, d)
<1>1. SUFFICES ASSUME NEW k \in Nat, NEW l \in Nat, At(u, c, k) = At(u, d, l), At(u, c, k) # LASTCLUSTER
               PROVE  FALSE
  BY DEF Disjoint
<1>2. At(u, c, k) = c
  BY <1>1, OneCluster DEF IsCut
<1>3. At(t, d, l) = c /\ At(t, c, 0) = c
  BY <1>1, <1>2, AtIs DEF Same
<1> QED
  BY <1>1, <1>2, <1>3 DEF Disjoint

\* A cluster is appended to a chain.
LEMMA AppendedIs ==
    ASSUME NEW t \in Table, NEW c \in Clusters, NEW size \in Nat, ChainOK(t, c, size),
           NEW x, FreeIn(t, x), x # 0,
           NEW n, n = Long(t, c), NEW p, p = At(t, c, n - 1), NEW u, u = Appended(t, p, x)
    PROVE  /\ \A k \in Nat : k < n => At(u, c, k) = At(t, c, k)
           /\ At(u, c, n) = x
           /\ Long(u, c) = n + 1 /\ ChainOK(u, c, size)
           /\ p \in Clusters /\ p # x
<1>1. /\ n \in Nat /\ n > 0 /\ \A k \in Nat : k < n <=> At(t, c, k) # LASTCLUSTER
      /\ IsChain(t, c, n)
  BY OKIs DEF ChainOK
<1>2. n - 1 \in Nat /\ n - 1 < n
  BY <1>1
<1>3. p # LASTCLUSTER
  BY <1>1, <1>2
<1>4. p \in Clusters /\ t[p] # FREECLUSTER
  BY <1>2, <1>3, OKIs
<1>5. x \in Clusters /\ t[x] = FREECLUSTER
  BY DEF FreeIn
<1>6. p # x
  BY <1>4, <1>5
<1>7. u[x] = LASTCLUSTER /\ u[p] = x /\ \A y \in Clusters : y # x /\ y # p => u[y] = t[y]
  BY <1>4, <1>5, <1>6 DEF Appended, Allocated, Table
<1>8. ASSUME NEW k \in Nat, k < n - 1 PROVE u[At(t, c, k)] = t[At(t, c, k)]
  <2>1. k < n /\ At(t, c, k) # LASTCLUSTER
    BY <1>1, <1>8
  <2>2. At(t, c, k) \in Clusters /\ t[At(t, c, k)] # FREECLUSTER
    BY <2>1, OKIs
  <2>3. At(t, c, k) # p
    <3>1. SUFFICES ASSUME At(t, c, k) = At(t, c, n - 1) PROVE FALSE
      OBVIOUS
    <3>2. k = n - 1
      BY <1>1, <1>2, <2>1, <3>1, ChainApart
    <3> QED
      BY <1>8, <3>2
  <2> QED
    BY <1>5, <1>7, <2>2, <2>3
<1>9. \A k \in Nat : k < n => At(u, c, k) = At(t, c, k)
  <2> DEFINE S == {k \in Nat : k < n => At(u, c, k) = At(t, c, k)}
  <2>1. 0 \in S
    BY AtIs
  <2>2. ASSUME NEW k \in S PROVE k + 1 \in S
    <3>1. SUFFICES ASSUME k + 1 < n PROVE At(u, c, k + 1) = At(t, c, k + 1)
      OBVIOUS
    <3>2. k \in Nat /\ k < n /\ k < n - 1
      BY <1>1, <3>1
    <3>3. At(u, c, k) = At(t, c, k) /\ At(t, c, k) # LASTCLUSTER
      BY <1>1, <2>2, <3>2
    <3>4. At(u, c, k + 1) = u[At(u, c, k)] /\ At(t, c, k + 1) = t[At(t, c, k)]
      BY <3>2, <3>3, AtStep
    <3> QED
      BY <1>8, <3>2, <3>3, <3>4
  <2> HIDE DEF S
  <2>3. S \in SUBSET Nat
    BY DEF S
  <2>4. S = Nat
    BY <2>1, <2>2, <2>3, NaturalInduction
  <2> QED
    BY <2>4 DEF S
<1>10. At(u, c, n) = x
  <2>1. At(u, c, n - 1) = p
    BY <1>2, <1>9
  <2>2. At(u, c, (n - 1) + 1) = u[p]
    BY <1>2, <1>3, <2>1, AtStep
  <2>3. (n - 1) + 1 = n
    BY <1>1
  <2> QED
    BY <1>7, <2>2, <2>3
<1>11. At(u, c, n + 1) = LASTCLUSTER
  BY <1>1, <1>5, <1>7, <1>10, AtStep, LinkFacts
<1>12. IsChain(u, c, n + 1)
  <2>1. ASSUME NEW k \in Nat, k < n + 1 PROVE At(u, c, k) # LASTCLUSTER
    <3>1. k < n \/ k = n
      BY <1>1, <2>1
    <3> QED
      BY <1>1, <1>5, <1>9, <1>10, <3>1, LinkFacts
  <2> QED
    BY <1>1, <1>11, <2>1 DEF IsChain
<1>13. Long(u, c) = n + 1
  BY <1>12, LongIs
<1>14. ASSUME NEW k \in Nat PROVE At(u, c, k) # 0
  <2>1. CASE k < n
    BY <1>9, <2>1 DEF ChainOK
  <2>2. CASE k = n
    BY <1>10, <2>2
  <2>3. CASE k > n
    <3>1. At(u, c, k) = LASTCLUSTER
      BY <1>1, <1>11, <2>3, AtBehind
    <3> QED
      BY <3>1, LinkFacts
  <2> QED
    BY <1>1, <2>1, <2>2, <2>3
<1>15. Within(u, c, ClusterOf(size))
  <2>1. PICK k : k = ClusterOf(size)
    OBVIOUS
  <2>2. k \in Nat
    BY <2>1, ClusterOfType
  <2>3. CASE k = 0
    BY <2>1, <2>3 DEF Within
  <2>4. CASE k # 0
    <3>1. k - 1 \in Nat /\ At(t, c, k - 1) # LASTCLUSTER
      BY <2>1, <2>2, <2>4 DEF ChainOK, Within
    <3>2. At(u, c, k - 1) = At(t, c, k - 1)
      BY <1>1, <1>9, <3>1
    <3> QED
      BY <2>1, <3>1, <3>2 DEF Within
  <2> QED
    BY <2>3, <2>4
<1> QED
  BY <1>4, <1>6, <1>9, <1>10, <1>12, <1>13, <1>14, <1>15 DEF ChainOK

LEMMA AppendedSame ==
    ASSUME NEW t \in Table, NEW c \in Clusters, NEW size \in Nat, ChainOK(t, c, size),
           NEW x, FreeIn(t, x), x # 0,
           NEW n, n = Long(t, c), NEW p, p = At(t, c, n - 1), NEW u, u = Appended(t, p, x),
           NEW d \in Clusters, NEW other, ChainOK(t, d, other), Disjoint(t, c, d)
    PROVE  Same(t, u, d) /\ Disjoint(u, c, d)
<1>1. n \in Nat /\ n > 0 /\ (\A k \in Nat : k < n <=> At(t, c, k) # LASTCLUSTER)
  BY OKIs
<1>2. p \in Clusters /\ p # x /\ p # LASTCLUSTER
  BY AppendedIs, LinkFacts
<1>3. x \in Clusters /\ t[x] = FREECLUSTER
  BY DEF FreeIn
<1>4. \A y \in Clusters : y # x /\ y # p => u[y] = t[y]
  BY DEF Appended, Allocated, Table
<1>5. ASSUME NEW k \in Nat, At(t, d, k) # LASTCLUSTER
      PROVE  At(t, d, k) \in Clusters /\ At(t, d, k) # x /\ At(t, d, k) # p
  <2>1. At(t, d, k) \in Clusters /\ t[At(t, d, k)] # FREECLUSTER
    BY <1>5, OKIs
  <2>2. At(t, d, k) # p
    <3>1. n - 1 \in Nat
      BY <1>1
    <3> QED
      BY <1>2, <3>1 DEF Disjoint
  <2> QED
    BY <1>3, <2>1, <2>2
<1>6. Same(t, u, d)
  BY <1>4, <1>5, SameFrame
<1>7. Disjoint(u, c, d)
  <2>1. SUFFICES ASSUME NEW k \in Nat, NEW l \in Nat, At(u, c, k) = At(u, d, l),
                        At(u, c, k) # LASTCLUSTER
                 PROVE  FALSE
    BY DEF Disjoint
  <2>2. At(t, d, l) = At(u, c, k)
    BY <1>6, <2>1 DEF Same
  <2>3. Long(u, c) = n + 1 /\ ChainOK(u, c, size)
    BY AppendedIs
  <2>4. k < n + 1
    <3>1. IsChain(u, c, n + 1)
      BY <2>3 DEF ChainOK
    <3> QED
      BY <1>1, <2>1, <3>1, AtBehind DEF IsChain
  <2>5. CASE k < n
    <3>1. At(u, c, k) = At(t, c, k)
      BY <2>5, AppendedIs
    <3> QED
      BY <2>1, <2>2, <3>1 DEF Disjoint
  <2>6. CASE k = n
    <3>1. At(u, c, k) = x
      BY <2>6, AppendedIs
    <3> QED
      BY <1>5, <2>1, <2>2, <3>1
  <2> QED
    BY <1>1, <2>4, <2>5, <2>6
<1> QED
  BY <1>6, <1>7

-----------------------------------------------------------------------------
\* The invariant

FilesOf(r) == {i \in Entries : r[i].name # NoName}
Start(r, i) == r[i].dwStartClusterIndex

VolumeInv(t, r) ==
    /\ t[0] = LASTCLUSTER
    /\ \A i \in Entries : r[i].name = NoName <=> Start(r, i) = 0
    /\ \A i \in FilesOf(r) : ChainOK(t, Start(r, i), r[i].dwFileSize)
    /\ \A i, j \in FilesOf(r) : i # j =>
        r[i].name # r[j].name /\ Disjoint(t, Start(r, i), Start(r, j))

\* A handle finds the cluster of its offset, or the last one to append to.
OnPlace(t, f) ==
    LET k == ClusterOf(f.dwCurrentOffset)
        c == f.dwStartClusterIndex
    IN  /\ Within(t, c, k)
        /\ f.dwCurrentClusterIndex = At(t, c, k)
        /\ f.dwCurrentClusterIndex = LASTCLUSTER => f.dwPreviousClusterIndex = At(t, c, k - 1)

HandleOK(t, r, f) ==
    /\ f.entry \in FilesOf(r) /\ f.dwStartClusterIndex = Start(r, f.entry)
    /\ OnPlace(t, f)

HandlesInv(t, r, p) ==
    /\ \A h \in Handles : p[h].used = TRUE => HandleOK(t, r, p[h])
    /\ \A g, h \in Handles : p[g].used = TRUE /\ p[h].used = TRUE /\ g # h => p[g].entry # p[h].entry

CallsInv(p, ho, ca) ==
    \A t \in Tasks :
        /\ ca[t].step \in {"lock", "write", "update"} =>
            p[ca[t].h].used = TRUE /\ ho[ca[t].h] = t
        /\ ca[t].step = "close" => p[ca[t].h].used = FALSE

Bytes == (Names \cup {NoName}) \X Nat

Held(t, d, c, b, k) ==
    /\ At(t, c, ClusterOf(k)) # LASTCLUSTER
    /\ d[At(t, c, ClusterOf(k))][k % ClusterSize] = b[k + 1]

FileHeld(t, d, e, b) ==
    /\ e.dwFileSize <= Len(b)
    /\ \A k \in Nat : k < Len(b) /\ b[k + 1] # Junk => Held(t, d, e.dwStartClusterIndex, b, k)

ContentInv(t, r, d, b) ==
    /\ b \in [Names -> Seq(Bytes)]
    /\ \A i \in FilesOf(r) : FileHeld(t, d, r[i], b[r[i].name])

\* No chain is longer than its file needs, but for the one entry w being written at off.
Tight(t, e, i, w, off, goes) ==
    LET m == (Long(t, e.dwStartClusterIndex) - 1) * ClusterSize
    IN  \/ m = 0 \/ m < e.dwFileSize
        \/ i = w /\ (m < off \/ (goes = TRUE /\ m <= off))

Complete(e, i, b, w, off) == Len(b) = e.dwFileSize \/ (i = w /\ Len(b) <= off)

NoLeak(t, r) ==
    \A c \in Clusters \ {0} : t[c] # FREECLUSTER =>
        \E i \in FilesOf(r), k \in Nat : c = At(t, Start(r, i), k)

SizesKnown(r, p) ==
    \A h \in Handles : p[h].used = TRUE => p[h].dwFileSize = r[p[h].entry].dwFileSize

Exact(t, r, p, b, w, off, goes) ==
    /\ SizesKnown(r, p) /\ NoLeak(t, r)
    /\ \A i \in FilesOf(r) : /\ Tight(t, r[i], i, w, off, goes)
                             /\ Complete(r[i], i, b[r[i].name], w, off)

Writer == IF owner = NoTask THEN None ELSE pool[call[owner].h].entry
WriterOffset == IF owner = NoTask THEN 0 ELSE pool[call[owner].h].dwCurrentOffset
Goes == owner # NoTask /\ call[owner].step = "write" /\ call[owner].left > 0

Good ==
    /\ VolumeInv(link, root) /\ HandlesInv(link, root, pool)
    /\ CallsInv(pool, holder, call) /\ ContentInv(link, root, data, content)
    /\ failed = FALSE => Exact(link, root, pool, content, Writer, WriterOffset, Goes)

IInv == TypeInv /\ (broken = FALSE => Good)

-----------------------------------------------------------------------------
\* What is not touched stays true

LEMMA RootIs ==
    ASSUME NEW r \in Root, NEW i \in Entries
    PROVE  /\ r[i] \in EntryType /\ r[i].name \in Names \cup {NoName}
           /\ r[i].dwFileSize \in Nat /\ r[i].dwStartClusterIndex \in Clusters
           /\ Start(r, i) \in Clusters /\ Start(r, i) = r[i].dwStartClusterIndex
           /\ (i \in FilesOf(r) <=> r[i].name # NoName)
           /\ (i \in FilesOf(r) => r[i].name \in Names)
  BY DEF Root, EntryType, Start, FilesOf

LEMMA FilesAreEntries == ASSUME NEW r, NEW i \in FilesOf(r) PROVE i \in Entries
  BY DEF FilesOf

\* All files but one are as they were.
Kept(t, u, r, q, i) ==
    \A j \in FilesOf(q) \ {i} : j \in FilesOf(r) /\ q[j] = r[j] /\ Same(t, u, Start(r, j))

LEMMA VolumeFrame ==
    ASSUME NEW t, NEW u, NEW r \in Root, NEW q \in Root, NEW i,
           VolumeInv(t, r), Kept(t, u, r, q, i), u[0] = LASTCLUSTER,
           \A j \in Entries : q[j].name = NoName <=> Start(q, j) = 0,
           i \in FilesOf(q) =>
                /\ ChainOK(u, Start(q, i), q[i].dwFileSize)
                /\ \A j \in FilesOf(q) : j # i =>
                    q[j].name # q[i].name /\ Disjoint(u, Start(q, i), Start(q, j))
    PROVE  VolumeInv(u, q)
<1>1. ASSUME NEW j \in FilesOf(q), j # i
      PROVE  /\ j \in FilesOf(r) /\ q[j] = r[j] /\ Start(q, j) = Start(r, j)
             /\ Same(t, u, Start(r, j)) /\ ChainOK(u, Start(q, j), q[j].dwFileSize)
  <2>1. j \in FilesOf(r) /\ q[j] = r[j] /\ Same(t, u, Start(r, j))
    BY <1>1 DEF Kept
  <2>2. Start(q, j) = Start(r, j)
    BY <2>1 DEF Start
  <2>3. ChainOK(t, Start(r, j), r[j].dwFileSize)
    BY <2>1 DEF VolumeInv
  <2>4. r[j].dwFileSize \in Nat
    BY <2>1, FilesAreEntries, RootIs
  <2>5. ChainOK(u, Start(r, j), r[j].dwFileSize)
    BY <2>1, <2>3, <2>4, SameOK
  <2> QED
    BY <2>1, <2>2, <2>5
<1>2. \A j \in FilesOf(q) : ChainOK(u, Start(q, j), q[j].dwFileSize)
  BY <1>1
<1>3. ASSUME NEW j \in FilesOf(q), NEW k \in FilesOf(q), j # k
      PROVE  q[j].name # q[k].name /\ Disjoint(u, Start(q, j), Start(q, k))
  <2>1. CASE j = i
    BY <1>3, <2>1
  <2>2. CASE k = i
    BY <1>3, <2>2, DisjointSym
  <2>3. CASE j # i /\ k # i
    <3>1. r[j].name # r[k].name /\ Disjoint(t, Start(r, j), Start(r, k))
      BY <1>1, <1>3, <2>3 DEF VolumeInv
    <3> QED
      BY <1>1, <2>3, <3>1, SameDisjoint
  <2> QED
    BY <2>1, <2>2, <2>3
<1> QED
  BY <1>2, <1>3 DEF VolumeInv

LEMMA OnPlaceFrame ==
    ASSUME NEW t, NEW u, NEW f \in HandleType, OnPlace(t, f), Same(t, u, f.dwStartClusterIndex)
    PROVE  OnPlace(u, f)
<1>1. PICK k : k = ClusterOf(f.dwCurrentOffset)
  OBVIOUS
<1>2. PICK c : c = f.dwStartClusterIndex
  OBVIOUS
<1>3. k \in Nat /\ c \in Clusters
  BY <1>1, <1>2, ClusterOfType DEF HandleType
<1>4. At(u, c, k) = At(t, c, k) /\ (k # 0 => At(u, c, k - 1) = At(t, c, k - 1))
  BY <1>2, <1>3 DEF Same
<1>5. k = 0 => f.dwCurrentClusterIndex # LASTCLUSTER
  BY <1>1, <1>2, <1>3, AtIs, LinkFacts DEF OnPlace
<1> QED
  BY <1>1, <1>2, <1>4, <1>5 DEF OnPlace, Within

LEMMA HandleFrame ==
    ASSUME NEW t, NEW u, NEW r, NEW q, NEW i, Kept(t, u, r, q, i),
           NEW f \in HandleType, HandleOK(t, r, f), f.entry \in FilesOf(q), f.entry # i
    PROVE  HandleOK(u, q, f)
<1>1. q[f.entry] = r[f.entry] /\ Same(t, u, Start(r, f.entry))
  BY DEF Kept
<1>2. OnPlace(u, f)
  BY <1>1, OnPlaceFrame DEF HandleOK
<1> QED
  BY <1>1, <1>2 DEF HandleOK, Start

LEMMA HandlesFrame ==
    ASSUME NEW t, NEW u, NEW r, NEW q, NEW i, Kept(t, u, r, q, i),
           NEW p \in [Handles -> HandleType], HandlesInv(t, r, p),
           \A h \in Handles : p[h].used = TRUE => p[h].entry \in FilesOf(q) /\ p[h].entry # i
    PROVE  HandlesInv(u, q, p)
<1>1. ASSUME NEW h \in Handles, p[h].used = TRUE PROVE HandleOK(u, q, p[h])
  BY <1>1, HandleFrame DEF HandlesInv
<1> QED
  BY <1>1 DEF HandlesInv

LEMMA HeldFrame ==
    ASSUME NEW t, NEW u, NEW d, NEW e, NEW x \in EntryType, NEW b,
           FileHeld(t, d, x, b), Same(t, u, x.dwStartClusterIndex),
           \A k \in Nat : At(t, x.dwStartClusterIndex, k) # LASTCLUSTER =>
                e[At(t, x.dwStartClusterIndex, k)] = d[At(t, x.dwStartClusterIndex, k)]
    PROVE  FileHeld(u, e, x, b)
<1>1. PICK c : c = x.dwStartClusterIndex
  OBVIOUS
<1>2. ASSUME NEW k \in Nat, k < Len(b), b[k + 1] # Junk PROVE Held(u, e, c, b, k)
  <2>1. Held(t, d, c, b, k)
    BY <1>1, <1>2 DEF FileHeld
  <2>2. PICK n : n = ClusterOf(k)
    OBVIOUS
  <2>3. n \in Nat
    BY <2>2, ClusterOfType
  <2>4. At(u, c, n) = At(t, c, n)
    BY <1>1, <2>3 DEF Same
  <2>5. At(t, c, n) # LASTCLUSTER
    BY <2>1, <2>2 DEF Held
  <2>6. e[At(t, c, n)] = d[At(t, c, n)]
    BY <1>1, <2>3, <2>5
  <2> QED
    BY <2>1, <2>2, <2>4, <2>6 DEF Held
<1> QED
  BY <1>1, <1>2 DEF FileHeld

\* The data of the clusters in use are those they were.
LEMMA ContentFrame ==
    ASSUME NEW t \in Table, NEW u, NEW r \in Root, NEW q \in Root, NEW i, NEW d, NEW e, NEW b, NEW a,
           VolumeInv(t, r), Kept(t, u, r, q, i), ContentInv(t, r, d, b),
           a \in [Names -> Seq(Bytes)],
           \A j \in FilesOf(q) : j # i => a[q[j].name] = b[q[j].name],
           \A j \in FilesOf(q), k \in Nat : j # i /\ At(t, Start(r, j), k) # LASTCLUSTER =>
                e[At(t, Start(r, j), k)] = d[At(t, Start(r, j), k)],
           i \in FilesOf(q) => FileHeld(u, e, q[i], a[q[i].name])
    PROVE  ContentInv(u, q, e, a)
<1>1. ASSUME NEW j \in FilesOf(q), j # i PROVE FileHeld(u, e, q[j], a[q[j].name])
  <2>1. j \in FilesOf(r) /\ q[j] = r[j] /\ Same(t, u, Start(r, j))
    BY <1>1 DEF Kept
  <2>2. FileHeld(t, d, q[j], a[q[j].name])
    BY <1>1, <2>1 DEF ContentInv
  <2>3. q[j] \in EntryType /\ Start(r, j) = q[j].dwStartClusterIndex
    BY <2>1, FilesAreEntries, RootIs DEF Start
  <2>4. \A k \in Nat : At(t, q[j].dwStartClusterIndex, k) # LASTCLUSTER =>
            e[At(t, q[j].dwStartClusterIndex, k)] = d[At(t, q[j].dwStartClusterIndex, k)]
    BY <1>1, <2>3
  <2> QED
    BY <2>1, <2>2, <2>3, <2>4, HeldFrame
<1> QED
  BY <1>1 DEF ContentInv

-----------------------------------------------------------------------------
\* Handles move

\* From f to g the handle goes on by n bytes and m clusters.
Moves(t, f, g, n, m) ==
    /\ ClusterOf(f.dwCurrentOffset + n) = ClusterOf(f.dwCurrentOffset) + m
    /\ g.used = f.used /\ g.entry = f.entry /\ g.dwFileSize = f.dwFileSize
    /\ g.dwStartClusterIndex = f.dwStartClusterIndex
    /\ g.dwCurrentOffset = f.dwCurrentOffset + n
    /\ g.dwCurrentClusterIndex = At(t, f.dwCurrentClusterIndex, m)
    /\ m = 0 => g.dwPreviousClusterIndex = f.dwPreviousClusterIndex
    /\ m # 0 => g.dwPreviousClusterIndex = At(t, f.dwCurrentClusterIndex, m - 1)

LEMMA AdvanceIs ==
    ASSUME link \in Table, NEW f \in HandleType, NEW n \in Nat
    PROVE  Advance(f, n) \in HandleType /\ \E m \in Nat : Moves(link, f, Advance(f, n), n, m)
<1>1. f.dwCurrentOffset \in Nat
  BY DEF HandleType
<1>2. PICK m : m = ClusterOf(f.dwCurrentOffset + n) - ClusterOf(f.dwCurrentOffset)
  OBVIOUS
<1>3. m \in Nat /\ ClusterOf(f.dwCurrentOffset + n) = ClusterOf(f.dwCurrentOffset) + m
  <2>1. f.dwCurrentOffset + n \in Nat /\ f.dwCurrentOffset <= f.dwCurrentOffset + n
    BY <1>1
  <2>2. /\ f.dwCurrentOffset \div ClusterSize \in Nat
        /\ (f.dwCurrentOffset + n) \div ClusterSize \in Nat
        /\ f.dwCurrentOffset \div ClusterSize <= (f.dwCurrentOffset + n) \div ClusterSize
    BY <1>1, <2>1, Constants, Division, DivisionOrder
  <2> QED
    BY <1>2, <2>2 DEF ClusterOf
<1>4. m = (f.dwCurrentOffset + n) \div ClusterSize - f.dwCurrentOffset \div ClusterSize
  BY <1>2 DEF ClusterOf
<1>5. PICK c, p : c = At(link, f.dwCurrentClusterIndex, m) /\
        p = (IF m = 0 THEN f.dwPreviousClusterIndex ELSE At(link, f.dwCurrentClusterIndex, m - 1))
  OBVIOUS
<1>6. c = Walk(f.dwCurrentClusterIndex, m) /\
        p = (IF m = 0 THEN f.dwPreviousClusterIndex ELSE Walk(f.dwCurrentClusterIndex, m - 1))
  BY <1>5, WalkIs
<1>7. PICK o : o = f.dwCurrentOffset + n
  OBVIOUS
<1>8. Advance(f, n) = [f EXCEPT !.dwCurrentOffset = o, !.dwCurrentClusterIndex = c,
                                !.dwPreviousClusterIndex = p]
  BY <1>4, <1>6, <1>7 DEF Advance
<1>9. PICK g : g = Advance(f, n)
  OBVIOUS
<1>10. g \in HandleType
  BY <1>9, AdvanceType
<1>11. /\ g.used = f.used /\ g.entry = f.entry /\ g.dwFileSize = f.dwFileSize
       /\ g.dwStartClusterIndex = f.dwStartClusterIndex
       /\ g.dwCurrentOffset = o /\ g.dwCurrentClusterIndex = c /\ g.dwPreviousClusterIndex = p
  BY <1>8, <1>9 DEF HandleType
<1>12. Moves(link, f, g, n, m)
  BY <1>3, <1>5, <1>7, <1>11 DEF Moves
<1> QED
  BY <1>3, <1>9, <1>10, <1>12

LEMMA AdvancePlace ==
    ASSUME link \in Table, NEW f \in HandleType, OnPlace(link, f), NEW n \in Nat,
           n > 0 => InChain(f, n), NEW g, g = Advance(f, n)
    PROVE  OnPlace(link, g)
<1>1. PICK k : k = ClusterOf(f.dwCurrentOffset)
  OBVIOUS
<1>2. PICK m \in Nat : Moves(link, f, g, n, m)
  BY AdvanceIs
<1>3. PICK c : c = f.dwStartClusterIndex
  OBVIOUS
<1>4. f.dwCurrentOffset \in Nat /\ c \in Clusters
  BY <1>3 DEF HandleType
<1>5. k \in Nat /\ m \in Nat /\ ClusterOf(f.dwCurrentOffset + n) = k + m
  BY <1>1, <1>2, <1>4, ClusterOfType DEF Moves
<1>6. /\ g.dwStartClusterIndex = c /\ g.dwCurrentOffset = f.dwCurrentOffset + n
      /\ g.dwCurrentClusterIndex = At(link, f.dwCurrentClusterIndex, m)
      /\ m = 0 => g.dwPreviousClusterIndex = f.dwPreviousClusterIndex
      /\ m # 0 => g.dwPreviousClusterIndex = At(link, f.dwCurrentClusterIndex, m - 1)
  BY <1>2, <1>3 DEF Moves
<1>7. /\ f.dwCurrentClusterIndex = At(link, c, k) /\ Within(link, c, k)
      /\ f.dwCurrentClusterIndex = LASTCLUSTER => f.dwPreviousClusterIndex = At(link, c, k - 1)
  BY <1>1, <1>3 DEF OnPlace
<1>8. CASE m = 0
  <2>1. g.dwCurrentClusterIndex = At(link, c, k) /\ g.dwPreviousClusterIndex = f.dwPreviousClusterIndex
    BY <1>6, <1>7, <1>8, AtIs
  <2>2. ClusterOf(g.dwCurrentOffset) = k
    BY <1>5, <1>6, <1>8
  <2> QED
    BY <1>6, <1>7, <2>1, <2>2 DEF OnPlace
<1>9. CASE m # 0
  <2>1. m - 1 \in Nat /\ k + (m - 1) = (k + m) - 1 /\ k + m # 0
    BY <1>5, <1>9
  <2>2. At(link, c, k + m) = At(link, At(link, c, k), m)
    BY <1>5, AtSum
  <2>3. At(link, c, k + (m - 1)) = At(link, At(link, c, k), m - 1)
    BY <1>5, <2>1, AtSum
  <2>4. At(link, c, (k + m) - 1) # LASTCLUSTER
    <3>1. n > 0
      <4>1. SUFFICES ASSUME n = 0 PROVE FALSE
        OBVIOUS
      <4>2. f.dwCurrentOffset + n = f.dwCurrentOffset
        BY <1>4, <4>1
      <4> QED
        BY <1>1, <1>5, <1>9, <4>2
    <3>2. PICK a \in Nat : a = f.dwCurrentOffset + n - 1
      BY <1>4, <3>1
    <3>3. a + 1 = f.dwCurrentOffset + n
      BY <1>4, <3>2
    <3>4. PICK q : q = ClusterOf(a)
      OBVIOUS
    <3>5. q \in Nat /\ (k + m = q \/ k + m = q + 1)
      <4>1. (a + 1) \div ClusterSize = a \div ClusterSize \/ (a + 1) \div ClusterSize = a \div ClusterSize + 1
        BY Constants, DivisionNext
      <4>2. ClusterOf(a + 1) = k + m
        BY <1>5, <3>3
      <4> QED
        BY <3>4, <4>1, <4>2, ClusterOfType DEF ClusterOf
    <3>6. q - k \in Nat
      <4>1. f.dwCurrentOffset <= a
        BY <1>4, <3>1, <3>2
      <4>2. f.dwCurrentOffset \div ClusterSize <= a \div ClusterSize
        BY <1>4, <4>1, Constants, DivisionOrder
      <4> QED
        BY <1>1, <1>5, <3>4, <3>5, <4>2 DEF ClusterOf
    <3>7. Walk(f.dwCurrentClusterIndex, q - k) # LASTCLUSTER
      BY <1>1, <3>1, <3>2, <3>4 DEF InChain, ClusterOf
    <3>8. At(link, At(link, c, k), q - k) # LASTCLUSTER
      BY <1>7, <3>7, WalkIs
    <3>9. At(link, c, k + (q - k)) = At(link, At(link, c, k), q - k)
      BY <1>5, <3>6, AtSum
    <3>10. k + (q - k) = q
      BY <1>5, <3>5
    <3>11. At(link, c, q) # LASTCLUSTER
      BY <3>8, <3>9, <3>10
    <3>12. (k + m) - 1 <= q /\ (k + m) - 1 \in Nat
      BY <1>5, <1>9, <3>5
    <3> QED
      BY <3>5, <3>11, <3>12, AtBehind
  <2>5. ClusterOf(g.dwCurrentOffset) = k + m
    BY <1>5, <1>6
  <2>6. g.dwCurrentClusterIndex = At(link, c, k + m) /\ g.dwPreviousClusterIndex = At(link, c, (k + m) - 1)
    BY <1>6, <1>7, <1>9, <2>1, <2>2, <2>3
  <2> QED
    BY <1>6, <2>1, <2>4, <2>5, <2>6 DEF OnPlace, Within
<1> QED
  BY <1>8, <1>9

\* What is nearer is on the chain, too.
LEMMA InChainLess ==
    ASSUME NEW f \in HandleType, NEW m \in Nat, InChain(f, m), NEW n \in Nat, 0 < n, n <= m
    PROVE  InChain(f, n)
<1>1. PICK o \in Nat : o = f.dwCurrentOffset
  BY DEF HandleType
<1>2. PICK a \in Nat, b \in Nat : a = o + n - 1 /\ b = o + m - 1
  BY <1>1
<1>3. a <= b /\ o <= a
  BY <1>1, <1>2
<1>4. /\ o \div ClusterSize \in Nat /\ a \div ClusterSize \in Nat /\ b \div ClusterSize \in Nat
      /\ o \div ClusterSize <= a \div ClusterSize /\ a \div ClusterSize <= b \div ClusterSize
  BY <1>3, Constants, Division, DivisionOrder
<1>5. PICK i \in Nat, j \in Nat : /\ i = a \div ClusterSize - o \div ClusterSize
                                  /\ j = b \div ClusterSize - o \div ClusterSize
  BY <1>4
<1>6. i <= j
  BY <1>4, <1>5
<1>7. At(link, f.dwCurrentClusterIndex, j) # LASTCLUSTER
  BY <1>1, <1>2, <1>5, WalkIs DEF InChain
<1>8. At(link, f.dwCurrentClusterIndex, i) # LASTCLUSTER
  BY <1>6, <1>7, AtBehind
<1> QED
  BY <1>1, <1>2, <1>5, <1>8, WalkIs DEF InChain

LEMMA SeekIs ==
    ASSUME link \in Table, NEW f \in HandleType, NEW real \in Nat,
           NEW n, n = MoveCount(f, real), NEW c, c = MoveFrom(f, real), NEW g, g = Seek(f, real)
    PROVE  /\ g \in HandleType /\ n \in Int
           /\ g.used = f.used /\ g.entry = f.entry /\ g.dwFileSize = f.dwFileSize
           /\ g.dwStartClusterIndex = f.dwStartClusterIndex
           /\ g.dwCurrentOffset = IF IsBeyond(f, real) THEN f.dwFileSize ELSE real
           /\ g.dwCurrentClusterIndex =
                IF n > 0 THEN At(link, c, n) ELSE IF c = f.dwStartClusterIndex
                THEN f.dwStartClusterIndex ELSE f.dwCurrentClusterIndex
           /\ g.dwPreviousClusterIndex =
                IF n > 0 THEN At(link, c, n - 1) ELSE IF c = f.dwStartClusterIndex
                THEN f.dwStartClusterIndex ELSE f.dwPreviousClusterIndex
<1>1. PICK d, p, o :
        /\ d = (IF n > 0 THEN At(link, c, n) ELSE IF c = f.dwStartClusterIndex
                THEN f.dwStartClusterIndex ELSE f.dwCurrentClusterIndex)
        /\ p = (IF n > 0 THEN At(link, c, n - 1) ELSE IF c = f.dwStartClusterIndex
                THEN f.dwStartClusterIndex ELSE f.dwPreviousClusterIndex)
        /\ o = IF IsBeyond(f, real) THEN f.dwFileSize ELSE real
  OBVIOUS
<1>2. Seek(f, real) = [f EXCEPT !.dwCurrentClusterIndex = d, !.dwPreviousClusterIndex = p,
                                !.dwCurrentOffset = o]
  BY <1>1, WalkIs DEF Seek
<1>3. g \in HandleType
  BY SeekType
<1>4. n \in Int
  BY ClusterOfType DEF MoveCount, HandleType
<1>5. /\ g.used = f.used /\ g.entry = f.entry /\ g.dwFileSize = f.dwFileSize
      /\ g.dwStartClusterIndex = f.dwStartClusterIndex
      /\ g.dwCurrentOffset = o /\ g.dwCurrentClusterIndex = d /\ g.dwPreviousClusterIndex = p
  BY <1>2 DEF HandleType
<1> QED
  BY <1>1, <1>3, <1>4, <1>5

\* Wherever kSeekFile goes without an error, it finds the cluster.
LEMMA SeekPlace ==
    ASSUME link \in Table, NEW f \in HandleType, OnPlace(link, f), NEW real \in Nat,
           CanSeek(f, real), NEW g, g = Seek(f, real)
    PROVE  OnPlace(link, g)
<1>1. PICK last, now, to, s : /\ last = ClusterOf(f.dwFileSize) /\ now = ClusterOf(f.dwCurrentOffset)
                              /\ to = ClusterOf(real) /\ s = f.dwStartClusterIndex
  OBVIOUS
<1>2. last \in Nat /\ now \in Nat /\ to \in Nat /\ s \in Clusters
  BY <1>1, ClusterOfType DEF HandleType
<1>3. PICK n, c : n = MoveCount(f, real) /\ c = MoveFrom(f, real)
  OBVIOUS
<1>4. n \in Nat /\ (n > 0 => At(link, c, n - 1) # LASTCLUSTER)
  <2>1. n \in Int /\ n >= 0
    BY <1>3, SeekIs DEF CanSeek
  <2>2. n > 0 => Walk(c, n - 1) # LASTCLUSTER
    BY <1>3, <2>1 DEF CanSeek
  <2> QED
    BY <2>1, <2>2, WalkIs
<1>5. IsBeyond(f, real) <=> last < to
  BY <1>1 DEF IsBeyond
<1>6. n = IF last < to THEN last - now ELSE IF now <= to THEN to - now ELSE to
  BY <1>1, <1>3 DEF MoveCount
<1>7. c = IF now <= to \/ last < to THEN f.dwCurrentClusterIndex ELSE s
  BY <1>1, <1>3, <1>5 DEF MoveFrom
<1>8. /\ f.dwCurrentClusterIndex = At(link, s, now) /\ Within(link, s, now)
      /\ f.dwCurrentClusterIndex = LASTCLUSTER => f.dwPreviousClusterIndex = At(link, s, now - 1)
  BY <1>1 DEF OnPlace
<1>9. /\ g.dwStartClusterIndex = s
      /\ g.dwCurrentOffset = IF last < to THEN f.dwFileSize ELSE real
      /\ g.dwCurrentClusterIndex =
                IF n > 0 THEN At(link, c, n) ELSE IF c = s THEN s ELSE f.dwCurrentClusterIndex
      /\ g.dwPreviousClusterIndex =
                IF n > 0 THEN At(link, c, n - 1) ELSE IF c = s THEN s ELSE f.dwPreviousClusterIndex
  BY <1>1, <1>3, <1>5, SeekIs
<1>10. ClusterOf(g.dwCurrentOffset) = IF last < to THEN last ELSE to
  BY <1>1, <1>9
<1>11. s # LASTCLUSTER /\ At(link, s, 0) = s
  BY <1>2, LinkFacts, AtIs
<1>12. CASE now <= to \/ last < to
  <2>1. c = f.dwCurrentClusterIndex /\ ClusterOf(g.dwCurrentOffset) = now + n
    BY <1>2, <1>6, <1>7, <1>10, <1>12
  <2>2. CASE n = 0
    <3>1. g.dwCurrentClusterIndex = f.dwCurrentClusterIndex /\ ClusterOf(g.dwCurrentOffset) = now
      BY <1>2, <1>9, <2>1, <2>2
    <3>2. g.dwCurrentClusterIndex = LASTCLUSTER => g.dwPreviousClusterIndex = f.dwPreviousClusterIndex
      BY <1>9, <1>11, <2>1, <2>2, <3>1
    <3> QED
      BY <1>8, <1>9, <3>1, <3>2 DEF OnPlace
  <2>3. CASE n > 0
    <3>1. n - 1 \in Nat /\ now + (n - 1) = (now + n) - 1 /\ now + n # 0
      BY <1>2, <1>4, <2>3
    <3>2. At(link, s, now + n) = At(link, At(link, s, now), n)
      BY <1>2, <1>4, AtSum
    <3>3. At(link, s, now + (n - 1)) = At(link, At(link, s, now), n - 1)
      BY <1>2, <3>1, AtSum
    <3>4. g.dwCurrentClusterIndex = At(link, s, now + n) /\ g.dwPreviousClusterIndex = At(link, s, (now + n) - 1)
      BY <1>8, <1>9, <2>1, <2>3, <3>1, <3>2, <3>3
    <3>5. At(link, s, (now + n) - 1) # LASTCLUSTER
      BY <1>4, <1>8, <2>1, <2>3, <3>1, <3>3
    <3> QED
      BY <1>9, <2>1, <3>1, <3>4, <3>5 DEF OnPlace, Within
  <2> QED
    BY <1>4, <2>2, <2>3
<1>13. CASE ~(now <= to \/ last < to)
  <2>1. c = s /\ ClusterOf(g.dwCurrentOffset) = to /\ n = to
    BY <1>2, <1>6, <1>7, <1>10, <1>13
  <2>2. CASE n = 0
    <3>1. g.dwCurrentClusterIndex = s
      BY <1>9, <2>1, <2>2
    <3> QED
      BY <1>9, <1>11, <2>1, <2>2, <3>1 DEF OnPlace, Within
  <2>3. CASE n > 0
    BY <1>4, <1>9, <2>1, <2>3 DEF OnPlace, Within
  <2> QED
    BY <1>4, <2>2, <2>3
<1> QED
  BY <1>12, <1>13

-----------------------------------------------------------------------------
\* Calls and handles

LEMMA GoodNext ==
    ASSUME VolumeInv(link', root'), HandlesInv(link', root', pool'),
           CallsInv(pool', holder', call'), ContentInv(link', root', data', content'),
           failed' = FALSE => Exact(link', root', pool', content', Writer', WriterOffset', Goes')
    PROVE  Good'
  BY DEF Good

LEMMA CallsFrame ==
    ASSUME CallsType, NEW p, NEW q, NEW ho, CallsInv(p, ho, call),
           \A h \in Handles : q[h].used = p[h].used
    PROVE  CallsInv(q, ho, call)
  BY DEF CallsInv, CallsType

\* A function with another value at one place
Put(p, h, g) == [p EXCEPT ![h] = g]

LEMMA CallGoes ==
    ASSUME CallsType, NEW p, NEW ho, CallsInv(p, ho, call), NEW t \in Tasks, NEW c,
           c.step \in {"lock", "write", "update"} => p[c.h].used = TRUE /\ ho[c.h] = t,
           c.step = "close" => p[c.h].used = FALSE
    PROVE  CallsInv(p, ho, Put(call, t, c))
<1>1. PICK ca : ca = Put(call, t, c)
  OBVIOUS
<1>2. ca[t] = c /\ \A u \in Tasks : u # t => ca[u] = call[u]
  BY <1>1 DEF CallsType, Put
<1>3. CallsInv(p, ho, ca)
  BY <1>2 DEF CallsInv
<1> QED
  BY <1>1, <1>3

\* Apart from its place the handle is the same.
Alike(f, g) ==
    g.used = f.used /\ g.entry = f.entry /\ g.dwStartClusterIndex = f.dwStartClusterIndex

LEMMA MovedHandle ==
    ASSUME NEW t, NEW r, NEW p \in [Handles -> HandleType], HandlesInv(t, r, p),
           NEW h \in Handles, p[h].used = TRUE, NEW g \in HandleType, Alike(p[h], g), OnPlace(t, g)
    PROVE  /\ HandlesInv(t, r, Put(p, h, g))
           /\ \A x \in Handles : Put(p, h, g)[x].used = p[x].used
           /\ SizesKnown(r, p) /\ g.dwFileSize = p[h].dwFileSize => SizesKnown(r, Put(p, h, g))
<1>1. PICK q : q = Put(p, h, g)
  OBVIOUS
<1>2. q[h] = g /\ \A x \in Handles : x # h => q[x] = p[x]
  BY <1>1 DEF Put
<1>3. HandleOK(t, r, p[h])
  BY DEF HandlesInv
<1>4. HandleOK(t, r, g)
  BY <1>3 DEF HandleOK, Alike
<1>5. \A x \in Handles : q[x].used = p[x].used /\ q[x].entry = p[x].entry
  BY <1>2 DEF Alike
<1>6. HandlesInv(t, r, q)
  BY <1>2, <1>4, <1>5 DEF HandlesInv
<1>7. SizesKnown(r, p) /\ g.dwFileSize = p[h].dwFileSize => SizesKnown(r, q)
  BY <1>2, <1>5 DEF SizesKnown
<1> QED
  BY <1>1, <1>5, <1>6, <1>7

\* While nothing is being written, no file is an exception.
LEMMA ExactStart ==
    ASSUME NEW t, NEW r, NEW p, NEW q, NEW b, NEW o, NEW g, Exact(t, r, p, b, None, o, g),
           SizesKnown(r, q), NEW w, NEW off, NEW goes
    PROVE  Exact(t, r, q, b, w, off, goes)
<1>1. \A i \in FilesOf(r) : i # None
  BY Distinct DEF FilesOf
<1>2. ASSUME NEW i \in FilesOf(r)
      PROVE  Tight(t, r[i], i, w, off, goes) /\ Complete(r[i], i, b[r[i].name], w, off)
  <2>1. Tight(t, r[i], i, None, o, g) /\ Complete(r[i], i, b[r[i].name], None, o)
    BY DEF Exact
  <2>2. Tight(t, r[i], i, w, off, goes)
    BY <1>1, <2>1 DEF Tight
  <2>3. Complete(r[i], i, b[r[i].name], w, off)
    BY <1>1, <2>1 DEF Complete
  <2> QED
    BY <2>2, <2>3
<1> QED
  BY <1>2 DEF Exact

LEMMA NoWriter == ASSUME owner = NoTask PROVE Writer = None
  BY DEF Writer

LEMMA QuietExact ==
    ASSUME Good, owner = NoTask, UNCHANGED <<link, root, content>>, failed' = FALSE => failed = FALSE,
           SizesKnown(root, pool) => SizesKnown(root, pool')
    PROVE  failed' = FALSE => Exact(link', root', pool', content', Writer', WriterOffset', Goes')
<1>1. SUFFICES ASSUME failed' = FALSE
               PROVE  Exact(link, root, pool', content, Writer', WriterOffset', Goes')
  OBVIOUS
<1>2. Exact(link, root, pool, content, None, WriterOffset, Goes)
  BY <1>1, NoWriter DEF Good
<1>3. SizesKnown(root, pool')
  BY <1>2 DEF Exact
<1>4. PICK q, w, off, goes : q = pool' /\ w = Writer' /\ off = WriterOffset' /\ goes = Goes'
  OBVIOUS
<1>5. Exact(link, root, q, content, w, off, goes)
  BY <1>2, <1>3, <1>4, ExactStart
<1> QED
  BY <1>4, <1>5

LEMMA GoodReadFile ==
    ASSUME TypeInv, Good, NEW t \in Tasks, NEW h \in Handles, NEW count \in Nat,
           ReadFile(t, h, count), broken' = FALSE
    PROVE  Good'
<1>1. PICK f : f = pool[h]
  OBVIOUS
<1>2. f \in HandleType /\ link \in Table /\ pool \in [Handles -> HandleType]
  BY <1>1 DEF TypeInv, VolumeType
<1>3. PICK most : most = f.dwFileSize - f.dwCurrentOffset
  OBVIOUS
<1>4. PICK asked : asked = IF most \in 0 .. count THEN most ELSE count
  OBVIOUS
<1>5. asked \in Nat
  BY <1>4
<1>6. PICK total : total = CHOOSE n \in 0 .. asked :
            /\ n > 0 => InChain(f, n)
            /\ n < asked => ~InChain(f, n + 1)
  OBVIOUS
<1>7. total \in Nat /\ (total > 0 => InChain(f, total))
  BY <1>5, <1>6, TotalIs
<1>8. \/ pool' = [pool EXCEPT ![h] = Advance(f, total)] /\ UNCHANGED <<failed, broken>>
      \/ \E n \in 1 .. total : /\ failed' = TRUE
                               /\ pool' = [pool EXCEPT ![h] = Advance(f, n)]
  BY <1>1, <1>3, <1>4, <1>6 DEF ReadFile
<1>9. PICK n \in Nat : /\ pool' = [pool EXCEPT ![h] = Advance(f, n)] /\ (n > 0 => InChain(f, n))
                       /\ failed' = TRUE \/ failed' = failed
  <2>1. CASE pool' = [pool EXCEPT ![h] = Advance(f, total)] /\ UNCHANGED <<failed, broken>>
    BY <1>7, <2>1
  <2>2. CASE \E n \in 1 .. total : failed' = TRUE /\ pool' = [pool EXCEPT ![h] = Advance(f, n)]
    <3>1. PICK n \in 1 .. total : failed' = TRUE /\ pool' = [pool EXCEPT ![h] = Advance(f, n)]
      BY <2>2
    <3>2. n \in Nat /\ 0 < n /\ n <= total /\ total > 0
      BY <1>7, <3>1
    <3>3. InChain(f, n)
      BY <1>2, <1>7, <3>2, InChainLess
    <3> QED
      BY <3>1, <3>2, <3>3
  <2> QED
    BY <1>8, <2>1, <2>2
<1>10. PICK g : g = Advance(f, n)
  OBVIOUS
<1>11. /\ g \in HandleType /\ g.used = f.used /\ g.entry = f.entry /\ g.dwFileSize = f.dwFileSize
       /\ g.dwStartClusterIndex = f.dwStartClusterIndex
  BY <1>2, <1>10, AdvanceIs DEF Moves
<1>12. f.used = TRUE /\ owner = NoTask /\ UNCHANGED <<volume, owner, call, holder, content>>
  BY <1>1, <1>2 DEF ReadFile, Has, Calls, HandleType
<1>13. HandleOK(link, root, f)
  BY <1>1, <1>12 DEF Good, HandlesInv
<1>14. OnPlace(link, g)
  BY <1>2, <1>9, <1>10, <1>13, AdvancePlace DEF HandleOK
<1>15. PICK q : q = Put(pool, h, g)
  OBVIOUS
<1>16. pool' = q
  BY <1>9, <1>10, <1>15 DEF Put
<1>17. /\ HandlesInv(link, root, q) /\ \A x \in Handles : q[x].used = pool[x].used
       /\ SizesKnown(root, pool) => SizesKnown(root, q)
  <2>1. pool[h].used = TRUE /\ Alike(pool[h], g) /\ g.dwFileSize = pool[h].dwFileSize
    BY <1>1, <1>11, <1>12 DEF Alike
  <2>2. HandlesInv(link, root, pool)
    BY DEF Good
  <2> QED
    BY <1>2, <1>11, <1>14, <1>15, <2>1, <2>2, MovedHandle
<1>18. CallsInv(q, holder, call)
  BY <1>17, CallsFrame DEF Good, TypeInv
<1>19. failed' = FALSE => Exact(link', root', pool', content', Writer', WriterOffset', Goes')
  BY <1>9, <1>12, <1>16, <1>17, QuietExact DEF volume
<1> QED
  BY <1>12, <1>16, <1>17, <1>18, <1>19, GoodNext DEF Good, volume

LEMMA GoodWriteFile ==
    ASSUME TypeInv, Good, NEW t \in Tasks, NEW h \in Handles, NEW count, WriteFile(t, h, count)
    PROVE  Good'
<1>1. PICK c : c = [Idle EXCEPT !.step = "write", !.h = h, !.left = count]
  OBVIOUS
<1>2. c.step = "write" /\ c.h = h
  BY <1>1 DEF Idle
<1>3. call' = Put(call, t, c)
  BY <1>1 DEF WriteFile, Put
<1>4. /\ owner = NoTask /\ holder[h] = t /\ pool[h].used = TRUE
      /\ UNCHANGED <<volume, pool, holder, content, failed>>
  BY DEF WriteFile, Calls, Has, TypeInv, HandleType
<1>5. CallsInv(pool, holder, call')
  BY <1>2, <1>3, <1>4, CallGoes DEF Good, TypeInv
<1>6. failed' = FALSE => Exact(link', root', pool', content', Writer', WriterOffset', Goes')
  BY <1>4, QuietExact DEF volume
<1> QED
  BY <1>4, <1>5, <1>6, GoodNext DEF Good, volume

LEMMA GoodLock == ASSUME TypeInv, Good, NEW t \in Tasks, Lock(t) PROVE Good'
<1>1. PICK c : c = [call[t] EXCEPT !.step = "write"]
  OBVIOUS
<1>2. call[t] \in CallType /\ call[t].step = "lock"
  BY DEF TypeInv, CallsType, Lock
<1>3. c.step = "write" /\ c.h = call[t].h
  BY <1>1, <1>2 DEF CallType
<1>4. call' = Put(call, t, c)
  BY <1>1 DEF Lock, Put
<1>5. owner = NoTask /\ UNCHANGED <<volume, pool, holder, content, failed>>
  BY DEF Lock
<1>6. pool[call[t].h].used = TRUE /\ holder[call[t].h] = t
  BY <1>2 DEF Good, CallsInv
<1>7. CallsInv(pool, holder, call')
  BY <1>3, <1>4, <1>6, CallGoes DEF Good, TypeInv
<1>8. failed' = FALSE => Exact(link', root', pool', content', Writer', WriterOffset', Goes')
  BY <1>5, QuietExact DEF volume
<1> QED
  BY <1>5, <1>7, <1>8, GoodNext DEF Good, volume

LEMMA GoodSeekFile ==
    ASSUME TypeInv, Good, NEW t \in Tasks, NEW h \in Handles, NEW iOffset \in Offsets,
           NEW iOrigin \in {"SET", "CUR", "END"}, SeekFile(t, h, iOffset, iOrigin)
    PROVE  Good'
<1>1. PICK f : f = pool[h]
  OBVIOUS
<1>2. f \in HandleType /\ link \in Table /\ pool \in [Handles -> HandleType]
  BY <1>1 DEF TypeInv, VolumeType
<1>3. PICK real : real = RealOffset(f, iOffset, iOrigin)
  OBVIOUS
<1>4. real \in Nat
  <2>1. iOffset \in Int
    BY FileSystemAssumption
  <2> QED
    BY <1>2, <1>3, <2>1, RealOffsetType
<1>5. Seeking(t, h, f, real)
  BY <1>1, <1>3, SeekFileIs
<1>6. /\ owner = NoTask /\ holder[h] = t /\ f.used = TRUE /\ CanSeek(f, real)
      /\ UNCHANGED <<volume, holder, content>>
  BY <1>1, <1>2, <1>5 DEF Seeking, Calls, Has, HandleType
<1>7. PICK g : g = Seek(f, real)
  OBVIOUS
<1>8. g \in HandleType /\ Alike(f, g) /\ g.dwFileSize = f.dwFileSize
  BY <1>2, <1>4, <1>7, SeekIs DEF Alike
<1>9. OnPlace(link, g)
  <2>1. OnPlace(link, f)
    BY <1>1, <1>6 DEF Good, HandlesInv, HandleOK
  <2> QED
    BY <1>2, <1>4, <1>6, <1>7, <2>1, SeekPlace
<1>10. PICK q : q = Put(pool, h, g)
  OBVIOUS
<1>11. /\ HandlesInv(link, root, q) /\ \A x \in Handles : q[x].used = pool[x].used
       /\ SizesKnown(root, pool) => SizesKnown(root, q)
  <2>1. pool[h].used = TRUE /\ Alike(pool[h], g) /\ g.dwFileSize = pool[h].dwFileSize
    BY <1>1, <1>6, <1>8
  <2>2. HandlesInv(link, root, pool)
    BY DEF Good
  <2> QED
    BY <1>2, <1>8, <1>9, <1>10, <2>1, <2>2, MovedHandle
<1>12. /\ UNCHANGED pool \/ pool' = q
       /\ \/ UNCHANGED call
          \/ call' = Put(call, t, SeekCall(h, real - f.dwFileSize))
       /\ UNCHANGED failed \/ failed' = TRUE
  BY <1>5, <1>7, <1>10 DEF Seeking, Put
<1>13. HandlesInv(link, root, pool') /\ (SizesKnown(root, pool) => SizesKnown(root, pool'))
  BY <1>11, <1>12 DEF Good
<1>14. \A x \in Handles : pool'[x].used = pool[x].used
  BY <1>11, <1>12
<1>15. CallsInv(pool, holder, call')
  <2>1. CASE UNCHANGED call
    BY <2>1 DEF Good
  <2>2. CASE call' = Put(call, t, SeekCall(h, real - f.dwFileSize))
    <3>1. PICK c : c = SeekCall(h, real - f.dwFileSize)
      OBVIOUS
    <3>2. c.step = "lock" /\ c.h = h
      BY <3>1 DEF SeekCall, Idle
    <3>3. pool[h].used = TRUE
      BY <1>1, <1>6
    <3> QED
      BY <1>6, <2>2, <3>1, <3>2, <3>3, CallGoes DEF Good, TypeInv
  <2> QED
    BY <1>12, <2>1, <2>2
<1>16. CallsInv(pool', holder, call')
  <2>1. CallsType'
    BY TypeSeekFile DEF TypeInv
  <2> QED
    BY <1>14, <1>15, <2>1 DEF CallsInv, CallsType
<1>17. failed' = FALSE => Exact(link', root', pool', content', Writer', WriterOffset', Goes')
  BY <1>6, <1>12, <1>13, QuietExact DEF volume
<1> QED
  BY <1>6, <1>13, <1>16, <1>17, GoodNext DEF Good, volume

\* The loop ends, and the mutex is still owned.
LEMMA LoopEnds ==
    ASSUME CallsType, Good, NEW t \in Tasks, call[t].step = "write", EndLoop(t)
    PROVE  CallsInv(pool, holder, call')
<1>1. PICK c : c = [call[t] EXCEPT !.step = "update"]
  OBVIOUS
<1>2. c.step = "update" /\ c.h = call[t].h
  BY <1>1 DEF CallsType, CallType
<1>3. call' = Put(call, t, c)
  BY <1>1 DEF EndLoop, Put
<1>4. pool[call[t].h].used = TRUE /\ holder[call[t].h] = t
  BY DEF Good, CallsInv
<1> QED
  BY <1>2, <1>3, <1>4, CallGoes DEF Good

LEMMA GoodWriteClusterFails == ASSUME TypeInv, Good, NEW t \in Tasks, WriteClusterFails(t) PROVE Good'
<1>1. call[t].step = "write" /\ EndLoop(t) /\ failed' = TRUE /\ UNCHANGED <<volume, pool, holder, content>>
  BY DEF WriteClusterFails
<1>2. CallsInv(pool, holder, call')
  BY <1>1, LoopEnds DEF TypeInv
<1> QED
  BY <1>1, <1>2, GoodNext DEF Good, volume

\* Handles that are in use and what is being written are left alone.
LEMMA Aside ==
    ASSUME TypeInv, Good, NEW t \in Tasks, call[t].step \notin {"lock", "write", "update"},
           NEW h \in Handles, NEW c, pool' = Put(pool, h, FreeHandle), call' = Put(call, t, c),
           c.step \notin {"lock", "write", "update"}, c.step = "close" => c.h = h,
           \A u \in Tasks : u # t /\ call[u].step \in {"lock", "write", "update"} =>
                call[u].h # h /\ holder'[call[u].h] = u,
           UNCHANGED <<volume, owner, content, failed>>
    PROVE  Good'
<1>1. pool \in [Handles -> HandleType] /\ CallsType
  BY DEF TypeInv
<1>2. pool'[h] = FreeHandle /\ \A x \in Handles : x # h => pool'[x] = pool[x]
  BY <1>1 DEF Put
<1>3. FreeHandle.used = FALSE
  BY DEF FreeHandle
<1>4. \A x \in Handles : pool'[x].used = TRUE => x # h /\ pool'[x] = pool[x]
  BY <1>2, <1>3
<1>5. HandlesInv(link, root, pool')
  BY <1>4 DEF Good, HandlesInv
<1>6. call'[t] = c /\ \A u \in Tasks : u # t => call'[u] = call[u]
  BY <1>1 DEF CallsType, Put
<1>7. CallsInv(pool', holder', call')
  <2>1. ASSUME NEW u \in Tasks
        PROVE  /\ call'[u].step \in {"lock", "write", "update"} =>
                    pool'[call'[u].h].used = TRUE /\ holder'[call'[u].h] = u
               /\ call'[u].step = "close" => pool'[call'[u].h].used = FALSE
    <3>1. CASE u = t
      BY <1>2, <1>3, <1>6, <3>1
    <3>2. CASE u # t
      <4>1. call'[u] = call[u]
        BY <1>6, <3>2
      <4>2. call[u].step \in {"lock", "write", "update"} =>
                pool[call[u].h].used = TRUE /\ call[u].h \in Handles
        BY <1>1 DEF Good, CallsInv, CallsType
      <4>3. call[u].step = "close" => pool[call[u].h].used = FALSE /\ call[u].h \in Handles
        BY <1>1 DEF Good, CallsInv, CallsType
      <4>4. call[u].step = "close" => pool'[call[u].h].used = FALSE
        BY <1>2, <1>3, <4>3
      <4> QED
        BY <1>2, <3>2, <4>1, <4>2, <4>4
    <3> QED
      BY <3>1, <3>2
  <2> QED
    BY <2>1 DEF CallsInv
<1>8. Writer' = Writer /\ WriterOffset' = WriterOffset /\ Goes' = Goes
  <2>1. CASE owner = NoTask
    BY <2>1 DEF Writer, WriterOffset, Goes
  <2>2. CASE owner # NoTask
    <3>1. owner \in Tasks /\ call[owner].step \in {"write", "update"} /\ owner # t
      BY <1>1, <2>2 DEF CallsType
    <3>2. call[owner].h \in Handles /\ call[owner].h # h
      BY <1>1, <3>1 DEF CallsType
    <3>3. call'[owner] = call[owner] /\ pool'[call[owner].h] = pool[call[owner].h]
      BY <1>2, <1>6, <3>1, <3>2
    <3> QED
      BY <2>2, <3>3 DEF Writer, WriterOffset, Goes
  <2> QED
    BY <2>1, <2>2
<1>9. failed' = FALSE => Exact(link', root', pool', content', Writer', WriterOffset', Goes')
  <2>1. SizesKnown(root, pool) => SizesKnown(root, pool')
    BY <1>4 DEF SizesKnown
  <2> QED
    BY <1>8, <2>1 DEF Good, Exact, volume
<1> QED
  BY <1>5, <1>7, <1>9, GoodNext DEF Good, volume

LEMMA GoodCloseFile == ASSUME TypeInv, Good, NEW t \in Tasks, NEW h \in Handles, CloseFile(t, h) PROVE Good'
<1>1. PICK c : c = [Idle EXCEPT !.step = "close", !.h = h]
  OBVIOUS
<1>2. c.step = "close" /\ c.h = h
  BY <1>1 DEF Idle
<1>3. /\ pool' = Put(pool, h, FreeHandle) /\ call' = Put(call, t, c)
      /\ call[t].step = "idle" /\ holder[h] = t
      /\ holder' = [holder EXCEPT ![h] = NoTask] /\ UNCHANGED <<volume, owner, content, failed>>
  BY <1>1 DEF CloseFile, Put, Has
<1>4. ASSUME NEW u \in Tasks, u # t, call[u].step \in {"lock", "write", "update"}
      PROVE  call[u].h # h /\ holder'[call[u].h] = u
  <2>1. holder[call[u].h] = u
    BY <1>4 DEF Good, CallsInv
  <2>2. call[u].h # h
    BY <1>3, <1>4, <2>1
  <2>3. call[u].h \in Handles /\ holder \in [Handles -> Tasks \cup {NoTask}]
    BY <1>4 DEF TypeInv, CallsType
  <2> QED
    BY <1>3, <2>1, <2>2, <2>3
<1> QED
  BY <1>2, <1>3, <1>4, Aside

LEMMA GoodCloseRest == ASSUME TypeInv, Good, NEW t \in Tasks, CloseRest(t) PROVE Good'
<1>1. PICK h : h = call[t].h
  OBVIOUS
<1>2. /\ pool' = Put(pool, h, FreeHandle) /\ call' = Put(call, t, Idle)
      /\ call[t].step = "close" /\ UNCHANGED <<volume, owner, holder, content, failed>>
  BY <1>1 DEF CloseRest, Put
<1>3. h \in Handles /\ pool[h].used = FALSE
  BY <1>1, <1>2 DEF Good, CallsInv, TypeInv, CallsType
<1>4. Idle.step = "idle"
  BY DEF Idle
<1>5. ASSUME NEW u \in Tasks, u # t, call[u].step \in {"lock", "write", "update"}
      PROVE  call[u].h # h /\ holder'[call[u].h] = u
  BY <1>2, <1>3, <1>5 DEF Good, CallsInv
<1> QED
  BY <1>2, <1>3, <1>4, <1>5, Aside

-----------------------------------------------------------------------------
\* The file that is being written

LEMMA WriterIs ==
    ASSUME TypeInv, Good, NEW t \in Tasks, call[t].step \in {"write", "update"},
           NEW h, h = call[t].h, NEW f, f = pool[h], NEW i, i = f.entry
    PROVE  /\ owner = t /\ h \in Handles /\ f \in HandleType /\ f.used = TRUE
           /\ HandleOK(link, root, f) /\ i \in FilesOf(root) /\ i \in Entries
           /\ Start(root, i) = f.dwStartClusterIndex /\ f.dwStartClusterIndex \in Clusters
           /\ ChainOK(link, f.dwStartClusterIndex, root[i].dwFileSize)
           /\ root[i].dwFileSize \in Nat /\ root[i].name \in Names
<1>1. CallsType /\ pool \in [Handles -> HandleType] /\ root \in Root
  BY DEF TypeInv, VolumeType
<1>2. owner = t /\ h \in Handles
  BY <1>1, OwnerIs
<1>3. f.used = TRUE
  BY DEF Good, CallsInv
<1>4. HandleOK(link, root, f)
  BY <1>2, <1>3 DEF Good, HandlesInv
<1>5. i \in FilesOf(root) /\ Start(root, i) = f.dwStartClusterIndex
  BY <1>4 DEF HandleOK
<1>6. ChainOK(link, Start(root, i), root[i].dwFileSize)
  BY <1>5 DEF Good, VolumeInv
<1> QED
  BY <1>1, <1>2, <1>3, <1>4, <1>5, <1>6, FilesAreEntries, RootIs

LEMMA AtEnd ==
    ASSUME link \in Table, NEW f \in HandleType, OnPlace(link, f),
           NEW c, c = f.dwStartClusterIndex, NEW size, ChainOK(link, c, size),
           f.dwCurrentClusterIndex = LASTCLUSTER
    PROVE  /\ ClusterOf(f.dwCurrentOffset) = Long(link, c)
           /\ f.dwPreviousClusterIndex = At(link, c, Long(link, c) - 1)
           /\ Long(link, c) * ClusterSize <= f.dwCurrentOffset
           /\ (Long(link, c) - 1) * ClusterSize < f.dwCurrentOffset
<1>1. PICK k : k = ClusterOf(f.dwCurrentOffset)
  OBVIOUS
<1>2. PICK n : n = Long(link, c)
  OBVIOUS
<1>3. k \in Nat /\ c \in Clusters /\ f.dwCurrentOffset \in Nat
  BY <1>1, ClusterOfType DEF HandleType
<1>4. n \in Nat /\ n > 0 /\ (\A j \in Nat : j < n <=> At(link, c, j) # LASTCLUSTER)
  BY <1>2, <1>3, OKIs
<1>5. At(link, c, k) = LASTCLUSTER /\ f.dwPreviousClusterIndex = At(link, c, k - 1) /\ Within(link, c, k)
  BY <1>1 DEF OnPlace
<1>6. k # 0
  BY <1>4, <1>5
<1>7. k - 1 \in Nat /\ k - 1 < n /\ ~(k < n)
  BY <1>3, <1>4, <1>5, <1>6 DEF Within
<1>8. k = n
  BY <1>3, <1>4, <1>7
<1>9. k * ClusterSize <= f.dwCurrentOffset
  BY <1>1, <1>3, Constants, Division DEF ClusterOf
<1>10. (n - 1) * ClusterSize < n * ClusterSize /\ n * ClusterSize \in Nat /\ (n - 1) * ClusterSize \in Int
  BY <1>4, Constants
<1> QED
  BY <1>1, <1>2, <1>3, <1>5, <1>8, <1>9, <1>10

LEMMA SameSelf == ASSUME NEW t, NEW c PROVE Same(t, t, c)
  BY DEF Same

\* Only the file i, and who writes it, changes.
LEMMA ExactExcept ==
    ASSUME NEW t, NEW u, NEW r \in Root, NEW q, NEW i, NEW p, NEW s, NEW b, NEW a,
           NEW w, NEW off, NEW goes, NEW v, NEW o, NEW g,
           VolumeInv(t, r), Kept(t, u, r, q, i), Exact(t, r, p, b, w, off, goes), w \in {i, None},
           SizesKnown(q, s), NoLeak(u, q),
           \A j \in FilesOf(q) : j # i => a[q[j].name] = b[q[j].name],
           i \in FilesOf(q) => Tight(u, q[i], i, v, o, g) /\ Complete(q[i], i, a[q[i].name], v, o)
    PROVE  Exact(u, q, s, a, v, o, g)
<1>1. ASSUME NEW j \in FilesOf(q), j # i
      PROVE  Tight(u, q[j], j, v, o, g) /\ Complete(q[j], j, a[q[j].name], v, o)
  <2>1. j \in FilesOf(r) /\ q[j] = r[j] /\ Same(t, u, Start(r, j))
    BY <1>1 DEF Kept
  <2>2. j # w
    BY <1>1, Distinct DEF FilesOf
  <2>3. Tight(t, r[j], j, w, off, goes) /\ Complete(r[j], j, b[r[j].name], w, off)
    BY <2>1 DEF Exact
  <2>4. ChainOK(t, Start(r, j), r[j].dwFileSize) /\ r[j].dwFileSize \in Nat
    BY <2>1, FilesAreEntries, RootIs DEF VolumeInv
  <2>5. Long(u, r[j].dwStartClusterIndex) = Long(t, r[j].dwStartClusterIndex)
    BY <2>1, <2>4, SameOK DEF Start
  <2>6. Tight(u, q[j], j, v, o, g)
    BY <2>1, <2>2, <2>3, <2>5 DEF Tight
  <2>7. Complete(q[j], j, a[q[j].name], v, o)
    BY <1>1, <2>1, <2>2, <2>3 DEF Complete
  <2> QED
    BY <2>6, <2>7
<1>2. \A j \in FilesOf(q) : Tight(u, q[j], j, v, o, g) /\ Complete(q[j], j, a[q[j].name], v, o)
  BY <1>1
<1> QED
  BY <1>2 DEF Exact

LEMMA HandlesExcept ==
    ASSUME NEW t, NEW u, NEW r, NEW q, NEW i, Kept(t, u, r, q, i),
           \A j \in FilesOf(r) : j \in FilesOf(q),
           NEW p \in [Handles -> HandleType], HandlesInv(t, r, p),
           NEW h \in Handles, p[h].used = TRUE, p[h].entry = i,
           NEW g \in HandleType, g.used = TRUE, g.entry = i, HandleOK(u, q, g)
    PROVE  /\ HandlesInv(u, q, Put(p, h, g))
           /\ \A x \in Handles : Put(p, h, g)[x].used = p[x].used
<1>1. PICK s : s = Put(p, h, g)
  OBVIOUS
<1>2. s[h] = g /\ \A x \in Handles : x # h => s[x] = p[x]
  BY <1>1 DEF Put
<1>3. \A x \in Handles : s[x].used = p[x].used /\ s[x].entry = p[x].entry
  BY <1>2
<1>4. ASSUME NEW x \in Handles, s[x].used = TRUE PROVE HandleOK(u, q, s[x])
  <2>1. CASE x = h
    BY <1>2, <2>1
  <2>2. CASE x # h
    <3>1. p[x].used = TRUE /\ HandleOK(t, r, p[x]) /\ p[x].entry # i /\ p[x] \in HandleType
      BY <1>2, <1>4, <2>2 DEF HandlesInv
    <3>2. p[x].entry \in FilesOf(q)
      BY <3>1 DEF HandleOK
    <3> QED
      BY <1>2, <2>2, <3>1, <3>2, HandleFrame
  <2> QED
    BY <2>1, <2>2
<1>5. HandlesInv(u, q, s)
  BY <1>3, <1>4 DEF HandlesInv
<1> QED
  BY <1>1, <1>3, <1>5

LEMMA HandlesPut ==
    ASSUME NEW t, NEW u, NEW r, NEW q, NEW i, Kept(t, u, r, q, i), FilesOf(q) = FilesOf(r),
           NEW p \in [Handles -> HandleType], HandlesInv(t, r, p),
           NEW h \in Handles, p[h].used = TRUE, p[h].entry = i,
           NEW g \in HandleType, g.used = TRUE, g.entry = i, HandleOK(u, q, g)
    PROVE  HandlesInv(u, q, Put(p, h, g))
<1>1. \A j \in FilesOf(r) : j \in FilesOf(q)
  OBVIOUS
<1> QED
  BY <1>1, HandlesExcept

\* A chain that has only grown still holds what it held.
LEMMA HeldGrows ==
    ASSUME NEW t, NEW u, NEW d, NEW e, NEW b, FileHeld(t, d, e, b),
           \A k \in Nat : At(t, e.dwStartClusterIndex, k) # LASTCLUSTER =>
                At(u, e.dwStartClusterIndex, k) = At(t, e.dwStartClusterIndex, k)
    PROVE  FileHeld(u, d, e, b)
<1>1. PICK c : c = e.dwStartClusterIndex
  OBVIOUS
<1>2. ASSUME NEW k \in Nat, k < Len(b), b[k + 1] # Junk PROVE Held(u, d, c, b, k)
  <2>1. Held(t, d, c, b, k)
    BY <1>1, <1>2 DEF FileHeld
  <2>2. ClusterOf(k) \in Nat
    BY ClusterOfType
  <2> QED
    BY <1>1, <2>1, <2>2 DEF Held
<1> QED
  BY <1>1, <1>2 DEF FileHeld

\* An allocated cluster that no file gets is lost, and no more.
LEMMA Leaked ==
    ASSUME NEW t \in Table, NEW r \in Root, VolumeInv(t, r), NEW x, FreeIn(t, x),
           NEW u, u = Allocated(t, x)
    PROVE  Kept(t, u, r, r, None) /\ VolumeInv(u, r) /\ x # 0
<1>1. x # 0
  BY LinkFacts DEF VolumeInv, FreeIn
<1>2. u[0] = LASTCLUSTER
  BY <1>1, LinkFacts DEF VolumeInv, Allocated, Table
<1>3. Kept(t, u, r, r, None)
  <2>1. ASSUME NEW j \in FilesOf(r) PROVE Same(t, u, Start(r, j))
    <3>1. ChainOK(t, Start(r, j), r[j].dwFileSize) /\ Start(r, j) \in Clusters
      BY FilesAreEntries, RootIs DEF VolumeInv
    <3> QED
      BY <3>1, AllocatedSame
  <2> QED
    BY <2>1 DEF Kept
<1>4. None \notin FilesOf(r)
  BY Distinct DEF FilesOf
<1>5. \A j \in Entries : r[j].name = NoName <=> Start(r, j) = 0
  BY DEF VolumeInv
<1>6. VolumeInv(u, r)
  BY <1>2, <1>3, <1>4, <1>5, VolumeFrame
<1> QED
  BY <1>1, <1>3, <1>6

LEMMA GoodAppendCluster == ASSUME TypeInv, Good, NEW t \in Tasks, AppendCluster(t) PROVE Good'
<1>1. PICK h : h = call[t].h
  OBVIOUS
<1>2. PICK f : f = pool[h]
  OBVIOUS
<1>3. PICK i : i = f.entry
  OBVIOUS
<1>4. PICK x : x = FindFreeCluster
  OBVIOUS
<1>5. PICK c : c = f.dwStartClusterIndex
  OBVIOUS
<1>6. /\ CallsType /\ pool \in [Handles -> HandleType] /\ link \in Table /\ root \in Root
      /\ Last \in Sectors
  BY DEF TypeInv, VolumeType
<1>7. /\ VolumeInv(link, root) /\ HandlesInv(link, root, pool) /\ CallsInv(pool, holder, call)
      /\ ContentInv(link, root, data, content)
  BY DEF Good
<1>8. /\ call[t].step = "write" /\ call[t].left > 0 /\ f.dwCurrentClusterIndex = LASTCLUSTER
      /\ UNCHANGED <<owner, holder, content>>
  BY <1>1, <1>2, AppendClusterIs
<1>9. /\ owner = t /\ h \in Handles /\ f \in HandleType /\ f.used = TRUE
      /\ HandleOK(link, root, f) /\ i \in FilesOf(root) /\ i \in Entries
      /\ Start(root, i) = c /\ c \in Clusters
      /\ ChainOK(link, c, root[i].dwFileSize)
      /\ root[i].dwFileSize \in Nat /\ root[i].name \in Names
  BY <1>1, <1>2, <1>3, <1>5, <1>8, WriterIs
<1>10. PICK n : n = Long(link, c)
  OBVIOUS
<1>11. /\ ClusterOf(f.dwCurrentOffset) = n /\ f.dwPreviousClusterIndex = At(link, c, n - 1)
       /\ n * ClusterSize <= f.dwCurrentOffset
       /\ (n - 1) * ClusterSize < f.dwCurrentOffset
  BY <1>5, <1>6, <1>8, <1>9, <1>10, AtEnd DEF HandleOK
<1>12. n \in Nat /\ n > 0 /\ (\A k \in Nat : k < n <=> At(link, c, k) # LASTCLUSTER)
  BY <1>6, <1>9, <1>10, OKIs
<1>13. t # NoTask
  BY Distinct
<1>14. Writer = i /\ WriterOffset = f.dwCurrentOffset
  BY <1>1, <1>2, <1>3, <1>9, <1>13 DEF Writer, WriterOffset
<1>15. x # LASTCLUSTER => FreeIn(link, x)
  BY <1>4, <1>6, FindFreeClusterIs DEF FreeIn
<1>16. CASE EndLoop(t) /\ UNCHANGED <<volume, pool, failed>>
  <2>1. CallsInv(pool, holder, call')
    BY <1>6, <1>8, <1>16, LoopEnds
  <2>2. owner' = t /\ call'[t].h = h
    BY <1>1, <1>6, <1>8, <1>9, <1>16 DEF EndLoop, CallsType, CallType
  <2>3. Writer' = i /\ WriterOffset' = f.dwCurrentOffset
    BY <1>2, <1>3, <1>13, <1>16, <2>2 DEF Writer, WriterOffset
  <2>4. ASSUME failed' = FALSE
        PROVE  Exact(link', root', pool', content', Writer', WriterOffset', Goes')
    <3>1. PICK o, g : o = WriterOffset' /\ g = Goes'
      OBVIOUS
    <3>2. Exact(link, root, pool, content, i, f.dwCurrentOffset, Goes)
      BY <1>14, <1>16, <2>4 DEF Good
    <3>3. SizesKnown(root, pool) /\ NoLeak(link, root)
      BY <3>2 DEF Exact
    <3>4. Kept(link, link, root, root, i)
      BY SameSelf DEF Kept
    <3>5. Tight(link, root[i], i, i, o, g)
      BY <1>9, <1>10, <1>11, <2>3, <3>1 DEF Tight, Start
    <3>6. Complete(root[i], i, content[root[i].name], i, o)
      <4>1. Complete(root[i], i, content[root[i].name], i, f.dwCurrentOffset)
        BY <1>9, <3>2 DEF Exact
      <4> QED
        BY <2>3, <3>1, <4>1
    <3>7. Exact(link, root, pool, content, i, o, g)
      BY <1>6, <1>7, <3>2, <3>3, <3>4, <3>5, <3>6, ExactExcept
    <3> QED
      BY <1>8, <1>16, <2>3, <3>1, <3>7 DEF volume
  <2> QED
    BY <1>7, <1>8, <1>16, <2>1, <2>4, GoodNext DEF volume
<1>17. CASE /\ x # LASTCLUSTER
            /\ link' = Appended(link, f.dwPreviousClusterIndex, x)
            /\ pool' = [pool EXCEPT ![h].dwCurrentClusterIndex = x]
            /\ UNCHANGED <<root, data, call, failed>>
  <2>1. FreeIn(link, x) /\ x \in Clusters /\ x # 0 /\ link[0] = LASTCLUSTER
    BY <1>7, <1>15, <1>17, LinkFacts DEF FreeIn, VolumeInv
  <2>2. PICK p : p = f.dwPreviousClusterIndex
    OBVIOUS
  <2>3. p = At(link, c, n - 1)
    BY <1>11, <2>2
  <2>4. PICK u : u = Appended(link, p, x)
    OBVIOUS
  <2>5. link' = u
    BY <1>17, <2>2, <2>4
  <2>6. /\ (\A k \in Nat : k < n => At(u, c, k) = At(link, c, k)) /\ At(u, c, n) = x
        /\ Long(u, c) = n + 1 /\ ChainOK(u, c, root[i].dwFileSize)
        /\ p \in Clusters /\ p # x
    BY <1>6, <1>9, <1>10, <2>1, <2>3, <2>4, AppendedIs
  <2>7. ASSUME NEW j \in FilesOf(root), j # i
        PROVE  Same(link, u, Start(root, j)) /\ Disjoint(u, c, Start(root, j))
    <3>1. Start(root, j) \in Clusters /\ ChainOK(link, Start(root, j), root[j].dwFileSize)
      BY <1>6, <1>7, FilesAreEntries, RootIs DEF VolumeInv
    <3>2. Disjoint(link, c, Start(root, j))
      BY <1>7, <1>9, <2>7 DEF VolumeInv
    <3> QED
      BY <1>6, <1>9, <1>10, <2>1, <2>3, <2>4, <3>1, <3>2, AppendedSame
  <2>8. Kept(link, u, root, root, i)
    BY <2>7 DEF Kept
  <2>9. p # 0 /\ p # LASTCLUSTER
    <3>1. n - 1 \in Nat
      BY <1>12
    <3> QED
      BY <1>9, <2>3, <2>6, <3>1, LinkFacts DEF ChainOK
  <2>10. /\ u[0] = LASTCLUSTER /\ u[p] = x
         /\ \A y \in Clusters : y # x /\ y # p => u[y] = link[y]
    BY <1>6, <2>1, <2>4, <2>6, <2>9, LinkFacts DEF Appended, Allocated, Table
  <2>11. VolumeInv(u, root)
    <3>1. \A j \in Entries : root[j].name = NoName <=> Start(root, j) = 0
      BY <1>7 DEF VolumeInv
    <3>2. \A j \in FilesOf(root) : j # i =>
            root[j].name # root[i].name /\ Disjoint(u, Start(root, i), Start(root, j))
      BY <1>7, <1>9, <2>7 DEF VolumeInv
    <3>3. ChainOK(u, Start(root, i), root[i].dwFileSize)
      BY <1>9, <2>6
    <3> QED
      BY <1>6, <1>7, <2>8, <2>10, <3>1, <3>2, <3>3, VolumeFrame
  <2>12. PICK g : g = [f EXCEPT !.dwCurrentClusterIndex = x]
    OBVIOUS
  <2>13. x \in Links /\ x # LASTCLUSTER
    BY <1>17, <2>1, LinkFacts
  <2>14. /\ g \in HandleType /\ g.used = f.used /\ g.entry = f.entry /\ g.dwFileSize = f.dwFileSize
         /\ g.dwStartClusterIndex = f.dwStartClusterIndex /\ g.dwCurrentOffset = f.dwCurrentOffset
         /\ g.dwCurrentClusterIndex = x
    BY <1>9, <2>12, <2>13 DEF HandleType
  <2>15. OnPlace(u, g)
    <3>1. n - 1 \in Nat /\ n - 1 < n
      BY <1>12
    <3>2. At(u, c, n - 1) # LASTCLUSTER
      BY <1>12, <2>6, <3>1
    <3> QED
      BY <1>5, <1>11, <2>6, <2>13, <2>14, <3>2 DEF OnPlace, Within
  <2>16. HandleOK(u, root, g)
    BY <1>9, <2>14, <2>15 DEF HandleOK
  <2>17. pool' = Put(pool, h, g)
    BY <1>2, <1>17, <2>12 DEF Put
  <2>18. HandlesInv(u, root, Put(pool, h, g)) /\ \A y \in Handles : Put(pool, h, g)[y].used = pool[y].used
    <3>1. pool[h].used = TRUE /\ pool[h].entry = i /\ g.used = TRUE /\ g.entry = i
      BY <1>2, <1>3, <1>9, <2>14
    <3>2. HandlesInv(u, root, Put(pool, h, g))
      BY <1>6, <1>7, <1>9, <2>8, <2>14, <2>16, <3>1, HandlesPut
    <3>3. \A y \in Handles : Put(pool, h, g)[y].used = pool[y].used
      BY <1>6, <1>9, <3>1 DEF Put
    <3> QED
      BY <3>2, <3>3
  <2>19. CallsInv(pool', holder, call)
    BY <1>6, <1>7, <2>17, <2>18, CallsFrame
  <2>20. ContentInv(u, root, data, content)
    <3>1. FileHeld(link, data, root[i], content[root[i].name])
      BY <1>7, <1>9 DEF ContentInv
    <3>2. \A k \in Nat : At(link, root[i].dwStartClusterIndex, k) # LASTCLUSTER =>
            At(u, root[i].dwStartClusterIndex, k) = At(link, root[i].dwStartClusterIndex, k)
      BY <1>9, <1>12, <2>6 DEF Start
    <3>3. FileHeld(u, data, root[i], content[root[i].name])
      BY <3>1, <3>2, HeldGrows
    <3>4. content \in [Names -> Seq(Bytes)]
      BY <1>7 DEF ContentInv
    <3> QED
      BY <1>6, <1>7, <2>8, <3>3, <3>4, ContentFrame
  <2>21. ASSUME failed' = FALSE
         PROVE  Exact(link', root', pool', content', Writer', WriterOffset', Goes')
    <3>1. PICK q, o, e : q = pool' /\ o = f.dwCurrentOffset /\ e = Goes'
      OBVIOUS
    <3>2. Exact(link, root, pool, content, i, o, Goes)
      BY <1>14, <1>17, <2>21, <3>1 DEF Good
    <3>3. pool'[h] = g
      BY <1>6, <1>9, <2>17 DEF Put
    <3>4. Writer' = i /\ WriterOffset' = o /\ e = TRUE
      <4>1. owner' = t /\ call' = call
        BY <1>8, <1>9, <1>17
      <4>2. Writer' = i /\ WriterOffset' = o
        BY <1>1, <1>3, <1>13, <2>14, <3>1, <3>3, <4>1 DEF Writer, WriterOffset
      <4>3. Goes'
        BY <1>8, <1>13, <4>1 DEF Goes
      <4>4. e = TRUE
        BY <3>1, <4>3 DEF Goes
      <4> QED
        BY <4>2, <4>4
    <3>5. SizesKnown(root, q)
      <4>1. SizesKnown(root, pool)
        BY <3>2 DEF Exact
      <4>2. \A y \in Handles : /\ q[y].used = pool[y].used /\ q[y].entry = pool[y].entry
                               /\ q[y].dwFileSize = pool[y].dwFileSize
        BY <1>2, <1>6, <1>9, <2>14, <2>17, <3>1 DEF Put
      <4> QED
        BY <4>1, <4>2 DEF SizesKnown
    <3>6. NoLeak(u, root)
      <4>1. NoLeak(link, root)
        BY <3>2 DEF Exact
      <4>2. ASSUME NEW y \in Clusters \ {0}, u[y] # FREECLUSTER
            PROVE  \E j \in FilesOf(root), k \in Nat : y = At(u, Start(root, j), k)
        <5>1. CASE y = x
          BY <1>9, <1>12, <2>6, <5>1
        <5>2. CASE y # x
          <6>1. link[y] # FREECLUSTER
            <7>1. CASE y = p
              <8>1. n - 1 \in Nat /\ At(link, c, n - 1) # LASTCLUSTER
                BY <1>12
              <8> QED
                BY <1>6, <1>9, <2>3, <7>1, <8>1, OKIs
            <7>2. CASE y # p
              BY <2>10, <4>2, <5>2, <7>2
            <7> QED
              BY <7>1, <7>2
          <6>2. PICK j \in FilesOf(root), k \in Nat : y = At(link, Start(root, j), k)
            BY <4>1, <6>1 DEF NoLeak
          <6>3. At(u, Start(root, j), k) = y
            <7>1. CASE j = i
              <8>1. At(link, c, k) # LASTCLUSTER
                BY <1>9, <6>2, <7>1, LinkFacts
              <8> QED
                BY <1>9, <1>12, <2>6, <6>2, <7>1, <8>1
            <7>2. CASE j # i
              BY <2>7, <6>2, <7>2 DEF Same
            <7> QED
              BY <7>1, <7>2
          <6> QED
            BY <6>3
        <5> QED
          BY <5>1, <5>2
      <4> QED
        BY <4>2 DEF NoLeak
    <3>7. Tight(u, root[i], i, i, o, e)
      <4>1. (Long(u, root[i].dwStartClusterIndex) - 1) * ClusterSize = n * ClusterSize
        BY <1>9, <1>12, <2>6 DEF Start
      <4> QED
        BY <1>11, <3>1, <3>4, <4>1 DEF Tight
    <3>8. Complete(root[i], i, content[root[i].name], i, o)
      BY <1>9, <3>2 DEF Exact
    <3>9. Exact(u, root, q, content, i, o, e)
      BY <1>6, <1>7, <2>8, <3>2, <3>5, <3>6, <3>7, <3>8, ExactExcept
    <3> QED
      BY <1>8, <1>17, <2>5, <3>1, <3>4, <3>9
  <2> QED
    BY <1>8, <1>17, <2>5, <2>11, <2>17, <2>18, <2>19, <2>20, <2>21, GoodNext
<1>18. CASE /\ x # LASTCLUSTER /\ failed' = TRUE
            /\ link' \in {link, Allocated(link, x)}
            /\ EndLoop(t) /\ UNCHANGED <<root, data, pool>>
  <2>1. CallsInv(pool, holder, call')
    BY <1>6, <1>8, <1>18, LoopEnds
  <2>2. CASE link' = link
    BY <1>7, <1>8, <1>18, <2>1, <2>2, GoodNext
  <2>3. CASE link' = Allocated(link, x)
    <3>1. PICK u : u = Allocated(link, x)
      OBVIOUS
    <3>2. Kept(link, u, root, root, None) /\ VolumeInv(u, root)
      BY <1>6, <1>7, <1>15, <1>18, <3>1, Leaked
    <3>3. HandlesInv(u, root, pool)
      <4>1. \A y \in Handles : pool[y].used = TRUE => pool[y].entry \in FilesOf(root) /\ pool[y].entry # None
        BY <1>7, Distinct DEF HandlesInv, HandleOK, FilesOf
      <4> QED
        BY <1>6, <1>7, <3>2, <4>1, HandlesFrame
    <3>4. ContentInv(u, root, data, content)
      <4>1. None \notin FilesOf(root)
        BY Distinct DEF FilesOf
      <4>2. content \in [Names -> Seq(Bytes)]
        BY <1>7 DEF ContentInv
      <4> QED
        BY <1>6, <1>7, <3>2, <4>1, <4>2, ContentFrame
    <3> QED
      BY <1>7, <1>8, <1>18, <2>1, <2>3, <3>1, <3>2, <3>3, <3>4, GoodNext
  <2> QED
    BY <1>18, <2>2, <2>3
<1> QED
  BY <1>1, <1>2, <1>4, <1>16, <1>17, <1>18, AppendClusterIs

-----------------------------------------------------------------------------
\* What is written

\* The bytes that one step writes are all in the cluster of the first.
LEMMA InCluster ==
    ASSUME NEW a \in Nat, NEW n \in Nat, NEW r, r = a % ClusterSize, r + n <= ClusterSize, NEW k \in Nat
    PROVE  /\ a <= k /\ k < a + n =>
                ClusterOf(k) = ClusterOf(a) /\ k % ClusterSize = r + k - a
           /\ ClusterOf(k) = ClusterOf(a) /\ r <= k % ClusterSize /\ k % ClusterSize < r + n =>
                a <= k /\ k < a + n
<1>1. PICK q : q = a \div ClusterSize
  OBVIOUS
<1>2. PICK b : b = q * ClusterSize
  OBVIOUS
<1>3. q \in Nat /\ b \in Nat /\ r \in Nat /\ a = b + r /\ ClusterSize \in Nat \ {0}
  <2>1. /\ (a \div ClusterSize) \in Nat /\ a % ClusterSize \in 0 .. ClusterSize - 1
        /\ a = (a \div ClusterSize) * ClusterSize + (a % ClusterSize)
    BY Division, Constants
  <2>2. b \in Nat
    BY <1>1, <1>2, <2>1, Constants
  <2> QED
    BY <1>1, <1>2, <2>1, <2>2, Constants
<1>4. PICK p, s : p = k \div ClusterSize /\ s = k % ClusterSize
  OBVIOUS
<1>5. s \in Nat /\ p \in Nat /\ k = p * ClusterSize + s
  <2>1. /\ (k \div ClusterSize) \in Nat /\ k % ClusterSize \in 0 .. ClusterSize - 1
        /\ k = (k \div ClusterSize) * ClusterSize + (k % ClusterSize)
    BY Division, Constants
  <2> QED
    BY <1>4, <2>1, Constants
<1>6. ASSUME a <= k, k < a + n PROVE p = q /\ s = r + k - a
  <2>1. b <= k /\ k < b + ClusterSize
    BY <1>3, <1>6
  <2>2. p = q
    BY <1>2, <1>3, <1>4, <2>1, Division
  <2>3. k = b + s
    BY <1>2, <1>5, <2>2
  <2>4. s \in Nat /\ b \in Nat /\ r \in Nat /\ a = b + r
    BY <1>3, <1>5
  <2>5. s = r + k - a
    BY <2>3, <2>4
  <2> QED
    BY <2>2, <2>5
<1>7. ASSUME p = q, r <= s, s < r + n PROVE a <= k /\ k < a + n
  <2>1. k = b + s
    BY <1>2, <1>5, <1>7
  <2> QED
    BY <1>3, <1>5, <1>7, <2>1
<1> QED
  BY <1>1, <1>4, <1>6, <1>7 DEF ClusterOf

LEMMA ByteIs == ASSUME NEW name \in Names, NEW k \in Nat PROVE Byte(name, k) \in Bytes /\ Junk \in Bytes
  BY DEF Byte, Junk, Bytes

LEMMA BytesIs ==
    ASSUME NEW b \in Seq(Bytes), NEW name \in Names, NEW off \in Nat, NEW n \in Nat,
           NEW a, a = BytesAfter(b, name, off, n)
    PROVE  /\ a \in Seq(Bytes) /\ Len(a) = IF Len(b) > off + n THEN Len(b) ELSE off + n
           /\ \A k \in Nat : k < Len(a) =>
                /\ off <= k /\ k < off + n => a[k + 1] = Byte(name, k)
                /\ ~(off <= k /\ k < off + n) =>
                    a[k + 1] = IF k + 1 <= Len(b) THEN b[k + 1] ELSE Junk
<1>1. PICK l : l = IF Len(b) > off + n THEN Len(b) ELSE off + n
  OBVIOUS
<1>2. l \in Nat
  BY <1>1
<1>3. a = [k \in 1 .. l |->
        IF k - 1 \in off .. off + n - 1 THEN Byte(name, k - 1)
        ELSE IF k <= Len(b) THEN b[k] ELSE Junk]
  BY <1>1, Zenon DEF BytesAfter
<1>4. ASSUME NEW k \in 1 .. l
      PROVE  (IF k - 1 \in off .. off + n - 1 THEN Byte(name, k - 1)
              ELSE IF k <= Len(b) THEN b[k] ELSE Junk) \in Bytes
  <2>1. k - 1 \in Nat
    BY <1>2
  <2>2. Byte(name, k - 1) \in Bytes /\ Junk \in Bytes
    BY <2>1, ByteIs
  <2>3. k <= Len(b) => b[k] \in Bytes
    BY <1>2
  <2> QED
    BY <2>2, <2>3
<1>5. a \in [1 .. l -> Bytes]
  BY <1>3, <1>4
<1>6. a \in Seq(Bytes) /\ Len(a) = l
  BY <1>2, <1>5
<1>7. ASSUME NEW k \in Nat, k < l
      PROVE  /\ off <= k /\ k < off + n => a[k + 1] = Byte(name, k)
             /\ ~(off <= k /\ k < off + n) =>
                    a[k + 1] = IF k + 1 <= Len(b) THEN b[k + 1] ELSE Junk
  <2>1. PICK j : j = k + 1
    OBVIOUS
  <2>2. j \in 1 .. l /\ j - 1 = k
    BY <1>2, <1>7, <2>1
  <2>3. a[j] = IF j - 1 \in off .. off + n - 1 THEN Byte(name, j - 1)
               ELSE IF j <= Len(b) THEN b[j] ELSE Junk
    BY <1>3, <2>2
  <2>4. j - 1 \in off .. off + n - 1 <=> (off <= k /\ k < off + n)
    BY <2>2
  <2> QED
    BY <2>1, <2>2, <2>3, <2>4
<1> QED
  BY <1>1, <1>6, <1>7

LEMMA WrittenHeld ==
    ASSUME NEW t \in Table, NEW d, d = [x \in Clusters |-> d[x]], NEW e \in EntryType, NEW m,
           IsChain(t, e.dwStartClusterIndex, m),
           NEW b \in Seq(Bytes), FileHeld(t, d, e, b), NEW name \in Names, NEW off \in Nat, NEW n \in Nat,
           (off % ClusterSize) + n <= ClusterSize,
           NEW c, c = At(t, e.dwStartClusterIndex, ClusterOf(off)), c # LASTCLUSTER,
           NEW z, z = [d EXCEPT ![c] = DataAfter(d[c], name, off, n)],
           NEW a, a = BytesAfter(b, name, off, n)
    PROVE  FileHeld(t, z, e, a)
<1>1. PICK s : s = e.dwStartClusterIndex
  OBVIOUS
<1>2. PICK r : r = off % ClusterSize
  OBVIOUS
<1>3. s \in Clusters /\ e.dwFileSize \in Nat /\ s \in Links
  BY <1>1, LinkFacts DEF EntryType
<1>4. r \in Nat /\ r + n <= ClusterSize /\ ClusterSize \in Nat \ {0}
  BY <1>2, Division, Constants
<1>5. Len(a) = (IF Len(b) > off + n THEN Len(b) ELSE off + n) /\ Len(b) \in Nat
  BY BytesIs
<1>6. ClusterOf(off) \in Nat /\ c \in Clusters
  BY <1>1, <1>3, AtType, ClusterOfType, LinkFacts
<1>7. /\ z[c] = DataAfter(d[c], name, off, n)
      /\ \A x \in Clusters : x # c => z[x] = d[x]
  BY <1>6
<1>8. ASSUME NEW k \in Nat, k < Len(a), a[k + 1] # Junk PROVE Held(t, z, s, a, k)
  <2>1. k % ClusterSize \in 0 .. ClusterSize - 1 /\ ClusterOf(k) \in Nat
    BY Division, Constants, ClusterOfType
  <2>2. PICK x : x = At(t, s, ClusterOf(k))
    OBVIOUS
  <2>3. PICK y : y = k % ClusterSize
    OBVIOUS
  <2>4. y \in Nat /\ y \in 0 .. ClusterSize - 1
    BY <2>1, <2>3, Constants
  <2>5. DataAfter(d[c], name, off, n)[y] =
            IF y \in r .. r + n - 1 THEN Byte(name, off + y - r) ELSE d[c][y]
    BY <1>2, <2>4 DEF DataAfter
  <2>6. CASE off <= k /\ k < off + n
    <3>1. ClusterOf(k) = ClusterOf(off) /\ y = r + k - off
      BY <1>2, <1>4, <2>3, <2>6, InCluster
    <3>2. y \in r .. r + n - 1 /\ off + y - r = k
      BY <1>4, <2>6, <3>1
    <3>3. x = c
      BY <1>1, <2>2, <3>1
    <3>4. a[k + 1] = Byte(name, k)
      BY <1>8, <2>6, BytesIs
    <3>5. z[x][y] = a[k + 1]
      BY <1>7, <2>5, <3>2, <3>3, <3>4
    <3> QED
      BY <2>2, <2>3, <3>3, <3>5 DEF Held
  <2>7. CASE ~(off <= k /\ k < off + n)
    <3>1. a[k + 1] = IF k + 1 <= Len(b) THEN b[k + 1] ELSE Junk
      BY <1>8, <2>7, BytesIs
    <3>2. k < Len(b) /\ a[k + 1] = b[k + 1]
      BY <1>5, <1>8, <3>1
    <3>3. Held(t, d, s, b, k)
      BY <1>1, <1>8, <3>2 DEF FileHeld
    <3>4. x # LASTCLUSTER /\ d[x][y] = b[k + 1]
      BY <2>2, <2>3, <3>3 DEF Held
    <3>5. x \in Clusters
      BY <1>3, <2>1, <2>2, <3>4, AtType, LinkFacts
    <3>6. z[x][y] = d[x][y]
      <4>1. CASE x = c
        <5>1. ClusterOf(k) = ClusterOf(off)
          BY <1>1, <1>6, <2>1, <2>2, <4>1, ChainApart
        <5>2. ~(r <= y /\ y < r + n)
          BY <1>2, <1>4, <2>3, <2>7, <5>1, InCluster
        <5>3. y \notin r .. r + n - 1
          BY <1>4, <2>4, <5>2
        <5> QED
          BY <1>7, <2>5, <4>1, <5>3
      <4>2. CASE x # c
        BY <1>7, <3>5, <4>2
      <4> QED
        BY <4>1, <4>2
    <3> QED
      BY <2>2, <2>3, <3>2, <3>4, <3>6 DEF Held
  <2> QED
    BY <2>6, <2>7
<1>9. e.dwFileSize <= Len(a)
  BY <1>3, <1>5 DEF FileHeld
<1> QED
  BY <1>1, <1>8, <1>9 DEF FileHeld

LEMMA GoodWriteCluster ==
    ASSUME TypeInv, Good, NEW t \in Tasks, WriteCluster(t), broken' = FALSE
    PROVE  Good'
<1>1. PICK h : h = call[t].h
  OBVIOUS
<1>2. PICK f : f = pool[h]
  OBVIOUS
<1>3. PICK i : i = f.entry
  OBVIOUS
<1>4. PICK n : n = Written(t)
  OBVIOUS
<1>5. PICK c : c = f.dwCurrentClusterIndex
  OBVIOUS
<1>6. PICK name : name = root[i].name
  OBVIOUS
<1>7. PICK off : off = f.dwCurrentOffset
  OBVIOUS
<1>8. /\ CallsType /\ pool \in [Handles -> HandleType] /\ link \in Table /\ root \in Root
      /\ data = [x \in Clusters |-> data[x]] /\ content = [x \in Names |-> content[x]]
  BY DEF TypeInv, VolumeType
<1>9. /\ VolumeInv(link, root) /\ HandlesInv(link, root, pool) /\ CallsInv(pool, holder, call)
      /\ ContentInv(link, root, data, content)
  BY DEF Good
<1>10. /\ call[t].step = "write" /\ call[t].left > 0 /\ c # LASTCLUSTER
       /\ data' = [data EXCEPT ![c] = DataAfter(data[c], name, off, n)]
       /\ content' = [content EXCEPT ![name] = BytesAfter(content[name], name, off, n)]
       /\ pool' = [pool EXCEPT ![h] = Advance(f, n)]
       /\ call' = [call EXCEPT ![t].left = @ - n]
       /\ UNCHANGED <<failed, link, root, owner, holder>>
  BY <1>1, <1>2, <1>3, <1>4, <1>5, <1>6, <1>7, WriteClusterIs
<1>11. /\ owner = t /\ h \in Handles /\ f \in HandleType /\ f.used = TRUE
       /\ HandleOK(link, root, f) /\ i \in FilesOf(root) /\ i \in Entries
       /\ Start(root, i) = f.dwStartClusterIndex /\ f.dwStartClusterIndex \in Clusters
       /\ ChainOK(link, f.dwStartClusterIndex, root[i].dwFileSize)
       /\ root[i].dwFileSize \in Nat /\ name \in Names
  BY <1>1, <1>2, <1>3, <1>6, <1>10, WriterIs
<1>12. off \in Nat /\ call[t] \in CallType /\ t # NoTask
  BY <1>7, <1>8, <1>11, Distinct DEF HandleType, CallsType
<1>13. n \in Nat /\ n > 0 /\ n <= call[t].left /\ (off % ClusterSize) + n <= ClusterSize
  BY <1>1, <1>2, <1>4, <1>7, <1>8, <1>10, <1>11, WrittenIs
<1>14. PICK s : s = f.dwStartClusterIndex
  OBVIOUS
<1>15. c = At(link, s, ClusterOf(off)) /\ ClusterOf(off) \in Nat
  BY <1>5, <1>7, <1>11, <1>12, <1>14, ClusterOfType DEF HandleOK, OnPlace
<1>16. PICK g : g = Advance(f, n)
  OBVIOUS
<1>17. /\ g \in HandleType /\ g.used = f.used /\ g.entry = f.entry /\ g.dwFileSize = f.dwFileSize
       /\ g.dwStartClusterIndex = f.dwStartClusterIndex /\ g.dwCurrentOffset = off + n
  BY <1>7, <1>8, <1>11, <1>13, <1>16, AdvanceIs DEF Moves
<1>18. InChain(f, n)
  <2>1. PICK a : a = off + n - 1
    OBVIOUS
  <2>2. a \in Nat /\ off <= a /\ a < off + n
    BY <1>12, <1>13, <2>1
  <2>3. PICK r : r = off % ClusterSize
    OBVIOUS
  <2>4. ClusterOf(a) = ClusterOf(off)
    BY <1>12, <1>13, <2>2, <2>3, InCluster
  <2>5. ClusterOf(a) - ClusterOf(off) = 0
    BY <1>15, <2>4
  <2>6. Walk(c, 0) # LASTCLUSTER
    BY <1>10, WalkIs, AtIs
  <2> QED
    BY <1>5, <1>7, <2>1, <2>5, <2>6 DEF InChain, ClusterOf
<1>19. OnPlace(link, g)
  BY <1>8, <1>11, <1>13, <1>16, <1>18, AdvancePlace DEF HandleOK
<1>20. pool' = Put(pool, h, g)
  BY <1>10, <1>16 DEF Put
<1>21. /\ HandlesInv(link, root, Put(pool, h, g))
       /\ \A x \in Handles : Put(pool, h, g)[x].used = pool[x].used
       /\ SizesKnown(root, pool) => SizesKnown(root, Put(pool, h, g))
  <2>1. pool[h].used = TRUE /\ Alike(pool[h], g) /\ g.dwFileSize = pool[h].dwFileSize
    BY <1>2, <1>11, <1>17 DEF Alike
  <2> QED
    BY <1>8, <1>9, <1>11, <1>17, <1>19, <2>1, MovedHandle
<1>22. CallsInv(pool', holder, call')
  <2>1. PICK k : k = [call[t] EXCEPT !.left = @ - n]
    OBVIOUS
  <2>2. k.step = "write" /\ k.h = h
    BY <1>1, <1>10, <1>12, <2>1 DEF CallType
  <2>3. call' = Put(call, t, k)
    BY <1>10, <2>1 DEF Put
  <2>4. PICK p : p = pool'
    OBVIOUS
  <2>5. CallsInv(p, holder, call)
    BY <1>8, <1>9, <1>20, <1>21, <2>4, CallsFrame
  <2>6. p[h].used = TRUE /\ holder[h] = t
    BY <1>1, <1>10, <2>5 DEF CallsInv
  <2>7. CallsInv(p, holder, Put(call, t, k))
    BY <1>8, <2>2, <2>5, <2>6, CallGoes
  <2> QED
    BY <2>3, <2>4, <2>7
<1>23. PICK z, a : z = data' /\ a = content'
  OBVIOUS
<1>24. /\ a[name] = BytesAfter(content[name], name, off, n)
       /\ \A x \in Names : x # name => a[x] = content[x]
       /\ a = [x \in Names |-> a[x]]
  BY <1>8, <1>10, <1>11, <1>23
<1>25. content \in [Names -> Seq(Bytes)] /\ content[name] \in Seq(Bytes)
  BY <1>9, <1>11 DEF ContentInv
<1>26. a \in [Names -> Seq(Bytes)]
  <2>1. a[name] \in Seq(Bytes)
    BY <1>11, <1>12, <1>13, <1>24, <1>25, BytesIs
  <2>2. \A x \in Names : a[x] \in Seq(Bytes)
    BY <1>24, <1>25, <2>1
  <2> QED
    BY <1>24, <2>2
<1>27. Kept(link, link, root, root, i)
  BY SameSelf DEF Kept
<1>28. \A j \in FilesOf(root) : j # i => a[root[j].name] = content[root[j].name]
  <2>1. ASSUME NEW j \in FilesOf(root), j # i PROVE a[root[j].name] = content[root[j].name]
    <3>1. root[j].name # name /\ root[j].name \in Names
      BY <1>6, <1>8, <1>9, <1>11, <2>1, FilesAreEntries, RootIs DEF VolumeInv
    <3> QED
      BY <1>24, <3>1
  <2> QED
    BY <2>1
<1>29. link \in Table /\ root \in Root
  BY <1>8
<1>30. ContentInv(link, root, z, a)
  <2>1. ASSUME NEW j \in FilesOf(root), NEW k \in Nat, j # i, At(link, Start(root, j), k) # LASTCLUSTER
        PROVE  z[At(link, Start(root, j), k)] = data[At(link, Start(root, j), k)]
    <3>1. PICK x : x = At(link, Start(root, j), k)
      OBVIOUS
    <3>2. x \in Clusters
      <4>1. Start(root, j) \in Links
        BY <1>8, FilesAreEntries, RootIs, LinkFacts
      <4> QED
        BY <1>8, <2>1, <3>1, <4>1, AtType, LinkFacts
    <3>3. Disjoint(link, s, Start(root, j))
      BY <1>9, <1>11, <1>14, <2>1 DEF VolumeInv
    <3>4. x # c
      BY <1>10, <1>15, <3>1, <3>3 DEF Disjoint
    <3>5. z[x] = data[x]
      BY <1>8, <1>10, <1>23, <3>2, <3>4
    <3> QED
      BY <3>1, <3>5
  <2>2. FileHeld(link, z, root[i], a[root[i].name])
    <3>1. PICK e : e = root[i]
      OBVIOUS
    <3>2. PICK b : b = content[name]
      OBVIOUS
    <3>3. PICK y : y = a[name]
      OBVIOUS
    <3>4. e \in EntryType /\ e.dwStartClusterIndex = s
      BY <1>8, <1>11, <1>14, <3>1, RootIs DEF Start
    <3>5. FileHeld(link, data, e, b) /\ b \in Seq(Bytes)
      BY <1>6, <1>9, <1>11, <1>25, <3>1, <3>2 DEF ContentInv
    <3>6. IsChain(link, e.dwStartClusterIndex, Long(link, s))
      BY <1>11, <1>14, <3>4 DEF ChainOK
    <3>7. z = [data EXCEPT ![c] = DataAfter(data[c], name, off, n)]
      BY <1>10, <1>23
    <3>8. y = BytesAfter(b, name, off, n)
      BY <1>24, <3>2, <3>3
    <3>9. c = At(link, e.dwStartClusterIndex, ClusterOf(off))
      BY <1>15, <3>4
    <3>10. PICK m : m = Long(link, s)
      OBVIOUS
    <3>11. FileHeld(link, z, e, y)
      BY <1>8, <1>10, <1>11, <1>12, <1>13, <3>4, <3>5, <3>6, <3>7, <3>8, <3>9, <3>10, WrittenHeld
    <3> QED
      BY <1>6, <3>1, <3>3, <3>11
  <2>3. \A j \in FilesOf(root), k \in Nat : j # i /\ At(link, Start(root, j), k) # LASTCLUSTER =>
            z[At(link, Start(root, j), k)] = data[At(link, Start(root, j), k)]
    BY <2>1
  <2>4. i \in FilesOf(root) => FileHeld(link, z, root[i], a[root[i].name])
    BY <2>2
  <2> QED
    BY <1>9, <1>26, <1>27, <1>28, <1>29, <2>3, <2>4, ContentFrame
<1>31. ASSUME failed' = FALSE
       PROVE  Exact(link', root', pool', content', Writer', WriterOffset', Goes')
  <2>1. PICK q, o, e : q = pool' /\ o = off + n /\ e = Goes'
    OBVIOUS
  <2>2. Writer = i /\ WriterOffset = off /\ Goes = TRUE
    <3>1. Writer = i /\ WriterOffset = off
      BY <1>1, <1>2, <1>3, <1>7, <1>11, <1>12 DEF Writer, WriterOffset
    <3>2. Goes
      BY <1>10, <1>11, <1>12 DEF Goes
    <3> QED
      BY <3>1, <3>2 DEF Goes
  <2>3. PICK goes : goes = TRUE /\ Exact(link, root, pool, content, i, off, goes)
    BY <1>10, <1>31, <2>2 DEF Good
  <2>4. Writer' = i /\ WriterOffset' = o
    <3>1. owner' = t /\ call'[t].h = h
      BY <1>1, <1>8, <1>10, <1>11, <1>12 DEF CallsType, CallType
    <3>2. pool'[h] = g
      BY <1>8, <1>11, <1>20 DEF Put
    <3> QED
      BY <1>3, <1>12, <1>17, <2>1, <3>1, <3>2 DEF Writer, WriterOffset
  <2>5. SizesKnown(root, q)
    BY <1>20, <1>21, <2>1, <2>3 DEF Exact
  <2>6. NoLeak(link, root)
    BY <2>3 DEF Exact
  <2>7. Tight(link, root[i], i, i, o, e)
    <3>1. Tight(link, root[i], i, i, off, goes)
      BY <1>11, <2>3 DEF Exact
    <3>2. PICK m : m = (Long(link, root[i].dwStartClusterIndex) - 1) * ClusterSize
      OBVIOUS
    <3>3. m \in Int
      <4>1. Long(link, root[i].dwStartClusterIndex) \in Nat
        BY <1>8, <1>11, OKIs DEF Start
      <4> QED
        BY <3>2, <4>1, Constants
    <3>4. m = 0 \/ m < root[i].dwFileSize \/ m < off \/ m <= off
      BY <3>1, <3>2 DEF Tight
    <3>5. m = 0 \/ m < root[i].dwFileSize \/ m < o
      BY <1>12, <1>13, <2>1, <3>3, <3>4
    <3> QED
      BY <3>2, <3>5 DEF Tight
  <2>8. Complete(root[i], i, a[root[i].name], i, o)
    <3>1. Complete(root[i], i, content[name], i, off)
      BY <1>6, <1>11, <2>3 DEF Exact
    <3>2. PICK b, y : b = content[name] /\ y = a[name]
      OBVIOUS
    <3>3. Len(y) = (IF Len(b) > off + n THEN Len(b) ELSE off + n) /\ Len(b) \in Nat
      BY <1>11, <1>12, <1>13, <1>24, <1>25, <3>2, BytesIs
    <3>4. Len(b) = root[i].dwFileSize \/ Len(b) <= off
      BY <3>1, <3>2 DEF Complete
    <3>5. Len(y) = root[i].dwFileSize \/ Len(y) <= o
      BY <1>12, <1>13, <2>1, <3>3, <3>4
    <3> QED
      BY <1>6, <3>2, <3>5 DEF Complete
  <2>9. Exact(link, root, q, a, i, o, e)
    BY <1>9, <1>27, <1>28, <1>29, <2>3, <2>5, <2>6, <2>7, <2>8, ExactExcept
  <2> QED
    BY <1>10, <1>23, <2>1, <2>4, <2>9
<1>32. VolumeInv(link', root') /\ HandlesInv(link', root', pool')
  BY <1>9, <1>10, <1>20, <1>21
<1>33. ContentInv(link', root', data', content')
  BY <1>10, <1>23, <1>30
<1>34. CallsInv(pool', holder', call')
  BY <1>10, <1>22
<1> QED
  BY <1>31, <1>32, <1>33, <1>34, GoodNext

-----------------------------------------------------------------------------
\* The end of a write

LEMMA PaddedIs ==
    ASSUME NEW b \in Seq(Bytes), NEW n \in Nat, NEW a, a = Padded(b, n)
    PROVE  /\ a \in Seq(Bytes) /\ Len(a) = IF Len(b) >= n THEN Len(b) ELSE n
           /\ \A k \in Nat : k < Len(a) => a[k + 1] = IF k < Len(b) THEN b[k + 1] ELSE Junk
<1>1. CASE Len(b) >= n
  BY <1>1 DEF Padded
<1>2. CASE ~(Len(b) >= n)
  <2>1. PICK l \in Nat : l = n - Len(b)
    BY <1>2
  <2>2. PICK z : z = [k \in 1 .. l |-> Junk]
    OBVIOUS
  <2>3. z \in Seq(Bytes) /\ Len(z) = l
    <3>1. Junk \in Bytes
      BY DEF Junk, Bytes
    <3>2. z \in [1 .. l -> Bytes]
      BY <2>2, <3>1
    <3> QED
      BY <3>2
  <2>4. a = b \o z
    BY <1>2, <2>1, <2>2 DEF Padded
  <2>5. a \in Seq(Bytes) /\ Len(a) = n
    BY <2>1, <2>3, <2>4
  <2>6. ASSUME NEW k \in Nat, k < Len(a) PROVE a[k + 1] = IF k < Len(b) THEN b[k + 1] ELSE Junk
    <3>1. CASE k < Len(b)
      BY <2>3, <2>4, <3>1
    <3>2. CASE ~(k < Len(b))
      <4>1. PICK j : j = k + 1 - Len(b)
        OBVIOUS
      <4>2. j \in 1 .. l
        BY <2>1, <2>5, <2>6, <3>2, <4>1
      <4>3. a[k + 1] = z[j]
        BY <2>1, <2>3, <2>4, <2>5, <2>6, <3>2, <4>1
      <4> QED
        BY <2>2, <3>2, <4>2, <4>3
    <3> QED
      BY <3>1, <3>2
  <2> QED
    BY <1>2, <2>5, <2>6
<1> QED
  BY <1>1, <1>2

LEMMA PaddedHeld ==
    ASSUME NEW t, NEW d, NEW e, NEW b \in Seq(Bytes), FileHeld(t, d, e, b), NEW n \in Nat,
           NEW a, a = Padded(b, n), NEW x, x.dwStartClusterIndex = e.dwStartClusterIndex,
           x.dwFileSize = e.dwFileSize \/ x.dwFileSize = n, e.dwFileSize \in Nat
    PROVE  FileHeld(t, d, x, a)
<1>1. Len(a) = (IF Len(b) >= n THEN Len(b) ELSE n) /\ Len(b) \in Nat
  BY PaddedIs
<1>2. PICK c : c = e.dwStartClusterIndex
  OBVIOUS
<1>3. \A k \in Nat : k < Len(a) => a[k + 1] = IF k < Len(b) THEN b[k + 1] ELSE Junk
  BY PaddedIs
<1>4. ASSUME NEW k \in Nat, k < Len(a), a[k + 1] # Junk PROVE Held(t, d, c, a, k)
  <2>1. a[k + 1] = IF k < Len(b) THEN b[k + 1] ELSE Junk
    BY <1>4, <1>3
  <2>2. k < Len(b) /\ a[k + 1] = b[k + 1]
    BY <1>4, <2>1
  <2>3. Held(t, d, c, b, k)
    BY <1>2, <1>4, <2>2 DEF FileHeld
  <2> QED
    BY <2>2, <2>3 DEF Held
<1>5. x.dwFileSize <= Len(a)
  <2>1. e.dwFileSize <= Len(b)
    BY DEF FileHeld
  <2> QED
    BY <1>1, <2>1
<1> QED
  BY <1>2, <1>4, <1>5 DEF FileHeld

\* The directory entry may get the size that the offset has reached.
Resized(r, q, i, off) ==
    /\ \A j \in Entries : q[j].name = r[j].name /\ Start(q, j) = Start(r, j) /\ (j # i => q[j] = r[j])
    /\ q[i].dwFileSize = r[i].dwFileSize \/ q[i].dwFileSize = off

LEMMA EntryAfterIs ==
    ASSUME root \in Root, NEW h, NEW i \in Entries, i = pool[h].entry,
           pool[h].dwStartClusterIndex = Start(root, i), NEW off, off = pool[h].dwCurrentOffset
    PROVE  Resized(root, EntryAfter(h), i, off) /\ EntryAfter(h)[i].dwFileSize = off
<1>1. PICK e : e = root[i]
  OBVIOUS
<1>2. e \in EntryType /\ e.dwStartClusterIndex = Start(root, i)
  BY <1>1 DEF Root, Start
<1>3. PICK x : x = [[e EXCEPT !.dwFileSize = off] EXCEPT !.dwStartClusterIndex = Start(root, i)]
  OBVIOUS
<1>4. x.name = e.name /\ x.dwStartClusterIndex = e.dwStartClusterIndex /\ x.dwFileSize = off
  BY <1>2, <1>3 DEF EntryType
<1>5. EntryAfter(h) = [root EXCEPT ![i] = x]
  BY <1>1, <1>3 DEF EntryAfter, Root
<1>6. EntryAfter(h)[i] = x /\ \A j \in Entries : j # i => EntryAfter(h)[j] = root[j]
  BY <1>5 DEF Root
<1> QED
  BY <1>1, <1>4, <1>6 DEF Resized, Start

LEMMA ResizedSelf == ASSUME NEW r, NEW i, NEW off PROVE Resized(r, r, i, off)
  BY DEF Resized

LEMMA ResizedIs ==
    ASSUME NEW r, NEW q, NEW i, NEW off, Resized(r, q, i, off), NEW t
    PROVE  FilesOf(q) = FilesOf(r) /\ Kept(t, t, r, q, i)
<1>1. FilesOf(q) = FilesOf(r)
  BY DEF FilesOf, Resized
<1>2. Kept(t, t, r, q, i)
  BY <1>1, FilesAreEntries, SameSelf DEF Kept, Resized
<1> QED
  BY <1>1, <1>2

LEMMA GoodEndWrite == ASSUME TypeInv, Good, NEW t \in Tasks, EndWrite(t) PROVE Good'
<1>1. PICK h : h = call[t].h
  OBVIOUS
<1>2. PICK f : f = pool[h]
  OBVIOUS
<1>3. PICK i : i = f.entry
  OBVIOUS
<1>4. PICK name : name = root[i].name
  OBVIOUS
<1>5. PICK off : off = f.dwCurrentOffset
  OBVIOUS
<1>6. PICK s : s = f.dwStartClusterIndex
  OBVIOUS
<1>7. /\ CallsType /\ pool \in [Handles -> HandleType] /\ link \in Table /\ root \in Root
  BY DEF TypeInv, VolumeType
<1>8. /\ VolumeInv(link, root) /\ HandlesInv(link, root, pool) /\ CallsInv(pool, holder, call)
      /\ ContentInv(link, root, data, content)
  BY DEF Good
<1>9. PICK g : g = IF Grown(h) THEN [f EXCEPT !.dwFileSize = off] ELSE f
  OBVIOUS
<1>10. Grown(h) <=> f.dwFileSize < off
  BY <1>2, <1>5 DEF Grown
<1>11. /\ call[t].step = "update" \/ (call[t].step = "write" /\ call[t].left = 0)
       /\ pool' = IF Grown(h) THEN [pool EXCEPT ![h].dwFileSize = off] ELSE pool
       /\ \/ root' = (IF Grown(h) THEN EntryAfter(h) ELSE root) /\ UNCHANGED failed
          \/ Grown(h) /\ failed' = TRUE /\ UNCHANGED root
       /\ content' = [content EXCEPT ![name] = Padded(content[name], off)]
       /\ owner' = NoTask
       /\ call' = [call EXCEPT ![t] = CallAfter(call[t])]
       /\ UNCHANGED <<link, data, holder>>
  BY <1>1, <1>2, <1>3, <1>4, <1>5, EndWriteIs
<1>12. /\ owner = t /\ h \in Handles /\ f \in HandleType /\ f.used = TRUE
       /\ HandleOK(link, root, f) /\ i \in FilesOf(root) /\ i \in Entries
       /\ Start(root, i) = s /\ s \in Clusters
       /\ ChainOK(link, s, root[i].dwFileSize)
       /\ root[i].dwFileSize \in Nat /\ name \in Names
  BY <1>1, <1>2, <1>3, <1>4, <1>6, <1>11, WriterIs
<1>13. off \in Nat /\ f.dwFileSize \in Nat /\ call[t] \in CallType /\ t # NoTask
  BY <1>5, <1>7, <1>12, Distinct DEF HandleType, CallsType
<1>14. PICK q : q = root'
  OBVIOUS
<1>15. q \in Root
  BY <1>14, TypeEndWrite DEF TypeInv, VolumeType
<1>16. Resized(root, q, i, off)
  <2>1. Resized(root, EntryAfter(h), i, off)
    BY <1>2, <1>3, <1>5, <1>6, <1>7, <1>12, EntryAfterIs
  <2>2. root' = EntryAfter(h) \/ root' = root
    BY <1>11
  <2> QED
    BY <1>14, <2>1, <2>2, ResizedSelf
<1>17. FilesOf(q) = FilesOf(root) /\ Kept(link, link, root, q, i)
  BY <1>16, ResizedIs
<1>18. /\ \A j \in Entries : q[j].name = root[j].name /\ Start(q, j) = Start(root, j)
       /\ \A j \in Entries : j # i => q[j] = root[j]
       /\ q[i].dwFileSize = root[i].dwFileSize \/ q[i].dwFileSize = off
       /\ q[i].dwStartClusterIndex = s /\ Start(q, i) = s /\ q[i].name = name
  BY <1>4, <1>12, <1>16 DEF Resized, Start
<1>19. OnPlace(link, f)
  BY <1>12 DEF HandleOK
<1>20. VolumeInv(link, q)
  <2>1. ChainOK(link, s, off)
    BY <1>5, <1>6, <1>12, <1>19 DEF ChainOK, OnPlace
  <2>2. ChainOK(link, Start(q, i), q[i].dwFileSize)
    BY <1>12, <1>18, <2>1
  <2>3. \A j \in FilesOf(q) : j # i =>
            q[j].name # q[i].name /\ Disjoint(link, Start(q, i), Start(q, j))
    BY <1>8, <1>12, <1>17, <1>18, FilesAreEntries DEF VolumeInv
  <2>4. \A j \in Entries : q[j].name = NoName <=> Start(q, j) = 0
    BY <1>8, <1>18 DEF VolumeInv
  <2>5. link[0] = LASTCLUSTER
    BY <1>8 DEF VolumeInv
  <2> QED
    BY <1>7, <1>8, <1>15, <1>17, <2>2, <2>3, <2>4, <2>5, VolumeFrame
<1>21. /\ g \in HandleType /\ g.used = TRUE /\ g.entry = i /\ g.dwStartClusterIndex = s
       /\ g.dwCurrentOffset = off /\ g.dwCurrentClusterIndex = f.dwCurrentClusterIndex
       /\ g.dwPreviousClusterIndex = f.dwPreviousClusterIndex
       /\ g.dwFileSize = IF f.dwFileSize < off THEN off ELSE f.dwFileSize
  <2>1. CASE Grown(h)
    BY <1>3, <1>5, <1>6, <1>9, <1>10, <1>12, <1>13, <2>1 DEF HandleType
  <2>2. CASE ~Grown(h)
    BY <1>3, <1>5, <1>6, <1>9, <1>10, <1>12, <2>2
  <2> QED
    BY <2>1, <2>2
<1>22. pool' = Put(pool, h, g)
  <2>1. CASE Grown(h)
    BY <1>2, <1>9, <1>11, <2>1 DEF Put
  <2>2. CASE ~Grown(h)
    BY <1>2, <1>7, <1>9, <1>11, <1>12, <2>2 DEF Put
  <2> QED
    BY <2>1, <2>2
<1>23. /\ HandlesInv(link, q, Put(pool, h, g))
       /\ \A x \in Handles : Put(pool, h, g)[x].used = pool[x].used
  <2>1. OnPlace(link, g)
    BY <1>5, <1>6, <1>19, <1>21 DEF OnPlace
  <2>2. HandleOK(link, q, g)
    BY <1>12, <1>17, <1>18, <1>21, <2>1 DEF HandleOK
  <2>3. pool[h].used = TRUE /\ pool[h].entry = i
    BY <1>2, <1>3, <1>12
  <2>4. HandlesInv(link, q, Put(pool, h, g))
    BY <1>7, <1>8, <1>12, <1>17, <1>21, <2>2, <2>3, HandlesPut
  <2>5. \A x \in Handles : Put(pool, h, g)[x].used = pool[x].used
    BY <1>7, <1>12, <1>21, <2>3 DEF Put
  <2> QED
    BY <2>4, <2>5
<1>24. CallsInv(pool', holder, call')
  <2>1. PICK k : k = CallAfter(call[t])
    OBVIOUS
  <2>2. k.step \in {"idle", "lock"} /\ (k.step = "lock" => k.h = h)
    BY <1>1, <1>13, <2>1, CallAfterType
  <2>3. call' = Put(call, t, k)
    BY <1>11, <2>1 DEF Put
  <2>4. PICK p : p = pool'
    OBVIOUS
  <2>5. CallsInv(p, holder, call)
    BY <1>7, <1>8, <1>22, <1>23, <2>4, CallsFrame
  <2>6. p[h].used = TRUE /\ holder[h] = t
    BY <1>1, <1>11, <2>5 DEF CallsInv
  <2>7. CallsInv(p, holder, Put(call, t, k))
    BY <1>7, <2>2, <2>5, <2>6, CallGoes
  <2> QED
    BY <2>3, <2>4, <2>7
<1>25. PICK a : a = content'
  OBVIOUS
<1>26. content \in [Names -> Seq(Bytes)] /\ content[name] \in Seq(Bytes)
  BY <1>8, <1>12 DEF ContentInv
<1>27. /\ a[name] = Padded(content[name], off)
       /\ \A x \in Names : x # name => a[x] = content[x]
  BY <1>11, <1>12, <1>25, <1>26
<1>28. a \in [Names -> Seq(Bytes)]
  <2>1. Padded(content[name], off) \in Seq(Bytes)
    BY <1>13, <1>26, PaddedIs
  <2> QED
    BY <1>11, <1>12, <1>25, <1>26, <2>1
<1>29. \A j \in FilesOf(q) : j # i => a[q[j].name] = content[q[j].name]
  <2>1. ASSUME NEW j \in FilesOf(q), j # i PROVE a[q[j].name] = content[q[j].name]
    <3>1. q[j].name # name /\ q[j].name \in Names
      BY <1>12, <1>15, <1>17, <1>18, <1>20, <2>1, FilesAreEntries, RootIs DEF VolumeInv
    <3> QED
      BY <1>27, <3>1
  <2> QED
    BY <2>1
<1>30. FileHeld(link, data, root[i], content[name])
  BY <1>4, <1>8, <1>12 DEF ContentInv
<1>31. ContentInv(link, q, data, a)
  <2>1. FileHeld(link, data, q[i], a[name])
    <3>1. PICK e, x, b, y : e = root[i] /\ x = q[i] /\ b = content[name] /\ y = a[name]
      OBVIOUS
    <3>2. /\ FileHeld(link, data, e, b) /\ b \in Seq(Bytes) /\ y = Padded(b, off)
          /\ x.dwStartClusterIndex = e.dwStartClusterIndex /\ e.dwFileSize \in Nat
          /\ x.dwFileSize = e.dwFileSize \/ x.dwFileSize = off
      BY <1>12, <1>18, <1>26, <1>27, <1>30, <3>1 DEF Start
    <3>3. FileHeld(link, data, x, y)
      BY <1>13, <3>2, PaddedHeld
    <3> QED
      BY <3>1, <3>3
  <2>2. i \in FilesOf(q) => FileHeld(link, data, q[i], a[q[i].name])
    BY <1>18, <2>1
  <2>3. \A j \in FilesOf(q), k \in Nat : j # i /\ At(link, Start(root, j), k) # LASTCLUSTER =>
            data[At(link, Start(root, j), k)] = data[At(link, Start(root, j), k)]
    OBVIOUS
  <2> QED
    BY <1>7, <1>8, <1>15, <1>17, <1>28, <1>29, <2>2, <2>3, ContentFrame
<1>32. ASSUME failed' = FALSE
       PROVE  Exact(link', root', pool', content', Writer', WriterOffset', Goes')
  <2>1. PICK p, o, e : p = pool' /\ o = WriterOffset' /\ e = Goes'
    OBVIOUS
  <2>2. Writer = i /\ WriterOffset = off
    BY <1>1, <1>2, <1>3, <1>5, <1>12, <1>13 DEF Writer, WriterOffset
  <2>3. ~Goes
    BY <1>11, <1>12, <1>13 DEF Goes, CallType
  <2>4. PICK goes : goes = Goes
    OBVIOUS
  <2>5. goes # TRUE
    BY <2>3, <2>4 DEF Goes
  <2>6. failed = FALSE /\ q = IF Grown(h) THEN EntryAfter(h) ELSE root
    BY <1>11, <1>14, <1>32
  <2>7. Exact(link, root, pool, content, i, off, goes)
    BY <2>2, <2>4, <2>6 DEF Good
  <2>8. Writer' = None
    BY <1>11 DEF Writer
  <2>9. SizesKnown(root, pool) /\ NoLeak(link, root)
    BY <2>7 DEF Exact
  <2>10. f.dwFileSize = root[i].dwFileSize
    BY <1>2, <1>3, <1>12, <2>9 DEF SizesKnown
  <2>11. q[i].dwFileSize = g.dwFileSize
    <3>1. CASE Grown(h)
      <4>1. EntryAfter(h)[i].dwFileSize = off
        BY <1>2, <1>3, <1>5, <1>6, <1>7, <1>12, EntryAfterIs
      <4> QED
        BY <1>10, <1>21, <2>6, <3>1, <4>1
    <3>2. CASE ~Grown(h)
      BY <1>10, <1>21, <2>6, <2>10, <3>2
    <3> QED
      BY <3>1, <3>2
  <2>12. SizesKnown(q, p)
    <3>1. p[h] = g /\ \A x \in Handles : x # h => p[x] = pool[x]
      BY <1>7, <1>12, <1>22, <2>1 DEF Put
    <3>2. ASSUME NEW x \in Handles, p[x].used = TRUE PROVE p[x].dwFileSize = q[p[x].entry].dwFileSize
      <4>1. CASE x = h
        BY <1>21, <2>11, <3>1, <4>1
      <4>2. CASE x # h
        <5>1. pool[x].used = TRUE /\ pool[x].entry # i /\ pool[x].entry \in FilesOf(root)
          BY <1>2, <1>3, <1>8, <1>12, <3>1, <3>2, <4>2 DEF HandlesInv, HandleOK
        <5>2. q[pool[x].entry] = root[pool[x].entry]
          BY <1>18, <5>1, FilesAreEntries
        <5> QED
          BY <2>9, <3>1, <4>2, <5>1, <5>2 DEF SizesKnown
      <4> QED
        BY <4>1, <4>2
    <3> QED
      BY <3>2 DEF SizesKnown
  <2>13. NoLeak(link, q)
    BY <1>17, <1>18, <2>9, FilesAreEntries DEF NoLeak
  <2>14. Tight(link, q[i], i, None, o, e)
    <3>1. Tight(link, root[i], i, i, off, goes)
      BY <1>12, <2>7 DEF Exact
    <3>2. PICK m : m = (Long(link, s) - 1) * ClusterSize
      OBVIOUS
    <3>3. m \in Int
      <4>1. Long(link, s) \in Nat
        BY <1>7, <1>12, OKIs
      <4> QED
        BY <3>2, <4>1, Constants
    <3>4. m = 0 \/ m < root[i].dwFileSize \/ m < off
      BY <1>12, <2>5, <3>1, <3>2 DEF Tight, Start
    <3>5. m = 0 \/ m < q[i].dwFileSize
      BY <1>12, <1>13, <1>21, <2>10, <2>11, <3>3, <3>4
    <3> QED
      BY <1>18, <3>2, <3>5 DEF Tight
  <2>15. Complete(q[i], i, a[q[i].name], None, o)
    <3>1. Complete(root[i], i, content[name], i, off)
      BY <1>4, <1>12, <2>7 DEF Exact
    <3>2. PICK b, y : b = content[name] /\ y = a[name]
      OBVIOUS
    <3>3. Len(y) = (IF Len(b) >= off THEN Len(b) ELSE off) /\ Len(b) \in Nat
      BY <1>13, <1>26, <1>27, <3>2, PaddedIs
    <3>4. Len(b) = root[i].dwFileSize \/ Len(b) <= off
      BY <3>1, <3>2 DEF Complete
    <3>5. root[i].dwFileSize <= Len(b)
      BY <1>30, <3>2 DEF FileHeld
    <3>6. Len(y) = q[i].dwFileSize
      BY <1>12, <1>13, <1>21, <2>10, <2>11, <3>3, <3>4, <3>5
    <3> QED
      BY <1>18, <3>2, <3>6 DEF Complete
  <2>16. i \in FilesOf(q) => Tight(link, q[i], i, None, o, e) /\ Complete(q[i], i, a[q[i].name], None, o)
    BY <2>14, <2>15
  <2>17. Exact(link, q, p, a, None, o, e)
    BY <1>7, <1>8, <1>17, <1>29, <2>7, <2>12, <2>13, <2>16, ExactExcept
  <2> QED
    BY <1>11, <1>14, <1>25, <2>1, <2>8, <2>17
<1>33. VolumeInv(link', root') /\ HandlesInv(link', root', pool')
  BY <1>11, <1>14, <1>20, <1>22, <1>23
<1>34. ContentInv(link', root', data', content')
  BY <1>11, <1>14, <1>25, <1>31
<1>35. CallsInv(pool', holder', call')
  BY <1>11, <1>24
<1> QED
  BY <1>32, <1>33, <1>34, <1>35, GoodNext

-----------------------------------------------------------------------------
\* How opening and removing leave the volume

\* All files but i are as they were, and i is empty: a chain of one cluster.
Clean(o, i) ==
    /\ o.link \in Table /\ o.root \in Root
    /\ Kept(link, o.link, root, o.root, i) /\ VolumeInv(o.link, o.root)
    /\ i \in FilesOf(o.root) => o.root[i].dwFileSize = 0 /\ Long(o.link, Start(o.root, i)) = 1
    /\ o.failed = FALSE /\ NoLeak(link, root) => NoLeak(o.link, o.root)

Sound == link \in Table /\ root \in Root /\ VolumeInv(link, root)

LEMMA NothingClean == ASSUME Sound, NEW o, Nothing(o) PROVE Clean(o, None)
<1>1. None \notin FilesOf(root)
  BY Distinct DEF FilesOf
<1>2. o.root = root
  BY DEF Nothing
<1>3. CASE o.link = link
  <2>1. Kept(link, link, root, root, None)
    BY SameSelf DEF Kept
  <2> QED
    BY <1>1, <1>2, <1>3, <2>1 DEF Clean, Sound
<1>4. CASE \E c : FreeIn(link, c) /\ o.link = Allocated(link, c) /\ o.failed
  <2>1. PICK c : FreeIn(link, c) /\ o.link = Allocated(link, c) /\ o.failed
    BY <1>4
  <2>2. PICK u : u = Allocated(link, c)
    OBVIOUS
  <2>3. Kept(link, u, root, root, None) /\ VolumeInv(u, root)
    BY <2>1, <2>2, Leaked DEF Sound
  <2>4. u \in Table
    BY <2>1, <2>2, AllocatedType DEF Sound, FreeIn
  <2>5. o.link = u /\ o.failed # FALSE
    BY <2>1, <2>2
  <2> QED
    BY <1>1, <1>2, <2>3, <2>4, <2>5 DEF Clean, Sound
<1> QED
  BY <1>3, <1>4 DEF Nothing

LEMMA FoundClean == ASSUME Sound, NEW o, NEW name, Found(o, name) PROVE Clean(o, None)
<1>1. None \notin FilesOf(root)
  BY Distinct DEF FilesOf
<1>2. Kept(link, link, root, root, None)
  BY SameSelf DEF Kept
<1> QED
  BY <1>1, <1>2 DEF Clean, Sound, Found

\* The chain of a file that is there
LEMMA FileIs ==
    ASSUME Sound, NEW i \in Entries, NEW name \in Names, root[i].name = name,
           NEW c, c = root[i].dwStartClusterIndex
    PROVE  /\ i \in FilesOf(root) /\ i # None /\ Start(root, i) = c /\ c \in Clusters /\ c # 0
           /\ ChainOK(link, c, root[i].dwFileSize)
           /\ \A k \in Nat : At(link, c, k) # 0
           /\ \A j \in FilesOf(root) : j # i =>
                root[j].name # name /\ Disjoint(link, c, Start(root, j))
<1>1. root \in Root /\ link \in Table
  BY DEF Sound
<1>2. i \in FilesOf(root) /\ i # None
  BY Distinct DEF FilesOf
<1>3. c \in Clusters /\ Start(root, i) = c
  BY <1>1, RootIs
<1>4. ChainOK(link, c, root[i].dwFileSize)
  BY <1>2, <1>3 DEF Sound, VolumeInv
<1>5. c # 0 /\ \A k \in Nat : At(link, c, k) # 0
  BY <1>1, <1>3, <1>4, OKIs DEF ChainOK
<1>6. \A j \in FilesOf(root) : j # i =>
            root[j].name # name /\ Disjoint(link, c, Start(root, j))
  BY <1>2, <1>3 DEF Sound, VolumeInv
<1> QED
  BY <1>2, <1>3, <1>4, <1>5, <1>6

LEMMA OthersOK ==
    ASSUME Sound, NEW j \in FilesOf(root)
    PROVE  /\ Start(root, j) \in Clusters /\ root[j].dwFileSize \in Nat
           /\ ChainOK(link, Start(root, j), root[j].dwFileSize)
  BY FilesAreEntries, RootIs DEF Sound, VolumeInv

LEMMA EmptiedClean ==
    ASSUME Sound, NEW o, NEW name \in Names, Emptied(o, name) PROVE Clean(o, o.entry)
<1>1. PICK i, c, u, q : i = o.entry /\ c = root[i].dwStartClusterIndex /\ u = o.link /\ q = o.root
  OBVIOUS
<1>2. /\ i \in Entries /\ root[i].name = name
      /\ IsCut(link, u, c) /\ q = [root EXCEPT ![i].dwFileSize = 0]
  BY <1>1 DEF Emptied
<1>3. root \in Root /\ link \in Table /\ u \in Table
  BY <1>2 DEF Sound, IsCut
<1>4. /\ i \in FilesOf(root) /\ Start(root, i) = c /\ c \in Clusters /\ c # 0
      /\ ChainOK(link, c, root[i].dwFileSize)
      /\ \A k \in Nat : At(link, c, k) # 0
      /\ \A j \in FilesOf(root) : j # i =>
            root[j].name # name /\ Disjoint(link, c, Start(root, j))
  BY <1>1, <1>2, FileIs
<1>5. Resized(root, q, i, 0) /\ q[i].dwFileSize = 0 /\ q \in Root
  BY <1>2, <1>3 DEF Resized, Start, Root, EntryType
<1>6. FilesOf(q) = FilesOf(root)
  BY <1>5, ResizedIs
<1>7. /\ \A j \in Entries : q[j].name = root[j].name /\ Start(q, j) = Start(root, j)
      /\ \A j \in Entries : j # i => q[j] = root[j]
  BY <1>5 DEF Resized
<1>8. ASSUME NEW j \in FilesOf(root), j # i
      PROVE  Same(link, u, Start(root, j)) /\ Disjoint(u, c, Start(root, j))
  <2>1. Same(link, u, Start(root, j))
    BY <1>2, <1>3, <1>4, <1>8, OthersOK, CutSame
  <2> QED
    BY <1>2, <1>4, <1>8, <2>1, CutDisjoint
<1>9. Kept(link, u, root, q, i)
  BY <1>6, <1>7, <1>8, FilesAreEntries DEF Kept
<1>10. u[c] = LASTCLUSTER
  BY <1>2 DEF IsCut
<1>11. ChainOK(u, c, 0) /\ Long(u, c) = 1 /\ At(u, c, 0) = c
  BY <1>4, <1>10, OneCluster
<1>12. VolumeInv(u, q)
  <2>1. u[0] = LASTCLUSTER
    BY <1>2, <1>4, LinkFacts DEF IsCut, Sound, VolumeInv
  <2>2. \A j \in Entries : q[j].name = NoName <=> Start(q, j) = 0
    BY <1>7 DEF Sound, VolumeInv
  <2>3. i \in FilesOf(q) =>
            /\ ChainOK(u, Start(q, i), q[i].dwFileSize)
            /\ \A j \in FilesOf(q) : j # i =>
                q[j].name # q[i].name /\ Disjoint(u, Start(q, i), Start(q, j))
    BY <1>2, <1>4, <1>5, <1>6, <1>7, <1>8, <1>11, FilesAreEntries
  <2>4. VolumeInv(link, root)
    BY DEF Sound
  <2> QED
    BY <1>3, <1>5, <1>9, <2>1, <2>2, <2>3, <2>4, VolumeFrame
<1>13. ASSUME NoLeak(link, root) PROVE NoLeak(u, q)
  <2>1. ASSUME NEW y \in Clusters \ {0}, u[y] # FREECLUSTER
        PROVE  \E j \in FilesOf(q), k \in Nat : y = At(u, Start(q, j), k)
    <3>1. CASE y = c
      <4>1. i \in FilesOf(q) /\ y = At(u, Start(q, i), 0)
        BY <1>2, <1>4, <1>6, <1>7, <1>11, <3>1
      <4> QED
        BY <4>1
    <3>2. CASE y # c
      <4>1. \A k \in Nat : y # At(link, c, k)
        <5>1. ASSUME NEW k \in Nat, y = At(link, c, k) PROVE k >= 1
          BY <3>2, <5>1, AtIs
        <5> QED
          BY <1>2, <2>1, <5>1 DEF IsCut
      <4>2. link[y] # FREECLUSTER
        BY <1>2, <2>1, <4>1 DEF IsCut
      <4>3. PICK j \in FilesOf(root), k \in Nat : y = At(link, Start(root, j), k)
        BY <1>13, <4>2 DEF NoLeak
      <4>4. j # i
        BY <1>4, <4>1, <4>3
      <4>5. y = At(u, Start(q, j), k)
        BY <1>7, <1>8, <4>3, <4>4, FilesAreEntries DEF Same
      <4> QED
        BY <1>6, <4>5
    <3> QED
      BY <3>1, <3>2
  <2> QED
    BY <2>1 DEF NoLeak
<1> QED
  BY <1>1, <1>2, <1>3, <1>4, <1>5, <1>7, <1>9, <1>11, <1>12, <1>13 DEF Clean

LEMMA MadeClean ==
    ASSUME Sound, NEW o, NEW name \in Names, Made(o, name)
    PROVE  /\ Clean(o, o.entry) /\ o.entry \notin FilesOf(root)
           /\ o.entry \in FilesOf(o.root) /\ o.root[o.entry].name = name
           /\ \A j \in FilesOf(root) : j \in FilesOf(o.root)
<1>1. PICK i, u, q : i = o.entry /\ u = o.link /\ q = o.root
  OBVIOUS
<1>2. PICK c : FreeIn(link, c) /\ u = Allocated(link, c) /\ q = [root EXCEPT ![i] = NewEntry(name, c)]
  BY <1>1 DEF Made
<1>3. /\ i \in Entries /\ Start(root, i) = 0 /\ \A j \in Entries : root[j].name # name
  BY <1>1 DEF Made, Start
<1>4. root \in Root /\ link \in Table /\ c \in Clusters /\ u \in Table /\ link[0] = LASTCLUSTER
  BY <1>2, AllocatedType DEF Sound, FreeIn, VolumeInv
<1>5. c # 0
  BY <1>2, <1>4, LinkFacts DEF FreeIn
<1>6. i \notin FilesOf(root)
  BY <1>3 DEF Sound, VolumeInv, FilesOf
<1>7. /\ q[i] = NewEntry(name, c) /\ \A j \in Entries : j # i => q[j] = root[j] /\ Start(q, j) = Start(root, j)
  BY <1>2, <1>3, <1>4 DEF Root, Start
<1>8. q[i].name = name /\ q[i].dwFileSize = 0 /\ Start(q, i) = c /\ name # NoName
  BY <1>7, Distinct DEF NewEntry, Start
<1>9. i \in FilesOf(q) /\ \A j \in Entries : j # i => (j \in FilesOf(q) <=> j \in FilesOf(root))
  BY <1>3, <1>7, <1>8 DEF FilesOf
<1>10. q \in Root
  BY <1>2, <1>3, <1>4 DEF Root, EntryType, NewEntry
<1>11. u[c] = LASTCLUSTER /\ u[0] = LASTCLUSTER /\ \A y \in Clusters : y # c => u[y] = link[y]
  BY <1>2, <1>4, <1>5, LinkFacts DEF Allocated, Table
<1>12. ASSUME NEW j \in FilesOf(q), j # i
       PROVE  /\ j \in FilesOf(root) /\ q[j] = root[j] /\ Start(q, j) = Start(root, j)
              /\ Same(link, u, Start(root, j)) /\ Disjoint(u, c, Start(root, j))
  <2>1. j \in FilesOf(root) /\ q[j] = root[j] /\ Start(q, j) = Start(root, j)
    BY <1>7, <1>9, <1>12, FilesAreEntries
  <2>2. Same(link, u, Start(root, j))
    BY <1>2, <1>4, <2>1, OthersOK, AllocatedSame
  <2>3. Disjoint(u, c, Start(root, j))
    BY <1>2, <1>4, <1>5, <1>11, <2>1, <2>2, OthersOK, OneDisjoint
  <2> QED
    BY <2>1, <2>2, <2>3
<1>13. Kept(link, u, root, q, i)
  BY <1>12 DEF Kept
<1>14. ChainOK(u, c, 0) /\ Long(u, c) = 1 /\ At(u, c, 0) = c
  BY <1>4, <1>5, <1>11, OneCluster
<1>15. VolumeInv(u, q)
  <2>1. \A j \in Entries : q[j].name = NoName <=> Start(q, j) = 0
    BY <1>5, <1>7, <1>8 DEF Sound, VolumeInv
  <2>2. i \in FilesOf(q) =>
            /\ ChainOK(u, Start(q, i), q[i].dwFileSize)
            /\ \A j \in FilesOf(q) : j # i =>
                q[j].name # q[i].name /\ Disjoint(u, Start(q, i), Start(q, j))
    BY <1>3, <1>8, <1>12, <1>14, FilesAreEntries
  <2>3. VolumeInv(link, root)
    BY DEF Sound
  <2> QED
    BY <1>4, <1>10, <1>11, <1>13, <2>1, <2>2, <2>3, VolumeFrame
<1>16. ASSUME NoLeak(link, root) PROVE NoLeak(u, q)
  <2>1. ASSUME NEW y \in Clusters \ {0}, u[y] # FREECLUSTER
        PROVE  \E j \in FilesOf(q), k \in Nat : y = At(u, Start(q, j), k)
    <3>1. CASE y = c
      <4>1. i \in FilesOf(q) /\ y = At(u, Start(q, i), 0)
        BY <1>8, <1>9, <1>14, <3>1
      <4> QED
        BY <4>1
    <3>2. CASE y # c
      <4>1. PICK j \in FilesOf(root), k \in Nat : y = At(link, Start(root, j), k)
        BY <1>11, <1>16, <2>1, <3>2 DEF NoLeak
      <4>2. j # i /\ j \in FilesOf(q)
        BY <1>6, <1>9, <4>1, FilesAreEntries
      <4>3. y = At(u, Start(q, j), k)
        BY <1>12, <4>1, <4>2 DEF Same
      <4> QED
        BY <4>2, <4>3
    <3> QED
      BY <3>1, <3>2
  <2> QED
    BY <2>1 DEF NoLeak
<1>17. \A j \in FilesOf(root) : j \in FilesOf(q)
  BY <1>6, <1>9, FilesAreEntries
<1>18. Clean(o, i)
  BY <1>1, <1>4, <1>8, <1>10, <1>13, <1>14, <1>15, <1>16 DEF Clean
<1> QED
  BY <1>1, <1>6, <1>8, <1>9, <1>17, <1>18

LEMMA RemovedClean ==
    ASSUME Sound, NEW o, NEW name \in Names, Removed(o, name)
    PROVE  /\ Clean(o, None)
           /\ \A j \in FilesOf(root) : j # o.entry => j \in FilesOf(o.root) /\ root[j].name # name
           /\ \A j \in FilesOf(o.root) : o.root[j].name # name
<1>1. PICK i, c, u, q : i = o.entry /\ c = root[i].dwStartClusterIndex /\ u = o.link /\ q = o.root
  OBVIOUS
<1>2. /\ i \in Entries /\ root[i].name = name
      /\ IsFreed(link, u, c) /\ q = [root EXCEPT ![i] = NoEntry]
  BY <1>1 DEF Removed
<1>3. root \in Root /\ link \in Table /\ u \in Table
  BY <1>2 DEF Sound, IsFreed
<1>4. /\ i \in FilesOf(root) /\ Start(root, i) = c /\ c \in Clusters /\ c # 0
      /\ \A k \in Nat : At(link, c, k) # 0
      /\ \A j \in FilesOf(root) : j # i =>
            root[j].name # name /\ Disjoint(link, c, Start(root, j))
  BY <1>1, <1>2, FileIs
<1>5. /\ q[i] = NoEntry /\ \A j \in Entries : j # i => q[j] = root[j] /\ Start(q, j) = Start(root, j)
  BY <1>2, <1>3 DEF Root, Start
<1>6. q[i].name = NoName /\ Start(q, i) = 0
  BY <1>5 DEF NoEntry, Start
<1>7. /\ \A j \in FilesOf(q) : j # i /\ j \in FilesOf(root)
      /\ \A j \in FilesOf(root) : j # i => j \in FilesOf(q)
  BY <1>5, <1>6 DEF FilesOf
<1>8. q \in Root
  BY <1>2, <1>3, LinkFacts DEF Root, EntryType, NoEntry
<1>9. None \notin FilesOf(q)
  BY Distinct DEF FilesOf
<1>10. ASSUME NEW j \in FilesOf(root), j # i PROVE Same(link, u, Start(root, j))
  BY <1>2, <1>3, <1>4, <1>10, OthersOK, FreedSame
<1>11. Kept(link, u, root, q, None)
  BY <1>5, <1>7, <1>10, FilesAreEntries DEF Kept
<1>12. VolumeInv(u, q)
  <2>1. u[0] = LASTCLUSTER
    BY <1>2, <1>4, LinkFacts DEF IsFreed, Sound, VolumeInv
  <2>2. \A j \in Entries : q[j].name = NoName <=> Start(q, j) = 0
    BY <1>5, <1>6 DEF Sound, VolumeInv
  <2>3. VolumeInv(link, root)
    BY DEF Sound
  <2> QED
    BY <1>3, <1>8, <1>9, <1>11, <2>1, <2>2, <2>3, VolumeFrame
<1>13. ASSUME NoLeak(link, root) PROVE NoLeak(u, q)
  <2>1. ASSUME NEW y \in Clusters \ {0}, u[y] # FREECLUSTER
        PROVE  \E j \in FilesOf(q), k \in Nat : y = At(u, Start(q, j), k)
    <3>1. \A k \in Nat : y # At(link, c, k)
      BY <1>2, <2>1 DEF IsFreed
    <3>2. link[y] # FREECLUSTER
      BY <1>2, <2>1, <3>1 DEF IsFreed
    <3>3. PICK j \in FilesOf(root), k \in Nat : y = At(link, Start(root, j), k)
      BY <1>13, <3>2 DEF NoLeak
    <3>4. j # i
      BY <1>4, <3>1, <3>3
    <3>5. y = At(u, Start(q, j), k)
      BY <1>5, <1>10, <3>3, <3>4, FilesAreEntries DEF Same
    <3> QED
      BY <1>7, <3>4, <3>5
  <2> QED
    BY <2>1 DEF NoLeak
<1>14. Clean(o, None)
  BY <1>1, <1>3, <1>8, <1>9, <1>11, <1>12, <1>13 DEF Clean
<1>15. \A j \in FilesOf(q) : q[j].name # name
  BY <1>4, <1>5, <1>7, FilesAreEntries
<1> QED
  BY <1>1, <1>4, <1>7, <1>14, <1>15

DataLeft(o) == [c \in Clusters |-> IF o.link[c] = FREECLUSTER THEN Unknown ELSE data[c]]

LEMMA CleanContent ==
    ASSUME Sound, NEW o, NEW i, Clean(o, i), ContentInv(link, root, data, content),
           NEW a \in [Names -> Seq(Bytes)],
           \A j \in FilesOf(o.root) : j # i => a[o.root[j].name] = content[o.root[j].name],
           i \in FilesOf(o.root) => a[o.root[i].name] = <<>>
    PROVE  ContentInv(o.link, o.root, DataLeft(o), a)
<1>1. PICK u, q, e : u = o.link /\ q = o.root /\ e = DataLeft(o)
  OBVIOUS
<1>2. /\ u \in Table /\ q \in Root /\ link \in Table /\ root \in Root
      /\ Kept(link, u, root, q, i) /\ VolumeInv(link, root) /\ VolumeInv(u, q)
  BY <1>1 DEF Clean, Sound
<1>3. ASSUME NEW j \in FilesOf(q), NEW k \in Nat, j # i, At(link, Start(root, j), k) # LASTCLUSTER
      PROVE  e[At(link, Start(root, j), k)] = data[At(link, Start(root, j), k)]
  <2>1. PICK y : y = At(link, Start(root, j), k)
    OBVIOUS
  <2>2. j \in FilesOf(root) /\ q[j] = root[j] /\ Same(link, u, Start(root, j))
    BY <1>2, <1>3 DEF Kept
  <2>3. y = At(u, Start(root, j), k) /\ y # LASTCLUSTER
    BY <1>3, <2>1, <2>2 DEF Same
  <2>4. Start(root, j) \in Clusters /\ ChainOK(u, Start(root, j), root[j].dwFileSize)
    BY <2>2, OthersOK, SameOK
  <2>5. y \in Clusters /\ u[y] # FREECLUSTER
    BY <1>2, <2>3, <2>4, OKIs
  <2>6. e[y] = data[y]
    BY <1>1, <2>5 DEF DataLeft
  <2> QED
    BY <2>1, <2>6
<1>4. \A j \in FilesOf(q), k \in Nat : j # i /\ At(link, Start(root, j), k) # LASTCLUSTER =>
            e[At(link, Start(root, j), k)] = data[At(link, Start(root, j), k)]
  BY <1>3
<1>5. i \in FilesOf(q) => FileHeld(u, e, q[i], a[q[i].name])
  <2>1. ASSUME i \in FilesOf(q) PROVE FileHeld(u, e, q[i], a[q[i].name])
    <3>1. q[i].dwFileSize = 0 /\ a[q[i].name] = <<>>
      BY <1>1, <2>1 DEF Clean
    <3>2. PICK b : b = a[q[i].name] /\ Len(b) = 0
      BY <3>1
    <3>3. FileHeld(u, e, q[i], b)
      BY <3>1, <3>2 DEF FileHeld
    <3> QED
      BY <3>2, <3>3
  <2> QED
    BY <2>1
<1>6. \A j \in FilesOf(q) : j # i => a[q[j].name] = content[q[j].name]
  BY <1>1
<1>7. ContentInv(u, q, e, a)
  BY <1>2, <1>4, <1>5, <1>6, ContentFrame
<1> QED
  BY <1>1, <1>7

LEMMA CleanExact ==
    ASSUME Sound, NEW o, NEW i, Clean(o, i), o.failed = FALSE,
           NEW p, NEW off, NEW goes, Exact(link, root, p, content, None, off, goes), NEW a,
           \A j \in FilesOf(o.root) : j # i => a[o.root[j].name] = content[o.root[j].name],
           i \in FilesOf(o.root) => a[o.root[i].name] = <<>>,
           NEW s, SizesKnown(o.root, s), NEW x, NEW g
    PROVE  Exact(o.link, o.root, s, a, None, x, g)
<1>1. PICK u, q : u = o.link /\ q = o.root
  OBVIOUS
<1>2. /\ root \in Root /\ VolumeInv(link, root) /\ Kept(link, u, root, q, i)
  BY <1>1 DEF Clean, Sound
<1>3. NoLeak(u, q)
  BY <1>1 DEF Clean, Exact
<1>4. i \in FilesOf(q) => Tight(u, q[i], i, None, x, g) /\ Complete(q[i], i, a[q[i].name], None, x)
  <2>1. ASSUME i \in FilesOf(q)
        PROVE  Tight(u, q[i], i, None, x, g) /\ Complete(q[i], i, a[q[i].name], None, x)
    <3>1. q[i].dwFileSize = 0 /\ Long(u, Start(q, i)) = 1 /\ a[q[i].name] = <<>>
      BY <1>1, <2>1 DEF Clean
    <3>2. (Long(u, q[i].dwStartClusterIndex) - 1) * ClusterSize = 0
      BY <3>1, Constants DEF Start
    <3>3. Len(a[q[i].name]) = 0
      BY <3>1
    <3> QED
      BY <3>1, <3>2, <3>3 DEF Tight, Complete
  <2> QED
    BY <2>1
<1>5. None \in {i, None}
  OBVIOUS
<1>6. \A j \in FilesOf(q) : j # i => a[q[j].name] = content[q[j].name]
  BY <1>1
<1>7. SizesKnown(q, s)
  BY <1>1
<1>8. Exact(u, q, s, a, None, x, g)
  BY <1>2, <1>3, <1>4, <1>5, <1>6, <1>7, ExactExcept
<1> QED
  BY <1>1, <1>8

\* Open files are others than i and keep their entries.
Untouched(o, i) ==
    \A h \in Handles : pool[h].used = TRUE => pool[h].entry \in FilesOf(o.root) /\ pool[h].entry # i

LEMMA CleanHandles ==
    ASSUME pool \in [Handles -> HandleType], HandlesInv(link, root, pool),
           NEW o, NEW i, Clean(o, i), Untouched(o, i)
    PROVE  /\ HandlesInv(o.link, o.root, pool)
           /\ SizesKnown(root, pool) => SizesKnown(o.root, pool)
<1>1. PICK u, q : u = o.link /\ q = o.root
  OBVIOUS
<1>2. Kept(link, u, root, q, i)
  BY <1>1 DEF Clean
<1>3. \A h \in Handles : pool[h].used = TRUE => pool[h].entry \in FilesOf(q) /\ pool[h].entry # i
  BY <1>1 DEF Untouched
<1>4. HandlesInv(u, q, pool)
  BY <1>2, <1>3, HandlesFrame
<1>5. ASSUME SizesKnown(root, pool) PROVE SizesKnown(q, pool)
  <2>1. ASSUME NEW h \in Handles, pool[h].used = TRUE PROVE pool[h].dwFileSize = q[pool[h].entry].dwFileSize
    <3>1. q[pool[h].entry] = root[pool[h].entry]
      BY <1>2, <1>3, <2>1 DEF Kept
    <3> QED
      BY <1>5, <2>1, <3>1 DEF SizesKnown
  <2> QED
    BY <2>1 DEF SizesKnown
<1> QED
  BY <1>1, <1>4, <1>5

\* A file that is not open has no handle.
LEMMA NotOpened ==
    ASSUME pool \in [Handles -> HandleType], HandlesInv(link, root, pool), NEW i, ~IsFileOpened(i),
           NEW h \in Handles, pool[h].used = TRUE
    PROVE  pool[h].entry # i /\ pool[h].entry \in FilesOf(root)
<1>1. HandleOK(link, root, pool[h])
  BY DEF HandlesInv
<1>2. pool[h].used
  OBVIOUS
<1>3. pool[h].dwStartClusterIndex # root[i].dwStartClusterIndex
  BY <1>2 DEF IsFileOpened
<1> QED
  BY <1>1, <1>3 DEF HandleOK, Start

\* Of the handle that a file is given
LEMMA OpenedIs ==
    ASSUME NEW o, o.root \in Root, o.entry \in FilesOf(o.root), NEW f, f = Opened(o),
           NEW c, c = Start(o.root, o.entry)
    PROVE  /\ f \in HandleType /\ f.used = TRUE /\ f.entry = o.entry
           /\ f.dwFileSize = o.root[o.entry].dwFileSize /\ f.dwFileSize \in Nat
           /\ f.dwStartClusterIndex = c /\ f.dwCurrentClusterIndex = c
           /\ f.dwCurrentOffset = 0 /\ c \in Clusters
<1>1. o.entry \in Entries
  BY FilesAreEntries
<1>2. o.root[o.entry].dwFileSize \in Nat /\ o.root[o.entry].dwStartClusterIndex = c /\ c \in Clusters
  BY <1>1, RootIs
<1>3. c \in Links
  BY <1>2, LinkFacts
<1> QED
  BY <1>1, <1>2, <1>3 DEF Opened, HandleType

LEMMA OpenedPlace ==
    ASSUME NEW t, NEW f \in HandleType, f.dwCurrentOffset = 0,
           f.dwCurrentClusterIndex = f.dwStartClusterIndex
    PROVE  OnPlace(t, f)
<1>1. f.dwStartClusterIndex # LASTCLUSTER
  BY LinkFacts DEF HandleType
<1> QED
  BY <1>1, SizeZero, AtIs DEF OnPlace, Within

\* To append, the handle is moved to the end of the file.
LEMMA SoughtPlace ==
    ASSUME link \in Table, NEW f \in HandleType, f.dwCurrentOffset = 0,
           f.dwCurrentClusterIndex = f.dwStartClusterIndex,
           ChainOK(link, f.dwStartClusterIndex, f.dwFileSize),
           NEW g, g = Seek(f, f.dwFileSize)
    PROVE  /\ g \in HandleType /\ g.used = f.used /\ g.entry = f.entry
           /\ g.dwFileSize = f.dwFileSize /\ g.dwStartClusterIndex = f.dwStartClusterIndex
           /\ OnPlace(link, g)
<1>1. PICK size : size = f.dwFileSize
  OBVIOUS
<1>2. PICK c : c = f.dwStartClusterIndex
  OBVIOUS
<1>3. PICK m : m = ClusterOf(size)
  OBVIOUS
<1>4. size \in Nat /\ c \in Clusters /\ m \in Nat
  BY <1>1, <1>2, <1>3, ClusterOfType DEF HandleType
<1>5. MoveCount(f, size) = m
  BY <1>1, <1>3, <1>4, SizeZero DEF MoveCount
<1>6. MoveFrom(f, size) = c
  BY <1>2 DEF MoveFrom
<1>7. CanSeek(f, size)
  <2>1. ASSUME NEW k \in 0 .. m - 1 PROVE Walk(c, k) # LASTCLUSTER
    <3>1. k \in Nat /\ m - 1 \in Nat /\ k <= m - 1 /\ m # 0
      BY <1>4
    <3>2. At(link, c, m - 1) # LASTCLUSTER
      BY <1>1, <1>2, <1>3, <3>1 DEF ChainOK, Within
    <3> QED
      BY <3>1, <3>2, AtBehind, WalkIs
  <2> QED
    BY <1>4, <1>5, <1>6, <2>1 DEF CanSeek
<1>8. OnPlace(link, f)
  BY OpenedPlace
<1>9. OnPlace(link, g)
  BY <1>1, <1>4, <1>7, <1>8, SeekPlace
<1>10. PICK n, d : n = MoveCount(f, size) /\ d = MoveFrom(f, size)
  OBVIOUS
<1>11. g = Seek(f, size)
  BY <1>1
<1>12. /\ g \in HandleType /\ g.used = f.used /\ g.entry = f.entry
       /\ g.dwFileSize = f.dwFileSize /\ g.dwStartClusterIndex = f.dwStartClusterIndex
  BY <1>4, <1>10, <1>11, SeekIs
<1> QED
  BY <1>9, <1>12

\* In an empty file the end is the start.
LEMMA SoughtNowhere ==
    ASSUME link \in Table, NEW f \in HandleType, f.dwCurrentOffset = 0, f.dwFileSize = 0,
           f.dwCurrentClusterIndex = f.dwStartClusterIndex,
           NEW g, g = Seek(f, f.dwFileSize)
    PROVE  /\ g \in HandleType /\ g.used = f.used /\ g.entry = f.entry
           /\ g.dwFileSize = f.dwFileSize /\ g.dwStartClusterIndex = f.dwStartClusterIndex
           /\ g.dwCurrentOffset = 0 /\ g.dwCurrentClusterIndex = f.dwStartClusterIndex
<1>1. PICK size : size = f.dwFileSize
  OBVIOUS
<1>2. PICK n, c : n = MoveCount(f, size) /\ c = MoveFrom(f, size)
  OBVIOUS
<1>3. size = 0
  BY <1>1
<1>4. size \in Nat /\ g = Seek(f, size)
  BY <1>1
<1>5. n = 0 /\ c = f.dwStartClusterIndex /\ ~IsBeyond(f, size)
  BY <1>2, <1>3, SizeZero DEF MoveCount, MoveFrom, IsBeyond
<1>6. /\ g \in HandleType /\ g.used = f.used /\ g.entry = f.entry
      /\ g.dwFileSize = f.dwFileSize /\ g.dwStartClusterIndex = f.dwStartClusterIndex
  BY <1>2, <1>4, SeekIs
<1>7. g.dwCurrentOffset = IF IsBeyond(f, size) THEN f.dwFileSize ELSE size
  BY <1>2, <1>4, SeekIs
<1>8. ~(n > 0) /\ c = f.dwStartClusterIndex => g.dwCurrentClusterIndex = f.dwStartClusterIndex
  BY <1>2, <1>4, SeekIs
<1> QED
  BY <1>3, <1>5, <1>6, <1>7, <1>8

\* What a call leaves agrees with the open handles and with what was written.
Passes(o, a) ==
    /\ VolumeInv(o.link, o.root) /\ HandlesInv(o.link, o.root, pool)
    /\ ContentInv(o.link, o.root, DataLeft(o), a)
    /\ o.failed = FALSE /\ Exact(link, root, pool, content, None, WriterOffset, Goes) =>
            Exact(o.link, o.root, pool, a, None, WriterOffset, Goes)

LEMMA CleanPasses ==
    ASSUME TypeInv, Good, NEW o, NEW i, Clean(o, i), Untouched(o, i), NEW a \in [Names -> Seq(Bytes)],
           \A j \in FilesOf(o.root) : j # i => a[o.root[j].name] = content[o.root[j].name],
           i \in FilesOf(o.root) => a[o.root[i].name] = <<>>
    PROVE  Passes(o, a)
<1>1. Sound /\ pool \in [Handles -> HandleType]
  BY DEF TypeInv, VolumeType, Good, Sound
<1>2. HandlesInv(link, root, pool) /\ ContentInv(link, root, data, content)
  BY DEF Good
<1>3. HandlesInv(o.link, o.root, pool) /\ (SizesKnown(root, pool) => SizesKnown(o.root, pool))
  BY <1>1, <1>2, CleanHandles
<1>4. ContentInv(o.link, o.root, DataLeft(o), a)
  BY <1>1, <1>2, CleanContent
<1>5. ASSUME o.failed = FALSE, Exact(link, root, pool, content, None, WriterOffset, Goes)
      PROVE  Exact(o.link, o.root, pool, a, None, WriterOffset, Goes)
  <2>1. SizesKnown(o.root, pool)
    BY <1>3, <1>5 DEF Exact
  <2> QED
    BY <1>1, <1>5, <2>1, CleanExact
<1>6. VolumeInv(o.link, o.root)
  BY DEF Clean
<1> QED
  BY <1>3, <1>4, <1>5, <1>6 DEF Passes

LEMMA ContentType == ASSUME Good PROVE content \in [Names -> Seq(Bytes)]
  BY DEF Good, ContentInv

LEMMA Emptier ==
    ASSUME Good, NEW name \in Names, NEW a, a = [content EXCEPT ![name] = <<>>]
    PROVE  /\ a \in [Names -> Seq(Bytes)] /\ a[name] = <<>>
           /\ \A x \in Names : x # name => a[x] = content[x]
<1>1. content \in [Names -> Seq(Bytes)]
  BY ContentType
<1>2. <<>> \in Seq(Bytes)
  OBVIOUS
<1> QED
  BY <1>1, <1>2

LEMMA PassesNothing == ASSUME TypeInv, Good, NEW o, Nothing(o) PROVE Passes(o, content)
<1>1. Clean(o, None)
  BY NothingClean DEF TypeInv, VolumeType, Good, Sound
<1>2. None \notin FilesOf(root) /\ o.root = root
  BY Distinct DEF FilesOf, Nothing
<1>3. Untouched(o, None)
  BY <1>2 DEF Untouched, Good, HandlesInv, HandleOK
<1> QED
  BY <1>1, <1>2, <1>3, ContentType, CleanPasses

\* Of an empty file what was written may be forgotten.
LEMMA EmptyContent ==
    ASSUME NEW u, NEW q \in Root, NEW e, NEW b, ContentInv(u, q, e, b), VolumeInv(u, q),
           NEW i \in FilesOf(q), q[i].dwFileSize = 0, NEW a \in [Names -> Seq(Bytes)],
           a[q[i].name] = <<>>, \A x \in Names : x # q[i].name => a[x] = b[x]
    PROVE  /\ ContentInv(u, q, e, a)
           /\ \A p, o, g : Exact(u, q, p, b, None, o, g) => Exact(u, q, p, a, None, o, g)
<1>1. ASSUME NEW j \in FilesOf(q), j # i PROVE a[q[j].name] = b[q[j].name]
  <2>1. q[j].name # q[i].name /\ q[j].name \in Names
    BY <1>1, FilesAreEntries, RootIs DEF VolumeInv
  <2> QED
    BY <2>1
<1>2. ASSUME NEW j \in FilesOf(q) PROVE FileHeld(u, e, q[j], a[q[j].name])
  <2>1. CASE j = i
    <3>1. PICK c : c = a[q[i].name] /\ Len(c) = 0
      OBVIOUS
    <3>2. FileHeld(u, e, q[i], c)
      BY <3>1 DEF FileHeld
    <3> QED
      BY <2>1, <3>1, <3>2
  <2>2. CASE j # i
    BY <1>1, <2>2 DEF ContentInv
  <2> QED
    BY <2>1, <2>2
<1>3. ContentInv(u, q, e, a)
  BY <1>2 DEF ContentInv
<1>4. ASSUME NEW p, NEW o, NEW g, Exact(u, q, p, b, None, o, g) PROVE Exact(u, q, p, a, None, o, g)
  <2>1. ASSUME NEW j \in FilesOf(q) PROVE Complete(q[j], j, a[q[j].name], None, o)
    <3>1. CASE j = i
      <4>1. Len(a[q[i].name]) = 0
        OBVIOUS
      <4> QED
        BY <3>1, <4>1 DEF Complete
    <3>2. CASE j # i
      BY <1>1, <1>4, <3>2 DEF Exact
    <3> QED
      BY <3>1, <3>2
  <2> QED
    BY <1>4, <2>1 DEF Exact
<1> QED
  BY <1>3, <1>4

\* What is known of a file that is opened, whose handle is not yet given out
Opens(o, a) ==
    /\ Passes(o, a) /\ o.entry \in FilesOf(o.root)
    /\ \A x \in Handles : pool[x].used = TRUE => pool[x].entry # o.entry

Emptied0(o, name) ==
    IF o.root[o.entry].dwFileSize = 0 THEN [content EXCEPT ![name] = <<>>] ELSE content

LEMMA OpensFound ==
    ASSUME TypeInv, Good, NEW o, NEW name \in Names, Found(o, name), ~IsFileOpened(o.entry),
           NEW a, a = Emptied0(o, name)
    PROVE  Opens(o, a)
<1>1. /\ Sound /\ HandlesInv(link, root, pool) /\ pool \in [Handles -> HandleType]
  BY DEF TypeInv, VolumeType, Good, Sound
<1>2. Clean(o, None)
  BY <1>1, FoundClean
<1>3. o.root = root /\ o.link = link /\ o.entry \in Entries /\ root[o.entry].name = name
  BY DEF Found
<1>4. o.entry \in FilesOf(root)
  BY <1>3, Distinct DEF FilesOf
<1>5. \A x \in Handles : pool[x].used = TRUE => pool[x].entry # o.entry /\ pool[x].entry \in FilesOf(root)
  BY <1>1, NotOpened
<1>6. None \notin FilesOf(root)
  BY Distinct DEF FilesOf
<1>7. Untouched(o, None)
  BY <1>3, <1>5, <1>6 DEF Untouched
<1>8. Passes(o, content)
  BY <1>2, <1>3, <1>6, <1>7, ContentType, CleanPasses
<1>9. Passes(o, a)
  <2>1. CASE root[o.entry].dwFileSize = 0
    <3>1. PICK i : i = o.entry
      OBVIOUS
    <3>2. a = [content EXCEPT ![name] = <<>>]
      BY <1>3, <2>1 DEF Emptied0
    <3>3. /\ a \in [Names -> Seq(Bytes)] /\ a[name] = <<>>
          /\ \A x \in Names : x # name => a[x] = content[x]
      BY <3>2, Emptier
    <3>4. PICK e : e = DataLeft(o)
      OBVIOUS
    <3>5. ContentInv(link, root, e, content) /\ VolumeInv(link, root) /\ root \in Root
      BY <1>1, <1>3, <1>8, <3>4 DEF Passes, Sound
    <3>6. i \in FilesOf(root) /\ root[i].dwFileSize = 0 /\ root[i].name = name
      BY <1>3, <1>4, <2>1, <3>1
    <3>7. a[root[i].name] = <<>> /\ \A x \in Names : x # root[i].name => a[x] = content[x]
      BY <3>3, <3>6
    <3>8. /\ ContentInv(link, root, e, a)
          /\ \A p, y, g : Exact(link, root, p, content, None, y, g) => Exact(link, root, p, a, None, y, g)
      BY <3>3, <3>5, <3>6, <3>7, EmptyContent
    <3> QED
      BY <1>3, <1>8, <3>4, <3>8 DEF Passes
  <2>2. CASE root[o.entry].dwFileSize # 0
    BY <1>3, <1>8, <2>2 DEF Emptied0
  <2> QED
    BY <2>1, <2>2
<1> QED
  BY <1>3, <1>4, <1>5, <1>9 DEF Opens

LEMMA OpensClean ==
    ASSUME TypeInv, Good, NEW o, NEW name \in Names, Clean(o, o.entry),
           o.entry \in FilesOf(o.root), o.root[o.entry].name = name,
           Untouched(o, o.entry), NEW a, a = Emptied0(o, name)
    PROVE  Opens(o, a)
<1>1. PICK i, u, q : i = o.entry /\ u = o.link /\ q = o.root
  OBVIOUS
<1>2. /\ i \in FilesOf(q) /\ q[i].name = name /\ q[i].dwFileSize = 0
      /\ q \in Root /\ VolumeInv(u, q)
  BY <1>1 DEF Clean
<1>3. a = [content EXCEPT ![name] = <<>>]
  BY <1>1, <1>2 DEF Emptied0
<1>4. /\ a \in [Names -> Seq(Bytes)] /\ a[name] = <<>>
      /\ \A x \in Names : x # name => a[x] = content[x]
  BY <1>3, Emptier
<1>5. \A j \in FilesOf(q) : j # i => a[q[j].name] = content[q[j].name]
  <2>1. ASSUME NEW j \in FilesOf(q), j # i PROVE a[q[j].name] = content[q[j].name]
    <3>1. q[j].name # name /\ q[j].name \in Names
      BY <1>2, <2>1, FilesAreEntries, RootIs DEF VolumeInv
    <3> QED
      BY <1>4, <3>1
  <2> QED
    BY <2>1
<1>6. Passes(o, a)
  BY <1>1, <1>2, <1>4, <1>5, CleanPasses
<1> QED
  BY <1>6 DEF Opens, Untouched

LEMMA OpensEmptied ==
    ASSUME TypeInv, Good, NEW o, NEW name \in Names, Emptied(o, name), ~IsFileOpened(o.entry),
           NEW a, a = Emptied0(o, name)
    PROVE  Opens(o, a)
<1>1. /\ Sound /\ HandlesInv(link, root, pool) /\ pool \in [Handles -> HandleType] /\ root \in Root
  BY DEF TypeInv, VolumeType, Good, Sound
<1>2. Clean(o, o.entry)
  BY <1>1, EmptiedClean
<1>3. PICK i : i = o.entry
  OBVIOUS
<1>4. Resized(root, o.root, i, 0) /\ i \in Entries /\ root[i].name = name
  BY <1>1, <1>3 DEF Emptied, Resized, Start, Root, EntryType
<1>5. FilesOf(o.root) = FilesOf(root) /\ i \in FilesOf(o.root) /\ o.root[i].name = name
  <2>1. PICK q : q = o.root
    OBVIOUS
  <2>2. FilesOf(q) = FilesOf(root)
    BY <1>4, <2>1, ResizedIs
  <2> QED
    BY <1>4, <2>1, <2>2, Distinct DEF FilesOf, Resized
<1>6. Untouched(o, i)
  BY <1>1, <1>3, <1>5, NotOpened DEF Untouched
<1> QED
  BY <1>2, <1>3, <1>5, <1>6, OpensClean

LEMMA OpensMade ==
    ASSUME TypeInv, Good, NEW o, NEW name \in Names, Made(o, name), NEW a, a = Emptied0(o, name)
    PROVE  Opens(o, a)
<1>1. Sound /\ HandlesInv(link, root, pool)
  BY DEF TypeInv, VolumeType, Good, Sound
<1>2. /\ Clean(o, o.entry) /\ o.entry \notin FilesOf(root)
      /\ o.entry \in FilesOf(o.root) /\ o.root[o.entry].name = name
      /\ \A j \in FilesOf(root) : j \in FilesOf(o.root)
  BY <1>1, MadeClean
<1>3. Untouched(o, o.entry)
  BY <1>1, <1>2 DEF Untouched, HandlesInv, HandleOK
<1> QED
  BY <1>2, <1>3, OpensClean

LEMMA PassesRemoved ==
    ASSUME TypeInv, Good, NEW o, NEW name \in Names, Removed(o, name), ~IsFileOpened(o.entry),
           NEW a \in [Names -> Seq(Bytes)], \A x \in Names : x # name => a[x] = content[x]
    PROVE  Passes(o, a)
<1>1. /\ Sound /\ HandlesInv(link, root, pool) /\ pool \in [Handles -> HandleType]
  BY DEF TypeInv, VolumeType, Good, Sound
<1>2. /\ Clean(o, None)
      /\ \A j \in FilesOf(root) : j # o.entry => j \in FilesOf(o.root)
      /\ \A j \in FilesOf(o.root) : o.root[j].name # name
  BY <1>1, RemovedClean
<1>3. \A x \in Names : x # name => a[x] = content[x]
  OBVIOUS
<1>4. None \notin FilesOf(root) /\ None \notin FilesOf(o.root)
  BY Distinct DEF FilesOf
<1>5. Untouched(o, None)
  <2>1. ASSUME NEW x \in Handles, pool[x].used = TRUE
        PROVE  pool[x].entry \in FilesOf(o.root) /\ pool[x].entry # None
    <3>1. pool[x].entry # o.entry /\ pool[x].entry \in FilesOf(root)
      BY <1>1, <2>1, NotOpened
    <3> QED
      BY <1>2, <1>4, <3>1
  <2> QED
    BY <2>1 DEF Untouched
<1>6. \A j \in FilesOf(o.root) : j # None => a[o.root[j].name] = content[o.root[j].name]
  <2>1. ASSUME NEW j \in FilesOf(o.root) PROVE a[o.root[j].name] = content[o.root[j].name]
    <3>1. o.root \in Root
      BY <1>2 DEF Clean
    <3>2. o.root[j].name # name /\ o.root[j].name \in Names
      BY <1>2, <3>1, FilesAreEntries, RootIs
    <3> QED
      BY <1>3, <3>2
  <2> QED
    BY <2>1
<1>7. None \in FilesOf(o.root) => a[o.root[None].name] = <<>>
  BY <1>4
<1>8. Clean(o, None)
  BY <1>2
<1> QED
  BY <1>3, <1>5, <1>6, <1>7, <1>8, CleanPasses

\* A free handle is given out.
LEMMA GivenHandles ==
    ASSUME NEW u, NEW q, NEW p \in [Handles -> HandleType], HandlesInv(u, q, p),
           NEW h \in Handles, p[h].used = FALSE, NEW g \in HandleType, HandleOK(u, q, g),
           \A x \in Handles : p[x].used = TRUE => p[x].entry # g.entry
    PROVE  /\ HandlesInv(u, q, Put(p, h, g))
           /\ SizesKnown(q, p) /\ g.dwFileSize = q[g.entry].dwFileSize => SizesKnown(q, Put(p, h, g))
<1>1. PICK s : s = Put(p, h, g)
  OBVIOUS
<1>2. s[h] = g /\ \A x \in Handles : x # h => s[x] = p[x]
  BY <1>1 DEF Put
<1>3. HandlesInv(u, q, s)
  BY <1>2 DEF HandlesInv
<1>4. SizesKnown(q, p) /\ g.dwFileSize = q[g.entry].dwFileSize => SizesKnown(q, s)
  BY <1>2 DEF SizesKnown
<1> QED
  BY <1>1, <1>3, <1>4

LEMMA GivenCalls ==
    ASSUME CallsType, NEW p \in [Handles -> HandleType], NEW ho \in [Handles -> Tasks \cup {NoTask}],
           CallsInv(p, ho, call), NEW h \in Handles, p[h].used = FALSE, ~Wiped(h), NEW g, NEW t
    PROVE  CallsInv(Put(p, h, g), Put(ho, h, t), call)
<1>1. PICK s, k : s = Put(p, h, g) /\ k = Put(ho, h, t)
  OBVIOUS
<1>2. /\ \A x \in Handles : x # h => s[x] = p[x] /\ k[x] = ho[x]
  BY <1>1 DEF Put
<1>3. ASSUME NEW w \in Tasks
      PROVE  /\ call[w].step \in {"lock", "write", "update"} =>
                    s[call[w].h].used = TRUE /\ k[call[w].h] = w
             /\ call[w].step = "close" => s[call[w].h].used = FALSE
  <2>1. CASE call[w].step \in {"lock", "write", "update"}
    <3>1. p[call[w].h].used = TRUE /\ ho[call[w].h] = w /\ call[w].h \in Handles
      BY <2>1 DEF CallsInv, CallsType
    <3>2. call[w].h # h
      BY <3>1
    <3> QED
      BY <1>2, <2>1, <3>1, <3>2
  <2>2. CASE call[w].step = "close"
    <3>1. p[call[w].h].used = FALSE /\ call[w].h \in Handles
      BY <2>2 DEF CallsInv, CallsType
    <3>2. call[w].h # h
      BY <2>2 DEF Wiped
    <3> QED
      BY <1>2, <2>2, <3>1, <3>2
  <2> QED
    BY <2>1, <2>2
<1>4. CallsInv(s, k, call)
  BY <1>3 DEF CallsInv
<1> QED
  BY <1>1, <1>4

\* The handle that is given out, when the volume is left so
LEMMA HandleGiven ==
    ASSUME link \in Table, NEW o, o.root \in Root, VolumeInv(o.link, o.root),
           o.entry \in FilesOf(o.root),
           o.link = link \/ o.root[o.entry].dwFileSize = 0,
           NEW f, f = Opened(o), NEW g, g = f \/ g = Seek(f, f.dwFileSize)
    PROVE  /\ g \in HandleType /\ g.used = TRUE /\ g.entry = o.entry
           /\ g.dwFileSize = o.root[o.entry].dwFileSize /\ HandleOK(o.link, o.root, g)
<1>1. PICK u, q, i, c : u = o.link /\ q = o.root /\ i = o.entry /\ c = Start(q, i)
  OBVIOUS
<1>2. /\ f \in HandleType /\ f.used = TRUE /\ f.entry = i
      /\ f.dwFileSize = q[i].dwFileSize /\ f.dwFileSize \in Nat
      /\ f.dwStartClusterIndex = c /\ f.dwCurrentClusterIndex = c
      /\ f.dwCurrentOffset = 0 /\ c \in Clusters
  BY <1>1, OpenedIs
<1>3. i \in FilesOf(q) /\ VolumeInv(u, q)
  BY <1>1
<1>4. ASSUME NEW k \in HandleType, k.used = TRUE, k.entry = i, k.dwFileSize = f.dwFileSize,
             k.dwStartClusterIndex = c, OnPlace(u, k), g = k
      PROVE  /\ g \in HandleType /\ g.used = TRUE /\ g.entry = o.entry
             /\ g.dwFileSize = o.root[o.entry].dwFileSize /\ HandleOK(o.link, o.root, g)
  <2>1. HandleOK(u, q, k)
    BY <1>1, <1>3, <1>4 DEF HandleOK
  <2> QED
    BY <1>1, <1>2, <1>4, <2>1
<1>5. CASE g = f
  <2>1. OnPlace(u, f)
    BY <1>2, OpenedPlace
  <2> QED
    BY <1>2, <1>4, <1>5, <2>1
<1>6. CASE g = Seek(f, f.dwFileSize) /\ u = link
  <2>1. ChainOK(link, f.dwStartClusterIndex, f.dwFileSize)
    BY <1>1, <1>2, <1>3, <1>6 DEF VolumeInv
  <2>2. /\ g \in HandleType /\ g.used = f.used /\ g.entry = f.entry
        /\ g.dwFileSize = f.dwFileSize /\ g.dwStartClusterIndex = f.dwStartClusterIndex
        /\ OnPlace(link, g)
    BY <1>2, <1>6, <2>1, SoughtPlace
  <2> QED
    BY <1>2, <1>4, <1>6, <2>2
<1>7. CASE g = Seek(f, f.dwFileSize) /\ q[i].dwFileSize = 0
  <2>1. /\ g \in HandleType /\ g.used = f.used /\ g.entry = f.entry
        /\ g.dwFileSize = f.dwFileSize /\ g.dwStartClusterIndex = f.dwStartClusterIndex
        /\ g.dwCurrentOffset = 0 /\ g.dwCurrentClusterIndex = f.dwStartClusterIndex
    BY <1>2, <1>7, SoughtNowhere
  <2>2. OnPlace(u, g)
    BY <2>1, OpenedPlace
  <2> QED
    BY <1>2, <1>4, <2>1, <2>2
<1> QED
  BY <1>1, <1>5, <1>6, <1>7

LEMMA LeaveIs ==
    ASSUME NEW o, Leave(o), broken' = FALSE
    PROVE  /\ link' = o.link /\ root' = o.root /\ data' = DataLeft(o)
           /\ ~o.broken /\ failed' = (failed \/ o.failed)
<1>1. ~o.broken
  BY DEF Leave
<1>2. link' = o.link /\ root' = o.root /\ failed' = (failed \/ o.failed)
  BY Zenon DEF Leave
<1>3. data' = DataLeft(o)
  BY Zenon DEF Leave, DataLeft
<1> QED
  BY <1>1, <1>2, <1>3

LEMMA PassesGood ==
    ASSUME Good, owner = NoTask, NEW o, NEW a, Passes(o, a), a = content',
           link' = o.link, root' = o.root, data' = DataLeft(o),
           failed' = FALSE => failed = FALSE /\ o.failed = FALSE,
           HandlesInv(o.link, o.root, pool'), SizesKnown(o.root, pool) => SizesKnown(o.root, pool'),
           CallsInv(pool', holder', call')
    PROVE  Good'
<1>1. ASSUME failed' = FALSE
      PROVE  Exact(link', root', pool', content', Writer', WriterOffset', Goes')
  <2>1. PICK p, w, off, goes : p = pool' /\ w = Writer' /\ off = WriterOffset' /\ goes = Goes'
    OBVIOUS
  <2>2. PICK y, g : y = WriterOffset /\ g = Goes
    OBVIOUS
  <2>3. Exact(link, root, pool, content, None, WriterOffset, Goes) /\ o.failed = FALSE
    BY <1>1, NoWriter DEF Good
  <2>4. Exact(o.link, o.root, pool, a, None, y, g)
    BY <2>2, <2>3 DEF Passes
  <2>5. SizesKnown(o.root, p)
    BY <2>1, <2>4 DEF Exact
  <2>6. Exact(o.link, o.root, p, a, w, off, goes)
    BY <2>4, <2>5, ExactStart
  <2> QED
    BY <2>1, <2>6
<1>2. VolumeInv(link', root') /\ ContentInv(link', root', data', content')
  BY DEF Passes
<1>3. HandlesInv(link', root', pool')
  OBVIOUS
<1> QED
  BY <1>1, <1>2, <1>3, GoodNext

LEMMA GoodRemoveFile ==
    ASSUME TypeInv, Good, NEW t \in Tasks, NEW name \in Names, RemoveFile(t, name), broken' = FALSE
    PROVE  Good'
<1>1. PICK i : i = FindDirectoryEntry(name)
  OBVIOUS
<1>2. /\ i \in Entries /\ i # None /\ root[i].name = name
      /\ ~IsFileOpened(i) /\ Ends(root[i].dwStartClusterIndex)
  BY <1>1, FindEntryIs DEF RemoveFile
<1>3. PICK o \in Remove(i) :
        Leave(o) /\ content' = IF o.entry = None THEN content ELSE [content EXCEPT ![name] = <<>>]
  BY <1>1 DEF RemoveFile
<1>4. VolumeType /\ Sound
  BY DEF TypeInv, VolumeType, Good, Sound
<1>5. /\ link' = o.link /\ root' = o.root /\ data' = DataLeft(o)
      /\ ~o.broken /\ failed' = (failed \/ o.failed)
  BY <1>3, LeaveIs
<1>6. o \in OutcomeType
  BY <1>2, <1>4, RemoveIs
<1>7. o.broken = FALSE /\ o.failed \in BOOLEAN
  BY <1>5, <1>6 DEF OutcomeType
<1>8. Nothing(o) \/ Removed(o, name)
  BY <1>2, <1>4, <1>7, RemoveIs
<1>9. owner = NoTask /\ UNCHANGED <<pool, owner, call, holder>>
  BY DEF RemoveFile, Calls
<1>10. PICK a : a = content'
  OBVIOUS
<1>11. Passes(o, a)
  <2>1. CASE Nothing(o)
    BY <1>3, <1>10, <2>1, PassesNothing DEF Nothing
  <2>2. CASE Removed(o, name)
    <3>1. o.entry \in Entries /\ o.entry # None /\ root[o.entry].name = name
      BY <2>2 DEF Removed
    <3>2. o.entry = i
      <4>1. i \in FilesOf(root) /\ o.entry \in FilesOf(root)
        BY <1>2, <3>1, Distinct DEF FilesOf
      <4> QED
        BY <1>2, <1>4, <3>1, <4>1 DEF Sound, VolumeInv
    <3>3. a = [content EXCEPT ![name] = <<>>]
      BY <1>3, <1>10, <3>1
    <3>4. a \in [Names -> Seq(Bytes)] /\ \A x \in Names : x # name => a[x] = content[x]
      BY <3>3, Emptier
    <3>5. ~IsFileOpened(o.entry)
      BY <1>2, <3>2
    <3> QED
      BY <2>2, <3>4, <3>5, PassesRemoved
  <2> QED
    BY <1>8, <2>1, <2>2
<1>12. failed' = FALSE => failed = FALSE /\ o.failed = FALSE
  BY <1>5, <1>7 DEF TypeInv
<1>13. HandlesInv(o.link, o.root, pool') /\ CallsInv(pool', holder', call')
  BY <1>9, <1>11 DEF Passes, Good
<1>14. SizesKnown(o.root, pool) => SizesKnown(o.root, pool')
  BY <1>9
<1> QED
  BY <1>5, <1>9, <1>10, <1>11, <1>12, <1>13, <1>14, PassesGood

LEMMA ReachedIs ==
    ASSUME NEW o \in OutcomeType, NEW h, NEW sought \in BOOLEAN, NEW r, r = Reached(o, h, sought)
    PROVE  /\ r.link = o.link /\ r.root = o.root /\ DataLeft(r) = DataLeft(o)
           /\ r.failed = (o.failed \/ ~sought) /\ r.broken = (o.broken \/ (Wiped(h) /\ o.entry # None))
<1>1. r.link = o.link /\ r.root = o.root
  BY DEF Reached, OutcomeType
<1>2. DataLeft(r) = DataLeft(o)
  BY <1>1 DEF DataLeft
<1>3. r.failed = (o.failed \/ ~sought) /\ r.broken = (o.broken \/ (Wiped(h) /\ o.entry # None))
  BY DEF Reached, OutcomeType
<1> QED
  BY <1>1, <1>2, <1>3

LEMMA GoodOpenFile ==
    ASSUME TypeInv, Good, NEW t \in Tasks, NEW name \in Names, NEW mode, OpenFile(t, name, mode),
           broken' = FALSE
    PROVE  Good'
<1>1. /\ VolumeType /\ CallsType /\ pool \in [Handles -> HandleType]
      /\ holder \in [Handles -> Tasks \cup {NoTask}] /\ link \in Table /\ failed \in BOOLEAN
  BY DEF TypeInv, VolumeType
<1>2. LET i == FindDirectoryEntry(name)
      IN  i # None => ~IsFileOpened(i) /\ Ends(root[i].dwStartClusterIndex)
  BY DEF OpenFile
<1>3. PICK h : h = AllocateFileDirectoryHandle
  OBVIOUS
<1>4. PICK o \in Open(name, mode), sought \in BOOLEAN : Opening(o, t, name, h, mode, sought)
  BY <1>3, OpenFileIs
<1>5. Leave(Reached(o, h, sought)) /\ Emptying(o, name) /\ GivenOut(o, t, h, mode, sought)
  BY <1>4 DEF Opening
<1>6. o \in OutcomeType
  BY <1>1, <1>2, OpenIs
<1>7. PICK r : r = Reached(o, h, sought)
  OBVIOUS
<1>8. /\ r.link = o.link /\ r.root = o.root /\ DataLeft(r) = DataLeft(o)
      /\ r.failed = (o.failed \/ ~sought) /\ r.broken = (o.broken \/ (Wiped(h) /\ o.entry # None))
  BY <1>6, <1>7, ReachedIs
<1>9. /\ link' = r.link /\ root' = r.root /\ data' = DataLeft(r)
      /\ ~r.broken /\ failed' = (failed \/ r.failed)
  BY <1>5, <1>7, LeaveIs
<1>10. o.broken = FALSE /\ o.failed \in BOOLEAN /\ (o.entry # None => ~Wiped(h))
  BY <1>6, <1>8, <1>9 DEF OutcomeType
<1>11. \/ Nothing(o)
       \/ Found(o, name) /\ o.entry = FindDirectoryEntry(name)
       \/ Emptied(o, name) /\ o.entry = FindDirectoryEntry(name)
       \/ Made(o, name) /\ FindDirectoryEntry(name) = None
  BY <1>1, <1>2, <1>10, OpenIs
<1>12. failed' = FALSE => failed = FALSE /\ o.failed = FALSE
  BY <1>1, <1>8, <1>9, <1>10
<1>13. owner = NoTask /\ UNCHANGED <<owner, call>>
  BY DEF OpenFile, Calls
<1>14. link' = o.link /\ root' = o.root /\ data' = DataLeft(o)
  BY <1>8, <1>9
<1>15. PICK a : a = content'
  OBVIOUS
<1>16. CASE Nothing(o)
  <2>1. o.entry = None
    BY <1>16 DEF Nothing
  <2>2. a = content
    BY <1>5, <1>15, <2>1 DEF Emptying
  <2>3. UNCHANGED <<pool, holder>>
    BY <1>5, <2>1 DEF GivenOut
  <2>4. Passes(o, a)
    BY <1>16, <2>2, PassesNothing
  <2>5. HandlesInv(o.link, o.root, pool') /\ CallsInv(pool', holder', call')
    BY <1>13, <2>3, <2>4 DEF Passes, Good
  <2>6. SizesKnown(o.root, pool) => SizesKnown(o.root, pool')
    BY <2>3
  <2> QED
    BY <1>12, <1>13, <1>14, <1>15, <2>4, <2>5, <2>6, PassesGood
<1>17. CASE ~Nothing(o)
  <2>1. o.entry # None
    BY <1>11, <1>17 DEF Found, Emptied, Made
  <2>2. a = Emptied0(o, name)
    BY <1>5, <1>15, <2>1 DEF Emptying, Emptied0
  <2>3. Opens(o, a) /\ (o.link = link \/ o.root[o.entry].dwFileSize = 0)
    <3>1. CASE Found(o, name) /\ o.entry = FindDirectoryEntry(name)
      <4>1. ~IsFileOpened(o.entry)
        BY <1>2, <2>1, <3>1
      <4> QED
        BY <2>2, <3>1, <4>1, OpensFound DEF Found
    <3>2. CASE Emptied(o, name) /\ o.entry = FindDirectoryEntry(name)
      <4>1. ~IsFileOpened(o.entry)
        BY <1>2, <2>1, <3>2
      <4>2. o.root[o.entry].dwFileSize = 0
        BY <1>1, <3>2 DEF Emptied, VolumeType, Root, EntryType
      <4> QED
        BY <2>2, <3>2, <4>1, <4>2, OpensEmptied
    <3>3. CASE Made(o, name)
      <4>1. o.root[o.entry].dwFileSize = 0
        BY <1>1, <3>3 DEF Made, VolumeType, Root, NewEntry
      <4> QED
        BY <2>2, <3>3, <4>1, OpensMade
    <3> QED
      BY <1>11, <1>17, <3>1, <3>2, <3>3
  <2>4. /\ Passes(o, a) /\ o.entry \in FilesOf(o.root)
        /\ \A x \in Handles : pool[x].used = TRUE => pool[x].entry # o.entry
    BY <2>3 DEF Opens
  <2>5. CASE h = None
    <3>1. UNCHANGED <<pool, holder>>
      BY <1>5, <2>5 DEF GivenOut
    <3>2. HandlesInv(o.link, o.root, pool') /\ CallsInv(pool', holder', call')
      BY <1>13, <2>4, <3>1 DEF Passes, Good
    <3>3. SizesKnown(o.root, pool) => SizesKnown(o.root, pool')
      BY <3>1
    <3> QED
      BY <1>12, <1>13, <1>14, <1>15, <2>4, <3>2, <3>3, PassesGood
  <2>6. CASE h # None
    <3>1. PICK f : f = Opened(o)
      OBVIOUS
    <3>2. PICK g : g = IF mode = "a" /\ sought THEN Seek(f, f.dwFileSize) ELSE f
      OBVIOUS
    <3>3. pool' = Put(pool, h, g) /\ holder' = Put(holder, h, t)
      BY <1>5, <2>1, <2>6, <3>1, <3>2 DEF GivenOut, Put
    <3>4. h \in Handles /\ pool[h].used = FALSE /\ ~Wiped(h)
      <4>1. h \in Handles /\ ~pool[h].used
        BY <1>3, <2>6, FreeHandleIs
      <4> QED
        BY <1>1, <1>10, <2>1, <4>1 DEF HandleType
    <3>5. PICK u, q : u = o.link /\ q = o.root
      OBVIOUS
    <3>6. q \in Root /\ VolumeInv(u, q) /\ HandlesInv(u, q, pool)
      BY <1>6, <2>4, <3>5 DEF Passes, OutcomeType
    <3>7. g = f \/ g = Seek(f, f.dwFileSize)
      BY <3>2
    <3>8. /\ g \in HandleType /\ g.used = TRUE /\ g.entry = o.entry
          /\ g.dwFileSize = q[o.entry].dwFileSize /\ HandleOK(u, q, g)
      <4>1. link \in Table /\ o.root \in Root /\ VolumeInv(o.link, o.root) /\ o.entry \in FilesOf(o.root)
        BY <1>1, <2>4, <3>5, <3>6
      <4>2. o.link = link \/ o.root[o.entry].dwFileSize = 0
        BY <2>3
      <4>3. /\ g \in HandleType /\ g.used = TRUE /\ g.entry = o.entry
            /\ g.dwFileSize = o.root[o.entry].dwFileSize /\ HandleOK(o.link, o.root, g)
        BY <3>1, <3>7, <4>1, <4>2, HandleGiven
      <4> QED
        BY <3>5, <4>3
    <3>9. /\ HandlesInv(u, q, Put(pool, h, g))
          /\ SizesKnown(q, pool) => SizesKnown(q, Put(pool, h, g))
      <4>1. \A x \in Handles : pool[x].used = TRUE => pool[x].entry # g.entry
        BY <2>4, <3>8
      <4>2. g.dwFileSize = q[g.entry].dwFileSize
        BY <3>8
      <4> QED
        BY <1>1, <3>4, <3>6, <3>8, <4>1, <4>2, GivenHandles
    <3>10. CallsInv(pool', holder', call')
      <4>1. CallsInv(pool, holder, call)
        BY DEF Good
      <4>2. CallsInv(Put(pool, h, g), Put(holder, h, t), call)
        BY <1>1, <3>4, <4>1, GivenCalls
      <4> QED
        BY <1>13, <3>3, <4>2
    <3>11. HandlesInv(o.link, o.root, pool') /\ (SizesKnown(o.root, pool) => SizesKnown(o.root, pool'))
      BY <3>3, <3>5, <3>9
    <3> QED
      BY <1>12, <1>13, <1>14, <1>15, <2>4, <3>10, <3>11, PassesGood
  <2> QED
    BY <2>5, <2>6
<1> QED
  BY <1>16, <1>17

LEMMA IInvInit == ASSUME Init PROVE IInv
<1>1. TypeInv
  BY TypeInit
<1>2. /\ link = [c \in Clusters |-> IF c = 0 THEN LASTCLUSTER ELSE FREECLUSTER]
      /\ root = [i \in Entries |-> NoEntry] /\ pool = [h \in Handles |-> FreeHandle]
      /\ call = [t \in Tasks |-> Idle] /\ content = [name \in Names |-> <<>>] /\ owner = NoTask
  BY DEF Init
<1>3. FilesOf(root) = {}
  BY <1>2 DEF FilesOf, NoEntry
<1>4. VolumeInv(link, root)
  <2>1. link[0] = LASTCLUSTER
    BY <1>2, LinkFacts
  <2>2. \A i \in Entries : root[i].name = NoName <=> Start(root, i) = 0
    BY <1>2 DEF NoEntry, Start
  <2> QED
    BY <1>3, <2>1, <2>2 DEF VolumeInv
<1>5. \A h \in Handles : pool[h].used # TRUE
  BY <1>2 DEF FreeHandle
<1>6. HandlesInv(link, root, pool) /\ SizesKnown(root, pool)
  BY <1>5 DEF HandlesInv, SizesKnown
<1>7. CallsInv(pool, holder, call)
  BY <1>2 DEF CallsInv, Idle
<1>8. ContentInv(link, root, data, content)
  BY <1>2, <1>3 DEF ContentInv
<1>9. NoLeak(link, root)
  BY <1>2 DEF NoLeak
<1>10. Exact(link, root, pool, content, Writer, WriterOffset, Goes)
  BY <1>3, <1>6, <1>9 DEF Exact
<1> QED
  BY <1>1, <1>4, <1>6, <1>7, <1>8, <1>10 DEF IInv, Good

LEMMA GoodStep == ASSUME TypeInv, Good, [Next]_vars, broken' = FALSE PROVE Good'
<1>1. CASE UNCHANGED vars
  <2>1. Writer' = Writer /\ WriterOffset' = WriterOffset /\ Goes' = Goes
    BY <1>1 DEF vars, volume, Writer, WriterOffset, Goes
  <2> QED
    BY <1>1, <2>1 DEF Good, vars, volume
<1>2. ASSUME NEW t \in Tasks, NEW name \in Names, NEW mode \in {"r", "w", "a"}, OpenFile(t, name, mode)
      PROVE  Good'
  BY <1>2, GoodOpenFile
<1>3. ASSUME NEW t \in Tasks, NEW name \in Names, RemoveFile(t, name) PROVE Good'
  BY <1>3, GoodRemoveFile
<1>4. ASSUME NEW t \in Tasks, NEW h \in Handles, NEW count \in Counts,
             ReadFile(t, h, count) \/ WriteFile(t, h, count)
      PROVE  Good'
  <2>1. count \in Nat
    BY FileSystemAssumption
  <2> QED
    BY <1>4, <2>1, GoodReadFile, GoodWriteFile
<1>5. ASSUME NEW t \in Tasks, NEW h \in Handles, NEW iOffset \in Offsets,
             NEW iOrigin \in {"SET", "CUR", "END"}, SeekFile(t, h, iOffset, iOrigin)
      PROVE  Good'
  BY <1>5, GoodSeekFile
<1>6. ASSUME NEW t \in Tasks, NEW h \in Handles, CloseFile(t, h) PROVE Good'
  BY <1>6, GoodCloseFile
<1>7. ASSUME NEW t \in Tasks,
             Lock(t) \/ AppendCluster(t) \/ WriteCluster(t) \/ WriteClusterFails(t) \/ EndWrite(t)
             \/ CloseRest(t)
      PROVE  Good'
  BY <1>7, GoodLock, GoodAppendCluster, GoodWriteCluster, GoodWriteClusterFails, GoodEndWrite,
     GoodCloseRest
<1> QED
  BY <1>1, <1>2, <1>3, <1>4, <1>5, <1>6, <1>7 DEF Next

\* What the code has lost track of it does not find again.
LEMMA LeaveBroken == ASSUME NEW o, Leave(o), broken PROVE broken'
  BY DEF Leave

LEMMA BrokenStays == ASSUME TypeInv, broken = TRUE, [Next]_vars PROVE broken' # FALSE
<1>1. CASE UNCHANGED vars
  BY <1>1 DEF vars
<1>2. ASSUME NEW t \in Tasks, NEW name, NEW mode, OpenFile(t, name, mode) PROVE broken'
  <2>1. PICK o : Leave(o)
    BY <1>2, OpenFileIs DEF Opening
  <2> QED
    BY <2>1, LeaveBroken
<1>3. ASSUME NEW t \in Tasks, NEW name, RemoveFile(t, name) PROVE broken'
  <2>1. PICK o : Leave(o)
    BY <1>3 DEF RemoveFile
  <2> QED
    BY <2>1, LeaveBroken
<1>4. ASSUME NEW t \in Tasks, NEW h, NEW n, ReadFile(t, h, n) PROVE broken'
  BY <1>4, Zenon DEF ReadFile
<1>5. ASSUME NEW t \in Tasks, NEW h, NEW n, NEW m, WriteFile(t, h, n) \/ SeekFile(t, h, n, m)
      PROVE  broken'
  BY <1>5, Zenon DEF WriteFile, SeekFile
<1>6. ASSUME NEW t \in Tasks, NEW h,
             CloseFile(t, h) \/ Lock(t) \/ WriteClusterFails(t) \/ CloseRest(t)
      PROVE  broken'
  BY <1>6 DEF CloseFile, Lock, WriteClusterFails, CloseRest
<1>7. ASSUME NEW t \in Tasks, AppendCluster(t) \/ WriteCluster(t) \/ EndWrite(t) PROVE broken'
  BY <1>7, AppendClusterIs, WriteClusterIs, EndWriteIs
<1> QED
  BY <1>1, <1>2, <1>3, <1>4, <1>5, <1>6, <1>7 DEF Next

LEMMA IInvStep == ASSUME IInv, [Next]_vars PROVE IInv'
<1>1. TypeInv /\ TypeInv'
  BY TypeStep DEF IInv
<1>2. ASSUME broken' = FALSE PROVE Good'
  <2>1. broken = FALSE
    BY <1>1, <1>2, BrokenStays DEF TypeInv
  <2>2. Good
    BY <2>1 DEF IInv
  <2> QED
    BY <1>1, <1>2, <2>2, GoodStep
<1> QED
  BY <1>1, <1>2 DEF IInv

-----------------------------------------------------------------------------
\* What follows

\* A chain as the link table shows it
LEMMA ShownChain ==
    ASSUME link \in Table, NEW c \in Clusters, NEW size, ChainOK(link, c, size)
    PROVE  /\ Ends(c) /\ Length(c) = Long(link, c)
           /\ \A x : x \in Chain(c) <=> x # LASTCLUSTER /\ \E k \in Nat : x = At(link, c, k)
<1>1. PICK n : n = Long(link, c)
  OBVIOUS
<1>2. IsChain(link, c, n) /\ c \in Links
  BY <1>1, LinkFacts DEF ChainOK
<1> QED
  BY <1>1, <1>2, ChainIs

LEMMA IInvChainsApart == ASSUME IInv PROVE ChainsApart
<1>1. SUFFICES ASSUME owner = NoTask, ~broken
               PROVE  /\ link[0] = LASTCLUSTER
                      /\ \A i \in Files :
                            /\ Ends(root[i].dwStartClusterIndex)
                            /\ \A c \in ChainOf(i) : c # 0 /\ link[c] # FREECLUSTER
                            /\ \A j \in Files \ {i} : ChainOf(i) \cap ChainOf(j) = {}
                      /\ ~failed =>
                            /\ \A c \in Clusters \ {0} :
                                link[c] # FREECLUSTER => \E i \in Files : c \in ChainOf(i)
                            /\ \A i \in Files : LET n == Length(root[i].dwStartClusterIndex) IN
                                n = 1 \/ (n - 1) * ClusterSize < root[i].dwFileSize
  BY DEF ChainsApart
<1>2. TypeInv /\ Good /\ Sound /\ link \in Table /\ root \in Root
  BY <1>1 DEF IInv, TypeInv, VolumeType, Good, Sound
<1>3. Files = FilesOf(root)
  BY DEF Files, FilesOf
<1>4. ASSUME NEW i \in Files
      PROVE  /\ Start(root, i) = root[i].dwStartClusterIndex /\ Start(root, i) \in Clusters
             /\ root[i].dwFileSize \in Nat
             /\ ChainOK(link, Start(root, i), root[i].dwFileSize)
             /\ Ends(Start(root, i)) /\ Length(Start(root, i)) = Long(link, Start(root, i))
             /\ \A x : x \in ChainOf(i) <=>
                    x # LASTCLUSTER /\ \E k \in Nat : x = At(link, Start(root, i), k)
  <2>1. /\ Start(root, i) = root[i].dwStartClusterIndex /\ Start(root, i) \in Clusters
        /\ root[i].dwFileSize \in Nat
        /\ ChainOK(link, Start(root, i), root[i].dwFileSize)
    BY <1>2, <1>3, OthersOK DEF Start
  <2> QED
    BY <1>2, <2>1, ShownChain DEF ChainOf
<1>5. ASSUME NEW i \in Files, NEW c \in ChainOf(i) PROVE c # 0 /\ link[c] # FREECLUSTER
  BY <1>2, <1>4, <1>5, OKIs
<1>6. ASSUME NEW i \in Files, NEW j \in Files \ {i} PROVE ChainOf(i) \cap ChainOf(j) = {}
  <2>1. Disjoint(link, Start(root, i), Start(root, j))
    BY <1>2, <1>3 DEF Sound, VolumeInv
  <2> QED
    BY <1>4, <2>1 DEF Disjoint
<1>7. ASSUME ~failed PROVE Exact(link, root, pool, content, None, WriterOffset, Goes)
  <2>1. failed = FALSE
    BY <1>2, <1>7 DEF TypeInv
  <2> QED
    BY <1>1, <1>2, <2>1, NoWriter DEF Good
<1>8. ASSUME ~failed, NEW c \in Clusters \ {0}, link[c] # FREECLUSTER
      PROVE  \E i \in Files : c \in ChainOf(i)
  <2>1. PICK i \in Files, k \in Nat : c = At(link, Start(root, i), k)
    BY <1>3, <1>7, <1>8 DEF Exact, NoLeak
  <2>2. c # LASTCLUSTER
    BY LinkFacts
  <2> QED
    BY <1>4, <2>1, <2>2
<1>9. ASSUME ~failed, NEW i \in Files, NEW n, n = Length(root[i].dwStartClusterIndex)
      PROVE  n = 1 \/ (n - 1) * ClusterSize < root[i].dwFileSize
  <2>1. Tight(link, root[i], i, None, WriterOffset, Goes)
    BY <1>3, <1>7, <1>9 DEF Exact
  <2>2. i # None
    BY <1>3, Distinct DEF FilesOf
  <2>3. n = Long(link, root[i].dwStartClusterIndex) /\ n \in Nat
    BY <1>2, <1>4, <1>9, OKIs
  <2>4. (n - 1) * ClusterSize = 0 \/ (n - 1) * ClusterSize < root[i].dwFileSize
    BY <2>1, <2>2, <2>3 DEF Tight
  <2>5. n # 1 => (n - 1) * ClusterSize # 0
    BY <2>3, Constants
  <2> QED
    BY <2>4, <2>5
<1> QED
  BY <1>2, <1>4, <1>5, <1>6, <1>8, <1>9 DEF Sound, VolumeInv

LEMMA IInvWrittenStays == ASSUME IInv PROVE WrittenStays
<1>1. SUFFICES ASSUME owner = NoTask, ~broken, NEW i \in Files,
                      NEW bytes, bytes = content[root[i].name], NEW size, size = root[i].dwFileSize
               PROVE  /\ size <= Len(bytes) /\ (~failed => size = Len(bytes))
                      /\ \A k \in 0 .. size - 1 : bytes[k + 1] # Junk =>
                            data[Walk(root[i].dwStartClusterIndex, k \div ClusterSize)]
                                [k % ClusterSize] = bytes[k + 1]
  BY DEF WrittenStays
<1>2. TypeInv /\ Good /\ root \in Root
  BY <1>1 DEF IInv, TypeInv, VolumeType
<1>3. i \in FilesOf(root)
  BY DEF Files, FilesOf
<1>4. FileHeld(link, data, root[i], bytes) /\ size \in Nat /\ Len(bytes) \in Nat
  <2>1. FileHeld(link, data, root[i], bytes)
    BY <1>1, <1>2, <1>3 DEF Good, ContentInv
  <2>2. root[i].name \in Names /\ size \in Nat
    BY <1>1, <1>2, <1>3, FilesAreEntries, RootIs
  <2>3. bytes \in Seq(Bytes)
    BY <1>1, <1>2, <2>2 DEF Good, ContentInv
  <2> QED
    BY <2>1, <2>2, <2>3
<1>5. size <= Len(bytes)
  BY <1>1, <1>4 DEF FileHeld
<1>6. ASSUME ~failed PROVE size = Len(bytes)
  <2>1. failed = FALSE
    BY <1>2, <1>6 DEF TypeInv
  <2>2. Exact(link, root, pool, content, None, WriterOffset, Goes)
    BY <1>1, <1>2, <2>1, NoWriter DEF Good
  <2>3. Complete(root[i], i, bytes, None, WriterOffset)
    BY <1>1, <1>3, <2>2 DEF Exact
  <2>4. i # None
    BY <1>3, Distinct DEF FilesOf
  <2> QED
    BY <1>1, <2>3, <2>4 DEF Complete
<1>7. ASSUME NEW k \in 0 .. size - 1, bytes[k + 1] # Junk
      PROVE  data[Walk(root[i].dwStartClusterIndex, k \div ClusterSize)][k % ClusterSize] = bytes[k + 1]
  <2>1. k \in Nat /\ k < Len(bytes)
    BY <1>4, <1>5
  <2>2. Held(link, data, root[i].dwStartClusterIndex, bytes, k)
    BY <1>4, <1>7, <2>1 DEF FileHeld
  <2> QED
    BY <2>2, WalkIs DEF Held, ClusterOf
<1> QED
  BY <1>5, <1>6, <1>7

LEMMA IInvHandles == ASSUME IInv PROVE HandleKnowsItsPlace
<1>1. SUFFICES ASSUME owner = NoTask, ~failed, ~broken, NEW h \in Handles, pool[h].used,
                      NEW f, f = pool[h], NEW k, k = f.dwCurrentOffset \div ClusterSize
               PROVE  /\ f.dwFileSize = root[f.entry].dwFileSize
                      /\ f.dwStartClusterIndex = root[f.entry].dwStartClusterIndex
                      /\ f.dwCurrentClusterIndex = Walk(f.dwStartClusterIndex, k)
                      /\ f.dwCurrentClusterIndex = LASTCLUSTER =>
                            f.dwPreviousClusterIndex = Walk(f.dwStartClusterIndex, k - 1)
  BY DEF HandleKnowsItsPlace
<1>2. TypeInv /\ Good /\ failed = FALSE /\ f.used = TRUE
  BY <1>1 DEF IInv, TypeInv, HandleType
<1>3. HandleOK(link, root, f)
  BY <1>1, <1>2 DEF Good, HandlesInv
<1>4. f.dwFileSize = root[f.entry].dwFileSize
  BY <1>1, <1>2 DEF Good, Exact, SizesKnown
<1>5. f.dwStartClusterIndex = root[f.entry].dwStartClusterIndex
  BY <1>3 DEF HandleOK, Start
<1>6. /\ f.dwCurrentClusterIndex = At(link, f.dwStartClusterIndex, k)
      /\ f.dwCurrentClusterIndex = LASTCLUSTER =>
            f.dwPreviousClusterIndex = At(link, f.dwStartClusterIndex, k - 1)
  BY <1>1, <1>3 DEF HandleOK, OnPlace, ClusterOf
<1> QED
  BY <1>4, <1>5, <1>6, WalkIs

LEMMA SpecIInv == Spec => []IInv
<1>1. Init => IInv
  BY IInvInit
<1>2. IInv /\ [Next]_vars => IInv'
  BY IInvStep
<1> QED
  BY <1>1, <1>2, PTL DEF Spec

\* Between the calls of kOpenFile, kRemoveFile, kWriteFile and the others, in any order
\* and from any number of tasks, the files' chains in the link table end, hold no free
\* cluster and share none; if nothing has failed, no cluster is lost.
THEOREM SpecChainsApart == Spec => []ChainsApart
  BY IInvChainsApart, SpecIInv, PTL

\* What kWriteFile, kSeekFile's zeros included, has put into a file stays in the clusters
\* where kReadFile looks for it, whatever is opened, written, truncated and removed meanwhile.
THEOREM SpecWrittenStays == Spec => []WrittenStays
  BY IInvWrittenStays, SpecIInv, PTL

\* The cluster index a handle keeps, which kReadFile, kWriteFile and kSeekFile move on by
\* rules of their own, is always that of its offset counted from the file's start.
THEOREM SpecHandleKnowsItsPlace == Spec => []HandleKnowsItsPlace
  BY IInvHandles, SpecIInv, PTL
=============================================================================
