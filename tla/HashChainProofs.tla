---------------------------- MODULE HashChainProofs ----------------------------
(***************************************************************************)
(* Proofs about HashChain: the loops over the links of a chain, with one   *)
(* hasher used again and again and C integers, compute for chains of any   *)
(* length what the chain is defined to stand for.                          *)
(***************************************************************************)
EXTENDS HashChain, SelectionProofs, SequenceTheorems

-----------------------------------------------------------------------------
(* Powers of two.                                                          *)

LEMMA Pow2Unfolds ==
  /\ Pow2 \in [0 .. TimeBits -> Nat] /\ Pow2[0] = 1
  /\ \A k \in 0 .. TimeBits - 1 : Pow2[k + 1] = 2 * Pow2[k]
<1> DEFINE F == [i \in 1 .. TimeBits |-> [n \in Nat |-> 2 * n]]
           P(f) == f = [k \in 0 .. TimeBits |-> IF k = 0 THEN 1 ELSE 2 * f[k - 1]]
<1>1. TimeBits \in Nat
  BY WidthAssumption
<1>2. PICK f : Runs(f, F, TimeBits, 1, Nat)
  <2>1. Steps(F, TimeBits, 1, Nat)
    BY DEF Steps
  <2> HIDE DEF F
  <2> QED
    BY <1>1, <2>1, RecursionExists
<1>3. P(f)
  <2>1. ASSUME NEW i \in 0 .. TimeBits PROVE f[i] = IF i = 0 THEN 1 ELSE 2 * f[i - 1]
    <3>1. CASE i = 0
      BY <1>2, <3>1 DEF Runs
    <3>2. CASE i # 0
      <4>1. i \in 1 .. TimeBits /\ i - 1 \in 0 .. TimeBits
        BY <1>1, <3>2
      <4>2. f[i] = F[i][f[i - 1]] /\ f[i - 1] \in Nat
        BY <1>2, <4>1 DEF Runs
      <4> QED
        BY <3>2, <4>1, <4>2
    <3> QED
      BY <3>1, <3>2
  <2> QED
    BY <1>2, <2>1 DEF Runs
<1>4. Pow2 = CHOOSE g : P(g)
  BY DEF Pow2
<1> HIDE DEF P
<1>5. P(Pow2)
  BY <1>3, <1>4
<1>6. \A k \in 0 .. TimeBits : Pow2[k] = IF k = 0 THEN 1 ELSE 2 * Pow2[k - 1]
  BY <1>5 DEF P
<1>7. Pow2[0] = 1
  BY <1>1, <1>6
<1>8. ASSUME NEW k \in 0 .. TimeBits - 1 PROVE Pow2[k + 1] = 2 * Pow2[k]
  <2>1. k + 1 \in 0 .. TimeBits /\ k + 1 # 0 /\ k + 1 - 1 = k
    BY <1>1
  <2> QED
    BY <2>1, <1>6
<1>9. \A k \in 0 .. TimeBits : Pow2[k] \in Nat
  <2> DEFINE G == {k \in 0 .. TimeBits : Pow2[k] \in Nat}
  <2>1. 0 \in G
    BY <1>1, <1>7
  <2>2. \A k \in 0 .. TimeBits - 1 : k \in G => k + 1 \in G
    BY <1>1, <1>8
  <2> HIDE DEF G
  <2>3. \A k \in 0 .. TimeBits : k \in G
    BY <1>1, <2>1, <2>2, Induction
  <2> QED
    BY <2>3 DEF G
<1>10. Pow2 = [k \in 0 .. TimeBits |-> Pow2[k]]
  BY <1>5 DEF P
<1> QED
  BY <1>7, <1>8, <1>9, <1>10

-----------------------------------------------------------------------------
(* Positions aligned to a power of two.                                    *)

LEMMA Pow2Positive == \A k \in 0 .. TimeBits : Pow2[k] \in Nat /\ Pow2[k] > 0
<1>1. TimeBits \in Nat
  BY WidthAssumption
<1> DEFINE G == {k \in 0 .. TimeBits : Pow2[k] \in Nat /\ Pow2[k] > 0}
<1>2. 0 \in G
  BY <1>1, Pow2Unfolds
<1>3. ASSUME NEW k \in 0 .. TimeBits - 1, k \in G PROVE k + 1 \in G
  <2>1. k + 1 \in 0 .. TimeBits /\ Pow2[k + 1] = 2 * Pow2[k]
    BY <1>1, Pow2Unfolds
  <2> QED
    BY <1>3, <2>1
<1> HIDE DEF G
<1>4. \A k \in 0 .. TimeBits : k \in G
  BY <1>1, <1>2, <1>3, Induction
<1> QED
  BY <1>4 DEF G

LEMMA MultipleIs ==
  ASSUME NEW x \in Nat, NEW d \in Nat, d > 0
  PROVE  x % d = 0 <=> \E q \in Nat : x = q * d
<1>1. ASSUME x % d = 0 PROVE \E q \in Nat : x = q * d
  BY <1>1, SMTT(30)
<1>2. ASSUME NEW q \in Nat, x = q * d PROVE x % d = 0
  BY <1>2
<1> QED
  BY <1>1, <1>2

LEMMA AlignedNext ==
  ASSUME NEW x \in Nat, NEW d \in Nat, d > 0, x % d = 0
  PROVE  (x + d) % d = 0
<1>1. PICK q \in Nat : x = q * d
  BY MultipleIs
<1>2. x + d = (q + 1) * d /\ q + 1 \in Nat /\ x + d \in Nat
  BY <1>1
<1> QED
  BY <1>2, MultipleIs

\* Two aligned positions are not closer than the alignment.
LEMMA AlignedGap ==
  ASSUME NEW x \in Nat, NEW y \in Nat, NEW d \in Nat, d > 0, x % d = 0, y % d = 0, x < y
  PROVE  x + d <= y
<1>1. PICK q \in Nat : x = q * d
  BY MultipleIs
<1>2. PICK r \in Nat : y = r * d
  BY MultipleIs
<1>3. q + 1 <= r
  <2> SUFFICES ASSUME r <= q PROVE FALSE
    OBVIOUS
  <2>1. r * d <= q * d
    OBVIOUS
  <2> QED
    BY <1>1, <1>2, <2>1
<1>4. (q + 1) * d <= r * d
  BY <1>3
<1> QED
  BY <1>1, <1>2, <1>4

\* What is aligned to a power of two is aligned to all lower ones.
LEMMA AlignedBelow ==
  ASSUME NEW k \in 0 .. TimeBits, NEW x \in Nat, x % Pow2[k] = 0
  PROVE  \A j \in 0 .. k : x % Pow2[j] = 0
<1>1. TimeBits \in Nat /\ k \in Nat
  BY WidthAssumption
<1> DEFINE G == {i \in 0 .. k : x % Pow2[k - i] = 0}
<1>2. 0 \in G
  BY <1>1
<1>3. ASSUME NEW i \in 0 .. k - 1, i \in G PROVE i + 1 \in G
  <2>1. k - (i + 1) \in 0 .. TimeBits - 1 /\ k - (i + 1) + 1 = k - i /\ i + 1 \in 0 .. k
    BY <1>1
  <2>2. Pow2[k - i] = 2 * Pow2[k - (i + 1)]
    BY <2>1, Pow2Unfolds
  <2> DEFINE d == Pow2[k - (i + 1)]
  <2>3. d \in Nat /\ d > 0 /\ 2 * d \in Nat /\ 2 * d > 0
    BY <1>1, <2>1, Pow2Positive
  <2>4. x % (2 * d) = 0
    BY <1>3, <2>2
  <2> HIDE DEF d
  <2>5. PICK q \in Nat : x = q * (2 * d)
    BY <2>3, <2>4, MultipleIs
  <2>6. x = (2 * q) * d /\ 2 * q \in Nat
    BY <2>3, <2>5
  <2>7. x % d = 0
    BY <2>3, <2>6, MultipleIs
  <2> QED
    BY <2>1, <2>7 DEF d
<1> HIDE DEF G
<1>4. \A i \in 0 .. k : i \in G
  BY <1>1, <1>2, <1>3, Induction
<1>5. ASSUME NEW j \in 0 .. k PROVE x % Pow2[j] = 0
  <2>1. k - j \in 0 .. k /\ k - (k - j) = j
    BY <1>1
  <2> QED
    BY <1>4, <2>1 DEF G
<1> QED
  BY <1>5

LEMMA Pow2Grows ==
  ASSUME NEW k \in 0 .. TimeBits, NEW j \in 0 .. k, j < k
  PROVE  2 * Pow2[j] <= Pow2[k]
<1>1. TimeBits \in Nat /\ k \in Nat /\ j + 1 \in 0 .. k /\ j \in 0 .. TimeBits - 1
  BY WidthAssumption
<1>2. Pow2[k] \in Nat /\ Pow2[k] > 0 /\ Pow2[j + 1] \in Nat /\ Pow2[j + 1] > 0 /\ Pow2[j + 1] = 2 * Pow2[j]
  BY <1>1, Pow2Positive, Pow2Unfolds
<1>3. Pow2[k] % Pow2[k] = 0 /\ 0 % Pow2[j + 1] = 0
  BY <1>2, MultipleIs
<1>4. Pow2[k] % Pow2[j + 1] = 0
  BY <1>1, <1>2, <1>3, AlignedBelow
<1>5. 0 + Pow2[j + 1] <= Pow2[k]
  <2> DEFINE d == Pow2[j + 1]
             y == Pow2[k]
  <2>1. d \in Nat /\ d > 0 /\ y \in Nat /\ 0 < y /\ 0 % d = 0 /\ y % d = 0 /\ 0 \in Nat
    BY <1>2, <1>3, <1>4
  <2> HIDE DEF d, y
  <2>2. 0 + d <= y
    BY <2>1, AlignedGap
  <2> QED
    BY <2>2 DEF d, y
<1> QED
  BY <1>2, <1>5

\* The power of two the highest bit stands for.
LEMMA HighBitIs ==
  ASSUME NEW n \in Nat, n > 0, n < Pow2[TimeBits - 1]
  PROVE  \E c \in 0 .. TimeBits - 2 : HighBit(n) = Pow2[c] /\ Pow2[c] <= n /\ n < 2 * Pow2[c]
<1>1. TimeBits \in Nat /\ TimeBits > 1
  BY WidthAssumption
<1> DEFINE Low == {k \in 0 .. TimeBits - 1 : n < Pow2[k]}
<1>2. Low \subseteq Nat /\ TimeBits - 1 \in Low
  BY <1>1
<1>3. PICK k \in Low : \A m \in Low : k <= m
  <2> HIDE DEF Low
  <2> QED
    BY <1>2, LeastNumber
<1>4. k # 0
  BY <1>3, Pow2Unfolds
<1>5. k - 1 \in 0 .. TimeBits - 2 /\ k - 1 + 1 = k /\ k - 1 \notin Low
  BY <1>1, <1>3, <1>4
<1>6. Pow2[k - 1] \in Nat
  BY <1>1, <1>5, Pow2Unfolds
<1>7. Pow2[k - 1] <= n /\ n < Pow2[k - 1 + 1]
  BY <1>1, <1>3, <1>5, <1>6
<1> DEFINE Fit(h) == Pow2[h] <= n /\ n < Pow2[h + 1]
           c == CHOOSE h \in 0 .. TimeBits - 2 : Fit(h)
<1>8. \E h \in 0 .. TimeBits - 2 : Fit(h)
  BY <1>5, <1>7
<1>9. c \in 0 .. TimeBits - 2 /\ Fit(c) /\ HighBit(n) = Pow2[c]
  <2>1. HighBit(n) = Pow2[c]
    BY DEF HighBit
  <2> HIDE DEF Fit
  <2> QED
    BY <1>8, <2>1
<1> HIDE DEF c
<1>10. Pow2[c + 1] = 2 * Pow2[c]
  BY <1>1, <1>9, Pow2Unfolds
<1> QED
  BY <1>9, <1>10

\* The highest power of two is not above its number.
LEMMA HighBitFits ==
  ASSUME NEW n \in Nat, n > 0, n < Pow2[TimeBits - 1]
  PROVE  HighBit(n) \in 1 .. n
<1>1. PICK c \in 0 .. TimeBits - 2 : HighBit(n) = Pow2[c] /\ Pow2[c] <= n
  BY HighBitIs
<1>2. Pow2[c] \in Nat /\ Pow2[c] > 0
  BY WidthAssumption, Pow2Positive
<1> QED
  BY <1>1, <1>2

-----------------------------------------------------------------------------
(* Levels and hashes.                                                      *)

LEMMA JobFacts ==
  ASSUME NEW j \in Jobs
  PROVE  /\ j.op \in Operations /\ j.links \in Seq(ToSet(j.links)) /\ Len(j.links) \in Nat
         /\ j.start \in 0 .. LevelMax /\ j.algo \in Algorithms /\ j.inputAlgo \in Algorithms
         /\ j.pubTime \in 0 .. Pow2[TimeBits] - 1
BY JobsAssumption

LEMMA LinkFacts ==
  ASSUME NEW j \in Jobs, j.op \in {"aggregation", "calendar", "time"}, NEW i \in 1 .. Len(j.links)
  PROVE  /\ j.links[i].isLeft \in BOOLEAN /\ j.links[i].correction \in Nat
         /\ j.links[i].algo \in Algorithms
BY JobsAssumption DEF LinkOfChain

LevelTurn(j, f, i) == IF i = 0 THEN j.start ELSE f[i - 1] + j.links[i].correction + 1

LEMMA LevelsUnfold ==
  ASSUME NEW j \in Jobs, j.op = "aggregation"
  PROVE  /\ Levels(j)[0] = j.start
         /\ \A i \in 0 .. Len(j.links) : Levels(j)[i] \in Nat
         /\ \A i \in 0 .. Len(j.links) - 1 :
              Levels(j)[i + 1] = Levels(j)[i] + j.links[i + 1].correction + 1
<1> DEFINE n == Len(j.links)
           F == [i \in 1 .. n |-> [k \in Nat |-> k + j.links[i].correction + 1]]
           P(f) == f = [i \in 0 .. n |-> LevelTurn(j, f, i)]
<1>1. n \in Nat /\ j.start \in Nat
  BY JobFacts DEF LevelMax
<1>2. PICK f : Runs(f, F, n, j.start, Nat)
  <2>1. \A i \in 1 .. n : j.links[i].correction \in Nat
    BY LinkFacts
  <2> HIDE DEF n
  <2>2. Steps(F, n, j.start, Nat)
    BY <1>1, <2>1 DEF Steps
  <2> HIDE DEF F
  <2> QED
    BY <1>1, <2>2, RecursionExists
<1>3. P(f)
  <2> HIDE DEF n
  <2>1. ASSUME NEW i \in 0 .. n PROVE f[i] = LevelTurn(j, f, i)
    <3>1. CASE i = 0
      BY <1>2, <3>1 DEF Runs, LevelTurn
    <3>2. CASE i # 0
      <4>1. i \in 1 .. n /\ i - 1 \in 0 .. n
        BY <1>1, <3>2
      <4>2. f[i] = F[i][f[i - 1]] /\ f[i - 1] \in Nat
        BY <1>2, <4>1 DEF Runs
      <4> QED
        BY <3>2, <4>1, <4>2 DEF LevelTurn
    <3> QED
      BY <3>1, <3>2
  <2> QED
    BY <1>2, <2>1 DEF Runs
<1>4. Levels(j) = CHOOSE g : P(g)
  BY DEF Levels, LevelTurn
<1> HIDE DEF P
<1>5. P(Levels(j))
  BY <1>3, <1>4
<1>6. \A i \in 0 .. n : Levels(j)[i] = LevelTurn(j, Levels(j), i)
  <2> DEFINE g == Levels(j)
  <2>1. g = [i \in 0 .. n |-> LevelTurn(j, g, i)]
    BY <1>5 DEF P
  <2> HIDE DEF g, n
  <2>2. \A i \in 0 .. n : g[i] = LevelTurn(j, g, i)
    BY <2>1
  <2> QED
    BY <2>2 DEF g
<1>7. Levels(j)[0] = j.start
  BY <1>1, <1>6 DEF LevelTurn
<1>8. ASSUME NEW i \in 0 .. n - 1
      PROVE  Levels(j)[i + 1] = Levels(j)[i] + j.links[i + 1].correction + 1
  <2>1. i + 1 \in 0 .. n /\ i + 1 # 0 /\ i + 1 - 1 = i
    BY <1>1
  <2> QED
    BY <2>1, <1>6 DEF LevelTurn
<1>9. \A i \in 0 .. n : Levels(j)[i] \in Nat
  <2> DEFINE G == {i \in 0 .. n : Levels(j)[i] \in Nat}
  <2>1. 0 \in G
    BY <1>1, <1>7
  <2>2. \A i \in 0 .. n - 1 : i \in G => i + 1 \in G
    <3> TAKE i \in 0 .. n - 1
    <3>1. i + 1 \in 1 .. n /\ i + 1 \in 0 .. n
      BY <1>1
    <3>2. j.links[i + 1].correction \in Nat
      BY <3>1, LinkFacts
    <3> QED
      BY <3>1, <3>2, <1>8
  <2> HIDE DEF G, n
  <2>3. \A i \in 0 .. n : i \in G
    BY <1>1, <2>1, <2>2, Induction
  <2> QED
    BY <2>3 DEF G
<1> QED
  BY <1>7, <1>8, <1>9

\* A level once above the highest stays above it.
LEMMA LevelsGrow ==
  ASSUME NEW j \in Jobs, j.op = "aggregation", NEW i \in 0 .. Len(j.links)
  PROVE  Levels(j)[i] <= Levels(j)[Len(j.links)]
<1> DEFINE n == Len(j.links)
           G == {k \in 0 .. n : i <= k => Levels(j)[i] <= Levels(j)[k]}
<1>1. n \in Nat /\ Levels(j)[i] \in Nat
  BY JobFacts, LevelsUnfold
<1>2. 0 \in G
  BY <1>1
<1>3. ASSUME NEW k \in 0 .. n - 1, k \in G PROVE k + 1 \in G
  <2>1. k + 1 \in 1 .. n /\ k + 1 \in 0 .. n /\ k \in 0 .. n
    BY <1>1
  <2>2. j.links[k + 1].correction \in Nat /\ Levels(j)[k] \in Nat
    BY <2>1, LinkFacts, LevelsUnfold
  <2>3. Levels(j)[k + 1] = Levels(j)[k] + j.links[k + 1].correction + 1
    BY LevelsUnfold
  <2> QED
    BY <1>1, <1>3, <2>1, <2>2, <2>3
<1> HIDE DEF G
<1>4. n \in G
  <2>1. n \in 0 .. n
    BY <1>1
  <2> HIDE DEF n
  <2> QED
    BY <1>1, <1>2, <1>3, <2>1, Induction
<1> QED
  BY <1>1, <1>4 DEF G

HashTurn(j, levels, algos, f, i) ==
  IF i = 0 THEN [algo |-> j.inputAlgo, val |-> 0]
  ELSE [algo |-> algos[i],
        fed |-> Combine(j.links[i], f[i - 1], Sibling(j.links, i), levels[i])]

LEMMA HashesExist ==
  ASSUME NEW j \in Jobs, NEW levels, NEW algos
  PROVE  \E f : f = [i \in 0 .. Len(j.links) |-> HashTurn(j, levels, algos, f, i)]
<1> DEFINE n == Len(j.links)
           Fits(k, f) == f = [i \in 0 .. k |-> HashTurn(j, levels, algos, f, i)]
           G == {k \in 0 .. n : \E f : Fits(k, f)}
<1>0. n \in Nat
  BY JobFacts
<1>1. 0 \in G
  <2> DEFINE f == [i \in 0 .. 0 |-> [algo |-> j.inputAlgo, val |-> 0]]
  <2>1. \A i \in 0 .. 0 : [algo |-> j.inputAlgo, val |-> 0] = HashTurn(j, levels, algos, f, i)
    BY DEF HashTurn
  <2>2. Fits(0, f)
    BY <2>1
  <2> HIDE DEF f, Fits
  <2> QED
    BY <1>0, <2>2
<1>2. ASSUME NEW k \in 0 .. n - 1, k \in G PROVE k + 1 \in G
  <2>1. PICK f : Fits(k, f)
    BY <1>2
  <2> DEFINE x == HashTurn(j, levels, algos, f, k + 1)
             g == [i \in 0 .. k + 1 |-> IF i = k + 1 THEN x ELSE f[i]]
  <2>2. k \in 0 .. k /\ k + 1 \in 1 .. n /\ k \in Nat /\ k + 1 - 1 = k /\ k + 1 # 0
        /\ k + 1 \in 0 .. k + 1 /\ k \in 0 .. k + 1 /\ k + 1 \in 0 .. n /\ k # k + 1
    BY <1>0
  <2> HIDE DEF x
  <2>3. (\A i \in 0 .. k : g[i] = f[i]) /\ g[k + 1] = x /\ g = [i \in 0 .. k + 1 |-> g[i]]
    OBVIOUS
  <2>4. \A i \in 0 .. k : f[i] = HashTurn(j, levels, algos, f, i)
    <3> HIDE DEF g
    <3>1. f = [i \in 0 .. k |-> HashTurn(j, levels, algos, f, i)]
      BY <2>1
    <3> QED
      BY <3>1
  <2> HIDE DEF g, n
  <2>5. ASSUME NEW i \in 0 .. k + 1 PROVE g[i] = HashTurn(j, levels, algos, g, i)
    <3>1. CASE i \in 0 .. k
      <4>1. f[i] = HashTurn(j, levels, algos, f, i) /\ g[i] = f[i]
        BY <3>1, <2>3, <2>4
      <4>2. i # 0 => g[i - 1] = f[i - 1]
        <5>1. i # 0 => i - 1 \in 0 .. k
          BY <3>1
        <5> QED
          BY <5>1, <2>3
      <4> QED
        BY <4>1, <4>2 DEF HashTurn
    <3>2. CASE i = k + 1
      <4>1. g[k] = f[k]
        BY <2>2, <2>3
      <4>2. HashTurn(j, levels, algos, g, k + 1) = x
        BY <2>2, <4>1 DEF HashTurn, x
      <4> QED
        BY <3>2, <4>2, <2>3
    <3> QED
      BY <3>1, <3>2
  <2>6. g = [i \in 0 .. k + 1 |-> HashTurn(j, levels, algos, g, i)]
    BY <2>3, <2>5
  <2>7. Fits(k + 1, g)
    BY <2>6
  <2> HIDE DEF Fits
  <2> QED
    BY <2>2, <2>7
<1> HIDE DEF G, Fits
<1>3. n \in G
  <2>1. n \in 0 .. n
    BY <1>0
  <2> HIDE DEF n
  <2> QED
    BY <1>0, <1>1, <1>2, <2>1, Induction
<1>4. \E f : Fits(n, f)
  BY <1>3 DEF G
<1> QED
  BY <1>4 DEF Fits

LEMMA HashesUnfold ==
  ASSUME NEW j \in Jobs, NEW levels, NEW algos
  PROVE  /\ Hashes(j, levels, algos)[0] = [algo |-> j.inputAlgo, val |-> 0]
         /\ \A i \in 1 .. Len(j.links) :
              Hashes(j, levels, algos)[i] =
                [algo |-> algos[i],
                 fed |-> Combine(j.links[i], Hashes(j, levels, algos)[i - 1],
                                 Sibling(j.links, i), levels[i])]
<1> DEFINE n == Len(j.links)
           P(f) == f = [i \in 0 .. n |-> HashTurn(j, levels, algos, f, i)]
           h == Hashes(j, levels, algos)
<1>0. n \in Nat
  BY JobFacts
<1>1. \E f : P(f)
  BY HashesExist
<1>2. h = CHOOSE f : P(f)
  BY DEF Hashes, HashTurn
<1> HIDE DEF P, h
<1>3. P(h)
  BY <1>1, <1>2
<1>4. h = [i \in 0 .. n |-> HashTurn(j, levels, algos, h, i)]
  BY <1>3 DEF P
<1> HIDE DEF n
<1>5. \A i \in 0 .. n : h[i] = HashTurn(j, levels, algos, h, i)
  BY <1>4
<1>6. h[0] = [algo |-> j.inputAlgo, val |-> 0]
  <2>1. h[0] = HashTurn(j, levels, algos, h, 0)
    BY <1>0, <1>5
  <2> QED
    BY <2>1 DEF HashTurn
<1>7. ASSUME NEW i \in 1 .. n
      PROVE  h[i] = [algo |-> algos[i],
                     fed |-> Combine(j.links[i], h[i - 1], Sibling(j.links, i), levels[i])]
  <2>1. i \in 0 .. n /\ i # 0
    BY <1>0
  <2>2. h[i] = HashTurn(j, levels, algos, h, i)
    BY <1>5, <2>1
  <2> QED
    BY <2>1, <2>2 DEF HashTurn
<1> QED
  BY <1>6, <1>7 DEF h, n

-----------------------------------------------------------------------------
(* C integers.                                                             *)

LEMMA ToIntType ==
  ASSUME NEW n \in Int
  PROVE  ToInt(n) \in Int /\ -(IntRange \div 2) <= ToInt(n)
<1>1. IntRange \in Nat /\ IntRange > 0 /\ IntRange \div 2 \in Nat
  BY WidthAssumption, LengthsAssumption DEF LevelMax
<1> DEFINE h == IntRange \div 2
<1>2. (n + h) % IntRange \in Nat
  <2> HIDE DEF h
  <2> QED
    BY <1>1 DEF h
<1> QED
  BY <1>1, <1>2 DEF ToInt

\* A number that an int holds is not changed.
LEMMA ToIntKeeps ==
  ASSUME NEW n \in Nat, n <= 2 * LevelMax + 1
  PROVE  ToInt(n) = n
<1> DEFINE h == IntRange \div 2
<1>1. IntRange \in Nat /\ h \in Nat /\ IntRange = 2 * h /\ h > 2 * LevelMax + 1 /\ LevelMax \in Nat
  BY WidthAssumption, LengthsAssumption DEF LevelMax
<1>2. ToInt(n) = ((n + h) % IntRange) - h
  BY DEF ToInt
<1> HIDE DEF h
<1>3. n + h \in Nat /\ n + h < IntRange
  BY <1>1
<1>4. (n + h) % IntRange = n + h
  BY <1>1, <1>3
<1> QED
  BY <1>1, <1>2, <1>4

-----------------------------------------------------------------------------
(* The hasher.                                                             *)

Digest(a, fed) == [hash |-> [algo |-> a, fed |-> fed], hasher |-> Rested(a)]

LEMMA ResetIsOpen ==
  ASSUME NEW a
  PROVE  /\ Reset(Rested(a)) = Open(a) /\ Reset(Open(a)) = Open(a)
         /\ Rested(a).algo = a /\ Open(a).algo = a
<1>1. Rested(a).algo = a /\ Open(a).algo = a
  BY DEF Rested, Open
<1> QED
  BY <1>1 DEF Reset

LEMMA DigestIs ==
  ASSUME NEW a, NEW S, NEW fed \in Seq(S)
  PROVE  Close(Add(Open(a), fed)) = Digest(a, fed)
<1>1. << >> \o fed = fed
  OBVIOUS
<1>2. Add(Open(a), fed) = [algo |-> a, fed |-> fed, open |-> TRUE]
  BY <1>1 DEF Add, Open
<1>3. [algo |-> a, fed |-> fed, open |-> TRUE].algo = a /\ [algo |-> a, fed |-> fed, open |-> TRUE].fed = fed
  OBVIOUS
<1> QED
  BY <1>2, <1>3 DEF Close, Digest

LEMMA DigestOfTwo ==
  ASSUME NEW a, NEW S, NEW x \in Seq(S), NEW T, NEW y \in Seq(T)
  PROVE  Close(Add(Add(Open(a), x), y)) = Digest(a, x \o y)
<1>1. << >> \o x = x
  OBVIOUS
<1>2. Add(Open(a), x) = [algo |-> a, fed |-> x, open |-> TRUE]
  BY <1>1 DEF Add, Open
<1> DEFINE z == x \o y
<1>3. Add([algo |-> a, fed |-> x, open |-> TRUE], y) = [algo |-> a, fed |-> z, open |-> TRUE]
  BY DEF Add
<1> HIDE DEF z
<1>4. Close([algo |-> a, fed |-> z, open |-> TRUE]) = Digest(a, z)
  <2>1. [algo |-> a, fed |-> z, open |-> TRUE].algo = a /\ [algo |-> a, fed |-> z, open |-> TRUE].fed = z
    OBVIOUS
  <2> QED
    BY <2>1 DEF Close, Digest
<1> QED
  BY <1>2, <1>3, <1>4 DEF z

\* KSI_HMAC_create is the HMAC of RFC 2104.
LEMMA HmacIs ==
  ASSUME NEW a \in Algorithms, InputBlock[a] = BlockLen,
         NEW key, key \in Seq(ToSet(key)), NEW data, data \in Seq(ToSet(data))
  PROVE  Hmac(a, key, data) = Rfc2104(a, key, data)
<1> DEFINE k == BlockKey(Open(a), key)
           K == IF Len(key) > BlockLen THEN Bytes([algo |-> a, fed |-> key]) ELSE key
<1>1. Reset(k.hasher) = Open(a) /\ k.bytes = K
  <2>1. CASE Len(key) <= BlockLen
    <3>1. k = [hasher |-> Open(a), bytes |-> key] /\ ~(Len(key) > BlockLen)
      BY <2>1, LengthsAssumption DEF BlockKey
    <3> QED
      BY <3>1, ResetIsOpen
  <2>2. CASE ~(Len(key) <= BlockLen)
    <3>1. Close(Add(Open(a), key)) = Digest(a, key)
      BY DigestIs
    <3>2. k = [hasher |-> Rested(a), bytes |-> Bytes([algo |-> a, fed |-> key])] /\ Len(key) > BlockLen
      BY <2>2, <3>1, LengthsAssumption DEF BlockKey, Digest
    <3> QED
      BY <3>2, ResetIsOpen
  <2> QED
    BY <2>1, <2>2
<1> HIDE DEF k, K
<1> DEFINE ipad == Block("ipad", K)
           opad == Block("opad", K)
           inner == [algo |-> a, fed |-> ipad \o data]
<1>2. /\ \E S : ipad \in Seq(S)
      /\ \E S : opad \in Seq(S)
      /\ \E S : Bytes(inner) \in Seq(S)
  <2>1. ASSUME NEW pad
        PROVE  Block(pad, K) \in Seq({Block(pad, K)[i] : i \in 1 .. BlockLen})
    <3> DEFINE f == Block(pad, K)
    <3>1. f = [i \in 1 .. BlockLen |-> f[i]]
      BY DEF Block, Padded
    <3>2. BlockLen \in Nat
      BY LengthsAssumption
    <3> DEFINE S == {f[i] : i \in 1 .. BlockLen}
    <3> HIDE DEF f
    <3>3. \A i \in 1 .. BlockLen : f[i] \in S
      OBVIOUS
    <3> HIDE DEF S
    <3>4. f \in [1 .. BlockLen -> S]
      BY <3>1, <3>3
    <3>5. f \in Seq(S)
      BY <3>2, <3>4
    <3> QED
      BY <3>5 DEF S, f
  <2>2. DigestLen[inner.algo] \in Nat
    BY LengthsAssumption
  <2>3. Bytes(inner) \in Seq({[of |-> inner, nr |-> i] : i \in 1 .. DigestLen[inner.algo]})
    <3> DEFINE n == DigestLen[inner.algo]
               B(i) == [of |-> inner, nr |-> i]
               S == {B(i) : i \in 1 .. n}
    <3>1. Bytes(inner) = [i \in 1 .. n |-> B(i)]
      BY DEF Bytes
    <3> HIDE DEF inner, B, n
    <3>2. \A i \in 1 .. n : B(i) \in S
      OBVIOUS
    <3> HIDE DEF S
    <3>3. [i \in 1 .. n |-> B(i)] \in [1 .. n -> S]
      BY <3>2
    <3>4. n \in Nat
      BY <2>2 DEF n
    <3>5. Bytes(inner) \in Seq(S)
      BY <3>1, <3>3, <3>4
    <3> QED
      BY <3>5 DEF S, B, n
  <2> HIDE DEF ipad, opad, inner
  <2> QED
    BY <2>1, <2>3 DEF ipad, opad
<1> HIDE DEF ipad, opad
<1>3. Close(Add(Add(Open(a), ipad), data)) = Digest(a, ipad \o data)
  BY <1>2, DigestOfTwo
<1>4. Close(Add(Add(Open(a), opad), Bytes(inner))) = Digest(a, opad \o Bytes(inner))
  <2> HIDE DEF inner
  <2> QED
    BY <1>2, DigestOfTwo
<1>5. Digest(a, ipad \o data).hash = inner /\ Digest(a, ipad \o data).hasher = Rested(a)
  BY DEF Digest
<1>6. Hmac(a, key, data) = [algo |-> a, fed |-> opad \o Bytes(inner)]
  <2> DEFINE i == Close(Add(Add(Reset(k.hasher), ipad), data))
             o == Close(Add(Add(Reset(i.hasher), opad), Bytes(i.hash)))
  <2>1. Hmac(a, key, data) = o.hash
    BY <1>1 DEF Hmac, k, ipad, opad
  <2>2. i.hash = inner /\ i.hasher = Rested(a)
    BY <1>1, <1>3, <1>5
  <2> HIDE DEF i, inner
  <2>3. o = Digest(a, opad \o Bytes(inner))
    BY <1>4, <2>2, ResetIsOpen
  <2> HIDE DEF o
  <2> QED
    BY <2>1, <2>3 DEF Digest
<1>7. Rfc2104(a, key, data) = [algo |-> a, fed |-> opad \o Bytes(inner)]
  BY DEF Rfc2104, opad, ipad, K, Block
<1> QED
  BY <1>6, <1>7

-----------------------------------------------------------------------------
(* Result codes.                                                           *)

Utf8Turn(b, f, i) ==
  IF i > Len(b) THEN "OK"
  ELSE LET n == Continuations(b[i])
       IN  IF (b[i] = NUL /\ i # Len(b)) \/ b[i] \in {"continuation", "other"} THEN "INVALID_FORMAT"
           ELSE IF i + n > Len(b) THEN "BUFFER_OVERFLOW"
           ELSE IF \E j \in i + 1 .. i + n : b[j] # "continuation" THEN "INVALID_FORMAT"
           ELSE f[i + n + 1]

\* A turn looks only at what lies behind it.
LEMMA Utf8TurnAhead ==
  ASSUME NEW b, Len(b) \in Nat, NEW i \in 1 .. Len(b), NEW f, NEW g,
         \A k \in i + 1 .. Len(b) + 1 : g[k] = f[k]
  PROVE  /\ Utf8Turn(b, g, i) = Utf8Turn(b, f, i)
         /\ \/ Utf8Turn(b, f, i) \in Codes
            \/ \E k \in i + 1 .. Len(b) + 1 : Utf8Turn(b, f, i) = f[k]
<1> DEFINE n == Continuations(b[i])
           k == i + n + 1
<1>1. n \in 0 .. 3
  BY DEF Continuations
<1> HIDE DEF n
<1>2. i + n <= Len(b) => k \in i + 1 .. Len(b) + 1
  BY <1>1
<1>3. i + n <= Len(b) => g[k] = f[k]
  BY <1>2
<1>4. i + n <= Len(b) <=> ~(i + n > Len(b))
  BY <1>1
<1>5. ~(i > Len(b))
  OBVIOUS
<1> HIDE DEF k
<1> DEFINE wrong == (b[i] = NUL /\ i # Len(b)) \/ b[i] \in {"continuation", "other"}
           short == i + n > Len(b)
           broken == \E j \in i + 1 .. i + n : b[j] # "continuation"
           T(h) == IF wrong THEN "INVALID_FORMAT" ELSE IF short THEN "BUFFER_OVERFLOW"
                   ELSE IF broken THEN "INVALID_FORMAT" ELSE h[k]
<1>6. Utf8Turn(b, g, i) = T(g) /\ Utf8Turn(b, f, i) = T(f)
  BY <1>5 DEF Utf8Turn, n, k
<1> HIDE DEF wrong, broken
<1>7. T(g) = T(f) /\ (T(f) \in Codes \/ (k \in i + 1 .. Len(b) + 1 /\ T(f) = f[k]))
  BY <1>2, <1>3, <1>4 DEF Codes
<1> HIDE DEF T
<1> QED
  BY <1>6, <1>7

LEMMA Utf8Exists ==
  ASSUME NEW b, Len(b) \in Nat
  PROVE  \E f : f = [i \in 1 .. Len(b) + 1 |-> Utf8Turn(b, f, i)]
<1> DEFINE n == Len(b)
           Fits(k, f) == f = [i \in n + 1 - k .. n + 1 |-> Utf8Turn(b, f, i)]
           G == {k \in 0 .. n : \E f : Fits(k, f)}
<1>1. 0 \in G
  <2> DEFINE f == [i \in n + 1 - 0 .. n + 1 |-> "OK"]
  <2>1. \A i \in n + 1 - 0 .. n + 1 : Utf8Turn(b, f, i) = "OK"
    BY DEF Utf8Turn
  <2>2. Fits(0, f)
    BY <2>1
  <2>3. 0 \in 0 .. n
    OBVIOUS
  <2> HIDE DEF f, Fits, n
  <2> QED
    BY <2>2, <2>3
<1>2. ASSUME NEW k \in 0 .. n - 1, k \in G PROVE k + 1 \in G
  <2>1. PICK f : Fits(k, f)
    BY <1>2
  <2> DEFINE p == n - k
             x == Utf8Turn(b, f, p)
             g == [i \in p .. n + 1 |-> IF i = p THEN x ELSE f[i]]
  <2>2. p \in 1 .. n /\ n + 1 - k = p + 1 /\ n + 1 - (k + 1) = p /\ k + 1 \in 0 .. n /\ p \in Nat
        /\ n \in Nat
    OBVIOUS
  <2>3. \A i \in p + 1 .. n + 1 : f[i] = Utf8Turn(b, f, i)
    <3>1. f = [i \in p + 1 .. n + 1 |-> Utf8Turn(b, f, i)]
      BY <2>1, <2>2
    <3> HIDE DEF p
    <3> QED
      BY <3>1
  <2> HIDE DEF x, p, n
  <2>4. (\A i \in p + 1 .. n + 1 : g[i] = f[i]) /\ g[p] = x /\ g = [i \in p .. n + 1 |-> g[i]]
    BY <2>2
  <2> HIDE DEF g
  <2>5. ASSUME NEW i \in p .. n + 1 PROVE g[i] = Utf8Turn(b, g, i)
    <3>1. CASE i = n + 1
      <4>1. i \in p + 1 .. n + 1 /\ i > Len(b)
        BY <2>2, <3>1 DEF n
      <4>2. Utf8Turn(b, f, i) = "OK" /\ Utf8Turn(b, g, i) = "OK"
        BY <4>1 DEF Utf8Turn
      <4> QED
        BY <4>1, <4>2, <2>3, <2>4
    <3>2. CASE i # n + 1
      <4>1. i \in 1 .. n /\ \A m \in i + 1 .. n + 1 : m \in p + 1 .. n + 1
        BY <2>2, <3>2 DEF n
      <4>2. \A m \in i + 1 .. n + 1 : g[m] = f[m]
        BY <4>1, <2>4
      <4>3. Utf8Turn(b, g, i) = Utf8Turn(b, f, i)
        BY <4>1, <4>2, Utf8TurnAhead DEF n
      <4>4. CASE i = p
        BY <4>3, <4>4, <2>4 DEF x
      <4>5. CASE i # p
        <5>1. i \in p + 1 .. n + 1
          BY <4>5, <2>2 DEF n
        <5> QED
          BY <5>1, <4>3, <2>3, <2>4
      <4> QED
        BY <4>4, <4>5
    <3> QED
      BY <3>1, <3>2
  <2>6. g = [i \in p .. n + 1 |-> Utf8Turn(b, g, i)]
    BY <2>4, <2>5
  <2>7. Fits(k + 1, g)
    BY <2>2, <2>6
  <2> HIDE DEF Fits
  <2> QED
    BY <2>2, <2>7
<1>3. n \in 0 .. n /\ n \in Nat /\ n + 1 - n = 1
  OBVIOUS
<1> HIDE DEF G, Fits, n
<1>4. n \in G
  BY <1>1, <1>2, <1>3, Induction
<1>5. PICK f : Fits(n, f)
  BY <1>4 DEF G
<1>6. f = [i \in 1 .. n + 1 |-> Utf8Turn(b, f, i)]
  BY <1>3, <1>5 DEF Fits
<1> QED
  BY <1>6 DEF n

LEMMA Utf8Codes ==
  ASSUME NEW b, Len(b) \in Nat
  PROVE  VerifyUtf8(b) \in Codes
<1> DEFINE n == Len(b)
           P(f) == f = [i \in 1 .. n + 1 |-> Utf8Turn(b, f, i)]
           h == CHOOSE f : P(f)
<1>1. VerifyUtf8(b) = h[1]
  BY DEF VerifyUtf8, Utf8Turn
<1>2. P(h)
  <2>1. \E f : P(f)
    BY Utf8Exists
  <2> HIDE DEF P
  <2> QED
    BY <2>1
<1> HIDE DEF h
<1>3. \A i \in 1 .. n + 1 : h[i] = Utf8Turn(b, h, i)
  BY <1>2
<1> DEFINE G == {k \in 0 .. n : \A i \in n + 1 - k .. n + 1 : h[i] \in Codes}
<1>4. 0 \in G
  <2>1. h[n + 1] = "OK"
    BY <1>3 DEF Utf8Turn
  <2> QED
    BY <2>1 DEF Codes
<1>5. ASSUME NEW k \in 0 .. n - 1, k \in G PROVE k + 1 \in G
  <2> DEFINE p == n - k
  <2>1. p \in 1 .. n /\ n + 1 - k = p + 1 /\ n + 1 - (k + 1) = p /\ k + 1 \in 0 .. n
    OBVIOUS
  <2>2. \A i \in p + 1 .. n + 1 : h[i] \in Codes
    BY <1>5, <2>1
  <2>3. h[p] = Utf8Turn(b, h, p)
    BY <1>3, <2>1
  <2> HIDE DEF p
  <2>4. Utf8Turn(b, h, p) \in Codes \/ \E m \in p + 1 .. n + 1 : Utf8Turn(b, h, p) = h[m]
    BY <2>1, Utf8TurnAhead
  <2>5. h[p] \in Codes
    BY <2>2, <2>3, <2>4
  <2>6. \A i \in p .. n + 1 : i = p \/ i \in p + 1 .. n + 1
    BY <2>1
  <2> QED
    BY <2>1, <2>2, <2>5, <2>6
<1>6. n \in 0 .. n /\ n \in Nat /\ 1 \in n + 1 - n .. n + 1
  OBVIOUS
<1> HIDE DEF G, n
<1>7. n \in G
  BY <1>4, <1>5, <1>6, Induction
<1> QED
  BY <1>1, <1>6, <1>7 DEF G

LEMMA ErrorCodes ==
  ASSUME NEW j \in Jobs
  PROVE  /\ HmacError(j.algo, j.key, j.data) \in Codes
         /\ IdentityError(j.links) \in Codes
         /\ j.op = "value" => ReadError(j.kind, j.payload) \in Codes
<1>1. HmacError(j.algo, j.key, j.data) \in Codes
  BY DEF HmacError, Codes
<1>2. IdentityError(j.links) \in Codes
  BY DEF IdentityError, Codes
<1>3. ASSUME j.op = "value" PROVE ReadError(j.kind, j.payload) \in Codes
  <2> DEFINE b == j.payload
  <2>1. j.kind \in Kinds /\ Len(b) \in Nat
    BY <1>3, JobsAssumption
  <2> HIDE DEF b
  <2>2. IntegerError(b) \in Codes
    BY DEF IntegerError, Codes
  <2>3. Utf8Error(b) \in Codes
    BY <2>1, Utf8Codes DEF Utf8Error, Codes
  <2>4. Utf8NzError(b) \in Codes
    BY <2>3 DEF Utf8NzError, Codes
  <2>5. ImprintError(b) \in Codes
    BY DEF ImprintError, Codes
  <2>6. "OK" \in Codes
    BY DEF Codes
  <2>7. ReadError(j.kind, b) \in Codes
    BY <2>1, <2>2, <2>3, <2>4, <2>5, <2>6 DEF ReadError, Kinds
  <2> QED
    BY <2>7 DEF b
<1> QED
  BY <1>1, <1>2, <1>3

-----------------------------------------------------------------------------
(* The inductive invariant.                                                *)

IsChain(j) == j.op \in {"aggregation", "calendar"}

\* The chains whose computation is defined: an int holds their levels.
Modest(j) == IsChain(j) /\ (j.op = "aggregation" => InRange(j.links))

\* The algorithm all hashes of a chain are computed under.
Lead(j) == IF j.op = "calendar" THEN AlgoAt(j, 1) ELSE j.algo
LeadHashes(j) == Hashes(j, LevelsOf(j), [i \in 1 .. Len(j.links) |-> Lead(j)])

\* What an aggregation chain must be for its computation to succeed.
Passes(j) ==
  /\ \A i \in 1 .. Len(j.links) : j.links[i].content # "none"
  /\ Levels(j)[Len(j.links)] <= LevelMax /\ j.algo \in Supported

\* The types, and what is not touched by calls of another kind.
StateInv ==
  /\ job \in Jobs \cup {None} /\ (job = None <=> res = "idle")
  /\ res \in {"idle", "running", "NOT_WRITTEN"} \cup Codes
  /\ job = None => done = 0 /\ hsr = None /\ time = 0 /\ output = None
  /\ done \in Nat /\ (job # None => done <= Len(job.links))
  /\ level \in Int /\ -(IntRange \div 2) <= level /\ level <= LevelMax
  /\ algo \in Algorithms \cup {None}
  /\ hsr \in Closed \cup {None}
  /\ hsr # None => hsh.algo = hsr.algo /\ IsChain(job)
  /\ output # None => job # None /\ job.op \in {"identity", "value"} /\ res = "OK"

\* The leaves still to be told apart lie behind the time found so far, and none
\* is behind the latest a time_t can tell.
TimeInv ==
  /\ span \in Int /\ time \in Nat /\ time < Pow2[TimeBits - 1]
  /\ span > 0 => time + span < Pow2[TimeBits - 1]

\* After so many links: the level and the hash are those the chain defines there.
LoopInv ==
  job # None /\ Modest(job) =>
    /\ level = (IF job.op = "calendar" THEN LevelMax ELSE Levels(job)[done])
    /\ done = 0 <=> hsr = None
    /\ done = 0 => algo = (IF job.op = "calendar" THEN job.inputAlgo ELSE job.algo)
    /\ job.op = "aggregation" => algo = job.algo
    /\ done > 0 => /\ hsr = Rested(Lead(job)) /\ Lead(job) \in Supported
                   /\ hsh = LeadHashes(job)[done]
    /\ \A i \in 1 .. done : job.links[i].content # "none"

\* A call that succeeded has seen all links, one that failed had a reason.
ResultInv ==
  Returned /\ job # None /\ IsChain(job) =>
    /\ res = "OK" => done = Len(job.links)
    /\ res # "OK" /\ job.op = "aggregation" /\ InRange(job.links) => ~Passes(job)

ChainInv == StateInv /\ TimeInv /\ LoopInv /\ ResultInv /\ HmacAsDefined

LEMMA CombineType ==
  ASSUME NEW l, NEW h, NEW s, NEW n
  PROVE  Combine(l, h, s, n) \in Seq({h, s, n % (LevelMax + 1)})
<1> DEFINE b == n % (LevelMax + 1)
           S == {h, s, b}
<1>1. << h, s >> \in Seq(S) /\ << s, h >> \in Seq(S) /\ << b >> \in Seq(S)
  <2> HIDE DEF b
  <2> QED
    OBVIOUS
<1> HIDE DEF S
<1>2. ASSUME NEW x \in Seq(S) PROVE x \o << b >> \in Seq(S)
  <2> HIDE DEF b
  <2> QED
    BY <1>1
<1> QED
  BY <1>1, <1>2 DEF Combine, S

LEMMA HasherIs ==
  ASSUME hsr \in Closed \cup {None}
  PROVE  /\ Hasher = Open(Hasher.algo)
         /\ Hasher.algo = IF hsr = None THEN NextAlgo ELSE hsr.algo
<1>1. \A a : Open(a).algo = a
  BY DEF Open
<1> QED
  BY <1>1 DEF Hasher, Reset

\* A link that is taken.
LEMMA LinkTaken ==
  ASSUME StateInv, AggregateLink, LinkError = "OK"
  PROVE  /\ level' = NextLevel /\ algo' = NextAlgo /\ done' = done + 1
         /\ hsr' = Rested(Hasher.algo)
         /\ hsh' = [algo |-> Hasher.algo,
                    fed |-> Combine(Link, Below, Sibling(job.links, done + 1), NextLevel)]
         /\ UNCHANGED <<job, span, time, output, res>>
         /\ Hasher.algo \in Supported /\ Link.content # "none" /\ ~(NextLevel > LevelMax)
<1> DEFINE fed == Combine(Link, Below, Sibling(job.links, done + 1), NextLevel)
           closed == Close(Add(Hasher, fed))
<1>1. /\ level' = NextLevel /\ algo' = NextAlgo /\ hsr' = closed.hasher /\ hsh' = closed.hash
      /\ done' = done + 1 /\ UNCHANGED <<job, span, time, output, res>>
  BY DEF AggregateLink
<1>2. \E S : fed \in Seq(S)
  <2> QED
    BY CombineType
<1> HIDE DEF fed
<1>3. closed = Digest(Hasher.algo, fed)
  BY <1>2, HasherIs, DigestIs DEF StateInv
<1>4. closed.hash = [algo |-> Hasher.algo, fed |-> fed] /\ closed.hasher = Rested(Hasher.algo)
  BY <1>3 DEF Digest
<1>5. Hasher.algo \in Supported /\ Link.content # "none" /\ ~(NextLevel > LevelMax)
  BY DEF LinkError
<1> QED
  BY <1>1, <1>4, <1>5 DEF fed

\* A link that is not.
LEMMA LinkRefused ==
  ASSUME AggregateLink, LinkError # "OK"
  PROVE  Return(LinkError)
BY DEF AggregateLink

LEMMA LinkCodes == LinkError \in Codes
BY DEF LinkError, Codes

LEMMA RunningJob ==
  ASSUME StateInv, Running
  PROVE  job \in Jobs /\ job # None /\ output = None /\ ~Returned
<1>1. None \notin Jobs
  BY NullAssumption
<1> QED
  BY <1>1 DEF StateInv, Running, Returned

LEMMA ReturnKeeps ==
  ASSUME NEW code, Return(code)
  PROVE  res' = code /\ UNCHANGED <<job, done, level, algo, hsr, hsh, span, time, output>>
BY DEF Return

LEMMA StateInit == Init => StateInv
BY LengthsAssumption, WidthAssumption DEF Init, StateInv, LevelMax

LEMMA StateReturns ==
  ASSUME StateInv, Running, NEW code \in Codes, Return(code)
  PROVE  StateInv'
<1>1. code \notin {"idle", "running"}
  BY DEF Codes
<1>2. job # None /\ output = None
  BY RunningJob
<1> QED
  BY <1>1, <1>2, ReturnKeeps DEF StateInv

LEMMA LevelType ==
  ASSUME StateInv, Running, IsChain(job), done < Len(job.links), ~(NextLevel > LevelMax)
  PROVE  NextLevel \in Int /\ -(IntRange \div 2) <= NextLevel /\ NextLevel <= LevelMax
<1>1. job \in Jobs /\ level \in Int
  BY RunningJob DEF StateInv
<1>2. CASE job.op = "calendar"
  BY <1>2 DEF StateInv, NextLevel
<1>3. CASE job.op # "calendar"
  <2>1. done + 1 \in 1 .. Len(job.links) /\ job.op = "aggregation"
    BY <1>1, <1>3, JobFacts DEF StateInv, IsChain
  <2>2. Link.correction \in Nat
    BY <1>1, <2>1, LinkFacts DEF Link
  <2> DEFINE c == ToInt(Link.correction)
  <2>3. c \in Int
    BY <2>2, ToIntType
  <2> HIDE DEF c
  <2>4. level + c + 1 \in Int
    BY <1>1, <2>3
  <2> DEFINE n == ToInt(level + c + 1)
  <2>5. n \in Int /\ -(IntRange \div 2) <= n
    BY <2>4, ToIntType
  <2>6. NextLevel = n
    BY <1>3 DEF NextLevel, c
  <2> HIDE DEF n
  <2>7. LevelMax \in Nat
    BY LengthsAssumption DEF LevelMax
  <2> QED
    BY <2>5, <2>6, <2>7
<1> QED
  BY <1>2, <1>3

LEMMA AlgoType ==
  ASSUME StateInv, Running, IsChain(job), done < Len(job.links)
  PROVE  NextAlgo \in Algorithms \cup {None}
<1>1. job \in Jobs
  BY RunningJob
<1>2. done + 1 \in 1 .. Len(job.links)
  BY <1>1, JobFacts DEF StateInv
<1>3. Link.algo \in Algorithms
  BY <1>1, <1>2, LinkFacts DEF Link, IsChain
<1> QED
  BY <1>3 DEF NextAlgo, StateInv

LEMMA StateLink ==
  ASSUME StateInv, AggregateLink
  PROVE  StateInv'
<1>1. Running /\ IsChain(job) /\ done < Len(job.links)
  BY DEF AggregateLink, IsChain
<1>2. CASE LinkError # "OK"
  BY <1>1, <1>2, LinkRefused, LinkCodes, StateReturns
<1>3. CASE LinkError = "OK"
  <2>1. job \in Jobs /\ job # None /\ output = None
    BY <1>1, RunningJob
  <2>2. Len(job.links) \in Nat
    BY <2>1, JobFacts
  <2>3. /\ level' = NextLevel /\ algo' = NextAlgo /\ done' = done + 1
        /\ hsr' = Rested(Hasher.algo) /\ hsh'.algo = Hasher.algo
        /\ UNCHANGED <<job, span, time, output, res>>
        /\ Hasher.algo \in Supported /\ ~(NextLevel > LevelMax)
    BY <1>3, LinkTaken
  <2>4. level' \in Int /\ -(IntRange \div 2) <= level' /\ level' <= LevelMax
    BY <1>1, <2>3, LevelType
  <2>5. algo' \in Algorithms \cup {None}
    BY <1>1, <2>3, AlgoType
  <2>6. hsr' \in Closed /\ hsr'.algo = Hasher.algo
    BY <2>3, ResetIsOpen DEF Closed
  <2>7. done' \in Nat /\ done' <= Len(job.links)
    BY <1>1, <2>2, <2>3 DEF StateInv
  <2>8. res' = res /\ job' = job /\ output' = None /\ IsChain(job')
    BY <1>1, <2>1, <2>3
  <2> QED
    BY <2>1, <2>3, <2>4, <2>5, <2>6, <2>7, <2>8 DEF StateInv
<1> QED
  BY <1>2, <1>3

LEMMA StateTime ==
  ASSUME StateInv, TimeInv, TimeLink
  PROVE  StateInv'
<1>1. Running /\ job.op = "time" /\ done < Len(job.links)
  BY DEF TimeLink
<1>2. CASE span <= 0
  <2>1. Return("INVALID_FORMAT") /\ "INVALID_FORMAT" \in Codes
    BY <1>2 DEF TimeLink, Codes
  <2> QED
    BY <1>1, <2>1, StateReturns
<1>3. CASE ~(span <= 0)
  <2>1. done' = done + 1 /\ UNCHANGED <<job, level, algo, hsr, hsh, output, res>>
    BY <1>3 DEF TimeLink
  <2>2. job \in Jobs /\ job # None
    BY <1>1, RunningJob
  <2>3. done' \in Nat /\ done' <= Len(job.links)
    BY <1>1, <2>1, <2>2, JobFacts DEF StateInv
  <2> QED
    BY <2>1, <2>2, <2>3 DEF StateInv
<1> QED
  BY <1>2, <1>3

LEMMA StateStep ==
  ASSUME StateInv, TimeInv, [Next]_vars
  PROVE  StateInv'
<1>1. CASE AggregateLink
  BY <1>1, StateLink
<1>2. CASE AggregateEnd
  <2>1. Running /\ Return("OK") /\ "OK" \in Codes
    BY <1>2 DEF AggregateEnd, Codes
  <2> QED
    BY <2>1, StateReturns
<1>3. CASE TimeLink
  BY <1>3, StateTime
<1>4. CASE TimeEnd
  <2>1. /\ Running /\ Return(IF done = 0 \/ span # 0 THEN "INVALID_FORMAT" ELSE "OK")
        /\ (IF done = 0 \/ span # 0 THEN "INVALID_FORMAT" ELSE "OK") \in Codes
    BY <1>4 DEF TimeEnd, Codes
  <2> QED
    BY <2>1, StateReturns
<1>5. CASE Authenticate
  <2>1. Running /\ job.op = "hmac" /\ res' = HmacError(job.algo, job.key, job.data)
        /\ UNCHANGED <<job, done, level, algo, hsr, span, time, output>>
    BY <1>5 DEF Authenticate
  <2>2. job \in Jobs /\ job # None /\ output = None
    BY <2>1, RunningJob
  <2>3. res' \in Codes /\ res' # "idle" /\ hsr = None
    BY <2>1, <2>2, ErrorCodes DEF StateInv, IsChain, Codes
  <2> QED
    BY <2>1, <2>2, <2>3 DEF StateInv
<1>6. CASE Identify
  <2>1. /\ Running /\ job.op = "identity" /\ res' = IdentityError(job.links)
        /\ output' # None => res' = "OK"
        /\ UNCHANGED <<job, done, level, algo, hsr, hsh, span, time>>
    BY <1>6 DEF Identify
  <2>2. job \in Jobs /\ job # None
    BY <2>1, RunningJob
  <2>3. res' \in Codes /\ res' # "idle"
    BY <2>1, <2>2, ErrorCodes DEF Codes
  <2> QED
    BY <2>1, <2>2, <2>3 DEF StateInv
<1>7. CASE Convert
  <2>1. /\ Running /\ job.op = "value"
        /\ res' \in {ReadError(job.kind, job.payload), "NOT_WRITTEN", "OK"}
        /\ output' # None => res' = "OK"
        /\ UNCHANGED <<job, done, level, algo, hsr, hsh, span, time>>
    BY <1>7 DEF Convert
  <2>2. job \in Jobs /\ job # None
    BY <2>1, RunningJob
  <2>3. res' \in {"NOT_WRITTEN"} \cup Codes /\ res' # "idle"
    BY <2>1, <2>2, ErrorCodes DEF Codes
  <2> QED
    BY <2>1, <2>2, <2>3 DEF StateInv
<1>8. CASE Call
  <2>1. PICK j \in Jobs :
          /\ job' = j /\ res' = "running"
          /\ level' = (IF j.op = "calendar" THEN LevelMax ELSE j.start)
          /\ algo' = (IF j.op = "calendar" THEN j.inputAlgo ELSE j.algo)
          /\ UNCHANGED <<done, hsr, hsh, time, output>>
    BY <1>8 DEF Call
  <2>2. job = None /\ done = 0 /\ hsr = None /\ output = None
    BY <1>8 DEF Call, StateInv
  <2>3. j # None
    BY NullAssumption
  <2>4. level' \in Int /\ -(IntRange \div 2) <= level' /\ level' <= LevelMax
    <3>1. LevelMax \in Nat /\ IntRange \div 2 \in Nat
      BY LengthsAssumption, WidthAssumption DEF LevelMax
    <3>2. j.start \in Nat /\ j.start <= LevelMax
      BY <3>1, JobFacts
    <3> QED
      BY <2>1, <3>1, <3>2
  <2>5. algo' \in Algorithms
    BY <2>1, JobFacts
  <2>6. 0 <= Len(j.links)
    BY JobFacts
  <2> QED
    BY <2>1, <2>2, <2>3, <2>4, <2>5, <2>6 DEF StateInv
<1>9. CASE Leave
  BY <1>9, LengthsAssumption, WidthAssumption DEF Leave, StateInv, LevelMax
<1>10. CASE UNCHANGED vars
  BY <1>10 DEF vars, StateInv
<1> QED
  BY <1>1, <1>2, <1>3, <1>4, <1>5, <1>6, <1>7, <1>8, <1>9, <1>10 DEF Next, Compute

-----------------------------------------------------------------------------
(* The time stays within what a time_t can tell.                           *)

LEMMA HalfIsPositive ==
  LET p == Pow2[TimeBits - 1] IN p \in Nat /\ p > 0 /\ Pow2[TimeBits] = 2 * p
<1>1. TimeBits \in Nat /\ TimeBits - 1 \in 0 .. TimeBits - 1 /\ TimeBits - 1 + 1 = TimeBits
  BY WidthAssumption
<1> DEFINE G == {k \in 0 .. TimeBits : Pow2[k] \in Nat /\ Pow2[k] > 0}
<1>2. 0 \in G
  BY <1>1, Pow2Unfolds
<1>3. ASSUME NEW k \in 0 .. TimeBits - 1, k \in G PROVE k + 1 \in G
  <2>1. k + 1 \in 0 .. TimeBits /\ Pow2[k + 1] = 2 * Pow2[k]
    BY <1>1, Pow2Unfolds
  <2> QED
    BY <1>3, <2>1
<1> HIDE DEF G
<1>4. TimeBits - 1 \in G
  BY <1>1, <1>2, <1>3, Induction
<1>5. Pow2[TimeBits - 1 + 1] = 2 * Pow2[TimeBits - 1]
  BY <1>1, Pow2Unfolds
<1> QED
  BY <1>1, <1>4, <1>5 DEF G

LEMMA TimeInit == Init => TimeInv
BY HalfIsPositive DEF Init, TimeInv

LEMMA TimeCall ==
  ASSUME StateInv, Call
  PROVE  TimeInv'
<1> DEFINE p == Pow2[TimeBits - 1]
<1>1. p \in Nat /\ p > 0 /\ Pow2[TimeBits] = 2 * p
  BY HalfIsPositive
<1>2. PICK j \in Jobs : span' = ToTime(j.pubTime) /\ time' = time
  BY DEF Call
<1>3. time = 0
  BY DEF Call, StateInv
<1>4. j.pubTime \in 0 .. 2 * p - 1
  BY <1>1, JobFacts
<1>5. span' = IF j.pubTime >= p THEN j.pubTime - 2 * p ELSE j.pubTime
  BY <1>1, <1>2 DEF ToTime
<1> HIDE DEF p
<1>6. span' \in Int /\ (span' > 0 => span' < p)
  BY <1>1, <1>4, <1>5
<1> QED
  BY <1>1, <1>2, <1>3, <1>6 DEF TimeInv, p

LEMMA TimeStep ==
  ASSUME StateInv, TimeInv, [Next]_vars
  PROVE  TimeInv'
<1>1. CASE TimeLink /\ ~(span <= 0)
  <2> DEFINE h == HighBit(span)
             p == Pow2[TimeBits - 1]
             left == job.links[Len(job.links) - done].isLeft
  <2>1. IF left THEN span' = h - 1 /\ UNCHANGED time ELSE time' = time + h /\ span' = span - h
    BY <1>1 DEF TimeLink, Descend
  <2>2. span \in Nat /\ span > 0 /\ time + span < p /\ time \in Nat /\ p \in Nat
    BY <1>1, HalfIsPositive DEF TimeInv
  <2>3. span < p
    BY <2>2
  <2> HIDE DEF h, left
  <2>4. h \in 1 .. span
    BY <2>2, <2>3, HighBitFits DEF h
  <2>5. span' \in Int /\ time' \in Nat /\ time' < p /\ (span' > 0 => time' + span' < p)
    <3> HIDE DEF p
    <3>1. CASE left
      BY <2>1, <2>2, <2>4, <3>1
    <3>2. CASE ~left
      BY <2>1, <2>2, <2>4, <3>2
    <3> QED
      BY <3>1, <3>2
  <2> QED
    BY <2>5 DEF TimeInv
<1>2. CASE TimeLink /\ span <= 0
  BY <1>2, ReturnKeeps DEF TimeLink, TimeInv
<1>3. CASE Call
  BY <1>3, TimeCall
<1>4. CASE Leave
  BY <1>4, HalfIsPositive DEF Leave, TimeInv
<1>5. CASE AggregateLink
  <2>1. UNCHANGED <<span, time>>
    BY <1>5, LinkTaken, LinkRefused, ReturnKeeps
  <2> QED
    BY <2>1 DEF TimeInv
<1>6. CASE AggregateEnd \/ TimeEnd
  <2>1. UNCHANGED <<span, time>>
    BY <1>6, ReturnKeeps DEF AggregateEnd, TimeEnd
  <2> QED
    BY <2>1 DEF TimeInv
<1>7. CASE Authenticate \/ Identify \/ Convert \/ UNCHANGED vars
  <2>1. UNCHANGED <<span, time>>
    BY <1>7 DEF Authenticate, Identify, Convert, vars
  <2> QED
    BY <2>1 DEF TimeInv
<1> QED
  BY <1>1, <1>2, <1>3, <1>4, <1>5, <1>6, <1>7 DEF Next, Compute

-----------------------------------------------------------------------------
(* The nodes of the calendar tree.                                         *)

\* A node of a level, before it is cut a block of 2^k leaves.
At(n, k, p) ==
  /\ k \in 0 .. TimeBits /\ n.lo \in 0 .. p /\ n.lo % Pow2[k] = 0
  /\ n = Node(n.lo, k, p)

LEMMA AtIs ==
  ASSUME NEW p \in Nat, NEW n, NEW k, At(n, k, p)
  PROVE  /\ n.lo \in Nat /\ n.hi \in Nat /\ n.lo <= n.hi /\ n.hi <= p
         /\ n = [lo |-> n.lo, hi |-> n.hi] /\ n \in Nodes(p)
         /\ Pow2[k] \in Nat /\ Pow2[k] > 0 /\ n.lo % Pow2[k] = 0
         /\ n.hi <= n.lo + Pow2[k] - 1 /\ (n.hi = p \/ n.hi = n.lo + Pow2[k] - 1)
<1>1. k \in 0 .. TimeBits /\ n.lo \in 0 .. p /\ n.lo % Pow2[k] = 0 /\ n = Node(n.lo, k, p)
  BY DEF At
<1>2. Pow2[k] \in Nat /\ Pow2[k] > 0
  BY <1>1, Pow2Positive
<1>3. n \in Nodes(p)
  BY <1>1 DEF Nodes
<1>4. /\ n = [lo |-> n.lo, hi |-> n.hi]
      /\ n.hi = IF n.lo + Pow2[k] - 1 > p THEN p ELSE n.lo + Pow2[k] - 1
  <2> DEFINE a == n.lo
             b == IF a + Pow2[k] - 1 > p THEN p ELSE a + Pow2[k] - 1
  <2>1. n = [lo |-> a, hi |-> b]
    BY <1>1 DEF Node
  <2> HIDE DEF a, b
  <2>2. n.hi = b
    BY <2>1
  <2> QED
    BY <2>1, <2>2 DEF a, b
<1> DEFINE d == Pow2[k]
<1>5. d \in Nat /\ d > 0 /\ n.hi = IF n.lo + d - 1 > p THEN p ELSE n.lo + d - 1
  BY <1>2, <1>4
<1> HIDE DEF d
<1>6. n.lo \in Nat /\ n.hi \in Nat /\ n.lo <= n.hi /\ n.hi <= p /\ n.hi <= n.lo + d - 1
      /\ (n.hi = p \/ n.hi = n.lo + d - 1)
  BY <1>1, <1>5
<1> QED
  BY <1>1, <1>2, <1>3, <1>4, <1>6 DEF d

LEMMA NodeIsAt ==
  ASSUME NEW p \in Nat, NEW n \in Nodes(p)
  PROVE  \E k \in 0 .. TimeBits : At(n, k, p)
<1>1. PICK k \in 0 .. TimeBits, a \in 0 .. p : a % Pow2[k] = 0 /\ n = Node(a, k, p)
  BY DEF Nodes
<1>2. n.lo = a
  BY <1>1 DEF Node
<1> QED
  BY <1>1, <1>2 DEF At

LEMMA NodeIs ==
  ASSUME NEW p \in Nat, NEW n \in Nodes(p)
  PROVE  /\ n.lo \in Nat /\ n.hi \in Nat /\ n.lo <= n.hi /\ n.hi <= p
         /\ n = [lo |-> n.lo, hi |-> n.hi]
BY NodeIsAt, AtIs

LEMMA LeafIsNode ==
  ASSUME NEW p \in Nat, NEW t \in 0 .. p
  PROVE  [lo |-> t, hi |-> t] \in Nodes(p)
<1> DEFINE n == [lo |-> t, hi |-> t]
<1>1. Pow2[0] = 1 /\ 0 \in 0 .. TimeBits /\ t \in Nat /\ t <= p
  BY WidthAssumption, Pow2Unfolds
<1>2. t % 1 = 0
  BY <1>1, MultipleIs
<1>3. n.lo = t /\ n = Node(t, 0, p)
  BY <1>1 DEF Node
<1>4. At(n, 0, p)
  BY <1>1, <1>2, <1>3 DEF At
<1> QED
  BY <1>4, AtIs

LEMMA RootIsNode ==
  ASSUME NEW p \in Nat, p < Pow2[TimeBits]
  PROVE  Root(p) \in Nodes(p)
<1>1. TimeBits \in 0 .. TimeBits /\ Pow2[TimeBits] \in Nat /\ Pow2[TimeBits] > 0
  BY WidthAssumption, Pow2Positive
<1>2. 0 % Pow2[TimeBits] = 0
  BY <1>1, MultipleIs
<1> DEFINE d == Pow2[TimeBits]
<1>3. Root(p).lo = 0 /\ Root(p) = Node(0, TimeBits, p)
  <2>1. d \in Nat /\ p < d
    BY <1>1
  <2>2. (IF 0 + d - 1 > p THEN p ELSE 0 + d - 1) = p
    <3> HIDE DEF d
    <3> QED
      BY <2>1
  <2> QED
    BY <2>2 DEF Root, Node
<1>4. At(Root(p), TimeBits, p)
  BY <1>1, <1>2, <1>3 DEF At
<1> QED
  BY <1>4, AtIs

\* Of two nodes that share a leaf the one of the lower level lies in the other.
LEMMA Nested ==
  ASSUME NEW p \in Nat, NEW m, NEW n, NEW k \in 0 .. TimeBits, NEW j \in 0 .. k,
         At(m, j, p), At(n, k, p), m.lo <= n.hi, n.lo <= m.hi
  PROVE  n.lo <= m.lo /\ m.hi <= n.hi
<1> DEFINE d == Pow2[j]
           e == Pow2[k]
<1>1. /\ m.lo \in Nat /\ m.hi \in Nat /\ m.hi <= p /\ d \in Nat /\ d > 0 /\ m.lo % d = 0
      /\ m.hi <= m.lo + d - 1
  BY AtIs
<1>2. /\ n.lo \in Nat /\ n.hi \in Nat /\ e \in Nat /\ e > 0 /\ n.lo % e = 0
      /\ n.hi <= n.lo + e - 1 /\ (n.hi = p \/ n.hi = n.lo + e - 1)
  BY AtIs
<1>3. (n.lo + e) % e = 0 /\ n.lo + e \in Nat
  <2> DEFINE x == n.lo
  <2>1. x \in Nat /\ e \in Nat /\ e > 0 /\ x % e = 0
    BY <1>2
  <2> HIDE DEF e, x
  <2>2. (x + e) % e = 0
    BY <2>1, AlignedNext
  <2>3. x + e \in Nat
    BY <2>1
  <2> QED
    BY <2>2, <2>3 DEF x
<1>4. n.lo % d = 0 /\ (n.lo + e) % d = 0
  BY <1>2, <1>3, AlignedBelow
<1> HIDE DEF d, e
<1>5. n.lo <= m.lo
  <2> SUFFICES ASSUME m.lo < n.lo PROVE FALSE
    BY <1>1, <1>2
  <2>1. m.lo + d <= n.lo
    BY <1>1, <1>2, <1>4, AlignedGap
  <2> QED
    BY <1>1, <1>2, <2>1
<1>6. m.hi <= n.hi
  <2>1. CASE n.hi = p
    BY <1>1, <2>1
  <2>2. CASE n.hi = n.lo + e - 1
    <3>1. m.lo < n.lo + e
      BY <1>1, <1>2, <2>2
    <3>2. m.lo + d <= n.lo + e
      BY <1>1, <1>3, <1>4, <3>1, AlignedGap
    <3> QED
      BY <1>1, <1>2, <2>2, <3>2
  <2> QED
    BY <1>2, <2>1, <2>2
<1> QED
  BY <1>5, <1>6

LEMMA OneInTheOther ==
  ASSUME NEW p \in Nat, NEW m \in Nodes(p), NEW n \in Nodes(p), m.lo <= n.hi, n.lo <= m.hi
  PROVE  (n.lo <= m.lo /\ m.hi <= n.hi) \/ (m.lo <= n.lo /\ n.hi <= m.hi)
<1>1. PICK j \in 0 .. TimeBits : At(m, j, p)
  BY NodeIsAt
<1>2. PICK k \in 0 .. TimeBits : At(n, k, p)
  BY NodeIsAt
<1>3. j \in 0 .. k \/ k \in 0 .. j
  BY WidthAssumption
<1> QED
  BY <1>1, <1>2, <1>3, Nested

\* The node next above is the one that all others above lie above.
IsNext(m, n, p) ==
  /\ m \in Nodes(p) /\ Above(m, n)
  /\ \A o \in Nodes(p) : Above(o, n) => o = m \/ Above(o, m)

LEMMA NextIs ==
  ASSUME NEW p \in Nat, NEW n \in Nodes(p), NEW m, IsNext(m, n, p)
  PROVE  NextAbove(Nodes(p), n) = m
<1> DEFINE c == NextAbove(Nodes(p), n)
<1>1. c = CHOOSE x \in Nodes(p) : Above(x, n) /\ \A o \in Nodes(p) : Above(o, n) => o = x \/ Above(o, x)
  BY DEF NextAbove
<1>2. IsNext(c, n, p)
  <2> HIDE DEF c
  <2>1. \E x \in Nodes(p) : Above(x, n) /\ \A o \in Nodes(p) : Above(o, n) => o = x \/ Above(o, x)
    BY DEF IsNext
  <2>2. c \in Nodes(p) /\ Above(c, n) /\ \A o \in Nodes(p) : Above(o, n) => o = c \/ Above(o, c)
    BY <1>1, <2>1
  <2> QED
    BY <2>2 DEF IsNext
<1> HIDE DEF c
<1>3. m = c \/ (Above(m, c) /\ Above(c, m))
  BY <1>2 DEF IsNext
<1>4. m \in Nodes(p) /\ c \in Nodes(p)
  BY <1>2 DEF IsNext
<1>5. ASSUME Above(m, c), Above(c, m) PROVE m = c
  <2>1. m.lo = c.lo /\ m.hi = c.hi
    BY <1>4, <1>5, NodeIs DEF Above
  <2> QED
    BY <1>4, <2>1, NodeIs
<1> QED
  BY <1>3, <1>5 DEF c

\* There is such a node above every node but the root.
LEMMA NextExists ==
  ASSUME NEW p \in Nat, p < Pow2[TimeBits], NEW n \in Nodes(p), n # Root(p)
  PROVE  IsNext(NextAbove(Nodes(p), n), n, p)
<1> DEFINE over == {m \in Nodes(p) : Above(m, n)}
           sizes == {m.hi - m.lo : m \in over}
<1>1. Root(p) \in over
  <2>1. Root(p) \in Nodes(p)
    BY RootIsNode
  <2>2. Root(p).lo = 0 /\ Root(p).hi = p
    BY DEF Root
  <2>3. Above(Root(p), n)
    BY <2>2, NodeIs DEF Above
  <2> QED
    BY <2>1, <2>3
<1>2. sizes \subseteq Nat /\ sizes # {}
  <2>1. \A m \in over : m.hi - m.lo \in Nat
    BY NodeIs
  <2> HIDE DEF over
  <2> QED
    BY <1>1, <2>1
<1>3. PICK s \in sizes : \A r \in sizes : s <= r
  <2> HIDE DEF sizes
  <2> QED
    BY <1>2, LeastNumber
<1>4. PICK m \in over : s = m.hi - m.lo
  BY <1>3
<1>5. ASSUME NEW o \in Nodes(p), Above(o, n) PROVE o = m \/ Above(o, m)
  <2>1. m \in Nodes(p) /\ Above(m, n) /\ o \in over
    BY <1>4, <1>5
  <2>2. m.hi - m.lo <= o.hi - o.lo
    BY <1>3, <1>4, <2>1
  <2>3. o.lo <= m.hi /\ m.lo <= o.hi
    BY <1>5, <2>1, NodeIs DEF Above
  <2>4. (o.lo <= m.lo /\ m.hi <= o.hi) \/ (m.lo <= o.lo /\ o.hi <= m.hi)
    BY <2>1, <2>3, OneInTheOther
  <2>5. o.lo <= m.lo /\ m.hi <= o.hi
    BY <2>1, <2>2, <2>4, NodeIs
  <2> QED
    BY <2>5 DEF Above
<1>6. IsNext(m, n, p)
  BY <1>4, <1>5 DEF IsNext
<1> QED
  BY <1>6, NextIs

\* The two nodes below a node of more than one leaf: a complete one to the left, and
\* the remaining leaves to the right.
LeftOf(n) == [lo |-> n.lo, hi |-> n.lo + HighBit(n.hi - n.lo) - 1]
RightOf(n) == [lo |-> n.lo + HighBit(n.hi - n.lo), hi |-> n.hi]

\* The level c of the two halves, below that of the node.
Halved(n, c, e, p) ==
  /\ At(n, e, p) /\ c \in 0 .. e /\ c + 1 \in 0 .. e
  /\ HighBit(n.hi - n.lo) = Pow2[c]
  /\ Pow2[c] <= n.hi - n.lo /\ n.hi - n.lo < 2 * Pow2[c]

LEMMA HalvedIs ==
  ASSUME NEW p \in Nat, p < Pow2[TimeBits - 1], NEW n \in Nodes(p), n.lo < n.hi
  PROVE  \E c, e \in 0 .. TimeBits : Halved(n, c, e, p)
<1>1. PICK e \in 0 .. TimeBits : At(n, e, p)
  BY NodeIsAt
<1>2. n.lo \in Nat /\ n.hi \in Nat /\ n.hi <= p /\ Pow2[e] \in Nat /\ n.hi <= n.lo + Pow2[e] - 1
  BY <1>1, AtIs
<1> DEFINE s == n.hi - n.lo
<1>3. s \in Nat /\ s > 0 /\ s <= p
  BY <1>2
<1>4. s < Pow2[TimeBits - 1]
  BY <1>3, HalfIsPositive
<1>5. PICK c \in 0 .. TimeBits - 2 : HighBit(s) = Pow2[c] /\ Pow2[c] <= s /\ s < 2 * Pow2[c]
  <2> HIDE DEF s
  <2> QED
    BY <1>3, <1>4, HighBitIs
<1>6. c \in 0 .. TimeBits /\ c \in Nat /\ e \in Nat /\ Pow2[c] \in Nat
  BY WidthAssumption, Pow2Positive
<1>7. c < e
  <2> SUFFICES ASSUME e <= c PROVE FALSE
    BY <1>6
  <2>1. Pow2[e] <= Pow2[c]
    <3>1. CASE e = c
      BY <3>1, <1>6
    <3>2. CASE e < c
      <4>1. 2 * Pow2[e] <= Pow2[c]
        BY <1>6, <3>2, Pow2Grows
      <4> QED
        BY <1>2, <1>6, <4>1
    <3> QED
      BY <1>6, <3>1, <3>2
  <2> QED
    BY <1>2, <1>5, <1>6, <2>1
<1>8. c \in 0 .. e /\ c + 1 \in 0 .. e
  BY <1>6, <1>7
<1> QED
  BY <1>1, <1>5, <1>6, <1>8 DEF Halved

LEMMA HalvesAt ==
  ASSUME NEW p \in Nat, NEW n, NEW e \in 0 .. TimeBits, NEW c \in 0 .. TimeBits, Halved(n, c, e, p)
  PROVE  /\ At(LeftOf(n), c, p) /\ At(RightOf(n), c, p)
         /\ n.lo \in Nat /\ n.hi \in Nat /\ n.hi <= p /\ n = [lo |-> n.lo, hi |-> n.hi] /\ n \in Nodes(p)
         /\ LeftOf(n).lo = n.lo /\ LeftOf(n).hi = n.lo + Pow2[c] - 1
         /\ RightOf(n).lo = n.lo + Pow2[c] /\ RightOf(n).hi = n.hi
         /\ Pow2[c] \in Nat /\ Pow2[c] > 0 /\ Pow2[c] <= n.hi - n.lo /\ n.hi - n.lo < 2 * Pow2[c]
         /\ At(n, e, p) /\ c \in 0 .. e /\ c + 1 \in 0 .. e
<1> DEFINE d == Pow2[c]
<1>1. /\ At(n, e, p) /\ c \in 0 .. e /\ c + 1 \in 0 .. e /\ HighBit(n.hi - n.lo) = d
      /\ d <= n.hi - n.lo /\ n.hi - n.lo < 2 * d
  BY DEF Halved
<1>2. /\ n.lo \in Nat /\ n.hi \in Nat /\ n.lo <= n.hi /\ n.hi <= p /\ n.lo % Pow2[e] = 0
      /\ n = [lo |-> n.lo, hi |-> n.hi] /\ n \in Nodes(p)
      /\ Pow2[e] \in Nat /\ (n.hi = p \/ n.hi = n.lo + Pow2[e] - 1)
  BY <1>1, AtIs
<1>3. d \in Nat /\ d > 0
  BY <1>1, Pow2Positive
<1>4. n.lo % d = 0
  BY <1>1, <1>2, AlignedBelow
<1>5. (n.lo + d) % d = 0
  <2> HIDE DEF d
  <2> QED
    BY <1>2, <1>3, <1>4, AlignedNext
<1>6. 2 * d <= Pow2[e]
  BY <1>1, Pow2Grows
<1>7. LeftOf(n) = [lo |-> n.lo, hi |-> n.lo + d - 1] /\ RightOf(n) = [lo |-> n.lo + d, hi |-> n.hi]
  BY <1>1 DEF LeftOf, RightOf
<1> DEFINE w == Pow2[e]
<1>8. /\ (IF n.lo + d - 1 > p THEN p ELSE n.lo + d - 1) = n.lo + d - 1
      /\ (IF (n.lo + d) + d - 1 > p THEN p ELSE (n.lo + d) + d - 1) = n.hi
      /\ n.lo \in 0 .. p /\ n.lo + d \in 0 .. p
  <2>1. w \in Nat /\ 2 * d <= w /\ (n.hi = p \/ n.hi = n.lo + w - 1)
    BY <1>2, <1>6
  <2> HIDE DEF d, w
  <2> QED
    BY <1>1, <1>2, <1>3, <2>1
<1>9. LeftOf(n) = Node(n.lo, c, p) /\ RightOf(n) = Node(n.lo + d, c, p)
  BY <1>7, <1>8 DEF Node
<1>10. LeftOf(n).lo = n.lo /\ LeftOf(n).hi = n.lo + d - 1 /\ RightOf(n).lo = n.lo + d /\ RightOf(n).hi = n.hi
  BY <1>7
<1>11. At(LeftOf(n), c, p) /\ At(RightOf(n), c, p)
  BY <1>4, <1>5, <1>8, <1>9, <1>10 DEF At
<1> QED
  BY <1>1, <1>2, <1>3, <1>10, <1>11

\* A node of a higher level than the halves that reaches the node contains it.
LEMMA HigherContains ==
  ASSUME NEW p \in Nat, NEW n, NEW e \in 0 .. TimeBits, NEW c \in 0 .. TimeBits, Halved(n, c, e, p),
         NEW o, NEW j \in 0 .. TimeBits, At(o, j, p), c < j, o.lo <= n.hi, n.lo <= o.hi
  PROVE  o.lo <= n.lo /\ n.hi <= o.hi
<1> DEFINE d == Pow2[c + 1]
           w == Pow2[j]
<1>1. /\ n.lo \in Nat /\ n.hi \in Nat /\ n.hi <= p /\ n.hi - n.lo < 2 * Pow2[c]
      /\ At(n, e, p) /\ c + 1 \in 0 .. e
  BY HalvesAt
<1>2. c \in 0 .. TimeBits - 1 /\ c + 1 \in 0 .. TimeBits /\ c + 1 \in 0 .. j
  BY WidthAssumption
<1>3. d = 2 * Pow2[c] /\ d \in Nat /\ d > 0
  BY <1>2, Pow2Unfolds, Pow2Positive
<1>4. /\ o.lo \in Nat /\ o.hi \in Nat /\ w \in Nat /\ w > 0 /\ o.lo % w = 0
      /\ (o.hi = p \/ o.hi = o.lo + w - 1)
  BY AtIs
<1>5. (o.lo + w) % w = 0 /\ o.lo + w \in Nat
  <2> DEFINE a == o.lo
  <2>1. a \in Nat /\ w \in Nat /\ w > 0 /\ a % w = 0
    BY <1>4
  <2> HIDE DEF a, w
  <2>2. (a + w) % w = 0
    BY <2>1, AlignedNext, Zenon
  <2>3. a + w \in Nat
    BY <2>1
  <2> QED
    BY <2>2, <2>3 DEF a
<1>6. o.lo % d = 0 /\ (o.lo + w) % d = 0
  BY <1>2, <1>4, <1>5, AlignedBelow
<1>7. n.lo % Pow2[e] = 0
  BY <1>1, AtIs
<1>8. n.lo % d = 0
  BY <1>1, <1>7, AlignedBelow
<1>9. n.hi < n.lo + d
  BY <1>1, <1>3
<1> HIDE DEF d, w
<1>10. o.lo <= n.lo
  <2> SUFFICES ASSUME n.lo < o.lo PROVE FALSE
    BY <1>1, <1>4
  <2>1. n.lo + d <= o.lo
    BY <1>1, <1>3, <1>4, <1>6, <1>8, AlignedGap
  <2> QED
    BY <1>1, <1>3, <1>4, <1>9, <2>1
<1>11. n.hi <= o.hi
  <2>1. CASE o.hi = p
    BY <1>1, <2>1
  <2>2. CASE o.hi = o.lo + w - 1
    <3>1. n.lo < o.lo + w
      BY <1>1, <1>4, <2>2
    <3>2. n.lo + d <= o.lo + w
      BY <1>1, <1>3, <1>5, <1>6, <1>8, <3>1, AlignedGap
    <3> QED
      BY <1>1, <1>3, <1>4, <1>9, <2>2, <3>2
  <2> QED
    BY <1>4, <2>1, <2>2
<1> QED
  BY <1>10, <1>11

LEMMA SameBounds ==
  ASSUME NEW p \in Nat, NEW m \in Nodes(p), NEW n \in Nodes(p), m.lo = n.lo, m.hi = n.hi
  PROVE  m = n
BY NodeIs

\* The halves are the nodes next below a node, and the only ones.
LEMMA HalvesAreNext ==
  ASSUME NEW p \in Nat, p < Pow2[TimeBits - 1], NEW n \in Nodes(p), n.lo < n.hi,
         NEW half \in {LeftOf(n), RightOf(n)}
  PROVE  half \in Nodes(p) /\ half # Root(p) /\ IsNext(n, half, p)
<1>1. PICK c, e \in 0 .. TimeBits : Halved(n, c, e, p)
  BY HalvedIs
<1> DEFINE d == Pow2[c]
<1>2. /\ At(LeftOf(n), c, p) /\ At(RightOf(n), c, p)
      /\ n.lo \in Nat /\ n.hi \in Nat /\ n.hi <= p
      /\ LeftOf(n).lo = n.lo /\ LeftOf(n).hi = n.lo + d - 1
      /\ RightOf(n).lo = n.lo + d /\ RightOf(n).hi = n.hi
      /\ d \in Nat /\ d > 0 /\ d <= n.hi - n.lo
  BY <1>1, HalvesAt
<1>3. At(half, c, p) /\ half \in Nodes(p)
  BY <1>2, AtIs
<1> HIDE DEF d
<1>4. half.lo \in Nat /\ half.hi \in Nat /\ n.lo <= half.lo /\ half.lo <= half.hi /\ half.hi <= n.hi
      /\ (half.lo # n.lo \/ half.hi # n.hi) /\ (half.lo # 0 \/ half.hi # p)
  <2>1. CASE half = LeftOf(n)
    BY <1>2, <2>1
  <2>2. CASE half = RightOf(n)
    BY <1>2, <2>2
  <2> QED
    BY <2>1, <2>2
<1>5. half # Root(p)
  BY <1>4 DEF Root
<1>6. Above(n, half)
  BY <1>4 DEF Above
<1>7. ASSUME NEW o \in Nodes(p), Above(o, half) PROVE o = n \/ Above(o, n)
  <2>1. PICK j \in 0 .. TimeBits : At(o, j, p)
    BY NodeIsAt
  <2>2. o.lo \in Nat /\ o.hi \in Nat /\ o # half /\ o.lo <= half.lo /\ half.hi <= o.hi
    BY <1>7, NodeIs DEF Above
  <2>3. ~(j <= c)
    <3> SUFFICES ASSUME j <= c PROVE FALSE
      OBVIOUS
    <3>1. j \in 0 .. c
      OBVIOUS
    <3>2. half.lo <= o.lo /\ o.hi <= half.hi
      BY <1>3, <1>4, <2>1, <2>2, <3>1, Nested
    <3>3. o.lo = half.lo /\ o.hi = half.hi
      BY <1>4, <2>2, <3>2
    <3> QED
      BY <1>3, <2>2, <3>3, SameBounds
  <2>4. c < j /\ o.lo <= n.hi /\ n.lo <= o.hi
    BY <1>2, <1>4, <2>2, <2>3
  <2>5. o.lo <= n.lo /\ n.hi <= o.hi
    BY <1>1, <2>1, <2>4, HigherContains
  <2> QED
    BY <2>5 DEF Above
<1> QED
  BY <1>3, <1>5, <1>6, <1>7 DEF IsNext

LEMMA NextBelowIsHalf ==
  ASSUME NEW p \in Nat, p < Pow2[TimeBits - 1], NEW n \in Nodes(p), NEW x \in Nodes(p),
         IsNext(n, x, p)
  PROVE  n.lo < n.hi /\ x = IF x.lo = n.lo THEN LeftOf(n) ELSE RightOf(n)
<1>1. /\ n.lo \in Nat /\ n.hi \in Nat /\ x.lo \in Nat /\ x.hi \in Nat /\ x.lo <= x.hi
      /\ n # x /\ n.lo <= x.lo /\ x.hi <= n.hi
  BY NodeIs DEF IsNext, Above
<1>2. n.lo < n.hi
  <2>1. ASSUME n.hi = n.lo PROVE FALSE
    <3>1. x.lo = n.lo /\ x.hi = n.hi
      BY <1>1, <2>1
    <3> QED
      BY <1>1, <3>1, SameBounds
  <2> QED
    BY <1>1, <2>1
<1>3. PICK c, e \in 0 .. TimeBits : Halved(n, c, e, p)
  BY <1>2, HalvedIs
<1> DEFINE d == Pow2[c]
<1>4. /\ At(LeftOf(n), c, p) /\ At(RightOf(n), c, p)
      /\ LeftOf(n).lo = n.lo /\ LeftOf(n).hi = n.lo + d - 1
      /\ RightOf(n).lo = n.lo + d /\ RightOf(n).hi = n.hi
      /\ d \in Nat /\ d > 0 /\ d <= n.hi - n.lo
  BY <1>3, HalvesAt
<1>5. LeftOf(n) \in Nodes(p) /\ RightOf(n) \in Nodes(p)
  BY <1>4, AtIs
<1> HIDE DEF d
<1>6. PICK j \in 0 .. TimeBits : At(x, j, p)
  BY NodeIsAt
<1>7. j \in 0 .. c
  <2> SUFFICES ASSUME c < j PROVE FALSE
    BY WidthAssumption
  <2>1. x.lo <= n.hi /\ n.lo <= x.hi
    BY <1>1
  <2>2. x.lo <= n.lo /\ n.hi <= x.hi
    BY <1>3, <1>6, <2>1, HigherContains
  <2>3. x.lo = n.lo /\ x.hi = n.hi
    BY <1>1, <2>2
  <2> QED
    BY <1>1, <2>3, SameBounds
<1>8. CASE x.lo < n.lo + d
  <2>1. x.lo <= LeftOf(n).hi /\ LeftOf(n).lo <= x.hi
    BY <1>1, <1>4, <1>8
  <2>2. LeftOf(n).lo <= x.lo /\ x.hi <= LeftOf(n).hi
    BY <1>4, <1>6, <1>7, <2>1, Nested
  <2>3. x = LeftOf(n)
    <3> SUFFICES ASSUME x # LeftOf(n) PROVE FALSE
      OBVIOUS
    <3>1. Above(LeftOf(n), x)
      BY <2>2 DEF Above
    <3>2. LeftOf(n) = n \/ Above(LeftOf(n), n)
      BY <1>5, <3>1 DEF IsNext
    <3>3. n.hi <= LeftOf(n).hi
      BY <1>1, <3>2 DEF Above
    <3> QED
      BY <1>1, <1>4, <3>3
  <2> QED
    BY <1>2, <1>4, <2>3
<1>9. CASE ~(x.lo < n.lo + d)
  <2>1. x.lo <= RightOf(n).hi /\ RightOf(n).lo <= x.hi /\ x.lo # n.lo
    BY <1>1, <1>4, <1>9
  <2>2. RightOf(n).lo <= x.lo /\ x.hi <= RightOf(n).hi
    BY <1>4, <1>6, <1>7, <2>1, Nested
  <2>3. x = RightOf(n)
    <3> SUFFICES ASSUME x # RightOf(n) PROVE FALSE
      OBVIOUS
    <3>1. Above(RightOf(n), x)
      BY <2>2 DEF Above
    <3>2. RightOf(n) = n \/ Above(RightOf(n), n)
      BY <1>5, <3>1 DEF IsNext
    <3>3. RightOf(n).lo <= n.lo
      BY <1>1, <3>2 DEF Above
    <3> QED
      BY <1>1, <1>4, <3>3
  <2> QED
    BY <1>2, <2>1, <2>3
<1> QED
  BY <1>8, <1>9

-----------------------------------------------------------------------------
(* The way up from a leaf, and the way down the links take.                *)

LEMMA ClimbIs ==
  ASSUME NEW p \in Nat, p < Pow2[TimeBits], NEW t \in 0 .. p, NEW n \in Nat
  PROVE  LET c == Climb(t, p, n)
         IN  /\ c \in [0 .. n -> Nodes(p)] /\ c[0] = [lo |-> t, hi |-> t]
             /\ \A i \in 1 .. n : c[i] = IF c[i - 1] = Root(p) THEN c[i - 1] ELSE NextAbove(Nodes(p), c[i - 1])
<1> DEFINE nodes == Nodes(p)
           leaf == [lo |-> t, hi |-> t]
           Up(x) == IF x = Root(p) THEN x ELSE NextAbove(nodes, x)
           F == [i \in 1 .. n |-> [x \in nodes |-> Up(x)]]
           P(f) == f = [i \in 0 .. n |-> IF i = 0 THEN leaf ELSE Up(f[i - 1])]
<1>1. PICK f : Runs(f, F, n, leaf, nodes)
  <2>1. ASSUME NEW x \in nodes PROVE Up(x) \in nodes
    BY NextExists DEF IsNext
  <2>2. leaf \in nodes
    BY LeafIsNode
  <2>3. Steps(F, n, leaf, nodes)
    <3> HIDE DEF Up, leaf, nodes
    <3> QED
      BY <2>1, <2>2 DEF Steps
  <2> HIDE DEF F, leaf, nodes
  <2> QED
    BY <2>3, RecursionExists
<1>2. P(f)
  <2>1. ASSUME NEW i \in 0 .. n PROVE f[i] = IF i = 0 THEN leaf ELSE Up(f[i - 1])
    <3> HIDE DEF Up, leaf, nodes
    <3>1. CASE i = 0
      BY <1>1, <3>1 DEF Runs
    <3>2. CASE i # 0
      <4>1. i \in 1 .. n /\ i - 1 \in 0 .. n
        BY <3>2
      <4>2. f[i] = F[i][f[i - 1]] /\ f[i - 1] \in nodes
        BY <1>1, <4>1 DEF Runs
      <4> QED
        BY <3>2, <4>1, <4>2
    <3> QED
      BY <3>1, <3>2
  <2> HIDE DEF Up, leaf, nodes
  <2> QED
    BY <1>1, <2>1 DEF Runs
<1>3. Climb(t, p, n) = CHOOSE g : P(g)
  BY DEF Climb
<1> DEFINE c == Climb(t, p, n)
<1> HIDE DEF P
<1>4. P(c)
  BY <1>2, <1>3
<1> HIDE DEF Up, leaf, c
<1>5. c = [i \in 0 .. n |-> IF i = 0 THEN leaf ELSE Up(c[i - 1])]
  BY <1>4 DEF P
<1>6. c[0] = leaf /\ \A i \in 1 .. n : c[i] = Up(c[i - 1])
  <2>1. 0 \in 0 .. n /\ \A i \in 1 .. n : i \in 0 .. n /\ i # 0
    OBVIOUS
  <2> QED
    BY <1>5, <2>1
<1>7. \A i \in 0 .. n : c[i] \in nodes
  <2> DEFINE G == {i \in 0 .. n : c[i] \in nodes}
  <2>1. 0 \in G
    BY <1>6, LeafIsNode DEF leaf
  <2>2. ASSUME NEW i \in 0 .. n - 1, i \in G PROVE i + 1 \in G
    <3>1. i + 1 \in 1 .. n /\ i + 1 - 1 = i /\ i + 1 \in 0 .. n
      OBVIOUS
    <3>2. c[i + 1] = Up(c[i]) /\ c[i] \in nodes
      BY <1>6, <2>2, <3>1
    <3>3. Up(c[i]) \in nodes
      BY <3>2, NextExists DEF IsNext, Up
    <3> QED
      BY <3>1, <3>2, <3>3
  <2> HIDE DEF G
  <2>3. \A i \in 0 .. n : i \in G
    BY <2>1, <2>2, Induction
  <2> QED
    BY <2>3 DEF G
<1>8. c \in [0 .. n -> nodes]
  <2> HIDE DEF nodes
  <2> QED
    BY <1>5, <1>7
<1> QED
  BY <1>6, <1>8 DEF c, Up, leaf

LEMMA ClimbStep ==
  ASSUME NEW p \in Nat, p < Pow2[TimeBits], NEW t \in 0 .. p, NEW n \in Nat
  PROVE  LET c == Climb(t, p, n)
         IN  \A i \in 1 .. n : c[i - 1] # Root(p) => IsNext(c[i], c[i - 1], p)
<1> DEFINE c == Climb(t, p, n)
<1>1. /\ c \in [0 .. n -> Nodes(p)] /\ c[0] = [lo |-> t, hi |-> t]
      /\ \A i \in 1 .. n : c[i] = IF c[i - 1] = Root(p) THEN c[i - 1] ELSE NextAbove(Nodes(p), c[i - 1])
  BY ClimbIs
<1> HIDE DEF c
<1>2. ASSUME NEW i \in 1 .. n, c[i - 1] # Root(p) PROVE IsNext(c[i], c[i - 1], p)
  <2>1. i - 1 \in 0 .. n
    OBVIOUS
  <2>2. c[i - 1] \in Nodes(p) /\ c[i] = NextAbove(Nodes(p), c[i - 1])
    BY <1>1, <1>2, <2>1
  <2> QED
    BY <1>2, <2>2, NextExists
<1>3. \A i \in 1 .. n : c[i - 1] # Root(p) => IsNext(c[i], c[i - 1], p)
  BY <1>2
<1> QED
  BY <1>3 DEF c

\* The first d links from the root on are the steps down to node n, along f.
Descends(j, f, d, n) ==
  LET p == j.pubTime
  IN  /\ f \in [0 .. d -> Nodes(p)] /\ f[0] = Root(p) /\ f[d] = n
      /\ \A i \in 1 .. d :
           /\ f[i] # Root(p) /\ IsNext(f[i - 1], f[i], p)
           /\ j.links[Len(j.links) - i + 1].isLeft <=> f[i].lo = f[i - 1].lo

\* A job whose time a time_t can tell.
Timed(j) ==
  /\ j.op = "time" /\ Len(j.links) \in Nat
  /\ j.pubTime \in Nat /\ j.pubTime < Pow2[TimeBits - 1] /\ j.pubTime < Pow2[TimeBits]
  /\ \A i \in 1 .. Len(j.links) : j.links[i].isLeft \in BOOLEAN

LEMMA TimedIs ==
  ASSUME NEW j \in Jobs, j.op = "time", j.pubTime < Pow2[TimeBits - 1]
  PROVE  Timed(j)
<1>1. Len(j.links) \in Nat /\ j.pubTime \in 0 .. Pow2[TimeBits] - 1
  BY JobFacts
<1>2. \A i \in 1 .. Len(j.links) : j.links[i].isLeft \in BOOLEAN
  BY LinkFacts
<1>3. j.pubTime \in Nat /\ j.pubTime < Pow2[TimeBits]
  <2>1. Pow2[TimeBits] \in Nat
    BY HalfIsPositive
  <2> QED
    BY <1>1, <2>1
<1> QED
  BY <1>1, <1>2, <1>3 DEF Timed

LEMMA DescentStep ==
  ASSUME NEW j, Timed(j), NEW d \in 0 .. Len(j.links), d < Len(j.links),
         NEW f, NEW n, Descends(j, f, d, n), n.lo < n.hi
  PROVE  \E g : Descends(j, g, d + 1,
                  IF j.links[Len(j.links) - d].isLeft THEN LeftOf(n) ELSE RightOf(n))
<1> DEFINE p == j.pubTime
           k == Len(j.links)
           left == j.links[k - d].isLeft
           half == IF left THEN LeftOf(n) ELSE RightOf(n)
           g == [i \in 0 .. d + 1 |-> IF i <= d THEN f[i] ELSE half]
<1>1. p \in Nat /\ p < Pow2[TimeBits - 1] /\ k \in Nat /\ k - d \in 1 .. k /\ left \in BOOLEAN
  BY DEF Timed
<1>2. f \in [0 .. d -> Nodes(p)] /\ f[0] = Root(p) /\ f[d] = n /\ n \in Nodes(p)
  BY <1>1 DEF Descends
<1>3. half \in {LeftOf(n), RightOf(n)}
  OBVIOUS
<1>4. half \in Nodes(p) /\ half # Root(p) /\ IsNext(n, half, p)
  <2> HIDE DEF half
  <2> QED
    BY <1>1, <1>2, <1>3, HalvesAreNext
<1>5. left <=> half.lo = n.lo
  <2>1. HighBit(n.hi - n.lo) \in Nat /\ HighBit(n.hi - n.lo) > 0 /\ n.lo \in Nat
    <3>1. PICK c, e \in 0 .. TimeBits : Halved(n, c, e, p)
      BY <1>1, <1>2, HalvedIs
    <3>2. Pow2[c] \in Nat /\ Pow2[c] > 0 /\ HighBit(n.hi - n.lo) = Pow2[c]
      BY <3>1, Pow2Positive DEF Halved
    <3> QED
      BY <1>1, <1>2, <3>2, NodeIs
  <2>2. CASE left
    BY <2>2 DEF LeftOf
  <2>3. CASE ~left
    BY <2>1, <2>3 DEF RightOf
  <2> QED
    BY <1>1, <2>2, <2>3
<1> HIDE DEF half, left
<1>6. g \in [0 .. d + 1 -> Nodes(p)]
  <2>1. \A i \in 0 .. d + 1 : i <= d => i \in 0 .. d
    OBVIOUS
  <2> QED
    BY <1>2, <1>4, <2>1
<1>7. g[0] = Root(p) /\ g[d + 1] = half
  BY <1>2
<1>8. ASSUME NEW i \in 1 .. d + 1
      PROVE  /\ g[i] # Root(p) /\ IsNext(g[i - 1], g[i], p)
             /\ j.links[k - i + 1].isLeft <=> g[i].lo = g[i - 1].lo
  <2>1. CASE i <= d
    <3>1. i \in 1 .. d /\ i \in 0 .. d + 1 /\ i - 1 \in 0 .. d + 1 /\ i - 1 <= d
      BY <2>1
    <3>2. g[i] = f[i] /\ g[i - 1] = f[i - 1]
      BY <2>1, <3>1
    <3> HIDE DEF g
    <3> QED
      BY <3>1, <3>2 DEF Descends
  <2>2. CASE i = d + 1
    <3>1. g[i] = half /\ g[i - 1] = n /\ k - i + 1 = k - d
      BY <1>1, <1>2, <2>2
    <3> HIDE DEF g
    <3> QED
      BY <1>4, <1>5, <3>1 DEF left
  <2> QED
    BY <2>1, <2>2
<1> HIDE DEF g
<1>9. Descends(j, g, d + 1, half)
  BY <1>6, <1>7, <1>8 DEF Descends
<1> QED
  BY <1>9 DEF half, left

\* A way down that ends at a leaf is the way up from it.
LEMMA DescentLeads ==
  ASSUME NEW j, Timed(j), NEW f, NEW t, Descends(j, f, Len(j.links), [lo |-> t, hi |-> t])
  PROVE  t \in 0 .. j.pubTime /\ LeadsUp(j.links, t, j.pubTime)
<1> DEFINE p == j.pubTime
           k == Len(j.links)
           c == Climb(t, p, k)
           leaf == [lo |-> t, hi |-> t]
<1>1. p \in Nat /\ p < Pow2[TimeBits] /\ k \in Nat
  BY DEF Timed
<1>2. /\ f \in [0 .. k -> Nodes(p)] /\ f[0] = Root(p) /\ f[k] = leaf
      /\ \A i \in 1 .. k : /\ f[i] # Root(p) /\ IsNext(f[i - 1], f[i], p)
                           /\ j.links[k - i + 1].isLeft <=> f[i].lo = f[i - 1].lo
  BY DEF Descends
<1>3. t \in 0 .. p
  <2>1. leaf \in Nodes(p) /\ leaf.lo = t
    BY <1>1, <1>2
  <2>2. leaf.lo \in Nat /\ leaf.hi <= p /\ leaf.hi = t
    BY <1>1, <2>1, NodeIs
  <2> QED
    BY <1>1, <2>1, <2>2
<1>4. /\ c[0] = leaf
      /\ \A i \in 1 .. k : c[i] = IF c[i - 1] = Root(p) THEN c[i - 1] ELSE NextAbove(Nodes(p), c[i - 1])
  BY <1>1, <1>3, ClimbIs
<1> HIDE DEF c, leaf
<1> DEFINE G == {i \in 0 .. k : c[i] = f[k - i]}
<1>5. 0 \in G
  BY <1>1, <1>2, <1>4
<1>6. ASSUME NEW i \in 0 .. k - 1, i \in G PROVE i + 1 \in G
  <2>1. k - i \in 1 .. k /\ k - i \in 0 .. k /\ k - i - 1 = k - (i + 1) /\ i + 1 \in 1 .. k /\ i + 1 - 1 = i
    BY <1>1
  <2>2. c[i] = f[k - i] /\ f[k - i] # Root(p) /\ IsNext(f[k - i - 1], f[k - i], p) /\ f[k - i] \in Nodes(p)
    BY <1>2, <1>6, <2>1
  <2>3. c[i + 1] = NextAbove(Nodes(p), c[i])
    BY <1>4, <2>1, <2>2
  <2>4. NextAbove(Nodes(p), f[k - i]) = f[k - i - 1]
    BY <1>1, <2>2, NextIs
  <2> QED
    BY <2>1, <2>2, <2>3, <2>4
<1> HIDE DEF G
<1>7. \A i \in 0 .. k : i \in G
  BY <1>1, <1>5, <1>6, Induction
<1>8. \A i \in 0 .. k : c[i] = f[k - i]
  BY <1>7 DEF G
<1>9. c[k] = Root(p)
  BY <1>1, <1>2, <1>8
<1>10. ASSUME NEW i \in 1 .. k
       PROVE  c[i - 1] # Root(p) /\ (j.links[i].isLeft <=> c[i - 1].lo = c[i].lo)
  <2> DEFINE m == k - i + 1
  <2>1. m \in 1 .. k /\ k - (i - 1) = m /\ k - i = m - 1 /\ k - m + 1 = i /\ i - 1 \in 0 .. k /\ i \in 0 .. k
    BY <1>1
  <2> HIDE DEF m
  <2>2. c[i - 1] = f[m] /\ c[i] = f[m - 1]
    BY <1>8, <2>1
  <2>3. f[m] # Root(p) /\ (j.links[i].isLeft <=> f[m].lo = f[m - 1].lo)
    BY <1>2, <2>1
  <2> QED
    BY <2>2, <2>3
<1> QED
  BY <1>3, <1>9, <1>10 DEF LeadsUp, c

\* Any leaf from which the links lead up lies below the node the links have led down to.
LEMMA ClimbMeetsDescent ==
  ASSUME NEW j, Timed(j), NEW t \in 0 .. j.pubTime, LeadsUp(j.links, t, j.pubTime),
         NEW d \in 0 .. Len(j.links), NEW f, NEW n, Descends(j, f, d, n)
  PROVE  Climb(t, j.pubTime, Len(j.links))[Len(j.links) - d] = n
<1> DEFINE p == j.pubTime
           k == Len(j.links)
           c == Climb(t, p, k)
<1>1. p \in Nat /\ p < Pow2[TimeBits - 1] /\ p < Pow2[TimeBits] /\ k \in Nat
      /\ \A i \in 1 .. k : j.links[i].isLeft \in BOOLEAN
  BY DEF Timed
<1>2. /\ f \in [0 .. d -> Nodes(p)] /\ f[0] = Root(p) /\ f[d] = n
      /\ \A i \in 1 .. d : /\ f[i] # Root(p) /\ IsNext(f[i - 1], f[i], p)
                           /\ j.links[k - i + 1].isLeft <=> f[i].lo = f[i - 1].lo
  BY DEF Descends
<1>3. c[k] = Root(p) /\ \A i \in 1 .. k : c[i - 1] # Root(p) /\ (j.links[i].isLeft <=> c[i - 1].lo = c[i].lo)
  BY DEF LeadsUp
<1>4. \A i \in 0 .. k : c[i] \in Nodes(p)
  <2>1. c \in [0 .. k -> Nodes(p)]
    BY <1>1, ClimbIs
  <2> HIDE DEF c, k
  <2> QED
    BY <2>1
<1>5. \A i \in 1 .. k : IsNext(c[i], c[i - 1], p)
  BY <1>1, <1>3, ClimbStep
<1> HIDE DEF c
<1> DEFINE G == {i \in 0 .. d : c[k - i] = f[i]}
<1>6. 0 \in G
  BY <1>1, <1>2, <1>3
<1>7. ASSUME NEW i \in 0 .. d - 1, i \in G PROVE i + 1 \in G
  <2> DEFINE m == k - i
  <2>1. /\ m \in 1 .. k /\ m - 1 = k - (i + 1) /\ m - 1 \in 0 .. k /\ i + 1 \in 1 .. d /\ i + 1 - 1 = i
        /\ i + 1 \in 0 .. d /\ i \in 0 .. d /\ k - (i + 1) + 1 = m
    BY <1>1
  <2>2. c[m] = f[i]
    BY <1>7
  <2> HIDE DEF m
  <2>3. IsNext(f[i], c[m - 1], p) /\ c[m - 1] \in Nodes(p) /\ (j.links[m].isLeft <=> c[m - 1].lo = f[i].lo)
    BY <1>3, <1>4, <1>5, <2>1, <2>2
  <2>4. IsNext(f[i], f[i + 1], p) /\ f[i + 1] \in Nodes(p) /\ (j.links[m].isLeft <=> f[i + 1].lo = f[i].lo)
        /\ f[i] \in Nodes(p)
    <3> DEFINE q == i + 1
    <3>1. q \in 1 .. d /\ q \in 0 .. d /\ q - 1 = i /\ k - q + 1 = m /\ i \in 0 .. d
      BY <2>1
    <3> HIDE DEF q
    <3>2. IsNext(f[q - 1], f[q], p) /\ (j.links[k - q + 1].isLeft <=> f[q].lo = f[q - 1].lo)
      BY <1>2, <3>1
    <3>3. f[q] \in Nodes(p) /\ f[i] \in Nodes(p)
      BY <1>2, <3>1
    <3> QED
      BY <3>1, <3>2, <3>3 DEF q
  <2>5. c[m - 1] = IF c[m - 1].lo = f[i].lo THEN LeftOf(f[i]) ELSE RightOf(f[i])
    BY <1>1, <2>3, <2>4, NextBelowIsHalf
  <2>6. f[i + 1] = IF f[i + 1].lo = f[i].lo THEN LeftOf(f[i]) ELSE RightOf(f[i])
    BY <1>1, <2>4, NextBelowIsHalf
  <2>7. c[m - 1] = f[i + 1]
    <3>1. c[m - 1].lo = f[i].lo <=> f[i + 1].lo = f[i].lo
      BY <1>1, <2>1, <2>3, <2>4
    <3> QED
      BY <2>5, <2>6, <3>1
  <2> QED
    BY <2>1, <2>7
<1> HIDE DEF G
<1>8. \A i \in 0 .. d : i \in G
  <2>1. d \in Nat
    BY <1>1
  <2> QED
    BY <1>6, <1>7, <2>1, Induction
<1>9. d \in G
  BY <1>1, <1>8
<1> QED
  BY <1>2, <1>9 DEF G, c

-----------------------------------------------------------------------------
(* Every link adds the level and the hash the chain defines.               *)

LEMMA LevelIs ==
  ASSUME StateInv, LoopInv, Running, Modest(job), done < Len(job.links)
  PROVE  NextLevel = IF job.op = "calendar" THEN LevelMax ELSE Levels(job)[done + 1]
<1>1. job \in Jobs /\ job # None
  BY RunningJob
<1>2. CASE job.op = "calendar"
  BY <1>1, <1>2 DEF LoopInv, NextLevel
<1>3. CASE job.op # "calendar"
  <2>1. /\ job.op = "aggregation" /\ done \in 0 .. Len(job.links) - 1
        /\ done + 1 \in 1 .. Len(job.links) /\ done \in 0 .. Len(job.links)
    BY <1>1, <1>3, JobFacts DEF StateInv, Modest, IsChain
  <2> DEFINE c == Link.correction
             n == Levels(job)[done]
  <2>2. LevelMax \in Nat
    BY LengthsAssumption DEF LevelMax
  <2>3. c \in Nat /\ c <= LevelMax
    <3>1. c \in Nat
      BY <1>1, <2>1, LinkFacts DEF Link
    <3>2. done + 1 \in DOMAIN job.links
      BY <1>1, <2>1, JobFacts
    <3> QED
      BY <2>1, <3>1, <3>2 DEF Modest, InRange, Link
  <2>4. n \in Nat /\ level = n /\ n <= LevelMax
    BY <1>1, <1>3, <2>1, LevelsUnfold DEF StateInv, LoopInv
  <2>5. Levels(job)[done + 1] = n + c + 1
    BY <1>1, <2>1, LevelsUnfold DEF Link
  <2>6. NextLevel = ToInt(n + ToInt(c) + 1)
    BY <1>3, <2>4 DEF NextLevel
  <2> HIDE DEF c, n
  <2>7. ToInt(c) = c
    BY <2>2, <2>3, ToIntKeeps
  <2>8. n + c + 1 \in Nat /\ n + c + 1 <= 2 * LevelMax + 1
    BY <2>2, <2>3, <2>4
  <2>9. ToInt(n + c + 1) = n + c + 1
    BY <2>8, ToIntKeeps
  <2> QED
    BY <1>3, <2>5, <2>6, <2>7, <2>9
<1> QED
  BY <1>2, <1>3

LEMMA MaxOfOne == Max({1}) = 1
<1>1. \A x \in {1} : \A y \in {1} : x >= y
  OBVIOUS
<1> QED
  BY <1>1 DEF Max

\* The first link decides the algorithm.
LEMMA LeadIs ==
  ASSUME NEW j \in Jobs, j.op = "calendar", 1 \in 1 .. Len(j.links)
  PROVE  Lead(j) = IF j.links[1].isLeft THEN j.links[1].algo ELSE j.inputAlgo
<1> DEFINE left == {k \in 1 .. 1 : j.links[k].isLeft}
<1>1. left = IF j.links[1].isLeft THEN {1} ELSE {}
  OBVIOUS
<1> QED
  BY <1>1, MaxOfOne DEF Lead, AlgoAt

LEMMA LevelsOfIs ==
  ASSUME NEW j \in Jobs, NEW i \in 1 .. Len(j.links)
  PROVE  LevelsOf(j)[i] = IF j.op = "calendar" THEN LevelMax ELSE Levels(j)[i]
BY DEF LevelsOf

LEMMA LeadHashesAre ==
  ASSUME NEW j \in Jobs
  PROVE  /\ LeadHashes(j)[0] = [algo |-> j.inputAlgo, val |-> 0]
         /\ \A i \in 1 .. Len(j.links) :
              LeadHashes(j)[i] =
                [algo |-> Lead(j),
                 fed |-> Combine(j.links[i], LeadHashes(j)[i - 1], Sibling(j.links, i), LevelsOf(j)[i])]
<1> DEFINE algos == [i \in 1 .. Len(j.links) |-> Lead(j)]
           levels == LevelsOf(j)
<1>1. LeadHashes(j) = Hashes(j, levels, algos)
  BY DEF LeadHashes
<1>2. \A i \in 1 .. Len(j.links) : algos[i] = Lead(j)
  OBVIOUS
<1> HIDE DEF algos, levels
<1>3. /\ Hashes(j, levels, algos)[0] = [algo |-> j.inputAlgo, val |-> 0]
      /\ \A i \in 1 .. Len(j.links) :
           Hashes(j, levels, algos)[i] =
             [algo |-> algos[i],
              fed |-> Combine(j.links[i], Hashes(j, levels, algos)[i - 1], Sibling(j.links, i), levels[i])]
  BY HashesUnfold
<1>4. ASSUME NEW i \in 1 .. Len(j.links)
      PROVE  LeadHashes(j)[i] =
               [algo |-> Lead(j),
                fed |-> Combine(j.links[i], LeadHashes(j)[i - 1], Sibling(j.links, i), levels[i])]
  BY <1>1, <1>2, <1>3
<1> QED
  BY <1>1, <1>3, <1>4 DEF levels

LEMMA LoopLink ==
  ASSUME StateInv, LoopInv, AggregateLink, LinkError = "OK", Modest(job)
  PROVE  LoopInv'
<1>1. Running /\ IsChain(job) /\ done < Len(job.links)
  BY DEF AggregateLink, IsChain
<1>2. job \in Jobs /\ job # None
  BY <1>1, RunningJob
<1> DEFINE n == done + 1
           h == [algo |-> Hasher.algo,
                 fed |-> Combine(Link, Below, Sibling(job.links, done + 1), NextLevel)]
<1>3. n \in 1 .. Len(job.links) /\ n - 1 = done /\ done \in Nat /\ n > 0
  BY <1>1, <1>2, JobFacts DEF StateInv
<1>4. /\ level' = NextLevel /\ algo' = NextAlgo /\ done' = n /\ hsr' = Rested(Hasher.algo) /\ hsh' = h
      /\ job' = job
      /\ Hasher.algo \in Supported /\ Link.content # "none"
  BY LinkTaken
<1>5. NextLevel = (IF job.op = "calendar" THEN LevelMax ELSE Levels(job)[n])
  BY <1>1, LevelIs
<1>6. hsr \in Closed \cup {None} /\ None \notin Closed
  BY NullAssumption DEF StateInv
<1>7. Hasher.algo = Lead(job)
  <2>1. CASE done = 0
    <3>1. hsr = None
      BY <1>2, <2>1 DEF LoopInv
    <3>2. Hasher.algo = NextAlgo
      BY <1>6, <3>1, HasherIs
    <3>3. CASE job.op = "calendar"
      <4>1. algo = job.inputAlgo /\ Link = job.links[1] /\ 1 \in 1 .. Len(job.links)
        BY <1>2, <1>3, <2>1, <3>3 DEF LoopInv, Link
      <4> QED
        BY <1>2, <3>2, <3>3, <4>1, LeadIs DEF NextAlgo
    <3>4. CASE job.op # "calendar"
      <4>1. algo = job.algo
        BY <1>2, <2>1, <3>4 DEF LoopInv
      <4> QED
        BY <3>2, <3>4, <4>1 DEF NextAlgo, Lead
    <3> QED
      BY <3>3, <3>4
  <2>2. CASE done # 0
    <3>1. hsr = Rested(Lead(job)) /\ hsr # None
      BY <1>2, <1>3, <2>2 DEF LoopInv
    <3> QED
      BY <1>6, <3>1, HasherIs, ResetIsOpen
  <2> QED
    BY <2>1, <2>2
<1>8. Below = LeadHashes(job)[done]
  <2>1. CASE done = 0
    <3>1. hsr = None
      BY <1>2, <2>1 DEF LoopInv
    <3>2. Below = Input
      BY <3>1 DEF Below
    <3> QED
      BY <1>2, <2>1, <3>2, LeadHashesAre DEF Input
  <2>2. CASE done # 0
    <3>1. hsr # None /\ hsh = LeadHashes(job)[done]
      BY <1>2, <1>3, <2>2 DEF LoopInv
    <3> QED
      BY <3>1 DEF Below
  <2> QED
    BY <2>1, <2>2
<1>9. LevelsOf(job)[n] = NextLevel
  BY <1>2, <1>3, <1>5, LevelsOfIs
<1>10. h = LeadHashes(job)[n]
  <2>1. LeadHashes(job)[n] =
          [algo |-> Lead(job),
           fed |-> Combine(job.links[n], LeadHashes(job)[n - 1], Sibling(job.links, n), LevelsOf(job)[n])]
    <3> HIDE DEF n
    <3> QED
      BY <1>2, <1>3, LeadHashesAre
  <2>2. Link = job.links[n]
    BY DEF Link
  <2> QED
    BY <1>3, <1>7, <1>8, <1>9, <2>1, <2>2
<1>11. \A i \in 1 .. n : job.links[i].content # "none"
  <2>1. \A i \in 1 .. done : job.links[i].content # "none"
    BY <1>2 DEF LoopInv
  <2>2. \A i \in 1 .. n : i \in 1 .. done \/ i = n
    BY <1>3
  <2> QED
    BY <1>4, <2>1, <2>2 DEF Link
<1>12. job.op = "aggregation" => NextAlgo = job.algo
  BY <1>2 DEF LoopInv, NextAlgo
<1>13. Rested(Lead(job)) # None
  BY <1>4, <1>6, <1>7 DEF Closed
<1> HIDE DEF n, h
<1>14. n # 0
  BY <1>3
<1> QED
  BY <1>4, <1>5, <1>7, <1>10, <1>11, <1>12, <1>13, <1>14 DEF LoopInv

LEMMA LoopStep ==
  ASSUME StateInv, LoopInv, [Next]_vars
  PROVE  LoopInv'
<1>1. CASE AggregateLink /\ LinkError = "OK" /\ Modest(job)
  BY <1>1, LoopLink
<1>2. CASE AggregateLink /\ LinkError = "OK" /\ ~Modest(job)
  <2>1. job' = job
    BY <1>2, LinkTaken
  <2> QED
    BY <1>2, <2>1 DEF LoopInv
<1>3. CASE (AggregateLink /\ LinkError # "OK") \/ AggregateEnd \/ TimeEnd \/ UNCHANGED vars
  <2>1. UNCHANGED <<job, done, level, algo, hsr, hsh>>
    BY <1>3, LinkRefused, ReturnKeeps DEF AggregateEnd, TimeEnd, vars
  <2> QED
    BY <2>1 DEF LoopInv
<1>4. CASE TimeLink \/ Authenticate \/ Identify \/ Convert
  <2>1. job' = job
    BY <1>4, ReturnKeeps DEF TimeLink, Authenticate, Identify, Convert
  <2>2. ~Modest(job)
    BY <1>4 DEF TimeLink, Authenticate, Identify, Convert, Modest, IsChain
  <2> QED
    BY <2>1, <2>2 DEF LoopInv
<1>5. CASE Call
  <2>1. PICK j \in Jobs :
          /\ job' = j
          /\ level' = (IF j.op = "calendar" THEN LevelMax ELSE j.start)
          /\ algo' = (IF j.op = "calendar" THEN j.inputAlgo ELSE j.algo)
          /\ UNCHANGED <<done, hsr>>
    BY <1>5 DEF Call
  <2>2. job = None /\ done = 0 /\ hsr = None
    BY <1>5 DEF Call, StateInv
  <2>3. j.op = "aggregation" => Levels(j)[0] = j.start
    BY LevelsUnfold
  <2>4. IsChain(j) /\ j.op # "calendar" => j.op = "aggregation"
    BY DEF IsChain
  <2> QED
    BY <2>1, <2>2, <2>3, <2>4 DEF LoopInv, Modest
<1>6. CASE Leave
  BY <1>6 DEF Leave, LoopInv
<1> QED
  BY <1>1, <1>2, <1>3, <1>4, <1>5, <1>6 DEF Next, Compute

-----------------------------------------------------------------------------
(* What a call returns.                                                    *)

LEMMA RefusalJustified ==
  ASSUME StateInv, LoopInv, AggregateLink, LinkError # "OK", job.op = "aggregation", InRange(job.links)
  PROVE  ~Passes(job)
<1>1. Running /\ Modest(job) /\ done < Len(job.links)
  BY DEF AggregateLink, Modest, IsChain
<1>2. job \in Jobs /\ job # None
  BY <1>1, RunningJob
<1>3. done + 1 \in 1 .. Len(job.links) /\ done + 1 \in 0 .. Len(job.links) /\ done \in Nat
      /\ Len(job.links) \in 0 .. Len(job.links)
  BY <1>1, <1>2, JobFacts DEF StateInv
<1>4. CASE Hasher.algo \notin Supported
  <2>1. hsr \in Closed \cup {None}
    BY DEF StateInv
  <2>2. done # 0 => FALSE
    <3>1. done # 0 => hsr = Rested(Lead(job)) /\ Lead(job) \in Supported /\ hsr # None
      BY <1>1, <1>2, <1>3 DEF LoopInv
    <3> QED
      BY <1>4, <2>1, <3>1, HasherIs, ResetIsOpen
  <2>3. hsr = None /\ algo = job.algo
    BY <1>1, <1>2, <2>2 DEF LoopInv
  <2>4. Hasher.algo = job.algo
    BY <2>1, <2>3, HasherIs DEF NextAlgo
  <2> QED
    BY <1>4, <2>4 DEF Passes
<1>5. CASE Link.content = "none"
  BY <1>3, <1>5 DEF Passes, Link
<1>6. CASE NextLevel > LevelMax
  <2>1. NextLevel = Levels(job)[done + 1]
    BY <1>1, LevelIs
  <2>2. Levels(job)[done + 1] <= Levels(job)[Len(job.links)]
    BY <1>2, <1>3, LevelsGrow
  <2>3. Levels(job)[done + 1] \in Nat /\ Levels(job)[Len(job.links)] \in Nat /\ LevelMax \in Nat
    BY <1>2, <1>3, LevelsUnfold, LengthsAssumption DEF LevelMax
  <2> QED
    BY <1>6, <2>1, <2>2, <2>3 DEF Passes
<1> QED
  BY <1>4, <1>5, <1>6 DEF LinkError

LEMMA ResultStep ==
  ASSUME StateInv, LoopInv, ResultInv, [Next]_vars
  PROVE  ResultInv'
<1>1. CASE AggregateLink /\ LinkError = "OK"
  <2>1. res' = "running"
    BY <1>1, LinkTaken DEF AggregateLink, Running
  <2> QED
    BY <2>1 DEF ResultInv, Returned
<1>2. CASE AggregateLink /\ LinkError # "OK"
  <2>1. res' # "OK" /\ job' = job
    BY <1>2, LinkRefused, ReturnKeeps
  <2>2. job.op = "aggregation" /\ InRange(job.links) => ~Passes(job)
    BY <1>2, RefusalJustified
  <2> QED
    BY <2>1, <2>2 DEF ResultInv
<1>3. CASE AggregateEnd
  <2>1. res' = "OK" /\ job' = job /\ done' = done /\ done = Len(job.links)
    BY <1>3, ReturnKeeps DEF AggregateEnd
  <2> QED
    BY <2>1 DEF ResultInv
<1>4. CASE TimeLink \/ TimeEnd \/ Authenticate \/ Identify \/ Convert
  <2>1. job' = job
    BY <1>4, ReturnKeeps DEF TimeLink, TimeEnd, Authenticate, Identify, Convert
  <2>2. ~IsChain(job)
    BY <1>4 DEF TimeLink, TimeEnd, Authenticate, Identify, Convert, IsChain
  <2> QED
    BY <2>1, <2>2 DEF ResultInv
<1>5. CASE Call
  BY <1>5 DEF Call, ResultInv, Returned
<1>6. CASE Leave
  BY <1>6 DEF Leave, ResultInv, Returned
<1>7. CASE UNCHANGED vars
  BY <1>7 DEF vars, ResultInv, Returned
<1> QED
  BY <1>1, <1>2, <1>3, <1>4, <1>5, <1>6, <1>7 DEF Next, Compute

LEMMA HmacStep ==
  ASSUME StateInv, HmacAsDefined, [Next]_vars
  PROVE  HmacAsDefined'
<1>1. CASE Authenticate
  <2> DEFINE error == HmacError(job.algo, job.key, job.data)
  <2>1. /\ Running /\ job.op = "hmac" /\ job' = job /\ res' = error
        /\ error = "OK" => hsh' = Hmac(job.algo, job.key, job.data)
    BY <1>1 DEF Authenticate
  <2>2. job \in Jobs
    BY <2>1, RunningJob
  <2>3. /\ job.algo \in Algorithms /\ DigestLen[job.algo] <= BlockLen
        /\ job.key \in Seq(ToSet(job.key)) /\ job.data \in Seq(ToSet(job.data))
    BY <2>1, <2>2, JobsAssumption, DigestAssumption
  <2>4. DigestLen[job.algo] \in Nat /\ BlockLen \in Nat /\ KeyMax \in Nat
    BY <2>3, LengthsAssumption
  <2>5. /\ Len(job.key) \in Nat /\ (job.key = << >> <=> Len(job.key) = 0)
    BY <2>3
  <2>6. error = "OK" <=> /\ Len(job.key) \in 1 .. KeyMax /\ job.data # << >>
                         /\ job.algo \in Supported
    BY <2>3, <2>4, <2>5 DEF HmacError
  <2>7. InputBlock[job.algo] = BlockLen =>
          Hmac(job.algo, job.key, job.data) = Rfc2104(job.algo, job.key, job.data)
    BY <2>3, HmacIs
  <2> HIDE DEF error
  <2> QED
    BY <2>1, <2>6, <2>7 DEF HmacAsDefined
<1>2. CASE AggregateLink \/ AggregateEnd \/ TimeLink \/ TimeEnd \/ Identify \/ Convert
  <2>1. job' = job
    BY <1>2, LinkTaken, LinkRefused, ReturnKeeps DEF AggregateEnd, TimeLink, TimeEnd, Identify, Convert
  <2>2. job.op # "hmac"
    BY <1>2 DEF AggregateLink, AggregateEnd, TimeLink, TimeEnd, Identify, Convert
  <2> QED
    BY <2>1, <2>2 DEF HmacAsDefined
<1>3. CASE Call
  BY <1>3 DEF Call, HmacAsDefined, Returned
<1>4. CASE Leave
  BY <1>4 DEF Leave, HmacAsDefined, Returned
<1>5. CASE UNCHANGED vars
  BY <1>5 DEF vars, HmacAsDefined, Returned
<1> QED
  BY <1>1, <1>2, <1>3, <1>4, <1>5 DEF Next, Compute

-----------------------------------------------------------------------------
(* The loop of calculateCalendarAggregationTime.                           *)

Current == [lo |-> time, hi |-> time + span]

\* The links so far lead from the root down to the node the remaining leaves are
\* below; a publication time above what a time_t can tell is refused at once.
DescentInv ==
  job # None /\ job.op = "time" =>
    IF job.pubTime < Pow2[TimeBits - 1] THEN \E f : Descends(job, f, done, Current)
    ELSE span < 0 /\ done = 0

PositionInv == DescentInv /\ TimeIsPosition

LEMMA PubTimeIs ==
  ASSUME NEW j \in Jobs
  PROVE  j.pubTime \in Nat /\ Pow2[TimeBits - 1] \in Nat /\ (j.links # << >> => Len(j.links) # 0)
<1>1. j.pubTime \in 0 .. Pow2[TimeBits] - 1 /\ j.links \in Seq(ToSet(j.links))
  BY JobFacts
<1>2. Pow2[TimeBits] \in Nat /\ Pow2[TimeBits - 1] \in Nat
  BY HalfIsPositive
<1>3. j.links # << >> => Len(j.links) # 0
  <2> DEFINE S == ToSet(j.links)
             s == j.links
  <2>1. s \in Seq(S)
    BY <1>1
  <2> HIDE DEF S, s
  <2>2. s # << >> => Len(s) # 0
    BY <2>1
  <2> QED
    BY <2>2 DEF s
<1> QED
  BY <1>1, <1>2, <1>3

LEMMA DescentCall ==
  ASSUME StateInv, Call
  PROVE  DescentInv'
<1> DEFINE half == Pow2[TimeBits - 1]
<1>1. half \in Nat /\ half > 0 /\ Pow2[TimeBits] = 2 * half
  BY HalfIsPositive
<1>2. PICK j \in Jobs : job' = j /\ span' = ToTime(j.pubTime) /\ time' = time /\ done' = done
  BY DEF Call
<1>3. time' = 0 /\ done' = 0
  BY <1>2 DEF Call, StateInv
<1>4. j.pubTime \in Nat /\ j.pubTime < 2 * half
  <2>1. j.pubTime \in 0 .. Pow2[TimeBits] - 1
    BY JobFacts
  <2> HIDE DEF half
  <2> QED
    BY <1>1, <2>1
<1>5. span' = IF j.pubTime >= half THEN j.pubTime - 2 * half ELSE j.pubTime
  BY <1>1, <1>2 DEF ToTime
<1> DEFINE p == j.pubTime
<1>6. CASE p < half
  <2>1. span' = p
    <3> HIDE DEF half, p
    <3> QED
      BY <1>1, <1>4, <1>5, <1>6 DEF p
  <2> DEFINE f == [i \in 0 .. 0 |-> Root(p)]
  <2>2. Root(p) \in Nodes(p)
    BY <1>1, <1>4, RootIsNode
  <2>3. Current' = Root(p)
    <3>1. 0 + p = p
      BY <1>4
    <3> QED
      BY <1>3, <2>1, <3>1 DEF Current, Root
  <2>4. f \in [0 .. 0 -> Nodes(p)] /\ f[0] = Root(p)
    BY <2>2
  <2> HIDE DEF f
  <2>5. Descends(j, f, 0, Root(p))
    BY <2>4 DEF Descends
  <2>6. Descends(job', f, done', Current')
    BY <1>2, <1>3, <2>3, <2>5
  <2> QED
    BY <1>2, <1>6, <2>6 DEF DescentInv
<1>7. CASE ~(p < half)
  <2>1. span' < 0
    <3> HIDE DEF half, p
    <3> QED
      BY <1>1, <1>4, <1>5, <1>7 DEF p
  <2> QED
    BY <1>2, <1>3, <1>7, <2>1 DEF DescentInv
<1> QED
  BY <1>6, <1>7

\* Where the time is asked for: the node the links lead to is one of the tree.
LEMMA CurrentIs ==
  ASSUME StateInv, TimeInv, DescentInv, Running, job.op = "time", job.pubTime < Pow2[TimeBits - 1]
  PROVE  /\ Timed(job) /\ done \in 0 .. Len(job.links) /\ job.pubTime \in Nat
         /\ Current \in Nodes(job.pubTime) /\ \E f : Descends(job, f, done, Current)
         /\ span \in Nat /\ time \in Nat /\ Current.lo = time /\ Current.hi = time + span
<1>1. job \in Jobs /\ job # None
  BY RunningJob
<1>2. Timed(job) /\ done \in 0 .. Len(job.links) /\ job.pubTime \in Nat
  <2>1. done \in Nat /\ done <= Len(job.links) /\ Len(job.links) \in Nat
    BY <1>1, JobFacts DEF StateInv
  <2> QED
    BY <1>1, <2>1, TimedIs, PubTimeIs
<1>3. PICK f : Descends(job, f, done, Current)
  BY <1>1 DEF DescentInv
<1>4. Current \in Nodes(job.pubTime)
  <2>1. f \in [0 .. done -> Nodes(job.pubTime)] /\ f[done] = Current
    BY <1>3 DEF Descends
  <2> QED
    BY <1>2, <2>1
<1>5. Current.lo = time /\ Current.hi = time + span
  BY DEF Current
<1>6. span \in Nat /\ time \in Nat
  <2>1. span \in Int /\ time \in Nat
    BY DEF TimeInv
  <2>2. Current.lo <= Current.hi
    BY <1>2, <1>4, NodeIs
  <2> QED
    BY <1>5, <2>1, <2>2
<1> QED
  BY <1>2, <1>3, <1>4, <1>5, <1>6

LEMMA DescentLink ==
  ASSUME StateInv, TimeInv, DescentInv, TimeLink, ~(span <= 0)
  PROVE  DescentInv'
<1> DEFINE k == Len(job.links)
           left == job.links[k - done].isLeft
           h == HighBit(span)
<1>1. Running /\ job.op = "time" /\ done < k /\ job \in Jobs /\ job # None
  BY RunningJob DEF TimeLink
<1>2. /\ IF left THEN span' = h - 1 /\ UNCHANGED time ELSE time' = time + h /\ span' = span - h
      /\ done' = done + 1 /\ job' = job
  BY DEF TimeLink, Descend
<1>3. job.pubTime < Pow2[TimeBits - 1]
  BY <1>1, PubTimeIs DEF DescentInv, TimeInv
<1>4. /\ Timed(job) /\ done \in 0 .. k /\ Current \in Nodes(job.pubTime) /\ job.pubTime \in Nat
      /\ span \in Nat /\ time \in Nat /\ Current.lo = time /\ Current.hi = time + span
  BY <1>1, <1>3, CurrentIs
<1>5. PICK f : Descends(job, f, done, Current)
  BY <1>1, <1>3, CurrentIs
<1>6. Current.lo < Current.hi /\ Current.hi - Current.lo = span /\ span > 0
  BY <1>4
<1>7. PICK g : Descends(job, g, done + 1, IF left THEN LeftOf(Current) ELSE RightOf(Current))
  BY <1>1, <1>4, <1>5, <1>6, DescentStep
<1>8. h \in Nat
  <2>1. span < Pow2[TimeBits - 1]
    BY <1>4, <1>6, HalfIsPositive DEF TimeInv
  <2> QED
    BY <1>4, <1>6, <2>1, HighBitFits
<1>9. LeftOf(Current) = [lo |-> time, hi |-> time + h - 1]
      /\ RightOf(Current) = [lo |-> time + h, hi |-> time + span]
  BY <1>4, <1>6 DEF LeftOf, RightOf
<1> HIDE DEF left, h
<1>10. Current' = IF left THEN LeftOf(Current) ELSE RightOf(Current)
  <2>1. CASE left
    <3>1. time' = time /\ time' + span' = time + h - 1
      BY <1>2, <1>4, <1>8, <2>1
    <3> QED
      BY <1>9, <2>1, <3>1 DEF Current
  <2>2. CASE ~left
    <3>1. time' = time + h /\ time' + span' = time + span
      BY <1>2, <1>4, <1>8, <2>2
    <3> QED
      BY <1>9, <2>2, <3>1 DEF Current
  <2> QED
    BY <2>1, <2>2
<1>11. Descends(job', g, done', Current')
  BY <1>2, <1>7, <1>10
<1> QED
  BY <1>1, <1>2, <1>3, <1>11 DEF DescentInv

\* A link that has no leaves below it is one no leaf has.
LEMMA NoLeavesLeft ==
  ASSUME StateInv, TimeInv, DescentInv, Running, job.op = "time", job.pubTime < Pow2[TimeBits - 1],
         done < Len(job.links), span <= 0, NEW t \in 0 .. job.pubTime
  PROVE  ~LeadsUp(job.links, t, job.pubTime)
<1> SUFFICES ASSUME LeadsUp(job.links, t, job.pubTime) PROVE FALSE
  OBVIOUS
<1> DEFINE p == job.pubTime
           k == Len(job.links)
           c == Climb(t, p, k)
<1>1. /\ Timed(job) /\ done \in 0 .. k /\ p \in Nat /\ Current \in Nodes(p)
      /\ span \in Nat /\ time \in Nat /\ Current.lo = time /\ Current.hi = time + span
  BY CurrentIs
<1>2. PICK f : Descends(job, f, done, Current)
  BY CurrentIs
<1>3. c[k - done] = Current
  BY <1>1, <1>2, ClimbMeetsDescent
<1>4. p < Pow2[TimeBits] /\ k \in Nat /\ p < Pow2[TimeBits - 1]
  BY <1>1 DEF Timed
<1>5. c \in [0 .. k -> Nodes(p)]
  BY <1>1, <1>4, ClimbIs
<1>6. \A i \in 1 .. k : c[i - 1] # Root(p)
  BY DEF LeadsUp
<1>7. \A i \in 1 .. k : c[i - 1] # Root(p) => IsNext(c[i], c[i - 1], p)
  BY <1>1, <1>4, ClimbStep
<1> HIDE DEF c, k, p
<1> DEFINE i == k - done
<1>8. i \in 1 .. k /\ i - 1 \in 0 .. k
  BY <1>1, <1>4 DEF k
<1> HIDE DEF i
<1>9. c[i - 1] \in Nodes(p) /\ IsNext(Current, c[i - 1], p)
  BY <1>3, <1>5, <1>6, <1>7, <1>8 DEF i
<1>10. Current.lo < Current.hi
  BY <1>1, <1>4, <1>9, NextBelowIsHalf
<1> QED
  BY <1>1, <1>10

\* The links end above a leaf, for every leaf they are the way of.
LEMMA LeavesLeft ==
  ASSUME StateInv, TimeInv, DescentInv, Running, job.op = "time", job.pubTime < Pow2[TimeBits - 1],
         done = Len(job.links), span # 0, NEW t \in 0 .. job.pubTime
  PROVE  ~LeadsUp(job.links, t, job.pubTime)
<1> SUFFICES ASSUME LeadsUp(job.links, t, job.pubTime) PROVE FALSE
  OBVIOUS
<1> DEFINE p == job.pubTime
           k == Len(job.links)
           c == Climb(t, p, k)
<1>1. /\ Timed(job) /\ done \in 0 .. k /\ p \in Nat
      /\ span \in Nat /\ time \in Nat /\ Current.lo = time /\ Current.hi = time + span
  BY CurrentIs
<1>2. PICK f : Descends(job, f, done, Current)
  BY CurrentIs
<1>3. c[k - done] = Current
  BY <1>1, <1>2, ClimbMeetsDescent
<1>4. p < Pow2[TimeBits] /\ k \in Nat /\ k - done = 0
  BY <1>1 DEF Timed
<1>5. c[0] = [lo |-> t, hi |-> t]
  BY <1>1, <1>4, ClimbIs
<1> HIDE DEF c
<1>6. Current = [lo |-> t, hi |-> t]
  BY <1>3, <1>4, <1>5
<1>7. Current.lo = t /\ Current.hi = t
  BY <1>6
<1> QED
  BY <1>1, <1>7

LEMMA PositionStep ==
  ASSUME StateInv, TimeInv, PositionInv, [Next]_vars
  PROVE  PositionInv'
<1>0. DescentInv /\ TimeIsPosition
  BY DEF PositionInv
<1>1. CASE TimeLink /\ ~(span <= 0)
  <2>1. DescentInv'
    BY <1>0, <1>1, DescentLink
  <2>2. res' = "running"
    BY <1>1 DEF TimeLink, Running
  <2> QED
    BY <2>1, <2>2 DEF PositionInv, TimeIsPosition, Returned
<1>2. CASE TimeLink /\ span <= 0
  <2>1. Running /\ job.op = "time" /\ done < Len(job.links) /\ Return("INVALID_FORMAT")
    BY <1>2 DEF TimeLink
  <2>2. res' = "INVALID_FORMAT" /\ UNCHANGED <<job, done, span, time>> /\ job \in Jobs
    BY <2>1, ReturnKeeps, RunningJob
  <2>3. DescentInv'
    BY <1>0, <2>2 DEF DescentInv, Current
  <2>4. job.pubTime >= Pow2[TimeBits - 1]
        \/ \A t \in 0 .. job.pubTime : ~LeadsUp(job.links, t, job.pubTime)
    <3>1. CASE job.pubTime < Pow2[TimeBits - 1]
      BY <1>0, <1>2, <2>1, <3>1, NoLeavesLeft
    <3> QED
      BY <2>2, <3>1, PubTimeIs
  <2>5. TimeIsPosition'
    BY <2>2, <2>4 DEF TimeIsPosition
  <2> QED
    BY <2>3, <2>5 DEF PositionInv
<1>3. CASE TimeEnd
  <2>1. /\ Running /\ job.op = "time" /\ done = Len(job.links)
        /\ Return(IF done = 0 \/ span # 0 THEN "INVALID_FORMAT" ELSE "OK")
    BY <1>3 DEF TimeEnd
  <2>2. /\ res' = IF done = 0 \/ span # 0 THEN "INVALID_FORMAT" ELSE "OK"
        /\ UNCHANGED <<job, done, span, time>> /\ job \in Jobs /\ job # None
    BY <2>1, ReturnKeeps, RunningJob
  <2>3. DescentInv'
    BY <1>0, <2>2 DEF DescentInv, Current
  <2>4. CASE res' = "OK"
    <3>1. done # 0 /\ span = 0
      BY <2>2, <2>4
    <3>2. job.pubTime < Pow2[TimeBits - 1]
      BY <1>0, <2>1, <2>2, <3>1 DEF DescentInv
    <3>3. Timed(job) /\ time \in Nat
      BY <1>0, <2>1, <3>2, CurrentIs
    <3>4. PICK f : Descends(job, f, done, Current)
      BY <1>0, <2>1, <3>2, CurrentIs
    <3>5. Current = [lo |-> time, hi |-> time]
      <4>1. time + span = time
        BY <3>1, <3>3
      <4> QED
        BY <4>1 DEF Current
    <3>6. Descends(job, f, Len(job.links), [lo |-> time, hi |-> time])
      BY <2>1, <3>4, <3>5
    <3>7. time \in 0 .. job.pubTime /\ LeadsUp(job.links, time, job.pubTime)
      BY <3>3, <3>6, DescentLeads
    <3>8. TimeIsPosition'
      BY <2>2, <2>4, <3>7 DEF TimeIsPosition
    <3> QED
      BY <2>3, <3>8 DEF PositionInv
  <2>5. CASE res' # "OK"
    <3>1. job.links # << >> =>
            job.pubTime >= Pow2[TimeBits - 1]
            \/ \A t \in 0 .. job.pubTime : ~LeadsUp(job.links, t, job.pubTime)
      <4> SUFFICES ASSUME job.links # << >>, job.pubTime < Pow2[TimeBits - 1], NEW t \in 0 .. job.pubTime
                   PROVE  ~LeadsUp(job.links, t, job.pubTime)
        BY <2>2, PubTimeIs
      <4>1. span # 0
        BY <2>1, <2>2, <2>5, PubTimeIs
      <4> QED
        BY <1>0, <2>1, <4>1, LeavesLeft
    <3>2. TimeIsPosition'
      BY <2>2, <2>5, <3>1 DEF TimeIsPosition
    <3> QED
      BY <2>3, <3>2 DEF PositionInv
  <2> QED
    BY <2>4, <2>5
<1>4. CASE Call
  <2>1. DescentInv'
    BY <1>4, DescentCall
  <2>2. res' = "running"
    BY <1>4 DEF Call
  <2> QED
    BY <2>1, <2>2 DEF PositionInv, TimeIsPosition, Returned
<1>5. CASE Leave
  BY <1>5 DEF Leave, PositionInv, DescentInv, TimeIsPosition, Returned
<1>6. CASE AggregateLink \/ AggregateEnd \/ Authenticate \/ Identify \/ Convert
  <2>1. Running /\ job.op # "time"
    BY <1>6 DEF AggregateLink, AggregateEnd, Authenticate, Identify, Convert
  <2>2. job' = job
    <3>1. CASE AggregateLink
      BY <3>1, LinkTaken, LinkRefused, ReturnKeeps
    <3>2. CASE AggregateEnd
      BY <3>2, ReturnKeeps DEF AggregateEnd
    <3>3. CASE Authenticate \/ Identify \/ Convert
      BY <3>3 DEF Authenticate, Identify, Convert
    <3> QED
      BY <1>6, <3>1, <3>2, <3>3
  <2> QED
    BY <2>1, <2>2 DEF PositionInv, DescentInv, TimeIsPosition
<1>7. CASE UNCHANGED vars
  <2>1. UNCHANGED <<job, done, span, time, res>>
    BY <1>7 DEF vars
  <2> QED
    BY <1>0, <2>1 DEF PositionInv, DescentInv, TimeIsPosition, Returned, Current
<1> QED
  BY <1>1, <1>2, <1>3, <1>4, <1>5, <1>6, <1>7 DEF Next, Compute

-----------------------------------------------------------------------------
(* Integers: of the numbers of so many bytes each is written in one way.   *)

LEMMA ElementType ==
  ASSUME NEW S, NEW s \in Seq(S)
  PROVE  Len(s) \in Nat /\ \A i \in 1 .. Len(s) : s[i] \in S
OBVIOUS

LEMMA ByteIs == Byte \in Nat /\ Byte > 0 /\ Byte = ByteMax + 1 /\ ByteMax \in Nat
BY LengthsAssumption DEF Byte

\* What is read of a number grows by a byte.
LEMMA GrowsByByte ==
  ASSUME NEW m \in Nat, NEW d \in Nat
  PROVE  m * Byte + d \in Nat
<1>1. m * Byte \in Nat
  <2>1. \A x, y \in Nat : x * y \in Nat
    OBVIOUS
  <2> QED
    BY <2>1, ByteIs
<1> DEFINE x == m * Byte
<1> HIDE DEF x
<1>2. ASSUME x \in Nat PROVE x + d \in Nat
  BY <1>2
<1> QED
  BY <1>1, <1>2 DEF x

LEMMA NumbersOfUnfolds ==
  /\ NumbersOf \in [0 .. IntBytes -> Nat] /\ NumbersOf[0] = 1
  /\ \A k \in 0 .. IntBytes - 1 : NumbersOf[k + 1] = Byte * NumbersOf[k]
  /\ \A k \in 0 .. IntBytes : NumbersOf[k] \in Nat /\ NumbersOf[k] > 0
<1> DEFINE F == [i \in 1 .. IntBytes |-> [n \in Nat |-> Byte * n]]
           P(f) == f = [k \in 0 .. IntBytes |-> IF k = 0 THEN 1 ELSE Byte * f[k - 1]]
<1>1. IntBytes \in Nat
  BY IntBytesAssumption
<1>2. PICK f : Runs(f, F, IntBytes, 1, Nat)
  <2>1. Steps(F, IntBytes, 1, Nat)
    <3>1. \A n \in Nat : Byte * n \in Nat
      BY ByteIs
    <3> QED
      BY <3>1 DEF Steps
  <2> HIDE DEF F
  <2> QED
    BY <1>1, <2>1, RecursionExists
<1>3. P(f)
  <2>1. ASSUME NEW i \in 0 .. IntBytes PROVE f[i] = IF i = 0 THEN 1 ELSE Byte * f[i - 1]
    <3>1. CASE i = 0
      BY <1>2, <3>1 DEF Runs
    <3>2. CASE i # 0
      <4>1. i \in 1 .. IntBytes /\ i - 1 \in 0 .. IntBytes
        BY <1>1, <3>2
      <4>2. f[i] = F[i][f[i - 1]] /\ f[i - 1] \in Nat
        BY <1>2, <4>1 DEF Runs
      <4> QED
        BY <3>2, <4>1, <4>2
    <3> QED
      BY <3>1, <3>2
  <2> QED
    BY <1>2, <2>1 DEF Runs
<1>4. NumbersOf = CHOOSE g : P(g)
  BY DEF NumbersOf
<1> HIDE DEF P
<1>5. P(NumbersOf)
  BY <1>3, <1>4
<1>6. \A k \in 0 .. IntBytes : NumbersOf[k] = IF k = 0 THEN 1 ELSE Byte * NumbersOf[k - 1]
  BY <1>5 DEF P
<1>7. NumbersOf[0] = 1
  BY <1>1, <1>6
<1>8. ASSUME NEW k \in 0 .. IntBytes - 1 PROVE NumbersOf[k + 1] = Byte * NumbersOf[k]
  <2>1. k + 1 \in 0 .. IntBytes /\ k + 1 # 0 /\ k + 1 - 1 = k
    BY <1>1
  <2> QED
    BY <2>1, <1>6
<1>9. \A k \in 0 .. IntBytes : NumbersOf[k] \in Nat /\ NumbersOf[k] > 0
  <2> DEFINE G == {k \in 0 .. IntBytes : NumbersOf[k] \in Nat /\ NumbersOf[k] > 0}
  <2>1. 0 \in G
    BY <1>1, <1>7
  <2>2. ASSUME NEW k \in 0 .. IntBytes - 1, k \in G PROVE k + 1 \in G
    <3>1. NumbersOf[k + 1] = Byte * NumbersOf[k] /\ k + 1 \in 0 .. IntBytes
      BY <1>1, <1>8
    <3> DEFINE m == NumbersOf[k]
    <3>2. m \in Nat /\ m > 0
      BY <2>2
    <3> HIDE DEF m
    <3>3. Byte * m \in Nat /\ Byte * m > 0
      BY <3>2, ByteIs
    <3> QED
      BY <3>1, <3>3 DEF m
  <2> HIDE DEF G
  <2>3. \A k \in 0 .. IntBytes : k \in G
    BY <1>1, <2>1, <2>2, Induction
  <2> QED
    BY <2>3 DEF G
<1>10. NumbersOf = [k \in 0 .. IntBytes |-> NumbersOf[k]]
  BY <1>5 DEF P
<1> QED
  BY <1>7, <1>8, <1>9, <1>10

LEMMA NumbersOfGrows ==
  ASSUME NEW k \in 0 .. IntBytes, NEW j \in 0 .. k
  PROVE  NumbersOf[j] <= NumbersOf[k]
<1> DEFINE G == {i \in 0 .. k - j : NumbersOf[j] <= NumbersOf[j + i]}
<1>1. IntBytes \in Nat /\ j \in 0 .. IntBytes /\ k - j \in Nat /\ k \in Nat
  BY IntBytesAssumption
<1>2. 0 \in G
  BY <1>1, NumbersOfUnfolds
<1>3. ASSUME NEW i \in 0 .. k - j - 1, i \in G PROVE i + 1 \in G
  <2>1. j + i \in 0 .. IntBytes - 1 /\ j + (i + 1) = j + i + 1 /\ i + 1 \in 0 .. k - j
        /\ j + i \in 0 .. IntBytes
    BY <1>1
  <2>2. NumbersOf[j + i + 1] = Byte * NumbersOf[j + i]
    BY <2>1, NumbersOfUnfolds
  <2> DEFINE m == NumbersOf[j + i]
             a == NumbersOf[j]
  <2>3. m \in Nat /\ a \in Nat /\ a <= m
    BY <1>1, <1>3, <2>1, NumbersOfUnfolds
  <2> HIDE DEF m, a
  <2>4. a <= Byte * m
    BY <2>3, ByteIs
  <2> QED
    BY <2>1, <2>2, <2>4 DEF m, a
<1> HIDE DEF G
<1>4. \A i \in 0 .. k - j : i \in G
  BY <1>1, <1>2, <1>3, Induction
<1>5. k - j \in G /\ j + (k - j) = k
  BY <1>1, <1>4
<1> QED
  BY <1>5 DEF G

\* What the first bytes of a payload are worth.
Worth(b, n) ==
  /\ n[0] = 0
  /\ \A i \in 1 .. Len(b) : n[i - 1] \in Nat /\ n[i] \in Nat /\ n[i] = n[i - 1] * Byte + b[i]
  /\ IntegerOf(b) = n[Len(b)] /\ \A i \in 0 .. Len(b) : n[i] \in Nat

LEMMA WorthExists ==
  ASSUME NEW b \in Seq(0 .. ByteMax)
  PROVE  \E n : Worth(b, n)
<1> DEFINE k == Len(b)
           F == [i \in 1 .. k |-> [m \in Nat |-> m * Byte + b[i]]]
           P(f) == f = [i \in 0 .. k |-> IF i = 0 THEN 0 ELSE f[i - 1] * Byte + b[i]]
<1>1. k \in Nat /\ \A i \in 1 .. k : b[i] \in Nat
  BY ByteIs
<1>2. PICK f : Runs(f, F, k, 0, Nat)
  <2>1. Steps(F, k, 0, Nat)
    <3>1. \A i \in 1 .. k : \A m \in Nat : m * Byte + b[i] \in Nat
      BY <1>1, GrowsByByte
    <3> HIDE DEF k
    <3> QED
      BY <3>1 DEF Steps
  <2> HIDE DEF F, k
  <2> QED
    BY <1>1, <2>1, RecursionExists
<1>3. P(f)
  <2>1. ASSUME NEW i \in 0 .. k PROVE f[i] = IF i = 0 THEN 0 ELSE f[i - 1] * Byte + b[i]
    <3>1. CASE i = 0
      BY <1>2, <3>1 DEF Runs
    <3>2. CASE i # 0
      <4>1. i \in 1 .. k /\ i - 1 \in 0 .. k
        BY <1>1, <3>2
      <4>2. f[i] = F[i][f[i - 1]] /\ f[i - 1] \in Nat
        BY <1>2, <4>1 DEF Runs
      <4> QED
        BY <3>2, <4>1, <4>2
    <3> QED
      BY <3>1, <3>2
  <2> QED
    BY <1>2, <2>1 DEF Runs
<1>4. IntegerOf(b) = (CHOOSE g : P(g))[k]
  BY DEF IntegerOf
<1> DEFINE g == CHOOSE h : P(h)
<1> HIDE DEF P
<1>5. P(g)
  BY <1>3
<1> HIDE DEF g
<1>6. \A i \in 0 .. k : g[i] = IF i = 0 THEN 0 ELSE g[i - 1] * Byte + b[i]
  BY <1>5 DEF P
<1>7. g[0] = 0 /\ \A i \in 1 .. k : g[i] = g[i - 1] * Byte + b[i]
  <2>1. 0 \in 0 .. k /\ \A i \in 1 .. k : i \in 0 .. k /\ i # 0
    BY <1>1
  <2> QED
    BY <1>6, <2>1
<1>8. \A i \in 0 .. k : g[i] \in Nat
  <2> DEFINE G == {i \in 0 .. k : g[i] \in Nat}
  <2>1. 0 \in G
    BY <1>1, <1>7
  <2>2. ASSUME NEW i \in 0 .. k - 1, i \in G PROVE i + 1 \in G
    <3>1. i + 1 \in 1 .. k /\ i + 1 - 1 = i /\ i + 1 \in 0 .. k
      BY <1>1
    <3>2. g[i + 1] = g[i] * Byte + b[i + 1] /\ b[i + 1] \in Nat /\ g[i] \in Nat
      BY <1>1, <1>7, <2>2, <3>1
    <3> DEFINE x == g[i] * Byte + b[i + 1]
    <3>3. g[i + 1] = x /\ x \in Nat
      <4>1. x \in Nat
        BY <3>2, GrowsByByte
      <4>2. g[i + 1] = x
        BY <3>2
      <4> QED
        BY <4>1, <4>2
    <3> HIDE DEF x
    <3>4. g[i + 1] \in Nat
      BY <3>3
    <3> QED
      BY <3>1, <3>4
  <2> HIDE DEF G, k
  <2>3. \A i \in 0 .. k : i \in G
    BY <1>1, <2>1, <2>2, Induction
  <2> QED
    BY <2>3 DEF G
<1>9. \A i \in 1 .. k : g[i - 1] \in Nat /\ g[i] \in Nat
  <2>1. \A i \in 1 .. k : i - 1 \in 0 .. k /\ i \in 0 .. k
    BY <1>1
  <2> QED
    BY <1>8, <2>1
<1>10. Worth(b, g)
  <2>1. IntegerOf(b) = g[k]
    BY <1>4 DEF g
  <2> QED
    BY <1>7, <1>8, <1>9, <2>1 DEF Worth
<1> QED
  BY <1>10

\* One more byte, as lowest: the number stays below the numbers of one byte more.
LEMMA OneMoreByte ==
  ASSUME NEW m \in Nat, NEW p \in Nat, NEW x \in 0 .. ByteMax
  PROVE  /\ m < p => m * Byte + x < Byte * p
         /\ p <= m => Byte * p <= m * Byte + x
<1>1. Byte \in Nat /\ Byte > 0 /\ x \in Nat /\ x <= Byte - 1
  BY ByteIs
<1> DEFINE b == Byte
<1>2. b \in Nat /\ b > 0 /\ x <= b - 1
  BY <1>1
<1> HIDE DEF b
<1>3. ASSUME m < p PROVE m * b + x < b * p
  <2>1. m + 1 <= p
    BY <1>3
  <2>2. (m + 1) * b <= p * b
    BY <1>2, <2>1
  <2>3. (m + 1) * b = m * b + b /\ p * b = b * p
    BY <1>2
  <2> QED
    BY <1>1, <1>2, <2>2, <2>3
<1>4. ASSUME p <= m PROVE b * p <= m * b + x
  <2>1. p * b <= m * b
    BY <1>2, <1>4
  <2>2. p * b = b * p /\ m * b \in Nat
    BY <1>2
  <2> QED
    BY <1>1, <1>2, <2>1, <2>2
<1> QED
  BY <1>3, <1>4 DEF b

LEMMA WorthBounds ==
  ASSUME NEW b \in Seq(0 .. ByteMax), Len(b) <= IntBytes, NEW n, Worth(b, n)
  PROVE  /\ \A i \in 0 .. Len(b) : n[i] < NumbersOf[i]
         /\ \A i \in 1 .. Len(b) : b[1] # 0 <=> NumbersOf[i - 1] <= n[i]
<1> DEFINE k == Len(b)
<1>1. k \in Nat /\ k <= IntBytes /\ IntBytes \in Nat /\ \A i \in 1 .. k : b[i] \in 0 .. ByteMax
  <2>1. \A i \in 1 .. Len(b) : b[i] \in 0 .. ByteMax
    BY ElementType
  <2>2. Len(b) \in Nat
    OBVIOUS
  <2> QED
    BY <2>1, <2>2, IntBytesAssumption
<1>2. /\ n[0] = 0 /\ \A i \in 0 .. k : n[i] \in Nat
      /\ \A i \in 1 .. k : n[i] = n[i - 1] * Byte + b[i]
  BY DEF Worth
<1> HIDE DEF k
<1> DEFINE G == {i \in 0 .. k : n[i] < NumbersOf[i]}
<1>3. 0 \in G
  BY <1>1, <1>2, NumbersOfUnfolds
<1>4. ASSUME NEW i \in 0 .. k - 1, i \in G PROVE i + 1 \in G
  <2>1. i + 1 \in 1 .. k /\ i + 1 - 1 = i /\ i + 1 \in 0 .. k /\ i \in 0 .. IntBytes - 1 /\ i \in 0 .. k
        /\ i \in 0 .. IntBytes
    BY <1>1
  <2>2. n[i + 1] = n[i] * Byte + b[i + 1] /\ b[i + 1] \in 0 .. ByteMax /\ n[i] \in Nat
    BY <1>1, <1>2, <2>1
  <2>3. NumbersOf[i + 1] = Byte * NumbersOf[i] /\ NumbersOf[i] \in Nat
    BY <2>1, NumbersOfUnfolds
  <2>4. n[i] < NumbersOf[i]
    BY <1>4
  <2>5. n[i] * Byte + b[i + 1] < Byte * NumbersOf[i]
    BY <2>2, <2>3, <2>4, OneMoreByte
  <2> QED
    BY <2>1, <2>2, <2>3, <2>5
<1> HIDE DEF G
<1>5. \A i \in 0 .. k : i \in G
  BY <1>1, <1>3, <1>4, Induction
<1> DEFINE H == {i \in 0 .. k : i > 0 => (b[1] # 0 <=> NumbersOf[i - 1] <= n[i])}
<1>6. 0 \in H
  BY <1>1
<1>7. ASSUME NEW i \in 0 .. k - 1, i \in H PROVE i + 1 \in H
  <2>1. i + 1 \in 1 .. k /\ i + 1 - 1 = i /\ i + 1 \in 0 .. k /\ i \in 0 .. k
    BY <1>1
  <2>2. n[i + 1] = n[i] * Byte + b[i + 1] /\ b[i + 1] \in 0 .. ByteMax /\ n[i] \in Nat
    BY <1>1, <1>2, <2>1
  <2>3. CASE i = 0
    <3>1. n[1] = b[1] /\ b[1] \in Nat
      <4>1. n[0] * Byte = 0
        BY <1>2, ByteIs
      <4> QED
        BY <2>2, <2>3, <4>1, ByteIs
    <3>2. NumbersOf[0] = 1
      BY NumbersOfUnfolds
    <3> QED
      BY <2>1, <2>3, <3>1, <3>2
  <2>4. CASE i # 0
    <3>1. i - 1 \in 0 .. IntBytes - 1 /\ i - 1 + 1 = i /\ i - 1 \in 0 .. IntBytes /\ i > 0
      BY <1>1, <2>4
    <3>2. NumbersOf[i] = Byte * NumbersOf[i - 1] /\ NumbersOf[i - 1] \in Nat
      BY <3>1, NumbersOfUnfolds
    <3>3. b[1] # 0 <=> NumbersOf[i - 1] <= n[i]
      BY <1>7, <3>1
    <3> DEFINE m == n[i]
               p == NumbersOf[i - 1]
               x == b[i + 1]
    <3>4. (m < p => m * Byte + x < Byte * p) /\ (p <= m => Byte * p <= m * Byte + x)
      BY <2>2, <3>2, OneMoreByte
    <3>5. m * Byte + x \in Nat /\ Byte * p \in Nat /\ m \in Nat /\ p \in Nat
      <4>1. m \in Nat /\ p \in Nat /\ x \in Nat
        BY <2>2, <3>2, ByteIs
      <4> HIDE DEF m, p, x
      <4> QED
        BY <4>1, ByteIs
    <3>6. p <= m <=> Byte * p <= m * Byte + x
      <4> DEFINE u == m * Byte + x
                 v == Byte * p
      <4>1. u \in Nat /\ v \in Nat /\ m \in Nat /\ p \in Nat /\ (m < p => u < v) /\ (p <= m => v <= u)
        BY <3>4, <3>5
      <4> HIDE DEF u, v, m, p
      <4> QED
        BY <4>1 DEF u, v
    <3> QED
      BY <2>1, <2>2, <3>2, <3>3, <3>6
  <2> QED
    BY <2>3, <2>4
<1> HIDE DEF H
<1>8. \A i \in 0 .. k : i \in H
  BY <1>1, <1>6, <1>7, Induction
<1>9. ASSUME NEW i \in 1 .. k PROVE b[1] # 0 <=> NumbersOf[i - 1] <= n[i]
  <2>1. i \in 0 .. k /\ i > 0
    BY <1>1
  <2> QED
    BY <1>8, <2>1 DEF H
<1> QED
  BY <1>5, <1>9 DEF G, k

\* The bytes a number takes.
LEMMA MinSizeIs ==
  ASSUME NEW v \in Nat, NEW k \in 0 .. IntBytes, v < NumbersOf[k]
  PROVE  /\ MinSize(v) \in 0 .. k
         /\ MinSize(v) = k <=> (k = 0 \/ NumbersOf[k - 1] <= v)
<1> DEFINE Fit(m) == v < NumbersOf[m] /\ (m = 0 \/ NumbersOf[m - 1] <= v)
           T == {m \in 0 .. k : v < NumbersOf[m]}
           c == MinSize(v)
<1>1. IntBytes \in Nat /\ k \in Nat /\ k \in T /\ T \subseteq Nat
  BY IntBytesAssumption
<1>2. PICK s \in T : \A m \in T : s <= m
  <2> HIDE DEF T
  <2> QED
    BY <1>1, LeastNumber
<1>3. s \in 0 .. k /\ s \in 0 .. IntBytes /\ v < NumbersOf[s]
  BY <1>1, <1>2
<1>4. s # 0 => NumbersOf[s - 1] <= v
  <2> SUFFICES ASSUME s # 0, ~(NumbersOf[s - 1] <= v) PROVE FALSE
    OBVIOUS
  <2>1. s - 1 \in 0 .. k /\ s - 1 \in 0 .. IntBytes
    BY <1>1, <1>3
  <2>2. NumbersOf[s - 1] \in Nat
    BY <2>1, NumbersOfUnfolds
  <2>3. s - 1 \in T
    BY <2>1, <2>2
  <2> QED
    BY <1>2, <1>3, <2>3
<1>5. c = CHOOSE m \in 0 .. IntBytes : Fit(m)
  BY DEF MinSize
<1>6. c \in 0 .. IntBytes /\ Fit(c)
  <2>1. \E m \in 0 .. IntBytes : Fit(m)
    BY <1>3, <1>4
  <2> HIDE DEF Fit, c
  <2> QED
    BY <1>5, <2>1
<1> HIDE DEF c
<1>7. c <= k
  <2> SUFFICES ASSUME k < c PROVE FALSE
    BY <1>1, <1>6
  <2>1. k \in 0 .. c - 1 /\ c - 1 \in 0 .. IntBytes
    BY <1>1, <1>6
  <2>2. NumbersOf[k] <= NumbersOf[c - 1] /\ NumbersOf[k] \in Nat /\ NumbersOf[c - 1] \in Nat
    BY <1>1, <2>1, NumbersOfGrows, NumbersOfUnfolds
  <2>3. NumbersOf[c - 1] <= v
    BY <1>1, <1>6
  <2> QED
    BY <2>2, <2>3
<1>8. ASSUME c = k PROVE k = 0 \/ NumbersOf[k - 1] <= v
  BY <1>6, <1>8
<1>9. ASSUME k = 0 \/ NumbersOf[k - 1] <= v PROVE c = k
  <2> SUFFICES ASSUME c < k PROVE FALSE
    BY <1>1, <1>6, <1>7
  <2>1. c \in 0 .. k - 1 /\ k - 1 \in 0 .. IntBytes /\ k # 0
    BY <1>1, <1>6
  <2>2. NumbersOf[c] <= NumbersOf[k - 1] /\ NumbersOf[c] \in Nat /\ NumbersOf[k - 1] \in Nat
    BY <1>6, <2>1, NumbersOfGrows, NumbersOfUnfolds
  <2> QED
    BY <1>6, <1>9, <2>1, <2>2
<1> QED
  BY <1>1, <1>6, <1>7, <1>8, <1>9 DEF c

LEMMA Quotient ==
  ASSUME NEW q \in Nat, NEW d \in Nat, d > 0, NEW r \in Nat, r < d
  PROVE  (q * d + r) \div d = q /\ (q * d + r) % d = r
<1>1. (q * d + r) % d = r
  BY SMTT(30)
<1>2. (q * d + r) \div d = q
  BY SMTT(30)
<1> QED
  BY <1>1, <1>2

\* The first bytes of a payload are the high part of what it is worth.
LEMMA WorthSplits ==
  ASSUME NEW b \in Seq(0 .. ByteMax), Len(b) <= IntBytes, NEW n, Worth(b, n), NEW i \in 0 .. Len(b)
  PROVE  \E r \in Nat : r < NumbersOf[Len(b) - i] /\ n[Len(b)] = n[i] * NumbersOf[Len(b) - i] + r
<1> DEFINE k == Len(b)
<1>1. k \in Nat /\ k <= IntBytes /\ IntBytes \in Nat /\ \A m \in 1 .. k : b[m] \in 0 .. ByteMax
  <2>1. \A m \in 1 .. Len(b) : b[m] \in 0 .. ByteMax
    BY ElementType
  <2>2. Len(b) \in Nat
    OBVIOUS
  <2> QED
    BY <2>1, <2>2, IntBytesAssumption
<1>2. /\ \A m \in 0 .. k : n[m] \in Nat
      /\ \A m \in 1 .. k : n[m] = n[m - 1] * Byte + b[m]
  BY DEF Worth
<1> HIDE DEF k
<1> DEFINE Split(m) == \E r \in Nat : r < NumbersOf[m] /\ n[k] = n[k - m] * NumbersOf[m] + r
           G == {m \in 0 .. k : Split(m)}
<1>3. 0 \in G
  <2>1. n[k] = n[k - 0] * 1 + 0 /\ 0 < 1
    <3>1. n[k] \in Nat /\ k - 0 = k
      BY <1>1, <1>2
    <3> QED
      BY <3>1
  <2>2. NumbersOf[0] = 1
    BY NumbersOfUnfolds
  <2> QED
    BY <1>1, <2>1, <2>2
<1>4. ASSUME NEW m \in 0 .. k - 1, m \in G PROVE m + 1 \in G
  <2>1. PICK r \in Nat : r < NumbersOf[m] /\ n[k] = n[k - m] * NumbersOf[m] + r
    BY <1>4
  <2>2. k - m \in 1 .. k /\ k - m - 1 = k - (m + 1) /\ m + 1 \in 0 .. k /\ k - (m + 1) \in 0 .. k
        /\ m \in 0 .. IntBytes /\ m \in 0 .. IntBytes - 1
    BY <1>1
  <2> DEFINE x == b[k - m]
             h == n[k - (m + 1)]
             p == NumbersOf[m]
  <2>3. n[k - m] = h * Byte + x /\ h \in Nat /\ x \in 0 .. ByteMax /\ p \in Nat /\ p > 0
        /\ NumbersOf[m + 1] = Byte * p
    BY <1>1, <1>2, <2>2, NumbersOfUnfolds
  <2> HIDE DEF x, h
  <2>4. n[k] = (h * Byte + x) * p + r /\ r < p
    BY <2>1, <2>3
  <2> HIDE DEF p
  <2>5. x \in Nat /\ Byte \in Nat /\ x + 1 <= Byte
    BY <2>3, ByteIs
  <2>6. (h * Byte + x) * p + r = h * (Byte * p) + (x * p + r)
    BY <2>3, <2>5
  <2>7. x * p + r < Byte * p /\ x * p + r \in Nat
    <3>1. (x + 1) * p <= Byte * p
      BY <2>3, <2>5
    <3>2. (x + 1) * p = x * p + p /\ x * p \in Nat
      BY <2>3, <2>5
    <3> QED
      BY <2>3, <2>4, <2>5, <3>1, <3>2
  <2>8. n[k] = n[k - (m + 1)] * NumbersOf[m + 1] + (x * p + r) /\ x * p + r < NumbersOf[m + 1]
    BY <2>3, <2>4, <2>6, <2>7 DEF h
  <2>9. Split(m + 1)
    BY <2>7, <2>8
  <2> QED
    BY <2>2, <2>9
<1> HIDE DEF G, Split
<1>5. \A m \in 0 .. k : m \in G
  BY <1>1, <1>3, <1>4, Induction
<1>6. k - i \in 0 .. k /\ k - (k - i) = i
  BY <1>1 DEF k
<1>7. Split(k - i)
  BY <1>5, <1>6 DEF G
<1> QED
  BY <1>6, <1>7 DEF Split, k

\* Of the integers just those without a zero in front are read, and they are written as read.
LEMMA IntegersReadBack ==
  ASSUME NEW b \in Seq(0 .. ByteMax)
  PROVE  /\ IntegerError(b) = "OK" <=> (Len(b) <= IntBytes /\ (b # << >> => b[1] # 0))
         /\ IntegerError(b) = "OK" => IntegerBytes(IntegerOf(b)) = b
<1> DEFINE k == Len(b)
<1>1. k \in Nat /\ IntBytes \in Nat /\ (b # << >> <=> k # 0)
  <2>1. k \in Nat /\ (b # << >> <=> k # 0)
    OBVIOUS
  <2> QED
    BY <2>1, IntBytesAssumption
<1>2. CASE k > IntBytes
  BY <1>1, <1>2 DEF IntegerError
<1>3. CASE k <= IntBytes
  <2>1. PICK n : Worth(b, n)
    BY WorthExists
  <2> DEFINE v == n[k]
  <2>2. IntegerOf(b) = v /\ v \in Nat /\ \A i \in 0 .. k : n[i] \in Nat
    <3>1. k \in 0 .. k
      BY <1>1
    <3> QED
      BY <2>1, <3>1 DEF Worth
  <2>3. v < NumbersOf[k] /\ k \in 0 .. IntBytes /\ (k # 0 => (b[1] # 0 <=> NumbersOf[k - 1] <= v))
    <3>1. k \in 0 .. k /\ (k # 0 => k \in 1 .. k) /\ k \in 0 .. IntBytes
      BY <1>1, <1>3
    <3> QED
      BY <1>3, <2>1, <3>1, WorthBounds
  <2> HIDE DEF v
  <2>4. MinSize(v) = k <=> (k = 0 \/ NumbersOf[k - 1] <= v)
    <3> HIDE DEF k
    <3> QED
      BY <2>2, <2>3, MinSizeIs
  <2>5. IntegerError(b) = "OK" <=> (b # << >> => b[1] # 0)
    <3>1. IntegerError(b) = "OK" <=> k = MinSize(v)
      BY <1>1, <1>3, <2>2 DEF IntegerError
    <3> HIDE DEF k
    <3> QED
      BY <1>1, <2>3, <2>4, <3>1
  <2>6. ASSUME IntegerError(b) = "OK" PROVE IntegerBytes(IntegerOf(b)) = b
    <3>1. MinSize(v) = k
      BY <1>1, <1>3, <2>2, <2>6 DEF IntegerError
    <3>2. IntegerBytes(IntegerOf(b)) = [i \in 1 .. k |-> (v \div NumbersOf[k - i]) % Byte]
      BY <2>2, <3>1 DEF IntegerBytes
    <3>3. ASSUME NEW i \in 1 .. k PROVE (v \div NumbersOf[k - i]) % Byte = b[i]
      <4>1. i \in 0 .. k /\ i - 1 \in 0 .. k /\ k - i \in 0 .. IntBytes
        BY <1>1, <1>3
      <4>2. PICK r \in Nat : r < NumbersOf[k - i] /\ v = n[i] * NumbersOf[k - i] + r
        BY <1>3, <2>1, <4>1, WorthSplits DEF v
      <4>3. NumbersOf[k - i] \in Nat /\ NumbersOf[k - i] > 0 /\ n[i] \in Nat /\ n[i - 1] \in Nat
        BY <2>2, <4>1, NumbersOfUnfolds
      <4>4. n[i] = n[i - 1] * Byte + b[i] /\ b[i] \in 0 .. ByteMax
        BY <2>1, ElementType DEF Worth
      <4>5. v \div NumbersOf[k - i] = n[i]
        <5> DEFINE q == n[i]
                   d == NumbersOf[k - i]
        <5>1. q \in Nat /\ d \in Nat /\ d > 0 /\ r < d /\ v = q * d + r
          BY <4>2, <4>3
        <5> HIDE DEF q, d
        <5>2. v \div d = q
          BY <5>1, Quotient
        <5> QED
          BY <5>2 DEF q, d
      <4>6. n[i] % Byte = b[i]
        <5> DEFINE q == n[i - 1]
                   x == b[i]
        <5>1. q \in Nat /\ x \in Nat /\ x < Byte /\ Byte \in Nat /\ Byte > 0 /\ n[i] = q * Byte + x
          BY <4>3, <4>4, ByteIs
        <5> HIDE DEF q, x
        <5>2. (q * Byte + x) % Byte = x
          BY <5>1, Quotient
        <5> QED
          BY <5>1, <5>2 DEF x
      <4> QED
        BY <4>5, <4>6
    <3>4. b = [i \in 1 .. k |-> b[i]]
      OBVIOUS
    <3> HIDE DEF k
    <3> QED
      BY <3>2, <3>3, <3>4
  <2> QED
    BY <1>3, <2>5, <2>6
<1> QED
  BY <1>1, <1>2, <1>3

-----------------------------------------------------------------------------
(* Strings: what verifyUtf8 looks at from one lead byte to the next is     *)
(* that every byte stands where it belongs.                                *)

Covers(b, j, m) ==
  m - j <= Continuations(b[j]) /\ \A k \in j + 1 .. m : b[k] = "continuation"

\* From position i on.
WellFrom(b, i) ==
  \A m \in i .. Len(b) :
    /\ b[m] # "other" /\ (b[m] = NUL => m = Len(b))
    /\ b[m] = "continuation" => \E j \in i .. m - 1 : Covers(b, j, m)
    /\ \A k \in m + 1 .. m + Continuations(b[m]) : k <= Len(b) /\ b[k] = "continuation"

LEMMA ContinuationsAre ==
  ASSUME NEW c
  PROVE  /\ Continuations(c) \in 0 .. 3
         /\ c \in {"continuation", "other", NUL} => Continuations(c) = 0
BY DEF Continuations, NUL

LEMMA WellStep ==
  ASSUME NEW b, Len(b) \in Nat, NEW i \in 1 .. Len(b)
  PROVE  LET n == Continuations(b[i])
         IN  WellFrom(b, i) <=>
               /\ ~((b[i] = NUL /\ i # Len(b)) \/ b[i] \in {"continuation", "other"})
               /\ ~(i + n > Len(b)) /\ ~(\E j \in i + 1 .. i + n : b[j] # "continuation")
               /\ WellFrom(b, i + n + 1)
<1> DEFINE n == Continuations(b[i])
           e == Len(b)
<1>1. n \in 0 .. 3 /\ e \in Nat
  BY ContinuationsAre
<1>2. ASSUME WellFrom(b, i)
      PROVE  /\ ~((b[i] = NUL /\ i # e) \/ b[i] \in {"continuation", "other"})
             /\ ~(i + n > e) /\ ~(\E j \in i + 1 .. i + n : b[j] # "continuation")
             /\ WellFrom(b, i + n + 1)
  <2>1. /\ b[i] # "other" /\ (b[i] = NUL => i = e)
        /\ b[i] = "continuation" => \E j \in i .. i - 1 : Covers(b, j, i)
        /\ \A k \in i + 1 .. i + n : k <= e /\ b[k] = "continuation"
    <3>1. i \in i .. e
      BY <1>1
    <3> QED
      BY <1>2, <3>1 DEF WellFrom
  <2>2. b[i] # "continuation"
    BY <2>1
  <2>3. ~(i + n > e)
    <3>1. CASE n = 0
      BY <1>1, <3>1
    <3>2. CASE n # 0
      <4>1. i + n \in i + 1 .. i + n
        BY <1>1, <3>2
      <4> HIDE DEF n
      <4> QED
        BY <1>1, <2>1, <4>1
    <3> QED
      BY <3>1, <3>2
  <2>4. ASSUME NEW m \in i + n + 1 .. e, b[m] = "continuation"
        PROVE  \E j \in i + n + 1 .. m - 1 : Covers(b, j, m)
    <3>1. m \in i .. e
      BY <1>1
    <3>2. PICK j \in i .. m - 1 : Covers(b, j, m)
      BY <1>2, <2>4, <3>1 DEF WellFrom
    <3>3. j # i
      <4>1. m - i > n
        BY <1>1
      <4> QED
        BY <1>1, <3>2, <4>1 DEF Covers
    <3>4. ~(j \in i + 1 .. i + n)
      <4> SUFFICES ASSUME j \in i + 1 .. i + n PROVE FALSE
        OBVIOUS
      <4>1. b[j] = "continuation"
        BY <2>1
      <4>2. Continuations(b[j]) = 0
        BY <4>1, ContinuationsAre
      <4>3. m - j <= 0
        BY <3>2, <4>2 DEF Covers
      <4> QED
        BY <4>3
    <3>5. j \in i + n + 1 .. m - 1
      BY <1>1, <3>3, <3>4
    <3> QED
      BY <3>2, <3>5
  <2>5. WellFrom(b, i + n + 1)
    <3>1. ASSUME NEW m \in i + n + 1 .. e
          PROVE  /\ b[m] # "other" /\ (b[m] = NUL => m = e)
                 /\ \A k \in m + 1 .. m + Continuations(b[m]) : k <= e /\ b[k] = "continuation"
      <4>1. m \in i .. e
        BY <1>1
      <4> QED
        BY <1>2, <4>1 DEF WellFrom
    <3> HIDE DEF n
    <3> QED
      BY <2>4, <3>1 DEF WellFrom
  <2> QED
    BY <2>1, <2>2, <2>3, <2>5
<1>3. ASSUME ~((b[i] = NUL /\ i # e) \/ b[i] \in {"continuation", "other"}),
             ~(i + n > e), ~(\E j \in i + 1 .. i + n : b[j] # "continuation"), WellFrom(b, i + n + 1)
      PROVE  WellFrom(b, i)
  <2> SUFFICES ASSUME NEW m \in i .. e
               PROVE  /\ b[m] # "other" /\ (b[m] = NUL => m = e)
                      /\ b[m] = "continuation" => \E j \in i .. m - 1 : Covers(b, j, m)
                      /\ \A k \in m + 1 .. m + Continuations(b[m]) : k <= e /\ b[k] = "continuation"
    BY DEF WellFrom
  <2>1. CASE m = i
    <3>1. \A k \in i + 1 .. i + n : k <= e /\ b[k] = "continuation"
      BY <1>1, <1>3
    <3> QED
      BY <1>3, <2>1, <3>1
  <2>2. CASE m \in i + 1 .. i + n
    <3>1. b[m] = "continuation" /\ \A k \in i + 1 .. m : b[k] = "continuation"
      BY <1>1, <1>3, <2>2
    <3>2. Continuations(b[m]) = 0 /\ m \in Int
      BY <3>1, ContinuationsAre
    <3>3. Covers(b, i, m) /\ i \in i .. m - 1
      <4>1. m - i <= n /\ i \in i .. m - 1
        BY <1>1, <2>2
      <4> QED
        BY <3>1, <4>1 DEF Covers
    <3>4. \A k \in m + 1 .. m + 0 : FALSE
      BY <3>2
    <3> QED
      BY <3>1, <3>2, <3>3, <3>4 DEF NUL
  <2>3. CASE m \in i + n + 1 .. e
    <3>1. /\ b[m] # "other" /\ (b[m] = NUL => m = e)
          /\ b[m] = "continuation" => \E j \in i + n + 1 .. m - 1 : Covers(b, j, m)
          /\ \A k \in m + 1 .. m + Continuations(b[m]) : k <= e /\ b[k] = "continuation"
      <4> HIDE DEF n
      <4> QED
        BY <1>3, <2>3 DEF WellFrom
    <3>2. \A j \in i + n + 1 .. m - 1 : j \in i .. m - 1
      BY <1>1
    <3> QED
      BY <3>1, <3>2
  <2> QED
    BY <1>1, <2>1, <2>2, <2>3
<1> QED
  BY <1>2, <1>3

LEMMA Utf8Verifies ==
  ASSUME NEW b, Len(b) \in Nat
  PROVE  VerifyUtf8(b) = "OK" <=> WellFrom(b, 1)
<1> DEFINE n == Len(b)
           P(f) == f = [i \in 1 .. n + 1 |-> Utf8Turn(b, f, i)]
           h == CHOOSE f : P(f)
<1>1. VerifyUtf8(b) = h[1]
  BY DEF VerifyUtf8, Utf8Turn
<1>2. P(h)
  <2>1. \E f : P(f)
    BY Utf8Exists
  <2> HIDE DEF P
  <2> QED
    BY <2>1
<1> HIDE DEF h
<1>3. \A i \in 1 .. n + 1 : h[i] = Utf8Turn(b, h, i)
  BY <1>2
<1> DEFINE G == {k \in 0 .. n : \A i \in n + 1 - k .. n + 1 : h[i] = "OK" <=> WellFrom(b, i)}
<1>4. 0 \in G
  <2>1. h[n + 1] = "OK"
    BY <1>3 DEF Utf8Turn
  <2>2. WellFrom(b, n + 1)
    BY DEF WellFrom
  <2>3. \A i \in n + 1 - 0 .. n + 1 : i = n + 1
    OBVIOUS
  <2> QED
    BY <2>1, <2>2, <2>3
<1>5. ASSUME NEW k \in 0 .. n - 1, k \in G PROVE k + 1 \in G
  <2> DEFINE p == n - k
             c == Continuations(b[p])
  <2>1. p \in 1 .. n /\ n + 1 - k = p + 1 /\ n + 1 - (k + 1) = p /\ k + 1 \in 0 .. n /\ p \in Nat
    OBVIOUS
  <2>2. \A i \in p + 1 .. n + 1 : h[i] = "OK" <=> WellFrom(b, i)
    BY <1>5, <2>1
  <2>3. h[p] = Utf8Turn(b, h, p)
    BY <1>3, <2>1
  <2> HIDE DEF p
  <2>4. c \in 0 .. 3
    BY ContinuationsAre
  <2> DEFINE wrong == (b[p] = NUL /\ p # Len(b)) \/ b[p] \in {"continuation", "other"}
             short == p + c > Len(b)
             broken == \E j \in p + 1 .. p + c : b[j] # "continuation"
  <2>5. h[p] = IF wrong THEN "INVALID_FORMAT" ELSE IF short THEN "BUFFER_OVERFLOW"
               ELSE IF broken THEN "INVALID_FORMAT" ELSE h[p + c + 1]
    <3>1. ~(p > Len(b))
      BY <2>1
    <3> QED
      BY <2>3, <3>1 DEF Utf8Turn
  <2>6. WellFrom(b, p) <=> ~wrong /\ ~short /\ ~broken /\ WellFrom(b, p + c + 1)
    BY <2>1, WellStep
  <2>7. ~short => p + c + 1 \in p + 1 .. n + 1
    BY <2>1, <2>4
  <2> HIDE DEF wrong, short, broken, c, n
  <2>8. h[p] = "OK" <=> WellFrom(b, p)
    BY <2>2, <2>5, <2>6, <2>7
  <2>9. \A i \in p .. n + 1 : i = p \/ i \in p + 1 .. n + 1
    BY <2>1
  <2> QED
    BY <2>1, <2>2, <2>8, <2>9
<1>6. n \in 0 .. n /\ n \in Nat /\ 1 \in n + 1 - n .. n + 1
  OBVIOUS
<1> HIDE DEF G, n
<1>7. n \in G
  BY <1>4, <1>5, <1>6, Induction
<1> QED
  BY <1>1, <1>6, <1>7 DEF G

\* A string is read just when it is well formed.
LEMMA StringsAreRead ==
  ASSUME NEW S, NEW b \in Seq(S)
  PROVE  /\ Utf8Error(b) = "OK" <=> WellFormed("utf8", b)
         /\ Utf8NzError(b) = "OK" <=> WellFormed("utf8nz", b)
<1> DEFINE e == Len(b)
<1>1. e \in Nat /\ DOMAIN b = 1 .. e /\ (b = << >> <=> e = 0)
  OBVIOUS
<1> DEFINE Well(min) ==
             /\ \A i \in DOMAIN b : b[i] # "other" /\ (b[i] = NUL <=> i = e)
             /\ e > min
             /\ \A i \in DOMAIN b : b[i] = "continuation" =>
                  \E j \in 1 .. i - 1 : /\ i - j <= Continuations(b[j])
                                       /\ \A k \in j + 1 .. i : b[k] = "continuation"
             /\ \A i \in DOMAIN b : \A k \in i + 1 .. i + Continuations(b[i]) :
                  k \in DOMAIN b /\ b[k] = "continuation"
<1>2. WellFormed("utf8", b) <=> Well(0)
  BY DEF WellFormed
<1>3. WellFormed("utf8nz", b) <=> Well(1)
  BY DEF WellFormed
<1>4. Utf8Error(b) = "OK" <=> e # 0 /\ b[e] = NUL /\ WellFrom(b, 1)
  BY <1>1, Utf8Verifies DEF Utf8Error
<1>5. ASSUME e # 0, b[e] = NUL, WellFrom(b, 1) PROVE Well(0)
  <2>1. ASSUME NEW i \in 1 .. e
        PROVE  /\ b[i] # "other" /\ (b[i] = NUL <=> i = e)
               /\ b[i] = "continuation" =>
                    \E j \in 1 .. i - 1 : /\ i - j <= Continuations(b[j])
                                         /\ \A k \in j + 1 .. i : b[k] = "continuation"
               /\ \A k \in i + 1 .. i + Continuations(b[i]) : k \in 1 .. e /\ b[k] = "continuation"
    <3>1. /\ b[i] # "other" /\ (b[i] = NUL <=> i = e)
          /\ b[i] = "continuation" => \E j \in 1 .. i - 1 : Covers(b, j, i)
          /\ \A k \in i + 1 .. i + Continuations(b[i]) : k <= e /\ b[k] = "continuation"
      BY <1>5 DEF WellFrom
    <3>2. \A k \in i + 1 .. i + Continuations(b[i]) : k <= e => k \in 1 .. e
      <4>1. Continuations(b[i]) \in 0 .. 3
        BY ContinuationsAre
      <4> QED
        BY <1>1, <4>1
    <3> QED
      BY <3>1, <3>2 DEF Covers
  <2>2. /\ \A i \in DOMAIN b : b[i] # "other" /\ (b[i] = NUL <=> i = e)
        /\ e > 0
    <3>1. \A i \in 1 .. e : b[i] # "other" /\ (b[i] = NUL <=> i = e)
      BY <2>1
    <3>2. e > 0
      BY <1>1, <1>5
    <3> HIDE DEF e
    <3> QED
      BY <1>1, <3>1, <3>2
  <2>3. \A i \in DOMAIN b : b[i] = "continuation" =>
          \E j \in 1 .. i - 1 : /\ i - j <= Continuations(b[j])
                               /\ \A k \in j + 1 .. i : b[k] = "continuation"
    BY <1>1, <2>1
  <2>4. \A i \in DOMAIN b : \A k \in i + 1 .. i + Continuations(b[i]) :
          k \in DOMAIN b /\ b[k] = "continuation"
    BY <1>1, <2>1
  <2> QED
    BY <2>2, <2>3, <2>4
<1>6. ASSUME Well(0) PROVE e # 0 /\ b[e] = NUL /\ WellFrom(b, 1)
  <2>1. e # 0 /\ e \in 1 .. e
    BY <1>1, <1>6
  <2>2. b[e] = NUL
    BY <1>1, <1>6, <2>1
  <2>3. ASSUME NEW m \in 1 .. e
        PROVE  /\ b[m] # "other" /\ (b[m] = NUL => m = e)
               /\ b[m] = "continuation" => \E j \in 1 .. m - 1 : Covers(b, j, m)
               /\ \A k \in m + 1 .. m + Continuations(b[m]) : k <= e /\ b[k] = "continuation"
    <3>1. /\ b[m] # "other" /\ (b[m] = NUL <=> m = e)
          /\ b[m] = "continuation" =>
               \E j \in 1 .. m - 1 : /\ m - j <= Continuations(b[j])
                                    /\ \A k \in j + 1 .. m : b[k] = "continuation"
          /\ \A k \in m + 1 .. m + Continuations(b[m]) : k \in 1 .. e /\ b[k] = "continuation"
      BY <1>1, <1>6
    <3> QED
      BY <3>1 DEF Covers
  <2>4. WellFrom(b, 1)
    BY <2>3 DEF WellFrom
  <2> QED
    BY <2>1, <2>2, <2>4
<1>7. Utf8Error(b) = "OK" <=> Well(0)
  <2> HIDE DEF Well
  <2> QED
    BY <1>4, <1>5, <1>6
<1>8. Well(1) <=> Well(0) /\ e > 1
  BY <1>1
<1>9. e # 0 /\ b[e] = NUL => (b = << NUL >> <=> ~(e > 1))
  BY <1>1
<1>10. Utf8NzError(b) = "OK" <=> Utf8Error(b) = "OK" /\ b # << NUL >>
  BY DEF Utf8NzError
<1> HIDE DEF Well
<1> QED
  BY <1>2, <1>3, <1>4, <1>7, <1>8, <1>9, <1>10

\* Payloads are read just when they have the right form, and written as they were read.
LEMMA ValueStep ==
  ASSUME StateInv, Convert
  PROVE  ValuesReadBack'
<1> DEFINE b == job.payload
           kind == job.kind
           value == Read(kind, b)
<1>1. job \in Jobs /\ job.op = "value" /\ job' = job
  BY RunningJob DEF Convert
<1>2. kind \in Kinds /\ b \in Seq(ToSet(b)) /\ (kind = "integer" => b \in Seq(0 .. ByteMax))
  BY <1>1, JobsAssumption
<1>3. IF ReadError(kind, b) # "OK" THEN res' = ReadError(kind, b) /\ output' = None
      ELSE IF WriteError(kind, value) # "OK" THEN res' = "NOT_WRITTEN" /\ output' = None
      ELSE res' = "OK" /\ output' = Written(kind, value)
  BY DEF Convert
<1>4. ReadError(kind, b) # "NOT_WRITTEN"
  <2>1. ReadError(kind, b) \in Codes
    BY <1>1, ErrorCodes
  <2> QED
    BY <2>1 DEF Codes
<1> HIDE DEF b, kind
<1>5. ReadError(kind, b) = "OK" <=> WellFormed(kind, b)
  <2>1. CASE kind = "integer"
    <3>1. IntegerError(b) = "OK" <=> (Len(b) <= IntBytes /\ (b # << >> => b[1] # 0))
      BY <1>2, <2>1, IntegersReadBack
    <3> QED
      BY <2>1, <3>1 DEF ReadError, WellFormed
  <2>2. CASE kind = "octets"
    BY <2>2 DEF ReadError, WellFormed
  <2>3. CASE kind = "imprint"
    <3>1. Len(b) \in Nat /\ (b = << >> <=> Len(b) = 0)
      <4> DEFINE S == ToSet(b)
      <4>1. b \in Seq(S)
        BY <1>2
      <4> HIDE DEF S
      <4> QED
        BY <4>1
    <3>2. \A a \in Algorithms : DigestLen[a] \in Nat
      BY LengthsAssumption
    <3>3. ImprintError(b) = "OK" <=> Len(b) > 1 /\ b[1] \in Algorithms /\ Len(b) = 1 + DigestLen[b[1]]
      <4> DEFINE n == Len(b)
                 known == b[1] \in Algorithms
                 d == DigestLen[b[1]]
      <4>1. ImprintError(b) = (IF n = 1 THEN "INVALID_ARGUMENT"
              ELSE IF b = << >> \/ ~known \/ d # n - 1 THEN "INVALID_FORMAT" ELSE "OK")
        BY DEF ImprintError
      <4>2. n \in Nat /\ (b = << >> <=> n = 0) /\ (known => d \in Nat)
        BY <3>1, <3>2
      <4> HIDE DEF n, known, d
      <4>5. ImprintError(b) = "OK" <=> n > 1 /\ known /\ n = 1 + d
        BY <4>1, <4>2
      <4> QED
        BY <4>5 DEF n, known, d
    <3> QED
      BY <2>3, <3>3 DEF ReadError, WellFormed
  <2>4. CASE kind = "utf8"
    BY <1>2, <2>4, StringsAreRead DEF ReadError
  <2>5. CASE kind = "utf8nz"
    BY <1>2, <2>5, StringsAreRead DEF ReadError
  <2> QED
    BY <1>2, <2>1, <2>2, <2>3, <2>4, <2>5 DEF Kinds
<1>6. ASSUME WriteError(kind, value) # "OK" PROVE kind = "octets" /\ b = << >>
  BY <1>6 DEF WriteError, Read
<1>7. ASSUME ReadError(kind, b) = "OK" PROVE Written(kind, value) = b
  <2>1. CASE kind = "integer"
    <3>1. IntegerError(b) = "OK"
      BY <1>7, <2>1 DEF ReadError
    <3>2. IntegerBytes(IntegerOf(b)) = b
      BY <1>2, <2>1, <3>1, IntegersReadBack
    <3> QED
      BY <2>1, <3>2 DEF Written, Read
  <2>2. CASE kind # "integer"
    BY <2>2 DEF Written, Read
  <2> QED
    BY <2>1, <2>2
<1>8. /\ res' \in {"OK", "NOT_WRITTEN"} <=> WellFormed(kind, b)
      /\ res' = "OK" => output' = b
      /\ res' = "NOT_WRITTEN" => kind = "octets" /\ b = << >>
  <2> HIDE DEF value
  <2> QED
    BY <1>3, <1>4, <1>5, <1>6, <1>7
<1> QED
  BY <1>1, <1>8 DEF ValuesReadBack, b, kind

-----------------------------------------------------------------------------
(* The names of the signers.                                               *)

LEMMA CutIs ==
  ASSUME NEW s \in Text
  PROVE  /\ CutAt(s) \in 0 .. Len(s) /\ Cut(s) \in Text /\ Len(Cut(s)) = CutAt(s)
         /\ \A i \in 1 .. CutAt(s) : s[i] # NUL
<1> DEFINE k == Len(s)
           T == {n \in 0 .. k : n = k \/ s[n + 1] = NUL}
           Fit(n) == (n = k \/ s[n + 1] = NUL) /\ \A i \in 1 .. n : s[i] # NUL
           c == CutAt(s)
<1>1. s \in Seq(Characters) /\ k \in Nat
  BY DEF Text
<1>2. T \subseteq Nat /\ k \in T
  BY <1>1
<1>3. PICK m \in T : \A n \in T : m <= n
  <2> HIDE DEF T
  <2> QED
    BY <1>2, LeastNumber
<1>4. Fit(m) /\ m \in 0 .. k
  <2>1. ASSUME NEW i \in 1 .. m, s[i] = NUL PROVE FALSE
    <3>1. i - 1 \in 0 .. k /\ i - 1 + 1 = i
      BY <1>1, <1>3
    <3>2. i - 1 \in T
      BY <2>1, <3>1
    <3> QED
      BY <1>1, <1>3, <3>2
  <2> QED
    BY <1>3, <2>1
<1>5. c = CHOOSE n \in 0 .. k : Fit(n)
  BY DEF CutAt
<1>6. c \in 0 .. k /\ Fit(c)
  <2> HIDE DEF Fit, c
  <2> QED
    BY <1>4, <1>5
<1> HIDE DEF c
<1>7. SubSeq(s, 1, c) \in Seq(Characters) /\ Len(SubSeq(s, 1, c)) = c
  BY <1>1, <1>6
<1> QED
  BY <1>6, <1>7 DEF Cut, c, Text

\* A link with a name.
NamedLink(l) == LinkWithName(l) /\ l.content \in {"metaHash", "metaData"}

LEMMA NamedAre ==
  ASSUME NEW links, links \in Seq(ToSet(links)), \A i \in 1 .. Len(links) : LinkWithName(links[i])
  PROVE  /\ Len(Named(links)) \in Nat /\ DOMAIN Named(links) = 1 .. Len(Named(links))
         /\ \A i \in 1 .. Len(Named(links)) :
              NamedLink(Named(links)[i]) /\ \E j \in DOMAIN links : Named(links)[i] = links[j]
<1> DEFINE S == ToSet(links)
           T == {l \in S : l.content \in {"metaHash", "metaData"}}
           r == Reverse(links)
<1>1. S = {links[i] : i \in DOMAIN links} /\ DOMAIN links = 1 .. Len(links) /\ Len(links) \in Nat
  BY DEF ToSet
<1> HIDE DEF S
<1>2. r = [i \in 1 .. Len(links) |-> links[Len(links) - i + 1]]
  BY DEF Reverse
<1>3. \A i \in 1 .. Len(links) : Len(links) - i + 1 \in 1 .. Len(links)
  BY <1>1
<1>4. r \in Seq(S)
  <2>1. \A i \in 1 .. Len(links) : links[Len(links) - i + 1] \in S
    BY <1>1, <1>3
  <2> HIDE DEF r
  <2> QED
    BY <1>1, <1>2, <2>1
<1>5. Named(links) = Selected(r, T)
  BY DEF Named, S
<1> HIDE DEF r, T
<1>6. Selected(r, T) \in Seq(S \cap T)
  BY <1>4, SelectedType
<1>7. Len(Named(links)) \in Nat /\ DOMAIN Named(links) = 1 .. Len(Named(links))
      /\ \A i \in 1 .. Len(Named(links)) : Named(links)[i] \in S \cap T
  BY <1>5, <1>6
<1>8. ASSUME NEW l \in S \cap T PROVE NamedLink(l) /\ \E j \in DOMAIN links : l = links[j]
  BY <1>1, <1>8 DEF T, NamedLink
<1> QED
  BY <1>7, <1>8

LEMMA MetaLenIs ==
  ASSUME NEW m, m.meta \in Nat
  PROVE  MetaLen(m) \in Nat /\ (m.meta <= ByteMax => MetaLen(m) = m.meta)
<1>1. ByteMax \in Nat
  BY ByteIs
<1> DEFINE x == m.meta
<1>2. x \in Nat
  OBVIOUS
<1> HIDE DEF x
<1>3. x % (ByteMax + 1) \in Nat /\ (x <= ByteMax => x % (ByteMax + 1) = x)
  BY <1>1, <1>2
<1> QED
  BY <1>3 DEF MetaLen, x

MetaIs(m) == m.size \in Nat /\ m.meta \in Nat /\ m.body \in Text /\ m.left \in Text

\* A name, and the space for it, which is enough for one that ends within its metahash.
LEMMA NameIs ==
  ASSUME NEW l, NamedLink(l)
  PROVE  /\ Name(l) \in Text /\ Room(l) \in Nat
         /\ l.content = "metaHash" => MetaIs(l.value)
         /\ (l.content = "metaHash" => MetaError(l.value) = "OK" /\ Ended(l.value))
              => Len(Name(l)) + 4 <= Room(l)
<1>1. CASE l.content = "metaHash"
  <2> DEFINE m == l.value
             s == m.body \o m.left
  <2>1. MetaIs(m)
    BY <1>1 DEF NamedLink, LinkWithName, MetaIs
  <2>2. m.body \in Seq(Characters) /\ m.left \in Seq(Characters) /\ MetaLen(m) \in Nat
    BY <2>1, MetaLenIs DEF MetaIs, Text
  <2>3. Name(l) = Cut(s) /\ Room(l) = 4 + MetaLen(m)
    BY <1>1 DEF Name, Room
  <2> HIDE DEF m
  <2> DEFINE x == m.body
             y == m.left
             k == Len(x)
             n == MetaLen(m)
             c == CutAt(s)
  <2>9. x \in Seq(Characters) /\ y \in Seq(Characters) /\ n \in Nat /\ s = x \o y
    BY <2>2
  <2> HIDE DEF x, y, s, n
  <2>4. s \in Text /\ k \in Nat /\ k <= Len(s) /\ Len(s) \in Nat /\ \A i \in 1 .. k : s[i] = x[i]
    <3>1. s \in Seq(Characters)
      BY <2>9
    <3>2. Len(s) = Len(x) + Len(y) /\ Len(x) \in Nat /\ Len(y) \in Nat
      BY <2>9
    <3>3. \A i \in 1 .. Len(x) : s[i] = x[i]
      BY <2>9
    <3> QED
      BY <3>1, <3>2, <3>3 DEF Text
  <2>5. /\ c \in 0 .. Len(s) /\ Cut(s) \in Text /\ Len(Cut(s)) = c
        /\ \A i \in 1 .. c : s[i] # NUL
    BY <2>4, CutIs
  <2> HIDE DEF c
  <2>6. ASSUME MetaError(m) = "OK", Ended(m) PROVE c <= n
    <3>1. DOMAIN x = 1 .. k
      BY <2>9
    <3>2. PICK i \in 1 .. k : x[i] = NUL
      BY <2>6, <3>1 DEF Ended, x
    <3>4. \A j \in n + 1 .. k : x[j] = NUL
      BY <2>6 DEF MetaError, n, x
    <3> HIDE DEF k
    <3>6. c \in Nat /\ k \in Nat /\ n \in Nat
      BY <2>4, <2>5, <2>9
    <3>3. c < i
      <4>1. s[i] = NUL
        BY <2>4, <3>2
      <4>2. ~(i \in 1 .. c)
        BY <2>5, <4>1
      <4> QED
        BY <3>2, <3>6, <4>2
    <3>7. ASSUME n < c PROVE FALSE
      <4>1. c \in n + 1 .. k /\ c \in 1 .. c /\ c \in 1 .. k
        BY <3>2, <3>3, <3>6, <3>7
      <4>2. s[c] = NUL
        BY <2>4, <3>4, <4>1
      <4> QED
        BY <2>5, <4>1, <4>2
    <3> QED
      BY <3>6, <3>7
  <2>7. MetaError(m) = "OK" /\ Ended(m) => c + 4 <= 4 + n
    <3>1. c \in Nat
      BY <2>4, <2>5
    <3> QED
      BY <2>9, <2>6, <3>1
  <2>8. 4 + n \in Nat
    BY <2>9
  <2> QED
    BY <1>1, <2>1, <2>3, <2>5, <2>7, <2>8 DEF m, n
<1>2. CASE l.content = "metaData"
  <2> DEFINE s == l.value
  <2>1. s \in Text /\ Name(l) = Cut(s) /\ Room(l) = 4 + (Len(s) + 1)
    BY <1>2 DEF NamedLink, LinkWithName, Name, Room
  <2> HIDE DEF s
  <2>2. CutAt(s) \in 0 .. Len(s) /\ Cut(s) \in Text /\ Len(Cut(s)) = CutAt(s) /\ Len(s) \in Nat
    BY <2>1, CutIs DEF Text
  <2> QED
    BY <1>2, <2>1, <2>2
<1> QED
  BY <1>1, <1>2 DEF NamedLink

\* The links with a name that an identity is made of.
AreNamed(named) ==
  /\ Len(named) \in Nat /\ DOMAIN named = 1 .. Len(named)
  /\ \A i \in 1 .. Len(named) : NamedLink(named[i])

\* The space set aside grows with every name.
LEMMA RoomsAre ==
  ASSUME NEW named, AreNamed(named)
  PROVE  /\ Rooms(named)[0] = 1
         /\ \A i \in 1 .. Len(named) : Rooms(named)[i] = Rooms(named)[i - 1] + Room(named[i])
         /\ \A i \in 0 .. Len(named) :
              Rooms(named)[i] \in Nat /\ 1 <= Rooms(named)[i] /\ Rooms(named)[i] <= BufferSize(named)
<1> DEFINE k == Len(named)
           room(i) == Room(named[i])
           F == [i \in 1 .. k |-> [m \in Nat |-> m + room(i)]]
           P(f) == f = [i \in 0 .. k |-> IF i = 0 THEN 1 ELSE f[i - 1] + Room(named[i])]
<1>1. k \in Nat /\ \A i \in 1 .. k : room(i) \in Nat
  BY NameIs DEF AreNamed
<1>2. PICK f : Runs(f, F, k, 1, Nat)
  <2>1. Steps(F, k, 1, Nat)
    <3>1. \A i \in 1 .. k : \A m \in Nat : m + room(i) \in Nat
      BY <1>1
    <3> HIDE DEF k, room
    <3> QED
      BY <3>1 DEF Steps
  <2> HIDE DEF F, k
  <2> QED
    BY <1>1, <2>1, RecursionExists
<1>3. P(f)
  <2>1. ASSUME NEW i \in 0 .. k PROVE f[i] = IF i = 0 THEN 1 ELSE f[i - 1] + Room(named[i])
    <3>1. CASE i = 0
      BY <1>2, <3>1 DEF Runs
    <3>2. CASE i # 0
      <4>1. i \in 1 .. k /\ i - 1 \in 0 .. k
        BY <1>1, <3>2
      <4>2. f[i] = F[i][f[i - 1]] /\ f[i - 1] \in Nat
        BY <1>2, <4>1 DEF Runs
      <4> QED
        BY <3>2, <4>1, <4>2
    <3> QED
      BY <3>1, <3>2
  <2>2. f = [i \in 0 .. k |-> f[i]]
    BY <1>2 DEF Runs
  <2> QED
    BY <2>1, <2>2
<1>4. Rooms(named) = CHOOSE g : P(g)
  BY DEF Rooms
<1> DEFINE g == Rooms(named)
<1> HIDE DEF P
<1>5. P(g)
  BY <1>3, <1>4
<1> HIDE DEF g
<1>6. \A i \in 0 .. k : g[i] = IF i = 0 THEN 1 ELSE g[i - 1] + room(i)
  BY <1>5 DEF P
<1> HIDE DEF k, room
<1>7. g[0] = 1 /\ \A i \in 1 .. k : g[i] = g[i - 1] + room(i)
  <2>1. 0 \in 0 .. k /\ \A i \in 1 .. k : i \in 0 .. k /\ i # 0
    BY <1>1
  <2> QED
    BY <1>6, <2>1
<1>8. \A i \in 0 .. k : g[i] \in Nat /\ 1 <= g[i]
  <2> DEFINE G == {i \in 0 .. k : g[i] \in Nat /\ 1 <= g[i]}
  <2>1. 0 \in G
    BY <1>1, <1>7
  <2>2. ASSUME NEW i \in 0 .. k - 1, i \in G PROVE i + 1 \in G
    <3>1. i + 1 \in 1 .. k /\ i + 1 - 1 = i /\ i + 1 \in 0 .. k
      BY <1>1
    <3>2. g[i + 1] = g[i] + room(i + 1) /\ room(i + 1) \in Nat /\ g[i] \in Nat /\ 1 <= g[i]
      BY <1>1, <1>7, <2>2, <3>1
    <3> QED
      BY <3>1, <3>2
  <2> HIDE DEF G
  <2>3. \A i \in 0 .. k : i \in G
    BY <1>1, <2>1, <2>2, Induction
  <2> QED
    BY <2>3 DEF G
<1>9. ASSUME NEW i \in 0 .. k PROVE g[i] <= g[k]
  <2> DEFINE G == {j \in 0 .. k : i <= j => g[i] <= g[j]}
  <2>1. 0 \in G
    BY <1>1, <1>8
  <2>2. ASSUME NEW j \in 0 .. k - 1, j \in G PROVE j + 1 \in G
    <3>1. j + 1 \in 1 .. k /\ j + 1 - 1 = j /\ j + 1 \in 0 .. k /\ j \in 0 .. k
      BY <1>1
    <3>2. g[j + 1] = g[j] + room(j + 1) /\ room(j + 1) \in Nat
      BY <1>1, <1>7, <3>1
    <3>3. g[j] \in Nat /\ g[i] \in Nat /\ g[j + 1] \in Nat
      BY <1>8, <3>1
    <3>4. i <= j => g[i] <= g[j]
      BY <2>2
    <3>5. CASE i <= j
      BY <3>1, <3>2, <3>3, <3>4, <3>5
    <3>6. CASE i = j + 1
      BY <3>1, <3>3, <3>6
    <3> QED
      BY <1>1, <3>1, <3>5, <3>6
  <2> HIDE DEF G
  <2>3. k \in 0 .. k /\ \A j \in 0 .. k : j \in G
    BY <1>1, <2>1, <2>2, Induction
  <2> QED
    BY <1>1, <2>3 DEF G
<1>10. BufferSize(named) = g[k]
  BY DEF BufferSize, g, k
<1> QED
  BY <1>7, <1>8, <1>9, <1>10 DEF g, k, room

LEMMA TextFacts ==
  /\ Separator \in Text /\ Len(Separator) = 4 /\ << >> \in Text /\ Len(<< >>) = 0
  /\ \A s \in Text : Len(s) \in Nat /\ (s = << >> <=> Len(s) = 0) /\ << >> \o s = s /\ s \o << >> = s
  /\ \A s, t \in Text : s \o t \in Text /\ Len(s \o t) = Len(s) + Len(t)
  /\ \A s, t, u \in Text : (s \o t) \o u = s \o (t \o u)
<1>1. Separator \in Text /\ Len(Separator) = 4 /\ << >> \in Text /\ Len(<< >>) = 0
  <2>1. DOMAIN Separator = 1 .. 4 /\ Len(Separator) = 4
    BY DEF Separator
  <2>2. \A i \in 1 .. 4 : Separator[i] \in Characters
    BY <2>1 DEF Characters, ToSet
  <2>3. Separator \in Seq(Characters)
    <3> DEFINE blank == Separator[1]
               colon == Separator[2]
    <3>1. Separator = << blank, colon, colon, blank >>
      BY DEF Separator
    <3>2. blank \in Characters /\ colon \in Characters
      BY <2>2
    <3> HIDE DEF blank, colon
    <3>3. << blank, colon, colon, blank >> \in Seq(Characters)
      BY <3>2
    <3> QED
      BY <3>1, <3>3
  <2>4. << >> \in Seq(Characters) /\ Len(<< >>) = 0
    OBVIOUS
  <2> QED
    BY <2>1, <2>3, <2>4 DEF Text
<1>2. ASSUME NEW s \in Text
      PROVE  Len(s) \in Nat /\ (s = << >> <=> Len(s) = 0) /\ << >> \o s = s /\ s \o << >> = s
  <2>1. s \in Seq(Characters)
    BY DEF Text
  <2>2. Len(s) \in Nat /\ (s = << >> <=> Len(s) = 0)
    BY <2>1
  <2>3. << >> \o s = s /\ s \o << >> = s
    BY <2>1, ConcatEmptySeq
  <2> QED
    BY <2>2, <2>3
<1>3. ASSUME NEW s \in Text, NEW t \in Text PROVE s \o t \in Text /\ Len(s \o t) = Len(s) + Len(t)
  <2>1. s \in Seq(Characters) /\ t \in Seq(Characters)
    BY DEF Text
  <2>2. s \o t \in Seq(Characters) /\ Len(s \o t) = Len(s) + Len(t)
    BY <2>1
  <2> QED
    BY <2>2 DEF Text
<1>4. ASSUME NEW s \in Text, NEW t \in Text, NEW u \in Text PROVE (s \o t) \o u = s \o (t \o u)
  <2>1. s \in Seq(Characters) /\ t \in Seq(Characters) /\ u \in Seq(Characters)
    BY DEF Text
  <2> QED
    BY <2>1, ConcatAssociative
<1> QED
  BY <1>1, <1>2, <1>3, <1>4

\* A name with the separator before it, that is set at the end of a text.
Appended(text, name) == text \o ((IF text = << >> THEN << >> ELSE Separator) \o name)

\* What is printed leaves space for a zero, and is not cut when it fits.
LEMMA PrintedIs ==
  ASSUME NEW text \in Text, NEW name \in Text, NEW size \in Nat, Len(text) < size
  PROVE  /\ PrintTo(text, name, size) \in Text /\ Len(PrintTo(text, name, size)) < size
         /\ Len(text) + 4 + Len(name) < size => PrintTo(text, name, size) = Appended(text, name)
         /\ Appended(text, name) \in Text /\ Len(Appended(text, name)) <= Len(text) + 4 + Len(name)
<1> DEFINE new == (IF text = << >> THEN << >> ELSE Separator) \o name
           free == size - Len(text) - 1
           k == IF Len(new) > free THEN free ELSE Len(new)
<1>1. new \in Text /\ Len(new) \in Nat /\ Len(new) <= 4 + Len(name) /\ Len(name) \in Nat /\ Len(text) \in Nat
  <2>1. Len(name) \in Nat /\ Len(text) \in Nat
    BY TextFacts
  <2>2. CASE text = << >>
    BY <2>1, <2>2, TextFacts
  <2>3. CASE text # << >>
    <3>1. new = Separator \o name
      BY <2>3
    <3>2. Separator \o name \in Text /\ Len(Separator \o name) = 4 + Len(name)
      <4>1. Separator \in Text /\ Len(Separator) = 4
        BY TextFacts
      <4>2. Separator \o name \in Text /\ Len(Separator \o name) = Len(Separator) + Len(name)
        BY <4>1, TextFacts
      <4> QED
        BY <4>1, <4>2
    <3> HIDE DEF new
    <3> QED
      BY <2>1, <3>1, <3>2
  <2> QED
    BY <2>1, <2>2, <2>3
<1>2. PrintTo(text, name, size) = text \o SubSeq(new, 1, k) /\ Appended(text, name) = text \o new
  BY DEF PrintTo, Appended
<1> HIDE DEF new
<1>3. free \in Nat /\ k \in 0 .. Len(new) /\ k <= free
  BY <1>1
<1>4. SubSeq(new, 1, k) \in Text /\ Len(SubSeq(new, 1, k)) = k
  <2>1. new \in Seq(Characters)
    BY <1>1 DEF Text
  <2> HIDE DEF k
  <2> QED
    BY <1>3, <2>1 DEF Text
<1>5. Len(text) + 4 + Len(name) < size => SubSeq(new, 1, k) = new
  <2>1. new \in Seq(Characters)
    BY <1>1 DEF Text
  <2>2. SUFFICES ASSUME Len(text) + 4 + Len(name) < size PROVE SubSeq(new, 1, k) = new
    OBVIOUS
  <2>3. k = Len(new)
    BY <1>1, <2>2
  <2> HIDE DEF k
  <2>4. SubSeq(new, 1, Len(new)) = new
    BY <2>1
  <2> QED
    BY <2>3, <2>4
<1> DEFINE cut == SubSeq(new, 1, k)
<1>6. text \o cut \in Text /\ Len(text \o cut) = Len(text) + k
  <2>1. cut \in Text /\ Len(cut) = k
    BY <1>4
  <2> HIDE DEF cut, k
  <2> QED
    BY <2>1, TextFacts
<1>7. Len(text) + k < size
  <2> HIDE DEF k
  <2> QED
    BY <1>1, <1>3
<1>8. text \o new \in Text /\ Len(text \o new) = Len(text) + Len(new)
  BY <1>1, TextFacts
<1>9. Len(text) + Len(new) <= Len(text) + 4 + Len(name)
  BY <1>1
<1> QED
  BY <1>2, <1>5, <1>6, <1>7, <1>8, <1>9

LEMMA TextsAre ==
  ASSUME NEW named, AreNamed(named)
  PROVE  /\ Texts(named)[0] = << >>
         /\ \A i \in 1 .. Len(named) :
              Texts(named)[i] = PrintTo(Texts(named)[i - 1], Name(named[i]), BufferSize(named))
         /\ \A i \in 0 .. Len(named) :
              Texts(named)[i] \in Text /\ Len(Texts(named)[i]) < BufferSize(named)
<1> DEFINE k == Len(named)
           size == BufferSize(named)
           name(i) == Name(named[i])
           S == {x \in Text : Len(x) < size}
           F == [i \in 1 .. k |-> [x \in S |-> PrintTo(x, name(i), size)]]
           P(f) == f = [i \in 0 .. k |-> IF i = 0 THEN << >> ELSE PrintTo(f[i - 1], Name(named[i]), size)]
<1>1. k \in Nat /\ size \in Nat /\ 1 <= size /\ \A i \in 1 .. k : name(i) \in Text
  <2>1. k \in Nat /\ k \in 0 .. k
    BY DEF AreNamed
  <2>2. Rooms(named)[k] \in Nat /\ 1 <= Rooms(named)[k] /\ size = Rooms(named)[k]
    BY <2>1, RoomsAre DEF BufferSize
  <2>3. \A i \in 1 .. k : name(i) \in Text
    BY NameIs DEF AreNamed
  <2> QED
    BY <2>1, <2>2, <2>3
<1>2. << >> \in S
  <2>1. << >> \in Text /\ Len(<< >>) = 0
    BY TextFacts
  <2> HIDE DEF size
  <2> QED
    BY <1>1, <2>1
<1>3. \A i \in 1 .. k : \A x \in S : PrintTo(x, name(i), size) \in S
  <2> HIDE DEF size, name, k
  <2> QED
    BY <1>1, PrintedIs
<1>4. PICK f : Runs(f, F, k, << >>, S)
  <2>1. Steps(F, k, << >>, S)
    <3> HIDE DEF k, name, size, S
    <3> QED
      BY <1>2, <1>3 DEF Steps
  <2> HIDE DEF F, k, S
  <2> QED
    BY <1>1, <2>1, RecursionExists
<1> HIDE DEF S
<1>5. P(f)
  <2>1. ASSUME NEW i \in 0 .. k PROVE f[i] = IF i = 0 THEN << >> ELSE PrintTo(f[i - 1], Name(named[i]), size)
    <3>1. CASE i = 0
      BY <1>4, <3>1 DEF Runs
    <3>2. CASE i # 0
      <4>1. i \in 1 .. k /\ i - 1 \in 0 .. k
        BY <1>1, <3>2
      <4>2. f[i] = F[i][f[i - 1]] /\ f[i - 1] \in S
        BY <1>4, <4>1 DEF Runs
      <4> QED
        BY <3>2, <4>1, <4>2
    <3> QED
      BY <3>1, <3>2
  <2>2. f = [i \in 0 .. k |-> f[i]]
    BY <1>4 DEF Runs
  <2> QED
    BY <2>1, <2>2
<1>6. Texts(named) = CHOOSE g : P(g)
  BY DEF Texts
<1> DEFINE g == Texts(named)
<1> HIDE DEF P
<1>7. P(g)
  BY <1>5, <1>6
<1> HIDE DEF g
<1>8. \A i \in 0 .. k : g[i] = IF i = 0 THEN << >> ELSE PrintTo(g[i - 1], name(i), size)
  BY <1>7 DEF P
<1> HIDE DEF k, name, size
<1>9. g[0] = << >> /\ \A i \in 1 .. k : g[i] = PrintTo(g[i - 1], name(i), size)
  <2>1. 0 \in 0 .. k /\ \A i \in 1 .. k : i \in 0 .. k /\ i # 0
    BY <1>1
  <2> QED
    BY <1>8, <2>1
<1>10. \A i \in 0 .. k : g[i] \in S
  <2> DEFINE G == {i \in 0 .. k : g[i] \in S}
  <2>1. 0 \in G
    BY <1>1, <1>2, <1>9
  <2>2. ASSUME NEW i \in 0 .. k - 1, i \in G PROVE i + 1 \in G
    <3>1. i + 1 \in 1 .. k /\ i + 1 - 1 = i /\ i + 1 \in 0 .. k
      BY <1>1
    <3>2. g[i + 1] = PrintTo(g[i], name(i + 1), size) /\ g[i] \in S
      BY <1>9, <2>2, <3>1
    <3>3. g[i + 1] \in S
      BY <1>3, <3>1, <3>2
    <3> QED
      BY <3>1, <3>3
  <2> HIDE DEF G
  <2>3. \A i \in 0 .. k : i \in G
    BY <1>1, <2>1, <2>2, Induction
  <2> QED
    BY <2>3 DEF G
<1> QED
  BY <1>9, <1>10 DEF g, k, name, size, S

\* The names from one on, each with a separator before it.
Following(names, from) ==
  /\ from[Len(names) + 1] = << >>
  /\ \A i \in 1 .. Len(names) : from[i] = Separator \o names[i] \o from[i + 1]
  /\ \A i \in 1 .. Len(names) + 1 : from[i] \in Text

LEMMA FollowingExists ==
  ASSUME NEW names \in Seq(Text)
  PROVE  \E from \in [1 .. Len(names) + 1 -> Text] : Following(names, from)
<1> DEFINE n == Len(names)
           F == [m \in 1 .. n |-> [x \in Text |-> Separator \o names[n + 1 - m] \o x]]
<1>1. n \in Nat /\ \A i \in 1 .. n : names[i] \in Text
  BY ElementType
<1>2. PICK g : Runs(g, F, n, << >>, Text)
  <2>1. Steps(F, n, << >>, Text)
    <3>1. ASSUME NEW m \in 1 .. n, NEW x \in Text PROVE Separator \o names[n + 1 - m] \o x \in Text
      <4>1. n + 1 - m \in 1 .. n
        BY <1>1
      <4> DEFINE y == names[n + 1 - m]
      <4>2. y \in Text
        BY <1>1, <4>1
      <4> HIDE DEF y
      <4>3. Separator \o y \in Text
        BY <4>2, TextFacts
      <4> DEFINE z == Separator \o y
      <4> HIDE DEF z
      <4>4. z \o x \in Text
        BY <4>3, TextFacts DEF z
      <4> QED
        BY <4>4 DEF z, y
    <3>2. << >> \in Text
      BY TextFacts
    <3> HIDE DEF n
    <3> QED
      BY <3>1, <3>2 DEF Steps
  <2> HIDE DEF F, n
  <2> QED
    BY <1>1, <2>1, RecursionExists
<1> DEFINE from == [i \in 1 .. n + 1 |-> g[n + 1 - i]]
<1>3. /\ g \in [0 .. n -> Text] /\ g[0] = << >>
      /\ \A m \in 1 .. n : g[m] = Separator \o names[n + 1 - m] \o g[m - 1]
  <2>1. g \in [0 .. n -> Text] /\ g[0] = << >> /\ \A m \in 1 .. n : g[m] = F[m][g[m - 1]]
    BY <1>2 DEF Runs
  <2>2. \A m \in 1 .. n : g[m - 1] \in Text
    BY <1>1, <2>1
  <2> QED
    BY <2>1, <2>2
<1> HIDE DEF n
<1>4. \A i \in 1 .. n + 1 : from[i] = g[n + 1 - i] /\ from[i] \in Text
  <2>1. ASSUME NEW i \in 1 .. n + 1 PROVE from[i] = g[n + 1 - i] /\ g[n + 1 - i] \in Text
    <3>1. n + 1 - i \in 0 .. n
      BY <1>1
    <3>2. g[n + 1 - i] \in Text
      BY <1>3, <3>1
    <3>3. from[i] = g[n + 1 - i]
      OBVIOUS
    <3> QED
      BY <3>2, <3>3
  <2> HIDE DEF from
  <2> QED
    BY <2>1
<1>5. from \in [1 .. n + 1 -> Text]
  BY <1>4
<1> HIDE DEF from
<1>6. from[n + 1] = << >>
  <2>1. n + 1 \in 1 .. n + 1 /\ n + 1 - (n + 1) = 0
    BY <1>1
  <2> QED
    BY <1>3, <1>4, <2>1
<1>7. ASSUME NEW i \in 1 .. n PROVE from[i] = Separator \o names[i] \o from[i + 1]
  <2>1. i \in 1 .. n + 1 /\ i + 1 \in 1 .. n + 1 /\ n + 1 - i \in 1 .. n
        /\ n + 1 - (n + 1 - i) = i /\ n + 1 - i - 1 = n + 1 - (i + 1)
    BY <1>1
  <2>2. from[i] = g[n + 1 - i] /\ from[i + 1] = g[n + 1 - (i + 1)]
    BY <1>4, <2>1
  <2> DEFINE m == n + 1 - i
  <2>3. m \in 1 .. n /\ n + 1 - m = i /\ m - 1 = n + 1 - (i + 1)
    BY <1>1, <2>1
  <2>4. from[i] = g[m]
    BY <2>2
  <2> HIDE DEF m
  <2>5. g[m] = Separator \o names[n + 1 - m] \o g[m - 1]
    BY <1>3, <2>3
  <2>6. from[i + 1] = g[m - 1]
    BY <2>2, <2>3
  <2> QED
    BY <2>3, <2>4, <2>5, <2>6
<1>8. Following(names, from)
  BY <1>4, <1>6, <1>7 DEF Following, n
<1> QED
  BY <1>5, <1>8 DEF n

\* Names that are joined: all of them, from the first that is not empty.
LEMMA JoinedIs ==
  ASSUME NEW names \in Seq(Text)
  PROVE  \E from : /\ Following(names, from)
                   /\ (\A i \in 1 .. Len(names) : names[i] = << >>) => Joined(names) = << >>
                   /\ \A m \in 1 .. Len(names) :
                        names[m] # << >> /\ (\A i \in 1 .. m - 1 : names[i] = << >>)
                          => Joined(names) = names[m] \o from[m + 1]
<1> DEFINE n == Len(names)
           named == {i \in 1 .. n : names[i] # << >>}
           P(f) == f = [i \in 1 .. Len(names) + 1 |->
                         IF i > Len(names) THEN << >> ELSE Separator \o names[i] \o f[i + 1]]
           from == CHOOSE f : P(f)
<1>1. n \in Nat
  OBVIOUS
<1>2. PICK f \in [1 .. n + 1 -> Text] : Following(names, f)
  BY FollowingExists
<1>3. P(f)
  <2>1. ASSUME NEW i \in 1 .. n + 1
        PROVE  f[i] = IF i > n THEN << >> ELSE Separator \o names[i] \o f[i + 1]
    <3>1. CASE i > n
      <4>1. i = n + 1
        BY <1>1, <3>1
      <4> QED
        BY <1>2, <3>1, <4>1 DEF Following
    <3>2. CASE ~(i > n)
      <4>1. i \in 1 .. n
        BY <1>1, <3>2
      <4>2. f[i] = Separator \o names[i] \o f[i + 1]
        BY <1>2, <4>1 DEF Following
      <4> QED
        BY <3>2, <4>2
    <3> QED
      BY <3>1, <3>2
  <2>2. f = [i \in 1 .. n + 1 |-> f[i]]
    BY <1>2
  <2> QED
    BY <2>1, <2>2
<1>4. Joined(names) = IF named = {} THEN << >> ELSE names[Min(named)] \o from[Min(named) + 1]
  BY DEF Joined
<1> HIDE DEF P
<1>5. P(from)
  BY <1>3
<1> HIDE DEF from
<1>6. \A i \in 1 .. n + 1 : from[i] = IF i > n THEN << >> ELSE Separator \o names[i] \o from[i + 1]
  BY <1>5 DEF P
<1>7. Following(names, from)
  <2>1. from[n + 1] = << >>
    <3>1. n + 1 \in 1 .. n + 1 /\ n + 1 > n
      BY <1>1
    <3> QED
      BY <1>6, <3>1
  <2>2. \A i \in 1 .. n : from[i] = Separator \o names[i] \o from[i + 1]
    <3>1. \A i \in 1 .. n : i \in 1 .. n + 1 /\ ~(i > n)
      BY <1>1
    <3> QED
      BY <1>6, <3>1
  <2>3. \A i \in 1 .. n + 1 : from[i] = f[i]
    <3> DEFINE G == {d \in 0 .. n : from[n + 1 - d] = f[n + 1 - d]}
    <3>1. 0 \in G
      <4>1. n + 1 - 0 = n + 1 /\ 0 \in 0 .. n
        BY <1>1
      <4> QED
        BY <1>2, <2>1, <4>1 DEF Following
    <3>2. ASSUME NEW d \in 0 .. n - 1, d \in G PROVE d + 1 \in G
      <4> DEFINE i == n + 1 - (d + 1)
      <4>1. i \in 1 .. n /\ i + 1 = n + 1 - d /\ d + 1 \in 0 .. n
        BY <1>1
      <4>2. from[i + 1] = f[i + 1]
        BY <3>2, <4>1
      <4> HIDE DEF i
      <4>3. from[i] = f[i]
        BY <1>2, <2>2, <4>1, <4>2 DEF Following
      <4> QED
        BY <4>1, <4>3 DEF i
    <3> HIDE DEF G
    <3>3. \A d \in 0 .. n : d \in G
      <4> HIDE DEF n
      <4> QED
        BY <1>1, <3>1, <3>2, Induction
    <3>4. ASSUME NEW i \in 1 .. n + 1 PROVE from[i] = f[i]
      <4>1. n + 1 - i \in 0 .. n /\ n + 1 - (n + 1 - i) = i
        BY <1>1
      <4> QED
        BY <3>3, <4>1 DEF G
    <3> QED
      BY <3>4
  <2> QED
    BY <1>2, <2>1, <2>2, <2>3 DEF Following
<1>8. (\A i \in 1 .. n : names[i] = << >>) => Joined(names) = << >>
  BY <1>4
<1>9. ASSUME NEW m \in 1 .. n, names[m] # << >>, \A i \in 1 .. m - 1 : names[i] = << >>
      PROVE  Joined(names) = names[m] \o from[m + 1]
  <2>1. m \in named /\ \A i \in named : m <= i
    BY <1>1, <1>9
  <2>2. Min(named) = m
    <3>1. named \subseteq Nat
      BY <1>1
    <3>2. \A x \in named : (\A y \in named : x <= y) => x = m
      BY <2>1, <3>1
    <3> HIDE DEF named
    <3> QED
      BY <2>1, <3>2 DEF Min
  <2> HIDE DEF named
  <2> QED
    BY <1>4, <2>1, <2>2
<1> QED
  BY <1>7, <1>8, <1>9

\* With space enough for every name nothing is cut.
LEMMA TextsFit ==
  ASSUME NEW named, AreNamed(named),
         \A i \in 1 .. Len(named) : Len(Name(named[i])) + 4 <= Room(named[i])
  PROVE  \A i \in 1 .. Len(named) : Texts(named)[i] = Appended(Texts(named)[i - 1], Name(named[i]))
<1> DEFINE k == Len(named)
           t == Texts(named)
           r == Rooms(named)
           size == BufferSize(named)
           name(i) == Name(named[i])
           room(i) == Room(named[i])
           G == {i \in 0 .. k : Len(t[i]) < r[i]}
<1>1. /\ k \in Nat
      /\ \A i \in 1 .. k : name(i) \in Text /\ Len(name(i)) \in Nat /\ room(i) \in Nat
                           /\ Len(name(i)) + 4 <= room(i)
  <2>1. k \in Nat
    BY DEF AreNamed
  <2>2. ASSUME NEW i \in 1 .. k PROVE name(i) \in Text /\ room(i) \in Nat
    BY NameIs DEF AreNamed
  <2>3. \A i \in 1 .. k : Len(name(i)) \in Nat
    BY <2>2, TextFacts
  <2> QED
    BY <2>1, <2>2, <2>3
<1>2. t[0] = << >> /\ \A i \in 1 .. k : t[i] = PrintTo(t[i - 1], name(i), size)
  BY TextsAre
<1>3. \A i \in 0 .. k : t[i] \in Text /\ Len(t[i]) \in Nat /\ Len(t[i]) < size
  BY TextsAre, TextFacts
<1>4. r[0] = 1 /\ \A i \in 1 .. k : r[i] = r[i - 1] + room(i)
  BY RoomsAre
<1>5. \A i \in 0 .. k : r[i] \in Nat /\ r[i] <= size
  BY RoomsAre
<1>6. size \in Nat
  <2>1. k \in 0 .. k
    BY <1>1
  <2> QED
    BY <1>5, <2>1 DEF BufferSize
<1> HIDE DEF k, t, r, size, name, room
<1>7. 0 \in G
  <2>1. Len(t[0]) = 0
    BY <1>2, TextFacts
  <2> QED
    BY <1>1, <1>4, <2>1
<1>8. ASSUME NEW i \in 0 .. k - 1, i \in G
      PROVE  t[i + 1] = Appended(t[i], name(i + 1)) /\ i + 1 \in G
  <2>1. i + 1 \in 1 .. k /\ i + 1 - 1 = i /\ i + 1 \in 0 .. k /\ i \in 0 .. k
    BY <1>1
  <2> DEFINE x == t[i]
             n == name(i + 1)
             y == Len(x)
             z == Len(n)
             here == r[i]
             next == r[i + 1]
  <2>2. x \in Text /\ y \in Nat /\ y < size /\ n \in Text /\ z \in Nat
    BY <1>1, <1>3, <2>1
  <2>3. t[i + 1] = PrintTo(x, n, size)
    BY <1>2, <2>1
  <2>4. here \in Nat /\ next = here + room(i + 1) /\ room(i + 1) \in Nat /\ z + 4 <= room(i + 1) /\ next <= size
    BY <1>1, <1>4, <1>5, <2>1
  <2>5. y < here
    BY <1>8
  <2>6. y + 4 + z < next /\ y + 4 + z < size
    <3> HIDE DEF y, z, here, next
    <3> QED
      BY <1>6, <2>2, <2>4, <2>5
  <2>7. PrintTo(x, n, size) = Appended(x, n) /\ Len(Appended(x, n)) <= y + 4 + z /\ Appended(x, n) \in Text
    <3> HIDE DEF x, n
    <3> QED
      BY <1>6, <2>2, <2>6, PrintedIs
  <2>8. Len(t[i + 1]) < next
    <3> DEFINE e == Len(t[i + 1])
    <3>1. e \in Nat /\ e <= y + 4 + z
      BY <1>3, <2>1, <2>3, <2>7
    <3> HIDE DEF e, y, z, next
    <3>2. next \in Nat
      BY <1>5, <2>1 DEF next
    <3> QED
      BY <2>2, <2>6, <3>1, <3>2 DEF e
  <2> QED
    BY <2>1, <2>3, <2>7, <2>8
<1>9. \A i \in 0 .. k : i \in G
  <2> HIDE DEF G
  <2> QED
    BY <1>1, <1>7, <1>8, Induction
<1>10. ASSUME NEW i \in 1 .. k PROVE t[i] = Appended(t[i - 1], name(i))
  <2> DEFINE j == i - 1
  <2>1. j \in 0 .. k - 1 /\ j \in 0 .. k /\ j + 1 = i
    BY <1>1
  <2> HIDE DEF j, G
  <2>2. t[j + 1] = Appended(t[j], name(j + 1))
    BY <1>8, <1>9, <2>1
  <2> QED
    BY <2>1, <2>2 DEF j
<1> QED
  BY <1>10 DEF k, t, name

\* All names, put together.
LEMMA TextsAreJoined ==
  ASSUME NEW named, AreNamed(named),
         \A i \in 1 .. Len(named) : Len(Name(named[i])) + 4 <= Room(named[i])
  PROVE  Texts(named)[Len(named)] = Joined([i \in DOMAIN named |-> Name(named[i])])
<1> DEFINE k == Len(named)
           t == Texts(named)
           names == [i \in DOMAIN named |-> Name(named[i])]
<1>1. k \in Nat /\ names \in Seq(Text) /\ Len(names) = k /\ \A i \in 1 .. k : names[i] = Name(named[i])
  <2>1. k \in Nat /\ DOMAIN named = 1 .. k /\ \A i \in 1 .. k : Name(named[i]) \in Text
    BY NameIs DEF AreNamed
  <2>2. names = [i \in 1 .. k |-> Name(named[i])]
    BY <2>1
  <2> HIDE DEF k
  <2>3. [i \in 1 .. k |-> Name(named[i])] \in Seq(Text)
    BY <2>1
  <2>4. Len([i \in 1 .. k |-> Name(named[i])]) = k
    BY <2>1
  <2> QED
    BY <2>1, <2>2, <2>3, <2>4
<1>2. \A i \in 1 .. k : t[i] = Appended(t[i - 1], names[i])
  BY <1>1, TextsFit
<1>3. t[0] = << >> /\ \A i \in 0 .. k : t[i] \in Text
  BY TextsAre
<1> DEFINE J == Joined(names)
<1> HIDE DEF names, t
<1>4. PICK from : /\ Following(names, from)
                  /\ (\A i \in 1 .. Len(names) : names[i] = << >>) => J = << >>
                  /\ \A m \in 1 .. Len(names) :
                       names[m] # << >> /\ (\A i \in 1 .. m - 1 : names[i] = << >>)
                         => J = names[m] \o from[m + 1]
  BY <1>1, JoinedIs
<1> HIDE DEF J, k
<1>5. \A i \in 1 .. k : names[i] \in Text
  BY <1>1, ElementType
<1>6. ASSUME NEW n \in 0 .. k, \A i \in 1 .. n : names[i] = << >> PROVE t[n] = << >>
  <2> DEFINE G == {i \in 0 .. n : t[i] = << >>}
  <2>1. 0 \in G
    BY <1>1, <1>3
  <2>2. ASSUME NEW i \in 0 .. n - 1, i \in G PROVE i + 1 \in G
    <3>1. i + 1 \in 1 .. n /\ i + 1 - 1 = i /\ i + 1 \in 1 .. k /\ i + 1 \in 0 .. n
      BY <1>1
    <3>2. t[i + 1] = Appended(t[i], names[i + 1]) /\ t[i] = << >> /\ names[i + 1] = << >>
      BY <1>2, <1>6, <2>2, <3>1
    <3>3. Appended(<< >>, << >>) = << >>
      BY TextFacts DEF Appended
    <3> QED
      BY <3>1, <3>2, <3>3
  <2> HIDE DEF G
  <2>3. n \in 0 .. n /\ n \in Nat
    BY <1>1
  <2>4. \A i \in 0 .. n : i \in G
    BY <2>1, <2>2, <2>3, Induction
  <2> QED
    BY <2>3, <2>4 DEF G
<1>7. CASE \A i \in 1 .. k : names[i] = << >>
  <2>1. k \in 0 .. k
    BY <1>1
  <2> QED
    BY <1>1, <1>4, <1>6, <1>7, <2>1 DEF J, k, t, names
<1>8. CASE ~\A i \in 1 .. k : names[i] = << >>
  <2> DEFINE full == {i \in 1 .. k : names[i] # << >>}
  <2>1. full \subseteq Nat /\ full # {}
    BY <1>1, <1>8
  <2>2. PICK m \in full : \A i \in full : m <= i
    <3> HIDE DEF full
    <3> QED
      BY <2>1, LeastNumber
  <2>3. m \in 1 .. k /\ names[m] # << >> /\ \A i \in 1 .. m - 1 : names[i] = << >>
    <3>1. m \in 1 .. k /\ names[m] # << >>
      BY <2>2
    <3>2. \A i \in 1 .. m - 1 : i \in 1 .. k /\ ~(m <= i)
      BY <1>1, <3>1
    <3> QED
      BY <2>2, <3>1, <3>2
  <2> HIDE DEF full
  <2>4. J = names[m] \o from[m + 1]
    BY <1>1, <1>4, <2>3
  <2>5. t[m] = names[m]
    <3>1. m - 1 \in 0 .. k /\ m - 1 \in Nat
      BY <1>1, <2>3
    <3>2. t[m - 1] = << >>
      BY <1>6, <2>3, <3>1
    <3>3. t[m] = Appended(<< >>, names[m])
      BY <1>2, <2>3, <3>2
    <3>4. Appended(<< >>, names[m]) = << >> \o (<< >> \o names[m])
      BY DEF Appended
    <3> QED
      BY <1>5, <2>3, <3>3, <3>4, TextFacts
  <2> DEFINE G == {i \in 0 .. k : m <= i => t[i] # << >> /\ t[i] \o from[i + 1] = J}
  <2>12. m \in Nat /\ m > 0 /\ m <= k
    BY <1>1, <2>3
  <2>6. 0 \in G
    <3>1. ~(m <= 0) /\ 0 \in 0 .. k
      BY <1>1, <2>12
    <3> QED
      BY <3>1
  <2>7. ASSUME NEW i \in 0 .. k - 1, i \in G PROVE i + 1 \in G
    <3>1. i + 1 \in 1 .. k /\ i + 1 - 1 = i /\ i + 1 \in 0 .. k /\ i \in 0 .. k /\ i + 2 \in 1 .. k + 1
          /\ i + 1 + 1 = i + 2
      BY <1>1
    <3>2. CASE i + 1 = m
      BY <2>3, <2>4, <2>5, <3>1, <3>2
    <3>3. CASE m <= i
      <4> DEFINE x == t[i]
                 y == names[i + 1]
                 z == from[i + 2]
                 s == Separator
      <4>1. x # << >> /\ x \o from[i + 1] = J
        BY <2>7, <3>3
      <4>2. t[i + 1] = x \o (s \o y)
        <5>1. t[i + 1] = Appended(t[i], names[i + 1])
          BY <1>2, <3>1
        <5> QED
          BY <4>1, <5>1 DEF Appended
      <4>3. from[i + 1] = s \o y \o z /\ z \in Text
        <5>1. from[i + 1] = s \o y \o from[i + 1 + 1]
          BY <1>1, <1>4, <3>1 DEF Following
        <5>2. from[i + 2] \in Text
          BY <1>1, <1>4, <3>1 DEF Following
        <5> QED
          BY <3>1, <5>1, <5>2
      <4>4. x \in Text /\ y \in Text /\ s \in Text
        BY <1>3, <1>5, <3>1, TextFacts
      <4> HIDE DEF x, y, z, s
      <4>5. s \o y \in Text
        BY <4>4, TextFacts
      <4> DEFINE u == s \o y
      <4> HIDE DEF u
      <4>6. (x \o u) \o z = x \o (u \o z)
        BY <4>3, <4>4, <4>5, TextFacts DEF u
      <4>7. t[i + 1] \o z = J
        BY <4>1, <4>2, <4>3, <4>6 DEF u
      <4>8. t[i + 1] # << >>
        <5>1. Len(x \o u) = Len(x) + Len(u) /\ Len(x) \in Nat /\ Len(u) \in Nat /\ Len(x) # 0
          BY <4>1, <4>4, <4>5, TextFacts DEF u
        <5>2. Len(t[i + 1]) # 0
          BY <4>2, <5>1 DEF u
        <5> QED
          BY <5>2, TextFacts
      <4>9. t[i + 1] \o from[i + 1 + 1] = J
        BY <3>1, <4>7 DEF z
      <4> QED
        BY <3>1, <4>8, <4>9
    <3>4. CASE ~(m <= i + 1)
      BY <3>1, <3>4
    <3>5. i + 1 = m \/ m <= i \/ ~(m <= i + 1)
      BY <2>12
    <3> QED
      BY <3>2, <3>3, <3>4, <3>5
  <2> HIDE DEF G
  <2>13. \A i \in 0 .. k : i \in G
    BY <1>1, <2>6, <2>7, Induction
  <2>8. k \in 0 .. k /\ k \in G
    BY <1>1, <2>13
  <2>9. t[k] \o from[k + 1] = J
    BY <2>8, <2>12 DEF G
  <2>10. from[k + 1] = << >>
    BY <1>1, <1>4 DEF Following
  <2>11. t[k] = J
    BY <1>3, <2>8, <2>9, <2>10, TextFacts
  <2> QED
    BY <2>11 DEF J, k, t, names
<1> QED
  BY <1>7, <1>8

MetasOf(links) == {links[i].value : i \in {j \in DOMAIN links : links[j].content = "metaHash"}}

\* A metahash whose length is that of its byte is refused just when it is not as described.
LEMMA DescribedAre ==
  ASSUME NEW m, MetaIs(m), m.meta <= ByteMax
  PROVE  MetaError(m) = "OK" <=> Described(m)
<1> DEFINE n == m.meta
           size == m.size
           body == m.body
           k == Len(body)
<1>1. n \in Nat /\ size \in Nat /\ k \in Nat /\ DOMAIN body = 1 .. k /\ MetaLen(m) = n
  BY MetaLenIs DEF MetaIs, Text
<1>2. MetaError(m) = "OK" <=>
        ~(size < 3 \/ n + 3 > size \/ \E i \in n + 1 .. k : body[i] # NUL)
  BY <1>1 DEF MetaError
<1>3. Described(m) <=> n + 3 <= size /\ \A i \in 1 .. k : i > n => body[i] = NUL
  BY <1>1 DEF Described
<1> HIDE DEF n, size, body, k
<1>4. size < 3 \/ n + 3 > size <=> ~(n + 3 <= size)
  BY <1>1
<1>5. (\E i \in n + 1 .. k : body[i] # NUL) <=> ~\A i \in 1 .. k : i > n => body[i] = NUL
  BY <1>1
<1> QED
  BY <1>2, <1>3, <1>4, <1>5

LEMMA MetasAre ==
  ASSUME NEW links, links \in Seq(ToSet(links)), \A i \in 1 .. Len(links) : LinkWithName(links[i])
  PROVE  /\ \A m \in MetasOf(links) : MetaIs(m)
         /\ IdentityError(links) \in {"OK", "INVALID_FORMAT"}
         /\ IdentityError(links) = "OK" <=> \A m \in MetasOf(links) : MetaError(m) = "OK"
<1>1. DOMAIN links = 1 .. Len(links)
  OBVIOUS
<1>2. ASSUME NEW m \in MetasOf(links) PROVE MetaIs(m)
  <2>1. PICK i \in DOMAIN links : links[i].content = "metaHash" /\ m = links[i].value
    BY DEF MetasOf
  <2>2. m \in [size : Nat, meta : Nat, body : Text, left : Text]
    BY <1>1, <2>1 DEF LinkWithName
  <2> QED
    BY <2>2 DEF MetaIs
<1>3. IdentityError(links) = "OK" <=> \A m \in MetasOf(links) : MetaError(m) = "OK"
  BY DEF IdentityError, MetasOf
<1>4. IdentityError(links) \in {"OK", "INVALID_FORMAT"}
  BY DEF IdentityError
<1> QED
  BY <1>2, <1>3, <1>4

\* The identity is what the names of the links make it, and nothing of it is cut.
LEMMA IdentityIs ==
  ASSUME NEW links, links \in Seq(ToSet(links)), \A i \in 1 .. Len(links) : LinkWithName(links[i])
  PROVE  /\ Len(SignerIdentity(links)) < BufferSize(Named(links))
         /\ IdentityError(links) = "OK" /\ (\A m \in MetasOf(links) : Ended(m)) =>
              SignerIdentity(links) = Joined([i \in DOMAIN Named(links) |-> Name(Named(links)[i])])
<1> DEFINE named == Named(links)
           k == Len(named)
<1>1. /\ AreNamed(named)
      /\ \A i \in 1 .. k : NamedLink(named[i]) /\ \E j \in DOMAIN links : named[i] = links[j]
  BY NamedAre DEF AreNamed
<1>2. SignerIdentity(links) = Texts(named)[k]
  BY DEF SignerIdentity
<1> HIDE DEF named
<1>3. Len(Texts(named)[k]) < BufferSize(named)
  <2>1. k \in 0 .. k
    BY <1>1 DEF AreNamed
  <2> QED
    BY <1>1, <2>1, TextsAre
<1>4. ASSUME IdentityError(links) = "OK", \A m \in MetasOf(links) : Ended(m)
      PROVE  Texts(named)[k] = Joined([i \in DOMAIN named |-> Name(named[i])])
  <2>1. ASSUME NEW i \in 1 .. k PROVE Len(Name(named[i])) + 4 <= Room(named[i])
    <3> DEFINE l == named[i]
    <3>1. NamedLink(l)
      BY <1>1
    <3>2. ASSUME l.content = "metaHash" PROVE MetaError(l.value) = "OK" /\ Ended(l.value)
      <4>1. PICK j \in DOMAIN links : l = links[j]
        BY <1>1
      <4>2. l.value \in MetasOf(links)
        BY <3>2, <4>1 DEF MetasOf
      <4> QED
        BY <1>4, <4>2, MetasAre
    <3> HIDE DEF l
    <3>3. Len(Name(l)) + 4 <= Room(l)
      BY <3>1, <3>2, NameIs
    <3> QED
      BY <3>3 DEF l
  <2> QED
    BY <1>1, <2>1, TextsAreJoined
<1> QED
  BY <1>2, <1>3, <1>4 DEF named

LEMMA IdentityStep ==
  ASSUME StateInv, Identify
  PROVE  IdentityAsDefined'
<1> DEFINE links == job.links
           error == IdentityError(links)
<1>1. job \in Jobs /\ job.op = "identity" /\ job' = job
  BY RunningJob DEF Identify
<1>2. links \in Seq(ToSet(links)) /\ \A i \in 1 .. Len(links) : LinkWithName(links[i])
  BY <1>1, JobsAssumption
<1>3. res' = error /\ (error = "OK" => output' = SignerIdentity(links))
  BY DEF Identify
<1> HIDE DEF links
<1>4. (\A m \in MetasOf(links) : m.meta <= ByteMax) =>
        (error = "OK" <=> \A m \in MetasOf(links) : Described(m))
  BY <1>2, MetasAre, DescribedAre
<1>5. error = "OK" => Len(output') < BufferSize(Named(links))
  BY <1>2, <1>3, IdentityIs
<1>6. error = "OK" /\ (\A m \in MetasOf(links) : Ended(m)) =>
        output' = Joined([i \in DOMAIN Named(links) |-> Name(Named(links)[i])])
  BY <1>2, <1>3, IdentityIs
<1> HIDE DEF error
<1> QED
  BY <1>1, <1>3, <1>4, <1>5, <1>6 DEF IdentityAsDefined, MetasOf, links

LEMMA ReadsStep ==
  ASSUME StateInv, ReadsAsDefined, [Next]_vars
  PROVE  ReadsAsDefined'
<1>1. CASE Identify
  <2>1. job' = job /\ job.op = "identity"
    BY <1>1 DEF Identify
  <2>2. ValuesReadBack'
    BY <2>1 DEF ValuesReadBack
  <2> QED
    BY <1>1, <2>2, IdentityStep DEF ReadsAsDefined
<1>2. CASE Convert
  <2>1. job' = job /\ job.op = "value"
    BY <1>2 DEF Convert
  <2>2. IdentityAsDefined'
    BY <2>1 DEF IdentityAsDefined
  <2> QED
    BY <1>2, <2>2, ValueStep DEF ReadsAsDefined
<1>3. CASE Call \/ Leave
  <2>1. res' \in {"idle", "running"}
    BY <1>3 DEF Call, Leave
  <2>2. ~Returned'
    BY <2>1 DEF Returned
  <2> QED
    BY <2>2 DEF ReadsAsDefined, IdentityAsDefined, ValuesReadBack
<1>4. CASE AggregateLink \/ AggregateEnd \/ TimeLink \/ TimeEnd \/ Authenticate
  <2>1. job.op \notin {"identity", "value"}
    BY <1>4 DEF AggregateLink, AggregateEnd, TimeLink, TimeEnd, Authenticate
  <2>2. job' = job
    <3>1. CASE AggregateLink
      BY <3>1, LinkTaken, LinkRefused, ReturnKeeps
    <3>2. CASE AggregateEnd \/ TimeEnd
      BY <3>2, ReturnKeeps DEF AggregateEnd, TimeEnd
    <3>3. CASE TimeLink
      BY <3>3, ReturnKeeps DEF TimeLink
    <3>4. CASE Authenticate
      BY <3>4 DEF Authenticate
    <3> QED
      BY <1>4, <3>1, <3>2, <3>3, <3>4
  <2> QED
    BY <2>1, <2>2 DEF ReadsAsDefined, IdentityAsDefined, ValuesReadBack
<1>5. CASE UNCHANGED vars
  <2>1. UNCHANGED <<job, output, res>>
    BY <1>5 DEF vars
  <2> QED
    BY <2>1 DEF ReadsAsDefined, IdentityAsDefined, ValuesReadBack, Returned
<1> QED
  BY <1>1, <1>2, <1>3, <1>4, <1>5 DEF Next, Compute

-----------------------------------------------------------------------------
(* The theorems.                                                           *)

\* The loops over the links keep the level, the algorithm, the hash and the node that the
\* links looked at so far stand for: what the theorems below rest on.
THEOREM ChainInvariant == Spec => []ChainInv
<1>1. Init => ChainInv
  <2>1. Init => LoopInv /\ ResultInv /\ HmacAsDefined
    BY DEF Init, LoopInv, ResultInv, HmacAsDefined, Returned
  <2> QED
    BY <2>1, StateInit, TimeInit DEF ChainInv
<1>2. ChainInv /\ [Next]_vars => ChainInv'
  BY StateStep, TimeStep, LoopStep, ResultStep, HmacStep DEF ChainInv
<1> QED
  BY <1>1, <1>2, PTL DEF Spec

\* The state stays within its types; every result is one of the codes of its call and
\* the time is one a time_t can tell.
THEOREM ChainTypes == Spec => []TypeOK
<1>1. ASSUME ChainInv PROVE TypeOK
  <2>1. StateInv /\ TimeInv
    BY <1>1 DEF ChainInv
  <2>2. LevelMax \in Nat /\ IntRange \div 2 \in Nat /\ Pow2[TimeBits - 1] \in Nat
    BY LengthsAssumption, WidthAssumption, HalfIsPositive DEF LevelMax
  <2>3. level \in -(IntRange \div 2) .. LevelMax
    BY <2>1, <2>2 DEF StateInv
  <2>4. time \in 0 .. Pow2[TimeBits - 1]
    BY <2>1, <2>2 DEF TimeInv
  <2>5. done # 0 => done \in 1 .. Len(job.links)
    <3>1. ASSUME done # 0 PROVE done \in 1 .. Len(job.links)
      <4>1. job \in Jobs /\ done \in Nat /\ done <= Len(job.links)
        BY <2>1, <3>1 DEF StateInv
      <4> QED
        BY <3>1, <4>1, JobFacts
    <3> QED
      BY <3>1
  <2> QED
    BY <2>1, <2>3, <2>4, <2>5 DEF StateInv, TypeOK
<1> QED
  BY <1>1, ChainInvariant, PTL

\* With one hasher that is reset for every link, and C integers, a chain of any
\* length gives the hash and the level it is defined to give, and fails just when
\* it has no such hash; an HMAC is that of RFC 2104.
THEOREM ComputesAsChainsAreDefined == Spec => []ComputesAsDefined
<1>1. ASSUME ChainInv PROVE AggregatesAsDefined
  <2> SUFFICES ASSUME Returned, job.op = "aggregation", InRange(job.links), job.links # << >>
               PROVE  /\ res = "OK" => hsh = HashOf(AlgosOf(job)) /\ level = Levels(job)[Len(job.links)]
                      /\ res = "OK" <=> /\ \A i \in DOMAIN job.links : job.links[i].content # "none"
                                        /\ Levels(job)[Len(job.links)] <= LevelMax
                                        /\ job.algo \in Supported
    BY DEF AggregatesAsDefined
  <2>1. job \in Jobs /\ job # None /\ Modest(job)
    BY <1>1, NullAssumption DEF ChainInv, StateInv, Returned, Modest, IsChain
  <2>2. /\ Len(job.links) \in Nat /\ Len(job.links) > 0
        /\ DOMAIN job.links = 1 .. Len(job.links) /\ Len(job.links) \in 0 .. Len(job.links)
    BY <2>1, JobFacts
  <2>3. AlgosOf(job) = [i \in 1 .. Len(job.links) |-> Lead(job)]
    BY DEF AlgosOf, Lead
  <2>4. HashOf(AlgosOf(job)) = LeadHashes(job)[Len(job.links)]
    BY <2>3 DEF HashOf, LeadHashes
  <2>5. ASSUME res = "OK"
        PROVE  /\ hsh = HashOf(AlgosOf(job)) /\ level = Levels(job)[Len(job.links)]
               /\ Passes(job)
    <3>1. done = Len(job.links)
      BY <1>1, <2>1, <2>5 DEF ChainInv, ResultInv, Modest
    <3>2. /\ level = Levels(job)[done] /\ Lead(job) \in Supported /\ hsh = LeadHashes(job)[done]
          /\ \A i \in 1 .. done : job.links[i].content # "none"
      BY <1>1, <2>1, <2>2, <3>1 DEF ChainInv, LoopInv
    <3>3. level <= LevelMax
      BY <1>1 DEF ChainInv, StateInv
    <3> QED
      BY <2>4, <3>1, <3>2, <3>3 DEF Passes, Lead
  <2>6. ASSUME res # "OK" PROVE ~Passes(job)
    BY <1>1, <2>1, <2>6 DEF ChainInv, ResultInv, Modest
  <2> QED
    BY <2>2, <2>5, <2>6 DEF Passes
<1>2. ASSUME ChainInv PROVE CalendarRootAsDefined
  <2> SUFFICES ASSUME res = "OK", job.op = "calendar", job.links # << >>
               PROVE  hsh = HashOf(FirstAlgo(job))
    BY DEF CalendarRootAsDefined
  <2>1. job \in Jobs /\ job # None /\ Modest(job) /\ Returned
    BY <1>2, NullAssumption DEF ChainInv, StateInv, Returned, Modest, IsChain
  <2>2. Len(job.links) \in Nat /\ Len(job.links) > 0
    BY <2>1, JobFacts
  <2>3. FirstAlgo(job) = [i \in 1 .. Len(job.links) |-> Lead(job)]
    BY DEF FirstAlgo, Lead
  <2>4. HashOf(FirstAlgo(job)) = LeadHashes(job)[Len(job.links)]
    BY <2>3 DEF HashOf, LeadHashes
  <2>5. done = Len(job.links)
    BY <1>2, <2>1 DEF ChainInv, ResultInv, Modest
  <2>6. hsh = LeadHashes(job)[done]
    BY <1>2, <2>1, <2>2, <2>5 DEF ChainInv, LoopInv
  <2> QED
    BY <2>4, <2>5, <2>6
<1>3. ASSUME ChainInv PROVE ComputesAsDefined
  BY <1>1, <1>2, <1>3 DEF ComputesAsDefined, ChainInv
<1> QED
  BY <1>3, ChainInvariant, PTL

\* The time a calendar chain stands for is the position of the one leaf whose way to the
\* root the chain is, for trees of any size and chains of any length, and a chain is
\* refused only when no leaf has it or the publication time is none a time_t can tell.
THEOREM TimesArePositions == Spec => []TimeIsPosition
<1>1. Init => PositionInv
  BY DEF Init, PositionInv, DescentInv, TimeIsPosition, Returned
<1>2. ChainInv /\ PositionInv /\ [Next]_vars => PositionInv'
  BY PositionStep DEF ChainInv
<1>3. PositionInv => TimeIsPosition
  BY DEF PositionInv
<1> QED
  BY <1>1, <1>2, <1>3, ChainInvariant, PTL DEF Spec

\* The identity of the signers and the values of payloads, of any length, are read as they
\* are defined: names are neither lost nor cut, integers of any size and strings of any
\* length are accepted just when they have the right form, and written as they were read.
THEOREM ReadsAsTheyAreDefined == Spec => []ReadsAsDefined
<1>1. Init => ReadsAsDefined
  BY DEF Init, ReadsAsDefined, IdentityAsDefined, ValuesReadBack, Returned
<1>2. ChainInv /\ ReadsAsDefined /\ [Next]_vars => ReadsAsDefined'
  BY ReadsStep DEF ChainInv
<1> QED
  BY <1>1, <1>2, ChainInvariant, PTL DEF Spec
=============================================================================
