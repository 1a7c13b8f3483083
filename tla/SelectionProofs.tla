---------------------------- MODULE SelectionProofs ----------------------------
(***************************************************************************)
(* Induction over data, in the one form that needs no operator parameter:  *)
(* about a set of numbers.  With it, what a selection from a sequence is,  *)
(* for sequences of any length.                                            *)
(***************************************************************************)
EXTENDS Selection, FiniteSetTheorems, WellFoundedInduction, TLAPS

LEMMA LeastNumber ==
  ASSUME NEW T, T \subseteq Nat, T # {}
  PROVE  \E n \in T : \A m \in T : n <= m
<1>1. \E x \in T : \A y \in T : ~(<<y, x>> \in OpToRel(<, Nat))
  BY NatLessThanWellFounded, WFMin
<1>2. PICK n \in T : \A y \in T : ~(<<y, n>> \in OpToRel(<, Nat))
  BY <1>1
<1>3. \A y \in T : ~(y < n)
  BY <1>2 DEF OpToRel
<1> QED
  BY <1>3

\* Induction up to a number: the cases that hold are a set.
LEMMA Induction ==
  ASSUME NEW n \in Nat, NEW G, 0 \in G, \A i \in 0 .. n - 1 : i \in G => i + 1 \in G
  PROVE  \A i \in 0 .. n : i \in G
<1> DEFINE bad == {i \in 0 .. n : i \notin G}
<1> SUFFICES ASSUME bad # {} PROVE FALSE
  OBVIOUS
<1>1. bad \subseteq Nat
  OBVIOUS
<1>2. PICK k \in bad : \A m \in bad : k <= m
  <2> HIDE DEF bad
  <2> QED
    BY <1>1, LeastNumber
<1>3. k - 1 \in 0 .. n - 1 /\ k - 1 \notin bad
  BY <1>2
<1>4. k - 1 \in G /\ k - 1 + 1 = k
  BY <1>3
<1> QED
  BY <1>3, <1>4

-----------------------------------------------------------------------------
(* Recursive functions.  A function that computes its next value from the  *)
(* last one exists, so that its definition may be unfolded.                *)

Steps(F, n, a, S) == a \in S /\ F \in [1 .. n -> [S -> S]]
Runs(f, F, n, a, S) ==
  f \in [0 .. n -> S] /\ f[0] = a /\ \A i \in 1 .. n : f[i] = F[i][f[i - 1]]

LEMMA RecursionExists ==
  ASSUME NEW n \in Nat, NEW S, NEW a, NEW F, Steps(F, n, a, S)
  PROVE  \E f : Runs(f, F, n, a, S)
<1>0. a \in S /\ F \in [1 .. n -> [S -> S]]
  BY DEF Steps
<1> DEFINE Fits(k, f) == f[0] = a /\ \A i \in 1 .. k : f[i] = F[i][f[i - 1]]
           G == {k \in 0 .. n : \E f \in [0 .. k -> S] : Fits(k, f)}
<1>1. 0 \in G
  <2> DEFINE f == [i \in 0 .. 0 |-> a]
  <2>1. f \in [0 .. 0 -> S] /\ Fits(0, f)
    BY <1>0
  <2> HIDE DEF f
  <2>2. 0 \in 0 .. n
    OBVIOUS
  <2> QED
    BY <2>1, <2>2
<1>2. ASSUME NEW k \in 0 .. n - 1, k \in G PROVE k + 1 \in G
  <2>1. PICK f \in [0 .. k -> S] : Fits(k, f)
    BY <1>2
  <2> DEFINE x == F[k + 1][f[k]]
             g == [i \in 0 .. k + 1 |-> IF i = k + 1 THEN x ELSE f[i]]
  <2>2. k \in 0 .. k /\ k + 1 \in 1 .. n /\ k \in Nat /\ k + 1 - 1 = k /\ k + 1 # 0
        /\ k + 1 \in 0 .. k + 1 /\ k \in 0 .. k + 1 /\ k + 1 \in 0 .. n /\ k # k + 1
    OBVIOUS
  <2>3. x \in S
    BY <1>0, <2>2
  <2> HIDE DEF x
  <2>4. g \in [0 .. k + 1 -> S]
    BY <2>3
  <2>5. (\A i \in 0 .. k : g[i] = f[i]) /\ g[k + 1] = x
    OBVIOUS
  <2> HIDE DEF g
  <2>6. ASSUME NEW i \in 1 .. k + 1 PROVE g[i] = F[i][g[i - 1]]
    <3>1. CASE i \in 1 .. k
      <4>1. i \in 0 .. k /\ i - 1 \in 0 .. k
        BY <3>1
      <4>2. f[i] = F[i][f[i - 1]] /\ g[i] = f[i] /\ g[i - 1] = f[i - 1]
        BY <3>1, <4>1, <2>1, <2>5
      <4> QED
        BY <4>2
    <3>2. CASE i = k + 1
      BY <2>2, <2>5, <3>2 DEF x
    <3> QED
      BY <3>1, <3>2
  <2>7. g[0] = a
    BY <2>1, <2>5
  <2> QED
    BY <2>2, <2>4, <2>6, <2>7
<1> HIDE DEF G
<1>3. n \in G
  <2>1. n \in 0 .. n
    OBVIOUS
  <2> QED
    BY <1>1, <1>2, <2>1, Induction
<1> QED
  BY <1>3 DEF G, Runs

-----------------------------------------------------------------------------
(* Selecting is well defined.                                              *)

Turn(s, T, f, i) ==
  IF i = 0 THEN << >> ELSE IF s[i] \in T THEN Append(f[i - 1], s[i]) ELSE f[i - 1]

LEMMA SelectingDef ==
  ASSUME NEW s, NEW T
  PROVE  Selecting(s, T) = CHOOSE f : f = [i \in 0 .. Len(s) |-> Turn(s, T, f, i)]
BY DEF Selecting, Turn

LEMMA SelectingExists ==
  ASSUME NEW S, NEW s \in Seq(S), NEW T
  PROVE  \E f : f = [i \in 0 .. Len(s) |-> Turn(s, T, f, i)]
<1> DEFINE Fits(n, f) == \A i \in 0 .. n : f[i] = Turn(s, T, f, i)
           G == {n \in 0 .. Len(s) : \E f \in [0 .. n -> Seq(S)] : Fits(n, f)}
<1>1. 0 \in G
  <2> DEFINE f == [i \in 0 .. 0 |-> << >>]
  <2>1. f \in [0 .. 0 -> Seq(S)] /\ Fits(0, f)
    BY DEF Turn
  <2> QED
    BY <2>1
<1>2. ASSUME NEW n \in 0 .. Len(s) - 1, n \in G PROVE n + 1 \in G
  <2>1. PICK f \in [0 .. n -> Seq(S)] : Fits(n, f)
    BY <1>2
  <2> DEFINE x == IF s[n + 1] \in T THEN Append(f[n], s[n + 1]) ELSE f[n]
             g == [i \in 0 .. n + 1 |-> IF i = n + 1 THEN x ELSE f[i]]
  <2>2. n \in 0 .. n /\ n + 1 \in 1 .. Len(s) /\ n \in Nat /\ n + 1 - 1 = n /\ n + 1 # 0
        /\ n + 1 \in 0 .. n + 1 /\ n \in 0 .. n + 1 /\ n + 1 \in 0 .. Len(s) /\ n # n + 1
    OBVIOUS
  <2>3. x \in Seq(S)
    BY <2>2
  <2> HIDE DEF x
  <2>4. g \in [0 .. n + 1 -> Seq(S)]
    BY <2>3
  <2>5. (\A i \in 0 .. n : g[i] = f[i]) /\ g[n + 1] = x
    OBVIOUS
  <2> HIDE DEF g
  <2>6. ASSUME NEW i \in 0 .. n + 1 PROVE g[i] = Turn(s, T, g, i)
    <3>1. CASE i \in 0 .. n
      <4>1. f[i] = Turn(s, T, f, i) /\ g[i] = f[i]
        BY <3>1, <2>1, <2>5
      <4>2. i # 0 => g[i - 1] = f[i - 1]
        <5>1. i # 0 => i - 1 \in 0 .. n
          BY <3>1
        <5> QED
          BY <5>1, <2>5
      <4> QED
        BY <4>1, <4>2 DEF Turn
    <3>2. CASE i = n + 1
      <4>1. g[n] = f[n]
        BY <2>2, <2>5
      <4>2. Turn(s, T, g, n + 1) = IF s[n + 1] \in T THEN Append(g[n], s[n + 1]) ELSE g[n]
        BY <2>2 DEF Turn
      <4>3. Turn(s, T, g, n + 1) = x
        BY <4>1, <4>2 DEF x
      <4> QED
        BY <3>2, <4>3, <2>5
    <3> QED
      BY <3>1, <3>2
  <2> QED
    BY <2>2, <2>4, <2>6
<1> HIDE DEF G
<1>3. Len(s) \in G
  <2>1. Len(s) \in Nat /\ Len(s) \in 0 .. Len(s)
    OBVIOUS
  <2> QED
    BY <1>1, <1>2, <2>1, Induction
<1>4. PICK f \in [0 .. Len(s) -> Seq(S)] : Fits(Len(s), f)
  BY <1>3 DEF G
<1>5. f = [i \in 0 .. Len(s) |-> Turn(s, T, f, i)]
  BY <1>4
<1> QED
  BY <1>5

LEMMA SelectingUnfolds ==
  ASSUME NEW S, NEW s \in Seq(S), NEW T
  PROVE  /\ Selecting(s, T)[0] = << >>
         /\ \A i \in 1 .. Len(s) :
              Selecting(s, T)[i] = IF s[i] \in T THEN Append(Selecting(s, T)[i - 1], s[i])
                                   ELSE Selecting(s, T)[i - 1]
<1> DEFINE P(f) == f = [i \in 0 .. Len(s) |-> Turn(s, T, f, i)]
<1>1. \E f : P(f)
  BY SelectingExists
<1>2. Selecting(s, T) = CHOOSE f : P(f)
  BY SelectingDef
<1> HIDE DEF P
<1>3. P(Selecting(s, T))
  BY <1>1, <1>2
<1>4. \A i \in 0 .. Len(s) : Selecting(s, T)[i] = Turn(s, T, Selecting(s, T), i)
  <2> DEFINE f == Selecting(s, T)
  <2>1. f = [i \in 0 .. Len(s) |-> Turn(s, T, f, i)]
    BY <1>3 DEF P
  <2> HIDE DEF f
  <2>2. \A i \in 0 .. Len(s) : f[i] = Turn(s, T, f, i)
    BY <2>1
  <2> QED
    BY <2>2 DEF f
<1> QED
  BY <1>4 DEF Turn

-----------------------------------------------------------------------------
(* What is selected.                                                       *)

\* One step of a selection.
LEMMA SelectingTypes ==
  ASSUME NEW S, NEW s \in Seq(S), NEW T
  PROVE  \A n \in 0 .. Len(s) : Selecting(s, T)[n] \in Seq(S \cap T)
<1> DEFINE f == Selecting(s, T)
           R == S \cap T
           G == {n \in 0 .. Len(s) : f[n] \in Seq(R)}
<1>1. /\ f[0] = << >> /\ Len(s) \in Nat
      /\ \A i \in 1 .. Len(s) : f[i] = IF s[i] \in T THEN Append(f[i - 1], s[i]) ELSE f[i - 1]
  BY SelectingUnfolds
<1>2. \A i \in 1 .. Len(s) : s[i] \in T => s[i] \in R
  OBVIOUS
<1> HIDE DEF f, R
<1>3. 0 \in G
  <2>1. << >> \in Seq(R) /\ 0 \in 0 .. Len(s)
    BY <1>1
  <2> QED
    BY <1>1, <2>1
<1>4. ASSUME NEW n \in 0 .. Len(s) - 1, n \in G PROVE n + 1 \in G
  <2>1. n + 1 \in 1 .. Len(s) /\ n + 1 \in 0 .. Len(s) /\ n + 1 - 1 = n
    BY <1>1
  <2>2. f[n + 1] = IF s[n + 1] \in T THEN Append(f[n], s[n + 1]) ELSE f[n]
    BY <1>1, <2>1
  <2>3. f[n] \in Seq(R) /\ (s[n + 1] \in T => s[n + 1] \in R)
    BY <1>2, <1>4, <2>1
  <2>4. f[n + 1] \in Seq(R)
    BY <2>2, <2>3
  <2> QED
    BY <2>1, <2>4
<1> HIDE DEF G
<1>5. \A n \in 0 .. Len(s) : n \in G
  BY <1>1, <1>3, <1>4, Induction
<1> QED
  BY <1>5 DEF f, G, R

\* Selections agree as far as the sequences do.
LEMMA SelectingAgrees ==
  ASSUME NEW S, NEW s \in Seq(S), NEW T, NEW R, NEW t \in Seq(R), NEW U, NEW n \in Nat,
         n <= Len(s), n <= Len(t),
         \A i \in 1 .. n : (s[i] \in T <=> t[i] \in U) /\ (s[i] \in T => s[i] = t[i])
  PROVE  Selecting(s, T)[n] = Selecting(t, U)[n]
<1> DEFINE f == Selecting(s, T)
           g == Selecting(t, U)
           G == {k \in 0 .. n : f[k] = g[k]}
<1>1. /\ f[0] = << >> /\ Len(s) \in Nat
      /\ \A i \in 1 .. Len(s) : f[i] = IF s[i] \in T THEN Append(f[i - 1], s[i]) ELSE f[i - 1]
  BY SelectingUnfolds
<1>2. /\ g[0] = << >> /\ Len(t) \in Nat
      /\ \A i \in 1 .. Len(t) : g[i] = IF t[i] \in U THEN Append(g[i - 1], t[i]) ELSE g[i - 1]
  BY SelectingUnfolds
<1> HIDE DEF f, g
<1>3. 0 \in G
  BY <1>1, <1>2
<1>4. ASSUME NEW k \in 0 .. n - 1, k \in G PROVE k + 1 \in G
  <2>1. k + 1 \in 1 .. n /\ k + 1 \in 1 .. Len(s) /\ k + 1 \in 1 .. Len(t) /\ k + 1 - 1 = k
        /\ k + 1 \in 0 .. n
    BY <1>1, <1>2
  <2>2. f[k + 1] = IF s[k + 1] \in T THEN Append(f[k], s[k + 1]) ELSE f[k]
    BY <1>1, <2>1
  <2>3. g[k + 1] = IF t[k + 1] \in U THEN Append(g[k], t[k + 1]) ELSE g[k]
    BY <1>2, <2>1
  <2>4. (s[k + 1] \in T <=> t[k + 1] \in U) /\ (s[k + 1] \in T => s[k + 1] = t[k + 1])
    BY <2>1
  <2>5. f[k] = g[k]
    BY <1>4
  <2> QED
    BY <2>1, <2>2, <2>3, <2>4, <2>5
<1> HIDE DEF G
<1>5. n \in G
  <2>1. n \in 0 .. n
    OBVIOUS
  <2> QED
    BY <1>3, <1>4, <2>1, Induction
<1> QED
  BY <1>5 DEF f, g, G

LEMMA SelectedOfEmpty ==
  ASSUME NEW T
  PROVE  Selected(<< >>, T) = << >>
<1>1. \A S : \A s \in Seq(S) : Selecting(s, T)[0] = << >>
  BY SelectingUnfolds
<1>2. << >> \in Seq({}) /\ Len(<< >>) = 0
  OBVIOUS
<1>3. Selecting(<< >>, T)[0] = << >>
  BY <1>1, <1>2
<1> QED
  BY <1>2, <1>3 DEF Selected

LEMMA SelectedType ==
  ASSUME NEW S, NEW s \in Seq(S), NEW T
  PROVE  Selected(s, T) \in Seq(S \cap T) /\ Selected(s, T) \in Seq(S)
<1>1. Len(s) \in 0 .. Len(s)
  OBVIOUS
<1>2. Selected(s, T) \in Seq(S \cap T)
  BY <1>1, SelectingTypes DEF Selected
<1>3. \A x \in Seq(S \cap T) : x \in Seq(S)
  OBVIOUS
<1> QED
  BY <1>2, <1>3

\* Sequences that agree on what is selected, element by element.
LEMMA SelectedAgrees ==
  ASSUME NEW S, NEW s \in Seq(S), NEW T, NEW R, NEW t \in Seq(R), NEW U, Len(s) = Len(t),
         \A i \in 1 .. Len(s) : (s[i] \in T <=> t[i] \in U) /\ (s[i] \in T => s[i] = t[i])
  PROVE  Selected(s, T) = Selected(t, U)
<1>1. Len(s) \in Nat /\ Len(s) <= Len(s) /\ Len(s) <= Len(t)
  OBVIOUS
<1> QED
  BY <1>1, SelectingAgrees DEF Selected

LEMMA SelectedOfAppend ==
  ASSUME NEW S, NEW s \in Seq(S), NEW e \in S, NEW T
  PROVE  Selected(Append(s, e), T) = IF e \in T THEN Append(Selected(s, T), e) ELSE Selected(s, T)
<1> DEFINE t == Append(s, e)
           n == Len(s)
<1>1. t \in Seq(S) /\ Len(t) = n + 1 /\ n \in Nat /\ t[n + 1] = e /\ \A i \in 1 .. n : t[i] = s[i]
  OBVIOUS
<1> HIDE DEF t
<1>2. Selecting(t, T)[n] = Selecting(s, T)[n]
  <2>1. n <= Len(s) /\ n <= Len(t)
    BY <1>1
  <2>2. \A i \in 1 .. n : (t[i] \in T <=> s[i] \in T) /\ (t[i] \in T => t[i] = s[i])
    BY <1>1
  <2> HIDE DEF n
  <2> QED
    BY <1>1, <2>1, <2>2, SelectingAgrees
<1>3. n + 1 \in 1 .. Len(t) /\ n + 1 - 1 = n
  BY <1>1
<1>4. Selecting(t, T)[n + 1] = IF t[n + 1] \in T THEN Append(Selecting(t, T)[n], t[n + 1])
                               ELSE Selecting(t, T)[n]
  BY <1>1, <1>3, SelectingUnfolds
<1> QED
  BY <1>1, <1>2, <1>4 DEF Selected, t

\* What is selected of a selection.
LEMMA SelectedTwice ==
  ASSUME NEW S, NEW s \in Seq(S), NEW T, NEW U
  PROVE  Selected(Selected(s, T), U) = Selected(s, T \cap U)
<1> DEFINE f == Selecting(s, T)
           g == Selecting(s, T \cap U)
           G == {n \in 0 .. Len(s) : Selected(f[n], U) = g[n]}
<1>1. /\ f[0] = << >> /\ Len(s) \in Nat
      /\ \A i \in 1 .. Len(s) : f[i] = IF s[i] \in T THEN Append(f[i - 1], s[i]) ELSE f[i - 1]
  BY SelectingUnfolds
<1>2. /\ g[0] = << >>
      /\ \A i \in 1 .. Len(s) : g[i] = IF s[i] \in T \cap U THEN Append(g[i - 1], s[i]) ELSE g[i - 1]
  BY SelectingUnfolds
<1>3. \A n \in 0 .. Len(s) : f[n] \in Seq(S)
  <2>1. \A n \in 0 .. Len(s) : f[n] \in Seq(S \cap T)
    BY SelectingTypes
  <2> HIDE DEF f
  <2> QED
    BY <2>1
<1> HIDE DEF f, g
<1>4. 0 \in G
  BY <1>1, <1>2, SelectedOfEmpty
<1>5. ASSUME NEW n \in 0 .. Len(s) - 1, n \in G PROVE n + 1 \in G
  <2> DEFINE e == s[n + 1]
  <2>1. n + 1 \in 1 .. Len(s) /\ n + 1 \in 0 .. Len(s) /\ n \in 0 .. Len(s) /\ n + 1 - 1 = n /\ e \in S
    OBVIOUS
  <2> HIDE DEF e
  <2>2. f[n + 1] = IF e \in T THEN Append(f[n], e) ELSE f[n]
    BY <1>1, <2>1 DEF e
  <2>3. g[n + 1] = IF e \in T \cap U THEN Append(g[n], e) ELSE g[n]
    BY <1>2, <2>1 DEF e
  <2>4. Selected(f[n], U) = g[n] /\ f[n] \in Seq(S)
    BY <1>5, <1>3, <2>1
  <2>5. Selected(Append(f[n], e), U) = IF e \in U THEN Append(Selected(f[n], U), e) ELSE Selected(f[n], U)
    BY <2>1, <2>4, SelectedOfAppend
  <2>6. Selected(f[n + 1], U) = g[n + 1]
    BY <2>2, <2>3, <2>4, <2>5
  <2> QED
    BY <2>1, <2>6
<1> HIDE DEF G
<1>6. Len(s) \in G
  <2>1. Len(s) \in 0 .. Len(s)
    BY <1>1
  <2> QED
    BY <1>1, <1>4, <1>5, <2>1, Induction
<1> QED
  BY <1>6 DEF f, g, G, Selected

\* Nothing is selected of a prefix exactly if nothing in it belongs.
LEMMA SelectingNone ==
  ASSUME NEW S, NEW s \in Seq(S), NEW T
  PROVE  \A n \in 0 .. Len(s) : Selecting(s, T)[n] = << >> <=> \A i \in 1 .. n : s[i] \notin T
<1> DEFINE f == Selecting(s, T)
           G == {n \in 0 .. Len(s) : f[n] = << >> <=> \A i \in 1 .. n : s[i] \notin T}
<1>1. /\ f[0] = << >> /\ Len(s) \in Nat
      /\ \A i \in 1 .. Len(s) : f[i] = IF s[i] \in T THEN Append(f[i - 1], s[i]) ELSE f[i - 1]
  BY SelectingUnfolds
<1>2. \A n \in 0 .. Len(s) : f[n] \in Seq(S \cap T)
  BY SelectingTypes
<1> HIDE DEF f
<1>3. 0 \in G
  BY <1>1
<1>4. ASSUME NEW n \in 0 .. Len(s) - 1, n \in G PROVE n + 1 \in G
  <2> DEFINE e == s[n + 1]
  <2>1. n + 1 \in 1 .. Len(s) /\ n + 1 \in 0 .. Len(s) /\ n \in 0 .. Len(s) /\ n + 1 - 1 = n
    OBVIOUS
  <2>2. f[n + 1] = IF e \in T THEN Append(f[n], e) ELSE f[n]
    BY <1>1, <2>1
  <2>3. \A i \in 1 .. n + 1 : i \in 1 .. n \/ i = n + 1
    BY <2>1
  <2>4. 1 .. n \subseteq 1 .. n + 1 /\ n + 1 \in 1 .. n + 1
    BY <2>1
  <2> HIDE DEF e
  <2>5. CASE e \in T
    <3>1. f[n] \in Seq(S \cap T) /\ f[n + 1] = Append(f[n], e)
      BY <1>2, <2>1, <2>2, <2>5
    <3>2. f[n + 1] # << >>
      <4> DEFINE x == f[n + 1]
      <4>1. Len(x) = Len(f[n]) + 1 /\ Len(f[n]) \in Nat
        BY <3>1
      <4> HIDE DEF x
      <4>2. x # << >>
        BY <4>1
      <4> QED
        BY <4>2 DEF x
    <3> QED
      BY <2>1, <2>4, <2>5, <3>2 DEF e
  <2>6. CASE e \notin T
    <3>1. (\A i \in 1 .. n + 1 : s[i] \notin T) <=> (\A i \in 1 .. n : s[i] \notin T)
      BY <2>3, <2>4, <2>6 DEF e
    <3>2. f[n + 1] = f[n]
      BY <2>2, <2>6
    <3> QED
      BY <1>4, <2>1, <3>1, <3>2
  <2> QED
    BY <2>5, <2>6
<1> HIDE DEF G
<1>5. \A n \in 0 .. Len(s) : n \in G
  BY <1>1, <1>3, <1>4, Induction
<1> QED
  BY <1>5 DEF f, G

\* Nothing is selected exactly if nothing belongs.
LEMMA SelectedNone ==
  ASSUME NEW S, NEW s \in Seq(S), NEW T
  PROVE  Selected(s, T) = << >> <=> \A i \in 1 .. Len(s) : s[i] \notin T
<1>1. Len(s) \in 0 .. Len(s)
  OBVIOUS
<1> QED
  BY <1>1, SelectingNone DEF Selected

\* What is selected of a prefix is no more than what is selected of the whole.
LEMMA SelectingGrows ==
  ASSUME NEW S, NEW s \in Seq(S), NEW T, NEW p \in 0 .. Len(s)
  PROVE  Len(Selecting(s, T)[p]) <= Len(Selected(s, T))
<1> DEFINE f == Selecting(s, T)
           G == {n \in 0 .. Len(s) : p <= n => Len(f[p]) <= Len(f[n])}
<1>1. /\ f[0] = << >> /\ Len(s) \in Nat
      /\ \A i \in 1 .. Len(s) : f[i] = IF s[i] \in T THEN Append(f[i - 1], s[i]) ELSE f[i - 1]
  BY SelectingUnfolds
<1>2. \A n \in 0 .. Len(s) : f[n] \in Seq(S \cap T)
  BY SelectingTypes
<1> HIDE DEF f
<1>3. \A n \in 0 .. Len(s) : Len(f[n]) \in Nat
  BY <1>2
<1>4. 0 \in G
  BY <1>1, <1>3
<1>5. ASSUME NEW n \in 0 .. Len(s) - 1, n \in G PROVE n + 1 \in G
  <2>1. n + 1 \in 1 .. Len(s) /\ n + 1 \in 0 .. Len(s) /\ n \in 0 .. Len(s) /\ n + 1 - 1 = n
    BY <1>1
  <2>2. f[n + 1] = IF s[n + 1] \in T THEN Append(f[n], s[n + 1]) ELSE f[n]
    BY <1>1, <2>1
  <2>3. Len(f[n]) <= Len(f[n + 1])
    BY <1>2, <2>1, <2>2
  <2>4. Len(f[n]) \in Nat /\ Len(f[n + 1]) \in Nat /\ Len(f[p]) \in Nat
    BY <1>3, <2>1
  <2>5. CASE p <= n
    <3>1. Len(f[p]) <= Len(f[n])
      BY <1>5, <2>5
    <3> DEFINE a == Len(f[p])
               b == Len(f[n])
               c == Len(f[n + 1])
    <3>2. a <= b /\ b <= c /\ a \in Nat /\ b \in Nat /\ c \in Nat
      BY <2>3, <2>4, <3>1
    <3> HIDE DEF a, b, c
    <3>3. a <= c
      BY <3>2
    <3> QED
      BY <2>1, <3>3 DEF a, c
  <2>6. CASE ~(p <= n)
    <3>1. p <= n + 1 => p = n + 1
      BY <2>1, <2>6
    <3> QED
      BY <2>1, <2>4, <3>1
  <2> QED
    BY <2>5, <2>6
<1> HIDE DEF G
<1>6. Len(s) \in G
  <2>1. Len(s) \in 0 .. Len(s)
    BY <1>1
  <2> QED
    BY <1>1, <1>4, <1>5, <2>1, Induction
<1> QED
  BY <1>1, <1>6 DEF f, G, Selected

\* As many are selected as there are places of them.
LEMMA SelectedSamePlaces ==
  ASSUME NEW S, NEW s \in Seq(S), NEW T, NEW R, NEW t \in Seq(R), NEW U, Len(s) = Len(t),
         \A i \in 1 .. Len(s) : s[i] \in T <=> t[i] \in U
  PROVE  Len(Selected(s, T)) = Len(Selected(t, U))
<1> DEFINE f == Selecting(s, T)
           g == Selecting(t, U)
           G == {n \in 0 .. Len(s) : Len(f[n]) = Len(g[n])}
<1>1. /\ f[0] = << >> /\ Len(s) \in Nat
      /\ \A i \in 1 .. Len(s) : f[i] = IF s[i] \in T THEN Append(f[i - 1], s[i]) ELSE f[i - 1]
  BY SelectingUnfolds
<1>2. /\ g[0] = << >>
      /\ \A i \in 1 .. Len(s) : g[i] = IF t[i] \in U THEN Append(g[i - 1], t[i]) ELSE g[i - 1]
  BY SelectingUnfolds
<1>3. \A n \in 0 .. Len(s) : f[n] \in Seq(S \cap T) /\ g[n] \in Seq(R \cap U)
  BY SelectingTypes
<1> HIDE DEF f, g
<1>4. 0 \in G
  BY <1>1, <1>2
<1>5. ASSUME NEW n \in 0 .. Len(s) - 1, n \in G PROVE n + 1 \in G
  <2> DEFINE d == s[n + 1]
             e == t[n + 1]
             x == f[n]
             y == g[n]
  <2>1. n + 1 \in 1 .. Len(s) /\ n + 1 \in 0 .. Len(s) /\ n \in 0 .. Len(s) /\ n + 1 - 1 = n
    BY <1>1
  <2>2. f[n + 1] = IF d \in T THEN Append(x, d) ELSE x
    BY <1>1, <2>1
  <2>3. g[n + 1] = IF e \in U THEN Append(y, e) ELSE y
    BY <1>2, <2>1
  <2>4. (d \in T <=> e \in U) /\ x \in Seq(S \cap T) /\ y \in Seq(R \cap U) /\ Len(x) = Len(y)
    BY <1>3, <1>5, <2>1
  <2> HIDE DEF d, e, x, y
  <2>5. Len(Append(x, d)) = Len(x) + 1 /\ Len(Append(y, e)) = Len(y) + 1
    BY <2>4
  <2>6. Len(f[n + 1]) = Len(g[n + 1])
    BY <2>2, <2>3, <2>4, <2>5
  <2> QED
    BY <2>1, <2>6
<1> HIDE DEF G
<1>6. Len(s) \in G
  <2>1. Len(s) \in 0 .. Len(s)
    BY <1>1
  <2> QED
    BY <1>1, <1>4, <1>5, <2>1, Induction
<1> QED
  BY <1>6 DEF f, g, G, Selected

\* Whatever belongs is selected.
LEMMA SelectedHas ==
  ASSUME NEW S, NEW s \in Seq(S), NEW T, NEW p \in 1 .. Len(s), s[p] \in T
  PROVE  \E k \in 1 .. Len(Selected(s, T)) : Selected(s, T)[k] = s[p]
<1> DEFINE f == Selecting(s, T)
           Has(x) == \E k \in 1 .. Len(x) : x[k] = s[p]
           G == {n \in 0 .. Len(s) : p <= n => Has(f[n])}
<1>1. /\ f[0] = << >> /\ Len(s) \in Nat
      /\ \A i \in 1 .. Len(s) : f[i] = IF s[i] \in T THEN Append(f[i - 1], s[i]) ELSE f[i - 1]
  BY SelectingUnfolds
<1>2. \A n \in 0 .. Len(s) : f[n] \in Seq(S \cap T)
  BY SelectingTypes
<1> HIDE DEF f
<1>3. 0 \in G
  BY <1>1
<1>4. ASSUME NEW n \in 0 .. Len(s) - 1, n \in G PROVE n + 1 \in G
  <2> DEFINE e == s[n + 1]
             x == f[n]
  <2>1. n + 1 \in 1 .. Len(s) /\ n + 1 \in 0 .. Len(s) /\ n \in 0 .. Len(s) /\ n + 1 - 1 = n
    BY <1>1
  <2>2. f[n + 1] = (IF e \in T THEN Append(x, e) ELSE x) /\ x \in Seq(S \cap T)
    BY <1>1, <1>2, <2>1
  <2>3. (p <= n => Has(x)) /\ (p <= n + 1 => p <= n \/ p = n + 1)
    BY <1>4, <2>1
  <2>4. p = n + 1 => e = s[p] /\ e \in T
    OBVIOUS
  <2> HIDE DEF e, x
  <2>5. LET z == Append(x, e) IN
        /\ Len(x) \in Nat /\ Len(z) = Len(x) + 1 /\ z[Len(x) + 1] = e
        /\ \A k \in 1 .. Len(x) : z[k] = x[k] /\ k \in 1 .. Len(z)
    BY <2>2
  <2>6. Has(x) => Has(Append(x, e))
    BY <2>5
  <2>7. e = s[p] => Has(Append(x, e))
    <3>1. Len(x) + 1 \in 1 .. Len(Append(x, e))
      BY <2>5
    <3> QED
      BY <3>1, <2>5
  <2> HIDE DEF Has
  <2>8. p <= n + 1 => Has(f[n + 1])
    BY <2>2, <2>3, <2>4, <2>6, <2>7
  <2> QED
    BY <2>1, <2>8
<1> HIDE DEF G
<1>5. Len(s) \in G
  <2>1. Len(s) \in 0 .. Len(s)
    BY <1>1
  <2> QED
    BY <1>1, <1>3, <1>4, <2>1, Induction
<1> QED
  BY <1>5 DEF f, G, Selected

\* Appending behind another sequence.
Behind(s, t, e) == Append(s \o t, e) = s \o Append(t, e)

LEMMA AppendBehind ==
  ASSUME NEW S, NEW s \in Seq(S), NEW t \in Seq(S), NEW e \in S
  PROVE  Behind(s, t, e)
BY DEF Behind

\* What is selected of a sequence behind another.
LEMMA SelectedOfConcat ==
  ASSUME NEW S, NEW s \in Seq(S), NEW t \in Seq(S), NEW T
  PROVE  Selected(s \o t, T) = Selected(s, T) \o Selected(t, T)
<1> DEFINE both == S \cap T
           u == s \o t
           here == Selected(s, T)
           there(n) == Selecting(t, T)[n]
           G == {n \in 0 .. Len(t) : Selecting(u, T)[Len(s) + n] = here \o there(n)}
<1>1. u \in Seq(S) /\ Len(u) = Len(s) + Len(t) /\ Len(s) \in Nat /\ Len(t) \in Nat
      /\ (\A i \in 1 .. Len(s) : u[i] = s[i]) /\ \A i \in 1 .. Len(t) : u[Len(s) + i] = t[i]
  OBVIOUS
<1> HIDE DEF u
<1>2. here \in Seq(both)
  BY SelectedType
<1>3. \A n \in 0 .. Len(t) : there(n) \in Seq(both)
  BY SelectingTypes
<1> HIDE DEF both
<1>4. 0 \in G
  <2>1. Selecting(u, T)[Len(s)] = Selecting(s, T)[Len(s)]
    <3>1. Len(s) <= Len(u) /\ Len(s) <= Len(s) /\ Len(s) \in Nat /\ u \in Seq(S) /\ s \in Seq(S)
      BY <1>1
    <3>2. \A i \in 1 .. Len(s) : (u[i] \in T <=> s[i] \in T) /\ (u[i] \in T => u[i] = s[i])
      BY <1>1
    <3> QED
      BY <3>1, <3>2, SelectingAgrees
  <2>2. there(0) = << >>
    BY SelectingUnfolds
  <2>3. here \o << >> = here
    <3> HIDE DEF here
    <3> QED
      BY <1>2
  <2>4. Selecting(u, T)[Len(s) + 0] = here
    BY <2>1, <1>1 DEF Selected
  <2>5. 0 \in 0 .. Len(t)
    BY <1>1
  <2>6. here \o there(0) = here
    BY <2>2, <2>3
  <2> QED
    BY <2>4, <2>5, <2>6
<1>5. ASSUME NEW n \in 0 .. Len(t) - 1, n \in G PROVE n + 1 \in G
  <2>1. n + 1 \in 1 .. Len(t) /\ Len(s) + (n + 1) \in 1 .. Len(u) /\ n + 1 \in 0 .. Len(t)
        /\ Len(s) + (n + 1) - 1 = Len(s) + n /\ n + 1 - 1 = n /\ n \in 0 .. Len(t)
    BY <1>1
  <2>2. u[Len(s) + (n + 1)] = t[n + 1] /\ t[n + 1] \in S
    BY <1>1, <2>1
  <2>3. Selecting(u, T)[Len(s) + (n + 1)]
          = IF t[n + 1] \in T THEN Append(Selecting(u, T)[Len(s) + n], t[n + 1])
            ELSE Selecting(u, T)[Len(s) + n]
    <3>1. \A i \in 1 .. Len(u) :
            Selecting(u, T)[i] = IF u[i] \in T THEN Append(Selecting(u, T)[i - 1], u[i])
                                 ELSE Selecting(u, T)[i - 1]
      BY <1>1, SelectingUnfolds
    <3> HIDE DEF here, there, G
    <3> DEFINE f == Selecting(u, T)
               m == Len(s) + (n + 1)
    <3>2. m \in 1 .. Len(u) /\ m - 1 = Len(s) + n /\ u[m] = t[n + 1]
      BY <2>1, <2>2
    <3>3. \A i \in 1 .. Len(u) : f[i] = IF u[i] \in T THEN Append(f[i - 1], u[i]) ELSE f[i - 1]
      BY <3>1
    <3> HIDE DEF f, m
    <3>4. f[m] = IF t[n + 1] \in T THEN Append(f[Len(s) + n], t[n + 1]) ELSE f[Len(s) + n]
      BY <3>2, <3>3
    <3> QED
      BY <3>4 DEF f, m
  <2>4. there(n + 1) = IF t[n + 1] \in T THEN Append(there(n), t[n + 1]) ELSE there(n)
    BY <2>1, SelectingUnfolds
  <2>5. Selecting(u, T)[Len(s) + n] = here \o there(n)
    BY <1>5
  <2>6. CASE t[n + 1] \in T
    <3>1. Append(here \o there(n), t[n + 1]) = here \o Append(there(n), t[n + 1])
      <4>1. there(n) \in Seq(both) /\ t[n + 1] \in both
        BY <1>3, <2>1, <2>2, <2>6 DEF both
      <4> HIDE DEF here, there
      <4>2. Behind(here, there(n), t[n + 1])
        BY <4>1, <1>2, AppendBehind
      <4> QED
        BY ONLY <4>2, Zenon DEF Behind
    <3> QED
      BY <3>1, <2>1, <2>3, <2>4, <2>5, <2>6
  <2>7. CASE t[n + 1] \notin T
    BY <2>7, <2>1, <2>3, <2>4, <2>5
  <2> QED
    BY <2>6, <2>7
<1>6. Len(t) \in 0 .. Len(t)
  BY <1>1
<1> HIDE DEF G
<1>7. Len(t) \in G
  BY <1>1, <1>4, <1>5, <1>6, Induction
<1> QED
  BY <1>7, <1>1 DEF G, u, Selected

\* All of a sequence is selected if all of it belongs.
LEMMA SelectedAll ==
  ASSUME NEW S, NEW s \in Seq(S), NEW T, \A i \in 1 .. Len(s) : s[i] \in T
  PROVE  Selected(s, T) = s
<1> DEFINE G == {n \in 0 .. Len(s) : Selecting(s, T)[n] = SubSeq(s, 1, n)}
<1>0. Len(s) \in Nat
  OBVIOUS
<1>1. 0 \in G
  <2>1. SubSeq(s, 1, 0) = << >>
    OBVIOUS
  <2>2. Selecting(s, T)[0] = << >> /\ 0 \in 0 .. Len(s)
    BY <1>0, SelectingUnfolds
  <2> QED
    BY <2>1, <2>2
<1>2. ASSUME NEW n \in 0 .. Len(s) - 1, n \in G PROVE n + 1 \in G
  <2>1. n + 1 \in 1 .. Len(s) /\ n + 1 - 1 = n /\ n + 1 \in 0 .. Len(s)
    BY <1>0
  <2>4. Selecting(s, T)[n] = SubSeq(s, 1, n) /\ s[n + 1] \in T
    BY <1>2, <2>1
  <2>2. Selecting(s, T)[n + 1] = Append(SubSeq(s, 1, n), s[n + 1])
    <3>1. Selecting(s, T)[n + 1]
            = IF s[n + 1] \in T THEN Append(Selecting(s, T)[n + 1 - 1], s[n + 1])
              ELSE Selecting(s, T)[n + 1 - 1]
      BY <2>1, SelectingUnfolds
    <3> QED
      BY <3>1, <2>1, <2>4
  <2>3. Append(SubSeq(s, 1, n), s[n + 1]) = SubSeq(s, 1, n + 1)
    BY <2>1, <1>0
  <2> QED
    BY <2>1, <2>2, <2>3
<1>3. Len(s) \in 0 .. Len(s)
  BY <1>0
<1> HIDE DEF G
<1>4. Len(s) \in G
  BY <1>0, <1>1, <1>2, <1>3, Induction
<1>5. SubSeq(s, 1, Len(s)) = s
  OBVIOUS
<1> QED
  BY <1>4, <1>5 DEF G, Selected
=============================================================================
