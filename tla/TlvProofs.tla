------------------------------- MODULE TlvProofs -------------------------------
(***************************************************************************)
(* Proofs about Tlv and List, for any number of TLVs, calls and            *)
(* references: the arrays of nested TLVs are sequences, every reference is  *)
(* counted, what objects point at is there, and what they say is kept,     *)
(* read back and copied.                                                   *)
(***************************************************************************)
EXTENDS Tlv, SelectionProofs, SequenceTheorems

-----------------------------------------------------------------------------
(* The array of a list and its elements.                                   *)

\* What a slot may hold, and a list between two calls: a slot is always left over.
Slots == Tlvs \cup {Null}
Lists ==
  {l \in [arr : Seq(Slots), len : Nat] :
     /\ l.len <= Len(l.arr) /\ (l.len > 0 => l.len < Len(l.arr))
     /\ \A i \in 1 .. l.len : l.arr[i] \in Tlvs}

LEMMA EmptyList ==
  NewList \in Lists /\ Elements(NewList) = << >> /\ Length(NewList) = 0
<1>1. NewList.arr = << >> /\ NewList.len = 0
  BY DEF NewList
<1>2. NewList \in [arr : Seq(Slots), len : Nat]
  BY DEF NewList
<1>3. Elements(NewList) = << >>
  BY DEF Elements, NewList
<1> QED
  BY <1>1, <1>2, <1>3 DEF Lists, Length

LEMMA ElementsAre ==
  ASSUME NEW l \in Lists
  PROVE  /\ Elements(l) \in Seq(Tlvs) /\ Len(Elements(l)) = l.len
         /\ \A i \in 1 .. l.len : Elements(l)[i] = l.arr[i]
<1>1. l.arr \in Seq(Slots) /\ l.len \in Nat /\ l.len <= Len(l.arr)
      /\ \A i \in 1 .. l.len : l.arr[i] \in Tlvs
  BY DEF Lists
<1>2. Elements(l) \in Seq(Slots) /\ Len(Elements(l)) = l.len
      /\ \A i \in 1 .. l.len : Elements(l)[i] = l.arr[i]
  BY <1>1 DEF Elements
<1>3. Elements(l) \in Seq(Tlvs)
  BY <1>1, <1>2
<1> QED
  BY <1>2, <1>3

LEMMA GrownIs ==
  ASSUME NEW l \in Lists
  PROVE  LET g == Grown(l, l.len + 1 >= Len(l.arr))
         IN  /\ g \in Seq(Slots) /\ Len(g) > l.len + 1
             /\ \A i \in 1 .. l.len : g[i] = l.arr[i]
<1>1. l.arr \in Seq(Slots) /\ l.len \in Nat /\ l.len <= Len(l.arr) /\ Null \in Slots
      /\ Increment \in Nat /\ Increment > 1
  BY IncrementAssumption DEF Lists, Slots
<1>2. CASE l.len + 1 >= Len(l.arr)
  <2> DEFINE n == Len(l.arr) + Increment - l.len
             front == SubSeq(l.arr, 1, l.len)
             back == [i \in 1 .. n |-> Null]
  <2>1. n \in Nat /\ l.len + n > l.len + 1
    BY <1>1
  <2>2. front \in Seq(Slots) /\ Len(front) = l.len
        /\ \A i \in 1 .. l.len : front[i] = l.arr[i]
    BY <1>1
  <2>3. back \in Seq(Slots) /\ Len(back) = n
    BY <1>1, <2>1
  <2>4. Grown(l, TRUE) = front \o back
    BY DEF Grown
  <2> HIDE DEF front, back, n
  <2>5. /\ front \o back \in Seq(Slots) /\ Len(front \o back) = Len(front) + Len(back)
        /\ \A i \in 1 .. Len(front) + Len(back) :
             (front \o back)[i] = IF i <= Len(front) THEN front[i] ELSE back[i - Len(front)]
    BY <2>2, <2>3, ConcatProperties
  <2>6. Len(front \o back) = l.len + n
    BY <2>2, <2>3, <2>5
  <2>7. ASSUME NEW i \in 1 .. l.len PROVE (front \o back)[i] = front[i]
    <3>1. i \in 1 .. Len(front) + Len(back) /\ i <= Len(front)
      BY <1>1, <2>1, <2>2, <2>3
    <3> QED
      BY <2>5, <3>1
  <2> QED
    BY <1>2, <2>1, <2>2, <2>4, <2>5, <2>6, <2>7
<1>3. CASE ~(l.len + 1 >= Len(l.arr))
  <2>1. Grown(l, l.len + 1 >= Len(l.arr)) = l.arr
    BY <1>3 DEF Grown
  <2>2. Len(l.arr) \in Nat
    BY <1>1
  <2>3. Len(l.arr) > l.len + 1
    BY <1>1, <1>3, <2>2
  <2> QED
    BY <1>1, <2>1, <2>3
<1> QED
  BY <1>2, <1>3

\* KSI_List_append: the array with one more slot in use.
LEMMA AppendElementIs ==
  ASSUME NEW l \in Lists, NEW o \in Slots
  PROVE  LET a == AppendElement(l, o)
         IN  /\ a = [arr |-> a.arr, len |-> l.len + 1] /\ a.len = l.len + 1
             /\ a.arr \in Seq(Slots) /\ Len(a.arr) > l.len + 1
             /\ \A i \in 1 .. l.len : a.arr[i] = l.arr[i]
             /\ a.arr[l.len + 1] = o
<1> DEFINE g == Grown(l, l.len + 1 >= Len(l.arr))
           h == [g EXCEPT ![l.len + 1] = o]
<1>1. g \in Seq(Slots) /\ Len(g) > l.len + 1 /\ \A i \in 1 .. l.len : g[i] = l.arr[i]
  BY GrownIs
<1>2. AppendElement(l, o) = [arr |-> h, len |-> l.len + 1]
  BY DEF AppendElement
<1>3. l.len \in Nat
  BY DEF Lists
<1> HIDE DEF g
<1>4. h \in Seq(Slots) /\ Len(h) = Len(g) /\ h[l.len + 1] = o
      /\ \A i \in 1 .. l.len : h[i] = g[i]
  BY <1>1, <1>3
<1> HIDE DEF h
<1> QED
  BY <1>1, <1>2, <1>4

LEMMA AppendKeeps ==
  ASSUME NEW l \in Lists, NEW o \in Tlvs
  PROVE  /\ AppendElement(l, o) \in Lists
         /\ Elements(AppendElement(l, o)) = Append(Elements(l), o)
<1> DEFINE a == AppendElement(l, o)
<1>1. /\ a = [arr |-> a.arr, len |-> l.len + 1] /\ a.len = l.len + 1
      /\ a.arr \in Seq(Slots) /\ Len(a.arr) > l.len + 1
      /\ \A i \in 1 .. l.len : a.arr[i] = l.arr[i]
      /\ a.arr[l.len + 1] = o
  <2>1. o \in Slots
    BY DEF Slots
  <2> QED
    BY <2>1, AppendElementIs
<1> HIDE DEF a
<1>2. l.len \in Nat /\ \A i \in 1 .. l.len : l.arr[i] \in Tlvs
  BY DEF Lists
<1>3. a \in [arr : Seq(Slots), len : Nat]
  BY <1>1, <1>2
<1>4. \A i \in 1 .. a.len : a.arr[i] \in Tlvs
  BY <1>1, <1>2
<1>5. a \in Lists
  BY <1>1, <1>2, <1>3, <1>4 DEF Lists
<1>6. Elements(a) \in Seq(Tlvs) /\ Len(Elements(a)) = l.len + 1
      /\ \A i \in 1 .. l.len + 1 : Elements(a)[i] = a.arr[i]
  BY <1>1, <1>5, ElementsAre
<1>7. Elements(l) \in Seq(Tlvs) /\ Len(Elements(l)) = l.len
      /\ \A i \in 1 .. l.len : Elements(l)[i] = l.arr[i]
  BY ElementsAre
<1> DEFINE s == Elements(a)  t == Append(Elements(l), o)
<1>8. t \in Seq(Tlvs) /\ Len(t) = l.len + 1 /\ t[l.len + 1] = o
      /\ \A i \in 1 .. l.len : t[i] = Elements(l)[i]
  BY <1>7
<1> HIDE DEF s, t
<1>9. \A i \in 1 .. l.len + 1 : s[i] = t[i]
  BY <1>1, <1>2, <1>6, <1>7, <1>8 DEF s
<1>10. s = t
  BY <1>2, <1>6, <1>8, <1>9, SeqEqual DEF s
<1> QED
  BY <1>5, <1>10 DEF a, s, t

\* KSI_List_replaceAt, of an element that is there.
LEMMA ReplaceKeeps ==
  ASSUME NEW l \in Lists, NEW o \in Tlvs, NEW pos \in 1 .. l.len
  PROVE  /\ ReplaceElementAt(l, pos, o) \in Lists
         /\ Elements(ReplaceElementAt(l, pos, o)) = [Elements(l) EXCEPT ![pos] = o]
<1> DEFINE r == ReplaceElementAt(l, pos, o)
           h == [l.arr EXCEPT ![pos] = o]
<1>1. l \in [arr : Seq(Slots), len : Nat] /\ l.len <= Len(l.arr) /\ (l.len > 0 => l.len < Len(l.arr))
      /\ \A i \in 1 .. l.len : l.arr[i] \in Tlvs
  BY DEF Lists
<1>2. r = [arr |-> h, len |-> l.len]
  BY <1>1 DEF ReplaceElementAt
<1>3. h \in Seq(Slots) /\ Len(h) = Len(l.arr)
      /\ \A i \in 1 .. l.len : h[i] = IF i = pos THEN o ELSE l.arr[i]
  BY <1>1 DEF Slots
<1> HIDE DEF h, r
<1>4. r \in Lists
  <2>1. r.arr = h /\ r.len = l.len /\ r \in [arr : Seq(Slots), len : Nat]
    BY <1>1, <1>2, <1>3
  <2>2. \A i \in 1 .. l.len : h[i] \in Tlvs
    BY <1>1, <1>3
  <2> QED
    BY <1>1, <1>3, <2>1, <2>2 DEF Lists
<1>5. Elements(r) \in Seq(Tlvs) /\ Len(Elements(r)) = l.len
      /\ \A i \in 1 .. l.len : Elements(r)[i] = h[i]
  BY <1>2, <1>4, ElementsAre
<1>6. Elements(l) \in Seq(Tlvs) /\ Len(Elements(l)) = l.len
      /\ \A i \in 1 .. l.len : Elements(l)[i] = l.arr[i]
  BY ElementsAre
<1> DEFINE s == Elements(r)  t == [Elements(l) EXCEPT ![pos] = o]
<1>7. t \in Seq(Tlvs) /\ Len(t) = l.len
      /\ \A i \in 1 .. l.len : t[i] = IF i = pos THEN o ELSE Elements(l)[i]
  BY <1>6
<1> HIDE DEF s, t
<1>8. \A i \in 1 .. l.len : s[i] = t[i]
  BY <1>3, <1>5, <1>6, <1>7 DEF s
<1>9. s = t
  BY <1>5, <1>7, <1>8, SeqEqual DEF s
<1> QED
  BY <1>4, <1>9 DEF r, s, t

LEMMA PieceIs ==
  ASSUME NEW S, NEW s \in Seq(S), NEW m \in Nat \ {0}, NEW n \in Nat, n <= Len(s), m <= n + 1
  PROVE  /\ SubSeq(s, m, n) \in Seq(S) /\ Len(SubSeq(s, m, n)) = n - m + 1
         /\ \A i \in 1 .. n - m + 1 : SubSeq(s, m, n)[i] = s[m + i - 1]
  OBVIOUS

LEMMA JoinIs ==
  ASSUME NEW S, NEW s \in Seq(S), NEW t \in Seq(S)
  PROVE  /\ s \o t \in Seq(S) /\ Len(s \o t) = Len(s) + Len(t)
         /\ \A i \in 1 .. Len(s) : (s \o t)[i] = s[i]
         /\ \A i \in 1 .. Len(t) : (s \o t)[Len(s) + i] = t[i]
<1>1. /\ s \o t \in Seq(S) /\ Len(s \o t) = Len(s) + Len(t)
      /\ \A i \in 1 .. Len(s) + Len(t) : (s \o t)[i] = IF i <= Len(s) THEN s[i] ELSE t[i - Len(s)]
  BY ConcatProperties
<1>2. Len(s) \in Nat /\ Len(t) \in Nat
  OBVIOUS
<1>3. ASSUME NEW i \in 1 .. Len(s) PROVE (s \o t)[i] = s[i]
  BY <1>1, <1>2
<1>4. ASSUME NEW i \in 1 .. Len(t) PROVE (s \o t)[Len(s) + i] = t[i]
  <2>1. Len(s) + i \in 1 .. Len(s) + Len(t) /\ ~(Len(s) + i <= Len(s)) /\ Len(s) + i - Len(s) = i
    BY <1>2
  <2> QED
    BY <1>1, <2>1
<1> QED
  BY <1>1, <1>3, <1>4

\* KSI_List_remove: what stood behind the element moves up.
LEMMA RemovedAt ==
  ASSUME NEW S, NEW s \in Seq(S), NEW pos \in 1 .. Len(s)
  PROVE  /\ RemoveAt(s, pos) \in Seq(S) /\ Len(RemoveAt(s, pos)) = Len(s) - 1
         /\ \A i \in 1 .. Len(s) - 1 :
              RemoveAt(s, pos)[i] = IF i < pos THEN s[i] ELSE s[i + 1]
<1> DEFINE a == SubSeq(s, 1, pos - 1)  b == SubSeq(s, pos + 1, Len(s))
<1>1. Len(s) \in Nat /\ pos \in Nat \ {0} /\ pos <= Len(s)
  OBVIOUS
<1>2. a \in Seq(S) /\ Len(a) = pos - 1 /\ \A i \in 1 .. pos - 1 : a[i] = s[i]
  BY <1>1
<1>3. b \in Seq(S) /\ Len(b) = Len(s) - pos /\ \A i \in 1 .. Len(s) - pos : b[i] = s[pos + i]
  BY <1>1
<1>4. RemoveAt(s, pos) = a \o b
  BY DEF RemoveAt
<1> HIDE DEF a, b
<1>5. /\ a \o b \in Seq(S) /\ Len(a \o b) = Len(a) + Len(b)
      /\ \A i \in 1 .. Len(a) : (a \o b)[i] = a[i]
      /\ \A i \in 1 .. Len(b) : (a \o b)[Len(a) + i] = b[i]
  <2>1. a \in Seq(S) /\ b \in Seq(S)
    BY <1>2, <1>3
  <2> QED
    BY <2>1, JoinIs
<1>6. ASSUME NEW i \in 1 .. Len(s) - 1 PROVE (a \o b)[i] = IF i < pos THEN s[i] ELSE s[i + 1]
  <2>1. CASE i < pos
    BY <1>1, <1>2, <1>5, <2>1
  <2>2. CASE ~(i < pos)
    <3>1. i - pos + 1 \in 1 .. Len(s) - pos /\ Len(a) + (i - pos + 1) = i /\ pos + (i - pos + 1) = i + 1
      BY <1>1, <1>2, <2>2
    <3>2. (a \o b)[i] = b[i - pos + 1] /\ b[i - pos + 1] = s[i + 1]
      BY <1>3, <1>5, <3>1
    <3> QED
      BY <2>2, <3>2
  <2> QED
    BY <2>1, <2>2
<1>7. Len(a \o b) = Len(s) - 1
  BY <1>1, <1>2, <1>3, <1>5
<1> QED
  BY <1>4, <1>5, <1>6, <1>7

LEMMA RemoveKeeps ==
  ASSUME NEW l \in Lists, NEW pos \in 1 .. l.len
  PROVE  /\ RemoveElement(l, pos) \in Lists
         /\ Elements(RemoveElement(l, pos)) = RemoveAt(Elements(l), pos)
<1> DEFINE r == RemoveElement(l, pos)
           s == Elements(l)
           a == SubSeq(l.arr, 1, pos - 1)
           b == SubSeq(l.arr, pos + 1, l.len)
           c == SubSeq(l.arr, l.len, Len(l.arr))
<1>1. l.arr \in Seq(Slots) /\ l.len \in Nat /\ Len(l.arr) \in Nat /\ l.len < Len(l.arr)
      /\ pos \in Nat /\ pos > 0 /\ pos <= l.len
      /\ \A i \in 1 .. l.len : l.arr[i] \in Tlvs
  BY DEF Lists
<1>2. a \in Seq(Slots) /\ Len(a) = pos - 1 /\ \A i \in 1 .. pos - 1 : a[i] = l.arr[i]
  BY <1>1
<1>3. b \in Seq(Slots) /\ Len(b) = l.len - pos /\ \A i \in 1 .. l.len - pos : b[i] = l.arr[pos + i]
  BY <1>1
<1>4. c \in Seq(Slots) /\ Len(c) = Len(l.arr) - l.len + 1
  BY <1>1
<1>5. r = [arr |-> a \o b \o c, len |-> l.len - 1]
  BY DEF RemoveElement
<1> HIDE DEF a, b, c, r
<1>6. /\ a \o b \in Seq(Slots) /\ Len(a \o b) = Len(a) + Len(b)
      /\ \A i \in 1 .. Len(a) : (a \o b)[i] = a[i]
      /\ \A i \in 1 .. Len(b) : (a \o b)[Len(a) + i] = b[i]
  <2>1. a \in Seq(Slots) /\ b \in Seq(Slots)
    BY <1>2, <1>3
  <2> QED
    BY <2>1, JoinIs
<1> DEFINE d == a \o b
<1>7. /\ d \o c \in Seq(Slots) /\ Len(d \o c) = Len(d) + Len(c)
      /\ \A i \in 1 .. Len(d) : (d \o c)[i] = d[i]
  <2> HIDE DEF d
  <2>1. d \in Seq(Slots)
    BY <1>6 DEF d
  <2> QED
    BY <1>4, <2>1, JoinIs
<1> DEFINE e == d \o c
<1>8. r = [arr |-> e, len |-> l.len - 1] /\ e \in Seq(Slots) /\ Len(e) = Len(l.arr)
  <2>1. Len(e) = Len(a) + Len(b) + Len(c)
    BY <1>6, <1>7
  <2>2. Len(e) = Len(l.arr)
    <3> HIDE DEF e
    <3> QED
      BY <1>1, <1>2, <1>3, <1>4, <2>1, SMTT(30)
  <2> QED
    BY <1>5, <1>7, <2>2
<1>9. ASSUME NEW i \in 1 .. l.len - 1 PROVE e[i] = IF i < pos THEN l.arr[i] ELSE l.arr[i + 1]
  <2>0. i \in 1 .. Len(d) /\ e[i] = d[i]
    <3>1. Len(d) = l.len - 1
      BY <1>1, <1>2, <1>3, <1>6
    <3> QED
      BY <1>7, <3>1
  <2>1. CASE i < pos
    <3>1. i \in 1 .. Len(a) /\ i \in 1 .. pos - 1
      BY <1>1, <1>2, <2>1
    <3> QED
      BY <1>2, <1>6, <2>0, <2>1, <3>1
  <2>2. CASE ~(i < pos)
    <3>1. i - pos + 1 \in 1 .. l.len - pos /\ Len(a) + (i - pos + 1) = i /\ pos + (i - pos + 1) = i + 1
      BY <1>1, <1>2, <2>2
    <3>2. d[i] = b[i - pos + 1] /\ b[i - pos + 1] = l.arr[i + 1]
      BY <1>3, <1>6, <3>1
    <3> QED
      BY <2>0, <2>2, <3>2
  <2> QED
    BY <2>1, <2>2
<1> HIDE DEF e
<1>10. ASSUME NEW i \in 1 .. l.len - 1 PROVE e[i] \in Tlvs
  <2>1. i \in 1 .. l.len /\ i + 1 \in 1 .. l.len
    BY <1>1
  <2> QED
    BY <1>1, <1>9, <2>1
<1>11. r \in Lists
  <2>1. r.arr = e /\ r.len = l.len - 1 /\ l.len - 1 \in Nat /\ r \in [arr : Seq(Slots), len : Nat]
    BY <1>1, <1>8
  <2>2. l.len - 1 < Len(e)
    BY <1>1, <1>8
  <2> QED
    BY <1>8, <1>10, <2>1, <2>2 DEF Lists
<1>12. s \in Seq(Tlvs) /\ Len(s) = l.len /\ \A i \in 1 .. l.len : s[i] = l.arr[i]
  BY ElementsAre
<1>13. Elements(r) \in Seq(Tlvs) /\ Len(Elements(r)) = l.len - 1
       /\ \A i \in 1 .. l.len - 1 : Elements(r)[i] = e[i]
  BY <1>8, <1>11, ElementsAre
<1> HIDE DEF s
<1>14. /\ RemoveAt(s, pos) \in Seq(Tlvs) /\ Len(RemoveAt(s, pos)) = l.len - 1
       /\ \A i \in 1 .. l.len - 1 : RemoveAt(s, pos)[i] = IF i < pos THEN s[i] ELSE s[i + 1]
  BY <1>12, RemovedAt, SMTT(30)
<1>15. ASSUME NEW i \in 1 .. l.len - 1 PROVE Elements(r)[i] = RemoveAt(s, pos)[i]
  <2>1. i \in 1 .. l.len /\ i + 1 \in 1 .. l.len
    BY <1>1
  <2> QED
    BY <1>9, <1>12, <1>13, <1>14, <2>1
<1>16. Elements(r) = RemoveAt(s, pos)
  BY <1>13, <1>14, <1>15, SeqEqual
<1> QED
  BY <1>11, <1>16 DEF r, s

\* KSI_List_insertAt, with at most one element behind the new one.
LEMMA ThreeJoined ==
  ASSUME NEW S, NEW a \in Seq(S), NEW e \in S, NEW b \in Seq(S)
  PROVE  LET j == a \o << e >> \o b
         IN  /\ j \in Seq(S) /\ Len(j) = Len(a) + 1 + Len(b)
             /\ \A i \in 1 .. Len(a) : j[i] = a[i]
             /\ j[Len(a) + 1] = e
             /\ \A i \in 1 .. Len(b) : j[Len(a) + 1 + i] = b[i]
<1> DEFINE m == << e >>  d == a \o m
<1>1. m \in Seq(S) /\ Len(m) = 1 /\ m[1] = e
  OBVIOUS
<1> HIDE DEF m
<1>2. /\ d \in Seq(S) /\ Len(d) = Len(a) + Len(m)
      /\ \A i \in 1 .. Len(a) : d[i] = a[i]
      /\ \A i \in 1 .. Len(m) : d[Len(a) + i] = m[i]
  <2>1. m \in Seq(S)
    BY <1>1
  <2> QED
    BY <2>1, JoinIs
<1> HIDE DEF d
<1>3. Len(a) \in Nat /\ Len(b) \in Nat /\ Len(d) = Len(a) + 1
  BY <1>1, <1>2
<1>4. d[Len(a) + 1] = e
  <2>1. 1 \in 1 .. Len(m)
    BY <1>1
  <2> QED
    BY <1>1, <1>2, <2>1
<1>5. /\ d \o b \in Seq(S) /\ Len(d \o b) = Len(d) + Len(b)
      /\ \A i \in 1 .. Len(d) : (d \o b)[i] = d[i]
      /\ \A i \in 1 .. Len(b) : (d \o b)[Len(d) + i] = b[i]
  <2>1. d \in Seq(S)
    BY <1>2
  <2> QED
    BY <2>1, JoinIs
<1> DEFINE j == d \o b
<1> HIDE DEF j
<1>6. j \in Seq(S) /\ Len(j) = Len(a) + 1 + Len(b)
  BY <1>3, <1>5 DEF j
<1>7. \A i \in 1 .. Len(a) : j[i] = a[i]
  <2>1. \A i \in 1 .. Len(a) : i \in 1 .. Len(d)
    BY <1>3
  <2> QED
    BY <1>2, <1>5, <2>1 DEF j
<1>8. j[Len(a) + 1] = e
  <2>1. Len(a) + 1 \in 1 .. Len(d)
    BY <1>3
  <2> QED
    BY <1>4, <1>5, <2>1 DEF j
<1>9. \A i \in 1 .. Len(b) : j[Len(a) + 1 + i] = b[i]
  BY <1>3, <1>5 DEF j
<1> QED
  BY <1>6, <1>7, <1>8, <1>9 DEF j, d, m

LEMMA InsertedAt ==
  ASSUME NEW S, NEW s \in Seq(S), NEW e \in S, NEW pos \in 1 .. Len(s) + 1
  PROVE  /\ InsertAt(s, pos, e) \in Seq(S) /\ Len(InsertAt(s, pos, e)) = Len(s) + 1
         /\ \A i \in 1 .. Len(s) + 1 :
              InsertAt(s, pos, e)[i] = IF i < pos THEN s[i] ELSE IF i = pos THEN e ELSE s[i - 1]
<1> DEFINE a == SubSeq(s, 1, pos - 1)  b == SubSeq(s, pos, Len(s))
           j == a \o << e >> \o b
<1>1. Len(s) \in Nat /\ pos \in Nat \ {0} /\ pos <= Len(s) + 1
  OBVIOUS
<1>2. a \in Seq(S) /\ Len(a) = pos - 1 /\ \A i \in 1 .. pos - 1 : a[i] = s[i]
  BY <1>1
<1>3. b \in Seq(S) /\ Len(b) = Len(s) - pos + 1
      /\ \A i \in 1 .. Len(s) - pos + 1 : b[i] = s[pos + i - 1]
  BY <1>1
<1>4. InsertAt(s, pos, e) = j
  BY DEF InsertAt
<1> HIDE DEF a, b
<1>5. /\ j \in Seq(S) /\ Len(j) = Len(a) + 1 + Len(b)
      /\ \A i \in 1 .. Len(a) : j[i] = a[i]
      /\ j[Len(a) + 1] = e
      /\ \A i \in 1 .. Len(b) : j[Len(a) + 1 + i] = b[i]
  <2>1. a \in Seq(S) /\ b \in Seq(S)
    BY <1>2, <1>3
  <2> QED
    BY <2>1, ThreeJoined, SMTT(30)
<1> HIDE DEF j
<1>6. ASSUME NEW i \in 1 .. Len(s) + 1
      PROVE  j[i] = IF i < pos THEN s[i] ELSE IF i = pos THEN e ELSE s[i - 1]
  <2>1. CASE i < pos
    <3>1. i \in 1 .. Len(a) /\ i \in 1 .. pos - 1
      BY <1>1, <1>2, <2>1
    <3> QED
      BY <1>2, <1>5, <2>1, <3>1
  <2>2. CASE i = pos
    <3>1. Len(a) + 1 = pos
      BY <1>1, <1>2
    <3> QED
      BY <1>1, <1>5, <2>2, <3>1
  <2>3. CASE i > pos
    <3>1. /\ i - pos \in 1 .. Len(b) /\ i - pos \in 1 .. Len(s) - pos + 1
          /\ Len(a) + 1 + (i - pos) = i /\ pos + (i - pos) - 1 = i - 1 /\ ~(i < pos) /\ i # pos
      BY <1>1, <1>2, <1>3, <2>3
    <3>2. j[i] = b[i - pos] /\ b[i - pos] = s[i - 1]
      BY <1>3, <1>5, <3>1
    <3> QED
      BY <3>1, <3>2
  <2> QED
    BY <1>1, <2>1, <2>2, <2>3
<1>7. Len(j) = Len(s) + 1
  BY <1>1, <1>2, <1>3, <1>5
<1> QED
  BY <1>4, <1>5, <1>6, <1>7

LEMMA InsertKeeps ==
  ASSUME NEW l \in Lists, NEW o \in Tlvs, NEW pos \in 1 .. l.len + 1
  PROVE  /\ InsertElementAt(l, pos, o) \in Lists
         /\ l.len <= pos => Elements(InsertElementAt(l, pos, o)) = InsertAt(Elements(l), pos, o)
<1> DEFINE r == InsertElementAt(l, pos, o)
           long == AppendElement(l, Null)
           s == Elements(l)
           a == SubSeq(long.arr, 1, pos - 1)
           b == [i \in 1 .. long.len - pos |-> long.arr[pos]]
           c == SubSeq(long.arr, long.len + 1, Len(long.arr))
           j == a \o << o >> \o b
           e == j \o c
<1>1. l.arr \in Seq(Slots) /\ l.len \in Nat /\ pos \in Nat /\ pos > 0 /\ pos <= l.len + 1
      /\ \A i \in 1 .. l.len : l.arr[i] \in Tlvs
  BY DEF Lists
<1>2. /\ long = [arr |-> long.arr, len |-> l.len + 1] /\ long.len = l.len + 1
      /\ long.arr \in Seq(Slots) /\ Len(long.arr) > l.len + 1
      /\ \A i \in 1 .. l.len : long.arr[i] = l.arr[i]
  <2>1. Null \in Slots
    BY DEF Slots
  <2> QED
    BY <2>1, AppendElementIs
<1> HIDE DEF long
<1>3. r = [arr |-> e, len |-> l.len + 1]
  <2>1. r = [long EXCEPT !.arr = e]
    BY DEF InsertElementAt, long
  <2> HIDE DEF e, r
  <2> QED
    BY <1>2, <2>1
<1>4. Len(long.arr) \in Nat
  BY <1>2
<1>5. a \in Seq(Slots) /\ Len(a) = pos - 1 /\ \A i \in 1 .. pos - 1 : a[i] = l.arr[i]
  <2>1. a \in Seq(Slots) /\ Len(a) = pos - 1 /\ \A i \in 1 .. pos - 1 : a[i] = long.arr[i]
    BY <1>1, <1>2, <1>4
  <2>2. \A i \in 1 .. pos - 1 : i \in 1 .. l.len
    BY <1>1
  <2> QED
    BY <1>2, <2>1, <2>2
<1>6. b \in Seq(Slots) /\ Len(b) = l.len + 1 - pos
      /\ \A i \in 1 .. l.len + 1 - pos : b[i] = l.arr[pos]
  <2>1. long.len - pos \in Nat /\ long.len - pos = l.len + 1 - pos
    BY <1>1, <1>2
  <2>2. pos \in 1 .. Len(long.arr)
    BY <1>1, <1>2, <1>4
  <2>3. long.arr[pos] \in Slots
    BY <1>2, <2>2
  <2>4. ASSUME NEW i \in 1 .. l.len + 1 - pos PROVE b[i] = l.arr[pos]
    <3>1. pos \in 1 .. l.len
      BY <1>1
    <3> QED
      BY <1>2, <2>1, <3>1
  <2>5. b \in Seq(Slots) /\ Len(b) = long.len - pos
    BY <2>1, <2>3
  <2> QED
    BY <2>1, <2>4, <2>5
<1>7. c \in Seq(Slots) /\ Len(c) = Len(long.arr) - (l.len + 1)
  <2>1. l.len + 2 \in Nat \ {0} /\ l.len + 2 <= Len(long.arr) + 1
    BY <1>1, <1>2, <1>4
  <2>2. c = SubSeq(long.arr, l.len + 2, Len(long.arr))
    <3>1. long.len + 1 = l.len + 2
      BY <1>1, <1>2
    <3> QED
      BY <3>1
  <2> HIDE DEF c
  <2>3. SubSeq(long.arr, l.len + 2, Len(long.arr)) \in Seq(Slots)
        /\ Len(SubSeq(long.arr, l.len + 2, Len(long.arr))) = Len(long.arr) - (l.len + 2) + 1
    BY <1>2, <1>4, <2>1, PieceIs
  <2> QED
    BY <1>1, <1>4, <2>2, <2>3
<1> HIDE DEF a, b, c, r
<1>8. /\ j \in Seq(Slots) /\ Len(j) = Len(a) + 1 + Len(b)
      /\ \A i \in 1 .. Len(a) : j[i] = a[i]
      /\ j[Len(a) + 1] = o
      /\ \A i \in 1 .. Len(b) : j[Len(a) + 1 + i] = b[i]
  <2>1. a \in Seq(Slots) /\ b \in Seq(Slots) /\ o \in Slots
    BY <1>5, <1>6 DEF Slots
  <2> HIDE DEF j
  <2>2. \A S : \A x, y \in Seq(S), z \in S :
          LET k == x \o << z >> \o y
          IN  /\ k \in Seq(S) /\ Len(k) = Len(x) + 1 + Len(y)
              /\ \A i \in 1 .. Len(x) : k[i] = x[i]
              /\ k[Len(x) + 1] = z
              /\ \A i \in 1 .. Len(y) : k[Len(x) + 1 + i] = y[i]
    BY ThreeJoined
  <2> QED
    BY <2>1, <2>2 DEF j
<1> HIDE DEF j
<1>9. /\ e \in Seq(Slots) /\ Len(e) = Len(j) + Len(c)
      /\ \A i \in 1 .. Len(j) : e[i] = j[i]
  <2>1. j \in Seq(Slots) /\ c \in Seq(Slots)
    BY <1>7, <1>8
  <2> QED
    BY <2>1, JoinIs
<1> HIDE DEF e
<1>10. Len(j) = l.len + 1 /\ Len(e) = Len(long.arr)
  <2>1. Len(j) = l.len + 1
    BY <1>1, <1>5, <1>6, <1>8
  <2>2. Len(e) = (l.len + 1) + (Len(long.arr) - (l.len + 1))
    BY <1>7, <1>9, <2>1
  <2> QED
    BY <1>1, <1>4, <2>1, <2>2
<1>11. ASSUME NEW i \in 1 .. l.len + 1
       PROVE  e[i] = IF i < pos THEN l.arr[i] ELSE IF i = pos THEN o ELSE l.arr[pos]
  <2>0. e[i] = j[i]
    BY <1>9, <1>10
  <2>1. CASE i < pos
    <3>1. i \in 1 .. Len(a) /\ i \in 1 .. pos - 1
      BY <1>1, <1>5, <2>1
    <3> QED
      BY <1>5, <1>8, <2>0, <2>1, <3>1
  <2>2. CASE i = pos
    <3>1. Len(a) + 1 = pos
      BY <1>1, <1>5
    <3> QED
      BY <1>1, <1>8, <2>0, <2>2, <3>1
  <2>3. CASE i > pos
    <3>1. /\ i - pos \in 1 .. Len(b) /\ i - pos \in 1 .. l.len + 1 - pos
          /\ Len(a) + 1 + (i - pos) = i /\ ~(i < pos) /\ i # pos
      BY <1>1, <1>5, <1>6, <2>3
    <3>2. j[i] = b[i - pos] /\ b[i - pos] = l.arr[pos]
      BY <1>6, <1>8, <3>1
    <3> QED
      BY <2>0, <3>1, <3>2
  <2> QED
    BY <1>1, <2>1, <2>2, <2>3
<1>12. ASSUME NEW i \in 1 .. l.len + 1 PROVE e[i] \in Tlvs
  <2>1. i < pos => i \in 1 .. l.len
    BY <1>1
  <2>2. ~(i < pos) /\ i # pos => pos \in 1 .. l.len
    BY <1>1
  <2> QED
    BY <1>1, <1>11, <2>1, <2>2
<1>13. r \in Lists
  <2>1. r.arr = e /\ r.len = l.len + 1 /\ r \in [arr : Seq(Slots), len : Nat]
    BY <1>1, <1>3, <1>9
  <2>2. l.len + 1 < Len(e) /\ l.len + 1 <= Len(e)
    BY <1>1, <1>2, <1>4, <1>10
  <2> QED
    BY <1>12, <2>1, <2>2 DEF Lists
<1>14. s \in Seq(Tlvs) /\ Len(s) = l.len /\ \A i \in 1 .. l.len : s[i] = l.arr[i]
  BY ElementsAre
<1>15. Elements(r) \in Seq(Tlvs) /\ Len(Elements(r)) = l.len + 1
       /\ \A i \in 1 .. l.len + 1 : Elements(r)[i] = e[i]
  BY <1>3, <1>13, ElementsAre
<1> HIDE DEF s
<1>16. /\ InsertAt(s, pos, o) \in Seq(Tlvs) /\ Len(InsertAt(s, pos, o)) = l.len + 1
       /\ \A i \in 1 .. l.len + 1 :
            InsertAt(s, pos, o)[i] = IF i < pos THEN s[i] ELSE IF i = pos THEN o ELSE s[i - 1]
  BY <1>14, InsertedAt
<1>17. ASSUME l.len <= pos, NEW i \in 1 .. l.len + 1 PROVE Elements(r)[i] = InsertAt(s, pos, o)[i]
  <2>1. i < pos => i \in 1 .. l.len
    BY <1>1
  <2>2. ~(i < pos) /\ i # pos => i - 1 \in 1 .. l.len /\ i - 1 = pos
    BY <1>1, <1>17
  <2> QED
    BY <1>11, <1>14, <1>15, <1>16, <2>1, <2>2
<1>18. ASSUME l.len <= pos PROVE Elements(r) = InsertAt(s, pos, o)
  BY <1>15, <1>16, <1>17, <1>18, SeqEqual
<1> QED
  BY <1>13, <1>18 DEF r, s

\* KSI_List_sort: the same elements in another order.
LEMMA SortKeeps ==
  ASSUME NEW l \in Lists, NEW key, NEW r \in Sorted(l, key)
  PROVE  /\ r \in Lists /\ r.len = l.len
         /\ \E f \in [1 .. l.len -> 1 .. l.len] :
              /\ IsInjective(f)
              /\ Elements(r) = [i \in 1 .. l.len |-> Elements(l)[f[i]]]
<1>1. l.arr \in Seq(Slots) /\ l.len \in Nat /\ Len(l.arr) \in Nat /\ l.len <= Len(l.arr)
      /\ l \in [arr : Seq(Slots), len : Nat] /\ (l.len > 0 => l.len < Len(l.arr))
      /\ \A i \in 1 .. l.len : l.arr[i] \in Tlvs
  BY DEF Lists
<1>2. PICK f \in [1 .. l.len -> 1 .. l.len] :
        /\ \A i, j \in 1 .. l.len : f[i] = f[j] => i = j
        /\ r = [l EXCEPT !.arr = [i \in 1 .. l.len |-> l.arr[f[i]]] \o SubSeq(l.arr, l.len + 1, Len(l.arr))]
  BY DEF Sorted
<1> DEFINE a == [i \in 1 .. l.len |-> l.arr[f[i]]]
           c == SubSeq(l.arr, l.len + 1, Len(l.arr))
           e == a \o c
<1>3. r = [arr |-> e, len |-> l.len]
  <2>1. r = [l EXCEPT !.arr = e]
    BY <1>2
  <2> HIDE DEF e
  <2> QED
    BY <1>1, <2>1
<1>4. a \in Seq(Slots) /\ Len(a) = l.len /\ \A i \in 1 .. l.len : a[i] = l.arr[f[i]] /\ a[i] \in Tlvs
  <2>1. \A i \in 1 .. l.len : l.arr[f[i]] \in Tlvs
    BY <1>1
  <2>2. a \in [1 .. l.len -> Slots]
    BY <2>1 DEF Slots
  <2>3. \A i \in 1 .. l.len : a[i] = l.arr[f[i]]
    OBVIOUS
  <2> HIDE DEF a
  <2>4. a \in Seq(Slots) /\ Len(a) = l.len
    BY <1>1, <2>2
  <2> QED
    BY <2>1, <2>3, <2>4
<1>5. c \in Seq(Slots) /\ Len(c) = Len(l.arr) - l.len
  BY <1>1
<1> HIDE DEF a, c
<1>6. /\ e \in Seq(Slots) /\ Len(e) = Len(a) + Len(c)
      /\ \A i \in 1 .. Len(a) : e[i] = a[i]
  <2>1. a \in Seq(Slots) /\ c \in Seq(Slots)
    BY <1>4, <1>5
  <2> QED
    BY <2>1, JoinIs
<1> HIDE DEF e
<1>7. Len(e) = Len(l.arr) /\ \A i \in 1 .. l.len : e[i] = l.arr[f[i]] /\ e[i] \in Tlvs
  BY <1>1, <1>4, <1>5, <1>6
<1>8. r \in Lists /\ r.len = l.len
  <2>1. r.arr = e /\ r.len = l.len /\ r \in [arr : Seq(Slots), len : Nat]
    BY <1>1, <1>3, <1>6
  <2> QED
    BY <1>1, <1>7, <2>1 DEF Lists
<1>9. Elements(l) \in Seq(Tlvs) /\ Len(Elements(l)) = l.len
      /\ \A i \in 1 .. l.len : Elements(l)[i] = l.arr[i]
  BY ElementsAre
<1>10. Elements(r) \in Seq(Tlvs) /\ Len(Elements(r)) = l.len
       /\ \A i \in 1 .. l.len : Elements(r)[i] = e[i]
  BY <1>3, <1>8, ElementsAre
<1> DEFINE s == [i \in 1 .. l.len |-> Elements(l)[f[i]]]
<1>11. ASSUME NEW i \in 1 .. l.len PROVE Elements(r)[i] = Elements(l)[f[i]]
  BY <1>7, <1>9, <1>10
<1>12. Elements(r) = [i \in 1 .. l.len |-> Elements(r)[i]]
  BY <1>10
<1>13. Elements(r) = s
  BY <1>11, <1>12
<1>14. IsInjective(f)
  BY <1>2 DEF IsInjective
<1> QED
  BY <1>8, <1>13, <1>14

-----------------------------------------------------------------------------
(* The recursive functions of Tlv, turn by turn.                           *)

LEMMA AppendingUnfolds ==
  ASSUME NEW ids \in Seq(Tlvs)
  PROVE  /\ Appending(ids)[0] = NewList
         /\ \A i \in 1 .. Len(ids) :
              /\ Appending(ids)[i - 1] \in Lists
              /\ Appending(ids)[i] = AppendElement(Appending(ids)[i - 1], ids[i])
         /\ Appending(ids)[Len(ids)] \in Lists
<1> DEFINE n == Len(ids)
           F == [i \in 1 .. n |-> [l \in Lists |-> AppendElement(l, ids[i])]]
           P(f) == f = [i \in 0 .. n |-> IF i = 0 THEN NewList ELSE AppendElement(f[i - 1], ids[i])]
<1>1. n \in Nat /\ \A i \in 1 .. n : ids[i] \in Tlvs
  OBVIOUS
<1>2. PICK f : Runs(f, F, n, NewList, Lists)
  <2>1. \A i \in 1 .. n : \A l \in Lists : AppendElement(l, ids[i]) \in Lists
    BY <1>1, AppendKeeps
  <2>2. Steps(F, n, NewList, Lists)
    BY <2>1, EmptyList DEF Steps
  <2> HIDE DEF F
  <2> QED
    BY <1>1, <2>2, RecursionExists
<1>3. P(f)
  <2>1. ASSUME NEW i \in 0 .. n
        PROVE  f[i] = IF i = 0 THEN NewList ELSE AppendElement(f[i - 1], ids[i])
    <3>1. CASE i = 0
      BY <1>2, <3>1 DEF Runs
    <3>2. CASE i # 0
      <4>1. i \in 1 .. n /\ i - 1 \in 0 .. n
        BY <1>1, <3>2
      <4>2. f[i] = F[i][f[i - 1]] /\ f[i - 1] \in Lists
        BY <1>2, <4>1 DEF Runs
      <4> QED
        BY <3>2, <4>1, <4>2
    <3> QED
      BY <3>1, <3>2
  <2> QED
    BY <1>2, <2>1 DEF Runs
<1>4. Appending(ids) = CHOOSE f1 : P(f1)
  BY DEF Appending
<1> DEFINE g == Appending(ids)
<1> HIDE DEF P
<1>5. P(g)
  BY <1>3, <1>4
<1> HIDE DEF g
<1>6. \A i \in 0 .. n : g[i] = IF i = 0 THEN NewList ELSE AppendElement(g[i - 1], ids[i])
  BY <1>5 DEF P
<1> DEFINE G == {i \in 0 .. n : g[i] \in Lists}
<1>7. 0 \in G
  BY <1>1, <1>6, EmptyList
<1>8. ASSUME NEW i \in 0 .. n - 1, i \in G PROVE i + 1 \in G
  <2>1. i + 1 \in 0 .. n /\ i + 1 # 0 /\ i + 1 - 1 = i /\ i + 1 \in 1 .. n
    BY <1>1
  <2>2. g[i + 1] = AppendElement(g[i], ids[i + 1])
    BY <1>6, <2>1
  <2>3. g[i] \in Lists
    BY <1>8
  <2>4. AppendElement(g[i], ids[i + 1]) \in Lists
    BY <1>1, <2>1, <2>3, AppendKeeps
  <2> QED
    BY <2>1, <2>2, <2>4
<1> HIDE DEF G
<1>9. \A i \in 0 .. n : i \in G
  BY <1>1, <1>7, <1>8, Induction
<1>10. g[0] = NewList
  BY <1>1, <1>6
<1>11. ASSUME NEW i \in 1 .. n
       PROVE  g[i - 1] \in Lists /\ g[i] = AppendElement(g[i - 1], ids[i])
  <2>1. i \in 0 .. n /\ i # 0 /\ i - 1 \in 0 .. n
    BY <1>1
  <2> QED
    BY <1>6, <1>9, <2>1 DEF G
<1>12. g[n] \in Lists
  BY <1>1, <1>9 DEF G
<1> QED
  BY <1>10, <1>11, <1>12 DEF g

\* The list encodeAsNestedTlvs makes holds what was appended.
LEMMA ListOfIs ==
  ASSUME NEW ids \in Seq(Tlvs)
  PROVE  ListOf(ids) \in Lists /\ Elements(ListOf(ids)) = ids
<1> DEFINE n == Len(ids)
           g == Appending(ids)
           G == {i \in 0 .. n : /\ g[i].len = i
                                /\ \A k \in 1 .. i : Elements(g[i])[k] = ids[k]}
<1>1. n \in Nat
  OBVIOUS
<1>2. /\ g[0] = NewList
      /\ \A i \in 1 .. n : g[i - 1] \in Lists /\ g[i] = AppendElement(g[i - 1], ids[i])
      /\ g[n] \in Lists
  BY AppendingUnfolds
<1>3. ListOf(ids) = g[n]
  BY DEF ListOf
<1> HIDE DEF g
<1>4. 0 \in G
  <2>1. g[0].len = 0
    BY <1>2 DEF NewList
  <2> QED
    BY <1>1, <2>1
<1>5. ASSUME NEW i \in 0 .. n - 1, i \in G PROVE i + 1 \in G
  <2>1. i + 1 \in 1 .. n /\ i + 1 - 1 = i /\ i + 1 \in 0 .. n
    BY <1>1
  <2>2. g[i] \in Lists /\ g[i + 1] = AppendElement(g[i], ids[i + 1])
    BY <1>2, <2>1
  <2>3. ids[i + 1] \in Tlvs
    BY <2>1
  <2>4. g[i].len = i /\ \A k \in 1 .. i : Elements(g[i])[k] = ids[k]
    BY <1>5
  <2>5. g[i + 1].len = i + 1
    BY <2>2, <2>4 DEF AppendElement
  <2>6. Elements(g[i + 1]) = Append(Elements(g[i]), ids[i + 1])
    BY <2>2, <2>3, AppendKeeps
  <2>7. Elements(g[i]) \in Seq(Tlvs) /\ Len(Elements(g[i])) = i
    BY <2>2, <2>4, ElementsAre
  <2>8. \A k \in 1 .. i + 1 : Elements(g[i + 1])[k] = ids[k]
    BY <2>3, <2>4, <2>6, <2>7
  <2> QED
    BY <2>1, <2>5, <2>8
<1> HIDE DEF G
<1>6. n \in G
  <2>1. \A i \in 0 .. n : i \in G
    BY <1>1, <1>4, <1>5, Induction
  <2> QED
    BY <1>1, <2>1
<1>7. g[n].len = n /\ \A k \in 1 .. n : Elements(g[n])[k] = ids[k]
  BY <1>6 DEF G
<1>8. Elements(g[n]) \in Seq(Tlvs) /\ Len(Elements(g[n])) = n
  BY <1>2, <1>7, ElementsAre
<1>9. Elements(g[n]) = ids
  BY <1>7, <1>8, SeqEqual
<1> QED
  BY <1>2, <1>3, <1>9

\* Objects whose lists are lists.
Listed(ns) == \A t \in Tlvs : ns[t].nested \in Lists

-----------------------------------------------------------------------------
(* Counting references.                                                    *)

LEMMA PlacesFinite ==
  ASSUME NEW S, NEW s \in Seq(S), NEW x
  PROVE  IsFiniteSet(Places(x, s)) /\ Places(x, s) \in SUBSET (1 .. Len(s))
<1>1. IsFiniteSet(1 .. Len(s)) /\ Places(x, s) \in SUBSET (1 .. Len(s))
  BY FS_Interval DEF Places
<1> QED
  BY <1>1, FS_Subset

LEMMA CountIs ==
  ASSUME NEW S, NEW s \in Seq(S), NEW x
  PROVE  Count(x, s) \in Nat /\ (Count(x, s) = 0 <=> x \notin ToSet(s))
<1>1. Count(x, s) \in Nat /\ (Count(x, s) = 0 <=> Places(x, s) = {})
  BY PlacesFinite, FS_CardinalityType, FS_EmptySet DEF Count
<1>2. Places(x, s) = {} <=> x \notin ToSet(s)
  BY DEF ToSet, Places
<1> QED
  BY <1>1, <1>2

\* The places of one element in two sequences, one to one.
LEMMA SameCount ==
  ASSUME NEW S, NEW s \in Seq(S), NEW t \in Seq(S), NEW x, NEW f \in [Places(x, s) -> Places(x, t)],
         \A i, j \in Places(x, s) : f[i] = f[j] => i = j,
         \A j \in Places(x, t) : \E i \in Places(x, s) : f[i] = j
  PROVE  Count(x, s) = Count(x, t)
<1>1. f \in Bijection(Places(x, s), Places(x, t))
  BY DEF Bijection, Injection, Surjection, IsInjective
<1>2. ExistsBijection(Places(x, s), Places(x, t))
  BY <1>1 DEF ExistsBijection
<1> QED
  BY <1>2, PlacesFinite, FS_Bijection DEF Count

LEMMA CountOfAppend ==
  ASSUME NEW S, NEW s \in Seq(S), NEW e \in S, NEW x
  PROVE  Count(x, Append(s, e)) = Count(x, s) + (IF x = e THEN 1 ELSE 0)
<1>1. Places(x, Append(s, e)) = IF x = e THEN Places(x, s) \cup {Len(s) + 1} ELSE Places(x, s)
  BY DEF Places
<1>2. Len(s) + 1 \notin Places(x, s) /\ IsFiniteSet(Places(x, s)) /\ Cardinality(Places(x, s)) \in Nat
  BY PlacesFinite, FS_CardinalityType
<1>3. Cardinality(Places(x, s) \cup {Len(s) + 1}) = Cardinality(Places(x, s)) + 1
  BY <1>2, FS_AddElement
<1> QED
  BY <1>1, <1>2, <1>3 DEF Count

LEMMA CountOfOne ==
  ASSUME NEW x, NEW e
  PROVE  Count(x, << e >>) = IF x = e THEN 1 ELSE 0
<1>1. Places(x, << e >>) = IF x = e THEN {1} ELSE {}
  BY DEF Places
<1> QED
  BY <1>1, FS_Singleton, FS_EmptySet DEF Count

LEMMA CountOfNone ==
  ASSUME NEW x
  PROVE  Count(x, << >>) = 0
<1>1. Places(x, << >>) = {}
  BY DEF Places
<1> QED
  BY <1>1, FS_EmptySet DEF Count

\* One element is replaced by another one.
LEMMA CountOfReplace ==
  ASSUME NEW S, NEW s \in Seq(S), NEW e \in S, NEW pos \in 1 .. Len(s), NEW x
  PROVE  Count(x, [s EXCEPT ![pos] = e]) + (IF x = s[pos] THEN 1 ELSE 0)
           = Count(x, s) + (IF x = e THEN 1 ELSE 0)
<1> DEFINE t == [s EXCEPT ![pos] = e]
           rest == Places(x, s) \ {pos}
<1>1. t \in Seq(S) /\ Len(t) = Len(s) /\ \A i \in 1 .. Len(s) : t[i] = IF i = pos THEN e ELSE s[i]
  OBVIOUS
<1> HIDE DEF t
<1>2. Places(x, s) = IF x = s[pos] THEN rest \cup {pos} ELSE rest
  BY DEF Places
<1>3. Places(x, t) = IF x = e THEN rest \cup {pos} ELSE rest
  BY <1>1 DEF Places
<1>4. IsFiniteSet(rest) /\ pos \notin rest
  BY PlacesFinite, FS_RemoveElement
<1> HIDE DEF rest
<1>5. Cardinality(rest \cup {pos}) = Cardinality(rest) + 1 /\ Cardinality(rest) \in Nat
  BY <1>4, FS_AddElement, FS_CardinalityType
<1>6. Count(x, s) = Cardinality(rest) + (IF x = s[pos] THEN 1 ELSE 0)
  BY <1>2, <1>5 DEF Count
<1>7. Count(x, t) = Cardinality(rest) + (IF x = e THEN 1 ELSE 0)
  BY <1>3, <1>5 DEF Count
<1>8. Count(x, t) + (IF x = s[pos] THEN 1 ELSE 0) = Count(x, s) + (IF x = e THEN 1 ELSE 0)
  BY <1>5, <1>6, <1>7
<1> QED
  BY <1>8 DEF t

LEMMA CountOfRemove ==
  ASSUME NEW S, NEW s \in Seq(S), NEW pos \in 1 .. Len(s), NEW x
  PROVE  Count(x, RemoveAt(s, pos)) + (IF x = s[pos] THEN 1 ELSE 0) = Count(x, s)
<1> DEFINE t == RemoveAt(s, pos)
           rest == Places(x, s) \ {pos}
           f == [i \in Places(x, t) |-> IF i < pos THEN i ELSE i + 1]
<1>1. t \in Seq(S) /\ Len(t) = Len(s) - 1
      /\ \A i \in 1 .. Len(s) - 1 : t[i] = IF i < pos THEN s[i] ELSE s[i + 1]
  BY RemovedAt
<1> HIDE DEF t
<1>2. Places(x, t) = {i \in 1 .. Len(s) - 1 : t[i] = x}
  BY <1>1 DEF Places
<1>3. rest = {i \in 1 .. Len(s) : s[i] = x /\ i # pos}
  BY DEF Places
<1>4. f \in [Places(x, t) -> rest]
  <2>1. ASSUME NEW i \in Places(x, t) PROVE (IF i < pos THEN i ELSE i + 1) \in rest
    <3>1. i \in 1 .. Len(s) - 1 /\ t[i] = x
      BY <1>2
    <3>2. CASE i < pos
      BY <1>1, <1>3, <3>1, <3>2
    <3>3. CASE ~(i < pos)
      BY <1>1, <1>3, <3>1, <3>3
    <3> QED
      BY <3>2, <3>3
  <2> QED
    BY <2>1
<1>5. \A i, j \in Places(x, t) : f[i] = f[j] => i = j
  BY <1>2
<1>6. ASSUME NEW j \in rest PROVE \E i \in Places(x, t) : f[i] = j
  <2> DEFINE i == IF j < pos THEN j ELSE j - 1
  <2>1. i \in Places(x, t)
    BY <1>1, <1>2, <1>3
  <2>2. f[i] = j
    BY <1>3, <2>1
  <2> QED
    BY <2>1, <2>2
<1>7. f \in Bijection(Places(x, t), rest)
  BY <1>4, <1>5, <1>6 DEF Bijection, Injection, Surjection, IsInjective
<1>8. ExistsBijection(Places(x, t), rest) /\ IsFiniteSet(Places(x, t))
  BY <1>1, <1>7, PlacesFinite DEF ExistsBijection
<1>9. Cardinality(rest) = Count(x, t)
  BY <1>8, FS_Bijection DEF Count
<1>10. IsFiniteSet(Places(x, s)) /\ Cardinality(Places(x, s)) \in Nat
  BY PlacesFinite, FS_CardinalityType
<1>11. Cardinality(rest) = IF pos \in Places(x, s) THEN Cardinality(Places(x, s)) - 1 ELSE Cardinality(Places(x, s))
  BY <1>10, FS_RemoveElement
<1>12. pos \in Places(x, s) <=> x = s[pos]
  BY DEF Places
<1>13. Count(x, t) + (IF x = s[pos] THEN 1 ELSE 0) = Count(x, s)
  BY <1>9, <1>10, <1>11, <1>12 DEF Count
<1> QED
  BY <1>13 DEF t

LEMMA CountOfInsert ==
  ASSUME NEW S, NEW s \in Seq(S), NEW e \in S, NEW pos \in 1 .. Len(s) + 1, NEW x
  PROVE  Count(x, InsertAt(s, pos, e)) = Count(x, s) + (IF x = e THEN 1 ELSE 0)
<1>1. PICK t : /\ t = InsertAt(s, pos, e) /\ t \in Seq(S) /\ Len(t) = Len(s) + 1
               /\ \A i \in 1 .. Len(s) + 1 :
                    t[i] = IF i < pos THEN s[i] ELSE IF i = pos THEN e ELSE s[i - 1]
  BY InsertedAt
<1>2. pos \in 1 .. Len(t) /\ Len(t) - 1 = Len(s)
  BY <1>1
<1>3. PICK r : /\ r = RemoveAt(t, pos) /\ r \in Seq(S) /\ Len(r) = Len(t) - 1
               /\ \A i \in 1 .. Len(t) - 1 : r[i] = IF i < pos THEN t[i] ELSE t[i + 1]
  BY <1>1, <1>2, RemovedAt, ZenonT(60)
<1>4. Len(r) = Len(s) /\ \A i \in 1 .. Len(r) : r[i] = s[i]
  BY <1>1, <1>2, <1>3
<1>5. r = s
  BY <1>3, <1>4, SeqEqual
<1>6. Count(x, r) + (IF x = t[pos] THEN 1 ELSE 0) = Count(x, t)
  BY <1>1, <1>2, <1>3, CountOfRemove
<1>7. t[pos] = e /\ Count(x, s) \in Nat
  BY <1>1, CountIs
<1> QED
  BY <1>1, <1>5, <1>6, <1>7

LEMMA CountOfSort ==
  ASSUME NEW S, NEW s \in Seq(S), NEW f \in [1 .. Len(s) -> 1 .. Len(s)], IsInjective(f), NEW x
  PROVE  Count(x, [i \in 1 .. Len(s) |-> s[f[i]]]) = Count(x, s)
<1> DEFINE n == Len(s)
           t == [i \in 1 .. n |-> s[f[i]]]
           g == [i \in Places(x, t) |-> f[i]]
<1>1. n \in Nat /\ f \in [1 .. n -> 1 .. n] /\ \A i, j \in 1 .. n : f[i] = f[j] => i = j
  BY DEF IsInjective
<1>2. \A j \in 1 .. n : \E i \in 1 .. n : f[i] = j
  <2> HIDE DEF n
  <2>1. f \in Injection(1 .. n, 1 .. n)
    BY <1>1 DEF Injection
  <2>2. IsFiniteSet(1 .. n)
    BY <1>1, FS_Interval
  <2>3. f \in Surjection(1 .. n, 1 .. n)
    BY <2>1, <2>2, FS_Injection
  <2> QED
    BY <2>3 DEF Surjection
<1>3. t \in Seq(S) /\ Len(t) = n /\ \A i \in 1 .. n : t[i] = s[f[i]]
  <2>1. \A i \in 1 .. n : s[f[i]] \in S
    BY <1>1
  <2> QED
    BY <1>1, <2>1
<1>4. Places(x, s) = {i \in 1 .. n : s[i] = x}
  BY DEF Places
<1> HIDE DEF t
<1>5. Places(x, t) = {i \in 1 .. n : s[f[i]] = x}
  BY <1>1, <1>3 DEF Places
<1> HIDE DEF n
<1>6. g \in [Places(x, t) -> Places(x, s)]
  BY <1>1, <1>4, <1>5
<1>7. \A i, j \in Places(x, t) : g[i] = g[j] => i = j
  BY <1>1, <1>5
<1>8. \A j \in Places(x, s) : \E i \in Places(x, t) : g[i] = j
  BY <1>2, <1>4, <1>5
<1> HIDE DEF g
<1>9. Count(x, t) = Count(x, s)
  BY <1>3, <1>6, <1>7, <1>8, SameCount
<1> QED
  BY <1>9 DEF t, n

\* The places where u is nested, as pairs of a TLV and a position.
Holding(ns, u, from) == UNION {{p} \X Places(u, Elements(ns[p].nested)) : p \in from}

LEMMA HoldingHas ==
  ASSUME NEW ns, NEW u, NEW from, NEW z
  PROVE  z \in Holding(ns, u, from)
           <=> \E p \in from : \E i \in Places(u, Elements(ns[p].nested)) : z = << p, i >>
BY DEF Holding

LEMMA HoldingFinite ==
  ASSUME NEW ns, Listed(ns), NEW u, NEW from \in SUBSET Tlvs
  PROVE  IsFiniteSet(Holding(ns, u, from))
<1> DEFINE H(p) == {p} \X Places(u, Elements(ns[p].nested))
           f == [p \in from |-> H(p)]
           Hs == {H(p) : p \in from}
<1>1. IsFiniteSet(from)
  <2>1. IsFiniteSet(Tlvs)
    BY TlvAssumption, FS_Interval DEF Tlvs
  <2> QED
    BY <2>1, FS_Subset
<1>2. \A p \in from : IsFiniteSet(H(p))
  <2> TAKE p \in from
  <2>1. Elements(ns[p].nested) \in Seq(Tlvs)
    BY ElementsAre DEF Listed
  <2>2. IsFiniteSet({p}) /\ IsFiniteSet(Places(u, Elements(ns[p].nested)))
    BY <2>1, PlacesFinite, FS_Singleton
  <2> QED
    BY <2>2, FS_Product
<1> HIDE DEF H
<1>3. f \in Surjection(from, Hs)
  BY DEF Surjection
<1>4. IsFiniteSet(Hs)
  BY <1>1, <1>3, FS_Surjection
<1>5. \A T \in Hs : IsFiniteSet(T)
  BY <1>2
<1> HIDE DEF Hs
<1>6. IsFiniteSet(UNION Hs)
  BY <1>4, <1>5, FS_UNION
<1> QED
  BY <1>6 DEF Hs, H, Holding

LEMMA ReferencesAre ==
  ASSUME NEW ns, Listed(ns), NEW u, NEW from \in SUBSET Tlvs
  PROVE  /\ References(ns, u, from) \in Nat
         /\ References(ns, u, from) = 0 <=> \A p \in from : u \notin ToSet(Elements(ns[p].nested))
<1>1. References(ns, u, from) = Cardinality(Holding(ns, u, from))
  BY DEF References, Holding
<1>2. IsFiniteSet(Holding(ns, u, from))
  BY HoldingFinite
<1>3. References(ns, u, from) \in Nat /\ (References(ns, u, from) = 0 <=> Holding(ns, u, from) = {})
  BY <1>1, <1>2, FS_CardinalityType, FS_EmptySet
<1>4. Holding(ns, u, from) = {} <=> \A p \in from : Places(u, Elements(ns[p].nested)) = {}
  <2>1. \A p \in from : \A i \in Places(u, Elements(ns[p].nested)) : << p, i >> \in Holding(ns, u, from)
    BY HoldingHas
  <2>2. \A z \in Holding(ns, u, from) : \E p \in from : \E i \in Places(u, Elements(ns[p].nested)) : z = << p, i >>
    BY HoldingHas
  <2> QED
    BY <2>1, <2>2
<1>5. \A p \in from : Places(u, Elements(ns[p].nested)) = {} <=> u \notin ToSet(Elements(ns[p].nested))
  BY DEF Places, ToSet
<1> QED
  BY <1>3, <1>4, <1>5

LEMMA ReferencesSplit ==
  ASSUME NEW ns, Listed(ns), NEW u, NEW A \in SUBSET Tlvs, NEW B \in SUBSET Tlvs, A \cap B = {}
  PROVE  References(ns, u, A \cup B) = References(ns, u, A) + References(ns, u, B)
<1> DEFINE a == Holding(ns, u, A)
           b == Holding(ns, u, B)
<1>1. Holding(ns, u, A \cup B) = a \cup b /\ a \cap b = {}
  BY HoldingHas
<1>2. IsFiniteSet(a) /\ IsFiniteSet(b)
  BY HoldingFinite
<1>3. /\ References(ns, u, A) = Cardinality(a) /\ References(ns, u, B) = Cardinality(b)
      /\ References(ns, u, A \cup B) = Cardinality(Holding(ns, u, A \cup B))
  BY DEF References, Holding
<1> HIDE DEF a, b
<1>4. Cardinality(a \cup b) = Cardinality(a) + Cardinality(b) - Cardinality(a \cap b)
  BY <1>2, FS_Union
<1>5. Cardinality(a) \in Nat /\ Cardinality(b) \in Nat
  BY <1>2, FS_CardinalityType
<1>6. Cardinality(a \cap b) = 0
  BY <1>1, FS_EmptySet, Zenon
<1>7. References(ns, u, A \cup B) = Cardinality(a \cup b)
  BY <1>1, <1>3, Zenon
<1>8. Cardinality(a \cup b) = Cardinality(a) + Cardinality(b)
  BY <1>4, <1>5, <1>6
<1> QED
  BY <1>3, <1>7, <1>8

LEMMA ReferencesOfOne ==
  ASSUME NEW ns, Listed(ns), NEW u, NEW p \in Tlvs
  PROVE  References(ns, u, {p}) = Count(u, Elements(ns[p].nested))
<1> DEFINE s == Elements(ns[p].nested)
<1>1. s \in Seq(Tlvs)
  BY ElementsAre DEF Listed
<1>2. Holding(ns, u, {p}) = {p} \X Places(u, s)
  BY DEF Holding
<1> HIDE DEF s
<1>3. IsFiniteSet(Places(u, s)) /\ IsFiniteSet({p}) /\ Cardinality({p}) = 1
  BY <1>1, PlacesFinite, FS_Singleton
<1>4. Cardinality({p} \X Places(u, s)) = Cardinality({p}) * Cardinality(Places(u, s))
      /\ Cardinality(Places(u, s)) \in Nat
  BY <1>3, FS_Product, FS_CardinalityType
<1>5. Cardinality({p} \X Places(u, s)) = Cardinality(Places(u, s))
  BY <1>3, <1>4
<1> QED
  BY <1>2, <1>5 DEF References, Holding, Count, s

\* Only the lists of `from` count.
LEMMA ReferencesSame ==
  ASSUME NEW ns, NEW ms, NEW u, NEW from,
         \A p \in from : Elements(ns[p].nested) = Elements(ms[p].nested)
  PROVE  References(ns, u, from) = References(ms, u, from)
<1>1. \A z : z \in Holding(ns, u, from) <=> z \in Holding(ms, u, from)
  <2>1. \A p \in from : Places(u, Elements(ns[p].nested)) = Places(u, Elements(ms[p].nested))
    OBVIOUS
  <2> QED
    BY <2>1, HoldingHas
<1>2. Holding(ns, u, from) = Holding(ms, u, from)
  BY <1>1
<1> QED
  BY <1>2 DEF References, Holding

\* The references change by what the list of one TLV changes.
LEMMA ReferencesAt ==
  ASSUME NEW ns, Listed(ns), NEW u, NEW p \in Tlvs
  PROVE  References(ns, u, Tlvs) = References(ns, u, Tlvs \ {p}) + Count(u, Elements(ns[p].nested))
<1>1. References(ns, u, (Tlvs \ {p}) \cup {p}) = References(ns, u, Tlvs \ {p}) + References(ns, u, {p})
  <2>1. Tlvs \ {p} \in SUBSET Tlvs /\ {p} \in SUBSET Tlvs /\ (Tlvs \ {p}) \cap {p} = {}
    OBVIOUS
  <2> QED
    BY <2>1, ReferencesSplit
<1>2. (Tlvs \ {p}) \cup {p} = Tlvs
  OBVIOUS
<1> QED
  BY <1>1, <1>2, ReferencesOfOne

\* Of more there are at least as many.
LEMMA ReferencesGrow ==
  ASSUME NEW ns, Listed(ns), NEW u, NEW A \in SUBSET Tlvs, NEW B \in SUBSET Tlvs, A \subseteq B
  PROVE  References(ns, u, A) <= References(ns, u, B)
<1>1. References(ns, u, A \cup (B \ A)) = References(ns, u, A) + References(ns, u, B \ A)
  <2>1. B \ A \in SUBSET Tlvs /\ A \cap (B \ A) = {}
    OBVIOUS
  <2> QED
    BY <2>1, ReferencesSplit
<1>2. References(ns, u, A \cup (B \ A)) = References(ns, u, B)
  <2>1. A \cup (B \ A) = B
    OBVIOUS
  <2> QED
    BY <2>1, Zenon
<1>3. References(ns, u, A) \in Nat /\ References(ns, u, B \ A) \in Nat
  <2>1. B \ A \in SUBSET Tlvs
    OBVIOUS
  <2> QED
    BY <2>1, ReferencesAre
<1> QED
  BY <1>1, <1>2, <1>3

-----------------------------------------------------------------------------
(* Freeing.                                                                *)

\* An object between two calls, and all of them.
Shaped(r) ==
  r = [refs |-> r.refs, tag |-> r.tag, flags |-> r.flags, type |-> r.type, own |-> r.own,
       data |-> r.data, nested |-> r.nested]
Sound(r) ==
  /\ Shaped(r) /\ r.refs \in Nat /\ r.nested \in Lists
  /\ r.type \in {"RAW", "INT", "TLV"} /\ (r.nested.len > 0 => r.type = "TLV")
Objects(ns) == ns = [t \in Tlvs |-> ns[t]] /\ \A t \in Tlvs : Sound(ns[t])
\* The references of each object: those of the client, those in ts that are given up, and
\* those of nested lists.
Balanced(ns, h, ts) == \A u \in Tlvs : ns[u].refs = h[u] + Count(u, ts) + References(ns, u, Tlvs)
Kids(ns, t) == ToSet(Elements(ns[t].nested))

\* f is g but for one TLV.
Differs(f, g, t, v) ==
  f = [u \in Tlvs |-> f[u]] /\ f[t] = v /\ \A u \in Tlvs : u # t => f[u] = g[u]

LEMMA ObjectsListed ==
  ASSUME NEW ns, Objects(ns)
  PROVE  Listed(ns)
BY DEF Objects, Sound, Listed

LEMMA GoneIsSound ==
  /\ Sound(Gone) /\ Gone.refs = 0 /\ Gone.nested = NewList
<1>1. NewList \in Lists /\ NewList.len = 0
  BY EmptyList DEF Length
<1> QED
  BY <1>1 DEF Sound, Shaped, Gone

LEMMA ObjectIsSound ==
  ASSUME NEW tag, NEW flags, NEW type \in {"RAW", "INT", "TLV"}, NEW own, NEW data
  PROVE  LET o == Object(tag, flags, type, own, data)
         IN  Sound(o) /\ o.refs = 1 /\ o.nested = NewList
<1>1. NewList \in Lists /\ NewList.len = 0
  BY EmptyList DEF Length
<1> QED
  BY <1>1 DEF Sound, Shaped, Object

LEMMA RefsChanged ==
  ASSUME NEW r, Sound(r), NEW n \in Nat
  PROVE  LET s == [r EXCEPT !.refs = n]
         IN  /\ Sound(s) /\ s.refs = n /\ s.nested = r.nested /\ s.type = r.type
             /\ (n = r.refs => s = r)
<1> DEFINE s == [r EXCEPT !.refs = n]
<1>1. s = [refs |-> n, tag |-> r.tag, flags |-> r.flags, type |-> r.type, own |-> r.own,
           data |-> r.data, nested |-> r.nested]
  BY DEF Sound, Shaped
<1> HIDE DEF s
<1>2. s.refs = n /\ s.nested = r.nested /\ s.type = r.type
  BY <1>1
<1>3. Sound(s)
  BY <1>1, <1>2 DEF Sound, Shaped
<1>4. n = r.refs => s = r
  BY <1>1 DEF Sound, Shaped
<1> QED
  BY <1>2, <1>3, <1>4 DEF s

LEMMA ListChanged ==
  ASSUME NEW r, Sound(r), NEW l \in Lists, l.len > 0 => r.type = "TLV"
  PROVE  LET s == [r EXCEPT !.nested = l]
         IN  Sound(s) /\ s.refs = r.refs /\ s.nested = l /\ s.type = r.type
<1> DEFINE s == [r EXCEPT !.nested = l]
<1>1. s = [refs |-> r.refs, tag |-> r.tag, flags |-> r.flags, type |-> r.type, own |-> r.own,
           data |-> r.data, nested |-> l]
  BY DEF Sound, Shaped
<1> HIDE DEF s
<1>2. s.refs = r.refs /\ s.nested = l /\ s.type = r.type
  BY <1>1
<1>3. Sound(s)
  BY <1>1, <1>2 DEF Sound, Shaped
<1> QED
  BY <1>2, <1>3 DEF s

LEMMA Widened ==
  ASSUME NEW r, Sound(r), NEW l \in Lists
  PROVE  LET s == [r EXCEPT !.type = "TLV", !.nested = l]
         IN  Sound(s) /\ s.refs = r.refs /\ s.nested = l
<1> DEFINE q == [r EXCEPT !.type = "TLV"]
           s == [q EXCEPT !.nested = l]
<1>0. q = [refs |-> r.refs, tag |-> r.tag, flags |-> r.flags, type |-> "TLV", own |-> r.own,
           data |-> r.data, nested |-> r.nested]
  BY DEF Sound, Shaped
<1>4. s = [r EXCEPT !.type = "TLV", !.nested = l]
  OBVIOUS
<1> HIDE DEF q
<1>1. s = [refs |-> r.refs, tag |-> r.tag, flags |-> r.flags, type |-> "TLV", own |-> r.own,
           data |-> r.data, nested |-> l]
  BY <1>0
<1> HIDE DEF s
<1>2. s.refs = r.refs /\ s.nested = l /\ s.type = "TLV"
  BY <1>1
<1>3. Sound(s)
  BY <1>1, <1>2 DEF Sound, Shaped
<1> QED
  BY <1>2, <1>3, <1>4

\* The object r with a value.
WithData(r, b, d) == [r EXCEPT !.own = b, !.data = d]

LEMMA Valued ==
  ASSUME NEW r, Sound(r), NEW b, NEW d
  PROVE  LET s == WithData(r, b, d)
         IN  Sound(s) /\ s.refs = r.refs /\ s.nested = r.nested
<1> DEFINE s == WithData(r, b, d)
           q == [r EXCEPT !.own = b]
<1>1. q = [refs |-> r.refs, tag |-> r.tag, flags |-> r.flags, type |-> r.type, own |-> b,
           data |-> r.data, nested |-> r.nested]
  BY DEF Sound, Shaped
<1>2. s = [q EXCEPT !.data = d]
  BY DEF WithData
<1> HIDE DEF q, s
<1>3. s = [refs |-> r.refs, tag |-> r.tag, flags |-> r.flags, type |-> r.type, own |-> b,
           data |-> d, nested |-> r.nested]
  BY <1>1, <1>2
<1>4. s.refs = r.refs /\ s.nested = r.nested /\ s.type = r.type
  BY <1>3
<1>5. Sound(s)
  BY <1>3, <1>4 DEF Sound, Shaped
<1> QED
  BY <1>4, <1>5 DEF s

\* The object r as raw bytes.
AsRaw(r, b, d) == [r EXCEPT !.type = "RAW", !.own = b, !.nested = NewList, !.data = d]

LEMMA Flattened ==
  ASSUME NEW r, Sound(r), NEW b, NEW d
  PROVE  Sound(AsRaw(r, b, d)) /\ AsRaw(r, b, d).refs = r.refs /\ AsRaw(r, b, d).nested = NewList
<1> DEFINE s == AsRaw(r, b, d)
           q == [r EXCEPT !.type = "RAW"]
           v == [q EXCEPT !.own = b]
           w == [v EXCEPT !.nested = NewList]
<1>1. q = [refs |-> r.refs, tag |-> r.tag, flags |-> r.flags, type |-> "RAW", own |-> r.own,
           data |-> r.data, nested |-> r.nested]
  BY DEF Sound, Shaped
<1>2. s = [w EXCEPT !.data = d]
  BY DEF AsRaw
<1> HIDE DEF q
<1>3. v = [refs |-> r.refs, tag |-> r.tag, flags |-> r.flags, type |-> "RAW", own |-> b,
           data |-> r.data, nested |-> r.nested]
  BY <1>1
<1> HIDE DEF v
<1>4. w = [refs |-> r.refs, tag |-> r.tag, flags |-> r.flags, type |-> "RAW", own |-> b,
           data |-> r.data, nested |-> NewList]
  BY <1>3
<1> HIDE DEF w, s
<1>5. s = [refs |-> r.refs, tag |-> r.tag, flags |-> r.flags, type |-> "RAW", own |-> b,
           data |-> d, nested |-> NewList]
  BY <1>2, <1>4
<1>6. s.refs = r.refs /\ s.nested = NewList /\ s.type = "RAW"
  BY <1>5
<1>7. NewList \in Lists /\ NewList.len = 0
  BY EmptyList DEF Length
<1>8. Sound(s)
  BY <1>5, <1>6, <1>7 DEF Sound, Shaped
<1> QED
  BY <1>6, <1>8 DEF s

LEMMA LosingGrows ==
  ASSUME NEW ns, Objects(ns), NEW ts \in Seq(Tlvs), NEW A \in SUBSET Tlvs, NEW B \in SUBSET Tlvs,
         A \subseteq B
  PROVE  Losing(ns, ts, A) \subseteq Losing(ns, ts, B)
<1> SUFFICES ASSUME NEW u \in Losing(ns, ts, A) PROVE u \in Losing(ns, ts, B)
  OBVIOUS
<1>1. u \in Tlvs /\ ns[u].refs > 0 /\ ns[u].refs <= Count(u, ts) + References(ns, u, A)
  BY DEF Losing, Lost
<1>2. Listed(ns) /\ ns[u].refs \in Nat /\ Count(u, ts) \in Nat
  BY <1>1, ObjectsListed, CountIs DEF Objects, Sound
<1>3. References(ns, u, A) <= References(ns, u, B) /\ References(ns, u, A) \in Nat /\ References(ns, u, B) \in Nat
  BY <1>2, ReferencesGrow, ReferencesAre
<1>4. ns[u].refs <= Count(u, ts) + References(ns, u, B)
  BY <1>1, <1>2, <1>3
<1> QED
  BY <1>1, <1>4 DEF Losing, Lost

\* Those freed are a fixed point, and the least one.
LEMMA DyingIs ==
  ASSUME NEW ns, Objects(ns), NEW ts \in Seq(Tlvs)
  PROVE  /\ Dying(ns, ts) \in SUBSET Tlvs
         /\ Losing(ns, ts, Dying(ns, ts)) = Dying(ns, ts)
         /\ \A S \in SUBSET Tlvs : Losing(ns, ts, S) \subseteq S => Dying(ns, ts) \subseteq S
<1> DEFINE dead == Dying(ns, ts)
<1>1. dead \in SUBSET Tlvs
  BY DEF Dying
<1>2. \A S \in SUBSET Tlvs : Losing(ns, ts, S) \subseteq S => dead \subseteq S
  BY DEF Dying
<1>3. \A u \in Tlvs : (\A S \in SUBSET Tlvs : Losing(ns, ts, S) \subseteq S => u \in S) => u \in dead
  BY DEF Dying
<1> HIDE DEF dead
<1>4. Losing(ns, ts, dead) \subseteq dead
  <2> SUFFICES ASSUME NEW u \in Losing(ns, ts, dead) PROVE u \in dead
    OBVIOUS
  <2>1. u \in Tlvs
    BY DEF Losing
  <2>2. ASSUME NEW S \in SUBSET Tlvs, Losing(ns, ts, S) \subseteq S PROVE u \in S
    <3>1. dead \subseteq S
      BY <1>2, <2>2
    <3>2. Losing(ns, ts, dead) \subseteq Losing(ns, ts, S)
      BY <1>1, <3>1, LosingGrows
    <3> QED
      BY <2>2, <3>2
  <2> QED
    BY <1>3, <2>1, <2>2
<1>5. dead \subseteq Losing(ns, ts, dead)
  <2> DEFINE next == Losing(ns, ts, dead)
  <2>1. next \in SUBSET Tlvs
    BY DEF Losing
  <2> HIDE DEF next
  <2>2. next \subseteq dead
    BY <1>4 DEF next
  <2>3. Losing(ns, ts, next) \subseteq Losing(ns, ts, dead)
    BY <1>1, <2>1, <2>2, LosingGrows
  <2>4. dead \subseteq next
    BY <1>2, <2>1, <2>3 DEF next
  <2> QED
    BY <2>4 DEF next
<1> QED
  BY <1>1, <1>2, <1>4, <1>5 DEF dead

\* Who is freed lies in every set with ts that has what is nested in its members.
LEMMA DyingBelow ==
  ASSUME NEW ns, Objects(ns), NEW ts \in Seq(Tlvs), NEW S \in SUBSET Tlvs, ToSet(ts) \subseteq S,
         \A p \in S : Kids(ns, p) \subseteq S
  PROVE  Dying(ns, ts) \subseteq S
<1>1. ASSUME NEW u \in Losing(ns, ts, S), u \notin S PROVE FALSE
  <2>1. u \in Tlvs /\ ns[u].refs > 0 /\ ns[u].refs <= Count(u, ts) + References(ns, u, S)
    BY DEF Losing, Lost
  <2>2. Listed(ns) /\ ns[u].refs \in Nat
    BY <2>1, ObjectsListed DEF Objects, Sound
  <2>3. Count(u, ts) = 0
    BY <1>1, CountIs
  <2>4. \A p \in S : u \notin ToSet(Elements(ns[p].nested))
    BY <1>1 DEF Kids
  <2>5. References(ns, u, S) = 0
    BY <2>2, <2>4, ReferencesAre
  <2> QED
    BY <2>1, <2>2, <2>3, <2>5
<1>2. Losing(ns, ts, S) \subseteq S
  BY <1>1
<1> QED
  BY <1>2, DyingIs

\* Freeing takes back the references that were given up, and no others.
LEMMA FreedIs ==
  ASSUME NEW ns, Objects(ns), NEW h \in [Tlvs -> Nat], NEW ts \in Seq(Tlvs), Balanced(ns, h, ts)
  PROVE  /\ Objects(Freed(ns, ts)) /\ Balanced(Freed(ns, ts), h, << >>)
         /\ \A u \in Dying(ns, ts) : Freed(ns, ts)[u] = Gone
         /\ \A u \in Tlvs \ Dying(ns, ts) : Freed(ns, ts)[u].nested = ns[u].nested
         /\ \A u \in Tlvs : ns[u] = Gone => Freed(ns, ts)[u] = Gone
<1> DEFINE dead == Dying(ns, ts)
           rest == Tlvs \ dead
           ms == Freed(ns, ts)
<1>1. dead \in SUBSET Tlvs /\ Losing(ns, ts, dead) = dead
  BY DyingIs
<1>2. Listed(ns) /\ \A u \in Tlvs : Sound(ns[u]) /\ ns[u].refs \in Nat
  BY ObjectsListed DEF Objects, Sound
<1>3. ms = [u \in Tlvs |-> ms[u]]
      /\ \A u \in Tlvs : ms[u] = IF u \in dead THEN Gone ELSE [ns[u] EXCEPT !.refs = ns[u].refs - Lost(ns, ts, u, dead)]
  BY DEF Freed
<1>0. dead \in SUBSET Tlvs /\ rest \in SUBSET Tlvs /\ dead \cap rest = {} /\ dead \cup rest = Tlvs
  BY <1>1
<1>9. \A u \in Tlvs : u \in rest <=> u \notin dead
  OBVIOUS
<1> HIDE DEF dead, ms, rest
<1>4. ASSUME NEW u \in Tlvs
      PROVE  /\ Lost(ns, ts, u, dead) \in Nat /\ References(ns, u, rest) \in Nat /\ h[u] \in Nat
             /\ ns[u].refs - Lost(ns, ts, u, dead) = h[u] + References(ns, u, rest)
             /\ u \in dead => h[u] = 0 /\ References(ns, u, rest) = 0
  <2>1. Count(u, ts) \in Nat
    BY CountIs
  <2>3. References(ns, u, dead) \in Nat /\ References(ns, u, rest) \in Nat
    BY <1>0, <1>2, ReferencesAre
  <2>4. References(ns, u, dead \cup rest) = References(ns, u, dead) + References(ns, u, rest)
    <3>1. Listed(ns) /\ dead \in SUBSET Tlvs /\ rest \in SUBSET Tlvs /\ dead \cap rest = {}
      BY <1>0, <1>2
    <3> QED
      BY <3>1, ReferencesSplit, SMTT(30)
  <2>5. References(ns, u, Tlvs) = References(ns, u, dead) + References(ns, u, rest)
    BY <1>0, <2>4, Zenon
  <2>6. ns[u].refs = h[u] + Count(u, ts) + References(ns, u, Tlvs) /\ h[u] \in Nat
    BY DEF Balanced
  <2>7. Lost(ns, ts, u, dead) = Count(u, ts) + References(ns, u, dead)
    BY DEF Lost
  <2>8. u \in dead => ns[u].refs <= Lost(ns, ts, u, dead)
    BY <1>1 DEF Losing
  <2> QED
    BY <2>1, <2>3, <2>5, <2>6, <2>7, <2>8
<1>5. ASSUME NEW u \in Tlvs
      PROVE  /\ Sound(ms[u])
             /\ ms[u].refs = h[u] + References(ns, u, rest)
             /\ u \notin dead => ms[u].nested = ns[u].nested
             /\ ns[u] = Gone => ms[u] = Gone
  <2>1. CASE u \in dead
    <3>1. ms[u] = Gone /\ h[u] = 0 /\ References(ns, u, rest) = 0
      BY <1>3, <1>4, <2>1
    <3> QED
      BY <2>1, <3>1, GoneIsSound
  <2>2. CASE u \notin dead
    <3> DEFINE n == ns[u].refs - Lost(ns, ts, u, dead)
    <3>1. n \in Nat /\ n = h[u] + References(ns, u, rest) /\ n <= ns[u].refs
      <4>1. ns[u].refs \in Nat
        BY <1>2
      <4>2. /\ Lost(ns, ts, u, dead) \in Nat /\ References(ns, u, rest) \in Nat /\ h[u] \in Nat
            /\ ns[u].refs - Lost(ns, ts, u, dead) = h[u] + References(ns, u, rest)
        BY <1>4
      <4> QED
        BY <4>1, <4>2
    <3>2. ms[u] = [ns[u] EXCEPT !.refs = n]
      BY <1>3, <2>2
    <3> HIDE DEF n
    <3>3. Sound(ms[u]) /\ ms[u].refs = n /\ ms[u].nested = ns[u].nested /\ (n = ns[u].refs => ms[u] = ns[u])
      BY <1>2, <3>1, <3>2, RefsChanged
    <3>4. ns[u] = Gone => n = ns[u].refs
      BY <1>2, <3>1, GoneIsSound
    <3> QED
      BY <3>1, <3>3, <3>4
  <2> QED
    BY <2>1, <2>2
<1>6. Objects(ms)
  BY <1>3, <1>5 DEF Objects
<1>7. \A u \in dead : ms[u] = Gone
  BY <1>1, <1>3
<1>8. ASSUME NEW u \in Tlvs PROVE ms[u].refs = h[u] + Count(u, << >>) + References(ms, u, Tlvs)
  <2>1. Listed(ms)
    BY <1>6, ObjectsListed
  <2>2. References(ms, u, dead) = 0
    <3>1. \A p \in dead : u \notin ToSet(Elements(ms[p].nested))
      <4>1. \A p \in dead : Elements(ms[p].nested) = << >>
        BY <1>7, GoneIsSound, EmptyList
      <4> QED
        BY <4>1 DEF ToSet
    <3> QED
      BY <1>0, <2>1, <3>1, ReferencesAre
  <2>3. References(ms, u, rest) = References(ns, u, rest)
    <3>1. \A p \in rest : Elements(ms[p].nested) = Elements(ns[p].nested)
      BY <1>0, <1>5, <1>9
    <3> QED
      BY <3>1, ReferencesSame
  <2>4. References(ms, u, dead \cup rest) = References(ms, u, dead) + References(ms, u, rest)
    BY <1>0, <2>1, ReferencesSplit
  <2>5. References(ms, u, Tlvs) = References(ns, u, rest)
    <3>1. References(ms, u, Tlvs) = References(ms, u, dead) + References(ms, u, rest)
      BY <1>0, <2>4, Zenon
    <3>2. References(ns, u, rest) \in Nat
      BY <1>4
    <3> QED
      BY <2>2, <2>3, <3>1, <3>2
  <2>6. ms[u].refs = h[u] + References(ns, u, rest) /\ h[u] \in Nat /\ References(ns, u, rest) \in Nat
    BY <1>4, <1>5
  <2>7. Count(u, << >>) = 0
    BY CountOfNone
  <2> QED
    BY <2>5, <2>6, <2>7
<1> QED
  BY <1>0, <1>5, <1>6, <1>7, <1>8, <1>9 DEF Balanced, dead, ms

-----------------------------------------------------------------------------
(* No TLV is nested in itself.                                             *)

\* Every set of TLVs has one with nothing of the set nested in it.
Acyclic(ns) == \A S \in SUBSET Tlvs : S # {} => \E t \in S : Kids(ns, t) \cap S = {}

LEMMA AcyclicShrinks ==
  ASSUME NEW ns, NEW ms, Acyclic(ns), \A t \in Tlvs : Kids(ms, t) \subseteq Kids(ns, t)
  PROVE  Acyclic(ms)
<1> SUFFICES ASSUME NEW S \in SUBSET Tlvs, S # {} PROVE \E t \in S : Kids(ms, t) \cap S = {}
  BY DEF Acyclic
<1>1. PICK t \in S : Kids(ns, t) \cap S = {}
  BY DEF Acyclic
<1>2. Kids(ms, t) \subseteq Kids(ns, t)
  OBVIOUS
<1> QED
  BY <1>1, <1>2

\* c, with all that is in a set p is not in, comes under p.
LEMMA AcyclicLinks ==
  ASSUME NEW ns, NEW ms, Acyclic(ns), NEW p, NEW c, NEW S \in SUBSET Tlvs, c \in S, p \notin S,
         \A t \in S : Kids(ns, t) \subseteq S,
         \A t \in Tlvs : Kids(ms, t) \subseteq Kids(ns, t) \cup (IF t = p THEN {c} ELSE {})
  PROVE  Acyclic(ms)
<1> SUFFICES ASSUME NEW T \in SUBSET Tlvs, T # {} PROVE \E t \in T : Kids(ms, t) \cap T = {}
  BY DEF Acyclic
<1>1. \A t \in Tlvs : t # p => Kids(ms, t) \subseteq Kids(ns, t)
  OBVIOUS
<1>2. CASE c \in T
  <2>1. T \cap S \in SUBSET Tlvs /\ T \cap S # {}
    BY <1>2
  <2>2. PICK t \in T \cap S : Kids(ns, t) \cap (T \cap S) = {}
    BY <2>1 DEF Acyclic
  <2>3. t \in Tlvs /\ t # p /\ Kids(ns, t) \subseteq S
    BY <2>2
  <2>4. Kids(ms, t) \subseteq Kids(ns, t)
    BY <1>1, <2>3
  <2>5. Kids(ms, t) \cap T = {}
    BY <2>2, <2>3, <2>4
  <2> QED
    BY <2>2, <2>5
<1>3. CASE c \notin T
  <2>1. PICK t \in T : Kids(ns, t) \cap T = {}
    BY DEF Acyclic
  <2>2. Kids(ms, t) \subseteq Kids(ns, t) \cup {c}
    OBVIOUS
  <2>3. Kids(ms, t) \cap T = {}
    BY <1>3, <2>1, <2>2
  <2> QED
    BY <2>1, <2>3
<1> QED
  BY <1>2, <1>3

\* p gets nested objects that have nothing nested themselves.
LEMMA AcyclicGrows ==
  ASSUME NEW ns, NEW ms, Acyclic(ns), NEW p,
         \A t \in Tlvs \ {p} : Kids(ms, t) \subseteq Kids(ns, t),
         \A t \in Kids(ms, p) : t # p /\ Kids(ms, t) = {}
  PROVE  Acyclic(ms)
<1> SUFFICES ASSUME NEW S \in SUBSET Tlvs, S # {} PROVE \E t \in S : Kids(ms, t) \cap S = {}
  BY DEF Acyclic
<1>1. CASE \E t \in S : t \in Kids(ms, p)
  BY <1>1
<1>2. CASE ~ \E t \in S : t \in Kids(ms, p)
  <2>1. PICK t \in S : Kids(ns, t) \cap S = {}
    BY DEF Acyclic
  <2>2. CASE t = p
    <3>1. Kids(ms, p) \cap S = {}
      BY <1>2
    <3> QED
      BY <2>2, <3>1
  <2>3. CASE t # p
    <3>1. Kids(ms, t) \subseteq Kids(ns, t)
      BY <2>3
    <3>2. Kids(ms, t) \cap S = {}
      BY <2>1, <3>1
    <3> QED
      BY <3>2
  <2> QED
    BY <2>2, <2>3
<1> QED
  BY <1>1, <1>2

LEMMA BelowIs ==
  ASSUME NEW c \in Tlvs, \A t \in Tlvs : Kids(node, t) \subseteq Tlvs
  PROVE  /\ Below(c) \in SUBSET Tlvs /\ c \in Below(c)
         /\ \A t \in Below(c) : Kids(node, t) \subseteq Below(c)
         /\ \A S \in SUBSET Tlvs : c \in S /\ (\A t \in S : Kids(node, t) \subseteq S) => Below(c) \subseteq S
<1> DEFINE B == Below(c)
<1>1. B = {u \in Tlvs : \A S \in SUBSET Tlvs : c \in S /\ (\A t \in S : Kids(node, t) \subseteq S) => u \in S}
  BY DEF Below, WithNested, Kids, Children
<1> HIDE DEF B
<1>2. B \in SUBSET Tlvs /\ c \in B
  BY <1>1
<1>3. \A S \in SUBSET Tlvs : c \in S /\ (\A t \in S : Kids(node, t) \subseteq S) => B \subseteq S
  BY <1>1
<1>4. ASSUME NEW t \in B, NEW u \in Kids(node, t) PROVE u \in B
  <2>1. u \in Tlvs
    BY <1>2
  <2>2. ASSUME NEW S \in SUBSET Tlvs, c \in S, \A q \in S : Kids(node, q) \subseteq S PROVE u \in S
    <3>1. t \in S
      BY <1>1, <2>2
    <3> QED
      BY <2>2, <3>1
  <2> QED
    BY <1>1, <2>1, <2>2
<1> QED
  BY <1>2, <1>3, <1>4 DEF B

LEMMA NotBelowItself ==
  ASSUME Acyclic(node), \A t \in Tlvs : Kids(node, t) \subseteq Tlvs,
         NEW p \in Tlvs, NEW k \in Kids(node, p)
  PROVE  p \notin Below(k)
<1> SUFFICES ASSUME p \in Below(k) PROVE FALSE
  OBVIOUS
<1> DEFINE S == {u \in Tlvs : p \in Below(u)}
<1>1. \A t \in Tlvs : Kids(node, t) \subseteq Tlvs
  OBVIOUS
<1>2. p \in S /\ k \in S
  BY <1>1, BelowIs
<1>3. ASSUME NEW u \in S PROVE Kids(node, u) \cap S # {}
  <2>1. CASE u = p
    BY <1>2, <2>1
  <2>2. CASE u # p
    <3> SUFFICES ASSUME Kids(node, u) \cap S = {} PROVE FALSE
      OBVIOUS
    <3>1. u \in Tlvs /\ p \in Below(u)
      OBVIOUS
    <3>2. /\ Below(u) \in SUBSET Tlvs /\ u \in Below(u)
          /\ \A t \in Below(u) : Kids(node, t) \subseteq Below(u)
          /\ \A T \in SUBSET Tlvs : u \in T /\ (\A t \in T : Kids(node, t) \subseteq T) => Below(u) \subseteq T
      BY <1>1, <3>1, BelowIs
    <3> DEFINE T == {u} \cup UNION {Below(v) : v \in Kids(node, u)}
    <3>3. \A v \in Kids(node, u) : /\ v \in Tlvs /\ p \notin Below(v)
                                   /\ Below(v) \in SUBSET Tlvs /\ v \in Below(v)
                                   /\ \A t \in Below(v) : Kids(node, t) \subseteq Below(v)
      <4> TAKE v \in Kids(node, u)
      <4>1. v \in Tlvs
        BY <1>1, <3>1
      <4>2. v \notin S
        OBVIOUS
      <4>3. p \notin Below(v)
        BY <4>1, <4>2
      <4> QED
        BY <1>1, <4>1, <4>3, BelowIs
    <3>4. T \in SUBSET Tlvs /\ u \in T
      BY <3>1, <3>3
    <3>5. \A t \in T : Kids(node, t) \subseteq T
      BY <3>3
    <3>6. p \notin T
      BY <2>2, <3>3
    <3> HIDE DEF T
    <3>7. Below(u) \subseteq T
      BY <3>2, <3>4, <3>5
    <3> QED
      BY <3>1, <3>6, <3>7
  <2> QED
    BY <2>1, <2>2
<1>4. S \in SUBSET Tlvs /\ S # {}
  BY <1>2
<1> HIDE DEF S
<1>5. \E t \in S : Kids(node, t) \cap S = {}
  BY <1>4 DEF Acyclic
<1> QED
  BY <1>3, <1>5

-----------------------------------------------------------------------------
(* The inductive invariant.                                                *)

\* The objects ns, of which the first n were made, when the client owns the references h.
Good(ns, h, n) ==
  /\ Objects(ns) /\ Balanced(ns, h, << >>) /\ Acyclic(ns)
  /\ \A t \in Tlvs : t > n => ns[t] = Gone
Traps == {"none", "outlived", "tooLong", "overwritten", "recast", "behind", "insert"}

\* Behind a trap only the types are left: an insertion loses references.
IInv ==
  /\ TypeOK
  /\ Untrapped => Good(node, held, used)

LEMMA GoodIs ==
  ASSUME NEW ns, NEW h \in [Tlvs -> Nat], NEW n \in Nat, Good(ns, h, n)
  PROVE  /\ Objects(ns) /\ Listed(ns) /\ Acyclic(ns)
         /\ \A t \in Tlvs :
              /\ Sound(ns[t]) /\ ns[t].refs \in Nat /\ ns[t].nested \in Lists /\ Kids(ns, t) \subseteq Tlvs
              /\ ns[t].refs = h[t] + References(ns, t, Tlvs) /\ References(ns, t, Tlvs) \in Nat
              /\ ns[t].refs > 0 => t <= n
              /\ t > n => h[t] = 0 /\ ns[t] = Gone /\ \A p \in Tlvs : t \notin Kids(ns, p)
<1>1. Objects(ns) /\ Balanced(ns, h, << >>) /\ Acyclic(ns) /\ \A t \in Tlvs : t > n => ns[t] = Gone
  BY DEF Good
<1>2. Listed(ns)
  BY <1>1, ObjectsListed
<1>3. ASSUME NEW t \in Tlvs
      PROVE  Sound(ns[t]) /\ ns[t].refs \in Nat /\ ns[t].nested \in Lists /\ Kids(ns, t) \subseteq Tlvs
  <2>1. Sound(ns[t]) /\ ns[t].refs \in Nat /\ ns[t].nested \in Lists
    BY <1>1 DEF Objects, Sound
  <2>2. Elements(ns[t].nested) \in Seq(Tlvs)
    BY <2>1, ElementsAre
  <2>3. Kids(ns, t) \subseteq Tlvs
    BY <2>2 DEF Kids, ToSet
  <2> QED
    BY <2>1, <2>3
<1>4. ASSUME NEW t \in Tlvs
      PROVE  /\ ns[t].refs = h[t] + References(ns, t, Tlvs) /\ References(ns, t, Tlvs) \in Nat
             /\ ns[t].refs = 0 => h[t] = 0 /\ \A p \in Tlvs : t \notin Kids(ns, p)
  <2>1. ns[t].refs = h[t] + Count(t, << >>) + References(ns, t, Tlvs) /\ Count(t, << >>) = 0 /\ h[t] \in Nat
    BY <1>1, CountOfNone DEF Balanced
  <2>2. Tlvs \in SUBSET Tlvs
    OBVIOUS
  <2>3. References(ns, t, Tlvs) \in Nat
        /\ (References(ns, t, Tlvs) = 0 <=> \A p \in Tlvs : t \notin ToSet(Elements(ns[p].nested)))
    BY <1>2, <2>2, ReferencesAre
  <2> QED
    BY <2>1, <2>3 DEF Kids
<1>5. ASSUME NEW t \in Tlvs, t > n PROVE ns[t] = Gone /\ ns[t].refs = 0
  BY <1>1, <1>5, GoneIsSound
<1>6. \A t \in Tlvs : ns[t].refs > 0 => t <= n
  <2>1. Tlvs \subseteq Int
    BY DEF Tlvs
  <2> QED
    BY <1>5, <2>1
<1> QED
  BY <1>1, <1>2, <1>3, <1>4, <1>5, <1>6

\* The lists stay, and the references are counted again.
LEMMA SameGood ==
  ASSUME NEW ns, NEW h \in [Tlvs -> Nat], NEW n \in Nat, Good(ns, h, n),
         NEW ms, Objects(ms), NEW g \in [Tlvs -> Nat], NEW k \in Nat, n <= k,
         \A t \in Tlvs : /\ ms[t].nested = ns[t].nested /\ ms[t].refs + h[t] = ns[t].refs + g[t]
                         /\ t > k => ms[t] = ns[t]
  PROVE  Good(ms, g, k)
<1>1. /\ Objects(ns) /\ Acyclic(ns)
      /\ \A t \in Tlvs : /\ ns[t].refs = h[t] + References(ns, t, Tlvs)
                         /\ References(ns, t, Tlvs) \in Nat
                         /\ t > n => ns[t] = Gone
  BY GoodIs
<1>2. \A t \in Tlvs : Kids(ms, t) \subseteq Kids(ns, t)
  BY DEF Kids
<1>3. Acyclic(ms)
  BY <1>1, <1>2, AcyclicShrinks
<1>4. ASSUME NEW t \in Tlvs PROVE ms[t].refs = g[t] + Count(t, << >>) + References(ms, t, Tlvs)
  <2>1. \A p \in Tlvs : Elements(ms[p].nested) = Elements(ns[p].nested)
    OBVIOUS
  <2>2. References(ms, t, Tlvs) = References(ns, t, Tlvs)
    BY <2>1, ReferencesSame
  <2>3. ms[t].refs + h[t] = ns[t].refs + g[t] /\ ms[t].refs \in Nat /\ h[t] \in Nat /\ g[t] \in Nat
    BY DEF Objects, Sound
  <2>4. ns[t].refs = h[t] + References(ns, t, Tlvs) /\ References(ns, t, Tlvs) \in Nat
    BY <1>1
  <2>5. ms[t].refs = g[t] + References(ns, t, Tlvs)
    BY <2>3, <2>4
  <2>6. Count(t, << >>) = 0 /\ g[t] + 0 = g[t]
    BY CountOfNone
  <2> QED
    BY <2>2, <2>5, <2>6
<1>5. ASSUME NEW t \in Tlvs, t > k PROVE ms[t] = Gone
  <2>1. t \in Int /\ t > n
    BY <1>5 DEF Tlvs
  <2> QED
    BY <1>1, <1>5, <2>1
<1> QED
  BY <1>3, <1>4, <1>5 DEF Good, Balanced

\* An object more, that belongs to the client.
LEMMA MadeGood ==
  ASSUME NEW ns, NEW h \in [Tlvs -> Nat], NEW n \in Nat, Good(ns, h, n), n + 1 \in Tlvs,
         NEW o, Sound(o), o.refs = 1, o.nested = NewList,
         NEW ms, Differs(ms, ns, n + 1, o), NEW g, Differs(g, h, n + 1, 1)
  PROVE  g \in [Tlvs -> Nat] /\ Good(ms, g, n + 1) /\ \A t \in Tlvs : ms[t].nested = ns[t].nested
<1> DEFINE f == n + 1
<1>1. f \in Tlvs /\ f > n /\ f \in Nat /\ n <= f
  OBVIOUS
<1>2. \A t \in Tlvs :
        /\ Sound(ns[t]) /\ ns[t].refs \in Nat
        /\ t > n => h[t] = 0 /\ ns[t] = Gone /\ \A p \in Tlvs : t \notin Kids(ns, p)
  BY GoodIs
<1>3. ns[f] = Gone /\ h[f] = 0
  BY <1>1, <1>2
<1>4. \A t \in Tlvs : ms[t] = IF t = f THEN o ELSE ns[t]
  BY DEF Differs
<1>5. g \in [Tlvs -> Nat] /\ \A t \in Tlvs : g[t] = IF t = f THEN 1 ELSE h[t]
  <2>1. g = [t \in Tlvs |-> g[t]] /\ \A t \in Tlvs : g[t] = IF t = f THEN 1 ELSE h[t]
    BY DEF Differs
  <2>2. \A t \in Tlvs : g[t] \in Nat
    BY <2>1
  <2> QED
    BY <2>1, <2>2
<1> HIDE DEF f
<1>6. Objects(ms)
  <2>1. \A t \in Tlvs : Sound(ms[t])
    BY <1>2, <1>4
  <2> QED
    BY <2>1 DEF Objects, Differs
<1>7. \A t \in Tlvs : ms[t].nested = ns[t].nested
  BY <1>3, <1>4, GoneIsSound
<1>8. ASSUME NEW t \in Tlvs PROVE ms[t].refs + h[t] = ns[t].refs + g[t] /\ (t > f => ms[t] = ns[t])
  <2>1. CASE t = f
    BY <1>1, <1>3, <1>4, <1>5, <2>1, GoneIsSound
  <2>2. CASE t # f
    <3>1. ms[t] = ns[t] /\ g[t] = h[t] /\ ns[t].refs \in Nat /\ h[t] \in Nat
      BY <1>2, <1>4, <1>5, <2>2
    <3> QED
      BY <3>1
  <2> QED
    BY <2>1, <2>2
<1>9. Good(ms, g, f)
  BY <1>1, <1>5, <1>6, <1>7, <1>8, SameGood
<1> QED
  BY <1>5, <1>7, <1>9 DEF f

LEMMA FreedGood ==
  ASSUME NEW ns, Objects(ns), Acyclic(ns), NEW h \in [Tlvs -> Nat], NEW ts \in Seq(Tlvs),
         Balanced(ns, h, ts), NEW n \in Nat, \A t \in Tlvs : t > n => ns[t] = Gone
  PROVE  /\ Good(Freed(ns, ts), h, n)
         /\ \A t \in Tlvs : Freed(ns, ts)[t].nested \in {ns[t].nested, NewList}
<1> DEFINE ms == Freed(ns, ts)
<1>1. /\ Objects(ms) /\ Balanced(ms, h, << >>)
      /\ \A u \in Dying(ns, ts) : ms[u] = Gone
      /\ \A u \in Tlvs \ Dying(ns, ts) : ms[u].nested = ns[u].nested
      /\ \A u \in Tlvs : ns[u] = Gone => ms[u] = Gone
  BY FreedIs
<1> HIDE DEF ms
<1>2. \A t \in Tlvs : ms[t].nested \in {ns[t].nested, NewList}
  BY <1>1, GoneIsSound
<1>3. \A t \in Tlvs : Kids(ms, t) \subseteq Kids(ns, t)
  <2>1. ToSet(Elements(NewList)) = {}
    BY EmptyList DEF ToSet
  <2> QED
    BY <1>2, <2>1 DEF Kids
<1>4. Acyclic(ms)
  BY <1>3, AcyclicShrinks
<1> QED
  BY <1>1, <1>2, <1>4 DEF Good, ms

\* Nothing but the list of p changes.
OnlyList(ms, ns, p) ==
  \A t \in Tlvs : ms[t].refs = ns[t].refs /\ (t # p => ms[t].nested = ns[t].nested)
\* The references the list of p takes up or gives back are those of the client and of ts.
Settled(ms, ns, g, h, p, ts) ==
  \A u \in Tlvs : h[u] + Count(u, Elements(ns[p].nested))
                    = g[u] + Count(u, ts) + Count(u, Elements(ms[p].nested))

LEMMA ListBalance ==
  ASSUME NEW ns, NEW h \in [Tlvs -> Nat], NEW n \in Nat, Good(ns, h, n),
         NEW ms, Objects(ms), NEW g \in [Tlvs -> Nat], NEW ts \in Seq(Tlvs), NEW p \in Tlvs,
         OnlyList(ms, ns, p), Settled(ms, ns, g, h, p, ts)
  PROVE  Balanced(ms, g, ts)
<1> SUFFICES ASSUME NEW u \in Tlvs PROVE ms[u].refs = g[u] + Count(u, ts) + References(ms, u, Tlvs)
  BY DEF Balanced
<1>1. Listed(ns) /\ Listed(ms)
  BY GoodIs, ObjectsListed
<1>2. References(ns, u, Tlvs) = References(ns, u, Tlvs \ {p}) + Count(u, Elements(ns[p].nested))
      /\ References(ms, u, Tlvs) = References(ms, u, Tlvs \ {p}) + Count(u, Elements(ms[p].nested))
  BY <1>1, ReferencesAt
<1>3. References(ms, u, Tlvs \ {p}) = References(ns, u, Tlvs \ {p})
  <2>1. \A t \in Tlvs \ {p} : Elements(ms[t].nested) = Elements(ns[t].nested)
    BY DEF OnlyList
  <2> QED
    BY <2>1, ReferencesSame
<1>4. References(ns, u, Tlvs \ {p}) \in Nat
  <2>1. Tlvs \ {p} \in SUBSET Tlvs
    OBVIOUS
  <2> QED
    BY <1>1, <2>1, ReferencesAre
<1>5. Count(u, ts) \in Nat /\ Count(u, Elements(ns[p].nested)) \in Nat /\ Count(u, Elements(ms[p].nested)) \in Nat
  <2>1. Elements(ns[p].nested) \in Seq(Tlvs) /\ Elements(ms[p].nested) \in Seq(Tlvs)
    BY <1>1, ElementsAre DEF Listed
  <2> QED
    BY <2>1, CountIs
<1>6. ns[u].refs = h[u] + References(ns, u, Tlvs) /\ h[u] \in Nat /\ g[u] \in Nat /\ ms[u].refs = ns[u].refs
  BY GoodIs DEF OnlyList
<1>7. h[u] + Count(u, Elements(ns[p].nested)) = g[u] + Count(u, ts) + Count(u, Elements(ms[p].nested))
  BY DEF Settled
<1>8. ms[u].refs = h[u] + (References(ns, u, Tlvs \ {p}) + Count(u, Elements(ns[p].nested)))
  BY <1>2, <1>6
<1>9. ms[u].refs = References(ns, u, Tlvs \ {p}) + (h[u] + Count(u, Elements(ns[p].nested)))
  BY <1>4, <1>5, <1>6, <1>8
<1>10. ms[u].refs = References(ns, u, Tlvs \ {p}) + (g[u] + Count(u, ts) + Count(u, Elements(ms[p].nested)))
  BY <1>7, <1>9
<1>11. g[u] + Count(u, ts) + References(ms, u, Tlvs)
         = g[u] + Count(u, ts) + (References(ns, u, Tlvs \ {p}) + Count(u, Elements(ms[p].nested)))
  BY <1>2, <1>3
<1> QED
  BY <1>4, <1>5, <1>6, <1>10, <1>11

LEMMA WithListIs ==
  ASSUME Objects(node), NEW p \in Tlvs, NEW l \in Lists, l.len > 0 => node[p].type = "TLV"
  PROVE  /\ Objects(WithList(p, l)) /\ WithList(p, l)[p].nested = l
         /\ \A t \in Tlvs : /\ WithList(p, l)[t].refs = node[t].refs
                            /\ t # p => WithList(p, l)[t] = node[t]
<1> DEFINE ms == WithList(p, l)
<1>1. node = [t \in Tlvs |-> node[t]] /\ \A t \in Tlvs : Sound(node[t])
  BY DEF Objects
<1>2. ms = [t \in Tlvs |-> ms[t]] /\ ms[p] = [node[p] EXCEPT !.nested = l]
      /\ \A t \in Tlvs : t # p => ms[t] = node[t]
  BY <1>1 DEF WithList
<1> HIDE DEF ms
<1>3. Sound(ms[p]) /\ ms[p].refs = node[p].refs /\ ms[p].nested = l
  <2>1. Sound(node[p]) /\ (l.len > 0 => node[p].type = "TLV")
    BY <1>1
  <2> DEFINE e == [node[p] EXCEPT !.nested = l]
  <2>2. Sound(e) /\ e.refs = node[p].refs /\ e.nested = l
    BY <2>1, ListChanged
  <2>3. ms[p] = e
    BY <1>2
  <2> HIDE DEF e
  <2> QED
    BY <2>2, <2>3
<1>4. \A t \in Tlvs : Sound(ms[t])
  BY <1>1, <1>2, <1>3
<1>5. Objects(ms)
  BY <1>2, <1>4 DEF Objects
<1>6. \A t \in Tlvs : ms[t].refs = node[t].refs
  BY <1>2, <1>3
<1> QED
  BY <1>2, <1>3, <1>5, <1>6 DEF ms

\* The numbers of the objects that are made for nested TLVs.
NewOnes(n, k) == [i \in 1 .. k |-> n + 1 + i - 1]

LEMMA NewOnesAre ==
  ASSUME NEW n \in Nat, NEW k \in 0 .. MaxTlvs - n
  PROVE  /\ NewOnes(n, k) \in Seq(Tlvs) /\ ToSet(NewOnes(n, k)) = (n + 1) .. (n + k)
         /\ IsInjective(NewOnes(n, k))
         /\ \A u \in Tlvs : Count(u, NewOnes(n, k)) = IF u \in (n + 1) .. (n + k) THEN 1 ELSE 0
<1> DEFINE s == NewOnes(n, k)
<1>1. k \in Nat /\ MaxTlvs \in Nat /\ n + k <= MaxTlvs
  BY TlvAssumption
<1>2. s \in Seq(Tlvs)
  <2>1. \A i \in 1 .. k : n + 1 + i - 1 \in Tlvs
    BY <1>1 DEF Tlvs
  <2> QED
    BY <1>1, <2>1 DEF NewOnes
<1>3. DOMAIN s = 1 .. k /\ \A i \in 1 .. k : s[i] = n + i
  BY <1>1 DEF NewOnes
<1> HIDE DEF s
<1>4. IsInjective(s)
  BY <1>1, <1>3 DEF IsInjective
<1>5. ToSet(s) = (n + 1) .. (n + k)
  <2>1. \A i \in 1 .. k : s[i] \in (n + 1) .. (n + k)
    BY <1>1, <1>3
  <2>2. ASSUME NEW u \in (n + 1) .. (n + k) PROVE \E i \in 1 .. k : s[i] = u
    <3>1. u - n \in 1 .. k /\ s[u - n] = u
      BY <1>1, <1>3
    <3> QED
      BY <3>1
  <2> QED
    <3>1. ToSet(s) = {s[i] : i \in 1 .. k}
      BY <1>3 DEF ToSet
    <3> QED
      BY <2>1, <2>2, <3>1
<1>6. ASSUME NEW u \in Tlvs PROVE Count(u, s) = IF u \in (n + 1) .. (n + k) THEN 1 ELSE 0
  <2>1. u \in Nat /\ Places(u, s) = {i \in 1 .. k : n + i = u}
    BY <1>3 DEF Tlvs, Places
  <2>2. CASE u \in (n + 1) .. (n + k)
    <3>1. Places(u, s) = {u - n}
      BY <1>1, <2>1, <2>2
    <3>2. Count(u, s) = 1
      BY <3>1, FS_Singleton DEF Count
    <3> QED
      BY <2>2, <3>2
  <2>3. CASE u \notin (n + 1) .. (n + k)
    <3>1. Places(u, s) = {}
      BY <1>1, <2>1, <2>3
    <3>2. Count(u, s) = 0
      BY <3>1, FS_EmptySet DEF Count
    <3> QED
      BY <2>3, <3>2
  <2> QED
    BY <2>2, <2>3
<1> QED
  BY <1>2, <1>4, <1>5, <1>6 DEF s

\* ms is ns with k new objects nested in t.
Spread(ms, ns, t, n, k) ==
  /\ ms = [u \in Tlvs |-> ms[u]]
  /\ Sound(ms[t]) /\ ms[t].refs = ns[t].refs /\ Elements(ms[t].nested) = NewOnes(n, k)
  /\ \A u \in (n + 1) .. (n + k) : Sound(ms[u]) /\ ms[u].refs = 1 /\ ms[u].nested = NewList
  /\ \A u \in Tlvs : u # t /\ u \notin (n + 1) .. (n + k) => ms[u] = ns[u]

LEMMA ExpandedIs ==
  ASSUME NEW ns, NEW m, NEW t \in Tlvs, NEW n \in Nat, t <= n, NEW starts, Len(starts) \in 0 .. MaxTlvs - n,
         Sound(ns[t]), ns[t].type # "INT"
  PROVE  Spread(Expanded(ns, m, t, n + 1, starts), ns, t, n, Len(starts))
<1> DEFINE k == Len(starts)
           ms == Expanded(ns, m, t, n + 1, starts)
           l == ListOf(NewOnes(n, k))
           h(u) == ReadFirst(SubSeq(Peek(m, ns[t].data), starts[u - (n + 1) + 1] + 1, ns[t].data.len))
           made(u) == Object(h(u).tag, h(u).flags, "RAW", FALSE,
                             [in |-> ns[t].data.in,
                              at |-> ns[t].data.at + starts[u - (n + 1) + 1] + h(u).size, len |-> h(u).len])
           wide == [ns[t] EXCEPT !.type = "TLV", !.nested = l]
<1>1. k \in Nat /\ MaxTlvs \in Nat /\ n + k <= MaxTlvs /\ n + 1 + k - 1 = n + k
  BY TlvAssumption
<1>2. ms = [u \in Tlvs |-> CASE u = t -> wide
                              [] u \in (n + 1) .. (n + 1 + k - 1) -> made(u)
                              [] OTHER -> ns[u]]
  BY DEF Expanded, NewOnes
<1>3. l \in Lists /\ Elements(l) = NewOnes(n, k)
  BY <1>1, NewOnesAre, ListOfIs
<1>4. \A u : Sound(made(u)) /\ made(u).refs = 1 /\ made(u).nested = NewList
  <2> TAKE u
  <2> DEFINE d == [in |-> ns[t].data.in, at |-> ns[t].data.at + starts[u - (n + 1) + 1] + h(u).size, len |-> h(u).len]
  <2> DEFINE tag == h(u).tag
             flags == h(u).flags
             o == Object(tag, flags, "RAW", FALSE, d)
  <2>1. made(u) = o
    OBVIOUS
  <2> HIDE DEF d, tag, flags, made
  <2>2. "RAW" \in {"RAW", "INT", "TLV"}
    OBVIOUS
  <2>3. Sound(o) /\ o.refs = 1 /\ o.nested = NewList
    BY <2>2, ObjectIsSound
  <2> HIDE DEF o
  <2> QED
    BY <2>1, <2>3
<1> HIDE DEF made, l, h
<1>5. Sound(wide) /\ wide.refs = ns[t].refs /\ wide.nested = l
  BY <1>3, Widened
<1> HIDE DEF wide, ms, k
<1>6. t \notin (n + 1) .. (n + k) /\ (n + 1) .. (n + k) \subseteq Tlvs
  BY <1>1 DEF Tlvs
<1>7. \A u \in Tlvs : ms[u] = IF u = t THEN wide ELSE IF u \in (n + 1) .. (n + k) THEN made(u) ELSE ns[u]
  BY <1>1, <1>2
<1>8. ms = [u \in Tlvs |-> ms[u]]
  BY <1>2
<1>9. ms[t] = wide
  BY <1>7
<1>10. \A u \in (n + 1) .. (n + k) : ms[u] = made(u)
  BY <1>6, <1>7
<1>11. \A u \in Tlvs : u # t /\ u \notin (n + 1) .. (n + k) => ms[u] = ns[u]
  BY <1>7
<1>12. Sound(ms[t]) /\ ms[t].refs = ns[t].refs /\ Elements(ms[t].nested) = NewOnes(n, k)
  BY <1>3, <1>5, <1>9
<1>13. Spread(ms, ns, t, n, k)
  BY <1>4, <1>8, <1>10, <1>11, <1>12 DEF Spread
<1> QED
  BY <1>13 DEF ms, k

\* Of the lists, only that of t differs: it was empty and holds k new objects.
Nests(ms, ns, t, n, k) ==
  /\ Elements(ns[t].nested) = << >> /\ Elements(ms[t].nested) = NewOnes(n, k)
  /\ \A u \in Tlvs : u # t => ms[u].nested = ns[u].nested

LEMMA ExpandedGood ==
  ASSUME NEW ns, NEW h \in [Tlvs -> Nat], NEW n \in Nat, Good(ns, h, n), NEW m,
         NEW t \in Tlvs, t <= n, ns[t].type \notin {"TLV", "INT"},
         NEW starts, Len(starts) \in 0 .. MaxTlvs - n
  PROVE  /\ Good(Expanded(ns, m, t, n + 1, starts), h, n + Len(starts))
         /\ Nests(Expanded(ns, m, t, n + 1, starts), ns, t, n, Len(starts))
<1> DEFINE k == Len(starts)
           new == (n + 1) .. (n + k)
           ms == Expanded(ns, m, t, n + 1, starts)
<1>1. /\ Objects(ns) /\ Listed(ns) /\ Acyclic(ns)
      /\ \A u \in Tlvs :
           /\ Sound(ns[u]) /\ ns[u].refs \in Nat /\ Kids(ns, u) \subseteq Tlvs
           /\ ns[u].refs = h[u] + References(ns, u, Tlvs) /\ References(ns, u, Tlvs) \in Nat
           /\ u > n => h[u] = 0 /\ ns[u] = Gone /\ \A p \in Tlvs : u \notin Kids(ns, p)
  BY GoodIs
<1>2. /\ ms = [u \in Tlvs |-> ms[u]]
      /\ Sound(ms[t]) /\ ms[t].refs = ns[t].refs
      /\ Elements(ms[t].nested) = NewOnes(n, k)
      /\ \A u \in new : Sound(ms[u]) /\ ms[u].refs = 1 /\ ms[u].nested = NewList
      /\ \A u \in Tlvs : u # t /\ u \notin new => ms[u] = ns[u]
  <2>1. Sound(ns[t]) /\ ns[t].type # "INT"
    BY <1>1
  <2>2. Spread(ms, ns, t, n, k)
    BY <2>1, ExpandedIs
  <2> HIDE DEF ms, k
  <2> QED
    BY <2>2 DEF Spread
<1>3. k \in Nat /\ MaxTlvs \in Nat /\ n + k <= MaxTlvs /\ k \in 0 .. MaxTlvs - n
  BY TlvAssumption
<1>4. /\ NewOnes(n, k) \in Seq(Tlvs) /\ ToSet(NewOnes(n, k)) = new
      /\ \A u \in Tlvs : Count(u, NewOnes(n, k)) = IF u \in new THEN 1 ELSE 0
  BY <1>3, NewOnesAre
<1>5. \A u \in new : u \in Tlvs /\ u > n /\ u # t
  BY <1>3 DEF Tlvs
<1>6. \A u \in Tlvs : u \in new \/ u <= n \/ u > n + k
  BY <1>3 DEF Tlvs
<1>7. Elements(ns[t].nested) = << >>
  <2>1. ns[t].nested \in Lists /\ ns[t].nested.len = 0
    BY <1>1 DEF Sound, Lists
  <2>2. Elements(ns[t].nested) \in Seq(Tlvs) /\ Len(Elements(ns[t].nested)) = 0
    BY <2>1, ElementsAre
  <2> QED
    BY <2>2
<1> HIDE DEF ms, new, k
<1>8. \A u \in Tlvs : u # t => ms[u].nested = ns[u].nested
  BY <1>1, <1>2, <1>5, GoneIsSound
<1>9. Objects(ms)
  <2>1. \A u \in Tlvs : Sound(ms[u])
    BY <1>1, <1>2
  <2> QED
    BY <1>2, <2>1 DEF Objects
<1>10. Acyclic(ms)
  <2>1. \A u \in Tlvs \ {t} : Kids(ms, u) \subseteq Kids(ns, u)
    BY <1>8 DEF Kids
  <2>2. Kids(ms, t) = new
    BY <1>2, <1>4 DEF Kids
  <2>3. \A u \in Kids(ms, t) : u # t /\ Kids(ms, u) = {}
    <3> TAKE u \in Kids(ms, t)
    <3>1. u # t /\ ms[u].nested = NewList
      BY <1>2, <1>5, <2>2
    <3> QED
      BY <3>1, EmptyList DEF Kids, ToSet
  <2> QED
    BY <1>1, <2>1, <2>3, AcyclicGrows
<1>11. ASSUME NEW u \in Tlvs PROVE ms[u].refs = h[u] + Count(u, << >>) + References(ms, u, Tlvs)
  <2>1. Count(u, << >>) = 0 /\ h[u] \in Nat /\ Listed(ms)
    BY <1>9, CountOfNone, ObjectsListed
  <2>2. References(ms, u, Tlvs) = References(ms, u, Tlvs \ {t}) + Count(u, NewOnes(n, k))
    BY <1>2, <2>1, ReferencesAt
  <2>3. References(ns, u, Tlvs) = References(ns, u, Tlvs \ {t}) + Count(u, << >>)
    <3>1. References(ns, u, Tlvs) = References(ns, u, Tlvs \ {t}) + Count(u, Elements(ns[t].nested))
      BY <1>1, ReferencesAt
    <3> QED
      BY <1>7, <3>1, Zenon
  <2>4. References(ms, u, Tlvs \ {t}) = References(ns, u, Tlvs \ {t})
    <3>1. \A p \in Tlvs \ {t} : Elements(ms[p].nested) = Elements(ns[p].nested)
      BY <1>8
    <3> QED
      BY <3>1, ReferencesSame
  <2>5. References(ns, u, Tlvs \ {t}) \in Nat
    <3>1. Tlvs \ {t} \in SUBSET Tlvs
      OBVIOUS
    <3> QED
      BY <1>1, <3>1, ReferencesAre
  <2>6. ns[u].refs = h[u] + References(ns, u, Tlvs)
    BY <1>1
  <2>7. ns[u].refs = h[u] + References(ns, u, Tlvs \ {t})
    BY <2>1, <2>3, <2>5, <2>6
  <2>8. CASE u \in new
    <3>1. h[u] = 0 /\ ns[u].refs = 0 /\ ms[u].refs = 1 /\ Count(u, NewOnes(n, k)) = 1
      BY <1>1, <1>2, <1>4, <1>5, <2>8, GoneIsSound
    <3>2. References(ns, u, Tlvs \ {t}) = 0
      BY <2>5, <2>7, <3>1
    <3>3. References(ms, u, Tlvs) = 1
      BY <2>2, <2>4, <3>1, <3>2
    <3> QED
      BY <2>1, <3>1, <3>3
  <2>9. CASE u \notin new
    <3>1. ms[u].refs = ns[u].refs /\ Count(u, NewOnes(n, k)) = 0
      BY <1>2, <1>4, <2>9
    <3>2. References(ms, u, Tlvs) = References(ns, u, Tlvs \ {t})
      BY <2>2, <2>4, <2>5, <3>1
    <3>3. h[u] + Count(u, << >>) = h[u]
      BY <2>1
    <3> QED
      BY <2>7, <3>1, <3>2, <3>3
  <2> QED
    BY <2>8, <2>9
<1>12. ASSUME NEW u \in Tlvs, u > n + k PROVE ms[u] = Gone
  <2>1. u \notin new /\ u > n /\ u # t
    BY <1>3, <1>12 DEF Tlvs, new
  <2> QED
    BY <1>1, <1>2, <2>1
<1>13. Good(ms, h, n + k)
  BY <1>9, <1>10, <1>11, <1>12 DEF Good, Balanced
<1> QED
  BY <1>2, <1>7, <1>8, <1>13 DEF ms, k, Nests

-----------------------------------------------------------------------------
(* Calls as the steps of Forest.                                           *)

Implements == Nested!Next \/ UNCHANGED Nested!vars
\* What the last call was.
Recorded(op, p, pos, c) == [op |-> op, at |-> p, pos |-> pos, arg |-> c, nr |-> call.nr + 1]
\* All but p keep what is nested in them, or lose it.
OthersKeep(p) == \A q \in Tlvs \ {p} : Children(q)' \in {Children(q), << >>}

LEMMA TrapStep ==
  ASSUME NEW p, NEW pos, NEW c, call' = Recorded("trap", p, pos, c)
  PROVE  Implements
BY DEF Implements, Recorded, Nested!Next, Nested!Undocumented

LEMMA StutterStep ==
  ASSUME UNCHANGED <<node, call>>
  PROVE  Implements
BY DEF Implements, Nested!vars, Children

LEMMA KeepStep ==
  ASSUME NEW op \in {"make", "value", "ref"}, NEW p, NEW pos, NEW c, call' = Recorded(op, p, pos, c),
         \A q \in Tlvs : Children(q)' = Children(q)
  PROVE  Implements
<1>1. [t \in Tlvs |-> Children(t)]' = [t \in Tlvs |-> Children(t)]
  OBVIOUS
<1>2. \A q \in Tlvs : Children(q)' \in {Children(q), << >>}
  OBVIOUS
<1>3. Nested!Next
  BY <1>1, <1>2 DEF Nested!Next, Nested!Edit, Recorded
<1> QED
  BY <1>3 DEF Implements

LEMMA CollapseStep ==
  ASSUME NEW op \in {"castRaw", "free"}, NEW p \in Tlvs, NEW pos, NEW c, call' = Recorded(op, p, pos, c),
         \A q \in Tlvs : Children(q)' \in {Children(q), << >>}
  PROVE  Implements
<1>1. Nested!Collapse(p) \/ Nested!Keep(p)
  BY DEF Nested!Collapse, Nested!Keep
<1>2. Nested!Next
  BY <1>1 DEF Nested!Next, Nested!Edit, Recorded
<1> QED
  BY <1>2 DEF Implements

LEMMA ExpandStep ==
  ASSUME NEW op \in {"castTlv", "clone"}, NEW p \in Tlvs, NEW pos, NEW c, call' = Recorded(op, p, pos, c),
         Children(p) = << >>, IsInjective(Children(p)'),
         \A u \in ToSet(Children(p)') : \A q \in Tlvs : u \notin ToSet(Children(q)),
         OthersKeep(p)
  PROVE  Implements
<1>1. Nested!Expand(p)
  <2>1. ToSet(Children(p)') \cap UNION {ToSet(Children(q)) : q \in Tlvs} = {}
    OBVIOUS
  <2>2. [t \in Tlvs |-> Children(t)]'[p] = Children(p)' /\ \A q \in Tlvs : [t \in Tlvs |-> Children(t)][q] = Children(q)
    OBVIOUS
  <2> QED
    BY <2>1, <2>2 DEF Nested!Expand, Nested!ToSet, ToSet, Nested!IsInjective, IsInjective
<1>2. Nested!Next
  BY <1>1 DEF Nested!Next, Nested!Edit, OthersKeep, Recorded
<1> QED
  BY <1>2 DEF Implements

LEMMA AppendStep ==
  ASSUME NEW p \in Tlvs, NEW pos, NEW c, call' = Recorded("append", p, pos, c), OthersKeep(p),
         Children(p)' = Append(Children(p), c)
  PROVE  Implements
<1>1. Nested!Next
  BY DEF Nested!Next, Nested!Edit, OthersKeep, Recorded, Nested!AppendOne
<1> QED
  BY <1>1 DEF Implements

LEMMA InsertStep ==
  ASSUME NEW p \in Tlvs, NEW pos, NEW c, call' = Recorded("insertAt", p, pos, c), OthersKeep(p),
         Children(p)' = InsertAt(Children(p), pos, c)
  PROVE  Implements
<1>1. Nested!Next
  BY DEF Nested!Next, Nested!Edit, OthersKeep, Recorded, Nested!Insert, Nested!InsertAt, InsertAt
<1> QED
  BY <1>1 DEF Implements

LEMMA ReplaceStep ==
  ASSUME NEW p \in Tlvs, NEW pos, NEW c, call' = Recorded("replaceAt", p, pos, c), OthersKeep(p),
         Children(p)' = [Children(p) EXCEPT ![pos] = c]
  PROVE  Implements
<1>1. Nested!Next
  BY DEF Nested!Next, Nested!Edit, OthersKeep, Recorded, Nested!Replace
<1> QED
  BY <1>1 DEF Implements

LEMMA RemoveStep ==
  ASSUME NEW p \in Tlvs, NEW pos, NEW c, call' = Recorded("remove", p, pos, c), OthersKeep(p),
         Children(p)' = RemoveAt(Children(p), pos)
  PROVE  Implements
<1>1. Nested!Next
  BY DEF Nested!Next, Nested!Edit, OthersKeep, Recorded, Nested!RemoveOne, Nested!RemoveAt, RemoveAt
<1> QED
  BY <1>1 DEF Implements

LEMMA SortStep ==
  ASSUME NEW p \in Tlvs, NEW pos, NEW c, call' = Recorded("sort", p, pos, c), OthersKeep(p),
         NEW n, n = Len(Children(p)), NEW f \in [1 .. n -> 1 .. n], IsInjective(f),
         Children(p)' = [i \in 1 .. n |-> Children(p)[f[i]]]
  PROVE  Implements
<1>1. Nested!Positions(p) = 1 .. n
  BY DEF Nested!Positions
<1>2. Nested!Sort(p)
  <2>1. [t \in Tlvs |-> Children(t)]'[p] = [i \in 1 .. n |-> [t \in Tlvs |-> Children(t)][p][f[i]]]
    OBVIOUS
  <2>2. Nested!IsInjective(f)
    BY DEF IsInjective, Nested!IsInjective
  <2> QED
    BY <1>1, <2>1, <2>2 DEF Nested!Sort
<1>3. Nested!Next
  BY <1>2 DEF Nested!Next, Nested!Edit, OthersKeep, Recorded
<1> QED
  BY <1>3 DEF Implements

-----------------------------------------------------------------------------
(* Every call keeps the invariant and is a step of Forest.                 *)

LEMMA Now ==
  ASSUME IInv, Untrapped
  PROVE  /\ used \in Nat /\ used <= MaxTlvs /\ MaxTlvs \in Nat /\ held \in [Tlvs -> Nat] /\ Good(node, held, used)
         /\ Objects(node) /\ Acyclic(node)
         /\ \A t \in Tlvs : t \in Nat /\ t > 0 /\ (t > used => node[t] = Gone)
         /\ \A t \in Alive : t \in Tlvs /\ t <= used
<1>1. /\ used \in Nat /\ used <= MaxTlvs /\ MaxTlvs \in Nat /\ held \in [Tlvs -> Nat]
      /\ Good(node, held, used)
  BY TlvAssumption DEF IInv, TypeOK
<1>2. Objects(node) /\ Acyclic(node) /\ \A t \in Tlvs : t > used => node[t] = Gone
  BY <1>1 DEF Good
<1>3. \A t \in Tlvs : node[t].refs > 0 => t <= used
  BY <1>1, GoodIs
<1> QED
  BY <1>1, <1>2, <1>3 DEF Alive, Live, Tlvs

LEMMA Afterwards ==
  ASSUME used' \in 0 .. MaxTlvs, held' \in [Tlvs -> Nat], Good(node', held', used'), trap' \in Traps
  PROVE  IInv'
<1>1. used' \in Nat
  BY TlvAssumption
<1>2. \A t \in Tlvs : Sound(node'[t]) /\ (node'[t].refs > 0 => t <= used')
  BY <1>1, GoodIs
<1>3. \A t \in Tlvs :
        /\ node'[t].type \in {"RAW", "INT", "TLV"} /\ node'[t].refs \in Nat
        /\ node'[t].nested.len \in 0..Len(node'[t].nested.arr)
        /\ node'[t].nested.len > 0 => node'[t].type = "TLV"
  BY <1>2 DEF Sound, Lists
<1>4. TypeOK'
  BY <1>2, <1>3 DEF TypeOK, Live, Traps
<1> QED
  BY <1>4 DEF IInv

LEMMA UnchangedStep ==
  ASSUME IInv, UNCHANGED <<node, mem, held, used, trap, call>>
  PROVE  IInv' /\ Implements
<1>1. IInv'
  BY DEF IInv, TypeOK, Live, Untrapped
<1> QED
  BY <1>1, StutterStep

\* An object of the client's own.
LEMMA AddsOne ==
  ASSUME IInv, Untrapped, used < MaxTlvs, NEW o, Sound(o), o.refs = 1, o.nested = NewList,
         used' = Fresh, held' = [held EXCEPT ![Fresh] = 1], node' = [node EXCEPT ![Fresh] = o],
         trap' \in Traps, Called("make", Fresh, 0, 0)
  PROVE  IInv' /\ Implements
<1>1. /\ used \in Nat /\ used <= MaxTlvs /\ MaxTlvs \in Nat /\ held \in [Tlvs -> Nat]
      /\ Good(node, held, used)
  BY Now
<1>2. used + 1 \in Tlvs /\ used + 1 \in 0 .. MaxTlvs
  BY <1>1 DEF Tlvs
<1>3. node' = [node EXCEPT ![used + 1] = o] /\ held' = [held EXCEPT ![used + 1] = 1] /\ used' = used + 1
  BY DEF Fresh
<1>10. Differs(held', held, used + 1, 1)
  BY <1>1, <1>2, <1>3 DEF Differs
<1>11. Differs(node', node, used + 1, o)
  <2>1. node = [t \in Tlvs |-> node[t]]
    BY Now DEF Objects
  <2> QED
    BY <1>2, <1>3, <2>1 DEF Differs
<1>4. held' \in [Tlvs -> Nat] /\ Good(node', held', used + 1) /\ \A t \in Tlvs : node'[t].nested = node[t].nested
  <2>1. ASSUME NEW ms, NEW g, Differs(ms, node, used + 1, o), Differs(g, held, used + 1, 1)
        PROVE  g \in [Tlvs -> Nat] /\ Good(ms, g, used + 1) /\ \A t \in Tlvs : ms[t].nested = node[t].nested
    BY <1>1, <1>2, <2>1, MadeGood, SMTT(30)
  <2> QED
    BY <1>10, <1>11, <2>1
<1>5. used' \in 0 .. MaxTlvs /\ Good(node', held', used')
  BY <1>2, <1>3, <1>4
<1>6. IInv'
  BY <1>4, <1>5, Afterwards
<1>7. \A q \in Tlvs : Children(q)' = Children(q)
  BY <1>4 DEF Children
<1>8. CASE trap' = "none"
  <2>1. call' = Recorded("make", Fresh, 0, 0)
    BY <1>8 DEF Called, Recorded
  <2> QED
    BY <1>6, <1>7, <2>1, KeepStep
<1>9. CASE trap' # "none"
  <2>1. call' = Recorded("trap", Fresh, 0, 0)
    BY <1>9 DEF Called, Recorded
  <2> QED
    BY <1>6, <2>1, TrapStep
<1> QED
  BY <1>6, <1>8, <1>9

LEMMA MakeStep ==
  ASSUME IInv, Untrapped, NEW o, Sound(o), o.refs = 1, o.nested = NewList, NEW b, Make("make", o, b)
  PROVE  IInv' /\ Implements
<1>1. /\ used < MaxTlvs /\ used' = Fresh /\ held' = [held EXCEPT ![Fresh] = 1]
      /\ node' = [node EXCEPT ![Fresh] = o] /\ trap' \in Traps /\ Called("make", Fresh, 0, 0)
  BY DEF Make, Become, Traps
<1> QED
  BY <1>1, AddsOne
LEMMA MadeTypes ==
  \A h \in Made : h.type \in {"RAW", "INT", "TLV"}
BY TlvAssumption

LEMMA ParsedIsSound ==
  ASSUME NEW b, NEW owner
  PROVE  Sound(Parsed(b, owner)) /\ Parsed(b, owner).refs = 1 /\ Parsed(b, owner).nested = NewList
<1> DEFINE h == ReadFirst(b)
           tag == h.tag
           flags == h.flags
           own == owner # Caller
           data == [in |-> owner, at |-> h.size, len |-> h.len]
           o == Object(tag, flags, "RAW", own, data)
<1>1. Parsed(b, owner) = o
  BY DEF Parsed
<1> HIDE DEF tag, flags, own, data
<1>2. "RAW" \in {"RAW", "INT", "TLV"}
  OBVIOUS
<1>3. Sound(o) /\ o.refs = 1 /\ o.nested = NewList
  BY <1>2, ObjectIsSound
<1> HIDE DEF o
<1> QED
  BY <1>1, <1>3

LEMMA CreateStep ==
  ASSUME IInv, Untrapped, Create
  PROVE  IInv' /\ Implements
<1>1. ASSUME NEW h \in Made, New(h) PROVE IInv' /\ Implements
  <2> DEFINE tag == h.tag
             flags == h.flags
             type == h.type
             o == Object(tag, flags, type, FALSE, Nowhere)
  <2>1. Make("make", o, << >>)
    BY <1>1 DEF New
  <2>2. type \in {"RAW", "INT", "TLV"}
    BY MadeTypes
  <2> HIDE DEF tag, flags, type
  <2>3. Sound(o) /\ o.refs = 1 /\ o.nested = NewList
    BY <2>2, ObjectIsSound
  <2> HIDE DEF o
  <2> QED
    BY <2>1, <2>3, MakeStep
<1>2. ASSUME NEW h \in Made, NEW val \in UintValues, FromUint(h, val) PROVE IInv' /\ Implements
  <2> DEFINE tag == h.tag
             flags == h.flags
             data == [in |-> Fresh, at |-> 0, len |-> Len(UintBytes(val))]
             buffer == Padded(UintBytes(val))
             o == Object(tag, flags, "INT", TRUE, data)
  <2>1. Make("make", o, buffer)
    BY <1>2 DEF FromUint
  <2>2. "INT" \in {"RAW", "INT", "TLV"}
    OBVIOUS
  <2> HIDE DEF tag, flags, data, buffer
  <2>3. Sound(o) /\ o.refs = 1 /\ o.nested = NewList
    BY <2>2, ObjectIsSound
  <2> HIDE DEF o
  <2> QED
    BY <2>1, <2>3, MakeStep
<1>3. ASSUME NEW b, ParseBlob(b) PROVE IInv' /\ Implements
  <2> DEFINE o == Parsed(b, Fresh)
  <2>1. Make("make", o, b)
    BY <1>3 DEF ParseBlob
  <2>2. Sound(o) /\ o.refs = 1 /\ o.nested = NewList
    BY ParsedIsSound
  <2> HIDE DEF o
  <2> QED
    BY <2>1, <2>2, MakeStep
<1>4. ASSUME ParseShared PROVE IInv' /\ Implements
  <2> DEFINE o == Parsed(Shared, Caller)
  <2>1. Make("make", o, << >>)
    BY <1>4 DEF ParseShared
  <2>2. Sound(o) /\ o.refs = 1 /\ o.nested = NewList
    BY ParsedIsSound
  <2> HIDE DEF o
  <2> QED
    BY <2>1, <2>2, MakeStep
<1>5. ASSUME NEW b, ParseFails(b) PROVE IInv' /\ Implements
  <2>1. UNCHANGED <<node, mem, held, used, trap, call>>
    BY <1>5 DEF ParseFails, Fails, vars
  <2> QED
    BY <2>1, UnchangedStep
<1>6. ASSUME FromReader PROVE IInv' /\ Implements
  <2>1. CASE ReadFirst(stream).size = 0
    <3>1. UNCHANGED <<node, mem, held, used, trap, call>>
      BY <1>6, <2>1 DEF FromReader
    <3> QED
      BY <3>1, UnchangedStep
  <2>2. CASE ReadFirst(stream).size # 0
    <3> DEFINE h == ReadFirst(stream)
               b == SubSeq(stream, 1, h.size + h.len)
               o == Parsed(b, Fresh)
    <3>1. /\ used < MaxTlvs /\ used' = Fresh /\ held' = [held EXCEPT ![Fresh] = 1]
          /\ Become([node EXCEPT ![Fresh] = o], [mem EXCEPT ![Fresh] = b])
          /\ Called("make", Fresh, 0, 0)
      BY <1>6, <2>2 DEF FromReader
    <3>2. Sound(o) /\ o.refs = 1 /\ o.nested = NewList
      BY ParsedIsSound
    <3> HIDE DEF o, b
    <3>3. node' = [node EXCEPT ![Fresh] = o] /\ trap' \in Traps
      BY <3>1 DEF Become, Traps
    <3> QED
      BY <3>1, <3>2, <3>3, AddsOne
  <2> QED
    BY <2>1, <2>2
<1> QED
  BY <1>1, <1>2, <1>3, <1>4, <1>5, <1>6 DEF Create

LEMMA ValueStep ==
  ASSUME IInv, Untrapped, NEW t \in Alive, NEW v, node' = WithValue(t, v), trap' \in Traps,
         Called("value", t, 0, 0), UNCHANGED <<held, used>>
  PROVE  IInv' /\ Implements
<1>1. /\ used \in Nat /\ used <= MaxTlvs /\ held \in [Tlvs -> Nat] /\ Good(node, held, used) /\ Objects(node)
      /\ MaxTlvs \in Nat /\ t \in Tlvs /\ t <= used
  BY Now
<1>2. /\ node = [u \in Tlvs |-> node[u]] /\ \A u \in Tlvs : Sound(node[u]) /\ u \in Nat
  BY <1>1, Now DEF Objects
<1> DEFINE d == [in |-> t, at |-> 0, len |-> Len(v)]
           r == WithData(node[t], TRUE, d)
<1>3. node' = [node EXCEPT ![t] = r]
  BY <1>1, <1>2 DEF WithValue, WithData
<1> HIDE DEF d
<1>4. Sound(r) /\ r.refs = node[t].refs /\ r.nested = node[t].nested
  <2>1. Sound(node[t])
    BY <1>1, <1>2
  <2> QED
    BY <2>1, Valued
<1> HIDE DEF r
<1>5. node' = [u \in Tlvs |-> node'[u]] /\ \A u \in Tlvs : node'[u] = IF u = t THEN r ELSE node[u]
  BY <1>1, <1>2, <1>3
<1>6. Objects(node')
  <2>1. \A u \in Tlvs : Sound(node'[u])
    BY <1>2, <1>4, <1>5
  <2> QED
    BY <1>5, <2>1 DEF Objects
<1>7. \A u \in Tlvs : /\ node'[u].nested = node[u].nested /\ node'[u].refs + held[u] = node[u].refs + held[u]
                      /\ u > used => node'[u] = node[u]
  BY <1>1, <1>2, <1>4, <1>5
<1>8. Good(node', held, used)
  BY <1>1, <1>6, <1>7, SameGood
<1>9. IInv'
  BY <1>1, <1>8, Afterwards
<1>10. \A q \in Tlvs : Children(q)' = Children(q)
  BY <1>7 DEF Children
<1>11. CASE trap' = "none"
  <2>1. call' = Recorded("value", t, 0, 0)
    BY <1>11 DEF Called, Recorded
  <2> QED
    BY <1>9, <1>10, <2>1, KeepStep
<1>12. CASE trap' # "none"
  <2>1. call' = Recorded("trap", t, 0, 0)
    BY <1>12 DEF Called, Recorded
  <2> QED
    BY <1>9, <2>1, TrapStep
<1> QED
  BY <1>11, <1>12

LEMMA RefStep ==
  ASSUME IInv, Untrapped, NEW t \in Alive, Ref(t)
  PROVE  IInv' /\ Implements
<1>1. /\ used \in Nat /\ used <= MaxTlvs /\ held \in [Tlvs -> Nat] /\ Good(node, held, used) /\ Objects(node)
      /\ MaxTlvs \in Nat /\ t \in Tlvs /\ t <= used
  BY Now
<1>2. /\ node = [u \in Tlvs |-> node[u]] /\ \A u \in Tlvs : Sound(node[u]) /\ u \in Nat /\ node[u].refs \in Nat
  BY <1>1, Now DEF Objects, Sound
<1> DEFINE n == node[t].refs + 1
           r == [node[t] EXCEPT !.refs = n]
<1>3. /\ node' = [node EXCEPT ![t] = r] /\ held' = [held EXCEPT ![t] = held[t] + 1] /\ used' = used
      /\ trap' \in Traps /\ Called("ref", t, 0, 0)
  BY <1>1, <1>2 DEF Ref, Become, Traps
<1>4. n \in Nat /\ n = node[t].refs + 1
  BY <1>1, <1>2
<1> HIDE DEF n
<1>5. Sound(r) /\ r.refs = n /\ r.nested = node[t].nested
  <2>1. Sound(node[t])
    BY <1>1, <1>2
  <2> QED
    BY <1>4, <2>1, RefsChanged
<1> HIDE DEF r
<1>6. node' = [u \in Tlvs |-> node'[u]] /\ \A u \in Tlvs : node'[u] = IF u = t THEN r ELSE node[u]
  BY <1>1, <1>2, <1>3
<1>7. Objects(node')
  <2>1. \A u \in Tlvs : Sound(node'[u])
    BY <1>2, <1>5, <1>6
  <2> QED
    BY <1>6, <2>1 DEF Objects
<1>8. held' \in [Tlvs -> Nat] /\ \A u \in Tlvs : held'[u] = IF u = t THEN held[u] + 1 ELSE held[u]
  BY <1>1, <1>3
<1>9. \A u \in Tlvs : /\ node'[u].nested = node[u].nested /\ node'[u].refs + held[u] = node[u].refs + held'[u]
                      /\ u > used => node'[u] = node[u]
  <2> TAKE u \in Tlvs
  <2>1. CASE u = t
    <3>1. node'[u].refs = node[u].refs + 1 /\ held'[u] = held[u] + 1 /\ node'[u].nested = node[u].nested
      BY <1>4, <1>5, <1>6, <1>8, <2>1
    <3>2. node[u].refs \in Nat /\ held[u] \in Nat
      BY <1>1, <1>2
    <3>3. node'[u].refs + held[u] = node[u].refs + held'[u]
      BY <3>1, <3>2
    <3>4. ~(u > used)
      BY <1>1, <1>2, <2>1
    <3> QED
      BY <3>1, <3>3, <3>4
  <2>2. CASE u # t
    BY <1>6, <1>8, <2>2
  <2> QED
    BY <2>1, <2>2
<1>10. Good(node', held', used)
  BY <1>1, <1>7, <1>8, <1>9, SameGood
<1>11. IInv'
  BY <1>1, <1>3, <1>8, <1>10, Afterwards
<1>12. \A q \in Tlvs : Children(q)' = Children(q)
  BY <1>9 DEF Children
<1>13. CASE trap' = "none"
  <2>1. call' = Recorded("ref", t, 0, 0)
    BY <1>3, <1>13 DEF Called, Recorded
  <2> QED
    BY <1>11, <1>12, <2>1, KeepStep
<1>14. CASE trap' # "none"
  <2>1. call' = Recorded("trap", t, 0, 0)
    BY <1>3, <1>14 DEF Called, Recorded
  <2> QED
    BY <1>11, <2>1, TrapStep
<1> QED
  BY <1>13, <1>14

\* What the client holds when a reference goes or comes.
LEMMA HeldLess ==
  ASSUME held \in [Tlvs -> Nat], NEW c \in Tlvs, held[c] > 0, held' = [held EXCEPT ![c] = @ - 1]
  PROVE  /\ held' \in [Tlvs -> Nat]
         /\ \A u \in Tlvs : held[u] = held'[u] + (IF u = c THEN 1 ELSE 0) /\ held'[u] \in Nat
<1>1. held' = [held EXCEPT ![c] = held[c] - 1] /\ held[c] \in Nat /\ held[c] - 1 \in Nat
  OBVIOUS
<1> QED
  BY <1>1

LEMMA HeldMore ==
  ASSUME held \in [Tlvs -> Nat], NEW c \in Tlvs, held' = [held EXCEPT ![c] = @ + 1]
  PROVE  /\ held' \in [Tlvs -> Nat]
         /\ \A u \in Tlvs : held'[u] = held[u] + (IF u = c THEN 1 ELSE 0) /\ held'[u] \in Nat
<1>1. held' = [held EXCEPT ![c] = held[c] + 1] /\ held[c] \in Nat /\ held[c] + 1 \in Nat
  OBVIOUS
<1> QED
  BY <1>1

LEMMA FreeStep ==
  ASSUME IInv, Untrapped, NEW t \in Alive, Free(t)
  PROVE  IInv' /\ Implements
<1>1. /\ used \in Nat /\ used <= MaxTlvs /\ held \in [Tlvs -> Nat] /\ Good(node, held, used)
      /\ Objects(node) /\ Acyclic(node) /\ MaxTlvs \in Nat /\ t \in Tlvs
      /\ \A u \in Tlvs : u > used => node[u] = Gone
  BY Now
<1>2. /\ held[t] > 0 /\ held' = [held EXCEPT ![t] = @ - 1] /\ node' = Freed(node, << t >>)
      /\ trap' \in Traps /\ Called("free", t, 0, 0) /\ used' = used
  BY DEF Free, Become, Traps
<1>3. held' \in [Tlvs -> Nat] /\ \A u \in Tlvs : held[u] = held'[u] + (IF u = t THEN 1 ELSE 0) /\ held'[u] \in Nat
  BY <1>1, <1>2, HeldLess
<1>4. Balanced(node, held', << t >>)
  <2> SUFFICES ASSUME NEW u \in Tlvs PROVE node[u].refs = held'[u] + Count(u, << t >>) + References(node, u, Tlvs)
    BY DEF Balanced
  <2>1. node[u].refs = held[u] + References(node, u, Tlvs)
    BY <1>1, GoodIs
  <2>2. held[u] = held'[u] + Count(u, << t >>)
    BY <1>3, CountOfOne
  <2> QED
    BY <2>1, <2>2
<1>5. << t >> \in Seq(Tlvs)
  BY <1>1
<1>6. /\ Good(Freed(node, << t >>), held', used)
      /\ \A u \in Tlvs : Freed(node, << t >>)[u].nested \in {node[u].nested, NewList}
  BY <1>1, <1>3, <1>4, <1>5, FreedGood
<1>7. Good(node', held', used') /\ \A u \in Tlvs : node'[u].nested \in {node[u].nested, NewList}
  BY <1>2, <1>6
<1>8. IInv'
  BY <1>1, <1>2, <1>3, <1>7, Afterwards
<1>9. \A q \in Tlvs : Children(q)' \in {Children(q), << >>}
  BY <1>7, EmptyList DEF Children
<1>10. CASE trap' = "none"
  <2>1. call' = Recorded("free", t, 0, 0)
    BY <1>2, <1>10 DEF Called, Recorded
  <2> QED
    BY <1>1, <1>8, <1>9, <2>1, CollapseStep
<1>11. CASE trap' # "none"
  <2>1. call' = Recorded("trap", t, 0, 0)
    BY <1>2, <1>11 DEF Called, Recorded
  <2> QED
    BY <1>8, <2>1, TrapStep
<1> QED
  BY <1>10, <1>11

-----------------------------------------------------------------------------
(* The calls on the list of nested TLVs.                                   *)

LEMMA Listing ==
  ASSUME IInv, Untrapped, NEW p \in Alive
  PROVE  /\ p \in Tlvs /\ Sound(node[p]) /\ node[p].nested \in Lists
         /\ Children(p) = Elements(node[p].nested) /\ Children(p) \in Seq(Tlvs)
         /\ Len(Children(p)) = node[p].nested.len /\ node[p].nested.len \in Nat
         /\ \A i \in 1 .. node[p].nested.len : Children(p)[i] = node[p].nested.arr[i]
<1>1. p \in Tlvs /\ Objects(node)
  BY Now
<1>2. Sound(node[p]) /\ node[p].nested \in Lists
  BY <1>1 DEF Objects, Sound
<1> QED
  BY <1>1, <1>2, ElementsAre DEF Children, Lists

\* p has the list l from now on, and the references it takes up or gives back are those
\* of the client and of ts.
LEMMA Relisted ==
  ASSUME IInv, Untrapped, NEW p \in Alive, NEW l \in Lists, l.len > 0 => node[p].type = "TLV",
         held' \in [Tlvs -> Nat], NEW ts \in Seq(Tlvs),
         \A u \in Tlvs : held[u] + Count(u, Children(p)) = held'[u] + Count(u, ts) + Count(u, Elements(l))
  PROVE  /\ Objects(WithList(p, l)) /\ Balanced(WithList(p, l), held', ts)
         /\ WithList(p, l)[p].nested = l
         /\ \A t \in Tlvs : /\ t # p => WithList(p, l)[t] = node[t]
                            /\ t > used => WithList(p, l)[t] = Gone
<1> DEFINE ms == WithList(p, l)
<1>1. /\ used \in Nat /\ held \in [Tlvs -> Nat] /\ Good(node, held, used) /\ Objects(node)
      /\ p \in Tlvs /\ p <= used /\ \A t \in Tlvs : t \in Nat /\ (t > used => node[t] = Gone)
  BY Now
<1>2. /\ Objects(ms) /\ ms[p].nested = l
      /\ \A t \in Tlvs : ms[t].refs = node[t].refs /\ (t # p => ms[t] = node[t])
  BY <1>1, WithListIs
<1> HIDE DEF ms
<1>3. Balanced(ms, held', ts)
  <2>1. OnlyList(ms, node, p)
    BY <1>2 DEF OnlyList
  <2>2. Settled(ms, node, held', held, p, ts)
    BY <1>2 DEF Children, Settled
  <2> QED
    BY <1>1, <1>2, <2>1, <2>2, ListBalance
<1>4. ASSUME NEW t \in Tlvs, t > used PROVE ms[t] = Gone
  <2>1. t # p /\ node[t] = Gone
    BY <1>1, <1>4
  <2> QED
    BY <1>2, <2>1
<1> QED
  BY <1>2, <1>3, <1>4 DEF ms

\* c comes under p, and nothing else.
LEMMA LinkedAcyclic ==
  ASSUME IInv, Untrapped, NEW p \in Alive, NEW c \in Tlvs, p \notin Below(c), NEW ms,
         \A t \in Tlvs : t # p => ms[t] = node[t],
         Kids(ms, p) \subseteq Kids(node, p) \cup {c}
  PROVE  Acyclic(ms)
<1>1. /\ used \in Nat /\ held \in [Tlvs -> Nat] /\ Good(node, held, used) /\ Acyclic(node)
  BY Now
<1>2. \A t \in Tlvs : Kids(node, t) \subseteq Tlvs
  BY <1>1, GoodIs
<1>3. Below(c) \in SUBSET Tlvs /\ c \in Below(c) /\ \A t \in Below(c) : Kids(node, t) \subseteq Below(c)
  BY <1>2, BelowIs
<1>4. \A t \in Tlvs : Kids(ms, t) \subseteq Kids(node, t) \cup (IF t = p THEN {c} ELSE {})
  BY DEF Kids
<1> QED
  BY <1>1, <1>3, <1>4, AcyclicLinks

\* Freeing what was nested in p leaves p.
LEMMA Survives ==
  ASSUME IInv, Untrapped, NEW p \in Alive, NEW k \in Kids(node, p), NEW ms, Objects(ms),
         \A t \in Tlvs : t # p => ms[t] = node[t]
  PROVE  p \notin Dying(ms, << k >>)
<1>1. /\ used \in Nat /\ held \in [Tlvs -> Nat] /\ Good(node, held, used) /\ Acyclic(node) /\ p \in Tlvs
  BY Now
<1>2. \A t \in Tlvs : Kids(node, t) \subseteq Tlvs
  BY <1>1, GoodIs
<1>3. k \in Tlvs
  BY <1>1, <1>2
<1>4. Below(k) \in SUBSET Tlvs /\ k \in Below(k) /\ \A t \in Below(k) : Kids(node, t) \subseteq Below(k)
  BY <1>2, <1>3, BelowIs
<1>5. p \notin Below(k)
  BY <1>1, <1>2, NotBelowItself
<1>6. \A t \in Below(k) : Kids(ms, t) \subseteq Below(k)
  BY <1>4, <1>5 DEF Kids
<1>7. << k >> \in Seq(Tlvs) /\ ToSet(<< k >>) \subseteq Below(k)
  BY <1>3, <1>4 DEF ToSet
<1>8. Dying(ms, << k >>) \subseteq Below(k)
  BY <1>4, <1>6, <1>7, DyingBelow
<1> QED
  BY <1>5, <1>8

LEMMA AppendingStep ==
  ASSUME IInv, Untrapped, NEW p \in Alive, NEW c \in Owned, AppendNestedTlv(p, c)
  PROVE  IInv' /\ Implements
<1>1. CASE node[p].type # "TLV"
  BY <1>1, UnchangedStep DEF AppendNestedTlv, Fails, vars
<1>2. CASE node[p].type = "TLV"
  <2> DEFINE l == AppendElement(node[p].nested, c)
             ms == WithList(p, l)
  <2>1. /\ p \notin Below(c) /\ held' = [held EXCEPT ![c] = @ - 1] /\ node' = ms
        /\ trap' \in Traps /\ used' = used /\ Called("append", p, 0, c)
    BY <1>2 DEF AppendNestedTlv, Given, Become, Traps
  <2>2. /\ used \in Nat /\ used <= MaxTlvs /\ MaxTlvs \in Nat /\ held \in [Tlvs -> Nat]
    BY Now
  <2>3. c \in Tlvs /\ held[c] > 0
    BY DEF Owned
  <2>4. held' \in [Tlvs -> Nat] /\ \A u \in Tlvs : held[u] = held'[u] + (IF u = c THEN 1 ELSE 0) /\ held'[u] \in Nat
    BY <2>1, <2>2, <2>3, HeldLess
  <2>5. p \in Tlvs /\ node[p].nested \in Lists /\ Children(p) = Elements(node[p].nested) /\ Children(p) \in Seq(Tlvs)
    BY Listing
  <2>6. l \in Lists /\ Elements(l) = Append(Children(p), c)
    BY <2>3, <2>5, AppendKeeps
  <2> HIDE DEF l
  <2>7. << >> \in Seq(Tlvs)
    OBVIOUS
  <2>8. ASSUME NEW u \in Tlvs
        PROVE  held[u] + Count(u, Children(p)) = held'[u] + Count(u, << >>) + Count(u, Elements(l))
    <3>1. Count(u, Append(Children(p), c)) = Count(u, Children(p)) + (IF u = c THEN 1 ELSE 0)
      BY <2>3, <2>5, CountOfAppend
    <3>2. Count(u, << >>) = 0 /\ Count(u, Children(p)) \in Nat
      BY <2>5, CountOfNone, CountIs
    <3> QED
      BY <2>4, <2>6, <3>1, <3>2
  <2>9. /\ Objects(ms) /\ Balanced(ms, held', << >>) /\ ms[p].nested = l
        /\ \A t \in Tlvs : (t # p => ms[t] = node[t]) /\ (t > used => ms[t] = Gone)
    BY <1>2, <2>4, <2>6, <2>7, <2>8, Relisted
  <2> HIDE DEF ms
  <2>10. Kids(ms, p) \subseteq Kids(node, p) \cup {c}
    <3>1. Elements(ms[p].nested) = Append(Elements(node[p].nested), c) /\ Elements(node[p].nested) \in Seq(Tlvs)
      BY <2>5, <2>6, <2>9
    <3> QED
      BY <2>3, <3>1 DEF Kids, ToSet
  <2>11. Acyclic(ms)
    BY <2>1, <2>3, <2>9, <2>10, LinkedAcyclic
  <2>12. Good(node', held', used')
    BY <2>1, <2>9, <2>11 DEF Good
  <2>13. IInv'
    BY <2>1, <2>2, <2>4, <2>12, Afterwards
  <2>14. Children(p)' = Append(Children(p), c) /\ OthersKeep(p)
    BY <2>1, <2>5, <2>6, <2>9 DEF Children, OthersKeep
  <2>15. CASE trap' = "none"
    <3>1. call' = Recorded("append", p, 0, c)
      BY <2>1, <2>15 DEF Called, Recorded
    <3> QED
      BY <2>5, <2>13, <2>14, <3>1, AppendStep
  <2>16. CASE trap' # "none"
    <3>1. call' = Recorded("trap", p, 0, c)
      BY <2>1, <2>16 DEF Called, Recorded
    <3> QED
      BY <2>13, <3>1, TrapStep
  <2> QED
    BY <2>15, <2>16
<1> QED
  BY <1>1, <1>2

\* Whatever is freed from the list of p, p keeps the rest of it.
LEMMA ListAfterFree ==
  ASSUME IInv, Untrapped, NEW p \in Alive, NEW k \in Kids(node, p), NEW l \in Lists, NEW ms,
         Objects(ms), Acyclic(ms), ms[p].nested = l,
         \A t \in Tlvs : (t # p => ms[t] = node[t]) /\ (t > used => ms[t] = Gone),
         held' \in [Tlvs -> Nat], Balanced(ms, held', << k >>),
         node' = Freed(ms, << k >>), used' = used, trap' \in Traps
  PROVE  IInv' /\ Children(p)' = Elements(l) /\ OthersKeep(p)
<1>1. /\ used \in Nat /\ used <= MaxTlvs /\ MaxTlvs \in Nat /\ held \in [Tlvs -> Nat]
      /\ Good(node, held, used) /\ p \in Tlvs
  BY Now
<1>2. k \in Tlvs
  BY <1>1, GoodIs
<1>3. << k >> \in Seq(Tlvs)
  BY <1>2
<1>4. /\ Good(Freed(ms, << k >>), held', used)
      /\ \A t \in Tlvs : Freed(ms, << k >>)[t].nested \in {ms[t].nested, NewList}
  BY <1>1, <1>3, FreedGood
<1>5. Good(node', held', used') /\ \A t \in Tlvs : node'[t].nested \in {ms[t].nested, NewList}
  BY <1>4
<1>6. IInv'
  BY <1>1, <1>5, Afterwards
<1>7. p \notin Dying(ms, << k >>)
  BY Survives
<1>8. node'[p].nested = l
  <2>1. \A u \in Tlvs \ Dying(ms, << k >>) : Freed(ms, << k >>)[u].nested = ms[u].nested
    BY <1>3, FreedIs
  <2> QED
    BY <1>1, <1>7, <2>1
<1>9. OthersKeep(p)
  <2>1. \A q \in Tlvs \ {p} : node'[q].nested \in {node[q].nested, NewList}
    BY <1>5
  <2> QED
    BY <2>1, EmptyList DEF OthersKeep, Children
<1> QED
  BY <1>6, <1>8, <1>9 DEF Children

LEMMA ReplacingStep ==
  ASSUME IInv, Untrapped, NEW p \in Alive, NEW pos \in 1 .. node[p].nested.len, NEW c \in Owned,
         ReplaceAt1(p, pos, c)
  PROVE  IInv' /\ Implements
<1> DEFINE l == ReplaceElementAt(node[p].nested, pos, c)
           ms == WithList(p, l)
           old == Replaced(node[p].nested, pos)
<1>1. /\ p \notin Below(c) /\ held' = [held EXCEPT ![c] = @ - 1] /\ node' = Freed(ms, << old >>)
      /\ trap' \in Traps /\ used' = used /\ Called("replaceAt", p, pos, c)
  BY DEF ReplaceAt1, Given, Become, Traps
<1>2. used \in Nat /\ held \in [Tlvs -> Nat] /\ Good(node, held, used)
  BY Now
<1>3. c \in Tlvs /\ held[c] > 0
  BY DEF Owned
<1>4. held' \in [Tlvs -> Nat] /\ \A u \in Tlvs : held[u] = held'[u] + (IF u = c THEN 1 ELSE 0) /\ held'[u] \in Nat
  BY <1>1, <1>2, <1>3, HeldLess
<1>5. /\ p \in Tlvs /\ node[p].nested \in Lists /\ Children(p) = Elements(node[p].nested) /\ Children(p) \in Seq(Tlvs)
      /\ Len(Children(p)) = node[p].nested.len /\ node[p].nested.len \in Nat
      /\ \A i \in 1 .. node[p].nested.len : Children(p)[i] = node[p].nested.arr[i]
  BY Listing
<1>6. l \in Lists /\ Elements(l) = [Children(p) EXCEPT ![pos] = c]
  BY <1>3, <1>5, ReplaceKeeps
<1>7. old = Children(p)[pos] /\ old \in Tlvs /\ old \in Kids(node, p)
  <2>1. old = Children(p)[pos] /\ pos \in DOMAIN Children(p)
    BY <1>5 DEF Replaced
  <2> QED
    BY <1>5, <2>1 DEF Kids, ToSet
<1>8. node[p].type = "TLV"
  BY <1>5, Listing DEF Sound
<1> HIDE DEF l, old
<1>9. << old >> \in Seq(Tlvs)
  BY <1>7
<1>10. ASSUME NEW u \in Tlvs
       PROVE  held[u] + Count(u, Children(p)) = held'[u] + Count(u, << old >>) + Count(u, Elements(l))
  <2>1. Count(u, [Children(p) EXCEPT ![pos] = c]) + (IF u = Children(p)[pos] THEN 1 ELSE 0)
          = Count(u, Children(p)) + (IF u = c THEN 1 ELSE 0)
    <3>1. pos \in 1 .. Len(Children(p))
      BY <1>5
    <3> QED
      BY <1>3, <1>5, <3>1, CountOfReplace
  <2>2. Count(u, << old >>) = IF u = Children(p)[pos] THEN 1 ELSE 0
    BY <1>7, CountOfOne
  <2>3. Count(u, Children(p)) \in Nat /\ Count(u, Elements(l)) \in Nat
    <3>1. Elements(l) \in Seq(Tlvs)
      BY <1>6, ElementsAre
    <3> QED
      BY <1>5, <3>1, CountIs
  <2>4. Count(u, Elements(l)) + (IF u = Children(p)[pos] THEN 1 ELSE 0)
          = Count(u, Children(p)) + (IF u = c THEN 1 ELSE 0)
    BY <1>6, <2>1
  <2>5. held[u] = held'[u] + (IF u = c THEN 1 ELSE 0) /\ held'[u] \in Nat
    BY <1>4
  <2> QED
    BY <2>2, <2>3, <2>4, <2>5
<1>11. /\ Objects(ms) /\ Balanced(ms, held', << old >>) /\ ms[p].nested = l
       /\ \A t \in Tlvs : (t # p => ms[t] = node[t]) /\ (t > used => ms[t] = Gone)
  BY <1>4, <1>6, <1>8, <1>9, <1>10, Relisted, ZenonT(60)
<1> HIDE DEF ms
<1>12. Kids(ms, p) \subseteq Kids(node, p) \cup {c}
  <2>1. Elements(ms[p].nested) = [Elements(node[p].nested) EXCEPT ![pos] = c]
        /\ Elements(node[p].nested) \in Seq(Tlvs)
    BY <1>5, <1>6, <1>11
  <2> QED
    BY <1>3, <2>1 DEF Kids, ToSet
<1>13. Acyclic(ms)
  BY <1>1, <1>3, <1>11, <1>12, LinkedAcyclic
<1>14. IInv' /\ Children(p)' = Elements(l) /\ OthersKeep(p)
  <2>1. \A ms1 : /\ Objects(ms1) /\ Acyclic(ms1) /\ ms1[p].nested = l
                 /\ \A t \in Tlvs : (t # p => ms1[t] = node[t]) /\ (t > used => ms1[t] = Gone)
                 /\ Balanced(ms1, held', << old >>) /\ node' = Freed(ms1, << old >>)
                 => IInv' /\ Children(p)' = Elements(l) /\ OthersKeep(p)
    BY <1>1, <1>4, <1>6, <1>7, ListAfterFree
  <2> QED
    BY <1>1, <1>11, <1>13, <2>1
<1>15. CASE trap' = "none"
  <2>1. call' = Recorded("replaceAt", p, pos, c)
    BY <1>1, <1>15 DEF Called, Recorded
  <2>2. Children(p)' = [Children(p) EXCEPT ![pos] = c]
    BY <1>6, <1>14
  <2> QED
    BY <1>5, <1>14, <2>1, <2>2, ReplaceStep
<1>16. CASE trap' # "none"
  <2>1. call' = Recorded("trap", p, pos, c)
    BY <1>1, <1>16 DEF Called, Recorded
  <2> QED
    BY <1>14, <2>1, TrapStep
<1> QED
  BY <1>15, <1>16

LEMMA ReplaceNestedStep ==
  ASSUME IInv, Untrapped, NEW p \in Alive, NEW c \in Owned, NEW old, ReplaceNestedTlv(p, old, c)
  PROVE  IInv' /\ Implements
<1> DEFINE pos == IndexOf(node[p].nested, old)
<1>1. CASE node[p].type # "TLV" \/ pos = Null
  BY <1>1, UnchangedStep DEF ReplaceNestedTlv, Fails, vars
<1>2. CASE ~(node[p].type # "TLV" \/ pos = Null)
  <2>1. ReplaceAt1(p, pos, c)
    BY <1>2 DEF ReplaceNestedTlv
  <2>3. pos \in 1 .. node[p].nested.len
    BY <1>2 DEF IndexOf
  <2> HIDE DEF pos
  <2> QED
    BY <2>1, <2>3, ReplacingStep
<1> QED
  BY <1>1, <1>2

LEMMA ListReplaceStep ==
  ASSUME IInv, Untrapped, NEW p \in Alive, NEW pos \in 1 .. MaxTlvs, NEW c \in Owned, ListReplaceAt(p, pos, c)
  PROVE  IInv' /\ Implements
<1>1. MaxTlvs \in Nat /\ node[p].nested.len \in Nat
  BY Now, Listing
<1>2. CASE pos <= node[p].nested.len
  <2>1. ReplaceAt1(p, pos, c)
    BY <1>2 DEF ListReplaceAt
  <2>2. pos \in 1 .. node[p].nested.len
    BY <1>1, <1>2
  <2> QED
    BY <2>1, <2>2, ReplacingStep
<1>3. CASE ~(pos <= node[p].nested.len)
  <2>1. /\ held' = [held EXCEPT ![c] = @ - 1] /\ trap' = "behind" /\ Called("replaceAt", p, pos, c)
        /\ node' = node /\ used' = used
    BY <1>3 DEF ListReplaceAt, Given
  <2>2. held \in [Tlvs -> Nat] /\ c \in Tlvs /\ held[c] > 0
    BY Now DEF Owned
  <2>3. held' \in [Tlvs -> Nat]
    BY <2>1, <2>2, HeldLess
  <2>4. TypeOK
    BY DEF IInv
  <2>5. TypeOK'
    BY <2>1, <2>3, <2>4 DEF TypeOK, Live
  <2>6. IInv'
    BY <2>1, <2>5 DEF IInv, Untrapped
  <2>7. call' = Recorded("trap", p, pos, c)
    BY <2>1 DEF Called, Recorded
  <2> QED
    BY <2>6, <2>7, TrapStep
<1> QED
  BY <1>2, <1>3

LEMMA InsertingStep ==
  ASSUME IInv, Untrapped, NEW p \in Alive, NEW pos \in 1 .. MaxTlvs, NEW c \in Owned, ListInsertAt(p, pos, c)
  PROVE  IInv' /\ Implements
<1> DEFINE l == InsertElementAt(node[p].nested, pos, c)
           ms == WithList(p, l)
<1>1. /\ node[p].nested.len > 0 /\ pos <= node[p].nested.len + 1 /\ p \notin Below(c)
      /\ held' = [held EXCEPT ![c] = @ - 1] /\ node' = ms /\ used' = used
      /\ trap' = IF node[p].nested.len > pos THEN "insert" ELSE "none"
      /\ Called("insertAt", p, pos, c)
  BY DEF ListInsertAt, InsertAllowed, Given
<1>2. /\ used \in Nat /\ used <= MaxTlvs /\ MaxTlvs \in Nat /\ held \in [Tlvs -> Nat] /\ Objects(node)
  BY Now
<1>3. c \in Tlvs /\ held[c] > 0
  BY DEF Owned
<1>4. held' \in [Tlvs -> Nat] /\ \A u \in Tlvs : held[u] = held'[u] + (IF u = c THEN 1 ELSE 0) /\ held'[u] \in Nat
  BY <1>1, <1>2, <1>3, HeldLess
<1>5. /\ p \in Tlvs /\ node[p].nested \in Lists /\ Children(p) = Elements(node[p].nested) /\ Children(p) \in Seq(Tlvs)
      /\ node[p].nested.len \in Nat /\ Len(Children(p)) = node[p].nested.len
  BY Listing
<1>6. node[p].type = "TLV"
  BY <1>1, Listing DEF Sound
<1>7. pos \in 1 .. node[p].nested.len + 1
  BY <1>1, <1>2, <1>5
<1>8. l \in Lists /\ (node[p].nested.len <= pos => Elements(l) = InsertAt(Children(p), pos, c))
  BY <1>3, <1>5, <1>7, InsertKeeps
<1> HIDE DEF l
<1>9. CASE node[p].nested.len > pos
  <2>1. /\ Objects(ms) /\ \A t \in Tlvs : ms[t].refs = node[t].refs
    BY <1>2, <1>5, <1>6, <1>8, WithListIs
  <2> HIDE DEF ms
  <2>2. TypeOK
    BY DEF IInv
  <2>3. \A t \in Tlvs : Sound(node'[t]) /\ node'[t].refs = node[t].refs /\ (node[t].refs > 0 => t <= used)
    BY <1>1, <2>1, <2>2 DEF Objects, TypeOK, Live
  <2>4. \A t \in Tlvs :
          /\ node'[t].type \in {"RAW", "INT", "TLV"} /\ node'[t].refs \in Nat /\ (node'[t].refs > 0 => t <= used')
          /\ node'[t].nested.len \in 0..Len(node'[t].nested.arr)
          /\ node'[t].nested.len > 0 => node'[t].type = "TLV"
    BY <1>1, <2>3 DEF Sound, Lists
  <2>5. TypeOK'
    BY <1>1, <1>2, <1>4, <1>9, <2>4 DEF TypeOK, Live
  <2>6. IInv'
    BY <1>1, <1>9, <2>5 DEF IInv, Untrapped
  <2>7. call' = Recorded("trap", p, pos, c)
    BY <1>1, <1>9 DEF Called, Recorded
  <2> QED
    BY <2>6, <2>7, TrapStep
<1>10. CASE ~(node[p].nested.len > pos)
  <2>0. Elements(l) = InsertAt(Children(p), pos, c) /\ trap' = "none"
    BY <1>1, <1>2, <1>5, <1>8, <1>10
  <2>1. << >> \in Seq(Tlvs) /\ pos \in 1 .. Len(Children(p)) + 1
    BY <1>5, <1>7
  <2>2. ASSUME NEW u \in Tlvs
        PROVE  held[u] + Count(u, Children(p)) = held'[u] + Count(u, << >>) + Count(u, Elements(l))
    <3>1. Count(u, InsertAt(Children(p), pos, c)) = Count(u, Children(p)) + (IF u = c THEN 1 ELSE 0)
      BY <1>3, <1>5, <2>1, CountOfInsert
    <3>2. Count(u, << >>) = 0 /\ Count(u, Children(p)) \in Nat
      BY <1>5, CountOfNone, CountIs
    <3> QED
      BY <1>4, <2>0, <3>1, <3>2
  <2>3. /\ Objects(ms) /\ Balanced(ms, held', << >>) /\ ms[p].nested = l
        /\ \A t \in Tlvs : (t # p => ms[t] = node[t]) /\ (t > used => ms[t] = Gone)
    BY <1>4, <1>6, <1>8, <2>1, <2>2, Relisted
  <2> HIDE DEF ms
  <2>4. Kids(ms, p) \subseteq Kids(node, p) \cup {c}
    <3>1. Elements(ms[p].nested) = InsertAt(Children(p), pos, c)
      BY <2>0, <2>3
    <3>2. /\ InsertAt(Children(p), pos, c) \in Seq(Tlvs)
          /\ Len(InsertAt(Children(p), pos, c)) = Len(Children(p)) + 1
          /\ \A i \in 1 .. Len(Children(p)) + 1 :
               InsertAt(Children(p), pos, c)[i]
                 = IF i < pos THEN Children(p)[i] ELSE IF i = pos THEN c ELSE Children(p)[i - 1]
      <4>1. PICK s : s = Children(p)
        OBVIOUS
      <4>2. s \in Seq(Tlvs) /\ pos \in 1 .. Len(s) + 1
        BY <1>5, <2>1, <4>1
      <4>3. /\ InsertAt(s, pos, c) \in Seq(Tlvs)
            /\ Len(InsertAt(s, pos, c)) = Len(s) + 1
            /\ \A i \in 1 .. Len(s) + 1 :
                 InsertAt(s, pos, c)[i] = IF i < pos THEN s[i] ELSE IF i = pos THEN c ELSE s[i - 1]
        BY <1>3, <4>2, InsertedAt, SMTT(30)
      <4> QED
        BY <4>1, <4>3
    <3> SUFFICES ASSUME NEW i \in 1 .. Len(Children(p)) + 1
                 PROVE  InsertAt(Children(p), pos, c)[i] \in ToSet(Children(p)) \cup {c}
      BY <1>5, <3>1, <3>2 DEF Kids, ToSet
    <3>3. i < pos => i \in 1 .. Len(Children(p))
      BY <1>5, <2>1
    <3>4. ~(i < pos) /\ i # pos => i - 1 \in 1 .. Len(Children(p))
      BY <1>5, <2>1
    <3>5. \A k \in 1 .. Len(Children(p)) : Children(p)[k] \in ToSet(Children(p))
      BY <1>5 DEF ToSet
    <3> QED
      BY <3>2, <3>3, <3>4, <3>5
  <2>5. Acyclic(ms)
    BY <1>1, <1>3, <2>3, <2>4, LinkedAcyclic
  <2>6. Good(node', held', used')
    BY <1>1, <2>3, <2>5 DEF Good
  <2>7. used' \in 0 .. MaxTlvs /\ trap' \in Traps
    BY <1>1, <1>2, <2>0 DEF Traps
  <2>8. IInv'
    BY <1>4, <2>6, <2>7, Afterwards
  <2>9. Children(p)' = InsertAt(Children(p), pos, c) /\ OthersKeep(p)
    BY <1>1, <1>5, <2>0, <2>3 DEF Children, OthersKeep
  <2>10. call' = Recorded("insertAt", p, pos, c)
    BY <1>1, <2>0 DEF Called, Recorded
  <2> QED
    BY <1>5, <2>8, <2>9, <2>10, InsertStep
<1> QED
  BY <1>9, <1>10

\* What the client takes out it owns, the rest is freed.
LEMMA TakingStep ==
  ASSUME IInv, Untrapped, NEW p \in Alive, NEW pos \in 1 .. node[p].nested.len, NEW out \in BOOLEAN,
         ListRemove(p, pos, out)
  PROVE  IInv' /\ Implements
<1> DEFINE l == RemoveElement(node[p].nested, pos)
           c == ElementAt(node[p].nested, pos)
           ms == WithList(p, l)
<1>1. /\ IF out THEN held' = [held EXCEPT ![c] = @ + 1] /\ node' = ms
               ELSE held' = held /\ node' = Freed(ms, << c >>)
      /\ trap' \in Traps /\ used' = used /\ Called("remove", p, pos, 0)
  BY DEF ListRemove, Become, Traps
<1>2. used \in Nat /\ used <= MaxTlvs /\ held \in [Tlvs -> Nat] /\ MaxTlvs \in Nat /\ Acyclic(node)
  BY Now
<1>3. /\ p \in Tlvs /\ node[p].nested \in Lists /\ Children(p) = Elements(node[p].nested) /\ Children(p) \in Seq(Tlvs)
      /\ Len(Children(p)) = node[p].nested.len /\ node[p].nested.len \in Nat
      /\ \A i \in 1 .. node[p].nested.len : Children(p)[i] = node[p].nested.arr[i]
  BY Listing
<1>4. l \in Lists /\ Elements(l) = RemoveAt(Children(p), pos)
  BY <1>3, RemoveKeeps
<1>5. c = Children(p)[pos] /\ c \in Tlvs /\ c \in Kids(node, p) /\ pos \in 1 .. Len(Children(p))
  <2>1. c = Children(p)[pos] /\ pos \in DOMAIN Children(p)
    BY <1>3 DEF ElementAt
  <2> QED
    BY <1>3, <2>1 DEF Kids, ToSet
<1>6. node[p].type = "TLV"
  BY <1>3, Listing DEF Sound
<1> HIDE DEF l, c
<1> DEFINE ts == IF out THEN << >> ELSE << c >>
<1>7. ts \in Seq(Tlvs) /\ held' \in [Tlvs -> Nat]
      /\ \A u \in Tlvs : held'[u] + Count(u, ts) = held[u] + (IF u = c THEN 1 ELSE 0) /\ held'[u] \in Nat
  <2>1. CASE out
    <3>1. held' \in [Tlvs -> Nat]
          /\ \A u \in Tlvs : held'[u] = held[u] + (IF u = c THEN 1 ELSE 0) /\ held'[u] \in Nat
      BY <1>1, <1>2, <1>5, <2>1, HeldMore
    <3> QED
      BY <2>1, <3>1, CountOfNone
  <2>2. CASE ~out
    <3>1. held' = held /\ << c >> \in Seq(Tlvs)
      BY <1>1, <1>5, <2>2
    <3> QED
      BY <1>2, <2>2, <3>1, CountOfOne
  <2> QED
    BY <2>1, <2>2
<1>8. ASSUME NEW u \in Tlvs
      PROVE  held[u] + Count(u, Children(p)) = held'[u] + Count(u, ts) + Count(u, Elements(l))
  <2>1. Count(u, RemoveAt(Children(p), pos)) + (IF u = c THEN 1 ELSE 0) = Count(u, Children(p))
    <3>1. Count(u, RemoveAt(Children(p), pos)) + (IF u = Children(p)[pos] THEN 1 ELSE 0) = Count(u, Children(p))
      BY <1>3, <1>5, CountOfRemove
    <3> QED
      BY <1>5, <3>1
  <2>2. Count(u, Elements(l)) \in Nat /\ Count(u, ts) \in Nat /\ held[u] \in Nat
    <3>1. Elements(l) \in Seq(Tlvs)
      BY <1>4, ElementsAre
    <3> QED
      BY <1>2, <1>7, <3>1, CountIs
  <2>3. held'[u] + Count(u, ts) = held[u] + (IF u = c THEN 1 ELSE 0) /\ held'[u] \in Nat
    BY <1>7
  <2> HIDE DEF ts
  <2> QED
    BY <1>4, <2>1, <2>2, <2>3
<1>9. /\ Objects(ms) /\ Balanced(ms, held', ts) /\ ms[p].nested = l
      /\ \A t \in Tlvs : (t # p => ms[t] = node[t]) /\ (t > used => ms[t] = Gone)
  <2> HIDE DEF ts
  <2> QED
    BY <1>4, <1>6, <1>7, <1>8, Relisted
<1> HIDE DEF ms
<1>10. Kids(ms, p) \subseteq Kids(node, p)
  <2>1. /\ RemoveAt(Children(p), pos) \in Seq(Tlvs) /\ Len(RemoveAt(Children(p), pos)) = Len(Children(p)) - 1
        /\ \A i \in 1 .. Len(Children(p)) - 1 :
             RemoveAt(Children(p), pos)[i] = IF i < pos THEN Children(p)[i] ELSE Children(p)[i + 1]
    BY <1>3, <1>5, RemovedAt
  <2> SUFFICES ASSUME NEW i \in 1 .. Len(Children(p)) - 1
               PROVE  RemoveAt(Children(p), pos)[i] \in ToSet(Children(p))
    BY <1>3, <1>4, <1>9, <2>1 DEF Kids, ToSet
  <2>2. i \in 1 .. Len(Children(p)) /\ i + 1 \in 1 .. Len(Children(p))
    BY <1>3
  <2>3. \A k \in 1 .. Len(Children(p)) : Children(p)[k] \in ToSet(Children(p))
    BY <1>3 DEF ToSet
  <2> QED
    BY <2>1, <2>2, <2>3
<1>11. Acyclic(ms)
  <2>1. \A t \in Tlvs : Kids(ms, t) \subseteq Kids(node, t)
    BY <1>9, <1>10 DEF Kids
  <2> QED
    BY <1>2, <2>1, AcyclicShrinks
<1>12. IInv' /\ Children(p)' = Elements(l) /\ OthersKeep(p)
  <2>1. CASE out
    <3>1. Good(node', held', used')
      BY <1>1, <1>9, <1>11, <2>1 DEF Good
    <3>2. IInv'
      BY <1>1, <1>2, <1>7, <3>1, Afterwards
    <3> QED
      BY <1>1, <1>9, <2>1, <3>2 DEF Children, OthersKeep
  <2>2. CASE ~out
    <3>1. \A ns : /\ Objects(ns) /\ Acyclic(ns) /\ ns[p].nested = l
                  /\ \A t \in Tlvs : (t # p => ns[t] = node[t]) /\ (t > used => ns[t] = Gone)
                  /\ Balanced(ns, held', << c >>) /\ node' = Freed(ns, << c >>)
                  => IInv' /\ Children(p)' = Elements(l) /\ OthersKeep(p)
      BY <1>1, <1>4, <1>5, <1>7, ListAfterFree
    <3>2. Balanced(ms, held', << c >>) /\ node' = Freed(ms, << c >>)
      BY <1>1, <1>9, <2>2
    <3> QED
      BY <1>9, <1>11, <3>1, <3>2
  <2> QED
    BY <2>1, <2>2
<1>13. CASE trap' = "none"
  <2>1. call' = Recorded("remove", p, pos, 0)
    BY <1>1, <1>13 DEF Called, Recorded
  <2>2. Children(p)' = RemoveAt(Children(p), pos)
    BY <1>4, <1>12
  <2> QED
    BY <1>3, <1>12, <2>1, <2>2, RemoveStep
<1>14. CASE trap' # "none"
  <2>1. call' = Recorded("trap", p, pos, 0)
    BY <1>1, <1>14 DEF Called, Recorded
  <2> QED
    BY <1>12, <2>1, TrapStep
<1> QED
  BY <1>13, <1>14

LEMMA RemoveNestedStep ==
  ASSUME IInv, Untrapped, NEW p \in Alive, NEW c, RemoveNestedTlv(p, c)
  PROVE  IInv' /\ Implements
<1> DEFINE pos == IndexOf(node[p].nested, c)
<1>1. CASE pos = Null
  BY <1>1, UnchangedStep DEF RemoveNestedTlv, Fails, vars
<1>2. CASE pos # Null
  <2>1. ListRemove(p, pos, FALSE)
    BY <1>2 DEF RemoveNestedTlv
  <2>2. pos \in 1 .. node[p].nested.len
    BY <1>2 DEF IndexOf
  <2> HIDE DEF pos
  <2> QED
    BY <2>1, <2>2, TakingStep
<1> QED
  BY <1>1, <1>2

LEMMA ListRemoveStep ==
  ASSUME IInv, Untrapped, NEW p \in Alive, NEW pos \in 1 .. MaxTlvs, ListRemove(p, pos, TRUE)
  PROVE  IInv' /\ Implements
<1>1. MaxTlvs \in Nat /\ node[p].nested.len \in Nat
  BY Now, Listing
<1>2. pos <= node[p].nested.len
  BY DEF ListRemove, RemoveAllowed
<1>3. pos \in 1 .. node[p].nested.len
  BY <1>1, <1>2
<1> QED
  BY <1>3, TakingStep

LEMMA SortingStep ==
  ASSUME IInv, Untrapped, NEW p \in Alive, ListSort(p)
  PROVE  IInv' /\ Implements
<1>1. PICK l \in Sorted(node[p].nested, [c \in Tlvs |-> node[c].tag]) : Become(WithList(p, l), mem)
  BY DEF ListSort
<1> DEFINE ms == WithList(p, l)
           n == Len(Children(p))
<1>2. /\ node[p].nested.len > 1 /\ node' = ms /\ trap' \in Traps /\ used' = used /\ held' = held
      /\ Called("sort", p, 0, 0)
  BY <1>1 DEF ListSort, Length, Become, Traps
<1>3. /\ used \in Nat /\ used <= MaxTlvs /\ held \in [Tlvs -> Nat] /\ MaxTlvs \in Nat /\ Acyclic(node)
      /\ held' \in [Tlvs -> Nat]
  BY <1>2, Now
<1>4. /\ p \in Tlvs /\ node[p].nested \in Lists /\ Children(p) = Elements(node[p].nested) /\ Children(p) \in Seq(Tlvs)
      /\ n = node[p].nested.len /\ n \in Nat
  BY Listing
<1>5. node[p].type = "TLV"
  BY <1>2, <1>4, Listing DEF Sound
<1>6. l \in Lists /\ \E g \in [1 .. node[p].nested.len -> 1 .. node[p].nested.len] :
        IsInjective(g) /\ Elements(l) = [i \in 1 .. node[p].nested.len |-> Elements(node[p].nested)[g[i]]]
  BY <1>4, SortKeeps
<1>7. PICK f \in [1 .. n -> 1 .. n] : IsInjective(f) /\ Elements(l) = [i \in 1 .. n |-> Children(p)[f[i]]]
  BY <1>4, <1>6
<1>8. << >> \in Seq(Tlvs)
  OBVIOUS
<1>9. ASSUME NEW u \in Tlvs
      PROVE  held[u] + Count(u, Children(p)) = held'[u] + Count(u, << >>) + Count(u, Elements(l))
  <2>1. Count(u, Elements(l)) = Count(u, Children(p))
    BY <1>4, <1>7, CountOfSort
  <2>2. Count(u, << >>) = 0 /\ Count(u, Children(p)) \in Nat /\ held[u] \in Nat
    BY <1>3, <1>4, CountOfNone, CountIs
  <2> QED
    BY <1>2, <2>1, <2>2
<1>10. /\ Objects(ms) /\ Balanced(ms, held', << >>) /\ ms[p].nested = l
       /\ \A t \in Tlvs : (t # p => ms[t] = node[t]) /\ (t > used => ms[t] = Gone)
  BY <1>3, <1>5, <1>6, <1>8, <1>9, Relisted
<1> HIDE DEF ms
<1>11. Acyclic(ms)
  <2>1. Kids(ms, p) \subseteq Kids(node, p)
    <3>1. DOMAIN Children(p) = 1 .. n /\ Elements(ms[p].nested) = [i \in 1 .. n |-> Children(p)[f[i]]]
      BY <1>4, <1>7, <1>10
    <3> QED
      BY <1>4, <3>1 DEF Kids, ToSet
  <2>2. \A t \in Tlvs : Kids(ms, t) \subseteq Kids(node, t)
    BY <1>10, <2>1 DEF Kids
  <2> QED
    BY <1>3, <2>2, AcyclicShrinks
<1>12. Good(node', held', used')
  BY <1>2, <1>10, <1>11 DEF Good
<1>13. IInv'
  BY <1>2, <1>3, <1>12, Afterwards
<1>14. OthersKeep(p) /\ Children(p)' = [i \in 1 .. n |-> Children(p)[f[i]]]
  <2>1. OthersKeep(p)
    BY <1>2, <1>10 DEF Children, OthersKeep
  <2>2. Children(p)' = Elements(l)
    BY <1>2, <1>4, <1>10 DEF Children
  <2> QED
    BY <1>7, <2>1, <2>2
<1>15. CASE trap' = "none"
  <2>1. call' = Recorded("sort", p, 0, 0)
    BY <1>2, <1>15 DEF Called, Recorded
  <2> HIDE DEF n
  <2>2. n = Len(Children(p))
    BY DEF n
  <2> QED
    BY <1>4, <1>7, <1>13, <1>14, <2>1, <2>2, SortStep
<1>16. CASE trap' # "none"
  <2>1. call' = Recorded("trap", p, 0, 0)
    BY <1>2, <1>16 DEF Called, Recorded
  <2> QED
    BY <1>13, <2>1, TrapStep
<1> QED
  BY <1>15, <1>16

-----------------------------------------------------------------------------
(* Casts and copies.                                                       *)

\* ms has k new objects nested in t, which had none, and the other lists are as they were.
LEMMA SpreadStep ==
  ASSUME IInv, Untrapped, NEW t \in Tlvs, NEW n \in Nat, NEW k \in 0 .. MaxTlvs - n, used <= n,
         Children(t) = << >>, Children(t)' = NewOnes(n, k),
         \A u \in Tlvs : u # t => Children(u)' = Children(u),
         NEW op \in {"castTlv", "clone"}, NEW c, Called(op, t, 0, c)
  PROVE  Implements
<1>1. /\ used \in Nat /\ held \in [Tlvs -> Nat] /\ Good(node, held, used)
  BY Now
<1>2. IsInjective(Children(t)') /\ ToSet(Children(t)') = (n + 1) .. (n + k)
  BY NewOnesAre
<1>3. \A u \in ToSet(Children(t)') : \A q \in Tlvs : u \notin ToSet(Children(q))
  <2> SUFFICES ASSUME NEW u \in (n + 1) .. (n + k), NEW q \in Tlvs PROVE u \notin ToSet(Children(q))
    BY <1>2
  <2>1. u > used
    BY <1>1
  <2>2. Kids(node, q) \subseteq Tlvs
    BY <1>1, GoodIs
  <2>3. u \in Tlvs => u \notin Kids(node, q)
    BY <1>1, <2>1, GoodIs
  <2> QED
    BY <2>2, <2>3 DEF Kids, Children
<1>4. OthersKeep(t)
  BY DEF OthersKeep
<1>5. CASE trap' = "none"
  <2>1. call' = Recorded(op, t, 0, c)
    BY <1>5 DEF Called, Recorded
  <2> QED
    BY <1>2, <1>3, <1>4, <2>1, ExpandStep
<1>6. CASE trap' # "none"
  <2>1. call' = Recorded("trap", t, 0, c)
    BY <1>6 DEF Called, Recorded
  <2> QED
    BY <2>1, TrapStep
<1> QED
  BY <1>5, <1>6

LEMMA CastTlvStep ==
  ASSUME IInv, Untrapped, NEW t \in Alive, CastTlv(t)
  PROVE  IInv' /\ Implements
<1> DEFINE starts == Split(Peek(mem, node[t].data))
           ms == Expanded(node, mem, t, used + 1, starts)
<1>1. CASE node[t].type = "INT" \/ starts = << -1 >>
  BY <1>1, UnchangedStep DEF CastTlv, Fails, vars
<1>2. CASE ~(node[t].type = "INT" \/ starts = << -1 >>)
  <2>1. /\ node[t].type \notin {"TLV", "INT"} /\ Len(starts) \in 0 .. (MaxTlvs - used)
        /\ used' = used + Len(starts) /\ held' = held /\ node' = ms /\ trap' \in Traps
        /\ Called("castTlv", t, 0, 0)
    BY <1>2 DEF CastTlv, Become, Fresh, Traps
  <2>2. /\ used \in Nat /\ used <= MaxTlvs /\ MaxTlvs \in Nat /\ held \in [Tlvs -> Nat] /\ Good(node, held, used)
        /\ t \in Tlvs /\ t <= used
    BY Now
  <2> HIDE DEF starts
  <2>3. /\ Good(ms, held, used + Len(starts))
        /\ Elements(node[t].nested) = << >> /\ Elements(ms[t].nested) = NewOnes(used, Len(starts))
        /\ \A u \in Tlvs : u # t => ms[u].nested = node[u].nested
    <3>1. node[t].type \notin {"TLV", "INT"} /\ Len(starts) \in 0 .. (MaxTlvs - used)
      BY <2>1
    <3>2. Good(ms, held, used + Len(starts)) /\ Nests(ms, node, t, used, Len(starts))
      BY <2>2, <3>1, ExpandedGood
    <3> QED
      BY <3>2 DEF Nests
  <2> HIDE DEF ms
  <2>4. used' \in 0 .. MaxTlvs /\ Good(node', held', used') /\ held' \in [Tlvs -> Nat]
    BY <2>1, <2>2, <2>3
  <2>5. IInv'
    BY <2>1, <2>4, Afterwards
  <2>6. /\ Children(t) = << >> /\ Children(t)' = NewOnes(used, Len(starts))
        /\ \A u \in Tlvs : u # t => Children(u)' = Children(u)
    BY <2>1, <2>3 DEF Children
  <2>7. used <= used
    BY <2>2
  <2>8. Implements
    BY <2>1, <2>2, <2>6, <2>7, SpreadStep
  <2> QED
    BY <2>5, <2>8
<1> QED
  BY <1>1, <1>2

LEMMA CastRawStep ==
  ASSUME IInv, Untrapped, NEW t \in Alive, CastRaw(t)
  PROVE  IInv' /\ Implements
<1> DEFINE len == Len(Payload[t])
           size == IF node[t].own THEN Len(mem[t]) ELSE BufferSize
           fits == Encodable(t) /\ len <= size
           d == [in |-> t, at |-> 0, len |-> len]
           raw == AsRaw(node[t], TRUE, d)
           ms == [node EXCEPT ![t] = raw]
<1>1. /\ used \in Nat /\ used <= MaxTlvs /\ MaxTlvs \in Nat /\ held \in [Tlvs -> Nat] /\ Good(node, held, used)
      /\ Objects(node) /\ Acyclic(node) /\ t \in Tlvs /\ t <= used
      /\ \A u \in Tlvs : u \in Nat /\ (u > used => node[u] = Gone)
  BY Now
<1>2. used' = used /\ held' = held
  BY DEF CastRaw
<1>3. CASE ~fits /\ ~node[t].own
  <2>1. UNCHANGED <<node, mem, held, used, trap, call>>
    BY <1>2, <1>3 DEF CastRaw, Recast
  <2> QED
    BY <2>1, UnchangedStep
<1>4. CASE ~fits /\ node[t].own
  <2>1. node' = node /\ trap' = "recast" /\ Called("castRaw", t, 0, 0)
    BY <1>4 DEF CastRaw, Recast
  <2>2. TypeOK
    BY DEF IInv
  <2>3. TypeOK'
    BY <1>2, <2>1, <2>2 DEF TypeOK, Live
  <2>4. IInv'
    BY <2>1, <2>3 DEF IInv, Untrapped
  <2>5. call' = Recorded("trap", t, 0, 0)
    BY <2>1 DEF Called, Recorded
  <2> QED
    BY <2>4, <2>5, TrapStep
<1>5. CASE fits
  <2>1. node' = Freed(ms, Children(t)) /\ trap' \in Traps /\ Called("castRaw", t, 0, 0)
    BY <1>5 DEF CastRaw, Recast, AsRaw, Traps
  <2> HIDE DEF d, fits
  <2>2. node = [u \in Tlvs |-> node[u]] /\ \A u \in Tlvs : Sound(node[u])
    BY <1>1 DEF Objects
  <2>3. Sound(raw) /\ raw.refs = node[t].refs /\ raw.nested = NewList
    BY <1>1, <2>2, Flattened, ZenonT(60)
  <2> HIDE DEF raw
  <2>4. /\ ms = [u \in Tlvs |-> ms[u]] /\ ms[t] = raw /\ \A u \in Tlvs : u # t => ms[u] = node[u]
    BY <1>1, <2>2
  <2> HIDE DEF ms
  <2>5. Objects(ms)
    <3>1. \A u \in Tlvs : Sound(ms[u])
      BY <2>2, <2>3, <2>4
    <3> QED
      BY <2>4, <3>1 DEF Objects
  <2>6. Children(t) \in Seq(Tlvs) /\ Children(t) = Elements(node[t].nested)
    BY Listing
  <2>7. Elements(ms[t].nested) = << >>
    BY <2>3, <2>4, EmptyList
  <2>8. Balanced(ms, held', Children(t))
    <3>1. OnlyList(ms, node, t)
      BY <2>3, <2>4 DEF OnlyList
    <3>2. ASSUME NEW u \in Tlvs
          PROVE  held[u] + Count(u, Elements(node[t].nested))
                   = held'[u] + Count(u, Children(t)) + Count(u, Elements(ms[t].nested))
      <4>1. Count(u, << >>) = 0 /\ Count(u, Children(t)) \in Nat /\ held[u] \in Nat
        BY <1>1, <2>6, CountOfNone, CountIs
      <4> QED
        BY <1>2, <2>6, <2>7, <4>1
    <3>3. held' \in [Tlvs -> Nat]
      BY <1>1, <1>2
    <3> QED
      <4>1. /\ held \in [Tlvs -> Nat] /\ used \in Nat /\ Good(node, held, used) /\ t \in Tlvs
            /\ Children(t) \in Seq(Tlvs)
        BY <1>1, <2>6
      <4>2. Settled(ms, node, held', held, t, Children(t))
        BY <3>2 DEF Settled
      <4> QED
        BY <2>5, <3>1, <3>3, <4>1, <4>2, ListBalance
  <2>9. Acyclic(ms)
    <3>1. \A u \in Tlvs : Kids(ms, u) \subseteq Kids(node, u)
      <4> TAKE u \in Tlvs
      <4>1. CASE u = t
        BY <2>7, <4>1 DEF Kids, ToSet
      <4>2. CASE u # t
        BY <2>4, <4>2 DEF Kids
      <4> QED
        BY <4>1, <4>2
    <3> QED
      BY <1>1, <3>1, AcyclicShrinks
  <2>10. ASSUME NEW u \in Tlvs, u > used PROVE ms[u] = Gone
    <3>1. u # t /\ node[u] = Gone
      BY <1>1, <2>10
    <3> QED
      BY <2>4, <3>1
  <2>11. held' \in [Tlvs -> Nat] /\ used' \in 0 .. MaxTlvs
    BY <1>1, <1>2
  <2>12. /\ Good(Freed(ms, Children(t)), held', used)
         /\ \A u \in Tlvs : Freed(ms, Children(t))[u].nested \in {ms[u].nested, NewList}
    BY <1>1, <2>5, <2>6, <2>8, <2>9, <2>10, <2>11, FreedGood
  <2>13. Good(node', held', used') /\ \A u \in Tlvs : node'[u].nested \in {node[u].nested, NewList}
    BY <1>2, <2>1, <2>3, <2>4, <2>12
  <2>14. IInv'
    BY <2>1, <2>11, <2>13, Afterwards
  <2>15. \A q \in Tlvs : Children(q)' \in {Children(q), << >>}
    BY <2>13, EmptyList DEF Children
  <2>16. CASE trap' = "none"
    <3>1. call' = Recorded("castRaw", t, 0, 0)
      BY <2>1, <2>16 DEF Called, Recorded
    <3> QED
      BY <1>1, <2>14, <2>15, <3>1, CollapseStep
  <2>17. CASE trap' # "none"
    <3>1. call' = Recorded("trap", t, 0, 0)
      BY <2>1, <2>17 DEF Called, Recorded
    <3> QED
      BY <2>14, <3>1, TrapStep
  <2> QED
    BY <2>16, <2>17
<1> QED
  BY <1>3, <1>4, <1>5

LEMMA CloneStep ==
  ASSUME IInv, Untrapped, NEW t \in Alive, CloneTlv(t)
  PROVE  IInv' /\ Implements
<1>0. PICK f : f = used + 1
  OBVIOUS
<1> DEFINE b == Serialized(t)
           o == Parsed(b, f)
           ns == [node EXCEPT ![f] = o]
           m == [mem EXCEPT ![f] = b]
           starts == IF node[t].type = "TLV" THEN Split(Peek(m, ns[f].data)) ELSE << >>
           k == Len(starts)
<1>1. CASE ~(Serializes(t) /\ Fills(Serialized(t)))
  BY <1>1, UnchangedStep DEF CloneTlv, CloneFails, Fails, vars
<1>2. CASE Serializes(t) /\ Fills(Serialized(t))
  <2>1. /\ used < MaxTlvs /\ k \in 0 .. (MaxTlvs - f) /\ used' = used + 1 + k /\ held' = [held EXCEPT ![f] = 1]
        /\ node' = (IF node[t].type = "TLV" THEN Expanded(ns, m, f, f + 1, starts) ELSE ns)
        /\ trap' \in Traps /\ Called("clone", f, 0, t)
    BY <1>0, <1>2 DEF CloneTlv, Clone, Fresh, Become, Traps
  <2>2. /\ used \in Nat /\ used <= MaxTlvs /\ MaxTlvs \in Nat /\ held \in [Tlvs -> Nat] /\ Good(node, held, used)
        /\ node = [u \in Tlvs |-> node[u]]
    BY Now DEF Objects
  <2>3. f \in Tlvs /\ f \in Nat /\ f <= f /\ used <= f /\ f = used + 1
    BY <1>0, <2>1, <2>2 DEF Tlvs
  <2>4. Sound(o) /\ o.refs = 1 /\ o.nested = NewList /\ o.type = "RAW"
    <3>1. o.type = "RAW"
      BY DEF Parsed, Object
    <3> QED
      BY <3>1, ParsedIsSound
  <2>5. k = 0 \/ node[t].type = "TLV"
    OBVIOUS
  <2>6. node[t].type # "TLV" => k = 0
    OBVIOUS
  <2> HIDE DEF o, b, starts
  <2>7. Differs(ns, node, f, o) /\ ns[f] = o
    BY <2>2, <2>3 DEF Differs
  <2>8. Differs(held', held, f, 1)
    BY <2>1, <2>2, <2>3 DEF Differs
  <2> HIDE DEF ns, m
  <2>9. held' \in [Tlvs -> Nat] /\ Good(ns, held', f) /\ \A u \in Tlvs : ns[u].nested = node[u].nested
    <3>1. used + 1 \in Tlvs /\ Differs(ns, node, used + 1, o) /\ Differs(held', held, used + 1, 1)
      BY <2>3, <2>7, <2>8
    <3>2. \A ms, g : Differs(ms, node, used + 1, o) /\ Differs(g, held, used + 1, 1)
            => g \in [Tlvs -> Nat] /\ Good(ms, g, used + 1) /\ \A u \in Tlvs : ms[u].nested = node[u].nested
      BY <2>2, <2>4, <3>1, MadeGood
    <3> QED
      BY <2>3, <3>1, <3>2
  <2>10. Good(node', held', f + k) /\ Nests(node', ns, f, f, k)
    <3>1. CASE node[t].type = "TLV"
      <4>1. ns[f].type \notin {"TLV", "INT"}
        BY <2>4, <2>7
      <4>2. \A h : h \in [Tlvs -> Nat] /\ Good(ns, h, f)
              => /\ Good(Expanded(ns, m, f, f + 1, starts), h, f + k)
                 /\ Nests(Expanded(ns, m, f, f + 1, starts), ns, f, f, k)
        BY <2>1, <2>3, <4>1, ExpandedGood
      <4>3. node' = Expanded(ns, m, f, f + 1, starts)
        BY <2>1, <3>1
      <4> QED
        BY <2>9, <4>2, <4>3
    <3>2. CASE node[t].type # "TLV"
      <4>1. node' = ns /\ k = 0 /\ f + k = f
        BY <2>1, <2>3, <2>6, <3>2
      <4>2. Elements(ns[f].nested) = << >>
        BY <2>4, <2>7, EmptyList
      <4>3. NewOnes(f, 0) = << >>
        BY <2>3 DEF NewOnes
      <4> QED
        BY <2>9, <4>1, <4>2, <4>3 DEF Nests
    <3> QED
      BY <3>1, <3>2
  <2>11. used' = f + k /\ used' \in 0 .. MaxTlvs
    <3>1. k \in Nat /\ k <= MaxTlvs - f
      BY <2>1, <2>2, <2>3
    <3> HIDE DEF k
    <3> QED
      BY <2>1, <2>2, <2>3, <3>1
  <2>12. IInv'
    BY <2>1, <2>9, <2>10, <2>11, Afterwards
  <2>13. /\ Children(f) = << >> /\ Children(f)' = NewOnes(f, k)
         /\ \A u \in Tlvs : u # f => Children(u)' = Children(u)
    BY <2>3, <2>9, <2>10 DEF Nests, Children
  <2> HIDE DEF k
  <2>14. k \in 0 .. MaxTlvs - f
    BY <2>1
  <2>15. Implements
    BY <2>1, <2>3, <2>13, <2>14, SpreadStep
  <2> QED
    BY <2>12, <2>15
<1> QED
  BY <1>1, <1>2

-----------------------------------------------------------------------------
(* The theorems.                                                           *)

LEMMA NextStep ==
  ASSUME IInv, [Next]_vars
  PROVE  IInv' /\ Implements
<1>1. CASE UNCHANGED vars
  BY <1>1, UnchangedStep DEF vars
<1>2. CASE Next
  <2> USE <1>2
  <2>0. Untrapped
    BY DEF Next, Untrapped
  <2>1. CASE Create
    BY <2>0, <2>1, CreateStep
  <2>2. ASSUME NEW t \in Alive, Change(t)
        PROVE  IInv' /\ Implements
    <3>1. ASSUME NEW v, SetRawValue(t, v) PROVE IInv' /\ Implements
      <4>1. CASE node[t].type # "RAW" \/ Len(v) >= BufferSize
        BY <3>1, <4>1, UnchangedStep DEF SetRawValue, Fails, vars
      <4>2. CASE ~(node[t].type # "RAW" \/ Len(v) >= BufferSize)
        <5>1. node' = WithValue(t, v) /\ trap' \in Traps /\ Called("value", t, 0, 0) /\ UNCHANGED <<held, used>>
          BY <3>1, <4>2 DEF SetRawValue, Traps
        <5> QED
          BY <2>0, <5>1, ValueStep
      <4> QED
        BY <4>1, <4>2
    <3>8. ASSUME NEW val, SetUintValue(t, val) PROVE IInv' /\ Implements
      <4>1. /\ node' = WithValue(t, UintBytes(val)) /\ trap' \in Traps
            /\ Called("value", t, 0, 0) /\ UNCHANGED <<held, used>>
        BY <3>8 DEF SetUintValue, Traps
      <4> QED
        BY <2>0, <4>1, ValueStep
    <3>2. CASE CastTlv(t)
      BY <2>0, <3>2, CastTlvStep
    <3>3. CASE CastRaw(t)
      BY <2>0, <3>3, CastRawStep
    <3>4. CASE Ref(t)
      BY <2>0, <3>4, RefStep
    <3>5. CASE Free(t)
      BY <2>0, <3>5, FreeStep
    <3>6. CASE CloneTlv(t)
      BY <2>0, <3>6, CloneStep
    <3>7. CASE ListSort(t)
      BY <2>0, <3>7, SortingStep
    <3> QED
      BY <2>2, <3>1, <3>2, <3>3, <3>4, <3>5, <3>6, <3>7, <3>8 DEF Change
  <2>3. ASSUME NEW p \in Alive, Nest(p)
        PROVE  IInv' /\ Implements
    <3>1. ASSUME NEW c \in Owned, AppendNestedTlv(p, c) PROVE IInv' /\ Implements
      BY <2>0, <3>1, AppendingStep
    <3>2. ASSUME NEW c \in Owned, NEW old \in Alive, ReplaceNestedTlv(p, old, c) PROVE IInv' /\ Implements
      BY <2>0, <3>2, ReplaceNestedStep
    <3>3. ASSUME NEW c \in Owned, NEW pos \in 1 .. MaxTlvs, ListReplaceAt(p, pos, c) PROVE IInv' /\ Implements
      BY <2>0, <3>3, ListReplaceStep
    <3>4. ASSUME NEW c \in Owned, NEW pos \in 1 .. MaxTlvs, ListInsertAt(p, pos, c) PROVE IInv' /\ Implements
      BY <2>0, <3>4, InsertingStep
    <3>5. ASSUME NEW c \in Alive, RemoveNestedTlv(p, c) PROVE IInv' /\ Implements
      BY <2>0, <3>5, RemoveNestedStep
    <3>6. ASSUME NEW pos \in 1 .. MaxTlvs, ListRemove(p, pos, TRUE) PROVE IInv' /\ Implements
      BY <2>0, <3>6, ListRemoveStep
    <3> QED
      BY <2>3, <3>1, <3>2, <3>3, <3>4, <3>5, <3>6 DEF Nest
  <2> QED
    BY <2>1, <2>2, <2>3 DEF Next
<1> QED
  BY <1>1, <1>2

LEMMA InitHolds ==
  ASSUME Init
  PROVE  IInv /\ Nested!Init
<1>1. /\ node = [t \in Tlvs |-> Gone] /\ held = [t \in Tlvs |-> 0] /\ used = 0 /\ trap = "none"
      /\ call.op = "none" /\ MaxTlvs \in Nat
  BY TlvAssumption DEF Init
<1>2. Sound(Gone) /\ Gone.refs = 0 /\ Gone.nested = NewList
  BY GoneIsSound
<1>3. \A t \in Tlvs : node[t] = Gone /\ Elements(node[t].nested) = << >>
  BY <1>1, <1>2, EmptyList
<1>4. Objects(node)
  BY <1>1, <1>2, <1>3 DEF Objects
<1>5. Balanced(node, held, << >>)
  <2> SUFFICES ASSUME NEW u \in Tlvs PROVE node[u].refs = held[u] + Count(u, << >>) + References(node, u, Tlvs)
    BY DEF Balanced
  <2>1. \A p \in Tlvs : u \notin ToSet(Elements(node[p].nested))
    BY <1>3 DEF ToSet
  <2>2. Listed(node) /\ Tlvs \in SUBSET Tlvs
    BY <1>4, ObjectsListed
  <2>3. References(node, u, Tlvs) = 0
    BY <2>1, <2>2, ReferencesAre
  <2>4. Count(u, << >>) = 0 /\ node[u].refs = 0 /\ held[u] = 0
    BY <1>1, <1>2, <1>3, CountOfNone
  <2> QED
    BY <2>3, <2>4
<1>6. Acyclic(node)
  <2>1. \A t \in Tlvs : Kids(node, t) = {}
    BY <1>3 DEF Kids, ToSet
  <2> QED
    BY <2>1 DEF Acyclic
<1>7. Good(node, held, used)
  BY <1>3, <1>4, <1>5, <1>6 DEF Good
<1>8. TypeOK
  <2>1. used \in 0..MaxTlvs /\ held \in [Tlvs -> Nat]
    BY <1>1
  <2>2. \A t \in Tlvs : Sound(node[t]) /\ ~Live(t)
    BY <1>2, <1>3 DEF Live
  <2> QED
    BY <1>1, <2>1, <2>2 DEF TypeOK, Sound, Lists
<1>9. Nested!Init
  BY <1>1, <1>3 DEF Nested!Init, Children
<1> QED
  BY <1>7, <1>8, <1>9 DEF IInv

\* The inductive invariant: the types, and short of a trap that the counts are balanced,
\* that no TLV is nested in itself, and that objects not yet made, or freed, hold nothing.
THEOREM Inductive == Spec => []IInv
<1>1. Init => IInv
  BY InitHolds
<1>2. IInv /\ [Next]_vars => IInv'
  BY NextStep
<1> QED
  BY <1>1, <1>2, PTL DEF Spec

\* Every variable keeps its type, behind a trap too.
THEOREM TypesAreKept == Spec => []TypeOK
<1>1. IInv => TypeOK
  BY DEF IInv
<1> QED
  BY <1>1, Inductive, PTL

\* KSI_TLV_free and KSI_TLV_ref with the lists that own their elements: the count of
\* every TLV is the number of the references to it, the client's and those of nested
\* lists, whatever is nested in what, so nothing is freed twice, early or never.
THEOREM ReferencesAreBalanced == Spec => []RefsBalanced
<1>1. IInv => RefsBalanced
  <2> SUFFICES ASSUME IInv, Untrapped, NEW t \in Tlvs PROVE node[t].refs = held[t] + References(node, t, Tlvs)
    BY DEF RefsBalanced
  <2>1. used \in Nat /\ held \in [Tlvs -> Nat] /\ Good(node, held, used)
    BY Now
  <2> QED
    BY <2>1, GoodIs
<1> QED
  BY <1>1, Inductive, PTL

\* The lists of nested TLVs, arrays that grow, shift and keep stale pointers, are the
\* sequences that tlv.h and list.h promise: every call changes the sequence of the TLV it
\* is made on as documented, and no other one but for those it frees.
THEOREM ImplementsForest == Spec => NestedIsSequence
<1>1. Init => Nested!Init
  BY InitHolds
<1>2. IInv /\ [Next]_vars => [Nested!Next]_(Nested!vars)
  BY NextStep DEF Implements
<1> QED
  BY <1>1, <1>2, Inductive, PTL DEF Spec, NestedIsSequence, Nested!Spec

-----------------------------------------------------------------------------
(* Bytes and headers.                                                      *)

LEMMA Units ==
  /\ TypeSpan \in Nat /\ TypeSpan > 0 /\ Byte \in Nat /\ Byte = 8 * TypeSpan /\ Byte >= 8
  /\ BufferSize \in Nat /\ BufferSize = Byte * Byte /\ BufferSize >= 8 * Byte
<1>1. TypeSpan \in Nat /\ TypeSpan > 0 /\ Byte = 8 * TypeSpan /\ BufferSize = Byte * Byte
  BY TlvAssumption DEF Byte, BufferSize
<1>2. Byte \in Nat /\ Byte >= 8
  BY <1>1
<1> HIDE DEF Byte
<1>3. Byte * Byte \in Nat /\ Byte * Byte >= 8 * Byte
  BY <1>2
<1> QED
  BY <1>1, <1>2, <1>3

\* A number in digits to the base n.
LEMMA Digits ==
  ASSUME NEW n \in Nat, n > 0, NEW a \in Nat
  PROVE  /\ a \div n \in Nat /\ a % n \in 0 .. n - 1
         /\ a = n * (a \div n) + (a % n)
  OBVIOUS

LEMMA DigitsBelow ==
  ASSUME NEW n \in Nat, n > 0, NEW a \in Nat, NEW k \in Nat, a < k * n
  PROVE  a \div n < k
  OBVIOUS

LEMMA Products ==
  ASSUME NEW a \in Nat, NEW b \in Nat, NEW c \in Nat, a <= b
  PROVE  a * c \in Nat /\ a * c <= b * c /\ c * a = a * c
  OBVIOUS

LEMMA DigitsOf ==
  ASSUME NEW n \in Nat, n > 0, NEW q \in Nat, NEW r \in 0 .. n - 1
  PROVE  (q * n + r) \div n = q /\ (q * n + r) % n = r
  OBVIOUS

LEMMA HeaderIs ==
  ASSUME NEW tag \in 0 .. TypeSpan * Byte - 1, NEW flags \in 0 .. 3, NEW len \in Nat
  PROVE  /\ Header(tag, flags, len) \in Seq(Bytes)
         /\ Len(Header(tag, flags, len)) \in {2, 4}
         /\ len < BufferSize =>
              LET h == Header(tag, flags, len)
              IN  IF Len(h) = 4
                    THEN /\ h[1] >= 4 * TypeSpan /\ (h[1] \div TypeSpan) % 4 = flags
                         /\ (h[1] % TypeSpan) * Byte + h[2] = tag /\ h[3] * Byte + h[4] = len
                    ELSE /\ h[1] < 4 * TypeSpan /\ (h[1] \div TypeSpan) % 4 = flags
                         /\ h[1] % TypeSpan = tag /\ h[2] = len
<1>1. /\ TypeSpan \in Nat /\ TypeSpan > 0 /\ Byte \in Nat /\ Byte = 8 * TypeSpan /\ Byte >= 8
      /\ BufferSize = Byte * Byte /\ Bytes = 0 .. Byte - 1
  BY Units DEF Bytes
<1> HIDE DEF Byte, Bytes, BufferSize
<1> DEFINE high == tag \div Byte
           low == tag % Byte
           lenHigh == len \div Byte
           lenLow == len % Byte
<1>2. /\ high \in Nat /\ low \in 0 .. Byte - 1 /\ tag = Byte * high + low /\ high < TypeSpan
  <2>1. TypeSpan * Byte \in Nat /\ tag \in Nat /\ tag < TypeSpan * Byte
    BY <1>1
  <2> QED
    <3>1. high \in Nat /\ low \in 0 .. Byte - 1 /\ tag = Byte * high + low
      <4>1. Byte \in Nat /\ Byte > 0
        BY <1>1
      <4> QED
        BY <2>1, <4>1, Digits, Zenon
    <3>2. high < TypeSpan
      BY <1>1, <2>1, DigitsBelow
    <3> QED
      BY <3>1, <3>2
<1>3. /\ lenHigh \in Nat /\ lenLow \in 0 .. Byte - 1 /\ len = Byte * lenHigh + lenLow
      /\ len < BufferSize => lenHigh < Byte
  <2>1. lenHigh \in Nat /\ lenLow \in 0 .. Byte - 1 /\ len = Byte * lenHigh + lenLow
    <3>1. Byte \in Nat /\ Byte > 0
      BY <1>1
    <3> QED
      BY <3>1, Digits, Zenon
  <2>2. len < Byte * Byte => lenHigh < Byte
    BY <1>1, DigitsBelow
  <2> QED
    BY <1>1, <2>1, <2>2
<1>4. lenHigh % Byte \in 0 .. Byte - 1 /\ (lenHigh < Byte => lenHigh % Byte = lenHigh)
  <2>1. lenHigh % Byte \in 0 .. Byte - 1
    BY <1>1, <1>3, Digits
  <2>2. ASSUME lenHigh < Byte PROVE lenHigh % Byte = lenHigh
    <3>1. lenHigh \in 0 .. Byte - 1 /\ lenHigh = 0 * Byte + lenHigh
      BY <1>1, <1>3, <2>2
    <3> QED
      BY <1>1, <3>1, DigitsOf
  <2> QED
    BY <2>1, <2>2
<1> HIDE DEF high, low, lenHigh, lenLow
<1>5. CASE len > Byte - 1 \/ tag > TypeSpan - 1
  <2> DEFINE first == 4 * TypeSpan + flags * TypeSpan + high
             h == << first, low, lenHigh % Byte, lenLow >>
  <2>1. Header(tag, flags, len) = h
    BY <1>5 DEF Header, high, low, lenHigh, lenLow
  <2>2. first = (4 + flags) * TypeSpan + high /\ 4 + flags \in Nat /\ high \in 0 .. TypeSpan - 1
    BY <1>1, <1>2
  <2>3. first \div TypeSpan = 4 + flags /\ first % TypeSpan = high
    BY <1>1, <2>2, DigitsOf
  <2>4. first \in Bytes /\ first >= 4 * TypeSpan
    BY <1>1, <1>2
  <2>5. (4 + flags) % 4 = flags
    OBVIOUS
  <2> HIDE DEF first
  <2>6. h \in Seq(Bytes) /\ Len(h) = 4 /\ h[1] = first /\ h[2] = low /\ h[3] = lenHigh % Byte /\ h[4] = lenLow
    BY <1>1, <1>2, <1>3, <1>4, <2>4
  <2>7. high * Byte + low = tag
    <3>1. high <= high /\ Byte * high = high * Byte
      BY <1>1, <1>2, Products
    <3> QED
      BY <1>1, <1>2, <3>1
  <2>8. len < BufferSize => (lenHigh % Byte) * Byte + lenLow = len
    <3>1. lenHigh <= lenHigh /\ Byte * lenHigh = lenHigh * Byte
      BY <1>1, <1>3, Products
    <3> QED
      BY <1>1, <1>3, <1>4, <3>1
  <2> HIDE DEF h
  <2> QED
    BY <2>1, <2>3, <2>4, <2>5, <2>6, <2>7, <2>8
<1>6. CASE ~(len > Byte - 1 \/ tag > TypeSpan - 1)
  <2> DEFINE first == flags * TypeSpan + tag
             h == << first, len >>
  <2>1. Header(tag, flags, len) = h
    BY <1>6 DEF Header
  <2>2. tag \in 0 .. TypeSpan - 1 /\ flags \in Nat /\ len \in Bytes
    BY <1>1, <1>6
  <2>3. first \div TypeSpan = flags /\ first % TypeSpan = tag
    BY <1>1, <2>2, DigitsOf
  <2>4. first \in Bytes /\ first < 4 * TypeSpan
    BY <1>1, <2>2
  <2>5. flags % 4 = flags
    OBVIOUS
  <2> HIDE DEF first
  <2>6. h \in Seq(Bytes) /\ Len(h) = 2 /\ h[1] = first /\ h[2] = len
    BY <2>2, <2>4
  <2> HIDE DEF h
  <2> QED
    BY <2>1, <2>3, <2>4, <2>5, <2>6
<1> QED
  BY <1>5, <1>6

\* What a header that was read says fits an object.
LEMMA ReadIs ==
  ASSUME NEW b \in Seq(Bytes)
  PROVE  LET h == ReadHeader(b)
         IN  /\ h = [size |-> h.size, tag |-> h.tag, flags |-> h.flags, len |-> h.len]
             /\ h.size \in {0, 2, 4} /\ h.size <= Len(b)
             /\ h.tag \in 0 .. TypeSpan * Byte - 1 /\ h.flags \in 0 .. 3 /\ h.len \in Nat
<1>1. /\ TypeSpan \in Nat /\ TypeSpan > 0 /\ Byte \in Nat /\ Byte = 8 * TypeSpan
      /\ Bytes = 0 .. Byte - 1 /\ TypeSpan * Byte \in Nat /\ TypeSpan * Byte >= Byte
  BY Units DEF Bytes
<1> HIDE DEF Byte, Bytes
<1>2. CASE Len(b) < 2 \/ (b[1] >= 4 * TypeSpan /\ Len(b) < 4)
  BY <1>1, <1>2, SMTT(30) DEF ReadHeader, Cut
<1>3. CASE ~(Len(b) < 2 \/ (b[1] >= 4 * TypeSpan /\ Len(b) < 4))
  <2> DEFINE flags == (b[1] \div TypeSpan) % 4
             low == b[1] % TypeSpan
  <2>1. Len(b) \in Nat /\ Len(b) >= 2 /\ b[1] \in Bytes /\ b[2] \in Bytes
    BY <1>3
  <2>2. b[1] \div TypeSpan \in Nat /\ low \in 0 .. TypeSpan - 1
    BY <1>1, <2>1, Digits, SMTT(30)
  <2>3. flags \in 0 .. 3
    BY <2>2, Digits
  <2>4. low * Byte + b[2] \in 0 .. TypeSpan * Byte - 1 /\ low \in 0 .. TypeSpan * Byte - 1
    <3>1. low * Byte \in Nat /\ low * Byte <= (TypeSpan - 1) * Byte
      <4>1. low \in Nat /\ TypeSpan - 1 \in Nat /\ low <= TypeSpan - 1
        BY <1>1, <2>2
      <4> HIDE DEF low
      <4> QED
        BY <1>1, <4>1, Products
    <3>2. (TypeSpan - 1) * Byte = TypeSpan * Byte - Byte
      BY <1>1
    <3>3. low \in Nat /\ b[2] \in Nat /\ b[2] < Byte /\ low < TypeSpan
      BY <1>1, <2>1, <2>2
    <3>4. TypeSpan <= TypeSpan * Byte
      BY <1>1
    <3> HIDE DEF low
    <3>5. PICK x \in Nat : x = low * Byte
      BY <3>1
    <3>6. PICK y \in Nat : y = TypeSpan * Byte
      BY <1>1
    <3>7. x <= y - Byte /\ TypeSpan <= y
      BY <3>1, <3>2, <3>4, <3>5, <3>6
    <3>8. x + b[2] \in 0 .. y - 1 /\ low \in 0 .. y - 1
      BY <1>1, <3>3, <3>7
    <3> QED
      BY <3>5, <3>6, <3>8
  <2> HIDE DEF flags, low
  <2>5. CASE b[1] >= 4 * TypeSpan
    <3>1. b[3] \in Bytes /\ b[4] \in Bytes /\ Len(b) >= 4
      BY <1>3, <2>1, <2>5
    <3>2. b[3] * Byte + b[4] \in Nat
      <4>1. b[3] \in Nat /\ b[4] \in Nat /\ b[3] <= b[3]
        BY <1>1, <3>1
      <4> QED
        BY <1>1, <4>1, Products, SMTT(30)
    <3>3. ReadHeader(b) = [size |-> 4, tag |-> low * Byte + b[2], flags |-> flags, len |-> b[3] * Byte + b[4]]
      BY <1>3, <2>5 DEF ReadHeader, flags, low
    <3> QED
      BY <2>1, <2>3, <2>4, <3>1, <3>2, <3>3
  <2>6. CASE ~(b[1] >= 4 * TypeSpan)
    <3>1. ReadHeader(b) = [size |-> 2, tag |-> low, flags |-> flags, len |-> b[2]]
      BY <1>3, <2>6 DEF ReadHeader, flags, low
    <3>2. b[2] \in Nat
      BY <1>1, <2>1
    <3> QED
      BY <2>1, <2>3, <2>4, <3>1, <3>2
  <2> QED
    BY <2>5, <2>6
<1> QED
  BY <1>2, <1>3

LEMMA FirstIs ==
  ASSUME NEW b \in Seq(Bytes)
  PROVE  LET h == ReadFirst(b)
         IN  /\ h = [size |-> h.size, tag |-> h.tag, flags |-> h.flags, len |-> h.len]
             /\ h.size \in {0, 2, 4} /\ h.size + h.len <= Len(b)
             /\ h.tag \in 0 .. TypeSpan * Byte - 1 /\ h.flags \in 0 .. 3 /\ h.len \in Nat
<1>1. TypeSpan * Byte \in Nat /\ TypeSpan * Byte > 0 /\ Len(b) \in Nat
  BY Units
<1>2. CASE ReadHeader(b).size + ReadHeader(b).len > Len(b)
  BY <1>1, <1>2 DEF ReadFirst, Cut
<1>3. CASE ~(ReadHeader(b).size + ReadHeader(b).len > Len(b))
  <2>1. ReadFirst(b) = ReadHeader(b)
    BY <1>3 DEF ReadFirst
  <2> QED
    BY <1>1, <1>3, <2>1, ReadIs
<1> QED
  BY <1>2, <1>3

\* A TLV that was written is read back, whatever follows it.
LEMMA WrittenIsRead ==
  ASSUME NEW tag \in 0 .. TypeSpan * Byte - 1, NEW flags \in 0 .. 3, NEW v \in Seq(Bytes),
         Len(v) < BufferSize, NEW b \in Seq(Bytes),
         Len(Header(tag, flags, Len(v))) + Len(v) <= Len(b),
         \A i \in 1 .. Len(Header(tag, flags, Len(v))) : b[i] = Header(tag, flags, Len(v))[i]
  PROVE  ReadFirst(b) = [size |-> Len(Header(tag, flags, Len(v))), tag |-> tag, flags |-> flags, len |-> Len(v)]
<1> DEFINE h == Header(tag, flags, Len(v))
<1>1. /\ h \in Seq(Bytes) /\ Len(h) \in {2, 4}
      /\ IF Len(h) = 4
           THEN /\ h[1] >= 4 * TypeSpan /\ (h[1] \div TypeSpan) % 4 = flags
                /\ (h[1] % TypeSpan) * Byte + h[2] = tag /\ h[3] * Byte + h[4] = Len(v)
           ELSE /\ h[1] < 4 * TypeSpan /\ (h[1] \div TypeSpan) % 4 = flags
                /\ h[1] % TypeSpan = tag /\ h[2] = Len(v)
  <2>1. Len(v) \in Nat
    OBVIOUS
  <2> QED
    BY <2>1, HeaderIs
<1>2. Len(h) + Len(v) <= Len(b) /\ \A i \in 1 .. Len(h) : b[i] = h[i]
  OBVIOUS
<1> HIDE DEF h
<1>3. Len(b) \in Nat /\ Len(v) \in Nat /\ TypeSpan \in Nat /\ Bytes \subseteq Nat
  BY Units DEF Bytes
<1>4. ReadHeader(b) = [size |-> Len(h), tag |-> tag, flags |-> flags, len |-> Len(v)]
  <2>1. CASE Len(h) = 4
    <3>1. b[1] = h[1] /\ b[2] = h[2] /\ b[3] = h[3] /\ b[4] = h[4] /\ Len(b) >= 4
      BY <1>2, <1>3, <2>1
    <3>2. ~(Len(b) < 2 \/ (b[1] >= 4 * TypeSpan /\ Len(b) < 4)) /\ b[1] >= 4 * TypeSpan
      BY <1>1, <1>3, <2>1, <3>1
    <3> QED
      BY <1>1, <2>1, <3>1, <3>2 DEF ReadHeader
  <2>2. CASE Len(h) = 2
    <3>1. b[1] = h[1] /\ b[2] = h[2] /\ Len(b) >= 2
      BY <1>2, <1>3, <2>2
    <3>2. h[1] \in Nat
      <4>1. 1 \in 1 .. Len(h)
        BY <2>2
      <4> QED
        <5>1. h \in Seq(Bytes)
          BY <1>1
        <5>2. h[1] \in Bytes
          BY <4>1, <5>1
        <5> QED
          BY <1>3, <5>2
    <3>3. ~(Len(b) < 2 \/ (b[1] >= 4 * TypeSpan /\ Len(b) < 4)) /\ ~(b[1] >= 4 * TypeSpan)
      BY <1>1, <1>3, <2>2, <3>1, <3>2
    <3> QED
      BY <1>1, <2>2, <3>1, <3>3 DEF ReadHeader
  <2> QED
    BY <1>1, <2>1, <2>2
<1>5. ReadFirst(b) = ReadHeader(b)
  BY <1>2, <1>3, <1>4 DEF ReadFirst
<1> QED
  BY <1>4, <1>5 DEF h

-----------------------------------------------------------------------------
(* Sequences of sequences, one behind the other.                           *)

\* f gives what the first sequences of ss make together.
Flattens(f, ss, S) ==
  /\ f \in [0 .. Len(ss) -> Seq(S)] /\ f[0] = << >>
  /\ \A i \in 1 .. Len(ss) : f[i] = f[i - 1] \o ss[i]

LEMMA FlattenIs ==
  ASSUME NEW S, NEW ss \in Seq(Seq(S))
  PROVE  \E f : Flattens(f, ss, S) /\ FlattenSeq(ss) = f[Len(ss)]
<1> DEFINE n == Len(ss)
           P(g) == g = [i \in 1 .. n |-> IF i = 1 THEN ss[i] ELSE g[i - 1] \o ss[i]]
<1>1. n \in Nat /\ \A i \in 1 .. n : ss[i] \in Seq(S)
  OBVIOUS
<1>2. CASE n = 0
  <2> DEFINE f == [i \in 0 .. 0 |-> << >>]
  <2>1. ss = << >> /\ FlattenSeq(ss) = << >>
    BY <1>2 DEF FlattenSeq
  <2>2. f \in [0 .. 0 -> Seq(S)] /\ f[0] = << >>
    OBVIOUS
  <2> HIDE DEF f
  <2>3. Flattens(f, ss, S)
    BY <1>2, <2>2 DEF Flattens
  <2> QED
    BY <1>2, <2>1, <2>2, <2>3
<1>3. CASE n # 0
  <2> DEFINE F == [i \in 1 .. n |-> [s \in Seq(S) |-> s \o ss[i]]]
  <2>1. PICK h : Runs(h, F, n, << >>, Seq(S))
    <3>1. \A i \in 1 .. n : \A s \in Seq(S) : s \o ss[i] \in Seq(S)
      BY <1>1
    <3>2. Steps(F, n, << >>, Seq(S))
      BY <3>1 DEF Steps
    <3> HIDE DEF F
    <3> QED
      BY <1>1, <3>2, RecursionExists
  <2>2. h[0] = << >> /\ \A i \in 1 .. n : h[i] \in Seq(S) /\ h[i] = h[i - 1] \o ss[i]
    <3>1. h \in [0 .. n -> Seq(S)] /\ h[0] = << >> /\ \A i \in 1 .. n : h[i] = F[i][h[i - 1]]
      BY <2>1 DEF Runs
    <3> SUFFICES ASSUME NEW i \in 1 .. n PROVE h[i] \in Seq(S) /\ h[i] = h[i - 1] \o ss[i]
      BY <3>1
    <3>2. i \in 0 .. n /\ i - 1 \in 0 .. n
      BY <1>1
    <3> QED
      BY <3>1, <3>2
  <2> DEFINE g0 == [i \in 1 .. n |-> h[i]]
  <2>3. P(g0)
    <3>1. ASSUME NEW i \in 1 .. n PROVE g0[i] = IF i = 1 THEN ss[i] ELSE g0[i - 1] \o ss[i]
      <4>1. CASE i = 1
        <5>0. i - 1 = 0
          BY <4>1
        <5>1. h[i] = h[0] \o ss[i] /\ ss[i] \in Seq(S)
          BY <1>1, <2>2, <5>0, Zenon
        <5>2. << >> \o ss[i] = ss[i]
          BY <5>1
        <5>3. h[i] = ss[i]
          BY <2>2, <5>1, <5>2
        <5> QED
          BY <4>1, <5>3
      <4>2. CASE i # 1
        <5>1. i - 1 \in 1 .. n
          BY <1>1, <4>2
        <5> QED
          BY <2>2, <4>2, <5>1
      <4> QED
        BY <4>1, <4>2
    <3> QED
      BY <3>1
  <2> HIDE DEF g0
  <2>4. FlattenSeq(ss) = (CHOOSE g : P(g))[n]
    BY <1>3 DEF FlattenSeq
  <2>5. PICK g : g = CHOOSE g1 : P(g1)
    OBVIOUS
  <2> HIDE DEF P
  <2>6. P(g)
    BY <2>3, <2>5
  <2>7. \A i \in 1 .. n : g[i] = IF i = 1 THEN ss[i] ELSE g[i - 1] \o ss[i]
    BY <2>6 DEF P
  <2> DEFINE f == [i \in 0 .. n |-> IF i = 0 THEN << >> ELSE g[i]]
             G == {i \in 0 .. n : f[i] \in Seq(S)}
  <2>8. f[0] = << >> /\ \A i \in 1 .. n : f[i] = f[i - 1] \o ss[i]
    <3>0. 0 \in 0 .. n
      BY <1>1
    <3> SUFFICES ASSUME NEW i \in 1 .. n PROVE f[i] = f[i - 1] \o ss[i]
      BY <3>0
    <3>1. CASE i = 1
      <4>1. f[1] = ss[1] /\ f[0] = << >> /\ ss[1] \in Seq(S) /\ i - 1 = 0
        BY <1>1, <2>7, <3>1
      <4> HIDE DEF f
      <4>2. << >> \o ss[1] = ss[1]
        BY <4>1
      <4> QED
        BY <3>1, <4>1, <4>2
    <3>2. CASE i # 1
      <4>1. i - 1 \in 1 .. n /\ i - 1 \in 0 .. n /\ i \in 0 .. n /\ i # 0 /\ i - 1 # 0
        BY <1>1, <3>2
      <4> QED
        BY <2>7, <3>2, <4>1
    <3> QED
      BY <3>1, <3>2
  <2>9. f = [i \in 0 .. n |-> f[i]] /\ f[n] = g[n]
    BY <1>1, <1>3
  <2> HIDE DEF f
  <2>10. 0 \in G
    <3>1. 0 \in 0 .. n /\ f[0] \in Seq(S)
      BY <1>1, <2>8
    <3> QED
      BY <3>1
  <2>11. ASSUME NEW i \in 0 .. n - 1, i \in G PROVE i + 1 \in G
    <3>1. i + 1 \in 1 .. n /\ i + 1 \in 0 .. n /\ i + 1 - 1 = i
      BY <1>1
    <3>4. f[i] \in Seq(S)
      BY <2>11
    <3>5. PICK j : j = i + 1
      OBVIOUS
    <3>6. j \in 1 .. n /\ j - 1 = i
      BY <3>1, <3>5
    <3>7. f[j] = f[j - 1] \o ss[j] /\ ss[j] \in Seq(S)
      BY <1>1, <2>8, <3>6
    <3>2. f[i + 1] = f[i] \o ss[i + 1] /\ ss[i + 1] \in Seq(S)
      BY <3>5, <3>6, <3>7
    <3>3. f[i + 1] \in Seq(S)
      BY <3>2, <3>4
    <3> QED
      BY <3>1, <3>3
  <2> HIDE DEF G
  <2>12. \A i \in 0 .. n : i \in G
    BY <1>1, <2>10, <2>11, Induction
  <2>13. f \in [0 .. n -> Seq(S)]
    BY <2>9, <2>12 DEF G
  <2>14. Flattens(f, ss, S)
    BY <2>8, <2>13 DEF Flattens
  <2> QED
    BY <2>4, <2>5, <2>9, <2>14
<1> QED
  BY <1>2, <1>3

\* The places of the sequences in what they make together.
Placed(f, ss, S) ==
  /\ \A i \in 0 .. Len(ss) : f[i] \in Seq(S) /\ Len(f[i]) \in Nat
  /\ \A i \in 1 .. Len(ss) : Len(f[i]) = Len(f[i - 1]) + Len(ss[i])
  /\ \A i \in 0 .. Len(ss) :
       /\ Len(f[i]) <= Len(f[Len(ss)])
       /\ \A k \in 1 .. Len(f[i]) : f[Len(ss)][k] = f[i][k]
  /\ \A i \in 1 .. Len(ss) : \A k \in 1 .. Len(ss[i]) :
       f[Len(ss)][Len(f[i - 1]) + k] = ss[i][k]

LEMMA FlattensPlaces ==
  ASSUME NEW S, NEW ss \in Seq(Seq(S)), NEW f, Flattens(f, ss, S)
  PROVE  Placed(f, ss, S)
<1> DEFINE n == Len(ss)
<1>1. n \in Nat /\ \A i \in 1 .. n : ss[i] \in Seq(S) /\ Len(ss[i]) \in Nat
  OBVIOUS
<1>2. f \in [0 .. n -> Seq(S)] /\ f[0] = << >> /\ \A i \in 1 .. n : f[i] = f[i - 1] \o ss[i]
  BY DEF Flattens
<1>3. \A i \in 0 .. n : f[i] \in Seq(S) /\ Len(f[i]) \in Nat
  BY <1>2
<1>4. ASSUME NEW i \in 1 .. n
      PROVE  /\ Len(f[i]) = Len(f[i - 1]) + Len(ss[i])
             /\ \A k \in 1 .. Len(f[i - 1]) : f[i][k] = f[i - 1][k]
             /\ \A k \in 1 .. Len(ss[i]) : f[i][Len(f[i - 1]) + k] = ss[i][k]
  <2>1. i - 1 \in 0 .. n
    BY <1>1
  <2>2. f[i - 1] \in Seq(S) /\ ss[i] \in Seq(S) /\ f[i] = f[i - 1] \o ss[i]
    BY <1>1, <1>2, <1>3, <2>1
  <2>3. PICK a, b : a = f[i - 1] /\ b = ss[i]
    OBVIOUS
  <2>4. /\ a \in Seq(S) /\ b \in Seq(S) /\ f[i] = a \o b
    BY <2>2, <2>3
  <2>5. /\ Len(f[i]) = Len(a) + Len(b)
        /\ \A k \in 1 .. Len(a) : f[i][k] = a[k]
        /\ \A k \in 1 .. Len(b) : f[i][Len(a) + k] = b[k]
    BY <2>4, JoinIs
  <2> QED
    BY <2>3, <2>5
<1>5. \A i \in 0 .. n : /\ Len(f[i]) <= Len(f[n])
                        /\ \A k \in 1 .. Len(f[i]) : f[n][k] = f[i][k]
  <2> DEFINE G == {j \in 0 .. n : /\ Len(f[n - j]) <= Len(f[n])
                                  /\ \A k \in 1 .. Len(f[n - j]) : f[n][k] = f[n - j][k]}
  <2>1. 0 \in G
    <3>1. n - 0 = n /\ n \in 0 .. n /\ 0 \in 0 .. n
      BY <1>1
    <3>2. Len(f[n]) \in Nat
      BY <1>3, <3>1
    <3> QED
      BY <3>1, <3>2
  <2>2. ASSUME NEW j \in 0 .. n - 1, j \in G PROVE j + 1 \in G
    <3>1. n - j \in 1 .. n /\ n - (j + 1) = (n - j) - 1 /\ (n - j) - 1 \in 0 .. n /\ j + 1 \in 0 .. n
          /\ n - j \in 0 .. n /\ n \in 0 .. n
      BY <1>1
    <3>2. PICK i : i = n - j
      OBVIOUS
    <3>3. /\ Len(f[i]) <= Len(f[n]) /\ \A k \in 1 .. Len(f[i]) : f[n][k] = f[i][k]
          /\ i \in 1 .. n
      BY <2>2, <3>1, <3>2
    <3>4. Len(f[i]) \in Nat /\ Len(f[i - 1]) \in Nat /\ Len(f[n]) \in Nat /\ Len(ss[i]) \in Nat
      BY <1>1, <1>3, <3>1, <3>2
    <3>5. Len(f[i - 1]) <= Len(f[i])
      <4>1. Len(f[i]) = Len(f[i - 1]) + Len(ss[i])
        BY <1>4, <3>3
      <4>2. PICK a, b, c : a = Len(f[i]) /\ b = Len(f[i - 1]) /\ c = Len(ss[i])
        OBVIOUS
      <4>3. a \in Nat /\ b \in Nat /\ c \in Nat /\ a = b + c
        BY <3>4, <4>1, <4>2
      <4>4. b <= a
        BY <4>3
      <4> QED
        BY <4>2, <4>4
    <3>6. \A k \in 1 .. Len(f[i - 1]) : f[n][k] = f[i - 1][k]
      <4> TAKE k \in 1 .. Len(f[i - 1])
      <4>1. k \in 1 .. Len(f[i])
        BY <3>4, <3>5
      <4> QED
        BY <1>4, <3>3, <4>1
    <3> QED
      BY <3>1, <3>2, <3>3, <3>4, <3>5, <3>6, SMTT(30)
  <2> HIDE DEF G
  <2>3. \A j \in 0 .. n : j \in G
    BY <1>1, <2>1, <2>2, Induction
  <2> TAKE i \in 0 .. n
  <2>4. n - i \in 0 .. n /\ n - (n - i) = i
    BY <1>1
  <2>5. n - i \in G
    BY <2>3, <2>4
  <2> QED
    BY <2>4, <2>5 DEF G
<1>6. ASSUME NEW i \in 1 .. n, NEW k \in 1 .. Len(ss[i])
      PROVE  f[n][Len(f[i - 1]) + k] = ss[i][k]
  <2>1. i \in 0 .. n /\ i - 1 \in 0 .. n
    BY <1>1
  <2>2. Len(f[i - 1]) \in Nat /\ Len(ss[i]) \in Nat /\ Len(f[i]) = Len(f[i - 1]) + Len(ss[i])
    BY <1>1, <1>3, <1>4, <2>1
  <2>3. Len(f[i - 1]) + k \in 1 .. Len(f[i])
    <3>1. k \in Nat /\ k > 0 /\ k <= Len(ss[i])
      BY <2>2
    <3>2. PICK a, b, c : a = Len(f[i]) /\ b = Len(f[i - 1]) /\ c = Len(ss[i])
      OBVIOUS
    <3>5. Len(f[i]) \in Nat
      BY <1>3, <2>1
    <3>3. a \in Nat /\ b \in Nat /\ c \in Nat /\ a = b + c /\ k \in Nat /\ k > 0 /\ k <= c
      BY <2>2, <3>1, <3>2, <3>5, Zenon
    <3>4. b + k \in 1 .. a
      BY <3>3
    <3> QED
      BY <3>2, <3>4
  <2> QED
    BY <1>4, <1>5, <2>1, <2>3
<1> QED
  BY <1>3, <1>4, <1>5, <1>6 DEF Placed

LEMMA FlattenType ==
  ASSUME NEW S, NEW ss \in Seq(Seq(S))
  PROVE  FlattenSeq(ss) \in Seq(S)
<1>1. PICK f : Flattens(f, ss, S) /\ FlattenSeq(ss) = f[Len(ss)]
  BY FlattenIs
<1>2. Len(ss) \in 0 .. Len(ss)
  OBVIOUS
<1> QED
  BY <1>1, <1>2 DEF Flattens

-----------------------------------------------------------------------------
(* Memory and what points into it.                                         *)

Cells == Bytes \cup {-1}
Regions == Tlvs \cup {Caller}
Memories == [Regions -> Seq(Cells)]
Pointers == [in : Regions, at : Nat, len : Nat]

\* The bytes d points at are there and have been written.
Backed(m, d) ==
  d.len > 0 => /\ d.at + d.len <= Len(m[d.in])
               /\ \A i \in 1 .. d.len : m[d.in][d.at + i] \in Bytes

LEMMA PeekIs ==
  ASSUME NEW m \in Memories, NEW d \in Pointers, Backed(m, d)
  PROVE  /\ Peek(m, d) \in Seq(Bytes) /\ Len(Peek(m, d)) = d.len
         /\ \A i \in 1 .. d.len : Peek(m, d)[i] = m[d.in][d.at + i]
<1>1. m[d.in] \in Seq(Cells) /\ d.at \in Nat /\ d.len \in Nat
  BY DEF Memories, Pointers
<1>2. CASE d.len = 0
  <2>1. SubSeq(m[d.in], d.at + 1, d.at + d.len) = << >>
    BY <1>1, <1>2
  <2>2. [i \in 1 .. d.len |-> IF d.at + i <= Len(m[d.in]) THEN m[d.in][d.at + i] ELSE -1] = << >>
    BY <1>2
  <2>3. Peek(m, d) = << >>
    BY <2>1, <2>2 DEF Peek
  <2> QED
    BY <1>2, <2>3
<1>3. CASE d.len > 0
  <2>1. d.at + d.len <= Len(m[d.in]) /\ \A i \in 1 .. d.len : m[d.in][d.at + i] \in Bytes
    BY <1>3 DEF Backed
  <2>2. Peek(m, d) = SubSeq(m[d.in], d.at + 1, d.at + d.len)
    BY <2>1 DEF Peek
  <2>3. d.at + 1 \in Nat \ {0} /\ d.at + d.len \in Nat /\ d.at + 1 <= d.at + d.len + 1
        /\ d.at + d.len - (d.at + 1) + 1 = d.len
        /\ \A i \in 1 .. d.len : d.at + 1 + i - 1 = d.at + i
    BY <1>1, SMTT(30)
  <2>4. /\ Peek(m, d) \in Seq(Cells) /\ Len(Peek(m, d)) = d.len
        /\ \A i \in 1 .. d.len : Peek(m, d)[i] = m[d.in][d.at + i]
    <3>1. LET s == SubSeq(m[d.in], d.at + 1, d.at + d.len)
          IN  /\ s \in Seq(Cells) /\ Len(s) = d.len
              /\ \A i \in 1 .. d.len : s[i] = m[d.in][d.at + i]
      <4>1. PICK s, k, n : s = m[d.in] /\ k = d.at + 1 /\ n = d.at + d.len
        OBVIOUS
      <4>2. s \in Seq(Cells) /\ k \in Nat \ {0} /\ n \in Nat /\ n <= Len(s) /\ k <= n + 1
        BY <1>1, <2>1, <2>3, <4>1
      <4>3. /\ SubSeq(s, k, n) \in Seq(Cells) /\ Len(SubSeq(s, k, n)) = n - k + 1
            /\ \A i \in 1 .. n - k + 1 : SubSeq(s, k, n)[i] = s[k + i - 1]
        BY <4>2, PieceIs
      <4>6. PICK a, e : a = d.at /\ e = d.len
        OBVIOUS
      <4>7. a \in Nat /\ e \in Nat /\ k = a + 1 /\ n = a + e
        BY <1>1, <4>1, <4>6
      <4>8. n - k + 1 = e /\ \A i \in 1 .. e : k + i - 1 = a + i
        BY <4>7
      <4>4. n - k + 1 = d.len /\ \A i \in 1 .. d.len : k + i - 1 = d.at + i
        BY <4>6, <4>8
      <4>5. Len(SubSeq(s, k, n)) = d.len /\ \A i \in 1 .. d.len : SubSeq(s, k, n)[i] = s[d.at + i]
        BY <4>3, <4>4
      <4> QED
        BY <4>1, <4>3, <4>5
    <3> QED
      BY <2>2, <3>1
  <2>5. Peek(m, d) \in Seq(Bytes)
    BY <2>1, <2>4
  <2> QED
    BY <2>4, <2>5
<1> QED
  BY <1>1, <1>2, <1>3

\* The same bytes are said.
LEMMA PeekSame ==
  ASSUME NEW m \in Memories, NEW k \in Memories, NEW d \in Pointers, Backed(m, d),
         d.len > 0 => k[d.in] = m[d.in]
  PROVE  Peek(k, d) = Peek(m, d) /\ Backed(k, d)
<1>1. Backed(k, d)
  BY DEF Backed
<1>2. /\ Peek(m, d) \in Seq(Bytes) /\ Len(Peek(m, d)) = d.len
      /\ \A i \in 1 .. d.len : Peek(m, d)[i] = m[d.in][d.at + i]
  BY PeekIs
<1>3. /\ Peek(k, d) \in Seq(Bytes) /\ Len(Peek(k, d)) = d.len
      /\ \A i \in 1 .. d.len : Peek(k, d)[i] = k[d.in][d.at + i]
  BY <1>1, PeekIs
<1>4. \A i \in 1 .. d.len : Peek(m, d)[i] = Peek(k, d)[i]
  <2> TAKE i \in 1 .. d.len
  <2>1. d.len > 0
    BY DEF Pointers
  <2> QED
    BY <1>2, <1>3, <2>1
<1> QED
  BY <1>1, <1>2, <1>3, <1>4

-----------------------------------------------------------------------------
(* Recursion over what is nested in what.                                  *)

\* A set that has every TLV whose nested ones it has has all of them.
LEMMA TreeInduction ==
  ASSUME NEW ns, Acyclic(ns), NEW G, \A t \in Tlvs : Kids(ns, t) \cap Tlvs \subseteq G => t \in G
  PROVE  Tlvs \subseteq G
<1> DEFINE S == Tlvs \ G
<1>1. CASE S = {}
  BY <1>1
<1>2. CASE S # {}
  <2>1. PICK t \in S : Kids(ns, t) \cap S = {}
    BY <1>2 DEF Acyclic
  <2>2. t \in Tlvs /\ t \notin G /\ Kids(ns, t) \cap Tlvs \subseteq G
    BY <2>1
  <2> QED
    BY <2>2
<1> QED
  BY <1>1, <1>2

\* F[t] gives what t is from what those nested in it are.
FromNested(F, ns, V) ==
  /\ V # {} /\ \A t \in Tlvs : Kids(ns, t) \subseteq Tlvs
  /\ \A t \in Tlvs : \A f \in [Tlvs -> V] : F[t][f] \in V
  /\ \A t \in Tlvs : \A f, g \in [Tlvs -> V] :
       (\A k \in Kids(ns, t) : f[k] = g[k]) => F[t][f] = F[t][g]
Fulfils(f, F, V) == f \in [Tlvs -> V] /\ \A t \in Tlvs : f[t] = F[t][f]

\* Then there is a function that is that.
LEMMA TreeRecursion ==
  ASSUME NEW ns, Acyclic(ns), NEW V, NEW F, FromNested(F, ns, V)
  PROVE  \E f : Fulfils(f, F, V)
<1> USE DEF FromNested
<1> DEFINE Closed(P) == P \in SUBSET Tlvs /\ \A p \in P : Kids(ns, p) \subseteq P
           Solves(f, P) == f \in [Tlvs -> V] /\ \A t \in P : f[t] = F[t][f]
           Good1(f, P, t) == Closed(P) /\ Solves(f, P) /\ t \in P
           Solved == {t \in Tlvs : \E f, P : Good1(f, P, t)}
\* Two solutions agree where both are one.
<1>1. ASSUME NEW f, NEW g, NEW P, NEW Q, Closed(P), Solves(f, P), Closed(Q), Solves(g, Q), NEW t \in P \cap Q
      PROVE  f[t] = g[t]
  <2> DEFINE D == {u \in P \cap Q : f[u] # g[u]}
  <2>1. CASE D = {}
    BY <2>1
  <2>2. CASE D # {}
    <3>1. D \in SUBSET Tlvs
      BY <1>1
    <3>2. PICK u \in D : Kids(ns, u) \cap D = {}
      BY <2>2, <3>1 DEF Acyclic
    <3>3. Kids(ns, u) \subseteq P \cap Q
      BY <1>1, <3>2
    <3>4. \A k \in Kids(ns, u) : f[k] = g[k]
      BY <3>2, <3>3
    <3>5. F[u][f] = F[u][g]
      BY <1>1, <3>1, <3>2, <3>4
    <3>6. f[u] = F[u][f] /\ g[u] = F[u][g] /\ f[u] # g[u]
      BY <1>1, <3>2
    <3> QED
      BY <3>5, <3>6
  <2> QED
    BY <2>1, <2>2
<1>2. PICK v : v \in V
  OBVIOUS
<1> DEFINE sol(t) == CHOOSE z : Good1(z[1], z[2], t)
           h == [t \in Tlvs |-> IF t \in Solved THEN sol(t)[1][t] ELSE v]
<1>3. ASSUME NEW t \in Solved PROVE Good1(sol(t)[1], sol(t)[2], t)
  <2>1. PICK f, P : Good1(f, P, t)
    BY <1>3
  <2>2. << f, P >>[1] = f /\ << f, P >>[2] = P
    OBVIOUS
  <2> HIDE DEF Good1
  <2>3. \E z : Good1(z[1], z[2], t)
    BY <2>1, <2>2
  <2> QED
    BY <2>3
<1> HIDE DEF sol
<1>4. ASSUME NEW f, NEW P, NEW t, Good1(f, P, t) PROVE t \in Solved /\ P \subseteq Solved /\ h[t] = f[t]
  <2>1. t \in Tlvs /\ P \in SUBSET Tlvs
    BY <1>4
  <2>2. \A u \in P : Good1(f, P, u)
    BY <1>4
  <2>3. t \in Solved /\ P \subseteq Solved
    <3> HIDE DEF Good1
    <3> QED
      BY <1>4, <2>1, <2>2
  <2>4. Good1(sol(t)[1], sol(t)[2], t)
    BY <1>3, <2>3
  <2>5. sol(t)[1][t] = f[t]
    <3>1. PICK g, Q : g = sol(t)[1] /\ Q = sol(t)[2]
      OBVIOUS
    <3>2. Closed(Q) /\ Solves(g, Q) /\ t \in Q /\ Closed(P) /\ Solves(f, P) /\ t \in P
      BY <1>4, <2>4, <3>1
    <3> HIDE DEF Closed, Solves
    <3> QED
      BY <1>1, <3>1, <3>2
  <2> QED
    BY <2>1, <2>3, <2>5
<1>5. h \in [Tlvs -> V]
  <2>1. ASSUME NEW t \in Solved PROVE sol(t)[1][t] \in V
    BY <1>3, <2>1
  <2> HIDE DEF Solved
  <2> QED
    BY <1>2, <2>1
<1> HIDE DEF h
<1>6. Closed(Solved)
  <2>1. ASSUME NEW p \in Solved PROVE Kids(ns, p) \subseteq Solved
    <3>1. PICK f, P : Good1(f, P, p)
      BY <2>1
    <3>2. P \subseteq Solved
      BY <1>4, <3>1
    <3> QED
      BY <3>1, <3>2
  <2> QED
    BY <2>1
<1>7. Solves(h, Solved)
  <2>1. ASSUME NEW t \in Solved PROVE h[t] = F[t][h]
    <3>1. PICK f, P : Good1(f, P, t)
      BY <2>1
    <3>2. \A k \in P : h[k] = f[k]
      <4> TAKE k \in P
      <4>1. Good1(f, P, k)
        BY <3>1
      <4> HIDE DEF Good1
      <4> QED
        BY <1>4, <4>1
    <3>3. t \in P /\ Kids(ns, t) \subseteq P /\ f \in [Tlvs -> V] /\ f[t] = F[t][f] /\ t \in Tlvs
      BY <3>1
    <3>4. F[t][h] = F[t][f]
      BY <1>5, <3>2, <3>3
    <3> QED
      BY <3>2, <3>3, <3>4
  <2> QED
    BY <1>5, <2>1
<1>8. Tlvs \subseteq Solved
  <2>1. ASSUME NEW t \in Tlvs, Kids(ns, t) \cap Tlvs \subseteq Solved PROVE t \in Solved
    <3> DEFINE P == Solved \cup {t}
               f == [h EXCEPT ![t] = F[t][h]]
    <3>1. CASE t \in Solved
      BY <3>1
    <3>2. CASE t \notin Solved
      <4>1. Closed(P)
        BY <1>6, <2>1
      <4>2. f \in [Tlvs -> V] /\ f[t] = F[t][h] /\ \A k \in Solved : f[k] = h[k]
        BY <1>5, <1>6, <3>2
      <4> HIDE DEF f
      <4>3. ASSUME NEW k \in P PROVE f[k] = F[k][f]
        <5>1. Kids(ns, k) \subseteq Solved /\ k \in Tlvs
          BY <1>6, <2>1
        <5>2. \A j \in Kids(ns, k) : f[j] = h[j]
          BY <4>2, <5>1
        <5>3. F[k][f] = F[k][h]
          BY <1>5, <4>2, <5>1, <5>2
        <5>4. f[k] = F[k][h]
          BY <1>7, <4>2
        <5> QED
          BY <5>3, <5>4
      <4>4. Good1(f, P, t)
        BY <4>1, <4>2, <4>3
      <4> HIDE DEF Good1, Solved
      <4> QED
        BY <1>4, <4>4
    <3> QED
      BY <3>1, <3>2
  <2> HIDE DEF Solved
  <2> QED
    BY <2>1, TreeInduction
<1> QED
  BY <1>5, <1>7, <1>8 DEF Fulfils

-----------------------------------------------------------------------------
(* What the objects say.                                                   *)

\* The memory, and what the objects have in it.
Formed(ns, m) ==
  /\ m \in Memories
  /\ \A t \in Tlvs :
       /\ ns[t].tag \in 0 .. TypeSpan * Byte - 1 /\ ns[t].flags \in 0 .. 3
       /\ ns[t].data \in Pointers /\ Backed(m, ns[t].data)

Encoding(ns, f, c) == Header(ns[c].tag, ns[c].flags, Len(f[c])) \o f[c]
Encodings(ns, f, ids) == [i \in 1 .. Len(ids) |-> Encoding(ns, f, ids[i])]
Saying(ns, m, f, t) ==
  IF ns[t].type # "TLV" THEN Peek(m, ns[t].data) ELSE FlattenSeq(Encodings(ns, f, Elements(ns[t].nested)))
Says(f, ns, m) == f \in [Tlvs -> Seq(Bytes)] /\ \A t \in Tlvs : f[t] = Saying(ns, m, f, t)

LEMMA EncodingIs ==
  ASSUME NEW ns, NEW m, Formed(ns, m), NEW f, NEW c \in Tlvs, f[c] \in Seq(Bytes)
  PROVE  /\ Encoding(ns, f, c) \in Seq(Bytes)
         /\ Len(Encoding(ns, f, c)) = Len(Header(ns[c].tag, ns[c].flags, Len(f[c]))) + Len(f[c])
<1>1. ns[c].tag \in 0 .. TypeSpan * Byte - 1 /\ ns[c].flags \in 0 .. 3 /\ Len(f[c]) \in Nat
  BY DEF Formed
<1>2. PICK h : h = Header(ns[c].tag, ns[c].flags, Len(f[c]))
  OBVIOUS
<1>3. h \in Seq(Bytes)
  BY <1>1, <1>2, HeaderIs
<1>4. h \o f[c] \in Seq(Bytes) /\ Len(h \o f[c]) = Len(h) + Len(f[c])
  BY <1>3, JoinIs
<1> QED
  BY <1>2, <1>4 DEF Encoding

LEMMA EncodingsAre ==
  ASSUME NEW ns, NEW m, Formed(ns, m), NEW f, NEW ids \in Seq(Tlvs), \A c \in ToSet(ids) : f[c] \in Seq(Bytes)
  PROVE  Encodings(ns, f, ids) \in Seq(Seq(Bytes)) /\ Len(Encodings(ns, f, ids)) = Len(ids)
<1>1. ASSUME NEW i \in 1 .. Len(ids) PROVE Encoding(ns, f, ids[i]) \in Seq(Bytes)
  <2>1. ids[i] \in Tlvs /\ ids[i] \in ToSet(ids)
    BY DEF ToSet
  <2> QED
    BY <2>1, EncodingIs
<1>2. Len(ids) \in Nat
  OBVIOUS
<1> QED
  BY <1>1, <1>2 DEF Encodings

LEMMA SayingIs ==
  ASSUME NEW ns, Objects(ns), NEW m, Formed(ns, m), NEW f, NEW t \in Tlvs, \A k \in Kids(ns, t) : f[k] \in Seq(Bytes)
  PROVE  Saying(ns, m, f, t) \in Seq(Bytes)
<1>1. ns[t].nested \in Lists
  BY ObjectsListed DEF Listed
<1>2. CASE ns[t].type # "TLV"
  <2>1. m \in Memories /\ ns[t].data \in Pointers /\ Backed(m, ns[t].data)
    BY DEF Formed
  <2>2. Peek(m, ns[t].data) \in Seq(Bytes)
    BY <2>1, PeekIs
  <2> QED
    BY <1>2, <2>2 DEF Saying
<1>3. CASE ns[t].type = "TLV"
  <2>1. PICK ids : ids = Elements(ns[t].nested)
    OBVIOUS
  <2>2. ids \in Seq(Tlvs) /\ \A c \in ToSet(ids) : f[c] \in Seq(Bytes)
    BY <1>1, <2>1, ElementsAre DEF Kids
  <2>3. Encodings(ns, f, ids) \in Seq(Seq(Bytes))
    BY <2>2, EncodingsAre
  <2>4. FlattenSeq(Encodings(ns, f, ids)) \in Seq(Bytes)
    BY <2>3, FlattenType
  <2> QED
    BY <1>3, <2>1, <2>4 DEF Saying
<1> QED
  BY <1>2, <1>3

\* What a TLV says depends on what is nested in it.
LEMMA SayingSame ==
  ASSUME NEW ns, Objects(ns), NEW m, NEW f, NEW g, NEW t \in Tlvs, \A k \in Kids(ns, t) : f[k] = g[k]
  PROVE  Saying(ns, m, f, t) = Saying(ns, m, g, t)
<1>1. ns[t].nested \in Lists
  BY ObjectsListed DEF Listed
<1>2. PICK ids : ids = Elements(ns[t].nested)
  OBVIOUS
<1>3. ids \in Seq(Tlvs) /\ \A c \in ToSet(ids) : f[c] = g[c]
  BY <1>1, <1>2, ElementsAre DEF Kids
<1>4. \A i \in 1 .. Len(ids) : Encoding(ns, f, ids[i]) = Encoding(ns, g, ids[i])
  <2> TAKE i \in 1 .. Len(ids)
  <2>1. ids[i] \in ToSet(ids)
    BY <1>3 DEF ToSet
  <2>2. f[ids[i]] = g[ids[i]]
    BY <1>3, <2>1
  <2> QED
    BY <2>2 DEF Encoding
<1>5. Encodings(ns, f, ids) = Encodings(ns, g, ids)
  BY <1>4 DEF Encodings
<1> QED
  BY <1>2, <1>5 DEF Saying

LEMMA PayloadIs ==
  ASSUME NEW ns, Objects(ns), Acyclic(ns), NEW m, Formed(ns, m)
  PROVE  Says(PayloadIn(ns, m), ns, m)
<1> DEFINE V == Seq(Bytes)
           e(f, t) == IF ns[t].type # "TLV" THEN Peek(m, ns[t].data)
                      ELSE FlattenSeq([i \in 1 .. Length(ns[t].nested) |->
                             LET c == ElementAt(ns[t].nested, i)
                             IN Header(ns[c].tag, ns[c].flags, Len(f[c])) \o f[c]])
           P(f) == f = [t \in Tlvs |-> e(f, t)]
           F == [t \in Tlvs |-> [f \in [Tlvs -> V] |-> Saying(ns, m, f, t)]]
<1>1. \A t \in Tlvs : ns[t].nested \in Lists /\ Kids(ns, t) \subseteq Tlvs
  <2> TAKE t \in Tlvs
  <2>1. ns[t].nested \in Lists
    BY ObjectsListed DEF Listed
  <2>2. Elements(ns[t].nested) \in Seq(Tlvs)
    BY <2>1, ElementsAre
  <2> QED
    BY <2>1, <2>2 DEF Kids, ToSet
<1>2. ASSUME NEW f, NEW t \in Tlvs PROVE e(f, t) = Saying(ns, m, f, t)
  <2>1. PICK l : l = ns[t].nested
    OBVIOUS
  <2>2. l \in Lists /\ l.len \in Nat
    BY <1>1, <2>1 DEF Lists
  <2>3. /\ Elements(l) \in Seq(Tlvs) /\ Len(Elements(l)) = l.len
        /\ \A i \in 1 .. l.len : Elements(l)[i] = l.arr[i]
    BY <2>2, ElementsAre
  <2>4. Length(l) = l.len /\ \A i \in 1 .. l.len : ElementAt(l, i) = Elements(l)[i]
    BY <2>3 DEF Length, ElementAt
  <2>5. [i \in 1 .. Length(l) |-> LET c == ElementAt(l, i)
                                 IN Header(ns[c].tag, ns[c].flags, Len(f[c])) \o f[c]]
          = Encodings(ns, f, Elements(l))
    BY <2>3, <2>4 DEF Encodings, Encoding
  <2> QED
    BY <2>1, <2>5 DEF Saying
<1>3. PICK f : Fulfils(f, F, V)
  <2>1. V # {}
    <3>1. << >> \in Seq(Bytes)
      OBVIOUS
    <3> QED
      BY <3>1
  <2>2. \A t \in Tlvs : \A f \in [Tlvs -> V] : F[t][f] \in V
    <3> TAKE t \in Tlvs
    <3> TAKE f \in [Tlvs -> V]
    <3>1. \A k \in Kids(ns, t) : f[k] \in Seq(Bytes)
      BY <1>1
    <3>2. Saying(ns, m, f, t) \in Seq(Bytes)
      BY <3>1, SayingIs
    <3> QED
      BY <3>2
  <2>3. \A t \in Tlvs : \A f, g \in [Tlvs -> V] : (\A k \in Kids(ns, t) : f[k] = g[k]) => F[t][f] = F[t][g]
    <3> TAKE t \in Tlvs
    <3> TAKE f, g \in [Tlvs -> V]
    <3> HAVE \A k \in Kids(ns, t) : f[k] = g[k]
    <3>1. Saying(ns, m, f, t) = Saying(ns, m, g, t)
      BY SayingSame
    <3> QED
      BY <3>1
  <2> HIDE DEF V, F
  <2> QED
    <3>1. FromNested(F, ns, V)
      BY <1>1, <2>1, <2>2, <2>3 DEF FromNested
    <3> QED
      BY <3>1, TreeRecursion
<1>4. P(f)
  <2>1. \A t \in Tlvs : f[t] = e(f, t)
    <3> TAKE t \in Tlvs
    <3>1. f[t] = Saying(ns, m, f, t)
      BY <1>3 DEF Fulfils
    <3> QED
      BY <1>2, <3>1
  <2> HIDE DEF e
  <2> QED
    BY <1>3, <2>1 DEF Fulfils
<1>5. PayloadIn(ns, m) = CHOOSE g : P(g)
  BY DEF PayloadIn
<1>6. PICK g : g = PayloadIn(ns, m)
  OBVIOUS
<1> HIDE DEF P
<1>7. P(g)
  BY <1>4, <1>5, <1>6
<1>8. g = [t \in Tlvs |-> g[t]] /\ \A t \in Tlvs : g[t] = Saying(ns, m, g, t)
  <2> HIDE DEF e
  <2>1. g = [t \in Tlvs |-> e(g, t)]
    BY <1>7 DEF P
  <2>2. \A t \in Tlvs : g[t] = e(g, t)
    BY <2>1
  <2> QED
    BY <1>2, <2>1, <2>2
<1> DEFINE G == {t \in Tlvs : g[t] \in Seq(Bytes)}
<1>9. Tlvs \subseteq G
  <2>1. ASSUME NEW t \in Tlvs, Kids(ns, t) \cap Tlvs \subseteq G PROVE t \in G
    <3>1. \A k \in Kids(ns, t) : g[k] \in Seq(Bytes)
      BY <1>1, <2>1
    <3>2. Saying(ns, m, g, t) \in Seq(Bytes)
      BY <3>1, SayingIs
    <3> QED
      BY <1>8, <3>2
  <2> HIDE DEF G
  <2> QED
    BY <2>1, TreeInduction
<1>10. g \in [Tlvs -> Seq(Bytes)]
  BY <1>8, <1>9
<1> QED
  BY <1>6, <1>8, <1>10 DEF Says

\* Two arrangements say the same of the TLVs of S, when those are the same in both, or are
\* known to say the same.
LEMMA SayingKept ==
  ASSUME NEW ns, Objects(ns), Acyclic(ns), NEW m, Formed(ns, m),
         NEW ks, Objects(ks), Acyclic(ks), NEW k, Formed(ks, k),
         NEW S \in SUBSET Tlvs,
         \A t \in S :
           \/ PayloadIn(ks, k)[t] = PayloadIn(ns, m)[t]
           \/ /\ Kids(ns, t) \subseteq S /\ Elements(ks[t].nested) = Elements(ns[t].nested)
              /\ (ks[t].type = "TLV") = (ns[t].type = "TLV")
              /\ ns[t].type # "TLV" => Peek(k, ks[t].data) = Peek(m, ns[t].data),
         \A t \in S : ks[t].tag = ns[t].tag /\ ks[t].flags = ns[t].flags
  PROVE  \A t \in S : PayloadIn(ks, k)[t] = PayloadIn(ns, m)[t]
<1>1. PICK f, g : f = PayloadIn(ns, m) /\ g = PayloadIn(ks, k)
  OBVIOUS
<1>2. Says(f, ns, m) /\ Says(g, ks, k)
  BY <1>1, PayloadIs
<1> DEFINE G == {t \in Tlvs : t \in S => g[t] = f[t]}
<1>3. ASSUME NEW t \in Tlvs, Kids(ns, t) \cap Tlvs \subseteq G PROVE t \in G
  <2> SUFFICES ASSUME t \in S PROVE g[t] = f[t]
    OBVIOUS
  <2>1. CASE g[t] = f[t]
    BY <2>1
  <2>2. CASE /\ Kids(ns, t) \subseteq S /\ Elements(ks[t].nested) = Elements(ns[t].nested)
             /\ (ks[t].type = "TLV") = (ns[t].type = "TLV")
             /\ ns[t].type # "TLV" => Peek(k, ks[t].data) = Peek(m, ns[t].data)
    <3>1. PICK ids : ids = Elements(ns[t].nested)
      OBVIOUS
    <3>2. ids \in Seq(Tlvs) /\ ToSet(ids) = Kids(ns, t)
      <4>1. ns[t].nested \in Lists
        BY ObjectsListed DEF Listed
      <4> QED
        BY <3>1, <4>1, ElementsAre DEF Kids
    <3>3. \A i \in 1 .. Len(ids) : Encoding(ks, g, ids[i]) = Encoding(ns, f, ids[i])
      <4> TAKE i \in 1 .. Len(ids)
      <4>1. ids[i] \in ToSet(ids)
        BY <3>2 DEF ToSet
      <4>2. ids[i] \in Kids(ns, t) /\ ids[i] \in S
        BY <2>2, <3>2, <4>1
      <4>3. g[ids[i]] = f[ids[i]]
        BY <1>3, <4>2
      <4> QED
        BY <4>2, <4>3 DEF Encoding
    <3>4. Encodings(ks, g, ids) = Encodings(ns, f, ids)
      BY <3>3 DEF Encodings
    <3>5. Saying(ks, k, g, t) = Saying(ns, m, f, t)
      BY <2>2, <3>1, <3>4 DEF Saying
    <3>6. g[t] = Saying(ks, k, g, t) /\ f[t] = Saying(ns, m, f, t)
      BY <1>2 DEF Says
    <3> QED
      BY <3>5, <3>6
  <2> QED
    BY <1>1, <2>1, <2>2
<1> HIDE DEF G
<1>4. Tlvs \subseteq G
  BY <1>3, TreeInduction
<1> QED
  BY <1>1, <1>4 DEF G

-----------------------------------------------------------------------------
(* How a payload falls into TLVs.                                          *)

\* A header that is as short as serializeTlv makes it is the one serializeTlv makes.
LEMMA ReadIsWritten ==
  ASSUME NEW b \in Seq(Bytes), NEW h, h = ReadFirst(b), h.size > 0,
         h.size = Len(Header(h.tag, h.flags, h.len))
  PROVE  \A i \in 1 .. h.size : b[i] = Header(h.tag, h.flags, h.len)[i]
<1>1. /\ TypeSpan \in Nat /\ TypeSpan > 0 /\ Byte \in Nat /\ Byte > 0 /\ Byte = 8 * TypeSpan
      /\ Bytes = 0 .. Byte - 1
  BY Units DEF Bytes
<1>2. h.size \in {2, 4} /\ h.size <= Len(b) /\ Len(b) \in Nat /\ h.tag \in Nat /\ h.flags \in 0 .. 3
      /\ h.tag \in 0 .. TypeSpan * Byte - 1 /\ h.len \in Nat
  <2>1. h.size \in {0, 2, 4} /\ h.size + h.len <= Len(b) /\ h.len \in Nat
        /\ h.tag \in 0 .. TypeSpan * Byte - 1 /\ h.flags \in 0 .. 3
    BY FirstIs, Zenon
  <2>2. Len(b) \in Nat /\ h.size \in {2, 4}
    BY <2>1
  <2>3. h.size <= Len(b)
    BY <2>1, <2>2
  <2>4. h.tag \in Nat
    BY <1>1, <2>1
  <2> QED
    BY <2>1, <2>2, <2>3, <2>4
<1> HIDE DEF Byte, Bytes
<1>3. h = ReadHeader(b) /\ ~(Len(b) < 2 \/ (b[1] >= 4 * TypeSpan /\ Len(b) < 4))
  BY DEF ReadFirst, ReadHeader, Cut
<1> DEFINE first == b[1] \div TypeSpan
           low == b[1] % TypeSpan
<1>4. b[1] \in 0 .. Byte - 1 /\ b[2] \in 0 .. Byte - 1
  BY <1>1, <1>2
<1>5. first \in Nat /\ low \in 0 .. TypeSpan - 1 /\ b[1] = TypeSpan * first + low /\ first < 8
  <2>1. b[1] \in Nat /\ b[1] < 8 * TypeSpan
    BY <1>1, <1>4
  <2> QED
    BY <1>1, <2>1, Digits, DigitsBelow
<1> DEFINE flags == first % 4
<1>6. CASE b[1] >= 4 * TypeSpan
  <2>1. h = [size |-> 4, tag |-> low * Byte + b[2], flags |-> flags, len |-> b[3] * Byte + b[4]]
    BY <1>3, <1>6 DEF ReadHeader
  <2>2. b[3] \in 0 .. Byte - 1 /\ b[4] \in 0 .. Byte - 1 /\ Len(b) >= 4
    <3>1. h.size = 4
      BY <2>1
    <3>2. Len(b) >= 4
      BY <1>2, <3>1
    <3>3. 3 \in 1 .. Len(b) /\ 4 \in 1 .. Len(b)
      BY <1>2, <3>2
    <3> QED
      BY <1>1, <3>2, <3>3
  <2>3. first >= 4
    <3>1. ASSUME first < 4 PROVE FALSE
      <4>1. first \in Nat /\ first <= 3
        BY <1>5, <3>1
      <4>2. PICK q : q = first
        OBVIOUS
      <4>3. q * TypeSpan <= 3 * TypeSpan /\ TypeSpan * q = q * TypeSpan /\ q * TypeSpan \in Nat
        BY <1>1, <4>1, <4>2, Products
      <4>4. b[1] = TypeSpan * q + low /\ low \in 0 .. TypeSpan - 1
        BY <1>5, <4>2
      <4> HIDE DEF first, low
      <4> QED
        BY <1>1, <1>6, <4>3, <4>4
    <3> QED
      BY <1>5, <3>1
  <2>4. first = 4 + flags /\ flags \in 0 .. 3
    BY <1>5, <2>3
  <2>5. /\ (low * Byte + b[2]) \div Byte = low /\ (low * Byte + b[2]) % Byte = b[2]
        /\ (b[3] * Byte + b[4]) \div Byte = b[3] /\ (b[3] * Byte + b[4]) % Byte = b[4]
    <3>1. low \in Nat /\ b[2] \in 0 .. Byte - 1 /\ b[3] \in Nat /\ b[4] \in 0 .. Byte - 1
      BY <1>1, <1>4, <1>5, <2>2
    <3> HIDE DEF low
    <3> QED
      BY <1>1, <3>1, DigitsOf, Zenon
  <2>6. b[3] % Byte = b[3]
    <3>1. PICK q : q = b[3]
      OBVIOUS
    <3>2. q \in 0 .. Byte - 1 /\ 0 * Byte + q = q /\ 0 \in Nat
      BY <1>1, <2>2, <3>1
    <3>3. (0 * Byte + q) % Byte = q
      BY <1>1, <3>2, DigitsOf, Zenon
    <3> QED
      BY <3>1, <3>2, <3>3
  <2>7. 4 * TypeSpan + flags * TypeSpan + low = b[1]
    <3>1. b[1] = TypeSpan * (4 + flags) + low
      BY <1>5, <2>4
    <3> HIDE DEF first, low
    <3>2. flags \in {0, 1, 2, 3}
      BY <2>4
    <3> HIDE DEF flags
    <3>3. TypeSpan * (4 + flags) = 4 * TypeSpan + flags * TypeSpan
      BY <1>1, <3>2
    <3> QED
      BY <1>1, <1>5, <3>1, <3>2, <3>3
  <2>8. h.tag = low * Byte + b[2] /\ h.flags = flags /\ h.len = b[3] * Byte + b[4] /\ h.size = 4
    BY <2>1
  <2> HIDE DEF first, low, flags
  <2>9. Header(h.tag, h.flags, h.len) = << 4 * TypeSpan + flags * TypeSpan + low, b[2], b[3], b[4] >>
    <3>1. CASE h.len > Byte - 1 \/ h.tag > TypeSpan - 1
      BY <2>5, <2>6, <2>8, <3>1 DEF Header
    <3>2. CASE ~(h.len > Byte - 1 \/ h.tag > TypeSpan - 1)
      <4>1. Header(h.tag, h.flags, h.len) = << h.flags * TypeSpan + h.tag, h.len >>
        BY <3>2 DEF Header
      <4>2. PICK x, y : x = h.flags * TypeSpan + h.tag /\ y = h.len
        OBVIOUS
      <4>3. Len(<< x, y >>) = 2
        OBVIOUS
      <4>4. h.size = 2
        BY <4>1, <4>2, <4>3
      <4> QED
        BY <2>8, <4>4
    <3> QED
      BY <3>1, <3>2
  <2>10. Header(h.tag, h.flags, h.len) = << b[1], b[2], b[3], b[4] >>
    BY <2>7, <2>9
  <2>11. \A i \in 1 .. 4 : i \in {1, 2, 3, 4}
    OBVIOUS
  <2> QED
    BY <2>8, <2>10, <2>11
<1>7. CASE ~(b[1] >= 4 * TypeSpan)
  <2>1. h = [size |-> 2, tag |-> low, flags |-> flags, len |-> b[2]]
    BY <1>3, <1>7 DEF ReadHeader
  <2>2. first < 4
    <3>1. b[1] \in Nat /\ b[1] < 4 * TypeSpan
      BY <1>1, <1>4, <1>7
    <3> QED
      BY <1>1, <3>1, DigitsBelow
  <2>3. first = flags /\ first \in {0, 1, 2, 3}
    BY <1>5, <2>2
  <2>4. h.tag = low /\ h.flags = flags /\ h.len = b[2] /\ h.size = 2
    BY <2>1
  <2>5. ~(h.len > Byte - 1 \/ h.tag > TypeSpan - 1)
    <3>1. b[2] \in Nat /\ b[2] <= Byte - 1 /\ low \in Nat /\ low <= TypeSpan - 1
      BY <1>1, <1>4, <1>5
    <3>2. PICK x, y : x = h.len /\ y = h.tag
      OBVIOUS
    <3>3. x \in Nat /\ x <= Byte - 1 /\ y \in Nat /\ y <= TypeSpan - 1
      BY <2>4, <3>1, <3>2
    <3>4. ~(x > Byte - 1 \/ y > TypeSpan - 1)
      BY <1>1, <3>3
    <3> QED
      BY <3>2, <3>4
  <2>6. Header(h.tag, h.flags, h.len) = << flags * TypeSpan + low, b[2] >>
    BY <2>4, <2>5 DEF Header
  <2> HIDE DEF first, low, flags
  <2>7. flags * TypeSpan + low = b[1]
    BY <1>1, <1>5, <2>3
  <2>8. \A i \in 1 .. 2 : i \in {1, 2}
    OBVIOUS
  <2> QED
    BY <2>4, <2>6, <2>7, <2>8
<1> QED
  BY <1>6, <1>7

ReadAt(b, s) == ReadFirst(SubSeq(b, s + 1, Len(b)))

LEMMA ReadAtIs ==
  ASSUME NEW b \in Seq(Bytes), NEW s \in 0 .. Len(b)
  PROVE  LET h == ReadAt(b, s)
         IN  /\ h = [size |-> h.size, tag |-> h.tag, flags |-> h.flags, len |-> h.len]
             /\ h.size \in {0, 2, 4} /\ s + h.size + h.len <= Len(b) /\ s + h.size + h.len \in 0 .. Len(b)
             /\ h.tag \in 0 .. TypeSpan * Byte - 1 /\ h.flags \in 0 .. 3 /\ h.len \in Nat
<1>1. PICK c : c = SubSeq(b, s + 1, Len(b))
  OBVIOUS
<1>2. Len(b) \in Nat /\ s \in Nat /\ s <= Len(b) /\ s + 1 \in Nat \ {0}
  OBVIOUS
<1>3. c \in Seq(Bytes) /\ Len(c) = Len(b) - s
  BY <1>1, <1>2, PieceIs
<1>4. PICK h : h = ReadFirst(c)
  OBVIOUS
<1>5. /\ h = [size |-> h.size, tag |-> h.tag, flags |-> h.flags, len |-> h.len]
      /\ h.size \in {0, 2, 4} /\ h.size + h.len <= Len(c)
      /\ h.tag \in 0 .. TypeSpan * Byte - 1 /\ h.flags \in 0 .. 3 /\ h.len \in Nat
  BY <1>3, <1>4, FirstIs
<1>6. s + h.size + h.len <= Len(b) /\ s + h.size + h.len \in 0 .. Len(b)
  BY <1>2, <1>3, <1>5
<1> QED
  BY <1>1, <1>4, <1>5, <1>6 DEF ReadAt

\* One turn of encodeAsNestedTlvs.
ReadOn(b, r) ==
  LET h == ReadAt(b, r.at)
  IN  IF r.at = Len(b) \/ h.size = 0 THEN r
      ELSE [starts |-> Append(r.starts, r.at), at |-> r.at + h.size + h.len]

LEMMA SplittingUnfolds ==
  ASSUME NEW b, Len(b) \in Nat
  PROVE  /\ Splitting(b)[0] = [starts |-> << >>, at |-> 0]
         /\ \A n \in 1 .. Len(b) : Splitting(b)[n] = ReadOn(b, Splitting(b)[n - 1])
<1> DEFINE r0 == [starts |-> << >>, at |-> 0]
           e(f, n) == IF n = 0 THEN [starts |-> << >>, at |-> 0]
                      ELSE LET r == f[n - 1]  h == ReadFirst(SubSeq(b, r.at + 1, Len(b)))
                           IN IF r.at = Len(b) \/ h.size = 0 THEN r
                              ELSE [starts |-> Append(r.starts, r.at), at |-> r.at + h.size + h.len]
           P(f) == f = [n \in 0 .. Len(b) |-> e(f, n)]
           Fits(f, k) == f[0] = r0 /\ \A n \in 1 .. k : f[n] = ReadOn(b, f[n - 1])
           G == {k \in 0 .. Len(b) : \E f : Fits(f, k)}
<1>1. \A f, n : e(f, n) = IF n = 0 THEN r0 ELSE ReadOn(b, f[n - 1])
  BY DEF ReadOn, ReadAt
<1>2. \A n \in 0 .. Len(b) : n \in G
  <2>1. 0 \in G
    <3> DEFINE f == [n \in 0 .. 0 |-> r0]
    <3>1. f[0] = r0 /\ \A n \in 1 .. 0 : FALSE
      OBVIOUS
    <3> HIDE DEF f
    <3>2. Fits(f, 0)
      BY <3>1
    <3> HIDE DEF Fits
    <3> QED
      BY <3>2
  <2>2. ASSUME NEW k \in 0 .. Len(b) - 1, k \in G PROVE k + 1 \in G
    <3>1. PICK f : Fits(f, k)
      BY <2>2
    <3> DEFINE g == [n \in 0 .. k + 1 |-> IF n = k + 1 THEN ReadOn(b, f[k]) ELSE f[n]]
    <3>2. k \in Nat /\ k + 1 \in 0 .. Len(b)
      OBVIOUS
    <3>3. g[0] = r0
      BY <3>1, <3>2
    <3>4. \A n \in 1 .. k + 1 : g[n] = ReadOn(b, g[n - 1])
      <4> TAKE n \in 1 .. k + 1
      <4>1. n - 1 \in 0 .. k + 1 /\ n \in 0 .. k + 1 /\ n - 1 # k + 1
        BY <3>2
      <4>2. g[n - 1] = f[n - 1]
        BY <4>1
      <4>3. CASE n = k + 1
        <5>1. n - 1 = k
          BY <3>2, <4>3
        <5>2. g[n] = ReadOn(b, f[k])
          BY <4>1, <4>3
        <5> QED
          BY <4>2, <5>1, <5>2
      <4>4. CASE n # k + 1
        <5>1. n \in 1 .. k
          BY <3>2, <4>4
        <5>2. g[n] = f[n]
          BY <4>1, <4>4
        <5>3. f[n] = ReadOn(b, f[n - 1])
          BY <3>1, <5>1
        <5> QED
          BY <4>2, <5>2, <5>3
      <4> QED
        BY <4>3, <4>4
    <3> HIDE DEF g
    <3>5. Fits(g, k + 1)
      BY <3>3, <3>4
    <3> HIDE DEF Fits
    <3> QED
      BY <3>2, <3>5
  <2> HIDE DEF G
  <2> QED
    BY <2>1, <2>2, Induction
<1>3. PICK f : Fits(f, Len(b))
  <2>1. Len(b) \in 0 .. Len(b)
    OBVIOUS
  <2> HIDE DEF Fits
  <2> QED
    BY <1>2, <2>1
<1> DEFINE g == [n \in 0 .. Len(b) |-> f[n]]
<1> HIDE DEF e
<1>4. P(g)
  <2>1. \A n \in 0 .. Len(b) : g[n] = e(g, n)
    <3> TAKE n \in 0 .. Len(b)
    <3>1. CASE n = 0
      <4>1. e(g, n) = r0 /\ g[n] = f[n]
        BY <1>1, <3>1
      <4> QED
        BY <1>3, <3>1, <4>1
    <3>2. CASE n # 0
      <4>1. n \in 1 .. Len(b) /\ n - 1 \in 0 .. Len(b)
        BY <3>2
      <4>2. f[n] = ReadOn(b, f[n - 1]) /\ g[n] = f[n] /\ g[n - 1] = f[n - 1]
        BY <1>3, <4>1
      <4>3. e(g, n) = ReadOn(b, g[n - 1])
        BY <1>1, <3>2
      <4> QED
        BY <4>2, <4>3
    <3> QED
      BY <3>1, <3>2
  <2>2. g = [n \in 0 .. Len(b) |-> g[n]]
    OBVIOUS
  <2> HIDE DEF g
  <2> QED
    BY <2>1, <2>2
<1>5. Splitting(b) = CHOOSE f1 : P(f1)
  BY DEF Splitting, e
<1> HIDE DEF P
<1>6. PICK s : s = Splitting(b)
  OBVIOUS
<1>7. P(s)
  BY <1>4, <1>5, <1>6
<1>8. \A n \in 0 .. Len(b) : s[n] = e(s, n)
  BY <1>7 DEF P
<1>9. s[0] = r0
  <2>1. 0 \in 0 .. Len(b)
    OBVIOUS
  <2> QED
    BY <1>1, <1>8, <2>1
<1>10. \A n \in 1 .. Len(b) : s[n] = ReadOn(b, s[n - 1])
  <2> TAKE n \in 1 .. Len(b)
  <2>1. n \in 0 .. Len(b) /\ n # 0
    OBVIOUS
  <2> QED
    BY <1>1, <1>8, <2>1
<1> QED
  BY <1>6, <1>9, <1>10

\* Where the TLV at s ends, and where the first i of those at ss end.
After(b, s) == s + ReadAt(b, s).size + ReadAt(b, s).len
Reach(b, ss, i) == IF i = 0 THEN 0 ELSE After(b, ss[i])
\* The TLVs of b begin at ss and end at `at`.
Walk(b, ss, at) ==
  /\ ss \in Seq(0 .. Len(b)) /\ at = Reach(b, ss, Len(ss))
  /\ \A i \in 1 .. Len(ss) : ss[i] = Reach(b, ss, i - 1) /\ ReadAt(b, ss[i]).size > 0

LEMMA ReachIs ==
  ASSUME NEW b \in Seq(Bytes), NEW ss, NEW at, Walk(b, ss, at)
  PROVE  /\ \A i \in 0 .. Len(ss) : Reach(b, ss, i) \in 0 .. Len(b)
         /\ \A i \in 1 .. Len(ss) : /\ Reach(b, ss, i - 1) = ss[i] /\ ss[i] \in 0 .. Len(b)
                                    /\ ss[i] < Reach(b, ss, i) /\ Reach(b, ss, i) = After(b, ss[i])
<1>1. ss \in Seq(0 .. Len(b)) /\ Len(ss) \in Nat /\ Len(b) \in Nat
  BY DEF Walk
<1>2. ASSUME NEW i \in 1 .. Len(ss)
      PROVE  /\ Reach(b, ss, i - 1) = ss[i] /\ ss[i] \in 0 .. Len(b)
             /\ ss[i] < Reach(b, ss, i) /\ Reach(b, ss, i) = After(b, ss[i]) /\ Reach(b, ss, i) \in 0 .. Len(b)
  <2>1. PICK s : s = ss[i]
    OBVIOUS
  <2>2. s \in 0 .. Len(b)
    BY <1>1, <2>1
  <2>3. PICK h : h = ReadAt(b, s)
    OBVIOUS
  <2>4. h.size \in {0, 2, 4} /\ s + h.size + h.len \in 0 .. Len(b) /\ h.len \in Nat
    BY <2>2, <2>3, ReadAtIs, Zenon
  <2>5. h.size > 0 /\ Reach(b, ss, i - 1) = ss[i]
    BY <2>1, <2>3 DEF Walk
  <2>6. s < s + h.size + h.len
    <3>1. PICK x, y : x = h.size /\ y = h.len
      OBVIOUS
    <3>2. x \in Nat /\ x > 0 /\ y \in Nat /\ s \in Nat
      BY <2>2, <2>4, <2>5, <3>1
    <3>3. s < s + x + y
      BY <3>2
    <3> QED
      BY <3>1, <3>3
  <2>7. Reach(b, ss, i) = After(b, s) /\ After(b, s) = s + h.size + h.len
    BY <2>1, <2>3 DEF Reach, After
  <2> QED
    BY <2>1, <2>2, <2>4, <2>5, <2>6, <2>7
<1>3. Reach(b, ss, 0) = 0 /\ 0 \in 0 .. Len(b)
  BY <1>1 DEF Reach
<1>4. ASSUME NEW i \in 0 .. Len(ss) PROVE Reach(b, ss, i) \in 0 .. Len(b)
  <2>1. CASE i = 0
    BY <1>3, <2>1
  <2>2. CASE i # 0
    <3>1. i \in 1 .. Len(ss)
      BY <1>1, <2>2
    <3> QED
      BY <1>2, <3>1
  <2> QED
    BY <2>1, <2>2
<1> QED
  BY <1>2, <1>4

\* What Split finds is a way through b.
LEMMA SplitIs ==
  ASSUME NEW b \in Seq(Bytes)
  PROVE  Split(b) = << -1 >> \/ Walk(b, Split(b), Len(b))
<1>1. Len(b) \in Nat
  OBVIOUS
<1>2. PICK r : r = Splitting(b)
  OBVIOUS
<1>3. r[0] = [starts |-> << >>, at |-> 0] /\ \A n \in 1 .. Len(b) : r[n] = ReadOn(b, r[n - 1])
  BY <1>1, <1>2, SplittingUnfolds
<1> DEFINE G == {n \in 0 .. Len(b) : Walk(b, r[n].starts, r[n].at)}
<1>4. 0 \in G
  <2>1. r[0].starts = << >> /\ r[0].at = 0 /\ 0 \in 0 .. Len(b)
    BY <1>1, <1>3
  <2>2. << >> \in Seq(0 .. Len(b)) /\ Len(<< >>) = 0
    OBVIOUS
  <2>3. Walk(b, << >>, 0)
    BY <2>2 DEF Walk, Reach
  <2> QED
    BY <2>1, <2>3
<1>5. ASSUME NEW n \in 0 .. Len(b) - 1, n \in G PROVE n + 1 \in G
  <2>1. PICK j : j = n + 1
    OBVIOUS
  <2>2. j \in 1 .. Len(b) /\ j - 1 = n /\ j \in 0 .. Len(b)
    BY <1>1, <2>1
  <2>3. PICK ss, at : ss = r[n].starts /\ at = r[n].at
    OBVIOUS
  <2>4. Walk(b, ss, at)
    BY <1>5, <2>3
  <2>5. r[j] = ReadOn(b, r[n])
    BY <1>3, <2>2
  <2>6. ss \in Seq(0 .. Len(b)) /\ Len(ss) \in Nat /\ at \in 0 .. Len(b) /\ at = Reach(b, ss, Len(ss))
    <3>1. ss \in Seq(0 .. Len(b)) /\ Len(ss) \in Nat /\ at = Reach(b, ss, Len(ss))
      BY <2>4 DEF Walk
    <3>2. Len(ss) \in 0 .. Len(ss)
      BY <3>1
    <3> QED
      BY <2>4, <3>1, <3>2, ReachIs
  <2>7. CASE at = Len(b) \/ ReadAt(b, at).size = 0
    <3>1. r[j] = r[n]
      BY <2>3, <2>5, <2>7 DEF ReadOn
    <3> QED
      BY <1>5, <2>1, <2>2, <3>1
  <2>8. CASE ~(at = Len(b) \/ ReadAt(b, at).size = 0)
    <3> DEFINE tt == Append(ss, at)
               m == Len(ss)
    <3>1. r[j].starts = tt /\ r[j].at = After(b, at)
      BY <2>3, <2>5, <2>8 DEF ReadOn, After
    <3>2. tt \in Seq(0 .. Len(b)) /\ Len(tt) = m + 1 /\ tt[m + 1] = at /\ \A i \in 1 .. m : tt[i] = ss[i]
      BY <2>6
    <3>3. m \in Nat
      BY <2>6
    <3> HIDE DEF tt
    <3>4. \A i \in 0 .. m : Reach(b, tt, i) = Reach(b, ss, i)
      <4> TAKE i \in 0 .. m
      <4>1. i = 0 \/ i \in 1 .. m
        BY <3>3
      <4> QED
        BY <3>2, <4>1 DEF Reach
    <3>5. Reach(b, tt, m + 1) = After(b, at)
      <4>1. m + 1 # 0
        BY <3>3
      <4> QED
        BY <3>2, <4>1 DEF Reach
    <3>6. ReadAt(b, at).size > 0
      <4>1. ReadAt(b, at).size \in {0, 2, 4}
        BY <2>6, ReadAtIs, Zenon
      <4> QED
        BY <2>8, <4>1
    <3>7. ASSUME NEW i \in 1 .. Len(tt)
          PROVE  tt[i] = Reach(b, tt, i - 1) /\ ReadAt(b, tt[i]).size > 0
      <4>1. CASE i = m + 1
        <5>1. i - 1 = m /\ m \in 0 .. m
          BY <3>3, <4>1
        <5> QED
          BY <2>6, <3>2, <3>4, <3>6, <4>1, <5>1
      <4>2. CASE i # m + 1
        <5>1. i \in 1 .. m /\ i - 1 \in 0 .. m
          BY <3>2, <3>3, <4>2
        <5>2. ss[i] = Reach(b, ss, i - 1) /\ ReadAt(b, ss[i]).size > 0
          BY <2>4, <5>1 DEF Walk
        <5> QED
          BY <3>2, <3>4, <5>1, <5>2
      <4> QED
        BY <4>1, <4>2
    <3>8. Walk(b, tt, After(b, at))
      BY <3>2, <3>5, <3>7 DEF Walk
    <3> QED
      BY <2>1, <2>2, <3>1, <3>8
  <2> QED
    BY <2>7, <2>8
<1> HIDE DEF G
<1>6. \A n \in 0 .. Len(b) : n \in G
  BY <1>1, <1>4, <1>5, Induction
<1>7. Len(b) \in G
  BY <1>1, <1>6
<1>8. Walk(b, r[Len(b)].starts, r[Len(b)].at)
  BY <1>7 DEF G
<1> QED
  BY <1>2, <1>8 DEF Split

\* There is one way through b, and Split finds it.
LEMMA SplitFollows ==
  ASSUME NEW b \in Seq(Bytes), NEW ss, Walk(b, ss, Len(b))
  PROVE  Split(b) = ss /\ ss # << -1 >>
<1> DEFINE N == Len(ss)
<1>1. Len(b) \in Nat /\ ss \in Seq(0 .. Len(b)) /\ N \in Nat /\ Reach(b, ss, N) = Len(b)
  BY DEF Walk
<1>2. /\ \A i \in 0 .. N : Reach(b, ss, i) \in 0 .. Len(b)
      /\ \A i \in 1 .. N : /\ Reach(b, ss, i - 1) = ss[i] /\ ss[i] \in 0 .. Len(b)
                           /\ ss[i] < Reach(b, ss, i) /\ Reach(b, ss, i) = After(b, ss[i])
  BY ReachIs
<1> HIDE DEF N
<1>3. \A i \in 0 .. N : Reach(b, ss, i) >= i
  <2> DEFINE G == {i \in 0 .. N : Reach(b, ss, i) >= i}
  <2>1. 0 \in G
    BY <1>1 DEF Reach
  <2>2. ASSUME NEW i \in 0 .. N - 1, i \in G PROVE i + 1 \in G
    <3>1. PICK j : j = i + 1
      OBVIOUS
    <3>2. j \in 1 .. N /\ j - 1 = i /\ i \in 0 .. N /\ i \in Nat /\ j \in 0 .. N
      BY <1>1, <3>1
    <3>3. PICK x, y : x = Reach(b, ss, i) /\ y = Reach(b, ss, j)
      OBVIOUS
    <3>4. x < y /\ x >= i
      BY <1>2, <2>2, <3>2, <3>3
    <3>5. x \in Nat /\ y \in Nat
      BY <1>1, <1>2, <3>2, <3>3
    <3>6. y >= j
      BY <3>1, <3>2, <3>4, <3>5
    <3> QED
      BY <3>1, <3>2, <3>3, <3>6
  <2> HIDE DEF G
  <2>3. \A i \in 0 .. N : i \in G
    BY <1>1, <2>1, <2>2, Induction
  <2> QED
    BY <2>3 DEF G
<1>4. N <= Len(b)
  <2>1. N \in 0 .. N
    BY <1>1
  <2>2. Reach(b, ss, N) >= N
    BY <1>3, <2>1
  <2> QED
    BY <1>1, <2>2
<1>5. PICK r : r = Splitting(b)
  OBVIOUS
<1>6. r[0] = [starts |-> << >>, at |-> 0] /\ \A n \in 1 .. Len(b) : r[n] = ReadOn(b, r[n - 1])
  BY <1>1, <1>5, SplittingUnfolds
<1> DEFINE G == {n \in 0 .. Len(b) : IF n <= N THEN r[n] = [starts |-> SubSeq(ss, 1, n), at |-> Reach(b, ss, n)]
                                     ELSE r[n] = [starts |-> ss, at |-> Len(b)]}
<1>7. SubSeq(ss, 1, 0) = << >> /\ SubSeq(ss, 1, N) = ss
  BY <1>1 DEF N
<1>8. 0 \in G
  <2>1. Reach(b, ss, 0) = 0 /\ 0 \in 0 .. Len(b) /\ 0 <= N
    BY <1>1 DEF Reach
  <2> QED
    BY <1>6, <1>7, <2>1
<1>9. ASSUME NEW n \in 0 .. Len(b) - 1, n \in G PROVE n + 1 \in G
  <2>1. PICK j : j = n + 1
    OBVIOUS
  <2>2. j \in 1 .. Len(b) /\ j - 1 = n /\ j \in 0 .. Len(b) /\ n \in Nat
    BY <1>1, <2>1
  <2>3. r[j] = ReadOn(b, r[n])
    BY <1>6, <2>2
  <2>4. CASE n < N
    <3>1. j \in 1 .. N /\ n <= N /\ j <= N
      BY <1>1, <2>1, <2>2, <2>4
    <3>2. r[n] = [starts |-> SubSeq(ss, 1, n), at |-> ss[j]]
      <4>1. Reach(b, ss, n) = ss[j]
        BY <1>2, <2>2, <3>1
      <4> QED
        BY <1>9, <3>1, <4>1
    <3>3. ReadAt(b, ss[j]).size > 0
      BY <3>1 DEF Walk, N
    <3>4. ss[j] # Len(b)
      <4>1. j \in 0 .. N
        BY <3>1
      <4>2. PICK x, y : x = ss[j] /\ y = Reach(b, ss, j)
        OBVIOUS
      <4>3. x < y /\ x \in 0 .. Len(b) /\ y \in 0 .. Len(b)
        BY <1>2, <3>1, <4>1, <4>2
      <4> QED
        BY <1>1, <4>2, <4>3
    <3>5. r[j] = [starts |-> Append(SubSeq(ss, 1, n), ss[j]), at |-> After(b, ss[j])]
      BY <2>3, <3>2, <3>3, <3>4 DEF ReadOn, After
    <3>6. Append(SubSeq(ss, 1, n), ss[j]) = SubSeq(ss, 1, j)
      <4>1. SubSeq(ss, 1, n) = [i \in 1 .. n |-> ss[i]]
        BY <1>1, <2>2, <3>1 DEF N
      <4>2. SubSeq(ss, 1, j) = [i \in 1 .. j |-> ss[i]]
        BY <1>1, <2>2, <3>1 DEF N
      <4> DEFINE s == SubSeq(ss, 1, n)
      <4>3. s \in Seq(0 .. Len(b)) /\ Len(s) = n
        BY <1>1, <2>2, <3>1 DEF N
      <4> HIDE DEF s
      <4>4. Append(s, ss[j]) = [i \in 1 .. j |-> IF i = j THEN ss[j] ELSE s[i]]
        BY <2>1, <2>2, <4>3
      <4>5. \A i \in 1 .. j : (IF i = j THEN ss[j] ELSE s[i]) = ss[i]
        BY <2>1, <2>2, <4>1 DEF s
      <4> QED
        BY <4>2, <4>4, <4>5 DEF s
    <3>7. After(b, ss[j]) = Reach(b, ss, j)
      BY <1>2, <3>1
    <3> QED
      BY <2>1, <2>2, <3>1, <3>5, <3>6, <3>7
  <2>5. CASE ~(n < N)
    <3>1. r[n] = [starts |-> ss, at |-> Len(b)]
      <4>1. CASE n = N
        BY <1>1, <1>7, <1>9, <4>1
      <4>2. CASE n # N
        <5>1. ~(n <= N)
          BY <1>1, <2>2, <2>5, <4>2
        <5> QED
          BY <1>9, <5>1
      <4> QED
        BY <4>1, <4>2
    <3>2. r[j] = r[n]
      BY <2>3, <3>1 DEF ReadOn
    <3>3. ~(j <= N)
      BY <1>1, <2>1, <2>2, <2>5
    <3> QED
      BY <2>1, <2>2, <3>1, <3>2, <3>3
  <2> QED
    BY <2>4, <2>5
<1> HIDE DEF G
<1>10. \A n \in 0 .. Len(b) : n \in G
  BY <1>1, <1>8, <1>9, Induction
<1>11. r[Len(b)] = [starts |-> ss, at |-> Len(b)]
  <2>1. Len(b) \in G
    BY <1>1, <1>10
  <2>2. CASE Len(b) = N
    BY <1>1, <1>7, <2>1, <2>2 DEF G
  <2>3. CASE Len(b) # N
    <3>1. ~(Len(b) <= N)
      BY <1>1, <1>4, <2>3
    <3> QED
      BY <2>1, <3>1 DEF G
  <2> QED
    BY <2>2, <2>3
<1>12. Split(b) = ss
  BY <1>5, <1>11 DEF Split
<1>13. ss # << -1 >>
  <2>1. << -1 >>[1] = -1 /\ Len(<< -1 >>) = 1
    OBVIOUS
  <2>2. ASSUME ss = << -1 >> PROVE FALSE
    <3>1. 1 \in 1 .. N
      BY <2>1, <2>2 DEF N
    <3>2. ss[1] \in 0 .. Len(b)
      BY <1>2, <3>1
    <3> QED
      BY <1>1, <2>1, <2>2, <3>2
  <2> QED
    BY <2>2
<1> QED
  BY <1>12, <1>13

LEMMA SameSeq ==
  ASSUME NEW S, NEW s \in Seq(S), NEW t \in Seq(S), Len(s) = Len(t), \A i \in 1 .. Len(s) : s[i] = t[i]
  PROVE  s = t
  OBVIOUS

LEMMA PiecesJoin ==
  ASSUME NEW S, NEW s \in Seq(S), NEW p \in 0 .. Len(s), NEW q \in p .. Len(s)
  PROVE  SubSeq(s, 1, p) \o SubSeq(s, p + 1, q) = SubSeq(s, 1, q)
<1>1. p \in Nat /\ q \in Nat /\ Len(s) \in Nat /\ p <= q /\ q <= Len(s) /\ p + 1 \in Nat \ {0} /\ p + 1 <= q + 1
  OBVIOUS
<1>2. PICK a, c : a = SubSeq(s, 1, p) /\ c = SubSeq(s, p + 1, q)
  OBVIOUS
<1>3. a \in Seq(S) /\ Len(a) = p /\ \A i \in 1 .. p : a[i] = s[i]
  BY <1>1, <1>2
<1>4. c \in Seq(S) /\ Len(c) = q - p /\ \A i \in 1 .. q - p : c[i] = s[p + i]
  <2>1. c \in Seq(S) /\ Len(c) = q - (p + 1) + 1 /\ \A i \in 1 .. q - (p + 1) + 1 : c[i] = s[p + 1 + i - 1]
    BY <1>1, <1>2, PieceIs
  <2>2. q - (p + 1) + 1 = q - p /\ \A i \in 1 .. q - p : p + 1 + i - 1 = p + i
    BY <1>1
  <2> QED
    BY <2>1, <2>2
<1>5. /\ a \o c \in Seq(S) /\ Len(a \o c) = Len(a) + Len(c)
      /\ \A i \in 1 .. Len(a) : (a \o c)[i] = a[i]
      /\ \A i \in 1 .. Len(c) : (a \o c)[Len(a) + i] = c[i]
  BY <1>3, <1>4, JoinIs
<1>6. Len(a \o c) = q
  BY <1>1, <1>3, <1>4, <1>5
<1>7. \A i \in 1 .. q : (a \o c)[i] = s[i]
  <2> TAKE i \in 1 .. q
  <2>1. CASE i <= p
    <3>1. i \in 1 .. p
      BY <1>1, <2>1
    <3> QED
      BY <1>3, <1>5, <3>1
  <2>2. CASE ~(i <= p)
    <3>1. PICK j : j = i - p
      OBVIOUS
    <3>2. j \in 1 .. q - p /\ p + j = i
      BY <1>1, <2>2, <3>1
    <3> QED
      BY <1>3, <1>4, <1>5, <3>2
  <2> QED
    BY <2>1, <2>2
<1>8. SubSeq(s, 1, q) \in Seq(S) /\ Len(SubSeq(s, 1, q)) = q /\ \A i \in 1 .. q : SubSeq(s, 1, q)[i] = s[i]
  BY <1>1
<1>9. PICK x, y : x = a \o c /\ y = SubSeq(s, 1, q)
  OBVIOUS
<1>10. x \in Seq(S) /\ y \in Seq(S) /\ Len(x) = q /\ Len(y) = q /\ \A i \in 1 .. q : x[i] = y[i]
  BY <1>5, <1>6, <1>7, <1>8, <1>9
<1>11. a \o c = SubSeq(s, 1, q)
  BY <1>9, <1>10, SameSeq
<1> QED
  BY <1>2, <1>11

\* What b falls into makes b again.
LEMMA Refilled ==
  ASSUME NEW b \in Seq(Bytes), NEW ss, Walk(b, ss, Len(b)), NEW es \in Seq(Seq(Bytes)), Len(es) = Len(ss),
         \A i \in 1 .. Len(ss) : es[i] = SubSeq(b, ss[i] + 1, After(b, ss[i]))
  PROVE  FlattenSeq(es) = b
<1> DEFINE N == Len(ss)
<1>1. Len(b) \in Nat /\ N \in Nat /\ Reach(b, ss, N) = Len(b)
  BY DEF Walk
<1>2. /\ \A i \in 0 .. N : Reach(b, ss, i) \in 0 .. Len(b)
      /\ \A i \in 1 .. N : /\ Reach(b, ss, i - 1) = ss[i] /\ ss[i] \in 0 .. Len(b)
                           /\ ss[i] < Reach(b, ss, i) /\ Reach(b, ss, i) = After(b, ss[i])
  BY ReachIs
<1>3. PICK f : Flattens(f, es, Bytes) /\ FlattenSeq(es) = f[Len(es)]
  BY FlattenIs
<1>4. f[0] = << >> /\ \A i \in 1 .. N : f[i] = f[i - 1] \o es[i]
  BY <1>3 DEF Flattens
<1>5. Len(es) = N /\ \A i \in 1 .. N : es[i] = SubSeq(b, ss[i] + 1, After(b, ss[i]))
  OBVIOUS
<1> HIDE DEF N
<1> DEFINE G == {i \in 0 .. N : f[i] = SubSeq(b, 1, Reach(b, ss, i))}
<1>6. 0 \in G
  <2>1. Reach(b, ss, 0) = 0 /\ 0 \in 0 .. N
    BY <1>1 DEF Reach
  <2>2. SubSeq(b, 1, 0) = << >>
    OBVIOUS
  <2> QED
    BY <1>4, <2>1, <2>2
<1>7. ASSUME NEW n \in 0 .. N - 1, n \in G PROVE n + 1 \in G
  <2>1. PICK j : j = n + 1
    OBVIOUS
  <2>2. j \in 1 .. N /\ j - 1 = n /\ j \in 0 .. N
    BY <1>1, <2>1
  <2>3. PICK p, q : p = Reach(b, ss, n) /\ q = Reach(b, ss, j)
    OBVIOUS
  <2>4. ss[j] = p /\ After(b, ss[j]) = q /\ p < q /\ p \in 0 .. Len(b) /\ q \in 0 .. Len(b)
    BY <1>2, <2>2, <2>3
  <2>5. q \in p .. Len(b)
    BY <1>1, <2>4
  <2>6. f[j] = f[n] \o es[j]
    BY <1>4, <2>2
  <2>7. f[n] = SubSeq(b, 1, p) /\ es[j] = SubSeq(b, p + 1, q)
    BY <1>5, <1>7, <2>2, <2>3, <2>4
  <2>8. f[j] = SubSeq(b, 1, q)
    BY <2>4, <2>5, <2>6, <2>7, PiecesJoin
  <2> QED
    BY <2>1, <2>2, <2>3, <2>8
<1> HIDE DEF G
<1>8. \A i \in 0 .. N : i \in G
  BY <1>1, <1>6, <1>7, Induction
<1>9. N \in G
  BY <1>1, <1>8
<1>10. f[N] = SubSeq(b, 1, Len(b))
  BY <1>1, <1>9 DEF G
<1>11. SubSeq(b, 1, Len(b)) = b
  OBVIOUS
<1> QED
  BY <1>3, <1>5, <1>10, <1>11

\* A TLV of b with the shortest header is encoded as it is.
LEMMA ReadIsEncoded ==
  ASSUME NEW b \in Seq(Bytes), NEW s \in 0 .. Len(b), NEW h, h = ReadAt(b, s), h.size > 0,
         h.size = Len(Header(h.tag, h.flags, h.len))
  PROVE  /\ Header(h.tag, h.flags, h.len) \o SubSeq(b, s + h.size + 1, s + h.size + h.len)
              = SubSeq(b, s + 1, After(b, s))
         /\ SubSeq(b, s + h.size + 1, s + h.size + h.len) \in Seq(Bytes)
         /\ Len(SubSeq(b, s + h.size + 1, s + h.size + h.len)) = h.len
<1>1. PICK e : e = After(b, s)
  OBVIOUS
<1>2. PICK k, l : k = h.size /\ l = h.len
  OBVIOUS
<1>3. /\ k \in {2, 4} /\ l \in Nat /\ e = s + k + l /\ e \in 0 .. Len(b)
      /\ h.tag \in 0 .. TypeSpan * Byte - 1 /\ h.flags \in 0 .. 3
  <2>1. h.size \in {0, 2, 4} /\ s + h.size + h.len \in 0 .. Len(b) /\ h.len \in Nat
        /\ h.tag \in 0 .. TypeSpan * Byte - 1 /\ h.flags \in 0 .. 3
    BY ReadAtIs, Zenon
  <2> QED
    BY <1>1, <1>2, <2>1 DEF After
<1>4. s \in Nat /\ Len(b) \in Nat /\ k \in Nat /\ e \in Nat /\ e <= Len(b)
  BY <1>3
<1>5. PICK c : c = SubSeq(b, s + 1, Len(b))
  OBVIOUS
<1>6. c \in Seq(Bytes) /\ Len(c) = Len(b) - s /\ \A i \in 1 .. Len(b) - s : c[i] = b[s + i]
  <2>1. c \in Seq(Bytes) /\ Len(c) = Len(b) - (s + 1) + 1
        /\ \A i \in 1 .. Len(b) - (s + 1) + 1 : c[i] = b[s + 1 + i - 1]
    <3>1. s + 1 \in Nat \ {0} /\ s + 1 <= Len(b) + 1
      BY <1>4
    <3> QED
      BY <1>4, <1>5, <3>1, PieceIs
  <2>2. Len(b) - (s + 1) + 1 = Len(b) - s /\ \A i \in 1 .. Len(b) - s : s + 1 + i - 1 = s + i
    BY <1>4
  <2> QED
    BY <2>1, <2>2
<1>7. PICK hd : hd = Header(h.tag, h.flags, h.len)
  OBVIOUS
<1>8. hd \in Seq(Bytes) /\ Len(hd) = k
  <2>1. hd \in Seq(Bytes)
    BY <1>2, <1>3, <1>7, HeaderIs
  <2> QED
    BY <1>2, <1>7, <2>1
<1>9. \A i \in 1 .. k : c[i] = hd[i]
  <2>1. h = ReadFirst(c)
    BY <1>5 DEF ReadAt
  <2> QED
    BY <1>2, <1>6, <1>7, <2>1, ReadIsWritten
<1>10. PICK v : v = SubSeq(b, s + k + 1, e)
  OBVIOUS
<1>11. v \in Seq(Bytes) /\ Len(v) = l /\ \A i \in 1 .. l : v[i] = b[s + k + i]
  <2>1. s + k + 1 \in Nat \ {0} /\ s + k + 1 <= e + 1
    BY <1>3, <1>4
  <2>2. v \in Seq(Bytes) /\ Len(v) = e - (s + k + 1) + 1
        /\ \A i \in 1 .. e - (s + k + 1) + 1 : v[i] = b[s + k + 1 + i - 1]
    BY <1>4, <1>10, <2>1, PieceIs
  <2>3. e - (s + k + 1) + 1 = l /\ \A i \in 1 .. l : s + k + 1 + i - 1 = s + k + i
    BY <1>3, <1>4
  <2> QED
    BY <2>2, <2>3
<1>12. PICK w : w = SubSeq(b, s + 1, e)
  OBVIOUS
<1>13. w \in Seq(Bytes) /\ Len(w) = k + l /\ \A i \in 1 .. k + l : w[i] = b[s + i]
  <2>1. s + 1 \in Nat \ {0} /\ s + 1 <= e + 1
    BY <1>3, <1>4
  <2>2. w \in Seq(Bytes) /\ Len(w) = e - (s + 1) + 1
        /\ \A i \in 1 .. e - (s + 1) + 1 : w[i] = b[s + 1 + i - 1]
    BY <1>4, <1>12, <2>1, PieceIs
  <2>3. e - (s + 1) + 1 = k + l /\ \A i \in 1 .. k + l : s + 1 + i - 1 = s + i
    BY <1>3, <1>4
  <2> QED
    BY <2>2, <2>3
<1>14. /\ hd \o v \in Seq(Bytes) /\ Len(hd \o v) = k + l
       /\ \A i \in 1 .. k : (hd \o v)[i] = hd[i]
       /\ \A i \in 1 .. l : (hd \o v)[k + i] = v[i]
  <2>1. hd \in Seq(Bytes) /\ v \in Seq(Bytes)
    BY <1>8, <1>11
  <2>2. /\ hd \o v \in Seq(Bytes) /\ Len(hd \o v) = Len(hd) + Len(v)
        /\ \A i \in 1 .. Len(hd) : (hd \o v)[i] = hd[i]
        /\ \A i \in 1 .. Len(v) : (hd \o v)[Len(hd) + i] = v[i]
    BY <2>1, JoinIs
  <2> QED
    BY <1>8, <1>11, <2>2
<1>15. \A i \in 1 .. k + l : (hd \o v)[i] = w[i]
  <2> TAKE i \in 1 .. k + l
  <2>1. i \in 1 .. Len(b) - s /\ i \in Nat
    BY <1>3, <1>4
  <2>2. CASE i <= k
    <3>1. i \in 1 .. k
      BY <1>4, <2>2
    <3> QED
      BY <1>6, <1>9, <1>13, <1>14, <2>1, <3>1
  <2>3. CASE ~(i <= k)
    <3>1. PICK j : j = i - k
      OBVIOUS
    <3>2. j \in 1 .. l /\ k + j = i /\ s + k + j = s + i
      BY <1>3, <1>4, <2>1, <2>3, <3>1
    <3> QED
      BY <1>11, <1>13, <1>14, <3>2
  <2> QED
    BY <2>2, <2>3
<1>16. PICK x : x = hd \o v
  OBVIOUS
<1>17. hd \o v = w
  <2>1. x \in Seq(Bytes) /\ Len(x) = k + l /\ \A i \in 1 .. k + l : x[i] = w[i]
    BY <1>14, <1>15, <1>16
  <2> QED
    BY <1>13, <1>16, <2>1, SameSeq
<1>18. v = SubSeq(b, s + h.size + 1, s + h.size + h.len) /\ w = SubSeq(b, s + 1, After(b, s))
  BY <1>1, <1>2, <1>3, <1>10, <1>12
<1> QED
  BY <1>2, <1>7, <1>11, <1>17, <1>18

LEMMA CutIs ==
  ASSUME NEW S, NEW s \in Seq(S), NEW a \in Nat, NEW l \in Nat, a + l <= Len(s)
  PROVE  /\ SubSeq(s, a + 1, a + l) \in Seq(S) /\ Len(SubSeq(s, a + 1, a + l)) = l
         /\ \A i \in 1 .. l : SubSeq(s, a + 1, a + l)[i] = s[a + i]
<1>1. PICK m, n : m = a + 1 /\ n = a + l
  OBVIOUS
<1>2. m \in Nat \ {0} /\ n \in Nat /\ n <= Len(s) /\ m <= n + 1
  BY <1>1
<1>3. /\ SubSeq(s, m, n) \in Seq(S) /\ Len(SubSeq(s, m, n)) = n - m + 1
      /\ \A i \in 1 .. n - m + 1 : SubSeq(s, m, n)[i] = s[m + i - 1]
  BY <1>2, PieceIs
<1>4. n - m + 1 = l /\ \A i \in 1 .. l : m + i - 1 = a + i
  BY <1>1
<1>5. Len(SubSeq(s, m, n)) = l /\ \A i \in 1 .. l : SubSeq(s, m, n)[i] = s[a + i]
  BY <1>3, <1>4
<1> QED
  BY <1>1, <1>3, <1>5

LEMMA JoinTail ==
  ASSUME NEW S, NEW s \in Seq(S), NEW t \in Seq(S)
  PROVE  SubSeq(s \o t, Len(s) + 1, Len(s) + Len(t)) = t
<1>1. PICK j, k, l : j = s \o t /\ k = Len(s) /\ l = Len(t)
  OBVIOUS
<1>2. k \in Nat /\ l \in Nat
  BY <1>1
<1>3. /\ j \in Seq(S) /\ Len(j) = k + l
      /\ \A i \in 1 .. l : j[k + i] = t[i]
  BY <1>1, JoinIs
<1>4. PICK u : u = SubSeq(j, k + 1, k + l)
  OBVIOUS
<1>5. u \in Seq(S) /\ Len(u) = l /\ \A i \in 1 .. l : u[i] = t[i]
  <2>1. k + l <= Len(j)
    BY <1>2, <1>3
  <2>2. j \in Seq(S) /\ k \in Nat /\ l \in Nat
    BY <1>2, <1>3
  <2>3. /\ SubSeq(j, k + 1, k + l) \in Seq(S) /\ Len(SubSeq(j, k + 1, k + l)) = l
        /\ \A i \in 1 .. l : SubSeq(j, k + 1, k + l)[i] = j[k + i]
    BY <2>1, <2>2, CutIs
  <2> QED
    BY <1>3, <1>4, <2>3
<1>6. u = t
  BY <1>1, <1>5, SameSeq
<1> QED
  BY <1>1, <1>4, <1>6

\* b falls into what the TLVs of ids say.
Falls(b, ns, f, ids) ==
  /\ b \in Seq(Bytes) /\ Walk(b, Split(b), Len(b)) /\ Len(Split(b)) = Len(ids)
  /\ Split(b) # << -1 >>
  /\ \A i \in 1 .. Len(ids) :
       /\ ReadAt(b, Split(b)[i]) =
            [size |-> Len(Header(ns[ids[i]].tag, ns[ids[i]].flags, Len(f[ids[i]]))),
             tag |-> ns[ids[i]].tag, flags |-> ns[ids[i]].flags, len |-> Len(f[ids[i]])]
       /\ SubSeq(b, Split(b)[i] + 1, After(b, Split(b)[i])) = Encoding(ns, f, ids[i])

\* What was written one behind the other falls into what it was made of.
LEMMA Refalls ==
  ASSUME NEW ns, NEW m, Formed(ns, m), NEW f, NEW ids \in Seq(Tlvs), \A c \in ToSet(ids) : f[c] \in Seq(Bytes),
         NEW b, b = FlattenSeq(Encodings(ns, f, ids)), Len(b) < BufferSize
  PROVE  Falls(b, ns, f, ids)
<1> DEFINE N == Len(ids)
<1>1. PICK es : es = Encodings(ns, f, ids)
  OBVIOUS
<1>2. es \in Seq(Seq(Bytes)) /\ Len(es) = N /\ \A i \in 1 .. N : es[i] = Encoding(ns, f, ids[i])
  <2>1. es \in Seq(Seq(Bytes)) /\ Len(es) = N
    BY <1>1, EncodingsAre
  <2>2. \A i \in 1 .. N : es[i] = Encoding(ns, f, ids[i])
    BY <1>1 DEF Encodings
  <2> QED
    BY <2>1, <2>2
<1>3. N \in Nat /\ BufferSize \in Nat
  BY Units
<1>4. PICK g : Flattens(g, es, Bytes) /\ b = g[N]
  BY <1>1, <1>2, FlattenIs
<1> HIDE DEF N
<1>5. /\ \A i \in 0 .. N : g[i] \in Seq(Bytes) /\ Len(g[i]) \in Nat /\ Len(g[i]) <= Len(b)
      /\ \A i \in 1 .. N : Len(g[i]) = Len(g[i - 1]) + Len(es[i])
      /\ \A i \in 1 .. N : \A k \in 1 .. Len(es[i]) : b[Len(g[i - 1]) + k] = es[i][k]
  <2>1. /\ \A i \in 0 .. Len(es) : g[i] \in Seq(Bytes) /\ Len(g[i]) \in Nat
        /\ \A i \in 1 .. Len(es) : Len(g[i]) = Len(g[i - 1]) + Len(es[i])
        /\ \A i \in 0 .. Len(es) :
             /\ Len(g[i]) <= Len(g[Len(es)])
             /\ \A k \in 1 .. Len(g[i]) : g[Len(es)][k] = g[i][k]
        /\ \A i \in 1 .. Len(es) : \A k \in 1 .. Len(es[i]) :
             g[Len(es)][Len(g[i - 1]) + k] = es[i][k]
    <3>1. Placed(g, es, Bytes)
      BY <1>2, <1>4, FlattensPlaces
    <3> QED
      BY <3>1 DEF Placed
  <2> QED
    BY <1>2, <1>4, <2>1
<1>6. b \in Seq(Bytes) /\ Len(b) \in Nat /\ g[0] = << >> /\ Len(g[0]) = 0
  <2>1. N \in 0 .. N
    BY <1>3
  <2>2. g[0] = << >>
    BY <1>4 DEF Flattens
  <2> QED
    BY <1>4, <1>5, <2>1, <2>2
<1> DEFINE ss == [i \in 1 .. N |-> Len(g[i - 1])]
<1>7. ss \in Seq(0 .. Len(b)) /\ Len(ss) = N /\ \A i \in 1 .. N : ss[i] = Len(g[i - 1]) /\ ss[i] \in 0 .. Len(b)
  <2>1. \A i \in 1 .. N : Len(g[i - 1]) \in 0 .. Len(b)
    <3> TAKE i \in 1 .. N
    <3>1. i - 1 \in 0 .. N
      BY <1>3
    <3> QED
      BY <1>5, <1>6, <3>1
  <2> QED
    BY <1>3, <2>1
<1> HIDE DEF ss
<1>8. ASSUME NEW i \in 1 .. N
      PROVE  /\ ReadAt(b, ss[i]) =
                  [size |-> Len(Header(ns[ids[i]].tag, ns[ids[i]].flags, Len(f[ids[i]]))),
                   tag |-> ns[ids[i]].tag, flags |-> ns[ids[i]].flags, len |-> Len(f[ids[i]])]
             /\ ReadAt(b, ss[i]).size > 0
             /\ After(b, ss[i]) = Len(g[i])
             /\ SubSeq(b, ss[i] + 1, After(b, ss[i])) = Encoding(ns, f, ids[i])
  <2>1. PICK c : c = ids[i]
    OBVIOUS
  <2>2. c \in Tlvs /\ c \in ToSet(ids)
    BY <2>1 DEF ToSet, N
  <2>3. PICK v : v = f[c]
    OBVIOUS
  <2>4. PICK tag, flags : tag = ns[c].tag /\ flags = ns[c].flags
    OBVIOUS
  <2>5. tag \in 0 .. TypeSpan * Byte - 1 /\ flags \in 0 .. 3 /\ v \in Seq(Bytes) /\ Len(v) \in Nat
    BY <2>2, <2>3, <2>4 DEF Formed
  <2>6. PICK hd : hd = Header(tag, flags, Len(v))
    OBVIOUS
  <2>7. hd \in Seq(Bytes) /\ Len(hd) \in {2, 4}
    BY <2>5, <2>6, HeaderIs
  <2>8. es[i] = hd \o v
    BY <1>2, <2>1, <2>3, <2>4, <2>6 DEF Encoding
  <2>9. /\ Len(es[i]) = Len(hd) + Len(v) /\ es[i] \in Seq(Bytes)
        /\ \A k \in 1 .. Len(hd) : es[i][k] = hd[k]
    BY <2>5, <2>7, <2>8, JoinIs
  <2>10. PICK s, e, l, k, z : s = ss[i] /\ e = Len(g[i]) /\ l = Len(v) /\ k = Len(hd) /\ z = Len(b)
    OBVIOUS
  <2>11. s \in Nat /\ e \in Nat /\ l \in Nat /\ k \in {2, 4} /\ k \in Nat /\ z \in Nat /\ e = s + k + l /\ e <= z
         /\ z < BufferSize
    <3>1. i \in 0 .. N /\ i - 1 \in 0 .. N
      BY <1>3
    <3>2. s \in Nat /\ e \in Nat /\ e <= z /\ z \in Nat
      BY <1>5, <1>6, <1>7, <2>10, <3>1
    <3>3. e = s + Len(es[i])
      BY <1>5, <1>7, <2>10
    <3>4. z < BufferSize
      BY <2>10
    <3>5. l \in Nat /\ k \in {2, 4} /\ Len(es[i]) = k + l
      BY <2>5, <2>7, <2>9, <2>10
    <3> QED
      BY <3>2, <3>3, <3>4, <3>5
  <2>12. PICK d : d = SubSeq(b, s + 1, z)
    OBVIOUS
  <2>13. d \in Seq(Bytes) /\ Len(d) = z - s /\ \A j \in 1 .. z - s : d[j] = b[s + j]
    <3>1. PICK r : r = z - s
      OBVIOUS
    <3>4. r \in Nat /\ s + r = z /\ z <= z
      BY <2>11, <3>1
    <3>2. r \in Nat /\ s + r = z /\ s + r <= Len(b)
      BY <2>10, <3>4
    <3>3. d \in Seq(Bytes) /\ Len(d) = r /\ \A j \in 1 .. r : d[j] = b[s + j]
      <4>1. d = SubSeq(b, s + 1, s + r)
        BY <2>12, <3>2
      <4> QED
        BY <1>6, <2>11, <3>2, <4>1, CutIs
    <3> QED
      BY <3>1, <3>3
  <2>14. \A j \in 1 .. Len(hd) : d[j] = hd[j]
    <3> TAKE j \in 1 .. Len(hd)
    <3>1. j \in 1 .. k /\ j \in 1 .. z - s /\ j \in 1 .. k + l
      BY <2>10, <2>11
    <3>2. b[s + j] = es[i][j]
      BY <1>5, <1>7, <2>9, <2>10, <3>1
    <3> QED
      BY <2>9, <2>13, <3>1, <3>2
  <2>15. ReadFirst(d) = [size |-> Len(hd), tag |-> tag, flags |-> flags, len |-> Len(v)]
    <3>1. Len(v) < BufferSize /\ Len(hd) + Len(v) <= Len(d)
      BY <1>3, <2>10, <2>11, <2>13, SMTT(30)
    <3> QED
      BY <2>5, <2>6, <2>13, <2>14, <3>1, WrittenIsRead
  <2>16. ReadAt(b, s) = [size |-> k, tag |-> tag, flags |-> flags, len |-> l]
    BY <2>10, <2>12, <2>15 DEF ReadAt
  <2>17. After(b, s) = e
    BY <2>11, <2>16 DEF After
  <2>18. SubSeq(b, s + 1, e) = es[i]
    <3>1. PICK w : w = SubSeq(b, s + 1, e)
      OBVIOUS
    <3>2. w \in Seq(Bytes) /\ Len(w) = k + l /\ \A j \in 1 .. k + l : w[j] = b[s + j]
      <4>1. PICK r : r = k + l
        OBVIOUS
      <4>4. r \in Nat /\ s + r = e /\ e <= z
        BY <2>11, <4>1
      <4>2. r \in Nat /\ s + r = e /\ s + r <= Len(b)
        BY <2>10, <4>4
      <4>3. w \in Seq(Bytes) /\ Len(w) = r /\ \A j \in 1 .. r : w[j] = b[s + j]
        <5>1. w = SubSeq(b, s + 1, s + r)
          BY <3>1, <4>2
        <5> QED
          BY <1>6, <2>11, <4>2, <5>1, CutIs
      <4> QED
        BY <4>1, <4>3
    <3>3. Len(es[i]) = k + l
      BY <2>9, <2>10
    <3>4. \A j \in 1 .. k + l : w[j] = es[i][j]
      <4> TAKE j \in 1 .. k + l
      <4>1. j \in 1 .. Len(es[i]) /\ s = Len(g[i - 1])
        BY <1>7, <2>10, <3>3
      <4>2. b[s + j] = es[i][j]
        BY <1>5, <4>1
      <4> QED
        BY <3>2, <4>2
    <3>5. w = es[i]
      BY <2>9, <3>2, <3>3, <3>4, SameSeq
    <3> QED
      BY <3>1, <3>5
  <2>19. ReadAt(b, ss[i]).size > 0
    BY <2>10, <2>11, <2>16
  <2>20. After(b, ss[i]) = Len(g[i])
    BY <2>10, <2>17
  <2>21. SubSeq(b, ss[i] + 1, After(b, ss[i])) = Encoding(ns, f, ids[i])
    BY <1>2, <2>10, <2>17, <2>18
  <2>22. ReadAt(b, ss[i]) =
           [size |-> Len(Header(ns[ids[i]].tag, ns[ids[i]].flags, Len(f[ids[i]]))),
            tag |-> ns[ids[i]].tag, flags |-> ns[ids[i]].flags, len |-> Len(f[ids[i]])]
    BY <2>1, <2>3, <2>4, <2>6, <2>10, <2>16
  <2> QED
    BY <2>19, <2>20, <2>21, <2>22
<1>9. Walk(b, ss, Len(b))
  <2>1. \A i \in 0 .. N : Reach(b, ss, i) = Len(g[i])
    <3> TAKE i \in 0 .. N
    <3>1. i = 0 \/ i \in 1 .. N
      BY <1>3
    <3> QED
      BY <1>6, <1>8, <3>1 DEF Reach
  <2>2. ASSUME NEW i \in 1 .. N PROVE ss[i] = Reach(b, ss, i - 1) /\ ReadAt(b, ss[i]).size > 0
    <3>1. i - 1 \in 0 .. N
      BY <1>3
    <3> QED
      BY <1>7, <1>8, <2>1, <3>1
  <2>3. Reach(b, ss, N) = Len(b)
    <3>1. N \in 0 .. N
      BY <1>3
    <3> QED
      BY <1>4, <2>1, <3>1
  <2> QED
    BY <1>7, <2>2, <2>3 DEF Walk
<1>10. Split(b) = ss /\ ss # << -1 >>
  BY <1>6, <1>9, SplitFollows
<1> QED
  BY <1>6, <1>7, <1>8, <1>9, <1>10 DEF N, Falls

-----------------------------------------------------------------------------
(* The invariant of the memory.                                            *)

\* Whose memory may be pointed at: the caller's, and that of one who has some.
Lender(ns, d) == d = Caller \/ (d \in Tlvs /\ ns[d].refs > 0 /\ ns[d].own)
Memory(ns, m) ==
  /\ Formed(ns, m) /\ m[Caller] = Shared
  /\ \A t \in Tlvs :
       /\ ns[t].refs = 0 => ns[t] = Gone
       /\ ns[t].own => ns[t].data.in = t
       /\ ns[t].data.len > 0 => Lender(ns, ns[t].data.in)
MInv == IInv /\ stream \in Seq(Bytes) /\ (Untrapped => Memory(node, mem))

LEMMA SaysNow ==
  ASSUME MInv, Untrapped
  PROVE  /\ Says(Payload, node, mem) /\ Formed(node, mem) /\ Objects(node) /\ Acyclic(node) /\ Memory(node, mem)
         /\ \A t \in Tlvs : Elements(node[t].nested) \in Seq(Tlvs) /\ Kids(node, t) = ToSet(Elements(node[t].nested))
         /\ IInv
<1>1. IInv /\ Memory(node, mem) /\ Formed(node, mem)
  BY DEF MInv, Memory
<1>2. Objects(node) /\ Acyclic(node)
  BY <1>1, Now
<1>3. \A t \in Tlvs : Elements(node[t].nested) \in Seq(Tlvs)
  <2> TAKE t \in Tlvs
  <2>1. node[t].nested \in Lists
    BY <1>2, ObjectsListed DEF Listed
  <2> QED
    BY <2>1, ElementsAre
<1> QED
  BY <1>1, <1>2, <1>3, PayloadIs DEF Payload, Kids

\* What an object says is the bytes it points at, or what those nested in it say.
LEMMA PayloadNow ==
  ASSUME MInv, Untrapped, NEW t \in Tlvs
  PROVE  /\ Payload[t] \in Seq(Bytes) /\ Serialized(t) = Encoding(node, Payload, t)
         /\ node[t].type # "TLV" => Payload[t] = Peek(mem, node[t].data)
         /\ node[t].type = "TLV" => Payload[t] = FlattenSeq(Encodings(node, Payload, Elements(node[t].nested)))
<1>1. Says(Payload, node, mem)
  BY SaysNow
<1>2. Payload[t] \in Seq(Bytes) /\ Payload[t] = Saying(node, mem, Payload, t)
  BY <1>1 DEF Says
<1>3. Serialized(t) = Encoding(node, Payload, t)
  BY DEF Serialized, Encoding
<1> QED
  BY <1>2, <1>3 DEF Saying

LEMMA MemoryIsAlive ==
  ASSUME MInv
  PROVE  MemoryAlive
<1> SUFFICES ASSUME Untrapped, NEW t \in Alive
             PROVE  /\ node[t].data.at + node[t].data.len <= Len(mem[node[t].data.in]) \/ node[t].data.len = 0
                    /\ \A i \in 1 .. node[t].data.len : Peek(mem, node[t].data)[i] >= 0
  BY DEF MemoryAlive
<1>1. PICK d : d = node[t].data
  OBVIOUS
<1>2. mem \in Memories /\ d \in Pointers /\ Backed(mem, d)
  BY <1>1 DEF MInv, Memory, Formed, Alive
<1>3. d.len \in Nat
  BY <1>2 DEF Pointers
<1>4. d.at + d.len <= Len(mem[d.in]) \/ d.len = 0
  BY <1>2, <1>3 DEF Backed
<1>5. \A i \in 1 .. d.len : Peek(mem, d)[i] >= 0
  <2> TAKE i \in 1 .. d.len
  <2>1. Peek(mem, d) \in Seq(Bytes) /\ Len(Peek(mem, d)) = d.len
    BY <1>2, PeekIs
  <2>2. Peek(mem, d)[i] \in Bytes
    BY <2>1
  <2>3. PICK x : x = Peek(mem, d)[i]
    OBVIOUS
  <2>4. x \in Nat
    BY <2>2, <2>3, Units DEF Bytes
  <2>5. x >= 0
    BY <2>4
  <2> QED
    BY <2>3, <2>5
<1> QED
  BY <1>1, <1>4, <1>5

LEMMA WrittenReads ==
  ASSUME MInv
  PROVE  ReadsBack
<1> SUFFICES ASSUME Untrapped, NEW t \in Alive, Serializes(t), Len(Payload[t]) < BufferSize
             PROVE  LET b == Serialized(t)
                        h == ReadFirst(b)
                        starts == Split(Payload[t])
                    IN /\ Fills(b) /\ h.tag = node[t].tag /\ h.flags = node[t].flags
                       /\ SubSeq(b, h.size + 1, Len(b)) = Payload[t]
                       /\ node[t].type = "TLV" =>
                            /\ Len(starts) = Length(node[t].nested)
                            /\ \A i \in DOMAIN starts :
                                 IsPrefix(Serialized(Children(t)[i]), SubSeq(Payload[t], starts[i] + 1, Len(Payload[t])))
  BY DEF ReadsBack
<1>1. t \in Tlvs
  BY DEF Alive
<1>2. Formed(node, mem) /\ Says(Payload, node, mem) /\ Objects(node)
  BY SaysNow
<1>3. PICK v, tag, flags : v = Payload[t] /\ tag = node[t].tag /\ flags = node[t].flags
  OBVIOUS
<1>4. v \in Seq(Bytes) /\ Len(v) \in Nat /\ Len(v) < BufferSize /\ tag \in 0 .. TypeSpan * Byte - 1 /\ flags \in 0 .. 3
  BY <1>1, <1>2, <1>3, PayloadNow DEF Formed
<1>5. PICK hd : hd = Header(tag, flags, Len(v))
  OBVIOUS
<1>6. hd \in Seq(Bytes) /\ Len(hd) \in {2, 4}
  BY <1>4, <1>5, HeaderIs
<1>7. PICK b : b = Serialized(t)
  OBVIOUS
<1>8. b = hd \o v
  BY <1>3, <1>5, <1>7 DEF Serialized
<1>9. b \in Seq(Bytes) /\ Len(b) = Len(hd) + Len(v) /\ \A i \in 1 .. Len(hd) : b[i] = hd[i]
  BY <1>4, <1>6, <1>8, JoinIs
<1>10. ReadFirst(b) = [size |-> Len(hd), tag |-> tag, flags |-> flags, len |-> Len(v)]
  <2>1. Len(hd) + Len(v) <= Len(b)
    BY <1>4, <1>6, <1>9
  <2> QED
    BY <1>4, <1>5, <1>9, <2>1, WrittenIsRead
<1>11. Fills(b)
  BY <1>6, <1>9, <1>10 DEF Fills
<1>12. SubSeq(b, Len(hd) + 1, Len(b)) = v
  BY <1>4, <1>6, <1>8, <1>9, JoinTail
<1>13. ASSUME node[t].type = "TLV"
       PROVE  /\ Len(Split(v)) = Length(node[t].nested)
              /\ \A i \in DOMAIN Split(v) :
                   IsPrefix(Serialized(Children(t)[i]), SubSeq(v, Split(v)[i] + 1, Len(v)))
  <2>1. PICK ids : ids = Elements(node[t].nested)
    OBVIOUS
  <2>2. ids \in Seq(Tlvs) /\ Children(t) = ids
    BY <1>1, <2>1, SaysNow DEF Children
  <2>3. \A c \in ToSet(ids) : Payload[c] \in Seq(Bytes)
    <3>1. ToSet(ids) \subseteq Tlvs
      BY <2>2 DEF ToSet
    <3> QED
      BY <1>2, <3>1 DEF Says
  <2>4. v = FlattenSeq(Encodings(node, Payload, ids))
    BY <1>1, <1>3, <1>13, <2>1, PayloadNow
  <2>5. PICK ss : ss = Split(v)
    OBVIOUS
  <2>6. /\ Walk(v, ss, Len(v)) /\ Len(ss) = Len(ids)
        /\ \A i \in 1 .. Len(ids) : SubSeq(v, ss[i] + 1, After(v, ss[i])) = Encoding(node, Payload, ids[i])
    <3>1. Falls(v, node, Payload, ids)
      BY <1>2, <1>4, <2>2, <2>3, <2>4, Refalls
    <3> QED
      BY <2>5, <3>1 DEF Falls
  <2>7. Length(node[t].nested) = Len(ids)
    <3>1. node[t].nested \in Lists
      BY <1>1, <1>2, ObjectsListed DEF Listed
    <3> QED
      BY <2>1, <3>1, ElementsAre DEF Length
  <2>8. ss \in Seq(0 .. Len(v)) /\ DOMAIN ss = 1 .. Len(ids)
    BY <2>6 DEF Walk
  <2>9. ASSUME NEW i \in 1 .. Len(ids)
        PROVE  IsPrefix(Serialized(ids[i]), SubSeq(v, ss[i] + 1, Len(v)))
    <3>1. i \in 1 .. Len(ss)
      BY <2>6
    <3>2. PICK s, e, z : s = ss[i] /\ e = After(v, ss[i]) /\ z = Len(v)
      OBVIOUS
    <3>3. s \in 0 .. z /\ e \in 0 .. z /\ s < e /\ z \in Nat
      <4>1. i \in 0 .. Len(ss)
        BY <3>1
      <4>2. s \in 0 .. Len(v) /\ e \in 0 .. Len(v) /\ s < e
        BY <1>4, <2>6, <3>1, <3>2, <4>1, ReachIs
      <4> QED
        BY <1>4, <3>2, <4>2
    <3>4. PICK p, q, x, y : p = SubSeq(v, s + 1, e) /\ q = SubSeq(v, s + 1, z) /\ x = e - s /\ y = z - s
      OBVIOUS
    <3>5. x \in Nat /\ y \in Nat /\ s \in Nat /\ s + x = e /\ s + y = z /\ x <= y /\ e <= z
      BY <3>3, <3>4
    <3>6. p \in Seq(Bytes) /\ Len(p) = x /\ \A j \in 1 .. x : p[j] = v[s + j]
      <4>1. p = SubSeq(v, s + 1, s + x) /\ s + x <= Len(v)
        BY <3>2, <3>4, <3>5
      <4> QED
        BY <1>4, <3>5, <4>1, CutIs
    <3>7. q \in Seq(Bytes) /\ Len(q) = y /\ \A j \in 1 .. y : q[j] = v[s + j]
      <4>2. z <= z
        BY <3>3
      <4>1. q = SubSeq(v, s + 1, s + y) /\ s + y <= Len(v)
        BY <3>2, <3>4, <3>5, <4>2
      <4> QED
        BY <1>4, <3>5, <4>1, CutIs
    <3>8. SubSeq(p, 1, Len(p)) = SubSeq(q, 1, Len(p))
      <4>1. SubSeq(p, 1, x) = [j \in 1 .. x |-> p[j]]
        BY <3>5, <3>6
      <4>2. SubSeq(q, 1, x) = [j \in 1 .. x |-> q[j]]
        BY <3>5, <3>7
      <4>3. \A j \in 1 .. x : p[j] = q[j]
        BY <3>5, <3>6, <3>7
      <4> QED
        BY <3>6, <4>1, <4>2, <4>3
    <3>9. IsPrefix(p, q)
      BY <3>5, <3>6, <3>7, <3>8 DEF IsPrefix
    <3>10. Serialized(ids[i]) = p
      <4>1. ids[i] \in Tlvs
        BY <2>2
      <4> QED
        BY <2>6, <3>2, <3>4, <4>1, PayloadNow
    <3> QED
      BY <3>2, <3>4, <3>9, <3>10
  <2> QED
    BY <2>2, <2>5, <2>6, <2>7, <2>8, <2>9
<1> QED
  BY <1>3, <1>7, <1>10, <1>11, <1>12, <1>13

-----------------------------------------------------------------------------
(* Memory that is freed.                                                   *)

\* Before the memory of those who go is freed somebody may still point into it.
Drawn(ns, m) ==
  /\ Formed(ns, m) /\ m[Caller] = Shared
  /\ \A t \in Tlvs :
       /\ ns[t].refs \in Nat /\ (ns[t].refs = 0 => ns[t] = Gone)
       /\ ns[t].own => ns[t].data.in = t
       /\ ns[t].data.len > 0 =>
            Lender(ns, ns[t].data.in) \/ (ns[t].data.in \in Alive /\ ns[ns[t].data.in].refs = 0)
Outlived(ns) == \E t \in Alive : ns[t].refs = 0 /\ Lent(ns, t)

LEMMA GoneIs ==
  /\ Gone.refs = 0 /\ Gone.tag \in 0 .. TypeSpan * Byte - 1 /\ Gone.flags \in 0 .. 3 /\ ~Gone.own
  /\ Gone.data \in Pointers /\ Gone.data.len = 0 /\ \A m : Backed(m, Gone.data)
<1>1. TypeSpan * Byte \in Nat /\ TypeSpan * Byte > 0
  BY Units
<1>2. 0 \in 0 .. TypeSpan * Byte - 1
  BY <1>1
<1>3. Nowhere \in Pointers
  BY DEF Nowhere, Pointers, Regions
<1> QED
  BY <1>2, <1>3 DEF Gone, Nowhere, Backed

LEMMA UnmappedKeeps ==
  ASSUME NEW ns, NEW m, Drawn(ns, m), ~Outlived(ns)
  PROVE  /\ Memory(ns, Unmapped(m, ns))
         /\ \A t \in Tlvs : Peek(Unmapped(m, ns), ns[t].data) = Peek(m, ns[t].data)
<1>1. PICK k : k = Unmapped(m, ns)
  OBVIOUS
<1>2. m \in Memories /\ DOMAIN m = Regions
  BY DEF Drawn, Formed, Memories
<1>3. k = [u \in Regions |-> IF u # Caller /\ ns[u].refs = 0 THEN << >> ELSE m[u]]
  BY <1>1, <1>2 DEF Unmapped
<1>4. k \in Memories
  <2>1. \A u \in Regions : m[u] \in Seq(Cells)
    BY <1>2 DEF Memories
  <2>2. << >> \in Seq(Cells)
    OBVIOUS
  <2> QED
    BY <1>3, <2>1, <2>2 DEF Memories
<1>5. ASSUME NEW t \in Tlvs, ns[t].data.len > 0
      PROVE  k[ns[t].data.in] = m[ns[t].data.in] /\ Lender(ns, ns[t].data.in)
  <2>1. PICK d : d = ns[t].data
    OBVIOUS
  <2>2. d \in Pointers /\ d.len > 0 /\ d.in \in Regions
    BY <1>5, <2>1 DEF Drawn, Formed, Pointers
  <2>3. ns[t].refs > 0
    <3>1. ns[t] # Gone
      BY <1>5, GoneIs
    <3> QED
      BY <3>1 DEF Drawn
  <2>4. CASE d.in = Caller
    BY <1>3, <2>1, <2>2, <2>4 DEF Lender
  <2>5. CASE d.in \in Tlvs /\ ns[d.in].refs > 0 /\ ns[d.in].own
    BY <1>3, <2>1, <2>2, <2>5 DEF Lender
  <2>6. CASE d.in \in Alive /\ ns[d.in].refs = 0
    <3>1. PICK x : x = d.in
      OBVIOUS
    <3>2. t \in Tlvs \ {x}
      BY <2>3, <2>6, <3>1
    <3>3. Lent(ns, x)
      BY <2>1, <2>2, <2>3, <3>1, <3>2 DEF Lent
    <3>4. Outlived(ns)
      BY <2>6, <3>1, <3>3 DEF Outlived
    <3> QED
      BY <3>4
  <2> QED
    BY <1>5, <2>1, <2>4, <2>5, <2>6 DEF Drawn, Lender
<1>6. ASSUME NEW t \in Tlvs PROVE Peek(k, ns[t].data) = Peek(m, ns[t].data) /\ Backed(k, ns[t].data)
  <2>1. ns[t].data \in Pointers /\ Backed(m, ns[t].data)
    BY DEF Drawn, Formed
  <2> QED
    BY <1>2, <1>4, <1>5, <2>1, PeekSame
<1>7. Formed(ns, k)
  BY <1>4, <1>6 DEF Drawn, Formed
<1>9. k[Caller] = Shared
  BY <1>3 DEF Drawn, Regions
<1>8. Memory(ns, k)
  BY <1>5, <1>7, <1>9 DEF Drawn, Memory
<1> QED
  BY <1>1, <1>6, <1>8

\* Objects that go or keep what they point at.
SameBody(r, s) == r.tag = s.tag /\ r.flags = s.flags /\ r.type = s.type /\ r.own = s.own /\ r.data = s.data
Bodies(ks, ns) ==
  \A t \in Tlvs :
    ks[t] = Gone \/ (ks[t].refs \in Nat /\ ks[t].refs > 0 /\ ns[t].refs > 0 /\ SameBody(ks[t], ns[t]))

LEMMA BodiesDrawn ==
  ASSUME Memory(node, mem), NEW ns, Bodies(ns, node), \A t \in Tlvs : node[t].refs \in Nat
  PROVE  Drawn(ns, mem)
<1>1. \A t \in Tlvs : ns[t].refs \in Nat /\ (ns[t].refs = 0 => ns[t] = Gone)
  BY GoneIs DEF Bodies
<1>2. Formed(ns, mem)
  <2>1. mem \in Memories
    BY DEF Memory, Formed
  <2>2. ASSUME NEW t \in Tlvs
        PROVE  /\ ns[t].tag \in 0 .. TypeSpan * Byte - 1 /\ ns[t].flags \in 0 .. 3
               /\ ns[t].data \in Pointers /\ Backed(mem, ns[t].data)
    <3>1. CASE ns[t] = Gone
      BY <3>1, GoneIs
    <3>2. CASE ns[t] # Gone
      <4>1. SameBody(ns[t], node[t])
        BY <3>2 DEF Bodies
      <4> QED
        BY <4>1 DEF Memory, Formed, SameBody
    <3> QED
      BY <3>1, <3>2
  <2> QED
    BY <2>1, <2>2 DEF Formed
<1>3. ASSUME NEW t \in Tlvs
      PROVE  /\ ns[t].own => ns[t].data.in = t
             /\ ns[t].data.len > 0 =>
                  Lender(ns, ns[t].data.in) \/ (ns[t].data.in \in Alive /\ ns[ns[t].data.in].refs = 0)
  <2>1. CASE ns[t] = Gone
    BY <2>1, GoneIs
  <2>2. CASE ns[t] # Gone
    <3>1. SameBody(ns[t], node[t])
      BY <2>2 DEF Bodies
    <3>2. ns[t].own = node[t].own /\ ns[t].data = node[t].data
      BY <3>1 DEF SameBody
    <3>3. ns[t].own => ns[t].data.in = t
      BY <3>2 DEF Memory
    <3>4. ASSUME ns[t].data.len > 0
          PROVE  Lender(ns, ns[t].data.in) \/ (ns[t].data.in \in Alive /\ ns[ns[t].data.in].refs = 0)
      <4>1. PICK x : x = ns[t].data.in
        OBVIOUS
      <4>2. Lender(node, x)
        BY <3>2, <3>4, <4>1 DEF Memory
      <4>3. CASE x = Caller
        BY <4>1, <4>3 DEF Lender
      <4>4. CASE x \in Tlvs /\ node[x].refs > 0 /\ node[x].own
        <5>1. x \in Alive
          BY <4>4 DEF Alive, Live
        <5>2. CASE ns[x] = Gone
          BY <4>1, <5>1, <5>2, GoneIs
        <5>3. CASE ns[x] # Gone
          <6>1. ns[x].refs > 0 /\ ns[x].own
            BY <4>4, <5>3 DEF Bodies, SameBody
          <6> QED
            BY <4>1, <4>4, <6>1 DEF Lender
        <5> QED
          BY <5>2, <5>3
      <4> QED
        BY <4>2, <4>3, <4>4 DEF Lender
    <3> QED
      BY <3>3, <3>4
  <2> QED
    BY <2>1, <2>2
<1> QED
  BY <1>1, <1>2, <1>3 DEF Drawn, Memory

\* What a call does: the memory stays in order, and all but p are left alone.
Undisturbed(p) ==
  \A u \in Alive : node'[u].refs > 0 /\ u # p =>
    /\ node'[u].tag = node[u].tag /\ node'[u].flags = node[u].flags /\ node'[u].type = node[u].type
    /\ Elements(node'[u].nested) = Elements(node[u].nested)
    /\ Peek(mem', node'[u].data) = Peek(mem, node[u].data)
Orderly(p) == Memory(node', mem') /\ Undisturbed(p)

LEMMA BodiesKeep ==
  ASSUME MInv, Untrapped, NEW ns, Bodies(ns, node), NEW p,
         \A t \in Tlvs : ns[t].refs > 0 /\ t # p => Elements(ns[t].nested) = Elements(node[t].nested),
         Become(ns, mem), trap' = "none"
  PROVE  Orderly(p)
<1>1. Memory(node, mem) /\ Objects(node)
  BY SaysNow
<1>2. Drawn(ns, mem)
  <2>1. \A t \in Tlvs : node[t].refs \in Nat
    BY <1>1 DEF Objects, Sound
  <2> QED
    BY <1>1, <2>1, BodiesDrawn
<1>3. ~Outlived(ns) /\ node' = ns /\ mem' = Unmapped(mem, ns)
  BY DEF Become, Outlived
<1>4. Memory(node', mem') /\ \A t \in Tlvs : Peek(mem', ns[t].data) = Peek(mem, ns[t].data)
  BY <1>2, <1>3, UnmappedKeeps
<1>5. Undisturbed(p)
  <2> SUFFICES ASSUME NEW u \in Alive, ns[u].refs > 0, u # p
               PROVE  /\ ns[u].tag = node[u].tag /\ ns[u].flags = node[u].flags /\ ns[u].type = node[u].type
                      /\ Elements(ns[u].nested) = Elements(node[u].nested)
                      /\ Peek(mem', ns[u].data) = Peek(mem, node[u].data)
    BY <1>3 DEF Undisturbed
  <2>1. u \in Tlvs
    BY DEF Alive
  <2>2. ns[u] # Gone
    BY GoneIs
  <2>3. SameBody(ns[u], node[u])
    BY <2>1, <2>2 DEF Bodies
  <2> QED
    BY <1>4, <2>1, <2>3 DEF SameBody
<1> QED
  BY <1>4, <1>5 DEF Orderly

\* Freeing leaves those who stay as they are but for their count.
LEMMA FreedBodies ==
  ASSUME NEW ms, Objects(ms), \A u \in Tlvs : ms[u].refs = 0 => ms[u] = Gone,
         NEW ts \in Seq(Tlvs), Objects(Freed(ms, ts))
  PROVE  /\ Bodies(Freed(ms, ts), ms)
         /\ \A u \in Tlvs : Freed(ms, ts)[u].refs > 0 => Freed(ms, ts)[u].nested = ms[u].nested
<1> DEFINE dead == Dying(ms, ts)
<1>1. PICK ns : ns = Freed(ms, ts)
  OBVIOUS
<1>2. dead \in SUBSET Tlvs /\ Losing(ms, ts, dead) = dead
  BY DyingIs
<1>3. /\ \A u \in dead : ns[u] = Gone
      /\ \A u \in Tlvs \ dead : ns[u] = [ms[u] EXCEPT !.refs = ms[u].refs - Lost(ms, ts, u, dead)]
  BY <1>1, <1>2 DEF Freed
<1> HIDE DEF dead
<1>4. ASSUME NEW u \in Tlvs, ns[u] # Gone
      PROVE  ns[u].refs \in Nat /\ ns[u].refs > 0 /\ ms[u].refs > 0 /\ SameBody(ns[u], ms[u]) /\ ns[u].nested = ms[u].nested
  <2>1. u \in Tlvs \ dead
    BY <1>3, <1>4
  <2>2. ms[u].refs \in Nat /\ Shaped(ms[u])
    BY <2>1 DEF Objects, Sound
  <2>3. PICK l : l = Lost(ms, ts, u, dead)
    OBVIOUS
  <2>4. l \in Nat
    <3>1. Count(u, ts) \in Nat
      BY CountIs
    <3>2. References(ms, u, dead) \in Nat
      BY <1>2, ObjectsListed, ReferencesAre
    <3> QED
      BY <2>3, <3>1, <3>2 DEF Lost
  <2>5. PICK r, n : r = ms[u] /\ n = r.refs - l
    OBVIOUS
  <2>6. /\ r = [refs |-> r.refs, tag |-> r.tag, flags |-> r.flags, type |-> r.type, own |-> r.own,
                data |-> r.data, nested |-> r.nested]
        /\ ns[u] = [r EXCEPT !.refs = n]
    BY <1>3, <2>1, <2>2, <2>3, <2>5 DEF Shaped
  <2>7. /\ ns[u].refs = n /\ ns[u].tag = r.tag /\ ns[u].flags = r.flags /\ ns[u].type = r.type
        /\ ns[u].own = r.own /\ ns[u].data = r.data /\ ns[u].nested = r.nested
        /\ (n = r.refs => ns[u] = r)
    BY <2>6
  <2>8. n \in Nat
    BY <1>1, <2>7 DEF Objects, Sound
  <2>9. r.refs > 0
    <3> SUFFICES ASSUME ~(r.refs > 0) PROVE FALSE
      OBVIOUS
    <3>1. r.refs = 0 /\ n = r.refs
      BY <2>2, <2>4, <2>5, <2>8
    <3>2. ms[u] = Gone /\ ns[u] = r
      BY <2>5, <2>7, <3>1
    <3> QED
      BY <1>4, <2>5, <3>2
  <2>10. n > 0
    <3>1. u \notin Losing(ms, ts, dead)
      BY <1>2, <2>1
    <3>2. ~(ms[u].refs <= l)
      BY <2>3, <2>5, <2>9, <3>1 DEF Losing
    <3> QED
      BY <2>2, <2>4, <2>5, <3>2
  <2> QED
    BY <2>5, <2>7, <2>8, <2>9, <2>10 DEF SameBody
<1>5. Bodies(ns, ms)
  BY <1>4 DEF Bodies
<1>6. \A u \in Tlvs : ns[u].refs > 0 => ns[u].nested = ms[u].nested
  <2> SUFFICES ASSUME NEW u \in Tlvs, ns[u].refs > 0 PROVE ns[u].nested = ms[u].nested
    OBVIOUS
  <2>1. ns[u] # Gone
    BY GoneIs
  <2> QED
    BY <1>4, <2>1
<1> QED
  BY <1>1, <1>5, <1>6

-----------------------------------------------------------------------------
(* Objects that are new.                                                   *)

\* ns has the objects N that were not there before; of the others p may have changed its
\* type and what is nested in it.
Joins(ns, m, N, p) ==
  /\ m \in Memories /\ N \in SUBSET Tlvs
  /\ \A u \in Regions \ N : m[u] = mem[u]
  /\ \A u \in N :
       /\ node[u].refs = 0 /\ ns[u].refs = 1
       /\ ns[u].tag \in 0 .. TypeSpan * Byte - 1 /\ ns[u].flags \in 0 .. 3
       /\ ns[u].data \in Pointers /\ Backed(m, ns[u].data)
       /\ ns[u].own => ns[u].data.in = u
       /\ ns[u].data.len > 0 => Lender(ns, ns[u].data.in)
  /\ \A u \in Tlvs \ N : u # p => ns[u] = node[u]
  /\ p \in Tlvs =>
       /\ p \notin N /\ node[p].refs > 0 /\ ns[p].refs = node[p].refs
       /\ ns[p].tag = node[p].tag /\ ns[p].flags = node[p].flags
       /\ ns[p].own = node[p].own /\ ns[p].data = node[p].data

LEMMA JoinsDrawn ==
  ASSUME MInv, Untrapped, NEW ns, NEW m, NEW N, NEW p, Joins(ns, m, N, p)
  PROVE  /\ Drawn(ns, m)
         /\ \A u \in Tlvs \ N : Peek(m, ns[u].data) = Peek(mem, node[u].data)
<1>1. Memory(node, mem) /\ Formed(node, mem) /\ mem \in Memories /\ m \in Memories /\ N \in SUBSET Tlvs
      /\ \A u \in Tlvs : node[u].refs \in Nat
  BY SaysNow DEF Joins, Formed, Objects, Sound
<1>2. Caller \in Regions \ N
  BY <1>1 DEF Regions, Tlvs, Caller
<1>3. m[Caller] = Shared
  BY <1>1, <1>2 DEF Joins, Memory
<1>4. ASSUME NEW u \in Tlvs \ N
      PROVE  /\ ns[u].refs = node[u].refs /\ ns[u].tag = node[u].tag /\ ns[u].flags = node[u].flags
             /\ ns[u].own = node[u].own /\ ns[u].data = node[u].data
             /\ ns[u].refs = 0 => ns[u] = Gone
  <2>1. CASE u = p
    BY <1>1, <2>1 DEF Joins
  <2>2. CASE u # p
    <3>1. ns[u] = node[u]
      BY <2>2 DEF Joins
    <3> QED
      BY <1>1, <3>1 DEF Memory
  <2> QED
    BY <2>1, <2>2
<1>5. ASSUME NEW d, Lender(node, d)
      PROVE  d \in Regions \ N /\ Lender(ns, d)
  <2>1. CASE d = Caller
    BY <1>2, <2>1 DEF Lender
  <2>2. CASE d \in Tlvs /\ node[d].refs > 0 /\ node[d].own
    <3>1. d \notin N
      BY <2>2 DEF Joins
    <3> QED
      BY <1>4, <2>2, <3>1 DEF Lender, Regions
  <2> QED
    BY <1>5, <2>1, <2>2 DEF Lender
<1>6. ASSUME NEW u \in Tlvs \ N
      PROVE  /\ Peek(m, node[u].data) = Peek(mem, node[u].data) /\ Backed(m, node[u].data)
             /\ node[u].data.len > 0 => Lender(ns, node[u].data.in)
  <2>1. node[u].data \in Pointers /\ Backed(mem, node[u].data)
    BY <1>1 DEF Formed
  <2>2. node[u].data.len > 0 => Lender(node, node[u].data.in)
    BY <1>1 DEF Memory
  <2>3. node[u].data.len > 0 => m[node[u].data.in] = mem[node[u].data.in] /\ Lender(ns, node[u].data.in)
    BY <1>5, <2>2 DEF Joins
  <2> QED
    BY <1>1, <2>1, <2>3, PeekSame
<1>7. ASSUME NEW u \in Tlvs
      PROVE  /\ ns[u].tag \in 0 .. TypeSpan * Byte - 1 /\ ns[u].flags \in 0 .. 3
             /\ ns[u].data \in Pointers /\ Backed(m, ns[u].data)
             /\ ns[u].refs \in Nat /\ (ns[u].refs = 0 => ns[u] = Gone)
             /\ ns[u].own => ns[u].data.in = u
             /\ ns[u].data.len > 0 => Lender(ns, ns[u].data.in)
  <2>1. CASE u \in N
    BY <2>1 DEF Joins
  <2>2. CASE u \notin N
    BY <1>1, <1>4, <1>6, <2>2 DEF Formed, Memory
  <2> QED
    BY <2>1, <2>2
<1>8. Formed(ns, m)
  BY <1>1, <1>7 DEF Formed
<1>9. Drawn(ns, m)
  BY <1>3, <1>7, <1>8 DEF Drawn
<1> QED
  BY <1>4, <1>6, <1>9

LEMMA JoinsKeep ==
  ASSUME MInv, Untrapped, NEW ns, NEW m, NEW N, NEW p, Joins(ns, m, N, p),
         \A u \in Tlvs \ N : u # p => Elements(ns[u].nested) = Elements(node[u].nested),
         Become(ns, m), trap' = "none"
  PROVE  Orderly(p)
<1>1. Drawn(ns, m) /\ \A u \in Tlvs \ N : Peek(m, ns[u].data) = Peek(mem, node[u].data)
  BY JoinsDrawn
<1>2. ~Outlived(ns) /\ node' = ns /\ mem' = Unmapped(m, ns)
  BY DEF Become, Outlived
<1>3. Memory(node', mem') /\ \A t \in Tlvs : Peek(mem', ns[t].data) = Peek(m, ns[t].data)
  BY <1>1, <1>2, UnmappedKeeps
<1>4. Undisturbed(p)
  <2> SUFFICES ASSUME NEW u \in Alive, u # p
               PROVE  /\ ns[u].tag = node[u].tag /\ ns[u].flags = node[u].flags /\ ns[u].type = node[u].type
                      /\ Elements(ns[u].nested) = Elements(node[u].nested)
                      /\ Peek(mem', ns[u].data) = Peek(mem, node[u].data)
    BY <1>2 DEF Undisturbed
  <2>1. u \in Tlvs /\ u \notin N
    BY DEF Alive, Live, Joins
  <2>2. ns[u] = node[u]
    BY <2>1 DEF Joins
  <2> QED
    BY <1>1, <1>3, <2>1, <2>2
<1> QED
  BY <1>3, <1>4 DEF Orderly

\* A new object, and the buffer that is its own.
Whole(o, b, f) ==
  /\ o.refs = 1 /\ o.tag \in 0 .. TypeSpan * Byte - 1 /\ o.flags \in 0 .. 3 /\ o.data \in Pointers
  /\ b \in Seq(Cells)
  /\ o.own => o.data.in = f
  /\ o.data.len > 0 =>
       \/ /\ o.own /\ o.data.in = f /\ o.data.at + o.data.len <= Len(b)
          /\ \A i \in 1 .. o.data.len : b[o.data.at + i] \in Bytes
       \/ o.data.in = Caller /\ o.data.at + o.data.len <= Len(Shared)

LEMMA BytesAreCells ==
  \A s \in Seq(Bytes) : s \in Seq(Cells)
BY DEF Cells

LEMMA FreshIs ==
  ASSUME MInv, Untrapped, used < MaxTlvs
  PROVE  /\ Fresh \in Tlvs /\ Fresh \in Regions /\ node[Fresh] = Gone /\ node[Fresh].refs = 0 /\ Fresh # Caller
         /\ Fresh \in Nat /\ Fresh = used + 1
         /\ \A u \in Tlvs : u > used => node[u] = Gone /\ node[u].refs = 0
<1>1. /\ used \in Nat /\ used <= MaxTlvs /\ MaxTlvs \in Nat
      /\ \A t \in Tlvs : t \in Nat /\ t > 0 /\ (t > used => node[t] = Gone)
  BY Now DEF MInv
<1>2. Fresh = used + 1
  BY DEF Fresh
<1>3. Fresh \in Tlvs /\ Fresh > used
  BY <1>1, <1>2 DEF Tlvs
<1>4. \A u \in Tlvs : u > used => node[u] = Gone /\ node[u].refs = 0
  BY <1>1, GoneIs
<1> QED
  BY <1>1, <1>2, <1>3, <1>4 DEF Regions, Caller

LEMMA MadeKeeps ==
  ASSUME MInv, Untrapped, used < MaxTlvs, NEW o, NEW b, Whole(o, b, Fresh),
         Become([node EXCEPT ![Fresh] = o], [mem EXCEPT ![Fresh] = b]), trap' = "none"
  PROVE  Orderly(Caller)
<1>0. PICK f : f = Fresh
  OBVIOUS
<1>1. f \in Tlvs /\ f \in Regions /\ node[f].refs = 0 /\ f # Caller
  BY <1>0, FreshIs
<1>2. Memory(node, mem) /\ mem \in Memories /\ node = [u \in Tlvs |-> node[u]]
  BY SaysNow DEF Formed, Objects
<1>3. PICK ns, m : ns = [node EXCEPT ![f] = o] /\ m = [mem EXCEPT ![f] = b]
  OBVIOUS
<1>4. ns[f] = o /\ \A u \in Tlvs : u # f => ns[u] = node[u]
  BY <1>1, <1>2, <1>3
<1>5. m \in Memories /\ m[f] = b /\ \A u \in Regions : u # f => m[u] = mem[u]
  <2>1. b \in Seq(Cells)
    BY DEF Whole
  <2> QED
    BY <1>1, <1>2, <1>3, <2>1 DEF Memories
<1>6. m[Caller] = Shared
  <2>1. Caller \in Regions
    BY DEF Regions
  <2> QED
    BY <1>1, <1>2, <1>5, <2>1 DEF Memory
<1>7. Backed(m, o.data)
  <2> SUFFICES ASSUME o.data.len > 0
               PROVE  /\ o.data.at + o.data.len <= Len(m[o.data.in])
                      /\ \A i \in 1 .. o.data.len : m[o.data.in][o.data.at + i] \in Bytes
    BY DEF Backed
  <2>1. CASE o.data.in = f /\ o.data.at + o.data.len <= Len(b) /\ \A i \in 1 .. o.data.len : b[o.data.at + i] \in Bytes
    BY <1>5, <2>1
  <2>2. CASE o.data.in = Caller /\ o.data.at + o.data.len <= Len(Shared)
    <3>1. Shared \in Seq(Bytes)
      BY BytesAssumption
    <3>2. PICK at, len, n : at = o.data.at /\ len = o.data.len /\ n = Len(Shared)
      OBVIOUS
    <3>3. at \in Nat /\ len \in Nat /\ n \in Nat /\ at + len <= n
      BY <2>2, <3>1, <3>2 DEF Whole, Pointers
    <3>4. \A i \in 1 .. len : Shared[at + i] \in Bytes
      BY <3>1, <3>2, <3>3
    <3> QED
      BY <1>6, <2>2, <3>2, <3>4
  <2> QED
    BY <1>0, <2>1, <2>2 DEF Whole
<1>8. o.data.len > 0 => Lender(ns, o.data.in)
  <2>1. o.refs = 1 /\ (o.data.len > 0 => (o.own /\ o.data.in = f) \/ o.data.in = Caller)
    BY <1>0 DEF Whole
  <2> QED
    BY <1>1, <1>4, <2>1 DEF Lender
<1>9. Joins(ns, m, {f}, Caller)
  <2>1. Caller \notin Tlvs
    BY DEF Caller, Tlvs
  <2>2. /\ o.refs = 1 /\ o.tag \in 0 .. TypeSpan * Byte - 1 /\ o.flags \in 0 .. 3 /\ o.data \in Pointers
        /\ o.own => o.data.in = f
    BY <1>0 DEF Whole
  <2> QED
    BY <1>1, <1>4, <1>5, <1>7, <1>8, <2>1, <2>2 DEF Joins
<1>10. \A u \in Tlvs \ {f} : u # Caller => Elements(ns[u].nested) = Elements(node[u].nested)
  BY <1>4
<1>11. Become(ns, m)
  BY <1>0, <1>3
<1> QED
  BY <1>9, <1>10, <1>11, JoinsKeep

LEMMA PaddedIs ==
  ASSUME NEW v \in Seq(Bytes)
  PROVE  /\ Padded(v) \in Seq(Cells) /\ Len(v) <= Len(Padded(v))
         /\ Len(v) <= BufferSize => Len(Padded(v)) = BufferSize
         /\ \A i \in 1 .. Len(v) : Padded(v)[i] = v[i]
<1>1. PICK n : n = BufferSize - Len(v)
  OBVIOUS
<1>2. n \in Int /\ Len(v) \in Nat /\ BufferSize \in Nat
  BY <1>1, Units
<1>3. PICK r : r = [i \in 1 .. n |-> -1]
  OBVIOUS
<1>4. r \in Seq(Cells) /\ Len(r) \in Nat /\ (n >= 0 => Len(r) = n)
  <2>1. CASE n >= 0
    <3>1. n \in Nat /\ -1 \in Cells
      BY <1>2, <2>1 DEF Cells
    <3> QED
      BY <1>3, <3>1
  <2>2. CASE ~(n >= 0)
    <3>1. 1 .. n = 1 .. 0
      BY <1>2, <2>2
    <3>2. r \in [1 .. 0 -> Cells]
      BY <1>3, <3>1
    <3>3. r \in Seq(Cells) /\ Len(r) = 0
      BY <3>2
    <3> QED
      BY <2>2, <3>3
  <2> QED
    BY <2>1, <2>2
<1>5. v \in Seq(Cells)
  BY BytesAreCells
<1>6. Padded(v) = v \o r
  BY <1>1, <1>3 DEF Padded
<1>7. /\ v \o r \in Seq(Cells) /\ Len(v \o r) = Len(v) + Len(r)
      /\ \A i \in 1 .. Len(v) : (v \o r)[i] = v[i]
  BY <1>4, <1>5, JoinIs
<1> QED
  BY <1>1, <1>2, <1>4, <1>6, <1>7

LEMMA UintBytesAre ==
  ASSUME NEW val \in UintValues
  PROVE  UintBytes(val) \in Seq(Bytes)
<1>1. val \in 0 .. (Byte * Byte - 1) /\ Byte \in Nat /\ Byte > 0 /\ Byte * Byte \in Nat
  BY BytesAssumption, Units, Products
<1>2. CASE val = 0
  BY <1>2 DEF UintBytes
<1>3. CASE val \in 1 .. (Byte - 1)
  <2>1. val \in Bytes /\ val # 0
    BY <1>1, <1>3 DEF Bytes
  <2>2. UintBytes(val) = << val >>
    BY <1>3, <2>1 DEF UintBytes
  <2> QED
    BY <2>1, <2>2
<1>4. CASE val # 0 /\ val \notin 1 .. (Byte - 1)
  <2>1. val \in Nat /\ val < Byte * Byte
    BY <1>1
  <2>2. val \div Byte \in Nat /\ val \div Byte < Byte /\ val % Byte \in 0 .. Byte - 1
    BY <1>1, <2>1, Digits, DigitsBelow
  <2>3. val \div Byte \in Bytes /\ val % Byte \in Bytes
    BY <1>1, <2>2 DEF Bytes
  <2>4. UintBytes(val) = << val \div Byte, val % Byte >>
    BY <1>4 DEF UintBytes
  <2> QED
    BY <2>3, <2>4
<1> QED
  BY <1>2, <1>3, <1>4

\* What is parsed lies in the bytes it is parsed from.
LEMMA ParsedIs ==
  ASSUME NEW b \in Seq(Bytes), NEW owner \in Regions
  PROVE  LET o == Parsed(b, owner)
         IN  /\ o.refs = 1 /\ o.tag = ReadFirst(b).tag /\ o.flags = ReadFirst(b).flags /\ o.type = "RAW"
             /\ (o.own <=> owner # Caller) /\ o.nested = NewList
             /\ o.data = [in |-> owner, at |-> ReadFirst(b).size, len |-> ReadFirst(b).len]
             /\ o.tag \in 0 .. TypeSpan * Byte - 1 /\ o.flags \in 0 .. 3 /\ o.data \in Pointers
             /\ o.data.at + o.data.len <= Len(b)
<1>1. PICK h : h = ReadFirst(b)
  OBVIOUS
<1>2. /\ h.size \in {0, 2, 4} /\ h.size + h.len <= Len(b)
      /\ h.tag \in 0 .. TypeSpan * Byte - 1 /\ h.flags \in 0 .. 3 /\ h.len \in Nat
  BY <1>1, FirstIs
<1>3. [in |-> owner, at |-> h.size, len |-> h.len] \in Pointers
  BY <1>2 DEF Pointers
<1> QED
  BY <1>1, <1>2, <1>3 DEF Parsed, Object

LEMMA ParsedWhole ==
  ASSUME NEW b \in Seq(Bytes), NEW f \in Regions, f # Caller
  PROVE  Whole(Parsed(b, f), b, f)
<1>1. PICK o : o = Parsed(b, f)
  OBVIOUS
<1>2. /\ o.refs = 1 /\ o.own /\ o.data.in = f
      /\ o.tag \in 0 .. TypeSpan * Byte - 1 /\ o.flags \in 0 .. 3 /\ o.data \in Pointers
      /\ o.data.at + o.data.len <= Len(b)
  <2>1. /\ o.refs = 1 /\ (o.own <=> f # Caller) /\ o.data = [in |-> f, at |-> ReadFirst(b).size, len |-> ReadFirst(b).len]
        /\ o.tag \in 0 .. TypeSpan * Byte - 1 /\ o.flags \in 0 .. 3 /\ o.data \in Pointers
        /\ o.data.at + o.data.len <= Len(b)
    BY <1>1, ParsedIs, Zenon
  <2> QED
    BY <2>1
<1>3. \A i \in 1 .. o.data.len : b[o.data.at + i] \in Bytes
  <2>1. PICK at, len, n : at = o.data.at /\ len = o.data.len /\ n = Len(b)
    OBVIOUS
  <2>2. at \in Nat /\ len \in Nat /\ n \in Nat /\ at + len <= n
    BY <1>2, <2>1 DEF Pointers
  <2>3. \A i \in 1 .. len : b[at + i] \in Bytes
    BY <2>1, <2>2
  <2> QED
    BY <2>1, <2>3
<1>4. b \in Seq(Cells)
  BY BytesAreCells
<1> QED
  BY <1>1, <1>2, <1>3, <1>4 DEF Whole

LEMMA UnchangedKeeps ==
  ASSUME MInv, Untrapped, UNCHANGED <<node, mem>>, NEW p
  PROVE  Orderly(p)
<1>1. Memory(node, mem) /\ node' = node /\ mem' = mem
  BY SaysNow
<1>2. Memory(node', mem')
  BY <1>1
<1>3. Undisturbed(p)
  BY <1>1 DEF Undisturbed
<1> QED
  BY <1>2, <1>3 DEF Orderly

LEMMA MakeKeeps ==
  ASSUME MInv, Untrapped, NEW o, NEW b, Whole(o, b, Fresh), Make("make", o, b), trap' = "none"
  PROVE  Orderly(Caller)
<1>1. used < MaxTlvs /\ Become([node EXCEPT ![Fresh] = o], [mem EXCEPT ![Fresh] = b])
  BY DEF Make
<1> QED
  BY <1>1, MadeKeeps

LEMMA NewKeeps ==
  ASSUME MInv, Untrapped, NEW h \in Made, New(h), trap' = "none"
  PROVE  Orderly(Caller)
<1>1. PICK o : o = Object(h.tag, h.flags, h.type, FALSE, Nowhere)
  OBVIOUS
<1>2. Make("make", o, << >>)
  BY <1>1 DEF New
<1>3. /\ o.refs = 1 /\ o.tag = h.tag /\ o.flags = h.flags /\ ~o.own /\ o.data = Nowhere
  BY <1>1 DEF Object
<1>4. Nowhere \in Pointers /\ Nowhere.len = 0
  BY GoneIs DEF Gone, Nowhere, Pointers, Regions
<1>5. h.tag \in 0 .. TypeSpan * Byte - 1 /\ h.flags \in 0 .. 3
  BY TlvAssumption
<1>6. << >> \in Seq(Cells)
  OBVIOUS
<1>7. Whole(o, << >>, Fresh)
  BY <1>3, <1>4, <1>5, <1>6 DEF Whole
<1> QED
  BY <1>2, <1>7, MakeKeeps

LEMMA FromUintKeeps ==
  ASSUME MInv, Untrapped, NEW h \in Made, NEW val \in UintValues, FromUint(h, val), trap' = "none"
  PROVE  Orderly(Caller)
<1>1. PICK v : v = UintBytes(val)
  OBVIOUS
<1>2. v \in Seq(Bytes)
  BY <1>1, UintBytesAre
<1>3. PICK o : o = Object(h.tag, h.flags, "INT", TRUE, [in |-> Fresh, at |-> 0, len |-> Len(v)])
  OBVIOUS
<1>4. Make("make", o, Padded(v))
  BY <1>1, <1>3 DEF FromUint
<1>5. /\ o.refs = 1 /\ o.tag = h.tag /\ o.flags = h.flags /\ o.own /\ o.data = [in |-> Fresh, at |-> 0, len |-> Len(v)]
  BY <1>3 DEF Object
<1>6. h.tag \in 0 .. TypeSpan * Byte - 1 /\ h.flags \in 0 .. 3
  BY TlvAssumption
<1>7. Fresh \in Regions
  BY <1>4, FreshIs DEF Make
<1>8. o.data \in Pointers
  BY <1>2, <1>5, <1>7 DEF Pointers
<1>9. Padded(v) \in Seq(Cells) /\ Len(v) <= Len(Padded(v)) /\ \A i \in 1 .. Len(v) : Padded(v)[i] = v[i]
  BY <1>2, PaddedIs
<1>10. o.data.at + o.data.len <= Len(Padded(v))
  <2>1. PICK n : n = Len(v)
    OBVIOUS
  <2>2. n \in Nat /\ 0 + n = n
    BY <1>2, <2>1
  <2>3. o.data.at = 0 /\ o.data.len = n
    BY <1>5, <2>1
  <2> QED
    BY <1>9, <2>1, <2>2, <2>3
<1>11. \A i \in 1 .. o.data.len : Padded(v)[o.data.at + i] \in Bytes
  <2>1. o.data.at = 0 /\ o.data.len = Len(v)
    BY <1>5
  <2> SUFFICES ASSUME NEW i \in 1 .. Len(v) PROVE Padded(v)[0 + i] \in Bytes
    BY <2>1
  <2>2. 0 + i = i
    OBVIOUS
  <2>3. v[i] \in Bytes
    BY <1>2
  <2> QED
    BY <1>9, <2>2, <2>3
<1>12. Whole(o, Padded(v), Fresh)
  <2>1. o.data.in = Fresh
    BY <1>5
  <2> QED
    BY <1>5, <1>6, <1>8, <1>9, <1>10, <1>11, <2>1 DEF Whole
<1> QED
  BY <1>4, <1>12, MakeKeeps

LEMMA CreateKeeps ==
  ASSUME MInv, Untrapped, Create, trap' = "none"
  PROVE  Orderly(Caller)
<1>1. ASSUME NEW h \in Made, New(h) PROVE Orderly(Caller)
  BY <1>1, NewKeeps
<1>2. ASSUME NEW h \in Made, NEW val \in UintValues, FromUint(h, val) PROVE Orderly(Caller)
  BY <1>2, FromUintKeeps
<1>3. ASSUME NEW b \in Blobs, ParseBlob(b) PROVE Orderly(Caller)
  <2>1. Make("make", Parsed(b, Fresh), b)
    BY <1>3 DEF ParseBlob
  <2>2. Fresh \in Regions /\ Fresh # Caller
    BY <2>1, FreshIs DEF Make
  <2>3. Whole(Parsed(b, Fresh), b, Fresh)
    BY <2>2, BytesAssumption, ParsedWhole
  <2> QED
    BY <2>1, <2>3, MakeKeeps
<1>4. ASSUME ParseShared PROVE Orderly(Caller)
  <2>1. PICK o : o = Parsed(Shared, Caller)
    OBVIOUS
  <2>2. Make("make", o, << >>)
    BY <1>4, <2>1 DEF ParseShared
  <2>3. Shared \in Seq(Bytes) /\ Caller \in Regions
    BY BytesAssumption DEF Regions
  <2>4. /\ o.refs = 1 /\ (o.own <=> Caller # Caller)
        /\ o.data = [in |-> Caller, at |-> ReadFirst(Shared).size, len |-> ReadFirst(Shared).len]
        /\ o.tag \in 0 .. TypeSpan * Byte - 1 /\ o.flags \in 0 .. 3 /\ o.data \in Pointers
        /\ o.data.at + o.data.len <= Len(Shared)
    BY <2>1, <2>3, ParsedIs, Zenon
  <2>5. ~o.own /\ o.data.in = Caller
    BY <2>4
  <2>6. << >> \in Seq(Cells)
    OBVIOUS
  <2>7. Whole(o, << >>, Fresh)
    BY <2>4, <2>5, <2>6 DEF Whole
  <2> QED
    BY <2>2, <2>7, MakeKeeps
<1>5. ASSUME NEW b, ParseFails(b) PROVE Orderly(Caller)
  <2>1. UNCHANGED <<node, mem>>
    BY <1>5 DEF ParseFails, Fails, vars
  <2> QED
    BY <2>1, UnchangedKeeps
<1>6. ASSUME FromReader PROVE Orderly(Caller)
  <2>1. CASE ReadFirst(stream).size = 0
    <3>1. UNCHANGED <<node, mem>>
      BY <1>6, <2>1 DEF FromReader
    <3> QED
      BY <3>1, UnchangedKeeps
  <2>2. CASE ReadFirst(stream).size # 0
    <3>1. PICK n, b : n = ReadFirst(stream).size + ReadFirst(stream).len /\ b = SubSeq(stream, 1, n)
      OBVIOUS
    <3>2. used < MaxTlvs /\ Become([node EXCEPT ![Fresh] = Parsed(b, Fresh)], [mem EXCEPT ![Fresh] = b])
      BY <1>6, <2>2, <3>1 DEF FromReader
    <3>3. stream \in Seq(Bytes)
      BY DEF MInv
    <3>4. n \in Nat /\ n <= Len(stream) /\ 0 + n = n /\ 0 + 1 = 1
      BY <3>1, <3>3, FirstIs
    <3>5. b \in Seq(Bytes)
      BY <3>1, <3>3, <3>4, CutIs
    <3>6. Whole(Parsed(b, Fresh), b, Fresh)
      BY <3>2, <3>5, FreshIs, ParsedWhole
    <3> QED
      BY <3>2, <3>6, MadeKeeps
  <2> QED
    BY <2>1, <2>2
<1> QED
  BY <1>1, <1>2, <1>3, <1>4, <1>5, <1>6 DEF Create

\* What a reader has still to deliver consists of bytes.
LEMMA StreamStays ==
  ASSUME MInv, [Next]_vars
  PROVE  stream' \in Seq(Bytes)
<1>1. stream \in Seq(Bytes)
  BY DEF MInv
<1>2. CASE stream' = stream
  BY <1>1, <1>2
<1>3. CASE FromReader
  <2>1. PICK h : h = ReadFirst(stream)
    OBVIOUS
  <2>2. CASE h.size = 0
    <3>1. stream' = << >>
      BY <1>3, <2>1, <2>2 DEF FromReader
    <3> QED
      BY <3>1
  <2>3. CASE h.size # 0
    <3>1. PICK n, z : n = h.size + h.len /\ z = Len(stream)
      OBVIOUS
    <3>2. stream' = SubSeq(stream, n + 1, z)
      BY <1>3, <2>1, <2>3, <3>1 DEF FromReader
    <3>3. n \in Nat /\ n <= z /\ z \in Nat
      BY <1>1, <2>1, <3>1, FirstIs
    <3>4. n + 1 \in Nat \ {0} /\ n + 1 <= z + 1 /\ z <= Len(stream)
      BY <3>1, <3>3
    <3> QED
      BY <1>1, <3>2, <3>3, <3>4, PieceIs
  <2> QED
    BY <2>2, <2>3
<1>4. CASE stream' # stream /\ ~FromReader
  <2>1. CASE UNCHANGED vars
    BY <1>4, <2>1 DEF vars
  <2>2. CASE Next
    <3>1. CASE Create
      BY <1>4, <3>1 DEF Create, New, FromUint, ParseBlob, ParseShared, ParseFails, Make, Fails, vars
    <3>2. CASE \E t \in Alive : Change(t) \/ Nest(t)
      <4>1. PICK t \in Alive : Change(t) \/ Nest(t)
        BY <3>2
      <4>2. CASE Change(t)
        BY <1>4, <4>2 DEF Change, SetRawValue, SetUintValue, CastTlv, CastRaw, Ref, Free, CloneTlv, Clone,
                           CloneFails, ListSort, Fails, vars
      <4>3. CASE Nest(t)
        BY <1>4, <4>3 DEF Nest, AppendNestedTlv, ReplaceNestedTlv, ReplaceAt1, ListReplaceAt, ListInsertAt,
                           RemoveNestedTlv, ListRemove, Fails, vars
      <4> QED
        BY <4>1, <4>2, <4>3
    <3> QED
      BY <2>2, <3>1, <3>2 DEF Next
  <2> QED
    BY <2>1, <2>2
<1> QED
  BY <1>2, <1>3, <1>4

-----------------------------------------------------------------------------
(* References, and what is nested.                                         *)

LEMMA BodiesGo ==
  ASSUME NEW ks, NEW ms, NEW ns, Bodies(ks, ms), Bodies(ms, ns)
  PROVE  Bodies(ks, ns)
<1> SUFFICES ASSUME NEW t \in Tlvs, ks[t] # Gone
             PROVE  ks[t].refs \in Nat /\ ks[t].refs > 0 /\ ns[t].refs > 0 /\ SameBody(ks[t], ns[t])
  BY DEF Bodies
<1>1. ks[t].refs \in Nat /\ ks[t].refs > 0 /\ ms[t].refs > 0 /\ SameBody(ks[t], ms[t])
  BY DEF Bodies
<1>2. ms[t] # Gone
  BY <1>1, GoneIs
<1>3. ns[t].refs > 0 /\ SameBody(ms[t], ns[t])
  BY <1>2 DEF Bodies
<1> QED
  BY <1>1, <1>3 DEF SameBody

LEMMA BodiesNow ==
  ASSUME MInv, Untrapped
  PROVE  \A t \in Tlvs : node[t] = Gone \/ (node[t].refs \in Nat /\ node[t].refs > 0)
<1>1. \A t \in Tlvs : node[t].refs \in Nat /\ (node[t].refs = 0 => node[t] = Gone)
  BY SaysNow DEF Objects, Sound, Memory
<1> QED
  BY <1>1

LEMMA WithListBodies ==
  ASSUME MInv, Untrapped, NEW p \in Alive, NEW l \in Lists, l.len > 0 => node[p].type = "TLV"
  PROVE  /\ Objects(WithList(p, l)) /\ Bodies(WithList(p, l), node) /\ WithList(p, l)[p].nested = l
         /\ \A u \in Tlvs : u # p => WithList(p, l)[u] = node[u]
         /\ \A u \in Tlvs : WithList(p, l)[u].refs = 0 => WithList(p, l)[u] = Gone
<1>1. PICK ms : ms = WithList(p, l)
  OBVIOUS
<1>2. p \in Tlvs /\ node[p].refs > 0
  BY DEF Alive, Live
<1>3. Objects(node) /\ node = [u \in Tlvs |-> node[u]] /\ Shaped(node[p])
  BY <1>2, SaysNow DEF Objects, Sound
<1>4. Objects(ms) /\ ms[p].nested = l /\ \A u \in Tlvs : ms[u].refs = node[u].refs /\ (u # p => ms[u] = node[u])
  BY <1>1, <1>2, <1>3, WithListIs
<1>5. SameBody(ms[p], node[p])
  <2>1. PICK r : r = node[p]
    OBVIOUS
  <2>2. /\ r = [refs |-> r.refs, tag |-> r.tag, flags |-> r.flags, type |-> r.type, own |-> r.own,
                data |-> r.data, nested |-> r.nested]
        /\ ms[p] = [r EXCEPT !.nested = l]
    BY <1>1, <1>2, <1>3, <2>1 DEF WithList, Shaped
  <2> QED
    BY <2>1, <2>2 DEF SameBody
<1>6. ASSUME NEW t \in Tlvs
      PROVE  /\ ms[t] = Gone \/ (ms[t].refs \in Nat /\ ms[t].refs > 0 /\ node[t].refs > 0 /\ SameBody(ms[t], node[t]))
             /\ ms[t].refs = 0 => ms[t] = Gone
  <2>1. node[t] = Gone \/ (node[t].refs \in Nat /\ node[t].refs > 0)
    BY BodiesNow
  <2>2. CASE t = p
    BY <1>2, <1>4, <1>5, <2>1, <2>2, GoneIs
  <2>3. CASE t # p
    BY <1>4, <2>1, <2>3, GoneIs DEF SameBody
  <2> QED
    BY <2>2, <2>3
<1>7. Bodies(ms, node)
  BY <1>6 DEF Bodies
<1> QED
  BY <1>1, <1>4, <1>6, <1>7

\* The list of p is another one.
LEMMA ListedKeeps ==
  ASSUME MInv, Untrapped, NEW p \in Alive, NEW l \in Lists, l.len > 0 => node[p].type = "TLV",
         Become(WithList(p, l), mem), trap' = "none"
  PROVE  Orderly(p)
<1>1. PICK ms : ms = WithList(p, l)
  OBVIOUS
<1>2. Bodies(ms, node) /\ \A u \in Tlvs : u # p => ms[u] = node[u]
  BY <1>1, WithListBodies
<1>3. \A u \in Tlvs : ms[u].refs > 0 /\ u # p => Elements(ms[u].nested) = Elements(node[u].nested)
  BY <1>2
<1>4. Become(ms, mem)
  BY <1>1
<1> QED
  BY <1>2, <1>3, <1>4, BodiesKeep

\* Something is freed.
LEMMA FreedKeeps ==
  ASSUME MInv, Untrapped, IInv', NEW ms, Objects(ms), Bodies(ms, node), \A u \in Tlvs : ms[u].refs = 0 => ms[u] = Gone,
         NEW p, \A u \in Tlvs : ms[u].refs > 0 /\ u # p => ms[u].nested = node[u].nested,
         NEW ts \in Seq(Tlvs), Become(Freed(ms, ts), mem), trap' = "none"
  PROVE  Orderly(p)
<1>1. PICK ns : ns = Freed(ms, ts)
  OBVIOUS
<1>2. Objects(ns)
  <2>1. node' = ns
    BY <1>1 DEF Become
  <2>2. Untrapped' /\ Good(node', held', used')
    BY DEF IInv, Untrapped
  <2> QED
    BY <2>1, <2>2 DEF Good
<1>3. Bodies(ns, ms) /\ \A u \in Tlvs : ns[u].refs > 0 => ns[u].nested = ms[u].nested
  BY <1>1, <1>2, FreedBodies
<1>4. Bodies(ns, node)
  BY <1>3, BodiesGo
<1>5. ASSUME NEW u \in Tlvs, ns[u].refs > 0, u # p PROVE Elements(ns[u].nested) = Elements(node[u].nested)
  <2>1. ns[u] # Gone
    BY <1>5, GoneIs
  <2>2. ms[u].refs > 0
    BY <1>3, <2>1 DEF Bodies
  <2> QED
    BY <1>3, <1>5, <2>2
<1>6. Become(ns, mem)
  BY <1>1
<1> QED
  BY <1>4, <1>5, <1>6, BodiesKeep

LEMMA ListFreedKeeps ==
  ASSUME MInv, Untrapped, IInv', NEW p \in Alive, NEW l \in Lists, l.len > 0 => node[p].type = "TLV",
         NEW k \in Tlvs, Become(Freed(WithList(p, l), << k >>), mem), trap' = "none"
  PROVE  Orderly(p)
<1>1. PICK ms, ts : ms = WithList(p, l) /\ ts = << k >>
  OBVIOUS
<1>2. /\ Objects(ms) /\ Bodies(ms, node) /\ \A u \in Tlvs : u # p => ms[u] = node[u]
      /\ \A u \in Tlvs : ms[u].refs = 0 => ms[u] = Gone
  BY <1>1, WithListBodies
<1>3. ts \in Seq(Tlvs) /\ Become(Freed(ms, ts), mem)
  BY <1>1
<1>4. \A u \in Tlvs : ms[u].refs > 0 /\ u # p => ms[u].nested = node[u].nested
  BY <1>2
<1> QED
  BY <1>2, <1>3, <1>4, FreedKeeps

LEMMA AppendingKeeps ==
  ASSUME MInv, Untrapped, NEW p \in Alive, NEW c \in Owned, AppendNestedTlv(p, c), trap' = "none"
  PROVE  Orderly(p)
<1>0. IInv
  BY DEF MInv
<1>1. CASE node[p].type # "TLV"
  BY <1>1, UnchangedKeeps DEF AppendNestedTlv, Fails, vars
<1>2. CASE node[p].type = "TLV"
  <2>1. PICK l : l = AppendElement(node[p].nested, c)
    OBVIOUS
  <2>2. Become(WithList(p, l), mem)
    BY <1>2, <2>1 DEF AppendNestedTlv
  <2>3. c \in Tlvs /\ node[p].nested \in Lists
    BY <1>0, Listing DEF Owned
  <2>4. l \in Lists
    BY <2>1, <2>3, AppendKeeps
  <2> QED
    BY <1>2, <2>2, <2>4, ListedKeeps
<1> QED
  BY <1>1, <1>2

LEMMA ReplacingKeeps ==
  ASSUME MInv, Untrapped, IInv', NEW p \in Alive, NEW pos \in 1 .. node[p].nested.len, NEW c \in Owned,
         ReplaceAt1(p, pos, c), trap' = "none"
  PROVE  Orderly(p)
<1>1. PICK l, k : l = ReplaceElementAt(node[p].nested, pos, c) /\ k = Replaced(node[p].nested, pos)
  OBVIOUS
<1>2. Become(Freed(WithList(p, l), << k >>), mem)
  BY <1>1 DEF ReplaceAt1
<1>3. /\ c \in Tlvs /\ node[p].nested \in Lists /\ Sound(node[p]) /\ node[p].nested.len \in Nat
      /\ \A i \in 1 .. node[p].nested.len : Children(p)[i] = node[p].nested.arr[i]
  BY Listing DEF Owned, MInv
<1>4. l \in Lists
  BY <1>1, <1>3, ReplaceKeeps
<1>5. node[p].type = "TLV"
  BY <1>3 DEF Sound
<1>6. k \in Tlvs
  BY <1>1, <1>3 DEF Replaced, Lists
<1> QED
  BY <1>2, <1>4, <1>5, <1>6, ListFreedKeeps

LEMMA InsertingKeeps ==
  ASSUME MInv, Untrapped, NEW p \in Alive, NEW pos \in 1 .. MaxTlvs, NEW c \in Owned,
         ListInsertAt(p, pos, c), trap' = "none"
  PROVE  Orderly(p)
<1>1. PICK l : l = InsertElementAt(node[p].nested, pos, c)
  OBVIOUS
<1>2. node' = WithList(p, l) /\ mem' = mem /\ node[p].nested.len > 0 /\ InsertAllowed(node[p].nested, pos)
  BY <1>1 DEF ListInsertAt
<1>3. c \in Tlvs /\ node[p].nested \in Lists /\ Sound(node[p]) /\ node[p].nested.len \in Nat /\ MaxTlvs \in Nat
  BY Listing, TlvAssumption DEF Owned, MInv
<1>4. pos \in 1 .. node[p].nested.len + 1
  BY <1>2, <1>3 DEF InsertAllowed
<1>5. l \in Lists
  BY <1>1, <1>3, <1>4, InsertKeeps
<1>6. node[p].type = "TLV"
  BY <1>2, <1>3 DEF Sound
<1>7. PICK ms : ms = WithList(p, l)
  OBVIOUS
<1>8. Bodies(ms, node) /\ (\A u \in Tlvs : u # p => ms[u] = node[u]) /\ \A u \in Tlvs : ms[u].refs = 0 => ms[u] = Gone
  BY <1>5, <1>6, <1>7, WithListBodies
<1>9. Memory(node, mem) /\ p \in Tlvs /\ node[p].refs > 0
  BY SaysNow DEF Alive, Live
<1>10. ms[p] # Gone
  <2>1. ms[p].refs = node[p].refs
    BY <1>3, <1>5, <1>6, <1>7, <1>9, SaysNow, WithListIs
  <2> QED
    BY <1>9, <2>1, GoneIs
<1>11. ms[p].refs > 0 /\ SameBody(ms[p], node[p])
  BY <1>8, <1>9, <1>10 DEF Bodies
<1>12. \A u \in Tlvs : /\ ms[u].tag = node[u].tag /\ ms[u].flags = node[u].flags /\ ms[u].type = node[u].type
                       /\ ms[u].own = node[u].own /\ ms[u].data = node[u].data
                       /\ (node[u].refs > 0 => ms[u].refs > 0)
  BY <1>8, <1>11 DEF SameBody
<1>13. Memory(ms, mem)
  <2>1. Formed(ms, mem)
    BY <1>9, <1>12 DEF Memory, Formed
  <2>2. \A d : Lender(node, d) => Lender(ms, d)
    BY <1>12 DEF Lender
  <2> QED
    BY <1>8, <1>9, <1>12, <2>1, <2>2 DEF Memory
<1>14. Memory(node', mem')
  BY <1>2, <1>7, <1>13
<1>15. Undisturbed(p)
  BY <1>2, <1>7, <1>8 DEF Undisturbed, Alive
<1> QED
  BY <1>14, <1>15 DEF Orderly

LEMMA TakingKeeps ==
  ASSUME MInv, Untrapped, IInv', NEW p \in Alive, NEW pos \in 1 .. node[p].nested.len, NEW out \in BOOLEAN,
         ListRemove(p, pos, out), trap' = "none"
  PROVE  Orderly(p)
<1>1. PICK l, k : l = RemoveElement(node[p].nested, pos) /\ k = ElementAt(node[p].nested, pos)
  OBVIOUS
<1>2. IF out THEN Become(WithList(p, l), mem) ELSE Become(Freed(WithList(p, l), << k >>), mem)
  BY <1>1 DEF ListRemove
<1>3. /\ node[p].nested \in Lists /\ Sound(node[p]) /\ node[p].nested.len \in Nat
      /\ \A i \in 1 .. node[p].nested.len : Children(p)[i] = node[p].nested.arr[i]
  BY Listing DEF MInv
<1>4. l \in Lists
  BY <1>1, <1>3, RemoveKeeps
<1>5. node[p].type = "TLV"
  BY <1>3 DEF Sound
<1>6. k \in Tlvs
  BY <1>1, <1>3 DEF ElementAt, Lists
<1>7. CASE out
  BY <1>2, <1>4, <1>5, <1>7, ListedKeeps
<1>8. CASE ~out
  BY <1>2, <1>4, <1>5, <1>6, <1>8, ListFreedKeeps
<1> QED
  BY <1>7, <1>8

LEMMA SortingKeeps ==
  ASSUME MInv, Untrapped, NEW p \in Alive, ListSort(p), trap' = "none"
  PROVE  Orderly(p)
<1>1. PICK l \in Sorted(node[p].nested, [c \in Tlvs |-> node[c].tag]) : Become(WithList(p, l), mem)
  BY DEF ListSort
<1>2. node[p].nested \in Lists /\ Sound(node[p]) /\ node[p].nested.len \in Nat /\ node[p].nested.len > 1
  BY Listing DEF MInv, ListSort, Length
<1>3. l \in Lists
  BY <1>2, SortKeeps
<1>4. node[p].type = "TLV"
  BY <1>2 DEF Sound
<1> QED
  BY <1>1, <1>3, <1>4, ListedKeeps

LEMMA RefKeeps ==
  ASSUME MInv, Untrapped, NEW t \in Alive, Ref(t), trap' = "none"
  PROVE  Orderly(Caller)
<1>1. PICK ms : ms = [node EXCEPT ![t].refs = @ + 1]
  OBVIOUS
<1>2. Become(ms, mem)
  BY <1>1 DEF Ref
<1>3. t \in Tlvs /\ node[t].refs > 0 /\ node[t].refs \in Nat /\ node = [u \in Tlvs |-> node[u]] /\ Shaped(node[t])
  BY SaysNow DEF Alive, Live, Objects, Sound
<1>4. PICK r, n : r = node[t] /\ n = node[t].refs + 1
  OBVIOUS
<1>5. n \in Nat /\ n > 0
  BY <1>3, <1>4
<1>6. ms[t] = [r EXCEPT !.refs = n] /\ \A u \in Tlvs : u # t => ms[u] = node[u]
  BY <1>1, <1>3, <1>4
<1>7. ms[t].refs = n /\ SameBody(ms[t], node[t]) /\ ms[t].nested = node[t].nested
  <2>1. r = [refs |-> r.refs, tag |-> r.tag, flags |-> r.flags, type |-> r.type, own |-> r.own,
             data |-> r.data, nested |-> r.nested]
    BY <1>3, <1>4 DEF Shaped
  <2> QED
    BY <1>4, <1>6, <2>1 DEF SameBody
<1>8. Bodies(ms, node)
  <2>1. \A u \in Tlvs : u # t => ms[u] = Gone \/ (ms[u].refs \in Nat /\ ms[u].refs > 0 /\ node[u].refs > 0 /\ SameBody(ms[u], node[u]))
    BY <1>6, BodiesNow DEF SameBody
  <2> QED
    BY <1>3, <1>5, <1>7, <2>1 DEF Bodies
<1>9. \A u \in Tlvs : ms[u].refs > 0 /\ u # Caller => Elements(ms[u].nested) = Elements(node[u].nested)
  BY <1>6, <1>7
<1> QED
  BY <1>2, <1>8, <1>9, BodiesKeep

LEMMA FreeKeeps ==
  ASSUME MInv, Untrapped, IInv', NEW t \in Alive, Free(t), trap' = "none"
  PROVE  Orderly(Caller)
<1>1. PICK ts, ms : ts = << t >> /\ ms = node
  OBVIOUS
<1>2. Become(Freed(ms, ts), mem)
  BY <1>1 DEF Free
<1>3. ts \in Seq(Tlvs) /\ Objects(ms) /\ \A u \in Tlvs : ms[u].refs = 0 => ms[u] = Gone
  BY <1>1, SaysNow DEF Alive, Memory
<1>4. Bodies(ms, node)
  BY <1>1, BodiesNow DEF Bodies, SameBody
<1>5. \A u \in Tlvs : ms[u].refs > 0 /\ u # Caller => ms[u].nested = node[u].nested
  BY <1>1
<1> QED
  BY <1>2, <1>3, <1>4, <1>5, FreedKeeps

-----------------------------------------------------------------------------
(* Values that are set.                                                    *)

WroteAt(w, S, buf, at, v) ==
  /\ w \in Seq(S) /\ Len(w) = Len(buf)
  /\ \A i \in 1 .. Len(v) : w[at + i] = v[i]
  /\ \A i \in 1 .. Len(buf) : i <= at \/ i > at + Len(v) => w[i] = buf[i]

LEMMA OverwrittenIs ==
  ASSUME NEW S, NEW buf \in Seq(S), NEW at \in Nat, NEW v \in Seq(S), at + Len(v) <= Len(buf),
         NEW w, w = Overwritten(buf, at, v)
  PROVE  WroteAt(w, S, buf, at, v)
<1>1. PICK n, l, e : n = Len(v) /\ l = Len(buf) /\ e = at + n
  OBVIOUS
<1>2. n \in Nat /\ l \in Nat /\ e \in Nat /\ e <= l /\ at <= e /\ at <= l
  BY <1>1
<1>3. PICK a, b : a = SubSeq(buf, 1, at) /\ b = SubSeq(buf, e + 1, l)
  OBVIOUS
<1>4. a \in Seq(S) /\ Len(a) = at /\ \A i \in 1 .. at : a[i] = buf[i]
  <2>1. 0 + at = at /\ 0 + 1 = 1 /\ \A i \in 1 .. at : 0 + i = i
    BY <1>2
  <2>2. /\ SubSeq(buf, 0 + 1, 0 + at) \in Seq(S) /\ Len(SubSeq(buf, 0 + 1, 0 + at)) = at
        /\ \A i \in 1 .. at : SubSeq(buf, 0 + 1, 0 + at)[i] = buf[0 + i]
    BY <1>1, <1>2, <2>1, CutIs
  <2> QED
    BY <1>3, <2>1, <2>2
<1>5. PICK q : q = l - e
  OBVIOUS
<1>6. b \in Seq(S) /\ Len(b) = q /\ q \in Nat /\ e + q = l /\ \A i \in 1 .. q : b[i] = buf[e + i]
  <2>1. q \in Nat /\ e + q = l /\ e + q <= Len(buf)
    BY <1>1, <1>2, <1>5
  <2>2. /\ SubSeq(buf, e + 1, e + q) \in Seq(S) /\ Len(SubSeq(buf, e + 1, e + q)) = q
        /\ \A i \in 1 .. q : SubSeq(buf, e + 1, e + q)[i] = buf[e + i]
    BY <1>2, <2>1, CutIs
  <2> QED
    BY <1>3, <2>1, <2>2
<1>7. PICK c : c = a \o v
  OBVIOUS
<1>8. c \in Seq(S) /\ Len(c) = e /\ (\A i \in 1 .. at : c[i] = a[i]) /\ \A i \in 1 .. n : c[at + i] = v[i]
  <2>1. /\ a \o v \in Seq(S) /\ Len(a \o v) = Len(a) + Len(v)
        /\ \A i \in 1 .. Len(a) : (a \o v)[i] = a[i]
        /\ \A i \in 1 .. Len(v) : (a \o v)[Len(a) + i] = v[i]
    <3>1. a \in Seq(S) /\ v \in Seq(S)
      BY <1>4
    <3> QED
      BY <3>1, JoinIs
  <2> QED
    BY <1>1, <1>4, <1>7, <2>1
<1>10. w = c \o b
  <2>1. at + n + 1 = e + 1
    BY <1>1
  <2> QED
    BY <1>1, <1>3, <1>7, <2>1 DEF Overwritten
<1>11. w \in Seq(S) /\ Len(w) = e + q /\ (\A i \in 1 .. e : w[i] = c[i]) /\ \A i \in 1 .. q : w[e + i] = b[i]
  <2>1. /\ c \o b \in Seq(S) /\ Len(c \o b) = Len(c) + Len(b)
        /\ \A i \in 1 .. Len(c) : (c \o b)[i] = c[i]
        /\ \A i \in 1 .. Len(b) : (c \o b)[Len(c) + i] = b[i]
    <3>1. c \in Seq(S) /\ b \in Seq(S)
      BY <1>6, <1>8
    <3> QED
      BY <3>1, JoinIs
  <2> QED
    BY <1>6, <1>8, <1>10, <2>1
<1>12. \A i \in 1 .. n : w[at + i] = v[i]
  <2> SUFFICES ASSUME NEW i \in 1 .. n PROVE w[at + i] = v[i]
    OBVIOUS
  <2>1. at + i \in 1 .. e
    BY <1>1, <1>2
  <2> QED
    BY <1>8, <1>11, <2>1
<1>13. \A i \in 1 .. l : i <= at \/ i > e => w[i] = buf[i]
  <2> SUFFICES ASSUME NEW i \in 1 .. l, i <= at \/ i > e PROVE w[i] = buf[i]
    OBVIOUS
  <2>1. CASE i <= at
    <3>1. i \in 1 .. at /\ i \in 1 .. e
      BY <1>2, <2>1
    <3> QED
      BY <1>4, <1>8, <1>11, <3>1
  <2>2. CASE i > e
    <3>1. PICK j : j = i - e
      OBVIOUS
    <3>2. j \in 1 .. q /\ e + j = i
      BY <1>2, <1>6, <2>2, <3>1
    <3> QED
      BY <1>6, <1>11, <3>2
  <2> QED
    BY <2>1, <2>2
<1> QED
  BY <1>1, <1>6, <1>11, <1>12, <1>13 DEF WroteAt

LEMMA ValueKeeps ==
  ASSUME MInv, Untrapped, NEW t \in Alive, NEW v \in Seq(Bytes),
         node' = WithValue(t, v), mem' = [mem EXCEPT ![t] = Buffer(t, v)],
         node[t].own => ~(Len(mem[t]) < Len(v)) /\ ~Lent(node, t)
  PROVE  Orderly(t)
<1>1. /\ Memory(node, mem) /\ Formed(node, mem) /\ mem \in Memories
      /\ t \in Tlvs /\ t \in Regions /\ node[t].refs > 0 /\ node = [u \in Tlvs |-> node[u]] /\ Shaped(node[t])
      /\ mem[t] \in Seq(Cells) /\ t # Caller /\ Caller \in Regions
      /\ \A u \in Tlvs : node[u].refs \in Nat
  BY SaysNow DEF Memory, Formed, Memories, Alive, Live, Objects, Sound, Regions, Tlvs, Caller
<1>2. PICK buf : buf = Buffer(t, v)
  OBVIOUS
<1>3. v \in Seq(Cells) /\ Len(v) \in Nat
  BY BytesAreCells
<1>4. buf \in Seq(Cells) /\ Len(v) <= Len(buf) /\ \A i \in 1 .. Len(v) : buf[i] = v[i]
  <2>1. CASE node[t].own
    <3>1. buf = Overwritten(mem[t], 0, v)
      BY <1>2, <2>1 DEF Buffer
    <3>2. 0 + Len(v) <= Len(mem[t]) /\ Len(v) <= Len(mem[t])
      BY <1>1, <1>3, <2>1
    <3>3. buf \in Seq(Cells) /\ Len(buf) = Len(mem[t]) /\ \A i \in 1 .. Len(v) : buf[0 + i] = v[i]
      <4>1. PICK x, z : x = mem[t] /\ z = 0
        OBVIOUS
      <4>2. x \in Seq(Cells) /\ z \in Nat /\ v \in Seq(Cells) /\ z + Len(v) <= Len(x) /\ buf = Overwritten(x, z, v)
        BY <1>1, <1>3, <3>1, <3>2, <4>1
      <4>3. WroteAt(buf, Cells, x, z, v)
        BY <4>2, OverwrittenIs
      <4> QED
        BY <4>1, <4>3 DEF WroteAt
    <3>4. \A i \in 1 .. Len(v) : 0 + i = i
      BY <1>3
    <3> QED
      BY <3>2, <3>3, <3>4
  <2>2. CASE ~node[t].own
    <3>1. buf = Padded(v)
      BY <1>2, <2>2 DEF Buffer
    <3> QED
      BY <3>1, PaddedIs
  <2> QED
    BY <2>1, <2>2
<1>5. mem' \in Memories /\ mem'[t] = buf /\ \A u \in Regions : u # t => mem'[u] = mem[u]
  BY <1>1, <1>2, <1>4 DEF Memories
<1>6. PICK d : d = [in |-> t, at |-> 0, len |-> Len(v)]
  OBVIOUS
<1>7. node'[t] = WithData(node[t], TRUE, d) /\ \A u \in Tlvs : u # t => node'[u] = node[u]
  BY <1>1, <1>6 DEF WithValue, WithData
<1>8. /\ node'[t].refs = node[t].refs /\ node'[t].tag = node[t].tag /\ node'[t].flags = node[t].flags
      /\ node'[t].own /\ node'[t].data = d
  <2>1. PICK r : r = node[t]
    OBVIOUS
  <2>2. /\ r = [refs |-> r.refs, tag |-> r.tag, flags |-> r.flags, type |-> r.type, own |-> r.own,
                data |-> r.data, nested |-> r.nested]
        /\ node'[t] = [[r EXCEPT !.own = TRUE] EXCEPT !.data = d]
    BY <1>1, <1>7, <2>1 DEF WithData, Shaped
  <2>3. PICK q : q = [r EXCEPT !.own = TRUE]
    OBVIOUS
  <2>4. q = [refs |-> r.refs, tag |-> r.tag, flags |-> r.flags, type |-> r.type,
             own |-> TRUE, data |-> r.data, nested |-> r.nested]
    <3>1. r = [refs |-> r.refs, tag |-> r.tag, flags |-> r.flags, type |-> r.type, own |-> r.own,
                data |-> r.data, nested |-> r.nested]
      BY <2>2
    <3> QED
      BY <2>3, <3>1
  <2>5. node'[t] = [q EXCEPT !.data = d]
    BY <2>2, <2>3
  <2> QED
    BY <2>1, <2>4, <2>5
<1>9. d \in Pointers /\ Backed(mem', d)
  <2>1. d \in Pointers
    BY <1>1, <1>3, <1>6 DEF Pointers
  <2>2. d.at = 0 /\ d.len = Len(v) /\ d.in = t
    BY <1>6
  <2>3. 0 + Len(v) <= Len(buf) /\ \A i \in 1 .. Len(v) : 0 + i = i /\ v[i] \in Bytes
    BY <1>3, <1>4
  <2>4. \A i \in 1 .. Len(v) : buf[0 + i] \in Bytes
    BY <1>4, <2>3
  <2> QED
    BY <1>5, <2>1, <2>2, <2>3, <2>4 DEF Backed
<1>10. ASSUME NEW u \in Tlvs, u # t
       PROVE  /\ node[u].data.len > 0 => node[u].data.in # t
              /\ Peek(mem', node[u].data) = Peek(mem, node[u].data) /\ Backed(mem', node[u].data)
  <2>1. node[u].data \in Pointers /\ Backed(mem, node[u].data) /\ (node[u].data.len > 0 => Lender(node, node[u].data.in))
    BY <1>1 DEF Memory, Formed
  <2>2. node[u].data.len > 0 => node[u].data.in # t /\ node[u].data.in \in Regions
    <3> SUFFICES ASSUME node[u].data.len > 0 PROVE node[u].data.in # t /\ node[u].data.in \in Regions
      OBVIOUS
    <3>0. node[u].data.in \in Regions
      BY <2>1 DEF Pointers
    <3> SUFFICES ASSUME node[u].data.in = t PROVE FALSE
      BY <3>0
    <3>1. node[t].own
      BY <1>1, <2>1 DEF Lender
    <3>2. node[u].refs > 0
      <4>1. node[u] # Gone
        BY GoneIs
      <4> QED
        BY <1>1, <4>1 DEF Memory
    <3>3. Lent(node, t)
      BY <1>10, <3>2 DEF Lent
    <3> QED
      BY <3>1, <3>3
  <2>3. node[u].data.len > 0 => mem'[node[u].data.in] = mem[node[u].data.in]
    BY <1>5, <2>2
  <2> QED
    BY <1>1, <1>5, <2>1, <2>2, <2>3, PeekSame
<1>11. Formed(node', mem')
  BY <1>1, <1>5, <1>7, <1>8, <1>9, <1>10 DEF Formed
<1>12. \A x : Lender(node, x) => Lender(node', x)
  BY <1>1, <1>7, <1>8 DEF Lender
<1>13. Lender(node', t)
  BY <1>1, <1>8 DEF Lender
<1>14. mem'[Caller] = Shared
  BY <1>1, <1>5 DEF Memory
<1>15. ASSUME NEW u \in Tlvs
       PROVE  /\ node'[u].refs = 0 => node'[u] = Gone
              /\ node'[u].own => node'[u].data.in = u
              /\ node'[u].data.len > 0 => Lender(node', node'[u].data.in)
  <2>1. CASE u = t
    BY <1>1, <1>6, <1>8, <1>13, <2>1
  <2>2. CASE u # t
    BY <1>1, <1>7, <1>12, <2>2 DEF Memory
  <2> QED
    BY <2>1, <2>2
<1>16. Memory(node', mem')
  BY <1>11, <1>14, <1>15 DEF Memory
<1>17. Undisturbed(t)
  BY <1>7, <1>10 DEF Undisturbed, Alive
<1> QED
  BY <1>16, <1>17 DEF Orderly

LEMMA SetRawKeeps ==
  ASSUME MInv, Untrapped, NEW t \in Alive, NEW v \in RawValues, SetRawValue(t, v), trap' = "none"
  PROVE  Orderly(t)
<1>1. v \in Seq(Bytes)
  BY BytesAssumption
<1>2. CASE node[t].type # "RAW" \/ Len(v) >= BufferSize
  BY <1>2, UnchangedKeeps DEF SetRawValue, Fails, vars
<1>3. CASE ~(node[t].type # "RAW" \/ Len(v) >= BufferSize)
  <2>1. node' = WithValue(t, v) /\ mem' = [mem EXCEPT ![t] = Buffer(t, v)]
    BY <1>3 DEF SetRawValue
  <2>2. node[t].own => ~(Len(mem[t]) < Len(v)) /\ ~Lent(node, t)
    BY <1>3 DEF SetRawValue
  <2> QED
    BY <1>1, <2>1, <2>2, ValueKeeps
<1> QED
  BY <1>2, <1>3

LEMMA SetUintKeeps ==
  ASSUME MInv, Untrapped, NEW t \in Alive, NEW val \in UintValues, SetUintValue(t, val), trap' = "none"
  PROVE  Orderly(t)
<1>1. PICK v : v = UintBytes(val)
  OBVIOUS
<1>2. v \in Seq(Bytes)
  BY <1>1, UintBytesAre
<1>3. node' = WithValue(t, v) /\ mem' = [mem EXCEPT ![t] = Buffer(t, v)]
  BY <1>1 DEF SetUintValue
<1>4. node[t].own => ~(Len(mem[t]) < Len(v)) /\ ~Lent(node, t)
  BY <1>1 DEF SetUintValue
<1> QED
  BY <1>2, <1>3, <1>4, ValueKeeps

-----------------------------------------------------------------------------
(* TLVs that are expanded.                                                 *)

\* o is what encodeAsNestedTlvs makes of the TLV that begins at s in the bytes b at d.
ReadOut(o, m, d, b, s) ==
  LET h == ReadAt(b, s)
  IN  /\ o.refs = 1 /\ o.tag = h.tag /\ o.flags = h.flags /\ o.type = "RAW" /\ ~o.own /\ o.nested = NewList
      /\ o.data \in Pointers /\ o.data.in = d.in /\ o.data.len = h.len /\ Backed(m, o.data)
      /\ Peek(m, o.data) = SubSeq(b, s + h.size + 1, s + h.size + h.len)

\* At e is the piece of l of the bytes b, behind the first a.
Inner(m, e, b, a, l) == e \in Pointers /\ Backed(m, e) /\ Peek(m, e) = SubSeq(b, a + 1, a + l)
LEMMA InnerBytes ==
  ASSUME NEW m \in Memories, NEW d \in Pointers, Backed(m, d), NEW b, b = Peek(m, d),
         NEW a \in Nat, NEW l \in Nat, a + l <= Len(b), NEW e, e = [in |-> d.in, at |-> d.at + a, len |-> l]
  PROVE  Inner(m, e, b, a, l)
<1>1. b \in Seq(Bytes) /\ Len(b) = d.len /\ \A i \in 1 .. d.len : b[i] = m[d.in][d.at + i]
  BY PeekIs
<1>2. PICK at, len : at = d.at /\ len = d.len
  OBVIOUS
<1>3. at \in Nat /\ len \in Nat /\ d.in \in Regions /\ a + l <= len
  BY <1>1, <1>2 DEF Pointers
<1>4. e \in Pointers /\ e.in = d.in /\ e.at = at + a /\ e.len = l
  BY <1>2, <1>3 DEF Pointers
<1>5. ASSUME NEW i \in 1 .. l
      PROVE  a + i \in 1 .. len /\ (at + a) + i = at + (a + i)
  BY <1>3
<1>6. Backed(m, e)
  <2> SUFFICES ASSUME l > 0
               PROVE  (at + a) + l <= Len(m[d.in]) /\ \A i \in 1 .. l : m[d.in][(at + a) + i] \in Bytes
    BY <1>4 DEF Backed
  <2>1. d.len > 0
    BY <1>2, <1>3
  <2>2. at + len <= Len(m[d.in]) /\ \A i \in 1 .. len : m[d.in][at + i] \in Bytes
    BY <1>2, <2>1 DEF Backed
  <2>3. PICK z : z = Len(m[d.in])
    OBVIOUS
  <2>4. z \in Nat
    BY <1>3, <2>3 DEF Memories
  <2>5. (at + a) + l <= z
    BY <1>3, <2>2, <2>3, <2>4
  <2>6. \A i \in 1 .. l : m[d.in][(at + a) + i] \in Bytes
    <3> SUFFICES ASSUME NEW i \in 1 .. l PROVE m[d.in][(at + a) + i] \in Bytes
      OBVIOUS
    <3>1. PICK j : j = a + i
      OBVIOUS
    <3>2. j \in 1 .. len /\ (at + a) + i = at + j
      BY <1>5, <3>1
    <3> QED
      BY <2>2, <3>2
  <2> QED
    BY <2>3, <2>5, <2>6
<1>7. Peek(m, e) \in Seq(Bytes) /\ Len(Peek(m, e)) = l /\ \A i \in 1 .. l : Peek(m, e)[i] = m[d.in][(at + a) + i]
  BY <1>4, <1>6, PeekIs
<1>8. /\ SubSeq(b, a + 1, a + l) \in Seq(Bytes) /\ Len(SubSeq(b, a + 1, a + l)) = l
      /\ \A i \in 1 .. l : SubSeq(b, a + 1, a + l)[i] = b[a + i]
  BY <1>1, CutIs
<1>9. \A i \in 1 .. l : Peek(m, e)[i] = SubSeq(b, a + 1, a + l)[i]
  <2> SUFFICES ASSUME NEW i \in 1 .. l PROVE Peek(m, e)[i] = SubSeq(b, a + 1, a + l)[i]
    OBVIOUS
  <2>1. PICK j : j = a + i
    OBVIOUS
  <2>2. j \in 1 .. len /\ (at + a) + i = at + j
    BY <1>5, <2>1
  <2>3. b[j] = m[d.in][at + j]
    BY <1>1, <1>2, <2>2
  <2> QED
    BY <1>7, <1>8, <2>1, <2>2, <2>3
<1>10. Peek(m, e) = SubSeq(b, a + 1, a + l)
  BY <1>7, <1>8, <1>9, SameSeq
<1> QED
  BY <1>4, <1>6, <1>10 DEF Inner

\* In es t is expanded: the TLVs of its payload b are the objects behind the first n.
Expands(es, ns, m, t, n, b, starts) ==
  /\ \A i \in 1 .. Len(starts) : n + i \in Tlvs /\ ReadOut(es[n + i], m, ns[t].data, b, starts[i])
  /\ es[t] = [ns[t] EXCEPT !.type = "TLV", !.nested = ListOf(NewOnes(n, Len(starts)))]
  /\ \A u \in Tlvs : u # t /\ u \notin (n + 1) .. (n + Len(starts)) => es[u] = ns[u]

LEMMA ExpandedReads ==
  ASSUME NEW ns, NEW m \in Memories, NEW t \in Tlvs, NEW n \in Nat, t <= n, NEW d, d = ns[t].data, d \in Pointers, Backed(m, d),
         NEW b, b = Peek(m, d), NEW starts, Walk(b, starts, Len(b)), Len(starts) \in 0 .. MaxTlvs - n,
         NEW es, es = Expanded(ns, m, t, n + 1, starts)
  PROVE  Expands(es, ns, m, t, n, b, starts)
<1> DEFINE k == Len(starts)
           l == ListOf(NewOnes(n, k))
           h(i) == ReadFirst(SubSeq(Peek(m, ns[t].data), starts[i] + 1, ns[t].data.len))
           made(i) == Object(h(i).tag, h(i).flags, "RAW", FALSE,
                             [in |-> ns[t].data.in, at |-> ns[t].data.at + starts[i] + h(i).size, len |-> h(i).len])
           wide == [ns[t] EXCEPT !.type = "TLV", !.nested = l]
<1>2. k \in Nat /\ MaxTlvs \in Nat /\ n + k <= MaxTlvs /\ n + 1 + k - 1 = n + k
  BY TlvAssumption
<1>3. b \in Seq(Bytes) /\ Len(b) = d.len /\ Len(b) \in Nat
  BY PeekIs
<1>5. es = [u \in Tlvs |-> CASE u = t -> wide
                             [] u \in (n + 1) .. (n + 1 + k - 1) -> made(u - (n + 1) + 1)
                             [] OTHER -> ns[u]]
  BY DEF Expanded, NewOnes
<1> HIDE DEF k
<1>6. t \notin (n + 1) .. (n + k)
  OBVIOUS
<1>7. es[t] = wide /\ \A u \in Tlvs : u # t /\ u \notin (n + 1) .. (n + k) => es[u] = ns[u]
  <2> HIDE DEF wide, made
  <2> QED
    BY <1>2, <1>5
<1>8. ASSUME NEW i \in 1 .. k PROVE n + i \in Tlvs /\ es[n + i] = made(i)
  <2> HIDE DEF wide, made
  <2>1. n + i \in Tlvs /\ n + i \in (n + 1) .. (n + k) /\ n + i # t /\ (n + i) - (n + 1) + 1 = i
    BY <1>2, <1>6 DEF Tlvs
  <2> QED
    BY <1>2, <1>5, <2>1
<1>9. ASSUME NEW i \in 1 .. k PROVE ReadOut(es[n + i], m, d, b, starts[i])
  <2>1. PICK s, g : s = starts[i] /\ g = ReadAt(b, s)
    OBVIOUS
  <2>2. s \in 0 .. Len(b)
    BY <2>1 DEF Walk, k
  <2>3. /\ g.size \in {0, 2, 4} /\ s + g.size + g.len <= Len(b) /\ g.len \in Nat
        /\ g.tag \in 0 .. TypeSpan * Byte - 1 /\ g.flags \in 0 .. 3
    BY <1>3, <2>1, <2>2, ReadAtIs
  <2>4. h(i) = g
    BY <1>3, <2>1 DEF ReadAt
  <2>5. PICK a, c, e : a = s + g.size /\ c = g.len /\ e = [in |-> d.in, at |-> d.at + a, len |-> c]
    OBVIOUS
  <2>6. a \in Nat /\ c \in Nat /\ a + c <= Len(b)
    BY <1>3, <2>2, <2>3, <2>5
  <2>7. e \in Pointers /\ Backed(m, e) /\ Peek(m, e) = SubSeq(b, a + 1, a + c)
    <3>1. Inner(m, e, b, a, c)
      BY <2>5, <2>6, InnerBytes
    <3> QED
      BY <3>1 DEF Inner
  <2>8. d.at + s + g.size = d.at + a
    <3>1. PICK x, z : x = d.at /\ z = g.size
      OBVIOUS
    <3>2. x \in Nat /\ z \in Nat /\ s \in Nat
      BY <1>3, <2>2, <2>3, <3>1 DEF Pointers
    <3>3. x + s + z = x + (s + z)
      BY <3>2
    <3> QED
      BY <2>5, <3>1, <3>3
  <2>9. es[n + i] = Object(g.tag, g.flags, "RAW", FALSE, e)
    BY <1>8, <2>1, <2>4, <2>5, <2>8
  <2>10. PICK o : o = es[n + i]
    OBVIOUS
  <2>11. /\ o.refs = 1 /\ o.tag = g.tag /\ o.flags = g.flags /\ o.type = "RAW" /\ ~o.own /\ o.nested = NewList
         /\ o.data = e
    BY <2>9, <2>10 DEF Object
  <2>12. e.in = d.in /\ e.len = g.len
    BY <2>5
  <2>13. ReadOut(o, m, d, b, s)
    BY <2>1, <2>5, <2>7, <2>11, <2>12 DEF ReadOut
  <2> QED
    BY <2>1, <2>10, <2>13
<1> QED
  BY <1>7, <1>8, <1>9 DEF k, Expands

\* u is an object in order.
Newcomer(ns, m, u) ==
  /\ ns[u].refs = 1
  /\ ns[u].tag \in 0 .. TypeSpan * Byte - 1 /\ ns[u].flags \in 0 .. 3
  /\ ns[u].data \in Pointers /\ Backed(m, ns[u].data)
  /\ ns[u].own => ns[u].data.in = u
  /\ ns[u].data.len > 0 => Lender(ns, ns[u].data.in)

LEMMA ExpandedNew ==
  ASSUME NEW ns, NEW m \in Memories, NEW t \in Tlvs, NEW n \in Nat, t <= n, Sound(ns[t]),
         ns[t].data \in Pointers, ns[t].data.len > 0 => Lender(ns, ns[t].data.in),
         NEW b \in Seq(Bytes), Len(b) = ns[t].data.len, NEW starts, Walk(b, starts, Len(b)), Len(starts) \in Nat,
         \A u \in Tlvs : u > n => ns[u].refs = 0,
         NEW es, Expands(es, ns, m, t, n, b, starts)
  PROVE  /\ \A u \in (n + 1) .. (n + Len(starts)) : u \in Tlvs /\ Newcomer(es, m, u) /\ Elements(es[u].nested) = << >>
         /\ es[t].refs = ns[t].refs /\ es[t].tag = ns[t].tag /\ es[t].flags = ns[t].flags
         /\ es[t].own = ns[t].own /\ es[t].data = ns[t].data /\ es[t].type = "TLV"
<1>1. PICK k : k = Len(starts)
  OBVIOUS
<1>2. k \in Nat
  BY <1>1
<1>3. PICK l : l = ListOf(NewOnes(n, k))
  OBVIOUS
<1>4. es[t] = [ns[t] EXCEPT !.type = "TLV", !.nested = l]
  BY <1>1, <1>3 DEF Expands
<1>5. /\ es[t].refs = ns[t].refs /\ es[t].tag = ns[t].tag /\ es[t].flags = ns[t].flags
      /\ es[t].own = ns[t].own /\ es[t].data = ns[t].data /\ es[t].type = "TLV"
  BY <1>4 DEF Sound, Shaped
<1>6. ASSUME NEW x, Lender(ns, x) PROVE Lender(es, x)
  <2>1. CASE x = Caller
    BY <2>1 DEF Lender
  <2>2. CASE x = t
    BY <1>5, <1>6, <2>2 DEF Lender
  <2>3. CASE x # t /\ x \in Tlvs /\ ns[x].refs > 0 /\ ns[x].own
    <3>1. x \in Nat /\ ~(x > n)
      BY <2>3 DEF Tlvs
    <3>2. x \notin (n + 1) .. (n + k)
      BY <1>2, <3>1
    <3>3. es[x] = ns[x]
      BY <1>1, <2>3, <3>2 DEF Expands
    <3> QED
      BY <2>3, <3>3 DEF Lender
  <2> QED
    BY <1>6, <2>1, <2>2, <2>3 DEF Lender
<1>7. ASSUME NEW u \in (n + 1) .. (n + k)
      PROVE  u \in Tlvs /\ Newcomer(es, m, u) /\ Elements(es[u].nested) = << >>
  <2>1. PICK i : i = u - n
    OBVIOUS
  <2>2. i \in 1 .. k /\ n + i = u
    BY <1>2, <2>1
  <2>3. u \in Tlvs /\ ReadOut(es[u], m, ns[t].data, b, starts[i])
    BY <1>1, <2>2 DEF Expands
  <2>4. PICK o, s, g : o = es[u] /\ s = starts[i] /\ g = ReadAt(b, s)
    OBVIOUS
  <2>5. s \in 0 .. Len(b)
    BY <1>1, <2>2, <2>4 DEF Walk
  <2>6. /\ g.size \in {0, 2, 4} /\ s + g.size + g.len <= Len(b) /\ g.len \in Nat
        /\ g.tag \in 0 .. TypeSpan * Byte - 1 /\ g.flags \in 0 .. 3
    BY <2>4, <2>5, ReadAtIs
  <2>7. /\ o.refs = 1 /\ o.tag = g.tag /\ o.flags = g.flags /\ ~o.own /\ o.nested = NewList
        /\ o.data \in Pointers /\ o.data.in = ns[t].data.in /\ o.data.len = g.len /\ Backed(m, o.data)
    BY <2>3, <2>4 DEF ReadOut
  <2>8. o.data.len > 0 => ns[t].data.len > 0
    <3>1. Len(b) \in Nat
      OBVIOUS
    <3>2. g.len > 0 => Len(b) > 0
      BY <2>5, <2>6, <3>1
    <3> QED
      BY <2>7, <3>2
  <2>9. o.data.len > 0 => Lender(es, o.data.in)
    BY <1>6, <2>7, <2>8
  <2>10. Newcomer(es, m, u)
    BY <2>4, <2>6, <2>7, <2>9 DEF Newcomer
  <2>11. Elements(es[u].nested) = << >>
    BY <2>4, <2>7, EmptyList
  <2> QED
    BY <2>3, <2>10, <2>11
<1> QED
  BY <1>1, <1>5, <1>7

\* The objects CastTlv makes.
LEMMA CastTlvExpands ==
  ASSUME MInv, Untrapped, NEW t \in Alive, node[t].type # "INT", NEW b, b = Peek(mem, node[t].data),
         NEW starts, starts = Split(b), starts # << -1 >>, Len(starts) \in 0 .. (MaxTlvs - used),
         NEW es, es = Expanded(node, mem, t, Fresh, starts)
  PROVE  /\ Expands(es, node, mem, t, used, b, starts) /\ Walk(b, starts, Len(b))
         /\ b \in Seq(Bytes) /\ Len(b) = node[t].data.len /\ Len(starts) \in Nat
<1>1. /\ Formed(node, mem) /\ mem \in Memories /\ node[t].data \in Pointers /\ Backed(mem, node[t].data)
      /\ IInv /\ t \in Tlvs
  BY SaysNow DEF Formed, Alive
<1>2. b \in Seq(Bytes) /\ Len(b) = node[t].data.len
  BY <1>1, PeekIs
<1>3. Walk(b, starts, Len(b))
  BY <1>2, SplitIs
<1>4. used \in Nat /\ t <= used
  BY <1>1, Now
<1>5. PICK n : n = used
  OBVIOUS
<1>6. es = Expanded(node, mem, t, n + 1, starts) /\ Len(starts) \in 0 .. MaxTlvs - n
  BY <1>5 DEF Fresh
<1>7. Expands(es, node, mem, t, n, b, starts)
  BY <1>1, <1>3, <1>4, <1>5, <1>6, ExpandedReads
<1>8. Len(starts) \in Nat
  BY <1>3 DEF Walk
<1> QED
  BY <1>2, <1>3, <1>5, <1>7, <1>8

\* t is expanded, and what the new objects say is what stood there.
Opened(t) ==
  \E b, starts :
    /\ b = Peek(mem, node[t].data) /\ starts = Split(b) /\ b \in Seq(Bytes)
    /\ Walk(b, starts, Len(b)) /\ Len(starts) \in Nat
    /\ Expands(node', node, mem, t, used, b, starts) /\ call'.op = "castTlv" /\ call'.at = t
    /\ \A u \in Tlvs : Peek(mem', node'[u].data) = Peek(mem, node'[u].data)

LEMMA CastTlvKeeps ==
  ASSUME MInv, Untrapped, NEW t \in Alive, CastTlv(t), trap' = "none"
  PROVE  Orderly(t) /\ (Opened(t) \/ UNCHANGED <<node, mem>>)
<1>1. PICK b, starts : b = Peek(mem, node[t].data) /\ starts = Split(b)
  OBVIOUS
<1>2. CASE node[t].type = "INT" \/ starts = << -1 >>
  <2>1. UNCHANGED <<node, mem>>
    BY <1>1, <1>2 DEF CastTlv, Fails, vars
  <2> QED
    BY <2>1, UnchangedKeeps
<1>3. CASE ~(node[t].type = "INT" \/ starts = << -1 >>)
  <2>1. PICK es : es = Expanded(node, mem, t, Fresh, starts)
    OBVIOUS
  <2>2. Len(starts) \in 0 .. (MaxTlvs - used) /\ Become(es, mem)
    BY <1>1, <1>3, <2>1 DEF CastTlv
  <2>3. PICK n, k : n = used /\ k = Len(starts)
    OBVIOUS
  <2>4. /\ Expands(es, node, mem, t, n, b, starts) /\ Walk(b, starts, Len(b))
        /\ b \in Seq(Bytes) /\ Len(b) = node[t].data.len /\ k \in Nat
    BY <1>1, <1>3, <2>1, <2>2, <2>3, CastTlvExpands
  <2>5. /\ IInv /\ Memory(node, mem) /\ Formed(node, mem) /\ mem \in Memories /\ node[t].data \in Pointers
        /\ t \in Tlvs /\ Sound(node[t]) /\ node[t].refs > 0
        /\ node[t].data.len > 0 => Lender(node, node[t].data.in)
    BY SaysNow DEF Memory, Formed, Alive, Objects, Live
  <2>6. n \in Nat /\ t <= n /\ \A u \in Tlvs : u > n => node[u] = Gone
    BY <2>3, <2>5, Now
  <2>7. \A u \in Tlvs : u > n => node[u].refs = 0
    BY <2>6, GoneIs
  <2>8. PICK N : N = (n + 1) .. (n + k)
    OBVIOUS
  <2>9. /\ \A u \in N : u \in Tlvs /\ Newcomer(es, mem, u)
        /\ es[t].refs = node[t].refs /\ es[t].tag = node[t].tag /\ es[t].flags = node[t].flags
        /\ es[t].own = node[t].own /\ es[t].data = node[t].data
    BY <2>3, <2>4, <2>5, <2>6, <2>7, <2>8, ExpandedNew
  <2>10. t \notin N /\ \A u \in N : node[u].refs = 0
    <3>1. t \in Nat
      BY <2>5 DEF Tlvs
    <3>2. \A u \in N : u > n
      BY <2>4, <2>6, <2>8
    <3> QED
      BY <2>6, <2>7, <2>9, <3>1, <3>2
  <2>11. \A u \in Tlvs \ N : u # t => es[u] = node[u]
    BY <2>3, <2>4, <2>8 DEF Expands
  <2>12. Joins(es, mem, N, t)
    BY <2>5, <2>9, <2>10, <2>11 DEF Joins, Newcomer
  <2>13. \A u \in Tlvs \ N : u # t => Elements(es[u].nested) = Elements(node[u].nested)
    BY <2>11
  <2>14. Orderly(t)
    BY <2>2, <2>12, <2>13, JoinsKeep
  <2>15. node' = es /\ mem' = Unmapped(mem, es) /\ ~Outlived(es)
    BY <2>2 DEF Become, Outlived
  <2>16. \A u \in Tlvs : Peek(mem', node'[u].data) = Peek(mem, node'[u].data)
    <3>1. Drawn(es, mem)
      BY <2>12, JoinsDrawn
    <3>2. \A u \in Tlvs : Peek(Unmapped(mem, es), es[u].data) = Peek(mem, es[u].data)
      BY <2>15, <3>1, UnmappedKeeps
    <3> QED
      BY <2>15, <3>2
  <2>17. call'.op = "castTlv" /\ call'.at = t
    BY <1>1, <1>3 DEF CastTlv, Called
  <2>18. Expands(node', node, mem, t, used, b, starts)
    BY <2>3, <2>4, <2>15
  <2>19. Opened(t)
    BY <1>1, <2>3, <2>4, <2>16, <2>17, <2>18 DEF Opened
  <2> QED
    BY <2>14, <2>19
<1> QED
  BY <1>2, <1>3

\* serializeTlv writes the length 0 for a payload that fills the buffer, which KSI_TLV_clone
\* refuses to read.
LEMMA FullIsCut ==
  ASSUME NEW tag \in 0 .. TypeSpan * Byte - 1, NEW flags \in 0 .. 3, NEW v \in Seq(Bytes), Len(v) = BufferSize,
         NEW b, b = Header(tag, flags, Len(v)) \o v
  PROVE  ~Fills(b)
<1>1. /\ TypeSpan \in Nat /\ TypeSpan > 0 /\ Byte \in Nat /\ Byte = 8 * TypeSpan /\ Byte >= 8
      /\ BufferSize = Byte * Byte /\ BufferSize \in Nat /\ BufferSize >= 8 * Byte
  BY Units
<1>2. PICK x, n : x = Byte /\ n = BufferSize
  OBVIOUS
<1>3. x \in Nat /\ x >= 8 /\ n = x * x + 0 /\ n >= 8 * x /\ n \in Nat /\ 0 \in 0 .. x - 1
  BY <1>1, <1>2
<1>4. n \div x = x /\ n % x = 0
  <2>1. x \in Nat /\ x > 0 /\ 0 \in 0 .. x - 1
    BY <1>3
  <2>2. (x * x + 0) \div x = x /\ (x * x + 0) % x = 0
    BY <2>1, DigitsOf
  <2> QED
    BY <1>3, <2>2
<1>5. x % x = 0
  BY <1>3
<1>6. n > x - 1
  BY <1>3
<1>7. PICK h : h = Header(tag, flags, Len(v))
  OBVIOUS
<1>8. Len(v) \in Nat
  OBVIOUS
<1>9. h \in Seq(Bytes)
  BY <1>7, <1>8, HeaderIs
<1>10. h = <<4 * TypeSpan + flags * TypeSpan + tag \div Byte, tag % Byte, (n \div x) % x, n % x>>
  BY <1>2, <1>6, <1>7 DEF Header
<1>11. Len(h) = 4 /\ h[3] = 0 /\ h[4] = 0 /\ h[1] >= 4 * TypeSpan
  <2>1. tag \in Nat
    BY <1>1
  <2>2. PICK q : q = tag \div Byte
    OBVIOUS
  <2>3. q \in Nat
    <3>1. Byte \in Nat /\ Byte > 0
      BY <1>1
    <3>2. tag \div Byte \in Nat
      BY <2>1, <3>1, Digits
    <3> QED
      BY <2>2, <3>2
  <2>4. flags * TypeSpan \in Nat
    <3>1. flags \in Nat /\ flags <= flags
      OBVIOUS
    <3> QED
      BY <1>1, <3>1, Products
  <2>5. PICK y : y = flags * TypeSpan
    OBVIOUS
  <2>6. 4 * TypeSpan + y + q >= 4 * TypeSpan
    BY <1>1, <2>3, <2>4, <2>5
  <2> QED
    BY <1>4, <1>5, <1>10, <2>2, <2>5, <2>6
<1>12. b = h \o v
  BY <1>7
<1>13. b \in Seq(Bytes) /\ Len(b) = 4 + n /\ \A i \in 1 .. 4 : b[i] = h[i]
  <2>0. \A u \in Seq(Bytes) : /\ h \o u \in Seq(Bytes) /\ Len(h \o u) = Len(h) + Len(u)
                              /\ \A i \in 1 .. Len(h) : (h \o u)[i] = h[i]
    BY <1>9, JoinIs
  <2>1. /\ b \in Seq(Bytes) /\ Len(b) = Len(h) + Len(v)
        /\ \A i \in 1 .. Len(h) : b[i] = h[i]
    BY <1>12, <2>0
  <2>2. Len(h) = 4 /\ Len(v) = n
    BY <1>2, <1>11
  <2> QED
    BY <2>1, <2>2
<1>14. b[1] >= 4 * TypeSpan /\ b[3] = 0 /\ b[4] = 0 /\ ~(Len(b) < 2) /\ ~(Len(b) < 4)
  BY <1>3, <1>11, <1>13
<1>15. ReadHeader(b).size = 4 /\ ReadHeader(b).len = 0
  <2>1. 0 * Byte + 0 = 0
    BY <1>1
  <2> QED
    BY <1>14, <2>1 DEF ReadHeader
<1>16. ReadFirst(b) = ReadHeader(b)
  <2>1. ~(4 + 0 > Len(b))
    BY <1>3, <1>13
  <2> QED
    BY <1>15, <2>1 DEF ReadFirst
<1>17. 4 + 0 # Len(b)
  BY <1>3, <1>13
<1> QED
  BY <1>15, <1>16, <1>17 DEF Fills

\* What stands at the beginning of b, a TLV with the payload v.
Begins(b, tag, flags, v) ==
  /\ b \in Seq(Bytes) /\ v \in Seq(Bytes) /\ Len(v) \in Nat
  /\ \E n \in {2, 4} :
       /\ ReadFirst(b) = [size |-> n, tag |-> tag, flags |-> flags, len |-> Len(v)]
       /\ Len(b) = n + Len(v) /\ SubSeq(b, n + 1, n + Len(v)) = v

\* What is written is read as what was written.
LEMMA WrittenBegins ==
  ASSUME MInv, Untrapped, NEW t \in Alive, Serializes(t), Fills(Serialized(t))
  PROVE  /\ Begins(Serialized(t), node[t].tag, node[t].flags, Payload[t])
         /\ Len(Payload[t]) < BufferSize
<1>1. t \in Tlvs
  BY DEF Alive
<1>2. Formed(node, mem)
  BY SaysNow
<1>3. PICK v, tag, flags : v = Payload[t] /\ tag = node[t].tag /\ flags = node[t].flags
  OBVIOUS
<1>4. v \in Seq(Bytes) /\ Len(v) \in Nat /\ tag \in 0 .. TypeSpan * Byte - 1 /\ flags \in 0 .. 3
  BY <1>1, <1>2, <1>3, PayloadNow DEF Formed
<1>5. PICK hd : hd = Header(tag, flags, Len(v))
  OBVIOUS
<1>6. hd \in Seq(Bytes) /\ Len(hd) \in {2, 4}
  BY <1>4, <1>5, HeaderIs
<1>7. PICK b : b = Serialized(t)
  OBVIOUS
<1>8. b = hd \o v
  BY <1>3, <1>5, <1>7 DEF Serialized
<1>9. b \in Seq(Bytes) /\ Len(b) = Len(hd) + Len(v) /\ \A i \in 1 .. Len(hd) : b[i] = hd[i]
  BY <1>4, <1>6, <1>8, JoinIs
<1>10. Len(v) < BufferSize
  <2>1. Len(v) <= BufferSize
    BY <1>3 DEF Serializes
  <2>2. Len(v) # BufferSize
    BY <1>4, <1>5, <1>7, <1>8, FullIsCut
  <2> QED
    BY <1>4, <2>1, <2>2, Units
<1>11. ReadFirst(b) = [size |-> Len(hd), tag |-> tag, flags |-> flags, len |-> Len(v)]
  <2>1. Len(hd) + Len(v) <= Len(b)
    BY <1>4, <1>6, <1>9
  <2> QED
    BY <1>4, <1>5, <1>9, <1>10, <2>1, WrittenIsRead
<1>12. SubSeq(b, Len(hd) + 1, Len(hd) + Len(v)) = v
  BY <1>4, <1>6, <1>8, JoinTail
<1>13. Begins(b, tag, flags, v)
  BY <1>4, <1>6, <1>9, <1>11, <1>12 DEF Begins
<1> QED
  BY <1>3, <1>7, <1>10, <1>13

\* The copy before it is expanded: it has the bytes b, and v is what it says.
Copy(ns, m, f, tag, flags, b, v) ==
  /\ m \in Memories /\ f \in Tlvs /\ f = used + 1 /\ used \in Nat
  /\ \A u \in Regions : u # f => m[u] = mem[u]
  /\ \A u \in Tlvs : u # f => ns[u] = node[u]
  /\ \A u \in Tlvs : u > used => node[u] = Gone
  /\ Newcomer(ns, m, f) /\ Sound(ns[f]) /\ ns[f].type = "RAW" /\ ns[f].nested = NewList /\ ns[f].own
  /\ ns[f].tag = tag /\ ns[f].flags = flags /\ ns[f].data.in = f
  /\ Len(v) = ns[f].data.len /\ Peek(m, ns[f].data) = v /\ v \in Seq(Bytes)

LEMMA CopyIs ==
  ASSUME MInv, Untrapped, used < MaxTlvs, NEW b, NEW tag, NEW flags, NEW v, Begins(b, tag, flags, v),
         NEW f, f = used + 1, NEW ns, ns = [node EXCEPT ![f] = Parsed(b, f)], NEW m, m = [mem EXCEPT ![f] = b]
  PROVE  Copy(ns, m, f, tag, flags, b, v)
<1>1. /\ f \in Tlvs /\ f \in Regions /\ f # Caller /\ \A u \in Tlvs : u > used => node[u] = Gone
  BY FreshIs
<1>2. IInv /\ mem \in Memories /\ node = [u \in Tlvs |-> node[u]]
  BY SaysNow DEF Formed, Objects
<1>3. used \in Nat
  BY <1>2, Now
<1>4. b \in Seq(Bytes) /\ v \in Seq(Bytes) /\ Len(v) \in Nat
  BY DEF Begins
<1>5. b \in Seq(Cells)
  BY <1>4, BytesAreCells
<1>6. m \in Memories /\ m[f] = b /\ \A u \in Regions : u # f => m[u] = mem[u]
  BY <1>1, <1>2, <1>5 DEF Memories
<1>7. PICK o : o = Parsed(b, f)
  OBVIOUS
<1>8. ns[f] = o /\ \A u \in Tlvs : u # f => ns[u] = node[u]
  BY <1>1, <1>2, <1>7
<1>9. PICK n \in {2, 4} : /\ ReadFirst(b) = [size |-> n, tag |-> tag, flags |-> flags, len |-> Len(v)]
                          /\ Len(b) = n + Len(v) /\ SubSeq(b, n + 1, n + Len(v)) = v
  BY DEF Begins
<1>10. /\ o.refs = 1 /\ o.tag = tag /\ o.flags = flags /\ o.type = "RAW" /\ o.own /\ o.nested = NewList
       /\ o.data = [in |-> f, at |-> n, len |-> Len(v)]
       /\ o.tag \in 0 .. TypeSpan * Byte - 1 /\ o.flags \in 0 .. 3 /\ o.data \in Pointers
  <2>1. /\ o.refs = 1 /\ o.tag = ReadFirst(b).tag /\ o.flags = ReadFirst(b).flags /\ o.type = "RAW"
        /\ (o.own <=> f # Caller) /\ o.nested = NewList
        /\ o.data = [in |-> f, at |-> ReadFirst(b).size, len |-> ReadFirst(b).len]
        /\ o.tag \in 0 .. TypeSpan * Byte - 1 /\ o.flags \in 0 .. 3 /\ o.data \in Pointers
    BY <1>1, <1>4, <1>7, ParsedIs, Zenon
  <2> QED
    BY <1>1, <1>9, <2>1
<1>11. Sound(o)
  BY <1>7, ParsedIsSound
<1>12. PICK l : l = Len(v)
  OBVIOUS
<1>13. o.data.in = f /\ o.data.at = n /\ o.data.len = l /\ l \in Nat /\ Len(b) = n + l
  BY <1>4, <1>9, <1>10, <1>12
<1>14. \A i \in 1 .. l : n + i \in 1 .. Len(b) /\ b[n + i] \in Bytes
  BY <1>4, <1>13
<1>15. n + l <= Len(b)
  BY <1>13
<1>16. Backed(m, o.data)
  BY <1>6, <1>13, <1>14, <1>15 DEF Backed
<1>17. Peek(m, o.data) = v
  BY <1>6, <1>9, <1>12, <1>13, <1>15 DEF Peek
<1>18. o.data.len > 0 => Lender(ns, o.data.in)
  BY <1>1, <1>8, <1>10, <1>13 DEF Lender
<1>19. Newcomer(ns, m, f)
  BY <1>8, <1>10, <1>16, <1>18 DEF Newcomer
<1> QED
  BY <1>1, <1>3, <1>4, <1>6, <1>8, <1>10, <1>11, <1>12, <1>13, <1>17, <1>19 DEF Copy

\* What KSI_TLV_clone makes of t: the object f with the TLVs of its payload that begin at
\* `starts`, as the objects behind it.
Cloning(t, f, ns, m, starts, es) ==
  /\ Copy(ns, m, f, node[t].tag, node[t].flags, Serialized(t), Payload[t])
  /\ Len(starts) \in 0 .. (MaxTlvs - f) /\ Become(es, m) /\ Called("clone", f, 0, t)
  /\ Len(Payload[t]) < BufferSize /\ Encodable(t)
  /\ IF node[t].type = "TLV"
       THEN /\ Falls(Payload[t], node, Payload, Children(t)) /\ starts = Split(Payload[t])
            /\ Expands(es, ns, m, f, f, Payload[t], starts)
       ELSE starts = << >> /\ es = ns

LEMMA PayloadFalls ==
  ASSUME MInv, Untrapped, NEW t \in Tlvs, node[t].type = "TLV", Len(Payload[t]) < BufferSize
  PROVE  Falls(Payload[t], node, Payload, Children(t))
<1>1. Formed(node, mem) /\ Says(Payload, node, mem)
  BY SaysNow
<1>2. PICK ids, v : ids = Elements(node[t].nested) /\ v = Payload[t]
  OBVIOUS
<1>3. ids \in Seq(Tlvs) /\ Children(t) = ids
  BY <1>2, SaysNow DEF Children
<1>4. \A c \in ToSet(ids) : Payload[c] \in Seq(Bytes)
  <2>1. ToSet(ids) \subseteq Tlvs
    BY <1>3 DEF ToSet
  <2> QED
    BY <1>1, <2>1 DEF Says
<1>5. v = FlattenSeq(Encodings(node, Payload, ids)) /\ Len(v) < BufferSize
  BY <1>2, PayloadNow
<1>6. Falls(v, node, Payload, ids)
  BY <1>1, <1>3, <1>4, <1>5, Refalls
<1> QED
  BY <1>2, <1>3, <1>6

LEMMA CloneMakes ==
  ASSUME MInv, Untrapped, NEW t \in Alive, CloneTlv(t), Serializes(t) /\ Fills(Serialized(t))
  PROVE  \E f, ns, m, starts, es : Cloning(t, f, ns, m, starts, es)
<1>1. PICK f : f = used + 1
  OBVIOUS
<1>2. PICK b, v, tag, flags : b = Serialized(t) /\ v = Payload[t] /\ tag = node[t].tag /\ flags = node[t].flags
  OBVIOUS
<1>3. Begins(b, tag, flags, v) /\ Len(v) < BufferSize /\ t \in Tlvs
  BY <1>2, WrittenBegins DEF Alive
<1>4. PICK ns, m : ns = [node EXCEPT ![f] = Parsed(b, f)] /\ m = [mem EXCEPT ![f] = b]
  OBVIOUS
<1>5. used < MaxTlvs
  BY DEF CloneTlv
<1>6. Copy(ns, m, f, tag, flags, b, v)
  BY <1>1, <1>3, <1>4, <1>5, CopyIs
<1>7. PICK starts : starts = IF node[t].type = "TLV" THEN Split(Peek(m, ns[f].data)) ELSE << >>
  OBVIOUS
<1>8. PICK es : es = IF node[t].type = "TLV" THEN Expanded(ns, m, f, f + 1, starts) ELSE ns
  OBVIOUS
<1>9. Len(starts) \in 0 .. (MaxTlvs - f) /\ Become(es, m) /\ Called("clone", f, 0, t)
  BY <1>1, <1>2, <1>4, <1>7, <1>8 DEF CloneTlv, Clone, Fresh
<1>10. CASE node[t].type = "TLV"
  <2>1. Falls(v, node, Payload, Children(t))
    BY <1>2, <1>3, <1>10, PayloadFalls
  <2>2. /\ m \in Memories /\ f \in Tlvs /\ Newcomer(ns, m, f) /\ Peek(m, ns[f].data) = v
    BY <1>6 DEF Copy
  <2>3. starts = Split(v) /\ es = Expanded(ns, m, f, f + 1, starts)
    BY <1>7, <1>8, <1>10, <2>2
  <2>4. Walk(v, starts, Len(v))
    BY <2>1, <2>3 DEF Falls
  <2>5. PICK d : d = ns[f].data
    OBVIOUS
  <2>6. d \in Pointers /\ Backed(m, d) /\ v = Peek(m, d)
    BY <2>2, <2>5 DEF Newcomer
  <2>7. f \in Nat /\ f <= f
    BY <2>2 DEF Tlvs
  <2>8. Expands(es, ns, m, f, f, v, starts)
    BY <1>9, <2>2, <2>3, <2>4, <2>5, <2>6, <2>7, ExpandedReads
  <2>9. Cloning(t, f, ns, m, starts, es)
    BY <1>2, <1>3, <1>6, <1>9, <1>10, <2>1, <2>3, <2>8 DEF Cloning, Serializes
  <2> QED
    BY <2>9
<1>11. CASE node[t].type # "TLV"
  <2>1. starts = << >> /\ es = ns
    BY <1>7, <1>8, <1>11
  <2>2. Cloning(t, f, ns, m, starts, es)
    BY <1>2, <1>3, <1>6, <1>9, <1>11, <2>1 DEF Cloning, Serializes
  <2> QED
    BY <2>2
<1> QED
  BY <1>10, <1>11

LEMMA CloneJoins ==
  ASSUME MInv, Untrapped, NEW t \in Alive, NEW f, NEW ns, NEW m, NEW starts, NEW es,
         Cloning(t, f, ns, m, starts, es)
  PROVE  /\ Joins(es, m, f .. (f + Len(starts)), Caller)
         /\ \A u \in Tlvs \ (f .. (f + Len(starts))) : es[u] = node[u]
         /\ \A u \in f .. (f + Len(starts)) :
              u \in Tlvs /\ es[u].refs = 1 /\ (u # f => Elements(es[u].nested) = << >>)
<1>1. PICK b, v, tag, flags : b = Serialized(t) /\ v = Payload[t] /\ tag = node[t].tag /\ flags = node[t].flags
  OBVIOUS
<1>2. PICK k : k = Len(starts)
  OBVIOUS
<1>3. Copy(ns, m, f, tag, flags, b, v)
  BY <1>1 DEF Cloning
<1>4. /\ m \in Memories /\ f \in Tlvs /\ f \in Nat /\ f = used + 1 /\ used \in Nat /\ MaxTlvs \in Nat
      /\ \A u \in Regions : u # f => m[u] = mem[u]
      /\ \A u \in Tlvs : u # f => ns[u] = node[u]
      /\ \A u \in Tlvs : u > used => node[u] = Gone
      /\ Newcomer(ns, m, f) /\ Sound(ns[f]) /\ ns[f].data \in Pointers
      /\ ns[f].data.len > 0 => Lender(ns, ns[f].data.in)
      /\ Len(v) = ns[f].data.len /\ v \in Seq(Bytes)
  BY <1>3, TlvAssumption DEF Copy, Newcomer, Tlvs
<1>5. k \in Nat /\ k <= MaxTlvs - f
  BY <1>2, <1>4 DEF Cloning
<1>6. PICK N : N = f .. (f + k)
  OBVIOUS
<1>7. N \in SUBSET Tlvs /\ f \in N /\ \A u \in N : u > used /\ (u # f => u \in (f + 1) .. (f + k))
  BY <1>4, <1>5, <1>6 DEF Tlvs
<1>8. \A u \in N : node[u].refs = 0
  BY <1>4, <1>7, GoneIs
<1>9. /\ \A u \in N : Newcomer(es, m, u) /\ (u # f => Elements(es[u].nested) = << >>)
      /\ \A u \in Tlvs \ N : es[u] = node[u]
  <2>1. CASE node[t].type = "TLV"
    <3>1. Expands(es, ns, m, f, f, v, starts) /\ Walk(v, starts, Len(v))
      BY <1>1, <2>1 DEF Cloning, Falls
    <3>2. f <= f /\ Len(starts) \in Nat
      BY <1>2, <1>4, <1>5
    <3>3. \A u \in Tlvs : u > f => ns[u].refs = 0
      <4>1. \A u \in Tlvs : u > f => u # f /\ u > used
        BY <1>4 DEF Tlvs
      <4> QED
        BY <1>4, <4>1, GoneIs
    <3>4. /\ \A u \in (f + 1) .. (f + k) : Newcomer(es, m, u) /\ Elements(es[u].nested) = << >>
          /\ es[f].refs = ns[f].refs /\ es[f].tag = ns[f].tag /\ es[f].flags = ns[f].flags
          /\ es[f].own = ns[f].own /\ es[f].data = ns[f].data
      BY <1>2, <1>4, <3>1, <3>2, <3>3, ExpandedNew
    <3>5. Newcomer(es, m, f)
      <4>1. ASSUME NEW x, Lender(ns, x), x = f \/ x = Caller
            PROVE  Lender(es, x)
        BY <3>4, <4>1 DEF Lender
      <4>2. ns[f].data.in = f
        BY <1>3 DEF Copy
      <4> QED
        BY <1>4, <3>4, <4>1, <4>2 DEF Newcomer
    <3>6. \A u \in Tlvs \ N : es[u] = node[u]
      <4>1. \A u \in Tlvs \ N : u # f /\ u \notin (f + 1) .. (f + k)
        BY <1>4, <1>5, <1>6
      <4> QED
        BY <1>2, <1>4, <3>1, <4>1 DEF Expands
    <3> QED
      BY <1>7, <3>4, <3>5, <3>6
  <2>2. CASE node[t].type # "TLV"
    <3>1. starts = << >> /\ es = ns
      BY <2>2 DEF Cloning
    <3>2. k = 0
      BY <1>2, <3>1
    <3>3. N = {f}
      BY <1>4, <1>6, <3>2
    <3> QED
      BY <1>4, <3>1, <3>3
  <2> QED
    BY <2>1, <2>2
<1>10. \A u \in Regions \ N : m[u] = mem[u]
  BY <1>4, <1>7
<1>11. Caller \notin Tlvs
  BY DEF Tlvs, Caller
<1>12. Joins(es, m, N, Caller)
  BY <1>4, <1>7, <1>8, <1>9, <1>10, <1>11 DEF Joins, Newcomer
<1>13. \A u \in N : u \in Tlvs /\ es[u].refs = 1 /\ (u # f => Elements(es[u].nested) = << >>)
  BY <1>7, <1>9 DEF Newcomer
<1> QED
  BY <1>2, <1>6, <1>9, <1>12, <1>13

LEMMA CloneKeeps ==
  ASSUME MInv, Untrapped, NEW t \in Alive, CloneTlv(t), trap' = "none"
  PROVE  Orderly(Caller)
<1>1. CASE Serializes(t) /\ Fills(Serialized(t))
  <2>1. PICK f, ns, m, starts, es : Cloning(t, f, ns, m, starts, es)
    BY <1>1, CloneMakes
  <2>2. PICK N : N = f .. (f + Len(starts))
    OBVIOUS
  <2>3. Joins(es, m, N, Caller) /\ \A u \in Tlvs \ N : es[u] = node[u]
    BY <2>1, <2>2, CloneJoins
  <2>4. \A u \in Tlvs \ N : u # Caller => Elements(es[u].nested) = Elements(node[u].nested)
    BY <2>3
  <2>5. Become(es, m)
    BY <2>1 DEF Cloning
  <2> QED
    BY <2>3, <2>4, <2>5, JoinsKeep
<1>2. CASE ~(Serializes(t) /\ Fills(Serialized(t)))
  BY <1>2, UnchangedKeeps DEF CloneTlv, CloneFails, Fails, vars
<1> QED
  BY <1>1, <1>2

-----------------------------------------------------------------------------
(* Payloads in pieces.                                                     *)

LEMMA JoinsAlike ==
  ASSUME NEW S, NEW a \in Seq(S), NEW b \in Seq(S), NEW c \in Seq(S)
  PROVE  (a \o b) \o c = a \o (b \o c)
<1>1. PICK x, y, z : x = Len(a) /\ y = Len(b) /\ z = Len(c)
  OBVIOUS
<1>2. x \in Nat /\ y \in Nat /\ z \in Nat
  BY <1>1
<1>3. PICK p, q : p = a \o b /\ q = b \o c
  OBVIOUS
<1>4. /\ p \in Seq(S) /\ Len(p) = x + y
      /\ \A i \in 1 .. x : p[i] = a[i]
      /\ \A i \in 1 .. y : p[x + i] = b[i]
  BY <1>1, <1>3, JoinIs
<1>5. /\ q \in Seq(S) /\ Len(q) = y + z
      /\ \A i \in 1 .. y : q[i] = b[i]
      /\ \A i \in 1 .. z : q[y + i] = c[i]
  BY <1>1, <1>3, JoinIs
<1>6. PICK l, r : l = p \o c /\ r = a \o q
  OBVIOUS
<1>7. /\ l \in Seq(S) /\ Len(l) = x + y + z
      /\ \A i \in 1 .. x + y : l[i] = p[i]
      /\ \A i \in 1 .. z : l[x + y + i] = c[i]
  <2>1. /\ l \in Seq(S) /\ Len(l) = Len(p) + Len(c)
        /\ \A i \in 1 .. Len(p) : l[i] = p[i]
        /\ \A i \in 1 .. Len(c) : l[Len(p) + i] = c[i]
    <3>1. p \in Seq(S) /\ c \in Seq(S)
      BY <1>4
    <3> QED
      BY <1>6, <3>1, JoinIs
  <2>2. Len(p) = x + y /\ Len(c) = z
    BY <1>1, <1>4
  <2> QED
    BY <2>1, <2>2
<1>8. /\ r \in Seq(S) /\ Len(r) = x + (y + z)
      /\ \A i \in 1 .. x : r[i] = a[i]
      /\ \A i \in 1 .. y + z : r[x + i] = q[i]
  <2>1. /\ r \in Seq(S) /\ Len(r) = Len(a) + Len(q)
        /\ \A i \in 1 .. Len(a) : r[i] = a[i]
        /\ \A i \in 1 .. Len(q) : r[Len(a) + i] = q[i]
    <3>1. a \in Seq(S) /\ q \in Seq(S)
      BY <1>5
    <3> QED
      BY <1>6, <3>1, JoinIs
  <2>2. Len(q) = y + z /\ Len(a) = x
    BY <1>1, <1>5
  <2> QED
    BY <2>1, <2>2
<1>9. ASSUME NEW i \in 1 .. x + y + z PROVE l[i] = r[i]
  <2>1. CASE i \in 1 .. x
    <3>1. i \in 1 .. x + y
      BY <1>2, <2>1
    <3> QED
      BY <1>4, <1>7, <1>8, <2>1, <3>1
  <2>2. CASE i \in x + 1 .. x + y
    <3>1. PICK j : j = i - x
      OBVIOUS
    <3>2. j \in 1 .. y /\ i = x + j /\ j \in 1 .. y + z /\ x + j \in 1 .. x + y
      BY <1>2, <2>2, <3>1
    <3>3. l[x + j] = p[x + j] /\ p[x + j] = b[j] /\ r[x + j] = q[j] /\ q[j] = b[j]
      BY <1>4, <1>5, <1>7, <1>8, <3>2
    <3> QED
      BY <3>2, <3>3
  <2>3. CASE i \in x + y + 1 .. x + y + z
    <3>1. PICK j, k : j = i - x - y /\ k = y + j
      OBVIOUS
    <3>2. j \in 1 .. z /\ k \in 1 .. y + z /\ i = x + y + j /\ i = x + k /\ k = y + j
      BY <1>2, <2>3, <3>1
    <3>3. l[x + y + j] = c[j] /\ r[x + k] = q[k] /\ q[y + j] = c[j]
      BY <1>5, <1>7, <1>8, <3>2
    <3> QED
      BY <3>2, <3>3
  <2> QED
    BY <1>2, <2>1, <2>2, <2>3
<1>10. Len(l) = Len(r) /\ Len(l) = x + y + z
  BY <1>2, <1>7, <1>8
<1>11. l = r
  BY <1>7, <1>8, <1>9, <1>10, SameSeq
<1> QED
  BY <1>3, <1>6, <1>11

\* What encodeAsRaw writes at a time: a header, or the bytes of a TLV that has no list.
Bits ==
  {p \in [lit : Seq(Bytes), data : Pointers] :
     /\ Backed(mem, p.data) /\ (p.lit = << >> \/ p.data.len = 0)
     /\ p.data.len > 0 => Lender(node, p.data.in)}
Spoken(p) == p.lit \o Peek(mem, p.data)
Spokens(ps) == [i \in 1 .. Len(ps) |-> Spoken(ps[i])]
Spells(ps, v) == ps \in Seq(Bits) /\ \E f : Flattens(f, Spokens(ps), Bytes) /\ f[Len(ps)] = v

LEMMA SpokenIs ==
  ASSUME MInv, Untrapped, NEW p \in Bits
  PROVE  Spoken(p) \in Seq(Bytes) /\ Len(Spoken(p)) = PieceLen(p) /\ PieceLen(p) \in Nat
<1>1. p.lit \in Seq(Bytes) /\ p.data \in Pointers /\ Backed(mem, p.data) /\ mem \in Memories
  BY SaysNow DEF Bits, Formed
<1>2. PICK q : q = Peek(mem, p.data)
  OBVIOUS
<1>3. q \in Seq(Bytes) /\ Len(q) = p.data.len
  BY <1>1, <1>2, PeekIs
<1>4. p.lit \o q \in Seq(Bytes) /\ Len(p.lit \o q) = Len(p.lit) + Len(q)
  BY <1>1, <1>3, JoinIs
<1>5. Len(p.lit) + Len(q) \in Nat
  BY <1>1, <1>3
<1> QED
  BY <1>2, <1>3, <1>4, <1>5 DEF Spoken, PieceLen

LEMMA SpokensAre ==
  ASSUME MInv, Untrapped, NEW ps \in Seq(Bits)
  PROVE  /\ Spokens(ps) \in Seq(Seq(Bytes)) /\ Len(Spokens(ps)) = Len(ps)
         /\ \A i \in 1 .. Len(ps) : Spokens(ps)[i] = Spoken(ps[i]) /\ ps[i] \in Bits
<1>1. \A i \in 1 .. Len(ps) : ps[i] \in Bits
  OBVIOUS
<1>2. \A i \in 1 .. Len(ps) : Spoken(ps[i]) \in Seq(Bytes)
  BY <1>1, SpokenIs
<1>3. Len(ps) \in Nat
  OBVIOUS
<1> DEFINE e(i) == Spoken(ps[i])
<1>4. Spokens(ps) = [i \in 1 .. Len(ps) |-> e(i)] /\ \A i \in 1 .. Len(ps) : e(i) \in Seq(Bytes)
  BY <1>2 DEF Spokens
<1> HIDE DEF e
<1>5. Spokens(ps) \in Seq(Seq(Bytes)) /\ Len(Spokens(ps)) = Len(ps)
  BY <1>3, <1>4
<1>6. \A i \in 1 .. Len(ps) : Spokens(ps)[i] = Spoken(ps[i])
  BY <1>4 DEF e
<1> QED
  BY <1>1, <1>5, <1>6

LEMMA SpellsNone ==
  Spells(<< >>, << >>)
<1> DEFINE f == [i \in 0 .. 0 |-> << >>]
<1>1. Len(<< >>) = 0 /\ << >> \in Seq(Bits) /\ << >> \in Seq(Bytes)
  OBVIOUS
<1>2. Len(Spokens(<< >>)) = 0
  BY <1>1 DEF Spokens
<1>3. f \in [0 .. 0 -> Seq(Bytes)] /\ f[0] = << >>
  BY <1>1
<1> HIDE DEF f
<1>4. \A i \in 1 .. 0 : f[i] = f[i - 1] \o Spokens(<< >>)[i]
  OBVIOUS
<1>5. Flattens(f, Spokens(<< >>), Bytes)
  BY <1>2, <1>3, <1>4 DEF Flattens
<1> QED
  BY <1>1, <1>3, <1>5 DEF Spells

LEMMA SpellsMore ==
  ASSUME MInv, Untrapped, NEW ps, NEW v, Spells(ps, v), NEW p \in Bits
  PROVE  Spells(Append(ps, p), v \o Spoken(p))
<1>1. PICK f : Flattens(f, Spokens(ps), Bytes) /\ f[Len(ps)] = v
  BY DEF Spells
<1>2. PICK n, qs, x : n = Len(ps) /\ qs = Append(ps, p) /\ x = Spoken(p)
  OBVIOUS
<1>3. ps \in Seq(Bits) /\ n \in Nat
  BY <1>2 DEF Spells
<1>4. qs \in Seq(Bits) /\ Len(qs) = n + 1 /\ qs[n + 1] = p /\ \A i \in 1 .. n : qs[i] = ps[i]
  BY <1>2, <1>3
<1>5. Len(Spokens(ps)) = n /\ \A i \in 1 .. n : Spokens(ps)[i] = Spoken(ps[i])
  BY <1>2, <1>3, SpokensAre
<1>6. Len(Spokens(qs)) = n + 1 /\ \A i \in 1 .. n + 1 : Spokens(qs)[i] = Spoken(qs[i])
  BY <1>4, SpokensAre
<1>7. /\ f \in [0 .. n -> Seq(Bytes)] /\ f[0] = << >> /\ f[n] = v
      /\ \A i \in 1 .. n : f[i] = f[i - 1] \o Spoken(ps[i])
  BY <1>1, <1>2, <1>5 DEF Flattens
<1>8. x \in Seq(Bytes) /\ v \in Seq(Bytes)
  BY <1>2, <1>3, <1>7, SpokenIs
<1>9. v \o x \in Seq(Bytes)
  BY <1>8, JoinIs
<1> DEFINE g == [i \in 0 .. n + 1 |-> IF i = n + 1 THEN v \o x ELSE f[i]]
<1>10. g \in [0 .. n + 1 -> Seq(Bytes)]
  BY <1>3, <1>7, <1>9
<1>11. g[0] = << >> /\ g[n + 1] = v \o x
  BY <1>3, <1>7
<1>12. ASSUME NEW i \in 1 .. n + 1 PROVE g[i] = g[i - 1] \o Spokens(qs)[i]
  <2>1. CASE i = n + 1
    <3>1. i - 1 = n /\ n \in 0 .. n + 1 /\ n # n + 1 /\ n + 1 \in 1 .. n + 1
      BY <1>3, <2>1
    <3>2. g[n] = v /\ g[n + 1] = v \o x
      BY <1>7, <1>11, <3>1
    <3> HIDE DEF g
    <3>3. Spokens(qs)[n + 1] = x
      BY <1>2, <1>4, <1>6, <3>1
    <3> QED
      BY <2>1, <3>1, <3>2, <3>3
  <2>2. CASE i # n + 1
    <3>1. i \in 1 .. n /\ i \in 0 .. n + 1 /\ i - 1 \in 0 .. n + 1 /\ i - 1 # n + 1
      BY <1>3, <2>2
    <3>2. g[i] = f[i] /\ g[i - 1] = f[i - 1]
      BY <2>2, <3>1
    <3> HIDE DEF g
    <3>3. Spokens(qs)[i] = Spoken(ps[i])
      BY <1>4, <1>6, <3>1
    <3> QED
      BY <1>7, <3>1, <3>2, <3>3
  <2> QED
    BY <2>1, <2>2
<1> HIDE DEF g
<1>13. Flattens(g, Spokens(qs), Bytes)
  BY <1>6, <1>10, <1>11, <1>12 DEF Flattens
<1> QED
  BY <1>2, <1>4, <1>11, <1>13 DEF Spells

LEMMA SpellsJoin ==
  ASSUME MInv, Untrapped, NEW ps, NEW v, Spells(ps, v), NEW qs, NEW w, Spells(qs, w)
  PROVE  Spells(ps \o qs, v \o w)
<1>1. PICK g : Flattens(g, Spokens(qs), Bytes) /\ g[Len(qs)] = w
  BY DEF Spells
<1>2. PICK n : n = Len(qs)
  OBVIOUS
<1>3. qs \in Seq(Bits) /\ ps \in Seq(Bits) /\ n \in Nat
  BY <1>2 DEF Spells
<1>4. Len(Spokens(qs)) = n /\ \A i \in 1 .. n : Spokens(qs)[i] = Spoken(qs[i]) /\ qs[i] \in Bits
  BY <1>2, <1>3, SpokensAre
<1>5. /\ g \in [0 .. n -> Seq(Bytes)] /\ g[0] = << >> /\ g[n] = w
      /\ \A i \in 1 .. n : g[i] = g[i - 1] \o Spoken(qs[i])
  BY <1>1, <1>2, <1>4 DEF Flattens
<1>6. v \in Seq(Bytes)
  <2>1. PICK f : Flattens(f, Spokens(ps), Bytes) /\ f[Len(ps)] = v
    BY DEF Spells
  <2>2. Len(Spokens(ps)) = Len(ps) /\ Len(ps) \in 0 .. Len(ps)
    BY <1>3, SpokensAre
  <2> QED
    BY <2>1, <2>2 DEF Flattens
<1> DEFINE G == {i \in 0 .. n : Spells(ps \o SubSeq(qs, 1, i), v \o g[i])}
<1>7. 0 \in G
  <2>1. SubSeq(qs, 1, 0) = << >>
    BY <1>3
  <2>2. ps \o << >> = ps /\ v \o << >> = v
    BY <1>3, <1>6
  <2>3. 0 \in 0 .. n /\ g[0] = << >>
    BY <1>3, <1>5
  <2>4. Spells(ps \o SubSeq(qs, 1, 0), v \o g[0])
    BY <2>1, <2>2, <2>3
  <2> QED
    BY <2>3, <2>4
<1>8. ASSUME NEW i \in 0 .. n - 1, i \in G PROVE i + 1 \in G
  <2>1. PICK j : j = i + 1
    OBVIOUS
  <2>2. j \in 1 .. n /\ j - 1 = i /\ j \in 0 .. n /\ i \in 0 .. n /\ i \in Nat
    BY <1>3, <2>1
  <2>3. Spells(ps \o SubSeq(qs, 1, i), v \o g[i])
    BY <1>8
  <2>4. qs[j] \in Bits /\ g[j] = g[i] \o Spoken(qs[j]) /\ g[i] \in Seq(Bytes)
    BY <1>4, <1>5, <2>2
  <2>5. Spells(Append(ps \o SubSeq(qs, 1, i), qs[j]), (v \o g[i]) \o Spoken(qs[j]))
    BY <2>3, <2>4, SpellsMore
  <2>6. (v \o g[i]) \o Spoken(qs[j]) = v \o g[j]
    <3>1. PICK x, y : x = g[i] /\ y = Spoken(qs[j])
      OBVIOUS
    <3>2. x \in Seq(Bytes) /\ y \in Seq(Bytes)
      BY <2>4, <3>1, SpokenIs
    <3>3. (v \o x) \o y = v \o (x \o y)
      BY <1>6, <3>2, JoinsAlike
    <3> QED
      BY <2>4, <3>1, <3>3
  <2>7. Append(ps \o SubSeq(qs, 1, i), qs[j]) = ps \o SubSeq(qs, 1, j)
    <3>1. SubSeq(qs, 1, j) = Append(SubSeq(qs, 1, i), qs[j])
      BY <1>2, <1>3, <2>1, <2>2
    <3>2. SubSeq(qs, 1, i) \in Seq(Bits)
      BY <1>2, <1>3, <2>2
    <3>3. PICK a, e : a = SubSeq(qs, 1, i) /\ e = qs[j]
      OBVIOUS
    <3>4. a \in Seq(Bits) /\ e \in Bits /\ << e >> \in Seq(Bits) /\ Append(a, e) = a \o << e >>
      BY <2>4, <3>2, <3>3
    <3>5. (ps \o a) \o << e >> = ps \o (a \o << e >>)
      BY <1>3, <3>4, JoinsAlike
    <3>6. ps \o a \in Seq(Bits)
      BY <1>3, <3>4, JoinIs
    <3>7. Append(ps \o a, e) = (ps \o a) \o << e >>
      BY <3>4, <3>6
    <3> QED
      BY <3>1, <3>3, <3>4, <3>5, <3>7
  <2>8. j \in G
    BY <2>2, <2>5, <2>6, <2>7
  <2> QED
    BY <2>1, <2>8
<1> HIDE DEF G
<1>9. \A i \in 0 .. n : i \in G
  BY <1>3, <1>7, <1>8, Induction
<1>10. n \in G
  BY <1>3, <1>9
<1>11. SubSeq(qs, 1, n) = qs
  BY <1>2, <1>3
<1> QED
  BY <1>5, <1>10, <1>11 DEF G

LEMMA SpellsFlat ==
  ASSUME MInv, Untrapped, NEW pss \in Seq(Seq(Bits)), NEW vs \in Seq(Seq(Bytes)), Len(pss) = Len(vs),
         \A i \in 1 .. Len(pss) : Spells(pss[i], vs[i])
  PROVE  Spells(FlattenSeq(pss), FlattenSeq(vs))
<1>1. PICK f : Flattens(f, pss, Bits) /\ FlattenSeq(pss) = f[Len(pss)]
  BY FlattenIs
<1>2. PICK g : Flattens(g, vs, Bytes) /\ FlattenSeq(vs) = g[Len(vs)]
  BY FlattenIs
<1>3. PICK n : n = Len(pss)
  OBVIOUS
<1>4. n \in Nat /\ n = Len(vs)
  BY <1>3
<1>5. f[0] = << >> /\ g[0] = << >> /\ \A i \in 1 .. n : f[i] = f[i - 1] \o pss[i] /\ g[i] = g[i - 1] \o vs[i]
  BY <1>1, <1>2, <1>3, <1>4 DEF Flattens
<1> DEFINE G == {i \in 0 .. n : Spells(f[i], g[i])}
<1>6. 0 \in G
  BY <1>4, <1>5, SpellsNone
<1>7. ASSUME NEW i \in 0 .. n - 1, i \in G PROVE i + 1 \in G
  <2>1. PICK j : j = i + 1
    OBVIOUS
  <2>2. j \in 1 .. n /\ j - 1 = i /\ j \in 0 .. n
    BY <1>4, <2>1
  <2>3. Spells(f[i], g[i]) /\ Spells(pss[j], vs[j])
    BY <1>3, <1>7, <2>2
  <2>4. Spells(f[i] \o pss[j], g[i] \o vs[j])
    BY <2>3, SpellsJoin
  <2>5. f[j] = f[i] \o pss[j] /\ g[j] = g[i] \o vs[j]
    BY <1>5, <2>2
  <2> QED
    BY <2>1, <2>2, <2>4, <2>5
<1> HIDE DEF G
<1>8. \A i \in 0 .. n : i \in G
  BY <1>4, <1>6, <1>7, Induction
<1>9. n \in G
  BY <1>4, <1>8
<1> QED
  BY <1>1, <1>2, <1>3, <1>4, <1>9 DEF G

Start(c) == Literal(Header(node[c].tag, node[c].flags, Len(Payload[c])))
Cuts(g, ids) == [i \in 1 .. Len(ids) |-> << Start(ids[i]) >> \o g[ids[i]]]
PiecesOf(g, t) ==
  IF node[t].type # "TLV" THEN << [lit |-> << >>, data |-> node[t].data] >> ELSE FlattenSeq(Cuts(g, Children(t)))

LEMMA FrontIs ==
  ASSUME MInv, Untrapped, NEW c \in Tlvs
  PROVE  Start(c) \in Bits /\ Spoken(Start(c)) = Header(node[c].tag, node[c].flags, Len(Payload[c]))
<1>1. PICK h, p : h = Header(node[c].tag, node[c].flags, Len(Payload[c])) /\ p = Start(c)
  OBVIOUS
<1>2. Formed(node, mem) /\ Payload[c] \in Seq(Bytes)
  BY SaysNow, PayloadNow
<1>3. node[c].tag \in 0 .. TypeSpan * Byte - 1 /\ node[c].flags \in 0 .. 3 /\ Len(Payload[c]) \in Nat
  BY <1>2 DEF Formed
<1>4. h \in Seq(Bytes)
  BY <1>1, <1>3, HeaderIs
<1>5. p = [lit |-> h, data |-> Nowhere]
  BY <1>1 DEF Start, Literal
<1>6. Nowhere \in Pointers /\ Nowhere.len = 0
  BY DEF Nowhere, Pointers, Regions
<1>7. Backed(mem, Nowhere)
  BY <1>6 DEF Backed
<1>8. p \in Bits
  BY <1>4, <1>5, <1>6, <1>7 DEF Bits
<1>9. Peek(mem, Nowhere) \in Seq(Bytes) /\ Len(Peek(mem, Nowhere)) = 0
  BY <1>2, <1>6, <1>7, PeekIs DEF Formed
<1>10. Peek(mem, Nowhere) = << >>
  BY <1>9
<1>11. Spoken(p) = h \o << >>
  BY <1>5, <1>10 DEF Spoken
<1>12. Spoken(p) = h
  BY <1>4, <1>11
<1> QED
  BY <1>1, <1>8, <1>12

LEMMA CutsAre ==
  ASSUME MInv, Untrapped, NEW g, NEW ids \in Seq(Tlvs), \A c \in ToSet(ids) : g[c] \in Seq(Bits)
  PROVE  /\ Cuts(g, ids) \in Seq(Seq(Bits)) /\ Len(Cuts(g, ids)) = Len(ids)
         /\ \A i \in 1 .. Len(ids) : Cuts(g, ids)[i] = << Start(ids[i]) >> \o g[ids[i]]
<1> DEFINE e(i) == << Start(ids[i]) >> \o g[ids[i]]
<1>1. ASSUME NEW i \in 1 .. Len(ids) PROVE e(i) \in Seq(Bits)
  <2>1. ids[i] \in Tlvs /\ ids[i] \in ToSet(ids)
    BY DEF ToSet
  <2>2. << Start(ids[i]) >> \in Seq(Bits) /\ g[ids[i]] \in Seq(Bits)
    BY <2>1, FrontIs
  <2> QED
    BY <2>2, JoinIs
<1>2. Cuts(g, ids) = [i \in 1 .. Len(ids) |-> e(i)] /\ Len(ids) \in Nat
  BY DEF Cuts
<1>3. \A i \in 1 .. Len(ids) : Cuts(g, ids)[i] = e(i)
  BY <1>2
<1> HIDE DEF e
<1>4. Cuts(g, ids) \in Seq(Seq(Bits)) /\ Len(Cuts(g, ids)) = Len(ids)
  BY <1>1, <1>2
<1> QED
  BY <1>3, <1>4 DEF e

LEMMA PiecesUnfold ==
  ASSUME MInv, Untrapped
  PROVE  Pieces \in [Tlvs -> Seq(Bits)] /\ \A t \in Tlvs : Pieces[t] = PiecesOf(Pieces, t)
<1> DEFINE V == Seq(Bits)
           e(f, t) == IF node[t].type # "TLV" THEN <<[lit |-> << >>, data |-> node[t].data]>>
                      ELSE FlattenSeq([i \in 1..Length(node[t].nested) |->
                             LET c == ElementAt(node[t].nested, i)
                             IN <<Literal(Header(node[c].tag, node[c].flags, Len(Payload[c])))>> \o f[c]])
           P(f) == f = [t \in Tlvs |-> e(f, t)]
           F == [t \in Tlvs |-> [f \in [Tlvs -> V] |-> PiecesOf(f, t)]]
<1>0. /\ Objects(node) /\ Acyclic(node) /\ Memory(node, mem)
      /\ \A t \in Tlvs : /\ Elements(node[t].nested) \in Seq(Tlvs) /\ Kids(node, t) = ToSet(Elements(node[t].nested))
                         /\ Children(t) = Elements(node[t].nested)
  BY SaysNow DEF Children
<1>1. \A t \in Tlvs : node[t].nested \in Lists /\ Kids(node, t) \subseteq Tlvs /\ Children(t) \in Seq(Tlvs)
                      /\ Kids(node, t) = ToSet(Children(t))
  <2> TAKE t \in Tlvs
  <2>1. node[t].nested \in Lists
    BY <1>0, ObjectsListed DEF Listed
  <2> QED
    <3>1. PICK ids : ids = Elements(node[t].nested)
      OBVIOUS
    <3>2. ids \in Seq(Tlvs) /\ Kids(node, t) = ToSet(ids) /\ Children(t) = ids
      BY <1>0, <3>1
    <3>3. ToSet(ids) \subseteq Tlvs
      BY <3>2 DEF ToSet
    <3> QED
      BY <2>1, <3>2, <3>3
<1>2. ASSUME NEW f, NEW t \in Tlvs PROVE e(f, t) = PiecesOf(f, t)
  <2>1. PICK l : l = node[t].nested
    OBVIOUS
  <2>2. l \in Lists /\ l.len \in Nat
    BY <1>1, <2>1 DEF Lists
  <2>3. /\ Elements(l) \in Seq(Tlvs) /\ Len(Elements(l)) = l.len
        /\ \A i \in 1 .. l.len : Elements(l)[i] = l.arr[i]
    BY <2>2, ElementsAre
  <2>4. Length(l) = l.len /\ \A i \in 1 .. l.len : ElementAt(l, i) = Elements(l)[i]
    BY <2>3 DEF Length, ElementAt
  <2>5. [i \in 1 .. Length(l) |-> LET c == ElementAt(l, i)
                                 IN <<Literal(Header(node[c].tag, node[c].flags, Len(Payload[c])))>> \o f[c]]
          = Cuts(f, Elements(l))
    BY <2>3, <2>4 DEF Cuts, Start
  <2> QED
    BY <1>0, <2>1, <2>5 DEF PiecesOf
<1>3. ASSUME NEW f, NEW t \in Tlvs, \A k \in Kids(node, t) : f[k] \in Seq(Bits)
      PROVE  PiecesOf(f, t) \in Seq(Bits)
  <2>1. CASE node[t].type = "TLV"
    <3>1. \A c \in ToSet(Children(t)) : f[c] \in Seq(Bits)
      BY <1>1, <1>3
    <3>2. Cuts(f, Children(t)) \in Seq(Seq(Bits))
      BY <1>1, <3>1, CutsAre
    <3> QED
      BY <2>1, <3>2, FlattenType DEF PiecesOf
  <2>2. CASE node[t].type # "TLV"
    <3>1. [lit |-> << >>, data |-> node[t].data] \in Bits
      BY <1>0 DEF Bits, Memory, Formed
    <3> QED
      BY <2>2, <3>1 DEF PiecesOf
  <2> QED
    BY <2>1, <2>2
<1>4. ASSUME NEW f, NEW g, NEW t \in Tlvs, \A k \in Kids(node, t) : f[k] = g[k]
      PROVE  PiecesOf(f, t) = PiecesOf(g, t)
  <2>1. \A i \in 1 .. Len(Children(t)) : f[Children(t)[i]] = g[Children(t)[i]]
    BY <1>1, <1>4 DEF ToSet
  <2>2. Cuts(f, Children(t)) = Cuts(g, Children(t))
    BY <2>1 DEF Cuts
  <2> QED
    BY <2>2 DEF PiecesOf
<1>5. PICK f : Fulfils(f, F, V)
  <2>1. V # {}
    <3>1. << >> \in Seq(Bits)
      OBVIOUS
    <3> QED
      BY <3>1
  <2>2. \A t \in Tlvs : \A f \in [Tlvs -> V] : F[t][f] \in V
    <3> TAKE t \in Tlvs
    <3> TAKE f \in [Tlvs -> V]
    <3>1. \A k \in Kids(node, t) : f[k] \in Seq(Bits)
      BY <1>1
    <3>2. PiecesOf(f, t) \in Seq(Bits)
      BY <1>3, <3>1
    <3> QED
      BY <3>2
  <2>3. \A t \in Tlvs : \A f, g \in [Tlvs -> V] : (\A k \in Kids(node, t) : f[k] = g[k]) => F[t][f] = F[t][g]
    <3> TAKE t \in Tlvs
    <3> TAKE f, g \in [Tlvs -> V]
    <3> HAVE \A k \in Kids(node, t) : f[k] = g[k]
    <3>1. PiecesOf(f, t) = PiecesOf(g, t)
      BY <1>4
    <3> QED
      BY <3>1
  <2> HIDE DEF V, F
  <2>4. FromNested(F, node, V)
    BY <1>1, <2>1, <2>2, <2>3 DEF FromNested
  <2> QED
    BY <1>0, <2>4, TreeRecursion
<1>6. P(f)
  <2>1. \A t \in Tlvs : f[t] = e(f, t)
    <3> TAKE t \in Tlvs
    <3>1. f[t] = PiecesOf(f, t)
      BY <1>5 DEF Fulfils
    <3> QED
      BY <1>2, <3>1
  <2> HIDE DEF e
  <2> QED
    BY <1>5, <2>1 DEF Fulfils
<1>7. Pieces = CHOOSE g : P(g)
  BY DEF Pieces
<1>8. PICK g : g = Pieces
  OBVIOUS
<1> HIDE DEF P
<1>9. P(g)
  BY <1>6, <1>7, <1>8
<1>10. g = [t \in Tlvs |-> g[t]] /\ \A t \in Tlvs : g[t] = PiecesOf(g, t)
  <2> HIDE DEF e
  <2>1. g = [t \in Tlvs |-> e(g, t)]
    BY <1>9 DEF P
  <2>2. \A t \in Tlvs : g[t] = e(g, t)
    BY <2>1
  <2> QED
    BY <1>2, <2>1, <2>2
<1> DEFINE G == {t \in Tlvs : g[t] \in Seq(Bits)}
<1>11. Tlvs \subseteq G
  <2>1. ASSUME NEW t \in Tlvs, Kids(node, t) \cap Tlvs \subseteq G PROVE t \in G
    <3>1. \A k \in Kids(node, t) : g[k] \in Seq(Bits)
      BY <1>1, <2>1
    <3>2. PiecesOf(g, t) \in Seq(Bits)
      BY <1>3, <3>1
    <3> QED
      BY <1>10, <3>2
  <2> HIDE DEF G
  <2> QED
    BY <1>0, <2>1, TreeInduction
<1>12. g \in [Tlvs -> Seq(Bits)]
  BY <1>10, <1>11
<1> QED
  BY <1>8, <1>10, <1>12

\* The pieces of a TLV are its payload.
LEMMA PiecesSpell ==
  ASSUME MInv, Untrapped, NEW t \in Tlvs
  PROVE  Spells(Pieces[t], Payload[t])
<1> DEFINE G == {u \in Tlvs : Spells(Pieces[u], Payload[u])}
<1>0. Acyclic(node) /\ Formed(node, mem) /\ Memory(node, mem) /\ Says(Payload, node, mem)
  BY SaysNow
<1>1. ASSUME NEW u \in Tlvs, Kids(node, u) \cap Tlvs \subseteq G PROVE u \in G
  <2>1. PICK ids : ids = Children(u)
    OBVIOUS
  <2>2. ids \in Seq(Tlvs) /\ ToSet(ids) = Kids(node, u) /\ ids = Elements(node[u].nested)
    BY <2>1, SaysNow DEF Children
  <2>3. ToSet(ids) \subseteq Tlvs
    BY <2>2 DEF ToSet
  <2>4. \A c \in ToSet(ids) : Pieces[c] \in Seq(Bits) /\ Payload[c] \in Seq(Bytes) /\ Spells(Pieces[c], Payload[c])
    BY <1>0, <1>1, <2>2, <2>3, PiecesUnfold DEF Says
  <2>5. Pieces[u] = PiecesOf(Pieces, u)
    BY PiecesUnfold
  <2>6. CASE node[u].type = "TLV"
    <3>1. /\ Cuts(Pieces, ids) \in Seq(Seq(Bits)) /\ Len(Cuts(Pieces, ids)) = Len(ids)
          /\ \A i \in 1 .. Len(ids) : Cuts(Pieces, ids)[i] = << Start(ids[i]) >> \o Pieces[ids[i]]
      BY <2>2, <2>4, CutsAre
    <3>2. Encodings(node, Payload, ids) \in Seq(Seq(Bytes)) /\ Len(Encodings(node, Payload, ids)) = Len(ids)
      BY <1>0, <2>2, <2>4, EncodingsAre
    <3>3. ASSUME NEW i \in 1 .. Len(ids)
          PROVE  Spells(Cuts(Pieces, ids)[i], Encodings(node, Payload, ids)[i])
      <4>1. PICK c : c = ids[i]
        OBVIOUS
      <4>2. c \in Tlvs /\ c \in ToSet(ids)
        BY <2>2, <4>1 DEF ToSet
      <4>3. PICK h : h = Header(node[c].tag, node[c].flags, Len(Payload[c]))
        OBVIOUS
      <4>4. Start(c) \in Bits /\ Spoken(Start(c)) = h
        BY <4>2, <4>3, FrontIs
      <4>5. Spells(Append(<< >>, Start(c)), << >> \o h)
        BY <4>4, SpellsNone, SpellsMore
      <4>6. h \in Seq(Bytes)
        BY <4>4, SpokenIs
      <4>7. << >> \o h = h /\ Append(<< >>, Start(c)) = << Start(c) >>
        BY <4>6
      <4>8. Spells(<< Start(c) >>, h)
        BY <4>5, <4>7
      <4>9. Spells(<< Start(c) >> \o Pieces[c], h \o Payload[c])
        BY <2>4, <4>2, <4>8, SpellsJoin
      <4>10. Encodings(node, Payload, ids)[i] = h \o Payload[c]
        BY <4>1, <4>3 DEF Encodings, Encoding
      <4> QED
        BY <3>1, <4>1, <4>9, <4>10
    <3>4. Spells(FlattenSeq(Cuts(Pieces, ids)), FlattenSeq(Encodings(node, Payload, ids)))
      <4>1. PICK pss, vs : pss = Cuts(Pieces, ids) /\ vs = Encodings(node, Payload, ids)
        OBVIOUS
      <4>2. /\ pss \in Seq(Seq(Bits)) /\ vs \in Seq(Seq(Bytes)) /\ Len(pss) = Len(vs)
            /\ \A i \in 1 .. Len(pss) : Spells(pss[i], vs[i])
        BY <3>1, <3>2, <3>3, <4>1
      <4>3. Spells(FlattenSeq(pss), FlattenSeq(vs))
        BY <4>2, SpellsFlat
      <4> QED
        BY <4>1, <4>3
    <3>5. Payload[u] = FlattenSeq(Encodings(node, Payload, ids))
      BY <2>2, <2>6, PayloadNow
    <3> QED
      BY <2>1, <2>5, <2>6, <3>4, <3>5 DEF PiecesOf
  <2>7. CASE node[u].type # "TLV"
    <3>1. PICK p : p = [lit |-> << >>, data |-> node[u].data]
      OBVIOUS
    <3>2. p \in Bits
      BY <1>0, <3>1 DEF Bits, Memory, Formed
    <3>3. Payload[u] = Peek(mem, node[u].data) /\ Payload[u] \in Seq(Bytes)
      BY <2>7, PayloadNow
    <3>4. Spells(Append(<< >>, p), << >> \o Spoken(p))
      BY <3>2, SpellsNone, SpellsMore
    <3>5. << >> \o Payload[u] = Payload[u]
      BY <3>3
    <3>6. Spoken(p) = Payload[u]
      BY <3>1, <3>3, <3>5 DEF Spoken
    <3>7. Append(<< >>, p) = << p >>
      OBVIOUS
    <3> QED
      BY <2>5, <2>7, <3>1, <3>4, <3>5, <3>6, <3>7 DEF PiecesOf
  <2> QED
    BY <2>6, <2>7
<1> HIDE DEF G
<1>2. Tlvs \subseteq G
  BY <1>0, <1>1, TreeInduction
<1> QED
  BY <1>2 DEF G

\* The buffer encodeAsRaw writes to, and what one turn of it does.
StartBuf(t) == IF node[t].own THEN mem[t] ELSE Padded(<< >>)
WriteNext(t, n, w) == WritePiece(t, Pieces[t][Len(Pieces[t]) - n + 1], w)

LEMMA WritingUnfolds ==
  ASSUME NEW t, NEW z, z = Len(Pieces[t]), z \in Nat
  PROVE  /\ Writing(t)[0] = [buf |-> StartBuf(t), at |-> Len(StartBuf(t))]
         /\ \A n \in 1 .. z : Writing(t)[n] = WriteNext(t, n, Writing(t)[n - 1])
<1> DEFINE r0 == [buf |-> StartBuf(t), at |-> Len(StartBuf(t))]
           e(f, n) == IF n = 0 THEN r0 ELSE WriteNext(t, n, f[n - 1])
           P(f) == f = [n \in 0 .. z |-> e(f, n)]
           Fits(f, k) == f[0] = r0 /\ \A n \in 1 .. k : f[n] = WriteNext(t, n, f[n - 1])
           G == {k \in 0 .. z : \E f : Fits(f, k)}
<1>0. Writing(t) = CHOOSE f1 : P(f1)
  <2>1. Writing(t) = CHOOSE f1 : f1 = [n \in 0 .. Len(Pieces[t]) |->
                         IF n = 0 THEN [buf |-> IF node[t].own THEN mem[t] ELSE Padded(<< >>),
                                        at |-> Len(IF node[t].own THEN mem[t] ELSE Padded(<< >>))]
                         ELSE WritePiece(t, Pieces[t][Len(Pieces[t]) - n + 1], f1[n - 1])]
    BY DEF Writing
  <2> QED
    BY <2>1 DEF WriteNext, StartBuf
<1> HIDE DEF r0
<1>1. \A f, n : e(f, n) = IF n = 0 THEN r0 ELSE WriteNext(t, n, f[n - 1])
  OBVIOUS
<1>2. \A n \in 0 .. z : n \in G
  <2>1. 0 \in G
    <3> DEFINE f == [n \in 0 .. 0 |-> r0]
    <3>1. f[0] = r0 /\ \A n \in 1 .. 0 : FALSE
      OBVIOUS
    <3> HIDE DEF f
    <3>2. Fits(f, 0)
      BY <3>1
    <3> HIDE DEF Fits
    <3> QED
      BY <3>2
  <2>2. ASSUME NEW k \in 0 .. z - 1, k \in G PROVE k + 1 \in G
    <3>1. PICK f : Fits(f, k)
      BY <2>2
    <3> DEFINE g == [n \in 0 .. k + 1 |-> IF n = k + 1 THEN WriteNext(t, k + 1, f[k]) ELSE f[n]]
    <3>2. k \in Nat /\ k + 1 \in 0 .. z
      OBVIOUS
    <3>3. g[0] = r0
      BY <3>1, <3>2
    <3>4. \A n \in 1 .. k + 1 : g[n] = WriteNext(t, n, g[n - 1])
      <4> TAKE n \in 1 .. k + 1
      <4>1. n - 1 \in 0 .. k + 1 /\ n \in 0 .. k + 1 /\ n - 1 # k + 1
        BY <3>2
      <4>2. g[n - 1] = f[n - 1]
        BY <4>1
      <4>3. CASE n = k + 1
        <5>1. n - 1 = k
          BY <3>2, <4>3
        <5>2. g[n] = WriteNext(t, n, f[k])
          BY <4>1, <4>3
        <5> QED
          BY <4>2, <5>1, <5>2
      <4>4. CASE n # k + 1
        <5>1. n \in 1 .. k
          BY <3>2, <4>4
        <5>2. g[n] = f[n]
          BY <4>1, <4>4
        <5>3. f[n] = WriteNext(t, n, f[n - 1])
          BY <3>1, <5>1
        <5> QED
          BY <4>2, <5>2, <5>3
      <4> QED
        BY <4>3, <4>4
    <3> HIDE DEF g
    <3>5. Fits(g, k + 1)
      BY <3>3, <3>4
    <3> HIDE DEF Fits
    <3> QED
      BY <3>2, <3>5
  <2> HIDE DEF G
  <2> QED
    BY <2>1, <2>2, Induction
<1>3. PICK f : Fits(f, z)
  <2>1. z \in 0 .. z
    OBVIOUS
  <2> HIDE DEF Fits
  <2> QED
    BY <1>2, <2>1
<1> DEFINE g == [n \in 0 .. z |-> f[n]]
<1> HIDE DEF e
<1>4. P(g)
  <2>1. \A n \in 0 .. z : g[n] = e(g, n)
    <3> TAKE n \in 0 .. z
    <3>1. CASE n = 0
      <4>1. e(g, n) = r0 /\ g[n] = f[n]
        BY <1>1, <3>1
      <4> QED
        BY <1>3, <3>1, <4>1
    <3>2. CASE n # 0
      <4>1. n \in 1 .. z /\ n - 1 \in 0 .. z
        BY <3>2
      <4>2. f[n] = WriteNext(t, n, f[n - 1]) /\ g[n] = f[n] /\ g[n - 1] = f[n - 1]
        BY <1>3, <4>1
      <4>3. e(g, n) = WriteNext(t, n, g[n - 1])
        BY <1>1, <3>2
      <4> QED
        BY <4>2, <4>3
    <3> QED
      BY <3>1, <3>2
  <2>2. g = [n \in 0 .. z |-> g[n]]
    OBVIOUS
  <2> HIDE DEF g
  <2> QED
    BY <2>1, <2>2
<1> HIDE DEF P
<1>6. PICK s : s = Writing(t)
  OBVIOUS
<1>7. P(s)
  BY <1>0, <1>4, <1>6
<1>8. \A n \in 0 .. z : s[n] = e(s, n)
  BY <1>7 DEF P
<1>9. s[0] = r0
  <2>1. 0 \in 0 .. z
    OBVIOUS
  <2> QED
    BY <1>1, <1>8, <2>1
<1>10. \A n \in 1 .. z : s[n] = WriteNext(t, n, s[n - 1])
  <2> TAKE n \in 1 .. z
  <2>1. n \in 0 .. z /\ n # 0
    OBVIOUS
  <2> QED
    BY <1>1, <1>8, <2>1
<1> QED
  BY <1>6, <1>9, <1>10 DEF r0

\* What comes behind the first c bytes of v is at the end of the buffer.
Filled(w, buf, v, c) ==
  /\ w.at \in Nat /\ w.at + Len(v) = Len(buf) + c
  /\ w.buf \in Seq(Cells) /\ Len(w.buf) = Len(buf)
  /\ \A i \in 1 .. Len(buf) : i <= w.at => w.buf[i] = buf[i]
  /\ \A j \in 1 .. Len(v) - c : w.buf[w.at + j] = v[c + j]

LEMMA FilledMore ==
  ASSUME NEW v \in Seq(Bytes), NEW buf \in Seq(Cells), Len(v) <= Len(buf), NEW c0 \in Nat, NEW c \in Nat, c <= Len(v),
         NEW w, Filled(w, buf, v, c), NEW x \in Seq(Bytes), c0 + Len(x) = c,
         \A i \in 1 .. Len(x) : v[c0 + i] = x[i],
         NEW at, at = w.at - Len(x), NEW r, r = [buf |-> Overwritten(w.buf, at, x), at |-> at]
  PROVE  Filled(r, buf, v, c0)
<1>1. PICK p, z, n, m : p = w.at /\ z = Len(v) /\ n = Len(buf) /\ m = Len(x)
  OBVIOUS
<1>2. z \in Nat /\ n \in Nat /\ m \in Nat /\ p \in Nat /\ p + z = n + c /\ z <= n /\ c0 + m = c /\ c <= z
  BY <1>1 DEF Filled
<1>3. at = p - m /\ at \in Nat /\ at + m = p /\ p <= n /\ at + z = n + c0
  <2>1. at = p - m
    BY <1>1
  <2>2. PICK a : a = at
    OBVIOUS
  <2>3. a = p - m
    BY <2>1, <2>2
  <2>4. a \in Nat /\ a + m = p /\ p <= n /\ a + z = n + c0
    BY <1>2, <2>3
  <2> QED
    BY <2>1, <2>2, <2>4
<1>4. PICK old, new : old = w.buf /\ new = r.buf
  OBVIOUS
<1>5. /\ old \in Seq(Cells) /\ Len(old) = n
      /\ \A i \in 1 .. n : i <= p => old[i] = buf[i]
      /\ \A j \in 1 .. z - c : old[p + j] = v[c + j]
  BY <1>1, <1>4 DEF Filled
<1>6. new = Overwritten(old, at, x) /\ r.at = at
  BY <1>4
<1>7. x \in Seq(Cells) /\ at + Len(x) <= Len(old)
  BY <1>1, <1>3, <1>5, BytesAreCells
<1>8. WroteAt(new, Cells, old, at, x)
  BY <1>3, <1>5, <1>6, <1>7, OverwrittenIs
<1>9. /\ new \in Seq(Cells) /\ Len(new) = n
      /\ \A i \in 1 .. m : new[at + i] = x[i]
      /\ \A i \in 1 .. n : i <= at \/ i > at + m => new[i] = old[i]
  BY <1>1, <1>5, <1>8 DEF WroteAt
<1>10. \A i \in 1 .. n : i <= at => new[i] = buf[i]
  <2> TAKE i \in 1 .. n
  <2> HAVE i <= at
  <2>1. i <= p
    BY <1>2, <1>3
  <2> QED
    BY <1>5, <1>9, <2>1
<1>11. ASSUME NEW j \in 1 .. z - c0 PROVE new[at + j] = v[c0 + j]
  <2>1. CASE j <= m
    <3>1. j \in 1 .. m
      BY <1>2, <2>1
    <3> QED
      BY <1>1, <1>9, <3>1
  <2>2. CASE ~(j <= m)
    <3>1. PICK k, i : k = j - m /\ i = at + j
      OBVIOUS
    <3>2. k \in 1 .. z - c /\ i \in 1 .. n /\ i > at + m /\ i = p + k /\ c + k = c0 + j
      <4>1. PICK a : a = at
        OBVIOUS
      <4>2. a \in Nat /\ a + m = p /\ a + z = n + c0 /\ i = a + j /\ j \in Nat /\ j > m
        <5>1. a \in Nat /\ a + m = p /\ a + z = n + c0 /\ i = a + j
          BY <1>3, <3>1, <4>1
        <5>2. z - c0 \in Nat
          BY <1>2
        <5>3. j \in Nat /\ j > m
          <6>1. PICK y : y = z - c0
            OBVIOUS
          <6>2. y \in Nat /\ j \in 1 .. y
            BY <5>2, <6>1
          <6> QED
            BY <1>2, <2>2, <6>2
        <5> QED
          BY <5>1, <5>3
      <4>3. k = j - m /\ j \in 1 .. z - c0
        BY <3>1
      <4>4. k \in 1 .. z - c /\ i \in 1 .. n /\ i > a + m /\ i = p + k /\ c + k = c0 + j
        BY <1>2, <4>2, <4>3
      <4> QED
        BY <4>1, <4>4
    <3>3. new[i] = old[i] /\ old[p + k] = v[c + k]
      BY <1>5, <1>9, <3>2
    <3> QED
      BY <3>1, <3>2, <3>3
  <2> QED
    BY <2>1, <2>2
<1> QED
  BY <1>1, <1>3, <1>4, <1>6, <1>9, <1>10, <1>11 DEF Filled

LEMMA PeekAlike ==
  ASSUME NEW m \in Memories, NEW k \in Memories, NEW d \in Pointers, Backed(m, d),
         Len(k[d.in]) = Len(m[d.in]), \A i \in 1 .. d.len : k[d.in][d.at + i] = m[d.in][d.at + i]
  PROVE  Peek(k, d) = Peek(m, d)
<1>1. Backed(k, d)
  BY DEF Backed
<1>2. Peek(m, d) \in Seq(Bytes) /\ Len(Peek(m, d)) = d.len /\ \A i \in 1 .. d.len : Peek(m, d)[i] = m[d.in][d.at + i]
  BY PeekIs
<1>3. Peek(k, d) \in Seq(Bytes) /\ Len(Peek(k, d)) = d.len /\ \A i \in 1 .. d.len : Peek(k, d)[i] = k[d.in][d.at + i]
  BY <1>1, PeekIs
<1>4. \A i \in 1 .. d.len : Peek(k, d)[i] = Peek(m, d)[i]
  BY <1>2, <1>3
<1> QED
  BY <1>2, <1>3, <1>4, SameSeq

LEMMA StartBufIs ==
  ASSUME MInv, Untrapped, NEW t \in Tlvs
  PROVE  /\ StartBuf(t) \in Seq(Cells) /\ (node[t].own => StartBuf(t) = mem[t])
         /\ ~node[t].own => Len(StartBuf(t)) = BufferSize
<1>1. mem \in Memories /\ t \in Regions
  BY SaysNow DEF Formed, Regions
<1>2. << >> \in Seq(Bytes) /\ Len(<< >>) = 0 /\ 0 <= BufferSize
  BY Units
<1>3. Padded(<< >>) \in Seq(Cells) /\ Len(Padded(<< >>)) = BufferSize
  BY <1>2, PaddedIs
<1> QED
  BY <1>1, <1>3 DEF StartBuf, Memories

LEMMA PieceWritten ==
  ASSUME MInv, Untrapped, NEW t \in Tlvs, NEW p \in Bits, NEW v, NEW c, NEW w, Filled(w, StartBuf(t), v, c),
         NEW at \in Nat, at = w.at - PieceLen(p), w.at <= Len(StartBuf(t)),
         p.data.in = t /\ p.data.len > 0 => p.data.at = at
  PROVE  WritePiece(t, p, w) = [buf |-> Overwritten(w.buf, at, Spoken(p)), at |-> at]
<1>1. /\ p.data \in Pointers /\ Backed(mem, p.data) /\ (p.lit = << >> \/ p.data.len = 0) /\ p.lit \in Seq(Bytes)
      /\ p.data.len > 0 => Lender(node, p.data.in)
  BY DEF Bits
<1>2. mem \in Memories /\ t \in Regions /\ t # Caller
  BY SaysNow DEF Formed, Regions, Tlvs, Caller
<1>3. PICK b, d, m : b = StartBuf(t) /\ d = p.data /\ m = [mem EXCEPT ![t] = w.buf]
  OBVIOUS
<1>4. /\ w.at \in Nat /\ w.buf \in Seq(Cells) /\ Len(w.buf) = Len(b) /\ Len(b) \in Nat
      /\ \A i \in 1 .. Len(b) : i <= w.at => w.buf[i] = b[i]
  BY <1>3, StartBufIs DEF Filled
<1>5. m \in Memories /\ m[t] = w.buf /\ \A x \in Regions : x # t => m[x] = mem[x]
  BY <1>2, <1>3, <1>4 DEF Memories
<1>6. d \in Pointers /\ Backed(mem, d)
  BY <1>1, <1>3
<1>7. Peek(m, d) = Peek(mem, d)
  <2>1. CASE d.len > 0 /\ d.in = t
    <3>1. node[t].own
      BY <1>1, <1>2, <1>3, <2>1 DEF Lender
    <3>2. b = mem[t]
      BY <1>3, <3>1, StartBufIs
    <3>3. PICK l, q, z : l = d.len /\ q = w.at /\ z = Len(b)
      OBVIOUS
    <3>4. p.lit = << >> /\ PieceLen(p) = 0 + l /\ d.at = at
      BY <1>1, <1>3, <2>1, <3>3 DEF PieceLen
    <3>5. l \in Nat /\ q \in Nat /\ z \in Nat /\ at + l = q /\ q <= z
      <4>1. l \in Nat
        BY <1>6, <3>3 DEF Pointers
      <4>2. q \in Nat /\ z \in Nat
        BY <1>4, <3>3
      <4>3. at = q - (0 + l)
        BY <3>3, <3>4
      <4>4. q <= z
        BY <1>3, <3>3
      <4> QED
        BY <4>1, <4>2, <4>3, <4>4
    <3>6. \A i \in 1 .. l : at + i \in 1 .. z /\ at + i <= q
      BY <3>5
    <3>7. \A i \in 1 .. l : w.buf[at + i] = b[at + i]
      BY <1>4, <3>3, <3>6
    <3>8. \A i \in 1 .. d.len : m[d.in][d.at + i] = mem[d.in][d.at + i]
      BY <1>5, <2>1, <3>2, <3>3, <3>4, <3>7
    <3>9. Len(m[d.in]) = Len(mem[d.in])
      BY <1>4, <1>5, <2>1, <3>2
    <3> QED
      BY <1>2, <1>5, <1>6, <3>8, <3>9, PeekAlike
  <2>2. CASE ~(d.len > 0 /\ d.in = t)
    <3>1. d.in \in Regions
      BY <1>6 DEF Pointers
    <3>2. d.len > 0 => m[d.in] = mem[d.in]
      BY <1>5, <2>2, <3>1
    <3> QED
      BY <1>2, <1>5, <1>6, <3>2, PeekSame
  <2> QED
    BY <2>1, <2>2
<1>8. Spoken(p) = p.lit \o Peek(m, d)
  BY <1>3, <1>7 DEF Spoken
<1> QED
  BY <1>3, <1>8 DEF WritePiece

\* When all pieces are written the payload is at the end of the buffer.
LEMMA AllWritten ==
  ASSUME MInv, Untrapped, NEW t \in Tlvs, NEW v, v = Payload[t], NEW buf, buf = StartBuf(t), Len(v) <= Len(buf),
         node[t].own => InPlace(t)
  PROVE  Filled(Written(t), buf, v, 0)
<1>1. PICK ps, z : ps = Pieces[t] /\ z = Len(ps)
  OBVIOUS
<1>2. PICK f : ps \in Seq(Bits) /\ Flattens(f, Spokens(ps), Bytes) /\ f[z] = v
  BY <1>1, PiecesSpell DEF Spells
<1>3. z \in Nat
  BY <1>1, <1>2
<1>4. /\ Spokens(ps) \in Seq(Seq(Bytes)) /\ Len(Spokens(ps)) = z
      /\ \A i \in 1 .. z : Spokens(ps)[i] = Spoken(ps[i]) /\ ps[i] \in Bits
  BY <1>1, <1>2, SpokensAre
<1>5. Placed(f, Spokens(ps), Bytes)
  BY <1>2, <1>4, FlattensPlaces
<1>6. /\ \A i \in 0 .. z : f[i] \in Seq(Bytes) /\ Len(f[i]) \in Nat /\ Len(f[i]) <= Len(v)
      /\ \A i \in 1 .. z : Len(f[i]) = Len(f[i - 1]) + Len(Spoken(ps[i]))
      /\ \A i \in 1 .. z : \A k \in 1 .. Len(Spoken(ps[i])) : v[Len(f[i - 1]) + k] = Spoken(ps[i])[k]
  <2>1. PICK ss : ss = Spokens(ps)
    OBVIOUS
  <2>2. Len(ss) = z /\ f[Len(ss)] = v /\ \A i \in 1 .. z : ss[i] = Spoken(ps[i])
    BY <1>2, <1>4, <2>1
  <2>3. /\ \A i \in 0 .. z : f[i] \in Seq(Bytes) /\ Len(f[i]) \in Nat
        /\ \A i \in 1 .. z : Len(f[i]) = Len(f[i - 1]) + Len(ss[i])
        /\ \A i \in 0 .. z : Len(f[i]) <= Len(f[Len(ss)])
        /\ \A i \in 1 .. z : \A k \in 1 .. Len(ss[i]) : f[Len(ss)][Len(f[i - 1]) + k] = ss[i][k]
    BY <1>5, <2>1, <2>2 DEF Placed
  <2>4. \A i \in 0 .. z : f[i] \in Seq(Bytes) /\ Len(f[i]) \in Nat /\ Len(f[i]) <= Len(v)
    BY <2>2, <2>3
  <2>5. \A i \in 1 .. z : Len(f[i]) = Len(f[i - 1]) + Len(Spoken(ps[i]))
    BY <2>2, <2>3
  <2>6. ASSUME NEW i \in 1 .. z, NEW k \in 1 .. Len(Spoken(ps[i]))
        PROVE  v[Len(f[i - 1]) + k] = Spoken(ps[i])[k]
    <3>1. ss[i] = Spoken(ps[i]) /\ k \in 1 .. Len(ss[i])
      BY <2>2
    <3>2. f[Len(ss)][Len(f[i - 1]) + k] = ss[i][k]
      BY <2>3, <3>1
    <3> QED
      BY <2>2, <3>1, <3>2
  <2> QED
    BY <2>4, <2>5, <2>6
<1>7. v \in Seq(Bytes) /\ buf \in Seq(Cells) /\ Len(v) \in Nat /\ Len(buf) \in Nat
  <2>1. z \in 0 .. z
    BY <1>3
  <2>2. v \in Seq(Bytes)
    BY <1>2, <1>6, <2>1
  <2> QED
    BY <2>2, StartBufIs
<1>8. /\ Writing(t)[0] = [buf |-> buf, at |-> Len(buf)]
      /\ \A n \in 1 .. z : Writing(t)[n] = WriteNext(t, n, Writing(t)[n - 1])
  BY <1>1, <1>3, WritingUnfolds
<1> DEFINE G == {n \in 0 .. z : Filled(Writing(t)[n], buf, v, Len(f[z - n]))}
<1>9. 0 \in G
  <2>1. z - 0 = z /\ 0 \in 0 .. z
    BY <1>3
  <2>2. PICK w : w = Writing(t)[0]
    OBVIOUS
  <2>3. w.buf = buf /\ w.at = Len(buf)
    BY <1>8, <2>2
  <2>4. \A j \in 1 .. Len(v) - Len(v) : FALSE
    BY <1>7
  <2>5. Len(buf) <= Len(buf) /\ Len(buf) + Len(v) = Len(buf) + Len(v)
    BY <1>7
  <2>6. Filled(w, buf, v, Len(v))
    BY <1>7, <2>3, <2>4, <2>5 DEF Filled
  <2> QED
    BY <1>2, <2>1, <2>2, <2>6
<1>10. ASSUME NEW n \in 0 .. z - 1, n \in G PROVE n + 1 \in G
  <2>1. PICK h, k : h = n + 1 /\ k = z - n
    OBVIOUS
  <2>2. /\ h \in 1 .. z /\ h - 1 = n /\ h \in 0 .. z /\ k \in 1 .. z /\ k \in 0 .. z /\ k - 1 \in 0 .. z
        /\ z - h = k - 1 /\ z - h + 1 = k
    BY <1>3, <2>1
  <2>3. PICK p, w, x, c, c0 : p = ps[k] /\ w = Writing(t)[n] /\ x = Spoken(p) /\ c = Len(f[k]) /\ c0 = Len(f[k - 1])
    OBVIOUS
  <2>4. Filled(w, buf, v, c)
    BY <1>10, <2>1, <2>3
  <2>5. p \in Bits /\ x \in Seq(Bytes) /\ Len(x) = PieceLen(p) /\ PieceLen(p) \in Nat
    BY <1>4, <2>2, <2>3, SpokenIs
  <2>6. c \in Nat /\ c0 \in Nat /\ c <= Len(v) /\ c0 + Len(x) = c /\ \A i \in 1 .. Len(x) : v[c0 + i] = x[i]
    BY <1>6, <2>2, <2>3
  <2>7. PICK at : at = w.at - Len(x)
    OBVIOUS
  <2>8. w.at \in Nat /\ w.at <= Len(buf) /\ at \in Nat
    <3>1. PICK q, y, b, m : q = w.at /\ y = Len(v) /\ b = Len(buf) /\ m = Len(x)
      OBVIOUS
    <3>2. q \in Nat /\ q + y = b + c
      BY <2>4, <3>1 DEF Filled
    <3>3. y \in Nat /\ b \in Nat /\ y <= b /\ m \in Nat /\ c0 + m = c /\ c <= y
      BY <1>7, <2>5, <2>6, <3>1
    <3>4. q <= b /\ q - m \in Nat
      BY <2>6, <3>2, <3>3
    <3> QED
      BY <2>7, <3>1, <3>2, <3>4
  <2>9. Writing(t)[h] = WritePiece(t, p, w)
    <3>1. Writing(t)[h] = WriteNext(t, h, Writing(t)[h - 1])
      BY <1>8, <2>2
    <3> QED
      BY <1>1, <2>2, <2>3, <3>1 DEF WriteNext
  <2>10. (WritePiece(t, p, w)).at = at
    BY <2>5, <2>7 DEF WritePiece
  <2>11. ASSUME p.data.in = t, p.data.len > 0 PROVE p.data.at = at
    <3>1. node[t].own
      BY <2>5, <2>11 DEF Bits, Lender, Tlvs, Caller
    <3>2. InPlace(t)
      BY <3>1
    <3>3. h \in DOMAIN ps
      BY <1>1, <1>2, <2>2
    <3>4. LET d == ps[Len(ps) - h + 1].data
          IN d.in = t /\ d.len > 0 => d.at = Writing(t)[h].at
      BY <1>1, <3>2, <3>3 DEF InPlace
    <3>5. ps[Len(ps) - h + 1] = p
      BY <1>1, <2>2, <2>3
    <3> QED
      BY <2>9, <2>10, <2>11, <3>4, <3>5
  <2>12. WritePiece(t, p, w) = [buf |-> Overwritten(w.buf, at, x), at |-> at]
    <3>1. Filled(w, StartBuf(t), v, c) /\ at = w.at - PieceLen(p) /\ w.at <= Len(StartBuf(t))
      BY <2>4, <2>5, <2>7, <2>8
    <3> QED
      BY <2>3, <2>5, <2>8, <2>11, <3>1, PieceWritten
  <2>13. PICK r : r = [buf |-> Overwritten(w.buf, at, x), at |-> at]
    OBVIOUS
  <2>14. Filled(r, buf, v, c0)
    BY <1>7, <2>4, <2>5, <2>6, <2>7, <2>13, FilledMore
  <2>15. Filled(Writing(t)[h], buf, v, Len(f[z - h]))
    BY <2>2, <2>3, <2>9, <2>12, <2>13, <2>14
  <2> QED
    BY <2>1, <2>2, <2>15
<1> HIDE DEF G
<1>11. \A n \in 0 .. z : n \in G
  BY <1>3, <1>9, <1>10, Induction
<1>12. z \in G
  BY <1>3, <1>11
<1>13. z - z = 0
  BY <1>3
<1>14. f[0] = << >>
  BY <1>2, <1>4 DEF Flattens
<1>15. Len(f[0]) = 0
  BY <1>14
<1> QED
  BY <1>1, <1>12, <1>13, <1>15 DEF G, Written

\* Then it is moved to the beginning.
LEMMA RawBufferIs ==
  ASSUME MInv, Untrapped, NEW t \in Tlvs, NEW v, v = Payload[t], NEW buf, buf = StartBuf(t), Len(v) <= Len(buf),
         node[t].own => InPlace(t)
  PROVE  /\ RawBuffer(t) \in Seq(Cells) /\ Len(RawBuffer(t)) = Len(buf)
         /\ \A i \in 1 .. Len(v) : RawBuffer(t)[i] = v[i]
<1>1. PICK w : w = Written(t)
  OBVIOUS
<1>2. Filled(w, buf, v, 0)
  BY <1>1, AllWritten
<1>3. v \in Seq(Bytes) /\ buf \in Seq(Cells)
  BY PayloadNow, StartBufIs
<1>4. PICK q, z, n, s : q = w.at /\ z = Len(v) /\ n = Len(buf) /\ s = w.buf
  OBVIOUS
<1>5. /\ z \in Nat /\ n \in Nat /\ q \in Nat /\ q + z = n + 0 /\ s \in Seq(Cells) /\ Len(s) = n
      /\ \A j \in 1 .. z - 0 : s[q + j] = v[0 + j]
  BY <1>2, <1>3, <1>4 DEF Filled
<1>6. q + z = n /\ \A j \in 1 .. z : s[q + j] = v[j]
  BY <1>3, <1>4, <1>5
<1>7. PICK x : x = SubSeq(s, q + 1, n)
  OBVIOUS
<1>8. x \in Seq(Cells) /\ Len(x) = z /\ \A j \in 1 .. z : x[j] = s[q + j]
  <2>1. q + z <= Len(s) /\ x = SubSeq(s, q + 1, q + z)
    <3>1. n <= n
      BY <1>5
    <3> QED
      BY <1>5, <1>6, <1>7, <3>1
  <2> QED
    BY <1>5, <2>1, CutIs
<1>9. RawBuffer(t) = Overwritten(s, 0, x)
  BY <1>1, <1>4, <1>5, <1>7 DEF RawBuffer
<1>10. PICK r : r = RawBuffer(t)
  OBVIOUS
<1>11. WroteAt(r, Cells, s, 0, x)
  <2>1. 0 + Len(x) <= Len(s) /\ 0 \in Nat
    BY <1>5, <1>6, <1>8
  <2> QED
    BY <1>5, <1>8, <1>9, <1>10, <2>1, OverwrittenIs
<1>12. r \in Seq(Cells) /\ Len(r) = n /\ \A i \in 1 .. z : r[0 + i] = x[i]
  BY <1>5, <1>8, <1>11 DEF WroteAt
<1>13. \A i \in 1 .. z : r[i] = v[i]
  <2> TAKE i \in 1 .. z
  <2>1. 0 + i = i
    BY <1>5
  <2> QED
    BY <1>6, <1>8, <1>12, <2>1
<1> QED
  BY <1>4, <1>10, <1>12, <1>13

\* t says what it said, as raw bytes.
Recoded(t) ==
  node'[t].refs > 0 =>
    /\ node'[t].tag = node[t].tag /\ node'[t].flags = node[t].flags /\ node'[t].type = "RAW"
    /\ Peek(mem', node'[t].data) = Payload[t]

LEMMA RecastKeeps ==
  ASSUME MInv, Untrapped, IInv', trap' = "none", NEW t \in Alive, NEW v, v = Payload[t],
         NEW ms, ms = [node EXCEPT ![t] = AsRaw(node[t], TRUE, [in |-> t, at |-> 0, len |-> Len(v)])],
         NEW m, m = [mem EXCEPT ![t] = RawBuffer(t)], Len(v) <= Len(StartBuf(t)),
         node[t].own => InPlace(t) /\ ~Lent(node', t),
         node' = Freed(ms, Children(t)), mem' = Unmapped(m, node'), ~Outlived(node')
  PROVE  Orderly(t) /\ Recoded(t)
<1>1. PICK ns, o : ns = node' /\ o = AsRaw(node[t], TRUE, [in |-> t, at |-> 0, len |-> Len(v)])
  OBVIOUS
<1>2. /\ IInv /\ Objects(node) /\ Memory(node, mem) /\ Formed(node, mem) /\ mem \in Memories
      /\ t \in Tlvs /\ t \in Regions /\ t # Caller /\ node[t].refs > 0
  BY SaysNow DEF Formed, Alive, Live, Regions, Tlvs, Caller
<1>3. v \in Seq(Bytes) /\ Len(v) \in Nat
  BY <1>2, PayloadNow
<1>4. /\ node = [u \in Tlvs |-> node[u]] /\ \A u \in Tlvs : Sound(node[u]) /\ node[u].refs \in Nat
  BY <1>2 DEF Objects, Sound
<1>5. /\ Sound(o) /\ o.refs = node[t].refs /\ o.nested = NewList /\ o.tag = node[t].tag /\ o.flags = node[t].flags
      /\ o.type = "RAW" /\ o.own /\ o.data = [in |-> t, at |-> 0, len |-> Len(v)]
  <2>1. Sound(node[t])
    BY <1>2, <1>4
  <2>2. PICK r, d : r = node[t] /\ d = [in |-> t, at |-> 0, len |-> Len(v)]
    OBVIOUS
  <2>3. Sound(r)
    BY <2>1, <2>2
  <2>4. Sound(AsRaw(r, TRUE, d)) /\ AsRaw(r, TRUE, d).refs = r.refs /\ AsRaw(r, TRUE, d).nested = NewList
    BY <2>3, Flattened, ZenonT(60)
  <2>5. /\ AsRaw(r, TRUE, d).tag = r.tag /\ AsRaw(r, TRUE, d).flags = r.flags
        /\ AsRaw(r, TRUE, d).type = "RAW" /\ AsRaw(r, TRUE, d).own /\ AsRaw(r, TRUE, d).data = d
    BY <2>3 DEF Sound, Shaped, AsRaw
  <2> QED
    BY <1>1, <2>2, <2>4, <2>5
<1>6. /\ ms = [u \in Tlvs |-> ms[u]] /\ ms[t] = o /\ \A u \in Tlvs : u # t => ms[u] = node[u]
  BY <1>1, <1>2, <1>4
<1>7. Objects(ms)
  <2>1. \A u \in Tlvs : Sound(ms[u])
    BY <1>4, <1>5, <1>6
  <2> QED
    BY <1>6, <2>1 DEF Objects
<1>8. \A u \in Tlvs : ms[u].refs = 0 => ms[u] = Gone
  <2>1. ms[t].refs # 0
    <3>1. PICK k : k = node[t].refs
      OBVIOUS
    <3>2. k > 0 /\ k # 0
      BY <1>2, <1>4, <3>1
    <3>3. ms[t] = o /\ o.refs = node[t].refs
      BY <1>5, <1>6
    <3> QED
      BY <3>1, <3>2, <3>3
  <2>2. \A u \in Tlvs : node[u].refs = 0 => node[u] = Gone
    BY <1>2 DEF Memory
  <2> QED
    BY <1>6, <2>1, <2>2
<1>9. Children(t) \in Seq(Tlvs)
  BY <1>2, Listing
<1>10. Objects(ns)
  <2>1. Untrapped' /\ Good(node', held', used')
    BY DEF IInv, Untrapped
  <2> QED
    BY <1>1, <2>1 DEF Good
<1>11. Bodies(ns, ms) /\ \A u \in Tlvs : ns[u].refs > 0 => ns[u].nested = ms[u].nested
  <2>1. PICK ts \in Seq(Tlvs) : ts = Children(t)
    BY <1>9
  <2>2. ns = Freed(ms, ts) /\ Objects(Freed(ms, ts))
    BY <1>1, <1>10, <2>1
  <2>3. /\ Bodies(Freed(ms, ts), ms)
        /\ \A u \in Tlvs : Freed(ms, ts)[u].refs > 0 => Freed(ms, ts)[u].nested = ms[u].nested
    BY <1>7, <1>8, <2>2, FreedBodies, ZenonT(40)
  <2> QED
    BY <2>2, <2>3
<1>12. PICK w : w = RawBuffer(t)
  OBVIOUS
<1>13. w \in Seq(Cells) /\ Len(w) = Len(StartBuf(t)) /\ \A i \in 1 .. Len(v) : w[i] = v[i]
  BY <1>2, <1>12, RawBufferIs
<1>14. m \in Memories /\ m[t] = w /\ \A x \in Regions : x # t => m[x] = mem[x]
  BY <1>2, <1>12, <1>13 DEF Memories
<1>15. PICK d : d = [in |-> t, at |-> 0, len |-> Len(v)]
  OBVIOUS
<1>16. d.in = t /\ d.at = 0 /\ d.len = Len(v) /\ d \in Pointers
  BY <1>2, <1>3, <1>15 DEF Pointers
<1>17. Backed(m, d) /\ Peek(m, d) = v
  <2>1. PICK z, n : z = Len(v) /\ n = Len(w)
    OBVIOUS
  <2>2. z \in Nat /\ n \in Nat /\ 0 + z <= n
    BY <1>3, <1>13, <2>1
  <2>3. \A i \in 1 .. z : w[0 + i] = v[i] /\ v[i] \in Bytes
    <3> TAKE i \in 1 .. z
    <3>1. 0 + i = i
      BY <2>2
    <3> QED
      BY <1>3, <1>13, <2>1, <3>1
  <2>4. Backed(m, d)
    BY <1>14, <1>16, <2>1, <2>2, <2>3 DEF Backed
  <2>5. Peek(m, d) \in Seq(Bytes) /\ Len(Peek(m, d)) = d.len /\ \A i \in 1 .. d.len : Peek(m, d)[i] = m[d.in][d.at + i]
    BY <1>14, <1>16, <2>4, PeekIs
  <2>6. \A i \in 1 .. Len(v) : Peek(m, d)[i] = v[i]
    <3> TAKE i \in 1 .. Len(v)
    <3>1. i \in 1 .. z /\ 0 + i = i /\ i \in 1 .. d.len
      BY <1>16, <2>1, <2>2
    <3>2. Peek(m, d)[i] = m[d.in][d.at + i]
      BY <2>5, <3>1
    <3>3. m[d.in][d.at + i] = w[0 + i]
      BY <1>14, <1>16
    <3>4. w[0 + i] = v[i]
      BY <2>3, <3>1
    <3> QED
      BY <3>2, <3>3, <3>4
  <2>7. Peek(m, d) = v
    <3>1. PICK p : p = Peek(m, d)
      OBVIOUS
    <3>2. p \in Seq(Bytes) /\ v \in Seq(Bytes) /\ Len(p) = Len(v)
      BY <1>3, <1>16, <2>5, <3>1
    <3>3. \A i \in 1 .. Len(p) : p[i] = v[i]
      BY <2>6, <3>1, <3>2
    <3> QED
      BY <3>1, <3>2, <3>3, SameSeq
  <2> QED
    BY <2>4, <2>7
\* Whoever else is left points somewhere else.
<1>18. ASSUME NEW u \in Tlvs, u # t, ns[u] # Gone
       PROVE  /\ SameBody(ns[u], node[u]) /\ ns[u].refs > 0
              /\ ns[u].data.len > 0 => Lender(node, ns[u].data.in) /\ ns[u].data.in # t
              /\ Backed(m, ns[u].data) /\ Peek(m, ns[u].data) = Peek(mem, node[u].data) /\ ns[u].data \in Pointers
  <2>1. SameBody(ns[u], node[u]) /\ ns[u].refs > 0
    BY <1>6, <1>11, <1>18 DEF Bodies
  <2>2. ns[u].data = node[u].data
    BY <2>1 DEF SameBody
  <2>3. PICK e : e = node[u].data
    OBVIOUS
  <2>4. e \in Pointers /\ Backed(mem, e) /\ (e.len > 0 => Lender(node, e.in))
    BY <1>2, <2>3 DEF Memory, Formed
  <2>5. e.len > 0 => e.in # t
    <3> SUFFICES ASSUME e.len > 0, e.in = t PROVE FALSE
      OBVIOUS
    <3>1. node[t].own
      BY <1>2, <2>4 DEF Lender
    <3>2. ~Lent(ns, t)
      BY <1>1, <3>1
    <3>3. u \in Tlvs \ {t} /\ ns[u].refs > 0 /\ ns[u].data.len > 0 /\ ns[u].data.in = t
      BY <1>18, <2>1, <2>2, <2>3
    <3> QED
      BY <3>2, <3>3 DEF Lent
  <2>6. e.len > 0 => m[e.in] = mem[e.in]
    BY <1>14, <2>4, <2>5 DEF Pointers
  <2>7. Peek(m, e) = Peek(mem, e) /\ Backed(m, e)
    BY <1>2, <1>14, <2>4, <2>6, PeekSame
  <2> QED
    BY <2>1, <2>2, <2>3, <2>4, <2>5, <2>7
<1>19. ns[t] # Gone => SameBody(ns[t], o) /\ ns[t].refs > 0
  BY <1>2, <1>6, <1>11 DEF Bodies
<1>20. Formed(ns, m)
  <2>1. ASSUME NEW u \in Tlvs
        PROVE  /\ ns[u].tag \in 0 .. TypeSpan * Byte - 1 /\ ns[u].flags \in 0 .. 3
               /\ ns[u].data \in Pointers /\ Backed(m, ns[u].data)
    <3>1. CASE ns[u] = Gone
      BY <3>1, GoneIs
    <3>2. CASE ns[u] # Gone /\ u # t
      BY <1>2, <1>18, <3>2 DEF Formed, SameBody
    <3>3. CASE ns[u] # Gone /\ u = t
      BY <1>2, <1>5, <1>15, <1>16, <1>17, <1>19, <3>3 DEF Formed, SameBody
    <3> QED
      BY <3>1, <3>2, <3>3
  <2> QED
    BY <1>14, <2>1 DEF Formed
<1>21. ASSUME NEW u \in Tlvs
       PROVE  /\ ns[u].refs \in Nat /\ (ns[u].refs = 0 => ns[u] = Gone)
              /\ ns[u].own => ns[u].data.in = u
              /\ ns[u].data.len > 0 =>
                   Lender(ns, ns[u].data.in) \/ (ns[u].data.in \in Alive /\ ns[ns[u].data.in].refs = 0)
  <2>1. CASE ns[u] = Gone
    BY <2>1, GoneIs
  <2>2. CASE ns[u] # Gone /\ u = t
    <3>1. ns[u].refs \in Nat /\ ns[u].refs > 0
      BY <1>10, <1>19, <2>2 DEF Objects, Sound
    <3>2. ns[u].own /\ ns[u].data.in = t
      BY <1>5, <1>15, <1>16, <1>19, <2>2 DEF SameBody
    <3> QED
      BY <2>2, <3>1, <3>2 DEF Lender
  <2>3. CASE ns[u] # Gone /\ u # t
    <3>1. SameBody(ns[u], node[u]) /\ ns[u].refs > 0 /\ ns[u].refs \in Nat
      BY <1>10, <1>18, <2>3 DEF Objects, Sound
    <3>2. ns[u].own => ns[u].data.in = u
      BY <1>2, <3>1 DEF Memory, SameBody
    <3>3. ASSUME ns[u].data.len > 0
          PROVE  Lender(ns, ns[u].data.in) \/ (ns[u].data.in \in Alive /\ ns[ns[u].data.in].refs = 0)
      <4>1. PICK x : x = ns[u].data.in
        OBVIOUS
      <4>2. Lender(node, x) /\ x # t
        BY <1>18, <2>3, <3>3, <4>1
      <4>3. CASE x = Caller
        BY <4>1, <4>3 DEF Lender
      <4>4. CASE x \in Tlvs /\ node[x].refs > 0 /\ node[x].own
        <5>1. x \in Alive
          BY <4>4 DEF Alive, Live
        <5>2. CASE ns[x] = Gone
          BY <4>1, <5>1, <5>2, GoneIs
        <5>3. CASE ns[x] # Gone
          <6>1. ns[x].refs > 0 /\ ns[x].own
            BY <1>18, <4>2, <4>4, <5>3 DEF SameBody
          <6> QED
            BY <4>1, <4>4, <6>1 DEF Lender
        <5> QED
          BY <5>2, <5>3
      <4> QED
        BY <4>2, <4>3, <4>4 DEF Lender
    <3> QED
      BY <3>1, <3>2, <3>3
  <2> QED
    BY <2>1, <2>2, <2>3
<1>22. m[Caller] = Shared
  <2>1. Caller \in Regions
    BY DEF Regions
  <2> QED
    BY <1>2, <1>14, <2>1 DEF Memory
<1>23. Drawn(ns, m)
  BY <1>20, <1>21, <1>22 DEF Drawn
<1>24. /\ Memory(node', mem')
       /\ \A u \in Tlvs : Peek(mem', ns[u].data) = Peek(m, ns[u].data)
  BY <1>1, <1>23, UnmappedKeeps
<1>25. Undisturbed(t)
  <2> SUFFICES ASSUME NEW u \in Alive, ns[u].refs > 0, u # t
               PROVE  /\ ns[u].tag = node[u].tag /\ ns[u].flags = node[u].flags /\ ns[u].type = node[u].type
                      /\ Elements(ns[u].nested) = Elements(node[u].nested)
                      /\ Peek(mem', ns[u].data) = Peek(mem, node[u].data)
    BY <1>1 DEF Undisturbed
  <2>1. u \in Tlvs /\ ns[u] # Gone
    BY GoneIs DEF Alive
  <2>2. SameBody(ns[u], node[u]) /\ Peek(m, ns[u].data) = Peek(mem, node[u].data)
    BY <1>18, <2>1
  <2>3. ns[u].nested = node[u].nested
    BY <1>6, <1>11, <2>1
  <2> QED
    BY <1>24, <2>1, <2>2, <2>3 DEF SameBody
<1>26. Recoded(t)
  <2> SUFFICES ASSUME ns[t].refs > 0
               PROVE  /\ ns[t].tag = node[t].tag /\ ns[t].flags = node[t].flags /\ ns[t].type = "RAW"
                      /\ Peek(mem', ns[t].data) = v
    BY <1>1 DEF Recoded
  <2>1. SameBody(ns[t], o)
    BY <1>19, GoneIs
  <2> QED
    BY <1>2, <1>5, <1>15, <1>17, <1>24, <2>1 DEF SameBody
<1> QED
  BY <1>24, <1>25, <1>26 DEF Orderly

LEMMA CastRawKeeps ==
  ASSUME MInv, Untrapped, IInv', NEW t \in Alive, CastRaw(t), trap' = "none"
  PROVE  Orderly(t) /\ (Recoded(t) \/ UNCHANGED <<node, mem>>)
<1> DEFINE size == IF node[t].own THEN Len(mem[t]) ELSE BufferSize
           fits == Encodable(t) /\ Len(Payload[t]) <= size
<1>1. CASE ~fits
  <2>1. UNCHANGED <<node, mem>>
    BY <1>1 DEF CastRaw, Recast
  <2> QED
    BY <2>1, UnchangedKeeps
<1>2. CASE fits
  <2>1. PICK v : v = Payload[t]
    OBVIOUS
  <2>2. PICK ms, m : /\ ms = [node EXCEPT ![t] = AsRaw(node[t], TRUE, [in |-> t, at |-> 0, len |-> Len(v)])]
                     /\ m = [mem EXCEPT ![t] = RawBuffer(t)]
    OBVIOUS
  <2>3. /\ node' = Freed(ms, Children(t)) /\ mem' = Unmapped(m, node')
        /\ trap' = IF node[t].own /\ (~InPlace(t) \/ Lent(node', t)) THEN "recast"
                   ELSE IF \E u \in Alive : node'[u].refs = 0 /\ Lent(node', u) THEN "outlived" ELSE "none"
    BY <1>2, <2>1, <2>2 DEF CastRaw, Recast, AsRaw
  <2>4. (node[t].own => InPlace(t) /\ ~Lent(node', t)) /\ ~Outlived(node')
    BY <2>3 DEF Outlived
  <2>5. Len(v) <= Len(StartBuf(t))
    <3>1. t \in Tlvs
      BY DEF Alive
    <3>2. size = Len(StartBuf(t))
      BY <3>1, StartBufIs
    <3> QED
      BY <1>2, <2>1, <3>2
  <2>6. Orderly(t) /\ Recoded(t)
    BY <2>1, <2>2, <2>3, <2>4, <2>5, RecastKeeps
  <2> QED
    BY <2>6
<1> QED
  BY <1>1, <1>2

\* What p says may change by a call that is there to change it.
Spares(p) ==
  p \in Alive /\ node'[p].refs > 0 =>
    \/ Rewriting(call'.op, call'.at) /\ call'.at = p
    \/ /\ node'[p].tag = node[p].tag /\ node'[p].flags = node[p].flags
       /\ PayloadIn(node', mem')[p] = Payload[p]

LEMMA SpareCaller ==
  Spares(Caller)
BY DEF Spares, Alive, Tlvs, Caller

LEMMA SpareUnchanged ==
  ASSUME UNCHANGED <<node, mem>>, NEW p
  PROVE  Spares(p)
BY DEF Spares, Payload

LEMMA SpareMutated ==
  ASSUME NEW op \in Mutators, NEW p, NEW pos, NEW arg, Called(op, p, pos, arg), trap' = "none"
  PROVE  Spares(p)
BY DEF Spares, Called, Rewriting

\* What the objects are after a call says what they say then.
LEMMA SaysThen ==
  ASSUME IInv', trap' = "none", NEW p, Orderly(p)
  PROVE  /\ Objects(node') /\ Acyclic(node') /\ Formed(node', mem')
         /\ Says(PayloadIn(node', mem'), node', mem')
         /\ held' \in [Tlvs -> Nat] /\ used' \in Nat /\ Good(node', held', used')
<1>1. /\ TypeOK' /\ Good(node', held', used')
  BY DEF IInv, Untrapped
<1>2. Objects(node') /\ Acyclic(node')
  BY <1>1 DEF Good
<1>3. Formed(node', mem')
  BY DEF Orderly, Memory
<1>4. Says(PayloadIn(node', mem'), node', mem')
  BY <1>2, <1>3, PayloadIs
<1>5. held' \in [Tlvs -> Nat] /\ used' \in 0 .. MaxTlvs
  BY <1>1 DEF TypeOK
<1> QED
  BY <1>1, <1>2, <1>3, <1>4, <1>5, TlvAssumption

LEMMA SpareRecoded ==
  ASSUME IInv', trap' = "none", NEW t \in Alive, Orderly(t), Recoded(t)
  PROVE  Spares(t)
<1> SUFFICES ASSUME node'[t].refs > 0
             PROVE  node'[t].tag = node[t].tag /\ node'[t].flags = node[t].flags /\ PayloadIn(node', mem')[t] = Payload[t]
  BY DEF Spares
<1>1. PICK f, ns, m : f = PayloadIn(node', mem') /\ ns = node' /\ m = mem'
  OBVIOUS
<1>2. Says(f, ns, m) /\ t \in Tlvs
  BY <1>1, SaysThen DEF Alive
<1>3. /\ ns[t].tag = node[t].tag /\ ns[t].flags = node[t].flags /\ ns[t].type = "RAW"
      /\ Peek(m, ns[t].data) = Payload[t]
  BY <1>1 DEF Recoded
<1>4. f[t] = Peek(m, ns[t].data)
  BY <1>2, <1>3 DEF Says, Saying
<1> QED
  BY <1>1, <1>3, <1>4

\* Expanding bytes with no header longer than serializeTlv makes it says the same bytes.
LEMMA ExpandedSays ==
  ASSUME NEW es, NEW ns, NEW m, NEW t \in Tlvs, NEW n \in Nat, NEW b \in Seq(Bytes), NEW starts,
         Walk(b, starts, Len(b)), Len(starts) \in Nat, starts = Split(b), Shortest(b), Sound(ns[t]),
         Expands(es, ns, m, t, n, b, starts),
         NEW k, NEW f, Says(f, es, k), Formed(es, k),
         \A u \in Tlvs : Peek(k, es[u].data) = Peek(m, es[u].data)
  PROVE  f[t] = b
<1>1. PICK z : z = Len(starts)
  OBVIOUS
<1>2. /\ \A i \in 1 .. z : n + i \in Tlvs /\ ReadOut(es[n + i], m, ns[t].data, b, starts[i])
      /\ es[t] = [ns[t] EXCEPT !.type = "TLV", !.nested = ListOf(NewOnes(n, z))]
  BY <1>1 DEF Expands
<1>3. es[t].type = "TLV" /\ es[t].nested = ListOf(NewOnes(n, z))
  BY <1>2 DEF Sound, Shaped
<1>4. PICK ids : ids = NewOnes(n, z)
  OBVIOUS
<1>5. ids \in Seq(Tlvs) /\ Len(ids) = z /\ \A i \in 1 .. z : ids[i] = n + i
  <2>1. \A i \in 1 .. z : n + 1 + i - 1 = n + i
    OBVIOUS
  <2> QED
    BY <1>1, <1>2, <1>4, <2>1 DEF NewOnes
<1>6. Elements(es[t].nested) = ids
  BY <1>3, <1>4, <1>5, ListOfIs
<1>7. PICK ss : ss = Encodings(es, f, ids)
  OBVIOUS
<1>8. f[t] = FlattenSeq(ss)
  BY <1>3, <1>6, <1>7 DEF Says, Saying
<1>9. ss \in Seq(Seq(Bytes)) /\ Len(ss) = Len(starts)
  <2>1. \A c \in ToSet(ids) : f[c] \in Seq(Bytes)
    BY <1>5 DEF Says, ToSet
  <2> QED
    BY <1>1, <1>5, <1>7, <2>1, EncodingsAre
<1>10. ASSUME NEW i \in 1 .. Len(starts)
       PROVE  ss[i] = SubSeq(b, starts[i] + 1, After(b, starts[i]))
  <2>1. PICK c, s : c = ids[i] /\ s = starts[i]
    OBVIOUS
  <2>2. PICK h : h = ReadAt(b, s)
    OBVIOUS
  <2>3. c = n + i /\ c \in Tlvs /\ ReadOut(es[c], m, ns[t].data, b, s)
    BY <1>1, <1>2, <1>5, <2>1
  <2>4. /\ es[c].tag = h.tag /\ es[c].flags = h.flags /\ es[c].type = "RAW"
        /\ Peek(m, es[c].data) = SubSeq(b, s + h.size + 1, s + h.size + h.len)
    BY <2>2, <2>3 DEF ReadOut
  <2>5. f[c] = SubSeq(b, s + h.size + 1, s + h.size + h.len)
    <3>1. f[c] = Peek(k, es[c].data)
      BY <2>3, <2>4 DEF Says, Saying
    <3> QED
      BY <2>3, <2>4, <3>1
  <2>6. ss[i] = Header(h.tag, h.flags, Len(f[c])) \o f[c]
    BY <1>1, <1>5, <1>7, <2>1, <2>4 DEF Encodings, Encoding
  <2>7. s \in 0 .. Len(b) /\ h.size > 0
    BY <2>1, <2>2 DEF Walk
  <2>8. h.size = Len(Header(h.tag, h.flags, h.len))
    <3>1. starts # << -1 >>
      BY SplitFollows
    <3>2. i \in DOMAIN starts
      BY DEF Walk
    <3>3. h = ReadFirst(SubSeq(b, starts[i] + 1, Len(b)))
      BY <2>1, <2>2 DEF ReadAt
    <3> QED
      BY <3>1, <3>2, <3>3 DEF Shortest
  <2>9. PICK w : w = SubSeq(b, s + h.size + 1, s + h.size + h.len)
    OBVIOUS
  <2>10. Header(h.tag, h.flags, h.len) \o w = SubSeq(b, s + 1, After(b, s)) /\ Len(w) = h.len
    BY <2>2, <2>7, <2>8, <2>9, ReadIsEncoded
  <2> QED
    BY <2>1, <2>5, <2>6, <2>9, <2>10
<1> QED
  BY <1>8, <1>9, <1>10, Refilled

LEMMA SpareOpened ==
  ASSUME MInv, Untrapped, IInv', trap' = "none", NEW t \in Alive, Orderly(t), Opened(t), node[t].type # "TLV"
  PROVE  Spares(t)
<1>1. PICK b, starts :
        /\ b = Peek(mem, node[t].data) /\ starts = Split(b) /\ b \in Seq(Bytes)
        /\ Walk(b, starts, Len(b)) /\ Len(starts) \in Nat
        /\ Expands(node', node, mem, t, used, b, starts) /\ call'.op = "castTlv" /\ call'.at = t
        /\ \A u \in Tlvs : Peek(mem', node'[u].data) = Peek(mem, node'[u].data)
  BY DEF Opened
<1>2. CASE ~Shortest(b)
  BY <1>1, <1>2 DEF Spares, Rewriting
<1>3. CASE Shortest(b)
  <2>1. PICK f, es, k, n : f = PayloadIn(node', mem') /\ es = node' /\ k = mem' /\ n = used
    OBVIOUS
  <2>2. Says(f, es, k) /\ Formed(es, k) /\ t \in Tlvs
    BY <2>1, SaysThen DEF Alive
  <2>3. IInv /\ Sound(node[t]) /\ n \in Nat
    BY <2>1, SaysNow, Now DEF Alive, Objects
  <2>4. f[t] = b
    BY <1>1, <1>3, <2>1, <2>2, <2>3, ExpandedSays
  <2>5. Payload[t] = b
    BY <1>1, <2>2, PayloadNow
  <2>6. node'[t].tag = node[t].tag /\ node'[t].flags = node[t].flags
    BY <1>1, <2>3 DEF Expands, Sound, Shaped
  <2> QED
    BY <2>1, <2>4, <2>5, <2>6 DEF Spares
<1> QED
  BY <1>2, <1>3

-----------------------------------------------------------------------------
(* What a call leaves as it was.                                           *)

\* A call leaves the memory in order, and changes at most what one TLV says.
Proper == \E p : Orderly(p) /\ Spares(p)

LEMMA ProperUnchanged ==
  ASSUME MInv, Untrapped, UNCHANGED <<node, mem>>
  PROVE  Proper
<1>1. Orderly(Caller) /\ Spares(Caller)
  BY UnchangedKeeps, SpareCaller
<1> QED
  BY <1>1 DEF Proper

LEMMA ProperMutation ==
  ASSUME NEW op \in Mutators, NEW p, NEW pos, NEW arg, Called(op, p, pos, arg), trap' = "none", Orderly(p)
  PROVE  Proper
<1>1. Spares(p)
  BY SpareMutated
<1> QED
  BY <1>1 DEF Proper

LEMMA ProperValue ==
  ASSUME MInv, Untrapped, trap' = "none", NEW t \in Alive,
         \/ \E v \in RawValues : SetRawValue(t, v)
         \/ \E val \in UintValues : SetUintValue(t, val)
  PROVE  Proper
<1>1. ASSUME NEW v \in RawValues, SetRawValue(t, v) PROVE Proper
  <2>1. CASE node[t].type # "RAW" \/ Len(v) >= BufferSize
    <3>1. UNCHANGED <<node, mem>>
      BY <1>1, <2>1 DEF SetRawValue, Fails, vars
    <3> QED
      BY <3>1, ProperUnchanged
  <2>2. CASE ~(node[t].type # "RAW" \/ Len(v) >= BufferSize)
    <3>1. Called("value", t, 0, 0) /\ "value" \in Mutators
      BY <1>1, <2>2 DEF SetRawValue, Mutators
    <3>2. Orderly(t)
      BY <1>1, SetRawKeeps
    <3> QED
      BY <3>1, <3>2, ProperMutation
  <2> QED
    BY <2>1, <2>2
<1>2. ASSUME NEW val \in UintValues, SetUintValue(t, val) PROVE Proper
  <2>1. Called("value", t, 0, 0) /\ "value" \in Mutators
    BY <1>2 DEF SetUintValue, Mutators
  <2>2. Orderly(t)
    BY <1>2, SetUintKeeps
  <2> QED
    BY <2>1, <2>2, ProperMutation
<1> QED
  BY <1>1, <1>2

LEMMA ProperChange ==
  ASSUME MInv, Untrapped, IInv', trap' = "none", NEW t \in Alive, Change(t)
  PROVE  Proper
<1>1. CASE \/ \E v \in RawValues : SetRawValue(t, v)
           \/ \E val \in UintValues : SetUintValue(t, val)
  BY <1>1, ProperValue
<1>2. CASE CastTlv(t)
  <2>1. Orderly(t) /\ (Opened(t) \/ UNCHANGED <<node, mem>>)
    BY <1>2, CastTlvKeeps
  <2>2. node[t].type # "TLV"
    BY <1>2 DEF CastTlv
  <2>3. Spares(t)
    BY <2>1, <2>2, SpareOpened, SpareUnchanged
  <2> QED
    BY <2>1, <2>3 DEF Proper
<1>3. CASE CastRaw(t)
  <2>1. Orderly(t) /\ (Recoded(t) \/ UNCHANGED <<node, mem>>)
    BY <1>3, CastRawKeeps
  <2>2. Spares(t)
    BY <2>1, SpareRecoded, SpareUnchanged
  <2> QED
    BY <2>1, <2>2 DEF Proper
<1>4. CASE Ref(t) \/ Free(t) \/ CloneTlv(t)
  <2>1. Orderly(Caller)
    BY <1>4, RefKeeps, FreeKeeps, CloneKeeps
  <2> QED
    BY <2>1, SpareCaller DEF Proper
<1>5. CASE ListSort(t)
  <2>1. Orderly(t)
    BY <1>5, SortingKeeps
  <2>2. Called("sort", t, 0, 0) /\ "sort" \in Mutators
    BY <1>5 DEF ListSort, Mutators
  <2> QED
    BY <2>1, <2>2, ProperMutation
<1> QED
  BY <1>1, <1>2, <1>3, <1>4, <1>5 DEF Change

LEMMA ProperReplace ==
  ASSUME MInv, Untrapped, IInv', trap' = "none", NEW p \in Alive, NEW pos \in 1 .. node[p].nested.len,
         NEW c \in Owned, ReplaceAt1(p, pos, c)
  PROVE  Proper
<1>1. Orderly(p)
  BY ReplacingKeeps
<1>2. Called("replaceAt", p, pos, c) /\ "replaceAt" \in Mutators
  BY DEF ReplaceAt1, Mutators
<1> QED
  BY <1>1, <1>2, ProperMutation

LEMMA ProperRemove ==
  ASSUME MInv, Untrapped, IInv', trap' = "none", NEW p \in Alive, NEW pos \in 1 .. node[p].nested.len,
         NEW out \in BOOLEAN, ListRemove(p, pos, out)
  PROVE  Proper
<1>1. Orderly(p)
  BY TakingKeeps
<1>2. Called("remove", p, pos, 0) /\ "remove" \in Mutators
  BY DEF ListRemove, Mutators
<1> QED
  BY <1>1, <1>2, ProperMutation

LEMMA ProperNest ==
  ASSUME MInv, Untrapped, IInv', trap' = "none", NEW p \in Alive, Nest(p)
  PROVE  Proper
<1>0. IInv /\ MaxTlvs \in Nat /\ node[p].nested.len \in Nat
  BY Now, Listing DEF MInv
<1>1. ASSUME NEW c \in Owned, AppendNestedTlv(p, c) PROVE Proper
  <2>1. CASE node[p].type # "TLV"
    <3>1. UNCHANGED <<node, mem>>
      BY <1>1, <2>1 DEF AppendNestedTlv, Fails, vars
    <3> QED
      BY <3>1, ProperUnchanged
  <2>2. CASE node[p].type = "TLV"
    <3>1. Called("append", p, 0, c) /\ "append" \in Mutators
      BY <1>1, <2>2 DEF AppendNestedTlv, Mutators
    <3>2. Orderly(p)
      BY <1>1, AppendingKeeps
    <3> QED
      BY <3>1, <3>2, ProperMutation
  <2> QED
    BY <2>1, <2>2
<1>2. ASSUME NEW c \in Owned, NEW old \in Alive, ReplaceNestedTlv(p, old, c) PROVE Proper
  <2>1. PICK pos : pos = IndexOf(node[p].nested, old)
    OBVIOUS
  <2>2. CASE node[p].type # "TLV" \/ pos = Null
    <3>1. UNCHANGED <<node, mem>>
      BY <1>2, <2>1, <2>2 DEF ReplaceNestedTlv, Fails, vars
    <3> QED
      BY <3>1, ProperUnchanged
  <2>3. CASE ~(node[p].type # "TLV" \/ pos = Null)
    <3>1. ReplaceAt1(p, pos, c)
      BY <1>2, <2>1, <2>3 DEF ReplaceNestedTlv
    <3>2. pos \in 1 .. node[p].nested.len
      BY <2>1, <2>3 DEF IndexOf
    <3> QED
      BY <3>1, <3>2, ProperReplace
  <2> QED
    BY <2>2, <2>3
<1>3. ASSUME NEW c \in Owned, NEW pos \in 1 .. MaxTlvs, ListReplaceAt(p, pos, c) PROVE Proper
  <2>1. pos <= node[p].nested.len /\ ReplaceAt1(p, pos, c)
    BY <1>3 DEF ListReplaceAt
  <2>2. pos \in 1 .. node[p].nested.len
    BY <1>0, <2>1
  <2> QED
    BY <2>1, <2>2, ProperReplace
<1>4. ASSUME NEW c \in Owned, NEW pos \in 1 .. MaxTlvs, ListInsertAt(p, pos, c) PROVE Proper
  <2>1. Orderly(p)
    BY <1>4, InsertingKeeps
  <2>2. Called("insertAt", p, pos, c) /\ "insertAt" \in Mutators
    BY <1>4 DEF ListInsertAt, Mutators
  <2> QED
    BY <2>1, <2>2, ProperMutation
<1>5. ASSUME NEW c \in Alive, RemoveNestedTlv(p, c) PROVE Proper
  <2>1. PICK pos : pos = IndexOf(node[p].nested, c)
    OBVIOUS
  <2>2. CASE pos = Null
    <3>1. UNCHANGED <<node, mem>>
      BY <1>5, <2>1, <2>2 DEF RemoveNestedTlv, Fails, vars
    <3> QED
      BY <3>1, ProperUnchanged
  <2>3. CASE pos # Null
    <3>1. ListRemove(p, pos, FALSE)
      BY <1>5, <2>1, <2>3 DEF RemoveNestedTlv
    <3>2. pos \in 1 .. node[p].nested.len
      BY <2>1, <2>3 DEF IndexOf
    <3> QED
      BY <3>1, <3>2, ProperRemove
  <2> QED
    BY <2>2, <2>3
<1>6. ASSUME NEW pos \in 1 .. MaxTlvs, ListRemove(p, pos, TRUE) PROVE Proper
  <2>1. pos <= node[p].nested.len
    BY <1>6 DEF ListRemove, RemoveAllowed
  <2>2. pos \in 1 .. node[p].nested.len
    BY <1>0, <2>1
  <2> QED
    BY <1>6, <2>2, ProperRemove
<1> QED
  BY <1>1, <1>2, <1>3, <1>4, <1>5, <1>6 DEF Nest

LEMMA ProperStep ==
  ASSUME MInv, [Next]_vars, trap' = "none"
  PROVE  Untrapped /\ Proper
<1>1. IInv'
  BY NextStep DEF MInv
<1>2. CASE UNCHANGED vars
  <2>1. UNCHANGED <<node, mem>> /\ Untrapped
    BY <1>2 DEF vars, Untrapped
  <2> QED
    BY <2>1, ProperUnchanged
<1>3. CASE Next
  <2>1. Untrapped
    BY <1>3 DEF Next, Untrapped
  <2>2. CASE Create
    <3>1. Orderly(Caller)
      BY <2>1, <2>2, CreateKeeps
    <3> QED
      BY <2>1, <3>1, SpareCaller DEF Proper
  <2>3. CASE \E t \in Alive : Change(t) \/ Nest(t)
    BY <1>1, <2>1, <2>3, ProperChange, ProperNest
  <2> QED
    BY <1>3, <2>2, <2>3 DEF Next
<1> QED
  BY <1>2, <1>3

LEMMA MStep ==
  ASSUME MInv, [Next]_vars
  PROVE  MInv'
<1>1. IInv'
  BY NextStep DEF MInv
<1>2. stream' \in Seq(Bytes)
  BY StreamStays
<1>3. ASSUME trap' = "none" PROVE Memory(node', mem')
  BY <1>3, ProperStep DEF Proper, Orderly
<1> QED
  BY <1>1, <1>2, <1>3 DEF MInv, Untrapped

LEMMA MInit ==
  ASSUME Init
  PROVE  MInv
<1>1. IInv /\ node = [t \in Tlvs |-> Gone] /\ stream \in Streams
  BY InitHolds DEF Init
<1>2. mem = [t \in Regions |-> IF t = Caller THEN Shared ELSE << >>]
  BY DEF Init, Regions
<1>3. stream \in Seq(Bytes) /\ Shared \in Seq(Bytes)
  BY <1>1, BytesAssumption
<1>4. Shared \in Seq(Cells) /\ << >> \in Seq(Cells)
  BY <1>3, BytesAreCells
<1>5. mem \in Memories /\ mem[Caller] = Shared
  BY <1>2, <1>4 DEF Memories, Regions
<1>6. /\ Gone.refs = 0 /\ Gone.tag \in 0 .. TypeSpan * Byte - 1 /\ Gone.flags \in 0 .. 3 /\ ~Gone.own
      /\ Gone.data \in Pointers /\ Gone.data.len = 0 /\ Backed(mem, Gone.data)
  BY GoneIs
<1>7. \A t \in Tlvs : node[t] = Gone
  BY <1>1
<1>8. Formed(node, mem)
  BY <1>5, <1>6, <1>7 DEF Formed
<1>9. Memory(node, mem)
  BY <1>5, <1>6, <1>7, <1>8 DEF Memory
<1> QED
  BY <1>1, <1>3, <1>9 DEF MInv

\* The invariant of the memory: the bytes an object points at are there, have been written,
\* and belong to the caller or to a TLV that is alive and owns its buffer.
LEMMA MInductive == Spec => []MInv
<1>1. Init => MInv
  BY MInit
<1>2. MInv /\ [Next]_vars => MInv'
  BY MStep
<1> QED
  BY <1>1, <1>2, PTL DEF Spec

\* Short of the named traps no object points into memory that was freed, is too short or
\* was not written, however objects are moved, cast, copied and freed.
THEOREM MemoryStaysAlive == Spec => []MemoryAlive
<1>1. MInv => MemoryAlive
  BY MemoryIsAlive
<1> QED
  BY <1>1, MInductive, PTL

\* Whatever KSI_TLV_serialize writes, readFirstTlv and encodeAsNestedTlvs read back: tag,
\* flags, payload, and the nested TLVs in their order, at any depth and for any values.
THEOREM WrittenReadsBack == Spec => []ReadsBack
<1>1. MInv => ReadsBack
  BY WrittenReads
<1> QED
  BY <1>1, MInductive, PTL

\* Whoever is nested in something is referred to.
LEMMA NestedLives ==
  ASSUME NEW ns, NEW h \in [Tlvs -> Nat], NEW n \in Nat, Good(ns, h, n), NEW t \in Tlvs, NEW k \in Kids(ns, t)
  PROVE  k \in Tlvs /\ ns[k].refs \in Nat /\ ns[k].refs > 0
<1>1. /\ Objects(ns) /\ Listed(ns) /\ k \in Tlvs /\ ns[k].refs \in Nat /\ Tlvs \in SUBSET Tlvs
      /\ Balanced(ns, h, << >>)
  <2>1. Kids(ns, t) \subseteq Tlvs
    BY GoodIs
  <2> QED
    BY <2>1, GoodIs DEF Good
<1>2. k \in ToSet(Elements(ns[t].nested))
  BY DEF Kids
<1>3. References(ns, k, Tlvs) \in Nat /\ References(ns, k, Tlvs) > 0
  BY <1>1, <1>2, ReferencesAre
<1>4. ns[k].refs = h[k] + Count(k, << >>) + References(ns, k, Tlvs)
  BY <1>1 DEF Balanced
<1>5. Count(k, << >>) = 0 /\ h[k] \in Nat
  BY <1>1, CountOfNone
<1> QED
  BY <1>1, <1>3, <1>4, <1>5

\* u outlives the call, and the call is not there to change what is below u.
Unasked(u) ==
  u \in Alive /\ node'[u].refs > 0 /\ ~(Rewriting(call'.op, call'.at) /\ call'.at \in Below(u))

\* So do those nested in it, when they are the same as before.
LEMMA UnaskedBelow ==
  ASSUME MInv, Untrapped, IInv', trap' = "none", NEW p, Orderly(p), NEW u, Unasked(u), u # p,
         NEW k \in Kids(node, u)
  PROVE  Unasked(k)
<1>1. /\ u \in Tlvs /\ node'[u].refs > 0 /\ held \in [Tlvs -> Nat] /\ used \in Nat /\ Good(node, held, used)
      /\ \A t \in Tlvs : Kids(node, t) \subseteq Tlvs
  <2>1. u \in Tlvs /\ node'[u].refs > 0 /\ held \in [Tlvs -> Nat] /\ used \in Nat /\ Good(node, held, used)
    BY Now DEF MInv, Unasked, Alive
  <2> QED
    BY <2>1, GoodIs
<1>2. k \in Alive
  BY <1>1, NestedLives DEF Alive, Live
<1>3. node'[k].refs > 0
  <2>1. Elements(node'[u].nested) = Elements(node[u].nested)
    BY DEF Unasked, Orderly, Undisturbed
  <2>2. PICK ns, h, n : ns = node' /\ h = held' /\ n = used'
    OBVIOUS
  <2>3. h \in [Tlvs -> Nat] /\ n \in Nat /\ Good(ns, h, n)
    BY <2>2, SaysThen
  <2>4. k \in Kids(ns, u)
    BY <2>1, <2>2 DEF Kids
  <2>5. ns[k].refs > 0
    BY <1>1, <2>3, <2>4, NestedLives
  <2> QED
    BY <2>2, <2>5
<1>4. Below(k) \subseteq Below(u)
  <2>1. k \in Tlvs
    BY <1>2 DEF Alive
  <2>2. /\ Below(u) \in SUBSET Tlvs /\ u \in Below(u) /\ \A t \in Below(u) : Kids(node, t) \subseteq Below(u)
    BY <1>1, BelowIs
  <2>3. \A S \in SUBSET Tlvs : k \in S /\ (\A t \in S : Kids(node, t) \subseteq S) => Below(k) \subseteq S
    BY <1>1, <2>1, BelowIs
  <2>4. k \in Below(u)
    BY <2>2
  <2> QED
    BY <2>2, <2>3, <2>4
<1> QED
  BY <1>2, <1>3, <1>4 DEF Unasked

LEMMA UnaskedSays ==
  ASSUME MInv, Untrapped, IInv', trap' = "none", NEW p, Orderly(p), Spares(p), NEW u, Unasked(u)
  PROVE  /\ PayloadIn(node', mem')[u] = Payload[u]
         /\ node'[u].tag = node[u].tag /\ node'[u].flags = node[u].flags
<1>1. PICK ns, m : ns = node' /\ m = mem'
  OBVIOUS
<1>2. PICK S : S = {x \in Tlvs : Unasked(x)}
  OBVIOUS
<1>3. \A x \in Tlvs : x \in S <=> Unasked(x)
  BY <1>2
<1>4. Objects(node) /\ Acyclic(node) /\ Formed(node, mem) /\ \A t \in Tlvs : Kids(node, t) \subseteq Tlvs
  <2>1. /\ held \in [Tlvs -> Nat] /\ used \in Nat /\ Good(node, held, used)
    BY Now DEF MInv
  <2> QED
    BY <2>1, SaysNow, GoodIs
<1>5. Objects(ns) /\ Acyclic(ns) /\ Formed(ns, m)
  BY <1>1, SaysThen
<1>6. ASSUME NEW t \in S
      PROVE  /\ ns[t].tag = node[t].tag /\ ns[t].flags = node[t].flags
             /\ \/ PayloadIn(ns, m)[t] = PayloadIn(node, mem)[t]
                \/ /\ Kids(node, t) \subseteq S /\ Elements(ns[t].nested) = Elements(node[t].nested)
                   /\ (ns[t].type = "TLV") = (node[t].type = "TLV")
                   /\ node[t].type # "TLV" => Peek(m, ns[t].data) = Peek(mem, node[t].data)
  <2>1. t \in Tlvs /\ Unasked(t) /\ t \in Alive /\ node'[t].refs > 0
    BY <1>2, <1>3 DEF Unasked
  <2>2. CASE t = p
    <3>1. p \in Below(p)
      BY <1>4, <2>1, <2>2, BelowIs
    <3>2. ~(Rewriting(call'.op, call'.at) /\ call'.at = p)
      BY <2>1, <2>2, <3>1 DEF Unasked
    <3> QED
      BY <1>1, <2>1, <2>2, <3>2 DEF Spares, Payload
  <2>3. CASE t # p
    <3>1. /\ ns[t].tag = node[t].tag /\ ns[t].flags = node[t].flags /\ ns[t].type = node[t].type
          /\ Elements(ns[t].nested) = Elements(node[t].nested) /\ Peek(m, ns[t].data) = Peek(mem, node[t].data)
      BY <1>1, <2>1, <2>3 DEF Orderly, Undisturbed
    <3>2. Kids(node, t) \subseteq S
      BY <1>3, <1>4, <2>1, <2>3, UnaskedBelow
    <3> QED
      BY <3>1, <3>2
  <2> QED
    BY <2>2, <2>3
<1>7. S \in SUBSET Tlvs
  BY <1>2
<1>8. \A t \in S : PayloadIn(ns, m)[t] = PayloadIn(node, mem)[t]
  BY <1>4, <1>5, <1>6, <1>7, SayingKept
<1>9. u \in S
  BY <1>3 DEF Unasked, Alive
<1> QED
  BY <1>1, <1>6, <1>8, <1>9 DEF Payload

LEMMA ValueStays ==
  ASSUME MInv, [Next]_vars, trap' = "none", NEW u \in Alive, node'[u].refs > 0,
         ~(Rewriting(call'.op, call'.at) /\ call'.at \in Below(u))
  PROVE  Serialized(u)' = Serialized(u)
<1>1. Untrapped /\ IInv'
  BY ProperStep, NextStep DEF MInv
<1>2. PICK p : Orderly(p) /\ Spares(p)
  BY ProperStep DEF Proper
<1>3. Unasked(u)
  BY DEF Unasked
<1>4. /\ PayloadIn(node', mem')[u] = Payload[u]
      /\ node'[u].tag = node[u].tag /\ node'[u].flags = node[u].flags
  BY <1>1, <1>2, <1>3, UnaskedSays
<1>5. Payload' = PayloadIn(node', mem')
  BY DEF Payload
<1> QED
  BY <1>4, <1>5 DEF Serialized

\* No call changes what a TLV says, serialized, but for one made on it or below it that is
\* there to change it: a cast, the release of a neighbour and a buffer that several share
\* leave every value as it was.
THEOREM ValuesAreKept == Spec => ValueKept
<1>1. MInv /\ [Next]_vars =>
        [trap' = "none" =>
           \A u \in Alive : node'[u].refs > 0 /\ ~(Rewriting(call'.op, call'.at) /\ call'.at \in Below(u))
                              => Serialized(u)' = Serialized(u)]_vars
  BY ValueStays
<1> QED
  BY <1>1, MInductive, PTL DEF Spec, ValueKept

-----------------------------------------------------------------------------
(* Clones.                                                                 *)

\* A step clones, or it is another call, or none.
LEMMA CallIs ==
  ASSUME Next, trap' = "none"
  PROVE  \/ call'.op # "clone"
         \/ UNCHANGED <<node, mem, call>>
         \/ \E t \in Alive : CloneTlv(t) /\ Serializes(t) /\ Fills(Serialized(t))
<1>1. CASE Create
  <2>1. \A o, b : Make("make", o, b) => call'.op # "clone"
    BY DEF Make, Called
  <2>2. FromReader => call'.op # "clone" \/ UNCHANGED <<node, mem, call>>
    BY DEF FromReader, Called
  <2>3. \A b : ParseFails(b) => UNCHANGED <<node, mem, call>>
    BY DEF ParseFails, Fails, vars
  <2> QED
    BY <1>1, <2>1, <2>2, <2>3 DEF Create, New, FromUint, ParseBlob, ParseShared
<1>2. ASSUME NEW t \in Alive, Change(t)
      PROVE  \/ call'.op # "clone"
             \/ UNCHANGED <<node, mem, call>>
             \/ CloneTlv(t) /\ Serializes(t) /\ Fills(Serialized(t))
  <2>1. CASE CloneTlv(t)
    BY <2>1 DEF CloneTlv, CloneFails, Fails, vars
  <2>2. CASE \E v \in RawValues : SetRawValue(t, v)
    BY <2>2 DEF SetRawValue, Called, Fails, vars
  <2>3. CASE \E val \in UintValues : SetUintValue(t, val)
    BY <2>3 DEF SetUintValue, Called
  <2>4. CASE CastTlv(t)
    BY <2>4 DEF CastTlv, Called, Fails, vars
  <2>5. CASE CastRaw(t)
    BY <2>5 DEF CastRaw, Recast, Called
  <2>6. CASE Ref(t) \/ Free(t) \/ ListSort(t)
    BY <2>6 DEF Ref, Free, ListSort, Called
  <2> QED
    BY <1>2, <2>1, <2>2, <2>3, <2>4, <2>5, <2>6 DEF Change
<1>3. ASSUME NEW p \in Alive, Nest(p)
      PROVE  call'.op # "clone" \/ UNCHANGED <<node, mem, call>>
  <2>1. \A pos, c : ReplaceAt1(p, pos, c) => call'.op # "clone"
    BY DEF ReplaceAt1, Called
  <2>2. \A pos, out : ListRemove(p, pos, out) => call'.op # "clone"
    BY DEF ListRemove, Called
  <2>3. \A c : AppendNestedTlv(p, c) => call'.op # "clone" \/ UNCHANGED <<node, mem, call>>
    BY DEF AppendNestedTlv, Called, Fails, vars
  <2>4. \A old, c : ReplaceNestedTlv(p, old, c) => call'.op # "clone" \/ UNCHANGED <<node, mem, call>>
    BY <2>1 DEF ReplaceNestedTlv, Fails, vars
  <2>5. \A pos, c : ListReplaceAt(p, pos, c) => call'.op # "clone"
    BY <2>1 DEF ListReplaceAt
  <2>6. \A pos, c : ListInsertAt(p, pos, c) => call'.op # "clone"
    BY DEF ListInsertAt, Called
  <2>7. \A c : RemoveNestedTlv(p, c) => call'.op # "clone" \/ UNCHANGED <<node, mem, call>>
    BY <2>2 DEF RemoveNestedTlv, Fails, vars
  <2> QED
    BY <1>3, <2>2, <2>3, <2>4, <2>5, <2>6, <2>7 DEF Nest
<1> QED
  BY <1>1, <1>2, <1>3 DEF Next

\* All that is below c is in N.
LEMMA BelowThen ==
  ASSUME NEW c, NEW N \in SUBSET Tlvs, c \in N, \A p \in N : Kids(node', p) \subseteq N
  PROVE  Below(c)' \subseteq N
<1>1. \A p \in Tlvs : ToSet(Children(p))' = Kids(node', p)
  BY DEF Children, Kids
<1>2. WithNested(N)'
  BY <1>1 DEF WithNested
<1> QED
  BY <1>2 DEF Below

\* The objects of a clone, and what they say.
Cloned(t, f, N) ==
  /\ f \in N /\ N \in SUBSET Tlvs /\ \A p \in N : Kids(node', p) \subseteq N
  /\ \A u \in N : node'[u].refs = 1 /\ node'[u].data.in = f
  /\ node'[f].tag = node[t].tag /\ node'[f].flags = node[t].flags /\ node'[f].type = node[t].type
  /\ PayloadIn(node', mem')[f] = Payload[t]

\* A payload that falls into what is nested in its TLV has no header that is too long.
LEMMA FallsShortest ==
  ASSUME NEW b, NEW ns, NEW f, NEW ids, Falls(b, ns, f, ids)
  PROVE  Shortest(b)
<1> SUFFICES ASSUME NEW i \in DOMAIN Split(b)
             PROVE  LET h == ReadFirst(SubSeq(b, Split(b)[i] + 1, Len(b)))
                    IN  h.size = Len(Header(h.tag, h.flags, h.len))
  BY DEF Shortest
<1>1. PICK h, c : h = ReadAt(b, Split(b)[i]) /\ c = ids[i]
  OBVIOUS
<1>2. i \in 1 .. Len(ids)
  BY DEF Falls, Walk
<1>3. h = [size |-> Len(Header(ns[c].tag, ns[c].flags, Len(f[c]))), tag |-> ns[c].tag, flags |-> ns[c].flags, len |-> Len(f[c])]
  BY <1>1, <1>2 DEF Falls
<1> QED
  BY <1>1, <1>3 DEF ReadAt

LEMMA CloningSays ==
  ASSUME MInv, Untrapped, IInv', trap' = "none", NEW t \in Alive,
         NEW f, NEW ns, NEW m, NEW starts, NEW es, Cloning(t, f, ns, m, starts, es)
  PROVE  Cloned(t, f, f .. (f + Len(starts)))
<1>1. PICK v, d, n : v = Payload[t] /\ d = ns[f].data /\ n = Len(starts)
  OBVIOUS
<1>2. PICK N : N = f .. (f + n)
  OBVIOUS
<1>3. /\ m \in Memories /\ f \in Tlvs /\ f \in Nat /\ Sound(ns[f]) /\ ns[f].type = "RAW" /\ ns[f].nested = NewList
      /\ ns[f].tag = node[t].tag /\ ns[f].flags = node[t].flags /\ d.in = f
      /\ Peek(m, d) = v /\ v \in Seq(Bytes) /\ Newcomer(ns, m, f)
  BY <1>1 DEF Cloning, Copy, Tlvs
<1>4. /\ Joins(es, m, N, Caller) /\ \A u \in Tlvs \ N : es[u] = node[u]
      /\ \A u \in N : u \in Tlvs /\ es[u].refs = 1 /\ (u # f => Elements(es[u].nested) = << >>)
  BY <1>1, <1>2, CloneJoins
<1>5. n \in Nat /\ f \in N /\ N \in SUBSET Tlvs
  <2>1. n \in Nat
    BY <1>1 DEF Cloning
  <2> QED
    BY <1>2, <1>3, <1>4, <2>1
<1>6. node' = es /\ mem' = Unmapped(m, es) /\ ~Outlived(es)
  BY DEF Cloning, Become, Outlived
<1>7. PICK k : k = mem'
  OBVIOUS
<1>8. Memory(es, k) /\ \A u \in Tlvs : Peek(k, es[u].data) = Peek(m, es[u].data)
  <2>1. Drawn(es, m)
    BY <1>4, JoinsDrawn
  <2> QED
    BY <1>6, <1>7, <2>1, UnmappedKeeps
<1>9. PICK g : g = PayloadIn(es, k)
  OBVIOUS
<1>10. Says(g, es, k) /\ Formed(es, k)
  <2>1. Good(node', held', used')
    BY DEF IInv, Untrapped
  <2>2. Objects(es) /\ Acyclic(es) /\ Formed(es, k)
    BY <1>6, <1>8, <2>1 DEF Good, Memory
  <2> QED
    BY <1>9, <2>2, PayloadIs
<1>11. t \in Tlvs /\ node[t].type \in {"RAW", "INT", "TLV"} /\ node[t].type # "INT"
  <2>1. t \in Tlvs /\ Objects(node) /\ \A u \in Tlvs : Kids(node, u) \subseteq Tlvs
    <3>1. /\ held \in [Tlvs -> Nat] /\ used \in Nat /\ Good(node, held, used)
      BY Now DEF MInv
    <3> QED
      BY <3>1, GoodIs DEF Alive
  <2>2. t \in Below(t)
    BY <2>1, BelowIs
  <2>3. node[t].type # "INT"
    BY <2>2 DEF Cloning, Encodable
  <2> QED
    BY <2>1, <2>3 DEF Objects, Sound
<1>12. CASE node[t].type # "TLV"
  <2>1. starts = << >> /\ es = ns /\ node[t].type = "RAW"
    BY <1>11, <1>12 DEF Cloning
  <2>2. n = 0
    BY <1>1, <2>1
  <2>3. N = {f}
    BY <1>2, <1>3, <2>2
  <2>4. Kids(es, f) = {}
    BY <1>3, <2>1, EmptyList DEF Kids, ToSet
  <2>5. g[f] = v
    BY <1>1, <1>3, <1>8, <1>10, <2>1 DEF Says, Saying
  <2> QED
    BY <1>1, <1>2, <1>3, <1>4, <1>5, <1>6, <1>7, <1>9, <2>1, <2>3, <2>4, <2>5 DEF Cloned
<1>13. CASE node[t].type = "TLV"
  <2>1. Falls(v, node, Payload, Children(t)) /\ starts = Split(v) /\ Expands(es, ns, m, f, f, v, starts)
    BY <1>1, <1>13 DEF Cloning
  <2>2. Shortest(v) /\ Walk(v, starts, Len(v))
    BY <2>1, FallsShortest DEF Falls
  <2>3. g[f] = v
    BY <1>1, <1>3, <1>5, <1>8, <1>10, <2>1, <2>2, ExpandedSays
  <2>4. /\ \A i \in 1 .. n : f + i \in Tlvs /\ ReadOut(es[f + i], m, d, v, starts[i])
        /\ es[f] = [ns[f] EXCEPT !.type = "TLV", !.nested = ListOf(NewOnes(f, n))]
    BY <1>1, <2>1 DEF Expands
  <2>5. /\ es[f].type = "TLV" /\ es[f].nested = ListOf(NewOnes(f, n)) /\ es[f].tag = node[t].tag
        /\ es[f].flags = node[t].flags /\ es[f].data = d
    BY <1>1, <1>3, <2>4 DEF Sound, Shaped
  <2>6. Kids(es, f) \subseteq N
    <3>1. PICK ids : ids = NewOnes(f, n)
      OBVIOUS
    <3>2. ids \in Seq(Tlvs) /\ Len(ids) = n /\ \A i \in 1 .. n : ids[i] = f + i /\ f + i \in N
      <4>1. \A i \in 1 .. n : f + 1 + i - 1 = f + i /\ f + i \in N
        BY <1>2, <1>3, <1>5
      <4> QED
        BY <1>5, <2>4, <3>1, <4>1 DEF NewOnes
    <3>3. Elements(es[f].nested) = ids
      BY <2>5, <3>1, <3>2, ListOfIs
    <3> QED
      BY <3>2, <3>3 DEF Kids, ToSet
  <2>7. \A p \in N : Kids(es, p) \subseteq N
    BY <1>4, <2>6 DEF Kids, ToSet
  <2>8. \A u \in N : es[u].data.in = f
    <3> TAKE u \in N
    <3>1. CASE u = f
      BY <1>3, <2>5, <3>1
    <3>2. CASE u # f
      <4>1. PICK i \in 1 .. n : u = f + i
        <5>1. u - f \in 1 .. n /\ u = f + (u - f)
          BY <1>2, <1>3, <1>5, <3>2
        <5> QED
          BY <5>1
      <4> QED
        BY <1>3, <2>4, <4>1 DEF ReadOut
    <3> QED
      BY <3>1, <3>2
  <2> QED
    BY <1>1, <1>2, <1>4, <1>5, <1>6, <1>7, <1>9, <1>13, <2>3, <2>5, <2>7, <2>8 DEF Cloned
<1> QED
  BY <1>12, <1>13

LEMMA CloneCopies ==
  ASSUME MInv, [Next]_vars, IInv', trap' = "none", NEW t \in Alive, CloneTlv(t), Serializes(t), Fills(Serialized(t))
  PROVE  Copied'
<1>1. Untrapped
  BY ProperStep
<1>2. PICK f, ns, m, starts, es : Cloning(t, f, ns, m, starts, es)
  BY <1>1, CloneMakes
<1>3. PICK N : N = f .. (f + Len(starts))
  OBVIOUS
<1>4. Cloned(t, f, N)
  BY <1>1, <1>2, <1>3, CloningSays
<1>5. call'.op = "clone" /\ call'.at = f /\ call'.arg = t
  BY <1>2 DEF Cloning, Called
<1>6. t \in Tlvs /\ node'[t] = node[t] /\ node'[t].refs > 0
  <2>1. /\ \A u \in Tlvs \ N : es[u] = node[u]
        /\ Joins(es, m, N, Caller)
    BY <1>1, <1>2, <1>3, CloneJoins
  <2>2. t \in Tlvs /\ node[t].refs > 0 /\ ~(node[t].refs = 0)
    BY DEF Alive, Live
  <2>3. t \notin N
    BY <2>1, <2>2 DEF Joins
  <2>4. node' = es
    BY <1>2 DEF Cloning, Become
  <2> QED
    BY <2>1, <2>2, <2>3, <2>4
<1>7. Serialized(t)' = Serialized(t)
  <2>1. ~Rewriting(call'.op, call'.at)
    BY <1>5 DEF Rewriting, Mutators
  <2> QED
    BY <1>6, <2>1, ValueStays
<1>8. Payload' = PayloadIn(node', mem')
  BY DEF Payload
<1>9. Serialized(f)' = Serialized(t)'
  <2>1. Serialized(f)' = Header(node'[f].tag, node'[f].flags, Len(Payload'[f])) \o Payload'[f]
    BY DEF Serialized
  <2>2. Payload'[f] = Payload[t]
    BY <1>4, <1>8 DEF Cloned
  <2> QED
    BY <1>4, <1>7, <2>1, <2>2 DEF Cloned, Serialized
<1>10. Below(f)' \subseteq N
  BY <1>4, BelowThen DEF Cloned
<1>11. IsCopy(f, t)'
  <2>1. node'[f].type = node'[t].type
    BY <1>4, <1>6 DEF Cloned
  <2>2. \A u \in Below(f)' : node'[u].refs = 1 /\ node'[u].data.in = f
    BY <1>4, <1>10 DEF Cloned
  <2> QED
    BY <1>9, <2>1, <2>2 DEF IsCopy
<1> QED
  BY <1>5, <1>11 DEF Copied

\* The last clone is a copy as long as nothing else is called.
CInv == MInv /\ (Untrapped => Copied)

LEMMA CStep ==
  ASSUME CInv, [Next]_vars
  PROVE  CInv' /\ (trap' = "none" => Copied')
<1>1. MInv /\ MInv' /\ IInv'
  BY MStep DEF CInv, MInv
<1>2. ASSUME trap' = "none" PROVE Copied'
  <2>1. Untrapped /\ Copied
    BY <1>1, <1>2, ProperStep DEF CInv
  <2>2. ASSUME UNCHANGED <<node, mem, call>> PROVE Copied'
    <3>1. Payload' = Payload
      BY <2>2 DEF Payload
    <3>2. \A c : Serialized(c)' = Serialized(c)
      BY <2>2, <3>1 DEF Serialized
    <3>3. \A c : Below(c)' = Below(c)
      BY <2>2 DEF Below, WithNested, Children
    <3> QED
      BY <2>1, <2>2, <3>2, <3>3 DEF Copied, IsCopy
  <2>3. CASE UNCHANGED vars
    BY <2>2, <2>3 DEF vars
  <2>4. CASE Next
    <3>1. CASE call'.op # "clone"
      BY <3>1 DEF Copied
    <3>2. CASE \E t \in Alive : CloneTlv(t) /\ Serializes(t) /\ Fills(Serialized(t))
      BY <1>1, <1>2, <2>4, <3>2, CloneCopies
    <3> QED
      BY <1>2, <2>2, <2>4, <3>1, <3>2, CallIs
  <2> QED
    BY <2>3, <2>4
<1> QED
  BY <1>1, <1>2 DEF CInv, Untrapped

\* KSI_TLV_clone "makes an identical copy": what it returns is serialized to the same bytes,
\* is of the same type, and shares neither memory nor nested objects with anything else.
THEOREM ClonesAreCopies == Spec => CloneIsCopy
<1>1. Init => CInv
  BY MInit DEF Init, CInv, Copied
<1>2. CInv /\ [Next]_vars => CInv'
  BY CStep
<1>3. CInv /\ [Next]_vars => [trap' = "none" => Copied']_vars
  BY CStep
<1> QED
  BY <1>1, <1>2, <1>3, PTL DEF Spec, CloneIsCopy
=============================================================================
