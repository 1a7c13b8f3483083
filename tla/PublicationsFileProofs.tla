------------------------- MODULE PublicationsFileProofs -------------------------
(***************************************************************************)
(* Proofs about PublicationsFile, for files of any number of elements in   *)
(* any order.                                                              *)
(***************************************************************************)
EXTENDS PublicationsFile, SelectionProofs

-----------------------------------------------------------------------------
(* The loops of the module, turn by turn.                                  *)

ReadTurn(E, f, i) == IF i = 0 THEN EmptyFile ELSE ReadElement(f[i - 1], E[i])

LEMMA ReadingUnfolds ==
  ASSUME NEW E, Len(E) \in Nat
  PROVE  /\ Reading(E)[0] = EmptyFile
         /\ \A i \in 1 .. Len(E) : Reading(E)[i] = ReadElement(Reading(E)[i - 1], E[i])
<1> DEFINE N == Len(E)
           P(n, f) == f = [i \in 0 .. n |-> ReadTurn(E, f, i)]
           G == {n \in 0 .. N : \E f : P(n, f)}
<1>1. 0 \in G
  <2> DEFINE f == [i \in 0 .. 0 |-> EmptyFile]
  <2>1. P(0, f)
    BY DEF ReadTurn
  <2> QED
    BY <2>1
<1>2. ASSUME NEW n \in 0 .. N - 1, n \in G PROVE n + 1 \in G
  <2>1. PICK f : P(n, f)
    BY <1>2
  <2> DEFINE x == ReadElement(f[n], E[n + 1])
             g == [i \in 0 .. n + 1 |-> IF i = n + 1 THEN x ELSE f[i]]
  <2>2. \A i \in 0 .. n : f[i] = ReadTurn(E, f, i)
    BY <2>1
  <2>3. g[n + 1] = x /\ \A i \in 0 .. n : g[i] = f[i]
    OBVIOUS
  <2>4. ASSUME NEW i \in 0 .. n + 1 PROVE g[i] = ReadTurn(E, g, i)
    <3>1. CASE i = n + 1
      <4>1. i # 0 /\ i - 1 = n /\ g[n] = f[n]
        BY <3>1, <2>3
      <4> HIDE DEF g
      <4> QED
        BY <3>1, <4>1, <2>3 DEF ReadTurn
    <3>2. CASE i # n + 1
      <4>1. i \in 0 .. n /\ (i # 0 => i - 1 \in 0 .. n)
        BY <3>2
      <4> HIDE DEF g
      <4> QED
        BY <4>1, <2>2, <2>3 DEF ReadTurn
    <3> QED
      BY <3>1, <3>2
  <2>5. P(n + 1, g)
    <3>1. g = [i \in 0 .. n + 1 |-> g[i]]
      OBVIOUS
    <3> HIDE DEF g
    <3> QED
      BY <3>1, <2>4
  <2>6. n + 1 \in 0 .. N
    OBVIOUS
  <2> HIDE DEF P, g
  <2> QED
    BY <2>5, <2>6
<1>3. \A n \in 0 .. N : n \in G
  <2> HIDE DEF G
  <2> QED
    BY <1>1, <1>2, Induction
<1>4. \E f : P(N, f)
  BY <1>3
<1>5. Reading(E) = CHOOSE f : P(N, f)
  BY DEF Reading, ReadTurn
<1>6. P(N, Reading(E))
  <2> HIDE DEF P
  <2> QED
    BY <1>4, <1>5
<1>7. \A i \in 0 .. N : Reading(E)[i] = ReadTurn(E, Reading(E), i)
  BY <1>6
<1> QED
  BY <1>7 DEF ReadTurn

PrecedingTurn(E, f, i) ==
  IF i = 0 THEN 0
  ELSE IF \E j \in 1 .. i : E[j].kind = "signature" THEN f[i - 1]
  ELSE f[i - 1] + Size(E[i])

LEMMA PrecedingUnfolds ==
  ASSUME NEW E, Len(E) \in Nat
  PROVE  /\ Preceding(E)[0] = 0
         /\ \A i \in 1 .. Len(E) :
              Preceding(E)[i] = IF \E j \in 1 .. i : E[j].kind = "signature" THEN Preceding(E)[i - 1]
                                ELSE Preceding(E)[i - 1] + Size(E[i])
<1> DEFINE N == Len(E)
           P(n, f) == f = [i \in 0 .. n |-> PrecedingTurn(E, f, i)]
           G == {n \in 0 .. N : \E f : P(n, f)}
<1>1. 0 \in G
  <2> DEFINE f == [i \in 0 .. 0 |-> 0]
  <2>1. P(0, f)
    BY DEF PrecedingTurn
  <2> QED
    BY <2>1
<1>2. ASSUME NEW n \in 0 .. N - 1, n \in G PROVE n + 1 \in G
  <2>1. PICK f : P(n, f)
    BY <1>2
  <2> DEFINE x == IF \E j \in 1 .. n + 1 : E[j].kind = "signature" THEN f[n] ELSE f[n] + Size(E[n + 1])
             g == [i \in 0 .. n + 1 |-> IF i = n + 1 THEN x ELSE f[i]]
  <2>2. \A i \in 0 .. n : f[i] = PrecedingTurn(E, f, i)
    BY <2>1
  <2>3. g[n + 1] = x /\ \A i \in 0 .. n : g[i] = f[i]
    OBVIOUS
  <2>4. ASSUME NEW i \in 0 .. n + 1 PROVE g[i] = PrecedingTurn(E, g, i)
    <3>1. CASE i = n + 1
      <4>1. i # 0 /\ i - 1 = n /\ g[n] = f[n]
        BY <3>1, <2>3
      <4> HIDE DEF g
      <4> QED
        BY <3>1, <4>1, <2>3 DEF PrecedingTurn
    <3>2. CASE i # n + 1
      <4>1. i \in 0 .. n /\ (i # 0 => i - 1 \in 0 .. n)
        BY <3>2
      <4> HIDE DEF g
      <4> QED
        BY <4>1, <2>2, <2>3 DEF PrecedingTurn
    <3> QED
      BY <3>1, <3>2
  <2>5. P(n + 1, g)
    <3>1. g = [i \in 0 .. n + 1 |-> g[i]]
      OBVIOUS
    <3> HIDE DEF g
    <3> QED
      BY <3>1, <2>4
  <2>6. n + 1 \in 0 .. N
    OBVIOUS
  <2> HIDE DEF P, g
  <2> QED
    BY <2>5, <2>6
<1>3. \A n \in 0 .. N : n \in G
  <2> HIDE DEF G
  <2> QED
    BY <1>1, <1>2, Induction
<1>4. \E f : P(N, f)
  BY <1>3
<1>5. Preceding(E) = CHOOSE f : P(N, f)
  BY DEF Preceding, PrecedingTurn
<1>6. P(N, Preceding(E))
  <2> HIDE DEF P
  <2> QED
    BY <1>4, <1>5
<1>7. \A i \in 0 .. N : Preceding(E)[i] = PrecedingTurn(E, Preceding(E), i)
  BY <1>6
<1> QED
  BY <1>7 DEF PrecedingTurn

NearingTurn(pubs, t, f, i) == IF i = 0 THEN None ELSE Nearer(f[i - 1], pubs[i], t)

LEMMA NearingUnfolds ==
  ASSUME NEW pubs, NEW t, Len(pubs) \in Nat
  PROVE  /\ Nearing(pubs, t)[0] = None
         /\ \A i \in 1 .. Len(pubs) :
              Nearing(pubs, t)[i] = Nearer(Nearing(pubs, t)[i - 1], pubs[i], t)
<1> DEFINE N == Len(pubs)
           P(n, f) == f = [i \in 0 .. n |-> NearingTurn(pubs, t, f, i)]
           G == {n \in 0 .. N : \E f : P(n, f)}
<1>1. 0 \in G
  <2> DEFINE f == [i \in 0 .. 0 |-> None]
  <2>1. P(0, f)
    BY DEF NearingTurn
  <2> QED
    BY <2>1
<1>2. ASSUME NEW n \in 0 .. N - 1, n \in G PROVE n + 1 \in G
  <2>1. PICK f : P(n, f)
    BY <1>2
  <2> DEFINE x == Nearer(f[n], pubs[n + 1], t)
             g == [i \in 0 .. n + 1 |-> IF i = n + 1 THEN x ELSE f[i]]
  <2>2. \A i \in 0 .. n : f[i] = NearingTurn(pubs, t, f, i)
    BY <2>1
  <2>3. g[n + 1] = x /\ \A i \in 0 .. n : g[i] = f[i]
    OBVIOUS
  <2>4. ASSUME NEW i \in 0 .. n + 1 PROVE g[i] = NearingTurn(pubs, t, g, i)
    <3>1. CASE i = n + 1
      <4>1. i # 0 /\ i - 1 = n /\ g[n] = f[n]
        BY <3>1, <2>3
      <4> HIDE DEF g
      <4> QED
        BY <3>1, <4>1, <2>3 DEF NearingTurn
    <3>2. CASE i # n + 1
      <4>1. i \in 0 .. n /\ (i # 0 => i - 1 \in 0 .. n)
        BY <3>2
      <4> HIDE DEF g
      <4> QED
        BY <4>1, <2>2, <2>3 DEF NearingTurn
    <3> QED
      BY <3>1, <3>2
  <2>5. P(n + 1, g)
    <3>1. g = [i \in 0 .. n + 1 |-> g[i]]
      OBVIOUS
    <3> HIDE DEF g
    <3> QED
      BY <3>1, <2>4
  <2>6. n + 1 \in 0 .. N
    OBVIOUS
  <2> HIDE DEF P, g
  <2> QED
    BY <2>5, <2>6
<1>3. \A n \in 0 .. N : n \in G
  <2> HIDE DEF G
  <2> QED
    BY <1>1, <1>2, Induction
<1>4. \E f : P(N, f)
  BY <1>3
<1>5. Nearing(pubs, t) = CHOOSE f : P(N, f)
  BY DEF Nearing, NearingTurn
<1>6. P(N, Nearing(pubs, t))
  <2> HIDE DEF P
  <2> QED
    BY <1>4, <1>5
<1>7. \A i \in 0 .. N : Nearing(pubs, t)[i] = NearingTurn(pubs, t, Nearing(pubs, t), i)
  BY <1>6
<1> QED
  BY <1>7 DEF NearingTurn

-----------------------------------------------------------------------------
(* The values of the elements of a kind.                                   *)

Of(E, kind) == {e \in ToSet(E) : e.kind = kind}
Valued(s) == [i \in DOMAIN s |-> s[i].value]
\* The elements of a kind among the first i.
Got(E, kind, i) == Selecting(E, Of(E, kind))[i]

LEMMA ValuesAre ==
  ASSUME NEW E, NEW kind
  PROVE  Values(E, kind) = Valued(Got(E, kind, Len(E)))
BY DEF Values, Valued, Got, Of, Selected

LEMMA ValuedAppend ==
  ASSUME NEW S, NEW s \in Seq(S), NEW e \in S
  PROVE  Valued(Append(s, e)) = Append(Valued(s), e.value)
<1> DEFINE t == Append(s, e)
           n == Len(s)
           v == Valued(s)
<1>1. t \in Seq(S) /\ Len(t) = n + 1 /\ n \in Nat /\ t[n + 1] = e /\ \A i \in 1 .. n : t[i] = s[i]
  OBVIOUS
<1>2. v = [i \in 1 .. n |-> s[i].value] /\ Valued(t) = [i \in 1 .. n + 1 |-> t[i].value]
  BY <1>1 DEF Valued
<1>3. v \in Seq({s[i].value : i \in 1 .. n}) /\ Len(v) = n
  BY <1>1, <1>2
<1> HIDE DEF t, n, v
<1>4. Append(v, e.value) = [i \in 1 .. n + 1 |-> IF i = n + 1 THEN e.value ELSE v[i]]
  BY <1>3
<1>5. \A i \in 1 .. n + 1 : t[i].value = IF i = n + 1 THEN e.value ELSE v[i]
  BY <1>1, <1>2
<1> QED
  BY <1>1, <1>2, <1>4, <1>5 DEF t, v

LEMMA ValuedLen ==
  ASSUME NEW S, NEW s \in Seq(S)
  PROVE  Len(Valued(s)) = Len(s) /\ (s = << >> => Valued(s) = << >>)
<1> DEFINE v == Valued(s)
<1>1. v = [i \in 1 .. Len(s) |-> s[i].value] /\ Len(s) \in Nat
  BY DEF Valued
<1>2. v \in Seq({s[i].value : i \in 1 .. Len(s)}) /\ Len(v) = Len(s)
  BY <1>1
<1> QED
  BY <1>2 DEF v

LEMMA ElementsAre ==
  ASSUME NEW E, E \in Seq(ToSet(E))
  PROVE  /\ Len(E) \in Nat /\ DOMAIN E = 1 .. Len(E)
         /\ \A i \in 1 .. Len(E) : E[i] \in ToSet(E)
BY DEF ToSet

LEMMA GotTurn ==
  ASSUME NEW E, E \in Seq(ToSet(E)), NEW kind
  PROVE  /\ Got(E, kind, 0) = << >>
         /\ \A i \in 0 .. Len(E) : Got(E, kind, i) \in Seq(ToSet(E))
         /\ \A i \in 1 .. Len(E) :
              Got(E, kind, i) = IF E[i].kind = kind THEN Append(Got(E, kind, i - 1), E[i])
                                ELSE Got(E, kind, i - 1)
<1> DEFINE T == Of(E, kind)
           S == ToSet(E)
<1>1. \A i \in 1 .. Len(E) : E[i] \in T <=> E[i].kind = kind
  BY ElementsAre DEF Of
<1>2. S \cap T \subseteq S
  OBVIOUS
<1> HIDE DEF T, S
<1>3. E \in Seq(S)
  BY DEF S
<1>4. /\ Selecting(E, T)[0] = << >>
      /\ \A i \in 1 .. Len(E) :
           Selecting(E, T)[i] = IF E[i] \in T THEN Append(Selecting(E, T)[i - 1], E[i])
                                ELSE Selecting(E, T)[i - 1]
  BY <1>3, SelectingUnfolds
<1>5. \A i \in 0 .. Len(E) : Selecting(E, T)[i] \in Seq(S \cap T)
  BY <1>3, SelectingTypes
<1>6. \A i \in 0 .. Len(E) : Selecting(E, T)[i] \in Seq(S)
  BY <1>2, <1>5
<1> QED
  BY <1>1, <1>4, <1>6 DEF Got, T, S

LEMMA GotNone ==
  ASSUME NEW E, E \in Seq(ToSet(E)), NEW kind, NEW n \in 0 .. Len(E)
  PROVE  Got(E, kind, n) = << >> <=> \A i \in 1 .. n : E[i].kind # kind
<1>1. \A i \in 1 .. n : E[i] \in Of(E, kind) <=> E[i].kind = kind
  BY ElementsAre DEF Of
<1>2. Got(E, kind, n) = << >> <=> \A i \in 1 .. n : E[i] \notin Of(E, kind)
  BY SelectingNone DEF Got
<1> QED
  BY <1>1, <1>2

LEMMA GotGrows ==
  ASSUME NEW E, E \in Seq(ToSet(E)), NEW kind, NEW n \in 0 .. Len(E)
  PROVE  Len(Got(E, kind, n)) <= Len(Got(E, kind, Len(E)))
BY SelectingGrows DEF Got, Selected

-----------------------------------------------------------------------------
(* Parsing.                                                                *)

\* A file the context may be given.
Content(c) ==
  /\ c # None /\ c.magic \in BOOLEAN /\ c.elements \in Seq(ToSet(c.elements))
  /\ \A e \in ToSet(c.elements) :
       /\ e.kind \in Kinds
       /\ e.kind = "publication" => e.value \in Records
       /\ e.kind = "certificate" => e.value \in CertIds \cup {None}

Codes == {"OK", "INVALID_FORMAT", "INVALID_ARGUMENT", "CRYPTO_FAILURE"}

Files(E) ==
  [header : BOOLEAN, certificates : Seq(CertIds), publications : Seq(Records),
   signature : {e.value : e \in ToSet(E)} \cup {None}, offset : Nat, sigOffset : Nat, res : Codes]

\* What has been read of the first i elements is in the file, and the offsets are
\* where the next element and the signature begin.
ReadSoFar(E, f, i) ==
  /\ f.publications = Valued(Got(E, "publication", i))
  /\ f.certificates = Valued(Got(E, "certificate", i))
  /\ Got(E, "signature", i) = << >> => f.signature = None /\ f.offset = Preceding(E)[i]
  /\ Got(E, "signature", i) # << >> =>
       /\ f.signature # None /\ <<f.signature>> = Valued(Got(E, "signature", i))
       /\ f.sigOffset = Preceding(E)[i]

LEMMA ReadElementType ==
  ASSUME NEW c, Content(c), NEW f \in Files(c.elements), NEW e \in ToSet(c.elements)
  PROVE  ReadElement(f, e) \in Files(c.elements)
<1> DEFINE F == Files(c.elements)
           S == {x.value : x \in ToSet(c.elements)} \cup {None}
<1>1. e.kind \in Kinds /\ (e.kind = "publication" => e.value \in Records)
      /\ (e.kind = "certificate" => e.value \in CertIds \cup {None}) /\ e.value \in S
  BY DEF Content
<1>2. F = [header : BOOLEAN, certificates : Seq(CertIds), publications : Seq(Records),
           signature : S, offset : Nat, sigOffset : Nat, res : Codes]
  BY DEF Files
<1>3. Size(e) \in Nat
  BY DEF Size
<1> HIDE DEF F, S
<1>4. ASSUME NEW g \in F PROVE Note(g, e) \in F /\ Note(g, e).certificates = g.certificates
  <2> DEFINE x == IF e.kind = "signature" THEN g.offset ELSE g.sigOffset
             y == g.offset + Size(e)
  <2>1. Note(g, e) = [g EXCEPT !.sigOffset = x, !.offset = y]
    BY <1>2 DEF Note
  <2>2. x \in Nat /\ y \in Nat
    BY <1>2, <1>3
  <2> HIDE DEF x, y
  <2> QED
    BY <1>2, <2>1, <2>2
<1>5. ASSUME NEW g \in F, NEW code \in Codes PROVE [g EXCEPT !.res = code] \in F
  BY <1>2
<1>6. ASSUME NEW g \in F, Known(g, e) PROVE Take(g, e) \in F
  <2>1. CASE e.kind = "header"
    BY <1>2, <2>1 DEF Take
  <2>2. CASE e.kind = "certificate"
    <3>1. CASE e.value = None
      <4>1. Take(g, e) = [g EXCEPT !.res = "INVALID_FORMAT"]
        BY <2>2, <3>1 DEF Take
      <4> QED
        BY <1>5, <4>1 DEF Codes
    <3>2. CASE e.value # None
      <4> DEFINE x == Append(g.certificates, e.value)
      <4>1. Take(g, e) = [g EXCEPT !.certificates = x]
        BY <2>2, <3>2 DEF Take
      <4>2. x \in Seq(CertIds)
        BY <1>1, <1>2, <2>2, <3>2
      <4> HIDE DEF x
      <4> QED
        BY <1>2, <4>1, <4>2
    <3> QED
      BY <3>1, <3>2
  <2>3. CASE e.kind = "publication"
    <3> DEFINE x == Append(g.publications, e.value)
    <3>1. Take(g, e) = [g EXCEPT !.publications = x]
      BY <2>3 DEF Take
    <3>2. x \in Seq(Records)
      BY <1>1, <1>2, <2>3
    <3> HIDE DEF x
    <3> QED
      BY <1>2, <3>1, <3>2
  <2>4. CASE e.kind = "signature"
    BY <1>1, <1>2, <2>4 DEF Take, Codes
  <2> QED
    BY <1>6, <2>1, <2>2, <2>3, <2>4 DEF Known
<1>7. f \in F /\ "INVALID_FORMAT" \in Codes /\ CutShort(e) \in Codes
  BY DEF F, Codes, CutShort
<1>8. Known(Note(f, e), e) <=> Known(f, e)
  <2>1. Note(f, e).header = f.header
    BY <1>2, <1>7 DEF Note
  <2> QED
    BY <2>1 DEF Known
<1>9. ReadElement(f, e) \in F
  <2>1. CASE f.res # "OK"
    BY <1>7, <2>1 DEF ReadElement
  <2>2. CASE f.res = "OK" /\ e.kind = "cut"
    BY <1>5, <1>7, <2>2 DEF ReadElement
  <2>3. CASE f.res = "OK" /\ e.kind # "cut" /\ Known(f, e)
    BY <1>4, <1>6, <1>7, <1>8, <2>3 DEF ReadElement
  <2>4. CASE f.res = "OK" /\ e.kind # "cut" /\ ~Known(f, e)
    <3>1. ReadElement(f, e) = IF e.critical THEN [f EXCEPT !.res = "INVALID_FORMAT"] ELSE Note(f, e)
      BY <2>4 DEF ReadElement
    <3> QED
      BY <1>4, <1>5, <1>7, <3>1
  <2> QED
    BY <2>1, <2>2, <2>3, <2>4
<1> QED
  BY <1>9 DEF F

\* Whether one more element can be read, and what the file is then.
Readable(f, e) ==
  /\ f.res = "OK" /\ e.kind # "cut"
  /\ ~Known(f, e) => ~e.critical
  /\ e.kind \in {"certificate", "signature"} => e.value # None
  /\ e.kind = "signature" => f.signature = None

WithElement(f, e) ==
  [header |-> f.header \/ e.kind = "header",
   certificates |-> IF e.kind = "certificate" THEN Append(f.certificates, e.value) ELSE f.certificates,
   publications |-> IF e.kind = "publication" THEN Append(f.publications, e.value) ELSE f.publications,
   signature |-> IF e.kind = "signature" THEN e.value ELSE f.signature,
   offset |-> f.offset + Size(e),
   sigOffset |-> IF e.kind = "signature" THEN f.offset ELSE f.sigOffset,
   res |-> "OK"]

LEMMA OffsetsChanged ==
  ASSUME NEW hd, NEW cs, NEW ps, NEW sg, NEW o, NEW so, NEW code, NEW f, NEW g, NEW x, NEW y,
         f = [header |-> hd, certificates |-> cs, publications |-> ps, signature |-> sg,
              offset |-> o, sigOffset |-> so, res |-> code],
         g = [f EXCEPT !.sigOffset = y, !.offset = x]
  PROVE  g = [header |-> hd, certificates |-> cs, publications |-> ps, signature |-> sg,
              offset |-> x, sigOffset |-> y, res |-> code]
<1>1. g = [header |-> g.header, certificates |-> g.certificates, publications |-> g.publications,
           signature |-> g.signature, offset |-> g.offset, sigOffset |-> g.sigOffset, res |-> g.res]
  OBVIOUS
<1>2. /\ g.header = hd /\ g.certificates = cs /\ g.publications = ps /\ g.signature = sg
      /\ g.offset = x /\ g.sigOffset = y /\ g.res = code
  OBVIOUS
<1> QED
  BY <1>1, <1>2

LEMMA ReadElementIs ==
  ASSUME NEW E, NEW f \in Files(E), NEW e, e.kind \in Kinds
  PROVE  /\ Readable(f, e) => ReadElement(f, e) = WithElement(f, e)
         /\ ~Readable(f, e) => ReadElement(f, e).res # "OK"
<1> DEFINE n == Note(f, e)
           g == ReadElement(f, e)
           w == WithElement(f, e)
           kind == e.kind
           hd == f.header
           cs == f.certificates
           ps == f.publications
           sg == f.signature
           x == f.offset + Size(e)
           y == IF e.kind = "signature" THEN f.offset ELSE f.sigOffset
<1>1. /\ f = [header |-> hd, certificates |-> cs, publications |-> ps, signature |-> sg,
              offset |-> f.offset, sigOffset |-> f.sigOffset, res |-> f.res]
      /\ hd \in BOOLEAN
  BY DEF Files
<1>2. n = [f EXCEPT !.sigOffset = y, !.offset = x]
  BY <1>1 DEF Note
<1>3. kind \in {"header", "certificate", "publication", "signature", "unknown", "cut"}
  BY DEF Kinds
<1>9. n = [header |-> hd, certificates |-> cs, publications |-> ps, signature |-> sg,
           offset |-> x, sigOffset |-> y, res |-> f.res]
  <2> DEFINE o == f.offset
             so == f.sigOffset
             code == f.res
  <2>1. f = [header |-> hd, certificates |-> cs, publications |-> ps, signature |-> sg,
             offset |-> o, sigOffset |-> so, res |-> code]
    BY <1>1
  <2> HIDE DEF x, y, n, hd, cs, ps, sg, o, so, code
  <2>2. n = [header |-> hd, certificates |-> cs, publications |-> ps, signature |-> sg,
             offset |-> x, sigOffset |-> y, res |-> code]
    BY <1>2, <2>1, OffsetsChanged
  <2> QED
    BY <2>2 DEF code
<1>4. w = [header |-> hd \/ kind = "header",
           certificates |-> IF kind = "certificate" THEN Append(cs, e.value) ELSE cs,
           publications |-> IF kind = "publication" THEN Append(ps, e.value) ELSE ps,
           signature |-> IF kind = "signature" THEN e.value ELSE sg,
           offset |-> x, sigOffset |-> y, res |-> "OK"]
  BY DEF WithElement
<1>5. CASE f.res # "OK"
  BY <1>5 DEF ReadElement, Readable
<1>6. CASE f.res = "OK" /\ kind = "cut"
  BY <1>1, <1>6 DEF ReadElement, CutShort, Readable
<1>7. CASE f.res = "OK" /\ kind # "cut" /\ ~Known(f, e)
  <2>1. g = IF e.critical THEN [f EXCEPT !.res = "INVALID_FORMAT"] ELSE n
    BY <1>7 DEF ReadElement
  <2>2. kind \in {"header", "unknown"} /\ (kind = "header" => hd)
    BY <1>3, <1>7 DEF Known
  <2>3. CASE e.critical
    <3>1. g.res = "INVALID_FORMAT"
      BY <1>1, <2>1, <2>3
    <3> QED
      BY <1>7, <2>3, <3>1 DEF Readable
  <2>4. CASE ~e.critical
    <3>1. Readable(f, e)
      BY <1>7, <2>2, <2>4 DEF Readable
    <3>2. (hd \/ kind = "header") = hd
      BY <1>1, <2>2
    <3> HIDE DEF x, y, n, w, kind, hd, cs, ps, sg
    <3>3. n = [header |-> hd, certificates |-> cs, publications |-> ps, signature |-> sg,
               offset |-> x, sigOffset |-> y, res |-> "OK"]
      BY <1>7, <1>9
    <3>4. w = n
      BY <1>4, <2>2, <3>2, <3>3
    <3> QED
      BY <2>1, <2>4, <3>1, <3>4 DEF w
  <2> QED
    BY <2>3, <2>4
<1>8. CASE f.res = "OK" /\ kind # "cut" /\ Known(f, e)
  <2>1. g = Take(n, e)
    BY <1>8 DEF ReadElement
  <2>2. kind \in {"certificate", "publication", "signature", "header"}
    BY <1>8 DEF Known
  <2>3. Readable(f, e) <=> /\ kind \in {"certificate", "signature"} => e.value # None
                           /\ kind = "signature" => sg = None
    BY <1>8 DEF Readable
  <2> HIDE DEF x, y, n, w, hd, cs, ps, sg
  <2>4. n = [header |-> hd, certificates |-> cs, publications |-> ps, signature |-> sg,
             offset |-> x, sigOffset |-> y, res |-> "OK"]
    BY <1>8, <1>9
  <2>5. CASE kind = "header"
    <3>1. g = [n EXCEPT !.header = TRUE]
      BY <2>1, <2>5 DEF Take
    <3>2. (hd \/ kind = "header") = TRUE
      BY <2>5
    <3> HIDE DEF kind
    <3>3. w = g
      BY <1>4, <2>4, <2>5, <3>1, <3>2
    <3> QED
      BY <2>3, <2>5, <3>3 DEF w
  <2>6. CASE kind = "publication"
    <3>1. g = [n EXCEPT !.publications = Append(n.publications, e.value)]
      BY <2>1, <2>6 DEF Take
    <3>2. (hd \/ kind = "header") = hd
      BY <1>1, <2>6
    <3> HIDE DEF kind
    <3>3. w = g
      BY <1>4, <2>4, <2>6, <3>1, <3>2
    <3> QED
      BY <2>3, <2>6, <3>3 DEF w
  <2>7. CASE kind = "certificate"
    <3>1. g = IF e.value = None THEN [n EXCEPT !.res = "INVALID_FORMAT"]
              ELSE [n EXCEPT !.certificates = Append(n.certificates, e.value)]
      BY <2>1, <2>7 DEF Take
    <3>2. (hd \/ kind = "header") = hd
      BY <1>1, <2>7
    <3> HIDE DEF kind
    <3>3. e.value = None => g.res = "INVALID_FORMAT"
      BY <2>4, <3>1
    <3>4. e.value # None => w = g
      BY <1>4, <2>4, <2>7, <3>1, <3>2
    <3> QED
      BY <2>3, <2>7, <3>3, <3>4 DEF w
  <2>8. CASE kind = "signature"
    <3>1. g = IF n.signature # None THEN [n EXCEPT !.res = "INVALID_FORMAT"]
              ELSE IF e.value = None THEN [n EXCEPT !.res = "CRYPTO_FAILURE"]
              ELSE [n EXCEPT !.signature = e.value]
      BY <2>1, <2>8 DEF Take
    <3>2. (hd \/ kind = "header") = hd
      BY <1>1, <2>8
    <3> HIDE DEF kind
    <3>3. sg # None \/ e.value = None => g.res \in {"INVALID_FORMAT", "CRYPTO_FAILURE"}
      BY <2>4, <3>1
    <3>4. sg = None /\ e.value # None => w = g
      BY <1>4, <2>4, <2>8, <3>1, <3>2
    <3> QED
      BY <2>3, <2>8, <3>3, <3>4 DEF w
  <2> QED
    BY <2>2, <2>5, <2>6, <2>7, <2>8
<1> QED
  BY <1>5, <1>6, <1>7, <1>8

\* One more element keeps the account of what has been read.
LEMMA ReadOneMore ==
  ASSUME NEW c, Content(c), NEW f \in Files(c.elements), NEW i \in 1 .. Len(c.elements),
         ReadSoFar(c.elements, f, i - 1), Readable(f, c.elements[i])
  PROVE  ReadSoFar(c.elements, WithElement(f, c.elements[i]), i)
<1> DEFINE E == c.elements
           e == c.elements[i]
           w == WithElement(f, e)
           Ps(k) == Got(E, "publication", k)
           Cs(k) == Got(E, "certificate", k)
           Ss(k) == Got(E, "signature", k)
           pre == Preceding(E)
<1>1. E \in Seq(ToSet(E)) /\ e \in ToSet(E) /\ i - 1 \in 0 .. Len(E) /\ i \in 0 .. Len(E)
      /\ Len(E) \in Nat
  BY ElementsAre DEF Content
<1>2. /\ w.certificates = IF e.kind = "certificate" THEN Append(f.certificates, e.value) ELSE f.certificates
      /\ w.publications = IF e.kind = "publication" THEN Append(f.publications, e.value) ELSE f.publications
      /\ w.signature = IF e.kind = "signature" THEN e.value ELSE f.signature
      /\ w.offset = f.offset + Size(e)
      /\ w.sigOffset = IF e.kind = "signature" THEN f.offset ELSE f.sigOffset
  BY DEF WithElement
<1>3. /\ f.publications = Valued(Ps(i - 1)) /\ f.certificates = Valued(Cs(i - 1))
      /\ Ss(i - 1) = << >> => f.signature = None /\ f.offset = pre[i - 1]
      /\ Ss(i - 1) # << >> =>
           f.signature # None /\ <<f.signature>> = Valued(Ss(i - 1)) /\ f.sigOffset = pre[i - 1]
  BY DEF ReadSoFar
<1>4. \A kind : /\ Got(E, kind, i - 1) \in Seq(ToSet(E))
                /\ Got(E, kind, i) = IF e.kind = kind THEN Append(Got(E, kind, i - 1), e)
                                     ELSE Got(E, kind, i - 1)
  BY <1>1, GotTurn
<1>5. pre[i] = IF \E j \in 1 .. i : E[j].kind = "signature" THEN pre[i - 1] ELSE pre[i - 1] + Size(e)
  BY <1>1, PrecedingUnfolds
<1>6. Ss(i) = << >> <=> ~\E j \in 1 .. i : E[j].kind = "signature"
  BY <1>1, GotNone
<1> HIDE DEF w, E, pre
<1>7. w.publications = Valued(Ps(i))
  <2>1. Valued(Append(Ps(i - 1), e)) = Append(Valued(Ps(i - 1)), e.value)
    BY <1>1, <1>4, ValuedAppend
  <2> QED
    BY <1>2, <1>3, <1>4, <2>1
<1>8. w.certificates = Valued(Cs(i))
  <2>1. Valued(Append(Cs(i - 1), e)) = Append(Valued(Cs(i - 1)), e.value)
    BY <1>1, <1>4, ValuedAppend
  <2> QED
    BY <1>2, <1>3, <1>4, <2>1
<1>9. CASE e.kind # "signature"
  <2>1. Ss(i) = Ss(i - 1)
    BY <1>4, <1>9
  <2>2. w.signature = f.signature /\ w.sigOffset = f.sigOffset
    BY <1>2, <1>9
  <2>3. CASE Ss(i) = << >>
    <3>1. pre[i] = pre[i - 1] + Size(e)
      BY <1>5, <1>6, <2>3
    <3>2. w.signature = None /\ w.offset = pre[i]
      BY <1>2, <1>3, <2>1, <2>2, <2>3, <3>1
    <3> QED
      BY <1>7, <1>8, <2>3, <3>2 DEF ReadSoFar, E, pre, w
  <2>4. CASE Ss(i) # << >>
    <3>1. pre[i] = pre[i - 1]
      BY <1>5, <1>6, <2>4
    <3>2. w.signature # None /\ <<w.signature>> = Valued(Ss(i)) /\ w.sigOffset = pre[i]
      BY <1>3, <2>1, <2>2, <2>4, <3>1
    <3> QED
      BY <1>7, <1>8, <2>4, <3>2 DEF ReadSoFar, E, pre, w
  <2> QED
    BY <2>3, <2>4
<1>10. CASE e.kind = "signature"
  <2>1. f.signature = None /\ e.value # None
    BY <1>10 DEF Readable, E
  <2>2. Ss(i - 1) = << >> /\ f.offset = pre[i - 1]
    BY <1>3, <2>1
  <2>3. Ss(i) = <<e>>
    <3>1. Ss(i) = Append(<< >>, e)
      BY <1>4, <1>10, <2>2
    <3> HIDE DEF e
    <3> QED
      BY <3>1
  <2>4. Valued(<<e>>) = <<e.value>> /\ <<e>> # << >>
    BY DEF Valued
  <2>5. pre[i] = pre[i - 1]
    <3>1. Ss(i) # << >>
      BY <2>3, <2>4
    <3> QED
      BY <1>5, <1>6, <3>1
  <2>6. w.signature = e.value /\ w.sigOffset = f.offset
    BY <1>2, <1>10
  <2>7. Ss(i) # << >> /\ w.signature # None /\ <<w.signature>> = Valued(Ss(i)) /\ w.sigOffset = pre[i]
    BY <2>1, <2>2, <2>3, <2>4, <2>5, <2>6
  <2> QED
    BY <1>7, <1>8, <2>7 DEF ReadSoFar, E, pre, w
<1> QED
  BY <1>9, <1>10

\* The account is right after every turn of the loop.
LEMMA ReadingKeeps ==
  ASSUME NEW c, Content(c)
  PROVE  LET E == c.elements IN
         \A i \in 0 .. Len(E) : /\ Reading(E)[i] \in Files(E)
                                /\ Reading(E)[i].res = "OK" => ReadSoFar(E, Reading(E)[i], i)
<1> DEFINE E == c.elements
           N == Len(E)
           R == Reading(E)
           Right(i) == R[i] \in Files(E) /\ (R[i].res = "OK" => ReadSoFar(E, R[i], i))
           G == {i \in 0 .. N : Right(i)}
<1>1. E \in Seq(ToSet(E)) /\ N \in Nat
  BY DEF Content
<1>2. R[0] = EmptyFile /\ \A i \in 1 .. N : R[i] = ReadElement(R[i - 1], E[i])
  BY <1>1, ReadingUnfolds
<1>3. \A e \in ToSet(E) : e.kind \in Kinds
  BY DEF Content
<1>4. \A i \in 1 .. N : E[i] \in ToSet(E)
  BY <1>1, ElementsAre
<1>5. 0 \in G
  <2>1. EmptyFile \in Files(E)
    BY DEF EmptyFile, Files, Codes
  <2>2. Valued(<< >>) = << >>
    BY DEF Valued
  <2>3. \A kind : Got(E, kind, 0) = << >>
    BY <1>1, GotTurn
  <2>4. Preceding(E)[0] = 0
    BY <1>1, PrecedingUnfolds
  <2>5. ReadSoFar(E, EmptyFile, 0)
    BY <2>2, <2>3, <2>4 DEF ReadSoFar, EmptyFile
  <2> QED
    BY <1>1, <1>2, <2>1, <2>5
<1> HIDE DEF R
<1>6. ASSUME NEW i \in 0 .. N - 1, i \in G PROVE i + 1 \in G
  <2>1. i + 1 \in 1 .. N /\ i + 1 \in 0 .. N /\ i + 1 - 1 = i
    BY <1>1
  <2>2. R[i + 1] = ReadElement(R[i], E[i + 1]) /\ E[i + 1] \in ToSet(E)
    BY <1>2, <1>4, <2>1
  <2>3. R[i] \in Files(E)
    BY <1>6
  <2>4. R[i + 1] \in Files(E)
    BY <2>2, <2>3, ReadElementType
  <2>5. CASE Readable(R[i], E[i + 1])
    <3>1. R[i + 1] = WithElement(R[i], E[i + 1])
      BY <1>3, <2>2, <2>3, <2>5, ReadElementIs
    <3>2. ReadSoFar(E, R[i], i)
      BY <1>6, <2>5 DEF Readable
    <3>3. ReadSoFar(E, R[i + 1], i + 1)
      BY <2>1, <2>3, <2>5, <3>1, <3>2, ReadOneMore
    <3> QED
      BY <2>1, <2>4, <3>3
  <2>6. CASE ~Readable(R[i], E[i + 1])
    <3>1. R[i + 1].res # "OK"
      BY <1>3, <2>2, <2>3, <2>6, ReadElementIs
    <3> QED
      BY <2>1, <2>4, <3>1
  <2> QED
    BY <2>5, <2>6
<1>7. \A i \in 0 .. N : i \in G
  <2> HIDE DEF G, N
  <2> QED
    BY <1>1, <1>5, <1>6, Induction
<1> QED
  BY <1>7 DEF R

LEMMA ParseIs ==
  ASSUME NEW c, Content(c), Parse(c).res = "OK"
  PROVE  LET E == c.elements
             f == Parse(c)
         IN  /\ f \in Files(E) /\ Mandatory(f)
             /\ f.publications = Values(E, "publication")
             /\ f.certificates = Values(E, "certificate")
             /\ <<f.signature>> = Values(E, "signature")
             /\ SignedDataLength(f) = MagicSize + SizeBefore(E)
<1> DEFINE E == c.elements
           N == Len(E)
           f == Parse(c)
           r == Reading(E)[N]
<1>1. f = r /\ Mandatory(r)
  <2>1. f = IF ~c.magic \/ (r.res = "OK" /\ ~Mandatory(r))
              THEN [EmptyFile EXCEPT !.res = "INVALID_FORMAT"] ELSE r
    BY DEF Parse
  <2>2. [EmptyFile EXCEPT !.res = "INVALID_FORMAT"].res = "INVALID_FORMAT"
    BY DEF EmptyFile
  <2>3. f.res = "OK"
    OBVIOUS
  <2> HIDE DEF r, f
  <2> QED
    BY <2>1, <2>2, <2>3
<1>2. N \in Nat /\ N \in 0 .. N /\ E \in Seq(ToSet(E))
  BY DEF Content
<1>3. r \in Files(E) /\ ReadSoFar(E, r, N)
  BY <1>1, <1>2, ReadingKeeps
<1>4. Got(E, "signature", N) # << >>
  BY <1>1, <1>3 DEF Mandatory, ReadSoFar
<1>5. r.sigOffset = Preceding(E)[N]
  BY <1>3, <1>4 DEF ReadSoFar
<1> QED
  BY <1>1, <1>3, <1>4, <1>5, ValuesAre DEF ReadSoFar, SignedDataLength, SizeBefore

\* A file that has what it must have is read, whatever the order of its elements.
LEMMA ProperParses ==
  ASSUME NEW c, Content(c), Proper(c)
  PROVE  Parse(c).res = "OK"
<1> DEFINE E == c.elements
           N == Len(E)
           R == Reading(E)
           Right(i) == R[i].res = "OK" /\ (R[i].header <=> Got(E, "header", i) # << >>)
           G == {i \in 0 .. N : Right(i)}
<1>1. E \in Seq(ToSet(E)) /\ N \in Nat /\ N \in 0 .. N
  BY DEF Content
<1>2. R[0] = EmptyFile /\ \A i \in 1 .. N : R[i] = ReadElement(R[i - 1], E[i])
  BY <1>1, ReadingUnfolds
<1>3. \A i \in 1 .. N : E[i] \in ToSet(E) /\ E[i].kind \in Kinds
  BY <1>1, ElementsAre DEF Content
<1>4. \A kind : Len(Values(E, kind)) = Len(Got(E, kind, N))
  <2>1. \A kind : Got(E, kind, N) \in Seq(ToSet(E))
    BY <1>1, GotTurn
  <2> QED
    BY <2>1, ValuesAre, ValuedLen
<1>5. /\ c.magic /\ Len(Got(E, "header", N)) = 1 /\ Len(Got(E, "signature", N)) = 1
      /\ Len(Got(E, "cut", N)) = 0
      /\ Len(Got(E, "certificate", N)) > 0 /\ Len(Got(E, "publication", N)) > 0
      /\ \A i \in DOMAIN E : /\ E[i].kind = "unknown" => ~E[i].critical
                             /\ E[i].kind \in {"certificate", "signature"} => E[i].value # None
  BY <1>4 DEF Proper
<1>6. \A i \in 0 .. N : /\ R[i] \in Files(E)
                        /\ R[i].res = "OK" => ReadSoFar(E, R[i], i)
  BY ReadingKeeps
<1>7. \A i \in 1 .. N : E[i].kind # "cut"
  <2>1. Got(E, "cut", N) \in Seq(ToSet(E))
    BY <1>1, GotTurn
  <2>2. Got(E, "cut", N) = << >>
    BY <1>5, <2>1
  <2> QED
    BY <1>1, <2>2, GotNone
\* What may be there once is not there a second time.
<1>8. ASSUME NEW kind \in {"header", "signature"}, NEW i \in 1 .. N, E[i].kind = kind
      PROVE  Got(E, kind, i - 1) = << >>
  <2>1. i - 1 \in 0 .. N /\ i \in 0 .. N
    BY <1>1
  <2>2. Got(E, kind, i - 1) \in Seq(ToSet(E)) /\ Got(E, kind, i) = Append(Got(E, kind, i - 1), E[i])
    BY <1>1, <1>8, <2>1, GotTurn
  <2>3. Len(Got(E, kind, i)) <= 1
    <3>1. Len(Got(E, kind, i)) <= Len(Got(E, kind, N))
      BY <1>1, <2>1, GotGrows
    <3>2. Len(Got(E, kind, N)) = 1
      BY <1>5
    <3> QED
      BY <3>1, <3>2
  <2> DEFINE x == Got(E, kind, i - 1)
             e == E[i]
  <2>4. x \in Seq(ToSet(E)) /\ e \in ToSet(E) /\ Len(Append(x, e)) <= 1
    BY <1>3, <2>2, <2>3
  <2> HIDE DEF x, e, E
  <2>5. Len(x) = 0
    BY <2>4
  <2>6. x = << >>
    BY <2>4, <2>5
  <2> QED
    BY <2>6 DEF x
<1>9. 0 \in G
  <2>1. Got(E, "header", 0) = << >>
    BY <1>1, GotTurn
  <2> QED
    BY <1>1, <1>2, <2>1 DEF EmptyFile
<1> HIDE DEF R
<1>10. ASSUME NEW i \in 0 .. N - 1, i \in G PROVE i + 1 \in G
  <2> DEFINE e == E[i + 1]
             f == R[i]
  <2>1. i + 1 \in 1 .. N /\ i + 1 \in 0 .. N /\ i \in 0 .. N /\ i + 1 - 1 = i /\ i + 1 \in DOMAIN E
    BY <1>1, ElementsAre
  <2>2. f \in Files(E) /\ f.res = "OK" /\ ReadSoFar(E, f, i) /\ (f.header <=> Got(E, "header", i) # << >>)
    BY <1>6, <1>10, <2>1
  <2>3. e.kind \in Kinds /\ e.kind # "cut"
    BY <1>3, <1>7, <2>1
  <2>4. e.kind = "signature" => f.signature = None
    BY <1>8, <2>1, <2>2 DEF ReadSoFar
  <2>5. e.kind = "header" => ~f.header
    BY <1>8, <2>1, <2>2
  <2>6. ~Known(f, e) => ~e.critical
    BY <1>5, <2>1, <2>3, <2>5 DEF Known, Kinds
  <2>7. Readable(f, e)
    BY <1>5, <2>1, <2>2, <2>3, <2>4, <2>6 DEF Readable
  <2>8. R[i + 1] = ReadElement(f, e)
    BY <1>2, <2>1
  <2>9. R[i + 1] = WithElement(f, e)
    BY <2>2, <2>3, <2>7, <2>8, ReadElementIs
  <2>10. R[i + 1].res = "OK" /\ R[i + 1].header = (f.header \/ e.kind = "header")
    BY <2>9 DEF WithElement
  <2>11. Got(E, "header", i + 1) # << >> <=> f.header \/ e.kind = "header"
    <3>1. /\ Got(E, "header", i) \in Seq(ToSet(E))
          /\ Got(E, "header", i + 1) = IF e.kind = "header" THEN Append(Got(E, "header", i), e)
                                       ELSE Got(E, "header", i)
      <4>1. /\ \A j \in 0 .. Len(E) : Got(E, "header", j) \in Seq(ToSet(E))
            /\ \A j \in 1 .. Len(E) :
                 Got(E, "header", j) = IF E[j].kind = "header" THEN Append(Got(E, "header", j - 1), E[j])
                                       ELSE Got(E, "header", j - 1)
        BY <1>1, GotTurn
      <4> DEFINE j == i + 1
      <4>2. j \in 1 .. Len(E) /\ j - 1 = i /\ i \in 0 .. Len(E)
        BY <2>1
      <4> HIDE DEF E, j
      <4>3. Got(E, "header", j) = IF E[j].kind = "header" THEN Append(Got(E, "header", j - 1), E[j])
                                  ELSE Got(E, "header", j - 1)
        BY <4>1, <4>2
      <4>4. Got(E, "header", i) \in Seq(ToSet(E))
        BY <4>1, <4>2
      <4> QED
        BY <4>2, <4>3, <4>4 DEF j
    <3>2. e \in ToSet(E)
      BY <1>3, <2>1
    <3>3. Append(Got(E, "header", i), e) # << >>
      BY <3>1, <3>2
    <3> QED
      BY <2>2, <3>1, <3>3
  <2> QED
    BY <2>1, <2>10, <2>11
<1>11. \A i \in 0 .. N : i \in G
  <2> HIDE DEF G, N
  <2> QED
    BY <1>1, <1>9, <1>10, Induction
<1>12. Right(N) /\ ReadSoFar(E, R[N], N)
  BY <1>1, <1>6, <1>11
<1>13. Mandatory(R[N])
  <2>1. \A kind : Got(E, kind, N) \in Seq(ToSet(E))
    BY <1>1, GotTurn
  <2>2. \A kind : Len(Got(E, kind, N)) > 0 => Valued(Got(E, kind, N)) # << >> /\ Got(E, kind, N) # << >>
    <3>1. ASSUME NEW kind, Len(Got(E, kind, N)) > 0
          PROVE  Valued(Got(E, kind, N)) # << >> /\ Got(E, kind, N) # << >>
      <4>1. Len(Valued(Got(E, kind, N))) = Len(Got(E, kind, N))
        BY <2>1, ValuedLen
      <4>2. Len(<< >>) = 0
        OBVIOUS
      <4> QED
        BY <3>1, <4>1, <4>2
    <3> QED
      BY <3>1
  <2>3. R[N].publications # << >> /\ R[N].certificates # << >>
    BY <1>5, <1>12, <2>2 DEF ReadSoFar
  <2>4. Got(E, "signature", N) # << >> /\ Got(E, "header", N) # << >>
    <3>1. Len(Got(E, "signature", N)) > 0 /\ Len(Got(E, "header", N)) > 0
      BY <1>5
    <3> QED
      BY <2>2, <3>1
  <2>5. R[N].signature # None /\ R[N].header
    BY <1>12, <2>4 DEF ReadSoFar
  <2> QED
    BY <2>3, <2>5 DEF Mandatory
<1> QED
  BY <1>5, <1>12, <1>13 DEF Parse, R

-----------------------------------------------------------------------------
(* Searching.                                                              *)

Later(pubs, t, i) == {r \in ToSet(pubs) : r.time > t /\ \E j \in 1 .. i : pubs[j] = r}

\* The nearest of the records that are later: one of them, and none is nearer.
IsNearest(best, later) ==
  IF later = {} THEN best = None ELSE best \in later /\ \A r \in later : best.time <= r.time

LEMMA NearerOne ==
  ASSUME NEW later \in SUBSET Records, NEW best, IsNearest(best, later), NEW r \in Records, NEW t \in Nat
  PROVE  IsNearest(Nearer(best, r, t), IF r.time > t THEN later \cup {r} ELSE later)
<1>1. \A x \in Records : x.time \in Nat /\ x # None
  BY TimesAssumption, NullAssumption DEF Records
<1>2. CASE ~(r.time > t)
  <2>1. ~(t < r.time)
    BY <1>1, <1>2
  <2> QED
    BY <1>2, <2>1 DEF Nearer
<1>3. CASE r.time > t
  <2>1. t < r.time
    BY <1>1, <1>3
  <2>2. CASE later = {}
    <3>1. best = None
      BY <2>2 DEF IsNearest
    <3>2. Nearer(best, r, t) = r
      BY <2>1, <3>1 DEF Nearer
    <3> QED
      BY <1>1, <1>3, <2>2, <3>2 DEF IsNearest
  <2>3. CASE later # {}
    <3>1. best \in later /\ best \in Records /\ \A x \in later : best.time <= x.time
      BY <2>3 DEF IsNearest
    <3>2. Nearer(best, r, t) = IF best.time > r.time THEN r ELSE best
      BY <1>1, <2>1, <3>1 DEF Nearer
    <3>3. CASE best.time > r.time
      <4>1. \A x \in later : r.time <= x.time
        <5> SUFFICES ASSUME NEW x \in later PROVE r.time <= x.time
          OBVIOUS
        <5>1. best.time <= x.time /\ x.time \in Nat /\ r.time \in Nat /\ best.time \in Nat
          BY <1>1, <3>1
        <5> QED
          BY <3>3, <5>1
      <4> QED
        BY <1>1, <1>3, <3>2, <3>3, <4>1 DEF IsNearest
    <3>4. CASE ~(best.time > r.time)
      <4>1. best.time <= r.time
        BY <1>1, <3>1, <3>4
      <4> QED
        BY <1>3, <3>1, <3>2, <3>4, <4>1 DEF IsNearest
    <3> QED
      BY <3>3, <3>4
  <2> QED
    BY <2>2, <2>3
<1> QED
  BY <1>2, <1>3

LEMMA NearestIs ==
  ASSUME NEW pubs \in Seq(Records), NEW t \in Nat
  PROVE  IsNearest(Nearest(pubs, t), {r \in ToSet(pubs) : r.time > t})
<1> DEFINE N == Len(pubs)
           B == Nearing(pubs, t)
           L(i) == Later(pubs, t, i)
           G == {i \in 0 .. N : IsNearest(B[i], L(i))}
<1>1. N \in Nat /\ N \in 0 .. N /\ \A i \in 1 .. N : pubs[i] \in Records /\ pubs[i] \in ToSet(pubs)
  BY DEF ToSet
<1>2. B[0] = None /\ \A i \in 1 .. N : B[i] = Nearer(B[i - 1], pubs[i], t)
  BY <1>1, NearingUnfolds
<1>3. ToSet(pubs) \subseteq Records /\ \A i : L(i) \in SUBSET Records
  BY <1>1 DEF ToSet, Later
<1> HIDE DEF B
<1>4. 0 \in G
  <2>1. L(0) = {}
    BY DEF Later
  <2> QED
    BY <1>1, <1>2, <2>1 DEF IsNearest
<1>5. ASSUME NEW i \in 0 .. N - 1, i \in G PROVE i + 1 \in G
  <2> DEFINE r == pubs[i + 1]
  <2>1. i + 1 \in 1 .. N /\ i + 1 \in 0 .. N /\ i + 1 - 1 = i
    BY <1>1
  <2>2. L(i + 1) = IF r.time > t THEN L(i) \cup {r} ELSE L(i)
    <3>1. \A x : (\E j \in 1 .. i + 1 : pubs[j] = x) <=> (\E j \in 1 .. i : pubs[j] = x) \/ x = r
      <4>1. \A j : j \in 1 .. i + 1 <=> j \in 1 .. i \/ j = i + 1
        BY <2>1
      <4> QED
        BY <4>1
    <3>2. r \in ToSet(pubs)
      BY <1>1, <2>1
    <3> HIDE DEF r
    <3> QED
      BY <3>1, <3>2 DEF Later
  <2>3. B[i + 1] = Nearer(B[i], r, t) /\ r \in Records
    BY <1>1, <1>2, <2>1
  <2>4. IsNearest(B[i], L(i)) /\ L(i) \in SUBSET Records
    BY <1>3, <1>5
  <2> HIDE DEF r, L
  <2>5. IsNearest(Nearer(B[i], r, t), IF r.time > t THEN L(i) \cup {r} ELSE L(i))
    BY <2>3, <2>4, NearerOne
  <2> QED
    BY <2>1, <2>2, <2>3, <2>5
<1>6. \A i \in 0 .. N : i \in G
  <2> HIDE DEF G, N
  <2> QED
    BY <1>1, <1>4, <1>5, Induction
<1>7. IsNearest(B[N], L(N))
  BY <1>1, <1>6
<1>8. L(N) = {r \in ToSet(pubs) : r.time > t}
  BY <1>1 DEF Later, ToSet
<1> QED
  BY <1>7, <1>8 DEF Nearest, B

LEMMA NearestType ==
  ASSUME NEW pubs \in Seq(Records), NEW t \in Nat
  PROVE  Nearest(pubs, t) \in Records \cup {None}
<1>1. ToSet(pubs) \subseteq Records
  BY DEF ToSet
<1> QED
  BY <1>1, NearestIs DEF IsNearest

\* The first in the list that is in the set is in both.
LEMMA FirstIs ==
  ASSUME NEW S, NEW s \in Seq(S), NEW T
  PROVE  IF ToSet(s) \cap T = {} THEN First(s, T) = None ELSE First(s, T) \in ToSet(s) \cap T
<1> DEFINE x == Selected(s, T)
           U == ToSet(s)
<1>1. /\ Len(s) \in Nat /\ (\A i \in 1 .. Len(s) : s[i] \in U) /\ s \in Seq(U)
      /\ \A e \in U : \E i \in 1 .. Len(s) : s[i] = e
  BY DEF ToSet
<1>2. x \in Seq(U \cap T)
  BY <1>1, SelectedType
<1>3. x = << >> <=> U \cap T = {}
  <2>1. x = << >> <=> \A i \in 1 .. Len(s) : s[i] \notin T
    BY SelectedNone
  <2> HIDE DEF x, U
  <2> QED
    BY <1>1, <2>1
<1>4. First(s, T) = IF x = << >> THEN None ELSE x[1]
  BY DEF First
<1> HIDE DEF x, U
<1>5. x # << >> => x[1] \in U \cap T
  BY <1>2
<1> QED
  BY <1>3, <1>4, <1>5 DEF U

LEMMA FirstType ==
  ASSUME NEW S, NEW s \in Seq(S), NEW T
  PROVE  First(s, T) \in S \cup {None}
<1>1. ToSet(s) \subseteq S
  BY DEF ToSet
<1> QED
  BY <1>1, FirstIs

-----------------------------------------------------------------------------
(* The inductive invariant.                                                *)

CallCodes ==
  {"OK", "INVALID_FORMAT", "NETWORK_ERROR", "INVALID_ARGUMENT", "CRYPTO_FAILURE",
   "INVALID_PUBLICATION", "INVALID_PKI_SIGNATURE", "PKI_CERTIFICATE_NOT_TRUSTED",
   "UNAVAILABLE_HASH_ALGORITHM"}
Pointers == Records \cup CertIds \cup {None}

\* The file is what its content parses to, now and since it was kept.
FileInv ==
  /\ file = None <=> content = None
  /\ file # None => Content(content) /\ file = Parse(content) /\ file.res = "OK"
  /\ trust = [roots |-> trust.roots, email |-> trust.email]
  /\ trust.roots \subseteq SystemRoots \cup UNION Stores /\ trust.email \in Emails \cup {None}
  /\ out \in Pointers
  /\ call.res \in CallCodes

LEMMA ContentIs ==
  \A c \in Contents \cup Given : Content(c) /\ Parse(c) # None
BY ContentsAssumption, ParseAssumption DEF Content

\* What the searches look through.
LEMMA ListsAre ==
  ASSUME FileInv, file # None
  PROVE  /\ file.publications \in Seq(Records) /\ file.certificates \in Seq(CertIds)
         /\ Mandatory(file)
BY ParseIs DEF FileInv, Files

LEMMA ParseCodes ==
  ASSUME NEW c, Content(c)
  PROVE  Parse(c).res \in Codes
<1> DEFINE E == c.elements
           r == Reading(E)[Len(E)]
<1>1. r \in Files(E)
  <2>1. Len(E) \in 0 .. Len(E)
    BY DEF Content
  <2> QED
    BY <2>1, ReadingKeeps
<1>2. r.res \in Codes
  BY <1>1 DEF Files
<1>3. Parse(c) = IF ~c.magic \/ (r.res = "OK" /\ ~Mandatory(r))
                 THEN [EmptyFile EXCEPT !.res = "INVALID_FORMAT"] ELSE r
  BY DEF Parse
<1>4. [EmptyFile EXCEPT !.res = "INVALID_FORMAT"].res \in Codes
  BY DEF EmptyFile, Codes
<1> HIDE DEF r
<1> QED
  BY <1>2, <1>3, <1>4

LEMMA TypedCodes ==
  ASSUME NEW s \in Typed
  PROVE  s.read.res \in CallCodes
<1>0. \E r \in Printed : \E texts, wrong : s \in Typing(r, texts, wrong)
  <2> DEFINE Of1(r) == Typing(r, {ToBase32(r), SelectSeq(ToBase32(r), LAMBDA c : c # Dash)}, FALSE)
             Of2(r) == Typing(r, Mistyped(ToBase32(r)) \ {ToBase32(r)}, TRUE)
  <2>1. Typed = UNION {Of1(r) \cup Of2(r) : r \in Printed}
    BY Zenon DEF Typed
  <2>2. \A r : \E texts, wrong : Of1(r) = Typing(r, texts, wrong)
    BY Zenon
  <2>3. \A r : \E texts, wrong : Of2(r) = Typing(r, texts, wrong)
    BY Zenon
  <2> HIDE DEF Of1, Of2
  <2>4. PICK r \in Printed : s \in Of1(r) \/ s \in Of2(r)
    BY <2>1
  <2> QED
    BY <2>2, <2>3, <2>4
<1>1. PICK text : s.read = FromBase32(text)
  <2>1. PICK r \in Printed : \E texts, wrong : s \in Typing(r, texts, wrong)
    BY <1>0
  <2>2. PICK texts, wrong : s \in Typing(r, texts, wrong)
    BY <2>1
  <2> QED
    BY <2>2 DEF Typing
<1>2. \A bytes : Judged(bytes) \in CallCodes
  BY DEF Judged, CallCodes
<1>3. Decode(text).res \in CallCodes
  BY DEF Decode, CallCodes
<1>4. FromBase32(text).res \in CallCodes
  BY <1>2, <1>3 DEF FromBase32, Read
<1> QED
  BY <1>1, <1>4

-----------------------------------------------------------------------------
(* Every operation keeps the invariant.                                    *)

LEMMA FileInit ==
  Init => FileInv
BY EmailsAssumption DEF Init, FileInv, CallCodes, Pointers

LEMMA SameFile ==
  ASSUME FileInv, UNCHANGED <<file, content, trust, out>>, call'.res \in CallCodes
  PROVE  FileInv'
BY DEF FileInv

LEMMA KeptFile ==
  ASSUME FileInv, NEW c \in Contents \cup Given, Keep(c), UNCHANGED trust,
         out' \in Pointers, call'.res \in CallCodes
  PROVE  FileInv'
<1>1. Content(c) /\ Parse(c) # None
  BY ContentIs
<1>2. CASE Parse(c).res = "OK"
  <2>1. file' = Parse(c) /\ content' = c
    BY <1>2 DEF Keep
  <2>2. c # None
    BY <1>1 DEF Content
  <2>3. file' = Parse(content') /\ Content(content') /\ file'.res = "OK" /\ file' # None /\ content' # None
    BY <1>1, <1>2, <2>1, <2>2
  <2> QED
    BY <2>3 DEF FileInv
<1>3. CASE Parse(c).res # "OK"
  <2>1. UNCHANGED <<file, content>>
    BY <1>3 DEF Keep
  <2> QED
    BY <2>1 DEF FileInv
<1> QED
  BY <1>2, <1>3

LEMMA ReceiveKeeps ==
  ASSUME FileInv, NEW c \in Contents, Receive(c)
  PROVE  FileInv'
<1>1. Keep(c) /\ UNCHANGED <<trust, out>> /\ call'.res = Parse(c).res
  BY DEF Receive, Call
<1>2. call'.res \in CallCodes
  BY <1>1, ContentIs, ParseCodes DEF Codes, CallCodes
<1>3. out' \in Pointers
  BY <1>1 DEF FileInv
<1> QED
  BY <1>1, <1>2, <1>3, KeptFile

LEMMA SetFileKeeps ==
  ASSUME FileInv, NEW c \in Given \cup {None}, SetPublicationsFile(c)
  PROVE  FileInv'
<1>1. out' = None /\ UNCHANGED trust /\ call'.res = "OK"
  BY DEF SetPublicationsFile
<1>2. out' \in Pointers /\ call'.res \in CallCodes
  BY <1>1 DEF Pointers, CallCodes
<1>3. CASE c = None
  <2>1. file' = None /\ content' = None
    BY <1>3 DEF SetPublicationsFile
  <2> QED
    BY <1>1, <1>2, <2>1 DEF FileInv
<1>4. CASE c # None
  <2>1. Keep(c)
    BY <1>4 DEF SetPublicationsFile
  <2> QED
    BY <1>1, <1>2, <1>4, <2>1, KeptFile
<1> QED
  BY <1>3, <1>4

LEMMA TrustKeeps ==
  ASSUME FileInv,
         \/ \E roots \in Stores \cup {None} : AddLookup(roots)
         \/ \E setDefaults \in BOOLEAN : SetPKITruststore(setDefaults)
         \/ \E email \in Emails \cup {None, ""} : SetPublicationCertEmail(email)
  PROVE  FileInv'
<1> DEFINE R == SystemRoots \cup UNION Stores
<1>1. trust = [roots |-> trust.roots, email |-> trust.email] /\ trust.roots \subseteq R
      /\ trust.email \in Emails \cup {None}
  BY DEF FileInv
<1> SUFFICES /\ UNCHANGED <<file, content, out>> /\ call'.res \in CallCodes
             /\ trust' = [roots |-> trust'.roots, email |-> trust'.email]
             /\ trust'.roots \subseteq R /\ trust'.email \in Emails \cup {None}
  BY DEF FileInv
<1>2. CASE \E roots \in Stores \cup {None} : AddLookup(roots)
  <2>1. PICK roots \in Stores \cup {None} : AddLookup(roots)
    BY <1>2
  <2>2. CASE roots = None
    <3>1. Setter("lookup", "INVALID_FORMAT") /\ UNCHANGED trust
      BY <2>1, <2>2 DEF AddLookup
    <3>2. UNCHANGED <<file, content, out>> /\ call'.res = "INVALID_FORMAT"
      BY <3>1 DEF Setter, Call
    <3> HIDE DEF R
    <3> QED
      BY <1>1, <3>1, <3>2 DEF CallCodes
  <2>3. CASE roots # None
    <3> DEFINE x == trust.roots \cup roots
    <3>1. Setter("lookup", "OK") /\ trust' = [trust EXCEPT !.roots = x]
      BY <2>1, <2>3 DEF AddLookup
    <3>2. UNCHANGED <<file, content, out>> /\ call'.res = "OK"
      BY <3>1 DEF Setter, Call
    <3>3. x \subseteq R
      BY <1>1, <2>3
    <3> HIDE DEF R, x
    <3> QED
      BY <1>1, <3>1, <3>2, <3>3 DEF CallCodes
  <2> QED
    BY <2>2, <2>3
<1>3. CASE \E setDefaults \in BOOLEAN : SetPKITruststore(setDefaults)
  <2>1. PICK setDefaults \in BOOLEAN : SetPKITruststore(setDefaults)
    BY <1>3
  <2> DEFINE x == IF setDefaults THEN SystemRoots ELSE {}
  <2>2. trust' = [trust EXCEPT !.roots = x] /\ UNCHANGED <<file, content, out>> /\ call'.res = "OK"
    BY <2>1 DEF SetPKITruststore, Setter, Call
  <2>3. x \subseteq R
    OBVIOUS
  <2> HIDE DEF x, R
  <2> QED
    BY <1>1, <2>2, <2>3 DEF CallCodes
<1>4. CASE \E email \in Emails \cup {None, ""} : SetPublicationCertEmail(email)
  <2>1. PICK email \in Emails \cup {None, ""} : SetPublicationCertEmail(email)
    BY <1>4
  <2> DEFINE x == IF email = "" THEN None ELSE email
  <2>2. trust' = [trust EXCEPT !.email = x] /\ UNCHANGED <<file, content, out>> /\ call'.res = "OK"
    BY <2>1 DEF SetPublicationCertEmail, Setter, Call
  <2>3. x \in Emails \cup {None}
    BY <2>1
  <2> HIDE DEF x, R
  <2> QED
    BY <1>1, <2>2, <2>3 DEF CallCodes
<1> QED
  BY <1>2, <1>3, <1>4

LEMMA VerifyKeeps ==
  ASSUME FileInv, Verify
  PROVE  FileInv'
<1>1. \A sig : CertificateVerdict(sig) \in CallCodes
  BY DEF CertificateVerdict, CallCodes
<1>2. UNCHANGED <<file, content, trust, out>>
  BY DEF Verify
<1>3. call'.res \in CallCodes
  <2>1. call'.res = "INVALID_PKI_SIGNATURE" \/ call'.res = CertificateVerdict(file.signature)
    BY DEF Verify, Call
  <2> QED
    BY <1>1, <2>1 DEF CallCodes
<1> QED
  BY <1>2, <1>3, SameFile

LEMMA SearchKeeps ==
  ASSUME FileInv, NEW op, NEW arg, NEW code \in CallCodes, NEW found \in Pointers,
         Search(op, arg, code, found)
  PROVE  FileInv'
<1>1. UNCHANGED <<file, content, trust>> /\ out' = found /\ call'.res = code
  BY DEF Search, Call
<1> QED
  BY <1>1 DEF FileInv

LEMMA SearchesKeep ==
  ASSUME FileInv, file # None,
         \/ \E t \in Times : GetNearestPublication(t) \/ GetPublicationDataByTime(t)
         \/ \E t \in Times \cup {None} : GetLatestPublication(t)
         \/ \E s \in Typed : GetPublicationDataByPublicationString(s)
         \/ \E r \in Records : FindPublication(r)
         \/ \E id \in CertIds : GetPKICertificateById(id)
  PROVE  FileInv'
<1> DEFINE ps == file.publications
           cs == file.certificates
<1>1. ps \in Seq(Records) /\ cs \in Seq(CertIds)
  BY ListsAre
<1>2. out \in Pointers
  BY DEF FileInv
<1>3. {"OK", "INVALID_ARGUMENT", "INVALID_PUBLICATION"} \subseteq CallCodes
  BY DEF CallCodes
<1> HIDE DEF ps, cs
<1>4. \A t \in Times : Nearest(ps, t) \in Pointers
  BY <1>1, NearestType, TimesAssumption DEF Pointers
<1>5. \A T : First(ps, T) \in Pointers /\ First(cs, T) \in Pointers
  BY <1>1, FirstType DEF Pointers
<1>6. \A t : ByTime(ps, t) \in Pointers
  BY <1>5 DEF ByTime
<1>7. \A r : FindRecord(ps, r) \in Pointers
  BY <1>5 DEF FindRecord
<1>8. CASE \E t \in Times : GetNearestPublication(t) \/ GetPublicationDataByTime(t)
  BY <1>3, <1>4, <1>6, <1>8, SearchKeeps DEF GetNearestPublication, GetPublicationDataByTime, ps
<1>9. CASE \E t \in Times \cup {None} : GetLatestPublication(t)
  <2>1. PICK t \in Times \cup {None} : GetLatestPublication(t)
    BY <1>9
  <2>2. CASE t = None
    <3>1. Search("latest", t, "INVALID_ARGUMENT", out)
      BY <2>1, <2>2 DEF GetLatestPublication
    <3> QED
      BY <1>2, <1>3, <3>1, SearchKeeps
  <2>3. CASE t # None
    <3>1. Search("latest", t, "OK", Nearest(ps, t)) /\ t \in Times
      BY <2>1, <2>3 DEF GetLatestPublication, ps
    <3> QED
      BY <1>3, <1>4, <3>1, SearchKeeps
  <2> QED
    BY <2>2, <2>3
<1>10. CASE \E s \in Typed : GetPublicationDataByPublicationString(s)
  <2>1. PICK s \in Typed : GetPublicationDataByPublicationString(s)
    BY <1>10
  <2>2. \/ Search("byString", s, s.read.res, out)
        \/ Search("byString", s, "INVALID_PUBLICATION", out)
        \/ Search("byString", s, "OK", ByTime(ps, s.read.record.time))
    BY <2>1 DEF GetPublicationDataByPublicationString, ps
  <2>3. s.read.res \in CallCodes
    BY TypedCodes
  <2> QED
    BY <1>2, <1>3, <1>6, <2>2, <2>3, SearchKeeps
<1>11. CASE \E r \in Records : FindPublication(r)
  <2>1. PICK r \in Records : FindPublication(r)
    BY <1>11
  <2> DEFINE x == IF FindRecord(ps, r) = None THEN out ELSE FindRecord(ps, r)
  <2>2. Search("find", r, "OK", x) /\ x \in Pointers
    BY <1>2, <1>7, <2>1 DEF FindPublication, ps
  <2> HIDE DEF x
  <2> QED
    BY <1>3, <2>2, SearchKeeps
<1>12. CASE \E id \in CertIds : GetPKICertificateById(id)
  <2>1. PICK id \in CertIds : GetPKICertificateById(id)
    BY <1>12
  <2> DEFINE x == IF First(cs, {id}) = None THEN out ELSE First(cs, {id})
  <2>2. Search("certificate", id, "OK", x) /\ x \in Pointers
    BY <1>2, <1>5, <2>1 DEF GetPKICertificateById, cs
  <2> HIDE DEF x
  <2> QED
    BY <1>3, <2>2, SearchKeeps
<1> QED
  BY <1>8, <1>9, <1>10, <1>11, <1>12

LEMMA FileStep ==
  ASSUME FileInv, [Next]_vars
  PROVE  FileInv'
<1>1. CASE UNCHANGED vars
  BY <1>1 DEF vars, FileInv
<1>2. CASE Next
  <2>1. CASE ReceiveCached \/ DownloadFails
    BY <2>1, SameFile DEF ReceiveCached, DownloadFails, Call, CallCodes
  <2> QED
    BY <1>2, <2>1, ReceiveKeeps, SetFileKeeps, TrustKeeps, VerifyKeeps, SearchesKeep DEF Next
<1> QED
  BY <1>1, <1>2

THEOREM FileInvariant == Spec => []FileInv
BY FileInit, FileStep, PTL DEF Spec

-----------------------------------------------------------------------------
(* The theorems.                                                           *)

\* The state stays within its types: a file that is kept is one that was parsed
\* whole, and what a search hands out is of the file.
THEOREM PublicationTypes == Spec => []TypeOK
<1>1. FileInv => TypeOK
  BY ListsAre DEF FileInv, TypeOK, CallCodes, Pointers
<1> QED
  BY <1>1, FileInvariant, PTL

\* The name of a call says which operation it was.
LEMMA CallNames ==
  ASSUME Next
  PROVE  /\ call'.op = "verify" => Verify
         /\ call'.op = "receive" =>
              (\E c \in Contents : Receive(c)) \/ ReceiveCached \/ DownloadFails
         /\ call'.op \in {"nearest", "latest"} =>
              /\ file # None
              /\ (\E t \in Times : GetNearestPublication(t))
                 \/ (\E t \in Times \cup {None} : GetLatestPublication(t))
         /\ call'.op = "find" => file # None /\ \E r \in Records : FindPublication(r)
<1>1. ASSUME \E c \in Contents : Receive(c) PROVE call'.op = "receive"
  BY <1>1 DEF Receive, Call
<1>2. ASSUME \E c \in Given \cup {None} : SetPublicationsFile(c) PROVE call'.op = "set"
  BY <1>2 DEF SetPublicationsFile
<1>3. ASSUME ReceiveCached \/ DownloadFails PROVE call'.op = "receive"
  BY <1>3 DEF ReceiveCached, DownloadFails, Call
<1>4. ASSUME Verify PROVE call'.op = "verify"
  BY <1>4 DEF Verify, Call
<1>5. ASSUME \E roots \in Stores \cup {None} : AddLookup(roots) PROVE call'.op = "lookup"
  <2>1. PICK roots : Setter("lookup", "INVALID_FORMAT") \/ Setter("lookup", "OK")
    BY <1>5 DEF AddLookup
  <2> QED
    BY <2>1 DEF Setter, Call
<1>6. ASSUME \E setDefaults \in BOOLEAN : SetPKITruststore(setDefaults) PROVE call'.op = "truststore"
  BY <1>6 DEF SetPKITruststore, Setter, Call
<1>7. ASSUME \E email \in Emails \cup {None, ""} : SetPublicationCertEmail(email)
      PROVE  call'.op = "email"
  <2>1. PICK email : Setter("email", "OK")
    BY <1>7 DEF SetPublicationCertEmail
  <2> QED
    BY <2>1 DEF Setter, Call
<1>8. \A op, arg, code, found : Search(op, arg, code, found) => call'.op = op
  BY DEF Search, Call
<1>9. ASSUME \E t \in Times : GetNearestPublication(t) PROVE call'.op = "nearest"
  BY <1>8, <1>9 DEF GetNearestPublication
<1>10. ASSUME \E t \in Times : GetPublicationDataByTime(t) PROVE call'.op = "byTime"
  BY <1>8, <1>10 DEF GetPublicationDataByTime
<1>11. ASSUME \E t \in Times \cup {None} : GetLatestPublication(t) PROVE call'.op = "latest"
  BY <1>8, <1>11 DEF GetLatestPublication
<1>12. ASSUME \E s \in Typed : GetPublicationDataByPublicationString(s) PROVE call'.op = "byString"
  <2>1. PICK s \in Typed : GetPublicationDataByPublicationString(s)
    BY <1>12
  <2>2. \E code, found : Search("byString", s, code, found)
    BY <2>1 DEF GetPublicationDataByPublicationString
  <2> QED
    BY <1>8, <2>2
<1>13. ASSUME \E r \in Records : FindPublication(r) PROVE call'.op = "find"
  BY <1>8, <1>13 DEF FindPublication
<1>14. ASSUME \E id \in CertIds : GetPKICertificateById(id) PROVE call'.op = "certificate"
  BY <1>8, <1>14 DEF GetPKICertificateById
<1>15. \/ \E c \in Contents : Receive(c)
       \/ \E c \in Given \cup {None} : SetPublicationsFile(c)
       \/ ReceiveCached \/ DownloadFails \/ Verify
       \/ \E roots \in Stores \cup {None} : AddLookup(roots)
       \/ \E setDefaults \in BOOLEAN : SetPKITruststore(setDefaults)
       \/ \E email \in Emails \cup {None, ""} : SetPublicationCertEmail(email)
       \/ file # None /\ \E t \in Times : GetNearestPublication(t)
       \/ \E t \in Times : GetPublicationDataByTime(t)
       \/ file # None /\ \E t \in Times \cup {None} : GetLatestPublication(t)
       \/ \E s \in Typed : GetPublicationDataByPublicationString(s)
       \/ file # None /\ \E r \in Records : FindPublication(r)
       \/ \E id \in CertIds : GetPKICertificateById(id)
  BY DEF Next
<1> QED
  BY <1>1, <1>2, <1>3, <1>4, <1>5, <1>6, <1>7, <1>9, <1>10, <1>11, <1>12, <1>13, <1>14, <1>15

LEMMA AcceptedStep ==
  ASSUME FileInv, AnyOrderAccepted, [Next]_vars
  PROVE  AnyOrderAccepted'
<1>1. CASE UNCHANGED vars
  BY <1>1 DEF vars, AnyOrderAccepted
<1>2. CASE Next
  <2> SUFFICES ASSUME call'.op = "receive", call'.arg PROVE call'.res = "OK"
    BY DEF AnyOrderAccepted
  <2>1. (\E c \in Contents : Receive(c)) \/ ReceiveCached \/ DownloadFails
    BY <1>2, CallNames
  <2>2. CASE \E c \in Contents : Receive(c)
    <3>1. PICK c \in Contents : Receive(c)
      BY <2>2
    <3>2. call'.arg = Proper(c) /\ call'.res = Parse(c).res
      BY <3>1 DEF Receive, Call
    <3> QED
      BY <3>2, ContentIs, ProperParses
  <2>3. CASE ReceiveCached
    BY <2>3 DEF ReceiveCached, Call
  <2>4. CASE DownloadFails
    BY <2>4 DEF DownloadFails, Call
  <2> QED
    BY <2>1, <2>2, <2>3, <2>4
<1> QED
  BY <1>1, <1>2

\* KSI_PublicationsFile_parse: a file that has what it must have is accepted whatever
\* the order of its elements, and of a file that is kept nothing is lost, doubled or
\* replaced.
THEOREM FilesParsedWhole == Spec => []ParsedWhole
<1>1. Init => AnyOrderAccepted
  BY DEF Init, AnyOrderAccepted
<1>2. FileInv => NothingLost
  BY ParseIs DEF FileInv, NothingLost
<1> QED
  BY <1>1, <1>2, AcceptedStep, FileInvariant, PTL DEF Spec, ParsedWhole

LEMMA VerifiesStep ==
  ASSUME FileInv, GenuineVerifies, [Next]_vars
  PROVE  GenuineVerifies'
<1>1. CASE UNCHANGED vars
  BY <1>1 DEF vars, GenuineVerifies
<1>2. CASE Next
  <2> DEFINE sig == Values(content.elements, "signature")[1]
  <2> SUFFICES ASSUME call'.op = "verify"
               PROVE  (call'.res = "OK") = (/\ sig'.genuine /\ sig'.signers = 1
                                            /\ trust'.email \in {None, sig'.email}
                                            /\ sig'.root \in trust'.roots)
    BY DEF GenuineVerifies
  <2>1. Verify /\ file # None
    BY <1>2, CallNames DEF Verify
  <2>2. UNCHANGED <<file, content, trust, out>> /\ sig' = sig
    BY <2>1 DEF Verify
  <2>3. /\ <<file.signature>> = Values(content.elements, "signature")
        /\ SignedDataLength(file) = MagicSize + SizeBefore(content.elements)
    BY <2>1, ParseIs DEF FileInv
  <2>4. file.signature = sig
    <3>1. <<file.signature>>[1] = file.signature
      OBVIOUS
    <3> QED
      BY <2>3, <3>1
  <2>5. call'.res = IF sig.genuine THEN CertificateVerdict(sig) ELSE "INVALID_PKI_SIGNATURE"
    BY <2>1, <2>3, <2>4 DEF Verify, Call
  <2> HIDE DEF sig
  <2>6. CertificateVerdict(sig) = "OK" <=> /\ sig.signers = 1
                                           /\ trust.email \in {None, sig.email}
                                           /\ sig.root \in trust.roots
    BY DEF CertificateVerdict
  <2>7. call'.res = "OK" <=> (/\ sig.genuine /\ sig.signers = 1
                              /\ trust.email \in {None, sig.email} /\ sig.root \in trust.roots)
    BY <2>5, <2>6
  <2> QED
    BY <2>2, <2>7
<1> QED
  BY <1>1, <1>2

\* KSI_PublicationsFile_verify: whatever was skipped or stands behind it, a file verifies
\* exactly if its signature was made over all that stands before it by one signer that
\* the context trusts now.
THEOREM GenuineFilesVerify == Spec => []GenuineVerifies
<1>1. Init => GenuineVerifies
  BY DEF Init, GenuineVerifies
<1> QED
  BY <1>1, VerifiesStep, FileInvariant, PTL DEF Spec

LEMMA NearestStep ==
  ASSUME FileInv, NearestIsNext, [Next]_vars
  PROVE  NearestIsNext'
<1>1. CASE UNCHANGED vars
  BY <1>1 DEF vars, NearestIsNext
<1>2. CASE Next
  <2> DEFINE ps == file.publications
             Nxt(t, x) == IsNearest(x, {r \in ToSet(ps) : r.time > t})
  <2> SUFFICES ASSUME call'.op \in {"nearest", "latest"}, call'.res = "OK"
               PROVE  Nxt(call.arg, out)'
    BY DEF NearestIsNext, IsNearest
  <2>1. /\ file # None
        /\ (\E t \in Times : GetNearestPublication(t))
           \/ (\E t \in Times \cup {None} : GetLatestPublication(t))
    BY <1>2, CallNames
  <2>2. \E t \in Times : \E op : Search(op, t, "OK", Nearest(ps, t))
    <3>1. CASE \E t \in Times : GetNearestPublication(t)
      BY <3>1 DEF GetNearestPublication
    <3>2. CASE \E t \in Times \cup {None} : GetLatestPublication(t)
      <4>1. PICK t \in Times \cup {None} : GetLatestPublication(t)
        BY <3>2
      <4>2. t # None
        BY <4>1 DEF GetLatestPublication, Search, Call
      <4> QED
        BY <4>1, <4>2 DEF GetLatestPublication
    <3> QED
      BY <2>1, <3>1, <3>2
  <2>3. PICK t \in Times : \E op : Search(op, t, "OK", Nearest(ps, t))
    BY <2>2
  <2>4. call'.arg = t /\ out' = Nearest(ps, t) /\ ps' = ps
    BY <2>3 DEF Search, Call
  <2>5. ps \in Seq(Records) /\ t \in Nat
    BY <2>1, ListsAre, TimesAssumption
  <2> HIDE DEF ps
  <2>6. Nxt(t, Nearest(ps, t))
    BY <2>5, NearestIs
  <2> QED
    BY <2>4, <2>6
<1> QED
  BY <1>1, <1>2

\* KSI_PublicationsFile_getNearestPublication, KSI_PublicationsFile_getLatestPublication:
\* what they hand out is later than the time, no record lies between, and NULL means that
\* no record is later, in whatever order the records are.
THEOREM NearestIsNextOne == Spec => []NearestIsNext
<1>1. Init => NearestIsNext
  BY DEF Init, NearestIsNext
<1> QED
  BY <1>1, NearestStep, FileInvariant, PTL DEF Spec

LEMMA RecordStep ==
  ASSUME FileInv, RecordFinds, [Next]_vars
  PROVE  RecordFinds'
<1>1. CASE UNCHANGED vars
  BY <1>1 DEF vars, RecordFinds
<1>2. CASE Next
  <2> DEFINE ps == file.publications
  <2> SUFFICES ASSUME call'.op = "find"
               PROVE  out' = IF call'.arg \in ToSet(ps') THEN call'.arg ELSE call'.before
    BY DEF RecordFinds
  <2>1. PICK r \in Records : file # None /\ FindPublication(r)
    BY <1>2, CallNames
  <2>2. /\ out' = IF First(ps, {r}) = None THEN out ELSE First(ps, {r})
        /\ ps' = ps /\ call'.arg = r /\ call'.before = out
    BY <2>1 DEF FindPublication, FindRecord, Search, Call
  <2>3. ps \in Seq(Records) /\ r # None
    BY <2>1, ListsAre, NullAssumption
  <2> HIDE DEF ps
  <2>4. IF r \in ToSet(ps) THEN First(ps, {r}) = r ELSE First(ps, {r}) = None
    BY <2>3, FirstIs
  <2> QED
    BY <2>2, <2>3, <2>4
<1> QED
  BY <1>1, <1>2

\* KSI_PublicationsFile_findPublication: a record is found just if the file has it, and
\* the caller's pointer is left alone otherwise.
THEOREM RecordsAreFound == Spec => []RecordFinds
<1>1. Init => RecordFinds
  BY DEF Init, RecordFinds
<1> QED
  BY <1>1, RecordStep, FileInvariant, PTL DEF Spec
=============================================================================
