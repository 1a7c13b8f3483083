------------------------- MODULE SignatureObjectProofs -------------------------
(***************************************************************************)
(* Proofs about SignatureObject, for signatures of any number of elements, *)
(* any answers of the extender and any number of handles.                  *)
(***************************************************************************)
EXTENDS SignatureObject, SelectionProofs

-----------------------------------------------------------------------------
(* The inductive invariant.                                                *)

\* The elements a TLV may get.
CalChains == Answers \ {Incomplete}
Records == Publications \ {Incomplete}
Initial == UNION {Range(tlv) : tlv \in Inputs \cup Responses}
CalElements == {Element("cal", c) : c \in CalChains}
PubElements == {Element("pub", p) : p \in Records}
All == Initial \cup CalElements \cup PubElements

CalValues == CalChains \cup {None} \cup {Value(tlv, "cal") : tlv \in Inputs \cup Responses}
PubValues == Records \cup {None} \cup {Value(tlv, "pub") : tlv \in Inputs}

Shape(o) ==
  o = [aggr |-> o.aggr, cal |-> o.cal, auth |-> o.auth, pub |-> o.pub,
       result |-> o.result, origin |-> o.origin, tlv |-> o.tlv]

\* The fields that are not chains of aggregation are what the TLV says.
Mirrored(o) ==
  o.cal = Value(o.tlv, "cal") /\ o.auth = Value(o.tlv, "auth") /\ o.pub = Value(o.tlv, "pub")

\* At most one anchor, also in an object that was never parsed.
OneAnchor(tlv) == Len(WithTag(tlv, "pub")) + Len(WithTag(tlv, "auth")) <= 1

\* The chains are sorted when an object is parsed, not when it is created.
ChainsKept(o) ==
  IF o.origin = "created" THEN o.aggr = Values(o.tlv, "aggr")
  ELSE Accepted(o.tlv) /\ o.aggr = SortChains(Values(o.tlv, "aggr"))

Kept(o) ==
  /\ Shape(o) /\ o.tlv \in Seq(All)
  /\ o.cal \in CalValues /\ o.pub \in PubValues
  /\ o.origin \in {"parsed", "created", "extended"}
  /\ AcceptedResponse(o.tlv) /\ OneAnchor(o.tlv)
  /\ Mirrored(o) /\ ChainsKept(o)

Results == {"OK", "ERROR", "INVALID_FORMAT", "EXTEND_WRONG_CAL_CHAIN", "VERIFICATION_FAILURE"}

ObjectsInv ==
  /\ objs = [h \in Handles |-> objs[h]]
  /\ \A h \in InUse : Kept(objs[h])
  /\ res \in Results

-----------------------------------------------------------------------------
(* The elements of a TLV.                                                  *)

LEMMA AllTagged ==
  \A e \in All : e.tag \in Tags
<1> SUFFICES ASSUME NEW e \in All PROVE e.tag \in Tags
  OBVIOUS
<1>1. CASE e \in Initial
  <2>1. PICK tlv \in Inputs \cup Responses : e \in Range(tlv)
    BY <1>1 DEF Initial
  <2> QED
    BY <2>1, InputsAssumption DEF Range
<1>2. CASE e \in CalElements
  BY <1>2 DEF CalElements, Element, Tags, KnownTags
<1>3. CASE e \in PubElements
  BY <1>3 DEF PubElements, Element, Tags, KnownTags
<1> QED
  BY <1>1, <1>2, <1>3 DEF All

LEMMA InputTypes ==
  ASSUME NEW tlv \in Inputs \cup Responses
  PROVE  tlv \in Seq(All)
<1>1. tlv \in Seq(Range(tlv))
  BY InputsAssumption
<1>2. Range(tlv) \subseteq All
  BY DEF All, Initial
<1> QED
  BY <1>1, <1>2

With(tags) == {e \in All : e.tag \in tags}

\* The set selected from does not depend on the TLV.
LEMMA KeepingIs ==
  ASSUME NEW tlv \in Seq(All), NEW tags
  PROVE  Keeping(tlv, tags) = Selected(tlv, With(tags))
<1>1. \A i \in 1 .. Len(tlv) : tlv[i] \in Range(tlv) /\ tlv[i] \in All
  BY DEF Range
<1>2. \A i \in 1 .. Len(tlv) : tlv[i] \in {e \in Range(tlv) : e.tag \in tags} <=> tlv[i] \in With(tags)
  BY <1>1 DEF With
<1> QED
  BY <1>2, SelectedAgrees DEF Keeping

LEMMA KeepingType ==
  ASSUME NEW tlv \in Seq(All), NEW tags
  PROVE  Keeping(tlv, tags) \in Seq(All)
BY KeepingIs, SelectedType

LEMMA KeepingTwice ==
  ASSUME NEW tlv \in Seq(All), NEW A, NEW B
  PROVE  Keeping(Keeping(tlv, A), B) = Keeping(tlv, A \cap B)
<1>1. Keeping(tlv, A) = Selected(tlv, With(A)) /\ Keeping(tlv, A \cap B) = Selected(tlv, With(A \cap B))
  BY KeepingIs
<1>2. Keeping(Keeping(tlv, A), B) = Selected(Keeping(tlv, A), With(B))
  BY KeepingIs, KeepingType
<1>3. Selected(Selected(tlv, With(A)), With(B)) = Selected(tlv, With(A) \cap With(B))
  BY SelectedTwice
<1>4. With(A) \cap With(B) = With(A \cap B)
  BY DEF With
<1> QED
  BY <1>1, <1>2, <1>3, <1>4

LEMMA KeepingNothing ==
  ASSUME NEW tlv \in Seq(All)
  PROVE  Keeping(tlv, {}) = << >>
<1>1. With({}) = {}
  BY DEF With
<1> QED
  BY <1>1, KeepingIs, SelectedNone

\* What is left of a kind of element when some kinds are removed.
LEMMA WithTagOfKeeping ==
  ASSUME NEW tlv \in Seq(All), NEW tags, NEW tag \in Tags
  PROVE  WithTag(Keeping(tlv, Tags \ tags), tag) = IF tag \in tags THEN << >> ELSE WithTag(tlv, tag)
<1>1. WithTag(Keeping(tlv, Tags \ tags), tag) = Keeping(tlv, (Tags \ tags) \cap {tag})
  BY KeepingTwice DEF WithTag
<1>2. CASE tag \in tags
  <2>1. (Tags \ tags) \cap {tag} = {}
    BY <1>2
  <2> QED
    BY <1>1, <1>2, <2>1, KeepingNothing
<1>3. CASE tag \notin tags
  <2>1. (Tags \ tags) \cap {tag} = {tag}
    BY <1>3
  <2> QED
    BY <1>1, <1>3, <2>1 DEF WithTag
<1> QED
  BY <1>2, <1>3

LEMMA WithTagOfAppend ==
  ASSUME NEW tlv \in Seq(All), NEW e \in All, NEW tag
  PROVE  WithTag(Append(tlv, e), tag) = IF e.tag = tag THEN Append(WithTag(tlv, tag), e)
                                        ELSE WithTag(tlv, tag)
<1>1. Append(tlv, e) \in Seq(All)
  OBVIOUS
<1>2. /\ WithTag(Append(tlv, e), tag) = Selected(Append(tlv, e), With({tag}))
      /\ WithTag(tlv, tag) = Selected(tlv, With({tag}))
  BY <1>1, KeepingIs DEF WithTag
<1>3. e \in With({tag}) <=> e.tag = tag
  BY DEF With
<1> QED
  BY <1>2, <1>3, SelectedOfAppend

LEMMA WithTagType ==
  ASSUME NEW tlv \in Seq(All), NEW tag
  PROVE  /\ WithTag(tlv, tag) \in Seq(All) /\ WithTag(tlv, tag) \in Seq(With({tag}))
         /\ Len(WithTag(tlv, tag)) \in Nat
<1>1. All \cap With({tag}) = With({tag})
  BY DEF With
<1> DEFINE T == With({tag})
<1>2. WithTag(tlv, tag) = Selected(tlv, T)
  BY KeepingIs DEF WithTag
<1> HIDE DEF T
<1>3. Selected(tlv, T) \in Seq(All \cap T) /\ Selected(tlv, T) \in Seq(All)
  BY SelectedType
<1>4. All \cap T = T
  BY <1>1 DEF T
<1>5. Selected(tlv, T) \in Seq(T)
  BY <1>3, <1>4
<1>6. Len(Selected(tlv, T)) \in Nat
  BY <1>3
<1> QED
  BY <1>2, <1>3, <1>5, <1>6 DEF T

\* Another calendar chain in the place of the one there is.
Replaced(tlv, chain) == [tlv EXCEPT ![PositionOf(tlv, "cal")] = Element("cal", chain)]

LEMMA PositionIs ==
  ASSUME NEW tlv \in Seq(All), WithTag(tlv, "cal") # << >>
  PROVE  PositionOf(tlv, "cal") \in 1 .. Len(tlv) /\ tlv[PositionOf(tlv, "cal")].tag = "cal"
<1> DEFINE First(i) == tlv[i].tag = "cal" /\ \A j \in 1 .. i - 1 : tlv[j].tag # "cal"
           places == {i \in 1 .. Len(tlv) : tlv[i].tag = "cal"}
<1>1. \E i \in 1 .. Len(tlv) : tlv[i] \in With({"cal"})
  BY KeepingIs, SelectedNone DEF WithTag
<1>2. places # {} /\ places \subseteq Nat
  BY <1>1 DEF With
<1>3. PICK i \in places : \A j \in places : i <= j
  <2> HIDE DEF places
  <2> QED
    BY <1>2, LeastNumber
<1>4. i \in 1 .. Len(tlv) /\ tlv[i].tag = "cal"
  BY <1>3
<1>5. ASSUME NEW j \in 1 .. i - 1 PROVE tlv[j].tag # "cal"
  <2>1. j \in 1 .. Len(tlv) /\ ~(i <= j)
    BY <1>4
  <2> QED
    BY <2>1, <1>3
<1>6. First(i) /\ i \in DOMAIN tlv /\ DOMAIN tlv = 1 .. Len(tlv)
  BY <1>4, <1>5
<1>7. PositionOf(tlv, "cal") = CHOOSE k \in DOMAIN tlv : First(k)
  BY DEF PositionOf
<1> HIDE DEF First
<1>8. PositionOf(tlv, "cal") \in DOMAIN tlv /\ First(PositionOf(tlv, "cal"))
  BY <1>6, <1>7
<1> QED
  BY <1>6, <1>8 DEF First

LEMMA WithTagOfReplaced ==
  ASSUME NEW tlv \in Seq(All), NEW chain \in CalChains,
         WithTag(tlv, "cal") # << >>, Len(WithTag(tlv, "cal")) <= 1
  PROVE  /\ Replaced(tlv, chain) \in Seq(All)
         /\ \A tag \in Tags \ {"cal"} : WithTag(Replaced(tlv, chain), tag) = WithTag(tlv, tag)
         /\ WithTag(Replaced(tlv, chain), "cal") = <<Element("cal", chain)>>
<1> DEFINE p == PositionOf(tlv, "cal")
           e == Element("cal", chain)
           t == Replaced(tlv, chain)
<1>1. p \in 1 .. Len(tlv) /\ tlv[p].tag = "cal"
  BY PositionIs
<1>2. e \in All /\ e.tag = "cal"
  BY DEF All, CalElements, Element
<1>3. t = [tlv EXCEPT ![p] = e]
  BY DEF Replaced
<1> HIDE DEF p, e, t
<1>4. /\ t \in Seq(All) /\ Len(t) = Len(tlv) /\ t[p] = e
      /\ \A i \in 1 .. Len(tlv) : i # p => t[i] = tlv[i]
  BY <1>1, <1>2, <1>3
<1>5. \A i \in 1 .. Len(tlv) : tlv[i] \in All /\ t[i] \in All
  BY <1>4
<1>6. ASSUME NEW tag \in Tags \ {"cal"} PROVE WithTag(t, tag) = WithTag(tlv, tag)
  <2> DEFINE T == With({tag})
  <2>1. \A i \in 1 .. Len(tlv) : (tlv[i] \in T <=> t[i] \in T) /\ (tlv[i] \in T => tlv[i] = t[i])
    BY <1>1, <1>2, <1>4 DEF With
  <2>2. WithTag(t, tag) = Selected(t, T) /\ WithTag(tlv, tag) = Selected(tlv, T)
    BY <1>4, KeepingIs DEF WithTag
  <2> HIDE DEF T
  <2>3. Selected(tlv, T) = Selected(t, T)
    BY <1>4, <2>1, SelectedAgrees
  <2> QED
    BY <2>2, <2>3
<1>7. WithTag(t, "cal") = <<e>>
  <2> DEFINE T == With({"cal"})
             x == Selected(t, T)
  <2>1. \A i \in 1 .. Len(tlv) : t[i] \in T <=> tlv[i] \in T
    BY <1>1, <1>2, <1>4, <1>5 DEF With
  <2>2. WithTag(t, "cal") = x /\ WithTag(tlv, "cal") = Selected(tlv, T)
    BY <1>4, KeepingIs DEF WithTag
  <2>3. p \in 1 .. Len(t) /\ t[p] \in T
    BY <1>1, <1>2, <1>4 DEF With
  <2> HIDE DEF T
  <2>4. Len(x) = Len(Selected(tlv, T))
    BY <1>4, <2>1, SelectedSamePlaces
  <2>5. x \in Seq(All)
    BY <1>4, SelectedType
  <2>6. \E k \in 1 .. Len(x) : x[k] = e
    BY <1>4, <2>3, SelectedHas
  <2> HIDE DEF x
  <2>7. Len(x) <= 1 /\ Len(x) \in Nat
    BY <2>2, <2>4, <2>5
  <2>8. Len(x) = 1 /\ x[1] = e
    <3>1. PICK k \in 1 .. Len(x) : x[k] = e
      BY <2>6
    <3>2. k = 1 /\ Len(x) = 1
      <4> DEFINE n == Len(x)
      <4>1. k \in 1 .. n /\ n \in Nat /\ n <= 1
        BY <3>1, <2>7
      <4> HIDE DEF n
      <4>2. k = 1 /\ n = 1
        BY <4>1
      <4> QED
        BY <4>2 DEF n
    <3> QED
      BY <3>1, <3>2
  <2>9. x = <<e>>
    BY <2>5, <2>8
  <2> QED
    BY <2>2, <2>9
<1> QED
  BY <1>4, <1>6, <1>7 DEF t, e

-----------------------------------------------------------------------------
(* The changes of an object keep the invariant.                            *)

\* Fields and elements that the other operators depend on.
LEMMA SameElements ==
  ASSUME NEW s, NEW t, NEW tag, WithTag(s, tag) = WithTag(t, tag)
  PROVE  Values(s, tag) = Values(t, tag) /\ Value(s, tag) = Value(t, tag)
BY DEF Values, Value

LEMMA ValueOfNothing ==
  ASSUME NEW s, NEW tag, WithTag(s, tag) = << >>
  PROVE  Value(s, tag) = None
BY DEF Value

LEMMA ValueOfOne ==
  ASSUME NEW s, NEW tag, NEW val, WithTag(s, tag) = <<Element(tag, val)>>
  PROVE  Value(s, tag) = val /\ Len(WithTag(s, tag)) = 1 /\ WithTag(s, tag) # << >>
<1>1. <<Element(tag, val)>> # << >> /\ <<Element(tag, val)>>[1] = Element(tag, val)
      /\ Element(tag, val).val = val /\ Len(<<Element(tag, val)>>) = 1
  BY DEF Element
<1> QED
  BY <1>1 DEF Value

\* The anchors are gone, the other elements are not.
LEMMA AnchorsRemoved ==
  ASSUME NEW tlv \in Seq(All)
  PROVE  LET t == Keeping(tlv, Tags \ {"auth", "pub"}) IN
         /\ t \in Seq(All)
         /\ WithTag(t, "auth") = << >> /\ WithTag(t, "pub") = << >>
         /\ \A tag \in Tags \ {"auth", "pub"} : WithTag(t, tag) = WithTag(tlv, tag)
BY KeepingType, WithTagOfKeeping DEF Tags, KnownTags

LEMMA TagNames ==
  /\ "aggr" \in Tags \ {"auth", "pub", "cal"} /\ "critical" \in Tags \ {"auth", "pub", "cal"}
  /\ "cal" \in Tags \ {"auth", "pub"} /\ "auth" \in Tags /\ "pub" \in Tags
  /\ Len(<< >>) = 0
BY DEF Tags, KnownTags

LEMMA WithoutAnchorsKept ==
  ASSUME NEW o, Kept(o)
  PROVE  Kept(WithoutAnchors(o))
<1> DEFINE x == WithoutAnchors(o)
           t == Keeping(o.tlv, Tags \ {"auth", "pub"})
<1>1. /\ Shape(x) /\ x.aggr = o.aggr /\ x.cal = o.cal /\ x.auth = None /\ x.pub = None
      /\ x.origin = o.origin /\ x.tlv = t
  <2>1. Shape(o)
    BY DEF Kept
  <2>2. x = [o EXCEPT !.auth = None, !.pub = None, !.tlv = t]
    BY DEF WithoutAnchors
  <2> HIDE DEF x, t
  <2> QED
    BY <2>1, <2>2 DEF Shape
<1>2. /\ t \in Seq(All) /\ WithTag(t, "auth") = << >> /\ WithTag(t, "pub") = << >>
      /\ \A tag \in Tags \ {"auth", "pub"} : WithTag(t, tag) = WithTag(o.tlv, tag)
  BY AnchorsRemoved DEF Kept
<1> HIDE DEF x, t
<1>3. /\ WithTag(t, "aggr") = WithTag(o.tlv, "aggr") /\ WithTag(t, "cal") = WithTag(o.tlv, "cal")
      /\ WithTag(t, "critical") = WithTag(o.tlv, "critical")
  BY <1>2, TagNames
<1>4. /\ Values(t, "aggr") = Values(o.tlv, "aggr") /\ Value(t, "cal") = Value(o.tlv, "cal")
      /\ Value(t, "auth") = None /\ Value(t, "pub") = None
  BY <1>2, <1>3, SameElements, ValueOfNothing
<1>5. AcceptedResponse(t) /\ OneAnchor(t)
  BY <1>2, <1>3, TagNames DEF Kept, AcceptedResponse, OneAnchor
<1>6. Accepted(o.tlv) => Accepted(t)
  BY <1>2, <1>3, <1>5, TagNames DEF Accepted
<1>7. Mirrored(x) /\ ChainsKept(x)
  BY <1>1, <1>4, <1>6 DEF Kept, Mirrored, ChainsKept
<1> QED
  BY <1>1, <1>2, <1>5, <1>7 DEF Kept, PubValues, x

LEMMA WithPublicationKept ==
  ASSUME NEW o, Kept(o), NEW pub \in Records
  PROVE  Kept(WithPublication(o, pub))
<1> DEFINE w == WithoutAnchors(o)
           e == Element("pub", pub)
           x == WithPublication(o, pub)
           t == Append(w.tlv, e)
<1>1. Kept(w)
  BY WithoutAnchorsKept
<1>2. w.auth = None /\ w.pub = None /\ w.tlv = Keeping(o.tlv, Tags \ {"auth", "pub"})
  BY DEF Kept, Shape, WithoutAnchors
<1>3. x = [w EXCEPT !.pub = pub, !.tlv = t]
  BY DEF WithPublication
<1> HIDE DEF x, w
<1>4. /\ Shape(x) /\ x.aggr = w.aggr /\ x.cal = w.cal /\ x.auth = w.auth /\ x.pub = pub
      /\ x.origin = w.origin /\ x.tlv = t
  BY <1>1, <1>3 DEF Kept, Shape
<1>5. e \in All /\ e.tag = "pub"
  BY DEF All, PubElements, Element
<1>6. WithTag(w.tlv, "auth") = << >> /\ WithTag(w.tlv, "pub") = << >> /\ w.tlv \in Seq(All)
  BY <1>2, AnchorsRemoved DEF Kept
<1>7. /\ t \in Seq(All)
      /\ \A tag \in Tags \ {"pub"} : WithTag(t, tag) = WithTag(w.tlv, tag)
      /\ WithTag(t, "pub") = <<e>>
  <2>1. t \in Seq(All)
    BY <1>5, <1>6
  <2>2. \A tag : WithTag(t, tag) = IF e.tag = tag THEN Append(WithTag(w.tlv, tag), e)
                                   ELSE WithTag(w.tlv, tag)
    BY <1>5, <1>6, WithTagOfAppend
  <2>3. Append(<< >>, e) = <<e>>
    OBVIOUS
  <2> HIDE DEF t, e
  <2> QED
    BY <1>5, <1>6, <2>1, <2>2, <2>3
<1>8. /\ WithTag(t, "aggr") = WithTag(w.tlv, "aggr") /\ WithTag(t, "cal") = WithTag(w.tlv, "cal")
      /\ WithTag(t, "critical") = WithTag(w.tlv, "critical") /\ WithTag(t, "auth") = << >>
  BY <1>6, <1>7, TagNames
<1>9. Value(t, "pub") = pub /\ Len(WithTag(t, "pub")) = 1
  BY <1>7, ValueOfOne
<1> HIDE DEF t
<1>10. /\ Values(t, "aggr") = Values(w.tlv, "aggr") /\ Value(t, "cal") = Value(w.tlv, "cal")
       /\ Value(t, "auth") = None
  BY <1>8, SameElements, ValueOfNothing
<1>11. AcceptedResponse(t) /\ OneAnchor(t)
  <2>1. Len(WithTag(w.tlv, "cal")) <= 1 /\ WithTag(w.tlv, "critical") = << >>
    BY <1>1 DEF Kept, AcceptedResponse
  <2>2. Len(WithTag(t, "cal")) <= 1 /\ WithTag(t, "critical") = << >> /\ Len(WithTag(t, "auth")) = 0
    BY <2>1, <1>8, TagNames
  <2>3. AcceptedResponse(t)
    <3>1. Len(WithTag(t, "auth")) <= 1
      BY <2>2
    <3> QED
      BY <3>1, <2>2, Zenon DEF AcceptedResponse
  <2>4. OneAnchor(t)
    <3> DEFINE n == Len(WithTag(t, "pub"))
               m == Len(WithTag(t, "auth"))
    <3>1. n = 1 /\ m = 0
      BY <2>2, <1>9
    <3> HIDE DEF n, m
    <3>2. n + m <= 1
      BY <3>1
    <3> QED
      BY <3>2 DEF OneAnchor, n, m
  <2> QED
    BY <2>3, <2>4
<1>12. Accepted(w.tlv) => Accepted(t)
  <2>1. Len(WithTag(t, "pub")) + Len(WithTag(t, "auth")) <= 1
    BY <1>11 DEF OneAnchor
  <2> QED
    BY <1>8, <1>11, <2>1 DEF Accepted
<1>13. Mirrored(x) /\ ChainsKept(x)
  BY <1>1, <1>2, <1>4, <1>9, <1>10, <1>12 DEF Kept, Mirrored, ChainsKept
<1> QED
  BY <1>1, <1>4, <1>7, <1>11, <1>13 DEF Kept, PubValues, x

LEMMA WithCalendarChainKept ==
  ASSUME NEW o, Kept(o), o.cal # None, NEW chain \in CalChains
  PROVE  Kept(WithCalendarChain(o, chain))
<1> DEFINE x == WithCalendarChain(o, chain)
           t == Replaced(o.tlv, chain)
<1>1. /\ Shape(x) /\ x.aggr = o.aggr /\ x.cal = chain /\ x.auth = o.auth /\ x.pub = o.pub
      /\ x.origin = o.origin /\ x.tlv = t
  <2>1. Shape(o)
    BY DEF Kept
  <2>2. x = [o EXCEPT !.cal = chain, !.tlv = t]
    BY <2>1 DEF WithCalendarChain, Replaced, Shape
  <2> HIDE DEF x, t
  <2> QED
    BY <2>1, <2>2 DEF Shape
<1>2. WithTag(o.tlv, "cal") # << >> /\ Len(WithTag(o.tlv, "cal")) <= 1 /\ o.tlv \in Seq(All)
  BY DEF Kept, Mirrored, Value, AcceptedResponse
<1> HIDE DEF x, t
<1>3. /\ t \in Seq(All) /\ WithTag(t, "cal") = <<Element("cal", chain)>>
      /\ \A tag \in Tags \ {"cal"} : WithTag(t, tag) = WithTag(o.tlv, tag)
  BY <1>2, WithTagOfReplaced DEF t
<1>4. /\ WithTag(t, "aggr") = WithTag(o.tlv, "aggr") /\ WithTag(t, "auth") = WithTag(o.tlv, "auth")
      /\ WithTag(t, "critical") = WithTag(o.tlv, "critical") /\ WithTag(t, "pub") = WithTag(o.tlv, "pub")
  BY <1>3, TagNames
<1>5. Value(t, "cal") = chain /\ Len(WithTag(t, "cal")) = 1 /\ WithTag(t, "cal") # << >>
  BY <1>3, ValueOfOne
<1>6. /\ Values(t, "aggr") = Values(o.tlv, "aggr") /\ Value(t, "auth") = Value(o.tlv, "auth")
      /\ Value(t, "pub") = Value(o.tlv, "pub")
  BY <1>4, SameElements
<1>7. AcceptedResponse(t) /\ OneAnchor(t)
  <2>1. AcceptedResponse(o.tlv) /\ OneAnchor(o.tlv)
    BY DEF Kept
  <2>2. Len(WithTag(o.tlv, "auth")) <= 1 /\ WithTag(o.tlv, "critical") = << >>
    BY <2>1 DEF AcceptedResponse
  <2>3. AcceptedResponse(t)
    <3> DEFINE n == Len(WithTag(t, "cal"))
    <3>0. n = 1
      BY <1>5
    <3> HIDE DEF n
    <3>9. n <= 1
      BY <3>0
    <3>1. Len(WithTag(t, "cal")) <= 1
      BY <3>9 DEF n
    <3>2. Len(WithTag(t, "auth")) <= 1 /\ WithTag(t, "critical") = << >>
      BY <2>2, <1>4
    <3> QED
      BY <3>1, <3>2, Zenon DEF AcceptedResponse
  <2>4. OneAnchor(t)
    BY <2>1, <1>4, Zenon DEF OneAnchor
  <2> QED
    BY <2>3, <2>4
<1>8. Accepted(o.tlv) => Accepted(t)
  BY <1>4, <1>5, <1>7 DEF Accepted
<1>9. Mirrored(x) /\ ChainsKept(x)
  BY <1>1, <1>5, <1>6, <1>8 DEF Kept, Mirrored, ChainsKept
<1> QED
  BY <1>1, <1>3, <1>7, <1>9 DEF Kept, CalValues, x

\* The fields of a changed object that the change says nothing of.
LEMMA ChangedFields ==
  ASSUME NEW o, Shape(o), NEW chain
  PROVE  /\ LET x == WithCalendarChain(o, chain) IN
            x.aggr = o.aggr /\ x.cal = chain /\ x.result = o.result /\ x.origin = o.origin
         /\ LET x == WithoutAnchors(o) IN
            /\ x.aggr = o.aggr /\ x.cal = o.cal /\ x.auth = None /\ x.pub = None
            /\ x.result = o.result /\ x.origin = o.origin
BY DEF Shape, WithCalendarChain, WithoutAnchors

LEMMA AnchoredFields ==
  ASSUME NEW o, Shape(o), NEW pub
  PROVE  LET x == WithPublication(o, pub) IN
         /\ x.aggr = o.aggr /\ x.cal = o.cal /\ x.auth = None /\ x.pub = pub
         /\ x.result = o.result /\ x.origin = o.origin
BY DEF Shape, WithPublication, WithoutAnchors

\* Parsing what has been accepted, and verifying what has been parsed.
LEMMA ExtractKept ==
  ASSUME NEW tlv \in Seq(All), Accepted(tlv),
         Value(tlv, "cal") \in CalValues, Value(tlv, "pub") \in PubValues
  PROVE  Kept(Extract(tlv))
<1> DEFINE x == Extract(tlv)
<1>1. /\ Shape(x) /\ x.aggr = SortChains(Values(tlv, "aggr")) /\ x.origin = "parsed" /\ x.tlv = tlv
      /\ x.cal = Value(tlv, "cal") /\ x.auth = Value(tlv, "auth") /\ x.pub = Value(tlv, "pub")
  BY DEF Extract, Shape
<1> HIDE DEF x
<1>2. AcceptedResponse(tlv) /\ OneAnchor(tlv)
  BY DEF Accepted, OneAnchor
<1>3. Mirrored(x) /\ ChainsKept(x)
  BY <1>1 DEF Mirrored, ChainsKept
<1> QED
  BY <1>1, <1>2, <1>3 DEF Kept, x

LEMMA VerifiedKept ==
  ASSUME NEW o, Kept(o)
  PROVE  Kept(Verified(o))
<1>1. CASE o.result.performed \/ o.result.failed
  BY <1>1 DEF Verified
<1>2. CASE ~(o.result.performed \/ o.result.failed)
  <2> DEFINE r == [performed |-> TRUE, failed |-> ~Consistent(o, 0)]
             x == Verified(o)
  <2>1. x = [o EXCEPT !.result = r]
    BY <1>2 DEF Verified
  <2> HIDE DEF x, r
  <2>2. /\ Shape(x) /\ x.aggr = o.aggr /\ x.cal = o.cal /\ x.auth = o.auth /\ x.pub = o.pub
        /\ x.origin = o.origin /\ x.tlv = o.tlv
    BY <2>1 DEF Kept, Shape
  <2>3. Mirrored(x) /\ ChainsKept(x)
    BY <2>2 DEF Kept, Mirrored, ChainsKept
  <2> QED
    BY <2>2, <2>3 DEF Kept, x
<1> QED
  BY <1>1, <1>2

\* What is consistent stays consistent when only the anchors change.
LEMMA SameConsistency ==
  ASSUME NEW o, NEW x, x.aggr = o.aggr, x.cal = o.cal
  PROVE  Consistent(x, 0) <=> Consistent(o, 0)
BY DEF Consistent

\* KSI_Signature_extendTo keeps the invariant and extends to what it was given.
LEMMA ExtendedKept ==
  ASSUME NEW o, Kept(o), Accepted(o.tlv), o.cal # None, NEW chain \in CalChains
  PROVE  LET x == Extended(o, chain) IN
         /\ Kept(x)
         /\ x.aggr = Extract(o.tlv).aggr /\ x.cal = chain /\ x.auth = None /\ x.pub = None
         /\ x.result.performed
         /\ ~x.result.failed <=> Consistent(x, 0)
<1> DEFINE p == Extract(o.tlv)
           c == WithCalendarChain(p, chain)
           w == WithoutAnchors(c)
           v == [w EXCEPT !.origin = "extended"]
           x == Extended(o, chain)
<1>1. Kept(p) /\ p.cal # None /\ p.result = Fresh /\ p.origin = "parsed"
  <2>1. /\ Value(o.tlv, "cal") \in CalValues /\ Value(o.tlv, "pub") \in PubValues
        /\ Value(o.tlv, "cal") # None /\ o.tlv \in Seq(All)
    BY DEF Kept, Mirrored
  <2> QED
    BY <2>1, ExtractKept DEF Extract
<1>2. x = Verified(v)
  BY DEF Extended
<1> HIDE DEF p, x
<1>3. Kept(c) /\ c.aggr = p.aggr /\ c.cal = chain /\ c.result = Fresh /\ c.origin = "parsed"
  BY <1>1, WithCalendarChainKept, ChangedFields DEF Kept
<1> HIDE DEF c
<1>4. /\ Kept(w) /\ w.aggr = p.aggr /\ w.cal = chain /\ w.auth = None /\ w.pub = None
      /\ w.result = Fresh /\ w.origin = "parsed"
  BY <1>3, WithoutAnchorsKept, ChangedFields DEF Kept
<1> HIDE DEF w
<1>5. /\ Shape(v) /\ v.aggr = w.aggr /\ v.cal = w.cal /\ v.auth = w.auth /\ v.pub = w.pub
      /\ v.result = w.result /\ v.origin = "extended" /\ v.tlv = w.tlv
  BY <1>4 DEF Kept, Shape
<1> HIDE DEF v
<1>6. Kept(v)
  <2>1. Mirrored(v) /\ ChainsKept(v)
    BY <1>4, <1>5 DEF Kept, Mirrored, ChainsKept
  <2> QED
    BY <1>4, <1>5, <2>1 DEF Kept
<1>7. Kept(x)
  BY <1>2, <1>6, VerifiedKept
<1>8. x = [v EXCEPT !.result = [performed |-> TRUE, failed |-> ~Consistent(v, 0)]]
  BY <1>2, <1>4, <1>5 DEF Verified, Fresh
<1>9. /\ x.aggr = v.aggr /\ x.cal = v.cal /\ x.auth = v.auth /\ x.pub = v.pub
      /\ x.result = [performed |-> TRUE, failed |-> ~Consistent(v, 0)]
  BY <1>5, <1>8 DEF Shape
<1>10. Consistent(x, 0) <=> Consistent(v, 0)
  BY <1>9, SameConsistency
<1>11. x.result.performed /\ (~x.result.failed <=> Consistent(x, 0))
  <2> DEFINE b == Consistent(v, 0)
  <2>1. x.result = [performed |-> TRUE, failed |-> ~b]
    BY <1>9
  <2> HIDE DEF b
  <2>2. x.result.performed = TRUE /\ x.result.failed = ~b
    BY <2>1
  <2> QED
    BY <2>2, <1>10 DEF b
<1> QED
  BY <1>4, <1>5, <1>7, <1>9, <1>11 DEF x, p

-----------------------------------------------------------------------------
(* Every operation keeps the invariant.                                    *)

\* A call puts an object that keeps the invariant behind a handle, or none.
LEMMA HandleChanged ==
  ASSUME ObjectsInv, NEW h \in Handles, NEW o, Kept(o) \/ o = None,
         objs' = [objs EXCEPT ![h] = o], res' \in Results
  PROVE  ObjectsInv'
<1>1. objs' = [k \in Handles |-> IF k = h THEN o ELSE objs[k]]
  BY DEF ObjectsInv
<1>2. ASSUME NEW k \in Handles, objs'[k] # None PROVE Kept(objs'[k])
  <2>1. CASE k = h
    BY <1>1, <1>2, <2>1
  <2>2. CASE k # h
    <3>1. objs'[k] = objs[k]
      BY <1>1, <2>2
    <3> QED
      BY <1>2, <3>1 DEF ObjectsInv, InUse
  <2> QED
    BY <2>1, <2>2
<1>3. objs' = [k \in Handles |-> objs'[k]]
  BY <1>1
<1> QED
  BY <1>2, <1>3 DEF ObjectsInv, InUse

LEMMA NothingChanged ==
  ASSUME ObjectsInv, NEW code \in Results, Fail(code)
  PROVE  ObjectsInv'
BY DEF ObjectsInv, InUse, Fail

LEMMA ObjectsInit ==
  Init => ObjectsInv
BY DEF Init, ObjectsInv, InUse, Results

LEMMA ParseKeeps ==
  ASSUME ObjectsInv, Parse
  PROVE  ObjectsInv'
<1>1. PICK dst \in Handles \ InUse, tlv \in Inputs :
        IF Accepted(tlv) THEN Deliver(dst, Extract(tlv)) ELSE Fail("INVALID_FORMAT")
  BY DEF Parse
<1>2. CASE Accepted(tlv)
  <2>1. /\ tlv \in Seq(All) /\ Value(tlv, "cal") \in CalValues
        /\ Value(tlv, "pub") \in PubValues
    BY InputTypes DEF CalValues, PubValues
  <2>2. Kept(Extract(tlv))
    BY <1>2, <2>1, ExtractKept
  <2> QED
    BY <1>1, <1>2, <2>2, HandleChanged DEF Deliver, Results
<1>3. CASE ~Accepted(tlv)
  BY <1>1, <1>3, NothingChanged DEF Results
<1> QED
  BY <1>2, <1>3

\* A response has no publication record, and so has one anchor at most.
LEMMA CreatedKept ==
  ASSUME NEW resp \in Responses, AcceptedResponse(resp)
  PROVE  Kept([aggr |-> Values(resp, "aggr"), cal |-> Value(resp, "cal"),
               auth |-> Value(resp, "auth"), pub |-> None,
               result |-> Fresh, origin |-> "created", tlv |-> resp])
<1> DEFINE x == [aggr |-> Values(resp, "aggr"), cal |-> Value(resp, "cal"),
                 auth |-> Value(resp, "auth"), pub |-> None,
                 result |-> Fresh, origin |-> "created", tlv |-> resp]
<1>1. /\ Shape(x) /\ x.aggr = Values(resp, "aggr") /\ x.origin = "created" /\ x.tlv = resp
      /\ x.cal = Value(resp, "cal") /\ x.auth = Value(resp, "auth") /\ x.pub = None
  BY DEF Shape
<1> HIDE DEF x
<1>2. resp \in Seq(All) /\ x.cal \in CalValues /\ x.pub \in PubValues
  BY <1>1, InputTypes DEF CalValues, PubValues
<1>3. WithTag(resp, "pub") = << >>
  <2>1. \A i \in 1 .. Len(resp) : resp[i] \notin With({"pub"})
    BY <1>2, ResponsesAssumption DEF With
  <2> QED
    BY <1>2, <2>1, KeepingIs, SelectedNone DEF WithTag
<1>4. Value(resp, "pub") = None
  BY <1>3, ValueOfNothing
<1>5. OneAnchor(resp)
  <2> DEFINE n == Len(WithTag(resp, "pub"))
             m == Len(WithTag(resp, "auth"))
  <2>1. n = 0 /\ m \in Nat /\ m <= 1
    BY <1>2, <1>3, WithTagType, TagNames DEF AcceptedResponse
  <2> HIDE DEF n, m
  <2>2. n + m <= 1
    BY <2>1
  <2> QED
    BY <2>2 DEF OneAnchor, n, m
<1>6. Mirrored(x) /\ ChainsKept(x)
  BY <1>1, <1>4 DEF Mirrored, ChainsKept
<1>7. Kept(x)
  BY <1>1, <1>2, <1>5, <1>6 DEF Kept
<1> QED
  BY <1>7 DEF x

LEMMA CreateKeeps ==
  ASSUME ObjectsInv, Create
  PROVE  ObjectsInv'
<1>1. PICK dst \in Handles \ InUse, resp \in Responses :
        IF AcceptedResponse(resp)
        THEN Deliver(dst, [aggr |-> Values(resp, "aggr"), cal |-> Value(resp, "cal"),
                           auth |-> Value(resp, "auth"), pub |-> None,
                           result |-> Fresh, origin |-> "created", tlv |-> resp])
        ELSE Fail("INVALID_FORMAT")
  BY DEF Create
<1>2. CASE AcceptedResponse(resp)
  <2> DEFINE o == [aggr |-> Values(resp, "aggr"), cal |-> Value(resp, "cal"),
                   auth |-> Value(resp, "auth"), pub |-> None,
                   result |-> Fresh, origin |-> "created", tlv |-> resp]
  <2>1. Kept(o) /\ Deliver(dst, o)
    BY <1>1, <1>2, CreatedKept
  <2> HIDE DEF o
  <2> QED
    BY <1>1, <2>1, HandleChanged DEF Deliver, Results
<1>3. CASE ~AcceptedResponse(resp)
  BY <1>1, <1>3, NothingChanged DEF Results
<1> QED
  BY <1>2, <1>3

LEMMA CloneKeeps ==
  ASSUME ObjectsInv, Clone
  PROVE  ObjectsInv'
<1>1. PICK src \in InUse, dst \in Handles \ InUse :
        IF Accepted(objs[src].tlv) THEN Deliver(dst, Extract(objs[src].tlv))
        ELSE Fail("INVALID_FORMAT")
  BY DEF Clone
<1>2. CASE Accepted(objs[src].tlv)
  <2>1. Kept(objs[src])
    BY <1>1 DEF ObjectsInv
  <2>2. Kept(Extract(objs[src].tlv))
    BY <1>2, <2>1, ExtractKept DEF Kept, Mirrored
  <2> QED
    BY <1>1, <1>2, <2>2, HandleChanged DEF Deliver, Results
<1>3. CASE ~Accepted(objs[src].tlv)
  BY <1>1, <1>3, NothingChanged DEF Results
<1> QED
  BY <1>2, <1>3

LEMMA FreeKeeps ==
  ASSUME ObjectsInv, Free
  PROVE  ObjectsInv'
<1>1. PICK h \in InUse : Deliver(h, None)
  BY DEF Free
<1> QED
  BY <1>1, HandleChanged DEF Deliver, Results, InUse

\* What KSI_Signature_extend makes of the extended signature and the record.
Anchored(e, pub) == IF pub = None THEN e ELSE Verified(WithPublication(e, pub))

LEMMA AnchoredKept ==
  ASSUME NEW e, Kept(e), NEW pub \in Records \cup {None},
         e.result.performed, Consistent(e, 0), e.auth = None, e.pub = None
  PROVE  LET x == Anchored(e, pub) IN
         /\ Kept(x)
         /\ x.aggr = e.aggr /\ x.cal = e.cal /\ x.auth = None /\ x.pub = pub
         /\ Consistent(x, 0)
<1>1. CASE pub = None
  BY <1>1 DEF Anchored
<1>2. CASE pub # None
  <2> DEFINE w == WithPublication(e, pub)
  <2>1. /\ Kept(w) /\ w.aggr = e.aggr /\ w.cal = e.cal /\ w.auth = None /\ w.pub = pub
        /\ w.result = e.result
    BY <1>2, WithPublicationKept, AnchoredFields DEF Kept
  <2> HIDE DEF w
  <2>2. Verified(w) = w
    BY <2>1 DEF Verified
  <2>3. Anchored(e, pub) = w
    BY <1>2, <2>2 DEF Anchored, w
  <2>4. Consistent(w, 0)
    BY <2>1, SameConsistency
  <2> QED
    BY <2>1, <2>3, <2>4
<1> QED
  BY <1>1, <1>2

\* A call to extend fails and changes nothing, or delivers what was asked for.
ExtensionIs(name, src, dst, to, pub) ==
  \/ \E code \in Results \ {"OK"} : Fail(code)
  \/ \E chain \in CalChains, status \in BOOLEAN : \E e :
       /\ Answered(name, src, dst, IF name = "extendTo" THEN to ELSE pub, chain, status)
       /\ Answering(chain, status, SigningTime(objs[src]), to)
       /\ Kept(e)
       /\ e.aggr = Extract(objs[src].tlv).aggr /\ e.cal = chain
       /\ e.auth = None /\ e.pub = pub
       /\ Consistent(e, 0)
       /\ Deliver(dst, e)

LEMMA ExtendGives ==
  ASSUME ObjectsInv, NEW name, NEW src \in InUse, NEW dst \in Handles \ InUse, NEW to,
         NEW pub \in Records \cup {None}, Extend(name, src, dst, to, pub)
  PROVE  ExtensionIs(name, src, dst, to, pub)
<1>1. CASE Fail("ERROR")
  BY <1>1 DEF ExtensionIs, Results
<1>2. CASE ~Fail("ERROR")
  <2>1. /\ Extendable(objs[src], to)
        /\ \E chain \in Answers, status \in BOOLEAN :
             /\ Answering(chain, status, SigningTime(objs[src]), to)
             /\ Answered(name, src, dst, IF name = "extendTo" THEN to ELSE pub, chain, status)
             /\ IF chain.input # Extract(objs[src].tlv).cal.input THEN Fail("EXTEND_WRONG_CAL_CHAIN")
                ELSE IF Extended(objs[src], chain).result.failed THEN Fail("VERIFICATION_FAILURE")
                ELSE Deliver(dst, Anchored(Extended(objs[src], chain), pub))
    BY <1>2 DEF Extend, Anchored
  <2>2. PICK chain \in Answers, status \in BOOLEAN :
             /\ Answering(chain, status, SigningTime(objs[src]), to)
             /\ Answered(name, src, dst, IF name = "extendTo" THEN to ELSE pub, chain, status)
             /\ IF chain.input # Extract(objs[src].tlv).cal.input THEN Fail("EXTEND_WRONG_CAL_CHAIN")
                ELSE IF Extended(objs[src], chain).result.failed THEN Fail("VERIFICATION_FAILURE")
                ELSE Deliver(dst, Anchored(Extended(objs[src], chain), pub))
    BY <2>1
  <2>3. chain \in CalChains
    BY <2>2 DEF Answering, CalChains
  <2>4. Kept(objs[src]) /\ Accepted(objs[src].tlv) /\ objs[src].cal # None
    BY <2>1 DEF ObjectsInv, Extendable
  <2> DEFINE x == Extended(objs[src], chain)
             e == Anchored(x, pub)
  <2>5. /\ Kept(x)
        /\ x.aggr = Extract(objs[src].tlv).aggr /\ x.cal = chain /\ x.auth = None /\ x.pub = None
        /\ x.result.performed
        /\ ~x.result.failed => Consistent(x, 0)
    BY <2>3, <2>4, ExtendedKept
  <2>6. \/ Fail("EXTEND_WRONG_CAL_CHAIN") \/ Fail("VERIFICATION_FAILURE")
        \/ ~x.result.failed /\ Deliver(dst, e)
    BY <2>2
  <2>7. /\ Answered(name, src, dst, IF name = "extendTo" THEN to ELSE pub, chain, status)
        /\ Answering(chain, status, SigningTime(objs[src]), to)
    BY <2>2
  <2> HIDE DEF x
  <2>8. CASE ~x.result.failed /\ Deliver(dst, e)
    <3>1. /\ Kept(e) /\ e.aggr = x.aggr /\ e.cal = x.cal /\ e.auth = None /\ e.pub = pub
          /\ Consistent(e, 0)
      BY <2>5, <2>8, AnchoredKept
    <3>2. Deliver(dst, e)
      BY <2>8
    <3> HIDE DEF e
    <3> QED
      BY <2>3, <2>5, <2>7, <3>1, <3>2 DEF ExtensionIs
  <2>9. CASE Fail("EXTEND_WRONG_CAL_CHAIN") \/ Fail("VERIFICATION_FAILURE")
    BY <2>9 DEF ExtensionIs, Results
  <2> QED
    BY <2>6, <2>8, <2>9
<1> QED
  BY <1>1, <1>2

LEMMA ExtensionKeeps ==
  ASSUME ObjectsInv, NEW name, NEW src, NEW dst \in Handles, NEW to, NEW pub,
         ExtensionIs(name, src, dst, to, pub)
  PROVE  ObjectsInv'
<1>1. CASE \E code \in Results \ {"OK"} : Fail(code)
  BY <1>1, NothingChanged
<1>2. CASE ~\E code \in Results \ {"OK"} : Fail(code)
  <2>1. PICK e : Kept(e) /\ Deliver(dst, e)
    BY <1>2 DEF ExtensionIs
  <2> QED
    BY <2>1, HandleChanged DEF Deliver, Results
<1> QED
  BY <1>1, <1>2

\* The three calls that extend are Extend for the record they pass on.
LEMMA ExtendCalls ==
  ASSUME ObjectsInv, ExtendTo \/ ExtendToRecord \/ ExtendSignature
  PROVE  \/ Fail("ERROR")
         \/ \E src \in InUse, dst \in Handles \ InUse : \E to :
              ExtensionIs("extendTo", src, dst, to, None)
         \/ \E src \in InUse, dst \in Handles \ InUse, pub \in Records \cup {None} : \E to :
              (pub # None => to = pub.time) /\ ExtensionIs("extend", src, dst, to, pub)
<1>1. CASE ExtendTo
  <2>1. PICK src \in InUse, dst \in Handles \ InUse, to \in {p.time : p \in Records} \cup {None} :
          Extend("extendTo", src, dst, to, None)
    BY <1>1 DEF ExtendTo, Records
  <2>2. ExtensionIs("extendTo", src, dst, to, None)
    BY <2>1, ExtendGives
  <2> QED
    BY <2>2
<1>2. CASE ExtendToRecord
  <2>1. PICK src \in InUse, dst \in Handles \ InUse, pub \in Publications \cup {None} :
          IF pub = Incomplete THEN Called("extend", src, dst, pub, None) /\ Fail("ERROR")
          ELSE Extend("extend", src, dst, IF pub = None THEN None ELSE pub.time, pub)
    BY <1>2 DEF ExtendToRecord
  <2>2. CASE pub = Incomplete
    BY <2>1, <2>2
  <2>3. CASE pub # Incomplete
    <3>1. pub \in Records \cup {None}
      BY <2>3 DEF Records
    <3>2. ExtensionIs("extend", src, dst, IF pub = None THEN None ELSE pub.time, pub)
      BY <2>1, <2>3, <3>1, ExtendGives
    <3> QED
      BY <3>1, <3>2
  <2> QED
    BY <2>2, <2>3
<1>3. CASE ExtendSignature
  <2>1. PICK src \in InUse, dst \in Handles \ InUse, pub \in Records :
          Extend("extend", src, dst, pub.time, pub)
    BY <1>3 DEF ExtendSignature, Records
  <2>2. ExtensionIs("extend", src, dst, pub.time, pub)
    BY <2>1, ExtendGives
  <2> QED
    BY <2>2
<1> QED
  BY <1>1, <1>2, <1>3

LEMMA ExtendKeeps ==
  ASSUME ObjectsInv, ExtendTo \/ ExtendToRecord \/ ExtendSignature
  PROVE  ObjectsInv'
<1>1. CASE Fail("ERROR")
  BY <1>1, NothingChanged DEF Results
<1>2. CASE ~Fail("ERROR")
  <2>1. CASE \E src \in InUse, dst \in Handles \ InUse : \E to :
               ExtensionIs("extendTo", src, dst, to, None)
    BY <2>1, ExtensionKeeps
  <2>2. CASE \E src \in InUse, dst \in Handles \ InUse, pub \in Records \cup {None} : \E to :
               (pub # None => to = pub.time) /\ ExtensionIs("extend", src, dst, to, pub)
    BY <2>2, ExtensionKeeps
  <2> QED
    BY <1>2, <2>1, <2>2, ExtendCalls
<1> QED
  BY <1>1, <1>2

LEMMA ReplaceCalendarKeeps ==
  ASSUME ObjectsInv, ReplaceCalendarChain
  PROVE  ObjectsInv'
<1>1. PICK h \in InUse, chain \in Answers :
        IF objs[h].cal = None \/ chain = Incomplete THEN Fail("INVALID_FORMAT")
        ELSE IF chain.input # objs[h].cal.input THEN Fail("EXTEND_WRONG_CAL_CHAIN")
        ELSE Deliver(h, WithCalendarChain(objs[h], chain))
  BY DEF ReplaceCalendarChain
<1>2. CASE Fail("INVALID_FORMAT") \/ Fail("EXTEND_WRONG_CAL_CHAIN")
  BY <1>2, NothingChanged DEF Results
<1>3. CASE ~(Fail("INVALID_FORMAT") \/ Fail("EXTEND_WRONG_CAL_CHAIN"))
  <2>1. /\ objs[h].cal # None /\ chain \in CalChains /\ Kept(objs[h])
        /\ Deliver(h, WithCalendarChain(objs[h], chain))
    BY <1>1, <1>3 DEF CalChains, ObjectsInv
  <2>2. Kept(WithCalendarChain(objs[h], chain))
    BY <2>1, WithCalendarChainKept
  <2>3. h \in Handles
    BY DEF InUse
  <2> QED
    BY <2>1, <2>2, <2>3, HandleChanged DEF Deliver, Results
<1> QED
  BY <1>2, <1>3

LEMMA ReplacePublicationKeeps ==
  ASSUME ObjectsInv, ReplacePublicationRecord
  PROVE  ObjectsInv'
<1>1. PICK h \in InUse, pub \in Publications \cup {None} :
        IF pub = Incomplete
        THEN res' = "INVALID_FORMAT" /\ objs' = [objs EXCEPT ![h] = WithoutAnchors(@)]
        ELSE Deliver(h, IF pub = None THEN objs[h] ELSE WithPublication(objs[h], pub))
  BY DEF ReplacePublicationRecord
<1>2. h \in Handles /\ Kept(objs[h])
  BY DEF ObjectsInv, InUse
<1>3. CASE pub = Incomplete
  <2>1. objs' = [objs EXCEPT ![h] = WithoutAnchors(objs[h])]
    BY <1>1, <1>3
  <2>2. Kept(WithoutAnchors(objs[h]))
    BY <1>2, WithoutAnchorsKept
  <2>3. res' \in Results
    BY <1>1, <1>3 DEF Results
  <2> QED
    BY <1>2, <2>1, <2>2, <2>3, HandleChanged
<1>4. CASE pub # Incomplete
  <2> DEFINE o == IF pub = None THEN objs[h] ELSE WithPublication(objs[h], pub)
  <2>1. Kept(o)
    <3>1. CASE pub = None
      BY <1>2, <3>1
    <3>2. CASE pub # None
      <4>1. pub \in Records
        BY <1>4, <3>2 DEF Records
      <4> QED
        BY <1>2, <3>2, <4>1, WithPublicationKept
    <3> QED
      BY <3>1, <3>2
  <2>2. Deliver(h, o)
    BY <1>1, <1>4
  <2> HIDE DEF o
  <2> QED
    BY <1>2, <2>1, <2>2, HandleChanged DEF Deliver, Results
<1> QED
  BY <1>3, <1>4

LEMMA ObjectsStep ==
  ASSUME ObjectsInv, [Next]_vars
  PROVE  ObjectsInv'
<1>1. CASE UNCHANGED vars
  BY <1>1 DEF ObjectsInv, InUse, vars
<1>2. CASE Next
  BY <1>2, ParseKeeps, CreateKeeps, CloneKeeps, FreeKeeps, ExtendKeeps,
     ReplaceCalendarKeeps, ReplacePublicationKeeps DEF Next
<1> QED
  BY <1>1, <1>2

THEOREM ObjectsInvariant == Spec => []ObjectsInv
BY ObjectsInit, ObjectsStep, PTL DEF Spec

-----------------------------------------------------------------------------
(* The theorems.                                                           *)

LEMMA TypesKept ==
  ObjectsInv => TypeOK
<1> SUFFICES ASSUME ObjectsInv, NEW h \in InUse
             PROVE  /\ objs[h].cal \in CalValues /\ objs[h].pub \in PubValues
                    /\ objs[h].origin \in {"parsed", "created", "extended"}
                    /\ \A i \in DOMAIN objs[h].tlv : objs[h].tlv[i].tag \in Tags \ {"critical"}
  BY DEF TypeOK, ObjectsInv, Results, CalValues, PubValues, CalChains, Records
<1> DEFINE t == objs[h].tlv
<1>1. Kept(objs[h])
  BY DEF ObjectsInv
<1>2. t \in Seq(All) /\ WithTag(t, "critical") = << >>
  BY <1>1 DEF Kept, AcceptedResponse
<1> HIDE DEF t
<1>3. \A i \in 1 .. Len(t) : t[i] \in All /\ t[i] \notin With({"critical"})
  BY <1>2, KeepingIs, SelectedNone DEF WithTag
<1>4. \A i \in DOMAIN t : t[i].tag \in Tags \ {"critical"}
  BY <1>2, <1>3, AllTagged DEF With
<1> QED
  BY <1>1, <1>4 DEF Kept, t

\* The state stays within its types: no object gets an element nobody knows
\* that may not be ignored, nor a chain or a record from nowhere.
THEOREM ObjectTypes == Spec => []TypeOK
BY ObjectsInvariant, TypesKept, PTL

\* A created object is what its response says, also when only the record of the
\* publication it got later makes the difference.
LEMMA CreatedFaithful ==
  ASSUME NEW o, Kept(o), o.origin = "created", Complete(Keeping(o.tlv, Tags \ {"pub"}))
  PROVE  Faithful(o)
<1> DEFINE k == Keeping(o.tlv, Tags \ {"pub"})
<1>1. o.tlv \in Seq(All)
  BY DEF Kept
<1>2. WithTag(k, "aggr") = WithTag(o.tlv, "aggr") /\ WithTag(k, "cal") = WithTag(o.tlv, "cal")
  <2>1. \A tag \in Tags : WithTag(k, tag) = IF tag \in {"pub"} THEN << >> ELSE WithTag(o.tlv, tag)
    BY <1>1, WithTagOfKeeping
  <2> HIDE DEF k
  <2>2. "aggr" \in Tags /\ "cal" \in Tags
    BY TagNames
  <2> QED
    BY <2>1, <2>2
<1> HIDE DEF k
<1>3. /\ WithTag(k, "aggr") # << >> /\ WithTag(k, "cal") # << >>
      /\ Values(k, "aggr") = SortChains(Values(k, "aggr"))
  BY DEF Complete, Accepted, k
<1>4. WithTag(o.tlv, "aggr") # << >> /\ WithTag(o.tlv, "cal") # << >>
  BY <1>2, <1>3
<1>5. Accepted(o.tlv)
  BY <1>4 DEF Kept, Accepted, OneAnchor
<1>6. Values(o.tlv, "aggr") = SortChains(Values(o.tlv, "aggr"))
  BY <1>2, <1>3, SameElements
<1>7. o.aggr = SortChains(Values(o.tlv, "aggr"))
  BY <1>6 DEF Kept, ChainsKept
<1> QED
  BY <1>5, <1>7 DEF Kept, Mirrored, Faithful, Extract

LEMMA OthersFaithful ==
  ASSUME NEW o, Kept(o), o.origin # "created"
  PROVE  Faithful(o)
BY DEF Kept, ChainsKept, Mirrored, Faithful, Extract

\* Whatever is done to an object, also by calls that fail half way, what it
\* serializes into parses back into the same object; an object made from a
\* response does so when the response was complete.
THEOREM ObjectsReparse == Spec => []Reparsable
<1>1. ObjectsInv => Reparsable
  BY CreatedFaithful, OthersFaithful DEF Reparsable, ObjectsInv
<1> QED
  BY <1>1, ObjectsInvariant, PTL

LEMMA FailuresHarmless ==
  ASSUME ObjectsInv, [Next]_vars, res' # "OK", NEW h \in Handles
  PROVE  \/ objs'[h] = objs[h]
         \/ /\ call'.name = "replacePublicationRecord" /\ call'.src = h
            /\ objs[h] # None
            /\ objs'[h] = WithoutAnchors(objs[h])
<1>1. CASE UNCHANGED objs
  BY <1>1
<1>2. CASE ReplacePublicationRecord
  <2>1. PICK g \in InUse, pub \in Publications \cup {None} :
          /\ Called("replacePublicationRecord", g, None, pub, None)
          /\ IF pub = Incomplete
             THEN res' = "INVALID_FORMAT" /\ objs' = [objs EXCEPT ![g] = WithoutAnchors(@)]
             ELSE Deliver(g, IF pub = None THEN objs[g] ELSE WithPublication(objs[g], pub))
    BY <1>2 DEF ReplacePublicationRecord
  <2>2. objs' = [objs EXCEPT ![g] = WithoutAnchors(objs[g])]
    BY <2>1 DEF Deliver
  <2>3. call'.name = "replacePublicationRecord" /\ call'.src = g
    BY <2>1 DEF Called, Answered
  <2>4. objs'[h] = IF h = g THEN WithoutAnchors(objs[g]) ELSE objs[h]
    BY <2>2 DEF ObjectsInv, InUse
  <2> QED
    BY <2>3, <2>4 DEF InUse
<1>3. CASE ExtendTo \/ ExtendToRecord \/ ExtendSignature
  BY <1>3, ExtendCalls DEF ExtensionIs, Deliver, Fail
<1>4. CASE Parse \/ Create \/ Clone
  BY <1>4 DEF Parse, Create, Clone, Deliver, Fail
<1>5. CASE Free \/ ReplaceCalendarChain
  BY <1>5 DEF Free, ReplaceCalendarChain, Deliver, Fail
<1> QED
  BY <1>1, <1>2, <1>3, <1>4, <1>5 DEF Next, vars

\* A call that fails leaves every object as it was, but for a publication record
\* that cannot be encoded, which costs the object its anchors, in the fields and
\* in the TLV alike.
THEOREM FailuresChangeNothing == Spec => FailureChangesNothing
<1>1. ASSUME ObjectsInv, [Next]_vars
      PROVE  [res' # "OK" =>
                \A h \in Handles :
                  \/ objs'[h] = objs[h]
                  \/ /\ call'.name = "replacePublicationRecord" /\ call'.src = h
                     /\ objs[h] # None
                     /\ objs'[h] = WithoutAnchors(objs[h])]_vars
  BY <1>1, FailuresHarmless
<1> QED
  BY <1>1, ObjectsInvariant, PTL DEF Spec, FailureChangesNothing

\* What one successful call to extend delivers.
LEMMA DeliversAsAsked ==
  ASSUME ObjectsInv, NEW name, NEW src, NEW dst \in Handles, NEW to, NEW pub \in Records \cup {None},
         ExtensionIs(name, src, dst, to, pub), res' = "OK",
         \/ name = "extendTo" /\ pub = None
         \/ name = "extend" /\ (pub # None => to = pub.time)
  PROVE  AsAsked
<1>1. PICK chain \in CalChains, status \in BOOLEAN, e \in {objs'[dst]} :
        /\ Answered(name, src, dst, IF name = "extendTo" THEN to ELSE pub, chain, status)
        /\ Answering(chain, status, SigningTime(objs[src]), to)
        /\ Kept(e)
        /\ e.aggr = Extract(objs[src].tlv).aggr /\ e.cal = chain
        /\ e.auth = None /\ e.pub = pub
        /\ Consistent(e, 0)
        /\ Deliver(dst, e)
  BY DEF ExtensionIs, Fail, Deliver, ObjectsInv
<1>2. /\ call'.name = name /\ call'.src = src /\ call'.dst = dst /\ call'.answer = chain
      /\ call'.arg = IF name = "extendTo" THEN to ELSE pub
      /\ call'.status = status
  BY <1>1 DEF Answered
<1>3. objs'[dst] = e
  BY <1>1 DEF Deliver, ObjectsInv
<1>4. status => chain.aggrTime = SigningTime(objs[src]) /\ (to # None => chain.pubTime = to)
  BY <1>1 DEF Answering
<1>5. pub # None => pub.time # None
  BY PublicationsAssumption DEF Records
<1> DEFINE o == Extract(objs[src].tlv)
<1>6. e.aggr = o.aggr /\ e.cal = chain /\ e.auth = None /\ e.pub = pub /\ Consistent(e, 0)
  BY <1>1
<1> HIDE DEF o
<1>7. CASE name = "extendTo"
  <2>1. call'.name = "extendTo" /\ call'.arg = to /\ pub = None
    BY <1>2, <1>7
  <2> QED
    BY <1>2, <1>3, <1>4, <1>6, <2>1 DEF AsAsked, o
<1>8. CASE name = "extend"
  <2>1. call'.name = "extend" /\ call'.arg = pub /\ (pub # None => to = pub.time)
    BY <1>2, <1>8
  <2> QED
    BY <1>2, <1>3, <1>4, <1>5, <1>6, <2>1 DEF AsAsked, o
<1> QED
  BY <1>7, <1>8

\* The steps that are calls to extend.
LEMMA ExtendingSteps ==
  ASSUME Next, call'.name \in {"extendTo", "extend"}
  PROVE  ExtendTo \/ ExtendToRecord \/ ExtendSignature
<1>1. ~(Parse \/ Create \/ Clone \/ Free \/ ReplaceCalendarChain \/ ReplacePublicationRecord)
  <2>1. ASSUME Parse PROVE call'.name = "parse"
    BY <2>1 DEF Parse, Called, Answered
  <2>2. ASSUME Create PROVE call'.name = "create"
    BY <2>2 DEF Create, Called, Answered
  <2>3. ASSUME Clone PROVE call'.name = "clone"
    BY <2>3 DEF Clone, Called, Answered
  <2>4. ASSUME Free PROVE call'.name = "free"
    BY <2>4 DEF Free, Called, Answered
  <2>5. ASSUME ReplaceCalendarChain PROVE call'.name = "replaceCalendarChain"
    BY <2>5 DEF ReplaceCalendarChain, Called, Answered
  <2>6. ASSUME ReplacePublicationRecord PROVE call'.name = "replacePublicationRecord"
    BY <2>6 DEF ReplacePublicationRecord, Called, Answered
  <2> QED
    BY <2>1, <2>2, <2>3, <2>4, <2>5, <2>6
<1> QED
  BY <1>1 DEF Next

LEMMA StepsAsAsked ==
  ASSUME ObjectsInv, Next
  PROVE  AsAsked
<1> SUFFICES ASSUME call'.name \in {"extendTo", "extend"}, res' = "OK" PROVE AsAsked
  BY DEF AsAsked
<1>1. ExtendTo \/ ExtendToRecord \/ ExtendSignature
  BY ExtendingSteps
<1>2. ~Fail("ERROR")
  BY DEF Fail
<1>3. \/ \E src \in InUse, dst \in Handles \ InUse : \E to :
           ExtensionIs("extendTo", src, dst, to, None)
      \/ \E src \in InUse, dst \in Handles \ InUse, pub \in Records \cup {None} : \E to :
           (pub # None => to = pub.time) /\ ExtensionIs("extend", src, dst, to, pub)
  BY <1>1, <1>2, ExtendCalls
<1>4. CASE \E src \in InUse, dst \in Handles \ InUse : \E to :
             ExtensionIs("extendTo", src, dst, to, None)
  BY <1>4, DeliversAsAsked
<1>5. CASE \E src \in InUse, dst \in Handles \ InUse, pub \in Records \cup {None} : \E to :
             (pub # None => to = pub.time) /\ ExtensionIs("extend", src, dst, to, pub)
  BY <1>5, DeliversAsAsked
<1> QED
  BY <1>3, <1>4, <1>5

\* KSI_Signature_extendTo, KSI_Signature_extend, KSI_extendSignature: an extended
\* signature is the signature it was made from, with the calendar chain the extender
\* answered with, no anchor but the publication asked for, and consistent; the chain is
\* the one asked for when the answer had a status.
THEOREM ExtensionsAsAsked == Spec => [][AsAsked]_vars
<1>1. ASSUME ObjectsInv, [Next]_vars
      PROVE  [AsAsked]_vars
  BY <1>1, StepsAsAsked
<1> QED
  BY <1>1, ObjectsInvariant, PTL DEF Spec

-----------------------------------------------------------------------------
(* Sorting.                                                                *)

\* A function onto so many numbers that never falls keeps each.
LEMMA OntoIsIdentity ==
  ASSUME NEW n \in Nat, NEW u \in [1 .. n -> 1 .. n],
         \A k \in 1 .. n : \E i \in 1 .. n : u[i] = k,
         \A i, j \in 1 .. n : i < j => u[i] <= u[j]
  PROVE  \A i \in 1 .. n : u[i] = i
<1>1. ASSUME NEW i \in 1 .. n, NEW j \in 1 .. n, i <= j PROVE u[i] <= u[j]
  <2>1. CASE i = j
    BY <2>1
  <2>2. CASE i < j
    BY <2>2
  <2> QED
    BY <1>1, <2>1, <2>2
<1>2. ASSUME NEW i \in 1 .. n - 1 PROVE u[i + 1] <= u[i] + 1
  <2>1. i \in 1 .. n /\ i + 1 \in 1 .. n
    OBVIOUS
  <2>2. CASE u[i] = n
    BY <2>1, <2>2
  <2>3. CASE u[i] # n
    <3>1. u[i] \in 1 .. n /\ u[i] + 1 \in 1 .. n
      <4> DEFINE x == u[i]
      <4>1. x \in 1 .. n /\ x # n
        BY <2>1, <2>3
      <4> HIDE DEF x
      <4>2. x + 1 \in 1 .. n
        BY <4>1
      <4> QED
        BY <4>1, <4>2 DEF x
    <3>2. PICK m \in 1 .. n : u[m] = u[i] + 1
      BY <3>1
    <3>3. ~(m <= i)
      <4>1. m <= i => u[m] <= u[i]
        BY <1>1, <2>1
      <4> QED
        BY <3>1, <3>2, <4>1
    <3>4. i + 1 <= m
      BY <3>3
    <3> QED
      BY <1>1, <2>1, <3>2, <3>4
  <2> QED
    BY <2>2, <2>3
<1> DEFINE G == {i \in 0 .. n : i # 0 => u[i] <= i}
<1>3. 0 \in G
  OBVIOUS
<1>4. ASSUME NEW i \in 0 .. n - 1, i \in G PROVE i + 1 \in G
  <2>1. i + 1 \in 1 .. n /\ i + 1 \in 0 .. n
    OBVIOUS
  <2>2. CASE i = 0
    <3>1. 1 \in 1 .. n
      BY <2>1, <2>2
    <3>2. PICK m \in 1 .. n : u[m] = 1
      BY <3>1
    <3>3. u[1] <= u[m]
      BY <1>1, <3>1
    <3>4. u[1] <= 1
      BY <3>2, <3>3
    <3> QED
      BY <2>1, <2>2, <3>4
  <2>3. CASE i # 0
    <3>1. i \in 1 .. n - 1 /\ i \in 1 .. n
      BY <2>3
    <3>2. u[i + 1] <= u[i] + 1 /\ u[i] <= i /\ u[i] \in 1 .. n /\ u[i + 1] \in 1 .. n
      BY <1>2, <1>4, <2>1, <2>3, <3>1
    <3>3. u[i + 1] <= i + 1
      <4> DEFINE x == u[i]
                 y == u[i + 1]
      <4>1. y <= x + 1 /\ x <= i /\ x \in 1 .. n /\ y \in 1 .. n
        BY <3>2
      <4> HIDE DEF x, y
      <4>2. y <= i + 1
        BY <4>1
      <4> QED
        BY <4>2 DEF y
    <3> QED
      BY <2>1, <3>3
  <2> QED
    BY <2>2, <2>3
<1> HIDE DEF G
<1>5. \A i \in 0 .. n : i \in G
  BY <1>3, <1>4, Induction
<1>6. \A i \in 1 .. n : u[i] <= i
  BY <1>5 DEF G
<1> DEFINE H == {d \in 0 .. n : d # n => n - d <= u[n - d]}
<1>7. 0 \in H
  <2>1. CASE n = 0
    BY <2>1
  <2>2. CASE n # 0
    <3>1. n \in 1 .. n /\ n - 0 = n
      BY <2>2
    <3>2. PICK m \in 1 .. n : u[m] = n
      BY <3>1
    <3>3. n <= u[n]
      BY <1>1, <3>1, <3>2
    <3> QED
      BY <3>1, <3>3
  <2> QED
    BY <2>1, <2>2
<1>8. ASSUME NEW d \in 0 .. n - 1, d \in H PROVE d + 1 \in H
  <2> SUFFICES ASSUME d + 1 # n PROVE n - (d + 1) <= u[n - (d + 1)]
    OBVIOUS
  <2> DEFINE i == n - (d + 1)
  <2>1. i \in 1 .. n - 1 /\ i + 1 = n - d /\ i + 1 \in 1 .. n /\ i \in 1 .. n /\ d # n
    OBVIOUS
  <2>2. i + 1 <= u[i + 1]
    BY <1>8, <2>1
  <2> HIDE DEF i
  <2>3. u[i + 1] <= u[i] + 1 /\ u[i] \in 1 .. n /\ u[i + 1] \in 1 .. n
    BY <1>2, <2>1
  <2>4. i <= u[i]
    BY <2>1, <2>2, <2>3
  <2> QED
    BY <2>4 DEF i
<1> HIDE DEF H
<1>9. \A d \in 0 .. n : d \in H
  BY <1>7, <1>8, Induction
<1>10. ASSUME NEW i \in 1 .. n PROVE u[i] = i
  <2>1. n - i \in 0 .. n /\ n - (n - i) = i /\ n - i # n
    OBVIOUS
  <2>2. i <= u[i]
    BY <1>9, <2>1 DEF H
  <2> QED
    BY <1>6, <2>2
<1> QED
  BY <1>10

\* Chains that become shorter one by one in some order are sorted into that order.
LEMMA SortIs ==
  ASSUME NEW chains, Len(chains) \in Nat, \A i \in 1 .. Len(chains) : chains[i].len \in Nat,
         NEW p \in Orders(Len(chains)),
         \A i \in 2 .. Len(chains) : chains[p[i - 1]].len = chains[p[i]].len + 1
  PROVE  SortChains(chains) = Ordered(chains, p)
<1> DEFINE n == Len(chains)
           len(i) == chains[i].len
           Fit(o) == \A j \in 1 .. n : \A i \in 1 .. j - 1 : ~Longer(chains[o[j]], chains[o[i]])
           q == CHOOSE o \in Orders(n) : Fit(o)
<1>1. n \in Nat /\ \A i \in 1 .. n : len(i) \in Nat
  OBVIOUS
<1>2. SortChains(chains) = Ordered(chains, q)
  BY DEF SortChains
<1>3. \A o : Fit(o) <=> \A j \in 1 .. n : \A i \in 1 .. j - 1 : ~(len(o[j]) > len(o[i]))
  BY DEF Longer
<1>4. \A i \in 2 .. n : len(p[i - 1]) = len(p[i]) + 1
  OBVIOUS
<1> HIDE DEF n, len, Fit, q
<1>5. p \in [1 .. n -> 1 .. n] /\ \A k \in 1 .. n : \E i \in 1 .. n : p[i] = k
  BY DEF Orders, n
<1>6. ASSUME NEW i \in 1 .. n, NEW j \in 1 .. n, i < j PROVE len(p[j]) < len(p[i])
  <2> DEFINE G == {k \in 0 .. n : i < k => len(p[k]) < len(p[i])}
  <2>1. 0 \in G
    BY <1>1
  <2>2. ASSUME NEW k \in 0 .. n - 1, k \in G PROVE k + 1 \in G
    <3> SUFFICES ASSUME i < k + 1 PROVE len(p[k + 1]) < len(p[i])
      BY <1>1
    <3>1. k + 1 \in 2 .. n /\ k + 1 - 1 = k /\ k \in 1 .. n /\ k + 1 \in 1 .. n
      BY <1>1
    <3>2. len(p[k]) = len(p[k + 1]) + 1
      BY <1>4, <3>1
    <3>3. len(p[k]) \in Nat /\ len(p[k + 1]) \in Nat /\ len(p[i]) \in Nat
      BY <1>1, <1>5, <3>1
    <3>4. CASE i = k
      BY <3>2, <3>3, <3>4
    <3>5. CASE i < k
      BY <2>2, <3>2, <3>3, <3>5
    <3> QED
      BY <1>1, <3>1, <3>4, <3>5
  <2> HIDE DEF G
  <2>3. j \in G
    <3>1. \A k \in 0 .. n : k \in G
      BY <1>1, <2>1, <2>2, Induction
    <3> QED
      BY <1>1, <3>1
  <2> QED
    BY <1>6, <2>3 DEF G
<1>7. \A i, j \in 1 .. n : len(p[i]) >= len(p[j]) => i <= j
  <2> SUFFICES ASSUME NEW i \in 1 .. n, NEW j \in 1 .. n, len(p[i]) >= len(p[j]), j < i PROVE FALSE
    BY <1>1
  <2>1. len(p[i]) < len(p[j])
    BY <1>6
  <2>2. len(p[i]) \in Nat /\ len(p[j]) \in Nat
    BY <1>1, <1>5
  <2> QED
    BY <2>1, <2>2
<1>8. Fit(p)
  <2> SUFFICES ASSUME NEW j \in 1 .. n, NEW i \in 1 .. j - 1 PROVE ~(len(p[j]) > len(p[i]))
    BY <1>3
  <2>1. i \in 1 .. n /\ i < j
    BY <1>1
  <2>2. len(p[j]) < len(p[i])
    BY <1>6, <2>1
  <2>3. len(p[i]) \in Nat /\ len(p[j]) \in Nat
    BY <1>1, <1>5, <2>1
  <2> QED
    BY <2>2, <2>3
<1>9. q \in Orders(n) /\ Fit(q)
  <2>1. \E o \in Orders(n) : Fit(o)
    BY <1>8 DEF n
  <2> QED
    BY <2>1 DEF q
<1>10. q \in [1 .. n -> 1 .. n] /\ \A k \in 1 .. n : \E i \in 1 .. n : q[i] = k
  BY <1>9 DEF Orders
<1> DEFINE u == [i \in 1 .. n |-> CHOOSE k \in 1 .. n : p[k] = q[i]]
<1>11. ASSUME NEW i \in 1 .. n PROVE u[i] \in 1 .. n /\ p[u[i]] = q[i]
  <2>1. q[i] \in 1 .. n
    BY <1>10
  <2>2. \E k \in 1 .. n : p[k] = q[i]
    BY <1>5, <2>1
  <2>3. u[i] = CHOOSE k \in 1 .. n : p[k] = q[i]
    OBVIOUS
  <2> QED
    BY <2>2, <2>3
<1>12. u \in [1 .. n -> 1 .. n]
  <2>1. u = [i \in 1 .. n |-> u[i]]
    OBVIOUS
  <2> HIDE DEF u
  <2> QED
    BY <1>11, <2>1
<1> HIDE DEF u
<1>13. ASSUME NEW k \in 1 .. n PROVE \E i \in 1 .. n : u[i] = k
  <2>1. p[k] \in 1 .. n
    BY <1>5
  <2>2. PICK i \in 1 .. n : q[i] = p[k]
    BY <1>10, <2>1
  <2>3. u[i] \in 1 .. n /\ p[u[i]] = p[k]
    BY <1>11, <2>2
  <2>4. len(p[k]) \in Nat
    BY <1>1, <2>1
  <2>5. u[i] <= k /\ k <= u[i]
    BY <1>7, <2>3, <2>4
  <2>6. u[i] = k
    BY <2>3, <2>5
  <2> QED
    BY <2>6
<1>14. ASSUME NEW i \in 1 .. n, NEW j \in 1 .. n, i < j PROVE u[i] <= u[j]
  <2>1. i \in 1 .. j - 1
    BY <1>1, <1>14
  <2>2. ~(len(q[j]) > len(q[i]))
    BY <1>3, <1>9, <2>1
  <2>3. len(q[i]) \in Nat /\ len(q[j]) \in Nat
    BY <1>1, <1>10
  <2>4. len(p[u[i]]) >= len(p[u[j]])
    BY <1>11, <2>2, <2>3
  <2> QED
    BY <1>7, <1>11, <2>4
<1>15. \A i \in 1 .. n : u[i] = i
  BY <1>1, <1>12, <1>13, <1>14, OntoIsIdentity
<1>16. \A i \in 1 .. n : q[i] = p[i]
  BY <1>11, <1>15
<1>17. Ordered(chains, q) = Ordered(chains, p)
  BY <1>16 DEF Ordered, n
<1> QED
  BY <1>2, <1>17

-----------------------------------------------------------------------------
LEMMA ChainsAre ==
  ASSUME NEW tlv \in Seq(All)
  PROVE  LET chains == Values(tlv, "aggr") IN
         Len(chains) \in Nat /\ DOMAIN chains = 1 .. Len(chains)
         /\ \A i \in 1 .. Len(chains) : chains[i].len \in Nat
<1> DEFINE w == WithTag(tlv, "aggr")
           n == Len(w)
<1>1. w \in Seq(With({"aggr"})) /\ n \in Nat
  BY WithTagType
<1> HIDE DEF w
<1>2. DOMAIN w = 1 .. n /\ \A i \in 1 .. n : w[i] \in With({"aggr"})
  BY <1>1
<1>3. Values(tlv, "aggr") = [i \in 1 .. n |-> w[i].val]
  BY <1>2 DEF Values, w
<1> HIDE DEF n
<1>4. Len([i \in 1 .. n |-> w[i].val]) = n
  BY <1>1
<1>5. ASSUME NEW e \in With({"aggr"}) PROVE e.val.len \in Nat
  <2>1. e \in All /\ e.tag = "aggr"
    BY DEF With
  <2>2. e \notin CalElements \cup PubElements
    BY <2>1 DEF CalElements, PubElements, Element
  <2>3. PICK t \in Inputs \cup Responses : e \in Range(t)
    BY <2>1, <2>2 DEF All, Initial
  <2>4. PICK i \in DOMAIN t : e = t[i]
    BY <2>3 DEF Range
  <2> QED
    BY <2>1, <2>4, ChainsAssumption
<1> QED
  BY <1>1, <1>2, <1>3, <1>4, <1>5

\* A call to extend an object whose chains lead to the answer is successful.
LEMMA ExtendSucceeds ==
  ASSUME ObjectsInv, NEW name, NEW src \in InUse, NEW dst, NEW to, NEW pub,
         Extend(name, src, dst, to, pub)
  PROVE  CanExtend
<1> DEFINE o == objs[src]
           chains == Values(o.tlv, "aggr")
           Put(p, chain) == [o EXCEPT !.aggr = Ordered(chains, p), !.cal = chain]
<1>1. call'.src = src
  BY DEF Extend, Called, Answered
<1> SUFFICES ASSUME call'.answer # None, call'.answer.input = o.cal.input,
                    NEW p \in Orders(Len(chains)), Consistent(Put(p, call'.answer), 0)
             PROVE  res' = "OK"
  BY <1>1 DEF CanExtend
<1>2. /\ Extendable(o, to)
      /\ \E chain \in Answers, status \in BOOLEAN :
           /\ Answering(chain, status, SigningTime(o), to)
           /\ call'.answer = chain
           /\ IF chain.input # Extract(o.tlv).cal.input THEN Fail("EXTEND_WRONG_CAL_CHAIN")
              ELSE IF Extended(o, chain).result.failed THEN Fail("VERIFICATION_FAILURE")
              ELSE res' = "OK"
  BY DEF Extend, Called, Answered, Deliver
<1>3. PICK chain \in Answers, status \in BOOLEAN :
           /\ Answering(chain, status, SigningTime(o), to)
           /\ call'.answer = chain
           /\ IF chain.input # Extract(o.tlv).cal.input THEN Fail("EXTEND_WRONG_CAL_CHAIN")
              ELSE IF Extended(o, chain).result.failed THEN Fail("VERIFICATION_FAILURE")
              ELSE res' = "OK"
  BY <1>2
<1>4. Kept(o) /\ Accepted(o.tlv) /\ o.cal # None /\ chain \in CalChains
  BY <1>2, <1>3 DEF ObjectsInv, Extendable, Answering, CalChains
<1>5. chain.input = Extract(o.tlv).cal.input
  BY <1>3, <1>4 DEF Kept, Mirrored, Extract
<1> DEFINE x == Extended(o, chain)
           y == Put(p, chain)
<1>6. x.aggr = SortChains(chains) /\ x.cal = chain /\ (~x.result.failed <=> Consistent(x, 0))
  BY <1>4, ExtendedKept DEF Extract
<1>7. y.aggr = Ordered(chains, p) /\ y.cal = chain
  BY <1>4 DEF Kept, Shape
<1>8. Consistent(y, 0)
  BY <1>3
<1> HIDE DEF x, y
<1>9. SortChains(chains) = Ordered(chains, p)
  <2>1. Len(chains) \in Nat /\ \A i \in 1 .. Len(chains) : chains[i].len \in Nat
    BY <1>4, ChainsAre DEF Kept
  <2> HIDE DEF chains
  <2>2. Len(Ordered(chains, p)) = Len(chains)
        /\ \A i \in 1 .. Len(chains) : Ordered(chains, p)[i] = chains[p[i]]
    BY <2>1 DEF Ordered
  <2>3. \A i \in 2 .. Len(y.aggr) : y.aggr[i - 1].len = y.aggr[i].len + 1
    BY <1>8 DEF Consistent
  <2>4. ASSUME NEW i \in 2 .. Len(chains) PROVE chains[p[i - 1]].len = chains[p[i]].len + 1
    <3>1. i - 1 \in 1 .. Len(chains) /\ i \in 1 .. Len(chains)
      BY <2>1
    <3>2. Ordered(chains, p)[i - 1].len = Ordered(chains, p)[i].len + 1
      BY <1>7, <2>2, <2>3
    <3> QED
      BY <2>2, <3>1, <3>2
  <2> QED
    BY <2>1, <2>4, SortIs
<1>10. Consistent(x, 0)
  BY <1>6, <1>7, <1>8, <1>9, SameConsistency
<1> QED
  BY <1>3, <1>5, <1>6, <1>10 DEF x

LEMMA StepsCanExtend ==
  ASSUME ObjectsInv, Next
  PROVE  CanExtend
<1> SUFFICES ASSUME call'.name \in {"extendTo", "extend"}, call'.answer # None PROVE CanExtend
  BY DEF CanExtend
<1>1. CASE ExtendTo
  BY <1>1, ExtendSucceeds DEF ExtendTo
<1>2. CASE ExtendToRecord
  <2>1. PICK src \in InUse, dst \in Handles \ InUse, pub \in Publications \cup {None} :
          IF pub = Incomplete THEN Called("extend", src, dst, pub, None) /\ Fail("ERROR")
          ELSE Extend("extend", src, dst, IF pub = None THEN None ELSE pub.time, pub)
    BY <1>2 DEF ExtendToRecord
  <2>2. pub # Incomplete
    BY <2>1 DEF Called, Answered
  <2> QED
    BY <2>1, <2>2, ExtendSucceeds
<1>3. CASE ExtendSignature
  BY <1>3, ExtendSucceeds DEF ExtendSignature
<1> QED
  BY <1>1, <1>2, <1>3, ExtendingSteps

\* KSI_Signature_extendTo, KSI_Signature_extend, KSI_extendSignature: what extending
\* gives is the signature it was made from, consistent, with the chain of the answer, as
\* far as was asked for when that had a status (without one nobody compares them);
\* and every signature whose chains, in some order, lead to the calendar chain of the
\* extender is extended, however many chains it has and whatever was done to it.
THEOREM ExtendsWhatItCan == Spec => ExtendedAsAsked
<1>1. ASSUME ObjectsInv, [Next]_vars
      PROVE  [AsAsked /\ CanExtend]_vars
  BY <1>1, StepsAsAsked, StepsCanExtend
<1> QED
  BY <1>1, ObjectsInvariant, PTL DEF Spec, ExtendedAsAsked
=============================================================================
