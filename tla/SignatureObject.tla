--------------------------- MODULE SignatureObject ---------------------------
(***************************************************************************)
(* The life of signature objects: how they are parsed, created from the    *)
(* aggregator's response, cloned, extended and changed (signature.c,       *)
(* base.c).                                                                *)
(*                                                                         *)
(* An object holds its content twice: as fields, which verification and    *)
(* the getters read, and as the base TLV, which serialization writes and   *)
(* cloning parses again.  Every operation that changes one has to change   *)
(* the other, also when it fails half way.                                 *)
(*                                                                         *)
(* The internal verification is atomic here, its steps are in              *)
(* Verification; hashes and times are values compared for equality.        *)
(***************************************************************************)
EXTENDS Integers, Sequences, FiniteSets, SequencesExt, Selection

CONSTANTS
  Handles,        \* the pointers of the caller
  Inputs,         \* serialized signatures, as the sequence of their elements
  Responses,      \* responses of the aggregator, as the sequence of their elements
  Answers,        \* calendar chains the extender or the caller may provide
  Publications,   \* publication records the caller or the publications file may provide
  Incomplete,     \* a record without its mandatory elements
  Garbled,        \* the hash of a chain aggregated from another level
  None            \* the NULL pointer

\* An element of a TLV is a tag and a value.  The tags of a signature and,
\* for an element nobody knows, whether it may be ignored.
Element(tag, val) == [tag |-> tag, val |-> val]
KnownTags == {"aggr", "cal", "pub", "auth"}
Tags == KnownTags \cup {"noncritical", "critical"}

ASSUME InputsAssumption ==
  \A tlv \in Inputs \cup Responses :
    tlv \in Seq(Range(tlv)) /\ \A i \in DOMAIN tlv : tlv[i].tag \in Tags
ASSUME ResponsesAssumption ==
  \A tlv \in Responses : \A i \in DOMAIN tlv : tlv[i].tag # "pub"
\* The length of its index is that of a list.
ASSUME ChainsAssumption ==
  \A tlv \in Inputs \cup Responses : \A i \in DOMAIN tlv :
    tlv[i].tag = "aggr" => tlv[i].val.len \in Nat
\* The time of a record is mandatory.
ASSUME PublicationsAssumption ==
  \A pub \in Publications \ {Incomplete} : pub.time # None

-----------------------------------------------------------------------------
(* The elements of a TLV.                                                  *)

Keeping(tlv, tags) == Selected(tlv, {e \in Range(tlv) : e.tag \in tags})

WithTag(tlv, tag) == Keeping(tlv, {tag})

Values(tlv, tag) == [i \in DOMAIN WithTag(tlv, tag) |-> WithTag(tlv, tag)[i].val]

\* The one value of a tag, None when there is none.
Value(tlv, tag) == IF WithTag(tlv, tag) = << >> THEN None ELSE WithTag(tlv, tag)[1].val

\* aggregationHashChainCmp: the chain with the longest index, the one next to
\* the document, comes first.
Longer(l, r) == l.len > r.len

\* The orders of so many chains: each has one place.
Orders(n) == {p \in [1 .. n -> 1 .. n] : \A k \in 1 .. n : \E i \in 1 .. n : p[i] = k}
Ordered(chains, p) == [i \in 1 .. Len(chains) |-> chains[p[i]]]

\* KSI_AggregationHashChainList_sort: an order in which no chain follows a shorter one.
SortChains(chains) ==
  LET n == Len(chains)
  IN  Ordered(chains, CHOOSE p \in Orders(n) :
                        \A j \in 1 .. n : \A i \in 1 .. j - 1 : ~Longer(chains[p[j]], chains[p[i]]))

\* Variant: an element nobody knows is skipped, critical or not.
AcceptsUnknown(tlv) == \A tag \in {"cal", "auth"} : Len(WithTag(tlv, tag)) <= 1

\* What the template of a response accepts.
AcceptedResponse(tlv) ==
  /\ \A tag \in {"cal", "auth"} : Len(WithTag(tlv, tag)) <= 1
  /\ WithTag(tlv, "critical") = << >>

\* What the template of a signature accepts: an element of a kind at most once,
\* the aggregation chains apart, and either a publication or an authentication
\* record.  checkSignatureInternals adds nothing to it.
Accepted(tlv) ==
  /\ AcceptedResponse(tlv)
  /\ WithTag(tlv, "aggr") # << >>
  /\ WithTag(tlv, "cal") # << >>
  /\ Len(WithTag(tlv, "pub")) + Len(WithTag(tlv, "auth")) <= 1

\* KSI_VerificationResult_init
Fresh == [performed |-> FALSE, failed |-> FALSE]

\* extractSignature: what parsing and cloning give.
Extract(tlv) ==
  [aggr |-> SortChains(Values(tlv, "aggr")), cal |-> Value(tlv, "cal"),
   auth |-> Value(tlv, "auth"), pub |-> Value(tlv, "pub"),
   result |-> Fresh, origin |-> "parsed", tlv |-> tlv]

-----------------------------------------------------------------------------
(* The internal verification.                                              *)

LevelAt(chains, i, level) == IF i = 1 THEN level ELSE chains[i - 1].top

Output(chains, i, level) ==
  IF chains[i].base = LevelAt(chains, i, level) THEN chains[i].output ELSE Garbled

\* The steps AGGRCHAIN_INTERNALLY, CALCHAIN_INTERNALLY and
\* AGGRCHAIN_WITH_CALENDAR_CHAIN, for the document at the given level.
Consistent(o, level) ==
  /\ \A i \in 2 .. Len(o.aggr) :
       /\ o.aggr[i].time = o.aggr[i - 1].time
       /\ o.aggr[i - 1].len = o.aggr[i].len + 1
       /\ o.aggr[i].input = Output(o.aggr, i - 1, level)
  /\ o.cal.fits
  /\ Output(o.aggr, Len(o.aggr), level) = o.cal.input
  /\ o.aggr[1].time = o.cal.aggrTime

\* KSI_Signature_verifyPolicy with KSI_VP_INTERNAL: what has been performed is
\* not performed again, what has failed stays failed.  The document is at level 0.
Verified(o) ==
  IF o.result.performed \/ o.result.failed THEN o
  ELSE [o EXCEPT !.result = [performed |-> TRUE, failed |-> ~Consistent(o, 0)]]

-----------------------------------------------------------------------------
(* The changes of an object.                                               *)

PositionOf(tlv, tag) == CHOOSE i \in DOMAIN tlv : tlv[i].tag = tag
                                                  /\ \A j \in 1 .. i - 1 : tlv[j].tag # tag

\* KSI_Signature_replaceCalendarChain, when it succeeds.
WithCalendarChain(o, chain) ==
  [o EXCEPT !.cal = chain,
            !.tlv = [@ EXCEPT ![PositionOf(o.tlv, "cal")] = Element("cal", chain)]]

\* Variant: the anchor is removed from the object, one of its two kinds from the TLV.
WithoutAuthRec(o) ==
  [o EXCEPT !.auth = None, !.pub = None,
            !.tlv = Keeping(@, Tags \ {"auth"})]

\* removeCalAuthAndPublication
WithoutAnchors(o) ==
  [o EXCEPT !.auth = None, !.pub = None,
            !.tlv = Keeping(@, Tags \ {"auth", "pub"})]

\* KSI_Signature_replacePublicationRecord, when it succeeds.
WithPublication(o, pub) ==
  [WithoutAnchors(o) EXCEPT !.pub = pub, !.tlv = Append(@, Element("pub", pub))]

\* KSI_Signature_getSigningTime
SigningTime(o) == IF o.cal.aggrTime # None THEN o.cal.aggrTime ELSE o.cal.pubTime

-----------------------------------------------------------------------------
VARIABLES
  objs,   \* the objects behind the handles
  call,   \* the last call: its name, the handles, the publication time or record it was
          \* asked for, the answer of the extender it used, and whether that had a status
  res     \* what it returned

vars == <<objs, call, res>>

Answered(name, src, dst, arg, answer, status) ==
  call' = [name |-> name, src |-> src, dst |-> dst, arg |-> arg, answer |-> answer,
           status |-> status]

Called(name, src, dst, arg, answer) == Answered(name, src, dst, arg, answer, FALSE)

Init ==
  /\ objs = [h \in Handles |-> None]
  /\ call = [name |-> "none", src |-> None, dst |-> None, arg |-> None, answer |-> None,
             status |-> FALSE]
  /\ res = "OK"

Fail(code) == res' = code /\ UNCHANGED objs

Deliver(dst, o) == res' = "OK" /\ objs' = [objs EXCEPT ![dst] = o]

InUse == {h \in Handles : objs[h] # None}

\* KSI_Signature_parse, KSI_Signature_fromFile
Parse ==
  \E dst \in Handles \ InUse, tlv \in Inputs :
    /\ Called("parse", None, dst, None, None)
    /\ IF Accepted(tlv) THEN Deliver(dst, Extract(tlv)) ELSE Fail("INVALID_FORMAT")

\* KSI_Signature_createAggregated: the object is what the response says.  The
\* chains stay in the order of the response, which need not hold any.
Create ==
  \E dst \in Handles \ InUse, resp \in Responses :
    /\ Called("create", None, dst, None, None)
    /\ IF AcceptedResponse(resp)
       THEN Deliver(dst, [aggr |-> Values(resp, "aggr"), cal |-> Value(resp, "cal"),
                          auth |-> Value(resp, "auth"), pub |-> None,
                          result |-> Fresh, origin |-> "created", tlv |-> resp])
       ELSE Fail("INVALID_FORMAT")

\* KSI_Signature_clone, and KSI_Signature_serialize followed by KSI_Signature_parse.
Clone ==
  \E src \in InUse, dst \in Handles \ InUse :
    /\ Called("clone", src, dst, None, None)
    /\ IF Accepted(objs[src].tlv) THEN Deliver(dst, Extract(objs[src].tlv))
       ELSE Fail("INVALID_FORMAT")

Free ==
  \E h \in InUse :
    /\ Called("free", h, None, None, None)
    /\ Deliver(h, None)

\* KSI_ExtendResp_verifyWithRequest: an answer without the optional status is
\* taken as it is.
Answering(chain, status, start, end) ==
  /\ chain # Incomplete
  /\ status => /\ end # None => chain.pubTime = end
               /\ chain.aggrTime = start
               /\ chain.fits

\* A request for the calendar of the object can be made.
Extendable(o, to) ==
  /\ Accepted(o.tlv)
  /\ o.cal # None
  /\ to # None => SigningTime(o) <= to

\* Variant: the anchors of the original stay.
ExtendedKeepsAnchors(o, chain) ==
  Verified([WithCalendarChain(Extract(o.tlv), chain) EXCEPT !.origin = "extended"])

\* What KSI_Signature_extendTo makes of the object and the extender's chain.
Extended(o, chain) ==
  Verified([WithoutAnchors(WithCalendarChain(Extract(o.tlv), chain))
            EXCEPT !.origin = "extended"])

\* KSI_Signature_extendTo; pub is what KSI_Signature_extend then makes the
\* anchor of the extended signature.  Extend verifies the result once more,
\* with the steps extendTo has performed: nothing is left to verify.
Extend(name, src, dst, to, pub) ==
  \/ /\ Called(name, src, dst, pub, None)
     /\ Fail("ERROR")
  \/ /\ Extendable(objs[src], to)
     /\ \E chain \in Answers, status \in BOOLEAN :
          LET o == Extract(objs[src].tlv)
              e == Extended(objs[src], chain)
          IN
          /\ Answering(chain, status, SigningTime(objs[src]), to)
          /\ Answered(name, src, dst, IF name = "extendTo" THEN to ELSE pub, chain, status)
          /\ IF chain.input # o.cal.input THEN Fail("EXTEND_WRONG_CAL_CHAIN")
             ELSE IF e.result.failed THEN Fail("VERIFICATION_FAILURE")
             ELSE Deliver(dst, IF pub = None THEN e ELSE Verified(WithPublication(e, pub)))

ExtendTo ==
  \E src \in InUse, dst \in Handles \ InUse,
     to \in {pub.time : pub \in Publications \ {Incomplete}} \cup {None} :
    Extend("extendTo", src, dst, to, None)

\* KSI_Signature_extend: an incomplete record fails to be copied.
ExtendToRecord ==
  \E src \in InUse, dst \in Handles \ InUse, pub \in Publications \cup {None} :
    IF pub = Incomplete THEN Called("extend", src, dst, pub, None) /\ Fail("ERROR")
    ELSE Extend("extend", src, dst, IF pub = None THEN None ELSE pub.time, pub)

\* KSI_extendSignature: pub is the earliest record of the publications file
\* after the signing time (see PublicationsFile).
ExtendSignature ==
  \E src \in InUse, dst \in Handles \ InUse, pub \in Publications \ {Incomplete} :
    /\ objs[src].cal # None
    /\ SigningTime(objs[src]) < pub.time
    /\ Extend("extend", src, dst, pub.time, pub)

\* Variant: the chain of the object is given up before the new one is looked at.
ReplaceCalendarChainEarly ==
  \E h \in InUse, chain \in Answers :
    /\ Called("replaceCalendarChain", h, None, None, chain)
    /\ IF objs[h].cal = None THEN Fail("INVALID_FORMAT")
       ELSE IF chain = Incomplete \/ chain.input # objs[h].cal.input
            THEN /\ res' = "EXTEND_WRONG_CAL_CHAIN"
                 /\ objs' = [objs EXCEPT ![h].cal = None]
       ELSE Deliver(h, WithCalendarChain(objs[h], chain))

\* KSI_Signature_replaceCalendarChain: the new element is built before
\* anything is replaced.
ReplaceCalendarChain ==
  \E h \in InUse, chain \in Answers :
    /\ Called("replaceCalendarChain", h, None, None, chain)
    /\ IF objs[h].cal = None \/ chain = Incomplete THEN Fail("INVALID_FORMAT")
       ELSE IF chain.input # objs[h].cal.input THEN Fail("EXTEND_WRONG_CAL_CHAIN")
       ELSE Deliver(h, WithCalendarChain(objs[h], chain))

\* KSI_Signature_replacePublicationRecord: the anchors are removed before the
\* new element is built, and stay removed when that fails.
ReplacePublicationRecord ==
  \E h \in InUse, pub \in Publications \cup {None} :
    /\ Called("replacePublicationRecord", h, None, pub, None)
    /\ IF pub = Incomplete
       THEN res' = "INVALID_FORMAT" /\ objs' = [objs EXCEPT ![h] = WithoutAnchors(@)]
       ELSE Deliver(h, IF pub = None THEN objs[h] ELSE WithPublication(objs[h], pub))

Next ==
  \/ Parse
  \/ Create
  \/ Clone
  \/ Free
  \/ ExtendTo
  \/ ExtendToRecord
  \/ ExtendSignature
  \/ ReplaceCalendarChain
  \/ ReplacePublicationRecord

Spec == Init /\ [][Next]_vars

-----------------------------------------------------------------------------
(* Properties.                                                             *)

\* The state stays within its types.
TypeOK ==
  /\ \A h \in InUse :
       /\ objs[h].cal \in (Answers \ {Incomplete}) \cup {None}
                          \cup {Value(tlv, "cal") : tlv \in Inputs \cup Responses}
       /\ objs[h].pub \in (Publications \ {Incomplete}) \cup {None}
                          \cup {Value(tlv, "pub") : tlv \in Inputs}
       /\ objs[h].origin \in {"parsed", "created", "extended"}
       /\ \A i \in DOMAIN objs[h].tlv : objs[h].tlv[i].tag \in Tags \ {"critical"}
  /\ res \in {"OK", "ERROR", "INVALID_FORMAT", "EXTEND_WRONG_CAL_CHAIN",
              "VERIFICATION_FAILURE"}

\* The fields of an object are what its base TLV says.
Faithful(o) ==
  /\ Accepted(o.tlv)
  /\ LET p == Extract(o.tlv) IN
     o.aggr = p.aggr /\ o.cal = p.cal /\ o.auth = p.auth /\ o.pub = p.pub

\* A response that a signature can be made of.
Complete(tlv) == Accepted(tlv) /\ Values(tlv, "aggr") = SortChains(Values(tlv, "aggr"))

\* Whatever is done to an object, also by calls that fail half way, it
\* serializes into something that parses back into the same object.  Of the
\* objects made from a response this holds when the response was complete.
Reparsable ==
  \A h \in InUse :
    objs[h].origin # "created" \/ Complete(Keeping(objs[h].tlv, Tags \ {"pub"}))
      => Faithful(objs[h])

\* An extended signature is the signature it was made from, about the same
\* document, with the calendar chain the extender answered with, no anchor but the
\* publication asked for, and consistent.  When the answer had a status, the chain is
\* the one asked for: from the signing time to the publication time.  An answer
\* without one is never compared with the request (types.c:1094, net.c:813, against
\* types.h:350): then only the internal verification and the input hash say
\* that the chain fits, and it may lead to another publication.
AsAsked ==
  call'.name \in {"extendTo", "extend"} /\ res' = "OK" =>
     LET o == Extract(objs[call'.src].tlv)
         e == objs'[call'.dst]
     IN  /\ e.aggr = o.aggr
         /\ e.cal = call'.answer
         /\ e.auth = None
         /\ e.pub = IF call'.name = "extend" THEN call'.arg ELSE None
         /\ Consistent(e, 0)
         /\ call'.status =>
              /\ e.cal.aggrTime = SigningTime(objs[call'.src])
              /\ call'.arg # None =>
                   e.cal.pubTime = IF call'.name = "extend" THEN call'.arg.time ELSE call'.arg

\* An object whose aggregation chains, in some order, lead from the document at
\* level 0 to the calendar chain the extender answers with can be extended, if that
\* begins where its own does, whatever else its own calendar chain and anchors are
\* and whatever was done to it.
CanExtend ==
  call'.name \in {"extendTo", "extend"} /\ call'.answer # None =>
     LET o == objs[call'.src]
         chains == Values(o.tlv, "aggr")
         Put(p) == [o EXCEPT !.aggr = Ordered(chains, p), !.cal = call'.answer]
     IN  call'.answer.input = o.cal.input /\ (\E p \in Orders(Len(chains)) : Consistent(Put(p), 0))
           => res' = "OK"

\* KSI_Signature_extendTo, KSI_Signature_extend: what can be extended is, and
\* what comes out is what was asked for.
ExtendedAsAsked == [][AsAsked /\ CanExtend]_vars

\* A call that fails leaves every object as it was, but for a publication
\* record that cannot be encoded, which costs the object its anchors: in the
\* fields and in the TLV alike.
FailureChangesNothing ==
  [][res' # "OK" =>
       \A h \in Handles :
         \/ objs'[h] = objs[h]
         \/ /\ call'.name = "replacePublicationRecord" /\ call'.src = h
            /\ objs[h] # None
            /\ objs'[h] = WithoutAnchors(objs[h])]_vars

\* A signature extended to a publication record is anchored in it: its
\* calendar chain leads to the published hash (the comment in KSI_Signature_extend),
\* at least when the answer was compared with the request.
ExtendedReachesPublication ==
  [][call'.name = "extend" /\ res' = "OK" /\ call'.arg # None /\ call'.status =>
       objs'[call'.dst].cal.root = call'.arg.imprint]_vars
=============================================================================
