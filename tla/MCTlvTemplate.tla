---------------------------- MODULE MCTlvTemplate ----------------------------
(***************************************************************************)
(* Small instance of TlvTemplate: the shapes of the templates of the       *)
(* library, with every TLV of up to MaxElements elements and every object  *)
(* with up to MaxValues values in a list.                                  *)
(***************************************************************************)
EXTENDS TlvTemplate

\* KSI_HashChainLink, the PDUs: one and only one of a group.
LinkTemplate ==
  <<Slot(1, "level", {}), Slot(2, "imprint", {"least_one", "most_one"}),
    Slot(3, "metaHash", {"least_one", "most_one"})>>
\* KSI_CalendarHashChain, KSI_AggregationHashChain: two slots for one list.
ChainTemplate ==
  <<Slot(1, "pubTime", {"mandatory"}), Slot(2, "aggrTime", {}),
    Slot(3, "links", {"list", "least_one"}),
    Slot(4, "links", {"list", "least_one", "no_serialize"})>>
\* KSI_Signature: at most one of a group, a mandatory list.
SignatureTemplate ==
  <<Slot(1, "chains", {"list", "mandatory"}), Slot(2, "pub", {"most_one"}),
    Slot(3, "auth", {"most_one"})>>
\* KSI_PublicationsFile
FileTemplate ==
  <<Slot(1, "header", {"mandatory"}), Slot(3, "records", {"list"}),
    Slot(4, "signature", {"mandatory", "more_defs"})>>

MCTemplates == {LinkTemplate, ChainTemplate, SignatureTemplate, FileTemplate}

Kind(tag, nonCritical, bad) == [tag |-> tag, nonCritical |-> nonCritical, bad |-> bad]
MCElements ==
  {Kind(tag, FALSE, FALSE) : tag \in {1, 2, 3, 4, 9}}
  \cup {Kind(1, TRUE, FALSE), Kind(2, TRUE, FALSE), Kind(2, TRUE, TRUE), Kind(9, TRUE, FALSE)}
=============================================================================
