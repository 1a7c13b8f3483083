-------------------------- MODULE MCSignatureObject --------------------------
(***************************************************************************)
(* Small instance of SignatureObject: one document, aggregated in one or   *)
(* two rounds from level 0 or from level 1, and the calendar chains and    *)
(* publications that do and do not fit it.                                 *)
(***************************************************************************)
EXTENDS SignatureObject, TLC

CONSTANTS h1, h2, doc, mid, root, other, p1, p2

Handle2 == {h1, h2}

Lower == [len |-> 2, base |-> 0, top |-> 3, time |-> 1, input |-> doc, output |-> mid]
Upper == [len |-> 1, base |-> 3, top |-> 5, time |-> 1, input |-> mid, output |-> root]
Single == [len |-> 1, base |-> 0, top |-> 5, time |-> 1, input |-> doc, output |-> root]

Chain(input, aggrTime, pubTime, hash) ==
  [input |-> input, aggrTime |-> aggrTime, pubTime |-> pubTime, root |-> hash, fits |-> TRUE]

Pub2 == [time |-> 2, imprint |-> p1]
Pub3 == [time |-> 3, imprint |-> p2]

Aggr(c) == Element("aggr", c)
Cal(c) == Element("cal", c)
Auth == Element("auth", Pub2)

Signed == Chain(root, 1, 2, p1)

MCInputs ==
  {<<Aggr(Lower), Aggr(Upper), Cal(Signed), Auth>>,
   <<Aggr(Upper), Element("noncritical", None), Aggr(Lower), Cal(Signed), Element("pub", Pub2)>>,
   <<Cal([Signed EXCEPT !.aggrTime = None]), Aggr([Single EXCEPT !.time = 2])>>,
   <<Aggr([Single EXCEPT !.base = 1]), Cal(Signed)>>,
   <<Aggr(Single), Cal([Signed EXCEPT !.fits = FALSE]), Auth>>,
   <<Aggr(Single), Aggr(Single), Cal(Signed)>>,
   <<Aggr(Single), Cal([Signed EXCEPT !.input = other])>>,
   <<Aggr(Single), Cal(Signed), Auth, Element("pub", Pub2)>>,
   <<Aggr(Single), Cal(Signed), Element("critical", None)>>}

MCResponses ==
  {<<Aggr(Lower), Aggr(Upper), Cal(Signed), Auth>>,
   <<Aggr(Upper), Aggr(Lower), Cal(Signed)>>,
   <<Aggr(Single)>>,
   <<Cal(Signed), Auth>>,
   <<Aggr(Single), Cal(Signed), Cal(Signed)>>}

MCAnswers ==
  {Chain(root, 1, 2, p1), Chain(root, 1, 3, p2), Chain(root, 2, 3, p2), Chain(other, 1, 3, p2),
   Incomplete}

MCPublications == {Pub2, Pub3, [Pub3 EXCEPT !.imprint = p1], Incomplete}

Symmetry == Permutations(Handle2)
=============================================================================
