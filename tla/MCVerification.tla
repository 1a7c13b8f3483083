--------------------------- MODULE MCVerification ---------------------------
(***************************************************************************)
(* Small instance of Verification: one good calendar chain and chains one  *)
(* field off, an authentication record and a publication that fit it and   *)
(* ones that do not, two publications files.                               *)
(***************************************************************************)
EXTENDS Verification, TLC

CONSTANTS h1, h2, c1, c2, f1, f2

MCHashes == {h1, h2}
MCTimes == {1, 2}
MCLevels == {0, 1}
MCCerts == {c1, c2}
MCFiles == {f1, f2}

GoodChain == [input |-> h1, aggrTime |-> 1, pubTime |-> 2, root |-> h2, calcTime |-> 1]

MCChains == {GoodChain,
             [GoodChain EXCEPT !.input = h2],
             [GoodChain EXCEPT !.aggrTime = 2, !.calcTime = 2],
             [GoodChain EXCEPT !.calcTime = 2],
             [GoodChain EXCEPT !.calcTime = Uncomputable],
             [GoodChain EXCEPT !.root = h1],
             [GoodChain EXCEPT !.root = Uncomputable],
             [GoodChain EXCEPT !.pubTime = 1]}

GoodPub == [time |-> 2, imprint |-> h2]
WrongPubs == {[time |-> 2, imprint |-> h1], [time |-> 1, imprint |-> h2]}

GoodAuth == [pubData |-> GoodPub, cert |-> c1, genuine |-> TRUE]

MCAuths == {None, GoodAuth,
            [GoodAuth EXCEPT !.genuine = FALSE],
            [GoodAuth EXCEPT !.cert = c2]}
           \cup {[GoodAuth EXCEPT !.pubData = p] : p \in WrongPubs}

MCAggr == {(0 :> h1 @@ 1 :> h2), (0 :> Inconsistent @@ 1 :> h1),
           (0 :> Uncomputable @@ 1 :> h1)}

\* The template of a signature lets it have a publication record or an
\* authentication record, not both.
MCSignatures ==
  {[doc |-> h1, aggr |-> a, aggrTime |-> 1, cal |-> c, auth |-> r, pub |-> None] :
     a \in MCAggr, c \in MCChains, r \in MCAuths}
  \cup
  {[doc |-> h1, aggr |-> a, aggrTime |-> 1, cal |-> c, auth |-> None, pub |-> p] :
     a \in MCAggr, c \in MCChains, p \in {GoodPub} \cup WrongPubs}

MCFileCerts == (f1 :> {c1} @@ f2 :> {c2})
MCFilePubs == (f1 :> {GoodPub} @@ f2 :> WrongPubs)
=============================================================================
