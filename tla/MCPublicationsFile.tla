-------------------------- MODULE MCPublicationsFile --------------------------
(***************************************************************************)
(* Small instance of PublicationsFile: every file of up to four elements   *)
(* of any kind, and files with up to three publications and a signature    *)
(* anywhere among them.                                                    *)
(***************************************************************************)
EXTENDS PublicationsFile

CONSTANTS a, b, root, other

\* Two algorithms, with digests of one and two bytes.  A checksum of two bytes tells any
\* two strings apart that differ in two neighbouring characters, as four bytes do.
MCHashLength == [alg \in {1, 5} |-> IF alg = 1 THEN 1 ELSE 2]
MCPolynomial == {0, 13, 15}
x == <<1, 171>>
y == <<5, 60, 9>>

Pub(t, i) == Element("publication", TRUE, Record(t, i))
Cert(id) == Element("certificate", TRUE, id)
Header == Element("header", TRUE, "header")
Sig(genuine, signers, email, end) == Element("signature", TRUE, PKISignature(genuine, signers, email, end))
Genuine == Sig(TRUE, 1, "p", root)
Foreign == Sig(FALSE, 1, "p", root)

AnyKind ==
  {Header, Cert(a), Pub(1, x), Genuine, Foreign,
   Element("unknown", TRUE, "u"), Element("unknown", FALSE, "u"), Element("cut", TRUE, "value")}
UpTo(n, S) == UNION {[1..m -> S] : m \in 0..n}
Content(es) == [magic |-> TRUE, elements |-> es]

Many ==
  {<<Header, Cert(a)>> \o es :
     es \in UpTo(4, {Pub(1, x), Pub(1, y), Pub(2, x), Pub(3, x), Genuine})}
Skipping ==
  {<<Element("unknown", FALSE, "u"), Header, Pub(2, x)>> \o es :
     es \in UpTo(3, {Cert(a), Cert(b), Genuine, Foreign, Element("header", FALSE, "header")})}
Signed ==
  {<<Header, Cert(c), Pub(1, x), s>> :
     c \in {a, None},
     s \in {Sig(TRUE, 2, "p", root), Sig(TRUE, 1, None, root), Sig(TRUE, 1, "q", root),
            Sig(TRUE, 1, "p", other), Element("signature", TRUE, None)}}

Beheaded == {<<Header, Cert(a), Pub(1, x)>> \o es \o <<Element("cut", TRUE, "header")>> :
              es \in UpTo(1, {Genuine})}

MCContents ==
  {Content(es) : es \in UpTo(4, AnyKind) \cup Many \cup Skipping \cup Signed \cup Beheaded}
  \cup {[magic |-> FALSE, elements |-> <<Header, Cert(a), Pub(1, x), Genuine>>]}
MCGiven == {Content(<<Header, Cert(a), Pub(3, x), Pub(1, x), Pub(2, y), Genuine>>)}
MCImprints == {x, y}
MCPrinted == {Record(1, x), Record(1, y), Record(2, x), Record(0, y)}
MCStores == {{root}}
MCSystemRoots == {}
=============================================================================
