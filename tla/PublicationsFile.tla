--------------------------- MODULE PublicationsFile ---------------------------
(***************************************************************************)
(* The publications file (publicationsfile.c): read once, element by       *)
(* element, kept by the context for good (base.c), verified on request     *)
(* against its own PKI signature and the trust store of the context        *)
(* (pkitruststore_openssl.c), and searched by time, by publication string, *)
(* for a whole record and for a certificate.                               *)
(*                                                                         *)
(* A file is a magic number and a sequence of elements.  A record is what  *)
(* a publication element holds: a time and an imprint.                     *)
(***************************************************************************)
EXTENDS PublicationString, Selection

CONSTANTS
  Contents,   \* what the publications URL may hold
  Given,      \* what a file that the application gives the context may hold
  Times,      \* publication times, of records and asked for
  Imprints,   \* imprints, of records and asked for
  CertIds,    \* certificate ids, of certificates and asked for
  Printed,    \* records whose publication string is typed
  Emails,     \* addresses the context may be given
  DefaultEmail, \* the one a new context has
  Stores,     \* what a file or directory of root certificates may hold: sets of roots
  SystemRoots, \* the set of roots of the system
  None        \* the NULL pointer

Kinds == {"header", "certificate", "publication", "signature", "unknown", "cut"}
\* `value`: the record of a publication, the id of a certificate, a PKI signature; None
\* for a certificate or a signature that OpenSSL does not decode; what the end of the
\* file cuts off, the "header" of an element or its "value".
Element(kind, critical, value) == [kind |-> kind, critical |-> critical, value |-> value]
\* `genuine`: made over what stands before it in the file; `email` and `root`: the
\* address in the certificate of the signer (None if it has none) and where its chain ends.
PKISignature(genuine, signers, email, root) ==
  [genuine |-> genuine, signers |-> signers, email |-> email, root |-> root]

Records == [time : Times, imprint : Imprints]

\* A file is a file, not the NULL pointer, and what its elements hold is of their kind.
ASSUME ContentsAssumption ==
  \A c \in Contents \cup Given :
    /\ c # None /\ c.magic \in BOOLEAN /\ c.elements \in Seq(ToSet(c.elements))
    /\ \A e \in ToSet(c.elements) :
         /\ e.kind \in Kinds
         /\ e.kind = "publication" => e.value \in Records
         /\ e.kind = "certificate" => e.value \in CertIds \cup {None}
         /\ e.kind = "cut" => e.value \in {"header", "value"}
ASSUME TimesAssumption == Times \subseteq Nat
ASSUME EmailsAssumption == DefaultEmail \in Emails
ASSUME NullAssumption == None \notin Records \cup CertIds \cup Emails

\* Sizes only have to tell apart where elements begin.
MagicSize == 8
Size(e) == IF e.kind = "publication" THEN 3 ELSE 2

-----------------------------------------------------------------------------
(* Parsing: generateNextTlv and the template KSI_PublicationsFile, whose   *)
(* header, certificates, publications and signature are all mandatory.     *)

EmptyFile ==
  [header |-> FALSE, certificates |-> << >>, publications |-> << >>, signature |-> None,
   offset |-> 0, sigOffset |-> 0, res |-> "OK"]

\* Variant: the offset of the signature is taken after it has been read.
NoteAfter(f, e) ==
  [f EXCEPT !.sigOffset = IF e.kind = "signature" THEN f.offset + Size(e) ELSE @,
            !.offset = @ + Size(e)]
\* generateNextTlv: where the element begins, if it is the signature.
Note(f, e) ==
  [f EXCEPT !.sigOffset = IF e.kind = "signature" THEN f.offset ELSE @,
            !.offset = @ + Size(e)]

\* The slot of the header is left behind once it has been hit; a second header is
\* an unknown element from then on.
Known(f, e) ==
  \/ e.kind \in {"certificate", "publication", "signature"}
  \/ e.kind = "header" /\ ~f.header

\* Variant: the slot of the certificates is left behind once publications begin.
TakeOrdered(f, e) ==
  CASE e.kind = "header" -> [f EXCEPT !.header = TRUE]
    [] e.kind = "certificate" ->
         IF f.publications # << >> THEN [f EXCEPT !.res = "INVALID_FORMAT"]
         ELSE [f EXCEPT !.certificates = Append(@, e.value)]
    [] e.kind = "publication" -> [f EXCEPT !.publications = Append(@, e.value)]
    [] e.kind = "signature" -> [f EXCEPT !.signature = e.value]
Take(f, e) ==
  CASE e.kind = "header" -> [f EXCEPT !.header = TRUE]
    [] e.kind = "certificate" ->
         IF e.value = None THEN [f EXCEPT !.res = "INVALID_FORMAT"]
         ELSE [f EXCEPT !.certificates = Append(@, e.value)]
    [] e.kind = "publication" -> [f EXCEPT !.publications = Append(@, e.value)]
    [] e.kind = "signature" ->
         IF f.signature # None THEN [f EXCEPT !.res = "INVALID_FORMAT"]
         ELSE IF e.value = None THEN [f EXCEPT !.res = "CRYPTO_FAILURE"]
         ELSE [f EXCEPT !.signature = e.value]

\* KSI_TLV_readTlv of an element that the end of the file cuts short.
CutShort(e) == IF e.value = "header" THEN "INVALID_FORMAT" ELSE "INVALID_ARGUMENT"

\* KSI_TlvTemplate_extractGenerator, one turn of its loop.
ReadElement(f, e) ==
  CASE f.res # "OK" -> f
    [] f.res = "OK" /\ e.kind = "cut" -> [f EXCEPT !.res = CutShort(e)]
    [] f.res = "OK" /\ e.kind # "cut" /\ Known(f, e) -> Take(Note(f, e), e)
    [] f.res = "OK" /\ e.kind # "cut" /\ ~Known(f, e) ->
         IF e.critical THEN [f EXCEPT !.res = "INVALID_FORMAT"] ELSE Note(f, e)

Mandatory(f) ==
  f.header /\ f.certificates # << >> /\ f.publications # << >> /\ f.signature # None

\* What has been read after so many turns.
Reading(elements) ==
  LET f[i \in 0 .. Len(elements)] ==
        IF i = 0 THEN EmptyFile ELSE ReadElement(f[i - 1], elements[i])
  IN  f

\* KSI_PublicationsFile_parse: the file, or the error.
Parse(content) ==
  LET f == Reading(content.elements)[Len(content.elements)]
  IN IF ~content.magic \/ (f.res = "OK" /\ ~Mandatory(f))
       THEN [EmptyFile EXCEPT !.res = "INVALID_FORMAT"] ELSE f

ASSUME ParseAssumption == \A c \in Contents \cup Given : Parse(c) # None

SignedDataLength(f) == MagicSize + f.sigOffset

-----------------------------------------------------------------------------
VARIABLES
  file,      \* ctx->publicationsFile
  content,   \* history: what that file was made from
  trust,     \* ctx->pkiTruststore, its roots, and ctx->publicationCertEmail
  out,       \* the caller's pointer to a record or a certificate
  call       \* the last call: operation, argument (of receive: whether the content
             \* was Proper), result, and `out` before it

vars == <<file, content, trust, out, call>>

Call(op, arg, res) == [op |-> op, arg |-> arg, res |-> res, before |-> out]

Init ==
  /\ file = None /\ content = None /\ out = None
  /\ trust = [roots |-> SystemRoots, email |-> DefaultEmail]
  /\ call = [op |-> "none", arg |-> None, res |-> "OK", before |-> None]

Values(elements, kind) ==
  LET es == Selected(elements, {e \in ToSet(elements) : e.kind = kind}) IN [i \in DOMAIN es |-> es[i].value]

\* One header, one signature, certificates and publications, all of them whole, and
\* nothing critical that is unknown.
Proper(c) ==
  LET Count(kind) == Len(Values(c.elements, kind))
  IN /\ c.magic /\ Count("header") = 1 /\ Count("signature") = 1 /\ Count("cut") = 0
     /\ Count("certificate") > 0 /\ Count("publication") > 0
     /\ \A i \in DOMAIN c.elements :
          LET e == c.elements[i]
          IN /\ e.kind = "unknown" => ~e.critical
             /\ e.kind \in {"certificate", "signature"} => e.value # None

\* KSI_receivePublicationsFile: downloaded and parsed when there is no file yet,
\* never again after that.  A download that fails leaves everything as it was.
\* Variant: the file is kept before it is known to parse.
KeepAlways(c) == file' = Parse(c) /\ content' = c
Keep(c) ==
  LET f == Parse(c)
  IN IF f.res = "OK" THEN file' = f /\ content' = c ELSE UNCHANGED <<file, content>>

Receive(c) ==
  /\ file = None
  /\ Keep(c)
  /\ call' = Call("receive", Proper(c), Parse(c).res) /\ UNCHANGED <<trust, out>>

ReceiveCached ==
  file # None /\ call' = Call("receive", TRUE, "OK") /\ UNCHANGED <<file, content, trust, out>>

DownloadFails ==
  /\ file = None
  /\ call' = Call("receive", FALSE, "NETWORK_ERROR") /\ UNCHANGED <<file, content, trust, out>>

\* KSI_CTX_setPublicationsFile with a file from KSI_PublicationsFile_fromFile, or with
\* NULL.  The old file is freed: the caller lets go of what it has of it.
SetPublicationsFile(c) ==
  /\ IF c = None THEN file' = None /\ content' = None ELSE Parse(c).res = "OK" /\ Keep(c)
  /\ out' = None
  /\ call' = [op |-> "set", arg |-> None, res |-> "OK", before |-> None]
  /\ UNCHANGED trust

-----------------------------------------------------------------------------
(* The trust store and verification.                                       *)

Setter(op, res) == call' = Call(op, None, res) /\ UNCHANGED <<file, content, out>>

\* KSI_PKITruststore_addLookupFile, KSI_PKITruststore_addLookupDir; None stands for a path
\* that cannot be read.
AddLookup(roots) ==
  IF roots = None THEN Setter("lookup", "INVALID_FORMAT") /\ UNCHANGED trust
  ELSE Setter("lookup", "OK") /\ trust' = [trust EXCEPT !.roots = @ \cup roots]

\* KSI_CTX_setPKITruststore with a store from KSI_PKITruststore_new, which holds the roots
\* of the system or nothing; the old one is freed.
SetPKITruststore(setDefaults) ==
  /\ Setter("truststore", "OK")
  /\ trust' = [trust EXCEPT !.roots = IF setDefaults THEN SystemRoots ELSE {}]

\* KSI_CTX_setPublicationCertEmail; an empty address counts as none.
SetPublicationCertEmail(email) ==
  /\ Setter("email", "OK")
  /\ trust' = [trust EXCEPT !.email = IF email = "" THEN None ELSE email]

\* The size of what stands before the first signature, in so many elements.
Preceding(elements) ==
  LET n[i \in 0 .. Len(elements)] ==
        IF i = 0 THEN 0
        ELSE IF \E j \in 1 .. i : elements[j].kind = "signature" THEN n[i - 1]
        ELSE n[i - 1] + Size(elements[i])
  IN  n
SizeBefore(elements) == Preceding(elements)[Len(elements)]

\* KSI_PKITruststore_verifySignatureCertificate: one signer, its address, its chain.
CertificateVerdict(sig) ==
  CASE sig.signers # 1 -> "INVALID_FORMAT"
    [] sig.signers = 1 /\ trust.email # None /\ sig.email # trust.email -> "PKI_CERTIFICATE_NOT_TRUSTED"
    [] OTHER -> IF sig.root \in trust.roots THEN "OK" ELSE "PKI_CERTIFICATE_NOT_TRUSTED"

\* KSI_PublicationsFile_verify: the trust store is given so many bytes, and OpenSSL accepts
\* a signature that was made over exactly these.
Verify ==
  /\ file # None
  /\ LET good == file.signature.genuine
                 /\ SignedDataLength(file) = MagicSize + SizeBefore(content.elements)
     IN call' = Call("verify", None,
                     IF good THEN CertificateVerdict(file.signature) ELSE "INVALID_PKI_SIGNATURE")
  /\ UNCHANGED <<file, content, trust, out>>

-----------------------------------------------------------------------------
(* Searches.  Each scans the list once from its beginning.                 *)

\* The first in the list that is in the set.
First(s, T) == LET hits == Selected(s, T) IN IF hits = << >> THEN None ELSE hits[1]

Nearer(best, r, t) ==
  IF t < r.time /\ (best = None \/ best.time > r.time) THEN r ELSE best
\* KSI_PublicationsFile_getNearestPublication; KSI_PublicationsFile_getLatestPublication
\* runs the same loop, and refuses the NULL its comment speaks of.
Nearing(pubs, t) ==
  LET best[i \in 0 .. Len(pubs)] == IF i = 0 THEN None ELSE Nearer(best[i - 1], pubs[i], t)
  IN  best
Nearest(pubs, t) == Nearing(pubs, t)[Len(pubs)]
ByTime(pubs, t) == First(pubs, {r \in ToSet(pubs) : r.time = t})

Search(op, arg, res, found) ==
  /\ out' = found /\ call' = Call(op, arg, res) /\ UNCHANGED <<file, content, trust>>

GetNearestPublication(t) == Search("nearest", t, "OK", Nearest(file.publications, t))
GetLatestPublication(t) ==
  IF t = None THEN Search("latest", t, "INVALID_ARGUMENT", out)
  ELSE Search("latest", t, "OK", Nearest(file.publications, t))
GetPublicationDataByTime(t) == Search("byTime", t, "OK", ByTime(file.publications, t))

\* What the caller may type for a printed record: its string, with its dashes or without,
\* or (`wrong`) the string with one character replaced, left out or put in, or with two
\* neighbours swapped.
Mistyped(text) ==
  {ReplaceAt(text, i, c) : i \in DOMAIN text, c \in Characters}
  \cup {InsertAt(text, i, c) : i \in DOMAIN text, c \in Characters}
  \cup {RemoveAt(text, i) : i \in DOMAIN text}
  \cup {ReplaceAt(ReplaceAt(text, i, text[i + 1]), i + 1, text[i]) : i \in 1..(Len(text) - 1)}
Typing(r, texts, wrong) == {[of |-> r, wrong |-> wrong, read |-> FromBase32(t)] : t \in texts}
Typed ==
  UNION {LET text == ToBase32(r)
         IN Typing(r, {text, SelectSeq(text, LAMBDA c : c # Dash)}, FALSE)
            \cup Typing(r, Mistyped(text) \ {text}, TRUE) : r \in Printed}

\* Only the first record of that time is compared.
GetPublicationDataByPublicationString(s) ==
  LET r == s.read.record
      found == ByTime(file.publications, r.time)
  IN IF s.read.res # "OK" THEN Search("byString", s, s.read.res, out)
     ELSE IF found # None /\ found.imprint # r.imprint
       THEN Search("byString", s, "INVALID_PUBLICATION", out)
       ELSE Search("byString", s, "OK", found)

\* These two leave the caller's pointer alone when they find nothing.
FindRecord(pubs, r) == First(pubs, {r})
FindPublication(r) ==
  LET found == FindRecord(file.publications, r)
  IN Search("find", r, "OK", IF found = None THEN out ELSE found)
GetPKICertificateById(id) ==
  LET found == First(file.certificates, {id})
  IN Search("certificate", id, "OK", IF found = None THEN out ELSE found)

Next ==
  \/ \E c \in Contents : Receive(c)
  \/ \E c \in Given \cup {None} : SetPublicationsFile(c)
  \/ ReceiveCached \/ DownloadFails \/ Verify
  \/ \E roots \in Stores \cup {None} : AddLookup(roots)
  \/ \E setDefaults \in BOOLEAN : SetPKITruststore(setDefaults)
  \/ \E email \in Emails \cup {None, ""} : SetPublicationCertEmail(email)
  \/ /\ file # None
     /\ \/ \E t \in Times : GetNearestPublication(t) \/ GetPublicationDataByTime(t)
        \/ \E t \in Times \cup {None} : GetLatestPublication(t)
        \/ \E s \in Typed : GetPublicationDataByPublicationString(s)
        \/ \E r \in Records : FindPublication(r)
        \/ \E id \in CertIds : GetPKICertificateById(id)

Spec == Init /\ [][Next]_vars

-----------------------------------------------------------------------------
(* Properties.                                                             *)

\* Every variable has its type: a file that is kept is one that was parsed whole.
TypeOK ==
  /\ file # None => file.res = "OK" /\ Mandatory(file)
  /\ (file = None) = (content = None)
  /\ trust.roots \subseteq SystemRoots \cup UNION Stores /\ trust.email \in Emails \cup {None}
  /\ out \in Records \cup CertIds \cup {None}
  /\ call.res \in {"OK", "INVALID_FORMAT", "NETWORK_ERROR", "INVALID_ARGUMENT", "CRYPTO_FAILURE",
                   "INVALID_PUBLICATION", "INVALID_PKI_SIGNATURE", "PKI_CERTIFICATE_NOT_TRUSTED",
                   "UNAVAILABLE_HASH_ALGORITHM"}

\* "make no assumptions with the ordering" (publicationsfile.c): a file that has what
\* it must have is accepted whatever the order of its elements.  This is the word of the
\* code against that of its header, "components that must appear in the following order"
\* (publicationsfile.h:32): a file that is not in that order should have been refused.
AnyOrderAccepted == call.op = "receive" /\ call.arg => call.res = "OK"

\* A file that is kept holds every publication and certificate of its content, in
\* order, and the one signature: nothing is dropped, doubled or replaced.
NothingLost ==
  file # None =>
    /\ file.publications = Values(content.elements, "publication")
    /\ file.certificates = Values(content.elements, "certificate")
    /\ <<file.signature>> = Values(content.elements, "signature")

\* What is parsed is what was there, and all that is proper is parsed.
ParsedWhole == AnyOrderAccepted /\ NothingLost

\* A file verifies exactly if its signature was made over all that stands before it,
\* wherever that is and whatever was skipped there, by one signer with the address the
\* context asks for now and a chain to a root of the store the context has now.
GenuineVerifies ==
  call.op = "verify" =>
    LET sig == Values(content.elements, "signature")[1]
    IN (call.res = "OK") = (/\ sig.genuine /\ sig.signers = 1
                            /\ trust.email \in {None, sig.email} /\ sig.root \in trust.roots)

\* "The next available publication (published after the given time)", as
\* publicationsfile.h says of both searches: what they hand out is later than the time, no
\* record lies between, and NULL means that no record is later.  The file need not be
\* ordered by time.  Of the second search, for the latest publication, the comments in the
\* code say otherwise: "after the last found time" (publicationsfile.c:796), where it keeps
\* the earlier one, and the latest of all for NULL (publicationsfile.c:793), which is refused.
NearestIsNext ==
  call.op \in {"nearest", "latest"} /\ call.res = "OK" =>
    LET later == {r \in ToSet(file.publications) : r.time > call.arg}
    IN IF later = {} THEN out = None
       ELSE out \in later /\ \A r \in later : out.time <= r.time

\* Of the records with its time, the first in the file.
FirstOfTime(r) ==
  \E i \in DOMAIN file.publications :
    /\ file.publications[i] = r
    /\ \A j \in 1 .. i - 1 : file.publications[j].time # r.time

\* What a publication string finds is the very record it was printed for, and that is found
\* just if it is the first in the file with its time; NULL means that the file has no record
\* of that time.  Otherwise the string is refused as an INVALID_PUBLICATION, and a string
\* with one slip of the typist is refused too, or finds what it was printed for.  "Returned
\* if found, otherwise evaluated to NULL" (publicationsfile.h:155) says more than the code
\* does: a record behind another one of its time is refused although it is there, and a
\* refusal leaves the pointer of the caller as it was.
StringFindsRecord ==
  call.op = "byString" =>
    LET asked == call.arg.of
        known == \E r \in ToSet(file.publications) : r.time = asked.time
    IN CASE call.res = "OK" ->
              IF known THEN FirstOfTime(asked) /\ out = asked ELSE out = None
         [] call.res = "INVALID_PUBLICATION" ->
              known /\ ~FirstOfTime(asked) /\ out = call.before
         [] OTHER -> call.arg.wrong /\ out = call.before

\* A record of a signature is found just if the file has that very record.
RecordFinds ==
  call.op = "find" =>
     out = IF call.arg \in ToSet(file.publications) THEN call.arg ELSE call.before

\* Every search hands out what it was asked for, as far as the code goes.
SearchesFind == NearestIsNext /\ StringFindsRecord /\ RecordFinds
=============================================================================
