------------------------------- MODULE Hashing -------------------------------
(***************************************************************************)
(* The hasher (hash.c, hash_openssl.c), the HMAC computed with it (hmac.c) *)
(* and the names of the signers found in the links of a signature          *)
(* (KSI_Signature_getSignerIdentity).                                      *)
(*                                                                         *)
(* A hash is the term of what its hasher was fed with; a byte of a hash or *)
(* key says whose byte it is.  Lengths are scaled down by the constants.   *)
(***************************************************************************)
EXTENDS Integers, Sequences, SequencesExt, Selection

CONSTANTS
  Algorithms,        \* identifiers of hash algorithms
  Supported,         \* those the build can compute
  DigestLen,         \* KSI_getHashLength of each
  InputBlock,        \* the block each one hashes at a time
  BlockLen,          \* MAX_KEY_LEN, 64
  KeyMax,            \* the longest key, 0xffff
  ByteMax,           \* 0xff
  None               \* the NULL pointer

ASSUME AlgorithmsAssumption == Supported \subseteq Algorithms
ASSUME LengthsAssumption ==
  /\ DigestLen \in [Algorithms -> Nat] /\ InputBlock \in [Algorithms -> Nat]
  /\ BlockLen \in Nat /\ KeyMax \in Nat /\ ByteMax \in Nat
\* The longest digest fills the block of the HMAC (SHA-512).
ASSUME DigestAssumption == \A a \in Algorithms : DigestLen[a] <= BlockLen

-----------------------------------------------------------------------------
(* The hasher.  What it is fed with after a close is lost until it is      *)
(* reset.                                                                  *)

Open(a) == [algo |-> a, fed |-> << >>, open |-> TRUE]
Rested(a) == [algo |-> a, fed |-> << >>, open |-> FALSE]

\* Variant: the context is not initialised again.
ResetNothing(h) == h

\* A hasher keeps the algorithm it was opened with.
Reset(h) == Open(h.algo)
Add(h, items) == IF h.open THEN [h EXCEPT !.fed = @ \o items] ELSE h
Close(h) == [hash |-> [algo |-> h.algo, fed |-> h.fed], hasher |-> Rested(h.algo)]

Bytes(hash) == [i \in 1 .. DigestLen[hash.algo] |-> [of |-> hash, nr |-> i]]

-----------------------------------------------------------------------------
(* KSI_HMAC_create                                                         *)

ZeroByte == [of |-> None, nr |-> 0]
Padded(pad, bytes, n) ==
  [i \in 1 .. n |-> [xor |-> pad, byte |-> IF i <= Len(bytes) THEN bytes[i] ELSE ZeroByte]]
Block(pad, bytes) == Padded(pad, bytes, BlockLen)

HmacError(a, key, data) ==
  IF data = << >> \/ key = << >> \/ Len(key) > KeyMax \/ DigestLen[a] > BlockLen
  THEN "INVALID_ARGUMENT"
  ELSE IF a \notin Supported THEN "UNAVAILABLE_HASH_ALGORITHM" ELSE "OK"

\* A key longer than the block is hashed first, with the same hasher.
BlockKey(h, key) ==
  IF Len(key) <= BlockLen THEN [hasher |-> h, bytes |-> key]
  ELSE LET closed == Close(Add(h, key)) IN [hasher |-> closed.hasher, bytes |-> Bytes(closed.hash)]

Hmac(a, key, data) ==
  LET k == BlockKey(Open(a), key)
      inner == Close(Add(Add(Reset(k.hasher), Block("ipad", k.bytes)), data))
      outer == Close(Add(Add(Reset(inner.hasher), Block("opad", k.bytes)), Bytes(inner.hash)))
  IN  outer.hash

-----------------------------------------------------------------------------
(* Names.  A metahash is an imprint of `size` bytes: after the algorithm   *)
(* stand a length of two bytes, `meta`, and `body`; `left` is what lies in *)
(* the memory behind the imprint up to the next zero.                      *)

NUL == "NUL"
Separator == << " ", ":", ":", " " >>

\* What "%s" takes of a text, up to its first zero.
CutAt(s) ==
  CHOOSE n \in 0 .. Len(s) : (n = Len(s) \/ s[n + 1] = NUL) /\ \A i \in 1 .. n : s[i] # NUL
Cut(s) == SubSeq(s, 1, CutAt(s))

\* The high byte of the length is shifted out of the byte it is cut to.
MetaLen(m) == m.meta % (ByteMax + 1)

MetaError(m) ==
  IF m.size < 3 \/ MetaLen(m) + 3 > m.size
     \/ \E i \in MetaLen(m) + 1 .. Len(m.body) : m.body[i] # NUL
  THEN "INVALID_FORMAT" ELSE "OK"

\* What "%s" prints, and the space set aside for it and a separator.  The size of a
\* client id counts its zero.
Name(link) == Cut(IF link.content = "metaHash" THEN link.value.body \o link.value.left ELSE link.value)
Room(link) == 4 + (IF link.content = "metaHash" THEN MetaLen(link.value) ELSE Len(link.value) + 1)

\* The links with a name, from the top of the signature to the document.
Named(links) == Selected(Reverse(links), {l \in ToSet(links) : l.content \in {"metaHash", "metaData"}})

IdentityError(links) ==
  IF \E i \in DOMAIN links : links[i].content = "metaHash" /\ MetaError(links[i].value) # "OK"
  THEN "INVALID_FORMAT" ELSE "OK"

\* The space for so many of the names, and a zero.
Rooms(named) ==
  LET n[i \in 0 .. Len(named)] == IF i = 0 THEN 1 ELSE n[i - 1] + Room(named[i])
  IN  n
BufferSize(named) == Rooms(named)[Len(named)]

\* KSI_snprintf at the end of the text: what does not fit, with its zero, is cut off.
PrintTo(text, name, size) ==
  LET new == (IF text = << >> THEN << >> ELSE Separator) \o name
      free == size - Len(text) - 1
  IN  text \o SubSeq(new, 1, IF Len(new) > free THEN free ELSE Len(new))

\* The text after so many of the names.
Texts(named) ==
  LET size == BufferSize(named)
      text[i \in 0 .. Len(named)] == IF i = 0 THEN << >> ELSE PrintTo(text[i - 1], Name(named[i]), size)
  IN  text
SignerIdentity(links) == Texts(Named(links))[Len(Named(links))]
=============================================================================
