--------------------------- MODULE PublicationString ---------------------------
(***************************************************************************)
(* Publication strings: a publication (a time and an imprint) as bytes     *)
(* with a checksum (publicationsfile.c, crc32.c), and bytes as text in     *)
(* base 32 with dashes between groups (base32.c).                          *)
(*                                                                         *)
(* A character is a number: 0..31 the letters and digits that stand for    *)
(* five bits (in capitals or not), and the four kinds of other characters  *)
(* the decoder tells apart.                                                *)
(***************************************************************************)
EXTENDS Integers, Sequences, FiniteSets, SequencesExt, FiniteSetsExt

CONSTANTS
  TimeLen,      \* bytes of a time (8)
  CrcLen,       \* bytes of a checksum (4)
  Polynomial,   \* of the checksum, reflected: the set of its bits (0 is the lowest)
  GroupLen,     \* characters between two dashes (6)
  HashLength    \* of each supported hash algorithm, a byte: the bytes of its digest

Symbols == 0..31
Pad == 32     \* '='
Dash == 33    \* '-'
OddDigit == 34 \* '0', '1', '8', '9'
Other == 35   \* any other character
Characters == Symbols \cup {Pad, Dash, OddDigit, Other}

-----------------------------------------------------------------------------
(* Bits, the highest first.                                                *)

Bits(n, width) == [i \in 1..width |-> (n \div 2^(width - i)) % 2]
Number(bits) == FoldLeft(LAMBDA n, b : 2 * n + b, 0, bits)
BytesToBits(bytes) == FlattenSeq([i \in DOMAIN bytes |-> Bits(bytes[i], 8)])
Chunk(bits, i, width) == SubSeq(bits, (i - 1) * width + 1, i * width)

-----------------------------------------------------------------------------
(* KSI_crc32: a register, the set of its bits, through which the bits of   *)
(* each byte are fed lowest first; the table of the code is eight turns.   *)

Register == 0..(8 * CrcLen - 1)
CrcBit(c, bit) ==
  LET shifted == {i - 1 : i \in c \ {0}}
  IN IF (0 \in c) # (bit = 1) THEN SymDiff(shifted, Polynomial) ELSE shifted
Crc(bytes) ==
  LET fed == FlattenSeq([i \in DOMAIN bytes |-> Reverse(Bits(bytes[i], 8))])
      c == Register \ FoldLeft(CrcBit, Register, fed)
  IN [i \in 1..CrcLen |->
        Number([j \in 1..8 |-> IF (8 * CrcLen - 8 * (i - 1) - j) \in c THEN 1 ELSE 0])]

-----------------------------------------------------------------------------
(* KSI_base32Encode, KSI_base32Decode.                                     *)

\* The dash depends on the length of the text so far, dashes included.
Emit(text, char, more) ==
  LET t == Append(text, char)
  IN IF GroupLen > 0 /\ Len(t) % (GroupLen + 1) = GroupLen /\ more THEN Append(t, Dash) ELSE t

Encode(bytes) ==
  LET bits == BytesToBits(bytes)
      count == (Len(bits) + 4) \div 5
      padded == bits \o [i \in 1..4 |-> 0]
      total == ((count + 7) \div 8) * 8
      Symbol(i) == IF i <= count THEN Number(Chunk(padded, i, 5)) ELSE Pad
      More(i) == IF i <= count THEN 5 * i < Len(bits) ELSE i < total
  IN FoldLeft(LAMBDA t, i : Emit(t, Symbol(i), More(i)), << >>, [i \in 1..total |-> i])

\* Dashes are skipped, whatever stands after the first '=' is not looked at, the four
\* digits that are no symbol have -1 in a table of bytes, which counts as 31.
Decode(text) ==
  LET pad == SelectInSeq(text, LAMBDA c : c = Pad)
      read == IF pad = 0 THEN text ELSE SubSeq(text, 1, pad - 1)
      chars == SelectSeq(read, LAMBDA c : c # Dash)
      bits == FlattenSeq([i \in DOMAIN chars |-> Bits(IF chars[i] = OddDigit THEN 31 ELSE chars[i], 5)])
  IN IF Other \in ToSet(read) THEN [res |-> "INVALID_FORMAT", bytes |-> << >>]
     ELSE [res |-> "OK",
           bytes |-> [i \in 1..(Len(bits) \div 8) |-> Number(Chunk(bits, i, 8))]]

-----------------------------------------------------------------------------
(* KSI_PublicationData_toBase32, KSI_PublicationData_fromBase32.  An       *)
(* imprint is the byte of its algorithm and the digest.                    *)

Record(time, imprint) == [time |-> time, imprint |-> imprint]

ToBase32(r) ==
  LET body == [i \in 1..TimeLen |-> (r.time \div 256^(TimeLen - i)) % 256] \o r.imprint
  IN Encode(body \o Crc(body))

Read(res, record) == [res |-> res, record |-> record]

\* Variant: any checksum will do.
AnyCrc(bytes) == Len(bytes) >= TimeLen + 1 + CrcLen
CrcMatches(bytes) ==
  LET end == Len(bytes) - CrcLen
  IN end > TimeLen /\ Crc(SubSeq(bytes, 1, end)) = SubSeq(bytes, end + 1, Len(bytes))

\* Whether bytes are a publication: the algorithm is looked at after the checksum, the
\* length it calls for last.
Judged(bytes) ==
  CASE ~CrcMatches(bytes) -> "INVALID_FORMAT"
    [] CrcMatches(bytes) /\ bytes[TimeLen + 1] \notin DOMAIN HashLength -> "UNAVAILABLE_HASH_ALGORITHM"
    [] OTHER -> IF Len(bytes) = TimeLen + 1 + HashLength[bytes[TimeLen + 1]] + CrcLen
                  THEN "OK" ELSE "INVALID_FORMAT"

FromBase32(text) ==
  LET decoded == Decode(text)
      bytes == decoded.bytes
      res == IF decoded.res = "OK" THEN Judged(bytes) ELSE decoded.res
  IN IF res # "OK" THEN Read(res, << >>)
     ELSE Read(res, Record(Number(BytesToBits(SubSeq(bytes, 1, TimeLen))),
                           SubSeq(bytes, TimeLen + 1, Len(bytes) - CrcLen)))
=============================================================================
