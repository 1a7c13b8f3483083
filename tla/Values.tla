-------------------------------- MODULE Values --------------------------------
(***************************************************************************)
(* The values a payload is read as and written from again (types_base.c,   *)
(* hash.c): integers, octet strings, strings and imprints.  A payload is a *)
(* sequence of bytes; those of strings are classes of bytes.               *)
(***************************************************************************)
EXTENDS Hashing

CONSTANT IntBytes    \* bytes of a KSI_uint64_t, 8

ASSUME IntBytesAssumption == IntBytes \in Nat

-----------------------------------------------------------------------------
(* KSI_Integer_fromTlv, KSI_Integer_toTlv                                  *)

Byte == ByteMax + 1
IntegerOf(payload) ==
  LET n[i \in 0 .. Len(payload)] == IF i = 0 THEN 0 ELSE n[i - 1] * Byte + payload[i]
  IN  n[Len(payload)]

\* How many numbers have so many bytes.
NumbersOf[k \in 0 .. IntBytes] == IF k = 0 THEN 1 ELSE Byte * NumbersOf[k - 1]

\* KSI_UINT64_MINSIZE: a zero has no bytes.
MinSize(n) == CHOOSE k \in 0 .. IntBytes : n < NumbersOf[k] /\ (k = 0 \/ NumbersOf[k - 1] <= n)

\* Variant: an integer may begin with zeros.
IntegerErrorZeros(payload) == IF Len(payload) > IntBytes THEN "INVALID_FORMAT" ELSE "OK"
IntegerError(payload) ==
  IF Len(payload) > IntBytes \/ Len(payload) # MinSize(IntegerOf(payload)) THEN "INVALID_FORMAT" ELSE "OK"

IntegerBytes(n) ==
  LET k == MinSize(n) IN [i \in 1 .. k |-> (n \div NumbersOf[k - i]) % Byte]

-----------------------------------------------------------------------------
(* KSI_Utf8String_new, verifyUtf8                                          *)

ByteClasses == {NUL, "ascii", "continuation", "lead2", "lead3", "lead4", "other"}
Continuations(c) == IF c = "lead2" THEN 1 ELSE IF c = "lead3" THEN 2 ELSE IF c = "lead4" THEN 3 ELSE 0

VerifyUtf8(b) ==
  LET from[i \in 1 .. Len(b) + 1] ==
        IF i > Len(b) THEN "OK"
        ELSE LET n == Continuations(b[i])
             IN  IF (b[i] = NUL /\ i # Len(b)) \/ b[i] \in {"continuation", "other"} THEN "INVALID_FORMAT"
                 ELSE IF i + n > Len(b) THEN "BUFFER_OVERFLOW"
                 ELSE IF \E j \in i + 1 .. i + n : b[j] # "continuation" THEN "INVALID_FORMAT"
                 ELSE from[i + n + 1]
  IN  from[1]

Utf8Error(payload) ==
  IF payload = << >> \/ payload[Len(payload)] # NUL THEN "INVALID_FORMAT" ELSE VerifyUtf8(payload)

\* KSI_Utf8StringNZ_fromTlv: the same, but not empty.
Utf8NzError(payload) ==
  IF Utf8Error(payload) # "OK" THEN Utf8Error(payload)
  ELSE IF payload = << NUL >> THEN "INVALID_FORMAT" ELSE "OK"

-----------------------------------------------------------------------------
(* KSI_DataHash_fromImprint: the first byte is the algorithm.  The length  *)
(* of a digest that is not there wraps round.                              *)

ImprintError(payload) ==
  IF Len(payload) = 1 THEN "INVALID_ARGUMENT"
  ELSE IF payload = << >> \/ payload[1] \notin Algorithms \/ DigestLen[payload[1]] # Len(payload) - 1
  THEN "INVALID_FORMAT" ELSE "OK"

-----------------------------------------------------------------------------
Kinds == {"integer", "octets", "utf8", "utf8nz", "imprint"}

ReadError(kind, payload) ==
  CASE kind = "integer" -> IntegerError(payload)
    [] kind = "octets"  -> "OK"
    [] kind = "utf8"    -> Utf8Error(payload)
    [] kind = "utf8nz"  -> Utf8NzError(payload)
    [] kind = "imprint" -> ImprintError(payload)

\* Reading keeps the bytes of everything but an integer.
Read(kind, payload) == IF kind = "integer" THEN IntegerOf(payload) ELSE payload

\* KSI_TLV_setRawValue takes no empty value.
WriteError(kind, value) == IF kind = "octets" /\ value = << >> THEN "INVALID_ARGUMENT" ELSE "OK"
Written(kind, value) == IF kind = "integer" THEN IntegerBytes(value) ELSE value
=============================================================================
