--------------------------------- MODULE MCTlv ---------------------------------
(***************************************************************************)
(* Small instance of Tlv: bytes of 8 values, so one byte holds lengths up  *)
(* to 7, and a buffer of 64.  The blobs are a TLV with two nested ones, a  *)
(* TLV around one whose header is longer than it need be, and one that     *)
(* does not fill its bytes; the stream has a TLV with another flag and a   *)
(* type that needs two bytes.                                              *)
(***************************************************************************)
EXTENDS Tlv

HeadOf(type, tag, flags) == [type |-> type, tag |-> tag, flags |-> flags]
MCMade == {HeadOf("TLV", 0, 0), HeadOf("RAW", 3, 2), HeadOf("INT", 0, 1)}
MCRawValues == {[i \in 1..60 |-> 6]}
MCUintValues == {9}
Two == <<0, 6, 0, 1, 5, 0, 1, 6>>
Long == <<5, 3, 0, 3, 1, 1, 2>>
Wide == <<0, 4, 4, 0, 0, 0>>
MCBlobs == {Two, Wide, <<0, 2, 0>>}
MCShared == <<2, 3, 0, 1, 7>>
MCStreams == {Long \o <<0, 2, 0>>}

\* States that differ only in the last call, in bytes nobody points at, in slots behind
\* the end of a list or in what is left behind a trap have the same future.
Seen ==
  IF trap # "none" THEN <<trap>>
  ELSE <<[t \in Tlvs |-> [node[t] EXCEPT !.nested = <<Children(t), Len(@.arr)>>]],
         [t \in Tlvs |-> <<Len(mem[t]), Peek(mem, node[t].data)>>], held, used, stream>>
=============================================================================
