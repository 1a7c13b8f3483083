----------------------------- MODULE MCHashChain -----------------------------
(***************************************************************************)
(* Small instance of HashChain: levels 0..3 in an int of 16 values, times  *)
(* of 5 bits, chains of at most MaxLinks links; keys shorter, as long as   *)
(* and longer than a block of 4, names of at most 2 characters.            *)
(***************************************************************************)
EXTENDS HashChain

CONSTANTS MaxLinks, MaxTimeLinks, MaxNames, MaxText, Key

\* Like SHA-256, SHA-512 and SM3.
MCDigestLen == [a \in Algorithms |-> IF a = 2 THEN BlockLen ELSE BlockLen \div 2]
MCInputBlock == [a \in Algorithms |-> IF a = 2 THEN 2 * BlockLen ELSE BlockLen]

Links(op) ==
  IF op = "aggregation"
  THEN [isLeft : BOOLEAN, correction : {0, 1, 2, 13}, content : {"imprint", "none"}, algo : {1}]
  ELSE IF op = "calendar"
  THEN [isLeft : BOOLEAN, correction : {0}, content : {"imprint", "metaHash"}, algo : {1, 2, 3}]
  ELSE [isLeft : BOOLEAN, correction : {0}, content : {"imprint"}, algo : {1}]

Chains(op, max) == UNION {[1 .. n -> Links(op)] : n \in 0 .. max}

\* Metahashes of 5 bytes: names of 0, 1 and 2 characters, lengths that are too short, too long and
\* above a byte, and, where no padding ends the name, what may lie behind it.
Meta(n, body, left) == [size |-> 5, meta |-> n, body |-> body, left |-> left]
Metas ==
  {Meta(n, <<NUL, NUL>>, << >>) : n \in {0, 2, 3}}
  \cup {Meta(n, <<"a", NUL>>, << >>) : n \in {0, 1, 2, ByteMax + 2}}
  \cup {Meta(2, <<"a", "b">>, left) : left \in {<< >>, <<"x", "x", "x", "x", "x">>}}

NameLinks ==
  [content : {"metaHash"}, value : Metas] \cup [content : {"metaData"}, value : {<< >>, <<"c">>}]
  \cup [content : {"imprint"}, value : {None}]
NameChains == UNION {[1 .. n -> NameLinks] : n \in 0 .. MaxNames}

Payloads(bytes, max) == UNION {[1 .. n -> bytes] : n \in 0 .. max}

MCJobs ==
  [op : {"aggregation"}, links : Chains("aggregation", MaxLinks), start : {0, 1},
   algo : {1, 3}, inputAlgo : {2}, pubTime : {0}]
  \cup
  [op : {"calendar"}, links : Chains("calendar", MaxLinks), start : {0},
   algo : {1}, inputAlgo : {1, 2}, pubTime : {0}]
  \cup
  [op : {"time"}, links : Chains("time", MaxTimeLinks), start : {0},
   algo : {1}, inputAlgo : {1}, pubTime : 0 .. 2 ^ TimeBits - 1]
  \cup
  [op : {"hmac"}, links : {<< >>}, start : {0}, algo : Algorithms, inputAlgo : {1}, pubTime : {0},
   key : {[i \in 1 .. n |-> [of |-> Key, nr |-> i]] : n \in 0 .. KeyMax + 1},
   data : {<< >>, <<"data">>}]
  \cup
  [op : {"identity"}, links : NameChains, start : {0}, algo : {1}, inputAlgo : {1}, pubTime : {0}]
  \cup
  [op : {"value"}, links : {<< >>}, start : {0}, algo : {1}, inputAlgo : {1}, pubTime : {0},
   kind : {"integer", "octets", "imprint"}, payload : Payloads(0 .. ByteMax, IntBytes + 1)]
  \cup
  [op : {"value"}, links : {<< >>}, start : {0}, algo : {1}, inputAlgo : {1}, pubTime : {0},
   kind : {"utf8", "utf8nz"}, payload : Payloads(ByteClasses, MaxText)]
=============================================================================
