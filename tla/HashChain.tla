------------------------------ MODULE HashChain ------------------------------
(***************************************************************************)
(* The computations over hash chains (hashchain.c): the output hash of an  *)
(* aggregation chain, the root hash of a calendar chain and the            *)
(* aggregation time a calendar chain stands for.  Each takes one link at a *)
(* time, the hashes from the document upwards and the time from the root   *)
(* downwards.  Beside them the other computations of one call: an HMAC,    *)
(* the signer identity the links of a signature hold, and a value read     *)
(* from a payload and written again.                                       *)
(*                                                                         *)
(* C integers keep their width, scaled down by the constants.              *)
(***************************************************************************)
EXTENDS Values, FiniteSets

CONSTANTS
  Jobs,              \* the calls: operation and its arguments
  Letters,           \* of names
  IntRange,          \* number of values of int, 2^32
  TimeBits           \* width of time_t and of long long, 64

LevelMax == ByteMax

\* An int holds a level, a correction that fits a byte and one.
ASSUME WidthAssumption ==
  /\ IntRange \in Nat /\ IntRange % 2 = 0 /\ IntRange \div 2 > 2 * LevelMax + 1
  /\ TimeBits \in Nat /\ TimeBits > 1

\* The powers of two.
Pow2[k \in 0 .. TimeBits] == IF k = 0 THEN 1 ELSE 2 * Pow2[k - 1]

\* Conversions to int and to time_t.
ToInt(n) == ((n + IntRange \div 2) % IntRange) - (IntRange \div 2)
ToTime(n) == IF n >= Pow2[TimeBits - 1] THEN n - Pow2[TimeBits] ELSE n

\* highBit: the highest power of two in a positive number.
HighBit(n) == Pow2[CHOOSE k \in 0 .. TimeBits - 2 : Pow2[k] <= n /\ n < Pow2[k + 1]]

\* A call has the arguments of its operation; those of a chain are a list of links.
Operations == {"aggregation", "calendar", "time", "hmac", "identity", "value"}
LinkOfChain(l) ==
  /\ l.isLeft \in BOOLEAN /\ l.correction \in Nat /\ l.algo \in Algorithms
  /\ l.content \in {"none", "imprint", "metaHash", "metaData"}
Characters == Letters \cup ToSet(Separator) \cup {NUL}
Text == Seq(Characters)
LinkWithName(l) ==
  /\ l.content = "metaHash" =>
       l.value \in [size : Nat, meta : Nat, body : Text, left : Text]
  /\ l.content = "metaData" => l.value \in Text
ASSUME JobsAssumption ==
  \A j \in Jobs :
    /\ j.op \in Operations /\ j.links \in Seq(ToSet(j.links))
    /\ j.start \in 0 .. LevelMax /\ j.algo \in Algorithms /\ j.inputAlgo \in Algorithms
    /\ j.pubTime \in 0 .. Pow2[TimeBits] - 1
    /\ j.op \in {"aggregation", "calendar", "time"} =>
         \A i \in 1 .. Len(j.links) : LinkOfChain(j.links[i])
    /\ j.op = "hmac" => j.key \in Seq(ToSet(j.key)) /\ j.data \in Seq(ToSet(j.data))
    /\ j.op = "identity" => \A i \in 1 .. Len(j.links) : LinkWithName(j.links[i])
    /\ j.op = "value" => j.kind \in Kinds /\ j.payload \in Seq(ToSet(j.payload))
    /\ j.op = "value" /\ j.kind = "integer" => j.payload \in Seq(0 .. ByteMax)

\* A hasher between two links.
Closed == {Rested(a) : a \in Supported}
ASSUME NullAssumption == None \notin Jobs \cup Closed

-----------------------------------------------------------------------------
VARIABLES
  job,     \* the call under way
  done,    \* how many links have been looked at
  level,   \* the level of the last hash
  algo,    \* algo_id
  hsr,     \* the hasher, None before it is opened
  hsh,     \* the last hash, None before the first
  span,    \* r: the leaves under the current node of the calendar tree, less one
  time,    \* t: the first of these leaves
  output,  \* signerId, or the payload of the TLV that was written
  res      \* what the call returned, "running" while it has not

vars == <<job, done, level, algo, hsr, hsh, span, time, output, res>>

Running == res = "running"
Returned == res \notin {"idle", "running"}

Input == [algo |-> job.inputAlgo, val |-> 0]

\* Imprints are items a hasher is fed with as they are, like the level byte, which
\* does not see levels above a byte.
Sibling(links, i) == [algo |-> links[i].algo, val |-> i]

\* addNvlImprint, addChainImprint: the order of the two imprints.
Combine(link, hash, sibling, lvl) ==
  (IF link.isLeft THEN << hash, sibling >> ELSE << sibling, hash >>) \o << lvl % (LevelMax + 1) >>

Init ==
  /\ job = None /\ done = 0 /\ level = 0 /\ algo = None /\ hsr = None /\ hsh = None
  /\ span = 0 /\ time = 0 /\ output = None /\ res = "idle"

Return(code) ==
  /\ res' = code
  /\ UNCHANGED <<job, done, level, algo, hsr, hsh, span, time, output>>

-----------------------------------------------------------------------------
(* aggregateChain                                                          *)

Link == job.links[done + 1]

\* addNvlImprint: the last hash, or the input before the first.  The link that makes
\* the first hash makes the hasher.
Below == IF hsr = None THEN Input ELSE hsh

\* A level out of range is noted in the error list and otherwise ignored: the
\* correction is cut to an int.
NextLevel == IF job.op = "calendar" THEN level ELSE ToInt(level + ToInt(Link.correction) + 1)

NextAlgo == IF job.op = "calendar" /\ Link.isLeft THEN Link.algo ELSE algo

\* KSI_DataHasher_open, KSI_DataHasher_reset: only the first may fail.
Hasher == IF hsr = None THEN Open(NextAlgo) ELSE Reset(hsr)

\* Variant: the level is not looked at again.
LinkErrorAnyLevel ==
  IF job.op = "calendar" /\ Link.isLeft /\ Link.content # "imprint" THEN "INVALID_ARGUMENT"
  ELSE IF Hasher.algo \notin Supported THEN "UNAVAILABLE_HASH_ALGORITHM"
  ELSE IF Link.content = "none" THEN "INVALID_FORMAT"
  ELSE "OK"

LinkError ==
  IF job.op = "calendar" /\ Link.isLeft /\ Link.content # "imprint" THEN "INVALID_ARGUMENT"
  ELSE IF Hasher.algo \notin Supported THEN "UNAVAILABLE_HASH_ALGORITHM"
  ELSE IF Link.content = "none" \/ NextLevel > LevelMax THEN "INVALID_FORMAT"
  ELSE "OK"

AggregateLink ==
  /\ Running /\ job.op \in {"aggregation", "calendar"} /\ done < Len(job.links)
  /\ IF LinkError # "OK" THEN Return(LinkError)
     ELSE LET fed == Combine(Link, Below, Sibling(job.links, done + 1), NextLevel)
              closed == Close(Add(Hasher, fed))
          IN  /\ level' = NextLevel
              /\ algo' = NextAlgo
              /\ hsr' = closed.hasher
              /\ hsh' = closed.hash
              /\ done' = done + 1
              /\ UNCHANGED <<job, span, time, output, res>>

\* An empty chain gives no hash, and no error.
AggregateEnd ==
  /\ Running /\ job.op \in {"aggregation", "calendar"} /\ done = Len(job.links)
  /\ Return("OK")

-----------------------------------------------------------------------------
(* calculateCalendarAggregationTime                                        *)

\* Variant: the left subtree is as large as if it were not complete.
DescendTooWide(isLeft) ==
  IF isLeft THEN span' = HighBit(span) /\ UNCHANGED time
  ELSE time' = time + HighBit(span) /\ span' = span - HighBit(span)

\* The left subtree is complete, the right one takes the remaining leaves.
Descend(isLeft) ==
  IF isLeft THEN span' = HighBit(span) - 1 /\ UNCHANGED time
  ELSE time' = time + HighBit(span) /\ span' = span - HighBit(span)

\* Variant: a link without leaves is skipped, without counting it.
TimeLinkSkips ==
  /\ Running /\ job.op = "time" /\ done < Len(job.links)
  /\ IF span <= 0 THEN UNCHANGED <<done, span, time>>
     ELSE Descend(job.links[Len(job.links) - done].isLeft) /\ done' = done + 1
  /\ UNCHANGED <<job, level, algo, hsr, hsh, output, res>>

TimeLink ==
  /\ Running /\ job.op = "time" /\ done < Len(job.links)
  /\ IF span <= 0 THEN Return("INVALID_FORMAT")
     ELSE /\ Descend(job.links[Len(job.links) - done].isLeft)
          /\ done' = done + 1
          /\ UNCHANGED <<job, level, algo, hsr, hsh, output, res>>

TimeEnd ==
  /\ Running /\ job.op = "time" /\ done = Len(job.links)
  /\ Return(IF done = 0 \/ span # 0 THEN "INVALID_FORMAT" ELSE "OK")

-----------------------------------------------------------------------------
(* KSI_HMAC_create, KSI_Signature_getSignerIdentity, fromTlv and toTlv of  *)
(* a value: in one step, nothing is left to a later call.                  *)

Authenticate ==
  /\ Running /\ job.op = "hmac"
  /\ LET error == HmacError(job.algo, job.key, job.data)
     IN  res' = error /\ hsh' = IF error = "OK" THEN Hmac(job.algo, job.key, job.data) ELSE None
  /\ UNCHANGED <<job, done, level, algo, hsr, span, time, output>>

Identify ==
  /\ Running /\ job.op = "identity"
  /\ LET error == IdentityError(job.links)
     IN  res' = error /\ output' = IF error = "OK" THEN SignerIdentity(job.links) ELSE None
  /\ UNCHANGED <<job, done, level, algo, hsr, hsh, span, time>>

\* Error codes of reading come back as they are, those of writing marked.
Convert ==
  /\ Running /\ job.op = "value"
  /\ LET error == ReadError(job.kind, job.payload)
         value == Read(job.kind, job.payload)
     IN  IF error # "OK" THEN res' = error /\ output' = None
         ELSE IF WriteError(job.kind, value) # "OK" THEN res' = "NOT_WRITTEN" /\ output' = None
         ELSE res' = "OK" /\ output' = Written(job.kind, value)
  /\ UNCHANGED <<job, done, level, algo, hsr, hsh, span, time>>

-----------------------------------------------------------------------------
Call ==
  /\ res = "idle"
  /\ \E j \in Jobs :
       /\ job' = j /\ res' = "running"
       /\ level' = (IF j.op = "calendar" THEN LevelMax ELSE j.start)
       /\ algo' = (IF j.op = "calendar" THEN j.inputAlgo ELSE j.algo)
       /\ span' = ToTime(j.pubTime)
       /\ UNCHANGED <<done, hsr, hsh, time, output>>

\* The caller has the result.
Leave ==
  /\ Returned
  /\ job' = None /\ done' = 0 /\ level' = 0 /\ algo' = None /\ hsr' = None /\ hsh' = None
  /\ span' = 0 /\ time' = 0 /\ output' = None /\ res' = "idle"

Compute == AggregateLink \/ AggregateEnd \/ TimeLink \/ TimeEnd \/ Authenticate \/ Identify \/ Convert
Next == Call \/ Compute \/ Leave

Spec == Init /\ [][Next]_vars /\ WF_vars(Compute)

-----------------------------------------------------------------------------
(* What the computations should give.                                      *)

InRange(links) == \A i \in DOMAIN links : links[i].correction <= LevelMax

\* The level under every link of an aggregation chain.
Levels(j) ==
  LET n[i \in 0 .. Len(j.links)] == IF i = 0 THEN j.start ELSE n[i - 1] + j.links[i].correction + 1
  IN  n

LevelsOf(j) == IF j.op = "calendar" THEN [i \in 1 .. Len(j.links) |-> LevelMax] ELSE Levels(j)

\* The algorithm of a link of a calendar chain: that of the last left link so far,
\* of the input before the first.
AlgoAt(j, i) ==
  LET left == {k \in 1 .. i : j.links[k].isLeft}
  IN  IF left = {} THEN j.inputAlgo ELSE j.links[Max(left)].algo

AlgosOf(j) ==
  [i \in 1 .. Len(j.links) |-> IF j.op = "calendar" THEN AlgoAt(j, i) ELSE j.algo]
FirstAlgo(j) == [i \in 1 .. Len(j.links) |-> AlgoAt(j, 1)]

\* The hash of every link, above the input at 0.
Hashes(j, levels, algos) ==
  LET h[i \in 0 .. Len(j.links)] ==
        IF i = 0 THEN [algo |-> j.inputAlgo, val |-> 0]
        ELSE [algo |-> algos[i],
              fed |-> Combine(j.links[i], h[i - 1], Sibling(j.links, i), levels[i])]
  IN  h

HashOf(algos) == Hashes(job, LevelsOf(job), algos)[Len(job.links)]

\* The nodes of the calendar tree over the leaves 0 .. p: the aligned blocks
\* of 2^k leaves, the last of them cut at p.
Node(lo, k, p) == [lo |-> lo, hi |-> IF lo + Pow2[k] - 1 > p THEN p ELSE lo + Pow2[k] - 1]
Nodes(p) ==
  UNION {{Node(lo, k, p) : lo \in {n \in 0 .. p : n % Pow2[k] = 0}} : k \in 0 .. TimeBits}

\* Node m lies above node n, and of the nodes above n the one that all others lie above.
Above(m, n) == m # n /\ m.lo <= n.lo /\ n.hi <= m.hi
NextAbove(nodes, n) ==
  CHOOSE m \in nodes : Above(m, n) /\ \A o \in nodes : Above(o, n) => o = m \/ Above(o, m)

Root(p) == [lo |-> 0, hi |-> p]

\* The first steps from leaf t upwards, at most up to the root.
Climb(t, p, steps) ==
  LET nodes == Nodes(p)
      c[i \in 0 .. steps] ==
        IF i = 0 THEN [lo |-> t, hi |-> t]
        ELSE IF c[i - 1] = Root(p) THEN c[i - 1] ELSE NextAbove(nodes, c[i - 1])
  IN  c

\* The links are the steps from leaf t to the root and no more, a left link for each
\* step from a left child.
LeadsUp(links, t, p) ==
  LET way == Climb(t, p, Len(links))
  IN  /\ way[Len(links)] = Root(p)
      /\ \A i \in 1 .. Len(links) :
           way[i - 1] # Root(p) /\ (links[i].isLeft <=> way[i - 1].lo = way[i].lo)

\* The HMAC of RFC 2104, over the input block of the algorithm.
Rfc2104(a, key, data) ==
  LET Hash(bytes) == [algo |-> a, fed |-> bytes]
      k == IF Len(key) > InputBlock[a] THEN Bytes(Hash(key)) ELSE key
      Pad(p) == Padded(p, k, InputBlock[a])
  IN  Hash(Pad("opad") \o Bytes(Hash(Pad("ipad") \o data)))

\* A metahash as hash.h describes it, its length in a byte, and its name ended by padding.
Described(m) == m.meta + 3 <= m.size /\ \A i \in DOMAIN m.body : i > m.meta => m.body[i] = NUL
Ended(m) == m.meta <= ByteMax /\ \E i \in DOMAIN m.body : m.body[i] = NUL

\* The names put together, without the empty ones at the front.
Joined(names) ==
  LET named == {i \in 1 .. Len(names) : names[i] # << >>}
      from[i \in 1 .. Len(names) + 1] ==
        IF i > Len(names) THEN << >> ELSE Separator \o names[i] \o from[i + 1]
  IN  IF named = {} THEN << >> ELSE names[Min(named)] \o from[Min(named) + 1]

\* One way to write each integer; text that ends with the only zero, every lead byte
\* before just its continuations and no continuation without one.
WellFormed(kind, b) ==
  CASE kind = "integer" -> Len(b) <= IntBytes /\ (b # << >> => b[1] # 0)
    [] kind = "octets"  -> TRUE
    [] kind = "imprint" -> Len(b) > 1 /\ b[1] \in Algorithms /\ Len(b) = 1 + DigestLen[b[1]]
    [] OTHER ->
         /\ \A i \in DOMAIN b : b[i] # "other" /\ (b[i] = NUL <=> i = Len(b))
         /\ Len(b) > (IF kind = "utf8nz" THEN 1 ELSE 0)
         /\ \A i \in DOMAIN b : b[i] = "continuation" =>
              \E j \in 1 .. i - 1 : /\ i - j <= Continuations(b[j])
                                   /\ \A k \in j + 1 .. i : b[k] = "continuation"
         /\ \A i \in DOMAIN b : \A k \in i + 1 .. i + Continuations(b[i]) :
              k \in DOMAIN b /\ b[k] = "continuation"

-----------------------------------------------------------------------------
(* Properties.                                                             *)

Codes == {"OK", "INVALID_FORMAT", "INVALID_ARGUMENT", "UNAVAILABLE_HASH_ALGORITHM", "BUFFER_OVERFLOW"}

TypeOK ==
  /\ job \in Jobs \cup {None}
  /\ done # 0 => done \in 1 .. Len(job.links)
  /\ level \in -(IntRange \div 2) .. LevelMax
  /\ algo \in Algorithms \cup {None}
  /\ hsr \in Closed \cup {None}
  /\ hsr # None => hsh.algo = hsr.algo
  /\ output # None => job.op \in {"identity", "value"} /\ res = "OK"
  /\ time \in 0 .. Pow2[TimeBits - 1]
  /\ res \in {"idle", "running", "NOT_WRITTEN"} \cup Codes

\* aggregateChain for an aggregation chain: with corrections that fit a level
\* byte, the hash at every level binds the level, and the call succeeds just
\* when the chain is made of proper links and ends within the highest level.
AggregatesAsDefined ==
  Returned /\ job.op = "aggregation" /\ InRange(job.links) /\ job.links # << >> =>
    /\ res = "OK" => hsh = HashOf(AlgosOf(job)) /\ level = Levels(job)[Len(job.links)]
    /\ res = "OK" <=> /\ \A i \in DOMAIN job.links : job.links[i].content # "none"
                      /\ Levels(job)[Len(job.links)] <= LevelMax
                      /\ job.algo \in Supported

\* aggregateChain for a calendar chain: the root is the hash of the whole
\* chain at the highest level, under the algorithm of the first link.
CalendarRootAsDefined ==
  res = "OK" /\ job.op = "calendar" /\ job.links # << >> => hsh = HashOf(FirstAlgo(job))

\* KSI_HMAC_create: with an algorithm whose block is the one of the code, the
\* HMAC is that of RFC 2104, whatever the length of the key; a key that is there
\* and data that is there are never refused.
HmacAsDefined ==
  Returned /\ job.op = "hmac" =>
    /\ res = "OK" <=> /\ Len(job.key) \in 1 .. KeyMax /\ job.data # << >>
                      /\ job.algo \in Supported
    /\ res = "OK" /\ InputBlock[job.algo] = BlockLen => hsh = Rfc2104(job.algo, job.key, job.data)

\* KSI_HashChain_aggregate, KSI_HashChain_aggregateCalendar, KSI_HMAC_create: with one
\* hasher that is closed and used again, and C integers, each computes what it is
\* defined to be.
ComputesAsDefined == AggregatesAsDefined /\ CalendarRootAsDefined /\ HmacAsDefined

\* KSI_Signature_getSignerIdentity: from metahashes as they are described, their
\* names ended by padding, the identity is all names from the top down, put
\* together and not cut, and of other metahashes none gives an identity longer
\* than its buffer.
IdentityAsDefined ==
  Returned /\ job.op = "identity" =>
    LET metas == {job.links[i].value : i \in {j \in DOMAIN job.links : job.links[j].content = "metaHash"}}
        named == Named(job.links)
    IN  /\ (\A m \in metas : m.meta <= ByteMax) => (res = "OK" <=> \A m \in metas : Described(m))
        /\ res = "OK" => Len(output) < BufferSize(named)
        /\ res = "OK" /\ (\A m \in metas : Ended(m)) =>
             output = Joined([i \in DOMAIN named |-> Name(named[i])])

\* fromTlv and toTlv of the values: just the payloads of the right form are read, and
\* a value is written as the bytes it was read from, but for an octet string without
\* bytes, which is not written.
ValuesReadBack ==
  Returned /\ job.op = "value" =>
    /\ res \in {"OK", "NOT_WRITTEN"} <=> WellFormed(job.kind, job.payload)
    /\ res = "OK" => output = job.payload
    /\ res = "NOT_WRITTEN" => job.kind = "octets" /\ job.payload = << >>

\* What comes from outside, in links and payloads, is read as defined.
ReadsAsDefined == IdentityAsDefined /\ ValuesReadBack

\* calculateCalendarAggregationTime: the time is the position of the one leaf
\* whose way to the root is the chain, and only chains that no leaf has are
\* refused.
TimeIsPosition ==
  Returned /\ job.op = "time" /\ job.links # << >> =>
    IF res = "OK" THEN time \in 0 .. job.pubTime /\ LeadsUp(job.links, time, job.pubTime)
    ELSE job.pubTime >= Pow2[TimeBits - 1]
         \/ \A t \in 0 .. job.pubTime : ~LeadsUp(job.links, t, job.pubTime)

\* Every computation comes to an end.
Returns == Running ~> ~Running

\* "Update the hash algo id when we encounter a left link." (the comment in
\* aggregateChain): the hash of a link is computed under the algorithm of the
\* last left link.
AlgorithmFollowsLeftLinks ==
  res = "OK" /\ job.op = "calendar" /\ job.links # << >> => hsh = HashOf(AlgosOf(job))
=============================================================================
