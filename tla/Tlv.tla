---------------------------------- MODULE Tlv ----------------------------------
(***************************************************************************)
(* The TLV objects of the library (tlv.c) with the memory they share.  A   *)
(* TLV that is parsed owns its bytes; one that is nested in it points into *)
(* them.  A TLV is a raw payload, or is expanded into a list (module List) *)
(* of nested TLVs, and can be cast from one to the other.                  *)
(*                                                                         *)
(* A byte has 8 * TypeSpan values: 32 * 8 in the code.  The first byte of  *)
(* a TLV holds a 16-bit flag, the lenient and the forward flag and a type. *)
(*                                                                         *)
(* `trap` names the calls after which the code leaves memory or nested     *)
(* lists broken (each at its place below); nothing happens after one.      *)
(***************************************************************************)
EXTENDS List, SequencesExt

CONSTANTS
  TypeSpan,     \* types that fit the first byte: KSI_TLV_MASK_TLV8_TYPE + 1
  MaxTlvs,      \* bound: TLV objects
  MaxCalls,     \* bound: calls that change something
  MaxHeld,      \* bound: references the client owns at a time
  Made,         \* [type, tag, flags] of TLVs that are made; flags: 2 lenient + 1 forward
  RawValues,    \* payloads that are set
  UintValues,   \* integers that are set
  Blobs,        \* byte sequences that are parsed with the memory handed over
  Shared,       \* byte sequence that is parsed in place
  Streams       \* what a reader may deliver

Byte == 8 * TypeSpan
BufferSize == Byte * Byte      \* KSI_BUFFER_SIZE
Tlvs == 1..MaxTlvs
Caller == 0                    \* memory that stays with the caller

ASSUME TlvAssumption ==
  /\ TypeSpan \in Nat \ {0} /\ MaxTlvs \in Nat /\ MaxCalls \in Nat /\ MaxHeld \in Nat /\ Null = Caller
  /\ \A h \in Made : h.tag \in 0..(TypeSpan * Byte - 1) /\ h.flags \in 0..3 /\ h.type \in {"RAW", "INT", "TLV"}

\* What comes from outside consists of bytes, and an integer fits two of them.
Bytes == 0..(Byte - 1)
ASSUME BytesAssumption ==
  /\ \A b \in Blobs \cup RawValues \cup Streams \cup {Shared} : b \in Seq(Bytes)
  /\ UintValues \subseteq 0..(Byte * Byte - 1)

VARIABLES
  node,     \* the objects; an object nobody refers to is Gone
  mem,      \* the buffer of each object, << >> when it has none or it was freed
  held,     \* references the client owns
  used,     \* objects made so far
  stream,   \* what the reader still has to deliver
  trap,     \* "none", or the trap that was stepped in
  call      \* the last call

vars == <<node, mem, held, used, stream, trap, call>>

-----------------------------------------------------------------------------
(* Headers.                                                                *)

\* Variant: a length that needs 16 bits only by one is written in 8.
HeaderOffByOne(tag, flags, len) ==
  IF len > Byte \/ tag > TypeSpan - 1
    THEN <<4 * TypeSpan + flags * TypeSpan + tag \div Byte, tag % Byte, (len \div Byte) % Byte, len % Byte>>
    ELSE <<flags * TypeSpan + tag, len % Byte>>
\* serializeTlv: the length is cut to 16 bits.
Header(tag, flags, len) ==
  IF len > Byte - 1 \/ tag > TypeSpan - 1
    THEN <<4 * TypeSpan + flags * TypeSpan + tag \div Byte, tag % Byte, (len \div Byte) % Byte, len % Byte>>
    ELSE <<flags * TypeSpan + tag, len>>

\* readHeader and readFirstTlv: the header at the beginning of b; `size` is 0 when
\* it is cut.
Cut == [size |-> 0, tag |-> 0, flags |-> 0, len |-> 0]
ReadHeader(b) ==
  IF Len(b) < 2 \/ (b[1] >= 4 * TypeSpan /\ Len(b) < 4) THEN Cut
  ELSE LET flags == (b[1] \div TypeSpan) % 4  low == b[1] % TypeSpan
       IN IF b[1] >= 4 * TypeSpan
            THEN [size |-> 4, tag |-> low * Byte + b[2], flags |-> flags, len |-> b[3] * Byte + b[4]]
            ELSE [size |-> 2, tag |-> low, flags |-> flags, len |-> b[2]]
\* The same with the value behind it, or Cut.
ReadFirst(b) ==
  LET h == ReadHeader(b) IN IF h.size + h.len > Len(b) THEN Cut ELSE h

\* encodeAsNestedTlvs: where the TLVs that fill b begin, or <<-1>> when they do not.
\* They are read one after the other, until one is cut or nothing is left.
Splitting(b) ==
  LET read[n \in 0..Len(b)] ==
        IF n = 0 THEN [starts |-> << >>, at |-> 0]
        ELSE LET r == read[n - 1]  h == ReadFirst(SubSeq(b, r.at + 1, Len(b)))
             IN IF r.at = Len(b) \/ h.size = 0 THEN r
                ELSE [starts |-> Append(r.starts, r.at), at |-> r.at + h.size + h.len]
  IN read
Split(b) == LET r == Splitting(b)[Len(b)] IN IF r.at = Len(b) THEN r.starts ELSE <<-1>>

-----------------------------------------------------------------------------
(* Objects and what they say.                                              *)

Nowhere == [in |-> Caller, at |-> 0, len |-> 0]
Gone == [refs |-> 0, tag |-> 0, flags |-> 0, type |-> "RAW", own |-> FALSE, data |-> Nowhere, nested |-> NewList]
Object(tag, flags, type, own, data) ==
  [refs |-> 1, tag |-> tag, flags |-> flags, type |-> type, own |-> own, data |-> data, nested |-> NewList]

Live(t) == node[t].refs > 0
Alive == {t \in Tlvs : Live(t)}
Owned == {t \in Tlvs : held[t] > 0}
Children(t) == Elements(node[t].nested)

\* The TLVs below one, itself included: the least set with it that has what is nested.
WithNested(S) == \A p \in S : ToSet(Children(p)) \subseteq S
Below(t) == {u \in Tlvs : \A S \in SUBSET Tlvs : t \in S /\ WithNested(S) => u \in S}

\* The bytes data points at; -1 for those behind the end of the memory.
Peek(m, d) ==
  IF d.at + d.len <= Len(m[d.in]) THEN SubSeq(m[d.in], d.at + 1, d.at + d.len)
  ELSE [i \in 1..d.len |-> IF d.at + i <= Len(m[d.in]) THEN m[d.in][d.at + i] ELSE -1]

\* serializePayload, serializeNested, serializeTlv: the payload of a TLV; the TLV with
\* its header.  They know no integers, and nothing longer than a buffer.
PayloadIn(ns, m) ==
  LET say[t \in Tlvs] ==
        IF ns[t].type # "TLV" THEN Peek(m, ns[t].data)
        ELSE FlattenSeq([i \in 1..Length(ns[t].nested) |->
               LET c == ElementAt(ns[t].nested, i)
               IN Header(ns[c].tag, ns[c].flags, Len(say[c])) \o say[c]])
  IN say
Payload == PayloadIn(node, mem)
Serialized(t) == LET v == Payload[t] IN Header(node[t].tag, node[t].flags, Len(v)) \o v
Encodable(t) == \A u \in Below(t) : node[u].type # "INT"
Serializes(t) == Encodable(t) /\ Len(Payload[t]) <= BufferSize

-----------------------------------------------------------------------------
(* Ownership.                                                              *)

Places(x, s) == {i \in DOMAIN s : s[i] = x}
Count(x, s) == Cardinality(Places(x, s))

\* How often u is nested in one of `from`.
References(ns, u, from) ==
  Cardinality(UNION {{p} \X Places(u, Elements(ns[p].nested)) : p \in from})

\* KSI_TLV_free on each TLV of the sequence ts, and what that frees in turn: the least
\* set of those that lose every reference they have.
Lost(ns, ts, u, dead) == Count(u, ts) + References(ns, u, dead)
Losing(ns, ts, dead) == {u \in Tlvs : ns[u].refs > 0 /\ ns[u].refs <= Lost(ns, ts, u, dead)}
Dying(ns, ts) ==
  LET enough == {S \in SUBSET Tlvs : Losing(ns, ts, S) \subseteq S}
  IN {u \in Tlvs : \A S \in enough : u \in S}
Freed(ns, ts) ==
  LET dead == Dying(ns, ts)
  IN [u \in Tlvs |-> IF u \in dead THEN Gone ELSE [ns[u] EXCEPT !.refs = @ - Lost(ns, ts, u, dead)]]
Unmapped(m, ns) == [u \in DOMAIN m |-> IF u # Caller /\ ns[u].refs = 0 THEN << >> ELSE m[u]]

\* Somebody else who is alive points into the memory of t.
Lent(ns, t) == \E u \in Tlvs \ {t} : ns[u].refs > 0 /\ ns[u].data.len > 0 /\ ns[u].data.in = t

\* The objects are ns from now on: the memory of those freed is freed.
\* Trap "outlived": a TLV goes while another one, taken out of it or referred to by
\* the client, still points into its memory.
Become(ns, m) ==
  /\ node' = ns /\ mem' = Unmapped(m, ns)
  /\ trap' = IF \E t \in Alive : ns[t].refs = 0 /\ Lent(ns, t) THEN "outlived" ELSE "none"

Called(op, at, pos, arg) ==
  call' = [op |-> IF trap' # "none" THEN "trap" ELSE op, at |-> at, pos |-> pos, arg |-> arg, nr |-> call.nr + 1]
\* A call that fails changes nothing.
Fails == UNCHANGED vars

-----------------------------------------------------------------------------
(* Making objects.                                                         *)

Fresh == used + 1
HandFree == SumFunctionOnSet(held, Tlvs) < MaxHeld

\* The object and its buffer (<< >> for none) belong to the client.
Make(op, object, buffer) ==
  /\ used < MaxTlvs /\ HandFree
  /\ used' = Fresh /\ held' = [held EXCEPT ![Fresh] = 1] /\ UNCHANGED stream
  /\ Become([node EXCEPT ![Fresh] = object], [mem EXCEPT ![Fresh] = buffer])
  /\ Called(op, Fresh, 0, 0)

\* A buffer of createOwnBuffer with v at its beginning; the rest is not initialised.
Padded(v) == v \o [i \in 1..(BufferSize - Len(v)) |-> -1]
\* KSI_UINT64_MINSIZE bytes, the highest first.
UintBytes(val) == CASE val = 0 -> << >> [] val \in 1..(Byte - 1) -> <<val>>
                    [] OTHER -> <<val \div Byte, val % Byte>>

New(h) == Make("make", Object(h.tag, h.flags, h.type, FALSE, Nowhere), << >>)
FromUint(h, val) ==
  Make("make", Object(h.tag, h.flags, "INT", TRUE, [in |-> Fresh, at |-> 0, len |-> Len(UintBytes(val))]),
       Padded(UintBytes(val)))

\* KSI_TLV_parseBlob2: one TLV that fills the bytes, whose payload stays where it is.
Parsed(b, owner) ==
  LET h == ReadFirst(b)
  IN Object(h.tag, h.flags, "RAW", owner # Caller, [in |-> owner, at |-> h.size, len |-> h.len])
Fills(b) == LET h == ReadFirst(b) IN h.size > 0 /\ h.size + h.len = Len(b)

ParseBlob(b) == Fills(b) /\ Make("make", Parsed(b, Fresh), b)
ParseShared == Fills(Shared) /\ Make("make", Parsed(Shared, Caller), << >>)
ParseFails(b) == ~Fills(b) /\ Fails

\* KSI_TLV_fromReader, KSI_TLV_readTlv: the next TLV of the stream, which is used up
\* by one that is cut.  At its end there is no TLV and no error.
FromReader ==
  /\ stream # << >> /\ used < MaxTlvs /\ HandFree
  /\ LET h == ReadFirst(stream)  n == h.size + h.len
     IN IF h.size = 0
          THEN stream' = << >> /\ UNCHANGED <<node, mem, held, used, trap, call>>
          ELSE /\ stream' = SubSeq(stream, n + 1, Len(stream))
               /\ used' = Fresh /\ held' = [held EXCEPT ![Fresh] = 1]
               /\ LET b == SubSeq(stream, 1, n)
                  IN Become([node EXCEPT ![Fresh] = Parsed(b, Fresh)], [mem EXCEPT ![Fresh] = b])
               /\ Called("make", Fresh, 0, 0)

-----------------------------------------------------------------------------
(* Values.                                                                 *)

Overwritten(buf, at, bytes) ==
  SubSeq(buf, 1, at) \o bytes \o SubSeq(buf, at + Len(bytes) + 1, Len(buf))

\* A buffer is made when there is none, otherwise the value goes to its beginning.
WithValue(t, v) ==
  [node EXCEPT ![t].own = TRUE, ![t].data = [in |-> t, at |-> 0, len |-> Len(v)]]
Buffer(t, v) == IF node[t].own THEN Overwritten(mem[t], 0, v) ELSE Padded(v)
\* Trap "tooLong": the length is changed before it is compared with the buffer.
SetRawValue(t, v) ==
  /\ v # << >>
  /\ IF node[t].type # "RAW" \/ Len(v) >= BufferSize THEN Fails
     ELSE /\ node' = WithValue(t, v) /\ mem' = [mem EXCEPT ![t] = Buffer(t, v)]
          /\ trap' = IF node[t].own /\ Len(mem[t]) < Len(v) THEN "tooLong"
                     ELSE IF node[t].own /\ Lent(node, t) THEN "overwritten" ELSE "none"
          /\ Called("value", t, 0, 0) /\ UNCHANGED <<held, used, stream>>

\* Neither the type nor the size of the buffer is looked at.
SetUintValue(t, val) ==
  /\ node' = WithValue(t, UintBytes(val)) /\ mem' = [mem EXCEPT ![t] = Buffer(t, UintBytes(val))]
  /\ trap' = IF node[t].own /\ Len(mem[t]) < Len(UintBytes(val)) THEN "tooLong"
             ELSE IF node[t].own /\ Lent(node, t) THEN "overwritten" ELSE "none"
  /\ Called("value", t, 0, 0) /\ UNCHANGED <<held, used, stream>>

-----------------------------------------------------------------------------
(* Casts.                                                                  *)

Appending(ids) ==
  LET l[i \in 0..Len(ids)] == IF i = 0 THEN NewList ELSE AppendElement(l[i - 1], ids[i])
  IN l
ListOf(ids) == Appending(ids)[Len(ids)]

\* encodeAsNestedTlvs: objects for what stands at the offsets `starts` of the payload.
Expanded(ns, m, t, first, starts) ==
  LET d == ns[t].data
      ids == [i \in 1..Len(starts) |-> first + i - 1]
      Child(i) ==
        LET h == ReadFirst(SubSeq(Peek(m, d), starts[i] + 1, d.len))
        IN Object(h.tag, h.flags, "RAW", FALSE, [in |-> d.in, at |-> d.at + starts[i] + h.size, len |-> h.len])
  IN [u \in Tlvs |-> CASE u = t -> [ns[t] EXCEPT !.type = "TLV", !.nested = ListOf(ids)]
                       [] u \in first..(first + Len(starts) - 1) -> Child(u - first + 1)
                       [] OTHER -> ns[u]]

CastTlv(t) ==
  /\ node[t].type # "TLV"
  /\ LET starts == Split(Peek(mem, node[t].data))
     IN IF node[t].type = "INT" \/ starts = <<-1>> THEN Fails
        ELSE /\ Len(starts) \in 0..(MaxTlvs - used)
             /\ used' = used + Len(starts)
             /\ Become(Expanded(node, mem, t, Fresh, starts), mem)
             /\ Called("castTlv", t, 0, 0) /\ UNCHANGED <<held, stream>>

\* encodeAsRaw: the pieces of the payload, headers and what nested TLVs point at, are
\* written from the end of the buffer, the last one first, then all is moved to its
\* beginning.  The buffer is the one the TLV owns, if it does, although nested TLVs may
\* point into it.
Literal(bytes) == [lit |-> bytes, data |-> Nowhere]
Pieces[t \in Tlvs] ==
  IF node[t].type # "TLV" THEN <<[lit |-> << >>, data |-> node[t].data]>>
  ELSE FlattenSeq([i \in 1..Length(node[t].nested) |->
         LET c == ElementAt(node[t].nested, i)
         IN <<Literal(Header(node[c].tag, node[c].flags, Len(Payload[c])))>> \o Pieces[c]])
PieceLen(p) == Len(p.lit) + p.data.len
WritePiece(t, p, w) ==
  LET at == w.at - PieceLen(p)
  IN [buf |-> Overwritten(w.buf, at, p.lit \o Peek([mem EXCEPT ![t] = w.buf], p.data)), at |-> at]
\* The buffer when none, one, two ... of the pieces are written, and how far they reach.
Writing(t) ==
  LET ps == Pieces[t]
      buf == IF node[t].own THEN mem[t] ELSE Padded(<< >>)
      after[n \in 0..Len(ps)] ==
        IF n = 0 THEN [buf |-> buf, at |-> Len(buf)]
        ELSE WritePiece(t, ps[Len(ps) - n + 1], after[n - 1])
  IN after
Written(t) == Writing(t)[Len(Pieces[t])]
\* Variant: the bytes stay at the end of the buffer.
RawBufferUnmoved(t) == Written(t).buf
RawBuffer(t) == LET w == Written(t) IN Overwritten(w.buf, 0, SubSeq(w.buf, w.at + 1, Len(w.buf)))

\* The pieces that lie in the buffer of t are written to where they are.
InPlace(t) ==
  LET ps == Pieces[t]
  IN \A n \in DOMAIN ps :
       LET d == ps[Len(ps) - n + 1].data
       IN d.in = t /\ d.len > 0 => d.at = Writing(t)[n].at

\* Trap "recast": a TLV that owns its buffer is encoded over bytes that are still to be
\* read; or it fails, which frees the buffer it keeps; or somebody else reads them later.
Recast(t) ==
  LET size == IF node[t].own THEN Len(mem[t]) ELSE BufferSize
      len == Len(Payload[t])
      fits == Encodable(t) /\ len <= size
      ns == Freed([node EXCEPT ![t] = [@ EXCEPT !.type = "RAW", !.own = TRUE, !.nested = NewList,
                                                !.data = [in |-> t, at |-> 0, len |-> len]]], Children(t))
  IN IF fits
       THEN /\ node' = ns /\ mem' = Unmapped([mem EXCEPT ![t] = RawBuffer(t)], ns)
            /\ trap' = IF node[t].own /\ (~InPlace(t) \/ Lent(ns, t)) THEN "recast"
                       ELSE IF \E u \in Alive : ns[u].refs = 0 /\ Lent(ns, u) THEN "outlived" ELSE "none"
            /\ Called("castRaw", t, 0, 0)
       ELSE IF node[t].own
         THEN /\ trap' = "recast" /\ mem' = [mem EXCEPT ![t] = << >>]
              /\ Called("castRaw", t, 0, 0) /\ UNCHANGED node
         ELSE UNCHANGED <<node, mem, trap, call>>
CastRaw(t) == node[t].type # "RAW" /\ Recast(t) /\ UNCHANGED <<held, used, stream>>

-----------------------------------------------------------------------------
(* Nested lists: the calls of tlv.h, and those of list.h that a client     *)
(* makes on the list KSI_TLV_getNestedList hands out.                      *)

\* The client gives c to the list of p.
Given(p, c) == p \notin Below(c) /\ held' = [held EXCEPT ![c] = @ - 1]
WithList(p, l) == [node EXCEPT ![p].nested = l]

AppendNestedTlv(p, c) ==
  IF node[p].type # "TLV" THEN Fails
  ELSE /\ Given(p, c)
       /\ Become(WithList(p, AppendElement(node[p].nested, c)), mem)
       /\ Called("append", p, 0, c) /\ UNCHANGED <<used, stream>>

\* The element that is replaced is freed.
ReplaceAt1(p, pos, c) ==
  /\ Given(p, c)
  /\ Become(Freed(WithList(p, ReplaceElementAt(node[p].nested, pos, c)), <<Replaced(node[p].nested, pos)>>), mem)
  /\ Called("replaceAt", p, pos, c) /\ UNCHANGED <<used, stream>>
ReplaceNestedTlv(p, old, c) ==
  LET pos == IndexOf(node[p].nested, old)
  IN IF node[p].type # "TLV" \/ pos = Null THEN Fails
     ELSE ReplaceAt1(p, pos, c)
\* Trap "behind": one position behind the last element something else is freed, and c
\* is put where nobody finds it.
ListReplaceAt(p, pos, c) ==
  /\ node[p].nested.len > 0 /\ ReplaceAllowed(node[p].nested, pos)
  /\ IF pos <= node[p].nested.len THEN ReplaceAt1(p, pos, c)
     ELSE /\ Given(p, c) /\ trap' = "behind"
          /\ Called("replaceAt", p, pos, c) /\ UNCHANGED <<node, mem, used, stream>>

\* Trap "insert": with two elements or more behind the new one all but the first of
\* them are lost.
ListInsertAt(p, pos, c) ==
  /\ node[p].nested.len > 0 /\ InsertAllowed(node[p].nested, pos) /\ Given(p, c)
  /\ node' = WithList(p, InsertElementAt(node[p].nested, pos, c))
  /\ trap' = IF node[p].nested.len > pos THEN "insert" ELSE "none"
  /\ Called("insertAt", p, pos, c) /\ UNCHANGED <<mem, used, stream>>

\* Without a pointer for it the element is freed, with one it is the client's.
ListRemove(p, pos, out) ==
  /\ RemoveAllowed(node[p].nested, pos)
  /\ LET l == node[p].nested
         c == ElementAt(l, pos)
         ns == WithList(p, RemoveElement(l, pos))
     IN IF out THEN HandFree /\ held' = [held EXCEPT ![c] = @ + 1] /\ Become(ns, mem)
        ELSE Become(Freed(ns, <<c>>), mem) /\ UNCHANGED held
  /\ Called("remove", p, pos, 0) /\ UNCHANGED <<used, stream>>
RemoveNestedTlv(p, c) ==
  LET pos == IndexOf(node[p].nested, c)
  IN IF pos = Null THEN Fails ELSE ListRemove(p, pos, FALSE)

\* By tag.
ListSort(p) ==
  /\ Length(node[p].nested) > 1
  /\ \E l \in Sorted(node[p].nested, [c \in Tlvs |-> node[c].tag]) : Become(WithList(p, l), mem)
  /\ Called("sort", p, 0, 0) /\ UNCHANGED <<held, used, stream>>

-----------------------------------------------------------------------------
(* References and copies.                                                  *)

Ref(t) ==
  /\ HandFree
  /\ held' = [held EXCEPT ![t] = @ + 1] /\ Become([node EXCEPT ![t].refs = @ + 1], mem)
  /\ Called("ref", t, 0, 0) /\ UNCHANGED <<used, stream>>
Free(t) ==
  /\ held[t] > 0
  /\ held' = [held EXCEPT ![t] = @ - 1] /\ Become(Freed(node, <<t>>), mem)
  /\ Called("free", t, 0, 0) /\ UNCHANGED <<used, stream>>

\* Variant: the copy does not own the bytes it was parsed from; they are freed.
CloneUnowned(t) ==
  /\ used' = Fresh /\ held' = [held EXCEPT ![Fresh] = 1] /\ UNCHANGED stream
  /\ Become([node EXCEPT ![Fresh] = [Parsed(Serialized(t), Fresh) EXCEPT !.own = FALSE]], mem)
  /\ Called("clone", Fresh, 0, t)
\* KSI_TLV_clone: serialized, parsed and, by expandNested, expanded by one level only:
\* after a cast expandNested never goes on to the nested ones.
Clone(t) ==
  LET b == Serialized(t)
      ns == [node EXCEPT ![Fresh] = Parsed(b, Fresh)]
      m == [mem EXCEPT ![Fresh] = b]
      starts == IF node[t].type = "TLV" THEN Split(Peek(m, ns[Fresh].data)) ELSE << >>
  IN /\ Len(starts) \in 0..(MaxTlvs - Fresh)
     /\ used' = used + 1 + Len(starts) /\ held' = [held EXCEPT ![Fresh] = 1]
     /\ Become(IF node[t].type = "TLV" THEN Expanded(ns, m, Fresh, Fresh + 1, starts) ELSE ns, m)
     /\ Called("clone", Fresh, 0, t) /\ UNCHANGED stream
CloneFails(t) == ~(Serializes(t) /\ Fills(Serialized(t))) /\ Fails
CloneTlv(t) ==
  IF Serializes(t) /\ Fills(Serialized(t)) THEN used < MaxTlvs /\ HandFree /\ Clone(t) ELSE CloneFails(t)

-----------------------------------------------------------------------------
Init ==
  /\ node = [t \in Tlvs |-> Gone] /\ held = [t \in Tlvs |-> 0] /\ used = 0
  /\ mem = [t \in Tlvs \cup {Caller} |-> IF t = Caller THEN Shared ELSE << >>]
  /\ stream \in Streams /\ trap = "none"
  /\ call = [op |-> "none", at |-> 0, pos |-> 0, arg |-> 0, nr |-> 0]

Create ==
  \/ \E h \in Made : h.type # "INT" /\ New(h)
  \/ \E h \in Made, val \in UintValues : h.type = "INT" /\ FromUint(h, val)
  \/ \E b \in Blobs : ParseBlob(b) \/ ParseFails(b)
  \/ ParseShared \/ FromReader

Change(t) ==
  \/ \E v \in RawValues : SetRawValue(t, v)
  \/ \E val \in UintValues : SetUintValue(t, val)
  \/ CastTlv(t) \/ CastRaw(t) \/ Ref(t) \/ Free(t) \/ CloneTlv(t) \/ ListSort(t)

Nest(p) ==
  \/ \E c \in Owned :
       \/ AppendNestedTlv(p, c)
       \/ \E old \in Alive : ReplaceNestedTlv(p, old, c)
       \/ \E pos \in 1..MaxTlvs : ListReplaceAt(p, pos, c) \/ ListInsertAt(p, pos, c)
  \/ \E c \in Alive : RemoveNestedTlv(p, c)
  \/ \E pos \in 1..MaxTlvs : ListRemove(p, pos, TRUE)

Next == trap = "none" /\ call.nr < MaxCalls /\ (Create \/ \E t \in Alive : Change(t) \/ Nest(t))

Spec == Init /\ [][Next]_vars

-----------------------------------------------------------------------------
(* Properties.                                                             *)

Untrapped == trap = "none"

\* Every variable has its type.
TypeOK ==
  /\ used \in 0..MaxTlvs /\ held \in [Tlvs -> Nat]
  /\ \A t \in Tlvs :
       /\ node[t].type \in {"RAW", "INT", "TLV"} /\ node[t].refs \in Nat
       /\ Live(t) => t <= used
       /\ node[t].nested.len \in 0..Len(node[t].nested.arr)
       /\ node[t].nested.len > 0 => node[t].type = "TLV"
  /\ trap \in {"none", "outlived", "tooLong", "overwritten", "recast", "behind", "insert"}

\* KSI_TLV_free and KSI_TLV_ref with the lists that own their elements (list.h): the
\* count of an object is the number of references there are, the client's and those of
\* nested lists.  Nothing is freed twice, freed early or lost.
RefsBalanced ==
  Untrapped => \A t \in Tlvs :
    node[t].refs = held[t] + References(node, t, Tlvs)

\* Short of the named traps an object never points into memory that was freed, is too
\* short or was not written, however objects are moved, cast, copied and freed.
MemoryAlive ==
  Untrapped => \A t \in Alive :
    /\ node[t].data.at + node[t].data.len <= Len(mem[node[t].data.in]) \/ node[t].data.len = 0
    /\ \A i \in 1..node[t].data.len : Peek(mem, node[t].data)[i] >= 0

\* "This function changes the internal representation of the TLV payload" (tlv.h, of
\* KSI_TLV_cast): a call changes what the TLV it is made on says, and so those around
\* it; a cast, and a call on anything else, changes nothing a TLV says, although
\* several share one buffer.  A cast of a payload with a header longer than serializeTlv
\* makes it is left out: it says the same with the shorter header.
Mutators == {"append", "insertAt", "replaceAt", "remove", "sort", "value"}
Shortest(b) ==
  LET starts == Split(b)
  IN starts # <<-1>> =>
       \A i \in DOMAIN starts :
         LET h == ReadFirst(SubSeq(b, starts[i] + 1, Len(b)))
         IN h.size = Len(Header(h.tag, h.flags, h.len))
Rewriting(op, t) == op \in Mutators \/ (op = "castTlv" /\ ~Shortest(Peek(mem, node[t].data)))
ValueKept ==
  [][trap' = "none" =>
       \A u \in Alive : node'[u].refs > 0 /\ ~(Rewriting(call'.op, call'.at) /\ call'.at \in Below(u))
                          => Serialized(u)' = Serialized(u)]_vars

\* What KSI_TLV_serialize writes is read back as the same TLV: tag, flags, payload and,
\* when it is nested, the same nested ones in the same order.  A payload of a full
\* KSI_BUFFER_SIZE is written with length 0 and is left out here.
ReadsBack ==
  Untrapped => \A t \in Alive : Serializes(t) /\ Len(Payload[t]) < BufferSize =>
    LET b == Serialized(t)
        h == ReadFirst(b)
        starts == Split(Payload[t])
    IN /\ Fills(b) /\ h.tag = node[t].tag /\ h.flags = node[t].flags
       /\ SubSeq(b, h.size + 1, Len(b)) = Payload[t]
       /\ node[t].type = "TLV" =>
            /\ Len(starts) = Length(node[t].nested)
            /\ \A i \in DOMAIN starts :
                 IsPrefix(Serialized(Children(t)[i]), SubSeq(Payload[t], starts[i] + 1, Len(Payload[t])))

\* "makes an identical copy" (tlv.h): a clone says what its original says, and shares
\* neither memory nor nested objects with anything else.
IsCopy(c, t) ==
  /\ Serialized(c) = Serialized(t) /\ node[c].type = node[t].type
  /\ \A u \in Below(c) : node[u].refs = 1 /\ (node[u].data.len > 0 => node[u].data.in = c)
Copied == call.op = "clone" => IsCopy(call.at, call.arg)
CloneIsCopy == [][trap' = "none" => Copied']_vars

\* The lists of nested TLVs, arrays that grow, shift and keep stale pointers, implement
\* the sequences that tlv.h and list.h promise.
Nested == INSTANCE Forest WITH children <- [t \in Tlvs |-> Children(t)]
NestedIsSequence == Nested!Spec
=============================================================================
