----------------------------- MODULE TlvTemplate -----------------------------
(***************************************************************************)
(* The template engine (tlv_template.c) that turns TLVs into objects and   *)
(* objects into TLVs.  A template is a sequence of slots; it is all that   *)
(* tells a signature, a PDU or a publications file from another.           *)
(*                                                                         *)
(* A TLV is read one element at a time and an object written one slot at a *)
(* time.  What is behind a slot (fromTlv and toTlv, or a template of its   *)
(* own) either works or, for the value Bad, fails.                         *)
(***************************************************************************)
EXTENDS Integers, Sequences, Functions, Selection

CONSTANTS
  Templates,    \* templates: sequences of slots
  Elements,     \* kinds of elements that are received: tag, whether critical, whether bad
  MaxElements,  \* bound on the elements of a received TLV
  MaxValues,    \* bound on the values a setter puts in a list
  Bad,          \* a value that is not what its slot takes
  Null          \* the NULL pointer

\* A slot reads and writes a field of the object.  Two slots may share a list:
\* the left and the right links of a hash chain, which keep their tags in it.
Flags == {"list", "mandatory", "least_one", "most_one", "more_defs", "no_serialize"}
Slot(tag, field, flags) == [tag |-> tag, field |-> field, flags |-> flags]
Is(slot, flag) == flag \in slot.flags

Fields(tmpl) == {tmpl[i].field : i \in DOMAIN tmpl}
Empty(tmpl) == [f \in Fields(tmpl) |-> Null]

\* What every template of the library is: no two slots have a tag, one slot writes
\* a field, and slots share a field only for a list without which the object may be.
WellShaped(t) ==
  /\ t # << >> /\ Len(t) \in Nat /\ DOMAIN t = 1 .. Len(t)
  /\ \A i \in DOMAIN t :
       /\ t[i].flags \subseteq Flags
       /\ Is(t[i], "most_one") => ~Is(t[i], "list")
       /\ \E j \in DOMAIN t : t[j].field = t[i].field /\ ~Is(t[j], "no_serialize")
  /\ \A i, j \in DOMAIN t : i # j =>
       /\ t[i].tag # t[j].tag
       /\ t[i].field = t[j].field =>
            /\ Is(t[i], "list") /\ ~Is(t[i], "mandatory") /\ ~Is(t[i], "most_one")
            /\ Is(t[i], "least_one") => Is(t[j], "least_one")
            /\ Is(t[i], "no_serialize") \/ Is(t[j], "no_serialize")

Tags == {e.tag : e \in Elements} \cup UNION {{t[i].tag : i \in DOMAIN t} : t \in Templates}
Values == [tag : Tags, val : Nat \cup {Bad}]

ASSUME TemplatesAssumption == \A t \in Templates : WellShaped(t)
ASSUME ElementsAssumption == \A e \in Elements : e.nonCritical \in BOOLEAN /\ e.bad \in BOOLEAN
ASSUME SizesAssumption == MaxElements \in Nat /\ MaxValues \in Nat
ASSUME NullAssumption == Null \notin Seq(Values)

-----------------------------------------------------------------------------
VARIABLES
  tmpl,    \* the template
  phase,   \* "idle", "receive", "set", "extract", "construct", "copy" or "returned"
  tlv,     \* the elements read or written
  obj,     \* the object: the sequence of values in each field, Null when it is not set
  pos,     \* how many elements, or slots, have been dealt with
  start,   \* tmplStart: the slots before it are not looked at any more
  hit,     \* templateHit, and from it groupHit
  one,     \* oneOf: an element of the exclusive group has been seen
  kept,    \* the object that was set or extracted first
  res

TVars == <<tmpl, phase, tlv, obj, pos, start, hit, one, kept, res>>

TInit ==
  /\ tmpl = << >> /\ phase = "idle" /\ tlv = << >> /\ obj = Null /\ pos = 0
  /\ start = 1 /\ hit = {} /\ one = FALSE /\ kept = Null /\ res = "OK"

Begin(p) == phase' = p /\ pos' = 0 /\ start' = 1 /\ hit' = {} /\ one' = FALSE

\* Every mandatory slot and, if there is one, the group has been hit.
Complete ==
  \A i \in DOMAIN tmpl :
    /\ Is(tmpl[i], "mandatory") => i \in hit
    /\ Is(tmpl[i], "least_one") => \E j \in hit : Is(tmpl[j], "least_one")

-----------------------------------------------------------------------------
(* extractGenerator                                                        *)

\* storeObjectValue: a list is made by its first element.
Store(o, slot, v) ==
  [o EXCEPT ![slot.field] = IF @ = Null THEN <<v>> ELSE Append(@, v)]

\* Variant: the value of a slot is not looked at before it is set.
ErrorWithoutOccupied(s, slot, e) ==
  (Is(slot, "most_one") /\ s.one) \/ e.val = Bad

\* One slot refuses an element: the exclusive group has its element, a value is
\* there that is not a list, or the element is not what the slot takes.
SlotError(s, slot, e) ==
  \/ Is(slot, "most_one") /\ s.one
  \/ ~Is(slot, "list") /\ s.obj[slot.field] # Null
  \/ e.val = Bad

\* An element is offered to the slots from tmplStart on: it goes to the first with
\* its tag, and the following ones for as long as there may be more definitions.
Offer(s, i, e) ==
  LET slot == tmpl[i]
  IN  IF i < start \/ s.over \/ slot.tag # e.tag THEN s
      ELSE IF SlotError(s, slot, e) THEN [s EXCEPT !.failed = TRUE, !.over = TRUE]
      ELSE [start |-> IF i = s.start /\ ~Is(slot, "list") THEN i + 1 ELSE s.start,
            hit |-> s.hit \cup {i},
            one |-> s.one \/ Is(slot, "most_one"),
            obj |-> Store(s.obj, slot, [tag |-> e.tag, val |-> e.val]),
            matched |-> TRUE, over |-> ~Is(slot, "more_defs"), failed |-> FALSE]

\* The loop over the slots: what it has done behind each of them.
Offering(e) ==
  LET s[i \in 0 .. Len(tmpl)] ==
        IF i = 0 THEN [start |-> start, hit |-> hit, one |-> one, obj |-> obj,
                       matched |-> FALSE, over |-> FALSE, failed |-> FALSE]
        ELSE Offer(s[i - 1], i, e)
  IN  s

Extracting == phase \in {"extract", "copy"}

Return(code) == phase' = "returned" /\ res' = code

ExtractElement ==
  /\ Extracting /\ pos < Len(tlv)
  /\ LET e == tlv[pos + 1]
         s == Offering(e)[Len(tmpl)]
     IN  IF s.failed \/ (~s.matched /\ ~e.nonCritical)
         THEN Return("INVALID_FORMAT") /\ UNCHANGED <<tmpl, tlv, obj, pos, start, hit, one, kept>>
         ELSE /\ start' = s.start /\ hit' = s.hit /\ one' = s.one /\ obj' = s.obj
              /\ pos' = pos + 1
              /\ UNCHANGED <<tmpl, phase, tlv, kept, res>>

\* Variant: an incomplete object is as good as a complete one.
ExtractEndUnchecked ==
  /\ Extracting /\ pos = Len(tlv)
  /\ IF phase = "copy" THEN Return("OK") /\ UNCHANGED <<tmpl, tlv, obj, pos, start, hit, one, kept>>
     ELSE Begin("construct") /\ kept' = obj /\ tlv' = << >> /\ UNCHANGED <<tmpl, obj, res>>

\* The end of the elements.  An object that was received is written again.
ExtractEnd ==
  /\ Extracting /\ pos = Len(tlv)
  /\ IF ~Complete
     THEN Return("INVALID_FORMAT") /\ UNCHANGED <<tmpl, tlv, obj, pos, start, hit, one, kept>>
     ELSE IF phase = "copy"
     THEN Return("OK") /\ UNCHANGED <<tmpl, tlv, obj, pos, start, hit, one, kept>>
     ELSE Begin("construct") /\ kept' = obj /\ tlv' = << >> /\ UNCHANGED <<tmpl, obj, res>>

-----------------------------------------------------------------------------
(* construct                                                               *)

\* Variant: every slot that has a value is written.
SkippedEmpty(slot) == obj[slot.field] = Null

Skipped(slot) == Is(slot, "no_serialize") \/ obj[slot.field] = Null

\* An element of the exclusive group is only noted in the error list when it
\* is not the first; the result of writing it takes its place.
ConstructSlot ==
  /\ phase = "construct" /\ pos < Len(tmpl)
  /\ LET i == pos + 1
         slot == tmpl[i]
         values == obj[slot.field]
     IN  IF Skipped(slot)
         THEN pos' = i /\ UNCHANGED <<tmpl, phase, tlv, obj, start, hit, one, kept, res>>
         ELSE IF \E k \in DOMAIN values : values[k].val = Bad
         THEN /\ Return("INVALID_FORMAT")
              /\ UNCHANGED <<tmpl, tlv, obj, pos, start, hit, one, kept>>
         ELSE /\ pos' = i
              /\ hit' = hit \cup {i}
              /\ one' = (one \/ Is(slot, "most_one"))
              /\ tlv' = tlv \o [k \in DOMAIN values |->
                          [tag |-> values[k].tag, val |-> values[k].val, nonCritical |-> FALSE]]
              /\ UNCHANGED <<tmpl, phase, obj, start, kept, res>>

\* All slots are written; KSI_TlvTemplate_deepCopy, or the receiver of what was
\* serialized, reads it back.
ConstructEnd ==
  /\ phase = "construct" /\ pos = Len(tmpl)
  /\ IF ~Complete
     THEN Return("INVALID_FORMAT") /\ UNCHANGED <<tmpl, tlv, obj, pos, start, hit, one, kept>>
     ELSE Begin("copy") /\ obj' = Empty(tmpl) /\ UNCHANGED <<tmpl, tlv, kept, res>>

-----------------------------------------------------------------------------
\* A TLV arrives, or an object is made.
Arrive ==
  /\ phase = "idle"
  /\ \E t \in Templates, p \in {"receive", "set"} :
       tmpl' = t /\ phase' = p /\ obj' = Empty(t)
  /\ UNCHANGED <<tlv, pos, start, hit, one, kept, res>>

\* An element of the TLV; its value is its place.
ReceiveElement ==
  /\ phase = "receive" /\ Len(tlv) < MaxElements
  /\ \E e \in Elements :
       tlv' = Append(tlv, [tag |-> e.tag, nonCritical |-> e.nonCritical,
                           val |-> IF e.bad THEN Bad ELSE Len(tlv) + 1])
  /\ UNCHANGED <<tmpl, phase, obj, pos, start, hit, one, kept, res>>

\* A setter, or an append to a list that was set.
Set ==
  /\ phase = "set"
  /\ \E i \in DOMAIN tmpl, v \in {1, Bad} :
       LET f == tmpl[i].field
           value == [tag |-> tmpl[i].tag, val |-> v]
       IN  IF Is(tmpl[i], "list")
           THEN \/ obj[f] = Null /\ obj' = [obj EXCEPT ![f] = << >>]
                \/ obj[f] # Null /\ Len(obj[f]) < MaxValues
                   /\ obj' = [obj EXCEPT ![f] = Append(@, value)]
           ELSE obj' = [obj EXCEPT ![f] = <<value>>]
  /\ UNCHANGED <<tmpl, phase, tlv, pos, start, hit, one, kept, res>>

\* KSI_TlvTemplate_parse, KSI_TlvTemplate_extract, KSI_TlvTemplate_extractGenerator
Extract ==
  /\ phase = "receive"
  /\ Begin("extract") /\ UNCHANGED <<tmpl, tlv, obj, kept, res>>

\* KSI_TlvTemplate_construct, KSI_TlvTemplate_serializeObject, KSI_TlvTemplate_deepCopy
Construct ==
  /\ phase = "set"
  /\ Begin("construct") /\ kept' = obj /\ UNCHANGED <<tmpl, tlv, obj, res>>

\* The caller drops the object and the TLV.
Leave ==
  /\ phase = "returned"
  /\ tmpl' = << >> /\ phase' = "idle" /\ tlv' = << >> /\ obj' = Null /\ pos' = 0
  /\ start' = 1 /\ hit' = {} /\ one' = FALSE /\ kept' = Null /\ res' = "OK"

TNext ==
  \/ Arrive \/ ReceiveElement \/ Set \/ Extract \/ Construct
  \/ ExtractElement \/ ExtractEnd \/ ConstructSlot \/ ConstructEnd
  \/ Leave

TSpec == TInit /\ [][TNext]_TVars

-----------------------------------------------------------------------------
(* What a template says of TLVs and objects.                               *)

TagsOf(f) == {tmpl[i].tag : i \in {j \in DOMAIN tmpl : tmpl[j].field = f}}
SlotsOf(f) == {tmpl[i] : i \in {j \in DOMAIN tmpl : tmpl[j].field = f}}

\* The elements of a TLV that belong to a field.
Belonging(elements, f) == Selected(elements, {e \in Range(elements) : e.tag \in TagsOf(f)})

Single(f) == \A s \in SlotsOf(f) : ~Is(s, "list")

\* Of these counts of values in the fields, the template accepts every one.
CountsFit(count) ==
  /\ \A f \in Fields(tmpl) :
       /\ Single(f) => count[f] <= 1
       /\ (\E s \in SlotsOf(f) : Is(s, "mandatory")) => count[f] >= 1
  /\ LET group(flag) == {f \in Fields(tmpl) : \E s \in SlotsOf(f) : Is(s, flag)}
     IN  /\ group("least_one") # {} => \E f \in group("least_one") : count[f] >= 1
         /\ \A f, g \in group("most_one") : count[f] >= 1 /\ count[g] >= 1 => f = g

WellFormed(elements) ==
  /\ CountsFit([f \in Fields(tmpl) |-> Len(Belonging(elements, f))])
  /\ \A k \in DOMAIN elements :
       IF \E f \in Fields(tmpl) : elements[k].tag \in TagsOf(f) THEN elements[k].val # Bad
       ELSE elements[k].nonCritical

\* What a setter leaves behind: a list may be empty, and then stands for none.
ValuesOf(o, f) == IF o[f] = Null THEN << >> ELSE o[f]
Proper(o) ==
  /\ CountsFit([f \in Fields(tmpl) |-> Len(ValuesOf(o, f))])
  /\ \A f \in Fields(tmpl) : \A k \in DOMAIN ValuesOf(o, f) : o[f][k].val # Bad

Same(o, p) == \A f \in Fields(tmpl) : ValuesOf(o, f) = ValuesOf(p, f)

-----------------------------------------------------------------------------
(* Properties.                                                             *)

TTypeOK ==
  /\ phase \in {"idle", "receive", "set", "extract", "construct", "copy", "returned"}
  /\ start \in 1 .. Len(tmpl) + 1
  /\ hit \subseteq DOMAIN tmpl
  /\ pos \in 0 .. Len(tlv) + Len(tmpl)
  /\ \A f \in Fields(tmpl) : Single(f) => Len(ValuesOf(obj, f)) <= 1

\* A well-formed TLV is taken as it is, in any order of its elements.
WellFormedTaken ==
  phase = "extract" /\ WellFormed(tlv) =>
    /\ phase' # "returned"
    /\ phase' = "construct" =>
         \A f \in Fields(tmpl) :
           LET mine == Belonging(tlv, f)
           IN  ValuesOf(obj', f) = [k \in DOMAIN mine |-> [tag |-> mine[k].tag,
                                                          val |-> mine[k].val]]

\* What is taken is well-formed but for non-critical elements, which may be
\* skipped: no critical element and nothing mandatory is ever missing from the
\* object, and no two elements exclude each other.
TakenSound ==
  phase = "extract" /\ phase' = "construct" =>
    /\ CountsFit([f \in Fields(tmpl) |-> Len(ValuesOf(obj', f))])
    /\ \A k \in DOMAIN tlv :
         tlv[k].nonCritical
         \/ \E f \in Fields(tmpl) :
              [tag |-> tlv[k].tag, val |-> tlv[k].val] \in Range(ValuesOf(obj', f))

\* extractGenerator: the scan, whose starting slot advances with the elements
\* it meets, takes all the TLVs the template describes and no others.
ReadAsShaped == [][WellFormedTaken /\ TakenSound]_TVars

\* An object that was extracted, or that was set in a way its template allows,
\* comes back the same from what construct writes; one that lacks something
\* mandatory, has two elements that exclude each other or cannot be encoded is
\* not sent, or not taken by the receiver: a copy is a copy, and the receiver
\* sees what the sender had or nothing.
CopiedAsShaped ==
  phase = "returned" /\ kept # Null =>
    /\ Proper(kept) => res = "OK" /\ Same(obj, kept)
    /\ res = "OK" => Proper(kept)
=============================================================================
