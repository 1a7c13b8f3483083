-------------------------------- MODULE Forest --------------------------------
(***************************************************************************)
(* What the nested lists of TLVs promise (tlv.h, list.h): every expanded   *)
(* TLV has a sequence of nested ones, and each call changes the sequence   *)
(* of the TLV it is made on the way a sequence is changed.  A TLV that is  *)
(* freed, or encoded as raw bytes, loses its sequence.  Tlv implements     *)
(* this with arrays and counts.                                            *)
(***************************************************************************)
EXTENDS Integers, Sequences, SequencesExt

CONSTANT Tlvs

VARIABLES
  children,   \* of each TLV: its nested TLVs in order, << >> when it has none
  call        \* the last call: operation, TLV, position, argument

vars == <<children, call>>

Positions(p) == 1..Len(children[p])

Init == children = [t \in Tlvs |-> << >>] /\ call.op = "none"

\* What the call does to the TLV it is made on.
AppendOne(p, c) == children'[p] = Append(children[p], c)
Insert(p, pos, c) == children'[p] = InsertAt(children[p], pos, c)
Replace(p, pos, c) == children'[p] = [children[p] EXCEPT ![pos] = c]
RemoveOne(p, pos) == children'[p] = RemoveAt(children[p], pos)
\* The nested TLVs are new objects, nobody else's.
Expand(p) ==
  /\ children[p] = << >>
  /\ ToSet(children'[p]) \cap UNION {ToSet(children[q]) : q \in Tlvs} = {}
  /\ IsInjective(children'[p])
Collapse(p) == children'[p] = << >>
Sort(p) ==
  \E f \in [Positions(p) -> Positions(p)] :
    IsInjective(f) /\ children'[p] = [i \in Positions(p) |-> children[p][f[i]]]
Keep(p) == children'[p] = children[p]

\* Besides, TLVs that were freed have no nested ones any more.
Edit ==
  LET p == call'.at  pos == call'.pos  c == call'.arg
  IN /\ CASE call'.op = "append" -> AppendOne(p, c)
          [] call'.op = "insertAt" -> Insert(p, pos, c)
          [] call'.op = "replaceAt" -> Replace(p, pos, c)
          [] call'.op = "remove" -> RemoveOne(p, pos)
          [] call'.op = "sort" -> Sort(p)
          [] call'.op = "castTlv" -> Expand(p)
          [] call'.op \in {"castRaw", "free"} -> Collapse(p) \/ Keep(p)
          [] call'.op = "clone" -> Expand(p)
          [] OTHER -> UNCHANGED children
     /\ \A q \in Tlvs \ {p} : children'[q] \in {children[q], << >>}

\* Calls whose effect no document of the library promises.
Undocumented == call'.op = "trap"

Next == Undocumented \/ (call'.op # "trap" /\ Edit)

Spec == Init /\ [][Next]_vars
=============================================================================
