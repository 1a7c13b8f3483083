------------------------------ MODULE ErrorLog ------------------------------
(***************************************************************************)
(* What a context promises of its error trace (err.h, ksi.h): the newest   *)
(* Size errors since the last call that cleared them, newest first, how    *)
(* many there were, and the base error, which is the first of them as long *)
(* as none has been dropped and one of those kept after that.  Without an  *)
(* error the message of the base error is empty, its code anything: what   *)
(* an earlier trace left, or None for memory never written.  A call on one *)
(* context leaves the logs of the others alone.  Context implements it     *)
(* with a ring for each context.                                           *)
(***************************************************************************)
EXTENDS Integers, Sequences

CONSTANTS Contexts, Codes, Size, None

VARIABLE log    \* log[c]: the errors of context c

Emptied(stale) ==
  [newest |-> << >>, total |-> 0, base |-> [code |-> stale, message |-> None]]

Kept(l, code) ==
  SubSeq(<<code>> \o l.newest, 1, IF l.total < Size THEN l.total + 1 ELSE Size)

\* The base errors there may be after one more error.
Bases(l, code) ==
  IF l.total = 0 THEN {code}
  ELSE IF l.total < Size THEN {l.base.code}
  ELSE {Kept(l, code)[i] : i \in DOMAIN Kept(l, code)}

After(l, code, base) ==
  [newest |-> Kept(l, code), total |-> l.total + 1,
   base |-> [code |-> base, message |-> base]]

Init == log = [c \in Contexts |-> Emptied(None)]

Clear(c) == \E stale \in Codes \cup {None} : log' = [log EXCEPT ![c] = Emptied(stale)]

Push(c) ==
  \E code \in Codes : \E base \in Bases(log[c], code) :
    log' = [log EXCEPT ![c] = After(@, code, base)]

\* A call that has cleared the errors of earlier calls fails with one of its own.
Fail(c) == \E code \in Codes : log' = [log EXCEPT ![c] = After(Emptied(None), code, code)]

Next == \E c \in Contexts : Clear(c) \/ Push(c) \/ Fail(c)

Spec == Init /\ [][Next]_log
=============================================================================
