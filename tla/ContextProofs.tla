---------------------------- MODULE ContextProofs ----------------------------
(***************************************************************************)
(* Proofs about Context, for any number of contexts and any size of the    *)
(* ring: the ring implements ErrorLog, and a program that serialises the   *)
(* life of its contexts finds the libraries ready and the resources        *)
(* balanced.                                                               *)
(***************************************************************************)
EXTENDS Context, FiniteSetTheorems, TLAPS

-----------------------------------------------------------------------------
(* The ring.                                                               *)

LEMMA Remainder ==
  ASSUME NEW n \in Nat \ {0}, NEW a \in Nat
  PROVE  a % n \in 0 .. n - 1 /\ (a < n => a % n = a)
OBVIOUS

\* Positions less than a turn of the ring apart are different entries.
LEMMA RemaindersDiffer ==
  ASSUME NEW n \in Nat \ {0}, NEW a \in Nat, NEW b \in Nat, a < b, b < a + n
  PROVE  a % n # b % n
<1>1. a = n * (a \div n) + (a % n) /\ a \div n \in Int
  OBVIOUS
<1>2. b = n * (b \div n) + (b % n) /\ b \div n \in Int
  OBVIOUS
<1>3. a % n \in Int /\ b % n \in Int
  BY Remainder
<1>4. SUFFICES ASSUME a % n = b % n PROVE FALSE
  OBVIOUS
<1>5. PICK q \in Int : q = b \div n - a \div n
  <2>1. a \div n \in Int /\ b \div n \in Int
    OBVIOUS
  <2> QED
    BY <2>1
<1>6. b - a = n * q
  BY <1>1, <1>2, <1>3, <1>4, <1>5
<1>7. CASE q <= 0
  BY <1>6, <1>7
<1>8. CASE q >= 1
  <2>1. n * q >= n
    BY <1>8
  <2> QED
    BY <2>1, <1>6
<1> QED
  BY <1>5, <1>7, <1>8

\* A turn of the ring passes its first entry.
LEMMA FirstOfRing ==
  ASSUME NEW n \in Nat \ {0}, NEW a \in Nat
  PROVE  \E i \in 1 .. n : (a + 1 - i) % n = 0
<1>1. a = n * (a \div n) + (a % n) /\ a \div n \in Int /\ a % n \in 0 .. n - 1
  BY Remainder
<1> DEFINE q == a \div n
           i == (a % n) + 1
<1>2. i \in 1 .. n /\ a + 1 - i = n * q /\ q \in Int /\ a + 1 - i \in Nat
  BY <1>1
<1> HIDE DEF q, i
<1>3. PICK b \in Nat : b = a + 1 - i
  BY <1>2
<1>4. PICK d \in Int, r \in 0 .. n - 1 : b = n * d + r /\ r = b % n
  <2>1. b \div n \in Int
    OBVIOUS
  <2>2. b = n * (b \div n) + (b % n)
    OBVIOUS
  <2>3. b % n \in 0 .. n - 1
    BY Remainder
  <2> QED
    BY <2>1, <2>2, <2>3
<1>5. PICK k \in Int : k = q - d
  BY <1>2
<1>6. n * k = r
  BY <1>2, <1>3, <1>4, <1>5
<1>7. k = 0
  <2>1. \A m \in Int : n * m \in 0 .. n - 1 => m = 0
    OBVIOUS
  <2> QED
    BY <1>6, <2>1
<1>8. i \in 1 .. n
  BY <1>2
<1>9. b % n = 0
  <2>1. r = 0
    BY <1>6, <1>7
  <2> QED
    BY <2>1, <1>4
<1> QED
  BY <1>3, <1>8, <1>9

\* A log without errors; the code of its base error is that of some earlier one.
IsEmptied(l) == \E stale \in Codes \cup {None} : l = Log!Emptied(stale)

\* A log with one more error than another.
IsAfter(m, l, code) == \E base \in Log!Bases(l, code) : m = Log!After(l, code, base)

LEMMA NoErrorsIsEmptied ==
  ASSUME NEW x, x.count = 0, x.errors[0] \in Codes \cup {None}
  PROVE  LogOf(x) = Log!Emptied(x.errors[0]) /\ IsEmptied(LogOf(x))
<1>1. StatusDump(x) = << >>
  BY ContextAssumption DEF StatusDump
<1>2. BaseError(x) = [code |-> x.errors[0], message |-> None]
  BY DEF BaseError
<1>3. LogOf(x) = Log!Emptied(x.errors[0])
  BY <1>1, <1>2 DEF LogOf, Log!Emptied
<1> QED
  BY <1>3 DEF IsEmptied

LEMMA ClearedIsEmpty ==
  ASSUME NEW x \in Ctxs
  PROVE  Cleared(x) \in Ctxs /\ IsEmptied(LogOf(Cleared(x)))
<1>1. Cleared(x) \in Ctxs /\ Cleared(x).count = 0
  BY DEF Cleared, Ctxs
<1>2. Cleared(x).errors[0] \in Codes \cup {None}
  BY <1>1, ContextAssumption DEF Ctxs
<1> QED
  BY <1>1, <1>2, NoErrorsIsEmptied

\* The entry that is overwritten is none that has to stay.
LEMMA PushedIsAfter ==
  ASSUME NEW x \in Ctxs, NEW code \in Codes
  PROVE  Pushed(x, code) \in Ctxs /\ IsAfter(LogOf(Pushed(x, code)), LogOf(x), code)
<1> DEFINE y == Pushed(x, code)
           old == StatusDump(x)
           new == StatusDump(y)
           m == IF x.count < Size THEN x.count ELSE Size
           n == IF x.count + 1 < Size THEN x.count + 1 ELSE Size
<1>1. /\ Size \in Nat \ {0} /\ x.count \in Nat
      /\ x.errors \in [0 .. Size - 1 -> Codes \cup {None}]
      /\ x.count % Size \in 0 .. Size - 1
  BY ContextAssumption, Remainder DEF Ctxs
<1>2. /\ y \in Ctxs /\ y.count = x.count + 1
      /\ y.errors = [x.errors EXCEPT ![x.count % Size] = code]
  <2> DEFINE entries == [x.errors EXCEPT ![x.count % Size] = code]
             z == [x EXCEPT !.errors = entries]
             k == x.count + 1
  <2>1. entries \in [0 .. Size - 1 -> Codes \cup {None}] /\ k \in Nat
    BY <1>1
  <2>2. y = [z EXCEPT !.count = k]
    BY DEF Pushed
  <2> HIDE DEF entries, y, k
  <2>3. z \in Ctxs /\ z.errors = entries
    BY <2>1 DEF Ctxs
  <2> HIDE DEF z
  <2>4. y \in Ctxs /\ y.count = k /\ y.errors = z.errors
    BY <2>1, <2>2, <2>3 DEF Ctxs
  <2> QED
    BY <2>3, <2>4 DEF entries, k
<1>3. /\ old = [i \in 1 .. m |-> x.errors[(x.count - i) % Size]]
      /\ new = [i \in 1 .. n |-> y.errors[(x.count + 1 - i) % Size]]
  BY <1>1, <1>2 DEF StatusDump
<1>4. \A i \in 1 .. n : i > 1 =>
        /\ i - 1 \in 1 .. m
        /\ y.errors[(x.count + 1 - i) % Size] = x.errors[(x.count - (i - 1)) % Size]
  <2> SUFFICES ASSUME NEW i \in 1 .. n, i > 1
               PROVE  /\ i - 1 \in 1 .. m
                      /\ y.errors[(x.count + 1 - i) % Size] = x.errors[(x.count - (i - 1)) % Size]
    OBVIOUS
  <2>1. i - 1 \in 1 .. m
    BY <1>1
  <2>2. PICK k \in Nat : k = x.count + 1 - i /\ k = x.count - (i - 1)
    BY <1>1
  <2>3. k < x.count /\ x.count < k + Size
    BY <2>2, <1>1
  <2>4. k % Size # x.count % Size /\ k % Size \in 0 .. Size - 1
    BY <2>3, <1>1, RemaindersDiffer, Remainder
  <2>5. y.errors[k % Size] = x.errors[k % Size]
    BY <2>4, <1>1, <1>2
  <2> QED
    BY <2>1, <2>2, <2>5
<1>5. y.errors[x.count % Size] = code
  BY <1>1, <1>2
<1>6. old \in Seq(Codes \cup {None}) /\ Len(old) = m /\ m \in Nat
  <2>1. \A i \in 1 .. m : (x.count - i) % Size \in 0 .. Size - 1
    <3> SUFFICES ASSUME NEW i \in 1 .. m PROVE (x.count - i) % Size \in 0 .. Size - 1
      OBVIOUS
    <3>1. x.count - i \in Nat
      BY <1>1
    <3> QED
      BY <3>1, <1>1, Remainder
  <2>2. \A i \in 1 .. m : x.errors[(x.count - i) % Size] \in Codes \cup {None}
    BY <2>1, <1>1
  <2>3. m \in Nat
    BY <1>1
  <2> HIDE DEF m, old
  <2>4. old \in [1 .. m -> Codes \cup {None}]
    BY <2>2, <1>3
  <2> QED
    BY <2>3, <2>4
<1>7. new = SubSeq(<<code>> \o old, 1, IF x.count < Size THEN x.count + 1 ELSE Size)
  <2> DEFINE t == <<code>> \o old
             k == IF x.count < Size THEN x.count + 1 ELSE Size
  <2>1. k = n /\ n \in Nat /\ n >= 1 /\ n <= m + 1
    BY <1>1
  <2>2. Len(t) = m + 1 /\ \A i \in 1 .. m + 1 : t[i] = IF i = 1 THEN code ELSE old[i - 1]
    BY <1>6
  <2>3. SubSeq(t, 1, k) = [i \in 1 .. n |-> t[i]]
    BY <2>1, <2>2
  <2>4. \A i \in 1 .. n : y.errors[(x.count + 1 - i) % Size] = t[i]
    <3> SUFFICES ASSUME NEW i \in 1 .. n PROVE y.errors[(x.count + 1 - i) % Size] = t[i]
      OBVIOUS
    <3>1. CASE i = 1
      <4>1. x.count + 1 - i = x.count
        BY <3>1, <1>1
      <4> QED
        BY <4>1, <3>1, <1>5, <2>1, <2>2
    <3>2. CASE i > 1
      <4>1. i - 1 \in 1 .. m /\ y.errors[(x.count + 1 - i) % Size] = x.errors[(x.count - (i - 1)) % Size]
        BY <1>4, <3>2
      <4>2. old[i - 1] = x.errors[(x.count - (i - 1)) % Size]
        BY <4>1, <1>3
      <4>3. t[i] = old[i - 1]
        BY <2>1, <2>2, <3>2
      <4> QED
        BY <4>1, <4>2, <4>3
    <3>3. i = 1 \/ i > 1
      BY <2>1
    <3> QED
      BY <3>1, <3>2, <3>3
  <2> HIDE DEF y, old, new, m, n, t, k
  <2>5. new = [i \in 1 .. n |-> t[i]]
    BY <2>4, <1>3
  <2> QED
    BY <2>3, <2>5 DEF t, k
<1>8. BaseError(y) = [code |-> y.errors[0], message |-> y.errors[0]]
  BY <1>1, <1>2 DEF BaseError
<1>9. /\ x.count = 0 => y.errors[0] = code
      /\ x.count # 0 /\ x.count < Size => y.errors[0] = x.errors[0]
      /\ x.count >= Size => \E i \in DOMAIN new : y.errors[0] = new[i]
  <2>1. CASE x.count = 0
    BY <2>1, <1>1, <1>2, <1>5, Remainder
  <2>2. CASE x.count # 0 /\ x.count < Size
    <3>1. x.count % Size = x.count
      BY <2>2, <1>1, Remainder
    <3>2. y.errors[0] = x.errors[0]
      BY <3>1, <2>2, <1>1, <1>2
    <3> HIDE DEF y, new
    <3> QED
      BY <3>2, <2>2, <1>1
  <2>3. CASE x.count >= Size
    <3>1. PICK i \in 1 .. Size : (x.count + 1 - i) % Size = 0
      BY <1>1, FirstOfRing
    <3>2. n = Size
      BY <2>3, <1>1
    <3>3. i \in DOMAIN new /\ new[i] = y.errors[0]
      BY <3>1, <3>2, <1>3
    <3> QED
      BY <2>3, <3>3, <1>1
  <2> QED
    BY <2>1, <2>2, <2>3, <1>1
<1> DEFINE l == LogOf(x)
<1>10. /\ l.newest = old /\ l.total = x.count
       /\ l.base.code = x.errors[0]
  BY DEF LogOf, BaseError
<1> HIDE DEF y, old, new, l, m, n
<1>11. Log!Kept(l, code) = new
  BY <1>7, <1>10 DEF Log!Kept
<1>12. y.errors[0] \in Log!Bases(l, code)
  BY <1>1, <1>9, <1>10, <1>11 DEF Log!Bases
<1>13. LogOf(y) = Log!After(l, code, y.errors[0])
  BY <1>2, <1>8, <1>10, <1>11 DEF LogOf, Log!After, new
<1> QED
  BY <1>2, <1>12, <1>13 DEF y, l, IsAfter

-----------------------------------------------------------------------------
(* The inductive invariants.                                               *)

Both == <<"curl", "openssl">>

NewClientProvider == [kind |-> "uri", handles |-> 1]

\* KSI_CTX_new has the provider only once it is at the trust store.
AtTruststore(c) == op[c] = "new" /\ lib[c] = "openssl"

\* Where a call can be, and what its context is then.
Idling(c) ==
  op[c] = "none" =>
    /\ step[c] = "idle" /\ lib[c] = "curl"
    /\ IF ctx[c] = None THEN ~own[c] ELSE ctx[c].cleanupFns = Both

Creating(c) ==
  op[c] = "new" =>
    /\ step[c] \in {"easyInit", "register", "store", "init", "registered"}
    /\ ctx[c] # None /\ ~own[c]
    /\ lib[c] = "curl" =>
         /\ ctx[c].provider = None
         /\ ctx[c].cleanupFns = IF step[c] = "registered" THEN <<"curl">> ELSE << >>
    /\ lib[c] = "openssl" =>
         /\ step[c] # "easyInit"
         /\ ctx[c].provider = NewClientProvider
         /\ ctx[c].cleanupFns = IF step[c] = "registered" THEN Both ELSE <<"curl">>

Connecting(c) ==
  op[c] \in {"client", "setUri"} =>
    /\ step[c] \in {"easyInit", "register", "registered"} /\ lib[c] = "curl"
    /\ ctx[c] # None /\ ctx[c].cleanupFns = Both
    /\ IF op[c] = "client" THEN ~own[c] ELSE ctx[c].provider = NewClientProvider

Freeing(c) ==
  op[c] = "free" =>
    /\ step[c] \in {"cleanup", "release", "unload", "destroy"}
    /\ ctx[c] # None /\ ~own[c] /\ ctx[c].cleanupFns = Both
    /\ pos[c] \in 1 .. 3
    /\ step[c] \in {"release", "unload"} => pos[c] <= 2 /\ lib[c] = Both[pos[c]]
    /\ step[c] = "destroy" => pos[c] = 3

\* The provider is the context's own client until the caller sets another.
OwnProvider(c) ==
  ctx[c] # None /\ ~ctx[c].custom /\ ~(op[c] = "new" /\ lib[c] = "curl") =>
    ctx[c].provider # None /\ ctx[c].provider.kind = "uri"

CallsInOrder ==
  \A c \in Contexts :
    Idling(c) /\ Creating(c) /\ Connecting(c) /\ Freeing(c) /\ OwnProvider(c)

\* The handles of a context: its provider's, the caller's, and the one its call has
\* just made.
Providing == {c \in Contexts : ctx[c] # None /\ ctx[c].provider # None}
Doubled == {c \in Contexts : ctx[c] # None /\ HandlesOf(ctx[c].provider) = 2}
Owning == {c \in Contexts : own[c]}
Pending ==
  {c \in Contexts : step[c] \in {"register", "store", "init", "registered"} /\ ~AtTruststore(c)}

HandlesCounted ==
  handles = Cardinality(Providing) + Cardinality(Doubled)
            + Cardinality(Owning) + Cardinality(Pending)

ContextInv == TypeOK /\ CallsInOrder /\ HandlesCounted

-----------------------------------------------------------------------------
(* The same for a program that makes and frees its contexts one at a time. *)

OneAtATime ==
  \A c, d \in Contexts : op[c] \in {"new", "free"} /\ op[d] \in {"new", "free"} => c = d

\* The contexts a library counts.
CountedBy(c, l) ==
  /\ ctx[c] # None
  /\ op[c] = "new" =>
       IF lib[c] = l THEN step[c] \in {"init", "registered"} ELSE l = "curl"
  /\ op[c] = "free" =>
       \/ pos[c] = 1 /\ ~(l = "curl" /\ step[c] = "unload")
       \/ pos[c] = 2 /\ l = "openssl" /\ step[c] # "unload"

Counted(l) == {c \in Contexts : CountedBy(c, l)}

CountsAgree ==
  /\ \A l \in Libs : initCount[l] = Cardinality(Counted(l))
  /\ \A c \in Contexts :
       /\ step[c] \in {"store", "release"} => reg[c] = initCount[lib[c]]
       /\ step[c] = "init" => Counted(lib[c]) = {c}
       /\ step[c] = "unload" => Counted(lib[c]) = {}

\* The first one that counts is still at the initialisation, the last one still at the
\* clean-up.
Loading(l) == \E c \in Contexts : step[c] = "init" /\ lib[c] = l
Unloading(l) == \E c \in Contexts : step[c] = "unload" /\ lib[c] = l

Loaded(l) == (Counted(l) # {} /\ ~Loading(l)) \/ Unloading(l)

\* libcurl's own count starts with the first handle and never gets back to nothing.
LibrariesLoaded ==
  /\ digests <=> Loaded("openssl")
  /\ handles > 0 => libcurl > 0
  /\ IF Loaded("curl") THEN libcurl = 2 ELSE libcurl <= 1

SerialInv == OneAtATime /\ CountsAgree /\ LibrariesLoaded

-----------------------------------------------------------------------------
(* How a step changes the sets of contexts.                                *)

One(P) == IF P THEN 1 ELSE 0

LEMMA CardinalityOfChange ==
  ASSUME NEW S, NEW T, NEW c, IsFiniteSet(S), S \ {c} = T \ {c}
  PROVE  /\ IsFiniteSet(T) /\ Cardinality(S) \in Nat /\ Cardinality(T) \in Nat
         /\ Cardinality(T) = Cardinality(S) - One(c \in S) + One(c \in T)
<1>1. Cardinality(S) \in Nat
  BY FS_CardinalityType
<1>2. CASE (c \in S) = (c \in T)
  <2>1. S = T
    BY <1>2
  <2> QED
    BY <2>1, <1>1 DEF One
<1>3. CASE c \in S /\ c \notin T
  <2>1. T = S \ {c}
    BY <1>3
  <2>2. IsFiniteSet(T) /\ Cardinality(T) = Cardinality(S) - 1
    BY <2>1, <1>3, FS_RemoveElement
  <2>3. Cardinality(T) \in Nat
    BY <2>2, FS_CardinalityType
  <2> QED
    BY <2>2, <2>3, <1>1, <1>3 DEF One
<1>4. CASE c \notin S /\ c \in T
  <2>1. T = S \cup {c}
    BY <1>4
  <2>2. IsFiniteSet(T) /\ Cardinality(T) = Cardinality(S) + 1
    BY <2>1, <1>4, FS_AddElement
  <2> QED
    BY <2>2, <1>1, <1>4 DEF One
<1> QED
  BY <1>2, <1>3, <1>4

LocalInv(c) == Idling(c) /\ Creating(c) /\ Connecting(c) /\ Freeing(c) /\ OwnProvider(c)

\* The handles of context c.
Weight(c) ==
  One(c \in Providing) + One(c \in Doubled) + One(c \in Owning) + One(c \in Pending)

\* A step of context c leaves the calls of the others where they are.
Others(c) ==
  \A d \in Contexts \ {c} :
    /\ ctx'[d] = ctx[d] /\ own'[d] = own[d] /\ op'[d] = op[d]
    /\ step'[d] = step[d] /\ lib'[d] = lib[d] /\ pos'[d] = pos[d] /\ reg'[d] = reg[d]

\* What is to be shown of a step of context c.
LocalStep(c) ==
  /\ (handles' \in Nat => TypeOK') /\ Others(c) /\ LocalInv(c)'
  /\ handles' = handles + Weight(c)' - Weight(c)

LEMMA LocalStepKeepsContextInv ==
  ASSUME ContextInv, NEW c \in Contexts, LocalStep(c)
  PROVE  ContextInv'
<1>1. /\ Providing \ {c} = Providing' \ {c} /\ Doubled \ {c} = Doubled' \ {c}
      /\ Owning \ {c} = Owning' \ {c} /\ Pending \ {c} = Pending' \ {c}
  BY DEF LocalStep, Others, Providing, Doubled, Owning, Pending, AtTruststore, HandlesOf
<1>2. /\ IsFiniteSet(Providing) /\ IsFiniteSet(Doubled)
      /\ IsFiniteSet(Owning) /\ IsFiniteSet(Pending)
  BY ContextAssumption, FS_Subset DEF Providing, Doubled, Owning, Pending
<1>3. /\ Cardinality(Providing) \in Nat /\ Cardinality(Providing') \in Nat
      /\ Cardinality(Providing') = Cardinality(Providing) - One(c \in Providing) + One(c \in Providing')
  BY <1>1, <1>2, CardinalityOfChange
<1>4. /\ Cardinality(Doubled) \in Nat /\ Cardinality(Doubled') \in Nat
      /\ Cardinality(Doubled') = Cardinality(Doubled) - One(c \in Doubled) + One(c \in Doubled')
  BY <1>1, <1>2, CardinalityOfChange
<1>5. /\ Cardinality(Owning) \in Nat /\ Cardinality(Owning') \in Nat
      /\ Cardinality(Owning') = Cardinality(Owning) - One(c \in Owning) + One(c \in Owning')
  BY <1>1, <1>2, CardinalityOfChange
<1>6. /\ Cardinality(Pending) \in Nat /\ Cardinality(Pending') \in Nat
      /\ Cardinality(Pending') = Cardinality(Pending) - One(c \in Pending) + One(c \in Pending')
  BY <1>1, <1>2, CardinalityOfChange
<1>7. /\ One(c \in Providing) \in Nat /\ One(c \in Doubled) \in Nat
      /\ One(c \in Owning) \in Nat /\ One(c \in Pending) \in Nat
      /\ One(c \in Providing') \in Nat /\ One(c \in Doubled') \in Nat
      /\ One(c \in Owning') \in Nat /\ One(c \in Pending') \in Nat
  BY DEF One
<1>8. HandlesCounted' /\ handles' \in Nat
  <2>1. handles = Cardinality(Providing) + Cardinality(Doubled)
                  + Cardinality(Owning) + Cardinality(Pending)
    BY DEF ContextInv, HandlesCounted
  <2>2. handles' = handles
          + (One(c \in Providing') + One(c \in Doubled') + One(c \in Owning') + One(c \in Pending'))
          - (One(c \in Providing) + One(c \in Doubled) + One(c \in Owning) + One(c \in Pending))
    BY DEF LocalStep, Weight
  <2>3. handles' = Cardinality(Providing') + Cardinality(Doubled')
                   + Cardinality(Owning') + Cardinality(Pending')
    BY <2>1, <2>2, <1>3, <1>4, <1>5, <1>6, <1>7
  <2>4. handles' \in Nat
    BY <2>3, <1>3, <1>4, <1>5, <1>6
  <2> QED
    BY <2>3, <2>4 DEF HandlesCounted
<1>9. TypeOK'
  BY <1>8 DEF LocalStep
<1>10. CallsInOrder'
  <2> SUFFICES ASSUME NEW d \in Contexts PROVE LocalInv(d)'
    BY DEF CallsInOrder, LocalInv
  <2>1. CASE d = c
    BY <2>1 DEF LocalStep
  <2>2. CASE d # c
    <3>1. LocalInv(d)
      BY DEF ContextInv, CallsInOrder, LocalInv
    <3>2. /\ ctx'[d] = ctx[d] /\ own'[d] = own[d] /\ op'[d] = op[d]
          /\ step'[d] = step[d] /\ lib'[d] = lib[d] /\ pos'[d] = pos[d]
      BY <2>2 DEF LocalStep, Others
    <3> QED
      BY <3>1, <3>2 DEF LocalInv, Idling, Creating, Connecting, Freeing, OwnProvider
  <2> QED
    BY <2>1, <2>2
<1> QED
  BY <1>8, <1>9, <1>10 DEF ContextInv

-----------------------------------------------------------------------------
(* The steps.                                                              *)

SameButErrors(x, y) ==
  y.cleanupFns = x.cleanupFns /\ y.provider = x.provider /\ y.custom = x.custom

LEMMA PushKeepsRest ==
  ASSUME NEW x \in Ctxs, NEW code \in Codes
  PROVE  Pushed(x, code) \in Ctxs /\ SameButErrors(x, Pushed(x, code))
BY PushedIsAfter DEF Pushed, Ctxs, SameButErrors

LEMMA ClearKeepsRest ==
  ASSUME NEW x \in Ctxs
  PROVE  Cleared(x) \in Ctxs /\ SameButErrors(x, Cleared(x))
BY ClearedIsEmpty DEF Cleared, Ctxs, SameButErrors

LEMMA FailKeepsRest ==
  ASSUME NEW x \in Ctxs, NEW code \in Codes
  PROVE  Failed(x, code) \in Ctxs /\ SameButErrors(x, Failed(x, code))
BY PushKeepsRest, ClearKeepsRest DEF Failed, SameButErrors

LEMMA ProvidedIsContext ==
  ASSUME NEW x \in Ctxs, NEW client \in Clients \cup {None}, NEW custom \in BOOLEAN
  PROVE  /\ Provided(x, client, custom) \in Ctxs
         /\ Provided(x, client, custom).provider = client
         /\ Provided(x, client, custom).custom = custom
         /\ Provided(x, client, custom).cleanupFns = x.cleanupFns
BY DEF Provided, Ctxs

LEMMA ContextExists ==
  ASSUME TypeOK, NEW c \in Contexts, ctx[c] # None
  PROVE  ctx[c] \in Ctxs
BY DEF TypeOK

WeightAt(x, owns, o, s, l) ==
  One(x # None /\ x.provider # None) + One(x # None /\ HandlesOf(x.provider) = 2) + One(owns)
  + One(s \in {"register", "store", "init", "registered"} /\ ~(o = "new" /\ l = "openssl"))

LEMMA WeightOf ==
  ASSUME NEW c \in Contexts
  PROVE  /\ Weight(c) = WeightAt(ctx[c], own[c], op[c], step[c], lib[c])
         /\ Weight(c)' = WeightAt(ctx'[c], own'[c], op'[c], step'[c], lib'[c])
         /\ Weight(c) \in Nat /\ Weight(c)' \in Nat
BY DEF Weight, WeightAt, Providing, Doubled, Owning, Pending, AtTruststore, One

\* The state of context c and its call after the step, everything else of the calls is
\* as before.
Becomes(c, x, owns, o, s, l, p, r) ==
  /\ ctx' = [ctx EXCEPT ![c] = x] /\ own' = [own EXCEPT ![c] = owns]
  /\ op' = [op EXCEPT ![c] = o] /\ step' = [step EXCEPT ![c] = s]
  /\ lib' = [lib EXCEPT ![c] = l] /\ pos' = [pos EXCEPT ![c] = p]
  /\ reg' = [reg EXCEPT ![c] = r]

LibraryTypes == initCount \in [Libs -> Int] /\ libcurl \in Nat /\ digests \in BOOLEAN

Ops == {"none", "new", "client", "setUri", "free"}
StepNames == {"idle", "easyInit", "register", "store", "init", "registered",
              "cleanup", "release", "unload", "destroy"}

LEMMA Becoming ==
  ASSUME TypeOK, NEW c \in Contexts, NEW x \in Ctxs \cup {None}, NEW owns \in BOOLEAN, NEW o \in Ops,
         NEW s \in StepNames, NEW l \in Libs, NEW p \in Nat, NEW r \in Int,
         Becomes(c, x, owns, o, s, l, p, r),
         LibraryTypes'
  PROVE  /\ handles' \in Nat => TypeOK'
         /\ Others(c)
         /\ ctx'[c] = x /\ own'[c] = owns /\ op'[c] = o /\ step'[c] = s
         /\ lib'[c] = l /\ pos'[c] = p /\ reg'[c] = r
<1>1. handles' \in Nat => TypeOK'
  BY DEF Becomes, TypeOK, Ops, StepNames, LibraryTypes
<1>2. Others(c)
  BY DEF Becomes, TypeOK, Others
<1>3. /\ ctx'[c] = x /\ own'[c] = owns /\ op'[c] = o /\ step'[c] = s
      /\ lib'[c] = l /\ pos'[c] = p /\ reg'[c] = r
  BY DEF Becomes, TypeOK
<1> QED
  BY <1>1, <1>2, <1>3

LEMMA Names ==
  /\ "none" \in Ops /\ "new" \in Ops /\ "client" \in Ops /\ "setUri" \in Ops /\ "free" \in Ops
  /\ "idle" \in StepNames /\ "easyInit" \in StepNames /\ "register" \in StepNames
  /\ "store" \in StepNames /\ "init" \in StepNames /\ "registered" \in StepNames
  /\ "cleanup" \in StepNames /\ "release" \in StepNames /\ "unload" \in StepNames
  /\ "destroy" \in StepNames
  /\ "curl" \in Libs /\ "openssl" \in Libs
BY DEF Ops, StepNames, Libs

LEMMA BecomingNone ==
  ASSUME TypeOK, NEW c \in Contexts, NEW owns \in BOOLEAN, NEW o \in Ops,
         NEW s \in StepNames, NEW l \in Libs, NEW p \in Nat, NEW r \in Int,
         Becomes(c, None, owns, o, s, l, p, r),
         LibraryTypes'
  PROVE  /\ handles' \in Nat => TypeOK'
         /\ Others(c)
         /\ ctx'[c] = None /\ own'[c] = owns /\ op'[c] = o /\ step'[c] = s
         /\ lib'[c] = l /\ pos'[c] = p /\ reg'[c] = r
<1>1. None \in Ctxs \cup {None}
  OBVIOUS
<1> QED
  BY <1>1, Becoming

CallTypes(c) ==
  /\ ctx[c] \in Ctxs \cup {None} /\ own[c] \in BOOLEAN /\ op[c] \in Ops /\ step[c] \in StepNames
  /\ lib[c] \in Libs /\ pos[c] \in Nat /\ reg[c] \in Int

LEMMA InvAt ==
  ASSUME ContextInv, NEW c \in Contexts
  PROVE  /\ TypeOK /\ LocalInv(c) /\ CallTypes(c) /\ handles \in Nat
         /\ LibraryTypes /\ (UNCHANGED libraries => LibraryTypes')
<1>1. /\ TypeOK /\ LocalInv(c) /\ CallTypes(c) /\ handles \in Nat
  BY DEF ContextInv, CallsInOrder, LocalInv, TypeOK, Ops, StepNames, CallTypes
<1>2. LibraryTypes
  BY <1>1 DEF TypeOK, LibraryTypes
<1>3. UNCHANGED libraries => LibraryTypes'
  BY <1>2 DEF libraries, LibraryTypes
<1> QED
  BY <1>1, <1>2, <1>3

LEMMA NewContextStep ==
  ASSUME ContextInv, NEW c \in Contexts, NewContext(c)
  PROVE  LocalStep(c)
<1> DEFINE x == [errors |-> [i \in 0 .. Size - 1 |-> None], count |-> 0, cleanupFns |-> << >>,
                 provider |-> None, custom |-> FALSE]
<1>0. /\ TypeOK /\ LocalInv(c) /\ CallTypes(c) /\ handles \in Nat
      /\ LibraryTypes /\ (UNCHANGED libraries => LibraryTypes')
  BY InvAt
<1> USE <1>0
<1>1. x \in Ctxs /\ x.provider = None /\ x.cleanupFns = << >> /\ x # None
  <2> DEFINE ring == [i \in 0 .. Size - 1 |-> None]
  <2>1. ring \in [0 .. Size - 1 -> Codes \cup {None}] /\ << >> \in Seq(Libs)
    OBVIOUS
  <2> HIDE DEF ring
  <2>2. x \in Ctxs
    BY <2>1 DEF Ctxs
  <2> QED
    BY <2>2, NoneAssumption
<1> HIDE DEF x
<1>2. /\ Becomes(c, x, own[c], "new", "easyInit", lib[c], pos[c], reg[c])
      /\ handles' = handles /\ LibraryTypes'
  BY DEF NewContext, Call, Becomes, TypeOK, x
<1>3. /\ handles' \in Nat => TypeOK'
      /\ Others(c)
      /\ ctx'[c] = x /\ own'[c] = own[c] /\ op'[c] = "new" /\ step'[c] = "easyInit" /\ lib'[c] = lib[c]
  BY <1>1, <1>2, Becoming, Names DEF CallTypes
<1>4. ctx[c] = None /\ op[c] = "none" /\ step[c] = "idle"
  BY DEF NewContext, Idle, At
<1>5. LocalInv(c)'
  BY <1>1, <1>3, <1>4 DEF LocalInv, Idling, Creating, Connecting, Freeing, OwnProvider
<1>6. Weight(c)' = Weight(c)
  BY <1>1, <1>3, <1>4, WeightOf DEF LocalInv, Idling, One, HandlesOf, WeightAt
<1> QED
  BY <1>2, <1>3, <1>5, <1>6, WeightOf DEF LocalStep

LEMMA EasyInitStep ==
  ASSUME ContextInv, NEW c \in Contexts, EasyInit(c)
  PROVE  LocalStep(c)
<1>0. /\ TypeOK /\ LocalInv(c) /\ CallTypes(c) /\ handles \in Nat
      /\ LibraryTypes /\ (UNCHANGED libraries => LibraryTypes')
  BY InvAt
<1> USE <1>0
<1>1. /\ Becomes(c, ctx[c], own[c], op[c], "register", lib[c], pos[c], reg[c])
      /\ handles' = handles + 1 /\ LibraryTypes'
  <2>1. Becomes(c, ctx[c], own[c], op[c], "register", lib[c], pos[c], reg[c])
    BY DEF EasyInit, Goto, Becomes, TypeOK
  <2>2. handles' = handles + 1 /\ LibraryTypes'
    BY DEF EasyInit, LibraryTypes
  <2> QED
    BY <2>1, <2>2
<1>2. /\ step[c] = "easyInit" /\ op[c] \in {"new", "client", "setUri"} /\ lib[c] = "curl"
      /\ ctx[c] \in Ctxs
  BY DEF EasyInit, LocalInv, Idling, Creating, Connecting, Freeing, Ops, Libs, CallTypes
<1>3. /\ handles' \in Nat => TypeOK'
      /\ Others(c)
      /\ ctx'[c] = ctx[c] /\ own'[c] = own[c] /\ op'[c] = op[c] /\ step'[c] = "register" /\ lib'[c] = lib[c]
  BY <1>1, <1>2, Becoming, Names DEF CallTypes
<1>4. LocalInv(c)'
  BY <1>2, <1>3 DEF LocalInv, Idling, Creating, Connecting, Freeing, OwnProvider
<1>5. Weight(c)' = Weight(c) + 1
  BY <1>2, <1>3, WeightOf DEF One, HandlesOf, WeightAt
<1> QED
  BY <1>1, <1>3, <1>4, <1>5, WeightOf DEF LocalStep

LEMMA RangesOfCleanupFns ==
  /\ Range(<< >>) = {} /\ Range(<<"curl">>) = {"curl"} /\ Range(Both) = Libs
  /\ Append(<< >>, "curl") = <<"curl">> /\ Append(<<"curl">>, "openssl") = Both
<1>1. Range(<< >>) = {}
  BY DEF Range
<1>2. Range(<<"curl">>) = {"curl"}
  <2>1. DOMAIN <<"curl">> = {1} /\ <<"curl">>[1] = "curl"
    OBVIOUS
  <2> QED
    BY <2>1 DEF Range
<1>3. Range(Both) = Libs
  <2>1. DOMAIN Both = {1, 2} /\ Both[1] = "curl" /\ Both[2] = "openssl"
    BY DEF Both
  <2> QED
    BY <2>1 DEF Range, Libs
<1>4. Append(<< >>, "curl") = <<"curl">>
  OBVIOUS
<1>5. Append(<<"curl">>, "openssl") = Both
  <2> DEFINE s == Append(<<"curl">>, "openssl")
  <2>1. Len(s) = 2 /\ s \in Seq({"curl", "openssl"}) /\ s[1] = "curl" /\ s[2] = "openssl"
    OBVIOUS
  <2> HIDE DEF s
  <2>2. s = <<"curl", "openssl">>
    BY <2>1
  <2> QED
    BY <2>2 DEF s, Both
<1> QED
  BY <1>1, <1>2, <1>3, <1>4, <1>5

LEMMA RegisterGlobalsStep ==
  ASSUME ContextInv, NEW c \in Contexts, RegisterGlobals(c)
  PROVE  LocalStep(c)
<1>0. /\ TypeOK /\ LocalInv(c) /\ CallTypes(c) /\ handles \in Nat
      /\ LibraryTypes /\ (UNCHANGED libraries => LibraryTypes')
  BY InvAt
<1> USE <1>0
<1>1. step[c] = "register" /\ op[c] \in {"new", "client", "setUri"} /\ ctx[c] \in Ctxs
  BY DEF RegisterGlobals, LocalInv, Idling, Creating, Connecting, Freeing, Ops, CallTypes
<1>2. PICK s \in {"registered", "store"}, r \in Int :
        /\ Becomes(c, ctx[c], own[c], op[c], s, lib[c], pos[c], r)
        /\ s = "registered" <=> lib[c] \in Range(ctx[c].cleanupFns)
  BY DEF RegisterGlobals, Goto, Becomes, TypeOK
<1>3. handles' = handles /\ LibraryTypes'
  BY DEF RegisterGlobals
<1>4. /\ handles' \in Nat => TypeOK'
      /\ Others(c)
      /\ ctx'[c] = ctx[c] /\ own'[c] = own[c] /\ op'[c] = op[c] /\ step'[c] = s /\ lib'[c] = lib[c]
  BY <1>1, <1>2, <1>3, Becoming, Names DEF CallTypes
<1>5. s = "registered" <=> op[c] # "new"
  BY <1>1, <1>2, RangesOfCleanupFns DEF LocalInv, Creating, Connecting, Libs, CallTypes
<1>6. LocalInv(c)'
  BY <1>1, <1>4, <1>5 DEF LocalInv, Idling, Creating, Connecting, Freeing, OwnProvider
<1>7. Weight(c)' = Weight(c)
  BY <1>1, <1>4, WeightOf DEF One, HandlesOf, WeightAt
<1> QED
  BY <1>3, <1>4, <1>6, <1>7, WeightOf DEF LocalStep

\* The context once the library's cleanup function is in its list.
WithCleanup(x, l) == [x EXCEPT !.cleanupFns = Append(@, l)]

LEMMA WithCleanupIsContext ==
  ASSUME NEW x \in Ctxs, NEW l \in Libs
  PROVE  /\ WithCleanup(x, l) \in Ctxs /\ WithCleanup(x, l) # None
         /\ WithCleanup(x, l).cleanupFns = Append(x.cleanupFns, l)
         /\ WithCleanup(x, l).provider = x.provider /\ WithCleanup(x, l).custom = x.custom
<1>1. Append(x.cleanupFns, l) \in Seq(Libs)
  BY DEF Ctxs
<1>2. WithCleanup(x, l) = [x EXCEPT !.cleanupFns = Append(x.cleanupFns, l)]
  BY DEF WithCleanup, Ctxs
<1>3. WithCleanup(x, l) \in Ctxs
  <2> DEFINE fns == Append(x.cleanupFns, l)
  <2> HIDE DEF fns
  <2> QED
    BY <1>1, <1>2 DEF Ctxs, fns
<1>4. /\ WithCleanup(x, l).cleanupFns = Append(x.cleanupFns, l)
      /\ WithCleanup(x, l).provider = x.provider /\ WithCleanup(x, l).custom = x.custom
  BY <1>2 DEF Ctxs
<1> QED
  BY <1>3, <1>4, NoneAssumption

LEMMA CountUpStep ==
  ASSUME ContextInv, NEW c \in Contexts, CountUp(c)
  PROVE  LocalStep(c)
<1>0. /\ TypeOK /\ LocalInv(c) /\ CallTypes(c) /\ handles \in Nat
      /\ LibraryTypes /\ (UNCHANGED libraries => LibraryTypes')
  BY InvAt
<1> USE <1>0
<1>1. step[c] = "store" /\ op[c] = "new" /\ ctx[c] \in Ctxs
  BY DEF CountUp, LocalInv, Idling, Creating, Connecting, Freeing, Ops, CallTypes
<1>2. /\ handles' = handles /\ LibraryTypes'
  <2>1. CountRange \in Nat \ {0}
    BY ContextAssumption, FS_CardinalityType
  <2>2. (reg[c] + 1) % CountRange \in Int /\ reg[c] + 1 \in Int
    BY <2>1 DEF CallTypes
  <2> QED
    BY <2>2 DEF CountUp, LibraryTypes
<1>3. CASE reg[c] > 0
  <2> DEFINE x == WithCleanup(ctx[c], lib[c])
  <2>1. Becomes(c, x, own[c], op[c], "registered", lib[c], pos[c], 0)
    BY <1>3 DEF CountUp, Registered, Goto, Becomes, TypeOK, WithCleanup
  <2>2. /\ x \in Ctxs /\ x # None /\ x.cleanupFns = Append(ctx[c].cleanupFns, lib[c])
        /\ x.provider = ctx[c].provider /\ x.custom = ctx[c].custom
    BY <1>1, WithCleanupIsContext DEF CallTypes
  <2> HIDE DEF x
  <2>3. /\ handles' \in Nat => TypeOK'
        /\ Others(c)
        /\ ctx'[c] = x /\ own'[c] = own[c] /\ op'[c] = op[c] /\ step'[c] = "registered" /\ lib'[c] = lib[c]
    BY <1>2, <2>1, <2>2, Becoming, Names DEF CallTypes
  <2>4. LocalInv(c)'
    BY <1>1, <2>2, <2>3, RangesOfCleanupFns DEF LocalInv, Idling, Creating, Connecting, Freeing, OwnProvider, Libs
  <2>5. Weight(c)' = Weight(c)
    BY <1>1, <2>2, <2>3, WeightOf DEF LocalInv, Creating, One, HandlesOf, WeightAt
  <2> QED
    BY <1>2, <2>3, <2>4, <2>5, WeightOf DEF LocalStep
<1>4. CASE ~(reg[c] > 0)
  <2>1. Becomes(c, ctx[c], own[c], op[c], "init", lib[c], pos[c], 0)
    BY <1>4 DEF CountUp, Goto, Becomes, TypeOK
  <2>2. /\ handles' \in Nat => TypeOK'
        /\ Others(c)
        /\ ctx'[c] = ctx[c] /\ own'[c] = own[c] /\ op'[c] = op[c] /\ step'[c] = "init" /\ lib'[c] = lib[c]
    BY <1>1, <1>2, <2>1, Becoming, Names DEF CallTypes
  <2>3. LocalInv(c)'
    BY <1>1, <2>2 DEF LocalInv, Idling, Creating, Connecting, Freeing, OwnProvider
  <2>4. Weight(c)' = Weight(c)
    BY <1>1, <2>2, WeightOf DEF One, HandlesOf, WeightAt
  <2> QED
    BY <1>2, <2>2, <2>3, <2>4, WeightOf DEF LocalStep
<1> QED
  BY <1>3, <1>4

LEMMA GlobalInitStep ==
  ASSUME ContextInv, NEW c \in Contexts, GlobalInit(c)
  PROVE  LocalStep(c)
<1>0. /\ TypeOK /\ LocalInv(c) /\ CallTypes(c) /\ handles \in Nat
      /\ LibraryTypes /\ (UNCHANGED libraries => LibraryTypes')
  BY InvAt
<1> USE <1>0
<1> DEFINE x == WithCleanup(ctx[c], lib[c])
<1>1. step[c] = "init" /\ op[c] = "new" /\ ctx[c] \in Ctxs
  BY DEF GlobalInit, LocalInv, Idling, Creating, Connecting, Freeing, Ops, CallTypes
<1>2. /\ Becomes(c, x, own[c], op[c], "registered", lib[c], pos[c], reg[c])
      /\ handles' = handles /\ LibraryTypes'
  <2>1. LibraryTypes'
    <3>1. CASE lib[c] = "curl"
      BY <3>1 DEF GlobalInit, LibraryTypes
    <3>2. CASE lib[c] # "curl"
      BY <3>2 DEF GlobalInit, LibraryTypes
    <3> QED
      BY <3>1, <3>2
  <2>2. handles' = handles
    BY DEF GlobalInit
  <2>3. Becomes(c, x, own[c], op[c], "registered", lib[c], pos[c], reg[c])
    BY DEF GlobalInit, Registered, Goto, Becomes, TypeOK, WithCleanup
  <2> QED
    BY <2>1, <2>2, <2>3
<1>3. /\ x \in Ctxs /\ x # None /\ x.cleanupFns = Append(ctx[c].cleanupFns, lib[c])
      /\ x.provider = ctx[c].provider /\ x.custom = ctx[c].custom
  BY <1>1, WithCleanupIsContext DEF CallTypes
<1> HIDE DEF x
<1>4. /\ handles' \in Nat => TypeOK'
      /\ Others(c)
      /\ ctx'[c] = x /\ own'[c] = own[c] /\ op'[c] = op[c] /\ step'[c] = "registered" /\ lib'[c] = lib[c]
  BY <1>2, <1>3, Becoming, Names DEF CallTypes
<1>5. LocalInv(c)'
  BY <1>1, <1>3, <1>4, RangesOfCleanupFns DEF LocalInv, Idling, Creating, Connecting, Freeing, OwnProvider, Libs
<1>6. Weight(c)' = Weight(c)
  BY <1>1, <1>3, <1>4, WeightOf DEF LocalInv, Creating, One, HandlesOf, WeightAt
<1> QED
  BY <1>2, <1>4, <1>5, <1>6, WeightOf DEF LocalStep

LEMMA SetNetworkProviderStep ==
  ASSUME ContextInv, NEW c \in Contexts, SetNetworkProvider(c)
  PROVE  LocalStep(c)
<1>0. /\ TypeOK /\ LocalInv(c) /\ CallTypes(c) /\ handles \in Nat
      /\ LibraryTypes /\ (UNCHANGED libraries => LibraryTypes')
  BY InvAt
<1> USE <1>0
<1>1. step[c] = "idle" /\ op[c] = "none" /\ ctx[c] \in Ctxs /\ ctx[c] # None /\ lib[c] = "curl"
  BY DEF SetNetworkProvider, Usable, Idle, At, LocalInv, Idling, CallTypes
<1>2. PICK client \in Given(c) :
        /\ ctx' = [ctx EXCEPT ![c] = Provided(@, client, TRUE)]
        /\ own' = [own EXCEPT ![c] = @ /\ client = None]
  BY DEF SetNetworkProvider
<1>3. client \in Clients \cup {None} /\ (client # None => own[c] /\ client.handles = 1)
  BY DEF Given, Clients
<1> DEFINE x == Provided(ctx[c], client, TRUE)
           w == own[c] /\ client = None
<1>4. x \in Ctxs /\ x # None /\ x.provider = client /\ x.custom /\ x.cleanupFns = ctx[c].cleanupFns
  BY <1>1, <1>3, ProvidedIsContext, NoneAssumption
<1>5. /\ Becomes(c, x, w, op[c], step[c], lib[c], pos[c], reg[c])
      /\ handles' = handles - HandlesOf(ctx[c].provider) /\ LibraryTypes'
  BY <1>2 DEF SetNetworkProvider, thread, Becomes, TypeOK
<1>w. w \in BOOLEAN
  OBVIOUS
<1> HIDE DEF x, w
<1>6. /\ handles' \in Nat => TypeOK'
      /\ Others(c)
      /\ ctx'[c] = x /\ own'[c] = w /\ op'[c] = op[c] /\ step'[c] = step[c] /\ lib'[c] = lib[c]
  BY <1>1, <1>4, <1>5, <1>w, Becoming, Names DEF CallTypes
<1>7. LocalInv(c)'
  BY <1>1, <1>4, <1>6, <1>w DEF LocalInv, Idling, Creating, Connecting, Freeing, OwnProvider
<1>8. Weight(c)' = Weight(c) - HandlesOf(ctx[c].provider)
  <2>1. ctx[c].provider \in Clients \cup {None}
    BY <1>1 DEF Ctxs
  <2>2. HandlesOf(ctx[c].provider) = One(ctx[c].provider # None) + One(HandlesOf(ctx[c].provider) = 2)
    BY <2>1 DEF HandlesOf, Clients, One
  <2>3. HandlesOf(client) = One(client # None) /\ One(HandlesOf(client) = 2) = 0
    BY <1>3 DEF HandlesOf, One
  <2>4. One(own[c]) = One(client # None) + One(w)
    BY <1>3 DEF One, w
  <2>5. Weight(c) = One(ctx[c].provider # None) + One(HandlesOf(ctx[c].provider) = 2) + One(own[c])
    BY <1>1, WeightOf DEF WeightAt, One
  <2>6. Weight(c)' = One(client # None) + One(HandlesOf(client) = 2) + One(w)
    BY <1>1, <1>4, <1>6, WeightOf DEF WeightAt, One
  <2>7. /\ One(client # None) \in Nat /\ One(own[c]) \in Nat /\ One(w) \in Nat
        /\ One(ctx[c].provider # None) \in Nat /\ One(HandlesOf(ctx[c].provider) = 2) \in Nat
    BY DEF One
  <2> QED
    BY <2>2, <2>3, <2>4, <2>5, <2>6, <2>7
<1>9. HandlesOf(ctx[c].provider) \in Nat
  BY <1>1 DEF Ctxs, HandlesOf, Clients
<1> QED
  BY <1>5, <1>6, <1>7, <1>8, <1>9, WeightOf DEF LocalStep

LEMMA FirstProviderStep ==
  ASSUME ContextInv, NEW c \in Contexts, FirstProvider(c)
  PROVE  LocalStep(c)
<1>0. /\ TypeOK /\ LocalInv(c) /\ CallTypes(c) /\ handles \in Nat
      /\ LibraryTypes /\ (UNCHANGED libraries => LibraryTypes')
  BY InvAt
<1> USE <1>0
<1>1. step[c] = "registered" /\ op[c] = "new" /\ ctx[c] \in Ctxs /\ ctx[c] # None /\ lib[c] = "curl" /\ ~own[c]
      /\ ctx[c].provider = None /\ ctx[c].cleanupFns = <<"curl">>
  BY DEF FirstProvider, At, LocalInv, Creating, CallTypes
<1> DEFINE y == Provided(ctx[c], NewClientProvider, FALSE)
           x == Cleared(y)
<1>2. NewClientProvider \in Clients /\ NewClientProvider.kind = "uri" /\ HandlesOf(NewClientProvider) = 1
      /\ NewClientProvider # None
  BY NoneAssumption DEF NewClientProvider, Clients, HandlesOf
<1>3. x \in Ctxs /\ x # None /\ x.provider = NewClientProvider /\ ~x.custom /\ x.cleanupFns = <<"curl">>
  <2>1. /\ y \in Ctxs /\ y.provider = NewClientProvider /\ y.custom = FALSE
        /\ y.cleanupFns = ctx[c].cleanupFns
    BY <1>1, <1>2, ProvidedIsContext
  <2> HIDE DEF y
  <2> QED
    BY <1>1, <2>1, ClearKeepsRest, NoneAssumption DEF SameButErrors
<1>4. /\ Becomes(c, x, own[c], op[c], "register", "openssl", pos[c], reg[c])
      /\ handles' = handles /\ LibraryTypes'
  BY DEF FirstProvider, Goto, Becomes, TypeOK, NewClientProvider
<1> HIDE DEF x
<1>5. /\ handles' \in Nat => TypeOK'
      /\ Others(c)
      /\ ctx'[c] = x /\ own'[c] = own[c] /\ op'[c] = op[c] /\ step'[c] = "register" /\ lib'[c] = "openssl"
  BY <1>1, <1>3, <1>4, Becoming, Names DEF CallTypes
<1>6. LocalInv(c)'
  BY <1>1, <1>2, <1>3, <1>5 DEF LocalInv, Idling, Creating, Connecting, Freeing, OwnProvider
<1>7. Weight(c)' = Weight(c)
  BY <1>1, <1>2, <1>3, <1>5, WeightOf DEF One, HandlesOf, WeightAt
<1> QED
  BY <1>4, <1>5, <1>6, <1>7, WeightOf DEF LocalStep

LEMMA ClientMadeStep ==
  ASSUME ContextInv, NEW c \in Contexts, ClientMade(c)
  PROVE  LocalStep(c)
<1>0. /\ TypeOK /\ LocalInv(c) /\ CallTypes(c) /\ handles \in Nat
      /\ LibraryTypes /\ (UNCHANGED libraries => LibraryTypes')
  BY InvAt
<1> USE <1>0
<1>1. step[c] = "registered" /\ op[c] = "client" /\ ctx[c] \in Ctxs /\ ctx[c] # None /\ lib[c] = "curl" /\ ~own[c]
      /\ ctx[c].cleanupFns = Both
  BY DEF ClientMade, At, LocalInv, Connecting, CallTypes
<1> DEFINE w == TRUE
<1>2. /\ Becomes(c, ctx[c], w, "none", "idle", "curl", 0, reg[c])
      /\ handles' = handles /\ LibraryTypes'
  BY DEF ClientMade, Done, Becomes, TypeOK
<1>w. w \in BOOLEAN
  OBVIOUS
<1>v. w = TRUE
  OBVIOUS
<1> HIDE DEF w
<1>3. /\ handles' \in Nat => TypeOK'
      /\ Others(c)
      /\ ctx'[c] = ctx[c] /\ own'[c] = w /\ op'[c] = "none" /\ step'[c] = "idle" /\ lib'[c] = "curl"
  BY <1>1, <1>2, <1>w, Becoming, Names DEF CallTypes
<1>4. LocalInv(c)'
  BY <1>1, <1>3, <1>v DEF LocalInv, Idling, Creating, Connecting, Freeing, OwnProvider
<1>5. Weight(c)' = Weight(c)
  <2>1. One(own[c]) = 0 /\ One(own'[c]) = 1
    BY <1>1, <1>3, <1>v DEF One
  <2> QED
    BY <1>1, <1>3, <2>1, WeightOf DEF One, HandlesOf, WeightAt
<1> QED
  BY <1>2, <1>3, <1>4, <1>5, WeightOf DEF LocalStep

\* The context with a client for TCP in its provider.
WithTcpClient(x) == [x EXCEPT !.provider.handles = @ + 1]

LEMMA WithTcpClientIsContext ==
  ASSUME NEW x \in Ctxs, x.provider = NewClientProvider
  PROVE  /\ WithTcpClient(x) \in Ctxs /\ WithTcpClient(x) # None
         /\ WithTcpClient(x).provider = [kind |-> "uri", handles |-> 2]
         /\ WithTcpClient(x).cleanupFns = x.cleanupFns
<1> DEFINE client == [kind |-> "uri", handles |-> 2]
<1>1. WithTcpClient(x) = [x EXCEPT !.provider = client]
  <2>1. [NewClientProvider EXCEPT !.handles = @ + 1] = client
    BY DEF NewClientProvider
  <2>2. WithTcpClient(x) = [x EXCEPT !.provider = [x.provider EXCEPT !.handles = @ + 1]]
    BY DEF WithTcpClient, Ctxs
  <2> QED
    BY <2>1, <2>2
<1>2. client \in Clients
  BY DEF Clients
<1> HIDE DEF client
<1>3. /\ WithTcpClient(x) \in Ctxs /\ WithTcpClient(x).provider = client
      /\ WithTcpClient(x).cleanupFns = x.cleanupFns
  BY <1>1, <1>2 DEF Ctxs
<1> QED
  BY <1>3, NoneAssumption DEF client

LEMMA TcpClientMadeStep ==
  ASSUME ContextInv, NEW c \in Contexts, TcpClientMade(c)
  PROVE  LocalStep(c)
<1>0. /\ TypeOK /\ LocalInv(c) /\ CallTypes(c) /\ handles \in Nat
      /\ LibraryTypes /\ (UNCHANGED libraries => LibraryTypes')
  BY InvAt
<1> USE <1>0
<1>1. step[c] = "registered" /\ op[c] = "setUri" /\ ctx[c] \in Ctxs /\ ctx[c] # None /\ lib[c] = "curl"
      /\ ctx[c].cleanupFns = Both /\ ctx[c].provider = NewClientProvider
  BY DEF TcpClientMade, At, LocalInv, Connecting, CallTypes
<1> DEFINE client == [kind |-> "uri", handles |-> 2]
           x == WithTcpClient(ctx[c])
<1>2. client \in Clients /\ client.kind = "uri" /\ HandlesOf(client) = 2 /\ client # None
      /\ HandlesOf(NewClientProvider) = 1 /\ NewClientProvider # None
  BY NoneAssumption DEF Clients, HandlesOf, NewClientProvider
<1>3. x \in Ctxs /\ x # None /\ x.provider = client /\ x.cleanupFns = ctx[c].cleanupFns
  BY <1>1, WithTcpClientIsContext
<1>4. /\ Becomes(c, x, own[c], "none", "idle", "curl", 0, reg[c])
      /\ handles' = handles /\ LibraryTypes'
  BY DEF TcpClientMade, Done, Becomes, TypeOK, WithTcpClient
<1> HIDE DEF x, client
<1>5. /\ handles' \in Nat => TypeOK'
      /\ Others(c)
      /\ ctx'[c] = x /\ own'[c] = own[c] /\ op'[c] = "none" /\ step'[c] = "idle" /\ lib'[c] = "curl"
  BY <1>3, <1>4, Becoming, Names DEF CallTypes
<1>6. LocalInv(c)'
  BY <1>1, <1>2, <1>3, <1>5 DEF LocalInv, Idling, Creating, Connecting, Freeing, OwnProvider
<1>7. Weight(c)' = Weight(c)
  BY <1>1, <1>2, <1>3, <1>5, WeightOf DEF One, WeightAt
<1> QED
  BY <1>4, <1>5, <1>6, <1>7, WeightOf DEF LocalStep

LEMMA NewTruststoreStep ==
  ASSUME ContextInv, NEW c \in Contexts, NewTruststore(c)
  PROVE  LocalStep(c)
<1>0. /\ TypeOK /\ LocalInv(c) /\ CallTypes(c) /\ handles \in Nat
      /\ LibraryTypes /\ (UNCHANGED libraries => LibraryTypes')
  BY InvAt
<1> USE <1>0
<1>1. step[c] = "registered" /\ op[c] = "new" /\ lib[c] = "openssl" /\ ctx[c] \in Ctxs /\ ctx[c] # None
      /\ ~own[c] /\ ctx[c].cleanupFns = Both /\ ctx[c].provider = NewClientProvider
  BY DEF NewTruststore, At, LocalInv, Creating, CallTypes
<1>2. handles' = handles /\ LibraryTypes'
  BY DEF NewTruststore
<1>3. CASE Done(c) /\ UNCHANGED ctx
  <2>1. Becomes(c, ctx[c], own[c], "none", "idle", "curl", 0, reg[c])
    BY <1>3 DEF NewTruststore, Done, Becomes, TypeOK
  <2>2. /\ handles' \in Nat => TypeOK'
        /\ Others(c)
        /\ ctx'[c] = ctx[c] /\ own'[c] = own[c] /\ op'[c] = "none" /\ step'[c] = "idle" /\ lib'[c] = "curl"
    BY <1>1, <1>2, <2>1, Becoming, Names DEF CallTypes
  <2>3. LocalInv(c)'
    BY <1>1, <2>2 DEF LocalInv, Idling, Creating, Connecting, Freeing, OwnProvider
  <2>4. Weight(c)' = Weight(c)
    BY <1>1, <2>2, WeightOf DEF One, HandlesOf, WeightAt
  <2> QED
    BY <1>2, <2>2, <2>3, <2>4, WeightOf DEF LocalStep
<1>4. CASE ~(Done(c) /\ UNCHANGED ctx)
  <2> DEFINE x == Failed(ctx[c], "CRYPTO_FAILURE")
  <2>1. Becomes(c, x, own[c], "free", "cleanup", lib[c], 1, reg[c])
    BY <1>4 DEF NewTruststore, Goto, Becomes, TypeOK
  <2>2. x \in Ctxs /\ x # None /\ SameButErrors(ctx[c], x)
    BY <1>1, FailKeepsRest, ContextAssumption, NoneAssumption
  <2> HIDE DEF x
  <2>3. /\ handles' \in Nat => TypeOK'
        /\ Others(c)
        /\ ctx'[c] = x /\ own'[c] = own[c] /\ op'[c] = "free" /\ step'[c] = "cleanup" /\ lib'[c] = lib[c]
        /\ pos'[c] = 1
    BY <1>2, <2>1, <2>2, Becoming, Names DEF CallTypes
  <2>4. LocalInv(c)'
    BY <1>1, <2>2, <2>3 DEF LocalInv, Idling, Creating, Connecting, Freeing, OwnProvider, SameButErrors
  <2>5. Weight(c)' = Weight(c)
    BY <1>1, <2>2, <2>3, WeightOf DEF One, HandlesOf, WeightAt, SameButErrors
  <2> QED
    BY <1>2, <2>3, <2>4, <2>5, WeightOf DEF LocalStep
<1> QED
  BY <1>3, <1>4

LEMMA FreeContextStep ==
  ASSUME ContextInv, NEW c \in Contexts, FreeContext(c)
  PROVE  LocalStep(c)
<1>0. /\ TypeOK /\ LocalInv(c) /\ CallTypes(c) /\ handles \in Nat
      /\ LibraryTypes /\ (UNCHANGED libraries => LibraryTypes')
  BY InvAt
<1> USE <1>0
<1>1. step[c] = "idle" /\ op[c] = "none" /\ ctx[c] \in Ctxs /\ ctx[c] # None /\ lib[c] = "curl" /\ ~own[c]
      /\ ctx[c].cleanupFns = Both
  BY DEF FreeContext, Usable, Idle, At, LocalInv, Idling, CallTypes
<1>2. /\ Becomes(c, ctx[c], own[c], "free", "cleanup", lib[c], 1, reg[c])
      /\ handles' = handles /\ LibraryTypes'
  BY DEF FreeContext, Goto, Becomes, TypeOK
<1>3. /\ handles' \in Nat => TypeOK'
      /\ Others(c)
      /\ ctx'[c] = ctx[c] /\ own'[c] = own[c] /\ op'[c] = "free" /\ step'[c] = "cleanup" /\ lib'[c] = lib[c]
      /\ pos'[c] = 1
  BY <1>1, <1>2, Becoming, Names DEF CallTypes
<1>4. LocalInv(c)'
  BY <1>1, <1>3 DEF LocalInv, Idling, Creating, Connecting, Freeing, OwnProvider
<1>5. Weight(c)' = Weight(c)
  BY <1>1, <1>3, WeightOf DEF One, HandlesOf, WeightAt
<1> QED
  BY <1>2, <1>3, <1>4, <1>5, WeightOf DEF LocalStep

LEMMA BothCleanups ==
  /\ DOMAIN Both = {1, 2} /\ Both[1] = "curl" /\ Both[2] = "openssl"
BY DEF Both

LEMMA GlobalCleanupStep ==
  ASSUME ContextInv, NEW c \in Contexts, GlobalCleanup(c)
  PROVE  LocalStep(c)
<1>0. /\ TypeOK /\ LocalInv(c) /\ CallTypes(c) /\ handles \in Nat
      /\ LibraryTypes /\ (UNCHANGED libraries => LibraryTypes')
  BY InvAt
<1> USE <1>0
<1>1. step[c] = "cleanup" /\ op[c] = "free" /\ ctx[c] \in Ctxs /\ ctx[c] # None
      /\ ~own[c] /\ ctx[c].cleanupFns = Both /\ pos[c] \in 1 .. 3
  BY DEF GlobalCleanup, LocalInv, Idling, Creating, Connecting, Freeing, CallTypes, Ops
<1>2. handles' = handles /\ LibraryTypes'
  BY DEF GlobalCleanup
<1>3. PICK s \in {"release", "destroy"}, l \in Libs, r \in Int :
        /\ Becomes(c, ctx[c], own[c], op[c], s, l, pos[c], r)
        /\ IF pos[c] \in {1, 2} THEN s = "release" /\ l = Both[pos[c]] ELSE s = "destroy"
  <2>1. CASE pos[c] \in {1, 2}
    <3>1. /\ lib' = [lib EXCEPT ![c] = Both[pos[c]]]
          /\ reg' = [reg EXCEPT ![c] = initCount[Both[pos[c]]]]
          /\ Goto(c, "release")
          /\ UNCHANGED <<ctx, own, op, pos>>
      BY <1>1, <2>1, BothCleanups DEF GlobalCleanup
    <3>2. Both[pos[c]] \in Libs /\ initCount[Both[pos[c]]] \in Int
      BY <2>1, BothCleanups, Names DEF LibraryTypes
    <3>3. Becomes(c, ctx[c], own[c], op[c], "release", Both[pos[c]], pos[c], initCount[Both[pos[c]]])
      BY <3>1 DEF Goto, Becomes, TypeOK
    <3> QED
      BY <2>1, <3>2, <3>3
  <2>2. CASE pos[c] \notin {1, 2}
    <3>1. Goto(c, "destroy") /\ UNCHANGED <<ctx, own, op, pos, lib, reg>>
      BY <1>1, <2>2, BothCleanups DEF GlobalCleanup
    <3>2. Becomes(c, ctx[c], own[c], op[c], "destroy", lib[c], pos[c], reg[c])
      BY <3>1 DEF Goto, Becomes, TypeOK
    <3> QED
      BY <2>2, <3>2 DEF CallTypes
  <2> QED
    BY <2>1, <2>2
<1>4. /\ handles' \in Nat => TypeOK'
      /\ Others(c)
      /\ ctx'[c] = ctx[c] /\ own'[c] = own[c] /\ op'[c] = op[c] /\ step'[c] = s /\ lib'[c] = l
      /\ pos'[c] = pos[c]
  BY <1>1, <1>2, <1>3, Becoming, Names DEF CallTypes
<1>5. LocalInv(c)'
  BY <1>1, <1>3, <1>4 DEF LocalInv, Idling, Creating, Connecting, Freeing, OwnProvider
<1>6. Weight(c)' = Weight(c)
  BY <1>1, <1>3, <1>4, WeightOf DEF One, HandlesOf, WeightAt
<1> QED
  BY <1>2, <1>4, <1>5, <1>6, WeightOf DEF LocalStep

LEMMA CountDownStep ==
  ASSUME ContextInv, NEW c \in Contexts, CountDown(c)
  PROVE  LocalStep(c)
<1>0. /\ TypeOK /\ LocalInv(c) /\ CallTypes(c) /\ handles \in Nat
      /\ LibraryTypes /\ (UNCHANGED libraries => LibraryTypes')
  BY InvAt
<1> USE <1>0
<1>1. step[c] = "release" /\ op[c] = "free" /\ ctx[c] \in Ctxs /\ ctx[c] # None
      /\ ~own[c] /\ ctx[c].cleanupFns = Both /\ pos[c] \in 1 .. 2 /\ lib[c] = Both[pos[c]]
  BY DEF CountDown, LocalInv, Idling, Creating, Connecting, Freeing, CallTypes, Ops
<1>2. handles' = handles /\ LibraryTypes'
  <2>1. CountRange \in Nat \ {0}
    BY ContextAssumption, FS_CardinalityType
  <2>2. (reg[c] - 1) % CountRange \in Int /\ reg[c] - 1 \in Int
    BY <2>1 DEF CallTypes
  <2> QED
    BY <2>2 DEF CountDown, LibraryTypes, Less
<1>3. PICK s \in {"cleanup", "unload"}, p \in {pos[c], pos[c] + 1} :
        /\ Becomes(c, ctx[c], own[c], op[c], s, lib[c], p, 0)
        /\ IF s = "cleanup" THEN p = pos[c] + 1 ELSE p = pos[c]
  BY DEF CountDown, Goto, Becomes, TypeOK
<1>4. p \in Nat
  BY DEF CallTypes
<1>5. /\ handles' \in Nat => TypeOK'
      /\ Others(c)
      /\ ctx'[c] = ctx[c] /\ own'[c] = own[c] /\ op'[c] = op[c] /\ step'[c] = s /\ lib'[c] = lib[c]
      /\ pos'[c] = p
  BY <1>1, <1>2, <1>3, <1>4, Becoming, Names DEF CallTypes
<1>6. LocalInv(c)'
  BY <1>1, <1>3, <1>4, <1>5 DEF LocalInv, Idling, Creating, Connecting, Freeing, OwnProvider
<1>7. Weight(c)' = Weight(c)
  BY <1>1, <1>3, <1>5, WeightOf DEF One, HandlesOf, WeightAt
<1> QED
  BY <1>2, <1>5, <1>6, <1>7, WeightOf DEF LocalStep

LEMMA UnloadStep ==
  ASSUME ContextInv, NEW c \in Contexts, Unload(c)
  PROVE  LocalStep(c)
<1>0. /\ TypeOK /\ LocalInv(c) /\ CallTypes(c) /\ handles \in Nat
      /\ LibraryTypes /\ (UNCHANGED libraries => LibraryTypes')
  BY InvAt
<1> USE <1>0
<1>1. step[c] = "unload" /\ op[c] = "free" /\ ctx[c] \in Ctxs /\ ctx[c] # None
      /\ ~own[c] /\ ctx[c].cleanupFns = Both /\ pos[c] \in 1 .. 2
  BY DEF Unload, LocalInv, Idling, Creating, Connecting, Freeing, CallTypes, Ops
<1>2. handles' = handles /\ LibraryTypes'
  <2>1. CASE lib[c] = "curl"
    BY <2>1 DEF Unload, LibraryTypes
  <2>2. CASE lib[c] # "curl"
    BY <2>2 DEF Unload, LibraryTypes
  <2> QED
    BY <2>1, <2>2
<1>3. Becomes(c, ctx[c], own[c], op[c], "cleanup", lib[c], pos[c] + 1, reg[c])
  BY DEF Unload, Goto, Becomes, TypeOK
<1>4. pos[c] + 1 \in Nat
  BY DEF CallTypes
<1>5. /\ handles' \in Nat => TypeOK'
      /\ Others(c)
      /\ ctx'[c] = ctx[c] /\ own'[c] = own[c] /\ op'[c] = op[c] /\ step'[c] = "cleanup" /\ lib'[c] = lib[c]
      /\ pos'[c] = pos[c] + 1
  BY <1>1, <1>2, <1>3, <1>4, Becoming, Names DEF CallTypes
<1>6. LocalInv(c)'
  BY <1>1, <1>5 DEF LocalInv, Idling, Creating, Connecting, Freeing, OwnProvider
<1>7. Weight(c)' = Weight(c)
  BY <1>1, <1>5, WeightOf DEF One, HandlesOf, WeightAt
<1> QED
  BY <1>2, <1>5, <1>6, <1>7, WeightOf DEF LocalStep

\* The handles of a provider, as HandlesCounted counts them.
LEMMA ProvidersHandles ==
  ASSUME NEW p \in Clients \cup {None}
  PROVE  HandlesOf(p) \in Nat /\ HandlesOf(p) = One(p # None) + One(HandlesOf(p) = 2)
BY DEF HandlesOf, Clients, One

LEMMA DestroyStep ==
  ASSUME ContextInv, NEW c \in Contexts, Destroy(c)
  PROVE  LocalStep(c)
<1>0. /\ TypeOK /\ LocalInv(c) /\ CallTypes(c) /\ handles \in Nat
      /\ LibraryTypes /\ (UNCHANGED libraries => LibraryTypes')
  BY InvAt
<1> USE <1>0
<1>1. step[c] = "destroy" /\ op[c] = "free" /\ ctx[c] \in Ctxs /\ ctx[c] # None /\ ~own[c]
  BY DEF Destroy, LocalInv, Idling, Creating, Connecting, Freeing, CallTypes, Ops
<1>2. /\ Becomes(c, None, own[c], "none", "idle", "curl", 0, reg[c])
      /\ handles' = handles - HandlesOf(ctx[c].provider) /\ LibraryTypes'
  BY DEF Destroy, Done, Becomes, TypeOK
<1>3. /\ handles' \in Nat => TypeOK'
      /\ Others(c)
      /\ ctx'[c] = None /\ own'[c] = own[c] /\ op'[c] = "none" /\ step'[c] = "idle" /\ lib'[c] = "curl"
  <2> DEFINE owns == own[c]
             r == reg[c]
  <2>1. owns \in BOOLEAN
    BY DEF CallTypes
  <2>2. r \in Int /\ 0 \in Nat
    BY DEF CallTypes
  <2>3. Becomes(c, None, owns, "none", "idle", "curl", 0, r) /\ LibraryTypes'
    BY <1>2
  <2> HIDE DEF owns, r
  <2>4. /\ handles' \in Nat => TypeOK'
        /\ Others(c)
        /\ ctx'[c] = None /\ own'[c] = owns /\ op'[c] = "none" /\ step'[c] = "idle" /\ lib'[c] = "curl"
    BY <1>0, <2>1, <2>2, <2>3, BecomingNone, Names
  <2> QED
    BY <2>4 DEF owns
<1>4. LocalInv(c)'
  BY <1>1, <1>3 DEF LocalInv, Idling, Creating, Connecting, Freeing, OwnProvider
<1>5. HandlesOf(ctx[c].provider) \in Nat /\ Weight(c)' = Weight(c) - HandlesOf(ctx[c].provider)
  <2>1. ctx[c].provider \in Clients \cup {None}
    BY <1>1 DEF Ctxs
  <2>2. Weight(c) = HandlesOf(ctx[c].provider) /\ Weight(c)' = 0
    BY <1>1, <1>3, <2>1, ProvidersHandles, WeightOf DEF One, WeightAt
  <2> QED
    BY <2>1, <2>2, ProvidersHandles
<1> QED
  BY <1>2, <1>3, <1>4, <1>5, WeightOf DEF LocalStep

LEMMA NewClientStep ==
  ASSUME ContextInv, NEW c \in Contexts, NewClient(c)
  PROVE  LocalStep(c)
<1>0. /\ TypeOK /\ LocalInv(c) /\ CallTypes(c) /\ handles \in Nat
      /\ LibraryTypes /\ (UNCHANGED libraries => LibraryTypes')
  BY InvAt
<1> USE <1>0
<1>1. step[c] = "idle" /\ op[c] = "none" /\ ctx[c] \in Ctxs /\ ctx[c] # None /\ lib[c] = "curl" /\ ~own[c]
      /\ ctx[c].cleanupFns = Both
  BY DEF NewClient, Usable, Idle, At, LocalInv, Idling, CallTypes
<1> DEFINE x == Cleared(ctx[c])
<1>2. /\ Becomes(c, x, own[c], "client", "easyInit", lib[c], pos[c], reg[c])
      /\ handles' = handles /\ LibraryTypes'
  BY DEF NewClient, Call, Becomes, TypeOK
<1>3. x \in Ctxs /\ x # None /\ SameButErrors(ctx[c], x)
  BY <1>1, ClearKeepsRest, NoneAssumption
<1> HIDE DEF x
<1>4. /\ handles' \in Nat => TypeOK'
      /\ Others(c)
      /\ ctx'[c] = x /\ own'[c] = own[c] /\ op'[c] = "client" /\ step'[c] = "easyInit" /\ lib'[c] = lib[c]
  BY <1>1, <1>2, <1>3, Becoming, Names DEF CallTypes
<1>5. LocalInv(c)'
  BY <1>1, <1>3, <1>4 DEF LocalInv, Idling, Creating, Connecting, Freeing, OwnProvider, SameButErrors
<1>6. Weight(c)' = Weight(c)
  BY <1>1, <1>3, <1>4, WeightOf DEF One, HandlesOf, WeightAt, SameButErrors
<1> QED
  BY <1>2, <1>4, <1>5, <1>6, WeightOf DEF LocalStep

LEMMA FreeClientStep ==
  ASSUME ContextInv, NEW c \in Contexts, FreeClient(c)
  PROVE  LocalStep(c)
<1>0. /\ TypeOK /\ LocalInv(c) /\ CallTypes(c) /\ handles \in Nat
      /\ LibraryTypes /\ (UNCHANGED libraries => LibraryTypes')
  BY InvAt
<1> USE <1>0
<1>1. step[c] = "idle" /\ op[c] = "none" /\ ctx[c] \in Ctxs /\ ctx[c] # None /\ lib[c] = "curl" /\ own[c]
      /\ ctx[c].cleanupFns = Both
  BY DEF FreeClient, Usable, Idle, At, LocalInv, Idling, CallTypes
<1> DEFINE w == FALSE
<1>2. /\ Becomes(c, ctx[c], w, op[c], step[c], lib[c], pos[c], reg[c])
      /\ handles' = handles - 1 /\ LibraryTypes'
  BY DEF FreeClient, thread, Becomes, TypeOK
<1>3. w \in BOOLEAN
  OBVIOUS
<1>4. w = FALSE
  OBVIOUS
<1> HIDE DEF w
<1>5. /\ handles' \in Nat => TypeOK'
      /\ Others(c)
      /\ ctx'[c] = ctx[c] /\ own'[c] = w /\ op'[c] = op[c] /\ step'[c] = step[c] /\ lib'[c] = lib[c]
  BY <1>1, <1>2, <1>3, Becoming, Names DEF CallTypes
<1>6. LocalInv(c)'
  BY <1>1, <1>4, <1>5 DEF LocalInv, Idling, Creating, Connecting, Freeing, OwnProvider
<1>7. Weight(c)' = Weight(c) - 1
  <2>1. One(own[c]) = 1 /\ One(own'[c]) = 0
    BY <1>1, <1>4, <1>5 DEF One
  <2> QED
    BY <1>1, <1>5, <2>1, WeightOf DEF One, HandlesOf, WeightAt
<1> QED
  BY <1>2, <1>5, <1>6, <1>7, WeightOf DEF LocalStep

\* A call that does nothing to its context but to its errors.
LEMMA ErrorsStep ==
  ASSUME ContextInv, NEW c \in Contexts, Usable(c), NEW x \in Ctxs, SameButErrors(ctx[c], x),
         ctx' = [ctx EXCEPT ![c] = x], UNCHANGED <<own, thread, libraries, handles>>
  PROVE  LocalStep(c)
<1>0. /\ TypeOK /\ LocalInv(c) /\ CallTypes(c) /\ handles \in Nat
      /\ LibraryTypes /\ (UNCHANGED libraries => LibraryTypes')
  BY InvAt
<1> USE <1>0
<1>1. step[c] = "idle" /\ op[c] = "none" /\ ctx[c] # None /\ lib[c] = "curl" /\ x # None
  BY NoneAssumption DEF Usable, Idle, At, LocalInv, Idling
<1>2. /\ Becomes(c, x, own[c], op[c], step[c], lib[c], pos[c], reg[c])
      /\ handles' = handles /\ LibraryTypes'
  BY DEF thread, Becomes, TypeOK
<1>3. /\ handles' \in Nat => TypeOK'
      /\ Others(c)
      /\ ctx'[c] = x /\ own'[c] = own[c] /\ op'[c] = op[c] /\ step'[c] = step[c] /\ lib'[c] = lib[c]
  BY <1>2, Becoming, Names DEF CallTypes
<1>4. LocalInv(c)'
  BY <1>1, <1>3 DEF LocalInv, Idling, Creating, Connecting, Freeing, OwnProvider, SameButErrors
<1>5. Weight(c)' = Weight(c)
  BY <1>1, <1>3, WeightOf DEF One, HandlesOf, WeightAt, SameButErrors
<1> QED
  BY <1>2, <1>3, <1>4, <1>5, WeightOf DEF LocalStep

LEMMA SetUriStep ==
  ASSUME ContextInv, NEW c \in Contexts, SetUri(c)
  PROVE  LocalStep(c)
<1>0. /\ TypeOK /\ LocalInv(c) /\ CallTypes(c) /\ handles \in Nat
      /\ LibraryTypes /\ (UNCHANGED libraries => LibraryTypes')
  BY InvAt
<1> USE <1>0
<1>1. Usable(c) /\ ctx[c] \in Ctxs /\ step[c] = "idle" /\ op[c] = "none" /\ ctx[c] # None /\ lib[c] = "curl"
      /\ ctx[c].cleanupFns = Both /\ OwnProvider(c)
  BY DEF SetUri, Usable, Idle, At, LocalInv, Idling, CallTypes
<1>2. UNCHANGED <<own, libraries, handles>>
  BY DEF SetUri
<1>3. CASE ctx' = [ctx EXCEPT ![c] = Failed(ctx[c], "INVALID_ARGUMENT")] /\ UNCHANGED thread
  BY <1>1, <1>2, <1>3, FailKeepsRest, ErrorsStep, ContextAssumption
<1>4. CASE ctx' = [ctx EXCEPT ![c] = Cleared(ctx[c])] /\ UNCHANGED thread
  BY <1>1, <1>2, <1>4, ClearKeepsRest, ErrorsStep
<1>5. CASE /\ ~ctx[c].custom /\ ctx[c].provider.handles = 1
           /\ ctx' = [ctx EXCEPT ![c] = Cleared(ctx[c])] /\ Call(c, "setUri", "easyInit")
  <2> DEFINE x == Cleared(ctx[c])
  <2>1. /\ Becomes(c, x, own[c], "setUri", "easyInit", lib[c], pos[c], reg[c])
        /\ handles' = handles /\ LibraryTypes'
    BY <1>2, <1>5 DEF Call, Becomes, TypeOK
  <2>2. x \in Ctxs /\ x # None /\ SameButErrors(ctx[c], x)
    BY <1>1, ClearKeepsRest, NoneAssumption
  <2>3. ctx[c].provider = NewClientProvider
    <3>1. ctx[c].provider \in Clients /\ ctx[c].provider.kind = "uri" /\ ctx[c].provider.handles = 1
      BY <1>1, <1>5 DEF OwnProvider, Ctxs
    <3> QED
      BY <3>1 DEF Clients, NewClientProvider
  <2> HIDE DEF x
  <2>4. /\ handles' \in Nat => TypeOK'
        /\ Others(c)
        /\ ctx'[c] = x /\ own'[c] = own[c] /\ op'[c] = "setUri" /\ step'[c] = "easyInit" /\ lib'[c] = lib[c]
    BY <1>1, <2>1, <2>2, Becoming, Names DEF CallTypes
  <2>5. LocalInv(c)'
    BY <1>1, <2>2, <2>3, <2>4 DEF LocalInv, Idling, Creating, Connecting, Freeing, OwnProvider, SameButErrors
  <2>6. Weight(c)' = Weight(c)
    BY <1>1, <2>2, <2>4, WeightOf DEF One, HandlesOf, WeightAt, SameButErrors
  <2> QED
    BY <2>1, <2>4, <2>5, <2>6, WeightOf DEF LocalStep
<1> QED
  BY <1>3, <1>4, <1>5 DEF SetUri

LEMMA SetTimeoutSecondsStep ==
  ASSUME ContextInv, NEW c \in Contexts, SetTimeoutSeconds(c)
  PROVE  LocalStep(c)
<1>1. Usable(c) /\ ctx[c] \in Ctxs /\ UNCHANGED <<own, thread, libraries, handles>>
  BY InvAt DEF SetTimeoutSeconds, Usable, CallTypes
<1>2. CASE ctx[c].provider = None \/ ctx[c].custom
  <2>1. ctx' = [ctx EXCEPT ![c] = Failed(ctx[c], "INVALID_ARGUMENT")]
    BY <1>2 DEF SetTimeoutSeconds
  <2> QED
    BY <1>1, <2>1, FailKeepsRest, ErrorsStep, ContextAssumption
<1>3. CASE ~(ctx[c].provider = None \/ ctx[c].custom)
  <2>1. ctx' = [ctx EXCEPT ![c] = Cleared(ctx[c])]
    BY <1>3 DEF SetTimeoutSeconds
  <2> QED
    BY <1>1, <2>1, ClearKeepsRest, ErrorsStep
<1> QED
  BY <1>2, <1>3

LEMMA ClearErrorsStep ==
  ASSUME ContextInv, NEW c \in Contexts, ClearErrors(c)
  PROVE  LocalStep(c)
<1>1. Usable(c) /\ ctx[c] \in Ctxs /\ UNCHANGED <<own, thread, libraries, handles>>
  BY InvAt DEF ClearErrors, Usable, CallTypes
<1>2. ctx' = [ctx EXCEPT ![c] = Cleared(ctx[c])]
  BY DEF ClearErrors
<1> QED
  BY <1>1, <1>2, ClearKeepsRest, ErrorsStep

LEMMA PushErrorStep ==
  ASSUME ContextInv, NEW c \in Contexts, PushError(c)
  PROVE  LocalStep(c)
<1>1. Usable(c) /\ ctx[c] \in Ctxs /\ UNCHANGED <<own, thread, libraries, handles>>
  BY InvAt DEF PushError, Usable, CallTypes
<1>2. PICK code \in Codes : ctx' = [ctx EXCEPT ![c] = Pushed(ctx[c], code)]
  BY DEF PushError
<1> QED
  BY <1>1, <1>2, PushKeepsRest, ErrorsStep

LEMMA ContextInvInit ==
  Init => ContextInv
<1> SUFFICES ASSUME Init PROVE ContextInv
  OBVIOUS
<1>1. TypeOK
  <2>1. /\ ctx \in [Contexts -> Ctxs \cup {None}] /\ own \in [Contexts -> BOOLEAN]
        /\ op \in [Contexts -> Ops] /\ step \in [Contexts -> StepNames]
    BY DEF Init, Ops, StepNames
  <2>2. /\ lib \in [Contexts -> Libs] /\ pos \in [Contexts -> Nat] /\ reg \in [Contexts -> Int]
        /\ initCount \in [Libs -> Int] /\ libcurl \in Nat /\ digests \in BOOLEAN /\ handles \in Nat
    <3>1. digests \in BOOLEAN
      BY DEF Init
    <3>2. /\ lib \in [Contexts -> Libs] /\ pos \in [Contexts -> Nat] /\ reg \in [Contexts -> Int]
          /\ initCount \in [Libs -> Int] /\ libcurl \in Nat /\ handles \in Nat
      BY Names DEF Init
    <3> QED
      BY <3>1, <3>2
  <2> QED
    BY <2>1, <2>2 DEF TypeOK, Ops, StepNames
<1>2. CallsInOrder
  BY DEF Init, CallsInOrder, Idling, Creating, Connecting, Freeing, OwnProvider
<1>3. Providing = {} /\ Doubled = {} /\ Owning = {} /\ Pending = {}
  BY DEF Init, Providing, Doubled, Owning, Pending
<1>4. HandlesCounted
  BY <1>3, FS_EmptySet DEF Init, HandlesCounted
<1> QED
  BY <1>1, <1>2, <1>4 DEF ContextInv

\* What context c may do.
NextOf(c) ==
  \/ NewContext(c) \/ EasyInit(c) \/ RegisterGlobals(c) \/ CountUp(c) \/ GlobalInit(c)
  \/ FirstProvider(c) \/ ClientMade(c) \/ TcpClientMade(c) \/ NewTruststore(c)
  \/ FreeContext(c) \/ GlobalCleanup(c) \/ CountDown(c) \/ Unload(c) \/ Destroy(c)
  \/ NewClient(c) \/ FreeClient(c) \/ SetNetworkProvider(c)
  \/ SetUri(c) \/ SetTimeoutSeconds(c) \/ ClearErrors(c) \/ PushError(c)

LEMMA StepIsLocal ==
  ASSUME ContextInv, NEW c \in Contexts, NextOf(c)
  PROVE  LocalStep(c)
BY NewContextStep, EasyInitStep, RegisterGlobalsStep, CountUpStep, GlobalInitStep,
   FirstProviderStep, ClientMadeStep, TcpClientMadeStep, NewTruststoreStep, FreeContextStep,
   GlobalCleanupStep, CountDownStep, UnloadStep, DestroyStep, NewClientStep, FreeClientStep,
   SetNetworkProviderStep, SetUriStep, SetTimeoutSecondsStep, ClearErrorsStep, PushErrorStep
   DEF NextOf

LEMMA NextIsLocal ==
  ASSUME ContextInv, Next
  PROVE  \E c \in Contexts : NextOf(c) /\ LocalStep(c)
<1>1. PICK c \in Contexts : NextOf(c)
  BY DEF Next, NextOf
<1> QED
  BY <1>1, StepIsLocal

LEMMA ContextInvNext ==
  ContextInv /\ [Next]_vars => ContextInv'
<1> SUFFICES ASSUME ContextInv, [Next]_vars PROVE ContextInv'
  OBVIOUS
<1>1. CASE Next
  BY <1>1, NextIsLocal, LocalStepKeepsContextInv
<1>2. CASE UNCHANGED vars
  <2>1. /\ ctx' = ctx /\ own' = own /\ op' = op /\ step' = step /\ lib' = lib /\ pos' = pos /\ reg' = reg
        /\ initCount' = initCount /\ libcurl' = libcurl /\ digests' = digests /\ handles' = handles
    BY <1>2 DEF vars
  <2>2. TypeOK'
    BY <2>1 DEF ContextInv, TypeOK
  <2>3. CallsInOrder'
    BY <2>1 DEF ContextInv, CallsInOrder, Idling, Creating, Connecting, Freeing, OwnProvider
  <2>4. HandlesCounted'
    BY <2>1 DEF ContextInv, HandlesCounted, Providing, Doubled, Owning, Pending, AtTruststore, HandlesOf
  <2> QED
    BY <2>2, <2>3, <2>4 DEF ContextInv
<1> QED
  BY <1>1, <1>2

LEMMA ContextInvHolds ==
  Spec => []ContextInv
<1> QED
  BY ContextInvInit, ContextInvNext, PTL DEF Spec

\* TypeOK of Context: the state keeps its types whatever the threads do at once; that the
\* number of handles is not negative is that none is cleaned up twice.
THEOREM ContextTypes ==
  Spec => []TypeOK
<1>1. ContextInv => TypeOK
  BY DEF ContextInv
<1> QED
  BY <1>1, ContextInvHolds, PTL

-----------------------------------------------------------------------------
(* The contexts implement ErrorLog.                                        *)

LogAt(x) == IF x = None THEN NoLog ELSE LogOf(x)

Logs == [c \in Contexts |-> LogAt(ctx[c])]

LEMMA NoLogIsEmptied == IsEmptied(NoLog)
  BY DEF IsEmptied, NoLog, Log!Emptied

LEMMA LogsStep ==
  ASSUME NEW c \in Contexts, Others(c),
         \/ LogAt(ctx'[c]) = LogAt(ctx[c])
         \/ IsEmptied(LogAt(ctx'[c]))
         \/ \E code \in Codes : IsAfter(LogAt(ctx'[c]), LogAt(ctx[c]), code)
         \/ \E code \in Codes : LogAt(ctx'[c]) = Log!After(Log!Emptied(None), code, code)
  PROVE  [Log!Next]_(Logs)
<1>1. Logs' = [Logs EXCEPT ![c] = LogAt(ctx'[c])]
  BY DEF Logs, Others
<1>2. Logs[c] = LogAt(ctx[c])
  BY DEF Logs
<1>3. CASE LogAt(ctx'[c]) = LogAt(ctx[c])
  BY <1>1, <1>2, <1>3 DEF Logs
<1>4. CASE IsEmptied(LogAt(ctx'[c]))
  <2>1. Log!Clear(c)
    BY <1>1, <1>4 DEF Log!Clear, Logs, LogAt, IsEmptied
  <2> QED
    BY <2>1 DEF Log!Next
<1>5. CASE \E code \in Codes : IsAfter(LogAt(ctx'[c]), LogAt(ctx[c]), code)
  <2>1. Log!Push(c)
    BY <1>1, <1>2, <1>5 DEF Log!Push, Logs, LogAt, IsAfter
  <2> QED
    BY <2>1 DEF Log!Next
<1>6. CASE \E code \in Codes : LogAt(ctx'[c]) = Log!After(Log!Emptied(None), code, code)
  <2>1. Log!Fail(c)
    BY <1>1, <1>6 DEF Log!Fail, Logs, LogAt
  <2> QED
    BY <2>1 DEF Log!Next
<1> QED
  BY <1>3, <1>4, <1>5, <1>6

LEMMA LogAtContext ==
  ASSUME NEW x \in Ctxs
  PROVE  /\ LogAt(x) = LogOf(x)
         /\ IsEmptied(LogAt(Cleared(x)))
         /\ \A code \in Codes :
              /\ IsAfter(LogAt(Pushed(x, code)), LogAt(x), code)
              /\ LogAt(Failed(x, code)) = Log!After(Log!Emptied(None), code, code)
<1>1. \A y \in Ctxs : LogAt(y) = LogOf(y)
  BY NoneAssumption DEF LogAt
<1>2. Cleared(x) \in Ctxs /\ IsEmptied(LogOf(Cleared(x)))
  BY ClearedIsEmpty
<1>3. \A y \in Ctxs, code \in Codes :
        Pushed(y, code) \in Ctxs /\ IsAfter(LogOf(Pushed(y, code)), LogOf(y), code)
  BY PushedIsAfter
<1>4. ASSUME NEW code \in Codes, NEW l, NEW m, IsEmptied(l), IsAfter(m, l, code)
      PROVE  m = Log!After(Log!Emptied(None), code, code)
  BY <1>4 DEF IsEmptied, IsAfter, Log!After, Log!Bases, Log!Kept, Log!Emptied
<1>5. ASSUME NEW code \in Codes
      PROVE  LogOf(Failed(x, code)) = Log!After(Log!Emptied(None), code, code)
             /\ Failed(x, code) \in Ctxs
  BY <1>2, <1>3, <1>4 DEF Failed
<1> QED
  BY <1>1, <1>2, <1>3, <1>5

\* What a context's log depends on.
LEMMA SameErrorsSameLog ==
  ASSUME NEW x \in Ctxs, NEW y \in Ctxs, y.errors = x.errors, y.count = x.count
  PROVE  LogAt(y) = LogAt(x)
<1>1. LogOf(y) = LogOf(x)
  BY DEF LogOf, StatusDump, BaseError
<1> QED
  BY <1>1, LogAtContext

LEMMA NextLogs ==
  ASSUME ContextInv, NEW c \in Contexts, LocalStep(c),
         NextOf(c)
  PROVE  [Log!Next]_(Logs)
<1>0. TypeOK /\ LocalInv(c) /\ CallTypes(c) /\ Others(c) /\ c \in DOMAIN ctx
  BY InvAt DEF LocalStep, TypeOK
<1> USE <1>0
<1>1. CASE ctx' = ctx
  BY <1>1, LogsStep
<1>2. ASSUME NEW x \in Ctxs, ctx' = [ctx EXCEPT ![c] = x], ctx[c] \in Ctxs,
             x.errors = ctx[c].errors, x.count = ctx[c].count
      PROVE  [Log!Next]_(Logs)
  BY <1>2, SameErrorsSameLog, LogsStep
<1>3. ASSUME NEW x, ctx' = [ctx EXCEPT ![c] = x], IsEmptied(LogAt(x))
      PROVE  [Log!Next]_(Logs)
  BY <1>3, LogsStep
<1>4. ASSUME NEW x, ctx' = [ctx EXCEPT ![c] = x],
             NEW code \in Codes,
             \/ LogAt(x) = Log!After(Log!Emptied(None), code, code)
             \/ IsAfter(LogAt(x), LogAt(ctx[c]), code)
      PROVE  [Log!Next]_(Logs)
  <2>1. ctx'[c] = x
    BY <1>4
  <2> QED
    BY <2>1, <1>4, LogsStep
<1>5. CASE NewContext(c)
  <2> DEFINE x == [errors |-> [i \in 0 .. Size - 1 |-> None], count |-> 0, cleanupFns |-> << >>,
                   provider |-> None, custom |-> FALSE]
  <2>1. ctx' = [ctx EXCEPT ![c] = x]
    BY <1>5 DEF NewContext
  <2>2. x.count = 0 /\ x.errors[0] = None
    BY ContextAssumption
  <2> HIDE DEF x
  <2>3. IsEmptied(LogAt(x))
    BY <2>2, NoErrorsIsEmptied, NoLogIsEmptied DEF LogAt
  <2> QED
    BY <2>1, <2>3, <1>3
<1>6. CASE \/ EasyInit(c) \/ RegisterGlobals(c) \/ ClientMade(c) \/ FreeContext(c) \/ GlobalCleanup(c)
           \/ CountDown(c) \/ Unload(c) \/ FreeClient(c)
  BY <1>1, <1>6 DEF EasyInit, RegisterGlobals, ClientMade, FreeContext, GlobalCleanup, CountDown, Unload, FreeClient
<1>7. CASE CountUp(c) \/ GlobalInit(c)
  <2>1. ctx[c] \in Ctxs
    BY <1>7 DEF CountUp, GlobalInit, LocalInv, Idling, Creating, Connecting, Freeing, Ops, CallTypes
  <2>2. CASE ctx' = ctx
    BY <2>2, <1>1
  <2>3. CASE ctx' # ctx
    <3>1. ctx' = [ctx EXCEPT ![c] = WithCleanup(ctx[c], lib[c])]
      BY <2>3, <1>7 DEF CountUp, GlobalInit, Registered, WithCleanup
    <3>2. /\ WithCleanup(ctx[c], lib[c]).errors = ctx[c].errors
          /\ WithCleanup(ctx[c], lib[c]).count = ctx[c].count
      BY <2>1 DEF WithCleanup, Ctxs
    <3>3. WithCleanup(ctx[c], lib[c]) \in Ctxs
      BY <2>1, WithCleanupIsContext DEF CallTypes
    <3> QED
      BY <2>1, <3>1, <3>2, <3>3, <1>2
  <2> QED
    BY <2>2, <2>3
<1>8. CASE FirstProvider(c)
  <2>1. ctx[c] \in Ctxs
    BY <1>8 DEF FirstProvider, At, LocalInv, Creating, CallTypes
  <2> DEFINE y == Provided(ctx[c], NewClientProvider, FALSE)
  <2>2. ctx' = [ctx EXCEPT ![c] = Cleared(y)]
    BY <1>8 DEF FirstProvider, NewClientProvider
  <2>3. NewClientProvider \in Clients
    BY DEF NewClientProvider, Clients
  <2>4. y \in Ctxs
    BY <2>1, <2>3, ProvidedIsContext
  <2> HIDE DEF y
  <2>5. IsEmptied(LogAt(Cleared(y)))
    BY <2>4, LogAtContext
  <2> QED
    BY <2>2, <2>5, <1>3
<1>9. CASE TcpClientMade(c)
  <2> DEFINE x == [ctx[c] EXCEPT !.provider.handles = @ + 1]
  <2>1. ctx' = [ctx EXCEPT ![c] = x]
    BY <1>9 DEF TcpClientMade
  <2>2. ctx[c] \in Ctxs
    BY <1>9 DEF TcpClientMade, At, LocalInv, Connecting, CallTypes
  <2>3. x.errors = ctx[c].errors /\ x.count = ctx[c].count /\ ctx'[c] = x
    BY <2>1, <2>2 DEF Ctxs
  <2>4. x \in Ctxs \cup {None}
    BY <2>3, LocalStepKeepsContextInv DEF ContextInv, TypeOK
  <2> HIDE DEF x
  <2>5. CASE x \in Ctxs
    BY <2>1, <2>2, <2>3, <2>5, <1>2
  <2>6. CASE x = None
    BY <2>1, <2>6, <1>3, NoLogIsEmptied DEF LogAt
  <2> QED
    BY <2>4, <2>5, <2>6
<1>10. ASSUME ctx[c] \in Ctxs, ctx' = [ctx EXCEPT ![c] = Cleared(ctx[c])]
       PROVE  [Log!Next]_(Logs)
  BY <1>10, <1>3, LogAtContext
<1>11. ASSUME ctx[c] \in Ctxs, NEW code \in Codes, ctx' = [ctx EXCEPT ![c] = Failed(ctx[c], code)]
       PROVE  [Log!Next]_(Logs)
  <2> DEFINE x == Failed(ctx[c], code)
  <2>1. LogAt(x) = Log!After(Log!Emptied(None), code, code)
    BY <1>11, LogAtContext
  <2> HIDE DEF x
  <2>2. ctx' = [ctx EXCEPT ![c] = x]
    BY <1>11 DEF x
  <2> QED
    BY <2>1, <2>2, <1>4, <1>11
<1>12. CASE NewTruststore(c)
  <2>1. ctx[c] \in Ctxs
    BY <1>12 DEF NewTruststore, At, LocalInv, Creating, CallTypes
  <2>2. ctx' = ctx \/ ctx' = [ctx EXCEPT ![c] = Failed(ctx[c], "CRYPTO_FAILURE")]
    BY <1>12 DEF NewTruststore
  <2> QED
    BY <2>1, <2>2, <1>1, <1>11, ContextAssumption
<1>13. CASE Destroy(c)
  <2>1. ctx' = [ctx EXCEPT ![c] = None]
    BY <1>13 DEF Destroy
  <2>2. IsEmptied(LogAt(None))
    BY NoLogIsEmptied DEF LogAt
  <2> QED
    BY <2>1, <2>2, <1>3
<1>14. CASE SetNetworkProvider(c)
  <2>1. ctx[c] \in Ctxs
    BY <1>14 DEF SetNetworkProvider, Usable, CallTypes
  <2>2. PICK client \in Given(c) : ctx' = [ctx EXCEPT ![c] = Provided(ctx[c], client, TRUE)]
    BY <1>14 DEF SetNetworkProvider
  <2>. client \in Clients \cup {None}
    BY DEF Given, Clients
  <2>3. Provided(ctx[c], client, TRUE) \in Ctxs
    BY <2>1, ProvidedIsContext
  <2>4. /\ Provided(ctx[c], client, TRUE).errors = ctx[c].errors
        /\ Provided(ctx[c], client, TRUE).count = ctx[c].count
    BY <2>1 DEF Provided, Ctxs
  <2> QED
    BY <2>1, <2>2, <2>3, <2>4, <1>2
<1>15. CASE NewClient(c) \/ SetUri(c) \/ SetTimeoutSeconds(c) \/ ClearErrors(c)
  <2>1. ctx[c] \in Ctxs
    BY <1>15 DEF NewClient, SetUri, SetTimeoutSeconds, ClearErrors, Usable, CallTypes
  <2>2. \/ ctx' = [ctx EXCEPT ![c] = Failed(ctx[c], "INVALID_ARGUMENT")]
        \/ ctx' = [ctx EXCEPT ![c] = Cleared(ctx[c])]
    BY <1>15 DEF NewClient, SetUri, SetTimeoutSeconds, ClearErrors
  <2> QED
    BY <2>1, <2>2, <1>10, <1>11, ContextAssumption
<1>16. CASE PushError(c)
  <2>1. ctx[c] \in Ctxs
    BY <1>16 DEF PushError, Usable, CallTypes
  <2>2. PICK code \in Codes : ctx' = [ctx EXCEPT ![c] = Pushed(ctx[c], code)]
    BY <1>16 DEF PushError
  <2> QED
    BY <2>1, <2>2, <1>4, LogAtContext
<1> QED
  BY <1>5, <1>6, <1>7, <1>8, <1>9, <1>12, <1>13, <1>14, <1>15, <1>16 DEF NextOf

\* ErrorsAreLogged of Context: whatever the size of the ring and however many errors come
\* after one another, what the ring holds is the log a context promises.
THEOREM RingKeepsTheLog ==
  Spec => ErrorsAreLogged
<1>1. Init => Log!Init
  BY DEF Init, Log!Init, Log!Emptied, NoLog
<1>2. ContextInv /\ [Next]_vars => [Log!Next]_(Logs)
  <2> SUFFICES ASSUME ContextInv, [Next]_vars PROVE [Log!Next]_(Logs)
    OBVIOUS
  <2>1. CASE UNCHANGED vars
    <3>1. ctx' = ctx
      BY <2>1 DEF vars
    <3>2. Logs' = Logs
      BY <3>1 DEF Logs, LogAt, LogOf, StatusDump, BaseError
    <3> QED
      BY <3>2
  <2>2. CASE Next
    <3>1. PICK c \in Contexts : NextOf(c) /\ LocalStep(c)
      BY <2>2, NextIsLocal
    <3> QED
      BY <3>1, NextLogs
  <2> QED
    BY <2>1, <2>2
<1>3. Logs = [c \in Contexts |-> IF ctx[c] = None THEN NoLog ELSE LogOf(ctx[c])]
  BY DEF Logs, LogAt
<1> QED
  BY <1>1, <1>2, ContextInvHolds, PTL DEF Spec, ErrorsAreLogged, Log!Spec, Logs, LogAt

-----------------------------------------------------------------------------
(* Contexts made and freed one at a time.                                  *)

LEMMA StaysOneAtATime ==
  ASSUME Serialised, ContextInv, OneAtATime, NEW c \in Contexts, LocalStep(c), NextOf(c)
  PROVE  OneAtATime'
<1>0. TypeOK /\ LocalInv(c) /\ CallTypes(c) /\ Others(c)
  BY InvAt DEF LocalStep
<1> USE <1>0
<1>1. \A d \in Contexts \ {c} : op'[d] = op[d]
  BY DEF Others
<1>2. op[c] \in {"new", "free"} \/ (\A d \in Contexts : op[d] \notin {"new", "free"})
        \/ op'[c] \notin {"new", "free"}
  <2>1. CASE NewContext(c) \/ FreeContext(c)
    BY <2>1 DEF NewContext, FreeContext, Alone
  <2>2. CASE EasyInit(c) \/ RegisterGlobals(c) \/ CountUp(c) \/ GlobalInit(c) \/ FirstProvider(c)
             \/ GlobalCleanup(c) \/ CountDown(c) \/ Unload(c)
    <3>1. op' = op
      BY <2>2 DEF EasyInit, RegisterGlobals, CountUp, GlobalInit, FirstProvider, GlobalCleanup, CountDown, Unload
    <3> QED
      BY <3>1
  <2>3. CASE NewTruststore(c)
    BY <2>3 DEF NewTruststore, At
  <2>4. CASE ClientMade(c) \/ TcpClientMade(c) \/ Destroy(c)
    <3>1. op'[c] = "none"
      BY <2>4 DEF ClientMade, TcpClientMade, Destroy, Done, TypeOK
    <3> QED
      BY <3>1
  <2>5. CASE NewClient(c)
    <3>1. op'[c] = "client"
      BY <2>5 DEF NewClient, Call, TypeOK
    <3> QED
      BY <3>1
  <2>6. CASE SetUri(c)
    <3>1. op' = op \/ op'[c] = "setUri"
      BY <2>6 DEF SetUri, Call, thread, TypeOK
    <3> QED
      BY <3>1
  <2>7. CASE FreeClient(c) \/ SetNetworkProvider(c) \/ SetTimeoutSeconds(c) \/ ClearErrors(c) \/ PushError(c)
    <3>1. op' = op
      BY <2>7 DEF FreeClient, SetNetworkProvider, SetTimeoutSeconds, ClearErrors, PushError, thread
    <3> QED
      BY <3>1
  <2> QED
    BY <2>1, <2>2, <2>3, <2>4, <2>5, <2>6, <2>7 DEF NextOf
<1> QED
  BY <1>1, <1>2 DEF OneAtATime

\* The contexts counted change by the one that makes the step.
LEMMA CountedOthers ==
  ASSUME NEW c \in Contexts, Others(c), NEW l
  PROVE  /\ \A d \in Contexts \ {c} : d \in Counted(l)' <=> d \in Counted(l)
         /\ Counted(l) \ {c} = Counted(l)' \ {c}
         /\ IsFiniteSet(Counted(l)) /\ IsFiniteSet(Counted(l)')
<1>1. \A d \in Contexts \ {c} : CountedBy(d, l)' <=> CountedBy(d, l)
  BY DEF Others, CountedBy
<1>2. \A d \in Contexts \ {c} : d \in Counted(l)' <=> d \in Counted(l)
  BY <1>1 DEF Counted
<1>3. Counted(l) \subseteq Contexts /\ Counted(l)' \subseteq Contexts
  BY DEF Counted
<1>4. IsFiniteSet(Counted(l)) /\ IsFiniteSet(Counted(l)')
  BY <1>3, FS_Subset, ContextAssumption
<1> QED
  BY <1>2, <1>3, <1>4

\* A step that counts nothing.
LEMMA QuietStep ==
  ASSUME CountsAgree, NEW c \in Contexts, Others(c), UNCHANGED initCount,
         \A l \in Libs : CountedBy(c, l)' <=> CountedBy(c, l),
         step[c] \notin {"init", "unload"}, step'[c] \notin {"init", "unload"},
         step'[c] \in {"store", "release"} => reg'[c] = initCount[lib'[c]],
         \A d \in Contexts : lib[d] \in Libs
  PROVE  CountsAgree' /\ \A l \in Libs : Loaded(l)' <=> Loaded(l)
<1>1. \A l \in Libs : Counted(l)' = Counted(l)
  <2> SUFFICES ASSUME NEW l \in Libs PROVE Counted(l)' = Counted(l)
    OBVIOUS
  <2>1. c \in Counted(l)' <=> c \in Counted(l)
    BY DEF Counted
  <2>2. Counted(l) \subseteq Contexts /\ Counted(l)' \subseteq Contexts
    BY DEF Counted
  <2> QED
    BY <2>1, <2>2, CountedOthers
<1>2. \A d \in Contexts \ {c} : step'[d] = step[d] /\ lib'[d] = lib[d] /\ reg'[d] = reg[d]
  BY DEF Others
<1>3. \A l \in Libs : (Loading(l)' <=> Loading(l)) /\ (Unloading(l)' <=> Unloading(l))
  BY <1>2 DEF Loading, Unloading
<1>4. \A l \in Libs : Loaded(l)' <=> Loaded(l)
  BY <1>1, <1>3 DEF Loaded
<1>5. CountsAgree'
  <2>1. \A l \in Libs : initCount'[l] = Cardinality(Counted(l)')
    BY <1>1 DEF CountsAgree
  <2>2. ASSUME NEW d \in Contexts
        PROVE  /\ step'[d] \in {"store", "release"} => reg'[d] = initCount'[lib'[d]]
               /\ step'[d] = "init" => Counted(lib[d])' = {d} /\ lib'[d] = lib[d]
               /\ step'[d] = "unload" => Counted(lib[d])' = {} /\ lib'[d] = lib[d]
    <3>1. CASE d = c
      BY <3>1
    <3>2. CASE d # c
      BY <3>2, <1>1, <1>2 DEF CountsAgree
    <3> QED
      BY <3>1, <3>2
  <2> QED
    BY <2>1, <2>2 DEF CountsAgree
<1> QED
  BY <1>4, <1>5

\* All the steps but those that count, and those at a library's own functions.
QuietOf(c) ==
  \/ NewContext(c) \/ EasyInit(c) \/ RegisterGlobals(c)
  \/ FirstProvider(c) \/ ClientMade(c) \/ TcpClientMade(c) \/ NewTruststore(c)
  \/ FreeContext(c) \/ GlobalCleanup(c) \/ Destroy(c)
  \/ NewClient(c) \/ FreeClient(c) \/ SetNetworkProvider(c)
  \/ SetUri(c) \/ SetTimeoutSeconds(c) \/ ClearErrors(c) \/ PushError(c)

LEMMA QuietCounts ==
  ASSUME ContextInv, NEW c \in Contexts, LocalStep(c), QuietOf(c)
  PROVE  /\ UNCHANGED initCount
         /\ step[c] \notin {"init", "unload"} /\ step'[c] \notin {"init", "unload"}
         /\ step'[c] \in {"store", "release"} => reg'[c] = initCount[lib'[c]]
         /\ \A l \in Libs : CountedBy(c, l)' <=> CountedBy(c, l)
<1>0. /\ TypeOK /\ LocalInv(c) /\ CallTypes(c) /\ Others(c) /\ c \in DOMAIN ctx /\ LocalInv(c)'
      /\ op[c] \in Ops /\ step[c] \in StepNames
  BY InvAt DEF LocalStep, TypeOK, CallTypes
<1> USE <1>0
<1>1. UNCHANGED initCount
  BY DEF QuietOf, NewContext, EasyInit, RegisterGlobals, FirstProvider, ClientMade, TcpClientMade, NewTruststore,
         FreeContext, GlobalCleanup, Destroy, NewClient, FreeClient, SetNetworkProvider, SetUri,
         SetTimeoutSeconds, ClearErrors, PushError, libraries
<1>2. ASSUME op[c] = "none", step[c] = "idle", ctx[c] # None, ctx'[c] # None,
             step'[c] \notin {"store", "release", "init", "unload"}, op'[c] # "new", op'[c] = "free" => pos'[c] = 1
      PROVE  /\ step[c] \notin {"init", "unload"} /\ step'[c] \notin {"init", "unload"}
             /\ step'[c] \in {"store", "release"} => reg'[c] = initCount[lib'[c]]
             /\ \A l \in Libs : CountedBy(c, l)' <=> CountedBy(c, l)
  BY <1>2 DEF CountedBy
<1>3. CASE NewContext(c)
  <2>1. op[c] = "none" /\ step[c] = "idle" /\ ctx[c] = None /\ op'[c] = "new" /\ step'[c] = "easyInit" /\ lib'[c] = lib[c]
        /\ lib[c] = "curl"
    BY <1>3 DEF NewContext, Idle, At, Call, TypeOK, LocalInv, Idling
  <2> QED
    BY <1>1, <2>1 DEF CountedBy
<1>4. CASE EasyInit(c)
  <2>1. op'[c] = op[c] /\ step'[c] = "register" /\ lib'[c] = lib[c] /\ ctx'[c] = ctx[c] /\ pos'[c] = pos[c]
        /\ step[c] = "easyInit"
    BY <1>4 DEF EasyInit, Goto, TypeOK
  <2>2. op[c] # "free"
    BY <2>1 DEF LocalInv, Freeing
  <2> QED
    BY <1>1, <2>1, <2>2 DEF CountedBy
<1>5. CASE RegisterGlobals(c)
  <2>1. op'[c] = op[c] /\ step'[c] \in {"registered", "store"} /\ lib'[c] = lib[c] /\ ctx'[c] = ctx[c] /\ pos'[c] = pos[c]
        /\ step[c] = "register" /\ (step'[c] = "store" => reg'[c] = initCount[lib'[c]])
    BY <1>5 DEF RegisterGlobals, Goto, TypeOK
  <2>2. op[c] # "free"
    BY <2>1 DEF LocalInv, Freeing
  <2>3. op[c] = "new" => step'[c] = "store"
    BY <2>1, <1>5, RangesOfCleanupFns DEF RegisterGlobals, Goto, TypeOK, LocalInv, Creating, CallTypes, Libs
  <2> QED
    BY <1>1, <2>1, <2>2, <2>3 DEF CountedBy
<1>6. CASE FirstProvider(c)
  <2>1. op'[c] = op[c] /\ step'[c] = "register" /\ lib'[c] = "openssl" /\ op[c] = "new" /\ lib[c] = "curl"
        /\ step[c] = "registered" /\ ctx[c] # None /\ ctx'[c] # None
    BY <1>6 DEF FirstProvider, Goto, At, TypeOK, LocalInv, Creating
  <2> QED
    BY <1>1, <2>1 DEF CountedBy, Libs
<1>7. CASE ClientMade(c) \/ TcpClientMade(c)
  <2>1. op'[c] = "none" /\ step'[c] = "idle" /\ op[c] \in {"client", "setUri"} /\ step[c] = "registered" /\ ctx[c] # None
    BY <1>7 DEF ClientMade, TcpClientMade, Done, At, TypeOK, LocalInv, Connecting
  <2>2. ctx'[c] # None
    <3>1. CASE ClientMade(c)
      BY <3>1, <2>1 DEF ClientMade
    <3>2. CASE TcpClientMade(c)
      <4>1. ctx[c] \in Ctxs /\ ctx[c].provider = NewClientProvider
        BY <3>2 DEF TcpClientMade, At, LocalInv, Connecting, CallTypes
      <4>2. ctx'[c] = WithTcpClient(ctx[c])
        BY <3>2 DEF TcpClientMade, WithTcpClient
      <4> QED
        BY <4>1, <4>2, WithTcpClientIsContext
    <3> QED
      BY <1>7, <3>1, <3>2
  <2> QED
    BY <1>1, <2>1, <2>2 DEF CountedBy
<1>8. CASE NewTruststore(c)
  <2>1. op[c] = "new" /\ lib[c] = "openssl" /\ step[c] = "registered" /\ ctx[c] # None /\ ctx[c] \in Ctxs
    BY <1>8 DEF NewTruststore, At, LocalInv, Creating, CallTypes
  <2>2. /\ ctx'[c] # None /\ op'[c] \in {"none", "free"} /\ step'[c] \in {"idle", "cleanup"}
        /\ op'[c] = "free" => pos'[c] = 1 /\ step'[c] = "cleanup"
    <3>1. CASE Done(c) /\ UNCHANGED ctx
      BY <3>1, <2>1 DEF Done, TypeOK
    <3>2. CASE ~(Done(c) /\ UNCHANGED ctx)
      <4>1. ctx'[c] = Failed(ctx[c], "CRYPTO_FAILURE") /\ op'[c] = "free" /\ step'[c] = "cleanup" /\ pos'[c] = 1
        BY <1>8, <3>2 DEF NewTruststore, Goto, TypeOK
      <4> QED
        BY <4>1, <2>1, FailKeepsRest, ContextAssumption, NoneAssumption
    <3> QED
      BY <3>1, <3>2
  <2> QED
    BY <1>1, <2>1, <2>2 DEF CountedBy, Libs
<1>9. CASE FreeContext(c)
  <2>1. op[c] = "none" /\ step[c] = "idle" /\ ctx[c] # None /\ ctx'[c] = ctx[c]
        /\ op'[c] = "free" /\ step'[c] = "cleanup" /\ pos'[c] = 1
    BY <1>9 DEF FreeContext, Usable, Idle, At, Goto, TypeOK
  <2> QED
    BY <1>1, <1>2, <2>1
<1>10. CASE GlobalCleanup(c)
  <2>1. op'[c] = op[c] /\ op[c] = "free" /\ step[c] = "cleanup" /\ ctx'[c] = ctx[c] /\ pos'[c] = pos[c]
        /\ step'[c] \in {"release", "destroy"}
    BY <1>10 DEF GlobalCleanup, Goto, TypeOK, LocalInv, Idling, Creating, Connecting, CallTypes, Ops
  <2>2. step'[c] = "release" => reg'[c] = initCount[lib'[c]]
    BY <1>10 DEF GlobalCleanup, Goto, TypeOK
  <2> QED
    BY <1>1, <2>1, <2>2 DEF CountedBy
<1>11. CASE Destroy(c)
  <2>1. op[c] = "free" /\ step[c] = "destroy" /\ pos[c] = 3 /\ ctx'[c] = None /\ op'[c] = "none" /\ step'[c] = "idle"
    BY <1>11 DEF Destroy, Done, TypeOK, LocalInv, Idling, Creating, Connecting, Freeing, CallTypes, Ops
  <2> QED
    BY <1>1, <2>1 DEF CountedBy
<1>12. CASE NewClient(c) \/ SetUri(c) \/ FreeClient(c) \/ SetNetworkProvider(c) \/ SetTimeoutSeconds(c)
            \/ ClearErrors(c) \/ PushError(c)
  <2>1. op[c] = "none" /\ step[c] = "idle" /\ ctx[c] # None
    BY <1>12 DEF NewClient, SetUri, FreeClient, SetNetworkProvider, SetTimeoutSeconds, ClearErrors, PushError,
                 Usable, Idle, At
  <2>2. \/ op'[c] = "none" /\ step'[c] = "idle"
        \/ op'[c] \in {"client", "setUri"} /\ step'[c] = "easyInit"
    BY <1>12, <2>1 DEF NewClient, SetUri, FreeClient, SetNetworkProvider, SetTimeoutSeconds, ClearErrors, PushError,
                       thread, Call, TypeOK
  <2>3. ctx'[c] # None
    <3>1. ctx[c] \in Ctxs
      BY <2>1 DEF CallTypes
    <3>2. /\ Cleared(ctx[c]) # None
          /\ \A code \in Codes : Failed(ctx[c], code) # None /\ Pushed(ctx[c], code) # None
      BY <3>1, ClearKeepsRest, FailKeepsRest, PushKeepsRest, NoneAssumption
    <3>3. CASE NewClient(c) \/ SetUri(c) \/ SetTimeoutSeconds(c) \/ ClearErrors(c)
      <4>1. \/ ctx'[c] = Failed(ctx[c], "INVALID_ARGUMENT")
            \/ ctx'[c] = Cleared(ctx[c])
        BY <3>3 DEF NewClient, SetUri, SetTimeoutSeconds, ClearErrors
      <4> QED
        BY <4>1, <3>2, ContextAssumption
    <3>4. CASE FreeClient(c)
      BY <3>4, <2>1 DEF FreeClient
    <3>5. CASE PushError(c)
      <4>1. \E code \in Codes : ctx'[c] = Pushed(ctx[c], code)
        BY <3>5 DEF PushError
      <4> QED
        BY <4>1, <3>2
    <3>6. CASE SetNetworkProvider(c)
      <4>1. PICK client \in Given(c) : ctx' = [ctx EXCEPT ![c] = Provided(@, client, TRUE)]
        BY <3>6 DEF SetNetworkProvider
      <4>2. client \in Clients \cup {None}
        BY DEF Given, Clients
      <4>3. Provided(ctx[c], client, TRUE) \in Ctxs
        BY <4>2, <3>1, ProvidedIsContext
      <4>4. ctx'[c] = Provided(ctx[c], client, TRUE)
        BY <4>1
      <4> QED
        BY <4>3, <4>4, NoneAssumption
    <3> QED
      BY <1>12, <3>3, <3>4, <3>5, <3>6
  <2> QED
    BY <1>1, <1>2, <2>1, <2>2, <2>3
<1> QED
  BY <1>1, <1>3, <1>4, <1>5, <1>6, <1>7, <1>8, <1>9, <1>10, <1>11, <1>12 DEF QuietOf

\* While a context is made or freed no other is at a count or at a library's functions.
LEMMA NobodyElse ==
  ASSUME ContextInv, OneAtATime, NEW c \in Contexts, op[c] \in {"new", "free"}
  PROVE  \A d \in Contexts \ {c} : step[d] \notin {"store", "release", "init", "unload"}
<1> SUFFICES ASSUME NEW d \in Contexts \ {c} PROVE step[d] \notin {"store", "release", "init", "unload"}
  OBVIOUS
<1>1. op[d] \notin {"new", "free"}
  BY DEF OneAtATime
<1>2. LocalInv(d) /\ op[d] \in Ops
  BY InvAt DEF CallTypes
<1> QED
  BY <1>1, <1>2 DEF LocalInv, Idling, Connecting, Ops

\* A step that counts, or that is at a function of the library it counts for.
LEMMA CountingStep ==
  ASSUME ContextInv, OneAtATime, CountsAgree, NEW c \in Contexts, Others(c), op[c] \in {"new", "free"},
         lib'[c] = lib[c],
         \A l \in Libs \ {lib[c]} : initCount'[l] = initCount[l] /\ (CountedBy(c, l)' <=> CountedBy(c, l)),
         initCount'[lib[c]] = Cardinality(Counted(lib[c])'),
         step'[c] \notin {"store", "release"},
         step'[c] = "init" => Counted(lib[c])' = {c},
         step'[c] = "unload" => Counted(lib[c])' = {}
  PROVE  /\ CountsAgree'
         /\ \A l \in Libs \ {lib[c]} : Loaded(l)' <=> Loaded(l)
         /\ \A l \in Libs : Counted(l) # {} /\ step[c] \notin {"init", "unload"} => Loaded(l)
         /\ Loaded(lib[c]) <=> (Counted(lib[c]) # {} /\ step[c] # "init") \/ step[c] = "unload"
         /\ Loaded(lib[c])' <=> (Counted(lib[c])' # {} /\ step'[c] # "init") \/ step'[c] = "unload"
<1>1. \A d \in Contexts \ {c} : step'[d] = step[d] /\ lib'[d] = lib[d] /\ reg'[d] = reg[d]
                             /\ step[d] \notin {"store", "release", "init", "unload"}
  BY NobodyElse DEF Others
<1>2. \A l \in Libs \ {lib[c]} : Counted(l)' = Counted(l)
  <2> SUFFICES ASSUME NEW l \in Libs \ {lib[c]} PROVE Counted(l)' = Counted(l)
    OBVIOUS
  <2>1. c \in Counted(l)' <=> c \in Counted(l)
    BY DEF Counted
  <2>2. Counted(l) \subseteq Contexts /\ Counted(l)' \subseteq Contexts
    BY DEF Counted
  <2> QED
    BY <2>1, <2>2, CountedOthers
<1>3. \A l \in Libs : /\ Loading(l) <=> step[c] = "init" /\ lib[c] = l
                      /\ Loading(l)' <=> step'[c] = "init" /\ lib[c] = l
                      /\ Unloading(l) <=> step[c] = "unload" /\ lib[c] = l
                      /\ Unloading(l)' <=> step'[c] = "unload" /\ lib[c] = l
  BY <1>1 DEF Loading, Unloading
<1>4. CountsAgree'
  <2>1. \A l \in Libs : initCount'[l] = Cardinality(Counted(l)')
    BY <1>2 DEF CountsAgree
  <2>2. \A d \in Contexts : step'[d] \notin {"store", "release"} /\ (step'[d] \in {"init", "unload"} => d = c)
    BY <1>1
  <2> QED
    BY <2>1, <2>2 DEF CountsAgree
<1>5. lib[c] \in Libs
  BY InvAt DEF CallTypes
<1> QED
  BY <1>2, <1>3, <1>4, <1>5 DEF Loaded

\* As many contexts as there are values of a count are never counted.
LEMMA CountFits ==
  ASSUME NEW S, S \subseteq Contexts
  PROVE  IsFiniteSet(S) /\ Cardinality(S) \in Nat /\ Cardinality(S) < CountRange /\ CountRange \in Nat \ {0}
<1>1. IsFiniteSet(S) /\ Cardinality(S) <= Cardinality(Contexts)
  BY FS_Subset, ContextAssumption
<1>2. Cardinality(S) \in Nat /\ Cardinality(Contexts) \in Nat
  BY <1>1, FS_CardinalityType, ContextAssumption
<1> QED
  BY <1>1, <1>2, ContextAssumption

LEMMA CountUpSerial ==
  ASSUME ContextInv, SerialInv, NEW c \in Contexts, LocalStep(c), CountUp(c)
  PROVE  CountsAgree' /\ LibrariesLoaded'
<1> DEFINE l0 == lib[c]
<1>0. /\ TypeOK /\ LocalInv(c) /\ CallTypes(c) /\ Others(c) /\ OneAtATime /\ CountsAgree /\ LibrariesLoaded
      /\ l0 \in Libs
  BY InvAt DEF LocalStep, SerialInv, CallTypes
<1> USE <1>0
<1>1. /\ step[c] = "store" /\ op[c] = "new" /\ ctx[c] # None
  BY DEF CountUp, LocalInv, Idling, Creating, Connecting, Freeing, Ops, CallTypes
<1>2. /\ op'[c] = op[c] /\ lib'[c] = lib[c] /\ libcurl' = libcurl /\ digests' = digests /\ handles' = handles
      /\ step'[c] = IF reg[c] > 0 THEN "registered" ELSE "init"
      /\ initCount' = [initCount EXCEPT ![l0] = IF l0 = "curl" THEN (reg[c] + 1) % CountRange ELSE reg[c] + 1]
  BY DEF CountUp, Registered, Goto, TypeOK
<1>3. ctx'[c] # None
  <2>1. LocalInv(c)' /\ op'[c] = "new"
    BY <1>1, <1>2 DEF LocalStep
  <2> QED
    BY <2>1 DEF LocalInv, Creating
<1>4. \A l \in Libs \ {l0} : CountedBy(c, l)' <=> CountedBy(c, l)
  BY <1>1, <1>2, <1>3 DEF CountedBy
<1>5. ~CountedBy(c, l0) /\ CountedBy(c, l0)'
  BY <1>1, <1>2, <1>3 DEF CountedBy
<1>6. reg[c] = Cardinality(Counted(l0))
  BY <1>1 DEF CountsAgree
<1>7. c \notin Counted(l0) /\ c \in Counted(l0)' /\ Counted(l0) \ {c} = Counted(l0)' \ {c}
  BY <1>2, <1>5, CountedOthers DEF Counted
<1>8. /\ Counted(l0)' = Counted(l0) \cup {c}
      /\ Cardinality(Counted(l0)') = reg[c] + 1 /\ reg[c] \in Nat
  <2>1. Counted(l0)' = Counted(l0) \cup {c}
    BY <1>7
  <2>2. IsFiniteSet(Counted(l0)) /\ Cardinality(Counted(l0)) \in Nat
    BY CountFits DEF Counted
  <2> QED
    BY <2>1, <2>2, <1>6, <1>7, FS_AddElement
<1>9. initCount'[l0] = Cardinality(Counted(l0)')
  <2>1. Counted(l0)' \subseteq Contexts
    BY DEF Counted
  <2>2. reg[c] + 1 < CountRange /\ CountRange \in Nat \ {0}
    BY <2>1, <1>8, CountFits
  <2>3. (reg[c] + 1) % CountRange = reg[c] + 1
    BY <2>2, <1>8, Remainder
  <2>4. initCount'[l0] = reg[c] + 1
    BY <1>2, <2>3 DEF TypeOK
  <2> QED
    BY <2>4, <1>8
<1>10. reg[c] = 0 => Counted(l0) = {}
  BY <1>6, FS_EmptySet, CountFits DEF Counted
<1>11. /\ CountsAgree'
       /\ \A l \in Libs \ {l0} : Loaded(l)' <=> Loaded(l)
       /\ Loaded(l0) <=> Counted(l0) # {}
       /\ Loaded(l0)' <=> step'[c] # "init"
  <2>1. \A l \in Libs \ {l0} : initCount'[l] = initCount[l]
    BY <1>2 DEF TypeOK
  <2>2. step'[c] = "init" => Counted(l0)' = {c}
    BY <1>2, <1>8, <1>10
  <2>3. step'[c] \notin {"store", "release", "unload"} /\ Counted(l0)' # {}
    BY <1>2, <1>8
  <2> QED
    BY <1>1, <1>2, <1>4, <1>9, <2>1, <2>2, <2>3, CountingStep
<1>12. reg[c] > 0 => Counted(l0) # {}
  BY <1>6, FS_EmptySet
<1>13. \A l \in Libs : Loaded(l)' <=> Loaded(l)
  BY <1>2, <1>8, <1>10, <1>11, <1>12
<1>14. LibrariesLoaded'
  BY <1>2, <1>13, Names DEF LibrariesLoaded
<1> QED
  BY <1>11, <1>14

LEMMA GlobalInitSerial ==
  ASSUME ContextInv, SerialInv, NEW c \in Contexts, LocalStep(c), GlobalInit(c)
  PROVE  CountsAgree' /\ LibrariesLoaded'
<1> DEFINE l0 == lib[c]
<1>0. /\ TypeOK /\ LocalInv(c) /\ CallTypes(c) /\ Others(c) /\ OneAtATime /\ CountsAgree /\ LibrariesLoaded
      /\ l0 \in Libs /\ libcurl \in Nat
  BY InvAt DEF LocalStep, SerialInv, CallTypes, LibraryTypes
<1> USE <1>0
<1>1. /\ step[c] = "init" /\ op[c] = "new" /\ ctx[c] # None
  BY DEF GlobalInit, LocalInv, Idling, Creating, Connecting, Freeing, Ops, CallTypes
<1>2. /\ op'[c] = op[c] /\ lib'[c] = lib[c] /\ initCount' = initCount /\ handles' = handles /\ step'[c] = "registered"
  BY DEF GlobalInit, Registered, Goto, TypeOK
<1>3. ctx'[c] # None
  <2>1. LocalInv(c)' /\ op'[c] = "new"
    BY <1>1, <1>2 DEF LocalStep
  <2> QED
    BY <2>1 DEF LocalInv, Creating
<1>4. \A l \in Libs : CountedBy(c, l)' <=> CountedBy(c, l)
  BY <1>1, <1>2, <1>3 DEF CountedBy
<1>5. Counted(l0) = {c} /\ Counted(l0)' = {c}
  <2>1. Counted(l0) = {c}
    BY <1>1 DEF CountsAgree
  <2>2. CountedBy(c, l0)'
    BY <1>1, <1>2, <1>3 DEF CountedBy
  <2>3. c \in Counted(l0)' /\ Counted(l0) \ {c} = Counted(l0)' \ {c}
    BY <1>2, <2>2, CountedOthers DEF Counted
  <2> QED
    BY <2>1, <2>3
<1>6. initCount'[l0] = Cardinality(Counted(l0)')
  BY <1>2, <1>5 DEF CountsAgree
<1>7. /\ CountsAgree'
      /\ \A l \in Libs \ {l0} : Loaded(l)' <=> Loaded(l)
      /\ ~Loaded(l0) /\ Loaded(l0)'
  BY <1>1, <1>2, <1>4, <1>5, <1>6, CountingStep
<1>8. CASE l0 = "curl"
  <2>1. handles > 0
    <3>1. c \in Pending
      BY <1>1, <1>8 DEF Pending, AtTruststore
    <3>2. IsFiniteSet(Pending) /\ Cardinality(Pending) \in Nat
      BY CountFits DEF Pending
    <3>3. Cardinality(Pending) # 0
      BY <3>1, <3>2, FS_EmptySet
    <3>4. /\ Cardinality(Providing) \in Nat /\ Cardinality(Doubled) \in Nat /\ Cardinality(Owning) \in Nat
      BY CountFits DEF Providing, Doubled, Owning
    <3> QED
      BY <3>2, <3>3, <3>4 DEF ContextInv, HandlesCounted
  <2>2. libcurl = 1
    BY <2>1, <1>7, <1>8 DEF LibrariesLoaded
  <2>3. libcurl' = 2 /\ digests' = digests
    BY <2>2, <1>8 DEF GlobalInit
  <2> QED
    BY <2>3, <1>2, <1>7, <1>8, Names DEF LibrariesLoaded
<1>9. CASE l0 = "openssl"
  <2>1. digests' /\ libcurl' = libcurl
    BY <1>9 DEF GlobalInit
  <2> QED
    BY <2>1, <1>2, <1>7, <1>9, Names DEF LibrariesLoaded
<1> QED
  BY <1>8, <1>9 DEF Libs

LEMMA CountDownSerial ==
  ASSUME ContextInv, SerialInv, NEW c \in Contexts, LocalStep(c), CountDown(c)
  PROVE  CountsAgree' /\ LibrariesLoaded'
<1> DEFINE l0 == lib[c]
<1>0. /\ TypeOK /\ LocalInv(c) /\ CallTypes(c) /\ Others(c) /\ OneAtATime /\ CountsAgree /\ LibrariesLoaded
      /\ l0 \in Libs
  BY InvAt DEF LocalStep, SerialInv, CallTypes
<1> USE <1>0
<1>1. /\ step[c] = "release" /\ op[c] = "free" /\ ctx[c] # None /\ pos[c] \in 1 .. 2 /\ l0 = Both[pos[c]]
  BY DEF CountDown, LocalInv, Idling, Creating, Connecting, Freeing, Ops, CallTypes
<1>2. /\ op'[c] = op[c] /\ lib'[c] = lib[c] /\ libcurl' = libcurl /\ digests' = digests /\ handles' = handles
      /\ ctx'[c] = ctx[c]
      /\ initCount' = [initCount EXCEPT ![l0] = Less(l0, reg[c])]
      /\ IF Less(l0, reg[c]) > 0 THEN step'[c] = "cleanup" /\ pos'[c] = pos[c] + 1
                                 ELSE step'[c] = "unload" /\ pos'[c] = pos[c]
  BY DEF CountDown, Goto, TypeOK
<1>3. (l0 = "curl" /\ pos[c] = 1) \/ (l0 = "openssl" /\ pos[c] = 2)
  <2> HIDE DEF l0
  <2>1. CASE pos[c] = 1
    BY <2>1, <1>1, BothCleanups
  <2>2. CASE pos[c] = 2
    BY <2>2, <1>1, BothCleanups
  <2> QED
    BY <2>1, <2>2, <1>1
<1>4. \A l \in Libs \ {l0} : CountedBy(c, l)' <=> CountedBy(c, l)
  BY <1>1, <1>2, <1>3 DEF CountedBy, Libs
<1>5. CountedBy(c, l0) /\ ~CountedBy(c, l0)'
  BY <1>1, <1>2, <1>3 DEF CountedBy, Libs
<1>6. reg[c] = Cardinality(Counted(l0))
  BY <1>1 DEF CountsAgree
<1>7. c \in Counted(l0) /\ c \notin Counted(l0)' /\ Counted(l0) \ {c} = Counted(l0)' \ {c}
  BY <1>2, <1>5, CountedOthers DEF Counted
<1>8. /\ Counted(l0)' = Counted(l0) \ {c}
      /\ Cardinality(Counted(l0)') = reg[c] - 1 /\ reg[c] - 1 \in Nat /\ reg[c] \in Nat
      /\ reg[c] < CountRange /\ CountRange \in Nat \ {0}
  <2>1. Counted(l0)' = Counted(l0) \ {c}
    BY <1>7
  <2>2. /\ IsFiniteSet(Counted(l0)) /\ Cardinality(Counted(l0)) \in Nat /\ Cardinality(Counted(l0)) < CountRange
        /\ CountRange \in Nat \ {0}
    BY CountFits DEF Counted
  <2>3. Cardinality(Counted(l0)') = Cardinality(Counted(l0)) - 1
    BY <2>1, <2>2, <1>7, FS_RemoveElement
  <2>4. Cardinality(Counted(l0)) # 0
    BY <2>2, <1>7, FS_EmptySet
  <2> QED
    BY <2>1, <2>2, <2>3, <2>4, <1>6
<1>9. Less(l0, reg[c]) = reg[c] - 1
  <2>1. (reg[c] - 1) % CountRange = reg[c] - 1
    BY <1>8, Remainder
  <2> QED
    BY <2>1 DEF Less
<1>10. initCount'[l0] = Cardinality(Counted(l0)')
  BY <1>2, <1>8, <1>9 DEF TypeOK
<1>11. reg[c] - 1 = 0 <=> Counted(l0)' = {}
  <2>1. IsFiniteSet(Counted(l0)')
    BY CountFits DEF Counted
  <2> QED
    BY <2>1, <1>8, FS_EmptySet
<1>12. /\ CountsAgree'
       /\ \A l \in Libs \ {l0} : Loaded(l)' <=> Loaded(l)
       /\ Loaded(l0) /\ Loaded(l0)'
  <2>1. \A l \in Libs \ {l0} : initCount'[l] = initCount[l]
    BY <1>2 DEF TypeOK
  <2>2. step'[c] = "unload" <=> Counted(l0)' = {}
    BY <1>2, <1>8, <1>9, <1>11
  <2>3. step'[c] \notin {"store", "release", "init"} /\ Counted(l0) # {}
    BY <1>2, <1>7
  <2> QED
    BY <1>1, <1>2, <1>4, <1>10, <2>1, <2>2, <2>3, CountingStep
<1>13. \A l \in Libs : Loaded(l)' <=> Loaded(l)
  BY <1>2, <1>12
<1>14. LibrariesLoaded'
  BY <1>2, <1>13, Names DEF LibrariesLoaded
<1> QED
  BY <1>12, <1>14

LEMMA UnloadSerial ==
  ASSUME ContextInv, SerialInv, NEW c \in Contexts, LocalStep(c), Unload(c)
  PROVE  CountsAgree' /\ LibrariesLoaded'
<1> DEFINE l0 == lib[c]
<1>0. /\ TypeOK /\ LocalInv(c) /\ CallTypes(c) /\ Others(c) /\ OneAtATime /\ CountsAgree /\ LibrariesLoaded
      /\ l0 \in Libs /\ libcurl \in Nat
  BY InvAt DEF LocalStep, SerialInv, CallTypes, LibraryTypes
<1> USE <1>0
<1>1. /\ step[c] = "unload" /\ op[c] = "free" /\ ctx[c] # None /\ pos[c] \in 1 .. 2 /\ l0 = Both[pos[c]]
  BY DEF Unload, LocalInv, Idling, Creating, Connecting, Freeing, Ops, CallTypes
<1>2. /\ op'[c] = op[c] /\ lib'[c] = lib[c] /\ initCount' = initCount /\ handles' = handles
      /\ ctx'[c] = ctx[c] /\ step'[c] = "cleanup" /\ pos'[c] = pos[c] + 1
  BY DEF Unload, Goto, TypeOK
<1>3. (l0 = "curl" /\ pos[c] = 1) \/ (l0 = "openssl" /\ pos[c] = 2)
  <2> HIDE DEF l0
  <2>1. CASE pos[c] = 1
    BY <2>1, <1>1, BothCleanups
  <2>2. CASE pos[c] = 2
    BY <2>2, <1>1, BothCleanups
  <2> QED
    BY <2>1, <2>2, <1>1
<1>4. \A l \in Libs : CountedBy(c, l)' <=> CountedBy(c, l)
  BY <1>1, <1>2, <1>3 DEF CountedBy, Libs
<1>5. Counted(l0) = {} /\ Counted(l0)' = {}
  <2>1. Counted(l0) = {}
    BY <1>1 DEF CountsAgree
  <2>2. ~CountedBy(c, l0)'
    BY <1>1, <1>2, <1>3 DEF CountedBy
  <2>3. c \notin Counted(l0)' /\ Counted(l0) \ {c} = Counted(l0)' \ {c}
    BY <1>2, <2>2, CountedOthers DEF Counted
  <2> QED
    BY <2>1, <2>3
<1>6. initCount'[l0] = Cardinality(Counted(l0)')
  BY <1>2, <1>5 DEF CountsAgree
<1>7. /\ CountsAgree'
      /\ \A l \in Libs \ {l0} : Loaded(l)' <=> Loaded(l)
      /\ Loaded(l0) /\ ~Loaded(l0)'
  BY <1>1, <1>2, <1>4, <1>5, <1>6, CountingStep
<1>8. CASE l0 = "curl"
  <2>1. libcurl = 2
    BY <1>7, <1>8 DEF LibrariesLoaded
  <2>2. libcurl' = 1 /\ digests' = digests
    BY <2>1, <1>8 DEF Unload
  <2> QED
    BY <2>2, <1>2, <1>7, <1>8, Names DEF LibrariesLoaded
<1>9. CASE l0 = "openssl"
  <2>1. ~digests' /\ libcurl' = libcurl
    BY <1>9 DEF Unload
  <2> QED
    BY <2>1, <1>2, <1>7, <1>9, Names DEF LibrariesLoaded
<1> QED
  BY <1>8, <1>9 DEF Libs

LEMMA QuietSerial ==
  ASSUME ContextInv, SerialInv, NEW c \in Contexts, LocalStep(c), QuietOf(c)
  PROVE  CountsAgree' /\ LibrariesLoaded'
<1>0. /\ TypeOK /\ CallTypes(c) /\ Others(c) /\ CountsAgree /\ LibrariesLoaded
      /\ libcurl \in Nat /\ handles \in Nat
  BY InvAt DEF LocalStep, SerialInv, LibraryTypes
<1>1. CountsAgree' /\ \A l \in Libs : Loaded(l)' <=> Loaded(l)
  BY <1>0, QuietCounts, QuietStep DEF TypeOK
<1>2. digests' = digests
  BY DEF QuietOf, NewContext, EasyInit, RegisterGlobals, FirstProvider, ClientMade, TcpClientMade, NewTruststore,
         FreeContext, GlobalCleanup, Destroy, NewClient, FreeClient, SetNetworkProvider, SetUri,
         SetTimeoutSeconds, ClearErrors, PushError, libraries
<1>3. /\ handles' > 0 => libcurl' > 0
      /\ IF Loaded("curl") THEN libcurl' = 2 ELSE libcurl' <= 1
  <2>1. CASE EasyInit(c)
    <3>1. libcurl' = IF libcurl = 0 THEN 1 ELSE libcurl
      BY <2>1 DEF EasyInit
    <3> QED
      BY <1>0, <3>1 DEF LibrariesLoaded
  <2>2. CASE ~EasyInit(c)
    <3>1. libcurl' = libcurl
      BY <2>2 DEF QuietOf, NewContext, RegisterGlobals, FirstProvider, ClientMade, TcpClientMade, NewTruststore,
         FreeContext, GlobalCleanup, Destroy, NewClient, FreeClient, SetNetworkProvider, SetUri,
         SetTimeoutSeconds, ClearErrors, PushError, libraries
    <3>2. handles' <= handles
      <4>1. CASE SetNetworkProvider(c) \/ Destroy(c)
        <5>1. handles' = handles - HandlesOf(ctx[c].provider)
          BY <4>1 DEF SetNetworkProvider, Destroy
        <5>2. ctx[c] \in Ctxs
          BY <4>1, <1>0, InvAt DEF SetNetworkProvider, Usable, Destroy, CallTypes, LocalInv, Idling, Creating,
                              Connecting, Freeing, Ops
        <5>3. HandlesOf(ctx[c].provider) \in Nat
          BY <5>2, ProvidersHandles DEF Ctxs
        <5> QED
          BY <5>1, <5>3, <1>0
      <4>2. CASE FreeClient(c)
        BY <4>2, <1>0 DEF FreeClient
      <4>3. CASE ~(SetNetworkProvider(c) \/ Destroy(c) \/ FreeClient(c))
        <5>1. handles' = handles
          BY <4>3, <2>2 DEF QuietOf, NewContext, RegisterGlobals, FirstProvider, ClientMade, TcpClientMade,
             NewTruststore, FreeContext, GlobalCleanup, NewClient, SetUri, SetTimeoutSeconds, ClearErrors, PushError
        <5> QED
          BY <5>1, <1>0
      <4> QED
        BY <4>1, <4>2, <4>3
    <3>3. handles' \in Int
      BY <1>0, LocalStepKeepsContextInv DEF ContextInv, TypeOK
    <3> QED
      BY <3>1, <3>2, <3>3, <1>0 DEF LibrariesLoaded
  <2> QED
    BY <2>1, <2>2
<1> QED
  BY <1>0, <1>1, <1>2, <1>3, Names DEF LibrariesLoaded

LEMMA SerialInvNext ==
  Serialised /\ ContextInv /\ SerialInv /\ [Next]_vars => SerialInv'
<1> SUFFICES ASSUME Serialised, ContextInv, SerialInv, [Next]_vars PROVE SerialInv'
  OBVIOUS
<1>1. CASE Next
  <2>1. PICK c \in Contexts : NextOf(c) /\ LocalStep(c)
    BY <1>1, NextIsLocal
  <2>2. OneAtATime'
    BY <2>1, StaysOneAtATime DEF SerialInv
  <2>3. CountsAgree' /\ LibrariesLoaded'
    BY <2>1, CountUpSerial, GlobalInitSerial, CountDownSerial, UnloadSerial, QuietSerial DEF NextOf, QuietOf
  <2> QED
    BY <2>2, <2>3 DEF SerialInv
<1>2. CASE UNCHANGED vars
  <2>1. /\ ctx' = ctx /\ own' = own /\ op' = op /\ step' = step /\ lib' = lib /\ pos' = pos /\ reg' = reg
        /\ initCount' = initCount /\ libcurl' = libcurl /\ digests' = digests /\ handles' = handles
    BY <1>2 DEF vars
  <2>2. \A l : Counted(l)' = Counted(l)
    BY <2>1 DEF Counted, CountedBy
  <2>3. OneAtATime'
    BY <2>1 DEF SerialInv, OneAtATime
  <2>4. CountsAgree'
    BY <2>1, <2>2 DEF SerialInv, CountsAgree
  <2>5. LibrariesLoaded'
    BY <2>1, <2>2 DEF SerialInv, LibrariesLoaded, Loaded, Loading, Unloading
  <2> QED
    BY <2>3, <2>4, <2>5 DEF SerialInv
<1> QED
  BY <1>1, <1>2

LEMMA SerialInvInit ==
  Init => SerialInv
<1> SUFFICES ASSUME Init PROVE SerialInv
  OBVIOUS
<1>1. \A l : Counted(l) = {}
  BY DEF Init, Counted, CountedBy
<1>2. OneAtATime
  BY DEF Init, OneAtATime
<1>3. CountsAgree
  BY <1>1, FS_EmptySet DEF Init, CountsAgree
<1>4. LibrariesLoaded
  BY <1>1 DEF Init, LibrariesLoaded, Loaded, Loading, Unloading
<1> QED
  BY <1>2, <1>3, <1>4 DEF SerialInv

LEMMA SerialInvHolds ==
  Serialised => (Spec => []SerialInv)
<1>1. SUFFICES ASSUME Serialised PROVE Spec => []SerialInv
  OBVIOUS
<1>2. ContextInv /\ SerialInv /\ [Next]_vars => SerialInv'
  BY <1>1, SerialInvNext
<1> QED
  BY <1>2, SerialInvInit, ContextInvHolds, PTL DEF Spec

\* ReliedOnIsThere of Context, for a program that makes and frees its contexts one at a
\* time: however many contexts it has and whatever their other calls do at the same time,
\* libcurl is initialised while one of its handles lives, the digests are there for each
\* context in use, and what a call casts to a KSI_UriClient is one.
THEOREM SerialisedContextsReady ==
  Serialised => (Spec => []ReliedOnIsThere)
<1>1. SUFFICES ASSUME Serialised PROVE Spec => []ReliedOnIsThere
  OBVIOUS
<1>2. ContextInv /\ SerialInv => ReliedOnIsThere
  <2> SUFFICES ASSUME ContextInv, SerialInv PROVE ReliedOnIsThere
    OBVIOUS
  <2>1. \A c \in Contexts : Usable(c) => digests
    <3> SUFFICES ASSUME NEW c \in Contexts, Usable(c) PROVE digests
      OBVIOUS
    <3>1. op[c] = "none" /\ step[c] = "idle" /\ ctx[c] # None
      BY DEF Usable, Idle, At
    <3>2. c \in Counted("openssl")
      BY <3>1 DEF Counted, CountedBy
    <3>3. ~Loading("openssl")
      <4> SUFFICES ASSUME NEW d \in Contexts, step[d] = "init", lib[d] = "openssl" PROVE FALSE
        BY DEF Loading
      <4>1. Counted("openssl") = {d}
        BY DEF SerialInv, CountsAgree
      <4> QED
        BY <4>1, <3>1, <3>2
    <3> QED
      BY <3>2, <3>3 DEF SerialInv, LibrariesLoaded, Loaded
  <2>2. LibrariesReady
    BY <2>1 DEF LibrariesReady, SerialInv, LibrariesLoaded
  <2>3. CastIsSafe
    <3> SUFFICES ASSUME NEW c \in Contexts, Usable(c), ~ctx[c].custom
                 PROVE  ctx[c].provider # None /\ ctx[c].provider.kind = "uri"
      BY DEF CastIsSafe
    <3>1. LocalInv(c)
      BY InvAt
    <3> QED
      BY <3>1 DEF LocalInv, OwnProvider, Usable, Idle, At
  <2> QED
    BY <2>2, <2>3 DEF ReliedOnIsThere
<1> QED
  BY <1>1, <1>2, ContextInvHolds, SerialInvHolds, PTL

LEMMA BothOnce ==
  IsInjective(Both) /\ Len(Both) = 2
BY DEF Both, IsInjective

\* ResourcesBalanced of Context, for the same programs: between calls both counts are the
\* number of contexts alive, the digests are loaded if there is one, and each libcurl
\* handle has its owner, after any number of contexts made, given up and freed.
THEOREM SerialisedContextsBalanced ==
  Serialised => (Spec => []ResourcesBalanced)
<1>1. SUFFICES ASSUME Serialised PROVE Spec => []ResourcesBalanced
  OBVIOUS
<1>2. ContextInv /\ SerialInv => ResourcesBalanced
  <2> DEFINE alive == {c \in Contexts : ctx[c] # None}
  <2> SUFFICES ASSUME ContextInv, SerialInv, \A c \in Contexts : Idle(c)
               PROVE  /\ \A l \in Libs : initCount[l] = Cardinality(alive)
                      /\ digests <=> alive # {}
                      /\ \A c \in alive : IsInjective(ctx[c].cleanupFns) /\ Len(ctx[c].cleanupFns) = 2
                      /\ handles = Cardinality({c \in alive : ctx[c].provider # None})
                                   + Cardinality({c \in alive : HandlesOf(ctx[c].provider) = 2})
                                   + Cardinality({c \in alive : own[c]})
    BY DEF ResourcesBalanced
  <2>1. \A c \in Contexts : op[c] = "none" /\ step[c] = "idle" /\ LocalInv(c)
    BY InvAt DEF Idle, At
  <2>2. \A l \in Libs : Counted(l) = alive
    BY <2>1 DEF Counted, CountedBy
  <2>3. \A l \in Libs : initCount[l] = Cardinality(alive)
    BY <2>2 DEF SerialInv, CountsAgree
  <2>4. digests <=> alive # {}
    <3>1. ~Loading("openssl") /\ ~Unloading("openssl")
      BY <2>1 DEF Loading, Unloading
    <3>2. Counted("openssl") = alive
      BY <2>2 DEF Libs
    <3> QED
      BY <3>1, <3>2 DEF SerialInv, LibrariesLoaded, Loaded
  <2>5. \A c \in alive : IsInjective(ctx[c].cleanupFns) /\ Len(ctx[c].cleanupFns) = 2
    <3> SUFFICES ASSUME NEW c \in alive PROVE ctx[c].cleanupFns = Both
      BY BothOnce
    <3> QED
      BY <2>1 DEF LocalInv, Idling
  <2>6. Pending = {} /\ Cardinality(Pending) = 0
    BY <2>1, FS_EmptySet DEF Pending
  <2>7. /\ Providing = {c \in alive : ctx[c].provider # None}
        /\ Doubled = {c \in alive : HandlesOf(ctx[c].provider) = 2}
    BY DEF Providing, Doubled
  <2>8. Owning = {c \in alive : own[c]}
    BY <2>1 DEF Owning, LocalInv, Idling
  <2>9. IsFiniteSet(Owning) /\ IsFiniteSet(Providing) /\ IsFiniteSet(Doubled)
    BY FS_Subset, ContextAssumption DEF Owning, Providing, Doubled
  <2>10. Cardinality(Owning) \in Nat /\ Cardinality(Providing) \in Nat /\ Cardinality(Doubled) \in Nat
    BY <2>9, FS_CardinalityType
  <2>11. handles = Cardinality(Providing) + Cardinality(Doubled) + Cardinality(Owning)
    BY <2>6, <2>10 DEF ContextInv, HandlesCounted
  <2> QED
    BY <2>3, <2>4, <2>5, <2>7, <2>8, <2>11
<1> QED
  BY <1>1, <1>2, ContextInvHolds, SerialInvHolds, PTL
=============================================================================
