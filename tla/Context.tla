------------------------------ MODULE Context -------------------------------
(***************************************************************************)
(* The contexts of one process (base.c): their ring of errors, the global  *)
(* libraries they initialise and clean up between them, the network        *)
(* provider they own.  A context is used by one thread; contexts of        *)
(* different threads share the reference counts of net_http_curl.c and     *)
(* pkitruststore_openssl.c, which are plain integers that no lock guards:  *)
(* their ++ and -- are a load and a store.                                 *)
(*                                                                         *)
(* A step is a call on one context, or in KSI_CTX_new and KSI_CTX_free the *)
(* part of the call up to its next access of shared state.                 *)
(* Memory never runs out.                                                  *)
(***************************************************************************)
EXTENDS Integers, Sequences, FiniteSets, Functions

CONSTANTS
  Contexts,    \* the contexts of the process
  Codes,       \* status codes a library call may fail with
  Size,        \* KSI_ERR_STACK_LEN
  MaxErrors,   \* bound: errors pushed to a context without a call that clears them
  CountRange,  \* number of values of a size_t
  Serialised,  \* KSI_CTX_new and KSI_CTX_free are called under a lock of the program
  None

ASSUME ContextAssumption ==
  /\ {"INVALID_ARGUMENT", "CRYPTO_FAILURE"} \subseteq Codes
  /\ Size \in Nat \ {0}
  /\ MaxErrors \in [Contexts -> Nat]
  /\ IsFiniteSet(Contexts) /\ CountRange \in Nat /\ Cardinality(Contexts) < CountRange
  /\ Serialised \in BOOLEAN
  /\ None \notin Codes /\ None \notin {"uri", "other"}

VARIABLES
  ctx,        \* ctx[c]: the KSI_CTX, or None
  own,        \* own[c]: the caller holds a client it made with c
  op,         \* op[c]: the call that is running on c
  step,       \* step[c]: where it is
  lib,        \* lib[c]: the library whose global functions it is at
  pos,        \* pos[c]: globalCleanup's position in cleanupFnList
  reg,        \* reg[c]: the value its thread has loaded from the library's count
  initCount,  \* curlGlobal_initCount, KSI_PKITruststore_global_initCount
  libcurl,    \* libcurl's own count of its initialisations
  digests,    \* OpenSSL's table of digests is loaded
  handles     \* libcurl handles alive in the process

vars == <<ctx, own, op, step, lib, pos, reg, initCount, libcurl, digests, handles>>
thread == <<op, step, lib, pos, reg>>
libraries == <<initCount, libcurl, digests>>

Libs == {"curl", "openssl"}

\* A client and the libcurl handles in it: the client for addresses has an
\* HTTP client, and a second one inside its TCP client once that is made.
Clients == [kind : {"uri", "other"}, handles : 1 .. 2]

Ctxs == [errors : [0 .. Size - 1 -> Codes \cup {None}], count : Nat,
         cleanupFns : Seq(Libs), provider : Clients \cup {None}, custom : BOOLEAN]

\* A pointer that is NULL points to neither.
ASSUME NoneAssumption == None \notin Clients \cup Ctxs

TypeOK ==
  /\ ctx \in [Contexts -> Ctxs \cup {None}]
  /\ own \in [Contexts -> BOOLEAN]
  /\ op \in [Contexts -> {"none", "new", "client", "setUri", "free"}]
  /\ step \in [Contexts -> {"idle", "easyInit", "register", "store", "init", "registered",
                            "cleanup", "release", "unload", "destroy"}]
  /\ lib \in [Contexts -> Libs]
  /\ pos \in [Contexts -> Nat]
  /\ reg \in [Contexts -> Int]
  /\ initCount \in [Libs -> Int]
  /\ libcurl \in Nat /\ digests \in BOOLEAN /\ handles \in Nat

Init ==
  /\ ctx = [c \in Contexts |-> None]
  /\ own = [c \in Contexts |-> FALSE]
  /\ op = [c \in Contexts |-> "none"]
  /\ step = [c \in Contexts |-> "idle"]
  /\ lib = [c \in Contexts |-> "curl"]
  /\ pos = [c \in Contexts |-> 0]
  /\ reg = [c \in Contexts |-> 0]
  /\ initCount = [l \in Libs |-> 0]
  /\ libcurl = 0 /\ digests = FALSE /\ handles = 0

-----------------------------------------------------------------------------
(* The ring of errors of a context x.                                      *)

Cleared(x) == [x EXCEPT !.count = 0]

\* Variant: the count is advanced before the entry is chosen.
PushedBehind(x, code) ==
  [x EXCEPT !.errors[(x.count + 1) % Size] = code, !.count = x.count + 1]

Pushed(x, code) ==
  [x EXCEPT !.errors[x.count % Size] = code, !.count = x.count + 1]

Failed(x, code) == Pushed(Cleared(x), code)

\* What KSI_ERR_statusDump and KSI_LOG_logCtxError print.
StatusDump(x) ==
  [i \in 1 .. (IF x.count < Size THEN x.count ELSE Size) |-> x.errors[(x.count - i) % Size]]

\* What KSI_ERR_getBaseErrorMessage says: the code is that of the first entry also
\* when there are no errors, then left by an earlier trace or never written (None).
BaseError(x) ==
  [code |-> x.errors[0], message |-> IF x.count = 0 THEN None ELSE x.errors[0]]

-----------------------------------------------------------------------------
(* The calls, as threads make their steps.                                 *)

At(c, o, s) == op[c] = o /\ step[c] = s

Goto(c, s) == step' = [step EXCEPT ![c] = s]

Idle(c) == At(c, "none", "idle")

Usable(c) == Idle(c) /\ ctx[c] # None

\* The call is over.
Done(c) ==
  /\ op' = [op EXCEPT ![c] = "none"]
  /\ step' = [step EXCEPT ![c] = "idle"]
  /\ lib' = [lib EXCEPT ![c] = "curl"]
  /\ pos' = [pos EXCEPT ![c] = 0]
  /\ UNCHANGED reg

Call(c, o, s) ==
  /\ op' = [op EXCEPT ![c] = o]
  /\ step' = [step EXCEPT ![c] = s]
  /\ UNCHANGED <<lib, pos, reg>>

\* A program that serialises the life of its contexts.
Alone == Serialised => \A c \in Contexts : op[c] \notin {"new", "free"}

NewContext(c) ==
  /\ Idle(c) /\ ctx[c] = None /\ Alone
  /\ ctx' = [ctx EXCEPT ![c] =
               [errors |-> [i \in 0 .. Size - 1 |-> None], count |-> 0, cleanupFns |-> << >>,
                provider |-> None, custom |-> FALSE]]
  /\ Call(c, "new", "easyInit")
  /\ UNCHANGED <<own, libraries, handles>>

\* KSI_HttpClientImpl_init: curl_easy_init initialises libcurl if nobody has.
EasyInit(c) ==
  /\ step[c] = "easyInit"
  /\ libcurl' = IF libcurl = 0 THEN 1 ELSE libcurl
  /\ handles' = handles + 1
  /\ Goto(c, "register")
  /\ UNCHANGED <<ctx, own, op, lib, pos, reg, initCount, digests>>

\* Variant: the init function is called for every client.
RegisterGlobalsAgain(c) ==
  /\ step[c] = "register"
  /\ Goto(c, "store") /\ reg' = [reg EXCEPT ![c] = initCount[lib[c]]]
  /\ UNCHANGED <<ctx, own, op, lib, pos, libraries, handles>>

\* KSI_CTX_registerGlobals, and the load of the count by the init function.
RegisterGlobals(c) ==
  /\ step[c] = "register"
  /\ IF lib[c] \in Range(ctx[c].cleanupFns)
     THEN Goto(c, "registered") /\ UNCHANGED reg
     ELSE Goto(c, "store") /\ reg' = [reg EXCEPT ![c] = initCount[lib[c]]]
  /\ UNCHANGED <<ctx, own, op, lib, pos, libraries, handles>>

Registered(c) ==
  /\ ctx' = [ctx EXCEPT ![c].cleanupFns = Append(@, lib[c])]
  /\ Goto(c, "registered")

CountUp(c) ==
  /\ step[c] = "store"
  /\ initCount' = [initCount EXCEPT ![lib[c]] =
                     IF lib[c] = "curl" THEN (reg[c] + 1) % CountRange ELSE reg[c] + 1]
  /\ reg' = [reg EXCEPT ![c] = 0]
  /\ IF reg[c] > 0 THEN Registered(c) ELSE Goto(c, "init") /\ UNCHANGED ctx
  /\ UNCHANGED <<own, op, lib, pos, libcurl, digests, handles>>

GlobalInit(c) ==
  /\ step[c] = "init"
  /\ IF lib[c] = "curl" THEN libcurl' = libcurl + 1 /\ UNCHANGED digests
                        ELSE digests' = TRUE /\ UNCHANGED libcurl
  /\ Registered(c)
  /\ UNCHANGED <<own, op, lib, pos, reg, initCount, handles>>

\* KSI_CTX_setNetworkProvider: the old provider goes, with its handles.
Provided(x, client, custom) == [x EXCEPT !.provider = client, !.custom = custom]

HandlesOf(client) == IF client = None THEN 0 ELSE client.handles

\* The caller gives the context a client of its own, or NULL.
Given(c) == {None} \cup IF own[c] THEN {[kind |-> "other", handles |-> 1]} ELSE {}

\* Variant: NULL leaves the pointer to the old provider.
NullKeepsPointer(c) ==
  /\ Usable(c)
  /\ \E client \in Given(c) :
       /\ ctx' = [ctx EXCEPT ![c] = Provided(@, IF client = None THEN @.provider ELSE client, TRUE)]
       /\ own' = [own EXCEPT ![c] = @ /\ client = None]
  /\ handles' = handles - HandlesOf(ctx[c].provider)
  /\ UNCHANGED <<thread, libraries>>

SetNetworkProvider(c) ==
  /\ Usable(c)
  /\ \E client \in Given(c) :
       /\ ctx' = [ctx EXCEPT ![c] = Provided(@, client, TRUE)]
       /\ own' = [own EXCEPT ![c] = @ /\ client = None]
  /\ handles' = handles - HandlesOf(ctx[c].provider)
  /\ UNCHANGED <<thread, libraries>>

\* The HTTP client is made: it becomes the provider of a new context, which
\* goes on with the trust store, ...
FirstProvider(c) ==
  /\ At(c, "new", "registered") /\ lib[c] = "curl"
  /\ ctx' = [ctx EXCEPT ![c] =
               Cleared(Provided(@, [kind |-> "uri", handles |-> 1], FALSE))]
  /\ lib' = [lib EXCEPT ![c] = "openssl"]
  /\ Goto(c, "register")
  /\ UNCHANGED <<own, op, pos, reg, libraries, handles>>

\* ... or the caller gets it, ...
ClientMade(c) ==
  /\ At(c, "client", "registered")
  /\ own' = [own EXCEPT ![c] = TRUE]
  /\ Done(c)
  /\ UNCHANGED <<ctx, libraries, handles>>

\* ... or it is part of the TCP client inside the provider.
TcpClientMade(c) ==
  /\ At(c, "setUri", "registered")
  /\ ctx' = [ctx EXCEPT ![c].provider.handles = @ + 1]
  /\ Done(c)
  /\ UNCHANGED <<own, libraries, handles>>

\* KSI_PKITruststore_new may fail on the default paths of the system; then
\* KSI_CTX_new frees what it has made.
NewTruststore(c) ==
  /\ At(c, "new", "registered") /\ lib[c] = "openssl"
  /\ \/ Done(c) /\ UNCHANGED ctx
     \/ /\ ctx' = [ctx EXCEPT ![c] = Failed(@, "CRYPTO_FAILURE")]
        /\ op' = [op EXCEPT ![c] = "free"]
        /\ Goto(c, "cleanup")
        /\ pos' = [pos EXCEPT ![c] = 1]
        /\ UNCHANGED <<lib, reg>>
  /\ UNCHANGED <<own, libraries, handles>>

\* KSI_CTX_free, "only if there are no other objects created using this object".
FreeContext(c) ==
  /\ Usable(c) /\ ~own[c] /\ Alone
  /\ op' = [op EXCEPT ![c] = "free"]
  /\ Goto(c, "cleanup")
  /\ pos' = [pos EXCEPT ![c] = 1]
  /\ UNCHANGED <<ctx, own, lib, reg, libraries, handles>>

\* globalCleanup, and the load of the count by the cleanup function.
GlobalCleanup(c) ==
  /\ step[c] = "cleanup"
  /\ IF pos[c] \in DOMAIN ctx[c].cleanupFns
     THEN LET l == ctx[c].cleanupFns[pos[c]]
          IN /\ lib' = [lib EXCEPT ![c] = l]
             /\ reg' = [reg EXCEPT ![c] = initCount[l]]
             /\ Goto(c, "release")
     ELSE Goto(c, "destroy") /\ UNCHANGED <<lib, reg>>
  /\ UNCHANGED <<ctx, own, op, pos, libraries, handles>>

\* One count is a size_t, the other an int.
Less(l, n) == IF l = "curl" THEN (n - 1) % CountRange ELSE n - 1

\* Variant: every cleanup of a context cleans up the library.
CountDownToCleanup(c) ==
  /\ step[c] = "release"
  /\ initCount' = [initCount EXCEPT ![lib[c]] = Less(lib[c], reg[c])]
  /\ reg' = [reg EXCEPT ![c] = 0]
  /\ Goto(c, "unload") /\ UNCHANGED pos
  /\ UNCHANGED <<ctx, own, op, lib, libcurl, digests, handles>>

CountDown(c) ==
  /\ step[c] = "release"
  /\ initCount' = [initCount EXCEPT ![lib[c]] = Less(lib[c], reg[c])]
  /\ reg' = [reg EXCEPT ![c] = 0]
  /\ IF Less(lib[c], reg[c]) > 0
     THEN Goto(c, "cleanup") /\ pos' = [pos EXCEPT ![c] = @ + 1]
     ELSE Goto(c, "unload") /\ UNCHANGED pos
  /\ UNCHANGED <<ctx, own, op, lib, libcurl, digests, handles>>

\* curl_global_cleanup, which counts too, and EVP_cleanup.
Unload(c) ==
  /\ step[c] = "unload"
  /\ IF lib[c] = "curl"
     THEN libcurl' = (IF libcurl = 0 THEN 0 ELSE libcurl - 1) /\ UNCHANGED digests
     ELSE digests' = FALSE /\ UNCHANGED libcurl
  /\ Goto(c, "cleanup") /\ pos' = [pos EXCEPT ![c] = @ + 1]
  /\ UNCHANGED <<ctx, own, op, lib, reg, initCount, handles>>

\* The rest of KSI_CTX_free: the provider is freed after the clean-up.
Destroy(c) ==
  /\ step[c] = "destroy"
  /\ handles' = handles - HandlesOf(ctx[c].provider)
  /\ ctx' = [ctx EXCEPT ![c] = None]
  /\ Done(c)
  /\ UNCHANGED <<own, libraries>>

NewClient(c) ==
  /\ Usable(c) /\ ~own[c]
  /\ ctx' = [ctx EXCEPT ![c] = Cleared(@)]
  /\ Call(c, "client", "easyInit")
  /\ UNCHANGED <<own, libraries, handles>>

FreeClient(c) ==
  /\ Usable(c) /\ own[c]
  /\ own' = [own EXCEPT ![c] = FALSE]
  /\ handles' = handles - 1
  /\ UNCHANGED <<ctx, thread, libraries>>

\* KSI_CTX_setUri for the aggregator, the extender or the publications file. The
\* provider is cast to a KSI_UriClient, unless the caller has set it.
SetUri(c) ==
  /\ Usable(c)
  /\ \/ /\ ctx' = [ctx EXCEPT ![c] = Failed(@, "INVALID_ARGUMENT")]
        /\ UNCHANGED thread
     \/ /\ ~ctx[c].custom
        /\ ctx' = [ctx EXCEPT ![c] = Cleared(@)]
        /\ \/ UNCHANGED thread
           \/ ctx[c].provider.handles = 1 /\ Call(c, "setUri", "easyInit")
  /\ UNCHANGED <<own, libraries, handles>>

SetTimeoutSeconds(c) ==
  /\ Usable(c)
  /\ ctx' = [ctx EXCEPT ![c] = IF @.provider = None \/ @.custom
                               THEN Failed(@, "INVALID_ARGUMENT") ELSE Cleared(@)]
  /\ UNCHANGED <<own, thread, libraries, handles>>

\* What every other call of the library does to its context: it clears the errors,
\* and each of its functions the failure passes through pushes one.
ClearErrors(c) ==
  /\ Usable(c)
  /\ ctx' = [ctx EXCEPT ![c] = Cleared(@)]
  /\ UNCHANGED <<own, thread, libraries, handles>>

PushError(c) ==
  /\ Usable(c) /\ ctx[c].count < MaxErrors[c]
  /\ \E code \in Codes : ctx' = [ctx EXCEPT ![c] = Pushed(@, code)]
  /\ UNCHANGED <<own, thread, libraries, handles>>

Next ==
  \E c \in Contexts :
    \/ NewContext(c) \/ EasyInit(c) \/ RegisterGlobals(c) \/ CountUp(c) \/ GlobalInit(c)
    \/ FirstProvider(c) \/ ClientMade(c) \/ TcpClientMade(c) \/ NewTruststore(c)
    \/ FreeContext(c) \/ GlobalCleanup(c) \/ CountDown(c) \/ Unload(c) \/ Destroy(c)
    \/ NewClient(c) \/ FreeClient(c) \/ SetNetworkProvider(c)
    \/ SetUri(c) \/ SetTimeoutSeconds(c) \/ ClearErrors(c) \/ PushError(c)

Spec == Init /\ [][Next]_vars

-----------------------------------------------------------------------------
(* Properties.                                                             *)

\* Clean-up and counting leave the libraries ready for whoever needs them: libcurl
\* is initialised as long as a handle of it lives, also when KSI_CTX_free cleans up
\* before it frees its provider, and the digests are there for every context in use,
\* whichever other contexts were made or freed.
LibrariesReady ==
  /\ handles > 0 => libcurl > 0
  /\ \A c \in Contexts : Usable(c) => digests

\* Between calls the counts are those of the contexts alive, each of which has
\* registered each library once ("The init function will be called only once per KSI
\* context", ksi.h), and every libcurl handle belongs to a provider or to the caller:
\* nothing is left of a context that was freed or that KSI_CTX_new gave up, and no
\* exchange of the provider loses one.
ResourcesBalanced ==
  (\A c \in Contexts : Idle(c)) =>
    LET alive == {c \in Contexts : ctx[c] # None}
    IN /\ \A l \in Libs : initCount[l] = Cardinality(alive)
       /\ digests <=> alive # {}
       /\ \A c \in alive : IsInjective(ctx[c].cleanupFns) /\ Len(ctx[c].cleanupFns) = 2
       /\ handles = Cardinality({c \in alive : ctx[c].provider # None})
                    + Cardinality({c \in alive : HandlesOf(ctx[c].provider) = 2})
                    + Cardinality({c \in alive : own[c]})

\* KSI_CTX_setUri and KSI_CTX_setTimeoutSeconds cast the provider to a KSI_UriClient
\* when isCustomNetProvider is 0: it is one then, whatever was exchanged before.
CastIsSafe ==
  \A c \in Contexts :
    Usable(c) /\ ~ctx[c].custom => ctx[c].provider # None /\ ctx[c].provider.kind = "uri"

\* What a call on a context relies on without a look: the libraries it calls
\* (KSI_CTX_new, KSI_CTX_free) and the kind of its provider (KSI_CTX_setUri).
ReliedOnIsThere == LibrariesReady /\ CastIsSafe

\* What the calls that read the ring say of it.
LogOf(x) == [newest |-> StatusDump(x), total |-> x.count, base |-> BaseError(x)]

NoLog == [newest |-> << >>, total |-> 0, base |-> [code |-> None, message |-> None]]

Log == INSTANCE ErrorLog WITH
  log <- [c \in Contexts |-> IF ctx[c] = None THEN NoLog ELSE LogOf(ctx[c])]

\* The ring keeps what the error log promises: the newest errors since the errors were
\* cleared, the base error until more than Size came, and an entry that an earlier call
\* left behind never shows but in one place: the code of the base error when there are
\* no errors (base.c:752-753), beside the empty message (base.c:755).
ErrorsAreLogged == Log!Spec

\* "For thread safety, this object may not be shared between threads" (ksi.h on
\* KSI_CTX_new): with a context for each thread, a thread that has its context can
\* check a certificate whatever the other threads do.
OwnContextIsEnough == \A c \in Contexts : Usable(c) => digests
=============================================================================
