------------------------------ MODULE PduProofs ------------------------------
(***************************************************************************)
(* Proofs about the two sides of a PDU: Network, which sends it and takes  *)
(* the answer, for every set of handles, addresses and keys; TlvTemplate,  *)
(* which turns it into an object and an object into it, for every set of   *)
(* templates that are shaped as those of the library.  The two have no     *)
(* variable or constant in common.                                         *)
(***************************************************************************)
EXTENDS Network, TlvTemplate, SequenceTheorems, SelectionProofs

-----------------------------------------------------------------------------
(* The network: the inductive invariant.                                   *)

Accounts == [url : Urls, key : Keys] \cup {NoAccount}
AllReplies == [kind : PduKinds \cup {"other"}, from : Urls \cup {PublicationsUrl},
               to : Handles \cup {None}, key : Keys \cup {None}]
Pieces == [reply : AllReplies, whole : BOOLEAN]
Requests == [service : Services \cup {"publications"}, client : Clients,
             url : Urls \cup {PublicationsUrl},
             body : [key : Keys, covered : BOOLEAN] \cup {None},
             raw : Seq(Pieces), response : Seq(Pieces), cut : BOOLEAN]
Results == {"OK", "INVALID_ARGUMENT", "INVALID_FORMAT", "NETWORK_ERROR",
            "SERVICE_ERROR", "HMAC_MISMATCH"}

TypeInv ==
  /\ account \in [Clients -> [Services -> Accounts]]
  /\ chosen \in [Services -> Clients]
  /\ callback \in BOOLEAN
  /\ handles \in [Handles -> Requests \cup {None}]
  /\ curl \in [url : Urls \cup {PublicationsUrl, None}, post : Handles \cup {None},
               into : Handles \cup {None}]
  /\ settings \in 0..MaxSettings
  /\ wanted \in [Services -> Accounts]
  /\ last.res \in Results

\* The reply a request of handle h, with record r, waits for.
Own(h, r, bytes) ==
  /\ Len(bytes) = 1 /\ bytes[1].whole
  /\ bytes[1].reply.from = r.url
  /\ bytes[1].reply.to = IF r.service \in Services THEN h ELSE None

\* What a cut transfer has left begins with a piece that is not whole.
Spoilt(r, bytes) == r.cut /\ ~bytes[1].whole

Sound(h, r) ==
  /\ r.body = None <=> r.service \notin Services
  /\ r.service \notin Services => r.client = "http"
  /\ Len(r.raw) <= MaxPieces
  /\ r.raw = << >> \/ Spoilt(r, r.raw)
  /\ r.response = << >> \/ Spoilt(r, r.response) \/ Own(h, r, r.response)

HandlesSound == \A h \in Handles : handles[h] # None => Sound(h, handles[h])

Inv == TypeInv /\ HandlesSound

-----------------------------------------------------------------------------
(* One transfer.                                                           *)

LEMMA EmptyBytes == << >> \in Seq(Pieces) /\ Len(<< >>) = 0
  OBVIOUS

\* What a transfer for a handle brings: nothing, a whole reply to the request the
\* options name, or the front of one when the connection fails.
LEMMA TransferBrings ==
  ASSUME Inv, NEW h \in Handles, handles[h] # None, NEW t \in Transfers(h)
  PROVE  /\ t.bytes \in Seq(Pieces)
         /\ t.ok \in BOOLEAN
         /\ \/ t.bytes = << >>
            \/ t.ok /\ Own(h, handles[h], t.bytes)
            \/ /\ ~t.ok /\ handles[h].client = "http" /\ Len(handles[h].raw) < MaxPieces
               /\ Len(t.bytes) = 1 /\ ~t.bytes[1].whole
<1> DEFINE r == handles[h]
           url == IF r.client = "http" THEN Options(h).url ELSE r.url
           to == IF r.client = "http" THEN Options(h).post ELSE h
           front == <<Front(Reply("other", url, to, None))>>
<1>1. r \in Requests /\ Sound(h, r)
  BY DEF Inv, TypeInv, HandlesSound
<1>2. url = r.url /\ url \in Urls \cup {PublicationsUrl}
  BY <1>1 DEF Options, Requests
<1>3. to \in Handles \cup {None}
  BY <1>1 DEF Options
<1>4. to = IF r.service \in Services THEN h ELSE None
  BY <1>1 DEF Options, Sound
<1>5. ASSUME NEW x \in Replies(url, to)
      PROVE  x \in AllReplies /\ x.from = url /\ x.to = to
  BY <1>2, <1>3 DEF Replies, Reply, AllReplies, Authenticated, PduKinds
<1>6. Reply("other", url, to, None) \in AllReplies
  BY <1>2, <1>3 DEF Reply, AllReplies
<1>7. CASE \E x \in Replies(url, to) : t = Transfer(<<Whole(x)>>, TRUE)
  <2>1. PICK x \in Replies(url, to) : t = Transfer(<<Whole(x)>>, TRUE)
    BY <1>7
  <2>2. Whole(x) \in Pieces /\ Whole(x).whole /\ Whole(x).reply = x
    BY <1>5 DEF Whole, Pieces
  <2>3. t.bytes = <<Whole(x)>> /\ t.ok = TRUE
    BY <2>1 DEF Transfer
  <2>4. t.bytes \in Seq(Pieces) /\ Len(t.bytes) = 1 /\ t.bytes[1] = Whole(x)
    BY <2>2, <2>3
  <2> QED
    BY <2>2, <2>3, <2>4, <1>2, <1>4, <1>5 DEF Own
<1>8. CASE t = Transfer(<< >>, FALSE) \/ t = Transfer(<< >>, TRUE)
  <2>1. CASE t = Transfer(<< >>, FALSE)
    <3>1. t.bytes = << >> /\ t.ok = FALSE
      BY <2>1 DEF Transfer
    <3> QED
      BY <3>1, EmptyBytes
  <2>2. CASE t = Transfer(<< >>, TRUE)
    <3>1. t.bytes = << >> /\ t.ok = TRUE
      BY <2>2 DEF Transfer
    <3> QED
      BY <3>1, EmptyBytes
  <2> QED
    BY <1>8, <2>1, <2>2
<1>9. CASE r.client = "http" /\ Len(r.raw) < MaxPieces /\ t = Transfer(front, FALSE)
  <2>1. t.bytes = front /\ t.ok = FALSE
    BY <1>9 DEF Transfer
  <2>2. /\ Front(Reply("other", url, to, None)) \in Pieces
        /\ ~Front(Reply("other", url, to, None)).whole
    BY <1>6 DEF Front, Pieces
  <2> QED
    <3>1. Len(front) = 1 /\ front[1] = Front(Reply("other", url, to, None))
      OBVIOUS
    <3>2. front \in Seq(Pieces)
      BY <2>2
    <3> HIDE DEF front, url, to
    <3> QED
      BY <1>9, <2>1, <2>2, <3>1, <3>2
<1>10. \/ \E x \in Replies(url, to) : t = Transfer(<<Whole(x)>>, TRUE)
       \/ t = Transfer(<< >>, FALSE) \/ t = Transfer(<< >>, TRUE)
       \/ r.client = "http" /\ Len(r.raw) < MaxPieces /\ t = Transfer(front, FALSE)
  BY DEF Transfers
<1> QED
  BY <1>7, <1>8, <1>9, <1>10

\* A call that asks a handle for its response changes that handle alone, keeps what it
\* asks for and where, keeps a response that is there, and leaves the handle sound.
LEMMA FetchSound ==
  ASSUME Inv, NEW h \in Handles, handles[h] # None,
         NEW t \in Transfers(h) \cup {Cached}, Fetch(h, t)
  PROVE  /\ handles' \in [Handles -> Requests \cup {None}]
         /\ \A g \in Handles \ {h} : handles'[g] = handles[g]
         /\ handles'[h] \in Requests
         /\ Sound(h, handles'[h])
         /\ \A f \in {"service", "client", "url", "body"} : handles'[h][f] = handles[h][f]
         /\ handles[h].response # << >> => handles'[h].response = handles[h].response
         /\ curl' \in [url : Urls \cup {PublicationsUrl, None}, post : Handles \cup {None},
                        into : Handles \cup {None}]
         /\ t.ok \in BOOLEAN
<1> DEFINE r == handles[h]
<1>1. r \in Requests /\ Sound(h, r) /\ handles \in [Handles -> Requests \cup {None}]
  BY DEF Inv, TypeInv, HandlesSound
<1>2. CASE handles[h].response # << >> /\ t = Cached /\ UNCHANGED <<handles, curl>>
  BY <1>1, <1>2 DEF Inv, TypeInv, Cached, Transfer
<1>3. CASE handles[h].response = << >> /\ t \in Transfers(h) /\ Receive(h, t)
  <2>1. /\ t.bytes \in Seq(Pieces) /\ t.ok \in BOOLEAN
        /\ \/ t.bytes = << >>
           \/ t.ok /\ Own(h, r, t.bytes)
           \/ /\ ~t.ok /\ r.client = "http" /\ Len(r.raw) < MaxPieces
              /\ Len(t.bytes) = 1 /\ ~t.bytes[1].whole
    BY <1>3, TransferBrings
  <2>2. CASE r.client = "http"
    <3> DEFINE all == r.raw \o t.bytes
    <3>1. curl' = Options(h) /\ CurlReceive(h, t.bytes, t.ok) /\ curl'.into = h
      BY <1>3, <2>2 DEF Receive, Options
    <3>2. all \in Seq(Pieces) /\ Len(all) = Len(r.raw) + Len(t.bytes)
          /\ (r.raw # << >> => all[1] = r.raw[1]) /\ (r.raw = << >> => all = t.bytes)
          /\ (t.bytes = << >> => all = r.raw)
      BY <1>1, <2>1 DEF Requests
    <3>3. curl' \in [url : Urls \cup {PublicationsUrl, None}, post : Handles \cup {None},
                     into : Handles \cup {None}]
      BY <1>1, <3>1 DEF Options, Requests
    <3>4. CASE t.ok
      <4>1. handles' = [handles EXCEPT ![h] = [r EXCEPT !.response = all, !.raw = << >>]]
        BY <1>1, <3>1, <3>4 DEF CurlReceive, Requests
      <4>2. handles'[h] = [r EXCEPT !.response = all, !.raw = << >>]
        BY <1>1, <4>1
      <4>3. handles'[h] \in Requests
        BY <1>1, <3>2, <4>2, EmptyBytes DEF Requests
      <4>4. /\ handles'[h].service = r.service /\ handles'[h].client = r.client
            /\ handles'[h].url = r.url /\ handles'[h].body = r.body /\ handles'[h].cut = r.cut
            /\ handles'[h].raw = << >> /\ handles'[h].response = all
        BY <1>1, <4>2 DEF Requests
      <4>5. all = << >> \/ Spoilt(handles'[h], all) \/ Own(h, handles'[h], all)
        BY <1>1, <2>1, <3>2, <3>4, <4>4 DEF Sound, Spoilt, Own
      <4>6. Sound(h, handles'[h])
        BY <1>1, <4>4, <4>5, BoundsAssumption, EmptyBytes DEF Sound
      <4> QED
        BY <1>1, <1>3, <2>1, <3>3, <4>1, <4>3, <4>4, <4>6
    <3>5. CASE ~t.ok
      <4>1. handles' = [handles EXCEPT ![h] = [r EXCEPT !.raw = all, !.cut = @ \/ t.bytes # << >>]]
        BY <1>1, <3>1, <3>5 DEF CurlReceive, Requests
      <4>2. handles'[h] = [r EXCEPT !.raw = all, !.cut = @ \/ t.bytes # << >>]
        BY <1>1, <4>1
      <4>3. handles'[h] \in Requests
        BY <1>1, <3>2, <4>2 DEF Requests
      <4>4. /\ handles'[h].service = r.service /\ handles'[h].client = r.client
            /\ handles'[h].url = r.url /\ handles'[h].body = r.body
            /\ handles'[h].cut = (r.cut \/ t.bytes # << >>)
            /\ handles'[h].raw = all /\ handles'[h].response = r.response
        BY <1>1, <4>2 DEF Requests
      <4>5. all = << >> \/ Spoilt(handles'[h], all)
        BY <1>1, <2>1, <3>2, <3>5, <4>4 DEF Sound, Spoilt
      <4>6. Len(all) <= MaxPieces
        <5>1. Len(r.raw) \in Nat /\ Len(r.raw) <= MaxPieces
          BY <1>1 DEF Sound, Requests
        <5>2. t.bytes = << >> \/ (Len(t.bytes) = 1 /\ Len(r.raw) < MaxPieces)
          BY <2>1, <3>5
        <5>3. CASE t.bytes = << >>
          BY <3>2, <5>1, <5>3
        <5>4. CASE Len(t.bytes) = 1 /\ Len(r.raw) < MaxPieces
          <6>1. Len(all) = Len(r.raw) + 1
            BY <3>2, <5>4
          <6> HIDE DEF all, r
          <6> QED
            BY <5>1, <5>4, <6>1, BoundsAssumption
        <5> QED
          BY <5>2, <5>3, <5>4
      <4>7. Sound(h, handles'[h])
        BY <1>1, <1>3, <4>4, <4>5, <4>6 DEF Sound
      <4> QED
        BY <1>1, <1>3, <2>1, <3>3, <4>1, <4>3, <4>4, <4>7
    <3> QED
      BY <2>1, <3>4, <3>5
  <2>3. CASE r.client # "http"
    <3>1. TcpReceive(h, t.bytes, t.ok) /\ curl' = curl
      BY <1>3, <2>3 DEF Receive
    <3>2. CASE t.ok
      <4>1. handles' = [handles EXCEPT ![h] = [r EXCEPT !.response = t.bytes]]
        BY <1>1, <3>1, <3>2 DEF TcpReceive, Requests
      <4>2. handles'[h] = [r EXCEPT !.response = t.bytes]
        BY <1>1, <4>1
      <4>3. handles'[h] \in Requests
        BY <1>1, <2>1, <4>2 DEF Requests
      <4>4. /\ handles'[h].service = r.service /\ handles'[h].client = r.client
            /\ handles'[h].url = r.url /\ handles'[h].body = r.body /\ handles'[h].cut = r.cut
            /\ handles'[h].raw = r.raw /\ handles'[h].response = t.bytes
        BY <1>1, <4>2 DEF Requests
      <4>5. Sound(h, handles'[h])
        BY <1>1, <2>1, <3>2, <4>4 DEF Sound, Spoilt, Own
      <4> QED
        BY <1>1, <1>3, <2>1, <3>1, <4>1, <4>3, <4>4, <4>5 DEF Inv, TypeInv
    <3>3. CASE ~t.ok
      BY <1>1, <2>1, <3>1, <3>3 DEF TcpReceive, Inv, TypeInv
    <3> QED
      BY <2>1, <3>2, <3>3
  <2> QED
    BY <2>2, <2>3
<1> QED
  BY <1>2, <1>3 DEF Fetch

-----------------------------------------------------------------------------
(* Every step keeps the invariant.                                         *)

LEMMA InitInv == Init => Inv
<1> SUFFICES ASSUME Init PROVE Inv
  OBVIOUS
<1>1. /\ account \in [Clients -> [Services -> Accounts]] /\ chosen \in [Services -> Clients]
      /\ wanted \in [Services -> Accounts]
  BY DEF Init, Accounts, Clients
<1>2. handles = [h \in Handles |-> None] /\ handles \in [Handles -> Requests \cup {None}]
  BY DEF Init
<1>3. curl \in [url : Urls \cup {PublicationsUrl, None}, post : Handles \cup {None},
                into : Handles \cup {None}]
  BY DEF Init
<1>4. callback \in BOOLEAN
  BY DEF Init
<1>5. settings \in 0..MaxSettings
  BY BoundsAssumption DEF Init
<1>6. last.res \in Results
  BY DEF Init, Call, Results
<1> QED
  BY <1>1, <1>2, <1>3, <1>4, <1>5, <1>6 DEF Inv, TypeInv, HandlesSound

LEMMA SetServiceInv ==
  ASSUME Inv, NEW s \in Services, NEW url \in Urls, NEW key \in Keys, SetService(s, url, key)
  PROVE  Inv'
<1>1. Account(url, key) \in Accounts /\ ClientOf(url) \in Clients
  BY DEF Account, Accounts, ClientOf, Clients
<1>2. account' \in [Clients -> [Services -> Accounts]]
  <2>1. \/ account' = account
        \/ account' = [account EXCEPT ![ClientOf(url)] =
                         [account[ClientOf(url)] EXCEPT ![s] = Account(url, key)]]
    BY DEF SetService
  <2>2. [account[ClientOf(url)] EXCEPT ![s] = Account(url, key)] \in [Services -> Accounts]
    BY <1>1 DEF Inv, TypeInv
  <2> QED
    BY <1>1, <2>1, <2>2 DEF Inv, TypeInv
<1>3. chosen' \in [Services -> Clients]
  BY <1>1 DEF Inv, TypeInv, SetService, Choose
<1>4. settings' \in 0..MaxSettings /\ wanted' \in [Services -> Accounts]
  BY <1>1, BoundsAssumption DEF Inv, TypeInv, SetService
<1>5. last'.res \in Results
  BY DEF SetService, Call, Results
<1>6. callback' = callback /\ handles' = handles /\ curl' = curl
  BY DEF SetService
<1> QED
  BY <1>2, <1>3, <1>4, <1>5, <1>6 DEF Inv, TypeInv, HandlesSound

LEMMA SetRequestHeaderCallbackInv ==
  ASSUME Inv, NEW on \in BOOLEAN, SetRequestHeaderCallback(on)
  PROVE  Inv'
<1>1. settings' \in 0..MaxSettings
  BY BoundsAssumption DEF Inv, TypeInv, SetRequestHeaderCallback
<1>2. last'.res \in Results
  BY DEF SetRequestHeaderCallback, Call, Results
<1> QED
  BY <1>1, <1>2 DEF Inv, TypeInv, HandlesSound, SetRequestHeaderCallback

\* A fresh request.
LEMMA NewHandleSound ==
  ASSUME NEW h \in Handles, NEW s \in Services \cup {"publications"}, NEW c \in Clients,
         NEW url \in Urls \cup {PublicationsUrl},
         NEW body \in [key : Keys, covered : BOOLEAN] \cup {None},
         body = None <=> s \notin Services, s \notin Services => c = "http"
  PROVE  NewHandle(s, c, url, body) \in Requests /\ Sound(h, NewHandle(s, c, url, body))
<1>1. NewHandle(s, c, url, body) \in Requests
  BY EmptyBytes DEF NewHandle, Requests
<1>2. Sound(h, NewHandle(s, c, url, body))
  BY EmptyBytes, BoundsAssumption DEF NewHandle, Sound
<1> QED
  BY <1>1, <1>2

LEMMA SendInv ==
  ASSUME Inv, NEW s \in Services, NEW h \in Handles, Send(s, h)
  PROVE  Inv'
<1> DEFINE a == account[chosen[s]][s]
           body == IF s = "extender" THEN EncloseExtendReq(a.key)
                   ELSE EncloseAggregationReq(a.key)
<1>1. a \in Accounts /\ chosen[s] \in Clients
  BY DEF Inv, TypeInv
<1>2. CASE a = NoAccount
  BY <1>2 DEF Inv, TypeInv, HandlesSound, Send, Call, Results
<1>3. CASE a # NoAccount
  <2>1. a.url \in Urls /\ a.key \in Keys
    BY <1>1, <1>3 DEF Accounts
  <2>2. body \in [key : Keys, covered : BOOLEAN]
    BY <2>1 DEF EncloseExtendReq, EncloseAggregationReq, Inv, TypeInv
  <2>3. body # None
    BY <2>2, NoneAssumption
  <2>4. handles' = [handles EXCEPT ![h] = NewHandle(s, chosen[s], a.url, body)]
    BY <1>1, <1>3 DEF Send, HttpHandle, TcpHandle, Clients
  <2>5. /\ NewHandle(s, chosen[s], a.url, body) \in Requests
        /\ Sound(h, NewHandle(s, chosen[s], a.url, body))
    BY <1>1, <2>1, <2>2, <2>3, NewHandleSound
  <2>6. last'.res \in Results
    BY <1>3 DEF Send, Call, Results
  <2>7. UNCHANGED <<account, chosen, callback, curl, settings, wanted>>
    BY DEF Send
  <2>8. TypeInv'
    BY <2>4, <2>5, <2>6, <2>7 DEF Inv, TypeInv
  <2>9. HandlesSound'
    BY <2>4, <2>5 DEF Inv, TypeInv, HandlesSound
  <2> QED
    BY <2>8, <2>9 DEF Inv
<1> QED
  BY <1>2, <1>3

LEMMA SendPublicationRequestInv ==
  ASSUME Inv, NEW h \in Handles, SendPublicationRequest(h)
  PROVE  Inv'
<1> DEFINE r == NewHandle("publications", "http", PublicationsUrl, None)
<1>1. r \in Requests /\ Sound(h, r)
  BY NewHandleSound DEF Services, Clients
<1>2. handles' = [handles EXCEPT ![h] = r]
  BY DEF SendPublicationRequest, HttpHandle
<1>3. last'.res \in Results
  BY DEF SendPublicationRequest, Call, Results
<1>4. UNCHANGED <<account, chosen, callback, curl, settings, wanted>>
  BY DEF SendPublicationRequest
<1> HIDE DEF r
<1>5. TypeInv'
  BY <1>1, <1>2, <1>3, <1>4 DEF Inv, TypeInv
<1>6. HandlesSound'
  BY <1>1, <1>2 DEF Inv, TypeInv, HandlesSound
<1> QED
  BY <1>5, <1>6 DEF Inv

LEMMA FreeHandleInv ==
  ASSUME Inv, NEW h \in Handles, FreeHandle(h)
  PROVE  Inv'
<1>1. handles' = [handles EXCEPT ![h] = None] /\ handles' \in [Handles -> Requests \cup {None}]
  BY DEF FreeHandle, Inv, TypeInv
<1>2. curl' \in [url : Urls \cup {PublicationsUrl, None}, post : Handles \cup {None},
                 into : Handles \cup {None}]
  BY DEF FreeHandle, Inv, TypeInv
<1>3. last'.res \in Results
  BY DEF FreeHandle, Call, Results
<1>4. TypeInv'
  BY <1>1, <1>2, <1>3 DEF FreeHandle, Inv, TypeInv
<1>5. HandlesSound'
  BY <1>1 DEF Inv, TypeInv, HandlesSound
<1> QED
  BY <1>4, <1>5 DEF Inv

\* The results of Judge, and when it hands out an answer.
LEMMA JudgeResults ==
  ASSUME NEW bytes \in Seq(Pieces), NEW key
  PROVE  /\ Judge(bytes, key).res \in Results
         /\ Judge(bytes, key).given # None =>
              /\ IsPdu(bytes)
              /\ Judge(bytes, key).given = bytes[1].reply
              /\ bytes[1].reply.key = key
<1>1. CASE ~IsPdu(bytes)
  BY <1>1 DEF Judge, Results
<1>2. CASE IsPdu(bytes) /\ bytes[1].reply.kind = "error"
  BY <1>2 DEF Judge, Results, Authenticated
<1>3. CASE IsPdu(bytes) /\ bytes[1].reply.kind = "error_status_0"
  BY <1>3 DEF Judge, Results, Authenticated
<1>4. CASE IsPdu(bytes) /\ bytes[1].reply.kind \in Authenticated
  <2>1. bytes[1].reply.kind \notin {"error", "error_status_0"}
    BY <1>4 DEF Authenticated
  <2> QED
    BY <1>4, <2>1 DEF Judge, Results
<1> QED
  BY <1>1, <1>2, <1>3, <1>4 DEF IsPdu, PduKinds

LEMMA GetResponseInv ==
  ASSUME Inv, NEW h \in Handles, GetResponse(h)
  PROVE  Inv'
<1>1. PICK t \in Transfers(h) \cup {Cached} :
        /\ Fetch(h, t)
        /\ last' = Call("getResponse", h, IF t.ok THEN "OK" ELSE "NETWORK_ERROR", None)
  BY DEF GetResponse
<1>2. handles[h] # None /\ UNCHANGED <<account, chosen, callback, settings, wanted>>
  BY DEF GetResponse
<1>3. last'.res \in Results
  BY <1>1 DEF Call, Results
<1>4. TypeInv'
  BY <1>1, <1>2, <1>3, FetchSound DEF Inv, TypeInv
<1>5. HandlesSound'
  BY <1>1, <1>2, FetchSound DEF Inv, HandlesSound
<1> QED
  BY <1>4, <1>5 DEF Inv

LEMMA GetServiceResponseInv ==
  ASSUME Inv, NEW h \in Handles, GetServiceResponse(h)
  PROVE  Inv'
<1> DEFINE out == Judge(handles'[h].response, AnswerKey(h))
<1>1. PICK t \in Transfers(h) \cup {Cached} :
        /\ Fetch(h, t)
        /\ last' = IF t.ok THEN Call("getServiceResponse", h, out.res, out.given)
                   ELSE Call("getServiceResponse", h, "NETWORK_ERROR", None)
  BY DEF GetServiceResponse
<1>2. handles[h] # None /\ UNCHANGED <<account, chosen, callback, settings, wanted>>
  BY DEF GetServiceResponse
<1>3. out.res \in Results
  BY <1>1, <1>2, FetchSound, JudgeResults DEF Requests
<1>4. last'.res \in Results
  <2> HIDE DEF out
  <2> QED
    BY <1>1, <1>3 DEF Call, Results
<1>5. TypeInv'
  BY <1>1, <1>2, <1>4, FetchSound DEF Inv, TypeInv
<1>6. HandlesSound'
  BY <1>1, <1>2, FetchSound DEF Inv, HandlesSound
<1> QED
  BY <1>5, <1>6 DEF Inv

LEMMA NextInv ==
  ASSUME Inv, [Next]_vars
  PROVE  Inv'
<1>1. CASE UNCHANGED vars
  BY <1>1 DEF vars, Inv, TypeInv, HandlesSound
<1>2. CASE \E s \in Services, url \in Urls, key \in Keys : SetService(s, url, key)
  BY <1>2, SetServiceInv
<1>3. CASE \E on \in BOOLEAN : SetRequestHeaderCallback(on)
  BY <1>3, SetRequestHeaderCallbackInv
<1>4. CASE \E h \in Handles, s \in Services : Send(s, h)
  BY <1>4, SendInv
<1>5. CASE \E h \in Handles : SendPublicationRequest(h)
  BY <1>5, SendPublicationRequestInv
<1>6. CASE \E h \in Handles : GetResponse(h)
  BY <1>6, GetResponseInv
<1>7. CASE \E h \in Handles : GetServiceResponse(h)
  BY <1>7, GetServiceResponseInv
<1>8. CASE \E h \in Handles : FreeHandle(h)
  BY <1>8, FreeHandleInv
<1> QED
  BY <1>1, <1>2, <1>3, <1>4, <1>5, <1>6, <1>7, <1>8 DEF Next

THEOREM InvariantHolds == Spec => []Inv
<1>1. Init => Inv
  BY InitInv
<1>2. Inv /\ [Next]_vars => Inv'
  BY NextInv
<1> QED
  BY <1>1, <1>2, PTL DEF Spec

-----------------------------------------------------------------------------
(* What follows from it.                                                   *)

\* Types: every variable of the client stays within its type in every behaviour.
THEOREM TypeCorrect == Spec => []TypeOK
<1>1. Inv => TypeOK
  <2> SUFFICES ASSUME Inv PROVE TypeOK
    OBVIOUS
  <2>1. \A c \in Clients, s \in Services :
          account[c][s] = NoAccount \/ (account[c][s].url \in Urls /\ account[c][s].key \in Keys)
    BY DEF Inv, TypeInv, Accounts
  <2>2. ASSUME NEW h \in Handles, handles[h] # None
        PROVE  /\ handles[h].service \in Services \cup {"publications"}
               /\ handles[h].client \in Clients
               /\ Len(handles[h].raw) <= MaxPieces + 1
    <3>1. handles[h] \in Requests /\ Len(handles[h].raw) <= MaxPieces
      BY <2>2 DEF Inv, TypeInv, HandlesSound, Sound
    <3>2. Len(handles[h].raw) \in Nat
      BY <3>1 DEF Requests
    <3>3. Len(handles[h].raw) <= MaxPieces + 1
      BY <3>1, <3>2, BoundsAssumption
    <3> QED
      BY <3>1, <3>3 DEF Requests
  <2> QED
    BY <2>1, <2>2 DEF Inv, TypeInv, TypeOK, Results
<1> QED
  BY <1>1, InvariantHolds, PTL

\* Responses: in every behaviour the response a handle keeps is one whole reply to its
\* own request, unless a transfer for it was cut.
THEOREM ResponsesAreWhole == Spec => []ResponseIsWhole
<1>1. Inv => ResponseIsWhole
  BY DEF Inv, HandlesSound, Sound, Spoilt, Own, ResponseIsWhole
<1> QED
  BY <1>1, InvariantHolds, PTL

\* Responses are never replaced, whichever handles share the libcurl handle.
THEOREM ResponsesAreKept == Spec => ResponseKept
<1>1. ASSUME Inv, [Next]_vars, NEW g \in Handles,
             handles[g] # None, handles'[g] # None, handles[g].response # << >>
      PROVE  handles'[g].response = handles[g].response
  <2>1. CASE handles' = handles
    BY <2>1
  <2>2. CASE \E h \in Handles : (handles[h] = None \/ handles'[h] = None)
                              /\ \A x \in Handles \ {h} : handles'[x] = handles[x]
    BY <1>1, <2>2
  <2>3. CASE \E h \in Handles : GetResponse(h) \/ GetServiceResponse(h)
    <3>1. PICK h \in Handles : GetResponse(h) \/ GetServiceResponse(h)
      BY <2>3
    <3>2. PICK t \in Transfers(h) \cup {Cached} : handles[h] # None /\ Fetch(h, t)
      BY <3>1 DEF GetResponse, GetServiceResponse
    <3> QED
      BY <1>1, <3>2, FetchSound
  <2>4. ASSUME NEW s \in Services, NEW h \in Handles, Send(s, h)
        PROVE  handles' = handles \/ (handles[h] = None
                                      /\ \A x \in Handles \ {h} : handles'[x] = handles[x])
    BY <1>1, <2>4 DEF Send, Inv, TypeInv
  <2>5. ASSUME NEW h \in Handles, SendPublicationRequest(h)
        PROVE  handles[h] = None /\ \A x \in Handles \ {h} : handles'[x] = handles[x]
    BY <1>1, <2>5 DEF SendPublicationRequest, Inv, TypeInv
  <2>6. ASSUME NEW h \in Handles, FreeHandle(h)
        PROVE  handles'[h] = None /\ \A x \in Handles \ {h} : handles'[x] = handles[x]
    BY <1>1, <2>6 DEF FreeHandle, Inv, TypeInv
  <2>7. ASSUME NEW s \in Services, NEW url \in Urls, NEW key \in Keys, SetService(s, url, key)
        PROVE  handles' = handles
    BY <2>7 DEF SetService
  <2>8. ASSUME NEW on \in BOOLEAN, SetRequestHeaderCallback(on)
        PROVE  handles' = handles
    BY <2>8 DEF SetRequestHeaderCallback
  <2> QED
    BY <1>1, <2>1, <2>2, <2>3, <2>4, <2>5, <2>6, <2>7, <2>8 DEF Next, vars
<1>2. Inv /\ [Next]_vars =>
        [\A h \in Handles :
           handles[h] # None /\ handles'[h] # None /\ handles[h].response # << >>
             => handles'[h].response = handles[h].response]_vars
  BY <1>1
<1> QED
  BY <1>2, InvariantHolds, PTL DEF Spec, ResponseKept

\* Answers: in every behaviour an answer handed out is that to the handle's own request,
\* from the address it was sent to, under the key of that account.  A response that a
\* cut transfer spoilt is no PDU, so no answer is read from it.
THEOREM AnswersAreOwn == Spec => []AnswerIsOwn
<1>1. Init => AnswerIsOwn
  BY DEF Init, Call, AnswerIsOwn
<1>2. ASSUME Inv, AnswerIsOwn, [Next]_vars PROVE AnswerIsOwn'
  <2>1. CASE UNCHANGED vars
    BY <1>2, <2>1 DEF vars, AnswerIsOwn, Asked, AnswerKey
  <2>2. CASE last'.given = None
    BY <2>2 DEF AnswerIsOwn
  <2>3. CASE \E h \in Handles : GetServiceResponse(h)
    <3>1. PICK h \in Handles : GetServiceResponse(h)
      BY <2>3
    <3> DEFINE out == Judge(handles'[h].response, AnswerKey(h))
    <3>2. PICK t \in Transfers(h) \cup {Cached} :
            /\ Fetch(h, t)
            /\ last' = IF t.ok THEN Call("getServiceResponse", h, out.res, out.given)
                       ELSE Call("getServiceResponse", h, "NETWORK_ERROR", None)
      BY <3>1 DEF GetServiceResponse
    <3>3. /\ handles[h] # None /\ handles[h].service \in Services
          /\ account' = account
      BY <3>1 DEF GetServiceResponse
    <3>4. /\ handles'[h] \in Requests /\ Sound(h, handles'[h])
          /\ handles'[h].service = handles[h].service /\ handles'[h].client = handles[h].client
      BY <1>2, <3>2, <3>3, FetchSound
    <3>5. handles'[h].response \in Seq(Pieces)
      BY <3>4 DEF Requests
    <3>6. CASE t.ok /\ out.given # None
      <4>1. /\ last'.handle = h /\ last'.given = out.given
        <5> HIDE DEF out
        <5> QED
          BY <3>2, <3>6 DEF Call
      <4>2. /\ IsPdu(handles'[h].response) /\ out.given = handles'[h].response[1].reply
            /\ out.given.key = AnswerKey(h)
        BY <3>5, <3>6, JudgeResults
      <4>3. Own(h, handles'[h], handles'[h].response)
        BY <3>4, <4>2 DEF Sound, Spoilt, IsPdu
      <4>4. AnswerKey(h)' = AnswerKey(h)
        BY <3>3, <3>4 DEF AnswerKey
      <4>5. out.given.from = handles'[h].url /\ out.given.to = h
        BY <3>3, <3>4, <4>2, <4>3 DEF Own
      <4> HIDE DEF out
      <4>6. (last'.given).to = last'.handle /\ (last'.given).from = handles'[last'.handle].url
        BY <4>1, <4>5
      <4>7. (last'.given).key = AnswerKey(last.handle)'
        BY <3>3, <4>1, <4>2, <4>4 DEF AnswerKey
      <4> QED
        BY <4>6, <4>7 DEF AnswerIsOwn, Asked
    <3>7. CASE ~(t.ok /\ out.given # None)
      <4> HIDE DEF out
      <4> QED
        BY <2>2, <3>2, <3>7 DEF Call
    <3> QED
      BY <3>6, <3>7
  <2>4. ASSUME NEW s \in Services, NEW h \in Handles, Send(s, h)
        PROVE  last'.given = None
    BY <2>4 DEF Send, Call
  <2>5. ASSUME NEW h \in Handles,
               SendPublicationRequest(h) \/ FreeHandle(h) \/ GetResponse(h)
        PROVE  last'.given = None
    BY <2>5 DEF SendPublicationRequest, FreeHandle, GetResponse, Call
  <2>6. ASSUME NEW s \in Services, NEW url \in Urls, NEW key \in Keys, SetService(s, url, key)
        PROVE  last'.given = None
    BY <2>6 DEF SetService, Call
  <2>7. ASSUME NEW on \in BOOLEAN, SetRequestHeaderCallback(on)
        PROVE  last'.given = None
    BY <2>7 DEF SetRequestHeaderCallback, Call
  <2> QED
    BY <1>2, <2>1, <2>2, <2>3, <2>4, <2>5, <2>6, <2>7 DEF Next
<1> QED
  BY <1>1, <1>2, InvariantHolds, PTL DEF Spec

\* Routing: in every behaviour both services are reached as the last successful setter of
\* each asked, whatever the other setters did in between.
THEOREM RoutingCorrect == Spec => []RoutedAsWanted
<1>1. Init => RoutedAsWanted
  BY DEF Init, RoutedAsWanted
<1>2. ASSUME Inv, RoutedAsWanted, [Next]_vars PROVE RoutedAsWanted'
  <2>1. CASE UNCHANGED <<account, chosen, wanted>>
    BY <1>2, <2>1 DEF RoutedAsWanted
  <2>2. ASSUME NEW s \in Services, NEW url \in Urls, NEW key \in Keys, SetService(s, url, key)
        PROVE  RoutedAsWanted'
    <3>1. CASE url \in BadUrls
      BY <1>2, <2>1, <2>2, <3>1 DEF SetService
    <3>2. CASE url \notin BadUrls
      <4> DEFINE c == ClientOf(url)
                 a == Account(url, key)
      <4>1. /\ account' = [account EXCEPT ![c] = [account[c] EXCEPT ![s] = a]]
            /\ chosen' = [chosen EXCEPT ![s] = c]
            /\ wanted' = [wanted EXCEPT ![s] = a]
        BY <2>2, <3>2 DEF SetService, Choose
      <4>2. c \in Clients
        BY DEF ClientOf, Clients
      <4>3. ASSUME NEW x \in Services
            PROVE  /\ chosen'[x] = IF x = s THEN c ELSE chosen[x]
                   /\ x # s => account'[chosen[x]][x] = account[chosen[x]][x]
                   /\ x = s => account'[c][x] = a
        BY <1>2, <4>1, <4>2 DEF Inv, TypeInv
      <4>4. \A x \in Services : wanted'[x] = IF x = s THEN a ELSE wanted[x]
        BY <1>2, <4>1 DEF Inv, TypeInv
      <4> QED
        BY <1>2, <4>3, <4>4 DEF RoutedAsWanted
    <3> QED
      BY <3>1, <3>2
  <2>3. ASSUME NEW on \in BOOLEAN, SetRequestHeaderCallback(on)
        PROVE  UNCHANGED <<account, chosen, wanted>>
    BY <2>3 DEF SetRequestHeaderCallback
  <2>4. ASSUME NEW s \in Services, NEW h \in Handles, Send(s, h)
        PROVE  UNCHANGED <<account, chosen, wanted>>
    BY <2>4 DEF Send
  <2>5. ASSUME NEW h \in Handles, SendPublicationRequest(h) \/ FreeHandle(h)
                                 \/ GetResponse(h) \/ GetServiceResponse(h)
        PROVE  UNCHANGED <<account, chosen, wanted>>
    BY <2>5 DEF SendPublicationRequest, FreeHandle, GetResponse, GetServiceResponse
  <2> QED
    BY <1>2, <2>1, <2>2, <2>3, <2>4, <2>5 DEF Next, vars
<1> QED
  BY <1>1, <1>2, InvariantHolds, PTL DEF Spec
\* An answer under the right key is handed out.
LEMMA JudgeAccepts ==
  ASSUME NEW bytes \in Seq(Pieces), NEW key, IsPdu(bytes),
         bytes[1].reply.kind = "answer", bytes[1].reply.key = key
  PROVE  Judge(bytes, key).res = "OK" /\ Judge(bytes, key).given = bytes[1].reply
<1>1. /\ bytes[1].reply.kind \in Authenticated
      /\ bytes[1].reply.kind # "error" /\ bytes[1].reply.kind # "error_status_0"
  BY DEF Authenticated
<1> QED
  BY <1>1 DEF Judge

\* Accepting: in every behaviour an authentic answer to the request is handed out unless
\* the account was changed after sending, whichever handles were asked in between.
THEOREM GoodAnswersAccepted == Spec => []GoodAnswerAccepted
<1>1. Init => GoodAnswerAccepted
  BY DEF Init, Call, GoodAnswerAccepted
<1>2. ASSUME Inv, GoodAnswerAccepted, [Next]_vars PROVE GoodAnswerAccepted'
  <2>1. CASE UNCHANGED vars
    BY <1>2, <2>1 DEF vars, GoodAnswerAccepted, Asked, IsPdu
  <2>2. CASE last'.op # "getServiceResponse" \/ last'.res = "NETWORK_ERROR"
    BY <2>2 DEF GoodAnswerAccepted
  <2>3. CASE \E h \in Handles : GetServiceResponse(h)
    <3>1. PICK h \in Handles : GetServiceResponse(h)
      BY <2>3
    <3> DEFINE out == Judge(handles'[h].response, AnswerKey(h))
               r == handles'[h]
    <3>2. PICK t \in Transfers(h) \cup {Cached} :
            /\ Fetch(h, t)
            /\ last' = IF t.ok THEN Call("getServiceResponse", h, out.res, out.given)
                       ELSE Call("getServiceResponse", h, "NETWORK_ERROR", None)
      BY <3>1 DEF GetServiceResponse
    <3>3. handles[h] # None /\ account' = account
      BY <3>1 DEF GetServiceResponse
    <3>4. r \in Requests /\ r.service = handles[h].service /\ r.client = handles[h].client
      BY <1>2, <3>2, <3>3, FetchSound
    <3>5. r.response \in Seq(Pieces) /\ AnswerKey(h) = account'[r.client][r.service].key
      BY <3>3, <3>4 DEF Requests, AnswerKey
    <3>6. CASE ~t.ok
      <4> HIDE DEF out
      <4> QED
        BY <2>2, <3>2, <3>6 DEF Call
    <3>7. CASE t.ok
      <4>1. last'.handle = h /\ last'.res = out.res /\ last'.given = out.given
        <5> HIDE DEF out
        <5> QED
          BY <3>2, <3>7 DEF Call
      <4>2. SUFFICES ASSUME IsPdu(r.response), r.response[1].reply.kind = "answer",
                            r.response[1].reply.key = r.body.key,
                            account'[r.client][r.service].key = r.body.key
                     PROVE  out.res = "OK" /\ out.given = r.response[1].reply
        <5> HIDE DEF out
        <5> QED
          BY <4>1 DEF GoodAnswerAccepted, Asked, IsPdu
      <4> QED
        BY <3>5, <4>2, JudgeAccepts
    <3> QED
      BY <3>6, <3>7
  <2>4. ASSUME NEW s \in Services, NEW h \in Handles, Send(s, h)
        PROVE  last'.op # "getServiceResponse"
    BY <2>4 DEF Send, Call
  <2>5. ASSUME NEW h \in Handles,
               SendPublicationRequest(h) \/ FreeHandle(h) \/ GetResponse(h)
        PROVE  last'.op # "getServiceResponse"
    BY <2>5 DEF SendPublicationRequest, FreeHandle, GetResponse, Call
  <2>6. ASSUME NEW s \in Services, NEW url \in Urls, NEW key \in Keys, SetService(s, url, key)
        PROVE  last'.op # "getServiceResponse"
    BY <2>6 DEF SetService, Call
  <2>7. ASSUME NEW on \in BOOLEAN, SetRequestHeaderCallback(on)
        PROVE  last'.op # "getServiceResponse"
    BY <2>7 DEF SetRequestHeaderCallback, Call
  <2> QED
    BY <1>2, <2>1, <2>2, <2>3, <2>4, <2>5, <2>6, <2>7 DEF Next
<1> QED
  BY <1>1, <1>2, InvariantHolds, PTL DEF Spec

-----------------------------------------------------------------------------
(* The template engine: templates.                                         *)

Objects == Seq(Values) \cup {Null}
TlvElements == [tag : Tags, nonCritical : BOOLEAN, val : Nat \cup {Bad}]

\* The elements of a field, and the value of an element.
Of(f) == {e \in TlvElements : e.tag \in TagsOf(f)}
ValueOf(e) == [tag |-> e.tag, val |-> e.val]
Contents(es) == [k \in 1 .. Len(es) |-> ValueOf(es[k])]

LEMMA TemplateIs ==
  ASSUME tmpl \in Templates
  PROVE  /\ Len(tmpl) \in Nat /\ DOMAIN tmpl = 1 .. Len(tmpl)
         /\ \A i \in DOMAIN tmpl : tmpl[i].field \in Fields(tmpl) /\ tmpl[i].tag \in Tags
         /\ \A f \in Fields(tmpl) : \E i \in DOMAIN tmpl : tmpl[i].field = f
         /\ \A f \in Fields(tmpl) : \E i \in DOMAIN tmpl :
              tmpl[i].field = f /\ ~Is(tmpl[i], "no_serialize")
<1>1. WellShaped(tmpl)
  BY TemplatesAssumption
<1>2. Len(tmpl) \in Nat /\ DOMAIN tmpl = 1 .. Len(tmpl)
      /\ \A i \in DOMAIN tmpl : \E j \in DOMAIN tmpl :
           tmpl[j].field = tmpl[i].field /\ ~Is(tmpl[j], "no_serialize")
  BY <1>1 DEF WellShaped
<1>3. \A i \in DOMAIN tmpl : tmpl[i].field \in Fields(tmpl) /\ tmpl[i].tag \in Tags
  BY DEF Fields, Tags
<1>4. \A f \in Fields(tmpl) : \E i \in DOMAIN tmpl : tmpl[i].field = f
  BY DEF Fields
<1> QED
  BY <1>2, <1>3, <1>4

\* No two slots have a tag, so a tag belongs to one field only.
LEMMA TagsTell ==
  ASSUME tmpl \in Templates
  PROVE  /\ \A i, j \in DOMAIN tmpl : tmpl[i].tag = tmpl[j].tag => i = j
         /\ \A f : \A i \in DOMAIN tmpl : tmpl[i].tag \in TagsOf(f) <=> tmpl[i].field = f
<1>1. \A i, j \in DOMAIN tmpl : i # j => tmpl[i].tag # tmpl[j].tag
  BY TemplatesAssumption DEF WellShaped
<1>2. ASSUME NEW i \in DOMAIN tmpl, NEW f PROVE tmpl[i].tag \in TagsOf(f) <=> tmpl[i].field = f
  <2>1. tmpl[i].tag \in TagsOf(f) <=>
          \E j \in DOMAIN tmpl : tmpl[j].field = f /\ tmpl[j].tag = tmpl[i].tag
    BY DEF TagsOf
  <2> QED
    BY <1>1, <2>1
<1> QED
  BY <1>1, <1>2

\* Slots that share a field.
LEMMA Sharing ==
  ASSUME tmpl \in Templates, NEW i \in DOMAIN tmpl, NEW j \in DOMAIN tmpl,
         tmpl[i].field = tmpl[j].field
  PROVE  /\ Is(tmpl[i], "mandatory") \/ Is(tmpl[i], "most_one") \/ ~Is(tmpl[i], "list") => i = j
         /\ Is(tmpl[i], "least_one") => Is(tmpl[j], "least_one")
         /\ ~Is(tmpl[i], "no_serialize") /\ ~Is(tmpl[j], "no_serialize") => i = j
         /\ Single(tmpl[i].field) <=> ~Is(tmpl[i], "list")
         /\ Is(tmpl[i], "most_one") => ~Is(tmpl[i], "list")
<1>1. \A k, l \in DOMAIN tmpl : k # l => (tmpl[k].field = tmpl[l].field =>
        /\ Is(tmpl[k], "list") /\ ~Is(tmpl[k], "mandatory") /\ ~Is(tmpl[k], "most_one")
        /\ Is(tmpl[k], "least_one") => Is(tmpl[l], "least_one")
        /\ Is(tmpl[k], "no_serialize") \/ Is(tmpl[l], "no_serialize"))
  BY TemplatesAssumption DEF WellShaped
<1>2. Is(tmpl[i], "most_one") => ~Is(tmpl[i], "list")
  BY TemplatesAssumption DEF WellShaped
<1>3. SlotsOf(tmpl[i].field) = {tmpl[k] : k \in {l \in DOMAIN tmpl : tmpl[l].field = tmpl[i].field}}
  BY DEF SlotsOf
<1>4. Single(tmpl[i].field) <=> \A k \in DOMAIN tmpl : tmpl[k].field = tmpl[i].field => ~Is(tmpl[k], "list")
  BY <1>3 DEF Single
<1>5. Single(tmpl[i].field) <=> ~Is(tmpl[i], "list")
  BY <1>1, <1>4
<1> QED
  BY <1>1, <1>2, <1>5

-----------------------------------------------------------------------------
(* One element, offered to all slots.                                      *)

Shaped(o) ==
  /\ o \in [Fields(tmpl) -> Objects]
  /\ \A f \in Fields(tmpl) :
       /\ \A k \in DOMAIN ValuesOf(o, f) : ValuesOf(o, f)[k].tag \in TagsOf(f)
       /\ Single(f) => Len(ValuesOf(o, f)) <= 1

Loop == [start : Nat, hit : SUBSET DOMAIN tmpl, one : BOOLEAN,
         obj : [Fields(tmpl) -> Objects], matched : BOOLEAN, over : BOOLEAN, failed : BOOLEAN]
Ready == [start |-> start, hit |-> hit, one |-> one, obj |-> obj,
          matched |-> FALSE, over |-> FALSE, failed |-> FALSE]

LEMMA OfferKeepsType ==
  ASSUME tmpl \in Templates, NEW s \in Loop, NEW i \in 1 .. Len(tmpl), NEW e \in TlvElements
  PROVE  Offer(s, i, e) \in Loop
<1> DEFINE slot == tmpl[i]
           v == [tag |-> e.tag, val |-> e.val]
<1>1. i \in DOMAIN tmpl /\ slot.field \in Fields(tmpl)
  BY TemplateIs
<1>2. v \in Values
  BY DEF TlvElements, Values
<1>3. Store(s.obj, slot, v) \in [Fields(tmpl) -> Objects]
  <2> DEFINE w == s.obj[slot.field]
             x == IF w = Null THEN << v >> ELSE Append(w, v)
  <2>1. s.obj \in [Fields(tmpl) -> Objects] /\ w \in Objects
    BY <1>1 DEF Loop
  <2>2. x \in Seq(Values)
    BY <1>2, <2>1 DEF Objects
  <2>3. Store(s.obj, slot, v) = [s.obj EXCEPT ![slot.field] = x]
    BY DEF Store
  <2> HIDE DEF x
  <2> QED
    BY <2>1, <2>2, <2>3 DEF Objects
<1>4. ASSUME NEW o \in [Fields(tmpl) -> Objects]
      PROVE  [start |-> IF i = s.start /\ ~Is(slot, "list") THEN i + 1 ELSE s.start,
              hit |-> s.hit \cup {i}, one |-> s.one \/ Is(slot, "most_one"), obj |-> o,
              matched |-> TRUE, over |-> ~Is(slot, "more_defs"), failed |-> FALSE] \in Loop
  <2>1. (IF i = s.start /\ ~Is(slot, "list") THEN i + 1 ELSE s.start) \in Nat
        /\ s.hit \cup {i} \in SUBSET DOMAIN tmpl
    BY <1>1 DEF Loop
  <2>2. (s.one \/ Is(slot, "most_one")) \in BOOLEAN /\ (~Is(slot, "more_defs")) \in BOOLEAN
    OBVIOUS
  <2> QED
    BY <1>4, <2>1, <2>2 DEF Loop
<1>5. [s EXCEPT !.failed = TRUE, !.over = TRUE] \in Loop
  BY DEF Loop
<1> QED
  BY <1>3, <1>4, <1>5 DEF Offer

LEMMA OfferingUnfolds ==
  ASSUME tmpl \in Templates, Ready \in Loop, NEW e \in TlvElements
  PROVE  /\ Offering(e)[0] = Ready
         /\ \A i \in 1 .. Len(tmpl) : Offering(e)[i] = Offer(Offering(e)[i - 1], i, e)
<1> DEFINE n == Len(tmpl)
           F == [i \in 1 .. n |-> [s \in Loop |-> Offer(s, i, e)]]
           P(f) == f = [i \in 0 .. n |-> IF i = 0 THEN Ready ELSE Offer(f[i - 1], i, e)]
<1>1. n \in Nat
  BY TemplateIs
<1>2. Steps(F, n, Ready, Loop)
  BY OfferKeepsType DEF Steps
<1>3. PICK f : Runs(f, F, n, Ready, Loop)
  <2> HIDE DEF F, n
  <2> QED
    BY <1>1, <1>2, RecursionExists
<1>4. f \in [0 .. n -> Loop] /\ f[0] = Ready /\ \A i \in 1 .. n : f[i] = F[i][f[i - 1]]
  BY <1>3 DEF Runs
<1>5. \A i \in 1 .. n : f[i - 1] \in Loop /\ F[i][f[i - 1]] = Offer(f[i - 1], i, e)
  BY <1>1, <1>4
<1>6. P(f)
  <2> HIDE DEF F
  <2>1. \A i \in 0 .. n : f[i] = IF i = 0 THEN Ready ELSE Offer(f[i - 1], i, e)
    BY <1>1, <1>4, <1>5
  <2>2. f = [i \in 0 .. n |-> f[i]]
    BY <1>4
  <2> QED
    BY <2>1, <2>2
<1>7. Offering(e) = CHOOSE g : P(g)
  BY DEF Offering, Ready
<1>8. P(Offering(e))
  <2> HIDE DEF P
  <2> QED
    BY <1>6, <1>7
<1>9. \A i \in 0 .. n : Offering(e)[i] = IF i = 0 THEN Ready ELSE Offer(Offering(e)[i - 1], i, e)
  <2> DEFINE g == Offering(e)
  <2>1. g = [i \in 0 .. n |-> IF i = 0 THEN Ready ELSE Offer(g[i - 1], i, e)]
    BY <1>8
  <2> HIDE DEF g
  <2>2. \A i \in 0 .. n : g[i] = IF i = 0 THEN Ready ELSE Offer(g[i - 1], i, e)
    BY <2>1
  <2> QED
    BY <2>2 DEF g
<1> QED
  BY <1>1, <1>9

\* What the loop leaves if slot i takes the element.
TakenBy(i, e) ==
  [start |-> IF i = start /\ ~Is(tmpl[i], "list") THEN i + 1 ELSE start,
   hit |-> hit \cup {i}, one |-> one \/ Is(tmpl[i], "most_one"),
   obj |-> Store(obj, tmpl[i], ValueOf(e)),
   matched |-> TRUE, over |-> ~Is(tmpl[i], "more_defs"), failed |-> FALSE]

\* No slot that is looked at has the tag: nothing is done.
LEMMA NotOffered ==
  ASSUME tmpl \in Templates, Ready \in Loop, NEW e \in TlvElements,
         \A i \in DOMAIN tmpl : tmpl[i].tag = e.tag => i < start
  PROVE  Offering(e)[Len(tmpl)] = Ready
<1> DEFINE n == Len(tmpl)
           G == {i \in 0 .. n : Offering(e)[i] = Ready}
<1>1. n \in Nat /\ DOMAIN tmpl = 1 .. n
  BY TemplateIs
<1>2. 0 \in G
  BY <1>1, OfferingUnfolds
<1>3. ASSUME NEW i \in 0 .. n - 1, i \in G PROVE i + 1 \in G
  <2>1. i + 1 \in 1 .. n /\ i + 1 - 1 = i /\ i + 1 \in 0 .. n /\ i + 1 \in DOMAIN tmpl
    BY <1>1
  <2>2. Offering(e)[i + 1] = Offer(Ready, i + 1, e)
    BY <1>3, <2>1, OfferingUnfolds
  <2>3. Offer(Ready, i + 1, e) = Ready
    BY <2>1 DEF Offer
  <2> QED
    BY <2>1, <2>2, <2>3
<1>4. n \in 0 .. n
  BY <1>1
<1> HIDE DEF G
<1>5. n \in G
  BY <1>1, <1>2, <1>3, <1>4, Induction
<1> QED
  BY <1>5 DEF G

\* One slot that is looked at has it: that slot takes it, or the loop fails.
LEMMA Offered ==
  ASSUME tmpl \in Templates, Ready \in Loop, NEW e \in TlvElements,
         NEW i \in DOMAIN tmpl, tmpl[i].tag = e.tag, i >= start
  PROVE  LET s == Offering(e)[Len(tmpl)]
         IN  IF SlotError(Ready, tmpl[i], e) THEN s.failed ELSE s = TakenBy(i, e)
<1> DEFINE n == Len(tmpl)
           r == Offer(Ready, i, e)
           G == {j \in 0 .. n : Offering(e)[j] = IF j < i THEN Ready ELSE r}
<1>1. n \in Nat /\ DOMAIN tmpl = 1 .. n /\ i \in 1 .. n
  BY TemplateIs
<1>2. \A j \in DOMAIN tmpl : j # i => tmpl[j].tag # e.tag
  BY TagsTell
<1>3. 0 \in G
  BY <1>1, OfferingUnfolds
<1>4. ASSUME NEW j \in 0 .. n - 1, j \in G PROVE j + 1 \in G
  <2>1. j + 1 \in 1 .. n /\ j + 1 - 1 = j /\ j + 1 \in 0 .. n /\ j + 1 \in DOMAIN tmpl
        /\ (j + 1 = i => j < i) /\ (j + 1 # i => (j + 1 < i <=> j < i))
    BY <1>1
  <2>2. Offering(e)[j + 1] = Offer(Offering(e)[j], j + 1, e)
        /\ Offering(e)[j] = IF j < i THEN Ready ELSE r
    BY <1>4, <2>1, OfferingUnfolds
  <2>3. CASE j + 1 = i
    BY <2>1, <2>2, <2>3
  <2>4. CASE j + 1 # i
    <3>1. tmpl[j + 1].tag # e.tag
      BY <1>2, <2>1, <2>4
    <3>2. Offering(e)[j + 1] = Offering(e)[j]
      BY <2>2, <3>1 DEF Offer
    <3> QED
      BY <2>1, <2>2, <2>4, <3>2
  <2> QED
    BY <2>3, <2>4
<1>5. n \in 0 .. n
  BY <1>1
<1> HIDE DEF G
<1>6. n \in G
  BY <1>1, <1>3, <1>4, <1>5, Induction
<1>7. Offering(e)[n] = r
  BY <1>1, <1>6 DEF G
<1>8. ~(i < start) /\ ~Ready.over /\ tmpl[i].tag = e.tag /\ start \in Nat
  BY <1>1 DEF Ready, Loop
<1>9. CASE SlotError(Ready, tmpl[i], e)
  <2>1. r = [Ready EXCEPT !.failed = TRUE, !.over = TRUE]
    BY <1>8, <1>9 DEF Offer
  <2>2. r.failed
    BY <2>1 DEF Ready
  <2> QED
    BY <1>7, <1>9, <2>2
<1>10. CASE ~SlotError(Ready, tmpl[i], e)
  <2>1. r = TakenBy(i, e)
    BY <1>8, <1>10 DEF Offer, Ready, TakenBy, ValueOf
  <2> QED
    BY <1>7, <1>10, <2>1
<1> QED
  BY <1>9, <1>10

-----------------------------------------------------------------------------
(* The inductive invariant of the template engine.                         *)

Phases == {"idle", "receive", "set", "extract", "construct", "copy", "returned"}

TypesInv ==
  /\ phase \in Phases
  /\ tlv \in Seq(TlvElements) /\ pos \in 0 .. Len(tlv) + Len(tmpl)
  /\ start \in 1 .. Len(tmpl) + 1 /\ hit \in SUBSET DOMAIN tmpl /\ one \in BOOLEAN
  /\ IF phase = "idle" THEN tmpl = << >> /\ tlv = << >> /\ hit = {} /\ pos = 0 /\ start = 1
     ELSE tmpl \in Templates /\ Shaped(obj)

\* Before anything is read or written.
FreshInv ==
  /\ phase \in {"idle", "receive", "set", "extract"} => kept = Null
  /\ phase = "set" => tlv = << >>
  /\ phase = "receive" => obj = Empty(tmpl)

\* While elements are read: the slots behind which the scan starts have their values;
\* what is hit has a value and the other way round; a group was hit once; every
\* critical element has been taken, and if there is none to skip, all have.
ReadInv ==
  /\ pos <= Len(tlv)
  /\ \A i \in 1 .. start - 1 : i \in hit /\ ~Is(tmpl[i], "list")
  /\ \A i \in hit : obj[tmpl[i].field] # Null
  /\ \A f \in Fields(tmpl) : obj[f] # Null => obj[f] # << >> /\ \E i \in hit : tmpl[i].field = f
  /\ one <=> \E i \in hit : Is(tmpl[i], "most_one")
  /\ \A i, j \in hit : Is(tmpl[i], "most_one") /\ Is(tmpl[j], "most_one") => i = j
  /\ \A k \in 1 .. pos : tlv[k].nonCritical
       \/ \E f \in Fields(tmpl) : ValueOf(tlv[k]) \in Range(ValuesOf(obj, f))
  /\ phase = "copy" \/ WellFormed(tlv) =>
       \A f \in Fields(tmpl) : ValuesOf(obj, f) = Contents(Selecting(tlv, Of(f))[pos])

\* An element as construct writes it.
Written(e) ==
  /\ e.nonCritical = FALSE /\ e.val # Bad
  /\ \E f \in Fields(tmpl) : e.tag \in TagsOf(f)

\* While slots are written: the values of the slots so far are in the TLV.
WriteInv ==
  /\ kept = obj /\ pos <= Len(tmpl)
  /\ \A i \in DOMAIN tmpl :
       i \in hit <=> i <= pos /\ ~Is(tmpl[i], "no_serialize") /\ obj[tmpl[i].field] # Null
  /\ \A k \in 1 .. Len(tlv) : Written(tlv[k])
  /\ \A f \in Fields(tmpl) :
       Contents(Selected(tlv, Of(f))) =
         IF \E i \in DOMAIN tmpl : i <= pos /\ tmpl[i].field = f /\ ~Is(tmpl[i], "no_serialize")
         THEN ValuesOf(obj, f) ELSE << >>

\* While they are read again: the TLV has the values of the object that was written.
CopyInv ==
  /\ Shaped(kept)
  /\ \A k \in 1 .. Len(tlv) : Written(tlv[k])
  /\ \A f \in Fields(tmpl) : Contents(Selected(tlv, Of(f))) = ValuesOf(kept, f)

EngineInv ==
  /\ TypesInv /\ FreshInv
  /\ Extracting => ReadInv
  /\ phase = "construct" => WriteInv
  /\ phase = "copy" => CopyInv
  /\ CopiedAsShaped

-----------------------------------------------------------------------------
(* Facts the steps need.                                                   *)

LEMMA ReadyIs ==
  ASSUME TypesInv, phase # "idle"
  PROVE  tmpl \in Templates /\ Shaped(obj) /\ Ready \in Loop /\ start \in Nat
<1>1. tmpl \in Templates /\ Shaped(obj)
  BY DEF TypesInv
<1>2. start \in Nat /\ hit \in SUBSET DOMAIN tmpl /\ one \in BOOLEAN
      /\ obj \in [Fields(tmpl) -> Objects]
  <2>1. Len(tmpl) \in Nat
    BY <1>1, TemplateIs
  <2> QED
    BY <1>1, <2>1 DEF TypesInv, Shaped
<1> QED
  BY <1>1, <1>2 DEF Ready, Loop

LEMMA ObjectIs ==
  ASSUME tmpl \in Templates, NEW o, Shaped(o), NEW f \in Fields(tmpl)
  PROVE  /\ o[f] \in Objects /\ ValuesOf(o, f) \in Seq(Values)
         /\ o[f] = Null \/ (o[f] # Null /\ o[f] = ValuesOf(o, f))
         /\ ValuesOf(o, f) # << >> => o[f] # Null
<1>1. o[f] \in Objects
  BY DEF Shaped
<1>2. << >> \in Seq(Values)
  OBVIOUS
<1> QED
  BY <1>1, <1>2 DEF Objects, ValuesOf

LEMMA EmptyIs ==
  ASSUME tmpl \in Templates
  PROVE  Shaped(Empty(tmpl)) /\ \A f \in Fields(tmpl) : Empty(tmpl)[f] = Null
                                                       /\ ValuesOf(Empty(tmpl), f) = << >>
<1>1. \A f \in Fields(tmpl) : Empty(tmpl)[f] = Null
  BY DEF Empty
<1>2. \A f \in Fields(tmpl) : ValuesOf(Empty(tmpl), f) = << >>
  BY <1>1 DEF ValuesOf
<1>3. Empty(tmpl) \in [Fields(tmpl) -> Objects]
  BY DEF Empty, Objects
<1> QED
  BY <1>1, <1>2, <1>3 DEF Shaped

LEMMA BelongingIs ==
  ASSUME NEW es \in Seq(TlvElements), NEW f
  PROVE  Belonging(es, f) = Selected(es, Of(f))
<1> DEFINE mine == {e \in Range(es) : e.tag \in TagsOf(f)}
<1>1. \A i \in 1 .. Len(es) : (es[i] \in mine <=> es[i] \in Of(f)) /\ (es[i] \in mine => es[i] = es[i])
  <2>1. \A i \in 1 .. Len(es) : es[i] \in Range(es) /\ es[i] \in TlvElements
    BY DEF Range
  <2> QED
    BY <2>1 DEF Of
<1> HIDE DEF mine
<1>2. Selected(es, mine) = Selected(es, Of(f))
  BY <1>1, SelectedAgrees
<1> QED
  BY <1>2 DEF Belonging, mine

LEMMA ContentsAre ==
  /\ Contents(<< >>) = << >>
  /\ \A es \in Seq(TlvElements) : Contents(es) \in Seq(Values) /\ Len(Contents(es)) = Len(es)
  /\ \A es \in Seq(TlvElements), e \in TlvElements :
       Contents(Append(es, e)) = Append(Contents(es), ValueOf(e))
<1>1. \A e \in TlvElements : ValueOf(e) \in Values
  BY DEF TlvElements, Values, ValueOf
<1>2. ASSUME NEW es \in Seq(TlvElements)
      PROVE  Contents(es) \in Seq(Values) /\ Len(Contents(es)) = Len(es)
  <2>1. \A k \in 1 .. Len(es) : ValueOf(es[k]) \in Values
    BY <1>1
  <2> QED
    BY <2>1 DEF Contents
<1>3. ASSUME NEW es \in Seq(TlvElements), NEW e \in TlvElements
      PROVE  Contents(Append(es, e)) = Append(Contents(es), ValueOf(e))
  <2> DEFINE a == Append(es, e)
             u == Contents(a)
             v == Append(Contents(es), ValueOf(e))
  <2>1. a \in Seq(TlvElements) /\ Len(a) = Len(es) + 1 /\ Len(es) \in Nat
        /\ (\A k \in 1 .. Len(es) : a[k] = es[k]) /\ a[Len(es) + 1] = e
    OBVIOUS
  <2> HIDE DEF a
  <2>2. u \in Seq(Values) /\ Len(u) = Len(es) + 1
    BY <1>2, <2>1
  <2>3. Contents(es) \in Seq(Values) /\ Len(Contents(es)) = Len(es) /\ ValueOf(e) \in Values
    BY <1>1, <1>2
  <2>4. v \in Seq(Values) /\ Len(v) = Len(es) + 1
        /\ (\A k \in 1 .. Len(es) : v[k] = Contents(es)[k]) /\ v[Len(es) + 1] = ValueOf(e)
    BY <2>3
  <2>5. (\A k \in 1 .. Len(es) : Contents(es)[k] = ValueOf(es[k]))
        /\ \A k \in 1 .. Len(a) : u[k] = ValueOf(a[k])
    BY DEF Contents
  <2> HIDE DEF u, v
  <2>6. \A k \in 1 .. Len(u) : u[k] = v[k]
    BY <2>1, <2>2, <2>4, <2>5
  <2>7. u = v
    BY <2>2, <2>4, <2>6, SeqEqual
  <2> QED
    BY <2>7 DEF u, v, a
<1>4. Contents(<< >>) = << >>
  BY DEF Contents
<1> QED
  BY <1>2, <1>3, <1>4

\* The field of a slot and the elements with its tag.
LEMMA OfSlot ==
  ASSUME tmpl \in Templates, NEW i \in DOMAIN tmpl, NEW e \in TlvElements, e.tag = tmpl[i].tag
  PROVE  \A f : e \in Of(f) <=> f = tmpl[i].field
BY TagsTell DEF Of

\* What a slot stores.
LEMMA StoreIs ==
  ASSUME tmpl \in Templates, NEW o, Shaped(o), NEW i \in DOMAIN tmpl, NEW v \in Values
  PROVE  LET p == Store(o, tmpl[i], v)
             g == tmpl[i].field
         IN  /\ p \in [Fields(tmpl) -> Objects]
             /\ \A f \in Fields(tmpl) : f # g => p[f] = o[f] /\ ValuesOf(p, f) = ValuesOf(o, f)
             /\ p[g] # Null /\ p[g] # << >> /\ ValuesOf(p, g) = Append(ValuesOf(o, g), v)
<1> DEFINE g == tmpl[i].field
           w == o[g]
           x == IF w = Null THEN << v >> ELSE Append(w, v)
           p == Store(o, tmpl[i], v)
<1>1. g \in Fields(tmpl)
  BY TemplateIs
<1>2. o \in [Fields(tmpl) -> Objects] /\ w \in Objects
  BY <1>1 DEF Shaped
<1>3. x \in Seq(Values) /\ x # << >> /\ x # Null
  <2>1. CASE w = Null
    <3>1. << v >> \in Seq(Values) /\ << v >> # << >>
      OBVIOUS
    <3>2. x = << v >>
      BY <2>1
    <3> HIDE DEF x
    <3> QED
      BY <3>1, <3>2, NullAssumption
  <2>2. CASE w # Null
    <3>1. w \in Seq(Values)
      BY <1>2, <2>2 DEF Objects
    <3>2. Append(w, v) \in Seq(Values) /\ Append(w, v) # << >>
      BY <3>1
    <3> QED
      BY <2>2, <3>2, NullAssumption
  <2> QED
    BY <2>1, <2>2
<1>4. p = [o EXCEPT ![g] = x]
  BY DEF Store
<1>5. x = Append(ValuesOf(o, g), v)
  <2>1. << v >> = Append(<< >>, v)
    OBVIOUS
  <2> QED
    BY <2>1 DEF ValuesOf
<1> HIDE DEF x
<1>6. p \in [Fields(tmpl) -> Objects] /\ p[g] = x /\ \A f \in Fields(tmpl) : f # g => p[f] = o[f]
  BY <1>1, <1>2, <1>3, <1>4 DEF Objects
<1> HIDE DEF p, g
<1>7. ValuesOf(p, g) = x /\ \A f \in Fields(tmpl) : f # g => ValuesOf(p, f) = ValuesOf(o, f)
  BY <1>3, <1>6 DEF ValuesOf
<1> QED
  BY <1>3, <1>5, <1>6, <1>7 DEF p, g

LEMMA StoreKeepsShape ==
  ASSUME tmpl \in Templates, NEW o, Shaped(o), NEW i \in DOMAIN tmpl, NEW v \in Values,
         v.tag \in TagsOf(tmpl[i].field), ~Is(tmpl[i], "list") => o[tmpl[i].field] = Null
  PROVE  Shaped(Store(o, tmpl[i], v))
<1> DEFINE g == tmpl[i].field
           p == Store(o, tmpl[i], v)
<1>1. p \in [Fields(tmpl) -> Objects]
      /\ (\A f \in Fields(tmpl) : f # g => ValuesOf(p, f) = ValuesOf(o, f))
      /\ ValuesOf(p, g) = Append(ValuesOf(o, g), v)
  BY StoreIs
<1>2. g \in Fields(tmpl) /\ (Single(g) <=> ~Is(tmpl[i], "list"))
  BY TemplateIs, Sharing
<1>3. ValuesOf(o, g) \in Seq(Values)
      /\ \A k \in DOMAIN ValuesOf(o, g) : ValuesOf(o, g)[k].tag \in TagsOf(g)
  BY <1>2, ObjectIs DEF Shaped
<1>4. Single(g) => ValuesOf(o, g) = << >>
  BY <1>2 DEF ValuesOf
<1> HIDE DEF p
<1>5. \A k \in DOMAIN ValuesOf(p, g) : ValuesOf(p, g)[k].tag \in TagsOf(g)
  <2> DEFINE s == ValuesOf(o, g)
  <2>1. s \in Seq(Values) /\ \A k \in 1 .. Len(s) : s[k].tag \in TagsOf(g)
    BY <1>3
  <2>2. v.tag \in TagsOf(g)
    OBVIOUS
  <2> HIDE DEF s, g
  <2>3. \A k \in DOMAIN Append(s, v) : Append(s, v)[k].tag \in TagsOf(g)
    BY <2>1, <2>2
  <2> QED
    BY <1>1, <2>3 DEF s
<1>6. Single(g) => Len(ValuesOf(p, g)) <= 1
  <2>1. Len(Append(<< >>, v)) = 1
    OBVIOUS
  <2> QED
    BY <1>1, <1>4, <2>1
<1>7. ASSUME NEW f \in Fields(tmpl), f # g
      PROVE  /\ \A k \in DOMAIN ValuesOf(p, f) : ValuesOf(p, f)[k].tag \in TagsOf(f)
             /\ Single(f) => Len(ValuesOf(p, f)) <= 1
  BY <1>1, <1>7 DEF Shaped
<1> QED
  BY <1>1, <1>5, <1>6, <1>7 DEF Shaped, p

-----------------------------------------------------------------------------
(* Reading an element.                                                     *)

Element == tlv[pos + 1]
InReading == TypesInv /\ ReadInv /\ Extracting /\ pos < Len(tlv)

LEMMA ReadingIs ==
  ASSUME InReading
  PROVE  /\ tmpl \in Templates /\ Shaped(obj) /\ Ready \in Loop /\ start \in Nat
         /\ tlv \in Seq(TlvElements) /\ Len(tlv) \in Nat /\ pos \in Nat
         /\ pos + 1 \in 1 .. Len(tlv) /\ pos \in 0 .. Len(tlv) /\ pos + 1 - 1 = pos
         /\ Element \in TlvElements /\ ValueOf(Element) \in Values
         /\ DOMAIN tmpl = 1 .. Len(tmpl) /\ Len(tmpl) \in Nat /\ phase # "idle"
         /\ hit \in SUBSET DOMAIN tmpl /\ one \in BOOLEAN
<1>1. phase # "idle" /\ tlv \in Seq(TlvElements) /\ pos \in 0 .. Len(tlv) + Len(tmpl)
      /\ hit \in SUBSET DOMAIN tmpl /\ one \in BOOLEAN
  BY DEF InReading, TypesInv, Extracting
<1>2. tmpl \in Templates /\ Shaped(obj) /\ Ready \in Loop /\ start \in Nat
  BY <1>1, ReadyIs DEF InReading
<1>3. DOMAIN tmpl = 1 .. Len(tmpl) /\ Len(tmpl) \in Nat
  BY <1>2, TemplateIs
<1>4. Len(tlv) \in Nat /\ pos \in Nat /\ pos < Len(tlv)
  BY <1>1, <1>3 DEF InReading
<1>5. pos + 1 \in 1 .. Len(tlv) /\ pos \in 0 .. Len(tlv) /\ pos + 1 - 1 = pos
  BY <1>4
<1>6. Element \in TlvElements
  BY <1>1, <1>5 DEF Element
<1>7. ValueOf(Element) \in Values
  BY <1>6 DEF TlvElements, Values, ValueOf
<1> QED
  BY <1>1, <1>2, <1>3, <1>4, <1>5, <1>6, <1>7

\* What has been selected of the elements so far, and with the next one.
LEMMA SelectingNext ==
  ASSUME InReading, NEW f
  PROVE  /\ Selecting(tlv, Of(f))[pos] \in Seq(TlvElements)
         /\ Selecting(tlv, Of(f))[pos + 1] =
              IF Element \in Of(f) THEN Append(Selecting(tlv, Of(f))[pos], Element)
              ELSE Selecting(tlv, Of(f))[pos]
         /\ Len(Selecting(tlv, Of(f))[pos]) <= Len(Belonging(tlv, f))
         /\ Element \in Of(f) => Len(Selecting(tlv, Of(f))[pos]) + 1 <= Len(Belonging(tlv, f))
         /\ Len(Belonging(tlv, f)) \in Nat
<1> DEFINE s == Selecting(tlv, Of(f))
           b == Belonging(tlv, f)
<1>1. tlv \in Seq(TlvElements) /\ pos + 1 \in 1 .. Len(tlv) /\ pos \in 0 .. Len(tlv)
      /\ pos + 1 - 1 = pos /\ pos + 1 \in 0 .. Len(tlv) /\ Element = tlv[pos + 1]
      /\ Element \in TlvElements
  BY ReadingIs DEF Element
<1>2. s[pos] \in Seq(TlvElements)
  <2>1. s[pos] \in Seq(TlvElements \cap Of(f))
    BY <1>1, SelectingTypes
  <2>2. TlvElements \cap Of(f) \subseteq TlvElements
    OBVIOUS
  <2> HIDE DEF s
  <2> QED
    BY <2>1, <2>2
<1>3. s[pos + 1] = IF Element \in Of(f) THEN Append(s[pos], Element) ELSE s[pos]
  BY <1>1, SelectingUnfolds
<1>4. b = Selected(tlv, Of(f)) /\ b \in Seq(TlvElements)
  BY <1>1, BelongingIs, SelectedType
<1>5. Len(s[pos]) <= Len(b) /\ Len(s[pos + 1]) <= Len(b)
  BY <1>1, <1>4, SelectingGrows
<1>6. Element \in Of(f) => Len(s[pos + 1]) = Len(s[pos]) + 1
  <2> HIDE DEF s
  <2> QED
    BY <1>1, <1>2, <1>3
<1> HIDE DEF s, b
<1> QED
  BY <1>2, <1>3, <1>4, <1>5, <1>6 DEF s, b

\* A slot takes the element.
LEMMA TakingKeepsTypes ==
  ASSUME InReading, NEW i \in DOMAIN tmpl, tmpl[i].tag = Element.tag, i >= start,
         ~SlotError(Ready, tmpl[i], Element),
         start' = TakenBy(i, Element).start, hit' = TakenBy(i, Element).hit,
         one' = TakenBy(i, Element).one, obj' = TakenBy(i, Element).obj,
         pos' = pos + 1, UNCHANGED <<tmpl, phase, tlv>>
  PROVE  TypesInv'
<1>1. /\ tmpl \in Templates /\ Shaped(obj) /\ start \in Nat /\ tlv \in Seq(TlvElements)
      /\ Len(tlv) \in Nat /\ pos \in Nat /\ pos < Len(tlv) /\ ValueOf(Element) \in Values
      /\ DOMAIN tmpl = 1 .. Len(tmpl) /\ Len(tmpl) \in Nat /\ hit \in SUBSET DOMAIN tmpl
      /\ phase # "idle" /\ phase \in Phases /\ start \in 1 .. Len(tmpl) + 1
  BY ReadingIs DEF InReading, TypesInv
<1>2. obj' = Store(obj, tmpl[i], ValueOf(Element))
      /\ start' = (IF i = start /\ ~Is(tmpl[i], "list") THEN i + 1 ELSE start)
      /\ hit' = hit \cup {i} /\ one' = (one \/ Is(tmpl[i], "most_one"))
  BY DEF TakenBy
<1>3. ~Is(tmpl[i], "list") => obj[tmpl[i].field] = Null
  BY DEF SlotError, Ready
<1>4. ValueOf(Element).tag \in TagsOf(tmpl[i].field)
  BY <1>1, TagsTell DEF ValueOf
<1>5. Shaped(obj')
  BY <1>1, <1>2, <1>3, <1>4, StoreKeepsShape
<1>6. Shaped(obj)'
  BY <1>5 DEF Shaped, ValuesOf, TagsOf, Single, SlotsOf, Fields
<1>7. one' \in BOOLEAN
  BY <1>2
<1>8. start' \in 1 .. Len(tmpl) + 1 /\ hit' \in SUBSET DOMAIN tmpl
      /\ pos' \in 0 .. Len(tlv) + Len(tmpl)
  BY <1>1, <1>2
<1> QED
  BY <1>1, <1>6, <1>7, <1>8 DEF TypesInv

LEMMA TakingKeepsRead ==
  ASSUME InReading, NEW i \in DOMAIN tmpl, tmpl[i].tag = Element.tag, i >= start,
         ~SlotError(Ready, tmpl[i], Element),
         start' = TakenBy(i, Element).start, hit' = TakenBy(i, Element).hit,
         one' = TakenBy(i, Element).one, obj' = TakenBy(i, Element).obj,
         pos' = pos + 1, UNCHANGED <<tmpl, phase, tlv>>
  PROVE  ReadInv'
<1> DEFINE g == tmpl[i].field
           v == ValueOf(Element)
<1>1. /\ tmpl \in Templates /\ Shaped(obj) /\ start \in Nat /\ tlv \in Seq(TlvElements)
      /\ Len(tlv) \in Nat /\ pos \in Nat /\ pos < Len(tlv) /\ v \in Values
      /\ DOMAIN tmpl = 1 .. Len(tmpl) /\ Len(tmpl) \in Nat /\ hit \in SUBSET DOMAIN tmpl
      /\ start \in 1 .. Len(tmpl) + 1 /\ Element \in TlvElements /\ ReadInv /\ g \in Fields(tmpl)
  BY ReadingIs, TemplateIs DEF InReading, TypesInv
<1>2. obj' = Store(obj, tmpl[i], v)
      /\ start' = (IF i = start /\ ~Is(tmpl[i], "list") THEN i + 1 ELSE start)
      /\ hit' = hit \cup {i} /\ one' = (one \/ Is(tmpl[i], "most_one"))
  BY DEF TakenBy
<1>3. /\ \A f \in Fields(tmpl) : f # g => obj'[f] = obj[f] /\ ValuesOf(obj', f) = ValuesOf(obj, f)
      /\ obj'[g] # Null /\ obj'[g] # << >> /\ ValuesOf(obj', g) = Append(ValuesOf(obj, g), v)
  BY <1>1, <1>2, StoreIs
<1>4. ~(Is(tmpl[i], "most_one") /\ one)
  BY DEF SlotError, Ready
<1>5. \A f : ValuesOf(obj, f)' = ValuesOf(obj', f)
  BY DEF ValuesOf
<1>6. Fields(tmpl)' = Fields(tmpl) /\ \A j : Is(tmpl[j], "list")' = Is(tmpl[j], "list")
      /\ Is(tmpl[j], "most_one")' = Is(tmpl[j], "most_one")
  BY DEF Fields, Is
<1>10. pos' <= Len(tlv')
  BY <1>1
<1>11. \A j \in 1 .. start' - 1 : j \in hit' /\ ~Is(tmpl[j], "list")
  <2>1. \A j \in 1 .. start - 1 : j \in hit /\ ~Is(tmpl[j], "list")
    BY <1>1 DEF ReadInv
  <2>2. \A j \in 1 .. start' - 1 : j \in 1 .. start - 1 \/ (j = i /\ ~Is(tmpl[i], "list"))
    BY <1>1, <1>2
  <2> QED
    BY <2>1, <2>2, <1>2
<1>12. \A j \in hit' : obj'[tmpl[j].field] # Null
  <2>1. \A j \in hit : obj[tmpl[j].field] # Null /\ tmpl[j].field \in Fields(tmpl)
    BY <1>1, TemplateIs DEF ReadInv
  <2> QED
    BY <2>1, <1>2, <1>3
<1>13. \A f \in Fields(tmpl) : obj'[f] # Null => obj'[f] # << >> /\ \E j \in hit' : tmpl[j].field = f
  BY <1>1, <1>2, <1>3 DEF ReadInv
<1>14. one' <=> \E j \in hit' : Is(tmpl[j], "most_one")
  BY <1>1, <1>2 DEF ReadInv
<1>15. \A j, k \in hit' : Is(tmpl[j], "most_one") /\ Is(tmpl[k], "most_one") => j = k
  <2>1. (one <=> \E j \in hit : Is(tmpl[j], "most_one"))
        /\ \A j, k \in hit : Is(tmpl[j], "most_one") /\ Is(tmpl[k], "most_one") => j = k
    BY <1>1 DEF ReadInv
  <2> QED
    BY <2>1, <1>2, <1>4
<1>16. \A k \in 1 .. pos' : tlv[k].nonCritical
         \/ \E f \in Fields(tmpl) : ValueOf(tlv[k]) \in Range(ValuesOf(obj', f))
  <2>1. ASSUME NEW f \in Fields(tmpl), NEW x \in Range(ValuesOf(obj, f))
        PROVE  x \in Range(ValuesOf(obj', f))
    <3>1. CASE f # g
      BY <1>3, <2>1, <3>1
    <3>2. CASE f = g
      <4> DEFINE s == ValuesOf(obj, g)
      <4>1. s \in Seq(Values)
        BY <1>1, ObjectIs
      <4>2. x \in Range(s)
        BY <2>1, <3>2
      <4> HIDE DEF s, v
      <4>3. x \in Range(Append(s, v))
        <5>1. PICK k \in DOMAIN s : x = s[k]
          BY <4>2 DEF Range
        <5>2. k \in DOMAIN Append(s, v) /\ Append(s, v)[k] = s[k]
          BY <4>1, <5>1
        <5> QED
          BY <5>1, <5>2 DEF Range
      <4> QED
        BY <1>3, <3>2, <4>3 DEF s
    <3> QED
      BY <3>1, <3>2
  <2>2. v \in Range(ValuesOf(obj', g))
    <3> DEFINE s == ValuesOf(obj, g)
    <3>1. s \in Seq(Values) /\ v \in Values
      BY <1>1, ObjectIs
    <3> HIDE DEF s, v
    <3>2. v \in Range(Append(s, v))
      <4>1. Len(s) + 1 \in DOMAIN Append(s, v) /\ Append(s, v)[Len(s) + 1] = v
        BY <3>1
      <4> QED
        BY <4>1 DEF Range
    <3> QED
      BY <1>3, <3>2 DEF s
  <2>3. ASSUME NEW k \in 1 .. pos'
        PROVE  tlv[k].nonCritical
                 \/ \E f \in Fields(tmpl) : ValueOf(tlv[k]) \in Range(ValuesOf(obj', f))
    <3>1. CASE k \in 1 .. pos
      <4>1. tlv[k].nonCritical \/ \E f \in Fields(tmpl) : ValueOf(tlv[k]) \in Range(ValuesOf(obj, f))
        BY <1>1, <3>1 DEF ReadInv
      <4> QED
        BY <2>1, <4>1
    <3>2. CASE k = pos + 1
      BY <1>1, <2>2, <3>2 DEF Element
    <3> QED
      BY <1>1, <2>3, <3>1, <3>2
  <2> QED
    BY <2>3
<1>17. ASSUME phase = "copy" \/ WellFormed(tlv), NEW f \in Fields(tmpl)
       PROVE  ValuesOf(obj', f) = Contents(Selecting(tlv, Of(f))[pos'])
  <2>1. ValuesOf(obj, f) = Contents(Selecting(tlv, Of(f))[pos])
    BY <1>1, <1>17 DEF ReadInv
  <2>2. Selecting(tlv, Of(f))[pos] \in Seq(TlvElements)
        /\ Selecting(tlv, Of(f))[pos'] =
             IF Element \in Of(f) THEN Append(Selecting(tlv, Of(f))[pos], Element)
             ELSE Selecting(tlv, Of(f))[pos]
    BY SelectingNext
  <2>3. Element \in Of(f) <=> f = g
    BY <1>1, OfSlot
  <2>4. Contents(Append(Selecting(tlv, Of(f))[pos], Element))
          = Append(Contents(Selecting(tlv, Of(f))[pos]), v)
    BY <1>1, <2>2, ContentsAre
  <2> QED
    BY <1>3, <2>1, <2>2, <2>3, <2>4
<1>18. WellFormed(tlv)' = WellFormed(tlv)
  BY DEF WellFormed, CountsFit, Fields, Single, SlotsOf, TagsOf, Belonging
<1>19. \A f : Of(f)' = Of(f) /\ Selecting(tlv, Of(f))' = Selecting(tlv, Of(f))
  BY DEF Of, TagsOf, Selecting
<1> HIDE DEF g, v
<1>20. (\A f \in Fields(tmpl) : phase = "copy" \/ WellFormed(tlv) =>
          ValuesOf(obj', f) = Contents(Selecting(tlv, Of(f))[pos']))
  BY <1>17
<1>21. phase' = "copy" \/ WellFormed(tlv)' =>
         \A f \in Fields(tmpl)' : ValuesOf(obj, f)' = Contents(Selecting(tlv, Of(f))[pos])'
  <2>1. \A f : Contents(Selecting(tlv, Of(f))[pos])' = Contents(Selecting(tlv, Of(f))[pos'])
    BY <1>19 DEF Contents, ValueOf
  <2> QED
    BY <1>5, <1>6, <1>18, <1>20, <2>1
<1>22. \A k : ValueOf(tlv[k])' = ValueOf(tlv[k])
  BY DEF ValueOf
<1>23. (\A k \in 1 .. pos : tlv[k].nonCritical
          \/ \E f \in Fields(tmpl) : ValueOf(tlv[k]) \in Range(ValuesOf(obj, f)))'
  BY <1>16, <1>5, <1>6, <1>22 DEF Range
<1> QED
  BY <1>6, <1>10, <1>11, <1>12, <1>13, <1>14, <1>15, <1>21, <1>23 DEF ReadInv

\* No slot takes the element, and it may be skipped.
LEMMA SkippingKeepsRead ==
  ASSUME InReading, \A i \in DOMAIN tmpl : tmpl[i].tag = Element.tag => i < start,
         Element.nonCritical, pos' = pos + 1,
         phase = "copy" => CopyInv,
         \A i \in DOMAIN tmpl : tmpl[i].tag = Element.tag => ~WellFormed(tlv),
         UNCHANGED <<tmpl, phase, tlv, start, hit, one, obj>>
  PROVE  TypesInv' /\ ReadInv'
<1>1. /\ tmpl \in Templates /\ Len(tlv) \in Nat /\ pos \in Nat /\ pos < Len(tlv)
      /\ Len(tmpl) \in Nat /\ pos + 1 \in 1 .. Len(tlv) /\ Element \in TlvElements
  BY ReadingIs DEF InReading
<1>2. TypesInv'
  <2>1. pos' \in 0 .. Len(tlv) + Len(tmpl)
    BY <1>1
  <2>2. Shaped(obj)' <=> Shaped(obj)
    BY DEF Shaped, ValuesOf, TagsOf, Single, SlotsOf, Fields
  <2> QED
    BY <2>1, <2>2, ReadingIs DEF TypesInv, InReading
<1>3. phase # "copy"
  <2>1. ASSUME phase = "copy" PROVE FALSE
    <3>1. Written(tlv[pos + 1])
      BY <1>1, <2>1 DEF CopyInv
    <3> QED
      BY <3>1 DEF Written, Element
  <2> QED
    BY <2>1
<1>4. ASSUME WellFormed(tlv), NEW f \in Fields(tmpl)
      PROVE  Selecting(tlv, Of(f))[pos + 1] = Selecting(tlv, Of(f))[pos]
  <2>1. \A i \in DOMAIN tmpl : tmpl[i].tag # Element.tag
    BY <1>4
  <2>2. Element \notin Of(f)
    BY <2>1 DEF Of, TagsOf
  <2> QED
    BY <2>2, SelectingNext
<1>5. ASSUME WellFormed(tlv), NEW f \in Fields(tmpl)
      PROVE  ValuesOf(obj, f) = Contents(Selecting(tlv, Of(f))[pos'])
  BY <1>4, <1>5 DEF ReadInv, InReading
<1>6. \A k \in 1 .. pos' : tlv[k].nonCritical
         \/ \E f \in Fields(tmpl) : ValueOf(tlv[k]) \in Range(ValuesOf(obj, f))
  <2>1. \A k \in 1 .. pos' : k \in 1 .. pos \/ k = pos + 1
    BY <1>1
  <2>2. tlv[pos + 1].nonCritical
    BY DEF Element
  <2> QED
    BY <2>1, <2>2 DEF ReadInv, InReading
<1>7. WellFormed(tlv)' = WellFormed(tlv)
  BY DEF WellFormed, CountsFit, Fields, Single, SlotsOf, TagsOf, Belonging
<1>8. \A f : Contents(Selecting(tlv, Of(f))[pos])' = Contents(Selecting(tlv, Of(f))[pos'])
  BY DEF Of, TagsOf, Selecting, Contents, ValueOf
<1>9. (\A f : ValuesOf(obj, f)' = ValuesOf(obj, f)) /\ Fields(tmpl)' = Fields(tmpl)
      /\ (\A k : ValueOf(tlv[k])' = ValueOf(tlv[k]))
      /\ \A j : Is(tmpl[j], "list")' = Is(tmpl[j], "list")
                /\ Is(tmpl[j], "most_one")' = Is(tmpl[j], "most_one")
  BY DEF ValuesOf, Fields, ValueOf, Is
<1>10. (phase = "copy" \/ WellFormed(tlv) =>
          \A f \in Fields(tmpl) : ValuesOf(obj, f) = Contents(Selecting(tlv, Of(f))[pos]))'
  BY <1>3, <1>5, <1>7, <1>8, <1>9
<1>11. (\A k \in 1 .. pos : tlv[k].nonCritical
          \/ \E f \in Fields(tmpl) : ValueOf(tlv[k]) \in Range(ValuesOf(obj, f)))'
  BY <1>6, <1>9 DEF Range
<1>12. pos' <= Len(tlv')
  BY <1>1
<1>13. ReadInv'
  BY <1>9, <1>10, <1>11, <1>12 DEF ReadInv, InReading
<1> QED
  BY <1>2, <1>13

\* A well-formed TLV has no second element for a field that is no list and has its value.
LEMMA NoSecond ==
  ASSUME InReading, phase = "copy" \/ WellFormed(tlv), WellFormed(tlv),
         NEW i \in DOMAIN tmpl, tmpl[i].tag = Element.tag,
         ~Is(tmpl[i], "list"), obj[tmpl[i].field] # Null
  PROVE  FALSE
<1> DEFINE g == tmpl[i].field
           s == Selecting(tlv, Of(g))
           count == [f \in Fields(tmpl) |-> Len(Belonging(tlv, f))]
<1>1. tmpl \in Templates /\ g \in Fields(tmpl) /\ Shaped(obj) /\ Element \in TlvElements
  BY ReadingIs, TemplateIs
<1>2. Single(g)
  BY <1>1, Sharing
<1>3. Len(Belonging(tlv, g)) <= 1
  <2>1. CountsFit(count)
    BY DEF WellFormed
  <2>2. count[g] <= 1
    BY <1>1, <1>2, <2>1 DEF CountsFit
  <2> QED
    BY <1>1, <2>2
<1>4. Element \in Of(g)
  BY <1>1, OfSlot
<1>5. s[pos] \in Seq(TlvElements) /\ Len(s[pos]) + 1 <= Len(Belonging(tlv, g))
      /\ Len(Belonging(tlv, g)) \in Nat
  BY <1>4, SelectingNext
<1>6. s[pos] = << >>
  BY <1>3, <1>5
<1>7. ValuesOf(obj, g) = Contents(s[pos])
  BY <1>1 DEF ReadInv, InReading
<1>8. ValuesOf(obj, g) = << >>
  BY <1>6, <1>7, ContentsAre
<1>9. obj[g] # << >>
  BY <1>1 DEF ReadInv, InReading
<1> QED
  BY <1>8, <1>9 DEF ValuesOf

\* Every element of a well-formed TLV is taken, if there is a slot for it.
LEMMA WellFormedTakes ==
  ASSUME InReading, WellFormed(tlv)
  PROVE  \/ /\ \A i \in DOMAIN tmpl : tmpl[i].tag # Element.tag
            /\ Element.nonCritical
         \/ \E i \in DOMAIN tmpl :
              /\ tmpl[i].tag = Element.tag /\ i >= start
              /\ ~SlotError(Ready, tmpl[i], Element)
<1>0. tmpl \in Templates /\ Shaped(obj) /\ Element \in TlvElements /\ start \in Nat
      /\ pos + 1 \in 1 .. Len(tlv) /\ tlv \in Seq(TlvElements) /\ DOMAIN tmpl = 1 .. Len(tmpl)
      /\ Len(tmpl) \in Nat /\ hit \in SUBSET DOMAIN tmpl
  BY ReadingIs
<1>1. IF \E f \in Fields(tmpl) : Element.tag \in TagsOf(f) THEN Element.val # Bad
      ELSE Element.nonCritical
  <2>1. pos + 1 \in DOMAIN tlv
    BY <1>0
  <2> QED
    BY <2>1 DEF WellFormed, Element
<1>2. CASE \A i \in DOMAIN tmpl : tmpl[i].tag # Element.tag
  <2>1. \A f : Element.tag \notin TagsOf(f)
    BY <1>2 DEF TagsOf
  <2> QED
    BY <1>1, <1>2, <2>1
<1>3. ASSUME NEW i \in DOMAIN tmpl, tmpl[i].tag = Element.tag
      PROVE  i >= start /\ ~SlotError(Ready, tmpl[i], Element)
  <2> DEFINE g == tmpl[i].field
  <2>1. g \in Fields(tmpl) /\ Element.tag \in TagsOf(g)
    BY <1>0, <1>3, TemplateIs, TagsTell
  <2>2. Element.val # Bad
    BY <1>1, <2>1
  <2>3. Is(tmpl[i], "list") \/ obj[g] = Null
    BY <1>3, NoSecond
  <2>4. i >= start
    <3>1. CASE i < start
      <4>1. i \in 1 .. start - 1
        BY <1>0, <3>1
      <4>2. i \in hit /\ ~Is(tmpl[i], "list") /\ obj[g] # Null
        BY <4>1 DEF ReadInv, InReading
      <4> QED
        BY <2>3, <4>2
    <3> QED
      BY <3>1, <1>0
  <2>5. ~(Is(tmpl[i], "most_one") /\ one)
    <3> SUFFICES ASSUME Is(tmpl[i], "most_one"), one PROVE FALSE
      OBVIOUS
    <3>1. PICK j \in hit : Is(tmpl[j], "most_one")
      BY DEF ReadInv, InReading
    <3> DEFINE h == tmpl[j].field
               count == [f \in Fields(tmpl) |-> Len(Belonging(tlv, f))]
    <3>2. j \in DOMAIN tmpl /\ h \in Fields(tmpl) /\ obj[h] # Null /\ obj[h] # << >>
      BY <1>0, <3>1, TemplateIs DEF ReadInv, InReading
    <3>3. ValuesOf(obj, h) = Contents(Selecting(tlv, Of(h))[pos]) /\ ValuesOf(obj, h) # << >>
      BY <3>2 DEF ReadInv, InReading, ValuesOf
    <3>4. Selecting(tlv, Of(h))[pos] # << >>
      BY <3>3, ContentsAre
    <3>5. Len(Belonging(tlv, h)) >= 1
      <4> DEFINE s == Selecting(tlv, Of(h))[pos]
      <4>1. s \in Seq(TlvElements) /\ Len(s) <= Len(Belonging(tlv, h))
            /\ Len(Belonging(tlv, h)) \in Nat
        BY SelectingNext
      <4> HIDE DEF s
      <4>2. s # << >> => Len(s) >= 1
        BY <4>1
      <4> QED
        BY <3>4, <4>1, <4>2 DEF s
    <3>6. Len(Belonging(tlv, g)) >= 1
      <4>1. Element \in Of(g)
        BY <1>0, <1>3, OfSlot
      <4> DEFINE s == Selecting(tlv, Of(g))[pos]
      <4>2. s \in Seq(TlvElements) /\ Len(s) + 1 <= Len(Belonging(tlv, g))
            /\ Len(Belonging(tlv, g)) \in Nat
        BY <4>1, SelectingNext
      <4> HIDE DEF s
      <4> QED
        BY <4>2
    <3>7. count[g] >= 1 /\ count[h] >= 1
      BY <2>1, <3>2, <3>5, <3>6
    <3>8. CountsFit(count)
      BY DEF WellFormed
    <3> HIDE DEF count
    <3>9. g = h
      <4>1. tmpl[i] \in SlotsOf(g) /\ tmpl[j] \in SlotsOf(h)
        BY <3>2 DEF SlotsOf
      <4> QED
        BY <2>1, <3>1, <3>2, <3>7, <3>8, <4>1 DEF CountsFit
    <3>10. ~Is(tmpl[i], "list")
      BY <1>0, <3>2, <3>9, Sharing
    <3> QED
      BY <2>3, <3>2, <3>9, <3>10
  <2> QED
    BY <2>2, <2>3, <2>4, <2>5 DEF SlotError, Ready
<1> QED
  BY <1>2, <1>3

-----------------------------------------------------------------------------
(* The ends.                                                               *)

Marked(f, flag) == \E i \in DOMAIN tmpl : tmpl[i].field = f /\ Is(tmpl[i], flag)

LEMMA SlotsAre ==
  ASSUME NEW f
  PROVE  /\ \A flag : (\E s \in SlotsOf(f) : Is(s, flag)) <=> Marked(f, flag)
         /\ Single(f) <=> \A i \in DOMAIN tmpl : tmpl[i].field = f => ~Is(tmpl[i], "list")
BY DEF SlotsOf, Marked, Single

\* When counts fit, slot by slot.
LEMMA CountsFitIs ==
  ASSUME NEW c
  PROVE  CountsFit(c) <=>
           /\ \A f \in Fields(tmpl) :
                (Single(f) => c[f] <= 1) /\ (Marked(f, "mandatory") => c[f] >= 1)
           /\ (\E f \in Fields(tmpl) : Marked(f, "least_one")) =>
                \E f \in Fields(tmpl) : Marked(f, "least_one") /\ c[f] >= 1
           /\ \A f, g \in Fields(tmpl) :
                Marked(f, "most_one") /\ Marked(g, "most_one") /\ c[f] >= 1 /\ c[g] >= 1 => f = g
<1> DEFINE group(flag) == {f \in Fields(tmpl) : \E s \in SlotsOf(f) : Is(s, flag)}
<1>1. \A flag : group(flag) = {f \in Fields(tmpl) : Marked(f, flag)}
  BY SlotsAre
<1>2. CountsFit(c) <=>
        /\ \A f \in Fields(tmpl) :
             (Single(f) => c[f] <= 1) /\ ((\E s \in SlotsOf(f) : Is(s, "mandatory")) => c[f] >= 1)
        /\ group("least_one") # {} => \E f \in group("least_one") : c[f] >= 1
        /\ \A f, g \in group("most_one") : c[f] >= 1 /\ c[g] >= 1 => f = g
  BY DEF CountsFit
<1> HIDE DEF group
<1>3. group("least_one") = {f \in Fields(tmpl) : Marked(f, "least_one")}
      /\ group("most_one") = {f \in Fields(tmpl) : Marked(f, "most_one")}
  BY <1>1
<1>4. group("least_one") # {} <=> \E f \in Fields(tmpl) : Marked(f, "least_one")
  BY <1>3
<1>5. (\E f \in group("least_one") : c[f] >= 1)
        <=> \E f \in Fields(tmpl) : Marked(f, "least_one") /\ c[f] >= 1
  BY <1>3
<1>6. (\A f, g \in group("most_one") : c[f] >= 1 /\ c[g] >= 1 => f = g)
        <=> \A f, g \in Fields(tmpl) :
              Marked(f, "most_one") /\ Marked(g, "most_one") /\ c[f] >= 1 /\ c[g] >= 1 => f = g
  BY <1>3
<1>7. \A f \in Fields(tmpl) : (\E s \in SlotsOf(f) : Is(s, "mandatory")) <=> Marked(f, "mandatory")
  BY SlotsAre
<1> QED  BY ONLY <1>2, <1>4, <1>5, <1>6, <1>7

Counts(o) == [f \in Fields(tmpl) |-> Len(ValuesOf(o, f))]

\* A field that is read has a value, and one that has none is not.
LEMMA CountedIs ==
  ASSUME TypesInv, ReadInv, phase # "idle", NEW f \in Fields(tmpl)
  PROVE  /\ Counts(obj)[f] = Len(ValuesOf(obj, f)) /\ Len(ValuesOf(obj, f)) \in Nat
         /\ Len(ValuesOf(obj, f)) >= 1 <=> obj[f] # Null
         /\ obj[f] # Null <=> \E i \in hit : tmpl[i].field = f
<1>1. tmpl \in Templates /\ Shaped(obj) /\ hit \in SUBSET DOMAIN tmpl
  BY DEF TypesInv
<1>2. ValuesOf(obj, f) \in Seq(Values) /\ (obj[f] = Null \/ (obj[f] # Null /\ obj[f] = ValuesOf(obj, f)))
  BY <1>1, ObjectIs
<1>3. Counts(obj)[f] = Len(ValuesOf(obj, f)) /\ Len(ValuesOf(obj, f)) \in Nat
  BY <1>2 DEF Counts
<1>4. obj[f] # Null => obj[f] # << >> /\ \E i \in hit : tmpl[i].field = f
  BY DEF ReadInv
<1>5. \A i \in hit : tmpl[i].field = f => obj[f] # Null
  BY DEF ReadInv
<1>6. obj[f] # Null => Len(ValuesOf(obj, f)) >= 1
  BY <1>2, <1>4
<1>7. obj[f] = Null => Len(ValuesOf(obj, f)) = 0
  BY DEF ValuesOf
<1> QED  BY <1>3, <1>4, <1>5, <1>6, <1>7

\* An object whose slots are all hit that must be has what the template asks for.
LEMMA CompleteMeans ==
  ASSUME TypesInv, ReadInv, phase # "idle", Complete
  PROVE  CountsFit(Counts(obj))
<1>1. tmpl \in Templates /\ Shaped(obj) /\ hit \in SUBSET DOMAIN tmpl
  BY DEF TypesInv
<1>2. \A i \in DOMAIN tmpl : tmpl[i].field \in Fields(tmpl)
  BY <1>1, TemplateIs
<1>3. ASSUME NEW f \in Fields(tmpl)
      PROVE  /\ Single(f) => Counts(obj)[f] <= 1
             /\ Marked(f, "mandatory") => Counts(obj)[f] >= 1
  <2>1. Single(f) => Len(ValuesOf(obj, f)) <= 1
    BY <1>1 DEF Shaped
  <2>2. ASSUME Marked(f, "mandatory")  PROVE  Counts(obj)[f] >= 1
    <3>1. PICK i \in DOMAIN tmpl : tmpl[i].field = f /\ Is(tmpl[i], "mandatory")
      BY <2>2 DEF Marked
    <3>2. i \in hit
      BY <3>1 DEF Complete
    <3> QED  BY <3>1, <3>2, CountedIs
  <2> QED  BY <2>1, <2>2, CountedIs
<1>4. ASSUME NEW h \in Fields(tmpl), Marked(h, "least_one")
      PROVE  \E f \in Fields(tmpl) : Marked(f, "least_one") /\ Counts(obj)[f] >= 1
  <2>1. PICK i \in DOMAIN tmpl : tmpl[i].field = h /\ Is(tmpl[i], "least_one")
    BY <1>4 DEF Marked
  <2>2. PICK j \in hit : Is(tmpl[j], "least_one")
    BY <2>1 DEF Complete
  <2>3. j \in DOMAIN tmpl /\ tmpl[j].field \in Fields(tmpl)
    BY <1>1, <1>2
  <2>4. Marked(tmpl[j].field, "least_one")
    BY <2>2, <2>3 DEF Marked
  <2>5. Counts(obj)[tmpl[j].field] >= 1
    BY <2>3, CountedIs
  <2> QED  BY <2>3, <2>4, <2>5
<1>5. ASSUME NEW f \in Fields(tmpl), NEW g \in Fields(tmpl),
             Marked(f, "most_one"), Marked(g, "most_one"), Counts(obj)[f] >= 1, Counts(obj)[g] >= 1
      PROVE  f = g
  <2>1. PICK i \in DOMAIN tmpl : tmpl[i].field = f /\ Is(tmpl[i], "most_one")
    BY <1>5 DEF Marked
  <2>2. PICK j \in DOMAIN tmpl : tmpl[j].field = g /\ Is(tmpl[j], "most_one")
    BY <1>5 DEF Marked
  <2>3. PICK m \in hit : tmpl[m].field = f
    BY <1>5, CountedIs
  <2>4. PICK n \in hit : tmpl[n].field = g
    BY <1>5, CountedIs
  <2>5. m = i /\ n = j
    BY <1>1, <2>1, <2>2, <2>3, <2>4, Sharing
  <2>6. i = j
    BY <2>1, <2>2, <2>3, <2>4, <2>5 DEF ReadInv
  <2> QED  BY <2>1, <2>2, <2>6
<1> QED  BY <1>3, <1>4, <1>5, CountsFitIs

\* If all fields with a value are hit, nothing that must be hit is missing.
LEMMA CountedCompletes ==
  ASSUME tmpl \in Templates, hit \in SUBSET DOMAIN tmpl, NEW c, CountsFit(c),
         \A f \in Fields(tmpl) : c[f] >= 1 => \E i \in hit : tmpl[i].field = f
  PROVE  Complete
<1>1. \A i \in DOMAIN tmpl : tmpl[i].field \in Fields(tmpl)
  BY TemplateIs
<1>2. ASSUME NEW i \in DOMAIN tmpl, Is(tmpl[i], "mandatory")  PROVE  i \in hit
  <2>1. Marked(tmpl[i].field, "mandatory")
    BY <1>2 DEF Marked
  <2>2. c[tmpl[i].field] >= 1
    BY <1>1, <2>1, CountsFitIs
  <2>3. PICK j \in hit : tmpl[j].field = tmpl[i].field
    BY <1>1, <2>2
  <2>4. j \in DOMAIN tmpl
    BY <2>3
  <2>5. i = j
    BY <1>2, <2>3, <2>4, Sharing
  <2> QED  BY <2>3, <2>5
<1>3. ASSUME NEW i \in DOMAIN tmpl, Is(tmpl[i], "least_one")
      PROVE  \E j \in hit : Is(tmpl[j], "least_one")
  <2>1. Marked(tmpl[i].field, "least_one")
    BY <1>3 DEF Marked
  <2>2. PICK f \in Fields(tmpl) : Marked(f, "least_one") /\ c[f] >= 1
    BY <1>1, <2>1, CountsFitIs
  <2>3. PICK m \in DOMAIN tmpl : tmpl[m].field = f /\ Is(tmpl[m], "least_one")
    BY <2>2 DEF Marked
  <2>4. PICK j \in hit : tmpl[j].field = f
    BY <2>2
  <2>5. j \in DOMAIN tmpl
    BY <2>4
  <2>6. Is(tmpl[j], "least_one")
    BY <2>3, <2>4, <2>5, Sharing
  <2> QED  BY <2>6
<1> QED  BY <1>2, <1>3 DEF Complete

\* When all elements are read, the values are those of all elements.
LEMMA AllRead ==
  ASSUME TypesInv, ReadInv, Extracting, pos = Len(tlv), phase = "copy" \/ WellFormed(tlv),
         NEW f \in Fields(tmpl)
  PROVE  /\ ValuesOf(obj, f) = Contents(Belonging(tlv, f))
         /\ Len(ValuesOf(obj, f)) = Len(Belonging(tlv, f))
         /\ Belonging(tlv, f) \in Seq(TlvElements)
<1>1. tlv \in Seq(TlvElements)
  BY DEF TypesInv
<1>2. Belonging(tlv, f) = Selected(tlv, Of(f)) /\ Belonging(tlv, f) \in Seq(TlvElements)
  BY <1>1, BelongingIs, SelectedType
<1>3. ValuesOf(obj, f) = Contents(Selecting(tlv, Of(f))[Len(tlv)])
  BY DEF ReadInv
<1>4. ValuesOf(obj, f) = Contents(Belonging(tlv, f))
  BY <1>2, <1>3 DEF Selected
<1> QED  BY <1>2, <1>4, ContentsAre

LEMMA WellFormedCompletes ==
  ASSUME TypesInv, ReadInv, Extracting, pos = Len(tlv), WellFormed(tlv)
  PROVE  Complete
<1> DEFINE c == [f \in Fields(tmpl) |-> Len(Belonging(tlv, f))]
<1>1. phase # "idle"
  BY DEF Extracting
<1>2. tmpl \in Templates /\ hit \in SUBSET DOMAIN tmpl
  BY <1>1 DEF TypesInv
<1>3. CountsFit(c)
  BY DEF WellFormed
<1>4. ASSUME NEW f \in Fields(tmpl), c[f] >= 1  PROVE  \E i \in hit : tmpl[i].field = f
  <2>1. Len(ValuesOf(obj, f)) = Len(Belonging(tlv, f))
    BY AllRead
  <2>2. Len(ValuesOf(obj, f)) >= 1
    BY <1>4, <2>1
  <2> QED  BY <1>1, <2>2, CountedIs
<1> HIDE DEF c
<1> QED  BY <1>2, <1>3, <1>4, CountedCompletes

\* What is written of a proper object is well-formed.
LEMMA ProperIsWellFormed ==
  ASSUME TypesInv, phase # "idle", CopyInv, Proper(kept)
  PROVE  WellFormed(tlv)
<1>1. tlv \in Seq(TlvElements)
  BY DEF TypesInv
<1>2. \A f \in Fields(tmpl) : Len(Belonging(tlv, f)) = Len(ValuesOf(kept, f))
  <2> TAKE f \in Fields(tmpl)
  <2>1. Belonging(tlv, f) = Selected(tlv, Of(f)) /\ Belonging(tlv, f) \in Seq(TlvElements)
    BY <1>1, BelongingIs, SelectedType
  <2>2. Contents(Belonging(tlv, f)) = ValuesOf(kept, f)
    BY <2>1 DEF CopyInv
  <2> QED  BY <2>1, <2>2, ContentsAre
<1>3. [f \in Fields(tmpl) |-> Len(Belonging(tlv, f))] = [f \in Fields(tmpl) |-> Len(ValuesOf(kept, f))]
  BY <1>2
<1>4. CountsFit([f \in Fields(tmpl) |-> Len(Belonging(tlv, f))])
  BY <1>3 DEF Proper
<1>5. ASSUME NEW k \in DOMAIN tlv
      PROVE  tlv[k].val # Bad /\ \E f \in Fields(tmpl) : tlv[k].tag \in TagsOf(f)
  BY <1>1, <1>5 DEF CopyInv, Written
<1> QED  BY <1>4, <1>5 DEF WellFormed

\* What has been read again is what was written, and proper.
LEMMA CopyIsSame ==
  ASSUME TypesInv, ReadInv, CopyInv, phase = "copy", pos = Len(tlv), Complete
  PROVE  Same(obj, kept) /\ Proper(kept)
<1>1. tlv \in Seq(TlvElements) /\ tmpl \in Templates /\ Shaped(kept) /\ Extracting /\ phase # "idle"
  BY DEF TypesInv, CopyInv, Extracting
<1>2. ASSUME NEW f \in Fields(tmpl)
      PROVE  ValuesOf(obj, f) = ValuesOf(kept, f) /\ ValuesOf(kept, f) = Contents(Selected(tlv, Of(f)))
  <2>1. ValuesOf(obj, f) = Contents(Belonging(tlv, f))
    BY <1>1, AllRead
  <2>2. Belonging(tlv, f) = Selected(tlv, Of(f))
    BY <1>1, BelongingIs
  <2> QED  BY <2>1, <2>2 DEF CopyInv
<1>3. Same(obj, kept)
  BY <1>2 DEF Same
<1>4. CountsFit(Counts(obj))
  BY <1>1, CompleteMeans
<1>5. Counts(obj) = [f \in Fields(tmpl) |-> Len(ValuesOf(kept, f))]
  BY <1>2 DEF Counts
<1>6. ASSUME NEW f \in Fields(tmpl), NEW k \in DOMAIN ValuesOf(kept, f)
      PROVE  kept[f][k].val # Bad
  <2> DEFINE Good == {e \in TlvElements : e.val # Bad}
             s == Selected(tlv, Of(f))
  <2>1. \A n \in 1 .. Len(tlv) : tlv[n] \in Good
    BY <1>1 DEF CopyInv, Written
  <2>2. tlv \in Seq(Good)
    <3> HIDE DEF Good
    <3>1. tlv = [n \in 1 .. Len(tlv) |-> tlv[n]] /\ Len(tlv) \in Nat
      BY <1>1
    <3> QED  BY <2>1, <3>1
  <2>3. s \in Seq(Good)
    <3> HIDE DEF Good
    <3> QED  BY <2>2, SelectedType
  <2>4. ValuesOf(kept, f) = Contents(s)
    BY <1>2
  <2>5. k \in 1 .. Len(s) /\ ValuesOf(kept, f)[k] = ValueOf(s[k])
    <3>1. Contents(s) = [n \in 1 .. Len(s) |-> ValueOf(s[n])]
      BY DEF Contents
    <3> HIDE DEF s
    <3> QED  BY <1>6, <2>4, <3>1
  <2>6. s[k] \in Good
    <3> HIDE DEF s, Good
    <3> QED  BY <2>3, <2>5
  <2>7. ValuesOf(kept, f)[k].val # Bad
    BY <2>5, <2>6 DEF ValueOf
  <2>8. kept[f] = ValuesOf(kept, f)
    <3>1. kept[f] = Null => ValuesOf(kept, f) = << >>
      BY DEF ValuesOf
    <3>2. kept[f] # Null
      <4>1. DOMAIN << >> = {}
        OBVIOUS
      <4> QED  BY <1>6, <3>1, <4>1
    <3> QED  BY <3>2 DEF ValuesOf
  <2> QED  BY <2>7, <2>8
<1> QED  BY <1>3, <1>4, <1>5, <1>6 DEF Proper

-----------------------------------------------------------------------------
(* The steps.                                                              *)

\* What a step that leaves the template and the object alone leaves alone.
LEMMA ShapeStays ==
  ASSUME UNCHANGED tmpl
  PROVE  /\ Fields(tmpl)' = Fields(tmpl)
         /\ UNCHANGED obj => (Shaped(obj)' <=> Shaped(obj))
         /\ UNCHANGED kept => (Shaped(kept)' <=> Shaped(kept)) /\ (Proper(kept)' <=> Proper(kept))
         /\ UNCHANGED <<obj, kept>> => (Same(obj, kept)' <=> Same(obj, kept))
<1>1. Fields(tmpl)' = Fields(tmpl)
  BY DEF Fields
<1>2. UNCHANGED obj => (Shaped(obj)' <=> Shaped(obj))
  BY DEF Shaped, ValuesOf, TagsOf, Single, SlotsOf, Fields
<1>3. UNCHANGED kept => (Shaped(kept)' <=> Shaped(kept))
  BY DEF Shaped, ValuesOf, TagsOf, Single, SlotsOf, Fields
<1>4. UNCHANGED kept => (Proper(kept)' <=> Proper(kept))
  BY DEF Proper, CountsFit, ValuesOf, Single, SlotsOf, Fields
<1>5. UNCHANGED <<obj, kept>> => (Same(obj, kept)' <=> Same(obj, kept))
  BY DEF Same, ValuesOf, Fields
<1> QED  BY <1>1, <1>2, <1>3, <1>4, <1>5

\* The engine gives up, or is done.
LEMMA ReturnKeeps ==
  ASSUME TypesInv, phase # "idle", phase' = "returned",
         UNCHANGED <<tmpl, tlv, obj, pos, start, hit, one, kept>>,
         kept = Null \/ (Proper(kept) => res' = "OK" /\ Same(obj, kept)),
         kept = Null \/ (res' = "OK" => Proper(kept))
  PROVE  EngineInv'
<1>1. TypesInv'
  <2>1. Shaped(obj)' <=> Shaped(obj)
    BY ShapeStays
  <2> QED  BY <2>1 DEF TypesInv, Phases
<1>2. CopiedAsShaped'
  <2>1. (Proper(kept)' <=> Proper(kept)) /\ (Same(obj, kept)' <=> Same(obj, kept))
    BY ShapeStays
  <2> QED  BY <2>1 DEF CopiedAsShaped
<1>3. FreshInv' /\ ~Extracting' /\ phase' # "construct" /\ phase' # "copy"
  BY DEF FreshInv, Extracting
<1> QED  BY <1>1, <1>2, <1>3 DEF EngineInv

\* A cursor at the beginning.
LEMMA CursorBegins ==
  ASSUME Len(tmpl') \in Nat, Len(tlv') \in Nat, pos' = 0, start' = 1, hit' = {}, one' = FALSE
  PROVE  /\ one' \in BOOLEAN /\ hit' \in SUBSET DOMAIN tmpl' /\ pos' \in 0 .. Len(tlv') + Len(tmpl')
         /\ start' \in 1 .. Len(tmpl') + 1
<1>1. one' \in BOOLEAN
  OBVIOUS
<1>2. hit' \in SUBSET DOMAIN tmpl'
  OBVIOUS
<1>3. pos' \in 0 .. Len(tlv') + Len(tmpl') /\ start' \in 1 .. Len(tmpl') + 1
  OBVIOUS
<1> QED  BY <1>1, <1>2, <1>3

\* Reading begins with an empty object.
LEMMA ReadBegins ==
  ASSUME tmpl \in Templates, tlv \in Seq(TlvElements), UNCHANGED <<tmpl, tlv>>,
         obj' = Empty(tmpl), pos' = 0, start' = 1, hit' = {}, one' = FALSE
  PROVE  Shaped(obj)' /\ ReadInv'
<1>1. Shaped(Empty(tmpl)) /\ \A f \in Fields(tmpl) : Empty(tmpl)[f] = Null
                                                       /\ ValuesOf(Empty(tmpl), f) = << >>
  BY EmptyIs
<1>2. Shaped(obj)'
  <2>1. Shaped(obj')
    BY <1>1
  <2> QED  BY <2>1 DEF Shaped, ValuesOf, TagsOf, Single, SlotsOf, Fields
<1>3. Fields(tmpl)' = Fields(tmpl) /\ \A f \in Fields(tmpl) : obj'[f] = Null
  BY <1>1 DEF Fields
<1>4. \A f \in Fields(tmpl) : ValuesOf(obj, f)' = << >>
  BY <1>3 DEF ValuesOf
<1>5. \A f : Contents(Selecting(tlv, Of(f))[pos])' = << >>
  <2> TAKE f
  <2>1. Selecting(tlv, Of(f))[0] = << >>
    BY SelectingUnfolds
  <2>2. Selecting(tlv, Of(f))' = Selecting(tlv, Of(f))
    BY DEF Selecting, Of, TagsOf
  <2>3. Contents(Selecting(tlv, Of(f))[pos])' = Contents(Selecting(tlv, Of(f))[0])
    BY <2>2 DEF Contents, ValueOf
  <2> QED  BY <2>1, <2>3, ContentsAre
<1>6. (phase = "copy" \/ WellFormed(tlv) =>
        \A f \in Fields(tmpl) : ValuesOf(obj, f) = Contents(Selecting(tlv, Of(f))[pos]))'
  BY <1>3, <1>4, <1>5
<1>7. (/\ pos <= Len(tlv)
       /\ \A i \in 1 .. start - 1 : i \in hit /\ ~Is(tmpl[i], "list")
       /\ \A i \in hit : obj[tmpl[i].field] # Null
       /\ one <=> \E i \in hit : Is(tmpl[i], "most_one")
       /\ \A i, j \in hit : Is(tmpl[i], "most_one") /\ Is(tmpl[j], "most_one") => i = j
       /\ \A k \in 1 .. pos : tlv[k].nonCritical
            \/ \E f \in Fields(tmpl) : ValueOf(tlv[k]) \in Range(ValuesOf(obj, f)))'
  <2>1. Len(tlv) \in Nat
    OBVIOUS
  <2> QED  BY <2>1
<1>8. (\A f \in Fields(tmpl) : obj[f] # Null => obj[f] # << >> /\ \E i \in hit : tmpl[i].field = f)'
  BY <1>3
<1> QED  BY <1>2, <1>6, <1>7, <1>8 DEF ReadInv

\* Writing begins with an empty TLV.
LEMMA WriteBegins ==
  ASSUME tmpl \in Templates, UNCHANGED <<tmpl, obj>>,
         kept' = obj, tlv' = << >>, pos' = 0, hit' = {}
  PROVE  WriteInv'
<1>1. Len(tmpl) \in Nat /\ DOMAIN tmpl = 1 .. Len(tmpl)
  BY TemplateIs
<1>2. Fields(tmpl)' = Fields(tmpl)
  BY DEF Fields
<1>3. \A f : Contents(Selected(tlv, Of(f)))' = << >>
  <2> TAKE f
  <2>1. \A T : Selected(<< >>, T) = << >>
    BY SelectedOfEmpty
  <2>2. Selected(tlv, Of(f))' = << >>
    BY <2>1
  <2>3. Contents(Selected(tlv, Of(f)))' = Contents(<< >>)
    BY <2>2 DEF Contents, ValueOf
  <2> QED  BY <2>3, ContentsAre
<1>4. \A i \in DOMAIN tmpl : ~(i <= 0)
  BY <1>1
<1>5. (\A i \in DOMAIN tmpl :
       i \in hit <=> i <= pos /\ ~Is(tmpl[i], "no_serialize") /\ obj[tmpl[i].field] # Null)'
  BY <1>4
<1>6. (\A f \in Fields(tmpl) :
        Contents(Selected(tlv, Of(f))) =
          IF \E i \in DOMAIN tmpl : i <= pos /\ tmpl[i].field = f /\ ~Is(tmpl[i], "no_serialize")
          THEN ValuesOf(obj, f) ELSE << >>)'
  BY <1>3, <1>4
<1>7. (kept = obj /\ pos <= Len(tmpl) /\ \A k \in 1 .. Len(tlv) : Written(tlv[k]))'
  BY <1>1
<1> QED  BY <1>5, <1>6, <1>7 DEF WriteInv

LEMMA InitHolds == TInit => EngineInv
<1> SUFFICES ASSUME TInit  PROVE  EngineInv
  OBVIOUS
<1>1. Len(tmpl) = 0 /\ Len(tlv) = 0 /\ tlv \in Seq(TlvElements)
  BY DEF TInit
<1>2. TypesInv
  <2>1. one \in BOOLEAN /\ hit \in SUBSET DOMAIN tmpl /\ pos \in 0 .. Len(tlv) + Len(tmpl)
        /\ start \in 1 .. Len(tmpl) + 1
    <3>1. one \in BOOLEAN
      BY <1>1 DEF TInit
    <3>2. hit \in SUBSET DOMAIN tmpl
      BY <1>1 DEF TInit
    <3>3. pos \in 0 .. Len(tlv) + Len(tmpl) /\ start \in 1 .. Len(tmpl) + 1
      BY <1>1 DEF TInit
    <3> QED  BY <3>1, <3>2, <3>3
  <2> QED  BY <1>1, <2>1 DEF TInit, TypesInv, Phases
<1> QED  BY <1>2 DEF TInit, EngineInv, FreshInv, Extracting, CopiedAsShaped

\* An object is made.
LEMMA ArriveKeeps == ASSUME EngineInv, Arrive  PROVE  EngineInv'
<1>1. PICK t \in Templates, p \in {"receive", "set"} : tmpl' = t /\ phase' = p /\ obj' = Empty(t)
  BY DEF Arrive
<1>2. /\ phase = "idle" /\ tmpl = << >> /\ tlv = << >> /\ hit = {} /\ pos = 0 /\ start = 1
      /\ one \in BOOLEAN /\ kept = Null /\ tlv \in Seq(TlvElements)
      /\ UNCHANGED <<tlv, pos, start, hit, one, kept, res>>
  BY DEF Arrive, EngineInv, TypesInv, FreshInv
<1>3. Len(t) \in Nat
  BY TemplatesAssumption DEF WellShaped
<1>4. Shaped(obj)'
  <2>1. obj' \in [Fields(tmpl)' -> Objects]
    BY <1>1 DEF Empty, Objects, Fields
  <2>2. \A f \in Fields(tmpl)' : obj'[f] = Null
    BY <1>1 DEF Empty, Fields
  <2>3. \A f \in Fields(tmpl)' : ValuesOf(obj, f)' = << >>
    BY <2>2 DEF ValuesOf
  <2>4. Len(<< >>) = 0 /\ DOMAIN << >> = {}
    OBVIOUS
  <2> QED  BY <2>1, <2>3, <2>4 DEF Shaped
<1>5. TypesInv'
  <2>1. Len(<< >>) = 0
    OBVIOUS
  <2> QED  BY <1>1, <1>2, <1>3, <1>4, <2>1 DEF TypesInv, Phases
<1>6. FreshInv'
  <2>1. Empty(tmpl)' = obj'
    BY <1>1 DEF Empty, Fields
  <2> QED  BY <1>1, <1>2, <2>1 DEF FreshInv
<1> QED  BY <1>1, <1>5, <1>6 DEF EngineInv, Extracting, CopiedAsShaped

LEMMA ReceiveElementKeeps == ASSUME EngineInv, ReceiveElement  PROVE  EngineInv'
<1>1. phase = "receive" /\ UNCHANGED <<tmpl, phase, obj, pos, start, hit, one, kept, res>>
  BY DEF ReceiveElement
<1>2. PICK e \in Elements :
        tlv' = Append(tlv, [tag |-> e.tag, nonCritical |-> e.nonCritical,
                            val |-> IF e.bad THEN Bad ELSE Len(tlv) + 1])
  BY DEF ReceiveElement
<1>3. tmpl \in Templates /\ Shaped(obj) /\ tlv \in Seq(TlvElements) /\ pos \in 0 .. Len(tlv) + Len(tmpl)
  BY <1>1 DEF EngineInv, TypesInv
<1>4. Len(tlv) \in Nat /\ Len(tmpl) \in Nat
  BY <1>3, TemplateIs
<1>5. [tag |-> e.tag, nonCritical |-> e.nonCritical, val |-> IF e.bad THEN Bad ELSE Len(tlv) + 1]
        \in TlvElements
  <2>1. e.tag \in Tags
    BY DEF Tags
  <2>2. e.nonCritical \in BOOLEAN
    BY ElementsAssumption
  <2>3. (IF e.bad THEN Bad ELSE Len(tlv) + 1) \in Nat \cup {Bad}
    BY <1>4
  <2> QED  BY <2>1, <2>2, <2>3 DEF TlvElements
<1>6. tlv' \in Seq(TlvElements) /\ Len(tlv') = Len(tlv) + 1
  BY <1>2, <1>3, <1>5
<1>7. Shaped(obj)'
  BY <1>1, <1>3, ShapeStays
<1>8. TypesInv'
  <2>1. pos' \in 0 .. Len(tlv') + Len(tmpl')
    BY <1>1, <1>3, <1>4, <1>6
  <2> QED  BY <1>1, <1>3, <1>6, <1>7, <2>1 DEF EngineInv, TypesInv
<1>9. FreshInv'
  <2>1. Empty(tmpl)' = Empty(tmpl)
    BY <1>1 DEF Empty, Fields
  <2> QED  BY <1>1, <2>1 DEF EngineInv, FreshInv
<1> QED  BY <1>1, <1>8, <1>9 DEF EngineInv, Extracting, CopiedAsShaped

\* A setter keeps to the kind of the field.
LEMMA SetKeeps == ASSUME EngineInv, Set  PROVE  EngineInv'
<1>1. phase = "set" /\ UNCHANGED <<tmpl, phase, tlv, pos, start, hit, one, kept, res>>
  BY DEF Set
<1>2. PICK i \in DOMAIN tmpl, v \in {1, Bad} :
        LET f == tmpl[i].field
            value == [tag |-> tmpl[i].tag, val |-> v]
        IN  IF Is(tmpl[i], "list")
            THEN \/ obj[f] = Null /\ obj' = [obj EXCEPT ![f] = << >>]
                 \/ obj[f] # Null /\ Len(obj[f]) < MaxValues
                    /\ obj' = [obj EXCEPT ![f] = Append(@, value)]
            ELSE obj' = [obj EXCEPT ![f] = <<value>>]
  BY DEF Set
<1> DEFINE f == tmpl[i].field
           value == [tag |-> tmpl[i].tag, val |-> v]
<1>3. tmpl \in Templates /\ Shaped(obj)
  BY <1>1 DEF EngineInv, TypesInv
<1>4. f \in Fields(tmpl) /\ value \in Values /\ tmpl[i].tag \in TagsOf(f)
      /\ (Single(f) <=> ~Is(tmpl[i], "list"))
  BY <1>3, TemplateIs, TagsTell, Sharing DEF Values
<1>5. PICK w \in Seq(Values) :
        /\ obj' = [obj EXCEPT ![f] = w]
        /\ \A k \in DOMAIN w : w[k].tag \in TagsOf(f)
        /\ ~Is(tmpl[i], "list") => Len(w) <= 1
  <2>1. CASE ~Is(tmpl[i], "list")
    <3>1. obj' = [obj EXCEPT ![f] = <<value>>]
      BY <1>2, <2>1
    <3>2. <<value>> \in Seq(Values) /\ Len(<<value>>) = 1 /\ \A k \in DOMAIN <<value>> : <<value>>[k] = value
      <4> HIDE DEF value
      <4> QED  BY <1>4
    <3>3. \A k \in DOMAIN <<value>> : <<value>>[k].tag \in TagsOf(f)
      <4>1. value.tag = tmpl[i].tag
        OBVIOUS
      <4> QED  BY <1>4, <3>2, <4>1
    <3>4. Len(<<value>>) <= 1
      BY <3>2
    <3> QED  BY <3>1, <3>2, <3>3, <3>4
  <2>2. CASE Is(tmpl[i], "list") /\ obj[f] = Null
    <3>1. obj' = [obj EXCEPT ![f] = << >>]
      BY <1>2, <2>2
    <3>2. << >> \in Seq(Values) /\ DOMAIN << >> = {}
      OBVIOUS
    <3> QED  BY <2>2, <3>1, <3>2
  <2>3. CASE Is(tmpl[i], "list") /\ obj[f] # Null
    <3>1. obj' = [obj EXCEPT ![f] = Append(obj[f], value)]
      BY <1>2, <2>3
    <3>2. obj[f] = ValuesOf(obj, f) /\ obj[f] \in Seq(Values)
      BY <1>3, <1>4, <2>3, ObjectIs
    <3>3. \A k \in DOMAIN obj[f] : obj[f][k].tag \in TagsOf(f)
      BY <1>3, <1>4, <3>2 DEF Shaped
    <3>4. Append(obj[f], value) \in Seq(Values)
          /\ \A k \in DOMAIN Append(obj[f], value) :
               (k \in DOMAIN obj[f] /\ Append(obj[f], value)[k] = obj[f][k])
               \/ Append(obj[f], value)[k] = value
      <4> HIDE DEF value
      <4> DEFINE s == obj[f]
      <4>1. s \in Seq(Values)
        BY <3>2
      <4> HIDE DEF s
      <4>2. Append(s, value) \in Seq(Values)
            /\ \A k \in DOMAIN Append(s, value) :
                 (k \in DOMAIN s /\ Append(s, value)[k] = s[k]) \/ Append(s, value)[k] = value
        BY <1>4, <4>1
      <4> QED  BY <4>2 DEF s
    <3>5. \A k \in DOMAIN Append(obj[f], value) : Append(obj[f], value)[k].tag \in TagsOf(f)
      BY <1>4, <3>3, <3>4
    <3> QED  BY <2>3, <3>1, <3>4, <3>5
  <2> QED  BY <2>1, <2>2, <2>3
<1> HIDE DEF f, value
<1>6. Shaped(obj')
  <2>1. w \in Objects /\ w # Null
    BY NullAssumption DEF Objects
  <2>2. obj' \in [Fields(tmpl) -> Objects]
    BY <1>3, <1>4, <1>5, <2>1 DEF Shaped
  <2>3. \A g \in Fields(tmpl) : g # f => ValuesOf(obj', g) = ValuesOf(obj, g)
    BY <1>3, <1>5 DEF Shaped, ValuesOf
  <2>4. ValuesOf(obj', f) = w
    BY <1>3, <1>4, <1>5, <2>1 DEF Shaped, ValuesOf
  <2> QED  BY <1>3, <1>4, <1>5, <2>2, <2>3, <2>4 DEF Shaped
<1>7. Shaped(obj)'
  BY <1>1, <1>6 DEF Shaped, ValuesOf, TagsOf, Single, SlotsOf, Fields
<1>8. TypesInv' /\ FreshInv'
  BY <1>1, <1>7 DEF EngineInv, TypesInv, FreshInv
<1> QED  BY <1>1, <1>8 DEF EngineInv, Extracting, CopiedAsShaped

LEMMA ExtractKeeps == ASSUME EngineInv, Extract  PROVE  EngineInv'
<1>1. /\ phase = "receive" /\ phase' = "extract" /\ pos' = 0 /\ start' = 1 /\ hit' = {} /\ one' = FALSE
      /\ UNCHANGED <<tmpl, tlv, obj, kept, res>>
  BY DEF Extract, Begin
<1>2. tmpl \in Templates /\ Shaped(obj) /\ tlv \in Seq(TlvElements) /\ obj = Empty(tmpl) /\ kept = Null
  BY <1>1 DEF EngineInv, TypesInv, FreshInv
<1>3. Shaped(obj)' /\ ReadInv'
  BY <1>1, <1>2, ReadBegins
<1>4. TypesInv'
  <2>1. Len(tmpl) \in Nat /\ Len(tlv) \in Nat
    BY <1>2, TemplateIs
  <2>2. one' \in BOOLEAN /\ hit' \in SUBSET DOMAIN tmpl' /\ pos' \in 0 .. Len(tlv') + Len(tmpl')
        /\ start' \in 1 .. Len(tmpl') + 1
    BY <1>1, <2>1, CursorBegins
  <2> QED  BY <1>1, <1>2, <1>3, <2>2 DEF TypesInv, Phases
<1>5. FreshInv'
  BY <1>1, <1>2 DEF FreshInv
<1> QED  BY <1>1, <1>3, <1>4, <1>5 DEF EngineInv, CopiedAsShaped

LEMMA ConstructKeeps == ASSUME EngineInv, Construct  PROVE  EngineInv'
<1>1. /\ phase = "set" /\ phase' = "construct" /\ pos' = 0 /\ start' = 1 /\ hit' = {} /\ one' = FALSE
      /\ kept' = obj /\ UNCHANGED <<tmpl, tlv, obj, res>>
  BY DEF Construct, Begin
<1>2. tmpl \in Templates /\ Shaped(obj) /\ tlv \in Seq(TlvElements) /\ tlv = << >>
  BY <1>1 DEF EngineInv, TypesInv, FreshInv
<1>3. WriteInv'
  BY <1>1, <1>2, WriteBegins
<1>4. TypesInv'
  <2>1. Len(tmpl) \in Nat /\ Len(tlv) \in Nat
    BY <1>2, TemplateIs
  <2>2. Shaped(obj)'
    BY <1>1, <1>2, ShapeStays
  <2>3. one' \in BOOLEAN /\ hit' \in SUBSET DOMAIN tmpl' /\ pos' \in 0 .. Len(tlv') + Len(tmpl')
        /\ start' \in 1 .. Len(tmpl') + 1
    BY <1>1, <2>1, CursorBegins
  <2> QED  BY <1>1, <1>2, <2>2, <2>3 DEF TypesInv, Phases
<1> QED  BY <1>1, <1>3, <1>4 DEF EngineInv, FreshInv, Extracting, CopiedAsShaped

LEMMA LeaveKeeps == ASSUME EngineInv, Leave  PROVE  EngineInv'
<1>1. /\ tmpl' = << >> /\ phase' = "idle" /\ tlv' = << >> /\ obj' = Null /\ pos' = 0
      /\ start' = 1 /\ hit' = {} /\ one' = FALSE /\ kept' = Null /\ res' = "OK"
  BY DEF Leave
<1>2. Len(<< >>) = 0 /\ << >> \in Seq(TlvElements)
  OBVIOUS
<1>3. one' \in BOOLEAN /\ hit' \in SUBSET DOMAIN tmpl' /\ pos' \in 0 .. Len(tlv') + Len(tmpl')
      /\ start' \in 1 .. Len(tmpl') + 1
  BY <1>1, <1>2, CursorBegins
<1> QED  BY <1>1, <1>2, <1>3 DEF EngineInv, TypesInv, Phases, FreshInv, Extracting, CopiedAsShaped

\* An element is refused, taken by a slot, or skipped.
Refused ==
  /\ ~WellFormed(tlv) /\ phase' = "returned" /\ res' = "INVALID_FORMAT"
  /\ UNCHANGED <<tmpl, tlv, obj, pos, start, hit, one, kept>>
Taken ==
  /\ \E i \in DOMAIN tmpl :
       /\ tmpl[i].tag = Element.tag /\ i >= start /\ ~SlotError(Ready, tmpl[i], Element)
       /\ start' = TakenBy(i, Element).start /\ hit' = TakenBy(i, Element).hit
       /\ one' = TakenBy(i, Element).one /\ obj' = TakenBy(i, Element).obj
  /\ pos' = pos + 1 /\ UNCHANGED <<tmpl, phase, tlv, kept, res>>
Ignored ==
  /\ \A i \in DOMAIN tmpl : tmpl[i].tag = Element.tag => i < start /\ ~WellFormed(tlv)
  /\ Element.nonCritical
  /\ pos' = pos + 1 /\ UNCHANGED <<tmpl, phase, tlv, start, hit, one, obj, kept, res>>

LEMMA ElementIs ==
  ASSUME EngineInv, ExtractElement
  PROVE  InReading /\ (Refused \/ Taken \/ Ignored)
<1> DEFINE s == Offering(Element)[Len(tmpl)]
<1>1. Extracting /\ pos < Len(tlv) /\ InReading
  BY DEF ExtractElement, EngineInv, InReading
<1>2. tmpl \in Templates /\ Ready \in Loop /\ Element \in TlvElements /\ start \in Nat
      /\ DOMAIN tmpl = 1 .. Len(tmpl)
  BY <1>1, ReadingIs
<1>3. IF s.failed \/ (~s.matched /\ ~Element.nonCritical)
      THEN /\ phase' = "returned" /\ res' = "INVALID_FORMAT"
           /\ UNCHANGED <<tmpl, tlv, obj, pos, start, hit, one, kept>>
      ELSE /\ start' = s.start /\ hit' = s.hit /\ one' = s.one /\ obj' = s.obj
           /\ pos' = pos + 1
           /\ UNCHANGED <<tmpl, phase, tlv, kept, res>>
  BY DEF ExtractElement, Element, Return
<1> HIDE DEF s
<1>4. WellFormed(tlv) =>
        \/ (\A i \in DOMAIN tmpl : tmpl[i].tag # Element.tag) /\ Element.nonCritical
        \/ \E i \in DOMAIN tmpl :
             tmpl[i].tag = Element.tag /\ i >= start /\ ~SlotError(Ready, tmpl[i], Element)
  BY <1>1, WellFormedTakes
<1>5. CASE \A i \in DOMAIN tmpl : tmpl[i].tag = Element.tag => i < start
  <2>1. s = Ready
    BY <1>2, <1>5, NotOffered DEF s
  <2>2. s.failed = FALSE /\ s.matched = FALSE /\ s.start = start /\ s.hit = hit /\ s.one = one /\ s.obj = obj
    BY <2>1 DEF Ready
  <2>3. ~(\E i \in DOMAIN tmpl :
            tmpl[i].tag = Element.tag /\ i >= start /\ ~SlotError(Ready, tmpl[i], Element))
    BY <1>2, <1>5
  <2>4. CASE Element.nonCritical
    <3>1. /\ start' = start /\ hit' = hit /\ one' = one /\ obj' = obj
          /\ pos' = pos + 1 /\ UNCHANGED <<tmpl, phase, tlv, kept, res>>
      BY <1>3, <2>2, <2>4
    <3>2. \A i \in DOMAIN tmpl : tmpl[i].tag = Element.tag => ~WellFormed(tlv)
      BY <1>4, <2>3
    <3> QED  BY <1>1, <1>5, <2>4, <3>1, <3>2 DEF Ignored
  <2>5. CASE ~Element.nonCritical
    <3>1. ~WellFormed(tlv)
      BY <1>4, <2>3, <2>5
    <3>2. /\ phase' = "returned" /\ res' = "INVALID_FORMAT"
          /\ UNCHANGED <<tmpl, tlv, obj, pos, start, hit, one, kept>>
      BY <1>3, <2>2, <2>5
    <3> QED  BY <1>1, <3>1, <3>2 DEF Refused
  <2> QED  BY <2>4, <2>5
<1>6. CASE \E i \in DOMAIN tmpl : tmpl[i].tag = Element.tag /\ ~(i < start)
  <2>1. PICK i \in DOMAIN tmpl : tmpl[i].tag = Element.tag /\ i >= start
    BY <1>2, <1>6
  <2>2. IF SlotError(Ready, tmpl[i], Element) THEN s.failed ELSE s = TakenBy(i, Element)
    BY <1>2, <2>1, Offered DEF s
  <2>3. CASE SlotError(Ready, tmpl[i], Element)
    <3>1. s.failed
      BY <2>2, <2>3
    <3>2. ~WellFormed(tlv)
      BY <1>2, <1>4, <2>1, <2>3, TagsTell
    <3>3. /\ phase' = "returned" /\ res' = "INVALID_FORMAT"
          /\ UNCHANGED <<tmpl, tlv, obj, pos, start, hit, one, kept>>
      BY <1>3, <3>1
    <3> QED  BY <1>1, <3>2, <3>3 DEF Refused
  <2>4. CASE ~SlotError(Ready, tmpl[i], Element)
    <3>1. s = TakenBy(i, Element)
      BY <2>2, <2>4
    <3>2. s.failed = FALSE /\ s.matched = TRUE
      BY <3>1 DEF TakenBy
    <3>3. /\ start' = s.start /\ hit' = s.hit /\ one' = s.one /\ obj' = s.obj
          /\ pos' = pos + 1 /\ UNCHANGED <<tmpl, phase, tlv, kept, res>>
      BY <1>3, <3>2
    <3> QED  BY <1>1, <2>1, <2>4, <3>1, <3>3 DEF Taken
  <2> QED  BY <2>3, <2>4
<1> QED  BY <1>5, <1>6

LEMMA CopyStays ==
  ASSUME CopyInv, UNCHANGED <<tmpl, tlv, kept>>
  PROVE  CopyInv'
<1>1. Shaped(kept)'
  BY ShapeStays DEF CopyInv
<1>2. (\A k \in 1 .. Len(tlv) : Written(tlv[k]))'
  BY DEF CopyInv, Written, Fields, TagsOf
<1>3. \A f : Contents(Selected(tlv, Of(f)))' = Contents(Selected(tlv, Of(f)))
             /\ ValuesOf(kept, f)' = ValuesOf(kept, f)
  BY DEF Contents, ValueOf, Selected, Selecting, Of, TagsOf, ValuesOf
<1>4. Fields(tmpl)' = Fields(tmpl)
  BY DEF Fields
<1> QED  BY <1>1, <1>2, <1>3, <1>4 DEF CopyInv

LEMMA ExtractElementKeeps == ASSUME EngineInv, ExtractElement  PROVE  EngineInv'
<1>1. InReading /\ (Refused \/ Taken \/ Ignored)
  BY ElementIs
<1>2. TypesInv /\ FreshInv /\ phase \in {"extract", "copy"} /\ (phase = "copy" => CopyInv)
  BY <1>1 DEF EngineInv, InReading, Extracting
<1>3. CASE Refused
  <2>1. kept = Null \/ ~Proper(kept)
    <3>1. CASE phase = "extract"
      BY <1>2, <3>1 DEF FreshInv
    <3>2. CASE phase = "copy"
      BY <1>2, <1>3, <3>2, ProperIsWellFormed DEF Refused
    <3> QED  BY <1>2, <3>1, <3>2
  <2> QED  BY <1>2, <1>3, <2>1, ReturnKeeps DEF Refused
<1>4. CASE Taken \/ Ignored
  <2>1. TypesInv' /\ ReadInv'
    <3>1. CASE Taken
      <4>1. PICK i \in DOMAIN tmpl :
              /\ tmpl[i].tag = Element.tag /\ i >= start /\ ~SlotError(Ready, tmpl[i], Element)
              /\ start' = TakenBy(i, Element).start /\ hit' = TakenBy(i, Element).hit
              /\ one' = TakenBy(i, Element).one /\ obj' = TakenBy(i, Element).obj
        BY <3>1 DEF Taken
      <4>2. pos' = pos + 1 /\ UNCHANGED <<tmpl, phase, tlv>>
        BY <3>1 DEF Taken
      <4> QED  BY <1>1, <4>1, <4>2, TakingKeepsTypes, TakingKeepsRead
    <3>2. CASE Ignored
      BY <1>1, <1>2, <3>2, SkippingKeepsRead DEF Ignored
    <3> QED  BY <1>4, <3>1, <3>2
  <2>2. UNCHANGED <<tmpl, phase, tlv, kept>>
    BY <1>4 DEF Taken, Ignored
  <2>3. FreshInv'
    BY <1>2, <2>2 DEF FreshInv
  <2>4. phase = "copy" => CopyInv'
    BY <1>2, <2>2, CopyStays
  <2> QED  BY <1>2, <2>1, <2>2, <2>3, <2>4 DEF EngineInv, CopiedAsShaped
<1> QED  BY <1>1, <1>3, <1>4

LEMMA ExtractEndKeeps == ASSUME EngineInv, ExtractEnd  PROVE  EngineInv'
<1>1. TypesInv /\ FreshInv /\ ReadInv /\ Extracting /\ phase \in {"extract", "copy"}
      /\ (phase = "copy" => CopyInv) /\ pos = Len(tlv) /\ phase # "idle"
  BY DEF EngineInv, ExtractEnd, Extracting
<1>2. CASE ~Complete
  <2>1. phase' = "returned" /\ res' = "INVALID_FORMAT"
        /\ UNCHANGED <<tmpl, tlv, obj, pos, start, hit, one, kept>>
    BY <1>2 DEF ExtractEnd, Return
  <2>2. ~WellFormed(tlv)
    BY <1>1, <1>2, WellFormedCompletes
  <2>3. kept = Null \/ ~Proper(kept)
    BY <1>1, <2>2, ProperIsWellFormed DEF FreshInv
  <2> QED  BY <1>1, <2>1, <2>3, ReturnKeeps
<1>3. CASE Complete /\ phase = "copy"
  <2>1. phase' = "returned" /\ res' = "OK"
        /\ UNCHANGED <<tmpl, tlv, obj, pos, start, hit, one, kept>>
    BY <1>3 DEF ExtractEnd, Return
  <2>2. Same(obj, kept) /\ Proper(kept)
    BY <1>1, <1>3, CopyIsSame
  <2> QED  BY <1>1, <2>1, <2>2, ReturnKeeps
<1>4. CASE Complete /\ phase = "extract"
  <2>1. /\ phase' = "construct" /\ pos' = 0 /\ start' = 1 /\ hit' = {} /\ one' = FALSE
        /\ kept' = obj /\ tlv' = << >> /\ UNCHANGED <<tmpl, obj, res>>
    BY <1>4 DEF ExtractEnd, Begin
  <2>2. tmpl \in Templates /\ Shaped(obj)
    BY <1>1 DEF TypesInv
  <2>3. WriteInv'
    BY <2>1, <2>2, WriteBegins
  <2>4. Shaped(obj)'
    BY <2>1, <2>2, ShapeStays
  <2>5. Len(tmpl') \in Nat /\ Len(tlv') \in Nat
    <3>1. Len(<< >>) = 0
      OBVIOUS
    <3> QED  BY <2>1, <2>2, <3>1, TemplateIs
  <2>6. one' \in BOOLEAN /\ hit' \in SUBSET DOMAIN tmpl' /\ pos' \in 0 .. Len(tlv') + Len(tmpl')
        /\ start' \in 1 .. Len(tmpl') + 1
    BY <2>1, <2>5, CursorBegins
  <2>7. TypesInv'
    BY <2>1, <2>2, <2>4, <2>6 DEF TypesInv, Phases
  <2> QED  BY <2>1, <2>3, <2>7 DEF EngineInv, FreshInv, Extracting, CopiedAsShaped
<1> QED  BY <1>1, <1>2, <1>3, <1>4

\* A proper object has everything hit that must be.
LEMMA ProperCompletes ==
  ASSUME TypesInv, WriteInv, phase # "idle", pos = Len(tmpl), Proper(kept)
  PROVE  Complete
<1>1. tmpl \in Templates /\ Shaped(obj) /\ hit \in SUBSET DOMAIN tmpl /\ kept = obj
  BY DEF TypesInv, WriteInv
<1>2. CountsFit([f \in Fields(tmpl) |-> Len(ValuesOf(obj, f))])
  BY <1>1 DEF Proper
<1>3. ASSUME NEW f \in Fields(tmpl), Len(ValuesOf(obj, f)) >= 1
      PROVE  \E i \in hit : tmpl[i].field = f
  <2>1. obj[f] # Null
    BY <1>3 DEF ValuesOf
  <2>2. PICK i \in DOMAIN tmpl : tmpl[i].field = f /\ ~Is(tmpl[i], "no_serialize")
    BY <1>1, TemplateIs
  <2>3. i <= pos
    BY <1>1, TemplateIs
  <2> QED  BY <2>1, <2>2, <2>3 DEF WriteInv
<1> DEFINE c == [f \in Fields(tmpl) |-> Len(ValuesOf(obj, f))]
<1>4. \A f \in Fields(tmpl) : c[f] = Len(ValuesOf(obj, f))
  OBVIOUS
<1>5. CountsFit(c)
  BY <1>2
<1> HIDE DEF c
<1> QED  BY <1>1, <1>3, <1>4, <1>5, CountedCompletes

LEMMA ConstructEndKeeps == ASSUME EngineInv, ConstructEnd  PROVE  EngineInv'
<1>1. TypesInv /\ FreshInv /\ WriteInv /\ phase = "construct" /\ pos = Len(tmpl)
  BY DEF EngineInv, ConstructEnd
<1>2. CASE ~Complete
  <2>1. phase' = "returned" /\ res' = "INVALID_FORMAT"
        /\ UNCHANGED <<tmpl, tlv, obj, pos, start, hit, one, kept>>
    BY <1>2 DEF ConstructEnd, Return
  <2>2. ~Proper(kept)
    BY <1>1, <1>2, ProperCompletes
  <2> QED  BY <1>1, <2>1, <2>2, ReturnKeeps
<1>3. CASE Complete
  <2>1. /\ phase' = "copy" /\ pos' = 0 /\ start' = 1 /\ hit' = {} /\ one' = FALSE
        /\ obj' = Empty(tmpl) /\ UNCHANGED <<tmpl, tlv, kept, res>>
    BY <1>3 DEF ConstructEnd, Begin
  <2>2. tmpl \in Templates /\ Shaped(obj) /\ tlv \in Seq(TlvElements)
    BY <1>1 DEF TypesInv
  <2>3. Len(tmpl) \in Nat /\ DOMAIN tmpl = 1 .. Len(tmpl)
    BY <2>2, TemplateIs
  <2>4. CopyInv
    <3>1. \A f \in Fields(tmpl) : Contents(Selected(tlv, Of(f))) = ValuesOf(kept, f)
      <4> TAKE f \in Fields(tmpl)
      <4>1. \E i \in DOMAIN tmpl : i <= pos /\ tmpl[i].field = f /\ ~Is(tmpl[i], "no_serialize")
        BY <1>1, <2>2, <2>3, TemplateIs
      <4> QED  BY <1>1, <4>1 DEF WriteInv
    <3> QED  BY <1>1, <2>2, <3>1 DEF WriteInv, CopyInv
  <2>5. CopyInv'
    BY <2>1, <2>4, CopyStays
  <2>6. Shaped(obj)' /\ ReadInv'
    BY <2>1, <2>2, ReadBegins
  <2>7. one' \in BOOLEAN /\ hit' \in SUBSET DOMAIN tmpl' /\ pos' \in 0 .. Len(tlv') + Len(tmpl')
        /\ start' \in 1 .. Len(tmpl') + 1
    <3>1. Len(tmpl') \in Nat /\ Len(tlv') \in Nat
      BY <2>1, <2>2, <2>3
    <3> QED  BY <2>1, <3>1, CursorBegins
  <2>8. TypesInv'
    BY <2>1, <2>2, <2>6, <2>7 DEF TypesInv, Phases
  <2> QED  BY <2>1, <2>5, <2>6, <2>8 DEF EngineInv, FreshInv, CopiedAsShaped
<1> QED  BY <1>2, <1>3

\* A slot, and the elements its values are written as.
ThisSlot == tmpl[pos + 1]
ItsElements ==
  [k \in DOMAIN obj[ThisSlot.field] |->
     [tag |-> obj[ThisSlot.field][k].tag, val |-> obj[ThisSlot.field][k].val, nonCritical |-> FALSE]]

LEMMA WritingIs ==
  ASSUME TypesInv, phase # "idle", pos < Len(tmpl)
  PROVE  /\ tmpl \in Templates /\ Shaped(obj) /\ tlv \in Seq(TlvElements) /\ Len(tlv) \in Nat
         /\ DOMAIN tmpl = 1 .. Len(tmpl) /\ Len(tmpl) \in Nat /\ pos \in Nat
         /\ pos + 1 \in DOMAIN tmpl /\ ThisSlot.field \in Fields(tmpl)
<1>1. tmpl \in Templates /\ Shaped(obj) /\ tlv \in Seq(TlvElements) /\ Len(tlv) \in Nat
      /\ pos \in 0 .. Len(tlv) + Len(tmpl)
  BY DEF TypesInv
<1>2. DOMAIN tmpl = 1 .. Len(tmpl) /\ Len(tmpl) \in Nat
  BY <1>1, TemplateIs
<1>3. pos \in Nat /\ pos + 1 \in DOMAIN tmpl
  BY <1>1, <1>2
<1> QED  BY <1>1, <1>2, <1>3, TemplateIs DEF ThisSlot

\* The elements that are written have the values of the field and belong to no other.
LEMMA WrittenElements ==
  ASSUME TypesInv, phase # "idle", pos < Len(tmpl), obj[ThisSlot.field] # Null,
         \A k \in DOMAIN obj[ThisSlot.field] : obj[ThisSlot.field][k].val # Bad
  PROVE  /\ ItsElements \in Seq(TlvElements)
         /\ Contents(ItsElements) = ValuesOf(obj, ThisSlot.field)
         /\ \A k \in 1 .. Len(ItsElements) :
              Written(ItsElements[k]) /\ \A f : ItsElements[k] \in Of(f) <=> f = ThisSlot.field
<1> DEFINE g == ThisSlot.field
           s == obj[g]
<1>1. tmpl \in Templates /\ Shaped(obj) /\ g \in Fields(tmpl)
  BY WritingIs
<1>2. s = ValuesOf(obj, g) /\ s \in Seq(Values)
  BY <1>1, ObjectIs
<1>3. \A k \in DOMAIN s : s[k].tag \in TagsOf(g) /\ s[k].val # Bad /\ s[k] \in Values
  BY <1>1, <1>2 DEF Shaped
<1>4. DOMAIN s = 1 .. Len(s) /\ Len(s) \in Nat
  BY <1>2
<1>5. ItsElements = [k \in 1 .. Len(s) |-> [tag |-> s[k].tag, val |-> s[k].val, nonCritical |-> FALSE]]
  BY <1>4 DEF ItsElements
<1>6. ASSUME NEW k \in 1 .. Len(s)
      PROVE  /\ ItsElements[k] = [tag |-> s[k].tag, val |-> s[k].val, nonCritical |-> FALSE]
             /\ ItsElements[k] \in TlvElements
             /\ ValueOf(ItsElements[k]) = s[k]
             /\ Written(ItsElements[k])
             /\ \A f : ItsElements[k] \in Of(f) <=> f = g
  <2> HIDE DEF s, g
  <2>1. ItsElements[k] = [tag |-> s[k].tag, val |-> s[k].val, nonCritical |-> FALSE]
    BY <1>5
  <2>2. s[k] \in Values /\ s[k].tag \in TagsOf(g) /\ s[k].val # Bad
    BY <1>3, <1>4
  <2>3. ItsElements[k] \in TlvElements
    BY <2>1, <2>2 DEF TlvElements, Values
  <2>4. ValueOf(ItsElements[k]) = s[k]
    BY <2>1, <2>2 DEF ValueOf, Values
  <2>5. Written(ItsElements[k])
    BY <1>1, <2>1, <2>2 DEF Written
  <2>6. PICK i \in DOMAIN tmpl : tmpl[i].field = g /\ s[k].tag = tmpl[i].tag
    BY <2>2 DEF TagsOf
  <2>7. \A f : s[k].tag \in TagsOf(f) <=> f = g
    BY <1>1, <2>6, TagsTell
  <2>8. \A f : ItsElements[k] \in Of(f) <=> f = g
    BY <2>1, <2>3, <2>7 DEF Of
  <2> QED  BY <2>1, <2>3, <2>4, <2>5, <2>8
<1> HIDE DEF s, g
<1>7. ItsElements \in Seq(TlvElements) /\ Len(ItsElements) = Len(s)
  BY <1>4, <1>5, <1>6
<1>8. Contents(ItsElements) = s
  <2>1. Contents(ItsElements) = [k \in 1 .. Len(s) |-> s[k]]
    BY <1>6, <1>7 DEF Contents
  <2>2. s = [k \in 1 .. Len(s) |-> s[k]]
    BY <1>2
  <2> QED  BY <2>1, <2>2
<1> QED  BY <1>2, <1>6, <1>7, <1>8 DEF g

\* One more slot is dealt with.
WrittenSoFar(f, p) ==
  \E i \in DOMAIN tmpl : i <= p /\ tmpl[i].field = f /\ ~Is(tmpl[i], "no_serialize")

LEMMA ConstructSlotKeeps == ASSUME EngineInv, ConstructSlot  PROVE  EngineInv'
<1> DEFINE i == pos + 1
           slot == ThisSlot
           g == ThisSlot.field
<1>1. TypesInv /\ FreshInv /\ WriteInv /\ phase = "construct" /\ pos < Len(tmpl) /\ phase # "idle"
  BY DEF EngineInv, ConstructSlot
<1>2. /\ tmpl \in Templates /\ Shaped(obj) /\ tlv \in Seq(TlvElements) /\ Len(tlv) \in Nat
      /\ DOMAIN tmpl = 1 .. Len(tmpl) /\ Len(tmpl) \in Nat /\ pos \in Nat
      /\ i \in DOMAIN tmpl /\ g \in Fields(tmpl)
  BY <1>1, WritingIs
<1>3. IF Skipped(slot)
      THEN pos' = i /\ UNCHANGED <<tmpl, phase, tlv, obj, start, hit, one, kept, res>>
      ELSE IF \E k \in DOMAIN obj[g] : obj[g][k].val = Bad
      THEN /\ phase' = "returned" /\ res' = "INVALID_FORMAT"
           /\ UNCHANGED <<tmpl, tlv, obj, pos, start, hit, one, kept>>
      ELSE /\ pos' = i /\ hit' = hit \cup {i} /\ one' = (one \/ Is(slot, "most_one"))
           /\ tlv' = tlv \o ItsElements
           /\ UNCHANGED <<tmpl, phase, obj, start, kept, res>>
  BY DEF ConstructSlot, Return, ThisSlot, ItsElements
<1>4. /\ \A j \in DOMAIN tmpl : j <= i <=> j <= pos \/ j = i
      /\ \A f \in Fields(tmpl) : WrittenSoFar(f, i) <=>
           WrittenSoFar(f, pos) \/ (f = g /\ ~Is(slot, "no_serialize"))
  BY <1>2 DEF WrittenSoFar, ThisSlot
<1>5. /\ kept = obj
      /\ \A j \in DOMAIN tmpl :
           j \in hit <=> j <= pos /\ ~Is(tmpl[j], "no_serialize") /\ obj[tmpl[j].field] # Null
      /\ \A k \in 1 .. Len(tlv) : Written(tlv[k])
      /\ \A f \in Fields(tmpl) :
           Contents(Selected(tlv, Of(f))) = IF WrittenSoFar(f, pos) THEN ValuesOf(obj, f) ELSE << >>
  BY <1>1 DEF WriteInv, WrittenSoFar
<1> HIDE DEF i
<1>6. CASE Skipped(slot)
  <2>1. pos' = i /\ UNCHANGED <<tmpl, phase, tlv, obj, start, hit, one, kept, res>>
    BY <1>3, <1>6
  <2>2. Is(slot, "no_serialize") \/ obj[g] = Null
    BY <1>6 DEF Skipped
  <2>3. \A j \in DOMAIN tmpl :
          j \in hit <=> j <= i /\ ~Is(tmpl[j], "no_serialize") /\ obj[tmpl[j].field] # Null
    BY <1>2, <1>4, <1>5, <2>2 DEF ThisSlot, i
  <2>4. \A f \in Fields(tmpl) :
          Contents(Selected(tlv, Of(f))) = IF WrittenSoFar(f, i) THEN ValuesOf(obj, f) ELSE << >>
    <3>1. obj[g] = Null => ValuesOf(obj, g) = << >>
      BY DEF ValuesOf
    <3> QED  BY <1>4, <1>5, <2>2, <3>1
  <2>5. WriteInv'
    <3>1. \A f : Contents(Selected(tlv, Of(f)))' = Contents(Selected(tlv, Of(f)))
                 /\ ValuesOf(obj, f)' = ValuesOf(obj, f)
      BY <2>1 DEF Contents, ValueOf, Selected, Selecting, Of, TagsOf, ValuesOf
    <3>2. Fields(tmpl)' = Fields(tmpl) /\ \A f : WrittenSoFar(f, pos)' <=> WrittenSoFar(f, i)
      BY <2>1 DEF Fields, WrittenSoFar, Is
    <3>3. (\A k \in 1 .. Len(tlv) : Written(tlv[k]))'
      BY <1>5, <2>1 DEF Written, Fields, TagsOf
    <3>4. (\A j \in DOMAIN tmpl :
             j \in hit <=> j <= pos /\ ~Is(tmpl[j], "no_serialize") /\ obj[tmpl[j].field] # Null)'
      BY <2>1, <2>3 DEF Is
    <3>5. (\A f \in Fields(tmpl) :
             Contents(Selected(tlv, Of(f))) = IF WrittenSoFar(f, pos) THEN ValuesOf(obj, f) ELSE << >>)'
      BY <2>4, <3>1, <3>2
    <3>6. (kept = obj /\ pos <= Len(tmpl))'
      BY <1>2, <1>5, <2>1
    <3> QED  BY <3>3, <3>4, <3>5, <3>6 DEF WriteInv, WrittenSoFar
  <2>6. TypesInv'
    <3>1. pos' \in 0 .. Len(tlv') + Len(tmpl')
      BY <1>2, <2>1
    <3>2. Shaped(obj)'
      BY <1>2, <2>1, ShapeStays
    <3> QED  BY <1>1, <1>2, <2>1, <3>1, <3>2 DEF TypesInv
  <2> QED  BY <1>1, <2>1, <2>5, <2>6 DEF EngineInv, FreshInv, Extracting, CopiedAsShaped
<1>7. CASE ~Skipped(slot) /\ \E k \in DOMAIN obj[g] : obj[g][k].val = Bad
  <2>1. phase' = "returned" /\ res' = "INVALID_FORMAT"
        /\ UNCHANGED <<tmpl, tlv, obj, pos, start, hit, one, kept>>
    BY <1>3, <1>7
  <2>2. ~Proper(kept)
    <3>1. PICK k \in DOMAIN obj[g] : obj[g][k].val = Bad
      BY <1>7
    <3>2. obj[g] # Null
      BY <1>7 DEF Skipped
    <3>3. k \in DOMAIN ValuesOf(obj, g)
      BY <3>1, <3>2 DEF ValuesOf
    <3> QED  BY <1>2, <1>5, <3>1, <3>3 DEF Proper
  <2> QED  BY <1>1, <2>1, <2>2, ReturnKeeps
<1>8. CASE ~Skipped(slot) /\ ~\E k \in DOMAIN obj[g] : obj[g][k].val = Bad
  <2>1. /\ pos' = i /\ hit' = hit \cup {i} /\ one' = (one \/ Is(slot, "most_one"))
        /\ tlv' = tlv \o ItsElements
        /\ UNCHANGED <<tmpl, phase, obj, start, kept, res>>
    BY <1>3, <1>8
  <2>2. ~Is(slot, "no_serialize") /\ obj[g] # Null
    BY <1>8 DEF Skipped
  <2>3. /\ ItsElements \in Seq(TlvElements)
        /\ Contents(ItsElements) = ValuesOf(obj, g)
        /\ \A k \in 1 .. Len(ItsElements) :
             Written(ItsElements[k]) /\ \A f : ItsElements[k] \in Of(f) <=> f = g
    BY <1>1, <1>8, <2>2, WrittenElements
  <2>4. tlv' \in Seq(TlvElements) /\ Len(tlv') = Len(tlv) + Len(ItsElements) /\ Len(ItsElements) \in Nat
        /\ \A k \in 1 .. Len(tlv') :
             \/ k \in 1 .. Len(tlv) /\ tlv'[k] = tlv[k]
             \/ k - Len(tlv) \in 1 .. Len(ItsElements) /\ tlv'[k] = ItsElements[k - Len(tlv)]
    BY <1>2, <2>1, <2>3
  <2>5. \A k \in 1 .. Len(tlv') : Written(tlv'[k])
    BY <1>5, <2>3, <2>4
  <2>6. \A j \in DOMAIN tmpl :
          j \in hit' <=> j <= i /\ ~Is(tmpl[j], "no_serialize") /\ obj[tmpl[j].field] # Null
    BY <1>2, <1>4, <1>5, <2>1, <2>2 DEF ThisSlot, i
  <2>7. ~WrittenSoFar(g, pos)
    <3>1. ASSUME NEW j \in DOMAIN tmpl, j <= pos, tmpl[j].field = g, ~Is(tmpl[j], "no_serialize")
          PROVE  FALSE
      <4>1. tmpl[i].field = g /\ ~Is(tmpl[i], "no_serialize")
        BY <2>2 DEF ThisSlot, i
      <4>2. j = i
        BY <1>2, <3>1, <4>1, Sharing
      <4> QED  BY <1>2, <3>1, <4>2 DEF i
    <3> QED  BY <3>1 DEF WrittenSoFar
  <2>8. ASSUME NEW f \in Fields(tmpl)
        PROVE  Contents(Selected(tlv', Of(f))) = IF WrittenSoFar(f, i) THEN ValuesOf(obj, f) ELSE << >>
    <3>1. Selected(tlv', Of(f)) = Selected(tlv, Of(f)) \o Selected(ItsElements, Of(f))
      BY <1>2, <2>1, <2>3, SelectedOfConcat
    <3>2. Selected(tlv, Of(f)) \in Seq(TlvElements)
      BY <1>2, SelectedType
    <3>3. CASE f = g
      <4>1. Selected(ItsElements, Of(f)) = ItsElements
        BY <2>3, <3>3, SelectedAll
      <4>2. Contents(Selected(tlv, Of(f))) = << >>
        BY <1>2, <1>5, <2>7, <3>3
      <4>3. Selected(tlv, Of(f)) = << >>
        <5>1. Len(Contents(Selected(tlv, Of(f)))) = Len(Selected(tlv, Of(f)))
          BY <3>2, ContentsAre
        <5>2. Len(Selected(tlv, Of(f))) = 0
          BY <4>2, <5>1
        <5> DEFINE s == Selected(tlv, Of(f))
        <5>3. s \in Seq(TlvElements) /\ Len(s) = 0
          BY <3>2, <5>2
        <5> HIDE DEF s
        <5>4. s = << >>
          BY <5>3
        <5> QED  BY <5>4 DEF s
      <4>4. Selected(tlv', Of(f)) = ItsElements
        <5>1. << >> \o ItsElements = ItsElements
          BY <2>3
        <5> QED  BY <3>1, <4>1, <4>3, <5>1
      <4> QED  BY <1>4, <2>2, <2>3, <3>3, <4>4
    <3>4. CASE f # g
      <4>1. Selected(ItsElements, Of(f)) = << >>
        BY <2>3, <3>4, SelectedNone
      <4>2. Selected(tlv', Of(f)) = Selected(tlv, Of(f))
        <5> DEFINE s == Selected(tlv, Of(f))
        <5>1. s \in Seq(TlvElements)
          BY <3>2
        <5> HIDE DEF s
        <5>2. s \o << >> = s
          BY <5>1
        <5> QED  BY <3>1, <4>1, <5>2 DEF s
      <4> QED  BY <1>4, <1>5, <3>4, <4>2
    <3> QED  BY <3>3, <3>4
  <2>9. WriteInv'
    <3>1. \A f : Contents(Selected(tlv, Of(f)))' = Contents(Selected(tlv', Of(f)))
                 /\ ValuesOf(obj, f)' = ValuesOf(obj, f)
      BY <2>1 DEF Contents, ValueOf, Selected, Selecting, Of, TagsOf, ValuesOf
    <3>2. Fields(tmpl)' = Fields(tmpl) /\ \A f : WrittenSoFar(f, pos)' <=> WrittenSoFar(f, i)
      BY <2>1 DEF Fields, WrittenSoFar, Is
    <3>3. (\A k \in 1 .. Len(tlv) : Written(tlv[k]))'
      <4>1. tmpl' = tmpl
        BY <2>1
      <4> QED  BY <2>5, <4>1 DEF Written, Fields, TagsOf
    <3>4. (\A j \in DOMAIN tmpl :
             j \in hit <=> j <= pos /\ ~Is(tmpl[j], "no_serialize") /\ obj[tmpl[j].field] # Null)'
      BY <2>1, <2>6 DEF Is
    <3>5. (\A f \in Fields(tmpl) :
             Contents(Selected(tlv, Of(f))) = IF WrittenSoFar(f, pos) THEN ValuesOf(obj, f) ELSE << >>)'
      BY <2>8, <3>1, <3>2
    <3>6. (kept = obj /\ pos <= Len(tmpl))'
      BY <1>2, <1>5, <2>1
    <3> QED  BY <3>3, <3>4, <3>5, <3>6 DEF WriteInv, WrittenSoFar
  <2>10. TypesInv'
    <3>1. pos' \in 0 .. Len(tlv') + Len(tmpl')
      BY <1>2, <2>1, <2>4
    <3>2. Shaped(obj)'
      BY <1>2, <2>1, ShapeStays
    <3>3. hit' \in SUBSET DOMAIN tmpl
      BY <1>1, <1>2, <2>1 DEF TypesInv
    <3>4. one' \in BOOLEAN
      BY <2>1
    <3> QED  BY <1>1, <1>2, <2>1, <2>4, <3>1, <3>2, <3>3, <3>4 DEF TypesInv
  <2> QED  BY <1>1, <2>1, <2>9, <2>10 DEF EngineInv, FreshInv, Extracting, CopiedAsShaped
<1> QED  BY <1>6, <1>7, <1>8

\* Nothing happens.
LEMMA StutterKeeps == ASSUME EngineInv, UNCHANGED TVars  PROVE  EngineInv'
<1>1. UNCHANGED <<tmpl, phase, tlv, obj, pos, start, hit, one, kept, res>>
  BY DEF TVars
<1>2. TypesInv'
  <2>1. Shaped(obj)' <=> Shaped(obj)
    BY <1>1, ShapeStays
  <2> QED  BY <1>1, <2>1 DEF EngineInv, TypesInv
<1>3. FreshInv'
  <2>1. Empty(tmpl)' = Empty(tmpl)
    BY <1>1 DEF Empty, Fields
  <2> QED  BY <1>1, <2>1 DEF EngineInv, FreshInv
<1>4. (\A f : ValuesOf(obj, f)' = ValuesOf(obj, f)) /\ Fields(tmpl)' = Fields(tmpl)
      /\ \A f : Contents(Selecting(tlv, Of(f))[pos])' = Contents(Selecting(tlv, Of(f))[pos])
               /\ Contents(Selected(tlv, Of(f)))' = Contents(Selected(tlv, Of(f)))
  BY <1>1 DEF ValuesOf, Fields, Contents, ValueOf, Selected, Selecting, Of, TagsOf
<1>5. WellFormed(tlv)' <=> WellFormed(tlv)
  BY <1>1 DEF WellFormed, CountsFit, Fields, Single, SlotsOf, TagsOf, Belonging
<1>6. (\A k \in 1 .. Len(tlv) : Written(tlv[k]))' <=> \A k \in 1 .. Len(tlv) : Written(tlv[k])
  BY <1>1 DEF Written, Fields, TagsOf
<1>7. ReadInv => ReadInv'
  BY <1>1, <1>4, <1>5 DEF ReadInv, Is, ValueOf
<1>8. WriteInv => WriteInv'
  BY <1>1, <1>4, <1>6 DEF WriteInv, Is
<1>9. CopyInv => CopyInv'
  BY <1>1, CopyStays
<1>10. CopiedAsShaped'
  <2>1. (Proper(kept)' <=> Proper(kept)) /\ (Same(obj, kept)' <=> Same(obj, kept))
    BY <1>1, ShapeStays
  <2> QED  BY <1>1, <2>1 DEF EngineInv, CopiedAsShaped
<1> QED  BY <1>1, <1>2, <1>3, <1>7, <1>8, <1>9, <1>10 DEF EngineInv, Extracting

-----------------------------------------------------------------------------
(* The template engine: what is proved of it.                              *)

LEMMA EngineStep == EngineInv /\ [TNext]_TVars => EngineInv'
<1> SUFFICES ASSUME EngineInv, [TNext]_TVars  PROVE  EngineInv'
  OBVIOUS
<1>1. CASE Arrive  BY <1>1, ArriveKeeps
<1>2. CASE ReceiveElement  BY <1>2, ReceiveElementKeeps
<1>3. CASE Set  BY <1>3, SetKeeps
<1>4. CASE Extract  BY <1>4, ExtractKeeps
<1>5. CASE Construct  BY <1>5, ConstructKeeps
<1>6. CASE ExtractElement  BY <1>6, ExtractElementKeeps
<1>7. CASE ExtractEnd  BY <1>7, ExtractEndKeeps
<1>8. CASE ConstructSlot  BY <1>8, ConstructSlotKeeps
<1>9. CASE ConstructEnd  BY <1>9, ConstructEndKeeps
<1>10. CASE Leave  BY <1>10, LeaveKeeps
<1>11. CASE UNCHANGED TVars  BY <1>11, StutterKeeps
<1> QED
  BY <1>1, <1>2, <1>3, <1>4, <1>5, <1>6, <1>7, <1>8, <1>9, <1>10, <1>11 DEF TNext

\* In extractGenerator, a slot that is hit has its value, the slots the scan starts
\* behind have theirs and the group was hit once; in construct, the slots so far have
\* their values in the TLV, and read again it has those of the object.
THEOREM EngineInvariant == TSpec => []EngineInv
BY InitHolds, EngineStep, PTL DEF TSpec

\* extractGenerator's scan stays in the template, and a field that is no list has at
\* most one value, whoever set it.
THEOREM EngineTypeCorrect == TSpec => []TTypeOK
<1>1. EngineInv => TTypeOK
  <2> SUFFICES ASSUME EngineInv  PROVE  TTypeOK
    OBVIOUS
  <2>1. TypesInv
    BY DEF EngineInv
  <2>2. \A f \in Fields(tmpl) : Single(f) => Len(ValuesOf(obj, f)) <= 1
    <3>1. CASE phase = "idle"
      <4>1. Fields(tmpl) = {}
        BY <2>1, <3>1 DEF TypesInv, Fields
      <4> QED  BY <4>1
    <3>2. CASE phase # "idle"
      BY <2>1, <3>2 DEF TypesInv, Shaped
    <3> QED  BY <3>1, <3>2
  <2> QED  BY <2>1, <2>2 DEF TypesInv, Phases, TTypeOK
<1> QED  BY <1>1, EngineInvariant, PTL

\* construct writes, and extractGenerator takes from that, the object that was given,
\* or the caller is told: exactly if the object is what its template allows.
THEOREM CopiesAreCopies == TSpec => []CopiedAsShaped
<1>1. EngineInv => CopiedAsShaped
  BY DEF EngineInv
<1> QED  BY <1>1, EngineInvariant, PTL

\* The steps of an extraction.
LEMMA ExtractingMoves ==
  ASSUME EngineInv, [TNext]_TVars, phase = "extract", phase' # "extract"
  PROVE  \/ ExtractElement /\ phase' = "returned"
         \/ ExtractEnd
<1>1. UNCHANGED TVars => phase' = phase
  BY DEF TVars
<1>2. ~Arrive /\ ~ReceiveElement /\ ~Set /\ ~Extract /\ ~Construct /\ ~ConstructSlot
      /\ ~ConstructEnd /\ ~Leave
  BY DEF Arrive, ReceiveElement, Set, Extract, Construct, ConstructSlot, ConstructEnd, Leave
<1>3. ExtractElement => phase' = phase \/ phase' = "returned"
  BY DEF ExtractElement, Return
<1> QED  BY <1>1, <1>2, <1>3 DEF TNext

\* What ends an extraction leaves the object and the TLV says whether it is complete.
LEMMA ExtractionEnds ==
  ASSUME EngineInv, ExtractEnd, phase = "extract"
  PROVE  /\ TypesInv /\ ReadInv /\ Extracting /\ phase # "idle" /\ pos = Len(tlv)
         /\ IF Complete THEN phase' = "construct" /\ UNCHANGED <<tmpl, obj>>
            ELSE phase' = "returned"
BY DEF EngineInv, ExtractEnd, Extracting, Begin, Return

\* A step takes a well-formed TLV as it is.
LEMMA TakesWellFormed ==
  ASSUME EngineInv, [TNext]_TVars  PROVE  WellFormedTaken
<1> SUFFICES ASSUME phase = "extract", WellFormed(tlv)
             PROVE  /\ phase' # "returned"
                    /\ phase' = "construct" =>
                         \A f \in Fields(tmpl) :
                           LET mine == Belonging(tlv, f)
                           IN  ValuesOf(obj', f) = [k \in DOMAIN mine |-> [tag |-> mine[k].tag,
                                                                          val |-> mine[k].val]]
  BY DEF WellFormedTaken
<1>1. CASE phase' = "extract"
  BY <1>1
<1>2. CASE ExtractElement /\ phase' = "returned"
  <2>1. ~Taken /\ ~Ignored
    BY <1>2 DEF Taken, Ignored
  <2> QED  BY <1>2, <2>1, ElementIs DEF Refused
<1>3. CASE ExtractEnd
  <2>1. /\ TypesInv /\ ReadInv /\ Extracting /\ phase # "idle" /\ pos = Len(tlv)
        /\ IF Complete THEN phase' = "construct" /\ UNCHANGED <<tmpl, obj>>
           ELSE phase' = "returned"
    BY <1>3, ExtractionEnds
  <2>2. phase' = "construct" /\ obj' = obj
    BY <2>1, WellFormedCompletes
  <2>3. ASSUME NEW f \in Fields(tmpl)
        PROVE  LET mine == Belonging(tlv, f)
               IN  ValuesOf(obj', f) = [k \in DOMAIN mine |-> [tag |-> mine[k].tag,
                                                              val |-> mine[k].val]]
    <3> DEFINE mine == Belonging(tlv, f)
    <3>1. ValuesOf(obj, f) = Contents(mine) /\ mine \in Seq(TlvElements)
      BY <2>1, AllRead
    <3>2. DOMAIN mine = 1 .. Len(mine)
      BY <3>1
    <3>3. Contents(mine) = [k \in DOMAIN mine |-> [tag |-> mine[k].tag, val |-> mine[k].val]]
      BY <3>2 DEF Contents, ValueOf
    <3> HIDE DEF mine
    <3> QED  BY <2>2, <3>1, <3>3 DEF mine
  <2> QED  BY <2>2, <2>3
<1> QED  BY <1>1, <1>2, <1>3, ExtractingMoves

\* What a step takes is well-formed, but for elements that may be skipped.
LEMMA TakesOnlySound ==
  ASSUME EngineInv, [TNext]_TVars  PROVE  TakenSound
<1> SUFFICES ASSUME phase = "extract", phase' = "construct"
             PROVE  /\ CountsFit([f \in Fields(tmpl) |-> Len(ValuesOf(obj', f))])
                    /\ \A k \in DOMAIN tlv :
                         tlv[k].nonCritical
                         \/ \E f \in Fields(tmpl) :
                              [tag |-> tlv[k].tag, val |-> tlv[k].val] \in Range(ValuesOf(obj', f))
  BY DEF TakenSound
<1>1. ExtractEnd
  BY ExtractingMoves
<1>2. /\ TypesInv /\ ReadInv /\ Extracting /\ phase # "idle" /\ pos = Len(tlv)
      /\ Complete /\ UNCHANGED <<tmpl, obj>>
  BY <1>1, ExtractionEnds
<1>3. CountsFit([f \in Fields(tmpl) |-> Len(ValuesOf(obj', f))])
  <2>1. CountsFit(Counts(obj))
    BY <1>2, CompleteMeans
  <2>2. Counts(obj) = [f \in Fields(tmpl) |-> Len(ValuesOf(obj', f))]
    BY <1>2 DEF Counts
  <2> QED  BY <2>1, <2>2
<1>4. ASSUME NEW k \in DOMAIN tlv
      PROVE  tlv[k].nonCritical
             \/ \E f \in Fields(tmpl) :
                  [tag |-> tlv[k].tag, val |-> tlv[k].val] \in Range(ValuesOf(obj', f))
  <2>1. k \in 1 .. pos
    BY <1>2 DEF TypesInv
  <2> QED  BY <1>2, <2>1 DEF ReadInv, ValueOf
<1> QED  BY <1>3, <1>4

\* extractGenerator takes all the TLVs the template describes, in any order of their
\* elements, and no others but for elements that may be skipped.
THEOREM ReadsAsTemplatesSay == TSpec => ReadAsShaped
<1>1. EngineInv /\ [TNext]_TVars => [WellFormedTaken /\ TakenSound]_TVars
  BY TakesWellFormed, TakesOnlySound
<1> QED  BY <1>1, EngineInvariant, PTL DEF TSpec, ReadAsShaped
==============================================================================
