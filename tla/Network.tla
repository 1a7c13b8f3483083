------------------------------- MODULE Network -------------------------------
(***************************************************************************)
(* Requests to the KSI services (net.c) through the client that chooses a  *)
(* transport by the scheme of the address (net_uri.c): HTTP over one       *)
(* shared libcurl handle (net_http.c, net_http_curl.c) or TCP (net_tcp.c). *)
(*                                                                         *)
(* Sending makes a request handle and does no I/O.  The first call that    *)
(* asks a handle for its response performs the transfer and blocks; what   *)
(* the transfer brings is chosen by the environment.                       *)
(***************************************************************************)
EXTENDS Integers, Sequences, FiniteSets

CONSTANTS
  Handles,       \* request handles a caller may hold at a time
  HttpUrls,      \* addresses with a scheme that is served by HTTP
  TcpUrls,       \* ksi+tcp addresses with a host and a port
  BadUrls,       \* ksi+tcp addresses without a port
  PublicationsUrl,
  Keys,          \* HMAC keys; a key stands for a user and its password
  MaxSettings,   \* bound on the calls that configure the client
  MaxPieces,     \* bound on the pieces of data that failed transfers leave behind
  None           \* the NULL pointer

Services == {"extender", "aggregator"}
Clients == {"http", "tcp"}
Urls == HttpUrls \cup TcpUrls \cup BadUrls

ASSUME AddressesAssumption ==
  /\ HttpUrls \cap TcpUrls = {} /\ BadUrls \cap (HttpUrls \cup TcpUrls) = {}
  /\ PublicationsUrl \notin Urls
ASSUME NoneAssumption ==
  /\ None \notin Handles \cup Keys
  /\ None \notin [key : Keys, covered : BOOLEAN]
ASSUME BoundsAssumption == MaxSettings \in Nat /\ MaxPieces \in Nat

-----------------------------------------------------------------------------
VARIABLES
  account,   \* per transport and service: address and key (urlExtender, extPass ...)
  chosen,    \* per service: pExtendClient, pAggregationClient
  callback,  \* whether the context has a request header callback
  handles,   \* the request handles the caller holds
  curl,      \* options of the libcurl handle all HTTP requests share
  settings,  \* how many times the client has been configured
  wanted,    \* history: what was last asked of, and granted by, the setters
  last       \* the last call, its result and the response it handed out

vars == <<account, chosen, callback, handles, curl, settings, wanted, last>>

Account(url, key) == [url |-> url, key |-> key]
NoAccount == Account(None, None)
Call(op, h, res, given) == [op |-> op, handle |-> h, res |-> res, given |-> given]

Init ==
  /\ account = [c \in Clients |-> [s \in Services |-> NoAccount]]
  /\ chosen = [s \in Services |-> "http"]
  /\ callback = FALSE
  /\ handles = [h \in Handles |-> None]
  /\ curl = [url |-> None, post |-> None, into |-> None]
  /\ settings = 0
  /\ wanted = [s \in Services |-> NoAccount]
  /\ last = Call("none", None, "OK", None)

\* getClientByUriScheme: what is not ksi+tcp goes to HTTP.
ClientOf(url) == IF url \in TcpUrls \cup BadUrls THEN "tcp" ELSE "http"

\* Variant: setting either service reroutes the extender.
ChooseExtender(s, url) == chosen' = [chosen EXCEPT !["extender"] = ClientOf(url)]
Choose(s, url) == chosen' = [chosen EXCEPT ![s] = ClientOf(url)]

SetService(s, url, key) ==
  /\ settings < MaxSettings /\ settings' = settings + 1
  /\ IF url \in BadUrls
       THEN /\ last' = Call("set", None, "INVALID_ARGUMENT", None)
            /\ UNCHANGED <<account, chosen, wanted>>
       ELSE /\ account' = [account EXCEPT ![ClientOf(url)][s] = Account(url, key)]
            /\ Choose(s, url)
            /\ wanted' = [wanted EXCEPT ![s] = Account(url, key)]
            /\ last' = Call("set", None, "OK", None)
  /\ UNCHANGED <<callback, handles, curl>>

SetRequestHeaderCallback(on) ==
  /\ settings < MaxSettings /\ settings' = settings + 1
  /\ callback # on /\ callback' = on
  /\ last' = Call("callback", None, "OK", None)
  /\ UNCHANGED <<account, chosen, handles, curl, wanted>>

-----------------------------------------------------------------------------
(* Sending.  A handle remembers where its request goes, the request with   *)
(* the key of its HMAC and whether the HMAC is that of the header it is    *)
(* sent with, and what has been received.                                  *)

\* KSI_ExtendReq_enclose computes the HMAC and then lets the callback change the
\* header; KSI_AggregationReq_enclose lets the callback change it first.
EncloseExtendReq(key) == [key |-> key, covered |-> ~callback]
EncloseAggregationReq(key) == [key |-> key, covered |-> TRUE]

NewHandle(s, c, url, body) ==
  [service |-> s, client |-> c, url |-> url, body |-> body,
   raw |-> << >>, response |-> << >>, cut |-> FALSE]
HttpHandle(s, url, body) == NewHandle(s, "http", url, body)
TcpHandle(s, url, body) == NewHandle(s, "tcp", url, body)

\* KSI_sendExtendRequest, KSI_sendSignRequest
Send(s, h) ==
  LET a == account[chosen[s]][s]
      body == IF s = "extender" THEN EncloseExtendReq(a.key) ELSE EncloseAggregationReq(a.key)
      sent == IF chosen[s] = "http" THEN HttpHandle(s, a.url, body) ELSE TcpHandle(s, a.url, body)
  IN /\ handles[h] = None
     /\ IF a = NoAccount
          THEN last' = Call("send", h, "INVALID_ARGUMENT", None) /\ UNCHANGED handles
          ELSE last' = Call("send", h, "OK", None) /\ handles' = [handles EXCEPT ![h] = sent]
     /\ UNCHANGED <<account, chosen, callback, curl, settings, wanted>>

SendPublicationRequest(h) ==
  /\ handles[h] = None
  /\ handles' = [handles EXCEPT ![h] = HttpHandle("publications", PublicationsUrl, None)]
  /\ last' = Call("send", h, "OK", None)
  /\ UNCHANGED <<account, chosen, callback, curl, settings, wanted>>

FreeHandle(h) ==
  /\ handles[h] # None
  /\ handles' = [handles EXCEPT ![h] = None]
  /\ curl' = IF curl.into = h THEN [curl EXCEPT !.into = None] ELSE curl
  /\ last' = Call("free", h, "OK", None)
  /\ UNCHANGED <<account, chosen, callback, settings, wanted>>

-----------------------------------------------------------------------------
(* Transfers.  A reply is what the server at some address says to what it  *)
(* received: a PDU with an answer, with the request itself or with an      *)
(* error; something that is no PDU, such as an error page, whose status    *)
(* curl does not report since CURLOPT_FAILONERROR is not set; or nothing.  *)

Reply(kind, from, to, key) == [kind |-> kind, from |-> from, to |-> to, key |-> key]
Authenticated == {"answer", "request"}
PduKinds == Authenticated \cup {"error", "error_status_0"}
Replies(from, to) ==
  {Reply(k, from, to, key) : k \in Authenticated, key \in Keys}
  \cup {Reply(k, from, to, None) : k \in {"error", "error_status_0", "other"}}

\* curlReceive sets every option that another handle may have changed.
\* Variants: the body, or the receiver of the data, is left as it was.
OptionsOldBody(h) ==
  [url |-> handles[h].url, into |-> h,
   post |-> IF handles[h].body = None THEN curl.post ELSE h]
OptionsOldReceiver(h) ==
  [url |-> handles[h].url, into |-> IF curl.into = None THEN h ELSE curl.into, post |-> h]
Options(h) ==
  [url |-> handles[h].url, into |-> h,
   post |-> IF handles[h].body = None THEN None ELSE h]

\* Data that arrives is appended to the raw buffer.  It becomes the response, and
\* the buffer is emptied, when the transfer succeeds; after a failure it stays.
CurlReceive(h, bytes, ok) ==
  LET got == [handles EXCEPT ![curl'.into].raw = @ \o bytes]
  IN handles' =
       IF ok THEN [got EXCEPT ![h].response = got[h].raw, ![h].raw = << >>]
       ELSE [got EXCEPT ![h].cut = @ \/ bytes # << >>]

\* readResponse of net_tcp.c: a new connection, one TLV, all or nothing.
TcpReceive(h, bytes, ok) ==
  handles' = IF ok THEN [handles EXCEPT ![h].response = bytes] ELSE handles

\* What a transfer can bring: a whole reply, nothing, or the front of a reply before
\* the connection fails.  Over TCP nothing but a whole TLV is a success.
Whole(r) == [reply |-> r, whole |-> TRUE]
Front(r) == [reply |-> r, whole |-> FALSE]
Transfer(bytes, ok) == [bytes |-> bytes, ok |-> ok]
Transfers(h) ==
  LET r == handles[h]
      url == IF r.client = "http" THEN Options(h).url ELSE r.url
      to == IF r.client = "http" THEN Options(h).post ELSE h
      replies == {x \in Replies(url, to) : r.client = "tcp" => x.kind # "other"}
      front == <<Front(Reply("other", url, to, None))>>
  IN {Transfer(<<Whole(x)>>, TRUE) : x \in replies} \cup {Transfer(<< >>, FALSE)}
     \cup (IF r.client = "http" THEN {Transfer(<< >>, TRUE)} ELSE {})
     \cup (IF r.client = "http" /\ Len(r.raw) < MaxPieces THEN {Transfer(front, FALSE)} ELSE {})

\* receiveResponse
Receive(h, t) ==
  IF handles[h].client = "http"
    THEN curl' = Options(h) /\ CurlReceive(h, t.bytes, t.ok)
    ELSE TcpReceive(h, t.bytes, t.ok) /\ UNCHANGED curl

\* KSI_RequestHandle_getResponse: a transfer only when there is no response yet.
\* Variant: every call performs the request.
Cached == Transfer(<< >>, TRUE)
FetchAgain(h, t) == t \in Transfers(h) /\ Receive(h, t)
Fetch(h, t) ==
  \/ handles[h].response = << >> /\ t \in Transfers(h) /\ Receive(h, t)
  \/ handles[h].response # << >> /\ t = Cached /\ UNCHANGED <<handles, curl>>

GetResponse(h) ==
  /\ handles[h] # None /\ handles[h].service = "publications"
  /\ \E t \in Transfers(h) \cup {Cached} :
       /\ Fetch(h, t)
       /\ last' = Call("getResponse", h, IF t.ok THEN "OK" ELSE "NETWORK_ERROR", None)
  /\ UNCHANGED <<account, chosen, callback, settings, wanted>>

-----------------------------------------------------------------------------
(* Answers.                                                                *)

\* Variant: the key of the transport the service would use now.
ChosenKey(h) == account[chosen[handles[h].service]][handles[h].service].key
\* handle->client->extPass, handle->client->aggrPass
AnswerKey(h) == account[handles[h].client][handles[h].service].key

IsPdu(bytes) == Len(bytes) = 1 /\ bytes[1].whole /\ bytes[1].reply.kind \in PduKinds

\* KSI_RequestHandle_getExtendResponse, KSI_RequestHandle_getAggregationResponse
\* once the bytes are there: the result, and what *resp is set to.
Judge(bytes, key) ==
  LET reply == bytes[1].reply
      Outcome(res, given) == [res |-> res, given |-> given]
  IN CASE ~IsPdu(bytes) -> Outcome("INVALID_FORMAT", None)
       [] IsPdu(bytes) /\ reply.kind = "error" -> Outcome("SERVICE_ERROR", None)
       [] IsPdu(bytes) /\ reply.kind = "error_status_0" -> Outcome("OK", None)
       [] IsPdu(bytes) /\ reply.kind \in Authenticated ->
            IF reply.key # key THEN Outcome("HMAC_MISMATCH", None)
            ELSE Outcome("OK", IF reply.kind = "answer" THEN reply ELSE None)

GetServiceResponse(h) ==
  /\ handles[h] # None /\ handles[h].service \in Services
  /\ \E t \in Transfers(h) \cup {Cached} :
       /\ Fetch(h, t)
       /\ LET out == Judge(handles'[h].response, AnswerKey(h))
          IN last' = IF t.ok THEN Call("getServiceResponse", h, out.res, out.given)
                     ELSE Call("getServiceResponse", h, "NETWORK_ERROR", None)
  /\ UNCHANGED <<account, chosen, callback, settings, wanted>>

Next ==
  \/ \E s \in Services, url \in Urls, key \in Keys : SetService(s, url, key)
  \/ \E on \in BOOLEAN : SetRequestHeaderCallback(on)
  \/ \E h \in Handles :
       \/ \E s \in Services : Send(s, h)
       \/ SendPublicationRequest(h)
       \/ GetResponse(h)
       \/ GetServiceResponse(h)
       \/ FreeHandle(h)

Spec == Init /\ [][Next]_vars

-----------------------------------------------------------------------------
(* Properties.                                                             *)

\* What the call `last` asked for, when it asked a handle that is still there.
Asked == handles[last.handle]

\* Every variable has its type.
TypeOK ==
  /\ \A c \in Clients, s \in Services :
       account[c][s] = NoAccount \/ (account[c][s].url \in Urls /\ account[c][s].key \in Keys)
  /\ chosen \in [Services -> Clients] /\ callback \in BOOLEAN
  /\ settings \in 0..MaxSettings
  /\ \A h \in Handles : handles[h] # None =>
       /\ handles[h].service \in Services \cup {"publications"} /\ handles[h].client \in Clients
       /\ Len(handles[h].raw) <= MaxPieces + 1
  /\ last.res \in {"OK", "INVALID_ARGUMENT", "INVALID_FORMAT", "NETWORK_ERROR",
                   "SERVICE_ERROR", "HMAC_MISMATCH"}

\* A service is reached as the last successful setter asked (net_uri.c): neither a
\* setter that fails, nor one of the other service or transport, reroutes it.
RoutedAsWanted ==
  \A s \in Services : wanted[s] # NoAccount => account[chosen[s]][s] = wanted[s]

\* However the calls on several handles that share one libcurl handle interleave, an
\* answer handed out is that to the handle's own request, comes from the address
\* the request was made for, and is authenticated with the key of that account.
AnswerIsOwn ==
  last.given # None =>
    /\ last.given.to = last.handle /\ last.given.from = Asked.url
    /\ last.given.key = AnswerKey(last.handle)

\* What a handle keeps as its response is one whole reply to it, unless an earlier
\* transfer for this handle was cut (the data of which net_http_curl.c keeps).
ResponseIsWhole ==
  \A h \in Handles : handles[h] # None /\ handles[h].response # << >> /\ ~handles[h].cut =>
    /\ Len(handles[h].response) = 1 /\ handles[h].response[1].whole
    /\ handles[h].response[1].reply.from = handles[h].url
    /\ handles[h].response[1].reply.to = IF handles[h].service \in Services THEN h ELSE None

\* An answer to the request is accepted when it is authenticated with the key of the
\* request and the account has not been changed since, whatever else was configured
\* and whichever other requests were made between sending and asking.
GoodAnswerAccepted ==
  last.op = "getServiceResponse" /\ last.res # "NETWORK_ERROR" /\ IsPdu(Asked.response) =>
    LET reply == Asked.response[1].reply
    IN /\ reply.kind = "answer"
       /\ reply.key = Asked.body.key /\ account[Asked.client][Asked.service].key = Asked.body.key
       => last.res = "OK" /\ last.given = reply

\* "If the first call succeeds following calls output the same value" (net.h): a
\* response, once there, is never replaced.
ResponseKept ==
  [][\A h \in Handles :
       handles[h] # None /\ handles'[h] # None /\ handles[h].response # << >>
         => handles'[h].response = handles[h].response]_vars

\* Claimed by ksi.h of KSI_CTX_setRequestHeaderCallback, "executed on every requests
\* header prior to serializing and submitting the request": what is submitted is a
\* request whose HMAC is that of its header.
RequestsAuthentic ==
  \A h \in Handles : handles[h] # None /\ handles[h].service \in Services
    => handles[h].body.covered
=============================================================================
