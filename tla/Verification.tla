---------------------------- MODULE Verification ----------------------------
(***************************************************************************)
(* The verification of one KSI signature object, as libksi performs it     *)
(* (signature.c and verification.c).                                       *)
(*                                                                         *)
(* A signature carries a KSI_VerificationResult: the steps performed and   *)
(* failed so far, the log of their outcomes, and what the caller asked to  *)
(* verify.  A call picks a policy, a list of alternatives; the engine      *)
(* KSI_Signature_verifyPolicy runs the steps of an alternative that have   *)
(* not been performed yet and moves on to the next alternative when some   *)
(* step could not be performed.  The result outlives the call: whether a   *)
(* call starts from a clean one depends on the call, which is what the     *)
(* properties below are about.                                             *)
(*                                                                         *)
(* Hashes and times are values compared for equality; what the hash chain  *)
(* computations return is part of the data (see HashChain                  *)
(* for the computations).                                                  *)
(***************************************************************************)
EXTENDS Integers, Sequences, FiniteSets

CONSTANTS
  Hashes,        \* imprints
  Times,         \* aggregation and publication times
  Levels,        \* levels at which the document enters the aggregation chain
  Certs,         \* certificate ids a calendar authentication record may name
  Files,         \* publications files the server or the caller may provide
  FileCerts,     \* FileCerts[f]: the certificate ids file f holds
  FilePubs,      \* FilePubs[f]: the publications file f holds
  Chains,        \* calendar chains the extender or the caller may provide
  Signatures,    \* signatures as parsed
  Inconsistent,  \* a chain of aggregation chains that do not fit together
  Uncomputable,  \* a computation that returns an error code
  None           \* the NULL pointer

Publication == [time : Times, imprint : Hashes]

CalendarChain == [input : Hashes, aggrTime : Times, pubTime : Times,
                  root : Hashes \cup {Uncomputable},
                  calcTime : Times \cup {Uncomputable}]

CalendarAuthRec == [pubData : Publication, cert : Certs, genuine : BOOLEAN]

Signature == [doc : Hashes,
              aggr : [Levels -> Hashes \cup {Inconsistent, Uncomputable}],
              aggrTime : Times,
              cal : CalendarChain,
              auth : CalendarAuthRec \cup {None},
              pub : Publication \cup {None}]

ASSUME TimesAssumption == Times \subseteq Nat
ASSUME LevelsAssumption == 0 \in Levels
ASSUME FilesAssumption == /\ FileCerts \in [Files -> SUBSET Certs]
                          /\ FilePubs \in [Files -> SUBSET Publication]
ASSUME ChainsAssumption == Chains \subseteq CalendarChain
ASSUME SignaturesAssumption == Signatures \subseteq Signature
ASSUME NoneAssumption == None \notin Hashes \cup Files \cup Publication
ASSUME OutcomesAssumption == Hashes \cap {Inconsistent, Uncomputable} = {}

-----------------------------------------------------------------------------
(* The steps and the policies.                                             *)

InternalSteps == {"AGGRCHAIN_INTERNALLY", "CALCHAIN_INTERNALLY",
                  "AGGRCHAIN_WITH_CALENDAR_CHAIN"}

AnchorSteps == {"CALCHAIN_WITH_CALAUTHREC", "CALAUTHREC_WITH_SIGNATURE",
                "CALCHAIN_WITH_PUBLICATION", "PUBLICATION_WITH_PUBSTRING",
                "PUBLICATION_WITH_PUBFILE", "CALCHAIN_ONLINE"}

Steps == {"DOCUMENT"} \cup InternalSteps \cup AnchorSteps

\* Variant: the root of the aggregation is compared last.
OrderRootLate == [DOCUMENT |-> 1, AGGRCHAIN_INTERNALLY |-> 2, CALCHAIN_INTERNALLY |-> 3,
                  CALCHAIN_WITH_CALAUTHREC |-> 4, CALAUTHREC_WITH_SIGNATURE |-> 5,
                  CALCHAIN_WITH_PUBLICATION |-> 6, PUBLICATION_WITH_PUBSTRING |-> 7,
                  PUBLICATION_WITH_PUBFILE |-> 8, CALCHAIN_ONLINE |-> 9,
                  AGGRCHAIN_WITH_CALENDAR_CHAIN |-> 10]

\* The order of the tests in verifyPolicy.
Order == [DOCUMENT |-> 1, AGGRCHAIN_INTERNALLY |-> 2, CALCHAIN_INTERNALLY |-> 3,
          AGGRCHAIN_WITH_CALENDAR_CHAIN |-> 4, CALCHAIN_WITH_CALAUTHREC |-> 5,
          CALAUTHREC_WITH_SIGNATURE |-> 6, CALCHAIN_WITH_PUBLICATION |-> 7,
          PUBLICATION_WITH_PUBSTRING |-> 8, PUBLICATION_WITH_PUBFILE |-> 9,
          CALCHAIN_ONLINE |-> 10]

ByAuthRec == InternalSteps \cup {"CALCHAIN_WITH_CALAUTHREC", "CALAUTHREC_WITH_SIGNATURE"}
ByPubString == InternalSteps \cup {"CALCHAIN_WITH_PUBLICATION", "PUBLICATION_WITH_PUBSTRING"}
ByPubFile == InternalSteps \cup {"CALCHAIN_WITH_PUBLICATION", "PUBLICATION_WITH_PUBFILE"}
ByExtender == InternalSteps \cup {"CALCHAIN_ONLINE"}

VP_INTERNAL == << InternalSteps >>
VP_OFFLINE == << ByAuthRec, ByPubString, ByPubFile >>
VP_ONLINE == << ByExtender >>
\* Variant: no way to verify a signature without an anchor of its own.
VP_SIGNATURE_NoExtender == << ByAuthRec, ByPubString, ByPubFile >>

VP_SIGNATURE == << ByAuthRec, ByPubString, ByPubFile, ByExtender >>
VP_DOCUMENT == << {"DOCUMENT"} \cup ByAuthRec, {"DOCUMENT"} \cup ByPubString,
                  {"DOCUMENT"} \cup ByPubFile, {"DOCUMENT"} \cup ByExtender >>

Policies == {VP_INTERNAL, VP_OFFLINE, VP_ONLINE, VP_SIGNATURE, VP_DOCUMENT}

\* The length of the array KSI_VerificationResult.steps.
StepsArray == 32

-----------------------------------------------------------------------------
VARIABLES
  sig,               \* what the signature object holds
  ctxFile,           \* ctx->publicationsFile, downloaded once or set by the caller
  stepsPerformed,    \* the fields of KSI_VerificationResult ...
  stepsFailed,
  steps,
  docAggrLevel,
  documentHash,      \* None unless verifyDocumentHash
  userPublication,   \* None unless useUserPublication
  publicationsFile,
  aggregationHash,
  policy,            \* the engine: the policy, its alternative,
  alt,
  pos,               \* and the test it has come to, 0 when no call runs
  call,              \* the name of the last API call
  res,               \* what it returned
  confirmed          \* history: what the answers of the extender said in this call

info == <<stepsPerformed, stepsFailed, steps, docAggrLevel, documentHash,
          userPublication, publicationsFile, aggregationHash>>

engine == <<policy, alt>>

vars == <<sig, ctxFile, info, engine, pos, call, res, confirmed>>

Init ==
  /\ sig \in Signatures
  /\ ctxFile \in Files \cup {None}
  /\ stepsPerformed = {} /\ stepsFailed = {} /\ steps = << >>
  /\ docAggrLevel = 0
  /\ documentHash = None /\ userPublication = None
  /\ publicationsFile = None /\ aggregationHash = None
  /\ policy = VP_INTERNAL /\ alt = 1 /\ pos = 0
  /\ call = "none" /\ res = "OK" /\ confirmed = {}

-----------------------------------------------------------------------------
(* The result object.                                                      *)

\* Variant: the borrowed publications file is not forgotten.
ResetKeepsFile(level, doc, pub) ==
  /\ stepsPerformed' = {} /\ stepsFailed' = {} /\ steps' = << >>
  /\ docAggrLevel' = level
  /\ documentHash' = doc
  /\ userPublication' = pub
  /\ publicationsFile' = publicationsFile
  /\ aggregationHash' = None

\* KSI_VerificationResult_reset, followed by what the caller sets.
Reset(level, doc, pub) ==
  /\ stepsPerformed' = {} /\ stepsFailed' = {} /\ steps' = << >>
  /\ docAggrLevel' = level
  /\ documentHash' = doc
  /\ userPublication' = pub
  /\ publicationsFile' = None
  /\ aggregationHash' = None

\* addVerificationStepResult for each of the outcomes in turn: a step that
\* failed once stays failed, whatever is logged after.
AddResults(step, outcomes) ==
  /\ stepsPerformed' = stepsPerformed \cup {step}
  /\ stepsFailed' = IF \E i \in DOMAIN outcomes : ~outcomes[i]
                    THEN stepsFailed \cup {step} ELSE stepsFailed
  /\ steps' = steps \o [i \in DOMAIN outcomes |-> [step |-> step, succeeded |-> outcomes[i]]]

AddResult(step, succeeded) == AddResults(step, <<succeeded>>)

-----------------------------------------------------------------------------
(* The engine.                                                             *)

Alternative == policy[alt]

PerformVerification(step) ==
  /\ step \in Alternative
  /\ step \notin stepsPerformed
  /\ stepsFailed = {}

\* The engine has come to the step and has to perform it: of the tests from
\* pos on, this one is the first to hold.
Due(step) ==
  /\ pos # 0
  /\ pos <= Order[step]
  /\ PerformVerification(step)
  /\ \A s \in Steps : pos <= Order[s] /\ Order[s] < Order[step] => ~PerformVerification(s)

\* The step function returned KSI_OK: on to the next step.
Continue(step) ==
  /\ pos' = Order[step] + 1
  /\ UNCHANGED <<sig, engine, call, res>>

Return(code) ==
  /\ pos' = 0
  /\ res' = code
  /\ UNCHANGED <<sig, engine, call>>

\* The step function returned an error code: the call ends with it.
Abort ==
  /\ Return("ERROR")
  /\ UNCHANGED <<info, confirmed>>

\* Everything but the outcome of the step is left alone.
JustTheResult == UNCHANGED <<ctxFile, docAggrLevel, documentHash, userPublication,
                             publicationsFile, aggregationHash, confirmed>>

\* A step function that has nothing to check logs nothing and returns KSI_OK.
NothingToCheck(step) ==
  /\ Continue(step)
  /\ UNCHANGED <<ctxFile, info, confirmed>>

-----------------------------------------------------------------------------
(* The step functions.                                                     *)

VerifyDocument ==
  /\ Due("DOCUMENT")
  /\ IF documentHash = None
     THEN NothingToCheck("DOCUMENT")
     ELSE /\ Continue("DOCUMENT")
          /\ AddResult("DOCUMENT", sig.doc = documentHash)
          /\ JustTheResult

\* The aggregation chains, aggregated one after the other from docAggrLevel
\* on, give the root hash the later steps compare with.
VerifyInternallyAggregationChain ==
  /\ Due("AGGRCHAIN_INTERNALLY")
  /\ LET root == sig.aggr[docAggrLevel] IN
     \/ /\ root = Uncomputable
        /\ Abort /\ UNCHANGED ctxFile
     \/ /\ root # Uncomputable
        /\ Continue("AGGRCHAIN_INTERNALLY")
        /\ AddResult("AGGRCHAIN_INTERNALLY", root # Inconsistent)
        /\ aggregationHash' = IF root # Inconsistent THEN root ELSE aggregationHash
        /\ UNCHANGED <<ctxFile, docAggrLevel, documentHash, userPublication,
                       publicationsFile, confirmed>>

VerifyInternallyCalendarChain ==
  /\ Due("CALCHAIN_INTERNALLY")
  /\ \/ /\ sig.cal.calcTime = Uncomputable
        /\ Abort /\ UNCHANGED ctxFile
     \/ /\ sig.cal.calcTime # Uncomputable
        /\ Continue("CALCHAIN_INTERNALLY")
        /\ AddResult("CALCHAIN_INTERNALLY", sig.cal.calcTime = sig.cal.aggrTime)
        /\ JustTheResult

\* Each mismatch is logged as a failure and a success is logged after them
\* all the same.
VerifyAggregationRootWithCalendarChain ==
  /\ Due("AGGRCHAIN_WITH_CALENDAR_CHAIN")
  /\ LET mismatches == (IF aggregationHash # sig.cal.input THEN 1 ELSE 0)
                       + (IF sig.aggrTime # sig.cal.aggrTime THEN 1 ELSE 0)
     IN  AddResults("AGGRCHAIN_WITH_CALENDAR_CHAIN",
                    [i \in 1 .. mismatches + 1 |-> i = mismatches + 1])
  /\ Continue("AGGRCHAIN_WITH_CALENDAR_CHAIN")
  /\ JustTheResult

\* verifyCalendarChain
VerifyCalendarChain ==
  /\ Due("CALCHAIN_WITH_CALAUTHREC")
  /\ \/ /\ sig.auth = None
        /\ NothingToCheck("CALCHAIN_WITH_CALAUTHREC")
     \/ /\ sig.auth # None
        /\ sig.cal.root = Uncomputable
        /\ Abort /\ UNCHANGED ctxFile
     \/ /\ sig.auth # None
        /\ sig.cal.root # Uncomputable
        /\ Continue("CALCHAIN_WITH_CALAUTHREC")
        /\ AddResult("CALCHAIN_WITH_CALAUTHREC",
                     sig.auth.pubData = [time |-> sig.cal.pubTime, imprint |-> sig.cal.root])
        /\ JustTheResult

\* KSI_receivePublicationsFile hands out the file of the context, after
\* downloading it when there is none: f is the file, None when that failed.
ReceivePublicationsFile(f) ==
  \/ ctxFile # None /\ f = ctxFile /\ UNCHANGED ctxFile
  \/ ctxFile = None /\ f \in Files \cup {None} /\ ctxFile' = f

\* verifyCalAuthRec remembers the file it looked the certificate up in
\* (initPublicationsFile) without owning it.
VerifyCalAuthRec ==
  /\ Due("CALAUTHREC_WITH_SIGNATURE")
  /\ \/ /\ sig.auth = None
        /\ NothingToCheck("CALAUTHREC_WITH_SIGNATURE")
     \/ /\ sig.auth # None
        /\ \E f \in Files \cup {None} :
             /\ IF publicationsFile # None
                THEN f = publicationsFile /\ UNCHANGED ctxFile
                ELSE ReceivePublicationsFile(f)
             /\ \/ f = None /\ Abort
                \/ /\ f # None
                   /\ Continue("CALAUTHREC_WITH_SIGNATURE")
                   /\ publicationsFile' = f
                   /\ AddResult("CALAUTHREC_WITH_SIGNATURE",
                                sig.auth.cert \in FileCerts[f] /\ sig.auth.genuine)
                   /\ UNCHANGED <<docAggrLevel, documentHash, userPublication,
                                  aggregationHash, confirmed>>

\* Variant: the publication time is not compared.
VerifyPublishedHashOnly ==
  /\ Due("CALCHAIN_WITH_PUBLICATION")
  /\ \/ /\ sig.pub = None
        /\ NothingToCheck("CALCHAIN_WITH_PUBLICATION")
     \/ /\ sig.pub # None
        /\ sig.cal.root = Uncomputable
        /\ Abort /\ UNCHANGED ctxFile
     \/ /\ sig.pub # None
        /\ sig.cal.root # Uncomputable
        /\ Continue("CALCHAIN_WITH_PUBLICATION")
        /\ AddResult("CALCHAIN_WITH_PUBLICATION", sig.cal.root = sig.pub.imprint)
        /\ JustTheResult

VerifyCalendarChainWithPublication ==
  /\ Due("CALCHAIN_WITH_PUBLICATION")
  /\ \/ /\ sig.pub = None
        /\ NothingToCheck("CALCHAIN_WITH_PUBLICATION")
     \/ /\ sig.pub # None
        /\ sig.cal.root = Uncomputable
        /\ Abort /\ UNCHANGED ctxFile
     \/ /\ sig.pub # None
        /\ sig.cal.root # Uncomputable
        /\ Continue("CALCHAIN_WITH_PUBLICATION")
        /\ AddResult("CALCHAIN_WITH_PUBLICATION",
                     /\ sig.cal.root = sig.pub.imprint
                     /\ sig.cal.pubTime = sig.pub.time)
        /\ JustTheResult

VerifyPublicationWithPubString ==
  /\ Due("PUBLICATION_WITH_PUBSTRING")
  /\ IF sig.pub = None \/ userPublication = None
     THEN NothingToCheck("PUBLICATION_WITH_PUBSTRING")
     ELSE /\ Continue("PUBLICATION_WITH_PUBSTRING")
          /\ AddResult("PUBLICATION_WITH_PUBSTRING", sig.pub = userPublication)
          /\ JustTheResult

\* verifyPublication
VerifyPublication ==
  /\ Due("PUBLICATION_WITH_PUBFILE")
  /\ \/ /\ sig.pub = None \/ userPublication # None
        /\ NothingToCheck("PUBLICATION_WITH_PUBFILE")
     \/ /\ sig.pub # None /\ userPublication = None
        /\ \E f \in Files \cup {None} :
             /\ ReceivePublicationsFile(f)
             /\ \/ f = None /\ Abort
                \/ /\ f # None
                   /\ Continue("PUBLICATION_WITH_PUBFILE")
                   /\ AddResult("PUBLICATION_WITH_PUBFILE", sig.pub \in FilePubs[f])
                   /\ UNCHANGED <<docAggrLevel, documentHash, userPublication,
                                  publicationsFile, aggregationHash, confirmed>>

\* KSI_ExtendResp_verifyWithRequest: the chain answers the request for the
\* calendar from time start to time end, or to the last one when end is None.
\* An answer may come without the optional status, which is no status 0 and
\* converts to KSI_OK: then nothing of it is compared with the request.
VerifyWithRequest(chain, status, start, end) ==
  status => /\ end # None => chain.pubTime = end
            /\ chain.aggrTime = start
            /\ chain.calcTime = start

\* What an answer said of the signature.
Said(chain, status) == [aggrTime |-> chain.aggrTime, input |-> chain.input, status |-> status]

\* verifyOnline: the extender is asked for the calendar from the signature's
\* aggregation time on; every failure to get an answer that passes
\* VerifyWithRequest is an error code.  With a user publication the root of the answer is
\* compared with pubHash, which is never assigned, so the comparison fails.
VerifyOnline ==
  /\ Due("CALCHAIN_ONLINE")
  /\ LET start == sig.cal.aggrTime
         end == IF userPublication = None THEN None ELSE userPublication.time
     IN
     \/ /\ Abort /\ UNCHANGED ctxFile
     \/ /\ userPublication # None => start <= userPublication.time
        /\ \E chain \in Chains, status \in BOOLEAN :
             /\ VerifyWithRequest(chain, status, start, end)
             /\ \/ /\ chain.input = sig.cal.input /\ userPublication # None
                   /\ chain.root = Uncomputable
                   /\ Abort /\ UNCHANGED ctxFile
                \/ /\ \/ chain.input # sig.cal.input
                      \/ userPublication = None
                      \/ chain.root # Uncomputable
                   /\ Continue("CALCHAIN_ONLINE")
                   /\ AddResult("CALCHAIN_ONLINE",
                                chain.input = sig.cal.input /\ userPublication = None)
                   /\ confirmed' = confirmed \cup {Said(chain, status)}
                   /\ UNCHANGED <<ctxFile, docAggrLevel, documentHash, userPublication,
                                  publicationsFile, aggregationHash>>

-----------------------------------------------------------------------------
(* What verifyPolicy does after the steps of an alternative.               *)

AfterSteps ==
  /\ pos # 0
  /\ \A s \in Steps : pos <= Order[s] => ~PerformVerification(s)

PolicyFailed ==
  /\ AfterSteps
  /\ stepsFailed \cap Alternative # {}
  /\ Return("VERIFICATION_FAILURE")
  /\ UNCHANGED <<ctxFile, info, confirmed>>

PolicySatisfied ==
  /\ AfterSteps
  /\ stepsFailed \cap Alternative = {}
  /\ Alternative \subseteq stepsPerformed
  /\ Return("OK")
  /\ UNCHANGED <<ctxFile, info, confirmed>>

\* Variants: one alternative too many is tried; the same one is tried again, also
\* with its steps forgotten.
NextAlternativeBeyondEnd ==
  /\ AfterSteps
  /\ stepsFailed \cap Alternative = {}
  /\ ~(Alternative \subseteq stepsPerformed)
  /\ alt <= Len(policy)
  /\ alt' = alt + 1 /\ pos' = 1
  /\ UNCHANGED <<sig, ctxFile, info, policy, call, res, confirmed>>

SameAlternativeAgain ==
  /\ AfterSteps
  /\ stepsFailed \cap Alternative = {}
  /\ ~(Alternative \subseteq stepsPerformed)
  /\ alt < Len(policy)
  /\ alt' = alt /\ pos' = 1
  /\ UNCHANGED <<sig, ctxFile, info, policy, call, res, confirmed>>

RetryAlternative ==
  /\ AfterSteps
  /\ stepsFailed \cap Alternative = {}
  /\ ~(Alternative \subseteq stepsPerformed)
  /\ alt < Len(policy)
  /\ stepsPerformed' = {} /\ alt' = alt /\ pos' = 1
  /\ UNCHANGED <<sig, ctxFile, stepsFailed, steps, docAggrLevel, documentHash,
                 userPublication, publicationsFile, aggregationHash, policy, call, res, confirmed>>

NextAlternative ==
  /\ AfterSteps
  /\ stepsFailed \cap Alternative = {}
  /\ ~(Alternative \subseteq stepsPerformed)
  /\ alt < Len(policy)
  /\ alt' = alt + 1 /\ pos' = 1
  /\ UNCHANGED <<sig, ctxFile, info, policy, call, res, confirmed>>

NoSuitablePolicy ==
  /\ AfterSteps
  /\ stepsFailed \cap Alternative = {}
  /\ ~(Alternative \subseteq stepsPerformed)
  /\ alt = Len(policy)
  /\ Return("VERIFICATION_FAILURE")
  /\ UNCHANGED <<ctxFile, info, confirmed>>

-----------------------------------------------------------------------------
(* The calls of the API.                                                   *)

\* KSI_Signature_verifyPolicy is entered.
Start(name, pol) ==
  /\ policy' = pol /\ alt' = 1 /\ pos' = 1
  /\ call' = name /\ confirmed' = {}
  /\ UNCHANGED <<sig, ctxFile, res>>

\* KSI_Signature_verifyAggregated; KSI_Signature_verify is its level 0.
CallVerify ==
  /\ pos = 0
  /\ \E level \in Levels : Reset(level, None, None)
  /\ Start("verify", VP_SIGNATURE)

\* KSI_Signature_verifyOnline does not reset the result.
CallVerifyOnline ==
  /\ pos = 0
  /\ Start("verifyOnline", VP_ONLINE)
  /\ UNCHANGED info

\* KSI_Signature_verifyAggregatedHash; KSI_Signature_verifyDataHash is its level 0.
CallVerifyDataHash ==
  /\ pos = 0
  /\ \E level \in Levels, hash \in Hashes : Reset(level, hash, None)
  /\ Start("verifyDataHash", VP_DOCUMENT)

CallVerifyWithPublication ==
  /\ pos = 0
  /\ \E pub \in Publication : Reset(0, None, pub)
  /\ Start("verifyWithPublication", VP_OFFLINE)

\* The signature or the context is changed between two verifications.
Between(code) ==
  /\ pos = 0
  /\ call' = "other" /\ res' = code /\ confirmed' = {}
  /\ UNCHANGED <<info, engine, pos>>

\* KSI_Signature_replaceCalendarChain leaves the verification result alone.
ReplaceCalendarChain ==
  \E chain \in Chains :
    \/ /\ chain.input = sig.cal.input
       /\ sig' = [sig EXCEPT !.cal = chain]
       /\ Between("OK") /\ UNCHANGED ctxFile
    \/ /\ chain.input # sig.cal.input
       /\ Between("ERROR") /\ UNCHANGED <<sig, ctxFile>>

\* KSI_Signature_replacePublicationRecord drops the authentication record.
ReplacePublicationRecord ==
  \E pub \in Publication :
    /\ sig' = [sig EXCEPT !.auth = None, !.pub = pub]
    /\ Between("OK") /\ UNCHANGED ctxFile

\* KSI_CTX_setPublicationsFile frees the file the context held.
SetPublicationsFile ==
  \E f \in (Files \cup {None}) \ {ctxFile} :
    /\ ctxFile' = f
    /\ Between("OK") /\ UNCHANGED sig

-----------------------------------------------------------------------------
StepFunction ==
  \/ VerifyDocument
  \/ VerifyInternallyAggregationChain
  \/ VerifyInternallyCalendarChain
  \/ VerifyAggregationRootWithCalendarChain
  \/ VerifyCalendarChain
  \/ VerifyCalAuthRec
  \/ VerifyCalendarChainWithPublication
  \/ VerifyPublicationWithPubString
  \/ VerifyPublication
  \/ VerifyOnline

VerifyPolicy ==
  \/ StepFunction
  \/ PolicyFailed
  \/ PolicySatisfied
  \/ NextAlternative
  \/ NoSuitablePolicy

Caller ==
  \/ CallVerify
  \/ CallVerifyOnline
  \/ CallVerifyDataHash
  \/ CallVerifyWithPublication
  \/ ReplaceCalendarChain
  \/ ReplacePublicationRecord
  \/ SetPublicationsFile

Next == VerifyPolicy \/ Caller

Spec == Init /\ [][Next]_vars

\* The engine is a loop of one thread that waits for nobody but the servers,
\* whose answers the transfer timeouts bound; nobody has to call.
FairSpec == Spec /\ WF_vars(VerifyPolicy)

-----------------------------------------------------------------------------
(* Properties.                                                             *)

\* The state stays within its types.
StepResult == [step : Steps, succeeded : BOOLEAN]

Answer == [aggrTime : Times, input : Hashes, status : BOOLEAN]

TypeOK ==
  /\ sig \in Signature
  /\ ctxFile \in Files \cup {None}
  /\ stepsPerformed \in SUBSET Steps
  /\ stepsFailed \in SUBSET Steps
  /\ steps \in Seq(StepResult)
  /\ docAggrLevel \in Levels
  /\ documentHash \in Hashes \cup {None}
  /\ userPublication \in Publication \cup {None}
  /\ publicationsFile \in Files \cup {None}
  /\ aggregationHash \in Hashes \cup {None}
  /\ policy \in Policies
  /\ alt \in 1 .. Len(policy)
  /\ pos \in 0 .. 11
  /\ call \in {"none", "verify", "verifyOnline", "verifyDataHash",
               "verifyWithPublication", "other"}
  /\ res \in {"OK", "VERIFICATION_FAILURE", "ERROR"}
  /\ confirmed \in SUBSET Answer

\* The log fits its array: addVerificationStepResult writes at steps_len
\* without looking at the length of the array, and verifyOnline goes on
\* with the log the previous call left.
LogFits == Len(steps) <= StepsArray

\* A trust anchor is only ever consulted for a signature whose chains fit
\* together: in the log the three internal steps have succeeded before the
\* first step about an authentication record, a publication or the extender.
AnchorsAfterInternalSteps ==
  \A i \in DOMAIN steps :
    steps[i].step \in AnchorSteps =>
      \A s \in InternalSteps :
        /\ s \notin stepsFailed
        /\ \E j \in 1 .. i - 1 : steps[j] = [step |-> s, succeeded |-> TRUE]

\* The publications file the result borrows from the context is still the
\* one the context holds when the engine looks a certificate up in it, so it
\* has not been freed by KSI_CTX_setPublicationsFile in between.
BorrowedFileAlive ==
  Due("CALAUTHREC_WITH_SIGNATURE") /\ publicationsFile # None
    => publicationsFile = ctxFile

\* What the signature says, independently of the steps that look at it.
Consistent ==
  /\ sig.aggr[docAggrLevel] = sig.cal.input
  /\ sig.aggrTime = sig.cal.aggrTime
  /\ sig.cal.calcTime = sig.cal.aggrTime

CalendarRoot == [time |-> sig.cal.pubTime, imprint |-> sig.cal.root]

AnchoredByAuthRec ==
  /\ sig.auth # None
  /\ sig.auth.pubData = CalendarRoot
  /\ sig.auth.genuine
  /\ ctxFile # None /\ sig.auth.cert \in FileCerts[ctxFile]

AnchoredByPublication ==
  /\ sig.pub # None
  /\ sig.pub = CalendarRoot
  /\ IF userPublication # None THEN sig.pub = userPublication
     ELSE ctxFile # None /\ sig.pub \in FilePubs[ctxFile]

\* The extender answered with the calendar's input hash, as a rule for the second of
\* the signature.  An answer without a status was compared with nothing but the
\* input hash (types.c:1094, net.c:813), whatever second it is about: that the
\* answer is "correct ... to the concrete request" (types.h:350) does not hold.
AnchoredByExtender ==
  \E answer \in confirmed :
    /\ answer.input = sig.cal.input
    /\ answer.status => answer.aggrTime = sig.cal.aggrTime

ResettingCalls == {"verify", "verifyDataHash", "verifyWithPublication"}

\* A verification that starts from a clean result and returns KSI_OK has
\* established that the chains of the signature lead from the document to a
\* calendar root (or calendar input) that an anchor confirms now; the extender
\* confirms it for the time of the signature only with an answer that has a status.
ConfirmedByAnchor ==
  pos = 0 /\ res = "OK" /\ call \in ResettingCalls =>
    /\ Consistent
    /\ call = "verifyDataHash" => sig.doc = documentHash
    /\ AnchoredByAuthRec \/ AnchoredByPublication \/ AnchoredByExtender

\* Whatever the result it started from, a verification that returns KSI_OK
\* leaves no failed step behind: what a caller reads in
\* KSI_Signature_getVerificationResult does not contradict the return code.
OkMeansNothingFailed ==
  pos = 0 /\ res = "OK" /\ call \in ResettingCalls \cup {"verifyOnline"} =>
    /\ stepsFailed = {}
    /\ \A i \in DOMAIN steps : steps[i].succeeded

\* What KSI_OK of a verification means: a consistent signature that an anchor
\* confirms, and a result without a failed step, whatever verifyPolicy found in
\* it from earlier calls.
VerdictSound == ConfirmedByAnchor /\ OkMeansNothingFailed

\* The other direction: a verification that starts from a clean result
\* returns KSI_VERIFICATION_FAILURE only for a signature that is
\* inconsistent, of another document, or that some anchor it was shown
\* contradicts; with no anchor of its own it has to be refused by the
\* extender or to be a signature to check against a publication.
FailureJustified ==
  pos = 0 /\ res = "VERIFICATION_FAILURE" /\ call \in ResettingCalls =>
    \/ ~Consistent
    \/ call = "verifyDataHash" /\ sig.doc # documentHash
    \/ sig.auth # None /\ ~AnchoredByAuthRec
    \/ sig.auth = None /\ sig.pub # None /\ ~AnchoredByPublication
    \/ /\ sig.auth = None /\ sig.pub = None
       /\ \/ call = "verifyWithPublication"
          \/ confirmed # {} /\ ~AnchoredByExtender

\* Every call returns.
EveryCallReturns == (pos # 0) ~> (pos = 0)
=============================================================================
