------------------------- MODULE VerificationProofs -------------------------
(***************************************************************************)
(* Proofs about Verification, for every set of hashes, times, chains,      *)
(* publications files and signatures.                                      *)
(***************************************************************************)
EXTENDS Verification, FiniteSetTheorems, SequenceTheorems, TLAPS

-----------------------------------------------------------------------------
(* Lemmas about the policies and the log.                                  *)

\* Every alternative of every policy is a set of steps that contains the
\* internal ones.
LEMMA AlternativeType ==
  ASSUME policy \in Policies, alt \in 1 .. Len(policy)
  PROVE  Alternative \in SUBSET Steps /\ InternalSteps \subseteq Alternative
<1>1. ByAuthRec \in SUBSET Steps /\ ByPubString \in SUBSET Steps
      /\ ByPubFile \in SUBSET Steps /\ ByExtender \in SUBSET Steps
      /\ InternalSteps \in SUBSET Steps
  BY DEF ByAuthRec, ByPubString, ByPubFile, ByExtender, Steps, InternalSteps, AnchorSteps
<1>2. InternalSteps \subseteq ByAuthRec /\ InternalSteps \subseteq ByPubString
      /\ InternalSteps \subseteq ByPubFile /\ InternalSteps \subseteq ByExtender
  BY DEF ByAuthRec, ByPubString, ByPubFile, ByExtender
<1>3. "DOCUMENT" \in Steps
  BY DEF Steps
<1>4. CASE policy = VP_INTERNAL
  BY <1>1, <1>4 DEF Alternative, VP_INTERNAL
<1>5. CASE policy = VP_OFFLINE
  BY <1>1, <1>2, <1>5 DEF Alternative, VP_OFFLINE
<1>6. CASE policy = VP_ONLINE
  BY <1>1, <1>2, <1>6 DEF Alternative, VP_ONLINE
<1>7. CASE policy = VP_SIGNATURE
  BY <1>1, <1>2, <1>7 DEF Alternative, VP_SIGNATURE
<1>8. CASE policy = VP_DOCUMENT
  BY <1>1, <1>2, <1>3, <1>8 DEF Alternative, VP_DOCUMENT
<1> QED
  BY <1>4, <1>5, <1>6, <1>7, <1>8 DEF Policies

\* The tests are numbered from 1 to 10.
LEMMA OrderType == Order \in [Steps -> 1 .. 10]
  BY DEF Order, Steps, InternalSteps, AnchorSteps

LEMMA StepNames ==
  /\ "DOCUMENT" \in Steps /\ InternalSteps \subseteq Steps /\ AnchorSteps \subseteq Steps
  /\ "AGGRCHAIN_INTERNALLY" \in Steps /\ "CALCHAIN_INTERNALLY" \in Steps
  /\ "AGGRCHAIN_WITH_CALENDAR_CHAIN" \in Steps /\ "CALCHAIN_WITH_CALAUTHREC" \in Steps
  /\ "CALAUTHREC_WITH_SIGNATURE" \in Steps /\ "CALCHAIN_WITH_PUBLICATION" \in Steps
  /\ "PUBLICATION_WITH_PUBSTRING" \in Steps /\ "PUBLICATION_WITH_PUBFILE" \in Steps
  /\ "CALCHAIN_ONLINE" \in Steps
  BY DEF Steps, InternalSteps, AnchorSteps

LEMMA EveryPolicyHasAnAlternative ==
  \A p \in Policies : 1 \in 1 .. Len(p)
<1>1. /\ Len(VP_INTERNAL) = 1 /\ Len(VP_OFFLINE) = 3 /\ Len(VP_ONLINE) = 1
      /\ Len(VP_SIGNATURE) = 4 /\ Len(VP_DOCUMENT) = 4
  BY DEF VP_INTERNAL, VP_OFFLINE, VP_ONLINE, VP_SIGNATURE, VP_DOCUMENT
<1> QED
  BY <1>1 DEF Policies

\* What AddResults does to the three fields it changes.
LEMMA AddResultsType ==
  ASSUME TypeOK, NEW step \in Steps, NEW outcomes \in Seq(BOOLEAN),
         AddResults(step, outcomes)
  PROVE  /\ stepsPerformed' \in SUBSET Steps
         /\ stepsFailed' \in SUBSET Steps
         /\ steps' \in Seq(StepResult)
         /\ Len(steps') = Len(steps) + Len(outcomes)
<1> DEFINE e(i) == [step |-> step, succeeded |-> outcomes[i]]
           new == [i \in 1 .. Len(outcomes) |-> e(i)]
<1>1. Len(outcomes) \in Nat /\ DOMAIN outcomes = 1 .. Len(outcomes)
  BY LenProperties
<1>2. \A i \in 1 .. Len(outcomes) : e(i) \in StepResult
  BY DEF StepResult
<1>3. new \in Seq(StepResult) /\ Len(new) = Len(outcomes)
  <2> HIDE DEF e
  <2>1. new \in [1 .. Len(outcomes) -> StepResult]
    BY <1>2
  <2> QED
    BY <1>1, <2>1
<1>4. steps \in Seq(StepResult) /\ steps' = steps \o new
  BY <1>1 DEF TypeOK, AddResults
<1>5. steps' \in Seq(StepResult) /\ Len(steps') = Len(steps) + Len(outcomes)
  <2> HIDE DEF new
  <2>1. /\ steps \o new \in Seq(StepResult)
        /\ Len(steps \o new) = Len(steps) + Len(new)
    BY <1>3, <1>4, ConcatProperties, Zenon
  <2> QED
    BY <1>3, <1>4, <2>1
<1> QED
  BY <1>5 DEF TypeOK, AddResults

LEMMA AddResultType ==
  ASSUME TypeOK, NEW step \in Steps, NEW succeeded \in BOOLEAN,
         AddResult(step, succeeded)
  PROVE  /\ stepsPerformed' \in SUBSET Steps
         /\ stepsFailed' \in SUBSET Steps
         /\ steps' \in Seq(StepResult)
         /\ Len(steps') = Len(steps) + 1
<1>1. <<succeeded>> \in Seq(BOOLEAN) /\ Len(<<succeeded>>) = 1
  OBVIOUS
<1> QED
  BY <1>1, AddResultsType DEF AddResult

-----------------------------------------------------------------------------
(* The type invariant.                                                     *)

LEMMA InitTypeOK == Init => TypeOK
<1>1. << >> \in Seq(StepResult)
  BY EmptySeq
<1>2. VP_INTERNAL \in Policies /\ 1 \in 1 .. Len(VP_INTERNAL)
  BY EveryPolicyHasAnAlternative DEF Policies
<1> QED
  BY <1>1, <1>2, SignaturesAssumption, LevelsAssumption DEF Init, TypeOK

\* The parts of the state that a step function leaves alone, or that
\* Continue and Abort set.
LEMMA ContinueType ==
  ASSUME TypeOK, NEW step \in Steps, Continue(step)
  PROVE  /\ sig' \in Signature /\ policy' \in Policies /\ alt' \in 1 .. Len(policy')
         /\ pos' \in 0 .. 11 /\ call' = call /\ res' = res
  BY OrderType DEF TypeOK, Continue, engine

LEMMA ReturnType ==
  ASSUME TypeOK, NEW code \in {"OK", "VERIFICATION_FAILURE", "ERROR"}, Return(code),
         UNCHANGED <<ctxFile, info, confirmed>>
  PROVE  TypeOK'
  BY DEF TypeOK, Return, engine, info

LEMMA AbortType ==
  ASSUME TypeOK, Abort, ctxFile' \in Files \cup {None}
  PROVE  TypeOK'
  BY DEF TypeOK, Abort, Return, engine, info

LEMMA NothingToCheckType ==
  ASSUME TypeOK, NEW step \in Steps, NothingToCheck(step)
  PROVE  TypeOK'
<1>1. Continue(step)
  BY DEF NothingToCheck
<1> QED
  BY <1>1, ContinueType DEF NothingToCheck, TypeOK, info

LEMMA JustTheResultType ==
  ASSUME TypeOK, NEW step \in Steps, NEW succeeded \in BOOLEAN,
         Continue(step), AddResult(step, succeeded), JustTheResult
  PROVE  TypeOK'
  BY ContinueType, AddResultType DEF JustTheResult, TypeOK

\* What the comparison of the roots logs: at most two failures and a success.
LEMMA RootOutcomes ==
  ASSUME VerifyAggregationRootWithCalendarChain
  PROVE  \E outcomes \in Seq(BOOLEAN) :
           /\ AddResults("AGGRCHAIN_WITH_CALENDAR_CHAIN", outcomes)
           /\ Len(outcomes) \in 1 .. 3
           /\ (\A i \in DOMAIN outcomes : outcomes[i]) <=>
                 (aggregationHash = sig.cal.input /\ sig.aggrTime = sig.cal.aggrTime)
<1> DEFINE n == (IF aggregationHash # sig.cal.input THEN 1 ELSE 0)
                + (IF sig.aggrTime # sig.cal.aggrTime THEN 1 ELSE 0)
           outcomes == [i \in 1 .. n + 1 |-> i = n + 1]
<1>1. AddResults("AGGRCHAIN_WITH_CALENDAR_CHAIN", outcomes)
  BY DEF VerifyAggregationRootWithCalendarChain
<1>2. /\ n \in 0 .. 2
      /\ n = 0 <=> (aggregationHash = sig.cal.input /\ sig.aggrTime = sig.cal.aggrTime)
  OBVIOUS
<1> HIDE DEF n
<1>3. outcomes \in [1 .. n + 1 -> BOOLEAN]
  OBVIOUS
<1>4. outcomes \in Seq(BOOLEAN) /\ Len(outcomes) = n + 1
  BY <1>2, <1>3
<1>5. (\A i \in DOMAIN outcomes : outcomes[i]) <=> n = 0
  <2>1. \A i \in DOMAIN outcomes : outcomes[i] <=> (i = n + 1)
    BY Zenon
  <2>2. DOMAIN outcomes = 1 .. n + 1
    OBVIOUS
  <2>3. (\A i \in 1 .. n + 1 : i = n + 1) <=> n = 0
    <3>1. n # 0 => 1 \in 1 .. n + 1 /\ 1 # n + 1
      BY <1>2
    <3> QED
      BY <1>2, <3>1
  <2> HIDE DEF outcomes
  <2> QED
    BY <2>1, <2>2, <2>3, Zenon
<1>6. Len(outcomes) \in 1 .. 3
  BY <1>2, <1>4
<1> HIDE DEF outcomes
<1>7. (\A i \in DOMAIN outcomes : outcomes[i]) <=>
        (aggregationHash = sig.cal.input /\ sig.aggrTime = sig.cal.aggrTime)
  BY <1>2, <1>5
<1> QED
  BY <1>1, <1>4, <1>6, <1>7

LEMMA StepFunctionType == TypeOK /\ StepFunction => TypeOK'
<1> SUFFICES ASSUME TypeOK, StepFunction PROVE TypeOK'
  OBVIOUS
<1> USE StepNames
<1>1. CASE VerifyDocument
  BY <1>1, NothingToCheckType, JustTheResultType DEF VerifyDocument
<1>2. CASE VerifyInternallyAggregationChain
  <2>1. sig.aggr[docAggrLevel] \in Hashes \cup {Inconsistent, Uncomputable}
    BY DEF TypeOK, Signature
  <2>2. CASE sig.aggr[docAggrLevel] = Uncomputable
    BY <1>2, <2>2, AbortType DEF VerifyInternallyAggregationChain, TypeOK
  <2>3. CASE sig.aggr[docAggrLevel] # Uncomputable
    <3> DEFINE ok == sig.aggr[docAggrLevel] # Inconsistent
    <3>1. /\ Continue("AGGRCHAIN_INTERNALLY")
          /\ AddResult("AGGRCHAIN_INTERNALLY", ok)
          /\ aggregationHash' = IF ok THEN sig.aggr[docAggrLevel] ELSE aggregationHash
          /\ UNCHANGED <<ctxFile, docAggrLevel, documentHash, userPublication,
                          publicationsFile, confirmed>>
      BY <1>2, <2>3 DEF VerifyInternallyAggregationChain
    <3>2. aggregationHash' \in Hashes \cup {None}
      BY <2>1, <2>3, <3>1 DEF TypeOK
    <3>3. ok \in BOOLEAN
      OBVIOUS
    <3> HIDE DEF ok
    <3> QED
      BY <3>1, <3>2, <3>3, ContinueType, AddResultType DEF TypeOK
  <2> QED
    BY <2>2, <2>3
<1>3. CASE VerifyInternallyCalendarChain
  BY <1>3, AbortType, JustTheResultType DEF VerifyInternallyCalendarChain, TypeOK
<1>4. CASE VerifyAggregationRootWithCalendarChain
  <2>1. PICK outcomes \in Seq(BOOLEAN) :
          AddResults("AGGRCHAIN_WITH_CALENDAR_CHAIN", outcomes)
    BY <1>4, RootOutcomes
  <2> QED
    BY <1>4, <2>1, ContinueType, AddResultsType
    DEF VerifyAggregationRootWithCalendarChain, JustTheResult, TypeOK
<1>5. CASE VerifyCalendarChain
  BY <1>5, AbortType, NothingToCheckType, JustTheResultType DEF VerifyCalendarChain, TypeOK
<1>6. CASE VerifyCalAuthRec
  <2>1. CASE NothingToCheck("CALAUTHREC_WITH_SIGNATURE")
    BY <2>1, NothingToCheckType
  <2>2. ASSUME NEW f \in Files \cup {None}, Abort, f = None,
               UNCHANGED ctxFile \/ ReceivePublicationsFile(f)
        PROVE  TypeOK'
    BY <2>2, AbortType DEF ReceivePublicationsFile, TypeOK
  <2>3. ASSUME NEW f \in Files,
               UNCHANGED ctxFile \/ ReceivePublicationsFile(f),
               Continue("CALAUTHREC_WITH_SIGNATURE"), publicationsFile' = f,
               NEW ok \in BOOLEAN, AddResult("CALAUTHREC_WITH_SIGNATURE", ok),
               UNCHANGED <<docAggrLevel, documentHash, userPublication,
                           aggregationHash, confirmed>>
        PROVE  TypeOK'
    <3>1. ctxFile' \in Files \cup {None}
      BY <2>3 DEF ReceivePublicationsFile, TypeOK
    <3> QED
      BY <2>3, <3>1, ContinueType, AddResultType DEF TypeOK
  <2> QED
    BY <1>6, <2>1, <2>2, <2>3 DEF VerifyCalAuthRec
<1>7. CASE VerifyCalendarChainWithPublication
  BY <1>7, AbortType, NothingToCheckType, JustTheResultType
  DEF VerifyCalendarChainWithPublication, TypeOK
<1>8. CASE VerifyPublicationWithPubString
  BY <1>8, NothingToCheckType, JustTheResultType DEF VerifyPublicationWithPubString
<1>9. CASE VerifyPublication
  <2>1. CASE NothingToCheck("PUBLICATION_WITH_PUBFILE")
    BY <2>1, NothingToCheckType
  <2>2. ASSUME NEW f \in Files \cup {None}, Abort, ReceivePublicationsFile(f)
        PROVE  TypeOK'
    BY <2>2, AbortType DEF ReceivePublicationsFile, TypeOK
  <2>3. ASSUME NEW f \in Files, ReceivePublicationsFile(f),
               Continue("PUBLICATION_WITH_PUBFILE"),
               NEW ok \in BOOLEAN, AddResult("PUBLICATION_WITH_PUBFILE", ok),
               UNCHANGED <<docAggrLevel, documentHash, userPublication,
                           publicationsFile, aggregationHash, confirmed>>
        PROVE  TypeOK'
    <3>1. ctxFile' \in Files \cup {None}
      BY <2>3 DEF ReceivePublicationsFile, TypeOK
    <3> QED
      BY <2>3, <3>1, ContinueType, AddResultType DEF TypeOK
  <2>4. \A f \in Files : (sig.pub \in FilePubs[f]) \in BOOLEAN
    OBVIOUS
  <2> QED
    BY <1>9, <2>1, <2>2, <2>3, <2>4 DEF VerifyPublication
<1>10. CASE VerifyOnline
  <2>1. CASE Abort /\ UNCHANGED ctxFile
    BY <2>1, AbortType DEF TypeOK
  <2>2. ASSUME NEW chain \in Chains, NEW status \in BOOLEAN, NEW ok \in BOOLEAN,
               Continue("CALCHAIN_ONLINE"), AddResult("CALCHAIN_ONLINE", ok),
               confirmed' = confirmed \cup {Said(chain, status)},
               UNCHANGED <<ctxFile, docAggrLevel, documentHash, userPublication,
                           publicationsFile, aggregationHash>>
        PROVE  TypeOK'
    <3>1. Said(chain, status) \in Answer
      BY ChainsAssumption DEF CalendarChain, Answer, Said
    <3> QED
      BY <2>2, <3>1, ContinueType, AddResultType DEF TypeOK
  <2> QED
    BY <1>10, <2>1, <2>2 DEF VerifyOnline, Said
<1> QED
  BY <1>1, <1>2, <1>3, <1>4, <1>5, <1>6, <1>7, <1>8, <1>9, <1>10 DEF StepFunction

LEMMA PolicyType == TypeOK /\ VerifyPolicy => TypeOK'
<1> SUFFICES ASSUME TypeOK, VerifyPolicy PROVE TypeOK'
  OBVIOUS
<1>1. CASE StepFunction
  BY <1>1, StepFunctionType
<1>2. CASE PolicyFailed
  BY <1>2, ReturnType DEF PolicyFailed
<1>3. CASE PolicySatisfied
  BY <1>3, ReturnType DEF PolicySatisfied
<1>4. CASE NextAlternative
  <2>1. Len(policy) \in Nat
    BY DEF TypeOK, Policies, VP_INTERNAL, VP_OFFLINE, VP_ONLINE, VP_SIGNATURE, VP_DOCUMENT
  <2> QED
    BY <1>4, <2>1 DEF NextAlternative, info, TypeOK
<1>5. CASE NoSuitablePolicy
  BY <1>5, ReturnType DEF NoSuitablePolicy
<1> QED
  BY <1>1, <1>2, <1>3, <1>4, <1>5 DEF VerifyPolicy

\* A call that starts from a clean result.
LEMMA ResetCallType ==
  ASSUME TypeOK,
         NEW level \in Levels, NEW doc \in Hashes \cup {None},
         NEW pub \in Publication \cup {None}, Reset(level, doc, pub),
         NEW name \in ResettingCalls, NEW pol \in Policies, Start(name, pol)
  PROVE  TypeOK'
  BY EmptySeq, EveryPolicyHasAnAlternative DEF TypeOK, Reset, Start, ResettingCalls

LEMMA CallerType == TypeOK /\ Caller => TypeOK'
<1> SUFFICES ASSUME TypeOK, Caller PROVE TypeOK'
  OBVIOUS
<1>1. CASE CallVerify
  BY <1>1, ResetCallType DEF CallVerify, ResettingCalls, Policies
<1>2. CASE CallVerifyOnline
  BY <1>2, EveryPolicyHasAnAlternative DEF CallVerifyOnline, Start, TypeOK, info, Policies
<1>3. CASE CallVerifyDataHash
  BY <1>3, ResetCallType DEF CallVerifyDataHash, ResettingCalls, Policies
<1>4. CASE CallVerifyWithPublication
  BY <1>4, ResetCallType, LevelsAssumption
  DEF CallVerifyWithPublication, ResettingCalls, Policies
<1>5. CASE ReplaceCalendarChain
  BY <1>5, ChainsAssumption
  DEF ReplaceCalendarChain, Between, TypeOK, info, engine, Signature
<1>6. CASE ReplacePublicationRecord
  BY <1>6 DEF ReplacePublicationRecord, Between, TypeOK, info, engine, Signature
<1>7. CASE SetPublicationsFile
  BY <1>7 DEF SetPublicationsFile, Between, TypeOK, info, engine
<1> QED
  BY <1>1, <1>2, <1>3, <1>4, <1>5, <1>6, <1>7 DEF Caller

LEMMA StutterType == TypeOK /\ UNCHANGED vars => TypeOK'
  BY DEF TypeOK, vars, info, engine

\* The fields of the verification result, the engine and the signature keep
\* their types, whatever the caller does and the servers answer.
THEOREM TypeCorrect == Spec => []TypeOK
<1>1. TypeOK /\ [Next]_vars => TypeOK'
  BY PolicyType, CallerType, StutterType DEF Next
<1> QED
  BY InitTypeOK, <1>1, PTL DEF Spec

-----------------------------------------------------------------------------
(* The log fits its array.                                                 *)

\* Why: every entry belongs to a performed step, a step is performed once,
\* and only the comparison of the roots logs up to two entries more.
LogBound ==
  Len(steps) <= Cardinality(stepsPerformed)
                + (IF "AGGRCHAIN_WITH_CALENDAR_CHAIN" \in stepsPerformed THEN 2 ELSE 0)

LEMMA StepsFinite == IsFiniteSet(Steps) /\ Cardinality(Steps) <= 10
<1>1. IsFiniteSet(1 .. 10) /\ Cardinality(1 .. 10) = 10
  <2>1. 1 \in Int /\ 10 \in Int /\ ~(1 > 10) /\ 10 - 1 + 1 = 10
    OBVIOUS
  <2> QED
    BY <2>1, FS_Interval, Zenon
<1>2. Order \in Injection(Steps, 1 .. 10)
  BY OrderType DEF Injection, IsInjective, Order, Steps, InternalSteps, AnchorSteps
<1> QED
  BY <1>1, <1>2, FS_Injection

LEMMA PerformedFinite ==
  ASSUME NEW S \in SUBSET Steps
  PROVE  IsFiniteSet(S) /\ Cardinality(S) \in Nat /\ Cardinality(S) <= 10
<1>1. IsFiniteSet(S) /\ Cardinality(S) <= Cardinality(Steps)
  BY StepsFinite, FS_Subset
<1> QED
  BY <1>1, StepsFinite, FS_CardinalityType

LEMMA LogBoundFits == TypeOK /\ LogBound => LogFits
<1> SUFFICES ASSUME TypeOK, LogBound PROVE LogFits
  OBVIOUS
<1>1. Cardinality(stepsPerformed) \in Nat /\ Cardinality(stepsPerformed) <= 10
  BY PerformedFinite DEF TypeOK
<1>2. Len(steps) \in Nat
  BY LenProperties DEF TypeOK
<1> QED
  BY <1>1, <1>2 DEF LogBound, LogFits, StepsArray

\* Every step function either logs nothing or logs its own step, once.
LEMMA StepFunctionLogs ==
  ASSUME TypeOK, StepFunction
  PROVE  \/ UNCHANGED <<stepsPerformed, steps>>
         \/ \E step \in Steps, outcomes \in Seq(BOOLEAN) :
              /\ step \notin stepsPerformed
              /\ AddResults(step, outcomes)
              /\ \/ Len(outcomes) = 1
                 \/ step = "AGGRCHAIN_WITH_CALENDAR_CHAIN" /\ Len(outcomes) \in 1 .. 3
<1> DEFINE Logs(step, n) ==
      \/ UNCHANGED <<stepsPerformed, steps>>
      \/ \E outcomes \in Seq(BOOLEAN) :
           /\ step \notin stepsPerformed
           /\ AddResults(step, outcomes)
           /\ Len(outcomes) \in 1 .. n
<1>1. ASSUME NEW step \in Steps, step \notin stepsPerformed,
             NEW succeeded \in BOOLEAN, AddResult(step, succeeded)
      PROVE  Logs(step, 1)
  <2>1. <<succeeded>> \in Seq(BOOLEAN) /\ Len(<<succeeded>>) \in 1 .. 1
    OBVIOUS
  <2> QED
    BY <1>1, <2>1 DEF AddResult
<1>2. Abort => UNCHANGED <<stepsPerformed, steps>>
  BY DEF Abort, info
<1>3. \A step \in Steps : NothingToCheck(step) => UNCHANGED <<stepsPerformed, steps>>
  BY DEF NothingToCheck, info
<1>4. \A step \in Steps : Due(step) => step \notin stepsPerformed
  BY DEF Due, PerformVerification
<1>5. ASSUME NEW step \in Steps, Due(step),
             \/ Abort \/ NothingToCheck(step)
             \/ \E succeeded \in BOOLEAN : AddResult(step, succeeded)
      PROVE  Logs(step, 1)
  BY <1>1, <1>2, <1>3, <1>4, <1>5
<1> HIDE DEF Logs
<1> USE StepNames
<1>11. VerifyDocument => Logs("DOCUMENT", 1)
  BY <1>5 DEF VerifyDocument
<1>12. VerifyInternallyAggregationChain => Logs("AGGRCHAIN_INTERNALLY", 1)
  BY <1>5 DEF VerifyInternallyAggregationChain
<1>13. VerifyInternallyCalendarChain => Logs("CALCHAIN_INTERNALLY", 1)
  BY <1>5 DEF VerifyInternallyCalendarChain
<1>14. VerifyAggregationRootWithCalendarChain => Logs("AGGRCHAIN_WITH_CALENDAR_CHAIN", 3)
  BY <1>4, RootOutcomes DEF VerifyAggregationRootWithCalendarChain, Logs
<1>15. VerifyCalendarChain => Logs("CALCHAIN_WITH_CALAUTHREC", 1)
  BY <1>5 DEF VerifyCalendarChain
<1>16. VerifyCalAuthRec => Logs("CALAUTHREC_WITH_SIGNATURE", 1)
  BY <1>5 DEF VerifyCalAuthRec
<1>17. VerifyCalendarChainWithPublication => Logs("CALCHAIN_WITH_PUBLICATION", 1)
  BY <1>5 DEF VerifyCalendarChainWithPublication
<1>18. VerifyPublicationWithPubString => Logs("PUBLICATION_WITH_PUBSTRING", 1)
  BY <1>5 DEF VerifyPublicationWithPubString
<1>19. VerifyPublication => Logs("PUBLICATION_WITH_PUBFILE", 1)
  <2>1. \A f \in Files : (sig.pub \in FilePubs[f]) \in BOOLEAN
    OBVIOUS
  <2> QED
    BY <1>5, <2>1 DEF VerifyPublication
<1>20. VerifyOnline => Logs("CALCHAIN_ONLINE", 1)
  BY <1>5 DEF VerifyOnline
<1>21. \E step \in Steps : Logs(step, 1) \/ Logs("AGGRCHAIN_WITH_CALENDAR_CHAIN", 3)
  BY <1>11, <1>12, <1>13, <1>14, <1>15, <1>16, <1>17, <1>18, <1>19, <1>20 DEF StepFunction
<1> QED
  BY <1>21 DEF Logs

LEMMA LogBoundStep ==
  ASSUME TypeOK, LogBound, StepFunction
  PROVE  LogBound'
<1>1. CASE UNCHANGED <<stepsPerformed, steps>>
  BY <1>1 DEF LogBound
<1>2. ASSUME NEW step \in Steps, NEW outcomes \in Seq(BOOLEAN),
             step \notin stepsPerformed, AddResults(step, outcomes),
             \/ Len(outcomes) = 1
             \/ step = "AGGRCHAIN_WITH_CALENDAR_CHAIN" /\ Len(outcomes) \in 1 .. 3
      PROVE  LogBound'
  <2>1. Len(steps') = Len(steps) + Len(outcomes)
    BY <1>2, AddResultsType
  <2>2. stepsPerformed' = stepsPerformed \cup {step}
    BY <1>2 DEF AddResults
  <2>3. IsFiniteSet(stepsPerformed) /\ Cardinality(stepsPerformed) \in Nat
    BY PerformedFinite DEF TypeOK
  <2>4. Cardinality(stepsPerformed') = Cardinality(stepsPerformed) + 1
    BY <1>2, <2>2, <2>3, FS_AddElement
  <2>5. Len(steps) \in Nat /\ Len(outcomes) \in Nat
    BY LenProperties DEF TypeOK
  <2>6. CASE step = "AGGRCHAIN_WITH_CALENDAR_CHAIN"
    <3>1. Len(steps) <= Cardinality(stepsPerformed) /\ Len(outcomes) <= 3
      <4>1. Len(outcomes) <= 3
        <5>1. Len(outcomes) = 1 \/ Len(outcomes) \in 1 .. 3
          BY <1>2, Zenon
        <5>2. \A n \in Nat : n = 1 \/ n \in 1 .. 3 => n <= 3
          OBVIOUS
        <5> QED
          BY <2>5, <5>1, <5>2, Zenon
      <4>2. "AGGRCHAIN_WITH_CALENDAR_CHAIN" \notin stepsPerformed
        BY <1>2, <2>6
      <4> QED
        BY <2>3, <2>5, <4>1, <4>2 DEF LogBound
    <3>2. Len(steps') <= Cardinality(stepsPerformed') + 2
      BY <2>1, <2>3, <2>4, <2>5, <3>1
    <3> QED
      BY <2>2, <2>6, <3>2 DEF LogBound
  <2>7. CASE step # "AGGRCHAIN_WITH_CALENDAR_CHAIN"
    <3>1. Len(outcomes) = 1
      BY <1>2, <2>7
    <3>2. "AGGRCHAIN_WITH_CALENDAR_CHAIN" \in stepsPerformed'
            <=> "AGGRCHAIN_WITH_CALENDAR_CHAIN" \in stepsPerformed
      BY <2>2, <2>7
    <3>3. CASE "AGGRCHAIN_WITH_CALENDAR_CHAIN" \in stepsPerformed
      BY <2>1, <2>3, <2>4, <2>5, <3>1, <3>2, <3>3 DEF LogBound
    <3>4. CASE "AGGRCHAIN_WITH_CALENDAR_CHAIN" \notin stepsPerformed
      BY <2>1, <2>3, <2>4, <2>5, <3>1, <3>2, <3>4 DEF LogBound
    <3> QED
      BY <3>3, <3>4
  <2> QED
    BY <2>6, <2>7
<1> QED
  BY <1>1, <1>2, StepFunctionLogs

LEMMA LogBoundReset ==
  ASSUME stepsPerformed' = {}, steps' = << >>
  PROVE  LogBound'
  BY FS_EmptySet DEF LogBound

\* However the calls follow each other, the log never outgrows the array of
\* 32 entries that addVerificationStepResult writes to unchecked.
THEOREM LogAlwaysFits == Spec => []LogFits
<1>1. Init => LogBound
  BY FS_EmptySet DEF Init, LogBound
<1>2. TypeOK /\ LogBound /\ [Next]_vars => LogBound'
  <2> SUFFICES ASSUME TypeOK, LogBound, [Next]_vars PROVE LogBound'
    OBVIOUS
  <2>1. CASE StepFunction
    BY <2>1, LogBoundStep
  <2>2. CASE CallVerify \/ CallVerifyDataHash \/ CallVerifyWithPublication
    BY <2>2, LogBoundReset DEF CallVerify, CallVerifyDataHash, CallVerifyWithPublication, Reset
  <2>3. CASE UNCHANGED <<stepsPerformed, steps>>
    BY <2>3 DEF LogBound
  <2>4. PolicyFailed \/ PolicySatisfied \/ NextAlternative \/ NoSuitablePolicy
          => UNCHANGED <<stepsPerformed, steps>>
    BY DEF PolicyFailed, PolicySatisfied, NextAlternative, NoSuitablePolicy, info
  <2>5. CallVerifyOnline \/ ReplaceCalendarChain \/ ReplacePublicationRecord
        \/ SetPublicationsFile => UNCHANGED <<stepsPerformed, steps>>
    BY DEF CallVerifyOnline, ReplaceCalendarChain, ReplacePublicationRecord,
           SetPublicationsFile, Between, info
  <2>6. UNCHANGED vars => UNCHANGED <<stepsPerformed, steps>>
    BY DEF vars, info
  <2> QED
    BY <2>1, <2>2, <2>3, <2>4, <2>5, <2>6 DEF Next, VerifyPolicy, Caller
<1> QED
  BY <1>1, <1>2, TypeCorrect, LogBoundFits, PTL DEF Spec

-----------------------------------------------------------------------------
(* The verdicts: AnchorsAfterInternalSteps, BorrowedFileAlive,             *)
(* VerdictSound and FailureJustified, from one inductive invariant.        *)

Calls == ResettingCalls \cup {"verifyOnline"}

\* What a step that was performed and has not failed has established.
Holds(s) ==
  /\ s = "DOCUMENT" => sig.doc = documentHash
  /\ s = "AGGRCHAIN_INTERNALLY" => aggregationHash = sig.aggr[docAggrLevel]
  /\ s = "CALCHAIN_INTERNALLY" => sig.cal.calcTime = sig.cal.aggrTime
  /\ s = "AGGRCHAIN_WITH_CALENDAR_CHAIN" =>
       aggregationHash = sig.cal.input /\ sig.aggrTime = sig.cal.aggrTime
  /\ s = "CALCHAIN_WITH_CALAUTHREC" => sig.auth # None /\ sig.auth.pubData = CalendarRoot
  /\ s = "CALAUTHREC_WITH_SIGNATURE" =>
       /\ sig.auth # None /\ sig.auth.genuine
       /\ publicationsFile # None /\ sig.auth.cert \in FileCerts[publicationsFile]
  /\ s = "CALCHAIN_WITH_PUBLICATION" => sig.pub # None /\ sig.pub = CalendarRoot
  /\ s = "PUBLICATION_WITH_PUBSTRING" =>
       sig.pub # None /\ userPublication # None /\ sig.pub = userPublication
  /\ s = "PUBLICATION_WITH_PUBFILE" =>
       /\ sig.pub # None /\ userPublication = None
       /\ ctxFile # None /\ sig.pub \in FilePubs[ctxFile]
  /\ s = "CALCHAIN_ONLINE" => AnchoredByExtender

\* What a step that failed has found.
Refuted(s) ==
  /\ s = "DOCUMENT" => documentHash # None /\ sig.doc # documentHash
  /\ s = "AGGRCHAIN_INTERNALLY" => sig.aggr[docAggrLevel] = Inconsistent
  /\ s = "CALCHAIN_INTERNALLY" => sig.cal.calcTime # sig.cal.aggrTime
  /\ s = "AGGRCHAIN_WITH_CALENDAR_CHAIN" =>
       aggregationHash # sig.cal.input \/ sig.aggrTime # sig.cal.aggrTime
  /\ s = "CALCHAIN_WITH_CALAUTHREC" => sig.auth # None /\ sig.auth.pubData # CalendarRoot
  /\ s = "CALAUTHREC_WITH_SIGNATURE" =>
       /\ sig.auth # None /\ publicationsFile # None
       /\ ~sig.auth.genuine \/ sig.auth.cert \notin FileCerts[publicationsFile]
  /\ s = "CALCHAIN_WITH_PUBLICATION" => sig.pub # None /\ sig.pub # CalendarRoot
  /\ s = "PUBLICATION_WITH_PUBSTRING" =>
       sig.pub # None /\ userPublication # None /\ sig.pub # userPublication
  /\ s = "PUBLICATION_WITH_PUBFILE" =>
       /\ sig.pub # None /\ userPublication = None
       /\ ctxFile # None /\ sig.pub \notin FilePubs[ctxFile]
  /\ s = "CALCHAIN_ONLINE" =>
       confirmed # {} /\ (userPublication = None => ~AnchoredByExtender)

\* A step of which there is nothing to check.
Skippable(s) ==
  /\ s \notin InternalSteps \cup {"CALCHAIN_ONLINE"}
  /\ s = "DOCUMENT" => documentHash = None
  /\ s \in {"CALCHAIN_WITH_CALAUTHREC", "CALAUTHREC_WITH_SIGNATURE"} => sig.auth = None
  /\ s = "CALCHAIN_WITH_PUBLICATION" => sig.pub = None
  /\ s = "PUBLICATION_WITH_PUBSTRING" => sig.pub = None \/ userPublication = None
  /\ s = "PUBLICATION_WITH_PUBFILE" => sig.pub = None \/ userPublication # None

\* The policy and the arguments are those of the call.
CallsAs ==
  /\ pos # 0 => call \in Calls
  /\ call = "verify" => policy = VP_SIGNATURE /\ documentHash = None /\ userPublication = None
  /\ call = "verifyOnline" => policy = VP_ONLINE
  /\ call = "verifyDataHash" =>
       policy = VP_DOCUMENT /\ documentHash # None /\ userPublication = None
  /\ call = "verifyWithPublication" =>
       policy = VP_OFFLINE /\ documentHash = None /\ userPublication # None

\* The log and the two sets of steps agree.
LogAgrees ==
  /\ stepsFailed \subseteq stepsPerformed
  /\ \A i \in DOMAIN steps : /\ steps[i].step \in stepsPerformed
                             /\ ~steps[i].succeeded => steps[i].step \in stepsFailed
  /\ \A s \in stepsPerformed \ stepsFailed :
       \E j \in DOMAIN steps : steps[j] = [step |-> s, succeeded |-> TRUE]

\* A step is performed after the internal ones before it, all of which succeeded.
InternalFirst ==
  \A s \in stepsPerformed, t \in InternalSteps :
    Order[t] < Order[s] => t \in stepsPerformed \ stepsFailed

\* The steps of the alternative the engine has left behind.
Passed ==
  pos # 0 /\ stepsFailed = {} =>
    \A s \in Alternative : Order[s] < pos => s \in stepsPerformed \/ Skippable(s)

\* Once the extender was asked nothing else is performed, so nothing else fails.
OnlineLast ==
  "CALCHAIN_ONLINE" \in stepsPerformed =>
    /\ stepsFailed \subseteq {"CALCHAIN_ONLINE"}
    /\ pos # 0 => Alternative \subseteq stepsPerformed

\* What the extender said in this call was said to its step.
NotAsked == "CALCHAIN_ONLINE" \notin stepsPerformed => confirmed = {}

\* What holds from the reset of the result on, until the signature, the context or the
\* kind of call changes.
SinceReset ==
  call \in ResettingCalls =>
    /\ publicationsFile # None => publicationsFile = ctxFile
    /\ \A s \in stepsPerformed : IF s \in stepsFailed THEN Refuted(s) ELSE Holds(s)
    /\ stepsFailed \subseteq Alternative

\* Why the alternatives before this one could not be completed.
Tried ==
  call \in ResettingCalls =>
    /\ alt >= 2 => sig.auth = None
    /\ alt >= 3 => sig.pub = None \/ userPublication = None
    /\ alt >= 4 => sig.pub = None \/ userPublication # None

\* What the engine has found when it returns.
Returned ==
  pos = 0 /\ call \in Calls =>
    /\ res = "OK" => Alternative \subseteq stepsPerformed /\ stepsFailed \cap Alternative = {}
    /\ res = "VERIFICATION_FAILURE" =>
         \/ stepsFailed \cap Alternative # {}
         \/ /\ alt = Len(policy) /\ ~(Alternative \subseteq stepsPerformed)
            /\ stepsFailed = {} => \A s \in Alternative : s \in stepsPerformed \/ Skippable(s)

VerdictInv ==
  /\ CallsAs /\ LogAgrees /\ InternalFirst /\ AnchorsAfterInternalSteps
  /\ Passed /\ OnlineLast /\ NotAsked /\ SinceReset /\ Tried /\ Returned

-----------------------------------------------------------------------------
(* Lemmas about the calls and their alternatives.                          *)

\* The alternatives of a resetting call: the four ways to an anchor, in this order,
\* for verifyDataHash with the comparison of the document.
Way == << ByAuthRec, ByPubString, ByPubFile, ByExtender >>

LEMMA AlternativeOfCall ==
  ASSUME TypeOK, CallsAs, call \in ResettingCalls
  PROVE  /\ Len(policy) = IF call = "verifyWithPublication" THEN 3 ELSE 4
         /\ alt \in 1 .. 4
         /\ Alternative = IF call = "verifyDataHash" THEN {"DOCUMENT"} \cup Way[alt] ELSE Way[alt]
<1>0. /\ Len(VP_SIGNATURE) = 4 /\ VP_SIGNATURE = Way
      /\ Len(VP_OFFLINE) = 3 /\ \A n \in 1 .. 3 : VP_OFFLINE[n] = Way[n]
      /\ Len(VP_DOCUMENT) = 4 /\ \A n \in 1 .. 4 : VP_DOCUMENT[n] = {"DOCUMENT"} \cup Way[n]
  <2>1. VP_SIGNATURE = Way /\ Len(VP_SIGNATURE) = 4 /\ Len(VP_OFFLINE) = 3 /\ Len(VP_DOCUMENT) = 4
    BY DEF VP_SIGNATURE, VP_OFFLINE, VP_DOCUMENT, Way
  <2>2. /\ VP_DOCUMENT[1] = {"DOCUMENT"} \cup ByAuthRec
        /\ VP_DOCUMENT[2] = {"DOCUMENT"} \cup ByPubString
        /\ VP_DOCUMENT[3] = {"DOCUMENT"} \cup ByPubFile
        /\ VP_DOCUMENT[4] = {"DOCUMENT"} \cup ByExtender
    BY DEF VP_DOCUMENT
  <2>3. VP_OFFLINE[1] = ByAuthRec /\ VP_OFFLINE[2] = ByPubString /\ VP_OFFLINE[3] = ByPubFile
    BY DEF VP_OFFLINE
  <2>4. Way[1] = ByAuthRec /\ Way[2] = ByPubString /\ Way[3] = ByPubFile /\ Way[4] = ByExtender
    BY DEF Way
  <2>5. /\ \A n \in 1 .. 4 : n = 1 \/ n = 2 \/ n = 3 \/ n = 4
        /\ \A n \in 1 .. 3 : n = 1 \/ n = 2 \/ n = 3
    OBVIOUS
  <2> QED
    BY <2>1, <2>2, <2>3, <2>4, <2>5
<1>1. alt \in 1 .. Len(policy)
  BY DEF TypeOK
<1>2. CASE call = "verify"
  <2>1. policy = VP_SIGNATURE
    BY <1>2 DEF CallsAs
  <2> QED
    BY <2>1, <1>0, <1>1, <1>2 DEF Alternative
<1>3. CASE call = "verifyDataHash"
  <2>1. policy = VP_DOCUMENT
    BY <1>3 DEF CallsAs
  <2>2. Alternative = {"DOCUMENT"} \cup Way[alt] /\ Len(policy) = 4 /\ alt \in 1 .. 4
    BY <2>1, <1>0, <1>1 DEF Alternative
  <2> QED
    BY <2>2, <1>3
<1>4. CASE call = "verifyWithPublication"
  <2>1. policy = VP_OFFLINE
    BY <1>4 DEF CallsAs
  <2>2. Alternative = Way[alt] /\ Len(policy) = 3 /\ alt \in 1 .. 3
    BY <2>1, <1>0, <1>1 DEF Alternative
  <2> QED
    BY <2>2, <1>4
<1> QED
  BY <1>2, <1>3, <1>4 DEF ResettingCalls

\* Which alternatives look at which anchor.
LEMMA AnchorsOfWay ==
  ASSUME NEW n \in 1 .. 4
  PROVE  /\ InternalSteps \subseteq Way[n] /\ "DOCUMENT" \notin Way[n]
         /\ "CALCHAIN_WITH_CALAUTHREC" \in Way[n] <=> n = 1
         /\ "CALAUTHREC_WITH_SIGNATURE" \in Way[n] <=> n = 1
         /\ "CALCHAIN_WITH_PUBLICATION" \in Way[n] <=> n \in {2, 3}
         /\ "PUBLICATION_WITH_PUBSTRING" \in Way[n] <=> n = 2
         /\ "PUBLICATION_WITH_PUBFILE" \in Way[n] <=> n = 3
         /\ "CALCHAIN_ONLINE" \in Way[n] <=> n = 4
<1>1. n = 1 \/ n = 2 \/ n = 3 \/ n = 4
  OBVIOUS
<1>2. /\ Way[1] = ByAuthRec /\ Way[2] = ByPubString
      /\ Way[3] = ByPubFile /\ Way[4] = ByExtender
  BY DEF Way
<1> QED
  BY <1>1, <1>2 DEF ByAuthRec, ByPubString, ByPubFile, ByExtender, InternalSteps

LEMMA AlternativeOnline ==
  ASSUME TypeOK, CallsAs, call = "verifyOnline"
  PROVE  Alternative = ByExtender /\ alt = 1 /\ Len(policy) = 1
<1>1. policy = VP_ONLINE /\ alt \in 1 .. Len(policy)
  BY DEF CallsAs, TypeOK
<1> QED
  BY <1>1 DEF Alternative, VP_ONLINE

\* The extender is asked in an alternative that holds nothing but the comparison of the
\* document, if there is one to compare, and the internal steps besides.
LEMMA AlternativeWithOnline ==
  ASSUME TypeOK, CallsAs, call \in Calls, "CALCHAIN_ONLINE" \in Alternative
  PROVE  /\ ByExtender \subseteq Alternative
         /\ Alternative \subseteq ByExtender \cup {"DOCUMENT"}
         /\ "DOCUMENT" \in Alternative => documentHash # None
<1>1. CASE call = "verifyOnline"
  BY <1>1, AlternativeOnline DEF ByExtender, InternalSteps
<1>2. CASE call \in ResettingCalls
  <2>1. alt = 4
    BY <1>2, AlternativeOfCall, AnchorsOfWay
  <2>2. Way[4] = ByExtender
    BY DEF Way
  <2> QED
    BY <1>2, <2>1, <2>2, AlternativeOfCall, AnchorsOfWay DEF CallsAs
<1> QED
  BY <1>1, <1>2 DEF Calls

LEMMA OrderValues ==
  /\ Order["DOCUMENT"] = 1 /\ Order["AGGRCHAIN_INTERNALLY"] = 2
  /\ Order["CALCHAIN_INTERNALLY"] = 3 /\ Order["AGGRCHAIN_WITH_CALENDAR_CHAIN"] = 4
  /\ Order["CALCHAIN_WITH_CALAUTHREC"] = 5 /\ Order["CALAUTHREC_WITH_SIGNATURE"] = 6
  /\ Order["CALCHAIN_WITH_PUBLICATION"] = 7 /\ Order["PUBLICATION_WITH_PUBSTRING"] = 8
  /\ Order["PUBLICATION_WITH_PUBFILE"] = 9 /\ Order["CALCHAIN_ONLINE"] = 10
  BY DEF Order

-----------------------------------------------------------------------------
(* What a step function does.                                              *)

\* What it leaves alone beside the fields of AddResults.
Frame(step) ==
  /\ UNCHANGED <<docAggrLevel, documentHash, userPublication>>
  /\ ctxFile # None => ctxFile' = ctxFile
  /\ step # "AGGRCHAIN_INTERNALLY" => aggregationHash' = aggregationHash
  /\ publicationsFile' \in {publicationsFile, ctxFile'}
  /\ publicationsFile # None => publicationsFile' = publicationsFile
  /\ step # "CALAUTHREC_WITH_SIGNATURE" => publicationsFile' = publicationsFile
  /\ step # "CALCHAIN_ONLINE" => confirmed' = confirmed

\* The step was performed, and its outcome is what it is said to be.
Performed(step, outcomes) ==
  /\ Continue(step) /\ AddResults(step, outcomes) /\ Frame(step)
  /\ IF \A i \in DOMAIN outcomes : outcomes[i] THEN Holds(step)' ELSE Refuted(step)'

Outcome(step) ==
  \/ Abort /\ (ctxFile # None => ctxFile' = ctxFile)
  \/ NothingToCheck(step) /\ Skippable(step)
  \/ \E outcomes \in Seq(BOOLEAN) : Len(outcomes) \in 1 .. 3 /\ Performed(step, outcomes)

LEMMA OneOutcome ==
  ASSUME NEW step, NEW ok \in BOOLEAN, Continue(step), AddResult(step, ok), Frame(step),
         ok => Holds(step)', ~ok => Refuted(step)'
  PROVE  Outcome(step)
<1>1. <<ok>> \in Seq(BOOLEAN) /\ Len(<<ok>>) \in 1 .. 3
  OBVIOUS
<1>2. (\A i \in DOMAIN <<ok>> : <<ok>>[i]) <=> ok
  <2>1. DOMAIN <<ok>> = {1} /\ <<ok>>[1] = ok
    OBVIOUS
  <2> QED
    BY <2>1, Zenon
<1>3. Performed(step, <<ok>>)
  BY <1>2 DEF Performed, AddResult
<1> QED
  BY <1>1, <1>3, Zenon DEF Outcome

LEMMA ResultFrame ==
  ASSUME NEW step, JustTheResult
  PROVE  Frame(step)
  BY DEF JustTheResult, Frame

LEMMA NoOutcome ==
  ASSUME NEW step, NothingToCheck(step), Skippable(step)
  PROVE  Outcome(step)
  BY DEF Outcome

LEMMA AbortOutcome ==
  ASSUME NEW step, Abort, ctxFile # None => ctxFile' = ctxFile
  PROVE  Outcome(step)
  BY DEF Outcome

\* Every step function is one of the three, for its own step.
LEMMA StepOutcome ==
  ASSUME TypeOK, NotAsked, StepFunction
  PROVE  \E step \in Steps : Due(step) /\ Outcome(step)
<1> USE StepNames
<1> DEFINE Done(step) == Due(step) /\ Outcome(step)
<1>1. CASE VerifyDocument
  <2>1. CASE documentHash = None
    <3>1. Skippable("DOCUMENT")
      BY <2>1 DEF Skippable, InternalSteps
    <3> QED
      BY <1>1, <2>1, <3>1, NoOutcome DEF VerifyDocument
  <2>2. CASE documentHash # None
    <3> DEFINE ok == sig.doc = documentHash
    <3>1. Continue("DOCUMENT") /\ AddResult("DOCUMENT", ok) /\ JustTheResult
      BY <1>1, <2>2 DEF VerifyDocument
    <3>2. (ok => Holds("DOCUMENT")') /\ (~ok => Refuted("DOCUMENT")')
      BY <2>2, <3>1 DEF Continue, JustTheResult, Holds, Refuted
    <3>3. ok \in BOOLEAN
      OBVIOUS
    <3> HIDE DEF ok
    <3>4. Outcome("DOCUMENT")
      BY <3>1, <3>2, <3>3, OneOutcome, ResultFrame
    <3> QED
      BY <1>1, <3>4 DEF VerifyDocument
  <2> QED
    BY <2>1, <2>2
<1>2. CASE VerifyInternallyAggregationChain
  <2>1. CASE sig.aggr[docAggrLevel] = Uncomputable
    BY <1>2, <2>1, AbortOutcome DEF VerifyInternallyAggregationChain
  <2>2. CASE sig.aggr[docAggrLevel] # Uncomputable
    <3> DEFINE ok == sig.aggr[docAggrLevel] # Inconsistent
    <3>1. /\ Continue("AGGRCHAIN_INTERNALLY") /\ AddResult("AGGRCHAIN_INTERNALLY", ok)
          /\ aggregationHash' = IF ok THEN sig.aggr[docAggrLevel] ELSE aggregationHash
          /\ UNCHANGED <<ctxFile, docAggrLevel, documentHash, userPublication,
                         publicationsFile, confirmed>>
      BY <1>2, <2>2 DEF VerifyInternallyAggregationChain
    <3>2. (ok => Holds("AGGRCHAIN_INTERNALLY")') /\ (~ok => Refuted("AGGRCHAIN_INTERNALLY")')
      BY <3>1 DEF Continue, Holds, Refuted
    <3>3. ok \in BOOLEAN /\ Frame("AGGRCHAIN_INTERNALLY")
      BY <3>1 DEF Frame
    <3> HIDE DEF ok
    <3>4. Outcome("AGGRCHAIN_INTERNALLY")
      BY <3>1, <3>2, <3>3, OneOutcome
    <3> QED
      BY <1>2, <3>4 DEF VerifyInternallyAggregationChain
  <2> QED
    BY <2>1, <2>2
<1>3. CASE VerifyInternallyCalendarChain
  <2>1. CASE sig.cal.calcTime = Uncomputable
    BY <1>3, <2>1, AbortOutcome DEF VerifyInternallyCalendarChain
  <2>2. CASE sig.cal.calcTime # Uncomputable
    <3> DEFINE ok == sig.cal.calcTime = sig.cal.aggrTime
    <3>1. Continue("CALCHAIN_INTERNALLY") /\ AddResult("CALCHAIN_INTERNALLY", ok) /\ JustTheResult
      BY <1>3, <2>2 DEF VerifyInternallyCalendarChain
    <3>2. (ok => Holds("CALCHAIN_INTERNALLY")') /\ (~ok => Refuted("CALCHAIN_INTERNALLY")')
      BY <3>1 DEF Continue, JustTheResult, Holds, Refuted
    <3>3. ok \in BOOLEAN
      OBVIOUS
    <3> HIDE DEF ok
    <3>4. Outcome("CALCHAIN_INTERNALLY")
      BY <3>1, <3>2, <3>3, OneOutcome, ResultFrame
    <3> QED
      BY <1>3, <3>4 DEF VerifyInternallyCalendarChain
  <2> QED
    BY <2>1, <2>2
<1>4. CASE VerifyAggregationRootWithCalendarChain
  <2> DEFINE s == "AGGRCHAIN_WITH_CALENDAR_CHAIN"
             ok == aggregationHash = sig.cal.input /\ sig.aggrTime = sig.cal.aggrTime
  <2>1. PICK outcomes \in Seq(BOOLEAN) :
          /\ AddResults(s, outcomes) /\ Len(outcomes) \in 1 .. 3
          /\ (\A i \in DOMAIN outcomes : outcomes[i]) <=> ok
    BY <1>4, RootOutcomes
  <2>2. Continue(s) /\ JustTheResult
    BY <1>4 DEF VerifyAggregationRootWithCalendarChain
  <2>3. (ok => Holds(s)') /\ (~ok => Refuted(s)')
    BY <2>2 DEF Continue, JustTheResult, Holds, Refuted
  <2>4. Performed(s, outcomes)
    <3> HIDE DEF ok, s
    <3> QED
      BY <2>1, <2>2, <2>3, ResultFrame, Zenon DEF Performed
  <2> QED
    BY <1>4, <2>1, <2>4 DEF VerifyAggregationRootWithCalendarChain, Outcome
<1>5. CASE VerifyCalendarChain
  <2>1. CASE sig.auth = None
    <3>1. Skippable("CALCHAIN_WITH_CALAUTHREC")
      BY <2>1 DEF Skippable, InternalSteps
    <3> QED
      BY <1>5, <2>1, <3>1, NoOutcome DEF VerifyCalendarChain
  <2>2. CASE sig.auth # None /\ sig.cal.root = Uncomputable
    BY <1>5, <2>2, AbortOutcome DEF VerifyCalendarChain
  <2>3. CASE sig.auth # None /\ sig.cal.root # Uncomputable
    <3> DEFINE ok == sig.auth.pubData = CalendarRoot
    <3>1. /\ Continue("CALCHAIN_WITH_CALAUTHREC") /\ AddResult("CALCHAIN_WITH_CALAUTHREC", ok)
          /\ JustTheResult
      BY <1>5, <2>3 DEF VerifyCalendarChain, CalendarRoot
    <3>2. /\ ok => Holds("CALCHAIN_WITH_CALAUTHREC")'
          /\ ~ok => Refuted("CALCHAIN_WITH_CALAUTHREC")'
      BY <2>3, <3>1 DEF Continue, JustTheResult, Holds, Refuted, CalendarRoot
    <3>3. ok \in BOOLEAN
      OBVIOUS
    <3> HIDE DEF ok
    <3>4. Outcome("CALCHAIN_WITH_CALAUTHREC")
      BY <3>1, <3>2, <3>3, OneOutcome, ResultFrame
    <3> QED
      BY <1>5, <3>4 DEF VerifyCalendarChain
  <2> QED
    BY <2>1, <2>2, <2>3
<1>6. CASE VerifyCalAuthRec
  <2>1. CASE sig.auth = None
    <3>1. Skippable("CALAUTHREC_WITH_SIGNATURE")
      BY <2>1 DEF Skippable, InternalSteps
    <3> QED
      BY <1>6, <2>1, <3>1, NoOutcome DEF VerifyCalAuthRec
  <2>2. CASE sig.auth # None
    <3>1. PICK f \in Files \cup {None} :
            /\ IF publicationsFile # None
               THEN f = publicationsFile /\ UNCHANGED ctxFile
               ELSE ReceivePublicationsFile(f)
            /\ \/ f = None /\ Abort
               \/ /\ f # None
                  /\ Continue("CALAUTHREC_WITH_SIGNATURE")
                  /\ publicationsFile' = f
                  /\ AddResult("CALAUTHREC_WITH_SIGNATURE",
                               sig.auth.cert \in FileCerts[f] /\ sig.auth.genuine)
                  /\ UNCHANGED <<docAggrLevel, documentHash, userPublication,
                                 aggregationHash, confirmed>>
      BY <1>6, <2>2 DEF VerifyCalAuthRec
    <3>2. ctxFile # None => ctxFile' = ctxFile
      BY <3>1 DEF ReceivePublicationsFile
    <3>3. CASE f = None
      BY <1>6, <3>1, <3>2, <3>3, AbortOutcome DEF VerifyCalAuthRec
    <3>4. CASE f # None
      <4> DEFINE ok == sig.auth.cert \in FileCerts[f] /\ sig.auth.genuine
      <4>1. /\ Continue("CALAUTHREC_WITH_SIGNATURE") /\ publicationsFile' = f
            /\ AddResult("CALAUTHREC_WITH_SIGNATURE", ok)
            /\ UNCHANGED <<docAggrLevel, documentHash, userPublication,
                           aggregationHash, confirmed>>
        BY <3>1, <3>4
      <4>2. /\ ok => Holds("CALAUTHREC_WITH_SIGNATURE")'
            /\ ~ok => Refuted("CALAUTHREC_WITH_SIGNATURE")'
        BY <2>2, <3>4, <4>1 DEF Continue, Holds, Refuted
      <4>3. publicationsFile' \in {publicationsFile, ctxFile'}
        BY <3>1, <3>4, <4>1 DEF ReceivePublicationsFile
      <4>4. publicationsFile # None => publicationsFile' = publicationsFile
        BY <3>1, <4>1
      <4>5. ok \in BOOLEAN /\ Frame("CALAUTHREC_WITH_SIGNATURE")
        BY <3>2, <4>1, <4>3, <4>4 DEF Frame
      <4> HIDE DEF ok
      <4>6. Outcome("CALAUTHREC_WITH_SIGNATURE")
        BY <4>1, <4>2, <4>5, OneOutcome
      <4> QED
        BY <1>6, <4>6 DEF VerifyCalAuthRec
    <3> QED
      BY <3>3, <3>4
  <2> QED
    BY <2>1, <2>2
<1>7. CASE VerifyCalendarChainWithPublication
  <2>1. CASE sig.pub = None
    <3>1. Skippable("CALCHAIN_WITH_PUBLICATION")
      BY <2>1 DEF Skippable, InternalSteps
    <3> QED
      BY <1>7, <2>1, <3>1, NoOutcome DEF VerifyCalendarChainWithPublication
  <2>2. CASE sig.pub # None /\ sig.cal.root = Uncomputable
    BY <1>7, <2>2, AbortOutcome DEF VerifyCalendarChainWithPublication
  <2>3. CASE sig.pub # None /\ sig.cal.root # Uncomputable
    <3> DEFINE ok == sig.cal.root = sig.pub.imprint /\ sig.cal.pubTime = sig.pub.time
    <3>1. /\ Continue("CALCHAIN_WITH_PUBLICATION") /\ AddResult("CALCHAIN_WITH_PUBLICATION", ok)
          /\ JustTheResult
      BY <1>7, <2>3 DEF VerifyCalendarChainWithPublication
    <3>2. ok <=> sig.pub = CalendarRoot
      <4>1. sig.pub \in Publication
        BY <2>3 DEF TypeOK, Signature
      <4> QED
        BY <4>1 DEF CalendarRoot, Publication
    <3>3. /\ ok => Holds("CALCHAIN_WITH_PUBLICATION")'
          /\ ~ok => Refuted("CALCHAIN_WITH_PUBLICATION")'
      <4> HIDE DEF ok
      <4> QED
        BY <2>3, <3>1, <3>2 DEF Continue, JustTheResult, Holds, Refuted, CalendarRoot
    <3>4. ok \in BOOLEAN
      OBVIOUS
    <3> HIDE DEF ok
    <3>5. Outcome("CALCHAIN_WITH_PUBLICATION")
      BY <3>1, <3>3, <3>4, OneOutcome, ResultFrame
    <3> QED
      BY <1>7, <3>5 DEF VerifyCalendarChainWithPublication
  <2> QED
    BY <2>1, <2>2, <2>3
<1>8. CASE VerifyPublicationWithPubString
  <2>1. CASE sig.pub = None \/ userPublication = None
    <3>1. Skippable("PUBLICATION_WITH_PUBSTRING")
      BY <2>1 DEF Skippable, InternalSteps
    <3> QED
      BY <1>8, <2>1, <3>1, NoOutcome DEF VerifyPublicationWithPubString
  <2>2. CASE ~(sig.pub = None \/ userPublication = None)
    <3> DEFINE ok == sig.pub = userPublication
    <3>1. /\ Continue("PUBLICATION_WITH_PUBSTRING") /\ AddResult("PUBLICATION_WITH_PUBSTRING", ok)
          /\ JustTheResult
      BY <1>8, <2>2 DEF VerifyPublicationWithPubString
    <3>2. /\ ok => Holds("PUBLICATION_WITH_PUBSTRING")'
          /\ ~ok => Refuted("PUBLICATION_WITH_PUBSTRING")'
      BY <2>2, <3>1 DEF Continue, JustTheResult, Holds, Refuted
    <3>3. ok \in BOOLEAN
      OBVIOUS
    <3> HIDE DEF ok
    <3>4. Outcome("PUBLICATION_WITH_PUBSTRING")
      BY <3>1, <3>2, <3>3, OneOutcome, ResultFrame
    <3> QED
      BY <1>8, <3>4 DEF VerifyPublicationWithPubString
  <2> QED
    BY <2>1, <2>2
<1>9. CASE VerifyPublication
  <2>1. CASE sig.pub = None \/ userPublication # None
    <3>1. Skippable("PUBLICATION_WITH_PUBFILE")
      BY <2>1 DEF Skippable, InternalSteps
    <3> QED
      BY <1>9, <2>1, <3>1, NoOutcome DEF VerifyPublication
  <2>2. CASE sig.pub # None /\ userPublication = None
    <3>1. PICK f \in Files \cup {None} :
            /\ ReceivePublicationsFile(f)
            /\ \/ f = None /\ Abort
               \/ /\ f # None
                  /\ Continue("PUBLICATION_WITH_PUBFILE")
                  /\ AddResult("PUBLICATION_WITH_PUBFILE", sig.pub \in FilePubs[f])
                  /\ UNCHANGED <<docAggrLevel, documentHash, userPublication,
                                 publicationsFile, aggregationHash, confirmed>>
      BY <1>9, <2>2 DEF VerifyPublication
    <3>2. (ctxFile # None => ctxFile' = ctxFile) /\ ctxFile' = f
      BY <3>1 DEF ReceivePublicationsFile
    <3>3. CASE f = None
      BY <1>9, <3>1, <3>2, <3>3, AbortOutcome DEF VerifyPublication
    <3>4. CASE f # None
      <4> DEFINE ok == sig.pub \in FilePubs[f]
      <4>1. /\ Continue("PUBLICATION_WITH_PUBFILE") /\ AddResult("PUBLICATION_WITH_PUBFILE", ok)
            /\ UNCHANGED <<docAggrLevel, documentHash, userPublication,
                           publicationsFile, aggregationHash, confirmed>>
        BY <3>1, <3>4
      <4>2. /\ ok => Holds("PUBLICATION_WITH_PUBFILE")'
            /\ ~ok => Refuted("PUBLICATION_WITH_PUBFILE")'
        BY <2>2, <3>2, <3>4, <4>1 DEF Continue, Holds, Refuted
      <4>3. ok \in BOOLEAN /\ Frame("PUBLICATION_WITH_PUBFILE")
        BY <3>2, <4>1 DEF Frame
      <4> HIDE DEF ok
      <4>4. Outcome("PUBLICATION_WITH_PUBFILE")
        BY <4>1, <4>2, <4>3, OneOutcome
      <4> QED
        BY <1>9, <4>4 DEF VerifyPublication
    <3> QED
      BY <3>3, <3>4
  <2> QED
    BY <2>1, <2>2
<1>10. CASE VerifyOnline
  <2>1. CASE Abort /\ UNCHANGED ctxFile
    BY <1>10, <2>1, AbortOutcome DEF VerifyOnline
  <2>2. ASSUME NEW chain \in Chains, NEW status \in BOOLEAN,
               status => chain.aggrTime = sig.cal.aggrTime,
               Continue("CALCHAIN_ONLINE"),
               AddResult("CALCHAIN_ONLINE",
                         chain.input = sig.cal.input /\ userPublication = None),
               confirmed' = confirmed \cup {Said(chain, status)},
               UNCHANGED <<ctxFile, docAggrLevel, documentHash, userPublication,
                           publicationsFile, aggregationHash>>
        PROVE  Outcome("CALCHAIN_ONLINE")
    <3> DEFINE ok == chain.input = sig.cal.input /\ userPublication = None
    <3>1. confirmed = {}
      BY <1>10 DEF VerifyOnline, Due, PerformVerification, NotAsked
    <3>2. confirmed' = {Said(chain, status)} /\ sig' = sig
      BY <2>2, <3>1 DEF Continue
    <3>3. AnchoredByExtender' <=> chain.input = sig.cal.input
      <4> DEFINE answer == Said(chain, status)
      <4>1. /\ answer.input = chain.input /\ answer.aggrTime = chain.aggrTime
            /\ answer.status = status
        BY DEF Said
      <4>2. answer.status => answer.aggrTime = sig.cal.aggrTime
        BY <2>2, <4>1, Zenon
      <4> HIDE DEF answer
      <4>3. confirmed' = {answer}
        BY <3>2 DEF answer
      <4> QED
        BY <3>2, <4>1, <4>2, <4>3 DEF AnchoredByExtender
    <3>4. ok => Holds("CALCHAIN_ONLINE")'
      BY <3>3 DEF Holds
    <3>5. ~ok => Refuted("CALCHAIN_ONLINE")'
      BY <2>2, <3>2, <3>3 DEF Refuted
    <3>6. ok \in BOOLEAN /\ Frame("CALCHAIN_ONLINE")
      BY <2>2 DEF Frame
    <3>7. AddResult("CALCHAIN_ONLINE", ok)
      BY <2>2
    <3> HIDE DEF ok
    <3> QED
      BY <2>2, <3>4, <3>5, <3>6, <3>7, OneOutcome
  <2> QED
    BY <1>10, <2>1, <2>2 DEF VerifyOnline, VerifyWithRequest, Said
<1> QED
  BY <1>1, <1>2, <1>3, <1>4, <1>5, <1>6, <1>7, <1>8, <1>9, <1>10 DEF StepFunction

-----------------------------------------------------------------------------
(* Lemmas about what stays true.                                           *)

LEMMA HoldsKept ==
  ASSUME NEW s, NEW step, s # step, sig' = sig, Frame(step),
         s = "AGGRCHAIN_WITH_CALENDAR_CHAIN" => step # "AGGRCHAIN_INTERNALLY",
         Holds(s)
  PROVE  Holds(s)'
  BY DEF Frame, Holds, CalendarRoot, AnchoredByExtender

LEMMA FindingsKept ==
  ASSUME NEW s, sig' = sig, info' = info, confirmed' = confirmed,
         ctxFile # None => ctxFile' = ctxFile
  PROVE  (Holds(s) => Holds(s)') /\ (Refuted(s) => Refuted(s)')
<1>1. UNCHANGED <<docAggrLevel, documentHash, userPublication, publicationsFile, aggregationHash>>
  BY DEF info
<1>2. Holds(s) => Holds(s)'
  BY <1>1 DEF Holds, CalendarRoot, AnchoredByExtender
<1>3. Refuted(s) => Refuted(s)'
  BY <1>1 DEF Refuted, CalendarRoot, AnchoredByExtender
<1> QED
  BY <1>2, <1>3

LEMMA SkippableKept ==
  ASSUME NEW s, UNCHANGED <<sig, documentHash, userPublication>>
  PROVE  Skippable(s)' <=> Skippable(s)
  BY DEF Skippable

LEMMA AlternativeKept ==
  ASSUME engine' = engine
  PROVE  Alternative' = Alternative /\ policy' = policy /\ alt' = alt
  BY DEF engine, Alternative

LEMMA OrderInjective == \A s, t \in Steps : Order[s] = Order[t] => s = t
  BY DEF Order, Steps, InternalSteps, AnchorSteps

\* When a step is due, all the ones before it in the alternative are done with.
LEMMA DueAfterOthers ==
  ASSUME TypeOK, Passed, NEW step \in Steps, Due(step)
  PROVE  /\ pos \in Nat \ {0} /\ stepsFailed = {}
         /\ step \in Alternative /\ step \notin stepsPerformed
         /\ Alternative \subseteq Steps /\ InternalSteps \subseteq Alternative
         /\ \A t \in Alternative : Order[t] < Order[step] => t \in stepsPerformed \/ Skippable(t)
<1>1. /\ pos # 0 /\ stepsFailed = {} /\ step \in Alternative /\ step \notin stepsPerformed
  BY DEF Due, PerformVerification
<1>2. Alternative \subseteq Steps /\ InternalSteps \subseteq Alternative
  BY AlternativeType DEF TypeOK
<1>3. ASSUME NEW t \in Alternative, Order[t] < Order[step]
      PROVE  t \in stepsPerformed \/ Skippable(t)
  <2>1. CASE pos <= Order[t]
    BY <1>1, <1>2, <1>3, <2>1 DEF Due, PerformVerification
  <2>2. CASE ~(pos <= Order[t])
    <3>1. Order[t] < pos
      BY <1>2, <2>2, OrderType DEF TypeOK
    <3> QED
      BY <1>1, <1>3, <3>1 DEF Passed
  <2> QED
    BY <2>1, <2>2
<1> QED
  BY <1>1, <1>2, <1>3 DEF TypeOK

\* The same of the end of an alternative.
LEMMA AfterStepsDone ==
  ASSUME TypeOK, Passed, AfterSteps, stepsFailed = {}
  PROVE  \A t \in Alternative : t \in stepsPerformed \/ Skippable(t)
<1> SUFFICES ASSUME NEW t \in Alternative, t \notin stepsPerformed
             PROVE  Skippable(t)
  OBVIOUS
<1>1. t \in Steps
  BY AlternativeType DEF TypeOK
<1>2. Order[t] < pos /\ pos # 0
  BY <1>1, OrderType DEF AfterSteps, PerformVerification, TypeOK
<1> QED
  BY <1>2 DEF Passed

\* What AddResults appends to the log.
LEMMA AddResultsLog ==
  ASSUME TypeOK, NEW step \in Steps, NEW outcomes \in Seq(BOOLEAN), Len(outcomes) \in 1 .. 3,
         AddResults(step, outcomes)
  PROVE  /\ Len(steps) \in Nat /\ DOMAIN steps = 1 .. Len(steps)
         /\ DOMAIN steps' = 1 .. Len(steps) + Len(outcomes)
         /\ \A i \in 1 .. Len(steps) : steps'[i] = steps[i]
         /\ \A k \in 1 .. Len(outcomes) :
              steps'[Len(steps) + k] = [step |-> step, succeeded |-> outcomes[k]]
<1> DEFINE e(i) == [step |-> step, succeeded |-> outcomes[i]]
           new == [i \in 1 .. Len(outcomes) |-> e(i)]
<1>1. Len(outcomes) \in Nat /\ DOMAIN outcomes = 1 .. Len(outcomes)
  BY LenProperties
<1>2. \A i \in 1 .. Len(outcomes) : e(i) \in StepResult
  BY DEF StepResult
<1>3. new \in Seq(StepResult) /\ Len(new) = Len(outcomes)
      /\ \A k \in 1 .. Len(outcomes) : new[k] = e(k)
  <2> HIDE DEF e
  <2>1. new \in [1 .. Len(outcomes) -> StepResult]
    BY <1>2
  <2> QED
    BY <1>1, <2>1
<1>4. steps \in Seq(StepResult) /\ steps' = steps \o new
  BY <1>1 DEF TypeOK, AddResults
<1>5. Len(steps) \in Nat /\ DOMAIN steps = 1 .. Len(steps)
  BY <1>4, LenProperties
<1> HIDE DEF new, e
<1>6. /\ \A i \in 1 .. Len(steps) : steps'[i] = steps[i]
      /\ \A k \in 1 .. Len(outcomes) : steps'[Len(steps) + k] = new[k]
      /\ DOMAIN steps' = 1 .. Len(steps) + Len(outcomes)
  <2>1. /\ Len(steps \o new) = Len(steps) + Len(new) /\ steps \o new \in Seq(StepResult)
        /\ \A i \in 1 .. Len(steps) + Len(new) :
             (steps \o new)[i] = IF i <= Len(steps) THEN steps[i] ELSE new[i - Len(steps)]
    BY <1>3, <1>4, ConcatProperties
  <2>2. \A i \in 1 .. Len(steps) + Len(outcomes) :
          steps'[i] = IF i <= Len(steps) THEN steps[i] ELSE new[i - Len(steps)]
    BY <1>3, <1>4, <2>1
  <2>3. DOMAIN steps' = 1 .. Len(steps) + Len(outcomes)
    BY <1>3, <1>4, <2>1, LenProperties
  <2>4. \A i \in 1 .. Len(steps) : i \in 1 .. Len(steps) + Len(outcomes) /\ i <= Len(steps)
    BY <1>1, <1>5
  <2>5. \A k \in 1 .. Len(outcomes) : /\ Len(steps) + k \in 1 .. Len(steps) + Len(outcomes)
                                      /\ ~(Len(steps) + k <= Len(steps))
                                      /\ Len(steps) + k - Len(steps) = k
    BY <1>1, <1>5
  <2>6. \A i \in 1 .. Len(steps) : steps'[i] = steps[i]
    BY <2>2, <2>4, Zenon
  <2>7. ASSUME NEW k \in 1 .. Len(outcomes) PROVE steps'[Len(steps) + k] = new[k]
    BY <2>2, <2>5
  <2> QED
    BY <2>3, <2>6, <2>7
<1> QED
  BY <1>3, <1>5, <1>6 DEF e

\* ... and how the two sets of steps follow.
LEMMA AddResultsSets ==
  ASSUME TypeOK, NEW step \in Steps, NEW outcomes \in Seq(BOOLEAN), AddResults(step, outcomes)
  PROVE  /\ stepsPerformed' = stepsPerformed \cup {step}
         /\ stepsFailed' = IF \A i \in DOMAIN outcomes : outcomes[i]
                           THEN stepsFailed ELSE stepsFailed \cup {step}
  BY DEF AddResults

-----------------------------------------------------------------------------
(* A step function preserves the invariant: one lemma per outcome.         *)

LEMMA PerformedKeepsLog ==
  ASSUME TypeOK, VerdictInv, NEW step \in Steps, Due(step),
         NEW outcomes \in Seq(BOOLEAN), Len(outcomes) \in 1 .. 3, AddResults(step, outcomes)
  PROVE  LogAgrees' /\ InternalFirst' /\ AnchorsAfterInternalSteps'
<1> DEFINE n == Len(steps)
<1>1. /\ n \in Nat /\ DOMAIN steps = 1 .. n /\ DOMAIN steps' = 1 .. n + Len(outcomes)
      /\ \A i \in 1 .. n : steps'[i] = steps[i]
      /\ \A k \in 1 .. Len(outcomes) :
           steps'[n + k] = [step |-> step, succeeded |-> outcomes[k]]
  BY AddResultsLog
<1>2. DOMAIN outcomes = 1 .. Len(outcomes) /\ Len(outcomes) \in Nat \ {0}
  BY LenProperties
<1>3. /\ stepsPerformed' = stepsPerformed \cup {step}
      /\ stepsFailed' = IF \A i \in DOMAIN outcomes : outcomes[i]
                        THEN stepsFailed ELSE stepsFailed \cup {step}
  BY AddResultsSets
<1>4. /\ stepsFailed = {} /\ step \in Alternative /\ step \notin stepsPerformed
      /\ Alternative \subseteq Steps /\ InternalSteps \subseteq Alternative
      /\ \A t \in Alternative : Order[t] < Order[step] => t \in stepsPerformed \/ Skippable(t)
  BY DueAfterOthers DEF VerdictInv
<1>5. \A t \in InternalSteps : Order[t] < Order[step] => t \in stepsPerformed \ stepsFailed'
  BY <1>3, <1>4 DEF Skippable
<1>6. \A i \in n + 1 .. n + Len(outcomes) :
        \E k \in 1 .. Len(outcomes) : i = n + k
  <2> SUFFICES ASSUME NEW i \in n + 1 .. n + Len(outcomes)
               PROVE  \E k \in 1 .. Len(outcomes) : i = n + k
    OBVIOUS
  <2>1. i - n \in 1 .. Len(outcomes) /\ i = n + (i - n)
    BY <1>1, <1>2
  <2> QED
    BY <2>1
<1>7. \A i \in DOMAIN steps' :
        \/ i \in DOMAIN steps /\ steps'[i] = steps[i]
        \/ i > n /\ \E k \in 1 .. Len(outcomes) :
                      steps'[i] = [step |-> step, succeeded |-> outcomes[k]]
  <2> SUFFICES ASSUME NEW i \in 1 .. n + Len(outcomes), ~(i \in 1 .. n)
               PROVE  i > n /\ \E k \in 1 .. Len(outcomes) :
                                 steps'[i] = [step |-> step, succeeded |-> outcomes[k]]
    BY <1>1
  <2>1. i \in n + 1 .. n + Len(outcomes) /\ i > n
    BY <1>1, <1>2
  <2> HIDE DEF n
  <2> QED
    BY <1>1, <1>6, <2>1
<1> HIDE DEF n
<1>8. LogAgrees'
  <2>1. (stepsFailed \subseteq stepsPerformed)'
    BY <1>3, <1>4
  <2>2. ASSUME NEW i \in DOMAIN steps'
        PROVE  /\ steps'[i].step \in stepsPerformed'
               /\ ~steps'[i].succeeded => steps'[i].step \in stepsFailed'
    <3>1. CASE i \in DOMAIN steps /\ steps'[i] = steps[i]
      <4>1. /\ steps[i].step \in stepsPerformed
            /\ ~steps[i].succeeded => steps[i].step \in stepsFailed
        BY <3>1 DEF VerdictInv, LogAgrees
      <4> QED
        BY <1>3, <3>1, <4>1
    <3>2. ASSUME NEW k \in 1 .. Len(outcomes),
                 steps'[i] = [step |-> step, succeeded |-> outcomes[k]]
          PROVE  /\ steps'[i].step \in stepsPerformed'
                 /\ ~steps'[i].succeeded => steps'[i].step \in stepsFailed'
      <4>1. steps'[i].step = step /\ steps'[i].succeeded = outcomes[k]
        BY <3>2
      <4>2. ~outcomes[k] => step \in stepsFailed'
        BY <1>2, <1>3
      <4> QED
        BY <1>3, <4>1, <4>2, Zenon
    <3> QED
      BY <1>7, <3>1, <3>2
  <2>3. ASSUME NEW s \in stepsPerformed' \ stepsFailed'
        PROVE  \E j \in DOMAIN steps' : steps'[j] = [step |-> s, succeeded |-> TRUE]
    <3>1. CASE s \in stepsPerformed
      <4>1. PICK j \in DOMAIN steps : steps[j] = [step |-> s, succeeded |-> TRUE]
        BY <1>4, <3>1 DEF VerdictInv, LogAgrees
      <4>2. j \in DOMAIN steps' /\ steps'[j] = steps[j]
        BY <1>1, <1>2
      <4> QED
        BY <4>1, <4>2
    <3>2. CASE s = step
      <4>1. \A i \in DOMAIN outcomes : outcomes[i]
        BY <1>3, <2>3, <3>2
      <4>2. 1 \in DOMAIN outcomes /\ n + 1 \in DOMAIN steps'
        BY <1>1, <1>2
      <4>3. outcomes[1] = TRUE
        <5>1. outcomes[1] \in BOOLEAN
          BY <4>2
        <5> QED
          BY <4>1, <4>2, <5>1
      <4>4. steps'[n + 1] = [step |-> s, succeeded |-> TRUE]
        BY <1>1, <1>2, <3>2, <4>2, <4>3
      <4> QED
        BY <4>2, <4>4
    <3> QED
      BY <1>3, <3>1, <3>2
  <2> QED
    BY <2>1, <2>2, <2>3 DEF LogAgrees
<1>9. InternalFirst'
  <2>1. \A s \in stepsPerformed, t \in InternalSteps :
          Order[t] < Order[s] => t \in stepsPerformed' \ stepsFailed'
    <3>1. \A t \in stepsPerformed : t \in stepsPerformed' \ stepsFailed'
      BY <1>3, <1>4
    <3> QED
      BY <3>1 DEF VerdictInv, InternalFirst
  <2> QED
    BY <1>3, <1>5, <2>1 DEF InternalFirst
<1>10. AnchorsAfterInternalSteps'
  <2> SUFFICES ASSUME NEW i \in DOMAIN steps', steps'[i].step \in AnchorSteps,
                      NEW s \in InternalSteps
               PROVE  /\ s \notin stepsFailed'
                      /\ \E j \in 1 .. i - 1 : steps'[j] = [step |-> s, succeeded |-> TRUE]
    BY DEF AnchorsAfterInternalSteps
  <2>1. CASE i \in DOMAIN steps /\ steps'[i] = steps[i]
    <3>1. PICK j \in 1 .. i - 1 : steps[j] = [step |-> s, succeeded |-> TRUE]
      BY <2>1 DEF VerdictInv, AnchorsAfterInternalSteps
    <3>2. j \in DOMAIN steps /\ steps'[j] = steps[j]
      BY <1>1, <2>1
    <3>3. s \in stepsPerformed
      BY <3>1, <3>2 DEF VerdictInv, LogAgrees
    <3> QED
      BY <1>3, <1>4, <3>1, <3>2, <3>3
  <2>2. CASE i > n /\ steps'[i].step = step
    <3>1. Order[s] < Order[step]
      BY <2>2, OrderValues DEF InternalSteps, AnchorSteps
    <3>2. s \in stepsPerformed \ stepsFailed'
      BY <1>5, <3>1
    <3>3. PICK j \in DOMAIN steps : steps[j] = [step |-> s, succeeded |-> TRUE]
      BY <1>4, <3>2 DEF VerdictInv, LogAgrees
    <3>4. j \in 1 .. i - 1 /\ steps'[j] = steps[j]
      BY <1>1, <1>2, <2>2
    <3> QED
      BY <3>2, <3>3, <3>4
  <2>3. ASSUME NEW k \in 1 .. Len(outcomes),
               steps'[i] = [step |-> step, succeeded |-> outcomes[k]]
        PROVE  steps'[i].step = step
    BY <2>3
  <2> QED
    BY <1>7, <2>1, <2>2, <2>3
<1> QED
  BY <1>8, <1>9, <1>10

LEMMA PerformedKeepsFindings ==
  ASSUME TypeOK, VerdictInv, NEW step \in Steps, Due(step),
         NEW outcomes \in Seq(BOOLEAN), Performed(step, outcomes)
  PROVE  SinceReset'
<1> SUFFICES ASSUME call \in ResettingCalls PROVE SinceReset'
  BY DEF Performed, Continue, SinceReset
<1>1. /\ stepsPerformed' = stepsPerformed \cup {step}
      /\ stepsFailed' = IF \A i \in DOMAIN outcomes : outcomes[i]
                        THEN stepsFailed ELSE stepsFailed \cup {step}
  BY AddResultsSets DEF Performed
<1>2. /\ stepsFailed = {} /\ step \in Alternative /\ step \notin stepsPerformed
  BY DueAfterOthers DEF VerdictInv
<1>3. sig' = sig /\ Frame(step) /\ Alternative' = Alternative
  BY AlternativeKept DEF Performed, Continue
<1>4. (publicationsFile # None => publicationsFile = ctxFile)'
  BY <1>3 DEF Frame, VerdictInv, SinceReset
<1>5. IF step \in stepsFailed' THEN Refuted(step)' ELSE Holds(step)'
  BY <1>1, <1>2 DEF Performed
<1>6. ASSUME NEW s \in stepsPerformed PROVE s \notin stepsFailed' /\ Holds(s)'
  <2>1. Holds(s) /\ s # step
    BY <1>2 DEF VerdictInv, SinceReset
  <2>2. s = "AGGRCHAIN_WITH_CALENDAR_CHAIN" => step # "AGGRCHAIN_INTERNALLY"
    BY <1>2, OrderValues DEF VerdictInv, InternalFirst, InternalSteps
  <2> QED
    BY <1>1, <1>2, <1>3, <2>1, <2>2, HoldsKept
<1>7. stepsFailed' \subseteq Alternative'
  BY <1>1, <1>2, <1>3
<1> QED
  BY <1>1, <1>4, <1>5, <1>6, <1>7 DEF SinceReset

LEMMA PerformedKeepsPosition ==
  ASSUME TypeOK, VerdictInv, NEW step \in Steps, Due(step),
         NEW outcomes \in Seq(BOOLEAN), Performed(step, outcomes)
  PROVE  CallsAs' /\ Passed' /\ OnlineLast' /\ NotAsked' /\ Tried' /\ Returned'
<1>1. /\ stepsPerformed' = stepsPerformed \cup {step}
      /\ stepsFailed' \in {stepsFailed, stepsFailed \cup {step}}
  BY AddResultsSets DEF Performed
<1>2. /\ pos # 0 /\ stepsFailed = {} /\ step \in Alternative /\ step \notin stepsPerformed
      /\ Alternative \subseteq Steps /\ InternalSteps \subseteq Alternative
      /\ \A t \in Alternative : Order[t] < Order[step] => t \in stepsPerformed \/ Skippable(t)
  BY DueAfterOthers DEF VerdictInv
<1>3. /\ sig' = sig /\ Frame(step) /\ Alternative' = Alternative
      /\ policy' = policy /\ alt' = alt /\ call' = call /\ res' = res
      /\ pos' = Order[step] + 1
  BY AlternativeKept DEF Performed, Continue
<1>4. UNCHANGED <<documentHash, userPublication>>
  BY <1>3 DEF Frame
<1>5. CallsAs' /\ Tried'
  BY <1>2, <1>3, <1>4 DEF VerdictInv, CallsAs, Tried
<1>6. Returned' /\ pos' # 0
  BY <1>3, OrderType DEF Returned
<1>7. Passed'
  <2> SUFFICES ASSUME NEW s \in Alternative, Order[s] < Order[step] + 1,
                      s \notin stepsPerformed'
               PROVE  Skippable(s)'
    BY <1>3 DEF Passed
  <2>1. Order[s] < Order[step]
    <3>1. Order[s] # Order[step]
      BY <1>1, <1>2, OrderInjective
    <3> QED
      BY <1>2, <3>1, OrderType
  <2> QED
    BY <1>1, <1>2, <1>3, <1>4, <2>1, SkippableKept
<1>8. OnlineLast'
  <2> SUFFICES ASSUME "CALCHAIN_ONLINE" \in stepsPerformed'
               PROVE  /\ stepsFailed' \subseteq {"CALCHAIN_ONLINE"}
                      /\ Alternative \subseteq stepsPerformed'
    BY <1>3 DEF OnlineLast
  <2>1. CASE step = "CALCHAIN_ONLINE"
    <3>1. /\ Alternative \subseteq ByExtender \cup {"DOCUMENT"}
          /\ "DOCUMENT" \in Alternative => documentHash # None
      BY <1>2, <2>1, AlternativeWithOnline DEF VerdictInv, CallsAs
    <3>2. ASSUME NEW t \in Alternative, t # step PROVE t \in stepsPerformed
      <4>1. Order[t] < Order[step] /\ ~Skippable(t)
        BY <2>1, <3>1, <3>2, OrderValues DEF Skippable, ByExtender, InternalSteps
      <4> QED
        BY <1>2, <4>1
    <3> QED
      BY <1>1, <1>2, <2>1, <3>2
  <2>2. CASE step # "CALCHAIN_ONLINE"
    BY <1>1, <1>2, <2>2 DEF VerdictInv, OnlineLast
  <2> QED
    BY <2>1, <2>2
<1>9. NotAsked'
  BY <1>1, <1>3 DEF Frame, VerdictInv, NotAsked
<1> QED
  BY <1>5, <1>6, <1>7, <1>8, <1>9

LEMMA AbortKeeps ==
  ASSUME TypeOK, VerdictInv, Abort, ctxFile # None => ctxFile' = ctxFile
  PROVE  VerdictInv'
<1>1. /\ UNCHANGED <<sig, info, confirmed, engine, call>> /\ pos' = 0 /\ res' = "ERROR"
      /\ Alternative' = Alternative /\ policy' = policy /\ alt' = alt
  BY AlternativeKept DEF Abort, Return
<1>2. UNCHANGED <<stepsPerformed, stepsFailed, steps, documentHash, userPublication,
                  publicationsFile>>
  BY <1>1 DEF info
<1>3. CallsAs' /\ Tried'
  BY <1>1, <1>2 DEF VerdictInv, CallsAs, Tried
<1>4. LogAgrees' /\ InternalFirst' /\ AnchorsAfterInternalSteps' /\ NotAsked'
  BY <1>1, <1>2 DEF VerdictInv, LogAgrees, InternalFirst, AnchorsAfterInternalSteps, NotAsked
<1>5. Passed' /\ OnlineLast' /\ Returned'
  BY <1>1, <1>2 DEF VerdictInv, Passed, OnlineLast, Returned
<1>6. SinceReset'
  BY <1>1, <1>2, FindingsKept DEF VerdictInv, SinceReset
<1> QED
  BY <1>3, <1>4, <1>5, <1>6 DEF VerdictInv

LEMMA NothingToCheckKeeps ==
  ASSUME TypeOK, VerdictInv, NEW step \in Steps, Due(step),
         NothingToCheck(step), Skippable(step)
  PROVE  VerdictInv'
<1>1. /\ UNCHANGED <<sig, info, confirmed, engine, call, res, ctxFile>>
      /\ pos' = Order[step] + 1
      /\ Alternative' = Alternative /\ policy' = policy /\ alt' = alt
  BY AlternativeKept DEF NothingToCheck, Continue
<1>2. UNCHANGED <<stepsPerformed, stepsFailed, steps, documentHash, userPublication,
                  publicationsFile>>
  BY <1>1 DEF info
<1>3. /\ pos # 0 /\ step \in Alternative /\ Alternative \subseteq Steps
      /\ \A t \in Alternative : Order[t] < Order[step] => t \in stepsPerformed \/ Skippable(t)
  BY DueAfterOthers DEF VerdictInv
<1>4. CallsAs' /\ Tried'
  BY <1>1, <1>2, <1>3 DEF VerdictInv, CallsAs, Tried
<1>5. LogAgrees' /\ InternalFirst' /\ AnchorsAfterInternalSteps' /\ NotAsked'
  BY <1>1, <1>2 DEF VerdictInv, LogAgrees, InternalFirst, AnchorsAfterInternalSteps, NotAsked
<1>6. OnlineLast' /\ Returned'
  BY <1>1, <1>2, <1>3, OrderType DEF VerdictInv, OnlineLast, Returned
<1>7. SinceReset'
  BY <1>1, <1>2, FindingsKept DEF VerdictInv, SinceReset
<1>8. Passed'
  <2> SUFFICES ASSUME NEW s \in Alternative, Order[s] < Order[step] + 1,
                      s \notin stepsPerformed
               PROVE  Skippable(s)
    BY <1>1, <1>2, SkippableKept DEF Passed
  <2>1. CASE s = step
    BY <2>1
  <2>2. CASE s # step
    <3>1. Order[s] < Order[step]
      BY <1>3, <2>2, OrderInjective, OrderType
    <3> QED
      BY <1>3, <3>1
  <2> QED
    BY <2>1, <2>2
<1> QED
  BY <1>4, <1>5, <1>6, <1>7, <1>8 DEF VerdictInv

LEMMA StepFunctionKeeps ==
  ASSUME TypeOK, VerdictInv, StepFunction
  PROVE  VerdictInv'
<1>1. PICK step \in Steps : Due(step) /\ Outcome(step)
  BY StepOutcome DEF VerdictInv
<1>2. CASE Abort /\ (ctxFile # None => ctxFile' = ctxFile)
  BY <1>2, AbortKeeps
<1>3. CASE NothingToCheck(step) /\ Skippable(step)
  BY <1>1, <1>3, NothingToCheckKeeps
<1>4. ASSUME NEW outcomes \in Seq(BOOLEAN), Len(outcomes) \in 1 .. 3, Performed(step, outcomes)
      PROVE  VerdictInv'
  <2>1. LogAgrees' /\ InternalFirst' /\ AnchorsAfterInternalSteps'
    BY <1>1, <1>4, PerformedKeepsLog DEF Performed
  <2> QED
    BY <1>1, <1>4, <2>1, PerformedKeepsFindings, PerformedKeepsPosition DEF VerdictInv
<1> QED
  BY <1>1, <1>2, <1>3, <1>4 DEF Outcome

-----------------------------------------------------------------------------
(* So does what the engine does after the steps, and every call.           *)

\* Everything but where the engine stands, and what it returns, is left alone.
LEMMA ReturnKeeps ==
  ASSUME TypeOK, VerdictInv, AfterSteps, NEW code, Return(code),
         UNCHANGED <<ctxFile, info, confirmed>>, Returned'
  PROVE  VerdictInv'
<1>1. /\ UNCHANGED <<sig, call>> /\ pos' = 0
      /\ Alternative' = Alternative /\ policy' = policy /\ alt' = alt
  BY AlternativeKept DEF Return
<1>2. UNCHANGED <<stepsPerformed, stepsFailed, steps, documentHash, userPublication,
                  publicationsFile>>
  BY DEF info
<1>3. CallsAs' /\ Tried'
  BY <1>1, <1>2 DEF VerdictInv, CallsAs, Tried
<1>4. LogAgrees' /\ InternalFirst' /\ AnchorsAfterInternalSteps' /\ NotAsked'
  BY <1>1, <1>2 DEF VerdictInv, LogAgrees, InternalFirst, AnchorsAfterInternalSteps, NotAsked
<1>5. Passed' /\ OnlineLast'
  BY <1>1, <1>2 DEF VerdictInv, Passed, OnlineLast
<1>6. SinceReset'
  BY <1>1, <1>2, FindingsKept DEF VerdictInv, SinceReset
<1> QED
  BY <1>3, <1>4, <1>5, <1>6 DEF VerdictInv

LEMMA PolicyFailedKeeps == TypeOK /\ VerdictInv /\ PolicyFailed => VerdictInv'
<1> SUFFICES ASSUME TypeOK, VerdictInv, PolicyFailed PROVE VerdictInv'
  OBVIOUS
<1>1. Alternative' = Alternative /\ stepsFailed' = stepsFailed /\ res' = "VERIFICATION_FAILURE"
  BY AlternativeKept DEF PolicyFailed, Return, info
<1>2. Returned'
  BY <1>1 DEF PolicyFailed, Returned
<1> QED
  BY <1>2, ReturnKeeps DEF PolicyFailed

LEMMA PolicySatisfiedKeeps == TypeOK /\ VerdictInv /\ PolicySatisfied => VerdictInv'
<1> SUFFICES ASSUME TypeOK, VerdictInv, PolicySatisfied PROVE VerdictInv'
  OBVIOUS
<1>1. /\ Alternative' = Alternative /\ res' = "OK"
      /\ stepsFailed' = stepsFailed /\ stepsPerformed' = stepsPerformed
  BY AlternativeKept DEF PolicySatisfied, Return, info
<1>2. Returned'
  BY <1>1 DEF PolicySatisfied, Returned
<1> QED
  BY <1>2, ReturnKeeps DEF PolicySatisfied

LEMMA NoSuitablePolicyKeeps == TypeOK /\ VerdictInv /\ NoSuitablePolicy => VerdictInv'
<1> SUFFICES ASSUME TypeOK, VerdictInv, NoSuitablePolicy PROVE VerdictInv'
  OBVIOUS
<1>1. /\ Alternative' = Alternative /\ policy' = policy /\ alt' = alt
      /\ res' = "VERIFICATION_FAILURE" /\ sig' = sig
      /\ UNCHANGED <<stepsFailed, stepsPerformed, documentHash, userPublication>>
  BY AlternativeKept DEF NoSuitablePolicy, Return, info
<1>2. stepsFailed = {} => \A s \in Alternative : s \in stepsPerformed \/ Skippable(s)
  BY AfterStepsDone DEF NoSuitablePolicy, VerdictInv
<1>3. Returned'
  BY <1>1, <1>2, SkippableKept DEF NoSuitablePolicy, Returned
<1> QED
  BY <1>3, ReturnKeeps DEF NoSuitablePolicy

LEMMA EveryAlternative ==
  ASSUME NEW p \in Policies, NEW n \in 1 .. Len(p)
  PROVE  p[n] \subseteq Steps
<1>1. ByAuthRec \subseteq Steps /\ ByPubString \subseteq Steps /\ ByPubFile \subseteq Steps
      /\ ByExtender \subseteq Steps /\ InternalSteps \subseteq Steps /\ "DOCUMENT" \in Steps
  BY DEF ByAuthRec, ByPubString, ByPubFile, ByExtender, Steps, InternalSteps, AnchorSteps
<1>2. CASE p = VP_INTERNAL \/ p = VP_ONLINE
  BY <1>1, <1>2 DEF VP_INTERNAL, VP_ONLINE
<1>3. CASE p = VP_OFFLINE
  BY <1>1, <1>3 DEF VP_OFFLINE
<1>4. CASE p = VP_SIGNATURE
  BY <1>1, <1>4 DEF VP_SIGNATURE
<1>5. CASE p = VP_DOCUMENT
  BY <1>1, <1>5 DEF VP_DOCUMENT
<1> QED
  BY <1>2, <1>3, <1>4, <1>5 DEF Policies

LEMMA NothingPassedYet ==
  ASSUME TypeOK', pos' = 1
  PROVE  Passed'
<1>1. \A s \in Steps : ~(Order[s] < 1)
  BY OrderType
<1>2. (Alternative \subseteq Steps)'
  BY EveryAlternative DEF TypeOK, Alternative
<1> QED
  BY <1>1, <1>2 DEF Passed

LEMMA NextAlternativeKeeps == TypeOK /\ VerdictInv /\ NextAlternative => VerdictInv'
<1> SUFFICES ASSUME TypeOK, VerdictInv, NextAlternative PROVE VerdictInv'
  OBVIOUS
<1>1. /\ UNCHANGED <<sig, ctxFile, policy, call, res, confirmed>>
      /\ alt' = alt + 1 /\ pos' = 1 /\ pos # 0 /\ info' = info
      /\ stepsFailed \cap Alternative = {} /\ ~(Alternative \subseteq stepsPerformed)
  BY DEF NextAlternative, AfterSteps
<1>2. UNCHANGED <<stepsPerformed, stepsFailed, steps, documentHash, userPublication,
                  publicationsFile>>
  BY <1>1 DEF info
<1>3. CallsAs'
  BY <1>1, <1>2 DEF VerdictInv, CallsAs
<1>4. LogAgrees' /\ InternalFirst' /\ AnchorsAfterInternalSteps' /\ NotAsked'
  BY <1>1, <1>2 DEF VerdictInv, LogAgrees, InternalFirst, AnchorsAfterInternalSteps, NotAsked
<1>5. Passed'
  BY <1>1, PolicyType, NothingPassedYet DEF VerifyPolicy
<1>6. OnlineLast'
  BY <1>1, <1>2 DEF VerdictInv, OnlineLast
<1>7. ASSUME call \in ResettingCalls PROVE stepsFailed = {}
  BY <1>1, <1>7 DEF VerdictInv, SinceReset
<1>8. SinceReset'
  BY <1>1, <1>2, <1>7, FindingsKept DEF VerdictInv, SinceReset
<1>9. Tried'
  <2> SUFFICES ASSUME call \in ResettingCalls
               PROVE  /\ alt + 1 >= 2 => sig.auth = None
                      /\ alt + 1 >= 3 => sig.pub = None \/ userPublication = None
                      /\ alt + 1 >= 4 => sig.pub = None \/ userPublication # None
    BY <1>1, <1>2 DEF Tried
  <2>1. PICK s \in Alternative : s \notin stepsPerformed
    BY <1>1
  <2>2. Skippable(s)
    BY <1>7, <2>1, AfterStepsDone DEF VerdictInv, NextAlternative
  <2>3. /\ alt \in 1 .. 4
        /\ Alternative \in {Way[alt], {"DOCUMENT"} \cup Way[alt]}
        /\ Alternative # Way[alt] => documentHash # None
    BY AlternativeOfCall DEF VerdictInv, CallsAs
  <2>4. s \in Way[alt] /\ s \notin InternalSteps \cup {"CALCHAIN_ONLINE"}
    BY <2>1, <2>2, <2>3 DEF Skippable
  <2>5. /\ alt = 1 => sig.auth = None
        /\ alt = 2 => sig.pub = None \/ userPublication = None
        /\ alt = 3 => sig.pub = None \/ userPublication # None
    BY <2>2, <2>4 DEF Way, ByAuthRec, ByPubString, ByPubFile, Skippable
  <2>6. Tried
    BY DEF VerdictInv
  <2>7. alt # 4
    BY <2>4 DEF Way, ByExtender
  <2> QED
    BY <2>3, <2>5, <2>6, <2>7 DEF Tried
<1>10. Returned'
  BY <1>1 DEF Returned
<1> QED
  BY <1>3, <1>4, <1>5, <1>6, <1>8, <1>9, <1>10 DEF VerdictInv

\* A call that starts from a clean result.
LEMMA ResetCallKeeps ==
  ASSUME TypeOK', NEW level, NEW doc, NEW pub, NEW name, NEW pol,
         Reset(level, doc, pub), Start(name, pol), CallsAs'
  PROVE  VerdictInv'
<1>1. /\ stepsPerformed' = {} /\ stepsFailed' = {} /\ steps' = << >>
      /\ publicationsFile' = None /\ confirmed' = {} /\ pos' = 1 /\ alt' = 1
  BY DEF Reset, Start
<1>2. LogAgrees' /\ InternalFirst' /\ AnchorsAfterInternalSteps'
  BY <1>1 DEF LogAgrees, InternalFirst, AnchorsAfterInternalSteps
<1>3. OnlineLast' /\ NotAsked' /\ SinceReset' /\ Tried' /\ Returned'
  BY <1>1 DEF OnlineLast, NotAsked, SinceReset, Tried, Returned
<1> QED
  BY <1>1, <1>2, <1>3, NothingPassedYet DEF VerdictInv

LEMMA VerifyOnlineKeeps == TypeOK /\ VerdictInv /\ CallVerifyOnline => VerdictInv'
<1> SUFFICES ASSUME TypeOK, VerdictInv, CallVerifyOnline PROVE VerdictInv'
  OBVIOUS
<1>1. /\ policy' = VP_ONLINE /\ alt' = 1 /\ pos' = 1 /\ call' = "verifyOnline"
      /\ confirmed' = {} /\ info' = info
  BY DEF CallVerifyOnline, Start
<1>2. UNCHANGED <<stepsPerformed, stepsFailed, steps>>
  BY <1>1 DEF info
<1>3. CallsAs' /\ SinceReset' /\ Tried' /\ Returned' /\ NotAsked'
  BY <1>1 DEF CallsAs, Calls, ResettingCalls, SinceReset, Tried, Returned, NotAsked
<1>4. LogAgrees' /\ InternalFirst' /\ AnchorsAfterInternalSteps'
  BY <1>2 DEF VerdictInv, LogAgrees, InternalFirst, AnchorsAfterInternalSteps
<1>5. Passed'
  BY <1>1, CallerType, NothingPassedYet DEF Caller
<1>6. OnlineLast'
  <2>1. Alternative' = ByExtender
    BY <1>1 DEF Alternative, VP_ONLINE
  <2>2. ASSUME "CALCHAIN_ONLINE" \in stepsPerformed PROVE ByExtender \subseteq stepsPerformed
    BY <2>2, OrderValues DEF VerdictInv, InternalFirst, InternalSteps, ByExtender
  <2> QED
    BY <1>2, <2>1, <2>2 DEF VerdictInv, OnlineLast
<1> QED
  BY <1>3, <1>4, <1>5, <1>6 DEF VerdictInv

\* The signature or the context may change, but nothing is said of another call.
LEMMA BetweenKeeps ==
  ASSUME TypeOK, VerdictInv, NEW code, Between(code)
  PROVE  VerdictInv'
<1>1. /\ call' = "other" /\ pos = 0 /\ pos' = 0 /\ confirmed' = {}
      /\ UNCHANGED <<stepsPerformed, stepsFailed, steps>>
  BY DEF Between, info
<1>2. CallsAs' /\ Passed' /\ SinceReset' /\ Tried' /\ Returned' /\ NotAsked'
  BY <1>1 DEF CallsAs, Passed, SinceReset, Tried, Returned, NotAsked, Calls, ResettingCalls
<1>3. LogAgrees' /\ InternalFirst' /\ AnchorsAfterInternalSteps' /\ OnlineLast'
  BY <1>1 DEF VerdictInv, LogAgrees, InternalFirst, AnchorsAfterInternalSteps, OnlineLast
<1> QED
  BY <1>2, <1>3 DEF VerdictInv

LEMMA VerdictInvInit == Init => VerdictInv
<1> SUFFICES ASSUME Init PROVE VerdictInv
  OBVIOUS
<1>1. /\ stepsPerformed = {} /\ stepsFailed = {} /\ steps = << >>
      /\ pos = 0 /\ call = "none" /\ confirmed = {}
  BY DEF Init
<1>2. CallsAs /\ Passed /\ SinceReset /\ Tried /\ Returned /\ NotAsked
  BY <1>1 DEF CallsAs, Passed, SinceReset, Tried, Returned, NotAsked, Calls, ResettingCalls
<1>3. LogAgrees /\ InternalFirst /\ AnchorsAfterInternalSteps /\ OnlineLast
  BY <1>1 DEF LogAgrees, InternalFirst, AnchorsAfterInternalSteps, OnlineLast
<1> QED
  BY <1>2, <1>3 DEF VerdictInv

LEMMA VerdictInvStutter ==
  ASSUME VerdictInv, UNCHANGED vars
  PROVE  VerdictInv'
<1>1. /\ UNCHANGED <<sig, ctxFile, pos, call, res, confirmed, info>>
      /\ UNCHANGED <<stepsPerformed, stepsFailed, steps, docAggrLevel, documentHash,
                     userPublication, publicationsFile, aggregationHash>>
      /\ Alternative' = Alternative /\ policy' = policy /\ alt' = alt
  BY AlternativeKept DEF vars, info
<1>2. CallsAs' /\ LogAgrees' /\ InternalFirst' /\ AnchorsAfterInternalSteps'
  BY <1>1 DEF VerdictInv, CallsAs, LogAgrees, InternalFirst, AnchorsAfterInternalSteps
<1>3. OnlineLast' /\ NotAsked' /\ Tried'
  BY <1>1 DEF VerdictInv, OnlineLast, NotAsked, Tried
<1>4. SinceReset'
  BY <1>1, FindingsKept DEF VerdictInv, SinceReset
<1>5. Passed' /\ Returned'
  BY <1>1, SkippableKept DEF VerdictInv, Passed, Returned
<1> QED
  BY <1>2, <1>3, <1>4, <1>5 DEF VerdictInv

LEMMA VerdictInvNext == TypeOK /\ VerdictInv /\ [Next]_vars => VerdictInv'
<1> SUFFICES ASSUME TypeOK, VerdictInv, [Next]_vars PROVE VerdictInv'
  OBVIOUS
<1>1. CASE VerifyPolicy
  BY <1>1, StepFunctionKeeps, PolicyFailedKeeps, PolicySatisfiedKeeps, NextAlternativeKeeps,
     NoSuitablePolicyKeeps DEF VerifyPolicy
<1>2. CASE Caller
  <2>1. TypeOK'
    BY <1>2, CallerType
  <2>2. CASE CallVerify
    <3>1. PICK level \in Levels : Reset(level, None, None)
      BY <2>2 DEF CallVerify
    <3>2. Start("verify", VP_SIGNATURE)
      BY <2>2 DEF CallVerify
    <3>3. CallsAs'
      BY <3>1, <3>2 DEF CallsAs, Calls, ResettingCalls, Start, Reset
    <3> QED
      BY <2>1, <3>1, <3>2, <3>3, ResetCallKeeps
  <2>3. CASE CallVerifyDataHash
    <3>1. PICK level \in Levels, hash \in Hashes : Reset(level, hash, None)
      BY <2>3 DEF CallVerifyDataHash
    <3>2. Start("verifyDataHash", VP_DOCUMENT)
      BY <2>3 DEF CallVerifyDataHash
    <3>3. CallsAs'
      BY <3>1, <3>2, NoneAssumption DEF CallsAs, Calls, ResettingCalls, Start, Reset
    <3> QED
      BY <2>1, <3>1, <3>2, <3>3, ResetCallKeeps
  <2>4. CASE CallVerifyWithPublication
    <3>1. PICK pub \in Publication : Reset(0, None, pub)
      BY <2>4 DEF CallVerifyWithPublication
    <3>2. Start("verifyWithPublication", VP_OFFLINE)
      BY <2>4 DEF CallVerifyWithPublication
    <3>3. CallsAs'
      BY <3>1, <3>2, NoneAssumption DEF CallsAs, Calls, ResettingCalls, Start, Reset
    <3> QED
      BY <2>1, <3>1, <3>2, <3>3, ResetCallKeeps
  <2>5. ReplaceCalendarChain \/ ReplacePublicationRecord \/ SetPublicationsFile
          => Between("OK") \/ Between("ERROR")
    BY DEF ReplaceCalendarChain, ReplacePublicationRecord, SetPublicationsFile
  <2> QED
    BY <1>2, <2>2, <2>3, <2>4, <2>5, VerifyOnlineKeeps, BetweenKeeps DEF Caller
<1>3. CASE UNCHANGED vars
  BY <1>3, VerdictInvStutter
<1> QED
  BY <1>1, <1>2, <1>3 DEF Next

LEMMA VerdictInvariant == Spec => [](TypeOK /\ VerdictInv)
  BY TypeCorrect, VerdictInvInit, VerdictInvNext, PTL DEF Spec

-----------------------------------------------------------------------------
(* The theorems.                                                           *)

\* Whatever calls are made, an authentication record, a publication or the extender is
\* consulted only after the three internal steps have succeeded.
THEOREM AnchorsComeLast == Spec => []AnchorsAfterInternalSteps
<1>1. VerdictInv => AnchorsAfterInternalSteps
  BY DEF VerdictInv
<1> QED
  BY <1>1, VerdictInvariant, PTL

\* The publications file borrowed from the context is never looked into after the context
\* has freed it.
THEOREM BorrowedFileNotFreed == Spec => []BorrowedFileAlive
<1>1. TypeOK /\ VerdictInv => BorrowedFileAlive
  <2> SUFFICES ASSUME TypeOK, VerdictInv, Due("CALAUTHREC_WITH_SIGNATURE"),
                      publicationsFile # None
               PROVE  publicationsFile = ctxFile
    BY DEF BorrowedFileAlive
  <2>1. call \in Calls /\ "CALAUTHREC_WITH_SIGNATURE" \in Alternative
    BY DEF Due, PerformVerification, VerdictInv, CallsAs
  <2>2. call # "verifyOnline"
    BY <2>1, AlternativeOnline DEF VerdictInv, ByExtender, InternalSteps
  <2> QED
    BY <2>1, <2>2 DEF Calls, VerdictInv, SinceReset
<1> QED
  BY <1>1, VerdictInvariant, PTL

LEMMA ConsistentWhenPerformed ==
  ASSUME VerdictInv, call \in ResettingCalls, InternalSteps \subseteq stepsPerformed \ stepsFailed
  PROVE  Consistent
<1>1. \A s \in InternalSteps : Holds(s)
  BY DEF VerdictInv, SinceReset
<1> QED
  BY <1>1 DEF Holds, InternalSteps, Consistent

\* KSI_OK means what it says: a signature that is consistent, about the document asked
\* for, confirmed by an anchor as it is now, and a result without a failed step.
THEOREM VerdictIsSound == Spec => []VerdictSound
<1>1. ASSUME TypeOK, VerdictInv, pos = 0, res = "OK", call \in Calls
      PROVE  stepsFailed = {} /\ \A i \in DOMAIN steps : steps[i].succeeded
  <2>1. Alternative \subseteq stepsPerformed /\ stepsFailed \cap Alternative = {}
    BY <1>1 DEF VerdictInv, Returned
  <2>2. stepsFailed = {}
    <3>1. CASE call \in ResettingCalls
      BY <1>1, <2>1, <3>1 DEF VerdictInv, SinceReset
    <3>2. CASE call = "verifyOnline"
      <4>1. "CALCHAIN_ONLINE" \in Alternative
        BY <1>1, <3>2, AlternativeOnline DEF VerdictInv, ByExtender
      <4> QED
        BY <2>1, <4>1, <1>1 DEF VerdictInv, OnlineLast
    <3> QED
      BY <1>1, <3>1, <3>2 DEF Calls
  <2> QED
    BY <1>1, <2>2 DEF VerdictInv, LogAgrees
<1>2. ASSUME TypeOK, VerdictInv, pos = 0, res = "OK", call \in ResettingCalls
      PROVE  /\ Consistent
             /\ call = "verifyDataHash" => sig.doc = documentHash
             /\ AnchoredByAuthRec \/ AnchoredByPublication \/ AnchoredByExtender
  <2>1. Alternative \subseteq stepsPerformed /\ stepsFailed = {}
    BY <1>1, <1>2 DEF Calls, VerdictInv, Returned
  <2>2. \A s \in Alternative : Holds(s)
    BY <1>2, <2>1 DEF VerdictInv, SinceReset
  <2>3. /\ alt \in 1 .. 4 /\ Way[alt] \subseteq Alternative
        /\ call = "verifyDataHash" => "DOCUMENT" \in Alternative
    BY <1>2, AlternativeOfCall DEF VerdictInv
  <2>4. Consistent
    BY <1>2, <2>1, <2>3, AnchorsOfWay, ConsistentWhenPerformed
  <2>5. call = "verifyDataHash" => sig.doc = documentHash
    BY <2>2, <2>3 DEF Holds
  <2>6. CASE alt = 1
    <3>1. Holds("CALCHAIN_WITH_CALAUTHREC") /\ Holds("CALAUTHREC_WITH_SIGNATURE")
      BY <2>2, <2>3, <2>6, AnchorsOfWay
    <3>2. publicationsFile # None => publicationsFile = ctxFile
      BY <1>2 DEF VerdictInv, SinceReset
    <3> QED
      BY <2>4, <2>5, <3>1, <3>2 DEF Holds, AnchoredByAuthRec
  <2>7. CASE alt = 2
    <3>1. Holds("CALCHAIN_WITH_PUBLICATION") /\ Holds("PUBLICATION_WITH_PUBSTRING")
      BY <2>2, <2>3, <2>7, AnchorsOfWay
    <3> QED
      BY <2>4, <2>5, <3>1 DEF Holds, AnchoredByPublication
  <2>8. CASE alt = 3
    <3>1. Holds("CALCHAIN_WITH_PUBLICATION") /\ Holds("PUBLICATION_WITH_PUBFILE")
      BY <2>2, <2>3, <2>8, AnchorsOfWay
    <3> QED
      BY <2>4, <2>5, <3>1 DEF Holds, AnchoredByPublication
  <2>9. CASE alt = 4
    BY <2>2, <2>3, <2>4, <2>5, <2>9, AnchorsOfWay DEF Holds
  <2> QED
    BY <2>3, <2>6, <2>7, <2>8, <2>9
<1>3. TypeOK /\ VerdictInv => VerdictSound
  BY <1>1, <1>2 DEF VerdictSound, ConfirmedByAnchor, OkMeansNothingFailed, Calls
<1> QED
  BY <1>3, VerdictInvariant, PTL

LEMMA RefutedIsInconsistent ==
  ASSUME TypeOK, VerdictInv, call \in ResettingCalls,
         NEW s \in InternalSteps, s \in stepsFailed
  PROVE  ~Consistent
<1>1. Refuted(s) /\ s \in stepsPerformed
  BY DEF VerdictInv, SinceReset, LogAgrees
<1>2. CASE s = "AGGRCHAIN_INTERNALLY"
  <2>1. sig.cal.input \in Hashes
    BY DEF TypeOK, Signature, CalendarChain
  <2> QED
    BY <1>1, <1>2, <2>1, OutcomesAssumption DEF Refuted, Consistent
<1>3. CASE s = "CALCHAIN_INTERNALLY"
  BY <1>1, <1>3 DEF Refuted, Consistent
<1>4. CASE s = "AGGRCHAIN_WITH_CALENDAR_CHAIN"
  <2>1. "AGGRCHAIN_INTERNALLY" \in stepsPerformed \ stepsFailed
    BY <1>1, <1>4, OrderValues DEF VerdictInv, InternalFirst, InternalSteps
  <2>2. Holds("AGGRCHAIN_INTERNALLY")
    BY <2>1 DEF VerdictInv, SinceReset
  <2> QED
    BY <1>1, <1>4, <2>2 DEF Refuted, Holds, Consistent
<1> QED
  BY <1>2, <1>3, <1>4 DEF InternalSteps

\* KSI_VERIFICATION_FAILURE is never returned for a signature that is consistent, of the
\* document asked for and contradicted by no anchor it was shown.
THEOREM FailureIsJustified == Spec => []FailureJustified
<1>1. ASSUME TypeOK, VerdictInv, pos = 0, res = "VERIFICATION_FAILURE", call \in ResettingCalls,
             Consistent,
             ~(call = "verifyDataHash" /\ sig.doc # documentHash),
             ~(sig.auth # None /\ ~AnchoredByAuthRec),
             ~(sig.auth = None /\ sig.pub # None /\ ~AnchoredByPublication)
      PROVE  /\ sig.auth = None /\ sig.pub = None
             /\ \/ call = "verifyWithPublication"
                \/ confirmed # {} /\ ~AnchoredByExtender
  <2>1. /\ Len(policy) = IF call = "verifyWithPublication" THEN 3 ELSE 4
        /\ alt \in 1 .. 4
        /\ Alternative = IF call = "verifyDataHash" THEN {"DOCUMENT"} \cup Way[alt] ELSE Way[alt]
    BY <1>1, AlternativeOfCall DEF VerdictInv
  <2>2. /\ call = "verifyDataHash" <=> documentHash # None
        /\ call = "verifyWithPublication" <=> userPublication # None
    BY <1>1 DEF VerdictInv, CallsAs, ResettingCalls
  <2>3. /\ alt >= 2 => sig.auth = None
        /\ alt >= 3 => sig.pub = None \/ userPublication = None
        /\ alt >= 4 => sig.pub = None \/ userPublication # None
    BY <1>1 DEF VerdictInv, Tried
  <2>4. publicationsFile # None => publicationsFile = ctxFile
    BY <1>1 DEF VerdictInv, SinceReset
  <2>5. ASSUME NEW s \in stepsFailed, s \in Alternative
        PROVE  s = "CALCHAIN_ONLINE"
    <3>1. Refuted(s)
      BY <1>1, <2>5 DEF VerdictInv, SinceReset, LogAgrees
    <3>2. s \notin InternalSteps
      BY <1>1, <2>5, RefutedIsInconsistent
    <3>3. s # "DOCUMENT"
      BY <1>1, <2>2, <3>1 DEF Refuted
    <3>4. s # "CALCHAIN_WITH_CALAUTHREC" /\ s # "CALAUTHREC_WITH_SIGNATURE"
      BY <1>1, <2>4, <3>1 DEF Refuted, AnchoredByAuthRec
    <3>5. s # "CALCHAIN_WITH_PUBLICATION" /\ s # "PUBLICATION_WITH_PUBSTRING"
          /\ s # "PUBLICATION_WITH_PUBFILE"
      <4>1. s \in {"CALCHAIN_WITH_PUBLICATION", "PUBLICATION_WITH_PUBSTRING",
                   "PUBLICATION_WITH_PUBFILE"} => sig.auth = None
        BY <2>1, <2>3, <2>5, AnchorsOfWay
      <4> QED
        BY <1>1, <3>1, <4>1 DEF Refuted, AnchoredByPublication
    <3>6. s \in Steps
      BY <1>1 DEF TypeOK
    <3> QED
      BY <3>2, <3>3, <3>4, <3>5, <3>6 DEF Steps, AnchorSteps
  <2>6. CASE stepsFailed \cap Alternative # {}
    <3>1. "CALCHAIN_ONLINE" \in stepsFailed /\ "CALCHAIN_ONLINE" \in Alternative
      BY <2>5, <2>6
    <3>2. alt = 4
      BY <2>1, <3>1, AnchorsOfWay
    <3>3. TypeOK /\ alt <= Len(policy)
      BY <1>1 DEF TypeOK
    <3>4. userPublication = None
      BY <2>1, <2>2, <3>2, <3>3
    <3>5. Refuted("CALCHAIN_ONLINE")
      BY <1>1, <3>1 DEF VerdictInv, SinceReset, LogAgrees
    <3> QED
      BY <2>3, <3>2, <3>4, <3>5 DEF Refuted
  <2>7. CASE stepsFailed \cap Alternative = {}
    <3>1. /\ alt = Len(policy) /\ ~(Alternative \subseteq stepsPerformed)
          /\ stepsFailed = {} => \A s \in Alternative : s \in stepsPerformed \/ Skippable(s)
      BY <1>1, <2>7 DEF VerdictInv, Returned, Calls
    <3>2. stepsFailed = {}
      BY <1>1, <2>7 DEF VerdictInv, SinceReset
    <3>3. PICK s \in Alternative : s \notin stepsPerformed
      BY <3>1
    <3>4. Skippable(s)
      BY <3>1, <3>2, <3>3
    <3>5. s \in Way[alt] /\ s \notin InternalSteps \cup {"CALCHAIN_ONLINE"}
      BY <2>1, <2>2, <3>3, <3>4 DEF Skippable
    <3>6. alt # 4
      BY <3>5 DEF Way, ByExtender
    <3>7. alt = 3 /\ call = "verifyWithPublication"
      BY <2>1, <3>1, <3>6
    <3> QED
      BY <2>2, <2>3, <3>7
  <2> QED
    BY <2>6, <2>7
<1>2. TypeOK /\ VerdictInv => FailureJustified
  BY <1>1 DEF FailureJustified
<1> QED
  BY <1>2, VerdictInvariant, PTL
=============================================================================
