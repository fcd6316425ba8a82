------------------------ MODULE ValidateContractProofs ------------------------
(***************************************************************************)
(* Proofs about one governed validation, for any budget, any stage caps,   *)
(* any resolution of the clock and every configuration.  A verdict is      *)
(* traced back to what the stages had done by their deadlines.             *)
(***************************************************************************)
EXTENDS ValidateContract, TLAPS

\* The stage has ended with a finding, before its own and the aggregate deadline.
Timely(s) == work[s] \in Findings /\ endedAt[s] < stageEnd[s] /\ endedAt[s] < deadline

\* The semantic stage comes after a native finding in time; nothing ends in the future.
StagesInOrder ==
  /\ stage = "semantic" => cfg.semantic /\ Timely("native")
  /\ stage = "native" => work["semantic"] = "none"
  /\ \A s \in Stages : Ended(s) => endedAt[s] <= now

\* What the call knows of the stage it is in.
CallStates ==
  /\ pc \in {"payload", "schema"} => stage = "native"
  /\ pc \in {"payload", "schema", "open", "submit"} => work[stage] = "none"
  /\ pc = "check" => work[stage] \in Findings
  /\ pc = "next" => Timely(stage)

\* When there is a verdict, and what the way to the caller tells of it.
VerdictStates ==
  /\ pc \in {"payload", "schema", "open", "submit", "wait", "check", "next"} =>
       ruling = NoVerdict
  /\ pc \in {"finalize", "fail", "finish", "returned"} => ruling # NoVerdict
  /\ pc \in {"finish", "returned"} => ruling.status = "pass" \/ cfg.failMode = "lenient"
  /\ ruling # NoVerdict /\ ruling.status = "pass" => Judged
  /\ output => pc = "returned" /\ (ruling.status = "pass" \/ cfg.mode = "return")

\* A verdict is published by the step that leaves "finalize", and only there.
EventStates ==
  event = IF ruling = NoVerdict \/ pc = "finalize" THEN <<>> ELSE <<ruling>>

ValidationInv ==
  /\ TypeOK /\ StagesInOrder /\ CallStates /\ VerdictStates /\ EventStates
  /\ EnforcedInTime /\ PassNeedsEveryStage /\ ReasonNamesStage

\* The constants, for arithmetic.
LEMMA Numbers == /\ Ms \in Nat /\ Ms > 0 /\ Aggregate \in Nat /\ Aggregate > 0
                 /\ Caps \subseteq Nat \cup {NoCap} /\ NoCap \notin Nat
BY BudgetAssumption DEF BudgetAssumption

\* exhausted() and open_stage() compute a wait that is a whole, non-negative number.
LEMMA WholeMsIsNat == ASSUME NEW ticks \in Int PROVE WholeMs(ticks) \in Nat
<1>1. ticks > 0 => ticks \div Ms \in Nat
  BY Numbers
<1> QED BY <1>1 DEF WholeMs

\* The cap of a stage is clipped to the aggregate deadline.
LEMMA StageEndIsNat == TypeOK => StageEnd \in Nat /\ StageEnd <= deadline
<1> SUFFICES ASSUME TypeOK PROVE StageEnd \in Nat /\ StageEnd <= deadline
  OBVIOUS
<1>1. cfg.cap[stage] \in Caps
  BY DEF TypeOK, Configurations
<1>2. cfg.cap[stage] # NoCap => now + cfg.cap[stage] * Ms \in Nat
  <2>1. \A n \in Nat : n * Ms \in Nat
    BY Numbers
  <2>2. cfg.cap[stage] # NoCap => cfg.cap[stage] * Ms \in Nat
    BY <1>1, <2>1, Numbers
  <2> QED BY <2>2 DEF TypeOK
<1>3. deadline \in Nat
  BY DEF TypeOK
<1>4. CASE cfg.cap[stage] = NoCap
  BY <1>3, <1>4 DEF StageEnd
<1>5. CASE cfg.cap[stage] # NoCap
  BY <1>2, <1>3, <1>5 DEF StageEnd
<1> QED BY <1>4, <1>5

\* Results are ValidationResults.
LEMMA ResultTypes ==
  /\ \A r \in Reasons : Degraded(r) \in Verdicts
  /\ \A status \in {"pass", "fail"} : Enforced(status) \in Verdicts
  /\ TimeoutReason \in Reasons
  /\ NoVerdict \notin Verdicts
<1>1. \A r \in Reasons : Degraded(r) \in Verdicts
  BY DEF Degraded, Verdicts
<1>2. \A status \in {"pass", "fail"} : Enforced(status) \in Verdicts
  BY DEF Enforced, Verdicts, Reasons
<1>3. \A v \in Verdicts : v.status # "none"
  BY DEF Verdicts
<1>4. NoVerdict.status = "none"
  BY DEF NoVerdict
<1> QED BY <1>1, <1>2, <1>3, <1>4 DEF TimeoutReason, Reasons

\* A call begins unjudged, with an untouched pool.
LEMMA ValidationInitially == Init => ValidationInv
<1> SUFFICES ASSUME Init PROVE ValidationInv
  OBVIOUS
<1>1. TypeOK
  <2>1. output \in BOOLEAN
    BY Zenon DEF Init
  <2>2. event \in Seq(Verdicts)
    BY DEF Init
  <2> QED BY <2>1, <2>2 DEF Init, TypeOK, PCs, Stages, WorkStates
<1>2. ruling = NoVerdict /\ \A s \in Stages : work[s] = "none"
  BY DEF Init, Stages
<1>3. StagesInOrder /\ CallStates
  BY <1>2 DEF Init, StagesInOrder, CallStates, Ended, Findings, Errors, Stages
<1>4. VerdictStates /\ EventStates
  BY <1>2 DEF Init, VerdictStates, EventStates
<1>5. EnforcedInTime /\ PassNeedsEveryStage /\ ReasonNamesStage
  BY <1>2 DEF EnforcedInTime, PassNeedsEveryStage, ReasonNamesStage, Judged
<1> QED BY <1>1, <1>3, <1>4, <1>5 DEF ValidationInv

-----------------------------------------------------------------------------
(* One step.                                                               *)

\* A verdict and a published event are of their types.
LEMMA ConcludeTypes ==
  ASSUME TypeOK, NEW result \in Verdicts, Conclude(result)
  PROVE  pc' \in PCs /\ ruling' \in Verdicts \cup {NoVerdict}
BY DEF Conclude, PCs

\* Every step keeps the types.
LEMMA TypesKept == ValidationInv /\ [Next]_vars => TypeOK'
<1> SUFFICES ASSUME ValidationInv, [Next]_vars PROVE TypeOK'
  OBVIOUS
<1>0. TypeOK
  BY DEF ValidationInv
<1> USE <1>0 DEF clockVars
<1> DEFINE Judgement == pc \in PCs /\ ruling \in Verdicts \cup {NoVerdict}
<1>a. \A r \in Reasons : Conclude(Degraded(r)) => Judgement'
  BY ConcludeTypes, ResultTypes
<1>b. \A status \in {"pass", "fail"} : Conclude(Enforced(status)) => Judgement'
  BY ConcludeTypes, ResultTypes
<1>c. Conclude(Degraded(TimeoutReason)) => Judgement'
  BY <1>a, ResultTypes
<1>d. pc' \in PCs /\ UNCHANGED ruling => Judgement'
  BY DEF TypeOK
<1> HIDE DEF Judgement
<1>1. CASE CheckPayload
  <2>1. Judgement'
    BY <1>1, <1>a, <1>b, <1>d DEF CheckPayload, Reasons, PCs
  <2> QED BY <1>1, <2>1 DEF CheckPayload, TypeOK, Judgement
<1>2. CASE ResolveSchema
  <2>1. Judgement'
    BY <1>2, <1>a, <1>b, <1>d DEF ResolveSchema, Reasons, PCs
  <2>2. Aggregate * Ms \in Nat
    BY Numbers
  <2>3. deadline' \in Nat
    BY <1>2, <2>2 DEF ResolveSchema, TypeOK
  <2> QED BY <1>2, <2>1, <2>3 DEF ResolveSchema, TypeOK, Judgement
<1>3. CASE OpenStage
  <2>1. Judgement'
    BY <1>3, <1>c, <1>d DEF OpenStage, PCs
  <2>2. StageEnd \in Nat /\ StageEnd - now \in Int
    BY StageEndIsNat DEF TypeOK
  <2>3. WholeMs(StageEnd - now) \in Nat
    BY <2>2, WholeMsIsNat
  <2>4. \A n \in Nat : n * Ms \in Nat
    BY Numbers
  <2>5. wait' \in Nat /\ stageEnd' \in [Stages -> Nat]
    BY <1>3, <2>2, <2>3, <2>4 DEF OpenStage, TypeOK
  <2> QED BY <1>3, <2>1, <2>5 DEF OpenStage, TypeOK, Judgement
<1>4. CASE Shed
  <2>1. Judgement'
    BY <1>4, <1>a DEF Shed, Reasons
  <2> QED BY <1>4, <2>1 DEF Shed, TypeOK, Judgement
<1>5. CASE RunnerClosed \/ CollectValue \/ HandleFailure
  BY <1>5 DEF RunnerClosed, CollectValue, HandleFailure, TypeOK, PCs
<1>6. CASE Submit
  BY <1>6 DEF Submit, TypeOK, PCs, WorkStates
<1>7. CASE GiveUp
  <2>1. Judgement'
    BY <1>7, <1>c DEF GiveUp
  <2> QED BY <1>7, <2>1 DEF GiveUp, TypeOK, Judgement
<1>8. CASE CollectError
  <2>1. CASE work[stage] = "congine"
    BY <1>8, <2>1 DEF CollectError, TypeOK, PCs
  <2>2. CASE work[stage] # "congine"
    <3>1. work[stage] \in {"memory", "unexpected", "timeout"}
      BY <1>8, <2>2 DEF CollectError, Errors
    <3>2. Judgement'
      BY <1>8, <2>2, <3>1, <1>a, <1>c DEF CollectError, Reasons
    <3> QED BY <1>8, <3>2 DEF CollectError, TypeOK, Judgement
  <2> QED BY <2>1, <2>2
<1>9. CASE PostCheck
  <2>1. Judgement'
    BY <1>9, <1>c, <1>d DEF PostCheck, PCs
  <2> QED BY <1>9, <2>1 DEF PostCheck, TypeOK, Judgement
<1>10. CASE AfterNative
  <2>1. Judgement'
    BY <1>10, <1>a, <1>b, <1>d DEF AfterNative, Reasons, PCs
  <2>2. stage' \in Stages
    BY <1>10 DEF AfterNative, Stages, TypeOK
  <2> QED BY <1>10, <2>1, <2>2 DEF AfterNative, TypeOK, Judgement
<1>11. CASE AfterSemantic
  <2>1. Judgement'
    BY <1>11, <1>b DEF AfterSemantic
  <2> QED BY <1>11, <2>1 DEF AfterSemantic, TypeOK, Judgement
<1>12. CASE Finalize
  <2>1. ruling \in Verdicts
    BY <1>12 DEF Finalize, ValidationInv, VerdictStates, TypeOK
  <2> QED BY <1>12, <2>1 DEF Finalize, TypeOK, PCs
<1>13. CASE GuardFinish
  <2>1. output' \in BOOLEAN
    BY <1>13, Zenon DEF GuardFinish, TypeOK
  <2> QED BY <1>13, <2>1 DEF GuardFinish, TypeOK, PCs
<1>14. ASSUME NEW s \in Stages, EndWork(s) PROVE TypeOK'
  BY <1>14 DEF EndWork, TypeOK, WorkStates
<1>15. CASE Tick \/ UNCHANGED vars
  BY <1>15 DEF Tick, vars, TypeOK
<1> QED BY <1>1, <1>2, <1>3, <1>4, <1>5, <1>6, <1>7, <1>8, <1>9, <1>10, <1>11, <1>12, <1>13,
           <1>14, <1>15 DEF Next, Call

\* Most steps of the call touch neither the clock nor the stages.
Quiet == UNCHANGED <<now, cfg, stage, deadline, stageEnd, work, endedAt>>

\* The steps that are quiet.
LEMMA QuietSteps ==
  ASSUME \/ CheckPayload \/ Shed \/ RunnerClosed \/ GiveUp \/ CollectError \/ CollectValue
         \/ PostCheck \/ AfterSemantic \/ Finalize \/ HandleFailure \/ GuardFinish
         \/ UNCHANGED vars
  PROVE  Quiet
BY DEF CheckPayload, Shed, RunnerClosed, GiveUp, CollectError, CollectValue, PostCheck,
       AfterSemantic, Finalize, HandleFailure, GuardFinish, clockVars, vars, Quiet

\* The stages run in order, and a native finding that was in time stays in time:
\* execute() enters the semantic stage after the native post-stage check only.
LEMMA OrderKept == ValidationInv /\ [Next]_vars => StagesInOrder'
<1> SUFFICES ASSUME ValidationInv, [Next]_vars PROVE StagesInOrder'
  OBVIOUS
<1> USE DEF ValidationInv, StagesInOrder, CallStates, Timely, Ended, clockVars
<1>0. now \in Nat /\ stage \in Stages /\ endedAt \in [Stages -> Nat] /\ deadline \in Nat
      /\ work \in [Stages -> WorkStates] /\ stageEnd \in [Stages -> Nat]
  BY DEF TypeOK
<1>1. CASE Quiet
  BY <1>1 DEF Quiet
<1>2. CASE ResolveSchema
  BY <1>2 DEF ResolveSchema
<1>3. CASE OpenStage
  BY <1>0, <1>3 DEF OpenStage, Stages
<1>4. CASE Submit
  BY <1>0, <1>4 DEF Submit, Stages, Findings, Errors
<1>5. CASE AfterNative
  BY <1>0, <1>5 DEF AfterNative, Conclude, Stages
<1>6. ASSUME NEW s \in Stages, EndWork(s) PROVE StagesInOrder'
  BY <1>0, <1>6 DEF EndWork, Stages, Findings, Errors
<1>7. CASE Tick
  BY <1>0, <1>7 DEF Tick
<1> QED BY <1>1, <1>2, <1>3, <1>4, <1>5, <1>6, <1>7, QuietSteps DEF Next, Call

\* What the call knows of its stage is kept up; PostCheck is what makes it timely.
LEMMA CallKept == ValidationInv /\ [Next]_vars => CallStates'
<1> SUFFICES ASSUME ValidationInv, [Next]_vars PROVE CallStates'
  OBVIOUS
<1> USE DEF ValidationInv, CallStates, Timely, clockVars, Conclude
<1>0. now \in Nat /\ stage \in Stages /\ endedAt \in [Stages -> Nat] /\ deadline \in Nat
      /\ work \in [Stages -> WorkStates] /\ stageEnd \in [Stages -> Nat]
  BY DEF TypeOK
<1>1. CASE CheckPayload \/ ResolveSchema
  BY <1>1 DEF CheckPayload, ResolveSchema
<1>2. CASE OpenStage \/ Submit
  BY <1>2 DEF OpenStage, Submit
<1>3. CASE Shed \/ RunnerClosed \/ GiveUp \/ CollectError \/ AfterSemantic
  BY <1>3 DEF Shed, RunnerClosed, GiveUp, CollectError, AfterSemantic
<1>4. CASE Finalize \/ HandleFailure \/ GuardFinish
  BY <1>4 DEF Finalize, HandleFailure, GuardFinish
<1>5. CASE CollectValue
  BY <1>5 DEF CollectValue
<1>6. CASE PostCheck
  BY <1>0, <1>6 DEF PostCheck, StageExpired, AggregateExpired, StagesInOrder, Ended
<1>7. CASE AfterNative
  BY <1>7 DEF AfterNative, StagesInOrder
<1>8. ASSUME NEW s \in Stages, EndWork(s) PROVE CallStates'
  <2>1. pc \in {"check", "next"} => s # stage
    BY <1>8 DEF EndWork, Findings
  <2>2. pc \in {"payload", "schema", "open", "submit"} => s # stage
    BY <1>8 DEF EndWork
  <2> QED BY <1>0, <1>8, <2>1, <2>2 DEF EndWork
<1>9. CASE Tick \/ UNCHANGED vars
  BY <1>9 DEF Tick, vars
<1> QED BY <1>1, <1>2, <1>3, <1>4, <1>5, <1>6, <1>7, <1>8, <1>9 DEF Next, Call

-----------------------------------------------------------------------------
(* Verdicts.                                                               *)

\* What is true of a verdict once it is there.
VerdictFacts ==
  /\ EnforcedInTime /\ PassNeedsEveryStage /\ ReasonNamesStage
  /\ ruling # NoVerdict /\ ruling.status = "pass" => Judged

\* A conclusion that is degraded enforces nothing; only its reason has to fit.
LEMMA DegradedVerdict ==
  ASSUME NEW r \in Reasons \ {"none"}, Conclude(Degraded(r)),
         r = "load_shed" => work'[stage'] = "none",
         r = "semantic_timeout" => cfg'.semantic /\ Timely("native")',
         r = "timeout" => work'["semantic"] = "none"
  PROVE  VerdictFacts' /\ ruling' # NoVerdict /\ ruling'.status = "fail"
<1>1. ruling'.status = "fail" /\ ruling'.degraded /\ ruling'.reason = r
  BY DEF Conclude, Degraded
<1>2. ruling' # NoVerdict
  BY <1>1 DEF NoVerdict
<1>3. ~Judged'
  BY <1>1 DEF Judged
<1>4. EnforcedInTime' /\ PassNeedsEveryStage'
  BY <1>3 DEF EnforcedInTime, PassNeedsEveryStage
<1>5. ReasonNamesStage'
  BY <1>1 DEF ReasonNamesStage, Timely
<1> QED BY <1>1, <1>2, <1>4, <1>5 DEF VerdictFacts

\* A stage that overran is named: the native one before the semantic one is begun,
\* the semantic one after a native finding in time.
LEMMA OverrunVerdict ==
  ASSUME StagesInOrder', stage' = stage, stage \in Stages, Conclude(Degraded(TimeoutReason))
  PROVE  VerdictFacts' /\ ruling' # NoVerdict /\ ruling'.status = "fail"
<1>1. CASE stage = "native"
  <2>1. TimeoutReason = "timeout"
    BY <1>1 DEF TimeoutReason
  <2>2. work'["semantic"] = "none"
    BY <1>1 DEF StagesInOrder
  <2> QED BY <2>1, <2>2, DegradedVerdict DEF Reasons
<1>2. CASE stage = "semantic"
  <2>1. TimeoutReason = "semantic_timeout"
    BY <1>2 DEF TimeoutReason
  <2>2. cfg'.semantic /\ Timely("native")'
    BY <1>2 DEF StagesInOrder
  <2> QED BY <2>1, <2>2, DegradedVerdict DEF Reasons
<1> QED BY <1>1, <1>2 DEF Stages

\* Neither a resource error, an internal error nor a refused payload names a stage.
LEMMA OtherVerdict ==
  ASSUME NEW r \in {"resource_error", "internal_error", "invalid_payload", "invalid_contract"},
         Conclude(Degraded(r))
  PROVE  VerdictFacts' /\ ruling' # NoVerdict /\ ruling'.status = "fail"
BY DegradedVerdict DEF Reasons

\* An oversize payload or schema fails before any stage.
LEMMA OversizeVerdict ==
  ASSUME Conclude(Enforced("fail")), work'["native"] = "none"
  PROVE  VerdictFacts' /\ ruling' # NoVerdict /\ ruling'.status = "fail"
<1>1. ruling'.status = "fail" /\ ~ruling'.degraded /\ ruling'.reason = "none"
  BY DEF Conclude, Enforced
<1>2. ruling' # NoVerdict
  BY <1>1 DEF NoVerdict
<1>3. ~Judged'
  BY DEF Judged
<1>4. EnforcedInTime' /\ PassNeedsEveryStage'
  BY <1>3 DEF EnforcedInTime, PassNeedsEveryStage
<1>5. ReasonNamesStage'
  BY <1>1 DEF ReasonNamesStage
<1> QED BY <1>1, <1>2, <1>4, <1>5 DEF VerdictFacts

\* The merged verdict of stages that were all in time.
LEMMA MergedVerdict ==
  ASSUME \A s \in Required' : Timely(s)',
         Conclude(Enforced(IF \A s \in Required' : work'[s] = "pass" THEN "pass" ELSE "fail"))
  PROVE  VerdictFacts' /\ ruling' # NoVerdict
<1>1. /\ ruling'.status = "pass" <=> \A s \in Required' : work'[s] = "pass"
      /\ ~ruling'.degraded /\ ruling'.reason = "none"
      /\ ruling'.status \in {"pass", "fail"}
  BY DEF Conclude, Enforced
<1>2. ruling' # NoVerdict
  BY <1>1 DEF NoVerdict
<1>3. "native" \in Required'
  BY DEF Required, Stages
<1>4. Judged'
  BY <1>1, <1>2, <1>3 DEF Judged, Timely, Findings
<1>5. EnforcedInTime'
  BY DEF EnforcedInTime, Timely, Ended
<1>6. PassNeedsEveryStage'
  BY <1>1 DEF PassNeedsEveryStage
<1>7. ReasonNamesStage'
  BY <1>1 DEF ReasonNamesStage
<1> QED BY <1>2, <1>4, <1>5, <1>6, <1>7 DEF VerdictFacts

\* A verdict is not changed by what happens after it: a function that ends late was
\* not required, or its stage had already overrun.
LEMMA VerdictStands ==
  ASSUME TypeOK, VerdictFacts, NEW s \in Stages, EndWork(s) PROVE VerdictFacts'
<1>1. CASE ruling = NoVerdict
  <2>1. ruling' = NoVerdict
    BY <1>1 DEF EndWork
  <2> QED BY <2>1 DEF VerdictFacts, EnforcedInTime, PassNeedsEveryStage, ReasonNamesStage,
                      Judged
<1>2. CASE ruling # NoVerdict
  <2>1. UNCHANGED <<ruling, cfg, stage, stageEnd, deadline>>
    BY DEF EndWork, clockVars
  <2>2. \A z \in Stages : work[z] # "out" => work'[z] = work[z] /\ endedAt'[z] = endedAt[z]
    BY DEF EndWork, TypeOK
  <2>3. \A z \in Stages : work'[z] = "none" <=> work[z] = "none"
    BY DEF EndWork, TypeOK, Findings, Errors
  <2>4. Judged' <=> Judged
    BY <2>1, <2>3 DEF Judged, Stages
  <2>5. Required' = Required /\ Required \subseteq Stages
    BY <2>1 DEF Required, Stages
  <2>6. Judged => \A z \in Required : work[z] # "out"
    BY DEF VerdictFacts, EnforcedInTime, Ended, Findings, Errors
  <2>7. EnforcedInTime' /\ PassNeedsEveryStage'
    BY <2>1, <2>2, <2>4, <2>5, <2>6
    DEF VerdictFacts, EnforcedInTime, PassNeedsEveryStage, Ended
  <2>8. ReasonNamesStage'
    BY <2>1, <2>2, <2>3 DEF VerdictFacts, ReasonNamesStage, Stages, Findings, TypeOK
  <2> QED BY <2>1, <2>4, <2>7, <2>8 DEF VerdictFacts
<1> QED BY <1>1, <1>2

-----------------------------------------------------------------------------
(* The way of a verdict to the caller.                                     *)

Early == {"payload", "schema", "open", "submit", "wait", "check", "next"}

\* A call still under way goes on, or ends without a verdict.
LEMMA CarriesOn ==
  ASSUME ValidationInv, pc \in Early, pc' \in Early \cup {"raised"}, UNCHANGED <<ruling, output>>
  PROVE  VerdictFacts' /\ VerdictStates'
<1>1. ruling' = NoVerdict /\ ~output'
  BY DEF ValidationInv, VerdictStates, Early
<1>2. VerdictFacts'
  BY <1>1 DEF VerdictFacts, EnforcedInTime, PassNeedsEveryStage, ReasonNamesStage, Judged
<1> QED BY <1>1, <1>2 DEF VerdictStates, Early

\* A call still under way concludes.
LEMMA Concludes ==
  ASSUME ValidationInv, pc \in Early, pc' = "finalize", VerdictFacts', ruling' # NoVerdict,
         UNCHANGED output
  PROVE  VerdictFacts' /\ VerdictStates'
<1>1. ~output'
  BY DEF ValidationInv, VerdictStates, Early
<1> QED BY <1>1 DEF VerdictStates, VerdictFacts

\* What holds of the verdict, and where the call may be with it, is kept by every step.
LEMMA VerdictKept == ValidationInv /\ [Next]_vars => VerdictFacts' /\ VerdictStates'
<1> SUFFICES ASSUME ValidationInv, [Next]_vars PROVE VerdictFacts' /\ VerdictStates'
  OBVIOUS
<1> USE DEF clockVars, Early
<1>0. TypeOK /\ stage \in Stages /\ VerdictStates /\ CallStates /\ StagesInOrder
  BY DEF ValidationInv, TypeOK
<1>a. VerdictFacts
  BY DEF ValidationInv, VerdictFacts, VerdictStates
<1>b. StagesInOrder'
  BY OrderKept
<1>c. \A r \in {"resource_error", "internal_error", "invalid_payload", "invalid_contract"} :
        pc \in Early /\ Conclude(Degraded(r)) /\ UNCHANGED output =>
          VerdictFacts' /\ VerdictStates'
  BY OtherVerdict, Concludes DEF Conclude
<1>d. pc \in Early /\ stage' = stage /\ Conclude(Degraded(TimeoutReason)) /\ UNCHANGED output =>
        VerdictFacts' /\ VerdictStates'
  BY <1>0, <1>b, OverrunVerdict, Concludes DEF Conclude
<1>e. pc \in {"payload", "schema"} /\ Conclude(Enforced("fail")) /\ UNCHANGED <<work, output>> =>
        VerdictFacts' /\ VerdictStates'
  <2> SUFFICES ASSUME pc \in {"payload", "schema"}, Conclude(Enforced("fail")),
                      UNCHANGED <<work, output>>
               PROVE  VerdictFacts' /\ VerdictStates'
    OBVIOUS
  <2>1. work'["native"] = "none"
    BY <1>0 DEF CallStates
  <2>2. VerdictFacts' /\ ruling' # NoVerdict
    BY <2>1, OversizeVerdict
  <2> QED BY <2>2, Concludes DEF Conclude
<1>1. CASE CheckPayload
  BY <1>1, <1>c, <1>e, CarriesOn DEF CheckPayload
<1>2. CASE ResolveSchema
  BY <1>2, <1>c, <1>e, CarriesOn DEF ResolveSchema
<1>3. CASE OpenStage
  BY <1>3, <1>d, CarriesOn DEF OpenStage
<1>4. CASE Shed
  <2>1. Conclude(Degraded("load_shed")) /\ work'[stage'] = "none"
    BY <1>0, <1>4 DEF Shed, CallStates
  <2>2. VerdictFacts' /\ ruling' # NoVerdict
    BY <2>1, DegradedVerdict DEF Reasons
  <2> QED BY <1>4, <2>2, Concludes DEF Shed, Conclude
<1>5. CASE RunnerClosed \/ Submit \/ CollectValue
  BY <1>5, CarriesOn DEF RunnerClosed, Submit, CollectValue
<1>6. CASE GiveUp
  BY <1>6, <1>d DEF GiveUp
<1>7. CASE CollectError
  <2>1. CASE work[stage] = "congine"
    BY <1>7, <2>1, CarriesOn DEF CollectError
  <2>2. CASE work[stage] # "congine"
    BY <1>7, <2>2, <1>c, <1>d DEF CollectError, Errors
  <2> QED BY <2>1, <2>2
<1>8. CASE PostCheck
  BY <1>8, <1>d, CarriesOn DEF PostCheck
<1>9. CASE AfterNative
  <2>1. Timely("native") /\ Timely("native")' /\ cfg' = cfg /\ work' = work
    BY <1>0, <1>9 DEF AfterNative, CallStates, Timely
  <2>2. CASE ~cfg.semantic
    <3>1. Required' = {"native"}
      BY <2>1, <2>2 DEF Required
    <3>2. Conclude(Enforced(IF \A s \in Required' : work'[s] = "pass" THEN "pass" ELSE "fail"))
      BY <1>9, <2>1, <2>2, <3>1 DEF AfterNative
    <3>3. \A s \in Required' : Timely(s)'
      BY <2>1, <3>1 DEF Timely
    <3>4. VerdictFacts' /\ ruling' # NoVerdict
      BY <3>2, <3>3, MergedVerdict
    <3> QED BY <1>9, <3>2, <3>4, Concludes DEF AfterNative, Conclude
  <2>3. CASE cfg.semantic /\ AggregateExpired
    <3>1. Conclude(Degraded("semantic_timeout")) /\ cfg'.semantic
      BY <1>9, <2>1, <2>3 DEF AfterNative
    <3>2. VerdictFacts' /\ ruling' # NoVerdict
      BY <2>1, <3>1, DegradedVerdict DEF Reasons
    <3> QED BY <1>9, <3>1, <3>2, Concludes DEF AfterNative, Conclude
  <2>4. CASE cfg.semantic /\ ~AggregateExpired
    BY <1>9, <2>4, CarriesOn DEF AfterNative
  <2> QED BY <2>2, <2>3, <2>4
<1>10. CASE AfterSemantic
  <2>1. Required' = Stages /\ Timely("native")' /\ Timely("semantic")'
    BY <1>0, <1>10 DEF AfterSemantic, Required, CallStates, StagesInOrder, Timely
  <2>2. Conclude(Enforced(IF \A s \in Required' : work'[s] = "pass" THEN "pass" ELSE "fail"))
    BY <1>10, <2>1 DEF AfterSemantic
  <2>3. \A s \in Required' : Timely(s)'
    BY <2>1 DEF Stages, Timely
  <2>4. VerdictFacts' /\ ruling' # NoVerdict
    BY <2>2, <2>3, MergedVerdict
  <2> QED BY <1>10, <2>2, <2>4, Concludes DEF AfterSemantic, Conclude
<1>11. CASE Finalize \/ HandleFailure \/ GuardFinish
  <2>1. UNCHANGED <<cfg, stage, deadline, stageEnd, work, endedAt, ruling>>
    BY <1>11 DEF Finalize, HandleFailure, GuardFinish
  <2>2. VerdictFacts'
    BY <1>a, <2>1 DEF VerdictFacts, EnforcedInTime, PassNeedsEveryStage, ReasonNamesStage,
                      Judged, Required, Ended
  <2>3. ruling # NoVerdict /\ (ruling.status = "pass" => Judged') /\ ~output
    BY <1>0, <1>11, <2>1, <2>2
    DEF VerdictStates, VerdictFacts, Finalize, HandleFailure, GuardFinish
  <2>4. CASE Finalize
    BY <2>1, <2>2, <2>3, <2>4 DEF Finalize, VerdictStates
  <2>5. CASE HandleFailure
    <3>1. cfg.failMode \in {"strict", "lenient"}
      BY <1>0 DEF TypeOK, Configurations
    <3> QED BY <2>1, <2>2, <2>3, <2>5, <3>1 DEF HandleFailure, VerdictStates
  <2>6. CASE GuardFinish
    <3>1. cfg.mode \in {"raise", "return"}
      BY <1>0 DEF TypeOK, Configurations
    <3>2. ruling.status = "pass" \/ cfg.failMode = "lenient"
      BY <1>0, <2>6 DEF GuardFinish, VerdictStates
    <3> QED BY <2>1, <2>2, <2>3, <2>6, <3>1, <3>2 DEF GuardFinish, VerdictStates
  <2> QED BY <1>11, <2>4, <2>5, <2>6
<1>12. ASSUME NEW s \in Stages, EndWork(s) PROVE VerdictFacts' /\ VerdictStates'
  <2>1. VerdictFacts'
    BY <1>0, <1>12, <1>a, VerdictStands
  <2> QED BY <1>0, <1>12, <2>1 DEF EndWork, VerdictStates, VerdictFacts
<1>13. CASE Tick \/ UNCHANGED vars
  <2>1. UNCHANGED <<cfg, pc, stage, deadline, stageEnd, work, endedAt, ruling, output>>
    BY <1>13 DEF Tick, vars
  <2>2. VerdictFacts'
    BY <1>a, <2>1 DEF VerdictFacts, EnforcedInTime, PassNeedsEveryStage, ReasonNamesStage,
                      Judged, Required, Ended
  <2> QED BY <1>0, <2>1, <2>2 DEF VerdictStates, VerdictFacts
<1> QED BY <1>1, <1>2, <1>3, <1>4, <1>5, <1>6, <1>7, <1>8, <1>9, <1>10, <1>11, <1>12, <1>13
        DEF Next, Call

\* One event per verdict: _finalize publishes before _handle_failure raises.
LEMMA EventKept == ValidationInv /\ [Next]_vars => EventStates'
<1> SUFFICES ASSUME ValidationInv, [Next]_vars PROVE EventStates'
  OBVIOUS
<1> USE DEF EventStates, clockVars
<1>0. EventStates /\ VerdictStates /\ TypeOK
  BY DEF ValidationInv
<1>1. ASSUME pc \in Early, UNCHANGED event, pc' = "finalize" \/ UNCHANGED ruling
      PROVE  EventStates'
  BY <1>0, <1>1 DEF VerdictStates, Early
<1>2. CASE CheckPayload \/ ResolveSchema \/ OpenStage \/ Shed \/ RunnerClosed \/ Submit
  BY <1>1, <1>2 DEF CheckPayload, ResolveSchema, OpenStage, Shed, RunnerClosed, Submit,
                    Conclude, Early
<1>3. CASE GiveUp \/ CollectError \/ CollectValue \/ PostCheck \/ AfterNative \/ AfterSemantic
  BY <1>1, <1>3 DEF GiveUp, CollectError, CollectValue, PostCheck, AfterNative, AfterSemantic,
                    Conclude, Early
<1>4. CASE Finalize
  <2>1. event = <<>> /\ ruling # NoVerdict
    BY <1>0, <1>4 DEF Finalize, VerdictStates
  <2>2. event' = <<ruling>> /\ ruling' = ruling /\ pc' # "finalize"
    BY <1>4, <2>1 DEF Finalize
  <2> QED BY <2>1, <2>2
<1>5. CASE HandleFailure \/ GuardFinish
  BY <1>0, <1>5 DEF HandleFailure, GuardFinish
<1>6. ASSUME NEW s \in Stages, EndWork(s) PROVE EventStates'
  BY <1>0, <1>6 DEF EndWork
<1>7. CASE Tick \/ UNCHANGED vars
  BY <1>0, <1>7 DEF Tick, vars
<1> QED BY <1>2, <1>3, <1>4, <1>5, <1>6, <1>7 DEF Next, Call

-----------------------------------------------------------------------------
(* Theorems.                                                               *)

\* The parts together are inductive.
THEOREM ValidationInvariant == Spec => []ValidationInv
<1>1. ValidationInv /\ [Next]_vars => ValidationInv'
  BY TypesKept, OrderKept, CallKept, VerdictKept, EventKept DEF ValidationInv, VerdictFacts
<1> QED BY <1>1, ValidationInitially, PTL DEF Spec

\* The state of a validation stays of its types, whatever the budget and the caps.
THEOREM ValidationTypes == Spec => []TypeOK
<1>1. ValidationInv => TypeOK
  BY DEF ValidationInv
<1> QED BY <1>1, ValidationInvariant, PTL

\* No late finding is enforced, for any rounding of waits to whole milliseconds and
\* any lateness of the runner: the check after the stage is what makes it so.
THEOREM EnforcesInTime == Spec => []EnforcedInTime
<1>1. ValidationInv => EnforcedInTime
  BY DEF ValidationInv
<1> QED BY <1>1, ValidationInvariant, PTL

\* A pass is the pass of every required stage, and an enforced failure shows a breach.
THEOREM PassIsComplete == Spec => []PassNeedsEveryStage
<1>1. ValidationInv => PassNeedsEveryStage
  BY DEF ValidationInv
<1> QED BY <1>1, ValidationInvariant, PTL

\* The reason given for a degraded verdict is what happened.
THEOREM ReasonsFit == Spec => []ReasonNamesStage
<1>1. ValidationInv => ReasonNamesStage
  BY DEF ValidationInv
<1> QED BY <1>1, ValidationInvariant, PTL

\* A verdict reaches telemetry once, in every fail mode and guard mode.
THEOREM PublishesOnce == Spec => []OneEventPerVerdict
<1>1. ValidationInv => OneEventPerVerdict
  BY DEF ValidationInv, EventStates, VerdictStates, OneEventPerVerdict
<1> QED BY <1>1, ValidationInvariant, PTL

\* Output that has not passed in time never leaves a raising guard or a strict container.
THEOREM OutputGated == Spec => []OutputHeldBack
<1>1. ValidationInv => OutputHeldBack
  <2> SUFFICES ASSUME ValidationInv, output, cfg.mode = "raise" \/ cfg.failMode = "strict"
               PROVE  Judged /\ ruling.status = "pass"
    BY DEF OutputHeldBack
  <2>1. pc = "returned" /\ ruling # NoVerdict
    BY DEF ValidationInv, VerdictStates
  <2>2. ruling.status = "pass"
    BY <2>1 DEF ValidationInv, VerdictStates
  <2> QED BY <2>1, <2>2 DEF ValidationInv, VerdictStates
<1> QED BY <1>1, ValidationInvariant, PTL
=============================================================================
