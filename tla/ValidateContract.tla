--------------------------- MODULE ValidateContract ---------------------------
(***************************************************************************)
(* One governed validation: a function guarded by congine_guard has made   *)
(* its output, and ValidateContractUseCase.execute (or its async twin,     *)
(* step for step the same) judges it under two deadlines.  The stages run  *)
(* on the bounded executor, which BoundedExecutor models: here a stage's   *)
(* function is queued, runs and ends on its own, whether or not the caller *)
(* still waits for it, and time passes between any two steps.              *)
(*                                                                         *)
(* Time is in ticks, several to a millisecond, because waits are rounded   *)
(* down to whole milliseconds.                                             *)
(***************************************************************************)
EXTENDS Integers, Sequences

CONSTANTS Ms,          \* ticks in a millisecond
          Aggregate,   \* validation_timeout_ms
          Caps,        \* values of native_ and semantic_timeout_ms
          NoCap        \* the value None of a stage cap

ASSUME BudgetAssumption ==
  /\ Ms \in Nat \ {0} /\ Aggregate \in Nat \ {0}
  /\ Caps \subseteq Nat \cup {NoCap}
  /\ NoCap \notin Nat

Stages == {"native", "semantic"}
Findings == {"pass", "breach"}
Errors == {"memory", "unexpected", "timeout", "congine"}

\* How the caller and the container are configured.  The fail modes SILENT and
\* DEGRADE, which differ in what they log, are both "lenient"; the guard's modes
\* envelope and output both "return" what the function made.
Configurations ==
  [failMode : {"strict", "lenient"}, mode : {"raise", "return"},
   cap : [Stages -> Caps], semantic : BOOLEAN, inline : BOOLEAN]

Reasons == {"none", "timeout", "semantic_timeout", "load_shed", "resource_error",
            "internal_error", "invalid_payload", "invalid_contract"}

Verdicts == [status : {"pass", "fail"}, degraded : BOOLEAN, reason : Reasons]

VARIABLES now,       \* monotonic clock
          cfg,       \* the configuration in force
          pc,        \* where the call is
          stage,     \* the stage under way
          deadline,  \* aggregate_deadline_ns
          stageEnd,  \* _stage_deadline_ns, of each stage opened so far
          wait,      \* wait_ms of the stage, in ticks
          waitEnd,   \* when the runner gives up waiting
          work,      \* each stage's function: out on the pool, or its end
          endedAt,   \* history: when it ended
          ruling,   \* the ValidationResult, once there is one
          event,     \* the telemetry events published for this call
          output     \* the guard's caller has the function's output

vars == <<now, cfg, pc, stage, deadline, stageEnd, wait, waitEnd, work, endedAt,
          ruling, event, output>>

clockVars == <<deadline, stageEnd, wait, waitEnd>>

PCs == {"payload", "schema", "open", "submit", "wait", "check", "next",
        "finalize", "fail", "finish", "returned", "raised"}

WorkStates == {"none", "out"} \cup Findings \cup Errors
NoVerdict == [status |-> "none"]

TypeOK ==
  /\ now \in Nat
  /\ cfg \in Configurations
  /\ pc \in PCs
  /\ stage \in Stages
  /\ deadline \in Nat
  /\ stageEnd \in [Stages -> Nat]
  /\ wait \in Nat /\ waitEnd \in Nat
  /\ work \in [Stages -> WorkStates]
  /\ endedAt \in [Stages -> Nat]
  /\ ruling \in Verdicts \cup {NoVerdict}
  /\ event \in Seq(Verdicts)
  /\ output \in BOOLEAN

Init ==
  /\ now = 0
  /\ cfg \in Configurations
  /\ pc = "payload"
  /\ stage = "native"
  /\ deadline = 0 /\ stageEnd = [s \in Stages |-> 0] 
  /\ wait = 0 /\ waitEnd = 0
  /\ work = [s \in Stages |-> "none"]
  /\ endedAt = [s \in Stages |-> 0]
  /\ ruling = NoVerdict
  /\ event = <<>>
  /\ output = FALSE

Ended(s) == work[s] \in Findings \cup Errors

\* The call goes on to finalize this result.
Conclude(result) == ruling' = result /\ pc' = "finalize"
Degraded(reason) == [status |-> "fail", degraded |-> TRUE, reason |-> reason]
Enforced(status) == [status |-> status, degraded |-> FALSE, reason |-> "none"]

\* Mutant: every overrun is blamed on the native stage.
TimeoutReasonNative == "timeout"

TimeoutReason == IF stage = "native" THEN "timeout" ELSE "semantic_timeout"
StageExpired == now >= stageEnd[stage]
AggregateExpired == now >= deadline

-----------------------------------------------------------------------------
(* Before the stages.                                                      *)

\* _check_payload_size
CheckPayload ==
  /\ pc = "payload"
  /\ \/ Conclude(Degraded("invalid_payload"))
     \/ Conclude(Enforced("fail"))                  \* oversize
     \/ pc' = "schema" /\ UNCHANGED ruling
  /\ UNCHANGED <<now, cfg, stage, clockVars, work, endedAt, event, output>>

\* _resolve_schema and _check_schema_size, then the budget starts.
ResolveSchema ==
  /\ pc = "schema"
  /\ \/ pc' = "raised" /\ UNCHANGED <<ruling, deadline>>       \* not found
     \/ Conclude(Degraded("invalid_contract")) /\ UNCHANGED deadline
     \/ Conclude(Enforced("fail")) /\ UNCHANGED deadline
     \/ pc' = "open" /\ deadline' = now + Aggregate * Ms /\ UNCHANGED ruling
  /\ UNCHANGED <<now, cfg, stage, stageEnd, wait, waitEnd, work, endedAt, event, output>>

-----------------------------------------------------------------------------
(* _run_stage.                                                             *)

StageEnd ==
  LET capped == now + cfg.cap[stage] * Ms IN
    IF cfg.cap[stage] = NoCap \/ deadline < capped THEN deadline ELSE capped

\* Whole milliseconds, rounded down, and never negative.
WholeMs(ticks) == IF ticks <= 0 THEN 0 ELSE ticks \div Ms

OpenStage ==
  /\ pc = "open"
  /\ stageEnd' = [stageEnd EXCEPT ![stage] = StageEnd]
  /\ wait' = WholeMs(StageEnd - now) * Ms
  /\ IF wait' = 0
       THEN Conclude(Degraded(TimeoutReason))
       ELSE pc' = "submit" /\ UNCHANGED ruling
  /\ UNCHANGED <<now, cfg, stage, deadline, waitEnd, work, endedAt, event, output>>

\* The runner sheds the call, refuses it because it is shut, or takes it; the
\* wait counts from then.
Shed ==
  /\ pc = "submit"
  /\ ~cfg.inline
  /\ Conclude(Degraded("load_shed"))
  /\ UNCHANGED <<now, cfg, stage, clockVars, work, endedAt, event, output>>

RunnerClosed ==
  /\ pc = "submit"
  /\ pc' = "raised"
  /\ UNCHANGED <<now, cfg, stage, clockVars, work, endedAt, ruling, event, output>>

Submit ==
  /\ pc = "submit"
  /\ pc' = "wait"
  /\ work' = [work EXCEPT ![stage] = "out"]
  /\ waitEnd' = now + wait
  /\ UNCHANGED <<now, cfg, stage, deadline, stageEnd, wait, endedAt, ruling,
                 event, output>>

\* Mutant: the wait is abandoned only inside the stage's deadline.
GiveUpInTime ==
  /\ pc = "wait" /\ ~cfg.inline /\ ~Ended(stage)
  /\ now >= waitEnd /\ ~StageExpired
  /\ Conclude(Degraded(TimeoutReason))
  /\ UNCHANGED <<now, cfg, stage, clockVars, work, endedAt, event, output>>

\* future.result(timeout) or wait_for gives up; an inline call has no timer.
GiveUp ==
  /\ pc = "wait"
  /\ ~cfg.inline
  /\ now >= waitEnd
  /\ ~Ended(stage)
  /\ Conclude(Degraded(TimeoutReason))
  /\ UNCHANGED <<now, cfg, stage, clockVars, work, endedAt, event, output>>

\* The function has ended and its value or exception comes out of the runner, at
\* once or after the wait was over.
CollectError ==
  /\ pc = "wait"
  /\ work[stage] \in Errors
  /\ IF work[stage] = "congine"
       THEN pc' = "raised" /\ UNCHANGED ruling
       ELSE Conclude(Degraded(CASE work[stage] = "memory" -> "resource_error"
                                [] work[stage] = "unexpected" -> "internal_error"
                                [] work[stage] = "timeout" -> TimeoutReason))
  /\ UNCHANGED <<now, cfg, stage, clockVars, work, endedAt, event, output>>

CollectValue ==
  /\ pc = "wait"
  /\ work[stage] \in Findings
  /\ pc' = "check"
  /\ UNCHANGED <<now, cfg, stage, clockVars, work, endedAt, ruling, event, output>>

\* Mutant: a value that comes back is a value in time.
PostCheckDropped ==
  /\ pc = "check"
  /\ pc' = "next"
  /\ UNCHANGED <<now, cfg, stage, clockVars, work, endedAt, ruling, event, output>>

\* The post-stage check.
PostCheck ==
  /\ pc = "check"
  /\ IF StageExpired \/ AggregateExpired
       THEN Conclude(Degraded(TimeoutReason))
       ELSE pc' = "next" /\ UNCHANGED ruling
  /\ UNCHANGED <<now, cfg, stage, clockVars, work, endedAt, event, output>>

-----------------------------------------------------------------------------
(* execute, between and after the stages.                                  *)

\* _staged, or the way into the semantic stage.
AfterNative ==
  /\ pc = "next"
  /\ stage = "native"
  /\ IF ~cfg.semantic
       THEN Conclude(Enforced(IF work["native"] = "pass" THEN "pass" ELSE "fail"))
            /\ UNCHANGED stage
     ELSE IF AggregateExpired
       THEN Conclude(Degraded("semantic_timeout")) /\ UNCHANGED stage
     ELSE pc' = "open" /\ stage' = "semantic" /\ UNCHANGED ruling
  /\ UNCHANGED <<now, cfg, clockVars, work, endedAt, event, output>>

\* Mutant: the semantic finding replaces the native one.
MergeLast ==
  /\ pc = "next"
  /\ stage = "semantic"
  /\ Conclude(Enforced(IF work["semantic"] = "pass" THEN "pass" ELSE "fail"))
  /\ UNCHANGED <<now, cfg, stage, clockVars, work, endedAt, event, output>>

\* _merge
AfterSemantic ==
  /\ pc = "next"
  /\ stage = "semantic"
  /\ Conclude(Enforced(IF \A s \in Stages : work[s] = "pass" THEN "pass" ELSE "fail"))
  /\ UNCHANGED <<now, cfg, stage, clockVars, work, endedAt, event, output>>

\* Mutant: a failure is handled before it is published.
FinalizePasses ==
  /\ pc = "finalize"
  /\ event' = IF ruling.status = "pass" THEN Append(event, ruling) ELSE event
  /\ pc' = IF ruling.status = "pass" THEN "finish" ELSE "fail"
  /\ UNCHANGED <<now, cfg, stage, clockVars, work, endedAt, ruling, output>>

\* _finalize publishes, then leaves a failure to _handle_failure.
Finalize ==
  /\ pc = "finalize"
  /\ event' = Append(event, ruling)
  /\ pc' = IF ruling.status = "pass" THEN "finish" ELSE "fail"
  /\ UNCHANGED <<now, cfg, stage, clockVars, work, endedAt, ruling, output>>

HandleFailure ==
  /\ pc = "fail"
  /\ pc' = IF cfg.failMode = "strict" THEN "raised" ELSE "finish"
  /\ UNCHANGED <<now, cfg, stage, clockVars, work, endedAt, ruling, event, output>>

\* Mutant: the guard raises for violations, not for what was never evaluated.
GuardForgivesDegraded ==
  /\ pc = "finish"
  /\ IF cfg.mode = "raise" /\ ruling.status # "pass" /\ ~ruling.degraded
       THEN pc' = "raised" /\ UNCHANGED output
       ELSE pc' = "returned" /\ output' = TRUE
  /\ UNCHANGED <<now, cfg, stage, clockVars, work, endedAt, ruling, event>>

\* congine_guard's _finish
GuardFinish ==
  /\ pc = "finish"
  /\ IF cfg.mode = "raise" /\ ruling.status # "pass"
       THEN pc' = "raised" /\ UNCHANGED output
       ELSE pc' = "returned" /\ output' = TRUE
  /\ UNCHANGED <<now, cfg, stage, clockVars, work, endedAt, ruling, event>>

-----------------------------------------------------------------------------
(* The pool's workers, and time.                                           *)

EndWork(s) ==
  /\ work[s] = "out"
  /\ \E outcome \in Findings \cup Errors : work' = [work EXCEPT ![s] = outcome]
  /\ endedAt' = [endedAt EXCEPT ![s] = now]
  /\ UNCHANGED <<now, cfg, pc, stage, clockVars, ruling, event, output>>

\* The clock is read only in a stage, and once it is past every deadline the
\* readings are all alike.
Tick ==
  /\ \/ pc \in {"open", "submit", "check", "next"} /\ now < deadline
     \/ pc = "wait" /\ (now < deadline \/ now < waitEnd)
  /\ now' = now + 1
  /\ UNCHANGED <<cfg, pc, stage, clockVars, work, endedAt, ruling, event, output>>

Call ==
  \/ CheckPayload \/ ResolveSchema
  \/ OpenStage \/ Shed \/ RunnerClosed \/ Submit
  \/ GiveUp \/ CollectError \/ CollectValue \/ PostCheck
  \/ AfterNative \/ AfterSemantic
  \/ Finalize \/ HandleFailure \/ GuardFinish

Next ==
  \/ Call
  \/ \E s \in Stages : EndWork(s)
  \/ Tick

Spec == Init /\ [][Next]_vars

\* The calling thread runs and time passes.  Nothing says that a function which
\* was queued ever starts, or that one which runs ever ends.
FairSpec == Spec /\ WF_vars(Call) /\ WF_vars(Tick)

-----------------------------------------------------------------------------
(* Properties.                                                             *)

\* Stages that must have a say before a verdict is enforced.
Required == IF cfg.semantic THEN Stages ELSE {"native"}
Judged == ruling # NoVerdict /\ ~ruling.degraded /\ work["native"] # "none"

\* No late finding is ever enforced: when a verdict counts as enforced, every stage
\* required of it had ended before its own deadline and before the aggregate one,
\* even if the runner, an inline call or the scheduler handed the value over late.
EnforcedInTime ==
  Judged => \A s \in Required : Ended(s) /\ endedAt[s] < stageEnd[s] /\ endedAt[s] < deadline

\* A pass needs the pass of every required stage: the native one alone never
\* stands for both.  An enforced failure has a breach to show.
PassNeedsEveryStage ==
  Judged => (ruling.status = "pass" <=> \A s \in Required : work[s] = "pass")

\* The reason names what happened: load shed means the stage's function was never
\* queued, a semantic timeout that the native stage had found something in time, a
\* native timeout that the semantic stage was never begun.
ReasonNamesStage ==
  ruling # NoVerdict =>
    /\ ruling.reason = "load_shed" => work[stage] = "none"
    /\ ruling.reason = "semantic_timeout" =>
         cfg.semantic /\ work["native"] \in Findings /\ endedAt["native"] < stageEnd["native"]
    /\ ruling.reason = "timeout" => work["semantic"] = "none"
    /\ ruling.degraded <=> ruling.reason # "none"

\* A call that reaches a verdict publishes exactly one event, with that verdict,
\* also when strict mode or the guard then raises; a call that ends without one
\* publishes nothing.
OneEventPerVerdict ==
  /\ pc \in {"returned", "raised", "finish", "fail"} =>
       event = IF ruling = NoVerdict THEN <<>> ELSE <<ruling>>
  /\ pc = "returned" => ruling # NoVerdict

\* In raise mode, and under the strict fail mode, the guarded function's output
\* reaches the caller only after every required stage has passed it in time.
OutputHeldBack ==
  output /\ (cfg.mode = "raise" \/ cfg.failMode = "strict") =>
    Judged /\ ruling.status = "pass"

\* A call on the pool ends even if no function ever starts or ends; an inline one
\* waits for its function.
CallEnds ==
  pc \notin {"returned", "raised"} ~>
    \/ pc \in {"returned", "raised"}
    \/ cfg.inline /\ pc = "wait"
=============================================================================
