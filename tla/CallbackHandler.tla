-------------------------- MODULE CallbackHandler --------------------------
(***************************************************************************)
(* The LangChain callback handler.  Threads deliver tokens, ends and       *)
(* errors of runs; a run's state and the results are under one lock, the   *)
(* evaluation of a completed text is outside it.  Nothing obliges the host *)
(* to end a run once, to deliver no token after its end, or to deliver the *)
(* callbacks of one run one at a time.                                     *)
(***************************************************************************)
EXTENDS OutputRepresentation, FiniteSets

CONSTANTS
  Threads, Runs,
  Observations,       \* [name -> a stream observation the host may deliver]
  Responses,          \* [name -> a final response]
  MaxBuffer,          \* max_stream_buffer_chars
  MaxCalls            \* bound of the model: callbacks delivered

Missing == "missing"          \* a run id of None
Unhashable == "unhashable"    \* a run id no dict takes
Ids == Runs \cup {Missing, Unhashable}

ASSUME HandlerAssumption ==
  /\ {Missing, Unhashable} \cap Runs = {}
  /\ MaxBuffer \in Nat /\ MaxCalls \in Nat
ASSUME HostAssumption ==
  /\ DOMAIN Observations # {} /\ DOMAIN Responses # {}
  /\ \A o \in DOMAIN Observations : Observations[o] \in StreamObservations
  /\ \A r \in DOMAIN Responses : Responses[r] \in FinalResponses

VARIABLES
  open,         \* the host container is open
  runs,         \* _runs: [run -> its state; absent when not active]
  results,      \* _results: [run -> the end that produced its result, 0 for none]
  last,         \* _last_result, likewise
  pc, id,       \* [thread -> where its callback is, and the run id it was given]
  obs, resp,    \* [thread -> the observation, the response it was given]
  text,         \* [thread -> the text established as complete]
  call,         \* [thread -> the number of its callback]
  told,         \* [thread -> what the callback told the host]
  calls,        \* callbacks delivered
  seen, saw,    \* history: [run -> the observations of the active run], as an end took them
  before        \* history: [thread -> the callback, result_for(id) and last_result at its call]

handlerVars == <<runs, results, last>>
args == <<id, obs, resp, call, before>>
vars == <<open, handlerVars, pc, args, text, told, calls, seen, saw>>

NothingBefore == [kind |-> None, result |-> 0, last |-> 0]
NoRun == [active |-> FALSE, refused |-> None, text |-> <<>>, length |-> 0]
NewRun == [NoRun EXCEPT !.active = TRUE]
Told == Reasons \cup {None, "closed", "result", "error"}
PCs == {"idle", "token", "end", "evaluate", "record", "failed", "error", "done"}
ResultOf(k) == IF k \in Runs THEN results[k] ELSE 0

Observed(t) == Observations[obs[t]]
Response(t) == Responses[resp[t]]

Init ==
  /\ open = TRUE /\ runs = [k \in Runs |-> NoRun]
  /\ results = [k \in Runs |-> 0] /\ last = 0
  /\ pc = [t \in Threads |-> "idle"] /\ id = [t \in Threads |-> Missing]
  /\ obs = [t \in Threads |-> CHOOSE o \in DOMAIN Observations : TRUE]
  /\ resp = [t \in Threads |-> CHOOSE r \in DOMAIN Responses : TRUE]
  /\ text = [t \in Threads |-> <<>>] /\ call = [t \in Threads |-> 0]
  /\ told = [t \in Threads |-> None] /\ calls = 0
  /\ seen = [k \in Runs |-> <<>>] /\ saw = [t \in Threads |-> <<>>]
  /\ before = [t \in Threads |-> NothingBefore]

-----------------------------------------------------------------------------
(* A callback begins with _ensure_open, and returns.                       *)

Close ==
  /\ open /\ open' = FALSE
  /\ UNCHANGED <<handlerVars, pc, args, text, told, calls, seen, saw>>

Begin(t, k, step) ==
  /\ pc[t] = "idle" /\ calls < MaxCalls
  /\ calls' = calls + 1 /\ call' = [call EXCEPT ![t] = calls + 1]
  /\ id' = [id EXCEPT ![t] = k]
  /\ before' = [before EXCEPT ![t] = [kind |-> step, result |-> ResultOf(k), last |-> last]]
  /\ pc' = [pc EXCEPT ![t] = IF open THEN step ELSE "done"]
  /\ told' = [told EXCEPT ![t] = IF open THEN None ELSE "closed"]
  /\ UNCHANGED <<open, handlerVars, text, seen, saw>>

OnToken(t, k, o) ==
  /\ Begin(t, k, "token")
  /\ obs' = [obs EXCEPT ![t] = o] /\ UNCHANGED resp
OnEnd(t, k, r) ==
  /\ Begin(t, k, "end")
  /\ resp' = [resp EXCEPT ![t] = r] /\ UNCHANGED obs
OnError(t, k) == Begin(t, k, "error") /\ UNCHANGED <<obs, resp>>

Tell(t, what) ==
  /\ pc' = [pc EXCEPT ![t] = "done"]
  /\ told' = [told EXCEPT ![t] = what]

\* The arguments of a callback that is over are of no more use.
Return(t) ==
  /\ pc[t] = "done"
  /\ pc' = [pc EXCEPT ![t] = "idle"] /\ id' = [id EXCEPT ![t] = Missing]
  /\ obs' = [obs EXCEPT ![t] = CHOOSE o \in DOMAIN Observations : TRUE]
  /\ resp' = [resp EXCEPT ![t] = CHOOSE r \in DOMAIN Responses : TRUE]
  /\ text' = [text EXCEPT ![t] = <<>>] /\ saw' = [saw EXCEPT ![t] = <<>>]
  /\ call' = [call EXCEPT ![t] = 0] /\ told' = [told EXCEPT ![t] = None]
  /\ before' = [before EXCEPT ![t] = NothingBefore]
  /\ UNCHANGED <<open, handlerVars, calls, seen>>

\* No usable run identity.
KeyReason(k) == First(<<If(k = Missing, "missing_run_id"), If(k = Unhashable, "unhashable_run_id")>>)

-----------------------------------------------------------------------------
(* on_llm_new_token: the inspection, then one step under the lock.         *)

TokenUnkeyed(t) ==
  /\ pc[t] = "token" /\ KeyReason(id[t]) # None
  /\ Tell(t, KeyReason(id[t]))
  /\ UNCHANGED <<open, handlerVars, args, text, calls, seen, saw>>

\* setdefault: the run is active from its first token, refused or not.
State(k) == IF runs[k].active THEN runs[k] ELSE NewRun

\* Mutant: a run is refused for its latest reason.
RefuseLatest(k, reason) == [NewRun EXCEPT !.refused = reason]

Refuse(k, reason) ==
  [NewRun EXCEPT !.refused = IF State(k).refused = None THEN reason ELSE State(k).refused]

Observe(t) ==
  /\ pc[t] = "token" /\ KeyReason(id[t]) = None
  /\ seen' = [seen EXCEPT ![id[t]] = Append(@, obs[t])]
  /\ UNCHANGED <<open, results, last, args, text, calls, saw>>

TokenRefused(t) ==
  LET k == id[t]
      reason == InspectStreamObservation(Observed(t))
  IN  /\ Observe(t) /\ reason # None
      /\ runs' = [runs EXCEPT ![k] = Refuse(k, reason)]
      /\ Tell(t, Refuse(k, reason).refused)

\* No later valid token restores a refused run.
TokenStanding(t) ==
  LET k == id[t]
  IN  /\ Observe(t) /\ InspectStreamObservation(Observed(t)) = None
      /\ State(k).refused # None
      /\ Tell(t, State(k).refused) /\ UNCHANGED runs

Fits(k, o) == State(k).length + Len(o.token) <= MaxBuffer

\* Never clip: a prefix would stand for output nobody has seen.
TokenOverflow(t) ==
  LET k == id[t]
  IN  /\ Observe(t) /\ InspectStreamObservation(Observed(t)) = None
      /\ State(k).refused = None /\ ~Fits(k, Observed(t))
      /\ runs' = [runs EXCEPT ![k] = Refuse(k, "stream_buffer_exceeded")]
      /\ Tell(t, "stream_buffer_exceeded")

TokenKept(t) ==
  LET k == id[t]
  IN  /\ Observe(t) /\ InspectStreamObservation(Observed(t)) = None
      /\ State(k).refused = None /\ Fits(k, Observed(t))
      /\ runs' = [runs EXCEPT ![k] = [State(k) EXCEPT !.text = @ \o Observed(t).token,
                                                      !.length = @ + Len(Observed(t).token)]]
      /\ Tell(t, None)

Token(t) ==
  \/ TokenUnkeyed(t) \/ TokenRefused(t) \/ TokenStanding(t) \/ TokenOverflow(t) \/ TokenKept(t)

-----------------------------------------------------------------------------
(* on_llm_end: the run is taken under the lock, judged and evaluated       *)
(* outside it, and the outcome is recorded under it.                       *)

Fail(t, reason) ==
  /\ pc' = [pc EXCEPT ![t] = "failed"] /\ told' = [told EXCEPT ![t] = reason]
  /\ UNCHANGED text

EndUnkeyed(t) ==
  /\ pc[t] = "end" /\ KeyReason(id[t]) # None
  /\ Fail(t, KeyReason(id[t]))
  /\ UNCHANGED <<open, handlerVars, args, calls, seen, saw>>

\* Mutant: the response alone is judged, the stream is only checked for a refusal.
CompletionReasonFinal(run, r) == First(<<run.refused, ExtractionReason(r)>>)

CompletionReason(run, r) ==
  First(<<run.refused,
          ExtractionReason(r),
          IF run.refused = None /\ ExtractionReason(r) = None
          THEN If(run.active /\ run.text # CompleteText(r), "stream_final_mismatch") ELSE None>>)

EndTaken(t) ==
  LET k == id[t]
      reason == CompletionReason(runs[k], Response(t))
  IN  /\ pc[t] = "end" /\ KeyReason(k) = None
      /\ runs' = [runs EXCEPT ![k] = NoRun]
      /\ saw' = [saw EXCEPT ![t] = seen[k]] /\ seen' = [seen EXCEPT ![k] = <<>>]
      /\ \/ reason # None /\ Fail(t, reason)
         \/ /\ reason = None
            /\ pc' = [pc EXCEPT ![t] = "evaluate"]
            /\ text' = [text EXCEPT ![t] = CompleteText(Response(t))] /\ UNCHANGED told
      /\ UNCHANGED <<open, results, last, args, calls>>

\* execute returns a result, or raises: a CongineBaseException, which the host is told, or
\* another, which it is not.
Evaluate(t) ==
  /\ pc[t] = "evaluate"
  /\ \/ pc' = [pc EXCEPT ![t] = "record"] /\ UNCHANGED told
     \/ /\ pc' = [pc EXCEPT ![t] = "failed"]
        /\ \E what \in {"error", None} : told' = [told EXCEPT ![t] = what]
  /\ UNCHANGED <<open, handlerVars, args, text, calls, seen, saw>>

RecordResult(t) ==
  /\ pc[t] = "record"
  /\ results' = [results EXCEPT ![id[t]] = call[t]] /\ last' = call[t]
  /\ Tell(t, "result")
  /\ UNCHANGED <<open, runs, args, text, calls, seen, saw>>

\* Mutant: the run's result is dropped, the latest one stays.
RecordFailureOfRun(t) ==
  /\ pc[t] = "failed"
  /\ results' = [k \in Runs |-> IF k = id[t] THEN 0 ELSE results[k]]
  /\ Tell(t, told[t])
  /\ UNCHANGED <<open, runs, last, args, text, calls, seen, saw>>

RecordFailure(t) ==
  /\ pc[t] = "failed"
  /\ results' = [k \in Runs |-> IF k = id[t] THEN 0 ELSE results[k]] /\ last' = 0
  /\ Tell(t, told[t])
  /\ UNCHANGED <<open, runs, args, text, calls, seen, saw>>

End(t) == EndUnkeyed(t) \/ EndTaken(t) \/ Evaluate(t) \/ RecordResult(t) \/ RecordFailure(t)

\* on_llm_error: None is a key like another.
Error(t) ==
  /\ pc[t] = "error" /\ id[t] # Unhashable
  /\ runs' = [k \in Runs |-> IF k = id[t] THEN NoRun ELSE runs[k]]
  /\ results' = [k \in Runs |-> IF k = id[t] THEN 0 ELSE results[k]] /\ last' = 0
  /\ seen' = [k \in Runs |-> IF k = id[t] THEN <<>> ELSE seen[k]]
  /\ Tell(t, None)
  /\ UNCHANGED <<open, args, text, calls, saw>>

\* pop raises before anything is cleared; the exception is logged.
ErrorUnhashable(t) ==
  /\ pc[t] = "error" /\ id[t] = Unhashable
  /\ Tell(t, None)
  /\ UNCHANGED <<open, handlerVars, args, text, calls, seen, saw>>

Deliver(t) ==
  \E k \in Ids :
     \/ \E o \in DOMAIN Observations : OnToken(t, k, o)
     \/ \E r \in DOMAIN Responses : OnEnd(t, k, r)
     \/ OnError(t, k)

Step(t) == Token(t) \/ End(t) \/ Error(t) \/ ErrorUnhashable(t) \/ Return(t)
Next == Close \/ \E t \in Threads : Deliver(t) \/ Step(t)
Spec == Init /\ [][Next]_vars

-----------------------------------------------------------------------------
(* Properties.                                                             *)

TypeOK ==
  /\ open \in BOOLEAN
  /\ runs \in [Runs -> [active : BOOLEAN, refused : Reasons \cup {None}, text : Seq(Characters),
                        length : Nat]]
  /\ results \in [Runs -> Nat] /\ last \in Nat
  /\ pc \in [Threads -> PCs] /\ id \in [Threads -> Ids]
  /\ obs \in [Threads -> DOMAIN Observations] /\ resp \in [Threads -> DOMAIN Responses]
  /\ text \in [Threads -> Seq(Characters)] /\ call \in [Threads -> Nat]
  /\ told \in [Threads -> Told] /\ calls \in Nat
  /\ seen \in [Runs -> Seq(DOMAIN Observations)] /\ saw \in [Threads -> Seq(DOMAIN Observations)]
  /\ before \in [Threads -> [kind : {None, "token", "end", "error"}, result : Nat, last : Nat]]

\* What is evaluated is the whole of the response that ended the run: one generation, one
\* text in all its representations, nothing beside it, and no sign that it is incomplete.
EvaluatedWhole == \A t \in Threads : pc[t] \in {"evaluate", "record"} => Whole(Response(t), text[t])

Streamed(s) == FlattenSeq([i \in DOMAIN s |-> Observations[s[i]].token])
\* The first observation of a stream that is not plain text, or exceeds the buffer.
Faults(s) == {i \in DOMAIN s : ~Plain(Observations[s[i]]) \/ Len(Streamed(SubSeq(s, 1, i))) > MaxBuffer}
FaultReason(s) ==
  LET i == CHOOSE i \in Faults(s) : \A j \in Faults(s) : i <= j
  IN  IF Plain(Observations[s[i]]) THEN "stream_buffer_exceeded" ELSE InspectStreamObservation(Observations[s[i]])

\* A run's state is what its whole stream makes of it, whatever threads the tokens came by:
\* all of its text, or the reason of its first fault and no text at all.  So no later token
\* restores a refused run, no prefix survives, and no run outgrows the buffer.
StateOfStream ==
  \A k \in Runs :
    runs[k] = IF seen[k] = <<>> THEN NoRun
              ELSE IF Faults(seen[k]) = {}
              THEN [active |-> TRUE, refused |-> None, text |-> Streamed(seen[k]),
                    length |-> Len(Streamed(seen[k]))]
              ELSE [NewRun EXCEPT !.refused = FaultReason(seen[k])]

\* An end evaluates a text only if every token of the run it took was plain and together
\* they are that text; otherwise the host is told the first reason.
StreamBinds ==
  \A t \in Threads : saw[t] # <<>> =>
    /\ pc[t] \in {"evaluate", "record"} => Faults(saw[t]) = {} /\ Streamed(saw[t]) = text[t]
    /\ Faults(saw[t]) # {} => told[t] = FaultReason(saw[t])

\* last_result, when there is one, is also what result_for gives for some run.
LastAgrees == last # 0 => \E k \in Runs : results[k] = last

\* A callback that fails a run leaves no earlier verdict to be read: neither result_for
\* nor last_result gives what it gave when the callback was delivered.
FailsRun(t) ==
  /\ before[t].kind \in {"end", "error"} /\ told[t] \notin {"result", "closed"}
  /\ before[t].kind = "error" => id[t] # Unhashable
NoStaleVerdict ==
  \A t \in Threads : pc[t] = "done" /\ FailsRun(t) =>
    /\ ResultOf(id[t]) # 0 => ResultOf(id[t]) # before[t].result
    /\ last # 0 => last # before[t].last
=============================================================================
