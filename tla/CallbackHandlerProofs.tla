----------------------- MODULE CallbackHandlerProofs -----------------------
(***************************************************************************)
(* Proofs about the callback handler: for any host values, threads, runs   *)
(* and buffer, what is evaluated is the whole of the final response, a     *)
(* verdict that can be read is not one that a later callback has failed,   *)
(* and a run's state is what its whole stream makes of it.                 *)
(***************************************************************************)
EXTENDS CallbackHandler, SequenceLemmas, TLAPS

-----------------------------------------------------------------------------
(* The first of several reasons is none when none of them is.              *)

\* A chosen reason is a reason, when the choice is between finitely many of which the
\* least can be named.
LEMMA FirstChosen ==
  ASSUME NEW s, NEW n \in DOMAIN s, s[n] # None,
         \A j \in DOMAIN s : j < n => s[j] = None
  PROVE  First(s) # None
<1> DEFINE Least(i) == s[i] # None /\ \A j \in DOMAIN s : j < i => s[j] = None
<1>1. Least(n)
  OBVIOUS
<1>2. s[CHOOSE i \in DOMAIN s : Least(i)] # None
  BY <1>1
<1> QED BY <1>2 DEF First

\* Two reasons: none is found when none is there.
LEMMA FirstOfTwo ==
  ASSUME NEW a, NEW b
  PROVE  First(<<a, b>>) = None <=> a = None /\ b = None
<1> DEFINE s == <<a, b>>
<1>0. DOMAIN s = 1..2 /\ s[1] = a /\ s[2] = b
  OBVIOUS
<1> HIDE DEF s
<1>1. CASE a # None
  BY <1>0, <1>1, FirstChosen
<1>2. CASE a = None /\ b # None
  BY <1>0, <1>2, FirstChosen
<1>3. CASE a = None /\ b = None
  BY <1>0, <1>3 DEF First
<1> QED BY <1>1, <1>2, <1>3 DEF s

\* Three reasons: none is found when none is there.
LEMMA FirstOfThree ==
  ASSUME NEW a, NEW b, NEW c
  PROVE  First(<<a, b, c>>) = None <=> a = None /\ b = None /\ c = None
<1> DEFINE s == <<a, b, c>>
<1>0. DOMAIN s = 1..3 /\ s[1] = a /\ s[2] = b /\ s[3] = c
  OBVIOUS
<1> HIDE DEF s
<1>1. CASE a # None
  BY <1>0, <1>1, FirstChosen
<1>2. CASE a = None /\ b # None
  BY <1>0, <1>2, FirstChosen
<1>3. CASE a = None /\ b = None /\ c # None
  BY <1>0, <1>3, FirstChosen
<1>4. CASE a = None /\ b = None /\ c = None
  BY <1>0, <1>4 DEF First
<1> QED BY <1>1, <1>2, <1>3, <1>4 DEF s

\* Four reasons: none is found when none is there.
LEMMA FirstOfFour ==
  ASSUME NEW a, NEW b, NEW c, NEW d
  PROVE  First(<<a, b, c, d>>) = None <=> a = None /\ b = None /\ c = None /\ d = None
<1> DEFINE s == <<a, b, c, d>>
<1>0. DOMAIN s = 1..4 /\ s[1] = a /\ s[2] = b /\ s[3] = c /\ s[4] = d
  OBVIOUS
<1> HIDE DEF s
<1>1. CASE a # None
  BY <1>0, <1>1, FirstChosen
<1>2. CASE a = None /\ b # None
  BY <1>0, <1>2, FirstChosen
<1>3. CASE a = None /\ b = None /\ c # None
  BY <1>0, <1>3, FirstChosen
<1>4. CASE a = None /\ b = None /\ c = None /\ d # None
  BY <1>0, <1>4, FirstChosen
<1>5. CASE a = None /\ b = None /\ c = None /\ d = None
  BY <1>0, <1>5 DEF First
<1> QED BY <1>1, <1>2, <1>3, <1>4, <1>5 DEF s

\* Five reasons: none is found when none is there.
LEMMA FirstOfFive ==
  ASSUME NEW a, NEW b, NEW c, NEW d, NEW e
  PROVE  First(<<a, b, c, d, e>>) = None <=> a = None /\ b = None /\ c = None /\ d = None /\ e = None
<1> DEFINE s == <<a, b, c, d, e>>
<1>0. DOMAIN s = 1..5 /\ s[1] = a /\ s[2] = b /\ s[3] = c /\ s[4] = d /\ s[5] = e
  OBVIOUS
<1> HIDE DEF s
<1>1. CASE a # None
  BY <1>0, <1>1, FirstChosen
<1>2. CASE a = None /\ b # None
  BY <1>0, <1>2, FirstChosen
<1>3. CASE a = None /\ b = None /\ c # None
  BY <1>0, <1>3, FirstChosen
<1>4. CASE a = None /\ b = None /\ c = None /\ d # None
  BY <1>0, <1>4, FirstChosen
<1>5. CASE a = None /\ b = None /\ c = None /\ d = None /\ e # None
  BY <1>0, <1>5, FirstChosen
<1>6. CASE a = None /\ b = None /\ c = None /\ d = None /\ e = None
  BY <1>0, <1>6 DEF First
<1> QED BY <1>1, <1>2, <1>3, <1>4, <1>5, <1>6 DEF s

-----------------------------------------------------------------------------
(* Each inspection finds nothing exactly when there is nothing to find.    *)

\* A side channel raises nothing when it is absent.
LEMMA CarriedNothing ==
  ASSUME NEW channel \in Channels, NEW reason \in Reasons, NEW malformed \in Reasons
  PROVE  Carried(channel, reason, malformed) = None <=> channel = "absent"
BY DEF Carried, Channels, Reasons, None

\* Metadata raises nothing when it is absent or says the output is complete.
LEMMA TerminationSettled ==
  ASSUME NEW m, m.kind \in {"absent", "mapping", "other"}, m.finish_reason \in Terminations,
         m.stop_reason \in Terminations, NEW malformed \in Reasons
  PROVE  CheckTermination(m, malformed) = None <=> Settled(m)
<1>1. \A t \in Terminations : TerminationReason(t, malformed) = None <=> t \in {None, "complete"}
  BY DEF TerminationReason, Terminations, Reasons, None
<1>2. CASE m.kind = "mapping"
  BY <1>1, <1>2, FirstOfTwo DEF CheckTermination, Settled
<1>3. CASE m.kind \in {"absent", "other"}
  BY <1>3 DEF CheckTermination, Settled, Reasons, None
<1> QED BY <1>2, <1>3

\* A message passes when it is only its text.
LEMMA MessageOnlyText ==
  ASSUME NEW m \in Messages, NEW malformed \in Reasons
  PROVE  InspectMessage(m, malformed) = None <=> OnlyText(m, m.content)
<1> DEFINE e == m.extra
<1>0. "tool_or_action_content" \in Reasons /\ "unsupported_message_metadata" \in Reasons
      /\ "non_text_content" \in Reasons /\ None \notin Reasons
  BY DEF Reasons, None
<1>1. m.actions \in Channels /\ e \in Extras /\ m.textual \in BOOLEAN /\ m.metadata \in Metadata
  BY DEF Messages
<1>2. e.kind \in {"absent", "mapping", "other"} /\ e.actions \in Channels /\ e.rest \in Channels
  BY <1>1 DEF Extras
<1>3. Carried(m.actions, "tool_or_action_content", malformed) = None <=> m.actions = "absent"
  BY <1>0, <1>1, CarriedNothing
<1>4. InspectExtra(e, malformed) = None
        <=> e.kind = "absent" \/ (e.kind = "mapping" /\ {e.actions, e.rest} = {"absent"})
  <2>1. CASE e.kind = "mapping"
    <3>1. /\ Carried(e.actions, "tool_or_action_content", malformed) = None <=> e.actions = "absent"
          /\ Carried(e.rest, "unsupported_message_metadata", malformed) = None <=> e.rest = "absent"
      BY <1>0, <1>2, CarriedNothing
    <3> HIDE DEF e
    <3> QED BY <2>1, <3>1, FirstOfTwo DEF InspectExtra
  <2>2. CASE e.kind # "mapping"
    BY <2>2, <1>0, <1>2 DEF InspectExtra
  <2> QED BY <2>1, <2>2
<1>5. If(~m.textual, "non_text_content") = None <=> m.textual
  BY <1>0, <1>1 DEF If
<1>6. CheckTermination(m.metadata, malformed) = None <=> Settled(m.metadata)
  BY <1>1, TerminationSettled DEF Metadata
<1> QED BY <1>3, <1>4, <1>5, <1>6, FirstOfFour DEF InspectMessage, OnlyText

\* A generation passes when all the text it has is one text, complete and alone.
LEMMA GenerationWhole ==
  ASSUME NEW g \in Generations
  PROVE  InspectGeneration(g) = None <=>
           LET said == IF g.messaged THEN g.message.content ELSE g.text
           IN  /\ g.messaged => OnlyText(g.message, said)
               /\ g.textual => g.text = said
               /\ g.messaged \/ g.textual
               /\ Settled(g.info)
<1>0. /\ "malformed_final_response" \in Reasons /\ "text_message_mismatch" # None
      /\ "non_text_content" # None
  BY DEF Reasons, None
<1>1. /\ g.messaged \in BOOLEAN /\ g.message \in Messages /\ g.textual \in BOOLEAN
      /\ g.info \in Metadata
  BY DEF Generations
<1>2. CheckTermination(g.info, "malformed_final_response") = None <=> Settled(g.info)
  BY <1>0, <1>1, TerminationSettled DEF Metadata
<1>3. CASE g.messaged
  <2>1. InspectMessage(g.message, "malformed_final_response") = None
          <=> OnlyText(g.message, g.message.content)
    BY <1>0, <1>1, MessageOnlyText
  <2>2. If(g.textual /\ g.text # g.message.content, "text_message_mismatch") = None
          <=> (g.textual => g.text = g.message.content)
    BY <1>0, <1>1 DEF If
  <2> QED BY <1>2, <1>3, <2>1, <2>2, FirstOfTwo DEF InspectGeneration
<1>4. CASE ~g.messaged
  <2>1. If(~g.textual, "non_text_content") = None <=> g.textual
    BY <1>0, <1>1 DEF If
  <2> QED BY <1>2, <1>4, <2>1, FirstOfTwo DEF InspectGeneration
<1> QED BY <1>1, <1>3, <1>4

\* A condition on a number of elements raises its reason, or nothing.
LEMMA NumberChecked ==
  ASSUME NEW n \in Nat
  PROVE  /\ If(n = 0, "no_generation") = None <=> n # 0
         /\ If(n > 1, "multiple_generation_groups") = None <=> ~(n > 1)
         /\ If(n > 1, "multiple_generations") = None <=> ~(n > 1)
<1>0. /\ "no_generation" # None /\ "multiple_generation_groups" # None
      /\ "multiple_generations" # None
  BY DEF None
<1>1. CASE n = 0
  <2>1. ~(n > 1)
    BY <1>1
  <2> QED BY <1>0, <1>1, <2>1, Zenon DEF If
<1>2. CASE n # 0 /\ n > 1
  BY <1>0, <1>2, Zenon DEF If
<1>3. CASE n # 0 /\ ~(n > 1)
  BY <1>0, <1>3, Zenon DEF If
<1> QED BY <1>1, <1>2, <1>3

\* Neither none nor several is one.
LEMMA NumberOne ==
  ASSUME NEW n \in Nat
  PROVE  (n # 0 /\ ~(n > 1)) <=> (n = 1)
OBVIOUS

\* The shape passes when there is one generation, listed as it should be.
LEMMA ShapeSingle ==
  ASSUME NEW r \in FinalResponses
  PROVE  InspectShape(r) = None <=>
           /\ r.kind = "listed" /\ Len(r.groups) = 1
           /\ r.groups[1].listed /\ Len(r.groups[1].generations) = 1
<1> DEFINE group == r.groups[1]
           inner == First(<<If(~group.listed, "malformed_final_response"),
                            If(Len(group.generations) = 0, "no_generation"),
                            If(Len(group.generations) > 1, "multiple_generations")>>)
<1>0. "missing_final_response" # None /\ "malformed_final_response" # None
  BY DEF None
<1>1. r.kind \in {"none", "other", "listed"} /\ r.groups \in Seq(Groups)
  BY DEF FinalResponses
<1>2. Len(r.groups) \in Nat /\ (Len(r.groups) = 1 => group \in Groups)
  BY <1>1
<1>3. Len(r.groups) = 1 => group.listed \in BOOLEAN /\ group.generations \in Seq(Generations)
  BY <1>2 DEF Groups
<1>4. Len(r.groups) = 1 => Len(group.generations) \in Nat
  BY <1>3
<1>5. /\ If(Len(r.groups) = 0, "no_generation") = None <=> Len(r.groups) # 0
      /\ If(Len(r.groups) > 1, "multiple_generation_groups") = None <=> ~(Len(r.groups) > 1)
  BY <1>2, NumberChecked
<1>6. /\ If(r.kind = "none", "missing_final_response") = None <=> r.kind # "none"
      /\ If(r.kind = "other", "malformed_final_response") = None <=> r.kind # "other"
  BY <1>0, Zenon DEF If
<1>7. Len(r.groups) = 1 =>
        (inner = None <=> group.listed /\ Len(group.generations) = 1)
  <2> SUFFICES ASSUME Len(r.groups) = 1
               PROVE  inner = None <=> group.listed /\ Len(group.generations) = 1
    OBVIOUS
  <2>1. If(~group.listed, "malformed_final_response") = None <=> group.listed
    BY <1>0, <1>3, Zenon DEF If
  <2>2. /\ If(Len(group.generations) = 0, "no_generation") = None <=> Len(group.generations) # 0
        /\ If(Len(group.generations) > 1, "multiple_generations") = None
             <=> ~(Len(group.generations) > 1)
    BY <1>4, NumberChecked
  <2>3. inner = None <=>
          /\ If(~group.listed, "malformed_final_response") = None
          /\ If(Len(group.generations) = 0, "no_generation") = None
          /\ If(Len(group.generations) > 1, "multiple_generations") = None
    BY FirstOfThree
  <2>4. inner = None <=> group.listed /\ Len(group.generations) # 0 /\ ~(Len(group.generations) > 1)
    BY <2>1, <2>2, <2>3, Zenon
  <2>5. Len(group.generations) # 0 /\ ~(Len(group.generations) > 1) <=> Len(group.generations) = 1
    BY <1>4, NumberOne
  <2> QED BY <2>4, <2>5, Zenon
<1>8. InspectShape(r) = None <=>
        /\ r.kind # "none" /\ r.kind # "other" /\ Len(r.groups) # 0 /\ ~(Len(r.groups) > 1)
        /\ (IF Len(r.groups) = 1 THEN inner ELSE None) = None
  <2>1. InspectShape(r) =
          First(<<If(r.kind = "none", "missing_final_response"),
                  If(r.kind = "other", "malformed_final_response"),
                  If(Len(r.groups) = 0, "no_generation"),
                  If(Len(r.groups) > 1, "multiple_generation_groups"),
                  IF Len(r.groups) = 1 THEN inner ELSE None>>)
    BY Zenon DEF InspectShape
  <2> HIDE DEF inner
  <2>2. InspectShape(r) = None <=>
          /\ If(r.kind = "none", "missing_final_response") = None
          /\ If(r.kind = "other", "malformed_final_response") = None
          /\ If(Len(r.groups) = 0, "no_generation") = None
          /\ If(Len(r.groups) > 1, "multiple_generation_groups") = None
          /\ (IF Len(r.groups) = 1 THEN inner ELSE None) = None
    BY <2>1, FirstOfFive
  <2> QED BY <1>5, <1>6, <2>2, Zenon
<1> HIDE DEF inner, group
<1>9. InspectShape(r) = None <=>
        /\ r.kind = "listed" /\ Len(r.groups) = 1 /\ group.listed /\ Len(group.generations) = 1
  <2>1. Len(r.groups) # 0 /\ ~(Len(r.groups) > 1) <=> Len(r.groups) = 1
    BY <1>2, NumberOne
  <2>2. r.kind # "none" /\ r.kind # "other" <=> r.kind = "listed"
    BY <1>1
  <2> QED BY <1>7, <1>8, <2>1, <2>2, Zenon
<1> QED BY <1>9 DEF group

\* A response is not refused exactly when the text taken from it is all there is
\* (_extract_complete_text: "return the complete final text, or refuse").
THEOREM ExtractionExact ==
  ASSUME NEW r \in FinalResponses
  PROVE  ExtractionReason(r) = None <=> Whole(r, CompleteText(r))
<1>1. CASE InspectShape(r) # None
  BY <1>1, ShapeSingle DEF ExtractionReason, Whole
<1>2. CASE InspectShape(r) = None
  <2>1. /\ r.kind = "listed" /\ Len(r.groups) = 1
        /\ r.groups[1].listed /\ Len(r.groups[1].generations) = 1
    BY <1>2, ShapeSingle
  <2>2. Generation(r) \in Generations
    <3>1. r.groups \in Seq(Groups)
      BY DEF FinalResponses
    <3>2. r.groups[1] \in Groups
      BY <2>1, <3>1
    <3>3. r.groups[1].generations \in Seq(Generations)
      BY <3>2 DEF Groups
    <3> QED BY <2>1, <3>3 DEF Generation
  <2>3. InspectLlmOutput(r.output) = None <=>
          Settled(r.output) /\ (r.output.kind = "mapping" => r.output.actions = "absent")
    <3> DEFINE out == r.output
    <3>0. "tool_or_action_content" \in Reasons /\ "malformed_final_response" \in Reasons
      BY DEF Reasons
    <3>1. /\ out.kind \in {"absent", "mapping", "other"} /\ out.actions \in Channels
          /\ out.finish_reason \in Terminations /\ out.stop_reason \in Terminations
      BY DEF FinalResponses, Outputs
    <3> HIDE DEF out
    <3>2. CheckTermination(out, "malformed_final_response") = None <=> Settled(out)
      BY <3>0, <3>1, TerminationSettled
    <3>3. Carried(out.actions, "tool_or_action_content", "malformed_final_response") = None
            <=> out.actions = "absent"
      BY <3>0, <3>1, CarriedNothing
    <3>4. InspectLlmOutput(out) = None <=> Settled(out) /\ (out.kind = "mapping" => out.actions = "absent")
      BY <3>2, <3>3, FirstOfTwo DEF InspectLlmOutput
    <3> QED BY <3>4 DEF out
  <2> QED BY <1>2, <2>1, <2>2, <2>3, GenerationWhole, FirstOfTwo
          DEF ExtractionReason, Whole, CompleteText
<1> QED BY <1>1, <1>2

\* The text of a whole response is a text.
LEMMA TextTypes ==
  ASSUME NEW r \in FinalResponses, Whole(r, CompleteText(r))
  PROVE  CompleteText(r) \in Seq(Characters)
<1>1. r.groups \in Seq(Groups) /\ Len(r.groups) = 1
  BY DEF FinalResponses, Whole
<1>2. r.groups[1] \in Groups /\ Len(r.groups[1].generations) = 1
  BY <1>1 DEF Whole
<1>3. r.groups[1].generations \in Seq(Generations)
  BY <1>2 DEF Groups
<1>4. Generation(r) \in Generations
  BY <1>2, <1>3 DEF Generation
<1> QED BY <1>4 DEF CompleteText, Generations, Messages

-----------------------------------------------------------------------------
(* The handler.                                                            *)

Ends == {"end", "evaluate", "record"}

\* What the two properties about results rest on: callbacks are numbered as they are
\* delivered, and the number of an end whose result is not recorded is nowhere yet.
Numbers ==
  /\ results \in [Runs -> Nat] /\ last \in Nat /\ calls \in Nat
  /\ pc \in [Threads -> PCs] /\ id \in [Threads -> Ids]
  /\ call \in [Threads -> Nat] /\ told = [t \in Threads |-> told[t]]
  /\ resp \in [Threads -> DOMAIN Responses] /\ text \in [Threads -> Seq(Characters)]
  /\ before \in [Threads -> [kind : {None, "token", "end", "error"}, result : Nat, last : Nat]]

Bounded ==
  /\ last <= calls /\ \A k \in Runs : results[k] <= calls
  /\ \A t \in Threads : call[t] <= calls /\ before[t].result <= calls /\ before[t].last <= calls

Unrecorded ==
  \A t \in Threads : pc[t] \in Ends =>
    /\ call[t] # 0 /\ call[t] # last /\ \A k \in Runs : call[t] # results[k]
    /\ \A u \in Threads : call[t] # before[u].result /\ call[t] # before[u].last
    /\ \A u \in Threads : u # t /\ pc[u] \in Ends => call[u] # call[t]

Kinds ==
  \A t \in Threads :
    /\ pc[t] = "token" => before[t].kind = "token"
    /\ pc[t] = "error" => before[t].kind = "error"
    /\ pc[t] \in {"evaluate", "record"} => id[t] \in Runs

HandlerInv ==
  Numbers /\ Bounded /\ Unrecorded /\ Kinds /\ EvaluatedWhole /\ LastAgrees /\ NoStaleVerdict

\* No callback is under way and nothing is recorded when the handler is made.
LEMMA HandlerInitially == Init => HandlerInv
<1> SUFFICES ASSUME Init PROVE HandlerInv
  OBVIOUS
<1>1. (CHOOSE r \in DOMAIN Responses : TRUE) \in DOMAIN Responses
  BY HostAssumption DEF HostAssumption
<1>2. Numbers
  BY <1>1 DEF Init, Numbers, PCs, Ids, NothingBefore, None
<1>3. Bounded /\ Unrecorded /\ Kinds
  BY DEF Init, Bounded, Unrecorded, Kinds, Ends, NothingBefore
<1>4. EvaluatedWhole /\ LastAgrees /\ NoStaleVerdict
  BY DEF Init, EvaluatedWhole, LastAgrees, NoStaleVerdict
<1> QED BY <1>2, <1>3, <1>4 DEF HandlerInv

\* A callback is delivered: its number is greater than any recorded.
LEMMA BeginKeeps ==
  ASSUME HandlerInv, NEW t \in Threads, NEW k \in Ids, NEW step \in {"token", "end", "error"},
         Begin(t, k, step), resp' \in [Threads -> DOMAIN Responses],
         \A u \in Threads : u # t => resp'[u] = resp[u]
  PROVE  HandlerInv'
<1> USE DEF HandlerInv
<1>1. ResultOf(k) \in Nat /\ ResultOf(k) <= calls
  BY DEF ResultOf, Numbers, Bounded
<1>2. Numbers'
  <2>1. before' \in [Threads -> [kind : {None, "token", "end", "error"}, result : Nat, last : Nat]]
    BY <1>1 DEF Begin, Numbers
  <2>2. pc' \in [Threads -> PCs] /\ told' = [u \in Threads |-> told'[u]]
    BY DEF Begin, Numbers, PCs
  <2>3. call' \in [Threads -> Nat] /\ calls' \in Nat /\ id' \in [Threads -> Ids]
    BY DEF Begin, Numbers
  <2> QED BY <2>1, <2>2, <2>3 DEF Begin, Numbers, handlerVars
<1>3. /\ call' = [call EXCEPT ![t] = calls + 1] /\ calls' = calls + 1
      /\ before' = [before EXCEPT ![t] = [kind |-> step, result |-> ResultOf(k), last |-> last]]
      /\ pc'[t] \in {step, "done"} /\ \A u \in Threads : u # t => pc'[u] = pc[u]
      /\ UNCHANGED <<results, last, text>>
  BY DEF Begin, Numbers, handlerVars
<1>4. Bounded'
  BY <1>1, <1>3 DEF Numbers, Bounded
<1>5. Unrecorded'
  <2> SUFFICES ASSUME NEW u \in Threads, pc'[u] \in Ends
               PROVE  /\ call'[u] # 0 /\ call'[u] # last' /\ \A j \in Runs : call'[u] # results'[j]
                      /\ \A v \in Threads : call'[u] # before'[v].result /\ call'[u] # before'[v].last
                      /\ \A v \in Threads : v # u /\ pc'[v] \in Ends => call'[v] # call'[u]
    BY DEF Unrecorded
  <2>1. CASE u = t
    BY <2>1, <1>1, <1>3 DEF Numbers, Bounded, Unrecorded, Ends
  <2>2. CASE u # t
    <3>1. pc[u] \in Ends /\ call'[u] = call[u]
      BY <2>2, <1>3 DEF Numbers
    <3>2. call[u] # ResultOf(k)
      BY <3>1 DEF ResultOf, Unrecorded
    <3> QED BY <2>2, <3>1, <3>2, <1>3 DEF Numbers, Bounded, Unrecorded
  <2> QED BY <2>1, <2>2
<1>6. Kinds'
  BY <1>3 DEF Begin, Numbers, Kinds
<1>7. EvaluatedWhole'
  BY <1>3 DEF Numbers, EvaluatedWhole, Response
<1>8. LastAgrees'
  BY <1>3 DEF LastAgrees
<1>9. NoStaleVerdict'
  BY <1>3 DEF Begin, Numbers, NoStaleVerdict, FailsRun, ResultOf
<1> QED BY <1>2, <1>4, <1>5, <1>6, <1>7, <1>8, <1>9

\* A step within a callback leaves its number and arguments alone, and other threads.
Within(t) ==
  /\ UNCHANGED <<id, resp, call, before, calls>>
  /\ \A u \in Threads : u # t => pc'[u] = pc[u] /\ told'[u] = told[u] /\ text'[u] = text[u]

\* A step that records nothing keeps the invariant when its thread goes on as it should.
LEMMA QuietKeeps ==
  ASSUME HandlerInv, NEW t \in Threads, Within(t), Numbers', UNCHANGED <<results, last>>,
         pc'[t] \in Ends => pc[t] \in Ends,
         pc'[t] \notin {"token", "error", "end"},
         pc'[t] \in {"evaluate", "record"} => id[t] \in Runs /\ Whole(Response(t), text'[t]),
         pc'[t] # "done" \/ ~FailsRun(t)'
  PROVE  HandlerInv'
<1> USE DEF HandlerInv
<1>1. Bounded'
  BY DEF Within, Bounded
<1>2. Unrecorded'
  BY DEF Within, Unrecorded
<1>3. Kinds'
  BY DEF Within, Kinds
<1>4. EvaluatedWhole'
  <2> SUFFICES ASSUME NEW u \in Threads, pc'[u] \in {"evaluate", "record"}
               PROVE  Whole(Response(u)', text'[u])
    BY DEF EvaluatedWhole
  <2>1. Response(u)' = Response(u)
    BY DEF Response, Within
  <2> QED BY <2>1 DEF Within, EvaluatedWhole
<1>5. LastAgrees'
  BY DEF LastAgrees
<1>6. NoStaleVerdict'
  BY DEF Within, NoStaleVerdict, FailsRun, ResultOf
<1> QED BY <1>1, <1>2, <1>3, <1>4, <1>5, <1>6

\* A step that clears what can be read of the run, and the latest result.
LEMMA ClearKeeps ==
  ASSUME HandlerInv, NEW t \in Threads, Within(t), Numbers', pc'[t] = "done", last' = 0,
         results' = [k \in Runs |-> IF k = id[t] THEN 0 ELSE results[k]]
  PROVE  HandlerInv'
<1> USE DEF HandlerInv
<1>1. \A k \in Runs : results'[k] \in {0, results[k]}
  OBVIOUS
<1>2. Bounded'
  BY <1>1 DEF Within, Bounded, Numbers
<1>3. Unrecorded'
  BY <1>1 DEF Within, Unrecorded, Ends
<1>4. Kinds'
  BY DEF Within, Kinds
<1>5. EvaluatedWhole'
  <2> SUFFICES ASSUME NEW u \in Threads, pc'[u] \in {"evaluate", "record"}
               PROVE  Whole(Response(u)', text'[u])
    BY DEF EvaluatedWhole
  <2>1. Response(u)' = Response(u)
    BY DEF Response, Within
  <2> QED BY <2>1 DEF Within, EvaluatedWhole
<1>6. LastAgrees'
  BY DEF LastAgrees
<1>7. NoStaleVerdict'
  <2> SUFFICES ASSUME NEW u \in Threads, pc'[u] = "done", FailsRun(u)'
               PROVE  ResultOf(id[u])' # 0 => ResultOf(id[u])' # before'[u].result
    BY DEF NoStaleVerdict, Within
  <2>1. CASE u = t
    BY <2>1 DEF ResultOf, Within
  <2>2. CASE u # t
    <3>1. pc[u] = "done" /\ FailsRun(u) /\ id'[u] = id[u] /\ before' = before
      BY <2>2 DEF Within, FailsRun
    <3>2. ResultOf(id[u])' \in {0, ResultOf(id[u])}
      BY <1>1, <3>1 DEF ResultOf, Within
    <3> QED BY <3>1, <3>2 DEF NoStaleVerdict
  <2> QED BY <2>1, <2>2
<1> QED BY <1>2, <1>3, <1>4, <1>5, <1>6, <1>7

\* A token changes runs and tells the host, and no more.
LEMMA TokenKeeps ==
  ASSUME HandlerInv, NEW t \in Threads, Token(t)
  PROVE  HandlerInv'
<1> USE DEF HandlerInv
<1>1. \E what : Tell(t, what)
  BY DEF Token, TokenUnkeyed, TokenRefused, TokenStanding, TokenOverflow, TokenKept
<1>2. pc[t] = "token" /\ UNCHANGED <<open, results, last, args, text, calls>>
  BY DEF Token, TokenUnkeyed, TokenRefused, TokenStanding, TokenOverflow, TokenKept, Observe,
         handlerVars
<1>3. Numbers' /\ Within(t) /\ pc'[t] = "done" /\ before[t].kind = "token"
  BY <1>1, <1>2 DEF Tell, Numbers, Within, Kinds, args, PCs
<1> QED BY <1>2, <1>3, QuietKeeps DEF FailsRun, Within, Ends

\* An end without a usable run id fails.
LEMMA EndUnkeyedKeeps ==
  ASSUME HandlerInv, NEW t \in Threads, EndUnkeyed(t)
  PROVE  HandlerInv'
<1> USE DEF HandlerInv
<1>1. Numbers' /\ Within(t) /\ pc'[t] = "failed" /\ UNCHANGED <<results, last>>
  BY DEF EndUnkeyed, Fail, handlerVars, args, Numbers, Within, PCs
<1> QED BY <1>1, QuietKeeps DEF Ends

\* A usable run id is one of a run.
LEMMA KeyIsRun ==
  ASSUME NEW k \in Ids, KeyReason(k) = None
  PROVE  k \in Runs
BY FirstOfTwo DEF KeyReason, If, None, Ids

\* An end takes its run: it fails, or goes on with the whole text of its response.
LEMMA EndTakenKeeps ==
  ASSUME HandlerInv, NEW t \in Threads, EndTaken(t)
  PROVE  HandlerInv'
<1> USE DEF HandlerInv
<1> DEFINE reason == CompletionReason(runs[id[t]], Response(t))
<1>1. pc[t] = "end" /\ id[t] \in Runs /\ UNCHANGED <<open, results, last, args, calls>>
  BY KeyIsRun DEF EndTaken, Numbers
<1>2. Response(t) \in FinalResponses
  BY HostAssumption DEF HostAssumption, Response, Numbers
<1>3. CASE Fail(t, reason)
  <2>1. Numbers' /\ Within(t) /\ pc'[t] = "failed"
    <3> HIDE DEF reason
    <3> QED BY <1>1, <1>3 DEF Fail, args, Numbers, Within, PCs
  <2> QED BY <1>1, <2>1, QuietKeeps DEF Ends
<1>4. CASE /\ reason = None /\ pc' = [pc EXCEPT ![t] = "evaluate"]
           /\ text' = [text EXCEPT ![t] = CompleteText(Response(t))] /\ UNCHANGED told
  <2>1. ExtractionReason(Response(t)) = None
    BY <1>4, FirstOfThree DEF CompletionReason
  <2>2. Whole(Response(t), CompleteText(Response(t)))
    BY <1>2, <2>1, ExtractionExact
  <2>3. CompleteText(Response(t)) \in Seq(Characters)
    BY <1>2, <2>2, TextTypes
  <2> HIDE DEF reason
  <2>4. Numbers'
    BY <1>1, <1>4, <2>3 DEF args, Numbers, PCs
  <2>5. Within(t) /\ pc'[t] = "evaluate" /\ text'[t] = CompleteText(Response(t))
    BY <1>1, <1>4 DEF args, Numbers, Within
  <2> QED BY <1>1, <2>2, <2>4, <2>5, QuietKeeps DEF Ends
<1> QED BY <1>3, <1>4 DEF EndTaken

\* The use case answers or raises.
LEMMA EvaluateKeeps ==
  ASSUME HandlerInv, NEW t \in Threads, Evaluate(t)
  PROVE  HandlerInv'
<1> USE DEF HandlerInv
<1>1. /\ pc[t] = "evaluate" /\ pc'[t] \in {"record", "failed"} /\ text' = text
      /\ Numbers' /\ Within(t) /\ UNCHANGED <<results, last>>
  BY DEF Evaluate, handlerVars, args, Numbers, Within, PCs
<1>2. id[t] \in Runs /\ Whole(Response(t), text[t])
  BY <1>1 DEF Kinds, EvaluatedWhole
<1> QED BY <1>1, <1>2, QuietKeeps DEF Ends

\* A failure, an error of a run.
LEMMA FailureKeeps ==
  ASSUME HandlerInv, NEW t \in Threads, RecordFailure(t) \/ Error(t)
  PROVE  HandlerInv'
<1> USE DEF HandlerInv
<1>1. Within(t) /\ pc'[t] = "done" /\ last' = 0
      /\ results' = [k \in Runs |-> IF k = id[t] THEN 0 ELSE results[k]]
  BY DEF RecordFailure, Error, Tell, args, Numbers, Within
<1>2. Numbers'
  <2>1. results' \in [Runs -> Nat]
    BY <1>1 DEF Numbers
  <2> QED BY <1>1, <2>1 DEF RecordFailure, Error, Tell, args, Numbers, PCs
<1> QED BY <1>1, <1>2, ClearKeeps

\* An error without a hashable run id, which clears nothing.
LEMMA ErrorUnhashableKeeps ==
  ASSUME HandlerInv, NEW t \in Threads, ErrorUnhashable(t)
  PROVE  HandlerInv'
<1> USE DEF HandlerInv
<1>1. /\ pc[t] = "error" /\ pc'[t] = "done" /\ id[t] = Unhashable
      /\ Numbers' /\ Within(t) /\ UNCHANGED <<results, last>>
  BY DEF ErrorUnhashable, Tell, handlerVars, args, Numbers, Within, PCs
<1> QED BY <1>1, QuietKeeps DEF Ends, FailsRun, Within, Kinds

\* A result is recorded: its number is neither one that could be read before, nor one that
\* another end will record.
LEMMA RecordResultKeeps ==
  ASSUME HandlerInv, NEW t \in Threads, RecordResult(t)
  PROVE  HandlerInv'
<1> USE DEF HandlerInv
<1>1. /\ pc[t] = "record" /\ id[t] \in Runs /\ Within(t) /\ text' = text
      /\ results' = [results EXCEPT ![id[t]] = call[t]] /\ last' = call[t]
      /\ pc' = [pc EXCEPT ![t] = "done"] /\ told' = [told EXCEPT ![t] = "result"]
  BY DEF RecordResult, Tell, args, Numbers, Within, Kinds
<1>2. Numbers'
  BY <1>1 DEF Numbers, Within, PCs
<1>3. \A k \in Runs : results'[k] \in {results[k], call[t]}
  BY <1>1 DEF Numbers
<1>4. Bounded'
  BY <1>1, <1>3 DEF Bounded, Within, Numbers
<1>5. Unrecorded'
  <2> SUFFICES ASSUME NEW u \in Threads, pc'[u] \in Ends
               PROVE  /\ call[u] # 0 /\ call[u] # call[t] /\ \A j \in Runs : call[u] # results'[j]
                      /\ \A v \in Threads : call[u] # before[v].result /\ call[u] # before[v].last
                      /\ \A v \in Threads : v # u /\ pc'[v] \in Ends => call[v] # call[u]
    BY <1>1 DEF Unrecorded, Within
  <2>1. u # t /\ pc[u] \in Ends /\ pc[t] \in Ends
    BY <1>1 DEF Numbers, Ends
  <2>2. call[u] # call[t] /\ \A j \in Runs : call[u] # results'[j]
    BY <1>3, <2>1 DEF Unrecorded
  <2> QED BY <1>1, <2>1, <2>2 DEF Unrecorded, Numbers, Ends
<1>6. Kinds'
  BY <1>1 DEF Within, Kinds, Numbers
<1>7. EvaluatedWhole'
  <2> SUFFICES ASSUME NEW u \in Threads, pc'[u] \in {"evaluate", "record"}
               PROVE  Whole(Response(u)', text'[u])
    BY DEF EvaluatedWhole
  <2>1. Response(u)' = Response(u)
    BY <1>1 DEF Response, Within
  <2> QED BY <1>1, <2>1 DEF Numbers, EvaluatedWhole
<1>8. LastAgrees'
  BY <1>1 DEF LastAgrees, Numbers
<1>9. NoStaleVerdict'
  <2> SUFFICES ASSUME NEW u \in Threads, pc'[u] = "done", FailsRun(u)'
               PROVE  /\ ResultOf(id[u])' # 0 => ResultOf(id[u])' # before[u].result
                      /\ last' # before[u].last
    BY <1>1 DEF NoStaleVerdict, Within
  <2>1. u # t
    BY <1>1 DEF FailsRun, Numbers
  <2>2. pc[u] = "done" /\ FailsRun(u) /\ id'[u] = id[u]
    BY <1>1, <2>1 DEF FailsRun, Within
  <2>3. call[t] # before[u].result /\ call[t] # before[u].last
    BY <1>1 DEF Unrecorded, Ends
  <2>4. ResultOf(id[u])' \in {ResultOf(id[u]), call[t]}
    BY <1>3, <2>2 DEF ResultOf
  <2> QED BY <1>1, <2>2, <2>3, <2>4 DEF NoStaleVerdict
<1> QED BY <1>2, <1>4, <1>5, <1>6, <1>7, <1>8, <1>9

\* The host has its answer.
LEMMA ReturnKeeps ==
  ASSUME HandlerInv, NEW t \in Threads, Return(t)
  PROVE  HandlerInv'
<1> USE DEF HandlerInv
<1>1. (CHOOSE r \in DOMAIN Responses : TRUE) \in DOMAIN Responses
  BY HostAssumption DEF HostAssumption
<1>2. /\ pc' = [pc EXCEPT ![t] = "idle"] /\ UNCHANGED <<results, last, calls>>
      /\ \A u \in Threads : u # t => /\ pc'[u] = pc[u] /\ id'[u] = id[u] /\ resp'[u] = resp[u]
                                     /\ text'[u] = text[u] /\ call'[u] = call[u]
                                     /\ told'[u] = told[u] /\ before'[u] = before[u]
      /\ pc'[t] = "idle" /\ call'[t] = 0 /\ before'[t] = NothingBefore
  BY DEF Return, Numbers, handlerVars
<1>3. Numbers'
  <2>1. NothingBefore \in [kind : {None, "token", "end", "error"}, result : Nat, last : Nat]
    BY DEF NothingBefore
  <2>2. before' \in [Threads -> [kind : {None, "token", "end", "error"}, result : Nat, last : Nat]]
    BY <2>1 DEF Return, Numbers
  <2>3. resp' \in [Threads -> DOMAIN Responses] /\ text' \in [Threads -> Seq(Characters)]
    BY <1>1 DEF Return, Numbers
  <2>4. pc' \in [Threads -> PCs] /\ id' \in [Threads -> Ids] /\ call' \in [Threads -> Nat]
        /\ told' = [u \in Threads |-> told'[u]]
    BY DEF Return, Numbers, PCs, Ids
  <2> QED BY <1>2, <2>2, <2>3, <2>4 DEF Numbers
<1>4. Bounded'
  <2>1. before'[t].result = 0 /\ before'[t].last = 0 /\ call'[t] = 0 /\ 0 <= calls
    BY <1>2 DEF NothingBefore, Numbers
  <2> SUFFICES ASSUME NEW u \in Threads
               PROVE  call'[u] <= calls /\ before'[u].result <= calls /\ before'[u].last <= calls
    BY <1>2 DEF Bounded
  <2>2. CASE u = t
    BY <2>1, <2>2
  <2>3. CASE u # t
    BY <1>2, <2>3 DEF Bounded
  <2> QED BY <2>2, <2>3
<1>5. Unrecorded'
  BY <1>2 DEF Unrecorded, Ends, NothingBefore
<1>6. Kinds' /\ EvaluatedWhole' /\ LastAgrees'
  BY <1>2 DEF Kinds, EvaluatedWhole, Response, LastAgrees
<1>7. NoStaleVerdict'
  BY <1>2 DEF NoStaleVerdict, FailsRun, ResultOf
<1> QED BY <1>3, <1>4, <1>5, <1>6, <1>7

\* The container closes under the callbacks.
LEMMA CloseKeeps == HandlerInv /\ Close => HandlerInv'
BY DEF Close, handlerVars, args, HandlerInv, Numbers, Bounded, Unrecorded, Kinds, EvaluatedWhole,
       Response, LastAgrees, NoStaleVerdict, FailsRun, ResultOf

\* Delivering a token, an end or an error.
LEMMA DeliverKeeps ==
  ASSUME HandlerInv, NEW t \in Threads, Deliver(t)
  PROVE  HandlerInv'
<1>1. PICK k \in Ids, step \in {"token", "end", "error"} :
        Begin(t, k, step) /\ (resp' = resp \/ \E r \in DOMAIN Responses : resp' = [resp EXCEPT ![t] = r])
  BY DEF Deliver, OnToken, OnEnd, OnError
<1>2. resp' \in [Threads -> DOMAIN Responses] /\ \A u \in Threads : u # t => resp'[u] = resp[u]
  BY <1>1 DEF HandlerInv, Numbers
<1> QED BY <1>1, <1>2, BeginKeeps

\* Every step keeps the invariant.
LEMMA HandlerStep == HandlerInv /\ [Next]_vars => HandlerInv'
<1> SUFFICES ASSUME HandlerInv, [Next]_vars PROVE HandlerInv'
  OBVIOUS
<1>1. CASE UNCHANGED vars
  BY <1>1 DEF vars, handlerVars, args, HandlerInv, Numbers, Bounded, Unrecorded, Kinds,
              EvaluatedWhole, Response, LastAgrees, NoStaleVerdict, FailsRun, ResultOf
<1>2. CASE Close
  BY <1>2, CloseKeeps
<1>3. CASE \E t \in Threads : Deliver(t)
  BY <1>3, DeliverKeeps
<1>4. CASE \E t \in Threads : Step(t)
  BY <1>4, TokenKeeps, EndUnkeyedKeeps, EndTakenKeeps, EvaluateKeeps, RecordResultKeeps,
     FailureKeeps, ErrorUnhashableKeeps, ReturnKeeps DEF Step, End
<1> QED BY <1>1, <1>2, <1>3, <1>4 DEF Next

\* The invariant holds throughout.
LEMMA HandlerAlways == Spec => []HandlerInv
BY HandlerInitially, HandlerStep, PTL DEF Spec

\* What is evaluated is the whole of the final response (on_llm_end).
THEOREM WholeTextEvaluated == Spec => []EvaluatedWhole
<1>1. HandlerInv => EvaluatedWhole
  BY DEF HandlerInv
<1> QED BY <1>1, HandlerAlways, PTL

\* last_result is always also some run's result (_record_result, on_llm_error).
THEOREM LatestIsSomeRuns == Spec => []LastAgrees
<1>1. HandlerInv => LastAgrees
  BY DEF HandlerInv
<1> QED BY <1>1, HandlerAlways, PTL

\* A callback that fails a run leaves no verdict that was there when it was delivered,
\* whatever other threads complete meanwhile (_best_effort_record_failure, on_llm_error).
THEOREM FailureLeavesNoVerdict == Spec => []NoStaleVerdict
<1>1. HandlerInv => NoStaleVerdict
  BY DEF HandlerInv
<1> QED BY <1>1, HandlerAlways, PTL

-----------------------------------------------------------------------------
(* A stream is the concatenation of its tokens, and its first fault is the *)
(* first there is: both change as the code changes a run's state.          *)

\* The tokens of a stream.
Tokens(s) == [i \in DOMAIN s |-> Observations[s[i]].token]
Streams == Seq(DOMAIN Observations)

\* Every observation is one the host may deliver.
LEMMA ObservationTypes ==
  ASSUME NEW o \in DOMAIN Observations
  PROVE  Observations[o] \in StreamObservations /\ Observations[o].token \in Seq(Characters)
BY HostAssumption DEF HostAssumption, StreamObservations

\* One more observation is one more token.
LEMMA TokensAppend ==
  ASSUME NEW s \in Streams, NEW o \in DOMAIN Observations
  PROVE  /\ Tokens(s) \in Seq(Seq(Characters))
         /\ Tokens(Append(s, o)) = Append(Tokens(s), Observations[o].token)
<1>1. PICK D, B : D = DOMAIN Observations /\ B = Seq(Characters)
  OBVIOUS
<1>2. PICK g \in [D -> B] : \A c \in D : g[c] = Observations[c].token
  <2>1. [c \in D |-> Observations[c].token] \in [D -> B]
    BY <1>1, ObservationTypes
  <2> QED BY <2>1
<1>3. ASSUME NEW u \in Streams PROVE Tokens(u) = Mapped(g, u)
  <2>1. \A i \in DOMAIN u : u[i] \in D
    BY <1>1, LenProperties, ElementOfSeq DEF Streams
  <2> QED BY <1>2, <2>1 DEF Tokens, Mapped
<1>4. s \in Seq(D) /\ o \in D /\ Append(s, o) \in Streams
  BY <1>1, AppendProperties DEF Streams
<1>5. Mapped(g, s) \in Seq(B) /\ Mapped(g, Append(s, o)) = Append(Mapped(g, s), g[o])
  <2>1. g \in [D -> B] /\ s \in Seq(D) /\ o \in D
    BY <1>2, <1>4
  <2>2. Mapped(g, s) \in Seq(B)
    BY <2>1, MappedTypes
  <2>3. Mapped(g, Append(s, o)) = Append(Mapped(g, s), g[o])
    BY <2>1, MappedAppend, Zenon
  <2> QED BY <2>2, <2>3
<1> QED BY <1>1, <1>2, <1>3, <1>4, <1>5

\* A token appends its text to what has been streamed.
LEMMA StreamedAppend ==
  ASSUME NEW s \in Streams, NEW o \in DOMAIN Observations
  PROVE  /\ Streamed(s) \in Seq(Characters)
         /\ Streamed(Append(s, o)) = Streamed(s) \o Observations[o].token
<1>1. \A u : Streamed(u) = FlattenSeq(Tokens(u))
  BY Zenon DEF Streamed, Tokens
<1>2. Observations[o].token \in Seq(Characters)
  BY ObservationTypes
<1>3. /\ FlattenSeq(Tokens(s)) \in Seq(Characters)
      /\ FlattenSeq(Append(Tokens(s), Observations[o].token))
           = FlattenSeq(Tokens(s)) \o Observations[o].token
  BY <1>2, TokensAppend, FlattenAppend
<1> QED BY <1>1, <1>3, TokensAppend

\* Nothing has been streamed by no token.
LEMMA StreamedNothing == Streamed(<<>>) = <<>>
BY DEF Streamed, FlattenSeq

\* An observation is inspected without a reason exactly when it is plain text.
LEMMA PlainPasses ==
  ASSUME NEW o \in StreamObservations
  PROVE  InspectStreamObservation(o) = None <=> Plain(o)
<1>0. /\ o.textual \in BOOLEAN /\ o.chunk \in {"none", "message", "text", "other"}
      /\ o.message \in Messages /\ o.info \in Metadata
  BY DEF StreamObservations
<1>1. /\ "unsupported_stream_chunk" \in Reasons /\ "non_text_stream_token" # None
      /\ "unsupported_stream_chunk" # None /\ "stream_token_chunk_mismatch" # None
  BY DEF Reasons, None
<1>2. CheckTermination(o.info, "unsupported_stream_chunk") = None <=> Settled(o.info)
  BY <1>0, <1>1, TerminationSettled DEF Metadata
<1>3. InspectMessage(o.message, "unsupported_stream_chunk") = None
        <=> OnlyText(o.message, o.message.content)
  BY <1>0, <1>1, MessageOnlyText
<1>4. If(~o.textual, "non_text_stream_token") = None <=> o.textual
  BY <1>0, <1>1, Zenon DEF If
<1>5. If(o.chunk = "other", "unsupported_stream_chunk") = None <=> o.chunk # "other"
  BY <1>1, Zenon DEF If
<1>6. If(o.chunk # "other" /\ ChunkText(o) # o.token, "stream_token_chunk_mismatch") = None
        <=> (o.chunk # "other" => ChunkText(o) = o.token)
  BY <1>1, Zenon DEF If
<1>7. InspectChunk(o) = None <=>
        /\ If(o.chunk = "other", "unsupported_stream_chunk") = None
        /\ (IF o.chunk = "message" THEN InspectMessage(o.message, "unsupported_stream_chunk")
            ELSE None) = None
        /\ If(o.chunk # "other" /\ ChunkText(o) # o.token, "stream_token_chunk_mismatch") = None
        /\ CheckTermination(o.info, "unsupported_stream_chunk") = None
  BY FirstOfFour DEF InspectChunk
<1>8. InspectStreamObservation(o) = None <=>
        /\ If(~o.textual, "non_text_stream_token") = None
        /\ (IF o.chunk = "none" THEN None ELSE InspectChunk(o)) = None
  BY FirstOfTwo DEF InspectStreamObservation
<1>9. CASE o.chunk = "none"
  BY <1>9, <1>4, <1>8 DEF Plain
<1>10. CASE o.chunk = "other"
  BY <1>10, <1>1, <1>5, <1>7, <1>8 DEF Plain
<1>11. CASE o.chunk = "text"
  BY <1>11, <1>2, <1>4, <1>5, <1>6, <1>7, <1>8 DEF Plain, ChunkText
<1>12. CASE o.chunk = "message"
  BY <1>12, <1>2, <1>3, <1>4, <1>5, <1>6, <1>7, <1>8 DEF Plain, ChunkText, OnlyText
<1> QED BY <1>0, <1>9, <1>10, <1>11, <1>12

\* The observations before the last are the prefix they were.
LEMMA PrefixAppend ==
  ASSUME NEW s \in Streams, NEW o \in DOMAIN Observations, NEW i \in 1..Len(s)
  PROVE  SubSeq(Append(s, o), 1, i) = SubSeq(s, 1, i)
<1> DEFINE a == Append(s, o)
<1>1. /\ a \in Streams /\ Len(a) = Len(s) + 1 /\ Len(s) \in Nat
      /\ \A j \in 1..Len(s) : a[j] = s[j]
  BY AppendProperties, LenProperties DEF Streams
<1> HIDE DEF a
<1>2. SubSeq(a, 1, i) = [j \in 1..i |-> a[j]] /\ SubSeq(s, 1, i) = [j \in 1..i |-> s[j]]
  BY <1>1 DEF Streams
<1>3. \A j \in 1..i : a[j] = s[j]
  BY <1>1
<1> QED BY <1>2, <1>3 DEF a

\* The whole of a sequence is a prefix of it.
LEMMA WholePrefix ==
  ASSUME NEW s \in Streams
  PROVE  SubSeq(s, 1, Len(s)) = s
BY SubSeqFull DEF Streams

\* The observation that makes a stream faulty, or exceeds the buffer.
FaultyEnd(s, o) == ~Plain(Observations[o]) \/ Len(Streamed(Append(s, o))) > MaxBuffer

\* One more observation adds at most itself to the faults.
LEMMA FaultsAppend ==
  ASSUME NEW s \in Streams, NEW o \in DOMAIN Observations
  PROVE  /\ Faults(s) \subseteq 1..Len(s)
         /\ Faults(Append(s, o)) = Faults(s) \cup (IF FaultyEnd(s, o) THEN {Len(s) + 1} ELSE {})
<1> DEFINE a == Append(s, o)
           Fault(u, i) == \/ ~Plain(Observations[u[i]])
                          \/ Len(Streamed(SubSeq(u, 1, i))) > MaxBuffer
<1>1. /\ a \in Streams /\ Len(a) = Len(s) + 1 /\ Len(s) \in Nat /\ a[Len(s) + 1] = o
      /\ DOMAIN s = 1..Len(s) /\ DOMAIN a = 1..Len(a) /\ \A i \in 1..Len(s) : a[i] = s[i]
  BY AppendProperties, LenProperties DEF Streams
<1>2. \A i \in 1..Len(s) : SubSeq(a, 1, i) = SubSeq(s, 1, i)
  BY PrefixAppend
<1>3. SubSeq(a, 1, Len(a)) = a
  <2>1. \A u \in Streams : SubSeq(u, 1, Len(u)) = u
    BY WholePrefix
  <2> QED BY <1>1, <2>1
<1>4. FaultyEnd(s, o) <=> ~Plain(Observations[o]) \/ Len(Streamed(a)) > MaxBuffer
  BY DEF FaultyEnd
<1> HIDE DEF a
<1>5. \A u : Faults(u) = {i \in DOMAIN u : Fault(u, i)}
  BY DEF Faults
<1>6. \A i \in 1..Len(s) : Fault(a, i) <=> Fault(s, i)
  BY <1>1, <1>2
<1>7. Fault(a, Len(s) + 1) <=> FaultyEnd(s, o)
  BY <1>1, <1>3, <1>4
<1> HIDE DEF Fault
<1>8. Faults(s) \subseteq 1..Len(s)
  BY <1>1, <1>5
<1>9. \A i \in DOMAIN a : i \in 1..Len(s) \/ i = Len(s) + 1
  BY <1>1
<1>10. \A i \in 1..Len(s) : i \in DOMAIN a
  BY <1>1
<1>11. Len(s) + 1 \in DOMAIN a
  BY <1>1
<1>12. Faults(a) = Faults(s) \cup (IF FaultyEnd(s, o) THEN {Len(s) + 1} ELSE {})
  BY <1>1, <1>5, <1>6, <1>7, <1>9, <1>10, <1>11
<1> QED BY <1>8, <1>12 DEF a

\* The reason of the first fault there is.
ReasonAt(s, i) ==
  IF Plain(Observations[s[i]]) THEN "stream_buffer_exceeded" ELSE InspectStreamObservation(Observations[s[i]])

\* The least fault is the one whose reason a stream is refused for.
LEMMA FirstFault ==
  ASSUME NEW s \in Streams, NEW i \in Faults(s), \A j \in Faults(s) : i <= j
  PROVE  FaultReason(s) = ReasonAt(s, i) /\ FaultReason(s) # None
<1> DEFINE c == CHOOSE x \in Faults(s) : \A j \in Faults(s) : x <= j
<1>1. FaultReason(s) = ReasonAt(s, c)
  BY DEF FaultReason, ReasonAt
<1>2. c \in Faults(s) /\ \A j \in Faults(s) : c <= j
  <2> HIDE DEF c
  <2>1. \E x \in Faults(s) : \A j \in Faults(s) : x <= j
    OBVIOUS
  <2> QED BY <2>1 DEF c
<1> HIDE DEF c
<1>3. i \in Nat /\ c \in Nat /\ i \in DOMAIN s
  <2>1. Faults(s) \subseteq DOMAIN s
    BY DEF Faults
  <2>2. DOMAIN s \subseteq Nat
    BY LenProperties DEF Streams
  <2> QED BY <1>2, <2>1, <2>2
<1>4. c = i
  BY <1>2, <1>3
<1>5. s[i] \in DOMAIN Observations
  BY <1>3, LenProperties, ElementOfSeq DEF Streams
<1>6. ReasonAt(s, i) # None
  <2>1. InspectStreamObservation(Observations[s[i]]) = None <=> Plain(Observations[s[i]])
    BY <1>5, ObservationTypes, PlainPasses
  <2>2. "stream_buffer_exceeded" # None
    BY DEF None
  <2> QED BY <2>1, <2>2 DEF ReasonAt
<1> QED BY <1>1, <1>4, <1>6

\* A faulty stream has a first fault.
LEMMA SomeFault ==
  ASSUME NEW s \in Streams, Faults(s) # {}
  PROVE  \E i \in Faults(s) : \A j \in Faults(s) : i <= j
<1>1. Faults(s) \in SUBSET Nat
  BY LenProperties DEF Streams, Faults
<1> QED BY <1>1, LeastNumber

\* A stream that has a fault keeps its reason, whatever follows.
LEMMA FaultStays ==
  ASSUME NEW s \in Streams, NEW o \in DOMAIN Observations, Faults(s) # {}
  PROVE  Faults(Append(s, o)) # {} /\ FaultReason(Append(s, o)) = FaultReason(s)
<1> DEFINE a == Append(s, o)
<1>1. PICK i \in Faults(s) : \A j \in Faults(s) : i <= j
  BY SomeFault
<1>2. /\ a \in Streams /\ Len(s) \in Nat /\ \A j \in 1..Len(s) : a[j] = s[j]
  BY AppendProperties, LenProperties DEF Streams
<1>3. Faults(a) \subseteq Faults(s) \cup {Len(s) + 1} /\ Faults(s) \subseteq Faults(a)
      /\ Faults(s) \subseteq 1..Len(s)
  BY FaultsAppend
<1> HIDE DEF a
<1>4. i \in Faults(a) /\ \A j \in Faults(a) : i <= j
  BY <1>1, <1>2, <1>3
<1>5. a[i] = s[i]
  BY <1>2, <1>3
<1>6. FaultReason(a) = ReasonAt(a, i) /\ FaultReason(s) = ReasonAt(s, i)
  BY <1>1, <1>2, <1>4, FirstFault
<1> QED BY <1>4, <1>5, <1>6 DEF a, ReasonAt

\* A stream without a fault has one after its first faulty observation, and its reason is
\* that observation's.
LEMMA FaultBegins ==
  ASSUME NEW s \in Streams, NEW o \in DOMAIN Observations, Faults(s) = {}, FaultyEnd(s, o)
  PROVE  /\ Faults(Append(s, o)) # {}
         /\ FaultReason(Append(s, o)) = IF Plain(Observations[o]) THEN "stream_buffer_exceeded"
                                        ELSE InspectStreamObservation(Observations[o])
<1> DEFINE a == Append(s, o)
           size == Len(s) + 1
<1>1. a \in Streams /\ Len(s) \in Nat /\ a[size] = o
  BY AppendProperties, LenProperties DEF Streams
<1>2. Faults(a) = {size}
  BY FaultsAppend
<1> HIDE DEF a, size
<1>3. size \in Faults(a) /\ \A j \in Faults(a) : size <= j
  <2>1. size \in Nat
    BY <1>1 DEF size
  <2> QED BY <1>2, <2>1
<1>4. FaultReason(a) = ReasonAt(a, size)
  BY <1>1, <1>3, FirstFault
<1> QED BY <1>1, <1>2, <1>4 DEF a, ReasonAt

\* The empty stream has no fault.
LEMMA NoFault == Faults(<<>>) = {}
BY DEF Faults

-----------------------------------------------------------------------------
(* A run's state is what its stream makes of it, and binds its end.        *)

\* What a stream makes of a run.
Made(s) ==
  IF s = <<>> THEN NoRun
  ELSE IF Faults(s) = {}
  THEN [active |-> TRUE, refused |-> None, text |-> Streamed(s), length |-> Len(Streamed(s))]
  ELSE [NewRun EXCEPT !.refused = FaultReason(s)]

\* The sequences of observations are of observations, a callback has taken a run only when
\* it is an end, and what it took binds it.
StreamInv ==
  /\ runs = [k \in Runs |-> runs[k]]
  /\ obs \in [Threads -> DOMAIN Observations]
  /\ seen \in [Runs -> Streams] /\ saw \in [Threads -> Streams]
  /\ StateOfStream
  /\ \A t \in Threads : pc[t] \in {"idle", "token", "end", "error"} => saw[t] = <<>>
  /\ StreamBinds

\* A run's state is the one its stream makes.
LEMMA StateIsMade == StateOfStream <=> \A k \in Runs : runs[k] = Made(seen[k])
BY Zenon DEF StateOfStream, Made

\* It is refused exactly when its stream has a fault, for the reason of the first.
LEMMA MadeOf ==
  ASSUME NEW s \in Streams
  PROVE  /\ Faults(s) # {} => /\ Made(s) = [NewRun EXCEPT !.refused = FaultReason(s)]
                               /\ FaultReason(s) # None
         /\ Made(<<>>) = NoRun
         /\ s # <<>> /\ Faults(s) = {} =>
              Made(s) = [active |-> TRUE, refused |-> None, text |-> Streamed(s),
                         length |-> Len(Streamed(s))]
<1>1. Faults(s) # {} => s # <<>>
  BY NoFault
<1>2. ASSUME Faults(s) # {} PROVE FaultReason(s) # None
  BY <1>2, SomeFault, FirstFault
<1> QED BY <1>1, <1>2, Zenon DEF Made

\* What State(k) of a run is: made of its stream, and active.
StateMade(s) == IF s = <<>> THEN NewRun ELSE Made(s)

\* The state of a run, by what its stream was.
LEMMA StateIs ==
  ASSUME StateOfStream, NEW k \in Runs, seen[k] \in Streams
  PROVE  /\ State(k) = StateMade(seen[k])
         /\ State(k).refused = (IF Faults(seen[k]) = {} THEN None ELSE FaultReason(seen[k]))
         /\ Faults(seen[k]) = {} => /\ State(k).text = Streamed(seen[k])
                                    /\ State(k).length = Len(Streamed(seen[k]))
                                    /\ State(k).active = TRUE
                                    /\ State(k) = [active |-> TRUE, refused |-> None,
                                                   text |-> Streamed(seen[k]),
                                                   length |-> Len(Streamed(seen[k]))]
<1> DEFINE s == seen[k]
<1>1. runs[k] = Made(s)
  BY StateIsMade
<1>2. CASE s = <<>>
  <2>1. runs[k] = NoRun /\ Faults(s) = {} /\ Streamed(s) = <<>>
    BY <1>1, <1>2, MadeOf, NoFault, StreamedNothing
  <2>2. State(k) = NewRun
    BY <2>1 DEF State, NoRun
  <2> QED BY <1>2, <2>1, <2>2 DEF StateMade, NewRun, NoRun
<1>3. CASE s # <<>> /\ Faults(s) = {}
  <2>1. runs[k] = [active |-> TRUE, refused |-> None, text |-> Streamed(s), length |-> Len(Streamed(s))]
    BY <1>1, <1>3, MadeOf
  <2> QED BY <1>1, <1>3, <2>1 DEF State, StateMade
<1>4. CASE Faults(s) # {}
  <2>1. runs[k] = [NewRun EXCEPT !.refused = FaultReason(s)] /\ s # <<>>
    BY <1>1, <1>4, MadeOf, NoFault
  <2>2. runs[k].active /\ runs[k].refused = FaultReason(s)
    BY <2>1 DEF NewRun, NoRun
  <2> QED BY <1>1, <1>4, <2>1, <2>2 DEF State, StateMade
<1> QED BY <1>2, <1>3, <1>4

\* What one more observation makes of a run.
LEMMA MadeNext ==
  ASSUME NEW s \in Streams, NEW o \in DOMAIN Observations
  PROVE  LET token == Observations[o].token
             a == Append(s, o)
         IN  /\ a \in Streams
             /\ FaultyEnd(s, o) <=> \/ InspectStreamObservation(Observations[o]) # None
                                    \/ Len(Streamed(s)) + Len(token) > MaxBuffer
             /\ Faults(s) # {} => Made(a) = [NewRun EXCEPT !.refused = FaultReason(s)]
             /\ Faults(s) = {} /\ FaultyEnd(s, o) =>
                  Made(a) = [NewRun EXCEPT !.refused =
                               IF InspectStreamObservation(Observations[o]) = None
                               THEN "stream_buffer_exceeded"
                               ELSE InspectStreamObservation(Observations[o])]
             /\ Faults(s) = {} /\ ~FaultyEnd(s, o) =>
                  Made(a) = [active |-> TRUE, refused |-> None, text |-> Streamed(s) \o token,
                             length |-> Len(Streamed(s)) + Len(token)]
<1> DEFINE token == Observations[o].token
           a == Append(s, o)
           reason == InspectStreamObservation(Observations[o])
<1>1. a \in Streams /\ a # <<>>
  BY AppendProperties DEF Streams
<1>2. Streamed(s) \in Seq(Characters) /\ token \in Seq(Characters) /\ Streamed(a) = Streamed(s) \o token
  BY StreamedAppend, ObservationTypes
<1>3. Len(Streamed(a)) = Len(Streamed(s)) + Len(token)
  <2> HIDE DEF a, token
  <2> QED BY <1>2, ConcatProperties
<1>4. reason = None <=> Plain(Observations[o])
  BY ObservationTypes, PlainPasses
<1>5. FaultyEnd(s, o) <=> reason # None \/ Len(Streamed(s)) + Len(token) > MaxBuffer
  BY <1>3, <1>4 DEF FaultyEnd
<1>6. Faults(a) = Faults(s) \cup (IF FaultyEnd(s, o) THEN {Len(s) + 1} ELSE {})
  BY FaultsAppend
<1>7. Faults(s) # {} => Faults(a) # {} /\ FaultReason(a) = FaultReason(s)
  BY FaultStays
<1>8. Faults(s) = {} /\ FaultyEnd(s, o) =>
        Faults(a) # {} /\ FaultReason(a) = IF reason = None THEN "stream_buffer_exceeded" ELSE reason
  BY <1>4, FaultBegins
<1> HIDE DEF a, token, reason
<1>9. /\ Faults(a) # {} => Made(a) = [NewRun EXCEPT !.refused = FaultReason(a)]
      /\ Faults(a) = {} => Made(a) = [active |-> TRUE, refused |-> None, text |-> Streamed(a),
                                      length |-> Len(Streamed(a))]
  BY <1>1, MadeOf
<1>10. Faults(s) = {} /\ ~FaultyEnd(s, o) =>
         Made(a) = [active |-> TRUE, refused |-> None, text |-> Streamed(s) \o token,
                    length |-> Len(Streamed(s)) + Len(token)]
  BY <1>2, <1>3, <1>6, <1>9
<1> QED BY <1>1, <1>5, <1>7, <1>8, <1>9, <1>10 DEF a, token, reason

\* A token makes of its run what the stream with it makes.
LEMMA TokenMakes ==
  ASSUME StreamInv, HandlerInv, NEW t \in Threads, Observe(t),
         TokenRefused(t) \/ TokenStanding(t) \/ TokenOverflow(t) \/ TokenKept(t)
  PROVE  runs' = [runs EXCEPT ![id[t]] = Made(Append(seen[id[t]], obs[t]))]
<1> DEFINE k == id[t]
           o == obs[t]
           x == seen[k]
           token == Observations[o].token
           reason == InspectStreamObservation(Observations[o])
           made == Made(Append(x, o))
<1>1. k \in Runs /\ o \in DOMAIN Observations /\ x \in Streams
  <2>1. k \in Ids /\ KeyReason(k) = None
    BY DEF Observe, HandlerInv, Numbers
  <2>2. k \in Runs
    BY <2>1, KeyIsRun
  <2> QED BY <2>2 DEF StreamInv
<1>2. /\ State(k).refused = (IF Faults(x) = {} THEN None ELSE FaultReason(x))
      /\ Faults(x) = {} => State(k) = [active |-> TRUE, refused |-> None, text |-> Streamed(x),
                                      length |-> Len(Streamed(x))]
      /\ runs[k] = Made(x)
  BY <1>1, StateIs, StateIsMade DEF StreamInv
<1>3. Faults(x) # {} => Made(x) = [NewRun EXCEPT !.refused = FaultReason(x)] /\ FaultReason(x) # None
  BY <1>1, MadeOf
<1>4. /\ FaultyEnd(x, o) <=> reason # None \/ Len(Streamed(x)) + Len(token) > MaxBuffer
      /\ Faults(x) # {} => made = [NewRun EXCEPT !.refused = FaultReason(x)]
      /\ Faults(x) = {} /\ FaultyEnd(x, o) =>
           made = [NewRun EXCEPT !.refused = IF reason = None THEN "stream_buffer_exceeded" ELSE reason]
      /\ Faults(x) = {} /\ ~FaultyEnd(x, o) =>
           made = [active |-> TRUE, refused |-> None, text |-> Streamed(x) \o token,
                   length |-> Len(Streamed(x)) + Len(token)]
  BY <1>1, MadeNext
<1>5. /\ TokenRefused(t) => reason # None /\ runs' = [runs EXCEPT ![k] = Refuse(k, reason)]
      /\ TokenStanding(t) => State(k).refused # None /\ runs' = runs
      /\ TokenOverflow(t) =>
           /\ reason = None /\ State(k).refused = None
           /\ ~(State(k).length + Len(token) <= MaxBuffer)
           /\ runs' = [runs EXCEPT ![k] = Refuse(k, "stream_buffer_exceeded")]
      /\ TokenKept(t) =>
           /\ reason = None /\ State(k).refused = None
           /\ State(k).length + Len(token) <= MaxBuffer
           /\ runs' = [runs EXCEPT ![k] = [State(k) EXCEPT !.text = @ \o token,
                                                          !.length = @ + Len(token)]]
  BY Zenon DEF TokenRefused, TokenStanding, TokenOverflow, TokenKept, Observed, Fits
<1>6. runs = [j \in Runs |-> runs[j]]
  BY DEF StreamInv
<1>7. Len(Streamed(x)) \in Nat /\ Len(token) \in Nat /\ MaxBuffer \in Nat
  BY <1>1, StreamedAppend, ObservationTypes, LenProperties, HandlerAssumption DEF HandlerAssumption
<1> HIDE DEF k, o, x, token, reason, made
<1>8. CASE TokenRefused(t)
  <2>1. Refuse(k, reason) = made
    BY <1>2, <1>3, <1>4, <1>5, <1>8 DEF Refuse
  <2> QED BY <1>5, <1>8, <2>1 DEF k, o, x, made
<1>9. CASE TokenStanding(t)
  <2>1. runs[k] = made /\ runs' = runs
    BY <1>2, <1>3, <1>4, <1>5, <1>9
  <2>2. runs = [runs EXCEPT ![k] = made]
    BY <1>1, <1>6, <2>1
  <2> QED BY <2>1, <2>2 DEF k, o, x, made
<1>10. CASE TokenOverflow(t)
  <2>1. Faults(x) = {}
    BY <1>2, <1>3, <1>5, <1>10
  <2>2. State(k).length = Len(Streamed(x))
    BY <1>2, <2>1
  <2>3. FaultyEnd(x, o) /\ reason = None
    BY <1>4, <1>5, <1>7, <1>10, <2>2
  <2>4. Refuse(k, "stream_buffer_exceeded") = made
    BY <1>2, <1>4, <2>1, <2>3 DEF Refuse
  <2> QED BY <1>5, <1>10, <2>4 DEF k, o, x, made
<1>11. CASE TokenKept(t)
  <2>1. Faults(x) = {}
    BY <1>2, <1>3, <1>5, <1>11
  <2>2. State(k) = [active |-> TRUE, refused |-> None, text |-> Streamed(x),
                    length |-> Len(Streamed(x))]
    BY <1>2, <2>1
  <2>3. ~FaultyEnd(x, o)
    BY <1>4, <1>5, <1>7, <1>11, <2>2
  <2>4. [State(k) EXCEPT !.text = @ \o token, !.length = @ + Len(token)] = made
    <3>1. made = [active |-> TRUE, refused |-> None, text |-> Streamed(x) \o token,
                  length |-> Len(Streamed(x)) + Len(token)]
      BY <1>4, <2>1, <2>3
    <3> DEFINE r == [State(k) EXCEPT !.text = @ \o token, !.length = @ + Len(token)]
               q == [active |-> TRUE, refused |-> None, text |-> Streamed(x) \o token,
                     length |-> Len(Streamed(x)) + Len(token)]
    <3>2. DOMAIN State(k) = {"active", "refused", "text", "length"}
      BY <2>2
    <3>3. r.active = q.active /\ r.refused = q.refused /\ r.text = q.text /\ r.length = q.length
      BY <2>2, <3>2
    <3>4. r = [i \in {"active", "refused", "text", "length"} |-> r[i]]
      BY <3>2
    <3>5. q = [i \in {"active", "refused", "text", "length"} |-> q[i]]
      OBVIOUS
    <3>6. made = q
      BY <3>1
    <3> HIDE DEF r, q
    <3>7. r = q
      BY <3>3, <3>4, <3>5
    <3> QED BY <3>6, <3>7 DEF r
  <2> QED BY <1>5, <1>11, <2>4 DEF k, o, x, made
<1> QED BY <1>8, <1>9, <1>10, <1>11

\* A token keeps the invariant.
LEMMA TokenStreams ==
  ASSUME StreamInv, HandlerInv, NEW t \in Threads, Token(t)
  PROVE  StreamInv'
<1>1. /\ pc[t] = "token" /\ pc' = [pc EXCEPT ![t] = "done"] /\ UNCHANGED <<saw, text, obs>>
      /\ \E what : told' = [told EXCEPT ![t] = what]
  BY DEF Token, TokenUnkeyed, TokenRefused, TokenStanding, TokenOverflow, TokenKept, Observe, Tell, args
<1>2. saw[t] = <<>>
  BY <1>1 DEF StreamInv
<1>3. \A u \in Threads : /\ u # t => (pc'[u] = pc[u] /\ told'[u] = told[u])
                          /\ (u = t => pc'[u] = "done")
  BY <1>1 DEF HandlerInv, Numbers
<1>4. StreamBinds' /\ \A u \in Threads : pc'[u] \in {"idle", "token", "end", "error"} => saw'[u] = <<>>
  <2> USE DEF StreamInv, StreamBinds
  <2>1. ASSUME NEW u \in Threads, u # t
        PROVE  /\ saw'[u] # <<>> => /\ pc'[u] \in {"evaluate", "record"} =>
                                          Faults(saw'[u]) = {} /\ Streamed(saw'[u]) = text'[u]
                                    /\ Faults(saw'[u]) # {} => told'[u] = FaultReason(saw'[u])
               /\ pc'[u] \in {"idle", "token", "end", "error"} => saw'[u] = <<>>
    BY <1>1, <1>3, <2>1
  <2>2. saw'[t] = <<>>
    BY <1>1, <1>2
  <2> QED BY <2>1, <2>2
<1>5. CASE TokenUnkeyed(t)
  <2>1. runs' = runs /\ seen' = seen
    BY <1>5 DEF TokenUnkeyed, handlerVars
  <2> QED BY <1>1, <1>4, <2>1 DEF StreamInv, StateOfStream
<1>6. CASE TokenRefused(t) \/ TokenStanding(t) \/ TokenOverflow(t) \/ TokenKept(t)
  <2> DEFINE k == id[t]
             a == Append(seen[k], obs[t])
  <2>1. Observe(t)
    BY <1>6 DEF TokenRefused, TokenStanding, TokenOverflow, TokenKept
  <2>2. k \in Runs
    <3>1. k \in Ids /\ KeyReason(k) = None
      BY <2>1 DEF Observe, HandlerInv, Numbers
    <3> QED BY <3>1, KeyIsRun
  <2>3. runs' = [runs EXCEPT ![k] = Made(a)] /\ seen' = [seen EXCEPT ![k] = a]
    BY <1>6, <2>1, TokenMakes DEF Observe
  <2>4. a \in Streams
    BY <2>2, AppendProperties DEF StreamInv, Streams
  <2> HIDE DEF a
  <2>5. runs' = [j \in Runs |-> runs'[j]] /\ seen' \in [Runs -> Streams]
    BY <2>2, <2>3, <2>4 DEF StreamInv
  <2>6. \A j \in Runs : runs'[j] = Made(seen'[j])
    BY <2>2, <2>3, StateIsMade DEF StreamInv
  <2>7. StateOfStream'
    BY <2>6, Zenon DEF StateOfStream, Made
  <2> QED BY <1>1, <1>4, <2>5, <2>7 DEF StreamInv
<1> QED BY <1>5, <1>6 DEF Token

\* The first of three reasons is the first when there is one.
LEMMA FirstIsHead ==
  ASSUME NEW a, NEW b, NEW c, a # None
  PROVE  First(<<a, b, c>>) = a
<1> DEFINE s == <<a, b, c>>
           Is(i) == s[i] # None /\ \A j \in DOMAIN s : j < i => s[j] = None
           n == CHOOSE i \in DOMAIN s : Is(i)
<1>1. DOMAIN s = 1..3 /\ s[1] = a
  OBVIOUS
<1>2. Is(1) /\ 1 \in DOMAIN s
  BY <1>1
<1>3. First(s) = s[n]
  BY <1>2 DEF First
<1>4. n \in DOMAIN s /\ Is(n)
  <2> HIDE DEF Is, s
  <2> QED BY <1>2
<1> HIDE DEF n, s
<1>5. n = 1
  <2>1. n # 1 => 1 < n
    BY <1>1, <1>4
  <2> QED BY <1>1, <1>4, <2>1
<1> QED BY <1>1, <1>3, <1>5 DEF s

\* An end that takes a run is bound by its stream.
LEMMA EndTakenStreams ==
  ASSUME StreamInv, HandlerInv, NEW t \in Threads, EndTaken(t)
  PROVE  StreamInv'
<1> DEFINE k == id[t]
           x == seen[k]
           run == runs[k]
           r == Response(t)
           words == CompleteText(r)
           mismatch == IF run.refused = None /\ ExtractionReason(r) = None
                       THEN If(run.active /\ run.text # words, "stream_final_mismatch") ELSE None
           reason == CompletionReason(run, r)
<1>1. k \in Runs /\ x \in Streams
  <2>1. k \in Ids /\ KeyReason(k) = None
    BY DEF EndTaken, HandlerInv, Numbers
  <2>2. k \in Runs
    BY <2>1, KeyIsRun
  <2> QED BY <2>2 DEF StreamInv
<1>2. /\ pc[t] = "end" /\ obs' = obs
      /\ runs' = [runs EXCEPT ![k] = NoRun]
      /\ saw' = [saw EXCEPT ![t] = x] /\ seen' = [seen EXCEPT ![k] = <<>>]
      /\ \/ /\ reason # None /\ pc' = [pc EXCEPT ![t] = "failed"]
            /\ told' = [told EXCEPT ![t] = reason] /\ text' = text
         \/ /\ reason = None /\ pc' = [pc EXCEPT ![t] = "evaluate"]
            /\ text' = [text EXCEPT ![t] = words] /\ told' = told
  BY Zenon DEF EndTaken, Fail, args
<1>3. reason = First(<<run.refused, ExtractionReason(r), mismatch>>)
  BY Zenon DEF CompletionReason
<1>4. run = Made(x)
  BY <1>1, StateIsMade DEF StreamInv
<1>5. Faults(x) # {} => reason = FaultReason(x) /\ reason # None
  <2> SUFFICES ASSUME Faults(x) # {} PROVE reason = FaultReason(x) /\ reason # None
    OBVIOUS
  <2>1. run.refused = FaultReason(x) /\ FaultReason(x) # None
    <3>1. Made(x) = [NewRun EXCEPT !.refused = FaultReason(x)] /\ FaultReason(x) # None
      BY <1>1, MadeOf
    <3> QED BY <1>4, <3>1 DEF NewRun, NoRun
  <2> HIDE DEF reason, run, mismatch, x
  <2> QED BY <1>3, <2>1, FirstIsHead
<1>6. x # <<>> /\ reason = None => Faults(x) = {} /\ Streamed(x) = words
  <2> SUFFICES ASSUME x # <<>>, reason = None PROVE Faults(x) = {} /\ Streamed(x) = words
    OBVIOUS
  <2>1. Faults(x) = {}
    BY <1>5
  <2>2. run = [active |-> TRUE, refused |-> None, text |-> Streamed(x), length |-> Len(Streamed(x))]
    <3> HIDE DEF run, x
    <3> QED BY <1>1, <1>4, <2>1, MadeOf
  <2>3. run.active /\ run.text = Streamed(x)
    <3> HIDE DEF run, x
    <3> QED BY <2>2
  <2>4. run.refused = None /\ ExtractionReason(r) = None /\ mismatch = None
    <3> HIDE DEF run, r, mismatch, reason
    <3> QED BY <1>3, FirstOfThree
  <2>5. "stream_final_mismatch" # None
    BY DEF None
  <2>6. run.text = words
    <3>1. mismatch = If(run.active /\ run.text # words, "stream_final_mismatch")
      BY <2>4
    <3> HIDE DEF run, r, words, mismatch
    <3> QED BY <2>3, <2>4, <2>5, <3>1, Zenon DEF If
  <2> QED BY <2>1, <2>3, <2>6
<1> HIDE DEF k, x, run, r, words, reason, mismatch
<1>7. obs' = obs /\ runs' = [j \in Runs |-> runs'[j]] /\ seen' \in [Runs -> Streams] /\ saw' \in [Threads -> Streams]
  <2>1. <<>> \in Streams
    BY DEF Streams
  <2> QED BY <1>1, <1>2, <2>1 DEF StreamInv
<1>8. StateOfStream'
  <2>1. Made(<<>>) = NoRun
    BY <1>1, MadeOf
  <2>2. \A j \in Runs : runs[j] = Made(seen[j])
    BY StateIsMade DEF StreamInv
  <2>3. \A j \in Runs : runs'[j] = Made(seen'[j])
    BY <1>1, <1>2, <2>1, <2>2 DEF StreamInv
  <2> QED BY <2>3, Zenon DEF StateOfStream, Made
<1>9. /\ saw'[t] = x
      /\ \/ pc'[t] = "failed" /\ told'[t] = reason
         \/ reason = None /\ pc'[t] = "evaluate" /\ text'[t] = words
  BY <1>2 DEF StreamInv, HandlerInv, Numbers
<1>10. \A u \in Threads : u # t => /\ saw'[u] = saw[u] /\ pc'[u] = pc[u] /\ told'[u] = told[u]
                                   /\ text'[u] = text[u]
  BY <1>2 DEF StreamInv, HandlerInv, Numbers
<1>11. \A u \in Threads : pc'[u] \in {"idle", "token", "end", "error"} => saw'[u] = <<>>
  BY <1>9, <1>10 DEF StreamInv
<1>12. StreamBinds'
  <2> SUFFICES ASSUME NEW u \in Threads, saw'[u] # <<>>
               PROVE  /\ pc'[u] \in {"evaluate", "record"} =>
                            Faults(saw'[u]) = {} /\ Streamed(saw'[u]) = text'[u]
                      /\ Faults(saw'[u]) # {} => told'[u] = FaultReason(saw'[u])
    BY Zenon DEF StreamBinds
  <2>1. CASE u = t
    BY <2>1, <1>5, <1>6, <1>9
  <2>2. CASE u # t
    BY <2>2, <1>10 DEF StreamInv, StreamBinds
  <2> QED BY <2>1, <2>2
<1> QED BY <1>7, <1>8, <1>11, <1>12 DEF StreamInv

\* A step that takes no run and delivers no token keeps the invariant.
LEMMA ElsewhereStreams ==
  ASSUME StreamInv, UNCHANGED <<runs, seen>>, obs' \in [Threads -> DOMAIN Observations],
         saw' \in [Threads -> Streams],
         \A u \in Threads :
            \/ saw'[u] = <<>>
            \/ /\ saw'[u] = saw[u] /\ text'[u] = text[u]
               /\ pc'[u] \in {"idle", "token", "end", "error"} => pc'[u] = pc[u]
               /\ pc'[u] \in {"evaluate", "record"} => pc[u] \in {"evaluate", "record"}
               /\ told'[u] = told[u] \/ pc[u] \in {"evaluate", "record"}
  PROVE  StreamInv'
<1>1. StateOfStream'
  BY DEF StreamInv, StateOfStream
<1>2. StreamBinds'
  BY DEF StreamInv, StreamBinds
<1> QED BY <1>1, <1>2 DEF StreamInv

\* An error takes its run away.
LEMMA ErrorStreams ==
  ASSUME StreamInv, HandlerInv, NEW t \in Threads, Error(t)
  PROVE  StreamInv'
<1>1. /\ pc[t] = "error" /\ pc' = [pc EXCEPT ![t] = "done"] /\ told' = [told EXCEPT ![t] = None]
      /\ runs' = [k \in Runs |-> IF k = id[t] THEN NoRun ELSE runs[k]]
      /\ seen' = [k \in Runs |-> IF k = id[t] THEN <<>> ELSE seen[k]]
      /\ UNCHANGED <<obs, saw, text>>
  BY DEF Error, Tell, args
<1>2. StateOfStream'
  <2>1. \A j \in Runs : runs[j] = Made(seen[j])
    BY StateIsMade DEF StreamInv
  <2>2. Made(<<>>) = NoRun
    BY Zenon DEF Made
  <2>3. \A j \in Runs : runs'[j] = Made(seen'[j])
    BY <1>1, <2>1, <2>2
  <2> QED BY <2>3, Zenon DEF StateOfStream, Made
<1>3. seen' \in [Runs -> Streams]
  <2>1. <<>> \in Streams
    BY DEF Streams
  <2> QED BY <1>1, <2>1 DEF StreamInv
<1>4. saw[t] = <<>>
  BY <1>1 DEF StreamInv
<1>5. \A u \in Threads : u # t => pc'[u] = pc[u] /\ told'[u] = told[u]
  BY <1>1 DEF HandlerInv, Numbers
<1>6. StreamBinds' /\ \A u \in Threads : pc'[u] \in {"idle", "token", "end", "error"} => saw'[u] = <<>>
  BY <1>1, <1>4, <1>5 DEF StreamInv, StreamBinds
<1> QED BY <1>1, <1>2, <1>3, <1>6 DEF StreamInv

\* A callback begins.
LEMMA DeliverStreams ==
  ASSUME StreamInv, HandlerInv, NEW t \in Threads, Deliver(t)
  PROVE  StreamInv'
<1>1. PICK k \in Ids, step \in {"token", "end", "error"} :
        Begin(t, k, step) /\ (obs' = obs \/ \E o \in DOMAIN Observations : obs' = [obs EXCEPT ![t] = o])
  BY DEF Deliver, OnToken, OnEnd, OnError
<1>2. obs' \in [Threads -> DOMAIN Observations]
  BY <1>1 DEF StreamInv
<1>3. /\ pc[t] = "idle" /\ UNCHANGED <<runs, seen, saw, text>>
      /\ \A u \in Threads : u # t => pc'[u] = pc[u] /\ told'[u] = told[u]
  BY <1>1 DEF Begin, handlerVars, HandlerInv, Numbers
<1>4. saw'[t] = <<>> /\ saw' \in [Threads -> Streams]
  BY <1>3 DEF StreamInv
<1> QED BY <1>2, <1>3, <1>4, ElsewhereStreams

\* The evaluation, and what is recorded of it, of a failure, or of nothing.
LEMMA AnswerStreams ==
  ASSUME StreamInv, HandlerInv, NEW t \in Threads,
         EndUnkeyed(t) \/ Evaluate(t) \/ RecordResult(t) \/ RecordFailure(t) \/ ErrorUnhashable(t)
  PROVE  StreamInv'
<1>1. /\ UNCHANGED <<runs, seen, saw, obs, text>>
      /\ \/ pc[t] = "end" /\ pc' = [pc EXCEPT ![t] = "failed"]
         \/ pc[t] = "evaluate" /\ pc' = [pc EXCEPT ![t] = "record"]
         \/ pc[t] = "evaluate" /\ pc' = [pc EXCEPT ![t] = "failed"]
         \/ pc[t] = "record" /\ pc' = [pc EXCEPT ![t] = "done"]
         \/ pc[t] = "failed" /\ pc' = [pc EXCEPT ![t] = "done"] /\ told' = [told EXCEPT ![t] = told[t]]
         \/ pc[t] = "error" /\ pc' = [pc EXCEPT ![t] = "done"]
      /\ \A u \in Threads : u # t => told'[u] = told[u]
  BY DEF EndUnkeyed, Fail, Evaluate, RecordResult, RecordFailure, ErrorUnhashable, Tell, handlerVars,
         args, HandlerInv, Numbers
<1>2. \A u \in Threads : u # t => pc'[u] = pc[u]
  BY <1>1 DEF HandlerInv, Numbers
<1>3. pc'[t] \in {"failed", "record", "done"} /\ (pc'[t] = "record" => pc[t] = "evaluate")
  BY <1>1 DEF HandlerInv, Numbers
<1>4. saw'[t] = <<>> \/ pc[t] \in {"evaluate", "record"} \/ told'[t] = told[t]
  BY <1>1 DEF StreamInv, HandlerInv, Numbers
<1>5. obs' \in [Threads -> DOMAIN Observations] /\ saw' \in [Threads -> Streams]
  BY <1>1 DEF StreamInv
<1> QED BY <1>1, <1>2, <1>3, <1>4, <1>5, ElsewhereStreams

\* The host has its answer.
LEMMA ReturnStreams ==
  ASSUME StreamInv, HandlerInv, NEW t \in Threads, Return(t)
  PROVE  StreamInv'
<1>1. (CHOOSE o \in DOMAIN Observations : TRUE) \in DOMAIN Observations
  BY HostAssumption DEF HostAssumption
<1>2. obs' \in [Threads -> DOMAIN Observations]
  BY <1>1 DEF Return, StreamInv
<1>3. <<>> \in Streams
  BY DEF Streams
<1>4. saw' \in [Threads -> Streams] /\ saw'[t] = <<>>
  BY <1>3 DEF Return, StreamInv
<1>5. /\ UNCHANGED <<runs, seen>>
      /\ \A u \in Threads : u # t => /\ saw'[u] = saw[u] /\ pc'[u] = pc[u] /\ told'[u] = told[u]
                                     /\ text'[u] = text[u]
  BY DEF Return, handlerVars, StreamInv, HandlerInv, Numbers
<1> QED BY <1>2, <1>4, <1>5, ElsewhereStreams

\* Initially no run is active and nothing has been observed.
LEMMA StreamInitially == Init => StreamInv
<1> SUFFICES ASSUME Init PROVE StreamInv
  OBVIOUS
<1>1. (CHOOSE o \in DOMAIN Observations : TRUE) \in DOMAIN Observations
  BY HostAssumption DEF HostAssumption
<1>2. obs \in [Threads -> DOMAIN Observations]
  BY <1>1 DEF Init
<1>3. <<>> \in Streams
  BY DEF Streams
<1>4. /\ runs = [k \in Runs |-> NoRun] /\ seen = [k \in Runs |-> <<>>]
      /\ saw = [t \in Threads |-> <<>>]
  BY DEF Init
<1>5. StateOfStream
  BY <1>4 DEF StateOfStream
<1>6. StreamBinds /\ \A t \in Threads : saw[t] = <<>>
  BY <1>4 DEF StreamBinds
<1> QED BY <1>2, <1>3, <1>4, <1>5, <1>6 DEF StreamInv

\* Every step keeps the invariant.
LEMMA StreamStep == HandlerInv /\ StreamInv /\ [Next]_vars => StreamInv'
<1> SUFFICES ASSUME HandlerInv, StreamInv, [Next]_vars PROVE StreamInv'
  OBVIOUS
<1>1. CASE UNCHANGED vars \/ Close
  <2>1. UNCHANGED <<runs, seen, obs, saw, pc, told, text>>
    BY <1>1 DEF vars, Close, handlerVars, args
  <2> QED BY <2>1, ElsewhereStreams DEF StreamInv
<1>2. CASE \E t \in Threads : Deliver(t)
  BY <1>2, DeliverStreams
<1>3. CASE \E t \in Threads : Step(t)
  BY <1>3, TokenStreams, EndTakenStreams, ErrorStreams, AnswerStreams, ReturnStreams DEF Step, End
<1> QED BY <1>1, <1>2, <1>3 DEF Next

\* The invariant holds throughout.
LEMMA StreamAlways == Spec => []StreamInv
BY HandlerAlways, StreamInitially, StreamStep, PTL DEF Spec

\* A run's state is what its whole stream makes of it, by whatever threads it came
\* (_collect_token, _refuse_locked).
THEOREM StateIsTheStreams == Spec => []StateOfStream
<1>1. StreamInv => StateOfStream
  BY DEF StreamInv
<1> QED BY <1>1, StreamAlways, PTL

\* An end evaluates a streamed run only if every token was plain and together they are the
\* text, and tells the first reason otherwise (_establish_completion).
THEOREM StreamBindsTheEnd == Spec => []StreamBinds
<1>1. StreamInv => StreamBinds
  BY DEF StreamInv
<1> QED BY <1>1, StreamAlways, PTL
=============================================================================
