----------------------- MODULE OutputRepresentation -----------------------
(***************************************************************************)
(* What the LangChain handler makes of one stream observation and of one   *)
(* final response: the reason to refuse it, or none.  Only the first reason *)
(* is kept, so the order of the inspections is the order of the code.      *)
(*                                                                         *)
(* A host value is a record of what the inspections tell apart.  A text is *)
(* a sequence of characters.  A side channel is "absent" (None or empty),  *)
(* "present", or "raises" when it cannot be looked at.  A termination is   *)
(* what its normalised value means, or "malformed" when it is no text.     *)
(***************************************************************************)
EXTENDS Naturals, SequencesExt

CONSTANT Characters

None == "none"
Reasons == {
  "missing_run_id", "unhashable_run_id",
  "non_text_stream_token", "unsupported_stream_chunk", "stream_token_chunk_mismatch",
  "stream_buffer_exceeded",
  "missing_final_response", "malformed_final_response", "no_generation",
  "multiple_generation_groups", "multiple_generations",
  "non_text_content", "text_message_mismatch", "tool_or_action_content",
  "unsupported_message_metadata",
  "output_truncated", "output_incomplete", "unknown_termination", "stream_final_mismatch"}

Terminations == {None, "complete", "truncated", "incomplete", "unknown", "malformed"}
Channels == {"absent", "present", "raises"}
Metadata == [kind : {"absent", "mapping", "other"},
             finish_reason : Terminations, stop_reason : Terminations]
Extras == [kind : {"absent", "mapping", "other"}, actions : Channels, rest : Channels]
Messages == [actions : Channels, extra : Extras, textual : BOOLEAN, content : Seq(Characters),
             metadata : Metadata]
StreamObservations == [textual : BOOLEAN, token : Seq(Characters),
                       chunk : {"none", "message", "text", "other"}, message : Messages,
                       text : Seq(Characters), info : Metadata]
Generations == [messaged : BOOLEAN, message : Messages,
                textual : BOOLEAN, text : Seq(Characters), info : Metadata]
Outputs == [kind : {"absent", "mapping", "other"}, actions : Channels,
            finish_reason : Terminations, stop_reason : Terminations]
Groups == [listed : BOOLEAN, generations : Seq(Generations)]
FinalResponses == [kind : {"none", "other", "listed"}, groups : Seq(Groups), output : Outputs]

\* The first reason of several inspections, in the order they are made.
First(reasons) ==
  IF \E i \in DOMAIN reasons : reasons[i] # None
  THEN reasons[CHOOSE i \in DOMAIN reasons :
                 reasons[i] # None /\ \A j \in DOMAIN reasons : j < i => reasons[j] = None]
  ELSE None

If(condition, reason) == IF condition THEN reason ELSE None

-----------------------------------------------------------------------------
(* The inspections.  malformed is the reason for a value of no known shape. *)

Carried(channel, reason, malformed) ==
  CASE channel = "absent" -> None [] channel = "present" -> reason [] channel = "raises" -> malformed

TerminationReason(termination, malformed) ==
  CASE termination \in {None, "complete"} -> None
    [] termination = "truncated" -> "output_truncated"
    [] termination = "incomplete" -> "output_incomplete"
    [] termination = "unknown" -> "unknown_termination"
    [] termination = "malformed" -> malformed

CheckTermination(metadata, malformed) ==
  CASE metadata.kind = "absent" -> None
    [] metadata.kind = "other" -> malformed
    [] metadata.kind = "mapping" ->
         First(<<TerminationReason(metadata.finish_reason, malformed),
                 TerminationReason(metadata.stop_reason, malformed)>>)

InspectExtra(extra, malformed) ==
  CASE extra.kind = "absent" -> None
    [] extra.kind = "other" -> malformed
    [] extra.kind = "mapping" ->
         First(<<Carried(extra.actions, "tool_or_action_content", malformed),
                 Carried(extra.rest, "unsupported_message_metadata", malformed)>>)

InspectMessage(message, malformed) ==
  First(<<Carried(message.actions, "tool_or_action_content", malformed),
          InspectExtra(message.extra, malformed),
          If(~message.textual, "non_text_content"),
          CheckTermination(message.metadata, malformed)>>)

ChunkText(o) == IF o.chunk = "message" THEN o.message.content ELSE o.text
InspectChunk(o) ==
  First(<<If(o.chunk = "other", "unsupported_stream_chunk"),
          IF o.chunk = "message" THEN InspectMessage(o.message, "unsupported_stream_chunk") ELSE None,
          If(o.chunk # "other" /\ ChunkText(o) # o.token, "stream_token_chunk_mismatch"),
          CheckTermination(o.info, "unsupported_stream_chunk")>>)
InspectStreamObservation(o) ==
  First(<<If(~o.textual, "non_text_stream_token"),
          IF o.chunk = "none" THEN None ELSE InspectChunk(o)>>)

InspectLlmOutput(output) ==
  First(<<IF output.kind = "mapping"
          THEN Carried(output.actions, "tool_or_action_content", "malformed_final_response")
          ELSE None,
          CheckTermination(output, "malformed_final_response")>>)

\* Mutant: a generation with both representations is taken for what its message says.
InspectGenerationOneSided(g) ==
  First(<<IF g.messaged THEN InspectMessage(g.message, "malformed_final_response")
          ELSE If(~g.textual, "non_text_content"),
          CheckTermination(g.info, "malformed_final_response")>>)

InspectGeneration(g) ==
  First(<<IF g.messaged
          THEN First(<<InspectMessage(g.message, "malformed_final_response"),
                       If(g.textual /\ g.text # g.message.content, "text_message_mismatch")>>)
          ELSE If(~g.textual, "non_text_content"),
          CheckTermination(g.info, "malformed_final_response")>>)

InspectShape(r) ==
  First(<<If(r.kind = "none", "missing_final_response"),
          If(r.kind = "other", "malformed_final_response"),
          If(Len(r.groups) = 0, "no_generation"),
          If(Len(r.groups) > 1, "multiple_generation_groups"),
          IF Len(r.groups) = 1
          THEN First(<<If(~r.groups[1].listed, "malformed_final_response"),
                       If(Len(r.groups[1].generations) = 0, "no_generation"),
                       If(Len(r.groups[1].generations) > 1, "multiple_generations")>>)
          ELSE None>>)
Generation(r) == r.groups[1].generations[1]

\* The reason _extract_complete_text refuses, and the text it returns when it does not.
ExtractionReason(r) ==
  IF InspectShape(r) # None THEN InspectShape(r)
  ELSE First(<<InspectGeneration(Generation(r)), InspectLlmOutput(r.output)>>)
CompleteText(r) ==
  IF Generation(r).messaged THEN Generation(r).message.content ELSE Generation(r).text

-----------------------------------------------------------------------------
(* The reference: what it means that a text is all there is.               *)

Settled(metadata) ==
  \/ metadata.kind = "absent"
  \/ /\ metadata.kind = "mapping"
     /\ {metadata.finish_reason, metadata.stop_reason} \subseteq {None, "complete"}

OnlyText(message, text) ==
  /\ message.textual /\ message.content = text
  /\ message.actions = "absent" /\ Settled(message.metadata)
  /\ \/ message.extra.kind = "absent"
     \/ message.extra.kind = "mapping" /\ {message.extra.actions, message.extra.rest} = {"absent"}

\* One generation of one text in every representation it has, nothing beside it, and no
\* sign that it ended otherwise than by being complete.
Whole(r, text) ==
  /\ r.kind = "listed" /\ Len(r.groups) = 1
  /\ r.groups[1].listed /\ Len(r.groups[1].generations) = 1
  /\ LET g == Generation(r)
     IN  /\ g.messaged => OnlyText(g.message, text)
         /\ g.textual => g.text = text
         /\ g.messaged \/ g.textual
         /\ Settled(g.info)
  /\ Settled(r.output) /\ (r.output.kind = "mapping" => r.output.actions = "absent")

\* A token that its chunk, if it has one, repeats and adds nothing to.
Plain(o) ==
  /\ o.textual /\ o.chunk # "other"
  /\ o.chunk = "message" => OnlyText(o.message, o.token)
  /\ o.chunk = "text" => o.text = o.token
  /\ o.chunk # "none" => Settled(o.info)
=============================================================================
