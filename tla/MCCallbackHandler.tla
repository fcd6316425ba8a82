------------------------- MODULE MCCallbackHandler -------------------------
(* Two threads, two runs and a buffer of two characters; streams that are   *)
(* whole, too long, unlike their final text or unsupported, and responses   *)
(* of every shape the extraction tells apart.                               *)
EXTENDS CallbackHandler, TLC

NoMetadata == [kind |-> "absent", finish_reason |-> None, stop_reason |-> None]
Ended(how) == [kind |-> "mapping", finish_reason |-> how, stop_reason |-> None]
NoExtra == [kind |-> "absent", actions |-> "absent", rest |-> "absent"]
Message(words) == [actions |-> "absent", extra |-> NoExtra, textual |-> TRUE, content |-> words,
                   metadata |-> NoMetadata]

Bare(words) == [textual |-> TRUE, token |-> words, chunk |-> "none", message |-> Message(<<>>),
                text |-> <<>>, info |-> NoMetadata]
MCObservations ==
  "plain" :> Bare(<<"a">>)
  @@ "repeated" :> [Bare(<<"a", "a">>) EXCEPT !.chunk = "message", !.message = Message(<<"a", "a">>)]
  @@ "unlike" :> [Bare(<<"a">>) EXCEPT !.chunk = "message", !.message = Message(<<"a", "a">>)]
  @@ "cut" :> [Bare(<<>>) EXCEPT !.chunk = "text", !.info = Ended("truncated")]

Text(words) == [messaged |-> FALSE, message |-> Message(<<>>), textual |-> TRUE, text |-> words,
                info |-> NoMetadata]
Both(words, other) == [Text(other) EXCEPT !.messaged = TRUE, !.message = Message(words)]
NoOutput == [kind |-> "absent", actions |-> "absent", finish_reason |-> None, stop_reason |-> None]
One(g) == [kind |-> "listed", groups |-> <<[listed |-> TRUE, generations |-> <<g>>]>>,
           output |-> NoOutput]
Listing(generations) == [One(Text(<<>>)) EXCEPT !.groups[1].generations = generations]
Noted(how) == [One(Text(<<"a">>)) EXCEPT !.output = [NoOutput EXCEPT !.kind = "mapping", !.stop_reason = how]]
MCResponses ==
  "short" :> One(Text(<<"a">>))
  @@ "long" :> One([Both(<<"a", "a">>, <<"a", "a">>) EXCEPT !.info = Ended("complete")])
  @@ "twofold" :> One(Both(<<"a">>, <<"a", "a">>))
  @@ "noted" :> [One(Text(<<"a">>)) EXCEPT !.output.kind = "mapping", !.output.stop_reason = "unknown"]

MCSymmetry == Permutations(Threads) \cup Permutations(Runs)
=============================================================================
