--------------------------- MODULE TelemetryChannel ---------------------------
(***************************************************************************)
(* What the telemetry bus promises to the code that publishes: a lossy     *)
(* channel.  An event is accepted or counted as dropped at once; accepted  *)
(* events leave in the order they came, each acknowledged at most once,    *)
(* dropped and counted, or lost silently.  A closed channel accepts        *)
(* nothing, a finished one does nothing more.                              *)
(***************************************************************************)
EXTENDS Naturals, Sequences

VARIABLES published,   \* events offered so far; the n-th offered is event n
          pending,     \* accepted events not yet disposed of
          delivered,   \* events the control plane has acknowledged
          dropped,     \* what dropped_total() reports
          silent,      \* events lost and reported nowhere
          accepting, finished

channelVars == <<published, pending, delivered, dropped, silent, accepting, finished>>

Init ==
  /\ published = 0
  /\ pending = <<>>
  /\ delivered = <<>>
  /\ dropped = 0
  /\ silent = 0
  /\ accepting = TRUE
  /\ finished = FALSE

Accept ==
  /\ accepting
  /\ published' = published + 1
  /\ pending' = Append(pending, published')
  /\ UNCHANGED <<delivered, dropped, silent, accepting, finished>>

Refuse ==
  /\ published' = published + 1
  /\ dropped' = dropped + 1
  /\ UNCHANGED <<pending, delivered, silent, accepting, finished>>

\* The n oldest events leave the channel.
Leave(n) == pending' = SubSeq(pending, n + 1, Len(pending))

Deliver(n) ==
  /\ ~finished
  /\ Leave(n)
  /\ delivered' = delivered \o SubSeq(pending, 1, n)
  /\ UNCHANGED <<published, dropped, silent, accepting, finished>>

Drop(n) ==
  /\ ~finished
  /\ Leave(n)
  /\ dropped' = dropped + n
  /\ UNCHANGED <<published, delivered, silent, accepting, finished>>

LoseSilently(n) ==
  /\ ~finished
  /\ Leave(n)
  /\ silent' = silent + n
  /\ UNCHANGED <<published, delivered, dropped, accepting, finished>>

Close ==
  /\ accepting' = FALSE
  /\ UNCHANGED <<published, pending, delivered, dropped, silent, finished>>

Finish ==
  /\ ~accepting
  /\ finished' = TRUE
  /\ UNCHANGED <<published, pending, delivered, dropped, silent, accepting>>

Next ==
  \/ Accept \/ Refuse \/ Close \/ Finish
  \/ \E n \in 1..Len(pending) : Deliver(n) \/ Drop(n) \/ LoseSilently(n)

Spec == Init /\ [][Next]_channelVars
=============================================================================
