------------------------------- MODULE EventBus -------------------------------
(***************************************************************************)
(* QueueEventBus: publishers enqueue telemetry without blocking, one       *)
(* daemon thread drains the queue in batches and posts them, behind the    *)
(* circuit breaker it shares with the contract sync (the "other" client    *)
(* here).  stop() is terminal: it closes the bus, wakes the worker and     *)
(* leaves the final flush to it, or to a finisher thread when no worker    *)
(* was ever started.                                                       *)
(*                                                                         *)
(* Events are numbered in the order they are published; publishers are     *)
(* otherwise alike.  _stop_event is set under the same lock as _closed and *)
(* start() clears it only while the bus is open, so closed stands for both.*)
(***************************************************************************)
EXTENDS CircuitBreaker, Integers, Sequences

CONSTANTS MaxEvents,       \* bound: events published in a behaviour
          QueueSize,       \* max_queue_size; without bound when it is not positive
          BatchSize,       \* batch_size
          RetryBudgets,    \* values of max_retries, one chosen at the start
          Stoppers         \* threads that call stop() or run the exit hook

\* The sizes and the retries come from the environment, any integer.
ASSUME BusAssumption ==
  /\ MaxEvents \in Nat /\ QueueSize \in Int /\ BatchSize \in Int
  /\ RetryBudgets \subseteq Int

VARIABLES published,    \* number of events published
          queue,        \* _queue
          batch,        \* the batch the worker holds
          delivered,    \* events acknowledged by the control plane, or drained with none
          dropped,      \* _dropped_total
          silent,       \* events lost without being counted
          configured,   \* a control plane is configured
          retries,      \* _max_retries
          closed,       \* _closed and _stop_event
          drain,        \* _drain_requested
          finalAttempts,\* _final_attempts, 0 for None
          daemon,       \* which thread _daemon is
          worker,       \* where that thread is
          flushing,     \* it is in _flush_remaining
          cap,          \* max_attempts of that flush, 0 for None
          attempt,      \* attempts made on this batch
          budget,       \* attempts allowed on this batch
          complete,     \* _shutdown_complete
          stopper,      \* where each stopping thread is
          otherCall     \* the other client has a call out

busVars == <<published, queue, batch, delivered, dropped, silent, configured,
             retries, closed, drain, finalAttempts, daemon, worker, flushing,
             cap, attempt, budget, complete, stopper, otherCall>>

vars == <<busVars, breakerVars>>

Workers == {"off", "loop", "get", "collect", "ship", "post", "backoff",
            "final", "close", "done"}

Events == 1..MaxEvents

TypeOK ==
  /\ BreakerTypeOK
  /\ published \in 0..MaxEvents
  /\ queue \in Seq(Events) /\ (QueueSize > 0 => Len(queue) <= QueueSize)
  /\ batch \in Seq(Events) /\ (Len(batch) <= 1 \/ Len(batch) <= BatchSize)
  /\ delivered \in Seq(Events)
  /\ dropped \in 0..MaxEvents /\ silent \in 0..MaxEvents
  /\ configured \in BOOLEAN /\ retries \in RetryBudgets
  /\ closed \in BOOLEAN /\ drain \in BOOLEAN /\ finalAttempts \in {0, 1}
  /\ daemon \in {"none", "worker", "finisher"}
  /\ worker \in Workers /\ flushing \in BOOLEAN /\ cap \in {0, 1}
  /\ attempt \in Nat /\ budget \in Nat
  /\ complete \in BOOLEAN
  /\ stopper \in [Stoppers -> {"idle", "starting", "returned"}]
  /\ otherCall \in BOOLEAN

Init ==
  /\ BreakerInit
  /\ published = 0
  /\ queue = <<>> /\ batch = <<>> /\ delivered = <<>>
  /\ dropped = 0 /\ silent = 0
  /\ configured \in BOOLEAN /\ retries \in RetryBudgets
  /\ closed = FALSE /\ drain = FALSE /\ finalAttempts = 0
  /\ daemon = "none" /\ worker = "off" /\ flushing = FALSE /\ cap = 0
  /\ attempt = 0 /\ budget = 0
  /\ complete = FALSE
  /\ stopper = [s \in Stoppers |-> "idle"]
  /\ otherCall = FALSE

-----------------------------------------------------------------------------
(* Publishers.                                                             *)

HasRoom == QueueSize <= 0 \/ Len(queue) < QueueSize

\* What publishing leaves alone.
PublishFrame == UNCHANGED <<batch, delivered, silent, configured, retries, closed,
                            drain, finalAttempts, daemon, worker, flushing, cap,
                            attempt, budget, complete, stopper, otherCall, breakerVars>>

\* Mutant: a closed bus still accepts.
PublishAfterClose ==
  /\ published < MaxEvents
  /\ published' = published + 1
  /\ IF HasRoom
       THEN queue' = Append(queue, published') /\ UNCHANGED dropped
       ELSE dropped' = dropped + 1 /\ UNCHANGED queue
  /\ PublishFrame

Publish ==
  /\ published < MaxEvents
  /\ published' = published + 1
  /\ IF ~closed /\ HasRoom
       THEN queue' = Append(queue, published') /\ UNCHANGED dropped
       ELSE dropped' = dropped + 1 /\ UNCHANGED queue
  /\ PublishFrame

-----------------------------------------------------------------------------
(* start() and stop().                                                     *)

Start ==
  /\ ~closed
  /\ daemon = "none"
  /\ daemon' = "worker"
  /\ worker' = "loop"
  /\ UNCHANGED <<published, queue, batch, delivered, dropped, silent, configured,
                 retries, closed, drain, finalAttempts, flushing, cap, attempt,
                 budget, complete, stopper, otherCall, breakerVars>>

\* The locked part of _stop.  The first stop of a bus that has no worker must
\* start a finisher.  The join that follows is bounded and changes nothing.
Stop(s, drainRemaining, attempts) ==
  /\ stopper[s] = "idle"
  /\ closed' = TRUE
  /\ drain' = (drain \/ drainRemaining)
  /\ finalAttempts' = IF attempts = 0 THEN finalAttempts ELSE attempts
  /\ IF daemon = "none" /\ ~closed
       THEN /\ daemon' = "finisher"
            /\ stopper' = [stopper EXCEPT ![s] = "starting"]
       ELSE /\ daemon' = daemon
            /\ stopper' = [stopper EXCEPT ![s] = "returned"]
  /\ UNCHANGED <<published, queue, batch, delivered, dropped, silent, configured,
                 retries, worker, flushing, cap, attempt, budget, complete,
                 otherCall, breakerVars>>

\* _drain_on_exit: registered by start() only, one attempt per batch.  stop()
\* unregisters it after its locked part, so it may still run next to a stop.
ExitHook(s) == daemon = "worker" /\ Stop(s, TRUE, 1)

StartFinisher(s) ==
  /\ stopper[s] = "starting"
  /\ stopper' = [stopper EXCEPT ![s] = "returned"]
  /\ \/ worker' = "final" /\ UNCHANGED complete
     \/ complete' = TRUE /\ UNCHANGED worker        \* the thread cannot start
  /\ UNCHANGED <<published, queue, batch, delivered, dropped, silent, configured,
                 retries, closed, drain, finalAttempts, daemon, flushing,
                 cap, attempt, budget, otherCall, breakerVars>>

-----------------------------------------------------------------------------
(* The worker: _drain_loop, or _finish_without_worker from "final" on.     *)

\* What every step of the worker but the last ones leaves alone.
WorkerFrame == UNCHANGED <<published, configured, retries, closed, drain,
                           finalAttempts, daemon, stopper, otherCall>>

\* Mutant: the loop never looks at the stop event.
LoopForever ==
  /\ worker = "loop"
  /\ worker' = "get"
  /\ UNCHANGED <<queue, batch, delivered, dropped, silent, flushing, cap, attempt,
                 budget, complete, breakerVars>>
  /\ WorkerFrame

LoopCheck ==
  /\ worker = "loop"
  /\ worker' = IF closed THEN "final" ELSE "get"
  /\ UNCHANGED <<queue, batch, delivered, dropped, silent, flushing, cap, attempt,
                 budget, complete, breakerVars>>
  /\ WorkerFrame

\* Mutant: the newest event is taken first.
TakeNewest ==
  /\ queue # <<>>
  /\ batch' = Append(batch, queue[Len(queue)])
  /\ queue' = SubSeq(queue, 1, Len(queue) - 1)

\* One event moves from the queue to the batch.
Take == queue # <<>> /\ batch' = Append(batch, Head(queue)) /\ queue' = Tail(queue)

\* The blocking get of _collect_batch, which gives up after a second.  The first event
\* is taken whatever the batch size.
GetFirst ==
  /\ worker = "get"
  /\ \/ Take /\ worker' = "collect"
     \/ queue = <<>> /\ worker' = "loop" /\ UNCHANGED <<queue, batch>>
  /\ UNCHANGED <<delivered, dropped, silent, flushing, cap, attempt, budget, complete,
                 breakerVars>>
  /\ WorkerFrame

\* The greedy rest of a batch; an empty one ends _flush_remaining, as it is at once when
\* the batch size is not positive.
Collect ==
  /\ worker = "collect"
  /\ IF Len(batch) < BatchSize /\ queue # <<>>
       THEN Take /\ UNCHANGED worker
       ELSE /\ worker' = IF batch = <<>> THEN "close" ELSE "ship"
            /\ UNCHANGED <<queue, batch>>
  /\ UNCHANGED <<delivered, dropped, silent, flushing, cap, attempt, budget, complete,
                 breakerVars>>
  /\ WorkerFrame

\* _ship returns: the batch is gone and the worker goes on where it was called.
BatchDone ==
  /\ batch' = <<>>
  /\ attempt' = 0
  /\ budget' = 0
  /\ worker' = IF flushing THEN "collect" ELSE "loop"
  /\ UNCHANGED <<queue, flushing, cap, complete>>
  /\ WorkerFrame

CountDropped == dropped' = dropped + Len(batch) /\ UNCHANGED <<delivered, silent>>

\* Nothing to ship to: drained and observed only.
ShipNowhere ==
  /\ worker = "ship"
  /\ ~configured
  /\ delivered' = delivered \o batch
  /\ BatchDone
  /\ UNCHANGED <<dropped, silent, breakerVars>>

ShipRefused ==
  /\ worker = "ship"
  /\ configured
  /\ AllowRefused
  /\ CountDropped
  /\ BatchDone

AttemptsNow == IF cap # 0 THEN cap ELSE retries

\* The breaker lets the batch through.  With no attempt in the budget (or a negative
\* one) the loop body never runs: the batch is neither posted, counted nor reported.
ShipAllowed ==
  /\ worker = "ship"
  /\ configured
  /\ AllowGranted
  /\ IF AttemptsNow <= 0
       THEN /\ silent' = silent + Len(batch)
            /\ UNCHANGED <<delivered, dropped>>
            /\ BatchDone
       ELSE /\ worker' = "post"
            /\ attempt' = 1
            /\ budget' = AttemptsNow
            /\ UNCHANGED <<queue, batch, delivered, dropped, silent, flushing,
                           cap, complete>>
            /\ WorkerFrame

PostSucceeds ==
  /\ worker = "post"
  /\ delivered' = delivered \o batch
  /\ RecordSuccess
  /\ BatchDone
  /\ UNCHANGED <<dropped, silent>>

PostFails ==
  /\ worker = "post"
  /\ IF attempt >= budget
       THEN RecordFailure /\ CountDropped /\ BatchDone
       ELSE /\ worker' = "backoff"
            /\ UNCHANGED <<queue, batch, delivered, dropped, silent, flushing,
                           cap, attempt, budget, complete, breakerVars>>
            /\ WorkerFrame

\* Mutant: a batch given up at shutdown is not counted.
BackoffUncounted ==
  /\ worker = "backoff"
  /\ IF closed
       THEN BatchDone /\ UNCHANGED <<delivered, dropped, silent>>
       ELSE /\ worker' = "post"
            /\ attempt' = attempt + 1
            /\ UNCHANGED <<queue, batch, delivered, dropped, silent, flushing,
                           cap, budget, complete>>
            /\ WorkerFrame
  /\ UNCHANGED breakerVars

\* The interruptible backoff: stop() ends it and the batch is dropped, with no
\* report to the breaker.
Backoff ==
  /\ worker = "backoff"
  /\ IF closed
       THEN CountDropped /\ BatchDone
       ELSE /\ worker' = "post"
            /\ attempt' = attempt + 1
            /\ UNCHANGED <<queue, batch, delivered, dropped, silent, flushing,
                           cap, budget, complete>>
            /\ WorkerFrame
  /\ UNCHANGED breakerVars

\* Out of the loop: the drain request and the attempts it allows are read once,
\* under the lock; a stop that comes later does not change them.
ReadDrain ==
  /\ worker = "final"
  /\ worker' = IF drain THEN "collect" ELSE "close"
  /\ flushing' = drain
  /\ cap' = IF drain THEN finalAttempts ELSE 0
  /\ UNCHANGED <<queue, batch, delivered, dropped, silent, attempt, budget,
                 complete, breakerVars>>
  /\ WorkerFrame

CloseClient ==
  /\ worker = "close"
  /\ worker' = "done"
  /\ complete' = TRUE
  /\ UNCHANGED <<queue, batch, delivered, dropped, silent, flushing, cap, attempt,
                 budget, breakerVars>>
  /\ WorkerFrame

Worker ==
  \/ LoopCheck \/ GetFirst \/ Collect
  \/ ShipNowhere \/ ShipRefused \/ ShipAllowed
  \/ PostSucceeds \/ PostFails \/ Backoff
  \/ ReadDrain \/ CloseClient

-----------------------------------------------------------------------------
(* The other client of the breaker, and the clock.                         *)

OtherBegins == ~otherCall /\ AllowGranted /\ otherCall' = TRUE
OtherReports == otherCall /\ (RecordSuccess \/ RecordFailure) /\ otherCall' = FALSE

Environment ==
  /\ \/ OtherBegins
     \/ OtherReports
     \/ Tick /\ UNCHANGED otherCall
  /\ UNCHANGED <<published, queue, batch, delivered, dropped, silent, configured,
                 retries, closed, drain, finalAttempts, daemon, worker, flushing,
                 cap, attempt, budget, complete, stopper>>

Next ==
  \/ Publish
  \/ Start
  \/ \E s \in Stoppers :
       \/ \E d \in BOOLEAN : Stop(s, d, 0)
       \/ ExitHook(s)
       \/ StartFinisher(s)
  \/ Worker
  \/ Environment

Spec == Init /\ [][Next]_vars

\* The worker thread runs and its posts end (the client has a timeout); a
\* stopping thread goes on to start the finisher.
FairSpec ==
  /\ Spec
  /\ WF_vars(Worker)
  /\ \A s \in Stoppers : WF_vars(StartFinisher(s))

-----------------------------------------------------------------------------
(* Properties.                                                             *)

Channel == INSTANCE TelemetryChannel WITH
             pending <- batch \o queue, accepting <- ~closed, finished <- complete

\* The bus implements the lossy channel: events leave in publication order, at
\* most once each, and after completion nothing is posted.
ImplementsChannel == Channel!Spec

\* Every event published is delivered, counted in dropped_total(), still held, or
\* lost silently; the last only when max_retries is 0 or less.
LossAccounted ==
  /\ published = Len(delivered) + dropped + silent + Len(batch) + Len(queue)
  /\ silent > 0 => retries <= 0

\* When the final flush of a worker that saw a drain request has ended, nothing is
\* left behind: no publisher slipped an event in after the last look at the queue.
\* "Ship every event currently in the queue" (queue_event_bus.py:310).
FlushEmpties ==
  worker \in {"close", "done"} /\ flushing => queue = <<>> /\ batch = <<>>

\* The final flush leaves nothing behind when the batch size is positive; otherwise it
\* looks at nothing.
DrainedOnCompletion == BatchSize > 0 => FlushEmpties

\* Once a stop is requested the shutdown completes, however often posts fail and
\* whatever the breaker says.
StopCompletes == closed ~> complete
=============================================================================
