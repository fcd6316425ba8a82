--------------------------- MODULE BoundedExecutor ---------------------------
(***************************************************************************)
(* BoundedValidationExecutor: a thread pool behind a bounded semaphore.    *)
(* A call is one invocation of run_with_timeout (or of its async twin, for *)
(* the members of AsyncCalls).  The thread that makes the call and the     *)
(* future it submits have separate lives: the thread may give up at its    *)
(* deadline while the future, a zombie, keeps a worker and a permit.       *)
(*                                                                         *)
(* The executor's lock covers check-acquire-submit, but neither the        *)
(* attachment of the done-callback nor the semaphore's release: those are  *)
(* steps of their own here.                                                *)
(***************************************************************************)
EXTENDS Integers, Sequences, FiniteSets

CONSTANTS Calls,        \* invocations of run_with_timeout(_async)
          AsyncCalls,   \* those made through run_with_timeout_async
          Closers,      \* threads that call shutdown()
          MaxWorkers,   \* max_workers
          MaxPending,   \* max_pending
          NoCall        \* the "caller" of a call made outside the pool

ASSUME CallsAssumption == IsFiniteSet(Calls) /\ AsyncCalls \subseteq Calls
ASSUME NoCallAssumption == NoCall \notin Calls
ASSUME CapacityAssumption == MaxWorkers \in Nat \ {0} /\ MaxPending \in Nat

VARIABLES pc,        \* where the calling thread is
          parent,    \* the running call whose worker made this call, or NoCall
          fut,       \* the state of the call's concurrent future
          callback,  \* progress of the done-callback _release
          onWorker,  \* calls that occupy a worker thread
          queue,     \* the pool's work queue
          sem,       \* permits left in the BoundedSemaphore
          inFlight,  \* _in_flight
          rejected,  \* _rejected_total
          shut,      \* _shutdown
          poolDown,  \* the thread pool refuses submissions
          closer     \* where each closing thread is

vars == <<pc, parent, fut, callback, onWorker, queue, sem, inFlight,
          rejected, shut, poolDown, closer>>

Capacity == MaxWorkers + MaxPending

Answered == {"returned", "timeout", "shed", "closed"}
PCs == {"idle", "submitted", "waiting", "inline", "cancelling"} \cup Answered
Futures == {"none", "pending", "running", "done", "cancelled"}
Callbacks == {"none", "armed", "owed", "half", "released"}
CloserPCs == {"idle", "flagged", "joining", "joined", "closed"}

TypeOK ==
  /\ pc \in [Calls -> PCs]
  /\ parent \in [Calls -> Calls \cup {NoCall}]
  /\ fut \in [Calls -> Futures]
  /\ callback \in [Calls -> Callbacks]
  /\ onWorker \in SUBSET Calls
  /\ queue \in Seq(Calls)
  /\ sem \in 0..Capacity
  /\ inFlight \in 0..Capacity
  /\ rejected \in Nat
  /\ shut \in BOOLEAN
  /\ poolDown \in BOOLEAN
  /\ closer \in [Closers -> CloserPCs]

Init ==
  /\ pc = [c \in Calls |-> "idle"]
  /\ parent = [c \in Calls |-> NoCall]
  /\ fut = [c \in Calls |-> "none"]
  /\ callback = [c \in Calls |-> "none"]
  /\ onWorker = {}
  /\ queue = <<>>
  /\ sem = Capacity
  /\ inFlight = 0
  /\ rejected = 0
  /\ shut = FALSE
  /\ poolDown = FALSE
  /\ closer = [k \in Closers |-> "idle"]

-----------------------------------------------------------------------------
(* The calling thread.  t is NoCall for a thread outside the pool, or the  *)
(* running call whose function calls back into the executor.               *)

\* Mutant: the pool does not know its own workers.
WorkersUnknown(t) == FALSE

OnWorkerThread(t) == t # NoCall

\* A worker's function waits for the nested call it has made.
Blocked(t) == \E d \in Calls : parent[d] = t /\ pc[d] \notin Answered \cup {"idle"}

MayCall(c, t) ==
  /\ pc[c] = "idle"
  /\ t # NoCall => t # c /\ fut[t] = "running" /\ ~Blocked(t)

\* _ensure_open, and the first check of _acquire_and_submit.
RefuseClosed(c, t) ==
  /\ MayCall(c, t)
  /\ shut
  /\ pc' = [pc EXCEPT ![c] = "closed"]
  /\ parent' = [parent EXCEPT ![c] = t]
  /\ UNCHANGED <<fut, callback, onWorker, queue, sem, inFlight, rejected, shut,
                 poolDown, closer>>

\* A re-entrant call runs its function on the worker it is already on.
RunInline(c, t) ==
  /\ MayCall(c, t)
  /\ OnWorkerThread(t)
  /\ ~shut
  /\ pc' = [pc EXCEPT ![c] = "inline"]
  /\ parent' = [parent EXCEPT ![c] = t]
  /\ UNCHANGED <<fut, callback, onWorker, queue, sem, inFlight, rejected, shut,
                 poolDown, closer>>

Shed(c, t) ==
  /\ MayCall(c, t)
  /\ ~OnWorkerThread(t)
  /\ ~shut
  /\ sem = 0
  /\ rejected' = rejected + 1
  /\ pc' = [pc EXCEPT ![c] = "shed"]
  /\ parent' = [parent EXCEPT ![c] = t]
  /\ UNCHANGED <<fut, callback, onWorker, queue, sem, inFlight, shut, poolDown,
                 closer>>

SubmitRefused(c, t, permits) ==
  /\ MayCall(c, t) /\ ~OnWorkerThread(t) /\ ~shut /\ sem > 0 /\ poolDown
  /\ sem' = permits
  /\ shut' = TRUE
  /\ pc' = [pc EXCEPT ![c] = "closed"]
  /\ parent' = [parent EXCEPT ![c] = t]
  /\ UNCHANGED <<fut, callback, onWorker, queue, inFlight, rejected, poolDown, closer>>

\* Mutant: a refused submission keeps its permit.
SubmitFailsKeepsPermit(c, t) == SubmitRefused(c, t, sem - 1)

\* thread_pool.submit raises RuntimeError: the permit and the count are given
\* back under the lock and the executor latches itself shut.
SubmitFails(c, t) ==
  /\ MayCall(c, t)
  /\ ~OnWorkerThread(t)
  /\ ~shut
  /\ sem > 0
  /\ poolDown
  /\ shut' = TRUE
  /\ pc' = [pc EXCEPT ![c] = "closed"]
  /\ parent' = [parent EXCEPT ![c] = t]
  /\ UNCHANGED <<fut, callback, onWorker, queue, sem, inFlight, rejected,
                 poolDown, closer>>

\* Mutant: the executor keeps a queue of its own and appends to it outside the
\* lock, so neither its flag nor the pool's holds by the time the work is there.
SubmitUnchecked(c, t) ==
  /\ MayCall(c, t) /\ ~OnWorkerThread(t) /\ sem > 0
  /\ sem' = sem - 1
  /\ inFlight' = inFlight + 1
  /\ fut' = [fut EXCEPT ![c] = "pending"]
  /\ queue' = Append(queue, c)
  /\ pc' = [pc EXCEPT ![c] = "submitted"]
  /\ parent' = [parent EXCEPT ![c] = t]
  /\ UNCHANGED <<callback, onWorker, rejected, shut, poolDown, closer>>

\* The permit, the count and the pool's queue in one locked region.
Submit(c, t) ==
  /\ MayCall(c, t)
  /\ ~OnWorkerThread(t)
  /\ ~shut
  /\ sem > 0
  /\ ~poolDown
  /\ sem' = sem - 1
  /\ inFlight' = inFlight + 1
  /\ fut' = [fut EXCEPT ![c] = "pending"]
  /\ queue' = Append(queue, c)
  /\ pc' = [pc EXCEPT ![c] = "submitted"]
  /\ parent' = [parent EXCEPT ![c] = t]
  /\ UNCHANGED <<callback, onWorker, rejected, shut, poolDown, closer>>

\* Mutant: a future that is already done never runs the callback.
AttachTooLate(c) ==
  /\ pc[c] = "submitted"
  /\ callback[c] = "none"
  /\ callback' = [callback EXCEPT ![c] = IF fut[c] = "done" THEN "none" ELSE "armed"]
  /\ pc' = [pc EXCEPT ![c] = "waiting"]
  /\ UNCHANGED <<parent, fut, onWorker, queue, sem, inFlight, rejected, shut,
                 poolDown, closer>>

\* add_done_callback, outside the lock.  A future that is already done runs
\* the callback at once, on the calling thread.
AttachCallback(c) ==
  /\ pc[c] = "submitted"
  /\ callback[c] = "none"
  /\ IF fut[c] = "done"
       THEN /\ callback' = [callback EXCEPT ![c] = "owed"]
            /\ pc' = pc
       ELSE /\ callback' = [callback EXCEPT ![c] = "armed"]
            /\ pc' = [pc EXCEPT ![c] = "waiting"]
  /\ UNCHANGED <<parent, fut, onWorker, queue, sem, inFlight, rejected, shut,
                 poolDown, closer>>

GetResult(c) ==
  /\ pc[c] = "waiting"
  /\ fut[c] = "done"
  /\ pc' = [pc EXCEPT ![c] = "returned"]
  /\ UNCHANGED <<parent, fut, callback, onWorker, queue, sem, inFlight, rejected,
                 shut, poolDown, closer>>

\* Mutant: the caller that gives up runs the release itself.
TimeoutReleases(c) ==
  /\ pc[c] = "waiting" /\ c \notin AsyncCalls /\ fut[c] # "done"
  /\ pc' = [pc EXCEPT ![c] = "timeout"]
  /\ callback' = [callback EXCEPT ![c] = "owed"]
  /\ UNCHANGED <<parent, fut, onWorker, queue, sem, inFlight, rejected, shut,
                 poolDown, closer>>

\* Mutant: the deadline counts only once the function has started.
TimeoutOfRunning(c) ==
  /\ pc[c] = "waiting" /\ c \notin AsyncCalls /\ fut[c] = "running"
  /\ pc' = [pc EXCEPT ![c] = "timeout"]
  /\ UNCHANGED <<parent, fut, callback, onWorker, queue, sem, inFlight, rejected,
                 shut, poolDown, closer>>

\* future.result(timeout) gives up; the future is left as it is.
TimeoutSync(c) ==
  /\ pc[c] = "waiting"
  /\ c \notin AsyncCalls
  /\ fut[c] # "done"
  /\ pc' = [pc EXCEPT ![c] = "timeout"]
  /\ UNCHANGED <<parent, fut, callback, onWorker, queue, sem, inFlight, rejected,
                 shut, poolDown, closer>>

\* asyncio.wait_for gives up (or its task is cancelled) and cancels the future:
\* a queued one is cancelled and its callback runs on the event loop's thread;
\* a running or finished one ignores the cancellation.
TimeoutAsync(c) ==
  /\ pc[c] = "waiting"
  /\ c \in AsyncCalls
  /\ IF fut[c] = "pending"
       THEN /\ fut' = [fut EXCEPT ![c] = "cancelled"]
            /\ callback' = [callback EXCEPT ![c] = "owed"]
            /\ pc' = [pc EXCEPT ![c] = "cancelling"]
       ELSE /\ pc' = [pc EXCEPT ![c] = "timeout"]
            /\ UNCHANGED <<fut, callback>>
  /\ UNCHANGED <<parent, onWorker, queue, sem, inFlight, rejected, shut,
                 poolDown, closer>>

FinishInline(c) ==
  /\ pc[c] = "inline"
  /\ pc' = [pc EXCEPT ![c] = "returned"]
  /\ UNCHANGED <<parent, fut, callback, onWorker, queue, sem, inFlight, rejected,
                 shut, poolDown, closer>>

-----------------------------------------------------------------------------
(* The pool's workers.                                                     *)

\* A worker takes the head of the queue; a cancelled item is dropped.
TakeWork ==
  /\ queue # <<>>
  /\ Cardinality(onWorker) < MaxWorkers
  /\ queue' = Tail(queue)
  /\ LET c == Head(queue) IN
       IF fut[c] = "cancelled"
         THEN UNCHANGED <<fut, onWorker>>
         ELSE /\ fut' = [fut EXCEPT ![c] = "running"]
              /\ onWorker' = onWorker \cup {c}
  /\ UNCHANGED <<pc, parent, callback, sem, inFlight, rejected, shut, poolDown,
                 closer>>

\* The function ends.  The worker then runs the callback if one is attached.
FinishWork(c) ==
  /\ fut[c] = "running"
  /\ ~Blocked(c)
  /\ fut' = [fut EXCEPT ![c] = "done"]
  /\ IF callback[c] = "armed"
       THEN /\ callback' = [callback EXCEPT ![c] = "owed"]
            /\ onWorker' = onWorker
       ELSE /\ callback' = callback
            /\ onWorker' = onWorker \ {c}
  /\ UNCHANGED <<pc, parent, queue, sem, inFlight, rejected, shut, poolDown,
                 closer>>

\* _release, on the thread that runs the callback: the count under the lock...
ReleaseCount(c) ==
  /\ callback[c] = "owed"
  /\ callback' = [callback EXCEPT ![c] = "half"]
  /\ inFlight' = inFlight - 1
  /\ UNCHANGED <<pc, parent, fut, onWorker, queue, sem, rejected, shut, poolDown,
                 closer>>

\* ... and the permit after it.  The thread that ran the callback goes on.
ReleasePermit(c) ==
  /\ callback[c] = "half"
  /\ callback' = [callback EXCEPT ![c] = "released"]
  /\ sem' = sem + 1
  /\ onWorker' = onWorker \ {c}
  /\ pc' = [pc EXCEPT ![c] = IF pc[c] = "submitted" THEN "waiting"
                             ELSE IF pc[c] = "cancelling" THEN "timeout"
                             ELSE pc[c]]
  /\ UNCHANGED <<parent, fut, queue, inFlight, rejected, shut, poolDown, closer>>

-----------------------------------------------------------------------------
(* Shutdown.                                                               *)

BeginShutdown(k) ==
  /\ closer[k] = "idle"
  /\ closer' = [closer EXCEPT ![k] = IF shut THEN "closed" ELSE "flagged"]
  /\ shut' = TRUE
  /\ UNCHANGED <<pc, parent, fut, callback, onWorker, queue, sem, inFlight,
                 rejected, poolDown>>

\* thread_pool.shutdown(wait): queued work still runs.
ShutdownPool(k, wait) ==
  /\ closer[k] = "flagged"
  /\ poolDown' = TRUE
  /\ closer' = [closer EXCEPT ![k] = IF wait THEN "joining" ELSE "closed"]
  /\ UNCHANGED <<pc, parent, fut, callback, onWorker, queue, sem, inFlight,
                 rejected, shut>>

\* shutdown(wait=True) returns when every worker thread has ended.
JoinPool(k) ==
  /\ closer[k] = "joining"
  /\ queue = <<>>
  /\ onWorker = {}
  /\ closer' = [closer EXCEPT ![k] = "joined"]
  /\ UNCHANGED <<pc, parent, fut, callback, onWorker, queue, sem, inFlight,
                 rejected, shut, poolDown>>

\* The interpreter starts to exit and the pool refuses work on its own.
ExternalShutdown ==
  /\ ~poolDown
  /\ poolDown' = TRUE
  /\ UNCHANGED <<pc, parent, fut, callback, onWorker, queue, sem, inFlight,
                 rejected, shut, closer>>

-----------------------------------------------------------------------------
RunWithTimeout(c, t) ==
  \/ RefuseClosed(c, t)
  \/ RunInline(c, t)
  \/ Shed(c, t)
  \/ SubmitFails(c, t)
  \/ Submit(c, t)

GiveUp(c) == TimeoutSync(c) \/ TimeoutAsync(c)

Shutdown(k) ==
  \/ BeginShutdown(k)
  \/ \E wait \in BOOLEAN : ShutdownPool(k, wait)
  \/ JoinPool(k)

Next ==
  \/ \E c \in Calls, t \in Calls \cup {NoCall} : RunWithTimeout(c, t)
  \/ \E c \in Calls :
       \/ AttachCallback(c) \/ GetResult(c) \/ GiveUp(c) \/ FinishInline(c)
       \/ FinishWork(c) \/ ReleaseCount(c) \/ ReleasePermit(c)
  \/ TakeWork
  \/ \E k \in Closers : Shutdown(k)
  \/ ExternalShutdown

Spec == Init /\ [][Next]_vars

\* Threads run: a caller attaches, times out or collects; workers take work and
\* run callbacks; a closing thread goes on.  Nothing says a function ever ends.
ThreadFairness ==
  /\ \A c \in Calls : /\ WF_vars(AttachCallback(c))
                      /\ WF_vars(GetResult(c) \/ GiveUp(c))
                      /\ WF_vars(ReleaseCount(c))
                      /\ WF_vars(ReleasePermit(c))
  /\ WF_vars(TakeWork)
  /\ \A k \in Closers : /\ WF_vars(\E wait \in BOOLEAN : ShutdownPool(k, wait))
                        /\ WF_vars(JoinPool(k))

\* In addition, every validation function returns.
FunctionFairness ==
  \A c \in Calls : WF_vars(FinishWork(c)) /\ WF_vars(FinishInline(c))

FairSpec == Spec /\ ThreadFairness

-----------------------------------------------------------------------------
(* Properties.                                                             *)

Holders == {c \in Calls : fut[c] # "none" /\ callback[c] # "released"}
Counted == {c \in Calls : fut[c] # "none" /\ callback[c] \notin {"half", "released"}}
Outstanding == {c \in Calls : fut[c] \in {"pending", "running"}}

\* Every permit is either in the semaphore or held by exactly one submitted call
\* whose release has not finished: no path of _acquire_and_submit or _release
\* loses a permit or gives one back twice (BoundedSemaphore would raise).  The
\* in_flight of health() counts the submitted calls whose callback has not run its
\* locked half, and so never exceeds the permits taken.
PermitAccounting ==
  /\ sem + Cardinality(Holders) = Capacity
  /\ inFlight = Cardinality(Counted)
  /\ inFlight <= Capacity - sem

\* Zombies keep their capacity: the queued and running functions, including those
\* whose caller has gone, never outnumber the permits taken, and no more of them
\* run than there are workers.
ZombiesOccupyCapacity ==
  /\ Cardinality(Outstanding) <= Capacity - sem
  /\ Cardinality({c \in Calls : fut[c] = "running"}) <= MaxWorkers

\* A call made from one of the pool's own workers is never queued behind the
\* worker that waits for it: it is not shed and does not time out.
NestedNeverStarved ==
  \A c \in Calls : parent[c] # NoCall => pc[c] \notin {"shed", "timeout"}

\* Once shutdown(wait=True) has joined the pool no function is queued or running,
\* and none will be: no submission that raced with it is left in a pool whose
\* workers have ended.  (A shutdown that finds the flag set returns at once and
\* has joined nothing.)
JoinedMeansQuiet ==
  (\E k \in Closers : closer[k] = "joined") => Outstanding = {}

\* Load is shed only when Capacity submitted calls have yet to give their permit
\* back, and once the flag is set no call is ever submitted.
ShedOnlyWhenSaturated ==
  [][/\ rejected' # rejected => Cardinality(Holders) = Capacity
     /\ shut => \A c \in Calls : fut[c] = "none" => fut'[c] = "none"]_vars

\* A caller that has submitted is answered, even if no function ever returns.
CallerAnswered ==
  \A c \in Calls : pc[c] \in {"submitted", "waiting", "cancelling"} ~> pc[c] \in Answered

\* If functions return, the permit of every submitted call comes back, whichever
\* of the worker, the caller and the event loop runs its callback.
PermitsReturn ==
  FunctionFairness =>
    \A c \in Calls : fut[c] # "none" ~> callback[c] = "released"
=============================================================================
