------------------------ MODULE BoundedExecutorProofs ------------------------
(***************************************************************************)
(* Proofs about the bounded executor, for any finite set of calls, any     *)
(* number of closing threads, workers and pending slots.  All the safety   *)
(* properties of BoundedExecutor follow from one inductive invariant, made *)
(* of the parts below.                                                     *)
(***************************************************************************)
EXTENDS BoundedExecutor, FiniteSetTheorems, TLAPS

\* The future, its callback and its caller go together: nothing is attached to a
\* future that was never made, the release is under way only once the future has
\* ended, and a call that waits was made outside the pool.
CallStates ==
  \A c \in Calls :
    /\ fut[c] = "none" => callback[c] = "none"
    /\ pc[c] = "idle" => fut[c] = "none"
    /\ pc[c] = "submitted" => fut[c] # "none"
    /\ callback[c] \in {"owed", "half", "released"} => fut[c] \in {"done", "cancelled"}
    /\ pc[c] \in {"submitted", "waiting", "cancelling", "shed", "timeout"} =>
         parent[c] = NoCall

\* The queue holds each call once, and just those that have not started.
QueueStates ==
  /\ \A i \in 1..Len(queue) : fut[queue[i]] \in {"pending", "cancelled"}
  /\ \A i, j \in 1..Len(queue) : queue[i] = queue[j] => i = j
  /\ \A c \in Calls : fut[c] = "pending" => \E i \in 1..Len(queue) : queue[i] = c

\* A running function occupies a worker, and there are no more workers than that.
WorkerStates ==
  /\ \A c \in Calls : fut[c] = "running" => c \in onWorker
  /\ Cardinality(onWorker) <= MaxWorkers

\* A pool that is being joined takes no work, and one that was joined has none.
CloserStates ==
  \A k \in Closers :
    /\ closer[k] \in {"joining", "joined"} => poolDown
    /\ closer[k] = "joined" => queue = <<>> /\ onWorker = {}

ExecutorInv ==
  TypeOK /\ PermitAccounting /\ CallStates /\ QueueStates /\ WorkerStates /\ CloserStates

\* Every action, for the steps that treat them alike.
LEMMA Actions ==
  ASSUME [Next]_vars
  PROVE  \/ \E c \in Calls, t \in Calls \cup {NoCall} :
              \/ RefuseClosed(c, t) \/ RunInline(c, t) \/ Shed(c, t)
              \/ SubmitFails(c, t) \/ Submit(c, t)
         \/ \E c \in Calls :
              \/ AttachCallback(c) \/ GetResult(c) \/ TimeoutSync(c) \/ TimeoutAsync(c)
              \/ FinishInline(c) \/ FinishWork(c) \/ ReleaseCount(c) \/ ReleasePermit(c)
         \/ TakeWork
         \/ \E k \in Closers : \/ BeginShutdown(k) \/ JoinPool(k)
                               \/ \E wait \in BOOLEAN : ShutdownPool(k, wait)
         \/ ExternalShutdown
         \/ UNCHANGED vars
BY DEF Next, RunWithTimeout, GiveUp, Shutdown

\* What __init__ checks of max_workers and max_pending, for arithmetic.
LEMMA CapacityIsNumber == Capacity \in Nat /\ MaxWorkers \in Nat
BY CapacityAssumption DEF CapacityAssumption, Capacity

\* Holders and Counted are finite, so that their sizes are numbers.
LEMMA HoldersFinite ==
  /\ IsFiniteSet(Holders) /\ Cardinality(Holders) \in Nat
  /\ IsFiniteSet(Counted) /\ Cardinality(Counted) \in Nat
  /\ Cardinality(Counted) <= Cardinality(Holders)
<1>1. Holders \subseteq Calls /\ Counted \subseteq Holders
  BY DEF Holders, Counted
<1>2. IsFiniteSet(Holders)
  BY <1>1, CallsAssumption, FS_Subset DEF CallsAssumption
<1>3. IsFiniteSet(Counted) /\ Cardinality(Counted) <= Cardinality(Holders)
  BY <1>1, <1>2, FS_Subset
<1> QED BY <1>2, <1>3, FS_CardinalityType

\* Only submission and the two halves of _release move the count or the permits.
LEMMA QuietSteps ==
  ASSUME ExecutorInv, [Next]_vars,
         \A c \in Calls, t \in Calls \cup {NoCall} : ~Submit(c, t),
         \A c \in Calls : ~ReleaseCount(c) /\ ~ReleasePermit(c)
  PROVE  Holders' = Holders /\ Counted' = Counted /\ UNCHANGED <<sem, inFlight>>
<1> USE DEF ExecutorInv, TypeOK, CallStates, Holders, Counted
<1>1. CASE UNCHANGED <<fut, callback, sem, inFlight>>
  BY <1>1
<1>2. ASSUME NEW c \in Calls, AttachCallback(c)
      PROVE  Holders' = Holders /\ Counted' = Counted /\ UNCHANGED <<sem, inFlight>>
  BY <1>2 DEF AttachCallback, Futures, Callbacks
<1>3. ASSUME NEW c \in Calls, TimeoutAsync(c)
      PROVE  Holders' = Holders /\ Counted' = Counted /\ UNCHANGED <<sem, inFlight>>
  BY <1>3 DEF TimeoutAsync, Futures, Callbacks
<1>4. ASSUME NEW c \in Calls, FinishWork(c)
      PROVE  Holders' = Holders /\ Counted' = Counted /\ UNCHANGED <<sem, inFlight>>
  BY <1>4 DEF FinishWork, Futures, Callbacks
<1>5. CASE TakeWork
  BY <1>5 DEF TakeWork, QueueStates, Futures, Callbacks
<1> QED
  BY <1>1, <1>2, <1>3, <1>4, <1>5, Actions
     DEF RefuseClosed, RunInline, Shed, SubmitFails, GetResult, TimeoutSync, FinishInline,
         BeginShutdown, ShutdownPool, JoinPool, ExternalShutdown, vars

\* The accounting survives every step.
LEMMA AccountingStep ==
  ASSUME ExecutorInv, [Next]_vars
  PROVE  PermitAccounting'
<1> USE CapacityIsNumber, HoldersFinite DEF ExecutorInv, TypeOK, PermitAccounting
<1>1. ASSUME NEW c \in Calls, NEW t \in Calls \cup {NoCall}, Submit(c, t)
      PROVE  PermitAccounting'
  <2>1. c \notin Holders /\ c \notin Counted
    BY <1>1 DEF Submit, MayCall, CallStates, Holders, Counted
  <2>2. Holders' = Holders \cup {c} /\ Counted' = Counted \cup {c}
    BY <1>1 DEF Submit, MayCall, CallStates, Holders, Counted
  <2>3. /\ Cardinality(Holders') = Cardinality(Holders) + 1
        /\ Cardinality(Counted') = Cardinality(Counted) + 1
    BY <2>1, <2>2, FS_AddElement
  <2> QED BY <1>1, <2>3 DEF Submit, Capacity
<1>2. ASSUME NEW c \in Calls, ReleaseCount(c)
      PROVE  PermitAccounting'
  <2>1. c \in Counted
    BY <1>2 DEF ReleaseCount, CallStates, Counted
  <2>2. Holders' = Holders /\ Counted' = Counted \ {c}
    BY <1>2 DEF ReleaseCount, Holders, Counted
  <2>3. Cardinality(Counted') = Cardinality(Counted) - 1
    BY <2>1, <2>2, FS_RemoveElement
  <2> QED BY <1>2, <2>2, <2>3 DEF ReleaseCount, Capacity
<1>3. ASSUME NEW c \in Calls, ReleasePermit(c)
      PROVE  PermitAccounting'
  <2>1. c \in Holders /\ c \notin Counted
    BY <1>3 DEF ReleasePermit, CallStates, Holders, Counted
  <2>2. Holders' = Holders \ {c} /\ Counted' = Counted
    BY <1>3 DEF ReleasePermit, Holders, Counted
  <2>3. Cardinality(Holders') = Cardinality(Holders) - 1
    BY <2>1, <2>2, FS_RemoveElement
  <2>4. Counted' \subseteq Holders'
    BY DEF Holders, Counted
  <2>5. IsFiniteSet(Holders')
    BY <2>2, FS_RemoveElement
  <2>6. Cardinality(Counted') <= Cardinality(Holders')
    BY <2>4, <2>5, FS_Subset
  <2> QED BY <1>3, <2>2, <2>3, <2>6 DEF ReleasePermit, Capacity
<1>4. CASE Holders' = Holders /\ Counted' = Counted /\ UNCHANGED <<sem, inFlight>>
  BY <1>4 DEF Capacity
<1> QED BY <1>1, <1>2, <1>3, <1>4, QuietSteps

\* The variables keep their types.  The bounds of the two counters come from the
\* accounting after the step.
LEMMA TypesStep ==
  ASSUME ExecutorInv, [Next]_vars
  PROVE  TypeOK'
<1> USE CapacityIsNumber DEF ExecutorInv, TypeOK
<1> DEFINE Counters == sem \in 0..Capacity /\ inFlight \in 0..Capacity
           Rest == /\ pc \in [Calls -> PCs]
                   /\ parent \in [Calls -> Calls \cup {NoCall}]
                   /\ fut \in [Calls -> Futures]
                   /\ callback \in [Calls -> Callbacks]
                   /\ onWorker \in SUBSET Calls
                   /\ queue \in Seq(Calls)
                   /\ rejected \in Nat
                   /\ closer \in [Closers -> CloserPCs]
           Flags == shut \in BOOLEAN /\ poolDown \in BOOLEAN
<1>1. Counters'
  <2>1. sem' \in Nat
    <3>1. ASSUME NEW c \in Calls, NEW t \in Calls \cup {NoCall}, Submit(c, t)
          PROVE  sem' \in Nat
      BY <3>1 DEF Submit
    <3>2. ASSUME NEW c \in Calls, ReleaseCount(c) \/ ReleasePermit(c)
          PROVE  sem' \in Nat
      BY <3>2 DEF ReleaseCount, ReleasePermit
    <3> QED BY <3>1, <3>2, QuietSteps
  <2>2. PermitAccounting'
    BY AccountingStep
  <2>3. Cardinality(Holders') \in Nat /\ Cardinality(Counted') \in Nat
    <3>1. Holders' \subseteq Calls /\ Counted' \subseteq Calls
      BY DEF Holders, Counted
    <3> QED BY <3>1, CallsAssumption, FS_Subset, FS_CardinalityType DEF CallsAssumption
  <2>4. inFlight' <= Capacity - sem' /\ sem' <= Capacity /\ inFlight' \in Nat
    BY <2>1, <2>2, <2>3 DEF PermitAccounting, Capacity
  <2> QED BY <2>1, <2>4 DEF Capacity
<1>2. Rest'
  <2> USE DEF PCs, Answered, Futures, Callbacks, CloserPCs
  <2>1. ASSUME NEW c \in Calls, NEW t \in Calls \cup {NoCall},
               \/ RefuseClosed(c, t) \/ RunInline(c, t) \/ Shed(c, t)
               \/ SubmitFails(c, t) \/ Submit(c, t)
        PROVE  Rest'
    <3>1. CASE RefuseClosed(c, t) \/ RunInline(c, t)
      BY <3>1 DEF RefuseClosed, RunInline
    <3>2. CASE Shed(c, t) \/ SubmitFails(c, t)
      BY <3>2 DEF Shed, SubmitFails
    <3>3. CASE Submit(c, t)
      BY <3>3 DEF Submit
    <3> QED BY <2>1, <3>1, <3>2, <3>3
  <2>2. ASSUME NEW c \in Calls,
               \/ AttachCallback(c) \/ GetResult(c) \/ TimeoutSync(c) \/ TimeoutAsync(c)
               \/ FinishInline(c) \/ FinishWork(c) \/ ReleaseCount(c) \/ ReleasePermit(c)
        PROVE  Rest'
    BY <2>2 DEF AttachCallback, GetResult, TimeoutSync, TimeoutAsync, FinishInline,
                FinishWork, ReleaseCount, ReleasePermit
  <2>3. CASE TakeWork
    BY <2>3 DEF TakeWork
  <2>4. ASSUME NEW k \in Closers,
               \/ BeginShutdown(k) \/ JoinPool(k)
               \/ \E wait \in BOOLEAN : ShutdownPool(k, wait)
        PROVE  Rest'
    BY <2>4 DEF BeginShutdown, ShutdownPool, JoinPool
  <2>5. CASE ExternalShutdown \/ UNCHANGED vars
    BY <2>5 DEF ExternalShutdown, vars
  <2> QED BY <2>1, <2>2, <2>3, <2>4, <2>5, Actions
<1>3. Flags'
  <2>1. (shut' = TRUE \/ shut' = shut) /\ (poolDown' = TRUE \/ poolDown' = poolDown)
    BY Actions DEF RefuseClosed, RunInline, Shed, SubmitFails, Submit, AttachCallback,
       GetResult, TimeoutSync, TimeoutAsync, FinishInline, FinishWork, ReleaseCount,
       ReleasePermit, TakeWork, BeginShutdown, ShutdownPool, JoinPool, ExternalShutdown,
       vars
  <2> QED BY <2>1, Zenon
<1> QED BY <1>1, <1>2, <1>3

\* Futures, callbacks and callers stay together.
LEMMA CallStatesStep ==
  ASSUME ExecutorInv, [Next]_vars
  PROVE  CallStates'
<1> USE DEF ExecutorInv, TypeOK, CallStates
<1>1. ASSUME NEW c \in Calls, NEW t \in Calls \cup {NoCall},
             \/ RefuseClosed(c, t) \/ RunInline(c, t) \/ Shed(c, t)
             \/ SubmitFails(c, t) \/ Submit(c, t)
      PROVE  CallStates'
  BY <1>1 DEF RefuseClosed, RunInline, Shed, SubmitFails, Submit, MayCall, OnWorkerThread
<1>2. ASSUME NEW c \in Calls,
             \/ AttachCallback(c) \/ GetResult(c) \/ TimeoutSync(c) \/ TimeoutAsync(c)
             \/ FinishInline(c) \/ FinishWork(c) \/ ReleaseCount(c) \/ ReleasePermit(c)
      PROVE  CallStates'
  <2>1. CASE AttachCallback(c)
    BY <2>1 DEF AttachCallback
  <2>2. CASE GetResult(c) \/ TimeoutSync(c) \/ FinishInline(c)
    BY <2>2 DEF GetResult, TimeoutSync, FinishInline
  <2>3. CASE TimeoutAsync(c)
    BY <2>3 DEF TimeoutAsync
  <2>4. CASE FinishWork(c)
    BY <2>4 DEF FinishWork
  <2>5. CASE ReleaseCount(c)
    BY <2>5 DEF ReleaseCount
  <2>6. CASE ReleasePermit(c)
    BY <2>6 DEF ReleasePermit
  <2> QED BY <1>2, <2>1, <2>2, <2>3, <2>4, <2>5, <2>6
<1>3. CASE TakeWork
  BY <1>3 DEF TakeWork, QueueStates
<1>4. CASE UNCHANGED <<pc, parent, fut, callback>>
  BY <1>4
<1> QED BY <1>1, <1>2, <1>3, <1>4, Actions
        DEF BeginShutdown, ShutdownPool, JoinPool, ExternalShutdown, vars

\* The queue keeps each waiting call once.
LEMMA QueueStatesStep ==
  ASSUME ExecutorInv, [Next]_vars
  PROVE  QueueStates'
<1> USE DEF ExecutorInv, TypeOK, QueueStates
<1>1. ASSUME NEW c \in Calls, NEW t \in Calls \cup {NoCall}, Submit(c, t)
      PROVE  QueueStates'
  <2>1. /\ Len(queue') = Len(queue) + 1
        /\ \A i \in 1..Len(queue) : queue'[i] = queue[i]
        /\ queue'[Len(queue) + 1] = c
    BY <1>1 DEF Submit
  <2>2. fut[c] = "none" /\ fut' = [fut EXCEPT ![c] = "pending"]
    BY <1>1 DEF Submit, MayCall, CallStates
  <2>3. \A i \in 1..Len(queue) : queue[i] # c /\ queue[i] \in Calls
    BY <2>2
  <2>4. \A i \in 1..Len(queue') : i \in 1..Len(queue) \/ i = Len(queue) + 1
    BY <2>1
  <2>5. \A i \in 1..Len(queue') : fut'[queue'[i]] \in {"pending", "cancelled"}
    BY <2>1, <2>2, <2>3, <2>4
  <2>6. \A i, j \in 1..Len(queue') : queue'[i] = queue'[j] => i = j
    BY <2>1, <2>3, <2>4
  <2>7. \A d \in Calls : fut'[d] = "pending" => \E i \in 1..Len(queue') : queue'[i] = d
    <3> SUFFICES ASSUME NEW d \in Calls, fut'[d] = "pending"
                 PROVE  \E i \in 1..Len(queue') : queue'[i] = d
      OBVIOUS
    <3>1. CASE d = c
      BY <2>1, <3>1
    <3>2. CASE d # c
      BY <2>1, <2>2, <3>2
    <3> QED BY <3>1, <3>2
  <2> QED BY <2>5, <2>6, <2>7
<1>2. ASSUME NEW c \in Calls, TimeoutAsync(c)
      PROVE  QueueStates'
  BY <1>2 DEF TimeoutAsync
<1>3. ASSUME NEW c \in Calls, FinishWork(c)
      PROVE  QueueStates'
  BY <1>3 DEF FinishWork
<1>4. CASE TakeWork
  <2> DEFINE c == Head(queue)
  <2>1. /\ Len(queue) > 0 /\ c = queue[1] /\ c \in Calls
        /\ Len(queue') = Len(queue) - 1
        /\ \A i \in 1..Len(queue') : queue'[i] = queue[i + 1] /\ i + 1 \in 1..Len(queue)
    BY <1>4 DEF TakeWork
  <2>2. \A i \in 1..Len(queue') : queue'[i] # c /\ queue'[i] \in Calls
    <3> SUFFICES ASSUME NEW i \in 1..Len(queue')
                 PROVE  queue'[i] # c /\ queue'[i] \in Calls
      OBVIOUS
    <3>1. 1 \in 1..Len(queue) /\ i + 1 \in 1..Len(queue) /\ i + 1 # 1
      BY <2>1
    <3>2. queue[i + 1] # queue[1] /\ queue[i + 1] \in Calls
      BY <3>1
    <3> QED BY <2>1, <3>2
  <2>3. fut' = fut \/ fut' = [fut EXCEPT ![c] = "running"]
    BY <1>4 DEF TakeWork
  <2>4. \A i \in 1..Len(queue') : fut'[queue'[i]] \in {"pending", "cancelled"}
    BY <2>1, <2>2, <2>3
  <2>5. \A i, j \in 1..Len(queue') : queue'[i] = queue'[j] => i = j
    BY <2>1
  <2>6. \A d \in Calls : fut'[d] = "pending" => \E i \in 1..Len(queue') : queue'[i] = d
    <3> SUFFICES ASSUME NEW d \in Calls, fut'[d] = "pending"
                 PROVE  \E i \in 1..Len(queue') : queue'[i] = d
      OBVIOUS
    <3>1. fut[d] = "pending" /\ d # c
      BY <1>4, <2>1, <2>3 DEF TakeWork
    <3>2. PICK i \in 1..Len(queue) : queue[i] = d
      BY <3>1
    <3>3. i # 1
      BY <2>1, <3>1, <3>2
    <3>4. i - 1 \in 1..Len(queue') /\ queue'[i - 1] = d
      BY <2>1, <3>2, <3>3
    <3> QED BY <3>4
  <2> QED BY <2>4, <2>5, <2>6
<1>5. CASE UNCHANGED <<fut, queue>>
  BY <1>5
<1> QED BY <1>1, <1>2, <1>3, <1>4, <1>5, Actions
        DEF RefuseClosed, RunInline, Shed, SubmitFails, AttachCallback, GetResult,
            TimeoutSync, FinishInline, ReleaseCount, ReleasePermit, BeginShutdown,
            ShutdownPool, JoinPool, ExternalShutdown, vars

\* Functions run on workers only, and a worker is left when its function ended.
LEMMA WorkerStatesStep ==
  ASSUME ExecutorInv, [Next]_vars
  PROVE  WorkerStates'
<1> USE CapacityIsNumber DEF ExecutorInv, TypeOK, WorkerStates
<1>0. IsFiniteSet(onWorker) /\ Cardinality(onWorker) \in Nat
  BY CallsAssumption, FS_Subset, FS_CardinalityType DEF CallsAssumption
<1>1. ASSUME NEW c \in Calls, Submit(c, NoCall) \/ TimeoutAsync(c)
      PROVE  WorkerStates'
  BY <1>1 DEF Submit, TimeoutAsync
<1>2. ASSUME NEW c \in Calls, FinishWork(c) \/ ReleasePermit(c)
      PROVE  WorkerStates'
  <2>1. Cardinality(onWorker') <= Cardinality(onWorker) /\ Cardinality(onWorker') \in Nat
    <3>1. onWorker' \subseteq onWorker
      BY <1>2 DEF FinishWork, ReleasePermit
    <3> QED BY <1>0, <3>1, FS_Subset, FS_CardinalityType
  <2>2. \A d \in Calls : fut'[d] = "running" => d \in onWorker'
    BY <1>2 DEF FinishWork, ReleasePermit, CallStates
  <2> QED BY <1>0, <2>1, <2>2
<1>3. CASE TakeWork
  <2>1. CASE UNCHANGED <<fut, onWorker>>
    BY <2>1
  <2>2. ASSUME NEW c \in Calls, fut' = [fut EXCEPT ![c] = "running"],
               onWorker' = onWorker \cup {c}
        PROVE  WorkerStates'
    <3>1. /\ Cardinality(onWorker \cup {c}) <= Cardinality(onWorker) + 1
          /\ Cardinality(onWorker \cup {c}) \in Nat
      <4>1. /\ IsFiniteSet(onWorker \cup {c})
            /\ Cardinality(onWorker \cup {c}) =
                 IF c \in onWorker THEN Cardinality(onWorker) ELSE Cardinality(onWorker) + 1
        BY <1>0, FS_AddElement, Zenon
      <4> QED BY <1>0, <4>1
    <3>2. Cardinality(onWorker) < MaxWorkers
      BY <1>3 DEF TakeWork
    <3> QED BY <1>0, <2>2, <3>1, <3>2
  <2> QED BY <1>3, <2>1, <2>2 DEF TakeWork
<1>4. CASE UNCHANGED <<fut, onWorker>>
  BY <1>4
<1>5. ASSUME NEW c \in Calls, NEW t \in Calls \cup {NoCall}, Submit(c, t)
      PROVE  t = NoCall
  BY <1>5 DEF Submit, OnWorkerThread
<1> QED BY <1>1, <1>2, <1>3, <1>4, <1>5, Actions
        DEF RefuseClosed, RunInline, Shed, SubmitFails, AttachCallback, GetResult,
            TimeoutSync, FinishInline, ReleaseCount, BeginShutdown, ShutdownPool,
            JoinPool, ExternalShutdown, vars

\* A joined pool stays empty: nothing enters one that is down.
LEMMA CloserStatesStep ==
  ASSUME ExecutorInv, [Next]_vars
  PROVE  CloserStates'
<1> USE DEF ExecutorInv, TypeOK, CloserStates
<1>1. ASSUME NEW c \in Calls, NEW t \in Calls \cup {NoCall}, Submit(c, t)
      PROVE  CloserStates'
  BY <1>1 DEF Submit
<1>2. ASSUME NEW c \in Calls, FinishWork(c) \/ ReleasePermit(c)
      PROVE  CloserStates'
  BY <1>2 DEF FinishWork, ReleasePermit
<1>3. CASE TakeWork
  BY <1>3 DEF TakeWork
<1>4. ASSUME NEW k \in Closers, \/ BeginShutdown(k) \/ JoinPool(k)
                                \/ \E wait \in BOOLEAN : ShutdownPool(k, wait)
      PROVE  CloserStates'
  BY <1>4 DEF BeginShutdown, ShutdownPool, JoinPool
<1>5. CASE ExternalShutdown
  BY <1>5 DEF ExternalShutdown
<1>6. CASE UNCHANGED <<queue, onWorker, poolDown, closer>>
  BY <1>6
<1> QED BY <1>1, <1>2, <1>3, <1>4, <1>5, <1>6, Actions
        DEF RefuseClosed, RunInline, Shed, SubmitFails, AttachCallback, GetResult,
            TimeoutSync, TimeoutAsync, FinishInline, ReleaseCount, vars

\* Before the first call nothing is held.
LEMMA ExecutorInitially == Init => ExecutorInv
<1> USE CapacityIsNumber
<1> SUFFICES ASSUME Init PROVE ExecutorInv
  OBVIOUS
<1>1. shut \in BOOLEAN /\ poolDown \in BOOLEAN
  BY Zenon DEF Init
<1>2. TypeOK
  BY <1>1 DEF Init, TypeOK, PCs, Futures, Callbacks, CloserPCs
<1>3. PermitAccounting
  <2>1. Holders = {} /\ Counted = {}
    BY DEF Init, Holders, Counted
  <2> QED BY <2>1, FS_EmptySet DEF Init, PermitAccounting
<1>4. CallStates /\ QueueStates /\ CloserStates
  BY DEF Init, CallStates, QueueStates, CloserStates
<1>5. WorkerStates
  BY FS_EmptySet DEF Init, WorkerStates
<1> QED BY <1>2, <1>3, <1>4, <1>5 DEF ExecutorInv

\* The invariant holds in every reachable state of the executor.
LEMMA ExecutorInvariant == Spec => []ExecutorInv
<1>1. ExecutorInv /\ [Next]_vars => ExecutorInv'
  BY TypesStep, AccountingStep, CallStatesStep, QueueStatesStep, WorkerStatesStep,
     CloserStatesStep DEF ExecutorInv
<1> QED BY <1>1, ExecutorInitially, PTL DEF Spec

\* The fields of the executor, its semaphore and its futures keep their types: the
\* BoundedSemaphore is never released past its capacity.
THEOREM ExecutorTypes == Spec => []TypeOK
<1>1. ExecutorInv => TypeOK
  BY DEF ExecutorInv
<1> QED BY <1>1, ExecutorInvariant, PTL

\* Every permit is in the semaphore or held by exactly one submitted call, on every
\* path of _acquire_and_submit, _release and the timeouts.
THEOREM PermitsAccounted == Spec => []PermitAccounting
<1>1. ExecutorInv => PermitAccounting
  BY DEF ExecutorInv
<1> QED BY <1>1, ExecutorInvariant, PTL

\* Abandoned functions keep their capacity: the queued and running ones never
\* outnumber the permits taken, nor the running ones the workers.
THEOREM ZombiesCounted == Spec => []ZombiesOccupyCapacity
<1>1. ExecutorInv => ZombiesOccupyCapacity
  <2> SUFFICES ASSUME ExecutorInv PROVE ZombiesOccupyCapacity
    OBVIOUS
  <2> USE CapacityIsNumber DEF ExecutorInv, TypeOK
  <2>1. Cardinality(Outstanding) \in Nat /\ Cardinality(Outstanding) <= Cardinality(Holders)
    <3>1. Outstanding \subseteq Holders
      BY DEF Outstanding, Holders, CallStates
    <3> QED BY <3>1, HoldersFinite, FS_Subset, FS_CardinalityType
  <2>2. Cardinality(Outstanding) <= Capacity - sem
    BY <2>1, HoldersFinite DEF PermitAccounting, Capacity
  <2>3. Cardinality({c \in Calls : fut[c] = "running"}) <= MaxWorkers
    <3> DEFINE Running == {c \in Calls : fut[c] = "running"}
    <3>1. IsFiniteSet(onWorker) /\ Running \subseteq onWorker
      BY CallsAssumption, FS_Subset DEF CallsAssumption, WorkerStates
    <3>2. /\ Cardinality(Running) <= Cardinality(onWorker)
          /\ Cardinality(Running) \in Nat /\ Cardinality(onWorker) \in Nat
      BY <3>1, FS_Subset, FS_CardinalityType
    <3> QED BY <3>2 DEF WorkerStates
  <2> QED BY <2>2, <2>3 DEF ZombiesOccupyCapacity
<1> QED BY <1>1, ExecutorInvariant, PTL

\* A call made from one of the pool's own workers is neither shed nor timed out: it
\* never waits in the queue behind the worker that waits for it.
THEOREM NestedCallsRun == Spec => []NestedNeverStarved
<1>1. ExecutorInv => NestedNeverStarved
  BY DEF ExecutorInv, CallStates, NestedNeverStarved
<1> QED BY <1>1, ExecutorInvariant, PTL

\* When shutdown(wait=True) has returned no function is queued or running.
THEOREM JoinedPoolIsQuiet == Spec => []JoinedMeansQuiet
<1>1. ExecutorInv => JoinedMeansQuiet
  <2> SUFFICES ASSUME ExecutorInv, NEW k \in Closers, closer[k] = "joined",
                      NEW c \in Calls, fut[c] \in {"pending", "running"}
               PROVE  FALSE
    BY DEF JoinedMeansQuiet, Outstanding
  <2>1. queue = <<>> /\ onWorker = {}
    BY DEF ExecutorInv, CloserStates
  <2> QED BY <2>1 DEF ExecutorInv, QueueStates, WorkerStates
<1> QED BY <1>1, ExecutorInvariant, PTL

\* Load is shed only at full capacity, and nothing is submitted once the executor
\* is shut.
THEOREM ShedsWhenSaturated == Spec => ShedOnlyWhenSaturated
<1>1. ExecutorInv /\ [Next]_vars =>
        [/\ rejected' # rejected => Cardinality(Holders) = Capacity
         /\ shut => \A c \in Calls : fut[c] = "none" => fut'[c] = "none"]_vars
  <2> SUFFICES ASSUME ExecutorInv, [Next]_vars
               PROVE  /\ rejected' # rejected => Cardinality(Holders) = Capacity
                      /\ shut => \A c \in Calls : fut[c] = "none" => fut'[c] = "none"
    OBVIOUS
  <2> USE CapacityIsNumber, HoldersFinite DEF ExecutorInv, TypeOK
  <2>1. ASSUME rejected' # rejected
        PROVE  Cardinality(Holders) = Capacity
    <3>1. sem = 0
      BY <2>1, Actions
         DEF RefuseClosed, RunInline, Shed, SubmitFails, Submit, AttachCallback, GetResult,
             TimeoutSync, TimeoutAsync, FinishInline, FinishWork, ReleaseCount,
             ReleasePermit, TakeWork, BeginShutdown, ShutdownPool, JoinPool,
             ExternalShutdown, vars
    <3> QED BY <3>1 DEF PermitAccounting, Capacity
  <2>2. ASSUME shut, NEW c \in Calls, fut[c] = "none"
        PROVE  fut'[c] = "none"
    <3>1. CASE fut' = fut
      BY <2>2, <3>1
    <3>2. CASE TakeWork
      BY <2>2, <3>2 DEF TakeWork, QueueStates
    <3>3. ASSUME NEW d \in Calls, TimeoutAsync(d) \/ FinishWork(d)
          PROVE  fut'[c] = "none"
      BY <2>2, <3>3 DEF TimeoutAsync, FinishWork
    <3> QED
      BY <2>2, <3>1, <3>2, <3>3, Actions
         DEF RefuseClosed, RunInline, Shed, SubmitFails, Submit, AttachCallback, GetResult,
             TimeoutSync, FinishInline, ReleaseCount, ReleasePermit, BeginShutdown,
             ShutdownPool, JoinPool, ExternalShutdown, vars
  <2> QED BY <2>1, <2>2
<1> QED BY <1>1, ExecutorInvariant, PTL DEF Spec, ShedOnlyWhenSaturated
=============================================================================
