------------------------- MODULE ControlPlaneProofs -------------------------
(***************************************************************************)
(* Proofs about the two parts that stand between the program and its       *)
(* control plane: the shared circuit breaker, for any number of clients,   *)
(* any threshold and any cooldown, and the telemetry bus behind it, for    *)
(* any number of events and stopping threads and any queue and batch size. *)
(* Each has one inductive invariant; the bus is then shown to implement    *)
(* the lossy channel.                                                      *)
(***************************************************************************)
EXTENDS BreakerClients, EventBus, FiniteSetTheorems, SequenceTheorems, TLAPS

-----------------------------------------------------------------------------
(* The breaker (BreakerClients).                                           *)

\* How the model's two clocks agree: while the breaker is open its age is the time
\* since the last failure that opened it, and it half-opens at the end of it.
ClocksAgree ==
  /\ state = "OPEN" => age = rest
  /\ state = "HALF_OPEN" => rest = Cooldown

BreakerInv == ClientsTypeOK /\ OpenOnEvidence /\ OneProbePerEpisode /\ ClocksAgree

\* What __init__ checks of failure_threshold and cooldown_seconds, for arithmetic.
LEMMA ParametersAreNumbers == Threshold \in Nat /\ Threshold > 0 /\ Cooldown \in Nat
BY BreakerAssumption DEF BreakerAssumption

\* The breaker starts closed, with no evidence against the plane.
LEMMA BreakerInitially == ClientsInit => BreakerInv
<1> USE ParametersAreNumbers, ClientsAssumption DEF ClientsAssumption
<1> SUFFICES ASSUME ClientsInit PROVE BreakerInv
  OBVIOUS
<1>0. probe \in BOOLEAN
  BY Zenon DEF ClientsInit, BreakerInit
<1>1. ClientsTypeOK
  BY <1>0 DEF ClientsInit, BreakerInit, ClientsTypeOK, BreakerTypeOK
<1>2. OpenOnEvidence /\ OneProbePerEpisode /\ ClocksAgree
  BY DEF ClientsInit, BreakerInit, OpenOnEvidence, OneProbePerEpisode, ClocksAgree
<1> QED BY <1>1, <1>2 DEF BreakerInv

\* The invariant survives allow() answering yes.
LEMMA BeginKeeps ==
  ASSUME NEW c \in Clients, BreakerInv, Begin(c)
  PROVE  BreakerInv'
<1> USE ParametersAreNumbers, ClientsAssumption DEF ClientsAssumption, BreakerInv, Begin, AllowGranted
<1>1. ClientsTypeOK'
  BY DEF ClientsTypeOK, BreakerTypeOK, StateNow, ProbeNow, ProbersNow, CooledDown
<1>2. OpenOnEvidence' /\ ClocksAgree'
  BY DEF ClientsTypeOK, BreakerTypeOK, OpenOnEvidence, ClocksAgree, StateNow, CooledDown
<1>3. OneProbePerEpisode'
  <2> SUFFICES ASSUME state' = "HALF_OPEN"
               PROVE  Cardinality(prober') = 1 /\ probe'
    BY DEF OneProbePerEpisode
  <2>1. StateNow = "HALF_OPEN" /\ ~ProbeNow /\ probe'
    OBVIOUS
  <2>2. ProbersNow = {}
    <3>1. CASE CooledDown
      BY <3>1 DEF ProbersNow
    <3>2. CASE ~CooledDown
      <4>1. Cardinality(prober) = 0
        BY <2>1, <3>2 DEF OneProbePerEpisode, StateNow, ProbeNow, ClientsTypeOK, BreakerTypeOK
      <4>2. IsFiniteSet(prober)
        BY FS_Subset DEF ClientsTypeOK
      <4> QED BY <3>2, <4>1, <4>2, FS_EmptySet DEF ProbersNow
    <3> QED BY <3>1, <3>2
  <2>3. prober' = {c}
    BY <2>1, <2>2
  <2> QED BY <2>1, <2>3, FS_Singleton
<1> QED BY <1>1, <1>2, <1>3

\* Every step keeps the invariant.  A report never half-opens the breaker, and a
\* breaker that half-opens on inspection starts an episode with no prober.
LEMMA BreakerStep == BreakerInv /\ [ClientsNext]_clientVars => BreakerInv'
<1> USE ParametersAreNumbers, ClientsAssumption DEF ClientsAssumption
<1> SUFFICES ASSUME BreakerInv, [ClientsNext]_clientVars PROVE BreakerInv'
  OBVIOUS
<1>1. ASSUME NEW c \in Clients, Begin(c) PROVE BreakerInv'
  BY <1>1, BeginKeeps
<1>2. ASSUME AllowRefused \/ ReadState, prober' = ProbersNow, UNCHANGED <<call, rest>>
      PROVE  BreakerInv'
  <2>1. state' = StateNow /\ probe' = ProbeNow /\ UNCHANGED <<failures, age>>
    BY <1>2 DEF AllowRefused, ReadState
  <2>2. ClientsTypeOK'
    BY <1>2, <2>1 DEF BreakerInv, ClientsTypeOK, BreakerTypeOK, StateNow, ProbeNow, ProbersNow
  <2>3. OpenOnEvidence' /\ ClocksAgree'
    BY <1>2, <2>1 DEF BreakerInv, ClientsTypeOK, BreakerTypeOK, OpenOnEvidence, ClocksAgree,
                      StateNow, CooledDown
  <2>4. OneProbePerEpisode'
    BY <1>2, <2>1, FS_EmptySet DEF BreakerInv, OneProbePerEpisode, StateNow, ProbeNow,
                                   ProbersNow, CooledDown
  <2> QED BY <2>2, <2>3, <2>4 DEF BreakerInv
<1>3. ASSUME NEW c \in Clients, Refused(c) PROVE BreakerInv'
  BY <1>2, <1>3 DEF Refused
<1>4. CASE Inspect
  BY <1>2, <1>4 DEF Inspect
<1>5. ASSUME NEW c \in Clients, Succeed(c) PROVE BreakerInv'
  <2>1. probe' \in BOOLEAN
    BY <1>5, Zenon DEF Succeed, RecordSuccess
  <2> QED BY <1>5, <2>1 DEF BreakerInv, Succeed, RecordSuccess, ClientsTypeOK, BreakerTypeOK,
                            OpenOnEvidence, OneProbePerEpisode, ClocksAgree
<1>6. ASSUME NEW c \in Clients, Fail(c) PROVE BreakerInv'
  <2> USE <1>6 DEF BreakerInv, Fail, RecordFailure, Trips
  <2>0. probe' \in BOOLEAN
    BY Zenon
  <2>1. ClientsTypeOK'
    BY <2>0 DEF ClientsTypeOK, BreakerTypeOK
  <2>2. OpenOnEvidence'
    BY DEF ClientsTypeOK, BreakerTypeOK, OpenOnEvidence
  <2>3. state' # "HALF_OPEN"
    BY DEF ClientsTypeOK, BreakerTypeOK
  <2>4. ClocksAgree'
    BY <2>3 DEF ClientsTypeOK, BreakerTypeOK, OpenOnEvidence, ClocksAgree
  <2> QED BY <2>1, <2>2, <2>3, <2>4 DEF OneProbePerEpisode
<1>7. ASSUME NEW c \in Clients, Desert(c) PROVE BreakerInv'
  BY <1>7 DEF BreakerInv, Desert, ClientsTypeOK, BreakerTypeOK, OpenOnEvidence,
              OneProbePerEpisode, ClocksAgree
<1>8. CASE Elapse
  BY <1>8 DEF BreakerInv, Elapse, Tick, breakerVars, ClientsTypeOK, BreakerTypeOK,
              OpenOnEvidence, OneProbePerEpisode, ClocksAgree
<1>9. CASE UNCHANGED clientVars
  BY <1>9 DEF BreakerInv, clientVars, ClientsTypeOK, BreakerTypeOK, OpenOnEvidence,
              OneProbePerEpisode, ClocksAgree
<1> QED BY <1>1, <1>3, <1>4, <1>5, <1>6, <1>7, <1>8, <1>9 DEF ClientsNext, Report

\* The invariant holds in every reachable state of the shared breaker.
LEMMA BreakerInvariant == ClientsSpec => []BreakerInv
BY BreakerInitially, BreakerStep, PTL DEF ClientsSpec

\* The state of circuit_breaker.py is what its fields are meant to hold, whatever
\* the clients of allow(), record_success() and record_failure() do.
THEOREM BreakerTypes == ClientsSpec => []ClientsTypeOK
<1>1. BreakerInv => ClientsTypeOK
  BY DEF BreakerInv
<1> QED BY <1>1, BreakerInvariant, PTL

\* The breaker has left CLOSED exactly when the failures since the last success have
\* reached the threshold, in whatever order late reports arrive.
THEOREM OpensOnEvidence == ClientsSpec => []OpenOnEvidence
<1>1. BreakerInv => OpenOnEvidence
  BY DEF BreakerInv
<1> QED BY <1>1, BreakerInvariant, PTL

\* allow() admits at most one call in each half-open episode, for any number of
\* concurrent callers.
THEOREM AdmitsOneProbe == ClientsSpec => []OneProbePerEpisode
<1>1. BreakerInv => OneProbePerEpisode
  BY DEF BreakerInv
<1> QED BY <1>1, BreakerInvariant, PTL

\* allow() on a breaker that is not closed admits nobody before the whole cooldown
\* has passed since the last failure that opened or re-opened it.
THEOREM RespectsCooldown == ClientsSpec => CooldownRespected
<1>1. BreakerInv /\ [ClientsNext]_clientVars =>
        [\A c \in Clients : call[c] = "none" /\ call'[c] # "none" /\ state # "CLOSED"
            => rest = Cooldown]_clientVars
  <2> SUFFICES ASSUME BreakerInv, ClientsNext,
                      NEW c \in Clients, call[c] = "none", call'[c] # "none",
                      state # "CLOSED"
               PROVE  rest = Cooldown
    OBVIOUS
  <2>1. Begin(c)
    BY DEF ClientsNext, Report, Begin, Refused, Succeed, Fail, Desert, Inspect, Elapse,
           BreakerInv, ClientsTypeOK
  <2> QED BY <2>1 DEF Begin, AllowGranted, StateNow, CooledDown, BreakerInv, ClocksAgree,
                      ClientsTypeOK, BreakerTypeOK
<1> QED BY <1>1, BreakerInvariant, PTL DEF ClientsSpec, CooldownRespected

-----------------------------------------------------------------------------
(* Sequences, as the bus uses them.                                        *)

\* An event moved from the front of the queue to the end of the batch is still in
\* the same place between the events before and after it.
LEMMA TakeMovesBorder ==
  ASSUME NEW S, NEW b \in Seq(S), NEW q \in Seq(S), q # <<>>
  PROVE  Append(b, Head(q)) \o Tail(q) = b \o q
<1> DEFINE h == Head(q)
           t == Tail(q)
<1>1. h \in S /\ t \in Seq(S) /\ Len(t) = Len(q) - 1 /\ Len(q) \in Nat /\ Len(b) \in Nat
  BY HeadTailProperties, LenProperties
<1>2. h = q[1] /\ \A i \in 1..Len(t) : t[i] = q[i+1]
  BY HeadTailProperties
<1> HIDE DEF h, t
<1> DEFINE a == Append(b, h)
<1>3. a \in Seq(S) /\ Len(a) = Len(b) + 1 /\ a[Len(b)+1] = h /\ \A i \in 1..Len(b) : a[i] = b[i]
  BY <1>1, AppendProperties
<1> HIDE DEF a
<1>4. /\ a \o t \in Seq(S) /\ Len(a \o t) = Len(a) + Len(t)
      /\ \A i \in 1..Len(a) + Len(t) : (a \o t)[i] = IF i <= Len(a) THEN a[i] ELSE t[i - Len(a)]
  BY <1>1, <1>3, ConcatProperties
<1>5. /\ b \o q \in Seq(S) /\ Len(b \o q) = Len(b) + Len(q)
      /\ \A i \in 1..Len(b) + Len(q) : (b \o q)[i] = IF i <= Len(b) THEN b[i] ELSE q[i - Len(b)]
  BY ConcatProperties
<1>6. Len(a \o t) = Len(b \o q)
  BY <1>1, <1>3, <1>4, <1>5
<1>7. ASSUME NEW i \in 1..Len(b \o q) PROVE (a \o t)[i] = (b \o q)[i]
  <2>1. CASE i <= Len(b)
    BY <2>1, <1>1, <1>3, <1>4, <1>5
  <2>2. CASE i = Len(b) + 1
    BY <2>2, <1>1, <1>2, <1>3, <1>4, <1>5
  <2>3. CASE i > Len(b) + 1
    <3>1. i - Len(a) \in 1..Len(t) /\ i - Len(a) + 1 = i - Len(b)
      BY <2>3, <1>1, <1>3, <1>5
    <3>2. (a \o t)[i] = t[i - Len(a)]
      BY <2>3, <1>1, <1>3, <1>4, <1>5
    <3>3. (b \o q)[i] = q[i - Len(b)]
      BY <2>3, <1>1, <1>5
    <3> QED BY <3>1, <3>2, <3>3, <1>2
  <2>4. i \in Nat
    BY <1>1, <1>5
  <2>5. i <= Len(b) \/ i = Len(b) + 1 \/ i > Len(b) + 1
    BY <2>4, <1>1
  <2> QED BY <2>1, <2>2, <2>3, <2>5
<1>8. a \o t = b \o q
  BY <1>4, <1>5, <1>6, <1>7, SeqEqual
<1> QED BY <1>8 DEF a, h, t

\* An event put at the end of the queue is at the end of all that is held.
LEMMA AppendAtEnd ==
  ASSUME NEW S, NEW b \in Seq(S), NEW q \in Seq(S), NEW e \in S
  PROVE  b \o Append(q, e) = Append(b \o q, e)
<1>1. <<e>> \in Seq(S) /\ b \o q \in Seq(S)
  BY ConcatProperties
<1>2. Append(q, e) = q \o <<e>> /\ Append(b \o q, e) = (b \o q) \o <<e>>
  BY <1>1, AppendIsConcat
<1> QED BY <1>1, <1>2, ConcatAssociative

\* The batch is the front of what is held, and the queue is the rest.
LEMMA BatchIsFront ==
  ASSUME NEW S, NEW b \in Seq(S), NEW q \in Seq(S), b # <<>>
  PROVE  /\ Len(b) \in 1..Len(b \o q)
         /\ SubSeq(b \o q, 1, Len(b)) = b
         /\ SubSeq(b \o q, Len(b) + 1, Len(b \o q)) = q
<1>1. Len(b) \in Nat \ {0} /\ Len(q) \in Nat /\ Len(b \o q) = Len(b) + Len(q)
  BY EmptySeq, LenProperties, ConcatProperties
<1>2. SubSeq(b \o q, 1, Len(b)) = b
  <2>1. SubSeq(b \o q, 1, Len(b)) = SubSeq(b, 1, Len(b))
    BY <1>1, SubSeqOfConcat1
  <2> QED BY <2>1, SubSeqFull
<1>3. SubSeq(b \o q, Len(b) + 1, Len(b \o q)) = q
  <2>1. CASE q = <<>>
    <3>1. Len(q) = 0
      BY <2>1, EmptySeq
    <3> HIDE <2>1
    <3>2. SubSeq(b \o q, Len(b) + 1, Len(b \o q)) = <<>>
      BY <1>1, <3>1, SubSeqEmpty
    <3> QED BY <2>1, <3>2
  <2>2. CASE q # <<>>
    <3>1. Len(q) >= 1
      BY <2>2, <1>1, EmptySeq
    <3>2. SubSeq(b \o q, Len(b) + 1, Len(b \o q))
            = SubSeq(q, Len(b) + 1 - Len(b), Len(b) + Len(q) - Len(b))
      BY <1>1, <3>1, SubSeqOfConcat2
    <3>3. Len(b) + 1 - Len(b) = 1 /\ Len(b) + Len(q) - Len(b) = Len(q)
      BY <1>1
    <3> QED BY <3>2, <3>3, SubSeqFull
  <2> QED BY <2>1, <2>2
<1> QED BY <1>1, <1>2, <1>3

-----------------------------------------------------------------------------
(* The telemetry bus (EventBus).                                           *)

\* The worker holds events exactly from the first it takes to the end of _ship.
BatchHeld ==
  /\ worker \in {"off", "loop", "get", "final", "close", "done"} => batch = <<>>
  /\ worker \in {"ship", "post", "backoff"} => batch # <<>>
  /\ worker = "collect" /\ ~flushing => batch # <<>>

\* The worker leaves its loop, flushes and finishes only on a closed bus.
FlushesOnceClosed == worker \in {"final", "close", "done"} \/ flushing \/ complete => closed

\* One thread at most ever shuts the bus down: a bus without a daemon has done
\* nothing, a finished one has no thread at work, and a stop that has yet to
\* start the finisher is the only one that will.
OneFlusher ==
  /\ daemon = "none" => worker = "off" /\ ~complete
  /\ complete => worker \in {"off", "done"}
  /\ \A s \in Stoppers : stopper[s] = "starting" =>
       /\ closed /\ daemon = "finisher" /\ worker = "off" /\ ~complete
       /\ \A t \in Stoppers : stopper[t] = "starting" => t = s

BusInv ==
  /\ TypeOK /\ LossAccounted /\ DrainedOnCompletion
  /\ BatchHeld /\ FlushesOnceClosed /\ OneFlusher

\* The sizes and retries of the bus, which __init__ takes as they come, are integers.
LEMMA BusSizes ==
  /\ MaxEvents \in Nat /\ QueueSize \in Int /\ BatchSize \in Int
  /\ RetryBudgets \subseteq Int
BY BusAssumption DEF BusAssumption

\* The types of the breaker's fields survive every one of its methods.
LEMMA BreakerTypesKept ==
  ASSUME BreakerTypeOK,
         AllowGranted \/ AllowRefused \/ RecordSuccess \/ RecordFailure \/ Tick
           \/ UNCHANGED breakerVars
  PROVE  BreakerTypeOK'
<1> USE ParametersAreNumbers
<1>1. CASE AllowGranted \/ AllowRefused
  <2>1. probe' \in BOOLEAN /\ state' = StateNow /\ UNCHANGED <<failures, age>>
    BY <1>1, Zenon DEF AllowGranted, AllowRefused, ProbeNow, BreakerTypeOK
  <2> QED BY <2>1 DEF BreakerTypeOK, StateNow
<1>2. CASE RecordSuccess
  <2>1. probe' \in BOOLEAN
    BY <1>2, Zenon DEF RecordSuccess
  <2> QED BY <1>2, <2>1 DEF BreakerTypeOK, RecordSuccess
<1>3. CASE RecordFailure
  <2>1. probe' \in BOOLEAN
    BY <1>3, Zenon DEF RecordFailure
  <2> QED BY <1>3, <2>1 DEF BreakerTypeOK, RecordFailure, Trips
<1>4. CASE Tick
  BY <1>4 DEF BreakerTypeOK, Tick
<1>5. CASE UNCHANGED breakerVars
  BY <1>5 DEF BreakerTypeOK, breakerVars
<1> QED BY <1>1, <1>2, <1>3, <1>4, <1>5

\* A new bus is open, empty and has no thread.
LEMMA BusInitially == Init => BusInv
<1> SUFFICES ASSUME Init PROVE BusInv
  OBVIOUS
<1> USE BusSizes
<1>1. BreakerTypeOK
  <2>1. probe \in BOOLEAN
    BY Zenon DEF Init, BreakerInit
  <2> QED BY <2>1, ParametersAreNumbers DEF Init, BreakerInit, BreakerTypeOK
<1>2. TypeOK
  <2>1. closed \in BOOLEAN /\ drain \in BOOLEAN /\ flushing \in BOOLEAN /\ complete \in BOOLEAN
        /\ otherCall \in BOOLEAN /\ configured \in BOOLEAN
    BY Zenon DEF Init
  <2>2. /\ queue \in Seq(Events) /\ batch \in Seq(Events) /\ delivered \in Seq(Events)
        /\ Len(queue) = 0 /\ Len(batch) = 0
    BY EmptySeq DEF Init
  <2>3. published \in 0..MaxEvents /\ dropped \in 0..MaxEvents /\ silent \in 0..MaxEvents
        /\ attempt \in Nat /\ budget \in Nat
    BY DEF Init
  <2>4. worker \in Workers /\ daemon \in {"none", "worker", "finisher"} /\ cap \in {0, 1}
        /\ finalAttempts \in {0, 1} /\ retries \in RetryBudgets
    BY DEF Init, Workers
  <2>5. stopper \in [Stoppers -> {"idle", "starting", "returned"}]
    BY DEF Init
  <2> QED BY <1>1, <2>1, <2>2, <2>3, <2>4, <2>5 DEF TypeOK
<1>3. LossAccounted
  <2>1. Len(delivered) = 0 /\ Len(batch) = 0 /\ Len(queue) = 0
    BY EmptySeq DEF Init
  <2> QED BY <2>1 DEF Init, LossAccounted
<1>4. DrainedOnCompletion /\ BatchHeld /\ FlushesOnceClosed /\ OneFlusher
  BY DEF Init, DrainedOnCompletion, FlushEmpties, BatchHeld, FlushesOnceClosed, OneFlusher
<1> QED BY <1>2, <1>3, <1>4 DEF BusInv

\* The lengths the accounting adds up are numbers.
LEMMA Lengths ==
  ASSUME TypeOK
  PROVE  /\ Len(queue) \in Nat /\ Len(batch) \in Nat /\ Len(delivered) \in Nat
         /\ published \in Nat /\ dropped \in Nat /\ silent \in Nat /\ retries \in Int
BY BusSizes, LenProperties DEF TypeOK

\* Publishing: an open bus with room takes the event, any other counts it.
LEMMA PublishKeeps == BusInv /\ Publish => BusInv'
<1> SUFFICES ASSUME BusInv, Publish PROVE BusInv'
  OBVIOUS
<1> USE BusSizes
<1>0. /\ Len(queue) \in Nat /\ Len(batch) \in Nat /\ Len(delivered) \in Nat
      /\ published \in Nat /\ dropped \in Nat /\ silent \in Nat
  BY Lengths DEF BusInv
<1>1. published' \in Events /\ published' = published + 1 /\ published' \in 0..MaxEvents
  BY DEF Publish, BusInv, TypeOK, Events
<1>2. /\ batch' = batch /\ delivered' = delivered /\ silent' = silent
      /\ UNCHANGED <<configured, retries, closed, drain, finalAttempts, daemon, worker,
                     flushing, cap, attempt, budget, complete, stopper, otherCall>>
  BY DEF Publish, PublishFrame
<1>3. BreakerTypeOK'
  BY BreakerTypesKept DEF Publish, PublishFrame, BusInv, TypeOK
<1>4. CASE ~closed /\ HasRoom
  <2>1. queue' = Append(queue, published') /\ dropped' = dropped
    BY <1>4 DEF Publish
  <2>2. queue' \in Seq(Events) /\ Len(queue') = Len(queue) + 1
    BY <1>1, <2>1, AppendProperties DEF TypeOK, BusInv
  <2>3. dropped' = dropped /\ (QueueSize > 0 => Len(queue') <= QueueSize)
    BY <2>1, <2>2, <1>4, <1>0 DEF HasRoom
  <2>4. TypeOK'
    BY <1>1, <1>2, <1>3, <2>2, <2>3 DEF TypeOK, BusInv, Events
  <2>5. LossAccounted'
    BY <1>0, <1>1, <1>2, <2>2, <2>3 DEF LossAccounted, BusInv
  <2>6. (DrainedOnCompletion /\ BatchHeld /\ FlushesOnceClosed /\ OneFlusher)'
    BY <1>2, <1>4 DEF BusInv, DrainedOnCompletion, FlushEmpties, BatchHeld, FlushesOnceClosed, OneFlusher
  <2> QED BY <2>4, <2>5, <2>6 DEF BusInv
<1>5. CASE ~(~closed /\ HasRoom)
  <2>1. queue' = queue /\ dropped' = dropped + 1
    BY <1>5 DEF Publish
  <2>2. LossAccounted'
    BY <1>0, <1>1, <1>2, <2>1 DEF LossAccounted, BusInv
  <2>3. dropped' \in 0..MaxEvents
    <3>1. published' = Len(delivered) + dropped' + silent + Len(batch) + Len(queue)
      BY <2>1, <2>2, <1>2 DEF LossAccounted
    <3> QED BY <1>0, <1>1, <2>1, <3>1
  <2>4. TypeOK'
    BY <1>1, <1>2, <1>3, <2>1, <2>3 DEF TypeOK, BusInv
  <2>5. (DrainedOnCompletion /\ BatchHeld /\ FlushesOnceClosed /\ OneFlusher)'
    BY <1>2, <2>1 DEF BusInv, DrainedOnCompletion, FlushEmpties, BatchHeld, FlushesOnceClosed, OneFlusher
  <2> QED BY <2>2, <2>4, <2>5 DEF BusInv
<1> QED BY <1>4, <1>5

\* start() and stop() move the daemon and the stopping threads only.
LEMMA LifecycleKeeps ==
  ASSUME BusInv,
         Start \/ \E s \in Stoppers :
                    \/ \E d \in BOOLEAN : Stop(s, d, 0)
                    \/ ExitHook(s) \/ StartFinisher(s)
  PROVE  BusInv'
<1> USE BusSizes DEF BusInv
<1>1. CASE Start
  <2>1. TypeOK'
    BY <1>1 DEF Start, TypeOK, Workers, breakerVars, BreakerTypeOK
  <2>2. (LossAccounted /\ DrainedOnCompletion /\ BatchHeld /\ FlushesOnceClosed /\ OneFlusher)'
    BY <1>1 DEF Start, LossAccounted, DrainedOnCompletion, FlushEmpties, BatchHeld, FlushesOnceClosed, OneFlusher
  <2> QED BY <2>1, <2>2
<1>2. ASSUME NEW s \in Stoppers, NEW d \in BOOLEAN, NEW n \in {0, 1}, Stop(s, d, n)
      PROVE  BusInv'
  <2>1. drain' \in BOOLEAN /\ closed' = TRUE
    BY <1>2, Zenon DEF Stop
  <2>2. TypeOK'
    BY <1>2, <2>1 DEF Stop, TypeOK, breakerVars, BreakerTypeOK
  <2>3. (LossAccounted /\ DrainedOnCompletion /\ BatchHeld /\ FlushesOnceClosed)'
    BY <1>2, <2>1 DEF Stop, LossAccounted, DrainedOnCompletion, FlushEmpties, BatchHeld, FlushesOnceClosed
  <2>4. OneFlusher'
    BY <1>2, <2>1 DEF Stop, OneFlusher, TypeOK
  <2> QED BY <2>2, <2>3, <2>4
<1>3. ASSUME NEW s \in Stoppers, StartFinisher(s) PROVE BusInv'
  <2>1. closed /\ batch = <<>> /\ worker = "off"
    BY <1>3 DEF StartFinisher, OneFlusher, BatchHeld
  <2>2. complete' \in BOOLEAN /\ worker' \in Workers
    BY <1>3, <2>1 DEF StartFinisher, TypeOK, Workers
  <2>3. TypeOK'
    BY <1>3, <2>2 DEF StartFinisher, TypeOK, breakerVars, BreakerTypeOK
  <2>4. (LossAccounted /\ DrainedOnCompletion /\ BatchHeld /\ FlushesOnceClosed)'
    BY <1>3, <2>1 DEF StartFinisher, LossAccounted, DrainedOnCompletion, FlushEmpties, BatchHeld, FlushesOnceClosed
  <2>5. OneFlusher'
    BY <1>3, <2>1 DEF StartFinisher, OneFlusher, TypeOK
  <2> QED BY <2>3, <2>4, <2>5
<1>4. ASSUME NEW s \in Stoppers, ExitHook(s) PROVE BusInv'
  BY <1>2, <1>4 DEF ExitHook
<1> QED BY <1>1, <1>2, <1>3, <1>4

\* _ship returns: each event of the batch is in exactly one of the three accounts,
\* and in the silent one only when there was no attempt in the budget.
LEMMA ShipEndKeeps ==
  ASSUME BusInv, worker \in {"ship", "post", "backoff"}, BatchDone, BreakerTypeOK',
         \/ delivered' = delivered \o batch /\ UNCHANGED <<dropped, silent>>
         \/ CountDropped
         \/ silent' = silent + Len(batch) /\ retries <= 0 /\ UNCHANGED <<delivered, dropped>>
  PROVE  BusInv'
<1> USE BusSizes
<1>0. /\ Len(queue) \in Nat /\ Len(batch) \in Nat /\ Len(delivered) \in Nat
      /\ published \in Nat /\ dropped \in Nat /\ silent \in Nat
  BY Lengths DEF BusInv
<1>1. /\ UNCHANGED <<published, queue, configured, retries, closed, drain, finalAttempts,
                     daemon, flushing, cap, complete, stopper, otherCall>>
      /\ batch' = <<>> /\ worker' = (IF flushing THEN "collect" ELSE "loop") /\ attempt' = 0 /\ budget' = 0
  BY DEF BatchDone, WorkerFrame
<1>2. batch' \in Seq(Events) /\ Len(batch') = 0
  BY <1>1, EmptySeq
<1>3. /\ delivered' \in Seq(Events) /\ dropped' \in Nat /\ silent' \in Nat
      /\ Len(delivered') + dropped' + silent' = Len(delivered) + dropped + silent + Len(batch)
      /\ silent' > 0 => retries' <= 0
  <2>1. CASE delivered' = delivered \o batch /\ UNCHANGED <<dropped, silent>>
    <3>1. delivered' \in Seq(Events) /\ Len(delivered') = Len(delivered) + Len(batch)
      BY <2>1, ConcatProperties DEF BusInv, TypeOK
    <3> QED BY <2>1, <3>1, <1>0, <1>1 DEF BusInv, LossAccounted
  <2>2. CASE CountDropped
    BY <2>2, <1>0, <1>1 DEF BusInv, LossAccounted, TypeOK, CountDropped
  <2>3. CASE silent' = silent + Len(batch) /\ retries <= 0 /\ UNCHANGED <<delivered, dropped>>
    BY <2>3, <1>0, <1>1 DEF BusInv, LossAccounted, TypeOK
  <2> QED BY <2>1, <2>2, <2>3
<1>4. LossAccounted'
  BY <1>0, <1>1, <1>2, <1>3 DEF BusInv, LossAccounted
<1>5. dropped' \in 0..MaxEvents /\ silent' \in 0..MaxEvents
  <2>1. Len(delivered') \in Nat
    BY <1>3, LenProperties
  <2>2. published = Len(delivered') + dropped' + silent' + Len(queue)
    BY <1>0, <1>3 DEF BusInv, LossAccounted
  <2>3. published <= MaxEvents
    BY DEF BusInv, TypeOK
  <2>4. dropped' \in Nat /\ silent' \in Nat /\ Len(queue) \in Nat
    BY <1>0, <1>3
  <2>5. dropped' <= published /\ silent' <= published
    BY <2>1, <2>2, <2>4
  <2> QED BY <1>0, <2>3, <2>4, <2>5
<1>6. TypeOK'
  BY <1>1, <1>2, <1>3, <1>5 DEF TypeOK, BusInv, Workers
<1>7. (DrainedOnCompletion /\ BatchHeld /\ FlushesOnceClosed)'
  BY <1>1 DEF BusInv, DrainedOnCompletion, FlushEmpties, BatchHeld, FlushesOnceClosed
<1>8. OneFlusher'
  BY <1>1 DEF BusInv, OneFlusher
<1> QED BY <1>4, <1>6, <1>7, <1>8 DEF BusInv

\* The worker takes an event into a batch with room for it.
LEMMA TakeKeeps ==
  ASSUME BusInv, worker \in {"get", "collect"}, Take, Len(batch) = 0 \/ Len(batch) < BatchSize,
         worker' = "collect", WorkerFrame,
         UNCHANGED <<delivered, dropped, silent, flushing, cap, attempt, budget, complete,
                     breakerVars>>
  PROVE  BusInv'
<1> USE BusSizes
<1>0. /\ Len(queue) \in Nat /\ Len(batch) \in Nat /\ Len(delivered) \in Nat
      /\ published \in Nat /\ dropped \in Nat /\ silent \in Nat
  BY Lengths DEF BusInv
<1>1. /\ queue' \in Seq(Events) /\ Len(queue') = Len(queue) - 1
      /\ batch' \in Seq(Events) /\ Len(batch') = Len(batch) + 1
  <2>1. Head(queue) \in Events /\ Tail(queue) \in Seq(Events) /\ Len(Tail(queue)) = Len(queue) - 1
    BY HeadTailProperties DEF BusInv, TypeOK, Take
  <2>2. batch \in Seq(Events)
    BY DEF BusInv, TypeOK
  <2> QED BY <2>1, <2>2, AppendProperties DEF Take
<1>2. BreakerTypeOK'
  BY BreakerTypesKept DEF BusInv, TypeOK
<1>3. LossAccounted'
  BY <1>0, <1>1 DEF BusInv, LossAccounted, WorkerFrame
<1>4. TypeOK'
  BY <1>0, <1>1, <1>2 DEF TypeOK, BusInv, WorkerFrame, Workers
<1>5. batch' # <<>>
  BY <1>0, <1>1, EmptySeq
<1>6. (DrainedOnCompletion /\ BatchHeld /\ FlushesOnceClosed /\ OneFlusher)'
  BY <1>5 DEF BusInv, DrainedOnCompletion, FlushEmpties, BatchHeld, FlushesOnceClosed, OneFlusher, WorkerFrame
<1> QED BY <1>3, <1>4, <1>6 DEF BusInv

\* A step of the worker that moves no event and ends no flush.
LEMMA MoveKeeps ==
  ASSUME BusInv, WorkerFrame, BreakerTypeOK', worker \in Workers \ {"off"}, worker' \in Workers \ {"off"},
         UNCHANGED <<queue, batch, delivered, dropped, silent>>,
         flushing' \in BOOLEAN, cap' \in {0, 1}, attempt' \in Nat, budget' \in Nat,
         complete' \in BOOLEAN, complete' => worker' = "done",
         BatchHeld', FlushesOnceClosed', DrainedOnCompletion'
  PROVE  BusInv'
<1> USE BusSizes
<1>1. LossAccounted'
  BY DEF BusInv, LossAccounted, WorkerFrame
<1>2. TypeOK'
  BY DEF BusInv, TypeOK, WorkerFrame
<1>3. OneFlusher'
  BY DEF BusInv, OneFlusher, WorkerFrame
<1> QED BY <1>1, <1>2, <1>3 DEF BusInv

\* The worker's steps.
LEMMA WorkerKeeps == BusInv /\ Worker => BusInv'
<1> SUFFICES ASSUME BusInv, Worker PROVE BusInv'
  OBVIOUS
<1> USE BusSizes
<1>0. /\ flushing \in BOOLEAN /\ cap \in {0, 1} /\ attempt \in Nat /\ budget \in Nat
      /\ complete \in BOOLEAN /\ worker \in Workers /\ drain \in BOOLEAN /\ finalAttempts \in {0, 1}
      /\ retries \in Int /\ BreakerTypeOK /\ Len(batch) \in Nat
      /\ complete => worker \in {"off", "done"}
  BY Lengths DEF BusInv, TypeOK, OneFlusher
<1>1. ASSUME BreakerTypeOK', WorkerFrame, worker \in Workers \ {"off", "done"}, worker' \in Workers \ {"off", "done"},
             UNCHANGED <<queue, batch, delivered, dropped, silent, flushing, cap, complete>>,
             attempt' \in Nat, budget' \in Nat, BatchHeld', FlushesOnceClosed', DrainedOnCompletion'
      PROVE  BusInv'
  <2>1. complete' = FALSE
    BY <1>0, <1>1
  <2> QED BY <1>0, <1>1, <2>1, MoveKeeps
<1>2. ASSUME UNCHANGED breakerVars PROVE BreakerTypeOK'
  BY <1>0, <1>2, BreakerTypesKept
<1>3. CASE LoopCheck
  <2>1. BatchHeld' /\ FlushesOnceClosed' /\ DrainedOnCompletion'
    BY <1>3 DEF LoopCheck, BusInv, BatchHeld, FlushesOnceClosed, DrainedOnCompletion, FlushEmpties, WorkerFrame
  <2> QED BY <1>0, <1>1, <1>2, <1>3, <2>1 DEF LoopCheck, Workers
<1>4. CASE GetFirst
  <2>1. CASE Take /\ worker' = "collect"
    <3>1. Len(batch) = 0
      BY <1>4, EmptySeq DEF GetFirst, BusInv, BatchHeld
    <3> QED BY <1>4, <2>1, <3>1, TakeKeeps DEF GetFirst
  <2>2. CASE queue = <<>> /\ worker' = "loop" /\ UNCHANGED <<queue, batch>>
    <3>1. BatchHeld' /\ FlushesOnceClosed' /\ DrainedOnCompletion'
      BY <1>4, <2>2 DEF GetFirst, BusInv, BatchHeld, FlushesOnceClosed, DrainedOnCompletion, FlushEmpties, WorkerFrame
    <3> QED BY <1>0, <1>1, <1>2, <1>4, <2>2, <3>1 DEF GetFirst, Workers
  <2> QED BY <1>4, <2>1, <2>2 DEF GetFirst
<1>5. CASE Collect
  <2>1. CASE Len(batch) < BatchSize /\ queue # <<>>
    BY <1>5, <2>1, TakeKeeps DEF Collect
  <2>2. CASE ~(Len(batch) < BatchSize /\ queue # <<>>)
    <3>1. BatchSize > 0 /\ batch = <<>> => queue = <<>>
      BY <2>2, EmptySeq
    <3>2. worker' = IF batch = <<>> THEN "close" ELSE "ship"
      BY <1>5, <2>2 DEF Collect
    <3>3. UNCHANGED <<queue, batch, flushing>>
      BY <1>5, <2>2 DEF Collect
    <3>4. BatchHeld' /\ FlushesOnceClosed' /\ DrainedOnCompletion'
      BY <1>5, <3>1, <3>2, <3>3 DEF Collect, BusInv, BatchHeld, FlushesOnceClosed,
                                    DrainedOnCompletion, FlushEmpties, WorkerFrame
    <3> QED BY <1>0, <1>1, <1>2, <1>5, <3>2, <3>3, <3>4 DEF Collect, Workers
  <2> QED BY <2>1, <2>2
<1>6. CASE ShipNowhere
  BY <1>2, <1>6, ShipEndKeeps DEF ShipNowhere
<1>7. CASE ShipRefused
  <2>1. BreakerTypeOK'
    BY <1>0, <1>7, BreakerTypesKept DEF ShipRefused
  <2> QED BY <1>7, <2>1, ShipEndKeeps DEF ShipRefused
<1>8. CASE ShipAllowed
  <2>1. BreakerTypeOK'
    BY <1>0, <1>8, BreakerTypesKept DEF ShipAllowed
  <2>2. CASE AttemptsNow <= 0
    <3>1. retries <= 0
      BY <1>0, <2>2 DEF AttemptsNow
    <3> QED BY <1>8, <2>1, <2>2, <3>1, ShipEndKeeps DEF ShipAllowed
  <2>3. CASE ~(AttemptsNow <= 0)
    <3>1. AttemptsNow \in Nat
      BY <1>0, <2>3 DEF AttemptsNow
    <3>2. /\ worker = "ship" /\ worker' = "post" /\ attempt' = 1 /\ budget' = AttemptsNow
          /\ UNCHANGED <<queue, batch, delivered, dropped, silent, flushing, cap, complete>>
          /\ WorkerFrame
      BY <1>8, <2>3 DEF ShipAllowed
    <3>3. BatchHeld' /\ FlushesOnceClosed' /\ DrainedOnCompletion'
      BY <3>2 DEF BusInv, BatchHeld, FlushesOnceClosed, DrainedOnCompletion, FlushEmpties, WorkerFrame
    <3> QED BY <1>1, <2>1, <3>1, <3>2, <3>3 DEF Workers
  <2> QED BY <2>2, <2>3
<1>9. CASE PostSucceeds
  <2>1. BreakerTypeOK'
    BY <1>0, <1>9, BreakerTypesKept DEF PostSucceeds
  <2> QED BY <1>9, <2>1, ShipEndKeeps DEF PostSucceeds
<1>10. CASE PostFails
  <2>1. CASE attempt >= budget
    <3>1. BreakerTypeOK'
      BY <1>0, <1>10, <2>1, BreakerTypesKept DEF PostFails
    <3> QED BY <1>10, <2>1, <3>1, ShipEndKeeps DEF PostFails
  <2>2. CASE ~(attempt >= budget)
    <3>1. /\ worker = "post" /\ worker' = "backoff" /\ WorkerFrame
          /\ UNCHANGED <<queue, batch, delivered, dropped, silent, flushing, cap, attempt,
                         budget, complete, breakerVars>>
      BY <1>10, <2>2 DEF PostFails
    <3>2. BatchHeld' /\ FlushesOnceClosed' /\ DrainedOnCompletion'
      BY <3>1 DEF BusInv, BatchHeld, FlushesOnceClosed, DrainedOnCompletion, FlushEmpties, WorkerFrame
    <3> QED BY <1>0, <1>1, <1>2, <3>1, <3>2 DEF Workers
  <2> QED BY <2>1, <2>2
<1>11. CASE Backoff
  <2>1. CASE closed
    BY <1>2, <1>11, <2>1, ShipEndKeeps DEF Backoff
  <2>2. CASE ~closed
    <3>1. /\ worker = "backoff" /\ worker' = "post" /\ WorkerFrame /\ attempt' = attempt + 1
          /\ UNCHANGED <<queue, batch, delivered, dropped, silent, flushing, cap, budget,
                         complete, breakerVars>>
      BY <1>11, <2>2 DEF Backoff
    <3>2. BatchHeld' /\ FlushesOnceClosed' /\ DrainedOnCompletion'
      BY <3>1 DEF BusInv, BatchHeld, FlushesOnceClosed, DrainedOnCompletion, FlushEmpties, WorkerFrame
    <3> QED BY <1>0, <1>1, <1>2, <3>1, <3>2 DEF Workers
  <2> QED BY <2>1, <2>2
<1>12. CASE ReadDrain
  <2>1. /\ worker = "final" /\ closed /\ worker' \in {"collect", "close"} /\ WorkerFrame
        /\ flushing' = drain /\ cap' \in {0, 1} /\ ~complete
        /\ UNCHANGED <<queue, batch, delivered, dropped, silent, attempt, budget, complete,
                       breakerVars>>
    BY <1>0, <1>12 DEF ReadDrain, BusInv, FlushesOnceClosed
  <2>2. BatchHeld' /\ FlushesOnceClosed' /\ DrainedOnCompletion'
    BY <1>12, <2>1 DEF ReadDrain, BusInv, BatchHeld, FlushesOnceClosed, DrainedOnCompletion, FlushEmpties, WorkerFrame
  <2> QED BY <1>0, <1>2, <2>1, <2>2, MoveKeeps DEF Workers
<1>13. CASE CloseClient
  <2>1. /\ worker = "close" /\ worker' = "done" /\ complete' = TRUE /\ WorkerFrame
        /\ UNCHANGED <<queue, batch, delivered, dropped, silent, flushing, cap, attempt, budget,
                       breakerVars>>
    BY <1>13 DEF CloseClient
  <2>2. BatchHeld' /\ FlushesOnceClosed' /\ DrainedOnCompletion'
    BY <2>1 DEF BusInv, BatchHeld, FlushesOnceClosed, DrainedOnCompletion, FlushEmpties, WorkerFrame
  <2>3. complete' \in BOOLEAN
    BY <2>1, Zenon
  <2> QED BY <1>0, <1>2, <2>1, <2>2, <2>3, MoveKeeps DEF Workers
<1> QED BY <1>3, <1>4, <1>5, <1>6, <1>7, <1>8, <1>9, <1>10, <1>11, <1>12, <1>13 DEF Worker

\* Every step keeps the invariant of the bus; the breaker's other client and the
\* clock touch nothing of it.
LEMMA BusStep == BusInv /\ [Next]_vars => BusInv'
<1> SUFFICES ASSUME BusInv, [Next]_vars PROVE BusInv'
  OBVIOUS
<1>1. ASSUME BreakerTypeOK', otherCall' \in BOOLEAN,
             UNCHANGED <<published, queue, batch, delivered, dropped, silent, configured,
                 retries, closed, drain, finalAttempts, daemon, worker, flushing, cap,
                 attempt, budget, complete, stopper>>
      PROVE  BusInv'
  BY <1>1 DEF BusInv, TypeOK, LossAccounted, DrainedOnCompletion, FlushEmpties, BatchHeld, FlushesOnceClosed,
              OneFlusher
<1>2. CASE Environment
  <2>1. BreakerTypeOK'
    BY <1>2, BreakerTypesKept DEF Environment, OtherBegins, OtherReports, BusInv, TypeOK
  <2>2. otherCall' \in BOOLEAN
    BY <1>2, Zenon DEF Environment, OtherBegins, OtherReports, BusInv, TypeOK
  <2> QED BY <1>1, <1>2, <2>1, <2>2 DEF Environment
<1>3. CASE UNCHANGED vars
  <2>1. BreakerTypeOK'
    BY <1>3, BreakerTypesKept DEF vars, BusInv, TypeOK
  <2>2. otherCall' \in BOOLEAN
    BY <1>3 DEF vars, busVars, BusInv, TypeOK
  <2> QED BY <1>1, <1>3, <2>1, <2>2 DEF vars, busVars
<1> QED BY <1>2, <1>3, PublishKeeps, LifecycleKeeps, WorkerKeeps DEF Next

\* The invariant of the bus.
LEMMA BusInvariant == Spec => []BusInv
BY BusInitially, BusStep, PTL DEF Spec

\* The fields of QueueEventBus are what they are meant to hold, for any sizes of
\* queue and batch, whatever publishers, stoppers, posts and the breaker do.
THEOREM BusTypes == Spec => []TypeOK
<1>1. BusInv => TypeOK
  BY DEF BusInv
<1> QED BY <1>1, BusInvariant, PTL

\* Every event published is delivered, counted by dropped_total(), still held (at the
\* end of the interpreter too), or, with max_retries 0 or less only, lost silently.
THEOREM EveryEventAccounted == Spec => []LossAccounted
<1>1. BusInv => LossAccounted
  BY DEF BusInv
<1> QED BY <1>1, BusInvariant, PTL

\* With a positive batch size, a final flush that has ended leaves nothing in the queue
\* or the batch.
THEOREM FlushLeavesNothing == Spec => []DrainedOnCompletion
<1>1. BusInv => DrainedOnCompletion
  BY DEF BusInv
<1> QED BY <1>1, BusInvariant, PTL

-----------------------------------------------------------------------------
(* The bus implements the lossy channel (TelemetryChannel).                *)

\* A step that leaves what the channel shows as it was is a stutter of it.
LEMMA ChannelStutters ==
  ASSUME UNCHANGED <<published, delivered, dropped, silent, closed, complete>>,
         (batch \o queue)' = batch \o queue
  PROVE  UNCHANGED Channel!channelVars
BY DEF Channel!channelVars

\* publish() is Accept or Refuse.
LEMMA PublishOffers == BusInv /\ Publish => Channel!Next
<1> SUFFICES ASSUME BusInv, Publish PROVE Channel!Next
  OBVIOUS
<1>1. PublishFrame /\ published' = published + 1 /\ published' \in Events
  BY BusSizes DEF Publish, BusInv, TypeOK, Events
<1>2. CASE ~closed /\ HasRoom
  <2>1. queue' = Append(queue, published') /\ dropped' = dropped
    BY <1>2 DEF Publish
  <2>2. batch \o queue' = Append(batch \o queue, published')
    BY <1>1, <2>1, AppendAtEnd DEF BusInv, TypeOK
  <2>3. Channel!Accept
    BY <1>1, <1>2, <2>1, <2>2 DEF Channel!Accept, PublishFrame
  <2> QED BY <2>3 DEF Channel!Next
<1>3. CASE ~(~closed /\ HasRoom)
  <2>1. Channel!Refuse
    BY <1>1, <1>3 DEF Channel!Refuse, Publish, PublishFrame
  <2> QED BY <2>1 DEF Channel!Next
<1> QED BY <1>2, <1>3

\* What becomes of a shipped batch: it is the front of the channel, and leaves it
\* delivered, dropped or silently, before the channel has finished.
LEMMA ShipEndDisposes ==
  ASSUME BusInv, worker \in {"ship", "post", "backoff"}, BatchDone,
         \/ delivered' = delivered \o batch /\ UNCHANGED <<dropped, silent>>
         \/ CountDropped
         \/ silent' = silent + Len(batch) /\ UNCHANGED <<delivered, dropped>>
  PROVE  Channel!Next
<1> DEFINE n == Len(batch)
           pending == batch \o queue
<1>1. /\ queue \in Seq(Events) /\ batch \in Seq(Events) /\ batch # <<>> /\ ~complete
  BY DEF BusInv, TypeOK, BatchHeld, OneFlusher
<1>2. /\ n \in 1..Len(pending) /\ SubSeq(pending, 1, n) = batch
      /\ SubSeq(pending, n + 1, Len(pending)) = queue
  BY <1>1, BatchIsFront
<1>3. (batch \o queue)' = queue
  BY <1>1, ConcatEmptySeq DEF BatchDone
<1>4. Channel!Leave(n)
  BY <1>2, <1>3 DEF Channel!Leave
<1>5. UNCHANGED <<published, closed, complete>>
  BY DEF BatchDone, WorkerFrame
<1>6. CASE delivered' = delivered \o batch /\ UNCHANGED <<dropped, silent>>
  <2>1. Channel!Deliver(n)
    BY <1>1, <1>2, <1>4, <1>5, <1>6 DEF Channel!Deliver
  <2> QED BY <1>2, <2>1 DEF Channel!Next
<1>7. CASE CountDropped
  <2>1. Channel!Drop(n)
    BY <1>1, <1>4, <1>5, <1>7 DEF Channel!Drop, CountDropped
  <2> QED BY <1>2, <2>1 DEF Channel!Next
<1>8. CASE silent' = silent + Len(batch) /\ UNCHANGED <<delivered, dropped>>
  <2>1. Channel!LoseSilently(n)
    BY <1>1, <1>4, <1>5, <1>8 DEF Channel!LoseSilently
  <2> QED BY <1>2, <2>1 DEF Channel!Next
<1> QED BY <1>6, <1>7, <1>8

\* The worker's steps: the end of _ship disposes of the batch, closing the client
\* finishes the channel, and no other step shows.
LEMMA WorkerServes == BusInv /\ Worker => [Channel!Next]_(Channel!channelVars)
<1> SUFFICES ASSUME BusInv, Worker PROVE Channel!Next \/ UNCHANGED Channel!channelVars
  OBVIOUS
<1>1. ASSUME WorkerFrame, UNCHANGED <<queue, batch, delivered, dropped, silent, complete>>
      PROVE  UNCHANGED Channel!channelVars
  BY <1>1, ChannelStutters DEF WorkerFrame
<1>2. ASSUME WorkerFrame, Take, UNCHANGED <<delivered, dropped, silent, complete>>
      PROVE  UNCHANGED Channel!channelVars
  <2>1. (batch \o queue)' = batch \o queue
    BY <1>2, TakeMovesBorder DEF Take, BusInv, TypeOK
  <2> QED BY <1>2, <2>1, ChannelStutters DEF WorkerFrame
<1>3. CASE LoopCheck
  BY <1>1, <1>3 DEF LoopCheck
<1>4. CASE GetFirst
  BY <1>1, <1>2, <1>4 DEF GetFirst
<1>5. CASE Collect
  BY <1>1, <1>2, <1>5 DEF Collect
<1>6. CASE ShipNowhere
  BY <1>6, ShipEndDisposes DEF ShipNowhere
<1>7. CASE ShipRefused
  BY <1>7, ShipEndDisposes DEF ShipRefused
<1>8. CASE ShipAllowed
  <2>1. CASE AttemptsNow <= 0
    BY <1>8, <2>1, ShipEndDisposes DEF ShipAllowed
  <2>2. CASE ~(AttemptsNow <= 0)
    BY <1>1, <1>8, <2>2 DEF ShipAllowed
  <2> QED BY <2>1, <2>2
<1>9. CASE PostSucceeds
  BY <1>9, ShipEndDisposes DEF PostSucceeds
<1>10. CASE PostFails
  <2>1. CASE attempt >= budget
    BY <1>10, <2>1, ShipEndDisposes DEF PostFails
  <2>2. CASE ~(attempt >= budget)
    BY <1>1, <1>10, <2>2 DEF PostFails
  <2> QED BY <2>1, <2>2
<1>11. CASE Backoff
  <2>1. CASE closed
    BY <1>11, <2>1, ShipEndDisposes DEF Backoff
  <2>2. CASE ~closed
    BY <1>1, <1>11, <2>2 DEF Backoff
  <2> QED BY <2>1, <2>2
<1>12. CASE ReadDrain
  BY <1>1, <1>12 DEF ReadDrain
<1>13. CASE CloseClient
  <2>1. closed
    BY <1>13 DEF CloseClient, BusInv, FlushesOnceClosed
  <2>2. Channel!Finish
    BY <1>13, <2>1 DEF CloseClient, WorkerFrame, Channel!Finish
  <2> QED BY <2>2 DEF Channel!Next
<1> QED BY <1>3, <1>4, <1>5, <1>6, <1>7, <1>8, <1>9, <1>10, <1>11, <1>12, <1>13 DEF Worker

\* Every step of the bus is a step of the channel or a stutter.
LEMMA BusRefines == BusInv /\ [Next]_vars => [Channel!Next]_(Channel!channelVars)
<1> SUFFICES ASSUME BusInv, [Next]_vars PROVE Channel!Next \/ UNCHANGED Channel!channelVars
  OBVIOUS
<1>1. ASSUME UNCHANGED <<published, queue, batch, delivered, dropped, silent, closed, complete>>
      PROVE  UNCHANGED Channel!channelVars
  BY <1>1, ChannelStutters
<1>2. CASE Publish
  BY <1>2, PublishOffers
<1>3. CASE Start
  BY <1>1, <1>3 DEF Start
<1>4. ASSUME NEW s \in Stoppers, NEW d \in BOOLEAN, NEW n \in {0, 1}, Stop(s, d, n)
      PROVE  Channel!Next
  <2>1. Channel!Close
    BY <1>4 DEF Stop, Channel!Close
  <2> QED BY <2>1 DEF Channel!Next
<1>5. ASSUME NEW s \in Stoppers, ExitHook(s) PROVE Channel!Next
  BY <1>4, <1>5 DEF ExitHook
<1>6. ASSUME NEW s \in Stoppers, StartFinisher(s)
      PROVE  Channel!Next \/ UNCHANGED Channel!channelVars
  <2>1. closed
    BY <1>6 DEF StartFinisher, BusInv, OneFlusher
  <2>2. CASE complete' = complete
    BY <1>1, <1>6, <2>2 DEF StartFinisher
  <2>3. CASE complete' = TRUE
    <3>1. Channel!Finish
      BY <1>6, <2>1, <2>3 DEF StartFinisher, Channel!Finish
    <3> QED BY <3>1 DEF Channel!Next
  <2> QED BY <1>6, <2>2, <2>3 DEF StartFinisher
<1>7. CASE Worker
  BY <1>7, WorkerServes
<1>8. CASE Environment
  BY <1>1, <1>8 DEF Environment
<1>9. CASE UNCHANGED vars
  BY <1>1, <1>9 DEF vars, busVars
<1> QED BY <1>2, <1>3, <1>4, <1>5, <1>6, <1>7, <1>8, <1>9 DEF Next

\* QueueEventBus implements the lossy channel of its callers: events leave it in the
\* order they were published, each once, and nothing is posted after it finished.
THEOREM BusIsChannel == Spec => ImplementsChannel
<1>1. Init => Channel!Init
  <2> SUFFICES ASSUME Init PROVE Channel!Init
    OBVIOUS
  <2>1. batch \o queue = <<>>
    BY EmptySeq, ConcatEmptySeq DEF Init
  <2> QED BY <2>1 DEF Init, Channel!Init
<1> QED BY <1>1, BusRefines, BusInvariant, PTL DEF Spec, ImplementsChannel, Channel!Spec

-----------------------------------------------------------------------------
(* Order and multiplicity of what is delivered.                            *)

Rising(s) == \A i, j \in 1..Len(s) : i < j => s[i] < s[j]

\* An event is acknowledged at most once, and never after one published later.
DeliveredOnceInOrder == Rising(delivered)

\* What is delivered and what is held, one after the other, in publication order.
Trail == delivered \o (batch \o queue)

TrailInOrder ==
  /\ Trail \in Seq(Nat) /\ Rising(Trail)
  /\ \A i \in 1..Len(Trail) : Trail[i] <= published

\* A newer event keeps a rising sequence rising.
LEMMA AppendRises ==
  ASSUME NEW s \in Seq(Nat), Rising(s), NEW e \in Nat, \A i \in 1..Len(s) : s[i] < e
  PROVE  /\ Append(s, e) \in Seq(Nat) /\ Rising(Append(s, e))
         /\ \A i \in 1..Len(Append(s, e)) : Append(s, e)[i] <= e
<1> DEFINE a == Append(s, e)
<1>1. /\ a \in Seq(Nat) /\ Len(a) = Len(s) + 1 /\ Len(s) \in Nat
      /\ a[Len(s) + 1] = e /\ \A i \in 1..Len(s) : a[i] = s[i]
  BY AppendProperties, LenProperties
<1> HIDE DEF a
<1>2. \A i \in 1..Len(s) : s[i] \in Nat
  BY ElementOfSeq
<1>3. \A i \in 1..Len(a) : a[i] <= e
  BY <1>1, <1>2
<1>4. Rising(a)
  <2> SUFFICES ASSUME NEW i \in 1..Len(a), NEW j \in 1..Len(a), i < j PROVE a[i] < a[j]
    BY DEF Rising
  <2>1. i \in 1..Len(s) /\ a[i] = s[i]
    BY <1>1
  <2>2. CASE j = Len(s) + 1
    BY <1>1, <2>1, <2>2
  <2>3. CASE j # Len(s) + 1
    <3>0. Len(a) = Len(s) + 1 /\ Len(s) \in Nat
      BY <1>1
    <3> DEFINE n == Len(s)
    <3>1. j \in 1..n
      <4>1. j \in 1..(n + 1) /\ j # n + 1 /\ n \in Nat
        BY <2>3, <3>0
      <4> HIDE DEF n
      <4> QED BY <4>1
    <3>2. a[j] = s[j]
      BY <1>1, <3>1
    <3> QED BY <2>1, <3>1, <3>2 DEF Rising
  <2> QED BY <2>2, <2>3
<1> QED BY <1>1, <1>3, <1>4 DEF a

\* Taking a part out of a rising sequence leaves it rising.
LEMMA GapKeepsRising ==
  ASSUME NEW d \in Seq(Nat), NEW b \in Seq(Nat), NEW q \in Seq(Nat), NEW m \in Nat,
         Rising(d \o (b \o q)), \A i \in 1..Len(d \o (b \o q)) : (d \o (b \o q))[i] <= m
  PROVE  d \o q \in Seq(Nat) /\ Rising(d \o q) /\ \A i \in 1..Len(d \o q) : (d \o q)[i] <= m
<1> DEFINE t == d \o (b \o q)
           u == d \o q
           At(i) == IF i <= Len(d) THEN i ELSE i + Len(b)
<1>0. Len(d) \in Nat /\ Len(b) \in Nat /\ Len(q) \in Nat
  BY LenProperties
<1>1. /\ b \o q \in Seq(Nat) /\ Len(b \o q) = Len(b) + Len(q)
      /\ \A i \in 1..Len(b) + Len(q) : (b \o q)[i] = IF i <= Len(b) THEN b[i] ELSE q[i - Len(b)]
  BY ConcatProperties
<1>2. /\ Len(t) = Len(d) + Len(b) + Len(q)
      /\ \A i \in 1..Len(d) + Len(b \o q) : t[i] = IF i <= Len(d) THEN d[i] ELSE (b \o q)[i - Len(d)]
  BY <1>0, <1>1, ConcatProperties
<1>3. /\ u \in Seq(Nat) /\ Len(u) = Len(d) + Len(q)
      /\ \A i \in 1..Len(d) + Len(q) : u[i] = IF i <= Len(d) THEN d[i] ELSE q[i - Len(d)]
  BY ConcatProperties
<1> HIDE DEF t, u
<1>a. Len(t) = Len(d) + Len(b) + Len(q) /\ Len(u) = Len(d) + Len(q) /\ Len(b \o q) = Len(b) + Len(q)
  BY <1>1, <1>2, <1>3
<1>4. ASSUME NEW i \in 1..Len(u) PROVE At(i) \in 1..Len(t) /\ u[i] = t[At(i)]
  <2>1. CASE i <= Len(d)
    <3>1. At(i) = i /\ i \in 1..Len(t) /\ i \in 1..Len(d) + Len(b \o q) /\ i \in 1..Len(d) + Len(q)
      BY <2>1, <1>0, <1>a
    <3> HIDE DEF At
    <3>2. t[i] = d[i] /\ u[i] = d[i]
      BY <2>1, <3>1, <1>2, <1>3
    <3> QED BY <3>1, <3>2
  <2>2. CASE i > Len(d)
    <3> DEFINE k == i - Len(d)
    <3>1. /\ k \in 1..Len(q) /\ At(i) = i + Len(b) /\ At(i) \in 1..Len(t) /\ At(i) > Len(d)
          /\ At(i) \in 1..Len(d) + Len(b \o q) /\ i \in 1..Len(d) + Len(q)
          /\ At(i) - Len(d) = Len(b) + k
      BY <2>2, <1>0, <1>a
    <3>2. Len(b) + k \in 1..Len(b) + Len(q) /\ ~(Len(b) + k <= Len(b)) /\ Len(b) + k - Len(b) = k
          /\ ~(i <= Len(d)) /\ ~(At(i) <= Len(d))
      BY <2>2, <3>1, <1>0
    <3> HIDE DEF At
    <3>3. t[At(i)] = (b \o q)[Len(b) + k]
      BY <3>1, <3>2, <1>2
    <3>4. (b \o q)[Len(b) + k] = q[k]
      BY <3>2, <1>1
    <3>5. u[i] = q[k]
      BY <3>1, <3>2, <1>3
    <3> QED BY <3>1, <3>3, <3>4, <3>5
  <2>3. i <= Len(d) \/ i > Len(d)
    BY <1>0
  <2> QED BY <2>1, <2>2, <2>3
<1>5. ASSUME NEW i \in 1..Len(u), NEW j \in 1..Len(u), i < j PROVE At(i) < At(j)
  BY <1>0, <1>a, <1>5
<1> HIDE DEF At
<1>6. Rising(u)
  BY <1>4, <1>5 DEF Rising, t
<1>7. \A i \in 1..Len(u) : u[i] <= m
  BY <1>4 DEF t
<1> QED BY <1>3, <1>6, <1>7 DEF u

\* Events delivered keep their place before those that stay.
LEMMA Regrouped ==
  ASSUME NEW d \in Seq(Nat), NEW f \in Seq(Nat), NEW r \in Seq(Nat)
  PROVE  (d \o f) \o r = d \o (f \o r)
BY ConcatAssociative

\* Every step of the channel keeps the trail in order: a published event is newer
\* than all of it, a delivered batch stays in its place, a lost one leaves a gap.
LEMMA TrailStep ==
  ASSUME BusInv, TrailInOrder, [Next]_vars
  PROVE  TrailInOrder'
<1> DEFINE pending == batch \o queue
<1>0. /\ delivered \in Seq(Nat) /\ batch \in Seq(Nat) /\ queue \in Seq(Nat) /\ published \in Nat
      /\ pending \in Seq(Nat)
  <2>1. Events \subseteq Nat
    BY BusSizes DEF Events
  <2> QED BY <2>1, SeqMonotonic, ConcatProperties, Lengths DEF BusInv, TypeOK
<1>1. CASE UNCHANGED Channel!channelVars
  BY <1>1 DEF Channel!channelVars, TrailInOrder, Trail, Rising
<1>2. CASE Channel!Accept
  <2>1. published' = published + 1 /\ pending' = Append(pending, published') /\ delivered' = delivered
    BY <1>2 DEF Channel!Accept
  <2>0. published' \in Nat
    BY <1>0, <2>1
  <2>2. Trail' = Append(Trail, published')
    <3>1. Trail = delivered \o pending /\ Trail' = delivered \o Append(pending, published')
      BY <2>1 DEF Trail
    <3> HIDE DEF pending
    <3> QED BY <1>0, <2>0, <3>1, AppendAtEnd
  <2>3. \A i \in 1..Len(Trail) : Trail[i] < published'
    BY <1>0, <2>1, ElementOfSeq DEF TrailInOrder
  <2>4. /\ Append(Trail, published') \in Seq(Nat) /\ Rising(Append(Trail, published'))
        /\ \A i \in 1..Len(Append(Trail, published')) : Append(Trail, published')[i] <= published'
    BY <2>0, <2>3, AppendRises DEF TrailInOrder
  <2> QED BY <2>2, <2>4 DEF TrailInOrder, Rising
<1>3. CASE Channel!Refuse
  <2>1. Trail' = Trail /\ published' = published + 1
    BY <1>3 DEF Channel!Refuse, Trail
  <2>2. \A i \in 1..Len(Trail) : Trail[i] \in Nat
    BY ElementOfSeq DEF TrailInOrder
  <2> QED BY <1>0, <2>1, <2>2 DEF TrailInOrder, Rising
<1>4. CASE Channel!Close \/ Channel!Finish
  BY <1>4 DEF Channel!Close, Channel!Finish, TrailInOrder, Trail, Rising
<1>5. ASSUME NEW n \in 1..Len(pending), Channel!Deliver(n) \/ Channel!Drop(n) \/ Channel!LoseSilently(n)
      PROVE  TrailInOrder'
  <2> DEFINE front == SubSeq(pending, 1, n)
             rest0 == SubSeq(pending, n + 1, Len(pending))
  <2>1. /\ Len(pending) \in Nat /\ \A i \in 1..Len(pending) : pending[i] \in Nat
    BY <1>0, LenProperties, ElementOfSeq
  <2>2. front \in Seq(Nat) /\ rest0 \in Seq(Nat)
    BY <2>1, SubSeqProperties
  <2>3. front \o rest0 = pending
    <3>1. front \o rest0 = SubSeq(pending, 1, Len(pending))
      <4>1. n \in 0..Len(pending) /\ Len(pending) \in n..Len(pending) /\ 1 \in 1..Len(pending) + 1
        BY <2>1
      <4> HIDE DEF pending
      <4> QED BY <1>0, <4>1, ConcatAdjacentSubSeq
    <3> QED BY <1>0, <3>1, SubSeqFull
  <2>4. pending' = rest0 /\ published' = published
    BY <1>5 DEF Channel!Deliver, Channel!Drop, Channel!LoseSilently, Channel!Leave
  <2>5. Trail = delivered \o (front \o rest0)
    BY <2>3 DEF Trail
  <2>6. CASE Channel!Deliver(n)
    <3>1. delivered' = delivered \o front
      BY <2>6 DEF Channel!Deliver
    <3>2. Trail' = Trail
      <4>1. Trail' = (delivered \o front) \o rest0
        BY <2>4, <3>1 DEF Trail
      <4> HIDE DEF front, rest0
      <4>2. (delivered \o front) \o rest0 = delivered \o (front \o rest0)
        BY <1>0, <2>2, Regrouped
      <4> QED BY <2>5, <4>1, <4>2
    <3> QED BY <2>4, <3>2 DEF TrailInOrder, Rising
  <2>7. CASE Channel!Drop(n) \/ Channel!LoseSilently(n)
    <3>1. Trail' = delivered \o rest0
      BY <2>4, <2>7 DEF Channel!Drop, Channel!LoseSilently, Trail
    <3> HIDE DEF front, rest0
    <3> QED BY <1>0, <2>2, <2>4, <2>5, <3>1, GapKeepsRising DEF TrailInOrder
  <2> QED BY <1>5, <2>6, <2>7
<1> QED BY <1>1, <1>2, <1>3, <1>4, <1>5, BusRefines DEF Channel!Next

\* No event is acknowledged twice and none overtakes another on its way to the
\* control plane, through retries, refusals, overflows and the final flush.
THEOREM DeliversOnceInOrder == Spec => []DeliveredOnceInOrder
<1>1. Init => TrailInOrder
  <2> SUFFICES ASSUME Init PROVE TrailInOrder
    OBVIOUS
  <2>1. Trail = <<>>
    BY EmptySeq, ConcatEmptySeq DEF Init, Trail
  <2>2. Trail \in Seq(Nat) /\ Len(Trail) = 0
    BY <2>1, EmptySeq
  <2> QED BY <2>2 DEF TrailInOrder, Rising
<1>2. BusInv /\ TrailInOrder => DeliveredOnceInOrder
  <2> SUFFICES ASSUME BusInv, TrailInOrder,
                      NEW i \in 1..Len(delivered), NEW j \in 1..Len(delivered), i < j
               PROVE  delivered[i] < delivered[j]
    BY DEF DeliveredOnceInOrder, Rising
  <2>1. /\ delivered \in Seq(Events) /\ batch \o queue \in Seq(Events)
        /\ Len(delivered) \in Nat /\ Len(batch \o queue) \in Nat
    BY ConcatProperties, LenProperties DEF BusInv, TypeOK
  <2>2. /\ Len(Trail) = Len(delivered) + Len(batch \o queue)
        /\ \A k \in 1..Len(delivered) : Trail[k] = delivered[k]
    BY <2>1, ConcatProperties DEF Trail
  <2>3. i \in 1..Len(Trail) /\ j \in 1..Len(Trail)
    BY <2>1, <2>2
  <2> QED BY <2>2, <2>3 DEF TrailInOrder, Rising
<1>3. TrailInOrder /\ BusInv /\ [Next]_vars => TrailInOrder'
  BY TrailStep
<1> QED BY <1>1, <1>2, <1>3, BusInvariant, PTL DEF Spec
=============================================================================
