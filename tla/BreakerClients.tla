---------------------------- MODULE BreakerClients ----------------------------
(***************************************************************************)
(* The breaker under concurrent control-plane calls.  The container shares *)
(* one breaker between the telemetry worker and every contract sync pass:  *)
(* bootstrap, the background worker and async callers.  Each of them asks  *)
(* allow(), makes a call of any length, and reports the outcome, so calls  *)
(* admitted in one state may report in another.                            *)
(*                                                                         *)
(* Deserters are the clients that may leave an admitted call without       *)
(* reporting it: a telemetry batch interrupted by stop() during backoff,   *)
(* and a fetch that ends in anything but CongineSyncError (a cancelled     *)
(* task, an unforeseen exception).                                         *)
(***************************************************************************)
EXTENDS CircuitBreaker, FiniteSets

CONSTANTS Clients, Deserters

ASSUME ClientsAssumption == IsFiniteSet(Clients) /\ Deserters \subseteq Clients

VARIABLES call,      \* what each client is doing
          prober,    \* clients admitted in the current half-open episode
          rest       \* ticks since a failure last left the breaker open

clientVars == <<state, failures, age, probe, call, prober, rest>>

ClientsTypeOK ==
  /\ BreakerTypeOK
  /\ call \in [Clients -> {"none", "normal", "probe"}]
  /\ prober \in SUBSET Clients
  /\ rest \in 0..Cooldown

ClientsInit ==
  /\ BreakerInit
  /\ call = [c \in Clients |-> "none"]
  /\ prober = {}
  /\ rest = Cooldown

\* The probers of this episode; a breaker that half-opens starts a new one.
ProbersNow == IF CooledDown THEN {} ELSE prober

Begin(c) ==
  /\ call[c] = "none"
  /\ AllowGranted
  /\ call' = [call EXCEPT ![c] = IF StateNow = "HALF_OPEN" THEN "probe" ELSE "normal"]
  /\ prober' = IF StateNow = "HALF_OPEN" THEN ProbersNow \cup {c} ELSE ProbersNow
  /\ UNCHANGED rest

Refused(c) ==
  /\ call[c] = "none"
  /\ AllowRefused
  /\ prober' = ProbersNow
  /\ UNCHANGED <<call, rest>>

Succeed(c) ==
  /\ call[c] # "none"
  /\ RecordSuccess
  /\ call' = [call EXCEPT ![c] = "none"]
  /\ UNCHANGED <<prober, rest>>

Fail(c) ==
  /\ call[c] # "none"
  /\ RecordFailure
  /\ call' = [call EXCEPT ![c] = "none"]
  /\ rest' = IF Trips THEN 0 ELSE rest
  /\ UNCHANGED prober

\* The call ends and neither record_success nor record_failure runs.
Desert(c) ==
  /\ c \in Deserters
  /\ call[c] # "none"
  /\ call' = [call EXCEPT ![c] = "none"]
  /\ UNCHANGED <<state, failures, age, probe, prober, rest>>

\* bootstrap and health() read the state without making a call.
Inspect ==
  /\ ReadState
  /\ prober' = ProbersNow
  /\ UNCHANGED <<call, rest>>

Elapse ==
  /\ rest < Cooldown
  /\ rest' = rest + 1
  /\ Tick \/ (age = Cooldown /\ UNCHANGED breakerVars)
  /\ UNCHANGED <<call, prober>>

Report(c) == Succeed(c) \/ Fail(c) \/ Desert(c)

ClientsNext ==
  \/ \E c \in Clients : Begin(c) \/ Refused(c) \/ Report(c)
  \/ Inspect
  \/ Elapse

\* Time passes; clients keep coming back (sync runs periodically); an HTTP call
\* always ends, by its own timeout.
ClientsFairness ==
  /\ WF_clientVars(Elapse)
  /\ \A c \in Clients : WF_clientVars(Begin(c) \/ Refused(c)) /\ WF_clientVars(Report(c))

ClientsSpec == ClientsInit /\ [][ClientsNext]_clientVars
ClientsFairSpec == ClientsSpec /\ ClientsFairness

-----------------------------------------------------------------------------
(* Properties.                                                             *)

\* The breaker has left CLOSED exactly when the failures since the last success
\* reached the threshold, however late calls admitted earlier report.
OpenOnEvidence == (state = "CLOSED") <=> (failures < Threshold)

\* Each half-open episode admits at most one call, and the flag tells whether it
\* has: reports of calls from before the episode never free a second slot in it.
OneProbePerEpisode ==
  state = "HALF_OPEN" => Cardinality(prober) = IF probe THEN 1 ELSE 0

\* A breaker that is not closed admits a call only when the whole cooldown has
\* passed since the last failure that opened or re-opened it.
CooldownRespected ==
  [][\A c \in Clients : call[c] = "none" /\ call'[c] # "none" /\ state # "CLOSED"
        => rest = Cooldown]_clientVars

\* If calls stop failing, the breaker closes and stays closed.  The one way out of
\* this is a deserted probe, which leaves the breaker refusing everybody.
Wedged ==
  state = "HALF_OPEN" /\ probe /\ \A c \in Clients : call[c] # "probe"

PlaneRecovers ==
  \/ []<><<\E c \in Clients : Fail(c)>>_clientVars
  \/ <>[](state = "CLOSED")
  \/ <>[]Wedged
=============================================================================
