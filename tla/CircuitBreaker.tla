---------------------------- MODULE CircuitBreaker ----------------------------
(***************************************************************************)
(* The CircuitBreaker object: its state and one action per method.  Every  *)
(* method holds the breaker's lock from start to end, so each is one step. *)
(* Modules that use the breaker instantiate this one and conjoin these     *)
(* actions with their own.                                                 *)
(*                                                                         *)
(* Two counters are abstracted without losing behaviour.  The clock is     *)
(* only ever compared through clock() - opened_at >= cooldown_seconds, so  *)
(* age is that difference, held at Cooldown once it gets there.  The       *)
(* failure count is only ever compared with the threshold, so it is held   *)
(* there.                                                                  *)
(***************************************************************************)
EXTENDS Naturals

CONSTANTS Threshold,   \* failure_threshold
          Cooldown     \* cooldown_seconds, in ticks

ASSUME BreakerAssumption == Threshold \in Nat \ {0} /\ Cooldown \in Nat

VARIABLES state,      \* _state
          failures,   \* _consecutive_failures
          age,        \* clock() - _opened_at
          probe       \* _probe_in_flight

breakerVars == <<state, failures, age, probe>>

BreakerTypeOK ==
  /\ state \in {"CLOSED", "OPEN", "HALF_OPEN"}
  /\ failures \in 0..Threshold
  /\ age \in 0..Cooldown
  /\ probe \in BOOLEAN

BreakerInit ==
  /\ state = "CLOSED"
  /\ failures = 0
  /\ age = Cooldown
  /\ probe = FALSE

\* _maybe_half_open_locked: the state and probe flag after it.
CooledDown == state = "OPEN" /\ age = Cooldown
StateNow == IF CooledDown THEN "HALF_OPEN" ELSE state
ProbeNow == ~CooledDown /\ probe

\* Mutant: a granted probe does not raise the flag.
AllowUnflagged ==
  /\ StateNow = "CLOSED" \/ (StateNow = "HALF_OPEN" /\ ~ProbeNow)
  /\ state' = StateNow
  /\ probe' = ProbeNow
  /\ UNCHANGED <<failures, age>>

\* allow() returning True: a closed breaker, or the probe of a half-open one.
AllowGranted ==
  /\ StateNow = "CLOSED" \/ (StateNow = "HALF_OPEN" /\ ~ProbeNow)
  /\ state' = StateNow
  /\ probe' = IF StateNow = "HALF_OPEN" THEN TRUE ELSE ProbeNow
  /\ UNCHANGED <<failures, age>>

\* allow() returning False.
AllowRefused ==
  /\ StateNow = "OPEN" \/ (StateNow = "HALF_OPEN" /\ ProbeNow)
  /\ state' = StateNow
  /\ probe' = ProbeNow
  /\ UNCHANGED <<failures, age>>

\* The state property, which may itself half-open the breaker.
ReadState ==
  /\ state' = StateNow
  /\ probe' = ProbeNow
  /\ UNCHANGED <<failures, age>>

\* Mutant: a success leaves the state as it was.
SuccessKeepsState ==
  failures' = 0 /\ age' = Cooldown /\ probe' = FALSE /\ UNCHANGED state

RecordSuccess ==
  /\ state' = "CLOSED"
  /\ failures' = 0
  /\ age' = Cooldown
  /\ probe' = FALSE

Trips == state = "HALF_OPEN" \/ failures + 1 >= Threshold

\* Mutant: a re-opening keeps its old time.
FailureKeepsTime ==
  /\ probe' = FALSE
  /\ state' = IF Trips THEN "OPEN" ELSE state
  /\ age' = IF Trips /\ state = "CLOSED" THEN 0 ELSE age
  /\ failures' = IF state = "HALF_OPEN" \/ failures = Threshold
                   THEN failures ELSE failures + 1

RecordFailure ==
  /\ probe' = FALSE
  /\ state' = IF Trips THEN "OPEN" ELSE state
  /\ age' = IF Trips THEN 0 ELSE age
  /\ failures' = IF state = "HALF_OPEN" \/ failures = Threshold
                   THEN failures ELSE failures + 1

\* The clock advances.
Tick ==
  /\ age < Cooldown
  /\ age' = age + 1
  /\ UNCHANGED <<state, failures, probe>>
=============================================================================
