-------------------------- MODULE MCValidateContract --------------------------
(* Two ticks to the millisecond; the budget is two milliseconds and a stage  *)
(* may be capped at one, so a stage can outlive its cap inside the budget,   *)
(* and less than a millisecond can be left for the second stage.             *)
EXTENDS ValidateContract

MCCaps == {1, NoCap}
=============================================================================
