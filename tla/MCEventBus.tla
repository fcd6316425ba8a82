------------------------------ MODULE MCEventBus ------------------------------
(* Four events over a queue of two and batches of two: the queue fills, a    *)
(* batch can grow while publishers refill the queue, and the flush needs     *)
(* more than one batch.                                                      *)
EXTENDS EventBus
CONSTANTS s1, s2

MCStoppers == {s1, s2}
MCBudgets == {-1, 0, 2}
=============================================================================
