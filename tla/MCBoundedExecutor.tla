-------------------------- MODULE MCBoundedExecutor --------------------------
(* A small instance of BoundedExecutor: one worker and one pending slot, so  *)
(* that one zombie queues a second call and a third is shed.                 *)
EXTENDS BoundedExecutor
CONSTANTS c1, c2, c3, k1

MCCalls == {c1, c2, c3}
MCAsyncCalls == {c3}
MCClosers == {k1}
=============================================================================
