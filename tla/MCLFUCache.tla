------------------------------ MODULE MCLFUCache ------------------------------
(* Three keys over two slots: eviction has ties to break, and entries leave  *)
(* by expiry, by eviction and by the sweeper in any order.                   *)
EXTENDS LFUCache
CONSTANTS a, b, c, old, new

MCKeys == {a, b, c}
MCSchemas == {old, new}
MCTTLs == {1, 2}
MCCapacities == {0, 2}
=============================================================================
