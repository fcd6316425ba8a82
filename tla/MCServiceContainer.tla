-------------------------- MODULE MCServiceContainer --------------------------
(* Two threads, two tenants and a registry of one, so that a lookup of the   *)
(* other tenant evicts.  Two containers make every pair that matters: a      *)
(* tenant and the one that evicts it, a default and the one that replaces it *)
(* after a reset or in a race, a default and a tenant closed by one reset.   *)
EXTENDS ServiceContainer
CONSTANTS t1, t2, x, y

MCThreads == {t1, t2}
MCTenants == {x, y}
=============================================================================
