------------------------------ MODULE MCBreaker ------------------------------
(* Three clients share a breaker that opens after two failures: two calls    *)
(* admitted while closed can trip it while a third is still out.             *)
EXTENDS BreakerClients
CONSTANTS bus, sync, boot

MCClients == {bus, sync, boot}
MCDeserters == {boot}
=============================================================================
