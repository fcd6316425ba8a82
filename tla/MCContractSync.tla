---------------------------- MODULE MCContractSync ----------------------------
(* Two worker processes, one thread each.  The first release may break a     *)
(* pass half-way, the second has its first contract rejected.                *)
EXTENDS ContractSync, TLC
CONSTANTS p1, p2, t1, t2, a, b

MCProcs == {p1, p2}
MCThreads == {t1, t2}
MCIds == {a, b}
MCHostOf == (t1 :> p1) @@ (t2 :> p2)
MCOffer == << (a :> "ok") @@ (b :> "broken"),
              (a :> "rejected") @@ (b :> "ok") >>
=============================================================================
