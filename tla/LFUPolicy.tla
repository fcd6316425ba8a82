------------------------------ MODULE LFUPolicy ------------------------------
(***************************************************************************)
(* What the schema cache promises: a bounded map whose entries expire, and *)
(* which makes room by evicting an entry of the lowest use count, the one  *)
(* least recently used or written among those.  No frequency buckets, no   *)
(* minimum kept up to date.                                                *)
(***************************************************************************)
EXTENDS Naturals, Sublists

CONSTANTS Keys, Schemas, TTLs, NoSchema

VARIABLES capacity, entry, touched, got

policyVars == <<capacity, entry, touched, got>>

Cached == DOMAIN entry
Live(k) == k \in Cached /\ entry[k].left > 0
Size(S) == Len(Only(touched, S))

Without(S) == [k \in Cached \ S |-> entry[k]]
Order(S) == Only(touched, Keys \ S)

Before(j, k) == \E m, n \in DOMAIN touched : m < n /\ touched[m] = j /\ touched[n] = k

Victim(v) ==
  /\ v \in Cached
  /\ \A k \in Cached \ {v} :
       \/ entry[v].freq < entry[k].freq
       \/ entry[v].freq = entry[k].freq /\ Before(v, k)

Init ==
  /\ entry = <<>>
  /\ touched = <<>>
  /\ got = NoSchema

\* k is used: its count goes up and it becomes the most recently touched.
Touch(k, schema, left) ==
  /\ entry' = [entry EXCEPT ![k] = [schema |-> schema, left |-> left,
                                     freq |-> entry[k].freq + 1]]
  /\ touched' = Append(Order({k}), k)

Expire(S) ==
  /\ entry' = Without(S)
  /\ touched' = Order(S)

Get(k) ==
  IF Live(k)
    THEN Touch(k, entry[k].schema, entry[k].left) /\ got' = entry[k].schema
    ELSE Expire({k} \cap Cached) /\ got' = NoSchema

Exists(k) ==
  /\ Expire(IF Live(k) THEN {} ELSE {k} \cap Cached)
  /\ UNCHANGED got

Insert(k, schema, ttl, evicted) ==
  /\ entry' = [j \in (Cached \ evicted) \cup {k} |->
                 IF j = k THEN [schema |-> schema, left |-> ttl, freq |-> 1]
                 ELSE entry[j]]
  /\ touched' = Append(Order(evicted), k)

Put(k, schema, ttl) ==
  /\ UNCHANGED got
  /\ IF capacity = 0 THEN UNCHANGED <<entry, touched>>
     ELSE IF k \in Cached THEN Touch(k, schema, ttl)
     ELSE IF Size(Cached) < capacity THEN Insert(k, schema, ttl, {})
     ELSE \E v \in Cached : Victim(v) /\ Insert(k, schema, ttl, {v})

Clear == Expire(Cached) /\ UNCHANGED got

Sweep == Expire({k \in Cached : ~Live(k)}) /\ UNCHANGED got

Tick ==
  /\ entry' = [k \in Cached |-> [entry[k] EXCEPT !.left = IF @ = 0 THEN 0 ELSE @ - 1]]
  /\ UNCHANGED <<touched, got>>

Next ==
  /\ UNCHANGED capacity
  /\ \/ \E k \in Keys : Get(k) \/ Exists(k)
     \/ \E k \in Keys, schema \in Schemas, ttl \in TTLs : Put(k, schema, ttl)
     \/ Clear \/ Sweep \/ Tick

Spec == Init /\ [][Next]_policyVars
=============================================================================
