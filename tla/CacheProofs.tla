----------------------------- MODULE CacheProofs -----------------------------
(***************************************************************************)
(* Proofs about the two caches.  LFUCache: its dictionaries agree and it   *)
(* implements LFUPolicy, for any keys, schemas, lifetimes and capacity.    *)
(* The semantic evaluator and its preparation cache: for any threads,      *)
(* schema objects, contents, capacity and budget.                          *)
(***************************************************************************)
EXTENDS LFUCache, SemanticEvaluator, SequenceLemmas, TLAPS

-----------------------------------------------------------------------------
(* The schema cache.  Its buckets are no more than the keys in the order   *)
(* they were last used, sorted by how often they were: the invariant says  *)
(* so, and every helper of the code is shown to keep it.                   *)

\* The use counts there are, and the keys used so often.
Counts(f) == {f[k] : k \in DOMAIN f}
With(f, n) == {k \in DOMAIN f : f[k] = n}

\* What the buckets are, for use counts f and an order o of use.
Bucketing(f, o) == [n \in Counts(f) |-> Only(o, With(f, n))]

\* o orders the keys of f.
Orders(o, f) == o \in Seq(Keys) /\ IsInjective(o) /\ ToSet(o) = DOMAIN f

\* The keys that remain, in their order.
LEMMA OrdersDrop ==
  ASSUME NEW f, NEW o, Orders(o, f), NEW S, NEW g, DOMAIN g = DOMAIN f \cap S
  PROVE  Orders(Only(o, S), g)
<1>1. o \in Seq(Keys) /\ IsInjective(o) /\ ToSet(o) = DOMAIN f
  BY DEF Orders
<1>2. Only(o, S) \in Seq(Keys)
  BY <1>1, OnlyTypes
<1>3. IsInjective(Only(o, S))
  BY <1>1, OnlyDistinct
<1>4. ToSet(Only(o, S)) = DOMAIN g
  BY <1>1, OnlyElements
<1> QED BY <1>2, <1>3, <1>4 DEF Orders

\* A new key comes last.
LEMMA OrdersExtend ==
  ASSUME NEW f, NEW o, Orders(o, f), NEW k \in Keys, k \notin DOMAIN f, NEW n
  PROVE  Orders(Append(o, k), Extend(f, k, n))
<1>1. PICK q : q = Append(o, k)
  OBVIOUS
<1>2. Longer(Keys, o, k, q)
  BY <1>1 DEF Orders, Longer
<1>3. IsInjective(o) /\ ToSet(o) = DOMAIN f
  BY DEF Orders
<1>4. q \in Seq(Keys) /\ IsInjective(q) /\ ToSet(q) = DOMAIN f \cup {k}
  BY <1>2, <1>3, LongerTypes, LongerElements, LongerDistinct
<1>5. DOMAIN Extend(f, k, n) = DOMAIN f \cup {k}
  BY DEF Extend
<1> QED BY <1>1, <1>4, <1>5 DEF Orders

\* Taking a key out of its bucket leaves the buckets of the keys that remain (Unbucket).
LEMMA Unbucketing ==
  ASSUME NEW f, NEW o, Orders(o, f), NEW k \in DOMAIN f
  PROVE  Unbucket(Bucketing(f, o), f[k], k) = Bucketing(Drop(f, k), Only(o, DOMAIN f \ {k}))
<1> DEFINE D == DOMAIN f
           b == Bucketing(f, o)
           g == Drop(f, k)
           p == Only(o, D \ {k})
<1>1. PICK n : n = f[k]
  OBVIOUS
<1>2. o \in Seq(Keys) /\ ToSet(o) = D /\ D \subseteq Keys
  <2>1. o \in Seq(Keys) /\ ToSet(o) = D
    BY DEF Orders
  <2>2. \A i \in DOMAIN o : o[i] \in Keys
    BY <2>1, LenProperties, ElementOfSeq
  <2> QED BY <2>1, <2>2 DEF ToSet
<1>3. \A j : With(g, j) = With(f, j) \ {k} /\ (j # n => With(g, j) = With(f, j))
  BY <1>1 DEF With, Drop
<1>4. n \in Counts(f) /\ DOMAIN b = Counts(f) /\ \A j \in Counts(f) : b[j] = Only(o, With(f, j))
  BY <1>1 DEF Counts, Bucketing
<1>5. \A j : Only(p, With(g, j)) = Only(o, With(g, j))
  <2> TAKE j
  <2>1. Only(p, With(g, j)) = Only(o, (D \ {k}) \cap With(g, j))
    BY <1>2, OnlyOnly
  <2>2. (D \ {k}) \cap With(g, j) = With(g, j)
    BY <1>3 DEF With
  <2> QED BY <2>1, <2>2
<1>6. Removed(b[n], k) = Only(o, With(g, n))
  <2>1. Removed(b[n], k) = Only(Only(o, With(f, n)), Keys \ {k})
    BY <1>4 DEF Removed
  <2>2. Only(Only(o, With(f, n)), Keys \ {k}) = Only(o, With(f, n) \cap (Keys \ {k}))
    BY <1>2, OnlyOnly
  <2>3. With(f, n) \cap (Keys \ {k}) = With(g, n)
    BY <1>2, <1>3 DEF With
  <2> QED BY <2>1, <2>2, <2>3
<1>7. Only(o, With(g, n)) = <<>> <=> With(g, n) = {}
  <2>1. ToSet(Only(o, With(g, n))) = D \cap With(g, n) /\ Only(o, With(g, n)) \in Seq(Keys)
    BY <1>2, OnlyElements, OnlyTypes
  <2>2. D \cap With(g, n) = With(g, n)
    BY <1>3 DEF With
  <2> QED BY <2>1, <2>2, ElementsNone
<1>8. Counts(g) = IF With(g, n) = {} THEN Counts(f) \ {n} ELSE Counts(f)
  BY <1>1 DEF Counts, With, Drop
<1>9. Bucketing(g, p) = [j \in Counts(g) |-> Only(o, With(g, j))]
  BY <1>5 DEF Bucketing
<1>10. Unbucket(b, n, k) = IF With(g, n) = {} THEN Drop(b, n) ELSE [b EXCEPT ![n] = Only(o, With(g, n))]
  BY <1>6, <1>7 DEF Unbucket
<1>11. CASE With(g, n) = {}
  <2>1. Drop(b, n) = [j \in Counts(f) \ {n} |-> Only(o, With(f, j))]
    BY <1>4 DEF Drop
  <2> QED BY <1>1, <1>3, <1>8, <1>9, <1>10, <1>11, <2>1
<1>12. CASE With(g, n) # {}
  <2>1. [b EXCEPT ![n] = Only(o, With(g, n))] = [j \in Counts(f) |-> Only(o, With(g, j))]
    BY <1>3, <1>4
  <2> QED BY <1>1, <1>8, <1>9, <1>10, <1>12, <2>1
<1> QED BY <1>11, <1>12

\* Putting a new key into a bucket makes the buckets of the keys there are then (Bucket).
LEMMA Rebucketing ==
  ASSUME NEW f, NEW o, Orders(o, f), NEW k \in Keys, k \notin DOMAIN f, NEW n
  PROVE  Bucket(Bucketing(f, o), n, k) = Bucketing(Extend(f, k, n), Append(o, k))
<1> DEFINE D == DOMAIN f
           b == Bucketing(f, o)
           h == Extend(f, k, n)
<1>1. PICK q : q = Append(o, k)
  OBVIOUS
<1>2. o \in Seq(Keys) /\ ToSet(o) = D /\ Longer(Keys, o, k, q)
  BY <1>1 DEF Orders, Longer
<1>3. \A j : With(h, j) = IF j = n THEN With(f, n) \cup {k} ELSE With(f, j)
  BY DEF With, Extend
<1>4. Counts(h) = Counts(f) \cup {n}
  BY DEF Counts, Extend
<1>5. DOMAIN b = Counts(f) /\ \A j \in Counts(f) : b[j] = Only(o, With(f, j))
  BY DEF Bucketing
<1>6. ASSUME NEW j, j # n PROVE Only(q, With(h, j)) = Only(o, With(f, j))
  <2>1. k \notin With(f, j) /\ With(h, j) = With(f, j)
    BY <1>3, <1>6 DEF With
  <2>2. Only(q, With(f, j)) = Only(o, With(f, j))
    BY <1>2, <2>1, OnlyDrops
  <2> QED BY <2>1, <2>2
<1>7. Only(q, With(h, n)) = Append(Only(o, With(f, n)), k)
  <2>1. PICK R : R = With(h, n)
    OBVIOUS
  <2>2. R = With(f, n) \cup {k}
    BY <1>3, <2>1
  <2>3. Longer(Keys, Only(o, R), k, Only(q, R))
    BY <1>2, <2>2, OnlyKeeps
  <2>4. Only(o, R) = Only(o, With(f, n))
    BY <1>2, <2>2, OnlySame
  <2> QED BY <2>1, <2>3, <2>4 DEF Longer
<1>8. n \notin Counts(f) => Only(o, With(f, n)) = <<>>
  <2>1. n \notin Counts(f) => With(f, n) = {}
    BY DEF Counts, With
  <2>2. ToSet(Only(o, With(f, n))) = D \cap With(f, n) /\ Only(o, With(f, n)) \in Seq(Keys)
    BY <1>2, OnlyElements, OnlyTypes
  <2> QED BY <2>1, <2>2, ElementsNone
<1>9. Append(IF n \in DOMAIN b THEN b[n] ELSE <<>>, k) = Only(q, With(h, n))
  BY <1>5, <1>7, <1>8
<1>10. Bucket(b, n, k) = [j \in Counts(h) |-> IF j = n THEN Only(q, With(h, n)) ELSE b[j]]
  BY <1>4, <1>5, <1>9, Zenon DEF Bucket, Extend
<1>11. \A j \in Counts(h) : j # n => b[j] = Only(q, With(h, j))
  BY <1>4, <1>5, <1>6
<1>12. Bucketing(h, q) = [j \in Counts(h) |-> Only(q, With(h, j))]
  BY DEF Bucketing
<1> QED BY <1>1, <1>10, <1>11, <1>12

-----------------------------------------------------------------------------
(* The helpers on a whole cache.                                           *)

Entries == [schema : Schemas, left : Nat]
Store(v, f, b, m) == [value |-> v, freq |-> f, buckets |-> b, min |-> m]

\* Values v and use counts f of the same keys, o their order and m no more than any count.
Fits(v, f, m, o) ==
  /\ DOMAIN f = DOMAIN v /\ DOMAIN v \subseteq Keys
  /\ \A k \in DOMAIN v : v[k] \in Entries /\ f[k] \in Nat /\ f[k] # 0
  /\ Orders(o, f)
  /\ m \in Nat /\ \A n \in Counts(f) : m <= n

\* Evicting a key (_evict_key).
LEMMA EvictKeyFits ==
  ASSUME NEW v, NEW f, NEW m, NEW o, Fits(v, f, m, o), NEW k \in DOMAIN v
  PROVE  /\ EvictKey(Store(v, f, Bucketing(f, o), m), k)
              = Store(Drop(v, k), Drop(f, k), Bucketing(Drop(f, k), Only(o, DOMAIN v \ {k})), m)
         /\ Fits(Drop(v, k), Drop(f, k), m, Only(o, DOMAIN v \ {k}))
<1> DEFINE b == Bucketing(f, o)
           p == Only(o, DOMAIN v \ {k})
<1>1. DOMAIN f = DOMAIN v /\ Orders(o, f)
  BY DEF Fits
<1>2. Unbucket(b, f[k], k) = Bucketing(Drop(f, k), p)
  BY <1>1, Unbucketing
<1>3. EvictKey(Store(v, f, b, m), k) = Store(Drop(v, k), Drop(f, k), Unbucket(b, f[k], k), m)
  <2> HIDE DEF b
  <2> QED BY <1>1 DEF EvictKey, Store
<1>4. Orders(p, Drop(f, k))
  <2>1. DOMAIN Drop(f, k) = DOMAIN f \cap (DOMAIN v \ {k})
    BY <1>1 DEF Drop
  <2> QED BY <1>1, <2>1, OrdersDrop
<1>5. Fits(Drop(v, k), Drop(f, k), m, p)
  <2>1. \A n \in Counts(Drop(f, k)) : n \in Counts(f)
    BY DEF Counts, Drop
  <2>2. DOMAIN Drop(v, k) = DOMAIN v \ {k} /\ DOMAIN Drop(f, k) = DOMAIN v \ {k}
    BY <1>1 DEF Drop
  <2>3. \A j \in DOMAIN v \ {k} : Drop(v, k)[j] = v[j] /\ Drop(f, k)[j] = f[j]
    BY <1>1 DEF Drop
  <2> HIDE DEF p
  <2> QED BY <1>4, <2>1, <2>2, <2>3 DEF Fits
<1> QED BY <1>2, <1>3, <1>5

\* Inserting a key (put).
LEMMA InsertFits ==
  ASSUME NEW v, NEW f, NEW m, NEW o, Fits(v, f, m, o), NEW k \in Keys, k \notin DOMAIN v,
         NEW entry \in Entries
  PROVE  /\ Insert(Store(v, f, Bucketing(f, o), m), k, entry)
              = Store(Extend(v, k, entry), Extend(f, k, 1),
                      Bucketing(Extend(f, k, 1), Append(o, k)), 1)
         /\ Fits(Extend(v, k, entry), Extend(f, k, 1), 1, Append(o, k))
<1> DEFINE b == Bucketing(f, o)
           q == Append(o, k)
<1>1. DOMAIN f = DOMAIN v /\ Orders(o, f)
  BY DEF Fits
<1>2. Bucket(b, 1, k) = Bucketing(Extend(f, k, 1), q)
  BY <1>1, Rebucketing
<1>3. Insert(Store(v, f, b, m), k, entry)
        = Store(Extend(v, k, entry), Extend(f, k, 1), Bucket(b, 1, k), 1)
  <2> HIDE DEF b
  <2> QED BY DEF Insert, Store
<1>4. Orders(q, Extend(f, k, 1))
  BY <1>1, OrdersExtend
<1>5. Fits(Extend(v, k, entry), Extend(f, k, 1), 1, q)
  <2>1. DOMAIN Extend(v, k, entry) = DOMAIN v \cup {k} /\ DOMAIN Extend(f, k, 1) = DOMAIN v \cup {k}
    BY <1>1 DEF Extend
  <2>2. \A j \in DOMAIN v \cup {k} :
          /\ Extend(v, k, entry)[j] = IF j = k THEN entry ELSE v[j]
          /\ Extend(f, k, 1)[j] = IF j = k THEN 1 ELSE f[j]
    BY <1>1 DEF Extend
  <2>3. \A j \in DOMAIN v \cup {k} : Extend(f, k, 1)[j] \in Nat /\ 1 <= Extend(f, k, 1)[j]
    BY <1>1, <2>2 DEF Fits
  <2>4. \A n \in Counts(Extend(f, k, 1)) : 1 <= n
    BY <2>1, <2>3 DEF Counts
  <2> HIDE DEF q
  <2> QED BY <1>4, <2>1, <2>2, <2>4 DEF Fits
<1> QED BY <1>2, <1>3, <1>5

\* What using a key does to the parts of the cache.
LEMMA IncrementFields ==
  ASSUME NEW v, NEW f, NEW b, NEW m, NEW k, NEW n, n = f[k], NEW u, u = Unbucket(b, n, k)
  PROVE  IncrementFreq(Store(v, f, b, m), k)
           = Store(v, Extend(f, k, n + 1), Bucket(u, n + 1, k),
                   IF n \notin DOMAIN u /\ m = n THEN n + 1 ELSE m)
<1>1. PICK c : c = Store(v, f, b, m)
  OBVIOUS
<1>2. c.freq = f /\ c.buckets = b /\ c.min = m
  BY <1>1 DEF Store
<1>3. PICK F, B, M : /\ F = Extend(f, k, n + 1) /\ B = Bucket(u, n + 1, k)
                     /\ M = IF n \notin DOMAIN u /\ m = n THEN n + 1 ELSE m
  OBVIOUS
<1>4. IncrementFreq(c, k) = [c EXCEPT !.freq = F, !.buckets = B, !.min = M]
  BY <1>2, <1>3, Zenon DEF IncrementFreq
<1>5. [Store(v, f, b, m) EXCEPT !.freq = F, !.buckets = B, !.min = M] = Store(v, F, B, M)
  <2> DEFINE r == [Store(v, f, b, m) EXCEPT !.freq = F, !.buckets = B, !.min = M]
             q == Store(v, F, B, M)
             Names == {"value", "freq", "buckets", "min"}
  <2>1. r = [i \in Names |-> r[i]] /\ q = [i \in Names |-> q[i]]
    BY DEF Store
  <2>2. r["value"] = v /\ r["freq"] = F /\ r["buckets"] = B /\ r["min"] = M
    BY DEF Store
  <2>3. q["value"] = v /\ q["freq"] = F /\ q["buckets"] = B /\ q["min"] = M
    BY DEF Store
  <2> HIDE DEF r, q
  <2>4. \A i \in Names : r[i] = q[i]
    BY <2>2, <2>3
  <2>5. r = q
    BY <2>1, <2>4
  <2> QED BY <2>5 DEF r, q
<1> QED BY <1>1, <1>3, <1>4, <1>5

\* Using a key (_increment_freq).
LEMMA IncrementFits ==
  ASSUME NEW v, NEW f, NEW m, NEW o, Fits(v, f, m, o), NEW k \in DOMAIN v,
         NEW w, DOMAIN w = DOMAIN v, \A j \in DOMAIN v : w[j] \in Entries
  PROVE  \E l : /\ IncrementFreq(Store(w, f, Bucketing(f, o), m), k)
                     = Store(w, Extend(f, k, f[k] + 1),
                             Bucketing(Extend(f, k, f[k] + 1), Append(Removed(o, k), k)), l)
                /\ Fits(w, Extend(f, k, f[k] + 1), l, Append(Removed(o, k), k))
<1> DEFINE b == Bucketing(f, o)
           g == Drop(f, k)
           p == Removed(o, k)
           q == Append(p, k)
<1>1. PICK n : n = f[k]
  OBVIOUS
<1> DEFINE h == Extend(f, k, n + 1)
           l == IF n \notin DOMAIN Unbucket(b, n, k) /\ m = n THEN n + 1 ELSE m
<1>2. DOMAIN f = DOMAIN v /\ Orders(o, f) /\ DOMAIN v \subseteq Keys /\ o \in Seq(Keys) /\ ToSet(o) = DOMAIN f
  BY DEF Fits, Orders
<1>3. n \in Nat /\ n # 0 /\ m \in Nat
  BY <1>1 DEF Fits
<1>4. p = Only(o, DOMAIN f \ {k})
  BY <1>2, OnlySame DEF Removed
<1>5. Unbucket(b, n, k) = Bucketing(g, p)
  BY <1>1, <1>2, <1>4, Unbucketing
<1>6. Orders(p, g)
  <2>1. PICK S : S = DOMAIN f \ {k}
    OBVIOUS
  <2>2. DOMAIN g = DOMAIN f \cap S /\ p = Only(o, S)
    BY <1>4, <2>1 DEF Drop
  <2> HIDE DEF p, g
  <2> QED BY <1>2, <2>2, OrdersDrop
<1>7. k \in Keys /\ k \notin DOMAIN g /\ Extend(g, k, n + 1) = h
  BY <1>2 DEF Drop, Extend
<1>8. Bucket(Bucketing(g, p), n + 1, k) = Bucketing(h, q)
  BY <1>6, <1>7, Rebucketing
<1>9. Orders(q, h)
  BY <1>6, <1>7, OrdersExtend
<1>10. IncrementFreq(Store(w, f, b, m), k) = Store(w, h, Bucketing(h, q), l)
  <2>1. IncrementFreq(Store(w, f, b, m), k)
          = Store(w, h, Bucket(Unbucket(b, n, k), n + 1, k), l)
    <3> HIDE DEF b
    <3> QED BY <1>1, IncrementFields
  <2> QED BY <1>5, <1>8, <2>1
<1>11. l \in Nat /\ \A j \in Counts(h) : l <= j
  <2>1. DOMAIN Unbucket(b, n, k) = Counts(g)
    BY <1>5 DEF Bucketing
  <2>2. Counts(h) = Counts(g) \cup {n + 1}
    BY <1>2, <1>7 DEF Counts, Extend, Drop
  <2>3. \A j \in Counts(g) : j \in Nat /\ m <= j
    BY <1>2 DEF Counts, Drop, Fits
  <2>4. m <= n
    BY <1>1, <1>2 DEF Fits, Counts
  <2>5. CASE n \notin Counts(g) /\ m = n
    <3>1. l = n + 1
      BY <2>1, <2>5
    <3>2. \A j \in Counts(g) : n + 1 <= j
      BY <1>3, <2>3, <2>5
    <3> HIDE DEF l, g, h
    <3> QED BY <1>3, <2>2, <3>1, <3>2
  <2>6. CASE ~(n \notin Counts(g) /\ m = n)
    <3>1. l = m
      BY <2>1, <2>6
    <3> HIDE DEF l, g, h
    <3> QED BY <1>3, <2>2, <2>3, <2>4, <3>1
  <2> QED BY <2>5, <2>6
<1>12. Fits(w, h, l, q)
  <2>1. DOMAIN h = DOMAIN v /\ \A j \in DOMAIN v : h[j] = IF j = k THEN n + 1 ELSE f[j]
    BY <1>2 DEF Extend
  <2>2. \A j \in DOMAIN v : h[j] \in Nat /\ h[j] # 0
    <3> HIDE DEF h
    <3> QED BY <1>3, <2>1 DEF Fits
  <2> HIDE DEF h, l, q
  <2> QED BY <1>2, <1>9, <1>11, <2>1, <2>2 DEF Fits
<1> HIDE DEF l
<1> QED BY <1>1, <1>10, <1>12

\* k is used less than every other key, or as little and used last before it.
Precedes(o, j, k) == \E a, c \in DOMAIN o : a < c /\ o[a] = j /\ o[c] = k
LeastUsed(k, f, o) ==
  \A j \in DOMAIN f \ {k} : \/ f[k] < f[j]
                            \/ f[k] = f[j] /\ Precedes(o, k, j)

\* An eviction takes from the bucket of the least count there is, whether the minimum
\* names a bucket or not (_evict_lfu).
LEMMA VictimBucketLeast ==
  ASSUME NEW v, NEW f, NEW m, NEW o, Fits(v, f, m, o), DOMAIN v # {}
  PROVE  LET n == VictimBucket(Store(v, f, Bucketing(f, o), m))
         IN  n \in Counts(f) /\ n \in Nat /\ \A j \in Counts(f) : n <= j
<1>1. DOMAIN Bucketing(f, o) = Counts(f)
  BY DEF Bucketing
<1>2. Counts(f) # {} /\ Counts(f) \subseteq Nat /\ \A j \in Counts(f) : m <= j
  BY DEF Fits, Counts
<1>3. Least(Counts(f)) \in Counts(f) /\ \A j \in Counts(f) : Least(Counts(f)) <= j
  <2>1. \E n \in Counts(f) : \A j \in Counts(f) : n <= j
    BY <1>2, LeastNumber
  <2> QED BY <2>1, Zenon DEF Least
<1>4. VictimBucket(Store(v, f, Bucketing(f, o), m)) = IF m \in Counts(f) THEN m ELSE Least(Counts(f))
  BY <1>1 DEF VictimBucket, Store
<1> QED BY <1>2, <1>3, <1>4

\* The first of that bucket is the least used, and of those the longest unused.
LEMMA VictimLeastUsed ==
  ASSUME NEW v, NEW f, NEW m, NEW o, Fits(v, f, m, o),
         NEW n \in Counts(f), \A j \in Counts(f) : n <= j
  PROVE  LET k == Head(Bucketing(f, o)[n]) IN k \in DOMAIN v /\ f[k] = n /\ LeastUsed(k, f, o)
<1>1. o \in Seq(Keys) /\ ToSet(o) = DOMAIN f /\ DOMAIN f = DOMAIN v /\ DOMAIN o = 1..Len(o)
  BY LenProperties DEF Fits, Orders
<1>2. PICK u : u = Only(o, With(f, n))
  OBVIOUS
<1>3. u \in Seq(Keys) /\ u # <<>> /\ Bucketing(f, o)[n] = u
  <2>1. u \in Seq(Keys) /\ ToSet(u) = DOMAIN f \cap With(f, n)
    BY <1>1, <1>2, OnlyTypes, OnlyElements
  <2>2. DOMAIN f \cap With(f, n) # {}
    BY DEF Counts, With
  <2> QED BY <1>2, <2>1, <2>2, ElementsNone DEF Bucketing
<1>4. PICK a \in DOMAIN o : /\ o[a] = u[1] /\ o[a] \in With(f, n)
                            /\ \A c \in DOMAIN o : o[c] \in With(f, n) => a <= c
  BY <1>1, <1>2, <1>3, OnlyFirst
<1>5. PICK k : k = Head(u) /\ k = u[1]
  BY <1>3, HeadTailProperties
<1>6. k \in DOMAIN f /\ f[k] = n
  BY <1>4, <1>5 DEF With
<1>7. ASSUME NEW j \in DOMAIN f \ {k} PROVE f[k] < f[j] \/ (f[k] = f[j] /\ Precedes(o, k, j))
  <2> SUFFICES ASSUME ~(f[k] < f[j]) PROVE f[k] = f[j] /\ Precedes(o, k, j)
    OBVIOUS
  <2>1. f[j] = n
    <3>1. f[j] \in Counts(f) /\ n \in Nat /\ f[j] \in Nat
      BY <1>1 DEF Counts, Fits
    <3> QED BY <1>6, <3>1
  <2>2. PICK c \in DOMAIN o : o[c] = j
    BY <1>1 DEF ToSet
  <2>3. a <= c /\ a # c
    BY <1>4, <1>5, <2>1, <2>2 DEF With
  <2>4. a < c
    BY <1>1, <2>3
  <2> QED BY <1>4, <1>5, <1>6, <2>1, <2>2, <2>4 DEF Precedes
<1>8. LeastUsed(k, f, o)
  BY <1>7 DEF LeastUsed
<1> QED BY <1>1, <1>3, <1>5, <1>6, <1>8

\* Evicting the least used key (_evict_lfu).
LEMMA EvictLFUFits ==
  ASSUME NEW v, NEW f, NEW m, NEW o, Fits(v, f, m, o), DOMAIN v # {}
  PROVE  \E k \in DOMAIN v : \E n :
           /\ EvictLFU(Store(v, f, Bucketing(f, o), m))
                = Store(Drop(v, k), Drop(f, k), Bucketing(Drop(f, k), Only(o, DOMAIN v \ {k})), n)
           /\ Fits(Drop(v, k), Drop(f, k), n, Only(o, DOMAIN v \ {k}))
           /\ LeastUsed(k, f, o)
<1>1. PICK b, c : b = Bucketing(f, o) /\ c = Store(v, f, b, m)
  OBVIOUS
<1>2. PICK n : n = VictimBucket(c)
  OBVIOUS
<1>3. n \in Counts(f) /\ n \in Nat /\ \A j \in Counts(f) : n <= j
  BY <1>1, <1>2, VictimBucketLeast
<1>4. PICK k : k = Head(b[n])
  OBVIOUS
<1>5. k \in DOMAIN v /\ LeastUsed(k, f, o)
  BY <1>1, <1>3, <1>4, VictimLeastUsed
<1>6. PICK v1, f1, b1, o1 :
        /\ v1 = Drop(v, k) /\ f1 = Drop(f, k) /\ o1 = Only(o, DOMAIN v \ {k})
        /\ b1 = Bucketing(f1, o1)
  OBVIOUS
<1>7. EvictKey(c, k) = Store(v1, f1, b1, m) /\ Fits(v1, f1, m, o1)
  BY <1>1, <1>5, <1>6, EvictKeyFits
<1>8. c.buckets # <<>> /\ c.buckets = b
  <2>1. DOMAIN b # {}
    BY <1>1, <1>3 DEF Bucketing
  <2> QED BY <1>1, <2>1 DEF Store
<1>9. EvictLFU(c) = [EvictKey(c, k) EXCEPT !.min = n]
  BY <1>2, <1>4, <1>8, Zenon DEF EvictLFU
<1>10. [Store(v1, f1, b1, m) EXCEPT !.min = n] = Store(v1, f1, b1, n)
  BY DEF Store
<1>11. Fits(v1, f1, n, o1)
  <2>1. \A j \in Counts(f1) : j \in Counts(f)
    BY <1>6 DEF Counts, Drop
  <2> QED BY <1>3, <1>7, <2>1 DEF Fits
<1> QED BY <1>1, <1>5, <1>6, <1>7, <1>9, <1>10, <1>11

\* Evicting all keys but those of S (the sweep).
LEMMA SweepFits ==
  ASSUME NEW v, NEW f, NEW m, NEW o, Fits(v, f, m, o), NEW S, S \subseteq DOMAIN v,
         NEW b, b = Bucketing(f, o)
  PROVE  /\ [n \in {j \in DOMAIN b : Only(b[j], S) # <<>>} |-> Only(b[n], S)]
              = Bucketing([k \in S |-> f[k]], Only(o, S))
         /\ Fits([k \in S |-> v[k]], [k \in S |-> f[k]], m, Only(o, S))
<1>1. PICK g, p : g = [k \in S |-> f[k]] /\ p = Only(o, S)
  OBVIOUS
<1>2. o \in Seq(Keys) /\ ToSet(o) = DOMAIN f /\ DOMAIN f = DOMAIN v /\ Orders(o, f)
  BY DEF Fits, Orders
<1>3. DOMAIN g = S /\ \A k \in S : g[k] = f[k]
  BY <1>1
<1>4. DOMAIN b = Counts(f) /\ \A j \in Counts(f) : b[j] = Only(o, With(f, j))
  BY DEF Bucketing
<1>5. \A j : With(g, j) = With(f, j) \cap S
  BY <1>2, <1>3 DEF With
<1>6. ASSUME NEW j \in Counts(f) PROVE Only(b[j], S) = Only(o, With(g, j))
  <2>1. Only(Only(o, With(f, j)), S) = Only(o, With(f, j) \cap S)
    BY <1>2, OnlyOnly
  <2> QED BY <1>4, <1>5, <2>1
<1>7. ASSUME NEW j PROVE Only(p, With(g, j)) = Only(o, With(g, j))
  <2>1. Only(Only(o, S), With(g, j)) = Only(o, S \cap With(g, j))
    BY <1>2, OnlyOnly
  <2>2. S \cap With(g, j) = With(g, j)
    BY <1>5
  <2> QED BY <1>1, <2>1, <2>2
<1>8. ASSUME NEW j PROVE Only(o, With(g, j)) = <<>> <=> j \notin Counts(g)
  <2>1. ToSet(Only(o, With(g, j))) = DOMAIN f \cap With(g, j) /\ Only(o, With(g, j)) \in Seq(Keys)
    BY <1>2, OnlyElements, OnlyTypes
  <2>2. DOMAIN f \cap With(g, j) = {} <=> j \notin Counts(g)
    BY <1>2, <1>3 DEF With, Counts
  <2> QED BY <2>1, <2>2, ElementsNone
<1>9. \A j \in Counts(g) : j \in Counts(f)
  BY <1>2, <1>3 DEF Counts
<1>10. {j \in DOMAIN b : Only(b[j], S) # <<>>} = Counts(g)
  BY <1>4, <1>6, <1>8, <1>9
<1>11. Bucketing(g, p) = [n \in Counts(g) |-> Only(b[n], S)]
  BY <1>6, <1>7, <1>9 DEF Bucketing
<1>12. Orders(p, g)
  <2>1. DOMAIN g = DOMAIN f \cap S
    BY <1>2, <1>3
  <2> QED BY <1>1, <1>2, <2>1, OrdersDrop
<1>13. Fits([k \in S |-> v[k]], g, m, p)
  BY <1>2, <1>3, <1>9, <1>12 DEF Fits
<1> QED BY <1>1, <1>10, <1>11, <1>13

-----------------------------------------------------------------------------
(* The invariant, and what an operation does to the cache.                 *)

CacheInv ==
  /\ CacheTypeOK
  /\ cache = Store(cache.value, cache.freq, Bucketing(cache.freq, touched), cache.min)
  /\ Fits(cache.value, cache.freq, cache.min, touched)
  /\ Cardinality(DOMAIN cache.value) <= capacity

\* The cache of the next state holds values v and use counts f, its buckets in order.
Becomes(v, f, m) == cache' = Store(v, f, Bucketing(f, touched'), m) /\ Fits(v, f, m, touched')

\* A used key becomes the one last used.
Touches(k, v) ==
  /\ DOMAIN v = DOMAIN cache.value
  /\ \E m : Becomes(v, Extend(cache.freq, k, cache.freq[k] + 1), m)
  /\ touched' = Append(Only(touched, Keys \ {k}), k)

\* The keys of S go.
Leaves(S) ==
  /\ \E m : Becomes([k \in DOMAIN cache.value \ S |-> cache.value[k]],
                    [k \in DOMAIN cache.value \ S |-> cache.freq[k]], m)
  /\ touched' = Only(touched, DOMAIN cache.value \ S)

\* The keys of S make room for a new one.
Enters(k, entry, S) ==
  /\ k \notin DOMAIN cache.value /\ entry \in Entries
  /\ \E m : Becomes(Extend([j \in DOMAIN cache.value \ S |-> cache.value[j]], k, entry),
                    Extend([j \in DOMAIN cache.value \ S |-> cache.freq[j]], k, 1), m)
  /\ touched' = Append(Only(touched, DOMAIN cache.value \ S), k)

\* What a key that is dropped leaves.
LEMMA DropLeaves ==
  ASSUME CacheInv, NEW k
  PROVE  /\ Drop(cache.value, k) = [j \in DOMAIN cache.value \ {k} |-> cache.value[j]]
         /\ Drop(cache.freq, k) = [j \in DOMAIN cache.value \ {k} |-> cache.freq[j]]
BY DEF CacheInv, Fits, Drop

\* A key that is evicted leaves.
LEMMA EvictStep ==
  ASSUME CacheInv, NEW k \in DOMAIN cache.value, cache' = EvictKey(cache, k), Kept
  PROVE  Leaves({k})
<1>1. PICK v, f, m : v = cache.value /\ f = cache.freq /\ m = cache.min
  OBVIOUS
<1>2. cache = Store(v, f, Bucketing(f, touched), m) /\ Fits(v, f, m, touched)
  BY <1>1 DEF CacheInv
<1>3. PICK v1, f1, p : v1 = Drop(v, k) /\ f1 = Drop(f, k) /\ p = Only(touched, DOMAIN v \ {k})
  OBVIOUS
<1>4. cache' = Store(v1, f1, Bucketing(f1, p), m) /\ Fits(v1, f1, m, p)
  <2>1. k \in DOMAIN v /\ Fits(v, f, m, touched)
    BY <1>1, <1>2
  <2>2. /\ EvictKey(Store(v, f, Bucketing(f, touched), m), k)
             = Store(Drop(v, k), Drop(f, k), Bucketing(Drop(f, k), Only(touched, DOMAIN v \ {k})), m)
        /\ Fits(Drop(v, k), Drop(f, k), m, Only(touched, DOMAIN v \ {k}))
    BY ONLY <2>1, EvictKeyFits
  <2> QED BY <1>2, <1>3, <2>2
<1>5. cache'.value = v1 /\ DOMAIN v1 = DOMAIN v \ {k}
  BY <1>3, <1>4 DEF Store, Drop
<1>6. touched' = p
  BY <1>3, <1>5 DEF Kept
<1>7. Becomes(v1, f1, m)
  BY <1>4, <1>6 DEF Becomes
<1>8. /\ v1 = [j \in DOMAIN cache.value \ {k} |-> cache.value[j]]
      /\ f1 = [j \in DOMAIN cache.value \ {k} |-> cache.freq[j]]
  BY <1>1, <1>3, DropLeaves
<1>9. touched' = Only(touched, DOMAIN cache.value \ {k})
  BY <1>1, <1>3, <1>6
<1> QED BY <1>7, <1>8, <1>9 DEF Leaves

\* get(): a miss, an expired entry that is evicted, or a hit.
LEMMA GetStep ==
  ASSUME CacheInv, NEW k \in Keys, Get(k)
  PROVE  \/ k \notin DOMAIN cache.value /\ UNCHANGED <<cache, touched>> /\ got' = NoSchema
         \/ k \in DOMAIN cache.value /\ Expired(k) /\ Leaves({k}) /\ got' = NoSchema
         \/ /\ k \in DOMAIN cache.value /\ ~Expired(k) /\ Touches(k, cache.value)
            /\ got' = cache.value[k].schema
<1>1. CASE k \notin DOMAIN cache.value
  BY <1>1 DEF Get
<1>2. CASE k \in DOMAIN cache.value /\ Expired(k)
  BY <1>2, EvictStep DEF Get
<1>3. CASE k \in DOMAIN cache.value /\ ~Expired(k)
  <2>1. PICK v, f, m : v = cache.value /\ f = cache.freq /\ m = cache.min
    OBVIOUS
  <2>2. cache = Store(v, f, Bucketing(f, touched), m) /\ Fits(v, f, m, touched)
    BY <2>1 DEF CacheInv
  <2>3. cache' = IncrementFreq(cache, k) /\ touched' = Append(Removed(touched, k), k)
        /\ got' = cache.value[k].schema
    BY <1>3 DEF Get, Used
  <2>4. \A j \in DOMAIN v : v[j] \in Entries
    BY <2>2 DEF Fits
  <2>5. PICK h, q : h = Extend(f, k, f[k] + 1) /\ q = Append(Removed(touched, k), k)
    OBVIOUS
  <2>6. PICK l : IncrementFreq(cache, k) = Store(v, h, Bucketing(h, q), l) /\ Fits(v, h, l, q)
    <3>1. k \in DOMAIN v /\ Fits(v, f, m, touched) /\ \A j \in DOMAIN v : v[j] \in Entries
      BY <1>3, <2>1, <2>2, <2>4
    <3>2. \E l : /\ IncrementFreq(Store(v, f, Bucketing(f, touched), m), k)
                      = Store(v, Extend(f, k, f[k] + 1),
                              Bucketing(Extend(f, k, f[k] + 1), Append(Removed(touched, k), k)), l)
                 /\ Fits(v, Extend(f, k, f[k] + 1), l, Append(Removed(touched, k), k))
      BY ONLY <3>1, IncrementFits
    <3> QED BY <2>2, <2>5, <3>2
  <2>7. Becomes(v, h, l)
    BY <2>3, <2>5, <2>6 DEF Becomes
  <2>8. Touches(k, cache.value)
    BY <2>1, <2>3, <2>5, <2>7 DEF Touches, Removed
  <2> QED BY <1>3, <2>3, <2>8
<1> QED BY <1>1, <1>2, <1>3

\* put() of a key that is cached: a new value, and a use.
LEMMA PutAgain ==
  ASSUME CacheInv, NEW k \in DOMAIN cache.value, NEW entry \in Entries,
         cache' = IncrementFreq([cache EXCEPT !.value[k] = entry], k), Used(k)
  PROVE  Touches(k, [cache.value EXCEPT ![k] = entry])
<1>1. PICK v, f, m, b : v = cache.value /\ f = cache.freq /\ m = cache.min /\ b = Bucketing(f, touched)
  OBVIOUS
<1>2. cache = Store(v, f, b, m) /\ Fits(v, f, m, touched)
  BY <1>1 DEF CacheInv
<1>3. PICK w : w = [v EXCEPT ![k] = entry]
  OBVIOUS
<1>4. DOMAIN w = DOMAIN v /\ (\A j \in DOMAIN v : w[j] \in Entries)
  BY <1>2, <1>3 DEF Fits
<1>5. [cache EXCEPT !.value[k] = entry] = Store(w, f, b, m)
  <2>1. [Store(v, f, b, m) EXCEPT !.value[k] = entry] = Store([v EXCEPT ![k] = entry], f, b, m)
    BY DEF Store
  <2> QED BY <1>2, <1>3, <2>1
<1>6. PICK h, q : h = Extend(f, k, f[k] + 1) /\ q = Append(Removed(touched, k), k)
  OBVIOUS
<1>7. PICK l : cache' = Store(w, h, Bucketing(h, q), l) /\ Fits(w, h, l, q)
  <2>1. k \in DOMAIN v /\ Fits(v, f, m, touched) /\ DOMAIN w = DOMAIN v /\ \A j \in DOMAIN v : w[j] \in Entries
    BY <1>1, <1>2, <1>4
  <2>2. \E l : /\ IncrementFreq(Store(w, f, Bucketing(f, touched), m), k)
                    = Store(w, Extend(f, k, f[k] + 1),
                            Bucketing(Extend(f, k, f[k] + 1), Append(Removed(touched, k), k)), l)
               /\ Fits(w, Extend(f, k, f[k] + 1), l, Append(Removed(touched, k), k))
    BY ONLY <2>1, IncrementFits
  <2> QED BY <1>1, <1>5, <1>6, <2>2
<1>8. touched' = q
  BY <1>6 DEF Used
<1>9. Becomes(w, h, l)
  BY <1>7, <1>8 DEF Becomes
<1> QED BY <1>1, <1>3, <1>4, <1>6, <1>8, <1>9 DEF Touches, Removed

\* put() of a key that is not, into a cache with room for it.
LEMMA PutNew ==
  ASSUME CacheInv, NEW k \in Keys, k \notin DOMAIN cache.value, NEW entry \in Entries,
         cache' = Insert(cache, k, entry), touched' = Append(Only(touched, DOMAIN cache'.value), k)
  PROVE  Enters(k, entry, {})
<1>1. PICK v, f, m : v = cache.value /\ f = cache.freq /\ m = cache.min
  OBVIOUS
<1>2. /\ cache = Store(v, f, Bucketing(f, touched), m) /\ Fits(v, f, m, touched)
      /\ DOMAIN f = DOMAIN v /\ touched \in Seq(Keys) /\ ToSet(touched) = DOMAIN v
  BY <1>1 DEF CacheInv, Fits, Orders
<1>3. PICK w, g, q : w = Extend(v, k, entry) /\ g = Extend(f, k, 1) /\ q = Append(touched, k)
  OBVIOUS
<1>4. cache' = Store(w, g, Bucketing(g, q), 1) /\ Fits(w, g, 1, q)
  <2>1. Fits(v, f, m, touched) /\ k \notin DOMAIN v
    BY <1>1, <1>2
  <2>2. /\ Insert(Store(v, f, Bucketing(f, touched), m), k, entry)
             = Store(Extend(v, k, entry), Extend(f, k, 1),
                     Bucketing(Extend(f, k, 1), Append(touched, k)), 1)
        /\ Fits(Extend(v, k, entry), Extend(f, k, 1), 1, Append(touched, k))
    BY ONLY <2>1, k \in Keys, entry \in Entries, InsertFits
  <2> QED BY <1>2, <1>3, <2>2
<1>5. cache'.value = w /\ DOMAIN w = DOMAIN v \cup {k}
  BY <1>3, <1>4 DEF Store, Extend
<1>6. Only(touched, DOMAIN w) = touched /\ Only(touched, DOMAIN v \ {}) = touched
  <2>1. \A x \in ToSet(touched) : x \in DOMAIN w /\ x \in DOMAIN v \ {}
    BY <1>2, <1>5
  <2> QED BY <1>2, <2>1, OnlyAll
<1>7. touched' = q
  BY <1>3, <1>5, <1>6
<1>8. Becomes(w, g, 1)
  BY <1>4, <1>7 DEF Becomes
<1>9. PICK v0, f0 : v0 = [j \in DOMAIN v \ {} |-> v[j]] /\ f0 = [j \in DOMAIN v \ {} |-> f[j]]
  OBVIOUS
<1>10. Extend(v0, k, entry) = w /\ Extend(f0, k, 1) = g
  BY <1>2, <1>3, <1>9 DEF Extend
<1>11. touched' = Append(Only(touched, DOMAIN v \ {}), k)
  BY <1>3, <1>6, <1>7
<1> QED BY <1>1, <1>8, <1>9, <1>10, <1>11 DEF Enters

\* put() of a key that is not, into a full one: the least used key makes room.
LEMMA PutEvicting ==
  ASSUME CacheInv, NEW k \in Keys, k \notin DOMAIN cache.value, NEW entry \in Entries,
         DOMAIN cache.value # {},
         cache' = Insert(EvictLFU(cache), k, entry),
         touched' = Append(Only(touched, DOMAIN cache'.value), k)
  PROVE  \E j \in DOMAIN cache.value : LeastUsed(j, cache.freq, touched) /\ Enters(k, entry, {j})
<1>1. PICK v, f, m : v = cache.value /\ f = cache.freq /\ m = cache.min
  OBVIOUS
<1>2. /\ cache = Store(v, f, Bucketing(f, touched), m) /\ Fits(v, f, m, touched) /\ DOMAIN v # {}
      /\ DOMAIN f = DOMAIN v /\ touched \in Seq(Keys) /\ ToSet(touched) = DOMAIN v
  BY <1>1 DEF CacheInv, Fits, Orders
<1>3. PICK j, n :
        /\ j \in DOMAIN v
        /\ EvictLFU(cache)
             = Store(Drop(v, j), Drop(f, j), Bucketing(Drop(f, j), Only(touched, DOMAIN v \ {j})), n)
        /\ Fits(Drop(v, j), Drop(f, j), n, Only(touched, DOMAIN v \ {j}))
        /\ LeastUsed(j, f, touched)
  <2>1. \E j \in DOMAIN v : \E n :
          /\ EvictLFU(Store(v, f, Bucketing(f, touched), m))
               = Store(Drop(v, j), Drop(f, j), Bucketing(Drop(f, j), Only(touched, DOMAIN v \ {j})), n)
          /\ Fits(Drop(v, j), Drop(f, j), n, Only(touched, DOMAIN v \ {j}))
          /\ LeastUsed(j, f, touched)
    BY ONLY <1>2, EvictLFUFits
  <2> QED BY <1>2, <2>1
<1>4. PICK v0, f0, p : v0 = Drop(v, j) /\ f0 = Drop(f, j) /\ p = Only(touched, DOMAIN v \ {j})
  OBVIOUS
<1>5. PICK w, g, q : w = Extend(v0, k, entry) /\ g = Extend(f0, k, 1) /\ q = Append(p, k)
  OBVIOUS
<1>6. DOMAIN v0 = DOMAIN v \ {j}
  BY <1>4 DEF Drop
<1>7. cache' = Store(w, g, Bucketing(g, q), 1) /\ Fits(w, g, 1, q)
  <2>1. Fits(v0, f0, n, p) /\ k \notin DOMAIN v0
    BY <1>1, <1>3, <1>4, <1>6
  <2>2. /\ Insert(Store(v0, f0, Bucketing(f0, p), n), k, entry)
             = Store(Extend(v0, k, entry), Extend(f0, k, 1),
                     Bucketing(Extend(f0, k, 1), Append(p, k)), 1)
        /\ Fits(Extend(v0, k, entry), Extend(f0, k, 1), 1, Append(p, k))
    BY ONLY <2>1, k \in Keys, entry \in Entries, InsertFits
  <2> QED BY <1>3, <1>4, <1>5, <2>2
<1>8. cache'.value = w /\ DOMAIN w = (DOMAIN v \ {j}) \cup {k}
  BY <1>5, <1>6, <1>7 DEF Store, Extend
<1>9. Only(touched, DOMAIN w) = p
  <2>1. \A x \in ToSet(touched) : x \in DOMAIN w <=> x \in DOMAIN v \ {j}
    BY <1>1, <1>2, <1>8
  <2> QED BY <1>2, <1>4, <2>1, OnlySame
<1>10. touched' = q
  BY <1>5, <1>8, <1>9
<1>11. Becomes(w, g, 1)
  BY <1>7, <1>10 DEF Becomes
<1>12. /\ v0 = [i \in DOMAIN cache.value \ {j} |-> cache.value[i]]
       /\ f0 = [i \in DOMAIN cache.value \ {j} |-> cache.freq[i]]
  BY <1>1, <1>4, DropLeaves
<1>13. touched' = Append(Only(touched, DOMAIN cache.value \ {j}), k)
  BY <1>1, <1>4, <1>5, <1>10
<1>14. Enters(k, entry, {j})
  BY <1>5, <1>11, <1>12, <1>13 DEF Enters
<1> QED BY <1>1, <1>3, <1>14

\* put(): nothing without capacity, a use, a new key, or a new key for the least used.
LEMMA PutStep ==
  ASSUME CacheInv, NEW k \in Keys, NEW schema \in Schemas, NEW ttl \in TTLs, Put(k, schema, ttl),
         NEW entry, entry = [schema |-> schema, left |-> ttl]
  PROVE  \/ capacity = 0 /\ UNCHANGED <<cache, touched>>
         \/ /\ capacity # 0 /\ k \in DOMAIN cache.value
            /\ Touches(k, [cache.value EXCEPT ![k] = entry])
         \/ /\ capacity # 0 /\ k \notin DOMAIN cache.value /\ Cardinality(DOMAIN cache.value) < capacity
            /\ Enters(k, entry, {})
         \/ /\ capacity # 0 /\ k \notin DOMAIN cache.value /\ Cardinality(DOMAIN cache.value) = capacity
            /\ \E j \in DOMAIN cache.value :
                 LeastUsed(j, cache.freq, touched) /\ Enters(k, entry, {j})
<1>1. entry \in Entries /\ capacity \in Nat
  BY CacheAssumption DEF CacheAssumption, Entries, CacheInv, CacheTypeOK
<1>2. IsFiniteSet(DOMAIN cache.value) /\ Cardinality(DOMAIN cache.value) \in Nat
      /\ (Cardinality(DOMAIN cache.value) = 0 <=> DOMAIN cache.value = {})
  <2>1. PICK D : D = DOMAIN cache.value
    OBVIOUS
  <2>2. IsFiniteSet(D)
    BY <2>1, CacheAssumption, FS_Subset DEF CacheAssumption, CacheInv, CacheTypeOK
  <2> QED BY <2>1, <2>2, FS_CardinalityType, FS_EmptySet
<1>3. CASE capacity = 0
  BY <1>3 DEF Put
<1>4. CASE capacity # 0 /\ k \in DOMAIN cache.value
  <2>1. cache' = IncrementFreq([cache EXCEPT !.value[k] = entry], k) /\ Used(k)
    BY <1>4 DEF Put
  <2> QED BY <1>1, <1>4, <2>1, PutAgain
<1>5. CASE /\ capacity # 0 /\ k \notin DOMAIN cache.value
           /\ ~(Cardinality(DOMAIN cache.value) >= capacity)
  <2>1. cache' = Insert(cache, k, entry) /\ touched' = Append(Only(touched, DOMAIN cache'.value), k)
    BY <1>5 DEF Put
  <2>2. Enters(k, entry, {})
    BY <1>1, <1>5, <2>1, PutNew
  <2> QED BY <1>1, <1>2, <1>5, <2>2
<1>6. CASE /\ capacity # 0 /\ k \notin DOMAIN cache.value
           /\ Cardinality(DOMAIN cache.value) >= capacity
  <2>1. /\ cache' = Insert(EvictLFU(cache), k, entry)
        /\ touched' = Append(Only(touched, DOMAIN cache'.value), k)
    BY <1>6 DEF Put
  <2>2. Cardinality(DOMAIN cache.value) = capacity /\ DOMAIN cache.value # {}
    BY <1>1, <1>2, <1>6 DEF CacheInv
  <2>3. \E j \in DOMAIN cache.value : LeastUsed(j, cache.freq, touched) /\ Enters(k, entry, {j})
    BY <1>1, <1>6, <2>1, <2>2, PutEvicting
  <2> QED BY <1>6, <2>2, <2>3
<1> QED BY <1>3, <1>4, <1>5, <1>6

\* The empty cache (clear, and the cache as it is constructed).
LEMMA EmptyFits ==
  ASSUME NEW v, NEW f, DOMAIN v = {}, DOMAIN f = {}, v = [k \in DOMAIN v |-> v[k]],
         f = [k \in DOMAIN f |-> f[k]]
  PROVE  Empty = Store(v, f, Bucketing(f, <<>>), 0) /\ Fits(v, f, 0, <<>>)
<1>1. v = <<>> /\ f = <<>>
  OBVIOUS
<1>2. Counts(f) = {}
  BY DEF Counts
<1>3. Bucketing(f, <<>>) = <<>>
  BY <1>2 DEF Bucketing
<1>4. Orders(<<>>, f)
  BY EmptySeq DEF Orders, IsInjective, ToSet
<1>5. Fits(v, f, 0, <<>>)
  BY <1>2, <1>4 DEF Fits
<1> QED BY <1>1, <1>3, <1>5 DEF Empty, Store

\* clear(): every key leaves.
LEMMA ClearStep ==
  ASSUME CacheInv, Clear
  PROVE  Leaves(DOMAIN cache.value)
<1>1. PICK v, f, S : /\ S = DOMAIN cache.value \ DOMAIN cache.value
                     /\ v = [k \in S |-> cache.value[k]] /\ f = [k \in S |-> cache.freq[k]]
  OBVIOUS
<1>2. /\ S = {} /\ DOMAIN v = {} /\ DOMAIN f = {}
      /\ v = [k \in DOMAIN v |-> v[k]] /\ f = [k \in DOMAIN f |-> f[k]]
  BY <1>1
<1>3. Empty = Store(v, f, Bucketing(f, <<>>), 0) /\ Fits(v, f, 0, <<>>)
  BY ONLY <1>2, EmptyFits
<1>4. cache' = Empty /\ touched' = <<>>
  BY DEF Clear
<1>5. Becomes(v, f, 0)
  BY <1>3, <1>4 DEF Becomes
<1>6. Only(touched, S) = <<>>
  <2>1. touched \in Seq(Keys)
    BY DEF CacheInv, Fits, Orders
  <2>2. Only(touched, S) \in Seq(Keys) /\ ToSet(Only(touched, S)) = ToSet(touched) \cap S
    BY <2>1, OnlyTypes, OnlyElements
  <2> QED BY <1>2, <2>2, ElementsNone
<1> QED BY <1>1, <1>4, <1>5, <1>6 DEF Leaves

\* sweep_expired(): the expired keys leave.
LEMMA SweepStep ==
  ASSUME CacheInv, SweepExpired
  PROVE  Leaves({k \in DOMAIN cache.value : Expired(k)})
<1>1. PICK v, f, m, b : v = cache.value /\ f = cache.freq /\ m = cache.min /\ b = cache.buckets
  OBVIOUS
<1>2. cache = Store(v, f, Bucketing(f, touched), m) /\ Fits(v, f, m, touched)
  BY <1>1 DEF CacheInv
<1>3. b = Bucketing(f, touched)
  BY <1>1, <1>2 DEF Store
<1>4. PICK live : live = {k \in DOMAIN v : ~Expired(k)}
  OBVIOUS
<1>5. live = DOMAIN v \ {k \in DOMAIN cache.value : Expired(k)} /\ live \subseteq DOMAIN v
  BY <1>1, <1>4
<1>6. PICK v1, f1, p : /\ v1 = [k \in live |-> v[k]] /\ f1 = [k \in live |-> f[k]]
                       /\ p = Only(touched, live)
  OBVIOUS
<1>7. /\ [n \in {j \in DOMAIN b : Only(b[j], live) # <<>>} |-> Only(b[n], live)] = Bucketing(f1, p)
      /\ Fits(v1, f1, m, p)
  <2>1. Fits(v, f, m, touched) /\ live \subseteq DOMAIN v /\ b = Bucketing(f, touched)
    BY <1>2, <1>3, <1>5
  <2>2. /\ [n \in {j \in DOMAIN b : Only(b[j], live) # <<>>} |-> Only(b[n], live)]
             = Bucketing([k \in live |-> f[k]], Only(touched, live))
        /\ Fits([k \in live |-> v[k]], [k \in live |-> f[k]], m, Only(touched, live))
    BY ONLY <2>1, SweepFits
  <2> QED BY <1>6, <2>2
<1>8. cache' = Store(v1, f1, Bucketing(f1, p), m)
  BY <1>1, <1>4, <1>6, <1>7, Zenon DEF SweepExpired, Store
<1>9. touched' = p
  <2>1. cache'.value = v1 /\ DOMAIN v1 = live
    BY <1>6, <1>8 DEF Store
  <2> QED BY <1>6, <2>1 DEF SweepExpired, Kept
<1>10. Becomes(v1, f1, m)
  BY <1>7, <1>8, <1>9 DEF Becomes
<1> QED BY <1>1, <1>5, <1>6, <1>9, <1>10 DEF Leaves

\* exists() of an expired key evicts it.
LEMMA ExistsStep ==
  ASSUME CacheInv, NEW k \in Keys, Exists(k)
  PROVE  k \in DOMAIN cache.value /\ Expired(k) /\ Leaves({k})
BY EvictStep DEF Exists

\* The entries when time has passed.
Aged == [k \in DOMAIN cache.value |->
           [cache.value[k] EXCEPT !.left = IF @ = 0 THEN 0 ELSE @ - 1]]

\* Time passes: the deadlines come nearer.
LEMMA TickStep ==
  ASSUME CacheInv, Tick
  PROVE  \E m : Becomes(Aged, cache.freq, m)
<1>1. PICK v, f, m, b : v = cache.value /\ f = cache.freq /\ m = cache.min /\ b = Bucketing(f, touched)
  OBVIOUS
<1>2. cache = Store(v, f, b, m) /\ Fits(v, f, m, touched)
  BY <1>1 DEF CacheInv
<1>3. PICK w : w = Aged
  OBVIOUS
<1>4. DOMAIN w = DOMAIN v /\ \A k \in DOMAIN v : w[k] \in Entries
  <2>1. \A k \in DOMAIN v : v[k] \in Entries
    BY <1>2 DEF Fits
  <2>2. DOMAIN w = DOMAIN v /\ \A k \in DOMAIN v :
          w[k] = [v[k] EXCEPT !.left = IF v[k].left = 0 THEN 0 ELSE v[k].left - 1]
    BY <1>1, <1>3 DEF Aged
  <2>3. ASSUME NEW e \in Entries
        PROVE  [e EXCEPT !.left = IF e.left = 0 THEN 0 ELSE e.left - 1] \in Entries
    BY DEF Entries
  <2> QED BY <2>1, <2>2, <2>3
<1>5. cache' = [cache EXCEPT !.value = w] /\ touched' = touched
  BY <1>3, Zenon DEF Tick, Aged
<1>6. [Store(v, f, b, m) EXCEPT !.value = w] = Store(w, f, b, m)
  BY DEF Store
<1>7. Fits(w, f, m, touched)
  BY <1>2, <1>4 DEF Fits
<1>8. Becomes(w, f, m)
  BY <1>1, <1>2, <1>5, <1>6, <1>7 DEF Becomes
<1> QED BY <1>1, <1>3, <1>8

-----------------------------------------------------------------------------
(* The structures agree.                                                   *)

\* Whatever the cache becomes fits, if it holds no more than capacity.
LEMMA BecomesKeeps ==
  ASSUME NEW v, NEW f, NEW m, Becomes(v, f, m), Cardinality(DOMAIN v) <= capacity',
         capacity' \in Capacities, got' \in Schemas \cup {NoSchema}, closed' \in BOOLEAN,
         sweeper' \in {"off", "waiting", "ended"}
  PROVE  CacheInv'
<1>1. cache' = Store(v, f, Bucketing(f, touched'), m) /\ Fits(v, f, m, touched')
  BY DEF Becomes
<1>2. cache'.value = v /\ cache'.freq = f /\ cache'.min = m
  BY <1>1 DEF Store
<1>3. DOMAIN v \subseteq Keys /\ (\A k \in DOMAIN v : v[k] \in Entries) /\ m \in Nat
  BY <1>1 DEF Fits
<1>4. CacheTypeOK'
  BY <1>2, <1>3 DEF CacheTypeOK, Entries
<1> QED BY <1>1, <1>2, <1>4 DEF CacheInv

\* The cached keys are finitely many.
LEMMA CachedFinite ==
  ASSUME CacheInv
  PROVE  IsFiniteSet(DOMAIN cache.value) /\ Cardinality(DOMAIN cache.value) \in Nat /\ capacity \in Nat
<1>1. PICK D : D = DOMAIN cache.value
  OBVIOUS
<1>2. IsFiniteSet(D)
  BY <1>1, CacheAssumption, FS_Subset DEF CacheAssumption, CacheInv, CacheTypeOK
<1> QED BY <1>1, <1>2, FS_CardinalityType, CacheAssumption DEF CacheAssumption, CacheInv, CacheTypeOK

\* What the other variables are.
Others ==
  /\ capacity' = capacity /\ got' \in Schemas \cup {NoSchema} /\ closed' \in BOOLEAN
  /\ sweeper' \in {"off", "waiting", "ended"}

\* A use keeps the invariant.
LEMMA UseKeeps ==
  ASSUME CacheInv, Others, NEW k, NEW v, k \in DOMAIN v, Touches(k, v)
  PROVE  CacheInv'
<1>1. PICK m : Becomes(v, Extend(cache.freq, k, cache.freq[k] + 1), m)
  BY DEF Touches
<1>2. DOMAIN v = DOMAIN cache.value
  BY DEF Touches
<1> QED BY <1>1, <1>2, BecomesKeeps DEF CacheInv, CacheTypeOK, Others

\* An eviction, and the sweep.
LEMMA LeaveKeeps ==
  ASSUME CacheInv, Others, NEW S, Leaves(S)
  PROVE  CacheInv'
<1>1. PICK D, R, v, f : /\ D = DOMAIN cache.value /\ R = D \ S
                        /\ v = [k \in R |-> cache.value[k]] /\ f = [k \in R |-> cache.freq[k]]
  OBVIOUS
<1>2. PICK m : Becomes(v, f, m)
  BY <1>1 DEF Leaves
<1>3. Cardinality(DOMAIN v) <= Cardinality(D)
  <2>1. DOMAIN v = R /\ R \subseteq D /\ IsFiniteSet(D)
    BY <1>1, CachedFinite
  <2> QED BY <2>1, FS_Subset
<1>4. Cardinality(DOMAIN v) <= capacity
  <2>1. IsFiniteSet(DOMAIN v)
    BY <1>1, CachedFinite, FS_Subset
  <2> QED BY <1>1, <1>3, <2>1, CachedFinite, FS_CardinalityType DEF CacheInv
<1> QED BY <1>2, <1>4, BecomesKeeps DEF CacheInv, CacheTypeOK, Others

\* A new key, with an eviction when the cache is full.
LEMMA NewKeeps ==
  ASSUME CacheInv, Others, NEW k, NEW entry, NEW S, S \subseteq DOMAIN cache.value,
         Enters(k, entry, S), IsFiniteSet(S), Cardinality(DOMAIN cache.value \ S) < capacity
  PROVE  CacheInv'
<1>1. PICK D, R, v, f : /\ D = DOMAIN cache.value /\ R = D \ S
                        /\ v = Extend([j \in R |-> cache.value[j]], k, entry)
                        /\ f = Extend([j \in R |-> cache.freq[j]], k, 1)
  OBVIOUS
<1>2. PICK m : Becomes(v, f, m)
  BY <1>1 DEF Enters
<1>3. DOMAIN v = R \cup {k} /\ k \notin R /\ IsFiniteSet(R)
  BY <1>1, CachedFinite, FS_Subset DEF Extend, Enters
<1>4. Cardinality(R \cup {k}) = Cardinality(R) + 1 /\ Cardinality(R) \in Nat
  BY <1>3, FS_AddElement, FS_CardinalityType
<1>5. Cardinality(DOMAIN v) <= capacity
  BY <1>1, <1>3, <1>4, CachedFinite
<1> QED BY <1>2, <1>5, BecomesKeeps DEF CacheInv, CacheTypeOK, Others

\* The cache is empty at the beginning.
LEMMA CacheInitially == CacheInit => CacheInv
<1> SUFFICES ASSUME CacheInit PROVE CacheInv
  OBVIOUS
<1>1. PICK v, f : v = Empty.value /\ f = Empty.freq
  OBVIOUS
<1>2. /\ v = <<>> /\ f = <<>> /\ DOMAIN v = {} /\ DOMAIN f = {}
      /\ v = [k \in DOMAIN v |-> v[k]] /\ f = [k \in DOMAIN f |-> f[k]]
  BY <1>1 DEF Empty
<1>3. Empty = Store(v, f, Bucketing(f, <<>>), 0) /\ Fits(v, f, 0, <<>>)
  BY ONLY <1>2, EmptyFits
<1>4. cache = Empty /\ touched = <<>> /\ Empty.min = 0
  BY DEF CacheInit, Empty
<1>5. Cardinality(DOMAIN v) = 0
  BY <1>2, FS_EmptySet
<1>6. capacity \in Capacities /\ capacity \in Nat
  BY CacheAssumption DEF CacheAssumption, CacheInit
<1>7. CacheTypeOK
  <2>1. closed \in BOOLEAN
    BY Zenon DEF CacheInit
  <2>2. got \in Schemas \cup {NoSchema} /\ sweeper \in {"off", "waiting", "ended"}
    BY DEF CacheInit
  <2>3. DOMAIN cache.value = {} /\ cache.min = 0
    BY <1>1, <1>2, <1>4
  <2>4. DOMAIN cache.value \subseteq Keys /\ cache.min \in Nat
        /\ \A k \in DOMAIN cache.value : cache.value[k] \in [schema : Schemas, left : Nat]
    BY <2>3
  <2> QED BY <1>6, <2>1, <2>2, <2>4, Zenon DEF CacheTypeOK
<1> QED BY <1>1, <1>3, <1>4, <1>5, <1>6, <1>7 DEF CacheInv

\* Every step keeps the invariant.
LEMMA CacheStep == CacheInv /\ [CacheNext]_lfuVars => CacheInv'
<1> SUFFICES ASSUME CacheInv, [CacheNext]_lfuVars PROVE CacheInv'
  OBVIOUS
<1>0. /\ capacity \in Capacities /\ got \in Schemas \cup {NoSchema} /\ closed \in BOOLEAN
      /\ sweeper \in {"off", "waiting", "ended"}
      /\ \A k \in DOMAIN cache.value : cache.value[k].schema \in Schemas
  BY DEF CacheInv, CacheTypeOK
<1>1. ASSUME UNCHANGED <<cache, touched>>, Others PROVE CacheInv'
  BY <1>0, <1>1 DEF CacheInv, CacheTypeOK, Others
<1>2. ASSUME NEW k \in Keys, Get(k) PROVE CacheInv'
  <2>1. Others
    BY <1>0, <1>2 DEF Get, Others
  <2>2. \/ UNCHANGED <<cache, touched>>
        \/ Leaves({k})
        \/ k \in DOMAIN cache.value /\ Touches(k, cache.value)
    BY <1>2, GetStep
  <2> QED BY <1>1, <2>1, <2>2, LeaveKeeps, UseKeeps
<1>3. ASSUME NEW k \in Keys, NEW schema \in Schemas, NEW ttl \in TTLs, Put(k, schema, ttl)
      PROVE  CacheInv'
  <2>1. PICK entry : entry = [schema |-> schema, left |-> ttl]
    OBVIOUS
  <2>2. Others
    BY <1>0, <1>3 DEF Put, Others
  <2>3. CASE UNCHANGED <<cache, touched>>
    BY <1>1, <2>2, <2>3
  <2>4. CASE k \in DOMAIN cache.value /\ Touches(k, [cache.value EXCEPT ![k] = entry])
    <3>1. PICK v : v = [cache.value EXCEPT ![k] = entry]
      OBVIOUS
    <3>2. k \in DOMAIN v /\ Touches(k, v)
      BY <2>4, <3>1
    <3> QED BY <2>2, <3>2, UseKeeps
  <2>5. CASE Cardinality(DOMAIN cache.value) < capacity /\ Enters(k, entry, {})
    <3>1. IsFiniteSet({}) /\ Cardinality(DOMAIN cache.value \ {}) < capacity
      BY <2>5, FS_EmptySet
    <3>2. \A S : S = {} => CacheInv'
      BY <2>2, <2>5, <3>1, NewKeeps
    <3> QED BY <3>2
  <2>6. CASE /\ Cardinality(DOMAIN cache.value) = capacity
             /\ \E j \in DOMAIN cache.value : Enters(k, entry, {j})
    <3>1. PICK D, j, S : D = DOMAIN cache.value /\ j \in D /\ S = {j} /\ Enters(k, entry, S)
      BY <2>6
    <3>2. IsFiniteSet(D) /\ Cardinality(D) = capacity /\ capacity \in Nat
      BY <2>6, <3>1, CachedFinite
    <3>3. Cardinality(D \ {j}) = Cardinality(D) - 1 /\ IsFiniteSet(S)
      BY <3>1, <3>2, FS_RemoveElement, FS_Singleton
    <3>4. Cardinality(DOMAIN cache.value \ S) < capacity /\ S \subseteq DOMAIN cache.value
      BY <3>1, <3>2, <3>3
    <3> QED BY <2>2, <3>1, <3>3, <3>4, NewKeeps
  <2> QED BY <1>3, <2>1, <2>3, <2>4, <2>5, <2>6, PutStep
<1>4. ASSUME NEW k \in Keys, Exists(k) PROVE CacheInv'
  <2>1. Others /\ Leaves({k})
    BY <1>0, <1>4, ExistsStep DEF Exists, Others
  <2> QED BY <2>1, LeaveKeeps
<1>5. CASE Clear
  <2>1. Others /\ Leaves(DOMAIN cache.value)
    BY <1>0, <1>5, ClearStep DEF Clear, Others
  <2> QED BY <2>1, LeaveKeeps
<1>6. CASE SweepExpired /\ UNCHANGED sweeper
  <2>1. Others /\ Leaves({k \in DOMAIN cache.value : Expired(k)})
    BY <1>0, <1>6, SweepStep DEF SweepExpired, Others
  <2> QED BY <2>1, LeaveKeeps
<1>7. CASE Tick
  <2>1. PICK v, m : v = Aged /\ Becomes(v, cache.freq, m)
    BY <1>7, TickStep
  <2>2. DOMAIN v = DOMAIN cache.value
    BY <2>1 DEF Aged
  <2>3. Others
    BY <1>0, <1>7 DEF Tick, Others
  <2> QED BY <1>0, <2>1, <2>2, <2>3, BecomesKeeps DEF CacheInv, Others
<1>8. CASE Start \/ Stop \/ SweeperEnds
  <2>1. UNCHANGED <<cache, touched, capacity, got>> /\ sweeper' \in {"off", "waiting", "ended"}
    BY <1>0, <1>8 DEF Start, Stop, SweeperEnds
  <2>2. closed' \in BOOLEAN
    BY <1>0, <1>8, Zenon DEF Start, Stop, SweeperEnds
  <2> QED BY <1>0, <1>1, <2>1, <2>2 DEF Others
<1>9. CASE SweeperRuns
  BY <1>6, <1>9 DEF SweeperRuns
<1>10. CASE UNCHANGED lfuVars
  BY <1>0, <1>1, <1>10 DEF lfuVars, Others
<1> QED BY <1>2, <1>3, <1>4, <1>5, <1>6, <1>7, <1>8, <1>9, <1>10 DEF CacheNext

\* The invariant holds throughout.
LEMMA CacheAlways == CacheSpec => []CacheInv
BY CacheInitially, CacheStep, PTL DEF CacheSpec

\* What the invariant says of the buckets.
LEMMA BucketsAgree == CacheInv => StructuresAgree
<1> SUFFICES ASSUME CacheInv PROVE StructuresAgree
  OBVIOUS
<1>1. PICK f, b : f = cache.freq /\ b = cache.buckets
  OBVIOUS
<1>2. /\ DOMAIN f = DOMAIN cache.value /\ touched \in Seq(Keys) /\ IsInjective(touched)
      /\ ToSet(touched) = DOMAIN f
  BY <1>1 DEF CacheInv, Fits, Orders
<1>3. b = Bucketing(f, touched)
  BY <1>1 DEF CacheInv, Store
<1>4. DOMAIN b = Counts(f) /\ \A n \in Counts(f) : b[n] = Only(touched, With(f, n))
  BY <1>3 DEF Bucketing
<1>5. ASSUME NEW n \in Counts(f)
      PROVE  /\ Bucketed(n) = With(f, n) /\ b[n] # <<>> /\ Cardinality(Bucketed(n)) = Len(b[n])
  <2>1. PICK u : u = b[n]
    OBVIOUS
  <2>2. u \in Seq(Keys) /\ IsInjective(u) /\ ToSet(u) = DOMAIN f \cap With(f, n)
    BY <1>2, <1>4, <2>1, OnlyTypes, OnlyDistinct, OnlyElements
  <2>3. ToSet(u) = With(f, n) /\ With(f, n) # {}
    BY <2>2 DEF With, Counts
  <2>4. Bucketed(n) = ToSet(u)
    BY <1>1, <2>1 DEF Bucketed, ToSet
  <2>5. u # <<>> /\ Cardinality(ToSet(u)) = Len(u)
    BY <2>2, <2>3, ElementsNone, DistinctCount
  <2> QED BY <2>1, <2>3, <2>4, <2>5
<1>6. \A k \in DOMAIN f : f[k] \in Counts(f) /\ k \in With(f, f[k])
  BY DEF Counts, With
<1>7. \A n : \A k \in With(f, n) : k \in DOMAIN f /\ f[k] = n
  BY DEF With
<1>8. Cardinality(DOMAIN cache.value) <= capacity
  BY DEF CacheInv
<1> QED BY <1>1, <1>2, <1>4, <1>5, <1>6, <1>7, <1>8 DEF StructuresAgree

\* The three dictionaries of LFUCache agree after every operation, for any keys, schemas,
\* lifetimes and capacity, and never hold more than the capacity.
THEOREM DictionariesAgree == CacheSpec => []StructuresAgree
BY CacheAlways, BucketsAgree, PTL

-----------------------------------------------------------------------------
(* The policy is implemented.                                              *)

\* The policy's sublists are the cache's.
LEMMA SameSublist ==
  ASSUME NEW s, NEW S
  PROVE  Policy!Only(s, S) = Only(s, S)
BY DEF Only, Policy!Only, FlattenSeq, Policy!FlattenSeq

\* The map of the next state is that of what the cache becomes.
LEMMA EntryBecomes ==
  ASSUME NEW v, NEW f, NEW m, Becomes(v, f, m)
  PROVE  Entry(cache.value, cache.freq)' = Entry(v, f)
<1>1. cache'.value = v /\ cache'.freq = f
  BY DEF Becomes, Store
<1> QED BY <1>1 DEF Entry

\* The keys in order, as the policy keeps them.
LEMMA OrderSame ==
  ASSUME CacheInv, NEW S
  PROVE  Only(touched, DOMAIN cache.value \ S) = Only(touched, Keys \ S)
<1>1. touched \in Seq(Keys) /\ ToSet(touched) = DOMAIN cache.value /\ DOMAIN cache.value \subseteq Keys
  BY DEF CacheInv, Fits, Orders
<1> QED BY <1>1, OnlySame

\* Keys that leave expire, or are cleared.
LEMMA LeaveRefines ==
  ASSUME CacheInv, NEW S, Leaves(S)
  PROVE  Policy!Expire(S)
<1>1. PICK R, v, f : /\ R = DOMAIN cache.value \ S
                     /\ v = [k \in R |-> cache.value[k]] /\ f = [k \in R |-> cache.freq[k]]
  OBVIOUS
<1>2. PICK m : Becomes(v, f, m)
  BY <1>1 DEF Leaves
<1>3. PICK e, e1 : e = Entry(cache.value, cache.freq) /\ e1 = Entry(cache.value, cache.freq)'
  OBVIOUS
<1>4. DOMAIN e = DOMAIN cache.value
  BY <1>3 DEF Entry
<1>5. e1 = [k \in R |-> e[k]]
  <2>1. e1 = Entry(v, f)
    BY <1>2, <1>3, EntryBecomes
  <2>2. \A k \in R : e[k] = [schema |-> v[k].schema, left |-> v[k].left, freq |-> f[k]]
    BY <1>1, <1>3 DEF Entry
  <2>3. DOMAIN v = R
    BY <1>1
  <2> QED BY <2>1, <2>2, <2>3 DEF Entry
<1>6. touched' = Only(touched, Keys \ S)
  BY OrderSame DEF Leaves
<1>7. e1 = [k \in DOMAIN e \ S |-> e[k]]
  BY <1>1, <1>4, <1>5
<1>8. Entry(cache.value, cache.freq)' = [k \in DOMAIN Entry(cache.value, cache.freq) \ S |-> Entry(cache.value, cache.freq)[k]]
  BY <1>3, <1>7
<1> QED BY <1>6, <1>8, SameSublist DEF Policy!Expire, Policy!Without, Policy!Order, Policy!Cached

\* A key that is used is touched.
LEMMA UseRefines ==
  ASSUME CacheInv, NEW k, NEW v, k \in DOMAIN v, Touches(k, v),
         \A j \in DOMAIN v : j # k => v[j] = cache.value[j]
  PROVE  Policy!Touch(k, v[k].schema, v[k].left)
<1>1. PICK f, h, n : f = cache.freq /\ n = f[k] + 1 /\ h = Extend(f, k, n)
  OBVIOUS
<1>2. PICK m : Becomes(v, h, m)
  BY <1>1 DEF Touches
<1>3. DOMAIN v = DOMAIN cache.value /\ DOMAIN f = DOMAIN cache.value
      /\ touched' = Append(Only(touched, Keys \ {k}), k)
  BY <1>1 DEF Touches, CacheInv, Fits
<1>4. PICK e, e1 : e = Entry(cache.value, cache.freq) /\ e1 = Entry(cache.value, cache.freq)'
  OBVIOUS
<1>5. DOMAIN e = DOMAIN v /\ e = [j \in DOMAIN v |-> e[j]] /\ e[k].freq = f[k]
  BY <1>1, <1>3, <1>4 DEF Entry
<1>6. DOMAIN h = DOMAIN v /\ \A j \in DOMAIN v : h[j] = IF j = k THEN n ELSE f[j]
  BY <1>1, <1>3 DEF Extend
<1>7. e1 = [j \in DOMAIN v |-> [schema |-> v[j].schema, left |-> v[j].left, freq |-> h[j]]]
  BY <1>2, <1>4, EntryBecomes DEF Entry
<1>8. PICK r : r = [schema |-> v[k].schema, left |-> v[k].left, freq |-> e[k].freq + 1]
  OBVIOUS
<1>9. e1 = [e EXCEPT ![k] = r]
  <2>1. e1[k] = r
    BY <1>1, <1>5, <1>6, <1>7, <1>8
  <2>2. \A j \in DOMAIN v : j # k => e1[j] = e[j]
    BY <1>1, <1>3, <1>4, <1>6, <1>7 DEF Entry
  <2>3. e1 = [j \in DOMAIN v |-> e1[j]]
    BY <1>7
  <2> QED BY <1>5, <2>1, <2>2, <2>3
<1> QED BY <1>3, <1>4, <1>8, <1>9, SameSublist DEF Policy!Touch, Policy!Order

\* A key that is new is inserted, those that make room leave.
LEMMA EnterRefines ==
  ASSUME CacheInv, NEW k, NEW schema, NEW ttl, NEW S, Enters(k, [schema |-> schema, left |-> ttl], S)
  PROVE  Policy!Insert(k, schema, ttl, S)
<1>1. PICK R, w, g, v, f, entry :
        /\ R = DOMAIN cache.value \ S /\ entry = [schema |-> schema, left |-> ttl]
        /\ w = [j \in R |-> cache.value[j]] /\ g = [j \in R |-> cache.freq[j]]
        /\ v = Extend(w, k, entry) /\ f = Extend(g, k, 1)
  OBVIOUS
<1>2. PICK m : Becomes(v, f, m)
  BY <1>1 DEF Enters
<1>3. PICK e, e1 : e = Entry(cache.value, cache.freq) /\ e1 = Entry(cache.value, cache.freq)'
  OBVIOUS
<1>4. DOMAIN e = DOMAIN cache.value /\ \A j \in DOMAIN cache.value :
        e[j] = [schema |-> cache.value[j].schema, left |-> cache.value[j].left, freq |-> cache.freq[j]]
  BY <1>3 DEF Entry
<1>5. k \notin R /\ entry.schema = schema /\ entry.left = ttl
  BY <1>1 DEF Enters
<1>6. /\ DOMAIN v = R \cup {k}
      /\ \A j \in R \cup {k} : /\ v[j] = IF j = k THEN entry ELSE cache.value[j]
                               /\ f[j] = IF j = k THEN 1 ELSE cache.freq[j]
  BY <1>1 DEF Extend
<1>7. e1 = [j \in R \cup {k} |-> [schema |-> v[j].schema, left |-> v[j].left, freq |-> f[j]]]
  BY <1>2, <1>3, <1>6, EntryBecomes DEF Entry
<1>8. PICK r : r = [schema |-> schema, left |-> ttl, freq |-> 1]
  OBVIOUS
<1>9. e1 = [j \in R \cup {k} |-> IF j = k THEN r ELSE e[j]]
  <2>1. \A j \in R \cup {k} :
          [schema |-> v[j].schema, left |-> v[j].left, freq |-> f[j]] = IF j = k THEN r ELSE e[j]
    BY <1>1, <1>4, <1>5, <1>6, <1>8
  <2> QED BY <1>7, <2>1
<1>10. e1 = [j \in (DOMAIN e \ S) \cup {k} |-> IF j = k THEN r ELSE e[j]]
  BY <1>1, <1>4, <1>9
<1>11. touched' = Append(Only(touched, Keys \ S), k)
  BY OrderSame DEF Enters
<1> QED BY <1>3, <1>8, <1>10, <1>11, SameSublist DEF Policy!Insert, Policy!Order, Policy!Cached

\* The least used key is a victim the policy allows.
LEMMA VictimRefines ==
  ASSUME CacheInv, NEW k \in DOMAIN cache.value, LeastUsed(k, cache.freq, touched)
  PROVE  Policy!Victim(k)
<1>1. PICK e : e = Entry(cache.value, cache.freq)
  OBVIOUS
<1>2. DOMAIN e = DOMAIN cache.value /\ DOMAIN cache.freq = DOMAIN cache.value
      /\ \A j \in DOMAIN cache.value : e[j].freq = cache.freq[j]
  BY <1>1 DEF Entry, CacheInv, Fits
<1>3. \A j \in DOMAIN e \ {k} : \/ e[k].freq < e[j].freq
                                \/ e[k].freq = e[j].freq /\ Precedes(touched, k, j)
  BY <1>2 DEF LeastUsed
<1> QED BY <1>1, <1>2, <1>3 DEF Precedes, Policy!Victim, Policy!Cached, Policy!Before

\* The map's keys, their number, and what lives, as the policy has them.
LEMMA CachedKeys ==
  ASSUME CacheInv
  PROVE  /\ Policy!Cached = DOMAIN cache.value
         /\ Policy!Size(Policy!Cached) = Cardinality(DOMAIN cache.value)
         /\ \A k \in DOMAIN cache.value :
              /\ Entry(cache.value, cache.freq)[k].schema = cache.value[k].schema
              /\ Entry(cache.value, cache.freq)[k].left = cache.value[k].left
              /\ Policy!Live(k) <=> ~Expired(k)
<1>1. PICK e : e = Entry(cache.value, cache.freq)
  OBVIOUS
<1>2. DOMAIN e = DOMAIN cache.value /\ \A k \in DOMAIN cache.value :
        e[k].schema = cache.value[k].schema /\ e[k].left = cache.value[k].left
  BY <1>1 DEF Entry
<1>3. Policy!Cached = DOMAIN cache.value
  BY <1>1, <1>2 DEF Policy!Cached
<1>4. Policy!Size(Policy!Cached) = Cardinality(DOMAIN cache.value)
  <2>1. /\ touched \in Seq(Keys) /\ IsInjective(touched)
        /\ ToSet(touched) = DOMAIN cache.value
    BY DEF CacheInv, Fits, Orders
  <2>2. Only(touched, DOMAIN cache.value) = touched
    BY <2>1, OnlyAll
  <2>3. Cardinality(ToSet(touched)) = Len(touched)
    BY <2>1, DistinctCount
  <2> QED BY <1>3, <2>1, <2>2, <2>3, SameSublist DEF Policy!Size
<1>5. \A k \in DOMAIN cache.value : cache.value[k].left \in Nat
  BY DEF CacheInv, CacheTypeOK
<1>6. \A k \in DOMAIN cache.value : Policy!Live(k) <=> ~Expired(k)
  BY <1>1, <1>2, <1>3, <1>5 DEF Policy!Live, Expired
<1> QED BY <1>1, <1>2, <1>3, <1>4, <1>6

\* When nothing happens to the cache, nothing expires.
LEMMA NothingRefines ==
  ASSUME CacheInv, UNCHANGED <<cache, touched>>
  PROVE  /\ Policy!Expire({})
         /\ Entry(cache.value, cache.freq)' = Entry(cache.value, cache.freq)
<1>1. PICK e : e = Entry(cache.value, cache.freq)
  OBVIOUS
<1>2. Entry(cache.value, cache.freq)' = Entry(cache.value, cache.freq)
  OBVIOUS
<1>3. e = [k \in DOMAIN e \ {} |-> e[k]]
  BY <1>1 DEF Entry
<1>4. Only(touched, Keys \ {}) = touched
  <2>1. touched \in Seq(Keys) /\ \A x \in ToSet(touched) : x \in Keys
    BY DEF CacheInv, Fits, Orders
  <2>2. PICK S : S = Keys \ {}
    OBVIOUS
  <2> QED BY <2>1, <2>2, OnlyAll
<1>5. Policy!Expire({})
  BY <1>1, <1>2, <1>3, <1>4, SameSublist
  DEF Policy!Expire, Policy!Without, Policy!Order, Policy!Cached
<1> QED BY <1>2, <1>5

\* get() answers as the map would.
LEMMA GetRefines ==
  ASSUME CacheInv, NEW k \in Keys, Get(k)
  PROVE  Policy!Get(k)
<1>1. Policy!Cached = DOMAIN cache.value
  BY CachedKeys
<1>2. CASE k \notin DOMAIN cache.value
  <2>1. ~Policy!Live(k) /\ {k} \cap Policy!Cached = {}
    BY <1>1, <1>2 DEF Policy!Live
  <2>2. UNCHANGED <<cache, touched>> /\ got' = NoSchema
    BY <1>2, GetStep
  <2> QED BY <2>1, <2>2, NothingRefines DEF Policy!Get
<1>3. CASE k \in DOMAIN cache.value /\ Expired(k)
  <2>1. ~Policy!Live(k) /\ {k} \cap Policy!Cached = {k}
    BY <1>1, <1>3, CachedKeys
  <2>2. Leaves({k}) /\ got' = NoSchema
    BY <1>3, GetStep
  <2>3. Policy!Expire({k})
    BY <2>2, LeaveRefines
  <2> QED BY <2>1, <2>2, <2>3 DEF Policy!Get
<1>4. CASE k \in DOMAIN cache.value /\ ~Expired(k)
  <2>1. PICK v : v = cache.value
    OBVIOUS
  <2>2. /\ Policy!Live(k)
        /\ Entry(cache.value, cache.freq)[k].schema = v[k].schema
        /\ Entry(cache.value, cache.freq)[k].left = v[k].left
    BY <1>4, <2>1, CachedKeys
  <2>3. Touches(k, v) /\ got' = v[k].schema
    BY <1>4, <2>1, GetStep
  <2>4. Policy!Touch(k, v[k].schema, v[k].left)
    BY <1>4, <2>1, <2>3, UseRefines
  <2> QED BY <2>2, <2>3, <2>4 DEF Policy!Get
<1> QED BY <1>2, <1>3, <1>4

\* put() writes as the map would, and makes room as it may.
LEMMA PutRefines ==
  ASSUME CacheInv, NEW k \in Keys, NEW schema \in Schemas, NEW ttl \in TTLs, Put(k, schema, ttl)
  PROVE  Policy!Put(k, schema, ttl)
<1>1. PICK entry : entry = [schema |-> schema, left |-> ttl]
  OBVIOUS
<1>2. /\ Policy!Cached = DOMAIN cache.value
      /\ Policy!Size(Policy!Cached) = Cardinality(DOMAIN cache.value)
  BY CachedKeys
<1>3. got' = got
  BY DEF Put
<1>4. CASE capacity = 0 /\ UNCHANGED <<cache, touched>>
  BY <1>3, <1>4, NothingRefines DEF Policy!Put
<1>5. CASE /\ capacity # 0 /\ k \in DOMAIN cache.value
           /\ Touches(k, [cache.value EXCEPT ![k] = entry])
  <2>1. PICK u, v : u = cache.value /\ v = [u EXCEPT ![k] = entry]
    OBVIOUS
  <2>2. k \in DOMAIN v /\ v[k].schema = schema /\ v[k].left = ttl
        /\ \A j \in DOMAIN v : j # k => v[j] = cache.value[j]
    BY <1>1, <1>5, <2>1
  <2>3. Policy!Touch(k, v[k].schema, v[k].left)
    BY <1>5, <2>1, <2>2, UseRefines
  <2> QED BY <1>2, <1>3, <1>5, <2>2, <2>3 DEF Policy!Put
<1>6. CASE /\ capacity # 0 /\ k \notin DOMAIN cache.value
           /\ Cardinality(DOMAIN cache.value) < capacity /\ Enters(k, entry, {})
  <2>1. \A S : S = {} => Policy!Insert(k, schema, ttl, S)
    BY <1>1, <1>6, EnterRefines
  <2> QED BY <1>2, <1>3, <1>6, <2>1 DEF Policy!Put
<1>7. CASE /\ capacity # 0 /\ k \notin DOMAIN cache.value
           /\ Cardinality(DOMAIN cache.value) = capacity
           /\ \E j \in DOMAIN cache.value : LeastUsed(j, cache.freq, touched) /\ Enters(k, entry, {j})
  <2>1. PICK j \in DOMAIN cache.value : LeastUsed(j, cache.freq, touched) /\ Enters(k, entry, {j})
    BY <1>7
  <2>2. Policy!Victim(j)
    BY <2>1, VictimRefines
  <2>3. \A S : S = {j} => Policy!Insert(k, schema, ttl, S)
    BY <1>1, <2>1, EnterRefines
  <2>4. \E v \in Policy!Cached : Policy!Victim(v) /\ Policy!Insert(k, schema, ttl, {v})
    BY <1>2, <2>1, <2>2, <2>3
  <2>5. ~(Policy!Size(Policy!Cached) < capacity)
    BY <1>2, <1>7, CachedFinite
  <2> QED BY <1>2, <1>3, <1>7, <2>4, <2>5 DEF Policy!Put
<1> QED BY <1>1, <1>4, <1>5, <1>6, <1>7, PutStep

\* exists() expires as the map does, and so do clear() and the sweep.
LEMMA ExistsRefines ==
  ASSUME CacheInv, NEW k \in Keys, Exists(k)
  PROVE  Policy!Exists(k)
<1>1. k \in DOMAIN cache.value /\ Expired(k) /\ Leaves({k})
  BY ExistsStep
<1>2. ~Policy!Live(k) /\ {k} \cap Policy!Cached = {k}
  BY <1>1, CachedKeys
<1>3. Policy!Expire({k}) /\ got' = got
  BY <1>1, LeaveRefines DEF Exists
<1> QED BY <1>2, <1>3 DEF Policy!Exists

\* clear empties the abstract cache.
LEMMA ClearRefines ==
  ASSUME CacheInv, Clear
  PROVE  Policy!Clear
BY ClearStep, LeaveRefines, CachedKeys DEF Clear, Policy!Clear

\* A sweep drops expired entries, and nothing else, from the abstract cache.
LEMMA SweepRefines ==
  ASSUME CacheInv, SweepExpired
  PROVE  Policy!Sweep
<1>1. Policy!Expire({k \in DOMAIN cache.value : Expired(k)})
  BY SweepStep, LeaveRefines
<1>2. {k \in Policy!Cached : ~Policy!Live(k)} = {k \in DOMAIN cache.value : Expired(k)}
  BY CachedKeys
<1>3. got' = got
  BY DEF SweepExpired
<1> QED BY <1>1, <1>2, <1>3 DEF Policy!Sweep

\* Time passes for the map's entries as for the cache's.
LEMMA TickRefines ==
  ASSUME CacheInv, Tick
  PROVE  Policy!Tick
<1>1. PICK v, w, f : v = cache.value /\ w = Aged /\ f = cache.freq
  OBVIOUS
<1>2. PICK m : Becomes(w, f, m)
  BY <1>1, TickStep
<1>3. PICK e, e1 : e = Entry(v, f) /\ e1 = Entry(w, f)
  OBVIOUS
<1>4. Entry(cache.value, cache.freq)' = e1 /\ Entry(cache.value, cache.freq) = e
  BY <1>1, <1>2, <1>3, EntryBecomes
<1>5. DOMAIN e = DOMAIN v /\ \A k \in DOMAIN v : e[k] = [schema |-> v[k].schema, left |-> v[k].left, freq |-> f[k]]
  BY <1>3 DEF Entry
<1>6. DOMAIN w = DOMAIN v /\ \A k \in DOMAIN v :
        w[k].schema = v[k].schema /\ w[k].left = IF v[k].left = 0 THEN 0 ELSE v[k].left - 1
  <2>1. \A k \in DOMAIN v : v[k] \in Entries
    BY <1>1 DEF CacheInv, Fits
  <2>2. DOMAIN w = DOMAIN v /\ \A k \in DOMAIN v :
          w[k] = [v[k] EXCEPT !.left = IF v[k].left = 0 THEN 0 ELSE v[k].left - 1]
    BY <1>1 DEF Aged
  <2>3. ASSUME NEW x \in Entries
        PROVE  /\ [x EXCEPT !.left = IF x.left = 0 THEN 0 ELSE x.left - 1].schema = x.schema
               /\ [x EXCEPT !.left = IF x.left = 0 THEN 0 ELSE x.left - 1].left
                    = IF x.left = 0 THEN 0 ELSE x.left - 1
    BY DEF Entries
  <2> QED BY <2>1, <2>2, <2>3
<1>7. e1 = [k \in DOMAIN v |-> [schema |-> w[k].schema, left |-> w[k].left, freq |-> f[k]]]
  BY <1>3, <1>6 DEF Entry
<1>8. \A k \in DOMAIN v :
        [schema |-> w[k].schema, left |-> w[k].left, freq |-> f[k]]
          = [e[k] EXCEPT !.left = IF e[k].left = 0 THEN 0 ELSE e[k].left - 1]
  <2>1. ASSUME NEW s, NEW l, NEW n, NEW i
        PROVE  [schema |-> s, left |-> i, freq |-> n]
                 = [[schema |-> s, left |-> l, freq |-> n] EXCEPT !.left = i]
    OBVIOUS
  <2>2. ASSUME NEW k \in DOMAIN v
        PROVE  [schema |-> w[k].schema, left |-> w[k].left, freq |-> f[k]]
                 = [e[k] EXCEPT !.left = IF e[k].left = 0 THEN 0 ELSE e[k].left - 1]
    <3>1. PICK s, l, n, i : s = v[k].schema /\ l = v[k].left /\ n = f[k]
                            /\ i = IF l = 0 THEN 0 ELSE l - 1
      OBVIOUS
    <3>2. e[k] = [schema |-> s, left |-> l, freq |-> n] /\ e[k].left = l
      BY <1>5, <3>1
    <3>3. w[k].schema = s /\ w[k].left = i
      BY <1>6, <3>1
    <3> QED BY <2>1, <3>1, <3>2, <3>3
  <2> QED BY <2>2
<1>9. e1 = [k \in DOMAIN e |-> [e[k] EXCEPT !.left = IF e[k].left = 0 THEN 0 ELSE e[k].left - 1]]
  BY <1>5, <1>7, <1>8
<1>10. touched' = touched /\ got' = got
  BY DEF Tick
<1> QED BY <1>4, <1>9, <1>10, Zenon DEF Policy!Tick, Policy!Cached

\* Every step of the cache is a step of the policy, or nothing to it.
LEMMA CacheRefines == CacheInv /\ [CacheNext]_lfuVars => [Policy!Next]_(Policy!policyVars)
<1> SUFFICES ASSUME CacheInv, [CacheNext]_lfuVars PROVE [Policy!Next]_(Policy!policyVars)
  OBVIOUS
<1>1. ASSUME UNCHANGED <<capacity, cache, got, touched>> PROVE UNCHANGED Policy!policyVars
  BY <1>1, NothingRefines DEF Policy!policyVars
<1>2. ASSUME NEW k \in Keys, Get(k) \/ Exists(k) PROVE Policy!Next
  <2>1. capacity' = capacity
    BY <1>2 DEF Get, Exists
  <2> QED BY <1>2, <2>1, GetRefines, ExistsRefines DEF Policy!Next
<1>3. ASSUME NEW k \in Keys, NEW schema \in Schemas, NEW ttl \in TTLs, Put(k, schema, ttl)
      PROVE  Policy!Next
  <2>1. capacity' = capacity
    BY <1>3 DEF Put
  <2> QED BY <1>3, <2>1, PutRefines DEF Policy!Next
<1>4. CASE Clear
  BY <1>4, ClearRefines DEF Clear, Policy!Next
<1>5. CASE SweepExpired
  BY <1>5, SweepRefines DEF SweepExpired, Policy!Next
<1>6. CASE Tick
  BY <1>6, TickRefines DEF Tick, Policy!Next
<1>7. CASE Start \/ Stop \/ SweeperEnds \/ UNCHANGED lfuVars
  BY <1>1, <1>7 DEF Start, Stop, SweeperEnds, lfuVars
<1> QED BY <1>2, <1>3, <1>4, <1>5, <1>6, <1>7 DEF CacheNext, SweeperRuns

\* The empty cache is the empty map.
LEMMA CacheBegins == CacheInit => Policy!Init
<1> SUFFICES ASSUME CacheInit PROVE Policy!Init
  OBVIOUS
<1>1. PICK v, f : v = cache.value /\ f = cache.freq
  OBVIOUS
<1>2. v = <<>> /\ touched = <<>> /\ got = NoSchema
  BY <1>1 DEF CacheInit, Empty
<1>3. Entry(v, f) = <<>>
  BY <1>2 DEF Entry
<1> QED BY <1>1, <1>2, <1>3 DEF Policy!Init

\* LFUCache implements the policy for any keys, schemas, lifetimes and capacity: get() answers
\* as a plain map with deadlines would, and the key _evict_lfu drops is of the lowest use count
\* and the longest unused among those.
THEOREM CacheIsPolicy == CacheSpec => ImplementsPolicy
BY CacheAlways, CacheRefines, CacheBegins, PTL DEF CacheSpec, ImplementsPolicy, Policy!Spec

-----------------------------------------------------------------------------
(* The semantic evaluator: what a call has established at each step.       *)

Ok(t) == snap[t].content \in Valid /\ snap[t].content \notin OverLong

\* What a call that owns its content has established when it is at a step.
Established ==
  \A t \in Threads : snap[t].owned =>
    /\ snap[t].content \in Cacheable /\ pc[t] # "own"
    /\ pc[t] \in {"lookup", "check"} => snap[t].content \notin OverLong
    /\ pc[t] \in {"mark", "evaluate"} => Ok(t)

\* Only a call that owns its content goes to the cache.
OwnersOnly == \A t \in Threads : pc[t] \in {"lookup", "mark"} => snap[t].owned

EvaluatorInv == TypeOK /\ MarkersTrue /\ Established /\ OwnersOnly /\ AnswersAsUncached

-----------------------------------------------------------------------------
(* The entries: taking one out and putting one in.                         *)

\* A sequence without one of its positions has the other elements, and no more.
LEMMA RemoveAtTypes ==
  ASSUME NEW S, NEW s \in Seq(S), NEW k \in 1..Len(s)
  PROVE  /\ RemoveAt(s, k) \in Seq(S)
         /\ \A i \in 1..Len(RemoveAt(s, k)) : \E j \in 1..Len(s) : RemoveAt(s, k)[i] = s[j]
<1> DEFINE front == SubSeq(s, 1, k - 1)
           back  == SubSeq(s, k + 1, Len(s))
<1>1. front \in Seq(S) /\ Len(front) = k - 1 /\ \A i \in 1..(k - 1) : front[i] = s[i]
  OBVIOUS
<1>2. back \in Seq(S) /\ Len(back) = Len(s) - k /\ \A i \in 1..(Len(s) - k) : back[i] = s[i + k]
  OBVIOUS
<1>3. RemoveAt(s, k) = front \o back
  BY DEF RemoveAt
<1> HIDE DEF front, back
<1>4. front \o back \in Seq(S) /\ Len(front \o back) = Len(s) - 1
  BY <1>1, <1>2
<1>5. ASSUME NEW i \in 1..(Len(s) - 1)
      PROVE  \E j \in 1..Len(s) : (front \o back)[i] = s[j]
  <2>1. CASE i <= k - 1
    BY <2>1, <1>1, <1>2
  <2>2. CASE i > k - 1
    <3>1. i - (k - 1) \in 1..(Len(s) - k) /\ i - (k - 1) + k = i + 1 /\ i + 1 \in 1..Len(s)
      BY <2>2
    <3>2. (front \o back)[i] = back[i - (k - 1)]
      BY <2>2, <1>1, <1>2
    <3>3. back[i - (k - 1)] = s[i - (k - 1) + k]
      BY <3>1, <1>2
    <3>4. (front \o back)[i] = s[i + 1]
      BY Zenon, <3>1, <3>2, <3>3
    <3> QED BY <3>1, <3>4
  <2>3. i \in Int /\ k \in Int
    OBVIOUS
  <2>4. i <= k - 1 \/ i > k - 1
    BY <2>3
  <2> QED BY Zenon, <2>1, <2>2, <2>4
<1> QED BY <1>3, <1>4, <1>5

\* Touch puts one digest last and holds nothing else that was not there.
LEMMA TouchTypes ==
  ASSUME TypeOK, NEW d \in Digests
  PROVE  /\ Touch(d) \in Seq(Digests)
         /\ \A i \in 1..Len(Touch(d)) : Touch(d)[i] \in Marked \cup {d}
<1>0. entries \in Seq(Digests) /\ Marked = {entries[i] : i \in 1..Len(entries)}
  BY DEF TypeOK, Marked
<1>1. Without(d) \in Seq(Digests) /\ \A i \in 1..Len(Without(d)) : Without(d)[i] \in Marked
  <2>1. CASE d \in Marked
    <3> DEFINE k == CHOOSE i \in DOMAIN entries : entries[i] = d
    <3>1. k \in 1..Len(entries)
      BY <2>1, <1>0
    <3>2. Without(d) = RemoveAt(entries, k)
      BY <2>1 DEF Without
    <3> HIDE DEF k
    <3>3. /\ RemoveAt(entries, k) \in Seq(Digests)
          /\ \A i \in 1..Len(RemoveAt(entries, k)) :
               \E j \in 1..Len(entries) : RemoveAt(entries, k)[i] = entries[j]
      BY <1>0, <3>1, RemoveAtTypes
    <3> QED BY <1>0, <3>2, <3>3
  <2>2. CASE d \notin Marked
    BY <2>2, <1>0 DEF Without
  <2> QED BY <2>1, <2>2
<1> DEFINE w == Without(d)
<1>2. Touch(d) = Append(w, d)
  BY DEF Touch
<1> HIDE DEF w
<1>3. w \in Seq(Digests) /\ \A i \in 1..Len(w) : w[i] \in Marked
  BY <1>1 DEF w
<1> QED BY <1>2, <1>3

\* Marking adds no digest but the one marked; the rest was there before.
LEMMA MarkTypes ==
  ASSUME TypeOK, NEW d \in Digests, MarkPrepared(d)
  PROVE  /\ entries' \in Seq(Digests) /\ Marked' \subseteq Marked \cup {d}
         /\ hits' \in Nat /\ misses' \in Nat /\ evictions' \in Nat
<1> DEFINE f == Touch(d)
<1>1. f \in Seq(Digests) /\ \A i \in 1..Len(f) : f[i] \in Marked \cup {d}
  BY TouchTypes
<1>2. Excess(f) \in 0..Len(f)
  BY <1>1, EvaluatorAssumption DEF Excess, EvaluatorAssumption
<1>3. entries' = SubSeq(f, 1 + Excess(f), Len(f)) /\ evictions' = evictions + Excess(f)
  BY DEF MarkPrepared
<1> HIDE DEF f
<1>4. /\ entries' \in Seq(Digests) /\ Len(entries') = Len(f) - Excess(f)
      /\ \A i \in 1..Len(entries') : entries'[i] = f[i + Excess(f)]
  BY <1>1, <1>2, <1>3
<1>5. Marked' \subseteq Marked \cup {d}
  BY <1>1, <1>2, <1>4 DEF Marked
<1> QED BY <1>2, <1>3, <1>4, <1>5 DEF MarkPrepared, TypeOK

\* Looking up moves a marker and adds none; what is found is marked.
LEMMA LookupTypes ==
  ASSUME TypeOK, NEW t \in Threads, NEW d \in Digests, IsPrepared(t, d)
  PROVE  /\ entries' \in Seq(Digests) /\ Marked' \subseteq Marked
         /\ hits' \in Nat /\ misses' \in Nat /\ evictions' \in Nat
         /\ \/ d \in Marked /\ pc' = [pc EXCEPT ![t] = "evaluate"]
            \/ pc' = [pc EXCEPT ![t] = "check"]
<1>1. CASE d \in Marked
  <2>1. entries' = Touch(d) /\ hits' = hits + 1 /\ pc' = [pc EXCEPT ![t] = "evaluate"]
        /\ UNCHANGED <<misses, evictions>>
    BY <1>1 DEF IsPrepared
  <2>2. entries' \in Seq(Digests) /\ \A i \in 1..Len(entries') : entries'[i] \in Marked
    BY <1>1, <2>1, TouchTypes
  <2>3. Marked' \subseteq Marked
    BY <2>2 DEF Marked
  <2> QED BY <1>1, <2>1, <2>2, <2>3 DEF TypeOK
<1>2. CASE d \notin Marked
  BY <1>2 DEF IsPrepared, Marked, TypeOK
<1> QED BY <1>1, <1>2

-----------------------------------------------------------------------------
(* The invariant.                                                          *)

\* Nothing is marked, owned or answered when the threads start.
LEMMA EvaluatorInitially == Init => EvaluatorInv
<1> SUFFICES ASSUME Init PROVE EvaluatorInv
  OBVIOUS
<1>1. TypeOK
  <2>1. torn \in [Threads -> BOOLEAN]
    BY Zenon DEF Init
  <2>2. (CHOOSE o \in Objects : TRUE) \in Objects
    BY EvaluatorAssumption DEF EvaluatorAssumption
  <2>3. (CHOOSE c \in Contents : TRUE) \in Contents
    BY EvaluatorAssumption DEF EvaluatorAssumption
  <2> QED BY <2>1, <2>2, <2>3 DEF Init, TypeOK, PCs, Answers, NoAnswer
<1>2. Marked = {}
  BY DEF Init, Marked
<1> QED BY <1>1, <1>2 DEF Init, EvaluatorInv, MarkersTrue, Established, OwnersOnly, AnswersAsUncached

\* The answer of a step that answers is the uncached one, when the call owns its content.
LEMMA AnswerRight ==
  ASSUME TypeOK, NEW t \in Threads, NEW kind, NEW n, Answer(t, kind, n),
         snap' = snap, AnswersAsUncached,
         snap[t].owned => [kind |-> kind, breaches |-> n] = Uncached(snap[t].content)
  PROVE  AnswersAsUncached'
<1> SUFFICES ASSUME NEW u \in Threads, pc'[u] = "done", snap'[u].owned
             PROVE  answer'[u] = Uncached(snap[u].content)
  BY DEF AnswersAsUncached, Uncached
<1>1. CASE u = t
  BY <1>1 DEF Answer, TypeOK
<1>2. CASE u # t
  BY <1>2 DEF Answer, TypeOK, AnswersAsUncached
<1> QED BY <1>1, <1>2

\* A step that gives no answer and lets no call be done leaves the answers right.
LEMMA AnswersStand ==
  ASSUME TypeOK, AnswersAsUncached, NEW t \in Threads, UNCHANGED answer,
         \A u \in Threads : pc'[u] = "done" /\ snap'[u].owned =>
            pc[u] = "done" /\ snap[u] = snap'[u]
  PROVE  AnswersAsUncached'
BY DEF AnswersAsUncached, Uncached

\* The owner of an object changes nothing a call that owns its content relies on.
LEMMA ChangeKeeps ==
  ASSUME EvaluatorInv, NEW o \in Objects, Change(o)
  PROVE  EvaluatorInv'
<1>1. TypeOK'
  <2>1. torn' \in [Threads -> BOOLEAN]
    BY Zenon DEF Change
  <2>2. object' \in [Objects -> Contents] /\ changes' \in Nat
    BY DEF Change, EvaluatorInv, TypeOK
  <2> QED BY <2>1, <2>2 DEF Change, EvaluatorInv, TypeOK, cacheVars, Digests
<1>2. MarkersTrue' /\ Established' /\ OwnersOnly' /\ AnswersAsUncached'
  BY DEF Change, EvaluatorInv, cacheVars, MarkersTrue, Marked, Established, Ok, OwnersOnly,
         AnswersAsUncached, Uncached
<1> QED BY <1>1, <1>2 DEF EvaluatorInv

\* A call begins, owning nothing and with no answer.
LEMMA CallKeeps ==
  ASSUME EvaluatorInv, NEW t \in Threads, NEW o \in Objects, Call(t, o)
  PROVE  EvaluatorInv'
<1> USE DEF EvaluatorInv
<1>1. TypeOK'
  <2>1. snap' \in [Threads -> [owned : BOOLEAN, content : Contents]]
    <3>1. [snap[t] EXCEPT !.owned = FALSE] \in [owned : BOOLEAN, content : Contents]
      BY DEF TypeOK
    <3>2. snap' = [snap EXCEPT ![t] = [snap[t] EXCEPT !.owned = FALSE]]
      BY DEF Call
    <3> QED BY <3>1, <3>2 DEF TypeOK
  <2>2. answer' \in [Threads -> Answers]
    BY DEF Call, TypeOK, Answers, NoAnswer
  <2>3. torn' \in [Threads -> BOOLEAN]
    BY Zenon DEF Call, TypeOK
  <2> QED BY <2>1, <2>2, <2>3 DEF Call, TypeOK, cacheVars, Digests, PCs
<1>2. MarkersTrue'
  BY DEF Call, cacheVars, MarkersTrue, Marked
<1>3. \A u \in Threads : snap'[u].owned => u # t
  BY DEF Call, TypeOK
<1>4. \A u \in Threads : u # t => snap'[u] = snap[u] /\ pc'[u] = pc[u] /\ answer'[u] = answer[u]
  BY DEF Call, TypeOK
<1>5. Established' /\ AnswersAsUncached'
  BY <1>3, <1>4 DEF Established, Ok, AnswersAsUncached, Uncached
<1>6. OwnersOnly'
  BY <1>4 DEF Call, TypeOK, OwnersOnly
<1> QED BY <1>1, <1>2, <1>5, <1>6

\* Taking the copy: it is owned when it can be marked, and no thread is done by it.
LEMMA OwnKeeps ==
  ASSUME EvaluatorInv, NEW t \in Threads, Own(t)
  PROVE  EvaluatorInv'
<1> USE DEF EvaluatorInv
<1>1. PICK c \in Contents : snap' = [snap EXCEPT ![t] = [owned |-> c \in Cacheable, content |-> c]]
  BY DEF Own, TypeOK
<1>2. TypeOK'
  <2>1. torn' \in [Threads -> BOOLEAN]
    BY Zenon DEF Own, TypeOK
  <2>2. snap' \in [Threads -> [owned : BOOLEAN, content : Contents]]
    <3>1. [owned |-> c \in Cacheable, content |-> c] \in [owned : BOOLEAN, content : Contents]
      <4>1. CASE c \in Cacheable
        BY <4>1
      <4>2. CASE c \notin Cacheable
        BY <4>2
      <4> QED BY <4>1, <4>2
    <3> QED BY <1>1, <3>1 DEF TypeOK
  <2> QED BY <2>1, <2>2 DEF Own, TypeOK, cacheVars, Digests, PCs
<1>3. MarkersTrue'
  BY DEF Own, cacheVars, MarkersTrue, Marked
<1>4. Established' /\ OwnersOnly'
  BY <1>1 DEF Own, TypeOK, Established, Ok, OwnersOnly
<1>5. AnswersAsUncached'
  BY <1>1 DEF Own, TypeOK, AnswersAsUncached, Uncached
<1> QED BY <1>2, <1>3, <1>4, <1>5

\* An answer has its type.
LEMMA AnswerTypes ==
  ASSUME TypeOK, NEW t \in Threads,
         NEW kind \in {"pattern", "schema", "evaluated", "raised"}, NEW n \in Nat,
         Answer(t, kind, n)
  PROVE  answer' \in [Threads -> Answers] /\ pc' \in [Threads -> PCs]
BY DEF Answer, TypeOK, Answers, PCs

\* A call whose object changed while it was read answers that it raised; it owns nothing,
\* since a call that owns its content no longer reads the object.
LEMMA RaiseKeeps ==
  ASSUME EvaluatorInv, NEW t \in Threads, Raise(t)
  PROVE  EvaluatorInv'
<1> USE DEF EvaluatorInv
<1>0. Answer(t, "raised", 0) /\ snap' = snap /\ entries' = entries
  BY DEF Raise, cacheVars
<1>1. TypeOK'
  <2>1. torn' \in [Threads -> BOOLEAN]
    BY Zenon DEF Raise, TypeOK
  <2>2. answer' \in [Threads -> Answers] /\ pc' \in [Threads -> PCs]
    BY <1>0, AnswerTypes
  <2> QED BY <2>1, <2>2 DEF Raise, TypeOK, cacheVars, Digests
<1>2. MarkersTrue' /\ Established' /\ OwnersOnly'
  BY <1>0 DEF Answer, TypeOK, MarkersTrue, Marked, Established, Ok, OwnersOnly
<1>3. ~snap[t].owned
  BY DEF Raise, Reading, Established
<1>4. AnswersAsUncached'
  BY <1>0, <1>3, AnswerRight
<1> QED BY <1>1, <1>2, <1>4

\* A pattern over the budget ends the call whatever is marked; otherwise the content is
\* not over it, and a call that owns nothing goes past the cache.
LEMMA CheckPatternsKeeps ==
  ASSUME EvaluatorInv, NEW t \in Threads, CheckPatterns(t)
  PROVE  EvaluatorInv'
<1> USE DEF EvaluatorInv
<1>0. UNCHANGED <<object, changes, arg, torn, snap, calls, entries, hits, misses, evictions>>
  BY DEF CheckPatterns, cacheVars
<1>1. MarkersTrue'
  BY <1>0 DEF MarkersTrue, Marked
<1>2. CASE InUse(t) \in OverLong
  <2>1. Answer(t, "pattern", 1)
    BY <1>2 DEF CheckPatterns
  <2>2. TypeOK'
    BY <1>0, <2>1, AnswerTypes DEF TypeOK, Digests
  <2>3. Established' /\ OwnersOnly'
    BY <1>0, <2>1 DEF Answer, TypeOK, Established, Ok, OwnersOnly
  <2>4. AnswersAsUncached'
    BY <1>0, <1>2, <2>1, AnswerRight DEF InUse, Uncached
  <2> QED BY <1>1, <2>2, <2>3, <2>4
<1>3. CASE InUse(t) \notin OverLong
  <2>1. pc[t] = "guard" /\ answer' = answer
        /\ pc' = [pc EXCEPT ![t] = IF snap[t].owned THEN "lookup" ELSE "check"]
    BY <1>3 DEF CheckPatterns
  <2>2. TypeOK'
    BY <1>0, <2>1 DEF TypeOK, PCs, Digests
  <2>3. Established' /\ OwnersOnly'
    BY <1>0, <1>3, <2>1 DEF InUse, TypeOK, Established, Ok, OwnersOnly
  <2>4. AnswersAsUncached'
    BY <1>0, <2>1, AnswersStand DEF TypeOK
  <2> QED BY <1>1, <2>2, <2>3, <2>4
<1> QED BY <1>2, <1>3

\* What is found marked was accepted by check_schema, for that very content.
LEMMA LookupKeeps ==
  ASSUME EvaluatorInv, NEW t \in Threads, Lookup(t)
  PROVE  EvaluatorInv'
<1> USE DEF EvaluatorInv
<1> DEFINE d == Digest[snap[t].content]
<1>0. UNCHANGED <<object, changes, arg, torn, snap, answer, calls>> /\ pc[t] = "lookup"
  BY DEF Lookup
<1>1. snap[t].owned /\ snap[t].content \in Cacheable /\ snap[t].content \notin OverLong
  BY <1>0 DEF OwnersOnly, Established
<1>2. d \in Digests
  BY <1>1 DEF Digests
<1>3. /\ entries' \in Seq(Digests) /\ Marked' \subseteq Marked
      /\ hits' \in Nat /\ misses' \in Nat /\ evictions' \in Nat
      /\ \/ d \in Marked /\ pc' = [pc EXCEPT ![t] = "evaluate"]
         \/ pc' = [pc EXCEPT ![t] = "check"]
  BY <1>2, LookupTypes DEF Lookup
<1>4. d \in Marked => snap[t].content \in Valid
  BY <1>1 DEF MarkersTrue
<1>5. TypeOK'
  BY <1>0, <1>3 DEF TypeOK, PCs, Digests
<1>6. MarkersTrue'
  BY <1>3 DEF MarkersTrue
<1>7. Established' /\ OwnersOnly'
  BY <1>0, <1>1, <1>3, <1>4 DEF TypeOK, Established, Ok, OwnersOnly
<1>8. AnswersAsUncached'
  BY <1>0, <1>3, AnswersStand DEF TypeOK
<1> QED BY <1>5, <1>6, <1>7, <1>8

\* An invalid schema ends the call; otherwise the content is valid, and is marked next.
LEMMA CheckSchemaKeeps ==
  ASSUME EvaluatorInv, NEW t \in Threads, CheckSchema(t)
  PROVE  EvaluatorInv'
<1> USE DEF EvaluatorInv
<1>0. UNCHANGED <<object, changes, arg, torn, snap, calls, entries, hits, misses, evictions>>
      /\ pc[t] = "check"
  BY DEF CheckSchema, cacheVars
<1>1. MarkersTrue'
  BY <1>0 DEF MarkersTrue, Marked
<1>2. CASE InUse(t) \notin Valid
  <2>1. Answer(t, "schema", 1)
    BY <1>2 DEF CheckSchema
  <2>2. TypeOK'
    BY <1>0, <2>1, AnswerTypes DEF TypeOK, Digests
  <2>3. Established' /\ OwnersOnly'
    BY <1>0, <2>1 DEF Answer, TypeOK, Established, Ok, OwnersOnly
  <2>4. AnswersAsUncached'
    BY <1>0, <1>2, <2>1, AnswerRight DEF InUse, Uncached, Established
  <2> QED BY <1>1, <2>2, <2>3, <2>4
<1>3. CASE InUse(t) \in Valid
  <2>1. answer' = answer
        /\ pc' = [pc EXCEPT ![t] = IF snap[t].owned THEN "mark" ELSE "evaluate"]
    BY <1>3 DEF CheckSchema
  <2>2. TypeOK'
    BY <1>0, <2>1 DEF TypeOK, PCs, Digests
  <2>3. Established' /\ OwnersOnly'
    BY <1>0, <1>3, <2>1 DEF InUse, TypeOK, Established, Ok, OwnersOnly
  <2>4. AnswersAsUncached'
    BY <1>0, <2>1, AnswersStand DEF TypeOK
  <2> QED BY <1>1, <2>2, <2>3, <2>4
<1> QED BY <1>2, <1>3

\* What is marked was just checked; contents of the same digest are as valid.
LEMMA MarkKeeps ==
  ASSUME EvaluatorInv, NEW t \in Threads, Mark(t)
  PROVE  EvaluatorInv'
<1> USE DEF EvaluatorInv
<1> DEFINE d == Digest[snap[t].content]
<1>0. UNCHANGED <<object, changes, arg, torn, snap, answer, calls>> /\ pc[t] = "mark"
      /\ MarkPrepared(d) /\ pc' = [pc EXCEPT ![t] = "evaluate"]
  BY DEF Mark
<1>1. snap[t].owned /\ snap[t].content \in Cacheable /\ Ok(t)
  BY <1>0 DEF OwnersOnly, Established
<1>2. d \in Digests
  BY <1>1 DEF Digests
<1>3. /\ entries' \in Seq(Digests) /\ Marked' \subseteq Marked \cup {d}
      /\ hits' \in Nat /\ misses' \in Nat /\ evictions' \in Nat
  BY <1>0, <1>2, MarkTypes
<1>4. TypeOK'
  BY <1>0, <1>3 DEF TypeOK, PCs, Digests
<1>5. MarkersTrue'
  BY <1>1, <1>3, DigestAssumption DEF MarkersTrue, Ok
<1>6. Established' /\ OwnersOnly'
  BY <1>0, <1>1 DEF TypeOK, Established, Ok, OwnersOnly
<1>7. AnswersAsUncached'
  BY <1>0, AnswersStand DEF TypeOK
<1> QED BY <1>4, <1>5, <1>6, <1>7

\* The evaluation answers for the content the call owns, and that content passed both checks.
LEMMA EvaluateKeeps ==
  ASSUME EvaluatorInv, NEW t \in Threads, Evaluate(t)
  PROVE  EvaluatorInv'
<1> USE DEF EvaluatorInv
<1>0. UNCHANGED <<object, changes, arg, torn, snap, calls, entries, hits, misses, evictions>>
      /\ pc[t] = "evaluate"
  BY DEF Evaluate, cacheVars
<1>1. InUse(t) \in Contents
  BY DEF InUse, TypeOK
<1>2. PICK kind \in {"pattern", "schema", "evaluated", "raised"}, n \in Nat :
        /\ Answer(t, kind, n)
        /\ InUse(t) \in Valid => kind = "evaluated" /\ n = Drained(Findings[InUse(t)])
  <2>1. Findings[InUse(t)] \in Nat /\ Drained(Findings[InUse(t)]) \in Nat
    BY <1>1, EvaluatorAssumption DEF Drained, EvaluatorAssumption
  <2> QED BY <2>1 DEF Evaluate
<1>3. TypeOK'
  BY <1>0, <1>2, AnswerTypes DEF TypeOK, Digests
<1>4. MarkersTrue' /\ Established' /\ OwnersOnly'
  BY <1>0, <1>2 DEF Answer, TypeOK, MarkersTrue, Marked, Established, Ok, OwnersOnly
<1>5. snap[t].owned => InUse(t) = snap[t].content /\ Ok(t)
  BY <1>0 DEF InUse, Established
<1>6. snap[t].owned => [kind |-> kind, breaches |-> n] = Uncached(snap[t].content)
  <2>1. \A c \in Contents :
          (IF Findings[c] <= MaxBreaches THEN Findings[c] ELSE MaxBreaches + 1) = Drained(Findings[c])
    BY EvaluatorAssumption DEF Drained, EvaluatorAssumption
  <2> QED BY <1>1, <1>2, <1>5, <2>1 DEF Uncached, Ok
<1>7. AnswersAsUncached'
  BY <1>0, <1>2, <1>6, AnswerRight
<1> QED BY <1>3, <1>4, <1>7

\* The caller takes its answer.
LEMMA ReturnKeeps ==
  ASSUME EvaluatorInv, NEW t \in Threads, Return(t)
  PROVE  EvaluatorInv'
<1> USE DEF EvaluatorInv
<1>1. TypeOK'
  <2>1. torn' \in [Threads -> BOOLEAN]
    BY Zenon DEF Return, TypeOK
  <2> QED BY <2>1 DEF Return, TypeOK, cacheVars, PCs, Digests
<1>2. MarkersTrue'
  BY DEF Return, cacheVars, MarkersTrue, Marked
<1>3. Established' /\ OwnersOnly'
  BY DEF Return, TypeOK, Established, Ok, OwnersOnly
<1>4. AnswersAsUncached'
  BY AnswersStand DEF Return, TypeOK
<1> QED BY <1>1, <1>2, <1>3, <1>4

-----------------------------------------------------------------------------
\* Every step keeps the invariant.
LEMMA EvaluatorStep == EvaluatorInv /\ [Next]_vars => EvaluatorInv'
<1> SUFFICES ASSUME EvaluatorInv, [Next]_vars PROVE EvaluatorInv'
  OBVIOUS
<1>1. CASE UNCHANGED vars
  BY <1>1 DEF vars, threadVars, cacheVars, EvaluatorInv, TypeOK, MarkersTrue, Marked, Established,
              Ok, OwnersOnly, AnswersAsUncached, Uncached, Digests
<1>2. CASE \E o \in Objects : Change(o)
  BY <1>2, ChangeKeeps
<1>3. CASE \E t \in Threads, o \in Objects : Call(t, o)
  BY <1>3, CallKeeps
<1>4. CASE \E t \in Threads : Step(t)
  BY <1>4, OwnKeeps, RaiseKeeps, CheckPatternsKeeps, LookupKeeps, CheckSchemaKeeps, MarkKeeps,
     EvaluateKeeps, ReturnKeeps DEF Step
<1> QED BY <1>1, <1>2, <1>3, <1>4 DEF Next

\* The invariant holds throughout.
LEMMA EvaluatorAlways == Spec => []EvaluatorInv
BY EvaluatorInitially, EvaluatorStep, PTL DEF Spec

\* A marker is never false, whoever is checking, changing a schema object or being evicted
\* meanwhile (SchemaPreparationCache: "strictly positive").
THEOREM MarkersAlwaysTrue == Spec => []MarkersTrue
<1>1. EvaluatorInv => MarkersTrue
  BY DEF EvaluatorInv
<1> QED BY <1>1, EvaluatorAlways, PTL

\* The cache changes one operation and no answer (JsonSchemaSemanticValidator.validate).
THEOREM CacheTransparent == Spec => []AnswersAsUncached
<1>1. EvaluatorInv => AnswersAsUncached
  BY DEF EvaluatorInv
<1> QED BY <1>1, EvaluatorAlways, PTL

=============================================================================
