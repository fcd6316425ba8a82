------------------------------- MODULE LFUCache -------------------------------
(***************************************************************************)
(* LFUCache: the schema cache, as it is built.  Three dictionaries and a   *)
(* minimum frequency are kept in step by every operation.  A departure may *)
(* leave the minimum at a bucket that is gone; the insertion that fills    *)
(* the place sets it to 1 before an eviction looks at it.  Every operation *)
(* holds the cache's lock from start to end, so each is one step; the      *)
(* sweeper thread is one more caller.                                      *)
(*                                                                         *)
(* The helpers are functions from cache to cache, composed as the code     *)
(* composes them.  An entry's deadline is kept as the time it has left.    *)
(***************************************************************************)
EXTENDS Integers, FiniteSets, Sublists

CONSTANTS Keys,        \* contract ids
          Schemas,     \* schema values
          TTLs,        \* ttl_seconds passed to put()
          NoSchema,    \* None, the answer of a miss
          Capacities,  \* values of capacity, one chosen at the start
          MaxFreq      \* bound: uses of one entry in a behaviour

ASSUME CacheAssumption ==
  /\ IsFiniteSet(Keys)
  /\ NoSchema \notin Schemas
  /\ TTLs \subseteq Nat /\ Capacities \subseteq Nat /\ MaxFreq \in Nat

VARIABLES capacity,  \* capacity
          cache,     \* _key_to_value, _key_to_freq, _freq_to_keys, _min_freq
          got,       \* what the last get() returned
          closed,    \* _closed and _stop_event
          sweeper,   \* where the sweeper thread is
          touched    \* history: cached keys, in the order they were last used

lfuVars == <<capacity, cache, got, closed, sweeper, touched>>

Empty == [value |-> <<>>, freq |-> <<>>, buckets |-> <<>>, min |-> 0]

Drop(f, k) == [x \in DOMAIN f \ {k} |-> f[x]]
Extend(f, k, v) == [x \in DOMAIN f \cup {k} |-> IF x = k THEN v ELSE f[x]]
Removed(s, k) == Only(s, Keys \ {k})
Least(S) == CHOOSE n \in S : \A m \in S : n <= m

\* Mutant: an emptied bucket stays behind.
UnbucketKeepsEmpty(buckets, n, k) == [buckets EXCEPT ![n] = Removed(buckets[n], k)]

\* A bucket without k; an emptied bucket is deleted.
Unbucket(buckets, n, k) ==
  LET rest == Removed(buckets[n], k) IN
    IF rest = <<>> THEN Drop(buckets, n) ELSE [buckets EXCEPT ![n] = rest]

\* setdefault(n, OrderedDict())[k] = None
Bucket(buckets, n, k) ==
  Extend(buckets, n, Append(IF n \in DOMAIN buckets THEN buckets[n] ELSE <<>>, k))

EvictKey(c, k) ==
  IF k \notin DOMAIN c.freq THEN c
  ELSE [c EXCEPT !.value = Drop(c.value, k),
                 !.freq = Drop(c.freq, k),
                 !.buckets = Unbucket(c.buckets, c.freq[k], k)]

IncrementFreq(c, k) ==
  LET n == c.freq[k]
      without == Unbucket(c.buckets, n, k)
  IN [c EXCEPT !.freq = Extend(c.freq, k, n + 1),
               !.buckets = Bucket(without, n + 1, k),
               !.min = IF n \notin DOMAIN without /\ c.min = n THEN n + 1 ELSE c.min]

\* The bucket an eviction takes from: the minimum's, recomputed if there is none, as
\* the code does to be safe.
VictimBucket(c) == IF c.min \in DOMAIN c.buckets THEN c.min ELSE Least(DOMAIN c.buckets)

\* Mutant: the latest key of the bucket goes, not the oldest.
EvictLatest(c) ==
  IF c.buckets = <<>> THEN c
  ELSE LET m == VictimBucket(c)
           k == c.buckets[m][Len(c.buckets[m])]
       IN [EvictKey(c, k) EXCEPT !.min = m]

EvictLFU(c) ==
  IF c.buckets = <<>> THEN c
  ELSE LET m == VictimBucket(c)
           k == Head(c.buckets[m])
       IN [EvictKey(c, k) EXCEPT !.min = m]

Insert(c, k, entry) ==
  [value |-> Extend(c.value, k, entry), freq |-> Extend(c.freq, k, 1),
   buckets |-> Bucket(c.buckets, 1, k), min |-> 1]

Expired(k) == cache.value[k].left = 0

CacheInit ==
  /\ capacity \in Capacities
  /\ cache = Empty
  /\ got = NoSchema
  /\ closed = FALSE
  /\ sweeper = "off"
  /\ touched = <<>>

-----------------------------------------------------------------------------
(* Operations of ISchemaStorage.                                           *)

Used(k) == touched' = Append(Removed(touched, k), k)
Kept == touched' = Only(touched, DOMAIN cache'.value)

Get(k) ==
  /\ IF k \notin DOMAIN cache.value
       THEN got' = NoSchema /\ UNCHANGED <<cache, touched>>
     ELSE IF Expired(k)
       THEN got' = NoSchema /\ cache' = EvictKey(cache, k) /\ Kept
     ELSE /\ cache.freq[k] < MaxFreq
          /\ cache' = IncrementFreq(cache, k)
          /\ got' = cache.value[k].schema
          /\ Used(k)
  /\ UNCHANGED <<capacity, closed, sweeper>>

Put(k, schema, ttl) ==
  /\ LET entry == [schema |-> schema, left |-> ttl] IN
       IF capacity = 0
         THEN UNCHANGED <<cache, touched>>
       ELSE IF k \in DOMAIN cache.value
         THEN /\ cache.freq[k] < MaxFreq
              /\ cache' = IncrementFreq([cache EXCEPT !.value[k] = entry], k)
              /\ Used(k)
       ELSE /\ LET room == IF Cardinality(DOMAIN cache.value) >= capacity
                             THEN EvictLFU(cache) ELSE cache
               IN cache' = Insert(room, k, entry)
            /\ touched' = Append(Only(touched, DOMAIN cache'.value), k)
  /\ UNCHANGED <<capacity, got, closed, sweeper>>

Exists(k) ==
  /\ k \in DOMAIN cache.value
  /\ Expired(k)
  /\ cache' = EvictKey(cache, k)
  /\ Kept
  /\ UNCHANGED <<capacity, got, closed, sweeper>>

Clear ==
  /\ cache' = Empty
  /\ touched' = <<>>
  /\ UNCHANGED <<capacity, got, closed, sweeper>>

\* Every expired key is evicted; the order does not matter.
SweepExpired ==
  /\ LET live == {k \in DOMAIN cache.value : ~Expired(k)}
         kept(n) == Only(cache.buckets[n], live)
     IN cache' = [value |-> [k \in live |-> cache.value[k]],
                  freq |-> [k \in live |-> cache.freq[k]],
                  buckets |-> [n \in {m \in DOMAIN cache.buckets : kept(m) # <<>>} |-> kept(n)],
                  min |-> cache.min]
  /\ Kept
  /\ UNCHANGED <<capacity, got, closed>>

Tick ==
  /\ \E k \in DOMAIN cache.value : ~Expired(k)
  /\ cache' = [cache EXCEPT !.value =
                 [k \in DOMAIN cache.value |->
                    [cache.value[k] EXCEPT !.left = IF @ = 0 THEN 0 ELSE @ - 1]]]
  /\ UNCHANGED <<capacity, got, closed, sweeper, touched>>

-----------------------------------------------------------------------------
(* The sweeper's life.                                                     *)

Start ==
  /\ ~closed
  /\ sweeper = "off"
  /\ sweeper' = "waiting"
  /\ UNCHANGED <<capacity, cache, got, closed, touched>>

Stop ==
  /\ ~closed
  /\ closed' = TRUE
  /\ UNCHANGED <<capacity, cache, got, sweeper, touched>>

SweeperRuns == sweeper = "waiting" /\ ~closed /\ SweepExpired /\ UNCHANGED sweeper

SweeperEnds ==
  /\ sweeper = "waiting"
  /\ closed
  /\ sweeper' = "ended"
  /\ UNCHANGED <<capacity, cache, got, closed, touched>>

CacheNext ==
  \/ \E k \in Keys : Get(k) \/ Exists(k)
  \/ \E k \in Keys, schema \in Schemas, ttl \in TTLs : Put(k, schema, ttl)
  \/ Clear
  \/ SweepExpired /\ UNCHANGED sweeper
  \/ Tick
  \/ Start \/ Stop \/ SweeperRuns \/ SweeperEnds

CacheSpec == CacheInit /\ [][CacheNext]_lfuVars

-----------------------------------------------------------------------------
(* Properties.                                                             *)

Bucketed(n) == {cache.buckets[n][i] : i \in DOMAIN cache.buckets[n]}

CacheTypeOK ==
  /\ capacity \in Capacities
  /\ DOMAIN cache.value \subseteq Keys
  /\ \A k \in DOMAIN cache.value :
       cache.value[k] \in [schema : Schemas, left : Nat]
  /\ cache.min \in Nat
  /\ got \in Schemas \cup {NoSchema}
  /\ closed \in BOOLEAN
  /\ sweeper \in {"off", "waiting", "ended"}

\* The three dictionaries agree after every operation: a key is in the bucket of
\* its frequency and in no other, no bucket is empty, and no more than capacity
\* keys are held.
StructuresAgree ==
  /\ DOMAIN cache.freq = DOMAIN cache.value
  /\ \A k \in DOMAIN cache.freq :
       cache.freq[k] \in DOMAIN cache.buckets /\ k \in Bucketed(cache.freq[k])
  /\ \A n \in DOMAIN cache.buckets :
       /\ cache.buckets[n] # <<>>
       /\ Cardinality(Bucketed(n)) = Len(cache.buckets[n])
       /\ \A k \in Bucketed(n) : k \in DOMAIN cache.freq /\ cache.freq[k] = n
  /\ Cardinality(DOMAIN cache.value) <= capacity

\* What the policy calls an entry: the value, its time and its use count.
Entry(v, f) ==
  [k \in DOMAIN v |-> [schema |-> v[k].schema, left |-> v[k].left, freq |-> f[k]]]

Policy == INSTANCE LFUPolicy WITH entry <- Entry(cache.value, cache.freq)

\* The buckets implement the policy: every get() answers as the plain map would,
\* and every eviction takes the least frequently used key, first come first out.
ImplementsPolicy == Policy!Spec
=============================================================================
