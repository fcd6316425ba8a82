--------------------------- MODULE ContractProofs ---------------------------
(***************************************************************************)
(* Proofs about the life of a contract.  Its synchronisation, for any      *)
(* processes, threads, contracts and releases: every pass is a sequence of *)
(* steps of one thread, and all that other threads can do to it is done to *)
(* the cache, the snapshot and the two locks.  Its admission and the       *)
(* validations under it, for any documents, drafts, evaluators, modes and  *)
(* caps of the reports.                                                    *)
(***************************************************************************)
EXTENDS ContractSync, ContractPolicy, SequenceLemmas, TLAPS

-----------------------------------------------------------------------------
(* Synchronisation.                                                        *)

\* A pass primes from a release, never from the "no contracts" it may have got.
PrimesRelease == \A t \in Threads : pc[t] = "prime" => got[t] # 0

\* What is recorded as departed is not served: a put takes it off the record.
DepartedGone == \A p \in Procs, i \in Ids : <<p, i>> \in departed => cache[p][i] = 0

SyncInv == TypeOK /\ LocksInUse /\ OnlyAdmittedServed /\ PrimesRelease /\ DepartedGone

\* The sync use case starts with an empty cache and free locks.
LEMMA SyncInitially == Init => SyncInv
<1> SUFFICES ASSUME Init PROVE SyncInv
  OBVIOUS
<1>1. TypeOK
  <2>1. reachable \in BOOLEAN /\ fetched \in [Threads -> BOOLEAN] /\ booted \in [Threads -> BOOLEAN]
    BY Zenon DEF Init
  <2> QED BY <2>1, SyncAssumption DEF Init, TypeOK, PCs, NoSnapshot, Damaged, SyncAssumption
<1>2. LocksInUse
  BY DEF Init, LocksInUse
<1>3. OnlyAdmittedServed /\ PrimesRelease /\ DepartedGone
  BY DEF Init, OnlyAdmittedServed, PrimesRelease, DepartedGone
<1> QED BY <1>1, <1>2, <1>3 DEF SyncInv

-----------------------------------------------------------------------------
(* What a pass's end and its start of priming do to the state.             *)

\* The end of a pass (return or exception, the finally of _try_boot_lock) keeps the types.
LEMMA EndPassTypes ==
  ASSUME NEW t \in Threads, TypeOK, EndPass(t), booted' \in [Threads -> BOOLEAN]
  PROVE  /\ pc' \in [Threads -> PCs] /\ got' \in [Threads -> 0..MaxRelease]
         /\ fetched' \in [Threads -> BOOLEAN] /\ todo' \in [Threads -> SUBSET Ids]
         /\ bootLock' \in Threads \cup {Nobody}
<1>1. fetched' \in [Threads -> BOOLEAN]
  BY Zenon DEF EndPass, TypeOK
<1>2. pc' \in [Threads -> PCs] /\ todo' \in [Threads -> SUBSET Ids]
  BY DEF EndPass, Goto, TypeOK, PCs
<1>3. got' \in [Threads -> 0..MaxRelease]
  BY SyncAssumption DEF EndPass, TypeOK, SyncAssumption
<1>4. bootLock' \in Threads \cup {Nobody}
  BY DEF EndPass, TypeOK
<1> QED BY <1>1, <1>2, <1>3, <1>4

\* The same for a pass that returns or raises, with the flag that bootstrap is over.
LEMMA FinishTypes ==
  ASSUME NEW t \in Threads, TypeOK, Return(t) \/ Raise(t)
  PROVE  /\ pc' \in [Threads -> PCs] /\ got' \in [Threads -> 0..MaxRelease]
         /\ fetched' \in [Threads -> BOOLEAN] /\ todo' \in [Threads -> SUBSET Ids]
         /\ bootLock' \in Threads \cup {Nobody} /\ booted' \in [Threads -> BOOLEAN]
<1>1. booted' \in [Threads -> BOOLEAN]
  BY Zenon DEF Return, Raise, TypeOK
<1>2. EndPass(t)
  BY DEF Return, Raise
<1> QED BY <1>1, <1>2, EndPassTypes

\* _apply starts to prime from a release with contracts in it, or returns.
LEMMA ApplyTypes ==
  ASSUME NEW t \in Threads, TypeOK, NEW r \in 0..MaxRelease, NEW online \in BOOLEAN,
         Apply(t, r, online)
  PROVE  /\ pc' \in [Threads -> PCs] /\ got' \in [Threads -> 0..MaxRelease]
         /\ fetched' \in [Threads -> BOOLEAN] /\ todo' \in [Threads -> SUBSET Ids]
         /\ bootLock' \in Threads \cup {Nobody} /\ booted' \in [Threads -> BOOLEAN]
<1>1. CASE Offered(r, online) = {}
  BY <1>1, FinishTypes DEF Apply
<1>2. CASE Offered(r, online) # {}
  <2>1. fetched' \in [Threads -> BOOLEAN]
    BY <1>2, Zenon DEF Apply, TypeOK
  <2>2. Offered(r, online) \subseteq Ids
    BY DEF Offered
  <2>3. booted' \in [Threads -> BOOLEAN] /\ bootLock' \in Threads \cup {Nobody}
    BY <1>2 DEF Apply, TypeOK
  <2> QED BY <1>2, <2>1, <2>2, <2>3 DEF Apply, Goto, TypeOK, PCs
<1> QED BY <1>1, <1>2

\* The shapes of a step: every step is one of these, with the frame it leaves alone.
LEMMA Steps ==
  ASSUME [Next]_vars
  PROVE  \/ \E t \in Threads :
              \/ BeginSync(t) \/ BeginBoot(t)
              \/ BreakerRefuses(t) \/ Serve(t) \/ Receive(t) \/ FetchFails(t) \/ FetchRaises(t)
              \/ LoadSnapshot(t) \/ Primed(t) \/ \E i \in Ids : PrimeOne(t, i)
              \/ SaveLocks(t) \/ SaveSkipped(t) \/ WriteTemp(t) \/ Replace(t) \/ SaveFails(t)
         \/ Publish \/ Recover \/ Corrupt
         \/ \E p \in Procs : BreakerCloses(p) \/ Crash(p)
         \/ \E p \in Procs, i \in Ids : Leave(p, i)
         \/ UNCHANGED vars
BY DEF Next, Fetch, Prime, Save

\* Every step keeps the types.
LEMMA TypesKept == TypeOK /\ [Next]_vars => TypeOK'
<1> SUFFICES ASSUME TypeOK, [Next]_vars PROVE TypeOK'
  OBVIOUS
<1> DEFINE PassTypes == /\ pc \in [Threads -> PCs] /\ got \in [Threads -> 0..MaxRelease]
                        /\ fetched \in [Threads -> BOOLEAN] /\ todo \in [Threads -> SUBSET Ids]
                        /\ bootLock \in Threads \cup {Nobody} /\ booted \in [Threads -> BOOLEAN]
<1>0. PassTypes
  BY DEF TypeOK
<1>1. ASSUME NEW t \in Threads, BeginSync(t) \/ BreakerRefuses(t) \/ WriteTemp(t)
      PROVE  TypeOK'
  BY <1>1 DEF BeginSync, BreakerRefuses, WriteTemp, Goto, worldVars, cacheVars, TypeOK, PCs
<1>2. ASSUME NEW t \in Threads, BeginBoot(t) \/ SaveLocks(t) PROVE TypeOK'
  BY <1>2 DEF BeginBoot, SaveLocks, Goto, worldVars, cacheVars, TypeOK, PCs
<1>3. ASSUME NEW t \in Threads, Serve(t) \/ FetchFails(t) PROVE TypeOK'
  <2>1. got' \in [Threads -> 0..MaxRelease]
    BY <1>3, SyncAssumption DEF Serve, FetchFails, TypeOK, SyncAssumption
  <2> QED BY <1>3, <2>1 DEF Serve, FetchFails, Goto, worldVars, cacheVars, TypeOK, PCs
<1>4. ASSUME NEW t \in Threads, Receive(t) PROVE TypeOK'
  <2>1. got[t] \in 0..MaxRelease
    BY DEF TypeOK
  <2>2. PassTypes'
    BY <1>4, <2>1, ApplyTypes DEF Receive
  <2> QED BY <1>4, <2>2 DEF Receive, worldVars, cacheVars, TypeOK
<1>5. ASSUME NEW t \in Threads, LoadSnapshot(t) PROVE TypeOK'
  <2>1. (IF snapshot = Damaged THEN 0 ELSE snapshot) \in 0..MaxRelease
    BY SyncAssumption DEF TypeOK, SyncAssumption
  <2>2. PassTypes'
    BY <1>5, <2>1, ApplyTypes DEF LoadSnapshot
  <2> QED BY <1>5, <2>2 DEF LoadSnapshot, worldVars, cacheVars, TypeOK
<1>6. ASSUME NEW t \in Threads, FetchRaises(t) \/ SaveSkipped(t) PROVE TypeOK'
  <2>1. PassTypes'
    BY <1>6, FinishTypes DEF FetchRaises, SaveSkipped
  <2> QED BY <1>6, <2>1 DEF FetchRaises, SaveSkipped, worldVars, cacheVars, TypeOK
<1>7. ASSUME NEW t \in Threads, Primed(t) PROVE TypeOK'
  <2>1. PassTypes'
    BY <1>0, <1>7, FinishTypes DEF Primed, Goto, PCs
  <2> QED BY <1>7, <2>1 DEF Primed, worldVars, cacheVars, TypeOK
<1>8. ASSUME NEW t \in Threads, NEW i \in Ids, PrimeOne(t, i) PROVE TypeOK'
  <2>1. PassTypes'
    BY <1>0, <1>8, FinishTypes DEF PrimeOne
  <2>2. HostOf[t] \in Procs /\ got[t] \in 0..MaxRelease
    BY SyncAssumption DEF SyncAssumption, TypeOK
  <2>3. /\ cache' \in [Procs -> [Ids -> 0..MaxRelease]] /\ departed' \subseteq Procs \X Ids
        /\ UNCHANGED <<worldVars, snapshot, snapLock>>
    <3>1. CASE Offer[got[t]][i] = "ok"
      <4>1. /\ cache' = [cache EXCEPT ![HostOf[t]][i] = got[t]]
            /\ departed' = departed \ {<<HostOf[t], i>>}
            /\ UNCHANGED <<worldVars, snapshot, snapLock>>
        BY <1>8, <3>1 DEF PrimeOne
      <4>2. cache' \in [Procs -> [Ids -> 0..MaxRelease]]
        BY <2>2, <4>1 DEF TypeOK
      <4>3. departed' \subseteq Procs \X Ids
        BY <4>1 DEF TypeOK
      <4> QED BY <4>1, <4>2, <4>3
    <3>2. CASE Offer[got[t]][i] # "ok"
      BY <1>8, <3>2 DEF PrimeOne, cacheVars, TypeOK
    <3> QED BY <3>1, <3>2
  <2> QED BY <2>1, <2>3 DEF worldVars, TypeOK
<1>9. ASSUME NEW t \in Threads, Replace(t) \/ SaveFails(t) PROVE TypeOK'
  <2>1. PassTypes'
    BY <1>9, FinishTypes DEF Replace, SaveFails
  <2>2. snapshot' \in 0..MaxRelease \cup {Damaged} /\ snapLock' \in Threads \cup {Nobody}
    BY <1>9 DEF Replace, SaveFails, TypeOK
  <2> QED BY <1>9, <2>1, <2>2 DEF Replace, SaveFails, worldVars, cacheVars, TypeOK
<1>10. CASE Publish \/ Recover \/ Corrupt
  <2>1. release' \in 0..MaxRelease /\ corruptions' \in 0..MaxCorrupt
    BY <1>10, SyncAssumption DEF Publish, Recover, Corrupt, TypeOK, SyncAssumption
  <2>2. reachable' \in BOOLEAN
    BY <1>10, Zenon DEF Publish, Recover, Corrupt, TypeOK
  <2>3. snapshot' \in 0..MaxRelease \cup {Damaged}
    BY <1>10 DEF Publish, Recover, Corrupt, TypeOK
  <2>4. UNCHANGED <<passVars, cacheVars, bootLock, snapLock, admitting>> /\ crashes' = crashes
    BY <1>10, Zenon DEF Publish, Recover, Corrupt
  <2> QED BY <2>1, <2>2, <2>3, <2>4 DEF passVars, cacheVars, TypeOK
<1>11. ASSUME NEW p \in Procs, NEW i \in Ids, Leave(p, i) PROVE TypeOK'
  BY <1>11, SyncAssumption DEF Leave, passVars, worldVars, cacheVars, TypeOK, SyncAssumption
<1>12. ASSUME NEW p \in Procs, Crash(p) PROVE TypeOK'
  <2>1. booted' \in [Threads -> BOOLEAN] /\ fetched' \in [Threads -> BOOLEAN]
    BY <1>12, Zenon DEF Crash
  <2>2. /\ pc' \in [Threads -> PCs] /\ got' \in [Threads -> 0..MaxRelease]
        /\ todo' \in [Threads -> SUBSET Ids]
    BY <1>12, SyncAssumption DEF Crash, TypeOK, PCs, SyncAssumption
  <2>3. bootLock' \in Threads \cup {Nobody} /\ snapLock' \in Threads \cup {Nobody}
    BY <1>12 DEF Crash, TypeOK
  <2>4. cache' \in [Procs -> [Ids -> 0..MaxRelease]]
    BY <1>12, SyncAssumption DEF Crash, TypeOK, SyncAssumption
  <2>5. crashes' \in 0..MaxCrashes /\ departed' \subseteq Procs \X Ids
    BY <1>12, SyncAssumption DEF Crash, TypeOK, SyncAssumption
  <2> QED BY <1>12, <2>1, <2>2, <2>3, <2>4, <2>5 DEF Crash, TypeOK
<1>13. ASSUME NEW p \in Procs, BreakerCloses(p) PROVE TypeOK'
  BY <1>13 DEF BreakerCloses, passVars, cacheVars, TypeOK
<1>14. CASE UNCHANGED vars
  BY <1>14 DEF vars, TypeOK
<1> HIDE DEF PassTypes
<1> QED BY <1>1, <1>2, <1>3, <1>4, <1>5, <1>6, <1>7, <1>8, <1>9, <1>10, <1>11, <1>12, <1>13, <1>14, Steps

\* A pass that has got to priming has a release: _apply returns when there is none.
LEMMA PrimingKept == SyncInv /\ [Next]_vars => PrimesRelease'
<1> SUFFICES ASSUME SyncInv, [Next]_vars, NEW u \in Threads, pc'[u] = "prime"
             PROVE  got'[u] # 0
  BY DEF PrimesRelease
<1> USE DEF SyncInv, TypeOK, PrimesRelease
<1>1. ASSUME NEW t \in Threads, NEW r, NEW online, Apply(t, r, online) PROVE got'[u] # 0
  <2>1. CASE Offered(r, online) = {}
    BY <1>1, <2>1 DEF Apply, Return, EndPass, Goto
  <2>2. CASE Offered(r, online) # {}
    BY <1>1, <2>2 DEF Apply, Goto, Offered
  <2> QED BY <2>1, <2>2
<1>2. ASSUME NEW t \in Threads, Receive(t) \/ LoadSnapshot(t) PROVE got'[u] # 0
  BY <1>1, <1>2 DEF Receive, LoadSnapshot
<1>3. ASSUME NEW t \in Threads, EndPass(t) PROVE got'[u] # 0
  BY <1>3 DEF EndPass, Goto
<1>4. ASSUME NEW t \in Threads,
             \/ FetchRaises(t) \/ SaveSkipped(t) \/ Replace(t) \/ SaveFails(t)
      PROVE  got'[u] # 0
  BY <1>3, <1>4 DEF FetchRaises, SaveSkipped, Replace, SaveFails, Return, Raise
<1>5. ASSUME NEW t \in Threads, Primed(t) \/ \E i \in Ids : PrimeOne(t, i)
      PROVE  got'[u] # 0
  BY <1>3, <1>5 DEF Primed, PrimeOne, Return, Raise, Goto
<1>6. ASSUME NEW t \in Threads,
             \/ BeginSync(t) \/ BeginBoot(t) \/ BreakerRefuses(t) \/ Serve(t)
             \/ FetchFails(t) \/ SaveLocks(t) \/ WriteTemp(t)
      PROVE  got'[u] # 0
  BY <1>6 DEF BeginSync, BeginBoot, BreakerRefuses, Serve, FetchFails, SaveLocks, WriteTemp, Goto
<1>7. CASE Publish \/ Recover \/ Corrupt \/ UNCHANGED vars
  BY <1>7 DEF Publish, Recover, Corrupt, passVars, vars
<1>8. ASSUME NEW p \in Procs, BreakerCloses(p) \/ Crash(p) \/ \E i \in Ids : Leave(p, i)
      PROVE  got'[u] # 0
  BY <1>8 DEF BreakerCloses, Crash, Leave, passVars
<1> QED BY <1>2, <1>4, <1>5, <1>6, <1>7, <1>8, Steps

\* A pass that ends lets go of the boot lock, and of no other's snapshot lock.
LEMMA EndPassLocks ==
  ASSUME SyncInv, NEW t \in Threads, EndPass(t),
         snapLock' = IF snapLock = t THEN Nobody ELSE snapLock
  PROVE  LocksInUse'
BY SyncAssumption DEF SyncInv, TypeOK, LocksInUse, EndPass, Goto, SyncAssumption

\* The boot lock and the snapshot lock stay with passes that are inside the sections
\* of _try_boot_lock and _snapshot_lock.
LEMMA LocksKept == SyncInv /\ [Next]_vars => LocksInUse'
<1> SUFFICES ASSUME SyncInv, [Next]_vars PROVE LocksInUse'
  OBVIOUS
<1> USE SyncAssumption DEF SyncInv, TypeOK, LocksInUse, SyncAssumption
<1>1. ASSUME NEW t \in Threads, NEW r, NEW online, Apply(t, r, online),
             pc[t] \notin {"idle", "write", "replace"}, snapLock' = snapLock
      PROVE  LocksInUse'
  <2>1. CASE Offered(r, online) = {}
    BY <1>1, <2>1, EndPassLocks DEF Apply, Return
  <2>2. CASE Offered(r, online) # {}
    BY <1>1, <2>2 DEF Apply, Goto
  <2> QED BY <2>1, <2>2
<1>2. ASSUME NEW t \in Threads, Receive(t) \/ LoadSnapshot(t) PROVE LocksInUse'
  BY <1>1, <1>2 DEF Receive, LoadSnapshot
<1>3. ASSUME NEW t \in Threads, FetchRaises(t) \/ SaveSkipped(t) PROVE LocksInUse'
  <2>1. EndPass(t) /\ snapLock' = snapLock /\ pc[t] \notin {"write", "replace"}
    BY <1>3 DEF FetchRaises, SaveSkipped, Return, Raise
  <2> QED BY <2>1, EndPassLocks
<1>4. ASSUME NEW t \in Threads, Replace(t) \/ SaveFails(t) PROVE LocksInUse'
  BY <1>4, EndPassLocks DEF Replace, SaveFails, Return
<1>5. ASSUME NEW t \in Threads, Primed(t) \/ \E i \in Ids : PrimeOne(t, i)
      PROVE  LocksInUse'
  <2>1. CASE EndPass(t)
    BY <1>5, <2>1, EndPassLocks DEF Primed, PrimeOne
  <2>2. CASE ~EndPass(t)
    BY <1>5, <2>2 DEF Primed, PrimeOne, Return, Raise, Goto
  <2> QED BY <2>1, <2>2
<1>6. ASSUME NEW t \in Threads, BeginSync(t) \/ BeginBoot(t) PROVE LocksInUse'
  BY <1>6 DEF BeginSync, BeginBoot, Goto
<1>7. ASSUME NEW t \in Threads, BreakerRefuses(t) \/ Serve(t) \/ FetchFails(t)
      PROVE  LocksInUse'
  BY <1>7 DEF BreakerRefuses, Serve, FetchFails, Goto
<1>8. ASSUME NEW t \in Threads, SaveLocks(t) \/ WriteTemp(t) PROVE LocksInUse'
  BY <1>8 DEF SaveLocks, WriteTemp, Goto
<1>9. CASE Publish \/ Recover \/ Corrupt \/ UNCHANGED vars
  BY <1>9 DEF Publish, Recover, Corrupt, passVars, vars
<1>10. ASSUME NEW p \in Procs, Crash(p) PROVE LocksInUse'
  BY <1>10 DEF Crash
<1>11. ASSUME NEW p \in Procs, BreakerCloses(p) \/ \E i \in Ids : Leave(p, i)
       PROVE  LocksInUse'
  BY <1>11 DEF BreakerCloses, Leave, passVars
<1> QED BY <1>2, <1>3, <1>4, <1>5, <1>6, <1>7, <1>8, <1>9, <1>10, <1>11, Steps

\* The cache changes in one turn of _prime_cache, in a departure and in a crash only.
LEMMA CacheWriters ==
  ASSUME [Next]_vars
  PROVE  \/ UNCHANGED cacheVars
         \/ \E t \in Threads, i \in Ids : PrimeOne(t, i)
         \/ \E p \in Procs, i \in Ids : Leave(p, i)
         \/ \E p \in Procs : Crash(p)
BY Steps DEF BeginSync, BeginBoot, BreakerRefuses, Serve, Receive, FetchFails, FetchRaises,
             LoadSnapshot, Primed, SaveLocks, SaveSkipped, WriteTemp, Replace, SaveFails,
             Publish, Recover, BreakerCloses, Corrupt, cacheVars, vars

\* A contract gets into the cache through the gate of admission only.
LEMMA AdmittedKept == SyncInv /\ [Next]_vars => OnlyAdmittedServed'
<1> SUFFICES ASSUME SyncInv, [Next]_vars, NEW p \in Procs, NEW i \in Ids, cache'[p][i] # 0
             PROVE  Offer[cache'[p][i]][i] = "ok"
  BY DEF OnlyAdmittedServed
<1> USE DEF SyncInv, TypeOK, OnlyAdmittedServed
<1>1. CASE UNCHANGED cacheVars
  BY <1>1 DEF cacheVars
<1>2. ASSUME NEW t \in Threads, NEW j \in Ids, PrimeOne(t, j)
      PROVE  Offer[cache'[p][i]][i] = "ok"
  <2>1. CASE Offer[got[t]][j] = "ok" /\ p = HostOf[t] /\ i = j
    BY <1>2, <2>1 DEF PrimeOne
  <2>2. CASE ~(Offer[got[t]][j] = "ok" /\ p = HostOf[t] /\ i = j)
    BY <1>2, <2>2 DEF PrimeOne, cacheVars
  <2> QED BY <2>1, <2>2
<1>3. ASSUME NEW q \in Procs, NEW j \in Ids, Leave(q, j)
      PROVE  Offer[cache'[p][i]][i] = "ok"
  BY <1>3 DEF Leave
<1>4. ASSUME NEW q \in Procs, Crash(q) PROVE Offer[cache'[p][i]][i] = "ok"
  BY <1>4 DEF Crash
<1> QED BY <1>1, <1>2, <1>3, <1>4, CacheWriters

\* A put takes the schema off the record of departures, a departure and a crash put on
\* it what they take away.
LEMMA DepartedKept == SyncInv /\ [Next]_vars => DepartedGone'
<1> SUFFICES ASSUME SyncInv, [Next]_vars, NEW p \in Procs, NEW i \in Ids, <<p, i>> \in departed'
             PROVE  cache'[p][i] = 0
  BY DEF DepartedGone
<1> USE DEF SyncInv, TypeOK, DepartedGone
<1>1. CASE UNCHANGED cacheVars
  BY <1>1 DEF cacheVars
<1>2. ASSUME NEW t \in Threads, NEW j \in Ids, PrimeOne(t, j) PROVE cache'[p][i] = 0
  <2>1. CASE Offer[got[t]][j] = "ok"
    <3>1. departed' = departed \ {<<HostOf[t], j>>} /\ cache' = [cache EXCEPT ![HostOf[t]][j] = got[t]]
      BY <1>2, <2>1 DEF PrimeOne
    <3>2. <<p, i>> # <<HostOf[t], j>>
      BY <3>1
    <3>3. ~(p = HostOf[t] /\ i = j)
      BY <3>2
    <3> QED BY <3>1, <3>3
  <2>2. CASE Offer[got[t]][j] # "ok"
    BY <1>2, <2>2 DEF PrimeOne, cacheVars
  <2> QED BY <2>1, <2>2
<1>3. ASSUME NEW q \in Procs, NEW j \in Ids, Leave(q, j) PROVE cache'[p][i] = 0
  <2>1. CASE p = q /\ i = j
    BY <1>3, <2>1 DEF Leave
  <2>2. CASE ~(p = q /\ i = j)
    BY <1>3, <2>2 DEF Leave
  <2> QED BY <2>1, <2>2
<1>4. ASSUME NEW q \in Procs, Crash(q) PROVE cache'[p][i] = 0
  BY <1>4 DEF Crash
<1> QED BY <1>1, <1>2, <1>3, <1>4, CacheWriters

\* The invariant holds in every reachable state.
LEMMA SyncInvariant == Spec => []SyncInv
<1>1. SyncInv /\ [Next]_vars => SyncInv'
  BY TypesKept, LocksKept, AdmittedKept, PrimingKept, DepartedKept DEF SyncInv
<1> QED BY <1>1, SyncInitially, PTL DEF Spec

-----------------------------------------------------------------------------
(* The theorems.                                                           *)

\* What the passes keep is what their fields are meant to hold, after any failure.
THEOREM SyncTypes == Spec => []TypeOK
<1>1. SyncInv => TypeOK
  BY DEF SyncInv
<1> QED BY <1>1, SyncInvariant, PTL

\* What get() serves was admitted in some release, whether it came from the control
\* plane or from a snapshot written by any process.
THEOREM ServesAdmitted == Spec => []OnlyAdmittedServed
<1>1. SyncInv => OnlyAdmittedServed
  BY DEF SyncInv
<1> QED BY <1>1, SyncInvariant, PTL

\* The two file locks are held by passes that use them, so every way out of a pass,
\* by return, exception or death of the process, frees them.
THEOREM LocksReleased == Spec => []LocksInUse
<1>1. SyncInv => LocksInUse
  BY DEF SyncInv
<1> QED BY <1>1, SyncInvariant, PTL

\* No step of a pass takes a served schema away: one that goes has expired, has been
\* evicted or was in the memory of a process that crashed, so last-known-good survives
\* rejected updates, bad snapshots and passes that break off.
THEOREM KeepsLastKnownGood == Spec => PassNeverForgets
<1>1. SyncInv /\ [Next]_vars =>
        [\A p \in Procs, i \in Ids :
           cache[p][i] # 0 /\ cache'[p][i] = 0 =>
             <<p, i>> \in departed' \ departed]_vars
  <2> SUFFICES ASSUME SyncInv, Next, NEW p \in Procs, NEW i \in Ids,
                      cache[p][i] # 0, cache'[p][i] = 0
               PROVE  <<p, i>> \in departed' \ departed
    OBVIOUS
  <2>1. ASSUME NEW t \in Threads, NEW j \in Ids, PrimeOne(t, j) PROVE FALSE
    BY <2>1 DEF PrimeOne, cacheVars, SyncInv, TypeOK, PrimesRelease
  <2>2. ASSUME NEW q \in Procs, NEW j \in Ids, Leave(q, j)
        PROVE  <<p, i>> \in departed' \ departed
    <3>1. q = p /\ j = i
      BY <2>2 DEF Leave, SyncInv, TypeOK
    <3> QED BY <2>2, <3>1 DEF Leave, SyncInv, DepartedGone
  <2>3. ASSUME NEW q \in Procs, Crash(q) PROVE <<p, i>> \in departed' \ departed
    <3>1. p = q
      BY <2>3 DEF Crash, SyncInv, TypeOK
    <3> QED BY <2>3, <3>1 DEF Crash, SyncInv, DepartedGone
  <2>4. cache' # cache
    OBVIOUS
  <2> QED BY <2>1, <2>2, <2>3, <2>4, CacheWriters DEF cacheVars
<1> QED BY <1>1, SyncInvariant, PTL DEF Spec, PassNeverForgets

-----------------------------------------------------------------------------
(* Documents.                                                              *)

\* A sequence with an element after it.
LEMMA AppendParts ==
  ASSUME NEW A, NEW s \in Seq(A), NEW x \in A
  PROVE  /\ Append(s, x) \in Seq(A) /\ Len(Append(s, x)) = Len(s) + 1 /\ Len(s) \in Nat
         /\ Append(s, x) # <<>> /\ Front(Append(s, x)) = s /\ Last(Append(s, x)) = x
<1>1. PICK q : q = Append(s, x)
  OBVIOUS
<1>2. /\ q \in Seq(A) /\ Len(q) = Len(s) + 1 /\ Len(s) \in Nat /\ q[Len(s) + 1] = x
      /\ \A i \in 1..Len(s) : q[i] = s[i]
  BY <1>1, AppendProperties, LenProperties
<1>3. q # <<>>
  BY <1>2, EmptySeq
<1>4. Front(q) = SubSeq(q, 1, Len(s)) /\ Last(q) = q[Len(s) + 1]
  BY <1>2 DEF Front, Last
<1>5. SubSeq(q, 1, Len(s)) = [i \in 1..Len(s) |-> q[i]]
  BY <1>2
<1>6. s = [i \in 1..Len(s) |-> s[i]]
  BY <1>2, LenProperties
<1>7. Front(q) = s /\ Last(q) = x
  BY <1>2, <1>4, <1>5, <1>6
<1> QED BY <1>1, <1>2, <1>3, <1>7

\* A position below the root is that of what holds it, and a key.
LEMMA PositionAbove ==
  ASSUME NEW doc, IsDocument(doc), NEW p \in DOMAIN doc, p # <<>>
  PROVE  /\ p \in Seq(STRING) /\ Len(p) \in Nat /\ Len(p) # 0
         /\ Front(p) \in DOMAIN doc /\ Len(Front(p)) = Len(p) - 1
         /\ p = Append(Front(p), Last(p)) /\ Last(p) \in STRING
<1>1. p \in Seq(STRING) /\ Front(p) \in DOMAIN doc
  BY DEF IsDocument
<1>2. PICK u \in Seq(STRING), x \in STRING : p = Append(u, x)
  BY <1>1, SequenceEmptyOrAppend
<1>3. Len(p) = Len(u) + 1 /\ Len(u) \in Nat /\ Front(p) = u /\ Last(p) = x
  BY <1>2, AppendParts
<1>4. Len(p) \in Nat /\ Len(p) # 0 /\ Len(Front(p)) = Len(p) - 1
  BY <1>3
<1>5. p = Append(Front(p), Last(p)) /\ Last(p) \in STRING
  BY <1>2, <1>3
<1> QED BY <1>1, <1>4, <1>5

\* Short tuples are sequences.
LEMMA Pairs ==
  ASSUME NEW A, NEW j \in A, NEW k \in A
  PROVE  <<j, k>> \in Seq(A) /\ <<j, k>> = Append(<<j>>, k)
<1>1. <<j, k>> \in Seq(A) /\ Len(<<j, k>>) = 2 /\ <<j, k>>[1] = j /\ <<j, k>>[2] = k
  OBVIOUS
<1>2. <<j>> \in Seq(A) /\ Len(<<j>>) = 1 /\ <<j>>[1] = j
  OBVIOUS
<1>3. PICK a, b : a = Append(<<j>>, k) /\ b = <<j, k>>
  OBVIOUS
<1>4. a \in Seq(A) /\ Len(a) = 2 /\ a[1] = j /\ a[2] = k
  BY <1>2, <1>3, AppendProperties
<1>5. b \in Seq(A) /\ Len(b) = 2 /\ b[1] = j /\ b[2] = k
  BY ONLY <1>1, <1>3
<1>6. \A i \in 1..2 : i = 1 \/ i = 2
  OBVIOUS
<1>7. a = b
  BY ONLY <1>4, <1>5, <1>6, SeqEqual
<1> QED BY ONLY <1>1, <1>3, <1>7

\* Three keys are two and one more.
LEMMA Triples ==
  ASSUME NEW A, NEW i \in A, NEW j \in A, NEW k \in A
  PROVE  <<i, j, k>> \in Seq(A) /\ <<i, j, k>> = Append(<<i, j>>, k)
<1>1. /\ <<i, j, k>> \in Seq(A) /\ Len(<<i, j, k>>) = 3
      /\ <<i, j, k>>[1] = i /\ <<i, j, k>>[2] = j /\ <<i, j, k>>[3] = k
  OBVIOUS
<1>2. <<i, j>> \in Seq(A) /\ Len(<<i, j>>) = 2 /\ <<i, j>>[1] = i /\ <<i, j>>[2] = j
  OBVIOUS
<1>3. PICK a, b : a = Append(<<i, j>>, k) /\ b = <<i, j, k>>
  OBVIOUS
<1>4. a \in Seq(A) /\ Len(a) = 3 /\ a[1] = i /\ a[2] = j /\ a[3] = k
  BY <1>2, <1>3, AppendProperties
<1>5. b \in Seq(A) /\ Len(b) = 3 /\ b[1] = i /\ b[2] = j /\ b[3] = k
  BY ONLY <1>1, <1>3
<1>6. \A n \in 1..3 : n = 1 \/ n = 2 \/ n = 3
  OBVIOUS
<1>7. a = b
  BY ONLY <1>4, <1>5, <1>6, SeqEqual
<1> QED BY ONLY <1>1, <1>3, <1>7

\* The positions of the first levels.
LEMMA PositionOne ==
  ASSUME NEW k
  PROVE  /\ Len(<<k>>) = 1 /\ Front(<<k>>) = <<>> /\ Last(<<k>>) = k
         /\ Append(<<>>, k) = <<k>> /\ <<k>> # <<>> /\ <<k>> \in Seq({k})
<1>1. <<k>> = Append(<<>>, k)
  OBVIOUS
<1>2. <<>> \in Seq({k}) /\ Len(<<>>) = 0 /\ k \in {k}
  BY EmptySeq
<1>3. /\ Append(<<>>, k) \in Seq({k}) /\ Len(Append(<<>>, k)) = Len(<<>>) + 1
      /\ Append(<<>>, k) # <<>> /\ Front(Append(<<>>, k)) = <<>> /\ Last(Append(<<>>, k)) = k
  BY <1>2, AppendParts
<1> QED BY ONLY <1>1, <1>2, <1>3

\* Two levels down.
LEMMA PositionTwo ==
  ASSUME NEW j, NEW k
  PROVE  /\ Len(<<j, k>>) = 2 /\ Front(<<j, k>>) = <<j>> /\ Last(<<j, k>>) = k
         /\ Append(<<j>>, k) = <<j, k>> /\ <<j, k>> # <<>> /\ <<j, k>> \in Seq({j, k})
<1>a. PICK A : A = {j, k}
  OBVIOUS
<1>0. A = {j, k} /\ j \in A /\ k \in A
  BY <1>a
<1>1. <<j, k>> \in Seq(A) /\ <<j, k>> = Append(<<j>>, k)
  BY <1>0, Pairs
<1>2. <<j>> \in Seq(A) /\ Len(<<j>>) = 1
  BY <1>0
<1>3. /\ Append(<<j>>, k) \in Seq(A) /\ Len(Append(<<j>>, k)) = Len(<<j>>) + 1
      /\ Append(<<j>>, k) # <<>> /\ Front(Append(<<j>>, k)) = <<j>> /\ Last(Append(<<j>>, k)) = k
  BY <1>0, <1>2, AppendParts
<1> QED BY ONLY <1>0, <1>1, <1>2, <1>3

\* Three levels down, where the clauses of a property are.
LEMMA PositionThree ==
  ASSUME NEW i, NEW j, NEW k
  PROVE  /\ Len(<<i, j, k>>) = 3 /\ Front(<<i, j, k>>) = <<i, j>> /\ Last(<<i, j, k>>) = k
         /\ Append(<<i, j>>, k) = <<i, j, k>> /\ <<i, j, k>> # <<>>
         /\ <<i, j>> \o <<k>> = <<i, j, k>>
<1>a. PICK A : A = {i, j, k}
  OBVIOUS
<1>0. i \in A /\ j \in A /\ k \in A
  BY <1>a
<1>1. <<i, j, k>> = Append(<<i, j>>, k)
  BY <1>0, Triples
<1>2. <<i, j>> \in Seq(A) /\ Len(<<i, j>>) = 2
  BY <1>0, Pairs
<1>3. /\ Append(<<i, j>>, k) \in Seq(A) /\ Len(Append(<<i, j>>, k)) = Len(<<i, j>>) + 1
      /\ Append(<<i, j>>, k) # <<>> /\ Front(Append(<<i, j>>, k)) = <<i, j>>
      /\ Last(Append(<<i, j>>, k)) = k
  BY <1>0, <1>2, AppendParts
<1>4. <<i, j>> \o <<k>> = Append(<<i, j>>, k)
  BY <1>0, <1>2, AppendIsConcat
<1> QED BY ONLY <1>1, <1>2, <1>3, <1>4

\* A place below a position, there or not.
LEMMA PositionBelow ==
  ASSUME NEW doc, IsDocument(doc), NEW p \in DOMAIN doc, NEW k
  PROVE  /\ Len(Append(p, k)) = Len(p) + 1 /\ Len(p) \in Nat /\ Append(p, k) # <<>>
         /\ Front(Append(p, k)) = p /\ Last(Append(p, k)) = k
<1>0. PICK A : A = STRING \cup {k}
  OBVIOUS
<1>1. p \in Seq(STRING)
  BY DEF IsDocument
<1>4. p \in Seq(A) /\ k \in A
  BY <1>0, <1>1, SeqMonotonic
<1> QED BY <1>4, AppendParts

\* What is below a position.
LEMMA BelowIs ==
  ASSUME NEW doc, IsDocument(doc), NEW p \in DOMAIN doc
  PROVE  /\ \A q \in Below(doc, p) : /\ q \in DOMAIN doc /\ q # <<>> /\ Front(q) = p
                                    /\ q = Append(p, Last(q)) /\ Last(q) \in STRING
         /\ \A k : Append(p, k) \in DOMAIN doc =>
                    Append(p, k) \in Below(doc, p) /\ k \in STRING
         /\ \A k : k \in Keys(doc, p) <=> Append(p, k) \in DOMAIN doc
<1>1. p \in Seq(STRING) /\ Len(p) \in Nat
  BY LenProperties DEF IsDocument
<1>2. ASSUME NEW q \in Below(doc, p)
      PROVE  /\ q \in DOMAIN doc /\ q # <<>> /\ Front(q) = p
             /\ q = Append(p, Last(q)) /\ Last(q) \in STRING
  <2>1. q \in DOMAIN doc /\ Len(q) = Len(p) + 1 /\ Front(q) = p
    BY DEF Below
  <2>2. q # <<>>
    BY <1>1, <2>1, EmptySeq
  <2> QED BY <2>1, <2>2, PositionAbove
<1>3. ASSUME NEW k, Append(p, k) \in DOMAIN doc
      PROVE  Append(p, k) \in Below(doc, p) /\ Last(Append(p, k)) = k /\ k \in STRING
  <2>1. /\ Len(Append(p, k)) = Len(p) + 1 /\ Append(p, k) # <<>>
        /\ Front(Append(p, k)) = p /\ Last(Append(p, k)) = k
    BY PositionBelow
  <2>2. Last(Append(p, k)) \in STRING
    BY <1>3, <2>1, PositionAbove
  <2> QED BY <1>3, <2>1, <2>2 DEF Below
<1>4. \A k : k \in Keys(doc, p) <=> Append(p, k) \in DOMAIN doc
  <2>1. ASSUME NEW k \in Keys(doc, p) PROVE Append(p, k) \in DOMAIN doc
    <3>1. PICK q \in Below(doc, p) : k = Last(q)
      BY DEF Keys
    <3> QED BY <1>2, <3>1
  <2>2. ASSUME NEW k, Append(p, k) \in DOMAIN doc PROVE k \in Keys(doc, p)
    BY <1>3, <2>2 DEF Keys
  <2> QED BY <2>1, <2>2
<1> QED BY <1>2, <1>3, <1>4

-----------------------------------------------------------------------------
(* The schemas in a contract: the walk of _walk_subschemas is well defined, *)
(* since it goes down.                                                      *)

\* One step of the walk, from what g says of the positions above.
Walk(doc, g, p) ==
  /\ doc[p].kind = "object"
  /\ \/ p = <<>>
     \/ Last(p) \in SchemaValued /\ g[Front(p)]
     \/ /\ Len(p) > 1
        /\ \/ p[Len(p) - 1] \in SchemaListValued /\ Kind(doc, Front(p)) = "list"
           \/ p[Len(p) - 1] \in SchemaMapValued /\ Kind(doc, Front(p)) = "object"
        /\ g[Front(Front(p))]

\* It looks at shorter positions only.
LEMMA WalkSame ==
  ASSUME NEW doc, IsDocument(doc), NEW g, NEW h, NEW p \in DOMAIN doc,
         \A q \in DOMAIN doc : Len(q) < Len(p) => (g[q] <=> h[q])
  PROVE  Walk(doc, g, p) <=> Walk(doc, h, p)
<1>1. CASE p = <<>>
  BY <1>1 DEF Walk
<1>2. CASE p # <<>>
  <2>1. Front(p) \in DOMAIN doc /\ Len(Front(p)) < Len(p) /\ Len(p) \in Nat /\ Len(Front(p)) = Len(p) - 1
    BY <1>2, PositionAbove
  <2>2. Len(p) > 1 => /\ Front(Front(p)) \in DOMAIN doc
                      /\ Len(Front(Front(p))) < Len(p)
    <3>1. ASSUME Len(p) > 1 PROVE Front(p) # <<>>
      BY <2>1, <3>1, EmptySeq
    <3>2. ASSUME Front(p) # <<>>
          PROVE  Front(Front(p)) \in DOMAIN doc /\ Len(Front(Front(p))) = Len(Front(p)) - 1
      BY <2>1, <3>2, PositionAbove
    <3> QED BY <2>1, <3>1, <3>2
  <2>3. g[Front(p)] <=> h[Front(p)]
    BY <2>1
  <2>4. Len(p) > 1 => (g[Front(Front(p))] <=> h[Front(Front(p))])
    BY <2>2
  <2> QED BY <1>2, <2>3, <2>4, Zenon DEF Walk
<1> QED BY <1>1, <1>2

\* g is the walk down to depth n.
Walks(doc, g, n) == \A p \in DOMAIN doc : Len(p) <= n => (g[p] <=> Walk(doc, g, p))

\* Two walks that go as deep agree.
LEMMA WalksAgree ==
  ASSUME NEW doc, IsDocument(doc), NEW g, NEW h, NEW n \in Nat, Walks(doc, g, n), Walks(doc, h, n)
  PROVE  \A p \in DOMAIN doc : Len(p) <= n => (g[p] <=> h[p])
<1> DEFINE Bad == {Len(p) : p \in {q \in DOMAIN doc : Len(q) <= n /\ ~(g[q] <=> h[q])}}
<1>1. ASSUME Bad # {} PROVE FALSE
  <2>1. PICK m \in Bad : \A k \in Bad : m <= k
    <3>1. \A p \in DOMAIN doc : Len(p) \in Nat
      BY LenProperties DEF IsDocument
    <3>2. Bad \in SUBSET Nat
      BY <3>1
    <3> HIDE DEF Bad
    <3> QED BY <1>1, <3>2, LeastNumber
  <2>2. PICK p \in DOMAIN doc : m = Len(p) /\ Len(p) <= n /\ ~(g[p] <=> h[p])
    OBVIOUS
  <2>3. \A q \in DOMAIN doc : Len(q) \in Nat
    BY LenProperties DEF IsDocument
  <2>4. ASSUME NEW q \in DOMAIN doc, Len(q) < Len(p) PROVE g[q] <=> h[q]
    <3>1. Len(q) <= n /\ ~(m <= Len(q))
      BY <2>2, <2>3, <2>4
    <3>2. Len(q) \notin Bad
      BY <2>1, <3>1
    <3> QED BY <3>1, <3>2
  <2>5. Walk(doc, g, p) <=> Walk(doc, h, p)
    BY <2>4, WalkSame
  <2> QED BY <2>2, <2>5 DEF Walks
<1>2. ASSUME NEW p \in DOMAIN doc, Len(p) <= n, ~(g[p] <=> h[p]) PROVE FALSE
  <2>1. Len(p) \in Bad
    BY <1>2
  <2> QED BY <1>1, <2>1
<1> QED BY <1>2

\* There is a walk to every depth.
LEMMA WalksExist ==
  ASSUME NEW doc, IsDocument(doc), NEW n \in Nat
  PROVE  \E g : Walks(doc, g, n)
<1> DEFINE Bad == {k \in Nat : ~\E g : Walks(doc, g, k)}
<1>0. \A q \in DOMAIN doc : Len(q) \in Nat
  BY LenProperties DEF IsDocument
<1>1. ASSUME Bad # {} PROVE FALSE
  <2>1. PICK m \in Bad : \A k \in Bad : m <= k
    <3>1. Bad \in SUBSET Nat
      OBVIOUS
    <3> HIDE DEF Bad
    <3> QED BY <1>1, <3>1, LeastNumber
  <2>2. m \in Nat /\ ~\E g : Walks(doc, g, m)
    OBVIOUS
  <2>3. \E g : \A q \in DOMAIN doc : Len(q) < m => (g[q] <=> Walk(doc, g, q))
    <3>1. CASE m = 0
      BY <1>0, <3>1
    <3>2. CASE m # 0
      <4>1. m - 1 \in Nat /\ m - 1 \notin Bad
        <5>1. m - 1 \in Nat /\ ~(m <= m - 1)
          BY <2>2, <3>2
        <5> HIDE DEF Bad
        <5> QED BY <2>1, <5>1
      <4>2. PICK g : Walks(doc, g, m - 1)
        BY <4>1
      <4>3. \A q \in DOMAIN doc : Len(q) < m => Len(q) <= m - 1
        BY <1>0, <2>2
      <4> QED BY <4>2, <4>3 DEF Walks
    <3> QED BY <3>1, <3>2
  <2>4. PICK g : \A q \in DOMAIN doc : Len(q) < m => (g[q] <=> Walk(doc, g, q))
    BY <2>3
  <2>5. PICK h : h = [p \in DOMAIN doc |-> Walk(doc, g, p)]
    OBVIOUS
  <2>6. \A q \in DOMAIN doc : h[q] <=> Walk(doc, g, q)
    BY <2>5
  <2>7. ASSUME NEW p \in DOMAIN doc, Len(p) <= m PROVE Walk(doc, g, p) <=> Walk(doc, h, p)
    <3>1. \A q \in DOMAIN doc : Len(q) < Len(p) => (g[q] <=> h[q])
      BY <1>0, <2>2, <2>4, <2>6, <2>7
    <3> QED BY <3>1, WalkSame
  <2>8. Walks(doc, h, m)
    BY <2>6, <2>7 DEF Walks
  <2> QED BY <2>2, <2>8
<1>2. n \notin Bad
  <2> HIDE DEF Bad
  <2> QED BY <1>1
<1> QED BY <1>2

\* The schemas of a contract are the objects that are at the root or where a schema is
\* expected below one.
LEMMA SubschemasAre ==
  ASSUME NEW doc, IsDocument(doc)
  PROVE  \E g : /\ Subschemas(doc) = {p \in DOMAIN doc : g[p]}
                /\ \A p \in DOMAIN doc : g[p] <=> Walk(doc, g, p)
<1> DEFINE G(n) == CHOOSE g : Walks(doc, g, n)
<1>0. \A q \in DOMAIN doc : Len(q) \in Nat
  BY LenProperties DEF IsDocument
<1>1. \A n \in Nat : Walks(doc, G(n), n)
  <2>1. ASSUME NEW n \in Nat PROVE Walks(doc, G(n), n)
    <3>1. \E g : Walks(doc, g, n)
      BY WalksExist
    <3> QED BY <3>1, Zenon
  <2> QED BY <2>1
<1> HIDE DEF G
<1>2. PICK f : f = [p \in DOMAIN doc |-> G(Len(p))[p]]
  OBVIOUS
<1>3. ASSUME NEW p \in DOMAIN doc PROVE f[p] <=> Walk(doc, f, p)
  <2>1. Walks(doc, G(Len(p)), Len(p)) /\ Len(p) \in Nat
    BY <1>0, <1>1
  <2>2. ASSUME NEW q \in DOMAIN doc, Len(q) < Len(p) PROVE G(Len(p))[q] <=> f[q]
    <3>1. Len(q) \in Nat /\ Walks(doc, G(Len(q)), Len(q))
      BY <1>0, <1>1
    <3>2. Walks(doc, G(Len(p)), Len(q))
      BY <1>0, <2>1, <2>2, <3>1 DEF Walks
    <3>3. G(Len(p))[q] <=> G(Len(q))[q]
      BY <3>1, <3>2, WalksAgree
    <3> QED BY <1>2, <3>3
  <2>3. Walk(doc, G(Len(p)), p) <=> Walk(doc, f, p)
    BY <2>2, WalkSame
  <2>4. G(Len(p))[p] <=> Walk(doc, G(Len(p)), p)
    BY <2>1 DEF Walks
  <2>5. f[p] = G(Len(p))[p]
    BY <1>2
  <2> QED BY <2>3, <2>4, <2>5
<1> DEFINE Is(g) == g = [p \in DOMAIN doc |-> Walk(doc, g, p)]
           W == CHOOSE g : Is(g)
<1>4. PICK h : h = [p \in DOMAIN doc |-> Walk(doc, f, p)]
  OBVIOUS
<1>5. Is(h)
  <2>1. \A p \in DOMAIN doc : h[p] <=> f[p]
    BY <1>3, <1>4
  <2>2. \A p \in DOMAIN doc : Walk(doc, f, p) <=> Walk(doc, h, p)
    BY <2>1, WalkSame
  <2>3. \A p \in DOMAIN doc : Walk(doc, f, p) = Walk(doc, h, p)
    BY <2>2, Zenon DEF Walk
  <2> QED BY <1>4, <2>3, Zenon
<1>6. Is(W)
  <2> HIDE DEF Is
  <2> QED BY <1>5, Zenon
<1>7. \A p \in DOMAIN doc : W[p] <=> Walk(doc, W, p)
  <2> HIDE DEF W
  <2> QED BY <1>6
<1>8. Subschemas(doc) = {p \in DOMAIN doc : W[p]}
  BY Zenon DEF Subschemas, Walk
<1> QED BY <1>7, <1>8, Zenon

-----------------------------------------------------------------------------
(* The issues of an admission.                                             *)

Codes == {"invalid_structure", "invalid_pattern", "empty_type_union", "unknown_type",
          "ambiguous_property_path", "unsupported_keyword", "unsupported_reference"}
Placed(doc) == [code : Codes, at : DOMAIN doc]

\* An issue with a code at a place.
LEMMA IssuePlaced ==
  ASSUME NEW doc, NEW c \in Codes, NEW p \in DOMAIN doc
  PROVE  Issue(c, p) \in Placed(doc)
BY DEF Issue, Placed

\* What has a kind is there.
LEMMA KindThere ==
  ASSUME NEW doc, NEW p, Kind(doc, p) # "absent"
  PROVE  p \in DOMAIN doc
BY DEF Kind

\* The issues of the top-level lists are at the lists or in them.
LEMMA TopLevelListsPlaced ==
  ASSUME NEW doc
  PROVE  CheckTopLevelLists(doc) \subseteq Placed(doc)
<1>1. ASSUME NEW e \in CheckTopLevelLists(doc) PROVE e \in Placed(doc)
  <2>1. \E k \in {"required", "null_forbidden"} :
          \/ e = Issue("invalid_structure", <<k>>) /\ Kind(doc, <<k>>) \notin {"absent", "null"}
          \/ \E q \in Below(doc, <<k>>) : e = Issue("invalid_structure", q)
    BY DEF CheckTopLevelLists
  <2>2. PICK p \in DOMAIN doc : e = Issue("invalid_structure", p)
    BY <2>1, KindThere DEF Below
  <2> QED BY <2>2, IssuePlaced DEF Codes
<1> QED BY <1>1

\* A regular expression gives issues at its own place.
LEMMA RegexPlaced ==
  ASSUME NEW doc, NEW p \in DOMAIN doc
  PROVE  CheckRegex(doc, p) \subseteq Placed(doc) /\ \A t : CheckRegexText(t, p) \subseteq Placed(doc)
BY IssuePlaced DEF CheckRegex, CheckRegexText, Codes

\* The issues of a property are at it or below it.
LEMMA PropertyPlaced ==
  ASSUME NEW doc, NEW f, <<"properties", f>> \in DOMAIN doc
  PROVE  CheckProperty(doc, f) \subseteq Placed(doc)
<1> DEFINE spec == <<"properties", f>>
           at(k) == Append(spec, k)
<1>1. ASSUME Present(doc, at("type")) PROVE CheckType(doc, at("type")) \subseteq Placed(doc)
  BY <1>1, IssuePlaced DEF CheckType, Present, Codes
<1>2. ASSUME Present(doc, at("pattern")) PROVE CheckRegex(doc, at("pattern")) \subseteq Placed(doc)
  BY <1>2, RegexPlaced DEF Present
<1>3. ASSUME Present(doc, at("enum")) PROVE CheckEnum(doc, at("enum")) \subseteq Placed(doc)
  BY <1>3, IssuePlaced DEF CheckEnum, Present, Codes
<1>4. CheckRange(doc, spec) \subseteq Placed(doc)
  BY IssuePlaced DEF CheckRange, Codes
<1>5. Issue("ambiguous_property_path", spec) \in Placed(doc) /\ Issue("invalid_structure", spec) \in Placed(doc)
  BY IssuePlaced DEF Codes
<1>6. ASSUME NEW e \in CheckProperty(doc, f) PROVE e \in Placed(doc)
  <2>1. \/ e = Issue("ambiguous_property_path", spec)
        \/ e = Issue("invalid_structure", spec)
        \/ Present(doc, at("type")) /\ e \in CheckType(doc, at("type"))
        \/ Present(doc, at("pattern")) /\ e \in CheckRegex(doc, at("pattern"))
        \/ Present(doc, at("enum")) /\ e \in CheckEnum(doc, at("enum"))
        \/ e \in CheckRange(doc, spec)
    BY DEF CheckProperty
  <2> HIDE DEF spec, at
  <2> QED BY <1>1, <1>2, <1>3, <1>4, <1>5, <2>1
<1> QED BY <1>6

\* The names of the properties.
LEMMA PropertyKeys ==
  ASSUME NEW doc, IsDocument(doc), <<"properties">> \in DOMAIN doc
  PROVE  \A f : f \in Keys(doc, <<"properties">>) <=> <<"properties", f>> \in DOMAIN doc
<1>1. \A f : Append(<<"properties">>, f) = <<"properties", f>>
  BY PositionTwo, Zenon
<1>2. \A f : f \in Keys(doc, <<"properties">>) <=> Append(<<"properties">>, f) \in DOMAIN doc
  BY BelowIs
<1> QED BY <1>1, <1>2, Zenon

\* The top-level keys.
LEMMA TopKeys ==
  ASSUME NEW doc, IsDocument(doc)
  PROVE  \A k : k \in Keys(doc, <<>>) <=> <<k>> \in DOMAIN doc
<1>1. \A k : Append(<<>>, k) = <<k>>
  BY PositionOne, Zenon
<1>2. <<>> \in DOMAIN doc
  BY DEF IsDocument
<1>3. \A k : k \in Keys(doc, <<>>) <=> Append(<<>>, k) \in DOMAIN doc
  BY <1>2, BelowIs
<1> QED BY <1>1, <1>3, Zenon

\* The issues of the properties.
LEMMA PropertiesPlaced ==
  ASSUME NEW doc, IsDocument(doc)
  PROVE  CheckProperties(doc) \subseteq Placed(doc)
<1>1. ASSUME NEW e \in CheckProperties(doc) PROVE e \in Placed(doc)
  <2>1. CASE Kind(doc, <<"properties">>) = "object"
    <3>1. PICK f \in Keys(doc, <<"properties">>) : e \in CheckProperty(doc, f)
      BY <1>1, <2>1 DEF CheckProperties
    <3>2. <<"properties", f>> \in DOMAIN doc
      BY <2>1, KindThere, PropertyKeys
    <3> QED BY <3>1, <3>2, PropertyPlaced
  <2>2. CASE Kind(doc, <<"properties">>) # "object"
    <3>1. e = Issue("invalid_structure", <<"properties">>) /\ Kind(doc, <<"properties">>) # "absent"
      BY <1>1, <2>2 DEF CheckProperties
    <3> QED BY <3>1, KindThere, IssuePlaced DEF Codes
  <2> QED BY <2>1, <2>2
<1> QED BY <1>1

\* What the scan finds is in the contract.
LEMMA UnenforcedThere ==
  ASSUME NEW doc, IsDocument(doc)
  PROVE  Unenforced(doc) \subseteq DOMAIN doc
<1>1. \A k \in Keys(doc, <<>>) : <<k>> \in DOMAIN doc
  BY TopKeys
<1>2. \A p : Below(doc, p) \subseteq DOMAIN doc
  BY DEF Below
<1> QED BY <1>1, <1>2 DEF Unenforced

\* The issues of the checks that take the schemas or the findings of the scan.
LEMMA OtherChecksPlaced ==
  ASSUME NEW doc, IsDocument(doc), NEW cap
  PROVE  /\ CheckUnsupportedKeywords(doc, cap) \subseteq Placed(doc)
         /\ CheckExclusiveBounds(doc, cap) \subseteq Placed(doc)
         /\ CheckReferences(doc) \subseteq Placed(doc)
         /\ CheckNestedPatterns(doc) \subseteq Placed(doc)
         /\ CheckFormats(doc, cap) \subseteq Placed(doc)
<1>1. \A q \in DOMAIN doc : /\ Issue("unsupported_keyword", q) \in Placed(doc)
                            /\ Issue("invalid_structure", q) \in Placed(doc)
                            /\ Issue("unsupported_reference", q) \in Placed(doc)
  BY IssuePlaced DEF Codes
<1>2. CheckUnsupportedKeywords(doc, cap) \subseteq Placed(doc)
  BY <1>1, UnenforcedThere DEF CheckUnsupportedKeywords, Reported
<1>3. CheckExclusiveBounds(doc, cap) \subseteq Placed(doc)
  BY <1>1 DEF CheckExclusiveBounds, Present
<1>4. CheckReferences(doc) \subseteq Placed(doc)
  BY <1>1, KindThere DEF CheckReferences
<1>5. CheckNestedPatterns(doc) \subseteq Placed(doc)
  <2>1. ASSUME NEW e \in CheckNestedPatterns(doc) PROVE e \in Placed(doc)
    <3> DEFINE nested == {q \in {Append(p, "pattern") : p \in Subschemas(doc) \ {<<>>}} :
                            Kind(doc, q) \notin {"absent", "null"}}
               keyed == {q \in {Append(p, "patternProperties") : p \in Subschemas(doc)} :
                           Kind(doc, q) = "object"}
               named == UNION {Below(doc, p) : p \in keyed}
    <3>0. e \in (UNION {CheckRegex(doc, q) : q \in nested})
                 \cup (UNION {CheckRegexText(Last(q), q) : q \in named})
      BY Zenon DEF CheckNestedPatterns
    <3>a. named \subseteq DOMAIN doc /\ \A q \in nested : Kind(doc, q) \notin {"absent", "null"}
      BY DEF Below
    <3> HIDE DEF nested, named
    <3>1. \/ \E q : Kind(doc, q) \notin {"absent", "null"} /\ e \in CheckRegex(doc, q)
          \/ \E q \in DOMAIN doc : e \in CheckRegexText(Last(q), q)
      BY ONLY <3>0, <3>a, SMT
    <3> QED BY <3>1, RegexPlaced, KindThere
  <2> QED BY <2>1
<1>6. CheckFormats(doc, cap) \subseteq Placed(doc)
  BY <1>1 DEF CheckFormats
<1> QED BY <1>2, <1>3, <1>4, <1>5, <1>6

\* Every issue that blocks is at a place of the contract.
LEMMA ErrorsPlaced ==
  ASSUME NEW doc, IsDocument(doc), NEW s
  PROVE  Errors(doc, s) \subseteq Placed(doc)
<1>1. <<>> \in DOMAIN doc
  BY DEF IsDocument
<1>2. Issue("invalid_structure", <<>>) \in Placed(doc)
  BY <1>1, IssuePlaced DEF Codes
<1>3. \A cap : CheckUnsupportedKeywords(doc, cap) \cup CheckExclusiveBounds(doc, cap)
               \cup CheckReferences(doc) \cup CheckNestedPatterns(doc) \cup CheckFormats(doc, cap)
               \subseteq Placed(doc)
  BY OtherChecksPlaced
<1> QED BY <1>2, <1>3, TopLevelListsPlaced, PropertiesPlaced DEF Errors

\* Codes and places are finite, so are the issues.
LEMMA ErrorsFinite ==
  ASSUME NEW doc, IsDocument(doc), NEW s
  PROVE  IsFiniteSet(Errors(doc, s))
<1> DEFINE E == Errors(doc, s)
<1>1. IsFiniteSet(Codes)
  <2>1. IsFiniteSet({"invalid_structure"})
    BY FS_Singleton
  <2>2. IsFiniteSet({"invalid_structure"} \cup {"invalid_pattern"})
    BY <2>1, FS_AddElement
  <2>3. IsFiniteSet(({"invalid_structure"} \cup {"invalid_pattern"}) \cup {"empty_type_union"})
    BY <2>2, FS_AddElement
  <2>4. IsFiniteSet({"invalid_structure", "invalid_pattern", "empty_type_union"} \cup {"unknown_type"})
    <3>1. {"invalid_structure", "invalid_pattern", "empty_type_union"}
            = ({"invalid_structure"} \cup {"invalid_pattern"}) \cup {"empty_type_union"}
      OBVIOUS
    <3> QED BY <2>3, <3>1, FS_AddElement
  <2>5. IsFiniteSet({"ambiguous_property_path"} \cup {"unsupported_keyword"})
    BY FS_Singleton, FS_AddElement
  <2>6. IsFiniteSet(({"ambiguous_property_path"} \cup {"unsupported_keyword"}) \cup {"unsupported_reference"})
    BY <2>5, FS_AddElement
  <2>7. Codes = ({"invalid_structure", "invalid_pattern", "empty_type_union"} \cup {"unknown_type"})
                \cup (({"ambiguous_property_path"} \cup {"unsupported_keyword"}) \cup {"unsupported_reference"})
    BY DEF Codes
  <2> QED BY <2>4, <2>6, <2>7, FS_Union
<1>2. IsFiniteSet(DOMAIN doc)
  BY DEF IsDocument
<1>3. IsFiniteSet(Codes \X DOMAIN doc)
  BY <1>1, <1>2, FS_Product
<1>4. PICK f : f = [e \in E |-> <<e.code, e.at>>]
  OBVIOUS
<1>5. E \subseteq Placed(doc)
  BY ErrorsPlaced
<1> HIDE DEF E
<1>6. f \in [E -> Codes \X DOMAIN doc]
  BY <1>4, <1>5 DEF Placed
<1>7. ASSUME NEW d \in E, NEW e \in E, f[d] = f[e] PROVE d = e
  BY <1>4, <1>5, <1>7 DEF Placed
<1>8. f \in Injection(E, Codes \X DOMAIN doc)
  BY <1>6, <1>7 DEF Injection, IsInjective
<1>9. IsFiniteSet(E)
  BY <1>3, <1>8, FS_Injection
<1> QED BY <1>9 DEF E

\* A finite set written as a sequence.
LEMMA SetToSeqIs ==
  ASSUME NEW S, IsFiniteSet(S)
  PROVE  /\ SetToSeq(S) \in Seq(S) /\ Len(SetToSeq(S)) = Cardinality(S) /\ Cardinality(S) \in Nat
         /\ \A i \in 1..Cardinality(S) : SetToSeq(S)[i] \in S
<1>1. Cardinality(S) \in Nat /\ ExistsBijection(1..Cardinality(S), S)
  BY FS_CardinalityType
<1>2. PICK n \in Nat : n = Cardinality(S)
  BY <1>1
<1>3. PICK f \in [1..n -> S] : IsInjective(f)
  BY <1>1, <1>2 DEF ExistsBijection, Bijection, Injection
<1>4. SetToSeq(S) \in [1..n -> S]
  BY <1>2, <1>3, Zenon DEF SetToSeq
<1>5. PICK q \in [1..n -> S] : q = SetToSeq(S)
  BY <1>4
<1>6. q \in Seq(S) /\ Len(q) = n /\ \A i \in 1..n : q[i] \in S
  BY <1>5
<1> QED BY <1>2, <1>5, <1>6

\* However the report is cut, a contract is admitted when no check finds an error: the
\* errors come before the advisories, and the cut leaves one.
THEOREM AdmitsExactly ==
  ASSUME NEW doc, IsDocument(doc), NEW s
  PROVE  Admits(doc, s) <=> Errors(doc, s) = {}
<1> DEFINE E == Errors(doc, s)
           D == Advisories(doc, s)
<1>1. IsFiniteSet(E) /\ \A e \in E : e.code \in Codes
  BY ErrorsFinite, ErrorsPlaced DEF Placed
<1>2. IsFiniteSet(D) /\ \A e \in D : e.code = "legacy_construct"
  <2>1. D \subseteq {Issue("legacy_construct", <<"null_forbidden">>)}
    BY DEF Advisories, LegacyAdvisories
  <2>2. IsFiniteSet({Issue("legacy_construct", <<"null_forbidden">>)})
    BY FS_Singleton
  <2>3. IsFiniteSet(D)
    BY ONLY <2>1, <2>2, FS_Subset
  <2>4. \A e \in D : e.code = "legacy_construct"
    BY <2>1 DEF Issue
  <2> QED BY <2>3, <2>4
<1> HIDE DEF E, D
<1>3. PICK a, b, A : a = SetToSeq(E) /\ b = SetToSeq(D) /\ A = E \cup D
  OBVIOUS
<1>4. /\ a \in Seq(E) /\ Len(a) = Cardinality(E) /\ Cardinality(E) \in Nat
      /\ \A i \in 1..Len(a) : a[i] \in E
  BY <1>1, <1>3, SetToSeqIs
<1>5. /\ b \in Seq(D) /\ Len(b) \in Nat /\ \A i \in 1..Len(b) : b[i] \in D
  BY <1>2, <1>3, SetToSeqIs
<1>6. a \in Seq(A) /\ b \in Seq(A)
  BY <1>3, <1>4, <1>5, SeqMonotonic
<1>7. PICK all : all = a \o b
  OBVIOUS
<1>8. /\ all \in Seq(A) /\ Len(all) = Len(a) + Len(b)
      /\ \A i \in 1..Len(all) : all[i] = IF i <= Len(a) THEN a[i] ELSE b[i - Len(a)]
  BY <1>6, <1>7, ConcatProperties
<1>9. PICK m \in Nat : /\ m = Min({Len(all), MaxIssues}) /\ m <= Len(all)
                       /\ Len(all) > 0 => m > 0
  <2>1. Len(all) \in Nat /\ MaxIssues \in Nat /\ MaxIssues > 0
    BY <1>4, <1>5, <1>8, CapsPositive
  <2>2. PICK l : l = IF Len(all) <= MaxIssues THEN Len(all) ELSE MaxIssues
    OBVIOUS
  <2>3. l \in {Len(all), MaxIssues} /\ \A y \in {Len(all), MaxIssues} : l <= y
    BY <2>1, <2>2
  <2>4. /\ Min({Len(all), MaxIssues}) \in {Len(all), MaxIssues}
        /\ \A y \in {Len(all), MaxIssues} : Min({Len(all), MaxIssues}) <= y
    BY <2>3, Zenon DEF Min
  <2> QED BY <2>1, <2>4
<1>10. PICK cut : cut = SubSeq(all, 1, m)
  OBVIOUS
<1>11. DOMAIN cut = 1..m /\ \A i \in 1..m : cut[i] = all[i]
  <2>1. Len(all) \in Nat /\ 1 \in 1..Len(all) + 1 /\ m \in 0..Len(all)
    BY <1>4, <1>5, <1>8, <1>9
  <2>2. SubSeq(all, 1, m) = [i \in 1..m |-> all[i]]
    BY <1>8, <2>1
  <2> QED BY <1>10, <2>2
<1>12. Issues(doc, s) = cut
  BY <1>3, <1>7, <1>9, <1>10 DEF Issues, E, D
<1>13. Admits(doc, s) <=> \A i \in 1..m : all[i].code = "legacy_construct"
  BY <1>11, <1>12 DEF Admits, Blocking
<1>14. ASSUME E = {} PROVE \A i \in 1..m : all[i].code = "legacy_construct"
  <2>1. Len(a) = 0
    BY <1>4, <1>14, FS_EmptySet
  <2>2. \A i \in 1..m : all[i] \in D
    BY <1>5, <1>8, <1>9, <2>1
  <2> QED BY <1>2, <2>2
<1>15. ASSUME E # {} PROVE 1 \in 1..m /\ all[1].code # "legacy_construct"
  <2>1. Len(a) # 0
    BY <1>1, <1>4, <1>15, FS_EmptySet
  <2>2. all[1] \in E /\ 1 \in 1..m
    BY <1>4, <1>5, <1>8, <1>9, <2>1
  <2> QED BY <1>1, <2>2 DEF Codes
<1> QED BY <1>13, <1>14, <1>15 DEF E

-----------------------------------------------------------------------------
(* The policy.                                                             *)

\* A contract is in force when no check finds an error in it under the configured
\* evaluators, and an outcome is that of a payload under the contract in force.
Admitted ==
  /\ setup \in Setups /\ status \in {"none", "active", "refused"}
  /\ status # "none" => contract \in Contracts
  /\ status # "none" => (status = "active" <=> Errors(contract, setup) = {})
Judged ==
  outcome # "none" =>
    /\ status = "active" /\ payload \in Payloads
    /\ outcome = "raised" => Raises(payload, contract)
    /\ outcome = "pass" => ~Raises(payload, contract) /\ Breaches(payload, contract) = {}
PolicyInv == Admitted /\ Judged

\* Contracts and payloads are documents.
LEMMA Documents ==
  /\ \A doc \in Contracts : IsDocument(doc)
  /\ \A doc \in Payloads : IsDocument(doc)
BY PolicyAssumption

\* A synchronised contract is in force when no check finds an error.
LEMMA AdoptInv ==
  ASSUME PolicyInv, NEW doc \in Contracts, Adopt(doc)
  PROVE  PolicyInv'
<1>1. Admits(doc, setup) <=> Errors(doc, setup) = {}
  BY Documents, AdmitsExactly
<1>2. status = "none" /\ contract' = doc /\ setup' = setup /\ outcome' = outcome
      /\ status' = IF Errors(doc, setup) = {} THEN "active" ELSE "refused"
  BY <1>1 DEF Adopt
<1>3. Errors(contract', setup') = Errors(doc, setup)
  BY <1>2
<1>4. Admitted'
  BY <1>2, <1>3 DEF PolicyInv, Admitted
<1>5. Judged'
  BY <1>2 DEF PolicyInv, Judged
<1> QED BY <1>4, <1>5 DEF PolicyInv

\* An outcome is that of the contract in force.
LEMMA ValidateInv ==
  ASSUME PolicyInv, NEW p \in Payloads, Validate(p)
  PROVE  PolicyInv'
<1>1. /\ status = "active" /\ outcome = "none" /\ payload' = p
      /\ setup' = setup /\ contract' = contract /\ status' = status
      /\ outcome' = IF Raises(p, contract) THEN "raised"
                    ELSE IF Breaches(p, contract) = {} THEN "pass" ELSE "fail"
  BY DEF Validate
<1>2. Errors(contract', setup') = Errors(contract, setup) /\ Raises(payload', contract') = Raises(p, contract)
      /\ Breaches(payload', contract') = Breaches(p, contract)
  BY <1>1
<1>3. Admitted'
  BY <1>1, <1>2 DEF PolicyInv, Admitted
<1>4. Judged'
  BY <1>1, <1>2 DEF Judged
<1> QED BY <1>3, <1>4 DEF PolicyInv

\* The invariant of the policy.
LEMMA PolicyInvariant == PolicySpec => []PolicyInv
<1>1. PolicyInit => PolicyInv
  BY DEF PolicyInit, PolicyInv, Admitted, Judged
<1>2. PolicyInv /\ [PolicyNext]_policyVars => PolicyInv'
  <2> SUFFICES ASSUME PolicyInv, [PolicyNext]_policyVars PROVE PolicyInv'
    OBVIOUS
  <2>1. CASE \E doc \in Contracts : Adopt(doc)
    BY <2>1, AdoptInv
  <2>2. CASE \E p \in Payloads : Validate(p)
    BY <2>2, ValidateInv
  <2>3. CASE UNCHANGED policyVars
    <3>1. /\ setup' = setup /\ contract' = contract /\ status' = status
          /\ payload' = payload /\ outcome' = outcome
      BY <2>3 DEF policyVars
    <3>2. Errors(contract', setup') = Errors(contract, setup) /\ Raises(payload', contract') = Raises(payload, contract)
          /\ Breaches(payload', contract') = Breaches(payload, contract)
      BY <3>1
    <3> QED BY <3>1, <3>2 DEF PolicyInv, Admitted, Judged
  <2> QED BY <2>1, <2>2, <2>3 DEF PolicyNext
<1> QED BY <1>1, <1>2, PTL DEF PolicySpec

\* The errors of a contract do not depend on the mode.
LEMMA ErrorsWithoutMode ==
  ASSUME NEW doc, NEW s \in Setups, NEW mode
  PROVE  Errors(doc, [s EXCEPT !.mode = mode]) = Errors(doc, s)
<1>1. PICK r : r = [s EXCEPT !.mode = mode]
  OBVIOUS
<1>2. r.semantic = s.semantic /\ r.draft = s.draft /\ r.formats = s.formats
  BY <1>1, PolicyAssumption
<1>3. Wired(r) = Wired(s)
  BY <1>2 DEF Wired
<1>4. Errors(doc, r) = Errors(doc, s)
  BY <1>2, <1>3 DEF Errors
<1> QED BY <1>1, <1>4

\* WARN relaxes compatibility, never correctness: whatever the number of issues, of
\* advisories and the cut of the report, the mode does not decide an admission.
THEOREM ModeDecidesNothing == PolicySpec => []ModeNeverAdmits
<1>1. PolicyInv => ModeNeverAdmits
  <2> SUFFICES ASSUME PolicyInv, NEW mode \in {"strict", "warn"}, status # "none"
               PROVE  Admits(contract, [setup EXCEPT !.mode = mode]) <=> status = "active"
    BY DEF ModeNeverAdmits
  <2>1. setup \in Setups /\ contract \in Contracts /\ (status = "active" <=> Errors(contract, setup) = {})
    BY DEF PolicyInv, Admitted
  <2>2. IsDocument(contract)
    BY <2>1, Documents
  <2>3. Errors(contract, [setup EXCEPT !.mode = mode]) = Errors(contract, setup)
    BY <2>1, ErrorsWithoutMode
  <2>4. Admits(contract, [setup EXCEPT !.mode = mode])
          <=> Errors(contract, [setup EXCEPT !.mode = mode]) = {}
    BY <2>2, AdmitsExactly
  <2> QED BY <2>1, <2>3, <2>4
<1> QED BY <1>1, PolicyInvariant, PTL

\* What no check finding an error means, check by check.
LEMMA NoErrors ==
  ASSUME NEW doc, NEW s, Errors(doc, s) = {}
  PROVE  /\ Kind(doc, <<>>) = "object"
         /\ CheckTopLevelLists(doc) = {} /\ CheckProperties(doc) = {}
         /\ CheckUnsupportedKeywords(doc, Wired(s)) = {} /\ CheckExclusiveBounds(doc, Wired(s)) = {}
         /\ CheckReferences(doc) = {} /\ CheckNestedPatterns(doc) = {}
         /\ s.semantic => CheckFormats(doc, Wired(s)) = {}
BY DEF Errors

\* A name without dots has one part.
LEMMA PlainName ==
  ASSUME NEW f, ~Dotted(f)
  PROVE  PartsOf(f) = <<f>>
BY DocumentTexts DEF Dotted, PartsOf

\* A place below the specification of a property.
LEMMA SpecPlace ==
  ASSUME NEW f, NEW k
  PROVE  SpecOf(f) \o <<k>> = <<"properties", f, k>> /\ Append(SpecOf(f), k) = <<"properties", f, k>>
         /\ SpecOf(f) = <<"properties", f>>
BY PositionThree DEF SpecOf

\* A property of a contract without errors.
LEMMA PropertySound ==
  ASSUME NEW doc, IsDocument(doc), CheckProperties(doc) = {}, NEW f \in Fields(doc)
  PROVE  /\ ~Dotted(f) /\ Kind(doc, SpecOf(f)) = "object"
         /\ Present(doc, SpecOf(f) \o <<"type">>) => CheckType(doc, SpecOf(f) \o <<"type">>) = {}
         /\ Present(doc, SpecOf(f) \o <<"pattern">>) => CheckRegex(doc, SpecOf(f) \o <<"pattern">>) = {}
         /\ Present(doc, SpecOf(f) \o <<"enum">>) => Kind(doc, SpecOf(f) \o <<"enum">>) = "list"
         /\ \A k \in {"min", "max", "minimum", "maximum"} :
              Present(doc, SpecOf(f) \o <<k>>) =>
                /\ Kind(doc, SpecOf(f) \o <<k>>) \in {"integer", "float"}
                /\ doc[SpecOf(f) \o <<k>>].number \in Int
<1>1. Kind(doc, <<"properties">>) = "object" /\ f \in Keys(doc, <<"properties">>)
  BY DEF Fields
<1>2. CheckProperty(doc, f) = {}
  BY <1>1 DEF CheckProperties
<1>4. \A k : SpecOf(f) \o <<k>> = <<"properties", f, k>> /\ Append(<<"properties", f>>, k) = <<"properties", f, k>>
             /\ SpecOf(f) = <<"properties", f>>
  BY SpecPlace, Zenon
<1>5. ~Dotted(f) /\ Kind(doc, <<"properties", f>>) = "object"
  BY <1>2 DEF CheckProperty
<1>6. Present(doc, <<"properties", f, "type">>) => CheckType(doc, <<"properties", f, "type">>) = {}
  <2>1. Present(doc, Append(<<"properties", f>>, "type")) => CheckType(doc, Append(<<"properties", f>>, "type")) = {}
    BY <1>2, <1>5 DEF CheckProperty
  <2> QED BY <1>4, <2>1
<1>7. Present(doc, <<"properties", f, "pattern">>) => CheckRegex(doc, <<"properties", f, "pattern">>) = {}
  <2>1. Present(doc, Append(<<"properties", f>>, "pattern"))
          => CheckRegex(doc, Append(<<"properties", f>>, "pattern")) = {}
    BY <1>2, <1>5 DEF CheckProperty
  <2> QED BY <1>4, <2>1
<1>8. Present(doc, <<"properties", f, "enum">>) => Kind(doc, <<"properties", f, "enum">>) = "list"
  <2>1. Present(doc, Append(<<"properties", f>>, "enum"))
          => CheckEnum(doc, Append(<<"properties", f>>, "enum")) = {}
    BY <1>2, <1>5 DEF CheckProperty
  <2> QED BY <1>4, <2>1 DEF CheckEnum
<1>9. ASSUME NEW k \in {"min", "max", "minimum", "maximum"}, Present(doc, <<"properties", f, k>>)
      PROVE  Kind(doc, <<"properties", f, k>>) \in {"integer", "float"} /\ doc[<<"properties", f, k>>].number \in Int
  <2>1. CheckRange(doc, <<"properties", f>>) = {}
    BY <1>2, <1>5 DEF CheckProperty
  <2>2. Append(<<"properties", f>>, k) = <<"properties", f, k>> /\ <<"properties", f, k>> \in DOMAIN doc
    BY <1>4, <1>9 DEF Present
  <2>3. Kind(doc, <<"properties", f, k>>) \in {"integer", "float"}
    BY <2>1, <2>2 DEF CheckRange
  <2> QED BY <2>2, <2>3 DEF Kind, IsDocument
<1> QED BY <1>4, <1>5, <1>6, <1>7, <1>8, <1>9

\* The checks on what the rules iterate, compare, look up and compile, rule by rule.
LEMMA AdmittedDoesNotRaise ==
  ASSUME NEW doc, IsDocument(doc), NEW s, Errors(doc, s) = {}, NEW p, Raises(p, doc)
  PROVE  \E k \in TopLevelKeywords : Kind(doc, <<k>>) = "null"
<1> SUFFICES ASSUME \A k \in TopLevelKeywords : Kind(doc, <<k>>) # "null" PROVE FALSE
  OBVIOUS
<1>1. Kind(doc, <<>>) = "object" /\ CheckTopLevelLists(doc) = {} /\ CheckProperties(doc) = {}
  BY NoErrors
<1>2. ASSUME NEW k \in {"required", "null_forbidden"}
      PROVE  /\ Kind(doc, <<k>>) \in {"absent", "list"}
             /\ Kind(doc, <<k>>) = "list" => \A q \in Below(doc, <<k>>) : Kind(doc, q) = "string"
  BY <1>1, <1>2 DEF CheckTopLevelLists, TopLevelKeywords
<1>3. Kind(doc, <<"properties">>) \in {"absent", "object"}
  BY <1>1 DEF CheckProperties, TopLevelKeywords
<1>4. ASSUME NEW k, NEW f \in With(doc, k)
      PROVE  f \in Fields(doc) /\ Present(doc, SpecOf(f) \o <<k>>)
  BY <1>4 DEF With
<1>5. ~PresenceRaises(doc) /\ ~NullGuardRaises(doc)
  BY <1>2 DEF PresenceRaises, NullGuardRaises, Iterable, Unhashable
<1>6. ASSUME EnumRaises(p, doc) PROVE FALSE
  <2>1. PICK f \in With(doc, "enum") :
          LET allowed == Kind(doc, SpecOf(f) \o <<"enum">>)
          IN  allowed \notin Iterable \/ allowed = "string" \/ allowed = "object"
    BY <1>6 DEF EnumRaises
  <2>2. Kind(doc, SpecOf(f) \o <<"enum">>) = "list"
    BY <1>1, <1>4, PropertySound
  <2> QED BY <2>1, <2>2 DEF Iterable
<1>7. ASSUME RangeRaises(p, doc) PROVE FALSE
  <2>1. PICK f \in Ranged(doc) :
          \/ Kind(doc, Limit(doc, f, "min", "minimum")) \in Iterable
          \/ Kind(doc, Limit(doc, f, "max", "maximum")) \in Iterable
    BY <1>7 DEF RangeRaises
  <2>2. PICK k \in {"min", "max", "minimum", "maximum"} : Kind(doc, SpecOf(f) \o <<k>>) \in Iterable
    BY <2>1 DEF Limit
  <2>3. f \in Fields(doc)
    BY <1>4 DEF Ranged
  <2>4. Present(doc, SpecOf(f) \o <<k>>)
    BY <2>2 DEF Kind, Present, Iterable
  <2>5. Kind(doc, SpecOf(f) \o <<k>>) \in {"integer", "float"}
    BY <1>1, <2>3, <2>4, PropertySound
  <2> QED BY <2>2, <2>5 DEF Iterable
<1>8. ASSUME PatternRaises(p, doc) PROVE FALSE
  <2>1. PICK f \in With(doc, "pattern") : Kind(doc, SpecOf(f) \o <<"pattern">>) # "string"
    BY <1>8 DEF PatternRaises
  <2>2. CheckRegex(doc, SpecOf(f) \o <<"pattern">>) = {}
    BY <1>1, <1>4, PropertySound
  <2> QED BY <2>1, <2>2 DEF CheckRegex
<1> QED BY <1>1, <1>3, <1>5, <1>6, <1>7, <1>8 DEF Raises

\* A contract in force never makes the native stage raise, unless one of its top-level
\* members is null: every member that required and null_forbidden iterate, every enum
\* that is looked into, every bound that is compared and every pattern that is compiled
\* is what the rule can do that with.
THEOREM EvaluatesWhatItAdmits == PolicySpec => []AdmittedEvaluates
<1>1. PolicyInv => AdmittedEvaluates
  <2> SUFFICES ASSUME PolicyInv, outcome = "raised"
               PROVE  \E k \in TopLevelKeywords : Kind(contract, <<k>>) = "null"
    BY DEF AdmittedEvaluates
  <2>1. Errors(contract, setup) = {} /\ Raises(payload, contract) /\ IsDocument(contract)
    BY Documents DEF PolicyInv, Admitted, Judged
  <2> QED BY <2>1, AdmittedDoesNotRaise
<1> QED BY <1>1, PolicyInvariant, PTL

\* No breach, rule by rule.
LEMMA NoBreaches ==
  ASSUME NEW p, NEW doc, Breaches(p, doc) = {}
  PROVE  /\ FieldPresence(p, doc) = {} /\ TypeMatch(p, doc) = {} /\ EnumValues(p, doc) = {}
         /\ RangeCheck(p, doc) = {} /\ NullGuard(p, doc) = {} /\ RegexPattern(p, doc) = {}
<1>1. Kind(p, <<>>) = "object"
  BY DEF Breaches
<1>2. /\ {Breach("FIELD_PRESENCE", f) : f \in FieldPresence(p, doc)} = {}
      /\ {Breach("TYPE_MATCH", f) : f \in TypeMatch(p, doc)} = {}
      /\ {Breach("ENUM_VALUES", f) : f \in EnumValues(p, doc)} = {}
      /\ {Breach("RANGE_CHECK", f) : f \in RangeCheck(p, doc)} = {}
      /\ {Breach("NULL_GUARD", f) : f \in NullGuard(p, doc)} = {}
      /\ {Breach("REGEX_PATTERN", f) : f \in RegexPattern(p, doc)} = {}
  BY <1>1 DEF Breaches
<1> QED BY <1>2

\* The value of a property, whatever its name is read as.
LEMMA PlainValues ==
  ASSUME NEW f, ~Dotted(f), NEW v \in Values(f)
  PROVE  /\ <<f>> \in DOMAIN payload /\ v = payload[<<f>>] /\ v.kind = Kind(payload, <<f>>)
         /\ Given(payload, f)
BY PlainName DEF Values, Kind, Given, Present

\* A pass and the declared types: CheckType leaves only names the rule knows.
LEMMA PassTypes ==
  ASSUME NEW doc, IsDocument(doc), CheckProperties(doc) = {}, TypeMatch(payload, doc) = {},
         NEW f \in Fields(doc), NEW v \in Values(f), v.kind # "null"
  PROVE  TypeHolds(doc, f, v)
<1>1. PICK p : p = SpecOf(f) \o <<"type">>
  OBVIOUS
<1> SUFFICES ASSUME Present(doc, p)
             PROVE  \E q \in (IF Kind(doc, p) = "list" THEN Below(doc, p) ELSE {p}) :
                      Kind(doc, q) = "string" /\ doc[q].text \in DOMAIN KindsOf
                      /\ v.kind \in KindsOf[doc[q].text]
  BY <1>1 DEF TypeHolds
<1>2. ~Dotted(f) /\ Kind(doc, SpecOf(f)) = "object" /\ CheckType(doc, p) = {}
  BY <1>1, PropertySound
<1>3. Given(payload, f) /\ v.kind = Kind(payload, <<f>>)
  BY <1>2, PlainValues
<1>4. Declaration(doc, f) = p
  BY <1>1, <1>2 DEF Declaration
<1>5. TypeEnforceable(doc, p)
  BY <1>2 DEF CheckType
<1>6. Kind(doc, p) \notin {"absent", "null"}
  BY <1>5 DEF TypeEnforceable
<1>7. TypeMatches(v.kind, doc, p)
  BY <1>3, <1>4, <1>6 DEF TypeMatch
<1>8. DOMAIN KindsOf = TypeNames
  BY DEF KindsOf, TypeNames
<1>9. CASE Kind(doc, p) = "list"
  <2>1. PICK q \in Below(doc, p) : NameMatches(v.kind, doc, q)
    BY <1>5, <1>7, <1>9 DEF TypeEnforceable, TypeMatches
  <2>2. Kind(doc, q) = "string" /\ doc[q].text \in TypeNames
    BY <1>5, <1>9, <2>1 DEF TypeEnforceable
  <2> QED BY <1>8, <1>9, <2>1, <2>2 DEF NameMatches
<1>10. CASE Kind(doc, p) # "list"
  <2>1. NameMatches(v.kind, doc, p)
    BY <1>7, <1>10 DEF TypeMatches
  <2>2. Kind(doc, p) = "string" /\ doc[p].text \in TypeNames
    BY <1>5, <1>10 DEF TypeEnforceable
  <2> QED BY <1>8, <1>10, <2>1, <2>2 DEF NameMatches
<1> QED BY <1>9, <1>10

\* A pass and the choices of an enum.
LEMMA PassChoices ==
  ASSUME NEW doc, IsDocument(doc), CheckProperties(doc) = {}, EnumValues(payload, doc) = {},
         NEW f \in Fields(doc), NEW v \in Values(f)
  PROVE  ChoiceHolds(doc, f, v)
<1>1. ~Dotted(f) /\ Kind(doc, SpecOf(f)) = "object"
  BY PropertySound
<1>2. Given(payload, f) /\ v = payload[<<f>>]
  BY <1>1, PlainValues
<1>3. Present(doc, SpecOf(f) \o <<"enum">>) => f \in With(doc, "enum")
  BY <1>1 DEF With
<1> QED BY <1>2, <1>3 DEF ChoiceHolds, EnumValues

\* A pass and the pattern.
LEMMA PassPatterns ==
  ASSUME NEW doc, IsDocument(doc), CheckProperties(doc) = {}, RegexPattern(payload, doc) = {},
         NEW f \in Fields(doc), NEW v \in Values(f)
  PROVE  PatternHolds(doc, f, v)
<1>1. ~Dotted(f) /\ Kind(doc, SpecOf(f)) = "object"
  BY PropertySound
<1>2. Given(payload, f) /\ v = payload[<<f>>] /\ v.kind = Kind(payload, <<f>>)
  BY <1>1, PlainValues
<1>3. Present(doc, SpecOf(f) \o <<"pattern">>) => f \in With(doc, "pattern")
  BY <1>1 DEF With
<1> QED BY <1>2, <1>3, Zenon DEF PatternHolds, RegexPattern

\* A pass and the bounds: CheckRange leaves only numbers, and the first spelling counts.
LEMMA PassBounds ==
  ASSUME NEW doc, IsDocument(doc), CheckProperties(doc) = {}, RangeCheck(payload, doc) = {},
         IsDocument(payload), NEW f \in Fields(doc), NEW v \in Values(f),
         NEW k \in {"min", "max", "minimum", "maximum"}, ~Shadowed(doc, f, k)
  PROVE  BoundHolds(doc, f, k, v)
<1>1. PICK p : p = SpecOf(f) \o <<k>>
  OBVIOUS
<1> SUFFICES ASSUME Present(doc, p), v.kind \in {"integer", "float"}
             PROVE  IF k \in {"min", "minimum"} THEN v.number >= doc[p].number ELSE v.number <= doc[p].number
  BY <1>1 DEF BoundHolds
<1>2. ~Dotted(f) /\ Kind(doc, SpecOf(f)) = "object" /\ doc[p].number \in Int
  BY <1>1, PropertySound
<1>3. Given(payload, f) /\ v = payload[<<f>>] /\ v.kind = Kind(payload, <<f>>) /\ <<f>> \in DOMAIN payload
  BY <1>2, PlainValues
<1>4. v.number \in Int
  BY <1>3 DEF IsDocument
<1>5. f \in With(doc, k)
  BY <1>1, <1>2 DEF With
<1>10. f \in Ranged(doc) /\ IsNumber(payload, f)
  BY <1>3, <1>5 DEF Ranged, IsNumber
<1>6. ASSUME NEW low \in Bound(doc, f, "min", "minimum") PROVE ~(v.number < low)
  BY <1>3, <1>6, <1>10 DEF RangeCheck, BelowRange
<1>7. ASSUME NEW high \in Bound(doc, f, "max", "maximum") PROVE ~(v.number > high)
  BY <1>3, <1>7, <1>10 DEF RangeCheck
<1>11. doc[p].kind \in {"integer", "float"} /\ Kind(doc, p) = doc[p].kind
  BY <1>1, PropertySound DEF Kind, Present
<1>8. CASE k \in {"min", "minimum"}
  <2>1. p = Limit(doc, f, "min", "minimum")
    BY <1>1, <1>8 DEF Limit, Shadowed
  <2>2. doc[p].number \in Bound(doc, f, "min", "minimum")
    BY <1>11, <2>1 DEF Bound
  <2> QED BY <1>2, <1>4, <1>6, <1>8, <2>2
<1>9. CASE k \in {"max", "maximum"}
  <2>1. p = Limit(doc, f, "max", "maximum")
    BY <1>1, <1>9 DEF Limit, Shadowed
  <2>2. doc[p].number \in Bound(doc, f, "max", "maximum")
    BY <1>11, <2>1 DEF Bound
  <2> QED BY <1>2, <1>4, <1>7, <1>9, <2>2
<1> QED BY <1>8, <1>9

\* A pass on a contract in force means that the payload satisfies every clause the rule
\* engine reads: presence, nullness, types, choices, patterns and bounds.
THEOREM PassIsSatisfaction == PolicySpec => []PassMeansSatisfied
<1>1. PolicyInv => PassMeansSatisfied
  <2> SUFFICES ASSUME PolicyInv, outcome = "pass"
               PROVE  PassMeansSatisfied
    BY DEF PassMeansSatisfied
  <2>1. /\ Errors(contract, setup) = {} /\ Breaches(payload, contract) = {}
        /\ IsDocument(contract) /\ IsDocument(payload)
    BY Documents DEF PolicyInv, Admitted, Judged
  <2>2. CheckProperties(contract) = {}
    BY <2>1, NoErrors
  <2>3. /\ FieldPresence(payload, contract) = {} /\ TypeMatch(payload, contract) = {}
        /\ EnumValues(payload, contract) = {} /\ RangeCheck(payload, contract) = {}
        /\ NullGuard(payload, contract) = {} /\ RegexPattern(payload, contract) = {}
    BY <2>1, NoBreaches
  <2>4. ASSUME NEW f \in Names(contract, <<"required">>) PROVE PartsOf(f) \in DOMAIN payload
    BY <2>3, <2>4 DEF FieldPresence, PathPresent
  <2>5. ASSUME NEW f \in Names(contract, <<"null_forbidden">>), ~Dotted(f), NEW v \in Values(f)
        PROVE  v.kind # "null"
    BY <2>3, <2>5, PlainValues DEF NullGuard
  <2>6. ASSUME NEW f \in Fields(contract), NEW v \in Values(f)
        PROVE  /\ v.kind # "null" => TypeHolds(contract, f, v)
               /\ ChoiceHolds(contract, f, v) /\ PatternHolds(contract, f, v)
               /\ \A k \in {"min", "max", "minimum", "maximum"} :
                    ~Shadowed(contract, f, k) => BoundHolds(contract, f, k, v)
    BY <2>1, <2>2, <2>3, <2>6, PassTypes, PassChoices, PassPatterns, PassBounds
  <2> QED BY <2>4, <2>5, <2>6, Zenon DEF PassMeansSatisfied
<1> QED BY <1>1, PolicyInvariant, PTL

-----------------------------------------------------------------------------
(* References: following them from a reference that is not in a cycle ends. *)

\* The reference a chain goes on with.
NextRef(doc, r) ==
  IF r # NoRef /\ Resolves(doc, r) THEN RefAt(doc, Pointers[r]) ELSE NoRef
\* f is the chain from a reference, for n steps.
Follows(doc, start, f, n) ==
  \A i \in 0..n : f[i] = IF i = 0 THEN start ELSE NextRef(doc, f[i - 1])

\* There is a chain of every length.
LEMMA ChainsExist ==
  ASSUME NEW doc, NEW start, NEW n \in Nat
  PROVE  \E f : Follows(doc, start, f, n)
<1> DEFINE Bad == {k \in Nat : ~\E f : Follows(doc, start, f, k)}
<1>1. ASSUME Bad # {} PROVE FALSE
  <2>1. PICK m \in Bad : \A k \in Bad : m <= k
    <3>1. Bad \in SUBSET Nat
      OBVIOUS
    <3> HIDE DEF Bad
    <3> QED BY <1>1, <3>1, LeastNumber
  <2>2. m \in Nat /\ ~\E f : Follows(doc, start, f, m)
    OBVIOUS
  <2>3. \E g : \A i \in 0..(m - 1) : g[i] = IF i = 0 THEN start ELSE NextRef(doc, g[i - 1])
    <3>1. CASE m = 0
      BY <3>1
    <3>2. CASE m # 0
      <4>1. m - 1 \in Nat /\ m - 1 \notin Bad
        <5>1. m - 1 \in Nat /\ ~(m <= m - 1)
          BY <2>2, <3>2
        <5> HIDE DEF Bad
        <5> QED BY <2>1, <5>1
      <4> QED BY <4>1 DEF Follows
    <3> QED BY <3>1, <3>2
  <2>4. PICK g : \A i \in 0..(m - 1) : g[i] = IF i = 0 THEN start ELSE NextRef(doc, g[i - 1])
    BY <2>3
  <2>5. PICK h : h = [i \in 0..m |-> IF i = m THEN IF i = 0 THEN start ELSE NextRef(doc, g[i - 1]) ELSE g[i]]
    OBVIOUS
  <2>6. ASSUME NEW i \in 0..m PROVE h[i] = IF i = 0 THEN start ELSE NextRef(doc, h[i - 1])
    <3>1. CASE i = m
      <4>1. h[i] = IF i = 0 THEN start ELSE NextRef(doc, g[i - 1])
        BY <2>5, <3>1
      <4>2. i # 0 => h[i - 1] = g[i - 1]
        BY <2>2, <2>5, <3>1
      <4> QED BY <4>1, <4>2
    <3>2. CASE i # m
      <4>1. h[i] = g[i] /\ i \in 0..(m - 1)
        BY <2>2, <2>5, <3>2
      <4>2. i # 0 => h[i - 1] = g[i - 1]
        BY <2>2, <2>5, <3>2
      <4> QED BY <2>4, <4>1, <4>2
    <3> QED BY <3>1, <3>2
  <2>7. Follows(doc, start, h, m)
    BY <2>6 DEF Follows
  <2> QED BY <2>2, <2>7
<1>2. n \notin Bad
  <2> HIDE DEF Bad
  <2> QED BY <1>1
<1> QED BY <1>2

\* A reference into a set of places that refers into itself is in a cycle.
LEMMA LoopIsCycle ==
  ASSUME NEW doc, NEW loop,
         \A p \in loop : /\ RefAt(doc, p) # NoRef /\ Resolves(doc, RefAt(doc, p))
                         /\ Pointers[RefAt(doc, p)] \in loop,
         NEW p0 \in loop
  PROVE  ReferenceCycle(doc, RefAt(doc, p0))
<1> DEFINE start == RefAt(doc, p0)
           bound == Cardinality(DOMAIN Pointers) + 1
           Is(f) == f = [n \in 0 .. bound |->
                           IF n = 0 THEN start
                           ELSE IF f[n - 1] # NoRef /\ Resolves(doc, f[n - 1])
                                THEN RefAt(doc, Pointers[f[n - 1]])
                                ELSE NoRef]
           C == CHOOSE f : Is(f)
<1>1. bound \in Nat
  BY DocumentTexts, FS_CardinalityType
<1>2. \E f : Is(f)
  <2>1. PICK g : Follows(doc, start, g, bound)
    <3> HIDE DEF start, bound
    <3> QED BY <1>1, ChainsExist
  <2>2. PICK h : h = [i \in 0..bound |-> g[i]]
    OBVIOUS
  <2>3. \A i \in 0..bound : h[i] = IF i = 0 THEN start ELSE NextRef(doc, h[i - 1])
    <3> HIDE DEF start, bound
    <3> QED BY <1>1, <2>1, <2>2 DEF Follows
  <2>4. h = [i \in 0..bound |-> h[i]]
    BY <2>2
  <2>5. Is(h)
    <3> HIDE DEF start, bound
    <3> QED BY <2>3, <2>4 DEF NextRef
  <2> QED BY <2>5
<1>3. Is(C)
  <2> HIDE DEF Is
  <2> QED BY <1>2, Zenon
<1>4. PICK c : c = C
  OBVIOUS
<1>5. c = [n \in 0 .. bound |-> IF n = 0 THEN start
                                ELSE IF c[n - 1] # NoRef /\ Resolves(doc, c[n - 1])
                                     THEN RefAt(doc, Pointers[c[n - 1]])
                                     ELSE NoRef]
  <2> HIDE DEF C
  <2> QED BY <1>3, <1>4
<1>6. \A n \in 0..bound : \E p \in loop : c[n] = RefAt(doc, p)
  <2> DEFINE Bad == {n \in 0..bound : ~\E p \in loop : c[n] = RefAt(doc, p)}
  <2>1. ASSUME Bad # {} PROVE FALSE
    <3>1. PICK m \in Bad : \A k \in Bad : m <= k
      <4>1. Bad \in SUBSET Nat
        OBVIOUS
      <4> HIDE DEF Bad
      <4> QED BY <2>1, <4>1, LeastNumber
    <3>2. m \in 0..bound /\ ~\E p \in loop : c[m] = RefAt(doc, p)
      OBVIOUS
    <3>3. CASE m = 0
      BY <1>1, <1>5, <3>2, <3>3
    <3>4. CASE m # 0
      <4>1. m - 1 \in 0..bound /\ ~(m <= m - 1)
        BY <1>1, <3>2, <3>4
      <4>2. PICK p \in loop : c[m - 1] = RefAt(doc, p)
        BY <3>1, <4>1
      <4>3. c[m] = RefAt(doc, Pointers[c[m - 1]])
        BY <1>5, <3>2, <3>4, <4>2
      <4> QED BY <3>2, <4>2, <4>3
    <3> QED BY <3>3, <3>4
  <2>2. Bad = {}
    BY <2>1
  <2> QED BY <2>2
<1>7. c[bound] # NoRef
  BY <1>1, <1>6
<1>8. ReferenceCycle(doc, start) <=> C[bound] # NoRef
  BY Zenon DEF ReferenceCycle
<1> QED BY <1>4, <1>7, <1>8

\* The reference of a schema without errors.
LEMMA ReferenceSound ==
  ASSUME NEW doc, IsDocument(doc), CheckReferences(doc) = {}, NEW p \in Subschemas(doc),
         Kind(doc, Append(p, "$ref")) \notin {"absent", "null"}
  PROVE  /\ p \in DOMAIN doc /\ RefAt(doc, p) # NoRef /\ Resolves(doc, RefAt(doc, p))
         /\ ~ReferenceCycle(doc, RefAt(doc, p))
<1>1. PICK q : q = Append(p, "$ref")
  OBVIOUS
<1>2. Kind(doc, q) = "string" /\ Local(doc[q].text) /\ Resolves(doc, doc[q].text)
      /\ ~ReferenceCycle(doc, doc[q].text)
  BY <1>1 DEF CheckReferences
<1>3. p \in DOMAIN doc /\ doc[p].kind = "object"
  BY SubschemasAre DEF Walk
<1>4. RefAt(doc, p) = doc[q].text
  BY <1>1, <1>2, <1>3 DEF RefAt, Kind
<1>5. doc[q].text # NoRef
  BY <1>2, DocumentTexts DEF Local
<1> QED BY <1>2, <1>3, <1>4, <1>5

\* In a contract in force every reference of a schema names a place of the document, and
\* no chain of direct references ($ref to an object with a $ref of its own) from a schema
\* comes back.  It says nothing of a way back through other keywords: allOf: [{$ref: "#"}]
\* is admitted.
THEOREM ReferencesComeToAnEnd == PolicySpec => []ReferencesEnd
<1>1. PolicyInv => ReferencesEnd
  <2> SUFFICES ASSUME PolicyInv, status = "active" PROVE ReferencesEnd
    BY DEF ReferencesEnd
  <2>1. IsDocument(contract) /\ CheckReferences(contract) = {}
    BY Documents, NoErrors DEF PolicyInv, Admitted
  <2> DEFINE referring == {p \in DOMAIN contract : RefAt(contract, p) # NoRef}
  <2>2. ASSUME NEW p \in Subschemas(contract),
               Kind(contract, Append(p, "$ref")) \notin {"absent", "null"}
        PROVE  p \in referring /\ Resolves(contract, RefAt(contract, p))
    BY <2>1, <2>2, ReferenceSound
  <2>3. ASSUME NEW loop \in SUBSET referring, NEW p0 \in loop \cap Subschemas(contract),
               \A p \in loop : Resolves(contract, RefAt(contract, p))
                               /\ Pointers[RefAt(contract, p)] \in loop
        PROVE  FALSE
    <3>1. ReferenceCycle(contract, RefAt(contract, p0))
      BY <2>3, LoopIsCycle
    <3>2. Kind(contract, Append(p0, "$ref")) = "string"
      BY <2>3 DEF RefAt
    <3> QED BY <2>1, <3>1, <3>2, ReferenceSound
  <2> QED BY <2>2, <2>3 DEF ReferencesEnd
<1> QED BY <1>1, PolicyInvariant, PTL

-----------------------------------------------------------------------------
(* Keywords outside the rule engine's vocabulary.                          *)

\* What the scan finds at the top and in the properties.
LEMMA UnenforcedIs ==
  ASSUME NEW doc, IsDocument(doc), NEW q \in Unenforced(doc)
  PROVE  /\ q \in DOMAIN doc /\ q # <<>> /\ Last(q) \notin MetadataKeywords
         /\ q = Append(Front(q), Last(q)) /\ Front(q) \in DOMAIN doc
         /\ \/ Front(q) = <<>> /\ q = <<Last(q)>>
            \/ /\ Front(q) \in Below(doc, <<"properties">>)
               /\ Kind(doc, <<"properties">>) = "object" /\ Kind(doc, Front(q)) = "object"
<1>1. q \in DOMAIN doc
  BY UnenforcedThere
<1>2. CASE \E k \in Keys(doc, <<>>) \ (TopLevelKeywords \cup MetadataKeywords) : q = <<k>>
  <2>1. PICK k \in Keys(doc, <<>>) \ (TopLevelKeywords \cup MetadataKeywords) : q = <<k>>
    BY <1>2
  <2>2. Front(<<k>>) = <<>> /\ Last(<<k>>) = k /\ <<k>> # <<>>
    BY PositionOne
  <2> QED BY <1>1, <2>1, <2>2, PositionAbove
<1>3. CASE \E p \in Below(doc, <<"properties">>) :
             /\ Kind(doc, <<"properties">>) = "object" /\ Kind(doc, p) = "object"
             /\ q \in Below(doc, p) /\ Last(q) \notin MetadataKeywords
  <2>1. PICK p \in Below(doc, <<"properties">>) :
             /\ Kind(doc, <<"properties">>) = "object" /\ Kind(doc, p) = "object"
             /\ q \in Below(doc, p) /\ Last(q) \notin MetadataKeywords
    BY <1>3
  <2>2. q # <<>> /\ Front(q) = p
    BY <2>1, KindThere, BelowIs
  <2> QED BY <1>1, <2>1, <2>2, PositionAbove
<1>4. \/ \E k \in Keys(doc, <<>>) \ (TopLevelKeywords \cup MetadataKeywords) : q = <<k>>
      \/ \E p \in Below(doc, <<"properties">>) :
             /\ Kind(doc, <<"properties">>) = "object" /\ Kind(doc, p) = "object"
             /\ q \in Below(doc, p) /\ Last(q) \notin MetadataKeywords
  BY DEF Unenforced
<1> QED BY <1>2, <1>3, <1>4

\* A clause the scan finds is a clause of a schema: of the contract or of a property.
LEMMA UnenforcedInSchema ==
  ASSUME NEW doc, IsDocument(doc), Kind(doc, <<>>) = "object", NEW q \in Unenforced(doc)
  PROVE  Front(q) \in Subschemas(doc)
<1>1. PICK g : /\ Subschemas(doc) = {p \in DOMAIN doc : g[p]}
               /\ \A p \in DOMAIN doc : g[p] <=> Walk(doc, g, p)
  BY SubschemasAre
<1>2. <<>> \in DOMAIN doc /\ g[<<>>]
  BY <1>1, KindThere DEF Walk, Kind
<1>3. CASE Front(q) = <<>>
  BY <1>1, <1>2, <1>3
<1>4. CASE /\ Front(q) \in Below(doc, <<"properties">>)
           /\ Kind(doc, <<"properties">>) = "object" /\ Kind(doc, Front(q)) = "object"
  <2>1. PICK p : p = Front(q)
    OBVIOUS
  <2>2. <<"properties">> \in DOMAIN doc
    BY <1>4, KindThere
  <2>a. PICK r, x : r = <<"properties">> /\ x = Last(p)
    OBVIOUS
  <2>b. p \in Below(doc, r) /\ r \in DOMAIN doc
    BY <1>4, <2>1, <2>2, <2>a
  <2>c. p \in DOMAIN doc /\ p # <<>> /\ Front(p) = r /\ p = Append(r, Last(p))
    BY ONLY IsDocument(doc), <2>b, BelowIs
  <2>3. p \in DOMAIN doc /\ p # <<>> /\ Front(p) = <<"properties">> /\ p = Append(<<"properties">>, x)
    BY <2>a, <2>c
  <2>4. Append(<<"properties">>, x) = <<"properties", x>>
    BY PositionTwo
  <2>5. Len(p) = 2 /\ p[Len(p) - 1] = "properties"
    <3>1. p = <<"properties", x>>
      BY <2>3, <2>4
    <3> QED BY ONLY <3>1
  <2>6. Front(<<"properties">>) = <<>>
    BY PositionOne
  <2>7. Walk(doc, g, p)
    <3>1. doc[p].kind = "object"
      BY <1>4, <2>1, <2>3 DEF Kind
    <3>2. Len(p) > 1 /\ p[Len(p) - 1] \in SchemaMapValued
      BY <2>5 DEF SchemaMapValued
    <3>3. Kind(doc, Front(p)) = "object" /\ g[Front(Front(p))]
      BY <1>2, <1>4, <2>3, <2>6
    <3> QED BY <3>1, <3>2, <3>3, Zenon DEF Walk
  <2> QED BY <1>1, <2>1, <2>3, <2>7
<1> QED BY <1>3, <1>4, UnenforcedIs

\* Findings within the cap are all in the report.
LEMMA ReportedAll ==
  ASSUME NEW doc, IsDocument(doc), \A q \in Unenforced(doc) : Listed(q),
         Cardinality(Unenforced(doc)) <= MaxReported
  PROVE  Reported(doc) = Unenforced(doc)
<1> DEFINE U == Unenforced(doc)
           Earlier(q) == {r \in U : Before(r, q)}
<1>1. IsFiniteSet(U) /\ Cardinality(U) \in Nat
  <2>1. IsFiniteSet(DOMAIN doc) /\ U \subseteq DOMAIN doc
    BY UnenforcedThere DEF IsDocument
  <2>2. IsFiniteSet(U)
    BY <2>1, FS_Subset
  <2> QED BY <2>2, FS_CardinalityType
<1>2. ASSUME NEW x \in Range(Alphabet) PROVE Place(x) \in Nat
  <2>1. \E i \in DOMAIN Alphabet : Alphabet[i] = x
    BY DEF Range
  <2>2. Place(x) \in DOMAIN Alphabet
    BY <2>1, Zenon DEF Place
  <2>3. DOMAIN Alphabet \subseteq Nat
    BY AlphabetOrdered
  <2> QED BY <2>2, <2>3
<1>3. ASSUME NEW q \in U PROVE ~Before(q, q)
  <2>1. q \in Seq(STRING) /\ q # <<>> /\ Listed(q)
    BY UnenforcedIs DEF IsDocument
  <2>2. Len(q) \in Nat /\ Len(q) # 0 /\ DOMAIN q = 1..Len(q)
    BY <2>1, EmptySeq, LenProperties
  <2>3. Place(Last(q)) \in Nat
    <3>1. Last(q) \in Range(Alphabet)
      BY <2>1, <2>2 DEF Listed, Last
    <3> QED BY <1>2, <3>1
  <2>4. Len(q) # 1 => Place(q[2]) \in Nat
    <3>1. Len(q) # 1 => q[2] \in Range(Alphabet)
      BY <2>1, <2>2 DEF Listed
    <3> QED BY <1>2, <3>1
  <2> QED BY <2>3, <2>4 DEF Before
<1>4. ASSUME NEW q \in U PROVE Cardinality(Earlier(q)) < MaxReported
  <2>1. IsFiniteSet(U \ {q}) /\ Cardinality(U \ {q}) = Cardinality(U) - 1
    BY <1>1, FS_RemoveElement
  <2>2. Earlier(q) \subseteq U \ {q}
    BY <1>3
  <2>3. /\ IsFiniteSet(Earlier(q)) /\ Cardinality(Earlier(q)) <= Cardinality(U \ {q})
        /\ Cardinality(Earlier(q)) \in Nat
    <3>1. IsFiniteSet(Earlier(q)) /\ Cardinality(Earlier(q)) <= Cardinality(U \ {q})
      BY <2>1, <2>2, FS_Subset
    <3> QED BY <3>1, FS_CardinalityType
  <2> HIDE DEF Earlier, U
  <2>4. MaxReported \in Nat /\ Cardinality(U) <= MaxReported
    BY CapsPositive DEF U
  <2> QED BY <1>1, <2>1, <2>3, <2>4
<1> QED BY <1>4 DEF Reported

\* A keyword the evaluator claims is one the library asserts under that draft.
LEMMA ClaimedIsAsserted ==
  ASSUME NEW d \in Range(DraftOrder), NEW formats, NEW k \in Capability(d, formats).keywords
  PROVE  /\ k \in Asserted[d]
         /\ k = "format" => formats
<1>1. PICK n \in DOMAIN DraftOrder : Rank(d) = n - 1 /\ DraftOrder[n] = d /\ n \in Nat
  <2>1. \E i \in DOMAIN DraftOrder : DraftOrder[i] = d
    BY DEF Range
  <2>2. PICK m \in DOMAIN DraftOrder : DraftOrder[m] = d /\ m = CHOOSE i \in DOMAIN DraftOrder : DraftOrder[i] = d
    BY <2>1, Zenon
  <2>3. m \in Nat
    BY DraftsKnown
  <2>4. Rank(d) = m - 1
    BY <2>2, Zenon DEF Rank
  <2>5. Rank(d) = m - 1 /\ DraftOrder[m] = d /\ m \in DOMAIN DraftOrder /\ m \in Nat
    BY <2>2, <2>3, <2>4
  <2> QED BY <2>5, Zenon
<1>2. /\ Handlers[d] \subseteq Asserted[d]
      /\ "$ref" \in Handlers[d] => {"$defs", "definitions"} \subseteq Asserted[d]
      /\ "if" \in Handlers[d] => {"then", "else"} \subseteq Asserted[d]
      /\ "contains" \in Handlers[d] /\ n > 3 => {"minContains", "maxContains"} \subseteq Asserted[d]
  BY <1>1, AssertedAssumption
<1>3. \/ k \in Handlers[d]
      \/ "$ref" \in Handlers[d] /\ k \in {"$defs", "definitions"}
      \/ /\ k \in DOMAIN Composed /\ Composed[k] \in Handlers[d]
         /\ k \in DOMAIN ComposedMinRank => Rank(d) >= ComposedMinRank[k]
  BY DEF Capability
<1>4. k = "format" => formats
  BY DEF Capability
<1>5. ASSUME k \in DOMAIN Composed
      PROVE  \/ k \in {"then", "else"} /\ Composed[k] = "if"
             \/ /\ k \in {"minContains", "maxContains"} /\ Composed[k] = "contains"
                /\ k \in DOMAIN ComposedMinRank /\ ComposedMinRank[k] = 3
  BY <1>5 DEF Composed, ComposedMinRank
<1> QED BY <1>1, <1>2, <1>3, <1>4, <1>5

\* A clause outside the rule engine's vocabulary, in a contract without errors.
LEMMA ForeignExecuted ==
  ASSUME NEW doc, IsDocument(doc), setup \in Setups, Errors(doc, setup) = {},
         Reported(doc) = Unenforced(doc),
         NEW q \in Unenforced(doc), ~Dotted(Last(q)), Last(q) \notin NativeKeywords
  PROVE  q \in Executed(doc) \/ PassedOver(doc, q)
<1> SUFFICES ASSUME ~PassedOver(doc, q) PROVE q \in Executed(doc)
  OBVIOUS
<1> DEFINE cap == Capability(setup.draft, setup.formats)
<1>1. PICK k, p : k = Last(q) /\ p = Front(q)
  OBVIOUS
<1>2. setup.draft \in Range(DraftOrder) /\ setup.semantic \in BOOLEAN
  BY PolicyAssumption
<1>3. /\ CheckUnsupportedKeywords(doc, Wired(setup)) = {} /\ CheckExclusiveBounds(doc, Wired(setup)) = {}
      /\ setup.semantic => CheckFormats(doc, Wired(setup)) = {}
      /\ Kind(doc, <<>>) = "object"
  BY NoErrors
<1>4. /\ q \in DOMAIN doc /\ q # <<>> /\ k \notin MetadataKeywords /\ q = Append(p, k)
      /\ p \in Subschemas(doc)
  BY <1>1, <1>3, UnenforcedIs, UnenforcedInSchema
<1>5. q \in Clauses(doc)
  BY <1>1, <1>4 DEF Clauses
<1>6. k \in ExclusiveBounds \/ k \in Wired(setup).keywords
  <2>1. KeywordOf(q) = k
    <3>1. PartsOf(k) = <<k>> /\ Last(<<k>>) = k
      BY <1>1, PlainName, PositionOne
    <3> QED BY <1>1, <3>1 DEF KeywordOf
  <2>2. k # "type"
    BY <1>1 DEF NativeKeywords, PropertyKeywords
  <2> QED BY <1>3, <1>4, <2>1, <2>2 DEF CheckUnsupportedKeywords
<1>7. ASSUME k \in ExclusiveBounds PROVE EnforcesBound(Wired(setup), doc, p, k)
  <2>1. Present(doc, Append(p, k))
    BY <1>4 DEF Present
  <2>2. Issue("unsupported_keyword", Append(p, k)) \notin CheckExclusiveBounds(doc, Wired(setup))
    BY <1>3
  <2> QED BY <1>4, <1>7, <2>1, <2>2 DEF CheckExclusiveBounds
<1>8. setup.semantic
  <2>1. ASSUME ~setup.semantic PROVE FALSE
    <3>1. Wired(setup) = [keywords |-> NativeKeywords, formats |-> {}, booleanBounds |-> FALSE]
      BY <2>1 DEF Wired
    <3>2. k \in ExclusiveBounds /\ k \notin Wired(setup).keywords /\ ~Wired(setup).booleanBounds
      BY <1>1, <1>6, <3>1
    <3> QED BY <1>7, <3>2 DEF EnforcesBound
  <2> QED BY <2>1
<1>9. Wired(setup) = [cap EXCEPT !.keywords = cap.keywords \cup NativeKeywords]
  BY <1>8 DEF Wired
<1>10. /\ Wired(setup).keywords = cap.keywords \cup NativeKeywords
       /\ Wired(setup).formats = cap.formats /\ Wired(setup).booleanBounds = cap.booleanBounds
  BY <1>9 DEF Capability
<1> HIDE DEF cap
<1>11. CASE k \in ExclusiveBounds
  <2>1. EnforcesBound(cap, doc, p, k)
    BY <1>1, <1>7, <1>10, <1>11 DEF EnforcesBound
  <2>2. EnforcesBound(Capability(setup.draft, setup.formats), doc, Front(q), Last(q))
    BY <1>1, <2>1 DEF cap
  <2>3. Last(q) \in ExclusiveBounds
    BY <1>1, <1>11
  <2> QED BY <1>5, <1>8, <2>2, <2>3, Zenon DEF Executed
<1>12. CASE k = "format"
  <2>1. k \in cap.keywords /\ k \notin ExclusiveBounds
    BY <1>1, <1>6, <1>10, <1>12 DEF ExclusiveBounds
  <2>2. setup.formats
    BY <1>2, <1>12, <2>1, ClaimedIsAsserted DEF cap
  <2>3. cap.formats = Formats[setup.draft]
    BY <2>2 DEF cap, Capability
  <2>4. Kind(doc, q) = "string" => doc[q].text \in Formats[setup.draft]
    <3>1. CheckFormats(doc, Wired(setup)) = {}
      BY <1>3, <1>8
    <3>2. Kind(doc, q) = "string" => doc[q].text \in Wired(setup).formats
      BY <1>4, <1>12, <3>1 DEF CheckFormats
    <3> QED BY <1>10, <2>3, <3>2
  <2> QED BY <1>1, <1>5, <1>8, <1>12, <2>1, <2>2, <2>4 DEF Executed
<1>13. CASE k \notin ExclusiveBounds /\ k # "format"
  <2>1. k \in Asserted[setup.draft]
    BY <1>1, <1>2, <1>6, <1>10, <1>13, ClaimedIsAsserted DEF cap
  <2> QED BY <1>1, <1>5, <1>8, <1>13, <2>1 DEF Executed
<1> QED BY <1>11, <1>12, <1>13

\* A clause outside the rule engine's vocabulary is not left to nobody by a contract in
\* force: the semantic evaluator is on and executes it, under its draft and with its
\* formats, or JSON Schema itself gives it no effect where it stands.
THEOREM ForeignClausesAreExecuted == PolicySpec => []ForeignClausesExecuted
<1>1. PolicyInv => ForeignClausesExecuted
  <2> SUFFICES ASSUME PolicyInv, NEW q \in ForeignClauses
               PROVE  q \in Executed(contract) \/ PassedOver(contract, q)
    BY Zenon DEF ForeignClausesExecuted
  <2>0. /\ status = "active" /\ Cardinality(Unenforced(contract)) <= MaxReported
        /\ q \in Unenforced(contract) /\ ~Dotted(Last(q)) /\ Last(q) \notin NativeKeywords
    BY DEF ForeignClauses
  <2>1. contract \in Contracts /\ setup \in Setups /\ Errors(contract, setup) = {}
    BY <2>0 DEF PolicyInv, Admitted
  <2>2. IsDocument(contract) /\ \A r \in Unenforced(contract) : Listed(r)
    BY <2>1, PolicyAssumption
  <2>3. Reported(contract) = Unenforced(contract)
    BY <2>0, <2>2, ReportedAll
  <2> QED BY <2>0, <2>1, <2>2, <2>3, ForeignExecuted
<1> QED BY <1>1, PolicyInvariant, PTL
=============================================================================
