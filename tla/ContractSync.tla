----------------------------- MODULE ContractSync -----------------------------
(***************************************************************************)
(* Contract synchronisation: SyncContractsUseCase over                     *)
(* HttpContractRepository, in several worker processes that share one      *)
(* snapshot file, its write lock and the boot lock.  A thread runs one     *)
(* pass at a time: bootstrap (single-flight) until one returns, then       *)
(* sync_once again and again, as the background worker that bootstrap      *)
(* starts does.  The control plane serves numbered releases;               *)
(* a release offers each contract id as "ok", "rejected" by admission,     *)
(* "broken" (an element that is not an object, on which priming raises)    *)
(* or not at all.                                                          *)
(*                                                                         *)
(* The breaker's verdict is a free choice here (BreakerClients models it), *)
(* whatever the control plane does, until the breaker is said to admit for *)
(* good; so is the moment an entry leaves the cache by TTL or LFU eviction *)
(* (LFUCache models that).                                                 *)
(***************************************************************************)
EXTENDS Integers, FiniteSets

CONSTANTS Procs, Threads, Ids,
          HostOf,       \* the process of each thread
          Offer,        \* Offer[r][i]: how release r offers contract i
          MaxRelease,   \* bound: releases the control plane publishes
          MaxCrashes,   \* bound: process crashes
          MaxCorrupt,   \* bound: times the snapshot file is damaged
          Nobody        \* the holder of a free lock

Offers == {"ok", "rejected", "broken", "absent"}
Releases == 1..MaxRelease

ASSUME SyncAssumption ==
  /\ IsFiniteSet(Ids)
  /\ HostOf \in [Threads -> Procs]
  /\ MaxRelease \in Nat /\ MaxCrashes \in Nat /\ MaxCorrupt \in Nat
  /\ Offer \in [Releases -> [Ids -> Offers]]
  /\ Nobody \notin Threads

NoSnapshot == 0
Damaged == -1

VARIABLES reachable,  \* from now on every fetch succeeds
          admitting,  \* processes whose breaker, from now on, admits every fetch
          release,    \* what the control plane serves now; 0 before the first
          cache,      \* cache[p][i]: release of the schema served, 0 for none
          snapshot,   \* release in the snapshot file, NoSnapshot or Damaged
          bootLock, snapLock,  \* holders of the two file locks
          booted,     \* a bootstrap has returned since the process started
          pc,         \* where each thread's pass is
          got,        \* release the pass is applying
          fetched,    \* it came from the control plane, not from the disk
          todo,       \* contracts of that release still to prime
          crashes, corruptions,
          departed    \* history: what a process has none of for a good reason: it was
                      \* not put yet, expired, was evicted, or was lost in a crash

vars == <<reachable, admitting, release, cache, snapshot, bootLock, snapLock, booted,
          pc, got, fetched, todo, crashes, corruptions, departed>>

passVars == <<booted, pc, got, fetched, todo>>
worldVars == <<reachable, admitting, release, crashes, corruptions>>
cacheVars == <<cache, departed>>

PCs == {"idle", "fetch", "served", "fallback", "sibling", "prime", "save",
        "write", "replace"}

TypeOK ==
  /\ reachable \in BOOLEAN
  /\ admitting \subseteq Procs
  /\ release \in 0..MaxRelease
  /\ cache \in [Procs -> [Ids -> 0..MaxRelease]]
  /\ snapshot \in 0..MaxRelease \cup {Damaged}
  /\ bootLock \in Threads \cup {Nobody}
  /\ snapLock \in Threads \cup {Nobody}
  /\ booted \in [Threads -> BOOLEAN]
  /\ pc \in [Threads -> PCs]
  /\ got \in [Threads -> 0..MaxRelease]
  /\ fetched \in [Threads -> BOOLEAN]
  /\ todo \in [Threads -> SUBSET Ids]
  /\ crashes \in 0..MaxCrashes
  /\ corruptions \in 0..MaxCorrupt
  /\ departed \subseteq Procs \X Ids

Init ==
  /\ reachable = FALSE /\ admitting = {}
  /\ release = 0
  /\ cache = [p \in Procs |-> [i \in Ids |-> 0]]
  /\ snapshot = NoSnapshot
  /\ bootLock = Nobody /\ snapLock = Nobody
  /\ booted = [t \in Threads |-> FALSE]
  /\ pc = [t \in Threads |-> "idle"]
  /\ got = [t \in Threads |-> 0]
  /\ fetched = [t \in Threads |-> FALSE]
  /\ todo = [t \in Threads |-> {}]
  /\ crashes = 0 /\ corruptions = 0
  /\ departed = Procs \X Ids

\* The contracts a pass gets of release r.  Loading a snapshot drops the elements
\* that are not objects; a fetched list keeps them.
Offered(r, online) ==
  {i \in Ids : r # 0 /\ Offer[r][i] \in {"ok", "rejected"} \cup (IF online THEN {"broken"} ELSE {})}

\* The pass moves on to another step.
Goto(t, label) == pc' = [pc EXCEPT ![t] = label]

\* The pass ends, by return or by exception: the boot lock is released if held.
EndPass(t) ==
  /\ Goto(t, "idle")
  /\ got' = [got EXCEPT ![t] = 0]
  /\ fetched' = [fetched EXCEPT ![t] = FALSE]
  /\ todo' = [todo EXCEPT ![t] = {}]
  /\ bootLock' = IF bootLock = t THEN Nobody ELSE bootLock

Return(t) == EndPass(t) /\ booted' = [booted EXCEPT ![t] = TRUE]
Raise(t) == EndPass(t) /\ UNCHANGED booted

\* _apply begins: an empty list leaves the cache as it is.
Apply(t, r, online) ==
  IF Offered(r, online) = {} THEN Return(t)
  ELSE /\ Goto(t, "prime")
       /\ got' = [got EXCEPT ![t] = r]
       /\ fetched' = [fetched EXCEPT ![t] = online]
       /\ todo' = [todo EXCEPT ![t] = Offered(r, online)]
       /\ UNCHANGED <<bootLock, booted>>

-----------------------------------------------------------------------------
(* A pass.                                                                 *)

\* sync_once_single_flight: the lock is tried once and never waited for.
BeginBoot(t) ==
  /\ pc[t] = "idle"
  /\ ~booted[t]
  /\ IF bootLock = Nobody
       THEN bootLock' = t /\ Goto(t, "fetch")
       ELSE bootLock' = bootLock /\ Goto(t, "sibling")
  /\ UNCHANGED <<worldVars, cacheVars, snapshot, snapLock, booted, got, fetched, todo>>

\* Mutant: the background pass never asks the control plane.
SyncFromDisk(t) ==
  /\ pc[t] = "idle"
  /\ booted[t]
  /\ Goto(t, "fallback")
  /\ UNCHANGED <<worldVars, cacheVars, snapshot, bootLock, snapLock, booted, got,
                 fetched, todo>>

\* sync_once
BeginSync(t) ==
  /\ pc[t] = "idle"
  /\ booted[t]
  /\ Goto(t, "fetch")
  /\ UNCHANGED <<worldVars, cacheVars, snapshot, bootLock, snapLock, booted, got,
                 fetched, todo>>

\* The breaker is open, cooling down or out of probes: it is asked first, whether the
\* control plane is back or not.
BreakerRefuses(t) ==
  /\ pc[t] = "fetch"
  /\ HostOf[t] \notin admitting
  /\ Goto(t, "fallback")
  /\ UNCHANGED <<worldVars, cacheVars, snapshot, bootLock, snapLock, booted, got,
                 fetched, todo>>

\* The control plane answers a request with what it serves at that moment; the
\* answer may reach the pass much later.
Serve(t) ==
  /\ pc[t] = "fetch"
  /\ got' = [got EXCEPT ![t] = release]
  /\ Goto(t, "served")
  /\ UNCHANGED <<worldVars, cacheVars, snapshot, bootLock, snapLock, booted, fetched,
                 todo>>

Receive(t) ==
  /\ pc[t] = "served"
  /\ Apply(t, got[t], TRUE)
  /\ UNCHANGED <<worldVars, cacheVars, snapshot, snapLock>>

\* CongineSyncError: transport failure, refused status, malformed body.
FetchFails(t) ==
  /\ pc[t] \in {"fetch", "served"}
  /\ ~reachable
  /\ Goto(t, "fallback")
  /\ got' = [got EXCEPT ![t] = 0]
  /\ UNCHANGED <<worldVars, cacheVars, snapshot, bootLock, snapLock, booted, fetched,
                 todo>>

\* Anything else ends the pass: a cancelled task, an exception fetch does not map.
FetchRaises(t) ==
  /\ pc[t] \in {"fetch", "served"}
  /\ ~reachable
  /\ Raise(t)
  /\ UNCHANGED <<worldVars, cacheVars, snapshot, snapLock>>

LoadSnapshot(t) ==
  /\ pc[t] \in {"fallback", "sibling"}
  /\ Apply(t, IF snapshot = Damaged THEN 0 ELSE snapshot, FALSE)
  /\ UNCHANGED <<worldVars, cacheVars, snapshot, snapLock>>

\* Mutant: admission is asked, and its answer ignored.
PrimeUnadmitted(t, i) ==
  /\ pc[t] = "prime"
  /\ i \in todo[t]
  /\ cache' = [cache EXCEPT ![HostOf[t]][i] = got[t]]
  /\ departed' = departed \ {<<HostOf[t], i>>}
  /\ todo' = [todo EXCEPT ![t] = @ \ {i}]
  /\ UNCHANGED <<pc, got, fetched, bootLock, booted, worldVars, snapshot, snapLock>>

\* Mutant: a rejected update takes the schema it was to replace with it.
PrimeForgets(t, i) ==
  /\ pc[t] = "prime"
  /\ i \in todo[t]
  /\ LET offer == Offer[got[t]][i] IN
       /\ cache' = [cache EXCEPT ![HostOf[t]][i] = IF offer = "ok" THEN got[t] ELSE 0]
       /\ departed' = IF offer = "ok" THEN departed \ {<<HostOf[t], i>>} ELSE departed
       /\ IF offer = "broken" THEN Raise(t)
          ELSE /\ todo' = [todo EXCEPT ![t] = @ \ {i}]
               /\ UNCHANGED <<pc, got, fetched, bootLock, booted>>
  /\ UNCHANGED <<worldVars, snapshot, snapLock>>

\* One turn of _prime_cache.  An element that is not an object raises out of the
\* pass; what was primed before it stays.
PrimeOne(t, i) ==
  /\ pc[t] = "prime"
  /\ i \in todo[t]
  /\ LET offer == Offer[got[t]][i] IN
       /\ IF offer = "ok"
          THEN /\ cache' = [cache EXCEPT ![HostOf[t]][i] = got[t]]
               /\ departed' = departed \ {<<HostOf[t], i>>}
          ELSE UNCHANGED cacheVars
       /\ IF offer = "broken" THEN Raise(t)
          ELSE /\ todo' = [todo EXCEPT ![t] = @ \ {i}]
               /\ UNCHANGED <<pc, got, fetched, bootLock, booted>>
  /\ UNCHANGED <<worldVars, snapshot, snapLock>>

\* Only what was fetched is persisted.
Primed(t) ==
  /\ pc[t] = "prime"
  /\ todo[t] = {}
  /\ IF fetched[t]
       THEN Goto(t, "save") /\ UNCHANGED <<got, fetched, todo, bootLock, booted>>
       ELSE Return(t)
  /\ UNCHANGED <<worldVars, cacheVars, snapshot, snapLock>>

-----------------------------------------------------------------------------
(* save_snapshot.                                                          *)

SaveLocks(t) ==
  /\ pc[t] = "save"
  /\ snapLock = Nobody
  /\ snapLock' = t
  /\ Goto(t, "write")
  /\ UNCHANGED <<worldVars, cacheVars, snapshot, bootLock, booted, got, fetched, todo>>

\* The lock stayed busy for the whole timeout: the write is skipped.
SaveSkipped(t) ==
  /\ pc[t] = "save"
  /\ snapLock # Nobody
  /\ Return(t)
  /\ UNCHANGED <<worldVars, cacheVars, snapshot, snapLock>>

\* The contracts go to a temporary file of the pass's own...
WriteTemp(t) ==
  /\ pc[t] = "write"
  /\ Goto(t, "replace")
  /\ UNCHANGED <<worldVars, cacheVars, snapshot, bootLock, snapLock, booted, got,
                 fetched, todo>>

\* ... which then replaces the snapshot in one step.
Replace(t) ==
  /\ pc[t] = "replace"
  /\ snapshot' = got[t]
  /\ snapLock' = Nobody
  /\ Return(t)
  /\ UNCHANGED <<worldVars, cacheVars>>

\* Mutant: an error in the write leaves the lock taken.
SaveFailsLocked(t) ==
  /\ pc[t] \in {"save", "write", "replace"}
  /\ Return(t)
  /\ UNCHANGED <<worldVars, cacheVars, snapshot, snapLock>>

\* An OSError before, during or after the write is logged and the pass returns.
SaveFails(t) ==
  /\ pc[t] \in {"save", "write", "replace"}
  /\ snapLock' = IF snapLock = t THEN Nobody ELSE snapLock
  /\ Return(t)
  /\ UNCHANGED <<worldVars, cacheVars, snapshot>>

-----------------------------------------------------------------------------
(* The rest of the world.                                                  *)

Publish ==
  /\ release < MaxRelease
  /\ release' = release + 1
  /\ UNCHANGED <<reachable, admitting, cacheVars, snapshot, bootLock, snapLock, passVars,
                 crashes, corruptions>>

\* The control plane is healthy for good.
Recover ==
  /\ ~reachable
  /\ reachable' = TRUE
  /\ UNCHANGED <<admitting, release, cacheVars, snapshot, bootLock, snapLock, passVars,
                 crashes, corruptions>>

\* With the control plane back, a probe closes the breaker of p, and nothing opens it.
BreakerCloses(p) ==
  /\ reachable
  /\ p \notin admitting
  /\ admitting' = admitting \cup {p}
  /\ UNCHANGED <<reachable, release, cacheVars, snapshot, bootLock, snapLock, passVars,
                 crashes, corruptions>>

\* A schema expires or is evicted.
Leave(p, i) ==
  /\ cache[p][i] # 0
  /\ cache' = [cache EXCEPT ![p][i] = 0]
  /\ departed' = departed \cup {<<p, i>>}
  /\ UNCHANGED <<worldVars, snapshot, bootLock, snapLock, passVars>>

\* A process dies and restarts: its memory is gone, the system frees its locks.
Crash(p) ==
  /\ crashes < MaxCrashes
  /\ crashes' = crashes + 1
  /\ LET dead == {t \in Threads : HostOf[t] = p}
         Freed(lock) == IF lock \in dead THEN Nobody ELSE lock
     IN /\ pc' = [t \in Threads |-> IF t \in dead THEN "idle" ELSE pc[t]]
        /\ booted' = [t \in Threads |-> t \notin dead /\ booted[t]]
        /\ got' = [t \in Threads |-> IF t \in dead THEN 0 ELSE got[t]]
        /\ fetched' = [t \in Threads |-> t \notin dead /\ fetched[t]]
        /\ todo' = [t \in Threads |-> IF t \in dead THEN {} ELSE todo[t]]
        /\ bootLock' = Freed(bootLock)
        /\ snapLock' = Freed(snapLock)
  /\ cache' = [cache EXCEPT ![p] = [i \in Ids |-> 0]]
  /\ departed' = departed \cup ({p} \X Ids)
  /\ UNCHANGED <<reachable, admitting, release, snapshot, corruptions>>

\* The file is damaged from outside, or replaced by one that is refused.
Corrupt ==
  /\ corruptions < MaxCorrupt
  /\ corruptions' = corruptions + 1
  /\ snapshot' = Damaged
  /\ UNCHANGED <<reachable, admitting, release, cacheVars, bootLock, snapLock, passVars,
                 crashes>>

Fetch(t) == BreakerRefuses(t) \/ Serve(t) \/ Receive(t) \/ FetchFails(t) \/ FetchRaises(t)
Prime(t) == LoadSnapshot(t) \/ Primed(t) \/ \E i \in Ids : PrimeOne(t, i)
Save(t) == SaveLocks(t) \/ SaveSkipped(t) \/ WriteTemp(t) \/ Replace(t) \/ SaveFails(t)

Next ==
  \/ \E t \in Threads : BeginSync(t) \/ BeginBoot(t) \/ Fetch(t) \/ Prime(t) \/ Save(t)
  \/ Publish \/ Recover
  \/ \E p \in Procs, i \in Ids : Leave(p, i)
  \/ \E p \in Procs : BreakerCloses(p) \/ Crash(p)
  \/ Corrupt

Spec == Init /\ [][Next]_vars

\* Bootstrap is retried until it returns, the background worker then keeps
\* syncing, and a pass, once begun, goes on.  Nothing makes the plane recover, or the
\* breaker close.
FairSpec ==
  /\ Spec
  /\ \A t \in Threads :
       /\ WF_vars(BeginBoot(t) \/ BeginSync(t))
       /\ WF_vars(Fetch(t) \/ Prime(t) \/ Save(t))

-----------------------------------------------------------------------------
(* Properties.                                                             *)

\* What a process serves for a contract is a schema admitted under that contract
\* in some release: a rejected or broken update is never active, not even when it
\* comes back from the snapshot, which keeps the whole list.
OnlyAdmittedServed ==
  \A p \in Procs, i \in Ids : cache[p][i] # 0 => Offer[cache[p][i]][i] = "ok"

\* A pass never takes a served schema away: not on a dead control plane, a damaged
\* snapshot, an empty list, a rejected update or an exception half-way.  What goes has
\* expired, was evicted, or was lost in a crash of its process.
PassNeverForgets ==
  [][\A p \in Procs, i \in Ids :
       cache[p][i] # 0 /\ cache'[p][i] = 0 =>
         <<p, i>> \in departed' \ departed]_vars

\* No pass holds a lock it is not using: a lock is always held by a thread inside
\* the section it guards, and so is free again when that pass ends or dies.
LocksInUse ==
  /\ bootLock # Nobody => pc[bootLock] \notin {"idle", "sibling"}
  /\ snapLock # Nobody <=> \E t \in Threads : pc[t] \in {"write", "replace"}
  /\ \A t \in Threads : pc[t] \in {"write", "replace"} => snapLock = t

\* Once the control plane stays reachable and the breaker of a process admits again,
\* that process comes to serve what the plane currently offers, again and again,
\* whatever stale answers, old snapshots and failed writes do in between.  A breaker
\* that never admits again, as one wedged half-open, is the exception.
Converges ==
  \A p \in Procs, i \in Ids :
    []<>(\/ ~reachable \/ p \notin admitting
         \/ cache[p][i] = release
         \/ release = 0
         \/ Offer[release][i] # "ok"
         \/ \E j \in Ids : Offer[release][j] = "broken")
=============================================================================
